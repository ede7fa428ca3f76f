--------------------------- MODULE MCFlowControl ---------------------------
(* Instances of FlowControl for TLC. *)
EXTENDS FlowControl, TLC

=============================================================================
