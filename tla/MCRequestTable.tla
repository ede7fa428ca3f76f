--------------------------- MODULE MCRequestTable ---------------------------
(* Instances of RequestTable for TLC. *)
EXTENDS RequestTable
=============================================================================
