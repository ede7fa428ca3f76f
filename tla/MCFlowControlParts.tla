-------------------------- MODULE MCFlowControlParts --------------------------
(* Two instances in one run.  `part` chooses between the window the .cfg   *)
(* gives, wide enough for an update to be withheld because it is small,    *)
(* and a narrow one, which unbounded sends overdraw.                       *)
EXTENDS FlowControl

VARIABLE part

Narrow == INSTANCE FlowControl WITH InitialWindow <- 2, MaxDebt <- 3

PartsInit ==
    \/ part = "wide" /\ Init
    \/ part = "narrow" /\ Narrow!Init

PartsNext ==
    /\ UNCHANGED part
    /\ \/ part = "wide" /\ Next
       \/ part = "narrow" /\ Narrow!Next

\* Liveness is a matter of the wide window.
PartsSpec == PartsInit /\ [][PartsNext]_<<vars, part>> /\ Fairness

\* No budget is created or lost between the sender's window, the wire and the
\* receiver's account of it (flow_control.rs), overdrawn or not.
WindowsConserved == IF part = "wide" THEN WindowConserved ELSE Narrow!WindowConserved

\* The budget can be used: it does not overflow, is not refused while there is
\* some, and neither a withheld update nor a missed notification leaves a
\* sender without it (RxFlowControl::release, TxFlowControl, SendNotify).
BudgetsUsable == IF part = "wide" THEN BudgetUsable ELSE Narrow!BudgetUsable

\* A bounded send ends its wait once unbounded ones stop, as long as the
\* connection is up and every arrival has been counted by the receiver.
WideSendEnds == part = "wide" => SendEndsIfCounted
=============================================================================
