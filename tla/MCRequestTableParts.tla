------------------------- MODULE MCRequestTableParts -------------------------
(* Two instances in one run.  `part` chooses between the two requests the  *)
(* .cfg describes, which share the notifier of an actor, and one request   *)
(* to three recipients, the fewest for which an envelope that a closed     *)
(* mailbox has returned is offered to another recipient.                   *)
EXTENDS RequestTable

VARIABLE part

Three == INSTANCE RequestTable WITH N <- 3

Made(r) == rpc[r] # "new"

PartsInit ==
    \/ part = "two requests" /\ Init
    \/ part = "three recipients" /\ Three!Init

PartsNext ==
    /\ UNCHANGED part
    /\ \/ part = "two requests" /\ Next
       \/ /\ part = "three recipients" /\ Three!Next
          /\ \A r, q \in Requests : Made(r)' /\ Made(q)' => r = q

\* Liveness is a matter of the first instance.
PartsSpec == PartsInit /\ [][PartsNext]_<<vars, part>> /\ Fairness

\* The table counts its answers and wait() neither misses one nor waits for
\* one that cannot come, for two requests at once and for one whose envelopes
\* are duplicated, returned and offered again (request_table.rs, object.rs).
TablesSound == IF part = "two requests" THEN TableSound ELSE Three!TableSound

\* resolve() returns one answer for each envelope of an All request, and one
\* that a recipient really gave for an Any request.
ResultsComplete ==
    IF part = "two requests" THEN ResultComplete ELSE Three!ResultComplete

\* A request whose future is not dropped ends, though it shares the notifier
\* with another one (RequestTable::wait).
RequestsEnd == part = "two requests" => RequestEnds
=============================================================================
