------------------------------ MODULE Sending ------------------------------
(***************************************************************************)
(* How a context delivers a message (elfo-core/src/context.rs): the demux   *)
(* yields the groups, each group visits its actors with the visitor of the  *)
(* operation (object.rs), and the outcomes are put together.  Meanwhile     *)
(* mailboxes fill up, drain and close.                                      *)
(***************************************************************************)
EXTENDS Integers, Sequences, FiniteSets

CONSTANTS
    Routes,    \* what a group may do: "absent", "done", "empty" or its actors
    Recipients \* actors of the groups

ASSUME SendingAssumption ==
    \A r \in Routes : r \in Seq(Recipients) \ {<<>>}
                      \/ r \in {<<"absent">>, <<"done">>, <<"empty">>}

VARIABLES
    call,     \* do_send_async, try_send or unbounded_send
    visitor,  \* the GroupVisitor of the group being visited
    mailbox,  \* Recipients -> {"open", "full", "closed"}
    got       \* how many copies each recipient has accepted

sendingVars == <<call, visitor, mailbox, got>>

Modes == {"send", "try_send", "unbounded_send"}
NoVisitor == [left |-> <<>>, extra |-> FALSE, full |-> {}, ok |-> FALSE,
              hasFull |-> FALSE]

\* The demux has found `groups`; none is an error at once.
Start(mode, groups) ==
    /\ call.pc = "idle"
    /\ call' = [pc |-> IF groups = <<>> THEN "done" ELSE "next", mode |-> mode,
                to |-> FALSE, groups |-> groups, left |-> groups, unused |-> FALSE,
                ok |-> FALSE, hasFull |-> FALSE,
                result |-> IF groups = <<>> THEN "Closed" ELSE "none"]
    /\ UNCHANGED <<visitor, mailbox, got>>

\* send_to(), try_send_to(), unbounded_send_to(): one object, an actor or a
\* group, whose result is the result of the call.
StartTo(mode, route) ==
    /\ call.pc = "idle"
    /\ call' = [pc |-> "next", mode |-> mode, to |-> TRUE, groups |-> <<route>>,
                left |-> <<route>>, unused |-> FALSE, ok |-> FALSE,
                hasFull |-> FALSE, result |-> "none"]
    /\ UNCHANGED <<visitor, mailbox, got>>

\* One recipient of the loop of do_send_async(), which overwrites `unused`.
AsyncJoined(c, outcome) ==
    [c EXCEPT !.ok = @ \/ outcome = "Ok", !.unused = outcome # "Ok"]

\* The loop of try_send().
TryJoined(c, outcome) ==
    [c EXCEPT !.ok = @ \/ outcome = "Ok", !.unused = @ \/ outcome # "Ok",
              !.hasFull = @ \/ outcome = "Full"]

\* The loop of unbounded_send().
UnboundedJoined(c, outcome) ==
    [c EXCEPT !.ok = @ \/ outcome = "Ok", !.unused = @ \/ outcome # "Ok"]

Joined(c, outcome) ==
    LET next == [c EXCEPT !.pc = "next", !.left = Tail(@)]
    IN  CASE c.to -> [next EXCEPT !.pc = "done", !.result = outcome]
          [] ~c.to /\ c.mode = "send" -> AsyncJoined(next, outcome)
          [] ~c.to /\ c.mode = "try_send" -> TryJoined(next, outcome)
          [] ~c.to /\ c.mode = "unbounded_send" -> UnboundedJoined(next, outcome)

\* AddressBook::get and Object::send, try_send, unbounded_send up to
\* GroupHandle::handle, which may end the visit at once.
NextGroup ==
    /\ call.pc = "next" /\ call.left # <<>>
    /\ LET route == Head(call.left) IN
       CASE route = <<"absent">> ->
              call' = Joined(call, "Closed") /\ UNCHANGED visitor
         [] route = <<"done">> ->
              /\ call' = [call EXCEPT !.pc = "finish"]
              /\ visitor' = [NoVisitor EXCEPT !.ok = TRUE]
         [] route = <<"empty">> ->
              /\ call' = [call EXCEPT !.pc = "finish"]
              /\ visitor' = [NoVisitor EXCEPT !.extra = TRUE]
         [] OTHER ->
              /\ call' = [call EXCEPT !.pc = "visit"]
              /\ visitor' = [NoVisitor EXCEPT !.left = route]
    /\ UNCHANGED <<mailbox, got>>

\* Does the mailbox take the message, in this mode?
Takes(a) == \/ mailbox[a] = "open"
            \/ mailbox[a] = "full" /\ call.mode = "unbounded_send"

\* try_send() of the three visitors.
SendVisited(v, a) ==
    IF Takes(a) THEN [v EXCEPT !.ok = TRUE]
    ELSE IF mailbox[a] = "full" THEN [v EXCEPT !.full = @ \cup {a}]
    ELSE [v EXCEPT !.extra = TRUE]

TryVisited(v, a) ==
    IF Takes(a) THEN [v EXCEPT !.ok = TRUE]
    ELSE [v EXCEPT !.extra = TRUE, !.hasFull = @ \/ mailbox[a] = "full"]

UnboundedVisited(v, a) ==
    IF Takes(a) THEN [v EXCEPT !.ok = TRUE] ELSE [v EXCEPT !.extra = TRUE]

\* visit() uses a copy that came back, visit_last() the original.
Visited(v) ==
    LET a == Head(v.left)
        w == [v EXCEPT !.left = Tail(@), !.extra = @ /\ Len(v.left) = 1]
    IN  CASE call.mode = "send" -> SendVisited(w, a)
          [] call.mode = "try_send" -> TryVisited(w, a)
          [] call.mode = "unbounded_send" -> UnboundedVisited(w, a)

VisitNext ==
    /\ call.pc = "visit"
    /\ LET a == Head(visitor.left) IN
       got' = IF Takes(a) THEN [got EXCEPT ![a] = @ + 1] ELSE got
    /\ visitor' = Visited(visitor)
    /\ call' = [call EXCEPT !.pc = IF Len(visitor.left) = 1 THEN "finish"
                                   ELSE "visit"]
    /\ UNCHANGED mailbox

\* SendGroupVisitor::finish: wait for those that were full, all at once.
\* The results are looked at once all are there.
Wait(a) ==
    /\ call.pc = "finish" /\ a \in visitor.full
    /\ mailbox[a] # "full"
    /\ got' = IF mailbox[a] = "open" THEN [got EXCEPT ![a] = @ + 1] ELSE got
    /\ visitor' = [visitor EXCEPT !.full = @ \ {a},
                      !.ok = @ \/ mailbox[a] = "open",
                      !.extra = @ \/ mailbox[a] = "closed"]
    /\ UNCHANGED <<call, mailbox>>

\* Faulty: the copy of the one that was waited for counts only.
OutcomeStrict(v) == IF v.ok /\ ~v.extra THEN "Ok"
                    ELSE IF v.hasFull THEN "Full" ELSE "Closed"

\* finish(): Ok if anybody has the message; otherwise a copy is expected.
Outcome(v) == IF v.ok THEN "Ok"
              ELSE IF ~v.extra THEN "panic"
              ELSE IF v.hasFull THEN "Full"
              ELSE "Closed"

FinishVisit ==
    /\ call.pc = "finish" /\ visitor.full = {}
    /\ call' = IF Outcome(visitor) = "panic"
               THEN [call EXCEPT !.pc = "done", !.result = "panic"]
               ELSE Joined(call, Outcome(visitor))
    /\ visitor' = NoVisitor
    /\ UNCHANGED <<mailbox, got>>

\* The result of the call; an error gives the message back.
ReturnOutcome ==
    /\ call.pc = "next" /\ call.left = <<>>
    /\ call' = [call EXCEPT !.pc = "done", !.result =
                    IF call.ok THEN "Ok"
                    ELSE IF ~call.unused THEN "panic"
                    ELSE IF call.mode = "try_send" /\ call.hasFull THEN "Full"
                    ELSE "Closed"]
    /\ UNCHANGED <<visitor, mailbox, got>>

\* Mailboxes change under the sender's feet; a closed one stays closed.
FillOrDrain(a) ==
    /\ mailbox[a] # "closed"
    /\ mailbox' = [mailbox EXCEPT ![a] = IF @ = "open" THEN "full" ELSE "open"]
    /\ UNCHANGED <<call, visitor, got>>

Close(a) ==
    /\ mailbox[a] # "closed"
    /\ mailbox' = [mailbox EXCEPT ![a] = "closed"]
    /\ UNCHANGED <<call, visitor, got>>

SendingInit ==
    /\ call = [pc |-> "idle", mode |-> "send", to |-> FALSE, groups |-> <<>>,
               left |-> <<>>, unused |-> FALSE, ok |-> FALSE, hasFull |-> FALSE,
               result |-> "none"]
    /\ visitor = NoVisitor
    /\ mailbox = [a \in Recipients |-> "open"]
    /\ got = [a \in Recipients |-> 0]

SendingNext ==
    \/ \E mode \in Modes :
          \E groups \in {<<>>} \cup [1..1 -> Routes] \cup [1..2 -> Routes] :
             Start(mode, groups)
    \/ \E mode \in Modes, route \in Routes : StartTo(mode, route)
    \/ NextGroup \/ VisitNext \/ FinishVisit \/ ReturnOutcome
    \/ \E a \in Recipients : Wait(a) \/ FillOrDrain(a) \/ Close(a)

SendingSpec == SendingInit /\ [][SendingNext]_sendingVars

-----------------------------------------------------------------------------
\* The result of send(), try_send() and unbounded_send() is true, though
\* mailboxes change between two visits: it is Ok if and only if somebody has
\* the message or a group has handled it by itself, Full only from
\* try_send(), and there is always a copy to give back, so that neither
\* expect("missing envelope") nor unused.unwrap() panics.
SendOutcome ==
    LET taken == \E a \in Recipients : got[a] > 0
        handled == \E i \in DOMAIN call.groups : call.groups[i] = <<"done">>
    IN  /\ call.pc = "done" => (call.result = "Ok" <=> taken \/ handled)
        /\ call.result = "Full" => call.mode = "try_send"
        /\ call.result # "panic"
=============================================================================
