---------------------------- MODULE RequestTable ----------------------------
(***************************************************************************)
(* Requests of one actor to groups: elfo-core/src/request_table.rs, with   *)
(* the group visitor that duplicates the envelope (object.rs), the         *)
(* request builder (context.rs) and the recipients that answer, ignore or  *)
(* lose it.  A step is one critical section of `requests`, one visited     *)
(* recipient, or one poll of the requester.                                *)
(*                                                                         *)
(* tokio's Notify is external: notify_waiters() completes the futures that *)
(* `notified()` has created before it.                                     *)
(***************************************************************************)
EXTENDS Integers, Sequences, FiniteSets

CONSTANTS
    Requests,       \* requests the actor makes, possibly in parallel
    AllRequests,    \* those with collect_all (`ctx.request(..).all()`)
    N               \* recipients a request is routed to

ASSUME RequestAssumption ==
    /\ AllRequests \subseteq Requests
    /\ N \in Nat \ {0}

VARIABLES
    requests,   \* requests: the slot map, request id -> RequestData
    tok,        \* where each response token of each request is
    rpc,        \* where the requester's future is
    visited,    \* SendGroupVisitor: recipients visited
    hasOk,      \* SendGroupVisitor: some recipient has the message
    notified,   \* the future of `notified()`: none, armed, or completed
    result      \* what `resolve()` has returned

vars == <<requests, tok, rpc, visited, hasOk, notified, result>>

Tokens == 1..N
Original == 1       \* the token of new_request(); visit_last() consumes it

Answers == {"Ok", "Ignored", "Failed"}
Absent == [remainder |-> 0, responses |-> <<>>, present |-> FALSE]
RequestData == [remainder : Nat, responses : Seq(Answers), present : BOOLEAN]

\* A token is held by the sender (the original envelope, `full`, `extra`),
\* in a mailbox, received by an actor, or resolved with an answer.
HeldStates == {"original", "full", "extra"}
OutstandingStates == HeldStates \cup {"delivered", "received"}
TokenStates == {"none"} \cup OutstandingStates \cup Answers

RequesterStates == {"new", "visiting", "finishing", "arm", "check",
                    "waiting", "done", "cancelled"}

TypeOK ==
    /\ requests \in [Requests -> RequestData]
    /\ tok \in [Requests -> [Tokens -> TokenStates]]
    /\ rpc \in [Requests -> RequesterStates]
    /\ visited \in [Requests -> 0..N]
    /\ hasOk \in [Requests -> BOOLEAN]
    /\ notified \in [Requests -> {"none", "armed", "completed"}]
    /\ result \in [Requests -> Seq(Answers)]

Init ==
    /\ requests = [r \in Requests |-> Absent]
    /\ tok = [r \in Requests |-> [k \in Tokens |-> "none"]]
    /\ rpc = [r \in Requests |-> "new"]
    /\ visited = [r \in Requests |-> 0]
    /\ hasOk = [r \in Requests |-> FALSE]
    /\ notified = [r \in Requests |-> "none"]
    /\ result = [r \in Requests |-> <<>>]

In(r, st) == {k \in Tokens : tok[r][k] \in st}
Outstanding(r) == In(r, OutstandingStates)

-----------------------------------------------------------------------------
(* RequestData::push *)

\* What an Any request keeps: the first answer, then a better one.
Better(old, answer) ==
    IF old = <<>> \/ answer \in {"Ok", "Ignored"} THEN <<answer>> ELSE old

\* Faulty variant: the first Ok ends an All request too.
PushFirstOk(r, d, answer) ==
    IF d.remainder = 0 THEN d
    ELSE [d EXCEPT !.remainder = IF answer = "Ok" THEN 0 ELSE @ - 1,
                   !.responses = Better(@, answer)]

\* The request after an answer to it.
Push(r, d, answer) ==
    IF d.remainder = 0 THEN d
    ELSE IF r \in AllRequests
    THEN [d EXCEPT !.remainder = @ - 1, !.responses = Append(@, answer)]
    ELSE [d EXCEPT !.remainder = IF answer = "Ok" THEN 0 ELSE @ - 1,
                   !.responses = Better(@, answer)]

\* Faulty variant: only the answer to the last token is reported as the end.
CompletesLast(r, d, answer) == d.remainder = 1

\* push() returns true: the answer counted and it was the last one needed.
Completes(r, d, answer) == d.remainder > 0 /\ Push(r, d, answer).remainder = 0

\* notify_waiters() wakes every request of the actor, not only this one.
NotifyWaiters ==
    notified' = [r \in Requests |->
                    IF notified[r] = "armed" THEN "completed" ELSE notified[r]]

\* Faulty variant: a completed request leaves the table at once.
ResolveRemoves(r, answer) ==
    IF requests[r].present /\ Completes(r, requests[r], answer)
    THEN requests' = [requests EXCEPT ![r] = Absent] /\ NotifyWaiters
    ELSE /\ requests' = [requests EXCEPT ![r] = Push(r, @, answer)]
         /\ UNCHANGED notified

\* RequestTable::resolve.
Resolve(r, answer) ==
    IF requests[r].present
    THEN /\ requests' = [requests EXCEPT ![r] = Push(r, @, answer)]
         /\ IF Completes(r, requests[r], answer)
            THEN NotifyWaiters ELSE UNCHANGED notified
    ELSE UNCHANGED <<requests, notified>>

\* A token is consumed, by an answer or by its drop.
Settle(r, k, answer) ==
    /\ tok' = [tok EXCEPT ![r][k] = answer]
    /\ Resolve(r, answer)

-----------------------------------------------------------------------------
(* The requester: RequestBuilder::resolve *)

\* new_request().
NewRequest(r) ==
    /\ rpc[r] = "new"
    /\ requests' = [requests EXCEPT ![r] =
            [remainder |-> 1, responses |-> <<>>, present |-> TRUE]]
    /\ tok' = [tok EXCEPT ![r][Original] = "original"]
    /\ rpc' = [rpc EXCEPT ![r] = "visiting"]
    /\ UNCHANGED <<visited, hasOk, notified, result>>

Outcomes == [Ok |-> "delivered", Full |-> "full", Closed |-> "extra"]

\* SendGroupVisitor::try_send, and actor.send() in finish(): what becomes of
\* an envelope offered to a mailbox.
Offer(r, k, outcome) ==
    /\ tok' = [tok EXCEPT ![r][k] = Outcomes[outcome]]
    /\ hasOk' = [hasOk EXCEPT ![r] = @ \/ outcome = "Ok"]

\* SendGroupVisitor::visit: the envelope a closed mailbox has returned is
\* used again, otherwise the envelope is duplicated, which adds one to the
\* remainder of the request (do_duplicate).
Visit(r, outcome) ==
    /\ rpc[r] = "visiting" /\ visited[r] < N - 1
    /\ IF In(r, {"extra"}) # {}
       THEN /\ \E k \in In(r, {"extra"}) : Offer(r, k, outcome)
            /\ UNCHANGED requests
       ELSE /\ \E k \in In(r, {"none"}) :
                  /\ \A j \in In(r, {"none"}) : k <= j
                  /\ Offer(r, k, outcome)
            /\ requests' = [requests EXCEPT ![r].remainder = @ + 1]
    /\ visited' = [visited EXCEPT ![r] = @ + 1]
    /\ UNCHANGED <<rpc, notified, result>>

\* SendGroupVisitor::visit_last; a second envelope that returns takes the
\* place of the first one in `extra`, which is dropped.
VisitLast(r, outcome) ==
    /\ rpc[r] = "visiting" /\ visited[r] = N - 1
    /\ \/ /\ outcome # "Closed" \/ In(r, {"extra"}) = {}
          /\ Offer(r, Original, outcome)
          /\ UNCHANGED <<requests, notified>>
       \/ /\ outcome = "Closed"
          /\ \E k \in In(r, {"extra"}) :
                tok' = [tok EXCEPT ![r][k] = "Failed", ![r][Original] = "extra"]
          /\ Resolve(r, "Failed")
          /\ UNCHANGED hasOk
    /\ visited' = [visited EXCEPT ![r] = @ + 1]
    /\ rpc' = [rpc EXCEPT ![r] = "finishing"]
    /\ UNCHANGED result

\* SendGroupVisitor::empty: the group has no actor for the message.
VisitEmpty(r) ==
    /\ rpc[r] = "visiting" /\ visited[r] = 0
    /\ Offer(r, Original, "Closed")
    /\ rpc' = [rpc EXCEPT ![r] = "finishing"]
    /\ UNCHANGED <<requests, visited, notified, result>>

\* SendGroupVisitor::finish: the wait for a full mailbox is over.
FullEnds(r, k, outcome) ==
    /\ rpc[r] = "finishing" /\ tok[r][k] = "full" /\ outcome # "Full"
    /\ Offer(r, k, outcome)
    /\ UNCHANGED <<requests, rpc, visited, notified, result>>

\* Envelopes that reached no mailbox are dropped, and so are those of a
\* dropped future: ResponseToken::drop answers Failed if not received.
DropHeld(r, k) ==
    /\ \/ rpc[r] = "finishing" /\ tok[r][k] = "extra" /\ In(r, {"full"}) = {}
       \/ rpc[r] = "cancelled" /\ tok[r][k] \in {"full", "extra"}
    /\ Settle(r, k, "Failed")
    /\ UNCHANGED <<rpc, visited, hasOk, result>>

\* do_send() is over: wait for the answers, or cancel_request().
SendDone(r) ==
    /\ rpc[r] = "finishing" /\ In(r, HeldStates) = {}
    /\ IF hasOk[r]
       THEN /\ rpc' = [rpc EXCEPT ![r] = "arm"]
            /\ UNCHANGED <<requests, result>>
       ELSE /\ rpc' = [rpc EXCEPT ![r] = "done"]
            /\ requests' = [requests EXCEPT ![r] = Absent]
            /\ result' = [result EXCEPT ![r] = <<"Failed">>]
    /\ UNCHANGED <<tok, visited, hasOk, notified>>

\* wait(): `self.notifier.notified()`.
WaitArm(r) ==
    /\ rpc[r] = "arm"
    /\ notified' = [notified EXCEPT ![r] = "armed"]
    /\ rpc' = [rpc EXCEPT ![r] = "check"]
    /\ UNCHANGED <<requests, tok, visited, hasOk, result>>

\* wait(): the critical section.
WaitCheck(r) ==
    /\ rpc[r] = "check"
    /\ IF requests[r].remainder = 0
       THEN /\ result' = [result EXCEPT ![r] = requests[r].responses]
            /\ requests' = [requests EXCEPT ![r] = Absent]
            /\ notified' = [notified EXCEPT ![r] = "none"]
            /\ rpc' = [rpc EXCEPT ![r] = "done"]
       ELSE /\ rpc' = [rpc EXCEPT ![r] = "waiting"]
            /\ UNCHANGED <<result, requests, notified>>
    /\ UNCHANGED <<tok, visited, hasOk>>

\* wait(): `waiting.await` returns and the loop goes round.
WaitWake(r) ==
    /\ rpc[r] = "waiting" /\ notified[r] = "completed"
    /\ notified' = [notified EXCEPT ![r] = "none"]
    /\ rpc' = [rpc EXCEPT ![r] = "arm"]
    /\ UNCHANGED <<requests, tok, visited, hasOk, result>>

\* The future of resolve() is dropped at one of its awaits; the request
\* stays in the table.
Cancel(r) ==
    /\ \/ rpc[r] = "waiting"
       \/ rpc[r] = "finishing" /\ In(r, {"full"}) # {}
    /\ rpc' = [rpc EXCEPT ![r] = "cancelled"]
    /\ notified' = [notified EXCEPT ![r] = "none"]
    /\ UNCHANGED <<requests, tok, visited, hasOk, result>>

-----------------------------------------------------------------------------
(* The recipients *)

\* The message is unpacked: into_received().
Receive(r, k) ==
    /\ tok[r][k] = "delivered"
    /\ tok' = [tok EXCEPT ![r][k] = "received"]
    /\ UNCHANGED <<requests, rpc, visited, hasOk, notified, result>>

\* ctx.respond(token, ..).
Respond(r, k) ==
    /\ tok[r][k] = "received"
    /\ Settle(r, k, "Ok")
    /\ UNCHANGED <<rpc, visited, hasOk, result>>

\* ResponseToken::drop: Ignored if received, otherwise Failed.
DropToken(r, k) ==
    /\ tok[r][k] \in {"delivered", "received"}
    /\ Settle(r, k, IF tok[r][k] = "received" THEN "Ignored" ELSE "Failed")
    /\ UNCHANGED <<rpc, visited, hasOk, result>>

-----------------------------------------------------------------------------
Requester(r) ==
    \/ NewRequest(r) \/ VisitEmpty(r)
    \/ \E outcome \in DOMAIN Outcomes :
          Visit(r, outcome) \/ VisitLast(r, outcome)
    \/ \E k \in Tokens : DropHeld(r, k)
    \/ SendDone(r) \/ WaitArm(r) \/ WaitCheck(r) \/ WaitWake(r)

Mailboxes(r) ==
    \E k \in Tokens, outcome \in {"Ok", "Closed"} : FullEnds(r, k, outcome)

Recipient(r, k) == Receive(r, k) \/ Respond(r, k) \/ DropToken(r, k)

Next ==
    \E r \in Requests :
        \/ Requester(r) \/ Mailboxes(r) \/ Cancel(r)
        \/ \E k \in Tokens : Recipient(r, k)

Spec == Init /\ [][Next]_vars

\* The requester is polled, a full mailbox is eventually received from or
\* closed (Mailbox!SendEnds), and a recipient handles or drops its message.
Fairness ==
    \A r \in Requests :
        /\ WF_vars(Requester(r))
        /\ WF_vars(Mailboxes(r))
        /\ \A k \in Tokens : WF_vars(Recipient(r, k))

FairSpec == Spec /\ Fairness

-----------------------------------------------------------------------------
(* Properties *)

\* The remainder of a request is the number of its unresolved tokens, until
\* an Any request has its Ok; then it never exceeds that number.  Duplicated,
\* reused and dropped envelopes are all counted: neither a missing answer
\* that blocks wait() nor an answer too many.
RemainderCounts ==
    \A r \in Requests :
        requests[r].present =>
            IF r \in AllRequests \/ In(r, {"Ok"}) = {}
            THEN requests[r].remainder = Cardinality(Outstanding(r))
            ELSE requests[r].remainder <= Cardinality(Outstanding(r))

\* wait() does not miss its notification: a requester that sleeps on an
\* uncompleted future still lacks answers, although the notifier is shared
\* by all requests of the actor.
NoMissedNotify ==
    \A r \in Requests :
        (rpc[r] = "waiting" /\ notified[r] # "completed") =>
            notified[r] = "armed" /\ requests[r].remainder > 0

\* wait() finds its request: expect("unknown request") cannot fail.
RequestKnown ==
    \A r \in Requests :
        rpc[r] \in {"visiting", "finishing", "arm", "check", "waiting"} =>
            requests[r].present

\* The table counts its answers and wait() neither misses one nor waits for
\* one that cannot come.
TableSound == TypeOK /\ RemainderCounts /\ NoMissedNotify /\ RequestKnown

\* resolve() of an All request returns one answer for each envelope, in
\* full: no token is left that could still answer.  Any returns one answer,
\* and one that a recipient really gave.
ResultComplete ==
    \A r \in Requests : (rpc[r] = "done" /\ hasOk[r]) =>
        IF r \in AllRequests
        THEN /\ Outstanding(r) = {}
             /\ \A a \in Answers :
                   Cardinality({i \in DOMAIN result[r] : result[r][i] = a})
                       = Cardinality(In(r, {a}))
        ELSE /\ Len(result[r]) = 1
             /\ In(r, {result[r][1]}) # {}

\* A request whose future is not dropped ends.
RequestEnds ==
    \A r \in Requests : rpc[r] = "visiting" ~> rpc[r] \in {"done", "cancelled"}

\* "Priority: `Ok(_)` > `Err(Ignored)` > `Err(Failed)`" (request_table.rs:84):
\* the Ok of an Any request is never replaced by an error.
OkKept ==
    [][\A r \in Requests \ AllRequests :
          (requests[r].responses = <<"Ok">> /\ requests'[r].present)
              => requests'[r].responses = <<"Ok">>]_vars
=============================================================================
