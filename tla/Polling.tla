------------------------------ MODULE Polling ------------------------------
(***************************************************************************)
(* The threads that poll actors (MeasurePoll::poll): each poll starts with  *)
(* a fresh budget of `recv` calls (coop) and leaves a mark in the thread's  *)
(* slot of the StuckDetector; another thread looks through the slots now    *)
(* and then (StuckDetector::check) and reports the actors whose poll has    *)
(* lasted since it looked before.  A thread may end and another one be      *)
(* given its slot.  `poll` numbers the polls for the property; the code     *)
(* has only the epoch, which wraps.                                         *)
(***************************************************************************)
EXTENDS Naturals, FiniteSets

CONSTANTS Pollers,     \* threads, numbers from 1
          TlsSlots,    \* slots of `ThreadLocal`
          Polled,      \* actors
          MaxCount,    \* the budget, MAX_COUNT
          EpochMod,    \* epochs wrap here
          MaxPolls     \* bound: polls, fewer than would wrap an epoch onto itself

VARIABLES poller,   \* the threads
          tls,      \* the slots
          looker,   \* StuckDetector::check and what it remembers
          polls     \* polls so far

pollingVars == <<poller, tls, looker, polls>>

NoMark == [meta |-> "none", epoch |-> 0, poll |-> 0]
FreshSlot(t) == [thread |-> t, meta |-> "none", epoch |-> 0]

PollingInit ==
    /\ poller = [t \in Pollers |-> [life |-> "new", slot |-> 0, actor |-> "none",
                                    poll |-> 0, timed |-> FALSE, left |-> 0, got |-> 0]]
    /\ tls = [s \in TlsSlots |-> FreshSlot(0)]
    /\ looker = [todo |-> {}, busy |-> FALSE, last |-> [t \in Pollers |-> NoMark],
                 seen |-> [t \in Pollers |-> NoMark], stuck |-> {}]
    /\ polls = 0


\* StuckDetector::enter: the slot may have been another thread's.
Entered(slot, t, a) ==
    LET own == IF slot.thread # t THEN FreshSlot(t) ELSE slot
    IN  [own EXCEPT !.meta = a, !.epoch = (@ + 1) % EpochMod]

\* The thread's slot: the one it has, or a free one the first time it polls.
SlotsFor(t) ==
    IF poller[t].slot # 0 THEN {poller[t].slot}
    ELSE {s \in TlsSlots : \A u \in Pollers : poller[u].slot # s}

\* The first half of MeasurePoll::poll: `enter`, and the budget is by time if
\* metrics are recorded, by count otherwise.
BeginPoll(t, a, timed) ==
    /\ poller[t].life # "ended" /\ poller[t].actor = "none" /\ polls < MaxPolls
    /\ \A u \in Pollers : poller[u].actor # a
    /\ \E s \in SlotsFor(t) :
          /\ tls' = [tls EXCEPT ![s] = Entered(@, t, a)]
          /\ poller' = [poller EXCEPT ![t] =
                [life |-> "polling", slot |-> s, actor |-> a, poll |-> polls + 1,
                 timed |-> timed, left |-> IF timed THEN 0 ELSE MaxCount, got |-> 0]]
    /\ polls' = polls + 1
    /\ UNCHANGED looker

\* A unit of budget is there; by time, there is while 5 ms have not passed.
BudgetLeft(t) == poller[t].timed \/ poller[t].left > 0

\* `recv` takes a message after `consume_budget`.
Consume(t) ==
    /\ poller[t].actor # "none" /\ BudgetLeft(t)
    /\ poller[t].got <= MaxCount
    /\ poller' = [poller EXCEPT ![t].left = IF poller[t].timed THEN @ ELSE @ - 1,
                                ![t].got = IF poller[t].timed THEN 0 ELSE @ + 1]
    /\ UNCHANGED <<tls, looker, polls>>

\* The poll ends, because the actor waits, yields or is over: `exit`.
EndPoll(t) ==
    /\ poller[t].actor # "none"
    /\ tls' = [tls EXCEPT ![poller[t].slot].meta = "none"]
    /\ poller' = [poller EXCEPT ![t].actor = "none", ![t].left = 0, ![t].got = 0,
                                ![t].timed = FALSE]
    /\ UNCHANGED <<looker, polls>>

\* A thread of a blocking pool or of a runtime ends; its slot is free again.
EndThread(t) ==
    /\ poller[t].life = "polling" /\ poller[t].actor = "none"
    /\ poller' = [poller EXCEPT ![t].life = "ended", ![t].slot = 0]
    /\ UNCHANGED <<tls, looker, polls>>

\* StuckDetector::check takes its lock ...
BeginCheck ==
    /\ ~looker.busy
    /\ looker' = [looker EXCEPT !.busy = TRUE, !.todo = TlsSlots, !.stuck = {},
                                !.seen = [t \in Pollers |-> NoMark]]
    /\ UNCHANGED <<poller, tls, polls>>

\* Who really runs in the slot, and in which poll.
Runner(s) == {t \in Pollers : poller[t].slot = s /\ poller[t].actor # "none"}

\* A report for the same actor, in whatever poll.
IsStuckLoosely(slot, before) == before.meta = slot.meta

IsStuck(slot, before) == before.meta = slot.meta /\ before.epoch = slot.epoch

\* ... then looks at each slot under the slot's lock.
LookAt(s) ==
    /\ looker.busy /\ s \in looker.todo
    /\ LET slot   == tls[s]
           before == looker.last[slot.thread]
           poll   == IF Runner(s) = {} THEN 0
                     ELSE poller[CHOOSE t \in Runner(s) : TRUE].poll
       IN  looker' = IF slot.meta = "none" THEN [looker EXCEPT !.todo = @ \ {s}]
                     ELSE [looker EXCEPT
                            !.todo = @ \ {s},
                            !.seen[slot.thread] = [meta |-> slot.meta, epoch |-> slot.epoch,
                                                   poll |-> poll],
                            !.stuck = IF IsStuck(slot, before)
                                      THEN @ \cup {slot.thread} ELSE @]
    /\ UNCHANGED <<poller, tls, polls>>

EndCheck ==
    /\ looker.busy /\ looker.todo = {}
    /\ looker' = [looker EXCEPT !.busy = FALSE, !.last = looker.seen,
                                !.seen = [t \in Pollers |-> NoMark], !.stuck = {}]
    /\ UNCHANGED <<poller, tls, polls>>

PollingNext ==
    \/ \E t \in Pollers :
          \/ \E a \in Polled, timed \in BOOLEAN : BeginPoll(t, a, timed)
          \/ Consume(t) \/ EndPoll(t) \/ EndThread(t)
    \/ BeginCheck \/ EndCheck
    \/ \E s \in TlsSlots : LookAt(s)

PollingSpec == PollingInit /\ [][PollingNext]_pollingVars

(***************************************************************************)
(* Properties.                                                              *)
(***************************************************************************)

=============================================================================
