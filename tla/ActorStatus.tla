---------------------------- MODULE ActorStatus ----------------------------
(***************************************************************************)
(* The status of actors and those who subscribe to it: Actor::set_status    *)
(* (elfo-core/src/actor.rs), called by the actor, by its supervisor and by  *)
(* clones of its context; SubscriptionManager (subscription.rs), shared by  *)
(* the actors of a group; subscribe_to_statuses (supervisor.rs).            *)
(***************************************************************************)
EXTENDS Integers, FiniteSets, FiniteSetsExt

CONSTANTS
    Actors,       \* actors of a group
    Tasks,        \* tasks that may set a status
    Subscribers,  \* actors that subscribe
    Statuses,     \* ActorStatus
    MaxSets       \* bound: calls of set_status()

ASSUME StatusAssumption ==
    /\ {"Initializing", "Terminated"} \subseteq Statuses
    /\ MaxSets \in Nat

VARIABLES
    statusKind, \* Actor::status_kind
    status,   \* Control::status
    started,  \* actors whose on_start() is over
    writer,   \* Actors -> the task with the write lock of `control`
    setter,   \* Tasks -> what the task is doing
    subs,     \* SubscriptionManager::subscribers
    asking,   \* Subscribers -> [on, left]: the statuses still to be sent
    told,     \* history: the last report of each actor at each subscriber
    gauge,    \* elfo_active_actors
    sets      \* calls so far

statusVars == <<statusKind, status, started, writer, setter, subs, asking, told,
                gauge, sets>>

NotSetting == [pc |-> "idle"]
IsFinished(st) == st \in {"Terminated", "Failed"}
NoOne == "nobody"

\* Tasks that read `subscribers`.
Reading == {t \in Tasks : setter[t].pc = "send"}

\* Who has the read lock of `control`: on_start() while it sends.
CanWrite(a) == /\ writer[a] = NoOne
               /\ \A t \in Tasks : setter[t].pc \in {"send", "prune"} =>
                      setter[t].actor # a \/ setter[t].prev # "none"

\* status_kind is stored before the lock is taken.
SetStatus(t, a, st) ==
    /\ setter[t] = NotSetting /\ a \in started /\ sets < MaxSets
    /\ sets' = sets + 1
    /\ statusKind' = [statusKind EXCEPT ![a] = st]
    /\ setter' = [setter EXCEPT ![t] = [pc |-> "lock", actor |-> a, st |-> st]]
    /\ UNCHANGED <<status, started, writer, subs, asking, told, gauge>>

Announcing(a, prev, st) ==
    [pc |-> "send", actor |-> a, prev |-> prev, st |-> st, left |-> subs,
     failed |-> {}]

\* Faulty: the lock is not kept for the sending.
LockBriefly(t) ==
    LET me == setter[t] IN
    /\ me.pc = "lock" /\ CanWrite(me.actor)
    /\ status' = [status EXCEPT ![me.actor] = me.st]
    /\ setter' = [setter EXCEPT ![t] =
                      Announcing(me.actor, status[me.actor], me.st)]
    /\ UNCHANGED <<statusKind, started, writer, subs, asking, told, gauge, sets>>

LockControl(t) ==
    LET me == setter[t]
        prev == status[me.actor]
    IN  /\ me.pc = "lock" /\ CanWrite(me.actor)
        /\ status' = [status EXCEPT ![me.actor] = me.st]
        /\ IF me.st = prev
           THEN setter' = [setter EXCEPT ![t] = NotSetting] /\ UNCHANGED writer
           ELSE /\ setter' = [setter EXCEPT ![t] = Announcing(me.actor, prev, me.st)]
                /\ writer' = [writer EXCEPT ![me.actor] = t]
        /\ UNCHANGED <<statusKind, started, subs, asking, told, gauge, sets>>

\* on_start(): the same under the read lock.
OnStart(t, a) ==
    /\ setter[t] = NotSetting /\ a \notin started /\ writer[a] = NoOne
    /\ \A u \in Tasks : setter[u].pc # "idle" => setter[u].actor # a
    /\ setter' = [setter EXCEPT ![t] = Announcing(a, "none", status[a])]
    /\ UNCHANGED <<statusKind, status, started, writer, subs, asking, told, gauge, sets>>

\* SubscriptionManager::send: try_send_to() of one subscriber.
SendTo(t, x, accepted) ==
    LET me == setter[t] IN
    /\ me.pc = "send" /\ x \in me.left
    /\ setter' = [setter EXCEPT ![t].left = @ \ {x},
                     ![t].failed = IF accepted THEN @ ELSE @ \cup {x}]
    /\ told' = IF accepted THEN [told EXCEPT ![x][me.actor] = me.st]
               ELSE told
    /\ UNCHANGED <<statusKind, status, started, writer, subs, asking, gauge, sets>>

\* The read lock is dropped before the write lock is taken.
DropSubscribers(t) ==
    /\ setter[t].pc = "send" /\ setter[t].left = {}
    /\ setter' = [setter EXCEPT ![t].pc = "prune"]
    /\ UNCHANGED <<statusKind, status, started, writer, subs, asking, told, gauge, sets>>

\* Those that failed are unsubscribed, `control` is released.
Prune(t) ==
    LET me == setter[t] IN
    /\ me.pc = "prune" /\ (me.failed # {} => Reading = {})
    /\ subs' = subs \ me.failed
    /\ writer' = [writer EXCEPT ![me.actor] = NoOne]
    /\ setter' = [setter EXCEPT ![t] = [pc |-> "count", actor |-> me.actor,
                                        prev |-> me.prev, st |-> me.st]]
    /\ UNCHANGED <<statusKind, status, started, asking, told, gauge, sets>>

\* What set_status() adds to the gauge.
GaugeChange(prev, st) ==
    [k \in Statuses |-> (IF k = st /\ ~IsFinished(k) THEN 1 ELSE 0)
                      - (IF k = prev /\ ~IsFinished(k) THEN 1 ELSE 0)]

Count(t) ==
    LET me == setter[t] IN
    /\ me.pc = "count"
    /\ gauge' = [k \in Statuses |-> gauge[k] + GaugeChange(me.prev, me.st)[k]]
    /\ started' = started \cup {me.actor}
    /\ setter' = [setter EXCEPT ![t] = NotSetting]
    /\ UNCHANGED <<statusKind, status, writer, subs, asking, told, sets>>

-----------------------------------------------------------------------------
(* subscribe_to_statuses() *)

\* The actor spawns its objects before they start, so all are iterated over.
Subscribe(x, forcing) ==
    /\ ~asking[x].on /\ Reading = {}
    /\ subs' = subs \cup {x}
    /\ asking' = IF x \in subs /\ ~forcing THEN asking
                 ELSE [asking EXCEPT ![x] = [on |-> TRUE, left |-> Actors]]
    /\ UNCHANGED <<statusKind, status, started, writer, setter, told, gauge, sets>>

\* with_status(): the report is sent under the read lock of `control`.
Report(x, a, accepted) ==
    /\ asking[x].on /\ a \in asking[x].left /\ writer[a] = NoOne
    /\ IF accepted
       THEN /\ told' = [told EXCEPT ![x][a] = status[a]]
            /\ asking' = [asking EXCEPT ![x].left = @ \ {a}]
            /\ UNCHANGED subs
       ELSE /\ Reading = {} /\ subs' = subs \ {x}
            /\ asking' = [asking EXCEPT ![x] = [on |-> FALSE, left |-> {}]]
            /\ UNCHANGED told
    /\ UNCHANGED <<statusKind, status, started, writer, setter, gauge, sets>>

Subscribed(x) ==
    /\ asking[x].on /\ asking[x].left = {}
    /\ asking' = [asking EXCEPT ![x].on = FALSE]
    /\ UNCHANGED <<statusKind, status, started, writer, setter, subs, told, gauge, sets>>

StatusInit ==
    /\ statusKind = [a \in Actors |-> "Initializing"]
    /\ status = [a \in Actors |-> "Initializing"]
    /\ started = {}
    /\ writer = [a \in Actors |-> NoOne]
    /\ setter = [t \in Tasks |-> NotSetting]
    /\ subs = {}
    /\ asking = [x \in Subscribers |-> [on |-> FALSE, left |-> {}]]
    /\ told = [x \in Subscribers |-> [a \in Actors |-> "nothing"]]
    /\ gauge = [k \in Statuses |-> 0]
    /\ sets = 0

StatusNext ==
    \/ \E t \in Tasks :
          \/ \E a \in Actors : OnStart(t, a)
          \/ \E a \in Actors, st \in Statuses : SetStatus(t, a, st)
          \/ \E x \in Subscribers, ok \in BOOLEAN : SendTo(t, x, ok)
          \/ LockControl(t) \/ DropSubscribers(t) \/ Prune(t) \/ Count(t)
    \/ \E x \in Subscribers :
          \/ \E forcing \in BOOLEAN : Subscribe(x, forcing)
          \/ \E a \in Actors, ok \in BOOLEAN : Report(x, a, ok)
          \/ Subscribed(x)

StatusSpec == StatusInit /\ [][StatusNext]_statusVars

-----------------------------------------------------------------------------
Busy(a) == \E t \in Tasks : setter[t].pc # "idle" /\ setter[t].actor = a

\* A subscriber that is still registered knows the current status of every
\* actor that nobody is changing, though reports come from two sides: from
\* the tasks that set statuses and from the subscription itself.  The gauge
\* counts the unfinished actors of each status once nothing is going on.
StatusTold ==
    /\ \A x \in subs, a \in started :
          ~Busy(a) /\ a \notin asking[x].left => told[x][a] = status[a]
    /\ (\A a \in Actors : ~Busy(a)) =>
          \A k \in Statuses : gauge[k] =
              IF IsFinished(k) THEN 0
              ELSE Cardinality({a \in started : status[a] = k})
=============================================================================
