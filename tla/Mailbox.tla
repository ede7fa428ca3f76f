------------------------------ MODULE Mailbox ------------------------------
(***************************************************************************)
(* The mailbox of one actor, elfo-core/src/mailbox.rs: many senders, one   *)
(* consumer, and callers that close, drain or resize it.  A step is one    *)
(* access to shared state: an operation on the semaphore, on the MPSC      *)
(* queue, on the waker, or the `control` mutex.                            *)
(*                                                                         *)
(* tokio's Semaphore, cordyceps' MpscQueue and diatomic-waker are          *)
(* external: permits are handed to queued acquirers in FIFO order before   *)
(* they become available, a closed semaphore fails every acquirer that     *)
(* polls it, enqueue and dequeue are atomic, and a notification            *)
(* unregisters the waker it wakes.                                         *)
(***************************************************************************)
EXTENDS Integers, Sequences, FiniteSets

CONSTANTS
    Senders,        \* tasks that send to the mailbox
    Closers,        \* tasks that close it; each closes with its own trace id
    Drainers,       \* the closers that call `close_and_try_drain`
    Capacities,     \* values `set_capacity` is called with
    InitCapacity,   \* the configured capacity
    MaxSends        \* bound: sends per sender

ASSUME CapacityAssumption ==
    /\ Capacities \subseteq Nat
    /\ InitCapacity \in Nat
    /\ MaxSends \in Nat

ASSUME SenderAssumption == IsFiniteSet(Senders)

Free == "free"              \* nobody holds `control`
NoTrace == "no trace"       \* closed_trace_id = None
ConsumerTask == "consumer"  \* the consumer as a holder of `control`

ASSUME CloserAssumption ==
    /\ Drainers \subseteq Closers
    /\ {Free, NoTrace, ConsumerTask} \cap Closers = {}

VARIABLES
    queue,          \* queue: messages <<sender, number>>
    permits,        \* tx_semaphore: available permits
    waiters,        \* tx_semaphore: queued acquirers, oldest first
    closed,         \* tx_semaphore: is_closed()
    waker,          \* rx_waker: none, the consumer's, or a dropped one's
    woken,          \* the consumer's task has been woken and not yet polled
    control,        \* control: closed_trace_id, capacity, consumer slot
    lock,           \* control: the holder of the mutex
    pc,             \* where each sender is
    next,           \* number of the next send of each sender
    closer,         \* where each closer is
    cpc,            \* where the consumer is
    call,           \* the consumer's current call: kind, and whether the
                    \*   waker was registered during this poll
    hand,           \* the envelope dequeued and not yet returned
    received,       \* history: messages returned to the actor
    accepted,       \* history: messages in the order they were enqueued
    atClose,        \* history: how many of them before the close
    excess          \* history: unbounded sends that took no permit

senderVars == <<pc, next>>
consumerVars == <<cpc, call, hand, received>>
history == <<accepted, atClose>>
vars == <<queue, permits, waiters, closed, waker, woken, control, lock,
          senderVars, closer, consumerVars, history, excess>>

Messages == Senders \X (1..MaxSends)
NoMessage == <<>>

Slots == {"Vacant", "Occupied", "OccupiedDrain"}
SenderStates == {"idle", "waiting", "granted", "enqueue", "notify"}
CloserStates == {"idle", "close", "notify", "slot", "drain", "done"}
ConsumerStates == {"detached", "idle", "dequeue", "release", "checkClosed",
                   "register", "onClose", "closedTrace", "pending", "closed",
                   "drain"}

TypeOK ==
    /\ queue \in Seq(Messages)
    /\ permits \in Nat
    /\ waiters \in Seq(Senders)
    /\ closed \in BOOLEAN
    /\ waker \in {"none", "current", "stale"}
    /\ woken \in BOOLEAN
    /\ control \in [trace : Closers \cup {NoTrace}, capacity : Nat,
                    slot : Slots]
    /\ lock \in Closers \cup {Free, ConsumerTask}
    /\ pc \in [Senders -> SenderStates]
    /\ next \in [Senders -> 1..(MaxSends + 1)]
    /\ closer \in [Closers -> CloserStates]
    /\ cpc \in ConsumerStates
    /\ call \in [kind : {"recv", "try_recv"}, armed : BOOLEAN]
    /\ hand \in Messages \cup {NoMessage}
    /\ received \in Seq(Messages)
    /\ accepted \in Seq(Messages)
    /\ atClose \in Nat
    /\ excess \in Nat

\* Mailbox::new.
Init ==
    /\ queue = <<>>
    /\ permits = InitCapacity
    /\ waiters = <<>>
    /\ closed = FALSE
    /\ waker = "none"
    /\ woken = FALSE
    /\ control = [trace |-> NoTrace, capacity |-> InitCapacity,
                  slot |-> "Vacant"]
    /\ lock = Free
    /\ pc = [s \in Senders |-> "idle"]
    /\ next = [s \in Senders |-> 1]
    /\ closer = [c \in Closers |-> "idle"]
    /\ cpc = "detached"
    /\ call = [kind |-> "recv", armed |-> FALSE]
    /\ hand = NoMessage
    /\ received = <<>>
    /\ accepted = <<>>
    /\ atClose = 0
    /\ excess = 0

-----------------------------------------------------------------------------
\* tokio's Semaphore::add_permits: the oldest acquirers get the permits, the
\* rest becomes available.  `at` is the sender states to start from.
AddPermits(n, at) ==
    LET given == IF n < Len(waiters) THEN n ELSE Len(waiters)
        lucky == {waiters[i] : i \in 1..given}
    IN  /\ permits' = permits + (n - given)
        /\ waiters' = SubSeq(waiters, given + 1, Len(waiters))
        /\ pc' = [s \in Senders |-> IF s \in lucky THEN "granted" ELSE at[s]]

\* tokio's Acquire::drop: an acquirer leaves the queue.
Without(seq, s) ==
    IF \E i \in 1..Len(seq) : seq[i] = s
    THEN LET i == CHOOSE k \in 1..Len(seq) : seq[k] = s
         IN  SubSeq(seq, 1, i - 1) \o SubSeq(seq, i + 1, Len(seq))
    ELSE seq

\* DiatomicWaker::notify.
Notify ==
    /\ woken' = (woken \/ waker = "current")
    /\ waker' = "none"

-----------------------------------------------------------------------------
(* Senders *)

\* A send that ends without enqueuing: the envelope returns to its sender.
Reject(s) ==
    /\ pc' = [pc EXCEPT ![s] = "idle"]
    /\ next' = [next EXCEPT ![s] = @ + 1]

CanSend(s) == pc[s] = "idle" /\ next[s] <= MaxSends

\* send(): the first poll of `tx_semaphore.acquire()`.
SendAcquire(s) ==
    /\ CanSend(s)
    /\ \/ closed /\ Reject(s) /\ UNCHANGED <<permits, waiters>>
       \/ /\ ~closed /\ permits > 0
          /\ permits' = permits - 1
          /\ pc' = [pc EXCEPT ![s] = "enqueue"]
          /\ UNCHANGED <<waiters, next>>
       \/ /\ ~closed /\ permits = 0
          /\ waiters' = Append(waiters, s)
          /\ pc' = [pc EXCEPT ![s] = "waiting"]
          /\ UNCHANGED <<permits, next>>
    /\ UNCHANGED <<queue, closed, waker, woken, control, lock, closer,
                   consumerVars, history, excess>>

\* send(): a later poll of the acquire future, after the semaphore granted
\* a permit or was closed.  A permit granted before the close is given back.
SendPoll(s) ==
    /\ \/ /\ pc[s] = "granted" /\ ~closed
          /\ pc' = [pc EXCEPT ![s] = "enqueue"]
          /\ UNCHANGED <<permits, next>>
       \/ /\ pc[s] = "granted" /\ closed
          /\ permits' = permits + 1
          /\ Reject(s)
       \/ /\ pc[s] = "waiting" /\ closed
          /\ Reject(s)
          /\ UNCHANGED permits
    /\ UNCHANGED <<queue, waiters, closed, waker, woken, control, lock,
                   closer, consumerVars, history, excess>>

\* The future of send() is dropped while it waits.
SendCancel(s) ==
    /\ \/ /\ pc[s] = "waiting"
          /\ waiters' = Without(waiters, s)
          /\ pc' = [pc EXCEPT ![s] = "idle"]
          /\ UNCHANGED permits
       \/ /\ pc[s] = "granted"
          /\ AddPermits(1, [pc EXCEPT ![s] = "idle"])
    /\ next' = [next EXCEPT ![s] = @ + 1]
    /\ UNCHANGED <<queue, closed, waker, woken, control, lock, closer,
                   consumerVars, history, excess>>

\* try_send(): `Full` and `Closed` return the envelope at once.
TrySend(s) ==
    /\ CanSend(s)
    /\ \/ (closed \/ permits = 0) /\ Reject(s) /\ UNCHANGED permits
       \/ /\ ~closed /\ permits > 0
          /\ permits' = permits - 1
          /\ pc' = [pc EXCEPT ![s] = "enqueue"]
          /\ UNCHANGED next
    /\ UNCHANGED <<queue, waiters, closed, waker, woken, control, lock,
                   closer, consumerVars, history, excess>>

\* unbounded_send(): `NoPermits` is ignored.
UnboundedSend(s) ==
    /\ CanSend(s)
    /\ \/ closed /\ Reject(s) /\ UNCHANGED <<permits, excess>>
       \/ /\ ~closed
          /\ pc' = [pc EXCEPT ![s] = "enqueue"]
          /\ IF permits > 0
             THEN permits' = permits - 1 /\ UNCHANGED excess
             ELSE excess' = excess + 1 /\ UNCHANGED permits
          /\ UNCHANGED next
    /\ UNCHANGED <<queue, waiters, closed, waker, woken, control, lock,
                   closer, consumerVars, history>>

\* `self.queue.enqueue(envelope)` of the three sends.
Enqueue(s) ==
    /\ pc[s] = "enqueue"
    /\ queue' = Append(queue, <<s, next[s]>>)
    /\ accepted' = Append(accepted, <<s, next[s]>>)
    /\ next' = [next EXCEPT ![s] = @ + 1]
    /\ pc' = [pc EXCEPT ![s] = "notify"]
    /\ UNCHANGED <<permits, waiters, closed, waker, woken, control, lock,
                   closer, consumerVars, atClose, excess>>

\* `self.rx_waker.notify()` of the three sends.
NotifyRx(s) ==
    /\ pc[s] = "notify"
    /\ Notify
    /\ pc' = [pc EXCEPT ![s] = "idle"]
    /\ UNCHANGED <<queue, permits, waiters, closed, control, lock, next,
                   closer, consumerVars, history, excess>>

-----------------------------------------------------------------------------
(* close(), close_and_try_drain() and set_capacity() *)

\* What close_inner's caller does next: close() releases `control`,
\* close_and_try_drain() looks at the consumer slot.
AfterClose(c) ==
    IF c \in Drainers
    THEN closer' = [closer EXCEPT ![c] = "slot"] /\ lock' = c
    ELSE closer' = [closer EXCEPT ![c] = "done"] /\ lock' = Free

\* Take `control`; close_inner() up to the assignment of closed_trace_id.
CloseLock(c) ==
    /\ closer[c] = "idle" /\ lock = Free
    /\ \/ closed /\ AfterClose(c) /\ UNCHANGED control
       \/ /\ ~closed
          /\ control' = [control EXCEPT !.trace = c]
          /\ closer' = [closer EXCEPT ![c] = "close"]
          /\ lock' = c
    /\ UNCHANGED <<queue, permits, waiters, closed, waker, woken, senderVars,
                   consumerVars, history, excess>>

\* `self.tx_semaphore.close()`: queued acquirers leave the queue and fail
\* at their next poll.
CloseSemaphore(c) ==
    /\ closer[c] = "close"
    /\ closed' = TRUE
    /\ waiters' = <<>>
    /\ atClose' = Len(accepted)
    /\ closer' = [closer EXCEPT ![c] = "notify"]
    /\ UNCHANGED <<queue, permits, waker, woken, control, lock, senderVars,
                   consumerVars, accepted, excess>>

\* `self.rx_waker.notify()` of close_inner().
CloseNotify(c) ==
    /\ closer[c] = "notify"
    /\ Notify
    /\ AfterClose(c)
    /\ UNCHANGED <<queue, permits, waiters, closed, control, senderVars,
                   consumerVars, history, excess>>

\* close_and_try_drain(): drain now, or leave it to the consumer.
CheckSlot(c) ==
    /\ closer[c] = "slot"
    /\ \/ /\ control.slot = "Vacant"
          /\ closer' = [closer EXCEPT ![c] = "drain"]
          /\ UNCHANGED <<control, lock>>
       \/ /\ control.slot # "Vacant"
          /\ control' = [control EXCEPT !.slot = "OccupiedDrain"]
          /\ closer' = [closer EXCEPT ![c] = "done"]
          /\ lock' = Free
    /\ UNCHANGED <<queue, permits, waiters, closed, waker, woken, senderVars,
                   consumerVars, history, excess>>

\* One round of `while self.queue.dequeue_unchecked().is_some() {}`.
CloserDrain(c) ==
    /\ closer[c] = "drain"
    /\ \/ /\ queue # <<>>
          /\ queue' = Tail(queue)
          /\ UNCHANGED <<closer, lock>>
       \/ /\ queue = <<>>
          /\ closer' = [closer EXCEPT ![c] = "done"]
          /\ lock' = Free
          /\ UNCHANGED queue
    /\ UNCHANGED <<permits, waiters, closed, waker, woken, control,
                   senderVars, consumerVars, history, excess>>

\* set_capacity(): shrinking takes back the available permits only.
SetCapacity(n) ==
    /\ lock = Free /\ n # control.capacity
    /\ \/ /\ n < control.capacity
          /\ LET delta == control.capacity - n
                 real == IF delta < permits THEN delta ELSE permits
             IN  /\ permits' = permits - real
                 /\ control' = [control EXCEPT !.capacity = @ - real]
          /\ UNCHANGED <<waiters, pc>>
       \/ /\ n > control.capacity
          /\ AddPermits(n - control.capacity, pc)
          /\ control' = [control EXCEPT !.capacity = n]
    /\ UNCHANGED <<queue, closed, waker, woken, lock, next, closer,
                   consumerVars, history, excess>>

-----------------------------------------------------------------------------
(* The consumer *)

\* MailboxConsumer::new.
Attach ==
    /\ cpc = "detached" /\ lock = Free
    /\ control.slot = "Vacant"
    /\ control' = [control EXCEPT !.slot = "Occupied"]
    /\ cpc' = "idle"
    /\ UNCHANGED <<queue, permits, waiters, closed, waker, woken, lock,
                   senderVars, closer, call, hand, received, history, excess>>

\* The actor calls recv() or try_recv().
StartRecv(kind) ==
    /\ cpc = "idle"
    /\ cpc' = "dequeue"
    /\ call' = [kind |-> kind, armed |-> FALSE]
    /\ UNCHANGED <<queue, permits, waiters, closed, waker, woken, control,
                   lock, senderVars, closer, hand, received, history, excess>>

\* try_recv(): the first dequeue.
Dequeue ==
    /\ cpc = "dequeue"
    /\ \/ /\ queue # <<>>
          /\ hand' = Head(queue)
          /\ queue' = Tail(queue)
          /\ cpc' = "release"
       \/ /\ queue = <<>>
          /\ cpc' = "checkClosed"
          /\ UNCHANGED <<queue, hand>>
    /\ UNCHANGED <<permits, waiters, closed, waker, woken, control, lock,
                   senderVars, closer, call, received, history, excess>>

\* recv() returns Ready: a result found after `register` unregisters.
ReturnReady(m) ==
    /\ waker' = IF call.armed THEN "none" ELSE waker
    /\ received' = IF m = NoMessage THEN received ELSE Append(received, m)
    /\ UNCHANGED call

\* Faulty variant: the permit of a received message is not given back.
ReleaseNothing ==
    /\ cpc = "release"
    /\ ReturnReady(hand)
    /\ hand' = NoMessage
    /\ cpc' = "idle"
    /\ UNCHANGED <<queue, permits, waiters, closed, woken, control, lock,
                   senderVars, closer, history, excess>>

\* try_recv(): `add_permits(1)` and the envelope is returned.
ReleasePermit ==
    /\ cpc = "release"
    /\ AddPermits(1, pc)
    /\ ReturnReady(hand)
    /\ hand' = NoMessage
    /\ cpc' = "idle"
    /\ UNCHANGED <<queue, closed, woken, control, lock, next, closer, history,
                   excess>>

\* try_recv(): is_closed(), and what recv() does with a `None`.
CheckClosed ==
    /\ cpc = "checkClosed"
    /\ cpc' = CASE closed -> "onClose"
              [] ~closed /\ call.kind = "try_recv" -> "idle"
              [] ~closed /\ call.kind = "recv" /\ ~call.armed -> "register"
              [] ~closed /\ call.kind = "recv" /\ call.armed -> "pending"
    /\ UNCHANGED <<queue, permits, waiters, closed, waker, woken, control,
                   lock, senderVars, closer, call, hand, received, history,
                   excess>>

\* Faulty variant: recv() does not look again after it has registered.
RegisterAndSleep ==
    /\ cpc = "register"
    /\ waker' = "current"
    /\ call' = [call EXCEPT !.armed = TRUE]
    /\ cpc' = "pending"
    /\ UNCHANGED <<queue, permits, waiters, closed, woken, control, lock,
                   senderVars, closer, hand, received, history, excess>>

\* recv(): `rx_waker.register`; a second try_recv() follows.
Register ==
    /\ cpc = "register"
    /\ waker' = "current"
    /\ call' = [call EXCEPT !.armed = TRUE]
    /\ cpc' = "dequeue"
    /\ UNCHANGED <<queue, permits, waiters, closed, woken, control, lock,
                   senderVars, closer, hand, received, history, excess>>

\* The executor polls the task again: it was woken, or another branch of
\* the actor's select was.
Poll ==
    /\ cpc = "pending"
    /\ woken' = FALSE
    /\ call' = [call EXCEPT !.armed = FALSE]
    /\ cpc' = "dequeue"
    /\ UNCHANGED <<queue, permits, waiters, closed, waker, control, lock,
                   senderVars, closer, hand, received, history, excess>>

\* on_close(): the second dequeue, which releases no permit.
OnCloseDequeue ==
    /\ cpc = "onClose"
    /\ \/ /\ queue # <<>>
          /\ queue' = Tail(queue)
          /\ ReturnReady(Head(queue))
          /\ cpc' = "idle"
       \/ /\ queue = <<>>
          /\ cpc' = "closedTrace"
          /\ UNCHANGED <<queue, waker, received, call>>
    /\ UNCHANGED <<permits, waiters, closed, woken, control, lock,
                   senderVars, closer, hand, history, excess>>

\* on_close(): closed_trace_id, read under `control`.
OnCloseTrace ==
    /\ cpc = "closedTrace" /\ lock = Free
    /\ cpc' = "closed"
    /\ ReturnReady(NoMessage)
    /\ UNCHANGED <<queue, permits, waiters, closed, woken, control, lock,
                   senderVars, closer, hand, history, excess>>

\* Faulty variant: dropping the consumer always drains.
DetachDrains ==
    /\ cpc \in {"idle", "pending", "closed"} /\ lock = Free
    /\ control' = [control EXCEPT !.slot = "Vacant"]
    /\ cpc' = "drain" /\ lock' = ConsumerTask
    /\ waker' = IF waker = "none" THEN "none" ELSE "stale"
    /\ woken' = FALSE
    /\ UNCHANGED <<queue, permits, waiters, closed, senderVars, closer,
                   call, hand, received, history, excess>>

\* MailboxConsumer::drop, up to the slot; a pending recv() is dropped too.
Detach ==
    /\ cpc \in {"idle", "pending", "closed"} /\ lock = Free
    /\ control' = [control EXCEPT !.slot = "Vacant"]
    /\ IF control.slot = "OccupiedDrain"
       THEN cpc' = "drain" /\ lock' = ConsumerTask
       ELSE cpc' = "detached" /\ UNCHANGED lock
    /\ waker' = IF waker = "none" THEN "none" ELSE "stale"
    /\ woken' = FALSE
    /\ UNCHANGED <<queue, permits, waiters, closed, senderVars, closer,
                   call, hand, received, history, excess>>

\* MailboxConsumer::drop: one round of the deferred drain.
ConsumerDrain ==
    /\ cpc = "drain"
    /\ \/ /\ queue # <<>>
          /\ queue' = Tail(queue)
          /\ UNCHANGED <<cpc, lock>>
       \/ /\ queue = <<>>
          /\ cpc' = "detached"
          /\ lock' = Free
          /\ UNCHANGED queue
    /\ UNCHANGED <<permits, waiters, closed, waker, woken, control,
                   senderVars, closer, call, hand, received, history, excess>>

-----------------------------------------------------------------------------
SenderStep(s) ==
    \/ SendAcquire(s) \/ SendPoll(s) \/ SendCancel(s)
    \/ TrySend(s) \/ UnboundedSend(s)
    \/ Enqueue(s) \/ NotifyRx(s)

CloserStep(c) ==
    \/ CloseLock(c) \/ CloseSemaphore(c) \/ CloseNotify(c)
    \/ CheckSlot(c) \/ CloserDrain(c)

\* The steps of a recv() or try_recv() in progress.
RecvStep ==
    \/ Dequeue \/ ReleasePermit \/ CheckClosed \/ Register
    \/ OnCloseDequeue \/ OnCloseTrace

ConsumerStep ==
    \/ Attach \/ Detach \/ ConsumerDrain
    \/ \E kind \in {"recv", "try_recv"} : StartRecv(kind)
    \/ RecvStep \/ Poll

Next ==
    \/ \E s \in Senders : SenderStep(s)
    \/ \E c \in Closers : CloserStep(c)
    \/ \E n \in Capacities : SetCapacity(n)
    \/ ConsumerStep

Spec == Init /\ [][Next]_vars

\* Tasks that run are scheduled: a send past its permit, a close past its
\* lock, a recv() in progress and a woken task go on; the actor calls recv()
\* again.  Nothing forces a send, a close, a resize or a detach to happen.
Fairness ==
    /\ \A s \in Senders : WF_vars(SendPoll(s) \/ Enqueue(s) \/ NotifyRx(s))
    /\ \A c \in Closers : WF_vars(CloserStep(c) /\ closer[c] # "idle")
    /\ WF_vars(StartRecv("recv"))
    /\ WF_vars(RecvStep)
    /\ WF_vars(Poll /\ woken)
    /\ WF_vars(ConsumerDrain)

FairSpec == Spec /\ Fairness

-----------------------------------------------------------------------------
(* Properties *)

In(st) == {s \in Senders : pc[s] \in st}
InHand == IF hand = NoMessage THEN <<>> ELSE <<hand>>

\* While the mailbox is open every unit of capacity is in exactly one place:
\* available, granted to a queued send(), held by a send that has not
\* enqueued yet, spent on a queued message, or about to be returned by
\* try_recv(); each unbounded send that found no permit has added one unit.
\* So set_capacity(), cancelled sends and unbounded sends never lose a slot.
PermitsBalance ==
    ~closed =>
        permits + Cardinality(In({"granted", "enqueue"})) + Len(queue)
            + Len(InHand) = control.capacity + excess

\* recv() never sleeps through a message or the close: a pending consumer
\* that nobody has woken has its waker registered, and for a message in the
\* queue or a closed semaphore the notify() is still to come.
NoLostWakeup ==
    (cpc = "pending" /\ ~woken) =>
        /\ waker = "current"
        /\ queue # <<>> => \E s \in Senders : pc[s] = "notify"
        /\ closed => \E c \in Closers : closer[c] = "notify"

\* on_close() finds closed_trace_id set when it gets `control`: its
\* expect("called before close()") cannot fail.
TraceKnown ==
    (cpc = "closedTrace" /\ lock = Free) => control.trace # NoTrace

\* The trace id of the first close stays: a close() or close_and_try_drain()
\* that comes later, or at the same time, leaves it alone.
TraceStable ==
    [][control.trace # NoTrace => control'.trace = control.trace]_vars

\* dequeue_unchecked() is never called by two tasks at once: an inline drain
\* excludes the consumer and its deferred drain, and other drains.
SoleDequeuer ==
    LET consuming == cpc \notin {"detached"}
        draining == {c \in Closers : closer[c] = "drain"}
    IN  /\ draining # {} => ~consuming
        /\ \A c, d \in draining : c = d

\* Messages are received in the order of their enqueue, each at most once,
\* and one that is neither received nor queued was dropped by a drain, which
\* only a closed mailbox sees.
InOrder ==
    LET present == received \o InHand \o queue
        place(m) == CHOOSE i \in 1..Len(accepted) : accepted[i] = m
    IN  /\ present # accepted => closed /\ Len(present) < Len(accepted)
        /\ \A i \in 1..(Len(present) - 1) :
              place(present[i]) < place(present[i + 1])

\* recv() answers Closed only after every message enqueued before the close
\* has left the queue, which is first in, first out.
ClosedIsLast ==
    cpc = "closed" => Len(accepted) - Len(queue) >= atClose

\* The mailbox is sound for senders, closers and the consumer together: no slot
\* of the queue is lost or doubled, no wakeup is missed, one task at a time
\* dequeues, and Closed is reported last, with its trace id.
MailboxSound ==
    /\ TypeOK /\ PermitsBalance /\ NoLostWakeup
    /\ TraceKnown /\ SoleDequeuer /\ ClosedIsLast

\* A send() that waits for a permit ends, with a permit or with an error,
\* as long as the actor stays attached to its mailbox.
SendEnds ==
    \A s \in Senders :
        pc[s] = "waiting" ~> (pc[s] # "waiting" \/ cpc = "detached")

\* A queued message leaves the queue while the actor stays attached and has
\* not been told of the close.  (A sender that had its permit before the
\* close can still enqueue after it: that message may stay behind.)
MessageTaken ==
    \A m \in Messages :
        (\E i \in 1..Len(queue) : queue[i] = m)
            ~> \/ cpc \in {"closed", "detached"}
               \/ \A i \in 1..Len(queue) : queue[i] # m

\* An attached actor sees the close.
CloseSeen == closed ~> cpc \in {"closed", "detached"}

\* Nobody waits for ever on a mailbox whose actor stays attached: a send()
\* ends, a queued message is received and a close is seen.
NobodyStuck == SendEnds /\ MessageTaken /\ CloseSeen
=============================================================================
