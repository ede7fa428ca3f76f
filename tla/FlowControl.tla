---------------------------- MODULE FlowControl ----------------------------
(***************************************************************************)
(* The flow from the actors of one node to one actor of another node over  *)
(* a data connection of elfo-network: the sender's window and its waiters  *)
(* (worker/flow_control.rs, worker/flows_tx.rs, SendNotify of              *)
(* elfo-core/src/remote.rs), the receiver's window (flow_control.rs,       *)
(* flows_rx.rs) and how the worker's reader and pusher drive it            *)
(* (worker/mod.rs).                                                        *)
(*                                                                         *)
(* A step of a sender is one atomic operation on the window.  Senders hold *)
(* the shared lock of the flow's map entry from the first operation of     *)
(* acquire() to the last; update_flow() and close_flow() take the          *)
(* exclusive lock.  The socket is FIFO in both directions.                 *)
(***************************************************************************)
EXTENDS Integers, Sequences, FiniteSets

CONSTANTS
    Senders,        \* tasks of the sending node
    InitialWindow,  \* initial_window, agreed on by the handshake
    MaxDebt,        \* bound: budget a sender may have taken from the window
    MaxPending,     \* bound: pending messages when one more is routed
    MaxCancels,     \* bound: sends cancelled while they wait
    Responses,      \* the sending node also responds to the actor's requests
    ActorMayStop,   \* the receiving actor may terminate
    ConnMayFail     \* the connection may be lost

ASSUME WindowAssumption == InitialWindow \in Nat \ {0}
ASSUME BoundAssumption ==
    /\ MaxDebt \in Nat /\ MaxPending \in Nat /\ MaxCancels \in Nat
    /\ {Responses, ActorMayStop, ConnMayFail} \subseteq BOOLEAN

VARIABLES
    window,     \* TxFlowControl
    open,       \* the flow is in TxFlows
    notify,     \* SendNotify: `waiters`, and the permits of `semaphore`
    spc,        \* where each sender is
    cancels,    \* sends cancelled so far
    wire,       \* messages and responses on their way to the actor
    back,       \* window updates and flow closings on their way back
    rx,         \* RxFlowControl: tx_window and rx_window
    rxFlow,     \* the flow in RxFlows: not created, open, or closed
    pending,    \* messages of the flow not yet released by the pusher
    pushed,     \* the pusher's message is in the actor's mailbox
    alive,      \* the actor is in the address book, its mailbox open
    conn,       \* the connection is up
    lost        \* history: arrivals that no RxFlowControl has counted

txVars == <<window, open, notify, spc, cancels>>
rxVars == <<rx, rxFlow, pending, pushed>>
vars == <<txVars, wire, back, rxVars, alive, conn, lost>>

Payloads == {"message", "response"}
SenderStates == {"idle", "retry", "restore", "restoreTry", "register", "wait"}
\* A message to the sending node; `upto` is history: the budget in this and
\* in the earlier messages of `back`.
BackMessages == [kind : {"UpdateFlow", "CloseFlow"}, delta : Nat, upto : Nat]
\* Budget on its way back.
Credit == IF back = <<>> THEN 0 ELSE back[Len(back)].upto
\* `back` without its first message.
Rest(seq) == [i \in 1..(Len(seq) - 1) |->
                 [seq[i + 1] EXCEPT !.upto = @ - seq[1].delta]]

FullWindow == [tx |-> InitialWindow, rx |-> InitialWindow]

TypeOK ==
    /\ window \in Int
    /\ open \in BOOLEAN
    /\ notify \in [waiters : Nat, permits : Nat]
    /\ spc \in [Senders -> SenderStates]
    /\ cancels \in Nat
    /\ wire \in Seq(Payloads)
    /\ back \in Seq(BackMessages)
    /\ rx \in [tx : Int, rx : Int]
    /\ rxFlow \in {"none", "open", "closed"}
    /\ pending \in Nat
    /\ pushed \in BOOLEAN
    /\ alive \in BOOLEAN
    /\ conn \in BOOLEAN
    /\ lost \in Nat

\* The flow has just been added by add_flow_if_needed(): a message of the
\* actor has arrived here, nothing has been sent to it yet.
Init ==
    /\ window = InitialWindow
    /\ open = TRUE
    /\ notify = [waiters |-> 0, permits |-> 0]
    /\ spc = [s \in Senders |-> "idle"]
    /\ cancels = 0
    /\ wire = <<>>
    /\ back = <<>>
    /\ rx = FullWindow
    /\ rxFlow = "none"
    /\ pending = 0
    /\ pushed = FALSE
    /\ alive = TRUE
    /\ conn = TRUE
    /\ lost = 0

-----------------------------------------------------------------------------
(* The sending node *)

\* Senders between the failed fetch_sub and the fetch_add of try_acquire().
Restoring == {s \in Senders : spc[s] \in {"restore", "restoreTry"}}
\* Senders inside acquire() or try_acquire(): they hold the shared lock.
Sharing == {s \in Senders : spc[s] \in {"restore", "restoreTry", "register"}}

\* A send starts: the address book knows the handle while the connection is
\* up (RegisterRemoteGroupGuard), and keeps it from new senders afterwards.
Starts(s) == spc[s] = "idle" /\ conn

Room == InitialWindow - window < MaxDebt

\* The item is handed to the socket writer, unless the connection is gone.
Put(payload) == wire' = IF conn THEN Append(wire, payload) ELSE wire

\* RemoteHandle::send and try_send with a budget: try_acquire() decrements
\* the window and it was positive.
Acquire(s) ==
    /\ Starts(s) \/ spc[s] = "retry"
    /\ open /\ window > 0
    /\ window' = window - 1
    /\ spc' = [spc EXCEPT ![s] = "idle"]
    /\ Put("message")
    /\ UNCHANGED <<open, notify, cancels, back, rxVars, alive, conn, lost>>

\* Without a budget: the window is decremented all the same, for a moment.
\* Object::send starts with try_send() and goes on with send(), which waits.
AcquireFails(s) ==
    /\ Starts(s) \/ spc[s] = "retry"
    /\ open /\ window <= 0
    /\ window' = window - 1
    /\ spc' = [spc EXCEPT ![s] =
                  IF @ = "retry" THEN "restore" ELSE "restoreTry"]
    /\ UNCHANGED <<open, notify, cancels, wire, back, rxVars, alive,
                   conn, lost>>

\* The fetch_add of try_acquire().  A try_send() returns Full, an
\* Object::send goes on to acquire().
Restore(s) ==
    /\ s \in Restoring
    /\ window' = window + 1
    /\ \E to \in IF spc[s] = "restore" THEN {"register"} ELSE {"idle", "retry"} :
          spc' = [spc EXCEPT ![s] = to]
    /\ UNCHANGED <<open, notify, cancels, wire, back, rxVars, alive,
                   conn, lost>>

\* SendNotify::notified, still under the shared lock.
Register(s) ==
    /\ spc[s] = "register"
    /\ notify' = [notify EXCEPT !.waiters = @ + 1]
    /\ spc' = [spc EXCEPT ![s] = "wait"]
    /\ UNCHANGED <<window, open, cancels, wire, back, rxVars, alive,
                   conn, lost>>

\* `notified.await` completes; the loop of Object::send goes round.
Notified(s) ==
    /\ spc[s] = "wait" /\ notify.permits > 0
    /\ notify' = [notify EXCEPT !.permits = @ - 1]
    /\ spc' = [spc EXCEPT ![s] = "retry"]
    /\ UNCHANGED <<window, open, cancels, wire, back, rxVars, alive,
                   conn, lost>>

\* The flow has been closed in the meantime: send() returns Err.
RetryClosed(s) ==
    /\ spc[s] = "retry" /\ ~open
    /\ spc' = [spc EXCEPT ![s] = "idle"]
    /\ UNCHANGED <<window, open, notify, cancels, wire, back, rxVars, alive,
                   conn, lost>>

\* The future of send() is dropped; SendNotify still counts it.
CancelWait(s) ==
    /\ spc[s] = "wait" /\ cancels < MaxCancels
    /\ spc' = [spc EXCEPT ![s] = "idle"]
    /\ cancels' = cancels + 1
    /\ UNCHANGED <<window, open, notify, wire, back, rxVars, alive,
                   conn, lost>>

\* RemoteHandle::unbounded_send and respond: do_acquire() always succeeds.
SendUnbounded(payload) ==
    /\ conn /\ open /\ Room
    /\ payload = "response" => Responses
    /\ window' = window - 1
    /\ Put(payload)
    /\ UNCHANGED <<open, notify, spc, cancels, back, rxVars, alive,
                   conn, lost>>

\* SendNotify::notify.
NotifyAll ==
    notify' = [waiters |-> 0, permits |-> notify.permits + notify.waiters]

\* Faulty variant: TxFlowControl::release looks at the previous window.
UpdateFlowPrevious ==
    /\ back # <<>> /\ Head(back).kind = "UpdateFlow" /\ Sharing = {}
    /\ back' = Rest(back)
    /\ IF open
       THEN /\ window' = window + Head(back).delta
            /\ IF window > 0 THEN NotifyAll ELSE UNCHANGED notify
       ELSE UNCHANGED <<window, notify>>
    /\ UNCHANGED <<open, spc, cancels, wire, rxVars, alive, conn, lost>>

\* TxFlows::update_flow, under the exclusive lock.  An update of a flow that
\* is not there is ignored.
UpdateFlow ==
    /\ back # <<>> /\ Head(back).kind = "UpdateFlow" /\ Sharing = {}
    /\ back' = Rest(back)
    /\ IF open
       THEN /\ window' = window + Head(back).delta
            /\ IF window' > 0 THEN NotifyAll ELSE UNCHANGED notify
       ELSE UNCHANGED <<window, notify>>
    /\ UNCHANGED <<open, spc, cancels, wire, rxVars, alive, conn, lost>>

\* Faulty variant: close_flow() wakes nobody.
CloseFlowSilent ==
    /\ back # <<>> /\ Head(back).kind = "CloseFlow" /\ Sharing = {}
    /\ back' = Rest(back)
    /\ open' = FALSE
    /\ UNCHANGED <<window, notify, spc, cancels, wire, rxVars, alive, conn,
                   lost>>

\* TxFlows::close_flow, under the exclusive lock.
HandleCloseFlow ==
    /\ back # <<>> /\ Head(back).kind = "CloseFlow" /\ Sharing = {}
    /\ back' = Rest(back)
    /\ open' = FALSE
    /\ IF open THEN NotifyAll ELSE UNCHANGED notify
    /\ UNCHANGED <<window, spc, cancels, wire, rxVars, alive, conn, lost>>

-----------------------------------------------------------------------------
(* The receiving node *)

\* i32 division by two, which rounds towards zero.
Half(n) == IF n >= 0 THEN n \div 2 ELSE -((-n) \div 2)

\* RxFlowControl::do_acquire; a message routed by its group, and not sent to
\* the actor's address, is not known to the sender's window.
DoAcquire(w, txKnows) ==
    [tx |-> IF txKnows THEN w.tx - 1 ELSE w.tx, rx |-> w.rx - 1]

\* RxFlowControl::release(1): the window afterwards ...
Released(w) == [w EXCEPT !.rx = @ + 1]

\* ... the budget it returns to the sender, if it is worth an update ...
ReleaseDelta(w) ==
    LET r == Released(w)
    IN  IF r.rx > 0 /\ r.tx < r.rx /\ r.rx - r.tx >= Half(r.tx)
        THEN r.rx - r.tx ELSE 0

\* Faulty variant: the receiver forgets what it has told the sender.
ReleaseForgets(w) ==
    LET d == ReleaseDelta(w)
    IN  /\ rx' = [tx |-> w.tx, rx |-> w.rx + 1]
        /\ back' = IF d = 0 THEN back
                   ELSE Append(back, [kind |-> "UpdateFlow", delta |-> d,
                                      upto |-> Credit + d])

\* ... which is sent back at once.
ReleaseFrom(w) ==
    LET d == ReleaseDelta(w)
    IN  /\ rx' = [tx |-> w.tx + d, rx |-> w.rx + 1]
        /\ back' = IF d = 0 THEN back
                   ELSE Append(back, [kind |-> "UpdateFlow", delta |-> d,
                                      upto |-> Credit + d])

\* get_or_create_flow(): `rx` is FullWindow until the flow is created.
CreateFlow == rxFlow' = "open"

\* do_handle_message() when the mailbox takes the message.
Deliver(txKnows) ==
    /\ pending = 0
    /\ CreateFlow
    /\ ReleaseFrom(DoAcquire(rx, txKnows))
    /\ UNCHANGED <<pending, lost>>

\* do_handle_message() when the mailbox is full, or messages already wait
\* for the pusher.
Enqueue(txKnows) ==
    /\ CreateFlow
    /\ rx' = DoAcquire(rx, txKnows)
    /\ pending' = pending + 1
    /\ UNCHANGED <<back, lost>>

\* RxFlows::close: the flow goes with its pending messages, and the other
\* node is told; without a flow nothing is done.
CloseRx ==
    /\ IF rxFlow = "open"
       THEN /\ rxFlow' = "closed"
            /\ back' = Append(back, [kind |-> "CloseFlow", delta |-> 0,
                                     upto |-> Credit])
            /\ pending' = 0
            /\ UNCHANGED lost
       ELSE /\ lost' = lost + 1
            /\ UNCHANGED <<rxFlow, back, pending>>
    /\ UNCHANGED rx

\* handle_direct_message().
ReceiveMessage ==
    /\ wire # <<>> /\ Head(wire) = "message"
    /\ wire' = Tail(wire)
    /\ \/ alive /\ (Deliver(TRUE) \/ Enqueue(TRUE))
       \/ ~alive /\ CloseRx
    /\ UNCHANGED <<txVars, pushed, alive, conn>>

\* make_envelope() for a response: only an existing flow is adjusted.
ReceiveResponse ==
    /\ wire # <<>> /\ Head(wire) = "response"
    /\ wire' = Tail(wire)
    /\ IF rxFlow = "open"
       THEN ReleaseFrom(DoAcquire(rx, TRUE)) /\ UNCHANGED lost
       ELSE lost' = lost + 1 /\ UNCHANGED <<rx, back>>
    /\ UNCHANGED <<txVars, rxFlow, pending, pushed, alive, conn>>

\* handle_routed_message() reaches the actor through its group.
ReceiveRouted ==
    /\ conn /\ alive /\ pending < MaxPending
    /\ Deliver(FALSE) \/ Enqueue(FALSE)
    /\ UNCHANGED <<txVars, wire, pushed, alive, conn>>

\* Pusher: the mailbox takes the next pending message.
Push ==
    /\ conn /\ alive /\ pending > 0 /\ ~pushed
    /\ pushed' = TRUE
    /\ UNCHANGED <<txVars, wire, back, rx, rxFlow, pending, alive, conn, lost>>

\* Pusher, after the await: the flow may have been closed in the meantime.
PushDone ==
    /\ conn /\ pushed
    /\ pushed' = FALSE
    /\ IF rxFlow = "open"
       THEN pending' = pending - 1 /\ ReleaseFrom(rx)
       ELSE UNCHANGED <<pending, rx, back>>
    /\ UNCHANGED <<txVars, wire, rxFlow, alive, conn, lost>>

\* Pusher: the actor has gone.
PushFails ==
    /\ conn /\ ~alive /\ pending > 0 /\ ~pushed
    /\ CloseRx
    /\ UNCHANGED <<txVars, wire, pushed, alive, conn>>

-----------------------------------------------------------------------------
(* Failures *)

\* The receiving actor terminates.
StopActor ==
    /\ ActorMayStop /\ alive
    /\ alive' = FALSE
    /\ UNCHANGED <<txVars, wire, back, rxVars, conn, lost>>

\* The connection is lost.  TxFlows::drop only updates a metric; a sender
\* that waits keeps the RemoteHandle and its flow.
LoseConnection ==
    /\ ConnMayFail /\ conn
    /\ conn' = FALSE
    /\ wire' = <<>>
    /\ back' = <<>>
    /\ UNCHANGED <<txVars, rxVars, alive, lost>>

-----------------------------------------------------------------------------
\* The steps of a send() or try_send() in progress.
SenderGoesOn(s) ==
    Restore(s) \/ Register(s) \/ Notified(s) \/ RetryClosed(s)

SenderStep(s) ==
    Acquire(s) \/ AcquireFails(s) \/ SenderGoesOn(s) \/ CancelWait(s)

HandleBack == UpdateFlow \/ HandleCloseFlow
Receive == ReceiveMessage \/ ReceiveResponse
Pusher == Push \/ PushDone \/ PushFails

Next ==
    \/ \E s \in Senders : SenderStep(s)
    \/ \E payload \in Payloads : SendUnbounded(payload)
    \/ HandleBack \/ Receive \/ ReceiveRouted \/ Pusher
    \/ StopActor \/ LoseConnection

Spec == Init /\ [][Next]_vars

\* Tasks go on, the socket delivers, the actor empties its mailbox; the lock
\* of the map and the semaphore of SendNotify are fair.
Fairness ==
    /\ \A s \in Senders : SF_vars(SenderGoesOn(s))
    /\ WF_vars(Receive)
    /\ WF_vars(Pusher)
    /\ SF_vars(HandleBack)

FairSpec == Spec /\ Fairness

-----------------------------------------------------------------------------
(* Properties *)

Waiting == {s \in Senders : spc[s] = "wait"}

\* Both ends count on the same flow.
Running == conn /\ open /\ rxFlow # "closed"

\* No budget is created or lost: what the receiver believes the sender's
\* window to be is that window, plus what failed try_acquire()s will put
\* back, what is on the wire either way, and the arrivals it did not count.
WindowConserved ==
    Running => window + Cardinality(Restoring) + Len(wire) + lost
                   + Credit = rx.tx

\* The windows never exceed the initial one, whatever mix of bounded and
\* unbounded messages, responses and routed messages arrives: none of the
\* expect("window overflow") can fail.
NoOverflow ==
    Running => /\ window <= InitialWindow
               /\ rx.tx <= InitialWindow /\ rx.rx <= InitialWindow

\* Updates are not sent for tiny changes, yet the sender is never left with
\* an empty window once the receiver has nothing left to release.
NoStarvation ==
    (Running /\ lost = 0 /\ wire = <<>> /\ pending = 0 /\ back = <<>>
        /\ Restoring = {}) => window > 0

\* acquire() reports Full only for an exhausted window, although concurrent
\* failing calls push the counter below its true value for a moment.
FullIsTrue ==
    open /\ Sharing # {} => window + Cardinality(Restoring) <= 0

\* "we cannot miss a notification here" (flows_tx.rs:110): senders that wait
\* without a permit wait for budget; closing the flow releases them all.
NoLostWakeup ==
    Cardinality(Waiting) > notify.permits =>
        open /\ window + Cardinality(Restoring) <= 0

\* The budget of the window can be used: it does not overflow, is not refused
\* while there is some, and neither a withheld update nor a missed
\* notification leaves a sender without it.
BudgetUsable == TypeOK /\ NoOverflow /\ NoStarvation /\ FullIsTrue /\ NoLostWakeup

\* Unbounded sends and responses, which no window holds back and which can
\* starve bounded sends, stop at some time.
UnboundedStops ==
    <>[][~ \E payload \in Payloads : SendUnbounded(payload)]_vars

\* Then a bounded send ends its wait, as long as the connection is up and
\* every arrival has been counted by the receiver.
SendEndsIfCounted ==
    UnboundedStops =>
        \A s \in Senders :
            spc[s] = "wait" ~> (spc[s] # "wait" \/ lost > 0 \/ ~conn)

\* "Returns `Err` if the message hasn't reached any mailboxes"
\* (context.rs:491): a bounded send does not wait for ever.
SendEnds ==
    UnboundedStops => \A s \in Senders : spc[s] = "wait" ~> spc[s] # "wait"
=============================================================================
