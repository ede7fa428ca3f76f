----------------------------- MODULE Receiving -----------------------------
(***************************************************************************)
(* How an actor receives (recv() and try_recv() of elfo-core/src/context.rs):*)
(* from its mailbox, which is abstract here, and from the sources attached   *)
(* to the context (source.rs): intervals, delays and streams, which handles  *)
(* reconfigure and terminate from other tasks (time/*.rs, stream.rs,         *)
(* signal.rs).                                                              *)
(*                                                                         *)
(* A source is polled only if it was woken.  Instants are relative to now.  *)
(***************************************************************************)
EXTENDS Integers, Sequences, FiniteSets

CONSTANTS
    Sources,   \* attached sources
    SourceKinds,\* what they may be, functions to "interval", "delay", ...
    Periods,   \* periods and delays
    MaxLag,    \* bound: how late a tick is taken
    BoxSize,   \* capacity of the mailbox
    Mails      \* {"message", "Ping", "Terminate", "UpdateConfig"}

ASSUME ReceivingAssumption ==
    /\ Periods \subseteq Nat \ {0} /\ MaxLag \in Nat /\ BoxSize \in Nat
    /\ SourceKinds \subseteq
           [Sources -> {"interval", "delay", "once", "stream"}]

VARIABLES
    stage,    \* Context::stage
    pc,       \* "user", "recv", "try", "panic" or "gone"
    kind,     \* status_kind of the actor
    box,      \* the mailbox
    closed,   \* it is closed
    src,      \* the sources, each under its mutex
    woken,    \* sources that unicycle will poll
    config    \* [stored, applied]: versions sent and taken

receivingVars == <<stage, pc, kind, box, closed, src, woken, config>>

Far == 99            \* far_future()
NEVER == 0

\* SourceArc::new and Sources::push: a new source is polled once anyway.
\* `saved` is the waker of StreamWithWaker, `armed` that of the timer or the
\* channel behind.
NewSource(sort) ==
    [sort |-> sort, attached |-> TRUE,
     status |-> IF sort \in {"delay", "once"} THEN "Oneshot" ELSE "Stream",
     saved |-> FALSE, armed |-> FALSE, period |-> NEVER, delayed |-> FALSE,
     deadline |-> Far, items |-> 0, ended |-> FALSE]

Alive(s) == src[s].status # "Terminated"
Timed(s) == src[s].sort \in {"interval", "delay"}

\* Would poll_recv() yield something?
Ready(s) ==
    CASE src[s].sort = "interval" -> /\ src[s].period # NEVER
                                       /\ src[s].deadline <= 0
      [] src[s].sort = "delay" -> src[s].deadline <= 0
      [] OTHER -> src[s].items > 0 \/ src[s].ended

-----------------------------------------------------------------------------
(* Handles: each operation locks the source and does nothing if it is        *)
(* terminated.                                                              *)

\* Faulty: the source is not woken.
WakeNothing(s) == UNCHANGED woken

\* SourceStreamGuard::wake: the saved waker, a no-op before the first poll.
Wake(s) == woken' = IF src[s].saved THEN woken \cup {s} ELSE woken

HandleFrame == UNCHANGED <<stage, pc, kind, box, closed, config>>

\* Interval::start, start_after, start_at and stop
Schedule(s, when, period) ==
    /\ Alive(s) /\ src[s].sort = "interval"
    /\ src' = [src EXCEPT ![s].delayed = when # NEVER, ![s].period = period,
                          ![s].deadline = IF when = NEVER THEN period ELSE when]
    /\ Wake(s)
    /\ HandleFrame

\* Interval::set_period
SetPeriod(s, period) ==
    /\ Alive(s) /\ src[s].sort = "interval"
    /\ src[s].period \notin {NEVER, period}
    /\ src[s].deadline - src[s].period + period >= -MaxLag
    /\ IF src[s].delayed
       THEN src' = [src EXCEPT ![s].period = period] /\ UNCHANGED woken
       ELSE /\ src' = [src EXCEPT ![s].period = period,
                          ![s].deadline = @ - src[s].period + period]
            /\ Wake(s)
    /\ HandleFrame

\* SourceStreamGuard::terminate
TerminateByRef(s) ==
    /\ Alive(s)
    /\ src' = [src EXCEPT ![s].status = "Terminated", ![s].armed = FALSE]
    /\ Wake(s)
    /\ HandleFrame

\* Delay::until is scheduled when it is made; here, once, before it is polled.
Until(s, when) ==
    /\ src[s].sort = "delay" /\ Alive(s) /\ src[s].deadline = Far
    /\ ~src[s].saved
    /\ src' = [src EXCEPT ![s].deadline = when]
    /\ UNCHANGED woken /\ HandleFrame

\* The stream behind the source yields an item or ends, and wakes its poller.
Arrive(s, ends) ==
    /\ ~Timed(s) /\ Alive(s) /\ src[s].items = 0 /\ ~src[s].ended
    /\ src' = [src EXCEPT ![s].items = IF ends THEN 0 ELSE 1,
                          ![s].ended = ends, ![s].armed = FALSE]
    /\ woken' = IF src[s].armed THEN woken \cup {s} ELSE woken
    /\ HandleFrame

\* The timer fires.
Fire(s) ==
    /\ Timed(s) /\ src[s].armed /\ src[s].deadline <= 0
    /\ src' = [src EXCEPT ![s].armed = FALSE]
    /\ woken' = woken \cup {s}
    /\ HandleFrame

Time ==
    /\ \A s \in Sources : Alive(s) => src[s].deadline > -MaxLag
    /\ src' = [s \in Sources |->
           IF Alive(s) /\ src[s].deadline # Far
           THEN [src[s] EXCEPT !.deadline = @ - 1] ELSE src[s]]
    /\ UNCHANGED woken /\ HandleFrame

-----------------------------------------------------------------------------
(* The actor *)

\* recv() or try_recv(), pre_recv() included.
StartRecv(how) ==
    /\ pc = "user"
    /\ pc' = IF stage = "Closed" THEN "panic" ELSE how
    /\ stage' = IF stage = "PreRecv" THEN "Working" ELSE stage
    /\ kind' = IF stage = "PreRecv" /\ kind = "Initializing" THEN "Normal"
               ELSE kind
    /\ UNCHANGED <<box, closed, src, woken, config>>

\* post_recv(): a Ping is answered and the loop goes on.
PostRecv(mail) ==
    /\ config' = IF mail = "UpdateConfig"
                 THEN [config EXCEPT !.applied = config.stored] ELSE config
    /\ kind' = IF mail = "Terminate" THEN "Terminating" ELSE kind
    /\ pc' = IF mail = "Ping" THEN pc ELSE "user"

TakeMail ==
    /\ pc \in {"recv", "try"} /\ box # <<>>
    /\ PostRecv(Head(box))
    /\ box' = Tail(box)
    /\ UNCHANGED <<stage, closed, src, woken>>

\* RecvResult::Closed and on_input_closed()
TakeClosed ==
    /\ pc \in {"recv", "try"} /\ box = <<>> /\ closed
    /\ pc' = "user" /\ stage' = "Closed" /\ kind' = "Terminating"
    /\ UNCHANGED <<box, closed, src, woken, config>>

\* poll_recv() of the stream inside.
PollRecv(s) ==
    CASE ~Ready(s) -> [src[s] EXCEPT !.saved = TRUE,
                          !.armed = @ \/ src[s].sort # "interval"
                                      \/ src[s].period # NEVER]
      [] Ready(s) /\ src[s].sort = "interval" ->
            [src[s] EXCEPT !.delayed = FALSE, !.deadline = @ + src[s].period]
      [] OTHER -> [src[s] EXCEPT !.items = 0]

\* UntypedSourceArc::poll_next, polled by unicycle: one that is over is
\* removed, one that has yielded is polled again, one that is pending waits to
\* be woken.
PollNext(s) ==
    LET over == src[s].ended \/ (Ready(s) /\ src[s].status = "Oneshot")
        polled == IF over THEN [PollRecv(s) EXCEPT !.status = "Terminated",
                                                   !.armed = FALSE]
                  ELSE PollRecv(s)
    IN  IF ~Alive(s)
        THEN /\ src' = [src EXCEPT ![s].attached = FALSE]
             /\ woken' = woken \ {s} /\ UNCHANGED <<pc, kind, config>>
        ELSE IF ~Ready(s)
        THEN /\ src' = [src EXCEPT ![s] = polled]
             /\ woken' = woken \ {s} /\ UNCHANGED <<pc, kind, config>>
        ELSE IF src[s].ended
        THEN /\ src' = [src EXCEPT ![s] = [polled EXCEPT !.attached = FALSE]]
             /\ woken' = woken \ {s} /\ UNCHANGED <<pc, kind, config>>
        ELSE /\ src' = [src EXCEPT ![s] = polled]
             /\ UNCHANGED woken /\ PostRecv("message")

PollSource(s) ==
    /\ pc = "recv" \/ (pc = "try" /\ box = <<>> /\ ~closed)
    /\ src[s].attached /\ s \in woken
    /\ PollNext(s)
    /\ UNCHANGED <<stage, box, closed>>

\* try_recv() finds nothing; the future of recv() is dropped.
GiveUp ==
    /\ \/ pc = "recv"
       \/ pc = "try" /\ box = <<>> /\ ~closed
          /\ \A s \in woken : ~src[s].attached
    /\ pc' = "user"
    /\ UNCHANGED <<stage, kind, box, closed, src, woken, config>>

\* The actor ends: the sources that the context owns are terminated.
Leave ==
    /\ pc \in {"user", "panic"}
    /\ pc' = "gone" /\ closed' = TRUE /\ box' = <<>>
    /\ src' = [s \in Sources |-> [src[s] EXCEPT !.attached = FALSE,
                                     !.status = "Terminated", !.armed = FALSE]]
    /\ woken' = {}
    /\ UNCHANGED <<stage, kind, config>>

\* The mailbox, from outside; a configuration is stored before it is sent.
Mail(mail) ==
    /\ ~closed /\ Len(box) < BoxSize
    /\ mail = "UpdateConfig" => config.stored < 1
    /\ box' = Append(box, mail)
    /\ config' = IF mail = "UpdateConfig"
                 THEN [config EXCEPT !.stored = @ + 1] ELSE config
    /\ UNCHANGED <<stage, pc, kind, closed, src, woken>>

CloseBox ==
    /\ ~closed /\ closed' = TRUE
    /\ UNCHANGED <<stage, pc, kind, box, src, woken, config>>

ReceivingInit ==
    /\ stage = "PreRecv" /\ pc = "user" /\ kind = "Initializing"
    /\ box = <<>> /\ closed = FALSE
    /\ \E sorts \in SourceKinds : src = [s \in Sources |-> NewSource(sorts[s])]
    /\ woken = Sources
    /\ config = [stored |-> 0, applied |-> 0]

ReceivingNext ==
    \/ \E s \in Sources :
          \/ \E p \in Periods : \/ Schedule(s, NEVER, p) \/ SetPeriod(s, p)
                                \/ Schedule(s, p, p) \/ Until(s, p)
          \/ Schedule(s, Far, NEVER)
          \/ \E ends \in BOOLEAN : Arrive(s, ends)
          \/ TerminateByRef(s) \/ Fire(s) \/ PollSource(s)
    \/ \E how \in {"recv", "try"} : StartRecv(how)
    \/ \E mail \in Mails : Mail(mail)
    \/ TakeMail \/ TakeClosed \/ GiveUp \/ Leave \/ CloseBox \/ Time

ReceivingSpec == ReceivingInit /\ [][ReceivingNext]_receivingVars

-----------------------------------------------------------------------------
\* No tick is lost, whichever way a handle and the actor interleave: a source
\* that has something to yield will be polled, because it is woken or its
\* timer or channel will wake it; a terminated one is polled once more, which
\* removes it.  A source that is removed is terminated, and its stream dropped.
NoLostTick ==
    \A s \in Sources :
        /\ src[s].attached /\ Alive(s) /\ Ready(s) => s \in woken \/ src[s].armed
        /\ src[s].attached /\ ~Alive(s) => s \in woken
        /\ ~src[s].attached => ~Alive(s)
=============================================================================
