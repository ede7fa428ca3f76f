------------------------------ MODULE Sessions ------------------------------
(***************************************************************************)
(* The life of one connection between two nodes once its socket is open:    *)
(* the two sides agree on its role (accept_connection), then a control      *)
(* connection exchanges pings in lockstep (control_maintenance) and a data  *)
(* connection is watched by the idle tracker of its worker.  The link may   *)
(* go silent.  Handlers take no time: `now` only moves when nothing is due. *)
(***************************************************************************)
EXTENDS Naturals, Sequences

CONSTANTS PingInterval,    \* ping_interval of the configuration
          IdleTimeout,     \* idle_timeout of the configuration
          ControlInterval, \* the interval of control_maintenance
          ControlTimeout,  \* the timeout of control_maintenance
          MaxDelay,        \* bound: how long a message is on the wire
          MaxSent,         \* bound: data messages of a side
          EndOfTime        \* bound: time

VARIABLES side,  \* what each side of the connection is doing
          wire,  \* what is on its way to each side
          link,  \* "up", or "cut": nothing arrives any more and nobody is told
          now

sessionVars == <<side, wire, link, now>>

Sides == {"client", "server"}

Peer(s) == CHOOSE p \in Sides : p # s

Switch(role, mine, yours) == [is |-> "Switch", role |-> role, mine |-> mine, yours |-> yours]
Plain(is) == [is |-> is, role |-> "none", mine |-> 0, yours |-> 0]

\* IdleTracker::new() is called with the socket; nothing has been read yet.
NewSide(pc, role, mine, yours) ==
    [pc |-> pc, role |-> role, mine |-> mine, yours |-> yours, deadline |-> IdleTimeout,
     tick |-> 0, prev |-> 0, fresh |-> FALSE, read |-> 0, left |-> MaxSent, why |-> "none"]

\* Only the side that connects knows what the connection is for.
SessionsInit ==
    /\ \E role \in {"control", "data"} :
         side = [s \in Sides |->
                   IF s = "client"
                   THEN NewSide("switch", role, IF role = "data" THEN 1 ELSE 0,
                                                IF role = "data" THEN 2 ELSE 0)
                   ELSE NewSide("await", "unknown", 0, 0)]
    /\ wire = [s \in Sides |-> <<>>]
    /\ link = "up"
    /\ now = 0

\* What is sent over a cut link or to a closed socket is lost.
Sent(w, s, msg) ==
    IF link = "up" /\ side[Peer(s)].pc # "gone"
    THEN [w EXCEPT ![Peer(s)] = Append(@, [msg |-> msg, at |-> now])]
    ELSE w

\* ReadHalf::recv(): IdleTrack::update() for everything that is read.
Taken(s) == [side[s] EXCEPT !.fresh = TRUE, !.read = now]

Over(m, why) == [m EXCEPT !.pc = "gone", !.why = why]

\* accept_connection() of the connecting side: it speaks first.
SendSwitch(s) ==
    /\ side[s].pc = "switch"
    /\ wire' = Sent(wire, s, Switch(side[s].role, side[s].mine, side[s].yours))
    /\ side' = [side EXCEPT ![s].pc = "await", ![s].deadline = now + IdleTimeout]
    /\ UNCHANGED <<link, now>>

\* control_maintenance() or the worker starts; both tick at once.
Accepted(m, msg) ==
    [m EXCEPT !.role = msg.role, !.mine = msg.yours, !.yours = msg.mine, !.tick = now,
              !.pc = IF msg.role = "control" THEN "tick" ELSE "data"]

\* What the accepting side says back: the same groups, seen from its side.
InKind(msg) == Switch(msg.role, msg.yours, msg.mine)

\* The rest of accept_connection(): the accepting side follows the message it
\* reads and answers in kind, the connecting one insists on its role.
RecvSwitch(s) ==
    /\ side[s].pc = "await" /\ wire[s] # <<>>
    /\ LET msg == Head(wire[s]).msg
           rest == [wire EXCEPT ![s] = Tail(@)]
       IN  CASE msg.is = "Switch" /\ side[s].role = "unknown" ->
                    /\ wire' = Sent(rest, s, InKind(msg))
                    /\ side' = [side EXCEPT ![s] = Accepted(Taken(s), msg)]
             [] msg.is = "Switch" /\ side[s].role = msg.role ->
                    /\ wire' = rest
                    /\ side' = [side EXCEPT ![s] = Accepted(Taken(s), msg)]
             [] OTHER ->
                    /\ wire' = rest
                    /\ side' = [side EXCEPT ![s] = Over(Taken(s), "unexpected")]
    /\ UNCHANGED <<link, now>>

\* control_maintenance(): a round is a ping sent, a ping read, a pong sent and
\* a pong read.
ControlTick(s) ==
    /\ side[s].pc = "tick" /\ now >= side[s].tick
    /\ wire' = Sent(wire, s, Plain("Ping"))
    /\ side' = [side EXCEPT ![s].pc = "Ping", ![s].tick = @ + ControlInterval,
                            ![s].deadline = now + ControlTimeout]
    /\ UNCHANGED <<link, now>>

RecvControl(s) ==
    /\ side[s].pc \in {"Ping", "Pong"} /\ wire[s] # <<>>
    /\ LET msg == Head(wire[s]).msg
           rest == [wire EXCEPT ![s] = Tail(@)]
       IN  IF msg.is # side[s].pc
           THEN /\ side' = [side EXCEPT ![s] = Over(Taken(s), "unexpected")]
                /\ wire' = rest
           ELSE /\ side' = [side EXCEPT ![s] =
                              [Taken(s) EXCEPT !.pc = IF @ = "Ping" THEN "Pong" ELSE "tick",
                                               !.deadline = now + ControlTimeout]]
                /\ wire' = IF msg.is = "Ping" THEN Sent(rest, s, Plain("Pong")) ELSE rest
    /\ UNCHANGED <<link, now>>

\* timeout(): nothing has come for too long.
TimedOut(s) ==
    /\ side[s].pc \in {"await", "Ping", "Pong"} /\ now >= side[s].deadline
    /\ side' = [side EXCEPT ![s] = Over(@, "timeout")]
    /\ UNCHANGED <<wire, link, now>>


\* IdleTracker::check(): the counter has moved since the last check, or not.
Check(m) == IF m.fresh THEN [m EXCEPT !.fresh = FALSE, !.prev = now] ELSE m

\* PingTick of the worker: close a connection that is idle for too long, ping
\* the peer otherwise.
DataTick(s) ==
    /\ side[s].pc = "data" /\ now >= side[s].tick
    /\ LET m == Check(side[s])
       IN  IF now - m.prev >= IdleTimeout
           THEN /\ side' = [side EXCEPT ![s] = Over(m, "idle")]
                /\ UNCHANGED wire
           ELSE /\ side' = [side EXCEPT ![s] = [m EXCEPT !.tick = @ + PingInterval]]
                /\ wire' = Sent(wire, s, Plain("Ping"))
    /\ UNCHANGED <<link, now>>

\* SocketReader::handle_system_message(): a ping is answered, a pong only read.
RecvData(s) ==
    /\ side[s].pc = "data" /\ wire[s] # <<>>
    /\ LET rest == [wire EXCEPT ![s] = Tail(@)]
       IN  wire' = IF Head(wire[s]).msg.is = "Ping" THEN Sent(rest, s, Plain("Pong")) ELSE rest
    /\ side' = [side EXCEPT ![s] = Taken(s)]
    /\ UNCHANGED <<link, now>>

\* Whatever else is sent over a data connection.
SendData(s) ==
    /\ side[s].pc = "data" /\ side[s].left > 0
    /\ wire' = Sent(wire, s, Plain("Data"))
    /\ side' = [side EXCEPT ![s].left = @ - 1]
    /\ UNCHANGED <<link, now>>

\* Discovery::abort_connection(): it does not want the connection any more and
\* terminates its own stream, or the worker is told to stop.
AbortSession(s) ==
    /\ side[s].pc # "gone"
    /\ side' = [side EXCEPT ![s] = Over(@, "aborted")]
    /\ wire' = [wire EXCEPT ![s] = <<>>]
    /\ UNCHANGED <<link, now>>

\* The peer has closed its socket and all it has sent is read.
PeerEnded(s) ==
    /\ side[s].pc \in {"await", "Ping", "Pong", "data"}
    /\ side[Peer(s)].pc = "gone" /\ link = "up" /\ wire[s] = <<>>

SeeEnd(s) ==
    /\ PeerEnded(s)
    /\ side' = [side EXCEPT ![s] = Over(@, "closed")]
    /\ UNCHANGED <<wire, link, now>>

Cut ==
    /\ link = "up" /\ link' = "cut"
    /\ wire' = [s \in Sides |-> <<>>]
    /\ UNCHANGED <<side, now>>

Due(s) ==
    \/ side[s].pc = "switch"
    \/ side[s].pc \in {"tick", "data"} /\ now >= side[s].tick
    \/ side[s].pc \in {"await", "Ping", "Pong"} /\ now >= side[s].deadline
    \/ /\ side[s].pc \in {"await", "Ping", "Pong", "data"} /\ wire[s] # <<>>
       /\ now >= Head(wire[s]).at + MaxDelay
    \/ PeerEnded(s)

SessionTime ==
    /\ now < EndOfTime /\ \A s \in Sides : ~Due(s)
    /\ \E s \in Sides : side[s].pc # "gone"
    /\ now' = now + 1
    /\ UNCHANGED <<side, wire, link>>

SessionsNext ==
    \/ \E s \in Sides :
         \/ SendSwitch(s) \/ RecvSwitch(s) \/ ControlTick(s) \/ RecvControl(s) \/ TimedOut(s)
         \/ DataTick(s) \/ RecvData(s) \/ SendData(s) \/ AbortSession(s) \/ SeeEnd(s)
    \/ Cut \/ SessionTime

SessionsSpec == SessionsInit /\ [][SessionsNext]_sessionVars

(***************************************************************************)
(* Properties.                                                              *)
(***************************************************************************)

=============================================================================
