----------------------------- MODULE Discovery -----------------------------
(***************************************************************************)
(* The discovery actor of a node (elfo-network/src/discovery), the          *)
(* connection manager it drives (connman.rs) and the life cycle of the      *)
(* workers it hands data connections to (worker/mod.rs, lib.rs).  The peer  *)
(* and the network are the environment: an attempt may fail, a connection   *)
(* may break at any moment.                                                 *)
(*                                                                         *)
(* Time is relative: an instant is the number of units until it comes, 0    *)
(* when it has come.                                                        *)
(***************************************************************************)
EXTENDS Integers, Sequences, FiniteSets, FiniteSetsExt, SequencesExt

CONSTANTS
    Predefined,   \* transports that `discovery.predefined` may name
    Listened,     \* transports that `listen` may name
    ThisGroups,   \* GroupInfo of this node: [no, name, interests]
    PeerGroups,   \* GroupInfo of the peer
    MaxConns,     \* bound: connections alive or referred to at a time
    Interval,     \* reconnect_interval, in units of time
    MaxTicks,     \* bound: ticks of one instant that are told apart
    WorkerBox     \* capacity of a worker's mailbox

ASSUME DiscoveryAssumption ==
    /\ Interval \in Nat \ {0} /\ MaxTicks \in Nat \ {0}
    /\ MaxConns \in Nat \ {0} /\ WorkerBox \in Nat \ {0}

VARIABLES
    cfg,         \* Discovery::cfg: what is to be listened on and connected to
    conns,       \* ConnMan::conns
    streams,     \* Discovery::conn_streams and the sources behind the handles
    listening,   \* Discovery::listen_streams
    nodes,       \* NodeMap::nodes: is the peer's NodeInfo there?
    inbox,       \* ids of ConnectionFailed sent to the discovery actor
    ticks,       \* attached Delays: instant -> number of ManageConnectionsTick
    readvise,    \* AdviseTimer::readvise_at
    worker,      \* the worker of every pair of groups
    skipped,     \* history: ids of the sockets that a worker dropped
    unscheduled  \* history: ids that failed in on_connection_accepted() and
                 \* were not managed since

discoveryVars == <<cfg, conns, streams, listening, nodes, inbox, ticks,
                   readvise, worker, skipped, unscheduled>>

ConnIds == 1..MaxConns
Instants == 0..Interval
NoConn == [state |-> "none"]

Live == {"connect", "accept", "control"}     \* sources that may still yield

\* infer_connections: the pairs <<one's group, two's group>> where `one`
\* sends to groups of that name.
InferConnections(one, two) ==
    {<<o.no, t.no>> : <<o, t>> \in
        {p \in one \X two : p[2].name \in p[1].interests}}

\* Pairs <<local, remote>> that on_connection_accepted() opens connections
\* for; a pair both sides are interested in comes twice.
Wanted ==
    {<<"theirs", p[2], p[1]>> : p \in InferConnections(PeerGroups, ThisGroups)}
    \cup
    {<<"ours", p[1], p[2]>> : p \in InferConnections(ThisGroups, PeerGroups)}

\* make_group_meta: the group exists on its node.
Known(groups, no) == \E g \in groups : g.no = no

Pairs == {g.no : g \in ThisGroups} \X {g.no : g \in PeerGroups}

\* ConnectionRole
Data(local, remote) == [kind |-> "Data", local |-> local, remote |-> remote]
Control == [kind |-> "Control"]
Unknown == [kind |-> "Unknown"]

\* Conn, without what only the log uses.
Conn(role, transport, dir, state, at) ==
    [role |-> role, transport |-> transport, dir |-> dir, state |-> state,
     at |-> at]

NoWorker == [st |-> "none", id |-> 0, box |-> <<>>]

\* Ids that a message, a worker or a source still refers to.  SlotMap never
\* hands an id out twice; here an id returns once nothing refers to it.
Referred ==
    inbox \cup {worker[p].id : p \in Pairs}
          \cup UNION {{m.id : m \in Range(worker[p].box)} : p \in Pairs}

-----------------------------------------------------------------------------
(* The connection manager.  The operators below take and return the part    *)
(* of the state that a handler changes on its way:                          *)
(* [conns, streams, ticks, readvise, missed, aborts].                       *)

Free(s) == {id \in ConnIds : s.conns[id] = NoConn /\ id \notin Referred}
Fresh(s) == Min(Free(s))

\* insert_new, insert_establishing
InsertConn(s, conn) ==
    LET id == Fresh(s) IN
    [s EXCEPT !.conns[id] = conn, !.streams[id] = "none"]

\* Command::Open and open_existing_connection: the stream that connects.
Open(s, id) == [s EXCEPT !.streams[id] = "connect"]

\* ConnMan::on_connection_failed
FailConn(s, id) ==
    LET conn == s.conns[id] IN
    IF conn = NoConn \/ conn.state = "Failed" THEN s
    ELSE IF conn.state = "Aborting" \/ conn.dir = "incoming"
    THEN [s EXCEPT !.conns[id] = NoConn]
    ELSE [s EXCEPT !.conns[id].state = "Failed", !.conns[id].at = Interval]

\* manage_connection of a connection that is due: a new one is opened, a
\* failed one is replaced by a new id that is opened.
ManageDue(s, id) ==
    LET conn == s.conns[id]
        gone == [s EXCEPT !.conns[id] = NoConn]
        new == Fresh(gone)
    IN  IF conn.state = "New"
        THEN Open([s EXCEPT !.conns[id].state = "Establishing"], id)
        ELSE Open([gone EXCEPT !.conns[new] =
                       [conn EXCEPT !.state = "Establishing"]], new)

\* AdviseTimer::feed and Delay::until
AdviseFeed(s, advise) ==
    IF advise >= s.readvise
    THEN [s EXCEPT !.readvise = advise,
                   !.ticks[advise] = Min({@ + 1, MaxTicks})]
    ELSE s

\* ConnMan::manage_connections and Discovery::manage_connections
Manage(s) ==
    LET waiting == {id \in ConnIds : s.conns[id].state \in {"New", "Failed"}}
        due == {id \in waiting : s.conns[id].at = 0}
        later == {s.conns[id].at : id \in waiting \ due}
        advised == IF later = {} THEN s ELSE AdviseFeed(s, Min(later))
    IN  FoldSet(LAMBDA id, acc : ManageDue(acc, id), advised, due)

\* Discovery::abort_connection: end the source, or tell the worker.
Abort(s, id) ==
    LET handle == s.streams[id]
        left == [s EXCEPT !.streams[id] = "none"]
        role == s.conns[id].role
    IN  IF handle \in Live THEN FailConn(left, id)
        ELSE IF /\ role.kind = "Data" /\ Known(ThisGroups, role.local)
                /\ nodes /\ Known(PeerGroups, role.remote)
        THEN [left EXCEPT !.aborts = @ \cup {<<role.local, role.remote, id>>}]
        ELSE left

\* ConnMan::abort_by_transport, and abort_connection of what it returns.
AbortTransport(s, t) ==
    LET used == {id \in ConnIds : /\ s.conns[id].state \notin {"none", "Aborting"}
                                  /\ s.conns[id].transport = t}
        failed == {id \in used : s.conns[id].state = "Failed"}
        marked == [s EXCEPT !.conns = [id \in ConnIds |->
                      IF id \in failed THEN NoConn
                      ELSE IF id \in used THEN [@[id] EXCEPT !.state = "Aborting"]
                      ELSE @[id]]]
    IN  FoldSet(LAMBDA id, acc : Abort(acc, id), marked, used \ failed)

\* open_new_connection
OpenNew(s, t, role) == InsertConn(s, Conn(role, t, "outgoing", "New", 0))

Current == [conns |-> conns, streams |-> streams, ticks |-> ticks,
            readvise |-> readvise, missed |-> unscheduled, aborts |-> {}]

\* The handler is done: its result becomes the state.
Commit(s) ==
    /\ conns' = s.conns /\ streams' = s.streams
    /\ ticks' = s.ticks /\ readvise' = s.readvise
    /\ unscheduled' = {id \in s.missed : s.conns[id].state = "Failed"}

-----------------------------------------------------------------------------
(* The discovery actor *)

\* AbortConnection is routed to a worker only if there is one, and reaches
\* it only if its mailbox is open.
Deliver(aborts) ==
    [p \in Pairs |->
        LET ids == {a[3] : a \in {x \in aborts : <<x[1], x[2]>> = p}}
            msgs == SetToSeq({[kind |-> "abort", id |-> id] : id \in ids})
        IN  IF worker[p].st \in {"none", "closed"} THEN worker[p]
            ELSE [worker[p] EXCEPT !.box = @ \o msgs]]

\* update_listen, update_discovery and manage_connections; Diff::make keeps
\* what is in both.  listen() may fail.
ApplyConfig(new, opened) ==
    LET up(s, t) == OpenNew(s, t, Control)
        s1 == FoldSet(LAMBDA t, acc : AbortTransport(acc, t), Current,
                      cfg.listen \ new.listen)
        s2 == FoldSet(LAMBDA t, acc : up(acc, t), s1,
                      new.predefined \ cfg.predefined)
        s3 == FoldSet(LAMBDA t, acc : AbortTransport(acc, t), s2,
                      cfg.predefined \ new.predefined)
        s4 == Manage(s3)
    IN  /\ cfg' = new
        /\ listening' = (listening \cap new.listen) \cup opened
        /\ Commit(s4)
        /\ worker' = Deliver(s4.aborts)

\* ConfigUpdated, and the start of main(), which applies the first config.
UpdateConfig ==
    \E new \in [predefined : SUBSET Predefined, listen : SUBSET Listened] :
        /\ new # cfg
        /\ Cardinality(Free(Current)) >=
               Cardinality(new.predefined \ cfg.predefined)
        /\ \E opened \in SUBSET (new.listen \ cfg.listen) :
               ApplyConfig(new, opened)
        /\ UNCHANGED <<nodes, inbox, skipped>>

\* ManageConnectionsTick
Tick ==
    /\ ticks[0] > 0
    /\ Commit(Manage([Current EXCEPT !.ticks[0] = @ - 1]))
    /\ UNCHANGED <<cfg, listening, nodes, inbox, worker, skipped>>

\* Faulty: the failure is noted, the timer is not fed.
FailUnmanaged(id, s) ==
    /\ Commit(FailConn(s, id))
    /\ UNCHANGED <<cfg, listening, nodes, worker, skipped>>

\* A failure reported by a source or a worker: on_connection_failed().
Fail(id, s) ==
    /\ Commit(Manage(FailConn(s, id)))
    /\ UNCHANGED <<cfg, listening, nodes, worker, skipped>>

\* on_connection_established() of an outgoing connection: to itself it is
\* dropped, otherwise accept_connection() starts.
Connected(id, self) ==
    /\ streams[id] = "connect"
    /\ Commit(IF self
              THEN [Current EXCEPT !.conns[id] = NoConn, !.streams[id] = "done"]
              ELSE [Current EXCEPT !.conns[id].state = "Established",
                                   !.streams[id] = "accept"])
    /\ UNCHANGED <<cfg, listening, nodes, inbox, worker, skipped>>

\* on_connection_established() of a socket that came through listen(): the
\* connection is allocated here.
Incoming(t) ==
    /\ t \in listening /\ Free(Current) # {}
    /\ LET id == Fresh(Current) IN
       Commit([Current EXCEPT
                  !.conns[id] = Conn(Unknown, t, "incoming", "Established", 0),
                  !.streams[id] = "accept"])
    /\ UNCHANGED <<cfg, listening, nodes, inbox, worker, skipped>>

\* The connect, accept or maintenance stream of a connection ends in an error.
StreamFails(id) ==
    /\ streams[id] \in Live
    /\ Fail(id, [Current EXCEPT !.streams[id] = "done"])
    /\ UNCHANGED inbox

\* ConnectionFailed from the FailGuard of a worker.
WorkerFailed(id) ==
    /\ id \in inbox
    /\ inbox' = inbox \ {id}
    /\ Fail(id, Current)

\* on_connection_accepted() after an exchange of SwitchToControl: the peer
\* becomes known, and the client opens the data connections.
AcceptControl(id) ==
    LET conn == conns[id]
        s1 == [Current EXCEPT !.conns[id].role = Control,
                              !.conns[id].state = "Accepted",
                              !.streams[id] = "control"]
        s2 == FoldSet(LAMBDA w, acc :
                          OpenNew(acc, conn.transport, Data(w[2], w[3])),
                      s1, Wanted)
    IN  /\ streams[id] = "accept" /\ conn.role.kind \in {"Unknown", "Control"}
        /\ nodes' = TRUE
        /\ IF conn.dir = "outgoing"
           THEN /\ Cardinality(Free(Current)) >= Cardinality(Wanted)
                /\ Commit(Manage(s2))
           ELSE Commit(s1)
        /\ UNCHANGED <<cfg, listening, inbox, worker, skipped>>

\* on_connection_accepted() after an exchange of SwitchToData.  The socket
\* goes to the worker of the pair, which the router starts if there is none.
AcceptData(id, local, remote) ==
    LET p == <<local, remote>>
        s1 == [Current EXCEPT !.conns[id].role = Data(local, remote),
                              !.conns[id].state = "Accepted",
                              !.streams[id] = "done"]
        agreed == /\ Known(ThisGroups, local)
                  /\ nodes /\ Known(PeerGroups, remote)
        sent == /\ agreed /\ worker[p].st # "closed"
                /\ Len(worker[p].box) < WorkerBox
    IN  /\ streams[id] = "accept"
        /\ \/ conns[id].role = Unknown
           \/ conns[id].role = Data(local, remote)
        /\ \/ /\ sent
              /\ Commit(s1)
              /\ worker' = [worker EXCEPT
                     ![p].st = IF @ = "none" THEN "starting" ELSE @,
                     ![p].box = Append(@, [kind |-> "handle", id |-> id])]
           \/ /\ ~sent
              /\ Commit(FailConn([s1 EXCEPT !.missed = @ \cup {id}], id))
              /\ UNCHANGED worker
        /\ UNCHANGED <<cfg, listening, nodes, inbox, skipped>>

-----------------------------------------------------------------------------
(* The worker of a pair of groups *)

WorkerFrame == UNCHANGED <<cfg, conns, streams, listening, nodes, ticks,
                           readvise, unscheduled>>

\* main(): the first message carries the socket; the FailGuard is made.
WorkerStart(p) ==
    /\ worker[p].st = "starting"
    /\ worker' = [worker EXCEPT ![p] = [st |-> "running",
                                        id |-> Head(worker[p].box).id,
                                        box |-> Tail(worker[p].box)]]
    /\ UNCHANGED <<inbox, skipped>> /\ WorkerFrame

\* Faulty: the end is not reported.
EndedSilently(p) ==
    /\ worker' = [worker EXCEPT ![p].st = "ending", ![p].id = 0]
    /\ UNCHANGED <<inbox, skipped>>

\* The end of main(): FailGuard::drop reports it.  The mailbox is still open.
Ended(p) ==
    /\ inbox' = inbox \cup {worker[p].id}
    /\ worker' = [worker EXCEPT ![p].st = "ending", ![p].id = 0]
    /\ UNCHANGED skipped

\* A message of the loop: a second socket is dropped, an abort of this very
\* connection ends the loop, one of another connection is ignored.
WorkerMessage(p) ==
    /\ worker[p].st = "running" /\ worker[p].box # <<>>
    /\ LET m == Head(worker[p].box) IN
       IF m.kind = "abort" /\ m.id = worker[p].id THEN Ended(p)
       ELSE /\ worker' = [worker EXCEPT ![p].box = Tail(@)]
            /\ skipped' = IF m.kind = "handle" THEN skipped \cup {m.id}
                          ELSE skipped
            /\ UNCHANGED inbox
    /\ WorkerFrame

\* The connection is closed by the peer, idle for too long, or broken.
WorkerEnds(p) ==
    /\ worker[p].st = "running"
    /\ Ended(p)
    /\ WorkerFrame

\* The actor is finished: its mailbox is closed, what is left in it dropped.
WorkerCloses(p) ==
    /\ worker[p].st = "ending"
    /\ skipped' = skipped \cup
           {m.id : m \in {x \in Range(worker[p].box) : x.kind = "handle"}}
    /\ worker' = [worker EXCEPT ![p].st = "closed", ![p].box = <<>>]
    /\ UNCHANGED inbox /\ WorkerFrame

\* The supervisor forgets the actor; the next socket starts a new one.
WorkerGone(p) ==
    /\ worker[p].st = "closed"
    /\ worker' = [worker EXCEPT ![p] = NoWorker]
    /\ UNCHANGED <<inbox, skipped>> /\ WorkerFrame

-----------------------------------------------------------------------------
\* A unit of time passes.
Time ==
    /\ conns' = [id \in ConnIds |->
           IF conns[id].state = "Failed" /\ conns[id].at > 0
           THEN [conns[id] EXCEPT !.at = @ - 1] ELSE conns[id]]
    /\ ticks' = [t \in Instants |->
           IF t = Interval THEN 0
           ELSE IF t = 0 THEN Min({ticks[0] + ticks[1], MaxTicks})
           ELSE ticks[t + 1]]
    /\ readvise' = Max({0, readvise - 1})
    /\ UNCHANGED <<cfg, streams, listening, nodes, inbox, worker, skipped,
                   unscheduled>>

DiscoveryInit ==
    /\ cfg = [predefined |-> {}, listen |-> {}]
    /\ conns = [id \in ConnIds |-> NoConn]
    /\ streams = [id \in ConnIds |-> "none"]
    /\ listening = {} /\ nodes = FALSE /\ inbox = {}
    /\ ticks = [t \in Instants |-> 0] /\ readvise = 0
    /\ worker = [p \in Pairs |-> NoWorker]
    /\ skipped = {} /\ unscheduled = {}

DiscoveryNext ==
    \/ UpdateConfig \/ Tick \/ Time
    \/ \E id \in ConnIds :
          \/ \E self \in BOOLEAN : Connected(id, self)
          \/ StreamFails(id) \/ WorkerFailed(id) \/ AcceptControl(id)
          \/ \E p \in Pairs : AcceptData(id, p[1], p[2])
    \/ \E t \in Listened : Incoming(t)
    \/ \E p \in Pairs : \/ WorkerStart(p) \/ WorkerMessage(p) \/ WorkerEnds(p)
                        \/ WorkerCloses(p) \/ WorkerGone(p)

DiscoverySpec == DiscoveryInit /\ [][DiscoveryNext]_discoveryVars

-----------------------------------------------------------------------------
DiscoveryTypeOK ==
    /\ cfg \in [predefined : SUBSET Predefined, listen : SUBSET Listened]
    /\ \A id \in ConnIds :
          \/ conns[id] = NoConn
          \/ /\ conns[id].role \in {Unknown, Control} \cup
                     {Data(p[1], p[2]) : p \in Pairs}
             /\ conns[id].state \in {"Establishing", "Established", "Accepted",
                                    "Failed", "Aborting"}
             /\ conns[id].state = "Failed" => conns[id].dir = "outgoing"
             /\ conns[id].at \in Instants
    /\ streams \in [ConnIds -> Live \cup {"none", "done"}]
    /\ listening \subseteq cfg.listen
    /\ inbox \subseteq ConnIds
    /\ ticks \in [Instants -> 0..MaxTicks] /\ readvise \in Instants

\* The workers that will report the end of connection `id`.
Keepers(id) ==
    {p \in Pairs : \/ worker[p].id = id
                   \/ \E m \in Range(worker[p].box) :
                          m.kind = "handle" /\ m.id = id}

\* Every connection has exactly one driver, which will report its failure:
\* the source of the discovery actor that its status names (so the unwraps
\* of on_connection_established and on_connection_accepted do not panic), a
\* worker, or a ConnectionFailed on its way.  The exception is a connection
\* whose socket a worker dropped.  The worker of a connection being aborted
\* has been told, or is ending.
ConnOwned ==
    \A id \in ConnIds :
        LET st == conns[id].state
            source == CASE streams[id] = "connect" -> {"Establishing"}
                        [] streams[id] = "accept"  -> {"Established"}
                        [] streams[id] = "control" -> {"Accepted"}
                        [] OTHER -> {"none", "Failed", "Accepted", "Aborting"}
            report == IF id \in inbox THEN 1 ELSE 0
        IN  /\ st \in source
            /\ streams[id] \notin Live /\ st \in {"Accepted", "Aborting"} =>
                   \/ Cardinality(Keepers(id)) + report = 1
                   \/ Keepers(id) = {} /\ id \notin inbox /\ id \in skipped
            /\ st = "Aborting" /\ id \notin inbox \cup skipped =>
                   \E p \in Keepers(id) :
                       [kind |-> "abort", id |-> id] \in Range(worker[p].box)

\* A failed outgoing connection will be tried again: a tick is due not later
\* than its reconnect_at, and a tick opens every connection that is due.  The
\* exception is one that failed inside on_connection_accepted(), which no
\* manage_connections() follows.
RetryScheduled ==
    \A id \in ConnIds :
        conns[id].state = "Failed" /\ id \notin unscheduled =>
            \E t \in 0..conns[id].at : ticks[t] > 0
=============================================================================
