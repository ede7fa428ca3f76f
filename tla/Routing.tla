------------------------------ MODULE Routing ------------------------------
(***************************************************************************)
(* How a group's router follows its configuration.  Any number of threads   *)
(* are in Supervisor::handle() at once.  A configuration is stored and given *)
(* to the router under the write lock of `control`; messages are routed      *)
(* outside it, with whatever state the router has, and actors are spawned    *)
(* under the read lock.  Objects are visited in Supervisor and Sending; here *)
(* only who is chosen, and with which configuration an actor starts.         *)
(***************************************************************************)
EXTENDS Naturals, Sequences, FiniteSets

CONSTANTS Handlers,   \* threads in Supervisor::handle()
          ActorKeys,  \* keys of the group's actors
          MaxCalls    \* bound: messages

VARIABLES control,  \* user_config (0: none), is_started, stop_spawning and the lock
          router,   \* MapRouter: its kind and its state, the configs `prepare` was given
          handler,  \* the locals of handle()
          actors,   \* objects: for each key, what its actor was spawned with
          history   \* messages so far; how many configs the group has confirmed

routingVars == <<control, router, handler, actors, history>>

Nobody == [config |-> 0, at |-> 0]
Unlocked == "unlocked"

AllOutcomes ==
    {[to |-> to, keys |-> {k}] : to \in {"Unicast", "GentleUnicast"}, k \in ActorKeys}
      \cup {[to |-> to, keys |-> ActorKeys] : to \in {"Multicast", "GentleMulticast"}}
      \cup {[to |-> to, keys |-> {}] : to \in {"Broadcast", "Discard", "Default"}}

Singleton == CHOOSE k \in ActorKeys : TRUE

\* Router for (): system messages do not start the actor.
UnitOutcome(msg) ==
    CASE msg \in {"Terminate", "Ping"} -> [to |-> "GentleUnicast", keys |-> {Singleton}]
      [] msg = "ValidateConfig"        -> [to |-> "Default", keys |-> {}]
      [] OTHER                         -> [to |-> "Unicast", keys |-> {Singleton}]

\* What the closure of a MapRouter may answer.
RouteOutcomes(msg) == IF router.map THEN AllOutcomes ELSE {UnitOutcome(msg)}

\* Outcome::or() with the default of each arm of handle().
OrDefault(outcome, msg) ==
    IF outcome.to # "Default" THEN outcome
    ELSE [to |-> IF msg \in {"UpdateConfig", "Terminate", "Ping"} THEN "Broadcast" ELSE "Discard",
          keys |-> {}]

Idle == [pc |-> "idle", msg |-> "none", config |-> 0, spawnOnly |-> FALSE, seen |-> 0,
         confirmed |-> 0, todo |-> {}]

RoutingInit ==
    /\ control = [config |-> 0, started |-> FALSE, stop |-> FALSE, lock |-> Unlocked]
    /\ \E map \in BOOLEAN : router = [map |-> map, state |-> <<>>]
    /\ handler = [h \in Handlers |-> Idle]
    /\ actors = [k \in ActorKeys |-> Nobody]
    /\ history = [calls |-> 0, confirmed |-> 0]

\* Every configuration is another one.  Actors of other groups start when
\* every group has its first one, so nothing else comes before it.
Call(h, msg) ==
    /\ handler[h].pc = "idle" /\ history.calls < MaxCalls
    /\ msg \in {"ValidateConfig", "UpdateConfig"} \/ history.confirmed > 0
    /\ handler' = [handler EXCEPT ![h] =
         [Idle EXCEPT !.msg = msg, !.confirmed = history.confirmed,
                      !.config = IF msg \in {"ValidateConfig", "UpdateConfig"}
                                 THEN history.calls + 1 ELSE 0,
                      !.pc = IF msg \in {"ValidateConfig", "UpdateConfig", "Terminate"}
                             THEN "lock" ELSE "route"]]
    /\ history' = [history EXCEPT !.calls = @ + 1]
    /\ UNCHANGED <<control, router, actors>>

\* A configuration stored without the lock.
StoreUnlocked(h) == [control EXCEPT !.config = handler[h].config, !.started =
                        @ \/ handler[h].msg = "UpdateConfig"]

\* The first half of update_config(), the lock is held.
Store(h) == [control EXCEPT !.config = handler[h].config, !.lock = h, !.started =
                @ \/ handler[h].msg = "UpdateConfig"]

\* control.write(): the first configuration is taken from ValidateConfig, then
\* only UpdateConfig gives one; Terminate stops spawning.
Lock(h) ==
    /\ handler[h].pc = "lock" /\ control.lock = Unlocked
    /\ LET msg == handler[h].msg
           takes == \/ control.config = 0 /\ msg = "ValidateConfig"
                    \/ (control.started \/ control.config = 0) /\ msg = "UpdateConfig"
       IN  /\ control' = IF takes THEN Store(h)
                         ELSE IF msg = "Terminate" THEN [control EXCEPT !.stop = TRUE]
                         ELSE IF msg = "UpdateConfig" THEN [control EXCEPT !.started = TRUE]
                         ELSE control
           /\ handler' = [handler EXCEPT ![h].pc = IF takes THEN "update" ELSE "route",
                            ![h].spawnOnly = msg = "UpdateConfig" /\ ~control.started]
    /\ UNCHANGED <<router, actors, history>>

Confirm == [history EXCEPT !.confirmed = Len(router'.state)]

\* The second half, MapRouter::update(): `rcu` gives `prepare` the state it
\* replaces.  ValidateConfig is answered at once.
UpdateRouter(h) ==
    /\ handler[h].pc = "update"
    /\ router' = [router EXCEPT !.state = Append(@, handler[h].config)]
    /\ control' = [control EXCEPT !.lock = Unlocked]
    /\ IF handler[h].msg = "ValidateConfig"
       THEN /\ handler' = [handler EXCEPT ![h] = Idle]
            /\ history' = Confirm
       ELSE /\ handler' = [handler EXCEPT ![h].pc = "route"]
            /\ UNCHANGED history
    /\ UNCHANGED actors

\* handle() and spawn_on_group_mounted() start the same actors: those that
\* Unicast and Multicast name and that are not there.
Starts(outcome) ==
    IF outcome.to \in {"Unicast", "Multicast"}
    THEN {k \in outcome.keys : actors[k] = Nobody} ELSE {}

Chosen(h, outcome) == IF handler[h].spawnOnly THEN outcome ELSE OrDefault(outcome, handler[h].msg)

Route(h) ==
    /\ handler[h].pc = "route"
    /\ \E outcome \in RouteOutcomes(handler[h].msg) :
         LET todo == Starts(Chosen(h, outcome))
         IN  handler' = [handler EXCEPT ![h].pc = "spawn", ![h].seen = Len(router.state),
                                        ![h].todo = todo]
    /\ UNCHANGED <<control, router, actors, history>>

\* get_or_spawn!: control.read() is held while the actor is made; another
\* thread may have been first.
SpawnActor(h, k) ==
    /\ handler[h].pc = "spawn" /\ k \in handler[h].todo /\ control.lock = Unlocked
    /\ actors' = IF actors[k] # Nobody \/ control.stop THEN actors
                 ELSE [actors EXCEPT ![k] = [config |-> control.config, at |-> handler[h].seen]]
    /\ handler' = [handler EXCEPT ![h].todo = @ \ {k}]
    /\ UNCHANGED <<control, router, history>>

\* The chosen objects are visited; the response of UpdateConfig confirms it.
Handled(h) ==
    /\ handler[h].pc = "spawn" /\ handler[h].todo = {}
    /\ handler' = [handler EXCEPT ![h] = Idle]
    /\ history' = IF handler[h].msg = "UpdateConfig"
                  THEN [history EXCEPT !.confirmed = IF handler[h].seen > @ THEN handler[h].seen
                                                     ELSE @]
                  ELSE history
    /\ UNCHANGED <<control, router, actors>>

\* The actor terminates and is removed from `objects`.
ActorEnds(k) ==
    /\ actors[k] # Nobody
    /\ actors' = [actors EXCEPT ![k] = Nobody]
    /\ UNCHANGED <<control, router, handler, history>>

RoutingNext ==
    \/ \E h \in Handlers :
         \/ \E msg \in {"ValidateConfig", "UpdateConfig", "Terminate", "Ping", "user"} :
              Call(h, msg)
         \/ Lock(h) \/ UpdateRouter(h) \/ Route(h) \/ Handled(h)
         \/ \E k \in ActorKeys : SpawnActor(h, k)
    \/ \E k \in ActorKeys : ActorEnds(k)

RoutingSpec == RoutingInit /\ [][RoutingNext]_routingVars

(***************************************************************************)
(* Properties.                                                              *)
(***************************************************************************)

Position(config) == CHOOSE i \in 1..Len(router.state) : router.state[i] = config

\* The router never disagrees with the configuration (Supervisor::handle(),
\* update_config()): outside the lock its last state is prepared from the
\* configuration in force, whatever order the updates come in; a message
\* handled after an update was confirmed is routed with that update or a later
\* one; and an actor started for a routed message never has an older
\* configuration than the one that routed the message.
RoutesCurrent ==
    /\ control.lock = Unlocked =>
         control.config = IF router.state = <<>> THEN 0 ELSE router.state[Len(router.state)]
    /\ \A h \in Handlers :
         handler[h].pc = "spawn" => handler[h].seen >= handler[h].confirmed
    /\ control.lock = Unlocked =>
         \A k \in ActorKeys : actors[k] # Nobody => Position(actors[k].config) >= actors[k].at
=============================================================================
