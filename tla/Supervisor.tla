------------------------------ MODULE Supervisor ------------------------------
(***************************************************************************)
(* The supervisor of one group (elfo-core/src/supervisor.rs) with the      *)
(* tasks of its actors and those who call `handle()`: actors that send to  *)
(* the group, the configurer, and the init actor that terminates it        *)
(* (elfo-core/src/init.rs).                                                *)
(*                                                                         *)
(* `objects` is a map of shards, each behind a lock; every key has a shard *)
(* of its own here, which is the least locking and hence the most          *)
(* interleaving.  `control` is behind a lock too, which only               *)
(* `update_config()` holds for more than one step.                         *)
(*                                                                         *)
(* With MultiThread = FALSE the tasks share one thread: code between two   *)
(* awaits is not interleaved.                                              *)
(***************************************************************************)
EXTENDS Naturals, FiniteSets

CONSTANTS
    Keys,          \* keys of the router
    Addrs,         \* addresses of actors; an address nobody knows is reused
    Callers,       \* actors of other groups
    Configurer,    \* sends `ValidateConfig` and `UpdateConfig`
    InitActor,     \* sends `Terminate` and watches the group
    None,          \* no key, no address, no process
    Policies,      \* restart policies in use
    MaxRetries,    \* `RestartParams::max_retries`
    ClosesMailbox, \* `TerminationPolicy::close_mailbox`
    MultiThread,   \* whether the runtime has several threads
    Resizes,       \* whether an update may change the mailbox config
    MaxConfigs     \* bound: versions of the config

Procs == Callers \cup {Configurer, InitActor}

ASSUME ConstantsAssumption ==
    /\ Policies \subseteq {"Always", "OnFailure", "Never"}
    /\ MaxRetries \in Nat \ {0}
    /\ MaxConfigs \in Nat \ {0}
    /\ ClosesMailbox \in BOOLEAN
    /\ MultiThread \in BOOLEAN
    /\ Resizes \in BOOLEAN
    /\ Configurer \notin Callers
    /\ InitActor \notin Callers
    /\ Configurer # InitActor
    /\ None \notin Procs \cup Keys \cup Addrs

VARIABLES
    objects,  \* key -> address of the actor in the map, or None
    actor,    \* address -> the actor and its task
    control,  \* `Control`
    call,     \* process -> its call of `handle()`
    init      \* termination of the group by the init actor

vars == <<objects, actor, control, call, init>>

TaskPc == {"none", "new", "running", "restart", "sleep", "insert", "remove",
           "unbook", "panicked"}

CallPc == {"idle", "update", "get", "entry", "spawn", "held", "visit"}

Phases == {"up", "starting", "polite", "closing", "skipped", "finished"}

Versions == 0..MaxConfigs

TypeOK ==
    /\ objects \in [Keys -> Addrs \cup {None}]
    /\ actor \in [Addrs ->
         [pc: TaskPc,                  \* "none": not in the address book
          key: Keys \cup {None},
          retries: 0..MaxRetries + 1,  \* `RestartBackoff::restart_count`
          next: Addrs \cup {None},     \* the spawned successor
          starter: Procs \cup {None},  \* whose message is to be the first
          overtaken: BOOLEAN,          \* another one was (history)
          told: BOOLEAN,               \* has got `Terminate`
          open: BOOLEAN,               \* the mailbox is open
          finished: BOOLEAN,           \* `Actor::finished`
          config: Versions,            \* the user config it has or will get
          mailbox: Versions]]          \* `mailbox_capacity_config`
    /\ control \in [config: Versions, mailbox: Versions,
                    started: BOOLEAN, stop: BOOLEAN]
    /\ call \in [Procs ->
         [pc: CallPc,
          msg: {"message", "validate", "mount", "update", "terminate", "closing"},
          single: BOOLEAN,             \* `Outcome::Unicast`
          key: Keys \cup {None},       \* the key of the held entry
          spawn: SUBSET Keys,          \* keys to get or to spawn
          visit: SUBSET Keys]]         \* keys to visit after that
    /\ init \in [phase: Phases,
                 left: SUBSET {"terminate", "watch"},
                 snap: SUBSET Keys,    \* keys the snapshot has to read
                 addrs: SUBSET Addrs]  \* actors it waits for

Vacant == [pc |-> "none", key |-> None, retries |-> 0, next |-> None,
           starter |-> None, overtaken |-> FALSE, told |-> FALSE,
           open |-> FALSE, finished |-> FALSE, config |-> 0, mailbox |-> 0]

Idle == [pc |-> "idle", msg |-> "message", single |-> FALSE, key |-> None,
         spawn |-> {}, visit |-> {}]

Init ==
    /\ objects = [k \in Keys |-> None]
    /\ actor = [a \in Addrs |-> Vacant]
    /\ control = [config |-> 0, mailbox |-> 0, started |-> FALSE, stop |-> FALSE]
    /\ call = [p \in Procs |-> Idle]
    /\ init = [phase |-> "up", left |-> {}, snap |-> {}, addrs |-> {}]

-------------------------------------------------------------------------------
(* Threads and locks.                                                      *)

InSegment == {"restart", "insert", "remove", "unbook"}

(* Those who are between two awaits.                                       *)
Busy ==
    {p \in Procs : call[p].pc # "idle"}
      \cup {a \in Addrs : actor[a].pc \in InSegment}
      \cup (IF init.phase = "starting" THEN {InitActor} ELSE {})

Turn(x) == MultiThread \/ Busy \subseteq {x}

(* dashmap lets readers in while a writer waits.                           *)
CanRead(k) == ~ \E p \in Procs : call[p].pc = "spawn" /\ call[p].key = k

CanWrite(k) == ~ \E p \in Procs : call[p].pc \in {"spawn", "held"} /\ call[p].key = k

ControlFree == call[Configurer].pc # "update"

(* An address that neither the map, nor a task, nor the watcher knows.     *)
Fresh(a) ==
    /\ actor[a].pc = "none"
    /\ \A k \in Keys : objects[k] # a
    /\ \A b \in Addrs : actor[b].next # a
    /\ a \notin init.addrs

(* Bound: there is an address for everyone who holds a shard to spawn.     *)
Spare ==
    Cardinality({a \in Addrs : Fresh(a)}) > Cardinality({p \in Procs : call[p].pc = "spawn"})

(* `spawn()` after its checks: the new actor has the config that `control` *)
(* holds now.                                                              *)
Spawned(k, starter, retries) ==
    [Vacant EXCEPT !.pc = "new", !.key = k, !.starter = starter,
                   !.retries = retries, !.open = TRUE,
                   !.config = control.config, !.mailbox = control.mailbox]

(* `Actor::handle_system()` and the mailbox.                               *)
Accept(act, p, msg) ==
    IF act.open /\ (msg = "closing" \/ (msg = "terminate" /\ ClosesMailbox))
    THEN [act EXCEPT !.open = FALSE]
    ELSE IF act.open
    THEN [act EXCEPT !.starter = None,
                     !.overtaken = @ \/ act.starter \notin {None, p},
                     !.told = @ \/ msg = "terminate",
                     !.config = IF msg = "update" THEN control.config ELSE @]
    ELSE act

Deliver(p, k) ==
    IF objects[k] = None
    THEN actor' = actor
    ELSE actor' = [actor EXCEPT ![objects[k]] = Accept(@, p, call[p].msg)]

-------------------------------------------------------------------------------
(* `handle()` once the outcome of the router is known.                     *)

(* What is left of a call that is done with key k.                         *)
Rest(c, k) ==
    LET left == [c EXCEPT !.key = None, !.spawn = @ \ {k}]
    IN  IF c.single THEN Idle
        ELSE IF left.spawn # {} THEN [left EXCEPT !.pc = "get"]
        ELSE IF left.visit # {} THEN [left EXCEPT !.pc = "visit"]
        ELSE Idle

(* `Unicast`, `Multicast`, and the gentle ones with `Broadcast`.           *)
Outcomes(msg) ==
    {[Idle EXCEPT !.pc = "get", !.msg = msg, !.single = TRUE, !.spawn = {k}] : k \in Keys}
      \cup {[Idle EXCEPT !.pc = "get", !.msg = msg, !.spawn = K, !.visit = K] :
               K \in SUBSET Keys \ {{}}}
      \cup {[Idle EXCEPT !.pc = "visit", !.msg = msg, !.visit = K] :
               K \in SUBSET Keys \ {{}}}

(* Actors of other groups start when every group has got its first config. *)
Mounted == control.config # 0 /\ (control.config = 1 => ControlFree)

Send(c) ==
    /\ call[c].pc = "idle"
    /\ Turn(c)
    /\ Mounted
    /\ \E outcome \in Outcomes("message") : call' = [call EXCEPT ![c] = outcome]
    /\ UNCHANGED <<objects, actor, control, init>>

(* The first half of `get_or_spawn!`.                                      *)
Get(p) ==
    /\ call[p].pc = "get"
    /\ Turn(p)
    /\ \E k \in call[p].spawn :
         /\ CanRead(k)
         /\ \/ /\ objects[k] # None
               /\ IF call[p].single THEN Deliver(p, k) ELSE actor' = actor
               /\ call' = [call EXCEPT ![p] = Rest(@, k)]
            \/ /\ objects[k] = None
               /\ call' = [call EXCEPT ![p].pc = "entry", ![p].key = k]
               /\ UNCHANGED actor
    /\ UNCHANGED <<objects, control, init>>

(* Faulty variant: the entry is not looked at again under the lock.        *)
EntryBlind(p) ==
    /\ call[p].pc = "entry"
    /\ Turn(p)
    /\ CanWrite(call[p].key)
    /\ Spare
    /\ call' = [call EXCEPT ![p].pc = "spawn"]
    /\ UNCHANGED <<objects, actor, control, init>>

(* `entry()` takes the shard exclusively and finds it vacant or not.       *)
Entry(p) ==
    /\ call[p].pc = "entry"
    /\ Turn(p)
    /\ CanWrite(call[p].key)
    /\ \/ /\ objects[call[p].key] = None
          /\ Spare
          /\ call' = [call EXCEPT ![p].pc = "spawn"]
       \/ /\ objects[call[p].key] # None
          /\ call' = [call EXCEPT ![p].pc = "held"]
    /\ UNCHANGED <<objects, actor, control, init>>

(* Under the lock of the shard: `spawn()` with its read of `control`, the  *)
(* insertion, and the downgrade of the lock.                               *)
SpawnOn(p) ==
    LET k == call[p].key
    IN  /\ call[p].pc = "spawn"
        /\ Turn(p)
        /\ ControlFree
        /\ \/ /\ control.stop
              /\ call' = [call EXCEPT ![p] = Rest(@, k)]
              /\ UNCHANGED <<objects, actor>>
           \/ /\ ~ control.stop
              /\ \E a \in Addrs :
                   /\ Fresh(a)
                   /\ actor' = [actor EXCEPT ![a] =
                                  Spawned(k, IF call[p].single THEN p ELSE None, 0)]
                   /\ objects' = [objects EXCEPT ![k] = a]
              /\ call' = [call EXCEPT ![p].pc = "held"]
        /\ UNCHANGED <<control, init>>

(* The caller has the shard shared: it visits the object (unicast) or only *)
(* lets it go.                                                             *)
Held(p) ==
    /\ call[p].pc = "held"
    /\ Turn(p)
    /\ IF call[p].single THEN Deliver(p, call[p].key) ELSE actor' = actor
    /\ call' = [call EXCEPT ![p] = Rest(@, @.key)]
    /\ UNCHANGED <<objects, control, init>>

(* A step of `visit_multiple()`.                                           *)
Visit(p) ==
    /\ call[p].pc = "visit"
    /\ Turn(p)
    /\ \E k \in call[p].visit :
         /\ CanRead(k)
         /\ Deliver(p, k)
         /\ call' = [call EXCEPT ![p] = IF @.visit = {k} THEN Idle
                                        ELSE [@ EXCEPT !.visit = @ \ {k}]]
    /\ UNCHANGED <<objects, control, init>>

-------------------------------------------------------------------------------
(* Configuration.                                                          *)


(* Under the exclusive lock: store the config; if the mailbox config has   *)
(* changed, the actors are to be updated before the lock is released.      *)
Store(msg) ==
    /\ control.config < MaxConfigs
    /\ \E changed \in {FALSE, Resizes} :
         /\ control' = [control EXCEPT
                          !.config = @ + 1,
                          !.mailbox = IF changed THEN control.config + 1 ELSE @,
                          !.started = @ \/ msg # "validate"]
         /\ call' = [call EXCEPT ![Configurer] =
                       [Idle EXCEPT !.pc = "update", !.msg = msg,
                                    !.visit = IF changed THEN Keys ELSE {}]]

ValidateConfig ==
    /\ call[Configurer].pc = "idle"
    /\ Turn(Configurer)
    /\ \/ /\ control.config = 0
          /\ Store("validate")
       \/ /\ control.config # 0
          /\ \E outcome \in Outcomes("message") :
               call' = [call EXCEPT ![Configurer] = outcome]
          /\ UNCHANGED control
    /\ UNCHANGED <<objects, actor, init>>

UpdateConfig ==
    /\ call[Configurer].pc = "idle"
    /\ Turn(Configurer)
    /\ \/ /\ control.started
          /\ Store("update")
       \/ /\ ~ control.started
          /\ control.config = 0
          /\ Store("mount")
       \/ /\ ~ control.started
          /\ control.config # 0
          /\ control' = [control EXCEPT !.started = TRUE]
          /\ call' = [call EXCEPT ![Configurer].pc = "update",
                                  ![Configurer].msg = "mount"]
    /\ UNCHANGED <<objects, actor, init>>

(* A step of the loop in `update_config()`.                                *)
UpdateMailbox ==
    /\ call[Configurer].pc = "update"
    /\ Turn(Configurer)
    /\ \E k \in call[Configurer].visit :
         /\ CanRead(k)
         /\ IF objects[k] = None THEN actor' = actor
            ELSE actor' = [actor EXCEPT ![objects[k]].mailbox = control.mailbox]
         /\ call' = [call EXCEPT ![Configurer].visit = @ \ {k}]
    /\ UNCHANGED <<objects, control, init>>

(* The lock is released; the first update spawns what the router mounts,   *)
(* later ones are sent to all actors.                                      *)
Unlock ==
    /\ call[Configurer].pc = "update"
    /\ Turn(Configurer)
    /\ call[Configurer].visit = {}
    /\ \E K \in SUBSET Keys :
         call' = [call EXCEPT ![Configurer] =
                    CASE @.msg = "mount" /\ K # {} ->
                           [@ EXCEPT !.pc = "get", !.spawn = K]
                      [] @.msg = "update" ->
                           [@ EXCEPT !.pc = "visit", !.visit = Keys]
                      [] OTHER -> Idle]
    /\ UNCHANGED <<objects, actor, control, init>>

-------------------------------------------------------------------------------
(* The task of an actor.                                                   *)

SetPc(a, pc) == actor' = [actor EXCEPT ![a].pc = pc]

(* The first poll: the actor in the map gets `on_start()`.                 *)
Start(a) ==
    /\ actor[a].pc = "new"
    /\ Turn(a)
    /\ CanRead(actor[a].key)
    /\ SetPc(a, IF objects[actor[a].key] = None THEN "panicked" ELSE "running")
    /\ UNCHANGED <<objects, control, call, init>>

(* `RestartPolicy::restarting_allowed()`.                                  *)
RestartingAllowed(policy, failed) ==
    \/ policy = "Always"
    \/ policy = "OnFailure" /\ failed

(* `RestartBackoff::next()`: an actor that has lived long enough restarts  *)
(* at once and counts anew, another one sleeps or has no retries left.     *)
Backoffs(retries) ==
    {[pc |-> "restart", retries |-> 1],
     IF retries + 1 > MaxRetries THEN [pc |-> "remove", retries |-> retries + 1]
     ELSE [pc |-> "sleep", retries |-> retries + 1]}

(* The code of the actor returns or fails.  The status goes to the actor   *)
(* in the map, whose mailbox is closed and whose `finished` is set.        *)
Finish(a) ==
    LET k == actor[a].key
        o == objects[k]
    IN  /\ actor[a].pc = "running"
        /\ Turn(a)
        /\ CanRead(k)
        /\ ControlFree
        /\ IF o = None
           THEN SetPc(a, "panicked")
           ELSE \E failed \in BOOLEAN, policy \in Policies :
                \E next \in IF RestartingAllowed(policy, failed) /\ ~ control.stop
                            THEN Backoffs(actor[a].retries)
                            ELSE {[pc |-> "remove", retries |-> actor[a].retries]} :
                  actor' = [b \in Addrs |->
                    LET act == IF b # a THEN actor[b]
                               ELSE [actor[a] EXCEPT !.pc = next.pc,
                                                     !.retries = next.retries]
                    IN  IF b # o THEN act
                        ELSE [act EXCEPT !.open = FALSE, !.finished = TRUE]]
        /\ UNCHANGED <<objects, control, call, init>>

(* Faulty variant: no restart and no removal when spawning has stopped.    *)
RespawnWaits(a) ==
    /\ actor[a].pc \in {"restart", "sleep"}
    /\ Turn(a)
    /\ ControlFree
    /\ IF control.stop THEN SetPc(a, "sleep")
       ELSE Spare /\ \E b \in Addrs :
              Fresh(b) /\ actor' = [actor EXCEPT
                                      ![a].pc = "insert", ![a].next = b,
                                      ![b] = Spawned(actor[a].key, None, actor[a].retries)]
    /\ UNCHANGED <<objects, control, call, init>>

(* After the backoff: `spawn()` again.  The insertion is another step.     *)
Respawn(a) ==
    /\ actor[a].pc \in {"restart", "sleep"}
    /\ Turn(a)
    /\ ControlFree
    /\ \/ /\ control.stop
          /\ SetPc(a, "remove")
       \/ /\ ~ control.stop
          /\ Spare
          /\ \E b \in Addrs :
               /\ Fresh(b)
               /\ actor' = [actor EXCEPT
                              ![a].pc = "insert", ![a].next = b,
                              ![b] = Spawned(actor[a].key, None, actor[a].retries)]
    /\ UNCHANGED <<objects, control, call, init>>

(* Faulty variant: the spawned object is dropped.                          *)
InsertNothing(a) ==
    /\ actor[a].pc = "insert"
    /\ Turn(a)
    /\ actor' = [actor EXCEPT ![a].pc = "unbook", ![a].next = None]
    /\ UNCHANGED <<objects, control, call, init>>

(* `objects.insert()` must find the current actor.                         *)
Insert(a) ==
    LET k == actor[a].key
    IN  /\ actor[a].pc = "insert"
        /\ Turn(a)
        /\ CanWrite(k)
        /\ objects' = [objects EXCEPT ![k] = actor[a].next]
        /\ actor' = [actor EXCEPT
                       ![a].pc = IF objects[k] = None THEN "panicked" ELSE "unbook",
                       ![a].next = None]
        /\ UNCHANGED <<control, call, init>>

(* `objects.remove()` must find it, too.                                   *)
Remove(a) ==
    LET k == actor[a].key
    IN  /\ actor[a].pc = "remove"
        /\ Turn(a)
        /\ CanWrite(k)
        /\ objects' = [objects EXCEPT ![k] = None]
        /\ SetPc(a, IF objects[k] = None THEN "panicked" ELSE "unbook")
        /\ UNCHANGED <<control, call, init>>

(* The address is removed from the book.                                   *)
Unbook(a) ==
    /\ actor[a].pc = "unbook"
    /\ Turn(a)
    /\ actor' = [actor EXCEPT ![a] = [Vacant EXCEPT !.open = actor[a].open]]
    /\ UNCHANGED <<objects, control, call, init>>

-------------------------------------------------------------------------------
(* Termination.                                                            *)

(* `handle(Terminate)`: stop spawning, then visit all actors.              *)
Broadcast(msg) ==
    /\ call[InitActor].pc = "idle"
    /\ ControlFree
    /\ control' = [control EXCEPT !.stop = TRUE]
    /\ call' = [call EXCEPT ![InitActor] =
                  [Idle EXCEPT !.pc = "visit", !.msg = msg, !.visit = Keys]]

(* The two branches of the `select!` are polled first in any order.        *)
TerminateGroup ==
    /\ init.phase = "up"
    /\ Turn(InitActor)
    /\ Mounted
    /\ init' = [init EXCEPT !.phase = "starting", !.left = {"terminate", "watch"}]
    /\ UNCHANGED <<objects, actor, control, call>>

SendPolite ==
    /\ init.phase = "starting"
    /\ Turn(InitActor)
    /\ "terminate" \in init.left
    /\ init.snap = {}
    /\ Broadcast("terminate")
    /\ init' = [init EXCEPT !.left = @ \ {"terminate"}]
    /\ UNCHANGED <<objects, actor>>

(* `Supervisor::finished()` collects the addresses of the actors.          *)
WatchGroup ==
    /\ init.phase = "starting"
    /\ Turn(InitActor)
    /\ "watch" \in init.left
    /\ call[InitActor].pc = "idle"
    /\ init' = [init EXCEPT !.left = @ \ {"watch"}, !.snap = Keys]
    /\ UNCHANGED <<objects, actor, control, call>>

Snapshot ==
    /\ init.phase = "starting"
    /\ Turn(InitActor)
    /\ \E k \in init.snap :
         /\ CanRead(k)
         /\ init' = [init EXCEPT !.snap = @ \ {k},
                                 !.addrs = @ \cup ({objects[k]} \ {None})]
    /\ UNCHANGED <<objects, actor, control, call>>

(* Both branches wait now.                                                 *)
BothPolled ==
    /\ init.phase = "starting"
    /\ Turn(InitActor)
    /\ init.left = {}
    /\ init.snap = {}
    /\ call[InitActor].pc = "idle"
    /\ init' = [init EXCEPT !.phase = "polite"]
    /\ UNCHANGED <<objects, actor, control, call>>

SendClosing ==
    /\ init.phase = "polite"
    /\ Turn(InitActor)
    /\ Broadcast("closing")
    /\ init' = [init EXCEPT !.phase = "closing"]
    /\ UNCHANGED <<objects, actor>>

GiveUp ==
    /\ init.phase = "closing"
    /\ Turn(InitActor)
    /\ call[InitActor].pc = "idle"
    /\ init' = [init EXCEPT !.phase = "skipped", !.addrs = {}]
    /\ UNCHANGED <<objects, actor, control, call>>

(* Faulty variant: the first actor that finishes ends the wait.            *)
OneFinished ==
    /\ init.phase \in {"polite", "closing"}
    /\ Turn(InitActor)
    /\ call[InitActor].pc = "idle"
    /\ \E a \in init.addrs : actor[a].finished \/ actor[a].pc = "none"
    /\ init' = [init EXCEPT !.phase = "finished", !.addrs = {}]
    /\ UNCHANGED <<objects, actor, control, call>>

(* Every actor of the snapshot has finished or has left the address book.  *)
GroupFinished ==
    /\ init.phase \in {"polite", "closing"}
    /\ Turn(InitActor)
    /\ call[InitActor].pc = "idle"
    /\ \A a \in init.addrs : actor[a].finished \/ actor[a].pc = "none"
    /\ init' = [init EXCEPT !.phase = "finished", !.addrs = {}]
    /\ UNCHANGED <<objects, actor, control, call>>

-------------------------------------------------------------------------------
Handle(p) == Get(p) \/ Entry(p) \/ SpawnOn(p) \/ Held(p) \/ Visit(p)

Configure == ValidateConfig \/ UpdateConfig

UpdateStep == UpdateMailbox \/ Unlock

Task(a) == Start(a) \/ Respawn(a) \/ Insert(a) \/ Remove(a) \/ Unbook(a)

Terminate ==
    \/ SendPolite
    \/ WatchGroup
    \/ Snapshot
    \/ BothPolled
    \/ SendClosing
    \/ GiveUp
    \/ GroupFinished

Next ==
    \/ \E c \in Callers : Send(c)
    \/ \E p \in Procs : Handle(p)
    \/ Configure
    \/ UpdateStep
    \/ \E a \in Addrs : Task(a) \/ Finish(a)
    \/ TerminateGroup
    \/ Terminate

Spec == Init /\ [][Next]_vars

(* Tasks and calls that can go on do so, and timers of the init actor      *)
(* fire.  Fairness is strong: on one thread everybody waits for the others *)
(* to yield, and the scheduler's queue is fair; on several, those who wait *)
(* for a shard are served although others come and go.  The code of an     *)
(* actor returns once its mailbox is closed.  Nobody has to send, to       *)
(* configure, to fail or to terminate the group.                           *)
Fairness ==
    /\ \A p \in Procs : SF_vars(Handle(p))
    /\ SF_vars(UpdateStep)
    /\ \A a \in Addrs :
         /\ SF_vars(Task(a))
         /\ SF_vars(Finish(a) /\ ~ actor[a].open)
    /\ SF_vars(Terminate)

FairSpec == Spec /\ Fairness

-------------------------------------------------------------------------------
(* Properties.                                                             *)

Alive(a) == actor[a].pc \in {"new", "running"}

(* The task of an actor finds itself in the map whenever it looks there:   *)
(* until it removes or replaces itself, the key is its own; a successor    *)
(* that has not been inserted is announced by the task in the map.         *)
OwnObject ==
    \A a \in Addrs :
        LET o == objects[actor[a].key]
        IN  /\ actor[a].pc \in {"running", "restart", "sleep", "insert", "remove"} => o = a
            /\ actor[a].pc = "new" => o = a \/ (o # None /\ actor[o].next = a)

(* "where is the current actor?": no task finds its key without an actor.  *)
NoPanic == \A a \in Addrs : actor[a].pc # "panicked"

(* Never two actors of one key at once, whatever is spawned, restarted and *)
(* removed in between.                                                     *)
OneRunning ==
    \A a, b \in Addrs :
        actor[a].pc = "running" /\ actor[b].pc = "running" /\ a # b
            => actor[a].key # actor[b].key

(* The broadcast of the polite `Terminate` misses nobody: when it is over, *)
(* every actor that runs has got it or has its mailbox closed.             *)
AllTold ==
    init.phase \in {"polite", "closing"} =>
        \A a \in Addrs : Alive(a) => actor[a].told \/ ~ actor[a].open

(* "actor group finished" is reported only when no actor of it runs, so    *)
(* that the groups of the next stop order stop after it.                   *)
FinishedMeansStopped ==
    init.phase = "finished" => \A a \in Addrs : ~ Alive(a)

(* Between two updates every actor of the group has the current mailbox    *)
(* config, and the current user config unless it takes no messages.        *)
ConfigApplied ==
    call[Configurer].pc = "idle" =>
        \A a \in Addrs : Alive(a) =>
            /\ actor[a].mailbox = control.mailbox
            /\ actor[a].open => actor[a].config = control.config

(* The message that starts an actor is the first one it receives.          *)
StarterFirst == \A a \in Addrs : ~ actor[a].overtaken

(* `get_or_spawn!` and restarts keep the map of objects and the tasks in   *)
(* step: a task finds itself under its key, and an actor is spawned for    *)
(* the message it then receives first.                                     *)
KeysOwned == TypeOK /\ OwnObject /\ StarterFirst

(* Termination misses nobody, and is not reported too early.               *)
TerminationSound == AllTold /\ FinishedMeansStopped

(* A call of `handle()` and an update of the config come to an end.        *)
CallEnds ==
    \A p \in Procs : call[p].pc # "idle" ~> call[p].pc = "idle"

(* A finished actor does not keep its key: it is restarted or removed.     *)
KeyIsFreed ==
    \A a \in Addrs : actor[a].finished ~> ~ actor[a].finished

(* A group that is being terminated comes to rest.                         *)
GroupStops == init.phase = "starting" ~> \A a \in Addrs : ~ Alive(a)

(* On one thread everything that is begun ends: calls, restarts or removals *)
(* of finished actors, and the termination of the group.                   *)
AllEnds == CallEnds /\ KeyIsFreed /\ GroupStops
===============================================================================
