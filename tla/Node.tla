-------------------------------- MODULE Node --------------------------------
(***************************************************************************)
(* The life of a node: system.init starts the entrypoint, runs until it is  *)
(* told to terminate and stops the groups in order (elfo-core/src/init.rs); *)
(* system.configurers loads, validates and distributes configurations       *)
(* (elfo-configurer).  How a group handles these messages is in Supervisor. *)
(***************************************************************************)
EXTENDS Integers, FiniteSets, FiniteSetsExt

CONSTANTS
    Groups,       \* local groups
    StopOrder,    \* Groups -> stop_order
    Configurers,  \* the group of the configurer
    Contents,     \* what the file may say of a group: its hash
    MaxWrites     \* bound: how often the file changes

ASSUME NodeAssumption ==
    /\ Configurers \in Groups /\ StopOrder \in [Groups -> Int]
    /\ Contents # {} /\ MaxWrites \in Nat

VARIABLES
    init,      \* system.init: [pc, pending, oom]
    groupSt,   \* Groups -> "running", "polite", "closing", "finished", "skipped"
    file,      \* the configuration file
    writes,    \* how often it has changed
    conf,      \* the configurer: [pc, force, check, first, loaded, todo, left,
               \* rejected]
    versions,  \* Configurer::versions
    stored,    \* what each supervisor keeps
    good       \* history: the file of the last successful load

nodeVars == <<init, groupSt, file, writes, conf, versions, stored, good>>

Unset == "unset"
Broken == [g \in Groups |-> "broken"]       \* load_raw_config() fails
Files == [Groups -> Contents] \cup {Broken}

Orders == {StopOrder[g] : g \in Groups}
Stopped == {"finished", "skipped"}

-----------------------------------------------------------------------------
(* system.init *)

InitFrame == UNCHANGED <<file, writes, versions, stored, good>>

\* start_entrypoints(): UpdateConfig with defaults, then StartEntrypoint.
StartEntrypoint(check) ==
    /\ init.pc = "start" /\ conf.pc = "idle"
    /\ init' = [init EXCEPT !.pc = "starting"]
    /\ conf' = [conf EXCEPT !.pc = "load", !.force = TRUE, !.check = check]
    /\ UNCHANGED groupSt /\ InitFrame

\* do_start(): the response of the entrypoint.
Started ==
    /\ init.pc = "starting" /\ conf.pc \in {"loop", "checked", "panicked"}
    /\ init' = [init EXCEPT !.pc = CASE conf.pc = "loop" -> "exec"
                                     [] conf.pc = "checked" -> "terminate"
                                     [] OTHER -> "failed"]
    /\ UNCHANGED <<groupSt, conf>> /\ InitFrame

\* A signal, or a failed memory check: TerminateSystem is sent to itself.
Signal ==
    /\ init.pc \in {"exec", "terminate"} /\ init.pending < 2
    /\ init' = [init EXCEPT !.pending = @ + 1]
    /\ UNCHANGED <<groupSt, conf>> /\ InitFrame

CheckMemory ==
    /\ init.pc = "exec" /\ init.pending < 2
    /\ init' = [init EXCEPT !.pending = @ + 1, !.oom = TRUE]
    /\ UNCHANGED <<groupSt, conf>> /\ InitFrame

\* The loops of exec(): the first TerminateSystem starts the termination, a
\* second one ends the process, but the first after an OOM is skipped.
TerminateSystem ==
    /\ init.pending > 0
    /\ \/ /\ init.pc = "exec"
          /\ init' = [init EXCEPT !.pc = "terminate", !.pending = @ - 1]
       \/ /\ init.pc = "terminate"
          /\ init' = IF init.oom
                     THEN [init EXCEPT !.oom = FALSE, !.pending = @ - 1]
                     ELSE [init EXCEPT !.pc = "forced", !.pending = 0]
    /\ UNCHANGED <<groupSt, conf>> /\ InitFrame


\* terminate(): the orders one after the other; terminate_groups() of one.
TerminateGroups(order) ==
    /\ init.pc = "terminate"
    /\ \A g \in Groups : IF StopOrder[g] < order THEN groupSt[g] \in Stopped
                         ELSE groupSt[g] = "running"
    /\ groupSt' = [g \in Groups |-> IF StopOrder[g] = order THEN "polite"
                                    ELSE groupSt[g]]
    /\ UNCHANGED <<init, conf>> /\ InitFrame

\* terminate_group() and watch_group() of a group.
ClosingTerminate(g) ==
    /\ init.pc = "terminate" /\ groupSt[g] = "polite"
    /\ groupSt' = [groupSt EXCEPT ![g] = "closing"]
    /\ UNCHANGED <<init, conf>> /\ InitFrame

GroupFinished(g) ==
    /\ init.pc = "terminate" /\ groupSt[g] \in {"polite", "closing"}
    /\ groupSt' = [groupSt EXCEPT ![g] = "finished"]
    /\ conf' = IF g = Configurers THEN [conf EXCEPT !.pc = "gone"] ELSE conf
    /\ UNCHANGED init /\ InitFrame

GroupSkipped(g) ==
    /\ init.pc = "terminate" /\ groupSt[g] = "closing"
    /\ groupSt' = [groupSt EXCEPT ![g] = "skipped"]
    /\ UNCHANGED <<init, conf>> /\ InitFrame

Exit ==
    /\ init.pc = "terminate" /\ \A g \in Groups : groupSt[g] \in Stopped
    /\ init' = [init EXCEPT !.pc = "exited"]
    /\ UNCHANGED <<groupSt, conf>> /\ InitFrame

-----------------------------------------------------------------------------
(* system.configurers *)

ConfFrame == UNCHANGED <<init, groupSt, file, writes>>

\* The end of load_and_update_configs() or load_and_check_configs().  At
\* startup an error is a panic, a check is the end of main().
Done(ok) ==
    IF conf.check THEN IF ok THEN "checked" ELSE "panicked"
    ELSE IF ok \/ (init.pc # "starting" /\ ~conf.first) THEN "loop"
    ELSE "panicked"

\* load_configs() and match_configs(); configs that are up-to-date are left
\* out unless forced.
Load ==
    /\ conf.pc = "load"
    /\ LET todo == {g \in Groups : conf.force \/ versions[g] # file[g]}
       IN  IF file = Broken
           THEN /\ conf' = [conf EXCEPT !.pc = Done(FALSE), !.first = FALSE]
                /\ UNCHANGED good
           ELSE IF todo = {}
           THEN /\ conf' = [conf EXCEPT !.pc = Done(TRUE), !.first = FALSE]
                /\ good' = file
           ELSE /\ conf' = [conf EXCEPT !.pc = "validate", !.loaded = file,
                               !.todo = todo, !.left = todo, !.rejected = FALSE]
                /\ UNCHANGED good
    /\ UNCHANGED <<versions, stored>> /\ ConfFrame

\* validate_all(): the groups answer in any order; no answer is no objection.
Validated(g, rejects) ==
    /\ conf.pc = "validate" /\ g \in conf.left
    /\ conf' = [conf EXCEPT !.left = @ \ {g}, !.rejected = @ \/ rejects]
    /\ UNCHANGED <<versions, stored, good>> /\ ConfFrame


EndValidation ==
    /\ conf.pc = "validate" /\ conf.left = {}
    /\ conf' = IF conf.rejected \/ conf.check
               THEN [conf EXCEPT !.pc = Done(~conf.rejected), !.first = FALSE]
               ELSE [conf EXCEPT !.pc = "update", !.left = conf.todo]
    /\ UNCHANGED <<versions, stored, good>> /\ ConfFrame

\* update_all(): one group after the other.
UpdateOne(g) ==
    /\ conf.pc = "update" /\ g \in conf.left
    /\ stored' = [stored EXCEPT ![g] = conf.loaded[g]]
    /\ conf' = [conf EXCEPT !.left = @ \ {g}]
    /\ UNCHANGED <<versions, good>> /\ ConfFrame

EndUpdate ==
    /\ conf.pc = "update" /\ conf.left = {}
    /\ versions' = [g \in Groups |-> IF g \in conf.todo THEN conf.loaded[g]
                                     ELSE versions[g]]
    /\ good' = conf.loaded
    /\ conf' = [conf EXCEPT !.pc = "loop", !.first = FALSE]
    /\ UNCHANGED stored /\ ConfFrame

\* ReloadConfigs, as a request or from a signal.
ReloadConfigs(force) ==
    /\ conf.pc = "loop"
    /\ conf' = [conf EXCEPT !.pc = "load", !.force = force, !.check = FALSE]
    /\ UNCHANGED <<versions, stored, good>> /\ ConfFrame

\* The configurer panics; its supervisor restarts it, with nothing in
\* `versions`, and it loads the configs before it goes on.
Crash ==
    /\ conf.pc \in {"loop", "validate", "update"} /\ init.pc # "starting"
    /\ conf' = [conf EXCEPT !.pc = "panicked"]
    /\ UNCHANGED <<versions, stored, good>> /\ ConfFrame

Restart ==
    /\ conf.pc = "panicked" /\ init.pc \notin {"starting", "failed"}
    /\ conf' = [conf EXCEPT !.pc = "load", !.force = TRUE, !.first = TRUE,
                            !.check = FALSE]
    /\ versions' = [g \in Groups |-> Unset]
    /\ UNCHANGED <<stored, good>> /\ ConfFrame

WriteFile ==
    /\ writes < MaxWrites
    /\ writes' = writes + 1
    /\ file' \in Files \ {file}
    /\ UNCHANGED <<init, groupSt, conf, versions, stored, good>>

NodeInit ==
    /\ init = [pc |-> "start", pending |-> 0, oom |-> FALSE]
    /\ groupSt = [g \in Groups |-> "running"]
    /\ file \in Files /\ writes = 0
    /\ conf = [pc |-> "idle", force |-> FALSE, check |-> FALSE, first |-> FALSE,
               loaded |-> Broken, todo |-> {}, left |-> {}, rejected |-> FALSE]
    /\ versions = [g \in Groups |-> Unset]
    /\ stored = [g \in Groups |-> Unset]
    /\ good = [g \in Groups |-> Unset]

NodeNext ==
    \/ \E check \in BOOLEAN : StartEntrypoint(check)
    \/ Started \/ Signal \/ CheckMemory \/ TerminateSystem \/ Exit
    \/ \E order \in Orders : TerminateGroups(order)
    \/ \E g \in Groups : \/ ClosingTerminate(g) \/ GroupFinished(g)
                         \/ GroupSkipped(g) \/ UpdateOne(g)
                         \/ \E rejects \in BOOLEAN : Validated(g, rejects)
    \/ Load \/ EndValidation \/ EndUpdate \/ Crash \/ Restart \/ WriteFile
    \/ \E force \in BOOLEAN : ReloadConfigs(force)

NodeSpec == NodeInit /\ [][NodeNext]_nodeVars

-----------------------------------------------------------------------------

=============================================================================
