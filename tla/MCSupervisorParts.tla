-------------------------- MODULE MCSupervisorParts --------------------------
(* Two instances in one run.  `part` chooses between the group the .cfg    *)
(* describes, on several threads, and one of two keys on one thread, whose *)
(* updates resize mailboxes.                                               *)
EXTENDS MCSupervisor

VARIABLE part

OneThread == INSTANCE Supervisor WITH
    Keys <- TwoKeys, Addrs <- ThreeAddrs, Callers <- OneCaller,
    ClosesMailbox <- FALSE, MultiThread <- FALSE, Resizes <- TRUE,
    MaxConfigs <- 2

PartsInit ==
    \/ part = "threads" /\ Init
    \/ part = "one thread" /\ OneThread!Init

PartsNext ==
    /\ UNCHANGED part
    /\ \/ part = "threads" /\ Next
       \/ part = "one thread" /\ OneThread!Next

PartsSpec == PartsInit /\ [][PartsNext]_<<vars, part>>

(* A task finds itself in `objects` under its key until it removes or      *)
(* replaces itself, and an actor receives the message it was spawned for   *)
(* first (supervisor.rs, `get_or_spawn!`, `spawn()`).                      *)
OneThreadKeysOwned == part = "one thread" => OneThread!KeysOwned


(* The polite `Terminate` reaches all actors that run, though others are   *)
(* spawned and restarted meanwhile, and the init actor takes the group for *)
(* finished only when none of its actors runs.                             *)
OneThreadTerminationSound == part = "one thread" => OneThread!TerminationSound
=============================================================================
