------------------------------ MODULE DumpFiles ------------------------------
(***************************************************************************)
(* The files of the dumpers (elfo-dumper): one dumper a class, each renders *)
(* the path of its file from the time at every tick; dumpers whose          *)
(* templates do not name the class share the handle of the file registry.   *)
(***************************************************************************)
EXTENDS Integers

CONSTANTS
    Dumpers,     \* classes
    Template,    \* Dumpers -> the template of the path
    MaxClock     \* bound: how often the rendered time changes

NoPath == <<"none", 0>>

VARIABLES
    now,       \* the time as the templates show it
    handles,   \* FileRegistry::files, path -> "open", "closed" (no file); or "absent"
    dumper     \* Dumpers -> [pc, path, next, stop]

filesVars == <<now, handles, dumper>>

Paths == {Template[d] : d \in Dumpers} \X (0..MaxClock)

\* render_path()
RenderPath(d) == <<Template[d], now>>

\* insert_handle() and FileHandle::open(): a handle without a file gets one.
Opened(h, path) == [h EXCEPT ![path] = "open"]

-----------------------------------------------------------------------------
\* The start of main(); also of a dumper that failed and was restarted.
StartDumper(d) ==
    /\ dumper[d].pc = "start"
    /\ handles' = Opened(handles, RenderPath(d))
    /\ dumper' = [dumper EXCEPT ![d].pc = "recv", ![d].path = RenderPath(d)]
    /\ UNCHANGED now

\* ConfigUpdated: the path is rendered anew.  ReopenDumpFile: it is not.
DumperConfigUpdated(d) ==
    /\ dumper[d].pc = "recv"
    /\ handles' = Opened(handles, RenderPath(d))
    /\ dumper' = [dumper EXCEPT ![d].path = RenderPath(d)]
    /\ UNCHANGED now

ReopenDumpFile(d) ==
    /\ dumper[d].pc = "recv"
    /\ handles' = Opened(handles, dumper[d].path)
    /\ UNCHANGED <<now, dumper>>

\* DumpingTick: the path is rendered, the previous file is closed and the
\* current one acquired (acquire_for_write()).
RenderTick(d) ==
    /\ dumper[d].pc = "recv"
    /\ dumper' = [dumper EXCEPT ![d].pc = "acquire", ![d].next = RenderPath(d)]
    /\ UNCHANGED <<now, handles>>

AcquireForWrite(d) ==
    /\ dumper[d].pc = "acquire"
    /\ LET old == dumper[d].path
           path == dumper[d].next
       IN  /\ handles' = Opened(IF old # path THEN [handles EXCEPT ![old] = "absent"]
                                ELSE handles, path)
           /\ dumper' = [dumper EXCEPT ![d].pc = "write", ![d].path = path,
                                       ![d].next = NoPath]
    /\ UNCHANGED now

\* write_dumps() in the background; a failed write leaves the handle without
\* the file and ends the dumper, which is restarted.
WriteDumps(d) ==
    /\ dumper[d].pc = "write"
    /\ dumper' = [dumper EXCEPT ![d].pc = IF dumper[d].stop THEN "sync" ELSE "recv"]
    /\ UNCHANGED <<now, handles>>

WriteDumpsFails(d) ==
    /\ dumper[d].pc = "write"
    /\ handles' = [handles EXCEPT ![dumper[d].path] =
                      IF @ = "absent" THEN @ ELSE "closed"]
    /\ dumper' = [dumper EXCEPT ![d].pc = "start", ![d].stop = FALSE]
    /\ UNCHANGED now

\* Terminate: the dumper stops after the next tick.
TerminateDumper(d) ==
    /\ dumper[d].pc = "recv" /\ ~dumper[d].stop
    /\ dumper' = [dumper EXCEPT ![d].stop = TRUE]
    /\ UNCHANGED <<now, handles>>

\* FileRegistry::sync()
Sync(d) ==
    /\ dumper[d].pc = "sync"
    /\ dumper' = [dumper EXCEPT ![d].pc = IF handles[dumper[d].path] = "absent"
                                          THEN "panicked" ELSE "stopped"]
    /\ UNCHANGED <<now, handles>>

PassTime == now < MaxClock /\ now' = now + 1 /\ UNCHANGED <<handles, dumper>>

FilesInit ==
    /\ now = 0
    /\ handles = [p \in Paths |-> "absent"]
    /\ dumper = [d \in Dumpers |-> [pc |-> "start", path |-> NoPath,
                                    next |-> NoPath, stop |-> FALSE]]

FilesNext ==
    \/ \E d \in Dumpers :
          \/ StartDumper(d) \/ DumperConfigUpdated(d) \/ ReopenDumpFile(d)
          \/ RenderTick(d) \/ AcquireForWrite(d) \/ WriteDumps(d)
          \/ WriteDumpsFails(d) \/ TerminateDumper(d) \/ Sync(d)
    \/ PassTime

FilesSpec == FilesInit /\ [][FilesNext]_filesVars

-----------------------------------------------------------------------------
\* A dumper that stops finds its file in the registry: "file must be open
\* already" (file_registry.rs), also when another dumper shares the file.
FileIsThere == \A d \in Dumpers : dumper[d].pc # "panicked"
=============================================================================
