----------------------------- MODULE DumpReports -----------------------------
(***************************************************************************)
(* What a dumper does with each dump it has drained, and what it says about *)
(* it: the rules give the limits of the message (RuleSet, with its cache),  *)
(* the serializer appends the dump to a chunk, truncates it, skips it or    *)
(* fails, and the reporter counts each outcome and logs the bad ones, not   *)
(* more often than the cooldown allows (elfo-dumper/src/rule_set.rs,        *)
(* serializer.rs, reporter.rs).                                             *)
(*                                                                          *)
(* A dump is the sizes of the pieces in which serde writes it: `head` for   *)
(* the fields around the message, `body` for the message, which may end in  *)
(* an error.  A level of logging is on or off.                              *)
(***************************************************************************)
EXTENDS Integers, Sequences, FiniteSets, FiniteSetsExt, SequencesExt

CONSTANTS
    Names,       \* names of messages
    DumpShapes,  \* Names -> [head, body, sound]
    RuleLists,   \* values of the `rules` setting
    ThisClass,   \* the class of the dumper
    ChunkLimit,  \* chunk_size, in bytes
    MaxTaken     \* bound: dumps taken from the storage

VARIABLES
    rules,     \* RuleSet, and the setting it was last given
    serial,    \* Serializer and the chunk it has given out
    reporter,  \* Reporter, and the Report of the tick
    published,      \* metrics and log lines: outcomes made known so far
    outcomes   \* history: the outcome of each dump, and reports lost with a failure

reportVars == <<rules, serial, reporter, published, outcomes>>

NotSet == -1
Outcomes == {"appended", "failed", "skipped", "truncated"}

NoReport == [o \in Outcomes |-> [n \in Names |-> 0]]
Merge(r, q) == [o \in Outcomes |-> [n \in Names |-> r[o][n] + q[o][n]]]
CountOne(r, o, n) == [r EXCEPT ![o][n] = @ + 1]

-----------------------------------------------------------------------------
(* RuleSet *)

DefaultParams == [max |-> 9, truncate |-> 0, logOverflow |-> 1, logFailure |-> 1]

\* The rules that match are applied in their order; a rule overrides what it sets.
CollectParams(list, name) ==
    FoldLeft(LAMBDA params, rule :
                 IF rule.name \in {"any", name}
                 THEN [k \in DOMAIN params |->
                          IF rule.set[k] = NotSet THEN params[k] ELSE rule.set[k]]
                 ELSE params,
             DefaultParams, list)

OfClass(list) == SelectSeq(list, LAMBDA rule : rule.class \in {"any", ThisClass})

\* The cache is kept though the rules have changed.
ConfigureRulesKept(set, list) == [set EXCEPT !.rules = OfClass(list)]

ConfigureRules(set, list) ==
    IF set.rules # OfClass(list)
    THEN [set EXCEPT !.rules = OfClass(list), !.cache = [n \in {} |-> DefaultParams]]
    ELSE set

\* do_get(): the set with the name in its cache.
Cached(set, name) ==
    IF name \in DOMAIN set.cache THEN set
    ELSE [set EXCEPT !.cache =
             [n \in DOMAIN set.cache \cup {name} |->
                 IF n \in DOMAIN set.cache THEN set.cache[n]
                 ELSE CollectParams(set.rules, name)]]

-----------------------------------------------------------------------------
(* Serializer *)

\* LimitedWrite: a piece that does not fit is refused, and so is all the rest.
LimitedWrite(pieces, limit) ==
    FoldLeft(LAMBDA w, size :
                 IF w.reached \/ size > w.left THEN [w EXCEPT !.left = 0, !.reached = TRUE]
                 ELSE [w EXCEPT !.left = @ - size, !.size = @ + size],
             [left |-> limit, size |-> 0, reached |-> FALSE], pieces)

TotalSize(pieces) == FoldLeft(LAMBDA a, b : a + b, 0, pieces)

Marker == 1    \* " TRUNCATED"

\* do_append(): the outcome, and the size of the line.
DoAppend(dump, params) ==
    LET whole == LimitedWrite(dump.head \o dump.body, params.max)
        body  == LimitedWrite(dump.body, params.max)
    IN  CASE ~whole.reached /\ dump.sound     -> <<"appended", whole.size>>
          [] ~whole.reached /\ ~dump.sound    -> <<"failed", 0>>
          [] whole.reached /\ params.truncate = 0 -> <<"skipped", 0>>
          [] whole.reached /\ params.truncate = 1 /\ body.reached ->
               <<"truncated", TotalSize(dump.head) + body.size + Marker>>
          [] whole.reached /\ params.truncate = 1 /\ ~body.reached /\ dump.sound ->
               <<"appended", TotalSize(dump.head \o dump.body)>>
          [] OTHER -> <<"failed", 0>>

\* Which outcomes a report has of a dump: a truncated one is appended as well,
\* and a bad one is left out if its level is off.
Reported(r, outcome, name, params) ==
    CASE outcome = "appended" -> CountOne(r, "appended", name)
      [] outcome = "failed"   -> IF params.logFailure = 1 THEN CountOne(r, "failed", name) ELSE r
      [] outcome = "skipped"  -> IF params.logOverflow = 1 THEN CountOne(r, "skipped", name) ELSE r
      [] outcome = "truncated" ->
           LET q == CountOne(r, "appended", name)
           IN  IF params.logOverflow = 1 THEN CountOne(q, "truncated", name) ELSE q

-----------------------------------------------------------------------------
(* Reporter *)

NewReporter == [report |-> NoReport, tick |-> NoReport, cool |-> TRUE]

HasBad(r) == \E o \in Outcomes \ {"appended"}, n \in Names : r[o][n] > 0

\* The report is taken although it is too early to log it.
EmitTaking(rep, force) ==
    [known |-> IF force \/ (HasBad(rep.report) /\ rep.cool) THEN rep.report
               ELSE [NoReport EXCEPT !["appended"] = rep.report["appended"]],
     rep   |-> [rep EXCEPT !.report = NoReport, !.cool = FALSE]]

\* emit(): metrics at once, logs if forced or the cooldown is over.
EmitReport(rep, force) ==
    LET counted == [rep EXCEPT !.report["appended"] = NoReport["appended"]]
    IN  IF force \/ (HasBad(rep.report) /\ rep.cool)
        THEN [known |-> rep.report,
              rep   |-> [rep EXCEPT !.report = NoReport, !.cool = FALSE]]
        ELSE [known |-> [NoReport EXCEPT !["appended"] = rep.report["appended"]],
              rep   |-> counted]

\* Reporter::add() with the report of the tick.
AddReport(rep) == [rep EXCEPT !.report = Merge(rep.report, rep.tick), !.tick = NoReport]

-----------------------------------------------------------------------------
(* The dumper *)

NewWriter == [at |-> "idle", size |-> 0, lines |-> {}, clear |-> FALSE, report |-> NoReport]

ReportsInit ==
    /\ rules = [rules |-> <<>>, cache |-> [n \in {} |-> DefaultParams], given |-> <<>>]
    /\ serial = NewWriter /\ reporter = NewReporter
    /\ published = NoReport
    /\ outcomes = [all |-> NoReport, lost |-> NoReport, taken |-> 0]

\* ConfigUpdated, and the first configuration: between two ticks.
UpdateRules(list) ==
    /\ serial.at = "idle" /\ rules.given # list
    /\ rules' = [ConfigureRules(rules, list) EXCEPT !.given = list]
    /\ UNCHANGED <<serial, reporter, published, outcomes>>

\* A tick: write_dumps() begins.
BeginWriting ==
    /\ serial.at = "idle"
    /\ serial' = [serial EXCEPT !.at = "writing"]
    /\ UNCHANGED <<rules, reporter, published, outcomes>>

\* clear_if_needed(): the chunk given out before is dropped.
ClearIfNeeded(w) ==
    IF w.clear THEN [w EXCEPT !.size = 0, !.lines = {}, !.clear = FALSE] ELSE w

\* Serializer::append() of the next dump of the drain; a long chunk is due.
AppendDump(name) ==
    /\ serial.at = "writing" /\ outcomes.taken < MaxTaken
    /\ rules' = Cached(rules, name)
    /\ LET params == rules'.cache[name]
           res    == DoAppend(DumpShapes[name], params)
           w      == ClearIfNeeded(serial)
           grown  == IF res[1] \in {"appended", "truncated"}
                     THEN [w EXCEPT !.size = @ + res[2] + 1,
                                    !.lines = @ \cup {<<name, res[1], res[2], params.max>>}]
                     ELSE w
       IN  /\ serial' = [grown EXCEPT
                !.report = Reported(@, res[1], name, params),
                !.at     = IF res[2] > 0 /\ grown.size > ChunkLimit THEN "chunk" ELSE "writing",
                !.clear  = res[2] > 0 /\ grown.size > ChunkLimit]
           /\ outcomes' = [outcomes EXCEPT !.all = Reported(@, res[1], name, params),
                                           !.taken = @ + 1]
    /\ UNCHANGED <<reporter, published>>

ChunkWritten ==
    /\ serial.at = "chunk"
    /\ serial' = [serial EXCEPT !.at = "writing"]
    /\ UNCHANGED <<rules, reporter, published, outcomes>>

\* The tick returns an error: its report is added, then the three are dropped
\* (Reporter::drop emits what is left) and the actor starts anew.
Fail(rep, lost) ==
    LET added == EmitReport(AddReport(rep), FALSE)
        last  == EmitReport(added.rep, TRUE)
    IN  /\ published' = Merge(published, Merge(added.known, last.known))
        /\ outcomes' = [outcomes EXCEPT !.lost = Merge(@, lost)]
        /\ reporter' = NewReporter
        /\ serial' = NewWriter
        /\ rules' = [ConfigureRules([rules |-> <<>>, cache |-> [n \in {} |-> DefaultParams],
                                     given |-> rules.given], rules.given)
                        EXCEPT !.given = rules.given]

\* In the middle of the drain the serializer has not given its report yet.
ChunkFails == serial.at = "chunk" /\ Fail(reporter, serial.report)

\* The drain is over: take() gives the report and what is left of the chunk.
TakeReport ==
    /\ serial.at = "writing"
    /\ LET w == ClearIfNeeded(serial)
       IN  serial' = [w EXCEPT !.at = IF w.size > 0 THEN "last" ELSE "report",
                               !.clear = w.size > 0, !.report = NoReport]
    /\ reporter' = [reporter EXCEPT !.tick = Merge(@, serial.report)]
    /\ UNCHANGED <<rules, published, outcomes>>

LastWritten ==
    /\ serial.at = "last"
    /\ serial' = [serial EXCEPT !.at = "report"]
    /\ UNCHANGED <<rules, reporter, published, outcomes>>

LastFails == serial.at = "last" /\ Fail(reporter, NoReport)

EndWriting ==
    /\ serial.at = "report"
    /\ LET res == EmitReport(AddReport(reporter), FALSE)
       IN  reporter' = res.rep /\ published' = Merge(published, res.known)
    /\ serial' = [serial EXCEPT !.at = "idle"]
    /\ UNCHANGED <<rules, outcomes>>

CooldownPasses ==
    /\ ~reporter.cool
    /\ reporter' = [reporter EXCEPT !.cool = TRUE]
    /\ UNCHANGED <<rules, serial, published, outcomes>>

\* The dumper terminates after its last tick.
DumperEnds ==
    /\ serial.at = "idle"
    /\ serial' = [NewWriter EXCEPT !.at = "ended"]
    /\ LET res == EmitReport(reporter, TRUE)
       IN  reporter' = res.rep /\ published' = Merge(published, res.known)
    /\ UNCHANGED <<rules, outcomes>>

ReportsNext ==
    \/ \E list \in RuleLists : UpdateRules(list)
    \/ BeginWriting \/ \E name \in Names : AppendDump(name)
    \/ ChunkWritten \/ ChunkFails \/ TakeReport \/ LastWritten \/ LastFails
    \/ EndWriting \/ CooldownPasses \/ DumperEnds

ReportsSpec == ReportsInit /\ [][ReportsNext]_reportVars

-----------------------------------------------------------------------------
\* Every outcome of a dump is published exactly once, in the metrics or the log, or
\* is still in one of the three reports on its way there, whatever the cooldown,
\* a failed write or the end of the dumper does to them (Report::merge,
\* Reporter::emit and drop); only a write that fails in the middle of a drain
\* loses the serializer's report.  All has been published when the dumper has ended.
\* The cache of rules never outlives the rules (RuleSet::configure), so each
\* line kept the limit of the rules in force: as a whole, or the message in it.
DumpsReported ==
    /\ outcomes.all = Merge(Merge(published, outcomes.lost),
                            Merge(serial.report, Merge(reporter.report, reporter.tick)))
    /\ serial.at = "ended" => outcomes.all = Merge(published, outcomes.lost)
    /\ rules.rules = OfClass(rules.given)
    /\ \A n \in DOMAIN rules.cache : rules.cache[n] = CollectParams(OfClass(rules.given), n)
    /\ \A line \in serial.lines :
          LET dump == DumpShapes[line[1]]
              head == TotalSize(dump.head)
          IN  IF line[2] = "truncated" THEN line[3] <= head + line[4] + Marker
              ELSE line[3] - head <= line[4]
=============================================================================
