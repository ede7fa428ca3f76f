------------------------------- MODULE Scopes -------------------------------
(***************************************************************************)
(* The settings that the actors of a group share (ScopeGroupShared): which  *)
(* levels may be logged, which classes of dumps are wanted and how many per *)
(* second.  The supervisor changes them with `configure` while the actors,  *)
(* on other threads, ask them without a lock before each log line           *)
(* (ScopeFilter::enabled) and each dump (DumpRegistry::enabled).  The       *)
(* logger, a third actor, changes the filter on targets.                    *)
(*                                                                          *)
(* A level is its number (log_level_to_value), so that a larger one is more *)
(* important and Off is above them all.  A limiter is the rate it was       *)
(* configured with: what it grants is the subject of RateLimiter.  Checks   *)
(* made outside of any actor, whose answer is fixed, are left out, and so   *)
(* is the adapter's own first record.                                       *)
(***************************************************************************)
EXTENDS Naturals, Sequences, FiniteSets

CONSTANTS Checkers,       \* the threads that log and dump
          Classes,        \* the classes of dumps
          LogLevels,      \* the levels of log_level_to_value
          SystemConfigs,  \* [level, logRate, disabled, rate, perGroup, perKey]
          TargetLevels,   \* the levels the logger may allow for a target
          MaxConfigs      \* how many times the settings change

VARIABLES shared,    \* ScopeGroupShared
          updater,    \* the supervisor's thread, in `configure`
          filter,    \* ScopeFilter and the subscriber's cache of its interest
          checker    \* the threads that check

scopesVars == <<shared, updater, filter, checker>>

NoConfig == [level |-> 0, logRate |-> 0, disabled |-> TRUE, rate |-> 0,
             perGroup |-> FALSE, perKey |-> FALSE]
IdleChecker == [at |-> "idle", class |-> "", level |-> 0,
                entry |-> [class |-> "", disabled |-> TRUE],
                since |-> {}, targets |-> {}, verdict |-> [kind |-> "none", rate |-> 0]]

\* The permissions that a configuration asks for.
SetPermissions(c) ==
    [logging  |-> {l \in LogLevels : l >= c.level},
     dumping  |-> ~c.disabled,
     perGroup |-> c.perGroup,
     perKey   |-> c.perKey]

WouldEnable(target, level) == level >= target

ScopesInit ==
    /\ shared = [permissions |-> [logging |-> {}, dumping |-> FALSE,
                                  perGroup |-> FALSE, perKey |-> FALSE],
                 logRates |-> [l \in LogLevels |-> 0],
                 lock     |-> "free",
                 config   |-> [disabled |-> FALSE, rate |-> 0],
                 classes  |-> <<>>,
                 limiters |-> [c \in Classes |-> 0]]
    /\ updater = [at |-> "idle", to |-> NoConfig, current |-> {}, list |-> <<>>, count |-> 0]
    /\ filter = [targets |-> 0, interest |-> LogLevels, logger |-> "idle", count |-> 0]
    /\ checker = [k \in Checkers |-> IdleChecker]

FindClass(classes, class) == {i \in 1..Len(classes) : classes[i].class = class}

\* The first entry of the class, as `Iterator::find` returns it.
Entry(classes, class) ==
    classes[CHOOSE i \in FindClass(classes, class) :
                \A j \in FindClass(classes, class) : i <= j]

(***************************************************************************)
(* ScopeGroupShared::configure, called by the supervisor alone.             *)
(***************************************************************************)

\* LoggingControl::configure: a check reads one limiter, so the loop is a step.
ConfigureScope(c) ==
    /\ updater.at = "idle" /\ updater.count < MaxConfigs
    /\ shared' = [shared EXCEPT !.logRates = [l \in LogLevels |-> c.logRate]]
    /\ updater' = [updater EXCEPT !.at = "dumping", !.to = c, !.count = @ + 1]
    /\ checker' = [k \in Checkers |->
                      IF checker[k].at = "idle" THEN checker[k]
                      ELSE [checker[k] EXCEPT !.since = @ \cup {c}]]
    /\ UNCHANGED filter

\* A configuration that does not keep the lock to the end.
LockConfigBriefly ==
    /\ updater.at = "dumping" /\ shared.lock = "free"
    /\ shared' = [shared EXCEPT !.config = [disabled |-> updater.to.disabled,
                                            rate     |-> updater.to.rate]]
    /\ updater' = [updater EXCEPT !.at = "classes"]
    /\ UNCHANGED <<filter, checker>>

LockConfig ==
    /\ updater.at = "dumping" /\ shared.lock = "free"
    /\ shared' = [shared EXCEPT !.config = [disabled |-> updater.to.disabled,
                                            rate     |-> updater.to.rate],
                                !.lock   = "updater"]
    /\ updater' = [updater EXCEPT !.at = "classes"]
    /\ UNCHANGED <<filter, checker>>

\* A new list; the limiters in it are those of the old one.
WithConfig ==
    /\ updater.at = "classes"
    /\ updater' = [updater EXCEPT !.at = "store",
                      !.list = [i \in 1..Len(shared.classes) |->
                                    [class    |-> shared.classes[i].class,
                                     disabled |-> updater.to.disabled]]]
    /\ shared' = [shared EXCEPT !.limiters =
                      [c \in Classes |-> IF FindClass(shared.classes, c) = {} THEN @[c]
                                         ELSE updater.to.rate]]
    /\ UNCHANGED <<filter, checker>>

StoreClasses ==
    /\ updater.at = "store"
    /\ shared' = [shared EXCEPT !.classes = updater.list, !.lock = "free"]
    /\ updater' = [updater EXCEPT !.at = "permissions", !.list = <<>>]
    /\ UNCHANGED <<filter, checker>>

\* The bits are loaded, set and stored by the only thread that writes them.
StorePermissions ==
    /\ updater.at = "permissions"
    /\ shared' = [shared EXCEPT !.permissions = SetPermissions(updater.to)]
    /\ updater' = [updater EXCEPT !.at = "idle", !.current = {updater.to}]
    /\ UNCHANGED <<filter, checker>>

(***************************************************************************)
(* ScopeFilter::configure: swap the targets, then have the subscriber ask   *)
(* each call site again.                                                    *)
(***************************************************************************)

SetTargets(t) ==
    /\ filter.logger = "idle" /\ filter.count < MaxConfigs
    /\ filter' = [filter EXCEPT !.targets = t, !.count = @ + 1,
                      !.logger = IF t # filter.targets THEN "rebuild" ELSE "idle"]
    /\ checker' = [k \in Checkers |->
                      IF checker[k].at = "idle" THEN checker[k]
                      ELSE [checker[k] EXCEPT !.targets = @ \cup {t}]]
    /\ UNCHANGED <<shared, updater>>

\* One call site at a time.
Interested(l) ==
    /\ filter.logger = "rebuild"
    /\ (l \in filter.interest) # WouldEnable(filter.targets, l)
    /\ filter' = [filter EXCEPT !.interest =
                      IF WouldEnable(filter.targets, l) THEN @ \cup {l} ELSE @ \ {l}]
    /\ UNCHANGED <<shared, updater, checker>>

Rebuilt ==
    /\ filter.logger = "rebuild"
    /\ filter.interest = {l \in LogLevels : WouldEnable(filter.targets, l)}
    /\ filter' = [filter EXCEPT !.logger = "idle"]
    /\ UNCHANGED <<shared, updater, checker>>

(***************************************************************************)
(* The checks.                                                              *)
(***************************************************************************)

\* The settings in force: the last ones and those being applied.
InForce == updater.current \cup IF updater.at = "idle" THEN {} ELSE {updater.to}

\* The targets in force: until the subscriber has been told, any earlier ones.
TargetsInForce ==
    {t \in TargetLevels \cup {0} :
        \/ t = filter.targets
        \/ filter.logger = "rebuild"}

CheckStarts(k) == [checker[k] EXCEPT !.since = InForce, !.targets = TargetsInForce]

\* Actors run after the first configuration.
MayCheck(k) == checker[k].at = "idle" /\ updater.current # {}

\* DumpingControl::check, its first look at the list.
CheckDump(k, class) ==
    /\ MayCheck(k)
    /\ checker' = [checker EXCEPT ![k] =
          IF FindClass(shared.classes, class) # {}
          THEN [CheckStarts(k) EXCEPT !.at = "acquire", !.class = class,
                                  !.entry = Entry(shared.classes, class)]
          ELSE [CheckStarts(k) EXCEPT !.at = "add", !.class = class]]
    /\ UNCHANGED <<shared, updater, filter>>

AddClass(k) ==
    /\ checker[k].at = "add" /\ shared.lock = "free"
    /\ checker' = [checker EXCEPT ![k].at = "again"]
    /\ shared' = IF FindClass(shared.classes, checker[k].class) # {} THEN shared
                 ELSE [shared EXCEPT
                          !.classes = Append(@, [class    |-> checker[k].class,
                                                 disabled |-> shared.config.disabled]),
                          !.limiters[checker[k].class] = shared.config.rate]
    /\ UNCHANGED <<updater, filter>>

\* The second look, which expects the class to be there.
FindAgain(k) ==
    /\ checker[k].at = "again"
    /\ checker' = [checker EXCEPT ![k] =
          IF FindClass(shared.classes, checker[k].class) # {}
          THEN [@ EXCEPT !.at = "acquire", !.entry = Entry(shared.classes, checker[k].class)]
          ELSE [@ EXCEPT !.at = "panicked"]]
    /\ UNCHANGED <<shared, updater, filter>>

Verdict(kind, rate) == [kind |-> kind, rate |-> rate]

\* PerClass::check on the entry found.
Acquire(k) ==
    /\ checker[k].at = "acquire"
    /\ checker' = [checker EXCEPT ![k].at = "done", ![k].verdict =
          IF checker[k].entry.disabled THEN Verdict("NotInterested", 0)
          ELSE Verdict("Asked", shared.limiters[checker[k].class])]
    /\ UNCHANGED <<shared, updater, filter>>

\* A log line: `tracing` consults its cache, `log` has the targets looked at.
CheckLog(k, level, legacy) ==
    /\ MayCheck(k)
    /\ LET allowed == IF legacy THEN WouldEnable(filter.targets, level)
                      ELSE level \in filter.interest
           began   == [CheckStarts(k) EXCEPT !.level = level]
       IN  checker' = [checker EXCEPT ![k] =
              CASE ~allowed -> [began EXCEPT !.at = "done", !.verdict = Verdict("Never", 0)]
                [] allowed /\ level \notin shared.permissions.logging ->
                     [began EXCEPT !.at = "done", !.verdict = Verdict("NotInterested", 0)]
                [] OTHER -> [began EXCEPT !.at = "limit"]]
    /\ UNCHANGED <<shared, updater, filter>>

\* LoggingControl::check.
LimitLog(k) ==
    /\ checker[k].at = "limit"
    /\ checker' = [checker EXCEPT ![k].at = "done",
                       ![k].verdict = Verdict("Asked", shared.logRates[checker[k].level])]
    /\ UNCHANGED <<shared, updater, filter>>

Decide(k) ==
    /\ checker[k].at = "done"
    /\ checker' = [checker EXCEPT ![k] = IdleChecker]
    /\ UNCHANGED <<shared, updater, filter>>

ScopesNext ==
    \/ \E c \in SystemConfigs : ConfigureScope(c)
    \/ LockConfig \/ WithConfig \/ StoreClasses \/ StorePermissions
    \/ \E t \in TargetLevels : SetTargets(t)
    \/ \E l \in LogLevels : Interested(l)
    \/ Rebuilt
    \/ \E k \in Checkers :
          \/ \E class \in Classes : CheckDump(k, class)
          \/ \E l \in LogLevels, legacy \in BOOLEAN : CheckLog(k, l, legacy)
          \/ AddClass(k) \/ FindAgain(k) \/ Acquire(k) \/ LimitLog(k) \/ Decide(k)

ScopesSpec == ScopesInit /\ [][ScopesNext]_scopesVars

(***************************************************************************)
(* Properties.                                                              *)
(***************************************************************************)

\* What the answer to a check rests on was in force at some point of the check.
\* (The two settings of a class may come from two configurations: the flag is
\* read from a list, the rate from a limiter that all the lists share.)
VerdictHeld(k) ==
    LET v    == checker[k].verdict
        dump == checker[k].class # ""
    IN  CASE v.kind = "NotInterested" ->
               \E c \in checker[k].since :
                  IF dump THEN c.disabled
                  ELSE checker[k].level \notin SetPermissions(c).logging
          [] v.kind = "Asked" ->
               /\ \E c \in checker[k].since :
                     IF dump THEN ~c.disabled
                     ELSE checker[k].level \in SetPermissions(c).logging
               /\ \E c \in checker[k].since : v.rate = IF dump THEN c.rate ELSE c.logRate
          [] v.kind = "Never" ->
               \E t \in checker[k].targets : ~WouldEnable(t, checker[k].level)

\* Between two configurations the shared settings are those of the last one.
SettingsApplied ==
    \A c \in updater.current :
        updater.at = "idle" =>
            /\ shared.permissions = SetPermissions(c)
            /\ \A l \in LogLevels : shared.logRates[l] = c.logRate
            /\ \A i \in 1..Len(shared.classes) :
                  /\ shared.classes[i].disabled = c.disabled
                  /\ shared.limiters[shared.classes[i].class] = c.rate

\* No update of the group's settings is lost, whichever class of dumps the
\* actors ask about meanwhile (DumpingControl::configure against add_class):
\* once `configure` is over each class follows the new settings; each class
\* has one entry, so one limiter; the class just added is found
\* (`expect("absent class")`); and no actor acts on settings that were not in
\* force while it was asking.
VerdictCurrent ==
    /\ SettingsApplied
    /\ filter.logger = "idle" =>
          filter.interest = {l \in LogLevels : WouldEnable(filter.targets, l)}
    /\ \A c \in Classes : Cardinality(FindClass(shared.classes, c)) <= 1
    /\ \A k \in Checkers : /\ checker[k].at # "panicked"
                           /\ checker[k].at = "done" => VerdictHeld(k)
=============================================================================
