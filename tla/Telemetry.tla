------------------------------ MODULE Telemetry ------------------------------
(***************************************************************************)
(* Metrics: threads update their shard of the storage, the telemeter takes  *)
(* the registries of one shard after another and merges them into its       *)
(* snapshot (elfo-telemeter).  One key of each kind: a counter, a gauge and *)
(* a histogram.                                                             *)
(***************************************************************************)
EXTENDS Integers, FiniteSets, FiniteSetsExt, TLC

CONSTANTS
    Meters,       \* threads with a shard, 1..n
    Values,       \* absolute values of the gauge
    MaxUpdates    \* bound: updates of a thread

ASSUME TelemetryAssumption ==
    /\ IsFiniteSet(Meters) /\ Meters = 1..Cardinality(Meters)
    /\ Values \subseteq Int /\ MaxUpdates \in Nat

VARIABLES
    origin,     \* GaugeOrigin: the last absolute value and its epoch
    gauges,     \* Meters -> the gauge of the shard
    counters,   \* Meters -> counter of the shard
    samples,    \* Meters -> how many samples the histogram of the shard has
    updating,   \* Meters -> [pc, epoch]: between the two halves of update()
    updates,    \* Meters -> how many updates were made
    merging,    \* the telemeter: [pc, shard, kind, entry, after]
    snapshot,   \* Snapshot: [count, gauge, epoch, sketch, cumulative]
    history     \* what was recorded: [count, gauge, samples]

telemetryVars == <<origin, gauges, counters, samples, updating, updates,
                   merging, snapshot, history>>

NoGauge == [epoch |-> 0, delta |-> 0, present |-> FALSE]
NoEntry == [epoch |-> 0, delta |-> 0, present |-> FALSE, n |-> 0]
Resting == [pc |-> "idle", shard |-> 1, kind |-> "counter", entry |-> NoEntry,
            after |-> "none"]

-----------------------------------------------------------------------------
(* upsert() of a thread: the lock of the registry of its shard is held *)

Fresh(t) == [gauges[t] EXCEPT !.present = TRUE]

MayUpdate(t) == updating[t].pc = "idle" /\ updates[t] < MaxUpdates

Counted(t) == updates' = [updates EXCEPT ![t] = @ + 1]

\* Counter::update(), Histogram::update()
IncrementCounter(t) ==
    /\ MayUpdate(t) /\ Counted(t)
    /\ counters' = [counters EXCEPT ![t] = @ + 1]
    /\ history' = [history EXCEPT !.count = @ + 1]
    /\ UNCHANGED <<origin, gauges, samples, updating, merging, snapshot>>

RecordHistogram(t) ==
    /\ MayUpdate(t) /\ Counted(t)
    /\ samples' = [samples EXCEPT ![t] = @ + 1]
    /\ history' = [history EXCEPT !.samples = @ + 1]
    /\ UNCHANGED <<origin, gauges, counters, updating, merging, snapshot>>

\* GaugeOrigin::set() and Gauge::update() of an absolute value.
SetOrigin(value) == [value |-> value, epoch |-> origin.epoch + 1]

SetGauge(t, value) ==
    /\ MayUpdate(t) /\ Counted(t)
    /\ origin' = SetOrigin(value)
    /\ gauges' = [gauges EXCEPT
                    ![t] = [epoch |-> origin'.epoch, delta |-> 0, present |-> TRUE]]
    /\ history' = [history EXCEPT !.gauge = value]
    /\ UNCHANGED <<counters, samples, updating, merging, snapshot>>

\* Gauge::update() of a delta: the epoch is read, then the delta is added to
\* those of the epoch or replaces those of an earlier one.
ReadEpoch(t) ==
    /\ MayUpdate(t) /\ Counted(t)
    /\ updating' = [updating EXCEPT ![t] = [pc |-> "delta", epoch |-> origin.epoch]]
    /\ history' = [history EXCEPT !.gauge = @ + 1]
    /\ UNCHANGED <<origin, gauges, counters, samples, merging, snapshot>>

\* The deltas of an earlier epoch stay.
AddDeltaAlways(g, epoch) == [g EXCEPT !.epoch = epoch, !.delta = @ + 1]

AddDelta(g, epoch) ==
    IF g.epoch = epoch THEN [g EXCEPT !.delta = @ + 1]
    ELSE [g EXCEPT !.epoch = epoch, !.delta = 1]

UpdateGauge(t) ==
    /\ updating[t].pc = "delta"
    /\ gauges' = [gauges EXCEPT ![t] = AddDelta(Fresh(t), updating[t].epoch)]
    /\ updating' = [updating EXCEPT ![t].pc = "idle"]
    /\ UNCHANGED <<origin, counters, samples, updates, merging, snapshot, history>>

-----------------------------------------------------------------------------
(* The telemeter *)

MergeFrame == UNCHANGED <<origin, updating, updates, history>>

\* Render, GetSnapshot and CompactionTick: update_snapshot(); compaction
\* merges the histograms only.
UpdateSnapshot(after) ==
    /\ merging.pc = "idle"
    /\ merging' = [Resting EXCEPT !.pc = "take", !.after = after,
                      !.kind = IF after = "compact" THEN "histogram" ELSE "counter"]
    /\ UNCHANGED <<gauges, counters, samples, snapshot>> /\ MergeFrame

\* merge_registry(): the registry is replaced by an empty one; the lock is
\* not taken while the thread is inside of upsert().
TakeRegistry ==
    /\ merging.pc = "take"
    /\ LET t == merging.shard
       IN  CASE merging.kind = "counter" ->
                /\ merging' = [merging EXCEPT !.pc = "merge", !.entry.n = counters[t]]
                /\ counters' = [counters EXCEPT ![t] = 0]
                /\ UNCHANGED <<gauges, samples>>
             [] merging.kind = "histogram" ->
                /\ merging' = [merging EXCEPT !.pc = "merge", !.entry.n = samples[t]]
                /\ samples' = [samples EXCEPT ![t] = 0]
                /\ UNCHANGED <<gauges, counters>>
             [] merging.kind = "gauge" ->
                /\ updating[t].pc = "idle"
                /\ merging' = [merging EXCEPT !.pc = "merge",
                                  !.entry = [n |-> 0] @@ gauges[t]]
                /\ gauges' = [gauges EXCEPT ![t] = NoGauge]
                /\ UNCHANGED <<counters, samples>>
    /\ UNCHANGED snapshot /\ MergeFrame

\* Gauge::merge()
MergeGauge(s, e) ==
    LET base == IF origin.epoch > s.epoch
                THEN [s EXCEPT !.gauge = origin.value, !.epoch = origin.epoch]
                ELSE s
    IN  IF ~e.present THEN s
        ELSE IF origin.epoch = e.epoch THEN [base EXCEPT !.gauge = @ + e.delta]
        ELSE base

\* The next registry of merge_registries(), the next shard of merge().
NextRegistry(m) ==
    CASE m.kind = "counter" -> [m EXCEPT !.pc = "take", !.kind = "gauge"]
      [] m.kind = "gauge" -> [m EXCEPT !.pc = "take", !.kind = "histogram"]
      [] m.shard < Cardinality(Meters) ->
            [m EXCEPT !.pc = "take", !.shard = @ + 1,
                      !.kind = IF m.after = "compact" THEN "histogram" ELSE "counter"]
      [] OTHER -> [m EXCEPT !.pc = "done"]

\* entry.data.merge(out) of the entries of the registry.
MergeEntry ==
    /\ merging.pc = "merge"
    /\ snapshot' = CASE merging.kind = "counter" ->
                        [snapshot EXCEPT !.count = @ + merging.entry.n]
                     [] merging.kind = "histogram" ->
                        [snapshot EXCEPT !.sketch = @ + merging.entry.n]
                     [] OTHER -> MergeGauge(snapshot, merging.entry)
    /\ merging' = NextRegistry([merging EXCEPT !.entry = NoEntry])
    /\ UNCHANGED <<gauges, counters, samples>> /\ MergeFrame

\* The answer; with Retention::ResetOnScrape, reset_distributions().
Answered(resets) ==
    /\ merging.pc = "done"
    /\ merging' = Resting
    /\ snapshot' = IF resets /\ merging.after = "render"
                   THEN [snapshot EXCEPT !.cumulative = @ + snapshot.sketch,
                                         !.sketch = 0]
                   ELSE snapshot
    /\ UNCHANGED <<gauges, counters, samples>> /\ MergeFrame

TelemetryInit ==
    /\ origin = [value |-> 0, epoch |-> 0]
    /\ gauges = [t \in Meters |-> NoGauge]
    /\ counters = [t \in Meters |-> 0]
    /\ samples = [t \in Meters |-> 0]
    /\ updating = [t \in Meters |-> [pc |-> "idle", epoch |-> 0]]
    /\ updates = [t \in Meters |-> 0]
    /\ merging = Resting
    /\ snapshot = [count |-> 0, gauge |-> 0, epoch |-> 0, sketch |-> 0,
                   cumulative |-> 0]
    /\ history = [count |-> 0, gauge |-> 0, samples |-> 0]

TelemetryNext ==
    \/ \E t \in Meters : \/ IncrementCounter(t) \/ RecordHistogram(t)
                         \/ ReadEpoch(t) \/ UpdateGauge(t)
                         \/ \E v \in Values : SetGauge(t, v)
    \/ \E after \in {"render", "get", "compact"} : UpdateSnapshot(after)
    \/ TakeRegistry \/ MergeEntry
    \/ \E resets \in BOOLEAN : Answered(resets)

TelemetrySpec == TelemetryInit /\ [][TelemetryNext]_telemetryVars

-----------------------------------------------------------------------------
SumOver(f) == MapThenSumSet(LAMBDA t : f[t], Meters)

\* What the gauge would show if everything were merged now.
Shown ==
    LET Current(e) == IF e.present /\ e.epoch = origin.epoch THEN e.delta ELSE 0
        pending == {t \in Meters : updating[t].pc = "delta"
                                   /\ updating[t].epoch = origin.epoch}
    IN  (IF snapshot.epoch = origin.epoch THEN snapshot.gauge ELSE origin.value)
        + MapThenSumSet(LAMBDA t : Current(gauges[t]), Meters)
        + Current(merging.entry) + Cardinality(pending)

\* No update is lost or counted twice while shards are merged one by one and
\* threads go on updating: counters and histograms add up, and the gauge is the
\* last absolute value and the deltas after it.
MetricsExact ==
    /\ snapshot.count + SumOver(counters)
       + (IF merging.kind = "counter" THEN merging.entry.n ELSE 0) = history.count
    /\ snapshot.cumulative + snapshot.sketch + SumOver(samples)
       + (IF merging.kind = "histogram" THEN merging.entry.n ELSE 0)
       = history.samples
    /\ Shown = history.gauge
=============================================================================
