------------------------------ MODULE TraceIds ------------------------------
(***************************************************************************)
(* Trace ids.  Each thread has a generator that takes chunks of counters    *)
(* from one registry of the process and combines the counter with a cached  *)
(* time and the number of the node; a raw id that comes from outside is     *)
(* validated.  The widths of the fields, fixed in the code (25 bits of      *)
(* seconds, 16 of node, 12 of chunk, 10 of counter), are parameters here.   *)
(*                                                                          *)
(* Time is counted in halves of a second, so that the cached time can be a  *)
(* second behind the clock it was read from.                                *)
(***************************************************************************)
EXTENDS Naturals, FiniteSets

CONSTANTS Generators,   \* the threads
          CounterMax,   \* 0x3ff: the last counter of a chunk
          ChunkCount,   \* 0xfff + 1: chunk numbers wrap here
          TimeMod,      \* 0x1ff_ffff + 1: seconds wrap here
          NodeMod,      \* 0xffff + 1
          ThisNode,     \* the number of the node, never zero
          StartTimes,   \* when the process may start, in half-seconds
          MaxTime,      \* bound on the wall clock
          MaxChunks     \* bound: chunks given out

VARIABLES wallTime,      \* half-seconds since the epoch
          registry,   \* ChunkRegistry
          generator,  \* the generator of each thread
          given,      \* raw ids returned so far
          latest      \* the last raw id and what became of it

traceIdVars == <<wallTime, registry, generator, given, latest>>

Half == 2

TruncatedNow == (wallTime \div Half) % TimeMod

Smaller(a, b) == IF a < b THEN a ELSE b


AbsDelta(a, b) == Smaller((a + TimeMod - b) % TimeMod, (b + TimeMod - a) % TimeMod)

BottomMod == ChunkCount * (CounterMax + 1)

FromLayout(layout) == layout.timestamp * (NodeMod * BottomMod)
                        + layout.node * BottomMod + layout.bottom

ToLayout(raw) == [timestamp |-> (raw \div (NodeMod * BottomMod)) % TimeMod,
                  node      |-> (raw \div BottomMod) % NodeMod,
                  bottom    |-> raw % BottomMod]

\* The bit above the timestamp must be zero, and the time close to now.
Validate(raw, lag) ==
    /\ raw # 0
    /\ raw < TimeMod * NodeMod * BottomMod
    /\ AbsDelta(TruncatedNow, ToLayout(raw).timestamp) <= lag

NewGenerator == [node |-> 0, cached |-> TruncatedNow, when |-> wallTime,
                 chunk |-> 0, counter |-> CounterMax]

TraceIdInit ==
    /\ wallTime \in StartTimes
    /\ registry = 0
    /\ generator = [t \in Generators |-> NewGenerator]
    /\ given = {}
    /\ latest = [raw |-> 0, layout |-> ToLayout(0), valid |-> TRUE, again |-> FALSE]

\* CachedTruncatedTime::get: read anew once a second has passed.
CachedTime(g) ==
    IF wallTime - g.when >= Half THEN [g EXCEPT !.cached = TruncatedNow, !.when = wallTime] ELSE g

\* A chunk that is used one counter too far.
TakeChunkLate(g) ==
    IF g.counter = CounterMax + 1
    THEN [g EXCEPT !.chunk = registry % ChunkCount, !.counter = 1]
    ELSE [g EXCEPT !.counter = @ + 1]

\* A chunk that is used up is replaced, then the counter is advanced.
TakeChunk(g) ==
    IF g.counter = CounterMax
    THEN [g EXCEPT !.chunk = registry % ChunkCount, !.counter = 1]
    ELSE [g EXCEPT !.counter = @ + 1]

\* Generator::generate, on a thread that runs an actor (`inside`) or not: the
\* node is remembered once it is known.
Generate(t, inside) ==
    LET taken  == TakeChunk(generator[t])
        known  == IF taken.node = 0 /\ inside THEN [taken EXCEPT !.node = ThisNode] ELSE taken
        timed  == CachedTime(known)
        layout == [timestamp |-> timed.cached, node |-> timed.node,
                   bottom    |-> timed.chunk * (CounterMax + 1) + timed.counter]
        raw    == FromLayout(layout)
    IN  /\ generator[t].counter = CounterMax => registry < MaxChunks
        /\ registry' = IF generator[t].counter = CounterMax THEN registry + 1 ELSE registry
        /\ generator' = [generator EXCEPT ![t] = timed]
        /\ given' = given \cup {raw}
        /\ latest' = [raw |-> raw, layout |-> layout, valid |-> Validate(raw, 1),
                      again |-> raw \in given]
        /\ UNCHANGED wallTime

TimePasses ==
    /\ wallTime < MaxTime
    /\ wallTime' = wallTime + 1
    /\ UNCHANGED <<registry, generator, given, latest>>

TraceIdNext ==
    \/ \E t \in Generators, inside \in BOOLEAN : Generate(t, inside)
    \/ TimePasses

TraceIdSpec == TraceIdInit /\ [][TraceIdNext]_traceIdVars

(***************************************************************************)
(* Properties.                                                              *)
(***************************************************************************)

=============================================================================
