----------------------------- MODULE DumpStorage -----------------------------
(***************************************************************************)
(* Dumping: the threads of actors add dumps to their shard of a registry,   *)
(* the dumper drains the shards, serializes the dumps and writes them in    *)
(* chunks (elfo-dumper/src/dump_storage.rs, actor.rs and serializer.rs).    *)
(***************************************************************************)
EXTENDS Integers, Sequences, FiniteSets, FiniteSetsExt, SequencesExt

CONSTANTS
    Shards,         \* the threads that dump, 1..n: ThreadLocal<Shard>
    PartCapacity,   \* PART_CAPACITY
    Capacities,     \* values of max_part_count
    ChunkSize,      \* chunk_size, in dumps
    MaxDumps,       \* bound: dumps of a thread
    MaxFailures     \* bound: failed writes

ASSUME StorageAssumption ==
    /\ IsFiniteSet(Shards) /\ Shards = 1..Cardinality(Shards)
    /\ PartCapacity \in Nat \ {0} /\ Capacities \subseteq Nat
    /\ {ChunkSize, MaxDumps, MaxFailures} \subseteq Nat

VARIABLES
    active,    \* Shards -> the active part, or NoShard before the first dump
    adding,    \* Shards -> TRUE between push() and renew_active_part()
    added,     \* Shards -> how many dumps were added
    fund,      \* Fund: [max, count, empty, filled]
    drain,     \* Drain: [pc, shard, rerun, from, part]
    output,    \* Serializer::output
    dumped,    \* Shards -> what reached the file
    wasted,    \* Shards -> what was cleared, skipped or in a failed chunk
    failures,  \* how many writes failed
    disorder   \* history: a failed drain gave back a part behind newer ones

storageVars == <<active, adding, added, fund, drain, output, dumped, wasted,
                 failures, disorder>>

NoShard == <<0>>    \* dumps count from 1
IsFull(part) == Len(part) = PartCapacity

-----------------------------------------------------------------------------
(* Fund *)

\* clear_most_filled(): the last of the longest queues gives its oldest part.
MostFilled(f) ==
    CHOOSE s \in Shards :
        \A t \in Shards : \/ Len(f.filled[t]) < Len(f.filled[s])
                          \/ Len(f.filled[t]) = Len(f.filled[s]) /\ t <= s

HasFilled(f) == \E s \in Shards : f.filled[s] # <<>>

Cleared(f) == [f EXCEPT !.filled[MostFilled(f)] = Tail(@)]

\* get_empty_part(): the fund after it, and the dumps it has cost.
EmptyPart(f) ==
    IF f.empty > 0 THEN [f EXCEPT !.empty = @ - 1]
    ELSE IF f.count >= f.max /\ HasFilled(f) THEN Cleared(f)
    ELSE [f EXCEPT !.count = @ + 1]

Lost(f, g) == [s \in Shards |->
    IF Len(g.filled[s]) < Len(f.filled[s]) THEN ToSet(f.filled[s][1]) ELSE {}]

\* One turn of the loops of configure().
Shrink(f) == IF f.empty > 0 THEN [f EXCEPT !.empty = @ - 1, !.count = @ - 1]
             ELSE [Cleared(f) EXCEPT !.count = @ - 1]

Configure(max) ==
    /\ fund.max # max
    /\ LET shrunk[n \in 0..fund.count] ==
               IF n = 0 THEN <<fund, wasted>>
               ELSE LET b == shrunk[n - 1]
                    IN  IF b[1].count > max /\ (b[1].empty > 0 \/ HasFilled(b[1]))
                        THEN LET g == Shrink(b[1])
                                 lost == Lost(b[1], g)
                             IN  <<g, [s \in Shards |-> b[2][s] \cup lost[s]]>>
                        ELSE b
           res == shrunk[fund.count]
       IN  /\ fund' = [res[1] EXCEPT !.max = max]
           /\ wasted' = res[2]
    /\ UNCHANGED <<active, adding, added, drain, output, dumped, failures,
                   disorder>>

-----------------------------------------------------------------------------
(* Threads that dump *)

\* renew_active_part() of a shard, under the lock of the fund.
RenewActivePart(s) ==
    LET f == EmptyPart(fund)
        lost == Lost(fund, f)
    IN  /\ fund' = [f EXCEPT !.filled[s] = Append(@, active[s])]
        /\ active' = [active EXCEPT ![s] = <<>>]
        /\ wasted' = [t \in Shards |-> wasted[t] \cup lost[t]]

\* add() and, for the first dump of the thread, make_shard().
Add(s) ==
    /\ ~adding[s] /\ added[s] < MaxDumps
    /\ added' = [added EXCEPT ![s] = @ + 1]
    /\ IF active[s] = NoShard
       THEN LET f == EmptyPart(fund)
                lost == Lost(fund, f)
            IN  /\ fund' = f
                /\ wasted' = [t \in Shards |-> wasted[t] \cup lost[t]]
                /\ active' = [active EXCEPT ![s] = <<added'[s]>>]
       ELSE /\ active' = [active EXCEPT ![s] = Append(@, added'[s])]
            /\ UNCHANGED <<fund, wasted>>
    /\ adding' = [adding EXCEPT ![s] = IsFull(active'[s])]
    /\ UNCHANGED <<drain, output, dumped, failures, disorder>>

\* The second half of add(): the predicate is checked again under the lock.
Renew(s) ==
    /\ adding[s]
    /\ IF IsFull(active[s]) THEN RenewActivePart(s)
       ELSE UNCHANGED <<active, fund, wasted>>
    /\ adding' = [adding EXCEPT ![s] = FALSE]
    /\ UNCHANGED <<added, drain, output, dumped, failures, disorder>>

-----------------------------------------------------------------------------
(* The dumper: DumpingTick, write_dumps() and Drain *)

NotDraining == [pc |-> "idle", shard |-> 1, rerun |-> FALSE, from |-> 0, part |-> <<>>]

StorageFrame == UNCHANGED <<added, adding>>

DumpingTick ==
    /\ drain.pc = "idle"
    /\ drain' = [NotDraining EXCEPT !.pc = "next"]
    /\ UNCHANGED <<active, fund, output, dumped, wasted, failures, disorder>>
    /\ StorageFrame

\* The next shard of the iterator, which is started again once; next() gives
\* None when that has ended, too.
Advance(d) ==
    IF d.shard < Cardinality(Shards)
    THEN [d EXCEPT !.pc = "next", !.shard = @ + 1]
    ELSE IF d.rerun THEN [d EXCEPT !.pc = "end"]
    ELSE [d EXCEPT !.pc = "next", !.shard = 1, !.rerun = TRUE]

\* next_shard(): a filled part of the shard, if there is one.
GetFilledPart ==
    /\ drain.pc \in {"next", "again"}
    /\ LET s == drain.shard
       IN  IF active[s] # NoShard /\ fund.filled[s] # <<>>
           THEN /\ fund' = [fund EXCEPT !.filled[s] = Tail(@)]
                /\ drain' = [drain EXCEPT !.pc = "pop", !.from = s,
                                          !.part = Head(fund.filled[s])]
           ELSE /\ drain' = IF active[s] = NoShard \/ drain.pc = "again"
                            THEN Advance(drain)
                            ELSE [drain EXCEPT !.pc = "renew"]
                /\ UNCHANGED fund
    /\ UNCHANGED <<active, output, dumped, wasted, failures, disorder>>
    /\ StorageFrame

\* next_shard(): no filled part, so the active one is taken unless empty.
RenewForDrain ==
    /\ drain.pc = "renew"
    /\ LET s == drain.shard
       IN  IF active[s] # <<>>
           THEN /\ RenewActivePart(s)
                /\ drain' = [drain EXCEPT !.pc = "again"]
           ELSE /\ drain' = Advance(drain)
                /\ UNCHANGED <<active, fund, wasted>>
    /\ UNCHANGED <<output, dumped, failures, disorder>> /\ StorageFrame

\* The timeout of the drain.
DrainTimeout ==
    /\ drain.pc = "next"
    /\ drain' = [drain EXCEPT !.pc = "end"]
    /\ UNCHANGED <<active, fund, output, dumped, wasted, failures, disorder>>
    /\ StorageFrame

\* What is in the output, by shard.
Chunk(out) == [s \in Shards |->
    [i \in 1..Len(SelectSeq(out, LAMBDA d : d[1] = s)) |->
        SelectSeq(out, LAMBDA d : d[1] = s)[i][2]]]

\* Drain::next() and Serializer::append(): a dump is appended or skipped.
Pop(skip) ==
    /\ drain.pc = "pop" /\ Len(output) <= ChunkSize
    /\ LET rest == Tail(drain.part)
           dump == Head(drain.part)
       IN  /\ output' = IF skip THEN output ELSE Append(output, <<drain.from, dump>>)
           /\ wasted' = IF skip THEN [wasted EXCEPT ![drain.from] = @ \cup {dump}]
                        ELSE wasted
           /\ IF rest = <<>>
              THEN /\ fund' = [fund EXCEPT !.empty = @ + 1]
                   /\ drain' = Advance([drain EXCEPT !.part = <<>>])
              ELSE /\ drain' = [drain EXCEPT !.part = rest]
                   /\ UNCHANGED fund
    /\ UNCHANGED <<active, dumped, failures, disorder>> /\ StorageFrame

\* A full chunk is written at once, what is left at the end of the drain.
Due == Len(output) > ChunkSize \/ (drain.pc = "end" /\ output # <<>>)

Write ==
    /\ Due
    /\ LET chunk == Chunk(output)
       IN  dumped' = [s \in Shards |-> dumped[s] \o chunk[s]]
    /\ output' = <<>>
    /\ UNCHANGED <<active, fund, drain, wasted, failures, disorder>>
    /\ StorageFrame

\* The drain is dropped with the rest of the part.
WriteFailsDropping ==
    /\ Due /\ failures < MaxFailures
    /\ failures' = failures + 1
    /\ LET chunk == Chunk(output)
       IN  wasted' = [s \in Shards |-> wasted[s] \cup ToSet(chunk[s])]
    /\ output' = <<>>
    /\ fund' = [fund EXCEPT !.count = @ - Cardinality({drain.part} \ {<<>>})]
    /\ drain' = NotDraining
    /\ UNCHANGED <<active, dumped, disorder>> /\ StorageFrame

\* The write fails: the chunk is gone, the rest of the part goes back, the
\* dumper returns the error and is restarted.
WriteFails ==
    /\ Due /\ failures < MaxFailures
    /\ failures' = failures + 1
    /\ LET chunk == Chunk(output)
       IN  wasted' = [s \in Shards |-> wasted[s] \cup ToSet(chunk[s])]
    /\ output' = <<>>
    /\ IF drain.part # <<>>
       THEN /\ fund' = [fund EXCEPT !.filled[drain.from] = Append(@, drain.part)]
            /\ disorder' = (disorder \/ fund.filled[drain.from] # <<>>)
       ELSE UNCHANGED <<fund, disorder>>
    /\ drain' = NotDraining
    /\ UNCHANGED <<active, dumped>> /\ StorageFrame

DrainEnds ==
    /\ drain.pc = "end" /\ output = <<>>
    /\ drain' = NotDraining
    /\ UNCHANGED <<active, fund, output, dumped, wasted, failures, disorder>>
    /\ StorageFrame

StorageInit ==
    /\ active = [s \in Shards |-> NoShard]
    /\ adding = [s \in Shards |-> FALSE]
    /\ added = [s \in Shards |-> 0]
    /\ \E max \in Capacities :
          fund = [max |-> max, count |-> 0, empty |-> 0,
                  filled |-> [s \in Shards |-> <<>>]]
    /\ drain = NotDraining /\ output = <<>>
    /\ dumped = [s \in Shards |-> <<>>]
    /\ wasted = [s \in Shards |-> {}]
    /\ failures = 0 /\ disorder = FALSE

StorageNext ==
    \/ \E s \in Shards : Add(s) \/ Renew(s)
    \/ \E max \in Capacities : Configure(max)
    \/ DumpingTick \/ GetFilledPart \/ RenewForDrain \/ DrainTimeout
    \/ \E skip \in BOOLEAN : Pop(skip)
    \/ Write \/ WriteFails \/ DrainEnds

StorageSpec == StorageInit /\ [][StorageNext]_storageVars

-----------------------------------------------------------------------------
Existing == {s \in Shards : active[s] # NoShard}

\* No dump is lost or written twice: each is in a part, in the output, in the
\* file, or was cleared, skipped or part of a failed write.  What a thread has
\* dumped is written in its order, unless a write has failed.
DumpsKept ==
    \A s \in Shards :
        LET parts == FlattenSeq(IF s \in Existing THEN fund.filled[s] \o <<active[s]>>
                                ELSE <<>>)
            held == Chunk(output)[s] \o (IF drain.from = s THEN drain.part ELSE <<>>)
            all == dumped[s] \o held \o parts
        IN  /\ Len(all) + Cardinality(wasted[s]) = added[s]
            /\ ToSet(all) \cup wasted[s] = 1..added[s]
            /\ disorder \/ \A i, j \in DOMAIN all : i < j => all[i] < all[j]
=============================================================================
