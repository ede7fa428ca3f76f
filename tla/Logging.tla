------------------------------- MODULE Logging -------------------------------
(***************************************************************************)
(* The capture layer and the logger (elfo-logger): threads put the text of  *)
(* spans and events into a pool, events go through a bounded channel, the   *)
(* logger formats them into lines.  A text is the sequence of the widths of *)
(* its characters in bytes.                                                 *)
(***************************************************************************)
EXTENDS Integers, Sequences, FiniteSets, SequencesExt

CONSTANTS
    Threads,       \* threads that log
    PoolIds,       \* slots of the string pool
    Spans,         \* spans, in the order they are created: 1..n
    Texts,         \* texts of events and spans
    Meta, Fields,  \* texts of the timestamp, level and trace id; of the location
    MarkerSize,    \* TRUNCATED_MARKER.len()
    ChannelSize,   \* CHANNEL_CAPACITY
    LineSizes,     \* values of max_line_size
    MaxEvents,     \* bound: events
    MaxText        \* bound: characters of a span's text

NoText == <<0>>
NoSlot == "none"
NoSpan == 0

VARIABLES
    pool,      \* PoolIds -> text, NoText when the slot is free
    spans,     \* Spans -> [slot, parent, st]
    thread,    \* Threads -> [pc, slot, span]
    channel,   \* [queue, open]
    logger,    \* [pc, event, size]
    line,      \* the line of the last event: [meta, payload, fields, marker, whole]
    counts     \* [events, lost, emitted, written, failed]

loggingVars == <<pool, spans, thread, channel, logger, line, counts>>

\* The pool takes some free slot; which one does not matter.
FreeSlots == {i \in PoolIds : pool[i] = NoText}
FreeSlot == CHOOSE i \in FreeSlots : TRUE
NoEvent == [slot |-> NoSlot, span |-> NoSpan]
Quiet == [pc |-> "idle", slot |-> NoSlot, span |-> NoSpan]
NoLine == [meta |-> <<>>, payload |-> <<>>, fields |-> <<>>, marker |-> FALSE,
           whole |-> <<>>, size |-> 0]

-----------------------------------------------------------------------------
(* The capture layer *)

\* The spans a thread may be in.
Enterable == {s \in Spans : spans[s].st = "open"} \cup {NoSpan}

\* on_new_span(): the text is put into the pool, then the span is inserted;
\* nothing is inserted when the pool is full.
NewSpan(s, parent, text) ==
    /\ spans[s].st = "new" /\ \A r \in Spans : r < s => spans[r].st # "new"
    /\ IF FreeSlots = {}
       THEN /\ spans' = [spans EXCEPT ![s].st = "closed"]
            /\ UNCHANGED pool
       ELSE /\ pool' = [pool EXCEPT ![FreeSlot] = text]
            /\ spans' = [spans EXCEPT ![s] = [slot |-> FreeSlot, parent |-> parent,
                                              st |-> "open"]]
    /\ UNCHANGED <<thread, channel, logger, line, counts>>

\* on_record(): with the span locked, a longer text replaces the old one.
ReplaceText(s, i, text) ==
    LET old == spans[s].slot
    IN  pool' = [pool EXCEPT ![i] = pool[old] \o text, ![old] = NoText]

Record(s, text) ==
    /\ spans[s].st = "open" /\ FreeSlots # {}
    /\ Len(pool[spans[s].slot] \o text) <= MaxText
    /\ ReplaceText(s, FreeSlot, text)
    /\ spans' = [spans EXCEPT ![s].slot = FreeSlot]
    /\ UNCHANGED <<thread, channel, logger, line, counts>>

\* on_close(): the span is removed, then its text.
RemoveSpan(s) ==
    /\ spans[s].st = "open" /\ \A t \in Threads : thread[t].span # s
    /\ \A r \in Spans : spans[r].st = "open" => spans[r].parent # s
    /\ spans' = [spans EXCEPT ![s].st = "removed"]
    /\ UNCHANGED <<pool, thread, channel, logger, line, counts>>

ClearSpan(s) ==
    /\ spans[s].st = "removed"
    /\ pool' = [pool EXCEPT ![spans[s].slot] = NoText]
    /\ spans' = [spans EXCEPT ![s] = [slot |-> NoSlot, parent |-> NoSpan,
                                      st |-> "closed"]]
    /\ UNCHANGED <<thread, channel, logger, line, counts>>

\* on_event(): the text is put into the pool...
Prepare(t, span, text) ==
    /\ thread[t].pc = "idle" /\ counts.events < MaxEvents
    /\ IF FreeSlots = {}
       THEN /\ counts' = [counts EXCEPT !.events = @ + 1, !.lost = @ + 1]
            /\ UNCHANGED <<pool, thread>>
       ELSE /\ pool' = [pool EXCEPT ![FreeSlot] = text]
            /\ thread' = [thread EXCEPT ![t] = [pc |-> "send", slot |-> FreeSlot,
                                                span |-> span]]
            /\ counts' = [counts EXCEPT !.events = @ + 1]
    /\ UNCHANGED <<spans, channel, logger, line>>

\* ...the event is sent without waiting; the text of an event that does not get
\* into the channel is removed.
EventTextKept(t, sent) == pool' = pool

EventText(t, sent) ==
    pool' = IF sent THEN pool ELSE [pool EXCEPT ![thread[t].slot] = NoText]

Emit(t) ==
    /\ thread[t].pc = "send"
    /\ LET sent == channel.open /\ Len(channel.queue) < ChannelSize
       IN  /\ EventText(t, sent)
           /\ channel' = IF sent
                         THEN [channel EXCEPT !.queue = Append(@,
                                 [slot |-> thread[t].slot, span |-> thread[t].span])]
                         ELSE channel
           /\ counts' = IF sent THEN [counts EXCEPT !.emitted = @ + 1]
                        ELSE [counts EXCEPT !.lost = @ + 1]
    /\ thread' = [thread EXCEPT ![t] = Quiet]
    /\ UNCHANGED <<spans, logger, line>>

-----------------------------------------------------------------------------
(* The line buffer *)

Width(text) == FoldSeq(LAMBDA w, n : w + n, 0, text)

\* safe_truncate(): the longest prefix of whole characters within `to` bytes.
SafeTruncate(text, to) ==
    LET fits == {n \in 0..Len(text) : Width(SubSeq(text, 1, n)) <= to}
    IN  SubSeq(text, 1, CHOOSE n \in fits : \A m \in fits : m <= n)


\* probe_size_limit(): the payload is cut first, then the fields, then the meta;
\* what a cut removes beyond its share is taken off the rest.
Erase(text, need) ==
    LET size == Width(text)
        share == IF size < need THEN size ELSE need
        kept == SafeTruncate(text, size - share)
        more == (size - share) - Width(kept)
        rest == need - share
    IN  [text |-> kept, need |-> IF more > rest THEN 0 ELSE rest - more]

Size(l) == Width(l.meta) + Width(l.payload) + Width(l.fields)

ProbeSizeLimit(l, max) ==
    IF Size(l) <= max
    THEN [l EXCEPT !.marker = Size(l) + MarkerSize <= max]
    ELSE LET payload == Erase(l.payload, Size(l) - max + MarkerSize)
             fields == Erase(l.fields, payload.need)
             meta == Erase(l.meta, fields.need)
             cut == [l EXCEPT !.payload = payload.text, !.fields = fields.text,
                              !.meta = meta.text]
         IN  [cut EXCEPT !.marker = Size(cut) + MarkerSize <= max]

-----------------------------------------------------------------------------
(* The logger *)

\* The texts of the span and of its ancestors, as long as they are there.
SpanTexts(span) ==
    LET Chain[s \in {NoSpan} \cup Spans] ==
          IF s = NoSpan THEN <<>>
          ELSE IF spans[s].st # "open" THEN <<>>
          ELSE pool[spans[s].slot] \o Chain[spans[s].parent]
    IN  Chain[span]

\* do_format_event()
Formatted(event) ==
    LET payload == pool[event.slot] \o SpanTexts(event.span)
    IN  [meta |-> Meta, payload |-> payload, fields |-> Fields, marker |-> FALSE,
         whole |-> Meta \o payload \o Fields, size |-> logger.size]

Receive ==
    /\ logger.pc = "idle" /\ channel.queue # <<>>
    /\ logger' = [logger EXCEPT !.pc = "direct", !.event = Head(channel.queue)]
    /\ channel' = [channel EXCEPT !.queue = Tail(@)]
    /\ UNCHANGED <<pool, spans, thread, line, counts>>

\* DirectWrite::try_commit(): a line that does not fit is dropped.
DirectWrite ==
    /\ logger.pc = "direct"
    /\ LET l == Formatted(logger.event)
       IN  IF Size(l) > logger.size
           THEN /\ logger' = [logger EXCEPT !.pc = "truncate"]
                /\ UNCHANGED line
           ELSE /\ line' = l
                /\ logger' = [logger EXCEPT !.pc = "clear"]
    /\ UNCHANGED <<pool, spans, thread, channel, counts>>

\* TruncatingWrite::try_commit(): formatted anew.
TruncatingWrite ==
    /\ logger.pc = "truncate"
    /\ line' = ProbeSizeLimit(Formatted(logger.event), logger.size)
    /\ logger' = [logger EXCEPT !.pc = "clear"]
    /\ UNCHANGED <<pool, spans, thread, channel, counts>>

\* The text is removed from the pool and the line is written; the logger
\* panics and is started again when the file cannot be written.
WriteLine(fails) ==
    /\ logger.pc = "clear"
    /\ pool' = [pool EXCEPT ![logger.event.slot] = NoText]
    /\ line' = NoLine
    /\ counts' = IF fails THEN [counts EXCEPT !.failed = @ + 1]
                 ELSE [counts EXCEPT !.written = @ + 1]
    /\ logger' = [logger EXCEPT !.pc = "idle", !.event = NoEvent]
    /\ UNCHANGED <<spans, thread, channel>>

\* ConfigUpdated, Terminate; the end of the channel or of the mailbox.
ConfigUpdated(size) ==
    /\ logger.pc = "idle"
    /\ logger' = [logger EXCEPT !.size = size]
    /\ UNCHANGED <<pool, spans, thread, channel, line, counts>>

Terminate ==
    /\ logger.pc = "idle" /\ channel.open
    /\ channel' = [channel EXCEPT !.open = FALSE]
    /\ UNCHANGED <<pool, spans, thread, logger, line, counts>>

Finish ==
    /\ logger.pc = "idle" /\ ~channel.open /\ channel.queue = <<>>
    /\ logger' = [logger EXCEPT !.pc = "gone"]
    /\ UNCHANGED <<pool, spans, thread, channel, line, counts>>

LoggingInit ==
    /\ pool = [i \in PoolIds |-> NoText]
    /\ spans = [s \in Spans |-> [slot |-> NoSlot, parent |-> NoSpan, st |-> "new"]]
    /\ thread = [t \in Threads |-> Quiet]
    /\ channel = [queue |-> <<>>, open |-> TRUE]
    /\ \E size \in LineSizes : logger = [pc |-> "idle", event |-> NoEvent, size |-> size]
    /\ line = NoLine
    /\ counts = [events |-> 0, lost |-> 0, emitted |-> 0, written |-> 0, failed |-> 0]

LoggingNext ==
    \/ \E s \in Spans : \/ RemoveSpan(s) \/ ClearSpan(s)
                        \/ \E text \in Texts :
                             \/ Record(s, text)
                             \/ \E p \in Enterable : NewSpan(s, p, text)
    \/ \E t \in Threads : \/ Emit(t)
                          \/ \E s \in Enterable, text \in Texts : Prepare(t, s, text)
    \/ Receive \/ DirectWrite \/ TruncatingWrite \/ (\E fails \in BOOLEAN : WriteLine(fails))
    \/ \E size \in LineSizes : ConfigUpdated(size)
    \/ Terminate \/ Finish

LoggingSpec == LoggingInit /\ [][LoggingNext]_loggingVars

-----------------------------------------------------------------------------
\* The slots that spans, sent events, events being sent and the logger own.
Owned(i) ==
    Cardinality({s \in Spans : spans[s].slot = i})
    + Cardinality({t \in Threads : thread[t].slot = i})
    + Cardinality({n \in DOMAIN channel.queue : channel.queue[n].slot = i})
    + (IF logger.event.slot = i THEN 1 ELSE 0)

\* A text of the pool has exactly one owner, so that it is neither leaked nor
\* missing when the logger reads it (expect("unknown string")), and an event
\* that was emitted is in the channel, with the logger or written.
LogConserved ==
    /\ \A i \in PoolIds : Owned(i) = (IF pool[i] = NoText THEN 0 ELSE 1)
    /\ counts.emitted = counts.written + counts.failed + Len(channel.queue)
                        + (IF logger.event = NoEvent THEN 0 ELSE 1)
    /\ counts.events = counts.emitted + counts.lost
                       + Cardinality({t \in Threads : thread[t].pc = "send"})

=============================================================================
