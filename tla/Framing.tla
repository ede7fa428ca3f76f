------------------------------ MODULE Framing ------------------------------
(***************************************************************************)
(* One direction of a socket of elfo-network: the writing half with the     *)
(* loop that feeds it (socket/mod.rs, frame/write.rs, codec/encode.rs,      *)
(* SocketWriter of worker/mod.rs), the reading half of the peer             *)
(* (frame/read.rs, frame/buffers.rs, frame/lz4.rs, codec/decode.rs), and    *)
(* the handshake that chooses the strategy of both (socket/handshake.rs,    *)
(* socket/capabilities).                                                    *)
(*                                                                         *)
(* A byte is [of |-> object, at |-> index]: the index-th byte of an encoded *)
(* envelope or of a compressed frame.  Both start with a prefix that holds  *)
(* the size of the object.                                                  *)
(***************************************************************************)
EXTENDS Integers, Sequences, SequencesExt, FiniteSetsExt, TLC

CONSTANTS
    Prefix,       \* bytes of the size prefix
    Bodies,       \* lengths of an envelope after its prefix
    Blocks,       \* lengths of a compressed frame after its prefix
    Payloads,     \* [kind, last, clean]: is_last; can the peer decode it?
    Capacity,     \* capacity of a new ReadBuffer
    Threshold,    \* OUTPUT_FLUSH_THRESHOLD
    MaxEnvelopes  \* bound: envelopes sent

ASSUME FramingAssumption ==
    /\ {Prefix, Capacity, MaxEnvelopes} \subseteq Nat \ {0}
    /\ Threshold \in Nat
    /\ Bodies \subseteq Nat \ {0} /\ Blocks \subseteq Nat \ {0}

VARIABLES
    writer,     \* [lz4, buf, finalized, pc]
    stream,     \* bytes written to the socket and not yet read
    reader,     \* [lz4, buf, frame, position, pc]
    received,   \* the last envelope that ReadHalf::recv returned or skipped
    fed,        \* envelopes sent so far
    inFlight    \* history: the envelopes accepted and not yet returned

framingVars == <<writer, stream, reader, received, fed, inFlight>>

Kinds == <<"Regular", "RequestAny", "RequestAll", "ResponseOk",
           "ResponseFailed", "ResponseIgnored">>
Responses == {"ResponseOk", "ResponseFailed", "ResponseIgnored"}

\* NetworkEnvelope; ids tell them apart.
Envelopes == {[id |-> n] @@ p : p \in Payloads, n \in 1..MaxEnvelopes}

-----------------------------------------------------------------------------
(* The handshake *)

\* Compression::new: preferred implies supported.
Compression(supported, preferred) ==
    [supported |-> supported \cup preferred, preferred |-> preferred]

\* Compression::toggle of a node's setting, from an empty value.
Toggle(pref) ==
    Compression(IF pref = "Supported" THEN {"LZ4"} ELSE {},
                IF pref = "Preferred" THEN {"LZ4"} ELSE {})

\* Compression::intersection, Capabilities::intersection
Intersection(this, that) ==
    LET supported == this.supported \cap that.supported
        both == this.preferred \cap that.preferred
        some == (this.preferred \cup that.preferred) \cap supported
    IN  Compression(supported, IF both # {} THEN both ELSE some)

\* handshake() and Socket::new: the strategy that a node takes.
UsesLz4(this, that) == "LZ4" \in Intersection(this, that).preferred

-----------------------------------------------------------------------------
(* The codec *)

\* do_encode: flags and kind share a byte.
Encode(e, size) ==
    LET kind == (CHOOSE k \in 1..Len(Kinds) : Kinds[k] = e.kind) - 1
    IN  [size |-> size, flags |-> kind + (IF e.last THEN 128 ELSE 0),
         id |-> e.id, clean |-> e.clean]

BytesOf(object) == [i \in 1..object.size |-> [of |-> object, at |-> i]]

\* do_decode: the flag counts for responses only.
Decode(object) ==
    LET kind == Kinds[(object.flags % 16) + 1]
    IN  [id |-> object.id, kind |-> kind,
         last |-> kind \in Responses /\ object.flags >= 128,
         clean |-> object.clean]

\* The size prefix, once its bytes are there.  decode() and
\* decompress_frame() ask for `Prefix` bytes, then for the whole object.
Missing(input) ==
    IF Len(input) < Prefix THEN Prefix
    ELSE IF Len(input) < Head(input).of.size THEN Head(input).of.size
    ELSE 0

-----------------------------------------------------------------------------
(* The writing half *)

\* Faulty: what has been flushed is kept.
WriteBufferKept(w) == w.buf

\* encode() into the buffer.  NoneFramedWrite clears it first when it has
\* been finalized; LZ4FramedWrite is cleared by finalize().
WriteBuffer(w) == IF w.finalized THEN <<>> ELSE w.buf

\* FrameState::FlushAdvised
FlushAdvised(w, buf) ==
    IF w.lz4 THEN Len(buf) \div 2 > Threshold ELSE Len(buf) > Threshold

\* WriteHalf::feed of an item of the channel, in the loop of SocketWriter.
\* An envelope that cannot be encoded leaves nothing behind.
Feed(e, size) ==
    LET buf == WriteBuffer(writer) \o BytesOf(Encode(e, size))
    IN  /\ writer.pc \in {"idle", "fed"} /\ fed < MaxEnvelopes
        /\ e.id = fed + 1 /\ fed' = fed + 1
        /\ inFlight' = Append(inFlight, e)
        /\ writer' = [writer EXCEPT
               !.buf = buf, !.finalized = FALSE,
               !.pc = IF FlushAdvised(writer, buf) THEN "flush" ELSE "fed"]
        /\ UNCHANGED <<stream, reader, received>>

FeedSkipped ==
    /\ writer.pc \in {"idle", "fed"} /\ fed < MaxEnvelopes
    /\ writer' = [writer EXCEPT !.buf = WriteBuffer(writer),
                                !.finalized = FALSE, !.pc = "fed"]
    /\ fed' = fed + 1
    /\ UNCHANGED <<stream, reader, received, inFlight>>

\* finalize() and compress_frame(): a frame holds all that was accumulated.
Frame(content, size) == [size |-> size, content |-> content]

\* WriteHalf::flush, once the channel is empty or a flush is advised.
Flush(block) ==
    /\ writer.pc \in {"fed", "flush"}
    /\ IF writer.lz4
       THEN /\ stream' = stream \o BytesOf(Frame(writer.buf, Prefix + block))
            /\ writer' = [writer EXCEPT !.buf = <<>>, !.pc = "idle"]
       ELSE /\ block = Min(Blocks)
            /\ stream' = stream \o writer.buf
            /\ writer' = [writer EXCEPT !.finalized = TRUE, !.pc = "idle"]
    /\ UNCHANGED <<reader, received, fed, inFlight>>

-----------------------------------------------------------------------------
(* The reading half *)

\* ReadBuffer: the filled bytes, where they start, the length of the memory.
NewBuffer == [data |-> <<>>, start |-> 0, cap |-> Capacity]
FilledEnd(b) == b.start + Len(b.data)

ExtendFilled(b, bytes) == [b EXCEPT !.data = @ \o bytes]

ConsumeFilled(b, count) ==
    LET left == SubSeq(b.data, count + 1, Len(b.data))
    IN  [b EXCEPT !.data = left,
                  !.start = IF left = <<>> THEN 0 ELSE @ + count]

\* Faulty: the data is not moved to the front.
ExtendInPlace(b, capacity) == [b EXCEPT !.cap = Max({@, capacity})]

ExtendToContain(b, capacity) ==
    [b EXCEPT !.start = 0, !.cap = Max({@, capacity})]

\* ReadHalf::recv returns an envelope, decoded or skipped.
Return(object) ==
    /\ received' = <<Decode(object)>>
    /\ inFlight' = IF inFlight = <<>> THEN <<>> ELSE Tail(inFlight)

\* NoneFramedRead::read
ReadNone ==
    /\ reader.pc = "read" /\ ~reader.lz4
    /\ LET input == reader.buf.data
           missing == Missing(input)
       IN  IF missing > 0
           THEN /\ reader' = [reader EXCEPT !.pc = "wait",
                                  !.buf = ExtendToContain(@, missing)]
                /\ UNCHANGED <<received, inFlight>>
           ELSE /\ reader' = [reader EXCEPT
                                  !.buf = ConsumeFilled(@, Head(input).of.size)]
                /\ Return(Head(input).of)
    /\ UNCHANGED <<writer, stream, fed>>

\* LZ4FramedRead::read when the frame is used up: decompress_frame().
ReadFrame ==
    /\ reader.pc = "read" /\ reader.lz4
    /\ reader.position = Len(reader.frame)
    /\ LET input == reader.buf.data
           missing == Missing(input)
       IN  reader' = IF missing > 0
                     THEN [reader EXCEPT !.pc = "wait", !.position = 0,
                               !.frame = <<>>,
                               !.buf = ExtendToContain(@, missing)]
                     ELSE [reader EXCEPT !.position = 0,
                               !.frame = Head(input).of.content,
                               !.buf = ConsumeFilled(@, Head(input).of.size)]
    /\ UNCHANGED <<writer, stream, received, fed, inFlight>>

\* LZ4FramedRead::read inside a frame.
ReadEnvelope ==
    /\ reader.pc = "read" /\ reader.lz4
    /\ reader.position < Len(reader.frame)
    /\ LET input == SubSeq(reader.frame, reader.position + 1, Len(reader.frame))
       IN  IF Missing(input) > 0
           THEN /\ reader' = [reader EXCEPT !.pc = "truncated"]
                /\ UNCHANGED <<received, inFlight>>
           ELSE /\ reader' = [reader EXCEPT !.position = @ + Head(input).of.size]
                /\ Return(Head(input).of)
    /\ UNCHANGED <<writer, stream, fed>>

\* The room that NeedMoreData offers to the socket.
Room == reader.buf.cap - FilledEnd(reader.buf)

\* The socket yields some of the bytes, at most as many as there is room for;
\* reading none means the end of the stream.
Receive(count) ==
    /\ reader.pc = "wait" /\ count <= Min({Room, Len(stream)})
    /\ reader' = [reader EXCEPT !.pc = "read",
                      !.buf = ExtendFilled(@, SubSeq(stream, 1, count))]
    /\ stream' = SubSeq(stream, count + 1, Len(stream))
    /\ UNCHANGED <<writer, received, fed, inFlight>>

-----------------------------------------------------------------------------
FramingInit ==
    /\ \E p, q \in {"Disabled", "Supported", "Preferred"} :
          /\ writer = [lz4 |-> UsesLz4(Toggle(p), Toggle(q)), buf |-> <<>>,
                       finalized |-> FALSE, pc |-> "idle"]
          /\ reader = [lz4 |-> UsesLz4(Toggle(q), Toggle(p)), buf |-> NewBuffer,
                       frame |-> <<>>, position |-> 0, pc |-> "read"]
    /\ stream = <<>> /\ received = <<>> /\ fed = 0 /\ inFlight = <<>>

FramingNext ==
    \/ \E e \in Envelopes, body \in Bodies : Feed(e, Prefix + body)
    \/ FeedSkipped
    \/ \E block \in Blocks : Flush(block)
    \/ ReadNone \/ ReadFrame \/ ReadEnvelope
    \/ \E count \in 1..Len(stream) : Receive(count)

FramingSpec == FramingInit /\ [][FramingNext]_framingVars

-----------------------------------------------------------------------------
Channel == INSTANCE EnvelopeChannel
               WITH Envelope <- Envelopes, queue <- inFlight, got <- received

\* The two halves implement a reliable, ordered channel: whatever the sizes,
\* the batches, the strategy and the way the stream is cut into reads, every
\* accepted envelope is returned once, unchanged and in order.
FramesImplementChannel == Channel!Spec

\* The indexes of the read buffer stay in it, NeedMoreData always offers some
\* room (a read of zero bytes would be taken for the end of the stream), and
\* a frame never ends inside an envelope.
BufferSound ==
    /\ FilledEnd(reader.buf) <= reader.buf.cap
    /\ reader.pc = "wait" => Room > 0
    /\ reader.pc # "truncated"
=============================================================================
