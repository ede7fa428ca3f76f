----------------------------- MODULE Envelopes -----------------------------
(***************************************************************************)
(* Who owns the memory of a message (elfo-core/src/envelope.rs, message.rs, *)
(* message/any.rs, message/repr.rs).  A message is a value of its own type, *)
(* the contents of an AnyMessage, or part of an Envelope; raw allocations   *)
(* are moved between these forms by hand.  The header of an envelope owns   *)
(* the ResponseToken of a request.                                          *)
(***************************************************************************)
EXTENDS Integers, FiniteSets

CONSTANTS
    Types,   \* the message types, each with a vtable
    RawBlocks,  \* what the allocator may return
    SlotIds, \* variables of the program, each owns at most one value
    MaxData  \* bound: messages ever made

ASSUME EnvelopesAssumption == MaxData \in Nat

VARIABLES
    memory, \* heap, dropped: data whose destructor has run, made: data so far,
            \* bad: undefined behaviour has happened, leaked: blocks nobody
            \* will free, request: remainder of the requester's entry
    owners  \* SlotIds -> what the variable owns

envelopeVars == <<memory, owners>>

Nothing == [what |-> "nothing"]
FreeBlock == [live |-> FALSE, layout |-> <<>>, vtable |-> "none", data |-> 0,
              kind |-> "none"]
MessageKinds == {"Regular", "RequestAll"}

\* `repr_layout` of the vtable, and envelope_repr_layout() of it.
ReprLayout(type) == <<"repr", type>>
EnvelopeLayout(type) == <<"envelope", type>>

-----------------------------------------------------------------------------
\* alloc() gives a block that is not in use, dealloc() needs the layout again.
FreeBlocks == {b \in RawBlocks : ~memory.heap[b].live}

Alloc(m, b, layout) ==
    [m EXCEPT !.heap[b] = [FreeBlock EXCEPT !.live = TRUE, !.layout = layout]]

Dealloc(m, b, layout) ==
    [m EXCEPT !.heap[b] = FreeBlock,
              !.bad = @ \/ ~m.heap[b].live \/ m.heap[b].layout # layout]

\* Access to the message of a block: it has to be there.
Access(m, b) == [m EXCEPT !.bad = @ \/ ~m.heap[b].live \/ m.heap[b].data = 0]

\* A destructor runs.
DropData(m, d) == [m EXCEPT !.dropped = @ \cup {d},
                            !.bad = @ \/ d = 0 \/ d \in m.dropped]

\* ResponseToken::drop() answers for a token which is not forgotten.
DropKind(m, kind) ==
    IF kind = "RequestAll" THEN [m EXCEPT !.request = @ - 1] ELSE m

\* _vtable(), through the block unless the message has its own type.
TypeOf(m, o) == IF o.what = "real" THEN o.type ELSE m.heap[o.block].vtable
DataOf(m, o) == IF o.what = "real" THEN o.data ELSE m.heap[o.block].data

\* Faulty: the AnyMessage is only forgotten.
WriteForgetting(m, o, b) ==
    [m EXCEPT !.heap[b].vtable = TypeOf(m, o), !.heap[b].data = DataOf(m, o)]

\* _write(): AnyMessage copies its bytes and frees its own block.
WriteMessage(m, o, b) ==
    LET written == [m EXCEPT !.heap[b].vtable = TypeOf(m, o),
                             !.heap[b].data = DataOf(m, o)]
    IN  IF o.what = "real" THEN written
        ELSE Dealloc(Access(written, o.block), o.block,
                     ReprLayout(m.heap[o.block].vtable))

\* _read() of a block as the type it has: the value moves to the caller.
ReadReal(m, b) ==
    [what |-> "real", type |-> m.heap[b].vtable, data |-> m.heap[b].data]

\* _read() as an AnyMessage copies the bytes to a block of its own.
ReadAny(m, b, to) ==
    LET new == Alloc(Access(m, b), to, ReprLayout(m.heap[b].vtable))
    IN  [new EXCEPT !.heap[to].vtable = m.heap[b].vtable,
                    !.heap[to].data = m.heap[b].data]

\* vtable.clone into a block: the next number is the new message.
CloneInto(m, from, to) ==
    [Access(m, from) EXCEPT !.made = @ + 1,
        !.heap[to].vtable = m.heap[from].vtable, !.heap[to].data = m.made + 1]

\* Envelope::drop: the message, the header with the token, the block.
DropEnvelope(m, b) ==
    Dealloc(DropKind(DropData(Access(m, b), m.heap[b].data), m.heap[b].kind),
            b, EnvelopeLayout(m.heap[b].vtable))

\* AnyMessage::drop.
DropAny(m, b) ==
    Dealloc(DropData(Access(m, b), m.heap[b].data), b,
            ReprLayout(m.heap[b].vtable))

\* Faulty: the envelope is not forgotten, so its destructor runs as well.
UnpackUncheckedNoForget(m, b) == DropEnvelope(Access(m, b), b)

\* unpack_unchecked() after the message and the kind are read out.
UnpackUnchecked(m, b) ==
    Dealloc(Access(m, b), b, EnvelopeLayout(m.heap[b].vtable))

\* Faulty: the bits of the token are copied.
DuplicateKindCopied(m, kind) == m

\* duplicate() of a local token counts it in the requester's entry.
DuplicateKind(m, kind) ==
    IF kind = "RequestAll" THEN [m EXCEPT !.request = @ + 1] ELSE m

-----------------------------------------------------------------------------
\* The program makes a message.
NewMessage(s, type) ==
    /\ owners[s] = Nothing /\ memory.made < MaxData
    /\ memory' = [memory EXCEPT !.made = @ + 1]
    /\ owners' = [owners EXCEPT ![s] = [what |-> "real", type |-> type,
                                        data |-> memory.made + 1]]

\* Envelope::with_trace_id.  resolve() makes the entry of a request first;
\* AnyMessage is no Request.
NewEnvelope(s, kind, b) ==
    /\ owners[s].what \in {"real", "any"} /\ b \in FreeBlocks
    /\ kind = "RequestAll" => owners[s].what = "real" /\ memory.request = 0
    /\ LET new == Alloc(memory, b, EnvelopeLayout(TypeOf(memory, owners[s]))) IN
       memory' = WriteMessage([new EXCEPT !.heap[b].kind = kind,
                           !.request = IF kind = "RequestAll" THEN 1 ELSE @],
                       owners[s], b)
    /\ owners' = [owners EXCEPT ![s] = [what |-> "envelope", block |-> b]]

\* AnyMessage::new of a message that is not one already.
NewAny(s, b) ==
    /\ owners[s].what = "real" /\ b \in FreeBlocks
    /\ memory' = WriteMessage(Alloc(memory, b, ReprLayout(owners[s].type)), owners[s], b)
    /\ owners' = [owners EXCEPT ![s] = [what |-> "any", block |-> b]]

\* AnyMessage::downcast: with another type the AnyMessage is given back.
Downcast(s, type) ==
    /\ owners[s].what = "any" /\ TypeOf(memory, owners[s]) = type
    /\ LET b == owners[s].block IN
       /\ owners' = [owners EXCEPT ![s] = ReadReal(memory, b)]
       /\ memory' = Dealloc(Access(memory, b), b, ReprLayout(type))

\* AnyMessage::clone.
Clone(s, t, b) ==
    /\ owners[s].what = "any" /\ owners[t] = Nothing /\ b \in FreeBlocks
    /\ memory.made < MaxData
    /\ memory' = CloneInto(Alloc(memory, b, ReprLayout(TypeOf(memory, owners[s]))),
                           owners[s].block, b)
    /\ owners' = [owners EXCEPT ![t] = [what |-> "any", block |-> b]]

\* _erase(): a clone of the message for the dump.
EraseMessage(s, t) ==
    /\ owners[s].what \in {"real", "any", "envelope"} /\ owners[t] = Nothing
    /\ memory.made < MaxData
    /\ LET m == IF owners[s].what = "real" THEN memory
                ELSE Access(memory, owners[s].block)
       IN  memory' = [m EXCEPT !.made = @ + 1]
    /\ owners' = [owners EXCEPT ![t] = [what |-> "real", data |-> memory.made + 1,
                                        type |-> TypeOf(memory, owners[s])]]

\* Envelope::duplicate.
Duplicate(s, t, b) ==
    /\ owners[s].what = "envelope" /\ owners[t] = Nothing /\ b \in FreeBlocks
    /\ memory.made < MaxData
    /\ LET from == owners[s].block
           kind == memory.heap[from].kind
           new == Alloc(memory, b, EnvelopeLayout(TypeOf(memory, owners[s])))
           header == DuplicateKind([new EXCEPT !.heap[b].kind = kind], kind)
       IN  memory' = CloneInto(header, from, b)
    /\ owners' = [owners EXCEPT ![t] = [what |-> "envelope", block |-> b]]

\* Envelope::set_message: the replaced message is dropped.
SetMessage(s, t) ==
    /\ owners[s].what = "envelope" /\ owners[t].what = "real"
    /\ TypeOf(memory, owners[s]) = owners[t].type
    /\ LET b == owners[s].block IN
       memory' = DropData([Access(memory, b) EXCEPT !.heap[b].data = owners[t].data],
                          memory.heap[b].data)
    /\ owners' = [owners EXCEPT ![t] = Nothing]

\* Where the kind goes which unpacking gives: a token to `t`, if it is kept.
TokenOf(kind) == IF kind = "RequestAll" THEN [what |-> "token"] ELSE Nothing

\* Envelope::unpack: an envelope with another type is dropped.
Unpack(s, t, type) ==
    /\ owners[s].what = "envelope" /\ owners[t] = Nothing /\ s # t
    /\ LET b == owners[s].block IN
       IF TypeOf(memory, owners[s]) # type
       THEN /\ memory' = DropEnvelope(memory, b)
            /\ owners' = [owners EXCEPT ![s] = Nothing]
       ELSE /\ memory' = UnpackUnchecked(memory, b)
            /\ owners' = [owners EXCEPT ![s] = ReadReal(memory, b),
                                        ![t] = TokenOf(memory.heap[b].kind)]

\* The same as an AnyMessage, which has every type.
UnpackAny(s, t, b) ==
    /\ owners[s].what = "envelope" /\ owners[t] = Nothing /\ s # t
    /\ b \in FreeBlocks
    /\ LET from == owners[s].block IN
       /\ memory' = UnpackUnchecked(ReadAny(memory, from, b), from)
       /\ owners' = [owners EXCEPT ![s] = [what |-> "any", block |-> b],
                                   ![t] = TokenOf(memory.heap[from].kind)]

\* msg! with a regular pattern: the token of a request is dropped, received.
UnpackRegular(s) ==
    /\ owners[s].what = "envelope"
    /\ LET b == owners[s].block IN
       /\ memory' = DropKind(UnpackUnchecked(memory, b), memory.heap[b].kind)
       /\ owners' = [owners EXCEPT ![s] = ReadReal(memory, b)]

\* msg! with a request pattern: a message that was only sent has a
\* forgotten token.
UnpackRequest(s, t) ==
    /\ owners[s].what = "envelope" /\ owners[t] = Nothing /\ s # t
    /\ LET b == owners[s].block IN
       /\ memory' = UnpackUnchecked(memory, b)
       /\ owners' = [owners EXCEPT ![s] = ReadReal(memory, b),
                                   ![t] = TokenOf(memory.heap[b].kind)]

\* Context::respond of a token that is not forgotten.
RespondTo(s) ==
    /\ owners[s].what = "token"
    /\ memory' = DropKind(memory, "RequestAll")
    /\ owners' = [owners EXCEPT ![s] = Nothing]

\* AnyMessage::read_msgpack and Deserialize of a registered type.  When the
\* contents cannot be decoded, `?` returns with the block allocated.
ReadMsgpack(s, type, b) ==
    /\ owners[s] = Nothing /\ b \in FreeBlocks /\ memory.made < MaxData
    /\ LET new == Alloc(memory, b, ReprLayout(type)) IN
       \/ /\ memory' = [new EXCEPT !.made = @ + 1, !.heap[b].vtable = type,
                                   !.heap[b].data = memory.made + 1]
          /\ owners' = [owners EXCEPT ![s] = [what |-> "any", block |-> b]]
       \/ /\ memory' = [new EXCEPT !.leaked = @ \cup {b}]
          /\ UNCHANGED owners

\* The variable goes out of scope.
DropOwner(s) ==
    /\ owners[s] # Nothing
    /\ memory' = CASE owners[s].what = "real" -> DropData(memory, owners[s].data)
                   [] owners[s].what = "any" -> DropAny(memory, owners[s].block)
                   [] owners[s].what = "envelope" ->
                         DropEnvelope(memory, owners[s].block)
                   [] owners[s].what = "token" -> DropKind(memory, "RequestAll")
    /\ owners' = [owners EXCEPT ![s] = Nothing]

EnvelopesInit ==
    /\ memory = [heap |-> [b \in RawBlocks |-> FreeBlock], dropped |-> {},
                 made |-> 0, bad |-> FALSE, leaked |-> {}, request |-> 0]
    /\ owners = [s \in SlotIds |-> Nothing]

EnvelopesNext ==
    \/ \E s \in SlotIds : UnpackRegular(s) \/ RespondTo(s) \/ DropOwner(s)
    \/ \E s \in SlotIds, type \in Types : NewMessage(s, type) \/ Downcast(s, type)
    \/ \E s \in SlotIds, b \in RawBlocks : \/ NewAny(s, b)
                                      \/ \E kind \in MessageKinds : NewEnvelope(s, kind, b)
                                      \/ \E type \in Types : ReadMsgpack(s, type, b)
    \/ \E s, t \in SlotIds : \/ EraseMessage(s, t) \/ SetMessage(s, t) \/ UnpackRequest(s, t)
                           \/ \E type \in Types : Unpack(s, t, type)
                           \/ \E b \in RawBlocks : \/ Clone(s, t, b) \/ Duplicate(s, t, b)
                                                \/ UnpackAny(s, t, b)

EnvelopesSpec == EnvelopesInit /\ [][EnvelopesNext]_envelopeVars

-----------------------------------------------------------------------------
\* What owns the block `b`, and where the message `d` is.
OwnersOf(b) ==
    {s \in SlotIds : owners[s].what \in {"any", "envelope"} /\ owners[s].block = b}
PlacesOf(d) ==
    {s \in SlotIds : owners[s].what = "real" /\ owners[s].data = d}
    \cup {b \in RawBlocks : memory.heap[b].live /\ memory.heap[b].data = d}

\* However envelopes and AnyMessages are converted into each other, every
\* block is freed once, by its only owner and with the layout it was allocated
\* with, and every message is in one place until its destructor runs, once.
\* Only a failed decoding leaves a block behind.
MemorySound ==
    /\ ~memory.bad
    /\ \A b \in RawBlocks :
          /\ Cardinality(OwnersOf(b)) =
                IF memory.heap[b].live /\ b \notin memory.leaked THEN 1 ELSE 0
          /\ \A s \in OwnersOf(b) :
                memory.heap[b].layout = IF owners[s].what = "any"
                                        THEN ReprLayout(memory.heap[b].vtable)
                                        ELSE EnvelopeLayout(memory.heap[b].vtable)
    /\ \A d \in 1..memory.made :
          Cardinality(PlacesOf(d)) = IF d \in memory.dropped THEN 0 ELSE 1

\* The requester waits for as many answers as there are tokens: no conversion,
\* copy or drop of an envelope loses a token or counts it twice.
TokensCounted ==
    memory.request =
        Cardinality({b \in RawBlocks : memory.heap[b].live
                                    /\ memory.heap[b].kind = "RequestAll"})
        + Cardinality({s \in SlotIds : owners[s].what = "token"})
=============================================================================
