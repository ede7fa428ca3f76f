-------------------------- MODULE EnvelopeChannel --------------------------
(***************************************************************************)
(* What a socket of elfo-network promises to the worker that owns it: the   *)
(* envelopes that the writing half has accepted come out of the reading     *)
(* half of the peer, each once, unchanged and in order.                     *)
(***************************************************************************)
EXTENDS Sequences

CONSTANT Envelope

VARIABLES
    queue,   \* accepted and not yet handed to the reader
    got      \* the last envelope handed to the reader

\* Nothing has been sent.
Init == queue = <<>> /\ got = <<>>

Put == \E e \in Envelope : queue' = Append(queue, e) /\ UNCHANGED got

Get == queue # <<>> /\ got' = <<Head(queue)>> /\ queue' = Tail(queue)

Spec == Init /\ [][Put \/ Get]_<<queue, got>>
=============================================================================
