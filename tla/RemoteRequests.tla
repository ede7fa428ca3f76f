--------------------------- MODULE RemoteRequests ---------------------------
(***************************************************************************)
(* Requests over a data connection of elfo-network: the requesting node     *)
(* keeps a response token for every request it has written                  *)
(* (worker/requests.rs, SocketWriter and SocketReader of worker/mod.rs);    *)
(* the responding node routes the request to actors, and its writer tells   *)
(* from the number of tokens left which response is the last one.           *)
(***************************************************************************)
EXTENDS Integers, Sequences, SequencesExt, FiniteSets

CONSTANTS
    Reqs,         \* request ids, each used once
    CollectAll,   \* those that collect all responses
    Fanout        \* bound: actors that a request is routed to

ASSUME RemoteRequestsAssumption ==
    CollectAll \subseteq Reqs /\ Fanout \in Nat \ {0}

VARIABLES
    asked,     \* RequestData of the requester: [st, remainder]
    outQ,      \* requesting node: the channel to its SocketWriter
    outBatch,  \* encoded and not yet flushed
    toPeer,    \* the socket, to the responding node
    tokens,    \* OutgoingRequests::map
    visiting,  \* responding node: recipients the group visitor has left
    held,      \* tokens that actors or their mailboxes hold
    respQ,     \* the channel to its SocketWriter: responses with tokens
    respBatch, \* encoded and not yet flushed
    toUs,      \* the socket, to the requesting node
    up,        \* the connection is up
    muted,     \* history: requests with a response that was not encodable
    cut        \* history: requests that an undecodable response has ended

requestVars == <<asked, outQ, outBatch, toPeer, tokens, visiting, held, respQ,
                 respBatch, toUs, up, muted, cut>>

NoVisit == [r \in Reqs |-> 0]
Outcomes == {"Ok", "Failed", "Ignored"}

\* RequestTable::resolve of one token: an Ok ends an Any request.
Resolved(a, r, outcome) ==
    IF a[r].st # "waiting" \/ a[r].remainder = 0 THEN a
    ELSE [a EXCEPT ![r].remainder =
              IF r \notin CollectAll /\ outcome = "Ok" THEN 0 ELSE @ - 1]

\* The tokens of `rs` are dropped: each resolves its request with Failed.
DropAll(a, rs) ==
    [r \in Reqs |-> IF r \in rs THEN Resolved(a, r, "Failed")[r] ELSE a[r]]

-----------------------------------------------------------------------------
(* The requesting node *)

\* RemoteHandle::send of a request.
Ask(r) ==
    /\ asked[r].st = "new" /\ up
    /\ asked' = [asked EXCEPT ![r] = [st |-> "waiting", remainder |-> 1]]
    /\ outQ' = Append(outQ, r)
    /\ UNCHANGED <<outBatch, toPeer, tokens, visiting, held, respQ, respBatch,
                   toUs, up, muted, cut>>

\* RequestTable::wait finds the request complete, or the future is dropped.
Leave(r) ==
    /\ asked[r].st = "waiting"
    /\ asked' = [asked EXCEPT ![r] = [st |-> "left", remainder |-> 0]]
    /\ UNCHANGED <<outQ, outBatch, toPeer, tokens, visiting, held, respQ,
                   respBatch, toUs, up, muted, cut>>

\* SocketWriter: feed() and add_token(); a request that cannot be encoded
\* loses its token.
WriteRequest(encodable) ==
    /\ outQ # <<>>
    /\ LET r == Head(outQ) IN
       IF encodable
       THEN /\ outBatch' = Append(outBatch, r)
            /\ tokens' = tokens \cup {r}
            /\ UNCHANGED asked
       ELSE /\ asked' = DropAll(asked, {r})
            /\ UNCHANGED <<outBatch, tokens>>
    /\ outQ' = Tail(outQ)
    /\ UNCHANGED <<toPeer, visiting, held, respQ, respBatch, toUs, up, muted,
                   cut>>

FlushRequests ==
    /\ outBatch # <<>>
    /\ toPeer' = toPeer \o outBatch /\ outBatch' = <<>>
    /\ UNCHANGED <<asked, outQ, tokens, visiting, held, respQ, respBatch, toUs,
                   up, muted, cut>>

\* make_envelope() of a response: get_token() moves the token out with the
\* last response and duplicates it before, which adds to the remainder of a
\* request that is still there.
TakeResponse(m) ==
    LET more == IF m.last \/ asked[m.req].st # "waiting" THEN asked
                ELSE [asked EXCEPT ![m.req].remainder = @ + 1]
    IN  IF m.req \in tokens
        THEN /\ tokens' = IF m.last THEN tokens \ {m.req} ELSE tokens
             /\ asked' = Resolved(more, m.req, m.outcome)
        ELSE UNCHANGED <<tokens, asked>>

\* handle_skipped_message() of a response: it counts as the last one.
SkipResponse(m) ==
    /\ tokens' = tokens \ {m.req}
    /\ asked' = DropAll(asked, {m.req} \cap tokens)

ReadResponse(decodable) ==
    /\ toUs # <<>>
    /\ LET m == Head(toUs) IN
       /\ decodable \/ m.outcome = "Ok"
       /\ IF decodable THEN TakeResponse(m) /\ UNCHANGED cut
          ELSE SkipResponse(m) /\ cut' = cut \cup {m.req}
    /\ toUs' = Tail(toUs)
    /\ UNCHANGED <<outQ, outBatch, toPeer, visiting, held, respQ, respBatch, up,
                   muted>>

-----------------------------------------------------------------------------
(* The responding node *)

\* RemoteHandle::respond: the token goes to the writer with the response.
Respond(r, outcome) == respQ' = Append(respQ, [req |-> r, outcome |-> outcome])

\* SocketReader: a request is routed to `n` actors; one that cannot be
\* decoded, or that nobody gets, is answered with Failed.
ReadRequest(n) ==
    /\ toPeer # <<>> /\ visiting = NoVisit
    /\ LET r == Head(toPeer) IN
       IF n = 0 THEN Respond(r, "Failed") /\ UNCHANGED visiting
       ELSE visiting' = [visiting EXCEPT ![r] = n] /\ UNCHANGED respQ
    /\ toPeer' = Tail(toPeer)
    /\ UNCHANGED <<asked, outQ, outBatch, tokens, held, respBatch, toUs, up,
                   muted, cut>>

\* visit() gives a duplicate away, visit_last() the envelope itself.  A
\* recipient that has gone drops it.
Visit(r, alive) ==
    /\ visiting[r] > 0
    /\ visiting' = [visiting EXCEPT ![r] = @ - 1]
    /\ IF alive THEN held' = [held EXCEPT ![r] = @ + 1] /\ UNCHANGED respQ
       ELSE Respond(r, "Failed") /\ UNCHANGED held
    /\ UNCHANGED <<asked, outQ, outBatch, toPeer, tokens, respBatch, toUs, up,
                   muted, cut>>

\* An actor responds, or drops its token: unread, or ignored.
Answer(r, outcome) ==
    /\ held[r] > 0
    /\ held' = [held EXCEPT ![r] = @ - 1]
    /\ IF up THEN Respond(r, outcome) ELSE UNCHANGED respQ
    /\ UNCHANGED <<asked, outQ, outBatch, toPeer, tokens, visiting, respBatch,
                   toUs, up, muted, cut>>

\* ResponseToken: the number of copies.
StrongCount(r) ==
    held[r] + (IF visiting[r] > 0 THEN 1 ELSE 0)
            + Len(SelectSeq(respQ, LAMBDA m : m.req = r))


\* ResponseToken::is_last
IsLast(r) == StrongCount(r) <= 1

\* make_network_envelope() forgets the token, then feed(): a response that
\* cannot be encoded is gone.
WriteResponse(encodable) ==
    /\ respQ # <<>>
    /\ LET m == Head(respQ) IN
       IF encodable
       THEN /\ respBatch' = Append(respBatch, [req |-> m.req,
                   outcome |-> m.outcome, last |-> IsLast(m.req)])
            /\ UNCHANGED muted
       ELSE /\ m.outcome = "Ok"
            /\ muted' = muted \cup {m.req}
            /\ UNCHANGED respBatch
    /\ respQ' = Tail(respQ)
    /\ UNCHANGED <<asked, outQ, outBatch, toPeer, tokens, visiting, held, toUs,
                   up, cut>>

FlushResponses ==
    /\ respBatch # <<>>
    /\ toUs' = toUs \o respBatch /\ respBatch' = <<>>
    /\ UNCHANGED <<asked, outQ, outBatch, toPeer, tokens, visiting, held, respQ,
                   up, muted, cut>>

\* The connection is lost: both workers end, OutgoingRequests and the
\* channels are dropped with the tokens in them.
Disconnect ==
    /\ up /\ up' = FALSE /\ visiting = NoVisit
    /\ asked' = DropAll(asked, Range(outQ) \cup tokens)
    /\ tokens' = {}
    /\ outQ' = <<>> /\ outBatch' = <<>> /\ toPeer' = <<>>
    /\ respQ' = <<>> /\ respBatch' = <<>> /\ toUs' = <<>>
    /\ UNCHANGED <<visiting, held, muted, cut>>

-----------------------------------------------------------------------------
RequestsInit ==
    /\ asked = [r \in Reqs |-> [st |-> "new", remainder |-> 0]]
    /\ outQ = <<>> /\ outBatch = <<>> /\ toPeer = <<>> /\ tokens = {}
    /\ visiting = NoVisit /\ held = [r \in Reqs |-> 0]
    /\ respQ = <<>> /\ respBatch = <<>> /\ toUs = <<>>
    /\ up = TRUE /\ muted = {} /\ cut = {}

RequestsNext ==
    \/ \E r \in Reqs : \/ Ask(r) \/ Leave(r)
                       \/ \E alive \in BOOLEAN : Visit(r, alive)
                       \/ \E outcome \in Outcomes : Answer(r, outcome)
    \/ \E ok \in BOOLEAN : \/ WriteRequest(ok) \/ ReadResponse(ok)
                           \/ WriteResponse(ok)
    \/ \E n \in 0..Fanout : ReadRequest(n)
    \/ FlushRequests \/ FlushResponses \/ Disconnect

RequestsSpec == RequestsInit /\ [][RequestsNext]_requestVars

-----------------------------------------------------------------------------
\* Responses to `r` on their way back.
Coming(r) == SelectSeq(toUs \o respBatch, LAMBDA m : m.req = r)

\* Where the request still is on its way to the actors, or the tokens are.
OnItsWay(r) == r \in Range(outBatch) \cup Range(toPeer) \/ StrongCount(r) > 0

=============================================================================
