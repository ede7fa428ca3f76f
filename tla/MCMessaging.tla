----------------------------- MODULE MCMessaging -----------------------------
(***************************************************************************)
(* What a message meets between its sender and a remote node.  These         *)
(* components do not share state and are in one model:                      *)
(* `part` says which of them moves, so that their state spaces add up.      *)
(***************************************************************************)
EXTENDS Discovery, Framing, RemoteRequests, AddressBook, Sending, Envelopes,
        Sessions, Routing

VARIABLE part

Parts == {"discovery", "frames", "requests", "book", "sending", "memory", "session", "routing"}

MCThisGroups == {[no |-> 1, name |-> "a", interests |-> {"b"}]}
MCPeerGroups == {[no |-> 2, name |-> "b", interests |-> {"a"}]}

MCPayloads == {[kind |-> "RequestAll", last |-> FALSE, clean |-> TRUE],
               [kind |-> "ResponseOk", last |-> TRUE, clean |-> FALSE]}

\* The same group of a node under an old and under a new name.
MCRemoteGroup == [w \in HandleWorkers |->
    [node |-> 2, group |-> 3, name |-> IF w = Min(HandleWorkers) THEN "old" ELSE "new"]]

MCRoutes == {<<"absent">>, <<"done">>, <<"empty">>, <<"a">>, <<"b", "c">>,
             <<"a", "b", "c">>}

\* The parts that do not move start in one state.
MessagingInit ==
    /\ part \in Parts
    /\ DiscoveryInit /\ FramingInit /\ RequestsInit /\ BookInit
    /\ SendingInit /\ EnvelopesInit /\ SessionsInit /\ RoutingInit
    /\ part # "frames" => ~writer.lz4
    /\ part # "book" => launch = Min(Launches)
    /\ part # "session" => side["client"].role = "data"
    /\ part # "routing" => router.map

MessagingNext ==
    \/ /\ part = "discovery" /\ DiscoveryNext
       /\ UNCHANGED <<part, framingVars, requestVars, bookVars,
                      sendingVars, envelopeVars, sessionVars, routingVars>>
    \/ /\ part = "frames" /\ FramingNext
       /\ UNCHANGED <<part, discoveryVars, requestVars, bookVars,
                      sendingVars, envelopeVars, sessionVars, routingVars>>
    \/ /\ part = "requests" /\ RequestsNext
       /\ UNCHANGED <<part, discoveryVars, framingVars, bookVars,
                      sendingVars, envelopeVars, sessionVars, routingVars>>
    \/ /\ part = "book" /\ BookNext
       /\ UNCHANGED <<part, discoveryVars, framingVars, requestVars,
                      sendingVars, envelopeVars, sessionVars, routingVars>>
    \/ /\ part = "sending" /\ SendingNext
       /\ UNCHANGED <<part, discoveryVars, framingVars, requestVars,
                      bookVars, envelopeVars, sessionVars, routingVars>>
    \/ /\ part = "memory" /\ EnvelopesNext
       /\ UNCHANGED <<part, discoveryVars, framingVars, requestVars,
                      bookVars, sendingVars, sessionVars, routingVars>>
    \/ /\ part = "session" /\ SessionsNext
       /\ UNCHANGED <<part, discoveryVars, framingVars, requestVars,
                      bookVars, sendingVars, envelopeVars, routingVars>>
    \/ /\ part = "routing" /\ RoutingNext
       /\ UNCHANGED <<part, discoveryVars, framingVars, requestVars,
                      bookVars, sendingVars, envelopeVars, sessionVars>>

MessagingSpec ==
    MessagingInit /\ [][MessagingNext]_<<part, discoveryVars, framingVars, requestVars,
                                         bookVars, sendingVars, envelopeVars,
                                         sessionVars, routingVars>>
=============================================================================
