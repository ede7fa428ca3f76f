------------------------------- MODULE Pinger -------------------------------
(***************************************************************************)
(* The pinger actor: on each tick of its interval it pings one more group,  *)
(* with a timeout, while it goes on taking envelopes; a group that does not *)
(* answer raises the pinger's status to ALARMING.  The request and its      *)
(* timeout are an answer that may come, late or never.                      *)
(***************************************************************************)
EXTENDS Naturals, Sequences, FiniteSets

CONSTANTS Locals,   \* the local groups, in the order of the topology
          Self,     \* the pinger's own group
          MaxTicks  \* bound: ticks

VARIABLES pinger,   \* the locals of `exec` and the actor's status
          round     \* who was pinged and who was silent: now and in the round before

pingerVars == <<pinger, round>>

Others(g) == g # Self

CollectGroups == SelectSeq(Locals, Others)

NoRound == [pinged |-> {}, silent |-> {}]

\* Nothing to ping: the pinger terminates at once.
PingerInit ==
    /\ pinger = [at |-> IF CollectGroups = <<>> THEN "ended" ELSE "running",
                 groups |-> CollectGroups, alarming |-> FALSE, status |-> "Normal",
                 timedOut |-> 0, pinging |-> "none", ticks |-> 0, period |-> 0]
    /\ round = [now |-> NoRound, before |-> NoRound]

\* A round that is over clears the alarm if all the groups have answered.
NextRound(p) ==
    IF p.groups # <<>> THEN p
    ELSE [p EXCEPT !.alarming = IF p.timedOut = 0 THEN FALSE ELSE @,
                   !.status   = IF p.timedOut = 0 /\ p.alarming THEN "Normal" ELSE @,
                   !.groups   = CollectGroups,
                   !.timedOut = 0]

\* `recv` gives an envelope: the period follows the configuration; a tick
\* pings the next group unless a ping is under way.
PingTick ==
    /\ pinger.at = "running" /\ pinger.ticks < MaxTicks
    /\ IF pinger.pinging # "none"
       THEN /\ pinger' = [pinger EXCEPT !.ticks = @ + 1]
            /\ UNCHANGED round
       ELSE LET p == NextRound(pinger)
                g == p.groups[Len(p.groups)]
            IN  /\ pinger' = [p EXCEPT !.groups = SubSeq(@, 1, Len(@) - 1),
                                       !.pinging = g, !.ticks = @ + 1]
                /\ round' = IF pinger.groups = <<>>
                            THEN [now    |-> [pinged |-> {g}, silent |-> {}],
                                  before |-> round.now]
                            ELSE [round EXCEPT !.now.pinged = @ \cup {g}]

\* Any other envelope, UpdateConfig among them.
Reconfigure ==
    /\ pinger.at = "running"
    /\ pinger' = [pinger EXCEPT !.period = 1 - @]
    /\ UNCHANGED round

\* An alarm that is raised but not counted.
UncountedSilence(p) == [p EXCEPT !.alarming = TRUE, !.status = "Alarming"]

Silence(p) ==
    [p EXCEPT !.timedOut = @ + 1, !.alarming = TRUE,
              !.status = IF p.alarming THEN @ ELSE "Alarming"]

\* The ping is over: answered, or the threshold has passed.
PingOver(responsive) ==
    /\ pinger.at = "running" /\ pinger.pinging # "none"
    /\ LET p == [pinger EXCEPT !.pinging = "none"]
       IN  pinger' = IF responsive THEN p ELSE Silence(p)
    /\ round' = IF responsive THEN round
                ELSE [round EXCEPT !.now.silent = @ \cup {pinger.pinging}]

\* The mailbox is closed: the loop ends, a ping under way is dropped.
PingerStops ==
    /\ pinger.at = "running"
    /\ pinger' = [pinger EXCEPT !.at = "ended", !.pinging = "none"]
    /\ UNCHANGED round

PingerNext ==
    \/ PingTick \/ Reconfigure \/ PingerStops
    \/ \E responsive \in BOOLEAN : PingOver(responsive)

PingerSpec == PingerInit /\ [][PingerNext]_pingerVars

(***************************************************************************)
(* Properties.                                                              *)
(***************************************************************************)

\* The pinger's alarm means what the operator reads from it (exec): it is on
\* exactly while a group has been silent in this round or in the one before,
\* so that one full round of answers clears it and nothing less does; and no
\* round leaves out a group, or pings it twice.
AlarmTrue ==
    /\ (pinger.status = "Alarming") <=> (round.now.silent \cup round.before.silent # {})
    /\ pinger.alarming <=> (pinger.status = "Alarming")
    /\ round.now.pinged \cap {pinger.groups[i] : i \in 1..Len(pinger.groups)} = {}
    /\ round.now.pinged \cup {pinger.groups[i] : i \in 1..Len(pinger.groups)}
         = {Locals[i] : i \in 1..Len(Locals)} \ {Self}
=============================================================================
