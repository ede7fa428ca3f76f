-------------------------- MODULE RateLimiterProofs --------------------------
(***************************************************************************)
(* What the rate limiter grants is bounded, for every set of limits, any    *)
(* number of threads and any interleaving of acquire() and configure().     *)
(***************************************************************************)
EXTENDS RateLimiter, TLAPS

\* The values the variables take; the part of the induction that does not need
\* the window.
RateTypeOK ==
    /\ step \in Nat
    /\ step \notin {Unlimited, Disabled} => step \in MinStep..MaxStep
    /\ period \in 0..MaxPeriod
    /\ vtime \in Nat /\ clock \in Nat
    /\ setting \in (0..MaxPeriod) \cup {-1}
    /\ window \in [since : Nat, granted : Nat, cost : Nat]
    /\ acquirer \in [Acquirers -> [pc : {"idle", "period", "clock", "update"},
                                   step : Nat, period : 0..MaxPeriod, now : Nat]]

RateInduction == RateTypeOK /\ RateInv

\* One more grant costs at least MinStep.
LEMMA OneMore ==
    ASSUME NEW n \in Nat, NEW m \in Nat
    PROVE  /\ (n + 1) * m = n * m + m
           /\ n * m \in Nat
           /\ 0 * m = 0
  BY SMT

\* A new limiter satisfies the induction hypothesis (RateLimiter::new()).
LEMMA RateBase == RateInit => RateInduction
<1> SUFFICES ASSUME RateInit PROVE RateInduction
  OBVIOUS
<1>1. PICK s \in Settings : step = s.step /\ period = s.period
  BY DEF RateInit
<1>2. RateTypeOK
  BY <1>1, RateAssumption DEF RateInit, RateTypeOK, NotAcquiring
<1>3. RateInv
  BY <1>1, RateAssumption, OneMore DEF RateInit, RateInv, NotAcquiring
<1> QED
  BY <1>2, <1>3 DEF RateInduction

\* configure(): neither of its stores touches what was granted.
LEMMA ConfigureKeeps ==
    ASSUME RateInduction,
           StorePeriod \/ (\E s \in Settings : StoreStep(s))
    PROVE  RateInduction'
<1>1. CASE StorePeriod
  <2>1. RateTypeOK'
    BY <1>1, RateAssumption DEF RateInduction, RateTypeOK, StorePeriod
  <2>2. RateInv'
    BY <1>1 DEF RateInduction, RateInv, StorePeriod
  <2> QED
    BY <2>1, <2>2 DEF RateInduction
<1>2. ASSUME NEW s \in Settings, StoreStep(s)
      PROVE  RateInduction'
  <2>1. RateTypeOK'
    BY <1>2, RateAssumption DEF RateInduction, RateTypeOK, StoreStep
  <2>2. RateInv'
    BY <1>2 DEF RateInduction, RateInv, StoreStep
  <2> QED
    BY <2>1, <2>2 DEF RateInduction
<1> QED
  BY <1>1, <1>2

\* acquire() up to the update: the loads give a thread a step and a period of
\* some limit and a time that is not in the future.
LEMMA LoadsKeep ==
    ASSUME RateInduction, NEW a \in Acquirers,
           LoadStep(a) \/ LoadPeriod(a) \/ ReadClock(a)
    PROVE  RateInduction'
<1> DEFINE Acquiring == [pc : {"idle", "period", "clock", "update"},
                         step : Nat, period : 0..MaxPeriod, now : Nat]
<1>1. /\ acquirer \in [Acquirers -> Acquiring]
      /\ step \in Nat /\ period \in 0..MaxPeriod /\ clock \in Nat
      /\ step \notin {Unlimited, Disabled} => step \in MinStep..MaxStep
  BY DEF RateInduction, RateTypeOK
<1>2. UNCHANGED <<step, period, vtime, clock, setting, window>>
  BY DEF LoadStep, LoadPeriod, ReadClock
\* What thread a knows afterwards.
<1>3. PICK c \in Acquiring :
          /\ acquirer' = [acquirer EXCEPT ![a] = c]
          /\ c.pc \in {"period", "clock", "update"} => c.step \in MinStep..MaxStep
          /\ c.pc = "update" => c.now <= clock
  <2>1. acquirer[a] \in Acquiring
    BY <1>1
  <2>2. acquirer[a].pc \in {"period", "clock", "update"} =>
            acquirer[a].step \in MinStep..MaxStep
    BY DEF RateInduction, RateInv
  <2>3. CASE LoadStep(a)
    <3> DEFINE d == [acquirer[a] EXCEPT !.pc = "period", !.step = step]
    <3>1. d \in Acquiring /\ d.pc = "period" /\ d.step = step
      BY Zenon, <1>1, <2>1
    <3>2. acquirer' = [acquirer EXCEPT ![a] = d] /\ step \in MinStep..MaxStep
      BY Zenon, <1>1, <2>1, <2>3 DEF LoadStep
    <3> QED
      BY Zenon, <3>1, <3>2
  <2>4. CASE LoadPeriod(a)
    <3> DEFINE d == [acquirer[a] EXCEPT !.pc = "clock", !.period = period]
    <3>1. d \in Acquiring /\ d.pc = "clock" /\ d.step = acquirer[a].step
      BY Zenon, <1>1, <2>1
    <3>2. acquirer' = [acquirer EXCEPT ![a] = d] /\ acquirer[a].pc = "period"
      BY Zenon, <1>1, <2>1, <2>4 DEF LoadPeriod
    <3> QED
      BY Zenon, <2>2, <3>1, <3>2
  <2>5. CASE ReadClock(a)
    <3> DEFINE d == [acquirer[a] EXCEPT !.pc = "update", !.now = clock]
    <3>1. /\ d \in Acquiring /\ d.pc = "update" /\ d.step = acquirer[a].step
          /\ d.now = clock
      BY Zenon, <1>1, <2>1
    <3>2. acquirer' = [acquirer EXCEPT ![a] = d] /\ acquirer[a].pc = "clock"
      BY Zenon, <1>1, <2>1, <2>5 DEF ReadClock
    <3>3. clock <= clock
      BY <1>1
    <3> QED
      BY Zenon, <2>2, <3>1, <3>2, <3>3
  <2> QED
    BY <2>3, <2>4, <2>5
<1>4. RateTypeOK'
  <2>1. acquirer' \in [Acquirers -> Acquiring]
    BY <1>1, <1>3
  <2> QED
    BY <1>2, <2>1 DEF RateInduction, RateTypeOK
<1>5. RateInv'
  <2>1. \A b \in Acquirers :
            /\ acquirer'[b].pc \in {"period", "clock", "update"} =>
                   acquirer'[b].step \in MinStep..MaxStep
            /\ acquirer'[b].pc = "update" => acquirer'[b].now <= clock
    <3> SUFFICES ASSUME NEW b \in Acquirers
                 PROVE  /\ acquirer'[b].pc \in {"period", "clock", "update"} =>
                               acquirer'[b].step \in MinStep..MaxStep
                        /\ acquirer'[b].pc = "update" => acquirer'[b].now <= clock
      OBVIOUS
    <3>1. acquirer'[b] = IF b = a THEN c ELSE acquirer[b]
      <4> HIDE DEF Acquiring
      <4> QED
        BY <1>1, <1>3
    <3>2. /\ acquirer[b].pc \in {"period", "clock", "update"} =>
                 acquirer[b].step \in MinStep..MaxStep
          /\ acquirer[b].pc = "update" => acquirer[b].now <= clock
      BY DEF RateInduction, RateInv
    <3> HIDE DEF Acquiring
    <3> QED
      BY <1>3, <3>1, <3>2
  <2> QED
    BY <1>2, <2>1 DEF RateInduction, RateInv
<1> QED
  BY <1>4, <1>5 DEF RateInduction

\* fetch_update(): a grant charges the virtual time, which was still before the
\* deadline, so what was charged before it fits into the window and a period.
LEMMA UpdateKeeps ==
    ASSUME RateInduction, NEW a \in Acquirers, FetchUpdate(a)
    PROVE  RateInduction'
<1> DEFINE c == acquirer[a]
           counted == vtime < c.now + c.period /\ c.now >= window.since
<1>1. /\ c.step \in Nat /\ c.step >= MinStep
      /\ c.now \in Nat /\ c.now <= clock
      /\ c.period \in Nat /\ c.period <= MaxPeriod
  BY RateAssumption DEF RateInduction, RateTypeOK, RateInv, FetchUpdate
<1>2. /\ vtime \in Nat /\ clock \in Nat /\ window.since \in Nat
      /\ window.granted \in Nat /\ window.cost \in Nat
      /\ MinStep \in Nat /\ MaxPeriod \in Nat /\ MaxPeriod > 0
  BY RateAssumption DEF RateInduction, RateTypeOK
<1>3. /\ vtime' = IF vtime < c.now + c.period THEN Charged(c.now, c.step) ELSE vtime
      /\ window' = IF counted
                   THEN [window EXCEPT !.granted = @ + 1, !.cost = @ + c.step]
                   ELSE window
      /\ clock' = clock
      /\ acquirer' = [acquirer EXCEPT ![a] = NotAcquiring]
  BY DEF FetchUpdate
<1>4. vtime' \in Nat /\ vtime' >= vtime
  BY <1>1, <1>2, <1>3 DEF Charged
<1>5. RateTypeOK'
  <2>1. window' \in [since : Nat, granted : Nat, cost : Nat]
    <3>1. window \in [since : Nat, granted : Nat, cost : Nat]
      BY DEF RateInduction, RateTypeOK
    <3>2. window.granted + 1 \in Nat /\ window.cost + c.step \in Nat
      BY <1>1, <1>2
    <3> HIDE DEF c, counted
    <3> QED
      BY Zenon, <1>3, <3>1, <3>2
  <2>2. acquirer' \in [Acquirers -> [pc : {"idle", "period", "clock", "update"},
                                     step : Nat, period : 0..MaxPeriod, now : Nat]]
    BY <1>3, RateAssumption DEF RateInduction, RateTypeOK, NotAcquiring
  <2> QED
    BY <1>4, <2>1, <2>2 DEF RateInduction, RateTypeOK, FetchUpdate
<1>6. \A b \in Acquirers :
          /\ acquirer'[b].pc \in {"period", "clock", "update"} =>
                 acquirer'[b].step \in MinStep..MaxStep
          /\ acquirer'[b].pc = "update" => acquirer'[b].now <= clock'
  BY <1>3 DEF RateInduction, RateInv, RateTypeOK, NotAcquiring
<1>7. CASE counted
  <2>1. /\ window'.since = window.since
        /\ window'.granted = window.granted + 1
        /\ window'.cost = window.cost + c.step
    BY <1>3, <1>7 DEF RateInduction, RateTypeOK
  <2>2. vtime' = Charged(c.now, c.step)
    BY <1>3, <1>7
  <2>3. window.granted * MinStep \in Nat
        /\ window'.granted * MinStep = window.granted * MinStep + MinStep
        /\ (window'.granted - 1) * MinStep = window.granted * MinStep
    <3>1. window'.granted - 1 = window.granted
      BY <1>2, <2>1
    <3> QED
      BY <1>2, <2>1, <3>1, OneMore
  <2>4. /\ window.granted * MinStep <= window.cost
        /\ window.granted > 0 => window.since + window.cost <= vtime
        /\ window.since <= clock
    BY DEF RateInduction, RateInv
  <2>5. window.granted = 0 => window.granted * MinStep = 0
    BY <1>2, OneMore
  <2> DEFINE before == window.granted * MinStep
             after == window'.granted * MinStep
             last == (window'.granted - 1) * MinStep
  <2>6. after <= window'.cost
    <3>1. /\ before \in Nat /\ after = before + MinStep
          /\ before <= window.cost
      BY <2>3, <2>4
    <3> HIDE DEF before, after, c
    <3> QED
      BY <1>1, <1>2, <2>1, <3>1
  <2>7. window.granted = 0 => window.cost = 0
    BY DEF RateInduction, RateInv
  <2>8. window'.since + window'.cost <= vtime'
    BY SMTT(30), <1>1, <1>2, <1>7, <2>1, <2>2, <2>4, <2>7 DEF Charged
  <2>9. last < (clock' - window'.since) + MaxPeriod
    <3>1. /\ before \in Nat /\ last = before /\ before <= window.cost
          /\ window.granted = 0 => before = 0
          /\ vtime < c.now + c.period /\ c.now >= window.since
      BY <1>7, <2>3, <2>4, <2>5
    <3>2. clock' = clock
      BY <1>3
    <3> HIDE DEF before, last, c
    <3>3. CASE window.granted = 0
      BY <1>1, <1>2, <2>1, <3>1, <3>2, <3>3
    <3>4. CASE window.granted > 0
      BY <1>1, <1>2, <2>1, <2>4, <3>1, <3>2, <3>4
    <3> QED
      BY <1>2, <3>3, <3>4
  <2>10. window'.since <= clock' /\ (window'.granted = 0 => window'.cost = 0)
    BY <1>2, <1>3, <2>1, <2>4
  <2> QED
    BY <1>5, <1>6, <2>6, <2>8, <2>9, <2>10 DEF RateInduction, RateInv
<1>8. CASE ~counted
  <2>1. window' = window
    BY <1>3, <1>8
  <2>2. window.granted > 0 => window.since + window.cost <= vtime'
    BY <1>2, <1>4 DEF RateInduction, RateInv
  <2>3. RateInv'
    BY Zenon, <1>3, <1>6, <2>1, <2>2 DEF RateInduction, RateInv
  <2> QED
    BY <1>5, <2>3 DEF RateInduction
<1> QED
  BY <1>7, <1>8

\* Every step of the limiter, of the clock and of the observer keeps the
\* induction hypothesis.
LEMMA RateStep == RateInduction /\ [RateNext]_rateVars => RateInduction'
<1> SUFFICES ASSUME RateInduction, [RateNext]_rateVars PROVE RateInduction'
  OBVIOUS
<1>1. CASE RateTime
  <2>1. RateTypeOK'
    BY <1>1 DEF RateInduction, RateTypeOK, RateTime
  <2>2. window.granted * MinStep \in Int /\ (window.granted - 1) * MinStep \in Int
    BY RateAssumption DEF RateInduction, RateTypeOK
  <2>3. /\ clock \in Nat /\ clock' = clock + 1 /\ window.since \in Nat
        /\ MaxPeriod \in Nat
    BY <1>1, RateAssumption DEF RateInduction, RateTypeOK, RateTime
  <2>4. window.granted > 0 =>
          (window'.granted - 1) * MinStep < (clock' - window'.since) + MaxPeriod
    BY <1>1, <2>2, <2>3 DEF RateInduction, RateInv, RateTime
  <2>5. RateInv'
    BY <1>1, <2>3, <2>4 DEF RateInduction, RateInv, RateTypeOK, RateTime
  <2> QED
    BY <2>1, <2>5 DEF RateInduction
<1>2. CASE Observe
  <2>1. RateTypeOK'
    BY <1>2 DEF RateInduction, RateTypeOK, Observe
  <2>2. RateInv'
    BY <1>2, RateAssumption, OneMore
    DEF RateInduction, RateInv, RateTypeOK, Observe
  <2> QED
    BY <2>1, <2>2 DEF RateInduction
<1>3. CASE UNCHANGED rateVars
  BY <1>3 DEF rateVars, RateInduction, RateTypeOK, RateInv
<1> QED
  BY <1>1, <1>2, <1>3, ConfigureKeeps, LoadsKeep, UpdateKeeps DEF RateNext

\* The number of grants in any window of time is bounded by the window and one
\* period over the smallest step: acquire() of elfo-utils's rate limiter.
THEOREM RateIsBounded == RateSpec => []RateBounded
<1>1. RateInduction => RateBounded
  BY DEF RateInduction, RateInv, RateBounded
<1> QED
  BY <1>1, RateBase, RateStep, PTL DEF RateSpec
=============================================================================
