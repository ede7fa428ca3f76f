----------------------------- MODULE RateLimiter -----------------------------
(***************************************************************************)
(* RateLimiter (elfo-utils): a leaky bucket (GCRA) of three atomics.  Any   *)
(* thread acquires while another one reconfigures; the loads and stores of  *)
(* acquire() and configure() interleave.                                    *)
(***************************************************************************)
EXTENDS Integers

CONSTANTS
    Limits,       \* RateLimit values: [limit, period]
    Acquirers,    \* threads that call acquire()
    MinStep, MaxStep, MaxPeriod,   \* bounds of what Limits stands for
    Disabled,     \* the step that stands for u64::MAX
    Horizon       \* bound: the clock

\* The step that stands for no limit.
Unlimited == 0

\* calculate_step()
CalculateStep(limit, period) ==
    IF limit = 0 THEN Disabled
    ELSE IF limit >= period THEN Unlimited
    ELSE (period - 1) \div limit + 1

\* RateLimit::step_and_period()
StepAndPeriod(l) == [step |-> CalculateStep(l.limit, l.period), period |-> l.period]

Settings == {StepAndPeriod(l) : l \in Limits}

ASSUME RateAssumption ==
    /\ MinStep \in Nat /\ MaxStep \in Nat /\ MaxPeriod \in Nat \ {0} /\ Horizon \in Nat
    /\ \A s \in Settings :
          /\ s.step \in Nat /\ s.period \in 0..MaxPeriod
          /\ s.step \notin {Unlimited, Disabled} => s.step \in MinStep..MaxStep

VARIABLES
    step, period, vtime,   \* the atomics
    clock,                 \* nanos_since_unknown_epoch()
    setting,               \* configure(): the period still to be stored, or -1
    acquirer,              \* Acquirers -> [pc, step, period, now]
    window                 \* when a window began, the grants since and their steps

rateVars == <<step, period, vtime, clock, setting, acquirer, window>>

NotAcquiring == [pc |-> "idle", step |-> 0, period |-> 0, now |-> 0]

-----------------------------------------------------------------------------
\* configure(): two stores.
StoreStep(s) ==
    /\ setting = -1
    /\ step' = s.step
    /\ setting' = s.period
    /\ UNCHANGED <<period, vtime, clock, acquirer, window>>

StorePeriod ==
    /\ setting # -1
    /\ period' = setting
    /\ setting' = -1
    /\ UNCHANGED <<step, vtime, clock, acquirer, window>>

\* acquire(): the step is loaded; the special cases return at once.
LoadStep(a) ==
    /\ acquirer[a].pc = "idle"
    /\ step \notin {Unlimited, Disabled}
    /\ acquirer' = [acquirer EXCEPT ![a].pc = "period", ![a].step = step]
    /\ UNCHANGED <<step, period, vtime, clock, setting, window>>

\* The period is loaded and the clock is read.
LoadPeriod(a) ==
    /\ acquirer[a].pc = "period"
    /\ acquirer' = [acquirer EXCEPT ![a].pc = "clock", ![a].period = period]
    /\ UNCHANGED <<step, period, vtime, clock, setting, window>>

ReadClock(a) ==
    /\ acquirer[a].pc = "clock"
    /\ acquirer' = [acquirer EXCEPT ![a].pc = "update", ![a].now = clock]
    /\ UNCHANGED <<step, period, vtime, clock, setting, window>>

\* An idle bucket is not brought up to the clock.
ChargedPlainly(now, cost) == vtime + cost

\* fetch_update(): granted unless the deadline has passed.
Charged(now, cost) == (IF vtime < now THEN now ELSE vtime) + cost

FetchUpdate(a) ==
    /\ acquirer[a].pc = "update"
    /\ LET c == acquirer[a]
           granted == vtime < c.now + c.period
       IN  /\ vtime' = IF granted THEN Charged(c.now, c.step) ELSE vtime
           /\ window' = IF granted /\ c.now >= window.since
                        THEN [window EXCEPT !.granted = @ + 1, !.cost = @ + c.step]
                        ELSE window
    /\ acquirer' = [acquirer EXCEPT ![a] = NotAcquiring]
    /\ UNCHANGED <<step, period, clock, setting>>

RateTime ==
    /\ clock < Horizon
    /\ clock' = clock + 1
    /\ UNCHANGED <<step, period, vtime, setting, acquirer, window>>

\* An observer begins a window.
Observe ==
    /\ window' = [since |-> clock, granted |-> 0, cost |-> 0]
    /\ UNCHANGED <<step, period, vtime, clock, setting, acquirer>>

\* RateLimiter::new()
RateInit ==
    /\ \E s \in Settings : step = s.step /\ period = s.period
    /\ vtime = 0 /\ clock = 0 /\ setting = -1
    /\ acquirer = [a \in Acquirers |-> NotAcquiring]
    /\ window = [since |-> 0, granted |-> 0, cost |-> 0]

RateNext ==
    \/ \E s \in Settings : StoreStep(s)
    \/ StorePeriod
    \/ \E a \in Acquirers : LoadStep(a) \/ LoadPeriod(a) \/ ReadClock(a) \/ FetchUpdate(a)
    \/ RateTime \/ Observe

RateSpec == RateInit /\ [][RateNext]_rateVars

-----------------------------------------------------------------------------
\* In any window of time the limiter grants at most what the window and one
\* period hold, however many threads acquire and whatever mixture of the old
\* and the new limit they load (acquire(), configure()).
RateBounded ==
    window.granted > 0 =>
      (window.granted - 1) * MinStep < (clock - window.since) + MaxPeriod

\* The inductive strengthening: the virtual time has been charged for every
\* grant of the window.
RateInv ==
    /\ window.since <= clock
    /\ window.granted * MinStep <= window.cost
    /\ window.granted = 0 => window.cost = 0
    /\ window.granted > 0 =>
          /\ window.since + window.cost <= vtime
          /\ (window.granted - 1) * MinStep < (clock - window.since) + MaxPeriod
    /\ \A a \in Acquirers :
          /\ acquirer[a].pc \in {"period", "clock", "update"} =>
                 acquirer[a].step \in MinStep..MaxStep
          /\ acquirer[a].pc = "update" => acquirer[a].now <= clock
=============================================================================
