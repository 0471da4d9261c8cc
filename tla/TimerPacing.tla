------------------------------ MODULE TimerPacing ------------------------------
(***************************************************************************)
(* When a timer thread calls back: the deadlines PeriodicTimerMain keeps   *)
(* in adapters/runtime_compat.cpp, as timespecs of CLOCK_MONOTONIC.        *)
(* The start and the stop of the thread are the subject of TimerPool.      *)
(***************************************************************************)
EXTENDS Integers, Sequences

CONSTANTS
  MsPerSec,   \* 1000
  NsPerMs,    \* 1000000
  Periods,    \* values of period_ms
  Starts,     \* times, in nanoseconds, at which the thread may start
  MaxTime     \* bound: the last time of a behaviour

ASSUME PacingAssumption ==
  /\ MsPerSec \in Nat \ {0} /\ NsPerMs \in Nat \ {0}
  /\ Periods \subseteq Nat \ {0}      \* timeSetEvent refuses a delay of 0
  /\ Starts \subseteq Nat /\ MaxTime \in Nat

VARIABLES
  now,        \* the clock
  period,     \* period_ms
  deadline,   \* the local of PeriodicTimerMain
  phase,      \* "sleep" in clock_nanosleep, "calling" in the callback
  began,      \* history: when each callback began, in nanoseconds
  start       \* history: when the thread started, in nanoseconds

pacingVars == <<now, period, deadline, phase, began, start>>

NsPerSec == MsPerSec * NsPerMs
Timespec == [sec : Nat, nsec : 0 .. NsPerSec - 1]

\* The nanoseconds a timespec stands for, and the timespec of so many nanoseconds.
Ns(t) == t.sec * NsPerSec + t.nsec
OfNs(n) == [sec |-> n \div NsPerSec, nsec |-> n % NsPerSec]

\* Mutant: the carry into the seconds is forgotten.
AddNoCarry(t, ms) ==
  [sec |-> t.sec + ms \div MsPerSec, nsec |-> t.nsec + (ms % MsPerSec) * NsPerMs]

AddMilliseconds(t, ms) ==
  LET sec == t.sec + ms \div MsPerSec
      nsec == t.nsec + (ms % MsPerSec) * NsPerMs
  IN  IF nsec >= NsPerSec THEN [sec |-> sec + 1, nsec |-> nsec - NsPerSec]
                          ELSE [sec |-> sec, nsec |-> nsec]

DeadlinePassed(d, t) == d.sec < t.sec \/ (d.sec = t.sec /\ d.nsec <= t.nsec)

\* Mutant: a late timer catches up.
RearmCatchUp == AddMilliseconds(deadline, period)

\* The deadline after a callback: one period on, or one period from now if that
\* has already passed; the missed ticks are dropped.
Rearm ==
  LET next == AddMilliseconds(deadline, period) IN
  IF DeadlinePassed(next, now) THEN AddMilliseconds(now, period) ELSE next

PacingInit ==
  /\ start \in Starts /\ period \in Periods
  /\ now = OfNs(start)
  /\ deadline = AddMilliseconds(now, period)
  /\ phase = "sleep"
  /\ began = <<>>

\* Time passes, for the thread as for everybody: sleep, scheduling and callbacks
\* take as long as they take.
Advance ==
  /\ Ns(now) < MaxTime
  /\ now' = OfNs(Ns(now) + 1)
  /\ UNCHANGED <<period, deadline, phase, began, start>>

\* clock_nanosleep returns at or after the deadline (EINTR sleeps again); call back.
Wake ==
  /\ phase = "sleep" /\ DeadlinePassed(deadline, now)
  /\ phase' = "calling"
  /\ began' = Append(began, Ns(now))
  /\ UNCHANGED <<now, period, deadline, start>>

\* The callback has returned: the next deadline.
Rest ==
  /\ phase = "calling"
  /\ deadline' = Rearm
  /\ phase' = "sleep"
  /\ UNCHANGED <<now, period, began, start>>

PacingNext == Advance \/ Wake \/ Rest

PacingSpec == PacingInit /\ [][PacingNext]_pacingVars

------------------------------------------------------------------------------
(* Properties *)

\* Both timespecs are normalised, which clock_nanosleep requires (EINVAL otherwise:
\* the sleep would return at once and the thread would spin).
PacingTypeOK ==
  /\ now \in Timespec /\ deadline \in Timespec
  /\ period \in Periods /\ start \in Starts
  /\ phase \in {"sleep", "calling"}
  /\ began \in Seq(Nat)

PeriodNs == period * NsPerMs

\* The timer is never ahead of the clock: the n-th callback begins no earlier than
\* n periods after the start.
NeverAhead == \A i \in 1 .. Len(began) : began[i] >= start + i * PeriodNs

\* A late timer does not catch up with a burst: of n callbacks that follow one
\* another, the last begins more than n - 2 periods after the first.
NoBurst ==
  \A i, j \in 1 .. Len(began) : i < j => began[j] > began[i] + (j - i - 1) * PeriodNs
==============================================================================
