----------------------------- MODULE DriftControl ------------------------------
(***************************************************************************)
(* The sleep of seqgenex0's Sequencer, compiled with DRIFT_CONTROL and     *)
(* ABS_DELAY: each cycle is shortened by what the cycle before it took too *)
(* long, a little magnified, and by a bias, and slept to an absolute time  *)
(* of a seconds and a nanoseconds part.  A tick of this module stands for  *)
(* 1/Sec second, in the program a nanosecond.                              *)
(***************************************************************************)
EXTENDS Integers

CONSTANTS
  Sec,      \* ticks in a second (NANOSEC_PER_SEC)
  Dt,       \* the period (RTSEQ_DELAY_NSEC)
  Bias,     \* CLOCK_BIAS_NANOSEC
  Uncertainty, \* DT_SCALING_UNCERTAINTY_NANOSEC
  Rounding, \* bound: how far a double of seconds may be from the clock it reads
  Exec,     \* bound: ticks that may pass between two readings of the clock
  Latency,  \* bound: ticks from the end of a sleep to the next instruction
  Cycles,   \* bound: sequencePeriods
  Steps,    \* bound: what the clock may be set forward or back by
  MaxSets   \* bound: times it is set

(* The period, 10 ms, is at most a third of a second, and the magnification*)
(* 1.0005 is at most 2: what drift control makes of the period is at most  *)
(* a second, and needs no second carry.                                    *)
ASSUME DriftAssumption ==
  /\ Sec \in Nat \ {0} /\ Dt \in Nat \ {0} /\ Rounding \in Nat
  /\ 3 * Dt + 4 * Rounding <= Sec
  /\ Bias \in 0 .. Dt /\ Uncertainty \in 0 .. Sec
  /\ Exec \in Nat /\ Latency \in Nat
  /\ Cycles \in Nat \ {0}
  /\ Steps \subseteq Int /\ MaxSets \in Nat

\* Cycles after which a clock that was set no longer matters.
Recovery == 3

VARIABLES
  pc,       \* "top", "compute", "sleep", "release", "done"
  clock,    \* CLOCK_REALTIME, in ticks
  current,  \* current_time
  last,     \* last_time
  delay,    \* what drift control makes of the period
  asked,    \* the instant it amounts to, a history variable
  target,   \* delay_time: the absolute time of that instant
  seqCnt,
  sets,     \* times the clock was set
  since,    \* cycles ended since, up to Recovery, a history variable
  calm,     \* cycles that ended, one after the other, since one was disturbed
  base      \* last_time and current_time where they began; both are history

cycle   == <<current, last, delay, asked, target, seqCnt>>
setting == <<sets, since>>
stretch == <<calm, base>>
vars    == <<pc, clock, cycle, setting, stretch>>

Instant(ts) == ts.sec * Sec + ts.nsec

\* clock_nanosleep takes 0 <= tv_nsec < NANOSEC_PER_SEC and returns EINVAL
\* for any other.
Accepted(ts) == ts.nsec \in 0 .. Sec - 1

\* A reading of the clock in a double, whose last digit is worth 238 ns.
Readings(t) == t - Rounding .. t + Rounding

\* The first reading, and some time for the log line after it.
Init == /\ pc = "top"
        /\ clock \in 3 * Sec .. 4 * Sec - 1
        /\ \E e \in 0 .. Exec : current \in Readings(clock - e)
        /\ last = current - Dt
        /\ delay = Dt
        /\ asked = clock
        /\ target = [sec |-> 0, nsec |-> Dt]
        /\ seqCnt = 0
        /\ sets = 0 /\ since = Recovery
        /\ calm = 0 /\ base = [last |-> last, current |-> current]

(* The cycle that ends slept as long as it was told to, and was told to    *)
(* make up for the cycle before it: the clock was left alone for Recovery  *)
(* cycles, the kernel took the instant, and it lay ahead.                  *)
Undisturbed == /\ seqCnt > 0 /\ since >= Recovery
               /\ target.nsec # Sec /\ delay >= 0

\* current_time=getTimeMsec()
ReadTime == /\ pc = "top"
            /\ current' \in Readings(clock)
            /\ \E e \in 0 .. Exec : clock' = clock + e
            /\ pc' = "compute"
            /\ IF Undisturbed
                 THEN calm' = calm + 1 /\ UNCHANGED base
                 ELSE calm' = 0 /\ base' = [last |-> last, current |-> current']
            /\ UNCHANGED <<last, delay, asked, target, seqCnt, setting>>

\* A double assigned to a long: its fraction is dropped.
Truncate(a, b) == IF a >= 0 THEN a \div b ELSE 0 - ((0 - a) \div b)

\* scale_dt: how much too long the cycle was.
ScaleDt == (current - last) - Dt

\* Mutants of Adjusted: what the cycle took too long is added; it is counted
\* from the biased period.
AdjustedWrongSign ==
  Truncate(Sec * (Dt - Bias) + (Sec + Uncertainty) * ScaleDt, Sec)
AdjustedTwice ==
  Truncate(Sec * (Dt - Bias) - 2 * (Sec + Uncertainty) * ScaleDt, Sec)

(* delay_time.tv_nsec under DRIFT_CONTROL: seconds too long, times         *)
(* NANOSEC_PER_SEC + DT_SCALING_UNCERTAINTY_NANOSEC.                       *)
Adjusted == Truncate(Sec * (Dt - Bias) - (Sec + Uncertainty) * ScaleDt, Sec)

\* if(delay_time.tv_nsec > NANOSEC_PER_SEC)
Normalize(ts) ==
  IF ts.nsec > Sec THEN [sec |-> ts.sec + 1, nsec |-> ts.nsec - Sec] ELSE ts

\* The second reading of the clock, and the sum.
Compute ==
  /\ pc = "compute"
  /\ delay' = Adjusted
  /\ asked' = clock + delay'
  /\ target' = Normalize([sec  |-> clock \div Sec,
                          nsec |-> (clock % Sec) + delay'])
  /\ \E e \in 0 .. Exec : clock' = clock + e
  /\ pc' = "sleep"
  /\ UNCHANGED <<current, last, seqCnt, setting, stretch>>

\* The sleep ends at its time, or at once when that has passed.
SleepEnds ==
  /\ pc = "sleep" /\ Accepted(target)
  /\ LET end == IF Instant(target) > clock THEN Instant(target) ELSE clock IN
       clock' \in end .. end + Latency
  /\ pc' = "release"
  /\ UNCHANGED <<cycle, setting, stretch>>

\* Mutant of Interrupted: an interrupted sleep counts as slept.
InterruptedEndsSleep ==
  /\ pc = "sleep" /\ Accepted(target)
  /\ clock' \in clock .. Instant(target) - 1
  /\ pc' = "release"
  /\ UNCHANGED <<cycle, setting, stretch>>

\* EINTR: the loop sleeps again, to the same absolute time.
Interrupted ==
  /\ pc = "sleep" /\ Accepted(target)
  /\ clock' \in clock .. Instant(target) - 1
  /\ UNCHANGED <<pc, cycle, setting, stretch>>

\* EINVAL is positive: neither EINTR nor less than 0, so the loop is left.
Refused ==
  /\ pc = "sleep" /\ ~Accepted(target)
  /\ pc' = "release"
  /\ UNCHANGED <<clock, cycle, setting, stretch>>

\* Mutant of Release: one cycle too many.
ReleaseInclusive ==
  /\ pc = "release"
  /\ last' = current
  /\ seqCnt' = seqCnt + 1
  /\ pc' = IF seqCnt' <= Cycles THEN "top" ELSE "done"
  /\ since' = IF since < Recovery THEN since + 1 ELSE since
  /\ UNCHANGED <<clock, current, delay, asked, target, sets, stretch>>

\* The services are released (ModuloSequencer) and the cycle is over.
Release ==
  /\ pc = "release"
  /\ last' = current
  /\ seqCnt' = seqCnt + 1
  /\ pc' = IF seqCnt' < Cycles THEN "top" ELSE "done"
  /\ since' = IF since < Recovery THEN since + 1 ELSE since
  /\ UNCHANGED <<clock, current, delay, asked, target, sets, stretch>>

(* CLOCK_REALTIME is set by somebody else; a sleep to an absolute time     *)
(* follows it.                                                             *)
ClockSet ==
  /\ pc # "done" /\ sets < MaxSets
  /\ \E d \in Steps : clock + d >= 0 /\ clock' = clock + d
  /\ sets' = sets + 1
  /\ since' = 0
  /\ UNCHANGED <<pc, cycle, stretch>>

Done == pc = "done" /\ UNCHANGED vars

Next == \/ ReadTime \/ Compute
        \/ SleepEnds \/ Interrupted \/ Refused
        \/ Release \/ ClockSet \/ Done

Spec == Init /\ [][Next]_vars

--------------------------------------------------------------------------------

TypeOK == /\ pc \in {"top", "compute", "sleep", "release", "done"}
          /\ clock \in Nat /\ current \in Int /\ last \in Int
          /\ delay \in Int /\ asked \in Int
          /\ target \in [sec : Nat, nsec : Int]
          /\ seqCnt \in 0 .. Cycles
          /\ sets \in 0 .. MaxSets /\ since \in 0 .. Recovery
          /\ calm \in 0 .. Cycles
          /\ base \in [last : Int, current : Int]

(* The services are not released before the instant drift control asked    *)
(* for (line 252, "check for early wake-up"), whatever signals come and    *)
(* wherever in the second the sleep begins and ends - except when the      *)
(* nanoseconds add up to exactly one second, which line 243 does not carry *)
(* and clock_nanosleep refuses.  A clock that is set makes at most two     *)
(* more releases early: that of its own cycle and, if it is taken for a    *)
(* drift too large for line 243 to carry, the next.                        *)
EarlyOnlyAtFullSecond ==
  pc = "release" /\ since > 1 => clock >= asked \/ target.nsec = Sec

(* What drift control does to drift.  Late(t, from) is how far t is from   *)
(* calm whole periods after from.  Without drift control it would be what  *)
(* the latencies, the roundings and the bias of calm cycles come to.  With *)
(* it that is the sum of two of these, one reading apart, the earlier one  *)
(* magnified: the run drifts half as fast, however its cycles alternate.   *)
(* It does drift, and since the magnification exceeds 1 a single late      *)
(* cycle echoes in the next ones without dying out, but no combination of  *)
(* them adds up to more than this.  A disturbed cycle begins a new count.  *)
Late(t, from) == (t - from) - calm * Dt

DriftHalved ==
  pc \in {"compute", "sleep", "release"} =>
    LET drift == Sec * Late(current, base.current)
                   + (Sec + Uncertainty) * Late(last, base.last)
    IN  /\ drift >= 0 - calm * (Sec * (Bias + 2 * Rounding + 1))
        /\ drift <= calm * (Sec * (Latency + 2 * Exec + 2 * Rounding + 1 - Bias))

--------------------------------------------------------------------------------
(* What the source says and the program does not do.                       *)

(* "Delay loop with check for early wake-up" (line 252): where nobody sets *)
(* the clock, the services are never released before the instant asked for.*)
NeverEarly == pc = "release" /\ sets = 0 => clock >= asked
================================================================================
