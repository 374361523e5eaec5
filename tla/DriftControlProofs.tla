--------------------------- MODULE DriftControlProofs ---------------------------
(* Proofs about DriftControl, for any period of up to about a third of a   *)
(* second, any magnification of up to 2, any rounding of the readings, any *)
(* latencies, and a clock that is set any number of times by any amount.   *)
EXTENDS DriftControl, TLAPS

--------------------------------------------------------------------------------
(* Instants and their parts.                                               *)

LEMMA SplitSecond ==
  ASSUME NEW c \in Nat, NEW f \in Nat \ {0}
  PROVE  /\ c \div f \in Nat
         /\ c % f \in Nat /\ c % f < f
         /\ c % f = c - (c \div f) * f
  BY Z3

\* A carried second is the same instant.
LEMMA NormalizeKeepsInstant ==
  ASSUME NEW s \in Nat, NEW n \in Int, NEW ts,
         ts = Normalize([sec |-> s, nsec |-> n])
  PROVE  /\ ts \in [sec : Nat, nsec : Int]
         /\ Instant(ts) = s * Sec + n
         /\ n <= Sec => ts.nsec = n
         /\ n > Sec => ts.nsec = n - Sec
<1>1. CASE n > Sec
  <2>1. (s + 1) * Sec = s * Sec + Sec
    BY DriftAssumption
  <2>2. s * Sec \in Int
    BY DriftAssumption
  <2>3. ts = [sec |-> s + 1, nsec |-> n - Sec]
    BY <1>1 DEF Normalize
  <2> QED BY <1>1, <2>1, <2>2, <2>3, DriftAssumption DEF Instant
<1>2. CASE ~(n > Sec)
  <2>1. ts = [sec |-> s, nsec |-> n]
    BY <1>2 DEF Normalize
  <2> QED BY <1>2, <2>1, DriftAssumption DEF Instant
<1> QED BY <1>1, <1>2

\* What the correction comes to once its fraction is dropped.
LEMMA TruncateBounds ==
  ASSUME NEW a \in Int
  PROVE  /\ Truncate(a, Sec) \in Int
         /\ Sec * Truncate(a, Sec) > a - Sec
         /\ Sec * Truncate(a, Sec) < a + Sec
         /\ a >= 0 => Sec * Truncate(a, Sec) <= a
         /\ a < 0 => Truncate(a, Sec) <= 0
<1> DEFINE T == Truncate(a, Sec)
<1>1. CASE a >= 0
  <2>1. /\ a \div Sec \in Nat /\ a % Sec \in Nat /\ a % Sec < Sec
        /\ a % Sec = a - (a \div Sec) * Sec
    <3>1. a \in Nat
      BY <1>1
    <3> QED BY <3>1, SplitSecond, DriftAssumption
  <2>2. T = a \div Sec
    BY <1>1 DEF Truncate
  <2>3. Sec * T = (a \div Sec) * Sec /\ Sec * T \in Int
    BY <2>1, <2>2, DriftAssumption
  <2> HIDE DEF T
  <2>4. T \in Int /\ Sec * T > a - Sec /\ Sec * T < a + Sec /\ Sec * T <= a
    BY <2>1, <2>2, <2>3, DriftAssumption
  <2> QED BY <1>1, <2>4 DEF T
<1>2. CASE a < 0
  <2> DEFINE c == 0 - a
             q == c \div Sec
  <2>1. c \in Nat
    BY <1>2
  <2> HIDE DEF c
  <2>2. /\ q \in Nat /\ c % Sec \in Nat /\ c % Sec < Sec
        /\ c % Sec = c - q * Sec
    BY <2>1, SplitSecond, DriftAssumption
  <2>3. T = 0 - q
    BY <1>2 DEF Truncate, c
  <2> HIDE DEF q, T
  <2>4. Sec * T = 0 - q * Sec /\ q * Sec \in Int
    BY <2>2, <2>3, DriftAssumption
  <2>5. /\ T \in Int /\ T <= 0
        /\ Sec * T > a - Sec /\ Sec * T < a + Sec
    BY <2>2, <2>3, <2>4, DriftAssumption DEF c
  <2> QED BY <1>2, <2>5 DEF T
<1> QED BY <1>1, <1>2

\* The delay that is computed from the readings cur and lst.
DelayAfter(cur, lst) ==
  Truncate(Sec * (Dt - Bias) - (Sec + Uncertainty) * ((cur - lst) - Dt), Sec)

LEMMA DelayInt ==
  ASSUME NEW cur \in Int, NEW lst \in Int
  PROVE  DelayAfter(cur, lst) \in Int
<1> DEFINE a == Sec * (Dt - Bias) - (Sec + Uncertainty) * ((cur - lst) - Dt)
<1>1. a \in Int
  BY DriftAssumption
<1> HIDE DEF a
<1>2. Truncate(a, Sec) \in Int
  BY <1>1, TruncateBounds
<1> QED BY <1>2 DEF DelayAfter, a

\* It is at most a second if the clock did not go back between the readings.
LEMMA DelayWithinSecond ==
  ASSUME NEW cur \in Int, NEW lst \in Int, lst <= cur + 2 * Rounding
  PROVE  DelayAfter(cur, lst) <= Sec
<1> DEFINE G == Sec + Uncertainty
           e == Dt - (cur - lst)
           m == Dt + 2 * Rounding
           a == Sec * (Dt - Bias) - G * ((cur - lst) - Dt)
           d == Truncate(a, Sec)
<1>1. /\ G \in Nat /\ G <= 2 * Sec /\ e \in Int /\ m \in Nat /\ e <= m
      /\ a \in Int /\ Sec \in Nat \ {0}
  BY DriftAssumption
<1>2. a = Sec * (Dt - Bias) + G * e
  BY DriftAssumption
<1>3. Sec * (Dt - Bias) <= Sec * Dt
  BY DriftAssumption
<1>4. Sec * Dt + Sec * (2 * m) <= Sec * Sec
  <2>1. Dt + 2 * m <= Sec
    BY DriftAssumption
  <2>2. Sec * Dt + Sec * (2 * m) = Sec * (Dt + 2 * m)
    BY DriftAssumption
  <2> QED BY <2>1, <2>2, DriftAssumption
<1> HIDE DEF G, e, m
<1>5. G * e <= Sec * (2 * m)
  <2>1. G * e <= G * m
    BY <1>1
  <2>2. G * m <= (2 * Sec) * m
    BY <1>1
  <2>3. (2 * Sec) * m = Sec * (2 * m)
    BY <1>1
  <2> QED BY <1>1, <2>1, <2>2, <2>3
<1>6. a <= Sec * Sec
  BY <1>1, <1>2, <1>3, <1>4, <1>5, DriftAssumption
<1> HIDE DEF a
<1>7. /\ d \in Int
      /\ a >= 0 => Sec * d <= a
      /\ a < 0 => d <= 0
  BY <1>1, TruncateBounds
<1> HIDE DEF d
<1>8. CASE a >= 0
  <2>1. Sec * d <= Sec * Sec
    BY <1>1, <1>6, <1>7, <1>8
  <2> QED BY <1>1, <1>7, <2>1 DEF DelayAfter, d, a, G
<1>9. CASE a < 0
  BY <1>1, <1>7, <1>9 DEF DelayAfter, d, a, G
<1> QED BY <1>1, <1>8, <1>9

\* What Compute asks the kernel for is clock + delay, which the kernel takes,
\* or which has passed, or which falls on a full second, as long as the delay
\* is at most a second.
LEMMA TargetOfCompute ==
  ASSUME NEW c \in Nat, NEW d \in Int, NEW ts,
         ts = Normalize([sec |-> c \div Sec, nsec |-> (c % Sec) + d])
  PROVE  /\ ts \in [sec : Nat, nsec : Int]
         /\ Instant(ts) = c + d
         /\ d <= Sec => Accepted(ts) \/ d < 0 \/ ts.nsec = Sec
<1> DEFINE s == c \div Sec
           n == (c % Sec) + d
<1>1. /\ s \in Nat /\ n \in Int /\ ts = Normalize([sec |-> s, nsec |-> n])
      /\ n >= d /\ n < Sec + d /\ n - d = c - s * Sec /\ s * Sec \in Nat
  <2>1. /\ s \in Nat /\ c % Sec \in Nat /\ c % Sec < Sec
        /\ c % Sec = c - s * Sec
    BY SplitSecond, DriftAssumption
  <2> QED BY <2>1, DriftAssumption
<1> HIDE DEF s, n
<1>2. /\ ts \in [sec : Nat, nsec : Int]
      /\ Instant(ts) = s * Sec + n
      /\ n <= Sec => ts.nsec = n
      /\ n > Sec => ts.nsec = n - Sec
  BY <1>1, NormalizeKeepsInstant
<1>3. Instant(ts) = c + d
  BY <1>1, <1>2, DriftAssumption
<1>4. ASSUME d <= Sec, d >= 0, ts.nsec # Sec
      PROVE  Accepted(ts)
  BY <1>1, <1>2, <1>4, DriftAssumption DEF Accepted
<1> QED BY <1>2, <1>3, <1>4

--------------------------------------------------------------------------------
(* Drift, and what one more cycle adds to it.                              *)

\* The weighted lateness of two readings after n cycles that began with the
\* readings b, and its bounds.
Drift(cur, lst, b, n) ==
  Sec * ((cur - b.current) - n * Dt)
    + (Sec + Uncertainty) * ((lst - b.last) - n * Dt)

Slowest == Sec * (Bias + 2 * Rounding + 1)
Fastest == Sec * (Latency + 2 * Exec + 2 * Rounding + 1 - Bias)

Bounded(cur, lst, b, n) ==
  /\ Drift(cur, lst, b, n) >= 0 - n * Slowest
  /\ Drift(cur, lst, b, n) <= n * Fastest

\* The correction cancels what the cycle before took too long, but for the
\* bias, the fraction dropped and what this cycle itself is late.
LEMMA OneMoreCycle ==
  ASSUME NEW lst \in Int, NEW cur \in Int, NEW nxt \in Int,
         NEW b \in [last : Int, current : Int], NEW n \in Nat,
         Bounded(cur, lst, b, n),
         nxt >= cur + DelayAfter(cur, lst) - 2 * Rounding,
         nxt <= cur + DelayAfter(cur, lst) + Latency + 2 * Exec + 2 * Rounding
  PROVE  Bounded(nxt, cur, b, n + 1)
<1> DEFINE G == Sec + Uncertainty
           D == DelayAfter(cur, lst)
           a == Sec * (Dt - Bias) - G * ((cur - lst) - Dt)
           x == (cur - b.current) - n * Dt
           y == (lst - b.last) - n * Dt
           u == (nxt - cur) - Dt
           v == (cur - lst) - Dt
           L == 0 - 2 * Rounding
           H == Latency + 2 * Exec + 2 * Rounding
           lo == Bias + 2 * Rounding + 1
           hi == Latency + 2 * Exec + 2 * Rounding + 1 - Bias
<1>1. /\ G \in Nat /\ a \in Int /\ Sec \in Nat \ {0} /\ Dt \in Nat
      /\ Bias \in Nat /\ b.current \in Int /\ b.last \in Int
  BY DriftAssumption
<1>2. /\ D \in Int /\ Sec * D > a - Sec /\ Sec * D < a + Sec
  <2> HIDE DEF a
  <2>1. /\ Truncate(a, Sec) \in Int /\ Sec * Truncate(a, Sec) > a - Sec
        /\ Sec * Truncate(a, Sec) < a + Sec
    BY <1>1, TruncateBounds
  <2>2. D = Truncate(a, Sec)
    BY DEF DelayAfter, a
  <2> QED BY <2>1, <2>2
<1>3. n * Dt \in Int /\ (n + 1) * Dt = n * Dt + Dt
  BY <1>1
<1>4. /\ x \in Int /\ y \in Int /\ u \in Int /\ v \in Int
      /\ (nxt - b.current) - (n + 1) * Dt = x + u
      /\ (cur - b.last) - (n + 1) * Dt = y + v
      /\ u >= D - Dt + L /\ u <= D - Dt + H /\ L \in Int /\ H \in Int
      /\ lo \in Int /\ hi \in Int
      /\ lo = Bias - L + 1 /\ hi = H + 1 - Bias
  BY <1>1, <1>2, <1>3, DriftAssumption
<1>5. /\ Drift(cur, lst, b, n) = Sec * x + G * y
      /\ Drift(nxt, cur, b, n + 1) = Sec * (x + u) + G * (y + v)
      /\ Slowest = Sec * lo /\ Fastest = Sec * hi
      /\ a = Sec * (Dt - Bias) - G * v
  BY <1>4 DEF Drift, Slowest, Fastest
<1> HIDE DEF G, D, a, x, y, u, v, L, H, lo, hi
<1>6. /\ Sec * (x + u) = Sec * x + Sec * u /\ G * (y + v) = G * y + G * v
      /\ Sec * (Dt - Bias) = Sec * Dt - Sec * Bias
      /\ Sec * x \in Int /\ Sec * u \in Int /\ G * y \in Int /\ G * v \in Int
      /\ Sec * Dt \in Int /\ Sec * Bias \in Int /\ Sec * D \in Int
      /\ Sec * L \in Int /\ Sec * H \in Int
  BY <1>1, <1>2, <1>4
<1>7. /\ Sec * lo = Sec * Bias - Sec * L + Sec
      /\ Sec * hi = Sec * H + Sec - Sec * Bias
      /\ Sec * (D - Dt + L) = Sec * D - Sec * Dt + Sec * L
      /\ Sec * (D - Dt + H) = Sec * D - Sec * Dt + Sec * H
  BY <1>1, <1>2, <1>4
<1>8. Sec * u >= Sec * (D - Dt + L) /\ Sec * u <= Sec * (D - Dt + H)
  BY <1>1, <1>2, <1>4
<1>9. /\ Sec * u + G * v >= 0 - Sec * lo
      /\ Sec * u + G * v <= Sec * hi
  BY <1>1, <1>2, <1>5, <1>6, <1>7, <1>8
<1>10. /\ (n + 1) * Slowest = n * Slowest + Slowest
       /\ (n + 1) * Fastest = n * Fastest + Fastest
       /\ n * Slowest \in Int /\ n * Fastest \in Int
       /\ Slowest \in Int /\ Fastest \in Int
  <2>1. Slowest \in Int /\ Fastest \in Int
    BY <1>1, <1>4, <1>5
  <2> QED BY <2>1
<1>11. /\ Drift(nxt, cur, b, n + 1)
            = Drift(cur, lst, b, n) + (Sec * u + G * v)
       /\ Drift(cur, lst, b, n) \in Int
  BY <1>5, <1>6
<1> QED BY <1>5, <1>6, <1>7, <1>9, <1>10, <1>11, <1>1, <1>4 DEF Bounded

LEMMA NoCyclesNoDrift ==
  ASSUME NEW cur \in Int, NEW lst \in Int
  PROVE  Bounded(cur, lst, [last |-> lst, current |-> cur], 0)
<1> DEFINE b == [last |-> lst, current |-> cur]
<1>1. (cur - b.current) - 0 * Dt = 0 /\ (lst - b.last) - 0 * Dt = 0
  BY DriftAssumption
<1>2. Drift(cur, lst, b, 0) = 0
  BY <1>1, DriftAssumption DEF Drift
<1>3. 0 * Slowest = 0 /\ 0 * Fastest = 0
  BY DriftAssumption DEF Slowest, Fastest
<1> QED BY <1>2, <1>3 DEF Bounded

--------------------------------------------------------------------------------
(* The inductive invariant.                                                *)

Counting == /\ pc # "done" => seqCnt < Cycles
            /\ calm <= seqCnt
            /\ pc \in {"top", "done"} /\ seqCnt > 0 => calm < seqCnt

(* The readings of the clock since it was last set, each as far from it as *)
(* a double is: from the first whole cycle on the one of this cycle, from  *)
(* the second on both.                                                     *)
Read ==
  /\ pc \in {"compute", "sleep", "release"} /\ since > 0 =>
       current - Rounding <= clock
  /\ pc \in {"compute", "sleep", "release"} /\ since > 1 =>
       last - 2 * Rounding <= current
  /\ pc = "top" /\ since > 1 => last - Rounding <= clock
  /\ pc = "compute" /\ since > 0 => clock <= current + Rounding + Exec

\* What Compute made of them, ...
Request ==
  pc \in {"sleep", "release"} =>
    /\ delay = DelayAfter(current, last)
    /\ pc = "sleep" => Instant(target) = asked
    /\ since > 0 =>
         asked - delay \in current - Rounding .. current + Rounding + Exec
    /\ since > 1 => Accepted(target) \/ clock >= asked \/ target.nsec = Sec

\* ... how long the sleep took ...
Slept ==
  /\ pc = "sleep" /\ since > 0 =>
       clock <= current + Rounding + 2 * Exec \/ clock <= asked
  /\ pc = "release" /\ since > 1 =>
       /\ clock >= asked \/ target.nsec = Sec
       /\ delay >= 0 =>
            clock <= current + delay + Latency + 2 * Exec + Rounding

\* ... and how long the cycle was, when it is over.  The reading that ends it
\* is the next one taken.
Ended ==
  pc = "top" /\ since > 2 /\ seqCnt > 0 /\ target.nsec # Sec =>
    /\ clock >= last + delay - Rounding
    /\ delay >= 0 =>
         clock <= last + delay + Latency + 2 * Exec + Rounding

\* The drift so far; between two cycles last_time is the reading of the cycle
\* that ended, and the one before it is no longer kept.
Drifting ==
  /\ pc \in {"compute", "sleep", "release"} =>
       Bounded(current, last, base, calm)
  /\ pc = "top" /\ seqCnt > 0 =>
       \E lst \in Int : /\ delay = DelayAfter(last, lst)
                        /\ Bounded(last, lst, base, calm)

IInv == TypeOK /\ Counting /\ Read /\ Request /\ Slept /\ Ended /\ Drifting

--------------------------------------------------------------------------------

LEMMA InitIInv == Init => IInv
<1> SUFFICES ASSUME Init PROVE IInv
  OBVIOUS
<1> USE DriftAssumption
<1>1. /\ clock \in Nat /\ current \in Int /\ current <= clock + Rounding
      /\ last = current - Dt
  BY DEF Init, Readings
<1>2. TypeOK
  BY <1>1 DEF Init, TypeOK, Recovery
<1>3. Counting /\ Read /\ Request /\ Slept
  BY <1>1 DEF Init, Counting, Read, Request, Slept
<1>4. Ended /\ Drifting
  BY DEF Init, Ended, Drifting
<1> QED BY <1>2, <1>3, <1>4 DEF IInv

LEMMA ReadTimeKeepsIInv == IInv /\ ReadTime => IInv'
<1> SUFFICES ASSUME IInv, ReadTime PROVE IInv'
  OBVIOUS
<1> USE DriftAssumption
<1>0. /\ clock \in Nat /\ current \in Int /\ last \in Int /\ delay \in Int
      /\ calm \in Nat /\ base \in [last : Int, current : Int]
      /\ seqCnt \in Nat /\ since \in Nat /\ pc = "top"
  BY DEF IInv, TypeOK, Recovery, ReadTime
<1> DEFINE r == current'
           k == clock'
<1>1. /\ r \in Int /\ r >= clock - Rounding /\ r <= clock + Rounding
      /\ k \in Nat /\ k >= clock /\ k <= clock + Exec
  <2>1. r \in Readings(clock) /\ \E e \in 0 .. Exec : k = clock + e
    BY DEF ReadTime
  <2> HIDE DEF r, k
  <2> QED BY <1>0, <2>1 DEF Readings
<1>2. /\ pc' = "compute"
      /\ UNCHANGED <<last, delay, asked, target, seqCnt, sets, since>>
  BY DEF ReadTime, setting
<1>3. TypeOK' /\ Counting'
  <2>1. \/ Undisturbed /\ calm' = calm + 1 /\ base' = base
        \/ /\ calm' = 0
           /\ base' = [last |-> last, current |-> r]
    BY DEF ReadTime
  <2> QED BY <1>0, <1>1, <1>2, <2>1 DEF IInv, TypeOK, Counting, Undisturbed
<1>7. Read'
  <2> HIDE DEF r, k
  <2>1. /\ r - Rounding <= k
        /\ since > 1 => last - 2 * Rounding <= r
        /\ k <= r + Rounding + Exec
    BY <1>0, <1>1 DEF IInv, Read
  <2> QED BY <1>2, <2>1 DEF Read, r, k
<1>4. Request' /\ Slept' /\ Ended'
  BY <1>2 DEF Request, Slept, Ended
<1>5. Bounded(r, last, base', calm')
  <2>1. CASE Undisturbed
    <3>1. PICK lst \in Int : /\ delay = DelayAfter(last, lst)
                             /\ Bounded(last, lst, base, calm)
      BY <1>0, <2>1 DEF Undisturbed, IInv, Drifting
    <3>2. /\ clock >= last + delay - Rounding
          /\ clock <= last + delay + Latency + 2 * Exec + Rounding
      BY <1>0, <2>1 DEF Undisturbed, IInv, Ended, Recovery
    <3> HIDE DEF r, k
    <3>3. /\ r >= last + delay - 2 * Rounding
          /\ r <= last + delay + Latency + 2 * Exec + 2 * Rounding
      BY <1>0, <1>1, <3>2
    <3>4. Bounded(r, last, base, calm + 1)
      BY <1>0, <1>1, <3>1, <3>3, OneMoreCycle
    <3> QED BY <2>1, <3>4 DEF ReadTime
  <2>2. CASE ~Undisturbed
    BY <1>0, <1>1, <2>2, NoCyclesNoDrift DEF ReadTime
  <2> QED BY <2>1, <2>2
<1>6. Drifting'
  BY <1>2, <1>5 DEF Drifting
<1> QED BY <1>3, <1>4, <1>6, <1>7 DEF IInv

LEMMA ComputeKeepsIInv == IInv /\ Compute => IInv'
<1> SUFFICES ASSUME IInv, Compute PROVE IInv'
  OBVIOUS
<1> USE DriftAssumption DEF TypeOK, setting, stretch
<1>1. /\ delay' = DelayAfter(current, last)
      /\ delay' \in Int /\ asked' = clock + delay' /\ asked' \in Int
      /\ clock' \in Nat /\ clock' >= clock /\ clock' <= clock + Exec
  <2>1. delay' = DelayAfter(current, last)
    BY DEF Compute, Adjusted, ScaleDt, DelayAfter
  <2>2. delay' \in Int
    BY <2>1, DelayInt DEF IInv
  <2> QED BY <2>1, <2>2 DEF Compute, IInv
<1>2. /\ target' \in [sec : Nat, nsec : Int]
      /\ Instant(target') = asked'
      /\ delay' <= Sec => Accepted(target') \/ delay' < 0 \/ target'.nsec = Sec
  BY <1>1, TargetOfCompute DEF Compute, IInv
<1>3. TypeOK' /\ Counting'
  BY <1>1, <1>2 DEF Compute, IInv, Counting
<1>4. Read'
  BY <1>1 DEF Compute, IInv, Read
<1>5. Request'
  <2>1. Instant(target)' = asked'
    BY <1>2 DEF Instant
  <2>2. since > 0 => asked' - delay' \in current' - Rounding
                                         .. current' + Rounding + Exec
    BY <1>1 DEF Compute, IInv, Read
  <2>3. ASSUME since > 1
        PROVE  Accepted(target)' \/ clock' >= asked' \/ target'.nsec = Sec
    <3>1. delay' <= Sec
      BY <1>1, <2>3, DelayWithinSecond DEF Compute, IInv, Read
    <3>2. CASE Accepted(target')
      BY <3>2 DEF Accepted
    <3>3. CASE delay' < 0
      BY <1>1, <3>3 DEF IInv
    <3> QED BY <1>2, <3>1, <3>2, <3>3
  <2>4. /\ pc' = "sleep" /\ UNCHANGED <<current, last, since>>
    BY DEF Compute
  <2> QED BY <1>1, <2>1, <2>2, <2>3, <2>4 DEF Request
<1>6. Slept' /\ Ended'
  BY <1>1 DEF Compute, IInv, Read, Slept, Ended
<1>7. Drifting'
  BY DEF Compute, IInv, Drifting
<1> QED BY <1>3, <1>4, <1>5, <1>6, <1>7 DEF IInv

LEMMA SleepKeepsIInv == IInv /\ (SleepEnds \/ Interrupted \/ Refused) => IInv'
<1> SUFFICES ASSUME IInv, SleepEnds \/ Interrupted \/ Refused PROVE IInv'
  OBVIOUS
<1> USE DriftAssumption DEF IInv, TypeOK, Recovery, cycle, setting, stretch
<1>1. /\ pc = "sleep" /\ Instant(target) = asked
      /\ UNCHANGED <<cycle, setting, stretch>>
      /\ pc' \in {"sleep", "release"}
  BY DEF SleepEnds, Interrupted, Refused, Request
<1>2. Instant(target)' = asked' /\ (Accepted(target)' <=> Accepted(target))
  BY <1>1 DEF Instant, Accepted
<1>3. Drifting' /\ Ended'
  BY <1>1 DEF Drifting, Ended
<1>4. CASE SleepEnds
  <2>1. /\ clock' \in Nat /\ clock' >= clock /\ clock' >= asked
        /\ clock' <= clock + Latency \/ clock' <= asked + Latency
        /\ pc' = "release" /\ Accepted(target)
    BY <1>1, <1>4 DEF SleepEnds
  <2>2. TypeOK' /\ Counting'
    BY <1>1, <2>1 DEF Counting
  <2>5. Read'
    BY <1>1, <2>1 DEF Read
  <2>3. Request'
    BY <1>1, <1>2, <2>1 DEF Request
  <2>4. Slept'
    BY <1>1, <2>1 DEF Slept, Request
  <2> QED BY <1>3, <2>2, <2>3, <2>4, <2>5
<1>5. CASE Interrupted
  <2>1. clock' \in Nat /\ clock' >= clock /\ clock' < asked /\ pc' = "sleep"
    BY <1>1, <1>5 DEF Interrupted
  <2>2. TypeOK' /\ Counting'
    BY <1>1, <2>1 DEF Counting
  <2>5. Read'
    BY <1>1, <2>1 DEF Read
  <2>3. Request'
    BY <1>1, <1>2, <2>1 DEF Request
  <2>4. Slept'
    BY <1>1, <2>1 DEF Slept
  <2> QED BY <1>3, <2>2, <2>3, <2>4, <2>5
<1>6. CASE Refused
  <2>1. clock' = clock /\ pc' = "release" /\ ~Accepted(target)
    BY <1>6 DEF Refused
  <2>2. TypeOK' /\ Counting'
    BY <1>1, <2>1 DEF Counting
  <2>5. Read'
    BY <1>1, <2>1 DEF Read
  <2>3. Request'
    BY <1>1, <1>2, <2>1 DEF Request
  <2>4. Slept'
    BY <1>1, <2>1 DEF Slept, Request
  <2> QED BY <1>3, <2>2, <2>3, <2>4, <2>5
<1> QED BY <1>4, <1>5, <1>6

LEMMA ReleaseKeepsIInv == IInv /\ Release => IInv'
<1> SUFFICES ASSUME IInv, Release PROVE IInv'
  OBVIOUS
<1> USE DriftAssumption DEF IInv, TypeOK, Recovery, Release, stretch
<1>1. TypeOK' /\ Counting'
  BY DEF Counting
<1>2. Read' /\ Request' /\ Slept'
  BY DEF Read, Request, Slept
<1>3. Ended'
  BY DEF Request, Slept, Ended
<1>4. delay = DelayAfter(current, last) /\ Bounded(current, last, base, calm)
  BY DEF Request, Drifting
<1>5. Drifting'
  BY <1>4 DEF Drifting
<1> QED BY <1>1, <1>2, <1>3, <1>5

LEMMA ClockSetKeepsIInv == IInv /\ ClockSet => IInv'
<1> SUFFICES ASSUME IInv, ClockSet PROVE IInv'
  OBVIOUS
<1> USE DriftAssumption DEF IInv, TypeOK, Recovery, ClockSet, cycle, stretch
<1>1. TypeOK' /\ Counting' /\ Read' /\ Slept'
  BY DEF Counting, Read, Slept
<1>2. Request'
  <2>1. Instant(target)' = Instant(target)
    BY DEF Instant
  <2> QED BY <2>1 DEF Request
<1>3. Ended' /\ Drifting'
  BY DEF Ended, Drifting
<1> QED BY <1>1, <1>2, <1>3

THEOREM Inductive == IInv /\ [Next]_vars => IInv'
<1> SUFFICES ASSUME IInv, [Next]_vars PROVE IInv'
  OBVIOUS
<1>1. CASE Done \/ UNCHANGED vars
  BY <1>1 DEF Done, vars, cycle, setting, stretch, IInv, TypeOK, Counting,
              Read, Request, Slept, Ended, Drifting, Instant, Accepted
<1> QED BY <1>1, ReadTimeKeepsIInv, ComputeKeepsIInv, SleepKeepsIInv,
           ReleaseKeepsIInv, ClockSetKeepsIInv DEF Next

THEOREM Invariance == Spec => []IInv
  BY InitIInv, Inductive, PTL DEF Spec

--------------------------------------------------------------------------------

(* The loop ends after Cycles cycles, and no time that is computed or kept *)
(* in it is ever before the clock's origin.                                *)
THEOREM TypeCorrect == Spec => []TypeOK
<1>1. IInv => TypeOK
  BY DEF IInv
<1> QED BY <1>1, Invariance, PTL

(* The services are released early only after a request for exactly one    *)
(* full second (seqgenex0.c:243), or within two cycles of a clock that was *)
(* set.                                                                    *)
THEOREM EarlyOnlyThen == Spec => []EarlyOnlyAtFullSecond
<1>1. IInv => EarlyOnlyAtFullSecond
  BY DEF IInv, Slept, EarlyOnlyAtFullSecond
<1> QED BY <1>1, Invariance, PTL

(* Over any number of cycles that nobody disturbs, the run drifts by no    *)
(* more than the bound of DriftHalved, with the magnification of line 231  *)
(* in place: late cycles may echo in the ones after them, but they do not  *)
(* add up.                                                                 *)
THEOREM DriftIsHalved == Spec => []DriftHalved
<1>1. IInv => DriftHalved
  BY DEF IInv, Drifting, Bounded, Drift, Slowest, Fastest, DriftHalved, Late
<1> QED BY <1>1, Invariance, PTL
================================================================================
