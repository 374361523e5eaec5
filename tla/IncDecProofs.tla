----------------------------- MODULE IncDecProofs ------------------------------
(***************************************************************************)
(* Theorems about IncDec for every Count and Amount: what the race on gsum *)
(* can do, and what it cannot do to agsum.                                 *)
(***************************************************************************)
EXTENDS IncDec, TLAPS

(* Multiplication by Amount, one step up and monotone (the bounds below    *)
(* are products of Amount and the number of stores).                       *)
LEMMA AmountStep ==
  ASSUME NEW n \in Nat
  PROVE  /\ Amount * n \in Nat
         /\ Amount * (n + 1) = Amount * n + Amount
  BY IncDecAssumption

(* One addition or subtraction moves a difference on its own side.         *)
LEMMA MoveDifference ==
  ASSUME NEW u \in Int, NEW d \in Int, NEW c \in Int
  PROVE  (u - d) + c = (u + c) - d /\ (u - d) + (0 - c) = u - (d + c)
  OBVIOUS

(* The counters of a thread agree with its place in the loop: all three    *)
(* accesses of an iteration are made before the next one starts.           *)
LoopInv ==
  /\ mpc = "create" => tpc["dec"] = "none"
  /\ \A t \in Thread :
       /\ tpc[t] \in {"none", "absent"} => iter[t] = 0
       /\ tpc[t] \in {"load", "store", "add"} => iter[t] < Count
       /\ tpc[t] = "done" => iter[t] = Count
       /\ stores[t] = iter[t] + (IF tpc[t] = "add" THEN 1 ELSE 0)

LEMMA InitType == Init => TypeOK /\ LoopInv
  BY IncDecAssumption DEF Init, TypeOK, LoopInv, Thread

LEMMA NextType == TypeOK /\ LoopInv /\ [Next]_vars => (TypeOK /\ LoopInv)'
<1> SUFFICES ASSUME TypeOK, LoopInv, [Next]_vars PROVE (TypeOK /\ LoopInv)'
  OBVIOUS
<1> USE IncDecAssumption DEF TypeOK, LoopInv, Thread
<1>1. CASE Create
  BY <1>1 DEF Create
<1>2. CASE Join \/ JoinCrashes
  BY <1>2 DEF Join, JoinCrashes, threadVars
<1>3. CASE PrintSums
  BY <1>3 DEF PrintSums, threadVars
<1>4. ASSUME NEW t \in Thread, Load(t) PROVE (TypeOK /\ LoopInv)'
  BY <1>4 DEF Load
<1>5. ASSUME NEW t \in Thread, Store(t) PROVE (TypeOK /\ LoopInv)'
  <2>1. Delta(t) \in Int
    BY DEF Delta
  <2>2. TypeOK'
    <3>1. stores[t] + 1 \in 0 .. Count
      BY <1>5 DEF Store
    <3>2. gsum' \in Int
      BY <1>5, <2>1 DEF Store
    <3> QED
      BY <1>5, <3>1, <3>2 DEF Store
  <2>3. LoopInv'
    BY <1>5 DEF Store
  <2> QED
    BY <2>2, <2>3
<1>6. ASSUME NEW t \in Thread, AtomicAdd(t) PROVE (TypeOK /\ LoopInv)'
  <2>1. Delta(t) \in Int
    BY DEF Delta
  <2> QED
    BY <1>6, <2>1 DEF AtomicAdd
<1>7. CASE UNCHANGED vars
  BY <1>7 DEF vars, threadVars
<1> QED
  BY <1>1, <1>2, <1>3, <1>4, <1>5, <1>6, <1>7 DEF Next, ThreadStep

(* The variables keep their types, and no thread stores more often than    *)
(* COUNT times.                                                            *)
THEOREM TypeCorrect == Spec => []TypeOK
  BY InitType, NextType, PTL DEF Spec

--------------------------------------------------------------------------------
(* The racy global.                                                        *)

\* A value gsum can have had so far.
Reachable(v) == 0 - Amount * stores["dec"] <= v /\ v <= Amount * stores["inc"]

(* The inductive form: a copy of gsum, however stale, is in the range too, *)
(* because the range only grows.                                           *)
RangeInv == Reachable(gsum) /\ \A t \in Thread : Reachable(reg[t])

LEMMA NextRange == TypeOK /\ LoopInv /\ RangeInv /\ [Next]_vars => RangeInv'
<1> SUFFICES ASSUME TypeOK, LoopInv, RangeInv, [Next]_vars PROVE RangeInv'
  OBVIOUS
<1> USE DEF RangeInv, Reachable
<1>1. ASSUME NEW t \in Thread, Load(t) PROVE RangeInv'
  BY <1>1 DEF Load, TypeOK
<1>2. ASSUME NEW t \in Thread, Store(t) PROVE RangeInv'
  <2>1. /\ stores["inc"] \in Nat /\ stores["dec"] \in Nat /\ Amount \in Nat
        /\ gsum \in Int /\ \A u \in Thread : reg[u] \in Int
    BY IncDecAssumption DEF TypeOK, Thread
  <2> DEFINE up   == Amount * stores["inc"]
             down == Amount * stores["dec"]
  <2>2. up \in Nat /\ down \in Nat
    BY <2>1, AmountStep
  <2>3. 0 - down <= reg[t] /\ reg[t] <= up /\ reg' = reg
    BY <1>2 DEF Store
  <2>4. CASE t = "inc"
    <3>1. gsum' = reg[t] + Amount
      BY <1>2, <2>4 DEF Store, Delta
    <3>2. stores'["inc"] = stores["inc"] + 1 /\ stores'["dec"] = stores["dec"]
      BY <1>2, <2>4 DEF Store, TypeOK, Thread
    <3>3. Amount * stores'["inc"] = up + Amount /\ Amount * stores'["dec"] = down
      BY <2>1, <3>2, AmountStep DEF up, down
    <3>4. Reachable(gsum)'
      BY <2>1, <2>2, <2>3, <3>1, <3>3
    <3>5. \A u \in Thread : Reachable(reg[u])'
      BY <2>1, <2>2, <2>3, <3>3
    <3> QED
      BY <3>4, <3>5
  <2>5. CASE t = "dec"
    <3>1. gsum' = reg[t] - Amount
      BY <1>2, <2>1, <2>5 DEF Store, Delta
    <3>2. stores'["dec"] = stores["dec"] + 1 /\ stores'["inc"] = stores["inc"]
      BY <1>2, <2>5 DEF Store, TypeOK, Thread
    <3>3. Amount * stores'["dec"] = down + Amount /\ Amount * stores'["inc"] = up
      BY <2>1, <3>2, AmountStep DEF up, down
    <3>4. Reachable(gsum)'
      BY <2>1, <2>2, <2>3, <3>1, <3>3
    <3>5. \A u \in Thread : Reachable(reg[u])'
      BY <2>1, <2>2, <2>3, <3>3
    <3> QED
      BY <3>4, <3>5
  <2> QED
    BY <2>4, <2>5 DEF Thread
<1>3. ASSUME NEW t \in Thread, AtomicAdd(t) PROVE RangeInv'
  BY <1>3 DEF AtomicAdd
<1>4. ASSUME Create \/ Join \/ JoinCrashes \/ PrintSums \/ UNCHANGED vars PROVE RangeInv'
  BY <1>4 DEF Create, Join, JoinCrashes, PrintSums, vars, threadVars
<1> QED
  BY <1>1, <1>2, <1>3, <1>4 DEF Next, ThreadStep

(* Lost updates never take gsum out of the range its two threads span, so  *)
(* the overflow warned of in pthread.c, lines 8-9, depends on COUNT and    *)
(* INCDEC_AMOUNT alone.                                                    *)
THEOREM GsumStaysBounded == Spec => []GsumBounded
<1>1. Init => RangeInv
  BY AmountStep, IncDecAssumption DEF Init, RangeInv, Reachable, Thread
<1>2. RangeInv => GsumBounded
  BY DEF RangeInv, Reachable, GsumBounded
<1> QED
  BY <1>1, <1>2, InitType, NextType, NextRange, PTL DEF Spec

--------------------------------------------------------------------------------
(* The atomic global.                                                      *)

(* The inductive form: agsum is exact at every moment, and with the joins  *)
(* before the print both loops are over when main reads it.                *)
ExactInv ==
  /\ agsum = Amount * iter["inc"] - Amount * iter["dec"]
  /\ (joinsFirst /\ mpc \in {"print", "end"}) =>
       \A t \in Thread : tpc[t] \in {"done", "absent"}
  /\ (joinsFirst /\ printed # <<>>) => mpc = "end"
  /\ PrintedExact

LEMMA NextExact ==
  TypeOK /\ LoopInv /\ ExactInv /\ [Next]_vars => ExactInv'
<1> SUFFICES ASSUME TypeOK, LoopInv, ExactInv, [Next]_vars PROVE ExactInv'
  OBVIOUS
<1> USE DEF ExactInv, PrintedExact, Whole
<1>1. ASSUME NEW t \in Thread, AtomicAdd(t) PROVE ExactInv'
  <2>1. iter["inc"] \in Nat /\ iter["dec"] \in Nat /\ Amount \in Nat
    BY IncDecAssumption DEF TypeOK, Thread
  <2> DEFINE up   == Amount * iter["inc"]
             down == Amount * iter["dec"]
  <2>5. /\ ~(joinsFirst /\ mpc \in {"print", "end"})
        /\ joinsFirst' = joinsFirst /\ mpc' = mpc /\ printed' = printed
    BY <1>1 DEF AtomicAdd
  <2>2. up \in Nat /\ down \in Nat /\ agsum = up - down
    BY <2>1, AmountStep
  <2> HIDE DEF up, down
  <2>3. CASE t = "inc"
    <3>1. agsum' = (up - down) + Amount
      BY <1>1, <2>2, <2>3 DEF AtomicAdd, Delta
    <3>2. iter'["inc"] = iter["inc"] + 1 /\ iter'["dec"] = iter["dec"]
      BY <1>1, <2>3 DEF AtomicAdd, TypeOK, Thread
    <3>3. Amount * iter'["inc"] = up + Amount /\ Amount * iter'["dec"] = down
      BY <2>1, <3>2, AmountStep DEF up, down
    <3>4. agsum' = Amount * iter'["inc"] - Amount * iter'["dec"]
      <4>1. (up - down) + Amount = (up + Amount) - down
        BY <2>1, <2>2, MoveDifference
      <4> QED
        BY <4>1, <3>1, <3>3
    <3> QED
      BY <2>5, <3>4
  <2>4. CASE t = "dec"
    <3>1. agsum' = (up - down) + (0 - Amount)
      BY <1>1, <2>2, <2>4 DEF AtomicAdd, Delta
    <3>2. iter'["dec"] = iter["dec"] + 1 /\ iter'["inc"] = iter["inc"]
      BY <1>1, <2>4 DEF AtomicAdd, TypeOK, Thread
    <3>3. Amount * iter'["dec"] = down + Amount /\ Amount * iter'["inc"] = up
      BY <2>1, <3>2, AmountStep DEF up, down
    <3>4. agsum' = Amount * iter'["inc"] - Amount * iter'["dec"]
      <4>1. (up - down) + (0 - Amount) = up - (down + Amount)
        BY <2>1, <2>2, MoveDifference
      <4> QED
        BY <4>1, <3>1, <3>3
    <3> QED
      BY <2>5, <3>4
  <2> QED
    BY <2>3, <2>4 DEF Thread
<1>2. ASSUME NEW t \in Thread, Load(t) \/ Store(t) PROVE ExactInv'
  BY <1>2 DEF Load, Store
<1>3. CASE Create
  BY <1>3 DEF Create
<1>4. CASE Join \/ JoinCrashes
  BY <1>4 DEF Join, JoinCrashes, threadVars
<1>5. CASE PrintSums
  <2>1. joinsFirst => \A t \in Thread : Amount * iter[t] = Whole(t)
    <3>1. Amount * 0 = 0
      BY IncDecAssumption
    <3> QED BY <1>5, <3>1 DEF PrintSums, LoopInv
  <2>2. joinsFirst => agsum = Whole("inc") - Whole("dec")
    BY <2>1 DEF Thread
  <2> QED
    BY <1>5, <2>2 DEF PrintSums, threadVars
<1>6. CASE UNCHANGED vars
  BY <1>6 DEF vars, threadVars
<1> QED
  BY <1>1, <1>2, <1>3, <1>4, <1>5, <1>6 DEF Next, ThreadStep

(* With the joins before the print (pthread.c, lines 99-102), the atomic   *)
(* global is printed exactly, for any COUNT and INCDEC_AMOUNT: as what the *)
(* threads that could be created amount to, zero where both could.         *)
THEOREM AtomicIsExact == Spec => []PrintedExact
<1>1. Init => ExactInv
  BY AmountStep, IncDecAssumption DEF Init, ExactInv, PrintedExact, Thread
<1>2. ExactInv => PrintedExact
  BY DEF ExactInv
<1> QED
  BY <1>1, <1>2, NextExact, InitType, NextType, PTL DEF Spec

================================================================================
