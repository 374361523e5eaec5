------------------------------ MODULE FibTestProofs ------------------------------
(***************************************************************************)
(* Theorems about FibTest: for any number of iterations, blocks and jobs,  *)
(* in memory or in registers, what work FIB_TEST does although its threads *)
(* count with each other's counters, how far these run, and that delta_t   *)
(* is exact.                                                               *)
(***************************************************************************)
EXTENDS FibTest, TLAPS

--------------------------------------------------------------------------------
(* Where everybody is.                                                     *)

\* Where a thread is in FIB_TEST: past the test of idx, or anywhere from the
\* first statement to the last.
Passed == {"startInner", "inner", "loadJdx", "storeJdx", "resetJdx", "loadIdx"}
InLoop == Passed \cup {"test", "storeIdx"}
InCall == InLoop \cup {"reset", "writeBack", "return"}

Position(t) ==
  /\ t \notin Users => pc[t] = "idle"
  /\ pc[t] \in InCall => limit[t] < Blocks
  /\ pc[t] \in InLoop => ~inRegisters
  /\ pc[t] = "writeBack" => inRegisters
  /\ pc[t] \in IF prog = "pthread" THEN Labels \ {"startInner", "complete"}
                                   ELSE Labels \ {"resetJdx", "measure", "exited"}

Positions == \A t \in Thread : Position(t)

Cuts == IF prog = "pthread" THEN cuts = 0 ELSE cuts <= jobs[F10]

--------------------------------------------------------------------------------
(* The work that is done.                                                  *)

AtMost(a, b) == IF a < b THEN a ELSE b

\* pthread.c: no counter is ahead of the iterations that were done.
Climb(n) == n <= iters[1] \/ iters[1] = IterCnt

Climber(t) ==
  /\ pc[t] = "storeIdx" => Climb(reg[t] + 1)
  /\ pc[t] \in {"writeBack", "return", "measure", "exited"} => iters[1] = IterCnt

Climbing ==
  prog = "pthread" =>
    /\ iters[1] <= IterCnt
    /\ ~inRegisters => Climb(idx)
    /\ \A t \in Thread : Climber(t)

\* lab1.c: the iterations of the calls that t has finished in its job.
Finished(t) == limit[t] * IterCnt

\* F10 runs undisturbed.
Job10 ==
  LET done == iters[F10] - Finished(F10) IN
    /\ pc[F10] \in {"reset", "complete"} => done = 0
    /\ pc[F10] = "test" => idx <= IterCnt /\ done = idx
    /\ pc[F10] \in Passed => idx < IterCnt /\ done = idx
    /\ pc[F10] = "storeIdx" => reg[F10] = idx /\ idx < IterCnt /\ done = idx + 1
    /\ pc[F10] \in {"writeBack", "return"} => done = IterCnt
    /\ pc[F10] \in {"return", "complete"} => idx = IterCnt
    /\ pc[F10] = "complete" => limit[F10] = Blocks

\* What F20 finds in idx when it goes on, and what F10 can have taken from it.
Found == IF pc[F10] = "idle" THEN idx ELSE IterCnt
Taken == cuts * IterCnt

Job20 ==
  LET done == iters[F20] - Finished(F20)
      Done(low, high) == low - Taken <= done /\ done <= high
  IN
    /\ pc[F20] \in {"reset", "complete"} => Done(0, 0)
    /\ pc[F20] = "test" => Done(AtMost(Found, IterCnt), AtMost(Found, IterCnt))
    /\ pc[F20] \in Passed =>
         /\ Found <= IterCnt
         /\ Done(AtMost(Found, IterCnt), AtMost(Found, IterCnt - 1))
    /\ pc[F20] = "storeIdx" =>
         /\ reg[F20] <= IterCnt
         /\ Done(AtMost(reg[F20] + 1, IterCnt), AtMost(reg[F20] + 1, IterCnt))
    /\ pc[F20] \in {"writeBack", "return"} => Done(IterCnt, IterCnt)
    /\ pc[F20] = "complete" => limit[F20] = Blocks
    /\ pc[F20] = "idle" => iters[F20] <= Blocks * IterCnt

Jobs10And20 == prog = "lab1" => Job10 /\ Job20 /\ idx <= IterCnt + 1

--------------------------------------------------------------------------------
(* How far idx runs.                                                       *)

Place == 1 .. 4

\* What t can still add to idx if nobody sets it back: what is left to the limit,
\* one if t is past its test and idx at the limit, and all of it and one more
\* before the reset, which itself may set others back.
Fuel(t) ==
  IF t \notin Thread \/ pc[t] \in {"idle", "reset"} THEN IterCnt + 1
  ELSE IF pc[t] = "test" THEN IF idx < IterCnt THEN IterCnt - idx ELSE 0
  ELSE IF pc[t] \in Passed THEN IF idx < IterCnt THEN IterCnt - idx ELSE 1
  ELSE IF pc[t] = "storeIdx" THEN IF reg[t] < IterCnt THEN IterCnt - reg[t] ELSE 0
  ELSE 0

Fuels == [p \in Place |-> Fuel(p)]

\* The values that idx has or will be given, but for 0.
Copy(h) == \/ h = IterCnt \/ h = idx
           \/ \E t \in Thread : pc[t] = "storeIdx" /\ h = reg[t] + 1

(* Past the limit, idx rises by one at the price of the last fuel of a     *)
(* thread.  Fuel comes only from idx being set back, and whoever does that *)
(* gives the others less than it gives up: p, with n left, can give q up   *)
(* to n - 1, then n - 2 and so on, and pays with the square; q can only    *)
(* give r its last step, and r has that step to add.  A fourth thread must *)
(* have arrived at the limit before.                                       *)
Pays(f, h) ==
  \A p, q, r \in Place :
    p # q /\ q # r /\ p # r =>
      2 * h + f[p] * (f[p] + 1) + 2 * f[q] + (IF f[r] > 0 THEN 2 ELSE 0)
        <= (IterCnt + 1) * (IterCnt + 6)

\* With idx at its limit somebody has come to the end of the loop, or is about to.
Arrived(t) == pc[t] \in {"test", "return", "measure", "exited"}

Range ==
  prog = "pthread" =>
    /\ inRegisters => idx <= IterCnt
    /\ ~inRegisters => /\ idx >= IterCnt => \E t \in Thread : Arrived(t)
                       /\ \A h \in Nat : Copy(h) => Pays(Fuels, h)

Core == TypeOK /\ Positions /\ Cuts

IInv == Core /\ Climbing /\ Jobs10And20 /\ Range

--------------------------------------------------------------------------------

LEMMA Services == F10 \in Thread /\ F20 \in Thread /\ F10 # F20
  BY FibTestAssumption DEF F10, F20, Thread

LEMMA InitCore == Init => Core
<1> SUFFICES ASSUME Init PROVE Core
  OBVIOUS
<1> USE FibTestAssumption DEF Init
<1>1. prog \in {"pthread", "lab1"} /\ inRegisters \in BOOLEAN
  OBVIOUS
<1>2. TypeOK
  BY <1>1 DEF TypeOK, Labels
<1>3. Positions
  BY DEF Positions, Position, InCall, InLoop, Passed, Labels
<1>4. Cuts
  BY Services DEF Cuts
<1> QED BY <1>2, <1>3, <1>4 DEF Core

\* A step of t leaves the other threads, and the build, as they are.
LEMMA StepFrame ==
  ASSUME TypeOK, NEW t \in Thread, Begin(t) \/ ThreadStep(t)
  PROVE  /\ prog' = prog /\ inRegisters' = inRegisters
         /\ t \in Users /\ MayRun(t)
         /\ \E l \in Labels : pc' = [pc EXCEPT ![t] = l]
         /\ \A u \in Thread \ {t} : /\ pc'[u] = pc[u] /\ reg'[u] = reg[u]
                                    /\ limit'[u] = limit[u] /\ jobs'[u] = jobs[u]
<1> USE DEF TypeOK, At, Goto, MayRun, Labels, globals, counts
<1>1. CASE Begin(t)
  BY <1>1 DEF Begin
<1>2. CASE ResetIdx(t)
  BY <1>2 DEF ResetIdx
<1>3. CASE TestIdx(t)
  BY <1>3 DEF TestIdx
<1>4. CASE StartInner(t)
  BY <1>4 DEF StartInner
<1>5. CASE TestJdx(t)
  BY <1>5 DEF TestJdx
<1>6. CASE LoadJdx(t)
  BY <1>6 DEF LoadJdx
<1>7. CASE StoreJdx(t)
  BY <1>7 DEF StoreJdx
<1>8. CASE ResetJdx(t)
  BY <1>8 DEF ResetJdx
<1>9. CASE LoadIdx(t)
  BY <1>9 DEF LoadIdx
<1>10. CASE StoreIdx(t)
  BY <1>10 DEF StoreIdx
<1>11. CASE RunInRegisters(t)
  BY <1>11 DEF RunInRegisters
<1>12. CASE WriteBack(t)
  BY <1>12 DEF WriteBack
<1>13. CASE AfterCall(t)
  BY <1>13 DEF AfterCall
<1>14. CASE Complete(t)
  BY <1>14 DEF Complete
<1>15. CASE Measure(t)
  BY <1>15 DEF Measure
<1> QED
  BY <1>1, <1>2, <1>3, <1>4, <1>5, <1>6, <1>7, <1>8, <1>9, <1>10, <1>11, <1>12,
     <1>13, <1>14, <1>15 DEF ThreadStep, Loop

\* The inner loop: t stays past its test, and idx and the counts as they are.
Inner(t) == \/ StartInner(t) \/ TestJdx(t) \/ LoadJdx(t) \/ StoreJdx(t)
            \/ ResetJdx(t)

LEMMA InnerFrame ==
  ASSUME TypeOK, NEW t \in Thread, Inner(t)
  PROVE  /\ pc[t] \in Passed
         /\ \E l \in Passed : pc' = [pc EXCEPT ![t] = l]
         /\ UNCHANGED <<prog, inRegisters, idx, limit, iters, jobs, cuts>>
         /\ jdx' \in Nat /\ reg' \in [Thread -> Nat]
<1> USE FibTestAssumption DEF TypeOK, At, Goto, Labels, Passed, globals, counts
<1>1. CASE StartInner(t)
  BY <1>1 DEF StartInner
<1>2. CASE TestJdx(t)
  BY <1>2 DEF TestJdx
<1>3. CASE LoadJdx(t)
  BY <1>3 DEF LoadJdx
<1>4. CASE StoreJdx(t)
  BY <1>4 DEF StoreJdx
<1>5. CASE ResetJdx(t)
  BY <1>5 DEF ResetJdx
<1> QED BY <1>1, <1>2, <1>3, <1>4, <1>5 DEF Inner

LEMMA StepCases ==
  ASSUME NEW t \in Thread, ThreadStep(t)
  PROVE  \/ Inner(t) \/ ResetIdx(t) \/ TestIdx(t) \/ LoadIdx(t) \/ StoreIdx(t)
         \/ RunInRegisters(t) \/ WriteBack(t) \/ AfterCall(t) \/ Complete(t)
         \/ Measure(t)
  BY DEF ThreadStep, Loop, Inner

LEMMA CountedType ==
  ASSUME TypeOK, NEW t \in Thread, NEW n \in Nat
  PROVE  Counted(t, n) \in [Thread -> Nat]
<1>1. Account(t) \in Thread /\ IterCnt \in Nat
  BY FibTestAssumption DEF Account, Thread
<1>2. iters[Account(t)] + n \in Nat
  BY <1>1 DEF TypeOK
<1> QED BY <1>1, <1>2 DEF TypeOK, Counted

LEMMA BeginKeepsCore ==
  ASSUME Core, NEW t \in Thread, Begin(t)
  PROVE  Core'
<1> USE FibTestAssumption, Services DEF Core, Begin, At, Goto, globals
<1>1. pc[t] = "idle" /\ pc' = [pc EXCEPT ![t] = "reset"] /\ MayRun(t)
  OBVIOUS
<1>2. TypeOK'
  <2>1. jobs' \in [Thread -> 0 .. Jobs]
    BY DEF TypeOK
  <2>2. limit' \in [Thread -> 0 .. Blocks]
    BY DEF TypeOK
  <2>3. iters' \in [Thread -> Nat]
    BY DEF TypeOK
  <2>4. cuts' \in 0 .. Jobs
    BY DEF TypeOK, Cuts, MayRun, Users, Thread, F10, F20
  <2> QED BY <2>1, <2>2, <2>3, <2>4 DEF TypeOK, Labels
<1>3. Positions'
  BY DEF Positions, Position, TypeOK, Labels, InCall, InLoop, Passed, MayRun, Users
<1>4. Cuts'
  BY DEF Cuts, TypeOK, MayRun, Users
<1> QED BY <1>2, <1>3, <1>4 DEF Core

LEMMA ThreadStepKeepsCore ==
  ASSUME Core, NEW t \in Thread, ThreadStep(t)
  PROVE  Core'
<1> USE FibTestAssumption DEF Core, TypeOK, Labels, At, Goto, globals, counts
<1>1. prog' = prog /\ inRegisters' = inRegisters /\ t \in Users
  BY StepFrame
<1>2. TypeOK'
  <2>1. CASE Inner(t)
    BY <2>1, InnerFrame DEF Passed
  <2>2. CASE ResetIdx(t)
    BY <2>2 DEF ResetIdx
  <2>3. CASE TestIdx(t)
    BY <2>3 DEF TestIdx
  <2>4. CASE LoadIdx(t)
    BY <2>4, CountedType DEF LoadIdx
  <2>5. CASE StoreIdx(t)
    BY <2>5 DEF StoreIdx
  <2>6. CASE RunInRegisters(t)
    BY <2>6, CountedType DEF RunInRegisters
  <2>7. CASE WriteBack(t)
    BY <2>7 DEF WriteBack
  <2>8. CASE AfterCall(t)
    BY <2>8 DEF AfterCall, Positions, Position, InCall
  <2>9. CASE Complete(t) \/ Measure(t)
    BY <2>9 DEF Complete, Measure
  <2> QED BY <2>1, <2>2, <2>3, <2>4, <2>5, <2>6, <2>7, <2>8, <2>9, StepCases
<1>3. Positions'
  <2>1. ASSUME NEW u \in Thread \ {t} PROVE Position(u)'
    BY <1>1, StepFrame DEF Positions, Position, Users
  <2>2. Position(t)'
    <3> USE DEF Position, InCall, InLoop, Passed, Users
    <3>0. Position(t)
      BY DEF Positions
    <3>1. CASE StartInner(t)
      BY <1>1, <3>0, <3>1 DEF StartInner
    <3>2. CASE TestJdx(t)
      BY <1>1, <3>0, <3>2 DEF TestJdx
    <3>3. CASE LoadJdx(t)
      BY <1>1, <3>0, <3>3 DEF LoadJdx
    <3>4. CASE StoreJdx(t)
      BY <1>1, <3>0, <3>4 DEF StoreJdx
    <3>5. CASE ResetJdx(t)
      BY <1>1, <3>0, <3>5 DEF ResetJdx
    <3>6. CASE ResetIdx(t)
      BY <1>1, <3>0, <3>6 DEF ResetIdx
    <3>7. CASE TestIdx(t)
      BY <1>1, <3>0, <3>7 DEF TestIdx
    <3>8. CASE LoadIdx(t)
      BY <1>1, <3>0, <3>8 DEF LoadIdx
    <3>9. CASE StoreIdx(t)
      BY <1>1, <3>0, <3>9 DEF StoreIdx
    <3>10. CASE RunInRegisters(t)
      BY <1>1, <3>0, <3>10 DEF RunInRegisters
    <3>11. CASE WriteBack(t)
      BY <1>1, <3>0, <3>11 DEF WriteBack
    <3>12. CASE AfterCall(t)
      BY <1>1, <3>0, <3>12 DEF AfterCall
    <3>13. CASE Complete(t)
      BY <1>1, <3>0, <3>13 DEF Complete
    <3>14. CASE Measure(t)
      BY <1>1, <3>0, <3>14 DEF Measure
    <3> QED
      BY <3>1, <3>2, <3>3, <3>4, <3>5, <3>6, <3>7, <3>8, <3>9, <3>10, <3>11, <3>12,
         <3>13, <3>14, StepCases DEF Inner
  <2> QED BY <2>1, <2>2 DEF Positions
<1>4. Cuts'
  <2>1. jobs' = jobs /\ cuts' = cuts
    BY StepCases, InnerFrame
    DEF ResetIdx, TestIdx, LoadIdx, StoreIdx, RunInRegisters, WriteBack,
        AfterCall, Complete, Measure
  <2> QED BY <1>1, <2>1 DEF Cuts
<1> QED BY <1>2, <1>3, <1>4

LEMMA StutterKeepsCore == Core /\ UNCHANGED vars => Core'
  BY DEF Core, TypeOK, Positions, Position, Cuts, Users, vars, globals, counts

LEMMA NextCore == Core /\ [Next]_vars => Core'
  BY BeginKeepsCore, ThreadStepKeepsCore, StutterKeepsCore DEF Next

LEMMA CoreInvariance == Spec => []Core
  BY InitCore, NextCore, PTL DEF Spec

--------------------------------------------------------------------------------
(* The work of pthread.c.                                                  *)

LEMMA InitClimbing == Init => Climbing
  BY FibTestAssumption DEF Init, Climbing, Climber, Climb, Thread

LEMMA CountedUp ==
  ASSUME TypeOK, prog = "pthread", iters[1] <= IterCnt, NEW t \in Thread, NEW n \in Nat,
         iters' = Counted(t, n)
  PROVE  iters'[1] = IF iters[1] + n > IterCnt THEN IterCnt ELSE iters[1] + n
  BY FibTestAssumption DEF TypeOK, Counted, Account, Thread

LEMMA StepKeepsClimbing ==
  ASSUME Core, Core', Climbing, NEW t \in Thread, Begin(t) \/ ThreadStep(t)
  PROVE  Climbing'
<1> SUFFICES ASSUME prog = "pthread" PROVE Climbing'
  BY StepFrame DEF Climbing, Core
<1> USE FibTestAssumption DEF Climb
<1>0. /\ TypeOK /\ 1 \in Thread /\ IterCnt \in Nat /\ iters[1] \in Nat /\ idx \in Nat
      /\ reg \in [Thread -> Nat]
  <2>1. 1 \in Thread
    BY Services DEF F10
  <2> QED BY <2>1 DEF Core, TypeOK
<1>1. /\ prog' = "pthread" /\ inRegisters' = inRegisters
      /\ \A u \in Thread \ {t} : pc'[u] = pc[u] /\ reg'[u] = reg[u]
  BY <1>0, StepFrame
<1>2. iters[1] <= IterCnt /\ (~inRegisters => Climb(idx)) /\ \A u \in Thread : Climber(u)
  BY DEF Climbing
<1>3. /\ iters'[1] \in Nat /\ iters[1] <= iters'[1] /\ iters'[1] <= IterCnt
      /\ (~inRegisters => Climb(idx)') /\ Climber(t)'
  <2> USE DEF Climber, At, Goto, Core, TypeOK, Labels, globals, counts
  <2>1. CASE Begin(t)
    BY <1>0, <1>1, <1>2, <2>1 DEF Begin
  <2>2. CASE Inner(t)
    BY <1>0, <1>1, <1>2, <2>2, InnerFrame DEF Passed
  <2>3. CASE ResetIdx(t)
    BY <1>0, <1>1, <1>2, <2>3 DEF ResetIdx
  <2>4. CASE TestIdx(t)
    BY <1>0, <1>1, <1>2, <2>4 DEF TestIdx, Positions, Position, InLoop
  <2>5. CASE LoadIdx(t)
    <3>1. ~inRegisters
      BY <2>5 DEF LoadIdx, Positions, Position, InLoop, Passed
    <3>2. iters'[1] = IF iters[1] + 1 > IterCnt THEN IterCnt ELSE iters[1] + 1
      BY <1>0, <1>2, <2>5, CountedUp DEF LoadIdx
    <3> QED BY <1>0, <1>1, <1>2, <2>5, <3>1, <3>2 DEF LoadIdx
  <2>6. CASE StoreIdx(t)
    BY <1>0, <1>1, <1>2, <2>6 DEF StoreIdx
  <2>7. CASE RunInRegisters(t)
    <3>1. iters'[1] = IF iters[1] + IterCnt > IterCnt THEN IterCnt ELSE iters[1] + IterCnt
      BY <1>0, <1>2, <2>7, CountedUp DEF RunInRegisters
    <3> QED BY <1>0, <1>1, <1>2, <2>7, <3>1 DEF RunInRegisters
  <2>8. CASE WriteBack(t)
    BY <1>0, <1>1, <1>2, <2>8 DEF WriteBack
  <2>9. CASE AfterCall(t) \/ Complete(t) \/ Measure(t)
    BY <1>0, <1>1, <1>2, <2>9 DEF AfterCall, Complete, Measure
  <2> QED
    BY <2>1, <2>2, <2>3, <2>4, <2>5, <2>6, <2>7, <2>8, <2>9, StepCases
<1>4. ASSUME NEW u \in Thread \ {t} PROVE Climber(u)'
  BY <1>0, <1>1, <1>2, <1>3 DEF Climber
<1> QED BY <1>1, <1>3, <1>4 DEF Climbing

LEMMA NextClimbing == Core /\ Core' /\ Climbing /\ [Next]_vars => Climbing'
<1>1. UNCHANGED vars /\ Climbing => Climbing'
  BY DEF vars, globals, counts, Climbing, Climber, Climb
<1> QED BY <1>1, StepKeepsClimbing DEF Next

--------------------------------------------------------------------------------
(* The work of lab1.c.                                                     *)

LEMMA OneMore ==
  ASSUME NEW n \in Nat, NEW k \in Nat
  PROVE  n * k \in Nat /\ (n + 1) * k = n * k + k /\ 0 * k = 0
  BY Z3

LEMMA MoreIsMore ==
  ASSUME NEW m \in Nat, NEW n \in Nat, NEW k \in Nat, m <= n
  PROVE  m * k <= n * k /\ (n - m) * k = n * k - m * k
  BY Z3

LEMMA LessThanNone ==
  ASSUME NEW m \in Nat, NEW n \in Nat, NEW k \in Nat, n < m
  PROVE  (n - m) * k <= 0
  BY Z3

LEMMA InitJobs == Init => Jobs10And20
<1>1. 0 * IterCnt = 0 /\ Blocks * IterCnt \in Nat /\ IterCnt \in Nat
  BY FibTestAssumption, OneMore
<1> QED
  BY <1>1, Services DEF Init, Jobs10And20, Job10, Job20, Finished, Passed

LEMMA CountedOwn ==
  ASSUME TypeOK, prog = "lab1", NEW t \in Thread, NEW n \in Nat
  PROVE  /\ Counted(t, n)[t] = iters[t] + n
         /\ \A u \in Thread \ {t} : Counted(t, n)[u] = iters[u]
  BY DEF TypeOK, Counted, Account

LEMMA FinishedType ==
  ASSUME TypeOK, NEW t \in Thread
  PROVE  /\ Finished(t) \in Nat
         /\ limit'[t] = limit[t] => Finished(t)' = Finished(t)
         /\ limit'[t] = limit[t] + 1 => Finished(t)' = Finished(t) + IterCnt
         /\ limit'[t] = 0 => Finished(t)' = 0
  BY OneMore, FibTestAssumption DEF TypeOK, Finished

LEMMA StepKeepsJob10 ==
  ASSUME Core, prog = "lab1", Job10, NEW t \in Thread, Begin(t) \/ ThreadStep(t)
  PROVE  Job10'
<1> USE FibTestAssumption, Services DEF Job10, Passed
<1>0. /\ TypeOK /\ IterCnt \in Nat /\ iters[F10] \in Nat /\ idx \in Nat
      /\ reg \in [Thread -> Nat] /\ Finished(F10) \in Nat
  BY FinishedType DEF Core, TypeOK
<1>1. /\ prog' = "lab1" /\ t \in {F10, F20} /\ MayRun(t)
      /\ \A u \in Thread \ {t} : pc'[u] = pc[u] /\ reg'[u] = reg[u] /\ limit'[u] = limit[u]
  BY <1>0, StepFrame DEF Users
<1>2. CASE t = F20
  BY <1>1, <1>2 DEF MayRun
<1>3. CASE t = F10
  <2> USE <1>3 DEF At, Goto, Core, TypeOK, Labels, globals, counts
  <2>0. /\ limit'[F10] = limit[F10] => Finished(F10)' = Finished(F10)
        /\ limit'[F10] = limit[F10] + 1 => Finished(F10)' = Finished(F10) + IterCnt
        /\ limit'[F10] = 0 => Finished(F10)' = 0
    BY <1>0, FinishedType
  <2>1. CASE Begin(F10)
    BY <1>0, <1>1, <2>0, <2>1 DEF Begin
  <2>2. CASE Inner(F10)
    BY <1>0, <1>1, <2>0, <2>2, InnerFrame
  <2>3. CASE ResetIdx(F10)
    BY <1>0, <1>1, <2>0, <2>3 DEF ResetIdx
  <2>4. CASE TestIdx(F10)
    BY <1>0, <1>1, <2>0, <2>4 DEF TestIdx
  <2>5. CASE LoadIdx(F10)
    <3>1. iters'[F10] = iters[F10] + 1
      BY <1>0, <2>5, CountedOwn DEF LoadIdx
    <3> QED BY <1>0, <1>1, <2>0, <2>5, <3>1 DEF LoadIdx
  <2>6. CASE StoreIdx(F10)
    BY <1>0, <1>1, <2>0, <2>6 DEF StoreIdx
  <2>7. CASE RunInRegisters(F10)
    <3>1. iters'[F10] = iters[F10] + IterCnt
      BY <1>0, <2>7, CountedOwn DEF RunInRegisters
    <3> QED BY <1>0, <1>1, <2>0, <2>7, <3>1 DEF RunInRegisters
  <2>8. CASE WriteBack(F10)
    BY <1>0, <1>1, <2>0, <2>8 DEF WriteBack
  <2>9. CASE AfterCall(F10)
    <3>1. limit[F10] < Blocks
      BY <2>9 DEF AfterCall, Positions, Position, InCall
    <3> QED BY <1>0, <1>1, <2>0, <2>9, <3>1 DEF AfterCall
  <2>10. CASE Complete(F10)
    BY <1>0, <1>1, <2>0, <2>10 DEF Complete
  <2>11. CASE Measure(F10)
    BY <1>0, <1>1, <2>11 DEF Measure, Positions, Position
  <2> QED
    BY <1>3, <2>1, <2>2, <2>3, <2>4, <2>5, <2>6, <2>7, <2>8, <2>9, <2>10, <2>11, StepCases
<1> QED BY <1>1, <1>2, <1>3

LEMMA TakenType ==
  ASSUME TypeOK
  PROVE  /\ Taken \in Nat
         /\ cuts' = cuts => Taken' = Taken
         /\ cuts' = cuts + 1 => Taken' = Taken + IterCnt
         /\ cuts' = 0 => Taken' = 0
  BY OneMore, FibTestAssumption DEF TypeOK, Taken

\* F10 takes at most what was left of one call.
LEMMA StepOf10KeepsJob20 ==
  ASSUME Core, prog = "lab1", Job10, Job20, Begin(F10) \/ ThreadStep(F10)
  PROVE  Job20'
<1> USE FibTestAssumption, Services DEF Passed
<1>0. /\ TypeOK /\ IterCnt \in Nat \ {0} /\ iters[F20] \in Nat /\ idx \in Nat /\ reg[F20] \in Nat
      /\ Finished(F20) \in Nat /\ Taken \in Nat
  BY FinishedType, TakenType DEF Core, TypeOK
<1>1. /\ pc'[F20] = pc[F20] /\ reg'[F20] = reg[F20] /\ limit'[F20] = limit[F20]
      /\ Finished(F20)' = Finished(F20)
  BY <1>0, StepFrame, FinishedType
<1>2. CASE Begin(F10)
  <2>1. /\ pc[F10] = "idle" /\ pc'[F10] = "reset" /\ idx' = idx /\ iters'[F20] = iters[F20]
        /\ pc[F20] # "idle" => Taken' = Taken + IterCnt
    BY <1>0, <1>2, TakenType DEF Begin, At, Goto, TypeOK, globals
  <2>2. Found = idx /\ Found' = IterCnt
    BY <2>1 DEF Found
  <2> QED BY <1>0, <1>1, <2>1, <2>2 DEF Job20, AtMost
<1>3. CASE ThreadStep(F10)
  <2>1. Taken' = Taken /\ iters'[F20] = iters[F20] /\ Found' = Found
    <3> USE DEF At, Goto, Core, TypeOK, Labels, globals, counts, Found
    <3>0. cuts' = cuts => Taken' = Taken
      BY <1>0, TakenType
    <3>1. CASE Inner(F10)
      BY <1>0, <3>0, <3>1, InnerFrame
    <3>2. CASE ResetIdx(F10)
      BY <1>0, <3>0, <3>2 DEF ResetIdx
    <3>3. CASE TestIdx(F10)
      BY <1>0, <3>0, <3>3 DEF TestIdx
    <3>4. CASE LoadIdx(F10)
      BY <1>0, <3>0, <3>4, CountedOwn DEF LoadIdx
    <3>5. CASE StoreIdx(F10)
      BY <1>0, <3>0, <3>5 DEF StoreIdx
    <3>6. CASE RunInRegisters(F10)
      BY <1>0, <3>0, <3>6, CountedOwn DEF RunInRegisters
    <3>7. CASE WriteBack(F10)
      BY <1>0, <3>0, <3>7 DEF WriteBack
    <3>8. CASE AfterCall(F10)
      BY <1>0, <3>0, <3>8 DEF AfterCall
    <3>9. CASE Complete(F10)
      BY <1>0, <3>0, <3>9 DEF Complete, Job10
    <3>10. CASE Measure(F10)
      BY <1>0, <3>0, <3>10 DEF Measure
    <3> QED
      BY <1>3, <3>1, <3>2, <3>3, <3>4, <3>5, <3>6, <3>7, <3>8, <3>9, <3>10, StepCases
  <2> QED BY <1>0, <1>1, <2>1 DEF Job20, AtMost
<1> QED BY <1>2, <1>3

LEMMA StepOf20KeepsJob20 ==
  ASSUME Core, prog = "lab1", Job20, Begin(F20) \/ ThreadStep(F20)
  PROVE  Job20'
<1> USE FibTestAssumption, Services DEF Passed
<1>0. /\ TypeOK /\ IterCnt \in Nat \ {0} /\ iters[F20] \in Nat /\ idx \in Nat
      /\ reg \in [Thread -> Nat] /\ Finished(F20) \in Nat /\ Taken \in Nat
  BY FinishedType, TakenType DEF Core, TypeOK
<1>1. /\ pc[F10] = "idle" /\ pc'[F10] = "idle"
      /\ Found = idx /\ Found' = idx'
  BY <1>0, StepFrame DEF MayRun, Found
<1>2. /\ cuts' = cuts => Taken' = Taken
      /\ cuts' = 0 => Taken' = 0
      /\ limit'[F20] = limit[F20] => Finished(F20)' = Finished(F20)
      /\ limit'[F20] = limit[F20] + 1 => Finished(F20)' = Finished(F20) + IterCnt
      /\ limit'[F20] = 0 => Finished(F20)' = 0
  BY <1>0, FinishedType, TakenType
<1> USE DEF At, Goto, Core, TypeOK, Labels, globals, counts, Job20, AtMost
<1>3. CASE Begin(F20)
  BY <1>0, <1>1, <1>2, <1>3 DEF Begin
<1>4. CASE Inner(F20)
  BY <1>0, <1>1, <1>2, <1>4, InnerFrame
<1>5. CASE ResetIdx(F20)
  BY <1>0, <1>1, <1>2, <1>5 DEF ResetIdx
<1>6. CASE TestIdx(F20)
  BY <1>0, <1>1, <1>2, <1>6 DEF TestIdx
<1>7. CASE LoadIdx(F20)
  <2>1. iters'[F20] = iters[F20] + 1
    BY <1>0, <1>7, CountedOwn DEF LoadIdx
  <2> QED BY <1>0, <1>1, <1>2, <1>7, <2>1 DEF LoadIdx
<1>8. CASE StoreIdx(F20)
  BY <1>0, <1>1, <1>2, <1>8 DEF StoreIdx
<1>9. CASE RunInRegisters(F20)
  <2>1. iters'[F20] = iters[F20] + IterCnt
    BY <1>0, <1>9, CountedOwn DEF RunInRegisters
  <2> QED BY <1>0, <1>1, <1>2, <1>9, <2>1 DEF RunInRegisters
<1>10. CASE WriteBack(F20)
  BY <1>0, <1>1, <1>2, <1>10 DEF WriteBack
<1>11. CASE AfterCall(F20)
  <2>1. limit[F20] < Blocks
    BY <1>11 DEF AfterCall, Positions, Position, InCall
  <2> QED BY <1>0, <1>1, <1>2, <1>11, <2>1 DEF AfterCall
<1>12. CASE Complete(F20)
  <2>1. limit[F20] = Blocks => Finished(F20) = Blocks * IterCnt
    BY DEF Finished
  <2>2. Blocks * IterCnt \in Nat
    BY OneMore
  <2> QED BY <1>0, <1>1, <1>2, <1>12, <2>1, <2>2 DEF Complete
<1>13. CASE Measure(F20)
  BY <1>0, <1>1, <1>13 DEF Measure, Positions, Position
<1> QED
  BY <1>3, <1>4, <1>5, <1>6, <1>7, <1>8, <1>9, <1>10, <1>11, <1>12, <1>13, StepCases

LEMMA StepKeepsJobs ==
  ASSUME Core, Jobs10And20, NEW t \in Thread, Begin(t) \/ ThreadStep(t)
  PROVE  Jobs10And20'
<1> SUFFICES ASSUME prog = "lab1" PROVE Jobs10And20'
  BY StepFrame DEF Jobs10And20, Core
<1> USE FibTestAssumption, Services
<1>1. Job10 /\ Job20 /\ idx <= IterCnt + 1
  BY DEF Jobs10And20
<1>2. t \in {F10, F20} /\ MayRun(t)
  BY StepFrame DEF Core, Users
<1>3. Job10' /\ Job20'
  BY <1>1, <1>2, StepKeepsJob10, StepOf10KeepsJob20, StepOf20KeepsJob20
<1>4. idx' <= IterCnt + 1
  <2> USE DEF At, Goto, Core, TypeOK, Labels, globals, counts
  <2>1. CASE Begin(t)
    BY <1>1, <2>1 DEF Begin
  <2>2. CASE Inner(t)
    BY <1>1, <2>2, InnerFrame
  <2>3. CASE ResetIdx(t)
    BY <1>1, <2>3 DEF ResetIdx
  <2>4. CASE StoreIdx(t)
    BY <1>1, <1>2, <2>4 DEF StoreIdx, Job10, Job20
  <2>5. CASE WriteBack(t)
    BY <1>1, <2>5 DEF WriteBack
  <2>6. CASE TestIdx(t) \/ LoadIdx(t) \/ RunInRegisters(t) \/ AfterCall(t) \/ Complete(t)
             \/ Measure(t)
    BY <1>1, <2>6
    DEF TestIdx, LoadIdx, RunInRegisters, AfterCall, Complete, Measure
  <2> QED BY <2>1, <2>2, <2>3, <2>4, <2>5, <2>6, StepCases
<1> QED BY <1>3, <1>4 DEF Jobs10And20

LEMMA NextJobs == Core /\ Jobs10And20 /\ [Next]_vars => Jobs10And20'
<1>1. UNCHANGED vars /\ Jobs10And20 => Jobs10And20'
  BY DEF vars, globals, counts, Jobs10And20, Job10, Job20, Finished, Found, Taken
<1> QED BY <1>1, StepKeepsJobs DEF Next

\* What the services have done is between what is planned and what F10 took.
LEMMA JobsDone ==
  ASSUME Core, Jobs10And20, prog = "lab1"
  PROVE  WorkDone
<1> USE FibTestAssumption, Services DEF Jobs10And20, Job10, Job20
<1>0. /\ TypeOK /\ IterCnt \in Nat \ {0} /\ iters[F10] \in Nat /\ iters[F20] \in Nat
      /\ Taken \in Nat /\ Finished(F20) \in Nat /\ Blocks * IterCnt \in Nat
      /\ limit[F20] \in 0 .. Blocks /\ cuts \in Nat /\ idx \in Nat /\ Found \in Nat
  BY FinishedType, TakenType, OneMore DEF Core, TypeOK, Found
<1>1. pc[F10] = "complete" => iters[F10] = Blocks * IterCnt
  BY <1>0, OneMore DEF Finished
<1>2. iters[F20] <= Blocks * IterCnt
  <2>1. CASE pc[F20] = "idle"
    BY <2>1
  <2>2. CASE pc[F20] = "complete"
    BY <1>0, <2>2 DEF Finished
  <2>3. CASE pc[F20] \in InCall
    <3>1. limit[F20] + 1 <= Blocks
      BY <1>0, <2>3 DEF Core, Positions, Position
    <3>2. Finished(F20) + IterCnt <= Blocks * IterCnt
      BY <1>0, <3>1, OneMore, MoreIsMore DEF Finished
    <3>3. iters[F20] - Finished(F20) <= IterCnt
      <4>1. CASE pc[F20] \in {"reset", "writeBack", "return"}
        BY <1>0, <4>1
      <4>2. CASE pc[F20] = "test"
        BY <1>0, <4>2 DEF AtMost
      <4>3. CASE pc[F20] \in Passed
        BY <1>0, <4>3 DEF AtMost
      <4>4. CASE pc[F20] = "storeIdx"
        BY <1>0, <4>4 DEF AtMost, Core, TypeOK
      <4> QED BY <2>3, <4>1, <4>2, <4>3, <4>4 DEF InCall, InLoop
    <3> QED BY <1>0, <3>2, <3>3
  <2> QED
    BY <1>0, <2>1, <2>2, <2>3
    DEF Core, TypeOK, Labels, Positions, Position, InCall, InLoop, Passed
<1>3. ASSUME pc[F20] = "complete" PROVE iters[F20] >= (Blocks - cuts) * IterCnt
  <2>1. iters[F20] >= Blocks * IterCnt - Taken
    BY <1>0, <1>3 DEF Finished
  <2>2. CASE cuts <= Blocks
    BY <1>0, <2>1, <2>2, MoreIsMore DEF Taken
  <2>3. CASE cuts > Blocks
    <3>1. (Blocks - cuts) * IterCnt <= 0
      BY <1>0, <2>3, LessThanNone
    <3>2. (Blocks - cuts) * IterCnt \in Int
      BY <1>0
    <3> QED BY <1>0, <3>1, <3>2
  <2> QED BY <1>0, <2>2, <2>3
<1> QED BY <1>1, <1>2, <1>3 DEF WorkDone

--------------------------------------------------------------------------------
(* How far idx runs.                                                       *)

LEMMA ThirdPlace ==
  ASSUME NEW p \in Place, NEW q \in Place
  PROVE  \E r \in Place : r # p /\ r # q
  BY DEF Place

LEMMA Squares ==
  ASSUME NEW x \in Nat, NEW y \in Nat, x <= y
  PROVE  x * (x + 1) \in Nat /\ x * (x + 1) <= y * (y + 1)
  BY Z3

LEMMA SquareBelow ==
  ASSUME NEW b \in Nat \ {0}
  PROVE  (b - 1) * (b - 1 + 1) = b * (b + 1) - 2 * b
  BY Z3

LEMMA LimitType == (IterCnt + 1) * (IterCnt + 6) \in Nat
  BY FibTestAssumption

\* Less fuel, and a lower counter, never cost more.
LEMMA PaysLess ==
  ASSUME NEW f \in [Place -> Nat], NEW g \in [Place -> Nat], NEW h \in Nat, NEW k \in Nat,
         Pays(f, h), k <= h, \A u \in Place : g[u] <= f[u]
  PROVE  Pays(g, k)
<1> SUFFICES ASSUME NEW p \in Place, NEW q \in Place, NEW r \in Place, p # q, q # r, p # r
             PROVE  2 * k + g[p] * (g[p] + 1) + 2 * g[q] + (IF g[r] > 0 THEN 2 ELSE 0)
                      <= (IterCnt + 1) * (IterCnt + 6)
  BY DEF Pays
<1>1. 2 * h + f[p] * (f[p] + 1) + 2 * f[q] + (IF f[r] > 0 THEN 2 ELSE 0)
        <= (IterCnt + 1) * (IterCnt + 6)
  BY DEF Pays
<1>2. /\ g[p] * (g[p] + 1) \in Nat /\ f[p] * (f[p] + 1) \in Nat
      /\ g[p] * (g[p] + 1) <= f[p] * (f[p] + 1)
  BY Squares
<1>3. g[q] <= f[q] /\ g[r] <= f[r] /\ g[q] \in Nat /\ f[q] \in Nat /\ g[r] \in Nat /\ f[r] \in Nat
  OBVIOUS
<1>4. 2 * k <= 2 * h
  OBVIOUS
<1> DEFINE x == g[p] * (g[p] + 1)
           y == f[p] * (f[p] + 1)
           lim == (IterCnt + 1) * (IterCnt + 6)
<1>5. x \in Nat /\ y \in Nat /\ x <= y /\ lim \in Nat
  BY <1>2, LimitType
<1>6. 2 * h + y + 2 * f[q] + (IF f[r] > 0 THEN 2 ELSE 0) <= lim
  BY <1>1
<1> HIDE DEF x, y, lim
<1>7. 2 * k + x + 2 * g[q] + (IF g[r] > 0 THEN 2 ELSE 0) <= lim
  BY <1>3, <1>4, <1>5, <1>6
<1> QED BY <1>7 DEF x, lim

(* Whoever sets idx back gives fuel to others, but less than its own: s    *)
(* takes the place of the first of p, q and r that was given some.         *)
LEMMA PaysLowering ==
  ASSUME NEW f \in [Place -> Nat], NEW g \in [Place -> Nat], NEW h \in Nat, Pays(f, h),
         NEW s \in Place, f[s] >= 1, g[s] <= f[s] - 1,
         \A u \in Place : g[u] <= f[u] \/ g[u] <= f[s] - 1
  PROVE  Pays(g, h)
<1> SUFFICES ASSUME NEW p \in Place, NEW q \in Place, NEW r \in Place, p # q, q # r, p # r
             PROVE  2 * h + g[p] * (g[p] + 1) + 2 * g[q] + (IF g[r] > 0 THEN 2 ELSE 0)
                      <= (IterCnt + 1) * (IterCnt + 6)
  BY DEF Pays
<1> DEFINE b == f[s]
           Square(n) == n * (n + 1)
           Flag(n) == IF n > 0 THEN 2 ELSE 0
           lim == (IterCnt + 1) * (IterCnt + 6)
<1>1. /\ b \in Nat /\ b >= 1 /\ g[p] \in Nat /\ g[q] \in Nat /\ g[r] \in Nat
      /\ f[p] \in Nat /\ f[q] \in Nat /\ f[r] \in Nat
  OBVIOUS
<1>2. ASSUME NEW x \in Place, NEW y \in Place, NEW z \in Place, x # y, y # z, x # z
      PROVE  2 * h + Square(f[x]) + 2 * f[y] + Flag(f[z]) <= lim
  BY <1>2 DEF Pays
<1>3. /\ lim \in Nat /\ Square(g[p]) \in Nat /\ Square(f[p]) \in Nat /\ Square(b) \in Nat
      /\ g[p] <= f[p] => Square(g[p]) <= Square(f[p])
      /\ g[p] <= b - 1 => Square(g[p]) <= Square(b) - 2 * b
  <2>1. Square(g[p]) \in Nat /\ Square(f[p]) \in Nat /\ Square(b) \in Nat
        /\ (g[p] <= f[p] => Square(g[p]) <= Square(f[p]))
    BY <1>1, Squares
  <2>2. b - 1 \in Nat /\ Square(b - 1) = Square(b) - 2 * b
    BY <1>1, SquareBelow
  <2>3. g[p] <= b - 1 => Square(g[p]) <= Square(b - 1)
    BY <1>1, <2>2, Squares
  <2> HIDE DEF Square
  <2> QED BY <2>1, <2>2, <2>3, LimitType
<1>4. \A u \in Place : Flag(f[u]) \in 0 .. 2 /\ Flag(g[u]) \in 0 .. 2
  OBVIOUS
<1>5. Flag(b) = 2 /\ (g[r] <= f[r] => Flag(g[r]) <= Flag(f[r]))
  BY <1>1
<1>6. /\ p = s => g[p] <= b - 1
      /\ q = s => g[q] <= b - 1
      /\ g[p] <= f[p] \/ g[p] <= b - 1
      /\ g[q] <= f[q] \/ g[q] <= b - 1
      /\ g[r] <= f[r] \/ g[r] <= b - 1
  OBVIOUS
<1>7. s \in Place
  OBVIOUS
<1> HIDE DEF Square, Flag, lim, b
<1>8. 2 * h + Square(g[p]) + 2 * g[q] + Flag(g[r]) <= lim
  <2>1. CASE g[p] <= b - 1 /\ g[q] <= b - 1
    <3>1. PICK y \in Place : y # s
      BY ThirdPlace
    <3>2. PICK z \in Place : z # s /\ z # y
      BY ThirdPlace
    <3>3. 2 * h + Square(b) + 2 * f[y] + Flag(f[z]) <= lim
      BY <1>2, <3>1, <3>2 DEF b
    <3> QED BY <1>1, <1>3, <1>4, <2>1, <3>3
  <2>2. CASE g[p] <= b - 1 /\ g[q] <= f[q] /\ q # s
    <3>1. PICK z \in Place : z # s /\ z # q
      BY ThirdPlace
    <3>2. 2 * h + Square(b) + 2 * f[q] + Flag(f[z]) <= lim
      BY <1>2, <2>2, <3>1 DEF b
    <3> QED BY <1>1, <1>3, <1>4, <2>2, <3>2
  <2>3. CASE g[p] <= f[p] /\ p # s /\ g[q] <= b - 1
    <3>1. PICK z \in Place : z # s /\ z # p
      BY ThirdPlace
    <3>2. 2 * h + Square(f[p]) + 2 * b + Flag(f[z]) <= lim
      BY <1>2, <2>3, <3>1 DEF b
    <3> QED BY <1>1, <1>3, <1>4, <2>3, <3>2
  <2>4. CASE g[p] <= f[p] /\ p # s /\ g[q] <= f[q] /\ q # s
    <3>1. 2 * h + Square(f[p]) + 2 * f[q] + Flag(f[r]) <= lim
      BY <1>2
    <3>2. 2 * h + Square(f[p]) + 2 * f[q] + Flag(b) <= lim
      BY <1>2, <2>4 DEF b
    <3> QED BY <1>1, <1>3, <1>4, <1>5, <1>6, <2>4, <3>1, <3>2
  <2> QED BY <1>6, <2>1, <2>2, <2>3, <2>4
<1> QED BY <1>8 DEF Square, Flag, lim

(* Whoever loads idx at its limit spends its last fuel on one more: it is  *)
(* among p, q and r or takes the place of e, who has none.                 *)
LEMMA PaysForOneMore ==
  ASSUME NEW f \in [Place -> Nat], NEW g \in [Place -> Nat], NEW h \in Nat, Pays(f, h),
         NEW s \in Place, f[s] = 1, g[s] = 0, \A u \in Place \ {s} : g[u] = f[u],
         NEW e \in Place, e # s, f[e] = 0
  PROVE  Pays(g, h + 1)
<1> SUFFICES ASSUME NEW p \in Place, NEW q \in Place, NEW r \in Place, p # q, q # r, p # r
             PROVE  2 * (h + 1) + g[p] * (g[p] + 1) + 2 * g[q] + (IF g[r] > 0 THEN 2 ELSE 0)
                      <= (IterCnt + 1) * (IterCnt + 6)
  BY DEF Pays
<1> DEFINE Square(n) == n * (n + 1)
           Flag(n) == IF n > 0 THEN 2 ELSE 0
           lim == (IterCnt + 1) * (IterCnt + 6)
<1>1. ASSUME NEW x \in Place, NEW y \in Place, NEW z \in Place, x # y, y # z, x # z
      PROVE  2 * h + Square(f[x]) + 2 * f[y] + Flag(f[z]) <= lim
  BY <1>1 DEF Pays
<1>2. Square(0) = 0 /\ Square(1) = 2 /\ Flag(0) = 0 /\ Flag(1) = 2 /\ lim \in Nat
  BY LimitType
<1>3. \A u \in Place : /\ Square(f[u]) \in Nat /\ Flag(f[u]) \in Nat
                       /\ Square(g[u]) \in Nat /\ Flag(g[u]) \in Nat
  BY Squares
<1>4. e \in {p, q, r} \/ s \in {p, q, r}
  BY DEF Place
<1> HIDE DEF Square, Flag, lim
<1>5. 2 * (h + 1) + Square(g[p]) + 2 * g[q] + Flag(g[r]) <= lim
  <2>1. CASE s = p
    BY <1>1, <1>2, <1>3, <2>1
  <2>2. CASE s = q
    BY <1>1, <1>2, <1>3, <2>2
  <2>3. CASE s = r
    BY <1>1, <1>2, <1>3, <2>3
  <2>4. CASE s \notin {p, q, r} /\ e = p
    <3>1. 2 * h + Square(f[s]) + 2 * f[q] + Flag(f[r]) <= lim
      BY <1>1, <2>4
    <3> QED BY <1>2, <1>3, <2>4, <3>1
  <2>5. CASE s \notin {p, q, r} /\ e = q
    <3>1. 2 * h + Square(f[p]) + 2 * f[s] + Flag(f[r]) <= lim
      BY <1>1, <2>5
    <3> QED BY <1>2, <1>3, <2>5, <3>1
  <2>6. CASE s \notin {p, q, r} /\ e = r
    <3>1. 2 * h + Square(f[p]) + 2 * f[q] + Flag(f[s]) <= lim
      BY <1>1, <2>6
    <3> QED BY <1>2, <1>3, <2>6, <3>1
  <2> QED BY <1>4, <2>1, <2>2, <2>3, <2>4, <2>5, <2>6
<1> QED BY <1>5 DEF Square, Flag, lim

LEMMA FuelType ==
  ASSUME TypeOK
  PROVE  /\ \A u \in Place : Fuel(u) \in 0 .. IterCnt + 1
         /\ Fuels \in [Place -> Nat]
         /\ \A u \in Place : Fuels[u] = Fuel(u)
<1>1. IterCnt \in Nat \ {0} /\ idx \in Nat /\ \A u \in Thread : reg[u] \in Nat
  BY FibTestAssumption DEF TypeOK
<1>2. \A u \in Place : Fuel(u) \in 0 .. IterCnt + 1
  BY <1>1 DEF Fuel
<1> QED BY <1>1, <1>2 DEF Fuels

\* Primed idx is given a name: the provers subtract no primed variable.
LEMMA FuelTypeNext ==
  ASSUME TypeOK'
  PROVE  /\ \A u \in Place : Fuel(u)' \in 0 .. IterCnt + 1
         /\ Fuels' \in [Place -> Nat]
         /\ \A u \in Place : Fuels'[u] = Fuel(u)'
<1>1. IterCnt \in Nat \ {0} /\ \A u \in Thread : reg'[u] \in Nat
  BY FibTestAssumption DEF TypeOK
<1>2. PICK m \in Nat : m = idx'
  BY DEF TypeOK
<1>3. ASSUME NEW u \in Place PROVE Fuel(u)' \in 0 .. IterCnt + 1
  <2>1. CASE u \notin Thread \/ pc'[u] \in {"idle", "reset"}
    <3>1. Fuel(u)' = IterCnt + 1
      BY <2>1 DEF Fuel
    <3> QED BY <1>1, <3>1
  <2>2. CASE u \in Thread /\ pc'[u] = "test"
    <3>1. Fuel(u)' = IF m < IterCnt THEN IterCnt - m ELSE 0
      BY <1>2, <2>2 DEF Fuel
    <3> QED BY <1>1, <3>1
  <2>3. CASE u \in Thread /\ pc'[u] \in Passed
    <3>1. Fuel(u)' = IF m < IterCnt THEN IterCnt - m ELSE 1
      BY <1>2, <2>3 DEF Fuel, Passed
    <3> QED BY <1>1, <3>1
  <2>4. CASE u \in Thread /\ pc'[u] = "storeIdx"
    <3>1. PICK n \in Nat : n = reg'[u]
      BY <1>1, <2>4
    <3>2. Fuel(u)' = IF n < IterCnt THEN IterCnt - n ELSE 0
      BY <2>4, <3>1 DEF Fuel, Passed
    <3> QED BY <1>1, <3>2
  <2>5. CASE /\ u \in Thread
             /\ pc'[u] \notin {"idle", "reset", "test", "storeIdx"} \cup Passed
    <3>1. Fuel(u)' = 0
      BY <2>5 DEF Fuel
    <3> QED BY <1>1, <3>1
  <2> QED BY <2>1, <2>2, <2>3, <2>4, <2>5
<1> QED BY <1>1, <1>3 DEF Fuels

\* Whoever does not move gets fuel only from idx being set back.
LEMMA FuelOfOthers ==
  ASSUME TypeOK, TypeOK', NEW u \in Place, u \in Thread => pc'[u] = pc[u] /\ reg'[u] = reg[u]
  PROVE  /\ idx' >= idx => Fuel(u)' <= Fuel(u)
         /\ \A n \in Nat : idx' + n >= IterCnt => Fuel(u)' <= Fuel(u) \/ Fuel(u)' <= n
<1>0. idx \in Nat /\ IterCnt \in Nat
  BY FibTestAssumption DEF TypeOK
<1>1. PICK m \in Nat : m = idx'
  BY DEF TypeOK
<1> SUFFICES /\ m >= idx => Fuel(u)' <= Fuel(u)
             /\ \A n \in Nat : m + n >= IterCnt => Fuel(u)' <= Fuel(u) \/ Fuel(u)' <= n
  BY <1>1
<1>2. CASE u \notin Thread \/ pc[u] \in {"idle", "reset"}
  <2>1. Fuel(u)' = IterCnt + 1 /\ Fuel(u) = IterCnt + 1
    BY <1>2 DEF Fuel
  <2> QED BY <1>0, <2>1
<1>3. CASE u \in Thread /\ pc[u] = "test"
  <2>1. Fuel(u) = IF idx < IterCnt THEN IterCnt - idx ELSE 0
    BY <1>3 DEF Fuel
  <2>2. Fuel(u)' = IF m < IterCnt THEN IterCnt - m ELSE 0
    BY <1>1, <1>3 DEF Fuel
  <2> QED BY <1>0, <2>1, <2>2
<1>4. CASE u \in Thread /\ pc[u] \in Passed
  <2>1. Fuel(u) = IF idx < IterCnt THEN IterCnt - idx ELSE 1
    BY <1>4 DEF Fuel, Passed
  <2>2. Fuel(u)' = IF m < IterCnt THEN IterCnt - m ELSE 1
    BY <1>1, <1>4 DEF Fuel, Passed
  <2> QED BY <1>0, <2>1, <2>2
<1>5. CASE u \in Thread /\ pc[u] \notin {"idle", "reset", "test"} \cup Passed
  <2>1. Fuel(u)' = Fuel(u)
    BY <1>5 DEF Fuel
  <2>2. Fuel(u) \in Nat
    BY FuelType
  <2> QED BY <2>1, <2>2
<1> QED BY <1>2, <1>3, <1>4, <1>5

LEMMA InitRange == Init => Range
<1> SUFFICES ASSUME Init, prog = "pthread" PROVE Range
  BY DEF Range
<1> USE FibTestAssumption
<1>1. idx = 0 /\ IterCnt \in Nat \ {0} /\ \A t \in Thread : pc[t] = "idle"
  BY DEF Init
<1>2. ASSUME NEW h \in Nat, Copy(h) PROVE Pays(Fuels, h)
  <2>1. h <= IterCnt
    BY <1>1, <1>2 DEF Copy
  <2>2. \A u \in Place : Fuels[u] = IterCnt + 1
    BY <1>1 DEF Fuels, Fuel
  <2>3. (IterCnt + 1) * (IterCnt + 1 + 1) + 4 * (IterCnt + 1) = (IterCnt + 1) * (IterCnt + 6)
    BY <1>1
  <2>4. (IterCnt + 1) * (IterCnt + 1 + 1) \in Nat
    BY <1>1
  <2> QED BY <1>1, <2>1, <2>2, <2>3, <2>4, LimitType DEF Pays
<1> QED BY <1>1, <1>2 DEF Range

\* The counters stay paid for when nobody gets more fuel ...
LEMMA StillPaid ==
  ASSUME TypeOK, TypeOK', \A h \in Nat : Copy(h) => Pays(Fuels, h),
         \A k \in Nat : Copy(k)' => \E h \in Nat : Copy(h) /\ k <= h,
         \A u \in Place : Fuel(u)' <= Fuel(u)
  PROVE  \A k \in Nat : Copy(k)' => Pays(Fuels, k)'
<1> DEFINE f == Fuels
           g == Fuels'
<1>1. /\ f \in [Place -> Nat] /\ g \in [Place -> Nat]
      /\ \A u \in Place : f[u] = Fuel(u) /\ g[u] = Fuel(u)'
  BY FuelType, FuelTypeNext
<1>2. SUFFICES ASSUME NEW k \in Nat, Copy(k)' PROVE Pays(g, k)
  BY DEF Pays
<1>3. PICK h \in Nat : Copy(h) /\ k <= h
  BY <1>2
<1>4. Pays(f, h) /\ \A u \in Place : g[u] <= f[u]
  BY <1>1, <1>3
<1> HIDE DEF f, g
<1> QED BY <1>1, <1>3, <1>4, PaysLess

\* ... and when t pays for setting idx back.
LEMMA PaidFor ==
  ASSUME TypeOK, TypeOK', NEW t \in Place, \A h \in Nat : Copy(h) => Pays(Fuels, h),
         \A k \in Nat : Copy(k)' => \E h \in Nat : Copy(h) /\ k <= h,
         Fuel(t) >= 1, Fuel(t)' <= Fuel(t) - 1,
         \A u \in Place : Fuel(u)' <= Fuel(u) \/ Fuel(u)' <= Fuel(t) - 1
  PROVE  \A k \in Nat : Copy(k)' => Pays(Fuels, k)'
<1> DEFINE f == Fuels
           g == Fuels'
<1>1. /\ f \in [Place -> Nat] /\ g \in [Place -> Nat]
      /\ \A u \in Place : f[u] = Fuel(u) /\ g[u] = Fuel(u)'
  BY FuelType, FuelTypeNext
<1>2. SUFFICES ASSUME NEW k \in Nat, Copy(k)' PROVE Pays(g, k)
  BY DEF Pays
<1>3. PICK h \in Nat : Copy(h) /\ k <= h
  BY <1>2
<1>4. Pays(f, h)
  BY <1>3
<1>5. f[t] >= 1 /\ g[t] <= f[t] - 1 /\ \A u \in Place : g[u] <= f[u] \/ g[u] <= f[t] - 1
  BY <1>1
<1> HIDE DEF f, g
<1>6. Pays(g, h)
  BY <1>1, <1>4, <1>5, PaysLowering
<1>7. \A u \in Place : g[u] <= g[u]
  BY <1>1
<1> QED BY <1>1, <1>3, <1>6, <1>7, PaysLess

LEMMA StepKeepsRange ==
  ASSUME Core, Core', Range, NEW t \in Thread, Begin(t) \/ ThreadStep(t)
  PROVE  Range'
<1> SUFFICES ASSUME prog = "pthread" PROVE Range'
  BY StepFrame DEF Range, Core
<1> USE FibTestAssumption
<1>0. /\ TypeOK /\ TypeOK' /\ IterCnt \in Nat \ {0} /\ idx \in Nat /\ idx' \in Nat
      /\ reg \in [Thread -> Nat] /\ reg' \in [Thread -> Nat] /\ t \in Place
      /\ \A u \in Thread : u \in Place
  <2>1. \A u \in Thread : u \in Place
    BY DEF Thread, Place
  <2> QED BY <2>1 DEF Core, TypeOK
<1>1. /\ prog' = "pthread" /\ inRegisters' = inRegisters
      /\ \A u \in Thread \ {t} : pc'[u] = pc[u] /\ reg'[u] = reg[u]
  BY <1>0, StepFrame
<1>2. Position(t)
  BY DEF Core, Positions
<1>3. CASE inRegisters
  <2>1. idx' <= IterCnt
    <3> USE <1>0, <1>1, <1>2, <1>3 DEF Range, At, globals, Position, InLoop, Passed
    <3>1. CASE Begin(t)
      BY <3>1 DEF Begin
    <3>2. CASE Inner(t)
      BY <3>2, InnerFrame
    <3>3. CASE WriteBack(t)
      BY <3>3 DEF WriteBack
    <3>4. CASE ResetIdx(t) \/ TestIdx(t) \/ LoadIdx(t) \/ StoreIdx(t)
      BY <3>4 DEF ResetIdx, TestIdx, LoadIdx, StoreIdx
    <3>5. CASE RunInRegisters(t) \/ AfterCall(t) \/ Complete(t) \/ Measure(t)
      BY <3>5 DEF RunInRegisters, AfterCall, Complete, Measure
    <3> QED BY <3>1, <3>2, <3>3, <3>4, <3>5, StepCases
  <2> QED BY <1>1, <1>3, <2>1 DEF Range
<1>4. CASE ~inRegisters
  <2>1. /\ idx >= IterCnt => \E u \in Thread : Arrived(u)
        /\ \A h \in Nat : Copy(h) => Pays(Fuels, h)
    BY <1>4 DEF Range
  <2>2. \A u \in Place \ {t} : u \in Thread => pc'[u] = pc[u] /\ reg'[u] = reg[u]
    BY <1>1
  <2>3. /\ idx' >= idx => \A u \in Place \ {t} : Fuel(u)' <= Fuel(u)
        /\ \A n \in Nat : idx' + n >= IterCnt =>
             \A u \in Place \ {t} : Fuel(u)' <= Fuel(u) \/ Fuel(u)' <= n
    BY <1>0, <2>2, FuelOfOthers
  <2>4. /\ Fuel(t) \in Nat /\ Fuel(t)' \in Nat
        /\ \A u \in Place : Fuel(u) \in Nat /\ Fuel(u)' \in Nat
    BY <1>0, FuelType, FuelTypeNext
  <2>5. /\ idx' >= IterCnt => \E u \in Thread : Arrived(u)'
        /\ \A h \in Nat : Copy(h)' => Pays(Fuels, h)'
    <3> USE DEF At, Goto, Core, TypeOK, Labels, globals
    <3>0. ASSUME NEW l \in Labels, pc' = [pc EXCEPT ![t] = l], l # "storeIdx", idx' = idx
          PROVE  \A k \in Nat : Copy(k)' => Copy(k) /\ k <= k
      BY <1>0, <1>1, <3>0 DEF Copy
    <3>1. ASSUME NEW l \in Labels, pc' = [pc EXCEPT ![t] = l], l # "storeIdx", idx' = idx,
                 Fuel(t)' <= Fuel(t)
          PROVE  \A k \in Nat : Copy(k)' => Pays(Fuels, k)'
      <4>1. \A k \in Nat : Copy(k)' => \E h \in Nat : Copy(h) /\ k <= h
        BY <3>0, <3>1
      <4>2. \A u \in Place : Fuel(u)' <= Fuel(u)
        BY <1>0, <2>3, <2>4, <3>1
      <4> QED BY <1>0, <2>1, <4>1, <4>2, StillPaid
    <3>2. ASSUME ~Arrived(t), idx' = idx PROVE idx' >= IterCnt => \E u \in Thread : Arrived(u)'
      BY <1>1, <2>1, <3>2 DEF Arrived
    <3>3. ASSUME Arrived(t)' PROVE idx' >= IterCnt => \E u \in Thread : Arrived(u)'
      BY <3>3
    <3>4. CASE Begin(t)
      <4>1. pc[t] = "idle" /\ pc' = [pc EXCEPT ![t] = "reset"] /\ idx' = idx
        BY <3>4 DEF Begin
      <4>2. Fuel(t)' <= Fuel(t) /\ ~Arrived(t)
        BY <1>0, <4>1 DEF Fuel, Arrived
      <4> QED BY <3>1, <3>2, <4>1, <4>2
    <3>5. CASE Inner(t)
      <4>1. pc[t] \in Passed /\ idx' = idx /\ \E l \in Passed : pc' = [pc EXCEPT ![t] = l]
        BY <1>0, <3>5, InnerFrame
      <4>2. PICK l \in Passed : pc' = [pc EXCEPT ![t] = l]
        BY <4>1
      <4>3. Fuel(t)' <= Fuel(t) /\ ~Arrived(t)
        BY <1>0, <2>4, <4>1, <4>2 DEF Fuel, Arrived, Passed
      <4> QED BY <3>1, <3>2, <4>1, <4>2, <4>3 DEF Passed
    <3>6. CASE TestIdx(t)
      <4>1. PICK l \in Passed \cup {"return"} :
              /\ pc[t] = "test" /\ idx' = idx /\ pc' = [pc EXCEPT ![t] = l]
              /\ IF idx >= IterCnt THEN l = "return" ELSE l \in Passed
        BY <3>6 DEF TestIdx, Passed
      <4>2. Fuel(t)' <= Fuel(t)
        BY <1>0, <4>1 DEF Fuel, Passed
      <4>3. idx' >= IterCnt => Arrived(t)'
        BY <1>0, <4>1 DEF Arrived
      <4> QED BY <3>1, <4>1, <4>2, <4>3 DEF Passed
    <3>7. CASE AfterCall(t)
      <4>1. pc[t] = "return" /\ pc' = [pc EXCEPT ![t] = "measure"] /\ idx' = idx
        BY <3>7 DEF AfterCall
      <4>2. Fuel(t)' <= Fuel(t) /\ Arrived(t)'
        BY <1>0, <4>1 DEF Fuel, Arrived, Passed
      <4> QED BY <3>1, <3>3, <4>1, <4>2
    <3>8. CASE Measure(t)
      <4>1. pc[t] = "measure" /\ pc' = [pc EXCEPT ![t] = "exited"] /\ idx' = idx
        BY <3>8 DEF Measure
      <4>2. Fuel(t)' <= Fuel(t) /\ Arrived(t)'
        BY <1>0, <4>1 DEF Fuel, Arrived, Passed
      <4> QED BY <3>1, <3>3, <4>1, <4>2
    <3>9. CASE Complete(t) \/ RunInRegisters(t) \/ WriteBack(t)
      BY <1>2, <1>4, <3>9 DEF Complete, RunInRegisters, WriteBack, Position
    <3>10. CASE ResetIdx(t)
      <4>1. pc[t] = "reset" /\ pc' = [pc EXCEPT ![t] = "test"] /\ idx' = 0
        BY <3>10 DEF ResetIdx
      <4>2. Fuel(t) = IterCnt + 1 /\ Fuel(t)' = IterCnt
        BY <1>0, <4>1 DEF Fuel
      <4>3. \A u \in Place : Fuel(u)' <= Fuel(u) \/ Fuel(u)' <= Fuel(t) - 1
        BY <1>0, <2>3, <2>4, <4>1, <4>2
      <4>4. ASSUME NEW k \in Nat, Copy(k)' PROVE \E h \in Nat : Copy(h) /\ k <= h
        BY <1>0, <1>1, <4>1, <4>4 DEF Copy
      <4>5. \A h \in Nat : Copy(h)' => Pays(Fuels, h)'
        BY <1>0, <2>1, <4>2, <4>3, <4>4, PaidFor
      <4> QED BY <1>0, <4>1, <4>5
    <3>11. CASE StoreIdx(t)
      <4>1. pc[t] = "storeIdx" /\ pc' = [pc EXCEPT ![t] = "test"] /\ idx' = reg[t] + 1
        BY <3>11 DEF StoreIdx
      <4>2. ASSUME NEW k \in Nat, Copy(k)' PROVE Copy(k)
        BY <1>0, <1>1, <4>1, <4>2 DEF Copy
      <4>3. \A k \in Nat : Copy(k)' => \E h \in Nat : Copy(h) /\ k <= h
        BY <4>2
      <4>4. reg[t] \in Nat
        OBVIOUS
      <4>5. Arrived(t)'
        BY <4>1 DEF Arrived
      <4>6. CASE reg[t] < IterCnt
        <5>1. Fuel(t) = IterCnt - reg[t] /\ Fuel(t)' = IterCnt - reg[t] - 1
          BY <1>0, <4>1, <4>4, <4>6 DEF Fuel, Passed
        <5>2. idx' + (Fuel(t) - 1) >= IterCnt /\ Fuel(t) - 1 \in Nat
          BY <1>0, <4>1, <4>4, <4>6, <5>1
        <5>3. \A u \in Place : Fuel(u)' <= Fuel(u) \/ Fuel(u)' <= Fuel(t) - 1
          <6>1. \A u \in Place \ {t} : Fuel(u)' <= Fuel(u) \/ Fuel(u)' <= Fuel(t) - 1
            BY <2>3, <5>2
          <6>2. Fuel(t)' <= Fuel(t) - 1
            BY <1>0, <4>4, <5>1
          <6> QED BY <6>1, <6>2
        <5>4. Fuel(t) >= 1 /\ Fuel(t)' <= Fuel(t) - 1
          BY <1>0, <4>4, <4>6, <5>1
        <5>5. \A k \in Nat : Copy(k)' => Pays(Fuels, k)'
          BY <1>0, <2>1, <4>3, <5>3, <5>4, PaidFor
        <5> QED BY <3>3, <4>5, <5>5
      <4>7. CASE reg[t] >= IterCnt
        <5>1. Fuel(t) = 0 /\ Fuel(t)' = 0
          BY <1>0, <4>1, <4>4, <4>7 DEF Fuel, Passed
        <5>2. idx' + 0 >= IterCnt
          BY <1>0, <4>1, <4>4, <4>7
        <5>3. \A u \in Place : Fuel(u)' <= Fuel(u)
          <6>1. \A u \in Place \ {t} : Fuel(u)' <= Fuel(u) \/ Fuel(u)' <= 0
            BY <2>3, <5>2
          <6> QED BY <2>4, <5>1, <6>1
        <5>4. \A k \in Nat : Copy(k)' => Pays(Fuels, k)'
          BY <1>0, <2>1, <4>3, <5>3, StillPaid
        <5> QED BY <3>3, <4>5, <5>4
      <4> QED BY <1>0, <4>4, <4>6, <4>7
    <3>12. CASE LoadIdx(t)
      <4>1. /\ pc[t] = "loadIdx" /\ pc' = [pc EXCEPT ![t] = "storeIdx"] /\ idx' = idx
            /\ reg'[t] = idx
        BY <3>12 DEF LoadIdx
      <4>2. ~Arrived(t)
        BY <4>1 DEF Arrived
      <4>3. \A k \in Nat : Copy(k)' => Copy(k) \/ k = idx + 1
        BY <1>0, <1>1, <4>1 DEF Copy
      <4>4. CASE idx < IterCnt
        <5>1. Fuel(t) = IterCnt - idx /\ Fuel(t)' = IterCnt - idx
          BY <1>0, <4>1, <4>4 DEF Fuel, Passed
        <5>2. \A k \in Nat : Copy(k)' => \E h \in Nat : Copy(h) /\ k <= h
          <6>1. Copy(IterCnt) /\ idx + 1 <= IterCnt
            BY <1>0, <4>4 DEF Copy
          <6> QED BY <1>0, <4>3, <6>1
        <5>3. \A u \in Place : Fuel(u)' <= Fuel(u)
          BY <1>0, <2>3, <2>4, <4>1, <5>1
        <5> QED BY <1>0, <2>1, <3>2, <4>1, <4>2, <5>2, <5>3, StillPaid
      <4>5. CASE idx >= IterCnt
        <5>1. PICK e \in Thread : Arrived(e)
          BY <2>1, <4>5
        <5>2. e \in Place /\ e # t /\ Fuel(e) = 0
          BY <1>0, <4>2, <4>5, <5>1 DEF Arrived, Fuel, Passed
        <5>3. Fuel(t) = 1 /\ Fuel(t)' = 0
          BY <1>0, <4>1, <4>5 DEF Fuel, Passed
        <5>4. \A u \in Place \ {t} : Fuel(u)' = Fuel(u)
          BY <1>1, <4>1 DEF Fuel
        <5> DEFINE f == Fuels
                   g == Fuels'
        <5>5. /\ f \in [Place -> Nat] /\ g \in [Place -> Nat]
              /\ \A u \in Place : f[u] = Fuel(u) /\ g[u] = Fuel(u)'
          BY <1>0, FuelType, FuelTypeNext
        <5>6. Pays(f, idx)
          BY <1>0, <2>1 DEF Copy
        <5> HIDE DEF f, g
        <5>7. f[t] = 1 /\ g[t] = 0 /\ f[e] = 0 /\ \A u \in Place \ {t} : g[u] = f[u]
          BY <1>0, <5>2, <5>3, <5>4, <5>5
        <5>8. Pays(g, idx + 1)
          BY <1>0, <5>2, <5>5, <5>6, <5>7, PaysForOneMore
        <5>9. ASSUME NEW k \in Nat, Copy(k) PROVE Pays(g, k)
          <6>1. Pays(f, k)
            BY <2>1, <5>9 DEF f
          <6>2. \A u \in Place : g[u] <= f[u]
            BY <5>5, <5>7
          <6>3. k <= k
            OBVIOUS
          <6> QED BY <5>5, <6>1, <6>2, <6>3, PaysLess
        <5>10. \A k \in Nat : Copy(k)' => Pays(g, k)
          BY <4>3, <5>8, <5>9
        <5>11. \A k \in Nat : Copy(k)' => Pays(Fuels, k)'
          BY <5>10 DEF g, Pays
        <5> QED BY <3>2, <4>1, <4>2, <5>11
      <4> QED BY <1>0, <4>4, <4>5
    <3> QED
      BY <3>4, <3>5, <3>6, <3>7, <3>8, <3>9, <3>10, <3>11, <3>12, StepCases
  <2> QED BY <1>1, <1>4, <2>5 DEF Range
<1> QED BY <1>3, <1>4 DEF Core, TypeOK

LEMMA NextRange == Core /\ Core' /\ Range /\ [Next]_vars => Range'
<1>1. UNCHANGED vars /\ Range => Range'
  BY DEF vars, globals, counts, Range, Arrived, Copy, Pays, Fuels, Fuel
<1> QED BY <1>1, StepKeepsRange DEF Next

--------------------------------------------------------------------------------
(* The time that is measured.                                              *)

\* The second and the rest of a time stamp.
LEMMA SplitStamp ==
  ASSUME NEW c \in Nat, NEW f \in Nat \ {0}
  PROVE  /\ c \div f \in Nat /\ (c \div f) * f \in Nat
         /\ c % f \in 0 .. f - 1
         /\ c % f = c - (c \div f) * f
  BY Z3

\* Seconds apart, that is what the product is apart.
LEMMA SecondsApart ==
  ASSUME NEW a \in Int, NEW b \in Int, NEW f \in Nat \ {0}
  PROVE  /\ (a - b) * f = a * f - b * f
         /\ (a - b - 1) * f = a * f - b * f - f
         /\ a - b > 0 => a * f - b * f >= f
         /\ a - b < 0 => a * f - b * f <= 0 - f
         /\ a = b => a * f = b * f
  BY Z3

LEMMA DeltaExact ==
  ASSUME NEW start \in Nat, NEW finish \in Nat
  PROVE  LET dt == Delta(start, finish) IN
           /\ dt.nsec \in 0 .. Sec - 1
           /\ dt.sec * Sec + dt.nsec = IF finish >= start THEN finish - start ELSE 0
           /\ ~dt.ok => finish < start
<1> DEFINE a == finish \div Sec
           b == start \div Sec
           x == finish % Sec
           y == start % Sec
           dt == Delta(start, finish)
<1>1. /\ a \in Nat /\ b \in Nat /\ a * Sec \in Nat /\ b * Sec \in Nat
      /\ x \in 0 .. Sec - 1 /\ y \in 0 .. Sec - 1
      /\ finish = a * Sec + x /\ start = b * Sec + y
  <2>1. Sec \in Nat \ {0}
    BY FibTestAssumption
  <2>2. a \in Nat /\ a * Sec \in Nat /\ x \in 0 .. Sec - 1 /\ x = finish - a * Sec
    BY <2>1, SplitStamp
  <2>3. b \in Nat /\ b * Sec \in Nat /\ y \in 0 .. Sec - 1 /\ y = start - b * Sec
    BY <2>1, SplitStamp
  <2> HIDE DEF a, b, x, y
  <2> QED BY <2>1, <2>2, <2>3
<1>2. dt = IF a - b = 0 /\ x - y < 0 THEN [sec |-> 0, nsec |-> 0, ok |-> FALSE]
           ELSE IF a - b < 0 THEN [sec |-> 0, nsec |-> 0, ok |-> TRUE]
           ELSE IF x - y < 0 THEN [sec |-> a - b - 1, nsec |-> Sec + (x - y), ok |-> TRUE]
           ELSE [sec |-> a - b, nsec |-> x - y, ok |-> TRUE]
  BY DEF Delta
<1> HIDE DEF a, b, x, y, dt
<1>3. /\ (a - b) * Sec = a * Sec - b * Sec
      /\ (a - b - 1) * Sec = a * Sec - b * Sec - Sec
      /\ a - b > 0 => a * Sec - b * Sec >= Sec
      /\ a - b < 0 => a * Sec - b * Sec <= 0 - Sec
      /\ a = b => a * Sec = b * Sec
  BY <1>1, FibTestAssumption, SecondsApart
<1>4. Sec \in Nat \ {0} /\ 0 * Sec = 0
  BY FibTestAssumption
<1>5. CASE a - b = 0 /\ x - y < 0
  BY <1>1, <1>2, <1>3, <1>4, <1>5 DEF dt
<1>6. CASE a - b < 0
  BY <1>1, <1>2, <1>3, <1>4, <1>6 DEF dt
<1>7. CASE a - b > 0 /\ x - y < 0
  <2>1. dt.sec = a - b - 1 /\ dt.nsec = Sec + (x - y) /\ dt.ok
    BY <1>1, <1>2, <1>7
  <2> QED BY <1>1, <1>3, <1>4, <1>7, <2>1 DEF dt
<1>8. CASE a - b >= 0 /\ x - y >= 0
  <2>1. dt.sec = a - b /\ dt.nsec = x - y /\ dt.ok
    BY <1>1, <1>2, <1>8
  <2> QED BY <1>1, <1>3, <1>4, <1>8, <2>1 DEF dt
<1> QED BY <1>1, <1>5, <1>6, <1>7, <1>8

--------------------------------------------------------------------------------
(* The theorems.                                                           *)

LEMMA Half ==
  ASSUME NEW x \in Nat, NEW y \in Nat
  PROVE  2 * x <= y => x <= y \div 2
  BY Z3

\* Places beyond NThreads are those of threads that will never start.
LEMMA RangeBounds ==
  ASSUME Core, Range, prog = "pthread"
  PROVE  IdxBounded
<1> USE FibTestAssumption
<1>0. idx \in Nat /\ IterCnt \in Nat \ {0} /\ TypeOK
  BY DEF Core, TypeOK
<1> DEFINE lim == (IterCnt + 1) * (IterCnt + 6)
           own == (IterCnt + 1) * (IterCnt + 1 + 1)
<1>1. /\ lim \in Nat /\ own \in Nat /\ lim = own + 4 * (IterCnt + 1)
      /\ IterCnt + 1 <= lim \div 2
  <2>1. lim \in Nat /\ own \in Nat /\ lim = own + 4 * (IterCnt + 1)
    BY <1>0
  <2>2. IterCnt + 1 \in Nat /\ 2 * (IterCnt + 1) <= lim
    BY <1>0, <2>1
  <2> QED BY <2>1, <2>2, Half
<1>2. IdxLimit = IF NThreads = 2 THEN IterCnt + 1
                 ELSE IF NThreads = 3 THEN 2 * (IterCnt + 1) ELSE lim \div 2
  BY DEF IdxLimit
<1>3. CASE inRegisters
  <2>1. idx <= IterCnt
    BY <1>3 DEF Range
  <2> HIDE DEF lim, own
  <2> QED BY <1>0, <1>1, <1>2, <2>1 DEF IdxBounded
<1>4. CASE ~inRegisters
  <2> DEFINE f == Fuels
  <2>1. f \in [Place -> Nat] /\ \A u \in Place : f[u] = Fuel(u)
    BY <1>0, FuelType
  <2>2. Pays(f, idx)
    BY <1>0, <1>4 DEF Range, Copy
  <2>3. \A u \in Place : u > NThreads => f[u] = IterCnt + 1
    BY <2>1 DEF Fuel, Thread, Place
  <2> HIDE DEF f
  <2>4. ASSUME NEW p \in Place, NEW q \in Place, p # q
        PROVE  2 * idx + f[p] * (f[p] + 1) + 2 * f[q] <= lim
    <3>1. PICK r \in Place : r # p /\ r # q
      BY ThirdPlace
    <3>2. 2 * idx + f[p] * (f[p] + 1) + 2 * f[q] + (IF f[r] > 0 THEN 2 ELSE 0) <= lim
      BY <2>2, <2>4, <3>1 DEF Pays
    <3>3. f[p] * (f[p] + 1) \in Nat /\ f[q] \in Nat
      BY <2>1, Squares
    <3> HIDE DEF lim, own
    <3> DEFINE x == f[p] * (f[p] + 1)
    <3>4. x \in Nat /\ 2 * idx + x + 2 * f[q] + (IF f[r] > 0 THEN 2 ELSE 0) <= lim
      BY <3>2, <3>3
    <3> HIDE DEF x
    <3>5. 2 * idx + x + 2 * f[q] <= lim
      BY <1>0, <1>1, <3>3, <3>4
    <3> QED BY <3>5 DEF x
  <2>5. CASE NThreads = 2
    <3>1. 3 \in Place /\ 4 \in Place /\ f[3] = IterCnt + 1 /\ f[4] = IterCnt + 1
      BY <2>3, <2>5 DEF Place
    <3>2. 2 * idx + own + 2 * (IterCnt + 1) <= lim
      BY <2>4, <3>1
    <3> HIDE DEF lim, own
    <3> QED BY <1>0, <1>1, <1>2, <2>5, <3>2 DEF IdxBounded
  <2>6. CASE NThreads = 3
    <3>1. 1 \in Place /\ 4 \in Place /\ f[4] = IterCnt + 1 /\ f[1] \in Nat
      BY <2>1, <2>3, <2>6 DEF Place
    <3>2. 2 * idx + f[4] * (f[4] + 1) + 2 * f[1] <= lim
      <4>1. 1 \in Place /\ 4 \in Place /\ 4 # 1
        BY <3>1
      <4> HIDE DEF lim, own
      <4> QED BY <2>4, <4>1
    <3>3. f[4] * (f[4] + 1) = own
      BY <3>1
    <3>4. 2 * idx + own + 2 * f[1] <= lim
      BY <3>2, <3>3
    <3> HIDE DEF lim, own
    <3> QED BY <1>0, <1>1, <1>2, <2>6, <3>1, <3>4 DEF IdxBounded
  <2>7. CASE NThreads = 4
    <3>1. 1 \in Place /\ 2 \in Place /\ f[1] \in Nat /\ f[2] \in Nat
      BY <2>1 DEF Place
    <3>2. f[1] * (f[1] + 1) \in Nat
      BY <3>1, Squares
    <3>3. 2 * idx + f[1] * (f[1] + 1) + 2 * f[2] <= lim
      BY <2>4, <3>1
    <3> HIDE DEF lim, own
    <3>4. 2 * idx <= lim
      BY <1>0, <1>1, <3>1, <3>2, <3>3
    <3> QED BY <1>0, <1>1, <1>2, <2>7, <3>4, Half DEF IdxBounded
  <2> QED BY <2>5, <2>6, <2>7
<1> QED BY <1>3, <1>4

(* Where the threads are, what they have done of their work and how much   *)
(* fuel they have left for idx is kept by every step.                      *)
THEOREM Inductive ==
  /\ Init => IInv
  /\ IInv /\ [Next]_vars => IInv'
<1>1. Init => IInv
  BY InitCore, InitClimbing, InitJobs, InitRange DEF IInv
<1>2. IInv /\ [Next]_vars => IInv'
  BY NextCore, NextClimbing, NextJobs, NextRange DEF IInv
<1> QED BY <1>1, <1>2

\* So it holds in every state that the programs reach.
THEOREM Invariance == Spec => []IInv
  BY Inductive, PTL DEF Spec

(* The variables keep their types; in particular no job of lab1.c counts   *)
(* more calls of FIB_TEST than required_test_cycles.                       *)
THEOREM TypeCorrect == Spec => []TypeOK
<1>1. IInv => TypeOK
  BY DEF IInv, Core
<1> QED BY <1>1, Invariance, PTL

(* Threads that count with each other's counters do the work all the same: *)
(* those of pthread.c together that of one FIB_TEST, F10 of lab1.c all it  *)
(* is calibrated to, and F20 no more than that, and no less but for the    *)
(* rest of one FIB_TEST for each job of F10 in its midst (the loops of     *)
(* pthread.c:26-37 and lab1.c:53-65).                                      *)
THEOREM WorkIsDone == Spec => []WorkDone
<1>1. Core /\ Climbing /\ prog = "pthread" => WorkDone
  BY FibTestAssumption, Services DEF WorkDone, Climbing, Climber, Account, F10
<1>2. IInv => WorkDone
  BY <1>1, JobsDone DEF IInv, Core, TypeOK
<1> QED BY <1>2, Invariance, PTL

(* However the threads overwrite each other's idx (pthread.c:27,           *)
(* lab1.c:55), it ends at most one past its limit for two of them, past    *)
(* twice its limit by two for three, and half its square for four.         *)
THEOREM IdxStaysBounded == Spec => []IdxBounded
<1>1. Jobs10And20 /\ prog = "lab1" => IdxBounded
  BY DEF Jobs10And20, IdxBounded, IdxLimit
<1>2. IInv => IdxBounded
  BY <1>1, RangeBounds DEF IInv, Core, TypeOK
<1> QED BY <1>2, Invariance, PTL

(* The time that a thread prints (delta_t, pthread.c:57-112) is exact to   *)
(* the nanosecond, whatever readings of the clock it is made from.         *)
THEOREM TimeIsExact == Spec => []DtExact
<1>1. DtExact
  <2>1. \A n \in 0 .. LastStamp : n \in Nat
    BY FibTestAssumption
  <2> QED BY <2>1, DeltaExact DEF DtExact
<1> QED BY <1>1, PTL
================================================================================
