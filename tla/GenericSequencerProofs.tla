------------------------ MODULE GenericSequencerProofs -------------------------
(***************************************************************************)
(* Theorems about GenericSequencer for every number of services, every     *)
(* rate, phase and horizon, every delay, and any number of runs on the     *)
(* same semaphores, killed or not.                                         *)
(***************************************************************************)
EXTENDS GenericSequencer, TLAPS

--------------------------------------------------------------------------------
(* The integer arithmetic of the deadlines.                                *)

(* Truncating division: the quotient times the divisor falls short of the  *)
(* dividend by less than the divisor (the / of lines 112-114).             *)
LEMMA DivisionTruncates ==
  ASSUME NEW a \in Nat, NEW f \in Nat \ {0}
  PROVE  /\ a \div f \in Nat
         /\ (a \div f) * f <= a
         /\ a < (a \div f) * f + f
  BY Z3

(* A deadline is a time, whatever the release number (lines 111-114).      *)
LEMMA DeadlineType ==
  ASSUME NEW s \in Service, NEW n \in Nat
  PROVE  Deadline(s, n) \in Nat
<1>1. Freq[s] \in Nat \ {0} /\ Phase[s] \in Nat /\ TicksPerSec \in Nat
  BY ServiceAssumption
<1>2. n * TicksPerSec \in Nat
  BY <1>1
<1>3. (n * TicksPerSec) \div Freq[s] \in Nat
  BY <1>1, <1>2, DivisionTruncates
<1> QED
  BY <1>1, <1>3 DEF Deadline

(* The first release of a service is due at its phase: emplace(x.phase) of *)
(* line 83 agrees with the formula of lines 111-114.                       *)
LEMMA FirstDeadline ==
  ASSUME NEW s \in Service
  PROVE  Deadline(s, 0) = Phase[s]
<1>1. Freq[s] \in Nat \ {0} /\ Phase[s] \in Nat /\ TicksPerSec \in Nat
  BY ServiceAssumption
<1>2. 0 * TicksPerSec = 0
  BY <1>1
<1>3. 0 \div Freq[s] = 0
  BY <1>1
<1> QED
  BY <1>1, <1>2, <1>3 DEF Deadline

--------------------------------------------------------------------------------
(* Type correctness.                                                       *)

(* Walking the array of services (lines 71, 124, and backwards for its     *)
(* destructors) stays inside it.                                           *)
LEMMA ServiceRange ==
  ASSUME NEW s \in Service
  PROVE  /\ s \in Nat \ {0} /\ N \in Service /\ 1 \in Service
         /\ (IF s < N THEN s + 1 ELSE 1) \in Service
         /\ (IF s < N THEN s + 1 ELSE N) \in Service
         /\ (IF s > 1 THEN s - 1 ELSE 1) \in Service
  BY ServiceAssumption DEF Service

LEMMA InitType == Init => TypeOK
  BY ServiceAssumption, BoundsAssumption
  DEF Init, TypeOK, Service, Zeros, NoFlag, AllOpen, NoThreads, MainPC, WorkerPC

LEMMA NextType == TypeOK /\ [Next]_vars => TypeOK'
<1> SUFFICES ASSUME TypeOK, [Next]_vars PROVE TypeOK'
  OBVIOUS
<1> USE BoundsAssumption DEF TypeOK, MainPC, WorkerPC
<1>1. CASE Spawn
  <2>1. i' \in Service
    <3>1. i \in Service
      OBVIOUS
    <3> QED
      BY <1>1, <3>1, ServiceRange DEF Spawn
  <2>2. queue' \subseteq Int \X Service
    <3>1. Phase[i] \in Int /\ i \in Service
      BY ServiceAssumption
    <3> QED
      BY <1>1, <3>1 DEF Spawn
  <2>3. pc' \in MainPC /\ wpc' \in [Service -> WorkerPC]
    BY <1>1 DEF Spawn
  <2> QED
    BY <1>1, <2>1, <2>2, <2>3 DEF Spawn, shared, persistent
<1>2. CASE Sleep
  <2>1. PICK e \in queue : /\ e[1] > elapsed
                           /\ elapsed' = e[1]
                           /\ cur' = e[2]
                           /\ Elapse(e[1] - elapsed)
    BY <1>2 DEF Sleep
  <2>2. e[1] \in Int /\ e[2] \in Service
    BY <2>1
  <2>3. elapsed' \in Nat /\ cur' \in Service
    BY <2>1, <2>2
  <2>4. PICK d \in 0 .. MaxDelay : clock' = clock + (e[1] - elapsed) + d
    BY <2>1 DEF Elapse
  <2>5. clock' \in Nat
    BY <2>1, <2>2, <2>4
  <2> QED
    BY <1>2, <2>3, <2>5 DEF Sleep, shared, workerVars, persistent
<1>3. CASE NoSleep
  <2>1. PICK e \in queue : /\ cur' = e[2]
                           /\ missed' = IF e[1] < elapsed THEN missed + 1
                                                          ELSE missed
    BY <1>3 DEF NoSleep
  <2>2. cur' \in Service /\ missed' \in Nat
    BY <2>1
  <2>3. PICK d \in 0 .. MaxDelay : clock' = clock + 0 + d
    BY <1>3 DEF NoSleep, Elapse
  <2>4. clock' \in Nat
    BY <2>3
  <2> QED
    BY <1>3, <2>2, <2>4 DEF NoSleep, shared, workerVars, persistent
<1>4. CASE Post
  BY <1>4 DEF Post, shared, workerVars, persistent
<1>5. CASE Requeue
  <2>1. releases' \in [Service -> Nat] /\ releases'[cur] \in Nat
    BY <1>5 DEF Requeue
  <2>2. Deadline(cur, releases'[cur]) \in Nat
    BY <2>1, DeadlineType
  <2>3. queue' \subseteq Int \X Service
    BY <1>5, <2>2 DEF Requeue
  <2> QED
    BY <1>5, <2>1, <2>3 DEF Requeue, shared, workerVars, persistent
<1>6. CASE RaiseAbort
  BY <1>6 DEF RaiseAbort, workerVars, persistent
<1>7. CASE WakeAborted
  <2>1. i' \in Service
    <3>1. i \in Service
      OBVIOUS
    <3> QED
      BY <1>7, <3>1, ServiceRange DEF WakeAborted
  <2>2. pc' \in MainPC /\ sem' \in [Service -> Nat]
    BY <1>7 DEF WakeAborted
  <2> QED
    BY <1>7, <2>1, <2>2 DEF WakeAborted, shared, workerVars, persistent
<1>8. CASE LeaveScope
  BY <1>8 DEF LeaveScope, workerVars, persistent
<1>9. CASE Join
  BY <1>9 DEF Join, shared, workerVars, persistent
<1>10. CASE CloseSem
  <2>1. i' \in Service
    <3>1. i \in Service
      OBVIOUS
    <3> QED
      BY <1>10, <3>1, ServiceRange DEF CloseSem
  <2>2. pc' \in MainPC /\ semOpen' \in [Service -> BOOLEAN]
    BY <1>10 DEF CloseSem
  <2> QED
    BY <1>10, <2>1, <2>2 DEF CloseSem, workerVars, persistent
<1>11. ASSUME NEW s \in Service, Worker(s) PROVE TypeOK'
  BY <1>11 DEF Worker, CheckAbort, Wait, Woken, LogCycle, mainVars, shared,
               persistent
<1>12. CASE Restart
  <2>1. /\ releases' \in [Service -> Nat] /\ cycles' \in [Service -> Nat]
        /\ abort' \in [Service -> BOOLEAN] /\ semOpen' \in [Service -> BOOLEAN]
        /\ wpc' \in [Service -> WorkerPC]
    BY <1>12 DEF Restart, Zeros, NoFlag, AllOpen, NoThreads
  <2>2. /\ i' \in Service /\ cur' \in Service /\ run' \in 1 .. MaxRuns
    BY <1>12, ServiceRange, i \in Service DEF Restart
  <2> QED
    BY <1>12, <2>1, <2>2 DEF Restart
<1>13. CASE UNCHANGED vars
  BY <1>13 DEF vars, mainVars, shared, workerVars, persistent
<1> QED
  BY <1>1, <1>2, <1>3, <1>4, <1>5, <1>6, <1>7, <1>8, <1>9, <1>10, <1>11, <1>12,
     <1>13 DEF Next, Main, Terminated

(* Every variable keeps its type: the clocks never run negative and the    *)
(* semaphore values never drop below zero (lines 20-31, 69).               *)
THEOREM TypeCorrect == Spec => []TypeOK
  BY InitType, NextType, PTL DEF Spec

--------------------------------------------------------------------------------
(* The priority queue.                                                     *)

\* At most one element is on top: the ties are broken by service.
LEMMA TopIsUnique ==
  ASSUME TypeOK, NEW e, NEW f, IsTop(e), IsTop(f)
  PROVE  e = f
<1>1. e \in Int \X Service /\ f \in Int \X Service
  BY DEF IsTop, TypeOK
<1>2. e[2] \in Nat /\ f[2] \in Nat
  BY <1>1, ServiceRange
<1>3. Before(e, f) /\ Before(f, e)
  BY DEF IsTop
<1>4. e[1] = f[1] /\ e[2] = f[2]
  BY <1>1, <1>2, <1>3 DEF Before
<1> QED
  BY <1>1, <1>4

(* The inductive form: while the services are being started the queue      *)
(* holds the first deadlines of those already started, and between top and *)
(* pop main's x is the service on top.                                     *)
QueueInv ==
  /\ pc = "spawn" =>
       /\ releases = Zeros
       /\ queue = {<<Phase[s], s>> : s \in {t \in Service : t < i}}
  /\ pc = "post" => \A e \in queue : IsTop(e) => e[2] = cur
  /\ QueueHoldsEveryService

LEMMA InitQueue == Init => QueueInv
<1> SUFFICES ASSUME Init PROVE QueueInv
  OBVIOUS
<1>1. {t \in Service : t < 1} = {}
  BY ServiceRange
<1> QED
  BY <1>1 DEF Init, QueueInv, QueueHoldsEveryService, InLoop

LEMMA NextQueue == TypeOK /\ QueueInv /\ [Next]_vars => QueueInv'
<1> SUFFICES ASSUME TypeOK, QueueInv, [Next]_vars PROVE QueueInv'
  OBVIOUS
<1>1. CASE Spawn
  <2>1. i \in Service /\ Service \subseteq Nat /\ N \in Service
    BY ServiceRange DEF TypeOK
  <2>2. /\ pc = "spawn" /\ releases = Zeros /\ releases' = releases
        /\ queue' = {<<Phase[s], s>> : s \in {t \in Service : t < i} \cup {i}}
    BY <1>1, <2>1 DEF Spawn, QueueInv
  <2>3. CASE i < N
    <3>1. {t \in Service : t < i} \cup {i} = {t \in Service : t < i + 1}
      <4>1. \A t \in Service : t < i + 1 <=> t < i \/ t = i
        BY <2>1
      <4> QED
        BY <2>1, <4>1
    <3>2. i' = i + 1 /\ pc' = "spawn"
      BY <1>1, <2>3 DEF Spawn
    <3>3. queue' = {<<Phase[s], s>> : s \in {t \in Service : t < i'}}
      BY <2>2, <3>1, <3>2
    <3> QED
      BY <2>2, <3>2, <3>3 DEF QueueInv, QueueHoldsEveryService, InLoop
  <2>4. CASE ~(i < N)
    <3>1. {t \in Service : t < i} \cup {i} = Service
      BY <2>1, <2>4 DEF Service
    <3>2. pc' = "top"
      BY <1>1, <2>4 DEF Spawn
    <3>3. \A s \in Service : Phase[s] = Deadline(s, releases'[s])
      BY <2>2, FirstDeadline DEF Zeros
    <3>4. queue' = {<<Deadline(s, releases'[s]), s>> : s \in Service}
      BY <2>2, <3>1, <3>3
    <3> QED
      BY <3>2, <3>4 DEF QueueInv, QueueHoldsEveryService, InLoop
  <2> QED
    BY <2>3, <2>4
<1>2. ASSUME Sleep \/ NoSleep PROVE QueueInv'
  <2>1. PICK e \in queue : IsTop(e) /\ cur' = e[2]
    BY <1>2 DEF Sleep, NoSleep
  <2>2. pc = "top" /\ pc' = "post" /\ queue' = queue /\ releases' = releases
    BY <1>2 DEF Sleep, NoSleep
  <2>3. \A f \in queue' : IsTop(f)' => f[2] = cur'
    BY <2>1, <2>2, TopIsUnique DEF IsTop
  <2>4. QueueHoldsEveryService'
    BY <2>2 DEF QueueInv, QueueHoldsEveryService, InLoop, Deadline
  <2> QED
    BY <2>2, <2>3, <2>4 DEF QueueInv
<1>3. CASE Post
  <2>1. /\ pc = "post" /\ pc' = "requeue" /\ cur' = cur
        /\ releases' = releases
    BY <1>3 DEF Post
  <2>2. PICK e \in queue : IsTop(e) /\ queue' = queue \ {e}
    BY <1>3 DEF Post
  <2>3. queue = {<<Deadline(s, releases[s]), s>> : s \in Service}
    BY <2>1 DEF QueueInv, QueueHoldsEveryService, InLoop
  <2>4. e = <<Deadline(cur, releases[cur]), cur>>
    BY <2>1, <2>2, <2>3 DEF QueueInv
  <2>5. queue' = {<<Deadline(s, releases[s]), s>> : s \in Service \ {cur}}
    BY <2>2, <2>3, <2>4
  <2> QED
    BY <2>1, <2>5 DEF QueueInv, QueueHoldsEveryService, InLoop
<1>4. CASE Requeue
  <2>1. /\ pc = "requeue" /\ pc' \in {"top", "abort"}
        /\ queue' = queue \cup {<<Deadline(cur, releases'[cur]), cur>>}
        /\ \A s \in Service \ {cur} : releases'[s] = releases[s]
        /\ cur \in Service
    BY <1>4 DEF Requeue, TypeOK
  <2>2. queue = {<<Deadline(s, releases[s]), s>> : s \in Service \ {cur}}
    BY <2>1 DEF QueueInv, QueueHoldsEveryService, InLoop
  <2>3. queue = {<<Deadline(s, releases'[s]), s>> : s \in Service \ {cur}}
    BY <2>1, <2>2
  <2>4. queue' = {<<Deadline(s, releases'[s]), s>> : s \in Service}
    BY <2>1, <2>3
  <2> QED
    BY <2>1, <2>4 DEF QueueInv, QueueHoldsEveryService, InLoop
<1>5. ASSUME RaiseAbort \/ WakeAborted \/ LeaveScope \/ Join \/ CloseSem
      PROVE  QueueInv'
  <2>1. pc' \in {"abort", "wake", "scope", "join", "close", "exited"}
    BY <1>5 DEF RaiseAbort, WakeAborted, LeaveScope, Join, CloseSem
  <2> QED
    BY <2>1 DEF QueueInv, QueueHoldsEveryService, InLoop
<1>6. ASSUME NEW s \in Service, Worker(s) PROVE QueueInv'
  <2>1. UNCHANGED <<pc, i, queue, cur, releases>>
    BY <1>6 DEF Worker, CheckAbort, Wait, Woken, LogCycle, mainVars
  <2> QED
    BY <2>1 DEF QueueInv, QueueHoldsEveryService, InLoop, IsTop
<1>7. CASE Restart
  <2>1. pc' = "spawn" /\ i' = 1 /\ queue' = {} /\ releases' = Zeros
    BY <1>7 DEF Restart
  <2>2. {t \in Service : t < 1} = {}
    BY ServiceRange
  <2> QED
    BY <2>1, <2>2 DEF QueueInv, QueueHoldsEveryService, InLoop
<1>8. CASE UNCHANGED vars
  <2>1. UNCHANGED <<pc, i, queue, cur, releases>>
    BY <1>8 DEF vars, mainVars
  <2> QED
    BY <2>1 DEF QueueInv, QueueHoldsEveryService, InLoop, IsTop
<1> QED
  BY <1>1, <1>2, <1>3, <1>4, <1>5, <1>6, <1>7, <1>8 DEF Next, Main, Terminated

(* The queue always holds every service once, with the deadline of its own *)
(* next release: queue.top() and queue.pop() (lines 93, 106) never meet an *)
(* empty queue, and its reserved storage (line 67) is never outgrown.      *)
THEOREM QueueComplete == Spec => []QueueHoldsEveryService
<1>1. Init => TypeOK /\ QueueInv
  BY InitType, InitQueue
<1>2. TypeOK /\ QueueInv /\ [Next]_vars => (TypeOK /\ QueueInv)'
  BY NextType, NextQueue
<1>3. QueueInv => QueueHoldsEveryService
  BY DEF QueueInv
<1> QED
  BY <1>1, <1>2, <1>3, PTL DEF Spec

(* A queued deadline is less than a tick before the exact instant of its   *)
(* release, whatever the number of releases before it (lines 108-110).     *)
THEOREM TruncationBounded == Spec => []TruncationNeverAccumulates
<1>1. TypeOK /\ QueueInv => TruncationNeverAccumulates
  <2> SUFFICES ASSUME TypeOK, QueueInv, InLoop, NEW e \in queue
               PROVE  LET exact == releases[e[2]] * TicksPerSec
                          kept  == (e[1] - Phase[e[2]]) * Freq[e[2]]
                      IN  kept <= exact /\ exact < kept + Freq[e[2]]
    BY DEF TruncationNeverAccumulates
  <2>1. PICK s \in Service : e = <<Deadline(s, releases[s]), s>>
    BY DEF QueueInv, QueueHoldsEveryService
  <2>2. /\ Freq[s] \in Nat \ {0} /\ Phase[s] \in Nat /\ TicksPerSec \in Nat
        /\ releases[s] \in Nat
    BY ServiceAssumption DEF TypeOK
  <2> DEFINE exact == releases[s] * TicksPerSec
             q     == exact \div Freq[s]
  <2>3. exact \in Nat
    BY <2>2
  <2>4. q \in Nat /\ q * Freq[s] <= exact /\ exact < q * Freq[s] + Freq[s]
    BY <2>2, <2>3, DivisionTruncates
  <2>5. e[1] - Phase[s] = q /\ e[2] = s
    <3>1. e[1] = Phase[s] + q
      BY <2>1 DEF Deadline
    <3> QED
      BY <2>1, <2>2, <2>4, <3>1
  <2> QED
    BY <2>4, <2>5
<1>2. Init => TypeOK /\ QueueInv
  BY InitType, InitQueue
<1>3. TypeOK /\ QueueInv /\ [Next]_vars => (TypeOK /\ QueueInv)'
  BY NextType, NextQueue
<1> QED
  BY <1>1, <1>2, <1>3, PTL DEF Spec

--------------------------------------------------------------------------------
(* Where the tokens of the semaphores go.                                  *)

(* The inductive form: TokensAccounted, and what survives of it once the   *)
(* flag is up.  Only a service whose flag is up gets a token more, so the  *)
(* account of the tokens is given up with the flag, the bound on what is   *)
(* logged is not.                                                          *)
Logging(s) == IF wpc[s] = "log" THEN 1 ELSE 0

TokenInv ==
  /\ pc = "spawn" => \A s \in Service : s >= i => wpc[s] = "none"
  /\ pc = "wake" => abort[i]
  /\ \A s \in Service : cycles[s] + Logging(s) <= stale[s] + Posted(s)
  /\ TokensAccounted

LEMMA InitTokens == Init => TokenInv
  BY DEF Init, TokenInv, TokensAccounted, Posted, Holding, Logging, Zeros,
         NoFlag, NoThreads

LEMMA NextTokens == TypeOK /\ TokenInv /\ [Next]_vars => TokenInv'
<1> SUFFICES ASSUME TypeOK, TokenInv, [Next]_vars PROVE TokenInv'
  OBVIOUS
<1> USE DEF TypeOK, TokenInv, TokensAccounted, Posted, Holding, Logging
<1>1. CASE Spawn
  <2>1. /\ pc = "spawn" /\ pc' \in {"spawn", "top"} /\ wpc[i] = "none"
        /\ UNCHANGED <<releases, cycles, sem, stale, abort>>
    BY <1>1, ServiceRange DEF Spawn, shared, persistent
  <2>2. \A s \in Service : /\ s # i => wpc'[s] = wpc[s]
                           /\ s = i => wpc'[s] = "check"
    BY <1>1 DEF Spawn
  <2>3. pc' = "spawn" => i' = i + 1
    BY <1>1 DEF Spawn
  <2>4. pc' = "spawn" => \A s \in Service : s >= i' => wpc'[s] = "none"
    <3>1. \A s \in Service : s >= i + 1 => s # i /\ s >= i
      BY ServiceRange
    <3> QED
      BY <2>1, <2>2, <2>3, <3>1
  <2>5. \A s \in Service : cycles[s] + Logging(s)' <= stale[s] + releases[s]
    BY <2>1, <2>2
  <2>6. \A s \in Service :
          ~abort[s] => cycles[s] + Holding(s)' + sem[s] = stale[s] + releases[s]
    BY <2>1, <2>2
  <2> QED
    BY <2>1, <2>4, <2>5, <2>6
<1>2. CASE Sleep
  BY <1>2 DEF Sleep, shared, workerVars, persistent
<1>3. CASE NoSleep
  BY <1>3 DEF NoSleep, shared, workerVars, persistent
<1>4. CASE Post
  BY <1>4 DEF Post, shared, workerVars, persistent
<1>5. CASE Requeue
  BY <1>5 DEF Requeue, shared, workerVars, persistent
<1>6. CASE RaiseAbort
  BY <1>6 DEF RaiseAbort, workerVars, persistent
<1>7. CASE WakeAborted
  BY <1>7 DEF WakeAborted, shared, workerVars, persistent
<1>8. ASSUME LeaveScope \/ Join \/ CloseSem PROVE TokenInv'
  BY <1>8 DEF LeaveScope, Join, CloseSem, shared, workerVars, persistent
<1>9. ASSUME NEW s \in Service, Worker(s) PROVE TokenInv'
  <2>1. CASE CheckAbort(s)
    BY <2>1 DEF CheckAbort, mainVars, shared, persistent
  <2>2. CASE Wait(s)
    BY <2>2 DEF Wait, mainVars, shared, persistent
  <2>3. CASE Woken(s)
    BY <2>3 DEF Woken, mainVars, shared, persistent
  <2>4. CASE LogCycle(s)
    BY <2>4 DEF LogCycle, mainVars, shared, persistent
  <2> QED
    BY <1>9, <2>1, <2>2, <2>3, <2>4 DEF Worker
<1>10. CASE Restart
  BY <1>10 DEF Restart, Zeros, NoFlag, NoThreads
<1>11. CASE UNCHANGED vars
  BY <1>11 DEF vars, mainVars, shared, workerVars, persistent
<1> QED
  BY <1>1, <1>2, <1>3, <1>4, <1>5, <1>6, <1>7, <1>8, <1>9, <1>10, <1>11
  DEF Next, Main, Terminated

(* A service logs only releases the loop has handed it, in this run or, if *)
(* they were left in the semaphore, in an earlier one: the post of line    *)
(* 126 never shows up as a cycle, because line 125 comes first and the     *)
(* thread looks again (line 75).                                           *)
THEOREM CyclesCounted == Spec => []CyclesAreReleases
<1>1. Init => TypeOK /\ TokenInv
  BY InitType, InitTokens
<1>2. TypeOK /\ TokenInv /\ [Next]_vars => (TypeOK /\ TokenInv)'
  BY NextType, NextTokens
<1>3. TypeOK /\ TokenInv => CyclesAreReleases
  BY DEF TypeOK, TokenInv, CyclesAreReleases, Posted, Logging
<1> QED
  BY <1>1, <1>2, <1>3, PTL DEF Spec

(* No token of the release loop is lost or invented on its way to the log, *)
(* as long as the service's flag is down (lines 72-76, 105).               *)
THEOREM NoTokenLost == Spec => []TokensAccounted
<1>1. Init => TypeOK /\ TokenInv
  BY InitType, InitTokens
<1>2. TypeOK /\ TokenInv /\ [Next]_vars => (TypeOK /\ TokenInv)'
  BY NextType, NextTokens
<1>3. TokenInv => TokensAccounted
  BY DEF TokenInv
<1> QED
  BY <1>1, <1>2, <1>3, PTL DEF Spec

--------------------------------------------------------------------------------
(* The destructors.                                                        *)

\* The inductive form: a handle is closed only behind a join.
LifetimeInv ==
  /\ pc \notin {"join", "close", "exited"} => semOpen = AllOpen
  /\ pc = "close" => wpc[i] = "done"
  /\ SemOutlivesThread

LEMMA NextLifetime == TypeOK /\ LifetimeInv /\ [Next]_vars => LifetimeInv'
<1> SUFFICES ASSUME TypeOK, LifetimeInv, [Next]_vars PROVE LifetimeInv'
  OBVIOUS
<1> USE DEF TypeOK, LifetimeInv, SemOutlivesThread, AllOpen
<1>1. CASE Spawn
  BY <1>1 DEF Spawn, shared
<1>2. ASSUME Sleep \/ NoSleep \/ Post \/ Requeue \/ RaiseAbort \/ WakeAborted
      PROVE  LifetimeInv'
  BY <1>2 DEF Sleep, NoSleep, Post, Requeue, RaiseAbort, WakeAborted, shared,
              workerVars
<1>3. ASSUME LeaveScope \/ Join \/ CloseSem PROVE LifetimeInv'
  BY <1>3 DEF LeaveScope, Join, CloseSem, shared, workerVars
<1>4. ASSUME NEW s \in Service, Worker(s) PROVE LifetimeInv'
  BY <1>4 DEF Worker, CheckAbort, Wait, Woken, LogCycle, mainVars, shared
<1>5. CASE Restart
  BY <1>5 DEF Restart
<1>6. CASE UNCHANGED vars
  BY <1>6 DEF vars, mainVars, shared, workerVars
<1> QED
  BY <1>1, <1>2, <1>3, <1>4, <1>5, <1>6 DEF Next, Main, Terminated

(* The handle a service waits on is closed only after its thread was       *)
(* joined: sem is declared before t in struct service (lines 29-30).       *)
THEOREM SemaphoreOutlives == Spec => []SemOutlivesThread
<1>1. Init => TypeOK /\ LifetimeInv
  BY InitType DEF Init, LifetimeInv, SemOutlivesThread, AllOpen
<1>2. TypeOK /\ LifetimeInv /\ [Next]_vars => (TypeOK /\ LifetimeInv)'
  BY NextType, NextLifetime
<1>3. LifetimeInv => SemOutlivesThread
  BY DEF LifetimeInv
<1> QED
  BY <1>1, <1>2, <1>3, PTL DEF Spec

--------------------------------------------------------------------------------
(* The shutdown.                                                           *)

\* The services whose flag is up, and those that were woken as well.
Flagged == IF pc \in {"abort", "wake"}
             THEN {s \in Service : s < i \/ (s = i /\ pc = "wake")}
             ELSE IF pc \in {"scope", "join", "close", "exited"} THEN Service ELSE {}
Woke    == IF pc \in {"abort", "wake"}
             THEN {s \in Service : s < i}
             ELSE IF pc \in {"scope", "join", "close", "exited"} THEN Service ELSE {}

\* A woken service will not wait again, or finds a token when it does.
ShutdownInv ==
  /\ pc \in {"top", "post", "requeue"} => i = 1
  /\ \A s \in Flagged : abort[s]
  /\ \A s \in Woke : wpc[s] = "wait" => sem[s] > 0

\* main never joins a thread that waits for a token nobody will post.
NoServiceStranded ==
  pc \in {"scope", "join", "close"} => \A s \in Service : wpc[s] = "wait" => sem[s] > 0

LEMMA NextShutdown == TypeOK /\ ShutdownInv /\ [Next]_vars => ShutdownInv'
<1> SUFFICES ASSUME TypeOK, ShutdownInv, [Next]_vars PROVE ShutdownInv'
  OBVIOUS
<1> USE DEF TypeOK, ShutdownInv, Flagged, Woke
<1>1. CASE Spawn
  BY <1>1, ServiceRange DEF Spawn
<1>2. CASE Sleep \/ NoSleep \/ Post
  BY <1>2 DEF Sleep, NoSleep, Post
<1>3. CASE Requeue
  <2>1. i = 1 /\ i' = 1 /\ pc' \in {"top", "abort"}
    BY <1>3 DEF Requeue
  <2>2. \A s \in Service : ~(s < 1)
    BY ServiceRange
  <2>3. Flagged' = {} /\ Woke' = {}
    BY <2>1, <2>2
  <2> QED BY <2>1, <2>3
<1>4. CASE RaiseAbort
  BY <1>4, ServiceRange DEF RaiseAbort, workerVars
<1>5. CASE WakeAborted
  <2>1. /\ pc = "wake" /\ pc' \in {"abort", "scope"}
        /\ abort' = abort /\ wpc' = wpc /\ sem' = [sem EXCEPT ![i] = @ + 1]
    BY <1>5 DEF WakeAborted, shared, workerVars
  <2>2. /\ \A s \in Flagged' : s \in Service /\ (s < i \/ s = i)
        /\ \A s \in Woke' : s \in Service /\ (s < i \/ s = i)
    <3>0. N \in Nat \ {0} /\ i \in 1 .. N /\ Service = 1 .. N
      BY ServiceAssumption DEF Service
    <3>1. \/ pc' = "abort" /\ i' = i + 1
          \/ pc' = "scope" /\ i = N
      BY <1>5, <3>0 DEF WakeAborted
    <3>2. /\ \A s \in Service : s < i + 1 => s < i \/ s = i
          /\ i = N => \A s \in Service : s < i \/ s = i
      BY <3>0
    <3> QED BY <3>1, <3>2
  <2> QED BY <2>1, <2>2
<1>6. CASE LeaveScope \/ Join \/ CloseSem
  BY <1>6 DEF LeaveScope, Join, CloseSem, shared, workerVars
<1>7. ASSUME NEW s \in Service, Worker(s) PROVE ShutdownInv'
  <2>1. UNCHANGED <<pc, i, abort>>
    BY <1>7 DEF Worker, CheckAbort, Wait, Woken, LogCycle, mainVars, shared
  <2>2. /\ \A u \in Service \ {s} : wpc'[u] = wpc[u] /\ sem'[u] = sem[u]
        /\ abort[s] => wpc'[s] # "wait"
    BY <1>7 DEF Worker, CheckAbort, Wait, Woken, LogCycle
  <2>3. \A u \in Woke : u \in Flagged /\ u \in Service
    BY ServiceRange
  <2> QED BY <2>1, <2>2, <2>3
<1>8. CASE Restart
  BY <1>8 DEF Restart
<1>9. CASE UNCHANGED vars
  BY <1>9 DEF vars, mainVars, shared, workerVars
<1> QED
  BY <1>1, <1>2, <1>3, <1>4, <1>5, <1>6, <1>7, <1>8, <1>9 DEF Next, Main, Terminated

(* When main comes to its joins each thread has left its loop or finds a   *)
(* token and, behind it, its flag: lines 124-127 raise the flag first, and *)
(* no service can use up the wake-up for a cycle.  seqgen2.c, which posts  *)
(* first, may wait for ever there.                                         *)
THEOREM NobodyStranded == Spec => []NoServiceStranded
<1>1. Init => TypeOK /\ ShutdownInv
  BY InitType DEF Init, ShutdownInv, Flagged, Woke
<1>2. TypeOK /\ ShutdownInv /\ [Next]_vars => (TypeOK /\ ShutdownInv)'
  BY NextType, NextShutdown
<1>3. ShutdownInv => NoServiceStranded
  BY DEF ShutdownInv, NoServiceStranded, Woke
<1> QED
  BY <1>1, <1>2, <1>3, PTL DEF Spec

--------------------------------------------------------------------------------
(* The logical clock and the schedule.                                     *)

(* Rounding down keeps the order: a later release is never due earlier.    *)
LEMMA DivisionMonotonic ==
  ASSUME NEW a \in Nat, NEW b \in Nat, NEW f \in Nat \ {0}, a <= b
  PROVE  a \div f <= b \div f
<1> DEFINE x == a \div f
           y == b \div f
<1>1. x \in Nat /\ x * f <= a
  BY DivisionTruncates
<1>2. y \in Nat /\ b < y * f + f
  BY DivisionTruncates
<1> HIDE DEF x, y
<1>3. x <= y
  <2> SUFFICES ASSUME y + 1 <= x PROVE FALSE
    BY <1>1, <1>2
  <2>1. (y + 1) * f <= x * f
    BY <1>1, <1>2, Z3
  <2>2. (y + 1) * f = y * f + f
    BY <1>2, Z3
  <2>3. x * f \in Nat /\ y * f \in Nat
    BY <1>1, <1>2
  <2> QED BY <1>1, <1>2, <2>1, <2>2, <2>3
<1> QED BY <1>3 DEF x, y

LEMMA DeadlineMonotonic ==
  ASSUME NEW s \in Service, NEW m \in Nat, NEW n \in Nat, m <= n
  PROVE  Deadline(s, m) <= Deadline(s, n)
<1>1. Freq[s] \in Nat \ {0} /\ Phase[s] \in Nat /\ TicksPerSec \in Nat
  BY ServiceAssumption
<1>2. m * TicksPerSec \in Nat /\ n * TicksPerSec \in Nat
  BY <1>1
<1>3. m * TicksPerSec <= n * TicksPerSec
  BY <1>1, Z3
<1>4. (m * TicksPerSec) \div Freq[s] <= (n * TicksPerSec) \div Freq[s]
  BY <1>1, <1>2, <1>3, DivisionMonotonic
<1>5. (m * TicksPerSec) \div Freq[s] \in Nat /\ (n * TicksPerSec) \div Freq[s] \in Nat
  BY <1>1, <1>2, DivisionTruncates
<1> QED BY <1>1, <1>4, <1>5 DEF Deadline

(* The inductive form: elapsed lies between the releases made and those    *)
(* owed, on the deadline of the one under way, and behind the wall clock;  *)
(* main leaves its loop only at or after the horizon.                      *)
Owed     == \A s \in Service : elapsed <= Deadline(s, releases[s])
Made     == \A s \in Service :
              releases[s] > 0 => Deadline(s, releases[s] - 1) <= elapsed
UnderWay == pc \in {"post", "requeue"} => Deadline(cur, releases[cur]) = elapsed
PastEnd  == pc \in {"abort", "wake", "scope"} => elapsed >= Horizon

ClockInv == elapsed <= clock /\ Owed /\ Made /\ UnderWay /\ PastEnd

LEMMA InitClock == Init => ClockInv
<1> SUFFICES ASSUME Init PROVE ClockInv
  OBVIOUS
<1>1. \A s \in Service : releases[s] = 0 /\ Deadline(s, 0) \in Nat
  BY DeadlineType DEF Init, Zeros
<1> QED BY <1>1 DEF Init, ClockInv, Owed, Made, UnderWay, PastEnd

\* The entry on top is the earliest of what all the services are owed.
LEMMA TopIsEarliest ==
  ASSUME TypeOK, QueueInv, pc = "top", NEW e \in queue, IsTop(e)
  PROVE  /\ e[2] \in Service /\ e[1] = Deadline(e[2], releases[e[2]])
         /\ \A s \in Service : e[1] <= Deadline(s, releases[s])
<1>1. queue = {<<Deadline(s, releases[s]), s>> : s \in Service}
  BY DEF QueueInv, QueueHoldsEveryService, InLoop
<1>2. PICK t \in Service : e = <<Deadline(t, releases[t]), t>>
  BY <1>1
<1>3. ASSUME NEW s \in Service PROVE e[1] <= Deadline(s, releases[s])
  <2>1. Before(e, <<Deadline(s, releases[s]), s>>)
    BY <1>1 DEF IsTop
  <2>2. Deadline(s, releases[s]) \in Nat /\ Deadline(t, releases[t]) \in Nat
    BY DeadlineType DEF TypeOK
  <2> QED BY <1>2, <2>1, <2>2 DEF Before
<1> QED BY <1>2, <1>3

LEMMA NextClock == TypeOK /\ QueueInv /\ ClockInv /\ [Next]_vars => ClockInv'
<1> SUFFICES ASSUME TypeOK, QueueInv, ClockInv, [Next]_vars PROVE ClockInv'
  OBVIOUS
<1>1. /\ elapsed \in Nat /\ clock \in Nat /\ cur \in Service
      /\ releases \in [Service -> Nat]
  BY DEF TypeOK
<1>2. \A s \in Service, n \in Nat : Deadline(s, n) \in Nat
  BY DeadlineType
<1>3. CASE Sleep
  <2>1. PICK e \in queue : /\ IsTop(e) /\ e[1] > elapsed
                           /\ elapsed' = e[1] /\ cur' = e[2]
                           /\ Elapse(e[1] - elapsed)
    BY <1>3 DEF Sleep
  <2>2. pc = "top" /\ pc' = "post" /\ releases' = releases
    BY <1>3 DEF Sleep
  <2>3. /\ e[2] \in Service /\ e[1] = Deadline(e[2], releases[e[2]])
        /\ \A s \in Service : e[1] <= Deadline(s, releases[s])
    BY <2>1, <2>2, TopIsEarliest
  <2>4. e[1] \in Nat
    BY <1>1, <1>2, <2>3
  <2>5. elapsed' <= clock'
    <3>1. PICK d \in 0 .. MaxDelay : clock' = clock + (e[1] - elapsed) + d
      BY <2>1 DEF Elapse
    <3>2. d \in Nat
      BY BoundsAssumption
    <3> QED BY <1>1, <2>1, <2>4, <3>1, <3>2 DEF ClockInv
  <2>6. Owed' /\ UnderWay' /\ PastEnd'
    BY <2>1, <2>2, <2>3 DEF Owed, UnderWay, PastEnd, Deadline
  <2>7. Made'
    <3> SUFFICES ASSUME NEW s \in Service, releases[s] > 0
                 PROVE  Deadline(s, releases[s] - 1) <= e[1]
      BY <2>1, <2>2 DEF Made, Deadline
    <3>1. releases[s] - 1 \in Nat
      BY <1>1
    <3> QED BY <1>1, <1>2, <2>1, <2>4, <3>1 DEF ClockInv, Made
  <2> QED BY <2>5, <2>6, <2>7 DEF ClockInv
<1>4. CASE NoSleep
  <2>1. PICK e \in queue : IsTop(e) /\ e[1] <= elapsed /\ cur' = e[2]
    BY <1>4 DEF NoSleep
  <2>2. /\ pc = "top" /\ pc' = "post" /\ releases' = releases
        /\ elapsed' = elapsed
    BY <1>4 DEF NoSleep
  <2>3. e[2] \in Service /\ e[1] = Deadline(e[2], releases[e[2]])
    BY <2>1, <2>2, TopIsEarliest
  <2>4. e[1] = elapsed
    <3>1. elapsed <= Deadline(e[2], releases[e[2]])
      BY <2>3 DEF ClockInv, Owed
    <3>2. e[1] \in Nat
      BY <1>1, <1>2, <2>3
    <3> QED BY <1>1, <2>1, <2>3, <3>1, <3>2
  <2>5. elapsed' <= clock'
    <3>1. PICK d \in 0 .. MaxDelay : clock' = clock + 0 + d
      BY <1>4 DEF NoSleep, Elapse
    <3>2. d \in Nat
      BY BoundsAssumption
    <3> QED BY <1>1, <2>2, <3>1, <3>2 DEF ClockInv
  <2>6. Owed' /\ Made'
    BY <2>2 DEF ClockInv, Owed, Made, Deadline
  <2>7. UnderWay' /\ PastEnd'
    BY <2>1, <2>2, <2>3, <2>4 DEF UnderWay, PastEnd, Deadline
  <2> QED BY <2>5, <2>6, <2>7 DEF ClockInv
<1>5. CASE Requeue
  <2>1. /\ pc = "requeue" /\ UNCHANGED <<cur, elapsed, clock>>
        /\ releases' = [releases EXCEPT ![cur] = @ + 1]
        /\ pc' = IF elapsed < Horizon THEN "top" ELSE "abort"
    BY <1>5 DEF Requeue
  <2>2. \A s \in Service : releases'[s] = IF s = cur THEN releases[s] + 1 ELSE releases[s]
    BY <1>1, <2>1
  <2>3. Deadline(cur, releases[cur]) = elapsed
    BY <2>1 DEF ClockInv, UnderWay
  <2>4. ASSUME NEW s \in Service
        PROVE  /\ elapsed <= Deadline(s, releases'[s])
               /\ releases'[s] > 0 => Deadline(s, releases'[s] - 1) <= elapsed
    <3>1. CASE s = cur
      <4>1. Deadline(s, releases[s]) <= Deadline(s, releases[s] + 1)
        BY <1>1, DeadlineMonotonic
      <4>2. (releases[s] + 1) - 1 = releases[s]
        BY <1>1
      <4> QED BY <1>1, <2>2, <2>3, <3>1, <4>1, <4>2
    <3>2. CASE s # cur
      BY <2>2, <3>2 DEF ClockInv, Owed, Made
    <3> QED BY <3>1, <3>2
  <2>5. Owed' /\ Made'
    BY <2>1, <2>4 DEF Owed, Made, Deadline
  <2>6. pc' = "abort" => elapsed >= Horizon
    BY <1>1, <2>1, ServiceAssumption
  <2> QED BY <2>1, <2>5, <2>6 DEF ClockInv, UnderWay, PastEnd
<1>6. CASE Restart
  <2>1. /\ elapsed' = 0 /\ clock' = 0 /\ pc' = "spawn"
        /\ \A s \in Service : releases'[s] = 0
    BY <1>6 DEF Restart, Zeros
  <2>2. \A s \in Service : Deadline(s, 0) \in Nat
    BY <1>2
  <2>3. Owed'
    BY <2>1, <2>2 DEF Owed, Deadline
  <2> QED BY <2>1, <2>3 DEF ClockInv, Made, UnderWay, PastEnd
<1>7. ASSUME UNCHANGED <<elapsed, clock, releases, cur>>,
             \/ pc' = pc
             \/ pc = "post" /\ pc' = "requeue"
             \/ pc' = "top" \/ pc' = "spawn"
             \/ pc \in {"abort", "wake"} /\ pc' \in {"abort", "wake", "scope"}
             \/ pc' \in {"join", "close", "exited"}
      PROVE  ClockInv'
  <2>1. Owed' /\ Made'
    BY <1>7 DEF ClockInv, Owed, Made, Deadline
  <2>2. UnderWay' /\ PastEnd'
    BY <1>7 DEF ClockInv, UnderWay, PastEnd, Deadline
  <2> QED BY <1>7, <2>1, <2>2 DEF ClockInv
<1>8. ASSUME Spawn \/ Post \/ RaiseAbort \/ WakeAborted \/ LeaveScope \/ Join \/ CloseSem
      PROVE  ClockInv'
  <2>1. UNCHANGED <<elapsed, clock, releases, cur>>
    BY <1>8 DEF Spawn, Post, RaiseAbort, WakeAborted, LeaveScope, Join, CloseSem
  <2>2. \/ pc = "post" /\ pc' = "requeue"
        \/ pc' = "top" \/ pc' = "spawn"
        \/ pc \in {"abort", "wake"} /\ pc' \in {"abort", "wake", "scope"}
        \/ pc' \in {"join", "close", "exited"}
    BY <1>8 DEF Spawn, Post, RaiseAbort, WakeAborted, LeaveScope, Join, CloseSem
  <2> QED BY <1>7, <2>1, <2>2
<1>9. ASSUME (\E s \in Service : Worker(s)) \/ Terminated \/ UNCHANGED vars
      PROVE  ClockInv'
  <2>1. UNCHANGED <<elapsed, clock, releases, cur, pc>>
    BY <1>9 DEF Worker, CheckAbort, Wait, Woken, LogCycle, mainVars, Terminated, vars
  <2> QED BY <1>7, <2>1
<1> QED BY <1>3, <1>4, <1>5, <1>6, <1>8, <1>9 DEF Next, Main

\* All that is invariant of the release loop, together.
IInv == TypeOK /\ QueueInv /\ TokenInv /\ ClockInv

THEOREM Invariance == Spec => []IInv
<1>1. Init => IInv
  BY InitType, InitQueue, InitTokens, InitClock DEF IInv
<1>2. IInv /\ [Next]_vars => IInv'
  BY NextType, NextQueue, NextTokens, NextClock DEF IInv
<1> QED BY <1>1, <1>2, PTL DEF Spec

(* The loop that ends at the horizon has skipped no release before it, and *)
(* made none that elapsed had not reached (lines 91-116).                  *)
THEOREM NothingSkipped == Spec => []NoneLeftBehind
<1>1. IInv => NoneLeftBehind
  <2> SUFFICES ASSUME IInv, pc \in {"abort", "wake", "scope"}, NEW s \in Service
               PROVE  /\ Deadline(s, releases[s]) >= Horizon
                      /\ releases[s] > 0 => Deadline(s, releases[s] - 1) <= elapsed
    BY DEF NoneLeftBehind
  <2>1. elapsed >= Horizon /\ elapsed <= Deadline(s, releases[s])
    BY DEF IInv, ClockInv, PastEnd, Owed
  <2>2. elapsed \in Nat /\ Horizon \in Nat /\ Deadline(s, releases[s]) \in Nat
    BY ServiceAssumption, DeadlineType DEF IInv, TypeOK
  <2> QED BY <2>1, <2>2 DEF IInv, ClockInv, Made
<1> QED BY <1>1, Invariance, PTL

(* A service logs no cycle before the deadline of the release it stands    *)
(* for has passed, by the clock and by the elapsed time it logs, once it   *)
(* has logged the tokens it found: main stores elapsed (line 98) before it *)
(* posts (line 105), the sleeps only ever last longer than asked, and the  *)
(* tokens, those of earlier runs included, are counted.                    *)
THEOREM CyclesNeverEarly == Spec => NeverEarly
<1>1. ASSUME IInv, [Next]_vars, NEW s \in Service,
             cycles'[s] = cycles[s] + 1, cycles[s] >= stale[s]
      PROVE  /\ clock >= Deadline(s, cycles[s] - stale[s])
             /\ elapsed >= Deadline(s, cycles[s] - stale[s])
  <2>1. /\ cycles \in [Service -> Nat] /\ releases \in [Service -> Nat]
        /\ stale \in [Service -> Nat]
        /\ elapsed \in Nat /\ clock \in Nat /\ cur \in Service
    BY <1>1 DEF IInv, TypeOK
  <2>2. wpc[s] = "log"
    <3>1. ~(cycles' = cycles)
      BY <1>1, <2>1
    <3>2. ~Restart
      BY <1>1, <2>1 DEF Restart, Zeros
    <3>3. Main \/ Terminated \/ UNCHANGED vars => cycles' = cycles
      BY DEF Main, Spawn, Sleep, NoSleep, Post, Requeue, RaiseAbort, WakeAborted,
             LeaveScope, Join, CloseSem, Terminated, vars, workerVars
    <3>4. PICK t \in Service : Worker(t)
      BY <1>1, <3>1, <3>2, <3>3 DEF Next
    <3> QED BY <1>1, <2>1, <3>1, <3>4 DEF Worker, CheckAbort, Wait, Woken, LogCycle
  <2> DEFINE k == cycles[s] - stale[s]
  <2>3. k \in Nat /\ k < Posted(s)
    <3>1. cycles[s] + 1 <= stale[s] + Posted(s)
      BY <1>1, <2>2 DEF IInv, TokenInv, Logging
    <3> QED BY <1>1, <2>1, <3>1 DEF Posted
  <2> HIDE DEF k
  <2>4. PICK n \in Nat : k <= n /\ Deadline(s, n) <= elapsed
    <3>1. CASE pc = "requeue" /\ cur = s
      <4>1. Deadline(s, releases[s]) = elapsed
        BY <1>1, <3>1 DEF IInv, ClockInv, UnderWay
      <4> QED BY <2>1, <2>3, <3>1, <4>1 DEF Posted
    <3>2. CASE ~(pc = "requeue" /\ cur = s)
      <4>1. k < releases[s]
        BY <2>1, <2>3, <3>2 DEF Posted
      <4>2. releases[s] - 1 \in Nat /\ k <= releases[s] - 1
        BY <2>1, <2>3, <4>1
      <4>3. Deadline(s, releases[s] - 1) <= elapsed
        BY <1>1, <2>1, <2>3, <4>1 DEF IInv, ClockInv, Made
      <4> QED BY <4>2, <4>3
    <3> QED BY <3>1, <3>2
  <2>5. Deadline(s, k) <= Deadline(s, n)
    BY <2>3, <2>4, DeadlineMonotonic
  <2>6. elapsed <= clock /\ Deadline(s, k) \in Nat /\ Deadline(s, n) \in Nat
    BY <1>1, <2>3, <2>4, DeadlineType DEF IInv, ClockInv
  <2>7. clock >= Deadline(s, k) /\ elapsed >= Deadline(s, k)
    BY <2>1, <2>4, <2>5, <2>6
  <2> QED BY <2>7 DEF k
<1>2. IInv /\ [Next]_vars
        => [\A s \in Service :
              (cycles'[s] = cycles[s] + 1 /\ cycles[s] >= stale[s])
                => LET due == Deadline(s, cycles[s] - stale[s]) IN
                     clock >= due /\ elapsed >= due]_vars
  BY <1>1
<1> QED BY <1>2, Invariance, PTL DEF Spec, NeverEarly

(* The priority queue of deadlines implements ReleaseSchedule: every sleep *)
(* is a step of its clock, every requeue one of its releases, and each run *)
(* begins it anew.                                                         *)
THEOREM ImplementsReleaseSchedule == Spec => ImplementsSchedule
<1>1. Init => Schedule!Init
  BY DEF Init, Schedule!Init, Zeros
<1>2. ASSUME IInv, [Next]_vars, <<elapsed, releases>>' # <<elapsed, releases>>
      PROVE  IF run' = run THEN Schedule!Next ELSE Schedule!Init'
  <2>1. elapsed \in Nat /\ releases \in [Service -> Nat] /\ run \in Nat /\ cur \in Service
    BY <1>2, BoundsAssumption DEF IInv, TypeOK
  <2>2. CASE Sleep
    <3>1. PICK e \in queue : IsTop(e) /\ e[1] > elapsed /\ elapsed' = e[1]
      BY <2>2 DEF Sleep
    <3>2. pc = "top" /\ releases' = releases /\ run' = run
      BY <2>2 DEF Sleep, persistent
    <3>3. \A s \in Service : e[1] <= Deadline(s, releases[s])
      BY <1>2, <3>1, <3>2, TopIsEarliest DEF IInv
    <3>4. Schedule!Advance
      BY <3>1, <3>2, <3>3 DEF Schedule!Advance
    <3> QED BY <3>2, <3>4 DEF Schedule!Next
  <2>3. CASE Requeue
    <3>1. /\ pc = "requeue" /\ elapsed' = elapsed /\ run' = run
          /\ releases' = [releases EXCEPT ![cur] = @ + 1]
      BY <2>3 DEF Requeue, persistent
    <3>2. Deadline(cur, releases[cur]) = elapsed
      BY <1>2, <3>1 DEF IInv, ClockInv, UnderWay
    <3>3. PICK s \in Service : s = cur
      BY <2>1
    <3>4. Schedule!Release(s)
      BY <3>1, <3>2, <3>3 DEF Schedule!Release
    <3> QED BY <3>1, <3>4 DEF Schedule!Next
  <2>4. CASE Restart
    <3>1. run' = run + 1 /\ elapsed' = 0 /\ releases' = [s \in Service |-> 0]
      BY <2>4 DEF Restart, Zeros
    <3>2. Schedule!Init'
      BY <3>1 DEF Schedule!Init
    <3> QED BY <2>1, <3>1, <3>2
  <2>5. ASSUME \/ Spawn \/ NoSleep \/ Post \/ RaiseAbort \/ WakeAborted \/ LeaveScope
               \/ Join \/ CloseSem \/ (\E s \in Service : Worker(s)) \/ Terminated
               \/ UNCHANGED vars
        PROVE  UNCHANGED <<elapsed, releases>>
    BY <2>5 DEF Spawn, NoSleep, Post, RaiseAbort, WakeAborted, LeaveScope, Join,
           CloseSem, Worker, CheckAbort, Wait, Woken, LogCycle, Terminated,
           mainVars, vars
  <2>6. Sleep \/ Requeue \/ Restart
    BY <1>2, <2>5 DEF Next, Main
  <2> QED BY <2>2, <2>3, <2>4, <2>6
<1>3. IInv /\ [Next]_vars
        => [IF run' = run THEN Schedule!Next ELSE Schedule!Init']_<<elapsed, releases>>
  BY <1>2
<1> QED BY <1>1, <1>3, Invariance, PTL DEF Spec, ImplementsSchedule
================================================================================
