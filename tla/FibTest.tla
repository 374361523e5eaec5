-------------------------------- MODULE FibTest --------------------------------
(***************************************************************************)
(* FIB_TEST, the load of two programs, counts in the globals idx and jdx,  *)
(* which all their threads share:                                          *)
(*                                                                         *)
(*   "pthread" (06-rt-simplethread/pthread.c): some threads call it once   *)
(*     each and run it in parallel; each prints how long it took.          *)
(*   "lab1" (07-hardcoded-sequencer/lab1.c): thread 1, F10, and thread 2,  *)
(*     F20, run it Blocks times in each job, on one core where F10         *)
(*     preempts F20 anywhere.  HardcodedSequencer says when.               *)
(*                                                                         *)
(* The accesses race, so what they do is up to the build: every access of  *)
(* the loop goes to memory (Debug), or idx and jdx live in registers and   *)
(* are written back at its end (Release); inRegisters tells which.  The    *)
(* numbers themselves, fib, fib0 and fib1, are used by nobody.             *)
(***************************************************************************)
EXTENDS Integers, FiniteSets

CONSTANTS
  NThreads,  \* NUM_THREADS of pthread.c
  SeqCnt,    \* SeqCnt[p]: seqIterations of program p
  IterCnt,   \* reqIterations, FIB_TEST_CYCLES
  Blocks,    \* required_test_cycles
  Jobs,      \* bound: the jobs of each service of lab1.c
  Sec,       \* NSEC_PER_SEC
  LastStamp  \* bound: readings of CLOCK_REALTIME go from 0 to LastStamp

ASSUME FibTestAssumption ==
  /\ NThreads \in 2 .. 4
  /\ SeqCnt \in [{"pthread", "lab1"} -> Nat \ {0}]
  /\ IterCnt \in Nat \ {0}
  /\ Blocks \in Nat \ {0} /\ Jobs \in Nat \ {0}
  /\ Sec \in Nat \ {0} /\ LastStamp \in Nat

F10 == 1
F20 == 2

VARIABLES
  prog,        \* "pthread" or "lab1"
  inRegisters, \* the build keeps idx and jdx in registers
  idx, jdx,    \* the globals
  pc,          \* pc[t]: where thread t is
  reg,         \* reg[t]: the value that t has loaded and is about to increment
  limit,       \* limit[t]: calls of FIB_TEST finished in the job of t
  iters,       \* iterations of the outer loop, counted by Account
  jobs,        \* jobs[t]: jobs t has begun
  cuts         \* jobs of F10 begun during the present job of F20

globals == <<idx, jdx>>
counts  == <<limit, iters, jobs, cuts>>
vars == <<prog, inRegisters, globals, pc, reg, counts>>

Thread == 1 .. NThreads
Users  == IF prog = "pthread" THEN Thread ELSE {F10, F20}

Init == /\ prog \in {"pthread", "lab1"}
        /\ inRegisters \in BOOLEAN
        /\ idx = 0 /\ jdx = 1
        /\ pc = [t \in Thread |-> "idle"]
        /\ reg = [t \in Thread |-> 0]
        /\ limit = [t \in Thread |-> 0]
        /\ iters = [t \in Thread |-> 0]
        /\ jobs = [t \in Thread |-> 0]
        /\ cuts = 0

\* Mutant of MayRun: F20 goes on while F10 runs.
MayRunBoth(t) == t \in Users

\* pthread.c has a core for each thread; in lab1.c F10 outranks F20.
MayRun(t) == /\ t \in Users
             /\ (prog = "lab1" /\ t = F20) => pc[F10] = "idle"

\* The iterations of lab1.c are counted for each job, those of pthread.c's
\* threads all together, and only up to IterCnt.
Account(t) == IF prog = "pthread" THEN 1 ELSE t

Counted(t, n) ==
  LET sum == iters[Account(t)] + n IN
    [iters EXCEPT ![Account(t)] =
       IF prog = "pthread" /\ sum > IterCnt THEN IterCnt ELSE sum]

At(t, label) == MayRun(t) /\ pc[t] = label

Goto(t, label) == pc' = [pc EXCEPT ![t] = label]

--------------------------------------------------------------------------------
(* The loops of FIB_TEST, access by access.                                *)

\* A thread of pthread.c starts; sem_wait of lab1.c returns.
Begin(t) == /\ At(t, "idle")
            /\ jobs[t] < IF prog = "pthread" THEN 1 ELSE Jobs
            /\ jobs' = [jobs EXCEPT ![t] = @ + 1]
            /\ limit' = [limit EXCEPT ![t] = 0]
            /\ iters' = IF prog = "pthread" THEN iters ELSE [iters EXCEPT ![t] = 0]
            /\ cuts' = IF prog = "pthread" \/ t = F20 THEN 0
                       ELSE IF pc[F20] = "idle" THEN cuts ELSE cuts + 1
            /\ Goto(t, "reset")
            /\ UNCHANGED <<prog, inRegisters, globals, reg>>

\* idx=0
ResetIdx(t) == /\ At(t, "reset") /\ ~inRegisters
               /\ idx' = 0
               /\ Goto(t, "test")
               /\ UNCHANGED <<prog, inRegisters, jdx, reg, counts>>

\* idx < iterCnt
TestIdx(t) == /\ At(t, "test")
              /\ Goto(t, IF idx >= IterCnt THEN "return"
                         ELSE IF prog = "lab1" THEN "startInner" ELSE "inner")
              /\ UNCHANGED <<prog, inRegisters, globals, reg, counts>>

\* fib0=0; fib1=1; jdx=1;  lab1.c only.
StartInner(t) == /\ At(t, "startInner")
                 /\ jdx' = 1
                 /\ Goto(t, "inner")
                 /\ UNCHANGED <<prog, inRegisters, idx, reg, counts>>

\* jdx < seqCnt
TestJdx(t) == /\ At(t, "inner")
              /\ Goto(t, IF jdx < SeqCnt[prog] THEN "loadJdx"
                         ELSE IF prog = "lab1" THEN "loadIdx" ELSE "resetJdx")
              /\ UNCHANGED <<prog, inRegisters, globals, reg, counts>>

\* jdx++
LoadJdx(t) == /\ At(t, "loadJdx")
              /\ reg' = [reg EXCEPT ![t] = jdx]
              /\ Goto(t, "storeJdx")
              /\ UNCHANGED <<prog, inRegisters, globals, counts>>

StoreJdx(t) == /\ At(t, "storeJdx")
               /\ jdx' = reg[t] + 1
               /\ reg' = [reg EXCEPT ![t] = 0]
               /\ Goto(t, "inner")
               /\ UNCHANGED <<prog, inRegisters, idx, counts>>

\* Mutant of ResetJdx: the wrong counter is cleared.
ResetWrongCounter(t) ==
  /\ At(t, "resetJdx")
  /\ idx' = 0
  /\ Goto(t, "loadIdx")
  /\ UNCHANGED <<prog, inRegisters, jdx, reg, counts>>

\* jdx = 0;  pthread.c only.
ResetJdx(t) == /\ At(t, "resetJdx")
               /\ jdx' = 0
               /\ Goto(t, "loadIdx")
               /\ UNCHANGED <<prog, inRegisters, idx, reg, counts>>

\* idx++
LoadIdx(t) == /\ At(t, "loadIdx")
              /\ reg' = [reg EXCEPT ![t] = idx]
              /\ iters' = Counted(t, 1)
              /\ Goto(t, "storeIdx")
              /\ UNCHANGED <<prog, inRegisters, globals, limit, jobs, cuts>>

\* Mutant of StoreIdx: two are added.
StoreIdxTwice(t) ==
  /\ At(t, "storeIdx")
  /\ idx' = reg[t] + 2
  /\ reg' = [reg EXCEPT ![t] = 0]
  /\ Goto(t, "test")
  /\ UNCHANGED <<prog, inRegisters, jdx, counts>>

StoreIdx(t) == /\ At(t, "storeIdx")
               /\ idx' = reg[t] + 1
               /\ reg' = [reg EXCEPT ![t] = 0]
               /\ Goto(t, "test")
               /\ UNCHANGED <<prog, inRegisters, jdx, counts>>

\* With idx and jdx in registers the loops see no other thread ...
RunInRegisters(t) == /\ At(t, "reset") /\ inRegisters
                     /\ iters' = Counted(t, IterCnt)
                     /\ Goto(t, "writeBack")
                     /\ UNCHANGED <<prog, inRegisters, globals, reg, limit, jobs,
                                    cuts>>

\* ... and leave behind what they ended with.
WriteBack(t) == /\ At(t, "writeBack")
                /\ idx' = IterCnt
                /\ jdx' = IF prog = "lab1" THEN SeqCnt[prog] ELSE 0
                /\ Goto(t, "return")
                /\ UNCHANGED <<prog, inRegisters, reg, counts>>

Loop(t) == \/ ResetIdx(t) \/ TestIdx(t) \/ StartInner(t) \/ TestJdx(t)
           \/ LoadJdx(t) \/ StoreJdx(t) \/ ResetJdx(t)
           \/ LoadIdx(t) \/ StoreIdx(t)
           \/ RunInRegisters(t) \/ WriteBack(t)

--------------------------------------------------------------------------------
(* What the threads do around it.                                          *)

\* Mutant of AfterCall: one block too many.
AfterCallInclusive(t) ==
  /\ At(t, "return")
  /\ limit' = [limit EXCEPT ![t] = @ + 1]
  /\ Goto(t, IF prog = "pthread" THEN "measure"
             ELSE IF limit'[t] <= Blocks THEN "reset" ELSE "complete")
  /\ UNCHANGED <<prog, inRegisters, globals, reg, iters, jobs, cuts>>

\* do { FIB_TEST } while(limit < required_test_cycles)
AfterCall(t) ==
  /\ At(t, "return")
  /\ limit' = [limit EXCEPT ![t] = @ + 1]
  /\ Goto(t, IF prog = "pthread" THEN "measure"
             ELSE IF limit'[t] < Blocks THEN "reset" ELSE "complete")
  /\ UNCHANGED <<prog, inRegisters, globals, reg, iters, jobs, cuts>>

\* lab1.c: the job is complete.
Complete(t) == /\ At(t, "complete")
               /\ Goto(t, "idle")
               /\ UNCHANGED <<prog, inRegisters, globals, reg, counts>>

\* Mutant of Delta: the second is not borrowed.
DeltaNoBorrow(start, finish) ==
  LET sec  == (finish \div Sec) - (start \div Sec)
      nsec == (finish % Sec) - (start % Sec)
  IN  IF sec = 0 /\ nsec < 0 THEN [sec |-> 0, nsec |-> 0, ok |-> FALSE]
      ELSE IF sec < 0        THEN [sec |-> 0, nsec |-> 0, ok |-> TRUE]
      ELSE IF nsec < 0       THEN [sec |-> sec, nsec |-> Sec + nsec, ok |-> TRUE]
      ELSE [sec |-> sec, nsec |-> nsec, ok |-> TRUE]

(* delta_t on a result that starts as {0, 0}.  It sees that the clock went *)
(* back only within one second; otherwise it calls the result OK and       *)
(* leaves it as it was.                                                    *)
Delta(start, finish) ==
  LET sec  == (finish \div Sec) - (start \div Sec)
      nsec == (finish % Sec) - (start % Sec)
  IN  IF sec = 0 /\ nsec < 0 THEN [sec |-> 0, nsec |-> 0, ok |-> FALSE]
      ELSE IF sec < 0        THEN [sec |-> 0, nsec |-> 0, ok |-> TRUE]
      ELSE IF nsec < 0       THEN [sec |-> sec - 1, nsec |-> Sec + nsec, ok |-> TRUE]
      ELSE [sec |-> sec, nsec |-> nsec, ok |-> TRUE]

\* pthread.c: the second reading of CLOCK_REALTIME, delta_t and the line that
\* prints what it returns.
Measure(t) == /\ At(t, "measure")
              /\ Goto(t, "exited")
              /\ UNCHANGED <<prog, inRegisters, globals, reg, counts>>

ThreadStep(t) == Loop(t) \/ AfterCall(t) \/ Complete(t) \/ Measure(t)

Next == \E t \in Thread : Begin(t) \/ ThreadStep(t)

(* A thread that may run does.  Nothing makes a service begin a job.       *)
Fairness == \A t \in Thread : WF_vars(ThreadStep(t))

Spec == Init /\ [][Next]_vars /\ Fairness

--------------------------------------------------------------------------------

Labels == {"idle", "reset", "test", "startInner", "inner", "loadJdx", "storeJdx",
           "resetJdx", "loadIdx", "storeIdx", "writeBack", "return", "complete",
           "measure", "exited"}

TypeOK == /\ prog \in {"pthread", "lab1"}
          /\ inRegisters \in BOOLEAN
          /\ idx \in Nat /\ jdx \in Nat
          /\ pc \in [Thread -> Labels]
          /\ reg \in [Thread -> Nat]
          /\ limit \in [Thread -> 0 .. Blocks]
          /\ iters \in [Thread -> Nat]
          /\ jobs \in [Thread -> 0 .. Jobs]
          /\ cuts \in 0 .. Jobs

(* How far idx runs past its limit when the threads overwrite each other's *)
(* counter.  Two of them can only add one each after the last test.  A     *)
(* third can set idx back, by a reset or a stale store, while another      *)
(* holds a value past the limit, which lets the first through its test     *)
(* once more: with the four of pthread.c that grows with the square of     *)
(* iterCnt, past what an unsigned int holds.                               *)
IdxLimit ==
  IF prog = "lab1" THEN IterCnt + 1
  ELSE CASE NThreads = 2 -> IterCnt + 1
         [] NThreads = 3 -> 2 * (IterCnt + 1)
         [] NThreads = 4 -> ((IterCnt + 1) * (IterCnt + 6)) \div 2

IdxBounded == idx <= IdxLimit

(* What the calls do although they count with each other's counters.       *)
(*                                                                         *)
(* pthread.c: together the threads do at least the work of one of them;    *)
(* the counter climbs from the last reset to its limit one iteration at a  *)
(* time.  No more can be said: a thread may find the loop finished by      *)
(* others and print the time of doing nothing.                             *)
(*                                                                         *)
(* lab1.c, "Assume FIB_TEST short enough that preemption risk is minimal": *)
(* a job of F10 is always whole; a job of F20 is never longer than what it *)
(* was calibrated to, and each job of F10 in its midst takes from it the   *)
(* rest of one FIB_TEST at most.  So the counters they share make no       *)
(* deadline harder to meet (HardcodedSequencer).                           *)
WorkDone ==
  IF prog = "pthread"
    THEN (\A t \in Thread : pc[t] = "exited") => iters[Account(1)] = IterCnt
    ELSE /\ pc[F10] = "complete" => iters[F10] = Blocks * IterCnt
         /\ iters[F20] <= Blocks * IterCnt
         /\ pc[F20] = "complete" => iters[F20] >= (Blocks - cuts) * IterCnt

(* The time a thread prints is finish less start to the nanosecond, across *)
(* any number of seconds, and zero if the clock was set back: delta_t      *)
(* reports that only within a second.                                      *)
DtExact ==
  \A t \in Thread : pc[t] = "measure" =>
    \A start, finish \in 0 .. LastStamp :
      LET dt == Delta(start, finish) IN
        /\ dt.nsec \in 0 .. Sec - 1
        /\ dt.sec * Sec + dt.nsec = IF finish >= start THEN finish - start ELSE 0
        /\ ~dt.ok => finish < start

(* A thread that has begun comes to the end of its loop, although others   *)
(* reset the counter it counts with, or set it back by a stale store.      *)
EveryJobEnds ==
  \A t \in Thread : (pc[t] = "reset") ~> (pc[t] \in {"idle", "exited"})
================================================================================
