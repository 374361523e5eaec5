---------------------------- MODULE ModuloSequencer ----------------------------
(***************************************************************************)
(* The C sequencers of 08-sequencer-generic/sam-sequencer: seqgen.c,       *)
(* seqgen2.c and seqgenex0.c.  main creates one thread per service and     *)
(* then the Sequencer thread, and joins them all.  The Sequencer sleeps    *)
(* one period, counts it in seqCnt, and posts the semaphore of each        *)
(* service whose divisor divides seqCnt.  After sequencePeriods loops it   *)
(* posts every semaphore once more, raises every abort flag and exits.     *)
(*                                                                         *)
(* The three programs differ in their tables (MCModulo) and in where the   *)
(* threads may run, which decides whether the order of the shutdown (posts *)
(* first, flags after) does harm.  All threads are SCHED_FIFO: in a group  *)
(* of threads sharing cores one runs only if fewer than that many others   *)
(* of higher priority could.                                               *)
(*                                                                         *)
(* pthread_create may fail.  The programs test for rc < 0, which never is, *)
(* report success and go on to join a thread handle nobody wrote.          *)
(*                                                                         *)
(* abortTest is set nowhere in the programs, so the loop ends on the count *)
(* alone.  The loop counts of the services are unsigned long long.         *)
(***************************************************************************)
EXTENDS Integers, FiniteSets

CONSTANTS
  N,          \* number of services
  Table,      \* Table[p]: the tables of program p, a record of the fields below
  MaxFailures \* bound: how many calls of pthread_create may fail

Service   == 1 .. N
Sequencer == 0
Thread    == {Sequencer} \cup Service

(* div        div[s]: s is released when seqCnt % div[s] = 0                *)
(* posting    the services whose release is not commented out               *)
(* countFirst seqCnt++ comes before the releases (not in seqgenex0)         *)
(* periods    sequencePeriods                                               *)
(* exits      a failing sleep ends the program (not in seqgenex0)           *)
(* prio       prio[t]: SCHED_FIFO priority of thread t                      *)
(* group      group[t]: the set of cores thread t may run on                *)
(* width      width[g]: how many cores group g has                          *)
ASSUME TablesAssumption ==
  /\ N \in Nat \ {0}
  /\ \A p \in DOMAIN Table :
       /\ Table[p].div \in [Service -> Nat \ {0}]
       /\ Table[p].posting \subseteq Service
       /\ Table[p].countFirst \in BOOLEAN
       /\ Table[p].periods \in Nat \ {0}
       /\ Table[p].exits \in BOOLEAN
       /\ Table[p].prio \in [Thread -> Int]
       /\ \A t \in Thread : Table[p].width[Table[p].group[t]] \in Nat \ {0}
  /\ MaxFailures \in Nat

VARIABLES
  prog,   \* which of the programs runs
  mpc,    \* main: "setup", "create", "join", "complete"
  mi,     \* the thread main creates or joins next
  alive,  \* FALSE once the process has ended by exit(-1) or by a signal
  spc,    \* the Sequencer: where it is
  si,     \* the service whose line of the loop body, or of the shutdown, is next
  seqCnt, \* loops counted
  posted, \* posted[s]: releases of s by the loop
  sem,    \* sem[s]: value of semS<s>
  abortS, \* abortS[s]: the abort flag of s
  wpc,    \* wpc[s]: where service s is
  cnt     \* cnt[s]: releases s has counted (S<s>Cnt)

mainVars == <<mpc, mi>>
seqVars  == <<spc, si, seqCnt, posted>>
workVars == <<wpc, cnt>>
vars == <<prog, mainVars, alive, seqVars, sem, abortS, workVars>>

\* The tables of the program that runs.
T == Table[prog]

Init == /\ prog \in DOMAIN Table
        /\ mpc = "setup" /\ mi = 1
        /\ alive = TRUE
        /\ spc = "none" /\ si = 1 /\ seqCnt = 0
        /\ posted = [s \in Service |-> 0]
        /\ sem = [s \in Service |-> 0]
        /\ abortS = [s \in Service |-> FALSE]
        /\ wpc = [s \in Service |-> "none"]
        /\ cnt = [s \in Service |-> 0]

--------------------------------------------------------------------------------
(* Scheduling.                                                             *)

\* A thread that is neither blocked in the kernel nor gone.
Ready(t) == IF t = Sequencer
              THEN spc \in {"release", "next", "post", "flag"}
              ELSE \/ wpc[t] \in {"check", "work"}
                   \/ wpc[t] = "wait" /\ sem[t] > 0

\* Mutant of MayRun: every thread has a core to itself.
MayRunAnywhere(t) == alive /\ t \in Thread

\* Fewer threads of higher priority are ready than there are cores to share.
MayRun(t) ==
  /\ alive
  /\ Cardinality({u \in Thread : /\ T.group[u] = T.group[t]
                                 /\ T.prio[u] > T.prio[t]
                                 /\ Ready(u)}) < T.width[T.group[t]]

--------------------------------------------------------------------------------
(* main.                                                                   *)

\* sem_init fails, or main is not SCHED_FIFO (print_scheduler): exit(-1).
Setup == /\ alive
         /\ mpc = "setup"
         /\ \/ mpc' = "create" /\ UNCHANGED alive
            \/ alive' = FALSE /\ UNCHANGED mpc
         /\ UNCHANGED <<prog, mi, seqVars, sem, abortS, workVars>>

Created(t) == IF t = Sequencer THEN spc \notin {"none", "absent"}
                               ELSE wpc[t] \notin {"none", "absent"}

Failures == Cardinality({s \in Service : wpc[s] = "absent"})
              + (IF spc = "absent" THEN 1 ELSE 0)

\* pthread_create of the services in their order, of the Sequencer last.  It
\* returns a positive number when it fails, which rc < 0 does not notice.
Create == /\ alive
          /\ mpc = "create"
          /\ \E ok \in {TRUE} \cup {Failures >= MaxFailures} :
               IF mi <= N
                 THEN /\ wpc' = [wpc EXCEPT ![mi] = IF ok THEN "check" ELSE "absent"]
                      /\ mi' = mi + 1
                      /\ UNCHANGED <<mpc, spc>>
                 ELSE /\ spc' = IF ok THEN "sleep" ELSE "absent"
                      /\ mpc' = "join"
                      /\ mi' = Sequencer
                      /\ UNCHANGED wpc
          /\ UNCHANGED <<prog, alive, si, seqCnt, posted, sem, abortS, cnt>>

Finished(t) == IF t = Sequencer THEN spc = "done" ELSE wpc[t] = "done"

NextJoin == /\ mi' = IF mi < N THEN mi + 1 ELSE mi
            /\ mpc' = IF mi < N THEN "join" ELSE "complete"
            /\ UNCHANGED alive

\* pthread_join(threads[mi]), from the Sequencer on; then "TEST COMPLETE".
Join == /\ alive
        /\ mpc = "join"
        /\ Finished(mi)
        /\ NextJoin
        /\ UNCHANGED <<prog, seqVars, sem, abortS, workVars>>

\* Mutant of JoinAbsent: the join waits for the thread that is not there.
JoinAbsentBlocks == FALSE

\* threads[mi] was never written: the join of such a handle is undefined.  It
\* returns an error nobody looks at, or the process crashes.
JoinAbsent == /\ alive
              /\ mpc = "join"
              /\ ~Created(mi)
              /\ \/ NextJoin
                 \/ alive' = FALSE /\ UNCHANGED mainVars
              /\ UNCHANGED <<prog, seqVars, sem, abortS, workVars>>

Main == Setup \/ Create \/ Join \/ JoinAbsent

--------------------------------------------------------------------------------
(* The Sequencer thread.                                                   *)

\* The sleep of one period is over.
Wake == /\ spc = "sleep"
        /\ MayRun(Sequencer)
        /\ spc' = "release"
        /\ si' = 1
        /\ seqCnt' = IF T.countFirst THEN seqCnt + 1 ELSE seqCnt
        /\ UNCHANGED <<prog, mainVars, alive, posted, sem, abortS, workVars>>

\* The sleep fails: exit(-1).  seqgenex0 goes on as if it had slept.
SleepFails == /\ alive
              /\ spc = "sleep"
              /\ T.exits
              /\ alive' = FALSE
              /\ UNCHANGED <<prog, mainVars, seqVars, sem, abortS, workVars>>

Due(s) == s \in T.posting /\ seqCnt % T.div[s] = 0

\* Mutants of Release: the semaphore saturates; the count is off by one.
ReleaseBinary ==
  /\ spc = "release"
  /\ MayRun(Sequencer)
  /\ IF Due(si)
       THEN /\ sem' = [sem EXCEPT ![si] = 1]
            /\ posted' = [posted EXCEPT ![si] = @ + 1]
       ELSE UNCHANGED <<sem, posted>>
  /\ si' = IF si < N THEN si + 1 ELSE 1
  /\ spc' = IF si < N THEN "release" ELSE "next"
  /\ UNCHANGED <<prog, mainVars, alive, seqCnt, abortS, workVars>>

ReleaseOffByOne ==
  /\ spc = "release"
  /\ MayRun(Sequencer)
  /\ IF si \in T.posting /\ (seqCnt + 1) % T.div[si] = 0
       THEN /\ sem' = [sem EXCEPT ![si] = @ + 1]
            /\ posted' = [posted EXCEPT ![si] = @ + 1]
       ELSE UNCHANGED <<sem, posted>>
  /\ si' = IF si < N THEN si + 1 ELSE 1
  /\ spc' = IF si < N THEN "release" ELSE "next"
  /\ UNCHANGED <<prog, mainVars, alive, seqCnt, abortS, workVars>>

\* if((seqCnt % Div) == 0) sem_post(&semS);  one line per service.
Release == /\ spc = "release"
           /\ MayRun(Sequencer)
           /\ IF Due(si)
                THEN /\ sem' = [sem EXCEPT ![si] = @ + 1]
                     /\ posted' = [posted EXCEPT ![si] = @ + 1]
                ELSE UNCHANGED <<sem, posted>>
           /\ si' = IF si < N THEN si + 1 ELSE 1
           /\ spc' = IF si < N THEN "release" ELSE "next"
           /\ UNCHANGED <<prog, mainVars, alive, seqCnt, abortS, workVars>>

\* while(seqCnt < sequencePeriods); seqgenex0 counts just before it.
NextLoop == /\ spc = "next"
            /\ MayRun(Sequencer)
            /\ seqCnt' = IF T.countFirst THEN seqCnt ELSE seqCnt + 1
            /\ spc' = IF seqCnt' < T.periods THEN "sleep" ELSE "post"
            /\ UNCHANGED <<prog, mainVars, alive, si, posted, sem, abortS, workVars>>

\* The shutdown: every semaphore is posted once more ...
PostAll == /\ spc = "post"
           /\ MayRun(Sequencer)
           /\ sem' = [sem EXCEPT ![si] = @ + 1]
           /\ si' = IF si < N THEN si + 1 ELSE 1
           /\ spc' = IF si < N THEN "post" ELSE "flag"
           /\ UNCHANGED <<prog, mainVars, alive, seqCnt, posted, abortS, workVars>>

\* Mutant of RaiseFlags: the index runs off the end.
RaiseFlagsOverrun ==
  /\ spc = "flag"
  /\ MayRun(Sequencer)
  /\ abortS' = [abortS EXCEPT ![si] = TRUE]
  /\ si' = si + 1
  /\ spc' = IF si < N THEN "flag" ELSE "done"
  /\ UNCHANGED <<prog, mainVars, alive, seqCnt, posted, sem, workVars>>

\* ... and only then the flags are raised, each a store of its own.
RaiseFlags == /\ spc = "flag"
              /\ MayRun(Sequencer)
              /\ abortS' = [abortS EXCEPT ![si] = TRUE]
              /\ si' = IF si < N THEN si + 1 ELSE 1
              /\ spc' = IF si < N THEN "flag" ELSE "done"
              /\ UNCHANGED <<prog, mainVars, alive, seqCnt, posted, sem, workVars>>

SequencerStep == Wake \/ Release \/ NextLoop \/ PostAll \/ RaiseFlags

--------------------------------------------------------------------------------
(* The service threads Service_1, Service_2, ...: all the same.            *)

\* while(!abortS)
CheckAbort(s) == /\ wpc[s] = "check"
                 /\ MayRun(s)
                 /\ wpc' = [wpc EXCEPT ![s] = IF abortS[s] THEN "done" ELSE "wait"]
                 /\ UNCHANGED <<prog, mainVars, alive, seqVars, sem, abortS, cnt>>

\* sem_wait(&semS);
Wait(s) == /\ wpc[s] = "wait"
           /\ MayRun(s)
           /\ sem[s] > 0
           /\ sem' = [sem EXCEPT ![s] = @ - 1]
           /\ wpc' = [wpc EXCEPT ![s] = "work"]
           /\ UNCHANGED <<prog, mainVars, alive, seqVars, abortS, cnt>>

\* SCnt++ and the log line.
Work(s) == /\ wpc[s] = "work"
           /\ MayRun(s)
           /\ cnt' = [cnt EXCEPT ![s] = @ + 1]
           /\ wpc' = [wpc EXCEPT ![s] = "check"]
           /\ UNCHANGED <<prog, mainVars, alive, seqVars, sem, abortS>>

ServiceStep(s) == CheckAbort(s) \/ Wait(s) \/ Work(s)

--------------------------------------------------------------------------------

Terminated == (mpc = "complete" \/ ~alive) /\ UNCHANGED vars

Next == \/ Main \/ SequencerStep \/ SleepFails
        \/ \E s \in Service : ServiceStep(s)
        \/ Terminated

(* The scheduler runs a thread that stays ready and is not outranked, and  *)
(* the sleeps end.                                                         *)
Fairness == /\ WF_vars(Main)
            /\ WF_vars(SequencerStep)
            /\ \A s \in Service : WF_vars(ServiceStep(s))

Spec == Init /\ [][Next]_vars
FairSpec == Spec /\ Fairness

--------------------------------------------------------------------------------
(* Properties.                                                             *)

TypeOK == /\ mpc \in {"setup", "create", "join", "complete"}
          /\ mi \in 0 .. N + 1
          /\ alive \in BOOLEAN
          /\ prog \in DOMAIN Table
          /\ spc \in {"none", "absent", "sleep", "release", "next", "post", "flag", "done"}
          /\ si \in Service
          /\ seqCnt \in 0 .. T.periods
          /\ posted \in [Service -> Nat]
          /\ sem \in [Service -> Nat]
          /\ abortS \in [Service -> BOOLEAN]
          /\ wpc \in [Service -> {"none", "absent", "check", "wait", "work", "done"}]
          /\ cnt \in [Service -> Nat]

\* The shutdown has posted s: that token is not a release.
FinalPost(s) ==
  IF spc \in {"flag", "done"} \/ (spc = "post" /\ s < si) THEN 1 ELSE 0

(* Every token handed out is in the semaphore, in the hands of its service *)
(* or counted, whatever the lag: a service that has slept through several  *)
(* periods still works off each release.                                   *)
TokensAccounted ==
  \A s \in Service :
    cnt[s] + sem[s] + (IF wpc[s] = "work" THEN 1 ELSE 0)
      = posted[s] + FinalPost(s)

(* All threads share one core, on which the Sequencer outranks every       *)
(* service: so in seqgenex0, and neither in seqgen nor in seqgen2.         *)
OneCore == \A t \in Thread : /\ T.group[t] = T.group[Sequencer]
                             /\ T.width[T.group[t]] = 1
                             /\ t # Sequencer => T.prio[t] < T.prio[Sequencer]

(* The Sequencer thread of each program p, modulo counting, implements the *)
(* same schedule as the priority queue of GenericSequencer: with the loop  *)
(* count as the clock, the k-th release of s falls on loop (k + 1) * div,  *)
(* or k * div where the count starts after the releases.                   *)
LoopOf(p, s, k) == (IF Table[p].countFirst THEN k + 1 ELSE k) * Table[p].div[s]

Schedule(p) ==
  INSTANCE ReleaseSchedule
    WITH Service <- Table[p].posting, now <- seqCnt,
         released <- [s \in Table[p].posting |-> posted[s]],
         Due <- LAMBDA s, k : LoopOf(p, s, k)

ImplementsSchedule ==
  /\ \A p \in DOMAIN Table : prog = p => Schedule(p)!Init
  /\ [][\A p \in DOMAIN Table : prog = p => Schedule(p)!Next]_<<seqCnt, posted>>

(* On one core the program ends, even if services could not be created,    *)
(* provided the Sequencer was: without it nobody ever posts or raises a    *)
(* flag.                                                                   *)
TerminatesOnOneCore ==
  (OneCore /\ spc = "sleep") ~> (mpc = "complete" \/ ~alive)

--------------------------------------------------------------------------------
(* What a source says and a program does not do.                           *)

(* Every service leaves its loop and main joins it and reports "TEST       *)
(* COMPLETE", unless a failing sleep has ended the program before.         *)
Termination == <>(mpc = "complete" \/ ~alive)
================================================================================
