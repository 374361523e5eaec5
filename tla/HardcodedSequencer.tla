-------------------------- MODULE HardcodedSequencer ---------------------------
(***************************************************************************)
(* 07-hardcoded-sequencer: one list of sleeps and posts releases F10 every *)
(* 20 ms and F20 every 50 ms.  All threads are pinned to core 3 under      *)
(* SCHED_FIFO, the Sequencer above F10 above F20, so this module keeps the *)
(* time: a Tick gives TickMs of the core to the highest thread that can    *)
(* run.  A job of a service is calibrated to C ms, by one measurement, and *)
(* may need less, or up to Overrun ticks more; a sleep may last up to      *)
(* Oversleep ticks longer than it was asked to.                            *)
(***************************************************************************)
EXTENDS Naturals, Sequences

CONSTANTS
  Periods,    \* MajorPeriods / major_periods: 3
  TickMs,     \* milliseconds of one tick
  Oversleep,  \* bound: ticks a sleep may last too long
  Overrun,    \* bound: ticks a job may last longer than C
  MaxStale    \* bound: tokens the semaphores of main.cpp may start with

ASSUME HardcodedAssumption ==
  /\ Periods \in Nat \ {0}
  /\ TickMs \in {1, 2, 5, 10}
  /\ Oversleep \in Nat /\ Overrun \in Nat /\ MaxStale \in Nat

Service == {"F10", "F20"}

C == [s \in Service |-> IF s = "F10" THEN 10 ELSE 20]
T == [s \in Service |-> IF s = "F10" THEN 20 ELSE 50]

Ticks(ms) == ms \div TickMs

\* Mutant of Program: the sleeps around the second post to F20 are swapped
\* with their neighbours.
ProgramSwapped ==
  << [sleep |-> 0,  post |-> "F10"], [sleep |-> 0,  post |-> "F20"],
     [sleep |-> 20, post |-> "F10"], [sleep |-> 10, post |-> "F10"],
     [sleep |-> 20, post |-> "F20"], [sleep |-> 10, post |-> "F10"],
     [sleep |-> 20, post |-> "F10"], [sleep |-> 20, post |-> "none"] >>

\* The body of the Sequencer's loop: sleep, then post.
Program ==
  << [sleep |-> 0,  post |-> "F10"], [sleep |-> 0,  post |-> "F20"],
     [sleep |-> 20, post |-> "F10"], [sleep |-> 20, post |-> "F10"],
     [sleep |-> 10, post |-> "F20"], [sleep |-> 10, post |-> "F10"],
     [sleep |-> 20, post |-> "F10"], [sleep |-> 20, post |-> "none"] >>

VARIABLES
  mpc,      \* main: what it does next; "crashed" is the process
  seq,      \* Sequencer: "none", "absent" (it could not be created), "call",
            \* "asleep", "post", "abort", "final", "done"
  step,     \* the entry of Program it is at
  period,   \* MajorPeriodCnt
  left,     \* ticks its sleep still lasts
  sem,      \* semF10 and semF20
  spc,      \* services: "none", "absent", "check", "wait", "got", "run", "exited"
  work,     \* ticks the job of a service still needs
  abortTest,
  now,      \* the time the sleeps so far add up to, a history variable
  stale,    \* tokens of earlier programs: hmmm_1, hmmm_2 are shared names
  overran,  \* a job took longer than its C, a history variable
  released, \* posts of the schedule to each service, a history variable
  served    \* release: the jobs each service has begun

seqVars  == <<seq, step, period, left, now>>
history  == <<stale, overran, released, served>>
vars     == <<mpc, seqVars, sem, spc, work, abortTest, history>>

Init == /\ mpc = "F10"
        /\ seq = "none" /\ step = 1 /\ period = 0 /\ left = 0
        /\ stale \in [Service -> 0 .. MaxStale]
        /\ sem = stale
        /\ spc = [s \in Service |-> "none"]
        /\ work = [s \in Service |-> 0]
        /\ abortTest = FALSE
        /\ now = 0
        /\ overran = FALSE
        /\ released = [s \in Service |-> 0]
        /\ served = [s \in Service |-> 0]

--------------------------------------------------------------------------------
(* The core.                                                               *)

\* A service that is neither blocked on its semaphore nor gone.
Ready(s) == /\ mpc # "crashed"
            /\ \/ spc[s] \in {"check", "got", "run"}
               \/ spc[s] = "wait" /\ sem[s] > 0

SequencerIdle == seq \in {"none", "absent", "asleep", "done"}

\* Mutant of Runs: F20 was given the higher priority.
RunsInverted(s) == /\ SequencerIdle
                   /\ Ready(s)
                   /\ s = "F10" => ~Ready("F20")

\* Service s has the core: rt_max_prio-1 for F10, rt_max_prio-2 for F20.
Runs(s) == /\ SequencerIdle
           /\ Ready(s)
           /\ s = "F20" => ~Ready("F10")

\* A tick passes when every thread has gone as far as it can without time.
Tick == /\ seq \in {"asleep", "done"}
        /\ seq = "asleep" => left > 0
        /\ \A s \in Service : Runs(s) => spc[s] = "run" /\ work[s] > 0
        /\ seq = "asleep" \/ \E s \in Service : Runs(s)
        /\ left' = IF seq = "asleep" THEN left - 1 ELSE left
        /\ work' = [s \in Service |-> IF Runs(s) THEN work[s] - 1 ELSE work[s]]
        /\ UNCHANGED <<mpc, seq, step, period, sem, spc, abortTest, now, history>>

--------------------------------------------------------------------------------
(* main creates the services, the Sequencer, and joins the three.  The     *)
(* order of the services differs between lab1.c and main.cpp; no property  *)
(* depends on it.                                                          *)

\* A thread that cannot be created is ignored by lab1.c, which never looks at
\* rc and whose semaphores start at 0; main.cpp's xpto::thread throws, and
\* nobody catches it.
Fresh   == \A s \in Service : stale[s] = 0
Ignores == Fresh
Throws  == \A s \in Service : spc[s] # "absent"

Create(s) ==
  /\ mpc = s
  /\ \/ /\ \E pc \in {"check"} \cup (IF Ignores THEN {"absent"} ELSE {}) :
             spc' = [spc EXCEPT ![s] = pc]
        /\ mpc' = IF s = "F10" THEN "F20" ELSE "Sequencer"
     \/ Throws /\ mpc' = "crashed" /\ UNCHANGED spc
  /\ UNCHANGED <<seqVars, sem, work, abortTest, history>>

CreateSequencer ==
  /\ mpc = "Sequencer"
  /\ \/ /\ seq' \in {"call"} \cup (IF Ignores THEN {"absent"} ELSE {})
        /\ mpc' = "join"
     \/ Throws /\ mpc' = "crashed" /\ UNCHANGED seq
  /\ UNCHANGED <<step, period, left, now, sem, spc, work, abortTest, history>>

\* The handle of a thread that was not created holds whatever was on lab1.c's
\* stack.  Its join is undefined: it returns an error nobody looks at ...
Join == /\ mpc = "join"
        /\ seq \in {"done", "absent"}
        /\ \A s \in Service : spc[s] \in {"exited", "absent"}
        /\ mpc' = "end"
        /\ UNCHANGED <<seqVars, sem, spc, work, abortTest, history>>

\* ... or the process crashes, when it is that thread's turn.
JoinCrashes ==
  /\ mpc = "join"
  /\ \/ seq = "absent"
     \/ seq = "done" /\ \/ spc["F10"] = "absent"
                        \/ spc["F10"] = "exited" /\ spc["F20"] = "absent"
  /\ mpc' = "crashed"
  /\ UNCHANGED <<seqVars, sem, spc, work, abortTest, history>>

Creation == (\E s \in Service : Create(s)) \/ CreateSequencer
Main     == Creation \/ Join \/ JoinCrashes

--------------------------------------------------------------------------------
(* The Sequencer.                                                          *)

\* usleep, which lasts at least as long as asked.
Sleep == /\ seq = "call"
         /\ LET n == Ticks(Program[step].sleep) IN
              left' \in IF n = 0 THEN {0} ELSE n .. n + Oversleep
         /\ seq' = "asleep"
         /\ UNCHANGED <<mpc, step, period, now, sem, spc, work, abortTest, history>>

\* Mutant of Wake: one period too many.
WakeInclusive ==
  /\ seq = "asleep" /\ left = 0
  /\ now' = now + Program[step].sleep
  /\ IF Program[step].post = "none"
       THEN /\ period' = period + 1
            /\ step' = 1
            /\ seq' = IF period' <= Periods THEN "call" ELSE "abort"
       ELSE seq' = "post" /\ UNCHANGED <<step, period>>
  /\ UNCHANGED <<mpc, left, sem, spc, work, abortTest, history>>

\* The sleep is over; the last one of the list ends the major period.
Wake == /\ seq = "asleep" /\ left = 0
        /\ now' = now + Program[step].sleep
        /\ IF Program[step].post = "none"
             THEN /\ period' = period + 1
                  /\ step' = 1
                  /\ seq' = IF period' < Periods THEN "call" ELSE "abort"
             ELSE seq' = "post" /\ UNCHANGED <<step, period>>
        /\ UNCHANGED <<mpc, left, sem, spc, work, abortTest, history>>

\* Mutant of Post: the last sleep of the last period is left out.
PostThenAbort == /\ seq = "post"
                 /\ LET s == Program[step].post IN
                      /\ sem' = [sem EXCEPT ![s] = @ + 1]
                      /\ released' = [released EXCEPT ![s] = @ + 1]
                 /\ step' = step + 1
                 /\ seq' = IF Program[step'].post = "none" /\ period = Periods - 1
                             THEN "abort" ELSE "call"
                 /\ UNCHANGED <<mpc, period, left, now, spc, work, abortTest, stale, overran, served>>

Post == /\ seq = "post"
        /\ LET s == Program[step].post IN
             /\ sem' = [sem EXCEPT ![s] = @ + 1]
             /\ released' = [released EXCEPT ![s] = @ + 1]
        /\ step' = step + 1
        /\ seq' = "call"
        /\ UNCHANGED <<mpc, period, left, now, spc, work, abortTest, stale, overran, served>>

Abort == /\ seq = "abort"
         /\ abortTest' = TRUE
         /\ seq' = "final"
         /\ UNCHANGED <<mpc, step, period, left, now, sem, spc, work, history>>

\* Mutant of FinalPosts: F20 is not woken.
FinalPostF10 == /\ seq = "final"
                /\ sem' = [sem EXCEPT !["F10"] = @ + 1]
                /\ seq' = "done"
                /\ UNCHANGED <<mpc, step, period, left, now, spc, work,
                               abortTest, history>>

FinalPosts == /\ seq = "final"
              /\ sem' = [s \in Service |-> sem[s] + 1]
              /\ seq' = "done"
              /\ UNCHANGED <<mpc, step, period, left, now, spc, work,
                             abortTest, history>>

Sequencer == Sleep \/ Wake \/ Post \/ Abort \/ FinalPosts

--------------------------------------------------------------------------------
(* fib10 and fib20.                                                        *)

\* while(!abortTest)
Check(s) == /\ spc[s] = "check"
            /\ Runs(s)
            /\ spc' = [spc EXCEPT ![s] = IF abortTest THEN "exited" ELSE "wait"]
            /\ UNCHANGED <<mpc, seqVars, sem, work, abortTest, history>>

\* sem_wait
Take(s) == /\ spc[s] = "wait"
           /\ Runs(s)
           /\ sem' = [sem EXCEPT ![s] = @ - 1]
           /\ spc' = [spc EXCEPT ![s] = "got"]
           /\ UNCHANGED <<mpc, seqVars, work, abortTest, history>>

\* The token may be the one that ends the service.
Begin(s) == /\ spc[s] = "got"
            /\ Runs(s)
            /\ IF abortTest
                 THEN /\ spc' = [spc EXCEPT ![s] = "exited"]
                      /\ UNCHANGED <<work, overran, served>>
                 ELSE /\ spc' = [spc EXCEPT ![s] = "run"]
                      /\ \E n \in 1 .. Ticks(C[s]) + Overrun :
                           /\ work' = [work EXCEPT ![s] = n]
                           /\ overran' = (overran \/ n > Ticks(C[s]))
                      /\ served' = [served EXCEPT ![s] = @ + 1]
            /\ UNCHANGED <<mpc, seqVars, sem, abortTest, stale, released>>

Complete(s) == /\ spc[s] = "run" /\ work[s] = 0
               /\ Runs(s)
               /\ spc' = [spc EXCEPT ![s] = "check"]
               /\ UNCHANGED <<mpc, seqVars, sem, work, abortTest, history>>

ServiceStep(s) == Check(s) \/ Take(s) \/ Begin(s) \/ Complete(s)

--------------------------------------------------------------------------------

\* No Sequencer, and a service that waits for it for ever, and main for that.
Orphaned == seq = "absent" /\ \E s \in Service : spc[s] = "wait" /\ sem[s] = 0

Ended == (mpc \in {"end", "crashed"} \/ Orphaned) /\ UNCHANGED vars

Next == Tick \/ Main \/ Sequencer \/ (\E s \in Service : ServiceStep(s)) \/ Ended

(* Time passes, and every thread that can run does in the end.  Nothing    *)
(* makes an undefined join crash.                                          *)
Fairness == /\ WF_vars(Tick) /\ WF_vars(Creation \/ Join) /\ WF_vars(Sequencer)
            /\ \A s \in Service : WF_vars(ServiceStep(s))

Spec == Init /\ [][Next]_vars /\ Fairness

--------------------------------------------------------------------------------

TypeOK ==
  /\ mpc \in Service \cup {"Sequencer", "join", "end", "crashed"}
  /\ seq \in {"none", "absent", "call", "asleep", "post", "abort", "final", "done"}
  /\ step \in 1 .. Len(Program)
  /\ period \in 0 .. Periods
  /\ left \in 0 .. Ticks(20) + Oversleep
  /\ sem \in [Service -> Nat]
  /\ spc \in [Service -> {"none", "absent", "check", "wait", "got", "run", "exited"}]
  /\ \A s \in Service : work[s] \in 0 .. Ticks(C[s]) + Overrun
  /\ abortTest \in BOOLEAN
  /\ now \in 0 .. 100 * Periods
  /\ stale \in [Service -> 0 .. MaxStale]
  /\ overran \in BOOLEAN
  /\ released \in [Service -> Nat] /\ served \in [Service -> Nat]

\* A job that has been taken and whose work is not done.
Unfinished(s) == spc[s] = "got" \/ (spc[s] = "run" /\ work[s] > 0)

(* The set of two services is schedulable (lab1.c lines 216 to 223, 90%    *)
(* load): whenever a service is released, the work of its release before   *)
(* is done, from the critical instant on, however the jobs and sleeps      *)
(* vary.  So no semaphore ever counts a backlog.  If a job takes longer    *)
(* than its C this is still true of F10, the service of the higher rate,   *)
(* but no more of F20: its first job is done at 40 ms, the very instant    *)
(* F10 is released again, and any longer means 50 ms.  A service that      *)
(* could not be created has no deadlines; the other one keeps its own.     *)
Met(s) == \/ spc[s] = "absent"
          \/ sem[s] + (IF Unfinished(s) THEN 1 ELSE 0) <= 1
DeadlinesMet == Fresh => Met("F10") /\ (~overran => Met("F20"))

(* When a service ends it has done every job the schedule released, and    *)
(* one for each token that was there before: the abort flag, which it      *)
(* reads after it has taken a token, takes no job away from it.  And it    *)
(* leaves no more tokens to the next program than it found: the three      *)
(* major periods have time enough to work off what was stale.  Of F20 this *)
(* is only true while no job takes longer than its C.                      *)
AllServed == \A s \in Service :
               (spc[s] = "exited" /\ (s = "F20" => ~overran))
                 => served[s] = released[s] + stale[s] /\ sem[s] <= stale[s]

(* The posts come at the periods the comments promise: F10 every 20 ms and *)
(* F20 every 50 ms, of the time the sleeps add up to.                      *)
Due(s, k) == T[s] * k
Schedule == INSTANCE ReleaseSchedule
ImplementsSchedule == Schedule!Spec

(* The program ends, with every thread joined, whichever services could    *)
(* not be created; it hangs only if lab1.c has a service and no Sequencer. *)
Termination == <>(mpc \in {"end", "crashed"} \/ Orphaned)
================================================================================
