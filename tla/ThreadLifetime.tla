----------------------------- MODULE ThreadLifetime -----------------------------
(***************************************************************************)
(* Who creates the threads of each program, what happens when that fails,  *)
(* who joins them, and how long the storage lives that they run on: the    *)
(* parameters of a C program, the heap-allocated thread_model of an        *)
(* xpto::thread.  The programs are records of what they differ in; the     *)
(* threads' own work ends by itself and is left out (FibTest has the one   *)
(* that is shared, HardcodedSequencer that of the sequencer).              *)
(***************************************************************************)
EXTENDS Integers

CONSTANT NThreads  \* NUM_THREADS, num_threads, k_num_threads

ASSUME NThreadsAssumption == NThreads \in Nat \ {0}

(* threads  how many workers the program creates                           *)
(* starter  a starter thread creates them instead of main                  *)
(* joiner   who joins them                                                 *)
(* failure  a thread that cannot be created is "exit": the end of the      *)
(*          program, "throw": an exception nobody catches, "ignored"       *)
(* owns     the destructors of xpto::thread join, and free the model       *)
(* reverse  the last one created is the first one joined                   *)
(* named    the constructor names the thread                               *)
(* waits    all but the last worker work until the last one aborts           *)

\* 01-simplethread/main.c
SimpleThreadC ==
  [threads |-> NThreads, starter |-> FALSE, joiner |-> "main", failure |-> "exit",
   owns |-> FALSE, reverse |-> FALSE, named |-> FALSE, waits |-> FALSE]

\* 01-simplethread/main.cpp: a std::thread throws, and owns its state itself.
SimpleThreadCpp == [SimpleThreadC EXCEPT !.failure = "throw"]

\* 04-simplethread-affinity/main.c
AffinityC == [SimpleThreadC EXCEPT !.failure = "ignored", !.starter = TRUE,
                                   !.joiner = "starter"]

\* 04-simplethread-affinity/main.cpp: the starter fills the vector of main.
AffinityCpp == [SimpleThreadC EXCEPT !.failure = "throw", !.starter = TRUE,
                                     !.owns = TRUE]

\* 05-assignment1/pthread.cpp: one thread, destroyed at the end of its statement.
Assignment1 == [SimpleThreadC EXCEPT !.failure = "throw", !.owns = TRUE,
                                     !.threads = 1]

\* 06-rt-simplethread/pthread.c
RtSimpleC == [SimpleThreadC EXCEPT !.failure = "ignored"]

\* 06-rt-simplethread/pthread.cpp
RtSimpleCpp == [SimpleThreadC EXCEPT !.failure = "throw", !.owns = TRUE]

\* 07-hardcoded-sequencer/main.cpp: t20, t10 and sequencer, local to main.
HardcodedCpp ==
  [SimpleThreadC EXCEPT !.failure = "throw", !.owns = TRUE, !.threads = 3,
                        !.reverse = TRUE, !.named = TRUE, !.waits = TRUE]

Programs == {SimpleThreadC, SimpleThreadCpp, AffinityC, AffinityCpp, Assignment1,
             RtSimpleC, RtSimpleCpp, HardcodedCpp}

VARIABLES
  prog,   \* the program
  pc,     \* where main and the starter thread are
  made,   \* workers that pthread_create was called for
  tpc,    \* tpc[t]: what became of worker t
  arg,    \* arg[t]: what it runs on: its params, or its thread_model
  joins,  \* workers that were joined, or tried to be
  proc    \* the process, "up" or how it ended

vars == <<prog, pc, made, tpc, arg, joins, proc>>

Actors == {"main", "starter"}
Worker == 1 .. prog.threads
AnyWorker == 1 .. IF NThreads < 3 THEN 3 ELSE NThreads

Creator == IF prog.starter THEN "starter" ELSE "main"

Init == /\ prog \in Programs
        /\ pc = [a \in Actors |-> IF a = "starter" THEN "none"
                                  ELSE IF prog.starter THEN "start" ELSE "create"]
        /\ made = 0
        /\ tpc = [t \in Worker |-> "none"]
        /\ arg = [t \in Worker |-> "none"]
        /\ joins = 0
        /\ proc = "up"

At(a, label) == proc = "up" /\ pc[a] = label

Goto(a, label) == pc' = [pc EXCEPT ![a] = label]

--------------------------------------------------------------------------------
(* The starter thread.                                                     *)

CreateStarter == /\ At("main", "start")
                 /\ pc' = [pc EXCEPT !["main"] = "joinStarter", !["starter"] = "create"]
                 /\ UNCHANGED <<prog, made, tpc, arg, joins, proc>>

StarterFails ==
  /\ At("main", "start")
  /\ IF prog.failure = "throw"
       THEN proc' = "terminated" /\ UNCHANGED pc
       ELSE /\ pc' = [pc EXCEPT !["main"] = "joinStarter", !["starter"] = "absent"]
            /\ UNCHANGED proc
  /\ UNCHANGED <<prog, made, tpc, arg, joins>>

\* Mutant of JoinStarter: main does not wait for it.
DetachStarter ==
  /\ At("main", "joinStarter")
  /\ Goto("main", IF prog.joiner = "main" THEN "join" ELSE "end")
  /\ UNCHANGED <<prog, made, tpc, arg, joins, proc>>

\* pthread_join(startthread); the destructor of t, declared after the vector.
JoinStarter ==
  /\ At("main", "joinStarter") /\ pc["starter"] = "exited"
  /\ pc' = [pc EXCEPT !["main"] = IF prog.joiner = "main" THEN "join" ELSE "end",
                      !["starter"] = "joined"]
  /\ UNCHANGED <<prog, made, tpc, arg, joins, proc>>

(* Undefined: the handle of a thread that was not created is still zero;   *)
(* the join fails or crashes.                                              *)
JoinAbsentStarter ==
  /\ At("main", "joinStarter") /\ pc["starter"] = "absent"
  /\ \/ Goto("main", "end") /\ UNCHANGED proc
     \/ proc' = "crashed" /\ UNCHANGED pc
  /\ UNCHANGED <<prog, made, tpc, arg, joins>>

--------------------------------------------------------------------------------
(* The workers.                                                            *)

\* Mutant of Create: the vector keeps the models themselves, and moves them
\* when it grows.
CreateInPlace ==
  /\ At(Creator, "create") /\ made < prog.threads
  /\ made' = made + 1
  /\ tpc' = [tpc EXCEPT ![made'] = "running"]
  /\ arg' = [t \in Worker |->
               IF t = made' THEN "alive"
               ELSE IF prog.owns /\ t <= made /\ made \in {1, 2, 4} THEN "freed"
               ELSE arg[t]]
  /\ UNCHANGED <<prog, pc, joins, proc>>

\* Mutant of Create: one thread too many.
CreateInclusive ==
  /\ At(Creator, "create") /\ made <= prog.threads
  /\ made' = made + 1
  /\ tpc' = [tpc EXCEPT ![made'] = "running"]
  /\ arg' = [arg EXCEPT ![made'] = "alive"]
  /\ UNCHANGED <<prog, pc, joins, proc>>

(* pthread_create, called once the parameters or the model are there.  A   *)
(* vector that grows moves the threads, not the models.                    *)
Create == /\ At(Creator, "create") /\ made < prog.threads
          /\ made' = made + 1
          /\ tpc' = [tpc EXCEPT ![made'] = "running"]
          /\ arg' = [arg EXCEPT ![made'] = "alive"]
          /\ UNCHANGED <<prog, pc, joins, proc>>

\* Mutant of CreateFails: no program looks.
CreateFailsUnseen ==
  /\ At(Creator, "create") /\ made < prog.threads
  /\ made' = made + 1
  /\ tpc' = [tpc EXCEPT ![made'] = "absent"]
  /\ UNCHANGED <<prog, pc, arg, joins, proc>>

(* pthread_create fails.  What the constructor of xpto::thread calls       *)
(* before, or exec and install_rt_scheduler before it, throws as well.     *)
CreateFails ==
  /\ At(Creator, "create") /\ made < prog.threads
  /\ IF prog.failure = "ignored"
       THEN /\ made' = made + 1
            /\ tpc' = [tpc EXCEPT ![made'] = "absent"]
            /\ UNCHANGED proc
       ELSE /\ proc' = IF prog.failure = "exit" THEN "exited" ELSE "terminated"
            /\ UNCHANGED <<made, tpc>>
  /\ UNCHANGED <<prog, pc, arg, joins>>

\* Mutant of NamingFails: the exception is caught.
NamingFailsCaught ==
  /\ At(Creator, "create") /\ made < prog.threads /\ prog.named
  /\ made' = made + 1
  /\ tpc' = [tpc EXCEPT ![made'] = "running"]
  /\ arg' = [arg EXCEPT ![made'] = "freed"]
  /\ UNCHANGED <<prog, pc, joins, proc>>

(* pthread_setname_np fails with the thread already running on the model   *)
(* that the exception would free; nobody catches it, so nothing is freed   *)
(* before the process is terminated.                                       *)
NamingFails ==
  /\ At(Creator, "create") /\ made < prog.threads /\ prog.named
  /\ made' = made + 1
  /\ tpc' = [tpc EXCEPT ![made'] = "running"]
  /\ arg' = [arg EXCEPT ![made'] = "alive"]
  /\ proc' = "terminated"
  /\ UNCHANGED <<prog, pc, joins>>

\* The loop ends.
AllCreated == /\ At(Creator, "create") /\ made = prog.threads
              /\ Goto(Creator, IF Creator = prog.joiner THEN "join" ELSE "exited")
              /\ UNCHANGED <<prog, made, tpc, arg, joins, proc>>

(* The sequencer of 07/main.cpp sets abort_test; its last posts follow.    *)
Abort == /\ proc = "up" /\ prog.waits /\ tpc[prog.threads] = "running"
         /\ tpc' = [tpc EXCEPT ![prog.threads] = "ending"]
         /\ UNCHANGED <<prog, pc, made, arg, joins, proc>>

\* Mutant of MayExit: the sequencer ends without abort_test.
MayExitUnaborted(t) ==
  tpc[t] = "running" /\ (prog.waits => t = prog.threads)

(* A worker's work ends; that of a service when the sequencer says so.     *)
MayExit(t) ==
  IF prog.waits
    THEN IF t = prog.threads THEN tpc[t] = "ending"
         ELSE /\ tpc[t] = "running"
              /\ tpc[prog.threads] \in {"ending", "exited", "joined"}
    ELSE tpc[t] = "running"

Exit(t) == /\ proc = "up" /\ MayExit(t)
           /\ tpc' = [tpc EXCEPT ![t] = "exited"]
           /\ UNCHANGED <<prog, pc, made, arg, joins, proc>>

\* The thread to join next: the vector destroys its elements in their order.
Joinee == IF prog.reverse THEN prog.threads - joins ELSE joins + 1

\* pthread_join, or the destructor: join, then free the model.
Join == /\ At(prog.joiner, "join") /\ joins < prog.threads
        /\ tpc[Joinee] = "exited"
        /\ joins' = joins + 1
        /\ tpc' = [tpc EXCEPT ![Joinee] = "joined"]
        /\ arg' = IF prog.owns THEN [arg EXCEPT ![Joinee] = "freed"] ELSE arg
        /\ UNCHANGED <<prog, pc, made, proc>>

\* Undefined, as for the starter.
JoinAbsent == /\ At(prog.joiner, "join") /\ joins < prog.threads
              /\ tpc[Joinee] = "absent"
              /\ \/ joins' = joins + 1 /\ UNCHANGED proc
                 \/ proc' = "crashed" /\ UNCHANGED joins
              /\ UNCHANGED <<prog, pc, made, tpc, arg>>

AllJoined ==
  /\ At(prog.joiner, "join") /\ joins = prog.threads
  /\ Goto(prog.joiner, IF prog.joiner = "main" THEN "end" ELSE "exited")
  /\ UNCHANGED <<prog, made, tpc, arg, joins, proc>>

\* main returns, and with it go the process and what main had on its stack.
End == /\ At("main", "end")
       /\ proc' = "over"
       /\ arg' = [t \in Worker |-> IF arg[t] = "alive" THEN "freed" ELSE arg[t]]
       /\ UNCHANGED <<prog, pc, made, tpc, joins>>

StarterStep == CreateStarter \/ StarterFails \/ JoinStarter \/ JoinAbsentStarter
CreateStep  == Create \/ CreateFails \/ NamingFails \/ AllCreated
JoinStep    == Join \/ JoinAbsent \/ AllJoined

Next == \/ StarterStep \/ CreateStep \/ JoinStep \/ Abort \/ End
        \/ \E t \in Worker : Exit(t)

(* Every thread gets its turn; the joiner goes on when the one it waits    *)
(* for has exited.                                                         *)
Fairness == /\ WF_vars(StarterStep) /\ WF_vars(CreateStep) /\ WF_vars(JoinStep)
            /\ WF_vars(Abort) /\ WF_vars(End)
            /\ \A t \in AnyWorker : WF_vars(t \in Worker /\ Exit(t))

Spec == Init /\ [][Next]_vars /\ Fairness

--------------------------------------------------------------------------------

Labels == {"none", "absent", "start", "create", "joinStarter", "join", "exited",
           "joined", "end"}

TypeOK ==
  /\ prog \in Programs
  /\ pc \in [Actors -> Labels]
  /\ made \in 0 .. prog.threads
  /\ tpc \in [Worker -> {"none", "absent", "running", "ending", "exited", "joined"}]
  /\ arg \in [Worker -> {"none", "alive", "freed"}]
  /\ joins \in 0 .. made
  /\ proc \in {"up", "over", "exited", "terminated", "crashed"}

(* "The trampoline runs with a pointer to this heap-allocated model, which *)
(* never moves": no thread runs on what has been freed, whether its owner  *)
(* is moved, destroyed, or never finished because its constructor threw.   *)
(* And main destroys the vector of 04/main.cpp only when the starter, who  *)
(* fills it, is done with it.                                              *)
Running(t) == tpc[t] \in {"running", "ending"}

StorageOutlivesThreads ==
  /\ \A t \in Worker : proc # "over" /\ Running(t) => arg[t] = "alive"
  /\ joins > 0 \/ pc["main"] \in {"join", "end"} => pc["starter"] # "create"

(* A program that comes to its end has had every one of its threads do its *)
(* work and has joined it, the starter's too; it lacks some only where     *)
(* nothing looks at what pthread_create returns.                           *)
NoneCutOff ==
  proc = "over" =>
    \/ /\ \A t \in Worker : tpc[t] = "joined"
       /\ prog.starter => pc["starter"] = "joined"
    \/ /\ prog.failure = "ignored"
       /\ \A t \in Worker : tpc[t] \in {"none", "absent", "joined"}
       /\ pc["starter"] = "absent" \/ \E t \in Worker : tpc[t] = "absent"

\* Every run ends: no join waits for a thread that waits for the joiner.
Termination == <>(proc # "up")
================================================================================
