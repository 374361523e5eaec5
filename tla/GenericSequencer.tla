--------------------------- MODULE GenericSequencer ----------------------------
(***************************************************************************)
(* 08-sequencer-generic/generic-sequencer.cpp: the main thread keeps a     *)
(* priority queue of absolute deadlines, sleeps until the earliest one,    *)
(* posts that service's semaphore and puts the service back with its next  *)
(* deadline.  One thread per service waits on the semaphore.  At the       *)
(* horizon main raises every abort flag, posts every semaphore once more   *)
(* and leaves its scope, whose destructors join the threads.               *)
(*                                                                         *)
(* The semaphores are named ones opened with O_CREAT and never unlinked    *)
(* (include/xpto/semaphore.hpp), so their values outlive the process: the  *)
(* variable sem survives Restart, everything else is rebuilt.              *)
(***************************************************************************)
EXTENDS Integers, FiniteSets

CONSTANTS
  N,          \* number of services; service s is the s-th element of the array
  Freq,       \* Freq[s]: releases per second
  Phase,      \* Phase[s]: deadline of the first release
  TicksPerSec,\* std::giga::num: clock ticks in a second
  Horizon,    \* the loop runs while elapsed < Horizon (3s in the source)
  MaxDelay,   \* bound: how much longer than asked one step of main may take
  MaxDrift,   \* bound: how far the wall clock may run ahead of elapsed
  MaxRuns,    \* bound: how often the program is run on the same semaphores
  Crashes     \* whether a run may be killed before it ends

Service == 1 .. N

ASSUME ServiceAssumption ==
  /\ N \in Nat \ {0}
  /\ Freq \in [Service -> Nat \ {0}]
  /\ Phase \in [Service -> Nat]
  /\ TicksPerSec \in Nat \ {0}
  /\ Horizon \in Nat \ {0}

ASSUME BoundsAssumption ==
  /\ MaxDelay \in Nat
  /\ MaxDrift \in Nat
  /\ MaxRuns \in Nat \ {0}
  /\ Crashes \in BOOLEAN

VARIABLES
  \* the main thread
  pc,           \* where main is
  i,            \* the service main's current for-loop has reached
  queue,        \* the priority queue: a set of <<deadline, service>>
  cur,          \* x: the service being released
  elapsed,      \* the logical clock
  releases,     \* releases[s]: main's release counter
  missed,       \* number of "deadline missed" reports
  clock,        \* std::chrono::steady_clock, 0 when the loop starts
  \* shared between main and the service threads
  abort,        \* abort[s]: the flag that stops service s
  elapsedAlive, \* FALSE once main's scope has destroyed elapsed
  semOpen,      \* semOpen[s]: the semaphore handle is usable
  \* the service threads
  wpc,          \* wpc[s]: where service s is
  cycles,       \* cycles[s]: releases service s has logged
  \* what outlives the process
  sem,          \* sem[s]: value of the named semaphore
  stale,        \* stale[s]: its value when this run opened it
  run           \* number of this run

mainVars   == <<pc, i, queue, cur, elapsed, releases, missed, clock>>
shared     == <<abort, elapsedAlive, semOpen>>
workerVars == <<wpc, cycles>>
persistent == <<stale, run>>
vars == <<mainVars, shared, workerVars, sem, persistent>>

--------------------------------------------------------------------------------

\* Mutant of Deadline: the period is truncated first, then multiplied.
AccumulatedDeadline(s, n) == Phase[s] + n * (TicksPerSec \div Freq[s])

(* The deadline of the n-th release: phase plus n seconds over frequency,  *)
(* truncated by the integer division.                                      *)
Deadline(s, n) == Phase[s] + (n * TicksPerSec) \div Freq[s]

\* Mutant of Before: the order std::priority_queue has by default.
MaxHeapBefore(e, f) == e[1] > f[1] \/ (e[1] = f[1] /\ e[2] >= f[2])

(* The priority queue's order, earliest_deadline: by deadline, then by the *)
(* address of the service, which is its place in the array.                *)
Before(e, f) == e[1] < f[1] \/ (e[1] = f[1] /\ e[2] <= f[2])

IsTop(e) == e \in queue /\ \A f \in queue : Before(e, f)

\* Between two observable points of main some of its time passes.
Elapse(least) == /\ \E d \in 0 .. MaxDelay : clock' = clock + least + d
                 /\ clock' - elapsed' <= MaxDrift

--------------------------------------------------------------------------------

Zeros     == [s \in Service |-> 0]
NoFlag    == [s \in Service |-> FALSE]
AllOpen   == [s \in Service |-> TRUE]
NoThreads == [s \in Service |-> "none"]

Init == /\ pc = "spawn" /\ i = 1 /\ queue = {} /\ cur = 1
        /\ elapsed = 0 /\ missed = 0 /\ clock = 0
        /\ releases = Zeros
        /\ abort = NoFlag
        /\ elapsedAlive = TRUE
        /\ semOpen = AllOpen
        /\ wpc = NoThreads
        /\ cycles = Zeros
        /\ sem = Zeros
        /\ stale = Zeros
        /\ run = 1

\* The range-for that starts a service's thread and queues its first deadline.
Spawn == /\ pc = "spawn"
         /\ wpc' = [wpc EXCEPT ![i] = "check"]
         /\ queue' = queue \cup {<<Phase[i], i>>}
         /\ i' = IF i < N THEN i + 1 ELSE 1
         /\ pc' = IF i < N THEN "spawn" ELSE "top"
         /\ UNCHANGED <<cur, elapsed, releases, missed, clock, shared, cycles,
                        sem, persistent>>

\* Mutants of Sleep: the remaining time, or elapsed, in coarser units.
SleepTruncated ==
  /\ pc = "top"
  /\ \E e \in queue :
       /\ IsTop(e)
       /\ e[1] > elapsed
       /\ elapsed' = e[1]
       /\ cur' = e[2]
       /\ Elapse(((e[1] - elapsed) \div 2) * 2)
  /\ pc' = "post"
  /\ UNCHANGED <<i, queue, releases, missed, shared, workerVars, sem, persistent>>

SleepAddsTruncated ==
  /\ pc = "top"
  /\ \E e \in queue :
       /\ IsTop(e)
       /\ e[1] > elapsed
       /\ elapsed' = elapsed + ((e[1] - elapsed) \div 2) * 2
       /\ cur' = e[2]
       /\ Elapse(e[1] - elapsed)
  /\ pc' = "post"
  /\ UNCHANGED <<i, queue, releases, missed, shared, workerVars, sem, persistent>>

(* The head of the loop: compare the earliest deadline with elapsed.       *)
\* rem > 0: sleep for the difference (never less), then move elapsed to it.
Sleep == /\ pc = "top"
         /\ \E e \in queue :
              /\ IsTop(e)
              /\ e[1] > elapsed
              /\ elapsed' = e[1]
              /\ cur' = e[2]
              /\ Elapse(e[1] - elapsed)
         /\ pc' = "post"
         /\ UNCHANGED <<i, queue, releases, missed, shared, workerVars, sem,
                        persistent>>

\* rem <= 0: go on at once, reporting a deadline that elapsed has passed.
NoSleep == /\ pc = "top"
           /\ \E e \in queue :
                /\ IsTop(e)
                /\ e[1] <= elapsed
                /\ cur' = e[2]
                /\ missed' = IF e[1] < elapsed THEN missed + 1 ELSE missed
           /\ UNCHANGED elapsed
           /\ Elapse(0)
           /\ pc' = "post"
           /\ UNCHANGED <<i, queue, releases, shared, workerVars, sem, persistent>>

\* Mutant of Post: a semaphore that is not counting.
PostBinary ==
  /\ pc = "post"
  /\ sem' = [sem EXCEPT ![cur] = 1]
  /\ \E e \in queue : IsTop(e) /\ queue' = queue \ {e}
  /\ pc' = "requeue"
  /\ UNCHANGED <<i, cur, elapsed, releases, missed, clock, shared, workerVars,
                 persistent>>

\* x.sem.post(); queue.pop();  the pop is private to main.
Post == /\ pc = "post"
        /\ sem' = [sem EXCEPT ![cur] = @ + 1]
        /\ \E e \in queue : IsTop(e) /\ queue' = queue \ {e}
        /\ pc' = "requeue"
        /\ UNCHANGED <<i, cur, elapsed, releases, missed, clock, shared,
                       workerVars, persistent>>

\* Mutants of Requeue: the counter is bumped too late; the loop ends when the
\* service just queued, instead of the clock, has passed the horizon.
RequeueBeforeCounting ==
  /\ pc = "requeue"
  /\ releases' = [releases EXCEPT ![cur] = @ + 1]
  /\ queue' = queue \cup {<<Deadline(cur, releases[cur]), cur>>}
  /\ pc' = IF elapsed < Horizon THEN "top" ELSE "abort"
  /\ UNCHANGED <<i, cur, elapsed, missed, clock, shared, workerVars, sem,
                 persistent>>

RequeueStopsOnNext ==
  /\ pc = "requeue"
  /\ releases' = [releases EXCEPT ![cur] = @ + 1]
  /\ queue' = queue \cup {<<Deadline(cur, releases'[cur]), cur>>}
  /\ pc' = IF Deadline(cur, releases'[cur]) < Horizon THEN "top" ELSE "abort"
  /\ UNCHANGED <<i, cur, elapsed, missed, clock, shared, workerVars, sem,
                 persistent>>

\* ++x.releases, emplace the next deadline, and the loop's condition.
Requeue == /\ pc = "requeue"
           /\ releases' = [releases EXCEPT ![cur] = @ + 1]
           /\ queue' = queue \cup {<<Deadline(cur, releases'[cur]), cur>>}
           /\ pc' = IF elapsed < Horizon THEN "top" ELSE "abort"
           /\ UNCHANGED <<i, cur, elapsed, missed, clock, shared, workerVars,
                          sem, persistent>>

--------------------------------------------------------------------------------
(* The end of main: raise the flags and wake the threads, service by       *)
(* service, then the destructors in reverse order of declaration.          *)

RaiseAbort == /\ pc = "abort"
              /\ abort' = [abort EXCEPT ![i] = TRUE]
              /\ pc' = "wake"
              /\ UNCHANGED <<i, queue, cur, elapsed, releases, missed, clock,
                             elapsedAlive, semOpen, workerVars, sem, persistent>>

\* Mutants of WakeAborted: the wake-up is forgotten; the index runs over.
WakeForgotten ==
  /\ pc = "wake"
  /\ i' = IF i < N THEN i + 1 ELSE N
  /\ pc' = IF i < N THEN "abort" ELSE "scope"
  /\ UNCHANGED <<queue, cur, elapsed, releases, missed, clock, shared,
                 workerVars, sem, persistent>>

WakeOverrun ==
  /\ pc = "wake"
  /\ sem' = [sem EXCEPT ![i] = @ + 1]
  /\ i' = i + 1
  /\ pc' = IF i < N THEN "abort" ELSE "scope"
  /\ UNCHANGED <<queue, cur, elapsed, releases, missed, clock, shared,
                 workerVars, persistent>>

WakeAborted == /\ pc = "wake"
               /\ sem' = [sem EXCEPT ![i] = @ + 1]
               /\ i' = IF i < N THEN i + 1 ELSE N
               /\ pc' = IF i < N THEN "abort" ELSE "scope"
               /\ UNCHANGED <<queue, cur, elapsed, releases, missed, clock,
                              shared, workerVars, persistent>>

\* elapsed and queue were declared after services: they go first.
LeaveScope == /\ pc = "scope"
              /\ elapsedAlive' = FALSE
              /\ queue' = {}
              /\ pc' = "join"
              /\ UNCHANGED <<i, cur, elapsed, releases, missed, clock, abort,
                             semOpen, workerVars, sem, persistent>>

\* Mutant of Join: the thread is detached instead of joined.
Detach == /\ pc = "join"
          /\ pc' = "close"
          /\ UNCHANGED <<i, queue, cur, elapsed, releases, missed, clock, shared,
                         workerVars, sem, persistent>>

\* ~thread of services[i]: pthread_join.
Join == /\ pc = "join"
        /\ wpc[i] = "done"
        /\ pc' = "close"
        /\ UNCHANGED <<i, queue, cur, elapsed, releases, missed, clock, shared,
                       workerVars, sem, persistent>>

\* ~sem of services[i], declared before t: sem_close, without sem_unlink.
CloseSem == /\ pc = "close"
            /\ semOpen' = [semOpen EXCEPT ![i] = FALSE]
            /\ i' = IF i > 1 THEN i - 1 ELSE 1
            /\ pc' = IF i > 1 THEN "join" ELSE "exited"
            /\ UNCHANGED <<queue, cur, elapsed, releases, missed, clock, abort,
                           elapsedAlive, workerVars, sem, persistent>>

Main == \/ Spawn \/ Sleep \/ NoSleep \/ Post \/ Requeue
        \/ RaiseAbort \/ WakeAborted \/ LeaveScope \/ Join \/ CloseSem

--------------------------------------------------------------------------------
(* A service thread.                                                       *)

\* while (!x.abort)
CheckAbort(s) == /\ wpc[s] = "check"
                 /\ wpc' = [wpc EXCEPT ![s] = IF abort[s] THEN "done" ELSE "wait"]
                 /\ UNCHANGED <<mainVars, shared, cycles, sem, persistent>>

\* x.sem.wait()
Wait(s) == /\ wpc[s] = "wait"
           /\ sem[s] > 0
           /\ sem' = [sem EXCEPT ![s] = @ - 1]
           /\ wpc' = [wpc EXCEPT ![s] = "woken"]
           /\ UNCHANGED <<mainVars, shared, cycles, persistent>>

\* Mutant of Woken: the flag is not checked again after the wait.
WokenUnchecked(s) ==
  /\ wpc[s] = "woken"
  /\ wpc' = [wpc EXCEPT ![s] = "log"]
  /\ UNCHANGED <<mainVars, shared, cycles, sem, persistent>>

\* if (x.abort) break;
Woken(s) == /\ wpc[s] = "woken"
            /\ wpc' = [wpc EXCEPT ![s] = IF abort[s] THEN "done" ELSE "log"]
            /\ UNCHANGED <<mainVars, shared, cycles, sem, persistent>>

\* ++x.cycles and the log line, which loads elapsed.
LogCycle(s) == /\ wpc[s] = "log"
               /\ cycles' = [cycles EXCEPT ![s] = @ + 1]
               /\ wpc' = [wpc EXCEPT ![s] = "check"]
               /\ UNCHANGED <<mainVars, shared, sem, persistent>>

Worker(s) == CheckAbort(s) \/ Wait(s) \/ Woken(s) \/ LogCycle(s)

--------------------------------------------------------------------------------
(* The process as the operating system sees it.                            *)

\* The program is started again, after it ended or (Crashes) was killed
\* anywhere on its way; sem_open finds the semaphores as they were left.
Restart == /\ run < MaxRuns
           /\ pc = "exited" \/ Crashes
           /\ run' = run + 1
           /\ stale' = sem
           /\ pc' = "spawn" /\ i' = 1 /\ queue' = {} /\ cur' = 1
           /\ elapsed' = 0 /\ missed' = 0 /\ clock' = 0
           /\ releases' = Zeros /\ cycles' = Zeros
           /\ abort' = NoFlag /\ elapsedAlive' = TRUE /\ semOpen' = AllOpen
           /\ wpc' = NoThreads
           /\ UNCHANGED sem

Terminated == pc = "exited" /\ run = MaxRuns /\ UNCHANGED vars

Next == Main \/ (\E s \in Service : Worker(s)) \/ Restart \/ Terminated

(* Every thread is scheduled again and again; nothing forces a Restart.    *)
Fairness == WF_vars(Main) /\ \A s \in Service : WF_vars(Worker(s))

Spec == Init /\ [][Next]_vars
FairSpec == Spec /\ Fairness

--------------------------------------------------------------------------------
(* Properties.                                                             *)

MainPC   == {"spawn", "top", "post", "requeue", "abort", "wake", "scope",
             "join", "close", "exited"}
WorkerPC == {"none", "check", "wait", "woken", "log", "done"}

TypeOK == /\ pc \in MainPC
          /\ i \in Service
          /\ queue \subseteq Int \X Service
          /\ cur \in Service
          /\ elapsed \in Nat
          /\ releases \in [Service -> Nat]
          /\ missed \in Nat
          /\ clock \in Nat
          /\ abort \in [Service -> BOOLEAN]
          /\ elapsedAlive \in BOOLEAN
          /\ semOpen \in [Service -> BOOLEAN]
          /\ wpc \in [Service -> WorkerPC]
          /\ cycles \in [Service -> Nat]
          /\ sem \in [Service -> Nat]
          /\ stale \in [Service -> Nat]
          /\ run \in 1 .. MaxRuns

InLoop == pc \in {"top", "post", "requeue"}

\* Posts of service s by the release loop (the final wake-up is not one).
Posted(s) == releases[s] + IF pc = "requeue" /\ cur = s THEN 1 ELSE 0

(* The queue holds every service exactly once, with the deadline of its    *)
(* own next release; between pop and emplace only the current service is   *)
(* out of it.  So top() and pop() never meet an empty queue and the        *)
(* reserved storage of services.size() elements (lines 64-68) is enough.   *)
QueueHoldsEveryService ==
  InLoop =>
    queue = {<<Deadline(s, releases[s]), s>> :
               s \in IF pc = "requeue" THEN Service \ {cur} ELSE Service}

(* "the division truncates each deadline by at most 1 ns, but ... the      *)
(* error never accumulates" (lines 108-110): however many releases went    *)
(* before, a queued deadline is less than one tick before the exact        *)
(* rational instant releases/frequency, and never after it.                *)
TruncationNeverAccumulates ==
  InLoop => \A e \in queue :
    LET exact == releases[e[2]] * TicksPerSec
        kept  == (e[1] - Phase[e[2]]) * Freq[e[2]]
    IN  kept <= exact /\ exact < kept + Freq[e[2]]

(* When the loop has ended no release before the horizon was skipped, and  *)
(* the only releases at or after it happened at the instant the loop       *)
(* noticed.  Ties make this delicate: the services due at the same instant *)
(* as the last release stay unreleased.                                    *)
NoneLeftBehind ==
  pc \in {"abort", "wake", "scope"} =>
    \A s \in Service :
      /\ Deadline(s, releases[s]) >= Horizon
      /\ releases[s] > 0 => Deadline(s, releases[s] - 1) <= elapsed

(* A service logs a cycle only for a release of the loop: the post that    *)
(* wakes it for shutdown is never mistaken for one, because the flag was   *)
(* raised first (lines 124-127, 75).  Tokens found in the named semaphore  *)
(* at the start count as releases of an earlier run.                       *)
CyclesAreReleases ==
  \A s \in Service : cycles[s] <= stale[s] + Posted(s)

(* No release is lost and none is counted twice: until its flag is raised, *)
(* every token a service was ever given is still in the semaphore, in the  *)
(* thread's hands (returned from sem.wait(), not yet logged) or logged,    *)
(* however far the thread lags behind the release loop.                    *)
Holding(s) == IF wpc[s] \in {"woken", "log"} THEN 1 ELSE 0

TokensAccounted ==
  \A s \in Service :
    ~abort[s] => cycles[s] + Holding(s) + sem[s] = stale[s] + Posted(s)

(* The semaphore handle outlives the thread that waits on it (member order *)
(* of struct service: sem before t).                                       *)
SemOutlivesThread ==
  \A s \in Service : ~semOpen[s] => wpc[s] \in {"none", "done"}

(* A service is never ahead of its schedule, by the clock, whose sleeps    *)
(* add up, and by the elapsed time it logs, which main stores before it    *)
(* posts: but for as many cycles as it found tokens of earlier runs, each  *)
(* cycle is logged when the deadline of its release has passed.            *)
NeverEarly ==
  [][\A s \in Service :
       (cycles'[s] = cycles[s] + 1 /\ cycles[s] >= stale[s])
         => LET due == Deadline(s, cycles[s] - stale[s]) IN
              clock >= due /\ elapsed >= due]_vars

(* The program ends: every service thread notices its flag and is joined.  *)
Termination == <>(pc = "exited")

(* The release loop implements the abstract schedule: deadlines in global  *)
(* order, none skipped, none twice, the logical clock never running over a *)
(* release still owed.  A run that is started again starts the schedule    *)
(* again, whatever tokens it finds.                                        *)
Schedule == INSTANCE ReleaseSchedule
              WITH now <- elapsed, released <- releases, Due <- Deadline

ImplementsSchedule ==
  /\ Schedule!Init
  /\ [][IF run' = run THEN Schedule!Next ELSE Schedule!Init']_<<elapsed, releases>>

--------------------------------------------------------------------------------
(* Claims of the source that the program does not keep.                    *)

(* A release whose deadline has already passed on the wall clock is        *)
(* reported: "deadline for {} missed by {}" (lines 99-102).                *)
MissReported ==
  [][(pc = "top" /\ pc' = "post" /\ \E e \in queue : IsTop(e) /\ e[1] < clock)
       => missed' > missed]_vars

(* "'elapsed' below is shared with the service threads" (line 34): while a *)
(* service may still load it, it exists.                                   *)
ElapsedOutlivesThreads ==
  \A s \in Service : wpc[s] = "log" => elapsedAlive
================================================================================
