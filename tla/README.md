# UCB-RTES: specifications, model checking and proofs

This directory holds TLA+ modules for the programs of UCB-RTES, a course
repository on real-time embedded systems: small C and C++ programs that create
real-time threads, release periodic services through semaphores, and shut them
down again. Each program is short; what is hard in it is the interleaving of its
threads, the order of its shutdown, its arithmetic on time, and what it leaves
behind in the kernel. Those are what the modules keep. Formatting, logging,
`or_lose` and the printing of time stamps are left out.

Line numbers below refer to files under `src/`.

Contents: [inventory](#1-inventory) · [modules and the
code](#2-the-modules-and-the-code) · [runs](#3-the-runs) · [scheduling and
fairness](#4-scheduling-and-fairness) · [proofs](#5-proofs) · [disagreements
found](#6-where-the-code-and-its-words-disagree) · [not
modelled](#7-what-is-not-modelled)

## 1. Inventory

| Component | State it keeps | Operations | Interacts through | Status |
|---|---|---|---|---|
| `08 generic-sequencer.cpp` | priority queue of deadlines, logical time `elapsed`, release and cycle counters, abort flags | release loop of main, service threads, shutdown, destructors | named semaphores, atomics `abort` and `elapsed` | modelled |
| `08 sam-sequencer/seqgen.c, seqgen2.c, seqgenex0.c` | loop count `seqCnt`, semaphores, plain abort flags | main, Sequencer thread, 3 or 7 services, failing `pthread_create` and sleeps | unnamed semaphores, flags, SCHED_FIFO and affinity | modelled |
| `07 lab1.c, main.cpp` | position in a fixed list of sleeps and posts, one abort flag, two semaphores | main, Sequencer, F10, F20 | semaphores, flag, one core under SCHED_FIFO | modelled |
| `03 main.c, main.cpp` | two named semaphores that outlive the process, a loop index in each process | parent, child, fork, wait, unlink | named semaphores | modelled |
| `02 pthread.c, main.cpp` | a plain and an atomic global | adding and subtracting thread, main | the globals, join | modelled |
| `06 pthread.c, pthread.cpp` | shared globals `idx`, `jdx`; `delta_t`; the threads | four threads of one Fibonacci loop, creation, join | the globals | modelled |
| `01`, `04`, both languages | an array or a vector of threads, a starter thread in `04` | creation and its failure, join | who owns the threads | modelled |
| `05 pthread.cpp` | one thread, a pipe | creation, join, `popen` | - | partly: the pipe's contents and syslog are I/O |
| `include/xpto/thread.hpp` | the entry model and the pthread | create, set name, move, join | the entry model, shared with the new thread | modelled |
| `include/xpto/c_resource.hpp, semaphore.hpp, auto.hpp` | a handle and its destructor | open, wait, post, close; move, replace | - | partly: `sem` is in the modules of 03, 07 and 08; moving and replacing a handle, which no program does, is not modelled |
| `include/xpto/orlose.hpp, syslog.hpp` | - | format, throw, log | - | not modelled: no state |
| clock measurements, `raspbian-ccr`, build files | - | - | - | not modelled, see [section 7](#7-what-is-not-modelled) |

What makes each of them correct, and what threatens it:

- **Generic sequencer.** Every release happens once, in deadline order, never
  before its deadline, with an error that never accumulates; no release is lost
  however far a service lags; shutdown wakes every thread without counting as a
  release; nothing a thread uses goes away before it. Threatened by ties in the
  queue, integer division, named semaphores that keep their value across runs
  and crashes, the order of the declarations in `main` and in `struct service`,
  and the difference between logical time and the clock.
- **C sequencers.** Modulo counting releases each service at its rate, and the
  program ends. Threatened by the order of the shutdown (posts before flags),
  which is harmless or not according to the cores the threads may run on, by
  equal priorities, by threads that were never created and are joined all the
  same, by an absolute sleep to a time whose nanoseconds are not normalised, by a
  correction that overshoots, and by a clock that somebody sets.
- **Hardcoded sequencer.** The set {F10: C=10, T=20; F20: C=20, T=50} meets its
  deadlines, the list of sleeps is the schedule it claims to be, shutdown loses
  no job. Threatened by sleeps that last too long, jobs that exceed their
  calibrated C, tokens of an earlier program in the semaphores of `main.cpp`, a
  `pthread_create` whose failure `lab1.c` does not notice, and the abort flag read
  after a token was taken.
- **FIB_TEST.** A load that takes the time it was calibrated to. Threatened by
  its counters being globals of all the threads that run it.
- **Two processes.** Parent and child take strict turns and leave the semaphores
  empty. Threatened by interruptions that leave tokens to a later run, and by a
  `fork` that fails.
- **Increment and decrement threads.** The atomic sum is exact when it is
  printed; the racy one stays in the range its updates span. Threatened by lost
  updates, by a thread that was not created, and by printing before joining.
- **Creating and joining threads.** No thread runs on storage that is gone, none
  is cut off by the end of main. Threatened by a constructor that throws with its
  thread running, by a vector that grows or is destroyed while threads are added
  to it, and by failures nobody looks at.

`PROJECT.json` lists every hazard at its line with the properties that watch it.

## 2. The modules and the code

```
   ReleaseSchedule   (abstract: releases in order, none skipped, none twice)
      ^          ^                  ^
      |          |                  |         INSTANCE ... WITH, a refinement
GenericSequencer ModuloSequencer HardcodedSequencer      PingPong
      |             |                                       ^
 MCGeneric...    MCModulo                                TwoProcs

 DriftControl <- MCDrift     FibTest <- MCFibTest     IncDec     ThreadLifetime
```

The theorems about each module are in a module of their own that extends it:
`GenericSequencerProofs`, `ModuloSequencerProofs`, `DriftControlProofs`,
`HardcodedSequencerProofs`, `FibTestProofs`, `TwoProcsProofs`, `IncDecProofs`,
`ThreadLifetimeProofs`.

**ReleaseSchedule** is what all three sequencers promise: a logical clock `now`
that only moves forward, and for each service a stream of releases, the k-th at
`Due(s, k)`. The clock never passes a release that is owed (`Advance`), and a
release is handed out at its instant only (`Release`). Each sequencer gives its
own `now` and `Due`: deadlines in clock ticks, the loop count, or the
milliseconds its sleeps add up to.

**GenericSequencer** models `generic-sequencer.cpp`. `Spawn` is the range-for of
lines 71-84, one service at a time, with the threads it has started already
running. `Sleep` and `NoSleep` are the head of the loop (two outcomes of comparing
the earliest deadline with `elapsed`, lines 93-103), `Post` is
`sem.post(); queue.pop()`, `Requeue` the counter, the next deadline and the loop
condition (lines 105-116). `RaiseAbort` and `WakeAborted` are the loop of lines
124-127, `LeaveScope`, `Join` and `CloseSem` the destructors in reverse order
of declaration, service by service. A service thread is `CheckAbort`, `Wait`,
`Woken`, `LogCycle`. The queue is a set of pairs `<<deadline, service>>`; the
comparator orders by deadline and then by address, so no two entries are equal and
the set stands for the priority queue. Semaphores are named, opened with `O_CREAT`
and never unlinked (`semaphore.hpp:17`): `Restart` rebuilds everything but `sem`,
after a run that ended or, with `Crashes`, at any step. `clock` is the steady
clock; every step of the main thread that takes time may take up to `MaxDelay`
longer than asked.

**ModuloSequencer** models the three C sequencers at once. They differ in
tables (`MCModulo`, where each service keeps the divisor and the priority of its number in
the program): the divisors (`div`), the services whose post is not commented
out (`posting`), whether `seqCnt` is counted before the releases (`countFirst`),
whether a failing sleep ends the process, and where the threads run (`prio`,
`group`, `width`); `prog` says which of them a behaviour runs. `MayRun` is the
scheduler: a thread runs only while fewer threads of higher priority than its
group has cores are ready. `Wake`, `SleepFails`, `Release` (one line
`if((seqCnt % d) == 0) sem_post(...)` per step), `NextLoop`, `PostAll`, `RaiseFlags`
are the Sequencer, `CheckAbort`, `Wait`, `Work` a service, `Setup`, `Create`, `Join`
and `JoinAbsent` main. `pthread_create` returns a positive number when it fails;
the programs test for a negative one, report success, and join a handle that was
never written. That join may return an error or crash, so it does either.

**DriftControl** is the part of `seqgenex0.c` that decides how long the Sequencer
sleeps (lines 220-285): two readings of the real-time clock, the correction by
the previous cycle's length and by the bias, the split into seconds and
nanoseconds, the loop around `clock_nanosleep`. `Adjusted` is lines 227-231 with
their gain, `NANOSEC_PER_SEC + DT_SCALING_UNCERTAINTY_NANOSEC` to the second, which
is 1.0005, and with the truncation of the `double` to a `long`. A time in a
`double` of seconds since 1970 is exact to 238 ns only: each reading may be off by
`Rounding`. Between the readings pass up to `Exec` ticks, before the first cycle
too. `Normalize` carries only when `tv_nsec > NANOSEC_PER_SEC`, as line 243 does;
`Refused` is `clock_nanosleep` returning `EINVAL` for any part outside `[0, 10^9)`,
which the loop takes for a finished sleep. `ClockSet` is somebody setting
`CLOCK_REALTIME`, forward or back, at any point; a sleep to an absolute time
follows it. The release part of the cycle is ModuloSequencer's.

**HardcodedSequencer** keeps the time of one core. `Program` is the list of
`usleep` and `sem_post` in the Sequencer's body. `Tick` hands `TickMs` of the core
to the highest-priority thread that can run, and passes only when no thread has
an instantaneous step left. A job needs between one tick and its C plus `Overrun`;
a sleep lasts up to `Oversleep` ticks too long. The semaphores of `main.cpp` are
named (`hmmm_1`, `hmmm_2`) and never unlinked, so they may start with `stale` tokens
of an earlier run; those of `lab1.c` start at 0. `Create` and `CreateSequencer` may
fail: `lab1.c` never looks at `rc` and goes on without the thread ("absent"), whose
handle it joins all the same (`Join`, `JoinCrashes`); in `main.cpp` the
constructor of `xpto::thread` throws and the process ends ("crashed").

**FibTest** is the load itself, access by access: the loops of FIB_TEST count in
the globals `idx` and `jdx`, which in `06/pthread.c` four threads share in parallel
and in `07/lab1.c` two services of which one preempts the other. The race is
undefined behaviour, so `inRegisters` lets the build choose: each access to memory
(Debug), or the loop in registers and the globals written back at its end
(Release). `Begin`, `AfterCall`, `Complete` and `Measure` are what the threads do
around the loop; `Delta` is `delta_t`, which subtracts two time stamps.
HardcodedSequencer says when the services of `lab1.c` run; here any preemption may
happen.

**TwoProcs** is both programs of `03-twoprocs`; `Unlinks` tells them apart. The
actions are the system calls in their order, the two `sem_open` and the two
`sem_unlink` one by one: `exists` says which of the two names the kernel knows. A
semaphore that exists keeps its value when it is opened, so runs follow each other
in one behaviour, ended, interrupted anywhere, or with a failed fork; `dirty` has the
names that were used by a run that went wrong and have not been unlinked since. **PingPong** is its
abstraction: ask, answer, again.

**IncDec** splits `gsum=gsum+INCDEC_AMOUNT` into a load and a store (the plain
`int` is raced on; what the builds produce is a lost update), keeps the atomic
update whole, and lets main print after (`pthread.c`) or before (`main.cpp`) it
joins, as `joinsFirst` says. A thread that could not be created is ignored by
`pthread.c`, which prints what the other made of the sums, and ends `main.cpp`.

**ThreadLifetime** is what eight programs do with their threads as objects, from
`01-simplethread/main.c` to `07-hardcoded-sequencer/main.cpp`. A program is a
record of what it differs in: how many workers, whether a starter thread creates
them, who joins them and in which order, whether the destructor of
`xpto::thread` owns what they run on, and what a failing `pthread_create` leads to:
the end of the program (`or_lose` in C), an exception that nobody catches, or
nothing. `tpc[t]` is what became of a worker, `arg[t]` the storage it runs on. `Create`,
`CreateFails` and `NamingFails` are the outcomes of the constructor; the last is
`pthread_setname_np` failing with the thread already running. `Join` is
`pthread_join` or the destructor that joins and then frees, `JoinAbsent` the join
of a thread that was not created, which may fail or crash. `Abort` and `MayExit`
keep the order in which the services of `07 main.cpp` may end.

`PROJECT.json` maps every definition to the lines it stands for.

## 3. The runs

Each passing run checks deadlock too, unless said otherwise. The state counts are
TLC's distinct states.

| Run | Question | Bounds | Result |
|---|---|---|---|
| `Generic` | queue, deadlines, cycles, tokens, shutdown order; what crosses from run to run; is each run a ReleaseSchedule of its own; does the last run end | 2 services at 3 and 2 Hz, the second with a phase, a second of 4 ticks, 5 ticks, delays of one tick; 2 runs, killed anywhere | 771,921 states |
| `GenericMissed` | is a missed deadline reported? | 2 services, a delay of one tick | violated |
| `GenericLifetime` | does `elapsed` outlive its readers? | 2 services, no delay | violated |
| `Modulo` | tokens, rates, the shutdown, and that modulo counting implements ReleaseSchedule | the three programs, 3 services each: `seqgen` 1:6:3 on 4 cores for 7 loops, `seqgen2` 1:2:2 on three cores for 4 loops, `seqgenex0` with its real divisors 2, 10, 15 on one core for 32 loops; one `pthread_create` may fail | 216,525 states |
| `Seqgen2Hang` | does `seqgen2` end? | 3 of 7 services, 4 loops, a core each for the Sequencer, even and odd services | violated |
| `Drift` | early wake-ups; how drift adds up; what a clock that is set does | 13 ticks a second, period 3, bias 1, gain 16/13, readings off by 1, four cycles from any phase of the second, the clock set once by -30, -2, 14 ticks | 3,567,898 states |
| `DriftFullSecond` | is an early wake-up always caught? | the same, two cycles, nobody sets the clock | violated |
| `Hardcoded` | deadlines, no job lost, the list is the schedule, ends | the real list, 3 major periods, ticks of 5 ms, sleeps and jobs up to 5 ms too long, a stale token in each semaphore, any creation may fail | 62,223 states |
| `FibTest` | how far the shared counters stray, how much work is done, exact time differences | 3 threads of `06`, 2 jobs of each service of `07`, 2 iterations, 2 blocks; stamps over more than two seconds | 57,313 states |
| `IncDec` | exact atomic sum, range of the racy one | 4 iterations by 2, both programs, any creation may fail | 70,484 states |
| `TwoProcs` | turns, tokens over runs, ending | 3 rounds, 4 runs, interrupts and failing forks, both programs | 2,003 states |
| `ThreadLifetime` | nothing freed under a thread, nothing cut off, every run ends | the eight programs, 4 threads, any failures | 1,256 states |

What the properties say:

- *GenericSequencer.* `QueueHoldsEveryService`: the queue is exactly every
  service with the deadline of its own next release, so `top` and `pop` never
  meet an empty queue. `TruncationNeverAccumulates` is the comment at lines
  108-110. `NoneLeftBehind`: when the loop ends every release before the horizon
  was made; services due exactly at the horizon may be left, because the loop
  ends after the first of them. `NeverEarly`: when a service logs a cycle, both
  the clock and the `elapsed` it logs have reached the deadline of the release it
  counts as. Tokens that the service found in its semaphore it logs at once; they
  shift the count, so with `stale` of them cycle k is release k - stale.
  `CyclesAreReleases`: the shutdown post is never logged as a cycle, although
  tokens of an earlier run are. `TokensAccounted`: until its flag is up every
  token is in the semaphore, in the thread's hands or logged.
  `SemOutlivesThread`: `sem` is declared before `t`. `ImplementsSchedule`: within a
  run every step is one of ReleaseSchedule, and a restart is its initial state
  again, whatever the semaphores hold. `Termination`.
- *ModuloSequencer.* `TokensAccounted`: each release is worked off or waits in
  the semaphore, however far a service lags.
  `TerminatesOnOneCore`: where all threads share a core and the Sequencer outranks
  them, the final posts and flags come as one and the program ends, also if
  services could not be created. `ImplementsSchedule`.
- *DriftControl.* `EarlyOnlyAtFullSecond`: services are never released before
  the instant asked for, except where the nanoseconds add up to exactly one
  second, which is not carried and which the kernel refuses (that exception is what
  `DriftFullSecond` shows); a clock that is set makes at most two more releases
  early. `DriftHalved`: what drift control does to drift. Its gain exceeds 1, so
  a cycle that was too long is followed by one that is too short by more, and no
  bound on one cycle, nor on two, holds for ever: the loop is unstable, if only
  slightly. What holds is a bound on the whole run, however its cycles alternate:
  the lateness of this reading plus gain times the lateness of the reading before
  is at most what each cycle adds anew (latency, two executions, two roundings, the
  truncation, less the bias) times the number of cycles. Two latenesses for the
  price of one: the run drifts half as fast as it would without correction, but it
  does drift.
- *HardcodedSequencer.* `DeadlinesMet`: with no stale token, at a release the
  job before is done, for F10 whatever happens, for F20 if no job exceeds its C, and also where the
  other one could not be created. The margin is nil: at the critical instant F20
  finishes at 40 ms, when F10 is released again; a job any longer finishes F20 after 50 ms. `AllServed`:
  a service ends only with all its releases done and leaves no more tokens than
  it found; an overrun of F20 can leave extra ones to the next program.
  `ImplementsSchedule`: the list of sleeps is 20 ms and 50 ms. `Termination`, unless
  `lab1.c` has a service and no Sequencer, when it hangs.
- *FibTest.* `IdxBounded` says how far `idx` runs past its limit when threads
  overwrite it: by one with two threads, to twice the limit with three. A third
  thread can set `idx` back while another holds a value past the limit, so with
  the four of `pthread.c` the bound grows with the square of the iterations
  (`(I+1)(I+6)/2`). The run has three threads; two, three and four are proved for
  any number of iterations ([section 5](#fibtest)). With the 10^7 iterations of
  `pthread.c` the bound is more than an `unsigned int` holds.
  `WorkDone`: the threads of `pthread.c` together do at least the work of one, and
  no more can be said; in `lab1.c` a job of F10 is always whole, one of F20 never
  longer than calibrated and shorter by at most a call for each preemption, so the
  shared counters make no deadline of HardcodedSequencer harder to meet. `DtExact`:
  `delta_t` is exact, and zero when the clock went back. `EveryJobEnds`.
- *TwoProcs.* `OneToken` (one token under way, nothing left at the end) for runs
  not preceded by a bad one, or by a run of `main.c` that has ended since;
  `TokensPerRun` for all: each bad run adds a token at
  most. `Alternates` is the refinement of PingPong. `Termination` of the last run
  if its fork succeeded.
- *IncDec.* `GsumBounded`: losing updates never takes `gsum` out of the range of
  what was stored. `PrintedExact`, where main joins first: the sum of what the threads
  that exist add and subtract, each in full.
- *ThreadLifetime.* `StorageOutlivesThreads`: no thread runs on storage that was
  freed, and main destroys the vector of `04` only after the starter that fills
  it. `NoneCutOff`: a program that comes to its end has joined every thread it
  created. `Termination`: each run ends, by its own end, by `exit`, by the
  exception or by a crash.

Why the bounds are enough. Rates 3 and 2 and a phase of a tick in a second of 4
ticks give uneven truncation (4/3), ties, a tie at the horizon, and a service that
starts late. 32 loops of seqgenex0
contain a common multiple of its three divisors and three releases of the
slowest; shutdown is reached with every backlog that the priorities allow. The
seven loops of `seqgen` contain a release of all three services at once and one
loop after it; of the seven services of seqgen2 the three kept include the pair
that shares a core, one that is never posted, and one alone. Drift starts at
every phase of the second and four cycles of three ticks cross its boundary at every
offset, the exact second included, and are enough for the first cycle to echo in two
corrections; the gain is far above 1.0005, to be seen among whole ticks; the steps of
the clock are shorter than a period, and longer than what one carry can undo. Three major
periods are the program's own constant; 5 ms divides every time in it. Two
iterations let a thread be set back past its last test; two jobs of F10 can fall
into one of F20. Four runs of TwoProcs allow three bad ones before the last. Four
threads fill a vector across its reallocations at 1, 2 and 4. Unbounded counters
are bounded only by the programs' own loops and by `MaxRuns`, `MaxSets`,
`MaxFailures`, `MaxStale` and `Jobs`; `MaxDrift` limits how far the clock may run
ahead of the logical time, which the code itself never corrects.

`CHECK_DEADLOCK FALSE` appears where the system may stop. In `Modulo`
and `Seqgen2Hang` the shutdown may strand a service and with it main, which is what
`Seqgen2Hang` shows, and a program without its Sequencer waits for ever. In
`TwoProcs` a parent whose fork failed waits for an answer that never comes
(`main.c:45` does not test for -1). In `FibTest` and `ThreadLifetime` the threads
and the process exit.

## 4. Scheduling and fairness

Fairness is weak and per thread: main, the Sequencer and every service. The
programs do nothing but run, block in the kernel and sleep; the scheduler runs a
thread that stays ready, and in ModuloSequencer and HardcodedSequencer only
while `MayRun` or `Runs` lets it, so a thread that higher priorities keep off
the core is not promised any progress. A wait on a semaphore needs no strong
fairness, because each semaphore has a single waiter and a token, once there,
stays. Nothing forces a `Restart`, an interruption or a failing call.
Nor does anything make the join of a thread that does not exist crash.
HardcodedSequencer also asks that time passes (`WF(Tick)`), which needs no
cooperation of the program: a `Tick` is enabled only when no thread has an
instantaneous step. In FibTest nothing makes a service begin a job; one that has
begun goes on when it may run. In ThreadLifetime `WF(Abort)` says that the
sequencer of `07 main.cpp` comes to the end of its list.

SCHED_FIFO is modelled where the affinity of a program makes priorities matter:
on one core in `07` and in `seqgenex0`, by groups of cores in `seqgen2`. `seqgen`
does not pin its threads (the line is commented out): with four cores for four
threads every interleaving is allowed. So it is in GenericSequencer, whose
threads are created with default attributes and no affinity
(`generic-sequencer.cpp:72`).

## 5. Proofs

TLAPS checks the theorems below for every value of the constants that satisfies the
named assumptions. TLC evaluates these on every run.

| Assumption | Says | Why the code is like that |
|---|---|---|
| `ServiceAssumption`, `BoundsAssumption` | at least one service, positive integer rates, ticks in a second and horizon, natural phases | the table of `generic-sequencer.cpp:61-62` |
| `TablesAssumption` | positive divisors and periods, a core at least for each thread | the tables of `MCModulo` |
| `DriftAssumption` | `3 * Dt + 4 * Rounding <= Sec`, the bias at most a period, a gain of at most 2 | a period of 10 ms, readings off by 238 ns, a gain of 1.0005: a corrected delay is never more than a second and one carry is enough |
| `HardcodedAssumption` | a tick divides 10 ms; any `Periods`, `Oversleep`, `Overrun`, `MaxStale` | every time of the list is a multiple of 10 ms |
| `FibTestAssumption` | two to four threads; positive counts of iterations, blocks and jobs; a positive number of ticks in a second | `NUM_THREADS` is 4, `lab1.c` has two services; the counts are `#define`s and literals |
| `TwoProcsAssumption` | at least one round and one run | `while(i < 3)`, `main.c:47` and `68` |
| `IncDecAssumption`, `NThreadsAssumption` | `Count` positive, `Amount` natural; a thread | the `#define`s |

Two theorems have a hypothesis of their own, a named definition: `Feasible` and
`WorkedOff` (HardcodedSequencer).

Every theorem is `Spec => []P` for an invariant, `Spec => P` for the others, and has
the same shape: an inductive invariant that holds initially, that every action
keeps, and that implies the property. TLC checked each inductive invariant on the
run's constants before it was proved.

### GenericSequencer

| Theorem | Property | Inductive invariant |
|---|---|---|
| `TypeCorrect` | `TypeOK` | itself |
| `QueueComplete` | `QueueHoldsEveryService` | `TypeOK /\ QueueInv` |
| `TruncationBounded` | `TruncationNeverAccumulates` | the same |
| `CyclesCounted` | `CyclesAreReleases` | `TypeOK /\ TokenInv` |
| `NoTokenLost` | `TokensAccounted` | the same |
| `SemaphoreOutlives` | `SemOutlivesThread` | `TypeOK /\ LifetimeInv` |
| `NobodyStranded` | `NoServiceStranded`, below | `TypeOK /\ ShutdownInv` |
| `NothingSkipped` | `NoneLeftBehind` | `IInv`: all but `LifetimeInv`, and `ClockInv` |
| `CyclesNeverEarly` | `NeverEarly` | the same |
| `ImplementsReleaseSchedule` | `ImplementsSchedule` | the same |

- `QueueInv` adds to the property what the queue is while it is being filled
  (the services before `i`, at their phases) and that between the look at the top
  and the `pop` the top is still the service that is being released. Without the
  second part `pop` might remove another service than the one put back. It rests on
  `TopIsUnique` (the comparator is antisymmetric) and `FirstDeadline` (the phase is
  the formula at 0). Truncation then is arithmetic on the deadline itself
  (`DivisionTruncates`): because a deadline is computed from the release number,
  not from the deadline before it, nothing has to be carried by induction.
- `TokenInv` strengthens the count of cycles by the thread that is about to log
  one, and adds that the flag is up when the wake-up is posted (`pc = "wake"`):
  the order of the two statements at 125-126 is what makes the shutdown token
  different from a release.
- `LifetimeInv` says that no semaphore is closed before the joins begin, and that
  the one about to be closed belongs to a thread that is done.
- `NoServiceStranded` is the part of `Termination` that needs no fairness: when
  main comes to its joins, a service that waits has a token. `ShutdownInv` follows
  the loop of 124-127 service by service: the flag is up before the token comes, so
  whoever takes the token leaves, and nobody goes back to wait.
- `ClockInv` puts `elapsed` between what was released and what is owed:
  `Deadline(s, releases[s] - 1) <= elapsed <= Deadline(s, releases[s])` for every
  service, with equality for the one under way, and `elapsed <= clock`. A sleep
  keeps it because the top of a complete queue is the earliest of all that is owed
  (`TopIsEarliest`), a release because deadlines grow with their number
  (`DeadlineMonotonic`, from `DivisionMonotonic`). `CyclesNeverEarly` combines
  it with `TokenInv`: a service that is about to log its k-th cycle has been given
  at least k tokens, its stale ones and its releases, so at least k - stale releases
  have come due. In the refinement a sleep is `Advance`, a `Requeue` is
  `Release`, a `Restart` is `Init`, and everything else stutters.

### ModuloSequencer

| Theorem | Property |
|---|---|
| `TypeCorrect` | `TypeOK` |
| `NoTokenLost` | `TokensAccounted` |
| `ImplementsReleaseSchedule` | `ImplementsSchedule` |
| `NobodyStrandedOnOneCore` | `OneCore => NoServiceStranded`, below |

`IInv` has where main and the Sequencer are in their walks (`Positions`), how far
the loop count can be there (`Loops`), the tokens, and `OnSchedule`: the next
release of `s` is the first multiple of its divisor at or after `seqCnt`, or after it
when the line of `s` has been executed in this loop. Whether it has is where the
programs differ (`Passed`): `seqgenex0` counts after the releases, the others
before. `OnSchedule` is what makes `(seqCnt % div) == 0` the same test as "this is
the loop of release number `posted[s]`"; `DueAtNextMultiple` is that piece of
arithmetic.

`NobodyStrandedOnOneCore` is the part of `TerminatesOnOneCore` that needs no fairness:
when the Sequencer is gone, a service that waits has a token. The posts come
before the flags, and what makes that harmless is the scheduler alone: as long as
the Sequencer is ready no service runs (`SequencerKeepsCore`), so none can take its
last token between the two loops. On several cores it can (`Seqgen2Hang`).

### DriftControl

| Theorem | Property |
|---|---|
| `TypeCorrect` | `TypeOK` |
| `EarlyOnlyThen` | `EarlyOnlyAtFullSecond` |
| `DriftIsHalved` | `DriftHalved` |

The properties talk of a cycle that is over, the invariant follows it: `Counting`
relates the counters to the place in the loop, `Read` orders the readings of the
clock, `Request` says what was asked of the kernel, `Slept` how long it slept,
`Ended` how long the cycle was, each as soon as the clock was left alone for as
many cycles as it takes (`since`). `TruncateBounds` is the conversion of a `double`
to a `long`, for either sign. `TargetOfCompute` is the carry: split, correct and
normalise, and the result is the same instant and one the kernel accepts, unless it
lies before the reading or on a full second; it rests on `DelayWithinSecond`, which
needs the assumption. `Drifting` is the property, kept by `OneMoreCycle`: a cycle
that slept what it was told to adds to the weighted sum of the two latenesses what
was new in it, because the correction has taken away gain times the cycle before,
and the rest telescopes. Nothing in that depends on the size of the gain.

### HardcodedSequencer

| Theorem | Property | Hypotheses |
|---|---|---|
| `TypeCorrect` | `TypeOK` | - |
| `ImplementsReleaseSchedule` | `ImplementsSchedule` | - |
| `DeadlinesAlwaysMet` | `DeadlinesMet` | `Feasible` |
| `EveryJobServed` | `AllServed` | `Feasible`, `WorkedOff` |

The schedulability of the two services, for any number of major periods and any
interleaving of sleeps that last too long with jobs that end early or late. A
margin of nothing (F20 ends at 40 ms, when F10 is released again) leaves no room for
an argument that rounds up.

- *Supply and demand.* `Need(s, c)` is the ticks `s` still needs for its tokens and
  its job if a job takes `c`; `Still` is what is left of the present sleep. A `Tick`
  takes one from each, as long as somebody needs it. `Covered` says that the need
  of both services fits what is left of the sleep, plus the ten milliseconds
  (`Slack`) that F20 takes across the next release of F10 at two places of the list,
  and which of the two is done by then. A service that could not be created needs
  nothing (`Need` is 0 whatever its semaphore holds), which leaves more for the
  other. `Demand10` does the same for F10 alone, which
  nobody delays, with the longest job it may have: `Need + Spare <= Still + After`,
  where `Spare` is what that job leaves of a period.
- *Tokens of earlier programs.* With them the need does not fit. `Backlog10` and
  `Backlog20` say that the core has not been idle since: all that was given out
  is done or still needed, so the need is bounded by everything given less the time
  of all the sleeps. A service is in one case or the other, and leaves the second
  when its need reaches zero.
- *The end.* At 100 ms of the last period `Covered` or a worked-off backlog leaves
  each service waiting at its semaphore (`Idle`), so the token of the final
  posts finds it there, abort is read after it, and it is not a job (`Ending`). With
  no margin the last job may end at the same tick as the sleep; `Tight` is that case.
- *Hypotheses.* `Feasible`: a job of F10 is over by its next release,
  `C + Overrun <= T`. `WorkedOff`: the longest job of F10 leaves something of its
  period, the sleeps are long enough for all of its jobs, those of stale tokens
  included, and the tenth of the core that is free in each major period for the
  stale tokens of both services. Both are sharp: at ticks of 5 ms TLC finds
  `DeadlinesMet` violated with `Overrun = 3`, where 2 is `Feasible`, and `AllServed`
  violated with `Overrun = 2` or with `MaxStale = 2` in three periods, where the run's
  1 is `WorkedOff`. `DeadlinesMet` is about programs that found no token
  (`Fresh`), so it needs only the first.

### FibTest

In memory or in registers, for any number of iterations, blocks and jobs:

| Theorem | Property | Rests on |
|---|---|---|
| `TypeCorrect` | `TypeOK` | where each thread can be (`Core`) |
| `WorkIsDone` | `WorkDone` | `Climbing` (`pthread.c`), `Job10` and `Job20` (`lab1.c`) |
| `IdxStaysBounded` | `IdxBounded` | `Range` |
| `TimeIsExact` | `DtExact` | `DeltaExact`, arithmetic without a behaviour |

- `Climbing`: no copy of `idx`, in memory or loaded, is ahead of the iterations
  that were done by everybody. So a thread that sees the limit knows that they were.
- `Job10` and `Job20` compare what a service has done in its call of FIB_TEST with the
  counter. For F10, which nobody interrupts, they are equal. F20 finds its counter at
  the limit after each job of F10 in its midst, so it may lack `IterCnt`
  iterations for each (`Taken`); it never has one too many, because F10 never leaves
  `idx` below where it found it, but at the limit.
- `Range` bounds `idx` by an amount that every step keeps or lowers. `Fuel(t)` is
  what `t` may still add to the counter before it ends, if nobody sets the counter
  back: what is left to the limit, one if `t` has passed its test and others have
  filled the counter since, and `IterCnt + 1` before the reset. Who sets the counter
  back, by a reset or a stale store, gives the others fuel, but less than it had
  itself; so a thread with fuel n may let a second have n - 1, then n - 2 and so on,
  and counts with n(n+1)/2, while the second counts with its fuel and the third with
  one step (`PaysLowering`). Above the limit `idx` rises only by a thread that spends
  its last fuel, and only when another has none, because somebody has let `idx` get
  there (`Arrived`, `PaysForOneMore`). In total `idx` plus what is in the tanks stays
  within what four threads start with, `(I+1)(I+6)/2`. With fewer threads the
  tanks of those that never start remain full, which gives the smaller bounds. The
  invariant is about every copy of `idx` in a register, or a stale store would
  break it.

TLC checked this invariant with three threads and two iterations, two threads and
three, three threads and three, and with four threads and one iteration.

### TwoProcs

| Theorem | Property |
|---|---|
| `TypeCorrect` | `TypeOK` |
| `OneTokenUnderWay` | `OneToken` |
| `TokensDoNotMultiply` | `TokensPerRun` |
| `ImplementsPingPong` | `Alternates` |

`Loops` ties the history of posts to the loop counters, in any run; `Tokens` counts
at most one token for each run before, plus the one under way; `Turns` lists the
seven situations a run is in that nothing went wrong before. `TokensPerRun` is
inductive only with the one under way: a bad run leaves what was under way.
`Conserved` is the account of each name by itself, for the runs in which it is clean:
since the names are opened and unlinked one after the other, one may be clean
and the other not, and only when both are do the accounts add up to one token.

### IncDec

| Theorem | Property | Inductive invariant |
|---|---|---|
| `TypeCorrect` | `TypeOK` | with `LoopInv`: counters agree with the place in the loop |
| `GsumStaysBounded` | `GsumBounded` | `RangeInv`: the copies in both threads are in the range too |
| `AtomicIsExact` | `PrintedExact` | `ExactInv`: `agsum` is the sum of the iterations, threads that exist are done when main prints |

`GsumBounded` alone is not inductive: a store writes a copy loaded long ago, so
the copies must be bounded by the same growing limits.

### ThreadLifetime

For any number of threads and all eight programs:

| Theorem | Property |
|---|---|
| `TypeCorrect` | `TypeOK` |
| `StorageOutlives` | `StorageOutlivesThreads` |
| `NoThreadCutOff` | `NoneCutOff` |

`IInv` is `TypeOK` with where main and the starter can be at the same time
(`Positions`), what has been created and joined by then (`Progress`), which
workers those are (`Workers`), and `ArgAlive`. The storage is freed by joins
only, a join takes the worker that exited, and a vector is only destroyed when
main has passed the join of the starter: that is in `Positions`, and it is what the
order of two declarations in `04 main.cpp` amounts to. `ProgramFacts` has what the
eight records have in common, so a program is added by proving it for its record.

### Only model-checked

Every liveness property: `Termination`, `TerminatesOnOneCore` and `EveryJobEnds`
reason about fairness, and so about `ENABLED`, which is beyond the prover; for
GenericSequencer and ModuloSequencer the safety that they rest on is proved
(`NobodyStranded`, `NobodyStrandedOnOneCore`). The disagreements of section 6 are counterexamples. Every other property of a
passing run is proved.

## 6. Where the code and its words disagree

Four runs end in a counterexample, each of a statement made in the source.

1. **Misses go unreported** (`GenericMissed`, `generic-sequencer.cpp:95`). `rem`
   compares a deadline with `elapsed`, which only takes the values of past
   deadlines. Deadlines leave the queue in order, so `rem` is never negative and
   "deadline for {} missed by {}" (line 100) is never printed, however late main
   wakes. Nothing corrects the lateness either: each sleep starts from where the
   last one ended.
2. **`elapsed` dies before its readers** (`GenericLifetime`,
   `generic-sequencer.cpp:69`). It is declared after `services`, so it is destroyed
   before `~service` joins the threads; one that took its token before its flag
   went up may load it later. The comment at line 34 calls it shared with them.
3. **seqgen2 may hang** (`Seqgen2Hang`, `seqgen2.c:479`). All final posts come
   before all flags. A service on another core consumes its token, finds its flag
   down, and waits for ever; main waits for it. `seqgen.c:405` has the same order.
   On the single core of `seqgenex0` the Sequencer outranks the services, its
   posts and flags come as one, and `TerminatesOnOneCore` holds.
4. **A full second is not carried** (`DriftFullSecond`, `seqgenex0.c:243`). A
   `tv_nsec` of exactly 10^9 stays as it is, `clock_nanosleep` refuses it, and the loop
   "with check for early wake-up" (line 252) takes `EINVAL` for the end of the
   sleep: the services are released a period early (`NeverEarly`).
Further observations met while modelling, which no run states:

- Service_4 has the wrong priority. The comment at `seqgen.c:254`, like the list of
  lines 45-52, gives it `RT_MAX-2`, line 256 gives it `rt_max_prio-3`, that of
  Service_3 and Service_5, which run at half its rate: waiting with them it is not
  served first. `MCModulo` has the priority of line 256, and every property of
  `Modulo` holds with it. That services are served by rate is not a property here:
  with this table it is false, without Service_4 it would repeat `MayRun`.
- "Finally gsum = {} agsum = {}" (`02 main.cpp:25`) is printed before the
  destructors of the threads join them, so the atomic sum, called "safe" at line 7,
  is whatever it is at that moment. `PrintedExact` is promised for `pthread.c` only.
- Named semaphores are never unlinked, and automatic names are the same in every
  program (`semaphore.hpp`): a run may start with tokens of another program.
  `CyclesAreReleases` and `AllServed` account for them in `stale`; a service of
  `07 main.cpp` that finds one works, and reads `start`, before the Sequencer has
  set it.
- `06 pthread.cpp:54` captures `clock` by reference, which is declared after the
  vector of threads and so ends its lifetime before they are joined; its `now` is
  static, so nothing is read.
- `05 pthread.cpp` closes a `popen` with `fclose`, where `pclose` would also wait
  for the child.
- `c_resource::reset()` destroys an invalid handle when it is empty, and its move
  assignment would not compile (`swap(this, rhs)`); no program uses either.
- `delta_t` (`06 pthread.c:57`) reports a clock that went back only within one
  second; further back it returns OK and leaves the result as it was (`DtExact`
  states both).
- The workers and starters of `06 pthread.c:220` and `04 main.c` are joined without
  a look at what `pthread_create` returned, which without privileges is an error.
- `seqgen2.c:457-469` has the posts of Service_1 to Service_5 commented out,
  while the header at line 51 lists their rates.
- `struct service` declares `abort` after `t` (`generic-sequencer.cpp:29-31`), so
  like `elapsed` it is destroyed before the thread that reads it is joined.
- The gain of `seqgenex0.c:231` exceeds 1, so the correction of a cycle is more
  than its error and the next one must undo it: by 0.05% per cycle the alternation
  grows. `DriftHalved` says what holds all the same.
- `lab1.c` without its Sequencer never ends: `rc` of line 366 is not looked at, and
  nobody posts to the services or raises their flag.
- The README of `07` (line 18) says that the `setaffinity` line of `lab1.c` is
  commented out; `lab1.c:335` is not.
- `03 main.c:45` goes on as a parent when `fork` fails, and waits for ever.

## 7. What is not modelled

- The clock measurements: sequential programs that read and print clocks.
- `raspbian-ccr`: a kernel module that sets a processor register, and its reader.
- `or_lose`, `syslog.hpp`, `AUTO`: formatting, throwing, and running one function
  at the end of a scope.
- `05`: what is read from the pipe and written to syslog. Its thread is in
  ThreadLifetime, where a failing `popen` is a failure before the thread.
- `c_resource`: moving, swapping, releasing and resetting a handle. No program does
  any of them, so there is no behaviour to compose them with; opening and closing
  are in the modules that use `sem`.
- What the threads of `01` and `04` compute and print: they share nothing they write.
- The calibration of `lab1.c`, whose result is `Blocks` of FibTest and C of
  HardcodedSequencer, and of which HardcodedSequencer lets a job exceed the measure.
- Widths of integers: the loop counts of the C programs are 64-bit and bounded by
  their loops; `releases * 10^9` in an `int64_t` overflows after 29 years at 10 Hz,
  where the program runs for three seconds.
