------------------------ MODULE HardcodedSequencerProofs ------------------------
(***************************************************************************)
(* Theorems about HardcodedSequencer for any number of major periods, any  *)
(* length of a tick, and any bounds on oversleeping and overrunning: that  *)
(* the posts fall on their periods, and that the two services are          *)
(* schedulable, by the supply and demand of the processor.                 *)
(***************************************************************************)
EXTENDS HardcodedSequencer, TLAPS

\* Ten milliseconds, the unit of the whole program.
U == Ticks(10)

--------------------------------------------------------------------------------
(* The inductive invariant.                                                *)

\* Where the Sequencer is in its list, and when main and the services are.
Positions ==
  /\ seq \in {"call", "asleep", "post"} => period < Periods
  /\ seq \in {"none", "absent"} => period = 0 /\ step = 1
  /\ seq \in {"abort", "final", "done"} => period = Periods /\ step = 1
  /\ seq = "post" => step # 8
  /\ seq # "asleep" => left = 0
  /\ mpc \in Service \cup {"Sequencer"} => seq = "none"
  /\ mpc \in {"join", "end"} => seq # "none"
  /\ mpc = "crashed" => seq \in {"none", "absent", "done"}
  /\ mpc \in Service => spc["F20"] = "none"
  /\ mpc = "F10" => spc["F10"] = "none"
  /\ mpc = "F20" => spc["F10"] # "none"
  /\ seq # "none" => mpc \notin Service \cup {"Sequencer"}
  /\ seq # "none" \/ mpc = "Sequencer" => \A s \in Service : spc[s] # "none"
  /\ abortTest <=> seq \in {"final", "done"}
  /\ \A s \in Service : spc[s] = "exited" => seq = "done"

\* What a major period has slept and posted before each entry of the list.
SleptBefore   == <<0, 0, 0, 20, 40, 50, 60, 80>>
PostsBefore   == [s \in Service |-> IF s = "F10" THEN <<0, 1, 1, 2, 3, 3, 4, 5>>
                                                 ELSE <<0, 0, 1, 1, 1, 2, 2, 2>>]
PostsInPeriod == [s \in Service |-> IF s = "F10" THEN 5 ELSE 2]

Times ==
  /\ now = 100 * period + SleptBefore[step]
             + (IF seq = "post" THEN Program[step].sleep ELSE 0)
  /\ \A s \in Service :
       released[s] = PostsInPeriod[s] * period + PostsBefore[s][step]

\* Until the final posts every token is in its semaphore, taken or served.
Taken(s) == IF spc[s] = "got" THEN 1 ELSE 0

Account ==
  seq # "done" =>
    \A s \in Service : served[s] + sem[s] + Taken(s) = released[s] + stale[s]

--------------------------------------------------------------------------------
(* Demand and supply.                                                      *)

\* The ticks s still needs for what it was given, if a job takes c of them; one
\* that could not be created needs none for the tokens nobody takes.
Need(s, c) == IF spc[s] = "absent" THEN 0
              ELSE sem[s] * c
                     + (IF spc[s] = "got" THEN c ELSE IF spc[s] = "run" THEN work[s] ELSE 0)

\* The ticks the present sleep still has, and the units of all the sleeps up to
\* its end.
Still      == IF seq = "call" THEN Ticks(Program[step].sleep) ELSE left
SlotsUntil == <<0, 0, 2, 4, 5, 6, 8, 10>>
Slots      == 10 * period + SlotsUntil[step]

\* A job of F10 that overruns is over by the next release of F10.
Feasible == Ticks(C["F10"]) + Overrun <= Ticks(T["F10"])

\* Of F10, which nobody delays: either what it needs is there by its next release,
\* with what the longest job leaves of its period to spare, and with the sleeps
\* after the present one up to that release; or it has had no rest since it found
\* tokens of an earlier program.
Longest == U + Overrun
Spare   == 2 * U - Longest
After   == <<0, 2 * U, 0, 0, U, 0, 0, 0>>

Given(s) == released[s] + stale[s]

Backlog10 ==
  /\ stale["F10"] > 0
  /\ Need("F10", Longest) + Slots * U <= Still + Given("F10") * Longest

\* The program is long enough to work off the tokens it may start with, and F10
\* is not always late.
WorkedOff ==
  /\ Spare > 0
  /\ (MaxStale + 5 * Periods) * Longest <= 10 * Periods * U
  /\ 3 * MaxStale <= Periods

\* At the end of the last sleep, and up to the final posts, s has nothing to do.
\* It has come to its semaphore again, or could be kept busy to the last tick.
AtEnd == \/ seq = "asleep" /\ step = 8 /\ left = 0 /\ period = Periods - 1
         \/ seq \in {"abort", "final"}

Quiet(s) == spc[s] = "absent" \/ (spc[s] = "wait" /\ sem[s] = 0)

Tight(s) == stale[s] > 0 \/ (s = "F10" /\ Spare = 0)

Idle(s) == \/ Quiet(s)
           \/ /\ Tight(s) /\ sem[s] = 0
              /\ spc[s] = "check" \/ (spc[s] = "run" /\ work[s] = 0)

\* The token of the final posts ends the service and is no job.
Ending(s) ==
  spc[s] # "absent" =>
  /\ served[s] = Given(s)
  /\ \/ spc[s] = "wait" /\ sem[s] = 1
     \/ spc[s] \in {"got", "exited"} /\ sem[s] = 0
     \/ /\ Tight(s) /\ sem[s] = 1
        /\ spc[s] = "check" \/ spc[s] = "exited" \/ (spc[s] = "run" /\ work[s] = 0)

Demand10 ==
  /\ Fresh => Met("F10")
  /\ seq # "done" => \/ Need("F10", Longest) = 0
                     \/ Need("F10", Longest) + Spare <= Still + After[step]
                     \/ Backlog10
  /\ AtEnd => Idle("F10")
  /\ seq = "done" => Ending("F10")

\* Of both, while no job takes longer than its C: what they need is there by
\* the end of the sleep, but for the U that F20 may take along; or the core has
\* not been idle yet.
Both  == Need("F10", U) + Need("F20", 2 * U)
Slack == <<0, U, U, 0, 0, U, 0, 0>>

Covered ==
  /\ Both <= Still + Slack[step]
  /\ step = 2 => Need("F20", 2 * U) = 0
  /\ step \in {3, 8} => Need("F10", U) = 0 \/ Need("F10", U) + U <= Still
  /\ step = 6 => Need("F10", U) = 0
  /\ step = 8 => Need("F20", 2 * U) = 0

Backlog20 ==
  /\ ~Fresh
  /\ Both + Slots * U <= Still + (Given("F10") * U + Given("F20") * (2 * U))

Demand20 ==
  /\ Fresh => Met("F20")
  /\ seq # "done" => Covered \/ Backlog20
  /\ AtEnd => Idle("F20")
  /\ seq = "done" => Ending("F20")

Schedulable ==
  Feasible /\ (Fresh \/ WorkedOff) => Demand10 /\ (~overran => Demand20)

IInv == TypeOK /\ work \in [Service -> Nat] /\ Positions /\ Times /\ Account /\ Schedulable

--------------------------------------------------------------------------------
(* The numbers of the program.                                             *)

\* A tick divides the ten milliseconds all its times are made of.
LEMMA TickFacts ==
  /\ U \in Nat \ {0}
  /\ Ticks(0) = 0 /\ Ticks(10) = U /\ Ticks(20) = 2 * U
  /\ Ticks(C["F10"]) = U /\ Ticks(C["F20"]) = 2 * U /\ Ticks(T["F10"]) = 2 * U
  /\ Overrun \in Nat /\ Oversleep \in Nat /\ Periods \in Nat \ {0}
<1>1. TickMs \in {1, 2, 5, 10}
  BY HardcodedAssumption
<1>2. CASE TickMs = 1
  BY <1>2, HardcodedAssumption DEF U, Ticks, C, T, Service
<1>3. CASE TickMs = 2
  BY <1>3, HardcodedAssumption DEF U, Ticks, C, T, Service
<1>4. CASE TickMs = 5
  BY <1>4, HardcodedAssumption DEF U, Ticks, C, T, Service
<1>5. CASE TickMs = 10
  BY <1>5, HardcodedAssumption DEF U, Ticks, C, T, Service
<1> QED BY <1>1, <1>2, <1>3, <1>4, <1>5

LEMMA ProgramFacts ==
  /\ Len(Program) = 8
  /\ \A k \in 1 .. 8 :
       /\ Program[k].sleep = IF k \in {1, 2} THEN 0 ELSE IF k \in {5, 6} THEN 10 ELSE 20
       /\ Program[k].post = IF k = 8 THEN "none" ELSE IF k \in {2, 5} THEN "F20" ELSE "F10"
<1>1. Len(Program) = 8
  BY DEF Program
<1>2. ASSUME NEW k \in 1 .. 8
      PROVE  /\ Program[k].sleep = IF k \in {1, 2} THEN 0 ELSE IF k \in {5, 6} THEN 10 ELSE 20
             /\ Program[k].post = IF k = 8 THEN "none" ELSE IF k \in {2, 5} THEN "F20" ELSE "F10"
  <2>1. k = 1 \/ k = 2 \/ k = 3 \/ k = 4 \/ k = 5 \/ k = 6 \/ k = 7 \/ k = 8
    OBVIOUS
  <2>2. CASE k = 1
    BY <2>2 DEF Program
  <2>3. CASE k = 2
    BY <2>3 DEF Program
  <2>4. CASE k = 3
    BY <2>4 DEF Program
  <2>5. CASE k = 4
    BY <2>5 DEF Program
  <2>6. CASE k = 5
    BY <2>6 DEF Program
  <2>7. CASE k = 6
    BY <2>7 DEF Program
  <2>8. CASE k = 7
    BY <2>8 DEF Program
  <2>9. CASE k = 8
    BY <2>9 DEF Program
  <2> QED BY <2>1, <2>2, <2>3, <2>4, <2>5, <2>6, <2>7, <2>8, <2>9
<1> QED BY <1>1, <1>2

--------------------------------------------------------------------------------
(* Where everybody is.                                                     *)

LEMMA InitTypes == Init => TypeOK /\ work \in [Service -> Nat]
<1> SUFFICES ASSUME Init PROVE TypeOK /\ work \in [Service -> Nat]
  OBVIOUS
<1>1. abortTest \in BOOLEAN /\ overran \in BOOLEAN
  BY DEF Init
<1>2. stale \in [Service -> Nat] /\ sem \in [Service -> Nat]
  BY HardcodedAssumption DEF Init
<1>3. 0 \in 0 .. Ticks(20) + Oversleep /\ \A s \in Service : 0 \in 0 .. Ticks(C[s]) + Overrun
  BY TickFacts DEF Service
<1>4. 0 \in 0 .. Periods /\ 0 \in 0 .. 100 * Periods
  BY TickFacts
<1> QED BY <1>1, <1>2, <1>3, <1>4, ProgramFacts DEF Init, TypeOK, Service

\* What the services' steps leave alone.
LEMMA ServiceFrame ==
  ASSUME NEW s \in Service, ServiceStep(s)
  PROVE  /\ UNCHANGED <<mpc, seq, step, period, left, now, abortTest, stale, released>>
         /\ Runs(s)
         /\ spc[s] \in {"check", "wait", "got", "run"}
         /\ \E p \in {"check", "wait", "got", "run", "exited"} :
              /\ spc' = [spc EXCEPT ![s] = p]
              /\ p = "exited" => abortTest
         /\ \A t \in Service \ {s} : work'[t] = work[t] /\ sem'[t] = sem[t]
<1>1. CASE Check(s)
  <2>1. spc' = [spc EXCEPT ![s] = IF abortTest THEN "exited" ELSE "wait"]
    BY <1>1 DEF Check
  <2>2. CASE abortTest
    BY <1>1, <2>1, <2>2 DEF Check, seqVars, history
  <2>3. CASE ~abortTest
    BY <1>1, <2>1, <2>3 DEF Check, seqVars, history
  <2> QED BY <2>2, <2>3
<1>2. CASE Take(s)
  BY <1>2 DEF Take, seqVars, history
<1>3. CASE Begin(s)
  <2>1. /\ UNCHANGED <<mpc, seq, step, period, left, now, abortTest, stale, released, sem>>
        /\ Runs(s) /\ spc[s] = "got"
    BY <1>3 DEF Begin, seqVars
  <2>2. CASE abortTest
    BY <1>3, <2>1, <2>2 DEF Begin
  <2>3. CASE ~abortTest
    <3>1. /\ spc' = [spc EXCEPT ![s] = "run"]
          /\ \E n \in 1 .. Ticks(C[s]) + Overrun : work' = [work EXCEPT ![s] = n]
      BY <1>3, <2>3 DEF Begin
    <3>2. \A t \in Service \ {s} : work'[t] = work[t] /\ sem'[t] = sem[t]
      BY <2>1, <3>1
    <3> QED BY <2>1, <3>1, <3>2
  <2> QED BY <2>2, <2>3
<1>4. CASE Complete(s)
  BY <1>4 DEF Complete, seqVars, history
<1> QED BY <1>1, <1>2, <1>3, <1>4 DEF ServiceStep

\* What the creation of a service and of the Sequencer do, failed or not.
LEMMA CreateFrame ==
  ASSUME NEW s \in Service, Create(s)
  PROVE  /\ mpc = s /\ UNCHANGED <<seq, step, period, left, abortTest>>
         /\ \/ /\ \E pc \in {"check", "absent"} : spc' = [spc EXCEPT ![s] = pc]
               /\ mpc' = IF s = "F10" THEN "F20" ELSE "Sequencer"
            \/ mpc' = "crashed" /\ spc' = spc
<1>1. \A pc : pc \in {"check"} \cup (IF Ignores THEN {"absent"} ELSE {})
                => pc \in {"check", "absent"}
  OBVIOUS
<1> QED BY <1>1 DEF Create, seqVars

LEMMA CreateSequencerFrame ==
  ASSUME CreateSequencer
  PROVE  /\ mpc = "Sequencer" /\ UNCHANGED <<step, period, left, spc, abortTest>>
         /\ \/ mpc' = "join" /\ seq' \in {"call", "absent"}
            \/ mpc' = "crashed" /\ seq' = seq
  BY DEF CreateSequencer

\* And what the Sequencer's steps do.
LEMMA SequencerFrame ==
  ASSUME Sequencer
  PROVE  UNCHANGED <<mpc, spc, work, stale, overran, served>>
  BY DEF Sequencer, Sleep, Wake, Post, Abort, FinalPosts, history

LEMMA NextTypes ==
  ASSUME TypeOK, work \in [Service -> Nat], Positions, Times, [Next]_vars
  PROVE  TypeOK' /\ (work \in [Service -> Nat])'
<1>1. abortTest' \in BOOLEAN
  <2>1. abortTest \in BOOLEAN
    BY DEF TypeOK
  <2>2. abortTest' = abortTest \/ abortTest' = TRUE
    <3>1. ASSUME NEW s \in Service, ServiceStep(s) PROVE abortTest' = abortTest
      BY <3>1, ServiceFrame
    <3> QED BY <3>1 DEF Next, Tick, Main, Creation, Create, CreateSequencer, Join, JoinCrashes, Sequencer,
                        Sleep, Wake, Post, Abort, FinalPosts, Ended, vars
  <2> QED BY <2>1, <2>2, Zenon
<1>2. overran' \in BOOLEAN
  <2>1. overran \in BOOLEAN
    BY DEF TypeOK
  <2>2. overran' = overran \/ \E s \in Service, n \in Nat :
                                overran' = (overran \/ n > Ticks(C[s]))
    BY DEF Next, Tick, Main, Creation, Create, CreateSequencer, Join, JoinCrashes, Sequencer,
           Sleep, Wake, Post, Abort, FinalPosts, Ended, vars, history, Service,
           ServiceStep, Check, Take, Begin, Complete
  <2> QED BY <2>1, <2>2, Zenon
<1>0. /\ sem \in [Service -> Nat] /\ released \in [Service -> Nat]
      /\ served \in [Service -> Nat]
  BY DEF TypeOK
<1>3. ASSUME NEW s \in Service, ServiceStep(s)
      PROVE  /\ spc' \in [Service -> {"none", "absent", "check", "wait", "got", "run", "exited"}]
             /\ sem' \in [Service -> Nat] /\ served' \in [Service -> Nat]
             /\ work' \in [Service -> Nat]
             /\ \A t \in Service : work'[t] \in 0 .. Ticks(C[t]) + Overrun
  <2>1. spc' \in [Service -> {"none", "absent", "check", "wait", "got", "run", "exited"}]
    BY <1>3, ServiceFrame DEF TypeOK
  <2>2. sem' \in [Service -> Nat]
    <3>1. CASE Take(s)
      <4>1. sem[s] > 0 /\ sem' = [sem EXCEPT ![s] = @ - 1]
        BY <3>1 DEF Take, Runs, Ready
      <4> QED BY <1>0, <4>1
    <3>2. Check(s) \/ Begin(s) \/ Complete(s) => sem' = sem
      BY DEF Check, Begin, Complete
    <3> QED BY <1>3, <3>1, <3>2 DEF ServiceStep, TypeOK
  <2>3. Begin(s) \/ (work' = work /\ served' = served)
    BY <1>3 DEF ServiceStep, Check, Take, Complete, history
  <2>4. CASE Begin(s)
    <3>1. \/ work' = work /\ served' = served
          \/ \E n \in 1 .. Ticks(C[s]) + Overrun :
               /\ work' = [work EXCEPT ![s] = n]
               /\ served' = [served EXCEPT ![s] = @ + 1]
      BY <2>4 DEF Begin
    <3>2. Ticks(C[s]) + Overrun \in Nat
      BY TickFacts DEF Service
    <3>3. CASE work' = work /\ served' = served
      BY <2>1, <2>2, <3>3 DEF TypeOK
    <3>4. CASE ~(work' = work /\ served' = served)
      <4>1. PICK n \in 1 .. Ticks(C[s]) + Overrun :
              /\ work' = [work EXCEPT ![s] = n]
              /\ served' = [served EXCEPT ![s] = @ + 1]
        BY <3>1, <3>4
      <4>2. n \in Nat /\ n \in 0 .. Ticks(C[s]) + Overrun
        BY <3>2
      <4>3. served' \in [Service -> Nat]
        BY <1>0, <4>1
      <4>4. \A t \in Service : work'[t] \in 0 .. Ticks(C[t]) + Overrun
        BY <4>1, <4>2 DEF TypeOK
      <4> QED BY <2>1, <2>2, <4>1, <4>2, <4>3, <4>4
    <3> QED BY <3>3, <3>4
  <2> QED BY <2>1, <2>2, <2>3, <2>4 DEF TypeOK
<1>4. ASSUME NEW s \in Service, ServiceStep(s)
      PROVE  TypeOK' /\ (work \in [Service -> Nat])'
  <2>1. UNCHANGED <<mpc, seq, step, period, left, now, stale, released>>
    BY <1>4, ServiceFrame
  <2> QED BY <1>1, <1>2, <1>3, <1>4, <2>1 DEF TypeOK
<1>5. CASE Tick
  <2>1. UNCHANGED <<mpc, seq, step, period, sem, spc, now, stale, released, served>>
    BY <1>5 DEF Tick, history
  <2>2. left' \in 0 .. Ticks(20) + Oversleep
    BY <1>5, TickFacts DEF Tick, TypeOK
  <2>3. ASSUME NEW s \in Service
        PROVE  work'[s] \in Nat /\ work'[s] \in 0 .. Ticks(C[s]) + Overrun
    <3>1. Ticks(C[s]) + Overrun \in Nat
      BY TickFacts DEF Service
    <3>2. work[s] \in 0 .. Ticks(C[s]) + Overrun
      BY DEF TypeOK
    <3>3. work'[s] = work[s] \/ (work[s] > 0 /\ work'[s] = work[s] - 1)
      BY <1>5 DEF Tick
    <3> QED BY <3>1, <3>2, <3>3
  <2>4. work' \in [Service -> Nat]
    <3>1. work' = [s \in Service |-> work'[s]]
      BY <1>5 DEF Tick
    <3> QED BY <2>3, <3>1
  <2> QED BY <1>1, <1>2, <2>1, <2>2, <2>3, <2>4 DEF TypeOK
<1>6. CASE Main
  <2>1. UNCHANGED <<step, period, left, now, sem, work, stale, released, served>>
    BY <1>6 DEF Main, Creation, Create, CreateSequencer, Join, JoinCrashes, seqVars, history
  <2>0. ASSUME NEW s \in Service, Create(s)
        PROVE  /\ mpc' \in Service \cup {"Sequencer", "crashed"} /\ seq' = seq
               /\ spc' \in [Service -> {"none", "absent", "check", "wait", "got", "run", "exited"}]
    <3>1. /\ mpc' \in Service \cup {"Sequencer", "crashed"} /\ seq' = seq
          /\ spc' = spc \/ \E pc \in {"check", "absent"} : spc' = [spc EXCEPT ![s] = pc]
      BY <2>0, CreateFrame DEF Service
    <3> QED BY <3>1 DEF TypeOK
  <2>2. mpc' \in Service \cup {"Sequencer", "join", "end", "crashed"}
    BY <1>6, <2>0, CreateSequencerFrame DEF Main, Creation, Join, JoinCrashes
  <2>3. seq' \in {"none", "absent", "call", "asleep", "post", "abort", "final", "done"}
    BY <1>6, <2>0, CreateSequencerFrame DEF Main, Creation, Join, JoinCrashes, seqVars, TypeOK
  <2>4. spc' \in [Service -> {"none", "absent", "check", "wait", "got", "run", "exited"}]
    BY <1>6, <2>0, CreateSequencerFrame DEF Main, Creation, Join, JoinCrashes, TypeOK
  <2> QED BY <1>1, <1>2, <2>1, <2>2, <2>3, <2>4 DEF TypeOK
<1>7. CASE Sequencer
  <2>1. UNCHANGED <<mpc, spc, work, stale, served>>
    BY <1>7, SequencerFrame
  <2>2. step \in 1 .. 8 /\ period \in 0 .. Periods /\ left \in Nat
    BY ProgramFacts, TickFacts DEF TypeOK
  <2>3. /\ seq' \in {"call", "asleep", "post", "abort", "final", "done"}
        /\ step' \in 1 .. 8 /\ period' \in 0 .. Periods
    <3>1. CASE Wake
      <4>1. period < Periods
        BY <3>1 DEF Wake, Positions
      <4> QED BY <2>2, <3>1, <4>1, TickFacts DEF Wake
    <3>2. CASE Post
      <4>1. step # 8
        BY <3>2 DEF Post, Positions
      <4> QED BY <2>2, <3>2, <4>1 DEF Post
    <3>3. CASE Sleep \/ Abort \/ FinalPosts
      BY <2>2, <3>3 DEF Sleep, Abort, FinalPosts
    <3> QED BY <1>7, <3>1, <3>2, <3>3 DEF Sequencer
  <2>4. left' \in 0 .. Ticks(20) + Oversleep
    <3>1. CASE Sleep
      <4>1. Ticks(Program[step].sleep) \in Nat /\ Ticks(Program[step].sleep) <= Ticks(20)
        BY <2>2, ProgramFacts, TickFacts
      <4> QED BY <3>1, <4>1, TickFacts DEF Sleep
    <3>2. Wake \/ Post \/ Abort \/ FinalPosts => left' = left
      BY DEF Wake, Post, Abort, FinalPosts
    <3> QED BY <1>7, <3>1, <3>2 DEF Sequencer, TypeOK
  <2>5. sem' \in [Service -> Nat] /\ released' \in [Service -> Nat]
    <3>1. CASE Post
      <4>1. Program[step].post \in Service
        BY <2>2, <3>1, ProgramFacts DEF Post, Positions, Service
      <4>2. PICK t \in Service : /\ sem' = [sem EXCEPT ![t] = @ + 1]
                                /\ released' = [released EXCEPT ![t] = @ + 1]
        BY <3>1, <4>1 DEF Post
      <4> QED BY <1>0, <4>2
    <3>2. Sleep \/ Wake \/ Abort => sem' = sem /\ released' = released
      BY DEF Sleep, Wake, Abort, history
    <3>3. CASE FinalPosts
      <4>1. sem' = [s \in Service |-> sem[s] + 1] /\ released' = released
        BY <3>3 DEF FinalPosts, history
      <4> QED BY <1>0, <4>1
    <3> QED BY <1>7, <3>1, <3>2, <3>3 DEF Sequencer, TypeOK
  <2>6. now' \in 0 .. 100 * Periods
    <3>1. CASE Wake
      <4>1. seq = "asleep" /\ period < Periods /\ now' = now + Program[step].sleep
        BY <3>1 DEF Wake, Positions
      <4>2. SleptBefore[step] \in Nat /\ Program[step].sleep \in Nat
             /\ SleptBefore[step] + Program[step].sleep <= 100
        BY <2>2, ProgramFacts DEF SleptBefore
      <4>3. now = 100 * period + SleptBefore[step]
        BY <2>2, <4>1, <4>2 DEF Times
      <4> QED BY <2>2, <4>1, <4>2, <4>3, TickFacts
    <3>2. Sleep \/ Post \/ Abort \/ FinalPosts => now' = now
      BY DEF Sleep, Post, Abort, FinalPosts
    <3> QED BY <1>7, <3>1, <3>2 DEF Sequencer, TypeOK
  <2> QED BY <1>1, <1>2, <2>1, <2>3, <2>4, <2>5, <2>6, ProgramFacts DEF TypeOK
<1>8. CASE UNCHANGED vars \/ Ended
  <2>1. UNCHANGED <<mpc, seq, step, period, left, now, sem, spc, work, stale, released, served>>
    BY <1>8 DEF Ended, vars, seqVars, history
  <2> QED BY <1>1, <1>2, <2>1 DEF TypeOK
<1> QED BY <1>4, <1>5, <1>6, <1>7, <1>8 DEF Next

LEMMA InitPositions == Init => Positions /\ Times /\ Account
<1> SUFFICES ASSUME Init PROVE Positions /\ Times /\ Account
  OBVIOUS
<1>1. Positions
  BY DEF Init, Positions, Service
<1>2. Times
  BY DEF Init, Times, SleptBefore, PostsBefore, PostsInPeriod, Service
<1>3. Account
  BY HardcodedAssumption DEF Init, Account, Taken
<1> QED BY <1>1, <1>2, <1>3

\* A step of a thread when the Sequencer holds the core is one of main.
LEMMA NextPositions ==
  ASSUME TypeOK, Positions, [Next]_vars
  PROVE  Positions'
<1> USE DEF Positions
<1>1. /\ step \in 1 .. 8 /\ period \in 0 .. Periods
      /\ spc \in [Service -> {"none", "absent", "check", "wait", "got", "run", "exited"}]
      /\ Periods \in Nat \ {0}
  BY ProgramFacts, TickFacts DEF TypeOK
<1>2. ASSUME NEW s \in Service, ServiceStep(s) PROVE Positions'
  <2>1. UNCHANGED <<mpc, seq, step, period, left, abortTest>> /\ Runs(s)
    BY <1>2, ServiceFrame
  <2>2. PICK p \in {"check", "wait", "got", "run", "exited"} :
          spc' = [spc EXCEPT ![s] = p] /\ (p = "exited" => abortTest)
    BY <1>2, ServiceFrame
  <2>3. spc[s] # "none"
    BY <1>2, ServiceFrame
  <2>4. p = "exited" => seq = "done"
    BY <2>1, <2>2 DEF Runs, SequencerIdle
  <2> QED BY <1>1, <2>1, <2>2, <2>3, <2>4 DEF Service
<1>3. CASE Tick
  BY <1>3 DEF Tick, history
<1>4. CASE Main
  <2>1. CASE \E s \in Service : Create(s)
    <3>1. PICK s \in Service : Create(s)
      BY <2>1
    <3>2. mpc = s /\ UNCHANGED <<seq, step, period, left, abortTest>> /\ seq = "none"
      BY <3>1, CreateFrame DEF Service
    <3>3. CASE mpc' = "crashed" /\ spc' = spc
      BY <1>1, <3>2, <3>3 DEF Service
    <3>4. CASE ~(mpc' = "crashed" /\ spc' = spc)
      <4>1. mpc' = IF s = "F10" THEN "F20" ELSE "Sequencer"
        BY <3>1, <3>4, CreateFrame
      <4>2. PICK pc \in {"check", "absent"} : spc' = [spc EXCEPT ![s] = pc]
        BY <3>1, <3>4, CreateFrame
      <4>3. \A t \in Service : spc'[t] = IF t = s THEN pc ELSE spc[t]
        BY <1>1, <4>2
      <4>4. CASE s = "F10"
        BY <1>1, <3>2, <4>1, <4>3, <4>4 DEF Service
      <4>5. CASE s = "F20"
        BY <1>1, <3>2, <4>1, <4>3, <4>5 DEF Service
      <4> QED BY <4>4, <4>5 DEF Service
    <3> QED BY <3>3, <3>4
  <2>2. CASE CreateSequencer
    BY <1>1, <2>2, CreateSequencerFrame DEF Service
  <2>3. CASE Join \/ JoinCrashes
    BY <1>1, <2>3 DEF Join, JoinCrashes, seqVars, Service
  <2> QED BY <1>4, <2>1, <2>2, <2>3 DEF Main, Creation
<1>5. CASE Sequencer
  <2>1. mpc' = mpc /\ spc' = spc
    BY <1>5, SequencerFrame
  <2>2. CASE Sleep
    BY <2>1, <2>2 DEF Sleep
  <2>3. CASE Wake
    BY <1>1, <2>1, <2>3, ProgramFacts DEF Wake
  <2>4. CASE Post
    BY <2>1, <2>4 DEF Post
  <2>5. CASE Abort
    BY <2>1, <2>5 DEF Abort
  <2>6. CASE FinalPosts
    BY <2>1, <2>6 DEF FinalPosts
  <2> QED BY <1>5, <2>2, <2>3, <2>4, <2>5, <2>6 DEF Sequencer
<1>6. CASE UNCHANGED vars \/ Ended
  BY <1>6 DEF Ended, vars, seqVars
<1> QED BY <1>2, <1>3, <1>4, <1>5, <1>6 DEF Next

\* What Times says of the next entry, from the entry before.
LEMMA ListFacts ==
  /\ SleptBefore[1] = 0 /\ \A s \in Service : PostsBefore[s][1] = 0
  /\ \A s \in Service : PostsInPeriod[s] \in Nat
  /\ \A k \in 1 .. 8 : /\ SleptBefore[k] \in Nat /\ Program[k].sleep \in Nat
                       /\ \A s \in Service : PostsBefore[s][k] \in Nat
  /\ SleptBefore[8] + Program[8].sleep = 100
  /\ \A s \in Service : PostsBefore[s][8] = PostsInPeriod[s]
  /\ \A k \in 1 .. 7 :
       /\ SleptBefore[k + 1] = SleptBefore[k] + Program[k].sleep
       /\ \A s \in Service :
            PostsBefore[s][k + 1]
              = PostsBefore[s][k] + (IF Program[k].post = s THEN 1 ELSE 0)
  BY ProgramFacts DEF SleptBefore, PostsBefore, PostsInPeriod, Service

LEMMA NextTimes ==
  ASSUME TypeOK, Positions, Times, [Next]_vars
  PROVE  Times'
<1>1. /\ step \in 1 .. 8 /\ period \in Nat /\ now \in Nat
      /\ released \in [Service -> Nat]
  BY ProgramFacts, TickFacts DEF TypeOK
<1>2. CASE Wake
  <2>1. /\ seq = "asleep" /\ now' = now + Program[step].sleep
        /\ released' = released
    BY <1>2 DEF Wake, history
  <2>2. CASE step = 8
    <3>1. period' = period + 1 /\ step' = 1 /\ seq' # "post"
      BY <1>2, <2>2, ProgramFacts DEF Wake
    <3>2. now' = 100 * period'
      <4>1. now = 100 * period + SleptBefore[8]
        BY <1>1, <2>1, <2>2, ListFacts DEF Times
      <4>2. /\ Program[8].sleep \in Nat /\ SleptBefore[8] \in Nat
            /\ SleptBefore[8] + Program[8].sleep = 100
        BY ListFacts
      <4> QED BY <1>1, <2>1, <2>2, <3>1, <4>1, <4>2
    <3>3. \A s \in Service : released'[s] = PostsInPeriod[s] * period'
      <4> SUFFICES ASSUME NEW s \in Service
                   PROVE  released[s] = PostsInPeriod[s] * (period + 1)
        BY <2>1, <3>1
      <4>1. PostsInPeriod[s] = 5 \/ PostsInPeriod[s] = 2
        BY DEF PostsInPeriod
      <4> QED BY <1>1, <2>2, <4>1, ListFacts DEF Times
    <3>4. \A s \in Service : released'[s] \in Nat
      BY <1>1, <2>1
    <3> QED BY <1>1, <3>1, <3>2, <3>3, <3>4, ListFacts DEF Times
  <2>3. CASE step # 8
    <3>1. period' = period /\ step' = step /\ seq' = "post"
      BY <1>1, <1>2, <2>3, ProgramFacts DEF Wake, Service
    <3> QED BY <1>1, <2>1, <3>1, ListFacts DEF Times
  <2> QED BY <2>2, <2>3
<1>3. CASE Post
  <2>1. /\ seq = "post" /\ seq' = "call" /\ step' = step + 1 /\ step \in 1 .. 7
        /\ UNCHANGED <<now, period>>
        /\ released' = [released EXCEPT ![Program[step].post] = @ + 1]
    BY <1>1, <1>3 DEF Post, Positions
  <2>2. Program[step].post \in Service
    BY <2>1, ProgramFacts DEF Service
  <2>3. now' = 100 * period' + SleptBefore[step']
    BY <1>1, <2>1, ListFacts DEF Times
  <2>4. ASSUME NEW s \in Service
        PROVE  released'[s] = PostsInPeriod[s] * period' + PostsBefore[s][step']
    <3>1. released'[s] = released[s] + (IF Program[step].post = s THEN 1 ELSE 0)
      BY <1>1, <2>1, <2>2
    <3>2. released[s] = PostsInPeriod[s] * period + PostsBefore[s][step]
      BY DEF Times
    <3>3. /\ PostsBefore[s][step'] = PostsBefore[s][step]
                                      + (IF Program[step].post = s THEN 1 ELSE 0)
          /\ PostsBefore[s][step] \in Nat /\ PostsInPeriod[s] * period \in Nat
      BY <1>1, <2>1, ListFacts
    <3> QED BY <2>1, <3>1, <3>2, <3>3
  <2>5. SleptBefore[step'] \in Nat /\ now' \in Nat
    BY <1>1, <2>1, ListFacts
  <2> QED BY <1>1, <2>1, <2>3, <2>4, <2>5 DEF Times
<1>4. ASSUME UNCHANGED <<step, period, now, released>>, seq # "post", seq' # "post"
      PROVE  Times'
  BY <1>4 DEF Times
<1>5. CASE Sleep \/ Abort \/ FinalPosts
  BY <1>4, <1>5 DEF Sleep, Abort, FinalPosts, history
<1>6. CASE Main
  <2>1. UNCHANGED <<step, period, now, released>> /\ (seq' = seq \/ seq' \in {"call", "absent"})
    BY <1>6 DEF Main, Creation, Create, CreateSequencer, Join, JoinCrashes, seqVars, history
  <2>2. seq = "post" => seq' = seq
    BY <1>6 DEF Main, Creation, Create, CreateSequencer, Join, JoinCrashes, seqVars, Positions
  <2> QED BY <2>1, <2>2 DEF Times
<1>7. ASSUME Tick \/ (\E s \in Service : ServiceStep(s)) \/ Ended \/ UNCHANGED vars
      PROVE  Times'
  <2>1. ASSUME NEW s \in Service, ServiceStep(s)
        PROVE  UNCHANGED <<seq, step, period, now, released>>
    BY <2>1, ServiceFrame
  <2>2. UNCHANGED <<seq, step, period, now, released>>
    BY <1>7, <2>1 DEF Tick, Ended, vars, seqVars, history
  <2> QED BY <2>2 DEF Times
<1> QED BY <1>2, <1>3, <1>5, <1>6, <1>7 DEF Next, Sequencer

\* A service that steps does so while the Sequencer is not running, and after
\* it was created.
LEMMA NextAccount ==
  ASSUME TypeOK, Positions, Account, [Next]_vars
  PROVE  Account'
<1>1. /\ sem \in [Service -> Nat] /\ served \in [Service -> Nat]
      /\ released \in [Service -> Nat] /\ stale \in [Service -> Nat]
      /\ spc \in [Service -> {"none", "absent", "check", "wait", "got", "run", "exited"}]
      /\ step \in 1 .. 8
  BY ProgramFacts, HardcodedAssumption DEF TypeOK
<1>2. ASSUME NEW s \in Service, ServiceStep(s), seq # "done" PROVE Account'
  <2>1. seq' = seq /\ UNCHANGED <<released, stale>>
    BY <1>2, ServiceFrame
  <2>2. ~abortTest
    <3>1. Runs(s)
      BY <1>2, ServiceFrame
    <3> QED BY <1>2, <3>1 DEF Runs, SequencerIdle, Positions
  <2>3. \A t \in Service :
          served'[t] + sem'[t] + Taken(t)' = served[t] + sem[t] + Taken(t)
    <3>1. CASE Check(s)
      <4>1. spc' = [spc EXCEPT ![s] = "wait"] /\ UNCHANGED <<sem, served>> /\ spc[s] = "check"
        BY <2>2, <3>1 DEF Check, history
      <4> QED BY <1>1, <4>1 DEF Taken
    <3>2. CASE Take(s)
      <4>1. /\ spc' = [spc EXCEPT ![s] = "got"] /\ sem' = [sem EXCEPT ![s] = @ - 1]
            /\ served' = served /\ spc[s] = "wait"
        BY <3>2 DEF Take, history
      <4> QED BY <1>1, <4>1 DEF Taken
    <3>3. CASE Begin(s)
      <4>1. /\ spc' = [spc EXCEPT ![s] = "run"] /\ served' = [served EXCEPT ![s] = @ + 1]
            /\ sem' = sem /\ spc[s] = "got"
        BY <2>2, <3>3 DEF Begin
      <4> QED BY <1>1, <4>1 DEF Taken
    <3>4. CASE Complete(s)
      <4>1. spc' = [spc EXCEPT ![s] = "check"] /\ UNCHANGED <<sem, served>> /\ spc[s] = "run"
        BY <3>4 DEF Complete, history
      <4> QED BY <1>1, <4>1 DEF Taken
    <3> QED BY <1>2, <3>1, <3>2, <3>3, <3>4 DEF ServiceStep
  <2> QED BY <1>2, <2>1, <2>3 DEF Account
<1>3. CASE Post
  <2>1. /\ seq = "post" /\ UNCHANGED <<spc, served, stale>>
        /\ sem' = [sem EXCEPT ![Program[step].post] = @ + 1]
        /\ released' = [released EXCEPT ![Program[step].post] = @ + 1]
    BY <1>3 DEF Post
  <2>2. Program[step].post \in Service
    BY <1>1, <2>1, ProgramFacts DEF Positions, Service
  <2>3. \A t \in Service : sem'[t] - released'[t] = sem[t] - released[t]
    BY <1>1, <2>1, <2>2
  <2>4. \A t \in Service : sem'[t] \in Nat /\ released'[t] \in Nat
    BY <1>1, <2>1, <2>2
  <2>5. \A t \in Service : Taken(t)' = Taken(t) /\ Taken(t) \in Nat
    BY <2>1 DEF Taken
  <2>6. ASSUME NEW t \in Service
        PROVE  served'[t] + sem'[t] + Taken(t)' = released'[t] + stale'[t]
    <3>1. served[t] + sem[t] + Taken(t) = released[t] + stale[t]
      BY <2>1 DEF Account
    <3>2. served[t] \in Nat /\ sem[t] \in Nat /\ released[t] \in Nat /\ stale[t] \in Nat
      BY <1>1
    <3>3. /\ served'[t] = served[t] /\ stale'[t] = stale[t]
          /\ Taken(t)' = Taken(t) /\ Taken(t) \in Nat
          /\ sem'[t] - released'[t] = sem[t] - released[t]
          /\ sem'[t] \in Nat /\ released'[t] \in Nat
      BY <2>1, <2>3, <2>4, <2>5
    <3> QED BY <3>1, <3>2, <3>3
  <2> QED BY <2>6 DEF Account
<1>4. CASE Main
  <2>1. UNCHANGED <<sem, served, released, stale>> /\ (seq' = "done" <=> seq = "done")
    BY <1>4 DEF Main, Creation, Create, CreateSequencer, Join, JoinCrashes, seqVars, history, Positions
  <2>2. \A t \in Service : Taken(t)' = Taken(t)
    <3>1. CASE CreateSequencer \/ Join \/ JoinCrashes
      BY <3>1 DEF CreateSequencer, Join, JoinCrashes, Taken
    <3>2. ASSUME NEW s \in Service, Create(s)
          PROVE  \A t \in Service : Taken(t)' = Taken(t)
      <4>1. /\ spc[s] = "none"
            /\ spc' = spc \/ \E pc \in {"check", "absent"} : spc' = [spc EXCEPT ![s] = pc]
        BY <3>2, CreateFrame DEF Positions, Service
      <4> QED BY <1>1, <4>1 DEF Taken
    <3> QED BY <1>4, <3>1, <3>2 DEF Main, Creation
  <2> QED BY <2>1, <2>2 DEF Account
<1>5. ASSUME Sleep \/ Wake \/ Abort \/ FinalPosts \/ Tick \/ Ended \/ UNCHANGED vars
      PROVE  Account'
  <2>1. UNCHANGED <<spc, served, released, stale>>
    BY <1>5 DEF Sleep, Wake, Abort, FinalPosts, Tick, Ended, vars, seqVars, history
  <2>2. seq' = "done" \/ (sem' = sem /\ (seq = "done" => seq' = "done"))
    BY <1>5 DEF Sleep, Wake, Abort, FinalPosts, Tick, Ended, vars, seqVars, history
  <2> QED BY <2>1, <2>2 DEF Account, Taken
<1>6. ASSUME NEW s \in Service, ServiceStep(s), seq = "done" PROVE Account'
  BY <1>6, ServiceFrame DEF Account
<1> QED BY <1>2, <1>3, <1>4, <1>5, <1>6 DEF Next, Sequencer

\* The part of the invariant that is about no time but the Sequencer's own.
Core == TypeOK /\ work \in [Service -> Nat] /\ Positions /\ Times /\ Account

LEMMA NextCore == Core /\ [Next]_vars => Core'
  BY NextTypes, NextPositions, NextTimes, NextAccount DEF Core

LEMMA InitCore == Init => Core
  BY InitTypes, InitPositions DEF Core

LEMMA CoreInvariance == Spec => []Core
  BY InitCore, NextCore, PTL DEF Spec

(* The list is never left on its far side, the sleeps add up to 100 ms for *)
(* each major period, and a job never needs less than nothing.             *)
THEOREM TypeCorrect == Spec => []TypeOK
<1>1. Core => TypeOK
  BY DEF Core
<1> QED BY <1>1, CoreInvariance, PTL

(* The list of sleeps and posts releases F10 every 20 ms and F20 every 50, *)
(* over any number of major periods: what the priority queue of            *)
(* GenericSequencer does for any rates, done by hand for these two.        *)
THEOREM ImplementsReleaseSchedule == Spec => ImplementsSchedule
<1>1. Init => Schedule!Init
  BY DEF Init, Schedule!Init
<1>2. ASSUME Core, [Next]_vars, <<now, released>>' # <<now, released>>
      PROVE  Schedule!Next
  <2>1. /\ step \in 1 .. 8 /\ period \in Nat /\ now \in Nat
        /\ released \in [Service -> Nat]
    BY <1>2, ProgramFacts, TickFacts DEF Core, TypeOK
  <2>2. T["F10"] = 20 /\ T["F20"] = 50
    BY DEF T, Service
  <2>3. PostsInPeriod["F10"] = 5 /\ PostsInPeriod["F20"] = 2
    BY DEF PostsInPeriod, Service
  <2>4. released["F10"] = 5 * period + PostsBefore["F10"][step]
    BY <1>2, <2>3 DEF Core, Times, Service
  <2>5. released["F20"] = 2 * period + PostsBefore["F20"][step]
    BY <1>2, <2>3 DEF Core, Times, Service
  <2>6. Wake \/ Post
    <3>1. ASSUME NEW s \in Service, ServiceStep(s) PROVE UNCHANGED <<now, released>>
      BY <3>1, ServiceFrame
    <3>2. ASSUME Tick \/ Main \/ Ended \/ UNCHANGED vars PROVE UNCHANGED <<now, released>>
      BY <3>2 DEF Tick, Main, Creation, Create, CreateSequencer, Join, JoinCrashes, Ended, vars, seqVars, history
    <3>3. ASSUME Sleep \/ Abort \/ FinalPosts PROVE UNCHANGED <<now, released>>
      BY <3>3 DEF Sleep, Abort, FinalPosts, history
    <3> QED BY <1>2, <3>1, <3>2, <3>3 DEF Next, Sequencer
  <2>7. CASE Wake
    <3>1. seq = "asleep" /\ now' = now + Program[step].sleep /\ released' = released
      BY <2>7 DEF Wake, history
    <3>2. now = 100 * period + SleptBefore[step]
      <4>1. SleptBefore[step] \in Nat
        BY <2>1, ListFacts
      <4> QED BY <1>2, <2>1, <3>1, <4>1 DEF Core, Times
    <3>3. /\ Program[step].sleep \in Nat
          /\ SleptBefore[step] + Program[step].sleep <= 20 * PostsBefore["F10"][step]
          /\ SleptBefore[step] + Program[step].sleep <= 50 * PostsBefore["F20"][step]
          /\ PostsBefore["F10"][step] \in Nat /\ PostsBefore["F20"][step] \in Nat
          /\ SleptBefore[step] \in Nat
      BY <2>1, ProgramFacts DEF SleptBefore, PostsBefore, Service
    <3>4. \A s \in Service : now' <= Due(s, released[s])
      BY <2>1, <2>2, <2>4, <2>5, <3>1, <3>2, <3>3 DEF Due, Service
    <3>5. now' > now
      BY <1>2, <2>1, <3>1, <3>3
    <3> QED BY <3>1, <3>4, <3>5 DEF Schedule!Next, Schedule!Advance
  <2>8. CASE Post
    <3>1. /\ seq = "post" /\ now' = now /\ step # 8
          /\ released' = [released EXCEPT ![Program[step].post] = @ + 1]
      BY <1>2, <2>8 DEF Post, Core, Positions
    <3>2. Program[step].post \in Service
      BY <2>1, <3>1, ProgramFacts DEF Service
    <3>3. now = 100 * period + SleptBefore[step] + Program[step].sleep
      BY <1>2, <3>1 DEF Core, Times
    <3>4. /\ Program[step].post = "F10" =>
               SleptBefore[step] + Program[step].sleep = 20 * PostsBefore["F10"][step]
          /\ Program[step].post = "F20" =>
               SleptBefore[step] + Program[step].sleep = 50 * PostsBefore["F20"][step]
          /\ PostsBefore["F10"][step] \in Nat /\ PostsBefore["F20"][step] \in Nat
          /\ SleptBefore[step] \in Nat /\ Program[step].sleep \in Nat
      BY <2>1, <3>1, ProgramFacts DEF SleptBefore, PostsBefore, Service
    <3>5. PICK s \in Service : s = Program[step].post
      BY <3>2
    <3>6. Due(s, released[s]) = now
      BY <2>1, <2>2, <2>4, <2>5, <3>3, <3>4, <3>5 DEF Due, Service
    <3>7. Schedule!Release(s)
      BY <3>1, <3>5, <3>6 DEF Schedule!Release
    <3> QED BY <3>7 DEF Schedule!Next
  <2> QED BY <2>6, <2>7, <2>8
<1>3. Core /\ [Next]_vars => [Schedule!Next]_<<now, released>>
  BY <1>2
<1> QED BY <1>1, <1>3, CoreInvariance, PTL DEF Spec, ImplementsSchedule, Schedule!Spec, Schedule!vars

--------------------------------------------------------------------------------
(* What a step does to the demand.                                         *)

LEMMA Products ==
  /\ \A m, c \in Nat : /\ m * c \in Nat /\ (m + 1) * c = m * c + c
                       /\ m > 0 => m * c >= c /\ (m - 1) * c = m * c - c
  /\ \A m, n, c \in Nat : m <= n => m * c <= n * c
<1>1. ASSUME NEW m \in Nat, NEW c \in Nat
      PROVE  /\ m * c \in Nat /\ (m + 1) * c = m * c + c
             /\ m > 0 => m * c >= c /\ (m - 1) * c = m * c - c
  <2>1. m * c \in Nat /\ (m + 1) * c = m * c + c /\ (m - 1) * c = m * c - c
    OBVIOUS
  <2>2. ASSUME m > 0 PROVE m * c >= c
    <3>1. PICK k \in Nat : m = k + 1
      BY <2>2
    <3>2. k * c \in Nat /\ (k + 1) * c = k * c + c
      OBVIOUS
    <3> QED BY <3>1, <3>2
  <2> QED BY <2>1, <2>2
<1>2. ASSUME NEW m \in Nat, NEW n \in Nat, NEW c \in Nat, m <= n PROVE m * c <= n * c
  <2>1. PICK k \in Nat : n = m + k
    BY <1>2
  <2>2. (m + k) * c = m * c + k * c /\ k * c \in Nat /\ m * c \in Nat
    OBVIOUS
  <2> QED BY <2>1, <2>2
<1> QED BY <1>1, <1>2

LEMMA Sums ==
  /\ \A a, b \in Nat : a + b \in Nat /\ (a + b = 0 => a = 0 /\ b = 0)
  /\ \A a, b, c, d \in Nat : a <= c /\ b <= d => a + b <= c + d
  /\ \A a, b, c, d, e \in Nat : a <= c /\ d <= e /\ c + b <= d => a + b <= e
  /\ \A a, b, c \in Nat : a > 0 /\ a + b <= c => (a - 1) + b <= c - 1
  OBVIOUS

LEMMA TightKept ==
  ASSUME stale' = stale
  PROVE  \A s : Tight(s)' = Tight(s)
  BY DEF Tight, Spare, Longest, U, Ticks

LEMMA NeedType ==
  ASSUME TypeOK, work \in [Service -> Nat], NEW s \in Service, NEW c \in Nat
  PROVE  Need(s, c) \in Nat
<1>1. sem[s] \in Nat /\ work[s] \in Nat
  BY DEF TypeOK
<1>2. sem[s] * c \in Nat
  BY <1>1, Products
<1> QED BY <1>1, <1>2 DEF Need

\* A step of a service never adds to its demand, nor to its backlog.
LEMMA ServiceNeeds ==
  ASSUME TypeOK, work \in [Service -> Nat], NEW s \in Service, ServiceStep(s),
         ~abortTest, NEW c \in Nat,
         Ticks(C[s]) + Overrun <= c \/ (Ticks(C[s]) <= c /\ ~overran')
  PROVE  (Met(s) => Met(s)') /\ Need(s, c)' <= Need(s, c) /\ (Idle(s) => Idle(s)')
<1>1. /\ sem \in [Service -> Nat]
      /\ spc \in [Service -> {"none", "absent", "check", "wait", "got", "run", "exited"}]
      /\ Ticks(C[s]) \in Nat /\ Overrun \in Nat
  <2>1. Ticks(C[s]) \in Nat /\ Overrun \in Nat
    BY TickFacts DEF Service
  <2> QED BY <2>1 DEF TypeOK
<1>2. sem[s] * c \in Nat /\ (sem[s] > 0 => (sem[s] - 1) * c = sem[s] * c - c)
  BY <1>1, Products
<1>3. CASE Check(s)
  <2>1. /\ spc' = [spc EXCEPT ![s] = "wait"] /\ spc[s] = "check"
        /\ UNCHANGED <<sem, work, stale>>
    BY <1>3 DEF Check, history
  <2> QED BY <1>1, <1>2, <2>1, TightKept DEF Met, Unfinished, Need, Idle, Quiet
<1>4. CASE Take(s)
  <2>1. /\ spc' = [spc EXCEPT ![s] = "got"] /\ spc[s] = "wait"
        /\ sem' = [sem EXCEPT ![s] = @ - 1] /\ work' = work /\ sem[s] > 0
    BY <1>4 DEF Take, Runs, Ready
  <2>2. sem'[s] = sem[s] - 1 /\ spc'[s] = "got"
    BY <1>1, <2>1
  <2>3. Need(s, c)' = Need(s, c)
    <3>1. Need(s, c) = sem[s] * c
      BY <1>2, <2>1 DEF Need
    <3>2. Need(s, c)' = (sem[s] - 1) * c + c
      BY <2>2 DEF Need
    <3> QED BY <1>2, <2>1, <3>1, <3>2
  <2>4. Met(s) => Met(s)'
    BY <1>1, <2>1, <2>2 DEF Met, Unfinished
  <2>5. ~Idle(s)
    BY <1>1, <2>1 DEF Idle, Quiet
  <2>6. Need(s, c) \in Nat
    BY NeedType
  <2> QED BY <2>3, <2>4, <2>5, <2>6
<1>5. CASE Begin(s)
  <2>1. spc[s] = "got" /\ spc' = [spc EXCEPT ![s] = "run"] /\ sem' = sem
    BY <1>5 DEF Begin
  <2>2. PICK n \in 1 .. Ticks(C[s]) + Overrun :
          work' = [work EXCEPT ![s] = n] /\ overran' = (overran \/ n > Ticks(C[s]))
    BY <1>5 DEF Begin
  <2>3. n <= c /\ n \in Nat
    <3>1. ~overran' => ~(n > Ticks(C[s]))
      BY <2>2, Zenon
    <3>2. n \in 1 .. Ticks(C[s]) + Overrun
      OBVIOUS
    <3> QED BY <1>1, <3>1, <3>2
  <2>4. Met(s) => Met(s)'
    BY <1>1, <2>1, <2>2, <2>3 DEF Met, Unfinished
  <2>5. Need(s, c)' <= Need(s, c)
    BY <1>1, <1>2, <2>1, <2>2, <2>3 DEF Need
  <2>6. ~Idle(s)
    BY <2>1 DEF Idle, Quiet
  <2> QED BY <2>4, <2>5, <2>6
<1>6. CASE Complete(s)
  <2>1. /\ spc' = [spc EXCEPT ![s] = "check"] /\ spc[s] = "run" /\ work[s] = 0
        /\ UNCHANGED <<sem, work, stale>>
    BY <1>6 DEF Complete, history
  <2> QED BY <1>1, <1>2, <2>1, TightKept DEF Met, Unfinished, Need, Idle, Quiet
<1> QED BY <1>3, <1>4, <1>5, <1>6 DEF ServiceStep

\* It leaves the other service alone.
LEMMA OtherNeeds ==
  ASSUME TypeOK, NEW s \in Service, ServiceStep(s), NEW t \in Service \ {s}, NEW c
  PROVE  /\ Met(t)' = Met(t) /\ Need(t, c)' = Need(t, c)
         /\ Idle(t)' = Idle(t) /\ Ending(t)' = Ending(t)
<1>1. /\ spc'[t] = spc[t] /\ work'[t] = work[t] /\ sem'[t] = sem[t]
      /\ released' = released /\ stale' = stale
  BY ServiceFrame DEF TypeOK
<1>2. served'[t] = served[t]
  BY DEF ServiceStep, Check, Take, Begin, Complete, history, TypeOK
<1> QED BY <1>1, <1>2, TightKept DEF Met, Unfinished, Need, Quiet, Idle, Ending, Given

\* After the final posts it only takes the token that ends it.
LEMMA ServiceEnds ==
  ASSUME TypeOK, NEW s \in Service, ServiceStep(s), abortTest, Ending(s)
  PROVE  Ending(s)' /\ (Met(s) => Met(s)')
<1>1. /\ sem \in [Service -> Nat]
      /\ spc \in [Service -> {"none", "absent", "check", "wait", "got", "run", "exited"}]
  BY DEF TypeOK
<1>2. CASE Take(s)
  <2>1. /\ spc' = [spc EXCEPT ![s] = "got"] /\ spc[s] = "wait"
        /\ sem' = [sem EXCEPT ![s] = @ - 1]
        /\ UNCHANGED <<served, released, stale>>
    BY <1>2 DEF Take, history
  <2> QED BY <1>1, <2>1, TightKept DEF Met, Unfinished, Ending, Given
<1>3. CASE Begin(s)
  <2>1. /\ spc' = [spc EXCEPT ![s] = "exited"] /\ spc[s] = "got"
        /\ UNCHANGED <<sem, served, released, stale>>
    BY <1>3 DEF Begin
  <2> QED BY <1>1, <2>1, TightKept DEF Met, Unfinished, Ending, Given
<1>4. CASE Check(s)
  <2>1. /\ spc' = [spc EXCEPT ![s] = "exited"] /\ spc[s] = "check"
        /\ UNCHANGED <<sem, served, released, stale>>
    BY <1>4 DEF Check, history
  <2> QED BY <1>1, <2>1, TightKept DEF Met, Unfinished, Ending, Given
<1>5. CASE Complete(s)
  <2>1. /\ spc' = [spc EXCEPT ![s] = "check"] /\ spc[s] = "run"
        /\ UNCHANGED <<sem, served, released, stale>>
    BY <1>5 DEF Complete, history
  <2> QED BY <1>1, <2>1, TightKept DEF Met, Unfinished, Ending, Given
<1> QED BY <1>2, <1>3, <1>4, <1>5 DEF ServiceStep

\* A tick does not take from it either.
LEMMA TickEnds ==
  ASSUME Tick, seq = "done", NEW s \in Service, Ending(s)
  PROVE  Ending(s)' /\ (Met(s) => Met(s)')
<1>1. /\ UNCHANGED <<sem, spc, released, served, stale>>
      /\ work'[s] = IF Runs(s) THEN work[s] - 1 ELSE work[s]
      /\ Runs(s) => spc[s] = "run" /\ work[s] > 0
  BY DEF Tick, history
<1>2. CASE Runs(s)
  BY <1>1, <1>2 DEF Ending
<1>3. CASE ~Runs(s)
  BY <1>1, <1>3, TightKept DEF Ending, Given, Met, Unfinished
<1> QED BY <1>2, <1>3

\* A service that needs nothing has no token and no unfinished job.
LEMMA NothingNeeded ==
  ASSUME TypeOK, work \in [Service -> Nat], NEW s \in Service, NEW c \in Nat \ {0},
         Need(s, c) = 0, spc[s] # "absent"
  PROVE  /\ sem[s] = 0 /\ ~Unfinished(s)
         /\ spc[s] # "got" /\ (spc[s] = "run" => work[s] = 0)
<1>1. sem[s] \in Nat /\ work[s] \in Nat
  BY DEF TypeOK
<1>2. sem[s] * c \in Nat /\ (sem[s] > 0 => sem[s] * c >= c)
  BY <1>1, Products
<1>3. sem[s] * c = 0 /\ spc[s] # "got" /\ (spc[s] = "run" => work[s] = 0)
  BY <1>1, <1>2 DEF Need
<1> QED BY <1>1, <1>2, <1>3 DEF Unfinished

\* A tick serves F10 if it needs anything, and F20 otherwise; a service that
\* the core has and that needs nothing waits for its next release.
LEMMA TickNeeds ==
  ASSUME TypeOK, work \in [Service -> Nat], Positions, Tick, seq = "asleep",
         NEW c \in Nat \ {0}, NEW d \in Nat \ {0}
  PROVE  /\ \A s \in Service : Met(s) => Met(s)'
         /\ IF Need("F10", c) > 0
              THEN /\ Need("F10", c)' = Need("F10", c) - 1
                   /\ Need("F20", d)' = Need("F20", d)
              ELSE /\ Need("F10", c)' = 0 /\ Quiet("F10")'
                   /\ IF Need("F20", d) > 0
                        THEN Need("F20", d)' = Need("F20", d) - 1
                        ELSE Need("F20", d)' = 0 /\ Quiet("F20")'
<1>1. /\ sem \in [Service -> Nat]
      /\ spc \in [Service -> {"none", "absent", "check", "wait", "got", "run", "exited"}]
      /\ "F10" \in Service /\ "F20" \in Service
  BY DEF TypeOK, Service
<1>2. mpc # "crashed" /\ \A s \in Service : spc[s] \notin {"none", "exited"}
  BY DEF Positions, Service
<1>3. /\ UNCHANGED <<sem, spc>>
      /\ \A s \in Service : work'[s] = IF Runs(s) THEN work[s] - 1 ELSE work[s]
      /\ \A s \in Service : Runs(s) => spc[s] = "run" /\ work[s] > 0
  BY DEF Tick
<1>4. \A s \in Service : work[s] \in Nat
  OBVIOUS
<1>5. \A s \in Service : Met(s) => Met(s)'
  <2> SUFFICES ASSUME NEW s \in Service, Met(s) PROVE Met(s)'
    OBVIOUS
  <2>1. sem'[s] = sem[s] /\ spc'[s] = spc[s]
    BY <1>3
  <2>2. work'[s] = work[s] \/ (work[s] > 0 /\ work'[s] = work[s] - 1)
    BY <1>3
  <2> QED BY <1>1, <1>4, <2>1, <2>2 DEF Met, Unfinished
<1>6. Runs("F10") <=> Ready("F10")
  BY DEF Runs, SequencerIdle
<1>7. Runs("F20") <=> Ready("F20") /\ ~Ready("F10")
  BY DEF Runs, SequencerIdle
<1>8. ASSUME NEW s \in Service, NEW e \in Nat \ {0}
      PROVE  /\ Ready(s) /\ Runs(s) =>
                  Need(s, e) > 0 /\ Need(s, e)' = Need(s, e) - 1
             /\ ~Ready(s) => Need(s, e) = 0 /\ Need(s, e)' = 0 /\ Quiet(s)'
             /\ ~Runs(s) => Need(s, e)' = Need(s, e)
  <2>1. CASE Ready(s) /\ Runs(s)
    <3>1. sem'[s] = sem[s] /\ spc[s] = "run" /\ spc'[s] = "run" /\ work[s] > 0
          /\ work'[s] = work[s] - 1
      BY <1>3, <2>1
    <3>2. sem[s] \in Nat /\ work[s] \in Nat /\ sem[s] * e \in Nat
      BY <1>1, <1>4, Products
    <3>3. Need(s, e) = sem[s] * e + work[s]
      BY <3>1 DEF Need
    <3>4. Need(s, e)' = sem[s] * e + (work[s] - 1)
      BY <3>1 DEF Need
    <3> QED BY <2>1, <3>1, <3>2, <3>3, <3>4
  <2>2. CASE ~Ready(s)
    <3>1. spc[s] = "absent" \/ (spc[s] = "wait" /\ sem[s] = 0)
      BY <1>1, <1>2, <2>2 DEF Ready
    <3>2. /\ spc'[s] = spc[s] /\ sem'[s] = sem[s]
          /\ 0 * e = 0
      BY <1>3, <3>1
    <3> QED BY <2>2, <3>1, <3>2 DEF Need, Quiet, Runs
  <2>3. CASE ~Runs(s)
    <3>1. work'[s] = work[s]
      BY <1>3, <2>3
    <3>2. Need(s, e)' = Need(s, e)
      BY <1>3, <3>1 DEF Need
    <3> QED BY <2>2, <2>3, <3>2
  <2> QED BY <2>1, <2>2, <2>3
<1>9. CASE Ready("F10")
  <2>1. Need("F10", c) > 0 /\ Need("F10", c)' = Need("F10", c) - 1
    BY <1>1, <1>6, <1>8, <1>9
  <2>2. Need("F20", d)' = Need("F20", d)
    BY <1>1, <1>7, <1>8, <1>9
  <2> QED BY <1>5, <2>1, <2>2
<1>10. CASE ~Ready("F10")
  <2>1. Need("F10", c) = 0 /\ Need("F10", c)' = 0 /\ Quiet("F10")'
    BY <1>1, <1>8, <1>10
  <2>2. CASE Ready("F20")
    <3>1. Need("F20", d) > 0 /\ Need("F20", d)' = Need("F20", d) - 1
      BY <1>1, <1>7, <1>8, <1>10, <2>2
    <3> QED BY <1>5, <2>1, <3>1
  <2>3. CASE ~Ready("F20")
    <3>1. Need("F20", d) = 0 /\ Need("F20", d)' = 0 /\ Quiet("F20")'
      BY <1>1, <1>8, <2>3
    <3> QED BY <1>5, <2>1, <3>1
  <2> QED BY <2>2, <2>3
<1> QED BY <1>9, <1>10

--------------------------------------------------------------------------------
(* The supply covers the demand.                                           *)

LEMMA SupplyFacts ==
  /\ \A k \in 1 .. 8 :
       /\ Ticks(Program[k].sleep) = IF k \in {1, 2} THEN 0 ELSE IF k \in {5, 6} THEN U ELSE 2 * U
       /\ After[k] = IF k = 2 THEN 2 * U ELSE IF k = 5 THEN U ELSE 0
       /\ Slack[k] = IF k \in {2, 3, 6} THEN U ELSE 0
       /\ SlotsUntil[k] \in Nat
  /\ \A k \in 1 .. 7 : SlotsUntil[k + 1] = SlotsUntil[k]
                           + (IF k = 1 THEN 0 ELSE IF k \in {4, 5} THEN 1 ELSE 2)
  /\ SlotsUntil[1] = 0 /\ SlotsUntil[8] = 10
  /\ Longest \in Nat \ {0} /\ Ticks(C["F10"]) + Overrun <= Longest
  /\ Feasible => Spare \in Nat /\ Longest + Spare = 2 * U
<1>1. \A k \in 1 .. 8 : After[k] = IF k = 2 THEN 2 * U ELSE IF k = 5 THEN U ELSE 0
  BY DEF After
<1>2. \A k \in 1 .. 8 : Slack[k] = IF k \in {2, 3, 6} THEN U ELSE 0
  BY DEF Slack
<1>3. \A k \in 1 .. 8 :
        Ticks(Program[k].sleep) = IF k \in {1, 2} THEN 0 ELSE IF k \in {5, 6} THEN U ELSE 2 * U
  BY ProgramFacts, TickFacts
<1>4. /\ Longest \in Nat \ {0} /\ Ticks(C["F10"]) + Overrun <= Longest
      /\ Feasible => Spare \in Nat /\ Longest + Spare = 2 * U
  BY TickFacts DEF Longest, Feasible, Spare
<1>5. /\ \A k \in 1 .. 8 : SlotsUntil[k] \in Nat
      /\ SlotsUntil[1] = 0 /\ SlotsUntil[8] = 10
  BY DEF SlotsUntil
<1>6. \A k \in 1 .. 7 :
        SlotsUntil[k + 1] = SlotsUntil[k]
                           + (IF k = 1 THEN 0 ELSE IF k \in {4, 5} THEN 1 ELSE 2)
  BY DEF SlotsUntil
<1> QED BY <1>1, <1>2, <1>3, <1>4, <1>5, <1>6

LEMMA SupplyTypes ==
  ASSUME TypeOK
  PROVE  /\ step \in 1 .. 8 /\ left \in Nat /\ period \in Nat
         /\ Still \in Nat /\ After[step] \in Nat /\ Slack[step] \in Nat
         /\ Slots \in Nat /\ Slots * U \in Nat
         /\ \A s \in Service : Given(s) \in Nat /\ \A c \in Nat : Given(s) * c \in Nat
<1>1. step \in 1 .. 8 /\ left \in Nat /\ period \in Nat /\ U \in Nat
  BY ProgramFacts, TickFacts DEF TypeOK
<1>2. Still \in Nat /\ After[step] \in Nat /\ Slack[step] \in Nat /\ Slots \in Nat
  BY <1>1, SupplyFacts, TickFacts DEF Still, Slots
<1>3. \A s \in Service : Given(s) \in Nat
  BY HardcodedAssumption DEF TypeOK, Given
<1> QED BY <1>1, <1>2, <1>3, Products

\* What the posts do: one more token for the service of the entry, and as many
\* ticks more as the next sleep has.
LEMMA PostNeeds ==
  ASSUME TypeOK, work \in [Service -> Nat], Positions, Post, NEW c \in Nat \ {0},
         NEW s \in Service, s = Program[step].post
  PROVE  /\ Need(s, c)' \in Nat /\ Need(s, c)' <= Need(s, c) + c
         /\ Given(s)' * c = Given(s) * c + c
         /\ Need(s, c) = 0 => Met(s)'
         /\ \A t \in Service \ {s} :
              /\ Met(t)' = Met(t) /\ Given(t)' = Given(t)
              /\ \A d : Need(t, d)' = Need(t, d)
<1>1. sem \in [Service -> Nat] /\ released \in [Service -> Nat] /\ stale[s] \in Nat
  BY HardcodedAssumption DEF TypeOK
<1>2. /\ sem' = [sem EXCEPT ![s] = @ + 1] /\ spc' = spc /\ work' = work
      /\ released' = [released EXCEPT ![s] = @ + 1] /\ stale' = stale
  BY DEF Post
<1>3. Need(s, c)' \in Nat /\ Need(s, c)' <= Need(s, c) + c
  <2>1. sem'[s] = sem[s] + 1 /\ (sem[s] + 1) * c = sem[s] * c + c /\ sem[s] * c \in Nat
    BY <1>1, <1>2, Products
  <2>2. work[s] \in Nat
    OBVIOUS
  <2>3. CASE spc[s] = "got"
    BY <1>2, <2>1, <2>3 DEF Need
  <2>4. CASE spc[s] = "run"
    BY <1>2, <2>1, <2>2, <2>4 DEF Need
  <2>5. CASE spc[s] \notin {"got", "run"}
    <3>1. spc'[s] = spc[s]
      BY <1>2
    <3>2. CASE spc[s] = "absent"
      BY <3>1, <3>2 DEF Need
    <3>3. CASE spc[s] # "absent"
      BY <2>1, <2>5, <3>1, <3>3 DEF Need
    <3> QED BY <3>2, <3>3
  <2> QED BY <2>3, <2>4, <2>5
<1>4. Given(s)' * c = Given(s) * c + c
  <2>1. Given(s)' = Given(s) + 1 /\ Given(s) \in Nat
    BY <1>1, <1>2 DEF Given
  <2> QED BY <2>1, Products
<1>5. ASSUME Need(s, c) = 0 PROVE Met(s)'
  <2>0. CASE spc[s] = "absent"
    BY <1>2, <2>0 DEF Met
  <2> SUFFICES ASSUME spc[s] # "absent" PROVE Met(s)'
    BY <2>0
  <2>1. sem[s] = 0 /\ ~Unfinished(s)
    BY <1>5, NothingNeeded
  <2>2. sem'[s] = 1 /\ ~Unfinished(s)'
    BY <1>1, <1>2, <2>1 DEF Unfinished
  <2> QED BY <2>2 DEF Met
<1>6. ASSUME NEW t \in Service \ {s}
      PROVE  /\ Met(t)' = Met(t) /\ Given(t)' = Given(t)
             /\ \A d : Need(t, d)' = Need(t, d)
  <2>1. sem'[t] = sem[t] /\ released'[t] = released[t]
    BY <1>1, <1>2
  <2> QED BY <1>2, <2>1 DEF Met, Unfinished, Need, Given
<1> QED BY <1>3, <1>4, <1>5, <1>6

LEMMA PostFrame ==
  ASSUME TypeOK, Positions, Post
  PROVE  /\ step \in 1 .. 7 /\ seq = "post" /\ seq' = "call" /\ step' = step + 1
         /\ UNCHANGED <<left, period, overran, stale>> /\ ~AtEnd'
         /\ Program[step].post = IF step \in {2, 5} THEN "F20" ELSE "F10"
         /\ Still = 0
         /\ Still' = IF step = 1 THEN 0 ELSE IF step \in {4, 5} THEN U ELSE 2 * U
         /\ Slots' * U = Slots * U + Still'
<1>1. step \in 1 .. 8 /\ period \in Nat /\ U \in Nat
  BY ProgramFacts, TickFacts DEF TypeOK
<1>2. /\ step \in 1 .. 7 /\ seq = "post" /\ seq' = "call" /\ step' = step + 1
      /\ left' = 0 /\ left = 0 /\ UNCHANGED <<period, overran, stale>>
  BY <1>1 DEF Post, Positions
<1>3. Program[step].post = IF step \in {2, 5} THEN "F20" ELSE "F10"
  BY <1>2, ProgramFacts
<1>4. Still = 0 /\ Still' = Ticks(Program[step + 1].sleep)
  BY <1>2 DEF Still
<1>5. Still' = IF step = 1 THEN 0 ELSE IF step \in {4, 5} THEN U ELSE 2 * U
  BY <1>2, <1>4, SupplyFacts
<1>6. Slots' = Slots + (IF step = 1 THEN 0 ELSE IF step \in {4, 5} THEN 1 ELSE 2) /\ Slots \in Nat
  <2>1. Slots = 10 * period + SlotsUntil[step] /\ Slots' = 10 * period + SlotsUntil[step + 1]
    BY <1>2 DEF Slots
  <2> QED BY <1>1, <1>2, <2>1, SupplyFacts
<1>7. Slots' * U = Slots * U + Still'
  <2>1. (Slots + 0) * U = Slots * U /\ (Slots + 1) * U = Slots * U + U
        /\ (Slots + 2) * U = Slots * U + 2 * U /\ Slots * U \in Nat
    BY <1>1, <1>6
  <2> QED BY <1>5, <1>6, <2>1
<1> QED BY <1>2, <1>3, <1>4, <1>5, <1>7 DEF AtEnd

\* The final posts wake the services that wait.
LEMMA FinalNeeds ==
  ASSUME TypeOK, Account, FinalPosts, NEW s \in Service, Idle(s)
  PROVE  Met(s)' /\ Ending(s)'
<1>0. CASE spc[s] = "absent"
  BY <1>0 DEF FinalPosts, Met, Ending
<1> SUFFICES ASSUME spc[s] # "absent" PROVE Met(s)' /\ Ending(s)'
  BY <1>0
<1>1. /\ sem' = [t \in Service |-> sem[t] + 1] /\ seq = "final"
      /\ UNCHANGED <<spc, work, served, released, stale>>
  BY DEF FinalPosts, history
<1>2. /\ sem[s] = 0 /\ sem'[s] = 1 /\ spc[s] # "got"
      /\ spc[s] = "wait" \/ (Tight(s) /\ (spc[s] = "check" \/ (spc[s] = "run" /\ work[s] = 0)))
  BY <1>1 DEF Idle, Quiet
<1>3. served[s] = Given(s)
  <2>1. served[s] + sem[s] + Taken(s) = Given(s)
    BY <1>1 DEF Account, Given
  <2>2. Taken(s) = 0 /\ served[s] \in Nat
    BY <1>2 DEF Taken, TypeOK
  <2> QED BY <1>2, <2>1, <2>2
<1>4. Given(s)' = Given(s)
  BY <1>1 DEF Given
<1> QED BY <1>1, <1>2, <1>3, <1>4, TightKept DEF Met, Unfinished, Ending

\* The other steps of the Sequencer, and those of main, are none of theirs.
LEMMA SleepWakeFrame ==
  ASSUME Sleep \/ Wake \/ Abort
  PROVE  /\ \A s, c : Met(s)' = Met(s) /\ Need(s, c)' = Need(s, c) /\ Idle(s)' = Idle(s)
         /\ \A s : Given(s)' = Given(s)
         /\ UNCHANGED <<stale, overran>>
         /\ seq # "done" /\ seq' # "done"
<1>1. /\ UNCHANGED <<sem, spc, work, stale, overran, released>>
      /\ seq # "done" /\ seq' # "done"
  BY DEF Sleep, Wake, Abort, history
<1> QED BY <1>1, TightKept DEF Met, Unfinished, Need, Quiet, Idle, Given

LEMMA SleepFrame ==
  ASSUME TypeOK, Sleep
  PROVE  /\ Still' \in Nat /\ Still' >= Still /\ Slots' = Slots /\ ~AtEnd'
         /\ seq = "call" /\ seq' = "asleep" /\ step' = step
<1>1. seq = "call" /\ seq' = "asleep" /\ UNCHANGED <<step, period>>
  BY DEF Sleep
<1>2. step \in 1 .. 8 /\ U \in Nat \ {0}
  BY SupplyTypes, TickFacts
<1>3. left' \in Nat /\ left' >= Ticks(Program[step].sleep)
  BY <1>2, SupplyFacts, TickFacts DEF Sleep
<1>4. step = 8 => left' > 0
  BY <1>2, <1>3, SupplyFacts
<1> QED BY <1>1, <1>3, <1>4 DEF Still, Slots, AtEnd

\* Between two periods there is nothing but the end of the last sleep.
LEMMA WakeFrame ==
  ASSUME TypeOK, Positions, Wake
  PROVE  /\ Still = 0 /\ Still' = 0 /\ Slots' = Slots
         /\ seq = "asleep" /\ left = 0
         /\ IF step = 8
              THEN step' = 1 /\ seq' \in {"call", "abort"} /\ (AtEnd' => AtEnd)
              ELSE step' = step /\ seq' = "post" /\ ~AtEnd'
<1>1. step \in 1 .. 8 /\ period \in 0 .. Periods /\ Periods \in Nat
  BY SupplyTypes, TickFacts DEF TypeOK
<1>2. seq = "asleep" /\ left = 0 /\ left' = 0 /\ Still = 0
  BY DEF Wake, Still
<1>3. CASE step = 8
  <2>1. Program[step].post = "none"
    BY <1>3, ProgramFacts
  <2>2. /\ step' = 1 /\ period' = period + 1
        /\ seq' = IF period' < Periods THEN "call" ELSE "abort"
    BY <2>1 DEF Wake
  <2>3. Slots' = Slots
    BY <1>1, <1>3, <2>2, SupplyFacts DEF Slots
  <2>4. Still' = 0
    BY <1>2, <2>2, SupplyFacts DEF Still
  <2>5. AtEnd' => AtEnd
    BY <1>1, <1>2, <1>3, <2>2 DEF AtEnd, Positions
  <2> QED BY <1>2, <1>3, <2>2, <2>3, <2>4, <2>5
<1>4. CASE step # 8
  <2>1. Program[step].post # "none"
    BY <1>1, <1>4, ProgramFacts
  <2>2. seq' = "post" /\ UNCHANGED <<step, period>>
    BY <2>1 DEF Wake
  <2> QED BY <1>2, <1>4, <2>2 DEF Still, Slots, AtEnd
<1> QED BY <1>3, <1>4

LEMMA AbortFrame ==
  ASSUME Abort
  PROVE  Still' = Still /\ Slots' = Slots /\ step' = step /\ AtEnd
  BY DEF Abort, Still, Slots, AtEnd

LEMMA MainFrame ==
  ASSUME TypeOK, Positions, Main
  PROVE  /\ \A s \in Service : /\ Met(s) => Met(s)'
                               /\ \A c \in Nat : Need(s, c)' <= Need(s, c)
         /\ \A s \in Service : Given(s)' = Given(s)
         /\ UNCHANGED <<step, left, stale, overran>>
         /\ Slots' = Slots /\ Still' = Still
         /\ seq' = "done" => seq = "done" /\ \A s \in Service : Ending(s)' = Ending(s)
         /\ seq' # "done" => seq # "done"
         /\ AtEnd' => AtEnd /\ \A s \in Service : Idle(s)' = Idle(s)
<1>1. /\ UNCHANGED <<step, period, left, overran, sem, work, served, released, stale>>
      /\ seq' = seq \/ (seq = "none" /\ seq' \in {"call", "absent"} /\ step = 1 /\ left = 0)
      /\ spc \in [Service -> {"none", "absent", "check", "wait", "got", "run", "exited"}]
      /\ sem \in [Service -> Nat] /\ \A s \in Service : work[s] \in Nat
  <2>1. UNCHANGED <<step, period, left, overran, sem, work, served, released, stale>>
    BY DEF Main, Creation, Create, CreateSequencer, Join, JoinCrashes, seqVars, history
  <2>2. seq' = seq \/ (seq = "none" /\ seq' \in {"call", "absent"} /\ step = 1 /\ left = 0)
    BY CreateFrame, CreateSequencerFrame
       DEF Main, Creation, Join, JoinCrashes, seqVars, Positions
  <2>3. ASSUME NEW s \in Service PROVE work[s] \in Nat
    <3>1. Ticks(C[s]) + Overrun \in Nat
      BY TickFacts DEF Service
    <3>2. work[s] \in 0 .. Ticks(C[s]) + Overrun
      BY DEF TypeOK
    <3> QED BY <3>1, <3>2
  <2> QED BY <2>1, <2>2, <2>3 DEF TypeOK
<1>2. Slots' = Slots /\ Still' = Still /\ \A s \in Service : Given(s)' = Given(s)
  BY <1>1, SupplyFacts DEF Slots, Still, Given
<1>6. ASSUME NEW s \in Service, NEW c \in Nat PROVE Need(s, c) \in Nat
  <2>1. sem[s] * c \in Nat
    BY <1>1, Products
  <2> QED BY <1>1, <2>1 DEF Need
<1>3. CASE CreateSequencer \/ Join \/ JoinCrashes
  <2>1. spc' = spc
    BY <1>3 DEF CreateSequencer, Join, JoinCrashes
  <2>2. AtEnd' => AtEnd
    BY <1>1 DEF AtEnd
  <2>3. \A s \in Service : Met(s)' = Met(s) /\ \A c : Need(s, c)' = Need(s, c)
    BY <1>1, <2>1 DEF Met, Unfinished, Need
  <2>4. ASSUME NEW s \in Service, NEW c \in Nat PROVE Need(s, c)' <= Need(s, c)
    <3> DEFINE n == Need(s, c)
    <3>1. n \in Nat /\ Need(s, c)' = n
      BY <1>6, <2>3
    <3> HIDE DEF n
    <3>2. Need(s, c)' <= n
      BY <3>1
    <3> QED BY <3>2 DEF n
  <2> QED BY <1>1, <1>2, <2>1, <2>2, <2>3, <2>4, TightKept DEF Ending, Quiet, Idle
<1>4. ASSUME NEW t \in Service, Create(t)
      PROVE  /\ \A s \in Service : /\ Met(s) => Met(s)'
                                   /\ \A c \in Nat : Need(s, c)' <= Need(s, c)
             /\ seq = "none" /\ seq' = "none"
  <2>1. /\ spc[t] = "none" /\ seq = "none" /\ seq' = "none"
        /\ spc' = spc \/ \E pc \in {"check", "absent"} : spc' = [spc EXCEPT ![t] = pc]
    BY <1>4, CreateFrame DEF Positions, Service
  <2>2. ASSUME NEW s \in Service
        PROVE  (Met(s) => Met(s)') /\ \A c \in Nat : Need(s, c)' <= Need(s, c)
    <3>1. /\ sem'[s] = sem[s] /\ work'[s] = work[s]
          /\ spc'[s] = spc[s] \/ (spc[s] = "none" /\ spc'[s] \in {"check", "absent"})
      BY <1>1, <2>1
    <3>2. Met(s) => Met(s)'
      BY <1>1, <3>1 DEF Met, Unfinished
    <3>3. ASSUME NEW c \in Nat PROVE Need(s, c)' <= Need(s, c)
      <4>1. sem[s] * c \in Nat /\ Need(s, c) \in Nat
        BY <1>1, <1>6, Products
      <4>2. CASE spc'[s] = "absent"
        BY <4>1, <4>2 DEF Need
      <4>3. CASE spc'[s] # "absent"
        <5>1. Need(s, c)' = Need(s, c)
          BY <3>1, <4>3 DEF Need
        <5> QED BY <4>1, <5>1
      <4> QED BY <4>2, <4>3
    <3> QED BY <3>2, <3>3
  <2> QED BY <2>1, <2>2
<1>5. CASE \E t \in Service : Create(t)
  BY <1>1, <1>2, <1>4, <1>5 DEF AtEnd
<1> QED BY <1>3, <1>5 DEF Main, Creation

LEMMA HistoryKept ==
  ASSUME [Next]_vars
  PROVE  stale' = stale /\ (overran => overran')
<1>1. ASSUME NEW s \in Service, ServiceStep(s) PROVE stale' = stale /\ (overran => overran')
  <2>1. CASE Begin(s)
    <3>1. overran' = overran \/ \E n : overran' = (overran \/ n > Ticks(C[s]))
      BY <2>1 DEF Begin
    <3>2. overran => overran'
      BY <3>1, Zenon
    <3>3. stale' = stale
      BY <2>1 DEF Begin
    <3> QED BY <3>2, <3>3
  <2>2. Check(s) \/ Take(s) \/ Complete(s) => UNCHANGED <<stale, overran>>
    BY DEF Check, Take, Complete, history
  <2> QED BY <1>1, <2>1, <2>2 DEF ServiceStep
<1>2. Sequencer => UNCHANGED <<stale, overran>>
  BY SequencerFrame
<1>3. Tick \/ Main \/ Ended \/ UNCHANGED vars => UNCHANGED <<stale, overran>>
  BY DEF Tick, Main, Creation, Create, CreateSequencer, Join, JoinCrashes, Ended, vars, history
<1> QED BY <1>1, <1>2, <1>3 DEF Next

--------------------------------------------------------------------------------
(* The last sleep: what was stale has been worked off.                     *)

LEMMA LastSleep ==
  ASSUME Core, seq = "asleep", step = 8, period = Periods - 1
  PROVE  /\ Slots = 10 * Periods
         /\ released["F10"] = 5 * Periods /\ released["F20"] = 2 * Periods
<1>1. Periods \in Nat
  BY TickFacts
<1>2. Slots = 10 * Periods
  BY <1>1, SupplyFacts DEF Slots
<1>3. \A s \in Service : released[s] = PostsInPeriod[s] * period + PostsBefore[s][8]
  BY DEF Core, Times
<1>4. released["F10"] = 5 * period + 5 /\ released["F20"] = 2 * period + 2
  BY <1>3 DEF PostsInPeriod, PostsBefore, Service
<1> QED BY <1>1, <1>2, <1>4

LEMMA LastBacklog10 ==
  ASSUME Core, seq = "asleep", step = 8, period = Periods - 1, WorkedOff, Backlog10
  PROVE  Need("F10", Longest) <= Still
<1>1. TypeOK /\ work \in [Service -> Nat]
  BY DEF Core
<1>2. /\ "F10" \in Service /\ Longest \in Nat /\ Periods \in Nat /\ MaxStale \in Nat
      /\ U \in Nat /\ stale["F10"] \in Nat /\ stale["F10"] <= MaxStale
  BY <1>1, SupplyFacts, TickFacts, HardcodedAssumption DEF TypeOK, Service
<1>3. Slots = 10 * Periods /\ Given("F10") = 5 * Periods + stale["F10"]
  BY <1>2, LastSleep DEF Given
<1>4. Given("F10") * Longest <= (MaxStale + 5 * Periods) * Longest
  <2>1. Given("F10") \in Nat /\ MaxStale + 5 * Periods \in Nat
        /\ Given("F10") <= MaxStale + 5 * Periods
    BY <1>2, <1>3
  <2> QED BY <1>2, <2>1, Products
<1>5. Given("F10") * Longest <= Slots * U
  <2>1. /\ Given("F10") * Longest \in Nat /\ Slots * U \in Nat
        /\ (MaxStale + 5 * Periods) * Longest \in Nat
    <3>1. MaxStale + 5 * Periods \in Nat
      BY <1>2
    <3> QED BY <1>1, <1>2, <3>1, SupplyTypes, Products
  <2>2. (MaxStale + 5 * Periods) * Longest <= Slots * U
    BY <1>3 DEF WorkedOff
  <2> QED BY <1>4, <2>1, <2>2
<1>6. /\ Need("F10", Longest) \in Nat /\ Given("F10") * Longest \in Nat
      /\ Slots * U \in Nat /\ Still \in Nat
  BY <1>1, <1>2, NeedType, SupplyTypes
<1> QED BY <1>5, <1>6 DEF Backlog10

LEMMA LastBacklog20 ==
  ASSUME Core, seq = "asleep", step = 8, period = Periods - 1, WorkedOff, Backlog20
  PROVE  /\ Both <= Still
         /\ stale["F20"] = 0 => Both < Still
<1>1. TypeOK /\ work \in [Service -> Nat]
  BY DEF Core
<1>2. /\ "F10" \in Service /\ "F20" \in Service /\ Service = {"F10", "F20"}
      /\ Periods \in Nat /\ MaxStale \in Nat /\ U \in Nat \ {0} /\ 2 * U \in Nat
      /\ stale["F10"] \in Nat /\ stale["F10"] <= MaxStale
      /\ stale["F20"] \in Nat /\ stale["F20"] <= MaxStale
  BY <1>1, TickFacts, HardcodedAssumption DEF TypeOK, Service
<1>3. /\ Slots = 10 * Periods
      /\ Given("F10") = 5 * Periods + stale["F10"]
      /\ Given("F20") = 2 * Periods + stale["F20"]
  BY <1>2, LastSleep DEF Given
<1> DEFINE G == 9 * Periods + stale["F10"] + 2 * stale["F20"]
<1>4. /\ G \in Nat /\ G <= Slots
      /\ stale["F20"] = 0 => G + 1 <= Slots
  <2>1. 3 * MaxStale <= Periods
    BY DEF WorkedOff
  <2>2. stale["F20"] = 0 => stale["F10"] # 0
    BY <1>2 DEF Backlog20, Fresh
  <2>3. ASSUME NEW a \in Nat, NEW b \in Nat, NEW m \in Nat, NEW p \in Nat,
               a <= m, b <= m, 3 * m <= p
        PROVE  /\ 9 * p + a + 2 * b \in Nat /\ 9 * p + a + 2 * b <= 10 * p
               /\ b = 0 /\ a # 0 => 9 * p + a + 2 * b + 1 <= 10 * p
    BY <2>3
  <2> QED BY <1>2, <1>3, <2>1, <2>2, <2>3
<1>5. Given("F10") * U + Given("F20") * (2 * U) = G * U
  <2>1. PICK a \in Nat, b \in Nat, p \in Nat, u \in Nat :
          a = stale["F10"] /\ b = stale["F20"] /\ p = Periods /\ u = U
    BY <1>2
  <2>2. (5 * p + a) * u + (2 * p + b) * (2 * u) = (9 * p + a + 2 * b) * u
    OBVIOUS
  <2>3. /\ Given("F10") = 5 * p + a /\ Given("F20") = 2 * p + b
        /\ U = u /\ G = 9 * p + a + 2 * b
    BY <1>3, <2>1
  <2> QED BY <2>2, <2>3
<1> HIDE DEF G
<1>6. Slots \in Nat /\ G * U \in Nat /\ Slots * U \in Nat /\ (G + 1) * U = G * U + U
  BY <1>2, <1>3, <1>4, Products
<1>7. G * U <= Slots * U /\ (stale["F20"] = 0 => G * U + U <= Slots * U)
  <2>1. G * U <= Slots * U
    BY <1>2, <1>4, <1>6, Products
  <2>2. G + 1 <= Slots => (G + 1) * U <= Slots * U
    <3>1. G + 1 \in Nat
      BY <1>4
    <3> QED BY <1>2, <1>6, <3>1, Products
  <2> QED BY <1>4, <1>6, <2>1, <2>2
<1>8. Both \in Nat /\ Still \in Nat
  <2>1. Need("F10", U) \in Nat /\ Need("F20", 2 * U) \in Nat
    BY <1>1, <1>2, NeedType
  <2> QED BY <1>1, <2>1, SupplyTypes DEF Both
<1>9. Both + Slots * U <= Still + G * U
  <2>1. Given("F10") * U \in Nat /\ Given("F20") * (2 * U) \in Nat
    BY <1>1, <1>2, SupplyTypes
  <2> QED BY <1>5, <1>6, <1>8, <2>1 DEF Backlog20
<1> QED BY <1>2, <1>6, <1>7, <1>8, <1>9

\* A service that has needed the last tick is idle after it.
LEMMA TickIdle ==
  ASSUME TypeOK, work \in [Service -> Nat], Positions, Tick, seq = "asleep",
         NEW s \in Service, NEW c \in Nat \ {0}, Need(s, c)' = 0, Tight(s)
  PROVE  Idle(s)'
<1>1. /\ sem[s] \in Nat /\ work[s] \in Nat
      /\ spc[s] \in {"none", "absent", "check", "wait", "got", "run", "exited"}
  BY DEF TypeOK
<1>2. spc[s] \notin {"none", "exited"}
  BY DEF Positions, Service
<1>3. UNCHANGED <<sem, spc, stale>> /\ work'[s] \in Nat
  <2>1. /\ UNCHANGED <<sem, spc, stale>>
        /\ work'[s] = IF Runs(s) THEN work[s] - 1 ELSE work[s]
        /\ Runs(s) => spc[s] = "run" /\ work[s] > 0
    BY DEF Tick, history
  <2> QED BY <1>1, <2>1
<1>0. CASE spc[s] = "absent"
  BY <1>0, <1>3 DEF Idle, Quiet
<1> SUFFICES ASSUME spc[s] # "absent" PROVE Idle(s)'
  BY <1>0
<1>4. sem[s] * c \in Nat /\ (sem[s] > 0 => sem[s] * c >= c)
  BY <1>1, Products
<1>5. Need(s, c)' = sem[s] * c
                     + (IF spc[s] = "got" THEN c ELSE IF spc[s] = "run" THEN work'[s] ELSE 0)
  BY <1>3 DEF Need
<1>6. sem[s] * c = 0 /\ spc[s] # "got" /\ (spc[s] = "run" => work'[s] = 0)
  BY <1>3, <1>4, <1>5
<1>7. sem[s] = 0
  BY <1>1, <1>4, <1>6
<1> QED BY <1>1, <1>2, <1>3, <1>6, <1>7, TightKept DEF Idle, Quiet

\* A post adds as much to what is needed as to what is given, and its sleep as
\* much to the supply as to the time.
LEMMA BacklogGrows ==
  \A w, v, s, g, c, n \in Nat :
     w + s <= 0 + g /\ v <= w + c => v + (s + n) <= n + (g + c)
  OBVIOUS

--------------------------------------------------------------------------------
(* F10.                                                                    *)

LEMMA NextDemand10 ==
  ASSUME Core, Feasible, Fresh \/ WorkedOff, Demand10, [Next]_vars
  PROVE  Demand10'
<1>1. /\ TypeOK /\ work \in [Service -> Nat] /\ Positions /\ Account
      /\ TypeOK' /\ (work \in [Service -> Nat])' /\ stale' = stale
  BY NextCore, HistoryKept DEF Core
<1>2. /\ "F10" \in Service /\ "F20" \in Service /\ Service = {"F10", "F20"}
      /\ U \in Nat \ {0} /\ Longest \in Nat \ {0} /\ Spare \in Nat /\ Longest + Spare = 2 * U
  BY TickFacts, SupplyFacts DEF Service
<1> DEFINE N == Need("F10", Longest)
           G == Given("F10") * Longest
           M == Still + After[step]
<1>3. N \in Nat /\ N' \in Nat
  <2>1. N \in Nat
    BY <1>1, <1>2, NeedType
  <2>2. sem'["F10"] \in Nat /\ work'["F10"] \in Nat
    BY <1>1, <1>2 DEF TypeOK
  <2>3. sem'["F10"] * Longest \in Nat
    BY <1>2, <2>2, Products
  <2>4. N' = IF spc'["F10"] = "absent" THEN 0
             ELSE sem'["F10"] * Longest
                    + (IF spc'["F10"] = "got" THEN Longest
                       ELSE IF spc'["F10"] = "run" THEN work'["F10"] ELSE 0)
    BY DEF Need, Spare, Longest, U, Ticks
  <2> QED BY <1>2, <2>1, <2>2, <2>3, <2>4
<1>4. /\ step \in 1 .. 8 /\ left \in Nat /\ Still \in Nat /\ After[step] \in Nat
      /\ Slots * U \in Nat /\ G \in Nat /\ M \in Nat
  <2>1. Still \in Nat /\ After[step] \in Nat
    BY <1>1, SupplyTypes
  <2>2. M \in Nat
    BY <2>1, Sums
  <2> QED BY <1>1, <1>2, <2>2, SupplyTypes
<1>5. /\ Fresh => Met("F10")
      /\ AtEnd => Idle("F10")
      /\ seq = "done" => Ending("F10")
      /\ Fresh' = Fresh
  BY <1>1 DEF Demand10, Fresh
<1>6. seq # "done" =>
        \/ N = 0
        \/ N + Spare <= M
        \/ stale["F10"] > 0 /\ N + Slots * U <= Still + G
  BY DEF Demand10, Backlog10
<1>7. ASSUME /\ Fresh => Met("F10")'
             /\ seq' # "done" =>
                  \/ N' = 0
                  \/ N' + Spare <= M'
                  \/ stale["F10"] > 0 /\ N' + Slots' * U <= Still' + G'
             /\ AtEnd' => Idle("F10")'
             /\ seq' = "done" => Ending("F10")'
      PROVE  Demand10'
  BY <1>1, <1>5, <1>7 DEF Demand10, Backlog10, Spare, Longest, U, Ticks, After
<1>19. M = Still + After[step] /\ M' = Still' + After[step']
  BY DEF After, U, Ticks
<1> HIDE DEF N, G, M
<1>20. ASSUME /\ seq # "done" /\ Still' \in Nat /\ Still' >= Still /\ step' = step
              /\ Slots' = Slots /\ N' <= N /\ G' = G
       PROVE  \/ N' = 0
              \/ N' + Spare <= M'
              \/ stale["F10"] > 0 /\ N' + Slots' * U <= Still' + G'
  <2>1. M' \in Nat /\ M' >= M
    BY <1>4, <1>19, <1>20, Sums
  <2>2. CASE N = 0
    BY <1>3, <1>20, <2>2
  <2>3. CASE N + Spare <= M
    BY <1>2, <1>3, <1>4, <1>20, <2>1, <2>3, Sums
  <2>4. CASE stale["F10"] > 0 /\ N + Slots * U <= Still + G
    BY <1>3, <1>4, <1>20, <2>4
  <2> QED BY <1>6, <1>20, <2>2, <2>3, <2>4
<1>8. ASSUME NEW s \in Service, ServiceStep(s) PROVE Demand10'
  <2>1. /\ UNCHANGED <<seq, step, left, period>> /\ Runs(s)
        /\ Still' = Still /\ Slots' = Slots /\ AtEnd' = AtEnd /\ G' = G
    BY <1>8, ServiceFrame DEF Still, AtEnd, Slots, G, Given, Spare, Longest, U, Ticks
  <2>2. CASE s = "F20"
    <3>1. /\ Met("F10")' = Met("F10") /\ N' = N
          /\ Idle("F10")' = Idle("F10") /\ Ending("F10")' = Ending("F10")
      <4>1. "F10" \in Service \ {s}
        BY <1>2, <2>2
      <4> QED BY <1>1, <1>8, <2>2, <4>1, OtherNeeds DEF N, Spare, Longest, U, Ticks
    <3>2. seq # "done" => \/ N' = 0
                          \/ N' + Spare <= M'
                          \/ stale["F10"] > 0 /\ N' + Slots' * U <= Still' + G'
      BY <1>3, <1>4, <1>20, <2>1, <3>1
    <3> QED BY <1>5, <1>7, <2>1, <3>1, <3>2
  <2>3. CASE s = "F10" /\ seq = "done"
    <3>1. abortTest
      BY <1>1, <2>3 DEF Positions
    <3>2. (Met("F10") => Met("F10")') /\ Ending("F10")'
      BY <1>1, <1>2, <1>5, <1>8, <2>3, <3>1, ServiceEnds
    <3> QED BY <1>5, <1>7, <2>1, <2>3, <3>2 DEF AtEnd
  <2>4. CASE s = "F10" /\ seq # "done"
    <3>1. ~abortTest
      BY <1>1, <2>1, <2>4 DEF Positions, Runs, SequencerIdle
    <3>2. /\ Met("F10") => Met("F10")'
          /\ N' <= N
          /\ Idle("F10") => Idle("F10")'
      BY <1>1, <1>2, <1>8, <2>4, <3>1, ServiceNeeds, SupplyFacts DEF N
    <3>3. \/ N' = 0
          \/ N' + Spare <= M'
          \/ stale["F10"] > 0 /\ N' + Slots' * U <= Still' + G'
      BY <1>4, <1>20, <2>1, <2>4, <3>2
    <3> QED BY <1>5, <1>7, <2>1, <2>4, <3>2, <3>3
  <2> QED BY <1>2, <2>2, <2>3, <2>4
<1>9. CASE Tick /\ seq = "asleep"
  <2>1. left > 0 /\ left' = left - 1 /\ UNCHANGED <<seq, step, period, released, stale>>
    BY <1>9 DEF Tick, history
  <2>2. /\ Met("F10") => Met("F10")'
        /\ IF N > 0 THEN N' = N - 1 ELSE N' = 0 /\ Quiet("F10")'
    BY <1>1, <1>2, <1>9, TickNeeds DEF N
  <2>3. Still = left /\ Still' = left - 1 /\ Slots' = Slots /\ G' = G
    BY <1>9, <2>1 DEF Still, Slots, G, Given, Spare, Longest, U, Ticks
  <2>6. M' = M - 1
    <3>1. (left - 1) + After[step] = (left + After[step]) - 1
      BY <1>4, <2>1
    <3> QED BY <1>19, <2>1, <2>3, <3>1
  <2>4. \/ N' = 0
        \/ N' + Spare <= M'
        \/ stale["F10"] > 0 /\ N' + Slots' * U <= Still' + G'
    <3>1. CASE N = 0
      BY <2>2, <3>1
    <3>2. CASE N > 0 /\ N + Spare <= M
      BY <1>2, <1>3, <1>4, <2>2, <2>6, <3>2, Sums
    <3>3. CASE N > 0 /\ stale["F10"] > 0 /\ N + Slots * U <= Still + G
      BY <1>3, <1>4, <2>1, <2>2, <2>3, <3>3
    <3> QED BY <1>3, <1>6, <1>9, <3>1, <3>2, <3>3
  <2>5. AtEnd' => Idle("F10")'
    <3> SUFFICES ASSUME AtEnd' PROVE Idle("F10")'
      OBVIOUS
    <3>1. step = 8 /\ left = 1 /\ period = Periods - 1
      BY <1>4, <1>9, <2>1 DEF AtEnd
    <3>2. CASE N = 0
      BY <1>3, <2>2, <3>2 DEF Idle
    <3>3. CASE N # 0
      <4>1. CASE N + Spare <= M
        <5>1. M = 1
          BY <1>19, <2>3, <3>1, SupplyFacts
        <5>2. Spare = 0 /\ N = 1
          BY <1>2, <1>3, <3>3, <4>1, <5>1
        <5>3. Need("F10", Longest)' = 0
          BY <2>2, <5>2 DEF N
        <5>4. Tight("F10")
          BY <5>2 DEF Tight
        <5> QED BY <1>1, <1>2, <1>9, <5>3, <5>4, TickIdle
      <4>2. CASE stale["F10"] > 0 /\ N + Slots * U <= Still + G
        <5>1. Backlog10
          BY <4>2 DEF Backlog10, N, G
        <5>2. WorkedOff
          <6>1. stale["F10"] # 0
            BY <4>2
          <6> QED BY <1>2, <6>1 DEF Fresh
        <5>3. N <= 1
          BY <1>9, <2>3, <3>1, <5>1, <5>2, LastBacklog10 DEF N
        <5>4. Need("F10", Longest)' = 0
          BY <1>3, <2>2, <3>3, <5>3 DEF N
        <5>5. Tight("F10")
          BY <4>2 DEF Tight
        <5> QED BY <1>1, <1>2, <1>9, <5>4, <5>5, TickIdle
      <4> QED BY <1>6, <1>9, <3>3, <4>1, <4>2
    <3> QED BY <3>2, <3>3
  <2> QED BY <1>5, <1>7, <1>9, <2>1, <2>2, <2>4, <2>5
<1>10. CASE Tick /\ seq = "done"
  <2>1. seq' = "done" /\ ~AtEnd'
    BY <1>10 DEF Tick, AtEnd
  <2>2. (Met("F10") => Met("F10")') /\ Ending("F10")'
    BY <1>2, <1>5, <1>10, TickEnds
  <2> QED BY <1>5, <1>7, <2>1, <2>2
<1>11. CASE Main
  <2>1. /\ (Met("F10") => Met("F10")') /\ N' <= N /\ G' = G
        /\ UNCHANGED <<step, left>> /\ Slots' = Slots /\ Still' = Still
        /\ seq' = "done" => seq = "done" /\ Ending("F10")' = Ending("F10")
        /\ seq' # "done" => seq # "done"
        /\ AtEnd' => AtEnd /\ Idle("F10")' = Idle("F10")
    BY <1>1, <1>2, <1>11, MainFrame DEF N, G, Spare, Longest, U, Ticks
  <2>2. seq' # "done" => \/ N' = 0
                         \/ N' + Spare <= M'
                         \/ stale["F10"] > 0 /\ N' + Slots' * U <= Still' + G'
    BY <1>3, <1>4, <1>20, <2>1
  <2> QED BY <1>5, <1>7, <2>1, <2>2
<1>12. CASE Sleep
  <2>1. /\ Met("F10")' = Met("F10") /\ N' = N /\ G' = G
    BY <1>12, SleepWakeFrame DEF N, G, Spare, Longest, U, Ticks
  <2>2. /\ Still' \in Nat /\ Still' >= Still /\ Slots' = Slots /\ ~AtEnd'
        /\ seq = "call" /\ seq' = "asleep" /\ step' = step
    BY <1>1, <1>12, SleepFrame
  <2>3. \/ N' = 0
        \/ N' + Spare <= M'
        \/ stale["F10"] > 0 /\ N' + Slots' * U <= Still' + G'
    BY <1>3, <1>20, <2>1, <2>2
  <2> QED BY <1>5, <1>7, <2>1, <2>2, <2>3
<1>13. CASE Wake
  <2>1. /\ Met("F10")' = Met("F10") /\ N' = N /\ G' = G
        /\ Idle("F10")' = Idle("F10") /\ seq # "done" /\ seq' # "done"
    BY <1>13, SleepWakeFrame DEF N, G, Spare, Longest, U, Ticks
  <2>2. /\ Still = 0 /\ Still' = 0 /\ Slots' = Slots
        /\ step' = step \/ step = 8
        /\ AtEnd' => AtEnd
    BY <1>1, <1>13, WakeFrame
  <2>3. \/ N' = 0
        \/ N' + Spare <= M'
        \/ stale["F10"] > 0 /\ N' + Slots' * U <= Still' + G'
    <3>1. CASE step' = step
      BY <1>3, <1>20, <2>1, <2>2, <3>1
    <3>2. CASE step = 8
      <4>1. M = 0
        BY <1>19, <2>2, <3>2, SupplyFacts
      <4>2. CASE N = 0
        BY <2>1, <4>2
      <4>3. CASE N + Spare <= M
        BY <1>2, <1>3, <2>1, <4>1, <4>3, Sums
      <4>4. CASE stale["F10"] > 0 /\ N + Slots * U <= Still + G
        BY <2>1, <2>2, <4>4
      <4> QED BY <1>6, <2>1, <4>2, <4>3, <4>4
    <3> QED BY <2>2, <3>1, <3>2
  <2> QED BY <1>5, <1>7, <2>1, <2>2, <2>3
<1>14. CASE Post
  <2>1. /\ step \in 1 .. 7 /\ seq = "post" /\ seq' = "call" /\ step' = step + 1 /\ ~AtEnd'
        /\ Program[step].post = IF step \in {2, 5} THEN "F20" ELSE "F10"
        /\ Still = 0
        /\ Still' = IF step = 1 THEN 0 ELSE IF step \in {4, 5} THEN U ELSE 2 * U
        /\ Slots' * U = Slots * U + Still'
    BY <1>1, <1>14, PostFrame
  <2>2. /\ After[step] = IF step = 2 THEN 2 * U ELSE IF step = 5 THEN U ELSE 0
        /\ After[step'] = IF step = 1 THEN 2 * U ELSE IF step = 4 THEN U ELSE 0
    BY <2>1, SupplyFacts
  <2>3. CASE step \in {2, 5}
    <3>1. Met("F10")' = Met("F10") /\ N' = N /\ G' = G
      <4>1. "F20" = Program[step].post
        BY <2>1, <2>3
      <4>2. "F10" \in Service \ {"F20"}
        BY <1>2
      <4> QED BY <1>1, <1>2, <1>14, <4>1, <4>2, PostNeeds DEF N, G, Spare, Longest, U, Ticks
    <3>2. \/ N' = 0
          \/ N' + Spare <= M'
          \/ stale["F10"] > 0 /\ N' + Slots' * U <= Still' + G'
      <4>1. M = After[step] /\ M' = After[step]
        <5>1. Still' = After[step] /\ After[step'] = 0
          BY <2>1, <2>2, <2>3
        <5>2. 0 + After[step] = After[step] /\ After[step] + 0 = After[step]
          BY <1>4
        <5> QED BY <1>19, <2>1, <5>1, <5>2
      <4>2. CASE N = 0 \/ N + Spare <= M
        BY <3>1, <4>1, <4>2
      <4>3. CASE stale["F10"] > 0 /\ N + Slots * U <= Still + G
        <5>1. Still' \in Nat
          BY <1>2, <2>1
        <5>2. (N + 0) + (Slots * U + Still') <= Still' + (G + 0)
          BY <1>3, <1>4, <2>1, <4>3, <5>1, BacklogGrows
        <5>3. N + 0 = N /\ G + 0 = G
          BY <1>3, <1>4
        <5> QED BY <2>1, <3>1, <4>3, <5>2, <5>3
      <4> QED BY <1>6, <2>1, <4>2, <4>3
    <3> QED BY <1>5, <1>7, <2>1, <3>1, <3>2
  <2>4. CASE step \notin {2, 5}
    <3>1. /\ N' <= N + Longest /\ G' = G + Longest
          /\ N = 0 => Met("F10")'
      <4>1. "F10" = Program[step].post
        BY <2>1, <2>4
      <4> QED BY <1>1, <1>2, <1>14, <4>1, PostNeeds DEF N, G, Spare, Longest, U, Ticks
    <3>2. M = 0 /\ M' = 2 * U
      BY <1>2, <1>19, <2>1, <2>2, <2>4
    <3>3. CASE N = 0 \/ N + Spare <= M
      <4>1. N = 0
        BY <1>2, <1>3, <3>2, <3>3, Sums
      <4>2. N' <= Longest
        BY <1>2, <3>1, <4>1
      <4>3. N' + Spare <= M'
        <5>1. \A n \in Nat : n <= Longest => n + Spare <= Longest + Spare
          BY <1>2
        <5> QED BY <1>2, <1>3, <3>2, <4>2, <5>1
      <4> QED BY <1>7, <2>1, <3>1, <4>1, <4>3
    <3>4. CASE stale["F10"] > 0 /\ N + Slots * U <= Still + G
      <4>1. Still' \in Nat
        BY <1>2, <2>1
      <4>2. N' + Slots' * U <= Still' + G'
        BY <1>2, <1>3, <1>4, <2>1, <3>1, <3>4, <4>1, BacklogGrows
      <4>3. ~Fresh
        BY <1>2, <3>4 DEF Fresh
      <4> QED BY <1>7, <2>1, <3>4, <4>2, <4>3
    <3> QED BY <1>6, <2>1, <3>3, <3>4
  <2> QED BY <2>3, <2>4
<1>15. CASE Abort
  <2>1. /\ Met("F10")' = Met("F10") /\ N' = N /\ G' = G
        /\ Idle("F10")' = Idle("F10") /\ seq # "done" /\ seq' # "done"
    BY <1>15, SleepWakeFrame DEF N, G, Spare, Longest, U, Ticks
  <2>2. Still' = Still /\ Slots' = Slots /\ step' = step /\ AtEnd
    BY <1>15, AbortFrame
  <2>3. \/ N' = 0
        \/ N' + Spare <= M'
        \/ stale["F10"] > 0 /\ N' + Slots' * U <= Still' + G'
    BY <1>3, <1>4, <1>20, <2>1, <2>2
  <2> QED BY <1>5, <1>7, <2>1, <2>2, <2>3
<1>16. CASE FinalPosts
  <2>1. AtEnd /\ seq' = "done"
    BY <1>16 DEF FinalPosts, AtEnd
  <2>2. Met("F10")' /\ Ending("F10")'
    BY <1>1, <1>2, <1>5, <1>16, <2>1, FinalNeeds
  <2> QED BY <1>7, <2>1, <2>2 DEF AtEnd
<1>17. CASE UNCHANGED vars
  <2>1. /\ UNCHANGED <<seq, step, left, period, sem, spc, work, released, served, stale>>
    BY <1>17 DEF vars, seqVars, history
  <2>2. /\ Met("F10")' = Met("F10") /\ N' = N /\ G' = G /\ Slots' = Slots /\ Still' = Still
        /\ AtEnd' = AtEnd /\ Idle("F10")' = Idle("F10") /\ Ending("F10")' = Ending("F10")
    BY <2>1, TightKept DEF Met, Unfinished, N, G, Need, Given, Slots, Still, AtEnd, Idle, Quiet, Ending,
                Longest, U, Ticks
  <2>3. seq # "done" => \/ N' = 0
                        \/ N' + Spare <= M'
                        \/ stale["F10"] > 0 /\ N' + Slots' * U <= Still' + G'
    BY <1>3, <1>4, <1>20, <2>1, <2>2
  <2> QED BY <1>5, <1>7, <2>1, <2>2, <2>3
<1>18. Tick => seq \in {"asleep", "done"}
  BY DEF Tick
<1> QED BY <1>8, <1>9, <1>10, <1>11, <1>12, <1>13, <1>14, <1>15, <1>16, <1>17, <1>18
        DEF Next, Sequencer, Ended

--------------------------------------------------------------------------------
(* F20, as long as no job takes longer than its C.                         *)

LEMMA NextDemand20 ==
  ASSUME Core, Feasible, Fresh \/ WorkedOff, Demand20, ~overran', [Next]_vars
  PROVE  Demand20'
<1>1. /\ TypeOK /\ work \in [Service -> Nat] /\ Positions /\ Account
      /\ TypeOK' /\ (work \in [Service -> Nat])' /\ stale' = stale
  BY NextCore, HistoryKept DEF Core
<1>2. /\ "F10" \in Service /\ "F20" \in Service /\ Service = {"F10", "F20"}
      /\ U \in Nat \ {0} /\ 2 * U \in Nat \ {0}
  BY TickFacts DEF Service
<1> DEFINE X == Need("F10", U)
           Y == Need("F20", 2 * U)
           W == Both
           S == Slots * U
           G == Given("F10") * U + Given("F20") * (2 * U)
<1>3. X \in Nat /\ X' \in Nat /\ Y \in Nat /\ Y' \in Nat
  <2>1. X \in Nat /\ Y \in Nat
    BY <1>1, <1>2, NeedType
  <2>2. /\ sem'["F10"] \in Nat /\ work'["F10"] \in Nat
        /\ sem'["F20"] \in Nat /\ work'["F20"] \in Nat
    BY <1>1, <1>2 DEF TypeOK
  <2>3. sem'["F10"] * U \in Nat /\ sem'["F20"] * (2 * U) \in Nat
    BY <1>2, <2>2, Products
  <2>4. X' = IF spc'["F10"] = "absent" THEN 0
             ELSE sem'["F10"] * U
                    + (IF spc'["F10"] = "got" THEN U
                       ELSE IF spc'["F10"] = "run" THEN work'["F10"] ELSE 0)
    BY DEF Need, U, Ticks
  <2>5. Y' = IF spc'["F20"] = "absent" THEN 0
             ELSE sem'["F20"] * (2 * U)
                    + (IF spc'["F20"] = "got" THEN 2 * U
                       ELSE IF spc'["F20"] = "run" THEN work'["F20"] ELSE 0)
    BY DEF Need, U, Ticks
  <2>6. X' \in Nat
    BY <1>2, <2>2, <2>3, <2>4
  <2>7. Y' \in Nat
    BY <1>2, <2>2, <2>3, <2>5
  <2> QED BY <2>1, <2>6, <2>7
<1>0. W = X + Y /\ W' = X' + Y' /\ W \in Nat /\ W' \in Nat
  <2>1. W = X + Y /\ W' = X' + Y'
    BY DEF Both, U, Ticks
  <2> HIDE DEF X, Y, W
  <2>2. X + Y \in Nat /\ X' + Y' \in Nat
    BY <1>3, Sums
  <2> QED BY <2>1, <2>2
<1>4. /\ step \in 1 .. 8 /\ left \in Nat /\ Still \in Nat /\ Slack[step] \in Nat
      /\ S \in Nat /\ G \in Nat
  <2>1. Given("F10") * U \in Nat /\ Given("F20") * (2 * U) \in Nat
    BY <1>1, <1>2, SupplyTypes
  <2> QED BY <1>1, <1>2, <2>1, SupplyTypes
<1>5. /\ Fresh => Met("F20")
      /\ AtEnd => Idle("F20")
      /\ seq = "done" => Ending("F20")
      /\ Fresh' = Fresh
  BY <1>1 DEF Demand20, Fresh
<1>6. Covered <=> /\ W <= Still + Slack[step]
                  /\ step = 2 => Y = 0
                  /\ step \in {3, 8} => X = 0 \/ X + U <= Still
                  /\ step = 6 => X = 0
                  /\ step = 8 => Y = 0
  BY DEF Covered
<1>7. Backlog20 <=> ~Fresh /\ W + S <= Still + G
  BY DEF Backlog20
<1>8. seq # "done" => Covered \/ Backlog20
  BY DEF Demand20
<1>9. Covered' <=> /\ W' <= Still' + Slack[step']
                   /\ step' = 2 => Y' = 0
                   /\ step' \in {3, 8} => X' = 0 \/ X' + U <= Still'
                   /\ step' = 6 => X' = 0
                   /\ step' = 8 => Y' = 0
  BY DEF Covered, U, Ticks, Slack
<1>10. Backlog20' <=> ~Fresh /\ W' + S' <= Still' + G'
  BY <1>5 DEF Backlog20, U, Ticks
<1>11. ASSUME /\ Fresh => Met("F20")'
              /\ seq' # "done" => Covered' \/ Backlog20'
              /\ AtEnd' => Idle("F20")'
              /\ seq' = "done" => Ending("F20")'
       PROVE  Demand20'
  BY <1>5, <1>11 DEF Demand20
<1> HIDE DEF X, Y, W, S, G
<1>12. ASSUME /\ Still' \in Nat /\ Still' >= Still /\ step' = step /\ Slots' = Slots
              /\ X' <= X /\ Y' <= Y /\ G' = G
       PROVE  (Covered => Covered') /\ (Backlog20 => Backlog20')
  <2>1. W' <= W /\ S' = S
    <3>1. X' + Y' <= X + Y
      BY <1>3, <1>12, Sums
    <3>2. S' = S
      BY <1>12 DEF S, U, Ticks
    <3> QED BY <1>0, <3>1, <3>2
  <2>2. ASSUME Covered PROVE Covered'
    <3>1. W' <= Still' + Slack[step']
      BY <1>0, <1>4, <1>6, <1>12, <2>1, <2>2
    <3>2. step' \in {3, 8} => X' = 0 \/ X' + U <= Still'
      <4>1. CASE X = 0
        BY <1>3, <1>12, <4>1
      <4>2. CASE X # 0
        <5>1. step \in {3, 8} => X + U <= Still
          BY <1>6, <2>2, <4>2
        <5> QED BY <1>2, <1>3, <1>4, <1>12, <5>1, Sums
      <4> QED BY <4>1, <4>2
    <3> QED BY <1>3, <1>6, <1>9, <1>12, <2>2, <3>1, <3>2
  <2>3. ASSUME Backlog20 PROVE Backlog20'
    BY <1>0, <1>4, <1>7, <1>10, <1>12, <2>1, <2>3
  <2> QED BY <2>2, <2>3
<1>13. ASSUME NEW s \in Service, ServiceStep(s) PROVE Demand20'
  <2>1. /\ UNCHANGED <<seq, step, left, period>> /\ Runs(s)
        /\ Still' = Still /\ Slots' = Slots /\ AtEnd' = AtEnd /\ G' = G
    BY <1>13, ServiceFrame DEF Still, AtEnd, Slots, G, Given, U, Ticks
  <2>2. CASE s = "F10"
    <3>1. /\ Met("F20")' = Met("F20") /\ Y' = Y
          /\ Idle("F20")' = Idle("F20") /\ Ending("F20")' = Ending("F20")
      <4>1. "F20" \in Service \ {s}
        BY <1>2, <2>2
      <4> QED BY <1>1, <1>13, <2>2, <4>1, OtherNeeds DEF Y, U, Ticks
    <3>2. CASE seq = "done"
      BY <1>5, <1>11, <2>1, <3>1, <3>2
    <3>3. CASE seq # "done"
      <4>1. ~abortTest
        BY <1>1, <2>1, <3>3 DEF Positions, Runs, SequencerIdle
      <4>2. X' <= X
        BY <1>1, <1>2, <1>13, <2>2, <4>1, ServiceNeeds, TickFacts DEF X
      <4>3. Covered' \/ Backlog20'
        BY <1>3, <1>4, <1>8, <1>12, <2>1, <3>1, <3>3, <4>2
      <4> QED BY <1>5, <1>11, <2>1, <3>1, <3>3, <4>3
    <3> QED BY <3>2, <3>3
  <2>3. CASE s = "F20" /\ seq = "done"
    <3>1. abortTest
      BY <1>1, <2>3 DEF Positions
    <3>2. (Met("F20") => Met("F20")') /\ Ending("F20")'
      BY <1>1, <1>2, <1>5, <1>13, <2>3, <3>1, ServiceEnds
    <3> QED BY <1>5, <1>11, <2>1, <2>3, <3>2 DEF AtEnd
  <2>4. CASE s = "F20" /\ seq # "done"
    <3>1. ~abortTest
      BY <1>1, <2>1, <2>4 DEF Positions, Runs, SequencerIdle
    <3>2. /\ Met("F20") => Met("F20")'
          /\ Y' <= Y
          /\ Idle("F20") => Idle("F20")'
      BY <1>1, <1>2, <1>13, <2>4, <3>1, ServiceNeeds, TickFacts DEF Y
    <3>3. X' = X
      <4>1. "F10" \in Service \ {s}
        BY <1>2, <2>4
      <4> QED BY <1>1, <1>13, <2>4, <4>1, OtherNeeds DEF X, U, Ticks
    <3>4. Covered' \/ Backlog20'
      BY <1>3, <1>4, <1>8, <1>12, <2>1, <2>4, <3>2, <3>3
    <3> QED BY <1>5, <1>11, <2>1, <2>4, <3>2, <3>4
  <2> QED BY <1>2, <2>2, <2>3, <2>4
<1>14. CASE Tick /\ seq = "asleep"
  <2>1. left > 0 /\ left' = left - 1 /\ UNCHANGED <<seq, step, period, released, stale>>
    BY <1>14 DEF Tick, history
  <2>2. /\ Met("F20") => Met("F20")'
        /\ IF X > 0
             THEN X' = X - 1 /\ Y' = Y
             ELSE /\ X' = 0
                  /\ IF Y > 0 THEN Y' = Y - 1 ELSE Y' = 0 /\ Quiet("F20")'
    BY <1>1, <1>2, <1>14, TickNeeds DEF X, Y
  <2>6. /\ X > 0 => X' = X - 1 /\ Y' = Y
        /\ X = 0 => X' = 0 /\ (Y > 0 => Y' = Y - 1) /\ (Y = 0 => Y' = 0)
    BY <1>3, <2>2
  <2>7. ~(X = 0 /\ Y = 0) => W' = W - 1
    <3>1. CASE X > 0
      <4>1. (X - 1) + Y = (X + Y) - 1
        BY <1>3, <3>1
      <4> QED BY <1>0, <2>6, <3>1, <4>1
    <3>2. CASE X = 0 /\ Y > 0
      <4>1. 0 + (Y - 1) = (0 + Y) - 1
        BY <1>3, <3>2
      <4> QED BY <1>0, <2>6, <3>2, <4>1
    <3> QED BY <1>3, <3>1, <3>2
  <2>3. Still = left /\ Still' = left - 1 /\ Slots' = Slots /\ G' = G
    BY <1>14, <2>1 DEF Still, Slots, G, Given, U, Ticks
  <2>4. Covered' \/ Backlog20'
    <3>1. CASE X = 0 /\ Y = 0
      <4>1. X' = 0 /\ Y' = 0 /\ W' = 0
        BY <1>0, <2>6, <3>1
      <4>2. 0 <= Still' + Slack[step]
        BY <1>4, <2>1, <2>3
      <4> QED BY <1>9, <2>1, <4>1, <4>2
    <3>2. CASE ~(X = 0 /\ Y = 0) /\ Covered
      <4>1. W' = W - 1 /\ W <= left + Slack[step]
        BY <1>6, <2>3, <2>7, <3>2
      <4>2. /\ step = 2 => Y' = 0
            /\ step = 6 => X' = 0
            /\ step = 8 => Y' = 0
        BY <1>3, <1>6, <2>2, <3>2
      <4>3. step \in {3, 8} => X' = 0 \/ X' + U <= left - 1
        <5>1. CASE X = 0
          BY <2>6, <5>1
        <5>2. CASE X # 0
          <6>1. X > 0 /\ (step \in {3, 8} => X + U <= left)
            BY <1>3, <1>6, <2>3, <3>2, <5>2
          <6>2. step \in {3, 8} => (X - 1) + U <= left - 1
            BY <1>2, <1>3, <1>4, <6>1, Sums
          <6> QED BY <2>6, <6>1, <6>2
        <5> QED BY <5>1, <5>2
      <4>4. W' <= Still' + Slack[step]
        BY <1>0, <1>4, <2>1, <2>3, <4>1
      <4> QED BY <1>9, <2>1, <2>3, <4>2, <4>3, <4>4
    <3>3. CASE ~(X = 0 /\ Y = 0) /\ Backlog20
      <4>1. W' = W - 1 /\ S' = S
        BY <2>3, <2>7, <3>3 DEF S
      <4> QED BY <1>0, <1>4, <1>7, <1>10, <2>1, <2>3, <3>3, <4>1
    <3> QED BY <1>8, <1>14, <3>1, <3>2, <3>3
  <2>5. AtEnd' => Idle("F20")'
    <3> SUFFICES ASSUME AtEnd' PROVE Idle("F20")'
      OBVIOUS
    <3>1. step = 8 /\ left = 1 /\ period = Periods - 1
      BY <1>4, <1>14, <2>1 DEF AtEnd
    <3>2. CASE X = 0 /\ Y = 0
      BY <2>2, <3>2 DEF Idle
    <3>3. CASE ~(X = 0 /\ Y = 0)
      <4>1. Backlog20
        <5>1. ~Covered
          BY <1>2, <1>3, <1>6, <2>3, <3>1, <3>3
        <5> QED BY <1>8, <1>14, <5>1
      <4>2. W <= 1 /\ stale["F20"] # 0
        <5>1. WorkedOff
          BY <1>7, <4>1
        <5>2. W <= 1 /\ (stale["F20"] = 0 => W < 1)
          BY <1>14, <2>3, <3>1, <4>1, <5>1, LastBacklog20 DEF W
        <5>3. W > 0
          BY <1>0, <1>3, <3>3
        <5> QED BY <1>0, <5>2, <5>3
      <4>3. Need("F20", 2 * U)' = 0
        <5>1. W' = 0
          BY <1>0, <2>7, <3>3, <4>2
        <5>2. Y' = 0
          BY <1>0, <1>3, <5>1, Sums
        <5> QED BY <5>2 DEF Y
      <4>4. stale["F20"] > 0
        <5>1. stale["F20"] \in Nat
          BY <1>1, <1>2, HardcodedAssumption DEF TypeOK
        <5> QED BY <4>2, <5>1
      <4>5. Tight("F20")
        BY <4>4 DEF Tight
      <4> QED BY <1>1, <1>2, <1>14, <4>3, <4>5, TickIdle
    <3> QED BY <3>2, <3>3
  <2> QED BY <1>5, <1>11, <1>14, <2>1, <2>2, <2>4, <2>5
<1>15. CASE Tick /\ seq = "done"
  <2>1. seq' = "done" /\ ~AtEnd'
    BY <1>15 DEF Tick, AtEnd
  <2>2. (Met("F20") => Met("F20")') /\ Ending("F20")'
    BY <1>2, <1>5, <1>15, TickEnds
  <2> QED BY <1>5, <1>11, <2>1, <2>2
<1>16. CASE Main
  <2>1. /\ (Met("F20") => Met("F20")') /\ X' <= X /\ Y' <= Y /\ G' = G
        /\ UNCHANGED <<step, left>> /\ Slots' = Slots /\ Still' = Still
        /\ seq' = "done" => seq = "done" /\ Ending("F20")' = Ending("F20")
        /\ seq' # "done" => seq # "done"
        /\ AtEnd' => AtEnd /\ Idle("F20")' = Idle("F20")
    BY <1>1, <1>2, <1>16, MainFrame DEF X, Y, G, U, Ticks
  <2>2. seq' # "done" => Covered' \/ Backlog20'
    BY <1>3, <1>4, <1>8, <1>12, <2>1
  <2> QED BY <1>5, <1>11, <2>1, <2>2
<1>17. CASE Sleep
  <2>1. /\ Met("F20")' = Met("F20") /\ X' = X /\ Y' = Y /\ G' = G
    BY <1>17, SleepWakeFrame DEF X, Y, G, U, Ticks
  <2>2. /\ Still' \in Nat /\ Still' >= Still /\ Slots' = Slots /\ ~AtEnd'
        /\ seq = "call" /\ seq' = "asleep" /\ step' = step
    BY <1>1, <1>17, SleepFrame
  <2>3. Covered' \/ Backlog20'
    BY <1>3, <1>8, <1>12, <2>1, <2>2
  <2> QED BY <1>5, <1>11, <2>1, <2>2, <2>3
<1>18. CASE Wake
  <2>1. /\ Met("F20")' = Met("F20") /\ X' = X /\ Y' = Y /\ G' = G
        /\ Idle("F20")' = Idle("F20") /\ seq # "done" /\ seq' # "done"
    BY <1>18, SleepWakeFrame DEF X, Y, G, U, Ticks
  <2>2. /\ Still = 0 /\ Still' = 0 /\ Slots' = Slots
        /\ step' = step \/ (step = 8 /\ step' = 1)
        /\ AtEnd' => AtEnd
    BY <1>1, <1>18, WakeFrame
  <2>3. Covered' \/ Backlog20'
    <3>1. CASE Backlog20
      <4>1. W' = W /\ S' = S
        BY <1>0, <2>1, <2>2 DEF S, U, Ticks
      <4> QED BY <1>7, <1>10, <2>1, <2>2, <3>1, <4>1
    <3>2. CASE Covered /\ step' = step
      BY <1>3, <1>12, <2>1, <2>2, <3>2
    <3>3. CASE Covered /\ step = 8 /\ step' = 1
      <4>1. X = 0 /\ Y = 0
        BY <1>2, <1>3, <1>6, <2>2, <3>3
      <4>2. Slack[1] = 0
        BY SupplyFacts
      <4>3. W' = 0
        BY <1>0, <2>1, <4>1
      <4> QED BY <1>9, <2>1, <2>2, <3>3, <4>1, <4>2, <4>3
    <3> QED BY <1>8, <2>1, <2>2, <3>1, <3>2, <3>3
  <2> QED BY <1>5, <1>11, <2>1, <2>2, <2>3
<1>19. CASE Post
  <2>1. /\ step \in 1 .. 7 /\ seq = "post" /\ seq' = "call" /\ step' = step + 1 /\ ~AtEnd'
        /\ Program[step].post = IF step \in {2, 5} THEN "F20" ELSE "F10"
        /\ Still = 0
        /\ Still' = IF step = 1 THEN 0 ELSE IF step \in {4, 5} THEN U ELSE 2 * U
        /\ S' = S + Still'
    BY <1>1, <1>19, PostFrame DEF S, U, Ticks
  <2>2. /\ Slack[step] = IF step \in {2, 3, 6} THEN U ELSE 0
        /\ Slack[step'] = IF step \in {1, 2, 5} THEN U ELSE 0
    BY <2>1, SupplyFacts
  <2>3. Covered => /\ W <= Slack[step]
                   /\ step = 2 => Y = 0
                   /\ step \in {3, 6} => X = 0
    BY <1>0, <1>2, <1>3, <1>4, <1>6, <2>1
  <2>4. CASE step \in {2, 5}
    <3>1. /\ Y' <= Y + 2 * U /\ X' = X
          /\ (Given("F20") * (2 * U))' = Given("F20") * (2 * U) + 2 * U
          /\ (Given("F10") * U)' = Given("F10") * U
          /\ Y = 0 => Met("F20")'
      <4>1. "F20" = Program[step].post
        BY <2>1, <2>4
      <4>2. "F10" \in Service \ {"F20"}
        BY <1>2
      <4> QED BY <1>1, <1>2, <1>19, <4>1, <4>2, PostNeeds DEF X, Y, U, Ticks
    <3>4. W' <= W + 2 * U /\ G' = G + 2 * U
      <4>1. \A y \in Nat : y <= Y + 2 * U => X + y <= (X + Y) + 2 * U
        BY <1>2, <1>3
      <4>2. /\ Given("F10") * U \in Nat /\ Given("F20") * (2 * U) \in Nat
        BY <1>1, <1>2, SupplyTypes
      <4>3. Given("F10") * U + (Given("F20") * (2 * U) + 2 * U)
              = (Given("F10") * U + Given("F20") * (2 * U)) + 2 * U
        BY <1>2, <4>2
      <4> QED BY <1>0, <1>3, <3>1, <4>1, <4>3 DEF G
    <3>2. CASE Covered
      <4>1. Y = 0 /\ X <= Slack[step] /\ W = X
        BY <1>0, <1>3, <2>2, <2>3, <2>4, <3>2
      <4>2. W' <= Still' + Slack[step']
        <5>1. \A w, z \in Nat : w <= W + 2 * U /\ W <= z => w <= z + 2 * U
          BY <1>0, <1>2
        <5>2. Slack[step] \in Nat /\ Slack[step] + 2 * U <= Still' + Slack[step']
          BY <1>2, <2>1, <2>2, <2>4
        <5>3. W' <= Slack[step] + 2 * U
          BY <1>0, <3>4, <4>1, <5>1, <5>2
        <5>4. Still' + Slack[step'] \in Nat /\ Slack[step] + 2 * U \in Nat
          BY <1>2, <2>1, <2>2, <2>4
        <5> QED BY <1>0, <5>2, <5>3, <5>4
      <4>3. step' \in {3, 8} => X' = 0 \/ X' + U <= Still'
        BY <1>2, <1>3, <2>1, <2>2, <2>4, <3>1, <4>1
      <4>4. Covered'
        BY <1>3, <1>9, <2>1, <2>2, <2>4, <3>1, <4>1, <4>2, <4>3
      <4> QED BY <1>11, <2>1, <3>1, <4>1, <4>4
    <3>3. CASE Backlog20
      <4>1. Backlog20'
        BY <1>0, <1>2, <1>4, <1>7, <1>10, <2>1, <3>3, <3>4, BacklogGrows
      <4> QED BY <1>7, <1>11, <2>1, <3>3, <4>1
    <3> QED BY <1>8, <2>1, <3>2, <3>3
  <2>5. CASE step \notin {2, 5}
    <3>1. /\ X' <= X + U /\ Y' = Y
          /\ (Given("F10") * U)' = Given("F10") * U + U
          /\ (Given("F20") * (2 * U))' = Given("F20") * (2 * U)
          /\ Met("F20")' = Met("F20")
      <4>1. "F10" = Program[step].post
        BY <2>1, <2>5
      <4>2. "F20" \in Service \ {"F10"}
        BY <1>2
      <4> QED BY <1>1, <1>2, <1>19, <4>1, <4>2, PostNeeds DEF X, Y, U, Ticks
    <3>4. W' <= W + U /\ G' = G + U
      <4>1. \A x \in Nat : x <= X + U => x + Y <= (X + Y) + U
        BY <1>2, <1>3
      <4>2. /\ Given("F10") * U \in Nat /\ Given("F20") * (2 * U) \in Nat
        BY <1>1, <1>2, SupplyTypes
      <4>3. (Given("F10") * U + U) + Given("F20") * (2 * U)
              = (Given("F10") * U + Given("F20") * (2 * U)) + U
        BY <1>2, <4>2
      <4> QED BY <1>0, <1>3, <3>1, <4>1, <4>3 DEF G
    <3>2. CASE Covered
      <4>1. X = 0 /\ Y <= Slack[step] /\ W = Y
        BY <1>0, <1>3, <2>2, <2>3, <2>5, <3>2
      <4>2. W' <= Still' + Slack[step']
        <5>1. \A w, z \in Nat : w <= W + U /\ W <= z => w <= z + U
          BY <1>0, <1>2
        <5>2. Slack[step] \in Nat /\ Slack[step] + U <= Still' + Slack[step']
          BY <1>2, <2>1, <2>2, <2>5
        <5>3. W' <= Slack[step] + U
          BY <1>0, <3>4, <4>1, <5>1, <5>2
        <5>4. Still' + Slack[step'] \in Nat /\ Slack[step] + U \in Nat
          BY <1>2, <2>1, <2>2, <2>5
        <5> QED BY <1>0, <5>2, <5>3, <5>4
      <4>3. step' \in {3, 8} => X' = 0 \/ X' + U <= Still'
        <5>1. X' <= U
          BY <1>2, <3>1, <4>1
        <5>2. \A x \in Nat : x <= U => x + U <= 2 * U
          BY <1>2
        <5>3. step' \in {3, 8} => Still' = 2 * U
          BY <2>1, <2>5
        <5> QED BY <1>3, <5>1, <5>2, <5>3
      <4>4. step = 1 \/ step = 7 => Y' = 0
        BY <1>3, <2>2, <3>1, <4>1
      <4>5. Covered'
        BY <1>3, <1>9, <2>1, <2>5, <3>1, <4>2, <4>3, <4>4
      <4> QED BY <1>5, <1>11, <2>1, <3>1, <4>5
    <3>3. CASE Backlog20
      <4>1. Backlog20'
        BY <1>0, <1>2, <1>4, <1>7, <1>10, <2>1, <3>3, <3>4, BacklogGrows
      <4> QED BY <1>5, <1>11, <2>1, <3>1, <4>1
    <3> QED BY <1>8, <2>1, <3>2, <3>3
  <2> QED BY <2>4, <2>5
<1>20. CASE Abort
  <2>1. /\ Met("F20")' = Met("F20") /\ X' = X /\ Y' = Y /\ G' = G
        /\ Idle("F20")' = Idle("F20") /\ seq # "done" /\ seq' # "done"
    BY <1>20, SleepWakeFrame DEF X, Y, G, U, Ticks
  <2>2. Still' = Still /\ Slots' = Slots /\ step' = step /\ AtEnd
    BY <1>20, AbortFrame
  <2>3. Covered' \/ Backlog20'
    BY <1>3, <1>4, <1>8, <1>12, <2>1, <2>2
  <2> QED BY <1>5, <1>11, <2>1, <2>2, <2>3
<1>21. CASE FinalPosts
  <2>1. AtEnd /\ seq' = "done"
    BY <1>21 DEF FinalPosts, AtEnd
  <2>2. Met("F20")' /\ Ending("F20")'
    BY <1>1, <1>2, <1>5, <1>21, <2>1, FinalNeeds
  <2> QED BY <1>11, <2>1, <2>2 DEF AtEnd
<1>22. CASE UNCHANGED vars
  <2>1. /\ UNCHANGED <<seq, step, left, period, sem, spc, work, released, served, stale>>
    BY <1>22 DEF vars, seqVars, history
  <2>2. /\ Met("F20")' = Met("F20") /\ X' = X /\ Y' = Y /\ G' = G
        /\ Slots' = Slots /\ Still' = Still
        /\ AtEnd' = AtEnd /\ Idle("F20")' = Idle("F20") /\ Ending("F20")' = Ending("F20")
    BY <2>1, TightKept DEF Met, Unfinished, X, Y, G, Need, Given, Slots, Still, AtEnd, Idle, Quiet,
                Ending, U, Ticks
  <2>3. seq # "done" => Covered' \/ Backlog20'
    BY <1>3, <1>4, <1>8, <1>12, <2>1, <2>2
  <2> QED BY <1>5, <1>11, <2>1, <2>2, <2>3
<1>23. Tick => seq \in {"asleep", "done"}
  BY DEF Tick
<1> QED BY <1>13, <1>14, <1>15, <1>16, <1>17, <1>18, <1>19, <1>20, <1>21, <1>22, <1>23
        DEF Next, Sequencer, Ended

--------------------------------------------------------------------------------
(* The theorems of the deadlines.                                          *)

\* The inductive invariant holds at first, and no step breaks it.
THEOREM Inductive ==
  /\ Init => IInv
  /\ IInv /\ [Next]_vars => IInv'
<1>1. ASSUME Init PROVE IInv
  <2>1. Core
    BY <1>1, InitCore
  <2>2. /\ "F10" \in Service /\ "F20" \in Service
        /\ U \in Nat /\ 2 * U \in Nat /\ Longest \in Nat
    BY TickFacts, SupplyFacts DEF Service
  <2>3. /\ seq = "none" /\ step = 1 /\ left = 0 /\ period = 0
        /\ sem = stale /\ spc = [s \in Service |-> "none"]
        /\ released = [s \in Service |-> 0] /\ stale \in [Service -> Nat]
    BY <1>1, HardcodedAssumption DEF Init
  <2>4. /\ Still = 0 /\ Slots = 0 /\ ~AtEnd
    BY <2>3, SupplyFacts DEF Still, Slots, AtEnd
  <2>5. ASSUME NEW s \in Service, NEW c \in Nat
        PROVE  /\ Need(s, c) = Given(s) * c /\ Given(s) * c \in Nat
               /\ Fresh => Met(s) /\ Need(s, c) = 0
    <3>1. Given(s) = stale[s] /\ sem[s] = stale[s] /\ spc[s] = "none"
      BY <2>3 DEF Given
    <3>2. stale[s] * c \in Nat /\ 0 * c = 0
      BY <2>3, Products
    <3>3. Need(s, c) = Given(s) * c
      BY <3>1, <3>2 DEF Need
    <3>4. Fresh => sem[s] = 0
      BY <3>1 DEF Fresh
    <3>5. Fresh => Met(s)
      BY <3>1, <3>4 DEF Met, Unfinished
    <3> QED BY <3>1, <3>2, <3>3, <3>4, <3>5 DEF Fresh
  <2>6. 0 * U = 0
    BY <2>2
  <2>7. Demand10
    <3>1. CASE stale["F10"] = 0
      <4>1. Need("F10", Longest) = 0
        <5>1. Given("F10") = 0 /\ 0 * Longest = 0
          BY <2>2, <2>3, <3>1 DEF Given
        <5> QED BY <2>2, <2>5, <5>1
      <4> QED BY <2>2, <2>3, <2>4, <2>5, <4>1 DEF Demand10
    <3>2. CASE stale["F10"] # 0
      <4>1. Backlog10
        BY <2>2, <2>3, <2>4, <2>5, <2>6, <3>2 DEF Backlog10
      <4>2. ~Fresh
        BY <2>2, <3>2 DEF Fresh
      <4> QED BY <2>3, <2>4, <4>1, <4>2 DEF Demand10
    <3> QED BY <3>1, <3>2
  <2>8. Demand20
    <3>1. CASE Fresh
      <4>1. Need("F10", U) = 0 /\ Need("F20", 2 * U) = 0
        BY <2>2, <2>5, <3>1
      <4>2. Slack[1] = 0
        BY SupplyFacts
      <4>3. Covered
        BY <2>3, <2>4, <4>1, <4>2 DEF Covered, Both
      <4> QED BY <2>2, <2>3, <2>4, <2>5, <3>1, <4>3 DEF Demand20
    <3>2. CASE ~Fresh
      <4>1. /\ Need("F10", U) = Given("F10") * U /\ Given("F10") * U \in Nat
            /\ Need("F20", 2 * U) = Given("F20") * (2 * U) /\ Given("F20") * (2 * U) \in Nat
        BY <2>2, <2>5
      <4>2. Backlog20
        BY <2>4, <2>6, <3>2, <4>1, Sums DEF Backlog20, Both
      <4> QED BY <2>3, <2>4, <3>2, <4>2 DEF Demand20
    <3> QED BY <3>1, <3>2
  <2> QED BY <2>1, <2>7, <2>8 DEF IInv, Core, Schedulable
<1>2. ASSUME IInv, [Next]_vars PROVE IInv'
  <2>1. Core /\ Core'
    BY <1>2, NextCore DEF IInv, Core
  <2>2. stale' = stale /\ (overran => overran')
    BY <1>2, HistoryKept
  <2>3. ASSUME Feasible, (Fresh \/ WorkedOff)' PROVE Demand10' /\ (~overran' => Demand20')
    <3>1. Fresh \/ WorkedOff
      BY <2>2, <2>3 DEF Fresh, WorkedOff, Spare, Longest, U, Ticks
    <3>2. Demand10 /\ (~overran => Demand20)
      BY <1>2, <2>3, <3>1 DEF IInv, Schedulable
    <3>3. Demand10'
      BY <1>2, <2>1, <2>3, <3>1, <3>2, NextDemand10
    <3>4. ASSUME ~overran' PROVE Demand20'
      <4>1. Demand20
        BY <2>2, <3>2, <3>4, Zenon
      <4> QED BY <1>2, <2>1, <2>3, <3>1, <3>4, <4>1, NextDemand20
    <3> QED BY <3>3, <3>4
  <2>4. Schedulable'
    BY <2>3 DEF Schedulable, Feasible, Ticks, C, T, Service
  <2> QED BY <2>1, <2>4 DEF IInv, Core
<1> QED BY <1>1, <1>2

THEOREM Invariance == Spec => []IInv
  BY Inductive, PTL DEF Spec

(* The two services are schedulable at 90% load: from the critical instant *)
(* at which both are released, and at whatever moments their jobs and the  *)
(* sleeps end, the work of a release is done before the next one.  A job   *)
(* that takes longer than its C makes no difference to F10, as long as it  *)
(* ends before the next release of F10.                                    *)
THEOREM DeadlinesAlwaysMet ==
  ASSUME Feasible
  PROVE  Spec => []DeadlinesMet
<1>1. IInv => DeadlinesMet
  BY DEF IInv, Schedulable, Demand10, Demand20, DeadlinesMet
<1> QED BY <1>1, Invariance, PTL

(* A service that ends has done every job it was ever given a token for,   *)
(* the tokens of earlier programs included, if the program is long enough  *)
(* to work these off besides its own: the token of the final posts is not  *)
(* done as a job, and abortTest drops none.                                *)
THEOREM EveryJobServed ==
  ASSUME Feasible, WorkedOff
  PROVE  Spec => []AllServed
<1>1. ASSUME IInv PROVE AllServed
  <2> SUFFICES ASSUME NEW s \in Service, spc[s] = "exited", s = "F20" => ~overran
               PROVE  served[s] = released[s] + stale[s] /\ sem[s] <= stale[s]
    BY DEF AllServed
  <2>1. seq = "done"
    BY <1>1 DEF IInv, Positions
  <2>2. Demand10 /\ (s = "F20" => Demand20)
    BY <1>1 DEF IInv, Schedulable
  <2>3. Ending(s)
    BY <2>1, <2>2 DEF Demand10, Demand20, Service
  <2>4. stale[s] \in Nat
    BY <1>1, HardcodedAssumption DEF IInv, TypeOK
  <2> QED BY <2>3, <2>4 DEF Ending, Given, Tight, WorkedOff
<1> QED BY <1>1, Invariance, PTL
================================================================================
