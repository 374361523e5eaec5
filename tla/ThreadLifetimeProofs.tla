-------------------------- MODULE ThreadLifetimeProofs --------------------------
(* Proofs about ThreadLifetime, for any number of threads.                 *)
EXTENDS ThreadLifetime, TLAPS

Shape == [threads : Nat \ {0}, starter : BOOLEAN, joiner : Actors,
          failure : {"exit", "throw", "ignored"}, owns : BOOLEAN,
          reverse : BOOLEAN, named : BOOLEAN, waits : BOOLEAN]

\* What the programs have in common.
LEMMA ProgramFacts ==
  ASSUME NEW p \in Programs
  PROVE  /\ p \in Shape
         /\ p.joiner = "starter" => p.starter
         /\ p.starter => p.failure # "exit"
         /\ p.starter /\ p.failure = "ignored" => p.joiner = "starter"
<1>1. /\ SimpleThreadC \in Shape
      /\ SimpleThreadC.joiner = "main" /\ ~SimpleThreadC.starter
  BY NThreadsAssumption DEF SimpleThreadC, Shape, Actors
<1> DEFINE OwnMain(q) == q \in Shape /\ q.joiner = "main" /\ ~q.starter
<1>2. /\ OwnMain(SimpleThreadCpp) /\ OwnMain(RtSimpleC) /\ OwnMain(RtSimpleCpp)
      /\ OwnMain(Assignment1) /\ OwnMain(HardcodedCpp)
  <2>1. OwnMain(SimpleThreadCpp)
    BY <1>1 DEF SimpleThreadCpp, Shape
  <2>2. OwnMain(RtSimpleC)
    BY <1>1 DEF RtSimpleC, Shape
  <2>3. OwnMain(RtSimpleCpp)
    BY <1>1 DEF RtSimpleCpp, Shape
  <2>4. OwnMain(Assignment1)
    <3>1. 1 \in Nat \ {0}
      OBVIOUS
    <3> HIDE DEF OwnMain
    <3> QED BY <1>1, <3>1 DEF Assignment1, Shape, OwnMain
  <2>5. OwnMain(HardcodedCpp)
    <3>1. 3 \in Nat \ {0}
      OBVIOUS
    <3> HIDE DEF OwnMain
    <3> QED BY <1>1, <3>1 DEF HardcodedCpp, Shape, OwnMain
  <2> QED BY <2>1, <2>2, <2>3, <2>4, <2>5
<1>3. AffinityC \in Shape /\ AffinityC.joiner = "starter" /\ AffinityC.starter
      /\ AffinityC.failure = "ignored"
  BY <1>1 DEF AffinityC, Shape, Actors
<1>4. AffinityCpp \in Shape /\ AffinityCpp.joiner = "main" /\ AffinityCpp.starter
      /\ AffinityCpp.failure = "throw"
  BY <1>1 DEF AffinityCpp, Shape
<1> QED BY <1>1, <1>2, <1>3, <1>4 DEF Programs

--------------------------------------------------------------------------------

\* Where main and the starter can be at the same time.
Positions ==
  IF prog.starter
    THEN \/ pc["main"] = "start" /\ pc["starter"] = "none"
         \/ /\ pc["main"] = "joinStarter"
            /\ pc["starter"] \in {"create", "join", "exited", "absent"}
         \/ pc["main"] \in {"join", "end"} /\ pc["starter"] = "joined"
         \/ pc["main"] = "end" /\ pc["starter"] = "absent"
    ELSE pc["main"] \in {"create", "join", "end"} /\ pc["starter"] = "none"

\* What has been created and joined by then.
Progress ==
  /\ pc[Creator] \in {"none", "absent"} => made = 0
  /\ pc[Creator] \in {"none", "absent", "create"} => joins = 0
  /\ pc[Creator] \in {"join", "exited", "joined", "end"} => made = prog.threads
  /\ pc[prog.joiner] \in {"none", "start", "create", "joinStarter"} => joins = 0
  /\ pc[prog.joiner] \in {"exited", "joined", "end"} => joins = prog.threads
  /\ pc["starter"] = "join" => prog.joiner = "starter"
  /\ pc["main"] = "join" => prog.joiner = "main"
  /\ pc["starter"] = "absent" => prog.failure = "ignored"
  /\ proc = "over" => pc["main"] = "end"

\* The workers that a join has been called for.
Called(t) == IF prog.reverse THEN t > prog.threads - joins ELSE t <= joins

Workers ==
  \A t \in Worker :
    /\ tpc[t] = "none" <=> t > made
    /\ tpc[t] = "absent" => prog.failure = "ignored"
    /\ Called(t) => tpc[t] \in {"joined", "absent"}

ArgAlive == \A t \in Worker : proc # "over" /\ Running(t) => arg[t] = "alive"

IInv == TypeOK /\ Positions /\ Progress /\ Workers /\ ArgAlive

--------------------------------------------------------------------------------

LEMMA InitIInv == Init => IInv
<1> SUFFICES ASSUME Init PROVE IInv
  OBVIOUS
<1>1. prog.threads \in Nat \ {0} /\ prog.starter \in BOOLEAN
      /\ prog.joiner \in Actors /\ (prog.joiner = "starter" => prog.starter)
  BY ProgramFacts DEF Init, Shape
<1>2. TypeOK
  BY <1>1 DEF Init, TypeOK, Labels, Actors
<1>3. Positions /\ Progress
  BY <1>1 DEF Init, Positions, Progress, Creator, Actors
<1>4. Workers /\ ArgAlive
  BY <1>1 DEF Init, Workers, ArgAlive, Running, Called, Worker
<1> QED BY <1>2, <1>3, <1>4 DEF IInv

LEMMA StarterKeepsIInv == IInv /\ StarterStep => IInv'
<1> SUFFICES ASSUME IInv, StarterStep PROVE IInv'
  OBVIOUS
<1>1. /\ prog.threads \in Nat \ {0} /\ prog.starter \in BOOLEAN
      /\ prog.joiner \in Actors /\ (prog.joiner = "starter" => prog.starter)
      /\ prog.failure \in {"exit", "throw", "ignored"}
      /\ prog.starter => prog.failure # "exit"
      /\ prog.starter /\ prog.failure = "ignored" => prog.joiner = "starter"
  BY ProgramFacts DEF IInv, TypeOK, Shape
<1>2. UNCHANGED <<prog, made, tpc, arg, joins>>
  BY DEF StarterStep, CreateStarter, StarterFails, JoinStarter, JoinAbsentStarter
<1>3. (proc' = "over" <=> proc = "over") /\ proc = "up"
  BY DEF StarterStep, CreateStarter, StarterFails, JoinStarter, JoinAbsentStarter, At
<1>4. TypeOK'
  BY <1>2 DEF StarterStep, CreateStarter, StarterFails, JoinStarter,
              JoinAbsentStarter, Goto, IInv, TypeOK, Labels, Actors, Worker
<1>5. Positions' /\ Progress'
  <2>1. prog.starter /\ pc \in [Actors -> Labels]
    BY <1>1 DEF StarterStep, CreateStarter, StarterFails, JoinStarter,
                JoinAbsentStarter, At, IInv, TypeOK, Positions
  <2>2. CASE CreateStarter
    BY <1>1, <1>2, <1>3, <2>1, <2>2
       DEF CreateStarter, At, IInv, Positions, Progress, Creator, Actors
  <2>3. CASE StarterFails
    BY <1>1, <1>2, <1>3, <2>1, <2>3
       DEF StarterFails, At, IInv, Positions, Progress, Creator, Actors
  <2>4. CASE JoinStarter
    BY <1>1, <1>2, <1>3, <2>1, <2>4
       DEF JoinStarter, At, IInv, Positions, Progress, Creator, Actors
  <2>5. CASE JoinAbsentStarter
    BY <1>1, <1>2, <1>3, <2>1, <2>5
       DEF JoinAbsentStarter, At, Goto, IInv, Positions, Progress, Creator, Actors
  <2> QED BY <2>2, <2>3, <2>4, <2>5 DEF StarterStep
<1>6. Workers' /\ ArgAlive'
  BY <1>2, <1>3 DEF IInv, Workers, ArgAlive, Running, Called, Worker
<1> QED BY <1>4, <1>5, <1>6 DEF IInv

LEMMA CreateKeepsIInv == IInv /\ CreateStep => IInv'
<1> SUFFICES ASSUME IInv, CreateStep PROVE IInv'
  OBVIOUS
<1>1. /\ prog.threads \in Nat \ {0} /\ prog.starter \in BOOLEAN
      /\ prog.reverse \in BOOLEAN
      /\ prog.joiner \in Actors /\ (prog.joiner = "starter" => prog.starter)
      /\ prog.failure \in {"exit", "throw", "ignored"}
  BY ProgramFacts DEF IInv, TypeOK, Shape
<1>2. UNCHANGED <<prog, joins>> /\ At(Creator, "create") /\ joins = 0 /\ proc' # "over"
  BY DEF CreateStep, Create, CreateFails, NamingFails, AllCreated, At, IInv, Progress
<1>3. CASE Create \/ CreateFails \/ NamingFails
  <2>1. pc' = pc
    BY <1>3 DEF Create, CreateFails, NamingFails
  <2>2. \/ /\ made < prog.threads /\ made' = made + 1
           /\ \/ /\ tpc' = [tpc EXCEPT ![made'] = "running"]
                 /\ arg' = [arg EXCEPT ![made'] = "alive"]
              \/ /\ prog.failure = "ignored"
                 /\ tpc' = [tpc EXCEPT ![made'] = "absent"]
                 /\ arg' = arg
        \/ UNCHANGED <<made, tpc, arg>>
    BY <1>3 DEF Create, CreateFails, NamingFails
  <2>3. proc' \in {"up", "exited", "terminated"}
    BY <1>3 DEF Create, CreateFails, NamingFails, At
  <2>4. TypeOK'
    BY <1>1, <1>2, <2>1, <2>2, <2>3 DEF IInv, TypeOK, Worker
  <2>5. Positions' /\ Progress'
    BY <1>1, <1>2, <2>1, <2>2, <2>3
       DEF IInv, TypeOK, Positions, Progress, Creator, At, Actors
  <2>6. Workers'
    BY <1>1, <1>2, <2>2 DEF IInv, TypeOK, Workers, Called, Worker
  <2>7. ArgAlive'
    BY <1>1, <1>2, <2>2 DEF IInv, TypeOK, ArgAlive, Running, Worker, At
  <2> QED BY <2>4, <2>5, <2>6, <2>7 DEF IInv
<1>4. CASE AllCreated
  <2>1. TypeOK'
    BY <1>4 DEF AllCreated, Goto, IInv, TypeOK, Labels, Actors, Worker, Creator
  <2>2. Positions' /\ Progress'
    BY <1>1, <1>2, <1>4
       DEF AllCreated, Goto, At, IInv, TypeOK, Positions, Progress, Creator, Actors
  <2>3. Workers' /\ ArgAlive'
    BY <1>4 DEF AllCreated, IInv, Workers, ArgAlive, Running, Called, Worker
  <2> QED BY <2>1, <2>2, <2>3 DEF IInv
<1> QED BY <1>3, <1>4 DEF CreateStep

LEMMA JoinKeepsIInv == IInv /\ JoinStep => IInv'
<1> SUFFICES ASSUME IInv, JoinStep PROVE IInv'
  OBVIOUS
<1>1. /\ prog.threads \in Nat \ {0} /\ prog.starter \in BOOLEAN
      /\ prog.reverse \in BOOLEAN
      /\ prog.joiner \in Actors /\ (prog.joiner = "starter" => prog.starter)
  BY ProgramFacts DEF IInv, TypeOK, Shape
<1>2. UNCHANGED <<prog, made>> /\ At(prog.joiner, "join") /\ made = prog.threads
  BY <1>1 DEF JoinStep, Join, JoinAbsent, AllJoined, At, IInv, Progress, Positions,
              Creator, Actors
<1>3. CASE Join \/ JoinAbsent
  <2>1. /\ pc' = pc /\ joins < prog.threads
        /\ proc' \in {"up", "crashed"}
    BY <1>3 DEF Join, JoinAbsent, At
  <2>2. \/ UNCHANGED <<joins, tpc, arg>>
        \/ /\ joins' = joins + 1 /\ tpc[Joinee] = "absent"
           /\ UNCHANGED <<tpc, arg>>
        \/ /\ joins' = joins + 1 /\ tpc[Joinee] = "exited"
           /\ tpc' = [tpc EXCEPT ![Joinee] = "joined"]
           /\ arg' = arg \/ arg' = [arg EXCEPT ![Joinee] = "freed"]
    BY <1>3 DEF Join, JoinAbsent
  <2>3. Joinee \in Worker
    BY <1>1, <2>1 DEF Joinee, Worker, IInv, TypeOK
  <2>4. TypeOK'
    BY <1>1, <1>2, <2>1, <2>2, <2>3 DEF IInv, TypeOK, Worker
  <2>5. Positions' /\ Progress'
    BY <1>1, <1>2, <2>1, <2>2 DEF IInv, TypeOK, Positions, Progress, Creator, At, Actors
  <2>6. Workers'
    BY <1>1, <1>2, <2>1, <2>2, <2>3
       DEF IInv, TypeOK, Workers, Called, Worker, Joinee
  <2>7. ArgAlive'
    BY <1>2, <2>1, <2>2, <2>3 DEF IInv, TypeOK, ArgAlive, Running, Worker, At
  <2> QED BY <2>4, <2>5, <2>6, <2>7 DEF IInv
<1>4. CASE AllJoined
  <2>1. TypeOK'
    BY <1>4 DEF AllJoined, Goto, IInv, TypeOK, Labels, Actors, Worker
  <2>2. Positions' /\ Progress'
    BY <1>1, <1>2, <1>4
       DEF AllJoined, Goto, At, IInv, TypeOK, Positions, Progress, Creator, Actors
  <2>3. Workers' /\ ArgAlive'
    BY <1>4 DEF AllJoined, IInv, Workers, ArgAlive, Running, Called, Worker
  <2> QED BY <2>1, <2>2, <2>3 DEF IInv
<1> QED BY <1>3, <1>4 DEF JoinStep

LEMMA WorkersKeepIInv ==
  IInv /\ (Abort \/ \E t \in Worker : Exit(t)) => IInv'
<1> SUFFICES ASSUME IInv, Abort \/ \E t \in Worker : Exit(t) PROVE IInv'
  OBVIOUS
<1>1. prog.threads \in Nat \ {0}
  BY ProgramFacts DEF IInv, TypeOK, Shape
<1>2. /\ UNCHANGED <<prog, pc, made, arg, joins, proc>> /\ proc = "up"
      /\ \E t \in Worker :
           /\ tpc[t] \in {"running", "ending"}
           /\ \/ tpc[t] = "running" /\ tpc' = [tpc EXCEPT ![t] = "ending"]
              \/ tpc' = [tpc EXCEPT ![t] = "exited"]
  BY <1>1 DEF Abort, Exit, MayExit, Worker
<1>3. TypeOK'
  BY <1>2 DEF IInv, TypeOK, Worker
<1>4. Positions' /\ Progress'
  BY <1>2 DEF IInv, Positions, Progress, Creator
<1>5. Workers' /\ ArgAlive'
  BY <1>2 DEF IInv, TypeOK, Workers, ArgAlive, Running, Called, Worker
<1> QED BY <1>3, <1>4, <1>5 DEF IInv

LEMMA EndKeepsIInv == IInv /\ End => IInv'
<1> SUFFICES ASSUME IInv, End PROVE IInv'
  OBVIOUS
<1>1. TypeOK'
  BY DEF End, IInv, TypeOK, Worker
<1>2. Positions' /\ Progress'
  BY DEF End, At, IInv, Positions, Progress, Creator
<1>3. Workers' /\ ArgAlive'
  BY DEF End, IInv, Workers, ArgAlive, Running, Called, Worker
<1> QED BY <1>1, <1>2, <1>3 DEF IInv

THEOREM Inductive == IInv /\ [Next]_vars => IInv'
<1> SUFFICES ASSUME IInv, [Next]_vars PROVE IInv'
  OBVIOUS
<1>1. CASE UNCHANGED vars
  BY <1>1 DEF vars, IInv, TypeOK, Positions, Progress, Workers, ArgAlive, Running,
              Creator, Called, Worker
<1>2. CASE Next
  BY <1>2, StarterKeepsIInv, CreateKeepsIInv, JoinKeepsIInv, WorkersKeepIInv,
     EndKeepsIInv DEF Next
<1> QED BY <1>1, <1>2

THEOREM Invariance == Spec => []IInv
BY InitIInv, Inductive, PTL DEF Spec

--------------------------------------------------------------------------------

(* The type invariant, for any number of threads.                          *)
THEOREM TypeCorrect == Spec => []TypeOK
<1>1. IInv => TypeOK
  BY DEF IInv
<1> QED BY <1>1, Invariance, PTL

(* No thread of any of the programs runs on a freed parameter or model, and *)
(* no starter on a vector that main destroys.                              *)
THEOREM StorageOutlives == Spec => []StorageOutlivesThreads
<1>1. IInv => StorageOutlivesThreads
  <2> SUFFICES ASSUME IInv PROVE StorageOutlivesThreads
    OBVIOUS
  <2>1. prog.starter \in BOOLEAN
    BY ProgramFacts DEF IInv, TypeOK, Shape
  <2>2. pc["starter"] = "create" => joins = 0 /\ pc["main"] = "joinStarter"
    BY <2>1 DEF IInv, Positions, Progress, Creator
  <2>3. joins > 0 \/ pc["main"] \in {"join", "end"} => pc["starter"] # "create"
    <3> SUFFICES ASSUME pc["starter"] = "create",
                        joins > 0 \/ pc["main"] \in {"join", "end"}
                 PROVE  FALSE
      OBVIOUS
    <3>1. joins = 0
      BY <2>2
    <3>2. pc["main"] = "joinStarter"
      BY <2>2
    <3> QED BY <3>1, <3>2
  <2>4. \A t \in Worker : proc # "over" /\ Running(t) => arg[t] = "alive"
    BY DEF IInv, ArgAlive
  <2> QED BY <2>3, <2>4 DEF StorageOutlivesThreads
<1> QED BY <1>1, Invariance, PTL

(* A program that ends by itself has joined all of its threads, but for    *)
(* those that could not be created and that nobody missed.                 *)
THEOREM NoThreadCutOff == Spec => []NoneCutOff
<1>1. ASSUME IInv, proc = "over" PROVE NoneCutOff
  <2>1. prog.threads \in Nat \ {0} /\ prog.starter \in BOOLEAN
        /\ prog.reverse \in BOOLEAN
        /\ prog.joiner \in Actors /\ (prog.joiner = "starter" => prog.starter)
        /\ (prog.starter /\ prog.failure = "ignored" => prog.joiner = "starter")
    BY <1>1, ProgramFacts DEF IInv, TypeOK, Shape
  <2>2. CASE prog.starter /\ pc["starter"] = "absent"
    <3>1. made = 0 /\ prog.failure = "ignored"
      BY <1>1, <2>2 DEF IInv, Progress, Creator
    <3>2. \A t \in Worker : tpc[t] = "none"
      BY <2>1, <1>1, <3>1 DEF IInv, Workers, Worker
    <3> QED BY <2>2, <3>1, <3>2 DEF NoneCutOff
  <2>3. CASE ~(prog.starter /\ pc["starter"] = "absent")
    <3>1. joins = prog.threads /\ (prog.starter => pc["starter"] = "joined")
      BY <1>1, <2>1, <2>3 DEF IInv, Positions, Progress, Creator, Actors
    <3>2. \A t \in Worker : tpc[t] \in {"joined", "absent"}
      BY <1>1, <2>1, <3>1 DEF IInv, Workers, Called, Worker
    <3> QED BY <1>1, <3>1, <3>2 DEF NoneCutOff, IInv, Workers
  <2> QED BY <2>2, <2>3
<1>2. IInv => NoneCutOff
  BY <1>1 DEF NoneCutOff
<1> QED BY <1>2, Invariance, PTL
================================================================================
