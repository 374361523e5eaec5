------------------------- MODULE ModuloSequencerProofs --------------------------
(***************************************************************************)
(* Theorems about ModuloSequencer for any number of services and any       *)
(* tables: divisors, periods, priorities, cores, and which services are    *)
(* released at all.  Any number of threads may fail to be created.         *)
(***************************************************************************)
EXTENDS ModuloSequencer, FiniteSetTheorems, TLAPS

--------------------------------------------------------------------------------
(* Products and remainders.                                                *)

LEMMA ProductMonotonic ==
  ASSUME NEW a \in Int, NEW b \in Int, NEW d \in Nat \ {0}, a * d < b * d
  PROVE  a < b
  BY Z3

LEMMA NextMultiple ==
  ASSUME NEW a \in Int, NEW d \in Nat \ {0}
  PROVE  (a + 1) * d = a * d + d
  BY Z3

LEMMA RemainderOfMultiple ==
  ASSUME NEW a \in Nat, NEW d \in Nat \ {0}
  PROVE  (a * d) % d = 0
  BY Z3

\* The only multiple of d less than d below a multiple of d is that one.
LEMMA DueAtNextMultiple ==
  ASSUME NEW c \in Nat, NEW a \in Nat, NEW d \in Nat \ {0},
         c % d = 0, c <= a * d, a * d < c + d
  PROVE  c = a * d
<1> DEFINE k == c \div d
<1>1. k \in Nat /\ c % d = c - k * d
  BY Z3
<1> HIDE DEF k
<1>2. k * d = c
  BY <1>1
<1>3. a < k + 1
  <2>1. a * d < (k + 1) * d
    BY <1>1, <1>2, NextMultiple
  <2> QED BY <1>1, <2>1, ProductMonotonic
<1>4. ~(k > a)
  <2> SUFFICES ASSUME k > a PROVE FALSE
    OBVIOUS
  <2>1. k = a \/ k < a
    BY <1>1, <1>3
  <2> QED BY <1>1, <2>1
<1>5. CASE k = a
  BY <1>2, <1>5
<1>6. CASE k < a
  BY <1>1, <1>2, <1>3, <1>6
<1> QED BY <1>1, <1>4, <1>5, <1>6

--------------------------------------------------------------------------------
(* The inductive invariant.                                                *)

\* Main works through the threads in their order, before the Sequencer runs,
\* and the Sequencer through the services, starting over at the first.
Positions ==
  /\ mpc = "setup" => mi = 1
  /\ mpc = "create" => mi \in 1 .. N + 1
  /\ mpc \in {"join", "complete"} => mi \in 0 .. N
  /\ mpc \in {"setup", "create"} =>
       spc = "none" /\ \A s \in Service : s >= mi => wpc[s] = "none"
  /\ spc \notin {"release", "post", "flag"} => si = 1

\* The loops counted, and where in the loop body they are.
Loops ==
  /\ spc \in {"none", "absent"} => seqCnt = 0
  /\ spc = "sleep" => seqCnt < T.periods
  /\ spc \in {"release", "next"} =>
       IF T.countFirst THEN seqCnt \in 1 .. T.periods ELSE seqCnt < T.periods

\* The loop that releases s next.
NextDue(s) == LoopOf(prog, s, posted[s])

\* The line of s has been executed for the loop that seqCnt stands for.
Passed(s) ==
  IF T.countFirst THEN spc = "release" => s < si
                  ELSE spc = "next" \/ (spc = "release" /\ s < si)

\* The next release of s is the first multiple of its divisor still to come.
OnSchedule ==
  \A s \in T.posting :
    IF Passed(s) THEN seqCnt < NextDue(s) /\ NextDue(s) <= seqCnt + T.div[s]
                 ELSE seqCnt <= NextDue(s) /\ NextDue(s) < seqCnt + T.div[s]

IInv == TypeOK /\ Positions /\ Loops /\ TokensAccounted /\ OnSchedule

\* What the tables of the running program are made of.
LEMMA TableTypes ==
  ASSUME prog \in DOMAIN Table
  PROVE  /\ T.div \in [Service -> Nat \ {0}]
         /\ T.posting \subseteq Service
         /\ T.countFirst \in BOOLEAN
         /\ T.periods \in Nat \ {0}
  BY TablesAssumption DEF T

\* How the next due loop moves when a release is counted.
LEMMA DueSteps ==
  ASSUME prog \in DOMAIN Table, NEW s \in Service, NEW k \in Nat
  PROVE  /\ LoopOf(prog, s, k) \in Nat
         /\ LoopOf(prog, s, k + 1) = LoopOf(prog, s, k) + T.div[s]
         /\ LoopOf(prog, s, 0) = IF T.countFirst THEN T.div[s] ELSE 0
         /\ LoopOf(prog, s, k) % T.div[s] = 0
<1> DEFINE d == T.div[s]
<1>1. d \in Nat \ {0} /\ T.countFirst \in BOOLEAN
  BY TableTypes
<1>2. Table[prog].div[s] = d /\ Table[prog].countFirst = T.countFirst
  BY DEF T
<1> HIDE DEF d
<1>3. CASE T.countFirst
  <2>1. \A j : LoopOf(prog, s, j) = (j + 1) * d
    BY <1>2, <1>3 DEF LoopOf
  <2>2. (k + 1) * d \in Nat /\ (0 + 1) * d = d
    BY <1>1
  <2>3. ((k + 1) + 1) * d = (k + 1) * d + d
    BY <1>1, NextMultiple
  <2>4. ((k + 1) * d) % d = 0
    BY <1>1, RemainderOfMultiple
  <2> QED BY <1>3, <2>1, <2>2, <2>3, <2>4 DEF d
<1>4. CASE ~T.countFirst
  <2>1. \A j : LoopOf(prog, s, j) = j * d
    BY <1>2, <1>4 DEF LoopOf
  <2>2. k * d \in Nat /\ 0 * d = 0
    BY <1>1
  <2>3. (k + 1) * d = k * d + d
    BY <1>1, NextMultiple
  <2>4. (k * d) % d = 0
    BY <1>1, RemainderOfMultiple
  <2> QED BY <1>4, <2>1, <2>2, <2>3, <2>4 DEF d
<1> QED BY <1>1, <1>3, <1>4

\* The line of s finds its loop by the remainder: at a loop not past the one
\* that releases s next, it posts exactly when the two are the same.
LEMMA DueExactly ==
  ASSUME prog \in DOMAIN Table, NEW s \in T.posting, seqCnt \in Nat,
         posted[s] \in Nat,
         seqCnt <= NextDue(s), NextDue(s) < seqCnt + T.div[s]
  PROVE  Due(s) <=> seqCnt = NextDue(s)
<1> DEFINE d == T.div[s]
           a == IF T.countFirst THEN posted[s] + 1 ELSE posted[s]
<1>1. d \in Nat \ {0} /\ a \in Nat /\ s \in Service
  BY TableTypes
<1>2. NextDue(s) = a * d
  BY DEF NextDue, LoopOf, T
<1>3. Due(s) <=> seqCnt % d = 0
  BY DEF Due
<1> HIDE DEF d, a
<1>4. (a * d) % d = 0
  BY <1>1, RemainderOfMultiple
<1>5. seqCnt <= a * d /\ a * d < seqCnt + d
  BY <1>2 DEF d
<1>6. seqCnt % d = 0 => seqCnt = a * d
  BY <1>1, <1>5, DueAtNextMultiple
<1> QED BY <1>2, <1>3, <1>4, <1>6

--------------------------------------------------------------------------------
(* It holds at first.                                                      *)

LEMMA InitIInv == Init => IInv
<1> SUFFICES ASSUME Init PROVE IInv
  OBVIOUS
<1>1. prog \in DOMAIN Table /\ N \in Nat \ {0} /\ 1 \in Service
  BY TablesAssumption DEF Init, Service
<1>2. TypeOK
  <2>1. 0 \in 0 .. T.periods
    BY <1>1, TableTypes
  <2> QED BY <1>1, <2>1 DEF Init, TypeOK
<1>3. Positions /\ Loops
  BY DEF Init, Positions, Loops
<1>4. TokensAccounted
  BY DEF Init, TokensAccounted, FinalPost
<1>5. OnSchedule
  <2> SUFFICES ASSUME NEW s \in T.posting
               PROVE  IF Passed(s)
                        THEN 0 < NextDue(s) /\ NextDue(s) <= 0 + T.div[s]
                        ELSE 0 <= NextDue(s) /\ NextDue(s) < 0 + T.div[s]
    BY DEF OnSchedule, Init
  <2>1. s \in Service /\ T.div[s] \in Nat \ {0} /\ posted[s] = 0
    BY <1>1, TableTypes DEF Init
  <2>2. NextDue(s) = IF T.countFirst THEN T.div[s] ELSE 0
    BY <1>1, <2>1, DueSteps DEF NextDue
  <2>3. Passed(s) <=> T.countFirst
    BY DEF Init, Passed
  <2> QED BY <2>1, <2>2, <2>3
<1> QED BY <1>2, <1>3, <1>4, <1>5 DEF IInv

--------------------------------------------------------------------------------
(* The steps of main.                                                      *)

LEMMA MainKeepsIInv == IInv /\ Main => IInv'
<1> SUFFICES ASSUME IInv, Main PROVE IInv'
  OBVIOUS
<1>1. /\ UNCHANGED <<prog, si, seqCnt, posted, sem, cnt, abortS>>
      /\ spc' = spc \/ (mpc = "create" /\ spc' \in {"sleep", "absent"})
  BY DEF Main, Setup, Create, Join, JoinAbsent, seqVars, workVars
<1>2. mpc = "create" => spc = "none"
  BY DEF IInv, Positions
<1>3. T' = T /\ T.periods \in Nat \ {0}
  BY <1>1, TableTypes DEF T, IInv, TypeOK
<1>4. alive' \in BOOLEAN
  <2>1. alive \in BOOLEAN
    BY DEF IInv, TypeOK
  <2>2. alive' = alive \/ alive' = FALSE
    BY DEF Main, Setup, Create, Join, JoinAbsent, NextJoin
  <2> QED BY <2>1, <2>2, Zenon
<1>5. /\ mpc' \in {"setup", "create", "join", "complete"} /\ mi' \in 0 .. N + 1
      /\ wpc' \in [Service -> {"none", "absent", "check", "wait", "work", "done"}]
      /\ \A s \in Service : wpc'[s] = "work" <=> wpc[s] = "work"
      /\ Positions'
  <2> USE TablesAssumption DEF IInv, TypeOK, Positions, Service
  <2>1. CASE Setup
    <3>1. /\ mpc = "setup" /\ mpc' \in {"setup", "create"}
          /\ UNCHANGED <<mi, spc, wpc>>
      BY <2>1 DEF Setup, seqVars, workVars
    <3> QED BY <1>1, <3>1
  <2>2. CASE Create
    <3>1. CASE mi <= N
      <4>1. /\ mpc = "create" /\ mi \in Service /\ mi' = mi + 1
            /\ UNCHANGED <<mpc, spc>>
        BY <2>2, <3>1 DEF Create
      <4>2. PICK w \in {"check", "absent"} : wpc' = [wpc EXCEPT ![mi] = w]
        BY <2>2, <3>1 DEF Create
      <4>3. wpc[mi] = "none"
        BY <4>1
      <4> QED BY <1>1, <4>1, <4>2, <4>3
    <3>2. CASE ~(mi <= N)
      <4>1. mpc = "create" /\ mpc' = "join" /\ mi' = 0 /\ wpc' = wpc
        BY <2>2, <3>2 DEF Create, Sequencer
      <4>2. si' = 1
        BY <1>1, <1>2, <4>1
      <4>3. Positions'
        BY <4>1, <4>2
      <4>4. wpc \in [Service -> {"none", "absent", "check", "wait", "work", "done"}]
        OBVIOUS
      <4>5. mpc' \in {"setup", "create", "join", "complete"} /\ mi' \in 0 .. N + 1
        BY <4>1
      <4> HIDE DEF IInv, TypeOK, Positions
      <4> QED BY <4>1, <4>3, <4>4, <4>5
    <3> QED BY <3>1, <3>2
  <2>3. CASE Join \/ JoinAbsent
    <3>1. /\ mpc = "join" /\ UNCHANGED <<spc, wpc>>
          /\ NextJoin \/ UNCHANGED <<mpc, mi>>
      BY <2>3 DEF Join, JoinAbsent, mainVars, seqVars, workVars
    <3>2. N \in Nat \ {0} /\ mi \in 0 .. N
      BY <3>1
    <3>3. mpc' \in {"join", "complete"} /\ mi' \in 0 .. N
      <4> HIDE DEF IInv, TypeOK, Positions
      <4> QED BY <3>1, <3>2 DEF NextJoin
    <3> QED BY <1>1, <3>1, <3>3
  <2> QED BY <2>1, <2>2, <2>3 DEF Main
<1>6. TypeOK'
  BY <1>1, <1>3, <1>4, <1>5 DEF IInv, TypeOK
<1>7. Loops'
  BY <1>1, <1>2, <1>3 DEF IInv, Loops
<1>8. TokensAccounted'
  <2>1. \A s \in Service : FinalPost(s)' = FinalPost(s)
    BY <1>1, <1>2 DEF FinalPost
  <2> QED BY <1>1, <1>5, <2>1 DEF IInv, TokensAccounted
<1>9. OnSchedule'
  <2>1. \A s : Passed(s)' = Passed(s) /\ NextDue(s)' = NextDue(s)
    BY <1>1, <1>2, <1>3 DEF Passed, NextDue, LoopOf
  <2> QED BY <1>1, <1>3, <2>1 DEF IInv, OnSchedule
<1> QED BY <1>5, <1>6, <1>7, <1>8, <1>9 DEF IInv

--------------------------------------------------------------------------------
(* The steps of the Sequencer.                                             *)

\* What all of them leave alone.
LEMMA SequencerFrame ==
  ASSUME IInv, SequencerStep
  PROVE  /\ UNCHANGED <<prog, mpc, mi, alive, wpc, cnt>>
         /\ T' = T
         /\ spc' \notin {"none", "absent"}
         /\ mpc \notin {"setup", "create"}
<1>1. UNCHANGED <<prog, mpc, mi, alive, wpc, cnt>>
  BY DEF SequencerStep, Wake, Release, NextLoop, PostAll, RaiseFlags, mainVars,
         workVars
<1>2. spc # "none" /\ spc' \notin {"none", "absent"}
  BY DEF SequencerStep, Wake, Release, NextLoop, PostAll, RaiseFlags
<1> QED BY <1>1, <1>2 DEF T, IInv, Positions

LEMMA SequencerKeepsType == IInv /\ SequencerStep => TypeOK'
<1> SUFFICES ASSUME IInv, SequencerStep PROVE TypeOK'
  OBVIOUS
<1>1. /\ UNCHANGED <<prog, mpc, mi, alive, wpc, cnt>>
      /\ T.periods \in Nat \ {0} /\ T' = T /\ T.countFirst \in BOOLEAN
  BY SequencerFrame, TableTypes DEF IInv, TypeOK
<1>2. N \in Nat \ {0} /\ 1 \in Service /\ si \in Service
  BY TablesAssumption DEF Service, IInv, TypeOK
<1>3. si' \in Service
  BY <1>2 DEF Service, SequencerStep, Wake, Release, NextLoop, PostAll, RaiseFlags
<1>4. seqCnt' \in 0 .. T.periods
  BY <1>1 DEF SequencerStep, Wake, Release, NextLoop, PostAll, RaiseFlags, IInv,
              TypeOK, Loops
<1>5. posted' \in [Service -> Nat] /\ sem' \in [Service -> Nat]
  BY <1>2 DEF SequencerStep, Wake, Release, NextLoop, PostAll, RaiseFlags, IInv,
              TypeOK
<1>6. abortS' \in [Service -> BOOLEAN]
  <2>1. abortS \in [Service -> BOOLEAN]
    BY DEF IInv, TypeOK
  <2>2. abortS' = abortS \/ abortS' = [abortS EXCEPT ![si] = TRUE]
    BY DEF SequencerStep, Wake, Release, NextLoop, PostAll, RaiseFlags
  <2> QED BY <1>2, <2>1, <2>2
<1>7. spc' \in {"sleep", "release", "next", "post", "flag", "done"}
  BY DEF SequencerStep, Wake, Release, NextLoop, PostAll, RaiseFlags
<1> QED BY <1>1, <1>3, <1>4, <1>5, <1>6, <1>7 DEF IInv, TypeOK

LEMMA SequencerKeepsPlace == IInv /\ SequencerStep => Positions' /\ Loops'
<1> SUFFICES ASSUME IInv, SequencerStep PROVE Positions' /\ Loops'
  OBVIOUS
<1>1. /\ UNCHANGED <<prog, mpc, mi, alive, wpc, cnt>>
      /\ T.periods \in Nat \ {0} /\ T' = T /\ T.countFirst \in BOOLEAN
      /\ spc' \notin {"none", "absent"} /\ mpc \notin {"setup", "create"}
  BY SequencerFrame, TableTypes DEF IInv, TypeOK
<1>2. Positions'
  BY <1>1 DEF SequencerStep, Wake, Release, NextLoop, PostAll, RaiseFlags, IInv,
              Positions
<1>3. seqCnt \in 0 .. T.periods
  BY DEF IInv, TypeOK
<1>4. Loops'
  <2>1. CASE Wake
    BY <1>1, <1>3, <2>1 DEF Wake, IInv, Loops
  <2>2. CASE Release
    BY <1>1, <1>3, <2>2 DEF Release, IInv, Loops
  <2>3. CASE NextLoop
    BY <1>1, <1>3, <2>3 DEF NextLoop, IInv, Loops
  <2>4. CASE PostAll \/ RaiseFlags
    BY <1>1, <1>3, <2>4 DEF PostAll, RaiseFlags, IInv, Loops
  <2> QED BY <2>1, <2>2, <2>3, <2>4 DEF SequencerStep
<1> QED BY <1>2, <1>4

LEMMA SequencerKeepsTokens == IInv /\ SequencerStep => TokensAccounted'
<1> SUFFICES ASSUME IInv, SequencerStep PROVE TokensAccounted'
  OBVIOUS
<1>1. /\ UNCHANGED <<wpc, cnt>>
      /\ N \in Nat \ {0} /\ Service \subseteq Nat /\ si \in Service
      /\ \A s \in Service : s >= 1 /\ s <= N
      /\ posted \in [Service -> Nat] /\ sem \in [Service -> Nat]
      /\ cnt \in [Service -> Nat]
      /\ spc \notin {"release", "post", "flag"} => si = 1
  <2>1. UNCHANGED <<wpc, cnt>>
    BY SequencerFrame
  <2>2. /\ si \in Service /\ cnt \in [Service -> Nat]
        /\ posted \in [Service -> Nat] /\ sem \in [Service -> Nat]
        /\ spc \notin {"release", "post", "flag"} => si = 1
    BY DEF IInv, TypeOK, Positions
  <2> QED BY <2>1, <2>2, TablesAssumption DEF Service
<1>2. TokensAccounted
  BY DEF IInv
<1>3. CASE Wake \/ NextLoop
  <2>1. UNCHANGED <<posted, sem>> /\ \A s \in Service : FinalPost(s)' = FinalPost(s)
    BY <1>1, <1>3 DEF Wake, NextLoop, FinalPost
  <2> QED BY <1>1, <1>2, <2>1 DEF TokensAccounted
<1>4. CASE Release
  <2>1. \A s \in Service : FinalPost(s)' = FinalPost(s)
    BY <1>1, <1>4 DEF Release, FinalPost
  <2>2. \A s \in Service : sem'[s] - posted'[s] = sem[s] - posted[s]
    BY <1>1, <1>4 DEF Release
  <2>3. \A s \in Service : sem'[s] \in Nat /\ posted'[s] \in Nat
    BY <1>1, <1>4 DEF Release
  <2>4. \A s \in Service : FinalPost(s) \in Nat
    BY DEF FinalPost
  <2> QED BY <1>1, <1>2, <2>1, <2>2, <2>3, <2>4 DEF TokensAccounted
<1>5. CASE PostAll
  <2>1. \A s \in Service :
          FinalPost(s)' = FinalPost(s) + (IF s = si THEN 1 ELSE 0)
    BY <1>1, <1>5 DEF PostAll, FinalPost
  <2>2. \A s \in Service : sem'[s] = sem[s] + (IF s = si THEN 1 ELSE 0)
    BY <1>1, <1>5 DEF PostAll
  <2>3. posted' = posted
    BY <1>5 DEF PostAll
  <2>4. \A s \in Service : FinalPost(s) \in Nat
    BY DEF FinalPost
  <2> QED BY <1>1, <1>2, <2>1, <2>2, <2>3, <2>4 DEF TokensAccounted
<1>6. CASE RaiseFlags
  <2>1. UNCHANGED <<posted, sem>> /\ \A s \in Service : FinalPost(s)' = FinalPost(s)
    BY <1>6 DEF RaiseFlags, FinalPost
  <2> QED BY <1>1, <1>2, <2>1 DEF TokensAccounted
<1> QED BY <1>3, <1>4, <1>5, <1>6 DEF SequencerStep

\* The heart of the matter: each step of the loop keeps the next release of
\* every service within one divisor of the count.
LEMMA SequencerKeepsSchedule == IInv /\ SequencerStep => OnSchedule'
<1> SUFFICES ASSUME IInv, SequencerStep,
                    NEW s \in T.posting
             PROVE  IF Passed(s)'
                      THEN seqCnt' < NextDue(s)' /\ NextDue(s)' <= seqCnt' + T.div[s]
                      ELSE seqCnt' <= NextDue(s)' /\ NextDue(s)' < seqCnt' + T.div[s]
  <2>1. IInv /\ SequencerStep => T' = T
    BY SequencerFrame
  <2> QED BY <2>1 DEF OnSchedule
<1>1. /\ UNCHANGED <<prog>> /\ T' = T
      /\ prog \in DOMAIN Table
  BY SequencerFrame DEF IInv, TypeOK
<1>2. /\ s \in Service /\ T.div[s] \in Nat \ {0} /\ T.countFirst \in BOOLEAN
      /\ posted[s] \in Nat /\ NextDue(s) \in Nat /\ si \in Service
      /\ seqCnt \in Nat
  <2>1. /\ s \in Service /\ T.div[s] \in Nat \ {0} /\ T.countFirst \in BOOLEAN
        /\ T.periods \in Nat
    BY <1>1, TableTypes
  <2>2. posted[s] \in Nat /\ si \in Service /\ seqCnt \in Nat
    BY <2>1 DEF IInv, TypeOK
  <2> QED BY <1>1, <2>1, <2>2, DueSteps DEF NextDue
<1>3. Service \subseteq Nat /\ N \in Nat /\ \A t \in Service : t >= 1 /\ t <= N
  BY TablesAssumption DEF Service
<1>4. IF Passed(s)
        THEN seqCnt < NextDue(s) /\ NextDue(s) <= seqCnt + T.div[s]
        ELSE seqCnt <= NextDue(s) /\ NextDue(s) < seqCnt + T.div[s]
  BY DEF IInv, OnSchedule
<1>5. posted' = posted => NextDue(s)' = NextDue(s)
  BY <1>1 DEF NextDue, LoopOf
<1>6. CASE Wake
  <2>1. /\ posted' = posted /\ spc = "sleep" /\ spc' = "release" /\ si' = 1
        /\ seqCnt' = IF T.countFirst THEN seqCnt + 1 ELSE seqCnt
    BY <1>6 DEF Wake
  <2>2. Passed(s) <=> T.countFirst
    BY <2>1 DEF Passed
  <2>3. ~Passed(s)'
    BY <1>1, <1>2, <1>3, <2>1 DEF Passed
  <2> QED BY <1>2, <1>4, <1>5, <2>1, <2>2, <2>3
<1>7. CASE Release
  <2>1. /\ spc = "release" /\ seqCnt' = seqCnt
        /\ spc' = (IF si < N THEN "release" ELSE "next")
        /\ si' = (IF si < N THEN si + 1 ELSE 1)
    BY <1>7 DEF Release
  <2>2. Passed(s) <=> s < si
    BY <2>1 DEF Passed
  <2>3. Passed(s)' <=> s <= si
    BY <1>1, <1>2, <1>3, <2>1 DEF Passed
  <2>4. CASE s # si
    <3>1. posted'[s] = posted[s]
      BY <1>2, <1>7, <2>4 DEF Release, IInv, TypeOK
    <3>2. NextDue(s)' = NextDue(s)
      BY <1>1, <3>1 DEF NextDue, LoopOf
    <3> QED BY <1>2, <1>3, <1>4, <2>1, <2>2, <2>3, <2>4, <3>2
  <2>5. CASE s = si
    <3>1. ~Passed(s) /\ Passed(s)'
      BY <1>2, <1>3, <2>2, <2>3, <2>5
    <3>2. Due(s) <=> seqCnt = NextDue(s)
      BY <1>1, <1>2, <1>4, <3>1, DueExactly
    <3>3. CASE Due(s)
      <4>1. posted'[s] = posted[s] + 1
        BY <1>2, <1>7, <2>5, <3>3 DEF Release, IInv, TypeOK
      <4>2. NextDue(s)' = NextDue(s) + T.div[s]
        BY <1>1, <1>2, <4>1, DueSteps DEF NextDue
      <4> QED BY <1>2, <1>4, <2>1, <3>1, <3>2, <3>3, <4>2
    <3>4. CASE ~Due(s)
      <4>1. posted' = posted
        BY <1>7, <2>5, <3>4 DEF Release
      <4> QED BY <1>2, <1>4, <1>5, <2>1, <3>1, <3>2, <3>4, <4>1
    <3> QED BY <3>3, <3>4
  <2> QED BY <2>4, <2>5
<1>8. CASE NextLoop
  <2>1. /\ spc = "next" /\ spc' \in {"sleep", "post"} /\ posted' = posted
        /\ seqCnt' = (IF T.countFirst THEN seqCnt ELSE seqCnt + 1)
    BY <1>8 DEF NextLoop
  <2>2. Passed(s)
    BY <2>1 DEF Passed
  <2>3. Passed(s)' <=> T.countFirst
    BY <1>1, <2>1 DEF Passed
  <2> QED BY <1>2, <1>4, <1>5, <2>1, <2>2, <2>3
<1>9. CASE PostAll \/ RaiseFlags
  <2>1. /\ spc \in {"post", "flag"} /\ spc' \in {"post", "flag", "done"}
        /\ posted' = posted /\ seqCnt' = seqCnt
    BY <1>9 DEF PostAll, RaiseFlags
  <2>2. Passed(s)' <=> Passed(s)
    BY <1>1, <2>1 DEF Passed
  <2> QED BY <1>2, <1>4, <1>5, <2>1, <2>2
<1> QED BY <1>6, <1>7, <1>8, <1>9 DEF SequencerStep

LEMMA SequencerKeepsIInv == IInv /\ SequencerStep => IInv'
  BY SequencerKeepsType, SequencerKeepsPlace, SequencerKeepsTokens,
     SequencerKeepsSchedule DEF IInv

--------------------------------------------------------------------------------
(* The steps of the services, the failing sleep, and all of them together. *)

LEMMA ServiceKeepsIInv ==
  ASSUME IInv, NEW s \in Service, ServiceStep(s)
  PROVE  IInv'
<1>1. UNCHANGED <<prog, mpc, mi, alive, spc, si, seqCnt, posted, abortS>> /\ T' = T
  BY DEF ServiceStep, CheckAbort, Wait, Work, mainVars, seqVars, T
<1>2. /\ wpc \in [Service -> {"none", "absent", "check", "wait", "work", "done"}]
      /\ sem \in [Service -> Nat] /\ cnt \in [Service -> Nat]
      /\ posted \in [Service -> Nat]
  BY DEF IInv, TypeOK
<1>3. /\ wpc[s] \in {"check", "wait", "work"}
      /\ \E w \in {"check", "wait", "work", "done"} : wpc' = [wpc EXCEPT ![s] = w]
  BY DEF ServiceStep, CheckAbort, Wait, Work
<1>4. /\ wpc' \in [Service -> {"none", "absent", "check", "wait", "work", "done"}]
      /\ sem' \in [Service -> Nat] /\ cnt' \in [Service -> Nat]
  BY <1>2, <1>3 DEF ServiceStep, CheckAbort, Wait, Work
<1>5. TypeOK'
  BY <1>1, <1>4 DEF IInv, TypeOK
<1>6. Positions'
  BY <1>1, <1>2, <1>3 DEF IInv, Positions
<1>7. Loops'
  BY <1>1 DEF IInv, Loops
<1>8. TokensAccounted'
  <2>1. \A t \in Service : FinalPost(t)' = FinalPost(t) /\ FinalPost(t) \in Nat
    BY <1>1 DEF FinalPost
  <2>2. \A t \in Service :
          cnt'[t] + sem'[t] + (IF wpc'[t] = "work" THEN 1 ELSE 0)
            = cnt[t] + sem[t] + (IF wpc[t] = "work" THEN 1 ELSE 0)
    <3>1. CASE CheckAbort(s)
      BY <1>2, <3>1 DEF CheckAbort
    <3>2. CASE Wait(s)
      BY <1>2, <3>2 DEF Wait, workVars
    <3>3. CASE Work(s)
      BY <1>2, <3>3 DEF Work
    <3> QED BY <3>1, <3>2, <3>3 DEF ServiceStep
  <2> QED BY <1>1, <2>1, <2>2 DEF IInv, TokensAccounted
<1>9. OnSchedule'
  <2>1. \A t : Passed(t)' = Passed(t) /\ NextDue(t)' = NextDue(t)
    BY <1>1 DEF Passed, NextDue, LoopOf
  <2> QED BY <1>1, <2>1 DEF IInv, OnSchedule
<1> QED BY <1>5, <1>6, <1>7, <1>8, <1>9 DEF IInv

\* Nothing but the process's life changes.
LEMMA StutterKeepsIInv ==
  ASSUME IInv, alive' \in BOOLEAN,
         UNCHANGED <<prog, mainVars, seqVars, sem, abortS, workVars>>
  PROVE  IInv'
<1>1. UNCHANGED <<prog, mpc, mi, spc, si, seqCnt, posted, sem, abortS, wpc, cnt>>
  BY DEF mainVars, seqVars, workVars
<1>2. T' = T
  BY <1>1 DEF T
<1>3. TypeOK'
  BY <1>1, <1>2 DEF IInv, TypeOK
<1>4. Positions' /\ Loops'
  BY <1>1, <1>2 DEF IInv, Positions, Loops
<1>5. TokensAccounted'
  BY <1>1 DEF IInv, TokensAccounted, FinalPost
<1>6. OnSchedule'
  <2>1. \A t : Passed(t)' = Passed(t) /\ NextDue(t)' = NextDue(t)
    BY <1>1, <1>2 DEF Passed, NextDue, LoopOf
  <2> QED BY <1>1, <1>2, <2>1 DEF IInv, OnSchedule
<1> QED BY <1>3, <1>4, <1>5, <1>6 DEF IInv

THEOREM Inductive == IInv /\ [Next]_vars => IInv'
<1> SUFFICES ASSUME IInv, [Next]_vars PROVE IInv'
  OBVIOUS
<1>1. ASSUME SleepFails \/ Terminated \/ UNCHANGED vars PROVE IInv'
  <2>1. UNCHANGED <<prog, mainVars, seqVars, sem, abortS, workVars>>
    BY <1>1 DEF SleepFails, Terminated, vars
  <2>2. alive' \in BOOLEAN
    <3>1. alive \in BOOLEAN
      BY DEF IInv, TypeOK
    <3>2. alive' = alive \/ alive' = FALSE
      BY <1>1 DEF SleepFails, Terminated, vars
    <3> QED BY <3>1, <3>2, Zenon
  <2> QED BY <2>1, <2>2, StutterKeepsIInv
<1> QED BY <1>1, MainKeepsIInv, SequencerKeepsIInv, ServiceKeepsIInv DEF Next

THEOREM Invariance == Spec => []IInv
  BY InitIInv, Inductive, PTL DEF Spec

--------------------------------------------------------------------------------

(* Main's walk over threads[] and the Sequencer's over the services stay   *)
(* inside them, the loop count ends at sequencePeriods, and no semaphore   *)
(* value goes below zero.                                                  *)
THEOREM TypeCorrect == Spec => []TypeOK
<1>1. IInv => TypeOK
  BY DEF IInv
<1> QED BY <1>1, Invariance, PTL

(* However far a service lags behind, each release posted for it and the   *)
(* post of the shutdown are in its semaphore, in its hands or counted.     *)
THEOREM NoTokenLost == Spec => []TokensAccounted
<1>1. IInv => TokensAccounted
  BY DEF IInv
<1> QED BY <1>1, Invariance, PTL

--------------------------------------------------------------------------------
(* The refinement of ReleaseSchedule.                                      *)

\* A loop is counted only while no release is owed for it ...
LEMMA CountingAdvances ==
  ASSUME NEW p \in DOMAIN Table, prog = p,
         IInv, SequencerStep, posted' = posted, seqCnt' # seqCnt
  PROVE  Schedule(p)!Advance
<1>1. prog \in DOMAIN Table /\ seqCnt \in Nat
  <2>1. prog \in DOMAIN Table
    BY DEF IInv, TypeOK
  <2> QED BY <2>1, TableTypes DEF IInv, TypeOK
<1>2. /\ seqCnt' = seqCnt + 1
      /\ \/ spc = "sleep" /\ T.countFirst
         \/ spc = "next" /\ ~T.countFirst
  BY DEF SequencerStep, Wake, Release, NextLoop, PostAll, RaiseFlags
<1>3. \A s \in T.posting : Passed(s)
  BY <1>2 DEF Passed
<1>4. \A s \in T.posting : NextDue(s) \in Nat /\ seqCnt < NextDue(s)
  <2> SUFFICES ASSUME NEW s \in T.posting
               PROVE  NextDue(s) \in Nat /\ seqCnt < NextDue(s)
    OBVIOUS
  <2>1. s \in Service /\ posted[s] \in Nat
    BY <1>1, TableTypes DEF IInv, TypeOK
  <2>2. NextDue(s) \in Nat
    BY <1>1, <2>1, DueSteps DEF NextDue
  <2>3. seqCnt < NextDue(s)
    BY <1>3 DEF IInv, OnSchedule
  <2> QED BY <2>2, <2>3
<1>5. \A s \in Table[p].posting : seqCnt' <= LoopOf(p, s, posted[s])
  BY <1>1, <1>2, <1>4 DEF NextDue, T
<1>6. [s \in Table[p].posting |-> posted[s]]' = [s \in Table[p].posting |-> posted[s]]
  OBVIOUS
<1> QED BY <1>1, <1>2, <1>5, <1>6 DEF Schedule!Advance

\* ... and a release is posted only in the loop it is due.
LEMMA PostingReleases ==
  ASSUME NEW p \in DOMAIN Table, prog = p,
         IInv, SequencerStep, posted' # posted
  PROVE  \E s \in Table[p].posting : Schedule(p)!Release(s)
<1>1. /\ prog \in DOMAIN Table /\ si \in Service /\ posted \in [Service -> Nat]
      /\ prog' = prog
  BY SequencerFrame DEF IInv, TypeOK
<1>2. /\ spc = "release" /\ Due(si) /\ seqCnt' = seqCnt
      /\ posted' = [posted EXCEPT ![si] = @ + 1]
  BY DEF SequencerStep, Wake, Release, NextLoop, PostAll, RaiseFlags
<1>3. si \in T.posting /\ T.posting \subseteq Service
  BY <1>1, <1>2, TableTypes DEF Due
<1>4. ~Passed(si)
  <2>1. ~(si < si)
    BY <1>1, TablesAssumption DEF Service
  <2> QED BY <1>2, <2>1 DEF Passed
<1>5. seqCnt <= NextDue(si) /\ NextDue(si) < seqCnt + T.div[si]
  BY <1>3, <1>4 DEF IInv, OnSchedule
<1>6. seqCnt \in Nat
  BY <1>1, TableTypes DEF IInv, TypeOK
<1>7. LoopOf(p, si, posted[si]) = seqCnt
  BY <1>1, <1>2, <1>3, <1>5, <1>6, DueExactly DEF NextDue
<1>8. PICK s \in Table[p].posting : s = si
  BY <1>3 DEF T
<1>9. Schedule(p)!Release(s)
  <2>1. [t \in Table[p].posting |-> posted[t]]'
          = [[t \in Table[p].posting |-> posted[t]] EXCEPT
               ![s] = [t \in Table[p].posting |-> posted[t]][s] + 1]
    BY <1>1, <1>2, <1>3, <1>8 DEF T
  <2>2. [t \in Table[p].posting |-> posted[t]][s] = posted[s]
    BY <1>8
  <2> QED BY <1>2, <1>7, <1>8, <2>1, <2>2 DEF Schedule!Release
<1> QED BY <1>9

LEMMA StepImplementsSchedule ==
  ASSUME NEW p \in DOMAIN Table, prog = p,
         IInv, [Next]_vars, <<seqCnt, posted>>' # <<seqCnt, posted>>
  PROVE  Schedule(p)!Next
<1>1. SequencerStep
  <2>1. Main \/ SleepFails \/ (\E s \in Service : ServiceStep(s)) \/ Terminated
          \/ UNCHANGED vars => UNCHANGED <<seqCnt, posted>>
    BY DEF Main, Setup, Create, Join, JoinAbsent, SleepFails, ServiceStep,
           CheckAbort, Wait, Work, Terminated, vars, seqVars
  <2> QED BY <2>1 DEF Next
<1>2. CASE posted' = posted
  BY <1>1, <1>2, CountingAdvances DEF Schedule!Next
<1>3. CASE posted' # posted
  BY <1>1, <1>3, PostingReleases DEF Schedule!Next
<1> QED BY <1>2, <1>3

(* In each of the programs, whatever its divisors and wherever its loop    *)
(* counts, the k-th release of a service is posted in the loop that is the *)
(* multiple of its divisor it belongs to, none early, late or twice: what  *)
(* the modulo test promises and the priority queue of GenericSequencer     *)
(* promises too.                                                           *)
THEOREM ImplementsReleaseSchedule == Spec => ImplementsSchedule
<1>1. Init => \A p \in DOMAIN Table : prog = p => Schedule(p)!Init
  <2> SUFFICES ASSUME Init, NEW p \in DOMAIN Table, prog = p PROVE Schedule(p)!Init
    OBVIOUS
  <2>1. \A s \in Table[p].posting : posted[s] = 0
    BY TableTypes DEF Init, T
  <2> QED BY <2>1 DEF Init, Schedule!Init
<1>2. IInv /\ [Next]_vars
        => [\A p \in DOMAIN Table : prog = p => Schedule(p)!Next]_<<seqCnt, posted>>
  BY StepImplementsSchedule
<1> QED BY <1>1, <1>2, Invariance, PTL DEF Spec, ImplementsSchedule

--------------------------------------------------------------------------------
(* Scheduling.                                                             *)

\* The threads that wait for a core before s does.
Outranking(s) == {u \in Thread : /\ T.group[u] = T.group[s]
                                 /\ T.prio[u] > T.prio[s]
                                 /\ Ready(u)}

LEMMA ThreadsFinite == IsFiniteSet(Thread)
<1>1. IsFiniteSet(1 .. N)
  BY TablesAssumption, FS_Interval
<1>2. IsFiniteSet({Sequencer} \cup (1 .. N))
  <2>1. {Sequencer} \cup (1 .. N) = (1 .. N) \cup {Sequencer}
    OBVIOUS
  <2> QED BY <1>1, <2>1, FS_AddElement
<1> QED BY <1>2 DEF Thread, Service

--------------------------------------------------------------------------------
(* The shutdown on one core.                                               *)

\* No service waits for a token that nobody will post any more.
NoServiceStranded ==
  spc = "done" => \A s \in Service : wpc[s] = "wait" => sem[s] > 0

\* The services whose final post is made, and those whose flag is up.
FinallyPosted == IF spc = "post" THEN {s \in Service : s < si}
                 ELSE IF spc \in {"flag", "done"} THEN Service ELSE {}
Flagged       == IF spc = "flag" THEN {s \in Service : s < si}
                 ELSE IF spc = "done" THEN Service ELSE {}

ShutdownInv ==
  OneCore => /\ \A s \in FinallyPosted : wpc[s] = "wait" => sem[s] > 0
             /\ \A s \in Flagged : abortS[s]

\* While the Sequencer is ready nobody else gets the core.
LEMMA SequencerKeepsCore ==
  ASSUME TypeOK, OneCore, Ready(Sequencer), NEW s \in Service
  PROVE  ~MayRun(s)
<1>1. s \in Thread /\ s # Sequencer /\ Sequencer \in Thread
  BY TablesAssumption DEF Thread, Service, Sequencer
<1>2. Sequencer \in Outranking(s)
  BY <1>1 DEF Outranking, OneCore
<1>3. Cardinality(Outranking(s)) >= 1
  <2>1. IsFiniteSet(Outranking(s))
    <3>1. Outranking(s) \in SUBSET Thread
      BY DEF Outranking
    <3> QED BY <3>1, ThreadsFinite, FS_Subset
  <2>2. Cardinality(Outranking(s)) # 0
    BY <1>2, <2>1, FS_EmptySet
  <2> QED BY <2>1, <2>2, FS_CardinalityType
<1>4. Cardinality(Outranking(s)) \in Nat
  <2>1. Outranking(s) \in SUBSET Thread
    BY DEF Outranking
  <2> QED BY <2>1, ThreadsFinite, FS_Subset, FS_CardinalityType
<1>5. T.width[T.group[s]] = 1
  BY <1>1 DEF OneCore
<1> QED BY <1>3, <1>4, <1>5 DEF MayRun, Outranking

LEMMA NextShutdown == IInv /\ ShutdownInv /\ [Next]_vars => ShutdownInv'
<1> SUFFICES ASSUME IInv, ShutdownInv, [Next]_vars, OneCore' PROVE ShutdownInv'
  BY DEF ShutdownInv
<1> USE DEF FinallyPosted, Flagged
<1>0. /\ TypeOK /\ N \in Nat \ {0} /\ si \in Service /\ Service = 1 .. N
      /\ sem \in [Service -> Nat] /\ abortS \in [Service -> BOOLEAN]
      /\ wpc \in [Service -> {"none", "absent", "check", "wait", "work", "done"}]
  BY TablesAssumption DEF IInv, TypeOK, Service
<1>1. OneCore
  <2>1. prog' = prog
    BY DEF Next, Main, Setup, Create, Join, JoinAbsent, SequencerStep, Wake, Release,
           NextLoop, PostAll, RaiseFlags, SleepFails, ServiceStep, CheckAbort, Wait,
           Work, Terminated, vars
  <2> QED BY <2>1 DEF OneCore, T
<1>2. /\ \A s \in FinallyPosted : wpc[s] = "wait" => sem[s] > 0
      /\ \A s \in Flagged : abortS[s]
  BY <1>1 DEF ShutdownInv
<1>3. ASSUME Main \/ SleepFails \/ Terminated \/ UNCHANGED vars PROVE ShutdownInv'
  <2>1. CASE Create
    <3>1. spc = "none" /\ spc' \in {"none", "sleep", "absent"}
      BY <2>1 DEF Create, IInv, Positions
    <3> QED BY <3>1 DEF ShutdownInv
  <2>2. CASE Setup \/ Join \/ JoinAbsent \/ SleepFails \/ Terminated \/ UNCHANGED vars
    <3>1. UNCHANGED <<spc, si, wpc, sem, abortS>>
      BY <2>2 DEF Setup, Join, JoinAbsent, SleepFails, Terminated, vars, seqVars, workVars
    <3> QED BY <1>2, <3>1 DEF ShutdownInv
  <2> QED BY <1>3, <2>1, <2>2 DEF Main
<1>4. ASSUME SequencerStep PROVE ShutdownInv'
  <2>1. wpc' = wpc
    BY <1>4 DEF SequencerStep, Wake, Release, NextLoop, PostAll, RaiseFlags, workVars
  <2>2. CASE Wake
    BY <2>2 DEF Wake, ShutdownInv
  <2>3. CASE Release
    BY <2>3 DEF Release, ShutdownInv
  <2>4. CASE NextLoop
    <3>1. si = 1 /\ si' = 1 /\ spc' \in {"sleep", "post"}
      BY <2>4 DEF NextLoop, IInv, Positions
    <3> QED BY <1>0, <3>1 DEF ShutdownInv
  <2>5. CASE PostAll
    <3>1. \A s \in FinallyPosted' : s \in FinallyPosted \/ s = si
      BY <1>0, <2>5 DEF PostAll
    <3>2. sem'[si] > 0 /\ \A s \in Service : sem'[s] >= sem[s]
      BY <1>0, <2>5 DEF PostAll
    <3>3. Flagged' = {}
      BY <1>0, <2>5 DEF PostAll
    <3>4. \A s \in FinallyPosted : s \in Service
      BY <1>0
    <3>5. \A s \in FinallyPosted' : wpc'[s] = "wait" => sem'[s] > 0
      <4> SUFFICES ASSUME NEW s \in FinallyPosted', wpc'[s] = "wait" PROVE sem'[s] > 0
        OBVIOUS
      <4>1. CASE s = si
        BY <3>2, <4>1
      <4>2. CASE s \in FinallyPosted
        <5>1. s \in Service /\ sem[s] > 0
          BY <1>2, <2>1, <3>4, <4>2
        <5>2. sem'[s] \in Nat
          BY <1>0, <2>5, <5>1 DEF PostAll
        <5> QED BY <1>0, <3>2, <5>1, <5>2
      <4> QED BY <3>1, <4>1, <4>2
    <3> QED BY <3>3, <3>5 DEF ShutdownInv
  <2>6. CASE RaiseFlags
    <3>1. \A s \in Flagged' : s \in Flagged \/ s = si
      BY <1>0, <2>6 DEF RaiseFlags
    <3>2. FinallyPosted = Service /\ FinallyPosted' = Service /\ sem' = sem
      BY <2>6 DEF RaiseFlags
    <3>3. abortS' = [abortS EXCEPT ![si] = TRUE]
      BY <2>6 DEF RaiseFlags
    <3>4. \A s \in Flagged' : abortS'[s]
      BY <1>0, <1>2, <3>1, <3>3
    <3> QED BY <1>2, <2>1, <3>2, <3>4 DEF ShutdownInv
  <2> QED BY <1>4, <2>2, <2>3, <2>4, <2>5, <2>6 DEF SequencerStep
<1>5. ASSUME NEW s \in Service, ServiceStep(s) PROVE ShutdownInv'
  <2>1. MayRun(s) /\ UNCHANGED <<spc, si, abortS>>
    BY <1>5 DEF ServiceStep, CheckAbort, Wait, Work, seqVars
  <2>2. ~Ready(Sequencer)
    BY <1>0, <1>1, <2>1, SequencerKeepsCore
  <2>3. spc \notin {"post", "flag"}
    BY <2>2 DEF Ready
  <2>4. CASE spc # "done"
    BY <2>1, <2>3, <2>4 DEF ShutdownInv
  <2>5. CASE spc = "done"
    <3>1. abortS[s] /\ (wpc[s] = "wait" => sem[s] > 0)
      BY <1>2, <2>5
    <3>2. \A u \in Service \ {s} : wpc'[u] = wpc[u] /\ sem'[u] = sem[u]
      BY <1>0, <1>5 DEF ServiceStep, CheckAbort, Wait, Work
    <3>3. wpc'[s] # "wait"
      BY <1>0, <1>5, <3>1 DEF ServiceStep, CheckAbort, Wait, Work
    <3> QED BY <1>2, <2>1, <2>5, <3>2, <3>3 DEF ShutdownInv
  <2> QED BY <2>4, <2>5
<1> QED BY <1>3, <1>4, <1>5 DEF Next

(* Where the Sequencer outranks all services on the one core they share,   *)
(* as in seqgenex0, its posts and flags come as one, although the posts    *)
(* come first: once it is gone no service waits for a token that will not  *)
(* come.  Without OneCore that fails (seqgen2.c:479).                      *)
THEOREM NobodyStrandedOnOneCore ==
  Spec => [](OneCore => NoServiceStranded)
<1>1. Init => ShutdownInv
  BY DEF Init, ShutdownInv, FinallyPosted, Flagged
<1>2. ShutdownInv => (OneCore => NoServiceStranded)
  BY DEF ShutdownInv, NoServiceStranded, FinallyPosted
<1> QED BY <1>1, <1>2, NextShutdown, Invariance, PTL DEF Spec
================================================================================
