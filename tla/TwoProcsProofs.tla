----------------------------- MODULE TwoProcsProofs -----------------------------
(* Proofs about TwoProcs, for any number of rounds and of runs, of which   *)
(* any may be interrupted or fail to fork.                                 *)
EXTENDS TwoProcs, TLAPS

--------------------------------------------------------------------------------

\* What the loops of both processes have done by the time they are where they
\* are, in any run, whatever tokens it found.
Loops ==
  /\ ppc \in {"openC", "openP", "fork"} => cpc = "none" /\ pi = 0 /\ ci = 0
  /\ ppc \in {"post", "take"} => pi < Rounds
  /\ ppc \in {"wait", "close", "unlinkC", "unlinkP", "exited"} => pi = Rounds
  /\ ppc \in {"close", "unlinkC", "unlinkP", "exited"} =>
       cpc \in {"reaped", "none"}
  /\ cpc \in {"take", "post"} => ci < Rounds
  /\ cpc \in {"close", "exited", "reaped"} => ci = Rounds
  /\ cpc = "none" => ci = 0
  /\ asked = pi + (IF ppc = "take" THEN 1 ELSE 0)
  /\ answered = ci

\* Every run adds at most the token that is under way when it ends.
Tokens == semC + semP + Holding <= (run - 1) + (IF ppc = "take" THEN 1 ELSE 0)

\* The tokens of a name that no run that went wrong has used: what was posted
\* to it in this run is in it, taken, or in the hands of the child.
Conserved ==
  /\ "C" \notin dirty => semC + Holding + ci = asked
  /\ "P" \notin dirty => semP + pi = answered
  /\ cpc = "none" /\ ppc \notin {"openC", "openP", "fork"} => dirty = Name
  /\ ppc = "openP" => "C" \in exists

IInv == TypeOK /\ Loops /\ Tokens /\ Conserved

--------------------------------------------------------------------------------

LEMMA InitIInv == Init => IInv
<1> SUFFICES ASSUME Init PROVE IInv
  OBVIOUS
<1>1. TypeOK
  <2>1. 0 \in 0 .. Rounds /\ 1 \in 1 .. MaxRuns
    BY TwoProcsAssumption
  <2> QED BY <2>1 DEF Init, TypeOK, ParentLabel
<1>2. Loops /\ Tokens
  BY DEF Init, Loops, Tokens, Holding
<1>3. Conserved
  BY DEF Init, Conserved, Holding
<1> QED BY <1>1, <1>2, <1>3 DEF IInv

LEMMA ParentKeepsIInv == IInv /\ Parent => IInv'
<1> SUFFICES ASSUME IInv, Parent PROVE IInv'
  OBVIOUS
<1> USE TwoProcsAssumption
    DEF IInv, TypeOK, ParentLabel, Name, Loops, Tokens, Conserved, Holding,
        sems, past, turns
<1>1. CASE OpenC
  BY <1>1 DEF OpenC
<1>8. CASE OpenP
  BY <1>8 DEF OpenP
<1>2. CASE Fork
  BY <1>2 DEF Fork
<1>3. CASE ForkFails
  BY <1>3 DEF ForkFails
<1>4. CASE ParentPost
  BY <1>4 DEF ParentPost
<1>5. CASE ParentTake
  <2>1. TypeOK'
    BY <1>5 DEF ParentTake
  <2>2. Loops'
    BY <1>5 DEF ParentTake
  <2>3. Tokens'
    BY <1>5 DEF ParentTake
  <2>4. Conserved'
    BY <1>5 DEF ParentTake
  <2> QED BY <2>1, <2>2, <2>3, <2>4
<1>6. CASE ParentWait
  BY <1>6 DEF ParentWait
<1>7. CASE ParentClose
  BY <1>7 DEF ParentClose
<1>9. CASE UnlinkC
  BY <1>9 DEF UnlinkC
<1>10. CASE UnlinkP
  BY <1>10 DEF UnlinkP
<1> QED BY <1>1, <1>2, <1>3, <1>4, <1>5, <1>6, <1>7, <1>8, <1>9, <1>10 DEF Parent

LEMMA ChildKeepsIInv == IInv /\ Child => IInv'
<1> SUFFICES ASSUME IInv, Child PROVE IInv'
  OBVIOUS
<1> USE TwoProcsAssumption
    DEF IInv, TypeOK, ParentLabel, Name, Loops, Tokens, Conserved, Holding,
        sems, past, turns
<1>1. CASE ChildTake
  BY <1>1 DEF ChildTake
<1>2. CASE ChildPost
  BY <1>2 DEF ChildPost
<1>3. CASE ChildExit
  BY <1>3 DEF ChildExit
<1> QED BY <1>1, <1>2, <1>3 DEF Child

LEMMA RestartKeepsIInv == IInv /\ Restart => IInv'
  BY TwoProcsAssumption
  DEF Restart, IInv, TypeOK, ParentLabel, Name, Loops, Tokens, Conserved,
      Holding, sems

THEOREM Inductive == IInv /\ [Next]_vars => IInv'
<1> SUFFICES ASSUME IInv, [Next]_vars PROVE IInv'
  OBVIOUS
<1>1. CASE UNCHANGED vars
  BY <1>1 DEF vars, sems, past, turns, IInv, TypeOK, Loops, Tokens, Conserved,
              Holding
<1>2. CASE Terminated
  BY <1>1, <1>2 DEF Terminated
<1> QED BY <1>1, <1>2, ParentKeepsIInv, ChildKeepsIInv, RestartKeepsIInv DEF Next

THEOREM Invariance == Spec => []IInv
  BY InitIInv, Inductive, PTL DEF Spec

--------------------------------------------------------------------------------

(* The loop counters and the counts of posts stay within Rounds in every   *)
(* run, whatever tokens it found (main.c, lines 32 to 66).                 *)
THEOREM TypeCorrect == Spec => []TypeOK
<1>1. IInv => TypeOK
  BY DEF IInv
<1> QED BY <1>1, Invariance, PTL

(* One token is under way in a run that nothing went wrong before, and     *)
(* none is left at its end: the strict alternation the program is about.   *)
THEOREM OneTokenUnderWay == Spec => []OneToken
<1>1. IInv => OneToken
  BY DEF IInv, TypeOK, Loops, Conserved, OneToken, Holding
<1> QED BY <1>1, Invariance, PTL

(* However many runs are interrupted, and wherever, and however many fail  *)
(* to fork, the tokens left in the names are at most one for each.         *)
THEOREM TokensDoNotMultiply == Spec => []TokensPerRun
<1>1. IInv => TokensPerRun
  BY DEF IInv, TypeOK, Tokens, TokensPerRun, Holding
<1> QED BY <1>1, Invariance, PTL

(* Run after run the posts of parent and child are those of PingPong, with *)
(* its turns asked and answered: the refinement, step by step.             *)
THEOREM ImplementsPingPong == Spec => Alternates
<1>1. Init => Alternation!Init
  BY DEF Init, Alternation!Init
<1>2. IInv /\ [Next]_vars => [dirty # {} \/ dirty' # {} \/ Alternation!Next]_turns
  <2> SUFFICES ASSUME IInv, [Next]_vars, dirty = {}, dirty' = {}, turns' # turns
               PROVE  Alternation!Next
    OBVIOUS
  <2> USE DEF IInv, TypeOK, Name, Loops, Conserved, Holding, sems, past, turns
  <2>1. CASE ParentPost
    <3>1. Alternation!Ask
      BY <2>1 DEF ParentPost, Alternation!Ask
    <3> QED BY <3>1 DEF Alternation!Next
  <2>2. CASE ChildPost
    <3>1. Alternation!Answer
      BY <2>2 DEF ChildPost, Alternation!Answer
    <3> QED BY <3>1 DEF Alternation!Next
  <2>3. CASE Restart
    <3>1. ppc = "exited"
      BY <2>3 DEF Restart
    <3>2. Alternation!Again
      BY <2>3, <3>1 DEF Restart, Alternation!Again
    <3> QED BY <3>2 DEF Alternation!Next
  <2>4. ASSUME OpenC \/ OpenP \/ Fork \/ ForkFails \/ ParentTake \/ ParentWait
               \/ ParentClose \/ UnlinkC \/ UnlinkP \/ ChildTake \/ ChildExit \/ Terminated \/ UNCHANGED vars
        PROVE  FALSE
    BY <2>4 DEF OpenC, OpenP, Fork, ForkFails, ParentTake, ParentWait,
                ParentClose, UnlinkC, UnlinkP, ChildTake, ChildExit, Terminated, vars
  <2> QED BY <2>1, <2>2, <2>3, <2>4 DEF Next, Parent, Child
<1> QED BY <1>1, <1>2, Invariance, PTL DEF Spec, Alternates
================================================================================
