------------------------------- MODULE TwoProcs --------------------------------
(***************************************************************************)
(* 03-twoprocs: a parent and the child it forks take turns through two     *)
(* named semaphores.  main.c and main.cpp do the same, except that the C   *)
(* program unlinks the names when it ends.  A named semaphore that exists  *)
(* keeps its value when it is opened again with O_CREAT, so the values     *)
(* outlive a run that is interrupted (both processes are killed).  Such a  *)
(* run, and one whose fork failed, leave their names "dirty" until they    *)
(* are unlinked, each by a call of its own.                                *)
(***************************************************************************)
EXTENDS Integers

CONSTANTS
  Rounds,      \* 3 in the source
  Unlinks,     \* whether the names are unlinked: TRUE for main.c, FALSE for
               \* main.cpp; a set of them is checked at once
  ForkMayFail, \* fork may return -1
  Interrupts,  \* a run may be interrupted anywhere
  MaxRuns      \* bound: how often the program is run

ASSUME TwoProcsAssumption ==
  /\ Rounds \in Nat \ {0}
  /\ Unlinks \subseteq BOOLEAN
  /\ {ForkMayFail, Interrupts} \subseteq BOOLEAN
  /\ MaxRuns \in Nat \ {0}

VARIABLES
  ppc,    \* where the parent is (ParentLabel)
  cpc,    \* the child: "none", "take", "post", "close", "exited", "reaped"
  pi,     \* the parent's i
  ci,     \* the child's i
  semC,   \* value of the semaphore the child takes
  semP,   \* value of the semaphore the parent takes
  exists, \* the names that exist
  unlinks,\* which of the two programs this is
  dirty,  \* the names used by a run that went wrong, a history variable
  run,    \* number of this run
  asked,  \* posts of semC by this run's parent
  answered\* posts of semP by this run's child

sems  == <<semC, semP, exists>>
past  == <<unlinks, dirty, run>>
turns == <<asked, answered>>
vars  == <<ppc, cpc, pi, ci, sems, past, turns>>

\* The two names, by who takes the tokens: syncSemC or /childsem, and syncSemP
\* or /parentsem.
Name == {"C", "P"}

ParentLabel == {"openC", "openP", "fork", "post", "take", "wait", "close",
                "unlinkC", "unlinkP", "exited"}

Init == /\ ppc = "openC" /\ cpc = "none"
        /\ pi = 0 /\ ci = 0
        /\ semC = 0 /\ semP = 0 /\ exists = {}
        /\ unlinks \in Unlinks /\ dirty = {} /\ run = 1
        /\ asked = 0 /\ answered = 0

--------------------------------------------------------------------------------
(* The parent.                                                             *)

\* sem_open of each: created with value 0, or found with the value it has.
OpenC == /\ ppc = "openC"
         /\ exists' = exists \cup {"C"}
         /\ semC' = IF "C" \in exists THEN semC ELSE 0
         /\ dirty' = dirty \cap (exists \cup {"P"})
         /\ ppc' = "openP"
         /\ UNCHANGED <<cpc, pi, ci, semP, unlinks, run, turns>>

OpenP == /\ ppc = "openP"
         /\ exists' = exists \cup {"P"}
         /\ semP' = IF "P" \in exists THEN semP ELSE 0
         /\ dirty' = dirty \cap exists
         /\ ppc' = "fork"
         /\ UNCHANGED <<cpc, pi, ci, semC, unlinks, run, turns>>

Fork == /\ ppc = "fork"
        /\ ppc' = "post"
        /\ cpc' = "take"
        /\ UNCHANGED <<pi, ci, sems, past, turns>>

\* fork returns -1, which is not 0: this is "the parent", without a child.
ForkFails == /\ ppc = "fork"
             /\ ForkMayFail
             /\ ppc' = "post"
             /\ dirty' = Name
             /\ UNCHANGED <<cpc, pi, ci, sems, unlinks, run, turns>>

\* Mutant of ParentPost: both semaphores are posted.
ParentPostBoth == /\ ppc = "post"
                  /\ semC' = semC + 1
                  /\ semP' = semP + 1
                  /\ asked' = asked + 1
                  /\ ppc' = "take"
                  /\ UNCHANGED <<cpc, pi, ci, exists, past, answered>>

ParentPost == /\ ppc = "post"
              /\ semC' = semC + 1
              /\ asked' = asked + 1
              /\ ppc' = "take"
              /\ UNCHANGED <<cpc, pi, ci, semP, exists, past, answered>>

\* Mutant of ParentTake: the parent goes round once more.
ParentTakeInclusive ==
  /\ ppc = "take"
  /\ semP > 0
  /\ semP' = semP - 1
  /\ pi' = pi + 1
  /\ ppc' = IF pi' <= Rounds THEN "post" ELSE "wait"
  /\ UNCHANGED <<cpc, ci, semC, exists, past, turns>>

ParentTake == /\ ppc = "take"
              /\ semP > 0
              /\ semP' = semP - 1
              /\ pi' = pi + 1
              /\ ppc' = IF pi' < Rounds THEN "post" ELSE "wait"
              /\ UNCHANGED <<cpc, ci, semC, exists, past, turns>>

\* wait(&stat), or waitpid in forked_child::clear; without a child it fails
\* at once and the parent goes on.
ParentWait == /\ ppc = "wait"
              /\ cpc \in {"exited", "none"}
              /\ cpc' = IF cpc = "exited" THEN "reaped" ELSE cpc
              /\ ppc' = "close"
              /\ UNCHANGED <<pi, ci, sems, past, turns>>

\* sem_close of both; the values stay.  main.cpp ends here.
ParentClose == /\ ppc = "close"
               /\ ppc' = IF unlinks THEN "unlinkC" ELSE "exited"
               /\ UNCHANGED <<cpc, pi, ci, sems, past, turns>>

\* main.c unlinks the names, one after the other, and exits.
UnlinkC == /\ ppc = "unlinkC"
           /\ exists' = exists \ {"C"}
           /\ ppc' = "unlinkP"
           /\ UNCHANGED <<cpc, pi, ci, semC, semP, past, turns>>

UnlinkP == /\ ppc = "unlinkP"
           /\ exists' = exists \ {"P"}
           /\ ppc' = "exited"
           /\ UNCHANGED <<cpc, pi, ci, semC, semP, past, turns>>

--------------------------------------------------------------------------------
(* The child.                                                              *)

\* Mutant of ChildTake: the child does not wait for its turn.
ChildTakeAnyway == /\ cpc = "take"
                   /\ semC' = IF semC > 0 THEN semC - 1 ELSE 0
                   /\ cpc' = "post"
                   /\ UNCHANGED <<ppc, pi, ci, semP, exists, past, turns>>

ChildTake == /\ cpc = "take"
             /\ semC > 0
             /\ semC' = semC - 1
             /\ cpc' = "post"
             /\ UNCHANGED <<ppc, pi, ci, semP, exists, past, turns>>

\* Mutant of ChildPost: the child answers every turn but its last.
ChildPostButLast ==
  /\ cpc = "post"
  /\ ci' = ci + 1
  /\ semP' = IF ci' < Rounds THEN semP + 1 ELSE semP
  /\ answered' = answered + 1
  /\ cpc' = IF ci' < Rounds THEN "take" ELSE "close"
  /\ UNCHANGED <<ppc, pi, semC, exists, past, asked>>

ChildPost == /\ cpc = "post"
             /\ semP' = semP + 1
             /\ answered' = answered + 1
             /\ ci' = ci + 1
             /\ cpc' = IF ci' < Rounds THEN "take" ELSE "close"
             /\ UNCHANGED <<ppc, pi, semC, exists, past, asked>>

\* sem_close of both and exit: the values stay.
ChildExit == /\ cpc = "close"
             /\ cpc' = "exited"
             /\ UNCHANGED <<ppc, pi, ci, sems, past, turns>>

--------------------------------------------------------------------------------

\* The program is started again, after it ended or was interrupted.
Restart == /\ run < MaxRuns
           /\ ppc = "exited" \/ Interrupts
           /\ run' = run + 1
           /\ dirty' = IF ppc = "exited" THEN dirty ELSE Name
           /\ ppc' = "openC" /\ cpc' = "none" /\ pi' = 0 /\ ci' = 0
           /\ asked' = 0 /\ answered' = 0
           /\ UNCHANGED <<sems, unlinks>>

Parent == \/ OpenC \/ OpenP \/ Fork \/ ForkFails
          \/ ParentPost \/ ParentTake \/ ParentWait
          \/ ParentClose \/ UnlinkC \/ UnlinkP
Child  == ChildTake \/ ChildPost \/ ChildExit

Terminated == ppc = "exited" /\ run = MaxRuns /\ UNCHANGED vars

Next == Parent \/ Child \/ Restart \/ Terminated

(* Both processes are scheduled; nothing forces a Restart.                 *)
Fairness == WF_vars(Parent) /\ WF_vars(Child)

Spec     == Init /\ [][Next]_vars
FairSpec == Spec /\ Fairness

--------------------------------------------------------------------------------

TypeOK == /\ ppc \in ParentLabel
          /\ cpc \in {"none", "take", "post", "close", "exited", "reaped"}
          /\ {pi, ci, asked, answered} \subseteq 0 .. Rounds
          /\ {semC, semP} \subseteq Nat
          /\ exists \subseteq Name /\ dirty \subseteq Name
          /\ unlinks \in Unlinks
          /\ run \in 1 .. MaxRuns

\* A token in the hands of the child, between its sem_wait and its sem_post.
Holding == IF cpc = "post" THEN 1 ELSE 0

(* One token is under way at most: a turn is in one of the semaphores or   *)
(* with the child, never both, and when the parent has left the loop both  *)
(* semaphores are empty, so a run that ends leaves nothing to the next one *)
(* even where the names stay (main.cpp).  main.c comes back to this after  *)
(* any run that ends, whatever went wrong before: it unlinks the names.  A *)
(* run interrupted between the two may leave a name behind.                *)
OneToken ==
  dirty = {} =>
    /\ semC + semP + Holding <= 1
    /\ ppc \in {"wait", "close", "unlinkC", "unlinkP", "exited"} =>
         semC = 0 /\ semP = 0

(* Run after run, as long as none goes wrong, the posts of the two         *)
(* processes alternate as PingPong says, and a run ends only when all its  *)
(* turns were taken.                                                       *)
Alternation == INSTANCE PingPong
Alternates  == /\ Alternation!Init
               /\ [][dirty # {} \/ dirty' # {} \/ Alternation!Next]_turns

(* Runs that go wrong leave tokens in the semaphores, one each at most:    *)
(* the tokens do not multiply, wherever parent and child were.             *)
TokensPerRun == semC + semP + Holding <= run

(* The last run ends with its child reaped, whatever tokens earlier runs   *)
(* left, once its fork has succeeded.                                      *)
Termination == (run = MaxRuns /\ cpc # "none")
                 ~> (ppc = "exited" /\ cpc = "reaped")
================================================================================
