------------------------------- MODULE PingPong --------------------------------
(***************************************************************************)
(* What 03-twoprocs promises: parent and child take turns, the parent      *)
(* first, for a number of rounds.                                          *)
(***************************************************************************)
EXTENDS Naturals

CONSTANT Rounds

VARIABLES asked,    \* turns the parent has taken
          answered  \* turns the child has taken

vars == <<asked, answered>>

Init == asked = 0 /\ answered = 0

Ask == /\ asked = answered
       /\ asked < Rounds
       /\ asked' = asked + 1
       /\ UNCHANGED answered

Answer == /\ answered < asked
          /\ answered' = answered + 1
          /\ UNCHANGED asked

\* The program is run again when all turns were taken.
Again == /\ asked = Rounds /\ answered = Rounds
         /\ asked' = 0 /\ answered' = 0

Next == Ask \/ Answer \/ Again

Spec == Init /\ [][Next]_vars
================================================================================
