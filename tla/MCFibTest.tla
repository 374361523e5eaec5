------------------------------- MODULE MCFibTest -------------------------------
(* The inner loop runs once or twice in each iteration: pthread.c starts    *)
(* it from 0 and lab1.c from 1.                                             *)
EXTENDS FibTest

SeqCounts == [pthread |-> 1, lab1 |-> 3]
================================================================================
