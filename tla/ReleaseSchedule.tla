---------------------------- MODULE ReleaseSchedule ----------------------------
(***************************************************************************)
(* What every sequencer of the repository promises, whatever it keeps its  *)
(* release list in: a logical clock that only moves forward, and for each  *)
(* service a stream of releases, the k-th (from 0) at Due(s, k).  Nothing  *)
(* due is overtaken by the clock, nothing is released early, twice or out  *)
(* of turn.                                                                *)
(*                                                                         *)
(* GenericSequencer (a priority queue of deadlines) and ModuloSequencer (a *)
(* loop counter and remainders) both implement it.                         *)
(***************************************************************************)
EXTENDS Naturals

CONSTANTS Service,   \* the services that are released
          Due(_, _)  \* Due(s, k): logical instant of the k-th release of s

VARIABLES now,       \* the logical clock
          released   \* released[s]: releases of s so far

vars == <<now, released>>

Init == /\ now = 0
        /\ released = [s \in Service |-> 0]

\* Time passes, but never over a release that is still owed.
Advance == /\ now' > now
           /\ \A s \in Service : now' <= Due(s, released[s])
           /\ UNCHANGED released

\* The release of s that is due at this very instant is handed out.
Release(s) == /\ Due(s, released[s]) = now
              /\ released' = [released EXCEPT ![s] = @ + 1]
              /\ UNCHANGED now

Next == Advance \/ \E s \in Service : Release(s)

Spec == Init /\ [][Next]_vars
================================================================================
