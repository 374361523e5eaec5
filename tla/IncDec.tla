-------------------------------- MODULE IncDec ---------------------------------
(***************************************************************************)
(* 02-incdecthread: one thread adds to two globals, another subtracts from *)
(* them, Count times each.  gsum is a plain int, read, changed and written *)
(* back in separate steps; agsum is atomic.  pthread.c joins both threads  *)
(* before main prints; main.cpp prints with the threads still running and  *)
(* joins them in the destructors of t1 and t2.  Where a thread cannot be   *)
(* created pthread.c goes on without it, and main.cpp ends by an exception *)
(* that nobody catches.                                                    *)
(***************************************************************************)
EXTENDS Integers

CONSTANTS
  Count,  \* COUNT, iterations of each thread
  Amount  \* INCDEC_AMOUNT

ASSUME IncDecAssumption ==
  /\ Count \in Nat \ {0}
  /\ Amount \in Nat

Thread == {"inc", "dec"}

VARIABLES
  joinsFirst, \* main joins before it prints: the program is pthread.c
  gsum,    \* the unsafe global
  agsum,   \* the atomic one
  tpc,     \* tpc[t]: where thread t is in its loop
  reg,     \* reg[t]: the value of gsum that t has loaded
  iter,    \* iter[t]: iterations t has finished
  stores,  \* stores[t]: writes of gsum by t, a history variable
  mpc,     \* main: "create", "join", "print", "end"; "crashed" is the process
  printed  \* the values main printed, or <<>>

threadVars == <<tpc, reg, iter, stores>>
vars == <<joinsFirst, gsum, agsum, threadVars, mpc, printed>>

Delta(t) == IF t = "inc" THEN Amount ELSE 0 - Amount

Init == /\ joinsFirst \in BOOLEAN
        /\ gsum = 0 /\ agsum = 0
        /\ tpc = [t \in Thread |-> "none"]
        /\ reg = [t \in Thread |-> 0]
        /\ iter = [t \in Thread |-> 0]
        /\ stores = [t \in Thread |-> 0]
        /\ mpc = "create"
        /\ printed = <<>>

\* Threads are created one after the other; the first may run at once.  A
\* failure is ignored by pthread.c and thrown by main.cpp's xpto::thread.
Create ==
  /\ mpc = "create"
  /\ \E ok \in BOOLEAN :
       LET t == IF tpc["inc"] = "none" THEN "inc" ELSE "dec" IN
         /\ tpc' = [tpc EXCEPT ![t] = IF ok THEN "load" ELSE "absent"]
         /\ mpc' = IF ~ok /\ ~joinsFirst THEN "crashed"
                   ELSE IF t = "inc" THEN "create"
                   ELSE IF joinsFirst THEN "join" ELSE "print"
  /\ UNCHANGED <<joinsFirst, gsum, agsum, reg, iter, stores, printed>>

\* Mutant of Join: only the first thread is joined.
JoinFirstOnly == /\ mpc = "join"
                 /\ tpc["inc"] \in {"done", "absent"}
                 /\ mpc' = IF joinsFirst THEN "print" ELSE "end"
                 /\ UNCHANGED <<joinsFirst, gsum, agsum, threadVars, printed>>

\* pthread_join of both threads.  That of a handle nobody wrote is undefined:
\* it returns an error nobody looks at ...
Join == /\ mpc = "join"
        /\ \A t \in Thread : tpc[t] \in {"done", "absent"}
        /\ mpc' = IF joinsFirst THEN "print" ELSE "end"
        /\ UNCHANGED <<joinsFirst, gsum, agsum, threadVars, printed>>

\* ... or the process crashes, when it is that thread's turn.
JoinCrashes == /\ mpc = "join"
               /\ \/ tpc["inc"] = "absent"
                  \/ tpc["inc"] = "done" /\ tpc["dec"] = "absent"
               /\ mpc' = "crashed"
               /\ UNCHANGED <<joinsFirst, gsum, agsum, threadVars, printed>>

PrintSums == /\ mpc = "print"
             /\ printed' = <<gsum, agsum>>
             /\ mpc' = IF joinsFirst THEN "end" ELSE "join"
             /\ UNCHANGED <<joinsFirst, gsum, agsum, threadVars>>

\* gsum=gsum+INCDEC_AMOUNT: the load ...
Load(t) == /\ tpc[t] = "load"
           /\ reg' = [reg EXCEPT ![t] = gsum]
           /\ tpc' = [tpc EXCEPT ![t] = "store"]
           /\ UNCHANGED <<joinsFirst, gsum, agsum, iter, stores, mpc, printed>>

\* Mutant of Store: the amount is added twice, to the copy and to the global.
StoreTwice(t) == /\ tpc[t] = "store"
                 /\ gsum' = reg[t] + 2 * Delta(t)
                 /\ stores' = [stores EXCEPT ![t] = @ + 1]
                 /\ tpc' = [tpc EXCEPT ![t] = "add"]
                 /\ UNCHANGED <<joinsFirst, agsum, reg, iter, mpc, printed>>

\* ... and the store, of a value that may be out of date by now.
Store(t) == /\ tpc[t] = "store"
            /\ gsum' = reg[t] + Delta(t)
            /\ stores' = [stores EXCEPT ![t] = @ + 1]
            /\ tpc' = [tpc EXCEPT ![t] = "add"]
            /\ UNCHANGED <<joinsFirst, agsum, reg, iter, mpc, printed>>

\* Mutant of AtomicAdd: one iteration too many.
AtomicAddInclusive(t) ==
  /\ tpc[t] = "add"
  /\ agsum' = agsum + Delta(t)
  /\ iter' = [iter EXCEPT ![t] = @ + 1]
  /\ tpc' = [tpc EXCEPT ![t] = IF iter'[t] <= Count THEN "load" ELSE "done"]
  /\ UNCHANGED <<joinsFirst, gsum, reg, stores, mpc, printed>>

\* atomic_fetch_add / atomic_fetch_sub, and the loop.
AtomicAdd(t) == /\ tpc[t] = "add"
                /\ agsum' = agsum + Delta(t)
                /\ iter' = [iter EXCEPT ![t] = @ + 1]
                /\ tpc' = [tpc EXCEPT ![t] = IF iter'[t] < Count THEN "load"
                                                                 ELSE "done"]
                /\ UNCHANGED <<joinsFirst, gsum, reg, stores, mpc, printed>>

ThreadStep(t) == Load(t) \/ Store(t) \/ AtomicAdd(t)

Next == \/ Create \/ Join \/ JoinCrashes \/ PrintSums
        \/ mpc # "crashed" /\ \E t \in Thread : ThreadStep(t)
        \/ mpc \in {"end", "crashed"} /\ UNCHANGED vars

Spec == Init /\ [][Next]_vars

--------------------------------------------------------------------------------

TypeOK == /\ joinsFirst \in BOOLEAN
          /\ gsum \in Int /\ agsum \in Int
          /\ tpc \in [Thread -> {"none", "absent", "load", "store", "add", "done"}]
          /\ reg \in [Thread -> Int]
          /\ iter \in [Thread -> 0 .. Count]
          /\ stores \in [Thread -> 0 .. Count]
          /\ mpc \in {"create", "join", "print", "end", "crashed"}
          /\ printed \in {<<>>} \cup (Int \X Int)

(* However the updates are lost, gsum never leaves the range its two       *)
(* threads span on their own: a stale copy is never older than the         *)
(* additions and subtractions stored so far.  So an int overflows only if  *)
(* Count * Amount does (pthread.c, lines 8-9), race or no race.            *)
GsumBounded == /\ 0 - Amount * stores["dec"] <= gsum
               /\ gsum <= Amount * stores["inc"]

\* All that thread t was to add or subtract, if there is one.
Whole(t) == IF tpc[t] = "absent" THEN 0 ELSE Amount * Count

(* What main prints of the atomic global is exact if it joins first: all   *)
(* additions and all subtractions of the threads it could create are in    *)
(* it, which is 0 where it created both.  main.cpp, which calls agsum      *)
(* "safe" (line 7), prints whatever it is at that moment.                  *)
PrintedExact ==
  (joinsFirst /\ printed # <<>>) => printed[2] = Whole("inc") - Whole("dec")
================================================================================
