------------------------------- MODULE MCModulo --------------------------------
(***************************************************************************)
(* The tables of the three programs of ModuloSequencer, for N of their     *)
(* services.  Priorities are counted down from rt_max_prio, here 0.        *)
(***************************************************************************)
EXTENDS ModuloSequencer

\* seqgen.c: the line that would pin the threads is commented out, so they
\* all share the machine's cores.  The divisors 10, 30, 60, 30, 60, 30, 300
\* keep their proportions.  Service_4 has the priority of Service_3.  Three
\* of the seven services, by their number in the program.
SeqgenIndex == <<1, 3, 4>>
SeqgenDiv   == <<1, 3, 6, 3, 6, 3, 30>>
SeqgenPrio  == <<-1, -2, -3, -3, -3, -2, -98>>
Seqgen ==
  [div |-> [s \in Service |-> SeqgenDiv[SeqgenIndex[s]]],
   posting |-> Service, countFirst |-> TRUE, periods |-> 7, exits |-> TRUE,
   prio  |-> [t \in Thread |-> IF t = Sequencer THEN 0
                               ELSE SeqgenPrio[SeqgenIndex[t]]],
   group |-> [t \in Thread |-> "all"],
   width |-> [g \in {"all"} |-> 4]]

\* seqgen2.c: the Sequencer on core 1, even threads on core 2, odd ones on
\* core 3.  Three of its seven services: Service_5, whose release is commented
\* out like those of 1 to 4, Service_6 and Service_7.  Their divisors 50, 100
\* and 100 keep their proportions.
Seqgen2Index == <<5, 6, 7>>
Seqgen2 ==
  [div |-> <<1, 2, 2>>, posting |-> {2, 3}, countFirst |-> TRUE, periods |-> 4,
   exits |-> TRUE,
   prio  |-> [t \in Thread |-> IF t = Sequencer THEN 0
                               ELSE IF Seqgen2Index[t] = 7 THEN 0 - 98
                               ELSE 0 - Seqgen2Index[t]],
   group |-> [t \in Thread |-> IF t = Sequencer THEN "core1"
                               ELSE IF Seqgen2Index[t] % 2 = 0 THEN "core2"
                               ELSE "core3"],
   width |-> [g \in {"core1", "core2", "core3"} |-> 1]]

\* seqgenex0.c: three services at their real divisors, everything on core 3.
SeqgenEx0 ==
  [div |-> <<2, 10, 15>>, posting |-> Service, countFirst |-> FALSE,
   periods |-> 32, exits |-> FALSE,
   prio  |-> [t \in Thread |-> 0 - t],
   group |-> [t \in Thread |-> "core3"],
   width |-> [g \in {"core3"} |-> 1]]

AllTables    == [seqgen |-> Seqgen, seqgen2 |-> Seqgen2, seqgenex0 |-> SeqgenEx0]
Seqgen2Table == [seqgen2 |-> Seqgen2]
================================================================================
