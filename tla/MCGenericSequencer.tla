-------------------------- MODULE MCGenericSequencer ---------------------------
(* Small instances of GenericSequencer.  Rates that divide a second        *)
(* unevenly, as 3 Hz divides a second in nanoseconds; a service that       *)
(* starts late; services due together, at the horizon too.                 *)
EXTENDS GenericSequencer

FreqTies  == <<3, 2>>
PhaseLate == <<0, 1>>
FreqTwo   == <<3, 1>>
PhaseTwo  == <<0, 0>>
================================================================================
