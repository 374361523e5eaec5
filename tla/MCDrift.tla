-------------------------------- MODULE MCDrift --------------------------------
(* The clock is set back by less than a period, set forward, and set back  *)
(* by more than line 243 of seqgenex0.c can carry.                         *)
EXTENDS DriftControl

StepSizes == {-30, -2, 14}
================================================================================
