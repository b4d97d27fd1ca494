---------------------------- MODULE MCTimedLoop -----------------------------
(* Instances of TimedLoop for TLC. *)
EXTENDS TimedLoop

\* Regions of one to three calls, with and without a remainder.
MCActives == {2, 5, 6}
MCChkpts == {0, 2, 3, 7}
MCTargets == {0, 1, 6}
MCCosts == {1, 3}
=============================================================================
