----------------------------- MODULE MCIntervals ------------------------------
(* Instances of Intervals for TLC.                                           *)
EXTENDS Intervals
=============================================================================
