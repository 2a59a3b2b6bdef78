------------------------------- MODULE MC_Bench -------------------------------
(***************************************************************************)
(* Instances of BenchRounds for TLC.                                       *)
(***************************************************************************)
EXTENDS BenchProperties

=============================================================================
