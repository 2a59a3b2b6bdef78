----------------------------- MODULE MC_Baseline -----------------------------
(***************************************************************************)
(* An instance of X509Baseline for TLC.                                    *)
(***************************************************************************)
EXTENDS BaselineProperties

CONSTANTS x1, x2

NoClients == {}
TwoX509 == {x1, x2}

=============================================================================
