-------------------------------- MODULE MC_Vc --------------------------------
(***************************************************************************)
(* Instances of VcExchange for TLC.                                        *)
(***************************************************************************)
EXTENDS VcProperties

CONSTANTS s1, x1

AllQualities == {"good", "unreadable", "unverified"}

OneSsi == {s1}
OneX509 == {x1}
NoClients == {}

=============================================================================
