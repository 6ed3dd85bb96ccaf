---------------------------- MODULE MCIpFailsafe ----------------------------
(***************************************************************************)
(* Instances of IpFailsafe for TLC: one speaker, two or three addresses,   *)
(* up to two retries.                                                      *)
(***************************************************************************)
EXTENDS IpFailsafe

CONSTANT d1

Contested == {"takeover"}
Everything == PossibleEnv
=============================================================================
