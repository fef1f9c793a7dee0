---------------------------- MODULE MCBridgeServe ----------------------------
(***************************************************************************)
(* Small instances of BridgeServe for TLC.                                 *)
(***************************************************************************)
EXTENDS BridgeServe

CONSTANTS d1, d2, r1, r2

TwoDevices == <<d1, d2>>
=============================================================================
