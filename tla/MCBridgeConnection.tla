-------------------------- MODULE MCBridgeConnection --------------------------
(* Small instances of BridgeConnection for TLC. *)
EXTENDS BridgeConnection

CONSTANTS i1, i2

TwoTargets == [inventory : Inventories, id : {i1, i2}]

OneTeam == <<"personal">>

===============================================================================
