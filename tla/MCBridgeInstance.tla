--------------------------- MODULE MCBridgeInstance ---------------------------
(* Small instances of BridgeInstance for TLC. *)
EXTENDS BridgeInstance

CONSTANTS k1

One == {k1}

OneTeam == <<"personal">>

\* One name, with and without its team.
OneName == {[name |-> "alpha", team |-> ""],
            [name |-> "alpha", team |-> "personal"]}

===============================================================================
