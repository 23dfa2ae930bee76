--------------------------- MODULE MCSessionCache ---------------------------
(***************************************************************************)
(* Values for checking SessionCache: the secret of main.go may be edited   *)
(* or missing, and starts or ends up with the credential of an inventory.  *)
(***************************************************************************)
EXTENDS SessionCache

CONSTANTS m, s1, A, B

MCMayHold == [s \in {m, s1} |-> IF s = m THEN {A, B, Missing} ELSE {A}]

=============================================================================
