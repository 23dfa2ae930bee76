--------------------------- MODULE MCLoginManager ---------------------------
(* Small instances of LoginManager for TLC. *)
EXTENDS LoginManager, TLC

GoroutineSymmetry == Permutations(Clients) \cup Permutations(Runners)

=============================================================================
