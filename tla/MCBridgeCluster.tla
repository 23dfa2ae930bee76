--------------------------- MODULE MCBridgeCluster ---------------------------
(* Small instances of BridgeCluster for TLC. *)
EXTENDS BridgeCluster, TLC

CONSTANTS k1, k2

Both == {k1, k2}
One == {k1}

\* One team, and a personal team with one more.
OneTeam == <<"personal">>
TwoTeams == <<"personal", "work">>

\* Two objects that compete for one name.
SameName == {[name |-> "alpha", team |-> ""]}
\* A name for each.
TwoNames == {[name |-> "alpha", team |-> ""], [name |-> "omega", team |-> "personal"]}
\* One name in each of two teams.
NameInTwoTeams == {[name |-> "alpha", team |-> "personal"],
                   [name |-> "alpha", team |-> "work"]}

Symmetric == Permutations(Keys) \cup Permutations(Ids)

=============================================================================
