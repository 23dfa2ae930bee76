------------------------------ MODULE BridgeApi ------------------------------
(***************************************************************************)
(* The Crunchy Bridge service as the operator sees it through              *)
(* internal/bridgeapi/client.go.  Each method of the client that the       *)
(* BridgeCluster controller calls is an operator here: it relates the      *)
(* state of the service before and after the call to the reply, "ok" or    *)
(* "error", that the method returns to its caller.                         *)
(*                                                                         *)
(* A call may also meet a fault.  Faults names the kinds that may happen   *)
(* and MaxFaults bounds how many do:                                       *)
(*   "err"     the call is refused or never arrives (precheck, transport,  *)
(*             a 4xx or 5xx answer) and the method returns an error;       *)
(*   "lost"    the call takes effect and its answer is lost;               *)
(*   "odd"     POST /clusters is answered with a status that is none of    *)
(*             201, 400 and 409, and creates nothing;                      *)
(*   "console" a person creates or deletes a cluster without the operator. *)
(* BridgeCluster adds kinds of its own.                                    *)
(***************************************************************************)
EXTENDS Naturals, Sequences

CONSTANTS
    Ids,         \* cluster identifiers
    Owners,      \* the objects clusters are created for
    Nobody,      \* the owner of what a person creates
    Names,       \* cluster names
    TeamOrder,   \* the teams, in the order GET /teams lists them
    DefaultTeam, \* what GET /account gives for an empty team
    Faults,      \* kinds of fault that may happen
    MaxFaults    \* how many faults may happen: a bound

Teams == {TeamOrder[i] : i \in DOMAIN TeamOrder}

ASSUME TeamOrderIsSequence == TeamOrder \in Seq(Teams)
ASSUME DefaultTeamListed == DefaultTeam \in Teams
ASSUME NobodyIsNoOwner == Nobody \notin Owners
ASSUME MaxFaultsNatural == MaxFaults \in Nat

VARIABLES
    clusters,    \* what the service knows of each identifier
    faults       \* how many faults have happened

apiVars == <<clusters, faults>>

\* "none": the identifier is not in use yet.  owner is history: the object
\* that the cluster was created for.
ClusterRecord ==
    [state : {"none", "creating", "ready", "deleted"},
     name : Names \cup {""}, team : Teams \cup {""},
     owner : Owners \cup {Nobody}]

NoCluster == [state |-> "none", name |-> "", team |-> "", owner |-> Nobody]

ApiTypeOK ==
    /\ clusters \in [Ids -> ClusterRecord]
    /\ faults \in 0..MaxFaults

ApiInit ==
    /\ clusters = [id \in Ids |-> NoCluster]
    /\ faults = 0

Fault(kind) ==
    /\ kind \in Faults
    /\ faults < MaxFaults
    /\ faults' = faults + 1

Exists(id) == id \in Ids /\ clusters[id].state \in {"creating", "ready"}

Named(name, team) ==
    {id \in Ids : /\ Exists(id)
                  /\ clusters[id].name = name
                  /\ clusters[id].team = team}

\* The service starts a cluster under a new identifier.
Build(name, team, owner) ==
    \E id \in Ids :
        /\ clusters[id].state = "none"
        /\ clusters' = [clusters EXCEPT ![id] =
                           [state |-> "creating", name |-> name,
                            team |-> team, owner |-> owner]]

-----------------------------------------------------------------------------
(* The methods of the client.                                              *)

\* Mutant: a conflict is taken for success.
CreateClusterConflictOK(name, team, owner, reply) ==
    \/ /\ Named(name, team) = {}
       /\ Build(name, team, owner)
       /\ \/ reply = "ok" /\ UNCHANGED faults
          \/ reply = "error" /\ Fault("lost")
    \/ /\ UNCHANGED clusters
       /\ \/ reply = "ok" /\ Named(name, team) # {} /\ UNCHANGED faults
          \/ reply = "error" /\ Fault("err")
          \/ reply = "ok" /\ Fault("odd")

\* POST /clusters.  Names are unique per team: a second request gets a 409.
\* A status that is none of 201, 400 and 409 is logged and returned as nil.
CreateCluster(name, team, owner, reply) ==
    \/ /\ Named(name, team) = {}
       /\ Build(name, team, owner)
       /\ \/ reply = "ok" /\ UNCHANGED faults
          \/ reply = "error" /\ Fault("lost")
    \/ /\ UNCHANGED clusters
       /\ \/ reply = "error" /\ Named(name, team) # {} /\ UNCHANGED faults
          \/ reply = "error" /\ Fault("err")
          \/ reply = "ok" /\ Fault("odd")

\* DELETE /clusters/{id}.  An identifier the service no longer knows is
\* answered with a status that is neither 200 nor 204.
DeleteCluster(id, reply) ==
    \/ /\ Exists(id)
       /\ clusters' = [clusters EXCEPT ![id].state = "deleted"]
       /\ \/ reply = "ok" /\ UNCHANGED faults
          \/ reply = "error" /\ Fault("lost")
    \/ /\ UNCHANGED clusters
       /\ reply = "error"
       /\ \/ ~Exists(id) /\ UNCHANGED faults
          \/ Fault("err")

\* GET /account, GET /teams and GET /clusters?team_id=...
Read(reply) ==
    /\ UNCHANGED clusters
    /\ \/ reply = "ok" /\ UNCHANGED faults
       \/ reply = "error" /\ Fault("err")

\* ClusterDetail and DefaultConnRole: GET below /clusters/{id}.
ReadCluster(id, reply) ==
    /\ UNCHANGED clusters
    /\ \/ reply = "ok" /\ Exists(id) /\ UNCHANGED faults
       \/ reply = "error" /\ ~Exists(id) /\ UNCHANGED faults
       \/ reply = "error" /\ Fault("err")

-----------------------------------------------------------------------------
(* What happens at the service without the operator.                       *)

Provision(id) ==
    /\ clusters[id].state = "creating"
    /\ clusters' = [clusters EXCEPT ![id].state = "ready"]
    /\ UNCHANGED faults

ConsoleCreate(name, team) ==
    /\ Fault("console")
    /\ Named(name, team) = {}
    /\ Build(name, team, Nobody)

ConsoleDelete(id) ==
    /\ Fault("console")
    /\ Exists(id)
    /\ clusters' = [clusters EXCEPT ![id].state = "deleted"]

=============================================================================
