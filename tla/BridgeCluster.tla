---------------------------- MODULE BridgeCluster ----------------------------
(***************************************************************************)
(* The BridgeCluster controller                                            *)
(* (controllers/crunchybridge/bridgecluster_controller.go) between the     *)
(* Kubernetes API and the Crunchy Bridge service.                          *)
(*                                                                         *)
(* One worker takes object keys from a queue and runs Reconcile.  It reads *)
(* objects from a cache that lags behind the API server, and writes to the *)
(* API server, which refuses a write made from an outdated version.  Each  *)
(* remote call of Reconcile is one step.                                   *)
(*                                                                         *)
(* Beyond those of BridgeApi, the kinds of fault are                       *)
(*   "touch"   somebody writes the object's metadata,                      *)
(*   "edit"    somebody changes the object's spec,                         *)
(*   "kube"    a write to the API server fails, applied or not,            *)
(*   "restart" the operator stops and starts again.                        *)
(***************************************************************************)
EXTENDS BridgeApi

CONSTANTS
    Keys,      \* names of BridgeCluster objects
    NoKey,
    NoId,      \* an empty Status.Cluster.ID
    Specs,     \* the specs a user writes: [name, team]; team "" is the default
    MaxEdits   \* how many objects users create or delete: a bound

ASSUME KeysOwn == Keys = Owners /\ NoKey \notin Keys
ASSUME NoIdIsNone == NoId \notin Ids
ASSUME SpecsKnown == Specs \subseteq [name : Names, team : Teams \cup {""}]
ASSUME MaxEditsNatural == MaxEdits \in Nat

VARIABLES api, watch, seen, queue, worker, edits

vars == <<clusters, faults, api, watch, seen, queue, worker, edits>>

NoSpec == [name |-> "", team |-> ""]

Phases == {"", "Pending", "Creating", "Ready"}

NextPhase == [phase \in Phases |-> CASE phase = ""         -> {"Pending"}
                                      [] phase = "Pending"  -> {"Creating"}
                                      [] phase = "Creating" -> {"Ready"}
                                      [] phase = "Ready"    -> {}]

Version ==
    [life : {"absent", "live", "deleting"}, finalizer : BOOLEAN,
     phase : Phases, id : Ids \cup {NoId}, spec : Specs \cup {NoSpec}]

Absent == [life |-> "absent", finalizer |-> FALSE, phase |-> "",
           id |-> NoId, spec |-> NoSpec]

\* The locals of Reconcile.  obj is clusterObj; id and ready are what is known
\* of the cluster; todo holds the teams still to be listed.
IdleWorker == [pc |-> "idle", key |-> NoKey, obj |-> Absent, fresh |-> FALSE,
               id |-> NoId, ready |-> FALSE, todo |-> <<>>]

INSTANCE KubeObjects

Calls == {"delete", "unfinalize", "addFinalizer", "setPending", "defaultTeam",
          "create", "setCreating", "listTeams", "listClusters", "detail",
          "role", "setStatus"}

Init ==
    /\ ApiInit
    /\ api = [k \in Keys |-> Absent]
    /\ watch = [k \in Keys |-> <<>>]
    /\ seen = [k \in Keys |-> Absent]
    /\ queue = {}
    /\ worker = IdleWorker
    /\ edits = 0

-----------------------------------------------------------------------------
(* Calls, and what happens without the operator.                           *)

\* A write to the API server.
Write(version, next, requeue) ==
    /\ \/ Update(version, next, requeue, FALSE) /\ UNCHANGED faults
       \/ Update(version, next, requeue, TRUE) /\ Fault("kube")
    /\ UNCHANGED <<clusters, edits>>

\* A call to the Bridge API that goes on as next when it succeeds.
Continue(reply, next) ==
    /\ \/ reply = "ok" /\ GoOn(next, {})
       \/ reply = "error" /\ ReturnError
    /\ UNCHANGED <<api, watch, seen, edits>>

CacheStep ==
    /\ Resync \/ \E k \in Keys : Deliver(k)
    /\ UNCHANGED <<clusters, faults, edits>>

OperatorRestart ==
    /\ Fault("restart")
    /\ Restart
    /\ UNCHANGED <<clusters, edits>>

Edit ==
    /\ edits < MaxEdits
    /\ edits' = edits + 1
    /\ UNCHANGED <<clusters, faults>>

UserCreate(k, spec) ==
    /\ Edit
    /\ api[k].life = "absent"
    /\ ForeignCommit(k, [Absent EXCEPT !.life = "live", !.spec = spec])

UserDelete(k) == Edit /\ ForeignDelete(k)

Touch(k) ==
    /\ Fault("touch")
    /\ api[k].life # "absent"
    /\ ForeignCommit(k, api[k])
    /\ UNCHANGED <<clusters, edits>>

UserEdit(k, spec) ==
    /\ Fault("edit")
    /\ api[k].life = "live"
    /\ spec # api[k].spec
    /\ ForeignCommit(k, [api[k] EXCEPT !.spec = spec])
    /\ UNCHANGED <<clusters, edits>>

-----------------------------------------------------------------------------
(* Reconcile.                                                              *)

Team(spec) == IF spec.team = "" THEN DefaultTeam ELSE spec.team

\* Mutant: the finalizer is removed without deleting the cluster.
DeletionCallNoDelete(obj) == IF obj.finalizer THEN "unfinalize" ELSE "idle"

\* The first call for an object with a deletion timestamp.
DeletionCall(obj) ==
    CASE ~obj.finalizer -> "idle"
      [] obj.finalizer  -> IF obj.id # NoId THEN "delete" ELSE "unfinalize"

\* Mutant: the finalizer is left out.
PhaseCallNoFinalizer(obj) ==
    CASE obj.phase = ""         -> "setPending"
      [] obj.phase = "Pending"  -> IF obj.spec.team = "" THEN "defaultTeam"
                                                         ELSE "create"
      [] obj.phase = "Creating" -> IF obj.id = NoId THEN "listTeams"
                                                    ELSE "detail"
      [] obj.phase = "Ready"    -> "idle"

\* The first call for an object without deletion timestamp, by its phase.
PhaseCall(obj) ==
    CASE obj.phase = ""         -> IF obj.finalizer THEN "setPending"
                                                    ELSE "addFinalizer"
      [] obj.phase = "Pending"  -> IF obj.spec.team = "" THEN "defaultTeam"
                                                         ELSE "create"
      [] obj.phase = "Creating" -> IF obj.id = NoId THEN "listTeams"
                                                    ELSE "detail"
      [] obj.phase = "Ready"    -> "idle"

\* The first call of Reconcile on an object, "idle" when there is none.
FirstCall(obj) ==
    CASE obj.life = "absent"   -> "idle"
      [] obj.life = "deleting" -> DeletionCall(obj)
      [] obj.life = "live"     -> PhaseCall(obj)

\* Reconcile starts with the object that the cache has.
Reconcile(k) ==
    /\ Take(k, IF FirstCall(seen[k]) = "idle"
               THEN IdleWorker
               ELSE [IdleWorker EXCEPT !.pc = FirstCall(seen[k]),
                                       !.key = k,
                                       !.obj = seen[k],
                                       !.fresh = (watch[k] = <<>>),
                                       !.id = seen[k].id])
    /\ UNCHANGED <<clusters, faults, edits>>

AddFinalizer ==
    /\ worker.pc = "addFinalizer"
    /\ LET obj == [worker.obj EXCEPT !.finalizer = TRUE]
       IN  Write(obj, [worker EXCEPT !.pc = "setPending", !.obj = obj], {})

\* Mutant: the phase is spelled as in the comment of the API type.
SetPendingLowerCase ==
    /\ worker.pc = "setPending"
    /\ Write([worker.obj EXCEPT !.phase = "pending"], IdleWorker, {})

SetPending ==
    /\ worker.pc = "setPending"
    /\ Write([worker.obj EXCEPT !.phase = "Pending"], IdleWorker, {})

\* createFromSpec asks for the default team when the spec names none.
DefaultTeamID ==
    /\ worker.pc = "defaultTeam"
    /\ \E reply \in {"ok", "error"} :
        Read(reply) /\ Continue(reply, [worker EXCEPT !.pc = "create"])

Create ==
    /\ worker.pc = "create"
    /\ \E reply \in {"ok", "error"} :
        /\ CreateCluster(worker.obj.spec.name, Team(worker.obj.spec),
                         worker.key, reply)
        /\ Continue(reply, [worker EXCEPT !.pc = "setCreating"])

SetCreating ==
    /\ worker.pc = "setCreating"
    /\ Write([worker.obj EXCEPT !.phase = "Creating"], IdleWorker, {})

\* ClusterByName lists every team before it looks for the name.
ListTeams ==
    /\ worker.pc = "listTeams"
    /\ \E reply \in {"ok", "error"} :
        /\ Read(reply)
        /\ Continue(reply, [worker EXCEPT !.pc = "listClusters",
                                          !.todo = TeamOrder])

\* The first cluster of that name counts, in the order of the teams.
ListTeamClusters ==
    /\ worker.pc = "listClusters"
    /\ worker.todo # <<>>
    /\ \E reply \in {"ok", "error"} :
        /\ Read(reply)
        /\ LET ids == Named(worker.obj.spec.name, Head(worker.todo))
           IN  \E id \in IF worker.id = NoId /\ ids # {} THEN ids
                                                         ELSE {worker.id} :
                 Continue(reply, [worker EXCEPT !.todo = Tail(@), !.id = id])

\* Not found: a detail without an ID, which updateStatusFromDetail refuses.
ClusterByName ==
    /\ worker.pc = "listClusters"
    /\ worker.todo = <<>>
    /\ \/ worker.id = NoId /\ ReturnError
       \/ /\ worker.id # NoId
          /\ worker' = [worker EXCEPT !.pc = "detail"]
          /\ UNCHANGED queue
    /\ UNCHANGED <<clusters, faults, api, watch, seen, edits>>

ClusterDetail ==
    /\ worker.pc = "detail"
    /\ \E reply \in {"ok", "error"} :
        /\ ReadCluster(worker.id, reply)
        /\ Continue(reply, [worker EXCEPT !.pc = "role",
                       !.ready = (clusters[worker.id].state = "ready")])

DefaultConnRole ==
    /\ worker.pc = "role"
    /\ \E reply \in {"ok", "error"} :
        /\ ReadCluster(worker.id, reply)
        /\ Continue(reply, [worker EXCEPT !.pc = "setStatus"])

\* Mutant: the state of the cluster is not looked at.
SetStatusReady ==
    /\ worker.pc = "setStatus"
    /\ Write([worker.obj EXCEPT !.id = worker.id, !.phase = "Ready"],
              IdleWorker, {worker.key})

\* Mutant: a cluster that is not ready sends the object back to Pending.
SetStatusFallback ==
    /\ worker.pc = "setStatus"
    /\ Write([worker.obj EXCEPT !.id = worker.id,
                     !.phase = IF worker.ready THEN "Ready" ELSE "Pending"],
              IdleWorker, {worker.key})

\* Mutant: the status is built anew, with the ID only when it was looked up.
SetStatusAnew ==
    /\ worker.pc = "setStatus"
    /\ Write([worker.obj EXCEPT
                  !.id = IF worker.obj.id = NoId THEN worker.id ELSE NoId,
                  !.phase = IF worker.ready THEN "Ready" ELSE @],
              IdleWorker, {worker.key})

\* Mutant: RequeueAfter is forgotten.
SetStatusNoRequeue ==
    /\ worker.pc = "setStatus"
    /\ Write([worker.obj EXCEPT !.id = worker.id,
                                 !.phase = IF worker.ready THEN "Ready" ELSE @],
              IdleWorker, {})

\* Creating returns RequeueAfter, also when the phase has become Ready.
SetStatus ==
    /\ worker.pc = "setStatus"
    /\ Write([worker.obj EXCEPT !.id = worker.id,
                                 !.phase = IF worker.ready THEN "Ready" ELSE @],
              IdleWorker, {worker.key})

Delete ==
    /\ worker.pc = "delete"
    /\ \E reply \in {"ok", "error"} :
        /\ DeleteCluster(worker.id, reply)
        /\ Continue(reply, [worker EXCEPT !.pc = "unfinalize"])

\* Without its finalizer an object with a deletion timestamp is gone.
RemoveFinalizer ==
    /\ worker.pc = "unfinalize"
    /\ Write(Absent, IdleWorker, {})

-----------------------------------------------------------------------------

WorkerStep ==
    \/ AddFinalizer
    \/ SetPending
    \/ DefaultTeamID
    \/ Create
    \/ SetCreating
    \/ ListTeams
    \/ ListTeamClusters
    \/ ClusterByName
    \/ ClusterDetail
    \/ DefaultConnRole
    \/ SetStatus
    \/ Delete
    \/ RemoveFinalizer

UserStep ==
    \E k \in Keys :
        \/ UserDelete(k)
        \/ Touch(k)
        \/ \E spec \in Specs : UserCreate(k, spec) \/ UserEdit(k, spec)

ServiceStep ==
    /\ \/ \E id \in Ids : Provision(id) \/ ConsoleDelete(id)
       \/ \E name \in Names, team \in Teams : ConsoleCreate(name, team)
    /\ UNCHANGED <<api, watch, seen, queue, worker, edits>>

Next ==
    \/ WorkerStep
    \/ UserStep
    \/ ServiceStep
    \/ \E k \in Keys : Reconcile(k)
    \/ CacheStep
    \/ OperatorRestart

Spec == Init /\ [][Next]_vars

\* The worker runs, no queued key is passed over for ever, events reach the
\* cache, and the service finishes what it provisions.
Fairness ==
    /\ WF_vars(WorkerStep)
    /\ \A k \in Keys : /\ SF_vars(Reconcile(k))
                       /\ WF_vars(Deliver(k) /\ UNCHANGED <<clusters, faults, edits>>)
    /\ \A id \in Ids : WF_vars(Provision(id) /\ UNCHANGED <<api, watch, seen,
                                                      queue, worker, edits>>)

FairSpec == Spec /\ Fairness

-----------------------------------------------------------------------------
(* Properties.                                                             *)

\* Type invariant of the objects, their copies, the queue and the worker.
TypeOK ==
    /\ ApiTypeOK
    /\ api \in [Keys -> Version]
    /\ watch \in [Keys -> Seq(Version)]
    /\ seen \in [Keys -> Version]
    /\ queue \subseteq Keys
    /\ worker \in [pc : Calls \cup {"idle"}, key : Keys \cup {NoKey},
                   obj : Version, fresh : BOOLEAN, id : Ids \cup {NoId},
                   ready : BOOLEAN, todo : Seq(Teams)]
    /\ edits \in 0..MaxEdits

\* No cluster is requested for an object that could vanish unnoticed: however
\* old the cached version that says Pending, the object at the server still
\* has the finalizer while the request is on its way.
ClusterUnderFinalizer ==
    worker.pc \in {"defaultTeam", "create"} => api[worker.key].finalizer

\* The cluster recorded in an object's status is the one that was created
\* for that object, so that deleting the object deletes no other cluster.
Ownership ==
    \A k \in Keys : api[k].id # NoId => clusters[api[k].id].owner = k

\* The phases mean what the API type documents: "creating - provisioning in
\* progress", "ready - cluster provisioning complete".  A cluster created for
\* the object exists from Creating on, and is recorded and ready in Ready.
PhaseMatchesCluster ==
    \A k \in Keys : api[k].life = "live" =>
        /\ api[k].phase \in {"Creating", "Ready"} =>
               \E id \in Ids : Exists(id) /\ clusters[id].owner = k
        /\ api[k].phase = "Ready" => clusters[api[k].id].state = "ready"

\* A recorded identifier is never replaced or dropped while the object
\* exists, whatever outdated version a Reconcile started from.
IdSticky ==
    [][\A k \in Keys : api[k].id # NoId =>
            api'[k].id = api[k].id \/ api'[k].life = "absent"]_vars

\* The phase of an object only moves forward.
PhaseOrder ==
    [][\A k \in Keys : api'[k].life # "absent" =>
            api'[k].phase \in {api[k].phase} \cup NextPhase[api[k].phase]]_vars

\* An object that records a cluster goes away only after that cluster has
\* been deleted.
RecordedIdReleased ==
    [][\A k \in Keys : api[k].id # NoId /\ api'[k].life = "absent" =>
            clusters'[api[k].id].state = "deleted"]_vars

\* What the objects and their clusters look like from outside.
Outside(version) == [life |-> version.life, finalizer |-> version.finalizer,
                     phase |-> version.phase, id |-> version.id]

Lifecycle == INSTANCE ClusterLifecycle WITH
    object <- [k \in Keys |-> Outside(api[k])],
    state <- [i \in Ids |-> clusters[i].state],
    owner <- [i \in Ids |-> clusters[i].owner]

\* Every object lives as ClusterLifecycle says, although Reconcile works on old
\* versions and is interrupted anywhere: each step of the system is one of the
\* abstract steps, or changes nothing that is seen outside.
ImplementsLifecycle == Lifecycle!Spec

\* An object that a user has created gets its cluster, or is deleted.
EventuallyReady ==
    \A k \in Keys : api[k].life = "live" ~>
        (api[k].phase = "Ready" \/ api[k].life # "live")

\* An object that a user has deleted goes away.
DeletionCompletes ==
    \A k \in Keys : api[k].life = "deleting" ~> api[k].life = "absent"

=============================================================================
