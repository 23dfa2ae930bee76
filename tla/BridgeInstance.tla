---------------------------- MODULE BridgeInstance ----------------------------
(***************************************************************************)
(* The CrunchyBridgeInstance controller (controllers/dbaas.redhat.com/     *)
(* crunchybridgeinstance_controller.go).  It creates and deletes clusters  *)
(* as the BridgeCluster controller does, through an inventory that another *)
(* controller owns, and reports a condition with a reason.                 *)
(*                                                                         *)
(* Lists of clusters are taken in one step here; BridgeCluster takes them  *)
(* apart.  Beyond those of BridgeApi, the kinds of fault are               *)
(*   "account" the inventory or its secret disappears for a while,         *)
(*   "touch", "kube" and "restart" as in BridgeCluster.                    *)
(***************************************************************************)
EXTENDS BridgeApi

CONSTANTS
    Keys,      \* names of CrunchyBridgeInstance objects
    NoKey,
    NoId,      \* an empty Status.InstanceID
    Specs,     \* the specs a user writes: [name, team]; team "" is the default
    MaxEdits   \* how many objects users create or delete: a bound

ASSUME KeysOwn == Keys = Owners /\ NoKey \notin Keys
ASSUME NoIdIsNone == NoId \notin Ids
ASSUME SpecsKnown == Specs \subseteq [name : Names, team : Teams \cup {""}]
ASSUME MaxEditsNatural == MaxEdits \in Nat

VARIABLES
    api, watch, seen, queue, worker, edits,
    account    \* what the cache has of the inventory and its secret

vars == <<clusters, faults, api, watch, seen, queue, worker, edits, account>>

NoSpec == [name |-> "", team |-> ""]

Phases == {"", "Pending", "Creating", "Ready", "Deleting"}

\* Reasons of the condition ProvisionReady: it is True with the reason Ready
\* and False with the others; "" when there is no condition.
Reasons == {"", "InventoryNotFound", "AuthenticationError", "BackendError",
            "Ready"}

Version ==
    [life : {"absent", "live", "deleting"}, finalizer : BOOLEAN,
     phase : Phases, id : Ids \cup {NoId}, cond : Reasons,
     spec : Specs \cup {NoSpec}]

Absent == [life |-> "absent", finalizer |-> FALSE, phase |-> "",
           id |-> NoId, cond |-> "", spec |-> NoSpec]

\* The locals of Reconcile.  obj is instanceObj; id is the cluster it
\* knows of, cond the reason that it will report.
IdleWorker == [pc |-> "idle", key |-> NoKey, obj |-> Absent, fresh |-> FALSE,
               id |-> NoId, cond |-> ""]

INSTANCE KubeObjects

Calls == {"report", "setDeleting", "delete", "unfinalize", "addFinalizer",
          "setPending", "defaultTeam", "create", "setCreating", "lookup",
          "detail", "setReady", "setStatus"}

Init ==
    /\ ApiInit
    /\ api = [k \in Keys |-> Absent]
    /\ watch = [k \in Keys |-> <<>>]
    /\ seen = [k \in Keys |-> Absent]
    /\ queue = {}
    /\ worker = IdleWorker
    /\ edits = 0
    /\ account = "ok"

-----------------------------------------------------------------------------
(* Calls, and what happens without the operator.                           *)

Write(version, next, requeue) ==
    /\ \/ Update(version, next, requeue, FALSE) /\ UNCHANGED faults
       \/ Update(version, next, requeue, TRUE) /\ Fault("kube")
    /\ UNCHANGED <<clusters, edits, account>>

\* A call to the Bridge API: Reconcile goes on as next, or as failed.
Answered(reply, next, failed) ==
    /\ \/ reply = "ok" /\ GoOn(next, {})
       \/ reply = "error" /\ failed
    /\ UNCHANGED <<api, watch, seen, edits, account>>

Edit ==
    /\ edits < MaxEdits
    /\ edits' = edits + 1
    /\ UNCHANGED <<clusters, faults, account>>

UserCreate(k, spec) ==
    /\ Edit
    /\ api[k].life = "absent"
    /\ ForeignCommit(k, [Absent EXCEPT !.life = "live", !.spec = spec])

UserDelete(k) == Edit /\ ForeignDelete(k)

Touch(k) ==
    /\ Fault("touch")
    /\ api[k].life # "absent"
    /\ ForeignCommit(k, api[k])
    /\ UNCHANGED <<clusters, edits, account>>

\* The inventory or its secret is gone ...
AccountLost ==
    /\ account = "ok"
    /\ Fault("account")
    /\ account' \in {"noInventory", "noSecret"}
    /\ UNCHANGED <<clusters, api, watch, seen, queue, worker, edits>>

\* ... and comes back.
AccountRestored ==
    /\ account # "ok"
    /\ account' = "ok"
    /\ UNCHANGED <<clusters, faults, api, watch, seen, queue, worker, edits>>

OperatorRestart ==
    /\ Fault("restart")
    /\ Restart
    /\ UNCHANGED <<clusters, edits, account>>

-----------------------------------------------------------------------------
(* Reconcile.                                                              *)

Team(spec) == IF spec.team = "" THEN DefaultTeam ELSE spec.team

\* The clusters that ClusterByName may find: those of the first team that has
\* one of the name.
FoundByName(name) ==
    LET having == {i \in DOMAIN TeamOrder : Named(name, TeamOrder[i]) # {}}
    IN  UNION {Named(name, TeamOrder[i]) :
                   i \in {j \in having : \A h \in having : j <= h}}

\* Mutant: an object whose phase says Deleting is left to the deletion that
\* wrote it.
DeletionCallOnce(obj) ==
    CASE ~obj.finalizer \/ obj.phase = "Deleting" -> "idle"
      [] OTHER -> IF obj.id # NoId THEN "setDeleting" ELSE "unfinalize"

\* Mutant: a cluster whose deletion has been announced is taken for deleted.
DeletionCallDone(obj) ==
    CASE ~obj.finalizer -> "idle"
      [] obj.finalizer  -> IF obj.id # NoId /\ obj.phase # "Deleting"
                           THEN "setDeleting" ELSE "unfinalize"

\* The first call for an object with a deletion timestamp.
DeletionCall(obj) ==
    CASE ~obj.finalizer -> "idle"
      [] obj.finalizer  -> IF obj.id # NoId THEN "setDeleting" ELSE "unfinalize"

\* The first call for an object without deletion timestamp, by its phase.
PhaseCall(obj) ==
    CASE obj.phase = ""         -> IF obj.finalizer THEN "setPending"
                                                    ELSE "addFinalizer"
      [] obj.phase = "Pending"  -> IF obj.spec.team = "" THEN "defaultTeam"
                                                         ELSE "create"
      [] obj.phase = "Creating" -> IF obj.id = NoId THEN "lookup"
                                                    ELSE "detail"
      [] obj.phase = "Ready"    -> "idle"

\* The first call of Reconcile with an inventory and credentials, "idle" when
\* there is none.
FirstCall(obj) ==
    CASE obj.life = "absent"   -> "idle"
      [] obj.life = "deleting" -> DeletionCall(obj)
      [] obj.life = "live"     -> PhaseCall(obj)

\* Mutant: the reason that the connection controller gives.
AccountReasonNotFound ==
    CASE account = "ok"          -> ""
      [] account = "noInventory" -> "NotFound"
      [] account = "noSecret"    -> "AuthenticationError"

\* What is reported of a missing inventory, and of missing credentials.
AccountReason ==
    CASE account = "ok"          -> ""
      [] account = "noInventory" -> "InventoryNotFound"
      [] account = "noSecret"    -> "AuthenticationError"

\* Reconcile gets object k from the cache and goes on with call.
Begin(k, call) ==
    /\ Take(k, IF call = "idle"
               THEN IdleWorker
               ELSE [IdleWorker EXCEPT !.pc = call,
                                       !.key = k,
                                       !.obj = seen[k],
                                       !.fresh = (watch[k] = <<>>),
                                       !.id = seen[k].id,
                                       !.cond = AccountReason])
    /\ UNCHANGED <<clusters, faults, edits, account>>

\* Mutant: the inventory is looked for only when there is something to do.
ReconcileWhenNeeded(k) ==
    Begin(k, IF account # "ok" /\ FirstCall(seen[k]) # "idle"
             THEN "report" ELSE FirstCall(seen[k]))

\* Reconcile gets the object, then the inventory and its secret, and only then
\* looks at what there is to do, a deletion included.
Reconcile(k) ==
    Begin(k, IF account # "ok" /\ seen[k].life # "absent"
             THEN "report" ELSE FirstCall(seen[k]))

\* updateStatus sets the condition to False and Reconcile returns the error.
\* The API server refuses a status with a blank phase, which the CRD's enum
\* does not have.
Report ==
    /\ worker.pc = "report"
    /\ IF worker.obj.phase = ""
       THEN ReturnError /\ UNCHANGED <<clusters, faults, api, watch, seen,
                                       edits, account>>
       ELSE Write([worker.obj EXCEPT !.cond = worker.cond],
                  IdleWorker, {worker.key})

\* The worker will report a failed call.
BackendFailed ==
    GoOn([worker EXCEPT !.pc = "report", !.cond = "BackendError"], {})

AddFinalizer ==
    /\ worker.pc = "addFinalizer"
    /\ LET obj == [worker.obj EXCEPT !.finalizer = TRUE]
       IN  Write(obj, [worker EXCEPT !.pc = "setPending", !.obj = obj], {})

SetPending ==
    /\ worker.pc = "setPending"
    /\ Write([worker.obj EXCEPT !.phase = "Pending"], IdleWorker, {})

\* createFromSpec: without a TeamID the default team is asked for.
DefaultTeamID ==
    /\ worker.pc = "defaultTeam"
    /\ \E reply \in {"ok", "error"} :
        /\ Read(reply)
        /\ Answered(reply, [worker EXCEPT !.pc = "create"], ReturnError)

Create ==
    /\ worker.pc = "create"
    /\ \E reply \in {"ok", "error"} :
        /\ CreateCluster(worker.obj.spec.name, Team(worker.obj.spec),
                         worker.key, reply)
        /\ Answered(reply, [worker EXCEPT !.pc = "setCreating"], BackendFailed)

SetCreating ==
    /\ worker.pc = "setCreating"
    /\ Write([worker.obj EXCEPT !.phase = "Creating"], IdleWorker, {})

\* ClusterByName.  A cluster that is not listed leaves a detail without an ID,
\* which updateStatusFromDetail refuses.
Lookup ==
    /\ worker.pc = "lookup"
    /\ \E reply \in {"ok", "error"} :
        /\ Read(reply)
        /\ LET found == FoundByName(worker.obj.spec.name)
           IN  \/ \E id \in found :
                     Answered(reply, [worker EXCEPT !.pc = "detail", !.id = id],
                              ReturnError)
               \/ /\ found = {}
                  /\ Answered(reply, [worker EXCEPT !.pc = "report",
                                                    !.cond = "BackendError"],
                              ReturnError)

\* Mutant: the state of the cluster is not looked at.
DetailReady ==
    /\ worker.pc = "detail"
    /\ \E reply \in {"ok", "error"} :
        /\ ReadCluster(worker.id, reply)
        /\ Answered(reply, [worker EXCEPT !.pc = "setReady"], ReturnError)

Detail ==
    /\ worker.pc = "detail"
    /\ \E reply \in {"ok", "error"} :
        /\ ReadCluster(worker.id, reply)
        /\ Answered(reply,
                    [worker EXCEPT !.pc = IF clusters[worker.id].state = "ready"
                                          THEN "setReady" ELSE "setStatus"],
                    ReturnError)

\* A ready cluster: phase and condition are written, and then once more.
SetReady ==
    /\ worker.pc = "setReady"
    /\ LET obj == [worker.obj EXCEPT !.id = worker.id, !.phase = "Ready",
                                     !.cond = "Ready"]
       IN  Write(obj, [worker EXCEPT !.pc = "setStatus", !.obj = obj], {})

\* The object is looked at again after WatchInt.
SetStatus ==
    /\ worker.pc = "setStatus"
    /\ Write([worker.obj EXCEPT !.id = worker.id], IdleWorker, {worker.key})

\* The phase says Deleting before the cluster is deleted.
SetDeleting ==
    /\ worker.pc = "setDeleting"
    /\ LET obj == [worker.obj EXCEPT !.phase = "Deleting"]
       IN  Write(obj, [worker EXCEPT !.pc = "delete", !.obj = obj], {})

\* Mutant: the finalizer is removed although the request failed.
DeleteIgnored ==
    /\ worker.pc = "delete"
    /\ \E reply \in {"ok", "error"} :
        /\ DeleteCluster(worker.id, reply)
        /\ Answered("ok", [worker EXCEPT !.pc = "unfinalize"], ReturnError)

Delete ==
    /\ worker.pc = "delete"
    /\ \E reply \in {"ok", "error"} :
        /\ DeleteCluster(worker.id, reply)
        /\ Answered(reply, [worker EXCEPT !.pc = "unfinalize"], ReturnError)

RemoveFinalizer ==
    /\ worker.pc = "unfinalize"
    /\ Write(Absent, IdleWorker, {})

-----------------------------------------------------------------------------

WorkerStep ==
    \/ Report
    \/ AddFinalizer
    \/ SetPending
    \/ DefaultTeamID
    \/ Create
    \/ SetCreating
    \/ Lookup
    \/ Detail
    \/ SetReady
    \/ SetStatus
    \/ SetDeleting
    \/ Delete
    \/ RemoveFinalizer

UserStep ==
    \E k \in Keys :
        \/ UserDelete(k)
        \/ Touch(k)
        \/ \E spec \in Specs : UserCreate(k, spec)

ServiceStep ==
    /\ \/ \E id \in Ids : Provision(id)
       \/ \E name \in Names, team \in Teams : ConsoleCreate(name, team)
    /\ UNCHANGED <<api, watch, seen, queue, worker, edits, account>>

CacheStep ==
    /\ Resync \/ \E k \in Keys : Deliver(k)
    /\ UNCHANGED <<clusters, faults, edits, account>>

Next ==
    \/ WorkerStep
    \/ UserStep
    \/ ServiceStep
    \/ \E k \in Keys : Reconcile(k)
    \/ CacheStep
    \/ AccountLost
    \/ AccountRestored
    \/ OperatorRestart

Spec == Init /\ [][Next]_vars

\* The worker runs, no queued key is passed over for ever, events reach the
\* cache, SyncPeriod comes round, and the service finishes what it provisions.
\* An inventory that is away need not come back.
Fairness ==
    /\ WF_vars(WorkerStep)
    /\ WF_vars(Resync /\ UNCHANGED <<clusters, faults, edits, account>>)
    /\ \A k \in Keys : /\ SF_vars(Reconcile(k))
                       /\ WF_vars(Deliver(k) /\ UNCHANGED <<clusters, faults,
                                                           edits, account>>)
    /\ \A id \in Ids : WF_vars(Provision(id) /\ UNCHANGED <<api, watch, seen,
                                             queue, worker, edits, account>>)

FairSpec == Spec /\ Fairness

-----------------------------------------------------------------------------
(* Properties.                                                             *)

\* Type invariant of the objects, their copies, the queue and the worker.
TypeOK ==
    /\ ApiTypeOK
    /\ api \in [Keys -> Version]
    /\ watch \in [Keys -> Seq(Version)]
    /\ seen \in [Keys -> Version]
    /\ queue \subseteq Keys
    /\ worker \in [pc : Calls \cup {"idle"}, key : Keys \cup {NoKey},
                   obj : Version, fresh : BOOLEAN, id : Ids \cup {NoId},
                   cond : Reasons]
    /\ edits \in 0..MaxEdits
    /\ account \in {"ok", "noInventory", "noSecret"}

\* ProvisionReady is True only of an object that records a cluster which was
\* created for it and has been ready, whatever was reported in between.
TrueMeansProvisioned ==
    \A k \in Keys : api[k].cond = "Ready" =>
        /\ api[k].phase \in {"Ready", "Deleting"}
        /\ api[k].id # NoId
        /\ clusters[api[k].id].owner = k
        /\ clusters[api[k].id].state # "creating"

\* The operator deletes a cluster only for the object it was created for, and
\* only while that object is being deleted and its phase says so.
DeletesOnlyOwn ==
    [][\A id \in Ids : Exists(id) /\ clusters'[id].state = "deleted" =>
          \E k \in Keys : /\ clusters[id].owner = k
                          /\ api[k].life = "deleting"
                          /\ api[k].phase = "Deleting"]_vars

\* An object that records a cluster goes away only after that cluster has
\* been deleted, also when its inventory has come and gone meanwhile.
RecordedIdReleased ==
    [][\A k \in Keys : api[k].id # NoId /\ api'[k].life = "absent" =>
            clusters'[api[k].id].state = "deleted"]_vars

\* What the objects and their clusters look like from outside.
Outside(version) == [life |-> version.life, finalizer |-> version.finalizer,
                     phase |-> version.phase, id |-> version.id]

Lifecycle == INSTANCE ClusterLifecycle WITH
    object <- [k \in Keys |-> Outside(api[k])],
    state <- [i \in Ids |-> clusters[i].state],
    owner <- [i \in Ids |-> clusters[i].owner]

\* Every object lives as ClusterLifecycle says, although Reconcile works on old
\* versions and is interrupted anywhere: each step of the system is one of the
\* abstract steps, or changes nothing that is seen outside.
ImplementsLifecycle == Lifecycle!Spec

\* Deleting an instance that records a cluster deletes that cluster in the
\* end, whatever fails, is lost or restarted on the way, if the inventory
\* does not stay away.
DeletedClusterGoes ==
    <>[](account = "ok") =>
        \A k \in Keys, id \in Ids :
            api[k].life = "deleting" /\ api[k].id = id ~> ~Exists(id)

\* A loss of the inventory is reported by every instance that has a phase,
\* although nothing but the resynchronisation looks for it.
LossReported ==
    \A k \in Keys :
        account # "ok" /\ api[k].life = "live" /\ api[k].phase # "" ~>
            \/ account = "ok"
            \/ api[k].life # "live"
            \/ api[k].cond = AccountReason

\* An instance becomes ready unless it is deleted.
EventuallyReady ==
    \A k \in Keys : api[k].life = "live" ~>
        (api[k].phase = "Ready" \/ api[k].life # "live")

=============================================================================
