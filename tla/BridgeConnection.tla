--------------------------- MODULE BridgeConnection ---------------------------
(***************************************************************************)
(* The CrunchyBridgeConnection controller (controllers/dbaas.redhat.com/   *)
(* crunchybridgeconnection_controller.go and connection.go), together with *)
(* the inventory controller whose lists it reads.  It makes a secret with  *)
(* the credentials of a cluster and a config map with its address, and     *)
(* refers to both in the status of the connection.                         *)
(*                                                                         *)
(* A reference to a secret or config map is the cluster it describes.      *)
(***************************************************************************)
EXTENDS BridgeInventory

CONSTANTS
    Keys,     \* names of CrunchyBridgeConnection objects
    Targets,  \* what users connect to: [inventory, id]
    NoRef     \* no reference

ASSUME NoNameNoKey == NoName \notin Keys
ASSUME NoRefIsNone == NoRef \notin Ids
ASSUME TargetsKnown == Targets \subseteq [inventory : Inventories, id : Ids]

VARIABLES api, watch, seen, queue, worker

connectionVars == <<api, watch, seen, queue, worker>>
restVars == <<clusters, faults, credentials, edits>>
vars == <<restVars, inventoryVars, connectionVars>>

\* InventoryRef and InstanceID of no connection.
NoTarget == [inventory |-> NoName, id |-> NoRef]

\* Reasons of the condition ReadyForBinding: it is True with the reason Ready
\* and False with the others; "" when there is no condition.
Reasons == {"", "InventoryNotFound", "NotFound", "BackendError", "Ready"}

\* cred and info are Status.CredentialsRef and Status.ConnectionInfoRef.
Version ==
    [life : {"absent", "live"}, finalizer : {FALSE},
     spec : Targets \cup {NoTarget}, cond : Reasons,
     cred : Ids \cup {NoRef}, info : Ids \cup {NoRef}]

Absent == [life |-> "absent", finalizer |-> FALSE, spec |-> NoTarget,
           cond |-> "", cred |-> NoRef, info |-> NoRef]

\* The locals of Reconcile.  obj is connection, cond the reason to report.
IdleWorker == [pc |-> "idle", key |-> NoName, obj |-> Absent, fresh |-> FALSE,
               cond |-> ""]

INSTANCE KubeObjects

Init ==
    /\ InventoryInit
    /\ api = [k \in Keys |-> Absent]
    /\ watch = [k \in Keys |-> <<>>]
    /\ seen = [k \in Keys |-> Absent]
    /\ queue = {}
    /\ worker = IdleWorker

-----------------------------------------------------------------------------
(* What happens without the operator.                                      *)

ConnectionCreate(k, spec) ==
    /\ Edit
    /\ api[k].life = "absent"
    /\ ForeignCommit(k, [Absent EXCEPT !.life = "live", !.spec = spec])

ConnectionDelete(k) == Edit /\ ForeignDelete(k)

\* The spec is edited ("retarget"): nothing makes it immutable.
ConnectionEdit(k, spec) ==
    /\ "retarget" \in Faults
    /\ Edit
    /\ api[k].life = "live"
    /\ api[k].spec # spec
    /\ ForeignCommit(k, [api[k] EXCEPT !.spec = spec])

\* The operator stops and starts again: both controllers do.
OperatorRestart ==
    /\ Fault("restart")
    /\ Restart
    /\ I!Restart
    /\ UNCHANGED <<clusters, credentials, edits>>

-----------------------------------------------------------------------------
(* Reconcile.                                                              *)

\* getInstance: the inventory in the cache is synchronised and lists the id.
Listed(spec) ==
    /\ invSeen[spec.inventory].synced = "SyncOK"
    /\ spec.id \in invSeen[spec.inventory].instances

\* Mutant: a connection that is bound is not looked up again.
LookupReasonUnbound(obj) ==
    CASE obj.cond = "Ready" -> ""
      [] obj.cond # "Ready" /\ invSeen[obj.spec.inventory].life = "absent"
            -> "InventoryNotFound"
      [] obj.cond # "Ready" /\ invSeen[obj.spec.inventory].life = "live"
            -> IF Listed(obj.spec) THEN "" ELSE "NotFound"

\* Mutant: the reason that the instance controller gives.
LookupReasonAuth(obj) ==
    CASE invSeen[obj.spec.inventory].life = "absent" -> "InventoryNotFound"
      [] invSeen[obj.spec.inventory].life = "live"
            -> IF ~Listed(obj.spec) THEN "NotFound"
               ELSE IF credentials THEN "" ELSE "AuthenticationError"

\* What is reported of a connection before the service is asked, "" when there
\* is nothing to complain of.
LookupReason(obj) ==
    CASE invSeen[obj.spec.inventory].life = "absent" -> "InventoryNotFound"
      [] invSeen[obj.spec.inventory].life = "live"
            -> IF ~Listed(obj.spec) THEN "NotFound"
               ELSE IF credentials THEN "" ELSE "BackendError"

\* Mutant: any condition passes for a binding.
BindingExistsOnceReported(obj) == obj.cond # ""

\* isBindingExist.
BindingExists(obj) == obj.cond = "Ready"

\* Mutant: a connection whose cluster was not found is left alone.
ReconcileFoundOnly(k) ==
    /\ Take(k, LET obj == seen[k]
                   held == [pc |-> "status", key |-> k, obj |-> obj,
                            fresh |-> (watch[k] = <<>>), cond |-> "Ready"]
               IN  IF obj.life = "absent" \/ obj.cond = "NotFound"
                   THEN IdleWorker
                   ELSE IF LookupReason(obj) # ""
                   THEN [held EXCEPT !.cond = LookupReason(obj)]
                   ELSE IF BindingExists(obj) THEN held
                   ELSE [held EXCEPT !.pc = "role"])
    /\ UNCHANGED <<restVars, inventoryVars>>

\* Reconcile gets the connection, its inventory and the secret of that, all
\* from the cache, and asks the service unless the connection is bound.
Reconcile(k) ==
    /\ Take(k, LET obj == seen[k]
                   held == [pc |-> "status", key |-> k, obj |-> obj,
                            fresh |-> (watch[k] = <<>>), cond |-> "Ready"]
               IN  IF obj.life = "absent" THEN IdleWorker
                   ELSE IF LookupReason(obj) # ""
                   THEN [held EXCEPT !.cond = LookupReason(obj)]
                   ELSE IF BindingExists(obj) THEN held
                   ELSE [held EXCEPT !.pc = "role"])
    /\ UNCHANGED <<restVars, inventoryVars>>

\* Steps of connectionDetails change nothing but the worker.
DetailStep(next) ==
    /\ GoOn(next, {})
    /\ UNCHANGED <<clusters, inventoryVars, credentials, edits, api, watch,
                   seen>>

BackendFailed == [worker EXCEPT !.pc = "status", !.cond = "BackendError"]

\* What connectionDetails has still to make.
AfterRole(obj) ==
    CASE obj.cred = NoRef                     -> "secret"
      [] obj.cred # NoRef /\ obj.info = NoRef -> "configMap"
      [] obj.cred # NoRef /\ obj.info # NoRef -> "status"

\* The role of the cluster: its user, password and address.
DefaultConnRole ==
    /\ worker.pc = "role"
    /\ \/ /\ ReadCluster(worker.obj.spec.id, "ok")
          /\ DetailStep([worker EXCEPT !.pc = AfterRole(worker.obj)])
       \/ /\ ReadCluster(worker.obj.spec.id, "error")
          /\ DetailStep(BackendFailed)

CreateSecret ==
    /\ worker.pc = "secret"
    /\ LET obj == [worker.obj EXCEPT !.cred = worker.obj.spec.id]
       IN  \/ DetailStep([worker EXCEPT !.obj = obj, !.pc = AfterRole(obj)])
              /\ UNCHANGED faults
           \/ DetailStep(BackendFailed) /\ Fault("kube")

CreateConfigMap ==
    /\ worker.pc = "configMap"
    /\ \/ DetailStep([worker EXCEPT !.obj.info = worker.obj.spec.id,
                                    !.pc = "status"])
          /\ UNCHANGED faults
       \/ DetailStep(BackendFailed) /\ Fault("kube")

\* Mutant: the status is patched, whoever has written the object since.
WriteStatusPatched ==
    /\ worker.pc = "status"
    /\ LET k   == worker.key
           obj == [api[k] EXCEPT !.cond = worker.cond,
                                 !.cred = worker.obj.cred,
                                 !.info = worker.obj.info]
       IN  IF api[k].life = "absent" \/ obj = api[k]
           THEN UNCHANGED <<api, watch>>
           ELSE Commit(k, obj)
    /\ GoOn(IdleWorker, IF worker.cond = "Ready" THEN {} ELSE {worker.key})
    /\ UNCHANGED <<seen, clusters, faults, inventoryVars, credentials, edits>>

\* updateStatus writes the references too, and Reconcile returns the error.
WriteStatus ==
    /\ worker.pc = "status"
    /\ LET obj == [worker.obj EXCEPT !.cond = worker.cond]
           requeue == IF worker.cond = "Ready" THEN {} ELSE {worker.key}
       IN  \/ Update(obj, IdleWorker, requeue, FALSE) /\ UNCHANGED faults
           \/ Update(obj, IdleWorker, requeue, TRUE) /\ Fault("kube")
    /\ UNCHANGED <<clusters, inventoryVars, credentials, edits>>

-----------------------------------------------------------------------------

ConnectionWorker ==
    \/ DefaultConnRole
    \/ CreateSecret
    \/ CreateConfigMap
    \/ WriteStatus

\* Events of inventories do not queue connections.
ConnectionCache ==
    /\ Resync \/ \E k \in Keys : Deliver(k)
    /\ UNCHANGED <<restVars, inventoryVars>>

ConnectionUsers ==
    /\ \E k \in Keys :
        \/ ConnectionDelete(k)
        \/ \E spec \in Targets : ConnectionCreate(k, spec)
        \/ \E spec \in Targets : ConnectionEdit(k, spec)
    /\ UNCHANGED inventoryVars

ServiceStep ==
    /\ \/ \E name \in Names : ConsoleCreate(name, DefaultTeam)
       \/ \E id \in Ids : ConsoleDelete(id)
    /\ UNCHANGED <<inventoryVars, credentials, edits, connectionVars>>

InventoryStep ==
    /\ \/ InventoryWorker
       \/ InventoryCache
       \/ InventoryUsers
       \/ \E i \in Inventories : ReconcileInventory(i)
    /\ UNCHANGED connectionVars

Next ==
    \/ ConnectionWorker
    \/ \E k \in Keys : Reconcile(k)
    \/ ConnectionCache
    \/ ConnectionUsers
    \/ InventoryStep
    \/ ServiceStep
    \/ OperatorRestart

Spec == Init /\ [][Next]_vars

\* Both workers run, no queued name is passed over for ever, events reach the
\* cache and SyncPeriod comes round for both kinds of object.
Fairness ==
    /\ WF_vars(ConnectionWorker)
    /\ WF_vars(Resync /\ UNCHANGED restVars /\ UNCHANGED inventoryVars)
    /\ \A k \in Keys :
        /\ SF_vars(Reconcile(k))
        /\ WF_vars(Deliver(k) /\ UNCHANGED restVars /\ UNCHANGED inventoryVars)
    /\ WF_vars(InventoryWorker /\ UNCHANGED connectionVars)
    /\ WF_vars(I!Resync /\ UNCHANGED restVars /\ UNCHANGED connectionVars)
    /\ \A i \in Inventories :
        /\ SF_vars(ReconcileInventory(i) /\ UNCHANGED connectionVars)
        /\ WF_vars(I!Deliver(i) /\ UNCHANGED restVars
                               /\ UNCHANGED connectionVars)

FairSpec == Spec /\ Fairness

-----------------------------------------------------------------------------
(* Properties.                                                             *)

\* Type invariant of both kinds of objects, their copies and both workers.
TypeOK ==
    /\ InventoryTypeOK
    /\ api \in [Keys -> Version]
    /\ watch \in [Keys -> Seq(Version)]
    /\ seen \in [Keys -> Version]
    /\ queue \subseteq Keys
    /\ worker \in [pc : {"idle", "role", "secret", "configMap", "status"},
                   key : Keys \cup {NoName}, obj : Version, fresh : BOOLEAN,
                   cond : Reasons]

\* A connection that is ready for binding refers to a secret and a config map,
\* both of clusters the service knew.
ReadyIsBound ==
    \A k \in Keys : api[k].cond = "Ready" =>
        \A ref \in {api[k].cred, api[k].info} :
            ref # NoRef /\ clusters[ref].state # "none"

\* While a connection lives, a reference is only ever set to the instance that
\* the connection specifies at that moment, also when the spec was edited while
\* its Reconcile was under way; and one that describes it is never replaced or
\* cleared, so that an application can go on using it.  What becomes of the
\* references when the spec is edited after them is DescribesSpecified's.
RefsAsSpecified ==
    [][\A k \in Keys : api[k].life = "live" /\ api'[k].life = "live" =>
          /\ api'[k].cred \in {api[k].cred, api'[k].spec.id}
          /\ api'[k].info \in {api[k].info, api'[k].spec.id}]_vars

\* There is an inventory with credentials and the cluster exists.
CanBind(k) ==
    /\ credentials
    /\ inv[api[k].spec.inventory].life = "live"
    /\ Exists(api[k].spec.id)

\* A connection that can be bound for good becomes ready and stays so,
\* although no event of its inventory reaches it.  This is about the condition:
\* after an edit of the instance ID a connection that is ready may still refer
\* to the instance it specified before (DescribesSpecified).
EventuallyBound ==
    \A k \in Keys :
        <>[](api[k].life = "live" /\ CanBind(k)) => <>[](api[k].cond = "Ready")

\* A connection whose cluster, inventory or credentials are gone for good
\* does not stay ready.
LossReported ==
    \A k \in Keys :
        <>[](api[k].life = "live" /\ ~CanBind(k)) =>
            <>[](api[k].cond # "Ready")

\* Both references describe the instance that the connection specifies.
Describes(k) ==
    api[k].cred = api[k].spec.id /\ api[k].info = api[k].spec.id

\* "The CRs status will be updated with connection details of specified
\* instance ID" (README.md:115), also when it is the ID that was edited.
DescribesSpecified ==
    \A k \in Keys :
        <>[](api[k].life = "live" /\ CanBind(k)) => <>[]Describes(k)

\* The secret and the config map of a connection that is ready for binding
\* describe the same cluster.
RefsAgree ==
    \A k \in Keys : api[k].cond = "Ready" => api[k].cred = api[k].info

=============================================================================
