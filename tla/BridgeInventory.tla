--------------------------- MODULE BridgeInventory ---------------------------
(***************************************************************************)
(* The CrunchyBridgeInventory controller (controllers/dbaas.redhat.com/    *)
(* crunchybridgeinventory_controller.go and inventory.go).  It copies the  *)
(* list of clusters that an account sees into the status of the inventory, *)
(* where the other dbaas.redhat.com controllers look identifiers up.       *)
(*                                                                         *)
(* The actions here are steps of a larger specification: BridgeConnection  *)
(* puts them together with those of the connection controller.             *)
(***************************************************************************)
EXTENDS BridgeApi, Functions

CONSTANTS
    Inventories,  \* names of CrunchyBridgeInventory objects
    NoName,       \* the name of no object
    Existing,     \* the clusters the account has before the operator starts
    MaxEdits      \* how many objects users create, edit or delete: a bound

ASSUME NoNameIsNone == NoName \notin Inventories
ASSUME MaxEditsNatural == MaxEdits \in Nat
ASSUME ExistingNamed ==
    Existing \subseteq Ids /\ Injection(Existing, Names) # {}

VARIABLES
    inv, invWatch, invSeen, invQueue, invWorker,  \* see KubeObjects
    credentials,  \* whether the cache has the inventories' secret
    edits

inventoryVars == <<inv, invWatch, invSeen, invQueue, invWorker>>

\* Reasons of the condition SpecSynced: it is True with the reason SyncOK and
\* False with the others; "" when there is no condition.
SyncReasons == {"", "AuthenticationError", "BackendError", "SyncOK"}

InventoryVersion ==
    [life : {"absent", "live"}, finalizer : {FALSE}, synced : SyncReasons,
     instances : SUBSET Ids]

NoInventory == [life |-> "absent", finalizer |-> FALSE, synced |-> "",
                instances |-> {}]

\* The locals of Reconcile.  obj is inventory, synced the reason to report.
IdleInventory == [pc |-> "idle", key |-> NoName, obj |-> NoInventory,
                  fresh |-> FALSE, synced |-> ""]

I == INSTANCE KubeObjects WITH
         Keys <- Inventories, Absent <- NoInventory,
         IdleWorker <- IdleInventory, api <- inv, watch <- invWatch,
         seen <- invSeen, queue <- invQueue, worker <- invWorker

\* The operator starts: the inventories and Existing are there.
InventoryInit ==
    /\ LET name == CHOOSE f \in Injection(Existing, Names) : TRUE
       IN  clusters = [id \in Ids |->
                          IF id \in Existing
                          THEN [state |-> "ready", name |-> name[id],
                                team |-> DefaultTeam, owner |-> Nobody]
                          ELSE NoCluster]
    /\ faults = 0
    /\ inv = [i \in Inventories |-> [NoInventory EXCEPT !.life = "live"]]
    /\ invWatch = [i \in Inventories |-> <<>>]
    /\ invSeen = inv
    /\ invQueue = Inventories
    /\ invWorker = IdleInventory
    /\ credentials = TRUE
    /\ edits = 0

-----------------------------------------------------------------------------
(* What happens without the operator.                                      *)

Edit ==
    /\ edits < MaxEdits
    /\ edits' = edits + 1
    /\ UNCHANGED <<clusters, faults, credentials>>

InventoryCreate(i) ==
    /\ Edit
    /\ inv[i].life = "absent"
    /\ I!ForeignCommit(i, [NoInventory EXCEPT !.life = "live"])

InventoryDelete(i) == Edit /\ I!ForeignDelete(i)

\* The secret is deleted, or loses its keys ...
CredentialsLost ==
    /\ credentials
    /\ Fault("account")
    /\ credentials' = FALSE
    /\ UNCHANGED <<clusters, edits, inventoryVars>>

\* ... and comes back.
CredentialsRestored ==
    /\ ~credentials
    /\ credentials' = TRUE
    /\ UNCHANGED <<clusters, faults, edits, inventoryVars>>

-----------------------------------------------------------------------------
(* Reconcile.                                                              *)

\* Reconcile gets the inventory and its secret.  Without a secret it reports
\* an AuthenticationError.
ReconcileInventory(i) ==
    /\ I!Take(i, IF invSeen[i].life = "absent"
                 THEN IdleInventory
                 ELSE [pc |-> IF credentials THEN "list" ELSE "status",
                       key |-> i,
                       obj |-> invSeen[i],
                       fresh |-> (invWatch[i] = <<>>),
                       synced |-> IF credentials THEN ""
                                  ELSE "AuthenticationError"])
    /\ UNCHANGED <<clusters, faults, credentials, edits>>

\* The worker will report reason and the list of instances.
Discovered(reason, instances) ==
    I!GoOn([invWorker EXCEPT !.pc = "status", !.synced = reason,
                             !.obj.instances = instances], {})

\* Mutant: what is found is appended to the list in the status.
DiscoverAppends ==
    /\ invWorker.pc = "list"
    /\ \/ Read("ok") /\ Discovered("SyncOK", invWorker.obj.instances \cup
                                             {id \in Ids : Exists(id)})
       \/ Read("error") /\ Discovered("BackendError", invWorker.obj.instances)
       \/ Fault("odd") /\ Discovered("SyncOK", {}) /\ UNCHANGED clusters
    /\ UNCHANGED <<inv, invWatch, invSeen, credentials, edits>>

\* discoverInventories.  A failing call leaves the list as it was.  An answer
\* to GET /teams that cannot be decoded ("odd") passes for an account without
\* teams, and so without clusters.
DiscoverInventories ==
    /\ invWorker.pc = "list"
    /\ \/ Read("ok") /\ Discovered("SyncOK", {id \in Ids : Exists(id)})
       \/ Read("error") /\ Discovered("BackendError", invWorker.obj.instances)
       \/ Fault("odd") /\ Discovered("SyncOK", {}) /\ UNCHANGED clusters
    /\ UNCHANGED <<inv, invWatch, invSeen, credentials, edits>>

\* updateStatus, and what Reconcile returns: what it could not do is tried
\* again, a list that was written is not looked at until something happens.
WriteInventory ==
    /\ invWorker.pc = "status"
    /\ LET obj == [invWorker.obj EXCEPT !.synced = invWorker.synced]
           requeue == IF invWorker.synced = "SyncOK" THEN {}
                                                     ELSE {invWorker.key}
       IN  \/ I!Update(obj, IdleInventory, requeue, FALSE) /\ UNCHANGED faults
           \/ I!Update(obj, IdleInventory, requeue, TRUE) /\ Fault("kube")
    /\ UNCHANGED <<clusters, credentials, edits>>

InventoryWorker == DiscoverInventories \/ WriteInventory

\* Events of inventories, the resynchronisation, and any event of a
\* CrunchyBridgeInstance, which queues the inventory it refers to.
InventoryCache ==
    /\ \/ I!Resync
       \/ \E i \in Inventories : I!Deliver(i)
       \/ /\ \E i \in Inventories : invQueue' = invQueue \cup {i}
          /\ UNCHANGED <<inv, invWatch, invSeen, invWorker>>
    /\ UNCHANGED <<clusters, faults, credentials, edits>>

InventoryUsers ==
    \/ \E i \in Inventories : InventoryCreate(i) \/ InventoryDelete(i)
    \/ CredentialsLost
    \/ CredentialsRestored

-----------------------------------------------------------------------------
(* Properties.                                                             *)

InventoryTypeOK ==
    /\ ApiTypeOK
    /\ inv \in [Inventories -> InventoryVersion]
    /\ invWatch \in [Inventories -> Seq(InventoryVersion)]
    /\ invSeen \in [Inventories -> InventoryVersion]
    /\ invQueue \subseteq Inventories
    /\ invWorker \in [pc : {"idle", "list", "status"},
                      key : Inventories \cup {NoName},
                      obj : InventoryVersion, fresh : BOOLEAN,
                      synced : SyncReasons]
    /\ credentials \in BOOLEAN
    /\ edits \in 0..MaxEdits

\* Once nobody deletes an inventory or its secret any more, its status comes
\* to say SyncOK and to list exactly the clusters that exist, and stays so.
InventoryConverges ==
    \A i \in Inventories :
        <>[](credentials /\ inv[i].life = "live") =>
            <>[](/\ inv[i].synced = "SyncOK"
                 /\ inv[i].instances = {id \in Ids : Exists(id)})

=============================================================================
