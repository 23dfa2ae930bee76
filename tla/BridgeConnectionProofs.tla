------------------------ MODULE BridgeConnectionProofs ------------------------
(***************************************************************************)
(* Proofs about BridgeConnection, for any connections, inventories,        *)
(* targets, clusters, faults and bounds.                                   *)
(*                                                                         *)
(* The references are written into what the worker holds before they are   *)
(* written to the API server, so that the worker is ahead of the current   *)
(* version, where in the other controllers it is never.  While its write   *)
(* would be accepted, it is ahead by references to the cluster that the    *)
(* connection specifies only, and that is a known one (Current).           *)
(***************************************************************************)
EXTENDS BridgeConnection, TLAPS

K == INSTANCE KubeObjectsProofs

N == INSTANCE KubeObjectsProofs WITH
         Keys <- Inventories, Absent <- NoInventory,
         IdleWorker <- IdleInventory, api <- inv, watch <- invWatch,
         seen <- invSeen, queue <- invQueue, worker <- invWorker

\* What may be said of every version, the current one and older ones.
VersionOK(v) ==
    /\ v.life = "live" => v.spec \in Targets
    /\ v.cond = "Ready" => v.cred # NoRef /\ v.info # NoRef
    /\ "retarget" \notin Faults =>
           v.cred \in {NoRef, v.spec.id} /\ v.info \in {NoRef, v.spec.id}

Versions == {v \in Version : VersionOK(v)}

\* The service knows, or knew, the cluster.
Known(ref) == ref \in Ids /\ clusters[ref].state # "none"

\* What the call about to be made says about the version held.
HeldVersion(w) ==
    /\ w.pc = "secret" => w.obj.cred = NoRef
    /\ w.pc = "configMap" => w.obj.cred # NoRef /\ w.obj.info = NoRef
    /\ w.pc = "status" /\ w.cond = "Ready" =>
           w.obj.cred # NoRef /\ w.obj.info # NoRef
    /\ w.pc \in {"secret", "configMap"} => Known(w.obj.spec.id)

\* A worker whose write would be accepted holds the current version, and what
\* it has added to that since.
Current(w) ==
    /\ api[w.key].life = "live"
    /\ api[w.key].spec = w.obj.spec
    /\ w.obj.cred \in {api[w.key].cred, w.obj.spec.id}
    /\ w.obj.info \in {api[w.key].info, w.obj.spec.id}
    /\ \A ref \in {w.obj.cred, w.obj.info} : ref # NoRef => Known(ref)

WorkerOK ==
    /\ worker.pc = "idle" => worker = IdleWorker
    /\ worker.pc # "idle" =>
           /\ worker.key \in Keys
           /\ worker.obj.life = "live" /\ VersionOK(worker.obj)
           /\ HeldVersion(worker)
           /\ worker.fresh => Current(worker)

RefsKnown ==
    \A k \in Keys : \A ref \in {api[k].cred, api[k].info} :
        ref # NoRef => Known(ref)

\* The worker of the inventories has one in hand while it is at work.
InventoryHeld == invWorker.pc # "idle" => invWorker.key \in Inventories

WorkerType ==
    [pc : {"idle", "role", "secret", "configMap", "status"},
     key : Keys \cup {NoName}, obj : Version, fresh : BOOLEAN, cond : Reasons]

InventoryWorkerType ==
    [pc : {"idle", "list", "status"}, key : Inventories \cup {NoName},
     obj : InventoryVersion, fresh : BOOLEAN, synced : SyncReasons]

\* What concerns the inventories, and what concerns the connections.
InventoryInv ==
    /\ N!CacheOK(InventoryVersion)
    /\ invQueue \subseteq Inventories
    /\ invWorker \in InventoryWorkerType
    /\ InventoryHeld

ConnectionInv ==
    /\ K!CacheOK(Versions)
    /\ queue \subseteq Keys
    /\ worker \in WorkerType
    /\ WorkerOK
    /\ RefsKnown

IInv ==
    /\ ApiTypeOK
    /\ credentials \in BOOLEAN
    /\ edits \in 0..MaxEdits
    /\ InventoryInv
    /\ ConnectionInv

-------------------------------------------------------------------------------
(* Types, and the steps of KubeObjects.                                    *)

\* The version of a connection that does not exist is one that may be written.
LEMMA AbsentType ==
    /\ Absent \in Version /\ Absent \in Versions
    /\ Absent.life = "absent" /\ Absent.cond = "" /\ Absent.finalizer = FALSE
    /\ Absent.cred = NoRef /\ Absent.info = NoRef
  BY DEF Absent, Version, Versions, VersionOK, Reasons, NoTarget

\* The worker between two Reconciles has the worker's type and holds nothing.
LEMMA IdleType ==
    /\ IdleWorker \in WorkerType
    /\ IdleWorker.pc = "idle" /\ IdleWorker.key = NoName
    /\ IdleWorker.key \notin Keys /\ ~IdleWorker.fresh
  BY AbsentType, NoNameNoKey DEF IdleWorker, WorkerType, Reasons

\* The same of inventories.
LEMMA IdleInventoryType ==
    /\ NoInventory \in InventoryVersion /\ NoInventory.life = "absent"
    /\ IdleInventory \in InventoryWorkerType /\ IdleInventory.pc = "idle"
  BY DEF NoInventory, InventoryVersion, IdleInventory, InventoryWorkerType,
         SyncReasons

\* The steps of KubeObjects are those that KubeObjectsProofs is about.
LEMMA SameSteps ==
    ASSUME NEW k, NEW v, NEW next, NEW requeue, NEW failing
    PROVE  /\ Commit(k, v) => K!Commit(k, v)
           /\ Deliver(k) => K!Deliver(k)
           /\ Restart => K!Restart
           /\ I!Commit(k, v) => N!Commit(k, v)
           /\ I!Deliver(k) => N!Deliver(k)
           /\ I!Restart => N!Restart
<1>1. Commit(k, v) => K!Commit(k, v)
  BY DEF Commit, K!Commit
<1>2. Deliver(k) => K!Deliver(k)
  BY DEF Deliver, K!Deliver
<1>3. Restart => K!Restart
  BY DEF Restart, K!Restart
<1>4. I!Commit(k, v) => N!Commit(k, v)
  BY DEF I!Commit, N!Commit
<1>5. I!Deliver(k) => N!Deliver(k)
  BY DEF I!Deliver, N!Deliver
<1>6. I!Restart => N!Restart
  BY DEF I!Restart, N!Restart
<1> QED
  BY <1>1, <1>2, <1>3, <1>4, <1>5, <1>6

\* The invariant says more than the types.
LEMMA TypesFollow == IInv => TypeOK
<1> SUFFICES ASSUME IInv PROVE TypeOK
  OBVIOUS
<1>1. /\ api \in [Keys -> Versions]
      /\ watch \in [Keys -> Seq(Versions)]
      /\ seen \in [Keys -> Versions]
  BY DEF IInv, ConnectionInv, K!CacheOK
<1>2. Versions \subseteq Version
  BY DEF Versions
<1>3. \A s \in Seq(Versions) : s \in Seq(Version)
  BY <1>2
<1>4. /\ api \in [Keys -> Version]
      /\ watch \in [Keys -> Seq(Version)]
      /\ seen \in [Keys -> Version]
  BY <1>1, <1>2, <1>3
<1>5. InventoryTypeOK
  BY DEF IInv, InventoryInv, N!CacheOK, InventoryTypeOK, InventoryWorkerType
<1> QED
  BY <1>4, <1>5 DEF TypeOK, IInv, ConnectionInv, WorkerType

-------------------------------------------------------------------------------
(* Kinds of steps.                                                         *)

\* What a step that happens elsewhere leaves of the inventories.
LEMMA InventorySame ==
    ASSUME InventoryInv, UNCHANGED inventoryVars
    PROVE  InventoryInv'
<1>1. N!CacheOK(InventoryVersion)'
  BY N!SameCache DEF InventoryInv, inventoryVars
<1> QED
  BY <1>1 DEF InventoryInv, InventoryHeld, inventoryVars

\* No cluster is forgotten by a step that leaves the clusters alone.
LEMMA KnownSame ==
    ASSUME clusters' = clusters
    PROVE  \A id : Known(id) => Known(id)'
  BY DEF Known

\* What a step that happens elsewhere leaves of the connections, if the service
\* remembers its clusters.
LEMMA ConnectionSame ==
    ASSUME ConnectionInv, UNCHANGED connectionVars,
           \A id : Known(id) => Known(id)'
    PROVE  ConnectionInv'
<1> USE DEF ConnectionInv, connectionVars
<1>1. K!CacheOK(Versions)'
  BY K!SameCache
<1>2. RefsKnown'
  BY DEF RefsKnown
<1>3. WorkerOK'
  <2>1. CASE worker.pc = "idle"
    BY <2>1 DEF WorkerOK
  <2>2. CASE worker.pc # "idle"
    <3>1. HeldVersion(worker)'
      <4>1. PICK id : id = worker.obj.spec.id
        OBVIOUS
      <4> QED
        BY <2>2, <4>1 DEF WorkerOK, HeldVersion
    <3>2. worker.fresh => Current(worker)'
      BY <2>2 DEF WorkerOK, Current
    <3> QED
      BY <2>2, <3>1, <3>2 DEF WorkerOK, VersionOK
  <2> QED
    BY <2>1, <2>2
<1> QED
  BY <1>1, <1>2, <1>3

\* A step that only moves the worker.
LEMMA WorkerMoves ==
    ASSUME ConnectionInv, clusters' = clusters, UNCHANGED <<api, watch, seen>>,
           queue' \subseteq Keys, worker' \in WorkerType, WorkerOK'
    PROVE  ConnectionInv'
<1>1. K!CacheOK(Versions)'
  BY K!SameCache DEF ConnectionInv
<1>2. RefsKnown'
  BY DEF ConnectionInv, RefsKnown, Known
<1> QED
  BY <1>1, <1>2 DEF ConnectionInv

\* Reconcile has returned.
LEMMA IdleOK ==
    ASSUME worker' = IdleWorker PROVE worker' \in WorkerType /\ WorkerOK'
  BY IdleType DEF WorkerOK

\* A new version of a connection whose references are known.
LEMMA CommitRefs ==
    ASSUME ConnectionInv, clusters' = clusters, seen' = seen,
           NEW k \in Keys, NEW v \in Versions, Commit(k, v),
           \A ref \in {v.cred, v.info} : ref # NoRef => Known(ref)
    PROVE  /\ K!CacheOK(Versions)' /\ RefsKnown'
           /\ api'[k] = v
           /\ \A j \in Keys : j # k => api'[j] = api[j]
<1>1. K!Commit(k, v)
  BY SameSteps
<1>2. /\ K!CacheOK(Versions)'
      /\ api'[k] = v
      /\ \A j \in Keys : j # k => api'[j] = api[j]
  BY <1>1, K!CommitCache DEF ConnectionInv
<1>3. RefsKnown'
  BY <1>2 DEF ConnectionInv, RefsKnown, Known
<1> QED
  BY <1>2, <1>3

-------------------------------------------------------------------------------
(* The service.                                                            *)

\* A call that meets a fault counts it.
LEMMA FaultType ==
    ASSUME ApiTypeOK, NEW kind, Fault(kind) PROVE faults' \in 0..MaxFaults
  BY MaxFaultsNatural DEF ApiTypeOK, Fault

\* A call that reads leaves the clusters alone.
LEMMA ReadSame ==
    ASSUME ApiTypeOK,
           \/ \E reply : Read(reply)
           \/ \E id, reply : ReadCluster(id, reply)
           \/ clusters' = clusters /\ faults' = faults
           \/ clusters' = clusters /\ \E kind : Fault(kind)
    PROVE  clusters' = clusters /\ ApiTypeOK'
<1>1. clusters' = clusters
  BY DEF Read, ReadCluster
<1>2. faults' = faults \/ \E kind : Fault(kind)
  BY DEF Read, ReadCluster
<1>3. faults' \in 0..MaxFaults
  BY <1>2, FaultType DEF ApiTypeOK
<1> QED
  BY <1>1, <1>3 DEF ApiTypeOK

\* What people do at the service changes clusters and forgets none.
LEMMA ServiceInv == IInv /\ ServiceStep => IInv'
<1> SUFFICES ASSUME IInv, ServiceStep PROVE IInv'
  OBVIOUS
<1>1. clusters \in [Ids -> ClusterRecord] /\ ApiTypeOK
  BY DEF IInv, ApiTypeOK
<1>2. UNCHANGED <<inventoryVars, credentials, edits, connectionVars>>
  BY DEF ServiceStep
<1>3. CASE \E name \in Names : ConsoleCreate(name, DefaultTeam)
  <2>1. PICK name \in Names : ConsoleCreate(name, DefaultTeam)
    BY <1>3
  <2> DEFINE new == [state |-> "creating", name |-> name,
                     team |-> DefaultTeam, owner |-> Nobody]
  <2>2. PICK id \in Ids : /\ clusters[id].state = "none"
                          /\ clusters' = [clusters EXCEPT ![id] = new]
    BY <2>1 DEF ConsoleCreate, Build
  <2>3. new \in ClusterRecord /\ new.state = "creating"
    BY DefaultTeamListed DEF ClusterRecord
  <2> HIDE DEF new
  <2>4. clusters' \in [Ids -> ClusterRecord]
    BY <1>1, <2>2, <2>3
  <2>5. faults' \in 0..MaxFaults
    BY <1>1, <2>1, FaultType DEF ConsoleCreate
  <2>6. \A ref \in Ids : clusters[ref].state # "none" =>
                             clusters'[ref].state # "none"
    BY <1>1, <2>2, <2>3
  <2>7. \A ref : Known(ref) => Known(ref)'
    BY <2>6 DEF Known
  <2> QED
    BY <1>2, <2>4, <2>5, <2>7, InventorySame, ConnectionSame
    DEF IInv, ApiTypeOK
<1>4. CASE \E id \in Ids : ConsoleDelete(id)
  <2>1. PICK id \in Ids : ConsoleDelete(id)
    BY <1>4
  <2>2. clusters' = [clusters EXCEPT ![id].state = "deleted"]
    BY <2>1 DEF ConsoleDelete
  <2> DEFINE new == [clusters[id] EXCEPT !.state = "deleted"]
  <2>3. new \in ClusterRecord /\ new.state = "deleted"
    <3>1. clusters[id] \in ClusterRecord
      BY <1>1
    <3> QED
      BY <3>1 DEF ClusterRecord
  <2>4. clusters' = [clusters EXCEPT ![id] = new]
    BY <2>2
  <2> HIDE DEF new
  <2>5. clusters' \in [Ids -> ClusterRecord]
    BY <1>1, <2>3, <2>4
  <2>6. faults' \in 0..MaxFaults
    BY <1>1, <2>1, FaultType DEF ConsoleDelete
  <2>7. \A ref \in Ids : clusters[ref].state # "none" =>
                             clusters'[ref].state # "none"
    BY <1>1, <2>3, <2>4
  <2>8. \A ref : Known(ref) => Known(ref)'
    BY <2>7 DEF Known
  <2> QED
    BY <1>2, <2>5, <2>6, <2>8, InventorySame, ConnectionSame
    DEF IInv, ApiTypeOK
<1> QED
  BY <1>3, <1>4 DEF ServiceStep

-------------------------------------------------------------------------------
(* Inventories.                                                            *)

\* What the worker of the inventories has in hand.
LEMMA InventoryInHand ==
    ASSUME InventoryInv, invWorker.pc # "idle"
    PROVE  /\ invWorker.key \in Inventories
           /\ invWorker.obj \in InventoryVersion
           /\ invWorker.synced \in SyncReasons
  BY DEF InventoryInv, InventoryHeld, InventoryWorkerType

\* A step of that worker, with or without a new version.
LEMMA InventoryMoves ==
    ASSUME InventoryInv, invSeen' = invSeen,
           \/ UNCHANGED <<inv, invWatch>>
           \/ \E i \in Inventories, v \in InventoryVersion : I!Commit(i, v),
           invQueue' \subseteq Inventories, invWorker' \in InventoryWorkerType,
           InventoryHeld'
    PROVE  InventoryInv'
<1>1. N!CacheOK(InventoryVersion)'
  <2>1. CASE UNCHANGED <<inv, invWatch>>
    BY <2>1, N!SameCache DEF InventoryInv
  <2>2. CASE \E i \in Inventories, v \in InventoryVersion : I!Commit(i, v)
    BY <2>2, SameSteps, N!CommitCache DEF InventoryInv
  <2> QED
    BY <2>1, <2>2
<1> QED
  BY <1>1 DEF InventoryInv

\* What is found out about the account is a list of identifiers.
LEMMA DiscoverType ==
    ASSUME IInv, DiscoverInventories
    PROVE  InventoryInv' /\ ApiTypeOK' /\ clusters' = clusters
<1>1. clusters' = clusters /\ ApiTypeOK'
  BY ReadSame DEF DiscoverInventories, IInv
<1>2. PICK reason \in SyncReasons, list \in SUBSET Ids : Discovered(reason, list)
  <2>1. invWorker.obj.instances \in SUBSET Ids
    BY InventoryInHand DEF DiscoverInventories, IInv, InventoryVersion
  <2> QED
    BY <2>1 DEF DiscoverInventories, SyncReasons
<1> DEFINE next == [invWorker EXCEPT !.pc = "status", !.synced = reason,
                                     !.obj.instances = list]
<1>3. invWorker' = next /\ invQueue' = invQueue
  BY <1>2 DEF Discovered, I!GoOn
<1>4. next \in InventoryWorkerType /\ next.key \in Inventories
  <2>1. invWorker \in InventoryWorkerType /\ invWorker.key \in Inventories
    BY InventoryInHand DEF DiscoverInventories, IInv, InventoryInv
  <2>2. invWorker.obj \in InventoryVersion
    BY <2>1 DEF InventoryWorkerType
  <2>3. [invWorker.obj EXCEPT !.instances = list] \in InventoryVersion
    BY <2>2 DEF InventoryVersion
  <2> QED
    BY <2>1, <2>3 DEF InventoryWorkerType
<1> HIDE DEF next
<1> QED
  BY <1>1, <1>3, <1>4, InventoryMoves
  DEF DiscoverInventories, IInv, InventoryInv, InventoryHeld

\* The status of an inventory is written.
LEMMA WriteInventoryType ==
    ASSUME IInv, WriteInventory
    PROVE  InventoryInv' /\ ApiTypeOK' /\ clusters' = clusters
<1>1. clusters' = clusters /\ ApiTypeOK'
  BY ReadSame DEF WriteInventory, IInv
<1>2. PICK i : i = invWorker.key
  OBVIOUS
<1>3. i \in Inventories /\ invWorker.obj \in InventoryVersion
      /\ invWorker.synced \in SyncReasons
  BY <1>2, InventoryInHand DEF WriteInventory, IInv
<1> DEFINE obj == [invWorker.obj EXCEPT !.synced = invWorker.synced]
           requeue == IF invWorker.synced = "SyncOK" THEN {} ELSE {i}
<1>4. obj \in InventoryVersion
  BY <1>3 DEF InventoryVersion
<1>5. I!Update(obj, IdleInventory, requeue, FALSE)
      \/ I!Update(obj, IdleInventory, requeue, TRUE)
  BY <1>2 DEF WriteInventory
<1>6. requeue \subseteq Inventories
  BY <1>3
<1> HIDE DEF obj, requeue
<1>7. /\ invSeen' = invSeen /\ invWorker' = IdleInventory
      /\ UNCHANGED <<inv, invWatch>> \/ I!Commit(i, obj)
      /\ invQueue' = invQueue \cup requeue \/ invQueue' = invQueue \cup {i}
  BY <1>2, <1>5 DEF I!Update, I!GoOn, I!ReturnError
<1>8. invQueue' \subseteq Inventories
  BY <1>3, <1>6, <1>7 DEF IInv, InventoryInv
<1>9. invWorker' \in InventoryWorkerType /\ InventoryHeld'
  BY <1>7, IdleInventoryType DEF InventoryHeld
<1> QED
  BY <1>1, <1>3, <1>4, <1>7, <1>8, <1>9, InventoryMoves DEF IInv

\* Somebody creates or deletes an inventory.
LEMMA InventoryUserType ==
    ASSUME InventoryInv, NEW i \in Inventories, NEW v \in InventoryVersion,
           I!ForeignCommit(i, v)
    PROVE  InventoryInv'
<1>1. /\ invSeen' = invSeen /\ I!Commit(i, v) /\ invQueue' = invQueue
      /\ \/ invWorker' = invWorker
         \/ invWorker' = [invWorker EXCEPT !.fresh = FALSE]
  BY DEF I!ForeignCommit
<1>2. invWorker' \in InventoryWorkerType /\ InventoryHeld'
  BY <1>1 DEF InventoryInv, InventoryHeld, InventoryWorkerType
<1> QED
  BY <1>1, <1>2, InventoryMoves DEF InventoryInv

\* Reconcile begins with the inventory that the cache has.
LEMMA ReconcileInventoryType ==
    ASSUME InventoryInv, NEW i \in Inventories, ReconcileInventory(i)
    PROVE  InventoryInv'
<1> DEFINE held == [pc |-> IF credentials THEN "list" ELSE "status",
                    key |-> i, obj |-> invSeen[i],
                    fresh |-> (invWatch[i] = <<>>),
                    synced |-> IF credentials THEN ""
                               ELSE "AuthenticationError"]
<1>1. invSeen[i] \in InventoryVersion
  BY DEF InventoryInv, N!CacheOK
<1>2. held \in InventoryWorkerType /\ held.key \in Inventories
  BY <1>1 DEF InventoryWorkerType, SyncReasons
<1>3. /\ UNCHANGED <<inv, invWatch, invSeen>>
      /\ invQueue' \subseteq Inventories
      /\ invWorker' = IdleInventory \/ invWorker' = held
  BY DEF ReconcileInventory, I!Take, InventoryInv
<1> HIDE DEF held
<1>4. invWorker' \in InventoryWorkerType /\ InventoryHeld'
  BY <1>2, <1>3, IdleInventoryType DEF InventoryHeld
<1> QED
  BY <1>3, <1>4, InventoryMoves

\* Events and resynchronisations of inventories.
LEMMA InventoryCacheType ==
    ASSUME InventoryInv, InventoryCache PROVE InventoryInv'
<1>1. CASE I!Resync
  BY <1>1, InventoryMoves DEF I!Resync, InventoryInv, InventoryHeld
<1>2. CASE \E i \in Inventories : I!Deliver(i)
  <2>1. PICK i \in Inventories : I!Deliver(i)
    BY <1>2
  <2>2. N!CacheOK(InventoryVersion)'
    BY <2>1, SameSteps, N!DeliverCache DEF InventoryInv
  <2> QED
    BY <2>1, <2>2 DEF InventoryInv, InventoryHeld, I!Deliver
<1>3. CASE /\ \E i \in Inventories : invQueue' = invQueue \cup {i}
           /\ UNCHANGED <<inv, invWatch, invSeen, invWorker>>
  BY <1>3, InventoryMoves DEF InventoryInv, InventoryHeld
<1> QED
  BY <1>1, <1>2, <1>3 DEF InventoryCache

\* What users do to inventories and to the secret of the account.
LEMMA InventoryUsersType ==
    ASSUME IInv, InventoryUsers
    PROVE  /\ InventoryInv' /\ ApiTypeOK' /\ clusters' = clusters
           /\ credentials' \in BOOLEAN /\ edits' \in 0..MaxEdits
<1>1. CASE \E i \in Inventories : InventoryCreate(i) \/ InventoryDelete(i)
  <2>1. PICK i \in Inventories : InventoryCreate(i) \/ InventoryDelete(i)
    BY <1>1
  <2>2. Edit
    BY <2>1 DEF InventoryCreate, InventoryDelete
  <2>3. edits' \in 0..MaxEdits
    BY <2>2, MaxEditsNatural DEF Edit, IInv
  <2>4. ApiTypeOK' /\ clusters' = clusters
    BY <2>2, ReadSame DEF Edit, IInv
  <2>5. inv[i] \in InventoryVersion
    BY DEF IInv, InventoryInv, N!CacheOK
  <2>6. [NoInventory EXCEPT !.life = "live"] \in InventoryVersion
    BY DEF NoInventory, InventoryVersion, SyncReasons
  <2>7. \E v \in InventoryVersion : I!ForeignCommit(i, v)
    BY <2>1, <2>5, <2>6, IdleInventoryType
    DEF InventoryCreate, InventoryDelete, I!ForeignDelete, InventoryVersion
  <2> QED
    BY <2>2, <2>3, <2>4, <2>7, InventoryUserType DEF Edit, IInv
<1>2. CASE CredentialsLost
  BY <1>2, ReadSame, InventorySame DEF CredentialsLost, IInv
<1>3. CASE CredentialsRestored
  BY <1>3, ReadSame, InventorySame DEF CredentialsRestored, IInv
<1> QED
  BY <1>1, <1>2, <1>3 DEF InventoryUsers

\* Nothing that concerns inventories concerns what the connections refer to.
LEMMA InventoryStepInv == IInv /\ InventoryStep => IInv'
<1> SUFFICES ASSUME IInv, InventoryStep PROVE IInv'
  OBVIOUS
<1>1. UNCHANGED connectionVars
  BY DEF InventoryStep
<1>2. /\ InventoryInv' /\ ApiTypeOK' /\ clusters' = clusters
      /\ credentials' \in BOOLEAN /\ edits' \in 0..MaxEdits
  <2>1. CASE DiscoverInventories
    BY <2>1, DiscoverType DEF DiscoverInventories, IInv
  <2>2. CASE WriteInventory
    BY <2>2, WriteInventoryType DEF WriteInventory, IInv
  <2>3. CASE InventoryCache
    BY <2>3, InventoryCacheType, ReadSame DEF InventoryCache, IInv
  <2>4. CASE InventoryUsers
    BY <2>4, InventoryUsersType
  <2>5. CASE \E i \in Inventories : ReconcileInventory(i)
    BY <2>5, ReconcileInventoryType, ReadSame DEF ReconcileInventory, IInv
  <2> QED
    BY <2>1, <2>2, <2>3, <2>4, <2>5 DEF InventoryStep, InventoryWorker
<1>3. ConnectionInv'
  BY <1>1, <1>2, KnownSame, ConnectionSame DEF IInv
<1> QED
  BY <1>2, <1>3 DEF IInv

\* The operator restarts.
LEMMA RestartInv == IInv /\ OperatorRestart => IInv'
<1> SUFFICES ASSUME IInv, OperatorRestart PROVE IInv'
  OBVIOUS
<1>1. /\ Restart /\ I!Restart /\ Fault("restart")
      /\ UNCHANGED <<clusters, credentials, edits>>
  BY DEF OperatorRestart
<1>2. ApiTypeOK'
  BY <1>1, ReadSame DEF IInv
<1>3. N!CacheOK(InventoryVersion)' /\ K!CacheOK(Versions)'
  BY <1>1, SameSteps, K!RestartCache, N!RestartCache
  DEF IInv, InventoryInv, ConnectionInv
<1>4. InventoryInv'
  BY <1>1, <1>3, IdleInventoryType DEF I!Restart, InventoryInv, InventoryHeld
<1>5. RefsKnown'
  BY <1>1 DEF Restart, RefsKnown, Known, IInv, ConnectionInv
<1>6. ConnectionInv'
  BY <1>1, <1>3, <1>5, IdleOK DEF Restart, ConnectionInv
<1> QED
  BY <1>1, <1>2, <1>4, <1>6 DEF IInv

\* The operator starts with nothing in hand.
LEMMA InitInv == Init => IInv
<1> SUFFICES ASSUME Init PROVE IInv
  OBVIOUS
<1>1. ApiTypeOK
  <2> DEFINE name == CHOOSE f \in Injection(Existing, Names) : TRUE
             known(id) == [state |-> "ready", name |-> name[id],
                           team |-> DefaultTeam, owner |-> Nobody]
  <2>1. name \in Injection(Existing, Names)
    BY ExistingNamed
  <2>2. name \in [Existing -> Names]
    BY <2>1 DEF Injection
  <2>3. \A id \in Existing : name[id] \in Names
    BY <2>2
  <2> HIDE DEF name
  <2>4. \A id \in Existing : known(id) \in ClusterRecord
    BY <2>3, DefaultTeamListed DEF ClusterRecord
  <2>5. NoCluster \in ClusterRecord
    BY DEF NoCluster, ClusterRecord
  <2>6. clusters = [id \in Ids |-> IF id \in Existing THEN known(id)
                                                       ELSE NoCluster]
    BY DEF Init, InventoryInit, name
  <2> HIDE DEF known
  <2>7. clusters \in [Ids -> ClusterRecord]
    BY <2>4, <2>5, <2>6
  <2>8. faults = 0
    BY DEF Init, InventoryInit
  <2>9. faults \in 0..MaxFaults
    BY <2>8, MaxFaultsNatural
  <2> QED
    BY <2>7, <2>9 DEF ApiTypeOK
<1>2. credentials \in BOOLEAN /\ edits \in 0..MaxEdits
  BY MaxEditsNatural DEF Init, InventoryInit
<1>3. InventoryInv
  <2> DEFINE made == [NoInventory EXCEPT !.life = "live"]
  <2>1. made \in InventoryVersion
    BY DEF NoInventory, InventoryVersion, SyncReasons
  <2>2. /\ inv = [i \in Inventories |-> made] /\ invSeen = inv
        /\ invWatch = [i \in Inventories |-> <<>>]
        /\ invQueue = Inventories /\ invWorker = IdleInventory
    BY DEF Init, InventoryInit
  <2> HIDE DEF made
  <2>3. N!CacheOK(InventoryVersion)
    BY <2>1, <2>2 DEF N!CacheOK, N!Converges
  <2> QED
    BY <2>2, <2>3, IdleInventoryType DEF InventoryInv, InventoryHeld
<1>4. ConnectionInv
  <2>1. /\ api = [k \in Keys |-> Absent] /\ seen = api
        /\ watch = [k \in Keys |-> <<>>]
    BY DEF Init
  <2>4. K!CacheOK(Versions)
    <3>1. Absent \in Versions
      BY AbsentType
    <3>2. \A k \in Keys : K!Converges(k)
      BY <2>1 DEF K!Converges
    <3> QED
      BY <2>1, <3>1, <3>2 DEF K!CacheOK
  <2>2. RefsKnown
    BY AbsentType DEF Init, RefsKnown
  <2>3. queue \subseteq Keys /\ worker \in WorkerType /\ WorkerOK
    BY IdleType DEF Init, WorkerOK
  <2> QED
    BY <2>2, <2>3, <2>4 DEF ConnectionInv
<1> QED
  BY <1>1, <1>2, <1>3, <1>4 DEF IInv

-------------------------------------------------------------------------------
(* The worker of the connections.                                          *)

\* What it has in hand.
LEMMA InHand ==
    ASSUME ConnectionInv, worker.pc # "idle"
    PROVE  /\ worker \in WorkerType
           /\ worker.key \in Keys
           /\ worker.obj \in Version
           /\ worker.obj.life = "live" /\ VersionOK(worker.obj)
           /\ worker.obj.spec \in Targets
           /\ worker.obj.spec.id \in Ids /\ worker.obj.spec.id # NoRef
           /\ HeldVersion(worker)
           /\ worker.fresh => Current(worker)
<1>1. /\ worker \in WorkerType /\ worker.key \in Keys
      /\ worker.obj.life = "live" /\ VersionOK(worker.obj)
      /\ HeldVersion(worker) /\ (worker.fresh => Current(worker))
  BY DEF ConnectionInv, WorkerOK
<1>2. worker.obj.spec \in Targets
  BY <1>1 DEF VersionOK
<1>3. worker.obj.spec.id \in Ids
  BY <1>2, TargetsKnown
<1> QED
  BY <1>1, <1>2, <1>3, NoRefIsNone DEF WorkerType

\* A step of connectionDetails is as good as what it goes on with.
LEMMA DetailInv ==
    ASSUME IInv, ApiTypeOK', NEW next \in WorkerType, DetailStep(next),
           next.pc # "idle", next.key \in Keys, next.obj.life = "live",
           VersionOK(next.obj), HeldVersion(next), next.fresh => Current(next)
    PROVE  IInv'
<1>1. /\ clusters' = clusters /\ UNCHANGED <<api, watch, seen>>
      /\ UNCHANGED inventoryVars /\ UNCHANGED <<credentials, edits>>
      /\ queue' = queue /\ worker' = next
  BY DEF DetailStep, GoOn
<1>2. HeldVersion(worker)'
  BY <1>1 DEF HeldVersion, Known
<1>3. worker'.fresh => Current(worker)'
  BY <1>1 DEF Current, Known
<1>4. VersionOK(worker'.obj)
  BY <1>1 DEF VersionOK
<1>5. WorkerOK'
  BY <1>1, <1>2, <1>3, <1>4 DEF WorkerOK, VersionOK
<1>6. ConnectionInv'
  BY <1>1, <1>5, WorkerMoves DEF IInv, ConnectionInv
<1> QED
  BY <1>1, <1>6, InventorySame DEF IInv

\* A failing call leaves what the worker holds to be written.
LEMMA FailedInv ==
    ASSUME IInv, ApiTypeOK', DetailStep(BackendFailed), worker.pc # "idle"
    PROVE  IInv'
<1>1. ConnectionInv
  BY DEF IInv
<1> DEFINE next == BackendFailed
<1>2. /\ next \in WorkerType /\ next.pc = "status"
      /\ next.cond = "BackendError"
      /\ next.key = worker.key /\ next.obj = worker.obj
      /\ next.fresh = worker.fresh
  BY <1>1, InHand DEF BackendFailed, WorkerType, Reasons
<1>3. DetailStep(next)
  OBVIOUS
<1> HIDE DEF next
<1>4. HeldVersion(next) /\ (next.fresh => Current(next))
  BY <1>1, <1>2, InHand DEF HeldVersion, Current
<1> QED
  BY <1>1, <1>2, <1>3, <1>4, InHand, DetailInv

\* What is still to be made is what the version does not refer to.
LEMMA AfterRoleCases ==
    ASSUME NEW obj
    PROVE  \/ AfterRole(obj) = "secret" /\ obj.cred = NoRef
           \/ AfterRole(obj) = "configMap" /\ obj.cred # NoRef
                                           /\ obj.info = NoRef
           \/ AfterRole(obj) = "status" /\ obj.cred # NoRef
                                        /\ obj.info # NoRef
  BY DEF AfterRole

\* The role is read of a cluster that exists.
LEMMA RoleInv == IInv /\ DefaultConnRole => IInv'
<1> SUFFICES ASSUME IInv, DefaultConnRole PROVE IInv'
  OBVIOUS
<1>1. worker.pc = "role" /\ ConnectionInv
  BY DEF DefaultConnRole, IInv
<1>2. ApiTypeOK'
  BY ReadSame DEF DefaultConnRole, IInv
<1>3. CASE /\ ReadCluster(worker.obj.spec.id, "ok")
           /\ DetailStep([worker EXCEPT !.pc = AfterRole(worker.obj)])
  <2> DEFINE next == [worker EXCEPT !.pc = AfterRole(worker.obj)]
  <2>1. Known(worker.obj.spec.id)
    BY <1>3 DEF ReadCluster, Exists, Known
  <2>2. /\ next \in WorkerType /\ next.pc = AfterRole(worker.obj)
        /\ next.key = worker.key /\ next.obj = worker.obj
        /\ next.fresh = worker.fresh
    BY <1>1, InHand, AfterRoleCases DEF WorkerType
  <2>3. DetailStep(next)
    BY <1>3
  <2> HIDE DEF next
  <2>4. HeldVersion(next)
    BY <2>1, <2>2, AfterRoleCases DEF HeldVersion
  <2>5. next.fresh => Current(next)
    BY <1>1, <2>2, InHand DEF Current
  <2>6. next.pc # "idle"
    BY <2>2, AfterRoleCases
  <2> QED
    BY <1>1, <1>2, <2>2, <2>3, <2>4, <2>5, <2>6, InHand, DetailInv
<1>4. CASE DetailStep(BackendFailed)
  BY <1>1, <1>2, <1>4, FailedInv
<1> QED
  BY <1>3, <1>4 DEF DefaultConnRole

\* The secret is one of the cluster whose role was read.
LEMMA SecretInv == IInv /\ CreateSecret => IInv'
<1> SUFFICES ASSUME IInv, CreateSecret PROVE IInv'
  OBVIOUS
<1>1. worker.pc = "secret" /\ ConnectionInv
  BY DEF CreateSecret, IInv
<1> DEFINE obj == [worker.obj EXCEPT !.cred = worker.obj.spec.id]
           next == [worker EXCEPT !.obj = obj, !.pc = AfterRole(obj)]
<1>2. \/ DetailStep(next) /\ UNCHANGED faults
      \/ DetailStep(BackendFailed) /\ Fault("kube")
  BY DEF CreateSecret
<1>3. ApiTypeOK'
  BY <1>2, ReadSame DEF DetailStep, IInv
<1>4. worker.obj.cred = NoRef /\ Known(worker.obj.spec.id)
  BY <1>1, InHand DEF HeldVersion
<1>5. /\ obj \in Version /\ obj.life = "live"
      /\ obj.spec = worker.obj.spec /\ obj.cond = worker.obj.cond
      /\ obj.info = worker.obj.info
      /\ obj.cred = worker.obj.spec.id /\ obj.cred # NoRef
  BY <1>1, InHand DEF Version
<1>6. VersionOK(obj)
  BY <1>1, <1>4, <1>5, InHand DEF VersionOK
<1>7. AfterRole(obj) \in {"configMap", "status"}
  BY <1>5, AfterRoleCases
<1> HIDE DEF obj
<1>8. /\ next \in WorkerType /\ next.pc = AfterRole(obj)
      /\ next.key = worker.key /\ next.obj = obj
      /\ next.fresh = worker.fresh
  BY <1>1, <1>5, <1>7, InHand DEF WorkerType
<1> HIDE DEF next
<1>9. HeldVersion(next)
  BY <1>4, <1>5, <1>7, <1>8, AfterRoleCases DEF HeldVersion
<1>10. next.fresh => Current(next)
  BY <1>1, <1>4, <1>5, <1>8, InHand DEF Current
<1>11. CASE DetailStep(next)
  BY <1>1, <1>3, <1>5, <1>6, <1>7, <1>8, <1>9, <1>10, <1>11, InHand, DetailInv
<1>12. CASE DetailStep(BackendFailed)
  BY <1>1, <1>3, <1>12, FailedInv
<1> QED
  BY <1>2, <1>11, <1>12

\* And so is the config map.
LEMMA ConfigMapInv == IInv /\ CreateConfigMap => IInv'
<1> SUFFICES ASSUME IInv, CreateConfigMap PROVE IInv'
  OBVIOUS
<1>1. worker.pc = "configMap" /\ ConnectionInv
  BY DEF CreateConfigMap, IInv
<1> DEFINE obj == [worker.obj EXCEPT !.info = worker.obj.spec.id]
           next == [worker EXCEPT !.obj = obj, !.pc = "status"]
<1>2. \/ DetailStep(next) /\ UNCHANGED faults
      \/ DetailStep(BackendFailed) /\ Fault("kube")
  BY DEF CreateConfigMap
<1>3. ApiTypeOK'
  BY <1>2, ReadSame DEF DetailStep, IInv
<1>4. /\ worker.obj.cred # NoRef /\ worker.obj.info = NoRef
      /\ Known(worker.obj.spec.id)
  BY <1>1, InHand DEF HeldVersion
<1>5. /\ obj \in Version /\ obj.life = "live"
      /\ obj.spec = worker.obj.spec /\ obj.cond = worker.obj.cond
      /\ obj.cred = worker.obj.cred
      /\ obj.info = worker.obj.spec.id /\ obj.info # NoRef
  BY <1>1, InHand DEF Version
<1>6. VersionOK(obj)
  BY <1>1, <1>4, <1>5, InHand DEF VersionOK
<1> HIDE DEF obj
<1>7. /\ next \in WorkerType /\ next.pc = "status"
      /\ next.key = worker.key /\ next.obj = obj
      /\ next.fresh = worker.fresh
  BY <1>1, <1>5, InHand DEF WorkerType
<1> HIDE DEF next
<1>8. HeldVersion(next)
  BY <1>4, <1>5, <1>7 DEF HeldVersion
<1>9. next.fresh => Current(next)
  BY <1>1, <1>4, <1>5, <1>7, InHand DEF Current
<1>10. CASE DetailStep(next)
  BY <1>1, <1>3, <1>5, <1>6, <1>7, <1>8, <1>9, <1>10, InHand, DetailInv
<1>11. CASE DetailStep(BackendFailed)
  BY <1>1, <1>3, <1>11, FailedInv
<1> QED
  BY <1>2, <1>10, <1>11

\* What WriteStatus writes may be written, refers to known clusters, and comes
\* from the current version.
LEMMA WriteStatusCases ==
    ASSUME IInv, WriteStatus
    PROVE  \E k \in Keys, v \in Versions :
               /\ k = worker.key
               /\ v.cred = worker.obj.cred /\ v.info = worker.obj.info
               /\ v.life = "live" /\ v.spec = worker.obj.spec
               /\ \/ Commit(k, v) /\ worker.fresh
                  \/ UNCHANGED <<api, watch>>
               /\ seen' = seen /\ worker' = IdleWorker
               /\ queue' \subseteq Keys
<1>1. worker.pc = "status" /\ ConnectionInv
  BY DEF WriteStatus, IInv
<1>2. PICK k \in Keys : k = worker.key
  BY <1>1, InHand
<1> DEFINE v == [worker.obj EXCEPT !.cond = worker.cond]
           requeue == IF worker.cond = "Ready" THEN {} ELSE {k}
<1>3. Update(v, IdleWorker, requeue, FALSE) \/ Update(v, IdleWorker, requeue, TRUE)
  BY <1>2 DEF WriteStatus
<1>4. /\ v \in Version /\ v.life = "live" /\ v.spec = worker.obj.spec
      /\ v.cond = worker.cond
      /\ v.cred = worker.obj.cred /\ v.info = worker.obj.info
  BY <1>1, InHand DEF Version, WorkerType
<1>5. VersionOK(v)
  BY <1>1, <1>4, InHand DEF VersionOK, HeldVersion
<1>6. v \in Versions
  BY <1>4, <1>5 DEF Versions
<1>7. requeue \subseteq Keys
  OBVIOUS
<1> HIDE DEF v, requeue
<1>8. /\ seen' = seen /\ worker' = IdleWorker
      /\ (Commit(k, v) /\ worker.fresh) \/ UNCHANGED <<api, watch>>
      /\ queue' = queue \cup requeue \/ queue' = queue \cup {k}
  BY <1>2, <1>3 DEF Update, GoOn, ReturnError
<1>9. queue' \subseteq Keys
  BY <1>1, <1>7, <1>8 DEF ConnectionInv
<1> QED
  BY <1>2, <1>4, <1>6, <1>8, <1>9

\* The status is written, or not.
LEMMA WriteStatusInv == IInv /\ WriteStatus => IInv'
<1> SUFFICES ASSUME IInv, WriteStatus PROVE IInv'
  OBVIOUS
<1>1. /\ worker.pc = "status" /\ ConnectionInv /\ clusters' = clusters
      /\ UNCHANGED inventoryVars /\ UNCHANGED <<credentials, edits>>
  BY DEF WriteStatus, IInv
<1>2. ApiTypeOK'
  BY <1>1, ReadSame DEF WriteStatus, IInv
<1>3. PICK k \in Keys, v \in Versions :
               /\ k = worker.key
               /\ v.cred = worker.obj.cred /\ v.info = worker.obj.info
               /\ v.life = "live" /\ v.spec = worker.obj.spec
               /\ \/ Commit(k, v) /\ worker.fresh
                  \/ UNCHANGED <<api, watch>>
               /\ seen' = seen /\ worker' = IdleWorker
               /\ queue' \subseteq Keys
  BY WriteStatusCases
<1>4. worker' \in WorkerType /\ WorkerOK'
  BY <1>3, IdleOK
<1>5. ConnectionInv'
  <2>1. CASE UNCHANGED <<api, watch>>
    BY <1>1, <1>3, <1>4, <2>1, WorkerMoves
  <2>2. CASE Commit(k, v) /\ worker.fresh
    <3>1. \A ref \in {v.cred, v.info} : ref # NoRef => Known(ref)
      BY <1>1, <1>3, <2>2, InHand DEF Current
    <3>2. K!CacheOK(Versions)' /\ RefsKnown'
      BY <1>1, <1>3, <2>2, <3>1, CommitRefs
    <3> QED
      BY <1>3, <1>4, <3>2 DEF ConnectionInv
  <2> QED
    BY <1>3, <2>1, <2>2
<1> QED
  BY <1>1, <1>2, <1>5, InventorySame DEF IInv

\* Reconcile reports a reason or nothing before it asks the service, and the
\* reason is not Ready.
LEMMA LookupReasons ==
    ASSUME InventoryInv, NEW obj, obj.spec \in Targets
    PROVE  LookupReason(obj) \in Reasons /\ LookupReason(obj) # "Ready"
<1>1. obj.spec.inventory \in Inventories
  BY TargetsKnown
<1>2. invSeen[obj.spec.inventory] \in InventoryVersion
  BY <1>1 DEF InventoryInv, N!CacheOK
<1>3. invSeen[obj.spec.inventory].life \in {"absent", "live"}
  BY <1>2 DEF InventoryVersion
<1> QED
  BY <1>3 DEF LookupReason, Reasons

\* Reconcile begins with the version that the cache has, which is the current
\* one if none is on its way.
LEMMA ReconcileInv == \A k \in Keys : IInv /\ Reconcile(k) => IInv'
<1> SUFFICES ASSUME IInv, NEW k \in Keys, Reconcile(k) PROVE IInv'
  OBVIOUS
<1> PICK fresh \in BOOLEAN : fresh <=> watch[k] = <<>>
  OBVIOUS
<1> DEFINE obj == seen[k]
           start(pc, cond) == [pc |-> pc, key |-> k, obj |-> obj,
                               fresh |-> fresh, cond |-> cond]
<1>1. /\ UNCHANGED restVars /\ UNCHANGED inventoryVars
      /\ UNCHANGED <<api, watch, seen>> /\ queue' \subseteq queue
      /\ clusters' = clusters /\ UNCHANGED <<credentials, edits>>
  BY DEF Reconcile, Take, restVars
<1>2. \/ worker' = IdleWorker
      \/ /\ obj.life # "absent"
         /\ \/ LookupReason(obj) # ""
               /\ worker' = start("status", LookupReason(obj))
            \/ obj.cond = "Ready" /\ worker' = start("status", "Ready")
            \/ worker' = start("role", "Ready")
  BY DEF Reconcile, Take, BindingExists
<1>3. ApiTypeOK' /\ ConnectionInv
  BY <1>1, ReadSame DEF restVars, IInv
<1>4. obj \in Versions /\ (watch[k] = <<>> => obj = api[k])
  BY <1>3 DEF ConnectionInv, K!CacheOK, K!Converges
<1>5. ConnectionInv'
  <2>1. CASE worker' = IdleWorker
    BY <1>1, <1>3, <2>1, IdleOK, WorkerMoves DEF ConnectionInv
  <2>2. CASE worker' # IdleWorker
    <3>1. obj \in Version /\ obj.life = "live" /\ VersionOK(obj)
      BY <1>2, <1>4, <2>2 DEF Versions, Version
    <3>2. obj.spec \in Targets
      BY <3>1 DEF VersionOK
    <3>3. LookupReason(obj) \in Reasons /\ LookupReason(obj) # "Ready"
      BY <3>2, LookupReasons DEF IInv
    <3>4. obj.cond = "Ready" => obj.cred # NoRef /\ obj.info # NoRef
      BY <3>1 DEF VersionOK
    <3>5. PICK pc \in {"role", "status"}, cond \in Reasons :
            /\ worker' = start(pc, cond)
            /\ pc = "status" /\ cond = "Ready" => obj.cond = "Ready"
      BY <1>2, <2>2, <3>3 DEF Reasons
    <3> HIDE DEF obj
    <3>6. /\ worker'.pc = pc /\ worker'.key = k /\ worker'.obj = obj
          /\ worker'.cond = cond /\ worker'.fresh = fresh
          /\ worker' \in WorkerType
      BY <3>1, <3>5 DEF WorkerType
    <3>7. HeldVersion(worker)'
      BY <3>4, <3>5, <3>6 DEF HeldVersion
    <3>8. worker'.fresh => Current(worker)'
      <4> SUFFICES ASSUME worker'.fresh PROVE Current(worker)'
        OBVIOUS
      <4>1. obj = api[k]
        BY <1>4, <3>6
      <4>2. \A ref \in {obj.cred, obj.info} : ref # NoRef => Known(ref)
        BY <1>3, <4>1 DEF ConnectionInv, RefsKnown
      <4> QED
        BY <1>1, <3>1, <3>6, <4>1, <4>2 DEF Current, Known
    <3>9. WorkerOK'
      BY <3>1, <3>5, <3>6, <3>7, <3>8 DEF WorkerOK, VersionOK
    <3> QED
      BY <1>1, <1>3, <3>6, <3>9, WorkerMoves DEF ConnectionInv
  <2> QED
    BY <2>1, <2>2
<1> QED
  BY <1>1, <1>3, <1>5, InventorySame DEF IInv

\* Events and resynchronisations of connections.
LEMMA CacheInv == IInv /\ ConnectionCache => IInv'
<1> SUFFICES ASSUME IInv, ConnectionCache PROVE IInv'
  OBVIOUS
<1>1. /\ UNCHANGED restVars /\ UNCHANGED inventoryVars
      /\ clusters' = clusters /\ UNCHANGED <<credentials, edits>>
      /\ worker' = worker /\ api' = api
  BY DEF ConnectionCache, restVars, Resync, Deliver
<1>2. ApiTypeOK' /\ ConnectionInv
  BY <1>1, ReadSame DEF restVars, IInv
<1>3. K!CacheOK(Versions)'
  <2>1. CASE Resync
    BY <1>2, <2>1, K!SameCache DEF Resync, ConnectionInv
  <2>2. CASE \E k \in Keys : Deliver(k)
    BY <1>2, <2>2, SameSteps, K!DeliverCache DEF ConnectionInv
  <2> QED
    BY <2>1, <2>2 DEF ConnectionCache
<1>4. queue' \subseteq Keys
  BY <1>2 DEF ConnectionCache, Resync, Deliver, ConnectionInv
<1>5. RefsKnown'
  BY <1>1, <1>2 DEF RefsKnown, Known, ConnectionInv
<1>6. WorkerOK'
  <2>1. CASE worker.pc = "idle"
    BY <1>1, <1>2, <2>1 DEF WorkerOK, ConnectionInv
  <2>2. CASE worker.pc # "idle"
    <3>1. HeldVersion(worker)'
      BY <1>1, <1>2, <2>2, InHand DEF HeldVersion, Known
    <3>2. worker'.fresh => Current(worker)'
      BY <1>1, <1>2, <2>2, InHand DEF Current, Known
    <3> QED
      BY <1>1, <1>2, <2>2, <3>1, <3>2, InHand DEF WorkerOK, VersionOK
  <2> QED
    BY <2>1, <2>2
<1> QED
  BY <1>1, <1>2, <1>3, <1>4, <1>5, <1>6, InventorySame DEF IInv, ConnectionInv

\* Users write what has only known references, or none.
LEMMA UserWrites ==
    ASSUME IInv, ConnectionUsers
    PROVE  \E k \in Keys, v \in Versions :
               /\ ForeignCommit(k, v)
               /\ \A ref \in {v.cred, v.info} : ref # NoRef => Known(ref)
               /\ \/ v.life = "absent"
                  \/ api[k].life = "absent"
                  \/ v.cred = api[k].cred /\ v.info = api[k].info
<1>1. PICK k \in Keys :
        \/ ConnectionDelete(k)
        \/ \E spec \in Targets : ConnectionCreate(k, spec)
        \/ \E spec \in Targets : ConnectionEdit(k, spec)
  BY DEF ConnectionUsers
<1>2. api[k] \in Versions
  BY DEF IInv, ConnectionInv, K!CacheOK
<1>3. CASE ConnectionDelete(k)
  <2>1. ~api[k].finalizer
    BY <1>2 DEF Versions, Version
  <2>2. ForeignCommit(k, Absent)
    BY <1>3, <2>1 DEF ConnectionDelete, ForeignDelete
  <2> QED
    BY <2>2, AbsentType
<1>4. CASE \E spec \in Targets : ConnectionCreate(k, spec)
  <2>1. PICK spec \in Targets : ConnectionCreate(k, spec)
    BY <1>4
  <2> DEFINE v == [Absent EXCEPT !.life = "live", !.spec = spec]
  <2>2. ForeignCommit(k, v) /\ api[k].life = "absent"
    BY <2>1 DEF ConnectionCreate
  <2>3. /\ v \in Version /\ v.cred = NoRef /\ v.info = NoRef
        /\ v.cond = "" /\ v.spec = spec
    BY DEF Absent, Version, Reasons
  <2>4. v \in Versions
    BY <2>3 DEF Versions, VersionOK
  <2> HIDE DEF v
  <2> QED
    BY <2>2, <2>3, <2>4
<1>5. CASE \E spec \in Targets : ConnectionEdit(k, spec)
  <2>1. PICK spec \in Targets : ConnectionEdit(k, spec)
    BY <1>5
  <2> DEFINE v == [api[k] EXCEPT !.spec = spec]
  <2>2. ForeignCommit(k, v) /\ "retarget" \in Faults
    BY <2>1 DEF ConnectionEdit
  <2>3. /\ v \in Version /\ v.cred = api[k].cred /\ v.info = api[k].info
        /\ v.cond = api[k].cond /\ v.spec = spec
    BY <1>2 DEF Versions, Version
  <2>4. VersionOK(v)
    BY <1>2, <2>2, <2>3 DEF Versions, VersionOK
  <2>5. \A ref \in {v.cred, v.info} : ref # NoRef => Known(ref)
    BY <2>3 DEF IInv, ConnectionInv, RefsKnown
  <2>6. v \in Versions
    BY <2>3, <2>4 DEF Versions
  <2> HIDE DEF v
  <2> QED
    BY <2>2, <2>3, <2>5, <2>6
<1> QED
  BY <1>1, <1>3, <1>4, <1>5

\* What users do to connections: the write of a worker that holds what was the
\* current version will be refused.
LEMMA UsersInv == IInv /\ ConnectionUsers => IInv'
<1> SUFFICES ASSUME IInv, ConnectionUsers PROVE IInv'
  OBVIOUS
<1>1. Edit /\ UNCHANGED inventoryVars /\ ConnectionInv
  BY DEF ConnectionUsers, ConnectionDelete, ConnectionCreate, ConnectionEdit,
         IInv
<1>2. /\ clusters' = clusters /\ ApiTypeOK'
      /\ credentials' \in BOOLEAN /\ edits' \in 0..MaxEdits
  BY <1>1, ReadSame, MaxEditsNatural DEF Edit, IInv
<1>3. PICK k \in Keys, v \in Versions :
               /\ ForeignCommit(k, v)
               /\ \A ref \in {v.cred, v.info} : ref # NoRef => Known(ref)
  BY UserWrites
<1>4. /\ Commit(k, v) /\ seen' = seen /\ queue' = queue
      /\ worker' = IF worker.key = k THEN [worker EXCEPT !.fresh = FALSE]
                                     ELSE worker
  BY <1>3 DEF ForeignCommit
<1>5. /\ K!CacheOK(Versions)' /\ RefsKnown'
      /\ \A j \in Keys : j # k => api'[j] = api[j]
  BY <1>1, <1>2, <1>3, <1>4, CommitRefs
<1>6. worker' \in WorkerType /\ WorkerOK'
  <2>1. CASE worker.pc = "idle"
    BY <1>1, <1>4, <2>1, IdleType, IdleOK DEF ConnectionInv, WorkerOK
  <2>2. CASE worker.pc # "idle"
    <3>1. /\ worker' \in WorkerType
          /\ worker'.pc = worker.pc /\ worker'.key = worker.key
          /\ worker'.obj = worker.obj /\ worker'.cond = worker.cond
          /\ worker'.fresh => worker.fresh /\ worker.key # k
      BY <1>1, <1>4, <2>2, InHand DEF WorkerType
    <3>2. HeldVersion(worker)'
      BY <1>1, <1>2, <2>2, <3>1, InHand DEF HeldVersion, Known
    <3>3. worker'.fresh => Current(worker)'
      <4>1. PICK j \in Keys : j = worker.key
        BY <1>1, <2>2, InHand
      <4> QED
        BY <1>1, <1>2, <1>5, <2>2, <3>1, <4>1, InHand DEF Current, Known
    <3> QED
      BY <1>1, <2>2, <3>1, <3>2, <3>3, InHand DEF WorkerOK, VersionOK
  <2> QED
    BY <2>1, <2>2
<1> QED
  BY <1>1, <1>2, <1>4, <1>5, <1>6, InventorySame DEF IInv, ConnectionInv

-------------------------------------------------------------------------------
(* The theorems.                                                           *)

\* Every step keeps the invariant.
LEMMA StepInv == IInv /\ [Next]_vars => IInv'
<1> SUFFICES ASSUME IInv, [Next]_vars PROVE IInv'
  OBVIOUS
<1>1. CASE ConnectionWorker
  BY <1>1, RoleInv, SecretInv, ConfigMapInv, WriteStatusInv
  DEF ConnectionWorker
<1>2. CASE \E k \in Keys : Reconcile(k)
  BY <1>2, ReconcileInv
<1>3. CASE ConnectionCache
  BY <1>3, CacheInv
<1>4. CASE ConnectionUsers
  BY <1>4, UsersInv
<1>5. CASE InventoryStep
  BY <1>5, InventoryStepInv
<1>6. CASE ServiceStep
  BY <1>6, ServiceInv
<1>7. CASE OperatorRestart
  BY <1>7, RestartInv
<1>8. CASE UNCHANGED vars
  <2>1. /\ UNCHANGED inventoryVars /\ UNCHANGED connectionVars
        /\ clusters' = clusters /\ UNCHANGED <<faults, credentials, edits>>
    BY <1>8 DEF vars, restVars
  <2>2. ApiTypeOK'
    BY <2>1, ReadSame DEF IInv
  <2> QED
    BY <2>1, <2>2, InventorySame, KnownSame, ConnectionSame DEF IInv
<1> QED
  BY <1>1, <1>2, <1>3, <1>4, <1>5, <1>6, <1>7, <1>8 DEF Next

\* The invariant holds throughout.
LEMMA InvCorrect == Spec => []IInv
  BY InitInv, StepInv, PTL DEF Spec

\* The objects, their copies and both workers keep their types.
THEOREM TypeCorrect == Spec => []TypeOK
  BY InvCorrect, TypesFollow, PTL

\* A connection that is ready for binding refers to a secret and to a config
\* map, and both were made from a cluster of the service: however many times the
\* reconcile was cut short, retried or overtaken by an edit of the connection.
THEOREM BoundToClusters == Spec => []ReadyIsBound
<1>1. IInv => ReadyIsBound
  <2> SUFFICES ASSUME IInv, NEW k \in Keys, api[k].cond = "Ready",
                      NEW ref \in {api[k].cred, api[k].info}
               PROVE  ref # NoRef /\ clusters[ref].state # "none"
    BY DEF ReadyIsBound
  <2>1. api[k] \in Versions
    BY DEF IInv, ConnectionInv, K!CacheOK
  <2>2. ref # NoRef
    BY <2>1 DEF Versions, VersionOK
  <2> QED
    BY <2>2 DEF IInv, ConnectionInv, RefsKnown, Known
<1> QED
  BY <1>1, InvCorrect, PTL

\* While nobody retargets connections, a connection that is ready has the
\* details of the instance it specifies: both its references are of that one.
THEOREM BoundAsSpecified ==
    ASSUME "retarget" \notin Faults
    PROVE  Spec => [](\A k \in Keys : api[k].cond = "Ready" => Describes(k))
<1> DEFINE ReadyDescribes == \A k \in Keys : api[k].cond = "Ready" => Describes(k)
<1>1. IInv => ReadyDescribes
  <2> SUFFICES ASSUME IInv, NEW k \in Keys, api[k].cond = "Ready"
               PROVE  Describes(k)
    OBVIOUS
  <2>1. api[k] \in Versions
    BY DEF IInv, ConnectionInv, K!CacheOK
  <2> QED
    BY <2>1 DEF Versions, VersionOK, Describes
<1> QED
  BY <1>1, InvCorrect, PTL

\* What one step does to the references of a connection that lives on.
SetAsSpecified ==
    \A k \in Keys : api[k].life = "live" /\ api'[k].life = "live" =>
        /\ api'[k].cred \in {api[k].cred, api'[k].spec.id}
        /\ api'[k].info \in {api[k].info, api'[k].spec.id}

\* A write of one version with the references of the one before, or new ones
\* to what it specifies.
LEMMA CommitSetsAsSpecified ==
    ASSUME ConnectionInv, NEW k \in Keys, NEW v \in Versions, Commit(k, v),
           \/ v.life = "absent" \/ api[k].life = "absent"
           \/ /\ v.cred \in {api[k].cred, v.spec.id}
              /\ v.info \in {api[k].info, v.spec.id}
    PROVE  SetAsSpecified
<1>1. api'[k] = v /\ \A j \in Keys : j # k => api'[j] = api[j]
  BY DEF Commit, ConnectionInv, K!CacheOK
<1> QED
  BY <1>1 DEF SetAsSpecified

\* No step sets a reference of a living connection to anything else.
LEMMA StepSetsAsSpecified == IInv /\ [Next]_vars => SetAsSpecified
<1> SUFFICES ASSUME IInv, [Next]_vars PROVE SetAsSpecified
  OBVIOUS
<1>1. ASSUME api' = api PROVE SetAsSpecified
  BY <1>1 DEF SetAsSpecified
<1>2. ConnectionInv
  BY DEF IInv
<1>3. CASE ConnectionWorker
  <2>1. CASE DefaultConnRole \/ CreateSecret \/ CreateConfigMap
    BY <1>1, <2>1 DEF DefaultConnRole, CreateSecret, CreateConfigMap, DetailStep
  <2>2. CASE WriteStatus
    <3>1. PICK k \in Keys, v \in Versions :
               /\ k = worker.key
               /\ v.cred = worker.obj.cred /\ v.info = worker.obj.info
               /\ v.spec = worker.obj.spec
               /\ \/ Commit(k, v) /\ worker.fresh
                  \/ UNCHANGED <<api, watch>>
      BY <2>2, WriteStatusCases
    <3>2. CASE UNCHANGED <<api, watch>>
      BY <1>1, <3>2
    <3>3. CASE Commit(k, v) /\ worker.fresh
      <4>1. /\ v.cred \in {api[k].cred, v.spec.id}
            /\ v.info \in {api[k].info, v.spec.id}
        BY <1>2, <2>2, <3>1, <3>3, InHand DEF WriteStatus, Current
      <4> QED
        BY <1>2, <3>1, <3>3, <4>1, CommitSetsAsSpecified
    <3> QED
      BY <3>1, <3>2, <3>3
  <2> QED
    BY <1>3, <2>1, <2>2 DEF ConnectionWorker
<1>4. CASE \E k \in Keys : Reconcile(k)
  BY <1>1, <1>4 DEF Reconcile, Take
<1>5. CASE ConnectionCache
  BY <1>1, <1>5 DEF ConnectionCache, Resync, Deliver
<1>6. CASE ConnectionUsers
  <2>1. PICK k \in Keys, v \in Versions :
               /\ ForeignCommit(k, v)
               /\ \/ v.life = "absent"
                  \/ api[k].life = "absent"
                  \/ v.cred = api[k].cred /\ v.info = api[k].info
    BY <1>6, UserWrites
  <2>2. Commit(k, v)
    BY <2>1 DEF ForeignCommit
  <2> QED
    BY <1>2, <2>1, <2>2, CommitSetsAsSpecified
<1>7. CASE InventoryStep \/ ServiceStep \/ OperatorRestart \/ UNCHANGED vars
  <2>1. api' = api
    BY <1>7 DEF InventoryStep, ServiceStep, OperatorRestart, Restart, vars,
                connectionVars
  <2> QED
    BY <1>1, <2>1
<1> QED
  BY <1>3, <1>4, <1>5, <1>6, <1>7 DEF Next

\* No write of the controller, made from however old a version and whatever was
\* edited while it was under way, sets a reference of a living connection to
\* another instance than it specifies then, or replaces or clears one that
\* describes that instance.
THEOREM ReferencesAsSpecified == Spec => RefsAsSpecified
<1>1. IInv /\ [Next]_vars => [SetAsSpecified]_vars
  BY StepSetsAsSpecified
<1> QED
  BY <1>1, InvCorrect, PTL DEF Spec, RefsAsSpecified, SetAsSpecified

===============================================================================
