# A verification project for the Crunchy Bridge operator

The operator turns Kubernetes objects into PostgreSQL clusters of the Crunchy
Bridge service. It is written in Go on top of controller-runtime. What can go
wrong in it lies between three parties that know different things at different
times: the API server with its versions, the operator with a cache that lags
behind, and a remote service whose calls fail, take effect unnoticed or answer
late. The modules here model those parties from the code, TLC checks them on
small instances, and TLAPS proves the main safety properties for instances of
any size.

Paths without a leading directory are relative to `src/`. Abbreviations:
`login.go`, `client.go`, `cache.go` are in `internal/bridgeapi/`;
`bridgecluster_controller.go` in `controllers/crunchybridge/`; the other
controllers in `controllers/dbaas.redhat.com/`.

## 1. Inventory

### Components

| Component | Source | State it keeps | Operations | Module |
|---|---|---|---|---|
| Login session | `login.go`, `types.go` | token, `LoginState`, refresh timer, expire timer, usage times | `login`, `Ping`, `State`, `token`, `refreshLogin`, `expireLogin`, `failLoginTemp`, constructor | `LoginManager` |
| Session cache | `cache.go` | map from credentials to session and use count | `GetSession`, `Release` (which nothing calls) | `SessionCache` |
| Bridge API client | `client.go` | none of its own, uses a session | create, delete, list, detail, role, default team | `BridgeApi` |
| Credential provider | `internal/kubeadapter/provider.go` | none, reads a secret | `ProvideCredential` | `SessionCache`; its answers, in `LoginManager` |
| BridgeCluster controller | `bridgecluster_controller.go` | object status (phase, cluster ID), finalizer | `Reconcile` | `BridgeCluster` |
| Instance controller | `crunchybridgeinstance_controller.go` | status (phase, ID, condition `ProvisionReady`), finalizer | `Reconcile` | `BridgeInstance` |
| Inventory controller | `crunchybridgeinventory_controller.go`, `inventory.go` | status (list of clusters, condition `SpecSynced`) | `Reconcile` | `BridgeInventory` |
| Connection controller | `crunchybridgeconnection_controller.go`, `connection.go` | status (references to a secret and a config map, condition `ReadyForBinding`) | `Reconcile` | `BridgeConnection` |
| Provider registration | `dbaasprovider_reconciler.go` | one cluster-wide object, one queue entry per start | `Reconcile` | `DBaaSProvider` |
| Start-up | `main.go`, `dbaas_support.go` | flags, environment | registration of controllers, `SyncPeriod` | restart and resync in `KubeObjects`, the client of `main.go` in `SessionCache` |
| DatabaseRole controller | `databaserole_controller.go` | none | returns at once | not modelled |
| controller-runtime, API server | not in `src/` | versions, cache, queue | get, update, watch, requeue, resync | `KubeObjects` |

### How they interact

* Every controller has one worker (`MaxConcurrentReconciles` is not set) that
  takes names from a queue. A name is queued by an event of the object, by an
  error return, by `RequeueAfter`, and by the resynchronisation every
  `SyncPeriod`. The inventory controller is also woken by events of instances;
  the instance and connection controllers are *not* woken by inventories or
  secrets.
* Controllers read through the shared informer cache and write to the API
  server, which refuses an update made from an outdated version.
* The dbaas controllers read each other's objects: a connection is bound only
  to an ID that the cached inventory lists.
* All clients with the same credentials share one login session, found through
  a cache that is locked while a new session logs in for the first time.
  `main.go` makes one client at start; the dbaas controllers make one for every
  object they reconcile. `login()`
  runs on the goroutine that constructs the session, on the clients through
  `Ping`, and on goroutines that the runtime starts for timers.

### What is hard

* logins and expirations overlapping on several goroutines, with the state
  changed in several critical sections (`login.go:110-250`);
* a Reconcile that starts from an outdated version, possibly of an earlier
  object with the same name;
* a remote call that took effect although its answer was lost, and a status
  write that failed after it (`POST /clusters` is not idempotent);
* a restart between any two calls;
* deletion: a cluster must go before the finalizer does, and not before the
  object asks for it;
* conditions that depend on objects nobody watches;
* a session found by one credential that logs in with another one, because the
  secret it reads was edited;
* a reconciler that drops every event but one, and an object that must be
  cleaned up by somebody else after an uninstall;
* `SyncPeriod`, `RequeueAfter` and error returns as the only reasons why
  anything happens eventually.

`PROJECT.json` lists these as hazards, each at its line.

### What makes each component correct

* Login session: an active session has a token and will expire; the reported
  state tells whether there ever was a success; renewal never stops; the
  session is active again and again while the credentials are good.
* BridgeCluster, Instance: an object records, reports and deletes only its own
  cluster; nothing is requested for an object that could vanish unnoticed; a
  recorded ID is released only with its cluster; objects become ready, deleted
  ones go away.
* Inventory: the list converges to what exists.
* Session cache: one session per credential; the lock is released on every way
  out of `login()`; an inventory is served with a token of its own credential.
* Provider registration: the one queue entry is let go only when registered;
  what is registered goes with the operator.
* Connection: ready only with a secret and a config map, made for the instance
  that the connection specifies and then left alone; ready in the end exactly
  when possible.

## 2. Modules

`ClusterLifecycle` is the abstract specification of what the two cluster
controllers promise. `BridgeApi` and `KubeObjects` are the two environments. `BridgeCluster`,
`BridgeInstance` and `BridgeInventory` are controllers between them,
`BridgeConnection` composes its own controller with the inventory's, and
`LoginManager` and `SessionCache` stand by themselves: what they guarantee
appears in the others as a call that may return an error. `DBaaSProvider` shares
nothing with the other controllers. Operators named in a comment `Mutant:` are the
bugs that the properties are tried on; nothing in the specifications uses them.

**LoginManager.** One step per critical section and per remote call of
`login.go`. `pc` says where each goroutine is; `Clients` send requests,
`Runners` are the goroutines available to fired timers, `Ctor` runs
`newLoginManager`. `ProvideCredential`, the outcomes of the token exchange,
`StoreToken`, `SetExpiration`, `ScheduleRefresh`, `RefuseCredentials`,
`ScheduleRetry` and `FailLoginTemp` are the pieces of `login()` in their order;
`source` is what the credential provider would answer now and may change at any
time. `succeeded` and `unexpired` are history. Time is left out: an armed timer
may fire whenever it likes, so that every length of delay is included, the
non-positive one of a token that lives less than 15 seconds too. A 200 is
assumed to carry a token that is not blank. `lastUsageAfterRefresh` stands for
the one comparison made of the two timestamps.

**SessionCache.** Sessions in plural, where `LoginManager` has one in detail:
of `login()` only reading the credential and the exchange are left, and of its
states `Failed` stands for the three that `Ping` logs in from. `secret` is what
each secret contains, `store` and `session` are the cache, `lock` its mutex,
and `client` says where the goroutine of each client is. `ReadCredential` reads
the label outside the lock; `AddSession` and `FindSession` are the two branches
of `GetSession`, which keeps the lock until `Return` when it has to log in; the
same steps without the lock are the `Ping` of a request (`Precheck`, `Send`).
`FireRefreshTimer`, `Refresh...` and `ExpireLogin` are the timers, and a
session's `exchanging` is the credential their goroutine has read. One such
goroutine at a time is enough: what several do to one session is the subject of
`LoginManager`. A worker reads its secret through the cache of the manager; to
read an older content is to have read it earlier, which the steps between
`ReadCredential` and `Lookup` allow.

**DBaaSProvider.** `Reconcile` with each call a step; `queued` is the one entry
that a start of the process puts into the queue, since the predicate drops
everything but Create events. A registration is the version whose ClusterRole
owns it. `rolesSeen` and `seen` are the cache. OLM, garbage collector, users and
the CRD's owner are there to the extent that the code relies on them: a role
belongs to a version and goes after it, an object without owner is deleted, a
second object of one name and an object without CRD are refused.

**ClusterLifecycle.** Objects and clusters only, no cache, queue, calls or
worker: phases advance one by one, a cluster is requested under the finalizer,
an identifier is recorded once and `Ready` only for a cluster that was ready,
and an object that has recorded a cluster is released after it was deleted.
`BridgeCluster` and `BridgeInstance` implement it under the refinement mapping
at the end of each: the current version at the API server without spec, condition
and resource version (`Outside`), and the state and owner of each cluster. All
other steps, of cache, queue and worker, are stutters.

**BridgeApi.** Each method of `client.go` as a relation between the service
before and after it and the reply, `"ok"` or `"error"`. `Faults` names the
kinds of failure that a run admits and `MaxFaults` how many happen: `"err"`
(refused or never arrived), `"lost"` (took effect, answer lost), `"odd"` (a
status or body that the client misreads), `"console"` (people). `owner` is
history: the object that a cluster was requested for. A cluster name is unique
per team, as the service's 409 says.

**KubeObjects.** One controller's view of the API server: `api` holds the
current versions, `watch` the ones still on their way, `seen` the cache,
`queue` the names waiting and `worker` the locals of the running Reconcile.
`worker.fresh` says whether nobody has written the object since the version
held: that is what the resource version of an update tells the API server. An
update that changes nothing makes no version, as at the server. `Update` may
fail, applied or not. The cache shows versions in order and none is skipped
for good.

**BridgeCluster.** The `pc` of the worker names the next remote call of
`Reconcile`; `FirstCall` is the decision that the code makes on the object it
got, by deletion timestamp (`DeletionCall`) and phase (`PhaseCall`). The lists
of `ClusterByName` are taken apart, one call per team, so that clusters appear
and vanish between them. A delete that reaches a cluster the service no longer
knows is an error (`client.go:446`).

**BridgeInstance.** As before, for `CrunchyBridgeInstance`, with an inventory
and secret that may be missing (`account`), which is looked for before anything
else, deletion included. The condition is its reason: `True` exactly with
`Ready`. The API server refuses a status without phase, because the enum of the
CRD has no empty value (`config/crd/bases/dbaas.redhat.com_crunchybridgeinstances.yaml:161`),
so that `Report` fails for a new object. Lists are one step here. Spec edits
are left to `BridgeCluster`, whose code is the same in this.

**BridgeInventory.** `Reconcile` in two calls: list, then write the status. It
instantiates `KubeObjects` under the name `I`, for variables of its own. Of a
cluster's details only the ID is kept. An undecodable answer to `GET /teams`
is taken for an account without clusters (`client.go:326`), the fault `"odd"`.
The module has no `Spec`: its steps are part of `BridgeConnection`.

**BridgeConnection.** The connection controller, with the inventory controller
beside it. What `Reconcile` reads from the cache (connection, inventory, secret)
is one step, since events of different kinds of object are not ordered and the
cached reads follow each other without a call; then each of role, secret,
config map and status is one. A reference to a secret or config map is the
cluster it describes, because its generated name says nothing. That surplus
secrets are possible (`connection.go:62`, section 6) is therefore not visible.

**Proof modules.** `LoginManagerProofs`, `SessionCacheProofs`,
`DBaaSProviderProofs`, `BridgeClusterProofs`, `BridgeClusterRefinement`,
`KubeObjectsProofs`, `BridgeInstanceProofs` and `BridgeConnectionProofs`, see
section 5. `KubeObjectsProofs` has lemmas only; the last two instantiate it as
their models do `KubeObjects`, `BridgeConnectionProofs` twice, for connections
and for inventories.

**MC modules** only name values for the configurations.

## 3. Runs

Passing runs explore all reachable states of their instance.

| Run | Instance | States | Checks |
|---|---|---|---|
| `MCLoginManager` | 1 client, 2 timer goroutines, every kind of credential, hanging exchanges | 209,992 | `TypeOK`, `ActiveHasToken`, `FailedNeverSucceeded`, `ActiveWillExpire`, `RenewalPending`, `StaysLoggedIn` |
| `MCSessionCache` | 2 workers and `main.go`, 2 secrets, 2 credentials, 1 edit or restart | 86,216 | `TypeOK`, `OneSession`, `CacheUnlocks`, `TokenSettles`, `Serves` |
| `MCDBaaSProvider` | 3 versions, 2 failing calls, 4 events | 41,371 | `TypeOK`, `DoneMeansRegistered`, `EventuallyRegistered`, `CleanedUp` |
| `MCBridgeCluster` | 2 objects, 1 team, 2 names, 2 faults, 3 edits | 683,922 (symmetric) | `TypeOK`, `Ownership`, `PhaseMatchesCluster` |
| `MCBridgeClusterFaults` | 1 object, 2 teams, 3 faults of any of the 8 kinds there are for `BridgeCluster`, 3 edits | 672,643 (symmetric) | `ClusterUnderFinalizer`, `IdSticky`, `PhaseOrder`, `RecordedIdReleased`, `ImplementsLifecycle` |
| `MCBridgeClusterLive` | 1 object, 3 failing Bridge calls, 2 edits | 7,391 | `EventuallyReady`, `DeletionCompletes` |
| `MCBridgeInstance` | 1 object, 1 name, 2 faults of any kind but `"odd"`, 3 edits | 217,397 | `TypeOK`, `TrueMeansProvisioned`, `DeletesOnlyOwn`, `RecordedIdReleased`, `ImplementsLifecycle`, `DeletedClusterGoes`, `LossReported` |
| `MCBridgeConnection` | 1 connection, 1 inventory, 2 clusters of which 1 is there, 1 fault of any kind but `"lost"`, 2 edits, retargeting among them | 265,932 | `TypeOK`, `ReadyIsBound`, `RefsAsSpecified`, `InventoryConverges`, `EventuallyBound`, `LossReported` |

The kinds of fault that a run admits are in its configuration, as `Faults`.

Four runs end in a violation, of something that a doc or comment of the
repository says:

| Run | Property | What happens |
|---|---|---|
| `MCSessionCacheOwn` | `OwnToken` | A session found by the old credential of an edited secret has logged in with the new one. Its source is replaced, but an active session is only pinged: a worker with the old credential in another secret sends its request with the token of a credential it never had. |
| `MCBridgeClusterTeams` | `Ownership` | Two objects with one cluster name in two teams: the lookup by name ignores the team, and both record the same cluster. |
| `MCBridgeInstanceRetry` | `EventuallyReady` | One failing create request writes a condition; the retry starts from the version before it, posts with success and cannot write `Creating`; from then on every request is answered with 409. |
| `MCBridgeConnectionMixed` | `RefsAgree` | The config map cannot be made at first and the instance ID is edited before the retry: the connection is ready with the password of one cluster and the address of another. |

The weakness behind `MCBridgeInstanceRetry` is in `BridgeCluster` too: with
the fault `"kube"` added to `MCBridgeClusterLive.cfg`, `EventuallyReady` and
`DeletionCompletes` both fail, the second because a finalizer that could not be
removed leads to a second `DELETE`, whose 404 is an error.

Four more disagreements are one change of a configuration away.

With `DescribesSpecified` added to the properties of `MCBridgeConnection.cfg`, TLC
finds a bound connection whose instance ID is edited, and nothing else: the
condition is `Ready`, so that `connectionDetails` returns at once
(`connection.go:49`) and the connection stays ready with the secret and the
config map of the cluster that it specified before. "The CRs status will be updated
with connection details of specified instance ID" (`README.md:115`). It takes no
failure (`MaxFaults = 0` and both clusters in `Existing`), where
`MCBridgeConnectionMixed` has one and ends with references to two clusters.

With `MaxFaults` and `MaxEvents` 0 in `MCDBaaSProvider.cfg`, so that only OLM does
anything, `StaysRegistered` fails after one upgrade: the new version finds the
registration in place and lets go of its queue entry; then OLM removes the
ClusterRole of the old version, which owns the registration
(`dbaasprovider_reconciler.go:174`), and nothing makes it again. "[...] the Crunchy
Bridge Operator automatically creates a cluster level DBaaSProvider [...] to
automatically register itself" (`README.md:45`) says nothing of versions. What OLM
does here is a model of something outside the repository.

With `"odd"` added to `Faults` in `MCBridgeCluster.cfg`, `PhaseMatchesCluster` fails:
`CreateCluster` returns nil for every status but 201, 400 and 409, so that the
phase says "provisioning in progress" (`bridgecluster_types.go:70`) and nothing
was created. With `InactiveIsExpired` added to the invariants of
`MCLoginManager.cfg`, an expire timer that has fired cannot be stopped: its
goroutine waits for the lock while a login stores a new token, and then clears
it; the session is inactive with a token that had not expired (`types.go:46`).
`StaysLoggedIn` says that it recovers.

### Bounds, and why they are enough

* `MaxFaults`, `MaxEdits` bound how often something happens that the operator
  does not do; what it does itself is not bounded. One fault of a kind followed
  by a stale read is what each known problem takes; 2 or 3 let one meet the
  recovery from another. Faults occur in any state.
* `Ids` must not run out: a request that finds no unused ID would be disabled.
  `MCBridgeCluster` and `MCBridgeClusterFaults` have 3 IDs; with one name per
  team at a time and at most 3 edits no run needs more. In `MCBridgeInstance` 2
  suffice since there is one name, and the second needs a deletion and a
  second object. In `MCBridgeConnection` clusters are made only by people, one
  per fault.
* Two objects are needed for `Ownership`; one object, deleted and created again
  under its name, is enough for what the other properties tell apart.
* In `SessionCache` one edit is what makes label and source of a session differ,
  and it may come at any moment; `main.go`'s secret may hold either credential,
  or none, and the inventory's holds one of them. Two workers race for one session
  and for the lock.
* In `DBaaSProvider` two upgrades leave an owner two versions back; four events
  are a CRD removed and installed, a restart and an uninstall.
* One client is enough for `MCLoginManager`: what is checked there of the safety
  of more clients is proved for any number, and a client only adds one more
  goroutine that runs `login()`, as the `Runners` do.
* Two `Runners` let a refresh and an expiry overlap each other and a client;
  a third only repeats what one of them does.
* In `MCBridgeClusterLive` 2 edits make and delete one object. An object that
  is created again after one that left an unrecorded cluster behind finds its
  name taken for ever; that is the hazard at `bridgecluster_controller.go:82`,
  for which the code promises nothing.

`CHECK_DEADLOCK FALSE` is set everywhere: a system in which nobody asks for
anything rests.

### Fairness

* *Workers run* (`WF` of the worker's steps): each is a goroutine that waits
  only for its next call, and a call ends.
* *No queued name is passed over for ever* (`SF` of `Reconcile(k)`): the work
  queue is first in, first out; while other names are processed the step is
  disabled again and again, hence strong fairness.
* *Events arrive* (`WF` of `Deliver`): watches are reopened after errors.
* *`SyncPeriod` comes round* (`WF` of `Resync`) is assumed only in
  `BridgeInstance` and `BridgeConnection`, where nothing else tells the
  operator of a lost inventory or of a new cluster. `BridgeCluster` manages
  without, and the instance of `EventuallyReady` there depends on
  `RequeueAfter` alone.
* *The service finishes what it provisions* (`WF` of `Provision`).
* *Timers fire* and goroutines of the session run (`WF`); of the exchanges that
  are tried for ever one succeeds (`SF` of `ExchangeOK`).
* *`SessionCache`*: every waiting client gets the lock in the end is *not* assumed
  (`SF` only of some `Lookup`); goroutines run and exchanges under way are
  answered (`WF`); the objects of every inventory come round again (`SF` of
  `NewClient(w, s)` for some `w`, which `SyncPeriod` gives); an unrenewed token
  expires; a renewal that is tried for ever succeeds some time.
* *`DBaaSProvider`*: the worker runs and what is requeued comes again, the cache
  catches up, OLM finishes an uninstall and garbage is collected (`WF`).
* Nothing makes a user, a console, a fault or the return of a lost inventory
  happen. `DeletedClusterGoes` and the liveness properties of
  `BridgeConnection` say so in their premises (`<>[]`).

## 4. What the properties mean

Each property is preceded by a comment in its module; a few remarks.

`Ownership` and `PhaseMatchesCluster` hold in `MCBridgeCluster`, where names
are unique over all teams and statuses are the ones the client knows; the run
`MCBridgeClusterTeams` drops the first premise and the status `"odd"` of
section 3 the second, and either is enough for a violation. `IdSticky`, `PhaseOrder` and
`RecordedIdReleased` hold with all of `BridgeCluster`'s kinds of fault together
(failing, lost and misread calls, failing writes, restarts, foreign writes, spec
edits, console users): they rest on the version
check of the API server and not on the luck of the calls.

`TrueMeansProvisioned` is about the API server's version, not the one held: a
condition written from an outdated version would break it. `LossReported`
(instance) covers the loss of an inventory, not its return: in phase `Ready`
nothing is written any more, so that a condition once `False` stays so.

`ImplementsLifecycle` sums up for both controllers what is seen outside; the
properties next to it in the runs say more about calls and about liveness.

`OneSession` is about several clients that read one credential before any of
them has the lock. `CacheUnlocks` is liveness of the lock; it is false without
the answer to exchanges, since `http.Client` has no timeout. `TokenSettles` and
`Serves` are what is left of "a client uses the credential it has read" after
`MCSessionCacheOwn`: in the end, and again and again.

`ActiveHasToken` is about one moment. A client looks at the state and takes the
token under two locks (`client.go:116` and `125`); if the session expires in
between, its request leaves without a token and the service refuses it. Nothing
is promised of that request.

`EventuallyRegistered` and `DoneMeansRegistered` exclude a registration that was
deleted after the start (`lost`), also one whose deletion the cache does not show
yet when Reconcile lets go: nothing makes it again until a restart. An upgrade
does this by itself (section 3): `StaysRegistered` is `EventuallyRegistered`
without that premise.

`RefsAsSpecified` is about every write: what was made for one instance is not
written into a connection that has come to specify another, because of the
version check of the API server, and a reference that is right stays. It says
nothing of a connection that is edited when its references are there already:
`DescribesSpecified` does, and does not hold (section 3). For the same reason
`ReadyIsBound` asks for references to known clusters only.
`EventuallyBound` and `LossReported` (connection) together say that the
condition settles to the truth; both depend on `InventoryConverges`. Neither is
about the references.

## 5. Proofs

All theorems are about `Spec`, for every value of the constants that satisfies
the assumptions in the modules, so for any number of goroutines, objects, IDs,
teams, faults and edits.

`LoginManagerProofs`:
* `TypeCorrect`, `TokenWhileActive`, `FailedBeforeSuccess`: `TypeOK`,
  `ActiveHasToken`, `FailedNeverSucceeded`. The last two are inductive, since
  token, state and history change in one critical section.
* `RenewalGoesOn`: `RenewalPending`. At every moment the refresh timer is armed,
  a goroutine is about to arm it or one waits in an exchange that hangs. The
  invariant adds `lastUsageAfterRefresh`: `lastRefresh` is never assigned after
  the constructor, so that `refreshLogin` never lets a session go.
  `RenewalNeverDies` drops the third case if no exchange hangs.
* `SessionExpires`: `ActiveWillExpire` with the type invariant.

`BridgeClusterProofs` proves one inductive invariant, `IInv`, and five theorems
from it: `TypeCorrect`, `RequestedUnderFinalizer` (`ClusterUnderFinalizer`),
`RecordedIdStays` (`IdSticky`), `PhasesAdvance` (`PhaseOrder`) and
`ClusterReleased` (`RecordedIdReleased`). Its parts:
* `TypeOK`;
* `CopiesOK`: every version anywhere, current, on its way, cached or held, is
  one the controller can have written (past the blank phase there is a
  finalizer, an ID only from `Creating` on);
* `FinalizerKept`: a live version with finalizer anywhere means that the
  current one has it. This is why an outdated `Pending` is harmless: to remove
  the finalizer the worker needs a version with deletion timestamp that is
  still current;
* `CacheConverges`: the last version on its way is the current one;
* `FreshIsCurrent`: a worker whose update would be accepted holds the current
  version, and while it deletes nothing is on its way: otherwise the cache
  could show a live version after the object has gone;
* `WorkerOK`: the call that comes next fits the version held; in particular
  the finalizer is removed only when the recorded cluster has been deleted, and
  `Ready` is written only about a cluster that was ready.

There is one lemma per operation, on top of lemmas about `Update`,
`ForeignCommit` and `Deliver` that do not depend on the controller. The action
properties follow from `IInv` step by step (`WorkerForward`, `UserForward`).

`BridgeClusterRefinement` proves `LifecycleImplemented`: `Spec` implies
`ImplementsLifecycle`, from the same `IInv`. A write of the worker that is
accepted was made from the current version (`FreshIsCurrent`), so that `Fits`
about the version held is about the current object, and the write is the
abstract step of that name; every other step leaves `Outside` and the clusters
alone or is a step of users or service. There is one lemma per operation.

Two more theorems of `BridgeClusterProofs` say whose clusters the objects record:
`RecordsItsOwn` (`Ownership`) and `PhasesTellClusters` (`PhaseMatchesCluster`).
They have premises, and none can be spared:
* `NamesTellTeams`: objects that ask for one cluster name ask for one team.
  Otherwise `MCBridgeClusterTeams` finds `Ownership` violated.
* `Undisturbed`: no create request is answered with a status that the client
  does not know (`"odd"`), nobody but the operator makes or deletes clusters
  (`"console"`), and no spec is edited (`"edit"`). With any one of the three added
  to `Faults` in `MCBridgeCluster.cfg`, TLC finds each of the two properties
  violated.

`MCBridgeCluster`, which checks both properties, satisfies the premises. Failing
and lost calls, restarts, outdated caches and any number of objects, deletions and
new objects under old names are included. Their invariant, `OInv`, was checked with
TLC on the instance of `MCBridgeCluster` before it was proved, and stands on
`IInv`:
* `Unique`, `Telling`: no two existing clusters have one name in one team, and
  the name of one tells its team; so what the lookup by name finds is what was
  asked for;
* `Recorded`, `PhasesMatch`: what the API server's version says of the clusters,
  with the name and the team of the cluster next to its owner;
* `DeletionsKnown`: a copy that is being deleted, however old, belongs to the
  deletion under way or to one that has deleted its cluster. Without this an
  outdated deletion could hit the cluster of the object's successor;
* `WorkerOwns`: what the worker has found is the object's, if its write would
  still be accepted.

`SessionCacheProofs`: `TypeCorrect` and `OneSessionEach` (`OneSession`). The
invariant says of every session that the cache leads to it, or that the holder of
the lock is logging it in and the cache leads nowhere for its label
(`Registered`); that the holder of the lock is inside `login()` (`Held`); and that
a session is stored under its own label (`Labelled`). Labels never change, so
that timers, requests and exchanges outside the lock keep all three.
`OwnTokenWhenApart` is the other side of the finding of `MCSessionCacheOwn`: in
that run one secret may hold the credential of another and one more, and a
request leaves with a stranger's token. If two secrets that may have a content in
common may hold the same contents (`Apart`: every secret has credentials of its
own, or is a copy of another), `OwnToken` holds. Its invariant `OInv` says of a
session that its source may hold its label, and that its token, and what its
renewal is exchanging, may be held by every secret that may hold that label; of a
client, that its own secret may hold the label of its session.

`DBaaSProviderProofs`: `TypeCorrect` and `RegisteredWhenDone`
(`DoneMeansRegistered`). The invariant adds that what the cache shows is
registered unless it was deleted since the start (`SeenIsRegistered`): this is
why `GetRegistration` may let go on the word of an outdated cache.

`KubeObjectsProofs`: what a controller may rely on whatever its `Reconcile` does.
`CacheOK` (the cache converges to the current version) and `CopiesOK` (an
accepted write was made from the current version, and no copy of an object
outlives its finalizer) are preserved by each step of `KubeObjects`, under
conditions on what the controller writes that its proof has to meet. The
proofs about instances, connections and inventories share them.

`BridgeInstanceProofs`: `TypeCorrect`, `LifecycleImplemented`
(`ImplementsLifecycle`) and `ClusterReleased` (`RecordedIdReleased`) without
premises, `TrueIsProvisioned` (`TrueMeansProvisioned`) and `OnlyOwnDeleted`
(`DeletesOnlyOwn`) with some. The invariant `IInv` is that of `BridgeCluster` with
conditions: reports of a lost inventory or of a failing call come between the
steps of the lifecycle, and `VersionOK` says which conditions go with which phase
and ID. `DeletionIsCurrent` is new: when the worker asks for the deletion
of a cluster, what it holds is the version at the API server, since the phase
`Deleting` was written first and nobody else changes an object being deleted.
The last two theorems need
* `NamesTellTeams`: as above, and if people make clusters (`"console"`) they have
  only the one team;
* `AnswersKnown`: no `"odd"` status.

`MCBridgeInstance` satisfies both. Without either one TLC violates both properties:
with `"odd"` added to its `Faults`, and with a second team in which the object wants
its cluster while a person makes one of that name in the first. Spec edits and
deletions by people are not in this model. The invariant adds whose clusters
are there and recorded (`Unique`, `Telling`, `Recorded`, `Provisioned`,
`CreatedOwn`, `WorkerOwns`).

`BridgeConnectionProofs`: `TypeCorrect`, `BoundToClusters` (`ReadyIsBound`) and
`ReferencesAsSpecified` (`RefsAsSpecified`) without premises, and
`BoundAsSpecified`: while nobody retargets connections, both references of one
that is ready describe the instance it specifies. (`MCBridgeConnectionMixed` shows
that this premise is needed.) The connection controller writes the references into
the version it holds before it writes that version, and a failing call leaves
them there for the status that reports the failure: the worker is *ahead* of the
current version, where in the other controllers it never is, so that
`FreshIsCurrent` is false here. The invariant says instead, of a worker whose
write would be accepted, that the current version has the same spec, and that each
reference held is the one of that version or to the instance specified
(`Current`); that a call to make something means that the version held has none
(`HeldVersion`); and that every reference is to a cluster the service knows or
knew (`RefsKnown`). It was checked with TLC too, on the instance of
`MCBridgeConnection` with and without `"retarget"`. Of inventories it says their
types and that their cache converges.

Only model-checked are the liveness properties (`StaysLoggedIn`, `CacheUnlocks`,
`TokenSettles`, `Serves`, `EventuallyRegistered`, `CleanedUp`, `EventuallyReady`,
`DeletionCompletes`, `DeletedClusterGoes`, `InventoryConverges`,
`EventuallyBound`, both `LossReported`): TLAPS has no support for `ENABLED` here.
Every invariant and every action property of a passing run is a theorem.

## 6. Not modelled

* Time, back-off and the length of any delay; HTTP, JSON and logging.
* The rate of anything: a refresh delay that is not positive (`login.go:197`),
  the use of a session that nobody needs (`login.go:103`, `cache.go:97`), response
  bodies that stay open (`client.go:440`), surplus secrets (`connection.go:62`).
  No state that the models have depends on them.
* `main.go` apart from its client: flags, environment, registration of the
  controllers. A secret that is missing at start disables the BridgeCluster
  controller until a restart (`main.go:167`); `SessionCache` has the step.
* The concatenation of URL, key and secret into a label (`cache.go:49`): two
  credentials whose concatenations agree would share a session.
* `databaserole_controller.go`: it returns at once.
* Leader election: one operator runs. With a second one for a moment the API
  server would still refuse outdated writes, and it would look like a restart.
* A stale read right after a restart: the cache is filled before workers start.
* `Client.ListClusters` and `managerCache.Release` have no caller, and the use
  counts of `cache.go` no reader but `Release`.

## 7. Plan

Done: all components of section 1 that change state are modelled and checked;
`LoginManager`, `SessionCache`, `DBaaSProvider`, `BridgeCluster`, `BridgeInstance`
and `BridgeConnection` have their safety properties proved, and both cluster
controllers are proved to implement `ClusterLifecycle`.

1. Safety halves of the liveness properties: a registration of a version that has
   gone is garbage (`CleanedUp`), a recorded deletion is never forgotten
   (`DeletionCompletes`), what an inventory lists the service knows
   (`InventoryConverges`).
2. `BridgeClusterProofs` on top of `KubeObjectsProofs`: it has its own copies of
   those lemmas.
3. An abstract specification of a connection (none, bound, unbound) that
   `BridgeConnection` implements, in the manner of `ClusterLifecycle`.
