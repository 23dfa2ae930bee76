---------------------------- MODULE DBaaSProvider ----------------------------
(***************************************************************************)
(* The registration of the operator with RHODA                             *)
(* (controllers/dbaas.redhat.com/dbaasprovider_reconciler.go): one         *)
(* cluster-scoped DBaaSProvider object, owned by a ClusterRole that OLM     *)
(* made for the running version, so that it is garbage collected when the  *)
(* operator is uninstalled.  The reconciler has one key, its own           *)
(* Deployment, which is queued once per start of the process: every event  *)
(* but Create is dropped.  It reads the registration and the roles from a  *)
(* cache that lags behind.                                                 *)
(*                                                                         *)
(* OLM, the garbage collector, the owner of the CRD and the users are not  *)
(* in the repository; they are modelled from how the code relies on them.  *)
(***************************************************************************)
EXTENDS Naturals

CONSTANTS
    MaxVersion,  \* bound on upgrades: the last version of the operator
    MaxFaults,   \* bound on failing calls
    MaxEvents    \* bound on what users do, and on restarts

ASSUME BoundsNat ==
    MaxVersion \in Nat \ {0} /\ MaxFaults \in Nat /\ MaxEvents \in Nat

Versions == 1..MaxVersion

\* A registration is the version whose ClusterRole owns it.
None    == 0
NoOwner == MaxVersion + 1

VARIABLES
    installed,     \* the ClusterServiceVersion, and with it the Deployment, exists
    crd,           \* the CRD of DBaaSProvider is installed
    version,       \* operatorNameVersion of the running process
    roles,         \* the versions whose ClusterRole exists
    registration,  \* the DBaaSProvider object
    rolesSeen,     \* the roles in the cache of the process
    seen,          \* whether its cache has the registration
    pc,            \* where its worker is, or "stopped"
    queued,        \* the Deployment is in the work queue, or being processed
    faults,        \* failed calls so far
    events,        \* what users did so far, and restarts
    \* History, not in the code:
    lost           \* a registration was deleted since the process started

vars == <<installed, crd, version, roles, registration, rolesSeen, seen, pc,
          queued, faults, events, lost>>

cluster == <<installed, crd, version, roles, registration, lost>>
cache   == <<rolesSeen, seen>>

Running == pc # "stopped"

\* Install: the Deployment is there and has been seen; its role may come later.
Init ==
    /\ installed = TRUE
    /\ crd \in BOOLEAN
    /\ version = 1
    /\ roles \in {{}, {1}}
    /\ registration = None
    /\ rolesSeen = {}
    /\ seen = FALSE
    /\ pc = "idle"
    /\ queued = TRUE
    /\ faults = 0
    /\ events = 0
    /\ lost = FALSE

-----------------------------------------------------------------------------
(* Reconcile.                                                              *)

\* Return with Requeue or an error, which the rate limiter queues again.
Requeue == pc' = "idle" /\ UNCHANGED queued

\* Return without either: nothing queues the Deployment again.
Done == pc' = "idle" /\ queued' = FALSE

Reconcile ==
    /\ pc = "idle" /\ queued
    /\ IF installed THEN pc' = "checkCrd" /\ UNCHANGED queued ELSE Done
    /\ UNCHANGED <<cluster, cache, faults, events>>

\* Mutant: without the CRD there is nothing to do.
CheckCrdInstalledOnce ==
    /\ pc = "checkCrd"
    /\ IF crd THEN pc' = "get" /\ UNCHANGED queued ELSE Done
    /\ UNCHANGED <<cluster, cache, faults, events>>

CheckCrdInstalled ==
    /\ pc = "checkCrd"
    /\ IF crd THEN pc' = "get" /\ UNCHANGED queued ELSE Requeue
    /\ UNCHANGED <<cluster, cache, faults, events>>

\* Mutant: the return for an existing registration is missing.
GetRegistrationGoOn ==
    /\ pc = "get"
    /\ pc' = "list"
    /\ queued' = (queued /\ ~seen)
    /\ UNCHANGED <<cluster, cache, faults, events>>

GetRegistration ==
    /\ pc = "get"
    /\ IF seen THEN Done ELSE pc' = "list" /\ UNCHANGED queued
    /\ UNCHANGED <<cluster, cache, faults, events>>

\* Mutant: an empty list of roles is not an error.
ListClusterRolesOnce ==
    /\ pc = "list"
    /\ IF version \in rolesSeen THEN pc' = "create" /\ UNCHANGED queued ELSE Done
    /\ UNCHANGED <<cluster, cache, faults, events>>

\* The list has the roles that OLM labelled with the running version.
ListClusterRoles ==
    /\ pc = "list"
    /\ IF version \in rolesSeen THEN pc' = "create" /\ UNCHANGED queued ELSE Requeue
    /\ UNCHANGED <<cluster, cache, faults, events>>

\* Mutant: no owner reference.
BridgeProviderCRNoOwner(role) == NoOwner

BridgeProviderCR(role) == role

\* The API server refuses a second object of that name, and any without CRD.
Creatable == crd /\ registration = None

Create ==
    /\ pc = "create"
    /\ IF Creatable
       THEN registration' = BridgeProviderCR(version) /\ Done
       ELSE UNCHANGED registration /\ Requeue
    /\ UNCHANGED <<installed, crd, version, roles, lost, cache, faults, events>>

\* A call fails; of a failed Create the object may have been made.
CallFails ==
    /\ pc \in {"checkCrd", "get", "list", "create"}
    /\ faults < MaxFaults
    /\ faults' = faults + 1
    /\ \/ UNCHANGED registration
       \/ /\ pc = "create" /\ Creatable
          /\ registration' = BridgeProviderCR(version)
    /\ Requeue
    /\ UNCHANGED <<installed, crd, version, roles, lost, cache, events>>

-----------------------------------------------------------------------------
(* The process and its cache.                                              *)

\* A start lists the Deployment, which is a Create event, and fills the cache.
StartProcess ==
    /\ pc' = "idle"
    /\ queued' = TRUE
    /\ seen' = (registration # None)
    /\ lost' = FALSE

Restart ==
    /\ Running /\ installed
    /\ events < MaxEvents
    /\ events' = events + 1
    /\ StartProcess
    /\ rolesSeen' = roles
    /\ UNCHANGED <<installed, crd, version, roles, registration, faults>>

SyncRegistration ==
    /\ Running
    /\ seen # (registration # None)
    /\ seen' = (registration # None)
    /\ UNCHANGED <<cluster, rolesSeen, pc, queued, faults, events>>

SyncRoles ==
    /\ Running
    /\ rolesSeen # roles
    /\ rolesSeen' = roles
    /\ UNCHANGED <<cluster, seen, pc, queued, faults, events>>

-----------------------------------------------------------------------------
(* OLM and the garbage collector.                                          *)

CreateRole ==
    /\ installed /\ version \notin roles
    /\ roles' = roles \cup {version}
    /\ UNCHANGED <<installed, crd, version, registration, lost, cache, pc,
                   queued, faults, events>>

\* The new version has its role and its Deployment before the old role goes.
Upgrade ==
    /\ installed /\ version < MaxVersion
    /\ version' = version + 1
    /\ roles' = roles \cup {version'}
    /\ rolesSeen' = roles'
    /\ StartProcess
    /\ UNCHANGED <<installed, crd, registration, faults, events>>

RemoveRole(v) ==
    /\ v \in roles
    /\ v < version \/ ~installed
    /\ roles' = roles \ {v}
    /\ UNCHANGED <<installed, crd, version, registration, lost, cache, pc,
                   queued, faults, events>>

\* The Deployment goes; its process, in whatever step, somewhat later.
Uninstall ==
    /\ installed
    /\ events < MaxEvents
    /\ events' = events + 1
    /\ installed' = FALSE
    /\ UNCHANGED <<crd, version, roles, registration, lost, cache, pc, queued,
                   faults>>

StopProcess ==
    /\ Running /\ ~installed
    /\ pc' = "stopped"
    /\ queued' = FALSE
    /\ UNCHANGED <<cluster, cache, faults, events>>

DeleteRegistration ==
    /\ registration # None
    /\ registration' = None
    /\ lost' = TRUE

\* An object whose owner does not exist is deleted.
CollectGarbage ==
    /\ registration \in Versions \ roles
    /\ DeleteRegistration
    /\ UNCHANGED <<installed, crd, version, roles, cache, pc, queued, faults,
                   events>>

-----------------------------------------------------------------------------
(* People.                                                                 *)

UserDeletes ==
    /\ events < MaxEvents
    /\ events' = events + 1
    /\ DeleteRegistration
    /\ UNCHANGED <<installed, crd, version, roles, cache, pc, queued, faults>>

InstallCrd ==
    /\ ~crd
    /\ events < MaxEvents
    /\ events' = events + 1
    /\ crd' = TRUE
    /\ UNCHANGED <<installed, version, roles, registration, lost, cache, pc,
                   queued, faults>>

\* The objects of a CRD go with it.
RemoveCrd ==
    /\ crd
    /\ events < MaxEvents
    /\ events' = events + 1
    /\ crd' = FALSE
    /\ registration' = None
    /\ lost' = (lost \/ registration # None)
    /\ UNCHANGED <<installed, version, roles, cache, pc, queued, faults>>

-----------------------------------------------------------------------------

WorkerStep ==
    \/ Reconcile
    \/ CheckCrdInstalled
    \/ GetRegistration
    \/ ListClusterRoles
    \/ Create

Olm == CreateRole \/ (\E v \in Versions : RemoveRole(v)) \/ StopProcess

Next ==
    \/ WorkerStep \/ CallFails
    \/ Restart \/ SyncRegistration \/ SyncRoles
    \/ Olm \/ Upgrade \/ Uninstall \/ CollectGarbage
    \/ UserDeletes \/ InstallCrd \/ RemoveCrd

Spec == Init /\ [][Next]_vars

\* The worker runs and the rate limiter queues again what it was given; watch
\* events arrive; OLM finishes an uninstall, and garbage is collected.
Fairness ==
    /\ WF_vars(WorkerStep)
    /\ WF_vars(SyncRegistration) /\ WF_vars(SyncRoles)
    /\ WF_vars(Olm)
    /\ WF_vars(CollectGarbage)

FairSpec == Spec /\ Fairness

-----------------------------------------------------------------------------
(* Properties.                                                             *)

\* Type invariant: the variables stay in their ranges, and a stopped process
\* has nothing queued.
TypeOK ==
    /\ installed \in BOOLEAN /\ crd \in BOOLEAN /\ seen \in BOOLEAN
    /\ lost \in BOOLEAN /\ queued \in BOOLEAN
    /\ version \in Versions
    /\ roles \subseteq Versions /\ rolesSeen \subseteq Versions
    /\ registration \in Versions \cup {NoOwner, None}
    /\ pc \in {"idle", "checkCrd", "get", "list", "create", "stopped"}
    /\ pc \notin {"idle", "stopped"} => queued
    /\ faults \in 0..MaxFaults /\ events \in 0..MaxEvents

\* The reconciler has only this one entry per start: it may let go of it only
\* when the operator is registered, whatever was missing, failing or outdated
\* on the way.  ~lost leaves out the starts since which a registration was
\* deleted: one deleted after the entry was let go of is not made again, nor is
\* one whose deletion the cache did not show yet when Reconcile looked.
DoneMeansRegistered ==
    installed /\ Running /\ ~queued /\ ~lost => registration # None

\* The operator registers in the end, once the CRD and the role it needs are
\* there for good, however late they came and whichever calls failed before,
\* unless a registration was deleted since the process started (StaysRegistered).
EventuallyRegistered ==
    <>[](installed /\ crd /\ ~lost) => <>[](registration # None)

\* "the Crunchy Bridge Operator automatically creates a cluster level
\* DBaaSProvider [...] to automatically register itself with the DBaaS Operator"
\* (README.md:45), the versions that it is upgraded to as well as the first.
StaysRegistered == <>[](installed /\ crd) => <>[](registration # None)

\* "to ensure cleanup on uninstall" (dbaasprovider_reconciler.go:92): after an
\* uninstall the registration goes, also one that is made while it goes on.
CleanedUp == ~installed ~> [](registration = None)

=============================================================================
