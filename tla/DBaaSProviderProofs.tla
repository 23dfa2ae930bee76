-------------------------- MODULE DBaaSProviderProofs --------------------------
(***************************************************************************)
(* Proofs about DBaaSProvider, for any number of upgrades, faults and      *)
(* events.                                                                 *)
(***************************************************************************)
EXTENDS DBaaSProvider, TLAPS

\* What the cache shows is there, unless it was deleted since the start.
SeenIsRegistered == seen /\ ~lost => registration # None

\* That Reconcile lets go of the Deployment only when the operator is
\* registered, with what it needs for it.
Kept == DoneMeansRegistered /\ SeenIsRegistered

IInv == TypeOK /\ Kept

-----------------------------------------------------------------------------
(* Numbers: the rest of the proofs does without arithmetic.                *)

\* The ranges are not empty, and no version is the lack of an owner.
LEMMA Ranges ==
    /\ 1 \in Versions /\ None \notin Versions
    /\ 0 \in 0..MaxFaults /\ 0 \in 0..MaxEvents
  BY BoundsNat DEF Versions, None

\* A version below the last has a successor.
LEMMA NextVersion ==
    ASSUME version \in Versions, version < MaxVersion
    PROVE  version + 1 \in Versions
  BY BoundsNat DEF Versions

\* A counter below its bound may be incremented.
LEMMA Counted ==
    ASSUME NEW max \in Nat, NEW n \in 0..max, n < max
    PROVE  n + 1 \in 0..max
  OBVIOUS

-----------------------------------------------------------------------------
(* Types.                                                                  *)

\* The process and its worker keep to the ranges.
LEMMA ProcessTypes ==
    TypeOK /\ (WorkerStep \/ CallFails \/ Restart \/ Upgrade \/ StopProcess
                \/ SyncRegistration \/ SyncRoles) => TypeOK'
<1> SUFFICES ASSUME TypeOK,
                    \/ WorkerStep \/ CallFails \/ Restart \/ Upgrade
                    \/ StopProcess \/ SyncRegistration \/ SyncRoles
             PROVE  TypeOK'
  OBVIOUS
<1> USE Ranges DEF TypeOK, cluster, cache
<1>1. CASE Reconcile
  BY <1>1 DEF Reconcile, Done
<1>2. CASE CheckCrdInstalled
  BY <1>2 DEF CheckCrdInstalled, Requeue
<1>3. CASE GetRegistration
  BY <1>3 DEF GetRegistration, Done
<1>4. CASE ListClusterRoles
  BY <1>4 DEF ListClusterRoles, Requeue
<1>5. CASE Create
  BY <1>5 DEF Create, BridgeProviderCR, Done, Requeue
<1>6. CASE CallFails
  <2>1. faults' \in 0..MaxFaults
    BY <1>6, Counted, BoundsNat DEF CallFails
  <2> QED
    BY <1>6, <2>1 DEF CallFails, BridgeProviderCR, Requeue
<1>7. CASE Restart
  <2>1. events' \in 0..MaxEvents
    BY <1>7, Counted, BoundsNat DEF Restart
  <2> QED
    BY <1>7, <2>1 DEF Restart, StartProcess
<1>8. CASE Upgrade
  <2>1. version' \in Versions
    BY <1>8, NextVersion DEF Upgrade
  <2> QED
    BY <1>8, <2>1 DEF Upgrade, StartProcess
<1>9. CASE StopProcess
  BY <1>9 DEF StopProcess
<1>10. CASE SyncRegistration \/ SyncRoles
  BY <1>10 DEF SyncRegistration, SyncRoles
<1> QED
  BY <1>1, <1>2, <1>3, <1>4, <1>5, <1>6, <1>7, <1>8, <1>9, <1>10
     DEF WorkerStep

\* So does everybody else.
LEMMA OtherTypes ==
    ASSUME TypeOK,
           \/ CreateRole \/ (\E v \in Versions : RemoveRole(v)) \/ Uninstall
           \/ CollectGarbage \/ UserDeletes \/ InstallCrd \/ RemoveCrd
    PROVE  TypeOK'
<1> USE Ranges DEF TypeOK, cluster, cache
<1>1. CASE CreateRole \/ \E v \in Versions : RemoveRole(v)
  BY <1>1 DEF CreateRole, RemoveRole
<1>2. CASE CollectGarbage
  BY <1>2 DEF CollectGarbage, DeleteRegistration
<1>3. CASE Uninstall \/ UserDeletes \/ InstallCrd \/ RemoveCrd
  <2>1. events' \in 0..MaxEvents
    BY <1>3, Counted, BoundsNat DEF Uninstall, UserDeletes, InstallCrd, RemoveCrd
  <2>2. lost' \in BOOLEAN
    BY <1>3, Zenon DEF Uninstall, UserDeletes, InstallCrd, RemoveCrd,
                       DeleteRegistration
  <2> QED
    BY <1>3, <2>1, <2>2 DEF Uninstall, UserDeletes, InstallCrd, RemoveCrd,
                            DeleteRegistration
<1> QED
  BY <1>1, <1>2, <1>3

-----------------------------------------------------------------------------
(* The invariant.                                                          *)

\* The invariant holds initially.
LEMMA InitInv == Init => IInv
  BY Ranges DEF Init, IInv, Kept, TypeOK, DoneMeansRegistered,
                SeenIsRegistered, Running

\* Reconcile lets go of the Deployment only when registered.
LEMMA WorkerKept == IInv /\ (WorkerStep \/ CallFails) => Kept'
<1> SUFFICES ASSUME IInv, WorkerStep \/ CallFails PROVE Kept'
  OBVIOUS
<1> USE Ranges DEF IInv, Kept, TypeOK, DoneMeansRegistered, SeenIsRegistered,
                   Running, cluster, cache
<1>1. CASE Reconcile
  BY <1>1 DEF Reconcile, Done
<1>2. CASE CheckCrdInstalled
  BY <1>2 DEF CheckCrdInstalled, Requeue
<1>3. CASE GetRegistration
  BY <1>3 DEF GetRegistration, Done
<1>4. CASE ListClusterRoles
  BY <1>4 DEF ListClusterRoles, Requeue
<1>5. CASE Create
  BY <1>5 DEF Create, BridgeProviderCR, Done, Requeue
<1>6. CASE CallFails
  BY <1>6 DEF CallFails, BridgeProviderCR, Requeue
<1> QED
  BY <1>1, <1>2, <1>3, <1>4, <1>5, <1>6 DEF WorkerStep

\* Starts, stops and the watch events keep this.
LEMMA ProcessKept ==
    IInv /\ (Restart \/ SyncRegistration \/ SyncRoles \/ Upgrade \/ StopProcess)
        => Kept'
<1> SUFFICES ASSUME IInv,
                    \/ Restart \/ SyncRegistration \/ SyncRoles
                    \/ Upgrade \/ StopProcess
             PROVE  Kept'
  OBVIOUS
<1> USE DEF IInv, Kept, DoneMeansRegistered, SeenIsRegistered, Running,
            cluster, cache
<1>1. CASE Restart \/ Upgrade
  BY <1>1 DEF Restart, Upgrade, StartProcess
<1>2. CASE SyncRegistration
  BY <1>2 DEF SyncRegistration
<1>3. CASE SyncRoles
  BY <1>3 DEF SyncRoles
<1>4. CASE StopProcess
  BY <1>4 DEF StopProcess
<1> QED
  BY <1>1, <1>2, <1>3, <1>4

\* So does everybody else: a registration that goes is counted as lost.
LEMMA OthersKept ==
    ASSUME IInv,
           \/ CreateRole \/ (\E v \in Versions : RemoveRole(v)) \/ Uninstall
           \/ CollectGarbage \/ UserDeletes \/ InstallCrd \/ RemoveCrd
    PROVE  Kept'
<1> USE DEF IInv, Kept, DoneMeansRegistered, SeenIsRegistered, Running,
            cluster, cache
<1>1. CASE CreateRole \/ \E v \in Versions : RemoveRole(v)
  BY <1>1 DEF CreateRole, RemoveRole
<1>2. CASE Uninstall \/ InstallCrd
  BY <1>2 DEF Uninstall, InstallCrd
<1>3. CASE CollectGarbage \/ UserDeletes
  BY <1>3 DEF CollectGarbage, UserDeletes, DeleteRegistration
<1>4. CASE RemoveCrd
  BY <1>4 DEF RemoveCrd
<1> QED
  BY <1>1, <1>2, <1>3, <1>4

\* The invariant is inductive.
LEMMA StepInv == IInv /\ [Next]_vars => IInv'
<1>1. IInv /\ UNCHANGED vars => IInv'
  BY DEF vars, IInv, Kept, TypeOK, DoneMeansRegistered, SeenIsRegistered,
         Running
<1>2. IInv /\ Next => TypeOK'
  BY ProcessTypes, OtherTypes DEF Next, Olm, IInv
<1>3. IInv /\ Next => Kept'
  BY WorkerKept, ProcessKept, OthersKept DEF Next, Olm
<1> QED
  BY <1>1, <1>2, <1>3 DEF IInv

\* The variables stay in their ranges, and nothing but an idle or stopped
\* worker is without work (SetupWithManager's predicate and the queue).
THEOREM TypeCorrect == Spec => []TypeOK
<1>1. IInv => TypeOK
  BY DEF IInv, Kept
<1> QED
  BY <1>1, InitInv, StepInv, PTL DEF Spec

\* Whatever was missing, failing or outdated, a Reconcile that has let go of its
\* only queue entry has registered the operator, for any number of upgrades,
\* faults and restarts: unless a registration was deleted since the process
\* started, be it afterwards or while the cache still showed it.
THEOREM RegisteredWhenDone == Spec => []DoneMeansRegistered
<1>1. IInv => DoneMeansRegistered
  BY DEF IInv, Kept
<1> QED
  BY <1>1, InitInv, StepInv, PTL DEF Spec

================================================================================
