------------------------- MODULE BridgeInstanceProofs -------------------------
(***************************************************************************)
(* Proofs about BridgeInstance, for any objects, teams, clusters, faults   *)
(* and bounds.                                                             *)
(*                                                                         *)
(* KubeObjectsProofs says how far what the worker holds may be behind the  *)
(* current version; here it is said that every version is one that the     *)
(* controller can have written (VersionOK), that what the worker holds     *)
(* fits the call it makes next (Fits), and that a cluster is deleted for   *)
(* the current version (DeletionIsCurrent): the phase Deleting is written  *)
(* first, and nobody else changes an object that is being deleted.         *)
(***************************************************************************)
EXTENDS BridgeInstance, TLAPS

K == INSTANCE KubeObjectsProofs

VersionOK(v) ==
    /\ IF v.life = "absent" THEN v = Absent ELSE v.spec \in Specs
    /\ v.life = "live" => v.phase # "Deleting" /\ (v.phase # "" => v.finalizer)
    /\ v.life = "deleting" => v.finalizer
    /\ v.id # NoId => v.phase \in {"Creating", "Ready", "Deleting"}
    /\ v.phase = "Ready" \/ v.cond = "Ready" => v.id # NoId
    /\ v.cond = "Ready" => v.phase \in {"Ready", "Deleting"}

Versions == {v \in Version : VersionOK(v)}

\* Reasons of a condition that is False.
Problems == {"InventoryNotFound", "AuthenticationError", "BackendError"}

\* What the call about to be made says about the version held.
HeldVersion(pc, obj) ==
    CASE pc \in {"setDeleting", "unfinalize"} -> obj.life = "deleting"
      [] pc = "delete" -> obj.life = "deleting" /\ obj.phase = "Deleting"
      [] pc = "addFinalizer" -> obj.life = "live" /\ obj.phase = ""
      [] pc = "setPending" ->
            obj.life = "live" /\ obj.phase = "" /\ obj.finalizer
      [] pc \in {"defaultTeam", "create", "setCreating"} ->
            obj.life = "live" /\ obj.phase = "Pending"
      [] pc = "lookup" ->
            obj.life = "live" /\ obj.phase = "Creating" /\ obj.id = NoId
      [] pc \in {"detail", "setReady"} ->
            obj.life = "live" /\ obj.phase = "Creating"
      [] pc = "setStatus" ->
            obj.life = "live" /\ obj.phase \in {"Creating", "Ready"}
      [] pc = "report" -> obj.life # "absent"

\* A worker record w fits the state cl of the service.
Fits(w, cl) ==
    w.pc # "idle" =>
        /\ w.key \in Keys
        /\ HeldVersion(w.pc, w.obj)
        /\ w.obj.id # NoId => w.id = w.obj.id
        /\ w.pc \in {"setDeleting", "delete", "detail", "setReady",
                     "setStatus"} => w.id # NoId
        /\ w.pc \in {"setDeleting", "delete"} => w.id = w.obj.id
        /\ w.pc = "unfinalize" /\ w.obj.id # NoId =>
               cl[w.obj.id].state = "deleted"
        /\ w.pc = "setReady" => cl[w.id].state \in {"ready", "deleted"}
        /\ w.pc = "report" => w.cond \in Problems

WorkerOK ==
    /\ worker.pc = "idle" => worker = IdleWorker
    /\ Fits(worker, clusters)

DeletionIsCurrent == worker.pc = "delete" => api[worker.key] = worker.obj

IInv ==
    /\ TypeOK
    /\ K!CacheOK(Versions)
    /\ K!CopiesOK(Versions)
    /\ WorkerOK
    /\ DeletionIsCurrent

-------------------------------------------------------------------------------
(* Types, and the steps of KubeObjects.                                    *)

WorkerType ==
    [pc : Calls \cup {"idle"}, key : Keys \cup {NoKey}, obj : Version,
     fresh : BOOLEAN, id : Ids \cup {NoId}, cond : Reasons]

\* The version of an object that does not exist is one the controller knows.
LEMMA AbsentType ==
    /\ Absent \in Version /\ Absent \in Versions
    /\ Absent.life = "absent" /\ Absent.finalizer = FALSE /\ Absent.id = NoId
  BY DEF Absent, Version, Versions, VersionOK, Phases, Reasons, NoSpec

\* The worker between two Reconciles has the worker's type and holds nothing.
LEMMA IdleType ==
    /\ IdleWorker \in WorkerType
    /\ K!IdleHolds
    /\ IdleWorker.pc = "idle" /\ IdleWorker.key = NoKey
    /\ IdleWorker.key \notin Keys
  BY AbsentType, KeysOwn DEF IdleWorker, WorkerType, K!IdleHolds, Reasons

\* An idle worker fits every state of the service.
LEMMA IdleFits == Fits(IdleWorker, clusters)
  BY IdleType DEF Fits

\* The steps of KubeObjects are those that KubeObjectsProofs is about.
LEMMA SameSteps ==
    ASSUME NEW k, NEW v, NEW next, NEW requeue, NEW failing
    PROVE  /\ Commit(k, v) => K!Commit(k, v)
           /\ Update(v, next, requeue, failing) =>
                  K!Update(v, next, requeue, failing)
           /\ Take(k, next) => K!Take(k, next)
           /\ Deliver(k) => K!Deliver(k)
           /\ Restart => K!Restart
           /\ ForeignCommit(k, v) => K!ForeignCommit(k, v)
<1> USE DEF Commit, K!Commit
<1>1. Update(v, next, requeue, failing) => K!Update(v, next, requeue, failing)
  BY DEF Update, GoOn, ReturnError, K!Update, K!GoOn, K!ReturnError
<1>2. Take(k, next) => K!Take(k, next)
  BY DEF Take, K!Take
<1>3. Deliver(k) => K!Deliver(k)
  BY DEF Deliver, K!Deliver
<1>4. Restart => K!Restart
  BY DEF Restart, K!Restart
<1>5. ForeignCommit(k, v) => K!ForeignCommit(k, v)
  BY DEF ForeignCommit, K!ForeignCommit
<1> QED
  BY <1>1, <1>2, <1>3, <1>4, <1>5

\* Versions that the controller has written are of the right type.
LEMMA VersionsType ==
    /\ Versions \subseteq Version
    /\ \A s \in Seq(Versions) : s \in Seq(Version)
<1>1. Versions \subseteq Version
  BY DEF Versions
<1> QED
  BY <1>1

\* What the cache has and will have is of the right type.
LEMMA CacheType ==
    ASSUME K!CacheOK(Versions)'
    PROVE  /\ api' \in [Keys -> Version]
           /\ watch' \in [Keys -> Seq(Version)]
           /\ seen' \in [Keys -> Version]
<1>1. /\ api' \in [Keys -> Versions]
      /\ watch' \in [Keys -> Seq(Versions)]
      /\ seen' \in [Keys -> Versions]
  BY DEF K!CacheOK
<1> QED
  BY <1>1, VersionsType

\* The calls of Reconcile start with one of the known steps.
LEMMA FirstCallType ==
    ASSUME NEW v \in Version, v.life = "live" => v.phase # "Deleting"
    PROVE  FirstCall(v) \in Calls \cup {"idle"}
  BY DEF Version, Phases, FirstCall, DeletionCall, PhaseCall, Calls

\* A new cluster keeps the types of the service.
LEMMA BuildType ==
    ASSUME TypeOK, NEW name \in Names, NEW team \in Teams,
           NEW owner \in Owners \cup {Nobody}, Build(name, team, owner)
    PROVE  clusters' \in [Ids -> ClusterRecord]
<1> DEFINE new == [state |-> "creating", name |-> name, team |-> team,
                   owner |-> owner]
<1>1. PICK id \in Ids : clusters' = [clusters EXCEPT ![id] = new]
  BY DEF Build
<1>2. new \in ClusterRecord
  BY DEF ClusterRecord
<1> HIDE DEF new
<1> QED
  BY <1>1, <1>2 DEF TypeOK, ApiTypeOK

-------------------------------------------------------------------------------
(* Kinds of steps.                                                         *)

\* What the worker holds while it makes a call.
LEMMA Held ==
    ASSUME IInv, worker.pc # "idle"
    PROVE  /\ worker \in WorkerType
           /\ worker.key \in Keys
           /\ worker.obj \in Version /\ worker.obj \in Versions
           /\ VersionOK(worker.obj)
           /\ HeldVersion(worker.pc, worker.obj)
           /\ Fits(worker, clusters)
<1>1. worker.key \in Keys /\ HeldVersion(worker.pc, worker.obj)
      /\ Fits(worker, clusters)
  BY DEF IInv, WorkerOK, Fits
<1>2. worker.obj \in Versions
  BY <1>1 DEF IInv, K!CopiesOK
<1> QED
  BY <1>1, <1>2 DEF IInv, TypeOK, WorkerType, Versions

\* A version that exists is made of its six parts.
LEMMA Parts ==
    ASSUME NEW o \in Version, o.life # "absent", VersionOK(o)
    PROVE  /\ o = [life |-> o.life, finalizer |-> o.finalizer,
                   phase |-> o.phase, id |-> o.id, cond |-> o.cond,
                   spec |-> o.spec]
           /\ o.life \in {"live", "deleting"} /\ o.finalizer \in BOOLEAN
           /\ o.phase \in Phases /\ o.id \in Ids \cup {NoId}
           /\ o.cond \in Reasons /\ o.spec \in Specs
           /\ o.spec \in Specs \cup {NoSpec}
  BY DEF Version, VersionOK

\* Reconcile returns with an error, or the operator restarts.
LEMMA ReturnInv ==
    ASSUME IInv, worker.pc # "idle", ReturnError, ApiTypeOK',
           UNCHANGED <<api, watch, seen, edits, account>>
    PROVE  IInv'
<1>1. worker' = IdleWorker /\ queue' = queue \cup {worker.key}
  BY DEF ReturnError
<1>2. K!CacheOK(Versions)' /\ K!CopiesOK(Versions)'
  BY <1>1, IdleType, K!SameCache, K!SameCopies DEF IInv
<1>3. TypeOK'
  BY <1>1, IdleType, Held DEF IInv, TypeOK, WorkerType
<1>4. WorkerOK' /\ DeletionIsCurrent'
  BY <1>1, IdleType DEF WorkerOK, Fits, DeletionIsCurrent
<1> QED
  BY <1>2, <1>3, <1>4 DEF IInv

\* Reconcile goes on with the version it holds.
LEMMA GoOnInv ==
    ASSUME IInv, worker.pc # "idle", ApiTypeOK',
           UNCHANGED <<api, watch, seen, edits, account>>,
           NEW next \in WorkerType, GoOn(next, {}),
           next.key = worker.key, next.obj = worker.obj,
           next.fresh = worker.fresh, next.pc \notin {"idle", "delete"},
           Fits(next, clusters')
    PROVE  IInv'
<1>1. worker' = next /\ queue' = queue
  BY DEF GoOn
<1>2. K!CacheOK(Versions)' /\ K!CopiesOK(Versions)'
  BY <1>1, IdleType, K!SameCache, K!SameCopies DEF IInv
<1>3. TypeOK'
  BY <1>1 DEF IInv, TypeOK, WorkerType
<1>4. WorkerOK' /\ DeletionIsCurrent'
  BY <1>1 DEF WorkerOK, DeletionIsCurrent
<1> QED
  BY <1>2, <1>3, <1>4 DEF IInv

\* What a write from Reconcile does.
LEMMA WriteCases ==
    ASSUME NEW v, NEW next, NEW requeue, Write(v, next, requeue)
    PROVE  /\ \/ K!Update(v, next, requeue, FALSE)
              \/ K!Update(v, next, requeue, TRUE)
           /\ \/ worker.fresh /\ Commit(worker.key, v)
              \/ /\ UNCHANGED <<api, watch>>
                 /\ worker' = IdleWorker \/ (worker.fresh /\ v = api[worker.key])
           /\ worker' = IdleWorker \/ worker' = next
           /\ queue' = queue \cup requeue \/ queue' = queue \cup {worker.key}
           /\ UNCHANGED <<clusters, seen, edits, account>>
           /\ UNCHANGED faults \/ Fault("kube")
<1>1. K!Update(v, next, requeue, FALSE) \/ K!Update(v, next, requeue, TRUE)
  BY SameSteps DEF Write
<1> QED
  BY <1>1 DEF Write, Update, GoOn, ReturnError

\* A write from Reconcile keeps the invariant.
LEMMA WriteInv ==
    ASSUME IInv, worker.pc # "idle", NEW v \in Versions,
           NEW next \in WorkerType, NEW requeue \in SUBSET Keys,
           Write(v, next, requeue),
           (worker.obj.finalizer => v.finalizer) \/ worker.obj.life = "deleting",
           \/ next = IdleWorker
           \/ /\ next.key = worker.key /\ next.obj = v
              /\ v.life = worker.obj.life /\ next.pc # "idle",
           Fits(next, clusters)
    PROVE  IInv'
<1> DEFINE k == worker.key
<1>1. k \in Keys
  BY Held
<1>2. /\ \/ worker.fresh /\ Commit(k, v)
         \/ /\ UNCHANGED <<api, watch>>
            /\ worker' = IdleWorker \/ (worker.fresh /\ v = api[k])
      /\ worker' = IdleWorker \/ worker' = next
      /\ queue' = queue \cup requeue \/ queue' = queue \cup {k}
      /\ UNCHANGED <<clusters, seen, edits, account>>
      /\ UNCHANGED faults \/ Fault("kube")
  BY WriteCases
<1>3. K!CacheOK(Versions)' /\ K!CopiesOK(Versions)'
  <2>1. ASSUME NEW failing, K!Update(v, next, requeue, failing)
        PROVE  K!CacheOK(Versions)' /\ K!CopiesOK(Versions)'
    BY <1>1, <2>1, IdleType, K!UpdateCopies DEF IInv
  <2> QED
    BY <2>1, WriteCases
<1>4. faults' \in 0..MaxFaults
  BY <1>2, MaxFaultsNatural DEF Fault, IInv, TypeOK, ApiTypeOK
<1>5. worker' \in WorkerType /\ queue' \subseteq Keys
  BY <1>1, <1>2, IdleType DEF IInv, TypeOK
<1>6. TypeOK'
  BY <1>2, <1>3, <1>4, <1>5, CacheType
     DEF IInv, TypeOK, ApiTypeOK, WorkerType
<1>7. CASE worker' = IdleWorker
  BY <1>3, <1>6, <1>7, IdleType DEF IInv, WorkerOK, Fits, DeletionIsCurrent
<1>8. CASE worker' # IdleWorker
  <2>1. worker' = next /\ next.key = k /\ next.obj = v /\ next.pc # "idle"
    BY <1>2, <1>8
  <2>2. api'[k] = v
    BY <1>1, <1>2, <1>8 DEF Commit, IInv, TypeOK
  <2>3. WorkerOK' /\ DeletionIsCurrent'
    BY <1>2, <2>1, <2>2 DEF WorkerOK, DeletionIsCurrent
  <2> QED
    BY <1>3, <1>6, <2>3 DEF IInv
<1> QED
  BY <1>7, <1>8

\* A write of somebody else keeps the invariant.
LEMMA ForeignInv ==
    ASSUME IInv, NEW k \in Keys, NEW v \in Versions, ForeignCommit(k, v),
           api[k].finalizer => v.finalizer,
           api[k].life = "deleting" => v = api[k],
           clusters' = clusters, account' = account,
           faults' \in 0..MaxFaults, edits' \in 0..MaxEdits
    PROVE  IInv'
<1>1. /\ worker'.key = worker.key /\ worker'.obj = worker.obj
      /\ worker'.pc = worker.pc /\ worker'.id = worker.id
      /\ worker'.cond = worker.cond
      /\ worker'.fresh => worker.fresh /\ worker.key # k
      /\ worker.key # k => worker' = worker
      /\ worker' \in WorkerType
      /\ UNCHANGED <<clusters, seen, queue>> /\ Commit(k, v)
  BY DEF ForeignCommit, IInv, TypeOK, WorkerType
<1>2. K!CacheOK(Versions)' /\ K!CopiesOK(Versions)'
  BY <1>1, IdleType, SameSteps, K!ForeignCopies DEF IInv
<1>3. TypeOK'
  BY <1>1, <1>2, CacheType DEF IInv, TypeOK, ApiTypeOK, WorkerType
<1>4. WorkerOK'
  <2>1. CASE worker.pc = "idle"
    <3>1. worker' = worker
      BY <1>1, <2>1, IdleType DEF IInv, WorkerOK
    <3> QED
      BY <1>1, <2>1, <3>1 DEF IInv, WorkerOK, Fits
  <2>2. CASE worker.pc # "idle"
    BY <2>2, <1>1 DEF IInv, WorkerOK, Fits
  <2> QED
    BY <2>1, <2>2
<1>5. DeletionIsCurrent'
  <2> SUFFICES ASSUME worker.pc = "delete"
               PROVE  api'[worker.key] = worker.obj
    BY <1>1 DEF DeletionIsCurrent
  <2>1. worker.key \in Keys /\ worker.obj.life = "deleting"
        /\ api[worker.key] = worker.obj
    BY Held DEF HeldVersion, IInv, DeletionIsCurrent
  <2> QED
    BY <1>1, <2>1 DEF Commit, IInv, TypeOK
<1> QED
  BY <1>2, <1>3, <1>4, <1>5 DEF IInv

-------------------------------------------------------------------------------
(* The writes of Reconcile.                                                *)

\* Reporting a condition (crunchybridgeinstance_controller.go, updateStatus)
\* keeps the invariant.
LEMMA ReportInv == IInv /\ Report => IInv'
<1> SUFFICES ASSUME IInv, Report PROVE IInv'
  OBVIOUS
<1> DEFINE obj == [worker.obj EXCEPT !.cond = worker.cond]
<1>1. worker.pc = "report"
  BY DEF Report
<1>2. CASE worker.obj.phase = ""
  BY <1>1, <1>2, ReturnInv DEF Report, IInv, TypeOK, ApiTypeOK
<1>3. CASE worker.obj.phase # ""
  <2>1. Write(obj, IdleWorker, {worker.key})
    BY <1>3 DEF Report
  <2>2. worker.obj.life # "absent" /\ worker.cond \in Problems
    BY <1>1, Held DEF HeldVersion, Fits
  <2>3. VersionOK(worker.obj) /\ worker.obj \in Version
    BY <1>1, Held
  <2>4. /\ obj \in Version
        /\ obj.cond = worker.cond /\ obj.life = worker.obj.life
        /\ obj.finalizer = worker.obj.finalizer
        /\ obj.phase = worker.obj.phase /\ obj.id = worker.obj.id
        /\ obj.spec = worker.obj.spec
    BY <2>2, <2>3 DEF Version, Reasons, Problems
  <2>5. VersionOK(obj)
    BY <2>2, <2>3, <2>4 DEF VersionOK, Problems
  <2>6. obj \in Versions
    BY <2>4, <2>5 DEF Versions
  <2> HIDE DEF obj
  <2> QED
    BY <1>1, <2>1, <2>4, <2>6, Held, IdleType, IdleFits, WriteInv
<1> QED
  BY <1>2, <1>3

\* Adding the finalizer keeps the invariant.
LEMMA AddFinalizerInv == IInv /\ AddFinalizer => IInv'
<1> SUFFICES ASSUME IInv, AddFinalizer PROVE IInv'
  OBVIOUS
<1> DEFINE obj == [worker.obj EXCEPT !.finalizer = TRUE]
           next == [worker EXCEPT !.pc = "setPending", !.obj = obj]
<1>1. worker.pc = "addFinalizer" /\ Write(obj, next, {})
  BY DEF AddFinalizer
<1>2. worker.obj.life = "live" /\ worker.obj.phase = ""
  BY <1>1, Held DEF HeldVersion
<1>3. obj \in Versions /\ obj.finalizer
      /\ obj.life = "live" /\ obj.phase = "" /\ obj.id = worker.obj.id
  <2>1. VersionOK(worker.obj) /\ worker.obj \in Version
    BY <1>1, Held
  <2>2. /\ obj \in Version
        /\ obj.life = worker.obj.life /\ obj.finalizer = TRUE
        /\ obj.phase = worker.obj.phase /\ obj.id = worker.obj.id
        /\ obj.cond = worker.obj.cond /\ obj.spec = worker.obj.spec
    BY <1>2, <2>1 DEF Version
  <2>3. VersionOK(obj)
    BY <1>2, <2>1, <2>2 DEF VersionOK
  <2> QED
    BY <1>2, <2>1, <2>2, <2>3 DEF Versions, VersionOK
<1>4. next \in WorkerType /\ next.key = worker.key /\ next.obj = obj
      /\ next.pc = "setPending" /\ next.id = worker.id
  BY <1>1, <1>3, Held DEF WorkerType, Calls, Versions
<1>5. Fits(next, clusters)
  BY <1>1, <1>3, <1>4, Held DEF Fits, HeldVersion
<1> HIDE DEF obj, next
<1> QED
  BY <1>1, <1>2, <1>3, <1>4, <1>5, WriteInv

\* Writing the phase Pending keeps the invariant.
LEMMA SetPendingInv == IInv /\ SetPending => IInv'
<1> SUFFICES ASSUME IInv, SetPending PROVE IInv'
  OBVIOUS
<1> DEFINE obj == [worker.obj EXCEPT !.phase = "Pending"]
<1>1. worker.pc = "setPending" /\ Write(obj, IdleWorker, {})
  BY DEF SetPending
<1>2. worker.obj.life = "live" /\ worker.obj.phase = "" /\ worker.obj.finalizer
  BY <1>1, Held DEF HeldVersion
<1>3. obj \in Versions /\ obj.finalizer
  <2>1. VersionOK(worker.obj) /\ worker.obj \in Version
    BY <1>1, Held
  <2>2. /\ obj \in Version
        /\ obj.life = worker.obj.life /\ obj.finalizer = worker.obj.finalizer
        /\ obj.phase = "Pending" /\ obj.id = worker.obj.id
        /\ obj.cond = worker.obj.cond /\ obj.spec = worker.obj.spec
    BY <1>2, <2>1 DEF Version, Phases
  <2>3. VersionOK(obj)
    BY <1>2, <2>1, <2>2 DEF VersionOK
  <2> QED
    BY <1>2, <2>1, <2>2, <2>3 DEF Versions, VersionOK
<1> HIDE DEF obj
<1> QED
  BY <1>1, <1>3, IdleType, IdleFits, WriteInv

\* Writing the phase Creating keeps the invariant.
LEMMA SetCreatingInv == IInv /\ SetCreating => IInv'
<1> SUFFICES ASSUME IInv, SetCreating PROVE IInv'
  OBVIOUS
<1> DEFINE obj == [worker.obj EXCEPT !.phase = "Creating"]
<1>1. worker.pc = "setCreating" /\ Write(obj, IdleWorker, {})
  BY DEF SetCreating
<1>2. worker.obj.life = "live" /\ worker.obj.phase = "Pending"
  BY <1>1, Held DEF HeldVersion
<1>3. obj \in Versions /\ obj.finalizer
  <2>1. VersionOK(worker.obj) /\ worker.obj \in Version
    BY <1>1, Held
  <2>2. /\ obj \in Version
        /\ obj.life = worker.obj.life /\ obj.finalizer = worker.obj.finalizer
        /\ obj.phase = "Creating" /\ obj.id = worker.obj.id
        /\ obj.cond = worker.obj.cond /\ obj.spec = worker.obj.spec
    BY <1>2, <2>1 DEF Version, Phases
  <2>3. VersionOK(obj)
    BY <1>2, <2>1, <2>2 DEF VersionOK
  <2> QED
    BY <1>2, <2>1, <2>2, <2>3 DEF Versions, VersionOK
<1> HIDE DEF obj
<1> QED
  BY <1>1, <1>3, IdleType, IdleFits, WriteInv

\* Writing a ready cluster keeps the invariant.
LEMMA SetReadyInv == IInv /\ SetReady => IInv'
<1> SUFFICES ASSUME IInv, SetReady PROVE IInv'
  OBVIOUS
<1> DEFINE obj == [worker.obj EXCEPT !.id = worker.id, !.phase = "Ready",
                                     !.cond = "Ready"]
           next == [worker EXCEPT !.pc = "setStatus", !.obj = obj]
<1>1. worker.pc = "setReady" /\ Write(obj, next, {})
  BY DEF SetReady
<1>2. /\ worker.obj.life = "live" /\ worker.obj.phase = "Creating"
      /\ worker.id # NoId /\ worker.id \in Ids \cup {NoId}
      /\ worker.obj.finalizer
  BY <1>1, Held DEF HeldVersion, Fits, VersionOK, WorkerType
<1>3. obj \in Versions /\ obj.finalizer
      /\ obj.life = "live" /\ obj.phase = "Ready" /\ obj.id = worker.id
  <2>1. VersionOK(worker.obj) /\ worker.obj \in Version
    BY <1>1, Held
  <2>2. /\ obj \in Version
        /\ obj.life = worker.obj.life /\ obj.finalizer = worker.obj.finalizer
        /\ obj.phase = "Ready" /\ obj.id = worker.id
        /\ obj.cond = "Ready" /\ obj.spec = worker.obj.spec
    BY <1>2, <2>1 DEF Version, Phases, Reasons
  <2>3. VersionOK(obj)
    BY <1>2, <2>1, <2>2 DEF VersionOK
  <2> QED
    BY <1>2, <2>1, <2>2, <2>3 DEF Versions, VersionOK
<1>4. next \in WorkerType /\ next.key = worker.key /\ next.obj = obj
      /\ next.pc = "setStatus" /\ next.id = worker.id
  BY <1>1, <1>3, Held DEF WorkerType, Calls, Versions
<1>5. Fits(next, clusters)
  BY <1>1, <1>2, <1>3, <1>4, Held DEF Fits, HeldVersion
<1> HIDE DEF obj, next
<1> QED
  BY <1>1, <1>2, <1>3, <1>4, <1>5, WriteInv

\* Writing what is known of a cluster keeps the invariant.
LEMMA SetStatusInv == IInv /\ SetStatus => IInv'
<1> SUFFICES ASSUME IInv, SetStatus PROVE IInv'
  OBVIOUS
<1> DEFINE obj == [worker.obj EXCEPT !.id = worker.id]
<1>1. worker.pc = "setStatus" /\ Write(obj, IdleWorker, {worker.key})
  BY DEF SetStatus
<1>2. /\ worker.obj.life = "live" /\ worker.obj.phase \in {"Creating", "Ready"}
      /\ worker.id # NoId /\ worker.id \in Ids \cup {NoId}
      /\ worker.key \in Keys
  BY <1>1, Held DEF HeldVersion, Fits, WorkerType
<1>3. obj \in Versions /\ obj.finalizer
  <2>1. VersionOK(worker.obj) /\ worker.obj \in Version
    BY <1>1, Held
  <2>2. /\ obj \in Version
        /\ obj.life = worker.obj.life /\ obj.finalizer = worker.obj.finalizer
        /\ obj.phase = worker.obj.phase /\ obj.id = worker.id
        /\ obj.cond = worker.obj.cond /\ obj.spec = worker.obj.spec
    BY <1>2, <2>1 DEF Version
  <2>3. VersionOK(obj)
    BY <1>2, <2>1, <2>2 DEF VersionOK
  <2> QED
    BY <1>2, <2>1, <2>2, <2>3 DEF Versions, VersionOK
<1> HIDE DEF obj
<1> QED
  BY <1>1, <1>2, <1>3, IdleType, IdleFits, WriteInv

\* Announcing the deletion keeps the invariant.
LEMMA SetDeletingInv == IInv /\ SetDeleting => IInv'
<1> SUFFICES ASSUME IInv, SetDeleting PROVE IInv'
  OBVIOUS
<1> DEFINE obj == [worker.obj EXCEPT !.phase = "Deleting"]
           next == [worker EXCEPT !.pc = "delete", !.obj = obj]
<1>1. worker.pc = "setDeleting" /\ Write(obj, next, {})
  BY DEF SetDeleting
<1>2. worker.obj.life = "deleting" /\ worker.obj.finalizer /\ worker.id # NoId
  BY <1>1, Held DEF HeldVersion, Fits, VersionOK
<1>3. obj \in Versions /\ obj.finalizer
      /\ obj.life = "deleting" /\ obj.phase = "Deleting"
      /\ obj.id = worker.obj.id
  <2>1. VersionOK(worker.obj) /\ worker.obj \in Version
    BY <1>1, Held
  <2>2. /\ obj \in Version
        /\ obj.life = worker.obj.life /\ obj.finalizer = worker.obj.finalizer
        /\ obj.phase = "Deleting" /\ obj.id = worker.obj.id
        /\ obj.cond = worker.obj.cond /\ obj.spec = worker.obj.spec
    BY <1>2, <2>1 DEF Version, Phases
  <2>3. VersionOK(obj)
    BY <1>2, <2>1, <2>2 DEF VersionOK
  <2> QED
    BY <1>2, <2>1, <2>2, <2>3 DEF Versions, VersionOK
<1>4. next \in WorkerType /\ next.key = worker.key /\ next.obj = obj
      /\ next.pc = "delete" /\ next.id = worker.id
  BY <1>1, <1>3, Held DEF WorkerType, Calls, Versions
<1>5. Fits(next, clusters)
  BY <1>1, <1>2, <1>3, <1>4, Held DEF Fits, HeldVersion
<1> HIDE DEF obj, next
<1> QED
  BY <1>1, <1>2, <1>3, <1>4, <1>5, WriteInv

\* Removing the finalizer keeps the invariant.
LEMMA RemoveFinalizerInv == IInv /\ RemoveFinalizer => IInv'
<1> SUFFICES ASSUME IInv, RemoveFinalizer PROVE IInv'
  OBVIOUS
<1>1. worker.pc = "unfinalize" /\ Write(Absent, IdleWorker, {})
  BY DEF RemoveFinalizer
<1>2. worker.obj.life = "deleting"
  BY <1>1, Held DEF HeldVersion
<1> QED
  BY <1>1, <1>2, AbsentType, IdleType, IdleFits, WriteInv

-------------------------------------------------------------------------------
(* The calls of Reconcile to the Bridge API.                               *)

\* A call changes nothing that only the API server and the cache know.
LEMMA AnsweredInv ==
    ASSUME IInv, worker.pc # "idle", ApiTypeOK', NEW reply, NEW next, NEW failed,
           Answered(reply, next, failed),
           failed => ReturnError \/ (worker.pc = "create" /\ BackendFailed),
           worker.pc = "create" => Fits(worker, clusters'),
           reply = "ok" => /\ next \in WorkerType
                           /\ next.key = worker.key /\ next.obj = worker.obj
                           /\ next.fresh = worker.fresh
                           /\ next.pc \notin {"idle", "delete"}
                           /\ Fits(next, clusters')
    PROVE  IInv'
<1>1. UNCHANGED <<api, watch, seen, edits, account>>
  BY DEF Answered
<1>2. CASE reply = "ok" /\ GoOn(next, {})
  BY <1>1, <1>2, GoOnInv
<1>3. CASE worker.pc = "create" /\ BackendFailed
  <2> DEFINE w == [worker EXCEPT !.pc = "report", !.cond = "BackendError"]
  <2>1. w \in WorkerType /\ w.pc = "report" /\ w.cond = "BackendError"
        /\ w.key = worker.key /\ w.obj = worker.obj /\ w.fresh = worker.fresh
        /\ w.id = worker.id
    BY Held DEF WorkerType, Calls, Reasons
  <2>2. GoOn(w, {})
    BY <1>3 DEF BackendFailed
  <2>3. worker.pc = "create" /\ Fits(worker, clusters')
    BY <1>3
  <2>4. worker.obj.life = "live"
    BY <2>3, Held DEF HeldVersion
  <2>5. Fits(w, clusters')
    BY <2>1, <2>3, <2>4 DEF Fits, HeldVersion, Problems
  <2> HIDE DEF w
  <2> QED
    BY <1>1, <2>1, <2>2, <2>5, GoOnInv
<1>4. CASE ReturnError
  BY <1>1, <1>4, ReturnInv
<1> QED
  BY <1>2, <1>3, <1>4 DEF Answered

\* Reading from the service does not change it.
LEMMA ReadSame ==
    ASSUME IInv, NEW reply, NEW id, Read(reply) \/ ReadCluster(id, reply)
    PROVE  clusters' = clusters /\ ApiTypeOK'
  BY MaxFaultsNatural
     DEF Read, ReadCluster, Fault, IInv, TypeOK, ApiTypeOK

\* Asking for the default team keeps the invariant.
LEMMA DefaultTeamIDInv == IInv /\ DefaultTeamID => IInv'
<1> SUFFICES ASSUME IInv, DefaultTeamID PROVE IInv'
  OBVIOUS
<1> DEFINE next == [worker EXCEPT !.pc = "create"]
<1>1. worker.pc = "defaultTeam"
  BY DEF DefaultTeamID
<1>2. PICK reply \in {"ok", "error"} :
          Read(reply) /\ Answered(reply, next, ReturnError)
  BY DEF DefaultTeamID
<1>3. clusters' = clusters /\ ApiTypeOK'
  BY <1>2, ReadSame
<1>4. /\ next \in WorkerType /\ next.pc = "create" /\ next.key = worker.key
      /\ next.obj = worker.obj /\ next.fresh = worker.fresh
      /\ next.id = worker.id
  BY <1>1, Held DEF WorkerType, Calls
<1>5. Fits(next, clusters')
  BY <1>1, <1>3, <1>4, Held DEF Fits, HeldVersion
<1> HIDE DEF next
<1> QED
  BY <1>1, <1>2, <1>3, <1>4, <1>5, AnsweredInv

\* A cluster is built from a spec under a name and in a team that exist.
LEMMA SpecType ==
    ASSUME NEW spec \in Specs
    PROVE  spec.name \in Names /\ Team(spec) \in Teams
  BY SpecsKnown, DefaultTeamListed DEF Team

\* Asking for a cluster keeps the types of the service, and what there is stays
\* as it is.
LEMMA CreateCalled ==
    ASSUME TypeOK, NEW name \in Names, NEW team \in Teams, NEW owner \in Owners,
           NEW reply, CreateCluster(name, team, owner, reply)
    PROVE  /\ ApiTypeOK'
           /\ \A id \in Ids : clusters[id].state # "none" =>
                  clusters'[id] = clusters[id]
<1>1. faults' \in 0..MaxFaults
  BY MaxFaultsNatural DEF CreateCluster, Fault, TypeOK, ApiTypeOK
<1>2. CASE clusters' = clusters
  BY <1>1, <1>2 DEF TypeOK, ApiTypeOK
<1>3. CASE Build(name, team, owner)
  <2>1. clusters' \in [Ids -> ClusterRecord]
    BY <1>3, BuildType
  <2>2. \A id \in Ids : clusters[id].state # "none" =>
            clusters'[id] = clusters[id]
    BY <1>3 DEF Build, TypeOK, ApiTypeOK
  <2> QED
    BY <1>1, <2>1, <2>2 DEF ApiTypeOK
<1> QED
  BY <1>2, <1>3 DEF CreateCluster

\* Asking for a cluster keeps the invariant.
LEMMA CreateInv == IInv /\ Create => IInv'
<1> SUFFICES ASSUME IInv, Create PROVE IInv'
  OBVIOUS
<1> DEFINE next == [worker EXCEPT !.pc = "setCreating"]
           spec == worker.obj.spec
<1>1. worker.pc = "create"
  BY DEF Create
<1>2. PICK reply \in {"ok", "error"} :
          /\ CreateCluster(spec.name, Team(spec), worker.key, reply)
          /\ Answered(reply, next, BackendFailed)
  BY DEF Create
<1>3. worker.obj.life = "live" /\ worker.obj.phase = "Pending"
      /\ spec \in Specs
  BY <1>1, Held DEF HeldVersion, VersionOK
<1>4. spec.name \in Names /\ Team(spec) \in Teams /\ worker.key \in Owners
  BY <1>1, <1>3, SpecType, Held, KeysOwn
<1>5. ApiTypeOK'
  BY <1>2, <1>4, CreateCalled DEF IInv
<1>6. /\ next \in WorkerType /\ next.pc = "setCreating"
      /\ next.key = worker.key
      /\ next.obj = worker.obj /\ next.fresh = worker.fresh
      /\ next.id = worker.id
  BY <1>1, Held DEF WorkerType, Calls
<1>7. Fits(next, clusters') /\ Fits(worker, clusters')
  BY <1>1, <1>6, Held DEF Fits, HeldVersion
<1> HIDE DEF next
<1> QED
  BY <1>1, <1>2, <1>5, <1>6, <1>7, AnsweredInv

\* Looking the cluster up by its name keeps the invariant.
LEMMA LookupInv == IInv /\ Lookup => IInv'
<1> SUFFICES ASSUME IInv, Lookup PROVE IInv'
  OBVIOUS
<1>1. worker.pc = "lookup"
  BY DEF Lookup
<1>2. PICK reply \in {"ok", "error"} :
        /\ Read(reply)
        /\ LET found == FoundByName(worker.obj.spec.name)
           IN  \/ \E id \in found :
                     Answered(reply, [worker EXCEPT !.pc = "detail", !.id = id],
                              ReturnError)
               \/ /\ found = {}
                  /\ Answered(reply, [worker EXCEPT !.pc = "report",
                                                    !.cond = "BackendError"],
                              ReturnError)
  BY DEF Lookup
<1>3. clusters' = clusters /\ ApiTypeOK'
  BY <1>2, ReadSame
<1>4. /\ worker.obj.life = "live" /\ worker.obj.phase = "Creating"
      /\ worker.obj.id = NoId
  BY <1>1, Held DEF HeldVersion
<1>5. ASSUME NEW id \in FoundByName(worker.obj.spec.name),
             Answered(reply, [worker EXCEPT !.pc = "detail", !.id = id],
                      ReturnError)
      PROVE  IInv'
  <2> DEFINE next == [worker EXCEPT !.pc = "detail", !.id = id]
  <2>1. id \in Ids /\ id # NoId
    BY NoIdIsNone DEF FoundByName, Named
  <2>2. /\ next \in WorkerType /\ next.pc = "detail" /\ next.key = worker.key
        /\ next.obj = worker.obj /\ next.fresh = worker.fresh
        /\ next.id = id
    BY <1>1, <2>1, Held DEF WorkerType, Calls
  <2>3. Fits(next, clusters')
    BY <1>1, <1>4, <2>1, <2>2, Held DEF Fits, HeldVersion
  <2>4. Answered(reply, next, ReturnError)
    BY <1>5
  <2> HIDE DEF next
  <2> QED
    BY <1>1, <1>3, <2>2, <2>3, <2>4, AnsweredInv
<1>6. ASSUME Answered(reply, [worker EXCEPT !.pc = "report",
                                            !.cond = "BackendError"],
                      ReturnError)
      PROVE  IInv'
  <2> DEFINE next == [worker EXCEPT !.pc = "report", !.cond = "BackendError"]
  <2>1. /\ next \in WorkerType /\ next.pc = "report" /\ next.key = worker.key
        /\ next.obj = worker.obj /\ next.fresh = worker.fresh
        /\ next.cond = "BackendError" /\ next.id = worker.id
    BY <1>1, Held DEF WorkerType, Calls, Reasons
  <2>2. Fits(next, clusters')
    BY <1>1, <1>4, <2>1, Held DEF Fits, HeldVersion, Problems
  <2>3. Answered(reply, next, ReturnError)
    BY <1>6
  <2> HIDE DEF next
  <2> QED
    BY <1>1, <1>3, <2>1, <2>2, <2>3, AnsweredInv
<1> QED
  BY <1>2, <1>5, <1>6

\* Reading the cluster keeps the invariant: an answer means that it exists.
LEMMA DetailInv == IInv /\ Detail => IInv'
<1> SUFFICES ASSUME IInv, Detail PROVE IInv'
  OBVIOUS
<1> DEFINE next == [worker EXCEPT !.pc =
                        IF clusters[worker.id].state = "ready"
                        THEN "setReady" ELSE "setStatus"]
<1>1. worker.pc = "detail"
  BY DEF Detail
<1>2. PICK reply \in {"ok", "error"} :
          ReadCluster(worker.id, reply) /\ Answered(reply, next, ReturnError)
  BY DEF Detail
<1>3. clusters' = clusters /\ ApiTypeOK'
  BY <1>2, ReadSame
<1>4. /\ next \in WorkerType /\ next.pc \in {"setReady", "setStatus"}
      /\ next.pc = "setReady" => clusters[worker.id].state = "ready"
      /\ next.key = worker.key
      /\ next.obj = worker.obj /\ next.fresh = worker.fresh
      /\ next.id = worker.id
  BY <1>1, Held DEF WorkerType, Calls
<1>5. /\ worker.obj.life = "live" /\ worker.obj.phase = "Creating"
      /\ worker.key \in Keys /\ worker.id # NoId
      /\ worker.obj.id # NoId => worker.id = worker.obj.id
  BY <1>1, Held DEF HeldVersion, Fits
<1>6. Fits(next, clusters')
  BY <1>3, <1>4, <1>5 DEF Fits, HeldVersion
<1> HIDE DEF next
<1> QED
  BY <1>1, <1>2, <1>3, <1>4, <1>6, AnsweredInv

\* Deleting a cluster keeps the types of the service and touches no other.
LEMMA DeleteCalled ==
    ASSUME TypeOK, NEW id, NEW reply, DeleteCluster(id, reply)
    PROVE  /\ ApiTypeOK'
           /\ reply = "ok" => id \in Ids /\ clusters'[id].state = "deleted"
           /\ \A i \in Ids : clusters'[i] = clusters[i] \/
                  (i = id /\ Exists(id) /\ clusters'[i].state = "deleted"
                   /\ clusters'[i].owner = clusters[i].owner
                   /\ clusters'[i].name = clusters[i].name
                   /\ clusters'[i].team = clusters[i].team)
<1>1. faults' \in 0..MaxFaults
  BY MaxFaultsNatural DEF DeleteCluster, Fault, TypeOK, ApiTypeOK
<1>2. CASE clusters' = clusters /\ reply # "ok"
  BY <1>1, <1>2 DEF TypeOK, ApiTypeOK
<1>3. CASE /\ Exists(id)
           /\ clusters' = [clusters EXCEPT ![id].state = "deleted"]
  <2>1. id \in Ids /\ clusters[id] \in ClusterRecord
        /\ clusters' = [clusters EXCEPT ![id] =
                            [clusters[id] EXCEPT !.state = "deleted"]]
    BY <1>3 DEF Exists, TypeOK, ApiTypeOK
  <2>2. [clusters[id] EXCEPT !.state = "deleted"] \in ClusterRecord
    BY <2>1 DEF ClusterRecord
  <2>3. clusters' \in [Ids -> ClusterRecord]
    BY <2>1, <2>2 DEF TypeOK, ApiTypeOK
  <2>4. \A i \in Ids : clusters'[i] = IF i = id
                           THEN [clusters[id] EXCEPT !.state = "deleted"]
                           ELSE clusters[i]
    BY <2>1 DEF TypeOK, ApiTypeOK
  <2>5. clusters'[id] = [clusters[id] EXCEPT !.state = "deleted"]
    BY <2>1, <2>4
  <2>6. /\ clusters'[id].state = "deleted"
        /\ clusters'[id].owner = clusters[id].owner
        /\ clusters'[id].name = clusters[id].name
        /\ clusters'[id].team = clusters[id].team
    BY <2>1, <2>5 DEF ClusterRecord
  <2> QED
    BY <1>1, <1>3, <2>1, <2>3, <2>4, <2>6 DEF ApiTypeOK
<1> QED
  BY <1>2, <1>3 DEF DeleteCluster

\* Deleting the cluster keeps the invariant: the finalizer goes only after the
\* service has said that the cluster is deleted.
LEMMA DeleteInv == IInv /\ Delete => IInv'
<1> SUFFICES ASSUME IInv, Delete PROVE IInv'
  OBVIOUS
<1> DEFINE next == [worker EXCEPT !.pc = "unfinalize"]
<1>1. worker.pc = "delete"
  BY DEF Delete
<1>2. PICK reply \in {"ok", "error"} :
          DeleteCluster(worker.id, reply) /\ Answered(reply, next, ReturnError)
  BY DEF Delete
<1>3. ApiTypeOK' /\ (reply = "ok" => clusters'[worker.id].state = "deleted")
  BY <1>2, DeleteCalled DEF IInv
<1>4. /\ next \in WorkerType /\ next.pc = "unfinalize"
      /\ next.key = worker.key /\ next.obj = worker.obj
      /\ next.fresh = worker.fresh /\ next.id = worker.id
  BY <1>1, Held DEF WorkerType, Calls
<1>5. /\ worker.obj.life = "deleting" /\ worker.key \in Keys
      /\ worker.id = worker.obj.id
  BY <1>1, Held DEF HeldVersion, Fits
<1>6. reply = "ok" => Fits(next, clusters')
  BY <1>3, <1>4, <1>5 DEF Fits, HeldVersion
<1> HIDE DEF next
<1> QED
  BY <1>1, <1>2, <1>3, <1>4, <1>6, AnsweredInv

-------------------------------------------------------------------------------
(* Everything else.                                                        *)

\* What users do to objects keeps the invariant.
LEMMA UserInv == IInv /\ UserStep => IInv'
<1> SUFFICES ASSUME IInv, NEW k \in Keys,
                    \/ UserDelete(k)
                    \/ Touch(k)
                    \/ \E spec \in Specs : UserCreate(k, spec)
             PROVE  IInv'
  BY DEF UserStep
<1>1. /\ api[k] \in Versions /\ api[k] \in Version /\ VersionOK(api[k])
      /\ edits \in 0..MaxEdits /\ faults \in 0..MaxFaults
  BY DEF IInv, K!CacheOK, TypeOK, ApiTypeOK, Versions
<1>2. CASE UserDelete(k)
  <2> DEFINE v == IF api[k].finalizer
                  THEN [api[k] EXCEPT !.life = "deleting"] ELSE Absent
  <2>1. /\ ForeignCommit(k, v) /\ api[k].life = "live"
        /\ clusters' = clusters /\ account' = account
        /\ faults' \in 0..MaxFaults /\ edits' \in 0..MaxEdits
    BY <1>1, <1>2, MaxEditsNatural DEF UserDelete, ForeignDelete, Edit
  <2>2. v \in Versions /\ (api[k].finalizer => v.finalizer)
    <3>1. CASE api[k].finalizer
      <4>1. v = [api[k] EXCEPT !.life = "deleting"]
        BY <3>1
      <4>2. /\ v \in Version /\ v.life = "deleting"
            /\ v.finalizer = api[k].finalizer /\ v.phase = api[k].phase
            /\ v.id = api[k].id /\ v.cond = api[k].cond
            /\ v.spec = api[k].spec
        BY <1>1, <4>1 DEF Version
      <4>3. VersionOK(v)
        BY <1>1, <2>1, <3>1, <4>2 DEF VersionOK
      <4> QED
        BY <3>1, <4>2, <4>3 DEF Versions
    <3>2. CASE ~api[k].finalizer
      BY <3>2, AbsentType
    <3> QED
      BY <3>1, <3>2
  <2> HIDE DEF v
  <2> QED
    BY <2>1, <2>2, ForeignInv
<1>3. CASE Touch(k)
  <2>1. /\ ForeignCommit(k, api[k])
        /\ clusters' = clusters /\ account' = account
        /\ faults' \in 0..MaxFaults /\ edits' \in 0..MaxEdits
    BY <1>1, <1>3, MaxFaultsNatural DEF Touch, Fault
  <2> QED
    BY <1>1, <2>1, ForeignInv
<1>4. ASSUME NEW spec \in Specs, UserCreate(k, spec) PROVE IInv'
  <2> DEFINE v == [Absent EXCEPT !.life = "live", !.spec = spec]
  <2>1. ForeignCommit(k, v) /\ api[k].life = "absent" /\ Edit
    BY <1>4 DEF UserCreate
  <2>2. /\ v.life = "live" /\ v.finalizer = FALSE /\ v.phase = ""
        /\ v.id = NoId /\ v.cond = "" /\ v.spec = spec /\ v \in Version
    BY DEF Version, Absent, Phases, Reasons
  <2>3. /\ clusters' = clusters /\ account' = account
        /\ faults' \in 0..MaxFaults /\ edits' \in 0..MaxEdits
    BY <1>1, <2>1, MaxEditsNatural DEF Edit
  <2> HIDE DEF v
  <2>4. v \in Versions
    BY <2>2 DEF Versions, VersionOK
  <2>5. api[k].finalizer = FALSE
    BY <1>1, <2>1, AbsentType DEF VersionOK
  <2> QED
    BY <2>1, <2>3, <2>4, <2>5, ForeignInv
<1> QED
  BY <1>2, <1>3, <1>4

\* The service goes its own way: no cluster goes back.
LEMMA ServiceCalled ==
    ASSUME TypeOK, ServiceStep
    PROVE  /\ ApiTypeOK'
           /\ \A id \in Ids :
                 /\ clusters[id].state = "ready" =>
                        clusters'[id].state = "ready"
                 /\ clusters[id].state = "deleted" =>
                        clusters'[id].state = "deleted"
<1>1. ASSUME NEW id \in Ids, Provision(id)
      PROVE  /\ ApiTypeOK'
             /\ \A i \in Ids : clusters[i].state \in {"ready", "deleted"} =>
                    clusters'[i] = clusters[i]
  <2>1. clusters[id] \in ClusterRecord /\ clusters[id].state = "creating"
    BY <1>1 DEF Provision, TypeOK, ApiTypeOK
  <2>2. [clusters[id] EXCEPT !.state = "ready"] \in ClusterRecord
    BY <2>1 DEF ClusterRecord
  <2> QED
    BY <1>1, <2>1, <2>2 DEF Provision, TypeOK, ApiTypeOK
<1>2. ASSUME NEW name \in Names, NEW team \in Teams, ConsoleCreate(name, team)
      PROVE  /\ ApiTypeOK'
             /\ \A i \in Ids : clusters[i].state \in {"ready", "deleted"} =>
                    clusters'[i] = clusters[i]
  <2>1. Build(name, team, Nobody) /\ faults' \in 0..MaxFaults
    BY <1>2, MaxFaultsNatural DEF ConsoleCreate, Fault, TypeOK, ApiTypeOK
  <2>2. clusters' \in [Ids -> ClusterRecord]
    BY <2>1, BuildType
  <2>3. \A i \in Ids : clusters[i].state # "none" =>
            clusters'[i] = clusters[i]
    BY <2>1 DEF Build, TypeOK, ApiTypeOK
  <2> QED
    BY <2>1, <2>2, <2>3 DEF ApiTypeOK
<1> QED
  BY <1>1, <1>2 DEF ServiceStep

\* What the service does keeps the invariant.
LEMMA ServiceInv == IInv /\ ServiceStep => IInv'
<1> SUFFICES ASSUME IInv, ServiceStep PROVE IInv'
  OBVIOUS
<1>1. /\ ApiTypeOK'
      /\ \A id \in Ids : /\ clusters[id].state = "ready" =>
                                clusters'[id].state = "ready"
                         /\ clusters[id].state = "deleted" =>
                                clusters'[id].state = "deleted"
  BY ServiceCalled DEF IInv
<1>2. UNCHANGED <<api, watch, seen, queue, worker, edits, account>>
  BY DEF ServiceStep
<1>3. TypeOK'
  BY <1>1, <1>2 DEF IInv, TypeOK
<1>4. K!CacheOK(Versions)' /\ K!CopiesOK(Versions)'
  BY <1>2, IdleType, K!SameCache, K!SameCopies DEF IInv
<1>5. WorkerOK'
  <2>1. worker.id \in Ids \cup {NoId}
        /\ worker.obj.id \in Ids \cup {NoId}
    BY DEF IInv, TypeOK, Version
  <2>2. worker.pc = "setReady" => worker.id # NoId
    BY DEF IInv, WorkerOK, Fits
  <2>3. Fits(worker, clusters')
    BY <1>1, <2>1, <2>2 DEF IInv, WorkerOK, Fits
  <2> QED
    BY <1>2, <2>3 DEF IInv, WorkerOK
<1>6. DeletionIsCurrent'
  BY <1>2 DEF IInv, DeletionIsCurrent
<1> QED
  BY <1>3, <1>4, <1>5, <1>6 DEF IInv

\* The first call of Reconcile fits what the cache has.
LEMMA FirstCallFits ==
    ASSUME NEW v \in Version, VersionOK(v), FirstCall(v) # "idle"
    PROVE  /\ FirstCall(v) \in Calls \ {"delete", "setReady", "report"}
           /\ HeldVersion(FirstCall(v), v)
           /\ FirstCall(v) \in {"setDeleting", "detail", "setStatus"} =>
                  v.id # NoId
           /\ FirstCall(v) = "unfinalize" => v.id = NoId
<1>1. CASE v.life = "deleting"
  BY <1>1 DEF VersionOK, FirstCall, DeletionCall, HeldVersion, Calls
<1>2. CASE v.life = "live"
  <2>1. v.phase \in {"", "Pending", "Creating", "Ready"}
        /\ (v.phase # "" => v.finalizer)
    BY <1>2 DEF VersionOK, Version, Phases
  <2>2. FirstCall(v) = PhaseCall(v)
    BY <1>2 DEF FirstCall
  <2> QED
    BY <1>2, <2>1, <2>2 DEF PhaseCall, HeldVersion, Calls
<1>3. CASE v.life = "absent"
  BY <1>3 DEF FirstCall
<1> QED
  BY <1>1, <1>2, <1>3 DEF Version

\* Starting Reconcile keeps the invariant, however old the version is that it
\* starts with.
LEMMA ReconcileInv == \A k \in Keys : IInv /\ Reconcile(k) => IInv'
<1> SUFFICES ASSUME IInv, NEW k \in Keys, Reconcile(k) PROVE IInv'
  OBVIOUS
<1> DEFINE call == IF account # "ok" /\ seen[k].life # "absent"
                   THEN "report" ELSE FirstCall(seen[k])
           busy == [IdleWorker EXCEPT !.pc = call, !.key = k, !.obj = seen[k],
                                      !.fresh = (watch[k] = <<>>),
                                      !.id = seen[k].id,
                                      !.cond = AccountReason]
           next == IF call = "idle" THEN IdleWorker ELSE busy
<1>1. /\ Take(k, next)
      /\ UNCHANGED <<clusters, faults, edits, account>>
  BY DEF Reconcile, Begin
<1>2. /\ seen[k] \in Version /\ VersionOK(seen[k]) /\ seen[k].id \in Ids \cup {NoId}
      /\ watch \in [Keys -> Seq(Version)]
  BY DEF IInv, TypeOK, K!CacheOK, Versions, Version
<1>3. AccountReason \in Reasons /\ (account # "ok" => AccountReason \in Problems)
  BY DEF AccountReason, Reasons, Problems, IInv, TypeOK
<1>4. call # "idle" =>
          /\ call \in Calls \ {"delete", "setReady"}
          /\ HeldVersion(call, seen[k])
          /\ call \in {"setDeleting", "detail", "setStatus"} =>
                 seen[k].id # NoId
          /\ call = "unfinalize" => seen[k].id = NoId
          /\ call = "report" => account # "ok"
  <2>1. CASE account # "ok" /\ seen[k].life # "absent"
    BY <2>1 DEF HeldVersion, Calls
  <2>2. CASE ~(account # "ok" /\ seen[k].life # "absent")
    BY <1>2, <2>2, FirstCallFits
  <2> QED
    BY <2>1, <2>2
<1> HIDE DEF call
<1>5. /\ busy.pc = call /\ busy.key = k /\ busy.obj = seen[k]
      /\ busy.fresh = (watch[k] = <<>>) /\ busy.id = seen[k].id
      /\ busy.cond = AccountReason
      /\ call # "idle" => busy \in WorkerType
  BY <1>2, <1>3, <1>4 DEF IdleWorker, WorkerType
<1>6. call # "idle" => Fits(busy, clusters)
  BY <1>3, <1>4, <1>5 DEF Fits
<1> HIDE DEF busy
<1>7. next \in WorkerType /\ Fits(next, clusters) /\ next.pc # "delete"
      /\ (next.pc = "idle" => next = IdleWorker)
      /\ \/ next = IdleWorker
         \/ /\ next.key = k /\ next.obj = seen[k]
            /\ next.fresh = (watch[k] = <<>>)
  BY <1>4, <1>5, <1>6, IdleType, IdleFits
<1> HIDE DEF next
<1>8. worker' = next /\ queue' = queue \ {k} /\ UNCHANGED <<api, watch, seen>>
  BY <1>1 DEF Take
<1>9. K!CacheOK(Versions)' /\ K!CopiesOK(Versions)'
  BY <1>1, <1>7, IdleType, SameSteps, K!TakeCopies DEF IInv
<1>10. TypeOK'
  BY <1>1, <1>7, <1>8 DEF IInv, TypeOK, ApiTypeOK, WorkerType
<1>11. WorkerOK' /\ DeletionIsCurrent'
  BY <1>1, <1>7, <1>8 DEF WorkerOK, DeletionIsCurrent
<1> QED
  BY <1>9, <1>10, <1>11 DEF IInv

\* What reaches the cache keeps the invariant.
LEMMA CacheInv == IInv /\ CacheStep => IInv'
<1> SUFFICES ASSUME IInv, CacheStep PROVE IInv'
  OBVIOUS
<1>1. UNCHANGED <<clusters, faults, edits, account, api, worker>>
      /\ queue' \subseteq Keys
  BY DEF CacheStep, Resync, Deliver, IInv, TypeOK
<1>2. K!CacheOK(Versions)' /\ K!CopiesOK(Versions)'
  <2>1. CASE Resync
    BY <2>1, IdleType, K!SameCache, K!SameCopies DEF Resync, IInv
  <2>2. ASSUME NEW k \in Keys, Deliver(k)
        PROVE  K!CacheOK(Versions)' /\ K!CopiesOK(Versions)'
    BY <2>2, SameSteps, K!DeliverCopies DEF IInv
  <2> QED
    BY <2>1, <2>2 DEF CacheStep
<1>3. TypeOK'
  BY <1>1, <1>2, CacheType DEF IInv, TypeOK, ApiTypeOK
<1>4. WorkerOK' /\ DeletionIsCurrent'
  BY <1>1 DEF IInv, WorkerOK, DeletionIsCurrent
<1> QED
  BY <1>2, <1>3, <1>4 DEF IInv

\* An inventory that goes and comes keeps the invariant.
LEMMA AccountInv == IInv /\ (AccountLost \/ AccountRestored) => IInv'
<1> SUFFICES ASSUME IInv, AccountLost \/ AccountRestored PROVE IInv'
  OBVIOUS
<1>1. /\ UNCHANGED <<clusters, api, watch, seen, queue, worker, edits>>
      /\ account' \in {"ok", "noInventory", "noSecret"}
      /\ faults' \in 0..MaxFaults
  BY MaxFaultsNatural
     DEF AccountLost, AccountRestored, Fault, IInv, TypeOK, ApiTypeOK
<1>2. K!CacheOK(Versions)' /\ K!CopiesOK(Versions)'
  BY <1>1, IdleType, K!SameCache, K!SameCopies DEF IInv
<1> QED
  BY <1>1, <1>2
     DEF IInv, TypeOK, ApiTypeOK, WorkerOK, DeletionIsCurrent

\* A restart keeps the invariant.
LEMMA RestartInv == IInv /\ OperatorRestart => IInv'
<1> SUFFICES ASSUME IInv, OperatorRestart PROVE IInv'
  OBVIOUS
<1>1. /\ Restart /\ worker' = IdleWorker /\ queue' \subseteq Keys
      /\ UNCHANGED <<clusters, edits, account>>
      /\ faults' \in 0..MaxFaults
  BY MaxFaultsNatural
     DEF OperatorRestart, Restart, Fault, IInv, TypeOK, ApiTypeOK
<1>2. K!CacheOK(Versions)' /\ K!CopiesOK(Versions)'
  BY <1>1, IdleType, SameSteps, K!RestartCopies DEF IInv
<1>3. TypeOK'
  BY <1>1, <1>2, CacheType, IdleType
     DEF IInv, TypeOK, ApiTypeOK, WorkerType
<1>4. WorkerOK' /\ DeletionIsCurrent'
  BY <1>1, IdleType DEF WorkerOK, Fits, DeletionIsCurrent
<1> QED
  BY <1>2, <1>3, <1>4 DEF IInv

\* The invariant holds at the start.
LEMMA InitInv == Init => IInv
<1> SUFFICES ASSUME Init PROVE IInv
  OBVIOUS
<1>1. /\ api = [k \in Keys |-> Absent] /\ watch = [k \in Keys |-> <<>>]
      /\ seen = [k \in Keys |-> Absent] /\ queue = {}
      /\ worker = IdleWorker /\ edits = 0 /\ account = "ok"
      /\ clusters = [id \in Ids |-> NoCluster] /\ faults = 0
  BY DEF Init, ApiInit
<1>2. <<>> \in Seq(Versions) /\ <<>> \in Seq(Version)
  OBVIOUS
<1>3. K!CacheOK(Versions)
  BY <1>1, <1>2, AbsentType DEF K!CacheOK, K!Converges
<1>4. K!CopiesOK(Versions)
  <2>1. \A k \in Keys : K!Copies(k) = {Absent}
    BY <1>1, IdleType DEF K!Copies, K!InFlight
  <2> QED
    BY <1>1, <2>1, IdleType, AbsentType
       DEF K!CopiesOK, K!FinalizerKept, K!FreshIsCurrent, K!IdleHolds
<1>5. NoCluster \in ClusterRecord
  BY DEF NoCluster, ClusterRecord
<1>6. TypeOK
  BY <1>1, <1>2, <1>5, AbsentType, IdleType, MaxFaultsNatural, MaxEditsNatural
     DEF TypeOK, ApiTypeOK, WorkerType
<1>7. WorkerOK /\ DeletionIsCurrent
  BY <1>1, IdleType, IdleFits DEF WorkerOK, DeletionIsCurrent
<1> QED
  BY <1>3, <1>4, <1>6, <1>7 DEF IInv

\* Every step keeps the invariant.
LEMMA StepInv == IInv /\ [Next]_vars => IInv'
<1> SUFFICES ASSUME IInv, [Next]_vars PROVE IInv'
  OBVIOUS
<1>1. CASE WorkerStep
  BY <1>1, ReportInv, AddFinalizerInv, SetPendingInv, DefaultTeamIDInv,
     CreateInv, SetCreatingInv, LookupInv, DetailInv, SetReadyInv,
     SetStatusInv, SetDeletingInv, DeleteInv, RemoveFinalizerInv
     DEF WorkerStep
<1>2. CASE UNCHANGED vars
  <2>1. UNCHANGED <<clusters, faults, api, watch, seen, queue, worker, edits,
                    account>>
    BY <1>2 DEF vars
  <2>2. K!CacheOK(Versions)' /\ K!CopiesOK(Versions)'
    BY <2>1, IdleType, K!SameCache, K!SameCopies DEF IInv
  <2> QED
    BY <2>1, <2>2 DEF IInv, TypeOK, ApiTypeOK, WorkerOK, DeletionIsCurrent
<1> QED
  BY <1>1, <1>2, UserInv, ServiceInv, ReconcileInv, CacheInv, AccountInv,
     RestartInv DEF Next

\* The invariant holds in every state.
LEMMA InvCorrect == Spec => []IInv
  BY InitInv, StepInv, PTL DEF Spec

\* Every variable of the instance controller keeps its type.
THEOREM TypeCorrect == Spec => []TypeOK
<1>1. IInv => TypeOK
  BY DEF IInv
<1> QED
  BY <1>1, InvCorrect, PTL

-------------------------------------------------------------------------------
(* The instance controller implements ClusterLifecycle.                    *)

\* What is seen of a version.
LEMMA OutsideOf ==
    ASSUME NEW v \in Version
    PROVE  /\ Outside(v).life = v.life
           /\ Outside(v).finalizer = v.finalizer
           /\ Outside(v).phase = v.phase
           /\ Outside(v).id = v.id
  BY DEF Outside

\* What is seen of the versions that Reconcile and users make from it.
LEMMA OutsideNew ==
    ASSUME NEW v \in Version, NEW flag, NEW phase, NEW cond
    PROVE  /\ Outside([v EXCEPT !.finalizer = flag])
                  = [Outside(v) EXCEPT !.finalizer = flag]
           /\ Outside([v EXCEPT !.life = "deleting"])
                  = [Outside(v) EXCEPT !.life = "deleting"]
           /\ Outside([v EXCEPT !.phase = phase])
                  = [Outside(v) EXCEPT !.phase = phase]
           /\ Outside([v EXCEPT !.cond = cond]) = Outside(v)
<1> USE DEF Outside, Version
<1>1. Outside([v EXCEPT !.finalizer = flag])
          = [Outside(v) EXCEPT !.finalizer = flag]
  OBVIOUS
<1>2. Outside([v EXCEPT !.life = "deleting"])
          = [Outside(v) EXCEPT !.life = "deleting"]
  OBVIOUS
<1>3. Outside([v EXCEPT !.phase = phase])
          = [Outside(v) EXCEPT !.phase = phase]
  OBVIOUS
<1>4. Outside([v EXCEPT !.cond = cond]) = Outside(v)
  OBVIOUS
<1> QED
  BY <1>1, <1>2, <1>3, <1>4

\* What is seen of the version with a recorded cluster.
LEMMA OutsideStatus ==
    ASSUME NEW v \in Version, NEW id
    PROVE  Outside([v EXCEPT !.id = id])
               = [life |-> v.life, finalizer |-> v.finalizer,
                  phase |-> v.phase, id |-> id]
  BY DEF Outside, Version

\* An object that does not exist looks so.
LEMMA AbsentOutside == Outside(Absent) = Lifecycle!Absent
  BY DEF Outside, Absent, Lifecycle!Absent

\* The abstract object of name k.
LEMMA ObjectOf ==
    ASSUME NEW k \in Keys
    PROVE  [j \in Keys |-> Outside(api[j])][k] = Outside(api[k])
  OBVIOUS

\* The abstract state of cluster i.
LEMMA StateOf ==
    ASSUME NEW i \in Ids
    PROVE  [j \in Ids |-> clusters[j].state][i] = clusters[i].state
  OBVIOUS

\* A write of one object at the API server is an abstract write.
LEMMA WriteMapped ==
    ASSUME NEW k \in Keys, NEW v, api'[k] = v,
           \A j \in Keys : j # k => api'[j] = api[j],
           clusters' = clusters
    PROVE  Lifecycle!Write(k, Outside(v))
<1>1. [j \in Keys |-> Outside(api'[j])] =
        [[j \in Keys |-> Outside(api[j])] EXCEPT ![k] = Outside(v)]
  OBVIOUS
<1> QED
  BY <1>1 DEF Lifecycle!Write, Outside

\* What looks as before is not seen outside.
LEMMA NothingSeen ==
    ASSUME \A k \in Keys : Outside(api'[k]) = Outside(api[k]),
           clusters' = clusters
    PROVE  UNCHANGED Lifecycle!vars
<1>1. [k \in Keys |-> Outside(api'[k])] = [k \in Keys |-> Outside(api[k])]
  OBVIOUS
<1> QED
  BY <1>1 DEF Lifecycle!vars, Outside

\* A new version that Reconcile writes is made from the current one.
LEMMA WorkerWrites ==
    ASSUME IInv, worker.pc # "idle", NEW v, NEW next, NEW requeue,
           Write(v, next, requeue), api' # api
    PROVE  /\ worker.fresh
           /\ api[worker.key] = worker.obj /\ api'[worker.key] = v
           /\ \A j \in Keys : j # worker.key => api'[j] = api[j]
<1>1. worker.fresh /\ Commit(worker.key, v)
  BY WriteCases
<1>2. worker.key \in Keys /\ api[worker.key] = worker.obj
  BY <1>1 DEF IInv, K!CopiesOK, K!FreshIsCurrent
<1> QED
  BY <1>1, <1>2 DEF Commit, IInv, TypeOK

\* An abstract step of object k.
ObjectStep(k) ==
    \/ Lifecycle!UserCreate(k) \/ Lifecycle!UserDelete(k)
    \/ Lifecycle!AddFinalizer(k) \/ Lifecycle!SetPending(k)
    \/ Lifecycle!Request(k) \/ Lifecycle!SetCreating(k)
    \/ \E i \in Ids : Lifecycle!Record(k, i)
    \/ Lifecycle!SetDeleting(k) \/ Lifecycle!Release(k)

\* An accepted write of version v to the object the worker holds.
LEMMA WriteSeen ==
    ASSUME IInv, NEW k \in Keys, k = worker.key, worker.pc # "idle", NEW v, NEW next, NEW requeue,
           Write(v, next, requeue), api' # api
    PROVE  /\ worker.obj \in Version
           /\ Lifecycle!Write(k, Outside(v))
           /\ [j \in Keys |-> Outside(api[j])][k] = Outside(worker.obj)
<1>1. worker.key \in Keys /\ worker.obj \in Version
  BY Held
<1>2. /\ api[worker.key] = worker.obj /\ api'[worker.key] = v
      /\ \A j \in Keys : j # worker.key => api'[j] = api[j]
  BY WorkerWrites
<1>3. clusters' = clusters
  BY WriteCases
<1> QED
  BY <1>1, <1>2, <1>3, WriteMapped, ObjectOf

\* The first steps of an object's life.
LEMMA EarlyWritesRefine ==
    ASSUME IInv, NEW k \in Keys, k = worker.key, api' # api, AddFinalizer \/ SetPending \/ SetCreating
    PROVE  ObjectStep(k)
<1> DEFINE obj == worker.obj
<1>1. worker.pc # "idle"
  BY DEF AddFinalizer, SetPending, SetCreating
<1>2. CASE AddFinalizer
  <2>1. /\ k \in Keys /\ obj \in Version
        /\ Lifecycle!Write(k, Outside([obj EXCEPT !.finalizer = TRUE]))
        /\ [j \in Keys |-> Outside(api[j])][k] = Outside(obj)
    BY <1>1, <1>2, WriteSeen DEF AddFinalizer
  <2>2. obj.life = "live" /\ obj.phase = ""
    BY <1>1, <1>2, Held DEF AddFinalizer, HeldVersion
  <2>3. Outside([obj EXCEPT !.finalizer = TRUE])
          = [Outside(obj) EXCEPT !.finalizer = TRUE]
    BY <2>1, OutsideNew
  <2>4. Lifecycle!AddFinalizer(k)
    BY <2>1, <2>2, <2>3, OutsideOf DEF Lifecycle!AddFinalizer
  <2> QED
    BY <2>4 DEF ObjectStep
<1>3. CASE SetPending
  <2>1. /\ k \in Keys /\ obj \in Version
        /\ Lifecycle!Write(k, Outside([obj EXCEPT !.phase = "Pending"]))
        /\ [j \in Keys |-> Outside(api[j])][k] = Outside(obj)
    BY <1>1, <1>3, WriteSeen DEF SetPending
  <2>2. obj.life = "live" /\ obj.phase = "" /\ obj.finalizer
    BY <1>1, <1>3, Held DEF SetPending, HeldVersion
  <2>3. Outside([obj EXCEPT !.phase = "Pending"])
          = [Outside(obj) EXCEPT !.phase = "Pending"]
    BY <2>1, OutsideNew
  <2>4. Lifecycle!SetPending(k)
    BY <2>1, <2>2, <2>3, OutsideOf DEF Lifecycle!SetPending
  <2> QED
    BY <2>4 DEF ObjectStep
<1>4. CASE SetCreating
  <2>1. /\ k \in Keys /\ obj \in Version
        /\ Lifecycle!Write(k, Outside([obj EXCEPT !.phase = "Creating"]))
        /\ [j \in Keys |-> Outside(api[j])][k] = Outside(obj)
    BY <1>1, <1>4, WriteSeen DEF SetCreating
  <2>2. obj.life = "live" /\ obj.phase = "Pending"
    BY <1>1, <1>4, Held DEF SetCreating, HeldVersion
  <2>3. Outside([obj EXCEPT !.phase = "Creating"])
          = [Outside(obj) EXCEPT !.phase = "Creating"]
    BY <2>1, OutsideNew
  <2>4. Lifecycle!SetCreating(k)
    BY <2>1, <2>2, <2>3, OutsideOf DEF Lifecycle!SetCreating
  <2> QED
    BY <2>4 DEF ObjectStep
<1> QED
  BY <1>2, <1>3, <1>4

\* Recording the cluster: both writes for a ready cluster, of which the second
\* changes nothing that is seen, and the one for a cluster not ready yet.
LEMMA RecordsRefine ==
    ASSUME IInv, NEW k \in Keys, k = worker.key, api' # api, SetReady \/ SetStatus
    PROVE  UNCHANGED Lifecycle!vars \/ ObjectStep(k)
<1> DEFINE obj == worker.obj
           i == worker.id
<1>1. worker.pc # "idle"
  BY DEF SetReady, SetStatus
<1>2. /\ obj.life = "live" /\ obj.finalizer = TRUE
      /\ obj.phase \in {"Creating", "Ready"}
      /\ SetReady => obj.phase = "Creating"
      /\ obj.phase = "Ready" => obj.id = i
      /\ i \in Ids /\ obj.id \in {NoId, i}
      /\ SetReady => clusters[i].state \in {"ready", "deleted"}
  <2>1. /\ worker \in WorkerType /\ VersionOK(obj) /\ obj \in Version
        /\ Fits(worker, clusters) /\ HeldVersion(worker.pc, obj)
    BY <1>1, Held
  <2>2. worker.pc = "setReady" \/ (~SetReady /\ worker.pc = "setStatus")
    BY DEF SetReady, SetStatus
  <2>3. obj.life = "live" /\ obj.phase \in {"Creating", "Ready"}
        /\ (worker.pc = "setReady" => obj.phase = "Creating")
    BY <2>1, <2>2 DEF HeldVersion
  <2>4. obj.finalizer = TRUE
    BY <2>1, <2>3 DEF VersionOK, Version
  <2>5. i # NoId /\ (obj.id # NoId => i = obj.id)
    BY <2>1, <2>2 DEF Fits
  <2>6. obj.phase = "Ready" => obj.id # NoId
    BY <2>1 DEF VersionOK
  <2>7. worker.pc = "setReady" => clusters[i].state \in {"ready", "deleted"}
    BY <2>1 DEF Fits
  <2> QED
    BY <2>1, <2>2, <2>3, <2>4, <2>5, <2>6, <2>7 DEF WorkerType, SetReady
<1>3. CASE SetReady
  <2> DEFINE v == [obj EXCEPT !.id = i, !.phase = "Ready", !.cond = "Ready"]
  <2>1. /\ k \in Keys /\ obj \in Version
        /\ Lifecycle!Write(k, Outside(v))
        /\ [j \in Keys |-> Outside(api[j])][k] = Outside(obj)
    BY <1>1, <1>3, WriteSeen DEF SetReady
  <2>2. Outside(v) = [life |-> "live", finalizer |-> TRUE,
                      phase |-> "Ready", id |-> i]
    <3>1. obj.life = "live" /\ obj.finalizer = TRUE
      BY <1>2
    <3>2. Outside(v) = [life |-> obj.life, finalizer |-> obj.finalizer,
                        phase |-> "Ready", id |-> i]
      BY <2>1 DEF Outside, Version
    <3> HIDE DEF v
    <3> QED
      BY <3>1, <3>2
  <2> HIDE DEF v
  <2>3. [j \in Ids |-> clusters[j].state][i] \in {"ready", "deleted"}
    BY <1>2, <1>3, StateOf
  <2>4. Lifecycle!Record(k, i)
    BY <1>2, <1>3, <2>1, <2>2, <2>3, OutsideOf DEF Lifecycle!Record
  <2> QED
    BY <1>2, <2>4 DEF ObjectStep
<1>4. CASE SetStatus
  <2> DEFINE v == [obj EXCEPT !.id = i]
  <2>1. /\ k \in Keys /\ obj \in Version
        /\ Lifecycle!Write(k, Outside(v))
        /\ [j \in Keys |-> Outside(api[j])][k] = Outside(obj)
    BY <1>1, <1>4, WriteSeen DEF SetStatus
  <2>2. Outside(v) = [life |-> "live", finalizer |-> TRUE,
                      phase |-> obj.phase, id |-> i]
    <3>1. obj.life = "live" /\ obj.finalizer = TRUE
      BY <1>2
    <3>2. Outside(v) = [life |-> obj.life, finalizer |-> obj.finalizer,
                        phase |-> obj.phase, id |-> i]
      BY <2>1, OutsideStatus
    <3> HIDE DEF v
    <3> QED
      BY <3>1, <3>2
  <2>3. CASE obj.phase = "Creating"
    <3> HIDE DEF v
    <3>1. Lifecycle!Record(k, i)
      BY <1>2, <2>1, <2>2, <2>3, OutsideOf DEF Lifecycle!Record
    <3> QED
      BY <1>2, <3>1 DEF ObjectStep
  <2>4. CASE obj.phase = "Ready"
    <3>1. v = obj
      BY <1>2, <2>1, <2>4 DEF Version
    <3>2. /\ api[k] = obj /\ api'[k] = v
          /\ \A j \in Keys : j # k => api'[j] = api[j]
          /\ clusters' = clusters
      BY <1>1, <1>4, WorkerWrites, WriteCases DEF SetStatus
    <3> HIDE DEF v
    <3> QED
      BY <2>1, <3>1, <3>2, NothingSeen
  <2> QED
    BY <1>2, <2>3, <2>4
<1> QED
  BY <1>3, <1>4

\* The writes for an object that is being deleted.
LEMMA LateWritesRefine ==
    ASSUME IInv, NEW k \in Keys, k = worker.key, api' # api, SetDeleting \/ RemoveFinalizer
    PROVE  ObjectStep(k)
<1> DEFINE obj == worker.obj
<1>1. worker.pc # "idle"
  BY DEF SetDeleting, RemoveFinalizer
<1>2. CASE SetDeleting
  <2>1. /\ k \in Keys /\ obj \in Version
        /\ Lifecycle!Write(k, Outside([obj EXCEPT !.phase = "Deleting"]))
        /\ [j \in Keys |-> Outside(api[j])][k] = Outside(obj)
    BY <1>1, <1>2, WriteSeen DEF SetDeleting
  <2>2. obj.life = "deleting" /\ obj.id # NoId
    BY <1>1, <1>2, Held DEF SetDeleting, HeldVersion, Fits
  <2>3. Outside([obj EXCEPT !.phase = "Deleting"])
          = [Outside(obj) EXCEPT !.phase = "Deleting"]
    BY <2>1, OutsideNew
  <2>4. Lifecycle!SetDeleting(k)
    BY <2>1, <2>2, <2>3, OutsideOf DEF Lifecycle!SetDeleting
  <2> QED
    BY <2>4 DEF ObjectStep
<1>3. CASE RemoveFinalizer
  <2>1. /\ k \in Keys /\ obj \in Version
        /\ Lifecycle!Write(k, Outside(Absent))
        /\ [j \in Keys |-> Outside(api[j])][k] = Outside(obj)
    BY <1>1, <1>3, WriteSeen DEF RemoveFinalizer
  <2>2. /\ obj.life = "deleting" /\ obj.id \in Ids \cup {NoId}
        /\ obj.id # NoId => clusters[obj.id].state = "deleted"
    BY <1>1, <1>3, <2>1, Held
       DEF RemoveFinalizer, HeldVersion, Fits, Version
  <2>3. obj.id # NoId => [j \in Ids |-> clusters[j].state][obj.id] = "deleted"
    BY <2>2, StateOf
  <2>4. Lifecycle!Release(k)
    BY <2>1, <2>2, <2>3, OutsideOf, AbsentOutside DEF Lifecycle!Release
  <2> QED
    BY <2>4 DEF ObjectStep
<1> QED
  BY <1>2, <1>3

\* A condition is not part of what is seen.
LEMMA ReportRefines ==
    ASSUME IInv, Report
    PROVE  UNCHANGED Lifecycle!vars
<1> DEFINE v == [worker.obj EXCEPT !.cond = worker.cond]
<1>1. worker.pc = "report"
  BY DEF Report
<1>2. CASE api' = api /\ clusters' = clusters
  BY <1>2, NothingSeen
<1>3. ASSUME Write(v, IdleWorker, {worker.key}), api' # api
      PROVE  UNCHANGED Lifecycle!vars
  <2>1. /\ worker.key \in Keys /\ worker.obj \in Version
    BY <1>1, Held
  <2>2. /\ api[worker.key] = worker.obj /\ api'[worker.key] = v
        /\ \A j \in Keys : j # worker.key => api'[j] = api[j]
        /\ clusters' = clusters
    BY <1>1, <1>3, WorkerWrites, WriteCases
  <2>3. Outside(v) = Outside(worker.obj)
    BY <2>1, OutsideNew
  <2> HIDE DEF v
  <2> QED
    BY <2>1, <2>2, <2>3, NothingSeen
<1>4. \/ api' = api /\ clusters' = clusters
      \/ Write(v, IdleWorker, {worker.key})
  BY DEF Report
<1>5. Write(v, IdleWorker, {worker.key}) => clusters' = clusters
  BY WriteCases
<1> HIDE DEF v
<1> QED
  BY <1>2, <1>3, <1>4, <1>5

\* A new cluster is an abstract one.
LEMMA BuildRefines ==
    ASSUME TypeOK, NEW name, NEW team, NEW o, Build(name, team, o), api' = api
    PROVE  \E i \in Ids : Lifecycle!Build(i, o)
<1> DEFINE new == [state |-> "creating", name |-> name, team |-> team,
                   owner |-> o]
<1>1. PICK i \in Ids : /\ clusters[i].state = "none"
                       /\ clusters' = [clusters EXCEPT ![i] = new]
  BY DEF Build
<1>2. new.state = "creating" /\ new.owner = o
  OBVIOUS
<1> HIDE DEF new
<1>3. \A j \in Ids : clusters'[j] = IF j = i THEN new ELSE clusters[j]
  BY <1>1 DEF TypeOK, ApiTypeOK
<1>4. [j \in Ids |-> clusters'[j].state] =
        [[j \in Ids |-> clusters[j].state] EXCEPT ![i] = "creating"]
  BY <1>2, <1>3
<1>5. [j \in Ids |-> clusters'[j].owner] =
        [[j \in Ids |-> clusters[j].owner] EXCEPT ![i] = o]
  BY <1>2, <1>3
<1>6. [j \in Ids |-> clusters[j].state][i] = "none"
  BY <1>1, StateOf
<1> QED
  BY <1>4, <1>5, <1>6 DEF Lifecycle!Build, Outside

\* Any other change of a cluster is that of its state.
LEMMA ChangeRefines ==
    ASSUME TypeOK, NEW i \in Ids, NEW to, NEW from, clusters[i].state \in from,
           clusters' = [clusters EXCEPT ![i].state = to], api' = api
    PROVE  Lifecycle!Change(i, from, to)
<1>1. clusters[i] \in ClusterRecord
  BY DEF TypeOK, ApiTypeOK
<1>2. \A j \in Ids : /\ clusters'[j].state = IF j = i THEN to ELSE clusters[j].state
                     /\ clusters'[j].owner = clusters[j].owner
  BY <1>1 DEF TypeOK, ApiTypeOK, ClusterRecord
<1>3. [j \in Ids |-> clusters'[j].state] =
        [[j \in Ids |-> clusters[j].state] EXCEPT ![i] = to]
  BY <1>2
<1>4. [j \in Ids |-> clusters'[j].owner] = [j \in Ids |-> clusters[j].owner]
  BY <1>2
<1>5. [j \in Ids |-> clusters[j].state][i] \in from
  BY StateOf
<1> QED
  BY <1>3, <1>4, <1>5 DEF Lifecycle!Change, Outside

\* A create request that reaches the service is made for an object that has
\* its finalizer, however old the version held.
LEMMA CreateRefines ==
    ASSUME IInv, NEW k \in Keys, k = worker.key, Create
    PROVE  UNCHANGED Lifecycle!vars \/ ObjectStep(k)
<1>1. worker.pc = "create" /\ api' = api
  BY DEF Create, Answered
<1>2. k \in Keys /\ worker.obj.life = "live" /\ worker.obj.finalizer
  BY <1>1, Held DEF HeldVersion, VersionOK
<1>3. api[k].finalizer
  <2>1. worker.obj \in K!Copies(k)
    BY <1>2 DEF K!Copies
  <2> QED
    BY <1>2, <2>1 DEF IInv, K!CopiesOK, K!FinalizerKept
<1>4. CASE UNCHANGED clusters
  BY <1>1, <1>4, NothingSeen
<1>5. ASSUME NEW name, NEW team, Build(name, team, k)
      PROVE  ObjectStep(k)
  <2>1. TypeOK /\ api' = api
    BY <1>1 DEF IInv
  <2>2. \E i \in Ids : Lifecycle!Build(i, k)
    BY <1>5, <2>1, BuildRefines
  <2>3. [j \in Keys |-> Outside(api[j])][k].finalizer
    BY <1>2, <1>3, ObjectOf DEF Outside
  <2>4. Lifecycle!Request(k)
    BY <2>2, <2>3 DEF Lifecycle!Request
  <2> QED
    BY <2>4 DEF ObjectStep
<1> QED
  BY <1>4, <1>5 DEF Create, CreateCluster

\* DELETE, and what happens at the service without the operator.
LEMMA ServiceRefines ==
    ASSUME IInv, Delete \/ ServiceStep
    PROVE  UNCHANGED Lifecycle!vars \/ Lifecycle!ServiceStep
<1>1. api' = api
  BY DEF Delete, Answered, ServiceStep
<1>2. ASSUME NEW i \in Ids, NEW to, NEW from,
             \/ from = {"creating"} /\ to = "ready"
             \/ from = {"creating", "ready"} /\ to = "deleted",
             clusters[i].state \in from,
             clusters' = [clusters EXCEPT ![i].state = to]
      PROVE  Lifecycle!ServiceStep
  <2>1. Lifecycle!Change(i, from, to)
    BY <1>1, <1>2, ChangeRefines DEF IInv
  <2> QED
    BY <1>2, <2>1 DEF Lifecycle!ServiceStep
<1>3. CASE Delete
  <2>1. CASE UNCHANGED clusters
    BY <1>1, <2>1, NothingSeen
  <2>2. CASE /\ Exists(worker.id)
             /\ clusters' = [clusters EXCEPT ![worker.id].state = "deleted"]
    <3> DEFINE id == worker.id
    <3>1. id \in Ids /\ clusters[id].state \in {"creating", "ready"}
      BY <2>2 DEF Exists
    <3> QED
      BY <1>2, <2>2, <3>1
  <2> QED
    BY <1>3, <2>1, <2>2 DEF Delete, DeleteCluster
<1>4. CASE \E id \in Ids : Provision(id)
  BY <1>2, <1>4 DEF Provision
<1>5. CASE \E name \in Names, team \in Teams : ConsoleCreate(name, team)
  BY <1>1, <1>5, BuildRefines DEF ConsoleCreate, IInv, Lifecycle!ServiceStep
<1> QED
  BY <1>3, <1>4, <1>5 DEF ServiceStep

\* What users write is an abstract step, or changes nothing that is seen.
LEMMA UserRefines ==
    ASSUME IInv, UserStep
    PROVE  UNCHANGED Lifecycle!vars \/ \E k \in Keys : ObjectStep(k)
<1>1. PICK k \in Keys :
        \/ UserDelete(k)
        \/ Touch(k)
        \/ \E spec \in Specs : UserCreate(k, spec)
  BY DEF UserStep
<1>2. clusters' = clusters
  BY <1>1 DEF UserDelete, Edit, Touch, UserCreate
<1>3. /\ api[k] \in Version
      /\ [j \in Keys |-> Outside(api[j])][k] = Outside(api[k])
  BY ObjectOf DEF IInv, TypeOK
<1>4. ASSUME NEW v, ForeignCommit(k, v)
      PROVE  /\ Lifecycle!Write(k, Outside(v))
             /\ api' = [api EXCEPT ![k] = v]
  <2>1. api' = [api EXCEPT ![k] = v]
    BY <1>4 DEF ForeignCommit, Commit
  <2>2. api'[k] = v /\ \A j \in Keys : j # k => api'[j] = api[j]
    BY <2>1 DEF IInv, TypeOK
  <2> QED
    BY <1>2, <2>1, <2>2, WriteMapped
<1>5. CASE UserDelete(k)
  <2> DEFINE v == IF api[k].finalizer THEN [api[k] EXCEPT !.life = "deleting"]
                                      ELSE Absent
  <2>1. api[k].life = "live" /\ Lifecycle!Write(k, Outside(v))
    BY <1>4, <1>5 DEF UserDelete, ForeignDelete
  <2>2. Outside(v) = IF Outside(api[k]).finalizer
                     THEN [Outside(api[k]) EXCEPT !.life = "deleting"]
                     ELSE Lifecycle!Absent
    BY <1>3, OutsideOf, OutsideNew, AbsentOutside
  <2> HIDE DEF v
  <2>3. Lifecycle!UserDelete(k)
    BY <1>3, <2>1, <2>2, OutsideOf DEF Lifecycle!UserDelete
  <2> QED
    BY <2>3 DEF ObjectStep
<1>6. CASE Touch(k)
  <2>1. api' = [api EXCEPT ![k] = api[k]]
    BY <1>4, <1>6 DEF Touch
  <2>2. api' = api
    BY <2>1 DEF IInv, TypeOK
  <2> QED
    BY <1>2, <2>2, NothingSeen
<1>7. ASSUME NEW spec \in Specs, UserCreate(k, spec) PROVE ObjectStep(k)
  <2> DEFINE v == [Absent EXCEPT !.life = "live", !.spec = spec]
  <2>1. api[k].life = "absent" /\ Lifecycle!Write(k, Outside(v))
    BY <1>4, <1>7 DEF UserCreate
  <2>2. Outside(v) = Lifecycle!New
    <3>1. /\ v.life = "live" /\ v.finalizer = FALSE /\ v.phase = ""
          /\ v.id = NoId
      BY DEF Absent
    <3> HIDE DEF v
    <3> QED
      BY <3>1 DEF Outside, Lifecycle!New
  <2>3. Lifecycle!UserCreate(k)
    BY <1>3, <2>1, <2>2, OutsideOf DEF Lifecycle!UserCreate
  <2> QED
    BY <2>3 DEF ObjectStep
<1> QED
  BY <1>1, <1>5, <1>6, <1>7

\* Every step of the system is an abstract step or changes nothing outside.
LEMMA StepRefines ==
    ASSUME IInv, [Next]_vars
    PROVE  [Lifecycle!Next]_(Lifecycle!vars)
<1>1. ASSUME \E k \in Keys : ObjectStep(k) PROVE Lifecycle!Next
  BY <1>1 DEF ObjectStep, Lifecycle!Next
<1>2. CASE \/ AddFinalizer \/ SetPending \/ SetCreating \/ SetReady
           \/ SetStatus \/ SetDeleting \/ RemoveFinalizer
  <2>1. worker.pc # "idle" /\ clusters' = clusters
    BY <1>2, WriteCases DEF AddFinalizer, SetPending, SetCreating, SetReady,
                            SetStatus, SetDeleting, RemoveFinalizer
  <2>2. PICK k \in Keys : k = worker.key
    BY <2>1, Held
  <2>3. CASE api' = api
    BY <2>1, <2>3, NothingSeen
  <2>4. CASE api' # api
    <3>1. UNCHANGED Lifecycle!vars \/ ObjectStep(k)
      BY <1>2, <2>2, <2>4, EarlyWritesRefine, RecordsRefine, LateWritesRefine
    <3> QED
      BY <1>1, <2>2, <3>1
  <2> QED
    BY <2>3, <2>4
<1>3. CASE Create
  <2>1. PICK k \in Keys : k = worker.key
    BY <1>3, Held DEF Create
  <2> QED
    BY <1>1, <1>3, <2>1, CreateRefines
<1>4. CASE Delete \/ ServiceStep
  BY <1>4, ServiceRefines DEF Lifecycle!Next
<1>5. CASE UserStep
  BY <1>1, <1>5, UserRefines
<1>6. CASE \/ DefaultTeamID \/ Lookup \/ Detail \/ CacheStep
           \/ AccountLost \/ AccountRestored \/ OperatorRestart
           \/ UNCHANGED vars \/ \E k \in Keys : Reconcile(k)
  <2>1. api' = api /\ clusters' = clusters
    BY <1>6 DEF DefaultTeamID, Lookup, Detail, Answered, Read, ReadCluster,
                CacheStep, Resync, Deliver, AccountLost, AccountRestored,
                OperatorRestart, Restart, vars, Reconcile, Begin, Take
  <2> QED
    BY <2>1, NothingSeen
<1>7. CASE Report
  BY <1>7, ReportRefines
<1> QED
  BY <1>2, <1>3, <1>4, <1>5, <1>6, <1>7 DEF Next, WorkerStep

\* At first there is no object and no cluster.
LEMMA InitRefines == Init => Lifecycle!Init
<1> SUFFICES ASSUME Init PROVE Lifecycle!Init
  OBVIOUS
<1>1. [k \in Keys |-> Outside(api[k])] = [k \in Keys |-> Lifecycle!Absent]
  BY AbsentOutside DEF Init
<1>2. \A i \in Ids : clusters[i].state = "none" /\ clusters[i].owner = Nobody
  BY DEF Init, ApiInit, NoCluster
<1>3. /\ [i \in Ids |-> clusters[i].state] = [i \in Ids |-> "none"]
      /\ [i \in Ids |-> clusters[i].owner] = [i \in Ids |-> Nobody]
  BY <1>2
<1> QED
  BY <1>1, <1>3 DEF Lifecycle!Init, Outside

\* The instance controller, with an inventory that comes and goes, a lagging
\* cache, lost answers, failed writes and restarts, does to the objects and
\* their clusters only what ClusterLifecycle allows.
THEOREM LifecycleImplemented == Spec => ImplementsLifecycle
<1>1. IInv /\ [Next]_vars => [Lifecycle!Next]_(Lifecycle!vars)
  BY StepRefines
<1> QED
  BY <1>1, InitInv, StepInv, InitRefines, PTL
     DEF Spec, ImplementsLifecycle, Lifecycle!Spec

-------------------------------------------------------------------------------
(* No recorded cluster is left behind.                                     *)

\* The release of object k, should it go away in this step.
Released(k) ==
    api[k].id # NoId /\ api'[k].life = "absent" =>
        clusters'[api[k].id].state = "deleted"

\* A version that exists at the API server is not absent if it records an ID.
LEMMA RecordedExists ==
    ASSUME IInv, NEW k \in Keys, api[k].id # NoId
    PROVE  /\ api[k].life # "absent" /\ api[k].finalizer
           /\ VersionOK(api[k])
<1>1. VersionOK(api[k]) /\ api[k] \in Version
  BY DEF IInv, K!CacheOK, Versions
<1>2. api[k].life # "absent"
  BY <1>1, AbsentType DEF VersionOK
<1>3. api[k].finalizer
  BY <1>1, <1>2 DEF VersionOK, Version
<1> QED
  BY <1>1, <1>2, <1>3

\* A write releases an object only when it removes the finalizer, and then the
\* service has deleted the cluster.
LEMMA WriteReleases ==
    ASSUME IInv, worker.pc # "idle", NEW v, NEW next, NEW requeue,
           Write(v, next, requeue),
           v.life = "absent" => worker.pc = "unfinalize", NEW k \in Keys
    PROVE  Released(k)
<1> SUFFICES ASSUME api[k].id # NoId, api'[k].life = "absent"
             PROVE  clusters'[api[k].id].state = "deleted"
  BY DEF Released
<1>1. api[k].life # "absent"
  BY RecordedExists
<1>2. api' # api
  BY <1>1
<1>3. /\ api[worker.key] = worker.obj /\ api'[worker.key] = v
      /\ \A j \in Keys : j # worker.key => api'[j] = api[j]
  BY <1>2, WorkerWrites
<1>4. k = worker.key /\ worker.pc = "unfinalize"
  BY <1>1, <1>3
<1>5. clusters[worker.obj.id].state = "deleted"
  BY <1>3, <1>4, Held DEF Fits
<1> QED
  BY <1>3, <1>4, <1>5, WriteCases

\* Whatever Reconcile does releases only what has been deleted.
LEMMA WorkerReleases ==
    ASSUME IInv, WorkerStep, NEW k \in Keys
    PROVE  Released(k)
<1>1. CASE api' = api
  BY <1>1, RecordedExists DEF Released
<1>2. CASE api' # api
  <2>1. \/ Report \/ AddFinalizer \/ SetPending \/ SetCreating \/ SetReady
        \/ SetStatus \/ SetDeleting \/ RemoveFinalizer
    BY <1>2 DEF WorkerStep, DefaultTeamID, Create, Lookup, Detail, Delete,
                Answered
  <2>2. worker.pc # "idle"
    BY <2>1 DEF Report, AddFinalizer, SetPending, SetCreating, SetReady,
                SetStatus, SetDeleting, RemoveFinalizer
  <2>3. worker.obj \in Version /\ worker.obj.life # "absent"
    <3>1. worker.obj \in Version /\ HeldVersion(worker.pc, worker.obj)
          /\ worker.pc \in Calls
      BY <2>2, Held DEF WorkerType
    <3> QED
      BY <3>1 DEF HeldVersion, Calls
  <2>4. \A flag, phase, id, cond :
          /\ [worker.obj EXCEPT !.cond = cond].life # "absent"
          /\ [worker.obj EXCEPT !.finalizer = flag].life # "absent"
          /\ [worker.obj EXCEPT !.phase = phase].life # "absent"
          /\ [worker.obj EXCEPT !.id = id].life # "absent"
    BY <2>3 DEF Version
  <2>5. PICK v, next, requeue :
          /\ Write(v, next, requeue)
          /\ v.life = "absent" => worker.pc = "unfinalize"
    <3>1. CASE Report
      <4> DEFINE v == [worker.obj EXCEPT !.cond = worker.cond]
      <4>1. Write(v, IdleWorker, {worker.key})
        BY <1>2, <3>1 DEF Report
      <4>2. v.life # "absent"
        BY <2>4
      <4> HIDE DEF v
      <4> QED
        BY <4>1, <4>2
    <3>2. CASE AddFinalizer
      BY <2>4, <3>2 DEF AddFinalizer
    <3>3. CASE SetPending
      BY <2>4, <3>3 DEF SetPending
    <3>4. CASE SetCreating
      BY <2>4, <3>4 DEF SetCreating
    <3>5. CASE SetReady
      <4> DEFINE v == [worker.obj EXCEPT !.id = worker.id, !.phase = "Ready",
                                         !.cond = "Ready"]
                 next == [worker EXCEPT !.pc = "setStatus", !.obj = v]
      <4>1. Write(v, next, {})
        BY <3>5 DEF SetReady
      <4>2. v.life # "absent"
        BY <2>3 DEF Version
      <4> HIDE DEF v, next
      <4> QED
        BY <4>1, <4>2
    <3>6. CASE SetStatus
      BY <2>4, <3>6 DEF SetStatus
    <3>7. CASE SetDeleting
      BY <2>4, <3>7 DEF SetDeleting
    <3>8. CASE RemoveFinalizer
      BY <3>8 DEF RemoveFinalizer
    <3> QED
      BY <2>1, <3>1, <3>2, <3>3, <3>4, <3>5, <3>6, <3>7, <3>8
  <2> QED
    BY <2>2, <2>5, WriteReleases
<1> QED
  BY <1>1, <1>2

\* Every step releases only what has been deleted.
LEMMA StepReleases ==
    ASSUME IInv, [Next]_vars, NEW k \in Keys
    PROVE  Released(k)
<1>1. CASE api' = api
  BY <1>1, RecordedExists DEF Released
<1>2. CASE UserStep
  <2> SUFFICES ASSUME api[k].id # NoId, api'[k].life = "absent"
               PROVE  FALSE
    BY DEF Released
  <2>1. api[k].life # "absent" /\ api[k].finalizer /\ api[k] \in Version
    BY RecordedExists DEF IInv, TypeOK
  <2>2. ASSUME NEW j \in Keys, NEW v, ForeignCommit(j, v)
        PROVE  j = k /\ v.life = "absent"
    BY <2>1, <2>2 DEF ForeignCommit, Commit, IInv, TypeOK
  <2>3. PICK j \in Keys : \/ UserDelete(j)
                          \/ Touch(j)
                          \/ \E spec \in Specs : UserCreate(j, spec)
    BY <1>2 DEF UserStep
  <2>4. CASE UserDelete(j)
    <3>1. ForeignCommit(j, IF api[j].finalizer
                           THEN [api[j] EXCEPT !.life = "deleting"] ELSE Absent)
      BY <2>4 DEF UserDelete, ForeignDelete
    <3>2. j = k /\ [api[k] EXCEPT !.life = "deleting"].life = "absent"
      BY <2>1, <2>2, <3>1
    <3> QED
      BY <2>1, <3>2 DEF Version
  <2>5. CASE Touch(j)
    BY <2>1, <2>2, <2>5 DEF Touch
  <2>6. CASE \E spec \in Specs : UserCreate(j, spec)
    BY <2>1, <2>2, <2>6 DEF UserCreate
  <2> QED
    BY <2>3, <2>4, <2>5, <2>6
<1>3. CASE WorkerStep
  BY <1>3, WorkerReleases
<1>4. CASE \/ ServiceStep \/ CacheStep \/ AccountLost \/ AccountRestored
           \/ OperatorRestart \/ UNCHANGED vars \/ \E j \in Keys : Reconcile(j)
  <2>1. api' = api
    BY <1>4 DEF ServiceStep, CacheStep, Resync, Deliver, AccountLost,
                AccountRestored, OperatorRestart, Restart, vars, Reconcile,
                Begin, Take
  <2> QED
    BY <1>1, <2>1
<1> QED
  BY <1>2, <1>3, <1>4 DEF Next

\* An instance that records a cluster goes away only after that cluster has
\* been deleted.
THEOREM ClusterReleased == Spec => RecordedIdReleased
<1>1. IInv /\ [Next]_vars =>
        [\A k \in Keys : api[k].id # NoId /\ api'[k].life = "absent" =>
            clusters'[api[k].id].state = "deleted"]_vars
  BY StepReleases DEF Released
<1> QED
  BY <1>1, InitInv, StepInv, PTL DEF Spec, RecordedIdReleased

-------------------------------------------------------------------------------
(* Whose clusters the objects record.  Clusters are found by their names, so *)
(* that this holds only where a name tells the team, as far as objects and   *)
(* people use names, and where every answer to a request is one that the     *)
(* client knows.  Where it does not, a run of BridgeCluster shows what the   *)
(* two controllers do.                                                       *)

NamesTellTeams ==
    /\ \A s, t \in Specs : s.name = t.name => Team(s) = Team(t)
    /\ "console" \in Faults => Teams = {DefaultTeam}

AnswersKnown == "odd" \notin Faults

\* The service keeps names apart within a team.
Unique ==
    \A i, j \in Ids :
        (/\ Exists(i) /\ Exists(j)
         /\ clusters[i].name = clusters[j].name
         /\ clusters[i].team = clusters[j].team) => i = j

\* The name of an existing cluster tells its team.
Telling ==
    \A i \in Ids, s \in Specs :
        Exists(i) /\ clusters[i].name = s.name => clusters[i].team = Team(s)

Recorded ==
    \A k \in Keys : api[k].id # NoId => /\ clusters[api[k].id].owner = k
                                        /\ clusters[api[k].id].state # "none"

Provisioned ==
    \A k \in Keys : api[k].cond = "Ready" =>
        clusters[api[k].id].state \in {"ready", "deleted"}

\* There is a cluster for object k with the given spec.
Requested(k, spec) ==
    \E i \in Ids : /\ Exists(i)
                   /\ clusters[i].owner = k
                   /\ clusters[i].name = spec.name
                   /\ clusters[i].team = Team(spec)

Unrecorded(v) == v.life = "live" /\ v.phase = "Creating" /\ v.id = NoId

CreatedOwn ==
    \A k \in Keys : Unrecorded(api[k]) => Requested(k, api[k].spec)

WorkerOwns ==
    /\ worker.pc = "setCreating" => Requested(worker.key, worker.obj.spec)
    /\ worker.fresh /\ worker.pc \in {"detail", "setReady", "setStatus"} =>
           /\ clusters[worker.id].owner = worker.key
           /\ clusters[worker.id].state # "none"

OInv ==
    /\ Unique /\ Telling
    /\ Recorded /\ Provisioned /\ CreatedOwn
    /\ WorkerOwns

\* Clusters keep what they were created with, and do not go back.
Forward(i) ==
    clusters[i].state # "none" =>
        /\ clusters'[i].owner = clusters[i].owner
        /\ clusters'[i].name = clusters[i].name
        /\ clusters'[i].team = clusters[i].team
        /\ clusters'[i].state # "none"
        /\ clusters[i].state \in {"ready", "deleted"} =>
               clusters'[i].state \in {"ready", "deleted"}

\* The operator deletes cluster i for its object.
DeletedFor(i) ==
    \E k \in Keys : /\ clusters[i].owner = k
                    /\ api[k].life = "deleting" /\ api[k].phase = "Deleting"
                    /\ worker.pc = "delete"

\* What one step may do to the clusters.
CloudStep ==
    /\ \A i \in Ids : Forward(i)
    /\ \A i \in Ids : Exists(i) => DeletedFor(i) \/ Exists(i)'

\* A cluster is built under a new identifier.
LEMMA BuildStep ==
    ASSUME TypeOK, NEW name, NEW team, NEW owner, Build(name, team, owner)
    PROVE  \E i \in Ids :
              /\ clusters[i].state = "none"
              /\ clusters'[i].state = "creating" /\ clusters'[i].name = name
              /\ clusters'[i].team = team /\ clusters'[i].owner = owner
              /\ \A j \in Ids : j # i => clusters'[j] = clusters[j]
<1> DEFINE new == [state |-> "creating", name |-> name, team |-> team,
                   owner |-> owner]
<1>1. PICK i \in Ids : /\ clusters[i].state = "none"
                       /\ clusters' = [clusters EXCEPT ![i] = new]
  BY DEF Build
<1>2. /\ new.state = "creating" /\ new.name = name
      /\ new.team = team /\ new.owner = owner
  OBVIOUS
<1> HIDE DEF new
<1> QED
  BY <1>1, <1>2 DEF TypeOK, ApiTypeOK

\* A new cluster keeps names apart if its name was not taken, and keeps telling
\* if its team is the one its name tells.
LEMMA BuildOwn ==
    ASSUME TypeOK, Unique, Telling, NEW name, NEW team, NEW owner,
           Build(name, team, owner), Named(name, team) = {},
           \A s \in Specs : name = s.name => team = Team(s)
    PROVE  Unique' /\ Telling' /\ CloudStep
<1>1. PICK i \in Ids :
          /\ clusters[i].state = "none"
          /\ clusters'[i].state = "creating" /\ clusters'[i].name = name
          /\ clusters'[i].team = team /\ clusters'[i].owner = owner
          /\ \A j \in Ids : j # i => clusters'[j] = clusters[j]
  BY BuildStep
<1>2. \A j \in Ids : Exists(j) =>
          j # i /\ ~(clusters[j].name = name /\ clusters[j].team = team)
  BY <1>1 DEF Exists, Named
<1>3. \A j \in Ids : Exists(j)' <=> Exists(j) \/ j = i
  BY <1>1 DEF Exists
<1>4. Unique'
  BY <1>1, <1>2, <1>3 DEF Unique
<1>5. Telling'
  <2> SUFFICES ASSUME NEW j \in Ids, NEW s \in Specs, Exists(j)',
                      clusters'[j].name = s.name
               PROVE  clusters'[j].team = Team(s)
    BY DEF Telling, Team
  <2>1. CASE j = i
    BY <1>1, <2>1
  <2>2. CASE j # i
    BY <1>1, <1>3, <2>2 DEF Telling
  <2> QED
    BY <2>1, <2>2
<1>6. CloudStep
  BY <1>1, <1>3 DEF CloudStep, Forward
<1> QED
  BY <1>4, <1>5, <1>6

\* A cluster that changes its state only.
LEMMA ChangeOwn ==
    ASSUME Unique, Telling, NEW i,
           \A j \in Ids : j # i => clusters'[j] = clusters[j],
           i \in Ids => /\ Exists(i)
                        /\ clusters'[i].owner = clusters[i].owner
                        /\ clusters'[i].name = clusters[i].name
                        /\ clusters'[i].team = clusters[i].team
                        /\ \/ clusters'[i].state = "ready"
                           \/ clusters'[i].state = "deleted" /\ DeletedFor(i)
    PROVE  Unique' /\ Telling' /\ CloudStep
<1>1. \A j \in Ids : Exists(j)' => Exists(j)
  BY DEF Exists
<1>2. \A j \in Ids : /\ clusters'[j].owner = clusters[j].owner
                     /\ clusters'[j].name = clusters[j].name
                     /\ clusters'[j].team = clusters[j].team
  OBVIOUS
<1>3. Unique'
  BY <1>1, <1>2 DEF Unique
<1>4. Telling'
  <2> SUFFICES ASSUME NEW j \in Ids, NEW s \in Specs, Exists(j)',
                      clusters'[j].name = s.name
               PROVE  clusters'[j].team = Team(s)
    BY DEF Telling, Team
  <2> QED
    BY <1>1, <1>2 DEF Telling
<1>5. ASSUME NEW j \in Ids
      PROVE  Forward(j) /\ (Exists(j) => DeletedFor(j) \/ Exists(j)')
  <2>1. CASE j = i
    BY <2>1 DEF Forward, Exists
  <2>2. CASE j # i
    BY <2>2 DEF Forward, Exists
  <2> QED
    BY <2>1, <2>2
<1> QED
  BY <1>3, <1>4, <1>5 DEF CloudStep

\* Steps that leave the service alone.
LEMMA SameOwn ==
    ASSUME Unique, Telling, clusters' = clusters
    PROVE  Unique' /\ Telling' /\ CloudStep
  BY DEF Unique, Telling, Team, CloudStep, Forward, Exists

\* Every step keeps the clusters apart and deletes only the cluster of the
\* object that is being deleted.
LEMMA CloudInv ==
    ASSUME IInv, OInv, NamesTellTeams, AnswersKnown, [Next]_vars
    PROVE  Unique' /\ Telling' /\ CloudStep
<1> USE DEF OInv
<1>1. CASE clusters' = clusters
  BY <1>1, SameOwn
<1>2. CASE Create
  <2> DEFINE spec == worker.obj.spec
  <2>1. spec \in Specs
    BY <1>2, Held DEF Create, HeldVersion, VersionOK
  <2>2. \A s \in Specs : spec.name = s.name => Team(spec) = Team(s)
    BY <2>1 DEF NamesTellTeams
  <2>3. \/ clusters' = clusters
        \/ /\ Build(spec.name, Team(spec), worker.key)
           /\ Named(spec.name, Team(spec)) = {}
    BY <1>2 DEF Create, CreateCluster
  <2> QED
    BY <1>1, <2>2, <2>3, BuildOwn DEF IInv
<1>3. CASE Delete
  <2> DEFINE id == worker.id
  <2>1. PICK reply : DeleteCluster(id, reply)
    BY <1>3 DEF Delete
  <2>2. CASE /\ Exists(id)
             /\ clusters' = [clusters EXCEPT ![id].state = "deleted"]
    <3>1. \A i \in Ids : clusters'[i] = clusters[i] \/
              (i = id /\ Exists(id) /\ clusters'[i].state = "deleted"
               /\ clusters'[i].owner = clusters[i].owner
               /\ clusters'[i].name = clusters[i].name
               /\ clusters'[i].team = clusters[i].team)
      BY <2>1, DeleteCalled DEF IInv
    <3>2. /\ id \in Ids /\ worker.key \in Keys /\ id = worker.obj.id
          /\ worker.obj.life = "deleting" /\ worker.obj.phase = "Deleting"
          /\ api[worker.key] = worker.obj /\ worker.pc = "delete"
      BY <1>3, <2>2, Held
         DEF Delete, Exists, HeldVersion, Fits, IInv, DeletionIsCurrent
    <3>3. DeletedFor(id)
      BY <3>2, NoIdIsNone DEF DeletedFor, Recorded
    <3>4. clusters'[id].state = "deleted"
      BY <2>2, <3>2 DEF IInv, TypeOK, ApiTypeOK
    <3> QED
      BY <2>2, <3>1, <3>2, <3>3, <3>4, ChangeOwn DEF Exists
  <2> QED
    BY <1>1, <2>1, <2>2 DEF DeleteCluster
<1>4. ASSUME NEW id \in Ids, Provision(id)
      PROVE  Unique' /\ Telling' /\ CloudStep
  <2>1. clusters[id] \in ClusterRecord
    BY DEF IInv, TypeOK, ApiTypeOK
  <2>2. /\ \A j \in Ids : j # id => clusters'[j] = clusters[j]
        /\ clusters'[id].owner = clusters[id].owner
        /\ clusters'[id].name = clusters[id].name
        /\ clusters'[id].team = clusters[id].team
        /\ clusters'[id].state = "ready"
        /\ Exists(id)
    BY <1>4, <2>1 DEF Provision, Exists, ClusterRecord, IInv, TypeOK, ApiTypeOK
  <2> QED
    BY <2>2, ChangeOwn
<1>5. ASSUME NEW name \in Names, NEW team \in Teams, ConsoleCreate(name, team)
      PROVE  Unique' /\ Telling' /\ CloudStep
  <2>1. Teams = {DefaultTeam}
    BY <1>5 DEF ConsoleCreate, Fault, NamesTellTeams
  <2>2. \A s \in Specs : team = Team(s)
    BY <2>1, SpecType
  <2> QED
    BY <1>5, <2>2, BuildOwn DEF ConsoleCreate, IInv
<1>6. CASE ServiceStep
  BY <1>4, <1>5, <1>6 DEF ServiceStep
<1>7. CASE ~(Create \/ Delete \/ ServiceStep)
  <2>1. CASE WorkerStep
    <3>1. CASE DefaultTeamID \/ Lookup \/ Detail
      BY <1>1, <3>1, ReadSame DEF DefaultTeamID, Lookup, Detail
    <3>2. CASE ~(DefaultTeamID \/ Lookup \/ Detail)
      BY <1>1, <1>7, <2>1, <3>2, WriteCases
         DEF WorkerStep, Report, AddFinalizer, SetPending, SetCreating,
             SetReady, SetStatus, SetDeleting, RemoveFinalizer
    <3> QED
      BY <3>1, <3>2
  <2>2. CASE ~WorkerStep
    BY <1>1, <1>7, <2>2
       DEF Next, UserStep, UserDelete, Touch, UserCreate, Edit, Reconcile,
           Begin, CacheStep, AccountLost, AccountRestored, OperatorRestart, vars
  <2> QED
    BY <2>1, <2>2
<1> QED
  BY <1>2, <1>3, <1>6, <1>7

\* Version v of object k may follow version o.
Follows(k, o, v) ==
    /\ v.id # NoId => \/ v.id = o.id
                      \/ /\ clusters[v.id].owner = k
                         /\ clusters[v.id].state # "none"
    /\ v.cond = "Ready" => \/ o.cond = "Ready" /\ v.id = o.id
                           \/ clusters[v.id].state \in {"ready", "deleted"}
    /\ Unrecorded(v) => \/ Unrecorded(o) /\ v.spec = o.spec
                        \/ Requested(k, v.spec)

\* Every version follows itself.
LEMMA SameFollows == \A k, o : Follows(k, o, o)
  BY DEF Follows

\* A cluster of an object that is not being deleted stays.
LEMMA RequestedStays ==
    ASSUME CloudStep, NEW k, NEW spec, Requested(k, spec),
           worker.pc # "delete" \/ (k \in Keys /\ api[k].life = "live")
    PROVE  \E i \in Ids : /\ Exists(i)'
                          /\ clusters'[i].owner = k
                          /\ clusters'[i].name = spec.name
                          /\ clusters'[i].team = Team(spec)
<1>1. PICK i \in Ids : /\ Exists(i)
                       /\ clusters[i].owner = k
                       /\ clusters[i].name = spec.name
                       /\ clusters[i].team = Team(spec)
  BY DEF Requested
<1>2. ~DeletedFor(i)
  BY <1>1 DEF DeletedFor
<1>3. Exists(i)' /\ Forward(i) /\ clusters[i].state # "none"
  BY <1>1, <1>2 DEF CloudStep, Exists
<1> QED
  BY <1>1, <1>3 DEF Forward

\* If every version follows the one before, what is recorded stays true.
LEMMA ObjectsInv ==
    ASSUME IInv, TypeOK', OInv, CloudStep,
           api' = api \/ clusters' = clusters,
           \A k \in Keys : Follows(k, api[k], api'[k])
    PROVE  Recorded' /\ Provisioned' /\ CreatedOwn'
<1> USE DEF OInv
<1>1. ASSUME NEW k \in Keys PROVE api'[k] \in Version /\ api[k] \in Version
  BY <1>1 DEF TypeOK, IInv
<1>2. Recorded'
  <2> SUFFICES ASSUME NEW k \in Keys, api'[k].id # NoId
               PROVE  /\ clusters'[api'[k].id].owner = k
                      /\ clusters'[api'[k].id].state # "none"
    BY DEF Recorded
  <2>1. api'[k].id \in Ids
    BY <1>1 DEF Version
  <2>2. /\ clusters[api'[k].id].owner = k
        /\ clusters[api'[k].id].state # "none"
    BY DEF Follows, Recorded
  <2> QED
    BY <2>1, <2>2 DEF CloudStep, Forward
<1>3. Provisioned'
  <2> SUFFICES ASSUME NEW k \in Keys, api'[k].cond = "Ready"
               PROVE  clusters'[api'[k].id].state \in {"ready", "deleted"}
    BY DEF Provisioned
  <2>1. clusters[api'[k].id].state \in {"ready", "deleted"}
    BY DEF Follows, Provisioned
  <2>2. CASE api'[k].id \in Ids
    BY <2>1, <2>2 DEF CloudStep, Forward
  <2>3. CASE clusters' = clusters
    BY <2>1, <2>3
  <2>4. CASE api' = api
    <3>1. VersionOK(api[k])
      BY DEF IInv, K!CacheOK, Versions
    <3>2. api'[k].id \in Ids
      BY <1>1, <2>4, <3>1 DEF VersionOK, Version
    <3> QED
      BY <2>2, <3>2
  <2> QED
    BY <2>3, <2>4
<1>4. CreatedOwn'
  <2> SUFFICES ASSUME NEW k \in Keys, Unrecorded(api'[k])
               PROVE  \E i \in Ids : /\ Exists(i)'
                                     /\ clusters'[i].owner = k
                                     /\ clusters'[i].name = api'[k].spec.name
                                     /\ clusters'[i].team = Team(api'[k].spec)
    BY DEF CreatedOwn, Requested, Unrecorded, Team
  <2>1. CASE api' = api
    <3>1. Requested(k, api[k].spec) /\ api[k].life = "live"
      BY <2>1 DEF CreatedOwn, Unrecorded
    <3> QED
      BY <2>1, <3>1, RequestedStays
  <2>2. CASE clusters' = clusters
    <3>1. Requested(k, api'[k].spec)
      BY DEF Follows, CreatedOwn
    <3>2. \A i \in Ids : Exists(i)' <=> Exists(i)
      BY <2>2 DEF Exists
    <3> QED
      BY <2>2, <3>1, <3>2 DEF Requested
  <2> QED
    BY <2>1, <2>2
<1> QED
  BY <1>2, <1>3, <1>4

\* While the worker keeps its locals, it keeps what it owns.
LEMMA WorkerKeeps ==
    ASSUME IInv, OInv, CloudStep,
           worker'.key = worker.key, worker'.obj = worker.obj,
           worker'.pc = worker.pc, worker'.id = worker.id,
           worker'.fresh => worker.fresh
    PROVE  WorkerOwns'
<1>1. ASSUME worker.pc = "setCreating"
      PROVE  Requested(worker.key, worker.obj.spec)'
  <2>1. PICK k, spec : k = worker.key /\ spec = worker.obj.spec
    OBVIOUS
  <2>2. Requested(k, spec)
    BY <1>1, <2>1 DEF OInv, WorkerOwns
  <2>3. \E i \in Ids : /\ Exists(i)'
                       /\ clusters'[i].owner = k
                       /\ clusters'[i].name = spec.name
                       /\ clusters'[i].team = Team(spec)
    BY <1>1, <2>2, RequestedStays
  <2> QED
    BY <2>1, <2>3 DEF Requested, Team
<1>2. ASSUME worker.fresh, worker.pc \in {"detail", "setReady", "setStatus"}
      PROVE  /\ clusters'[worker.id].owner = worker.key
             /\ clusters'[worker.id].state # "none"
  <2>1. worker.id \in Ids
    BY <1>2, Held DEF Fits, WorkerType
  <2> QED
    BY <1>2, <2>1 DEF OInv, WorkerOwns, CloudStep, Forward
<1> QED
  BY <1>1, <1>2 DEF WorkerOwns

\* A write of Reconcile keeps what is owned if the version written may follow
\* the one held.
LEMMA WriteOwns ==
    ASSUME IInv, TypeOK', OInv, worker.pc # "idle", NEW v, NEW next, NEW requeue,
           Write(v, next, requeue), NEW k \in Keys, k = worker.key,
           worker.fresh => Follows(k, worker.obj, v),
           next.pc \notin {"setCreating", "detail", "setReady"},
           next.pc = "setStatus" =>
               /\ worker.pc = "setReady" /\ next.key = worker.key
               /\ next.id = worker.id /\ next.fresh = worker.fresh
    PROVE  OInv'
<1>1. clusters' = clusters /\ (worker' = IdleWorker \/ worker' = next)
  BY WriteCases
<1>2. Unique' /\ Telling' /\ CloudStep
  BY <1>1, SameOwn DEF OInv
<1>3. ASSUME NEW j \in Keys PROVE Follows(j, api[j], api'[j])
  <2>1. CASE api'[j] = api[j]
    BY <2>1, SameFollows
  <2>2. CASE api'[j] # api[j]
    <3>1. /\ worker.fresh
          /\ api[k] = worker.obj /\ api'[k] = v
          /\ \A i \in Keys : i # k => api'[i] = api[i]
      BY <2>2, WorkerWrites
    <3> QED
      BY <2>2, <3>1
  <2> QED
    BY <2>1, <2>2
<1>4. Recorded' /\ Provisioned' /\ CreatedOwn'
  BY <1>1, <1>2, <1>3, ObjectsInv
<1>5. WorkerOwns'
  BY <1>1, IdleType DEF OInv, WorkerOwns
<1> QED
  BY <1>2, <1>4, <1>5 DEF OInv

\* All writes of Reconcile keep what is owned.
LEMMA WritesOwn ==
    ASSUME IInv, TypeOK', OInv,
           \/ (Report /\ worker.obj.phase # "") \/ AddFinalizer \/ SetPending
           \/ SetCreating \/ SetReady \/ SetStatus \/ SetDeleting
           \/ RemoveFinalizer
    PROVE  OInv'
<1>1. worker.pc # "idle"
  BY DEF Report, AddFinalizer, SetPending, SetCreating, SetReady,
         SetStatus, SetDeleting, RemoveFinalizer
<1>2. PICK k \in Keys : k = worker.key
  BY <1>1, Held
<1>3. /\ worker.obj \in Version /\ VersionOK(worker.obj)
      /\ HeldVersion(worker.pc, worker.obj) /\ worker \in WorkerType
      /\ Fits(worker, clusters)
  BY <1>1, Held
<1>4. CASE Report /\ worker.obj.phase # ""
  <2> DEFINE v == [worker.obj EXCEPT !.cond = worker.cond]
  <2>1. Write(v, IdleWorker, {worker.key})
    BY <1>4 DEF Report
  <2>2. /\ v.cond = worker.cond /\ v.id = worker.obj.id
        /\ v.life = worker.obj.life /\ v.phase = worker.obj.phase
        /\ v.spec = worker.obj.spec
    BY <1>3 DEF Version
  <2>3. worker.cond # "Ready"
    BY <1>3, <1>4 DEF Report, Fits, Problems
  <2> HIDE DEF v
  <2>4. Follows(k, worker.obj, v)
    BY <2>2, <2>3 DEF Follows, Unrecorded
  <2> QED
    BY <1>1, <1>2, <2>1, <2>4, IdleType, WriteOwns
<1>5. CASE AddFinalizer
  <2> DEFINE v == [worker.obj EXCEPT !.finalizer = TRUE]
             next == [worker EXCEPT !.pc = "setPending", !.obj = v]
  <2>1. Write(v, next, {})
    BY <1>5 DEF AddFinalizer
  <2>2. /\ v.cond = worker.obj.cond /\ v.id = worker.obj.id
        /\ v.life = worker.obj.life /\ v.phase = worker.obj.phase
        /\ v.spec = worker.obj.spec
    BY <1>3 DEF Version
  <2>3. next.pc = "setPending"
    BY <1>3 DEF WorkerType
  <2> HIDE DEF v, next
  <2>4. Follows(k, worker.obj, v)
    BY <2>2 DEF Follows, Unrecorded
  <2> QED
    BY <1>1, <1>2, <2>1, <2>3, <2>4, WriteOwns
<1>6. CASE SetPending
  <2> DEFINE v == [worker.obj EXCEPT !.phase = "Pending"]
  <2>1. Write(v, IdleWorker, {})
    BY <1>6 DEF SetPending
  <2>2. /\ v.cond = worker.obj.cond /\ v.id = worker.obj.id
        /\ v.phase = "Pending"
    BY <1>3 DEF Version
  <2> HIDE DEF v
  <2>3. Follows(k, worker.obj, v)
    BY <2>2 DEF Follows, Unrecorded
  <2> QED
    BY <1>1, <1>2, <2>1, <2>3, IdleType, WriteOwns
<1>7. CASE SetCreating
  <2> DEFINE v == [worker.obj EXCEPT !.phase = "Creating"]
  <2>1. Write(v, IdleWorker, {})
    BY <1>7 DEF SetCreating
  <2>2. /\ v.cond = worker.obj.cond /\ v.id = worker.obj.id
        /\ v.spec = worker.obj.spec
    BY <1>3 DEF Version
  <2>3. Requested(k, v.spec)
    BY <1>2, <1>7, <2>2 DEF SetCreating, OInv, WorkerOwns
  <2> HIDE DEF v
  <2>4. Follows(k, worker.obj, v)
    BY <2>2, <2>3 DEF Follows
  <2> QED
    BY <1>1, <1>2, <2>1, <2>4, IdleType, WriteOwns
<1>8. CASE SetReady
  <2> DEFINE v == [worker.obj EXCEPT !.id = worker.id, !.phase = "Ready",
                                     !.cond = "Ready"]
             next == [worker EXCEPT !.pc = "setStatus", !.obj = v]
  <2>1. Write(v, next, {})
    BY <1>8 DEF SetReady
  <2>2. v.id = worker.id /\ v.phase = "Ready"
    BY <1>3 DEF Version
  <2>3. /\ next.pc = "setStatus" /\ next.key = worker.key
        /\ next.id = worker.id /\ next.fresh = worker.fresh
    BY <1>3 DEF WorkerType
  <2>4. /\ worker.pc = "setReady"
        /\ clusters[worker.id].state \in {"ready", "deleted"}
        /\ worker.fresh => clusters[worker.id].owner = k
    BY <1>2, <1>3, <1>8 DEF SetReady, Fits, OInv, WorkerOwns
  <2> HIDE DEF v, next
  <2>5. worker.fresh => Follows(k, worker.obj, v)
    BY <2>2, <2>4 DEF Follows, Unrecorded
  <2> QED
    BY <1>1, <1>2, <2>1, <2>3, <2>4, <2>5, WriteOwns
<1>9. CASE SetStatus
  <2> DEFINE v == [worker.obj EXCEPT !.id = worker.id]
  <2>1. Write(v, IdleWorker, {worker.key})
    BY <1>9 DEF SetStatus
  <2>2. v.id = worker.id /\ v.cond = worker.obj.cond
    BY <1>3 DEF Version
  <2>3. /\ worker.id # NoId
        /\ worker.obj.cond = "Ready" => worker.id = worker.obj.id
        /\ worker.fresh => /\ clusters[worker.id].owner = k
                           /\ clusters[worker.id].state # "none"
    BY <1>2, <1>3, <1>9 DEF SetStatus, Fits, VersionOK, OInv, WorkerOwns
  <2> HIDE DEF v
  <2>4. worker.fresh => Follows(k, worker.obj, v)
    BY <2>2, <2>3 DEF Follows, Unrecorded
  <2> QED
    BY <1>1, <1>2, <2>1, <2>4, IdleType, WriteOwns
<1>10. CASE SetDeleting
  <2> DEFINE v == [worker.obj EXCEPT !.phase = "Deleting"]
             next == [worker EXCEPT !.pc = "delete", !.obj = v]
  <2>1. Write(v, next, {})
    BY <1>10 DEF SetDeleting
  <2>2. /\ v.cond = worker.obj.cond /\ v.id = worker.obj.id
        /\ v.phase = "Deleting"
    BY <1>3 DEF Version
  <2>3. next.pc = "delete"
    BY <1>3 DEF WorkerType
  <2> HIDE DEF v, next
  <2>4. Follows(k, worker.obj, v)
    BY <2>2 DEF Follows, Unrecorded
  <2> QED
    BY <1>1, <1>2, <2>1, <2>3, <2>4, WriteOwns
<1>11. CASE RemoveFinalizer
  <2>1. Write(Absent, IdleWorker, {})
    BY <1>11 DEF RemoveFinalizer
  <2>2. Follows(k, worker.obj, Absent)
    BY DEF Follows, Unrecorded, Absent
  <2> QED
    BY <1>1, <1>2, <2>1, <2>2, IdleType, WriteOwns
<1> QED
  BY <1>4, <1>5, <1>6, <1>7, <1>8, <1>9, <1>10, <1>11

\* A name leads to the cluster that was requested under it.
LEMMA FoundOwn ==
    ASSUME Unique, Telling, NEW k, NEW spec \in Specs, Requested(k, spec),
           NEW id \in FoundByName(spec.name)
    PROVE  clusters[id].owner = k /\ clusters[id].state # "none"
<1>1. PICK i \in Ids : /\ Exists(i)
                       /\ clusters[i].owner = k
                       /\ clusters[i].name = spec.name
                       /\ clusters[i].team = Team(spec)
  BY DEF Requested
<1>2. id \in Ids /\ Exists(id) /\ clusters[id].name = spec.name
  BY DEF FoundByName, Named
<1>3. clusters[id].team = Team(spec)
  BY <1>2 DEF Telling
<1>4. id = i
  BY <1>1, <1>2, <1>3 DEF Unique
<1> QED
  BY <1>1, <1>4 DEF Exists

\* Asking for a cluster: the one that is built is the object's own.
LEMMA CreateOwns ==
    ASSUME IInv, TypeOK', OInv, Unique', Telling', CloudStep, AnswersKnown,
           Create
    PROVE  OInv'
<1>1. worker.pc # "idle" /\ api' = api
  BY DEF Create, Answered
<1>2. Recorded' /\ Provisioned' /\ CreatedOwn'
  BY <1>1, SameFollows, ObjectsInv
<1>3. worker \in WorkerType
  BY <1>1, Held
<1>4. ASSUME worker'.pc = "report"
      PROVE  WorkerOwns'
  BY <1>4 DEF WorkerOwns
<1> DEFINE next == [worker EXCEPT !.pc = "setCreating"]
<1>5. PICK k, spec : k = worker.key /\ spec = worker.obj.spec
  OBVIOUS
<1>6. PICK reply \in {"ok", "error"} :
          /\ CreateCluster(spec.name, Team(spec), k, reply)
          /\ Answered(reply, next, BackendFailed)
  BY <1>5 DEF Create
<1>7. CASE reply = "error"
  <2>1. worker'.pc = "report"
    BY <1>3, <1>6, <1>7 DEF Answered, BackendFailed, GoOn, WorkerType
  <2> QED
    BY <1>2, <1>4, <2>1 DEF OInv
<1>8. CASE reply = "ok"
  <2>1. worker' = next
    BY <1>6, <1>8 DEF Answered, GoOn
  <2>2. worker'.pc = "setCreating" /\ worker'.key = k
        /\ worker'.obj.spec = spec
    BY <1>3, <1>5, <2>1 DEF WorkerType
  <2>3. Build(spec.name, Team(spec), k)
    BY <1>6, <1>8 DEF CreateCluster, Fault, AnswersKnown
  <2>4. \E i \in Ids : /\ Exists(i)'
                       /\ clusters'[i].owner = k
                       /\ clusters'[i].name = spec.name
                       /\ clusters'[i].team = Team(spec)
    <3>1. TypeOK
      BY DEF IInv
    <3>2. PICK name, team : name = spec.name /\ team = Team(spec)
      OBVIOUS
    <3>3. Build(name, team, k)
      BY <2>3, <3>2
    <3>4. PICK i \in Ids :
              /\ clusters[i].state = "none"
              /\ clusters'[i].state = "creating" /\ clusters'[i].name = name
              /\ clusters'[i].team = team /\ clusters'[i].owner = k
              /\ \A j \in Ids : j # i => clusters'[j] = clusters[j]
      BY <3>1, <3>3, BuildStep
    <3> QED
      BY <3>2, <3>4 DEF Exists
  <2>5. Requested(worker.key, worker.obj.spec)'
    BY <2>2, <2>4 DEF Requested, Team
  <2>6. WorkerOwns'
    BY <2>2, <2>5 DEF WorkerOwns
  <2> QED
    BY <1>2, <2>6 DEF OInv
<1> QED
  BY <1>6, <1>7, <1>8

\* The calls of Reconcile to the Bridge API keep what is owned.
LEMMA CallsOwn ==
    ASSUME IInv, TypeOK', OInv, Unique', Telling', CloudStep, AnswersKnown,
           \/ (Report /\ worker.obj.phase = "")
           \/ DefaultTeamID \/ Create \/ Lookup \/ Detail \/ Delete
    PROVE  OInv'
<1>1. worker.pc # "idle" /\ api' = api
  BY DEF Report, DefaultTeamID, Create, Lookup, Detail, Delete, Answered
<1>2. Recorded' /\ Provisioned' /\ CreatedOwn'
  BY <1>1, SameFollows, ObjectsInv
<1>3. /\ worker.obj \in Version /\ VersionOK(worker.obj)
      /\ HeldVersion(worker.pc, worker.obj) /\ worker \in WorkerType
      /\ Fits(worker, clusters) /\ worker.key \in Keys
  BY <1>1, Held
<1>4. ASSUME worker'.pc \in {"idle", "create", "unfinalize", "report"}
      PROVE  WorkerOwns'
  BY <1>4 DEF WorkerOwns
<1>5. CASE \/ (Report /\ worker.obj.phase = "") \/ DefaultTeamID \/ Delete
  <2>1. worker'.pc \in {"idle", "create", "unfinalize"}
    BY <1>3, <1>5, IdleType
       DEF Report, DefaultTeamID, Delete, Answered, GoOn, ReturnError,
           WorkerType
  <2> QED
    BY <1>2, <1>4, <2>1 DEF OInv
<1>6. CASE Create
  BY <1>6, CreateOwns
<1>7. CASE Lookup
  <2> DEFINE spec == worker.obj.spec
  <2>1. PICK reply \in {"ok", "error"} :
          /\ Read(reply)
          /\ LET found == FoundByName(spec.name)
             IN  \/ \E id \in found :
                       Answered(reply, [worker EXCEPT !.pc = "detail", !.id = id],
                                ReturnError)
                 \/ /\ found = {}
                    /\ Answered(reply, [worker EXCEPT !.pc = "report",
                                                      !.cond = "BackendError"],
                                ReturnError)
    BY <1>7 DEF Lookup
  <2>2. clusters' = clusters
    BY <2>1, ReadSame
  <2>3. CASE worker'.pc \in {"idle", "report"}
    BY <1>2, <1>4, <2>3 DEF OInv
  <2>4. ASSUME NEW id \in FoundByName(spec.name),
               worker' = [worker EXCEPT !.pc = "detail", !.id = id]
        PROVE  WorkerOwns'
    <3>1. /\ worker'.pc = "detail" /\ worker'.id = id
          /\ worker'.key = worker.key /\ worker'.fresh = worker.fresh
      BY <1>3, <2>4 DEF WorkerType
    <3>2. worker.obj.life = "live" /\ Unrecorded(worker.obj)
          /\ spec \in Specs
      BY <1>3, <1>7 DEF Lookup, HeldVersion, Unrecorded, VersionOK
    <3>3. worker.fresh => Requested(worker.key, spec)
      BY <1>3, <3>2
         DEF IInv, K!CopiesOK, K!FreshIsCurrent, OInv, CreatedOwn
    <3>4. worker.fresh => /\ clusters[id].owner = worker.key
                          /\ clusters[id].state # "none"
      <4>1. PICK k : k = worker.key
        OBVIOUS
      <4>2. PICK s \in Specs : s = spec
        BY <3>2
      <4>3. Unique /\ Telling
        BY DEF OInv
      <4> QED
        BY <3>3, <4>1, <4>2, <4>3, FoundOwn
    <3> QED
      BY <2>2, <3>1, <3>4 DEF WorkerOwns
  <2>5. \/ worker' = IdleWorker
        \/ worker' = [worker EXCEPT !.pc = "report", !.cond = "BackendError"]
        \/ \E id \in FoundByName(spec.name) :
              worker' = [worker EXCEPT !.pc = "detail", !.id = id]
    BY <2>1 DEF Answered, GoOn, ReturnError
  <2>6. worker'.pc \in {"idle", "report"} \/ WorkerOwns'
    BY <1>3, <2>4, <2>5, IdleType DEF WorkerType
  <2> QED
    BY <1>2, <2>3, <2>6 DEF OInv
<1>8. CASE Detail
  <2>1. PICK reply \in {"ok", "error"} : ReadCluster(worker.id, reply)
    BY <1>8 DEF Detail
  <2>2. clusters' = clusters
    BY <2>1, ReadSame
  <2>3. worker.pc = "detail"
    BY <1>8 DEF Detail
  <2>4. \/ worker' = IdleWorker
        \/ /\ worker'.pc \in {"setReady", "setStatus"}
           /\ worker'.key = worker.key /\ worker'.id = worker.id
           /\ worker'.fresh = worker.fresh
    BY <1>3, <1>8 DEF Detail, Answered, GoOn, ReturnError, WorkerType
  <2>5. WorkerOwns'
    BY <2>2, <2>3, <2>4, IdleType DEF OInv, WorkerOwns
  <2> QED
    BY <1>2, <2>5 DEF OInv
<1> QED
  BY <1>5, <1>6, <1>7, <1>8

\* No call of Reconcile that follows another is its first one.
LEMMA FirstCallIsFirst ==
    ASSUME NEW v \in Version, VersionOK(v)
    PROVE  /\ FirstCall(v) \notin {"setCreating", "setReady", "setStatus"}
           /\ FirstCall(v) = "detail" => v.id # NoId
<1>1. CASE v.life = "deleting"
  BY <1>1 DEF VersionOK, FirstCall, DeletionCall
<1>2. CASE v.life = "live"
  <2>1. v.phase \in {"", "Pending", "Creating", "Ready"}
    BY <1>2 DEF VersionOK, Version, Phases
  <2>2. FirstCall(v) = PhaseCall(v)
    BY <1>2 DEF FirstCall
  <2> QED
    BY <1>2, <2>1, <2>2 DEF PhaseCall
<1>3. CASE v.life = "absent"
  BY <1>3 DEF FirstCall
<1> QED
  BY <1>1, <1>2, <1>3 DEF Version

\* Starting Reconcile keeps what is owned: a recorded cluster that it goes on
\* with is the one of the current version, or nothing will be written.
LEMMA ReconcileOwns ==
    ASSUME IInv, TypeOK', OInv, NEW k \in Keys, Reconcile(k)
    PROVE  OInv'
<1> DEFINE call == IF account # "ok" /\ seen[k].life # "absent"
                   THEN "report" ELSE FirstCall(seen[k])
           busy == [IdleWorker EXCEPT !.pc = call, !.key = k, !.obj = seen[k],
                                      !.fresh = (watch[k] = <<>>),
                                      !.id = seen[k].id,
                                      !.cond = AccountReason]
           next == IF call = "idle" THEN IdleWorker ELSE busy
<1>1. /\ Take(k, next) /\ clusters' = clusters /\ api' = api
      /\ worker' = IdleWorker \/ worker' = busy
  BY DEF Reconcile, Begin, Take
<1>2. Unique' /\ Telling' /\ CloudStep
  BY <1>1, SameOwn DEF OInv
<1>3. Recorded' /\ Provisioned' /\ CreatedOwn'
  BY <1>1, <1>2, SameFollows, ObjectsInv
<1>4. seen[k] \in Version /\ VersionOK(seen[k])
  BY DEF IInv, K!CacheOK, TypeOK, Versions
<1>5. call \notin {"setCreating", "setReady", "setStatus"}
      /\ (call = "detail" => seen[k].id # NoId)
  BY <1>4, FirstCallIsFirst
<1> HIDE DEF call
<1>6. /\ busy.pc = call /\ busy.key = k /\ busy.id = seen[k].id
      /\ busy.fresh = (watch[k] = <<>>)
  BY DEF IdleWorker
<1>7. watch[k] = <<>> => seen[k] = api[k]
  BY DEF IInv, K!CacheOK, K!Converges
<1> HIDE DEF busy, next
<1>8. WorkerOwns'
  <2>1. CASE worker' = IdleWorker
    BY <2>1, IdleType DEF WorkerOwns
  <2>2. CASE worker' = busy
    <3>1. worker'.pc \notin {"setCreating", "setReady", "setStatus"}
      BY <1>5, <1>6, <2>2
    <3>2. ASSUME worker'.fresh, worker'.pc = "detail"
          PROVE  /\ clusters[seen[k].id].owner = k
                 /\ clusters[seen[k].id].state # "none"
      <4>1. watch[k] = <<>> /\ call = "detail"
        BY <1>6, <2>2, <3>2
      <4>2. seen[k] = api[k] /\ api[k].id # NoId
        BY <1>5, <1>7, <4>1
      <4> QED
        BY <4>2 DEF OInv, Recorded
    <3> QED
      BY <1>1, <1>6, <2>2, <3>1, <3>2 DEF WorkerOwns
  <2> QED
    BY <1>1, <2>1, <2>2
<1> QED
  BY <1>2, <1>3, <1>8 DEF OInv

\* What users do to objects keeps what is owned.
LEMMA UserOwns ==
    ASSUME IInv, TypeOK', OInv, UserStep
    PROVE  OInv'
<1>1. PICK k \in Keys :
        \/ UserDelete(k)
        \/ Touch(k)
        \/ \E spec \in Specs : UserCreate(k, spec)
  BY DEF UserStep
<1>2. clusters' = clusters
  BY <1>1 DEF UserDelete, Edit, Touch, UserCreate
<1>3. Unique' /\ Telling' /\ CloudStep
  BY <1>2, SameOwn DEF OInv
<1>4. PICK v : /\ ForeignCommit(k, v)
               /\ \/ v = api[k] \/ v = Absent
                  \/ v = [api[k] EXCEPT !.life = "deleting"]
                  \/ \E spec \in Specs :
                        v = [Absent EXCEPT !.life = "live", !.spec = spec]
  <2>1. CASE UserDelete(k)
    BY <2>1 DEF UserDelete, ForeignDelete
  <2>2. CASE Touch(k)
    BY <2>2 DEF Touch
  <2>3. CASE \E spec \in Specs : UserCreate(k, spec)
    BY <2>3 DEF UserCreate
  <2> QED
    BY <1>1, <2>1, <2>2, <2>3
<1>5. Follows(k, api[k], v)
  <2>1. api[k] \in Version
    BY DEF IInv, TypeOK
  <2>2. CASE v = api[k]
    BY <2>2, SameFollows
  <2>3. CASE v = Absent
    BY <2>3 DEF Follows, Unrecorded, Absent
  <2>4. CASE v = [api[k] EXCEPT !.life = "deleting"]
    BY <2>1, <2>4 DEF Follows, Unrecorded, Version
  <2>5. CASE \E spec \in Specs :
                 v = [Absent EXCEPT !.life = "live", !.spec = spec]
    <3>1. v.id = NoId /\ v.cond = "" /\ v.phase = ""
      BY <2>5 DEF Absent
    <3> QED
      BY <3>1 DEF Follows, Unrecorded
  <2> QED
    BY <1>4, <2>2, <2>3, <2>4, <2>5
<1>6. /\ api'[k] = v /\ \A j \in Keys : j # k => api'[j] = api[j]
      /\ worker'.key = worker.key /\ worker'.obj = worker.obj
      /\ worker'.pc = worker.pc /\ worker'.id = worker.id
      /\ worker'.fresh => worker.fresh
  BY <1>4 DEF ForeignCommit, Commit, IInv, TypeOK
<1>7. \A j \in Keys : Follows(j, api[j], api'[j])
  BY <1>5, <1>6, SameFollows
<1>8. Recorded' /\ Provisioned' /\ CreatedOwn'
  BY <1>2, <1>3, <1>7, ObjectsInv
<1>9. WorkerOwns'
  BY <1>3, <1>6, WorkerKeeps
<1> QED
  BY <1>3, <1>8, <1>9 DEF OInv

\* Every step keeps what is owned.
LEMMA StepOwns ==
    ASSUME IInv, OInv, NamesTellTeams, AnswersKnown, [Next]_vars
    PROVE  OInv'
<1>1. TypeOK' /\ Unique' /\ Telling' /\ CloudStep
  BY StepInv, CloudInv DEF IInv
<1>2. CASE WorkerStep
  BY <1>1, <1>2, WritesOwn, CallsOwn DEF WorkerStep
<1>3. CASE UserStep
  BY <1>1, <1>3, UserOwns
<1>4. CASE \E k \in Keys : Reconcile(k)
  BY <1>1, <1>4, ReconcileOwns
<1>5. CASE \/ ServiceStep \/ CacheStep \/ AccountLost \/ AccountRestored
           \/ OperatorRestart \/ UNCHANGED vars
  <2>1. api' = api /\ (worker' = worker \/ worker' = IdleWorker)
    BY <1>5 DEF ServiceStep, CacheStep, Resync, Deliver, AccountLost,
                AccountRestored, OperatorRestart, Restart, vars
  <2>2. Recorded' /\ Provisioned' /\ CreatedOwn'
    BY <1>1, <2>1, SameFollows, ObjectsInv
  <2>3. WorkerOwns'
    <3>1. CASE worker' = worker
      BY <1>1, <3>1, WorkerKeeps
    <3>2. CASE worker' = IdleWorker
      BY <3>2, IdleType DEF WorkerOwns
    <3> QED
      BY <2>1, <3>1, <3>2
  <2> QED
    BY <1>1, <2>2, <2>3 DEF OInv
<1> QED
  BY <1>2, <1>3, <1>4, <1>5 DEF Next

\* At first nobody owns anything.
LEMMA InitOwns == Init => OInv
<1> SUFFICES ASSUME Init PROVE OInv
  OBVIOUS
<1>1. \A i \in Ids : ~Exists(i)
  BY DEF Init, ApiInit, NoCluster, Exists
<1>2. \A k \in Keys : api[k].id = NoId /\ api[k].cond = ""
                      /\ ~Unrecorded(api[k])
  BY DEF Init, Absent, Unrecorded
<1>3. worker.pc = "idle"
  BY DEF Init, IdleWorker
<1> QED
  BY <1>1, <1>2, <1>3
     DEF OInv, Unique, Telling, Recorded, Provisioned, CreatedOwn, WorkerOwns

\* Where names tell teams and answers are known, every instance records its
\* own cluster, in every state.
LEMMA OwnCorrect ==
    ASSUME NamesTellTeams, AnswersKnown
    PROVE  Spec => [](IInv /\ OInv)
<1>1. IInv /\ OInv /\ [Next]_vars => IInv' /\ OInv'
  BY StepInv, StepOwns
<1>2. Init => IInv /\ OInv
  BY InitInv, InitOwns
<1> QED
  BY <1>1, <1>2, PTL DEF Spec

\* ProvisionReady is True only of an instance that records a cluster which was
\* created for it and has been ready.
THEOREM TrueIsProvisioned ==
    ASSUME NamesTellTeams, AnswersKnown
    PROVE  Spec => []TrueMeansProvisioned
<1>1. IInv /\ OInv => TrueMeansProvisioned
  <2> SUFFICES ASSUME IInv, OInv, NEW k \in Keys, api[k].cond = "Ready"
               PROVE  /\ api[k].phase \in {"Ready", "Deleting"}
                      /\ api[k].id # NoId
                      /\ clusters[api[k].id].owner = k
                      /\ clusters[api[k].id].state # "creating"
    BY DEF TrueMeansProvisioned
  <2>1. VersionOK(api[k])
    BY DEF IInv, K!CacheOK, Versions
  <2> QED
    BY <2>1 DEF VersionOK, OInv, Recorded, Provisioned
<1> QED
  BY <1>1, OwnCorrect, PTL

\* The operator deletes a cluster only for the instance it was created for,
\* while that instance is being deleted and its phase says so.
THEOREM OnlyOwnDeleted ==
    ASSUME NamesTellTeams, AnswersKnown
    PROVE  Spec => DeletesOnlyOwn
<1>1. IInv /\ OInv /\ [Next]_vars =>
        [\A id \in Ids : Exists(id) /\ clusters'[id].state = "deleted" =>
            \E k \in Keys : /\ clusters[id].owner = k
                            /\ api[k].life = "deleting"
                            /\ api[k].phase = "Deleting"]_vars
  <2> SUFFICES ASSUME IInv, OInv, [Next]_vars, NEW id \in Ids, Exists(id),
                      clusters'[id].state = "deleted"
               PROVE  \E k \in Keys : /\ clusters[id].owner = k
                                      /\ api[k].life = "deleting"
                                      /\ api[k].phase = "Deleting"
    OBVIOUS
  <2>1. DeletedFor(id) \/ Exists(id)'
    BY CloudInv DEF CloudStep
  <2>2. ~Exists(id)'
    BY DEF Exists
  <2> QED
    BY <2>1, <2>2 DEF DeletedFor
<1> QED
  BY <1>1, OwnCorrect, PTL DEF Spec, DeletesOnlyOwn

===============================================================================
