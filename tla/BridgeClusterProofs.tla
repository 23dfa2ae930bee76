-------------------------- MODULE BridgeClusterProofs --------------------------
(***************************************************************************)
(* Proofs about BridgeCluster, for any objects, teams, clusters, faults    *)
(* and bounds.                                                             *)
(*                                                                         *)
(* The argument: what the worker writes is refused unless it holds the     *)
(* current version (FreshIsCurrent), and what it holds fits the call it is *)
(* about to make (WorkerOK).  Old copies of an object are dangerous only   *)
(* while the worker may act on them; a copy that is live and has the       *)
(* finalizer is never outlived by the finalizer itself (FinalizerKept),    *)
(* because the finalizer is only removed from the newest version, which    *)
(* has a deletion timestamp, when no older copy is left.                   *)
(***************************************************************************)
EXTENDS BridgeCluster, SequenceTheorems, TLAPS

InFlight(k) == {watch[k][i] : i \in DOMAIN watch[k]}

\* Every version of object k that somebody still holds or will see.
Copies(k) == {seen[k]} \cup InFlight(k)
                       \cup (IF worker.key = k THEN {worker.obj} ELSE {})

VersionOK(v) ==
    /\ IF v.life = "absent" THEN v = Absent ELSE v.spec \in Specs
    /\ v.life = "live" /\ v.phase # "" => v.finalizer
    /\ v.id # NoId => v.phase \in {"Creating", "Ready"}

CopiesOK == \A k \in Keys : \A v \in Copies(k) \cup {api[k]} : VersionOK(v)

FinalizerKept ==
    \A k \in Keys : \A v \in Copies(k) :
        v.life = "live" /\ v.finalizer => api[k].finalizer

\* The cache will end at the current version.
CacheConverges ==
    \A k \in Keys : IF watch[k] = <<>> THEN seen[k] = api[k]
                                     ELSE watch[k][Len(watch[k])] = api[k]

FreshIsCurrent ==
    worker.fresh =>
        /\ worker.key \in Keys
        /\ worker.obj = api[worker.key]
        /\ worker.pc \in {"delete", "unfinalize"} =>
               /\ watch[worker.key] = <<>>
               /\ seen[worker.key] = worker.obj

\* What the call about to be made says about the version held.
HeldVersion(pc, obj) ==
    CASE pc \in {"delete", "unfinalize"} -> obj.life = "deleting"
      [] pc = "addFinalizer" -> obj.life = "live" /\ obj.phase = ""
      [] pc = "setPending" ->
            obj.life = "live" /\ obj.phase = "" /\ obj.finalizer
      [] pc \in {"defaultTeam", "create", "setCreating"} ->
            obj.life = "live" /\ obj.phase = "Pending"
      [] pc \in {"listTeams", "listClusters", "detail", "role", "setStatus"} ->
            obj.life = "live" /\ obj.phase = "Creating"

\* A worker record w fits the state cl of the service.
Fits(w, cl) ==
    w.pc # "idle" =>
        /\ w.key \in Keys
        /\ HeldVersion(w.pc, w.obj)
        /\ w.obj.id # NoId => w.id = w.obj.id
        /\ w.pc = "delete" => w.id = w.obj.id
        /\ w.pc \in {"delete", "detail", "role", "setStatus"} => w.id # NoId
        /\ w.pc = "unfinalize" /\ w.obj.id # NoId =>
               cl[w.obj.id].state = "deleted"
        /\ w.pc \in {"role", "setStatus"} /\ w.ready =>
               cl[w.id].state \in {"ready", "deleted"}

WorkerOK ==
    /\ worker.pc = "idle" => worker = IdleWorker
    /\ Fits(worker, clusters)

IInv ==
    /\ TypeOK
    /\ CopiesOK
    /\ FinalizerKept
    /\ CacheConverges
    /\ FreshIsCurrent
    /\ WorkerOK

-------------------------------------------------------------------------------
(* Type correctness.                                                       *)

WorkerType ==
    [pc : Calls \cup {"idle"}, key : Keys \cup {NoKey}, obj : Version,
     fresh : BOOLEAN, id : Ids \cup {NoId}, ready : BOOLEAN, todo : Seq(Teams)]

\* The version of an object that does not exist is a version.
LEMMA AbsentType == Absent \in Version
  BY DEF Absent, Version, Phases, NoSpec

\* An absent object is absent.
LEMMA AbsentLife == Absent.life = "absent"
  BY DEF Absent

\* The worker between two Reconciles has the worker's type.
LEMMA IdleType == IdleWorker \in WorkerType
  BY AbsentType DEF IdleWorker, WorkerType

\* The calls of Reconcile start with one of the known steps.
LEMMA FirstCallType ==
    ASSUME NEW v \in Version PROVE FirstCall(v) \in Calls \cup {"idle"}
  BY DEF Version, Phases, FirstCall, DeletionCall, PhaseCall, Calls

\* The calls of the Bridge API keep the types of the service.
LEMMA BuildType ==
    ASSUME TypeOK, NEW name \in Names, NEW team \in Teams,
           NEW owner \in Owners \cup {Nobody}, Build(name, team, owner)
    PROVE  clusters' \in [Ids -> ClusterRecord]
<1> DEFINE new == [state |-> "creating", name |-> name, team |-> team,
                   owner |-> owner]
<1>1. PICK id \in Ids : clusters' = [clusters EXCEPT ![id] = new]
  BY DEF Build
<1>2. new \in ClusterRecord
  BY DEF ClusterRecord
<1> HIDE DEF new
<1> QED
  BY <1>1, <1>2 DEF TypeOK, ApiTypeOK

-------------------------------------------------------------------------------
(* Copies of an object.                                                    *)

\* A committed version is the server's and the last one on its way to the
\* cache, and no other object is touched.
LEMMA CommitLemma ==
    ASSUME TypeOK, NEW k \in Keys, NEW v \in Version, Commit(k, v)
    PROVE  /\ api' \in [Keys -> Version]
           /\ watch' \in [Keys -> Seq(Version)]
           /\ api'[k] = v
           /\ InFlight(k)' = InFlight(k) \cup {v}
           /\ watch'[k] # <<>> /\ watch'[k][Len(watch'[k])] = v
           /\ \A j \in Keys : j # k => /\ api'[j] = api[j]
                                       /\ watch'[j] = watch[j]
<1>1. /\ api' \in [Keys -> Version]
      /\ watch' \in [Keys -> Seq(Version)]
      /\ api'[k] = v
      /\ watch'[k] = Append(watch[k], v)
      /\ \A j \in Keys : j # k => api'[j] = api[j] /\ watch'[j] = watch[j]
  BY DEF TypeOK, Commit
<1>2. \A i \in DOMAIN Append(watch[k], v) :
        Append(watch[k], v)[i] = IF i \in DOMAIN watch[k] THEN watch[k][i] ELSE v
  BY DEF TypeOK
<1>3. DOMAIN Append(watch[k], v) = DOMAIN watch[k] \cup {Len(watch[k]) + 1}
      /\ Len(watch[k]) + 1 \notin DOMAIN watch[k]
  BY DEF TypeOK
<1>4. InFlight(k)' = InFlight(k) \cup {v}
  BY <1>1, <1>2, <1>3 DEF InFlight
<1>5. watch'[k] # <<>> /\ watch'[k][Len(watch'[k])] = v
  BY <1>1 DEF TypeOK
<1> QED
  BY <1>1, <1>4, <1>5

\* Taking the head off a sequence leaves its last element where it was.
LEMMA LastOfTail ==
    ASSUME NEW S, NEW s \in Seq(S), s # <<>>
    PROVE  /\ Tail(s) = <<>> => Head(s) = s[Len(s)]
           /\ Tail(s) # <<>> => Tail(s)[Len(Tail(s))] = s[Len(s)]
<1>1. Len(s) \in Nat /\ Len(s) # 0
  BY EmptySeq
<1>2. Tail(s) \in Seq(S)
  BY HeadTailProperties
<1>3. Len(Tail(s)) = Len(s) - 1
  BY HeadTailProperties
<1>4. ASSUME Tail(s) = <<>> PROVE Head(s) = s[Len(s)]
  <2>1. Len(<<>>) = 0
    OBVIOUS
  <2>2. Len(Tail(s)) = 0
    BY <1>4, <2>1, Zenon
  <2>3. Len(s) - 1 = 0
    BY <1>3, <2>2, Zenon
  <2>4. \A n \in Nat : n - 1 = 0 => n = 1
    OBVIOUS
  <2>5. Len(s) = 1
    BY <1>1, <2>3, <2>4, Zenon
  <2> QED
    BY <2>5
<1>5. ASSUME Tail(s) # <<>> PROVE Tail(s)[Len(Tail(s))] = s[Len(s)]
  <2>1. Len(Tail(s)) \in 1..Len(Tail(s))
    BY <1>2, <1>5, EmptySeq
  <2>2. Tail(s)[Len(Tail(s))] = s[Len(Tail(s)) + 1]
    BY <2>1, HeadTailProperties
  <2>3. Len(Tail(s)) + 1 = Len(s)
    BY <1>1, <1>3
  <2> QED
    BY <2>2, <2>3
<1> QED
  BY <1>4, <1>5

\* What the cache receives was on its way, and the cache still converges.
LEMMA DeliverLemma ==
    ASSUME TypeOK, NEW k \in Keys, Deliver(k)
    PROVE  /\ watch' \in [Keys -> Seq(Version)]
           /\ seen' \in [Keys -> Version]
           /\ seen'[k] \in InFlight(k)
           /\ InFlight(k)' \subseteq InFlight(k)
           /\ CacheConverges => CacheConverges'
           /\ \A j \in Keys : j # k => /\ seen'[j] = seen[j]
                                       /\ watch'[j] = watch[j]
<1>1. watch[k] \in Seq(Version) /\ watch[k] # <<>>
  BY DEF TypeOK, Deliver
<1>2. /\ Head(watch[k]) \in Version
      /\ Head(watch[k]) = watch[k][1] /\ 1 \in DOMAIN watch[k]
      /\ Tail(watch[k]) \in Seq(Version)
  BY <1>1
<1>3. \A i \in DOMAIN Tail(watch[k]) :
        Tail(watch[k])[i] = watch[k][i + 1] /\ i + 1 \in DOMAIN watch[k]
  BY <1>1
<1>4. /\ watch'[k] = Tail(watch[k])
      /\ seen'[k] = Head(watch[k])
      /\ watch' \in [Keys -> Seq(Version)]
      /\ seen' \in [Keys -> Version]
      /\ \A j \in Keys : j # k => seen'[j] = seen[j] /\ watch'[j] = watch[j]
  BY <1>2 DEF TypeOK, Deliver
<1>5. ASSUME CacheConverges PROVE CacheConverges'
  <2>1. IF watch'[k] = <<>> THEN seen'[k] = api[k]
                            ELSE watch'[k][Len(watch'[k])] = api[k]
    <3>1. watch[k][Len(watch[k])] = api[k]
      BY <1>1, <1>5 DEF CacheConverges
    <3> QED
      BY <1>1, <1>4, <3>1, LastOfTail
  <2>2. api' = api
    BY DEF Deliver
  <2> QED
    BY <1>4, <1>5, <2>1, <2>2 DEF CacheConverges
<1> QED
  BY <1>2, <1>3, <1>4, <1>5 DEF InFlight

\* A new version keeps the invariant on copies if it is well formed and does
\* not drop a finalizer that an old live copy still shows.
LEMMA CommitCopies ==
    ASSUME TypeOK, CopiesOK, FinalizerKept, CacheConverges,
           NEW k \in Keys, NEW v \in Version, Commit(k, v), seen' = seen,
           VersionOK(v),
           \A c \in Copies(k) : c.life = "live" /\ c.finalizer => v.finalizer,
           \/ worker'.key \notin Keys
           \/ /\ worker'.key = worker.key
              /\ \/ worker'.obj = worker.obj
                 \/ worker.key = k /\ worker'.obj = v
    PROVE  CopiesOK' /\ FinalizerKept' /\ CacheConverges'
<1>1. \A c \in Copies(k)' : c \in Copies(k) \/ c = v
  BY CommitLemma DEF Copies
<1>2. \A j \in Keys : j # k => Copies(j)' \subseteq Copies(j) /\ api'[j] = api[j]
  BY CommitLemma DEF Copies, InFlight
<1>3. api'[k] = v
  BY CommitLemma
<1>4. \A j \in Keys : \A c \in Copies(j)' \cup {api'[j]} : VersionOK(c)
  BY <1>1, <1>2, <1>3 DEF CopiesOK
<1>5. \A j \in Keys : \A c \in Copies(j)' :
          c.life = "live" /\ c.finalizer => api'[j].finalizer
  BY <1>1, <1>2, <1>3 DEF FinalizerKept
<1>6. CopiesOK'
  BY <1>4 DEF CopiesOK, VersionOK
<1>7. CacheConverges'
  BY CommitLemma DEF CacheConverges
<1> QED
  BY <1>5, <1>6, <1>7 DEF FinalizerKept

\* What a write from Reconcile does: it makes the version from the current one,
\* or changes nothing, and then goes on only if there was nothing to change.
LEMMA WriteCases ==
    ASSUME NEW v, NEW next, NEW requeue, Write(v, next, requeue)
    PROVE  /\ \/ worker.fresh /\ Commit(worker.key, v)
              \/ /\ UNCHANGED <<api, watch>>
                 /\ worker' = IdleWorker \/ (worker.fresh /\ v = api[worker.key])
           /\ worker' = IdleWorker \/ worker' = next
           /\ queue' = queue \cup requeue \/ queue' = queue \cup {worker.key}
           /\ UNCHANGED <<clusters, seen, edits>>
           /\ UNCHANGED faults \/ Fault("kube")
  BY DEF Write, Update, GoOn, ReturnError

\* A write from Reconcile keeps the types if the version and the worker it
\* goes on with have theirs.
LEMMA UpdateType ==
    ASSUME TypeOK, worker.key \in Keys, NEW v \in Version,
           NEW next \in WorkerType, NEW requeue \in SUBSET Keys,
           Write(v, next, requeue)
    PROVE  TypeOK'
<1>1. api' \in [Keys -> Version] /\ watch' \in [Keys -> Seq(Version)]
  BY WriteCases, CommitLemma DEF TypeOK
<1>2. faults' \in 0..MaxFaults
  <2>1. faults \in 0..MaxFaults
    BY DEF TypeOK, ApiTypeOK
  <2>2. faults' = faults \/ (faults < MaxFaults /\ faults' = faults + 1)
    BY WriteCases DEF Fault
  <2> QED
    BY <2>1, <2>2, MaxFaultsNatural
<1>3. worker' \in WorkerType
  BY WriteCases, IdleType
<1>4. queue' \subseteq Keys
  <2>1. queue' = queue \cup requeue \/ queue' = queue \cup {worker.key}
    BY WriteCases
  <2> QED
    BY <2>1 DEF TypeOK
<1> QED
  BY <1>1, <1>2, <1>3, <1>4, WriteCases DEF TypeOK, ApiTypeOK, WorkerType

\* Without a new version nothing is lost if the worker holds nothing new.
LEMMA SameCopies ==
    ASSUME CopiesOK, FinalizerKept, CacheConverges,
           UNCHANGED <<api, watch, seen>>,
           \/ worker'.key \notin Keys
           \/ worker'.key = worker.key /\ worker'.obj = worker.obj
           \/ worker'.obj \in {seen[worker'.key], api[worker'.key]}
    PROVE  CopiesOK' /\ FinalizerKept' /\ CacheConverges'
<1>1. \A k \in Keys : InFlight(k)' = InFlight(k) /\ seen'[k] = seen[k]
                                                /\ api'[k] = api[k]
  BY DEF InFlight
<1>2. \A k \in Keys : Copies(k)' \subseteq Copies(k) \cup {api[k]}
  BY <1>1 DEF Copies
<1>3. CopiesOK'
  BY <1>1, <1>2 DEF CopiesOK, VersionOK
<1>4. FinalizerKept'
  BY <1>1, <1>2 DEF FinalizerKept
<1>5. CacheConverges'
  BY DEF CacheConverges
<1> QED
  BY <1>3, <1>4, <1>5

\* When Reconcile has returned, nothing is claimed about what it held.
LEMMA IdleOK ==
    ASSUME worker' = IdleWorker
    PROVE  FreshIsCurrent' /\ WorkerOK' /\ worker'.key \notin Keys
  BY KeysOwn DEF IdleWorker, FreshIsCurrent, WorkerOK, Fits

\* A write from Reconcile keeps the invariant.
LEMMA UpdateInv ==
    ASSUME IInv, worker.pc # "idle", NEW v \in Version, NEW next \in WorkerType,
           NEW requeue \in SUBSET Keys, Write(v, next, requeue),
           VersionOK(v),
           (worker.obj.finalizer => v.finalizer) \/ worker.pc = "unfinalize",
           \/ next = IdleWorker
           \/ /\ next.key = worker.key /\ next.obj = v
              /\ next.pc \notin {"idle", "delete", "unfinalize"},
           Fits(next, clusters)
    PROVE  IInv'
<1> DEFINE k == worker.key
<1>1. k \in Keys
  BY DEF IInv, WorkerOK, Fits
<1>2. TypeOK'
  BY <1>1, UpdateType DEF IInv
<1>3. worker' \in {IdleWorker, next} /\ UNCHANGED <<clusters, seen>>
  BY WriteCases
<1>4. worker'.key \notin Keys \/ (worker' = next /\ next.key = k /\ next.obj = v)
  BY <1>3, IdleOK
<1>5. WorkerOK'
  <2>1. CASE worker' = IdleWorker
    BY <2>1, IdleOK
  <2>2. CASE worker' # IdleWorker
    <3>1. worker' = next /\ next.pc # "idle"
      BY <1>3, <2>2
    <3> QED
      BY <1>3, <3>1 DEF WorkerOK
  <2> QED
    BY <2>1, <2>2
<1>6. CASE worker.fresh /\ Commit(k, v)
  <2>1. \A c \in Copies(k) : c.life = "live" /\ c.finalizer => v.finalizer
    <3>1. worker.obj = api[k]
      BY <1>6 DEF IInv, FreshIsCurrent
    <3>2. CASE worker.obj.finalizer => v.finalizer
      BY <1>1, <3>1, <3>2 DEF IInv, FinalizerKept
    <3>3. CASE worker.pc = "unfinalize"
      <4>1. Copies(k) = {worker.obj}
        BY <1>6, <3>3 DEF IInv, FreshIsCurrent, Copies, InFlight
      <4>2. worker.obj.life = "deleting"
        BY <3>3 DEF IInv, WorkerOK, Fits, HeldVersion
      <4> QED
        BY <4>1, <4>2
    <3> QED
      BY <3>2, <3>3
  <2>2. CopiesOK' /\ FinalizerKept' /\ CacheConverges'
    BY <1>1, <1>3, <1>4, <1>6, <2>1, CommitCopies DEF IInv
  <2>3. api'[k] = v
    BY <1>1, <1>6, CommitLemma DEF IInv
  <2>4. FreshIsCurrent'
    <3>1. CASE worker' = IdleWorker
      BY <3>1, IdleOK
    <3>2. CASE worker' # IdleWorker
      BY <1>1, <1>3, <2>3, <3>2 DEF FreshIsCurrent
    <3> QED
      BY <3>1, <3>2
  <2> QED
    BY <1>2, <1>5, <2>2, <2>4 DEF IInv
<1>7. CASE UNCHANGED <<api, watch>> /\ (worker' = IdleWorker \/ v = api[k])
  <2>1. CopiesOK' /\ FinalizerKept' /\ CacheConverges'
    BY <1>3, <1>4, <1>7, SameCopies, IdleOK DEF IInv
  <2>2. FreshIsCurrent'
    <3>1. CASE worker' = IdleWorker
      BY <3>1, IdleOK
    <3>2. CASE worker' # IdleWorker
      BY <1>1, <1>3, <1>7, <3>2 DEF FreshIsCurrent
    <3> QED
      BY <3>1, <3>2
  <2> QED
    BY <1>2, <1>5, <2>1, <2>2 DEF IInv
<1> QED
  BY <1>6, <1>7, WriteCases

\* A call of the Bridge API keeps the invariant if the service forgets no
\* deletion and the worker goes on with the version it holds.
LEMMA ContinueInv ==
    ASSUME IInv, worker.pc # "idle", ApiTypeOK', NEW reply,
           NEW next \in WorkerType, Continue(reply, next),
           next.key = worker.key, next.obj = worker.obj,
           next.fresh = worker.fresh, next.pc # "idle",
           next.pc \in {"delete", "unfinalize"} =>
               worker.pc \in {"delete", "unfinalize"},
           reply = "ok" => Fits(next, clusters')
    PROVE  IInv'
<1>1. worker.key \in Keys
  BY DEF IInv, WorkerOK, Fits
<1>2. TypeOK'
  <2>1. worker' \in WorkerType /\ queue' \subseteq Keys
    BY <1>1, IdleType DEF Continue, GoOn, ReturnError, IInv, TypeOK
  <2> QED
    BY <2>1 DEF Continue, IInv, TypeOK, WorkerType
<1>3. UNCHANGED <<api, watch, seen>>
      /\ (worker' = IdleWorker \/ (worker' = next /\ reply = "ok"))
  BY DEF Continue, GoOn, ReturnError
<1>4. CASE worker' = IdleWorker
  BY <1>2, <1>3, <1>4, IdleOK, SameCopies DEF IInv
<1>5. CASE worker' = next /\ reply = "ok"
  <2>1. CopiesOK' /\ FinalizerKept' /\ CacheConverges'
    BY <1>3, <1>5, SameCopies DEF IInv
  <2>2. FreshIsCurrent'
    BY <1>1, <1>3, <1>5 DEF IInv, FreshIsCurrent
  <2>3. WorkerOK'
    BY <1>5 DEF WorkerOK
  <2> QED
    BY <1>2, <2>1, <2>2, <2>3 DEF IInv
<1> QED
  BY <1>3, <1>4, <1>5

\* A write of somebody else keeps the invariant.
LEMMA ForeignInv ==
    ASSUME IInv, NEW k \in Keys, NEW v \in Version, ForeignCommit(k, v),
           VersionOK(v), api[k].finalizer => v.finalizer,
           clusters' = clusters, faults' \in 0..MaxFaults,
           edits' \in 0..MaxEdits
    PROVE  IInv'
<1>1. /\ worker'.key = worker.key /\ worker'.obj = worker.obj
      /\ worker'.pc = worker.pc /\ worker'.id = worker.id
      /\ worker'.ready = worker.ready
      /\ worker'.fresh => worker'.key # k /\ worker' = worker
      /\ worker' \in WorkerType
      /\ UNCHANGED <<clusters, seen, queue>> /\ Commit(k, v)
  BY DEF ForeignCommit, IInv, TypeOK, WorkerType
<1>2. TypeOK'
  BY <1>1, CommitLemma DEF IInv, TypeOK, ApiTypeOK, WorkerType
<1>3. CopiesOK' /\ FinalizerKept' /\ CacheConverges'
  <2>1. \A c \in Copies(k) : c.life = "live" /\ c.finalizer => v.finalizer
    BY DEF IInv, FinalizerKept
  <2> QED
    BY <1>1, <2>1, CommitCopies DEF IInv
<1>4. FreshIsCurrent'
  BY <1>1, CommitLemma DEF IInv, FreshIsCurrent
<1>5. WorkerOK'
  <2>1. CASE worker.pc = "idle"
    <3>1. worker.key \notin Keys
      BY <2>1, KeysOwn DEF IInv, WorkerOK, IdleWorker
    <3> QED
      BY <2>1, <1>1, <3>1 DEF ForeignCommit, IInv, WorkerOK, Fits
  <2>2. CASE worker.pc # "idle"
    BY <2>2, <1>1 DEF IInv, WorkerOK, Fits
  <2> QED
    BY <2>1, <2>2
<1> QED
  BY <1>2, <1>3, <1>4, <1>5 DEF IInv

-------------------------------------------------------------------------------
(* The actions.                                                            *)

\* The invariant holds before any object exists.
LEMMA InitInv == Init => IInv
<1> SUFFICES ASSUME Init PROVE IInv
  OBVIOUS
<1>1. TypeOK
  <2>1. NoCluster \in ClusterRecord
    BY DEF NoCluster, ClusterRecord
  <2> QED
    BY <2>1, AbsentType, IdleType, MaxFaultsNatural, MaxEditsNatural
       DEF Init, ApiInit, TypeOK, ApiTypeOK, WorkerType
<1>2. VersionOK(Absent)
  BY DEF VersionOK, Absent
<1>3. \A k \in Keys : Copies(k) = {Absent} /\ api[k] = Absent
  BY KeysOwn DEF Init, IdleWorker, Copies, InFlight
<1>4. CopiesOK /\ FinalizerKept
  <2>1. Absent.life # "live"
    BY DEF Absent
  <2>2. CopiesOK
    BY <1>2, <1>3 DEF CopiesOK
  <2>3. FinalizerKept
    BY <1>3, <2>1 DEF FinalizerKept
  <2> QED
    BY <2>2, <2>3
<1>5. CacheConverges /\ FreshIsCurrent /\ WorkerOK
  BY DEF Init, IdleWorker, CacheConverges, FreshIsCurrent, WorkerOK, Fits
<1> QED
  BY <1>1, <1>4, <1>5 DEF IInv

\* What the worker holds while it makes a call.
LEMMA Held ==
    ASSUME IInv, worker.pc # "idle"
    PROVE  /\ worker \in WorkerType
           /\ worker.key \in Keys
           /\ worker.obj \in Version
           /\ VersionOK(worker.obj)
           /\ HeldVersion(worker.pc, worker.obj)
           /\ Fits(worker, clusters)
<1>1. worker.key \in Keys /\ Fits(worker, clusters)
  BY DEF IInv, WorkerOK, Fits
<1>2. worker.obj \in Copies(worker.key)
  BY DEF Copies
<1> QED
  BY <1>1, <1>2 DEF IInv, TypeOK, WorkerType, CopiesOK, Fits

\* Adding the finalizer (bridgecluster_controller.go:95) keeps the invariant.
LEMMA AddFinalizerInv == IInv /\ AddFinalizer => IInv'
<1> SUFFICES ASSUME IInv, AddFinalizer PROVE IInv'
  OBVIOUS
<1> DEFINE obj == [worker.obj EXCEPT !.finalizer = TRUE]
           next == [worker EXCEPT !.pc = "setPending", !.obj = obj]
<1>1. worker.pc = "addFinalizer" /\ Write(obj, next, {})
  BY DEF AddFinalizer
<1>2. obj \in Version /\ VersionOK(obj) /\ obj.finalizer
      /\ obj.life = "live" /\ obj.phase = "" /\ obj.id = worker.obj.id
  BY <1>1, Held DEF HeldVersion, VersionOK, Version, Absent
<1>3. next \in WorkerType /\ next.key = worker.key /\ next.obj = obj
      /\ next.pc = "setPending" /\ next.id = worker.id
  BY <1>1, <1>2, Held DEF WorkerType, Calls
<1>4. Fits(next, clusters)
  BY <1>1, <1>2, <1>3, Held DEF Fits, HeldVersion
<1> HIDE DEF obj, next
<1> QED
  BY <1>1, <1>2, <1>3, <1>4, UpdateInv

\* An idle worker fits every state of the service.
LEMMA IdleFits == Fits(IdleWorker, clusters)
  BY DEF Fits, IdleWorker

\* Writing the phase Pending (:104) keeps the invariant.
LEMMA SetPendingInv == IInv /\ SetPending => IInv'
<1> SUFFICES ASSUME IInv, SetPending PROVE IInv'
  OBVIOUS
<1> DEFINE obj == [worker.obj EXCEPT !.phase = "Pending"]
<1>1. worker.pc = "setPending" /\ Write(obj, IdleWorker, {})
  BY DEF SetPending
<1>2. obj \in Version /\ VersionOK(obj) /\ obj.finalizer
  BY <1>1, Held DEF HeldVersion, VersionOK, Version, Phases
<1> HIDE DEF obj
<1> QED
  BY <1>1, <1>2, IdleType, IdleFits, UpdateInv

\* Writing the phase Creating (:122) keeps the invariant.
LEMMA SetCreatingInv == IInv /\ SetCreating => IInv'
<1> SUFFICES ASSUME IInv, SetCreating PROVE IInv'
  OBVIOUS
<1> DEFINE obj == [worker.obj EXCEPT !.phase = "Creating"]
<1>1. worker.pc = "setCreating" /\ Write(obj, IdleWorker, {})
  BY DEF SetCreating
<1>2. obj \in Version /\ VersionOK(obj) /\ obj.finalizer
  BY <1>1, Held DEF HeldVersion, VersionOK, Version, Phases
<1> HIDE DEF obj
<1> QED
  BY <1>1, <1>2, IdleType, IdleFits, UpdateInv

\* Writing what the detail says (:156) keeps the invariant.
LEMMA SetStatusInv == IInv /\ SetStatus => IInv'
<1> SUFFICES ASSUME IInv, SetStatus PROVE IInv'
  OBVIOUS
<1> DEFINE obj == [worker.obj EXCEPT !.id = worker.id,
                       !.phase = IF worker.ready THEN "Ready" ELSE @]
<1>1. worker.pc = "setStatus" /\ Write(obj, IdleWorker, {worker.key})
  BY DEF SetStatus
<1>2. worker.key \in Keys /\ worker.id \in Ids \cup {NoId}
      /\ worker.obj.finalizer /\ worker.obj.phase = "Creating"
      /\ worker.obj.life = "live"
  BY <1>1, Held DEF HeldVersion, VersionOK, WorkerType
<1>3. obj \in Version /\ VersionOK(obj) /\ obj.finalizer
  BY <1>1, <1>2, Held DEF VersionOK, Version, Phases
<1> HIDE DEF obj
<1> QED
  BY <1>1, <1>2, <1>3, IdleType, IdleFits, UpdateInv

\* Removing the finalizer (:88) keeps the invariant: it is only done on the
\* newest version, of which no older copy is left.
LEMMA RemoveFinalizerInv == IInv /\ RemoveFinalizer => IInv'
<1>1. VersionOK(Absent)
  BY DEF VersionOK, Absent
<1> QED
  BY <1>1, AbsentType, IdleType, IdleFits, UpdateInv DEF RemoveFinalizer

\* A read keeps the service as it is.
LEMMA ReadType ==
    ASSUME IInv, NEW reply, NEW id, Read(reply) \/ ReadCluster(id, reply)
    PROVE  ApiTypeOK' /\ clusters' = clusters
  BY MaxFaultsNatural DEF Read, ReadCluster, Fault, IInv, TypeOK, ApiTypeOK

\* Most calls of the Bridge API go on with another step on the same object.
LEMMA ReadInv ==
    ASSUME IInv, worker.pc # "idle", NEW reply, NEW id,
           Read(reply) \/ ReadCluster(id, reply),
           NEW next \in WorkerType, Continue(reply, next),
           next.key = worker.key, next.obj = worker.obj,
           next.fresh = worker.fresh,
           next.pc \notin {"idle", "delete", "unfinalize"},
           HeldVersion(next.pc, worker.obj),
           worker.obj.id # NoId => next.id = worker.obj.id,
           next.pc \in {"detail", "role", "setStatus"} => next.id # NoId,
           next.pc \in {"role", "setStatus"} /\ next.ready =>
               clusters[next.id].state \in {"ready", "deleted"}
    PROVE  IInv'
<1>1. ApiTypeOK' /\ clusters' = clusters
  BY ReadType
<1>2. Fits(next, clusters')
  BY <1>1, Held DEF Fits
<1> QED
  BY <1>1, <1>2, ContinueInv

\* Asking for the default team keeps the invariant.
LEMMA DefaultTeamIDInv == IInv /\ DefaultTeamID => IInv'
<1> SUFFICES ASSUME IInv, DefaultTeamID PROVE IInv'
  OBVIOUS
<1> DEFINE next == [worker EXCEPT !.pc = "create"]
<1>1. worker.pc = "defaultTeam"
  BY DEF DefaultTeamID
<1>2. PICK reply : Read(reply) /\ Continue(reply, next)
  BY DEF DefaultTeamID
<1>3. /\ next \in WorkerType /\ next.key = worker.key /\ next.obj = worker.obj
      /\ next.fresh = worker.fresh /\ next.pc = "create" /\ next.id = worker.id
  BY <1>1, Held DEF WorkerType, Calls
<1>4. HeldVersion("create", worker.obj)
      /\ (worker.obj.id # NoId => worker.id = worker.obj.id)
  BY <1>1, Held DEF HeldVersion, Fits
<1> HIDE DEF next
<1> QED
  BY <1>1, <1>2, <1>3, <1>4, ReadInv

\* Listing the teams keeps the invariant.
LEMMA ListTeamsInv == IInv /\ ListTeams => IInv'
<1> SUFFICES ASSUME IInv, ListTeams PROVE IInv'
  OBVIOUS
<1> DEFINE next == [worker EXCEPT !.pc = "listClusters", !.todo = TeamOrder]
<1>1. worker.pc = "listTeams"
  BY DEF ListTeams
<1>2. PICK reply : Read(reply) /\ Continue(reply, next)
  BY DEF ListTeams
<1>3. /\ next \in WorkerType /\ next.key = worker.key /\ next.obj = worker.obj
      /\ next.fresh = worker.fresh /\ next.pc = "listClusters"
      /\ next.id = worker.id
  BY <1>1, Held, TeamOrderIsSequence DEF WorkerType, Calls
<1>4. HeldVersion("listClusters", worker.obj)
      /\ (worker.obj.id # NoId => worker.id = worker.obj.id)
  BY <1>1, Held DEF HeldVersion, Fits
<1> HIDE DEF next
<1> QED
  BY <1>1, <1>2, <1>3, <1>4, ReadInv

\* Listing one team's clusters keeps the invariant.
LEMMA ListTeamClustersInv == IInv /\ ListTeamClusters => IInv'
<1> SUFFICES ASSUME IInv, ListTeamClusters PROVE IInv'
  OBVIOUS
<1> DEFINE ids == Named(worker.obj.spec.name, Head(worker.todo))
           next(id) == [worker EXCEPT !.todo = Tail(@), !.id = id]
<1>1. worker.pc = "listClusters" /\ worker.todo # <<>>
  BY DEF ListTeamClusters
<1> DEFINE choice == IF worker.id = NoId /\ ids # {} THEN ids ELSE {worker.id}
<1>2. PICK reply, id : id \in choice /\ Read(reply) /\ Continue(reply, next(id))
  <2>1. PICK reply \in {"ok", "error"} :
           Read(reply) /\ \E id \in choice : Continue(reply, next(id))
    BY DEF ListTeamClusters
  <2> QED
    BY <2>1
<1>3. id \in Ids \cup {NoId} /\ (worker.id # NoId => id = worker.id)
  <2>1. ids \subseteq Ids
    BY DEF Named
  <2> QED
    BY <1>1, <1>2, <2>1, Held DEF WorkerType
<1>4. Tail(worker.todo) \in Seq(Teams)
  BY <1>1, Held DEF WorkerType
<1>5. /\ next(id) \in WorkerType /\ next(id).key = worker.key
      /\ next(id).obj = worker.obj /\ next(id).fresh = worker.fresh
      /\ next(id).pc = "listClusters" /\ next(id).id = id
  BY <1>1, <1>3, <1>4, Held DEF WorkerType
<1>6. HeldVersion("listClusters", worker.obj)
      /\ (worker.obj.id # NoId => id = worker.obj.id)
  BY <1>1, <1>3, Held DEF HeldVersion, Fits
<1> HIDE DEF next
<1> QED
  BY <1>1, <1>2, <1>5, <1>6, ReadInv

\* Looking the name up in the lists keeps the invariant.
LEMMA ClusterByNameInv == IInv /\ ClusterByName => IInv'
<1> SUFFICES ASSUME IInv, ClusterByName PROVE IInv'
  OBVIOUS
<1> DEFINE next == [worker EXCEPT !.pc = "detail"]
<1>1. worker.pc = "listClusters"
  BY DEF ClusterByName
<1>2. PICK reply \in {"ok", "error"} :
         Continue(reply, next) /\ (reply = "ok" => worker.id # NoId)
  BY DEF ClusterByName, Continue, GoOn
<1>3. /\ next \in WorkerType /\ next.key = worker.key /\ next.obj = worker.obj
      /\ next.fresh = worker.fresh /\ next.pc = "detail" /\ next.id = worker.id
  BY <1>1, Held DEF WorkerType, Calls
<1>4. ApiTypeOK' /\ clusters' = clusters
  BY DEF ClusterByName, IInv, TypeOK, ApiTypeOK
<1>5. reply = "ok" => Fits(next, clusters')
  BY <1>1, <1>2, <1>3, Held DEF Fits, HeldVersion
<1> HIDE DEF next
<1> QED
  BY <1>1, <1>2, <1>3, <1>4, <1>5, ContinueInv

\* Getting the detail of the cluster keeps the invariant.
LEMMA ClusterDetailInv == IInv /\ ClusterDetail => IInv'
<1> SUFFICES ASSUME IInv, ClusterDetail PROVE IInv'
  OBVIOUS
<1> DEFINE next == [worker EXCEPT !.pc = "role",
                       !.ready = (clusters[worker.id].state = "ready")]
<1>1. worker.pc = "detail"
  BY DEF ClusterDetail
<1>2. PICK reply : ReadCluster(worker.id, reply) /\ Continue(reply, next)
  BY DEF ClusterDetail
<1>3. /\ next \in WorkerType /\ next.key = worker.key /\ next.obj = worker.obj
      /\ next.fresh = worker.fresh /\ next.pc = "role" /\ next.id = worker.id
      /\ next.ready => clusters[next.id].state = "ready"
  BY <1>1, Held DEF WorkerType, Calls
<1>4. HeldVersion("role", worker.obj) /\ worker.id # NoId
      /\ (worker.obj.id # NoId => worker.id = worker.obj.id)
  BY <1>1, Held DEF HeldVersion, Fits
<1> HIDE DEF next
<1> QED
  BY <1>1, <1>2, <1>3, <1>4, ReadInv

\* Getting the role of the cluster keeps the invariant.
LEMMA DefaultConnRoleInv == IInv /\ DefaultConnRole => IInv'
<1> SUFFICES ASSUME IInv, DefaultConnRole PROVE IInv'
  OBVIOUS
<1> DEFINE next == [worker EXCEPT !.pc = "setStatus"]
<1>1. worker.pc = "role"
  BY DEF DefaultConnRole
<1>2. PICK reply : ReadCluster(worker.id, reply) /\ Continue(reply, next)
  BY DEF DefaultConnRole
<1>3. /\ next \in WorkerType /\ next.key = worker.key /\ next.obj = worker.obj
      /\ next.fresh = worker.fresh /\ next.pc = "setStatus"
      /\ next.id = worker.id /\ next.ready = worker.ready
  BY <1>1, Held DEF WorkerType, Calls
<1>4. HeldVersion("setStatus", worker.obj) /\ worker.id # NoId
      /\ (worker.obj.id # NoId => worker.id = worker.obj.id)
      /\ (worker.ready => clusters[worker.id].state \in {"ready", "deleted"})
  BY <1>1, Held DEF HeldVersion, Fits
<1> HIDE DEF next
<1> QED
  BY <1>1, <1>2, <1>3, <1>4, ReadInv

\* A spec names a known team or the default one.
LEMMA TeamType ==
    ASSUME NEW spec \in Specs
    PROVE  spec.name \in Names /\ Team(spec) \in Teams
  BY SpecsKnown, DefaultTeamListed DEF Team

\* The create request (:111) keeps the invariant, whatever its answer.
LEMMA CreateInv == IInv /\ Create => IInv'
<1> SUFFICES ASSUME IInv, Create PROVE IInv'
  OBVIOUS
<1> DEFINE next == [worker EXCEPT !.pc = "setCreating"]
           name == worker.obj.spec.name
           team == Team(worker.obj.spec)
<1>1. worker.pc = "create"
  BY DEF Create
<1>2. PICK reply : /\ CreateCluster(name, team, worker.key, reply)
                   /\ Continue(reply, next)
  BY DEF Create
<1>3. /\ next \in WorkerType /\ next.key = worker.key /\ next.obj = worker.obj
      /\ next.fresh = worker.fresh /\ next.pc = "setCreating"
      /\ next.id = worker.id
  BY <1>1, Held DEF WorkerType, Calls
<1>4. ApiTypeOK'
  <2>1. faults' \in 0..MaxFaults
    BY <1>2, MaxFaultsNatural
       DEF CreateCluster, Fault, IInv, TypeOK, ApiTypeOK
  <2>2. CASE UNCHANGED clusters
    BY <2>1, <2>2 DEF IInv, TypeOK, ApiTypeOK
  <2>3. CASE Build(name, team, worker.key)
    <3>1. worker.obj.spec \in Specs /\ worker.key \in Owners
      BY <1>1, Held, KeysOwn DEF HeldVersion, VersionOK
    <3>2. name \in Names /\ team \in Teams
      BY <3>1, TeamType
    <3> QED
      BY <2>1, <2>3, <3>1, <3>2, BuildType DEF IInv, ApiTypeOK
  <2> QED
    BY <1>2, <2>2, <2>3 DEF CreateCluster
<1>5. Fits(next, clusters')
  BY <1>1, <1>3, Held DEF Fits, HeldVersion
<1> HIDE DEF next
<1> QED
  BY <1>1, <1>2, <1>3, <1>4, <1>5, ContinueInv

\* DELETE keeps the types, and the cluster is gone when it succeeds.
LEMMA DeleteType ==
    ASSUME TypeOK, NEW id, NEW reply, DeleteCluster(id, reply)
    PROVE  /\ clusters' \in [Ids -> ClusterRecord]
           /\ reply = "ok" => clusters'[id].state = "deleted"
<1> DEFINE new == [clusters[id] EXCEPT !.state = "deleted"]
<1>1. CASE UNCHANGED clusters /\ reply = "error"
  BY <1>1 DEF TypeOK, ApiTypeOK
<1>2. CASE id \in Ids /\ clusters' = [clusters EXCEPT ![id] = new]
  <2>1. clusters[id] \in ClusterRecord
    BY <1>2 DEF TypeOK, ApiTypeOK
  <2>2. new \in ClusterRecord /\ new.state = "deleted"
    BY <2>1 DEF ClusterRecord
  <2> HIDE DEF new
  <2> QED
    BY <1>2, <2>2 DEF TypeOK, ApiTypeOK
<1> QED
  BY <1>1, <1>2 DEF DeleteCluster, Exists

\* The delete request (:82) keeps the invariant.
LEMMA DeleteInv == IInv /\ Delete => IInv'
<1> SUFFICES ASSUME IInv, Delete PROVE IInv'
  OBVIOUS
<1> DEFINE next == [worker EXCEPT !.pc = "unfinalize"]
<1>1. worker.pc = "delete"
  BY DEF Delete
<1>2. PICK reply : DeleteCluster(worker.id, reply) /\ Continue(reply, next)
  BY DEF Delete
<1>3. /\ next \in WorkerType /\ next.key = worker.key /\ next.obj = worker.obj
      /\ next.fresh = worker.fresh /\ next.pc = "unfinalize"
      /\ next.id = worker.id
  BY <1>1, Held DEF WorkerType, Calls
<1>4. ApiTypeOK'
  <2>1. faults' \in 0..MaxFaults
    BY <1>2, MaxFaultsNatural
       DEF DeleteCluster, Fault, IInv, TypeOK, ApiTypeOK
  <2>2. clusters' \in [Ids -> ClusterRecord]
    BY <1>2, DeleteType DEF IInv
  <2> QED
    BY <2>1, <2>2 DEF ApiTypeOK
<1>5. reply = "ok" => Fits(next, clusters')
  <2>1. ASSUME reply = "ok" PROVE clusters'[worker.id].state = "deleted"
    BY <1>2, <2>1, DeleteType DEF IInv
  <2> QED
    BY <1>1, <1>3, <2>1, Held DEF Fits, HeldVersion
<1> HIDE DEF next
<1> QED
  BY <1>1, <1>2, <1>3, <1>4, <1>5, ContinueInv

\* What users write keeps the invariant.
LEMMA UserInv == IInv /\ UserStep => IInv'
<1> SUFFICES ASSUME IInv, NEW k \in Keys,
                    \/ UserDelete(k)
                    \/ Touch(k)
                    \/ \E spec \in Specs : UserCreate(k, spec) \/ UserEdit(k, spec)
             PROVE  IInv'
  BY DEF UserStep
<1>1. api[k] \in Version /\ VersionOK(api[k])
  BY DEF IInv, TypeOK, CopiesOK
<1>2. faults \in 0..MaxFaults /\ edits \in 0..MaxEdits
  BY DEF IInv, TypeOK, ApiTypeOK
<1>3. CASE UserDelete(k)
  <2> DEFINE v == IF api[k].finalizer THEN [api[k] EXCEPT !.life = "deleting"]
                                      ELSE Absent
  <2>1. api[k].life = "live" /\ ForeignCommit(k, v)
    BY <1>3 DEF UserDelete, ForeignDelete
  <2>2. v \in Version /\ VersionOK(v) /\ (api[k].finalizer => v.finalizer)
    BY <1>1, <2>1, AbsentType DEF Version, VersionOK, Absent
  <2>3. /\ edits' \in 0..MaxEdits /\ faults' \in 0..MaxFaults
        /\ clusters' = clusters
    BY <1>2, <1>3, MaxEditsNatural DEF UserDelete, Edit
  <2> HIDE DEF v
  <2> QED
    BY <2>1, <2>2, <2>3, ForeignInv
<1>4. CASE Touch(k)
  BY <1>1, <1>2, <1>4, ForeignInv, MaxFaultsNatural DEF Touch, Fault
<1>5. ASSUME NEW spec \in Specs, UserCreate(k, spec) PROVE IInv'
  <2> DEFINE v == [Absent EXCEPT !.life = "live", !.spec = spec]
  <2>1. api[k] = Absent /\ ForeignCommit(k, v)
    BY <1>1, <1>5 DEF UserCreate, VersionOK
  <2>2. /\ v.life = "live" /\ v.finalizer = FALSE /\ v.phase = ""
        /\ v.id = NoId /\ v.spec = spec /\ v \in Version
        /\ Absent.finalizer = FALSE
    BY DEF Version, Absent, Phases
  <2>3. /\ edits < MaxEdits /\ edits' = edits + 1 /\ faults' = faults
        /\ clusters' = clusters
    BY <1>5 DEF UserCreate, Edit
  <2> HIDE DEF v
  <2>4. VersionOK(v) /\ ~api[k].finalizer
    BY <2>1, <2>2 DEF VersionOK
  <2>5. edits' \in 0..MaxEdits /\ faults' \in 0..MaxFaults
    BY <1>2, <2>3, MaxEditsNatural
  <2> QED
    BY <2>1, <2>2, <2>3, <2>4, <2>5, ForeignInv
<1>6. ASSUME NEW spec \in Specs, UserEdit(k, spec) PROVE IInv'
  <2> DEFINE v == [api[k] EXCEPT !.spec = spec]
  <2>1. api[k].life = "live" /\ ForeignCommit(k, v)
    BY <1>6 DEF UserEdit
  <2>2. v \in Version /\ VersionOK(v) /\ (api[k].finalizer => v.finalizer)
    BY <1>1, <2>1 DEF Version, VersionOK
  <2>3. /\ edits' \in 0..MaxEdits /\ faults' \in 0..MaxFaults
        /\ clusters' = clusters
    BY <1>2, <1>6, MaxFaultsNatural DEF UserEdit, Fault
  <2> HIDE DEF v
  <2> QED
    BY <2>1, <2>2, <2>3, ForeignInv
<1> QED
  BY <1>3, <1>4, <1>5, <1>6

\* The service never brings a deleted cluster back.
LEMMA ServiceInv == IInv /\ ServiceStep => IInv'
<1> SUFFICES ASSUME IInv, ServiceStep PROVE IInv'
  OBVIOUS
<1> USE DEF Provision, ConsoleDelete, ConsoleCreate
<1>1. UNCHANGED <<api, watch, seen, queue, worker, edits>>
  BY DEF ServiceStep
<1>2. ApiTypeOK'
  <2>1. faults' \in 0..MaxFaults
    BY MaxFaultsNatural DEF ServiceStep, Fault, IInv, TypeOK, ApiTypeOK
  <2>2. ASSUME NEW id \in Ids, NEW st \in {"ready", "deleted"},
               clusters' = [clusters EXCEPT ![id].state = st]
        PROVE  clusters' \in [Ids -> ClusterRecord]
    <3>1. clusters[id] \in ClusterRecord
      BY DEF IInv, TypeOK, ApiTypeOK
    <3>2. [clusters[id] EXCEPT !.state = st] \in ClusterRecord
      BY <3>1 DEF ClusterRecord
    <3> QED
      BY <2>2, <3>2 DEF IInv, TypeOK, ApiTypeOK
  <2>3. clusters' \in [Ids -> ClusterRecord]
    BY <2>2, BuildType DEF ServiceStep, IInv
  <2> QED
    BY <2>1, <2>3 DEF ApiTypeOK
<1>3. \A id \in Ids :
        /\ clusters[id].state = "deleted" => clusters'[id].state = "deleted"
        /\ clusters[id].state = "ready" =>
               clusters'[id].state \in {"ready", "deleted"}
  <2>1. clusters \in [Ids -> ClusterRecord]
    BY DEF IInv, TypeOK, ApiTypeOK
  <2>2. CASE \E i \in Ids : Provision(i) \/ ConsoleDelete(i)
    BY <2>1, <2>2 DEF ClusterRecord
  <2>3. CASE \E name \in Names, team \in Teams : ConsoleCreate(name, team)
    BY <2>1, <2>3 DEF Build
  <2> QED
    BY <2>2, <2>3 DEF ServiceStep
<1>4. TypeOK'
  BY <1>1, <1>2 DEF IInv, TypeOK
<1>5. CopiesOK' /\ FinalizerKept' /\ CacheConverges'
  BY <1>1, SameCopies DEF IInv
<1>6. FreshIsCurrent'
  BY <1>1 DEF IInv, FreshIsCurrent
<1>7. WorkerOK'
  <2>1. worker.obj.id \in Ids \cup {NoId} /\ worker.id \in Ids \cup {NoId}
    BY DEF IInv, TypeOK, Version
  <2>2. CASE worker.pc # "idle"
    <3>1. Fits(worker, clusters)
      BY DEF IInv, WorkerOK
    <3>2. worker.pc \in {"role", "setStatus"} /\ worker.ready =>
            clusters'[worker.id].state \in {"ready", "deleted"}
      BY <1>3, <2>1, <2>2, <3>1 DEF Fits
    <3>3. worker.pc = "unfinalize" /\ worker.obj.id # NoId =>
            clusters'[worker.obj.id].state = "deleted"
      BY <1>3, <2>1, <2>2, <3>1 DEF Fits
    <3> QED
      BY <1>1, <2>2, <3>1, <3>2, <3>3 DEF WorkerOK, Fits
  <2>3. CASE worker.pc = "idle"
    BY <1>1, <2>3 DEF IInv, WorkerOK, Fits
  <2> QED
    BY <2>2, <2>3
<1> QED
  BY <1>4, <1>5, <1>6, <1>7 DEF IInv

\* Starting Reconcile on a cached object, however old, keeps the invariant.
LEMMA ReconcileInv ==
    ASSUME IInv, NEW k \in Keys, Reconcile(k) PROVE IInv'
<1> DEFINE pc == FirstCall(seen[k])
           next == [IdleWorker EXCEPT !.pc = pc, !.key = k, !.obj = seen[k],
                                      !.fresh = (watch[k] = <<>>),
                                      !.id = seen[k].id]
<1>1. seen[k] \in Version /\ VersionOK(seen[k])
  BY DEF IInv, TypeOK, CopiesOK, Copies
<1>2. pc \in Calls \cup {"idle"}
  BY <1>1, FirstCallType
<1>3. /\ next \in WorkerType /\ next.key = k /\ next.obj = seen[k]
      /\ next.fresh = (watch[k] = <<>>) /\ next.id = seen[k].id
      /\ next.pc = pc
  BY <1>1, <1>2, IdleType DEF IdleWorker, WorkerType, Version
<1>4. /\ worker' = IF pc = "idle" THEN IdleWorker ELSE next
      /\ queue' \subseteq queue
      /\ UNCHANGED <<clusters, faults, api, watch, seen, edits>>
  BY DEF Reconcile, Take
<1>5. pc # "idle" => Fits(next, clusters)
  <2>1. ASSUME pc # "idle"
        PROVE  /\ HeldVersion(pc, seen[k])
               /\ pc \in {"delete", "detail"} => seen[k].id # NoId
               /\ pc = "unfinalize" => seen[k].id = NoId
               /\ pc \notin {"role", "setStatus"}
    BY <1>1, <2>1 DEF FirstCall, DeletionCall, PhaseCall, HeldVersion, Version,
                         Phases
  <2> HIDE DEF pc, next
  <2> QED
    BY <1>3, <2>1 DEF Fits
<1> HIDE DEF pc, next
<1>6. TypeOK'
  BY <1>3, <1>4, IdleType DEF IInv, TypeOK, ApiTypeOK, WorkerType
<1>7. CopiesOK' /\ FinalizerKept' /\ CacheConverges'
  BY <1>3, <1>4, IdleOK, SameCopies DEF IInv
<1>8. CASE pc = "idle"
  BY <1>4, <1>6, <1>7, <1>8, IdleOK DEF IInv
<1>9. CASE pc # "idle"
  <2>1. FreshIsCurrent'
    BY <1>3, <1>4, <1>9 DEF FreshIsCurrent, IInv, CacheConverges
  <2>2. WorkerOK'
    BY <1>3, <1>4, <1>5, <1>9 DEF WorkerOK
  <2> QED
    BY <1>6, <1>7, <2>1, <2>2 DEF IInv
<1> QED
  BY <1>8, <1>9

\* An event that reaches the cache keeps the invariant.
LEMMA DeliverInv ==
    ASSUME IInv, NEW k \in Keys, Deliver(k),
           UNCHANGED <<clusters, faults, edits>>
    PROVE  IInv'
<1>1. TypeOK'
  BY DeliverLemma DEF Deliver, IInv, TypeOK, ApiTypeOK
<1>2. \A j \in Keys : Copies(j)' \subseteq Copies(j) /\ api'[j] = api[j]
  <2>1. worker' = worker /\ api' = api
    BY DEF Deliver
  <2>2. \A j \in Keys : /\ InFlight(j)' \subseteq InFlight(j)
                        /\ seen'[j] \in InFlight(j) \cup {seen[j]}
    BY DeliverLemma DEF IInv, InFlight
  <2> QED
    BY <2>1, <2>2 DEF Copies
<1>3. CopiesOK' /\ FinalizerKept' /\ CacheConverges'
  <2>1. CopiesOK'
    BY <1>2 DEF IInv, CopiesOK, VersionOK
  <2>2. FinalizerKept'
    BY <1>2 DEF IInv, FinalizerKept
  <2> QED
    BY <2>1, <2>2, DeliverLemma DEF IInv
<1>4. FreshIsCurrent'
  BY DeliverLemma DEF Deliver, IInv, FreshIsCurrent
<1>5. WorkerOK'
  BY DEF Deliver, IInv, WorkerOK, Fits
<1> QED
  BY <1>1, <1>3, <1>4, <1>5 DEF IInv

\* A restart of the operator keeps the invariant.
LEMMA RestartInv == IInv /\ OperatorRestart => IInv'
<1> SUFFICES ASSUME IInv, OperatorRestart PROVE IInv'
  OBVIOUS
<1>1. TypeOK'
  BY IdleType, MaxFaultsNatural
     DEF OperatorRestart, Restart, Fault, IInv, TypeOK, ApiTypeOK, WorkerType
<1>2. \A k \in Keys : Copies(k)' = {api[k]} /\ api'[k] = api[k]
  BY IdleOK DEF OperatorRestart, Restart, Copies, InFlight
<1>3. CopiesOK'
  BY <1>2 DEF IInv, CopiesOK, VersionOK
<1>4. FinalizerKept'
  BY <1>2 DEF FinalizerKept
<1>5. CacheConverges'
  BY DEF OperatorRestart, Restart, CacheConverges
<1> QED
  BY <1>1, <1>3, <1>4, <1>5, IdleOK DEF OperatorRestart, Restart, IInv

\* Nothing but the queue and the counters changes.
LEMMA QuietInv ==
    ASSUME IInv, UNCHANGED <<clusters, faults, api, watch, seen, worker, edits>>,
           queue' \subseteq Keys
    PROVE  IInv'
<1>1. CopiesOK' /\ FinalizerKept' /\ CacheConverges'
  BY SameCopies DEF IInv
<1>2. TypeOK'
  BY DEF IInv, TypeOK, ApiTypeOK
<1> QED
  BY <1>1, <1>2 DEF IInv, FreshIsCurrent, WorkerOK, Fits

\* The invariant is inductive.
LEMMA StepInv == IInv /\ [Next]_vars => IInv'
<1> SUFFICES ASSUME IInv, [Next]_vars PROVE IInv'
  OBVIOUS
<1>1. CASE WorkerStep
  BY <1>1, AddFinalizerInv, SetPendingInv, DefaultTeamIDInv, CreateInv,
     SetCreatingInv, ListTeamsInv, ListTeamClustersInv, ClusterByNameInv,
     ClusterDetailInv, DefaultConnRoleInv, SetStatusInv, DeleteInv,
     RemoveFinalizerInv DEF WorkerStep
<1>2. CASE \E k \in Keys : Reconcile(k)
  BY <1>2, ReconcileInv
<1>3. CASE CacheStep
  <2>1. CASE \E k \in Keys : Deliver(k)
    BY <1>3, <2>1, DeliverInv DEF CacheStep
  <2>2. CASE Resync
    BY <1>3, <2>2, QuietInv DEF CacheStep, Resync, IInv, TypeOK
  <2> QED
    BY <1>3, <2>1, <2>2 DEF CacheStep
<1>4. CASE UNCHANGED vars
  BY <1>4, QuietInv DEF vars, IInv, TypeOK
<1> QED
  BY <1>1, <1>2, <1>3, <1>4, UserInv, ServiceInv, RestartInv DEF Next

-------------------------------------------------------------------------------
(* The theorems.                                                           *)

\* Objects, caches, queue and worker stay of their types.
THEOREM TypeCorrect == Spec => []TypeOK
<1>1. IInv => TypeOK
  BY DEF IInv
<1> QED
  BY <1>1, InitInv, StepInv, PTL DEF Spec

\* While a cluster is being requested the object has its finalizer.
THEOREM RequestedUnderFinalizer == Spec => []ClusterUnderFinalizer
<1>1. IInv => ClusterUnderFinalizer
  <2> SUFFICES ASSUME IInv, worker.pc \in {"defaultTeam", "create"}
               PROVE  api[worker.key].finalizer
    BY DEF ClusterUnderFinalizer
  <2>1. /\ worker.key \in Keys /\ worker.obj.life = "live"
        /\ worker.obj.finalizer
    BY Held DEF HeldVersion, VersionOK
  <2>2. worker.obj \in Copies(worker.key)
    BY DEF Copies
  <2> QED
    BY <2>1, <2>2 DEF IInv, FinalizerKept
<1> QED
  BY <1>1, InitInv, StepInv, PTL DEF Spec

\* Who writes to the API server: the worker with the current version, or a
\* user; and a restart does not.
LEMMA WorkerWrites ==
    ASSUME IInv, NEW v, NEW next, NEW requeue,
           worker.pc # "idle", Write(v, next, requeue)
    PROVE  \/ api' = api
           \/ /\ api[worker.key] = worker.obj
              /\ api'[worker.key] = v
              /\ \A k \in Keys : k # worker.key => api'[k] = api[k]
<1>1. CASE worker.fresh /\ Commit(worker.key, v)
  <2>1. worker.key \in Keys /\ worker.obj = api[worker.key]
    BY <1>1 DEF IInv, FreshIsCurrent
  <2> QED
    BY <1>1, <2>1 DEF Commit, IInv, TypeOK
<1> QED
  BY <1>1, WriteCases

\* An object moves forward, or stays and keeps what it has recorded ...
Forward(k) ==
    /\ api[k].id # NoId => api'[k].id = api[k].id /\ api'[k].life # "absent"
    /\ api'[k].phase \in {api[k].phase} \cup NextPhase[api[k].phase]

\* ... or it goes away, and with it the cluster that it has recorded.
Released(k) ==
    /\ api'[k].life = "absent"
    /\ api[k].id # NoId => clusters'[api[k].id].state = "deleted"

\* An object that is not written moves neither back nor away.
LEMMA SameIsForward ==
    ASSUME IInv, NEW k \in Keys, api'[k] = api[k] PROVE Forward(k)
<1>1. VersionOK(api[k])
  BY DEF IInv, CopiesOK
<1>2. api[k].life = "absent" => api[k].id = NoId
  <2>1. Absent.id = NoId
    BY DEF Absent
  <2> QED
    BY <1>1, <2>1 DEF VersionOK
<1> QED
  BY <1>2 DEF Forward

\* What Reconcile writes moves an object forward or releases it.
LEMMA WorkerForward ==
    ASSUME IInv, WorkerStep, NEW k \in Keys PROVE Forward(k) \/ Released(k)
<1> DEFINE obj == worker.obj
<1>1. CASE api'[k] = api[k]
  BY <1>1, SameIsForward
<1> SUFFICES ASSUME api'[k] # api[k] PROVE Forward(k) \/ Released(k)
  BY <1>1
<1>2. worker.pc # "idle"
  BY DEF WorkerStep, AddFinalizer, SetPending, DefaultTeamID, Create,
         SetCreating, ListTeams, ListTeamClusters, ClusterByName,
         ClusterDetail, DefaultConnRole, SetStatus, Delete, RemoveFinalizer
<1>3. CASE AddFinalizer
  <2>1. api[k] = obj /\ api'[k] = [obj EXCEPT !.finalizer = TRUE]
    BY <1>2, <1>3, WorkerWrites DEF AddFinalizer
  <2>2. obj \in Version /\ obj.life = "live"
    BY <1>2, <1>3, Held DEF AddFinalizer, HeldVersion
  <2> QED
    BY <2>1, <2>2 DEF Forward, Version
<1>4. CASE SetPending
  <2>1. api[k] = obj /\ api'[k] = [obj EXCEPT !.phase = "Pending"]
    BY <1>2, <1>4, WorkerWrites DEF SetPending
  <2>2. obj \in Version /\ obj.life = "live" /\ obj.phase = ""
    BY <1>2, <1>4, Held DEF SetPending, HeldVersion
  <2> QED
    BY <2>1, <2>2 DEF Forward, Version, NextPhase, Phases
<1>5. CASE SetCreating
  <2>1. api[k] = obj /\ api'[k] = [obj EXCEPT !.phase = "Creating"]
    BY <1>2, <1>5, WorkerWrites DEF SetCreating
  <2>2. obj \in Version /\ obj.life = "live" /\ obj.phase = "Pending"
    BY <1>2, <1>5, Held DEF SetCreating, HeldVersion
  <2> QED
    BY <2>1, <2>2 DEF Forward, Version, NextPhase, Phases
<1>6. CASE SetStatus
  <2>1. /\ api[k] = obj
        /\ api'[k] = [obj EXCEPT !.id = worker.id,
                          !.phase = IF worker.ready THEN "Ready" ELSE @]
    BY <1>2, <1>6, WorkerWrites DEF SetStatus
  <2>2. /\ obj \in Version /\ obj.life = "live" /\ obj.phase = "Creating"
        /\ obj.id # NoId => worker.id = obj.id
    BY <1>2, <1>6, Held DEF SetStatus, HeldVersion, Fits
  <2> QED
    BY <2>1, <2>2 DEF Forward, Version, NextPhase, Phases
<1>7. CASE RemoveFinalizer
  <2>1. api[k] = obj /\ api'[k] = Absent
    BY <1>2, <1>7, WorkerWrites DEF RemoveFinalizer
  <2>2. obj.id # NoId => clusters[obj.id].state = "deleted"
    BY <1>2, <1>7, Held DEF RemoveFinalizer, Fits
  <2>3. clusters' = clusters
    BY <1>7, WriteCases DEF RemoveFinalizer
  <2> QED
    BY <2>1, <2>2, <2>3, AbsentLife DEF Released
<1>8. CASE \/ DefaultTeamID \/ Create \/ ListTeams \/ ListTeamClusters
           \/ ClusterByName \/ ClusterDetail \/ DefaultConnRole \/ Delete
  <2>1. api' = api
    BY <1>8 DEF DefaultTeamID, Create, ListTeams, ListTeamClusters,
                ClusterByName, ClusterDetail, DefaultConnRole, Delete, Continue
  <2> QED
    BY <2>1
<1> QED
  BY <1>3, <1>4, <1>5, <1>6, <1>7, <1>8 DEF WorkerStep

\* What users write does not move an object back.
LEMMA UserForward ==
    ASSUME IInv, UserStep, NEW k \in Keys PROVE Forward(k) \/ Released(k)
<1>1. api[k] \in Version /\ VersionOK(api[k])
  BY DEF IInv, TypeOK, CopiesOK
<1>2. CASE api'[k] = api[k]
  BY <1>2, SameIsForward
<1> SUFFICES ASSUME api'[k] # api[k] PROVE Forward(k) \/ Released(k)
  BY <1>2
<1>3. PICK j \in Keys :
        \/ UserDelete(j)
        \/ Touch(j)
        \/ \E spec \in Specs : UserCreate(j, spec) \/ UserEdit(j, spec)
  BY DEF UserStep
<1>4. \A v : ForeignCommit(j, v) => j = k /\ api'[k] = v
  BY DEF ForeignCommit, Commit, IInv, TypeOK
<1>5. CASE UserDelete(j)
  <2>1. CASE api[k].finalizer
    <3>1. api'[k] = [api[k] EXCEPT !.life = "deleting"]
      BY <1>4, <1>5, <2>1 DEF UserDelete, ForeignDelete
    <3> QED
      BY <1>1, <3>1 DEF Forward, Version
  <2>2. CASE ~api[k].finalizer
    <3>1. api'[k] = Absent /\ api[k].life = "live"
      BY <1>4, <1>5, <2>2 DEF UserDelete, ForeignDelete
    <3>2. api[k].id = NoId
      BY <1>1, <2>2, <3>1 DEF VersionOK
    <3> QED
      BY <3>1, <3>2, AbsentLife DEF Released
  <2> QED
    BY <2>1, <2>2
<1>6. CASE Touch(j)
  BY <1>4, <1>6 DEF Touch
<1>7. ASSUME NEW spec \in Specs, UserCreate(j, spec)
      PROVE  Forward(k) \/ Released(k)
  <2>1. /\ api'[k] = [Absent EXCEPT !.life = "live", !.spec = spec]
        /\ api[k] = Absent
    BY <1>1, <1>4, <1>7 DEF UserCreate, VersionOK
  <2> QED
    BY <2>1 DEF Forward, Absent
<1>8. ASSUME NEW spec \in Specs, UserEdit(j, spec)
      PROVE  Forward(k) \/ Released(k)
  <2>1. api'[k] = [api[k] EXCEPT !.spec = spec] /\ api[k].life = "live"
    BY <1>4, <1>8 DEF UserEdit
  <2> QED
    BY <1>1, <2>1 DEF Forward, Version
<1> QED
  BY <1>3, <1>5, <1>6, <1>7, <1>8

\* Every step moves every object forward or releases it.
LEMMA StepForward ==
    ASSUME IInv, [Next]_vars, NEW k \in Keys PROVE Forward(k) \/ Released(k)
<1>1. CASE WorkerStep \/ UserStep
  BY <1>1, WorkerForward, UserForward
<1>2. CASE \/ ServiceStep \/ CacheStep \/ OperatorRestart \/ UNCHANGED vars
           \/ \E j \in Keys : Reconcile(j)
  <2>1. api' = api
    BY <1>2 DEF ServiceStep, CacheStep, OperatorRestart, Resync, Restart, vars,
                Reconcile, Take, Deliver
  <2> QED
    BY <2>1, SameIsForward
<1> QED
  BY <1>1, <1>2 DEF Next

\* A recorded identifier stays while the object exists.
THEOREM RecordedIdStays == Spec => IdSticky
<1>1. IInv /\ [Next]_vars =>
        [\A k \in Keys : api[k].id # NoId =>
            api'[k].id = api[k].id \/ api'[k].life = "absent"]_vars
  BY StepForward DEF Forward, Released
<1> QED
  BY <1>1, InitInv, StepInv, PTL DEF Spec, IdSticky

\* The phase of an object only moves forward.
THEOREM PhasesAdvance == Spec => PhaseOrder
<1>1. IInv /\ [Next]_vars =>
        [\A k \in Keys : api'[k].life # "absent" =>
            api'[k].phase \in {api[k].phase} \cup NextPhase[api[k].phase]]_vars
  BY StepForward DEF Forward, Released
<1> QED
  BY <1>1, InitInv, StepInv, PTL DEF Spec, PhaseOrder

\* A recorded cluster is deleted before its object goes away.
THEOREM ClusterReleased == Spec => RecordedIdReleased
<1>1. IInv /\ [Next]_vars =>
        [\A k \in Keys : api[k].id # NoId /\ api'[k].life = "absent" =>
            clusters'[api[k].id].state = "deleted"]_vars
  BY StepForward DEF Forward, Released
<1> QED
  BY <1>1, InitInv, StepInv, PTL DEF Spec, RecordedIdReleased

-------------------------------------------------------------------------------
(* Whose clusters the objects record.  A cluster is found by its name, so     *)
(* that this holds only where a name tells the team, and where nobody changes *)
(* specs, no person creates or deletes clusters, and every answer to a        *)
(* request is one that the client knows.  The runs show what happens in the   *)
(* other cases.                                                               *)

NamesTellTeams == \A s, t \in Specs : s.name = t.name => Team(s) = Team(t)

Undisturbed == {"odd", "console", "edit"} \cap Faults = {}

\* The service keeps names apart within a team.
Unique ==
    \A i, j \in Ids :
        (/\ Exists(i) /\ Exists(j)
         /\ clusters[i].name = clusters[j].name
         /\ clusters[i].team = clusters[j].team) => i = j

\* The name of an existing cluster tells its team.
Telling ==
    \A i \in Ids, s \in Specs :
        Exists(i) /\ clusters[i].name = s.name => clusters[i].team = Team(s)

\* Cluster i exists, and was created for object k with the given spec.
CreatedFor(i, k, spec) ==
    /\ Exists(i)
    /\ clusters[i].owner = k
    /\ clusters[i].name = spec.name
    /\ clusters[i].team = Team(spec)

\* What version v of object k, if it is current, says of the clusters.
Matched(k, v) ==
    v.life = "live" /\ v.phase \in {"Creating", "Ready"} =>
        \E i \in Ids : /\ CreatedFor(i, k, v.spec)
                       /\ v.id \in {NoId, i}
                       /\ v.phase = "Ready" => v.id = i /\ clusters[i].state = "ready"

Recorded ==
    \A k \in Keys : api[k].id # NoId => /\ clusters[api[k].id].owner = k
                                        /\ clusters[api[k].id].state # "none"

PhasesMatch == \A k \in Keys : Matched(k, api[k])

\* A copy that is being deleted tells of the current deletion or of one that
\* has deleted its cluster.
DeletionsKnown ==
    \A k \in Keys : \A v \in Copies(k) :
        v.life = "deleting" /\ v.id # NoId =>
            \/ clusters[v.id].state = "deleted"
            \/ api[k].life = "deleting" /\ api[k].id = v.id

WorkerOwns ==
    /\ worker.pc = "setCreating" =>
           \E i \in Ids : CreatedFor(i, worker.key, worker.obj.spec)
    /\ (/\ worker.fresh /\ worker.id # NoId
        /\ worker.pc \in {"listTeams", "listClusters", "detail", "role",
                          "setStatus"}) =>
           CreatedFor(worker.id, worker.key, worker.obj.spec)

OInv ==
    /\ Unique /\ Telling
    /\ Recorded /\ PhasesMatch /\ DeletionsKnown
    /\ WorkerOwns

\* Clusters keep what they were created with, and do not go back.
Kept(i) ==
    clusters[i].state # "none" =>
        /\ clusters'[i].owner = clusters[i].owner
        /\ clusters'[i].name = clusters[i].name
        /\ clusters'[i].team = clusters[i].team
        /\ clusters'[i].state # "none"
        /\ clusters[i].state = "ready" => clusters'[i].state \in {"ready", "deleted"}
        /\ clusters[i].state = "deleted" => clusters'[i].state = "deleted"

\* The operator deletes cluster i for its object.
DeletedFor(i) ==
    \E k \in Keys : /\ clusters[i].owner = k
                    /\ api[k].life = "deleting"
                    /\ worker.pc = "delete"

\* What one step may do to the clusters.
CloudStep ==
    /\ \A i \in Ids : Kept(i)
    /\ \A i \in Ids : Exists(i) => DeletedFor(i) \/ Exists(i)'

\* A cluster is built under a new identifier.
LEMMA BuildStep ==
    ASSUME TypeOK, NEW name, NEW team, NEW owner, Build(name, team, owner)
    PROVE  \E i \in Ids :
              /\ clusters[i].state = "none"
              /\ clusters'[i].state = "creating" /\ clusters'[i].name = name
              /\ clusters'[i].team = team /\ clusters'[i].owner = owner
              /\ \A j \in Ids : j # i => clusters'[j] = clusters[j]
<1> DEFINE new == [state |-> "creating", name |-> name, team |-> team,
                   owner |-> owner]
<1>1. PICK i \in Ids : /\ clusters[i].state = "none"
                       /\ clusters' = [clusters EXCEPT ![i] = new]
  BY DEF Build
<1>2. /\ new.state = "creating" /\ new.name = name
      /\ new.team = team /\ new.owner = owner
  OBVIOUS
<1> HIDE DEF new
<1> QED
  BY <1>1, <1>2 DEF TypeOK, ApiTypeOK

\* A new cluster keeps names apart if its name was not taken, and keeps telling
\* if its team is the one its name tells.
LEMMA BuildOwn ==
    ASSUME TypeOK, Unique, Telling, NEW name, NEW team, NEW owner,
           Build(name, team, owner), Named(name, team) = {},
           \A s \in Specs : name = s.name => team = Team(s)
    PROVE  Unique' /\ Telling' /\ CloudStep
<1>1. PICK i \in Ids :
          /\ clusters[i].state = "none"
          /\ clusters'[i].state = "creating" /\ clusters'[i].name = name
          /\ clusters'[i].team = team /\ clusters'[i].owner = owner
          /\ \A j \in Ids : j # i => clusters'[j] = clusters[j]
  BY BuildStep
<1>2. \A j \in Ids : Exists(j) =>
          j # i /\ ~(clusters[j].name = name /\ clusters[j].team = team)
  BY <1>1 DEF Exists, Named
<1>3. \A j \in Ids : Exists(j)' <=> Exists(j) \/ j = i
  BY <1>1 DEF Exists
<1>4. Unique'
  BY <1>1, <1>2, <1>3 DEF Unique
<1>5. Telling'
  <2> SUFFICES ASSUME NEW j \in Ids, NEW s \in Specs, Exists(j)',
                      clusters'[j].name = s.name
               PROVE  clusters'[j].team = Team(s)
    BY DEF Telling, Team
  <2>1. CASE j = i
    BY <1>1, <2>1
  <2>2. CASE j # i
    BY <1>1, <1>3, <2>2 DEF Telling
  <2> QED
    BY <2>1, <2>2
<1>6. CloudStep
  BY <1>1, <1>3 DEF CloudStep, Kept
<1> QED
  BY <1>4, <1>5, <1>6

\* A cluster that changes its state only.
LEMMA ChangeOwn ==
    ASSUME Unique, Telling, NEW i,
           \A j \in Ids : j # i => clusters'[j] = clusters[j],
           i \in Ids => /\ Exists(i)
                        /\ clusters'[i].owner = clusters[i].owner
                        /\ clusters'[i].name = clusters[i].name
                        /\ clusters'[i].team = clusters[i].team
                        /\ \/ clusters'[i].state = "ready"
                           \/ clusters'[i].state = "deleted" /\ DeletedFor(i)
    PROVE  Unique' /\ Telling' /\ CloudStep
<1>1. \A j \in Ids : Exists(j)' => Exists(j)
  BY DEF Exists
<1>2. \A j \in Ids : /\ clusters'[j].owner = clusters[j].owner
                     /\ clusters'[j].name = clusters[j].name
                     /\ clusters'[j].team = clusters[j].team
  OBVIOUS
<1>3. Unique'
  BY <1>1, <1>2 DEF Unique
<1>4. Telling'
  <2> SUFFICES ASSUME NEW j \in Ids, NEW s \in Specs, Exists(j)',
                      clusters'[j].name = s.name
               PROVE  clusters'[j].team = Team(s)
    BY DEF Telling, Team
  <2> QED
    BY <1>1, <1>2 DEF Telling
<1>5. ASSUME NEW j \in Ids
      PROVE  Kept(j) /\ (Exists(j) => DeletedFor(j) \/ Exists(j)')
  <2>1. CASE j = i
    BY <2>1 DEF Kept, Exists
  <2>2. CASE j # i
    BY <2>2 DEF Kept, Exists
  <2> QED
    BY <2>1, <2>2
<1> QED
  BY <1>3, <1>4, <1>5 DEF CloudStep

\* Steps that leave the service alone.
LEMMA SameOwn ==
    ASSUME Unique, Telling, clusters' = clusters
    PROVE  Unique' /\ Telling' /\ CloudStep
  BY DEF Unique, Telling, Team, CloudStep, Kept, Exists

\* A delete request leaves the service alone, or one existing cluster goes.
LEMMA DeleteStep ==
    ASSUME TypeOK, NEW id, NEW reply, DeleteCluster(id, reply)
    PROVE  \/ clusters' = clusters
           \/ /\ Exists(id)
              /\ clusters'[id].state = "deleted"
              /\ clusters'[id].owner = clusters[id].owner
              /\ clusters'[id].name = clusters[id].name
              /\ clusters'[id].team = clusters[id].team
              /\ \A j \in Ids : j # id => clusters'[j] = clusters[j]
<1> DEFINE new == [clusters[id] EXCEPT !.state = "deleted"]
<1>1. CASE UNCHANGED clusters
  BY <1>1
<1>2. CASE Exists(id) /\ clusters' = [clusters EXCEPT ![id] = new]
  <2>1. id \in Ids /\ clusters[id] \in ClusterRecord
    BY <1>2 DEF Exists, TypeOK, ApiTypeOK
  <2>2. /\ new.state = "deleted" /\ new.owner = clusters[id].owner
        /\ new.name = clusters[id].name /\ new.team = clusters[id].team
    BY <2>1 DEF ClusterRecord
  <2> HIDE DEF new
  <2> QED
    BY <1>2, <2>1, <2>2 DEF TypeOK, ApiTypeOK
<1> QED
  BY <1>1, <1>2 DEF DeleteCluster

\* What the worker deletes, if it is there at all, is the cluster of the
\* object whose deletion is current, however old the version is that it holds.
LEMMA DeletesItsOwn ==
    ASSUME IInv, OInv, worker.pc = "delete", Exists(worker.id)
    PROVE  DeletedFor(worker.id)
<1>1. PICK k \in Keys : k = worker.key
  BY Held
<1>2. /\ worker.obj.life = "deleting" /\ worker.id = worker.obj.id
      /\ worker.obj.id # NoId
  BY Held DEF Fits, HeldVersion
<1>3. worker.obj \in Copies(k)
  BY <1>1 DEF Copies
<1>4. clusters[worker.id].state # "deleted"
  BY DEF Exists
<1>5. api[k].life = "deleting" /\ api[k].id = worker.id
  BY <1>2, <1>3, <1>4 DEF OInv, DeletionsKnown
<1>6. clusters[api[k].id].owner = k
  BY <1>2, <1>5 DEF OInv, Recorded
<1> QED
  BY <1>5, <1>6 DEF DeletedFor

\* Every step keeps the clusters apart and deletes only the cluster of an
\* object that is being deleted.
LEMMA CloudInv ==
    ASSUME IInv, OInv, NamesTellTeams, Undisturbed, [Next]_vars
    PROVE  Unique' /\ Telling' /\ CloudStep
<1> USE DEF OInv
<1>1. CASE clusters' = clusters
  BY <1>1, SameOwn
<1>2. CASE Create
  <2> DEFINE spec == worker.obj.spec
  <2>1. spec \in Specs
    BY <1>2, Held DEF Create, HeldVersion, VersionOK
  <2>2. \A s \in Specs : spec.name = s.name => Team(spec) = Team(s)
    BY <2>1 DEF NamesTellTeams
  <2>3. \/ clusters' = clusters
        \/ /\ Build(spec.name, Team(spec), worker.key)
           /\ Named(spec.name, Team(spec)) = {}
    BY <1>2 DEF Create, CreateCluster
  <2> QED
    BY <1>1, <2>2, <2>3, BuildOwn DEF IInv
<1>3. CASE Delete
  <2>1. PICK id : id = worker.id
    OBVIOUS
  <2>2. PICK reply : DeleteCluster(id, reply)
    BY <1>3, <2>1 DEF Delete
  <2>3. Exists(id) => id \in Ids /\ DeletedFor(id)
    BY <1>3, <2>1, DeletesItsOwn DEF Delete, Exists
  <2> QED
    BY <1>1, <2>2, <2>3, DeleteStep, ChangeOwn DEF IInv
<1>4. ASSUME NEW id \in Ids, Provision(id)
      PROVE  Unique' /\ Telling' /\ CloudStep
  <2>1. clusters[id] \in ClusterRecord
    BY DEF IInv, TypeOK, ApiTypeOK
  <2>2. /\ \A j \in Ids : j # id => clusters'[j] = clusters[j]
        /\ clusters'[id].owner = clusters[id].owner
        /\ clusters'[id].name = clusters[id].name
        /\ clusters'[id].team = clusters[id].team
        /\ clusters'[id].state = "ready"
        /\ Exists(id)
    BY <1>4, <2>1 DEF Provision, Exists, ClusterRecord, IInv, TypeOK, ApiTypeOK
  <2> QED
    BY <2>2, ChangeOwn
<1>5. CASE ServiceStep
  BY <1>4, <1>5
     DEF ServiceStep, ConsoleCreate, ConsoleDelete, Fault, Undisturbed
<1>6. CASE WorkerStep /\ ~(Create \/ Delete)
  <2>1. CASE DefaultTeamID \/ ListTeams \/ ListTeamClusters \/ ClusterDetail
             \/ DefaultConnRole
    BY <1>1, <2>1, ReadType
       DEF DefaultTeamID, ListTeams, ListTeamClusters, ClusterDetail,
           DefaultConnRole
  <2>2. CASE AddFinalizer \/ SetPending \/ SetCreating \/ SetStatus
             \/ RemoveFinalizer
    BY <1>1, <2>2, WriteCases
       DEF AddFinalizer, SetPending, SetCreating, SetStatus, RemoveFinalizer
  <2>3. CASE ClusterByName
    BY <1>1, <2>3 DEF ClusterByName
  <2> QED
    BY <1>6, <2>1, <2>2, <2>3 DEF WorkerStep
<1>7. CASE ~WorkerStep /\ ~ServiceStep
  BY <1>1, <1>7
     DEF Next, UserStep, UserDelete, Touch, UserCreate, UserEdit, Edit,
         Reconcile, CacheStep, OperatorRestart, vars
<1> QED
  BY <1>2, <1>3, <1>5, <1>6, <1>7

\* Version v of object k may follow version o.
Follows(k, o, v) ==
    /\ v.id # NoId => \/ v.id = o.id
                      \/ /\ clusters[v.id].owner = k
                         /\ clusters[v.id].state # "none"
    /\ Matched(k, o) => Matched(k, v)

\* Every version follows itself.
LEMMA SameFollows == \A k, o : Follows(k, o, o)
  BY DEF Follows

\* A cluster of an object that is not being deleted stays what it is.
LEMMA OwnStays ==
    ASSUME CloudStep, NEW i \in Ids, NEW k, NEW spec, CreatedFor(i, k, spec),
           worker.pc # "delete" \/ (k \in Keys /\ api[k].life # "deleting")
    PROVE  CreatedFor(i, k, spec)'
<1>1. ~DeletedFor(i)
  BY DEF DeletedFor, CreatedFor
<1>2. Exists(i)' /\ Kept(i) /\ clusters[i].state # "none"
  BY <1>1 DEF CloudStep, CreatedFor, Exists
<1> QED
  BY <1>2 DEF CreatedFor, Kept, Team

\* While an object is not written, its phase matches its cluster.
LEMMA MatchedStays ==
    ASSUME CloudStep, NEW k \in Keys, NEW v, v = api[k], Matched(k, v)
    PROVE  Matched(k, v)'
<1> SUFFICES ASSUME v.life = "live", v.phase \in {"Creating", "Ready"}
             PROVE  \E i \in Ids :
                       /\ CreatedFor(i, k, v.spec)'
                       /\ v.id \in {NoId, i}
                       /\ v.phase = "Ready" =>
                              v.id = i /\ clusters'[i].state = "ready"
  BY DEF Matched
<1>1. PICK i \in Ids :
          /\ CreatedFor(i, k, v.spec)
          /\ v.id \in {NoId, i}
          /\ v.phase = "Ready" => v.id = i /\ clusters[i].state = "ready"
  BY DEF Matched
<1>2. PICK spec : spec = v.spec
  OBVIOUS
<1>3. CreatedFor(i, k, spec)'
  BY <1>1, <1>2, OwnStays
<1>4. clusters[i].state = "ready" => clusters'[i].state = "ready"
  BY <1>3 DEF CloudStep, Kept, CreatedFor, Exists
<1> QED
  BY <1>1, <1>2, <1>3, <1>4

\* If every version follows the one before, what is recorded stays true and
\* the phases match.
LEMMA ObjectsInv ==
    ASSUME IInv, TypeOK', OInv, CloudStep,
           api' = api \/ clusters' = clusters,
           \A k \in Keys : Follows(k, api[k], api'[k])
    PROVE  Recorded' /\ PhasesMatch'
<1> USE DEF OInv
<1>1. Recorded'
  <2> SUFFICES ASSUME NEW k \in Keys, api'[k].id # NoId
               PROVE  /\ clusters'[api'[k].id].owner = k
                      /\ clusters'[api'[k].id].state # "none"
    BY DEF Recorded
  <2>1. api'[k].id \in Ids
    BY DEF TypeOK, Version
  <2>2. /\ clusters[api'[k].id].owner = k
        /\ clusters[api'[k].id].state # "none"
    BY DEF Follows, Recorded
  <2> QED
    BY <2>1, <2>2 DEF CloudStep, Kept
<1>2. PhasesMatch'
  <2> SUFFICES ASSUME NEW k \in Keys, NEW v, v = api'[k]
               PROVE  Matched(k, v)'
    BY DEF PhasesMatch
  <2>1. Matched(k, v)
    BY DEF Follows, PhasesMatch
  <2>2. CASE api' = api
    BY <2>1, <2>2, MatchedStays
  <2>3. CASE clusters' = clusters
    BY <2>1, <2>3 DEF Matched, CreatedFor, Exists, Team
  <2> QED
    BY <2>2, <2>3
<1> QED
  BY <1>1, <1>2

-------------------------------------------------------------------------------
(* Old copies of an object that is being deleted.                          *)

\* Who holds copies after a version has been committed.
LEMMA CommitHeld ==
    ASSUME TypeOK, NEW k \in Keys, NEW v \in Version, Commit(k, v), seen' = seen,
           \/ worker'.key \notin Keys
           \/ /\ worker'.key = worker.key
              /\ \/ worker'.obj = worker.obj
                 \/ worker.key = k /\ worker'.obj = v
    PROVE  \A j \in Keys : Copies(j)' \subseteq Copies(j) \cup {api'[j]}
<1>1. Copies(k)' \subseteq Copies(k) \cup {api'[k]}
  BY CommitLemma DEF Copies
<1>2. \A j \in Keys : j # k => Copies(j)' \subseteq Copies(j)
  BY CommitLemma DEF Copies, InFlight
<1> QED
  BY <1>1, <1>2

\* Who holds copies when none has been made.
LEMMA SameHeld ==
    ASSUME UNCHANGED <<api, watch, seen>>,
           \/ worker'.key \notin Keys
           \/ worker'.key = worker.key /\ worker'.obj = worker.obj
           \/ worker'.obj \in {seen[worker'.key], api[worker'.key]}
    PROVE  \A j \in Keys : Copies(j)' \subseteq Copies(j) \cup {api[j]}
<1>1. \A j \in Keys : InFlight(j)' = InFlight(j) /\ seen'[j] = seen[j]
  BY DEF InFlight
<1> QED
  BY <1>1 DEF Copies

\* A write of Reconcile makes the only new copies.
LEMMA WriteHeld ==
    ASSUME IInv, TypeOK', worker.pc # "idle", NEW v, NEW next, NEW requeue,
           Write(v, next, requeue),
           next = IdleWorker \/ (next.key = worker.key /\ next.obj = v)
    PROVE  \A j \in Keys : Copies(j)' \subseteq Copies(j) \cup {api[j], api'[j]}
<1>1. PICK k \in Keys : k = worker.key
  BY Held
<1>2. worker'.key \notin Keys \/ (worker'.key = k /\ worker'.obj = v)
  BY <1>1, WriteCases, IdleOK
<1>3. seen' = seen
  BY WriteCases
<1>4. CASE Commit(k, v)
  <2>1. api'[k] = v
    BY <1>4 DEF Commit, IInv, TypeOK
  <2>2. v \in Version
    BY <2>1 DEF TypeOK
  <2> QED
    BY <1>1, <1>2, <1>3, <1>4, <2>2, CommitHeld DEF IInv
<1>5. CASE UNCHANGED <<api, watch>> /\ (worker' = IdleWorker \/ v = api[k])
  BY <1>1, <1>2, <1>3, <1>5, SameHeld, IdleOK
<1> QED
  BY <1>1, <1>4, <1>5, WriteCases

\* No step makes a copy but of the current version, or of the next one.
LEMMA StepHeld ==
    ASSUME IInv, TypeOK', [Next]_vars
    PROVE  \A j \in Keys : Copies(j)' \subseteq Copies(j) \cup {api[j], api'[j]}
<1>1. CASE AddFinalizer \/ SetPending \/ SetCreating \/ SetStatus
           \/ RemoveFinalizer
  <2>1. worker.pc # "idle"
    BY <1>1 DEF AddFinalizer, SetPending, SetCreating, SetStatus, RemoveFinalizer
  <2>2. PICK v, next, requeue :
           /\ Write(v, next, requeue)
           /\ next = IdleWorker
              \/ next = [worker EXCEPT !.pc = "setPending", !.obj = v]
    BY <1>1 DEF AddFinalizer, SetPending, SetCreating, SetStatus, RemoveFinalizer
  <2>3. worker \in WorkerType
    BY <2>1, Held
  <2>4. next = IdleWorker \/ (next.key = worker.key /\ next.obj = v)
    BY <2>2, <2>3 DEF WorkerType
  <2> QED
    BY <2>1, <2>2, <2>4, WriteHeld
<1>2. CASE \/ DefaultTeamID \/ Create \/ ListTeams \/ ListTeamClusters
           \/ ClusterByName \/ ClusterDetail \/ DefaultConnRole \/ Delete
  <2>1. worker \in WorkerType
    BY DEF IInv, TypeOK, WorkerType
  <2>2. /\ UNCHANGED <<api, watch, seen>>
        /\ \/ worker' = IdleWorker
           \/ worker'.key = worker.key /\ worker'.obj = worker.obj
    BY <1>2, <2>1
       DEF DefaultTeamID, Create, ListTeams, ListTeamClusters, ClusterByName,
           ClusterDetail, DefaultConnRole, Delete, Continue, GoOn, ReturnError,
           WorkerType
  <2> QED
    BY <2>2, SameHeld, IdleOK
<1>3. CASE UserStep
  <2>1. PICK k \in Keys : \E v : ForeignCommit(k, v)
    BY <1>3 DEF UserStep, UserDelete, ForeignDelete, Touch, UserCreate, UserEdit
  <2> PICK v : ForeignCommit(k, v)
    BY <2>1
  <2>2. v \in Version
    <3>1. api'[k] = v
      BY <2>1 DEF ForeignCommit, Commit, IInv, TypeOK
    <3> QED
      BY <3>1 DEF TypeOK
  <2>3. worker'.key = worker.key /\ worker'.obj = worker.obj /\ seen' = seen
        /\ Commit(k, v)
    BY <2>1 DEF ForeignCommit, IInv, TypeOK
  <2> QED
    BY <2>2, <2>3, CommitHeld DEF IInv
<1>4. ASSUME NEW k \in Keys, Reconcile(k)
      PROVE  \A j \in Keys : Copies(j)' \subseteq Copies(j) \cup {api[j], api'[j]}
  <2>1. UNCHANGED <<api, watch, seen>>
    BY <1>4 DEF Reconcile, Take
  <2>2. worker' = IdleWorker \/ worker'.obj = seen[worker'.key]
    BY <1>4 DEF Reconcile, Take, IdleWorker
  <2> QED
    BY <2>1, <2>2, SameHeld, IdleOK
<1>5. ASSUME NEW k \in Keys, Deliver(k)
      PROVE  \A j \in Keys : Copies(j)' \subseteq Copies(j)
  <2>1. worker' = worker
    BY <1>5 DEF Deliver
  <2>2. \A j \in Keys : /\ InFlight(j)' \subseteq InFlight(j)
                        /\ seen'[j] \in InFlight(j) \cup {seen[j]}
    BY <1>5, DeliverLemma DEF IInv, InFlight
  <2> QED
    BY <2>1, <2>2 DEF Copies
<1>6. CASE OperatorRestart
  <2>1. \A j \in Keys : Copies(j)' = {api[j]}
    BY <1>6, IdleOK DEF OperatorRestart, Restart, Copies, InFlight
  <2> QED
    BY <2>1
<1>7. CASE ServiceStep \/ Resync \/ UNCHANGED vars
  BY <1>7, SameHeld DEF ServiceStep, Resync, vars
<1> QED
  BY <1>1, <1>2, <1>3, <1>4, <1>5, <1>6, <1>7 DEF Next, WorkerStep, CacheStep

\* What is being deleted is not undeleted.
LEMMA DeletionStays ==
    ASSUME IInv, [Next]_vars, NEW k \in Keys, api[k].life = "deleting"
    PROVE  api'[k].life # "live"
<1>1. CASE api'[k] = api[k]
  BY <1>1
<1>2. CASE WorkerStep /\ api'[k] # api[k]
  <2>1. CASE AddFinalizer \/ SetPending \/ SetCreating \/ SetStatus
    <3>1. worker.pc # "idle" /\ worker.obj.life = "live"
      BY <2>1, Held
         DEF AddFinalizer, SetPending, SetCreating, SetStatus, HeldVersion
    <3>2. PICK v, next, requeue : Write(v, next, requeue)
      BY <2>1 DEF AddFinalizer, SetPending, SetCreating, SetStatus
    <3> QED
      BY <1>2, <3>1, <3>2, WorkerWrites
  <2>2. CASE RemoveFinalizer
    <3>1. worker.pc # "idle" /\ Write(Absent, IdleWorker, {})
      BY <2>2 DEF RemoveFinalizer
    <3> QED
      BY <1>2, <3>1, WorkerWrites, AbsentLife
  <2>3. CASE \/ DefaultTeamID \/ Create \/ ListTeams \/ ListTeamClusters
             \/ ClusterByName \/ ClusterDetail \/ DefaultConnRole \/ Delete
    BY <1>2, <2>3
       DEF DefaultTeamID, Create, ListTeams, ListTeamClusters, ClusterByName,
           ClusterDetail, DefaultConnRole, Delete, Continue
  <2> QED
    BY <1>2, <2>1, <2>2, <2>3 DEF WorkerStep
<1>3. CASE UserStep /\ api'[k] # api[k]
  <2>1. PICK j \in Keys : \E v :
          /\ ForeignCommit(j, v)
          /\ api[j].life \in {"live", "absent"} \/ v = api[j]
    BY <1>3 DEF UserStep, UserDelete, ForeignDelete, Touch, UserCreate, UserEdit
  <2> QED
    BY <1>3, <2>1 DEF ForeignCommit, Commit, IInv, TypeOK
<1>4. CASE ~WorkerStep /\ ~UserStep
  BY <1>1, <1>4
     DEF Next, ServiceStep, CacheStep, OperatorRestart, Resync, Restart, vars,
         Reconcile, Take, Deliver
<1> QED
  BY <1>1, <1>2, <1>3, <1>4

\* Old copies never tell of a deletion that still has a cluster to delete,
\* unless it is the current one.
LEMMA DeletionsInv ==
    ASSUME IInv, TypeOK', OInv, CloudStep, [Next]_vars
    PROVE  DeletionsKnown'
<1> SUFFICES ASSUME NEW k \in Keys, NEW v \in Copies(k)',
                    v.life = "deleting", v.id # NoId
             PROVE  \/ clusters'[v.id].state = "deleted"
                    \/ api'[k].life = "deleting" /\ api'[k].id = v.id
  BY DEF DeletionsKnown
<1>1. CASE v = api'[k]
  BY <1>1
<1>2. CASE v # api'[k]
  <2>1. v = api[k] \/ v \in Copies(k)
    BY <1>2, StepHeld
  <2>2. v.id \in Ids
    <3>1. v \in Version
      BY <2>1 DEF IInv, TypeOK, Copies, InFlight
    <3> QED
      BY <3>1 DEF Version
  <2>3. CASE clusters[v.id].state = "deleted"
    BY <2>2, <2>3 DEF CloudStep, Kept
  <2>4. CASE api[k].life = "deleting" /\ api[k].id = v.id
    <3>1. api'[k].life # "live" /\ (Forward(k) \/ Released(k))
      BY <2>4, DeletionStays, StepForward
    <3>2. api'[k].life \in {"absent", "live", "deleting"}
      BY DEF TypeOK, Version
    <3> QED
      BY <2>4, <3>1, <3>2 DEF Forward, Released
  <2> QED
    BY <2>1, <2>3, <2>4 DEF OInv, DeletionsKnown
<1> QED
  BY <1>1, <1>2

-------------------------------------------------------------------------------
(* What the worker owns.                                                   *)

\* While the worker keeps its locals, it keeps what it owns.
LEMMA WorkerKeeps ==
    ASSUME IInv, OInv, CloudStep,
           worker'.key = worker.key, worker'.obj = worker.obj,
           worker'.pc = worker.pc, worker'.id = worker.id,
           worker'.fresh => worker.fresh
    PROVE  WorkerOwns'
<1>1. PICK k, spec, id : k = worker.key /\ spec = worker.obj.spec /\ id = worker.id
  OBVIOUS
<1>2. ASSUME worker.pc = "setCreating"
      PROVE  \E i \in Ids : CreatedFor(i, k, spec)'
  BY <1>1, <1>2, OwnStays DEF OInv, WorkerOwns
<1>3. ASSUME worker.fresh, id # NoId,
             worker.pc \in {"listTeams", "listClusters", "detail", "role",
                            "setStatus"}
      PROVE  CreatedFor(id, k, spec)'
  <2>1. CreatedFor(id, k, spec)
    BY <1>1, <1>3 DEF OInv, WorkerOwns
  <2>2. id \in Ids
    BY <2>1 DEF CreatedFor, Exists
  <2> QED
    BY <1>3, <2>1, <2>2, OwnStays
<1> QED
  BY <1>1, <1>2, <1>3 DEF WorkerOwns

\* A write of Reconcile keeps what is owned if the version written may follow
\* the one held.
LEMMA WriteOwns ==
    ASSUME IInv, TypeOK', OInv, DeletionsKnown', worker.pc # "idle",
           NEW v, NEW next, NEW requeue, Write(v, next, requeue),
           NEW k \in Keys, k = worker.key,
           worker.fresh => Follows(k, worker.obj, v),
           next.pc \in {"idle", "setPending"}
    PROVE  OInv'
<1>1. clusters' = clusters /\ (worker' = IdleWorker \/ worker' = next)
  BY WriteCases
<1>2. Unique' /\ Telling' /\ CloudStep
  BY <1>1, SameOwn DEF OInv
<1>3. ASSUME NEW j \in Keys PROVE Follows(j, api[j], api'[j])
  <2>1. CASE api'[j] = api[j]
    BY <2>1, SameFollows
  <2>2. CASE api'[j] # api[j]
    <3>1. worker.fresh
      BY <2>2, WriteCases
    <3>2. /\ api[k] = worker.obj /\ api'[k] = v
          /\ \A i \in Keys : i # k => api'[i] = api[i]
      BY <2>2, WorkerWrites
    <3> QED
      BY <2>2, <3>1, <3>2
  <2> QED
    BY <2>1, <2>2
<1>4. Recorded' /\ PhasesMatch'
  BY <1>1, <1>2, <1>3, ObjectsInv
<1>5. worker'.pc \in {"idle", "setPending"}
  BY <1>1 DEF IdleWorker
<1>6. WorkerOwns'
  BY <1>5 DEF WorkerOwns
<1> QED
  BY <1>2, <1>4, <1>6 DEF OInv

\* All writes of Reconcile keep what is owned.
LEMMA WritesOwn ==
    ASSUME IInv, TypeOK', OInv, DeletionsKnown',
           \/ AddFinalizer \/ SetPending \/ SetCreating \/ SetStatus
           \/ RemoveFinalizer
    PROVE  OInv'
<1>1. worker.pc # "idle" /\ IdleWorker.pc = "idle"
  BY DEF AddFinalizer, SetPending, SetCreating, SetStatus, RemoveFinalizer,
         IdleWorker
<1>2. PICK k \in Keys : k = worker.key
  BY <1>1, Held
<1>3. /\ worker.obj \in Version /\ VersionOK(worker.obj)
      /\ HeldVersion(worker.pc, worker.obj) /\ worker \in WorkerType
      /\ Fits(worker, clusters)
  BY <1>1, Held
<1>4. CASE AddFinalizer
  <2> DEFINE v == [worker.obj EXCEPT !.finalizer = TRUE]
             next == [worker EXCEPT !.pc = "setPending", !.obj = v]
  <2>1. Write(v, next, {})
    BY <1>4 DEF AddFinalizer
  <2>2. /\ v.id = worker.obj.id /\ v.life = worker.obj.life
        /\ v.phase = worker.obj.phase /\ v.spec = worker.obj.spec
    BY <1>3 DEF Version
  <2>3. next.pc = "setPending"
    BY <1>3 DEF WorkerType
  <2> HIDE DEF v, next
  <2>4. Follows(k, worker.obj, v)
    BY <2>2 DEF Follows, Matched
  <2> QED
    BY <1>1, <1>2, <2>1, <2>3, <2>4, WriteOwns
<1>5. CASE SetPending
  <2> DEFINE v == [worker.obj EXCEPT !.phase = "Pending"]
  <2>1. Write(v, IdleWorker, {})
    BY <1>5 DEF SetPending
  <2>2. v.id = worker.obj.id /\ v.phase = "Pending"
    BY <1>3 DEF Version
  <2> HIDE DEF v
  <2>3. Follows(k, worker.obj, v)
    BY <2>2 DEF Follows, Matched
  <2> QED
    BY <1>1, <1>2, <2>1, <2>3, WriteOwns
<1>6. CASE SetCreating
  <2> DEFINE v == [worker.obj EXCEPT !.phase = "Creating"]
  <2>1. Write(v, IdleWorker, {})
    BY <1>6 DEF SetCreating
  <2>2. v.id = worker.obj.id /\ v.spec = worker.obj.spec /\ v.phase = "Creating"
    BY <1>3 DEF Version
  <2>3. worker.obj.id = NoId
    BY <1>3, <1>6 DEF SetCreating, HeldVersion, VersionOK
  <2>4. \E i \in Ids : CreatedFor(i, k, v.spec)
    BY <1>2, <1>6, <2>2 DEF SetCreating, OInv, WorkerOwns
  <2> HIDE DEF v
  <2>5. Follows(k, worker.obj, v)
    BY <2>2, <2>3, <2>4 DEF Follows, Matched
  <2> QED
    BY <1>1, <1>2, <2>1, <2>5, WriteOwns
<1>7. CASE SetStatus
  <2> DEFINE v == [worker.obj EXCEPT !.id = worker.id,
                       !.phase = IF worker.ready THEN "Ready" ELSE @]
  <2>1. Write(v, IdleWorker, {worker.key})
    BY <1>7 DEF SetStatus
  <2>2. /\ v.id = worker.id /\ v.spec = worker.obj.spec
        /\ v.phase = "Ready" => worker.ready
    BY <1>3, <1>7 DEF Version, SetStatus, HeldVersion
  <2> HIDE DEF v
  <2>3. ASSUME worker.fresh PROVE Follows(k, worker.obj, v)
    <3>1. PICK id \in Ids : id = worker.id /\ CreatedFor(id, k, v.spec)
      BY <1>2, <1>3, <1>7, <2>2, <2>3
         DEF SetStatus, Fits, WorkerType, OInv, WorkerOwns
    <3>2. /\ clusters[id].owner = k /\ clusters[id].state \in {"creating", "ready"}
          /\ worker.ready => clusters[id].state \in {"ready", "deleted"}
      BY <1>3, <1>7, <3>1 DEF SetStatus, Fits, CreatedFor, Exists
    <3>3. Matched(k, v)
      BY <2>2, <3>1, <3>2 DEF Matched
    <3> QED
      BY <2>2, <3>1, <3>2, <3>3 DEF Follows
  <2> QED
    BY <1>1, <1>2, <2>1, <2>3, WriteOwns
<1>8. CASE RemoveFinalizer
  <2>1. Write(Absent, IdleWorker, {})
    BY <1>8 DEF RemoveFinalizer
  <2>2. Follows(k, worker.obj, Absent)
    BY DEF Follows, Matched, Absent
  <2> QED
    BY <1>1, <1>2, <2>1, <2>2, WriteOwns
<1> QED
  BY <1>4, <1>5, <1>6, <1>7, <1>8

\* A call of the Bridge API keeps what is owned if the worker goes on owning.
LEMMA CallOwns ==
    ASSUME IInv, TypeOK', OInv, Unique', Telling', CloudStep, DeletionsKnown',
           NEW reply, NEW next, Continue(reply, next),
           worker' = next => WorkerOwns'
    PROVE  OInv'
<1>1. api' = api /\ (worker' = IdleWorker \/ worker' = next)
  BY DEF Continue, GoOn, ReturnError
<1>2. Recorded' /\ PhasesMatch'
  BY <1>1, SameFollows, ObjectsInv
<1>3. worker' = IdleWorker => WorkerOwns'
  BY DEF WorkerOwns, IdleWorker
<1> QED
  BY <1>1, <1>2, <1>3 DEF OInv

\* A request that succeeds has built the cluster that the worker will own.
LEMMA CreateOwns ==
    ASSUME IInv, TypeOK', OInv, Unique', Telling', CloudStep, DeletionsKnown',
           Undisturbed, Create
    PROVE  OInv'
<1> DEFINE next == [worker EXCEPT !.pc = "setCreating"]
<1>1. worker \in WorkerType
  BY Held DEF Create
<1>2. PICK k, spec : k = worker.key /\ spec = worker.obj.spec
  OBVIOUS
<1>3. PICK reply \in {"ok", "error"} :
          CreateCluster(spec.name, Team(spec), k, reply) /\ Continue(reply, next)
  BY <1>2 DEF Create
<1>4. CASE reply = "error"
  <2>1. Continue(reply, IdleWorker)
    BY <1>3, <1>4 DEF Continue
  <2>2. worker' = IdleWorker => WorkerOwns'
    BY DEF WorkerOwns, IdleWorker
  <2> QED
    BY <2>1, <2>2, CallOwns
<1>5. CASE reply = "ok"
  <2>1. Build(spec.name, Team(spec), k)
    BY <1>3, <1>5 DEF CreateCluster, Fault, Undisturbed
  <2>2. PICK name, team : name = spec.name /\ team = Team(spec)
    OBVIOUS
  <2>3. PICK i \in Ids :
            /\ clusters'[i].state = "creating" /\ clusters'[i].name = name
            /\ clusters'[i].team = team /\ clusters'[i].owner = k
    BY <2>1, <2>2, BuildStep DEF IInv
  <2>4. CreatedFor(i, k, spec)'
    BY <2>2, <2>3 DEF CreatedFor, Exists, Team
  <2>5. /\ next.pc = "setCreating" /\ next.key = k /\ next.obj.spec = spec
    BY <1>1, <1>2 DEF WorkerType
  <2> HIDE DEF next
  <2>6. worker' = next => WorkerOwns'
    BY <2>4, <2>5 DEF WorkerOwns
  <2> QED
    BY <1>3, <2>6, CallOwns
<1> QED
  BY <1>4, <1>5

\* Listing the clusters of a team finds the object's own cluster or none.
LEMMA ListOwns ==
    ASSUME IInv, TypeOK', OInv, Unique', Telling', CloudStep, DeletionsKnown',
           ListTeamClusters
    PROVE  OInv'
<1> DEFINE ids == Named(worker.obj.spec.name, Head(worker.todo))
           choice == IF worker.id = NoId /\ ids # {} THEN ids ELSE {worker.id}
           next(id) == [worker EXCEPT !.todo = Tail(@), !.id = id]
<1>1. /\ worker \in WorkerType /\ worker.key \in Keys
      /\ worker.pc = "listClusters" /\ VersionOK(worker.obj)
      /\ worker.obj.life = "live" /\ worker.obj.phase = "Creating"
  BY Held DEF ListTeamClusters, HeldVersion
<1>2. PICK k, spec : k = worker.key /\ spec = worker.obj.spec
  OBVIOUS
<1>3. PICK reply \in {"ok", "error"} :
          Read(reply) /\ \E id \in choice : Continue(reply, next(id))
  BY DEF ListTeamClusters
<1>4. PICK id \in choice : Continue(reply, next(id))
  BY <1>3
<1>5. clusters' = clusters
  BY <1>3 DEF Read
<1>6. /\ next(id).pc = "listClusters" /\ next(id).key = k /\ next(id).id = id
      /\ next(id).fresh = worker.fresh /\ next(id).obj = worker.obj
  BY <1>1, <1>2 DEF WorkerType
<1>7. ASSUME worker.fresh, id # NoId PROVE CreatedFor(id, k, spec)
  <2>1. CASE worker.id # NoId
    BY <1>1, <1>2, <1>7, <2>1 DEF OInv, WorkerOwns
  <2>2. CASE worker.id = NoId
    <3>1. Exists(id) /\ clusters[id].name = spec.name
      BY <1>2, <1>7, <2>2 DEF Named
    <3>2. spec \in Specs
      BY <1>1, <1>2 DEF VersionOK
    <3>3. clusters[id].team = Team(spec)
      BY <3>1, <3>2 DEF OInv, Telling, Exists
    <3>4. PICK i \in Ids : CreatedFor(i, k, spec)
      <4>1. worker.obj = api[k] /\ k \in Keys
        BY <1>1, <1>2, <1>7 DEF IInv, FreshIsCurrent
      <4>2. Matched(k, worker.obj)
        BY <4>1 DEF OInv, PhasesMatch
      <4> QED
        BY <1>1, <1>2, <4>2 DEF Matched
    <3>5. id = i
      BY <3>1, <3>3, <3>4 DEF OInv, Unique, CreatedFor, Exists
    <3> QED
      BY <3>4, <3>5
  <2> QED
    BY <2>1, <2>2
<1> HIDE DEF next
<1>8. worker' = next(id) => WorkerOwns'
  <2> SUFFICES ASSUME worker' = next(id) PROVE WorkerOwns'
    OBVIOUS
  <2>1. worker.fresh /\ id # NoId => CreatedFor(id, k, spec)'
    BY <1>5, <1>7 DEF CreatedFor, Exists, Team
  <2> QED
    BY <1>2, <1>6, <2>1 DEF WorkerOwns
<1> QED
  BY <1>4, <1>8, CallOwns

\* The other calls of Reconcile keep what is owned.
LEMMA CallsOwn ==
    ASSUME IInv, TypeOK', OInv, Unique', Telling', CloudStep, DeletionsKnown',
           \/ DefaultTeamID \/ ListTeams \/ ClusterByName \/ ClusterDetail
           \/ DefaultConnRole \/ Delete
    PROVE  OInv'
<1>1. worker \in WorkerType
  BY DEF IInv, TypeOK, WorkerType
<1>2. PICK next : \E reply \in {"ok", "error"} :
          /\ Continue(reply, next)
          /\ \/ next.pc \in {"create", "unfinalize"}
             \/ /\ clusters' = clusters
                /\ next.key = worker.key /\ next.obj = worker.obj
                /\ next.id = worker.id /\ next.fresh = worker.fresh
                /\ next.pc # "setCreating"
                /\ worker.pc \in {"listTeams", "listClusters", "detail", "role",
                                  "setStatus"}
  <2>1. CASE DefaultTeamID
    <3> DEFINE next == [worker EXCEPT !.pc = "create"]
    <3>1. PICK reply \in {"ok", "error"} : Continue(reply, next)
      BY <2>1 DEF DefaultTeamID
    <3>2. next.pc = "create"
      BY <1>1 DEF WorkerType
    <3> HIDE DEF next
    <3> QED
      BY <3>1, <3>2
  <2>2. CASE ListTeams
    <3> DEFINE next == [worker EXCEPT !.pc = "listClusters", !.todo = TeamOrder]
    <3>1. PICK reply \in {"ok", "error"} : Read(reply) /\ Continue(reply, next)
      BY <2>2 DEF ListTeams
    <3>2. /\ next.key = worker.key /\ next.obj = worker.obj
          /\ next.id = worker.id /\ next.fresh = worker.fresh
          /\ next.pc = "listClusters" /\ worker.pc = "listTeams"
      BY <1>1, <2>2 DEF ListTeams, WorkerType
    <3> HIDE DEF next
    <3> QED
      BY <3>1, <3>2 DEF Read
  <2>3. CASE ClusterByName
    <3> DEFINE next == [worker EXCEPT !.pc = "detail"]
    <3>1. \/ Continue("ok", next)
          \/ Continue("error", next)
      BY <2>3 DEF ClusterByName, Continue, GoOn
    <3>2. /\ next.key = worker.key /\ next.obj = worker.obj
          /\ next.id = worker.id /\ next.fresh = worker.fresh
          /\ next.pc = "detail" /\ worker.pc = "listClusters"
          /\ clusters' = clusters
      BY <1>1, <2>3 DEF ClusterByName, WorkerType
    <3> HIDE DEF next
    <3> QED
      BY <3>1, <3>2
  <2>4. CASE ClusterDetail
    <3> DEFINE next == [worker EXCEPT !.pc = "role",
                            !.ready = (clusters[worker.id].state = "ready")]
    <3>1. PICK reply \in {"ok", "error"} :
              ReadCluster(worker.id, reply) /\ Continue(reply, next)
      BY <2>4 DEF ClusterDetail
    <3>2. /\ next.key = worker.key /\ next.obj = worker.obj
          /\ next.id = worker.id /\ next.fresh = worker.fresh
          /\ next.pc = "role" /\ worker.pc = "detail"
      BY <1>1, <2>4 DEF ClusterDetail, WorkerType
    <3> HIDE DEF next
    <3> QED
      BY <3>1, <3>2 DEF ReadCluster
  <2>5. CASE DefaultConnRole
    <3> DEFINE next == [worker EXCEPT !.pc = "setStatus"]
    <3>1. PICK reply \in {"ok", "error"} :
              ReadCluster(worker.id, reply) /\ Continue(reply, next)
      BY <2>5 DEF DefaultConnRole
    <3>2. /\ next.key = worker.key /\ next.obj = worker.obj
          /\ next.id = worker.id /\ next.fresh = worker.fresh
          /\ next.pc = "setStatus" /\ worker.pc = "role"
      BY <1>1, <2>5 DEF DefaultConnRole, WorkerType
    <3> HIDE DEF next
    <3> QED
      BY <3>1, <3>2 DEF ReadCluster
  <2>6. CASE Delete
    <3> DEFINE next == [worker EXCEPT !.pc = "unfinalize"]
    <3>1. PICK reply \in {"ok", "error"} : Continue(reply, next)
      BY <2>6 DEF Delete
    <3>2. next.pc = "unfinalize"
      BY <1>1 DEF WorkerType
    <3> HIDE DEF next
    <3> QED
      BY <3>1, <3>2
  <2> QED
    BY <2>1, <2>2, <2>3, <2>4, <2>5, <2>6
<1>3. CASE next.pc \in {"create", "unfinalize"}
  BY <1>2, <1>3, CallOwns DEF WorkerOwns
<1>4. CASE next.pc \notin {"create", "unfinalize"}
  <2>1. PICK k, spec, id :
            k = worker.key /\ spec = worker.obj.spec /\ id = worker.id
    OBVIOUS
  <2>2. worker.fresh /\ id # NoId => CreatedFor(id, k, spec)
    BY <1>2, <1>4, <2>1 DEF OInv, WorkerOwns
  <2>3. worker.fresh /\ id # NoId => CreatedFor(id, k, spec)'
    BY <1>2, <1>4, <2>2 DEF CreatedFor, Exists, Team
  <2>4. worker' = next => WorkerOwns'
    BY <1>2, <1>4, <2>1, <2>3 DEF WorkerOwns
  <2> QED
    BY <1>2, <2>4, CallOwns
<1> QED
  BY <1>3, <1>4

\* Starting Reconcile keeps what is owned: a recorded cluster that it goes on
\* with is the one of the current version, or nothing will be written.
LEMMA ReconcileOwns ==
    ASSUME IInv, TypeOK', OInv, DeletionsKnown', NEW k \in Keys, Reconcile(k)
    PROVE  OInv'
<1> DEFINE pc == FirstCall(seen[k])
           busy == [IdleWorker EXCEPT !.pc = pc, !.key = k, !.obj = seen[k],
                                      !.fresh = (watch[k] = <<>>),
                                      !.id = seen[k].id]
<1>1. /\ clusters' = clusters /\ api' = api
      /\ worker' = IdleWorker \/ worker' = busy
  BY DEF Reconcile, Take
<1>2. Unique' /\ Telling' /\ CloudStep
  BY <1>1, SameOwn DEF OInv
<1>3. Recorded' /\ PhasesMatch'
  BY <1>1, <1>2, SameFollows, ObjectsInv
<1>4. seen[k] \in Version /\ VersionOK(seen[k])
  BY DEF IInv, TypeOK, CopiesOK, Copies
<1>5. pc # "setCreating"
      /\ (pc \in {"listTeams", "listClusters", "detail", "role", "setStatus"} =>
              seen[k].life = "live" /\ seen[k].phase = "Creating")
  BY <1>4 DEF FirstCall, DeletionCall, PhaseCall, Version, Phases
<1>6. /\ busy.pc = pc /\ busy.key = k /\ busy.id = seen[k].id
      /\ busy.fresh = (watch[k] = <<>>) /\ busy.obj = seen[k]
  BY DEF IdleWorker
<1> HIDE DEF pc, busy
<1>7. ASSUME watch[k] = <<>>, seen[k].id # NoId,
             seen[k].life = "live" /\ seen[k].phase = "Creating"
      PROVE  CreatedFor(seen[k].id, k, seen[k].spec)
  <2>1. seen[k] = api[k]
    BY <1>7 DEF IInv, CacheConverges
  <2>2. Matched(k, seen[k])
    BY <2>1 DEF OInv, PhasesMatch
  <2> QED
    BY <1>7, <2>2 DEF Matched
<1>8. WorkerOwns'
  <2>1. CASE worker' = IdleWorker
    BY <2>1 DEF WorkerOwns, IdleWorker
  <2>2. CASE worker' = busy
    <3>1. PICK id, spec : id = seen[k].id /\ spec = seen[k].spec
      OBVIOUS
    <3>2. ASSUME watch[k] = <<>>, id # NoId,
                 pc \in {"listTeams", "listClusters", "detail", "role",
                         "setStatus"}
          PROVE  CreatedFor(id, k, spec)'
      BY <1>1, <1>5, <1>7, <3>1, <3>2 DEF CreatedFor, Exists, Team
    <3> QED
      BY <1>5, <1>6, <2>2, <3>1, <3>2 DEF WorkerOwns
  <2> QED
    BY <1>1, <2>1, <2>2
<1> QED
  BY <1>2, <1>3, <1>8 DEF OInv

\* What users do to objects, short of editing a spec, keeps what is owned.
LEMMA UserOwns ==
    ASSUME IInv, TypeOK', OInv, DeletionsKnown', Undisturbed, UserStep
    PROVE  OInv'
<1>1. PICK k \in Keys :
        \/ UserDelete(k)
        \/ Touch(k)
        \/ \E spec \in Specs : UserCreate(k, spec)
  BY DEF UserStep, UserEdit, Fault, Undisturbed
<1>2. clusters' = clusters
  BY <1>1 DEF UserDelete, Edit, Touch, UserCreate
<1>3. Unique' /\ Telling' /\ CloudStep
  BY <1>2, SameOwn DEF OInv
<1>4. PICK v : /\ ForeignCommit(k, v)
               /\ \/ v = api[k] \/ v = Absent
                  \/ v = [api[k] EXCEPT !.life = "deleting"]
                  \/ \E spec \in Specs :
                        v = [Absent EXCEPT !.life = "live", !.spec = spec]
  <2>1. CASE UserDelete(k)
    BY <2>1 DEF UserDelete, ForeignDelete
  <2>2. CASE Touch(k)
    BY <2>2 DEF Touch
  <2>3. CASE \E spec \in Specs : UserCreate(k, spec)
    BY <2>3 DEF UserCreate
  <2> QED
    BY <1>1, <2>1, <2>2, <2>3
<1>5. Follows(k, api[k], v)
  <2>1. api[k] \in Version
    BY DEF IInv, TypeOK
  <2>2. CASE v = api[k]
    BY <2>2, SameFollows
  <2>3. CASE v = Absent
    BY <2>3 DEF Follows, Matched, Absent
  <2>4. CASE v = [api[k] EXCEPT !.life = "deleting"]
    BY <2>1, <2>4 DEF Follows, Matched, Version
  <2>5. CASE \E spec \in Specs :
                 v = [Absent EXCEPT !.life = "live", !.spec = spec]
    <3>1. v.id = NoId /\ v.phase = ""
      BY <2>5 DEF Absent
    <3> QED
      BY <3>1 DEF Follows, Matched
  <2> QED
    BY <1>4, <2>2, <2>3, <2>4, <2>5
<1>6. /\ api'[k] = v /\ \A j \in Keys : j # k => api'[j] = api[j]
      /\ worker'.key = worker.key /\ worker'.obj = worker.obj
      /\ worker'.pc = worker.pc /\ worker'.id = worker.id
      /\ worker'.fresh => worker.fresh
  BY <1>4 DEF ForeignCommit, Commit, IInv, TypeOK
<1>7. \A j \in Keys : Follows(j, api[j], api'[j])
  BY <1>5, <1>6, SameFollows
<1>8. Recorded' /\ PhasesMatch'
  BY <1>2, <1>3, <1>7, ObjectsInv
<1>9. WorkerOwns'
  BY <1>3, <1>6, WorkerKeeps
<1> QED
  BY <1>3, <1>8, <1>9 DEF OInv

\* Every step keeps what is owned.
LEMMA StepOwns ==
    ASSUME IInv, OInv, NamesTellTeams, Undisturbed, [Next]_vars
    PROVE  OInv'
<1>1. TypeOK' /\ Unique' /\ Telling' /\ CloudStep
  BY StepInv, CloudInv DEF IInv
<1>2. DeletionsKnown'
  BY <1>1, DeletionsInv
<1>3. CASE WorkerStep
  BY <1>1, <1>2, <1>3, WritesOwn, CreateOwns, ListOwns, CallsOwn DEF WorkerStep
<1>4. CASE UserStep
  BY <1>1, <1>2, <1>4, UserOwns
<1>5. CASE \E k \in Keys : Reconcile(k)
  BY <1>1, <1>2, <1>5, ReconcileOwns
<1>6. CASE ServiceStep \/ CacheStep \/ OperatorRestart \/ UNCHANGED vars
  <2>1. api' = api /\ (worker' = worker \/ worker' = IdleWorker)
    BY <1>6 DEF ServiceStep, CacheStep, Resync, Deliver, OperatorRestart,
                Restart, vars
  <2>2. Recorded' /\ PhasesMatch'
    BY <1>1, <2>1, SameFollows, ObjectsInv
  <2>3. WorkerOwns'
    <3>1. CASE worker' = worker
      BY <1>1, <3>1, WorkerKeeps
    <3>2. CASE worker' = IdleWorker
      BY <3>2 DEF WorkerOwns, IdleWorker
    <3> QED
      BY <2>1, <3>1, <3>2
  <2> QED
    BY <1>1, <1>2, <2>2, <2>3 DEF OInv
<1> QED
  BY <1>3, <1>4, <1>5, <1>6 DEF Next

\* At first nobody owns anything.
LEMMA InitOwns == Init => OInv
<1> SUFFICES ASSUME Init PROVE OInv
  OBVIOUS
<1>1. \A i \in Ids : ~Exists(i)
  BY DEF Init, ApiInit, NoCluster, Exists
<1>2. \A k \in Keys : /\ api[k] = Absent
                      /\ Copies(k) = {Absent}
  BY KeysOwn DEF Init, IdleWorker, Copies, InFlight
<1>3. Absent.id = NoId /\ Absent.life = "absent"
  BY DEF Absent
<1>4. worker.pc = "idle"
  BY DEF Init, IdleWorker
<1> QED
  BY <1>1, <1>2, <1>3, <1>4
     DEF OInv, Unique, Telling, Recorded, PhasesMatch, Matched, DeletionsKnown,
         WorkerOwns

\* Where nothing disturbs the operator and names tell teams, every object
\* records its own cluster, in every state.
LEMMA OwnCorrect ==
    ASSUME NamesTellTeams, Undisturbed
    PROVE  Spec => [](IInv /\ OInv)
<1>1. IInv /\ OInv /\ [Next]_vars => IInv' /\ OInv'
  BY StepInv, StepOwns
<1>2. Init => IInv /\ OInv
  BY InitInv, InitOwns
<1> QED
  BY <1>1, <1>2, PTL DEF Spec

\* The cluster recorded in an object's status was created for that object.
THEOREM RecordsItsOwn ==
    ASSUME NamesTellTeams, Undisturbed
    PROVE  Spec => []Ownership
<1>1. OInv => Ownership
  BY DEF OInv, Recorded, Ownership
<1> QED
  BY <1>1, OwnCorrect, PTL

\* An object in Creating or Ready has a cluster, and in Ready a ready one.
THEOREM PhasesTellClusters ==
    ASSUME NamesTellTeams, Undisturbed
    PROVE  Spec => []PhaseMatchesCluster
<1>1. OInv => PhaseMatchesCluster
  BY DEF OInv, PhasesMatch, Matched, CreatedFor, PhaseMatchesCluster
<1> QED
  BY <1>1, OwnCorrect, PTL

================================================================================
