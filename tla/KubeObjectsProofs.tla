-------------------------- MODULE KubeObjectsProofs --------------------------
(***************************************************************************)
(* What a controller may rely on whatever its Reconcile does: the cache    *)
(* converges, a write that is accepted was made from the current version,  *)
(* and no copy of an object outlives its finalizer.  The proofs about      *)
(* controllers instantiate this module as their models do KubeObjects.     *)
(*                                                                         *)
(* V is the set of the versions that the controller and the users write.   *)
(***************************************************************************)
EXTENDS KubeObjects, SequenceTheorems, TLAPS

\* The cache will end at the current version.
Converges(k) ==
    IF watch[k] = <<>> THEN seen[k] = api[k]
                       ELSE watch[k][Len(watch[k])] = api[k]

CacheOK(V) ==
    /\ api \in [Keys -> V]
    /\ watch \in [Keys -> Seq(V)]
    /\ seen \in [Keys -> V]
    /\ \A k \in Keys : Converges(k)

InFlight(k) == {watch[k][i] : i \in DOMAIN watch[k]}

\* Every version of object k that somebody still holds or will see.
Copies(k) == {seen[k]} \cup InFlight(k)
                       \cup (IF worker.key = k THEN {worker.obj} ELSE {})

FinalizerKept ==
    \A k \in Keys : \A v \in Copies(k) :
        v.life = "live" /\ v.finalizer => api[k].finalizer

\* The worker holds the current version if its write would be accepted, and
\* no copy from before the deletion is left if that one is being deleted.
FreshIsCurrent ==
    worker.fresh =>
        /\ worker.key \in Keys
        /\ worker.obj = api[worker.key]
        /\ worker.obj.life = "deleting" =>
               \A v \in Copies(worker.key) : v.life = "deleting"

CopiesOK(V) ==
    /\ worker.key \in Keys => worker.obj \in V
    /\ FinalizerKept
    /\ FreshIsCurrent

\* Between two Reconciles the worker holds nothing.
IdleHolds == IdleWorker.key \notin Keys /\ ~IdleWorker.fresh

-------------------------------------------------------------------------------
(* The cache.                                                              *)

\* Taking the head off a sequence leaves its last element where it was.
LEMMA LastOfTail ==
    ASSUME NEW S, NEW s \in Seq(S), s # <<>>
    PROVE  /\ Tail(s) = <<>> => Head(s) = s[Len(s)]
           /\ Tail(s) # <<>> => Tail(s)[Len(Tail(s))] = s[Len(s)]
<1>1. Len(s) \in Nat /\ Len(s) # 0
  BY EmptySeq
<1>2. Tail(s) \in Seq(S)
  BY HeadTailProperties
<1>3. Len(Tail(s)) = Len(s) - 1
  BY HeadTailProperties
<1>4. ASSUME Tail(s) = <<>> PROVE Head(s) = s[Len(s)]
  <2>1. Len(<<>>) = 0
    OBVIOUS
  <2>2. Len(Tail(s)) = 0
    BY <1>4, <2>1, Zenon
  <2>3. Len(s) - 1 = 0
    BY <1>3, <2>2, Zenon
  <2>4. \A n \in Nat : n - 1 = 0 => n = 1
    OBVIOUS
  <2>5. Len(s) = 1
    BY <1>1, <2>3, <2>4, Zenon
  <2> QED
    BY <2>5
<1>5. ASSUME Tail(s) # <<>> PROVE Tail(s)[Len(Tail(s))] = s[Len(s)]
  <2>1. Len(Tail(s)) \in 1..Len(Tail(s))
    BY <1>2, <1>5, EmptySeq
  <2>2. Tail(s)[Len(Tail(s))] = s[Len(Tail(s)) + 1]
    BY <2>1, HeadTailProperties
  <2>3. Len(Tail(s)) + 1 = Len(s)
    BY <1>1, <1>3
  <2> QED
    BY <2>2, <2>3
<1> QED
  BY <1>4, <1>5

\* A committed version is the server's and the last one on its way to the
\* cache, and no other object is touched.
LEMMA CommitCache ==
    ASSUME NEW V, CacheOK(V), NEW k \in Keys, NEW v \in V, Commit(k, v),
           seen' = seen
    PROVE  /\ CacheOK(V)'
           /\ api'[k] = v
           /\ InFlight(k)' = InFlight(k) \cup {v}
           /\ \A j \in Keys : j # k => /\ api'[j] = api[j]
                                       /\ InFlight(j)' = InFlight(j)
<1>1. /\ api' \in [Keys -> V]
      /\ watch' \in [Keys -> Seq(V)]
      /\ api'[k] = v
      /\ watch'[k] = Append(watch[k], v)
      /\ \A j \in Keys : j # k => api'[j] = api[j] /\ watch'[j] = watch[j]
  BY DEF CacheOK, Commit
<1>2. watch[k] \in Seq(V)
  BY DEF CacheOK
<1>3. \A i \in DOMAIN Append(watch[k], v) :
        Append(watch[k], v)[i] = IF i \in DOMAIN watch[k] THEN watch[k][i] ELSE v
  BY <1>2
<1>4. DOMAIN Append(watch[k], v) = DOMAIN watch[k] \cup {Len(watch[k]) + 1}
      /\ Len(watch[k]) + 1 \notin DOMAIN watch[k]
  BY <1>2
<1>5. InFlight(k)' = InFlight(k) \cup {v}
  BY <1>1, <1>3, <1>4 DEF InFlight
<1>6. watch'[k] # <<>> /\ watch'[k][Len(watch'[k])] = v
  BY <1>1, <1>2
<1>7. \A j \in Keys : Converges(j)'
  BY <1>1, <1>6 DEF CacheOK, Converges
<1> QED
  BY <1>1, <1>5, <1>7 DEF CacheOK, InFlight

\* What the cache receives was on its way.
LEMMA DeliverCache ==
    ASSUME NEW V, CacheOK(V), NEW k \in Keys, Deliver(k)
    PROVE  /\ CacheOK(V)'
           /\ seen'[k] \in InFlight(k)
           /\ InFlight(k)' \subseteq InFlight(k)
           /\ \A j \in Keys : j # k => /\ seen'[j] = seen[j]
                                       /\ InFlight(j)' = InFlight(j)
<1>1. watch[k] \in Seq(V) /\ watch[k] # <<>>
  BY DEF CacheOK, Deliver
<1>2. /\ Head(watch[k]) \in V
      /\ Head(watch[k]) = watch[k][1] /\ 1 \in DOMAIN watch[k]
      /\ Tail(watch[k]) \in Seq(V)
  BY <1>1
<1>3. \A i \in DOMAIN Tail(watch[k]) :
        Tail(watch[k])[i] = watch[k][i + 1] /\ i + 1 \in DOMAIN watch[k]
  BY <1>1
<1>4. /\ watch'[k] = Tail(watch[k])
      /\ seen'[k] = Head(watch[k])
      /\ watch' \in [Keys -> Seq(V)]
      /\ seen' \in [Keys -> V]
      /\ api' = api
      /\ \A j \in Keys : j # k => seen'[j] = seen[j] /\ watch'[j] = watch[j]
  BY <1>2 DEF CacheOK, Deliver
<1>5. watch[k][Len(watch[k])] = api[k]
  BY <1>1 DEF CacheOK, Converges
<1>6. \A j \in Keys : Converges(j)'
  <2>1. Converges(k)'
    <3>1. /\ Tail(watch[k]) = <<>> => Head(watch[k]) = api[k]
          /\ Tail(watch[k]) # <<>> =>
                 Tail(watch[k])[Len(Tail(watch[k]))] = api[k]
      BY <1>1, <1>5, LastOfTail
    <3> QED
      BY <1>4, <3>1 DEF Converges
  <2>2. ASSUME NEW j \in Keys, j # k PROVE Converges(j)'
    BY <1>4, <2>2 DEF CacheOK, Converges
  <2> QED
    BY <2>1, <2>2
<1>7. seen'[k] \in InFlight(k) /\ InFlight(k)' \subseteq InFlight(k)
  BY <1>2, <1>3, <1>4 DEF InFlight
<1> QED
  BY <1>4, <1>6, <1>7 DEF CacheOK, InFlight

\* A restart reads everything anew.
LEMMA RestartCache ==
    ASSUME NEW V, CacheOK(V), Restart
    PROVE  /\ CacheOK(V)'
           /\ \A k \in Keys : seen'[k] = api[k] /\ InFlight(k)' = {}
<1>1. api' = api /\ seen' = api /\ watch' = [k \in Keys |-> <<>>]
  BY DEF Restart
<1>2. watch' \in [Keys -> Seq(V)]
  BY <1>1
<1>3. \A k \in Keys : Converges(k)'
  BY <1>1 DEF Converges
<1> QED
  BY <1>1, <1>2, <1>3 DEF CacheOK, InFlight

\* Steps that concern the worker and the queue only.
LEMMA SameCache ==
    ASSUME NEW V, CacheOK(V), UNCHANGED <<api, watch, seen>>
    PROVE  CacheOK(V)' /\ \A k \in Keys : InFlight(k)' = InFlight(k)
  BY DEF CacheOK, Converges, InFlight

-------------------------------------------------------------------------------
(* What is held and written.                                               *)

\* A write from Reconcile makes the version from the current one or changes
\* nothing, and Reconcile goes on only if there was nothing to change.
LEMMA UpdateCases ==
    ASSUME NEW v, NEW next, NEW requeue, NEW failing,
           Update(v, next, requeue, failing)
    PROVE  /\ \/ worker.fresh /\ Commit(worker.key, v)
              \/ /\ UNCHANGED <<api, watch>>
                 /\ worker' = IdleWorker \/ (worker.fresh /\ v = api[worker.key])
           /\ worker' = IdleWorker \/ worker' = next
           /\ queue' = queue \cup requeue \/ queue' = queue \cup {worker.key}
           /\ seen' = seen
  BY DEF Update, GoOn, ReturnError

\* An idle worker claims nothing.
LEMMA IdleCopies ==
    ASSUME NEW V, IdleHolds, worker' = IdleWorker,
           \A k \in Keys : \A v \in {seen'[k]} \cup InFlight(k)' :
               v.life = "live" /\ v.finalizer => api'[k].finalizer
    PROVE  CopiesOK(V)'
  BY DEF IdleHolds, CopiesOK, FinalizerKept, FreshIsCurrent, Copies

\* A new version keeps the claims if it does not drop a finalizer that a live
\* copy still shows.
LEMMA CommitCopies ==
    ASSUME NEW V, IdleHolds, CacheOK(V), CopiesOK(V),
           NEW k \in Keys, NEW v \in V, Commit(k, v), seen' = seen,
           \A c \in Copies(k) : c.life = "live" /\ c.finalizer => v.finalizer,
           \/ worker' = IdleWorker
           \/ /\ worker.key = k /\ worker'.key = k /\ worker'.obj = v
              /\ worker.obj.life = "deleting" =>
                     worker.fresh /\ v.life = "deleting"
              /\ v.life = "deleting" => worker.obj.life = "deleting"
           \/ /\ worker'.key = worker.key /\ worker'.obj = worker.obj
              /\ worker'.fresh => worker.fresh /\ worker.key # k
    PROVE  CopiesOK(V)'
<1>1. /\ api'[k] = v
      /\ InFlight(k)' = InFlight(k) \cup {v}
      /\ \A j \in Keys : j # k => api'[j] = api[j] /\ InFlight(j)' = InFlight(j)
  BY CommitCache
<1>2. \A j \in Keys : \A c \in {seen'[j]} \cup InFlight(j)' :
          c.life = "live" /\ c.finalizer => api'[j].finalizer
  BY <1>1 DEF CopiesOK, FinalizerKept, Copies
<1>3. CASE worker' = IdleWorker
  BY <1>2, <1>3, IdleCopies
<1>4. CASE /\ worker.key = k /\ worker'.key = k /\ worker'.obj = v
           /\ worker.obj.life = "deleting" =>
                  worker.fresh /\ v.life = "deleting"
           /\ v.life = "deleting" => worker.obj.life = "deleting"
  <2>1. FinalizerKept'
    BY <1>1, <1>2, <1>4 DEF FinalizerKept, Copies
  <2>2. v.life = "deleting" => \A c \in Copies(k)' : c.life = "deleting"
    BY <1>1, <1>4 DEF CopiesOK, FreshIsCurrent, Copies
  <2>3. FreshIsCurrent'
    BY <1>1, <1>4, <2>2 DEF FreshIsCurrent
  <2> QED
    BY <1>4, <2>1, <2>3 DEF CopiesOK
<1>5. CASE /\ worker'.key = worker.key /\ worker'.obj = worker.obj
           /\ worker'.fresh => worker.fresh /\ worker.key # k
  <2>1. FinalizerKept'
    BY <1>1, <1>2, <1>5 DEF CopiesOK, FinalizerKept, Copies
  <2>2. FreshIsCurrent'
    BY <1>1, <1>5 DEF CopiesOK, FreshIsCurrent, Copies
  <2> QED
    BY <1>5, <2>1, <2>2 DEF CopiesOK
<1> QED
  BY <1>3, <1>4, <1>5

\* Without a new version nothing is lost if the worker holds nothing new.
LEMMA SameCopies ==
    ASSUME NEW V, IdleHolds, CacheOK(V), CopiesOK(V),
           UNCHANGED <<api, watch, seen>>,
           \/ worker' = IdleWorker
           \/ /\ worker'.key = worker.key /\ worker'.obj = worker.obj
              /\ worker'.fresh => worker.fresh
    PROVE  CopiesOK(V)'
<1>1. \A k \in Keys : /\ InFlight(k)' = InFlight(k)
                      /\ seen'[k] = seen[k] /\ api'[k] = api[k]
  BY SameCache
<1>2. CASE worker' = IdleWorker
  BY <1>1, <1>2, IdleCopies DEF CopiesOK, FinalizerKept, Copies
<1>3. CASE /\ worker'.key = worker.key /\ worker'.obj = worker.obj
           /\ worker'.fresh => worker.fresh
  BY <1>1, <1>3 DEF CopiesOK, FinalizerKept, FreshIsCurrent, Copies
<1> QED
  BY <1>2, <1>3

\* A write from Reconcile keeps the claims.  The finalizer may be dropped from
\* an object that is being deleted: it is dropped only if the write is
\* accepted, and then no copy is live any more.
LEMMA UpdateCopies ==
    ASSUME NEW V, IdleHolds, CacheOK(V), CopiesOK(V), worker.key \in Keys,
           NEW v \in V, NEW next, NEW requeue, NEW failing,
           Update(v, next, requeue, failing),
           (worker.obj.finalizer => v.finalizer) \/ worker.obj.life = "deleting",
           \/ next = IdleWorker
           \/ next.key = worker.key /\ next.obj = v /\ v.life = worker.obj.life
    PROVE  CacheOK(V)' /\ CopiesOK(V)'
<1> DEFINE k == worker.key
<1>1. CASE worker.fresh /\ Commit(k, v)
  <2>1. worker.obj = api[k]
    BY <1>1 DEF CopiesOK, FreshIsCurrent
  <2>2. \A c \in Copies(k) : c.life = "live" /\ c.finalizer => v.finalizer
    <3>1. CASE worker.obj.finalizer => v.finalizer
      BY <2>1, <3>1 DEF CopiesOK, FinalizerKept
    <3>2. CASE worker.obj.life = "deleting"
      BY <1>1, <3>2 DEF CopiesOK, FreshIsCurrent
    <3> QED
      BY <3>1, <3>2
  <2>3. CacheOK(V)'
    BY <1>1, UpdateCases, CommitCache
  <2>4. worker' = IdleWorker
        \/ /\ worker'.key = k /\ worker'.obj = v
           /\ v.life = worker.obj.life
    BY UpdateCases
  <2> QED
    BY <1>1, <2>2, <2>3, <2>4, UpdateCases, CommitCopies
<1>2. CASE /\ UNCHANGED <<api, watch>>
           /\ worker' = IdleWorker \/ (worker.fresh /\ v = api[k])
  <2>1. /\ CacheOK(V)' /\ UNCHANGED <<api, watch, seen>>
        /\ \A j \in Keys : InFlight(j)' = InFlight(j)
    BY <1>2, UpdateCases, SameCache
  <2>2. CASE worker' = IdleWorker
    BY <2>1, <2>2, SameCopies
  <2>3. CASE worker' # IdleWorker
    <3>1. /\ worker.fresh /\ v = worker.obj
          /\ worker'.key = k /\ worker'.obj = worker.obj
      BY <1>2, <2>3, UpdateCases DEF CopiesOK, FreshIsCurrent
    <3> QED
      BY <2>1, <3>1, SameCopies
  <2> QED
    BY <2>1, <2>2, <2>3
<1> QED
  BY <1>1, <1>2, UpdateCases

\* A write of somebody else keeps the claims if it keeps the finalizer.
LEMMA ForeignCopies ==
    ASSUME NEW V, IdleHolds, CacheOK(V), CopiesOK(V), NEW k \in Keys,
           NEW v \in V, ForeignCommit(k, v), api[k].finalizer => v.finalizer,
           worker'.key = worker.key, worker'.obj = worker.obj,
           worker'.fresh => worker.fresh /\ worker.key # k
    PROVE  CacheOK(V)' /\ CopiesOK(V)'
<1>1. Commit(k, v) /\ seen' = seen
  BY DEF ForeignCommit
<1>2. \A c \in Copies(k) : c.life = "live" /\ c.finalizer => v.finalizer
  BY DEF CopiesOK, FinalizerKept
<1> QED
  BY <1>1, <1>2, CommitCache, CommitCopies

\* Reconcile starts with what the cache has, however old.
LEMMA TakeCopies ==
    ASSUME NEW V, IdleHolds, CacheOK(V), CopiesOK(V), NEW k \in Keys, NEW next,
           Take(k, next),
           \/ next = IdleWorker
           \/ /\ next.key = k /\ next.obj = seen[k]
              /\ next.fresh = (watch[k] = <<>>)
    PROVE  CacheOK(V)' /\ CopiesOK(V)'
<1>1. UNCHANGED <<api, watch, seen>> /\ worker' = next
  BY DEF Take
<1>2. CacheOK(V)' /\ \A j \in Keys : InFlight(j)' = InFlight(j)
  BY <1>1, SameCache
<1>3. CASE next = IdleWorker
  BY <1>1, <1>2, <1>3, SameCopies
<1>4. CASE next.key = k /\ next.obj = seen[k] /\ next.fresh = (watch[k] = <<>>)
  <2>1. \A j \in Keys : Copies(j)' \subseteq Copies(j)
    BY <1>1, <1>2, <1>4 DEF Copies
  <2>2. FinalizerKept'
    BY <1>1, <2>1 DEF CopiesOK, FinalizerKept
  <2>3. ASSUME watch[k] = <<>>
        PROVE  seen[k] = api[k] /\ Copies(k)' = {seen[k]}
    <3>1. InFlight(k) = {}
      BY <2>3 DEF InFlight
    <3> QED
      BY <1>1, <1>2, <1>4, <2>3, <3>1 DEF CacheOK, Converges, Copies
  <2>4. FreshIsCurrent'
    BY <1>1, <1>4, <2>3 DEF FreshIsCurrent
  <2> QED
    BY <1>1, <1>2, <1>4, <2>2, <2>4 DEF CacheOK, CopiesOK
<1> QED
  BY <1>3, <1>4

\* An event that reaches the cache leaves fewer copies.
LEMMA DeliverCopies ==
    ASSUME NEW V, CacheOK(V), CopiesOK(V), NEW k \in Keys, Deliver(k)
    PROVE  CacheOK(V)' /\ CopiesOK(V)'
<1>1. api' = api /\ worker' = worker
  BY DEF Deliver
<1>2. \A j \in Keys : Copies(j)' \subseteq Copies(j)
  BY <1>1, DeliverCache DEF Copies
<1> QED
  BY <1>1, <1>2, DeliverCache DEF CopiesOK, FinalizerKept, FreshIsCurrent

\* After a restart the only copies are the current versions.
LEMMA RestartCopies ==
    ASSUME NEW V, IdleHolds, CacheOK(V), Restart
    PROVE  CacheOK(V)' /\ CopiesOK(V)'
<1>1. worker' = IdleWorker /\ api' = api
  BY DEF Restart
<1> QED
  BY <1>1, RestartCache, IdleCopies

==============================================================================
