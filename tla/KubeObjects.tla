----------------------------- MODULE KubeObjects -----------------------------
(***************************************************************************)
(* The API server, the informer cache and the work queue, as one           *)
(* controller of the operator uses them through controller-runtime.  A     *)
(* controller takes object keys from the queue, reads objects from a cache *)
(* that lags behind the API server, and writes to the API server, which    *)
(* refuses a write made from an outdated version.                          *)
(*                                                                         *)
(* A version of an object is a record with at least                        *)
(*   life       "absent", "live", or "deleting": with a deletion timestamp *)
(*   finalizer  whether the controller's finalizer is there                *)
(* and the worker, the locals of the running Reconcile, one with at least  *)
(*   pc     the call that Reconcile makes next                             *)
(*   key    the object it was called for                                   *)
(*   obj    the version it holds                                           *)
(*   fresh  whether nobody else has written the object since that version  *)
(***************************************************************************)
EXTENDS Sequences

CONSTANTS
    Keys,        \* the names of the objects
    Absent,      \* the version of an object that does not exist
    IdleWorker   \* the worker when no Reconcile is running

VARIABLES
    api,       \* the current version of each object at the API server
    watch,     \* versions the server has not yet sent to the cache
    seen,      \* the version of each object in the cache
    queue,     \* keys waiting for Reconcile
    worker     \* the running Reconcile

Commit(k, version) ==
    /\ api' = [api EXCEPT ![k] = version]
    /\ watch' = [watch EXCEPT ![k] = Append(@, version)]

\* Mutant: the error is logged and nil is returned.
ReturnErrorSwallowed ==
    /\ worker' = IdleWorker
    /\ UNCHANGED queue

\* Return with an error: the key is queued again.
ReturnError ==
    /\ worker' = IdleWorker
    /\ queue' = queue \cup {worker.key}

\* Go on as next, with the keys of requeue queued again.
GoOn(next, requeue) ==
    /\ worker' = next
    /\ queue' = queue \cup requeue

\* r.Update and r.Status().Update of version, made from the version that
\* Reconcile holds.  An update that changes nothing, not even a timestamp in
\* the status, makes no new version.  A failing write may have been applied.
Update(version, next, requeue, failing) ==
    /\ \/ /\ worker.fresh
          /\ \/ Commit(worker.key, version)
             \/ version = api[worker.key] /\ UNCHANGED <<api, watch>>
          /\ IF failing THEN ReturnError ELSE GoOn(next, requeue)
       \/ /\ failing \/ ~worker.fresh
          /\ UNCHANGED <<api, watch>>
          /\ ReturnError
    /\ UNCHANGED seen

\* The worker takes a key, gets the object from the cache and goes on as next.
Take(k, next) ==
    /\ worker.pc = "idle"
    /\ k \in queue
    /\ queue' = queue \ {k}
    /\ worker' = next
    /\ UNCHANGED <<api, watch, seen>>

\* The cache receives the next version and the controller queues the key.
Deliver(k) ==
    /\ watch[k] # <<>>
    /\ seen' = [seen EXCEPT ![k] = Head(watch[k])]
    /\ watch' = [watch EXCEPT ![k] = Tail(@)]
    /\ queue' = queue \cup {k}
    /\ UNCHANGED <<api, worker>>

\* SyncPeriod: everything in the cache is queued again.
Resync ==
    /\ queue' = queue \cup {k \in Keys : seen[k].life # "absent"}
    /\ UNCHANGED <<api, watch, seen, worker>>

\* The operator stops and starts again.
Restart ==
    /\ worker' = IdleWorker
    /\ seen' = api
    /\ watch' = [k \in Keys |-> <<>>]
    /\ queue' = {k \in Keys : api[k].life # "absent"}
    /\ UNCHANGED api

\* Somebody else writes the object.
ForeignCommit(k, version) ==
    /\ Commit(k, version)
    /\ worker' = IF worker.key = k THEN [worker EXCEPT !.fresh = FALSE]
                                   ELSE worker
    /\ UNCHANGED <<seen, queue>>

\* Somebody deletes the object: with a finalizer it stays until the finalizer
\* is removed.
ForeignDelete(k) ==
    /\ api[k].life = "live"
    /\ ForeignCommit(k, IF api[k].finalizer
                        THEN [api[k] EXCEPT !.life = "deleting"] ELSE Absent)

=============================================================================
