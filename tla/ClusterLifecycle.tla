--------------------------- MODULE ClusterLifecycle ---------------------------
(***************************************************************************)
(* What the two cluster controllers promise for their objects, without the *)
(* cache, the queue and the calls by which they keep it: BridgeCluster     *)
(* (apis/crunchybridge/v1alpha1/bridgecluster_types.go) and                *)
(* CrunchyBridgeInstance, with the clusters at the service.  Every write   *)
(* is made to the current object, phases advance one by one, clusters are  *)
(* requested only under the finalizer, and an object that has recorded a   *)
(* cluster outlives it.                                                    *)
(***************************************************************************)
CONSTANTS
    Keys,   \* names of objects
    Ids,    \* cluster identifiers
    NoId,   \* an empty identifier in the status
    Nobody  \* the owner of a cluster that no object has requested

VARIABLES
    object,  \* of each name: life, finalizer, phase and recorded identifier
    state,   \* of each cluster at the service
    owner    \* the object each cluster was requested for

vars == <<object, state, owner>>

Absent == [life |-> "absent", finalizer |-> FALSE, phase |-> "", id |-> NoId]
New    == [life |-> "live", finalizer |-> FALSE, phase |-> "", id |-> NoId]

Init ==
    /\ object = [k \in Keys |-> Absent]
    /\ state = [i \in Ids |-> "none"]
    /\ owner = [i \in Ids |-> Nobody]

\* A write to the object.
Write(k, version) ==
    /\ object' = [object EXCEPT ![k] = version]
    /\ UNCHANGED <<state, owner>>

UserCreate(k) ==
    /\ object[k].life = "absent"
    /\ Write(k, New)

UserDelete(k) ==
    /\ object[k].life = "live"
    /\ Write(k, IF object[k].finalizer
                THEN [object[k] EXCEPT !.life = "deleting"] ELSE Absent)

AddFinalizer(k) ==
    /\ object[k].life = "live" /\ object[k].phase = ""
    /\ Write(k, [object[k] EXCEPT !.finalizer = TRUE])

SetPending(k) ==
    /\ object[k].life = "live" /\ object[k].phase = "" /\ object[k].finalizer
    /\ Write(k, [object[k] EXCEPT !.phase = "Pending"])

SetCreating(k) ==
    /\ object[k].life = "live" /\ object[k].phase = "Pending"
    /\ Write(k, [object[k] EXCEPT !.phase = "Creating"])

\* The identifier is recorded once, with or before the phase Ready.
Record(k, i) ==
    /\ object[k].life = "live" /\ object[k].phase = "Creating"
    /\ object[k].id \in {NoId, i}
    /\ \E phase \in {"Creating", "Ready"} :
          /\ phase = "Ready" => state[i] \in {"ready", "deleted"}
          /\ Write(k, [life |-> "live", finalizer |-> TRUE,
                       phase |-> phase, id |-> i])

\* CrunchyBridgeInstance only.
SetDeleting(k) ==
    /\ object[k].life = "deleting" /\ object[k].id # NoId
    /\ Write(k, [object[k] EXCEPT !.phase = "Deleting"])

Release(k) ==
    /\ object[k].life = "deleting"
    /\ object[k].id # NoId => state[object[k].id] = "deleted"
    /\ Write(k, Absent)

\* The service builds a cluster for an owner.
Build(i, o) ==
    /\ state[i] = "none"
    /\ state' = [state EXCEPT ![i] = "creating"]
    /\ owner' = [owner EXCEPT ![i] = o]
    /\ UNCHANGED object

Change(i, from, to) ==
    /\ state[i] \in from
    /\ state' = [state EXCEPT ![i] = to]
    /\ UNCHANGED <<object, owner>>

\* The service without a request: a cluster of somebody else, progress, and
\* deletions, whoever asked for them.
ServiceStep ==
    \E i \in Ids : \/ Build(i, Nobody)
                  \/ Change(i, {"creating"}, "ready")
                  \/ Change(i, {"creating", "ready"}, "deleted")

\* A request that reaches the service, perhaps once more in a later phase.
Request(k) ==
    /\ object[k].finalizer
    /\ \E i \in Ids : Build(i, k)

Next ==
    \/ \E k \in Keys :
          \/ UserCreate(k) \/ UserDelete(k)
          \/ AddFinalizer(k) \/ SetPending(k) \/ Request(k) \/ SetCreating(k)
          \/ \E i \in Ids : Record(k, i)
          \/ SetDeleting(k) \/ Release(k)
    \/ ServiceStep

Spec == Init /\ [][Next]_vars

===============================================================================
