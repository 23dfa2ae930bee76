------------------------ MODULE BridgeClusterRefinement ------------------------
(***************************************************************************)
(* The BridgeCluster controller implements ClusterLifecycle, for any       *)
(* objects, teams, clusters, faults and bounds.  The inductive invariant   *)
(* of BridgeClusterProofs says of every write what version it was made     *)
(* from; that version is the current one, so that the write is one of the  *)
(* abstract steps.                                                         *)
(***************************************************************************)
EXTENDS BridgeClusterProofs

\* What is seen of a version.
LEMMA OutsideOf ==
    ASSUME NEW v \in Version
    PROVE  /\ Outside(v).life = v.life
           /\ Outside(v).finalizer = v.finalizer
           /\ Outside(v).phase = v.phase
           /\ Outside(v).id = v.id
  BY DEF Outside

\* What is seen of the versions that Reconcile and users make from it.
LEMMA OutsideNew ==
    ASSUME NEW v \in Version, NEW flag, NEW phase
    PROVE  /\ Outside([v EXCEPT !.finalizer = flag])
                  = [Outside(v) EXCEPT !.finalizer = flag]
           /\ Outside([v EXCEPT !.life = "deleting"])
                  = [Outside(v) EXCEPT !.life = "deleting"]
           /\ Outside([v EXCEPT !.phase = phase])
                  = [Outside(v) EXCEPT !.phase = phase]
<1>1. Outside([v EXCEPT !.finalizer = flag])
          = [Outside(v) EXCEPT !.finalizer = flag]
  BY DEF Outside, Version
<1>2. Outside([v EXCEPT !.life = "deleting"])
          = [Outside(v) EXCEPT !.life = "deleting"]
  BY DEF Outside, Version
<1>3. Outside([v EXCEPT !.phase = phase])
          = [Outside(v) EXCEPT !.phase = phase]
  BY DEF Outside, Version
<1> QED
  BY <1>1, <1>2, <1>3

\* What is seen of the version with a new status.
LEMMA OutsideStatus ==
    ASSUME NEW v \in Version, NEW id, NEW phase
    PROVE  Outside([v EXCEPT !.id = id, !.phase = phase])
               = [life |-> v.life, finalizer |-> v.finalizer,
                  phase |-> phase, id |-> id]
  BY DEF Outside, Version

\* An object that does not exist looks so.
LEMMA AbsentOutside == Outside(Absent) = Lifecycle!Absent
  BY DEF Outside, Absent, Lifecycle!Absent

\* The abstract object of name k.
LEMMA ObjectOf ==
    ASSUME NEW k \in Keys
    PROVE  [j \in Keys |-> Outside(api[j])][k] = Outside(api[k])
  OBVIOUS

\* The abstract state of cluster i.
LEMMA StateOf ==
    ASSUME NEW i \in Ids
    PROVE  [j \in Ids |-> clusters[j].state][i] = clusters[i].state
  OBVIOUS

\* A write of one object at the API server is an abstract write.
LEMMA WriteMapped ==
    ASSUME NEW k \in Keys, NEW v, api'[k] = v,
           \A j \in Keys : j # k => api'[j] = api[j],
           clusters' = clusters
    PROVE  Lifecycle!Write(k, Outside(v))
<1>1. [j \in Keys |-> Outside(api'[j])] =
        [[j \in Keys |-> Outside(api[j])] EXCEPT ![k] = Outside(v)]
  OBVIOUS
<1> QED
  BY <1>1 DEF Lifecycle!Write, Outside

\* What is neither at the API server nor at the service is not seen outside.
LEMMA NothingSeen ==
    ASSUME api' = api, clusters' = clusters
    PROVE  UNCHANGED Lifecycle!vars
  BY DEF Lifecycle!vars, Outside

\* An abstract step of object k.
ObjectStep(k) ==
    \/ Lifecycle!UserCreate(k) \/ Lifecycle!UserDelete(k)
    \/ Lifecycle!AddFinalizer(k) \/ Lifecycle!SetPending(k)
    \/ Lifecycle!Request(k) \/ Lifecycle!SetCreating(k)
    \/ \E i \in Ids : Lifecycle!Record(k, i)
    \/ Lifecycle!SetDeleting(k) \/ Lifecycle!Release(k)

\* What Reconcile writes is an abstract step of its object, or changes nothing.
LEMMA WritesRefine ==
    ASSUME IInv,
           \/ AddFinalizer \/ SetPending \/ SetCreating \/ SetStatus
           \/ RemoveFinalizer
    PROVE  UNCHANGED Lifecycle!vars \/ \E k \in Keys : ObjectStep(k)
<1> DEFINE obj == worker.obj
<1>1. worker.pc # "idle" /\ clusters' = clusters
  BY WriteCases DEF AddFinalizer, SetPending, SetCreating, SetStatus,
                    RemoveFinalizer
<1>2. CASE api' = api
  BY <1>1, <1>2, NothingSeen
<1>3. PICK k \in Keys : k = worker.key /\ obj \in Version
  BY <1>1, Held
<1> SUFFICES ASSUME api' # api PROVE ObjectStep(k)
  BY <1>2
<1>4. ASSUME NEW v, NEW next, NEW requeue, Write(v, next, requeue)
      PROVE  /\ Lifecycle!Write(k, Outside(v))
             /\ [j \in Keys |-> Outside(api[j])][k] = Outside(obj)
  <2>1. /\ api[k] = obj /\ api'[k] = v
        /\ \A j \in Keys : j # k => api'[j] = api[j]
    BY <1>1, <1>3, <1>4, WorkerWrites
  <2> QED
    BY <1>1, <1>3, <2>1, WriteMapped, ObjectOf
<1>5. CASE AddFinalizer
  <2>1. /\ Lifecycle!Write(k, Outside([obj EXCEPT !.finalizer = TRUE]))
        /\ [j \in Keys |-> Outside(api[j])][k] = Outside(obj)
    BY <1>4, <1>5 DEF AddFinalizer
  <2>2. obj.life = "live" /\ obj.phase = ""
    BY <1>1, <1>5, Held DEF AddFinalizer, HeldVersion
  <2>3. Outside([obj EXCEPT !.finalizer = TRUE])
          = [Outside(obj) EXCEPT !.finalizer = TRUE]
    BY <1>3, OutsideNew
  <2>4. Lifecycle!AddFinalizer(k)
    BY <1>3, <2>1, <2>2, <2>3, OutsideOf DEF Lifecycle!AddFinalizer
  <2> QED
    BY <2>4 DEF ObjectStep
<1>6. CASE SetPending
  <2>1. /\ Lifecycle!Write(k, Outside([obj EXCEPT !.phase = "Pending"]))
        /\ [j \in Keys |-> Outside(api[j])][k] = Outside(obj)
    BY <1>4, <1>6 DEF SetPending
  <2>2. obj.life = "live" /\ obj.phase = "" /\ obj.finalizer
    BY <1>1, <1>6, Held DEF SetPending, HeldVersion
  <2>3. Outside([obj EXCEPT !.phase = "Pending"])
          = [Outside(obj) EXCEPT !.phase = "Pending"]
    BY <1>3, OutsideNew
  <2>4. Lifecycle!SetPending(k)
    BY <1>3, <2>1, <2>2, <2>3, OutsideOf DEF Lifecycle!SetPending
  <2> QED
    BY <2>4 DEF ObjectStep
<1>7. CASE SetCreating
  <2>1. /\ Lifecycle!Write(k, Outside([obj EXCEPT !.phase = "Creating"]))
        /\ [j \in Keys |-> Outside(api[j])][k] = Outside(obj)
    BY <1>4, <1>7 DEF SetCreating
  <2>2. obj.life = "live" /\ obj.phase = "Pending"
    BY <1>1, <1>7, Held DEF SetCreating, HeldVersion
  <2>3. Outside([obj EXCEPT !.phase = "Creating"])
          = [Outside(obj) EXCEPT !.phase = "Creating"]
    BY <1>3, OutsideNew
  <2>4. Lifecycle!SetCreating(k)
    BY <1>3, <2>1, <2>2, <2>3, OutsideOf DEF Lifecycle!SetCreating
  <2> QED
    BY <2>4 DEF ObjectStep
<1>8. CASE SetStatus
  <2> DEFINE i == worker.id
             phase == IF worker.ready THEN "Ready" ELSE obj.phase
  <2>1. /\ Lifecycle!Write(k, Outside([obj EXCEPT !.id = i, !.phase = phase]))
        /\ [j \in Keys |-> Outside(api[j])][k] = Outside(obj)
    BY <1>4, <1>8 DEF SetStatus
  <2>2. /\ obj.life = "live" /\ obj.phase = "Creating"
        /\ obj.finalizer = TRUE
        /\ i \in Ids /\ obj.id \in {NoId, i}
        /\ worker.ready => clusters[i].state \in {"ready", "deleted"}
    BY <1>1, <1>3, <1>8, Held
       DEF SetStatus, HeldVersion, VersionOK, Version, Fits, WorkerType
  <2>3. phase = "Ready" =>
            [j \in Ids |-> clusters[j].state][i] \in {"ready", "deleted"}
    BY <2>2, StateOf
  <2>4. Outside([obj EXCEPT !.id = i, !.phase = phase])
          = [life |-> "live", finalizer |-> TRUE, phase |-> phase, id |-> i]
    BY <1>3, <2>2, OutsideStatus
  <2>5. phase \in {"Creating", "Ready"}
    BY <2>2
  <2> HIDE DEF phase
  <2>6. Lifecycle!Record(k, i)
    BY <1>3, <2>1, <2>2, <2>3, <2>4, <2>5, OutsideOf DEF Lifecycle!Record
  <2> QED
    BY <2>2, <2>6 DEF ObjectStep
<1>9. CASE RemoveFinalizer
  <2>1. /\ Lifecycle!Write(k, Outside(Absent))
        /\ [j \in Keys |-> Outside(api[j])][k] = Outside(obj)
    BY <1>4, <1>9 DEF RemoveFinalizer
  <2>2. /\ obj.life = "deleting" /\ obj.id \in Ids \cup {NoId}
        /\ obj.id # NoId => clusters[obj.id].state = "deleted"
    BY <1>1, <1>3, <1>9, Held DEF RemoveFinalizer, HeldVersion, Fits, Version
  <2>3. obj.id # NoId => [j \in Ids |-> clusters[j].state][obj.id] = "deleted"
    BY <2>2, StateOf
  <2>4. Lifecycle!Release(k)
    BY <1>3, <2>1, <2>2, <2>3, OutsideOf, AbsentOutside DEF Lifecycle!Release
  <2> QED
    BY <2>4 DEF ObjectStep
<1> QED
  BY <1>5, <1>6, <1>7, <1>8, <1>9

\* A new cluster is an abstract one.
LEMMA BuildRefines ==
    ASSUME TypeOK, NEW name, NEW team, NEW o, Build(name, team, o), api' = api
    PROVE  \E i \in Ids : Lifecycle!Build(i, o)
<1> DEFINE new == [state |-> "creating", name |-> name, team |-> team,
                   owner |-> o]
<1>1. PICK i \in Ids : /\ clusters[i].state = "none"
                       /\ clusters' = [clusters EXCEPT ![i] = new]
  BY DEF Build
<1>2. new.state = "creating" /\ new.owner = o
  OBVIOUS
<1> HIDE DEF new
<1>3. \A j \in Ids : clusters'[j] = IF j = i THEN new ELSE clusters[j]
  BY <1>1 DEF TypeOK, ApiTypeOK
<1>4. [j \in Ids |-> clusters'[j].state] =
        [[j \in Ids |-> clusters[j].state] EXCEPT ![i] = "creating"]
  BY <1>2, <1>3
<1>5. [j \in Ids |-> clusters'[j].owner] =
        [[j \in Ids |-> clusters[j].owner] EXCEPT ![i] = o]
  BY <1>2, <1>3
<1>6. [j \in Ids |-> clusters[j].state][i] = "none"
  BY <1>1, StateOf
<1> QED
  BY <1>4, <1>5, <1>6 DEF Lifecycle!Build, Outside

\* Any other change of a cluster is that of its state.
LEMMA ChangeRefines ==
    ASSUME TypeOK, NEW i \in Ids, NEW to, NEW from, clusters[i].state \in from,
           clusters' = [clusters EXCEPT ![i].state = to], api' = api
    PROVE  Lifecycle!Change(i, from, to)
<1>1. clusters[i] \in ClusterRecord
  BY DEF TypeOK, ApiTypeOK
<1>2. \A j \in Ids : /\ clusters'[j].state = IF j = i THEN to ELSE clusters[j].state
                     /\ clusters'[j].owner = clusters[j].owner
  BY <1>1 DEF TypeOK, ApiTypeOK, ClusterRecord
<1>3. [j \in Ids |-> clusters'[j].state] =
        [[j \in Ids |-> clusters[j].state] EXCEPT ![i] = to]
  BY <1>2
<1>4. [j \in Ids |-> clusters'[j].owner] = [j \in Ids |-> clusters[j].owner]
  BY <1>2
<1>5. [j \in Ids |-> clusters[j].state][i] \in from
  BY StateOf
<1> QED
  BY <1>3, <1>4, <1>5 DEF Lifecycle!Change, Outside

\* A create request that reaches the service is made for an object that has
\* its finalizer, however old the version held.
LEMMA CreateRefines ==
    ASSUME IInv, Create
    PROVE  UNCHANGED Lifecycle!vars \/ \E k \in Keys : ObjectStep(k)
<1>1. worker.pc = "create" /\ api' = api
  BY DEF Create, Continue
<1>2. PICK k \in Keys : /\ k = worker.key
                        /\ worker.obj.life = "live" /\ worker.obj.finalizer
  BY <1>1, Held DEF HeldVersion, VersionOK
<1>3. api[k].finalizer
  <2>1. worker.obj \in Copies(k)
    BY <1>2 DEF Copies
  <2> QED
    BY <1>2, <2>1 DEF IInv, FinalizerKept
<1>4. CASE UNCHANGED clusters
  BY <1>1, <1>4, NothingSeen
<1>5. CASE \E name, team : Build(name, team, k)
  <2>1. \E i \in Ids : Lifecycle!Build(i, k)
    <3>1. ASSUME NEW name, NEW team, Build(name, team, k)
          PROVE  \E i \in Ids : Lifecycle!Build(i, k)
      <4>1. TypeOK /\ api' = api
        BY <1>1 DEF IInv
      <4> QED
        BY <3>1, <4>1, BuildRefines
    <3> QED
      BY <1>5, <3>1
  <2>2. [j \in Keys |-> Outside(api[j])][k].finalizer
    BY <1>2, <1>3, ObjectOf DEF Outside
  <2>3. Lifecycle!Request(k)
    BY <2>1, <2>2 DEF Lifecycle!Request
  <2> QED
    BY <2>3 DEF ObjectStep
<1> QED
  BY <1>2, <1>4, <1>5 DEF Create, CreateCluster

\* DELETE, and what happens at the service without the operator.
LEMMA ServiceRefines ==
    ASSUME IInv, Delete \/ ServiceStep
    PROVE  UNCHANGED Lifecycle!vars \/ Lifecycle!ServiceStep
<1>1. api' = api
  BY DEF Delete, Continue, ServiceStep
<1>2. ASSUME NEW i \in Ids, NEW to, NEW from,
             \/ from = {"creating"} /\ to = "ready"
             \/ from = {"creating", "ready"} /\ to = "deleted",
             clusters[i].state \in from,
             clusters' = [clusters EXCEPT ![i].state = to]
      PROVE  Lifecycle!ServiceStep
  <2>1. Lifecycle!Change(i, from, to)
    BY <1>1, <1>2, ChangeRefines DEF IInv
  <2> QED
    BY <1>2, <2>1 DEF Lifecycle!ServiceStep
<1>3. CASE Delete
  <2>1. CASE UNCHANGED clusters
    BY <1>1, <2>1, NothingSeen
  <2>2. CASE /\ Exists(worker.id)
             /\ clusters' = [clusters EXCEPT ![worker.id].state = "deleted"]
    <3> DEFINE id == worker.id
    <3>1. id \in Ids /\ clusters[id].state \in {"creating", "ready"}
      BY <2>2 DEF Exists
    <3> QED
      BY <1>2, <2>2, <3>1
  <2> QED
    BY <1>3, <2>1, <2>2 DEF Delete, DeleteCluster
<1>4. CASE \E id \in Ids : Provision(id)
  BY <1>2, <1>4 DEF Provision
<1>5. CASE \E id \in Ids : ConsoleDelete(id)
  BY <1>2, <1>5 DEF ConsoleDelete, Exists
<1>6. CASE \E name \in Names, team \in Teams : ConsoleCreate(name, team)
  BY <1>1, <1>6, BuildRefines DEF ConsoleCreate, IInv, Lifecycle!ServiceStep
<1> QED
  BY <1>3, <1>4, <1>5, <1>6 DEF ServiceStep

\* What users write is an abstract step, or changes nothing that is seen.
LEMMA UserRefines ==
    ASSUME IInv, UserStep
    PROVE  UNCHANGED Lifecycle!vars \/ \E k \in Keys : ObjectStep(k)
<1>1. PICK k \in Keys :
        \/ UserDelete(k)
        \/ Touch(k)
        \/ \E spec \in Specs : UserCreate(k, spec) \/ UserEdit(k, spec)
  BY DEF UserStep
<1>2. clusters' = clusters
  BY <1>1 DEF UserDelete, Edit, Touch, UserCreate, UserEdit
<1>3. /\ api[k] \in Version /\ VersionOK(api[k])
      /\ [j \in Keys |-> Outside(api[j])][k] = Outside(api[k])
  BY ObjectOf DEF IInv, TypeOK, CopiesOK
<1>4. ASSUME NEW v, ForeignCommit(k, v)
      PROVE  /\ Lifecycle!Write(k, Outside(v))
             /\ api' = [api EXCEPT ![k] = v]
  <2>1. api' = [api EXCEPT ![k] = v]
    BY <1>4 DEF ForeignCommit, Commit
  <2>2. api'[k] = v /\ \A j \in Keys : j # k => api'[j] = api[j]
    BY <2>1 DEF IInv, TypeOK
  <2> QED
    BY <1>2, <2>1, <2>2, WriteMapped
<1>5. CASE UserDelete(k)
  <2> DEFINE v == IF api[k].finalizer THEN [api[k] EXCEPT !.life = "deleting"]
                                      ELSE Absent
  <2>1. api[k].life = "live" /\ Lifecycle!Write(k, Outside(v))
    BY <1>4, <1>5 DEF UserDelete, ForeignDelete
  <2>2. Outside(v) = IF Outside(api[k]).finalizer
                     THEN [Outside(api[k]) EXCEPT !.life = "deleting"]
                     ELSE Lifecycle!Absent
    BY <1>3, OutsideOf, OutsideNew, AbsentOutside
  <2> HIDE DEF v
  <2>3. Lifecycle!UserDelete(k)
    BY <1>3, <2>1, <2>2, OutsideOf DEF Lifecycle!UserDelete
  <2> QED
    BY <2>3 DEF ObjectStep
<1>6. CASE Touch(k)
  <2>1. api' = [api EXCEPT ![k] = api[k]]
    BY <1>4, <1>6 DEF Touch
  <2>2. api' = api
    BY <2>1 DEF IInv, TypeOK
  <2> QED
    BY <1>2, <2>2, NothingSeen
<1>7. ASSUME NEW spec \in Specs, UserCreate(k, spec) PROVE ObjectStep(k)
  <2> DEFINE v == [Absent EXCEPT !.life = "live", !.spec = spec]
  <2>1. api[k].life = "absent" /\ Lifecycle!Write(k, Outside(v))
    BY <1>4, <1>7 DEF UserCreate
  <2>2. Outside(v) = Lifecycle!New
    <3>1. /\ v.life = "live" /\ v.finalizer = FALSE /\ v.phase = ""
          /\ v.id = NoId
      BY DEF Absent
    <3> HIDE DEF v
    <3> QED
      BY <3>1 DEF Outside, Lifecycle!New
  <2>3. Lifecycle!UserCreate(k)
    BY <1>3, <2>1, <2>2, OutsideOf DEF Lifecycle!UserCreate
  <2> QED
    BY <2>3 DEF ObjectStep
<1>8. ASSUME NEW spec \in Specs, UserEdit(k, spec)
      PROVE  UNCHANGED Lifecycle!vars
  <2> DEFINE v == [api[k] EXCEPT !.spec = spec]
  <2>1. api' = [api EXCEPT ![k] = v]
    BY <1>4, <1>8 DEF UserEdit
  <2>2. Outside(v) = Outside(api[k])
    BY <1>3 DEF Outside, Version
  <2>3. \A j \in Keys : Outside(api'[j]) = Outside(api[j])
    BY <2>1, <2>2 DEF IInv, TypeOK
  <2>4. [j \in Keys |-> Outside(api'[j])] = [j \in Keys |-> Outside(api[j])]
    BY <2>3
  <2> QED
    BY <1>2, <2>4 DEF Lifecycle!vars, Outside
<1> QED
  BY <1>1, <1>5, <1>6, <1>7, <1>8

\* Every step of the system is an abstract step or changes nothing outside.
LEMMA StepRefines ==
    ASSUME IInv, [Next]_vars
    PROVE  [Lifecycle!Next]_(Lifecycle!vars)
<1>1. ASSUME \E k \in Keys : ObjectStep(k) PROVE Lifecycle!Next
  BY <1>1 DEF ObjectStep, Lifecycle!Next
<1>2. CASE \/ AddFinalizer \/ SetPending \/ SetCreating \/ SetStatus
           \/ RemoveFinalizer \/ Create
  <2>1. CASE Create
    BY <1>1, <2>1, CreateRefines
  <2>2. CASE ~Create
    BY <1>1, <1>2, <2>2, WritesRefine
  <2> QED
    BY <2>1, <2>2
<1>3. CASE Delete \/ ServiceStep
  BY <1>3, ServiceRefines DEF Lifecycle!Next
<1>4. CASE UserStep
  BY <1>1, <1>4, UserRefines
<1>5. CASE \/ DefaultTeamID \/ ListTeams \/ ListTeamClusters \/ ClusterByName
           \/ ClusterDetail \/ DefaultConnRole \/ CacheStep
           \/ OperatorRestart \/ UNCHANGED vars
           \/ \E k \in Keys : Reconcile(k)
  <2>1. api' = api /\ clusters' = clusters
    BY <1>5 DEF DefaultTeamID, ListTeams, ListTeamClusters, ClusterByName,
                ClusterDetail, DefaultConnRole, Continue, Read, ReadCluster,
                CacheStep, Resync, Deliver, OperatorRestart, Restart, vars,
                Reconcile, Take
  <2> QED
    BY <2>1, NothingSeen
<1> QED
  BY <1>2, <1>3, <1>4, <1>5 DEF Next, WorkerStep

\* At first there is no object and no cluster.
LEMMA InitRefines == Init => Lifecycle!Init
<1> SUFFICES ASSUME Init PROVE Lifecycle!Init
  OBVIOUS
<1>1. [k \in Keys |-> Outside(api[k])] = [k \in Keys |-> Lifecycle!Absent]
  BY AbsentOutside DEF Init
<1>2. \A i \in Ids : clusters[i].state = "none" /\ clusters[i].owner = Nobody
  BY DEF Init, ApiInit, NoCluster
<1>3. /\ [i \in Ids |-> clusters[i].state] = [i \in Ids |-> "none"]
      /\ [i \in Ids |-> clusters[i].owner] = [i \in Ids |-> Nobody]
  BY <1>2
<1> QED
  BY <1>1, <1>3 DEF Lifecycle!Init, Outside

\* The BridgeCluster controller, with its lagging cache, lost answers, failed
\* writes and restarts, does to the objects and their clusters only what
\* ClusterLifecycle allows.
THEOREM LifecycleImplemented == Spec => ImplementsLifecycle
<1>1. IInv /\ [Next]_vars => [Lifecycle!Next]_(Lifecycle!vars)
  BY StepRefines
<1> QED
  BY <1>1, InitInv, StepInv, InitRefines, PTL
     DEF Spec, ImplementsLifecycle, Lifecycle!Spec

================================================================================
