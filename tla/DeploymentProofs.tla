-------------------------- MODULE DeploymentProofs --------------------------
(***************************************************************************)
(* Theorems about Deployment, for every number of deployments, ports,      *)
(* workers, outstanding tasks and failures.                                *)
(*                                                                         *)
(* The inductive invariant IInv adds to the properties of interest what    *)
(* keeps them true: a row always has its provider key, the poll only ever  *)
(* looked at rows with a container, container names are unique, and a row  *)
(* or a task that names a container names one of its own deployment.       *)
(***************************************************************************)
EXTENDS Deployment, TLAPS

RowHasProvider ==
    \A d \in Deployments : Exists(d) =>
        spec[d] # None /\ ProviderKey(spec[d]) \in providers

PollSawContainer ==
    \A d \in Deployments : snap[d] # None \/ writes[d] # None =>
        /\ spec[d] # None
        /\ Exists(d) => rows[d].cid # None

NamesUnique ==
    \A c, k \in Containers :
        docker[c] # None /\ docker[k] # None /\ docker[c].dep = docker[k].dep => c = k

RecordedIsOwn ==
    \A d \in Deployments :
        Exists(d) /\ rows[d].cid # None /\ docker[rows[d].cid] # None
            => docker[rows[d].cid].dep = d

HasCid ==
    \A w \in Workers :
        (At(w, "stop") \/ At(w, "remove") \/ At(w, "follow")) => exec[w].cid # None

IInv ==
    /\ TypeOK
    /\ RunningHasContainer
    /\ RowHasProvider
    /\ PortsDistinctPerOwner
    /\ PollSawContainer
    /\ NamesUnique
    /\ RecordedIsOwn
    /\ HasCid
    /\ BuilderOwnsContainer

-----------------------------------------------------------------------------
(* Types *)

USE DEF Fixed, Row, Key, Msg, Exec, Box, Seen

\* A failure is counted, and the bound is kept.
LEMMA FaultType ==
    ASSUME faults \in 0..MaxFaults, Fault
    PROVE  faults' \in 0..MaxFaults
BY DeploymentAssumption DEF Fault

\* A message that is sent occupies a free slot.
LEMMA EnqueueType ==
    ASSUME task \in [Tasks -> Msg \cup {None}],
           NEW k \in TaskKinds, NEW d \in Deployments, Enqueue(k, d)
    PROVE  task' \in [Tasks -> Msg \cup {None}]
BY DEF Enqueue, Message

\* An acknowledgement frees a slot or changes nothing.
LEMMA AckType ==
    ASSUME task \in [Tasks -> Msg \cup {None}], NEW w \in Workers, Ack(w)
    PROVE  task' \in [Tasks -> Msg \cup {None}]
BY DEF Ack

\* _set_status writes a well-formed row or nothing.
LEMMA SetStatusType ==
    ASSUME rows \in [Deployments -> Row \cup {None}], NEW d \in Deployments,
           NEW s \in Statuses, NEW c \in Containers \cup {None},
           NEW e \in Errors \cup {None}, SetStatus(d, s, c, e)
    PROVE  rows' \in [Deployments -> Row \cup {None}]
BY DEF SetStatus, Exists

LEMMA ApiTypes ==
    ASSUME TypeOK, Api
    PROVE  TypeOK'
<1>1. ASSUME NEW c \in Clients, CreateRead(c)
      PROVE  TypeOK'
  BY <1>1 DEF TypeOK, CreateRead
<1>2. ASSUME NEW c \in Clients, CreateCommit(c)
      PROVE  TypeOK'
  <2>1. req[c] \in Fixed
    BY <1>2 DEF TypeOK, CreateCommit
  <2>2. PICK d \in Deployments :
          /\ spec' = [spec EXCEPT ![d] = req[c]]
          /\ rows' = [rows EXCEPT ![d] = [status |-> "PENDING", cid |-> None,
                                          err |-> None]]
          /\ \/ Enqueue("start", d) /\ UNCHANGED faults
             \/ Fault /\ UNCHANGED task
    BY <1>2 DEF CreateCommit
  <2>3. faults' \in 0..MaxFaults
    BY <2>2, FaultType DEF TypeOK
  <2>4. task' \in [Tasks -> Msg \cup {None}]
    BY <2>2, EnqueueType DEF TypeOK, TaskKinds
  <2>5. providers' \subseteq Key
    BY <1>2, <2>1 DEF TypeOK, CreateCommit, ProviderKey
  <2>6. rows' \in [Deployments -> Row \cup {None}]
    BY <2>2 DEF TypeOK, Statuses
  <2>7. spec' \in [Deployments -> Fixed \cup {None}]
    BY <2>1, <2>2 DEF TypeOK
  <2>. QED
    BY <1>2, <2>3, <2>4, <2>5, <2>6, <2>7 DEF TypeOK, CreateCommit
<1>3. ASSUME NEW c \in Clients, CreateConflict(c)
      PROVE  TypeOK'
  BY <1>3 DEF TypeOK, CreateConflict
<1>4. ASSUME NEW k \in ApiKinds, NEW d \in Deployments, Request(k, d)
      PROVE  TypeOK'
  BY <1>4, DeploymentAssumption, EnqueueType DEF TypeOK, Request
<1>. QED  BY <1>1, <1>2, <1>3, <1>4 DEF Api

LEMMA BrokerTypes ==
    ASSUME TypeOK, Broker
    PROVE  TypeOK'
<1>1. ASSUME NEW w \in Workers, NEW t \in Tasks, Deliver(w, t)
      PROVE  TypeOK'
  <2>1. FirstStep(task[t].kind) \in Steps
    BY <1>1 DEF TypeOK, Deliver, FirstStep, Steps, TaskKinds
  <2>. QED  BY <1>1, <2>1 DEF TypeOK, Deliver
<1>2. ASSUME NEW t \in Tasks, Redeliver(t)
      PROVE  TypeOK'
  BY <1>2, FaultType DEF TypeOK, Redeliver
<1>3. ASSUME NEW w \in Workers, WorkerDies(w)
      PROVE  TypeOK'
  BY <1>3, FaultType, AckType DEF TypeOK, WorkerDies
<1>. QED  BY <1>1, <1>2, <1>3 DEF Broker

LEMMA StartTypes ==
    ASSUME TypeOK, NEW w \in Workers,
           StartRead(w) \/ StartMark(w) \/ RunContainer(w) \/ OllamaPull(w)
             \/ MarkRunning(w) \/ MarkError(w)
    PROVE  TypeOK'
<1>1. CASE StartRead(w)
  BY <1>1, AckType DEF TypeOK, StartRead, At, Goto, Finish, Steps
<1>2. CASE StartMark(w)
  <2>1. /\ exec[w] \in Exec
        /\ exec' \in [Workers -> Exec \cup {None}]
    BY <1>2 DEF TypeOK, StartMark, At, Goto, Fail, Steps, Errors
  <2>2. rows' \in [Deployments -> Row \cup {None}]
    BY <1>2, <2>1, SetStatusType DEF TypeOK, StartMark, Statuses
  <2>. QED  BY <1>2, <2>1, <2>2, FaultType DEF TypeOK, StartMark
<1>3. CASE RunContainer(w)
  <2>0. exec[w] \in Exec
    BY <1>3 DEF TypeOK, RunContainer, At
  <2>1. ASSUME NEW e \in Errors, Fail(w, e)
        PROVE  exec' \in [Workers -> Exec \cup {None}]
    BY <2>0, <2>1 DEF TypeOK, Fail, Steps
  <2>2. CASE (Fault \/ UNCHANGED faults) /\ Fail(w, "docker") /\ UNCHANGED docker
    BY <1>3, <2>1, <2>2, FaultType DEF TypeOK, RunContainer, Errors
  <2>3. CASE Fail(w, "name_conflict") /\ UNCHANGED <<docker, faults>>
    BY <1>3, <2>1, <2>3 DEF TypeOK, RunContainer, Errors
  <2>4. ASSUME NEW c \in Containers, UNCHANGED faults,
               NewBox(c, exec[w].dep, "created"), Fail(w, "port_in_use")
        PROVE  TypeOK'
    BY <1>3, <2>0, <2>1, <2>4
       DEF TypeOK, RunContainer, Errors, NewBox, ContainerStates
  <2>5. ASSUME NEW c \in Containers, NEW s \in Steps, UNCHANGED faults,
               NewBox(c, exec[w].dep, "running"),
               exec' = [exec EXCEPT ![w].cid = c, ![w].step = s]
        PROVE  TypeOK'
    BY <1>3, <2>0, <2>5 DEF TypeOK, RunContainer, NewBox, ContainerStates
  <2>6. {"ollama_pull", "mark_running"} \subseteq Steps
    BY DEF Steps
  <2>. QED  BY <1>3, <2>2, <2>3, <2>4, <2>5, <2>6 DEF RunContainer
<1>4. CASE OllamaPull(w)
  BY <1>4, FaultType DEF TypeOK, OllamaPull, At, Goto, Fail, Steps, Errors
<1>5. CASE MarkRunning(w)
  <2>1. exec[w] \in Exec
    BY <1>5 DEF TypeOK, MarkRunning, At
  <2>2. rows' \in [Deployments -> Row \cup {None}]
    BY <1>5, <2>1, SetStatusType DEF TypeOK, MarkRunning, Statuses
  <2>. QED  BY <1>5, <2>2, AckType DEF TypeOK, MarkRunning, Finish
<1>6. CASE MarkError(w)
  <2>1. exec[w] \in Exec
    BY <1>6 DEF TypeOK, MarkError, At
  <2>2. rows' \in [Deployments -> Row \cup {None}]
    BY <1>6, <2>1, SetStatusType DEF TypeOK, MarkError, Statuses
  <2>3. /\ task' \in [Tasks -> Msg \cup {None}]
        /\ exec' \in [Workers -> Exec \cup {None}]
    BY <1>6, <2>1, AckType DEF TypeOK, MarkError, EndOfStop, Finish, Steps, TaskKinds
  <2>. QED  BY <1>6, <2>2, <2>3 DEF TypeOK, MarkError
<1>. QED  BY <1>1, <1>2, <1>3, <1>4, <1>5, <1>6

LEMMA StopTypes ==
    ASSUME TypeOK, NEW w \in Workers,
           StopRead(w) \/ StopContainer(w) \/ MarkStopped(w) \/ DeleteRead(w)
             \/ RemoveContainer(w) \/ DeleteRow(w) \/ LogsRead(w)
             \/ FollowEnds(w) \/ FollowTruncated(w)
    PROVE  TypeOK'
<1>. DEFINE cid == ContainerIdOf(exec[w].dep)
<1>0. exec[w] \in Exec \cup {None} /\ (exec[w] \in Exec => cid \in Containers \cup {None})
  BY DEF TypeOK, ContainerIdOf, Exists
<1>1. CASE StopRead(w)
  BY <1>0, <1>1 DEF TypeOK, StopRead, At, Steps
<1>2. CASE StopContainer(w)
  <2>1. exec' \in [Workers -> Exec \cup {None}]
    BY <1>2 DEF TypeOK, StopContainer, At, Goto, Fail, Steps, Errors
  <2>2. docker' \in [Containers -> Box \cup {None}]
    BY <1>2 DEF TypeOK, StopContainer, At, ContainerStates
  <2>. QED  BY <1>2, <2>1, <2>2, FaultType DEF TypeOK, StopContainer
<1>3. CASE MarkStopped(w)
  <2>1. exec[w] \in Exec
    BY <1>3 DEF TypeOK, MarkStopped, At
  <2>2. rows' \in [Deployments -> Row \cup {None}]
    BY <1>3, <2>1, SetStatusType DEF TypeOK, MarkStopped, Statuses
  <2>3. /\ task' \in [Tasks -> Msg \cup {None}]
        /\ exec' \in [Workers -> Exec \cup {None}]
    BY <1>3, <2>1, AckType DEF TypeOK, MarkStopped, EndOfStop, Finish, Steps, TaskKinds
  <2>. QED  BY <1>3, <2>2, <2>3 DEF TypeOK, MarkStopped
<1>4. CASE DeleteRead(w)
  BY <1>0, <1>4 DEF TypeOK, DeleteRead, At, Steps
<1>5. CASE RemoveContainer(w)
  BY <1>5, FaultType DEF TypeOK, RemoveContainer, At, Goto, Steps
<1>6. CASE DeleteRow(w)
  BY <1>6, AckType DEF TypeOK, DeleteRow, At, Finish
<1>7. CASE LogsRead(w)
  BY <1>0, <1>7, AckType DEF TypeOK, LogsRead, At, Finish, Steps
<1>8. CASE FollowEnds(w) \/ FollowTruncated(w)
  BY <1>8, AckType DEF TypeOK, FollowEnds, FollowTruncated, At, Finish
<1>. QED  BY <1>1, <1>2, <1>3, <1>4, <1>5, <1>6, <1>7, <1>8

LEMMA EngineTypes ==
    ASSUME TypeOK, Engine
    PROVE  TypeOK'
BY FaultType DEF TypeOK, Engine, ContainerDies, ContainerRevives, IsRunning,
                 ContainerStates

LEMMA PollTypes ==
    ASSUME TypeOK, Poll \/ PollDies
    PROVE  TypeOK'
<1>1. CASE PollRead
  BY <1>1 DEF TypeOK, PollRead, Exists
<1>2. ASSUME NEW d \in Deployments, PollCheck(d)
      PROVE  TypeOK'
  BY <1>2, FaultType DEF TypeOK, PollCheck
<1>3. CASE PollFlush
  <2>1. rows' \in [Deployments -> Row \cup {None}]
    <3>1. CASE rows' = rows
      BY <3>1 DEF TypeOK
    <3>2. CASE /\ \A d \in Deployments : writes[d] # None => Exists(d)
               /\ rows' = [d \in Deployments |->
                             IF writes[d] = None THEN rows[d]
                             ELSE [rows[d] EXCEPT !.status = writes[d]]]
      BY <3>2 DEF TypeOK, Exists, Statuses
    <3>. QED  BY <1>3, <3>1, <3>2 DEF PollFlush
  <2>. QED  BY <1>3, <2>1 DEF TypeOK, PollFlush
<1>4. CASE PollDies
  BY <1>4, FaultType DEF TypeOK, PollDies
<1>. QED  BY <1>1, <1>2, <1>3, <1>4 DEF Poll

\* Every action, in one list.
LEMMA NextTypes == TypeOK /\ [Next]_vars => TypeOK'
<1>. SUFFICES ASSUME TypeOK, [Next]_vars
              PROVE  TypeOK'
  OBVIOUS
<1>1. CASE UNCHANGED vars
  BY <1>1 DEF TypeOK, vars
<1>2. CASE Next
  BY <1>2, ApiTypes, BrokerTypes, StartTypes, StopTypes, EngineTypes, PollTypes
     DEF Next, WorkerStep
<1>. QED  BY <1>1, <1>2

\* Rows, messages, executions and containers keep their shape in every reachable
\* state, for any number of workers, tasks, deployments and failures.
THEOREM TypeCorrect == Spec => []TypeOK
<1>1. Init => TypeOK
  BY DeploymentAssumption DEF Init, TypeOK
<1>. QED  BY <1>1, NextTypes, PTL DEF Spec
-----------------------------------------------------------------------------
(* The inductive invariant *)

\* The part of IInv that is not about types.
Accounted ==
    /\ RunningHasContainer /\ RowHasProvider /\ PortsDistinctPerOwner
    /\ PollSawContainer /\ NamesUnique /\ RecordedIsOwn /\ HasCid
    /\ BuilderOwnsContainer

\* Steps that create or change no container, record none on a row, and leave
\* the worker with at most the container it had.
Modest(w) ==
    /\ UNCHANGED <<spec, providers, docker, snap, writes>>
    /\ \A d \in Deployments : rows'[d] # None =>
         /\ rows[d] # None /\ rows'[d].cid = rows[d].cid
         /\ rows'[d].status = "RUNNING" => rows[d].status = "RUNNING"
    /\ \A v \in Workers : v # w => exec'[v] = exec[v]
    /\ exec'[w] # None =>
         /\ exec[w] # None
         /\ exec'[w].dep = exec[w].dep
         /\ \/ exec'[w].cid \in {exec[w].cid, None}
            \/ \E d \in Deployments : Exists(d) /\ exec'[w].cid = rows[d].cid
         /\ exec'[w].step \in {"stop", "remove", "follow"} => exec'[w].cid # None
         /\ exec'[w].step \in {"ollama_pull", "mark_running"} =>
              Building(w) /\ exec'[w].cid = exec[w].cid

LEMMA ModestAccounted ==
    ASSUME TypeOK, Accounted, NEW w \in Workers, Modest(w)
    PROVE  Accounted'
<1>. USE DEF Modest, Accounted
<1>1. RunningHasContainer'
  BY DEF RunningHasContainer, Exists
<1>2. RowHasProvider' /\ PortsDistinctPerOwner'
  BY DEF RowHasProvider, PortsDistinctPerOwner, Exists, ProviderKey
<1>3. PollSawContainer' /\ NamesUnique' /\ RecordedIsOwn'
  BY DEF PollSawContainer, NamesUnique, RecordedIsOwn, Exists
<1>4. HasCid'
  BY DEF HasCid, At
<1>5. BuilderOwnsContainer'
  <2>. SUFFICES ASSUME NEW v \in Workers, Building(v)'
                PROVE  BuilderOwnsContainer!(v)!2'
    BY DEF BuilderOwnsContainer
  <2>1. Building(v) /\ exec'[v].cid = exec[v].cid /\ exec'[v].dep = exec[v].dep
    BY DEF Building, At
  <2>. QED  BY <2>1 DEF BuilderOwnsContainer, Exists
<1>. QED  BY <1>1, <1>2, <1>3, <1>4, <1>5

\* All worker steps but the four that touch a container are modest.
LEMMA WorkerModest ==
    ASSUME TypeOK, Accounted, NEW w \in Workers,
           \/ StartRead(w) \/ StartMark(w) \/ OllamaPull(w) \/ MarkError(w)
           \/ StopRead(w) \/ MarkStopped(w) \/ DeleteRead(w) \/ DeleteRow(w)
           \/ LogsRead(w) \/ FollowEnds(w) \/ FollowTruncated(w) \/ WorkerDies(w)
    PROVE  Modest(w)
<1>. USE DEF Modest, TypeOK, Finish, Goto, Fail, At, Exists
<1>1. CASE StartRead(w)
  BY <1>1 DEF StartRead
<1>2. CASE StartMark(w)
  <2>1. \A d \in Deployments : rows'[d] # None =>
           /\ rows[d] # None /\ rows'[d].cid = rows[d].cid
           /\ rows'[d].status = "RUNNING" => rows[d].status = "RUNNING"
    BY <1>2 DEF StartMark, SetStatus
  <2>2. \/ Goto(w, "run") \/ Fail(w, "docker")
    BY <1>2 DEF StartMark
  <2>3. exec[w] # None /\ \A v \in Workers : v # w => exec'[v] = exec[v]
    BY <1>2, <2>2 DEF StartMark
  <2>4. /\ exec'[w].dep = exec[w].dep /\ exec'[w].cid = exec[w].cid
        /\ exec'[w].step \in {"run", "mark_error"}
    BY <2>2, <2>3 DEF Exec
  <2>. QED  BY <1>2, <2>1, <2>3, <2>4 DEF StartMark
<1>3. CASE OllamaPull(w)
  BY <1>3 DEF OllamaPull, Building
<1>4. CASE MarkError(w)
  BY <1>4 DEF MarkError, SetStatus, EndOfStop
<1>5. CASE StopRead(w)
  BY <1>5 DEF StopRead, ContainerIdOf
<1>6. CASE MarkStopped(w)
  BY <1>6 DEF MarkStopped, SetStatus, EndOfStop
<1>7. CASE DeleteRead(w)
  BY <1>7 DEF DeleteRead, ContainerIdOf
<1>8. CASE DeleteRow(w)
  BY <1>8 DEF DeleteRow
<1>9. CASE LogsRead(w)
  BY <1>9 DEF LogsRead, ContainerIdOf
<1>10. CASE FollowEnds(w) \/ FollowTruncated(w)
  BY <1>10 DEF FollowEnds, FollowTruncated
<1>11. CASE WorkerDies(w)
  BY <1>11 DEF WorkerDies
<1>. QED  BY <1>1, <1>2, <1>3, <1>4, <1>5, <1>6, <1>7, <1>8, <1>9, <1>10, <1>11

\* containers.run: the new container is the only one of its name, and its
\* identity is one that nothing referred to.
LEMMA RunAccounted ==
    ASSUME TypeOK, Accounted, NEW w \in Workers, RunContainer(w)
    PROVE  Accounted'
<1>. DEFINE d == exec[w].dep
<1>0. exec[w] \in Exec /\ d \in Deployments
  BY DEF RunContainer, At, TypeOK
<1>1. ASSUME NEW e \in Errors, Fail(w, e), UNCHANGED docker
      PROVE  Accounted'
  <2>1. Modest(w)
    BY <1>0, <1>1 DEF RunContainer, Modest, Fail, TypeOK, At
  <2>. QED  BY <2>1, ModestAccounted
<1>2. ASSUME NEW c \in Containers, NEW s \in ContainerStates, Named(d) = {}, FreshId(c),
             NewBox(c, d, s),
             \/ Fail(w, "port_in_use")
             \/ /\ exec' = [exec EXCEPT ![w].cid = c, ![w].step = exec'[w].step]
                /\ exec'[w].step \in {"ollama_pull", "mark_running"}
      PROVE  Accounted'
  <2>1. /\ UNCHANGED <<spec, rows, providers, snap, writes>>
        /\ docker[c] = None /\ docker'[c] # None /\ docker'[c].dep = d
        /\ \A k \in Containers : k # c => docker'[k] = docker[k]
        /\ \A k \in Containers : docker[k] # None => docker[k].dep # d
        /\ \A v \in Workers : v # w => exec'[v] = exec[v]
        /\ exec'[w] # None /\ exec'[w].dep = d
    <3>1. [dep |-> d, state |-> s] # None
      BY <1>0, NoneAssumption
    <3>2. docker' = [docker EXCEPT ![c] = [dep |-> d, state |-> s]]
      BY <1>2 DEF NewBox
    <3>3. docker[c] = None /\ \A k \in Containers : docker[k] # None => docker[k].dep # d
      BY <1>2 DEF FreshId, Named
    <3>4. /\ \A v \in Workers : v # w => exec'[v] = exec[v]
          /\ exec'[w] # None /\ exec'[w].dep = d
      <4>1. CASE Fail(w, "port_in_use")
        <5>1. exec'[w] = [exec[w] EXCEPT !.step = "mark_error", !.err = "port_in_use"]
          BY <1>0, <4>1 DEF Fail, TypeOK
        <5>2. exec'[w] \in Exec
          BY <1>0, <5>1 DEF Steps, Errors
        <5>. QED  BY <1>0, <4>1, <5>1, <5>2, NoneAssumption DEF Fail, TypeOK
      <4>2. CASE /\ exec' = [exec EXCEPT ![w].cid = c, ![w].step = exec'[w].step]
                 /\ exec'[w].step \in {"ollama_pull", "mark_running"}
        <5>1. exec'[w] = [exec[w] EXCEPT !.cid = c, !.step = exec'[w].step]
          BY <1>0, <4>2 DEF TypeOK
        <5>2. exec'[w] \in Exec
          BY <1>0, <4>2, <5>1 DEF Steps
        <5>. QED  BY <1>0, <4>2, <5>1, <5>2, NoneAssumption DEF TypeOK
      <4>. QED  BY <1>2, <4>1, <4>2
    <3>. QED  BY <3>1, <3>2, <3>3, <3>4 DEF RunContainer, TypeOK
  <2>2. \/ exec'[w].cid = exec[w].cid /\ exec'[w].step = "mark_error"
        \/ exec'[w].cid = c /\ exec'[w].step \in {"ollama_pull", "mark_running"}
    BY <1>0, <1>2 DEF Fail, TypeOK
  <2>3. RunningHasContainer' /\ RowHasProvider' /\ PortsDistinctPerOwner'
          /\ PollSawContainer'
    BY <2>1 DEF Accounted, RunningHasContainer, RowHasProvider, Exists,
                PortsDistinctPerOwner, PollSawContainer, ProviderKey
  <2>4. NamesUnique'
    BY <2>1 DEF Accounted, NamesUnique
  <2>5. RecordedIsOwn'
    BY <1>2, <2>1 DEF Accounted, RecordedIsOwn, Exists, FreshId, TypeOK
  <2>6. HasCid'
    BY <2>1, <2>2 DEF Accounted, HasCid, At
  <2>7. BuilderOwnsContainer'
    <3>. SUFFICES ASSUME NEW v \in Workers, Building(v)'
                  PROVE  BuilderOwnsContainer!(v)!2'
      BY DEF BuilderOwnsContainer
    <3>1. CASE v = w
      <4>1. exec'[w].cid = c
        BY <2>2, <3>1 DEF Building, At
      <4>2. c # None
        BY NoneAssumption
      <4>. QED  BY <1>2, <2>1, <3>1, <4>1, <4>2 DEF Exists, FreshId
    <3>2. CASE v # w
      <4>1. Building(v)
        BY <2>1, <3>2 DEF Building, At
      <4>2. exec[v].cid # c
        BY <1>2, <4>1 DEF Building, At, FreshId
      <4>3. exec[v].cid \in Containers
        BY <4>1 DEF Accounted, BuilderOwnsContainer, Building, At, TypeOK
      <4>4. exec[v].cid # exec'[w].cid
        BY <1>0, <2>2, <3>2, <4>1, <4>2, NoneAssumption DEF Accounted, BuilderOwnsContainer
      <4>. QED  BY <2>1, <3>2, <4>1, <4>2, <4>3, <4>4
                DEF Accounted, BuilderOwnsContainer, Exists
    <3>. QED  BY <3>1, <3>2
  <2>. QED  BY <2>3, <2>4, <2>5, <2>6, <2>7 DEF Accounted
<1>3. ASSUME NEW c \in Containers, Named(d) = {}, FreshId(c), NewBox(c, d, "running"),
             exec' = [exec EXCEPT ![w].cid = c,
                        ![w].step = IF spec[d].backend = "ollama"
                                    THEN "ollama_pull" ELSE "mark_running"]
      PROVE  Accounted'
  <2>1. /\ exec' = [exec EXCEPT ![w].cid = c, ![w].step = exec'[w].step]
        /\ exec'[w].step \in {"ollama_pull", "mark_running"}
    BY <1>0, <1>3 DEF TypeOK
  <2>. QED  BY <1>2, <1>3, <2>1 DEF ContainerStates
<1>. QED  BY <1>1, <1>2, <1>3 DEF RunContainer, Errors, ContainerStates

\* A stop changes at most the state of a container, never whose it is.
LEMMA StopAccounted ==
    ASSUME TypeOK, Accounted, NEW w \in Workers, StopContainer(w)
    PROVE  Accounted'
<1>. DEFINE k == exec[w].cid
<1>0. exec[w] \in Exec /\ k \in Containers
  BY DEF StopContainer, At, TypeOK, Accounted, HasCid
<1>1. ASSUME NEW e \in Errors, Fail(w, e), UNCHANGED docker
      PROVE  Accounted'
  <2>1. Modest(w)
    BY <1>0, <1>1 DEF StopContainer, Modest, Fail, TypeOK, At
  <2>. QED  BY <2>1, ModestAccounted
<1>2. ASSUME docker[k] # None,
             docker' = IF docker[k].state = "created" THEN docker
                       ELSE [docker EXCEPT ![k].state = "stopped"],
             Goto(w, "mark_stopped")
      PROVE  Accounted'
  <2>1. \A c \in Containers :
          /\ docker'[c] = None <=> docker[c] = None
          /\ docker[c] # None => docker'[c].dep = docker[c].dep
    <3>1. [docker[k] EXCEPT !.state = "stopped"] \in Box
      BY <1>0, <1>2 DEF TypeOK, ContainerStates
    <3>. QED  BY <1>0, <1>2, <3>1, NoneAssumption DEF TypeOK
  <2>2. /\ \A v \in Workers : v # w => exec'[v] = exec[v]
        /\ exec'[w] # None /\ exec'[w].dep = exec[w].dep /\ exec'[w].cid = k
        /\ exec'[w].step = "mark_stopped"
    <3>1. exec'[w] = [exec[w] EXCEPT !.step = "mark_stopped"]
      BY <1>0, <1>2 DEF Goto, TypeOK
    <3>2. exec'[w] \in Exec
      BY <1>0, <3>1 DEF Steps
    <3>. QED  BY <1>0, <1>2, <3>1, <3>2, NoneAssumption DEF Goto, TypeOK
  <2>3. UNCHANGED <<spec, rows, providers, snap, writes>>
    BY DEF StopContainer
  <2>4. RunningHasContainer' /\ RowHasProvider' /\ PortsDistinctPerOwner'
          /\ PollSawContainer'
    BY <2>3 DEF Accounted, RunningHasContainer, RowHasProvider, Exists,
                PortsDistinctPerOwner, PollSawContainer, ProviderKey
  <2>5. NamesUnique' /\ RecordedIsOwn' /\ HasCid'
    BY <2>1, <2>2, <2>3
       DEF Accounted, NamesUnique, RecordedIsOwn, HasCid, Exists, At, TypeOK
  <2>6. BuilderOwnsContainer'
    <3>. SUFFICES ASSUME NEW v \in Workers, Building(v)'
                  PROVE  BuilderOwnsContainer!(v)!2'
      BY DEF BuilderOwnsContainer
    <3>1. v # w /\ Building(v)
      BY <2>2 DEF Building, At
    <3>2. exec[v].cid \in Containers /\ exec[w] # None
      BY <3>1 DEF Accounted, BuilderOwnsContainer, Building, At, TypeOK, StopContainer
    <3>. QED  BY <2>1, <2>2, <2>3, <3>1, <3>2
              DEF Accounted, BuilderOwnsContainer, Exists
  <2>. QED  BY <2>4, <2>5, <2>6 DEF Accounted
<1>. QED  BY <1>1, <1>2 DEF StopContainer, Errors

\* A removal takes away a container that no task is building.
LEMMA RemoveAccounted ==
    ASSUME TypeOK, Accounted, NEW w \in Workers, RemoveContainer(w)
    PROVE  Accounted'
<1>. DEFINE k == exec[w].cid
<1>0. exec[w] \in Exec /\ k \in Containers
  BY DEF RemoveContainer, At, TypeOK, Accounted, HasCid
<1>1. \A c \in Containers : docker'[c] = docker[c] \/ (c = k /\ docker'[c] = None)
  BY <1>0 DEF RemoveContainer, TypeOK
<1>2. /\ \A v \in Workers : v # w => exec'[v] = exec[v]
      /\ exec'[w] # None /\ exec'[w].dep = exec[w].dep /\ exec'[w].cid = k
      /\ exec'[w].step = "delete_row"
  <2>1. exec'[w] = [exec[w] EXCEPT !.step = "delete_row"]
    BY <1>0 DEF RemoveContainer, Goto, TypeOK
  <2>2. exec'[w] \in Exec
    BY <1>0, <2>1 DEF Steps
  <2>. QED  BY <1>0, <2>1, <2>2, NoneAssumption DEF RemoveContainer, Goto, TypeOK
<1>3. UNCHANGED <<spec, rows, providers, snap, writes>>
  BY DEF RemoveContainer
<1>4. RunningHasContainer' /\ RowHasProvider' /\ PortsDistinctPerOwner'
        /\ PollSawContainer'
  BY <1>3 DEF Accounted, RunningHasContainer, RowHasProvider, Exists,
              PortsDistinctPerOwner, PollSawContainer, ProviderKey
<1>5. NamesUnique' /\ RecordedIsOwn' /\ HasCid'
  BY <1>1, <1>2, <1>3
     DEF Accounted, NamesUnique, RecordedIsOwn, HasCid, Exists, At, TypeOK
<1>6. BuilderOwnsContainer'
  <2>. SUFFICES ASSUME NEW v \in Workers, Building(v)'
                PROVE  BuilderOwnsContainer!(v)!2'
    BY DEF BuilderOwnsContainer
  <2>1. v # w /\ Building(v)
    BY <1>2 DEF Building, At
  <2>2. exec[v].cid # k /\ exec[v].cid \in Containers
    BY <2>1 DEF Accounted, BuilderOwnsContainer, Building, At, TypeOK, RemoveContainer
  <2>. QED  BY <1>1, <1>2, <1>3, <2>1, <2>2
            DEF Accounted, BuilderOwnsContainer, Exists
<1>. QED  BY <1>4, <1>5, <1>6 DEF Accounted

\* The container a start task records is its own, and still exists.
LEMMA MarkRunningAccounted ==
    ASSUME TypeOK, Accounted, NEW w \in Workers, MarkRunning(w)
    PROVE  Accounted'
<1>. DEFINE k == exec[w].cid
            d == exec[w].dep
<1>0. /\ exec[w] \in Exec /\ k \in Containers /\ d \in Deployments
      /\ k # None /\ docker[k] # None /\ docker[k].dep = d
  BY DEF MarkRunning, At, Building, TypeOK, Accounted, BuilderOwnsContainer
<1>1. /\ UNCHANGED <<spec, providers, docker, snap, writes>>
      /\ exec'[w] = None /\ \A v \in Workers : v # w => exec'[v] = exec[v]
  BY <1>0 DEF MarkRunning, Finish, TypeOK
<1>2. \A e \in Deployments :
        /\ rows'[e] # None => rows[e] # None
        /\ rows'[e] # None /\ e # d => rows'[e] = rows[e]
        /\ rows'[d] # None => rows'[d].cid = k
  BY <1>0 DEF MarkRunning, SetStatus, Exists, TypeOK
<1>3. RunningHasContainer' /\ RowHasProvider' /\ PortsDistinctPerOwner'
        /\ PollSawContainer'
  BY <1>0, <1>1, <1>2
     DEF Accounted, RunningHasContainer, RowHasProvider, Exists,
         PortsDistinctPerOwner, PollSawContainer, ProviderKey
<1>4. NamesUnique' /\ RecordedIsOwn' /\ HasCid'
  BY <1>0, <1>1, <1>2
     DEF Accounted, NamesUnique, RecordedIsOwn, HasCid, Exists, At
<1>5. BuilderOwnsContainer'
  <2>. SUFFICES ASSUME NEW v \in Workers, Building(v)'
                PROVE  BuilderOwnsContainer!(v)!2'
    BY DEF BuilderOwnsContainer
  <2>1. v # w /\ Building(v)
    BY <1>1 DEF Building, At
  <2>2. exec[v].cid # k
    BY <2>1 DEF Accounted, BuilderOwnsContainer, MarkRunning, Building, At
  <2>. QED  BY <1>0, <1>1, <1>2, <2>1, <2>2
            DEF Accounted, BuilderOwnsContainer, Exists
<1>. QED  BY <1>3, <1>4, <1>5 DEF Accounted

-----------------------------------------------------------------------------
\* A request that reads changes nothing the invariant is about; the insert of a
\* deployment adds a provider key that no row had.
LEMMA ApiAccounted ==
    ASSUME TypeOK, Accounted, Api
    PROVE  Accounted'
<1>1. ASSUME UNCHANGED <<spec, rows, providers, exec, docker, snap, writes>>
      PROVE  Accounted'
  BY <1>1 DEF Accounted, RunningHasContainer, RowHasProvider, PortsDistinctPerOwner,
              PollSawContainer, NamesUnique, RecordedIsOwn, HasCid,
              BuilderOwnsContainer, Exists, ProviderKey, At, Building
<1>2. ASSUME NEW c \in Clients, CreateCommit(c)
      PROVE  Accounted'
  <2>1. req[c] \in Fixed /\ ProviderKey(req[c]) \notin providers
    BY <1>2 DEF TypeOK, CreateCommit, KeyFree
  <2>2. PICK d \in Deployments :
          /\ spec[d] = None
          /\ spec' = [spec EXCEPT ![d] = req[c]]
          /\ rows' = [rows EXCEPT ![d] = [status |-> "PENDING", cid |-> None,
                                          err |-> None]]
    BY <1>2 DEF CreateCommit
  <2>3. /\ providers' = providers \cup {ProviderKey(req[c])}
        /\ UNCHANGED <<exec, docker, snap, writes>>
    BY <1>2 DEF CreateCommit
  <2>4. ~Exists(d)
    BY <2>2 DEF Accounted, RowHasProvider
  <2>5. /\ spec'[d] = req[c] /\ req[c] # None
        /\ rows'[d].status = "PENDING" /\ rows'[d].cid = None
        /\ \A e \in Deployments : e # d => spec'[e] = spec[e] /\ rows'[e] = rows[e]
    BY <2>1, <2>2, NoneAssumption DEF TypeOK
  <2>6. RunningHasContainer'
    BY <2>5 DEF Accounted, RunningHasContainer, Exists
  <2>7. RowHasProvider'
    BY <2>3, <2>5 DEF Accounted, RowHasProvider, Exists, ProviderKey
  <2>8. PortsDistinctPerOwner'
    <3>. SUFFICES ASSUME NEW a \in Deployments, NEW e \in Deployments, a # e,
                         Exists(a)', Exists(e)',
                         spec'[a].project = spec'[e].project,
                         spec'[a].backend = spec'[e].backend,
                         spec'[a].port = spec'[e].port
                  PROVE  FALSE
      BY DEF PortsDistinctPerOwner
    <3>1. ProviderKey(spec'[a]) = ProviderKey(spec'[e])
      BY DEF ProviderKey
    <3>2. a # d => Exists(a) /\ spec'[a] = spec[a] /\ ProviderKey(spec[a]) \in providers
      BY <2>5 DEF Accounted, RowHasProvider, Exists
    <3>3. e # d => Exists(e) /\ spec'[e] = spec[e] /\ ProviderKey(spec[e]) \in providers
      BY <2>5 DEF Accounted, RowHasProvider, Exists
    <3>4. CASE a = d \/ e = d
      BY <2>1, <2>5, <3>1, <3>2, <3>3, <3>4
    <3>5. CASE a # d /\ e # d
      BY <3>2, <3>3, <3>5 DEF Accounted, PortsDistinctPerOwner
    <3>. QED  BY <3>4, <3>5
  <2>9. NamesUnique' /\ HasCid'
    BY <2>3 DEF Accounted, NamesUnique, HasCid, At
  <2>10. RecordedIsOwn'
    BY <2>3, <2>5 DEF Accounted, RecordedIsOwn, Exists
  <2>11. PollSawContainer'
    BY <2>1, <2>2, <2>3, <2>5 DEF Accounted, PollSawContainer, Exists
  <2>12. BuilderOwnsContainer'
    <3>. SUFFICES ASSUME NEW v \in Workers, Building(v)'
                  PROVE  BuilderOwnsContainer!(v)!2'
      BY DEF BuilderOwnsContainer
    <3>1. Building(v)
      BY <2>3 DEF Building, At
    <3>. QED  BY <2>3, <2>5, <3>1 DEF Accounted, BuilderOwnsContainer, Exists
  <2>. QED  BY <2>6, <2>7, <2>8, <2>9, <2>10, <2>11, <2>12 DEF Accounted
<1>. QED  BY <1>1, <1>2 DEF Api, CreateRead, CreateConflict, Request

\* A message that is delivered starts a task that has no container yet.
LEMMA BrokerAccounted ==
    ASSUME TypeOK, Accounted, Broker
    PROVE  Accounted'
<1>1. ASSUME NEW w \in Workers, NEW t \in Tasks, Deliver(w, t)
      PROVE  Accounted'
  <2>1. /\ UNCHANGED <<spec, rows, providers, docker, snap, writes>>
        /\ \A v \in Workers : v # w => exec'[v] = exec[v]
        /\ exec'[w].cid = None
        /\ exec'[w].step \in {"start_read", "stop_read", "delete_read", "logs_read"}
    BY <1>1 DEF Deliver, TypeOK, FirstStep, TaskKinds
  <2>2. /\ RunningHasContainer' /\ RowHasProvider' /\ PortsDistinctPerOwner'
        /\ PollSawContainer' /\ NamesUnique' /\ RecordedIsOwn' /\ HasCid'
    BY <2>1 DEF Accounted, RunningHasContainer, RowHasProvider, Exists, At,
                PortsDistinctPerOwner, PollSawContainer, ProviderKey, NamesUnique,
                RecordedIsOwn, HasCid
  <2>3. BuilderOwnsContainer'
    <3>. SUFFICES ASSUME NEW v \in Workers, Building(v)'
                  PROVE  BuilderOwnsContainer!(v)!2'
      BY DEF BuilderOwnsContainer
    <3>1. v # w /\ Building(v)
      BY <2>1 DEF Building, At
    <3>. QED  BY <2>1, <3>1 DEF Accounted, BuilderOwnsContainer, Exists
  <2>. QED  BY <2>2, <2>3 DEF Accounted
<1>2. ASSUME NEW t \in Tasks, Redeliver(t)
      PROVE  Accounted'
  BY <1>2 DEF Redeliver, Accounted, RunningHasContainer, RowHasProvider,
              PortsDistinctPerOwner, PollSawContainer, NamesUnique, RecordedIsOwn,
              HasCid, BuilderOwnsContainer, Exists, ProviderKey, At, Building
<1>3. ASSUME NEW w \in Workers, WorkerDies(w)
      PROVE  Accounted'
  BY <1>3, WorkerModest, ModestAccounted
<1>. QED  BY <1>1, <1>2, <1>3 DEF Broker

\* A container that dies or is revived keeps its identity and its deployment.
LEMMA EngineAccounted ==
    ASSUME TypeOK, Accounted, Engine
    PROVE  Accounted'
<1>1. PICK c \in Containers, s \in ContainerStates :
        docker[c] # None /\ docker' = [docker EXCEPT ![c].state = s]
  BY DEF Engine, ContainerDies, ContainerRevives, IsRunning, ContainerStates
<1>2. UNCHANGED <<spec, rows, providers, exec, snap, writes>>
  BY DEF Engine, ContainerDies, ContainerRevives
<1>3. \A k \in Containers :
        /\ docker'[k] = None <=> docker[k] = None
        /\ docker[k] # None => docker'[k].dep = docker[k].dep
  <2>1. [docker[c] EXCEPT !.state = s] \in Box
    BY <1>1 DEF TypeOK
  <2>. QED  BY <1>1, <2>1, NoneAssumption DEF TypeOK
<1>4. /\ RunningHasContainer' /\ RowHasProvider' /\ PortsDistinctPerOwner'
      /\ PollSawContainer' /\ HasCid'
  BY <1>2 DEF Accounted, RunningHasContainer, RowHasProvider, Exists, At,
              PortsDistinctPerOwner, PollSawContainer, ProviderKey, HasCid
<1>5. NamesUnique' /\ RecordedIsOwn'
  BY <1>2, <1>3 DEF Accounted, NamesUnique, RecordedIsOwn, Exists, TypeOK
<1>6. BuilderOwnsContainer'
  <2>. SUFFICES ASSUME NEW v \in Workers, Building(v)'
                PROVE  BuilderOwnsContainer!(v)!2'
    BY DEF BuilderOwnsContainer
  <2>1. Building(v)
    BY <1>2 DEF Building, At
  <2>2. exec[v].cid \in Containers
    BY <2>1 DEF Accounted, BuilderOwnsContainer, Building, At, TypeOK
  <2>. QED  BY <1>2, <1>3, <2>1, <2>2 DEF Accounted, BuilderOwnsContainer, Exists
<1>. QED  BY <1>4, <1>5, <1>6 DEF Accounted

\* The poll writes statuses, never containers, and RUNNING only to rows that had
\* a container when it read them.
LEMMA PollAccounted ==
    ASSUME TypeOK, Accounted, Poll \/ PollDies
    PROVE  Accounted'
<1>1. /\ UNCHANGED <<spec, providers, exec, docker>>
      /\ \A d \in Deployments :
           /\ rows'[d] = None <=> rows[d] = None
           /\ rows[d] # None => rows'[d].cid = rows[d].cid
      /\ \A d \in Deployments : rows[d] # None /\ rows'[d].status = "RUNNING" =>
           rows[d].status = "RUNNING" \/ writes[d] # None
  <2>1. CASE UNCHANGED rows
    BY <2>1 DEF Poll, PollRead, PollCheck, PollFlush, PollDies
  <2>2. CASE PollFlush /\ \A d \in Deployments : writes[d] # None => Exists(d)
    <3>1. \A d \in Deployments : rows'[d] =
            IF writes[d] = None THEN rows[d] ELSE [rows[d] EXCEPT !.status = writes[d]]
      BY <2>2 DEF PollFlush
    <3>2. \A d \in Deployments : writes[d] # None =>
            rows[d] \in Row /\ [rows[d] EXCEPT !.status = writes[d]] \in Row
      BY <2>2 DEF TypeOK, Exists, Statuses
    <3>. QED  BY <2>2, <3>1, <3>2, NoneAssumption DEF PollFlush, TypeOK
  <2>. QED  BY <2>1, <2>2 DEF Poll, PollRead, PollCheck, PollFlush, PollDies
<1>2. \A d \in Deployments :
        /\ writes'[d] # None => snap[d] # None \/ writes[d] # None
        /\ snap'[d] # None =>
             \/ snap'[d] = snap[d]
             \/ Exists(d) /\ rows[d].cid # None /\ snap'[d].cid = rows[d].cid
  <2>1. CASE PollRead
    BY <2>1 DEF PollRead, PollIdle, TypeOK
  <2>2. CASE PollFlush \/ PollDies \/ \E d \in Deployments : PollCheck(d)
    BY <2>2 DEF PollFlush, PollDies, PollCheck, TypeOK
  <2>. QED  BY <2>1, <2>2 DEF Poll
<1>3. RunningHasContainer'
  BY <1>1 DEF Accounted, RunningHasContainer, PollSawContainer, Exists
<1>4. RowHasProvider' /\ PortsDistinctPerOwner' /\ NamesUnique' /\ RecordedIsOwn' /\ HasCid'
  BY <1>1 DEF Accounted, RowHasProvider, PortsDistinctPerOwner, NamesUnique,
              RecordedIsOwn, HasCid, Exists, ProviderKey, At
<1>5. PollSawContainer'
  BY <1>1, <1>2 DEF Accounted, PollSawContainer, RowHasProvider, Exists
<1>6. BuilderOwnsContainer'
  <2>. SUFFICES ASSUME NEW v \in Workers, Building(v)'
                PROVE  BuilderOwnsContainer!(v)!2'
    BY DEF BuilderOwnsContainer
  <2>1. Building(v)
    BY <1>1 DEF Building, At
  <2>. QED  BY <1>1, <1>2, <2>1 DEF Accounted, BuilderOwnsContainer, Exists
<1>. QED  BY <1>3, <1>4, <1>5, <1>6 DEF Accounted

LEMMA NextAccounted == IInv /\ [Next]_vars => IInv'
<1>. SUFFICES ASSUME TypeOK, Accounted, [Next]_vars
              PROVE  Accounted'
  BY NextTypes DEF IInv, Accounted
<1>1. CASE UNCHANGED vars
  BY <1>1 DEF vars, Accounted, RunningHasContainer, RowHasProvider,
              PortsDistinctPerOwner, PollSawContainer, NamesUnique, RecordedIsOwn,
              HasCid, BuilderOwnsContainer, Exists, ProviderKey, At, Building
<1>2. CASE Api \/ Broker \/ Engine \/ Poll \/ PollDies
  BY <1>2, ApiAccounted, BrokerAccounted, EngineAccounted, PollAccounted
<1>3. ASSUME NEW w \in Workers, WorkerStep(w) \/ FollowTruncated(w)
      PROVE  Accounted'
  BY <1>3, WorkerModest, ModestAccounted, RunAccounted, StopAccounted,
     RemoveAccounted, MarkRunningAccounted DEF WorkerStep
<1>. QED  BY <1>1, <1>2, <1>3 DEF Next

LEMMA InitAccounted == Init => IInv
<1>. SUFFICES ASSUME Init
              PROVE  Accounted
  BY DeploymentAssumption DEF IInv, Accounted, Init, TypeOK
<1>. QED  BY DEF Init, Accounted, RunningHasContainer, RowHasProvider,
               PortsDistinctPerOwner, PollSawContainer, NamesUnique, RecordedIsOwn,
               HasCid, BuilderOwnsContainer, Exists, At, Building

\* The inductive invariant holds in every reachable state.
THEOREM Invariant == Spec => []IInv
BY InitAccounted, NextAccounted, PTL DEF Spec

-----------------------------------------------------------------------------
(* The properties the runs check on small instances *)

\* A row that reads RUNNING names a container: neither a start task nor a health
\* poll that was overtaken by one writes RUNNING without it.
THEOREM RunningHasContainerCorrect == Spec => []RunningHasContainer
<1>1. IInv => RunningHasContainer
  BY DEF IInv
<1>. QED  BY <1>1, Invariant, PTL

\* Concurrent creations never give two deployments of one project and backend
\* the same host port: uq_provider_project_name makes the later one fail.
THEOREM PortsDistinct == Spec => []PortsDistinctPerOwner
<1>1. IInv => PortsDistinctPerOwner
  BY DEF IInv
<1>. QED  BY <1>1, Invariant, PTL

\* A container under construction is known only to the task constructing it.
THEOREM BuilderOwns == Spec => []BuilderOwnsContainer
<1>1. IInv => BuilderOwnsContainer
  BY DEF IInv
<1>. QED  BY <1>1, Invariant, PTL

\* However often a start task is delivered, one execution at most brings up a
\* container of a deployment: container names exclude each other in the engine.
THEOREM OneBuilderCorrect == Spec => []OneBuilder
<1>1. IInv => OneBuilder
  BY DEF IInv, OneBuilder, BuilderOwnsContainer, NamesUnique, Building, At, TypeOK
<1>. QED  BY <1>1, Invariant, PTL

\* A row's container id is replaced only when the container it named is gone.
THEOREM RecordedKept == Spec => RecordedContainerKept
<1>. DEFINE Kept(d) == /\ Exists(d) /\ rows[d].cid # None
                       /\ rows'[d] # None
                       /\ rows'[d].cid # rows[d].cid
                       => docker[rows[d].cid] = None
<1>1. ASSUME IInv, [Next]_vars, NEW d \in Deployments
      PROVE  Kept(d)
  <2>. USE DEF IInv, Exists
  <2>1. ASSUME NEW w \in Workers, MarkRunning(w)
        PROVE  Kept(d)
    <3>1. /\ exec[w] \in Exec /\ exec[w].cid \in Containers
          /\ docker[exec[w].cid] # None /\ docker[exec[w].cid].dep = exec[w].dep
      BY <1>1, <2>1 DEF MarkRunning, BuilderOwnsContainer, Building, At, TypeOK
    <3>2. rows'[d] = rows[d] \/ d = exec[w].dep
      BY <1>1, <2>1, <3>1 DEF MarkRunning, SetStatus, TypeOK
    <3>3. rows'[d] # None => rows'[d].cid \in {rows[d].cid, exec[w].cid}
      BY <1>1, <2>1, <3>1, <3>2 DEF MarkRunning, SetStatus, TypeOK
    <3>4. rows[d] # None => rows[d].cid \in Containers \cup {None}
      BY <1>1 DEF TypeOK
    <3>. QED  BY <1>1, <3>1, <3>2, <3>3, <3>4 DEF RecordedIsOwn, NamesUnique
  <2>2. ASSUME NEW w \in Workers, Modest(w)
        PROVE  Kept(d)
    BY <2>2 DEF Modest
  <2>3. CASE UNCHANGED rows
    BY <2>3
  <2>4. CASE PollFlush
    BY <1>1, <2>4 DEF PollFlush, TypeOK
  <2>5. CASE Api
    <3>1. ASSUME NEW c \in Clients, CreateCommit(c)
          PROVE  Kept(d)
      BY <1>1, <3>1 DEF CreateCommit, RowHasProvider
    <3>. QED  BY <2>3, <2>5, <3>1 DEF Api, CreateRead, CreateConflict, Request
  <2>6. Accounted
    BY <1>1 DEF Accounted
  <2>7. ASSUME NEW w \in Workers, WorkerStep(w) \/ FollowTruncated(w) \/ WorkerDies(w)
        PROVE  Kept(d)
    BY <1>1, <2>1, <2>2, <2>3, <2>6, <2>7, WorkerModest
       DEF WorkerStep, RunContainer, StopContainer, RemoveContainer
  <2>8. CASE Broker \/ Engine \/ Poll \/ PollDies
    BY <2>3, <2>4, <2>7, <2>8 DEF Broker, Deliver, Redeliver, Engine, ContainerDies,
       ContainerRevives, Poll, PollRead, PollCheck, PollDies
  <2>9. CASE UNCHANGED vars
    BY <2>3, <2>9 DEF vars
  <2>. QED  BY <1>1, <2>5, <2>7, <2>8, <2>9 DEF Next
<1>2. IInv /\ [Next]_vars => [\A d \in Deployments : Kept(d)]_vars
  BY <1>1
<1>. QED  BY <1>2, Invariant, PTL DEF Spec, RecordedContainerKept

\* Ids of deleted deployments stay deleted: every write of a task or of the poll
\* looks the row up first.
THEOREM DeletedStays == Spec => DeletedStaysDeleted
<1>1. ASSUME TypeOK, [Next]_vars, NEW d \in Deployments, spec[d] # None, rows[d] = None
      PROVE  rows'[d] = None
  <2>1. ASSUME NEW c \in Clients, CreateCommit(c)
        PROVE  rows'[d] = None
    BY <1>1, <2>1 DEF CreateCommit, TypeOK
  <2>2. ASSUME NEW w \in Workers, NEW s \in Statuses, NEW c, NEW e,
               exec[w] \in Exec, SetStatus(exec[w].dep, s, c, e)
        PROVE  rows'[d] = None
    BY <1>1, <2>2 DEF SetStatus, Exists, TypeOK
  <2>3. ASSUME NEW w \in Workers, WorkerStep(w) \/ FollowTruncated(w)
        PROVE  rows'[d] = None
    BY <1>1, <2>2, <2>3 DEF WorkerStep, FollowTruncated, StartRead, StartMark,
       RunContainer, OllamaPull, MarkRunning, MarkError, StopRead, StopContainer,
       MarkStopped, DeleteRead, RemoveContainer, DeleteRow, LogsRead, FollowEnds,
       At, Statuses, TypeOK
  <2>4. CASE PollFlush
    BY <1>1, <2>4 DEF PollFlush, Exists
  <2>. QED
    BY <1>1, <2>1, <2>3, <2>4 DEF Next, vars, Api, CreateRead, CreateConflict, Request,
       Broker, Deliver, Redeliver, WorkerDies, Engine, ContainerDies,
       ContainerRevives, Poll, PollRead, PollCheck, PollDies
<1>2. TypeOK /\ [Next]_vars =>
        [\A d \in Deployments :
           spec[d] # None /\ rows[d] = None => rows'[d] = None]_vars
  BY <1>1
<1>. QED  BY <1>2, TypeCorrect, PTL DEF Spec, DeletedStaysDeleted

=============================================================================
