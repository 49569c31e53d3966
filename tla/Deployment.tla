----------------------------- MODULE Deployment -----------------------------
(***************************************************************************)
(* Local model deployments: the API (backend/app/api/v1/deployments.py and *)
(* services/deployment_service.py), the Celery tasks that own the Docker   *)
(* engine (workers/tasks/deployment.py), the broker between them and the   *)
(* periodic container health poll.                                         *)
(*                                                                         *)
(* The API writes a row once, when a deployment is created, and afterwards *)
(* only enqueues tasks: every later change of a row is a worker's.  A task *)
(* is a sequence of short database transactions and engine calls, and each *)
(* of these is a step here, so that tasks, polls and requests interleave   *)
(* wherever the code lets them.  A guard that a request evaluates just     *)
(* before it enqueues is folded into the enqueueing step: the request      *)
(* writes nothing in between, and a message that is enqueued early and     *)
(* delivered late has the same effect.                                     *)
(*                                                                         *)
(* Publishing to Redis fails open (workers/notify.py) and changes nothing  *)
(* that is read back, so it is left out.                                   *)
(***************************************************************************)
EXTENDS Naturals, FiniteSets

CONSTANTS
    Deployments,   \* identities of deployment rows (never reused)
    Projects,
    Backends,      \* DeploymentBackend: "ollama", "vllm"
    Models,        \* model_ref values
    Ports,         \* PORT_RANGE_START .. PORT_RANGE_END
    Clients,       \* concurrent POST /deployments requests
    Workers,       \* worker processes that consume the deployment queue
    Tasks,         \* bound: broker messages outstanding at any moment
    Containers,    \* bound: containers that are alive or still referred to
    ApiKinds,      \* the requests users make: a subset of TaskKinds
    GpuAvailable,  \* a GPU sample was recorded within the last hour
    ChildKills,    \* a worker's child process can be killed under its parent
    MaxFaults,     \* bound: engine, worker and broker failures
    None

TaskKinds == {"start", "stop", "restart", "delete", "logs"}

ASSUME DeploymentAssumption ==
    /\ Ports \subseteq Nat
    /\ Backends \subseteq {"ollama", "vllm"}
    /\ ApiKinds \subseteq TaskKinds
    /\ GpuAvailable \in BOOLEAN
    /\ ChildKills \in BOOLEAN
    /\ MaxFaults \in Nat

VARIABLES
    spec,       \* the columns of a deployment row that never change
    rows,       \* its mutable columns, None before insertion and after deletion
    providers,  \* the unique key of the local provider rows
    req,        \* create requests between their reads and their inserts
    task,       \* messages on the "deployment" queue, queued or unacknowledged
    exec,       \* what each worker process is executing
    docker,     \* the engine's containers
    snap,       \* the health poll's copy of the rows it still has to check
    writes,     \* the statuses the poll will write when it flushes
    faults      \* failures so far

vars == <<spec, rows, providers, req, task, exec, docker, snap, writes, faults>>

Statuses == {"PENDING", "DOWNLOADING", "RUNNING", "STOPPED", "ERROR"}
Starting == {"PENDING", "DOWNLOADING"}
Active   == Starting \cup {"RUNNING"}

\* error_message, reduced to which failure it reports.
Errors == {"docker", "name_conflict", "port_in_use", "ollama_pull"}

\* "exited" is a container that died by itself: the restart policy
\* "unless-stopped" brings it back, and never one that was "stopped".
ContainerStates == {"created", "running", "exited", "stopped"}

Steps == {"start_read", "start_mark", "run", "ollama_pull", "mark_running",
          "mark_error", "stop_read", "stop", "mark_stopped", "delete_read",
          "remove", "delete_row", "logs_read", "follow"}

Fixed  == [project: Projects, backend: Backends, model: Models, port: Ports]
Row    == [status: Statuses, cid: Containers \cup {None},
           err: Errors \cup {None}]
Key    == [project: Projects, backend: Backends, port: Ports]
Msg    == [kind: TaskKinds, dep: Deployments, holder: Workers \cup {None}]
Exec   == [task: Tasks, kind: TaskKinds, dep: Deployments, step: Steps,
           cid: Containers \cup {None}, err: Errors \cup {None}]
Box    == [dep: Deployments, state: ContainerStates]
Seen   == [status: Statuses, cid: Containers]

\* The null value is neither an identity nor a record.
ASSUME NoneAssumption ==
    /\ None \notin Containers \cup Workers
    /\ None \notin Fixed \cup Row \cup Msg \cup Exec \cup Box \cup Seen

TypeOK ==
    /\ spec \in [Deployments -> Fixed \cup {None}]
    /\ rows \in [Deployments -> Row \cup {None}]
    /\ providers \subseteq Key
    /\ req \in [Clients -> Fixed \cup {None}]
    /\ task \in [Tasks -> Msg \cup {None}]
    /\ exec \in [Workers -> Exec \cup {None}]
    /\ docker \in [Containers -> Box \cup {None}]
    /\ snap \in [Deployments -> Seen \cup {None}]
    /\ writes \in [Deployments -> {"RUNNING", "STOPPED", None}]
    /\ faults \in 0..MaxFaults

Init ==
    /\ spec = [d \in Deployments |-> None]
    /\ rows = [d \in Deployments |-> None]
    /\ providers = {}
    /\ req = [c \in Clients |-> None]
    /\ task = [t \in Tasks |-> None]
    /\ exec = [w \in Workers |-> None]
    /\ docker = [c \in Containers |-> None]
    /\ snap = [d \in Deployments |-> None]
    /\ writes = [d \in Deployments |-> None]
    /\ faults = 0

-----------------------------------------------------------------------------
(* The engine and the broker *)

Exists(d) == rows[d] # None

\* A failure of something outside the program's control.
Fault == faults < MaxFaults /\ faults' = faults + 1

\* Mutant: no name is given to the container.
Unnamed(d) == {}

\* The containers that bear the name of a deployment.
Named(d) == {c \in Containers : docker[c] # None /\ docker[c].dep = d}

IsRunning(c) == docker[c] # None /\ docker[c].state = "running"

\* Engine ids are never reused: an id is fresh when nothing refers to it.
FreshId(c) ==
    /\ docker[c] = None
    /\ \A d \in Deployments : rows[d] # None => rows[d].cid # c
    /\ \A d \in Deployments : snap[d] # None => snap[d].cid # c
    /\ \A w \in Workers : exec[w] # None => exec[w].cid # c

PortTaken(p) ==
    \E c \in Containers : IsRunning(c) /\ spec[docker[c].dep].port = p

Message(k, d) == [kind |-> k, dep |-> d, holder |-> None]

\* celery.send_task; with late acknowledgement a message stays with the broker
\* until the worker that holds it has finished.
Enqueue(k, d) ==
    \E t \in Tasks : task[t] = None /\ task' = [task EXCEPT ![t] = Message(k, d)]

FirstStep(k) ==
    CASE k = "start" -> "start_read"
      [] k \in {"stop", "restart"} -> "stop_read"
      [] k = "delete" -> "delete_read"
      [] k = "logs" -> "logs_read"

-----------------------------------------------------------------------------
(* The API *)

UsedPorts == {spec[d].port : d \in {e \in Deployments : Exists(e)}}

LowestFree(p) ==
    /\ p \in Ports \ UsedPorts
    /\ \A q \in Ports \ UsedPorts : p <= q

AlreadyDeployed(p, b, m) ==
    \E d \in Deployments :
        /\ Exists(d) /\ rows[d].status \in Active
        /\ spec[d].project = p /\ spec[d].backend = b /\ spec[d].model = m

\* DeploymentService.create up to its first insert: the GPU check, the
\* duplicate check and the port, from rows other requests may be adding to.
CreateRead(c) ==
    /\ req[c] = None
    /\ \E p \in Projects, b \in Backends, m \in Models, port \in Ports :
        /\ b = "vllm" => GpuAvailable
        /\ ~AlreadyDeployed(p, b, m)
        /\ LowestFree(port)
        /\ req' = [req EXCEPT ![c] = [project |-> p, backend |-> b,
                                      model |-> m, port |-> port]]
    /\ UNCHANGED <<spec, rows, providers, task, exec, docker, snap, writes, faults>>

ProviderKey(s) == [project |-> s.project, backend |-> s.backend, port |-> s.port]

\* Mutant: an existing provider row of that name is reused.
AnyKey(s) == TRUE

\* uq_provider_project_name
KeyFree(s) == ProviderKey(s) \notin providers

\* The provider and the deployment row are inserted and committed; then the
\* start task is sent, unless the process or the broker fails first.
CreateCommit(c) ==
    /\ req[c] # None
    /\ KeyFree(req[c])
    /\ \E d \in Deployments :
        /\ spec[d] = None
        /\ spec' = [spec EXCEPT ![d] = req[c]]
        /\ rows' = [rows EXCEPT ![d] = [status |-> "PENDING", cid |-> None,
                                        err |-> None]]
        /\ \/ Enqueue("start", d) /\ UNCHANGED faults
           \/ Fault /\ UNCHANGED task
    /\ providers' = providers \cup {ProviderKey(req[c])}
    /\ req' = [req EXCEPT ![c] = None]
    /\ UNCHANGED <<exec, docker, snap, writes>>

\* The provider insert fails and the request is rolled back.
CreateConflict(c) ==
    /\ req[c] # None
    /\ ~KeyFree(req[c])
    /\ req' = [req EXCEPT ![c] = None]
    /\ UNCHANGED <<spec, rows, providers, task, exec, docker, snap, writes, faults>>

\* What a route requires of the row it read before it enqueues its task.
Accepts(k, status) ==
    CASE k = "stop" -> status # "STOPPED"
      [] k = "start" -> status \notin Active
      [] OTHER -> TRUE

\* POST stop, start and restart, DELETE, and GET logs.
Request(k, d) ==
    /\ k \in ApiKinds
    /\ Exists(d)
    /\ Accepts(k, rows[d].status)
    /\ Enqueue(k, d)
    /\ UNCHANGED <<spec, rows, providers, req, exec, docker, snap, writes, faults>>

-----------------------------------------------------------------------------
(* Delivery, acknowledgement and redelivery (workers/celery_app.py) *)

At(w, s) == exec[w] # None /\ exec[w].step = s

Goto(w, s) == exec' = [exec EXCEPT ![w].step = s]

Fail(w, e) == exec' = [exec EXCEPT ![w].step = "mark_error", ![w].err = e]

\* An acknowledgement for a delivery the broker has taken back is ignored.
Ack(w) ==
    LET t == exec[w].task IN
    task' = IF task[t] # None /\ task[t].holder = w
            THEN [task EXCEPT ![t] = None]
            ELSE task

Finish(w) == Ack(w) /\ exec' = [exec EXCEPT ![w] = None]

\* Mutant: the message is acknowledged when it is received.
DeliverEarlyAck(w, t) ==
    /\ exec[w] = None
    /\ task[t] # None /\ task[t].holder = None
    /\ task' = [task EXCEPT ![t] = None]
    /\ exec' = [exec EXCEPT ![w] =
                    [task |-> t, kind |-> task[t].kind, dep |-> task[t].dep,
                     step |-> FirstStep(task[t].kind), cid |-> None, err |-> None]]
    /\ UNCHANGED <<spec, rows, providers, req, docker, snap, writes, faults>>

\* A free worker takes a queued message and keeps it until it has finished.
Deliver(w, t) ==
    /\ exec[w] = None
    /\ task[t] # None /\ task[t].holder = None
    /\ task' = [task EXCEPT ![t].holder = w]
    /\ exec' = [exec EXCEPT ![w] =
                    [task |-> t, kind |-> task[t].kind, dep |-> task[t].dep,
                     step |-> FirstStep(task[t].kind), cid |-> None, err |-> None]]
    /\ UNCHANGED <<spec, rows, providers, req, docker, snap, writes, faults>>

\* The holder of the message is no longer executing it.
Abandoned(t) ==
    LET w == task[t].holder IN exec[w] = None \/ exec[w].task # t

\* The visibility timeout expires: the message is queued again, also when its
\* worker is merely slow, as it is while a model downloads.
Redeliver(t) ==
    /\ task[t] # None /\ task[t].holder # None
    /\ IF Abandoned(t) THEN UNCHANGED faults ELSE Fault
    /\ task' = [task EXCEPT ![t].holder = None]
    /\ UNCHANGED <<spec, rows, providers, req, exec, docker, snap, writes>>

\* The worker dies in the middle of a task.  If only its child process was
\* killed, the parent acknowledges the message and the task is lost.
WorkerDies(w) ==
    /\ exec[w] # None
    /\ Fault
    /\ UNCHANGED task \/ (ChildKills /\ Ack(w))
    /\ exec' = [exec EXCEPT ![w] = None]
    /\ UNCHANGED <<spec, rows, providers, req, docker, snap, writes>>

-----------------------------------------------------------------------------
(* Worker steps (workers/tasks/deployment.py) *)

\* Mutant: the row is written whether or not it is still there.
UpsertStatus(d, s, c, e) ==
    rows' = [rows EXCEPT ![d] = [status |-> s, cid |-> c, err |-> e]]

\* _set_status: silent when the row is gone; a container id is only ever set.
SetStatus(d, s, c, e) ==
    rows' = IF Exists(d)
            THEN [rows EXCEPT ![d] = [status |-> s,
                                      cid |-> IF c = None THEN rows[d].cid ELSE c,
                                      err |-> e]]
            ELSE rows

\* _container_id_of
ContainerIdOf(d) == IF Exists(d) THEN rows[d].cid ELSE None

\* _start reads the row; a task whose row is gone ends here.
StartRead(w) ==
    /\ At(w, "start_read")
    /\ IF Exists(exec[w].dep)
       THEN Goto(w, "start_mark") /\ UNCHANGED task
       ELSE Finish(w)
    /\ UNCHANGED <<spec, rows, providers, req, docker, snap, writes, faults>>

StartMark(w) ==
    /\ At(w, "start_mark")
    /\ \/ /\ SetStatus(exec[w].dep, "DOWNLOADING", None, None)
          /\ Goto(w, "run") /\ UNCHANGED faults
       \/ Fault /\ Fail(w, "docker") /\ UNCHANGED rows
    /\ UNCHANGED <<spec, providers, req, task, docker, snap, writes>>

NewBox(c, d, s) == docker' = [docker EXCEPT ![c] = [dep |-> d, state |-> s]]

\* Mutant: a container that already has the name is replaced.
ReplaceContainer(w) ==
    LET d == exec[w].dep IN
    /\ At(w, "run")
    /\ \E c \in Containers :
         /\ FreshId(c)
         /\ docker' = [k \in Containers |->
                         IF k = c THEN [dep |-> d, state |-> "running"]
                         ELSE IF k \in Named(d) THEN None ELSE docker[k]]
         /\ exec' = [exec EXCEPT ![w].cid = c, ![w].step = "ollama_pull"]
    /\ UNCHANGED <<spec, rows, providers, req, task, snap, writes, faults>>

\* images.pull and containers.run.  The container's name is the deployment's,
\* so an earlier container of the deployment, stopped or not, makes run fail;
\* a taken host port makes it fail after the container was created.
RunContainer(w) ==
    LET d == exec[w].dep IN
    /\ At(w, "run")
    /\ \/ Fault /\ Fail(w, "docker") /\ UNCHANGED docker
       \/ Named(d) # {} /\ Fail(w, "name_conflict") /\ UNCHANGED <<docker, faults>>
       \/ \E c \in Containers :
            /\ Named(d) = {} /\ FreshId(c) /\ UNCHANGED faults
            /\ IF PortTaken(spec[d].port)
               THEN NewBox(c, d, "created") /\ Fail(w, "port_in_use")
               ELSE /\ NewBox(c, d, "running")
                    /\ exec' = [exec EXCEPT ![w].cid = c,
                                  ![w].step = IF spec[d].backend = "ollama"
                                              THEN "ollama_pull"
                                              ELSE "mark_running"]
    /\ UNCHANGED <<spec, rows, providers, req, task, snap, writes>>

\* exec_run(["ollama", "pull", ...]) needs a running container and can fail.
OllamaPull(w) ==
    /\ At(w, "ollama_pull")
    /\ \/ IsRunning(exec[w].cid) /\ Goto(w, "mark_running") /\ UNCHANGED faults
       \/ ~IsRunning(exec[w].cid) /\ Fail(w, "docker") /\ UNCHANGED faults
       \/ Fault /\ Fail(w, "ollama_pull")
    /\ UNCHANGED <<spec, rows, providers, req, task, docker, snap, writes>>

\* Mutant: the container id is not passed on.
MarkRunningOnly(w) ==
    /\ At(w, "mark_running")
    /\ SetStatus(exec[w].dep, "RUNNING", None, None)
    /\ Finish(w)
    /\ UNCHANGED <<spec, providers, req, docker, snap, writes, faults>>

\* The container is recorded with the status, in one transaction.
MarkRunning(w) ==
    /\ At(w, "mark_running")
    /\ SetStatus(exec[w].dep, "RUNNING", exec[w].cid, None)
    /\ Finish(w)
    /\ UNCHANGED <<spec, providers, req, docker, snap, writes, faults>>

\* restart_local_model runs the start body after the stop body, in one task.
EndOfStop(w) ==
    IF exec[w].kind = "restart"
    THEN /\ exec' = [exec EXCEPT ![w].kind = "start", ![w].step = "start_read",
                                 ![w].cid = None, ![w].err = None]
         /\ UNCHANGED task
    ELSE Finish(w)

\* The except clause of _start and of _stop: whatever container there is stays.
MarkError(w) ==
    /\ At(w, "mark_error")
    /\ SetStatus(exec[w].dep, "ERROR", None, exec[w].err)
    /\ EndOfStop(w)
    /\ UNCHANGED <<spec, providers, req, docker, snap, writes, faults>>

StopRead(w) ==
    /\ At(w, "stop_read")
    /\ LET c == ContainerIdOf(exec[w].dep) IN
       exec' = [exec EXCEPT ![w].cid = c,
                   ![w].step = IF c = None THEN "mark_stopped" ELSE "stop"]
    /\ UNCHANGED <<spec, rows, providers, req, task, docker, snap, writes, faults>>

\* containers.get(id).stop(): the container keeps its name and is not removed.
StopContainer(w) ==
    LET c == exec[w].cid IN
    /\ At(w, "stop")
    /\ \/ /\ docker[c] # None
          /\ docker' = IF docker[c].state = "created" THEN docker
                       ELSE [docker EXCEPT ![c].state = "stopped"]
          /\ Goto(w, "mark_stopped") /\ UNCHANGED faults
       \/ docker[c] = None /\ Fail(w, "docker") /\ UNCHANGED <<docker, faults>>
       \/ Fault /\ Fail(w, "docker") /\ UNCHANGED docker
    /\ UNCHANGED <<spec, rows, providers, req, task, snap, writes>>

MarkStopped(w) ==
    /\ At(w, "mark_stopped")
    /\ SetStatus(exec[w].dep, "STOPPED", None, None)
    /\ EndOfStop(w)
    /\ UNCHANGED <<spec, providers, req, docker, snap, writes, faults>>

DeleteRead(w) ==
    /\ At(w, "delete_read")
    /\ LET c == ContainerIdOf(exec[w].dep) IN
       exec' = [exec EXCEPT ![w].cid = c,
                   ![w].step = IF c = None THEN "delete_row" ELSE "remove"]
    /\ UNCHANGED <<spec, rows, providers, req, task, docker, snap, writes, faults>>

\* remove(force=True); a failure is logged and the row is deleted anyway.
RemoveContainer(w) ==
    /\ At(w, "remove")
    /\ \/ docker' = [docker EXCEPT ![exec[w].cid] = None] /\ UNCHANGED faults
       \/ Fault /\ UNCHANGED docker
    /\ Goto(w, "delete_row")
    /\ UNCHANGED <<spec, rows, providers, req, task, snap, writes>>

\* The deployment row goes; its provider row stays.
DeleteRow(w) ==
    /\ At(w, "delete_row")
    /\ rows' = [rows EXCEPT ![exec[w].dep] = None]
    /\ Finish(w)
    /\ UNCHANGED <<spec, providers, req, docker, snap, writes, faults>>

LogsRead(w) ==
    /\ At(w, "logs_read")
    /\ LET c == ContainerIdOf(exec[w].dep) IN
       IF c # None /\ docker[c] # None
       THEN exec' = [exec EXCEPT ![w].cid = c, ![w].step = "follow"] /\ UNCHANGED task
       ELSE Finish(w)
    /\ UNCHANGED <<spec, rows, providers, req, docker, snap, writes, faults>>

\* The followed stream ends with its container, or is cut at max_lines.
FollowEnds(w) ==
    /\ At(w, "follow")
    /\ ~IsRunning(exec[w].cid)
    /\ Finish(w)
    /\ UNCHANGED <<spec, rows, providers, req, docker, snap, writes, faults>>

FollowTruncated(w) ==
    /\ At(w, "follow")
    /\ IsRunning(exec[w].cid)
    /\ Finish(w)
    /\ UNCHANGED <<spec, rows, providers, req, docker, snap, writes, faults>>

-----------------------------------------------------------------------------
(* Containers that die by themselves, and the poll that notices *)

ContainerDies(c) ==
    /\ IsRunning(c) /\ Fault
    /\ docker' = [docker EXCEPT ![c].state = "exited"]
    /\ UNCHANGED <<spec, rows, providers, req, task, exec, snap, writes>>

\* Restart policy "unless-stopped".
ContainerRevives(c) ==
    /\ docker[c] # None /\ docker[c].state = "exited"
    /\ ~PortTaken(spec[docker[c].dep].port)
    /\ docker' = [docker EXCEPT ![c].state = "running"]
    /\ UNCHANGED <<spec, rows, providers, req, task, exec, snap, writes, faults>>

PollIdle == \A d \in Deployments : snap[d] = None /\ writes[d] = None

\* poll_container_health reads every row in one query.
PollRead ==
    /\ PollIdle
    /\ snap' = [d \in Deployments |->
                  IF Exists(d) /\ rows[d].cid # None
                  THEN [status |-> rows[d].status, cid |-> rows[d].cid]
                  ELSE None]
    /\ UNCHANGED <<spec, rows, providers, req, task, exec, docker, writes, faults>>

\* Mutant: ERROR is taken for a final status.
Unpolled == Starting \cup {"ERROR"}

\* The statuses the poll leaves to the task that is starting the container.
LeftToTask == Starting

\* Each recorded container is looked up in turn; an engine error counts as a
\* container that is gone.
PollCheck(d) ==
    /\ snap[d] # None
    /\ \E up \in {IsRunning(snap[d].cid), FALSE} :
        /\ IF up # IsRunning(snap[d].cid) THEN Fault ELSE UNCHANGED faults
        /\ LET desired == IF up THEN "RUNNING" ELSE "STOPPED" IN
           writes' = [writes EXCEPT ![d] =
                        IF snap[d].status \notin LeftToTask \cup {desired}
                        THEN desired ELSE None]
    /\ snap' = [snap EXCEPT ![d] = None]
    /\ UNCHANGED <<spec, rows, providers, req, task, exec, docker>>

\* One flush writes every changed status; a row deleted in the meantime makes
\* it fail (StaleDataError) and rolls all of them back.
PollFlush ==
    /\ \A d \in Deployments : snap[d] = None
    /\ \E d \in Deployments : writes[d] # None
    /\ rows' = IF \A d \in Deployments : writes[d] # None => Exists(d)
               THEN [d \in Deployments |->
                       IF writes[d] = None THEN rows[d]
                       ELSE [rows[d] EXCEPT !.status = writes[d]]]
               ELSE rows
    /\ writes' = [d \in Deployments |-> None]
    /\ UNCHANGED <<spec, providers, req, task, exec, docker, snap, faults>>

PollDies ==
    /\ ~PollIdle /\ Fault
    /\ snap' = [d \in Deployments |-> None]
    /\ writes' = [d \in Deployments |-> None]
    /\ UNCHANGED <<spec, rows, providers, req, task, exec, docker>>

-----------------------------------------------------------------------------
Api ==
    \/ \E c \in Clients : CreateRead(c) \/ CreateCommit(c) \/ CreateConflict(c)
    \/ \E k \in ApiKinds, d \in Deployments : Request(k, d)

Broker ==
    \/ \E w \in Workers, t \in Tasks : Deliver(w, t)
    \/ \E t \in Tasks : Redeliver(t)
    \/ \E w \in Workers : WorkerDies(w)

\* The steps of a worker that has a task, apart from waiting for log lines.
WorkerStep(w) ==
    \/ StartRead(w) \/ StartMark(w) \/ RunContainer(w) \/ OllamaPull(w)
    \/ MarkRunning(w) \/ MarkError(w)
    \/ StopRead(w) \/ StopContainer(w) \/ MarkStopped(w)
    \/ DeleteRead(w) \/ RemoveContainer(w) \/ DeleteRow(w)
    \/ LogsRead(w) \/ FollowEnds(w)

Engine == \E c \in Containers : ContainerDies(c) \/ ContainerRevives(c)

Poll == PollRead \/ (\E d \in Deployments : PollCheck(d)) \/ PollFlush

Next ==
    \/ Api \/ Broker \/ Engine \/ Poll \/ PollDies
    \/ \E w \in Workers : WorkerStep(w) \/ FollowTruncated(w)

Spec == Init /\ [][Next]_vars

\* Beat keeps starting polls, the broker hands queued messages to free workers
\* and takes back those of dead ones, and a worker finishes what it started.
\* Users, failures and the lines a container logs are not fair.
Fairness ==
    /\ WF_vars(PollRead) /\ WF_vars(PollFlush)
    /\ \A d \in Deployments : WF_vars(PollCheck(d))
    /\ \A w \in Workers : WF_vars(WorkerStep(w))
    /\ \A t \in Tasks : WF_vars(Redeliver(t) /\ Abandoned(t))
    /\ \A t \in Tasks : SF_vars(\E w \in Workers : Deliver(w, t))

FairSpec == Spec /\ Fairness

-----------------------------------------------------------------------------
(* Safety *)

\* A row that reads RUNNING names a container, whichever of the start task and
\* the health poll wrote it (_set_status, _poll_health).
RunningHasContainer ==
    \A d \in Deployments :
        Exists(d) /\ rows[d].status = "RUNNING" => rows[d].cid # None

\* Two deployments of one project on one backend never have the same host port,
\* although both may have been allocated from the same set of used ports.
PortsDistinctPerOwner ==
    \A d, e \in Deployments :
        /\ Exists(d) /\ Exists(e) /\ d # e
        /\ spec[d].project = spec[e].project
        /\ spec[d].backend = spec[e].backend
        => spec[d].port # spec[e].port

\* A start task that has a container of its own, not yet recorded on the row.
Building(w) == At(w, "ollama_pull") \/ At(w, "mark_running")

\* However many start and restart tasks of one deployment are delivered, and
\* redelivered while they run, at most one of them ever brings up a container.
OneBuilder ==
    \A v, w \in Workers :
        Building(v) /\ Building(w) /\ exec[v].dep = exec[w].dep => v = w

\* A container that is being brought up is known to nobody but the task that
\* created it: no stop, delete, log stream or poll can act on it before the task
\* records it.
BuilderOwnsContainer ==
    \A w \in Workers : Building(w) =>
        /\ exec[w].cid # None /\ docker[exec[w].cid] # None
        /\ docker[exec[w].cid].dep = exec[w].dep
        /\ \A d \in Deployments : Exists(d) => rows[d].cid # exec[w].cid
        /\ \A d \in Deployments : snap[d] # None => snap[d].cid # exec[w].cid
        /\ \A v \in Workers : exec[v] # None /\ v # w => exec[v].cid # exec[w].cid

\* The container a row records is forgotten only once it no longer exists.
RecordedContainerKept ==
    [][\A d \in Deployments :
         /\ Exists(d) /\ rows[d].cid # None
         /\ rows'[d] # None
         /\ rows'[d].cid # rows[d].cid
         => docker[rows[d].cid] = None]_vars

\* No task, poll or request that is still under way brings a deleted row back.
DeletedStaysDeleted ==
    [][\A d \in Deployments :
         spec[d] # None /\ rows[d] = None => rows'[d] = None]_vars

-----------------------------------------------------------------------------
(* Liveness *)

HasTask(d) ==
    \/ \E t \in Tasks : task[t] # None /\ task[t].dep = d
    \/ \E w \in Workers : exec[w] # None /\ exec[w].dep = d

\* What the poll makes of a row that no task is changing.
Reconciled(d) ==
    Exists(d) /\ rows[d].cid # None /\ rows[d].status \notin Starting
        => (rows[d].status = "RUNNING" <=> IsRunning(rows[d].cid))

\* Once the tasks of a deployment are done with, the poll makes its status agree
\* with its container for good, whatever the last task or an overtaken poll wrote.
PollConverges ==
    \A d \in Deployments : <>[]~HasTask(d) => <>[]Reconciled(d)

\* A delete that was accepted ends with the row gone, across worker restarts.
DeleteCompletes ==
    \A d \in Deployments, t \in Tasks :
        (task[t] # None /\ task[t].kind = "delete" /\ task[t].dep = d)
            ~> ~Exists(d)

-----------------------------------------------------------------------------
(* What the code says of itself and does not do *)

\* "Relaunch a deployment whose container is stopped or errored."
RelaunchNotBlocked ==
    \A d \in Deployments : Exists(d) => rows[d].err # "name_conflict"
=============================================================================
