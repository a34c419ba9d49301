-------------------------------- MODULE Workers --------------------------------
(***************************************************************************)
(* WorkerManagerSwarm: one Docker service per user runs the user's TDLib   *)
(* worker, at a port kept in worker_ports.  Requests of the dashboard      *)
(* start and stop services, a restart of nest_api creates again those that *)
(* are missing, and an hourly job moves the services to a new image.       *)
(*                                                                         *)
(* Every handler is cut where it awaits Docker or the database.  Docker    *)
(* refuses an update that names a version of the service other than the    *)
(* current one: fresh holds the handlers whose inspection is still current.*)
(***************************************************************************)
EXTENDS Naturals, FiniteSets, FiniteSetsExt

CONSTANTS
  User,
  Task,               \* requests in progress at a time
  DEFAULT_START_PORT,
  MAX_PORT,
  MaxImage,           \* bound on the images published
  MaxFaults,          \* bound on the failures of Docker
  MaxCrashes          \* bound on the restarts of nest_api

ASSUME WorkersAssumption ==
  /\ DEFAULT_START_PORT \in Nat \ {0} /\ MAX_PORT \in Nat
  /\ DEFAULT_START_PORT <= MAX_PORT
  /\ MaxImage \in Nat /\ MaxFaults \in Nat /\ MaxCrashes \in Nat
  /\ User \cap Task = {}
  /\ IsFiniteSet(User)

Port == DEFAULT_START_PORT .. MAX_PORT

VARIABLES
  port,     \* worker_ports: the port of each user's worker, 0 for no row
  service,  \* Docker's services
  registry, \* the image last published
  local,    \* the image Docker holds, 0 for none
  cached,   \* currentImageDigest, 0 for null
  job,      \* the request each task handles
  cron,     \* the step of the image check
  old,      \* the digest the image check read before pulling
  update,   \* update[u]: the step of updateService(u)
  fresh,    \* handlers whose inspection of a service is still current
  verify,   \* workers that onModuleInit has still to verify
  together, \* history: the users {u, v} who looked for a new port at once, {u} when
            \* two starts of one user did
  faults, crashes

requests == <<port, job, verify, together>>
images == <<registry, local, cached, cron, old, update>>
vars == <<port, service, registry, local, cached, job, cron, old, update, fresh, verify,
          together, faults, crashes>>

\* A running task is one Docker reports running, that is, past its health check.
Service ==
  [port : {0} \cup Port, replicas : {0, 1}, task : {"none", "starting", "running"},
   image : Nat]

NoService == [port |-> 0, replicas |-> 0, task |-> "none", image |-> 0]

Job ==
  [pc : {"idle", "verify", "status", "network", "remove", "volume", "port", "next",
         "assign", "create", "wait", "discard", "start", "scale", "inspect", "stop"},
   user : User \cup {"none"}, running : BOOLEAN, port : {0} \cup Port]

NoJob == [pc |-> "idle", user |-> "none", running |-> FALSE, port |-> 0]

Init ==
  /\ port = [u \in User |-> 0]
  /\ service = [u \in User |-> NoService]
  /\ registry = 1 /\ local \in {0, 1} /\ cached = 0
  /\ job = [t \in Task |-> NoJob]
  /\ cron = "idle" /\ old = 0
  /\ update = [u \in User |-> "idle"]
  /\ fresh = {} /\ verify = {} /\ together = {}
  /\ faults = 0 /\ crashes = 0

------------------------------------------------------------------------------
Exists(u) == service[u].port # 0
Idle(t) == job[t].pc = "idle"
At(t, pc) == job[t].pc = pc
Goto(t, pc) == job' = [job EXCEPT ![t].pc = pc]
Finish(t) == job' = [job EXCEPT ![t] = NoJob]
Begin(t, u, pc) == Idle(t) /\ job' = [job EXCEPT ![t] = [NoJob EXCEPT !.pc = pc, !.user = u]]

\* A call to Docker or to the database that throws.
Fault == faults < MaxFaults /\ faults' = faults + 1
NoFault == UNCHANGED faults

\* A change of u's service: what was inspected before is out of date.
Change(u, new) ==
  /\ service' = [service EXCEPT ![u] = new]
  /\ fresh' = fresh \ ({u} \cup {t \in Task : job[t].user = u})

Unchanged == UNCHANGED <<service, fresh>>

\* Docker starts a task from the image it holds, pulling it when it holds none.
ImageUsed == IF local = 0 THEN registry ELSE local
Started(p) == [port |-> p, replicas |-> 1, task |-> "starting", image |-> ImageUsed]

\* Mutated: scaled down by one instead of to none.
StoppedByOne(s) == [s EXCEPT !.replicas = @ - 1, !.task = "none"]

Stopped(s) == [s EXCEPT !.replicas = 0, !.task = "none"]

\* onModuleInit is awaited before requests are served and timers run.
Serving == verify = {} /\ \A t \in Task : ~At(t, "verify")

------------------------------------------------------------------------------
\* Requests.  Nothing keeps two of one user, or of several, from running side by side:
\* the dashboard does not even wait for a start to end.
StartWorker(t, u) ==
  /\ Serving
  /\ Begin(t, u, "status")
  /\ Unchanged /\ NoFault
  /\ UNCHANGED <<port, verify, together, images, crashes>>

\* stopWorker, and updateBotStatus when it disables the bot
StopWorker(t, u) ==
  /\ Serving
  /\ Begin(t, u, "inspect")
  /\ Unchanged /\ NoFault
  /\ UNCHANGED <<port, verify, together, images, crashes>>

\* verifyAndRecreateWorkers: all workers at once, as many as there are tasks.
VerifyWorker(t, u) ==
  /\ u \in verify
  /\ Begin(t, u, "verify")
  /\ verify' = verify \ {u}
  /\ Unchanged /\ NoFault
  /\ UNCHANGED <<port, together, images, crashes>>

\* getStatus answers null for a service that is missing and whenever Docker fails.
Verify(t) ==
  /\ At(t, "verify")
  /\ \/ Exists(job[t].user) /\ Finish(t) /\ NoFault
     \/ ~Exists(job[t].user) /\ Goto(t, "status") /\ NoFault
     \/ Goto(t, "status") /\ Fault
  /\ Unchanged
  /\ UNCHANGED <<port, verify, together, images, crashes>>

ReadStatus(t) ==
  /\ At(t, "status")
  /\ LET u == job[t].user
     IN  \/ /\ Exists(u) /\ NoFault
            /\ job' = [job EXCEPT ![t].pc = "network",
                                  ![t].running = service[u].task = "running"]
         \/ ~Exists(u) /\ Goto(t, "volume") /\ NoFault
         \/ Goto(t, "volume") /\ Fault
  /\ Unchanged
  /\ UNCHANGED <<port, verify, together, images, crashes>>

\* isServiceOnCorrectNetwork: services are created on it, but a failed or fruitless
\* inspection counts as the wrong network.
CheckNetwork(t) ==
  /\ At(t, "network")
  /\ \/ /\ Exists(job[t].user) /\ NoFault
        /\ IF job[t].running THEN Finish(t) ELSE Goto(t, "start")
     \/ ~Exists(job[t].user) /\ Goto(t, "remove") /\ NoFault
     \/ Goto(t, "remove") /\ Fault
  /\ Unchanged
  /\ UNCHANGED <<port, verify, together, images, crashes>>

\* A failure to remove the service is logged.
RemoveService(t, next) ==
  /\ \/ Change(job[t].user, NoService) /\ NoFault
     \/ Unchanged /\ Fault
  /\ IF next = "idle" THEN Finish(t) ELSE Goto(t, next)
  /\ UNCHANGED <<port, verify, together, images, crashes>>

RemoveMisplaced(t) == At(t, "remove") /\ RemoveService(t, "volume")

\* ensureVolumeExists and getEnvFromPath: they throw out of run.
EnsureVolume(t) ==
  /\ At(t, "volume")
  /\ \/ Goto(t, "port") /\ NoFault
     \/ Finish(t) /\ Fault
  /\ Unchanged
  /\ UNCHANGED <<port, verify, together, images, crashes>>

\* Between the query that found no port of u's and the one that assigns the next.
LooksForPort(t) == job[t].pc \in {"next", "assign"}
LookTogether(t) ==
  together' = together \cup {{job[s].user, job[t].user} : s \in {s \in Task : LooksForPort(s)}}

\* Mutated: the port the worker already has is not looked for.
ReadPortForgotten(t) ==
  /\ At(t, "port")
  /\ Goto(t, "next") /\ LookTogether(t)
  /\ Unchanged /\ NoFault
  /\ UNCHANGED <<port, verify, images, crashes>>

\* getPortForWorker: getWorkerPort
ReadPort(t) ==
  /\ At(t, "port")
  /\ LET p == port[job[t].user]
     IN  IF p # 0
         THEN job' = [job EXCEPT ![t].pc = "create", ![t].port = p] /\ UNCHANGED together
         ELSE Goto(t, "next") /\ LookTogether(t)
  /\ Unchanged /\ NoFault
  /\ UNCHANGED <<port, verify, images, crashes>>

\* Mutated: the last port of the range is never given out.
NextPortWrapsEarly ==
  LET maxPort == Max({port[u] : u \in User})
  IN  IF maxPort = 0 \/ maxPort + 1 >= MAX_PORT THEN DEFAULT_START_PORT ELSE maxPort + 1

getNextPort ==
  LET maxPort == Max({port[u] : u \in User})
  IN  IF maxPort = 0 \/ maxPort + 1 > MAX_PORT THEN DEFAULT_START_PORT ELSE maxPort + 1

ComputePort(t) ==
  /\ At(t, "next")
  /\ job' = [job EXCEPT ![t].pc = "assign", ![t].port = getNextPort]
  /\ Unchanged /\ NoFault
  /\ UNCHANGED <<port, verify, together, images, crashes>>

AssignPort(t) ==
  /\ At(t, "assign")
  /\ port' = [port EXCEPT ![job[t].user] = job[t].port]
  /\ Goto(t, "create")
  /\ Unchanged /\ NoFault
  /\ UNCHANGED <<verify, together, images, crashes>>

\* createService: 409 for a name in use leads to startByUserId; a port published by
\* another service is refused; the answer of a call that took effect may be lost.
CreateService(t) ==
  /\ At(t, "create")
  /\ LET u == job[t].user
         taken == \E v \in User : service[v].port = job[t].port
     IN  \/ Exists(u) /\ Goto(t, "start") /\ Unchanged /\ NoFault
         \/ ~Exists(u) /\ taken /\ Finish(t) /\ Unchanged /\ NoFault
         \/ ~Exists(u) /\ ~taken /\ Change(u, Started(job[t].port))
              /\ \/ job' = [job EXCEPT ![t].pc = "wait", ![t].running = TRUE] /\ NoFault
                 \/ Finish(t) /\ Fault
         \/ Finish(t) /\ Unchanged /\ Fault
  /\ UNCHANGED <<port, verify, together, images, crashes>>

\* waitUntilHealthy: a failing check counts as not yet healthy, until the timeout.
\* job[t].running tells that this handler created the service it waits for.
WaitUntilHealthy(t) ==
  /\ At(t, "wait")
  /\ \/ service[job[t].user].task = "running" /\ Finish(t)
     \/ IF job[t].running THEN Goto(t, "discard") ELSE Finish(t)
  /\ Unchanged /\ NoFault
  /\ UNCHANGED <<port, verify, together, images, crashes>>

DiscardUnhealthy(t) == At(t, "discard") /\ RemoveService(t, "idle")

\* startByUserId
InspectToStart(t) ==
  /\ At(t, "start")
  /\ LET u == job[t].user
     IN  \/ /\ Exists(u) /\ NoFault
            /\ job' = [job EXCEPT ![t].pc = IF service[u].replicas = 0 THEN "scale" ELSE "wait",
                                  ![t].running = FALSE]
            /\ fresh' = fresh \cup {t}
         \/ ~Exists(u) /\ Finish(t) /\ UNCHANGED fresh /\ NoFault
         \/ Finish(t) /\ UNCHANGED fresh /\ Fault
  /\ UNCHANGED <<service, port, verify, together, images, crashes>>

ScaleUp(t) ==
  /\ At(t, "scale")
  /\ LET u == job[t].user
     IN  \/ t \in fresh /\ Change(u, Started(service[u].port)) /\ Goto(t, "wait") /\ NoFault
         \/ t \notin fresh /\ Finish(t) /\ Unchanged /\ NoFault
         \/ Finish(t) /\ Unchanged /\ Fault
  /\ UNCHANGED <<port, verify, together, images, crashes>>

\* stop: either call may throw out of it.
InspectToStop(t) ==
  /\ At(t, "inspect")
  /\ \/ Exists(job[t].user) /\ Goto(t, "stop") /\ fresh' = fresh \cup {t} /\ NoFault
     \/ ~Exists(job[t].user) /\ Finish(t) /\ UNCHANGED fresh /\ NoFault
     \/ Finish(t) /\ UNCHANGED fresh /\ Fault
  /\ UNCHANGED <<service, port, verify, together, images, crashes>>

ScaleDown(t) ==
  /\ At(t, "stop")
  /\ LET u == job[t].user
     IN  \/ t \in fresh /\ Change(u, Stopped(service[u])) /\ NoFault
         \/ t \notin fresh /\ Unchanged /\ NoFault
         \/ Unchanged /\ Fault
  /\ Finish(t)
  /\ UNCHANGED <<port, verify, together, images, crashes>>

------------------------------------------------------------------------------
\* checkAndUpdateImage
CronIdle == cron = "idle" /\ \A u \in User : update[u] = "idle"

\* checkForNewImage: the digest before the pull; a failing inspection counts as none.
CheckImage ==
  /\ Serving /\ CronIdle
  /\ \/ old' = local /\ NoFault
     \/ old' = 0 /\ Fault
  /\ cron' = "pull"
  /\ Unchanged
  /\ UNCHANGED <<requests, registry, local, cached, update, crashes>>

PullImage ==
  /\ cron = "pull"
  /\ \/ local' = registry /\ cron' = "compare" /\ NoFault
     \/ cron' = "idle" /\ UNCHANGED local /\ Fault
  /\ Unchanged
  /\ UNCHANGED <<requests, registry, cached, old, update, crashes>>

\* There is a previous digest and it differs, or the image was not there before.
HasNewImage ==
  LET previous == IF cached # 0 THEN cached ELSE old
  IN  previous # local

CompareImage ==
  /\ cron = "compare"
  /\ \/ cron' = (IF HasNewImage THEN "list" ELSE "idle") /\ NoFault
        /\ cached' = IF HasNewImage THEN local ELSE cached
     \/ cron' = "idle" /\ UNCHANGED cached /\ Fault
  /\ Unchanged
  /\ UNCHANGED <<requests, registry, local, old, update, crashes>>

\* Mutated: only services that run already are listed.
ListedWhenRunning(u) == service[u].task = "running"

\* listActiveServices: those that want a replica
Listed(u) == Exists(u) /\ service[u].replicas > 0

\* A service whose inspection fails is left out.
ListActiveServices ==
  /\ cron = "list"
  /\ \/ /\ update' = [u \in User |-> IF Listed(u) THEN "inspect" ELSE "idle"]
        /\ NoFault
     \/ \E skipped \in User :
          /\ update' = [u \in User |-> IF Listed(u) /\ u # skipped THEN "inspect" ELSE "idle"]
          /\ Fault
  /\ cron' = "idle"
  /\ Unchanged
  /\ UNCHANGED <<requests, registry, local, cached, old, crashes>>

\* updateService
InspectToUpdate(u) ==
  /\ update[u] = "inspect"
  /\ \/ /\ Exists(u) /\ NoFault
        /\ update' = [update EXCEPT ![u] = IF service[u].replicas = 0 THEN "applyStopped"
                                           ELSE "apply"]
        /\ fresh' = fresh \cup {u}
     \/ ~Exists(u) /\ update' = [update EXCEPT ![u] = "idle"] /\ UNCHANGED fresh /\ NoFault
     \/ update' = [update EXCEPT ![u] = "idle"] /\ UNCHANGED fresh /\ Fault
  /\ UNCHANGED <<service, requests, registry, local, cached, cron, old, crashes>>

\* Mutated: the version is not the one that was inspected with the rest.
UpdateIgnoresVersion(u) == Exists(u)

UpdateAccepted(u) == u \in fresh

\* The specification is sent back as it was inspected, replicas included, with the
\* image and one more ForceUpdate, which makes Docker start the task anew.
UpdateService(u) ==
  /\ update[u] \in {"apply", "applyStopped"}
  /\ \/ /\ UpdateAccepted(u) /\ NoFault
        /\ Change(u, IF update[u] = "apply" THEN Started(service[u].port)
                     ELSE Stopped(service[u]))
     \/ ~UpdateAccepted(u) /\ Unchanged /\ NoFault
     \/ Unchanged /\ Fault
  /\ update' = [update EXCEPT ![u] = "idle"]
  /\ UNCHANGED <<requests, registry, local, cached, cron, old, crashes>>

------------------------------------------------------------------------------
\* Docker and the world.
TaskBecomesHealthy(u) ==
  /\ service[u].task = "starting"
  /\ service' = [service EXCEPT ![u].task = "running"]
  /\ UNCHANGED <<requests, images, fresh, faults, crashes>>

\* RestartPolicy on-failure
TaskRestarts(u) ==
  /\ service[u].task = "running"
  /\ service' = [service EXCEPT ![u] = Started(service[u].port)]
  /\ UNCHANGED <<requests, images, fresh, faults, crashes>>

PublishImage ==
  /\ registry < MaxImage
  /\ registry' = registry + 1
  /\ UNCHANGED <<requests, service, local, cached, cron, old, update, fresh, faults, crashes>>

\* nest_api dies and starts again: its intervals, requests and cache are gone.
Restart ==
  /\ crashes < MaxCrashes
  /\ crashes' = crashes + 1
  /\ job' = [t \in Task |-> NoJob]
  /\ cron' = "idle" /\ old' = 0 /\ cached' = 0
  /\ update' = [u \in User |-> "idle"]
  /\ fresh' = {}
  /\ verify' = {u \in User : port[u] # 0}
  /\ UNCHANGED <<port, together, service, registry, local, faults>>

------------------------------------------------------------------------------
Request(t) ==
  \E u \in User : StartWorker(t, u) \/ StopWorker(t, u) \/ VerifyWorker(t, u)

Continue(t) ==
  \/ Verify(t) \/ ReadStatus(t) \/ CheckNetwork(t) \/ RemoveMisplaced(t)
  \/ EnsureVolume(t) \/ ReadPort(t) \/ ComputePort(t) \/ AssignPort(t)
  \/ CreateService(t) \/ WaitUntilHealthy(t) \/ DiscardUnhealthy(t)
  \/ InspectToStart(t) \/ ScaleUp(t) \/ InspectToStop(t) \/ ScaleDown(t)

ImageCheck ==
  \/ CheckImage \/ PullImage \/ CompareImage \/ ListActiveServices
  \/ \E u \in User : InspectToUpdate(u) \/ UpdateService(u)

World ==
  \/ \E u \in User : TaskBecomesHealthy(u) \/ TaskRestarts(u)
  \/ PublishImage \/ Restart

Next == ImageCheck \/ World \/ \E t \in Task : Request(t) \/ Continue(t)

Spec == Init /\ [][Next]_vars

------------------------------------------------------------------------------
(***************************************************************************)
(* Properties                                                              *)
(***************************************************************************)
\* Every variable has its type.
TypeOK ==
  /\ port \in [User -> {0} \cup Port]
  /\ service \in [User -> Service]
  /\ registry \in Nat /\ local \in Nat /\ cached \in Nat /\ old \in Nat
  /\ job \in [Task -> Job]
  /\ cron \in {"idle", "pull", "compare", "list"}
  /\ update \in [User -> {"idle", "inspect", "apply", "applyStopped"}]
  /\ fresh \subseteq Task \cup User
  /\ verify \subseteq User /\ together \subseteq SUBSET User
  /\ faults \in Nat /\ crashes \in Nat

\* The port at which telegram-user-client-proxy calls a worker is the one the worker's
\* service publishes, whatever starts, restarts and failures came between, unless two
\* starts of that user looked for a port at once: the second to assign one replaces the
\* row of the service the first creates.
ServiceAnswersAtItsPort ==
  \A u \in User : Exists(u) /\ {u} \notin together => service[u].port = port[u]

\* Two workers have one port only when both looked for theirs at once, the second reading
\* the highest port before the first assigned it: as long as the range has a port for
\* every worker, and no worker's own two starts left a port of the range unused.
PortsAreDistinct ==
  LET assigned == {u \in User : port[u] # 0}
  IN  /\ Cardinality(assigned) <= Cardinality(Port)
      /\ \A u \in User : {u} \notin together
      => \A u, v \in assigned : port[u] = port[v] => u = v \/ {u, v} \in together

\* A worker that was stopped runs again only because somebody started it, never
\* because an image update wrote back what it had read before the stop.
StoppedUntilStarted ==
  [][\A u \in User :
       service[u].replicas = 0 /\ service'[u].replicas = 1 =>
         \E t \in Task : job[t].user = u /\ job[t].pc \in {"scale", "create"}]_vars

\* Once an image was pulled and the services were updated, with no failure and no
\* restart, no task of an older image is left, whatever was started or stopped
\* meanwhile.
NoTaskLeftBehind ==
  faults = 0 /\ crashes = 0 /\ CronIdle =>
    \A u \in User : service[u].task # "none" => service[u].image >= local

==============================================================================
