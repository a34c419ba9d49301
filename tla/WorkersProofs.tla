---------------------------- MODULE WorkersProofs ----------------------------
(***************************************************************************)
(* Theorems about Workers for every number of users, requests at a time,   *)
(* ports, images, failures and restarts: types, what a stop is worth, what *)
(* the ports are though starts run side by side, and what updates reach.   *)
(***************************************************************************)
EXTENDS Workers, FiniteSetTheorems, WellFoundedInduction, TLAPS

JobOK(t) ==
  /\ job[t].pc # "idle" => job[t].user \in User
  /\ job[t].pc \in {"assign", "create"} => job[t].port \in Port

TypeInv == TypeOK /\ \A t \in Task : JobOK(t)

Stage ==
  {"idle", "verify", "status", "network", "remove", "volume", "port", "next", "assign",
   "create", "wait", "discard", "start", "scale", "inspect", "stop"}

\* A service that wants no replica has no task, and an update that would ask for one
\* goes by an inspection that is out of date.
StoppedIsAsleep ==
  \A u \in User : service[u].replicas = 0 =>
    service[u].task = "none" /\ ~(update[u] = "apply" /\ u \in fresh)

\* Requests that start a worker or verify it
Starting(t) == job[t].pc \notin {"idle", "inspect", "stop"}

\* Two requests that look for a port at once have been noted.
OverlapsNoted ==
  \A s, t \in Task : s # t /\ LooksForPort(s) /\ LooksForPort(t) =>
    {job[s].user, job[t].user} \in together

\* No two starts of the user looked for a port at once.
Undoubled(u) == {u} \notin together

PortsOfJobs ==
  \A t \in Task : Undoubled(job[t].user) =>
    /\ LooksForPort(t) => port[job[t].user] = 0
    /\ job[t].pc = "create" => job[t].port = port[job[t].user]

ServicePorts == \A u \in User : Undoubled(u) => service[u].port \in {0, port[u]}

PortInv == OverlapsNoted /\ PortsOfJobs /\ ServicePorts

Assigned == {u \in User : port[u] # 0}
Used(p) == \E u \in User : port[u] = p

Distinct == \A u, v \in Assigned : port[u] = port[v] => u = v \/ {u, v} \in together

\* Ports are given out one after the other.
Downward == \A p \in Port : Used(p) => \A q \in DEFAULT_START_PORT .. p : Used(q)
Full == \A p \in Port : Used(p)

\* The port a request is about to assign comes after used ones only, and who has it looked
\* for it at the same time.
Claim(t) ==
  job[t].pc = "assign" =>
    /\ \A q \in DEFAULT_START_PORT .. job[t].port - 1 : Used(q)
    /\ \A v \in User : port[v] = job[t].port => {job[t].user, v} \in together

Spread ==
  (\A u \in User : Undoubled(u)) =>
    \/ Cardinality(Assigned) > Cardinality(Port)
    \/ Distinct /\ Downward /\ (Full \/ \A t \in Task : Claim(t))

\* Stages of a start that know of no port
Portless ==
  {"status", "network", "remove", "volume", "port", "start", "scale", "wait", "discard"}

\* What a step of task t does to its request and to the ports.
Transition(t) ==
  \/ job'[t] = NoJob /\ UNCHANGED port
  \/ /\ job[t].pc = "idle" /\ job'[t].pc \in {"status", "inspect", "verify"}
     /\ job'[t].user \in User /\ UNCHANGED port
  \/ /\ job[t].pc # "idle" /\ job'[t].user = job[t].user
     /\ \/ job'[t].pc \in Portless /\ Starting(t) /\ UNCHANGED port
        \/ job'[t].pc = "stop" /\ job[t].pc = "inspect" /\ UNCHANGED port
        \/ /\ job'[t].pc = "next" /\ job[t].pc = "port" /\ port[job[t].user] = 0
           /\ UNCHANGED port
        \/ /\ job'[t].pc = "create" /\ job[t].pc = "port" /\ port[job[t].user] # 0
           /\ job'[t].port = port[job[t].user] /\ UNCHANGED port
        \/ /\ job'[t].pc = "assign" /\ job[t].pc = "next" /\ job'[t].port = getNextPort
           /\ UNCHANGED port
        \/ /\ job'[t].pc = "create" /\ job[t].pc = "assign" /\ job'[t].port = job[t].port
           /\ port' = [port EXCEPT ![job[t].user] = job[t].port]

Moves(t) ==
  /\ job' \in [Task -> Job] /\ \A s \in Task \ {t} : job'[s] = job[s]
  /\ Transition(t)

\* A nonempty set of numbers up to n has a greatest one.
LEMMA GreatestOf ==
  ASSUME NEW n \in Nat, NEW T \in SUBSET (0 .. n), T # {}
  PROVE  Max(T) \in T /\ \A x \in T : Max(T) >= x
<1> DEFINE after(x) == x + 1 .. n
           F == {after(x) : x \in T}
<1>1. F \subseteq FiniteSubsetsOf(0 .. n) /\ F # {}
  <2>1. \A x \in T : after(x) \subseteq 0 .. n
    OBVIOUS
  <2>2. IsFiniteSet(0 .. n)
    BY FS_Interval
  <2> HIDE DEF after
  <2>3. \A x \in T : after(x) \in SUBSET (0 .. n) /\ IsFiniteSet(after(x))
    <3> SUFFICES ASSUME NEW x \in T PROVE after(x) \subseteq 0 .. n /\ IsFiniteSet(after(x))
      OBVIOUS
    <3>1. after(x) \subseteq 0 .. n
      BY <2>1
    <3> QED BY <3>1, <2>2, FS_Subset
  <2> QED BY <2>3 DEF FiniteSubsetsOf
<1>2. PICK D \in F : \A E \in F : ~ (<<E, D>> \in StrictSubsetOrdering(0 .. n))
  <2>1. IsWellFoundedOn(StrictSubsetOrdering(0 .. n), FiniteSubsetsOf(0 .. n))
    BY FS_StrictSubsetOrderingWellFounded, FS_Interval
  <2> HIDE DEF F
  <2> QED BY <1>1, <2>1, WFMin
<1>3. PICK x \in T : D = after(x)
  BY <1>2
<1>4. \A y \in T : x >= y
  <2> SUFFICES ASSUME NEW y \in T, y > x PROVE FALSE
    OBVIOUS
  <2>1. after(y) \subseteq after(x) /\ y \in after(x) /\ y \notin after(y)
        /\ after(y) \subseteq 0 .. n /\ after(x) \subseteq 0 .. n
    OBVIOUS
  <2>2. after(y) \in F /\ D = after(x)
    BY <1>3
  <2> HIDE DEF after, F
  <2>3. <<after(y), after(x)>> \in StrictSubsetOrdering(0 .. n)
    BY <2>1 DEF StrictSubsetOrdering
  <2> QED BY <1>2, <2>2, <2>3
<1> QED BY <1>4 DEF Max

LEMMA NextPortIsOne ==
  ASSUME TypeOK, User # {}
  PROVE  getNextPort \in Port
<1> DEFINE P == {port[u] : u \in User}
<1>1. P \in SUBSET (0 .. MAX_PORT) /\ P # {} /\ MAX_PORT \in Nat
  BY WorkersAssumption DEF TypeOK, Port
<1>2. P \subseteq {0} \cup Port
  BY DEF TypeOK
<1> HIDE DEF P
<1>3. Max(P) \in {0} \cup Port
  BY <1>1, <1>2, GreatestOf
<1>4. getNextPort = IF Max(P) = 0 \/ Max(P) + 1 > MAX_PORT THEN DEFAULT_START_PORT
                    ELSE Max(P) + 1
  BY DEF getNextPort, P
<1> QED BY <1>3, <1>4, WorkersAssumption DEF Port

(***************************************************************************)
(* Steps of requests                                                       *)
(***************************************************************************)
LEMMA Sets ==
  ASSUME TypeOK, NEW t \in Task, NEW new \in Job, job' = [job EXCEPT ![t] = new]
  PROVE  /\ job' \in [Task -> Job] /\ job'[t] = new
         /\ \A s \in Task \ {t} : job'[s] = job[s]
  BY DEF TypeOK

LEMMA Finishes ==
  ASSUME TypeOK, NEW t \in Task, Finish(t), UNCHANGED port
  PROVE  Moves(t)
<1>1. NoJob \in Job
  BY DEF NoJob, Job
<1> QED BY <1>1, Sets DEF Finish, Moves, Transition

LEMMA Goes ==
  ASSUME TypeOK, NEW t \in Task, NEW pc \in Stage, Goto(t, pc)
  PROVE  /\ job' \in [Task -> Job] /\ \A s \in Task \ {t} : job'[s] = job[s]
         /\ job'[t].pc = pc /\ job'[t].user = job[t].user /\ job'[t].port = job[t].port
<1> DEFINE new == [job[t] EXCEPT !.pc = pc]
<1>1. new \in Job /\ new.pc = pc /\ new.user = job[t].user /\ new.port = job[t].port
  BY DEF TypeOK, Job, Stage
<1>2. job' = [job EXCEPT ![t] = new]
  BY DEF Goto
<1> HIDE DEF new
<1> QED BY <1>1, <1>2, Sets

LEMMA Begins ==
  ASSUME TypeOK, NEW t \in Task, NEW u \in User, NEW pc \in {"status", "inspect", "verify"},
         Begin(t, u, pc), UNCHANGED port
  PROVE  Moves(t) /\ job'[t].user = u /\ job'[t].pc = pc
<1> DEFINE new == [NoJob EXCEPT !.pc = pc, !.user = u]
<1>1. new \in Job /\ new.pc = pc /\ new.user = u
  BY DEF Job, NoJob
<1>2. job' = [job EXCEPT ![t] = new] /\ job[t].pc = "idle"
  BY DEF Begin, Idle
<1> HIDE DEF new
<1> QED BY <1>1, <1>2, Sets DEF Moves, Transition

\* A start that goes on to a stage that knows of no port.
LEMMA GoesOn ==
  ASSUME TypeOK, NEW t \in Task, NEW pc \in Portless, Goto(t, pc), Starting(t), UNCHANGED port
  PROVE  Moves(t)
<1>1. pc \in Stage /\ job[t].pc # "idle"
  BY DEF Portless, Stage, Starting
<1> QED BY <1>1, Goes DEF Moves, Transition

LEMMA RequestMoves ==
  ASSUME TypeOK, NEW t \in Task, Request(t)
  PROVE  Moves(t)
  BY Begins DEF Request, StartWorker, StopWorker, VerifyWorker

LEMMA ContinueMoves ==
  ASSUME TypeOK, NEW t \in Task, JobOK(t), Continue(t)
  PROVE  Moves(t)
<1>1. CASE Verify(t) \/ RemoveMisplaced(t) \/ WaitUntilHealthy(t) \/ DiscardUnhealthy(t) \/ EnsureVolume(t)
  <2>1. Starting(t) /\ UNCHANGED port
    BY <1>1 DEF Starting, At, Verify, RemoveMisplaced, WaitUntilHealthy, DiscardUnhealthy,
                EnsureVolume, RemoveService
  <2>2. \/ Finish(t)
        \/ Goto(t, "status") \/ Goto(t, "volume") \/ Goto(t, "discard") \/ Goto(t, "port")
    BY <1>1 DEF Verify, RemoveMisplaced, WaitUntilHealthy, DiscardUnhealthy,
                EnsureVolume, RemoveService
  <2> QED BY <2>1, <2>2, Finishes, GoesOn DEF Portless
<1>2. CASE ReadStatus(t)
  <2>1. Starting(t) /\ UNCHANGED port /\ job[t].pc # "idle"
    BY <1>2 DEF Starting, At, ReadStatus
  <2>2. CASE Goto(t, "volume")
    BY <2>1, <2>2, GoesOn DEF Portless
  <2>3. CASE job' = [job EXCEPT ![t].pc = "network",
                                ![t].running = service[job[t].user].task = "running"]
    <3> DEFINE new == [job[t] EXCEPT !.pc = "network",
                                     !.running = service[job[t].user].task = "running"]
    <3>1. new \in Job /\ new.pc = "network" /\ new.user = job[t].user
      <4>1. job[t] \in Job
        BY DEF TypeOK
      <4> QED BY <4>1 DEF Job
    <3>2. job' = [job EXCEPT ![t] = new]
      BY <2>3 DEF TypeOK
    <3> HIDE DEF new
    <3> QED BY <2>1, <3>1, <3>2, Sets DEF Moves, Transition, Portless
  <2> QED BY <1>2, <2>2, <2>3 DEF ReadStatus
<1>3. CASE CheckNetwork(t)
  <2>1. Starting(t) /\ UNCHANGED port
    BY <1>3 DEF Starting, At, CheckNetwork
  <2>2. Finish(t) \/ Goto(t, "start") \/ Goto(t, "remove")
    BY <1>3 DEF CheckNetwork
  <2> QED BY <2>1, <2>2, Finishes, GoesOn DEF Portless
<1>4. CASE ReadPort(t)
  <2>1. Starting(t) /\ UNCHANGED port /\ job[t].pc = "port" /\ job[t].user \in User
    BY <1>4 DEF Starting, At, ReadPort, JobOK
  <2>2. CASE Goto(t, "next") /\ port[job[t].user] = 0
    BY <2>1, <2>2, Goes DEF Moves, Transition, Stage
  <2>3. CASE /\ port[job[t].user] # 0
             /\ job' = [job EXCEPT ![t].pc = "create", ![t].port = port[job[t].user]]
    <3> DEFINE new == [job[t] EXCEPT !.pc = "create", !.port = port[job[t].user]]
    <3>1. new \in Job /\ new.pc = "create" /\ new.user = job[t].user
          /\ new.port = port[job[t].user]
      BY <2>1 DEF TypeOK, Job
    <3>2. job' = [job EXCEPT ![t] = new]
      BY <2>3 DEF TypeOK
    <3> HIDE DEF new
    <3> QED BY <2>1, <2>3, <3>1, <3>2, Sets DEF Moves, Transition
  <2> QED BY <1>4, <2>2, <2>3 DEF ReadPort
<1>5. CASE ComputePort(t)
  <2>1. UNCHANGED port /\ job[t].pc = "next" /\ job[t].user \in User
    BY <1>5 DEF At, ComputePort, JobOK
  <2> DEFINE new == [job[t] EXCEPT !.pc = "assign", !.port = getNextPort]
  <2>2. getNextPort \in Port
    BY <2>1, NextPortIsOne
  <2>3. new \in Job /\ new.pc = "assign" /\ new.user = job[t].user /\ new.port = getNextPort
    BY <2>2 DEF TypeOK, Job
  <2>4. job' = [job EXCEPT ![t] = new]
    BY <1>5 DEF TypeOK, ComputePort
  <2> HIDE DEF new
  <2> QED BY <2>1, <2>3, <2>4, Sets DEF Moves, Transition
<1>6. CASE AssignPort(t)
  BY <1>6, Goes DEF AssignPort, At, Moves, Transition, Stage
<1>7. CASE CreateService(t)
  <2>1. Starting(t) /\ UNCHANGED port
    BY <1>7 DEF Starting, At, CreateService
  <2>2. CASE Finish(t)
    BY <2>1, <2>2, Finishes
  <2>3. CASE Goto(t, "start")
    BY <2>1, <2>3, GoesOn DEF Portless
  <2>4. CASE job' = [job EXCEPT ![t].pc = "wait", ![t].running = TRUE]
    <3> DEFINE new == [job[t] EXCEPT !.pc = "wait", !.running = TRUE]
    <3>1. new \in Job /\ new.pc = "wait" /\ new.user = job[t].user
      <4>1. job[t] \in Job
        BY DEF TypeOK
      <4> QED BY <4>1 DEF Job
    <3>2. job' = [job EXCEPT ![t] = new] /\ job[t].pc # "idle"
      BY <2>1, <2>4 DEF TypeOK, Starting
    <3> HIDE DEF new
    <3> QED BY <2>1, <3>1, <3>2, Sets DEF Moves, Transition, Portless
  <2> QED BY <1>7, <2>2, <2>3, <2>4 DEF CreateService
<1>8. CASE InspectToStart(t)
  <2>1. Starting(t) /\ UNCHANGED port
    BY <1>8 DEF Starting, At, InspectToStart
  <2>2. CASE Finish(t)
    BY <2>1, <2>2, Finishes
  <2>3. ASSUME NEW pc \in {"scale", "wait"},
               job' = [job EXCEPT ![t].pc = pc, ![t].running = FALSE]
        PROVE  Moves(t)
    <3> DEFINE new == [job[t] EXCEPT !.pc = pc, !.running = FALSE]
    <3>1. new \in Job /\ new.pc = pc /\ new.user = job[t].user
      <4>1. job[t] \in Job
        BY DEF TypeOK
      <4> QED BY <4>1 DEF Job
    <3>2. job' = [job EXCEPT ![t] = new] /\ job[t].pc # "idle"
      BY <2>1, <2>3 DEF TypeOK, Starting
    <3> HIDE DEF new
    <3> QED BY <2>1, <3>1, <3>2, Sets DEF Moves, Transition, Portless
  <2> QED BY <1>8, <2>2, <2>3 DEF InspectToStart
<1>9. CASE ScaleUp(t)
  <2>1. Starting(t) /\ UNCHANGED port
    BY <1>9 DEF Starting, At, ScaleUp
  <2>2. Finish(t) \/ Goto(t, "wait")
    BY <1>9 DEF ScaleUp
  <2> QED BY <2>1, <2>2, Finishes, GoesOn DEF Portless
<1>10. CASE InspectToStop(t)
  <2>1. UNCHANGED port /\ job[t].pc = "inspect"
    BY <1>10 DEF At, InspectToStop
  <2>2. CASE Goto(t, "stop")
    BY <2>1, <2>2, Goes DEF Moves, Transition, Stage
  <2> QED BY <1>10, <2>1, <2>2, Finishes DEF InspectToStop
<1>11. CASE ScaleDown(t)
  BY <1>11, Finishes DEF ScaleDown
<1> QED BY <1>1, <1>2, <1>3, <1>4, <1>5, <1>6, <1>7, <1>8, <1>9, <1>10, <1>11 DEF Continue

(***************************************************************************)
(* What a step does to the services                                        *)
(***************************************************************************)
Woken(u) == \E t \in Task : job[t].user = u /\ job[t].pc \in {"scale", "create"}

\* A service is left as it is, stopped or removed, kept running, or woken by a start.
Serves(u) ==
  \/ service'[u] = service[u]
  \/ /\ service'[u].replicas = 0 /\ service'[u].task = "none" /\ u \notin fresh'
     /\ service'[u].port \in {0, service[u].port}
  \/ /\ service'[u].replicas = 1 /\ service[u].replicas = 1
     /\ service'[u].port = service[u].port
  \/ /\ service'[u].replicas = 1 /\ Woken(u)
     /\ \/ service'[u].port = service[u].port
        \/ \E t \in Task :
             job[t].pc = "create" /\ job[t].user = u /\ service'[u].port = job[t].port

\* An update that asks for a replica does so still, or has just seen one.
Updates(u) ==
  update'[u] = "apply" /\ u \in fresh' =>
    \/ update[u] = "apply" /\ u \in fresh
    \/ service'[u].replicas = 1

ServiceStep ==
  /\ service' \in [User -> Service] /\ fresh' \subseteq Task \cup User
  /\ \A u \in User : Serves(u) /\ Updates(u)

LEMMA Changes ==
  ASSUME TypeOK, NEW u \in User, NEW new \in Service, Change(u, new)
  PROVE  /\ service' \in [User -> Service] /\ service'[u] = new
         /\ \A v \in User \ {u} : service'[v] = service[v]
         /\ fresh' \subseteq fresh /\ u \notin fresh'
  BY DEF TypeOK, Change

LEMMA StartedIs ==
  ASSUME TypeOK, NEW p \in {0} \cup Port
  PROVE  /\ Started(p) \in Service /\ Started(p).port = p
         /\ Started(p).replicas = 1 /\ Started(p).task = "starting"
  BY DEF TypeOK, Started, Service, ImageUsed

LEMMA StoppedIs ==
  ASSUME TypeOK, NEW u \in User
  PROVE  /\ Stopped(service[u]) \in Service /\ Stopped(service[u]).port = service[u].port
         /\ Stopped(service[u]).replicas = 0 /\ Stopped(service[u]).task = "none"
<1>1. service[u] \in Service
  BY DEF TypeOK
<1> QED BY <1>1 DEF Stopped, Service

LEMMA NoServiceIs ==
  /\ NoService \in Service /\ NoService.port = 0
  /\ NoService.replicas = 0 /\ NoService.task = "none"
  BY DEF NoService, Service

LEMMA StaysAsItIs ==
  ASSUME TypeOK, UNCHANGED <<service, update>>, fresh' \subseteq fresh \cup Task
  PROVE  ServiceStep
  BY WorkersAssumption DEF TypeOK, ServiceStep, Serves, Updates

LEMMA PutsToSleep ==
  ASSUME TypeOK, NEW u \in User, NEW new \in {NoService, Stopped(service[u])},
         Change(u, new),
         \A v \in User \ {u} : update'[v] = update[v]
  PROVE  ServiceStep
<1>1. /\ new \in Service /\ new.port \in {0, service[u].port}
      /\ new.replicas = 0 /\ new.task = "none"
  BY StoppedIs, NoServiceIs
<1>2. /\ service' \in [User -> Service] /\ service'[u] = new
      /\ \A v \in User \ {u} : service'[v] = service[v]
      /\ fresh' \subseteq fresh /\ u \notin fresh'
  BY <1>1, Changes
<1> QED BY <1>1, <1>2 DEF TypeOK, ServiceStep, Serves, Updates

LEMMA Wakes ==
  ASSUME TypeOK, NEW u \in User, NEW p \in {0} \cup Port,
         Change(u, Started(p)), \A v \in User \ {u} : update'[v] = update[v],
         \/ service[u].replicas = 1 /\ p = service[u].port
         \/ /\ Woken(u)
            /\ \/ p = service[u].port
               \/ \E t \in Task : job[t].pc = "create" /\ job[t].user = u /\ p = job[t].port
  PROVE  ServiceStep
<1> DEFINE new == Started(p)
<1>1. new \in Service /\ new.port = p /\ new.replicas = 1
  BY StartedIs
<1>2. Change(u, new)
  OBVIOUS
<1> HIDE DEF new
<1>3. /\ service' \in [User -> Service] /\ service'[u] = new
      /\ \A v \in User \ {u} : service'[v] = service[v]
      /\ fresh' \subseteq fresh /\ u \notin fresh'
  BY <1>1, <1>2, Changes
<1>4. Serves(u) /\ Updates(u)
  BY <1>1, <1>3 DEF Serves, Updates
<1>5. \A v \in User \ {u} : Serves(v) /\ Updates(v)
  BY <1>3 DEF Serves, Updates
<1> QED BY <1>3, <1>4, <1>5 DEF TypeOK, ServiceStep

LEMMA RequestServes ==
  ASSUME TypeOK, NEW t \in Task, Request(t)
  PROVE  ServiceStep
  BY StaysAsItIs DEF Request, StartWorker, StopWorker, VerifyWorker, images, Unchanged

LEMMA RemovalServes ==
  ASSUME TypeInv, NEW t \in Task, job[t].pc # "idle", NEW next, RemoveService(t, next)
  PROVE  ServiceStep
<1>1. job[t].user \in User /\ UNCHANGED update /\ TypeOK
  BY DEF TypeInv, JobOK, RemoveService, images
<1>2. CASE Change(job[t].user, NoService)
  BY <1>1, <1>2, PutsToSleep
<1>3. CASE Unchanged
  BY <1>1, <1>3, StaysAsItIs DEF Unchanged
<1> QED BY <1>2, <1>3 DEF RemoveService

LEMMA ContinueServes ==
  ASSUME TypeInv, NEW t \in Task, Continue(t)
  PROVE  ServiceStep
<1>0. TypeOK /\ JobOK(t)
  BY DEF TypeInv
<1>1. CASE \/ Verify(t) \/ ReadStatus(t) \/ CheckNetwork(t) \/ EnsureVolume(t) \/ ReadPort(t)
           \/ ComputePort(t) \/ AssignPort(t) \/ WaitUntilHealthy(t)
  <2>1. UNCHANGED <<service, fresh, update>>
    BY <1>1 DEF Verify, ReadStatus, CheckNetwork, EnsureVolume, ReadPort, ComputePort,
                AssignPort, WaitUntilHealthy, Unchanged, images
  <2> QED BY <1>0, <2>1, StaysAsItIs
<1>2. CASE RemoveMisplaced(t) \/ DiscardUnhealthy(t)
  BY <1>2, RemovalServes DEF RemoveMisplaced, DiscardUnhealthy, At
<1>3. CASE InspectToStart(t) \/ InspectToStop(t)
  <2>1. UNCHANGED <<service, update>> /\ fresh' \subseteq fresh \cup Task
    BY <1>3 DEF InspectToStart, InspectToStop, images
  <2> QED BY <1>0, <2>1, StaysAsItIs
<1>4. CASE CreateService(t)
  <2>1. /\ job[t].pc = "create" /\ job[t].user \in User /\ job[t].port \in Port
        /\ UNCHANGED update
    BY <1>0, <1>4 DEF CreateService, At, JobOK, images
  <2>2. CASE Unchanged
    BY <1>0, <2>1, <2>2, StaysAsItIs DEF Unchanged
  <2>3. CASE Change(job[t].user, Started(job[t].port))
    <3>1. Woken(job[t].user)
      BY <2>1 DEF Woken
    <3> QED BY <1>0, <2>1, <2>3, <3>1, Wakes
  <2> QED BY <1>4, <2>2, <2>3 DEF CreateService
<1>5. CASE ScaleUp(t)
  <2>1. job[t].pc = "scale" /\ job[t].user \in User /\ UNCHANGED update
    BY <1>0, <1>5 DEF ScaleUp, At, JobOK, images
  <2>2. CASE Unchanged
    BY <1>0, <2>1, <2>2, StaysAsItIs DEF Unchanged
  <2>3. CASE Change(job[t].user, Started(service[job[t].user].port))
    <3>1. Woken(job[t].user) /\ service[job[t].user].port \in {0} \cup Port
      BY <1>0, <2>1 DEF Woken, TypeOK, Service
    <3> QED BY <1>0, <2>1, <2>3, <3>1, Wakes
  <2> QED BY <1>5, <2>2, <2>3 DEF ScaleUp
<1>6. CASE ScaleDown(t)
  <2>1. job[t].user \in User /\ UNCHANGED update
    BY <1>0, <1>6 DEF ScaleDown, At, JobOK, images
  <2>2. CASE Unchanged
    BY <1>0, <2>1, <2>2, StaysAsItIs DEF Unchanged
  <2>3. CASE Change(job[t].user, Stopped(service[job[t].user]))
    BY <1>0, <2>1, <2>3, PutsToSleep
  <2> QED BY <1>6, <2>2, <2>3 DEF ScaleDown
<1> QED BY <1>1, <1>2, <1>3, <1>4, <1>5, <1>6 DEF Continue

(***************************************************************************)
(* What the image check and the world do                                   *)
(***************************************************************************)
LEMMA ImageCheckServes ==
  ASSUME TypeOK, StoppedIsAsleep, ImageCheck
  PROVE  ServiceStep
<1>1. CASE CheckImage \/ PullImage \/ CompareImage
  BY <1>1, StaysAsItIs DEF CheckImage, PullImage, CompareImage, Unchanged
<1>2. CASE ListActiveServices
  <2>1. /\ UNCHANGED <<service, fresh>>
        /\ \A u \in User : update'[u] # "apply"
    BY <1>2 DEF ListActiveServices, Unchanged
  <2> QED BY <2>1 DEF TypeOK, ServiceStep, Serves, Updates
<1>3. ASSUME NEW u \in User, InspectToUpdate(u)
      PROVE  ServiceStep
  <2>1. /\ UNCHANGED service /\ fresh' \subseteq fresh \cup {u}
        /\ \A v \in User \ {u} : update'[v] = update[v]
    BY <1>3 DEF InspectToUpdate, TypeOK
  <2>2. update'[u] = "apply" => service[u].replicas # 0
    BY <1>3 DEF InspectToUpdate, TypeOK
  <2>3. service[u].replicas \in {0, 1}
    BY DEF TypeOK, Service
  <2> QED BY <2>1, <2>2, <2>3 DEF TypeOK, ServiceStep, Serves, Updates
<1>4. ASSUME NEW u \in User, UpdateService(u)
      PROVE  ServiceStep
  <2>1. /\ update'[u] = "idle" /\ \A v \in User \ {u} : update'[v] = update[v]
    BY <1>4 DEF UpdateService, TypeOK
  <2>2. CASE Unchanged
    BY <2>1, <2>2 DEF TypeOK, ServiceStep, Serves, Updates, Unchanged
  <2>3. CASE update[u] = "apply" /\ UpdateAccepted(u) /\ Change(u, Started(service[u].port))
    <3>1. service[u].replicas = 1 /\ service[u].port \in {0} \cup Port
      BY <2>3 DEF StoppedIsAsleep, UpdateAccepted, TypeOK, Service
    <3> QED BY <2>1, <2>3, <3>1, Wakes
  <2>4. CASE Change(u, Stopped(service[u]))
    BY <2>1, <2>4, PutsToSleep
  <2> QED BY <1>4, <2>2, <2>3, <2>4 DEF UpdateService
<1> QED BY <1>1, <1>2, <1>3, <1>4 DEF ImageCheck

LEMMA WorldServes ==
  ASSUME TypeOK, StoppedIsAsleep, World
  PROVE  ServiceStep
<1>1. ASSUME NEW u \in User, TaskBecomesHealthy(u)
      PROVE  ServiceStep
  <2> DEFINE new == [service[u] EXCEPT !.task = "running"]
  <2>1. new \in Service /\ new.port = service[u].port /\ new.replicas = service[u].replicas
    BY DEF TypeOK, Service
  <2>2. service[u].replicas = 1
    BY <1>1 DEF TaskBecomesHealthy, StoppedIsAsleep, TypeOK, Service
  <2>3. service' = [service EXCEPT ![u] = new] /\ UNCHANGED <<fresh, update>>
    BY <1>1 DEF TaskBecomesHealthy, TypeOK, images
  <2> HIDE DEF new
  <2> QED BY <2>1, <2>2, <2>3 DEF TypeOK, ServiceStep, Serves, Updates
<1>2. ASSUME NEW u \in User, TaskRestarts(u)
      PROVE  ServiceStep
  <2> DEFINE new == Started(service[u].port)
  <2>1. service[u].port \in {0} \cup Port
    BY DEF TypeOK, Service
  <2>2. new \in Service /\ new.port = service[u].port /\ new.replicas = 1
    BY <2>1, StartedIs
  <2>3. service[u].replicas = 1
    BY <1>2 DEF TaskRestarts, StoppedIsAsleep, TypeOK, Service
  <2>4. service' = [service EXCEPT ![u] = new] /\ UNCHANGED <<fresh, update>>
    BY <1>2 DEF TaskRestarts, images
  <2> HIDE DEF new
  <2> QED BY <2>2, <2>3, <2>4 DEF TypeOK, ServiceStep, Serves, Updates
<1>3. CASE PublishImage
  BY <1>3 DEF PublishImage, TypeOK, ServiceStep, Serves, Updates
<1>4. CASE Restart
  BY <1>4 DEF Restart, TypeOK, ServiceStep, Serves, Updates
<1> QED BY <1>1, <1>2, <1>3, <1>4 DEF World

\* Outside requests, a restart alone touches requests and ports.
LEMMA ImagesAreTyped ==
  ASSUME TypeOK, ImageCheck \/ World
  PROVE  /\ registry' \in Nat /\ local' \in Nat /\ cached' \in Nat /\ old' \in Nat
         /\ cron' \in {"idle", "pull", "compare", "list"}
         /\ update' \in [User -> {"idle", "inspect", "apply", "applyStopped"}]
         /\ faults' \in Nat /\ crashes' \in Nat
<1>1. CASE CheckImage \/ PullImage \/ CompareImage
  BY <1>1 DEF CheckImage, PullImage, CompareImage, TypeOK, Fault, NoFault
<1>2. CASE ListActiveServices
  BY <1>2 DEF ListActiveServices, TypeOK, Fault, NoFault
<1>3. ASSUME NEW u \in User, InspectToUpdate(u) \/ UpdateService(u)
      PROVE  /\ UNCHANGED <<registry, local, cached, old, cron, crashes>>
             /\ update' \in [User -> {"idle", "inspect", "apply", "applyStopped"}]
             /\ faults' \in Nat
  BY <1>3 DEF InspectToUpdate, UpdateService, TypeOK, Fault, NoFault
<1>4. CASE World
  BY <1>4 DEF World, TaskBecomesHealthy, TaskRestarts, PublishImage, Restart, images, TypeOK
<1> QED BY <1>1, <1>2, <1>3, <1>4 DEF ImageCheck, TypeOK

Restarted ==
  job' = [t \in Task |-> NoJob] /\ UNCHANGED <<port, together>> /\ verify' = {u \in User : port[u] # 0}

LEMMA RequestsAreLeftAlone ==
  ASSUME ImageCheck \/ World
  PROVE  UNCHANGED requests \/ Restarted
<1>1. CASE ImageCheck
  BY <1>1 DEF ImageCheck, CheckImage, PullImage, CompareImage, ListActiveServices,
              InspectToUpdate, UpdateService
<1>2. CASE World
  BY <1>2 DEF World, TaskBecomesHealthy, TaskRestarts, PublishImage, Restart, Restarted, requests
<1> QED BY <1>1, <1>2

\* A step of a request leaves the images alone.
LEMMA RequestsLeaveImages ==
  ASSUME TypeOK, NEW t \in Task, Request(t) \/ Continue(t)
  PROVE  UNCHANGED images /\ faults' \in Nat /\ UNCHANGED crashes
<1>1. CASE Request(t)
  BY <1>1 DEF Request, StartWorker, StopWorker, VerifyWorker, NoFault, TypeOK
<1>2. CASE Continue(t)
  BY <1>2 DEF Continue, Verify, ReadStatus, CheckNetwork, RemoveMisplaced, EnsureVolume, ReadPort,
              ComputePort, AssignPort, CreateService, WaitUntilHealthy, DiscardUnhealthy,
              InspectToStart, ScaleUp, InspectToStop, ScaleDown, RemoveService, Fault, NoFault, TypeOK
<1> QED BY <1>1, <1>2

\* Only VerifyWorker takes a worker off the list, and it starts no other.
LEMMA Verifies ==
  ASSUME NEW t \in Task, Request(t) \/ Continue(t)
  PROVE  \/ UNCHANGED verify
         \/ \E u \in verify : VerifyWorker(t, u) /\ verify' = verify \ {u}
<1>1. CASE Request(t)
  BY <1>1 DEF Request, StartWorker, StopWorker, VerifyWorker
<1>2. CASE Continue(t)
  BY <1>2 DEF Continue, Verify, ReadStatus, CheckNetwork, RemoveMisplaced, EnsureVolume, ReadPort,
              ComputePort, AssignPort, CreateService, WaitUntilHealthy, DiscardUnhealthy,
              InspectToStart, ScaleUp, InspectToStop, ScaleDown, RemoveService
<1> QED BY <1>1, <1>2

(***************************************************************************)
(* Types, and what a stop is worth                                         *)
(***************************************************************************)
Base == TypeInv /\ StoppedIsAsleep

LEMMA StepServes ==
  ASSUME Base, Next
  PROVE  ServiceStep
<1>1. TypeOK /\ TypeInv /\ StoppedIsAsleep
  BY DEF Base, TypeInv
<1> QED BY <1>1, ImageCheckServes, WorldServes, RequestServes, ContinueServes DEF Next

LEMMA StepMoves ==
  ASSUME TypeInv, NEW t \in Task, Request(t) \/ Continue(t)
  PROVE  Moves(t)
  BY RequestMoves, ContinueMoves DEF TypeInv

\* Overlaps are noted when a request starts to look for a port, and never forgotten.
LEMMA TogetherGrows ==
  ASSUME TypeInv, NEW t \in Task, Request(t) \/ Continue(t)
  PROVE  /\ together \subseteq together' /\ together' \subseteq SUBSET User
         /\ job'[t].pc = "next" =>
              \A s \in Task \ {t} : LooksForPort(s) =>
                {job[s].user, job[t].user} \in together'
<1>1. TypeOK /\ Moves(t) /\ Transition(t) /\ \A s \in Task : JobOK(s)
  BY StepMoves DEF TypeInv, Moves
<1>2. CASE ReadPort(t)
  <2>1. \A s \in Task : LooksForPort(s) => {job[s].user, job[t].user} \in SUBSET User
    BY <1>1, <1>2 DEF ReadPort, At, LooksForPort, JobOK
  <2>2. CASE UNCHANGED together /\ job'[t].pc # "next"
    BY <1>1, <2>2 DEF TypeOK
  <2>3. CASE LookTogether(t)
    BY <1>1, <2>1, <2>3 DEF LookTogether, TypeOK
  <2>4. \/ LookTogether(t)
        \/ UNCHANGED together /\ job'[t].pc # "next"
    <3>1. CASE job' = [job EXCEPT ![t].pc = "create", ![t].port = port[job[t].user]]
               /\ UNCHANGED together
      <4>1. job'[t].pc = "create"
        BY <1>1, <3>1 DEF TypeOK, Job
      <4> QED BY <3>1, <4>1
    <3> QED BY <1>2, <3>1 DEF ReadPort
  <2> QED BY <2>2, <2>3, <2>4
<1>3. CASE ~ReadPort(t)
  <2>1. UNCHANGED together
    BY <1>3 DEF Request, StartWorker, StopWorker, VerifyWorker, Continue, Verify, ReadStatus,
                CheckNetwork, RemoveMisplaced, EnsureVolume, ComputePort, AssignPort,
                CreateService, WaitUntilHealthy, DiscardUnhealthy, InspectToStart, ScaleUp,
                InspectToStop, ScaleDown, RemoveService
  <2>2. job[t].pc # "port" \/ job'[t].pc # "next"
    BY <1>3 DEF Request, StartWorker, StopWorker, VerifyWorker, Begin, Idle, Continue, Verify,
                ReadStatus, CheckNetwork, RemoveMisplaced, EnsureVolume, ComputePort, AssignPort,
                CreateService, WaitUntilHealthy, DiscardUnhealthy, InspectToStart, ScaleUp,
                InspectToStop, ScaleDown, At
  <2>3. job'[t].pc # "next"
    BY <1>1, <2>2 DEF Transition, NoJob, Portless
  <2> QED BY <1>1, <2>1, <2>3 DEF TypeOK
<1> QED BY <1>2, <1>3

LEMMA MovesKeepTypes ==
  ASSUME TypeInv, NEW t \in Task, Moves(t)
  PROVE  /\ job' \in [Task -> Job] /\ port' \in [User -> {0} \cup Port]
         /\ \A s \in Task : JobOK(s)'
<1>1. JobOK(t)' /\ port' \in [User -> {0} \cup Port]
  <2>1. TypeOK /\ JobOK(t) /\ Transition(t)
    BY DEF TypeInv, Moves
  <2>2. CASE job'[t] = NoJob /\ UNCHANGED port
    BY <2>1, <2>2 DEF JobOK, NoJob, TypeOK
  <2>3. CASE /\ job[t].pc = "idle" /\ job'[t].pc \in {"status", "inspect", "verify"}
             /\ job'[t].user \in User /\ UNCHANGED port
    BY <2>1, <2>3 DEF JobOK, TypeOK
  <2>4. CASE job[t].pc # "idle" /\ job'[t].user = job[t].user /\ job'[t].pc \in Portless \cup {"stop", "next"}
             /\ UNCHANGED port
    BY <2>1, <2>4 DEF JobOK, TypeOK, Portless
  <2>5. CASE /\ job[t].pc # "idle" /\ job'[t].user = job[t].user
             /\ job'[t].pc = "create" /\ port[job[t].user] # 0
             /\ job'[t].port = port[job[t].user] /\ UNCHANGED port
    <3>1. port[job[t].user] \in Port
      BY <2>1, <2>5 DEF JobOK, TypeOK
    <3> QED BY <2>1, <2>5, <3>1 DEF JobOK, TypeOK
  <2>6. CASE /\ job[t].pc # "idle" /\ job'[t].user = job[t].user
             /\ job'[t].pc = "assign" /\ job'[t].port = getNextPort /\ UNCHANGED port
    <3>1. job[t].user \in User /\ getNextPort \in Port
      BY <2>1, <2>6, NextPortIsOne DEF JobOK
    <3> QED BY <2>1, <2>6, <3>1 DEF JobOK, TypeOK
  <2>7. CASE /\ job'[t].user = job[t].user
             /\ job'[t].pc = "create" /\ job[t].pc = "assign" /\ job'[t].port = job[t].port
             /\ port' = [port EXCEPT ![job[t].user] = job[t].port]
    BY <2>1, <2>7 DEF JobOK, TypeOK
  <2> QED BY <2>1, <2>2, <2>3, <2>4, <2>5, <2>6, <2>7 DEF Transition
<1>2. \A s \in Task \ {t} : JobOK(s)'
  BY DEF TypeInv, JobOK, Moves
<1> QED BY <1>1, <1>2 DEF Moves

LEMMA TypeStep ==
  ASSUME Base, Next
  PROVE  TypeInv'
<1>1. TypeOK /\ TypeInv /\ service' \in [User -> Service] /\ fresh' \subseteq Task \cup User
  BY StepServes DEF Base, TypeInv, ServiceStep
<1>2. CASE ImageCheck \/ World
  <2>1. /\ registry' \in Nat /\ local' \in Nat /\ cached' \in Nat /\ old' \in Nat
        /\ cron' \in {"idle", "pull", "compare", "list"}
        /\ update' \in [User -> {"idle", "inspect", "apply", "applyStopped"}]
        /\ faults' \in Nat /\ crashes' \in Nat
    BY <1>1, <1>2, ImagesAreTyped
  <2>2. CASE UNCHANGED requests
    BY <1>1, <2>1, <2>2 DEF TypeInv, TypeOK, requests, JobOK
  <2>3. CASE Restarted
    <3>1. NoJob \in Job /\ NoJob.pc = "idle"
      BY DEF NoJob, Job
    <3> QED BY <1>1, <2>1, <2>3, <3>1 DEF TypeInv, TypeOK, Restarted, JobOK
  <2> QED BY <1>2, <2>2, <2>3, RequestsAreLeftAlone
<1>3. ASSUME NEW t \in Task, Request(t) \/ Continue(t)
      PROVE  TypeInv'
  <2>1. /\ job' \in [Task -> Job] /\ port' \in [User -> {0} \cup Port]
        /\ \A s \in Task : JobOK(s)'
    BY <1>1, <1>3, StepMoves, MovesKeepTypes
  <2>2. UNCHANGED images /\ faults' \in Nat /\ UNCHANGED crashes
    BY <1>1, <1>3, RequestsLeaveImages
  <2>3. verify' \subseteq verify /\ together' \subseteq SUBSET User
    BY <1>1, <1>3, Verifies, TogetherGrows
  <2> QED BY <1>1, <2>1, <2>2, <2>3 DEF TypeInv, TypeOK, images
<1> QED BY <1>2, <1>3 DEF Next

LEMMA SleepStep ==
  ASSUME Base, Next
  PROVE  StoppedIsAsleep'
<1>1. TypeOK /\ StoppedIsAsleep /\ ServiceStep /\ service' \in [User -> Service]
  BY StepServes DEF Base, TypeInv, ServiceStep
<1> SUFFICES ASSUME NEW u \in User, service'[u].replicas = 0
             PROVE  service'[u].task = "none" /\ ~(update'[u] = "apply" /\ u \in fresh')
  BY DEF StoppedIsAsleep
<1>2. Serves(u) /\ Updates(u)
  BY <1>1 DEF ServiceStep
<1>3. CASE service'[u] = service[u]
  BY <1>1, <1>2, <1>3 DEF StoppedIsAsleep, Updates
<1> QED BY <1>2, <1>3 DEF Serves

LEMMA BaseHolds == Spec => []Base
<1>1. Init => Base
  <2> SUFFICES ASSUME Init PROVE Base
    OBVIOUS
  <2>1. NoJob \in Job /\ NoJob.pc = "idle"
    BY DEF NoJob, Job
  <2> QED BY <2>1, NoServiceIs DEF Init, Base, TypeInv, TypeOK, StoppedIsAsleep, JobOK
<1>2. Base /\ [Next]_vars => Base'
  <2>1. CASE Next
    BY <2>1, TypeStep, SleepStep DEF Base
  <2>2. CASE UNCHANGED vars
    BY <2>2 DEF Base, TypeInv, TypeOK, StoppedIsAsleep, JobOK, vars
  <2> QED BY <2>1, <2>2
<1> QED BY <1>1, <1>2, PTL DEF Spec

\* Every variable has its type: above all, a port that is computed is one of the range.
THEOREM TypeCorrect == Spec => []TypeOK
<1>1. Base => TypeOK
  BY DEF Base, TypeInv
<1> QED BY <1>1, BaseHolds, PTL

\* A worker that was stopped runs again only because somebody started it, never because
\* an image update wrote back what it had read before the stop.
THEOREM OnlyAStartWakes == Spec => StoppedUntilStarted
<1> DEFINE A == \A u \in User :
             service[u].replicas = 0 /\ service'[u].replicas = 1 =>
               \E t \in Task : job[t].user = u /\ job[t].pc \in {"scale", "create"}
<1>1. Base /\ [Next]_vars => [A]_vars
  <2>1. ASSUME Base, Next
        PROVE  A
    BY <2>1, StepServes DEF ServiceStep, Serves, Woken
  <2> QED BY <2>1
<1> QED BY <1>1, BaseHolds, PTL DEF Spec, StoppedUntilStarted

(***************************************************************************)
(* Ports, though starts run side by side                                   *)
(***************************************************************************)
\* A port that is given out goes to the worker it was looked for.
Assigns(t) ==
  /\ job[t].pc = "assign" /\ job'[t].pc = "create" /\ job'[t].user = job[t].user
  /\ port' = [port EXCEPT ![job[t].user] = job[t].port]

LEMMA MovesAssign ==
  ASSUME NEW t \in Task, Moves(t)
  PROVE  UNCHANGED port \/ Assigns(t)
  BY DEF Moves, Transition, Assigns

\* What a step of a request tells: its own job moves, overlaps are kept.
LEMMA StepFacts ==
  ASSUME TypeInv, NEW t \in Task, Request(t) \/ Continue(t)
  PROVE  /\ TypeOK /\ Transition(t) /\ (UNCHANGED port \/ Assigns(t))
         /\ \A s \in Task : JobOK(s)
         /\ \A s \in Task \ {t} : job'[s] = job[s]
         /\ \A u : Undoubled(u)' => Undoubled(u)
<1>1. Moves(t) /\ together \subseteq together'
  BY StepMoves, TogetherGrows
<1> QED BY <1>1, MovesAssign DEF TypeInv, Moves, Undoubled

LEMMA OverlapsStep ==
  ASSUME TypeInv, OverlapsNoted, NEW t \in Task, Request(t) \/ Continue(t)
  PROVE  OverlapsNoted'
<1>1. /\ Transition(t) /\ \A s \in Task \ {t} : job'[s] = job[s]
  BY StepMoves DEF Moves
<1>2. together \subseteq together'
  BY TogetherGrows
<1>3. ASSUME NEW s \in Task \ {t}, LooksForPort(s), LooksForPort(t)'
      PROVE  {job'[s].user, job'[t].user} \in together'
  <2>1. CASE job'[t].pc = "next"
    <3>1. job'[t].user = job[t].user
      BY <1>1, <2>1 DEF Transition, NoJob
    <3> QED BY <1>1, <1>3, <2>1, <3>1, TogetherGrows
  <2>2. CASE job'[t].pc = "assign"
    <3>1. job'[t].user = job[t].user /\ LooksForPort(t)
      BY <1>1, <2>2 DEF Transition, NoJob, Portless, LooksForPort
    <3> QED BY <1>1, <1>2, <1>3, <3>1 DEF OverlapsNoted
  <2> QED BY <1>3, <2>1, <2>2 DEF LooksForPort
<1> SUFFICES ASSUME NEW s \in Task, NEW r \in Task, s # r, LooksForPort(s)', LooksForPort(r)'
             PROVE  {job'[s].user, job'[r].user} \in together'
  BY DEF OverlapsNoted
<1>4. CASE s # t /\ r # t
  <2>1. LooksForPort(s) /\ LooksForPort(r)
    BY <1>1, <1>4 DEF LooksForPort
  <2> QED BY <1>1, <1>2, <1>4, <2>1 DEF OverlapsNoted
<1>5. CASE r = t
  <2>1. LooksForPort(s)
    BY <1>1, <1>5 DEF LooksForPort
  <2> QED BY <1>3, <1>5, <2>1
<1>6. CASE s = t
  <2>1. LooksForPort(r)
    BY <1>1, <1>6 DEF LooksForPort
  <2>2. {job'[r].user, job'[t].user} \in together'
    BY <1>3, <1>6, <2>1
  <2>3. {job'[r].user, job'[t].user} = {job'[t].user, job'[r].user}
    OBVIOUS
  <2> QED BY <1>6, <2>2, <2>3
<1> QED BY <1>4, <1>5, <1>6

\* Whoever assigns a port to an undoubled user is the only one to look for one, and the
\* user had none.
LEMMA AssignsAlone ==
  ASSUME TypeInv, OverlapsNoted, PortsOfJobs, NEW t \in Task, Assigns(t),
         Undoubled(job[t].user)
  PROVE  /\ job[t].user \in User /\ job[t].port \in Port /\ port[job[t].user] = 0
         /\ \A s \in Task \ {t} : job[s].user = job[t].user =>
              ~LooksForPort(s) /\ job[s].pc # "create"
<1>1. LooksForPort(t) /\ job[t].user \in User /\ job[t].port \in Port
  BY DEF Assigns, LooksForPort, TypeInv, JobOK
<1>2. port[job[t].user] = 0
  BY <1>1 DEF PortsOfJobs
<1>3. ASSUME NEW s \in Task \ {t}, job[s].user = job[t].user
      PROVE  ~LooksForPort(s) /\ job[s].pc # "create"
  <2>1. ~LooksForPort(s)
    <3>1. {job[s].user, job[t].user} = {job[t].user}
      BY <1>3
    <3> QED BY <1>1, <3>1 DEF OverlapsNoted, Undoubled
  <2>2. job[s].pc = "create" => job[s].port = 0 /\ job[s].port \in Port
    BY <1>2, <1>3 DEF PortsOfJobs, TypeInv, JobOK
  <2> QED BY <2>1, <2>2, WorkersAssumption DEF Port
<1> QED BY <1>1, <1>2, <1>3

LEMMA JobPortsStep ==
  ASSUME TypeInv, OverlapsNoted, PortsOfJobs, NEW t \in Task, Request(t) \/ Continue(t)
  PROVE  PortsOfJobs'
<1>1. /\ TypeOK /\ Transition(t) /\ (UNCHANGED port \/ Assigns(t))
      /\ \A s \in Task : JobOK(s)
      /\ \A s \in Task \ {t} : job'[s] = job[s]
      /\ \A u : Undoubled(u)' => Undoubled(u)
  BY StepFacts
<1> DEFINE Fits(s) ==
             Undoubled(job[s].user) =>
               /\ LooksForPort(s) => port[job[s].user] = 0
               /\ job[s].pc = "create" => job[s].port = port[job[s].user]
<1>2. ASSUME NEW s \in Task \ {t}
      PROVE  Fits(s)'
  <2>1. job'[s] = job[s] /\ Fits(s) /\ (Undoubled(job[s].user)' => Undoubled(job[s].user))
    BY <1>1 DEF PortsOfJobs
  <2>2. CASE UNCHANGED port
    BY <2>1, <2>2 DEF LooksForPort, Undoubled
  <2>3. CASE Assigns(t)
    <3>1. CASE job[s].user = job[t].user
      <4>1. ASSUME Undoubled(job[s].user)
            PROVE  ~LooksForPort(s) /\ job[s].pc # "create"
        BY <2>3, <3>1, <4>1, AssignsAlone
      <4> QED BY <2>1, <4>1 DEF LooksForPort, Undoubled
    <3>2. CASE job[s].user # job[t].user /\ job[s].pc # "idle"
      <4>1. job[s].user \in User /\ port'[job[s].user] = port[job[s].user]
        BY <1>1, <2>3, <3>2 DEF Assigns, JobOK, TypeOK
      <4> QED BY <2>1, <4>1 DEF LooksForPort, Undoubled
    <3>3. CASE job[s].pc = "idle"
      BY <2>1, <3>3 DEF LooksForPort
    <3> QED BY <3>1, <3>2, <3>3
  <2> QED BY <1>1, <2>2, <2>3
<1>3. Fits(t)'
  <2> SUFFICES ASSUME {job'[t].user} \notin together'
               PROVE  /\ LooksForPort(t)' => port'[job'[t].user] = 0
                      /\ job'[t].pc = "create" => job'[t].port = port'[job'[t].user]
    BY DEF Undoubled
  <2>1. {job'[t].user} \notin together
    BY TogetherGrows
  <2>2. \/ job'[t].user # job[t].user
        \/ Fits(t) /\ Undoubled(job[t].user)
    BY <2>1 DEF PortsOfJobs, Undoubled
  <2>3. CASE job'[t].pc = "next"
    BY <1>1, <2>3 DEF Transition, NoJob, Portless, LooksForPort
  <2>4. CASE job'[t].pc = "assign"
    <3>1. job[t].pc = "next" /\ job'[t].user = job[t].user /\ UNCHANGED port
      BY <1>1, <2>4 DEF Transition, NoJob, Portless
    <3> QED BY <2>2, <2>4, <3>1 DEF LooksForPort
  <2>5. CASE job'[t].pc = "create"
    <3>1. CASE job'[t].port = port[job[t].user] /\ job'[t].user = job[t].user /\ UNCHANGED port
      BY <2>5, <3>1 DEF LooksForPort
    <3>2. CASE /\ job[t].pc = "assign" /\ job'[t].port = job[t].port /\ job'[t].user = job[t].user
               /\ port' = [port EXCEPT ![job[t].user] = job[t].port]
      BY <1>1, <2>5, <3>2 DEF JobOK, TypeOK, LooksForPort
    <3> QED BY <1>1, <2>5, <3>1, <3>2 DEF Transition, NoJob, Portless
  <2> QED BY <2>3, <2>4, <2>5 DEF LooksForPort
<1> QED BY <1>2, <1>3 DEF PortsOfJobs

\* Outside requests no port is assigned and nobody starts to look for one.
LEMMA OtherSteps ==
  ASSUME ImageCheck \/ World
  PROVE  /\ UNCHANGED <<port, together>>
         /\ \A t \in Task : job'[t] = job[t] \/ job'[t] = NoJob
  BY RequestsAreLeftAlone DEF requests, Restarted

LEMMA ServicePortsStep ==
  ASSUME Base, PortInv, Next
  PROVE  ServicePorts'
<1> SUFFICES ASSUME NEW u \in User, Undoubled(u)' PROVE service'[u].port \in {0, port'[u]}
  BY DEF ServicePorts
<1>1. /\ TypeInv /\ TypeOK /\ Serves(u) /\ ServicePorts /\ PortsOfJobs /\ OverlapsNoted
  BY StepServes DEF Base, TypeInv, ServiceStep, PortInv
<1>2. /\ Undoubled(u)
      /\ (UNCHANGED port \/ \E t \in Task : Assigns(t))
  <2>1. CASE ImageCheck \/ World
    BY <2>1, OtherSteps DEF Undoubled
  <2>2. ASSUME NEW t \in Task, Request(t) \/ Continue(t)
        PROVE  Undoubled(u) /\ (UNCHANGED port \/ Assigns(t))
    BY <1>1, <2>2, StepFacts
  <2> QED BY <2>1, <2>2 DEF Next
<1>3. CASE UNCHANGED port
  BY <1>1, <1>2, <1>3 DEF Serves, ServicePorts, PortsOfJobs
<1>4. ASSUME NEW t \in Task, Assigns(t)
      PROVE  service'[u].port \in {0, port'[u]}
  <2>1. CASE u = job[t].user
    <3>1. port[u] = 0 /\ job[t].pc # "create"
          /\ \A s \in Task \ {t} : job[s].user = u => job[s].pc # "create"
      BY <1>1, <1>2, <1>4, <2>1, AssignsAlone DEF Assigns
    <3>2. service'[u].port \in {0, service[u].port}
      BY <1>1, <3>1 DEF Serves
    <3> QED BY <1>1, <1>2, <3>1, <3>2 DEF ServicePorts
  <2>2. CASE u # job[t].user
    <3>1. port'[u] = port[u]
      BY <1>1, <1>4, <2>2 DEF Assigns, TypeOK
    <3> QED BY <1>1, <1>2, <3>1 DEF Serves, ServicePorts, PortsOfJobs
  <2> QED BY <2>1, <2>2
<1> QED BY <1>2, <1>3, <1>4

LEMMA PortStep ==
  ASSUME Base, PortInv, Next
  PROVE  PortInv'
<1>1. TypeInv /\ ServicePorts' /\ OverlapsNoted /\ PortsOfJobs
  BY ServicePortsStep DEF Base, PortInv
<1>2. CASE ImageCheck \/ World
  <2>1. /\ UNCHANGED <<port, together>>
        /\ \A t \in Task : job'[t] = job[t] \/ job'[t].pc = "idle"
    BY <1>2, OtherSteps DEF NoJob
  <2>2. OverlapsNoted'
    BY <1>1, <2>1 DEF OverlapsNoted, LooksForPort
  <2>3. PortsOfJobs'
    BY <1>1, <2>1 DEF PortsOfJobs, LooksForPort, Undoubled
  <2> QED BY <1>1, <2>2, <2>3 DEF PortInv
<1>3. ASSUME NEW t \in Task, Request(t) \/ Continue(t)
      PROVE  PortInv'
  BY <1>1, <1>3, OverlapsStep, JobPortsStep DEF PortInv
<1> QED BY <1>2, <1>3 DEF Next

\* When every port is used there are as many workers as ports.
LEMMA FullIsMany ==
  ASSUME TypeOK, Full
  PROVE  Cardinality(Port) <= Cardinality(Assigned)
<1> DEFINE f == [p \in Port |-> CHOOSE u \in User : port[u] = p]
<1>1. \A p \in Port : f[p] \in User /\ port[f[p]] = p /\ p # 0
  BY WorkersAssumption DEF Full, Used, Port
<1> HIDE DEF f
<1>2. f \in [Port -> Assigned]
  <2>1. f = [p \in Port |-> f[p]]
    BY DEF f
  <2> QED BY <1>1, <2>1 DEF Assigned
<1>3. f \in Injection(Port, Assigned)
  BY <1>1, <1>2 DEF Injection, IsInjective
<1>4. IsFiniteSet(Assigned)
  BY FS_Subset, WorkersAssumption DEF Assigned
<1> QED BY <1>3, <1>4, FS_Injection

LEMMA CardinalitiesAreNumbers ==
  /\ IsFiniteSet(Assigned) /\ Cardinality(Assigned) \in Nat
  /\ IsFiniteSet(Port) /\ Cardinality(Port) \in Nat
<1>1. IsFiniteSet(Assigned) /\ IsFiniteSet(Port)
  BY FS_Subset, FS_Interval, WorkersAssumption DEF Assigned, Port
<1> QED BY <1>1, FS_CardinalityType

\* As long as a port is free, the next one is: it comes after used ones only.
LEMMA NextPortIsFree ==
  ASSUME TypeOK, Downward, ~Full, NEW u \in User
  PROVE  /\ getNextPort \in Port /\ ~Used(getNextPort)
         /\ \A q \in DEFAULT_START_PORT .. getNextPort - 1 : Used(q)
<1> DEFINE P == {port[v] : v \in User}
           low == DEFAULT_START_PORT
<1>1. low \in Nat \ {0} /\ MAX_PORT \in Nat /\ low <= MAX_PORT /\ Port = low .. MAX_PORT
  BY WorkersAssumption DEF Port
<1>2. P \in SUBSET (0 .. MAX_PORT) /\ P # {} /\ P \subseteq {0} \cup Port
  BY <1>1 DEF TypeOK
<1>3. \A q : Used(q) <=> q \in P
  BY DEF Used
<1>4. getNextPort = IF Max(P) = 0 \/ Max(P) + 1 > MAX_PORT THEN low ELSE Max(P) + 1
  BY DEF getNextPort
<1> HIDE DEF P
<1>5. Max(P) \in P /\ \A x \in P : Max(P) >= x
  BY <1>1, <1>2, GreatestOf
<1>6. CASE Max(P) = 0
  <2>1. getNextPort = low
    BY <1>4, <1>6
  <2>2. \A x \in P : x = 0
    BY <1>1, <1>2, <1>5, <1>6
  <2> QED BY <1>1, <1>3, <2>1, <2>2
<1>7. CASE Max(P) # 0
  <2>1. Max(P) \in Port /\ Used(Max(P)) /\ Max(P) \in Nat
    <3>1. Max(P) \in {0} \cup Port
      BY <1>2, <1>5
    <3>2. Max(P) \in Port
      BY <1>7, <3>1
    <3> QED BY <1>1, <1>3, <1>5, <3>2
  <2>2. \A q \in low .. Max(P) : Used(q)
    BY <2>1 DEF Downward
  <2>3. Max(P) # MAX_PORT
    BY <1>1, <2>2 DEF Full
  <2>4. getNextPort = Max(P) + 1 /\ getNextPort \in Port
    BY <1>1, <1>4, <1>7, <2>1, <2>3
  <2>5. ~Used(getNextPort)
    <3>1. Max(P) + 1 \notin P
      BY <1>2, <1>5, <2>1
    <3> QED BY <1>3, <2>4, <3>1
  <2> QED BY <1>1, <2>1, <2>2, <2>4, <2>5
<1> QED BY <1>6, <1>7

\* A port that was looked for and is assigned keeps the ports spread.
LEMMA AssignKeepsSpread ==
  ASSUME TypeInv, PortInv, Spread, NEW t \in Task, Request(t) \/ Continue(t), Assigns(t)
  PROVE  Spread'
<1>1. /\ TypeOK /\ OverlapsNoted /\ PortsOfJobs
      /\ \A s \in Task : JobOK(s)
      /\ \A s \in Task \ {t} : job'[s] = job[s]
      /\ \A u : Undoubled(u)' => Undoubled(u)
  BY StepFacts DEF PortInv
<1>2. together \subseteq together'
  BY TogetherGrows
<1> SUFFICES ASSUME \A u \in User : Undoubled(u)',
                    ~(Cardinality(Assigned)' > Cardinality(Port)')
             PROVE  (Distinct /\ Downward /\ (Full \/ \A s \in Task : Claim(s)))'
  BY DEF Spread
<1> DEFINE u == job[t].user
           p == job[t].port
<1>3. u \in User /\ p \in Port /\ port[u] = 0 /\ \A v \in User : Undoubled(v)
  <2>1. u \in User
    BY <1>1 DEF Assigns, JobOK
  <2> QED BY <1>1, <2>1, AssignsAlone
<1>4. /\ p # 0 /\ port' = [port EXCEPT ![u] = p] /\ job[t].pc = "assign"
      /\ port'[u] = p /\ \A v \in User \ {u} : port'[v] = port[v]
  BY <1>1, <1>3, WorkersAssumption DEF Assigns, Port, TypeOK
<1> HIDE DEF u, p
<1>5. Assigned' = Assigned \cup {u} /\ u \notin Assigned
  BY <1>3, <1>4 DEF Assigned
<1>6. Cardinality(Assigned') = Cardinality(Assigned) + 1 /\ Cardinality(Port)' = Cardinality(Port)
  BY <1>5, CardinalitiesAreNumbers, FS_AddElement DEF Port
<1>7. ~(Cardinality(Assigned) > Cardinality(Port)) /\ ~Full
  <2>1. /\ Cardinality(Assigned) \in Nat /\ Cardinality(Port) \in Nat
        /\ ~(Cardinality(Assigned) + 1 > Cardinality(Port))
    BY <1>6, CardinalitiesAreNumbers
  <2> QED BY <1>1, <2>1, FullIsMany
<1>8. Distinct /\ Downward /\ \A s \in Task : Claim(s)
  BY <1>3, <1>7 DEF Spread
<1>9. /\ \A q \in DEFAULT_START_PORT .. p - 1 : Used(q)
      /\ \A v \in User : port[v] = p => {u, v} \in together
  BY <1>4, <1>8 DEF Claim, u, p
<1>10. \A q : Used(q)' <=> (q = p \/ (Used(q) /\ q # 0) \/ (q = 0 /\ Used(0)'))
  BY <1>3, <1>4 DEF Used
<1>11. Distinct'
  <2> SUFFICES ASSUME NEW v \in Assigned', NEW w \in Assigned', port'[v] = port'[w], v # w
               PROVE  {v, w} \in together'
    BY DEF Distinct
  <2>1. CASE v # u /\ w # u
    BY <1>2, <1>4, <1>5, <1>8, <2>1 DEF Distinct, Assigned
  <2>2. CASE v = u
    BY <1>2, <1>4, <1>5, <1>9, <2>2 DEF Assigned
  <2>3. CASE w = u
    <3>1. {u, v} \in together'
      BY <1>2, <1>4, <1>5, <1>9, <2>3 DEF Assigned
    <3>2. {u, v} = {v, u}
      OBVIOUS
    <3> QED BY <2>3, <3>1, <3>2
  <2> QED BY <2>1, <2>2, <2>3
<1>12. Downward'
  <2> SUFFICES ASSUME NEW q \in Port, Used(q)', NEW x \in DEFAULT_START_PORT .. q
               PROVE  Used(x)'
    BY DEF Downward, Port
  <2>1. x \in Nat /\ x # 0 /\ q # 0 /\ p \in Nat
    BY <1>3, WorkersAssumption DEF Port
  <2>2. CASE q = p
    <3>1. x = p \/ x \in DEFAULT_START_PORT .. p - 1
      BY <2>1, <2>2, WorkersAssumption
    <3> QED BY <1>9, <1>10, <2>1, <3>1
  <2>3. CASE Used(q)
    <3>1. Used(x)
      BY <1>8, <2>3 DEF Downward
    <3> QED BY <1>10, <2>1, <3>1
  <2> QED BY <1>10, <2>1, <2>2, <2>3
<1>13. \A s \in Task : Claim(s)'
  <2> SUFFICES ASSUME NEW s \in Task, job'[s].pc = "assign"
               PROVE  /\ \A q \in DEFAULT_START_PORT .. job'[s].port - 1 : Used(q)'
                      /\ \A v \in User : port'[v] = job'[s].port => {job'[s].user, v} \in together'
    BY DEF Claim
  <2>1. s # t /\ job'[s] = job[s] /\ job[s].pc = "assign"
    <3>1. s # t
      BY DEF Assigns
    <3> QED BY <1>1, <3>1
  <2>2. job[s].port \in Port
    BY <1>1, <2>1 DEF JobOK
  <2>3. ASSUME NEW q \in DEFAULT_START_PORT .. job[s].port - 1 PROVE Used(q)'
    <3>1. Used(q) /\ q # 0
      BY <1>8, <2>1, <2>2, <2>3, WorkersAssumption DEF Claim, Port
    <3> QED BY <1>10, <3>1
  <2>4. ASSUME NEW v \in User, port'[v] = job[s].port PROVE {job[s].user, v} \in together'
    <3>1. CASE v = u
      <4>1. LooksForPort(s) /\ LooksForPort(t)
        BY <1>4, <2>1 DEF LooksForPort
      <4>2. {job[s].user, job[t].user} \in together
        BY <1>1, <2>1, <4>1 DEF OverlapsNoted
      <4> QED BY <1>2, <3>1, <4>2 DEF u
    <3>2. CASE v # u
      <4>1. port[v] = job[s].port
        BY <1>4, <2>4, <3>2
      <4> QED BY <1>2, <1>8, <2>1, <4>1 DEF Claim
    <3> QED BY <3>1, <3>2
  <2> QED BY <2>1, <2>3, <2>4
<1> QED BY <1>11, <1>12, <1>13

\* While the ports are as they are, only a request that computes one claims one anew.
LEMMA ClaimKeepsSpread ==
  ASSUME TypeInv, Spread, UNCHANGED port, together \subseteq together',
         \A s \in Task : job'[s].pc = "assign" =>
           \/ job'[s] = job[s]
           \/ job'[s].port = getNextPort /\ job'[s].user \in User
  PROVE  Spread'
<1> SUFFICES ASSUME \A u \in User : Undoubled(u)',
                    ~(Cardinality(Assigned)' > Cardinality(Port)')
             PROVE  (Distinct /\ Downward /\ (Full \/ \A s \in Task : Claim(s)))'
  BY DEF Spread
<1>1. TypeOK /\ Cardinality(Assigned)' = Cardinality(Assigned) /\ Cardinality(Port)' = Cardinality(Port)
  BY DEF Assigned, Port, TypeInv
<1>2. \A u \in User : Undoubled(u)
  BY DEF Undoubled
<1>3. Distinct /\ Downward /\ (Full \/ \A s \in Task : Claim(s))
  BY <1>1, <1>2 DEF Spread
<1>4. \A q : Used(q)' <=> Used(q)
  BY DEF Used
<1>5. Distinct' /\ Downward' /\ (Full => Full')
  BY <1>3, <1>4 DEF Distinct, Downward, Full, Assigned, Port
<1>6. ASSUME ~Full, NEW s \in Task, job'[s].pc = "assign"
      PROVE  /\ \A q \in DEFAULT_START_PORT .. job'[s].port - 1 : Used(q)
             /\ \A v \in User : port[v] = job'[s].port => {job'[s].user, v} \in together'
  <2>1. CASE job'[s] = job[s]
    BY <1>3, <1>6, <2>1 DEF Claim
  <2>2. CASE job'[s].port = getNextPort /\ job'[s].user \in User
    BY <1>1, <1>3, <1>6, <2>2, NextPortIsFree DEF Used
  <2> QED BY <1>6, <2>1, <2>2
<1>7. ~Full => \A s \in Task : Claim(s)'
  BY <1>4, <1>6 DEF Claim
<1> QED BY <1>5, <1>7

LEMMA SpreadStep ==
  ASSUME Base, PortInv, Spread, Next
  PROVE  Spread'
<1>1. TypeInv
  BY DEF Base
<1>2. CASE ImageCheck \/ World
  <2>1. /\ UNCHANGED <<port, together>>
        /\ \A t \in Task : job'[t] = job[t] \/ job'[t].pc = "idle"
    BY <1>2, OtherSteps DEF NoJob
  <2> QED BY <1>1, <2>1, ClaimKeepsSpread
<1>3. ASSUME NEW t \in Task, Request(t) \/ Continue(t)
      PROVE  Spread'
  <2>1. CASE Assigns(t)
    BY <1>1, <1>3, <2>1, AssignKeepsSpread
  <2>2. CASE ~Assigns(t)
    <3>1. /\ Transition(t) /\ UNCHANGED port /\ JobOK(t)
          /\ \A s \in Task \ {t} : job'[s] = job[s]
      BY <1>1, <1>3, <2>2, StepFacts
    <3>2. job'[t].pc = "assign" => job'[t].port = getNextPort /\ job'[t].user \in User
      BY <3>1 DEF Transition, NoJob, Portless, JobOK
    <3>3. together \subseteq together'
      BY <1>1, <1>3, TogetherGrows
    <3> QED BY <1>1, <3>1, <3>2, <3>3, ClaimKeepsSpread
  <2> QED BY <2>1, <2>2
<1> QED BY <1>2, <1>3 DEF Next

LEMMA PortsHold == Spec => [](Base /\ PortInv /\ Spread)
<1>1. Init => PortInv /\ Spread
  <2> SUFFICES ASSUME Init PROVE PortInv /\ Spread
    OBVIOUS
  <2>1. PortInv
    BY DEF Init, PortInv, OverlapsNoted, PortsOfJobs, ServicePorts, LooksForPort, NoJob, NoService
  <2>2. Distinct /\ \A t \in Task : Claim(t)
    BY DEF Init, Distinct, Assigned, Claim, NoJob
  <2>3. Downward
    BY WorkersAssumption DEF Init, Downward, Used, Port
  <2> QED BY <2>1, <2>2, <2>3 DEF Spread
<1>2. Base /\ PortInv /\ Spread /\ [Next]_vars => (PortInv /\ Spread)'
  <2>1. CASE Next
    BY <2>1, PortStep, SpreadStep
  <2>2. CASE UNCHANGED vars
    <3>1. PortInv => PortInv'
      BY <2>2 DEF vars, PortInv, OverlapsNoted, PortsOfJobs, ServicePorts, LooksForPort, Undoubled
    <3>2. Base /\ Spread => Spread'
      BY <2>2, ClaimKeepsSpread DEF vars, Base
    <3> QED BY <3>1, <3>2
  <2> QED BY <2>1, <2>2
<1> QED BY <1>1, <1>2, BaseHolds, PTL DEF Spec

\* Whatever starts run side by side, and whatever restarts and failures come between, the
\* port at which a worker is called is the one its service publishes, unless two starts of
\* that user looked for a port at once.
THEOREM ServicesAnswer == Spec => []ServiceAnswersAtItsPort
<1>1. PortInv => ServiceAnswersAtItsPort
  BY DEF PortInv, ServicePorts, Undoubled, ServiceAnswersAtItsPort, Exists
<1> QED BY <1>1, PortsHold, PTL

\* Whatever starts run side by side, two workers are given one port only when both looked
\* for theirs at once, as long as the range has a port for each worker and no worker's own
\* two starts looked for one at once.
THEOREM PortsDiffer == Spec => []PortsAreDistinct
<1>1. Base /\ Spread => PortsAreDistinct
  <2> SUFFICES ASSUME Base, Spread, Cardinality(Assigned) <= Cardinality(Port),
                      \A u \in User : {u} \notin together,
                      NEW u \in Assigned, NEW v \in Assigned, port[u] = port[v]
               PROVE  u = v \/ {u, v} \in together
    BY DEF PortsAreDistinct, Assigned
  <2>1. ~(Cardinality(Assigned) > Cardinality(Port))
    BY CardinalitiesAreNumbers
  <2> QED BY <2>1 DEF Spread, Undoubled, Distinct
<1> QED BY <1>1, PortsHold, PTL

(***************************************************************************)
(* Images, without failures and restarts                                   *)
(***************************************************************************)
\* A service that wants a replica exists, and so does one that a start has inspected and
\* that nothing has changed since.
Real ==
  /\ \A u \in User : service[u].replicas = 1 => Exists(u)
  /\ \A t \in Task : t \in fresh /\ job[t].pc = "scale" => Exists(job[t].user)

Older(u, n) == service[u].task # "none" /\ service[u].image < n

\* The digest that CompareImage compares with.
Previous == IF cached # 0 THEN cached ELSE old

\* A task of an older image is one that the update under way will come to; what was
\* pulled last is not known to be new until it is compared.
ImagesOK ==
  /\ cached # 0 /\ cron # "compare" => cached = local
  /\ cron # "idle" => \A u \in User : update[u] = "idle"
  /\ cron = "pull" => old = local
  /\ cron = "compare" => Previous <= local /\ \A u \in User : ~ Older(u, Previous)
  /\ cron \in {"idle", "pull"} =>
       \A u \in User : Older(u, local) =>
         update[u] = "inspect" \/ (update[u] \in {"apply", "applyStopped"} /\ u \in fresh)

Pulled == local <= registry
ImageInv == Real /\ Pulled /\ (faults = 0 /\ crashes = 0 => ImagesOK)

\* A task older than the image Docker holds was there before, and nothing has changed its
\* service.
Ages ==
  \A u \in User : service'[u].task # "none" /\ service'[u].image < local =>
    /\ service[u].task # "none" /\ service[u].image = service'[u].image
    /\ u \in fresh => u \in fresh'

\* A start that stands where it scales up stood there before.
ScalesNoMore ==
  \A s \in Task : job'[s].pc = "scale" => job[s].pc = "scale" /\ job'[s].user = job[s].user

LEMMA ChangeAges ==
  ASSUME TypeOK, Real, NEW u \in User, NEW new \in Service, Change(u, new), ScalesNoMore,
         new.replicas = 1 => new.port # 0,
         new.task = "none" \/ new.image >= local
  PROVE  Ages /\ Real'
<1>1. /\ service' \in [User -> Service] /\ service'[u] = new
      /\ \A v \in User \ {u} : service'[v] = service[v]
      /\ fresh' = fresh \ ({u} \cup {t \in Task : job[t].user = u})
  BY Changes DEF Change
<1>2. User \cap Task = {} /\ local \in Nat /\ \A v \in User : service'[v].image \in Nat
  BY <1>1, WorkersAssumption DEF TypeOK, Service
<1>3. \A v \in User \ {u} : v \in fresh => v \in fresh'
  BY <1>1, <1>2
<1>4. Ages
  BY <1>1, <1>2, <1>3 DEF Ages
<1>5. \A v \in User : service'[v].replicas = 1 => service'[v].port # 0
  BY <1>1 DEF Real, Exists
<1>6. ASSUME NEW t \in Task, t \in fresh', job'[t].pc = "scale"
      PROVE  service'[job'[t].user].port # 0
  <2>1. job[t].pc = "scale" /\ job'[t].user = job[t].user /\ job[t].user # u /\ t \in fresh
    BY <1>1, <1>6 DEF ScalesNoMore
  <2>2. service'[job[t].user] = service[job[t].user]
    BY <2>1 DEF Change, TypeOK
  <2> QED BY <2>1, <2>2 DEF Real, Exists
<1> QED BY <1>4, <1>5, <1>6 DEF Real, Exists

LEMMA LookingAges ==
  ASSUME TypeOK, Real, service' = service, fresh \subseteq fresh',
         \A s \in Task : s \in fresh' /\ job'[s].pc = "scale" =>
           \/ s \in fresh /\ job[s].pc = "scale" /\ job'[s].user = job[s].user
           \/ Exists(job'[s].user)
  PROVE  Ages /\ Real'
BY DEF Ages, Real, Exists

LEMMA StartedImage ==
  ASSUME TypeOK, Pulled, NEW p
  PROVE  Started(p).image >= local
BY DEF TypeOK, Pulled, Started, ImageUsed

LEMMA MovesToNoScale ==
  ASSUME TypeOK, NEW t \in Task,
         Finish(t) \/ \E pc \in Stage \ {"scale"} : Goto(t, pc)
  PROVE  ScalesNoMore
<1>1. NoJob \in Job /\ NoJob.pc = "idle"
  BY DEF NoJob, Job
<1> QED BY <1>1, Sets, Goes DEF Finish, ScalesNoMore

LEMMA RequestAges ==
  ASSUME TypeOK, Real, NEW t \in Task, Request(t)
  PROVE  Ages /\ Real'
<1>1. PICK u \in User, pc \in {"status", "inspect", "verify"} : Begin(t, u, pc)
  BY DEF Request, StartWorker, StopWorker, VerifyWorker
<1>2. UNCHANGED <<service, fresh>>
  BY DEF Request, StartWorker, StopWorker, VerifyWorker, Unchanged
<1>3. ScalesNoMore
  <2> DEFINE new == [NoJob EXCEPT !.pc = pc, !.user = u]
  <2>1. new \in Job /\ new.pc = pc
    BY DEF Job, NoJob
  <2>2. job' = [job EXCEPT ![t] = new]
    BY <1>1 DEF Begin
  <2> HIDE DEF new
  <2> QED BY <2>1, <2>2, Sets DEF ScalesNoMore
<1> QED BY <1>2, <1>3, LookingAges DEF ScalesNoMore

LEMMA RemovalAges ==
  ASSUME TypeInv, Real, NEW t \in Task, job[t].pc # "idle", NEW next \in {"idle", "volume"},
         RemoveService(t, next)
  PROVE  Ages /\ Real'
<1>1. job[t].user \in User /\ TypeOK /\ ScalesNoMore
  BY MovesToNoScale DEF TypeInv, JobOK, RemoveService, Stage
<1>2. CASE Change(job[t].user, NoService)
  BY <1>1, <1>2, NoServiceIs, ChangeAges
<1>3. CASE Unchanged
  BY <1>1, <1>3, LookingAges DEF Unchanged, ScalesNoMore
<1> QED BY <1>2, <1>3 DEF RemoveService

LEMMA ContinueAges ==
  ASSUME TypeInv, Real, Pulled, NEW t \in Task, Continue(t)
  PROVE  Ages /\ Real'
<1>0. TypeOK /\ JobOK(t) /\ Moves(t)
  BY StepMoves DEF TypeInv
<1>1. CASE \/ Verify(t) \/ ReadStatus(t) \/ CheckNetwork(t) \/ EnsureVolume(t) \/ ReadPort(t)
           \/ ComputePort(t) \/ AssignPort(t) \/ WaitUntilHealthy(t)
  <2>1. UNCHANGED <<service, fresh>>
    BY <1>1 DEF Verify, ReadStatus, CheckNetwork, EnsureVolume, ReadPort, ComputePort,
                AssignPort, WaitUntilHealthy, Unchanged
  <2>2. job'[t].pc # "scale"
    BY <1>0, <1>1 DEF Verify, ReadStatus, CheckNetwork, EnsureVolume, ReadPort, ComputePort,
                AssignPort, WaitUntilHealthy, Finish, Goto, NoJob, TypeOK, Job
  <2>3. ScalesNoMore
    BY <1>0, <2>2 DEF ScalesNoMore, Moves
  <2> QED BY <1>0, <2>1, <2>3, LookingAges DEF ScalesNoMore
<1>2. CASE RemoveMisplaced(t) \/ DiscardUnhealthy(t)
  BY <1>2, RemovalAges DEF RemoveMisplaced, DiscardUnhealthy, At
<1>3. CASE InspectToStart(t)
  <2>1. service' = service /\ fresh \subseteq fresh' /\ fresh' \subseteq fresh \cup {t}
    BY <1>3 DEF InspectToStart
  <2>2. job'[t].pc = "scale" => Exists(job'[t].user)
    BY <1>0, <1>3 DEF InspectToStart, Finish, NoJob, TypeOK, Job
  <2> QED BY <1>0, <2>1, <2>2, LookingAges DEF Moves
<1>4. CASE CreateService(t)
  <2>1. job[t].user \in User /\ job[t].port \in Port /\ job[t].port # 0
    BY <1>0, <1>4, WorkersAssumption DEF CreateService, At, JobOK, Port
  <2>2. ScalesNoMore
    <3>1. job'[t].pc # "scale"
      BY <1>0, <1>4 DEF CreateService, Finish, Goto, NoJob, TypeOK, Job
    <3> QED BY <1>0, <3>1 DEF ScalesNoMore, Moves
  <2>3. CASE Unchanged
    BY <1>0, <2>2, <2>3, LookingAges DEF Unchanged, ScalesNoMore
  <2>4. CASE Change(job[t].user, Started(job[t].port))
    BY <1>0, <2>1, <2>2, <2>4, StartedIs, StartedImage, ChangeAges
  <2> QED BY <1>4, <2>3, <2>4 DEF CreateService
<1>5. CASE ScaleUp(t) \/ ScaleDown(t) \/ InspectToStop(t)
  <2>1. job[t].user \in User /\ service[job[t].user].port \in {0} \cup Port
    BY <1>0, <1>5 DEF ScaleUp, ScaleDown, InspectToStop, At, JobOK, TypeOK, Service
  <2>2. ScalesNoMore
    BY <1>0, <1>5, MovesToNoScale DEF ScaleUp, ScaleDown, InspectToStop, Stage
  <2>3. CASE service' = service /\ fresh \subseteq fresh' /\ fresh' \subseteq fresh \cup {t}
             /\ job'[t].pc # "scale"
    BY <1>0, <2>2, <2>3, LookingAges DEF ScalesNoMore
  <2>4. CASE ScaleUp(t) /\ t \in fresh /\ Change(job[t].user, Started(service[job[t].user].port))
    <3>1. service[job[t].user].port # 0
      BY <2>4 DEF ScaleUp, At, Real, Exists
    <3> QED BY <1>0, <2>1, <2>2, <2>4, <3>1, StartedIs, StartedImage, ChangeAges
  <2>5. CASE Change(job[t].user, Stopped(service[job[t].user]))
    BY <1>0, <2>1, <2>2, <2>5, StoppedIs, ChangeAges
  <2>6. job'[t].pc # "scale"
    BY <1>0, <1>5 DEF ScaleUp, ScaleDown, InspectToStop, Finish, Goto, NoJob, TypeOK, Job
  <2> QED BY <1>5, <2>3, <2>4, <2>5, <2>6 DEF ScaleUp, ScaleDown, InspectToStop, Unchanged
<1> QED BY <1>1, <1>2, <1>3, <1>4, <1>5 DEF Continue

LEMMA WorldAges ==
  ASSUME TypeOK, StoppedIsAsleep, Real, Pulled, NEW u \in User,
         TaskBecomesHealthy(u) \/ TaskRestarts(u)
  PROVE  Ages /\ Real'
<1>1. service[u].task # "none" /\ UNCHANGED <<requests, images, fresh>>
  BY DEF TaskBecomesHealthy, TaskRestarts
<1>2. service[u].replicas = 1 /\ service[u].port # 0 /\ service[u].port \in {0} \cup Port
  BY <1>1 DEF StoppedIsAsleep, TypeOK, Service, Real, Exists
<1>3. PICK new \in Service : /\ service' = [service EXCEPT ![u] = new] /\ new.port = service[u].port
                             /\ new.image = service[u].image \/ new.image >= local
  <2>1. CASE TaskBecomesHealthy(u)
    <3> DEFINE new == [service[u] EXCEPT !.task = "running"]
    <3>1. new \in Service /\ new.port = service[u].port /\ new.image = service[u].image
      BY DEF TypeOK, Service
    <3>2. service' = [service EXCEPT ![u] = new]
      BY <2>1 DEF TaskBecomesHealthy, TypeOK
    <3> HIDE DEF new
    <3> QED BY <3>1, <3>2
  <2>2. CASE TaskRestarts(u)
    BY <1>2, <2>2, StartedIs, StartedImage DEF TaskRestarts
  <2> QED BY <2>1, <2>2
<1>4. service'[u] = new /\ \A v \in User \ {u} : service'[v] = service[v]
  BY <1>3 DEF TypeOK
<1>5. local \in Nat /\ new.image \in Nat
  BY DEF TypeOK, Service
<1>6. Ages
  BY <1>1, <1>3, <1>4, <1>5 DEF Ages
<1>7. \A v \in User : service'[v].port = service[v].port /\ (service[v].replicas = 1 \/ v = u \/
        service'[v].replicas = service[v].replicas)
  BY <1>3, <1>4
<1>8. \A v \in User : service'[v].replicas = 1 => service'[v].port # 0
  BY <1>2, <1>4, <1>7 DEF Real, Exists
<1>9. ASSUME NEW t \in Task, t \in fresh', job'[t].pc = "scale"
      PROVE  service'[job'[t].user].port # 0
  <2>1. service[job[t].user].port # 0 /\ job' = job
    BY <1>1, <1>9 DEF Real, Exists, requests
  <2>2. service'[job[t].user].port = service[job[t].user].port
    BY <1>3, <1>4 DEF TypeOK
  <2> QED BY <2>1, <2>2
<1> QED BY <1>6, <1>8, <1>9 DEF Real, Exists

\* Failures and restarts are counted.
LEMMA Counted ==
  ASSUME TypeOK, Next, faults' = 0, crashes' = 0
  PROVE  faults = 0 /\ crashes = 0 /\ NoFault /\ ~ Restart
<1>1. CASE ImageCheck
  BY <1>1 DEF ImageCheck, CheckImage, PullImage, CompareImage, ListActiveServices,
              InspectToUpdate, UpdateService, Fault, NoFault, Restart, TypeOK
<1>2. CASE World
  BY <1>2 DEF World, TaskBecomesHealthy, TaskRestarts, PublishImage, Restart, NoFault, TypeOK
<1>3. ASSUME NEW t \in Task, Request(t)
      PROVE  faults = 0 /\ crashes = 0 /\ NoFault /\ ~ Restart
  BY <1>3 DEF Request, StartWorker, StopWorker, VerifyWorker, NoFault, Restart, TypeOK
<1>4. ASSUME NEW t \in Task, Continue(t)
      PROVE  faults = 0 /\ crashes = 0 /\ NoFault /\ ~ Restart
  BY <1>4 DEF Continue, Verify, ReadStatus, CheckNetwork, RemoveMisplaced, EnsureVolume, ReadPort,
              ComputePort, AssignPort, CreateService, WaitUntilHealthy, DiscardUnhealthy,
              InspectToStart, ScaleUp, InspectToStop, ScaleDown, RemoveService, Fault, NoFault,
              Restart, TypeOK
<1> QED BY <1>1, <1>2, <1>3, <1>4 DEF Next

\* As long as the image check rests, it is enough that no task grows old.
LEMMA AgesKeepsImages ==
  ASSUME TypeOK, TypeOK', ImagesOK, Ages, UNCHANGED <<local, cached, cron, old, update>>
  PROVE  ImagesOK'
<1>1. /\ local \in Nat /\ cached \in Nat /\ old \in Nat
      /\ \A u \in User : service[u].image \in Nat /\ service'[u].image \in Nat
  BY DEF TypeOK, Service
<1>2. Previous' = Previous /\ Previous \in Nat
  BY <1>1 DEF Previous
<1>3. ASSUME NEW n \in Nat, n <= local, NEW u \in User, Older(u, n)'
      PROVE  Older(u, n) /\ (u \in fresh => u \in fresh')
  BY <1>1, <1>3 DEF Older, Ages
<1>4. cron = "compare" => \A u \in User : ~ Older(u, Previous)'
  BY <1>2, <1>3 DEF ImagesOK
<1>5. \A u \in User : Older(u, local)' => Older(u, local) /\ (u \in fresh => u \in fresh')
  BY <1>1, <1>3
<1> QED BY <1>2, <1>4, <1>5 DEF ImagesOK, Older

LEMMA ImageCheckKeepsReal ==
  ASSUME TypeOK, StoppedIsAsleep, Real, Pulled, ImageCheck
  PROVE  Real' /\ Pulled'
<1>1. CASE CheckImage \/ PullImage \/ CompareImage \/ ListActiveServices
  <2>1. UNCHANGED <<service, fresh, job, registry>> /\ local' \in {local, registry}
    BY <1>1 DEF CheckImage, PullImage, CompareImage, ListActiveServices, Unchanged, requests
  <2> QED BY <2>1 DEF Real, Exists, Pulled, TypeOK
<1>2. ASSUME NEW u \in User, InspectToUpdate(u)
      PROVE  Real' /\ Pulled'
  <2>1. UNCHANGED <<service, job, registry, local>> /\ fresh' \subseteq fresh \cup {u}
    BY <1>2 DEF InspectToUpdate, requests
  <2>2. u \notin Task
    BY WorkersAssumption
  <2> QED BY <2>1, <2>2 DEF Real, Exists, Pulled
<1>3. ASSUME NEW u \in User, UpdateService(u)
      PROVE  Real' /\ Pulled'
  <2>1. UNCHANGED <<job, registry, local>> /\ ScalesNoMore
    BY <1>3 DEF UpdateService, requests, ScalesNoMore
  <2>2. CASE Unchanged
    BY <2>1, <2>2 DEF Unchanged, Real, Exists, Pulled
  <2>3. CASE u \in fresh /\ update[u] = "apply" /\ Change(u, Started(service[u].port))
    <3>1. service[u].replicas = 1 /\ service[u].port \in {0} \cup Port
      BY <2>3 DEF StoppedIsAsleep, TypeOK, Service
    <3>2. service[u].port # 0
      BY <3>1 DEF Real, Exists
    <3> QED BY <2>1, <2>3, <3>1, <3>2, StartedIs, StartedImage, ChangeAges DEF Pulled
  <2>4. CASE Change(u, Stopped(service[u]))
    BY <2>1, <2>4, StoppedIs, ChangeAges DEF Pulled
  <2> QED BY <1>3, <2>2, <2>3, <2>4 DEF UpdateService, UpdateAccepted
<1> QED BY <1>1, <1>2, <1>3 DEF ImageCheck

LEMMA ImageCheckKeepsImages ==
  ASSUME TypeOK, TypeOK', StoppedIsAsleep, Real, Pulled, ImagesOK, ImageCheck, NoFault
  PROVE  ImagesOK'
<1>0. /\ local \in Nat /\ cached \in Nat /\ old \in Nat /\ registry \in Nat
      /\ \A u \in User : service[u].image \in Nat
      /\ update \in [User -> {"idle", "inspect", "apply", "applyStopped"}]
      /\ faults' # faults + 1
  BY DEF TypeOK, Service, NoFault
<1>1. CASE CheckImage
  <2>1. /\ cron = "idle" /\ cron' = "pull" /\ old' = local /\ \A u \in User : update[u] = "idle"
        /\ UNCHANGED <<service, fresh, local, cached, update>>
    BY <1>0, <1>1 DEF CheckImage, CronIdle, Unchanged, Fault
  <2> QED BY <2>1 DEF ImagesOK, Older
<1>2. CASE PullImage
  <2>1. /\ cron = "pull" /\ cron' = "compare" /\ local' = registry
        /\ UNCHANGED <<service, fresh, cached, old, update>>
    BY <1>0, <1>2 DEF PullImage, Unchanged, Fault
  <2>2. Previous' = local /\ \A u \in User : ~ Older(u, local)
    BY <2>1 DEF ImagesOK, Previous
  <2>3. \A u \in User : ~ Older(u, Previous)'
    BY <2>1, <2>2 DEF Older
  <2> QED BY <1>0, <2>1, <2>2, <2>3 DEF ImagesOK, Pulled
<1>3. CASE CompareImage
  <2>1. /\ cron = "compare" /\ cron' = (IF HasNewImage THEN "list" ELSE "idle")
        /\ cached' = IF HasNewImage THEN local ELSE cached
        /\ UNCHANGED <<service, fresh, local, update>>
    BY <1>0, <1>3 DEF CompareImage, Unchanged, Fault
  <2>2. CASE HasNewImage
    BY <2>1, <2>2 DEF ImagesOK
  <2>3. CASE ~ HasNewImage
    <3>1. Previous = local
      BY <2>3 DEF HasNewImage, Previous
    <3>2. \A u \in User : ~ Older(u, local)
      BY <2>1, <3>1 DEF ImagesOK
    <3>3. \A u \in User : ~ Older(u, local)'
      BY <2>1, <3>2 DEF Older
    <3> QED BY <2>1, <2>3, <3>1, <3>3 DEF ImagesOK, Previous
  <2> QED BY <2>2, <2>3
<1>4. CASE ListActiveServices
  <2>1. /\ cron = "list" /\ cron' = "idle"
        /\ update' = [u \in User |-> IF Listed(u) THEN "inspect" ELSE "idle"]
        /\ UNCHANGED <<service, fresh, local, cached>>
    BY <1>0, <1>4 DEF ListActiveServices, Unchanged, Fault
  <2>2. ASSUME NEW u \in User, service[u].task # "none"
        PROVE  Listed(u)
    <3>1. service[u].replicas = 1
      BY <2>2 DEF StoppedIsAsleep, TypeOK, Service
    <3> QED BY <3>1 DEF Real, Listed
  <2>3. \A u \in User : Older(u, local)' => update'[u] = "inspect"
    BY <2>1, <2>2 DEF Older
  <2> QED BY <2>1, <2>3 DEF ImagesOK
<1>5. ASSUME NEW u \in User, InspectToUpdate(u)
      PROVE  ImagesOK'
  <2>1. /\ UNCHANGED <<service, local, cached, cron, old>> /\ update[u] = "inspect"
        /\ \A v \in User \ {u} : update'[v] = update[v]
        /\ fresh \subseteq fresh'
        /\ \/ ~ Exists(u)
           \/ update'[u] \in {"apply", "applyStopped"} /\ u \in fresh'
    BY <1>0, <1>5 DEF InspectToUpdate, Fault
  <2>2. cron = "idle"
    BY <1>0, <2>1 DEF ImagesOK, TypeOK
  <2>3. ~ Exists(u) => service[u].task = "none"
    BY DEF Real, StoppedIsAsleep, TypeOK, Service
  <2>4. \A v \in User : Older(v, local)' = Older(v, local)
    BY <2>1 DEF Older
  <2> QED BY <2>1, <2>2, <2>3, <2>4 DEF ImagesOK, Older
<1>6. ASSUME NEW u \in User, UpdateService(u)
      PROVE  ImagesOK'
  <2>1. /\ UNCHANGED <<local, cached, cron, old>> /\ update[u] \in {"apply", "applyStopped"}
        /\ \A v \in User \ {u} : update'[v] = update[v]
    BY <1>0, <1>6 DEF UpdateService
  <2>2. cron = "idle"
    BY <2>1 DEF ImagesOK, TypeOK
  <2>3. CASE u \notin fresh /\ Unchanged
    <3>1. ~ Older(u, local)
      BY <2>1, <2>2, <2>3 DEF ImagesOK
    <3>2. \A v \in User : Older(v, local)' = Older(v, local)
      BY <2>1, <2>3 DEF Older, Unchanged
    <3> QED BY <2>1, <2>2, <2>3, <3>1, <3>2 DEF ImagesOK, Unchanged
  <2>4. ASSUME NEW new \in Service, Change(u, new), new.task = "none" \/ new.image >= local
        PROVE  ImagesOK'
    <3>1. /\ service'[u] = new /\ \A v \in User \ {u} : service'[v] = service[v]
          /\ fresh' = fresh \ ({u} \cup {t \in Task : job[t].user = u})
      BY <2>4, Changes DEF Change
    <3>2. ~ Older(u, local)'
      BY <1>0, <2>1, <2>4, <3>1 DEF Older, Service
    <3>3. \A v \in User \ {u} : (Older(v, local)' => Older(v, local)) /\ (v \in fresh => v \in fresh')
      BY <2>1, <3>1, WorkersAssumption DEF Older
    <3> QED BY <2>1, <2>2, <3>2, <3>3 DEF ImagesOK
  <2>5. service[u].port \in {0} \cup Port
    BY DEF TypeOK, Service
  <2>6. CASE Change(u, Started(service[u].port))
    BY <2>4, <2>5, <2>6, StartedIs, StartedImage
  <2>7. CASE Change(u, Stopped(service[u]))
    BY <2>4, <2>7, StoppedIs
  <2> QED BY <1>0, <1>6, <2>3, <2>6, <2>7 DEF UpdateService, UpdateAccepted, Fault
<1> QED BY <1>1, <1>2, <1>3, <1>4, <1>5, <1>6 DEF ImageCheck

LEMMA ImageStep ==
  ASSUME Base, Base', ImageInv, Next
  PROVE  ImageInv'
<1>1. TypeInv /\ TypeOK /\ TypeOK' /\ StoppedIsAsleep /\ Real /\ Pulled
  BY DEF Base, TypeInv, ImageInv
<1>2. faults' = 0 /\ crashes' = 0 => ImagesOK /\ NoFault /\ ~ Restart
  BY <1>1, Counted DEF ImageInv
<1>3. CASE ImageCheck
  BY <1>1, <1>2, <1>3, ImageCheckKeepsReal, ImageCheckKeepsImages DEF ImageInv
<1>4. ASSUME NEW t \in Task, Request(t) \/ Continue(t)
      PROVE  ImageInv'
  <2>1. Ages /\ Real' /\ UNCHANGED images
    BY <1>1, <1>4, RequestAges, ContinueAges, RequestsLeaveImages
  <2> QED BY <1>1, <1>2, <2>1, AgesKeepsImages DEF ImageInv, images, Pulled
<1>5. ASSUME NEW u \in User, TaskBecomesHealthy(u) \/ TaskRestarts(u)
      PROVE  ImageInv'
  <2>1. Ages /\ Real' /\ UNCHANGED images
    BY <1>1, <1>5, WorldAges DEF TaskBecomesHealthy, TaskRestarts
  <2> QED BY <1>1, <1>2, <2>1, AgesKeepsImages DEF ImageInv, images, Pulled
<1>6. CASE PublishImage
  <2>1. /\ UNCHANGED <<job, service, local, cached, cron, old, update, fresh>>
        /\ registry' = registry + 1
    BY <1>6 DEF PublishImage, requests
  <2>2. Ages /\ Real'
    BY <1>1, <2>1, LookingAges
  <2>3. Pulled'
    BY <1>1, <2>1 DEF Pulled, TypeOK
  <2> QED BY <1>1, <1>2, <2>1, <2>2, <2>3, AgesKeepsImages DEF ImageInv
<1>7. CASE Restart
  <2>1. Real' /\ Pulled'
    BY <1>1, <1>7 DEF Restart, Real, Exists, Pulled
  <2> QED BY <1>2, <1>7, <2>1 DEF ImageInv
<1> QED BY <1>3, <1>4, <1>5, <1>6, <1>7 DEF Next, World

LEMMA ImagesHold == Spec => []ImageInv
<1>1. Init => ImageInv
  BY DEF Init, ImageInv, Real, Exists, Pulled, ImagesOK, Older, NoService, NoJob
<1>2. Base /\ Base' /\ ImageInv /\ [Next]_vars => ImageInv'
  <2>1. CASE UNCHANGED vars
    BY <2>1 DEF vars, ImageInv, Real, Exists, Pulled, ImagesOK, Older, Previous
  <2> QED BY <2>1, ImageStep
<1> QED BY <1>1, <1>2, BaseHolds, PTL DEF Spec

\* Once an image was pulled and the services were updated, with no failure and no restart,
\* no task of an older image is left, whatever was started or stopped while listActiveServices
\* and updateService were under way.
THEOREM UpdatesReachAll == Spec => []NoTaskLeftBehind
<1>1. Base /\ ImageInv => NoTaskLeftBehind
  <2> SUFFICES ASSUME Base, ImageInv, faults = 0, crashes = 0, CronIdle, NEW u \in User,
                      service[u].task # "none"
               PROVE  service[u].image >= local
    BY DEF NoTaskLeftBehind
  <2>1. ~ Older(u, local)
    BY DEF ImageInv, ImagesOK, CronIdle
  <2>2. service[u].image \in Nat /\ local \in Nat
    BY DEF Base, TypeInv, TypeOK, Service
  <2> QED BY <2>1, <2>2 DEF Older
<1> QED BY <1>1, BaseHolds, ImagesHold, PTL
================================================================================
