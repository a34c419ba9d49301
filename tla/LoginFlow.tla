------------------------------- MODULE LoginFlow -------------------------------
(***************************************************************************)
(* Logging a worker's TDLib client in from the dashboard.  nest_api asks    *)
(* the worker's state and logs it out by HTTP, and sends login, code and    *)
(* password through the worker's queue, which delivers at least once and    *)
(* ten at a time.  A client that logged out is closed; the worker recreates *)
(* it at the next call, or at several: the flag that says it is closed is   *)
(* read before the old client is closed and reset after.                    *)
(*                                                                          *)
(* TDLib and tdl are external.  Clients are numbered as they are created;   *)
(* all use one database, which one client at a time may hold.               *)
(***************************************************************************)
EXTENDS Naturals, Sequences, SequencesExt, FiniteSets

CONSTANTS
  Op,               \* calls of the client in progress at a time
  MaxRequests,      \* bound on the requests of the dashboard, polls not counted
  MaxRedeliveries,  \* bound on the commands delivered again
  MaxRestarts       \* bound on the restarts of the worker

ASSUME LoginAssumption ==
  /\ MaxRequests \in Nat /\ MaxRedeliveries \in Nat /\ MaxRestarts \in Nat
  /\ IsFiniteSet(Op)

VARIABLES
  \* the worker
  client,          \* TelegramUserClient.client
  isClientClosed,
  updateHandlers,  \* how many times the array of onUpdate holds each handler
  attached,        \* attached[k]: how many times each handler listens to client k
  twice,           \* history: since the worker started, two calls replaced one client
  op,              \* calls in progress
  \* TDLib
  phase,           \* phase[k]: what client k is doing
  stored,          \* the authorization state, while a client is open and in the database
  attempt,         \* codes sent
  \* between the processes, and nest_api
  queue,           \* commands for the worker
  answers,         \* command-response messages for nest_api
  todo,            \* commands nest_api dispatches next
  authErrorCache,
  \* bounds, and what the user did
  requests, redeliveries, restarts,
  mistaken         \* a wrong code or password was submitted

worker == <<client, isClientClosed, updateHandlers, attached, twice>>
tdlib == <<phase, stored, attempt>>
messages == <<queue, answers, todo>>
nest == <<messages, authErrorCache>>
bounds == <<requests, redeliveries, restarts, mistaken>>
vars == <<worker, op, tdlib, nest, bounds>>

\* Every call in progress may replace a client that was logged out.
Client == 1 .. 1 + MaxRequests * Cardinality(Op) + MaxRestarts
HttpType == {"getAuthorizationState", "logOut"}
QueueType == {"login", "provideAuthCode", "providePassword"}

\* good: the attempt a code was sent for, 1 for the right password, 0 when wrong
Command == [type : QueueType, good : Nat]
Nothing == [type |-> "none", good |-> 0]
Login == [type |-> "login", good |-> 0]

\* on: the client the call was made on; then: what nest_api dispatches afterwards
Call ==
  [cmd : Command \cup {[type |-> t, good |-> 0] : t \in HttpType} \cup {Nothing},
   pc : {"idle", "ensure", "recreate", "created", "invoke"}, on : {0} \cup Client,
   then : Command \cup {Nothing}]
Idle == [cmd |-> Nothing, pc |-> "idle", on |-> 0, then |-> Nothing]
Answer == [type : QueueType \ {"login"}, error : {"none", "invalid", "other"}]

Init ==
  /\ client = 1 /\ isClientClosed = FALSE /\ updateHandlers = 1
  /\ attached = [k \in Client |-> IF k = 1 THEN 1 ELSE 0]
  /\ twice = FALSE
  /\ op = [o \in Op |-> Idle]
  /\ phase = [k \in Client |-> IF k = 1 THEN "open" ELSE "none"]
  /\ stored = "phone" /\ attempt = 0
  /\ queue = <<>> /\ answers = <<>> /\ todo = {} /\ authErrorCache = "none"
  /\ requests = 0 /\ redeliveries = 0 /\ restarts = 0 /\ mistaken = FALSE

Begin(o, cmd, then) ==
  /\ op[o] = Idle
  /\ op' = [op EXCEPT ![o] = [cmd |-> cmd, pc |-> "ensure", on |-> 0, then |-> then]]

------------------------------------------------------------------------------
\* The dashboard.
Http(o, type, then) == Begin(o, [type |-> type, good |-> 0], then)
Request ==
  requests < MaxRequests /\ requests' = requests + 1 /\ UNCHANGED <<redeliveries, restarts>>

\* getWorkerStatus, every few seconds while the page is open
PollStatus(o) ==
  /\ Http(o, "getAuthorizationState", Nothing)
  /\ UNCHANGED <<worker, tdlib, nest, bounds>>

\* submitAuthCode and submitPassword ask for the state before they dispatch.
Submit(o, command) ==
  /\ Request
  /\ Http(o, "getAuthorizationState", command)
  /\ mistaken' = (mistaken \/ command.good = 0)
  /\ UNCHANGED <<worker, tdlib, nest>>

SubmitAuthCode(o) ==
  /\ attempt > 0
  /\ \E good \in {0, attempt} : Submit(o, [type |-> "provideAuthCode", good |-> good])

SubmitPassword(o) ==
  \E good \in {0, 1} : Submit(o, [type |-> "providePassword", good |-> good])

LoginWorker ==
  /\ Request
  /\ queue' = Append(queue, Login)
  /\ UNCHANGED <<worker, op, tdlib, answers, todo, authErrorCache, mistaken>>

ReauthorizeWorker(o) ==
  /\ Request
  /\ Http(o, "logOut", Login)
  /\ UNCHANGED <<worker, tdlib, nest, mistaken>>

\* authErrorCache.clear before a code or a password, then dispatchCommand
Dispatch(command) ==
  /\ command \in todo
  /\ todo' = todo \ {command}
  /\ authErrorCache' = IF command = Login THEN authErrorCache ELSE "none"
  /\ queue' = Append(queue, command)
  /\ UNCHANGED <<worker, op, tdlib, answers, bounds>>

\* Mutated: whatever went wrong with a code, it was the code.
AnyErrorIsInvalid(answer) == answer.error # "none"

IsInvalid(answer) == answer.error = "invalid"

\* TdlibCommandResponseHandler.  The kinds of refusal the cache tells apart (invalid,
\* expired, too many) are one here.
HandleResponse ==
  /\ answers # <<>>
  /\ answers' = Tail(answers)
  /\ LET answer == Head(answers)
     IN  authErrorCache' = IF IsInvalid(answer) THEN answer.type ELSE authErrorCache
  /\ UNCHANGED <<worker, op, tdlib, queue, todo, bounds>>

\* TTL_MS
ErrorExpires ==
  /\ authErrorCache # "none" /\ authErrorCache' = "none"
  /\ UNCHANGED <<worker, op, tdlib, messages, bounds>>

------------------------------------------------------------------------------
\* The worker: calls of the HTTP API and commands of the queue run side by side.
Receive(o) ==
  /\ queue # <<>>
  /\ Begin(o, Head(queue), Nothing)
  /\ queue' = Tail(queue)
  /\ UNCHANGED <<worker, tdlib, answers, todo, authErrorCache, bounds>>

\* ensureClientReady, and logOut's own check of the flag.  A call that finds the client
\* closed awaits close(), and the calls that come meanwhile find the flag as it was.
Ensure(o) ==
  /\ op[o].pc = "ensure"
  /\ op' = IF isClientClosed THEN [op EXCEPT ![o].pc = "recreate"]
           ELSE [op EXCEPT ![o].pc = "invoke", ![o].on = client]
  /\ twice' = (twice \/ (isClientClosed /\ \E p \in Op \ {o} : op[p].pc = "recreate"))
  /\ UNCHANGED <<client, isClientClosed, updateHandlers, attached, tdlib, nest, bounds>>

\* Mutated: only a client that is ready again resets the flag.
FlagKept == isClientClosed

FlagAfterRecreation == FALSE

\* Mutated: the handlers are registered by onUpdate once more.
RegisteredAgain == 2 * updateHandlers

Registered == updateHandlers

\* A client that finds the database held by another is of no use.
Holds(k) == phase[k] \in {"init", "open", "loggingOut"}
NewClient(k) == IF \E j \in Client : Holds(j) THEN "locked" ELSE "init"

\* Mutated: a command is dispatched even when none follows.
ContinueAlways(command) == todo' = todo \cup {command}

\* The caller of an HTTP command goes on.
Continue(command) == todo' = IF command = Nothing THEN todo ELSE todo \cup {command}

\* recreateClient; a logOut that finds the client closed ends with it.
Recreate(o) ==
  /\ op[o].pc = "recreate"
  /\ LET k == client + 1
     IN  /\ k \in Client
         /\ client' = k
         /\ phase' = [phase EXCEPT ![k] = NewClient(k)]
         /\ attached' = [attached EXCEPT ![k] = Registered]
         /\ updateHandlers' = Registered
         /\ isClientClosed' = FlagAfterRecreation
         /\ IF op[o].cmd.type = "logOut"
            THEN op' = [op EXCEPT ![o] = Idle] /\ Continue(op[o].then)
            ELSE op' = [op EXCEPT ![o].pc = "created"] /\ UNCHANGED todo
  /\ UNCHANGED <<twice, stored, attempt, queue, answers, authErrorCache, bounds>>

\* ensureClient: by now the client may be the one another call created.
Obtain(o) ==
  /\ op[o].pc = "created"
  /\ op' = [op EXCEPT ![o].pc = "invoke", ![o].on = client]
  /\ UNCHANGED <<worker, tdlib, nest, bounds>>

Invoking(o, type) ==
  /\ op[o].pc = "invoke" /\ op[o].cmd.type = type
  /\ op' = [op EXCEPT ![o] = Idle]

Open(o) == phase[op[o].on] = "open"

InvokeGetState(o) ==
  /\ Invoking(o, "getAuthorizationState")
  /\ LET awaited == [provideAuthCode |-> "code", providePassword |-> "password"]
         command == op[o].then
     IN  Continue(IF command # Nothing /\ Open(o) /\ stored = awaited[command.type]
                  THEN command ELSE Nothing)
  /\ UNCHANGED <<worker, tdlib, queue, answers, authErrorCache, bounds>>

\* TDLib answers before the client is closed; nest_api goes on if it fails, too.
InvokeLogOut(o) ==
  /\ Invoking(o, "logOut")
  /\ phase' = IF Open(o) THEN [phase EXCEPT ![op[o].on] = "loggingOut"] ELSE phase
  /\ Continue(op[o].then)
  /\ UNCHANGED <<worker, stored, attempt, queue, answers, authErrorCache, bounds>>

\* Only answers that carry a context are looked at: those to login are left out.
Reply(type, error) == answers' = Append(answers, [type |-> type, error |-> error])

\* startLogin: setAuthenticationPhoneNumber, which may also start over
InvokeLogin(o) ==
  /\ Invoking(o, "login")
  /\ IF Open(o) /\ stored # "ready"
     THEN stored' = "code" /\ attempt' = attempt + 1
     ELSE UNCHANGED <<stored, attempt>>
  /\ UNCHANGED <<worker, phase, messages, authErrorCache, bounds>>

InvokeCheckCode(o) ==
  /\ Invoking(o, "provideAuthCode")
  /\ LET expected == Open(o) /\ stored = "code"
         right == op[o].cmd.good = attempt
     IN  /\ Reply("provideAuthCode", IF ~expected THEN "other" ELSE IF right THEN "none"
                                     ELSE "invalid")
         /\ IF expected /\ right THEN stored' \in {"password", "ready"} ELSE UNCHANGED stored
  /\ UNCHANGED <<worker, phase, attempt, queue, todo, authErrorCache, bounds>>

InvokeCheckPassword(o) ==
  /\ Invoking(o, "providePassword")
  /\ LET expected == Open(o) /\ stored = "password"
         right == op[o].cmd.good = 1
     IN  /\ Reply("providePassword", IF ~expected THEN "other" ELSE IF right THEN "none"
                                     ELSE "invalid")
         /\ stored' = IF expected /\ right THEN "ready" ELSE stored
  /\ UNCHANGED <<worker, phase, attempt, queue, todo, authErrorCache, bounds>>

------------------------------------------------------------------------------
\* TDLib's updates, seen by the handlers of setupBasicEventHandlers.
Initialized(k) ==
  /\ phase[k] = "init"
  /\ phase' = [phase EXCEPT ![k] = "open"]
  /\ isClientClosed' = IF stored \in {"phone", "ready"} THEN FALSE ELSE isClientClosed
  /\ UNCHANGED <<client, updateHandlers, attached, twice, op, stored, attempt, nest, bounds>>

\* Mutated: the client counts as closed only once it was ready.
ClosedIfItWasReady == stored = "ready" \/ isClientClosed

SeesClosed == TRUE

\* A logged out client loses its database.
Closed(k) ==
  /\ phase[k] = "loggingOut"
  /\ phase' = [phase EXCEPT ![k] = "closed"]
  /\ stored' = "phone"
  /\ isClientClosed' = SeesClosed
  /\ UNCHANGED <<client, updateHandlers, attached, twice, op, attempt, nest, bounds>>

\* The worker's connection is lost while it handles a command.
Redeliver(o) ==
  /\ op[o].cmd \in Command /\ redeliveries < MaxRedeliveries
  /\ redeliveries' = redeliveries + 1
  /\ queue' = <<op[o].cmd>> \o queue
  /\ UNCHANGED <<worker, op, tdlib, answers, todo, authErrorCache, requests, restarts,
                 mistaken>>

\* The worker dies: what it was doing is delivered again, or fails in nest_api.
WorkerRestarts ==
  /\ restarts < MaxRestarts /\ restarts' = restarts + 1
  /\ LET k == client + 1
         running == {op[o].cmd : o \in {p \in Op : op[p].cmd \in Command}}
         loggedOut == {op[o].then : o \in {p \in Op : op[p].cmd.type = "logOut"}}
     IN  /\ k \in Client
         /\ client' = k /\ isClientClosed' = FALSE /\ updateHandlers' = 1 /\ twice' = FALSE
         /\ attached' = [attached EXCEPT ![k] = 1]
         /\ phase' = [j \in Client |-> IF j = k THEN "init"
                                       ELSE IF phase[j] = "none" THEN "none" ELSE "closed"]
         /\ stored' = IF \E j \in Client : phase[j] = "loggingOut" THEN "phone" ELSE stored
         /\ queue' = SetToSeq(running) \o queue
         /\ todo' = todo \cup loggedOut
  /\ op' = [o \in Op |-> Idle]
  /\ UNCHANGED <<attempt, answers, authErrorCache, requests, redeliveries, mistaken>>

------------------------------------------------------------------------------
Dashboard ==
  \/ \E o \in Op : SubmitAuthCode(o) \/ SubmitPassword(o) \/ ReauthorizeWorker(o)
  \/ LoginWorker \/ ErrorExpires

Steps ==
  \/ \E o \in Op :
       \/ Receive(o) \/ Ensure(o) \/ Recreate(o) \/ Obtain(o) \/ InvokeGetState(o)
       \/ InvokeLogOut(o) \/ InvokeLogin(o) \/ InvokeCheckCode(o) \/ InvokeCheckPassword(o)
  \/ \E k \in Client : Initialized(k) \/ Closed(k)
  \/ \E command \in todo : Dispatch(command)
  \/ HandleResponse

Poll == \E o \in Op : PollStatus(o)

Next ==
  \/ Dashboard \/ Steps \/ Poll
  \/ \E o \in Op : Redeliver(o)
  \/ WorkerRestarts

Spec == Init /\ [][Next]_vars

\* Processes run, messages arrive, TDLib answers, and the open page asks again.
FairSpec ==
  /\ Spec
  /\ WF_vars(Poll)
  /\ \A o \in Op : WF_vars(Ensure(o) \/ Recreate(o) \/ Obtain(o) \/ InvokeGetState(o)
                           \/ InvokeLogOut(o) \/ InvokeLogin(o) \/ InvokeCheckCode(o) \/ InvokeCheckPassword(o))
  /\ \A k \in Client : WF_vars(Initialized(k) \/ Closed(k))

------------------------------------------------------------------------------
(***************************************************************************)
(* Properties                                                              *)
(***************************************************************************)
\* Every variable has its type.
TypeOK ==
  /\ client \in Client /\ isClientClosed \in BOOLEAN /\ updateHandlers \in Nat
  /\ attached \in [Client -> Nat] /\ twice \in BOOLEAN
  /\ op \in [Op -> Call]
  /\ phase \in [Client -> {"none", "init", "open", "loggingOut", "closed", "locked"}]
  /\ stored \in {"phone", "code", "password", "ready"} /\ attempt \in Nat
  /\ queue \in Seq(Command) /\ answers \in Seq(Answer) /\ todo \subseteq Command
  /\ authErrorCache \in {"none", "provideAuthCode", "providePassword"}
  /\ requests \in Nat /\ redeliveries \in Nat /\ restarts \in Nat /\ mistaken \in BOOLEAN

\* However logouts, calls and restarts interleave, the client that holds the worker's
\* database is the one the worker uses, unless since the worker started two calls found
\* the same client closed, one while the other awaited close(): both create a client, the
\* first gets the database and the second becomes the worker's.
OneClientPerDatabase == ~twice => \A k \in Client : Holds(k) => k = client

\* A client that was recreated tells each handler of its updates once: a seller gets
\* each message in the queue once, after any number of logouts.
HandlersAttachedOnce == attached[client] = 1

\* A user whose code and password were right is shown no error, though the broker may
\* deliver them twice and they may be submitted twice: TDLib's refusal of the second is
\* none of the refusals the page shows.  (A second login makes the first code wrong.)
RightCodeShowsNoError == ~mistaken /\ attempt <= 1 => authErrorCache = "none"

\* After a logout the worker gets a client that can be logged in again, with nothing
\* but the page's polling to make it, unless two calls replaced a client at once: the
\* worker is then left with one that never opens and is not flagged closed, until it is
\* started again.
RecoversAfterLogout ==
  phase[client] \in {"loggingOut", "closed"} ~> phase[client] = "open" \/ twice

==============================================================================
