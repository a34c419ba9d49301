---------------------------- MODULE LoginFlowProofs ----------------------------
(***************************************************************************)
(* Theorems about LoginFlow for every number of calls in progress and every *)
(* bound: its types, that the client holding the database is the worker's   *)
(* unless two calls replaced one at once, that updates reach each handler   *)
(* once, and that a user who makes no mistake is shown none.                *)
(***************************************************************************)
EXTENDS LoginFlow, FiniteSetTheorems, SequenceTheorems, TLAPS

(***************************************************************************)
(* Types                                                                   *)
(***************************************************************************)
\* SetToSeq lists a finite set.
LEMMA SetToSeqOf ==
  ASSUME NEW S, IsFiniteSet(S)
  PROVE  /\ SetToSeq(S) \in Seq(S)
         /\ \A i \in DOMAIN SetToSeq(S) : SetToSeq(S)[i] \in S
<1>1. Cardinality(S) \in Nat /\ ExistsBijection(1 .. Cardinality(S), S)
  BY FS_CardinalityType
<1>2. \E f \in [1 .. Cardinality(S) -> S] : IsInjective(f)
  BY <1>1 DEF ExistsBijection, Bijection, Injection, IsInjective
<1>3. SetToSeq(S) \in [1 .. Cardinality(S) -> S]
  BY <1>2 DEF SetToSeq
<1> QED BY <1>1, <1>3, IsASeq

\* A call that logs out is followed by a login.
LogOutsOK == \A o \in Op : op[o].cmd.type = "logOut" => op[o].then = Login

TypeInv == TypeOK /\ LogOutsOK

LEMMA CallFacts ==
  ASSUME TypeInv, NEW o \in Op
  PROVE  /\ op[o].cmd \in Command \cup {[type |-> t, good |-> 0] : t \in HttpType}
                            \cup {Nothing}
         /\ op[o].cmd.type \in QueueType => op[o].cmd \in Command
         /\ op[o].then \in Command \cup {Nothing}
         /\ op[o].cmd.type = "logOut" => op[o].then = Login
         /\ op[o].on \in {0} \cup Client
  BY DEF TypeInv, TypeOK, LogOutsOK, Call, Command, QueueType, HttpType, Nothing

\* The variables no type is hard for.
Plain ==
  /\ client \in Client /\ isClientClosed \in BOOLEAN /\ updateHandlers \in Nat
  /\ attached \in [Client -> Nat] /\ twice \in BOOLEAN
  /\ phase \in [Client -> {"none", "init", "open", "loggingOut", "closed", "locked"}]
  /\ stored \in {"phone", "code", "password", "ready"} /\ attempt \in Nat
  /\ answers \in Seq(Answer)
  /\ authErrorCache \in {"none", "provideAuthCode", "providePassword"}
  /\ requests \in Nat /\ redeliveries \in Nat /\ restarts \in Nat /\ mistaken \in BOOLEAN

LEMMA TypeParts ==
  TypeOK <=> Plain /\ op \in [Op -> Call] /\ queue \in Seq(Command) /\ todo \subseteq Command
  BY DEF TypeOK, Plain

LEMMA TypeNext ==
  ASSUME Plain', op' \in [Op -> Call], LogOutsOK', queue' \in Seq(Command),
         todo' \subseteq Command
  PROVE  TypeInv'
  BY DEF TypeInv, TypeOK, Plain

LEMMA OneIsAClient == 1 \in Client
<1>1. Cardinality(Op) \in Nat
  BY LoginAssumption, FS_CardinalityType
<1>2. MaxRequests * Cardinality(Op) \in Nat
  BY <1>1, LoginAssumption
<1> QED BY <1>2, LoginAssumption DEF Client

LEMMA TypeInit == Init => TypeInv
<1> SUFFICES ASSUME Init PROVE TypeInv
  OBVIOUS
<1>1. 1 \in Client
  BY OneIsAClient
<1>2. Idle \in Call
  BY DEF Idle, Call, Nothing
<1>3. LogOutsOK
  BY DEF Init, LogOutsOK, Idle, Nothing
<1>4. op \in [Op -> Call]
  BY <1>2 DEF Init
<1>5. queue \in Seq(Command) /\ todo \subseteq Command
  BY DEF Init
<1>6. /\ attached \in [Client -> Nat] /\ answers \in Seq(Answer)
      /\ phase \in [Client -> {"none", "init", "open", "loggingOut", "closed", "locked"}]
  BY DEF Init
<1>7. Plain
  BY <1>1, <1>6 DEF Init, Plain
<1> QED BY <1>3, <1>4, <1>5, <1>7, TypeParts DEF TypeInv

\* A step that gives one call a new value and leaves the rest of TypeOK true.
LEMMA CallChanges ==
  ASSUME TypeInv, NEW o \in Op, NEW call \in Call,
         call.cmd.type = "logOut" => call.then = Login,
         op' = [op EXCEPT ![o] = call]
  PROVE  op' \in [Op -> Call] /\ LogOutsOK'
  BY DEF TypeInv, TypeOK, LogOutsOK

LEMMA BeginTypes ==
  ASSUME TypeInv, NEW o \in Op, NEW cmd, NEW then,
         cmd \in Command \cup {[type |-> t, good |-> 0] : t \in HttpType},
         then \in Command \cup {Nothing}, cmd.type = "logOut" => then = Login,
         Begin(o, cmd, then)
  PROVE  op' \in [Op -> Call] /\ LogOutsOK'
<1> DEFINE call == [cmd |-> cmd, pc |-> "ensure", on |-> 0, then |-> then]
<1>1. call \in Call
  BY DEF Call
<1>2. call.cmd.type = "logOut" => call.then = Login
  OBVIOUS
<1>3. op' = [op EXCEPT ![o] = call]
  BY DEF Begin
<1> HIDE DEF call
<1> QED BY <1>1, <1>2, <1>3, CallChanges

LEMMA IdleTypes ==
  ASSUME TypeInv, NEW o \in Op, op' = [op EXCEPT ![o] = Idle]
  PROVE  op' \in [Op -> Call] /\ LogOutsOK'
<1>1. Idle \in Call /\ (Idle.cmd.type = "logOut" => Idle.then = Login)
  BY DEF Idle, Call, Nothing
<1> QED BY <1>1, CallChanges

LEMMA StageTypes ==
  ASSUME TypeInv, NEW o \in Op, NEW pc \in {"ensure", "recreate", "created", "invoke"},
         NEW on \in {0} \cup Client,
         op' = [op EXCEPT ![o].pc = pc, ![o].on = on]
  PROVE  op' \in [Op -> Call] /\ LogOutsOK'
<1> DEFINE call == [op[o] EXCEPT !.pc = pc, !.on = on]
<1>1. call \in Call /\ call.cmd = op[o].cmd /\ call.then = op[o].then
  <2>1. op[o] \in Call
    BY DEF TypeInv, TypeOK
  <2> QED BY <2>1 DEF Call
<1>2. op' = [op EXCEPT ![o] = call]
  BY DEF TypeInv, TypeOK
<1> HIDE DEF call
<1> QED BY <1>1, <1>2, CallFacts, CallChanges

LEMMA ContinueTypes ==
  ASSUME TypeInv, NEW command \in Command \cup {Nothing}, Continue(command)
  PROVE  todo' \subseteq Command
  BY DEF TypeInv, TypeOK, Continue

LEMMA RequestTypes ==
  ASSUME TypeInv, NEW o \in Op,
         \/ SubmitAuthCode(o) \/ SubmitPassword(o) \/ ReauthorizeWorker(o) \/ PollStatus(o)
  PROVE  TypeInv'
<1>1. Plain'
  <2>1. Plain
    BY TypeParts DEF TypeInv
  <2>2. UNCHANGED <<worker, tdlib, answers, authErrorCache, redeliveries, restarts>>
    BY DEF SubmitAuthCode, SubmitPassword, Submit, ReauthorizeWorker, PollStatus, Request,
           nest, messages, bounds
  <2>3. requests' \in {requests, requests + 1}
    BY DEF SubmitAuthCode, SubmitPassword, Submit, ReauthorizeWorker, PollStatus, Request, bounds
  <2>4. mistaken' \in BOOLEAN
    BY <2>1 DEF SubmitAuthCode, SubmitPassword, Submit, ReauthorizeWorker, PollStatus, bounds, Plain
  <2> QED BY <2>1, <2>2, <2>3, <2>4 DEF Plain, worker, tdlib
<1>2. queue' \in Seq(Command) /\ todo' \subseteq Command
  BY DEF TypeInv, TypeOK, SubmitAuthCode, SubmitPassword, Submit, ReauthorizeWorker,
         PollStatus, nest, messages
<1>3. \E cmd, then :
        /\ cmd \in Command \cup {[type |-> t, good |-> 0] : t \in HttpType}
        /\ then \in Command \cup {Nothing} /\ (cmd.type = "logOut" => then = Login)
        /\ Begin(o, cmd, then)
  <2> DEFINE get == [type |-> "getAuthorizationState", good |-> 0]
             out == [type |-> "logOut", good |-> 0]
             Asked(then) == then \in Command \cup {Nothing} /\ Begin(o, get, then)
  <2>1. /\ get \in {[type |-> t, good |-> 0] : t \in HttpType}
        /\ out \in {[type |-> t, good |-> 0] : t \in HttpType}
        /\ get.type # "logOut" /\ Login \in Command
    BY DEF HttpType, Login, Command, QueueType
  <2>2. CASE SubmitAuthCode(o)
    <3>1. PICK good \in {0, attempt} : Submit(o, [type |-> "provideAuthCode", good |-> good])
      BY <2>2 DEF SubmitAuthCode
    <3>2. [type |-> "provideAuthCode", good |-> good] \in Command
      BY <3>1 DEF TypeInv, TypeOK, Command, QueueType
    <3> QED BY <2>1, <3>1, <3>2 DEF Submit, Http
  <2>3. CASE SubmitPassword(o)
    <3>1. PICK good \in {0, 1} : Submit(o, [type |-> "providePassword", good |-> good])
      BY <2>3 DEF SubmitPassword
    <3>2. [type |-> "providePassword", good |-> good] \in Command
      BY DEF Command, QueueType
    <3> QED BY <2>1, <3>1, <3>2 DEF Submit, Http
  <2>4. CASE ReauthorizeWorker(o)
    BY <2>1, <2>4 DEF ReauthorizeWorker, Http
  <2>5. CASE PollStatus(o)
    BY <2>1, <2>5 DEF PollStatus, Http
  <2> QED BY <2>2, <2>3, <2>4, <2>5
<1>4. op' \in [Op -> Call] /\ LogOutsOK'
  BY <1>3, BeginTypes
<1> QED BY <1>1, <1>2, <1>4, TypeParts DEF TypeInv, TypeOK, Plain

LEMMA NestTypes ==
  ASSUME TypeInv,
         \/ LoginWorker \/ HandleResponse \/ ErrorExpires
         \/ \E command \in todo : Dispatch(command)
  PROVE  TypeInv'
<1> USE TypeParts, TypeNext DEF TypeInv
<1>1. CASE LoginWorker
  <2>1. Login \in Command
    BY DEF Login, Command, QueueType
  <2>2. Plain'
    BY <1>1 DEF LoginWorker, Request, Plain, worker, tdlib
  <2> QED BY <1>1, <2>1, <2>2 DEF LoginWorker, LogOutsOK
<1>2. CASE HandleResponse
  <2> DEFINE answer == Head(answers)
  <2>1. answer \in Answer /\ answers' \in Seq(Answer)
    BY <1>2 DEF HandleResponse, Plain
  <2>2. authErrorCache' \in {"none", "provideAuthCode", "providePassword"}
    BY <1>2, <2>1 DEF HandleResponse, Plain, Answer, QueueType
  <2>3. Plain'
    BY <1>2, <2>1, <2>2 DEF HandleResponse, Plain, worker, tdlib, bounds
  <2> QED BY <1>2, <2>3 DEF HandleResponse, LogOutsOK
<1>3. CASE ErrorExpires
  <2>1. Plain'
    BY <1>3 DEF ErrorExpires, Plain, worker, tdlib, messages, bounds
  <2> QED BY <1>3, <2>1 DEF ErrorExpires, LogOutsOK, messages
<1>4. CASE \E command \in todo : Dispatch(command)
  <2>1. PICK command \in todo : Dispatch(command)
    BY <1>4
  <2>2. command \in Command
    BY <2>1
  <2>3. Plain'
    BY <2>1 DEF Dispatch, Plain, worker, tdlib, bounds
  <2> QED BY <2>1, <2>2, <2>3 DEF Dispatch, LogOutsOK
<1> QED BY <1>1, <1>2, <1>3, <1>4

LEMMA WorkerTypes ==
  ASSUME TypeInv, NEW o \in Op, Receive(o) \/ Ensure(o) \/ Recreate(o) \/ Obtain(o)
  PROVE  TypeInv'
<1> USE TypeParts, TypeNext DEF TypeInv
<1>1. CASE Receive(o)
  <2>1. Head(queue) \in Command /\ queue' \in Seq(Command)
    BY <1>1 DEF Receive
  <2>2. Head(queue).type # "logOut"
    BY <2>1 DEF Command, QueueType
  <2>3. op' \in [Op -> Call] /\ LogOutsOK'
    BY <1>1, <2>1, <2>2, BeginTypes DEF Receive
  <2>4. Plain'
    BY <1>1 DEF Receive, Plain, worker, tdlib, bounds
  <2> QED BY <1>1, <2>1, <2>3, <2>4 DEF Receive
<1>2. CASE Ensure(o)
  <2>1. \E pc \in {"ensure", "recreate", "created", "invoke"}, on \in {0} \cup Client :
          op' = [op EXCEPT ![o].pc = pc, ![o].on = on]
    <3>1. CASE isClientClosed
      <4>1. op' = [op EXCEPT ![o].pc = "recreate", ![o].on = op[o].on]
        BY <1>2, <3>1 DEF Ensure, Call
      <4> QED BY <4>1, CallFacts
    <3>2. CASE ~isClientClosed
      <4>1. op' = [op EXCEPT ![o].pc = "invoke", ![o].on = client]
        BY <1>2, <3>2 DEF Ensure
      <4> QED BY <4>1 DEF Plain
    <3> QED BY <3>1, <3>2
  <2>2. op' \in [Op -> Call] /\ LogOutsOK'
    BY <2>1, StageTypes
  <2>3. Plain'
    BY <1>2 DEF Ensure, Plain, worker, tdlib, nest, messages, bounds
  <2> QED BY <1>2, <2>2, <2>3 DEF Ensure, nest, messages
<1>3. CASE Recreate(o)
  <2> DEFINE k == client + 1
  <2>1. /\ k \in Client /\ client' = k
        /\ phase' = [phase EXCEPT ![k] = NewClient(k)]
        /\ attached' = [attached EXCEPT ![k] = updateHandlers]
        /\ updateHandlers' = updateHandlers /\ isClientClosed' = FALSE
        /\ UNCHANGED <<twice, stored, attempt, queue, answers, authErrorCache, bounds>>
    BY <1>3 DEF Recreate, Registered, FlagAfterRecreation
  <2>2. NewClient(k) \in {"locked", "init"}
    BY DEF NewClient
  <2>3. Plain'
    BY <2>1, <2>2 DEF Plain, bounds
  <2>4. op' \in [Op -> Call] /\ LogOutsOK' /\ todo' \subseteq Command
    <3>1. CASE op[o].cmd.type = "logOut"
      BY <1>3, <3>1, CallFacts, ContinueTypes, IdleTypes DEF Recreate
    <3>2. CASE op[o].cmd.type # "logOut"
      <4>1. op' = [op EXCEPT ![o].pc = "created", ![o].on = op[o].on] /\ todo' = todo
        BY <1>3, <3>2 DEF Recreate, Call
      <4> QED BY <4>1, CallFacts, StageTypes
    <3> QED BY <3>1, <3>2
  <2> QED BY <2>1, <2>3, <2>4
<1>4. CASE Obtain(o)
  <2>1. op' \in [Op -> Call] /\ LogOutsOK'
    BY <1>4, StageTypes DEF Obtain, Plain
  <2>2. Plain'
    BY <1>4 DEF Obtain, Plain, worker, tdlib, nest, messages, bounds
  <2> QED BY <1>4, <2>1, <2>2 DEF Obtain, nest, messages
<1> QED BY <1>1, <1>2, <1>3, <1>4

LEMMA InvokeTypes ==
  ASSUME TypeInv, NEW o \in Op,
         \/ InvokeGetState(o) \/ InvokeLogOut(o) \/ InvokeLogin(o)
         \/ InvokeCheckCode(o) \/ InvokeCheckPassword(o)
  PROVE  TypeInv'
<1> USE TypeParts, TypeNext DEF TypeInv
<1>1. op' \in [Op -> Call] /\ LogOutsOK'
  <2>1. op' = [op EXCEPT ![o] = Idle]
    BY DEF InvokeGetState, InvokeLogOut, InvokeLogin, InvokeCheckCode, InvokeCheckPassword,
           Invoking
  <2> QED BY <2>1, IdleTypes
<1>2. ASSUME NEW type \in QueueType \ {"login"}, NEW error \in {"none", "invalid", "other"},
             Reply(type, error)
      PROVE  answers' \in Seq(Answer)
  <2>1. [type |-> type, error |-> error] \in Answer
    BY DEF Answer
  <2> QED BY <1>2, <2>1 DEF Reply, Plain
<1>3. CASE InvokeGetState(o)
  <2>1. todo' \subseteq Command
    <3> DEFINE awaited == [provideAuthCode |-> "code", providePassword |-> "password"]
               command == op[o].then
               goes == command # Nothing /\ Open(o) /\ stored = awaited[command.type]
    <3>1. Continue(IF goes THEN command ELSE Nothing)
      BY <1>3 DEF InvokeGetState
    <3>2. (IF goes THEN command ELSE Nothing) \in Command \cup {Nothing}
      BY CallFacts
    <3> HIDE DEF goes
    <3> QED BY <3>1, <3>2, ContinueTypes
  <2>2. Plain'
    BY <1>3 DEF InvokeGetState, Plain, worker, tdlib, bounds
  <2> QED BY <1>1, <1>3, <2>1, <2>2 DEF InvokeGetState
<1>4. CASE InvokeLogOut(o)
  <2>1. todo' \subseteq Command
    BY <1>4, CallFacts, ContinueTypes DEF InvokeLogOut
  <2>2. Plain'
    BY <1>4 DEF InvokeLogOut, Plain, worker, bounds
  <2> QED BY <1>1, <1>4, <2>1, <2>2 DEF InvokeLogOut
<1>5. CASE InvokeLogin(o)
  <2>1. answers' \in Seq(Answer) /\ UNCHANGED <<queue, todo>>
    BY <1>5 DEF InvokeLogin, messages, Plain
  <2>2. stored' \in {"phone", "code", "password", "ready"} /\ attempt' \in Nat
    BY <1>5 DEF InvokeLogin, Plain
  <2>3. Plain'
    BY <1>5, <2>1, <2>2 DEF InvokeLogin, Plain, worker, bounds
  <2> QED BY <1>1, <1>5, <2>1, <2>3
<1>6. CASE InvokeCheckCode(o)
  <2>1. answers' \in Seq(Answer)
    BY <1>2, <1>6 DEF InvokeCheckCode, QueueType
  <2>2. stored' \in {"phone", "code", "password", "ready"}
    BY <1>6 DEF InvokeCheckCode, Plain
  <2>3. Plain'
    BY <1>6, <2>1, <2>2 DEF InvokeCheckCode, Plain, worker, bounds
  <2> QED BY <1>1, <1>6, <2>3 DEF InvokeCheckCode
<1>7. CASE InvokeCheckPassword(o)
  <2>1. answers' \in Seq(Answer)
    BY <1>2, <1>7 DEF InvokeCheckPassword, QueueType
  <2>2. stored' \in {"phone", "code", "password", "ready"}
    BY <1>7 DEF InvokeCheckPassword, Plain
  <2>3. Plain'
    BY <1>7, <2>1, <2>2 DEF InvokeCheckPassword, Plain, worker, bounds
  <2> QED BY <1>1, <1>7, <2>3 DEF InvokeCheckPassword
<1> QED BY <1>3, <1>4, <1>5, <1>6, <1>7

LEMMA WorldTypes ==
  ASSUME TypeInv,
         \/ \E k \in Client : Initialized(k) \/ Closed(k)
         \/ \E o \in Op : Redeliver(o)
  PROVE  TypeInv'
<1> USE TypeParts, TypeNext DEF TypeInv
<1>1. ASSUME NEW k \in Client, Initialized(k) PROVE TypeInv'
  <2>1. Plain'
    BY <1>1 DEF Initialized, Plain, nest, messages, bounds
  <2> QED BY <1>1, <2>1 DEF Initialized, LogOutsOK, nest, messages
<1>2. ASSUME NEW k \in Client, Closed(k) PROVE TypeInv'
  <2>1. Plain'
    BY <1>2 DEF Closed, SeesClosed, Plain, nest, messages, bounds
  <2> QED BY <1>2, <2>1 DEF Closed, LogOutsOK, nest, messages
<1>3. ASSUME NEW o \in Op, Redeliver(o) PROVE TypeInv'
  <2>1. <<op[o].cmd>> \in Seq(Command)
    BY <1>3 DEF Redeliver
  <2>2. queue' \in Seq(Command)
    BY <1>3, <2>1, ConcatProperties DEF Redeliver
  <2>3. Plain'
    BY <1>3 DEF Redeliver, Plain, worker, tdlib
  <2> QED BY <1>3, <2>2, <2>3 DEF Redeliver, LogOutsOK
<1> QED BY <1>1, <1>2, <1>3

\* The commands a worker that dies was carrying out.
RunningCommands == {op[o].cmd : o \in {p \in Op : op[p].cmd \in Command}}

LEMMA RunningListed ==
  /\ SetToSeq(RunningCommands) \in Seq(RunningCommands)
  /\ RunningCommands \subseteq Command
<1> DEFINE running == {p \in Op : op[p].cmd \in Command}
<1>1. IsFiniteSet(running)
  BY LoginAssumption, FS_Subset
<1>2. IsFiniteSet(RunningCommands)
  <2>1. RunningCommands = {op[o].cmd : o \in running}
    BY DEF RunningCommands
  <2> HIDE DEF running
  <2> DEFINE f == [o \in running |-> op[o].cmd]
  <2>2. f \in Surjection(running, RunningCommands)
    BY <2>1 DEF Surjection
  <2> QED BY <1>1, <2>2, FS_Surjection
<1> QED BY <1>2, SetToSeqOf DEF RunningCommands

LEMMA RestartTypes == TypeInv /\ WorkerRestarts => TypeInv'
<1> SUFFICES ASSUME TypeInv, WorkerRestarts PROVE TypeInv'
  OBVIOUS
<1> USE TypeParts, TypeNext DEF TypeInv
<1>1. queue' \in Seq(Command)
  <2>1. SetToSeq(RunningCommands) \in Seq(Command)
    BY RunningListed, SeqMonotonic
  <2>2. queue' = SetToSeq(RunningCommands) \o queue
    BY DEF WorkerRestarts, RunningCommands
  <2> QED BY <2>1, <2>2, ConcatProperties
<1>2. todo' \subseteq Command
  <2>1. \A o \in Op : op[o].cmd.type = "logOut" => op[o].then \in Command
    BY CallFacts DEF Login, Command, QueueType
  <2> QED BY <2>1 DEF WorkerRestarts
<1>3. op' \in [Op -> Call] /\ LogOutsOK'
  <2>1. Idle \in Call /\ Idle.cmd.type # "logOut"
    BY DEF Idle, Call, Nothing
  <2> QED BY <2>1 DEF WorkerRestarts, LogOutsOK
<1>4. Plain'
  <2> DEFINE k == client + 1
  <2>1. /\ k \in Client /\ client' = k /\ isClientClosed' = FALSE /\ updateHandlers' = 1
        /\ attached' = [attached EXCEPT ![k] = 1] /\ twice' = FALSE
        /\ restarts' = restarts + 1
        /\ UNCHANGED <<attempt, answers, authErrorCache, requests, redeliveries, mistaken>>
    BY DEF WorkerRestarts
  <2>2. phase' \in [Client -> {"none", "init", "open", "loggingOut", "closed", "locked"}]
    BY DEF WorkerRestarts
  <2>3. stored' \in {"phone", "code", "password", "ready"}
    BY DEF WorkerRestarts, Plain
  <2>4. Plain
    OBVIOUS
  <2>5. attached' \in [Client -> Nat] /\ restarts' \in Nat
    BY <2>1, <2>4 DEF Plain
  <2> HIDE DEF k
  <2> QED BY ONLY <2>1, <2>2, <2>3, <2>4, <2>5 DEF Plain
<1> QED BY <1>1, <1>2, <1>3, <1>4

LEMMA TypeStep == TypeInv /\ [Next]_vars => TypeInv'
<1> SUFFICES ASSUME TypeInv, [Next]_vars PROVE TypeInv'
  OBVIOUS
<1>1. CASE Next
  BY <1>1, RequestTypes, NestTypes, WorkerTypes, InvokeTypes, WorldTypes, RestartTypes
     DEF Next, Dashboard, Steps, Poll
<1>2. CASE UNCHANGED vars
  BY <1>2 DEF TypeInv, TypeOK, LogOutsOK, vars, worker, tdlib, nest, messages, bounds
<1> QED BY <1>1, <1>2

LEMMA Types == Spec => []TypeInv
  BY TypeInit, TypeStep, PTL DEF Spec

\* Every variable of worker, TDLib, queue and nest_api has its type.
THEOREM TypeCorrect == Spec => []TypeOK
<1>1. TypeInv => TypeOK
  BY DEF TypeInv
<1> QED BY <1>1, Types, PTL

(***************************************************************************)
(* One client, its handlers once                                           *)
(***************************************************************************)
HandlersInv == updateHandlers = 1 /\ attached[client] = 1

LEMMA HandlersStep == TypeInv /\ HandlersInv /\ [Next]_vars => HandlersInv'
<1> SUFFICES ASSUME TypeInv, HandlersInv, [Next]_vars PROVE HandlersInv'
  OBVIOUS
<1>1. CASE \E o \in Op : Recreate(o)
  <2>1. PICK o \in Op : Recreate(o)
    BY <1>1
  <2>2. /\ client' \in Client /\ attached' = [attached EXCEPT ![client'] = updateHandlers]
        /\ updateHandlers' = updateHandlers
    BY <2>1 DEF Recreate, Registered
  <2> QED BY <2>2 DEF HandlersInv, TypeInv, TypeOK
<1>2. CASE WorkerRestarts
  <2>1. /\ client' \in Client /\ attached' = [attached EXCEPT ![client'] = 1]
        /\ updateHandlers' = 1
    BY <1>2 DEF WorkerRestarts
  <2> QED BY <2>1 DEF HandlersInv, TypeInv, TypeOK
<1>3. CASE UNCHANGED <<client, updateHandlers, attached>>
  BY <1>3 DEF HandlersInv
<1>4. \/ \E o \in Op : Recreate(o)
      \/ WorkerRestarts
      \/ UNCHANGED <<client, updateHandlers, attached>>
  BY DEF Next, Dashboard, Steps, Poll, vars, worker, SubmitAuthCode, SubmitPassword, Submit,
         ReauthorizeWorker, LoginWorker, ErrorExpires, Receive, Ensure, Obtain, InvokeGetState,
         InvokeLogOut, InvokeLogin, InvokeCheckCode, InvokeCheckPassword, Initialized, Closed,
         Dispatch, HandleResponse, PollStatus, Redeliver
<1> QED BY <1>1, <1>2, <1>3, <1>4

\* recreateClient attaches what onUpdate collected and collects nothing: the client in use
\* has each handler once, after any number of logouts and restarts.
THEOREM HandlersStayAttachedOnce == Spec => []HandlersAttachedOnce
<1>1. Init => HandlersInv
  <2>1. 1 \in Client
    BY OneIsAClient
  <2> QED BY <2>1 DEF Init, HandlersInv
<1>2. HandlersInv => HandlersAttachedOnce
  BY DEF HandlersInv, HandlersAttachedOnce
<1> QED BY <1>1, <1>2, HandlersStep, Types, PTL DEF Spec

\* Clients are made one after another.
Numbered == \A k \in Client : phase[k] # "none" => k <= client

\* Only the last may hold the database, and not once it counts as closed; and a call that
\* makes another client found it closed, alone.
Alone ==
  /\ \A k \in Client : Holds(k) => k = client
  /\ isClientClosed => ~Holds(client)
  /\ \A o \in Op : op[o].pc = "recreate" => isClientClosed
  /\ \A o, p \in Op : op[o].pc = "recreate" /\ op[p].pc = "recreate" => o = p

HolderInv == Numbered /\ (~twice => Alone)

LEMMA HolderInit == Init => HolderInv
<1> SUFFICES ASSUME Init PROVE HolderInv
  OBVIOUS
<1>1. \A k \in Client : phase[k] = IF k = 1 THEN "open" ELSE "none"
  BY DEF Init
<1>2. \A o \in Op : op[o].pc = "idle"
  BY DEF Init, Idle
<1> QED BY <1>1, <1>2 DEF Init, HolderInv, Numbered, Alone, Holds, Client

\* Steps that leave the clients alone and make no call that makes one.
LEMMA HolderKept ==
  ASSUME Alone, UNCHANGED <<client, isClientClosed, phase>>,
         \A o \in Op : op'[o].pc = "recreate" => op[o].pc = "recreate"
  PROVE  Alone'
  BY DEF Alone, Numbered, Holds

LEMMA HolderEnsure ==
  ASSUME TypeInv, Alone, NEW o \in Op, Ensure(o), ~twice'
  PROVE  Alone'
<1>1. UNCHANGED <<client, isClientClosed, phase>>
  BY DEF Ensure, worker, tdlib
<1>2. \A p \in Op \ {o} : op'[p] = op[p]
  BY DEF Ensure, TypeInv, TypeOK
<1>3. op'[o].pc = "recreate"
        => isClientClosed /\ \A p \in Op \ {o} : op[p].pc # "recreate"
  BY DEF Ensure, TypeInv, TypeOK, Call
<1> QED BY <1>1, <1>2, <1>3 DEF Alone, Numbered, Holds

\* The client found closed holds nothing, so the new one gets the database.
LEMMA HolderRecreate ==
  ASSUME TypeInv, Numbered, Alone, NEW o \in Op, Recreate(o)
  PROVE  Alone'
<1> DEFINE k == client + 1
<1>1. /\ k \in Client /\ client' = k /\ isClientClosed' = FALSE
      /\ phase' = [phase EXCEPT ![k] = NewClient(k)]
      /\ client \in Nat
  BY DEF Recreate, FlagAfterRecreation, TypeInv, TypeOK, Client
<1>2. \A j \in Client : ~Holds(j)
  BY DEF Recreate, Alone
<1>3. \A p \in Op : op'[p].pc # "recreate"
  <2>1. \A p \in Op \ {o} : op[p].pc # "recreate" /\ op'[p] = op[p]
    BY DEF Recreate, Alone, TypeInv, TypeOK
  <2>2. op'[o].pc # "recreate"
    BY DEF Recreate, TypeInv, TypeOK, Call, Idle
  <2> QED BY <2>1, <2>2
<1>4. \A j \in Client : phase'[j] = IF j = k THEN "init" ELSE phase[j]
  BY <1>1, <1>2 DEF NewClient, TypeInv, TypeOK
<1>5. \A j \in Client : j \in Nat /\ (phase[j] # "none" => j <= client)
  BY DEF Alone, Numbered, Client
<1> QED BY <1>1, <1>2, <1>3, <1>4, <1>5 DEF Alone, Numbered, Holds

LEMMA HolderLogOut ==
  ASSUME TypeInv, Numbered, Alone, NEW o \in Op, InvokeLogOut(o)
  PROVE  Alone'
<1>1. UNCHANGED <<client, isClientClosed>> /\ op' = [op EXCEPT ![o] = Idle]
  BY DEF InvokeLogOut, Invoking, worker
<1>2. \A p \in Op : op'[p].pc = "recreate" => op[p].pc = "recreate"
  BY <1>1 DEF TypeInv, TypeOK, Idle
<1>3. \A j \in Client : \/ phase'[j] = phase[j]
                        \/ (phase[j] = "open" /\ phase'[j] = "loggingOut")
  <2>1. CASE Open(o)
    <3>1. phase' = [phase EXCEPT ![op[o].on] = "loggingOut"]
      BY <2>1 DEF InvokeLogOut
    <3>2. \A j \in Client : phase'[j] = IF j = op[o].on THEN "loggingOut" ELSE phase[j]
      BY <3>1 DEF TypeInv, TypeOK
    <3> QED BY <2>1, <3>2 DEF Open
  <2>2. CASE ~Open(o)
    BY <2>2 DEF InvokeLogOut
  <2> QED BY <2>1, <2>2
<1>4. client \in Client
  BY DEF TypeInv, TypeOK
<1> QED BY <1>1, <1>2, <1>3, <1>4 DEF Alone, Numbered, Holds

LEMMA HolderUpdates ==
  ASSUME TypeInv, Numbered, Alone, NEW k \in Client, Initialized(k) \/ Closed(k)
  PROVE  Alone'
<1>1. UNCHANGED <<client, op>> /\ Holds(k)
  BY DEF Initialized, Closed, Holds
<1>2. k = client /\ ~isClientClosed /\ \A o \in Op : op[o].pc # "recreate"
  BY <1>1 DEF Alone, Numbered
<1>3. \A j \in Client : j # k => phase'[j] = phase[j]
  BY DEF Initialized, Closed, TypeInv, TypeOK
<1>4. CASE Initialized(k)
  BY <1>1, <1>2, <1>3, <1>4 DEF Initialized, Alone, Holds
<1>5. CASE Closed(k)
  <2>1. phase'[k] = "closed"
    BY <1>5 DEF Closed, TypeInv, TypeOK
  <2> QED BY <1>1, <1>2, <1>3, <2>1 DEF Alone, Numbered, Holds
<1> QED BY <1>4, <1>5

LEMMA HolderRestart ==
  ASSUME TypeInv, Numbered, WorkerRestarts
  PROVE  Alone'
<1> DEFINE k == client + 1
<1>1. /\ k \in Client /\ client' = k /\ isClientClosed' = FALSE /\ client \in Nat
      /\ \A j \in Client : phase'[j] = IF j = k THEN "init"
                                       ELSE IF phase[j] = "none" THEN "none" ELSE "closed"
  BY DEF WorkerRestarts, TypeInv, TypeOK, Client
<1>2. \A p \in Op : op'[p].pc = "idle"
  BY DEF WorkerRestarts, Idle
<1>3. \A j \in Client : j \in Nat /\ (phase[j] # "none" => j <= client)
  BY DEF Numbered, Client
<1> QED BY <1>1, <1>2, <1>3 DEF Alone, Holds

\* The remaining steps make a call, end one, or touch messages only.
LEMMA HolderOthers ==
  ASSUME TypeInv, Alone,
         \/ \E o \in Op :
              \/ SubmitAuthCode(o) \/ SubmitPassword(o) \/ ReauthorizeWorker(o)
              \/ PollStatus(o) \/ Receive(o) \/ Obtain(o) \/ InvokeGetState(o) \/ InvokeLogin(o)
              \/ InvokeCheckCode(o) \/ InvokeCheckPassword(o) \/ Redeliver(o)
         \/ LoginWorker \/ ErrorExpires \/ HandleResponse
         \/ \E command \in todo : Dispatch(command)
  PROVE  Alone'
<1>1. UNCHANGED <<client, isClientClosed, phase>>
  BY DEF SubmitAuthCode, SubmitPassword, Submit, ReauthorizeWorker, PollStatus, Receive,
         Obtain, InvokeGetState, InvokeLogin, InvokeCheckCode, InvokeCheckPassword, Redeliver,
         LoginWorker, ErrorExpires, HandleResponse, Dispatch, worker, tdlib
<1>2. ASSUME NEW o \in Op, NEW cmd, NEW then, Begin(o, cmd, then)
      PROVE  \A p \in Op : op'[p].pc = "recreate" => op[p].pc = "recreate"
  BY <1>2 DEF Begin, TypeInv, TypeOK
<1>3. ASSUME NEW o \in Op, NEW type, Invoking(o, type)
      PROVE  \A p \in Op : op'[p].pc = "recreate" => op[p].pc = "recreate"
  BY <1>3 DEF Invoking, Idle, TypeInv, TypeOK
<1>4. \A p \in Op : op'[p].pc = "recreate" => op[p].pc = "recreate"
  <2>1. CASE \E o \in Op : SubmitAuthCode(o) \/ SubmitPassword(o) \/ ReauthorizeWorker(o)
                         \/ PollStatus(o) \/ Receive(o)
    BY <1>2, <2>1 DEF SubmitAuthCode, SubmitPassword, Submit, ReauthorizeWorker, PollStatus,
                      Receive, Http
  <2>2. CASE \E o \in Op : InvokeGetState(o) \/ InvokeLogin(o)
                         \/ InvokeCheckCode(o) \/ InvokeCheckPassword(o)
    BY <1>3, <2>2 DEF InvokeGetState, InvokeLogin, InvokeCheckCode, InvokeCheckPassword
  <2>3. CASE \E o \in Op : Obtain(o)
    BY <2>3 DEF Obtain, TypeInv, TypeOK, Call
  <2>4. CASE UNCHANGED op
    BY <2>4
  <2> QED BY <2>1, <2>2, <2>3, <2>4 DEF Redeliver, LoginWorker, ErrorExpires, HandleResponse, Dispatch
<1> QED BY <1>1, <1>4, HolderKept

LEMMA NumberedStep == TypeInv /\ Numbered /\ [Next]_vars => Numbered'
<1> SUFFICES ASSUME TypeInv, Numbered, [Next]_vars PROVE Numbered'
  OBVIOUS
<1>1. client \in Nat /\ \A j \in Client : j \in Nat /\ (phase[j] # "none" => j <= client)
  BY DEF Numbered, TypeInv, TypeOK, Client
<1>2. CASE client' = client /\ \A j \in Client : phase'[j] # "none" => phase[j] # "none"
  BY <1>1, <1>2 DEF Numbered
<1>3. CASE \E o \in Op : Recreate(o)
  <2>1. client' = client + 1 /\ phase' = [phase EXCEPT ![client + 1] = NewClient(client + 1)]
    BY <1>3 DEF Recreate
  <2>2. \A j \in Client : j # client + 1 => phase'[j] = phase[j]
    BY <2>1 DEF TypeInv, TypeOK
  <2> QED BY <1>1, <2>1, <2>2 DEF Numbered
<1>4. CASE WorkerRestarts
  <2>1. /\ client' = client + 1
        /\ \A j \in Client : phase'[j] = IF j = client + 1 THEN "init"
                                         ELSE IF phase[j] = "none" THEN "none" ELSE "closed"
    BY <1>4 DEF WorkerRestarts
  <2> QED BY <1>1, <2>1 DEF Numbered
<1>5. CASE \E o \in Op : InvokeLogOut(o)
  <2>1. PICK o \in Op : InvokeLogOut(o)
    BY <1>5
  <2>2. CASE Open(o)
    <3>1. client' = client /\ phase' = [phase EXCEPT ![op[o].on] = "loggingOut"]
      BY <2>1, <2>2 DEF InvokeLogOut, worker
    <3>2. \A j \in Client : phase'[j] = IF j = op[o].on THEN "loggingOut" ELSE phase[j]
      BY <3>1 DEF TypeInv, TypeOK
    <3> QED BY <1>2, <2>2, <3>1, <3>2 DEF Open
  <2>3. CASE ~Open(o)
    BY <1>2, <2>1, <2>3 DEF InvokeLogOut, worker
  <2> QED BY <2>2, <2>3
<1>6. CASE \E k \in Client : Initialized(k) \/ Closed(k)
  <2>1. PICK k \in Client : Initialized(k) \/ Closed(k)
    BY <1>6
  <2>2. client' = client /\ phase[k] # "none" /\ \A j \in Client : j # k => phase'[j] = phase[j]
    BY <2>1 DEF Initialized, Closed, TypeInv, TypeOK
  <2> QED BY <1>2, <2>2
<1>7. CASE UNCHANGED <<client, phase>>
  BY <1>2, <1>7
<1> QED
  BY <1>3, <1>4, <1>5, <1>6, <1>7
  DEF Next, Dashboard, Steps, Poll, vars, worker, tdlib, SubmitAuthCode, SubmitPassword, Submit,
      ReauthorizeWorker, LoginWorker, ErrorExpires, Receive, Ensure, Obtain, InvokeGetState,
      InvokeLogin, InvokeCheckCode, InvokeCheckPassword, Dispatch, HandleResponse, PollStatus,
      Redeliver

\* Only a restart forgets that two calls replaced a client at once.
LEMMA TwiceKept ==
  ASSUME TypeInv, Next, twice, ~twice'
  PROVE  WorkerRestarts
  BY DEF Next, Dashboard, Steps, Poll, worker, SubmitAuthCode, SubmitPassword, Submit,
         ReauthorizeWorker, LoginWorker, ErrorExpires, Receive, Ensure, Recreate, Obtain,
         InvokeGetState, InvokeLogOut, InvokeLogin, InvokeCheckCode, InvokeCheckPassword,
         Initialized, Closed, Dispatch, HandleResponse, PollStatus, Redeliver

LEMMA HolderStep == TypeInv /\ HolderInv /\ [Next]_vars => HolderInv'
<1> SUFFICES ASSUME TypeInv, HolderInv, [Next]_vars PROVE HolderInv'
  OBVIOUS
<1>1. Numbered /\ Numbered'
  BY NumberedStep DEF HolderInv
<1>2. ASSUME ~twice', Next PROVE Alone'
  <2>1. CASE WorkerRestarts
    BY <1>1, <2>1, HolderRestart
  <2>2. CASE ~WorkerRestarts
    <3>1. Alone
      BY <1>2, <2>2, TwiceKept DEF HolderInv
    <3> QED BY <1>1, <1>2, <2>2, <3>1, HolderOthers, HolderEnsure, HolderRecreate,
               HolderLogOut, HolderUpdates DEF Next, Dashboard, Steps, Poll
  <2> QED BY <2>1, <2>2
<1>3. ASSUME ~twice', UNCHANGED vars PROVE Alone'
  BY <1>3, HolderKept DEF HolderInv, vars, worker, tdlib
<1> QED BY <1>1, <1>2, <1>3 DEF HolderInv

\* No interleaving of calls, logouts and restarts lets a client other than the worker's hold
\* its database, unless since the worker started two calls replaced one client at once.
THEOREM OneClientHoldsTheDatabase == Spec => []OneClientPerDatabase
<1>1. HolderInv => OneClientPerDatabase
  BY DEF HolderInv, Alone, OneClientPerDatabase
<1> QED BY <1>1, HolderInit, HolderStep, Types, PTL DEF Spec

(***************************************************************************)
(* No error for the right code                                             *)
(***************************************************************************)
\* A code is right when it was sent for an attempt, a password when it is the user's.
Right(c) ==
  /\ c.type = "provideAuthCode" => c.good \in 1 .. attempt
  /\ c.type = "providePassword" => c.good = 1

RightCommand == {c \in Command : Right(c)}
Refusal == {a \in Answer : a.error = "invalid"}

\* Of a user who made no mistake every command under way is right, wherever it is.
CommandsInv ==
  ~mistaken =>
    /\ todo \subseteq RightCommand /\ queue \in Seq(RightCommand)
    /\ \A o \in Op : Right(op[o].cmd) /\ Right(op[o].then)

\* While one code was sent, none of the answers refuses one.
ErrorsInv ==
  ~mistaken /\ attempt <= 1 => answers \in Seq(Answer \ Refusal) /\ authErrorCache = "none"

LEMMA RightGrows ==
  ASSUME attempt \in Nat, attempt' \in Nat, attempt <= attempt'
  PROVE  /\ \A c : Right(c) => Right(c)'
         /\ RightCommand \subseteq RightCommand'
         /\ Seq(RightCommand) \subseteq Seq(RightCommand')
<1>1. \A c : Right(c) => Right(c)'
  BY DEF Right
<1>2. RightCommand \subseteq RightCommand'
  BY <1>1 DEF RightCommand
<1> QED BY <1>1, <1>2, SeqMonotonic

LEMMA NothingIsRight == Right(Nothing) /\ Right(Login)
  BY DEF Right, Nothing, Login

LEMMA RightInit == Init => CommandsInv /\ ErrorsInv
<1> SUFFICES ASSUME Init PROVE CommandsInv /\ ErrorsInv
  OBVIOUS
<1>1. \A o \in Op : op[o].cmd = Nothing /\ op[o].then = Nothing
  BY DEF Init, Idle
<1> QED BY <1>1, NothingIsRight DEF Init, CommandsInv, ErrorsInv

\* A user's request starts a call whose command is right unless it was a mistake.
LEMMA RightRequests ==
  ASSUME TypeInv, CommandsInv, NEW o \in Op,
         \/ SubmitAuthCode(o) \/ SubmitPassword(o) \/ ReauthorizeWorker(o) \/ PollStatus(o)
  PROVE  CommandsInv'
<1>1. UNCHANGED <<attempt, todo, queue>> /\ (mistaken => mistaken')
  <2>1. UNCHANGED <<attempt, todo, queue>>
    BY DEF SubmitAuthCode, SubmitPassword, Submit, ReauthorizeWorker, PollStatus, tdlib, nest,
           messages
  <2>2. mistaken' = mistaken \/ \E good : mistaken' = (mistaken \/ good = 0)
    BY DEF SubmitAuthCode, SubmitPassword, Submit, ReauthorizeWorker, PollStatus, bounds
  <2>3. CASE mistaken' = mistaken
    BY <2>1, <2>3
  <2>4. ASSUME NEW good, mistaken' = (mistaken \/ good = 0) PROVE mistaken => mistaken'
    BY <2>4
  <2> QED BY <2>1, <2>2, <2>3, <2>4
<1>2. \E cmd, then : Begin(o, cmd, then) /\ (~mistaken' => Right(cmd) /\ Right(then))
  <2>1. /\ Right([type |-> "getAuthorizationState", good |-> 0])
        /\ Right([type |-> "logOut", good |-> 0])
    BY DEF Right
  <2>2. CASE SubmitAuthCode(o)
    <3>1. PICK good \in {0, attempt} : Submit(o, [type |-> "provideAuthCode", good |-> good])
      BY <2>2 DEF SubmitAuthCode
    <3>2. ~mistaken' => Right([type |-> "provideAuthCode", good |-> good])
      <4>1. mistaken' = (mistaken \/ good = 0) /\ attempt > 0 /\ attempt \in Nat
        BY <2>2, <3>1 DEF SubmitAuthCode, Submit, TypeInv, TypeOK
      <4>2. ~mistaken' => good = attempt
        BY <3>1, <4>1
      <4> QED BY <4>1, <4>2 DEF Right
    <3> QED BY <2>1, <3>1, <3>2 DEF Submit, Http
  <2>3. CASE SubmitPassword(o)
    <3>1. PICK good \in {0, 1} : Submit(o, [type |-> "providePassword", good |-> good])
      BY <2>3 DEF SubmitPassword
    <3>2. ~mistaken' => Right([type |-> "providePassword", good |-> good])
      BY <3>1 DEF Submit, Right
    <3> QED BY <2>1, <3>1, <3>2 DEF Submit, Http
  <2>4. CASE ReauthorizeWorker(o)
    BY <2>1, <2>4, NothingIsRight DEF ReauthorizeWorker, Http
  <2>5. CASE PollStatus(o)
    BY <2>1, <2>5, NothingIsRight DEF PollStatus, Http
  <2> QED BY <2>2, <2>3, <2>4, <2>5
<1>3. ASSUME ~mistaken' PROVE \A p \in Op : Right(op'[p].cmd) /\ Right(op'[p].then)
  <2>1. PICK cmd, then : Begin(o, cmd, then) /\ Right(cmd) /\ Right(then)
    BY <1>2, <1>3
  <2>2. \A p \in Op : \/ op'[p] = op[p]
                     \/ (op'[p].cmd = cmd /\ op'[p].then = then)
    BY <2>1 DEF Begin, TypeInv, TypeOK
  <2> QED BY <1>1, <1>3, <2>1, <2>2 DEF CommandsInv
<1> QED BY <1>1, <1>3 DEF CommandsInv, RightCommand, Right

LEMMA RightMessages ==
  ASSUME TypeInv, CommandsInv,
         \/ LoginWorker \/ HandleResponse \/ ErrorExpires
         \/ \E command \in todo : Dispatch(command)
  PROVE  CommandsInv'
<1>1. UNCHANGED <<attempt, op, mistaken>>
  BY DEF LoginWorker, HandleResponse, ErrorExpires, Dispatch, tdlib, bounds
<1>2. RightCommand' = RightCommand /\ Login \in RightCommand
  BY <1>1, NothingIsRight DEF RightCommand, Right, Login, Command, QueueType
<1>3. ASSUME ~mistaken
      PROVE  todo' \subseteq RightCommand /\ queue' \in Seq(RightCommand)
  <2>1. todo \subseteq RightCommand /\ queue \in Seq(RightCommand)
    BY <1>3 DEF CommandsInv
  <2>2. CASE LoginWorker
    BY <1>2, <2>1, <2>2 DEF LoginWorker
  <2>3. CASE HandleResponse \/ ErrorExpires
    BY <2>1, <2>3 DEF HandleResponse, ErrorExpires, messages
  <2>4. CASE \E command \in todo : Dispatch(command)
    BY <2>1, <2>4 DEF Dispatch
  <2> QED BY <2>2, <2>3, <2>4
<1> QED BY <1>1, <1>2, <1>3 DEF CommandsInv, Right

LEMMA RightContinues ==
  ASSUME CommandsInv, ~mistaken, NEW command \in Command \cup {Nothing}, Right(command),
         Continue(command)
  PROVE  todo' \subseteq RightCommand
  BY DEF CommandsInv, Continue, RightCommand

LEMMA RightWorker ==
  ASSUME TypeInv, CommandsInv, NEW o \in Op, Receive(o) \/ Ensure(o) \/ Recreate(o) \/ Obtain(o)
  PROVE  CommandsInv'
<1>1. UNCHANGED <<attempt, mistaken>>
  BY DEF Receive, Ensure, Recreate, Obtain, tdlib, bounds
<1>2. RightCommand' = RightCommand
  BY <1>1 DEF RightCommand, Right
<1>3. ASSUME ~mistaken
      PROVE  /\ todo' \subseteq RightCommand /\ queue' \in Seq(RightCommand)
             /\ \A p \in Op : Right(op'[p].cmd) /\ Right(op'[p].then)
  <2>1. /\ todo \subseteq RightCommand /\ queue \in Seq(RightCommand)
        /\ \A p \in Op : Right(op[p].cmd) /\ Right(op[p].then)
    BY <1>3 DEF CommandsInv
  <2>2. CASE Receive(o)
    <3>1. /\ Head(queue) \in RightCommand /\ queue' \in Seq(RightCommand)
          /\ todo' = todo
      BY <2>1, <2>2 DEF Receive
    <3>2. \A p \in Op : \/ op'[p] = op[p]
                       \/ (op'[p].cmd = Head(queue) /\ op'[p].then = Nothing)
      BY <2>2 DEF Receive, Begin, TypeInv, TypeOK
    <3> QED BY <2>1, <3>1, <3>2, NothingIsRight DEF RightCommand
  <2>3. CASE Ensure(o) \/ Obtain(o)
    <3>1. \A p \in Op : op'[p].cmd = op[p].cmd /\ op'[p].then = op[p].then
      <4>1. CASE Ensure(o)
        BY <4>1 DEF Ensure, TypeInv, TypeOK, Call
      <4>2. CASE Obtain(o)
        BY <4>2 DEF Obtain, TypeInv, TypeOK, Call
      <4> QED BY <2>3, <4>1, <4>2
    <3> QED BY <2>1, <2>3, <3>1 DEF Ensure, Obtain, nest, messages
  <2>4. CASE Recreate(o)
    <3>1. \A p \in Op : \/ (op'[p].cmd = op[p].cmd /\ op'[p].then = op[p].then)
                       \/ (op'[p].cmd = Nothing /\ op'[p].then = Nothing)
      <4>1. \/ op' = [op EXCEPT ![o] = Idle]
            \/ op' = [op EXCEPT ![o].pc = "created"]
        BY <2>4 DEF Recreate
      <4>2. CASE op' = [op EXCEPT ![o] = Idle]
        BY <4>2 DEF TypeInv, TypeOK, Idle
      <4>3. CASE op' = [op EXCEPT ![o].pc = "created"]
        BY <4>3 DEF TypeInv, TypeOK, Call
      <4> QED BY <4>1, <4>2, <4>3
    <3>2. todo' \subseteq RightCommand /\ queue' = queue
      BY <1>3, <2>1, <2>4, CallFacts, RightContinues DEF Recreate
    <3> QED BY <2>1, <3>1, <3>2, NothingIsRight
  <2> QED BY <2>2, <2>3, <2>4
<1> QED BY <1>1, <1>2, <1>3 DEF CommandsInv, Right

LEMMA RightInvocations ==
  ASSUME TypeInv, TypeInv', CommandsInv, NEW o \in Op,
         \/ InvokeGetState(o) \/ InvokeLogOut(o) \/ InvokeLogin(o)
         \/ InvokeCheckCode(o) \/ InvokeCheckPassword(o)
  PROVE  CommandsInv'
<1>1. /\ mistaken' = mistaken /\ queue' = queue /\ op' = [op EXCEPT ![o] = Idle]
      /\ attempt \in Nat /\ attempt' \in Nat /\ attempt <= attempt'
  BY DEF InvokeGetState, InvokeLogOut, InvokeLogin, InvokeCheckCode, InvokeCheckPassword,
         Invoking, bounds, tdlib, messages, TypeInv, TypeOK
<1>2. /\ \A c : Right(c) => Right(c)'
      /\ RightCommand \subseteq RightCommand'
      /\ Seq(RightCommand) \subseteq Seq(RightCommand')
  BY <1>1, RightGrows
<1>3. ASSUME ~mistaken PROVE todo' \subseteq RightCommand
  <2>1. todo \subseteq RightCommand /\ Right(op[o].then)
    BY <1>3 DEF CommandsInv
  <2>2. CASE InvokeGetState(o)
    <3> DEFINE awaited == [provideAuthCode |-> "code", providePassword |-> "password"]
               command == op[o].then
               goes == command # Nothing /\ Open(o) /\ stored = awaited[command.type]
    <3>1. Continue(IF goes THEN command ELSE Nothing)
      BY <2>2 DEF InvokeGetState
    <3>2. /\ (IF goes THEN command ELSE Nothing) \in Command \cup {Nothing}
          /\ Right(IF goes THEN command ELSE Nothing)
      BY <2>1, CallFacts, NothingIsRight
    <3> HIDE DEF goes
    <3> QED BY <1>3, <3>1, <3>2, RightContinues
  <2>3. CASE InvokeLogOut(o)
    BY <1>3, <2>1, <2>3, CallFacts, RightContinues DEF InvokeLogOut
  <2>4. CASE UNCHANGED todo
    BY <2>1, <2>4
  <2> QED BY <2>2, <2>3, <2>4 DEF InvokeLogin, InvokeCheckCode, InvokeCheckPassword, messages
<1>4. ASSUME ~mistaken
      PROVE  \A p \in Op : Right(op'[p].cmd) /\ Right(op'[p].then)
  <2>1. \A p \in Op : \/ op'[p] = op[p]
                     \/ (op'[p].cmd = Nothing /\ op'[p].then = Nothing)
    BY <1>1 DEF TypeInv, TypeOK, Idle
  <2> QED BY <1>4, <2>1, NothingIsRight DEF CommandsInv
<1>5. ASSUME ~mistaken'
      PROVE  /\ todo' \subseteq RightCommand' /\ queue' \in Seq(RightCommand')
             /\ \A p \in Op : (Right(op[p].cmd) /\ Right(op[p].then))'
  <2>1. ~mistaken
    BY <1>1, <1>5
  <2>2. todo' \subseteq RightCommand /\ queue \in Seq(RightCommand)
    BY <1>3, <2>1 DEF CommandsInv
  <2>3. ASSUME NEW p \in Op PROVE (Right(op[p].cmd) /\ Right(op[p].then))'
    <3>1. Right(op'[p].cmd) /\ Right(op'[p].then)
      BY <1>4, <2>1
    <3> QED BY <1>1, <3>1 DEF Right
  <2> QED BY <1>1, <1>2, <2>2, <2>3
<1> QED BY <1>5 DEF CommandsInv

LEMMA RightAgain ==
  ASSUME TypeInv, CommandsInv, WorkerRestarts \/ \E o \in Op : Redeliver(o)
  PROVE  CommandsInv'
<1>1. UNCHANGED <<attempt, mistaken>>
  BY DEF WorkerRestarts, Redeliver, tdlib
<1>2. RightCommand' = RightCommand
  BY <1>1 DEF RightCommand, Right
<1>3. ASSUME ~mistaken
      PROVE  /\ todo' \subseteq RightCommand /\ queue' \in Seq(RightCommand)
             /\ \A p \in Op : Right(op'[p].cmd) /\ Right(op'[p].then)
  <2>1. /\ todo \subseteq RightCommand /\ queue \in Seq(RightCommand)
        /\ \A p \in Op : Right(op[p].cmd) /\ Right(op[p].then)
    BY <1>3 DEF CommandsInv
  <2>2. ASSUME NEW o \in Op, Redeliver(o)
        PROVE  /\ todo' \subseteq RightCommand /\ queue' \in Seq(RightCommand)
               /\ \A p \in Op : Right(op'[p].cmd) /\ Right(op'[p].then)
    <3>1. op[o].cmd \in RightCommand /\ op' = op /\ todo' = todo
      BY <2>1, <2>2 DEF Redeliver, RightCommand
    <3>2. <<op[o].cmd>> \in Seq(RightCommand)
      BY <3>1
    <3>3. queue' \in Seq(RightCommand)
      BY <2>1, <2>2, <3>2, ConcatProperties DEF Redeliver
    <3> QED BY <2>1, <3>1, <3>3
  <2>3. CASE WorkerRestarts
    <3>1. RunningCommands \subseteq RightCommand
      BY <2>1 DEF RunningCommands, RightCommand
    <3>2. SetToSeq(RunningCommands) \in Seq(RightCommand)
      BY <3>1, RunningListed, SeqMonotonic
    <3>3. queue' = SetToSeq(RunningCommands) \o queue
      BY <2>3 DEF WorkerRestarts, RunningCommands
    <3>4. queue' \in Seq(RightCommand)
      BY <2>1, <3>2, <3>3, ConcatProperties
    <3>5. todo' \subseteq RightCommand
      <4>1. \A o \in Op : op[o].cmd.type = "logOut" => op[o].then = Login
        BY CallFacts
      <4>2. Login \in RightCommand
        BY NothingIsRight DEF RightCommand, Login, Command, QueueType
      <4> QED BY <2>1, <2>3, <4>1, <4>2 DEF WorkerRestarts
    <3>6. \A p \in Op : op'[p].cmd = Nothing /\ op'[p].then = Nothing
      BY <2>3 DEF WorkerRestarts, Idle
    <3> QED BY <3>4, <3>5, <3>6, NothingIsRight
  <2> QED BY <2>2, <2>3
<1> QED BY <1>1, <1>2, <1>3 DEF CommandsInv, Right

LEMMA RightStep == TypeInv /\ TypeInv' /\ CommandsInv /\ [Next]_vars => CommandsInv'
<1> SUFFICES ASSUME TypeInv, TypeInv', CommandsInv, [Next]_vars PROVE CommandsInv'
  OBVIOUS
<1>1. CASE UNCHANGED <<attempt, mistaken, todo, queue, op>>
  BY <1>1 DEF CommandsInv, RightCommand, Right
<1>2. CASE \E k \in Client : Initialized(k) \/ Closed(k)
  BY <1>1, <1>2 DEF Initialized, Closed, nest, messages, bounds
<1>3. CASE UNCHANGED vars
  BY <1>1, <1>3 DEF vars, tdlib, nest, messages, bounds
<1> QED BY <1>2, <1>3, RightRequests, RightMessages, RightWorker, RightInvocations, RightAgain
        DEF Next, Dashboard, Steps, Poll

\* An answer refuses a code only when it is wrong: the one code sent is not.
LEMMA ErrorsStep ==
  TypeInv /\ TypeInv' /\ CommandsInv /\ ErrorsInv /\ [Next]_vars => ErrorsInv'
<1> SUFFICES ASSUME TypeInv, TypeInv', CommandsInv, ErrorsInv, [Next]_vars,
                    ~mistaken', attempt' <= 1
             PROVE  answers' \in Seq(Answer \ Refusal) /\ authErrorCache' = "none"
  BY DEF ErrorsInv, Refusal, Answer
<1>1. ASSUME NEW type \in QueueType \ {"login"}, NEW error \in {"none", "other"}, Reply(type, error),
             answers \in Seq(Answer \ Refusal)
      PROVE  answers' \in Seq(Answer \ Refusal)
  <2>1. [type |-> type, error |-> error] \in Answer \ Refusal
    BY DEF Answer, Refusal
  <2> QED BY <1>1, <2>1 DEF Reply
<1>2. ~mistaken /\ attempt <= attempt' /\ attempt \in Nat /\ attempt' \in Nat
  <2>1. \/ mistaken' = mistaken
        \/ \E o \in Op : SubmitAuthCode(o) \/ SubmitPassword(o)
    BY DEF Next, Dashboard, Steps, Poll, vars, bounds, ReauthorizeWorker, LoginWorker,
           ErrorExpires, Receive, Ensure, Recreate, Obtain, InvokeGetState, InvokeLogOut, InvokeLogin,
           InvokeCheckCode, InvokeCheckPassword, Initialized, Closed, Dispatch, HandleResponse,
           PollStatus, Redeliver, WorkerRestarts
  <2>2. ASSUME NEW o \in Op, SubmitAuthCode(o) \/ SubmitPassword(o) PROVE ~mistaken
    <3>1. \E good : mistaken' = (mistaken \/ good = 0)
      BY <2>2 DEF SubmitAuthCode, SubmitPassword, Submit
    <3> QED BY <3>1
  <2>3. ~mistaken
    BY <2>1, <2>2
  <2>4. attempt' = attempt \/ attempt' = attempt + 1
    BY DEF Next, Dashboard, Steps, Poll, vars, tdlib, SubmitAuthCode, SubmitPassword, Submit,
           ReauthorizeWorker, LoginWorker, ErrorExpires, Receive, Ensure, Recreate, Obtain,
           InvokeGetState, InvokeLogOut, InvokeLogin, InvokeCheckCode, InvokeCheckPassword,
           Initialized, Closed, Dispatch, HandleResponse, PollStatus, Redeliver, WorkerRestarts
  <2> QED BY <2>3, <2>4 DEF TypeInv, TypeOK
<1>3. answers \in Seq(Answer \ Refusal) /\ authErrorCache = "none"
  BY <1>2 DEF ErrorsInv
<1>4. CASE HandleResponse
  <2>1. Head(answers) \in Answer \ Refusal /\ answers' \in Seq(Answer \ Refusal)
    BY <1>3, <1>4 DEF HandleResponse
  <2> QED BY <1>3, <1>4, <2>1 DEF HandleResponse, IsInvalid, Refusal
<1>5. ASSUME NEW o \in Op, InvokeLogin(o)
      PROVE  answers' \in Seq(Answer \ Refusal) /\ authErrorCache' = "none"
  BY <1>3, <1>5 DEF InvokeLogin, messages
<1>6. ASSUME NEW o \in Op, InvokeCheckCode(o)
      PROVE  answers' \in Seq(Answer \ Refusal) /\ authErrorCache' = "none"
  <2>1. op[o].cmd.good = attempt
    BY <1>2, <1>6 DEF InvokeCheckCode, Invoking, CommandsInv, Right
  <2>2. \E error \in {"none", "other"} : Reply("provideAuthCode", error)
    BY <1>6, <2>1 DEF InvokeCheckCode
  <2> QED BY <1>1, <1>3, <1>6, <2>2 DEF InvokeCheckCode, QueueType
<1>7. ASSUME NEW o \in Op, InvokeCheckPassword(o)
      PROVE  answers' \in Seq(Answer \ Refusal) /\ authErrorCache' = "none"
  <2>1. op[o].cmd.good = 1
    BY <1>2, <1>7 DEF InvokeCheckPassword, Invoking, CommandsInv, Right
  <2>2. \E error \in {"none", "other"} : Reply("providePassword", error)
    BY <1>7, <2>1 DEF InvokeCheckPassword
  <2> QED BY <1>1, <1>3, <1>7, <2>2 DEF InvokeCheckPassword, QueueType
<1>8. CASE answers' = answers /\ authErrorCache' \in {authErrorCache, "none"}
  BY <1>3, <1>8
<1>9. \/ answers' = answers /\ authErrorCache' \in {authErrorCache, "none"}
      \/ HandleResponse
      \/ \E o \in Op : InvokeLogin(o) \/ InvokeCheckCode(o) \/ InvokeCheckPassword(o)
  BY DEF Next, Dashboard, Steps, Poll, vars, nest, messages, SubmitAuthCode, SubmitPassword,
         Submit, ReauthorizeWorker, LoginWorker, ErrorExpires, Receive, Ensure, Recreate,
         Obtain, InvokeGetState, InvokeLogOut, Initialized, Closed, Dispatch, PollStatus,
         Redeliver, WorkerRestarts
<1> QED BY <1>4, <1>5, <1>6, <1>7, <1>8, <1>9

\* Commands may be delivered twice and submitted twice, calls fail on a closed client, and
\* the worker may die: the page shows no error to a user whose code and password were right.
THEOREM RightCodeIsShownNoError == Spec => []RightCodeShowsNoError
<1>1. ErrorsInv => RightCodeShowsNoError
  BY DEF ErrorsInv, RightCodeShowsNoError
<1> QED BY <1>1, RightInit, RightStep, ErrorsStep, Types, PTL DEF Spec
================================================================================
