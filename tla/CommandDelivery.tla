---------------------------- MODULE CommandDelivery ----------------------------
(***************************************************************************)
(* The way of a command from nest_api to a worker: RabbitMQPublisherService *)
(* sends it to the worker's queue; the worker's CommandProcessor takes it,  *)
(* carries it out, answers it through RabbitMQPublisher and acknowledges it.*)
(* Either side may lose its connection and notice late; the worker rebuilds *)
(* its channels and its consumer from the reconnection callbacks of         *)
(* SharedRabbitMQConnection; either process may die.                        *)
(*                                                                          *)
(* The broker is external.  It numbers the deliveries of a channel from 1   *)
(* and closes a channel on which an unknown number is acknowledged.         *)
(***************************************************************************)
EXTENDS Naturals, Sequences, SequencesExt, FiniteSets

CONSTANTS
  NCommands,   \* commands, numbered in the order their publication begins
  Prefetch,    \* channel.prefetch
  MaxFaults    \* bound on connections lost or refused and processes that die

ASSUME DeliveryAssumption ==
  NCommands \in Nat \ {0} /\ Prefetch \in Nat \ {0} /\ MaxFaults \in Nat

Cmd == 1 .. NCommands
Nobody == 0
Timer == NCommands + 1

VARIABLES
  \* nest_api: RabbitMQPublisherService
  pc,         \* pc[c]: the step of publishToQueue
  nlink,      \* connection and channel; "dead" until their loss is noticed
  connecting, \* who awaits connect(): a command, the timer or nobody
  ntimer,     \* reconnectTimeout
  asserted,   \* the queue is in assertedQueues
  \* the broker
  queue,      \* commands ready for delivery
  unacked,    \* deliveries of the worker's channel, not yet acknowledged
  tag,        \* number of deliveries on that channel
  lost,       \* commands accepted from the publisher that the broker lost
  \* the worker
  wlink,      \* SharedRabbitMQConnection.connection
  wtimer,     \* reconnectTimeout
  booting,    \* main() has not finished
  setup,      \* the step of connecting or of CommandProcessor's callback
  opened,     \* number of channels CommandProcessor has created
  channel,    \* CommandProcessor.channel: a channel's number, 0 for null
  closed,     \* the channel created last is closed
  isConsumerActive,
  consumes,   \* the channel consume was last called on
  handlers,   \* callbacks of the consumer in progress
  \* what happened
  runs, answered, faults,
  stale,      \* deliveries acknowledged on another channel than their own
  late        \* isConsumerActive was set when its channel had closed already

nest == <<pc, nlink, connecting, ntimer, asserted>>
broker == <<queue, unacked, tag, lost>>
link == <<wlink, wtimer, booting, setup>>
consumer == <<opened, channel, closed, isConsumerActive, consumes, late>>
work == <<handlers, runs, answered, stale>>
vars == <<nest, broker, link, consumer, work, faults>>

Delivery == [tag : Nat, cmd : Cmd]
Handler ==
  [cmd : Cmd, ch : Nat, tag : Nat, pc : {"process", "answer", "ack"}]

Init ==
  /\ pc = [c \in Cmd |-> "new"]
  /\ nlink = "up" /\ connecting = Nobody /\ ntimer = FALSE /\ asserted = FALSE
  /\ queue = <<>> /\ unacked = <<>> /\ tag = 0 /\ lost = {}
  /\ wlink = "none" /\ wtimer = FALSE /\ booting = TRUE /\ setup = "connect"
  /\ opened = 0 /\ channel = 0 /\ closed = TRUE
  /\ isConsumerActive = FALSE /\ consumes = 0
  /\ handlers = {} /\ runs = [c \in Cmd |-> 0] /\ answered = {}
  /\ faults = 0 /\ stale = 0 /\ late = FALSE

Fault == faults < MaxFaults /\ faults' = faults + 1
NoFault == UNCHANGED faults

CommandsOf(deliveries) == [i \in DOMAIN deliveries |-> deliveries[i].cmd]
InBroker == ToSet(queue) \cup ToSet(CommandsOf(unacked))

------------------------------------------------------------------------------
\* nest_api.  Nothing the publisher does concerns the worker but by the queue.
WorkerUnchanged == UNCHANGED <<link, consumer, work>>

\* sendToQueue on a connection whose loss went unnoticed succeeds too.
Send(c) ==
  /\ pc' = [pc EXCEPT ![c] = "sent"]
  /\ IF nlink = "up" THEN queue' = Append(queue, c) /\ UNCHANGED lost
     ELSE lost' = lost \cup {c} /\ UNCHANGED queue
  /\ UNCHANGED <<unacked, tag>>

\* publishToQueue: connect() returns at once to whoever finds isConnecting set, and
\* there is no channel then.
Publish(c) ==
  /\ pc[c] = "new" /\ \A b \in 1 .. c - 1 : pc[b] # "new"
  /\ \/ /\ nlink # "none" /\ asserted
        /\ Send(c) /\ UNCHANGED connecting
     \/ /\ nlink # "none" /\ ~asserted
        /\ pc' = [pc EXCEPT ![c] = "assert"] /\ UNCHANGED <<broker, connecting>>
     \/ /\ nlink = "none" /\ connecting = Nobody
        /\ pc' = [pc EXCEPT ![c] = "connect"] /\ connecting' = c /\ UNCHANGED broker
     \/ /\ nlink = "none" /\ connecting # Nobody
        /\ pc' = [pc EXCEPT ![c] = "failed"] /\ UNCHANGED <<broker, connecting>>
  /\ NoFault /\ WorkerUnchanged
  /\ UNCHANGED <<nlink, ntimer, asserted>>

\* Mutated: the timer's connection counts as a command's.
ConnectedForAny(next) ==
  [c \in Cmd \cup {connecting} |-> IF c = connecting THEN next ELSE pc[c]]

\* connect(), for a command or for the timer
Connected(next) ==
  IF connecting \in Cmd THEN [pc EXCEPT ![connecting] = next] ELSE pc

Connect ==
  /\ connecting # Nobody
  /\ connecting' = Nobody
  /\ \/ nlink' = "up" /\ pc' = Connected("assert") /\ NoFault /\ UNCHANGED ntimer
     \/ pc' = Connected("failed") /\ ntimer' = TRUE /\ Fault /\ UNCHANGED nlink
  /\ WorkerUnchanged /\ UNCHANGED <<broker, asserted>>

\* scheduleReconnect's timer
NestTimer ==
  /\ ntimer /\ ntimer' = FALSE
  /\ connecting' = IF nlink = "none" /\ connecting = Nobody THEN Timer ELSE connecting
  /\ NoFault /\ WorkerUnchanged /\ UNCHANGED <<broker, pc, nlink, asserted>>

\* assertQueue answers, the first time or on the retry.
AssertQueue(c) ==
  /\ pc[c] \in {"assert", "retry"} /\ nlink = "up"
  /\ asserted' = TRUE
  /\ Send(c)
  /\ NoFault /\ WorkerUnchanged /\ UNCHANGED <<nlink, connecting, ntimer>>

\* One second after a failure, on whatever channel there is then.
Retry(c) ==
  /\ pc[c] = "wait"
  /\ pc' = [pc EXCEPT ![c] = IF nlink = "none" THEN "failed" ELSE "retry"]
  /\ NoFault /\ WorkerUnchanged
  /\ UNCHANGED <<broker, nlink, connecting, ntimer, asserted>>

\* Bound: nest_api's side fails only while there is something left to publish.
Publishing == \E c \in Cmd : pc[c] \notin {"sent", "failed"}

NestLinkDies ==
  /\ Publishing
  /\ nlink = "up" /\ nlink' = "dead"
  /\ Fault /\ WorkerUnchanged /\ UNCHANGED <<broker, pc, connecting, ntimer, asserted>>

\* Mutated: what was sent on the lost connection is sent again.
SentAgainAfterLoss(step) == IF step \in {"assert", "sent"} THEN "wait" ELSE step

AfterLoss(step) ==
  CASE step = "assert" -> "wait" [] step = "retry" -> "failed" [] OTHER -> step

\* handleConnectionError; the queue's assertion in progress is rejected.
NestNoticesLoss ==
  /\ nlink = "dead" /\ nlink' = "none"
  /\ asserted' = FALSE /\ ntimer' = TRUE
  /\ pc' = [c \in Cmd |-> AfterLoss(pc[c])]
  /\ NoFault /\ WorkerUnchanged /\ UNCHANGED <<broker, connecting>>

\* nest_api dies: it serves no request before onModuleInit has connected again.
NestRestarts ==
  /\ Publishing /\ Fault
  /\ pc' = [c \in Cmd |-> IF pc[c] \in {"new", "sent"} THEN pc[c] ELSE "failed"]
  /\ nlink' = "up" /\ connecting' = Nobody /\ ntimer' = FALSE /\ asserted' = FALSE
  /\ WorkerUnchanged /\ UNCHANGED broker

------------------------------------------------------------------------------
\* The broker.  When the worker's channel goes, its deliveries return to the front of
\* the queue, where they were.
Requeue ==
  /\ queue' = CommandsOf(unacked) \o queue
  /\ unacked' = <<>> /\ tag' = 0
  /\ UNCHANGED lost

Consuming == wlink = "up" /\ ~closed /\ consumes = opened

\* A message for the consumer
Deliver ==
  /\ Consuming /\ queue # <<>> /\ Len(unacked) < Prefetch
  /\ LET c == Head(queue)
     IN  /\ unacked' = Append(unacked, [tag |-> tag + 1, cmd |-> c])
         /\ handlers' = handlers \cup
              {[cmd |-> c, ch |-> opened, tag |-> tag + 1, pc |-> "process"]}
  /\ queue' = Tail(queue) /\ tag' = tag + 1
  /\ NoFault /\ UNCHANGED <<nest, lost, link, consumer, runs, answered, stale>>

WorkerLinkDies ==
  /\ wlink = "up" /\ wlink' = "dead"
  /\ Requeue
  /\ Fault /\ UNCHANGED <<nest, wtimer, booting, setup, consumer, work>>

\* Commands are sent with persistent: false.
BrokerRestarts ==
  /\ Fault
  /\ lost' = lost \cup InBroker
  /\ queue' = <<>> /\ unacked' = <<>> /\ tag' = 0
  /\ nlink' = IF nlink = "up" /\ Publishing THEN "dead" ELSE nlink
  /\ wlink' = IF wlink = "up" THEN "dead" ELSE wlink
  /\ UNCHANGED <<pc, connecting, ntimer, asserted, wtimer, booting, setup, consumer, work>>

------------------------------------------------------------------------------
\* The worker.  main() exits when it cannot connect, Docker starts it again.
Exit ==
  /\ wlink' = "none" /\ wtimer' = FALSE /\ booting' = TRUE /\ setup' = "connect"
  /\ channel' = 0 /\ closed' = TRUE /\ isConsumerActive' = FALSE /\ late' = FALSE
  /\ handlers' = {}
  /\ UNCHANGED <<opened, consumes, runs, answered, stale>>

WorkerDies == Fault /\ Requeue /\ Exit /\ UNCHANGED nest

\* Mutated: the callbacks of onReconnect are not called.
CallbacksForgotten == IF booting THEN "channel" ELSE "none"

AfterConnect == "channel"

\* SharedRabbitMQConnection.connect; failing, it schedules the next attempt.
WorkerConnect ==
  /\ setup = "connect"
  /\ \/ wlink' = "up" /\ setup' = AfterConnect /\ NoFault
        /\ UNCHANGED <<wtimer, booting, consumer, work>>
     \/ booting /\ Fault /\ Exit
     \/ ~booting /\ Fault /\ wtimer' = TRUE /\ setup' = "none"
        /\ UNCHANGED <<wlink, booting, consumer, work>>
  /\ UNCHANGED <<nest, broker>>

\* scheduleReconnect's timer: long after an answer that came is gone on with.
WorkerTimer ==
  /\ wtimer /\ wtimer' = FALSE /\ setup # "answered"
  /\ setup' = IF wlink = "none" THEN "connect" ELSE setup
  /\ NoFault /\ UNCHANGED <<nest, broker, wlink, booting, consumer, work>>

\* setupChannel: until prefetch is answered the new channel has no handlers.
SetupChannel ==
  /\ setup = "channel" /\ wlink = "up"
  /\ opened' = opened + 1 /\ channel' = opened + 1 /\ closed' = FALSE
  /\ setup' = "prefetch"
  /\ NoFault /\ UNCHANGED <<nest, broker, wlink, wtimer, booting, isConsumerActive, consumes,
                            late, work>>

SetupPrefetch ==
  /\ setup = "prefetch" /\ wlink = "up"
  /\ setup' = "consume"
  /\ NoFault /\ UNCHANGED <<nest, broker, wlink, wtimer, booting, consumer, work>>

\* setupConsumer, when isConsumerActive is set: nothing to set up
SkipConsumer ==
  /\ setup = "consume" /\ wlink = "up" /\ isConsumerActive
  /\ setup' = "none" /\ booting' = FALSE
  /\ NoFault /\ UNCHANGED <<nest, broker, wlink, wtimer, consumer, work>>

\* setupConsumer: deliveries may come as soon as consume is answered.
SetupConsumer ==
  /\ setup = "consume" /\ wlink = "up" /\ ~isConsumerActive
  /\ setup' = "answered" /\ consumes' = channel
  /\ NoFault /\ UNCHANGED <<nest, broker, wlink, wtimer, booting, opened, channel, closed,
                            isConsumerActive, late, work>>

\* What follows the await of consume, though a close came right behind the answer.
ActivateConsumer ==
  /\ setup = "answered"
  /\ setup' = "none" /\ booting' = FALSE
  /\ isConsumerActive' = TRUE /\ late' = closed
  /\ NoFault /\ UNCHANGED <<nest, broker, wlink, wtimer, opened, channel, closed, consumes, work>>

\* Mutated: the handlers of the channel leave isConsumerActive set.
StillActive == isConsumerActive

ActiveWhenChannelCloses == FALSE

\* 'close' of the channel created last.  Without handlers it stays in the field.
ChannelCloses ==
  /\ closed' = TRUE
  /\ IF ~closed /\ setup # "prefetch"
     THEN channel' = 0 /\ isConsumerActive' = ActiveWhenChannelCloses /\ late' = FALSE
     ELSE UNCHANGED <<channel, isConsumerActive, late>>
  /\ setup' = IF setup = "answered" THEN setup ELSE "none"
  /\ UNCHANGED <<opened, consumes>>

\* 'error' and 'close' of the connection and of its channels, in one turn; main() fails
\* while it awaits an answer.
WorkerNoticesLoss ==
  /\ wlink = "dead"
  /\ \/ booting /\ setup # "answered" /\ Exit
     \/ /\ ~booting \/ setup = "answered"
        /\ wlink' = "none" /\ wtimer' = TRUE
        /\ ChannelCloses
        /\ UNCHANGED <<booting, work>>
  /\ NoFault /\ UNCHANGED <<nest, broker>>

------------------------------------------------------------------------------
\* One callback of the consumer.
Advance(h, next) == handlers' = (handlers \ {h}) \cup {[h EXCEPT !.pc = next]}

\* processCommand, whether it throws or not
Process(h) ==
  /\ h.pc = "process"
  /\ runs' = [runs EXCEPT ![h.cmd] = @ + 1]
  /\ Advance(h, "answer")
  /\ NoFault /\ UNCHANGED <<nest, broker, link, consumer, answered, stale>>

\* RabbitMQPublisher.publish makes its channel again when there is a connection, and
\* throws when there is none: the answer is given up.
Answer(h) ==
  /\ h.pc = "answer"
  /\ answered' = IF wlink = "up" THEN answered \cup {h.cmd} ELSE answered
  /\ Advance(h, "ack")
  /\ NoFault /\ UNCHANGED <<nest, broker, link, consumer, runs, stale>>

\* Mutated: the command is acknowledged before it is carried out.
AckFirst(h) == h.pc = "process"

ReadyToAck(h) == h.pc = "ack"

\* Mutated: a failed command is refused instead of acknowledged.
Refused(h) == <<h.cmd>>

\* Success and failure are both acknowledged.
PutBack(h) == <<>>

Acknowledged(h) ==
  {i \in DOMAIN unacked : unacked[i].tag = h.tag}

\* this.channel?.ack(msg): on the channel of now, whatever channel msg came by.
\* A closed channel throws, and the callback's rejection ends the process.
Ack(h) ==
  /\ ReadyToAck(h)
  /\ \/ /\ channel = 0 \/ (~closed /\ wlink = "dead")
        /\ handlers' = handlers \ {h}
        /\ UNCHANGED <<broker, consumer, link, runs, answered, stale>>
     \/ /\ channel # 0 /\ ~closed /\ wlink = "up"
        /\ handlers' = handlers \ {h}
        /\ stale' = stale + (IF h.ch # channel THEN 1 ELSE 0)
        /\ \/ \E i \in Acknowledged(h) :
                /\ unacked' = RemoveAt(unacked, i)
                /\ queue' = PutBack(h) \o queue
                /\ UNCHANGED <<tag, lost, consumer, setup>>
           \/ /\ Acknowledged(h) = {}
              /\ Requeue /\ ChannelCloses
        /\ UNCHANGED <<wlink, wtimer, booting, runs, answered>>
     \/ channel # 0 /\ closed /\ Requeue /\ Exit
  /\ NoFault /\ UNCHANGED nest

------------------------------------------------------------------------------
NestSteps ==
  \/ \E c \in Cmd : AssertQueue(c) \/ Retry(c)
  \/ Connect \/ NestTimer \/ NestNoticesLoss

WorkerSteps ==
  \/ WorkerConnect \/ WorkerTimer \/ SetupChannel \/ SetupPrefetch
  \/ SkipConsumer \/ SetupConsumer \/ ActivateConsumer
  \/ WorkerNoticesLoss \/ Deliver
  \/ \E h \in handlers : Process(h) \/ Answer(h) \/ Ack(h)

Environment ==
  \/ \E c \in Cmd : Publish(c)
  \/ NestLinkDies \/ NestRestarts \/ WorkerLinkDies \/ WorkerDies \/ BrokerRestarts

Next == NestSteps \/ WorkerSteps \/ Environment

Spec == Init /\ [][Next]_vars

\* Timers fire, promises settle, heartbeats find a lost connection, TDLib answers, and
\* the broker delivers.  Connections fail at most MaxFaults times.
FairSpec == Spec /\ WF_vars(NestSteps) /\ WF_vars(WorkerSteps)

------------------------------------------------------------------------------
(***************************************************************************)
(* Properties                                                              *)
(***************************************************************************)
\* Every variable has its type.
TypeOK ==
  /\ pc \in [Cmd -> {"new", "connect", "assert", "wait", "retry", "sent", "failed"}]
  /\ nlink \in {"none", "up", "dead"} /\ connecting \in Cmd \cup {Timer, Nobody}
  /\ ntimer \in BOOLEAN /\ asserted \in BOOLEAN
  /\ queue \in Seq(Cmd) /\ unacked \in Seq(Delivery) /\ tag \in Nat /\ lost \subseteq Cmd
  /\ wlink \in {"none", "up", "dead"} /\ wtimer \in BOOLEAN /\ booting \in BOOLEAN
  /\ setup \in {"none", "connect", "channel", "prefetch", "consume", "answered"}
  /\ opened \in Nat /\ channel \in Nat /\ consumes \in Nat
  /\ closed \in BOOLEAN /\ isConsumerActive \in BOOLEAN
  /\ handlers \subseteq Handler
  /\ runs \in [Cmd -> Nat] /\ answered \subseteq Cmd
  /\ faults \in Nat /\ stale \in Nat /\ late \in BOOLEAN

\* A command that left the queue for good was carried out and answered, whichever side
\* lost its connection or died meanwhile: the answer and the acknowledgement take the
\* same connection.  An acknowledgement sent on a later channel than its delivery's
\* takes this away: it may hit another command.
SettledWhenDone ==
  stale = 0 =>
    \A c \in Cmd : pc[c] = "sent" /\ c \notin lost /\ c \notin InBroker =>
      runs[c] > 0 /\ c \in answered

\* Neither a retry of publishToQueue nor a redelivery puts a command twice into the
\* broker.
CommandOnceInBroker ==
  LET held == CommandsOf(unacked) \o queue
  IN  IsInjective(held)

\* A message is sent to the seller's group again only when a connection was lost, a
\* process died, or an acknowledgement went to the wrong channel.
RunsBounded == \A c \in Cmd : runs[c] <= 1 + faults + stale

\* After a loss of its connection the worker consumes again, unless an acknowledgement
\* on the wrong channel made the broker close the new one, which nothing rebuilds, or the
\* loss came right behind the answer to consume: isConsumerActive is set after the close
\* handler has reset it, and the next setupConsumer skips.
ConsumerComesBack == wlink = "dead" ~> Consuming \/ stale > 0 \/ late

\* What publishToQueue was asked for ends, and what it sent is carried out, but by a
\* worker that does not consume for one of those two reasons.
CommandsGetDone ==
  \A c \in Cmd :
    pc[c] # "new" ~> pc[c] = "failed" \/ runs[c] > 0 \/ c \in lost \/ stale > 0 \/ late

\* What has become of a command, as the publisher and the broker see it
StatusOf(c) ==
  CASE pc[c] = "failed" -> "failed"
    [] pc[c] \notin {"sent", "failed"} -> "new"
    [] pc[c] = "sent" /\ c \in lost -> "lost"
    [] pc[c] = "sent" /\ c \notin lost /\ c \in InBroker -> "held"
    [] OTHER -> "settled"

Queue == INSTANCE AtLeastOnceQueue WITH
  status <- [c \in Cmd |-> StatusOf(c)], mixups <- stale

\* Connections, channels, retries and processes that die implement a queue that delivers
\* at least once: no step loses, settles, repeats or answers a command unless that queue
\* may.
QueueIsAtLeastOnce == Queue!Spec

==============================================================================
