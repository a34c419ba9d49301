------------------------- MODULE CommandDeliveryProofs -------------------------
(***************************************************************************)
(* Theorems about CommandDelivery for every number of commands, every      *)
(* prefetch and every number of faults: its types, that no command is in   *)
(* the broker twice, that it implements AtLeastOnceQueue, that settled     *)
(* commands are done, which it has from that queue, and how often a        *)
(* command is carried out.                                                 *)
(***************************************************************************)
EXTENDS CommandDelivery, SequenceTheorems, FiniteSetTheorems, TLAPS

(***************************************************************************)
(* Sequences                                                               *)
(***************************************************************************)
LEMMA ToSetOf ==
  ASSUME NEW S, NEW s \in Seq(S)
  PROVE  /\ \A x : x \in ToSet(s) <=> \E i \in 1 .. Len(s) : s[i] = x
         /\ ToSet(s) \subseteq S
BY DEF ToSet

LEMMA ToSetAppend ==
  ASSUME NEW S, NEW s \in Seq(S), NEW e \in S
  PROVE  ToSet(Append(s, e)) = ToSet(s) \cup {e}
<1> DEFINE r == Append(s, e)
<1>1. /\ r \in Seq(S) /\ Len(r) = Len(s) + 1 /\ Len(s) \in Nat
      /\ \A i \in 1 .. Len(s) + 1 : r[i] = IF i <= Len(s) THEN s[i] ELSE e
  OBVIOUS
<1> HIDE DEF r
<1>2. \A x : x \in ToSet(r) <=> \E i \in 1 .. Len(s) + 1 : r[i] = x
  BY <1>1, ToSetOf
<1>3. \A x : x \in ToSet(s) <=> \E i \in 1 .. Len(s) : s[i] = x
  BY ToSetOf
<1>4. \A x : x \in ToSet(r) <=> x \in ToSet(s) \cup {e}
  BY <1>1, <1>2, <1>3
<1> QED BY <1>4 DEF r

LEMMA ToSetConcat ==
  ASSUME NEW S, NEW s \in Seq(S), NEW t \in Seq(S)
  PROVE  ToSet(s \o t) = ToSet(s) \cup ToSet(t)
<1> DEFINE r == s \o t
<1>1. /\ r \in Seq(S) /\ Len(r) = Len(s) + Len(t) /\ Len(s) \in Nat /\ Len(t) \in Nat
      /\ \A i \in 1 .. Len(s) + Len(t) :
            r[i] = IF i <= Len(s) THEN s[i] ELSE t[i - Len(s)]
  BY ConcatProperties
<1> HIDE DEF r
<1>2. \A x : x \in ToSet(r) <=> \E i \in 1 .. Len(s) + Len(t) : r[i] = x
  BY <1>1, ToSetOf
<1>3. /\ \A x : x \in ToSet(s) <=> \E i \in 1 .. Len(s) : s[i] = x
      /\ \A x : x \in ToSet(t) <=> \E i \in 1 .. Len(t) : t[i] = x
  BY ToSetOf
<1>4. ASSUME NEW x \in ToSet(r) PROVE x \in ToSet(s) \cup ToSet(t)
  <2>1. PICK i \in 1 .. Len(s) + Len(t) : r[i] = x
    BY <1>2, <1>4
  <2>2. CASE i <= Len(s)
    BY <1>1, <1>3, <2>1, <2>2
  <2>3. CASE i > Len(s)
    <3>1. i - Len(s) \in 1 .. Len(t)
      BY <1>1, <2>3
    <3>2. t[i - Len(s)] = x
      BY <1>1, <2>1, <2>3
    <3> QED BY <1>3, <3>1, <3>2
  <2> QED BY <1>1, <2>2, <2>3
<1>5. ASSUME NEW x \in ToSet(s) PROVE x \in ToSet(r)
  BY <1>1, <1>2, <1>3, <1>5
<1>6. ASSUME NEW j \in 1 .. Len(t) PROVE t[j] \in ToSet(r)
  <2>1. j + Len(s) \in 1 .. Len(s) + Len(t) /\ (j + Len(s)) - Len(s) = j
        /\ ~(j + Len(s) <= Len(s))
    BY <1>1
  <2>2. r[j + Len(s)] = t[j]
    BY <1>1, <2>1
  <2> QED BY <1>2, <2>1, <2>2
<1> QED BY <1>3, <1>4, <1>5, <1>6 DEF r

LEMMA ToSetHeadTail ==
  ASSUME NEW S, NEW s \in Seq(S), s # <<>>
  PROVE  /\ Head(s) \in S /\ Tail(s) \in Seq(S)
         /\ ToSet(s) = {Head(s)} \cup ToSet(Tail(s))
<1> DEFINE r == Tail(s)
<1>1. /\ r \in Seq(S) /\ Len(s) \in Nat /\ Len(s) >= 1 /\ Len(r) = Len(s) - 1
      /\ \A i \in 1 .. Len(s) - 1 : r[i] = s[i + 1]
      /\ Head(s) = s[1] /\ s[1] \in S
  OBVIOUS
<1> HIDE DEF r
<1>2. \A x : x \in ToSet(r) <=> \E i \in 1 .. Len(s) - 1 : r[i] = x
  BY <1>1, ToSetOf
<1>3. \A x : x \in ToSet(s) <=> \E i \in 1 .. Len(s) : s[i] = x
  BY ToSetOf
<1>4. ASSUME NEW j \in 1 .. Len(s), j # 1 PROVE s[j] \in ToSet(r)
  <2>1. j - 1 \in 1 .. Len(s) - 1 /\ r[j - 1] = s[j]
    BY <1>1, <1>4
  <2> QED BY <1>2, <2>1
<1>5. ASSUME NEW x \in ToSet(r) PROVE x \in ToSet(s)
  <2>1. PICK i \in 1 .. Len(s) - 1 : r[i] = x
    BY <1>2, <1>5
  <2>2. i + 1 \in 1 .. Len(s) /\ s[i + 1] = x
    BY <1>1, <2>1
  <2> QED BY <1>3, <2>2
<1>6. Head(s) \in ToSet(s)
  BY <1>1, <1>3
<1> QED BY <1>1, <1>3, <1>4, <1>5, <1>6 DEF r

LEMMA RemoveAtOf ==
  ASSUME NEW S, NEW s \in Seq(S), NEW i \in 1 .. Len(s)
  PROVE  /\ RemoveAt(s, i) \in Seq(S)
         /\ Len(RemoveAt(s, i)) = Len(s) - 1
         /\ \A j \in 1 .. Len(s) - 1 :
               RemoveAt(s, i)[j] = IF j < i THEN s[j] ELSE s[j + 1]
<1> DEFINE a == SubSeq(s, 1, i - 1)
           b == SubSeq(s, i + 1, Len(s))
           r == a \o b
<1>0. Len(s) \in Nat /\ i \in Nat /\ i >= 1 /\ i <= Len(s)
  OBVIOUS
<1>1. /\ a \in Seq(S) /\ Len(a) = i - 1
      /\ \A j \in 1 .. i - 1 : a[j] = s[j]
  <2>1. 1 \in 1 .. Len(s) + 1 /\ i - 1 \in 1 - 1 .. Len(s)
    BY <1>0
  <2> QED BY <1>0, <2>1, SubSeqProperties
<1>2. /\ b \in Seq(S) /\ Len(b) = Len(s) - i
      /\ \A j \in 1 .. Len(s) - i : b[j] = s[j + i]
  <2>1. i + 1 \in 1 .. Len(s) + 1 /\ Len(s) \in (i + 1) - 1 .. Len(s)
    BY <1>0
  <2> QED BY <1>0, <2>1, SubSeqProperties
<1> HIDE DEF a, b
<1>3. /\ r \in Seq(S) /\ Len(r) = Len(s) - 1
      /\ \A j \in 1 .. Len(s) - 1 :
           r[j] = IF j <= i - 1 THEN a[j] ELSE b[j - (i - 1)]
  <2>1. /\ r \in Seq(S) /\ Len(r) = Len(a) + Len(b)
        /\ \A j \in 1 .. Len(a) + Len(b) :
             r[j] = IF j <= Len(a) THEN a[j] ELSE b[j - Len(a)]
    BY <1>1, <1>2, ConcatProperties
  <2> QED BY <1>0, <1>1, <1>2, <2>1
<1>4. RemoveAt(s, i) = r
  BY DEF RemoveAt, a, b
<1> HIDE DEF r
<1>5. \A j \in 1 .. Len(s) - 1 : r[j] = IF j < i THEN s[j] ELSE s[j + 1]
  <2> SUFFICES ASSUME NEW j \in 1 .. Len(s) - 1
               PROVE  r[j] = IF j < i THEN s[j] ELSE s[j + 1]
    OBVIOUS
  <2>1. CASE j < i
    BY <1>0, <1>1, <1>3, <2>1
  <2>2. CASE j >= i
    <3>1. j - (i - 1) \in 1 .. Len(s) - i /\ (j - (i - 1)) + i = j + 1
      BY <1>0, <2>2
    <3> QED BY <1>0, <1>2, <1>3, <2>2, <3>1
  <2> QED BY <1>0, <2>1, <2>2
<1> QED BY <1>3, <1>4, <1>5

LEMMA CommandsOfType ==
  ASSUME NEW u \in Seq(Delivery)
  PROVE  /\ CommandsOf(u) \in Seq(Cmd) /\ Len(CommandsOf(u)) = Len(u)
         /\ \A i \in 1 .. Len(u) : CommandsOf(u)[i] = u[i].cmd
<1>1. Len(u) \in Nat /\ \A i \in 1 .. Len(u) : u[i].cmd \in Cmd
  <2>1. \A i \in 1 .. Len(u) : u[i] \in Delivery
    BY ElementOfSeq
  <2>2. \A x \in Delivery : x.cmd \in Cmd
    BY DEF Delivery
  <2> QED BY <2>1, <2>2, LenProperties
<1>2. CommandsOf(u) = [i \in 1 .. Len(u) |-> u[i].cmd]
  BY DEF CommandsOf
<1>3. CommandsOf(u) \in Seq(Cmd)
  BY <1>1, <1>2, IsASeq
<1> QED BY <1>1, <1>2, <1>3

LEMMA CommandsOfEmpty == CommandsOf(<<>>) = <<>> /\ ToSet(<<>>) = {}
BY DEF CommandsOf, ToSet

LEMMA CommandsOfAppend ==
  ASSUME NEW u \in Seq(Delivery), NEW d \in Delivery
  PROVE  CommandsOf(Append(u, d)) = Append(CommandsOf(u), d.cmd)
<1> DEFINE x == Append(u, d)
           v == CommandsOf(u)
           w == CommandsOf(x)
           y == Append(v, d.cmd)
<1>1. d.cmd \in Cmd
  BY DEF Delivery
<1>2. /\ x \in Seq(Delivery) /\ Len(u) \in Nat /\ Len(x) = Len(u) + 1
      /\ \A i \in 1 .. Len(u) + 1 : x[i] = IF i <= Len(u) THEN u[i] ELSE d
  OBVIOUS
<1> HIDE DEF x
<1>3. /\ v \in Seq(Cmd) /\ Len(v) = Len(u)
      /\ \A i \in 1 .. Len(u) : v[i] = u[i].cmd
  BY CommandsOfType
<1>4. /\ w \in Seq(Cmd) /\ Len(w) = Len(u) + 1
      /\ \A i \in 1 .. Len(u) + 1 : w[i] = x[i].cmd
  BY <1>2, CommandsOfType
<1> HIDE DEF v, w
<1>5. /\ y \in Seq(Cmd) /\ Len(y) = Len(u) + 1
      /\ \A i \in 1 .. Len(u) + 1 : y[i] = IF i <= Len(u) THEN v[i] ELSE d.cmd
  BY <1>1, <1>3
<1> HIDE DEF y
<1>6. \A i \in 1 .. Len(u) + 1 : w[i] = y[i]
  BY <1>2, <1>3, <1>4, <1>5
<1>7. w = y
  BY <1>4, <1>5, <1>6, SeqEqual
<1> QED BY <1>7 DEF v, w, x, y

(***************************************************************************)
(* What the broker's steps do to the commands it holds                     *)
(***************************************************************************)
LEMMA Held ==
  ASSUME NEW q \in Seq(Cmd), NEW u \in Seq(Delivery)
  PROVE  /\ CommandsOf(u) \o q \in Seq(Cmd)
         /\ ToSet(CommandsOf(u) \o q) = ToSet(q) \cup ToSet(CommandsOf(u))
BY CommandsOfType, ToSetConcat, ConcatProperties

LEMMA RequeueHolds ==
  ASSUME TypeOK, Requeue
  PROVE  /\ queue' \in Seq(Cmd) /\ unacked' = <<>> /\ unacked' \in Seq(Delivery)
         /\ InBroker' = InBroker
<1>1. queue \in Seq(Cmd) /\ unacked \in Seq(Delivery)
  BY DEF TypeOK
<1>2. queue' = CommandsOf(unacked) \o queue /\ unacked' = <<>>
  BY DEF Requeue
<1>3. ToSet(CommandsOf(unacked')) = {}
  BY <1>2, CommandsOfEmpty
<1> QED BY <1>1, <1>2, <1>3, Held DEF InBroker

LEMMA SendHolds ==
  ASSUME TypeOK, NEW c \in Cmd, Send(c)
  PROVE  /\ queue' \in Seq(Cmd) /\ unacked' = unacked
         /\ InBroker' = IF nlink = "up" THEN InBroker \cup {c} ELSE InBroker
<1>1. queue \in Seq(Cmd) /\ unacked' = unacked
  BY DEF TypeOK, Send
<1>2. CASE nlink = "up"
  <2>1. queue' = Append(queue, c)
    BY <1>2 DEF Send
  <2>2. ToSet(queue') = ToSet(queue) \cup {c} /\ queue' \in Seq(Cmd)
    BY <1>1, <2>1, ToSetAppend
  <2> QED BY <1>1, <1>2, <2>2 DEF InBroker
<1>3. CASE nlink # "up"
  BY <1>1, <1>3 DEF Send, InBroker
<1> QED BY <1>2, <1>3

LEMMA DeliverHolds ==
  ASSUME TypeOK, Deliver
  PROVE  /\ Head(queue) \in Cmd
         /\ queue' \in Seq(Cmd)
         /\ unacked' = Append(unacked, [tag |-> tag + 1, cmd |-> Head(queue)])
         /\ unacked' \in Seq(Delivery)
         /\ InBroker' = InBroker /\ Head(queue) \in InBroker
<1> DEFINE d == [tag |-> tag + 1, cmd |-> Head(queue)]
<1>1. queue \in Seq(Cmd) /\ unacked \in Seq(Delivery) /\ tag \in Nat
  BY DEF TypeOK
<1>2. queue # <<>> /\ queue' = Tail(queue) /\ unacked' = Append(unacked, d)
  BY DEF Deliver
<1>3. /\ Head(queue) \in Cmd /\ queue' \in Seq(Cmd)
      /\ ToSet(queue) = {Head(queue)} \cup ToSet(queue')
  BY <1>1, <1>2, ToSetHeadTail
<1>4. d \in Delivery /\ d.cmd = Head(queue)
  BY <1>1, <1>3 DEF Delivery
<1> HIDE DEF d
<1>5. unacked' \in Seq(Delivery)
  BY <1>1, <1>2, <1>4
<1>6. ToSet(CommandsOf(unacked')) = ToSet(CommandsOf(unacked)) \cup {Head(queue)}
  <2>1. CommandsOf(unacked') = Append(CommandsOf(unacked), Head(queue))
    BY <1>1, <1>2, <1>4, CommandsOfAppend
  <2>2. CommandsOf(unacked) \in Seq(Cmd)
    BY <1>1, CommandsOfType
  <2> QED BY <1>3, <2>1, <2>2, ToSetAppend
<1> QED BY <1>2, <1>3, <1>5, <1>6 DEF InBroker, d

LEMMA AckHolds ==
  ASSUME TypeOK, NEW i \in DOMAIN unacked, unacked' = RemoveAt(unacked, i), queue' = queue
  PROVE  /\ unacked' \in Seq(Delivery) /\ Len(unacked') = Len(unacked) - 1
         /\ \A j \in 1 .. Len(unacked) - 1 :
              unacked'[j] = IF j < i THEN unacked[j] ELSE unacked[j + 1]
         /\ unacked[i].cmd \in Cmd /\ unacked[i].cmd \in InBroker
         /\ InBroker' \subseteq InBroker
         /\ InBroker \subseteq InBroker' \cup {unacked[i].cmd}
<1> DEFINE v == RemoveAt(unacked, i)
           u == unacked
           n == Len(unacked)
<1>1. u \in Seq(Delivery) /\ i \in 1 .. n /\ n \in Nat
  BY DEF TypeOK
<1>2. /\ v \in Seq(Delivery) /\ Len(v) = n - 1
      /\ \A j \in 1 .. n - 1 : v[j] = IF j < i THEN u[j] ELSE u[j + 1]
  BY <1>1, RemoveAtOf
<1> HIDE DEF v
<1>3. /\ CommandsOf(u) \in Seq(Cmd) /\ Len(CommandsOf(u)) = n
      /\ \A j \in 1 .. n : CommandsOf(u)[j] = u[j].cmd
  BY <1>1, CommandsOfType
<1>4. /\ CommandsOf(v) \in Seq(Cmd) /\ Len(CommandsOf(v)) = n - 1
      /\ \A j \in 1 .. n - 1 : CommandsOf(v)[j] = v[j].cmd
  BY <1>2, CommandsOfType
<1>5. /\ \A x : x \in ToSet(CommandsOf(u)) <=> \E j \in 1 .. n : CommandsOf(u)[j] = x
      /\ \A x : x \in ToSet(CommandsOf(v)) <=> \E j \in 1 .. n - 1 : CommandsOf(v)[j] = x
      /\ ToSet(CommandsOf(u)) \subseteq Cmd
  BY <1>3, <1>4, ToSetOf
<1>6. ASSUME NEW j \in 1 .. n - 1
      PROVE  v[j].cmd \in ToSet(CommandsOf(u))
  <2>1. CASE j < i
    BY <1>1, <1>2, <1>3, <1>5, <2>1
  <2>2. CASE j >= i
    <3>1. j + 1 \in 1 .. n /\ v[j] = u[j + 1]
      BY <1>1, <1>2, <2>2
    <3> QED BY <1>3, <1>5, <3>1
  <2> QED BY <1>1, <2>1, <2>2
<1>7. ASSUME NEW j \in 1 .. n, j # i
      PROVE  u[j].cmd \in ToSet(CommandsOf(v))
  <2>1. CASE j < i
    <3>1. j \in 1 .. n - 1 /\ v[j] = u[j]
      BY <1>1, <1>2, <2>1
    <3> QED BY <1>4, <1>5, <3>1
  <2>2. CASE j > i
    <3>1. j - 1 \in 1 .. n - 1 /\ ~(j - 1 < i) /\ (j - 1) + 1 = j
      BY <1>1, <2>2
    <3>2. v[j - 1] = u[j]
      BY <1>2, <3>1
    <3> QED BY <1>4, <1>5, <3>1, <3>2
  <2> QED BY <1>1, <1>7, <2>1, <2>2
<1>8. ToSet(CommandsOf(v)) \subseteq ToSet(CommandsOf(u))
  BY <1>4, <1>5, <1>6
<1>9. /\ ToSet(CommandsOf(u)) \subseteq ToSet(CommandsOf(v)) \cup {u[i].cmd}
      /\ u[i].cmd \in ToSet(CommandsOf(u))
  BY <1>1, <1>3, <1>5, <1>7
<1>10. unacked' = v
  BY DEF v
<1> QED BY <1>2, <1>5, <1>8, <1>9, <1>10 DEF InBroker

(***************************************************************************)
(* Types                                                                   *)
(***************************************************************************)
NestTypes ==
  /\ pc \in [Cmd -> {"new", "connect", "assert", "wait", "retry", "sent", "failed"}]
  /\ nlink \in {"none", "up", "dead"} /\ connecting \in Cmd \cup {Timer, Nobody}
  /\ ntimer \in BOOLEAN /\ asserted \in BOOLEAN

BrokerTypes ==
  queue \in Seq(Cmd) /\ unacked \in Seq(Delivery) /\ tag \in Nat /\ lost \subseteq Cmd

LinkTypes ==
  /\ wlink \in {"none", "up", "dead"} /\ wtimer \in BOOLEAN /\ booting \in BOOLEAN
  /\ setup \in {"none", "connect", "channel", "prefetch", "consume", "answered"}
  /\ opened \in Nat /\ channel \in Nat /\ consumes \in Nat
  /\ closed \in BOOLEAN /\ isConsumerActive \in BOOLEAN /\ late \in BOOLEAN

WorkTypes ==
  /\ handlers \subseteq Handler
  /\ runs \in [Cmd -> Nat] /\ answered \subseteq Cmd
  /\ faults \in Nat /\ stale \in Nat

LEMMA TypesAre ==
  /\ TypeOK <=> NestTypes /\ BrokerTypes /\ LinkTypes /\ WorkTypes
  /\ TypeOK' <=> NestTypes' /\ BrokerTypes' /\ LinkTypes' /\ WorkTypes'
BY DEF TypeOK, NestTypes, BrokerTypes, LinkTypes, WorkTypes

LEMMA InitTypes == Init => TypeOK
<1> SUFFICES ASSUME Init PROVE TypeOK
  OBVIOUS
<1>1. <<>> \in Seq(Cmd) /\ <<>> \in Seq(Delivery)
  BY EmptySeq
<1> QED BY <1>1 DEF Init, TypeOK, Nobody

LEMMA RequeueTypes ==
  ASSUME TypeOK, Requeue PROVE BrokerTypes'
BY RequeueHolds DEF Requeue, BrokerTypes, TypeOK

LEMMA SendTypes ==
  ASSUME TypeOK, NEW c \in Cmd, Send(c)
  PROVE  /\ BrokerTypes' /\ pc' = [pc EXCEPT ![c] = "sent"]
BY SendHolds DEF Send, BrokerTypes, TypeOK

LEMMA NestStepTypes ==
  ASSUME TypeOK, NestSteps \/ (\E c \in Cmd : Publish(c)) \/ NestLinkDies \/ NestRestarts
  PROVE  TypeOK'
<1>1. NestTypes /\ BrokerTypes /\ LinkTypes /\ WorkTypes
  BY TypesAre
<1>2. LinkTypes' /\ WorkTypes'
  <2>1. WorkerUnchanged /\ faults' \in Nat
    BY DEF NestSteps, Publish, AssertQueue, Retry, Connect, NestTimer, NestNoticesLoss,
       NestLinkDies, NestRestarts, NoFault, Fault, TypeOK
  <2> QED BY <1>1, <2>1 DEF WorkerUnchanged, link, consumer, work, LinkTypes, WorkTypes
<1>3. ASSUME NEW c \in Cmd, Publish(c) PROVE NestTypes' /\ BrokerTypes'
  <2>1. CASE Send(c) /\ UNCHANGED connecting
    BY <1>1, <1>3, <2>1, SendTypes DEF Publish, NestTypes
  <2>2. CASE UNCHANGED broker
    BY <1>1, <1>3, <2>2 DEF Publish, broker, NestTypes, BrokerTypes, Send
  <2> QED BY <1>3, <2>1, <2>2 DEF Publish
<1>4. ASSUME NEW c \in Cmd, AssertQueue(c) PROVE NestTypes' /\ BrokerTypes'
  BY <1>1, <1>4, SendTypes DEF AssertQueue, NestTypes
<1>5. ASSUME NEW c \in Cmd, Retry(c) PROVE NestTypes' /\ BrokerTypes'
  BY <1>1, <1>5 DEF Retry, broker, NestTypes, BrokerTypes
<1>6. CASE Connect
  BY <1>1, <1>2, <1>6, TypesAre
  DEF Connect, Connected, broker, NestTypes, BrokerTypes, Nobody
<1>7. CASE NestTimer
  BY <1>1, <1>2, <1>7, TypesAre DEF NestTimer, broker, NestTypes, BrokerTypes
<1>8. CASE NestNoticesLoss
  BY <1>1, <1>2, <1>8, TypesAre DEF NestNoticesLoss, AfterLoss, broker, NestTypes, BrokerTypes
<1>9. CASE NestLinkDies
  BY <1>1, <1>2, <1>9, TypesAre DEF NestLinkDies, broker, NestTypes, BrokerTypes
<1>10. CASE NestRestarts
  BY <1>1, <1>2, <1>10, TypesAre DEF NestRestarts, broker, NestTypes, BrokerTypes, Nobody
<1> QED
  BY <1>2, <1>3, <1>4, <1>5, <1>6, <1>7, <1>8, <1>9, <1>10, TypesAre DEF NestSteps

LEMMA ExitTypes ==
  ASSUME TypeOK, Exit, faults' \in Nat
  PROVE  LinkTypes' /\ WorkTypes'
BY DEF Exit, TypeOK, LinkTypes, WorkTypes

LEMMA ChannelClosesTypes ==
  ASSUME LinkTypes, ChannelCloses
  PROVE  /\ setup' \in {"none", "answered"} /\ closed' = TRUE
         /\ opened' \in Nat /\ channel' \in Nat /\ consumes' \in Nat
         /\ isConsumerActive' \in BOOLEAN /\ late' \in BOOLEAN
<1>1. /\ closed' = TRUE /\ opened' = opened /\ consumes' = consumes
      /\ setup' = IF setup = "answered" THEN setup ELSE "none"
  BY DEF ChannelCloses
<1>2. CASE ~closed /\ setup # "prefetch"
  <2>1. channel' = 0 /\ isConsumerActive' = FALSE /\ late' = FALSE
    BY <1>2 DEF ChannelCloses, ActiveWhenChannelCloses
  <2> QED BY <1>1, <2>1 DEF LinkTypes
<1>3. CASE ~(~closed /\ setup # "prefetch")
  <2>1. channel' = channel /\ isConsumerActive' = isConsumerActive /\ late' = late
    BY <1>3 DEF ChannelCloses
  <2> QED BY <1>1, <2>1 DEF LinkTypes
<1> QED BY <1>2, <1>3

LEMMA AdvanceTypes ==
  ASSUME TypeOK, NEW h \in handlers, NEW next \in {"answer", "ack"}, Advance(h, next)
  PROVE  handlers' \subseteq Handler
BY DEF Advance, TypeOK, Handler

LEMMA LinkStepTypes ==
  ASSUME TypeOK,
         \/ WorkerConnect \/ WorkerTimer \/ SetupChannel \/ SetupPrefetch
         \/ SkipConsumer \/ SetupConsumer \/ ActivateConsumer
         \/ WorkerNoticesLoss \/ WorkerLinkDies \/ WorkerDies
         \/ BrokerRestarts
  PROVE  TypeOK'
<1>1. NestTypes /\ BrokerTypes /\ LinkTypes /\ WorkTypes
  BY TypesAre
<1>2. CASE WorkerConnect
  <2>1. NestTypes' /\ BrokerTypes' /\ faults' \in Nat
    BY <1>1, <1>2
    DEF WorkerConnect, nest, broker, NestTypes, BrokerTypes, WorkTypes, NoFault, Fault
  <2>2. CASE Exit
    BY <2>1, <2>2, ExitTypes, TypesAre
  <2>3. CASE ~Exit
    BY <1>1, <1>2, <2>1, <2>3, TypesAre
    DEF WorkerConnect, AfterConnect, LinkTypes, WorkTypes, consumer, work
  <2> QED BY <2>2, <2>3
<1>3. CASE WorkerTimer
  BY <1>1, <1>3, TypesAre
  DEF WorkerTimer, NoFault, nest, broker, consumer, work,
      NestTypes, BrokerTypes, LinkTypes, WorkTypes
<1>4. CASE SetupChannel
  <2>1. NestTypes' /\ BrokerTypes' /\ WorkTypes'
    BY <1>1, <1>4
    DEF SetupChannel, NoFault, nest, broker, work, NestTypes, BrokerTypes, WorkTypes
  <2>2. LinkTypes'
    <3>1. /\ wlink' = wlink /\ wtimer' = wtimer /\ booting' = booting
          /\ isConsumerActive' = isConsumerActive /\ consumes' = consumes /\ late' = late
          /\ setup' = "prefetch" /\ closed' = FALSE
          /\ opened' = opened + 1 /\ channel' = opened + 1
      BY <1>4 DEF SetupChannel
    <3>2. opened' \in Nat /\ channel' \in Nat
      BY <1>1, <3>1 DEF LinkTypes
    <3> QED BY <1>1, <3>1, <3>2, Zenon DEF LinkTypes
  <2> QED BY <2>1, <2>2, TypesAre
<1>5. CASE SetupPrefetch
  BY <1>1, <1>5, TypesAre
  DEF SetupPrefetch, NoFault, nest, broker, consumer, work,
      NestTypes, BrokerTypes, LinkTypes, WorkTypes
<1>6. CASE SkipConsumer \/ SetupConsumer \/ ActivateConsumer
  BY <1>1, <1>6, TypesAre
  DEF SkipConsumer, SetupConsumer, ActivateConsumer, consumer, NoFault, nest, broker, work,
      NestTypes, BrokerTypes, LinkTypes, WorkTypes
<1>7. CASE WorkerNoticesLoss
  <2>1. NestTypes' /\ BrokerTypes' /\ faults' \in Nat
    BY <1>1, <1>7
    DEF WorkerNoticesLoss, nest, broker, NestTypes, BrokerTypes, WorkTypes, NoFault
  <2>2. CASE Exit
    BY <2>1, <2>2, ExitTypes, TypesAre
  <2>3. CASE ~Exit
    <3>1. LinkTypes'
      <4>1. /\ wlink' = "none" /\ wtimer' = TRUE /\ booting' = booting /\ ChannelCloses
        BY <1>7, <2>3 DEF WorkerNoticesLoss
      <4> QED BY <1>1, <4>1, ChannelClosesTypes DEF LinkTypes
    <3>2. WorkTypes'
      BY <1>1, <1>7, <2>1, <2>3 DEF WorkerNoticesLoss, WorkTypes, work
    <3> QED BY <2>1, <3>1, <3>2, TypesAre
  <2> QED BY <2>2, <2>3
<1>8. CASE WorkerLinkDies
  BY <1>1, <1>8, RequeueTypes, TypesAre
  DEF WorkerLinkDies, Fault, nest, consumer, work, NestTypes, LinkTypes, WorkTypes
<1>9. CASE WorkerDies
  BY <1>1, <1>9, RequeueTypes, ExitTypes, TypesAre
  DEF WorkerDies, Fault, nest, NestTypes, WorkTypes
<1>10. CASE BrokerRestarts
  <2>1. <<>> \in Seq(Cmd) /\ <<>> \in Seq(Delivery)
    BY EmptySeq
  <2>2. InBroker \subseteq Cmd
    BY <1>1, CommandsOfType, ToSetOf DEF InBroker, BrokerTypes
  <2> QED
    BY <1>1, <1>10, <2>1, <2>2, TypesAre
    DEF BrokerRestarts, Fault, consumer, work, NestTypes, BrokerTypes, LinkTypes, WorkTypes
<1> QED BY <1>2, <1>3, <1>4, <1>5, <1>6, <1>7, <1>8, <1>9, <1>10

LEMMA CallbackTypes ==
  ASSUME TypeOK, Deliver \/ \E h \in handlers : Process(h) \/ Answer(h) \/ Ack(h)
  PROVE  TypeOK'
<1>1. NestTypes /\ BrokerTypes /\ LinkTypes /\ WorkTypes
  BY TypesAre
<1>2. CASE Deliver
  <2>1. BrokerTypes'
    BY <1>1, <1>2, DeliverHolds DEF Deliver, BrokerTypes
  <2>2. NestTypes' /\ LinkTypes'
    BY <1>1, <1>2 DEF Deliver, nest, link, consumer, NestTypes, LinkTypes
  <2>3. handlers' \subseteq Handler
    BY <1>1, <1>2, DeliverHolds DEF Deliver, Handler, LinkTypes, BrokerTypes, WorkTypes
  <2>4. WorkTypes'
    BY <1>1, <1>2, <2>3 DEF Deliver, NoFault, WorkTypes
  <2> QED BY <2>1, <2>2, <2>4, TypesAre
<1>3. ASSUME NEW h \in handlers, Process(h) PROVE TypeOK'
  <2>1. NestTypes' /\ BrokerTypes' /\ LinkTypes'
    BY <1>1, <1>3
    DEF Process, nest, broker, link, consumer, NestTypes, BrokerTypes, LinkTypes
  <2>2. handlers' \subseteq Handler /\ h.cmd \in Cmd
    BY <1>1, <1>3, AdvanceTypes DEF Process, WorkTypes, Handler
  <2>3. WorkTypes'
    BY <1>1, <1>3, <2>2 DEF Process, NoFault, WorkTypes
  <2> QED BY <2>1, <2>3, TypesAre
<1>4. ASSUME NEW h \in handlers, Answer(h) PROVE TypeOK'
  <2>1. NestTypes' /\ BrokerTypes' /\ LinkTypes'
    BY <1>1, <1>4
    DEF Answer, nest, broker, link, consumer, NestTypes, BrokerTypes, LinkTypes
  <2>2. handlers' \subseteq Handler /\ h.cmd \in Cmd
    BY <1>1, <1>4, AdvanceTypes DEF Answer, WorkTypes, Handler
  <2>3. WorkTypes'
    BY <1>1, <1>4, <2>2 DEF Answer, NoFault, WorkTypes
  <2> QED BY <2>1, <2>3, TypesAre
<1>5. ASSUME NEW h \in handlers, Ack(h) PROVE TypeOK'
  <2>1. NestTypes' /\ faults' \in Nat
    BY <1>1, <1>5 DEF Ack, NoFault, nest, NestTypes, WorkTypes
  <2>2. CASE UNCHANGED <<broker, consumer, link, runs, answered, stale>>
                /\ handlers' = handlers \ {h}
    BY <1>1, <2>1, <2>2, TypesAre
    DEF broker, consumer, link, BrokerTypes, LinkTypes, WorkTypes
  <2>3. ASSUME NEW i \in Acknowledged(h), unacked' = RemoveAt(unacked, i),
               queue' = PutBack(h) \o queue, UNCHANGED <<tag, lost>>
        PROVE  BrokerTypes'
    <3>1. queue' = queue /\ i \in DOMAIN unacked
      BY <1>1, <2>3, ConcatEmptySeq DEF PutBack, Acknowledged, BrokerTypes
    <3> QED BY <1>1, <2>3, <3>1, AckHolds DEF BrokerTypes
  <2>4. CASE /\ handlers' = handlers \ {h}
             /\ stale' = stale + (IF h.ch # channel THEN 1 ELSE 0)
             /\ \/ \E i \in Acknowledged(h) :
                     /\ unacked' = RemoveAt(unacked, i)
                     /\ queue' = PutBack(h) \o queue
                     /\ UNCHANGED <<tag, lost, consumer, setup>>
                \/ Requeue /\ ChannelCloses
             /\ UNCHANGED <<wlink, wtimer, booting, runs, answered>>
    <3>1. BrokerTypes'
      BY <2>3, <2>4, RequeueTypes
    <3>2. LinkTypes'
      <4>1. CASE UNCHANGED <<consumer, setup>>
        BY <1>1, <2>4, <4>1 DEF consumer, LinkTypes
      <4>2. CASE ChannelCloses
        BY <1>1, <2>4, <4>2, ChannelClosesTypes DEF LinkTypes
      <4> QED BY <2>4, <4>1, <4>2
    <3>3. stale' \in Nat
      BY <1>1, <2>4 DEF WorkTypes
    <3>4. WorkTypes'
      BY <1>1, <2>1, <2>4, <3>3 DEF WorkTypes
    <3> QED BY <2>1, <3>1, <3>2, <3>4, TypesAre
  <2>5. CASE Requeue /\ Exit
    BY <2>1, <2>5, RequeueTypes, ExitTypes, TypesAre
  <2> QED BY <1>5, <2>2, <2>4, <2>5 DEF Ack
<1> QED BY <1>2, <1>3, <1>4, <1>5

LEMMA StepTypes == TypeOK /\ [Next]_vars => TypeOK'
<1> SUFFICES ASSUME TypeOK, [Next]_vars PROVE TypeOK'
  OBVIOUS
<1>1. CASE Next
  BY <1>1, NestStepTypes, LinkStepTypes, CallbackTypes DEF Next, WorkerSteps, Environment
<1>2. CASE UNCHANGED vars
  <2>1. NestTypes' /\ BrokerTypes' /\ LinkTypes' /\ WorkTypes'
    BY <1>2, TypesAre
    DEF vars, nest, broker, link, consumer, work, NestTypes, BrokerTypes, LinkTypes, WorkTypes
  <2> QED BY <2>1, TypesAre
<1> QED BY <1>1, <1>2

\* Whatever connections and processes do, every variable keeps its type: no step takes
\* from the broker, or works on, what is not a command.
THEOREM TypeCorrect == Spec => []TypeOK
BY InitTypes, StepTypes, PTL DEF Spec

(***************************************************************************)
(* The inductive invariant                                                 *)
(***************************************************************************)
\* What the broker holds or lost was sent, and who connects waits for it.
SentOK ==
  /\ \A c \in Cmd : c \in lost \/ c \in InBroker => pc[c] = "sent"
  /\ connecting \in Cmd => pc[connecting] = "connect"

\* A callback works on a command that was sent, on a channel that was opened, and only
\* once it has carried its command out does it answer and acknowledge.
HandlersOK ==
  \A h \in handlers :
    /\ pc[h.cmd] = "sent" /\ h.ch <= opened
    /\ h.pc # "process" => runs[h.cmd] > 0

\* The only channel that may be open is the one created last, and it goes with its
\* connection.
LinkOK ==
  /\ wlink = "none" => closed
  /\ setup = "connect" => wlink = "none"
  /\ closed \/ channel = opened

\* On the open channel a number is one delivery's, and a callback that is about to
\* acknowledge has answered: answer and acknowledgement took the same connection.
Usable == ~closed /\ wlink = "up"

ChannelOK ==
  /\ \A i \in 1 .. Len(unacked) : unacked[i].tag <= tag
  /\ Usable =>
       \A h \in handlers : h.ch = opened =>
         /\ h.tag <= tag
         /\ \A i \in 1 .. Len(unacked) : unacked[i].tag = h.tag => unacked[i].cmd = h.cmd
         /\ h.pc = "ack" => h.cmd \in answered

IInv == TypeOK /\ SentOK /\ HandlersOK /\ LinkOK /\ ChannelOK

LEMMA InitHolds == Init => IInv
<1> SUFFICES ASSUME Init PROVE IInv
  OBVIOUS
<1>1. InBroker = {}
  BY CommandsOfEmpty DEF Init, InBroker
<1>2. connecting \notin Cmd /\ Len(unacked) = 0
  BY DeliveryAssumption DEF Init, Nobody, Cmd
<1> QED
  BY <1>1, <1>2, InitTypes
  DEF Init, IInv, SentOK, HandlersOK, LinkOK, ChannelOK, Usable

\* The publisher's steps leave what was sent sent, and add to the broker's commands only
\* what they send.
LEMMA NestStepSends ==
  ASSUME IInv, NestSteps \/ (\E c \in Cmd : Publish(c)) \/ NestLinkDies \/ NestRestarts
  PROVE  /\ WorkerUnchanged /\ UNCHANGED <<unacked, tag>>
         /\ \A c \in Cmd : pc[c] = "sent" => pc'[c] = "sent"
         /\ SentOK'
<1>0. /\ pc \in [Cmd -> {"new", "connect", "assert", "wait", "retry", "sent", "failed"}]
      /\ \A c \in Cmd : c \in lost \/ c \in InBroker => pc[c] = "sent"
      /\ connecting \in Cmd => pc[connecting] = "connect"
      /\ Timer \notin Cmd /\ Nobody \notin Cmd /\ TypeOK
  BY DeliveryAssumption DEF IInv, TypeOK, SentOK, Timer, Nobody, Cmd
<1>1. ASSUME UNCHANGED <<queue, unacked, tag, lost>>
      PROVE  InBroker' = InBroker
  BY <1>1 DEF InBroker
<1>2. ASSUME NEW c \in Cmd, Send(c), pc[c] \in {"new", "assert", "retry"},
             UNCHANGED connecting
      PROVE  /\ UNCHANGED <<unacked, tag>> /\ SentOK'
             /\ \A d \in Cmd : pc[d] = "sent" => pc'[d] = "sent"
  <2>1. /\ UNCHANGED <<unacked, tag>> /\ pc' = [pc EXCEPT ![c] = "sent"]
        /\ lost' \subseteq lost \cup {c}
    BY <1>2 DEF Send
  <2>2. InBroker' \subseteq InBroker \cup {c}
    BY <1>0, <1>2, SendHolds
  <2> QED BY <1>0, <1>2, <2>1, <2>2 DEF SentOK
<1>3. ASSUME NEW c \in Cmd, Publish(c)
      PROVE  /\ WorkerUnchanged /\ UNCHANGED <<unacked, tag>>
             /\ \A d \in Cmd : pc[d] = "sent" => pc'[d] = "sent"
             /\ SentOK'
  <2>1. CASE Send(c) /\ UNCHANGED connecting
    BY <1>2, <1>3, <2>1 DEF Publish
  <2>2. CASE pc' = [pc EXCEPT ![c] = "assert"] /\ UNCHANGED <<broker, connecting>>
    BY <1>0, <1>1, <1>3, <2>2 DEF Publish, broker, SentOK
  <2>3. CASE pc' = [pc EXCEPT ![c] = "connect"] /\ connecting' = c /\ UNCHANGED broker
    BY <1>0, <1>1, <1>3, <2>3 DEF Publish, broker, SentOK
  <2>4. CASE pc' = [pc EXCEPT ![c] = "failed"] /\ UNCHANGED <<broker, connecting>>
    BY <1>0, <1>1, <1>3, <2>4 DEF Publish, broker, SentOK
  <2> QED BY <1>3, <2>1, <2>2, <2>3, <2>4 DEF Publish
<1>4. ASSUME NEW c \in Cmd, AssertQueue(c)
      PROVE  /\ WorkerUnchanged /\ UNCHANGED <<unacked, tag>>
             /\ \A d \in Cmd : pc[d] = "sent" => pc'[d] = "sent"
             /\ SentOK'
  BY <1>2, <1>4 DEF AssertQueue
<1>5. ASSUME NEW c \in Cmd, Retry(c)
      PROVE  /\ WorkerUnchanged /\ UNCHANGED <<unacked, tag>>
             /\ \A d \in Cmd : pc[d] = "sent" => pc'[d] = "sent"
             /\ SentOK'
  BY <1>0, <1>1, <1>5 DEF Retry, broker, SentOK
<1>6. CASE Connect
  BY <1>0, <1>1, <1>6 DEF Connect, Connected, broker, SentOK
<1>7. CASE NestTimer
  BY <1>0, <1>1, <1>7 DEF NestTimer, broker, SentOK
<1>8. CASE NestNoticesLoss
  BY <1>0, <1>1, <1>8 DEF NestNoticesLoss, AfterLoss, broker, SentOK
<1>9. CASE NestLinkDies
  BY <1>0, <1>1, <1>9 DEF NestLinkDies, broker, SentOK
<1>10. CASE NestRestarts
  BY <1>0, <1>1, <1>10 DEF NestRestarts, broker, SentOK
<1> QED BY <1>3, <1>4, <1>5, <1>6, <1>7, <1>8, <1>9, <1>10 DEF NestSteps

LEMMA NestStepHolds ==
  ASSUME IInv, NestSteps \/ (\E c \in Cmd : Publish(c)) \/ NestLinkDies \/ NestRestarts
  PROVE  IInv'
<1>1. /\ WorkerUnchanged /\ UNCHANGED <<unacked, tag>> /\ SentOK'
      /\ \A c \in Cmd : pc[c] = "sent" => pc'[c] = "sent"
  BY NestStepSends
<1>2. TypeOK'
  BY NestStepTypes DEF IInv
<1>3. HandlersOK'
  <2>1. \A h \in handlers : h.cmd \in Cmd
    BY DEF IInv, TypeOK, Handler
  <2> QED BY <1>1, <2>1 DEF WorkerUnchanged, consumer, work, IInv, HandlersOK
<1>4. LinkOK'
  BY <1>1 DEF WorkerUnchanged, link, consumer, IInv, LinkOK
<1>5. ChannelOK'
  BY <1>1 DEF WorkerUnchanged, link, consumer, work, IInv, ChannelOK, Usable
<1> QED BY <1>1, <1>2, <1>3, <1>4, <1>5 DEF IInv

\* When nothing usable is left, or the usable channel and its callbacks stay, what was
\* true of the channel stays true.
LEMMA ChannelKept ==
  ASSUME IInv, UNCHANGED <<answered, opened>>, handlers' \subseteq handlers,
         \/ unacked' = <<>>
         \/ UNCHANGED <<unacked, tag>>,
         Usable' => Usable /\ UNCHANGED <<unacked, tag>>
  PROVE  ChannelOK'
<1>1. unacked' = <<>> => Len(unacked') = 0
  OBVIOUS
<1> QED BY <1>1 DEF IInv, ChannelOK

\* Nothing of the broker's or the publisher's is added by a step of the worker's link.
LEMMA SentKept ==
  ASSUME IInv, UNCHANGED <<pc, connecting>>,
         InBroker' \subseteq InBroker, lost' \subseteq lost \cup InBroker
  PROVE  SentOK'
BY DEF IInv, SentOK

LEMMA HandlersKept ==
  ASSUME IInv, UNCHANGED <<pc, runs>>, handlers' \subseteq handlers,
         opened' \in Nat, opened' >= opened
  PROVE  HandlersOK'
<1>1. opened \in Nat /\ \A h \in handlers : h.ch \in Nat
  BY DEF IInv, TypeOK, Handler
<1> QED BY <1>1 DEF IInv, HandlersOK

LEMMA LinkStepHolds ==
  ASSUME IInv,
         \/ WorkerConnect \/ WorkerTimer \/ SetupChannel \/ SetupPrefetch
         \/ SkipConsumer \/ SetupConsumer \/ ActivateConsumer
         \/ WorkerNoticesLoss \/ WorkerLinkDies \/ WorkerDies
         \/ BrokerRestarts
  PROVE  IInv'
<1>1. TypeOK /\ TypeOK' /\ opened \in Nat /\ opened' \in Nat
  BY LinkStepTypes DEF IInv, TypeOK
<1>2. ASSUME UNCHANGED <<queue, unacked, tag, lost>>
      PROVE  InBroker' = InBroker
  BY <1>2 DEF InBroker
<1>3. CASE WorkerConnect
  <2>1. SentOK'
    BY <1>2, <1>3, SentKept DEF WorkerConnect, nest, broker
  <2>2. /\ handlers' \subseteq handlers /\ UNCHANGED <<pc, runs, opened, answered>>
        /\ UNCHANGED <<unacked, tag>> /\ closed'
    BY <1>3 DEF WorkerConnect, nest, broker, consumer, work, Exit, IInv, LinkOK
  <2>3. HandlersOK' /\ ChannelOK'
    BY <1>1, <2>2, HandlersKept, ChannelKept DEF Usable
  <2>4. LinkOK'
    BY <1>3, <2>2 DEF WorkerConnect, AfterConnect, Exit, IInv, LinkOK
  <2> QED BY <1>1, <2>1, <2>3, <2>4 DEF IInv
<1>4. CASE WorkerTimer \/ SetupPrefetch \/ SkipConsumer \/ SetupConsumer \/ ActivateConsumer
  <2>1. /\ UNCHANGED <<pc, connecting, queue, unacked, tag, lost, wlink, opened, channel,
                        closed, handlers, runs, answered>>
        /\ setup' = "connect" => wlink = "none"
    BY <1>4
    DEF WorkerTimer, SetupPrefetch, SkipConsumer, SetupConsumer, ActivateConsumer, nest,
        broker, consumer, work, IInv, LinkOK
  <2>2. SentOK' /\ HandlersOK' /\ ChannelOK'
    BY <1>1, <1>2, <2>1, SentKept, HandlersKept, ChannelKept DEF Usable
  <2>3. LinkOK'
    BY <2>1 DEF IInv, LinkOK
  <2> QED BY <1>1, <2>2, <2>3 DEF IInv
<1>5. CASE SetupChannel
  <2>1. /\ UNCHANGED <<pc, connecting, queue, unacked, tag, lost, wlink, handlers, runs, answered>>
        /\ opened' = opened + 1 /\ channel' = opened + 1 /\ setup' = "prefetch"
        /\ wlink = "up"
    BY <1>5 DEF SetupChannel, nest, broker, work
  <2>2. SentOK' /\ HandlersOK'
    BY <1>1, <1>2, <2>1, SentKept, HandlersKept
  <2>3. \A h \in handlers' : h.ch # opened'
    <3>1. \A h \in handlers : h.ch \in Nat /\ h.ch <= opened
      BY DEF IInv, TypeOK, Handler, HandlersOK
    <3> QED BY <1>1, <2>1, <3>1
  <2>4. ChannelOK'
    BY <2>1, <2>3 DEF IInv, ChannelOK
  <2>5. LinkOK'
    BY <2>1 DEF LinkOK
  <2> QED BY <1>1, <2>2, <2>4, <2>5 DEF IInv
<1>6. CASE WorkerNoticesLoss
  <2>1. SentOK'
    BY <1>2, <1>6, SentKept DEF WorkerNoticesLoss, nest, broker
  <2>2. /\ handlers' \subseteq handlers /\ UNCHANGED <<pc, runs, opened, answered>>
        /\ UNCHANGED <<unacked, tag>> /\ closed' /\ wlink' = "none"
    BY <1>6 DEF WorkerNoticesLoss, ChannelCloses, nest, broker, work, Exit
  <2>3. HandlersOK' /\ ChannelOK'
    BY <1>1, <2>2, HandlersKept, ChannelKept DEF Usable
  <2>4. LinkOK'
    BY <2>2 DEF LinkOK
  <2> QED BY <1>1, <2>1, <2>3, <2>4 DEF IInv
<1>7. CASE WorkerLinkDies \/ WorkerDies
  <2>1. /\ Requeue /\ UNCHANGED <<pc, connecting, runs, opened, answered, lost>>
        /\ handlers' \subseteq handlers
        /\ wlink' # "up"
    BY <1>7 DEF WorkerLinkDies, WorkerDies, Requeue, Exit, nest, consumer, work
  <2>2. SentOK'
    BY <1>1, <2>1, RequeueHolds, SentKept
  <2>3. HandlersOK' /\ ChannelOK'
    BY <1>1, <2>1, RequeueHolds, HandlersKept, ChannelKept DEF Usable
  <2>4. LinkOK'
    BY <1>7 DEF WorkerLinkDies, WorkerDies, Exit, consumer, IInv, LinkOK
  <2> QED BY <1>1, <2>2, <2>3, <2>4 DEF IInv
<1>8. CASE BrokerRestarts
  <2>1. /\ UNCHANGED <<pc, connecting, runs, opened, answered, handlers, setup, channel, closed>>
        /\ queue' = <<>> /\ unacked' = <<>> /\ lost' = lost \cup InBroker
        /\ wlink' = IF wlink = "up" THEN "dead" ELSE wlink
    BY <1>8 DEF BrokerRestarts, consumer, work
  <2>2. InBroker' = {}
    BY <2>1, CommandsOfEmpty DEF InBroker
  <2>3. SentOK' /\ HandlersOK'
    BY <1>1, <2>1, <2>2, SentKept, HandlersKept
  <2>4. ChannelOK'
    BY <2>1, ChannelKept DEF Usable
  <2>5. LinkOK'
    BY <2>1 DEF IInv, LinkOK
  <2> QED BY <1>1, <2>3, <2>4, <2>5 DEF IInv
<1> QED BY <1>3, <1>4, <1>5, <1>6, <1>7, <1>8

LEMMA DeliverKeeps ==
  ASSUME IInv, Deliver PROVE IInv'
<1> DEFINE n == Len(unacked)
           d == [tag |-> tag + 1, cmd |-> Head(queue)]
           new == [cmd |-> Head(queue), ch |-> opened, tag |-> tag + 1, pc |-> "process"]
<1>1. /\ TypeOK /\ TypeOK' /\ opened \in Nat /\ tag \in Nat /\ unacked \in Seq(Delivery)
      /\ \A h \in handlers : h.tag \in Nat
  BY CallbackTypes DEF IInv, TypeOK, Handler
<1>2. /\ UNCHANGED <<pc, connecting, lost, wlink, setup, opened, channel, closed, runs,
                      answered>>
      /\ handlers' = handlers \cup {new} /\ tag' = tag + 1
  BY DEF Deliver, nest, link, consumer
<1>3. /\ unacked' = Append(unacked, d) /\ Head(queue) \in InBroker /\ InBroker' = InBroker
      /\ Head(queue) \in Cmd
  BY <1>1, DeliverHolds
<1>4. SentOK'
  BY <1>2, <1>3, SentKept
<1>5. HandlersOK'
  BY <1>1, <1>2, <1>3 DEF IInv, HandlersOK, SentOK
<1>6. LinkOK'
  BY <1>2 DEF IInv, LinkOK
<1>7. /\ n \in Nat /\ Len(unacked') = n + 1
      /\ \A i \in 1 .. n + 1 : unacked'[i] = IF i <= n THEN unacked[i] ELSE d
      /\ \A i \in 1 .. n : unacked[i].tag \in Nat /\ unacked[i].tag <= tag
  <2>1. \A i \in 1 .. n : unacked[i] \in Delivery /\ unacked[i].tag <= tag
    BY <1>1, ElementOfSeq DEF IInv, ChannelOK
  <2>2. \A x \in Delivery : x.tag \in Nat
    BY DEF Delivery
  <2>3. /\ n \in Nat /\ Len(Append(unacked, d)) = n + 1
        /\ \A i \in 1 .. n + 1 : Append(unacked, d)[i] = IF i <= n THEN unacked[i] ELSE d
    BY <1>1
  <2> QED BY <1>3, <2>1, <2>2, <2>3
<1>8. ChannelOK'
  <2>1. \A i \in 1 .. Len(unacked') : unacked'[i].tag <= tag'
    BY <1>1, <1>2, <1>7
  <2>2. ASSUME Usable, NEW h \in handlers, h.ch = opened
        PROVE  /\ h.tag <= tag + 1
               /\ \A i \in 1 .. n + 1 : unacked'[i].tag = h.tag => unacked'[i].cmd = h.cmd
               /\ h.pc = "ack" => h.cmd \in answered
    <3>1. /\ h.tag <= tag /\ (h.pc = "ack" => h.cmd \in answered)
          /\ \A i \in 1 .. n : unacked[i].tag = h.tag => unacked[i].cmd = h.cmd
      BY <2>2 DEF IInv, ChannelOK
    <3>2. h.tag # tag + 1 /\ h.tag <= tag + 1
      BY <1>1, <3>1
    <3> QED BY <1>7, <3>1, <3>2
  <2>3. /\ new.tag <= tag + 1 /\ new.pc # "ack"
        /\ \A i \in 1 .. n + 1 : unacked'[i].tag = new.tag => unacked'[i].cmd = new.cmd
    BY <1>1, <1>7
  <2>4. Usable' <=> Usable
    BY <1>2 DEF Usable
  <2> HIDE DEF d, new
  <2> QED BY <1>2, <1>7, <2>1, <2>2, <2>3, <2>4 DEF ChannelOK
<1> QED BY <1>1, <1>4, <1>5, <1>6, <1>8 DEF IInv

LEMMA ProcessKeeps ==
  ASSUME IInv, NEW h \in handlers, Process(h) PROVE IInv'
<1> DEFINE new == [h EXCEPT !.pc = "answer"]
<1>1. /\ TypeOK /\ TypeOK' /\ h \in Handler /\ h.cmd \in Cmd /\ runs \in [Cmd -> Nat]
      /\ \A k \in handlers : k.cmd \in Cmd
  BY CallbackTypes DEF IInv, TypeOK, Handler
<1>2. /\ UNCHANGED <<pc, connecting, queue, unacked, tag, lost, wlink, setup, opened, channel,
                      closed, answered>>
      /\ runs' = [runs EXCEPT ![h.cmd] = @ + 1]
      /\ handlers' = (handlers \ {h}) \cup {new}
  BY DEF Process, Advance, nest, broker, link, consumer
<1>3. new.cmd = h.cmd /\ new.ch = h.ch /\ new.tag = h.tag /\ new.pc = "answer"
  BY <1>1 DEF Handler
<1>4. SentOK' /\ LinkOK'
  BY <1>2 DEF IInv, SentOK, LinkOK, InBroker
<1>5. HandlersOK'
  <2>1. runs'[h.cmd] > 0 /\ \A c \in Cmd : runs[c] > 0 => runs'[c] > 0
    BY <1>1, <1>2
  <2> HIDE DEF new
  <2> QED BY <1>1, <1>2, <1>3, <2>1 DEF IInv, HandlersOK
<1>6. ChannelOK'
  <2> HIDE DEF new
  <2> QED BY <1>1, <1>2, <1>3 DEF IInv, ChannelOK, Usable
<1> QED BY <1>1, <1>4, <1>5, <1>6 DEF IInv

LEMMA AnswerKeeps ==
  ASSUME IInv, NEW h \in handlers, Answer(h) PROVE IInv'
<1> DEFINE new == [h EXCEPT !.pc = "ack"]
<1>1. TypeOK /\ TypeOK' /\ h \in Handler
  BY CallbackTypes DEF IInv, TypeOK
<1>2. /\ UNCHANGED <<pc, connecting, queue, unacked, tag, lost, wlink, setup, opened, channel,
                      closed, runs>>
      /\ answered' = IF wlink = "up" THEN answered \cup {h.cmd} ELSE answered
      /\ handlers' = (handlers \ {h}) \cup {new} /\ h.pc = "answer"
  BY DEF Answer, Advance, nest, broker, link, consumer
<1>3. new.cmd = h.cmd /\ new.ch = h.ch /\ new.tag = h.tag /\ new.pc = "ack"
  BY <1>1 DEF Handler
<1>4. SentOK' /\ LinkOK'
  BY <1>2 DEF IInv, SentOK, LinkOK, InBroker
<1> HIDE DEF new
<1>5. HandlersOK'
  BY <1>2, <1>3 DEF IInv, HandlersOK
<1>6. ChannelOK'
  BY <1>2, <1>3 DEF IInv, ChannelOK, Usable
<1> QED BY <1>1, <1>4, <1>5, <1>6 DEF IInv

LEMMA AckKeeps ==
  ASSUME IInv, NEW h \in handlers, Ack(h) PROVE IInv'
<1>1. /\ TypeOK /\ TypeOK' /\ opened \in Nat /\ unacked \in Seq(Delivery) /\ queue \in Seq(Cmd)
      /\ UNCHANGED <<pc, connecting, runs, answered, opened, lost>>
      /\ handlers' \subseteq handlers
  BY CallbackTypes
  DEF IInv, TypeOK, Ack, ChannelCloses, Exit, Requeue, nest, broker, consumer
<1>2. HandlersOK'
  BY <1>1, HandlersKept
<1>3. CASE UNCHANGED <<broker, consumer, link>>
  <2>1. InBroker' = InBroker
    BY <1>3 DEF broker, InBroker
  <2>2. SentOK' /\ LinkOK' /\ ChannelOK'
    BY <1>1, <1>3, <2>1, SentKept, ChannelKept
    DEF broker, consumer, link, Usable, IInv, LinkOK
  <2> QED BY <1>1, <1>2, <2>2 DEF IInv
<1>4. ASSUME NEW i \in Acknowledged(h), unacked' = RemoveAt(unacked, i),
             queue' = PutBack(h) \o queue, UNCHANGED <<tag, consumer, setup, wlink>>
      PROVE  IInv'
  <2> DEFINE n == Len(unacked)
  <2>1. queue' = queue /\ i \in DOMAIN unacked
    BY <1>1, <1>4, ConcatEmptySeq DEF PutBack, Acknowledged
  <2>2. /\ Len(unacked') = n - 1 /\ InBroker' \subseteq InBroker /\ n \in Nat
        /\ \A j \in 1 .. n - 1 :
             unacked'[j] = IF j < i THEN unacked[j] ELSE unacked[j + 1]
    BY <1>1, <1>4, <2>1, AckHolds
  <2>3. SentOK' /\ LinkOK'
    BY <1>1, <1>4, <2>2, SentKept DEF consumer, IInv, LinkOK
  <2>4. \A j \in 1 .. n - 1 : \E k \in 1 .. n : unacked'[j] = unacked[k]
    BY <2>1, <2>2
  <2>5. ChannelOK'
    <3>1. \A j \in 1 .. Len(unacked') : unacked'[j].tag <= tag'
      BY <1>4, <2>2, <2>4 DEF IInv, ChannelOK
    <3>2. Usable' <=> Usable
      BY <1>4 DEF consumer, Usable
    <3>3. ASSUME Usable, NEW k \in handlers, k.ch = opened
          PROVE  /\ k.tag <= tag /\ (k.pc = "ack" => k.cmd \in answered)
                 /\ \A j \in 1 .. n - 1 :
                      unacked'[j].tag = k.tag => unacked'[j].cmd = k.cmd
      BY <2>4, <3>3 DEF IInv, ChannelOK
    <3> QED BY <1>1, <1>4, <2>2, <3>1, <3>2, <3>3 DEF ChannelOK
  <2> QED BY <1>1, <1>2, <2>3, <2>5 DEF IInv
<1>5. ASSUME Requeue, closed',
             wlink' = "none" \/ UNCHANGED wlink,
             setup' = "connect" => wlink' = "none"
      PROVE  IInv'
  <2>1. InBroker' = InBroker /\ unacked' = <<>>
    BY <1>1, <1>5, RequeueHolds
  <2>2. SentOK' /\ ChannelOK' /\ LinkOK'
    BY <1>1, <1>5, <2>1, SentKept, ChannelKept DEF Usable, LinkOK
  <2> QED BY <1>1, <1>2, <2>2 DEF IInv
<1>6. CASE Requeue /\ Exit
  BY <1>5, <1>6 DEF Exit
<1>7. CASE Requeue /\ ChannelCloses /\ UNCHANGED wlink
  BY <1>5, <1>7 DEF ChannelCloses
<1> QED BY <1>3, <1>4, <1>6, <1>7 DEF Ack

LEMMA StepHolds == IInv /\ [Next]_vars => IInv'
<1> SUFFICES ASSUME IInv, [Next]_vars PROVE IInv'
  OBVIOUS
<1>1. CASE Next
  BY <1>1, NestStepHolds, LinkStepHolds, DeliverKeeps, ProcessKeeps, AnswerKeeps, AckKeeps
  DEF Next, WorkerSteps, Environment
<1>2. CASE UNCHANGED vars
  <2>1. TypeOK'
    BY <1>2, StepTypes DEF IInv
  <2>2. SentOK' /\ HandlersOK' /\ LinkOK' /\ ChannelOK'
    BY <1>2
    DEF vars, nest, broker, link, consumer, work, IInv, SentOK, HandlersOK, LinkOK,
        ChannelOK, Usable, InBroker
  <2> QED BY <2>1, <2>2 DEF IInv
<1> QED BY <1>1, <1>2

LEMMA InvariantHolds == Spec => []IInv
BY InitHolds, StepHolds, PTL DEF Spec

(***************************************************************************)
(* No command is twice in the broker                                       *)
(***************************************************************************)
LEMMA MovedHead ==
  ASSUME NEW S, NEW s \in Seq(S), NEW t \in Seq(S), t # <<>>
  PROVE  Append(s, Head(t)) \o Tail(t) = s \o t
<1> DEFINE a == Append(s, Head(t))
           b == Tail(t)
           l == a \o b
           r == s \o t
<1>1. /\ Len(s) \in Nat /\ Len(t) \in Nat /\ Len(t) >= 1 /\ Head(t) = t[1] /\ t[1] \in S
      /\ b \in Seq(S) /\ Len(b) = Len(t) - 1
      /\ \A i \in 1 .. Len(t) - 1 : b[i] = t[i + 1]
  OBVIOUS
<1>2. /\ a \in Seq(S) /\ Len(a) = Len(s) + 1
      /\ \A i \in 1 .. Len(s) + 1 : a[i] = IF i <= Len(s) THEN s[i] ELSE t[1]
  BY <1>1
<1> HIDE DEF a, b
<1>3. /\ l \in Seq(S) /\ Len(l) = Len(a) + Len(b)
      /\ \A i \in 1 .. Len(a) + Len(b) : l[i] = IF i <= Len(a) THEN a[i] ELSE b[i - Len(a)]
  BY <1>1, <1>2, ConcatProperties
<1>4. /\ r \in Seq(S) /\ Len(r) = Len(s) + Len(t)
      /\ \A i \in 1 .. Len(s) + Len(t) : r[i] = IF i <= Len(s) THEN s[i] ELSE t[i - Len(s)]
  BY ConcatProperties
<1> HIDE DEF l, r
<1>5. Len(l) = Len(r) /\ Len(a) + Len(b) = Len(s) + Len(t)
  BY <1>1, <1>2, <1>3, <1>4
<1>6. ASSUME NEW i \in 1 .. Len(l) PROVE l[i] = r[i]
  <2>1. CASE i <= Len(s)
    <3>1. /\ i <= Len(a) /\ i \in 1 .. Len(a) + Len(b) /\ i \in 1 .. Len(s) + 1
          /\ i \in 1 .. Len(s) + Len(t)
      BY <1>1, <1>2, <1>3, <1>5, <2>1
    <3> QED BY <1>2, <1>3, <1>4, <2>1, <3>1
  <2>2. CASE i = Len(s) + 1
    <3>1. i - Len(s) = 1 /\ i <= Len(a) /\ ~(i <= Len(s)) /\ i \in 1 .. Len(s) + 1
      BY <1>1, <1>2, <2>2
    <3> QED BY <1>2, <1>3, <1>4, <1>5, <3>1
  <2>3. CASE i > Len(s) + 1
    <3>1. /\ i - Len(a) \in 1 .. Len(t) - 1 /\ (i - Len(a)) + 1 = i - Len(s)
          /\ ~(i <= Len(a)) /\ ~(i <= Len(s))
      BY <1>1, <1>2, <1>3, <1>5, <2>3
    <3> QED BY <1>1, <1>3, <1>4, <1>5, <3>1
  <2> QED BY <1>1, <1>3, <1>5, <2>1, <2>2, <2>3
<1>7. l = r
  BY <1>3, <1>4, <1>5, <1>6, SeqEqual
<1> QED BY <1>7 DEF a, b, l, r

LEMMA AppendedOnce ==
  ASSUME NEW S, NEW s \in Seq(S), NEW t \in Seq(S), NEW e \in S,
         IsInjective(s \o t), e \notin ToSet(s \o t)
  PROVE  IsInjective(s \o Append(t, e))
<1> DEFINE r == s \o t
           a == Append(t, e)
           l == s \o a
<1>1. /\ Len(s) \in Nat /\ Len(t) \in Nat
      /\ a \in Seq(S) /\ Len(a) = Len(t) + 1
      /\ \A i \in 1 .. Len(t) + 1 : a[i] = IF i <= Len(t) THEN t[i] ELSE e
  OBVIOUS
<1>2. /\ r \in Seq(S) /\ Len(r) = Len(s) + Len(t)
      /\ \A i \in 1 .. Len(s) + Len(t) : r[i] = IF i <= Len(s) THEN s[i] ELSE t[i - Len(s)]
  BY ConcatProperties
<1> HIDE DEF a
<1>3. /\ l \in Seq(S) /\ Len(l) = Len(s) + Len(a)
      /\ \A i \in 1 .. Len(s) + Len(a) : l[i] = IF i <= Len(s) THEN s[i] ELSE a[i - Len(s)]
  BY <1>1, ConcatProperties
<1>4. \A x : x \in ToSet(r) <=> \E i \in 1 .. Len(r) : r[i] = x
  BY <1>2, ToSetOf
<1>5. IsInjective(r) /\ e \notin ToSet(r) /\ DOMAIN r = 1 .. Len(r) /\ DOMAIN l = 1 .. Len(l)
  BY <1>2, <1>3
<1> HIDE DEF l, r
<1>6. Len(l) = Len(r) + 1 /\ Len(r) \in Nat
  BY <1>1, <1>2, <1>3
<1>7. ASSUME NEW i \in 1 .. Len(r) PROVE l[i] = r[i]
  <2>1. CASE i <= Len(s)
    BY <1>1, <1>2, <1>3, <1>6, <2>1
  <2>2. CASE i > Len(s)
    <3>1. i - Len(s) \in 1 .. Len(t) /\ ~(i <= Len(s)) /\ i \in 1 .. Len(s) + Len(a)
      BY <1>1, <1>2, <2>2
    <3>2. i - Len(s) \in 1 .. Len(t) + 1 /\ i - Len(s) <= Len(t)
      BY <1>1, <3>1
    <3> QED BY <1>1, <1>2, <1>3, <3>1, <3>2
  <2> QED BY <1>1, <1>2, <2>1, <2>2
<1>8. l[Len(r) + 1] = e
  <2>1. /\ (Len(r) + 1) - Len(s) = Len(t) + 1 /\ ~(Len(r) + 1 <= Len(s))
        /\ Len(r) + 1 \in 1 .. Len(s) + Len(a) /\ Len(t) + 1 \in 1 .. Len(t) + 1
        /\ ~(Len(t) + 1 <= Len(t))
    BY <1>1, <1>2
  <2> QED BY <1>1, <1>3, <2>1
<1>9. \A i \in 1 .. Len(r) : r[i] # e
  BY <1>4, <1>5
<1>10. ASSUME NEW i \in 1 .. Len(l), NEW j \in 1 .. Len(l), l[i] = l[j] PROVE i = j
  <2>1. \A x, y \in 1 .. Len(r) : r[x] = r[y] => x = y
    BY <1>5 DEF IsInjective
  <2>2. (i \in 1 .. Len(r) \/ i = Len(r) + 1) /\ (j \in 1 .. Len(r) \/ j = Len(r) + 1)
    BY <1>6
  <2> QED BY <1>7, <1>8, <1>9, <1>10, <2>1, <2>2
<1> QED BY <1>5, <1>10 DEF IsInjective, l, a

LEMMA RemovedOnce ==
  ASSUME NEW u \in Seq(Delivery), NEW q \in Seq(Cmd), NEW i \in 1 .. Len(u),
         IsInjective(CommandsOf(u) \o q)
  PROVE  IsInjective(CommandsOf(RemoveAt(u, i)) \o q)
<1> DEFINE v == RemoveAt(u, i)
           n == Len(u)
           m == Len(q)
           cu == CommandsOf(u)
           cv == CommandsOf(v)
           r == cu \o q
           l == cv \o q
           k == [j \in 1 .. n + m - 1 |-> IF j < i THEN j ELSE j + 1]
<1>1. /\ n \in Nat /\ m \in Nat /\ v \in Seq(Delivery) /\ Len(v) = n - 1
      /\ i \in Nat /\ i >= 1 /\ i <= n
      /\ \A j \in 1 .. n - 1 : v[j] = IF j < i THEN u[j] ELSE u[j + 1]
  BY RemoveAtOf
<1> HIDE DEF v
<1>2. /\ cu \in Seq(Cmd) /\ Len(cu) = n /\ \A j \in 1 .. n : cu[j] = u[j].cmd
      /\ cv \in Seq(Cmd) /\ Len(cv) = n - 1 /\ \A j \in 1 .. n - 1 : cv[j] = v[j].cmd
  BY <1>1, CommandsOfType
<1> HIDE DEF cu, cv
<1>3. /\ r \in Seq(Cmd) /\ Len(r) = n + m
      /\ \A j \in 1 .. n + m : r[j] = IF j <= n THEN cu[j] ELSE q[j - n]
  <2>1. /\ r \in Seq(Cmd) /\ Len(r) = Len(cu) + Len(q)
        /\ \A j \in 1 .. Len(cu) + Len(q) :
             r[j] = IF j <= Len(cu) THEN cu[j] ELSE q[j - Len(cu)]
    <3>1. cu \in Seq(Cmd) /\ q \in Seq(Cmd)
      BY <1>2
    <3> HIDE DEF n, m
    <3> QED BY ONLY <3>1, ConcatProperties
  <2> HIDE DEF r
  <2> QED BY <1>2, <2>1
<1>4. /\ l \in Seq(Cmd) /\ Len(l) = n + m - 1
      /\ \A j \in 1 .. n + m - 1 : l[j] = IF j <= n - 1 THEN cv[j] ELSE q[j - (n - 1)]
  <2>1. /\ l \in Seq(Cmd) /\ Len(l) = Len(cv) + Len(q)
        /\ \A j \in 1 .. Len(cv) + Len(q) :
             l[j] = IF j <= Len(cv) THEN cv[j] ELSE q[j - Len(cv)]
    <3>1. cv \in Seq(Cmd) /\ q \in Seq(Cmd)
      BY <1>2
    <3> QED BY ONLY <3>1, ConcatProperties
  <2>2. Len(cv) + Len(q) = n + m - 1
    BY <1>1, <1>2
  <2> HIDE DEF l
  <2> QED BY <1>2, <2>1, <2>2
<1>5. IsInjective(r) /\ DOMAIN r = 1 .. n + m /\ DOMAIN l = 1 .. n + m - 1
  BY <1>3, <1>4 DEF cu
<1> HIDE DEF r, l
<1>6. \A j \in 1 .. n + m - 1 : k[j] \in 1 .. n + m /\ k[j] = IF j < i THEN j ELSE j + 1
  BY <1>1
<1> HIDE DEF k
<1>7. ASSUME NEW j \in 1 .. n + m - 1 PROVE l[j] = r[k[j]]
  <2>1. CASE j < i
    <3>1. j \in 1 .. n - 1 /\ j <= n - 1 /\ j <= n /\ j \in 1 .. n /\ k[j] = j
      BY <1>1, <1>6, <2>1
    <3>2. j \in 1 .. n + m /\ v[j] = u[j]
      BY <1>1, <2>1, <3>1
    <3>3. l[j] = v[j].cmd /\ r[j] = u[j].cmd
      BY <1>2, <1>3, <1>4, <3>1, <3>2
    <3> QED BY <3>1, <3>2, <3>3
  <2>2. CASE j >= i /\ j <= n - 1
    <3>1. j \in 1 .. n - 1 /\ j + 1 \in 1 .. n /\ j + 1 <= n /\ k[j] = j + 1 /\ ~(j < i)
      <4>1. j \in Nat /\ i \in Nat /\ n \in Nat /\ j >= 1 /\ ~(j < i)
        BY <1>1, <1>7, <2>2
      <4> QED BY <1>6, <1>7, <2>2, <4>1
    <3>2. j + 1 \in 1 .. n + m
      BY <1>1, <3>1
    <3> QED BY <1>1, <1>2, <1>3, <1>4, <2>2, <3>1, <3>2
  <2>3. CASE j > n - 1
    <3>1. /\ j - (n - 1) = (j + 1) - n /\ ~(j <= n - 1) /\ ~(j + 1 <= n)
          /\ k[j] = j + 1 /\ j + 1 \in 1 .. n + m
      BY <1>1, <1>6, <2>3
    <3> QED BY <1>3, <1>4, <3>1
  <2> QED BY <1>1, <2>1, <2>2, <2>3
<1>8. ASSUME NEW x \in 1 .. n + m - 1, NEW y \in 1 .. n + m - 1, l[x] = l[y]
      PROVE  x = y
  <2>1. k[x] = k[y]
    BY <1>5, <1>6, <1>7, <1>8 DEF IsInjective
  <2> QED BY <1>1, <1>6, <2>1
<1> QED BY <1>5, <1>8 DEF IsInjective, l, cv, v

LEMMA InitOnce == Init => CommandOnceInBroker
<1> SUFFICES ASSUME Init PROVE CommandOnceInBroker
  OBVIOUS
<1>1. CommandsOf(unacked) \o queue = <<>>
  BY CommandsOfEmpty DEF Init
<1> QED BY <1>1 DEF CommandOnceInBroker, IsInjective

LEMMA StepOnce ==
  ASSUME IInv, CommandOnceInBroker, [Next]_vars
  PROVE  CommandOnceInBroker'
<1> DEFINE held == CommandsOf(unacked) \o queue
<1>1. /\ queue \in Seq(Cmd) /\ unacked \in Seq(Delivery) /\ IsInjective(held)
      /\ CommandsOf(unacked) \in Seq(Cmd) /\ held \in Seq(Cmd)
  BY CommandsOfType, Held DEF IInv, TypeOK, CommandOnceInBroker
<1> HIDE DEF held
<1>2. ASSUME held' = held PROVE CommandOnceInBroker'
  BY <1>1, <1>2 DEF CommandOnceInBroker, held
<1>3. ASSUME UNCHANGED <<queue, unacked>> PROVE CommandOnceInBroker'
  BY <1>2, <1>3 DEF held
<1>4. ASSUME Requeue PROVE CommandOnceInBroker'
  <2>1. unacked' = <<>> /\ queue' = held
    BY <1>4 DEF Requeue, held
  <2>2. held' = held
    BY <1>1, <2>1, CommandsOfEmpty, ConcatEmptySeq DEF held
  <2> QED BY <1>2, <2>2
<1>5. ASSUME NEW c \in Cmd, Send(c), pc[c] # "sent" PROVE CommandOnceInBroker'
  <2>1. CASE nlink = "up"
    <3>1. c \notin ToSet(held)
      BY <1>1, <1>5, Held DEF IInv, SentOK, InBroker, held
    <3>2. queue' = Append(queue, c) /\ unacked' = unacked
      BY <1>5, <2>1 DEF Send
    <3> QED BY <1>1, <3>1, <3>2, AppendedOnce DEF CommandOnceInBroker, held
  <2>2. CASE nlink # "up"
    BY <1>3, <1>5, <2>2 DEF Send
  <2> QED BY <2>1, <2>2
<1>6. CASE NestSteps \/ (\E c \in Cmd : Publish(c)) \/ NestLinkDies \/ NestRestarts
  <2>1. ASSUME NEW c \in Cmd, Publish(c) PROVE CommandOnceInBroker'
    BY <1>3, <1>5, <2>1 DEF Publish, broker
  <2>2. ASSUME NEW c \in Cmd, AssertQueue(c) PROVE CommandOnceInBroker'
    BY <1>5, <2>2 DEF AssertQueue
  <2>3. ASSUME NEW c \in Cmd, Retry(c) PROVE CommandOnceInBroker'
    BY <1>3, <2>3 DEF Retry, broker
  <2>4. CASE Connect \/ NestTimer \/ NestNoticesLoss \/ NestLinkDies \/ NestRestarts
    BY <1>3, <2>4 DEF Connect, NestTimer, NestNoticesLoss, NestLinkDies, NestRestarts, broker
  <2> QED BY <1>6, <2>1, <2>2, <2>3, <2>4 DEF NestSteps
<1>7. CASE \/ WorkerConnect \/ WorkerTimer \/ SetupChannel \/ SetupPrefetch
           \/ SkipConsumer \/ SetupConsumer \/ ActivateConsumer \/ WorkerNoticesLoss
  BY <1>3, <1>7
  DEF WorkerConnect, WorkerTimer, SetupChannel, SetupPrefetch, SkipConsumer,
      SetupConsumer, ActivateConsumer,
      WorkerNoticesLoss, broker
<1>8. CASE WorkerLinkDies \/ WorkerDies
  BY <1>4, <1>8 DEF WorkerLinkDies, WorkerDies
<1>9. CASE BrokerRestarts
  <2>1. held' = <<>>
    BY <1>9, CommandsOfEmpty DEF BrokerRestarts, held
  <2> QED BY <2>1 DEF CommandOnceInBroker, IsInjective, held
<1>10. CASE Deliver
  <2>1. TypeOK /\ queue # <<>> /\ queue' = Tail(queue)
    BY <1>10 DEF IInv, Deliver
  <2>2. /\ unacked' = Append(unacked, [tag |-> tag + 1, cmd |-> Head(queue)])
        /\ [tag |-> tag + 1, cmd |-> Head(queue)] \in Delivery
    BY <1>10, <2>1, DeliverHolds DEF TypeOK, Delivery
  <2>3. CommandsOf(unacked') = Append(CommandsOf(unacked), Head(queue))
    BY <1>1, <2>2, CommandsOfAppend
  <2>4. held' = held
    BY <1>1, <2>1, <2>3, MovedHead DEF held
  <2> QED BY <1>2, <2>4
<1>11. ASSUME NEW h \in handlers, Process(h) \/ Answer(h) PROVE CommandOnceInBroker'
  BY <1>3, <1>11 DEF Process, Answer, broker
<1>12. ASSUME NEW h \in handlers, Ack(h) PROVE CommandOnceInBroker'
  <2>1. ASSUME NEW i \in Acknowledged(h), unacked' = RemoveAt(unacked, i),
               queue' = PutBack(h) \o queue
        PROVE  CommandOnceInBroker'
    <3>1. queue' = queue /\ i \in 1 .. Len(unacked)
      BY <1>1, <2>1, ConcatEmptySeq DEF PutBack, Acknowledged
    <3> QED BY <1>1, <2>1, <3>1, RemovedOnce DEF CommandOnceInBroker, held
  <2> QED BY <1>3, <1>4, <1>12, <2>1 DEF Ack, broker
<1>13. CASE UNCHANGED vars
  BY <1>3, <1>13 DEF vars, broker
<1> QED
  BY <1>6, <1>7, <1>8, <1>9, <1>10, <1>11, <1>12, <1>13
  DEF Next, WorkerSteps, Environment

\* Neither publishToQueue, which retries, nor a redelivery puts a command into the broker a
\* second time: a command is only sent by a call that has not sent it, and deliveries that
\* go back take the place they had.
THEOREM NoCommandTwice == Spec => []CommandOnceInBroker
BY InvariantHolds, InitOnce, StepOnce, PTL DEF Spec

(***************************************************************************)
(* How often a command is carried out                                      *)
(*                                                                         *)
(* A command costs what it has run, one for each callback that is about to *)
(* run it, and one while it waits in the queue; one more is spent while a  *)
(* callback of the open channel has no delivery to acknowledge, for its    *)
(* acknowledgement will close that channel and put the others back.  What  *)
(* a step adds to this it also adds to the faults or to the                *)
(* acknowledgements on the wrong channel.                                  *)
(***************************************************************************)
One(p) == IF p THEN 1 ELSE 0

Pending(c) == {h \in handlers : h.cmd = c /\ h.pc = "process"}

\* Another callback has acknowledged what this one was given.
Orphan ==
  Usable /\ \E h \in handlers :
              h.ch = opened /\ \A i \in 1 .. Len(unacked) : unacked[i].tag # h.tag

Waits(c) == One(c \in ToSet(queue)) + One(Orphan)

CostOK ==
  /\ IsFiniteSet(handlers)
  /\ \A c \in Cmd :
       /\ runs[c] + Cardinality(Pending(c)) + Waits(c) <= 1 + faults + stale
       /\ pc[c] # "sent" => runs[c] = 0

\* Each callback of the open channel has a number of its own; without that channel
\* nothing is out for delivery.
OwnersOK ==
  /\ Orphan => stale > 0
  /\ Usable => \A g, h \in handlers : g.ch = opened /\ h.ch = opened /\ g.tag = h.tag => g = h
  /\ ~Usable => unacked = <<>>

Counted == IInv /\ CommandOnceInBroker /\ CostOK /\ OwnersOK

LEMMA InitCounted == Init => Counted
<1> SUFFICES ASSUME Init PROVE Counted
  OBVIOUS
<1>1. /\ handlers = {} /\ queue = <<>> /\ unacked = <<>> /\ faults = 0 /\ stale = 0
      /\ \A c \in Cmd : runs[c] = 0
  BY DEF Init
<1>2. ~Orphan /\ \A c \in Cmd : Pending(c) = {} /\ c \notin ToSet(queue)
  BY <1>1, CommandsOfEmpty DEF Orphan, Pending
<1>3. IsFiniteSet(handlers) /\ Cardinality({}) = 0
  BY <1>1, FS_EmptySet
<1>4. ASSUME NEW c \in Cmd
      PROVE  Cardinality(Pending(c)) = 0 /\ Waits(c) = 0 /\ runs[c] = 0
  <2>1. Pending(c) = {} /\ c \notin ToSet(queue) /\ ~Orphan /\ runs[c] = 0
    BY <1>1, <1>2
  <2>2. Waits(c) = 0
    BY <2>1 DEF Waits, One
  <2> QED BY <1>3, <2>1, <2>2
<1>5. CostOK /\ OwnersOK
  BY <1>1, <1>2, <1>3, <1>4 DEF CostOK, OwnersOK
<1> QED BY <1>5, InitHolds, InitOnce DEF Counted

LEMMA CostTypes ==
  ASSUME Counted
  PROVE  /\ faults \in Nat /\ stale \in Nat /\ runs \in [Cmd -> Nat]
         /\ \A c \in Cmd : /\ IsFiniteSet(Pending(c)) /\ Cardinality(Pending(c)) \in Nat
                           /\ Waits(c) \in {0, 1, 2}
<1>1. ASSUME NEW c \in Cmd
      PROVE  IsFiniteSet(Pending(c)) /\ Cardinality(Pending(c)) \in Nat
  <2>1. Pending(c) \subseteq handlers /\ IsFiniteSet(handlers)
    BY DEF Pending, Counted, CostOK
  <2> QED BY <2>1, FS_Subset, FS_CardinalityType
<1> QED BY <1>1 DEF Counted, IInv, TypeOK, Waits, One

\* A step after which no more callbacks are about to run pays for what it puts back and
\* for the callback it leaves without a delivery.
LEMMA CostKept ==
  ASSUME Counted, UNCHANGED runs, handlers' \subseteq handlers, NEW n \in Nat,
         faults' \in Nat, stale' \in Nat, faults' + stale' = faults + stale + n,
         \A c \in Cmd : Waits(c)' <= Waits(c) + n,
         \A c \in Cmd : Waits(c)' \in {0, 1, 2},
         \A c \in Cmd : pc[c] = "sent" => pc'[c] = "sent"
  PROVE  CostOK'
<1>1. IsFiniteSet(handlers)
  BY DEF Counted, CostOK
<1>2. IsFiniteSet(handlers')
  BY <1>1, FS_Subset
<1>3. ASSUME NEW c \in Cmd
      PROVE  /\ runs'[c] + Cardinality(Pending(c)') + Waits(c)' <= 1 + faults' + stale'
             /\ pc'[c] # "sent" => runs'[c] = 0
  <2>1. Pending(c)' \subseteq Pending(c)
    BY DEF Pending
  <2>2. /\ Cardinality(Pending(c)') <= Cardinality(Pending(c))
        /\ Cardinality(Pending(c)') \in Nat
    BY <2>1, CostTypes, FS_Subset, FS_CardinalityType
  <2>3. /\ runs[c] + Cardinality(Pending(c)) + Waits(c) <= 1 + faults + stale
        /\ pc[c] # "sent" => runs[c] = 0
    BY DEF Counted, CostOK
  <2>4. /\ runs[c] \in Nat /\ faults \in Nat /\ stale \in Nat
        /\ Cardinality(Pending(c)) \in Nat /\ Waits(c) \in Nat
        /\ Waits(c)' \in Nat /\ Waits(c)' <= Waits(c) + n
        /\ runs'[c] = runs[c] /\ 1 + faults' + stale' = 1 + faults + stale + n
    BY CostTypes
  <2>5. runs'[c] + Cardinality(Pending(c)') + Waits(c)' <= 1 + faults + stale + n
    BY <2>2, <2>3, <2>4
  <2> QED BY <2>3, <2>4, <2>5
<1> QED BY <1>2, <1>3 DEF CostOK

LEMMA WaitsOf ==
  /\ \A c \in Cmd : Waits(c) \in {0, 1, 2} /\ Waits(c)' \in {0, 1, 2}
  /\ (Orphan' => Orphan) /\ ToSet(queue') \subseteq ToSet(queue)
       => \A c \in Cmd : Waits(c)' <= Waits(c)
  /\ (Orphan' => Orphan) \/ ToSet(queue') \subseteq ToSet(queue)
       => \A c \in Cmd : Waits(c)' <= Waits(c) + 1
  /\ Orphan /\ ~Orphan' => \A c \in Cmd : Waits(c)' <= Waits(c)
BY DEF Waits, One

LEMMA NestStepCounts ==
  ASSUME Counted, NestSteps \/ (\E c \in Cmd : Publish(c)) \/ NestLinkDies \/ NestRestarts
  PROVE  CostOK' /\ OwnersOK'
<1>1. /\ UNCHANGED <<runs, handlers, stale, unacked, wlink, closed, opened>>
      /\ \A c \in Cmd : pc[c] = "sent" => pc'[c] = "sent"
      /\ IInv /\ TypeOK /\ pc \in [Cmd -> {"new", "connect", "assert", "wait", "retry", "sent", "failed"}]
  BY NestStepSends DEF WorkerUnchanged, link, consumer, work, Counted, IInv, TypeOK
<1>2. (Orphan' <=> Orphan) /\ OwnersOK'
  BY <1>1 DEF Orphan, Usable, OwnersOK, Counted
<1>3. \E n \in {0, 1} : faults' = faults + n
  BY DEF NestSteps, Publish, AssertQueue, Retry, Connect, NestTimer, NestNoticesLoss,
     NestLinkDies, NestRestarts, NoFault, Fault, Counted, IInv, TypeOK
<1>4. ASSUME UNCHANGED queue PROVE CostOK'
  <2>1. PICK n \in {0, 1} : faults' = faults + n
    BY <1>3
  <2>2. /\ n \in Nat /\ faults' \in Nat /\ stale' \in Nat
        /\ faults' + stale' = faults + stale + n
    BY <1>1, <2>1, CostTypes
  <2>3. \A c \in Cmd : Waits(c)' <= Waits(c) + n /\ Waits(c)' \in {0, 1, 2}
    BY <1>2, <1>4, <2>1 DEF Waits, One
  <2> QED BY <1>1, <2>2, <2>3, CostKept
<1>5. ASSUME NEW c \in Cmd, Send(c), pc[c] # "sent", nlink = "up", UNCHANGED faults
      PROVE  CostOK'
  <2>1. queue' = Append(queue, c) /\ ToSet(queue') = ToSet(queue) \cup {c}
    <3>1. queue \in Seq(Cmd) /\ queue' = Append(queue, c)
      BY <1>1, <1>5 DEF Send, TypeOK
    <3> QED BY <3>1, ToSetAppend
  <2>2. IsFiniteSet(handlers')
    BY <1>1 DEF Counted, CostOK
  <2>3. Pending(c) = {} /\ runs[c] = 0
    BY <1>1, <1>5 DEF IInv, HandlersOK, Pending, Counted, CostOK
  <2>4. ASSUME NEW d \in Cmd
        PROVE  /\ runs'[d] + Cardinality(Pending(d)') + Waits(d)' <= 1 + faults' + stale'
               /\ pc'[d] # "sent" => runs'[d] = 0
    <3>1. Pending(d)' = Pending(d)
      BY <1>1 DEF Pending
    <3>2. /\ runs[d] + Cardinality(Pending(d)) + Waits(d) <= 1 + faults + stale
          /\ pc[d] # "sent" => runs[d] = 0
      BY DEF Counted, CostOK
    <3>3. CASE d = c
      <4>1. Cardinality(Pending(d)') = 0 /\ runs'[d] = 0
        BY <1>1, <2>3, <3>1, <3>3, FS_EmptySet
      <4>2. Waits(d)' <= 1 + stale
        BY <1>2, CostTypes DEF Waits, One, OwnersOK, Counted
      <4> QED BY <1>1, <1>5, <4>1, <4>2, CostTypes, WaitsOf
    <3>4. CASE d # c
      <4>1. Waits(d)' = Waits(d)
        BY <1>2, <2>1, <3>4 DEF Waits, One
      <4> QED BY <1>1, <1>5, <3>1, <3>2, <4>1
    <3> QED BY <3>3, <3>4
  <2> QED BY <2>2, <2>4 DEF CostOK
<1>6. ASSUME NEW c \in Cmd, Send(c), pc[c] # "sent", UNCHANGED faults
      PROVE  CostOK'
  BY <1>4, <1>5, <1>6 DEF Send
<1>7. ASSUME NEW c \in Cmd, Publish(c) PROVE CostOK'
  BY <1>4, <1>6, <1>7 DEF Publish, NoFault, broker
<1>8. ASSUME NEW c \in Cmd, AssertQueue(c) PROVE CostOK'
  BY <1>6, <1>8 DEF AssertQueue, NoFault
<1>9. ASSUME NEW c \in Cmd, Retry(c) PROVE CostOK'
  BY <1>4, <1>9 DEF Retry, broker
<1>10. CASE Connect \/ NestTimer \/ NestNoticesLoss \/ NestLinkDies \/ NestRestarts
  <2>1. UNCHANGED queue
    BY <1>10 DEF Connect, NestTimer, NestNoticesLoss, NestLinkDies, NestRestarts, broker
  <2> QED BY <1>2, <1>4, <2>1
<1> QED BY <1>2, <1>7, <1>8, <1>9, <1>10 DEF NestSteps

LEMMA LinkStepCounts ==
  ASSUME Counted,
         \/ WorkerConnect \/ WorkerTimer \/ SetupChannel \/ SetupPrefetch
         \/ SkipConsumer \/ SetupConsumer \/ ActivateConsumer
         \/ WorkerNoticesLoss \/ WorkerLinkDies \/ WorkerDies
         \/ BrokerRestarts
  PROVE  CostOK' /\ OwnersOK'
<1>1. /\ UNCHANGED <<runs, stale, pc>> /\ handlers' \subseteq handlers
      /\ faults' = faults \/ faults' = faults + 1
      /\ IInv /\ TypeOK
  BY DEF WorkerConnect, WorkerTimer, SetupChannel, SetupPrefetch, SkipConsumer,
      SetupConsumer, ActivateConsumer,
     WorkerNoticesLoss, WorkerLinkDies, WorkerDies, BrokerRestarts, Exit, NoFault, Fault,
     nest, work, Counted, IInv
<1>2. ASSUME UNCHANGED faults \/ faults' = faults + 1,
             Orphan' => Orphan, ToSet(queue') \subseteq ToSet(queue)
      PROVE  CostOK'
  <2>1. PICK n \in {0, 1} : faults' = faults + n
    BY <1>2, CostTypes
  <2>2. /\ n \in Nat /\ faults' \in Nat /\ stale' \in Nat
        /\ faults' + stale' = faults + stale + n
    BY <1>1, <2>1, CostTypes
  <2>3. \A c \in Cmd : Waits(c)' <= Waits(c) + n /\ Waits(c)' \in {0, 1, 2}
    BY <1>2, <2>1, <2>2, WaitsOf
  <2> QED BY <1>1, <2>2, <2>3, CostKept
<1>3. CASE WorkerConnect \/ WorkerNoticesLoss
  <2>1. ~Usable /\ ~Usable' /\ UNCHANGED <<queue, unacked>>
    BY <1>3
    DEF WorkerConnect, WorkerNoticesLoss, Exit, broker, consumer, Usable, Counted, IInv, LinkOK
  <2>2. OwnersOK' /\ ~Orphan'
    BY <2>1 DEF OwnersOK, Orphan, Counted
  <2> QED BY <1>1, <1>2, <2>1, <2>2
<1>4. CASE WorkerTimer \/ SetupPrefetch \/ SkipConsumer \/ SetupConsumer \/ ActivateConsumer
  <2>1. UNCHANGED <<queue, unacked, wlink, closed, opened, handlers, stale>>
    BY <1>4 DEF WorkerTimer, SetupPrefetch, SkipConsumer, SetupConsumer, ActivateConsumer,
                broker, consumer, work
  <2>2. (Orphan' <=> Orphan) /\ OwnersOK'
    BY <2>1 DEF Orphan, Usable, OwnersOK, Counted
  <2> QED BY <1>1, <1>2, <2>1, <2>2
<1>5. CASE SetupChannel
  <2>1. UNCHANGED <<queue, handlers, stale>> /\ Usable' /\ opened' = opened + 1
    BY <1>5 DEF SetupChannel, broker, work, Usable
  <2>2. \A h \in handlers' : h.ch # opened'
    <3>1. opened \in Nat /\ \A h \in handlers : h.ch \in Nat /\ h.ch <= opened
      BY DEF Counted, IInv, TypeOK, Handler, HandlersOK
    <3> QED BY <2>1, <3>1
  <2>3. ~Orphan' /\ OwnersOK'
    BY <2>1, <2>2 DEF Orphan, OwnersOK
  <2> QED BY <1>1, <1>2, <2>1, <2>3
<1>6. CASE WorkerLinkDies \/ WorkerDies
  <2>1. Requeue /\ ~Usable' /\ faults' = faults + 1
    BY <1>6 DEF WorkerLinkDies, WorkerDies, Exit, Usable, Fault
  <2>2. unacked' = <<>> /\ ~Orphan'
    BY <2>1 DEF Requeue, Orphan
  <2>3. OwnersOK'
    BY <2>1, <2>2 DEF OwnersOK
  <2>4. /\ 1 \in Nat /\ faults' \in Nat /\ stale' \in Nat
        /\ faults' + stale' = faults + stale + 1
    BY <1>1, <2>1, CostTypes
  <2>5. \A c \in Cmd : Waits(c)' <= Waits(c) + 1 /\ Waits(c)' \in {0, 1, 2}
    BY <2>2, WaitsOf
  <2>6. CostOK'
    BY <1>1, <2>4, <2>5, CostKept
  <2> QED BY <2>3, <2>6
<1>7. CASE BrokerRestarts
  <2>1. queue' = <<>> /\ unacked' = <<>> /\ ~Usable'
    BY <1>7 DEF BrokerRestarts, consumer, Usable
  <2>2. ~Orphan' /\ OwnersOK' /\ ToSet(queue') = {}
    BY <2>1, CommandsOfEmpty DEF Orphan, OwnersOK
  <2> QED BY <1>1, <1>2, <2>2
<1> QED BY <1>3, <1>4, <1>5, <1>6, <1>7

LEMMA HeadLeaves ==
  ASSUME Counted, Deliver
  PROVE  Head(queue) \notin ToSet(queue')
<1> DEFINE v == CommandsOf(unacked)
           l == v \o queue
           m == Len(v)
           t == Tail(queue)
<1>1. /\ queue \in Seq(Cmd) /\ v \in Seq(Cmd) /\ queue # <<>> /\ queue' = t
      /\ IsInjective(l)
  BY CommandsOfType DEF Counted, IInv, TypeOK, CommandOnceInBroker, Deliver
<1> HIDE DEF v
<1>2. /\ l \in Seq(Cmd) /\ Len(l) = m + Len(queue) /\ m \in Nat /\ Len(queue) \in Nat
      /\ \A i \in 1 .. m + Len(queue) : l[i] = IF i <= m THEN v[i] ELSE queue[i - m]
  BY <1>1, ConcatProperties
<1>3. \A i, j \in 1 .. Len(l) : l[i] = l[j] => i = j
  <2>1. IsInjective(l) /\ l \in Seq(Cmd)
    BY <1>1, <1>2
  <2> HIDE DEF l
  <2>2. DOMAIN l = 1 .. Len(l)
    BY <2>1
  <2> QED BY <2>1, <2>2 DEF IsInjective
<1>4. /\ t \in Seq(Cmd) /\ Len(t) = Len(queue) - 1 /\ Len(queue) >= 1
      /\ \A i \in 1 .. Len(queue) - 1 : t[i] = queue[i + 1]
      /\ Head(queue) = queue[1]
  BY <1>1
<1> HIDE DEF l, t
<1>5. ASSUME NEW i \in 1 .. Len(queue) - 1 PROVE t[i] # Head(queue)
  <2>1. /\ m + 1 \in 1 .. m + Len(queue) /\ m + i + 1 \in 1 .. m + Len(queue)
        /\ (m + 1) - m = 1 /\ (m + i + 1) - m = i + 1 /\ m + 1 # m + i + 1
        /\ ~(m + 1 <= m) /\ ~(m + i + 1 <= m)
    BY <1>2, <1>4
  <2>2. l[m + 1] = queue[1] /\ l[m + i + 1] = queue[i + 1]
    BY <1>2, <2>1
  <2> QED BY <1>2, <1>3, <1>4, <2>1, <2>2
<1> QED BY <1>1, <1>4, <1>5, ToSetOf

LEMMA DeliverCounts ==
  ASSUME Counted, Deliver
  PROVE  CostOK' /\ OwnersOK'
<1> DEFINE n == Len(unacked)
           d == [tag |-> tag + 1, cmd |-> Head(queue)]
           new == [cmd |-> Head(queue), ch |-> opened, tag |-> tag + 1, pc |-> "process"]
<1>1. /\ IInv /\ TypeOK /\ tag \in Nat /\ unacked \in Seq(Delivery) /\ queue \in Seq(Cmd)
      /\ queue # <<>> /\ \A h \in handlers : h.tag \in Nat
  BY DEF Counted, IInv, TypeOK, Handler, Deliver
<1>2. /\ UNCHANGED <<pc, wlink, closed, opened, runs, stale, faults>>
      /\ handlers' = handlers \cup {new} /\ Usable
  BY DEF Deliver, nest, link, consumer, NoFault, Consuming, Usable
<1>3. /\ unacked' = Append(unacked, d) /\ Head(queue) \in Cmd
      /\ ToSet(queue) = {Head(queue)} \cup ToSet(queue')
  BY <1>1, DeliverHolds, ToSetHeadTail DEF Deliver
<1>4. /\ n \in Nat /\ Len(unacked') = n + 1
      /\ \A i \in 1 .. n + 1 : unacked'[i] = IF i <= n THEN unacked[i] ELSE d
  <2> HIDE DEF d
  <2> QED BY <1>1, <1>3
<1>5. d.tag = tag + 1 /\ new.tag = tag + 1 /\ new.cmd = Head(queue) /\ new.pc = "process"
  OBVIOUS
<1> HIDE DEF d, new
<1>6. Orphan' => Orphan
  <2> SUFFICES ASSUME NEW h \in handlers', h.ch = opened,
                      \A i \in 1 .. n + 1 : unacked'[i].tag # h.tag
               PROVE  Orphan
    BY <1>2, <1>4 DEF Orphan, Usable
  <2>1. h # new
    <3>1. n + 1 \in 1 .. n + 1 /\ unacked'[n + 1] = d
      BY <1>4
    <3> QED BY <1>5, <3>1
  <2>2. \A i \in 1 .. n : unacked[i].tag # h.tag
    BY <1>4
  <2> QED BY <1>2, <2>1, <2>2 DEF Orphan
<1>7. OwnersOK'
  <2>1. \A h \in handlers : h.ch = opened => h.tag # tag + 1
    BY <1>1, <1>2 DEF IInv, ChannelOK
  <2>2. \A g, h \in handlers' :
           g.ch = opened /\ h.ch = opened /\ g.tag = h.tag => g = h
    BY <1>2, <1>5, <2>1 DEF Counted, OwnersOK
  <2>3. Usable'
    BY <1>2 DEF Usable
  <2> QED BY <1>2, <1>6, <2>2, <2>3 DEF OwnersOK, Counted
<1>8. IsFiniteSet(handlers')
  BY <1>2, FS_AddElement DEF Counted, CostOK
<1>9. ASSUME NEW c \in Cmd
      PROVE  /\ runs'[c] + Cardinality(Pending(c)') + Waits(c)' <= 1 + faults' + stale'
             /\ pc'[c] # "sent" => runs'[c] = 0
  <2>1. /\ runs[c] + Cardinality(Pending(c)) + Waits(c) <= 1 + faults + stale
        /\ pc[c] # "sent" => runs[c] = 0
    BY DEF Counted, CostOK
  <2>2. /\ runs[c] \in Nat /\ faults \in Nat /\ stale \in Nat
        /\ Cardinality(Pending(c)) \in Nat /\ Waits(c) \in Nat /\ Waits(c)' \in Nat
        /\ IsFiniteSet(Pending(c))
    BY CostTypes, WaitsOf
  <2>3. CASE c = Head(queue)
    <3>1. Pending(c)' = Pending(c) \cup {new}
      BY <1>2, <1>5, <2>3 DEF Pending
    <3>2. /\ Cardinality(Pending(c)') <= Cardinality(Pending(c)) + 1
          /\ Cardinality(Pending(c)') \in Nat
      BY <2>2, <3>1, FS_AddElement
    <3>3. Waits(c)' + 1 <= Waits(c)
      BY <1>3, <1>6, <2>3, HeadLeaves DEF Waits, One
    <3> QED BY <1>2, <2>1, <2>2, <3>2, <3>3
  <2>4. CASE c # Head(queue)
    <3>1. Pending(c)' = Pending(c)
      BY <1>2, <1>5, <2>4 DEF Pending
    <3>2. Waits(c)' <= Waits(c)
      BY <1>3, <1>6, <2>4 DEF Waits, One
    <3> QED BY <1>2, <2>1, <2>2, <3>1, <3>2
  <2> QED BY <2>3, <2>4
<1> QED BY <1>7, <1>8, <1>9 DEF CostOK

LEMMA AdvanceCounts ==
  ASSUME Counted, NEW h \in handlers, Process(h) \/ Answer(h)
  PROVE  CostOK' /\ OwnersOK'
<1> DEFINE next == IF h.pc = "process" THEN "answer" ELSE "ack"
           new == [h EXCEPT !.pc = next]
<1>1. /\ IInv /\ TypeOK /\ h \in Handler /\ h.cmd \in Cmd /\ pc[h.cmd] = "sent"
  BY DEF Counted, IInv, TypeOK, Handler, HandlersOK
<1>2. /\ UNCHANGED <<pc, queue, unacked, wlink, closed, opened, stale, faults>>
      /\ handlers' = (handlers \ {h}) \cup {new}
      /\ \/ h.pc = "process" /\ runs' = [runs EXCEPT ![h.cmd] = @ + 1]
         \/ h.pc = "answer" /\ runs' = runs
  BY DEF Process, Answer, Advance, nest, broker, link, consumer, NoFault
<1>3. new.cmd = h.cmd /\ new.ch = h.ch /\ new.tag = h.tag /\ new.pc # "process"
  BY <1>1 DEF Handler
<1> HIDE DEF new
<1>4. Orphan' <=> Orphan
  BY <1>2, <1>3 DEF Orphan, Usable
<1>5. OwnersOK'
  BY <1>2, <1>3, <1>4 DEF OwnersOK, Usable, Counted
<1>6. IsFiniteSet(handlers')
  BY <1>2, FS_AddElement, FS_RemoveElement DEF Counted, CostOK
<1>7. ASSUME NEW c \in Cmd
      PROVE  /\ runs'[c] + Cardinality(Pending(c)') + Waits(c)' <= 1 + faults' + stale'
             /\ pc'[c] # "sent" => runs'[c] = 0
  <2>1. /\ runs[c] + Cardinality(Pending(c)) + Waits(c) <= 1 + faults + stale
        /\ pc[c] # "sent" => runs[c] = 0
    BY DEF Counted, CostOK
  <2>2. /\ runs \in [Cmd -> Nat] /\ faults \in Nat /\ stale \in Nat
        /\ Cardinality(Pending(c)) \in Nat /\ Waits(c) \in Nat
        /\ IsFiniteSet(Pending(c))
    BY CostTypes
  <2>3. Waits(c)' = Waits(c)
    BY <1>2, <1>4 DEF Waits
  <2>4. Pending(c)' = Pending(c) \ {h}
    BY <1>2, <1>3 DEF Pending
  <2>5. CASE c = h.cmd /\ h.pc = "process"
    <3>1. Cardinality(Pending(c)') = Cardinality(Pending(c)) - 1
      <4>1. h \in Pending(c)
        BY <2>5 DEF Pending
      <4> QED BY <2>2, <2>4, <4>1, FS_RemoveElement
    <3>2. runs'[c] = runs[c] + 1
      BY <1>2, <2>2, <2>5
    <3> QED BY <1>1, <1>2, <2>1, <2>2, <2>3, <2>5, <3>1, <3>2
  <2>6. CASE ~(c = h.cmd /\ h.pc = "process")
    <3>1. Pending(c)' = Pending(c)
      BY <2>4, <2>6 DEF Pending
    <3>2. runs'[c] = runs[c]
      BY <1>2, <2>2, <2>6
    <3> QED BY <1>2, <2>1, <2>3, <3>1, <3>2
  <2> QED BY <2>5, <2>6
<1> QED BY <1>5, <1>6, <1>7 DEF CostOK

LEMMA AckCounts ==
  ASSUME Counted, NEW h \in handlers, Ack(h)
  PROVE  CostOK' /\ OwnersOK'
<1> DEFINE n == Len(unacked)
<1>1. /\ IInv /\ TypeOK /\ UNCHANGED <<pc, runs, faults, opened>>
      /\ handlers' \subseteq handlers
      /\ queue \in Seq(Cmd) /\ unacked \in Seq(Delivery) /\ n \in Nat
      /\ DOMAIN unacked = 1 .. n /\ stale \in Nat /\ faults \in Nat
      /\ \A c \in Cmd : pc[c] = "sent" => pc'[c] = "sent"
  BY CallbackTypes
  DEF Counted, IInv, TypeOK, Ack, ChannelCloses, Exit, Requeue, nest, broker, consumer, NoFault
\* The three ways to pay for what the step puts back or takes away.
<1>2. ASSUME UNCHANGED stale, Orphan' => Orphan, ToSet(queue') \subseteq ToSet(queue)
      PROVE  CostOK'
  <2>1. 0 \in Nat /\ faults' \in Nat /\ stale' \in Nat /\ faults' + stale' = faults + stale + 0
    BY <1>1, <1>2
  <2>2. \A c \in Cmd : Waits(c)' <= Waits(c) + 0 /\ Waits(c)' \in {0, 1, 2}
    BY <1>2, WaitsOf
  <2> QED BY <1>1, <2>1, <2>2, CostKept
<1>3. ASSUME UNCHANGED stale, Orphan, ~Orphan'
      PROVE  CostOK'
  <2>1. 0 \in Nat /\ faults' \in Nat /\ stale' \in Nat /\ faults' + stale' = faults + stale + 0
    BY <1>1, <1>3
  <2>2. \A c \in Cmd : Waits(c)' <= Waits(c) + 0 /\ Waits(c)' \in {0, 1, 2}
    BY <1>3, WaitsOf
  <2> QED BY <1>1, <2>1, <2>2, CostKept
<1>4. ASSUME stale' = stale + 1, ~Orphan' \/ ToSet(queue') \subseteq ToSet(queue)
      PROVE  CostOK'
  <2>1. 1 \in Nat /\ faults' \in Nat /\ stale' \in Nat /\ faults' + stale' = faults + stale + 1
    BY <1>1, <1>4
  <2>2. \A c \in Cmd : Waits(c)' <= Waits(c) + 1 /\ Waits(c)' \in {0, 1, 2}
    BY <1>4, WaitsOf
  <2> QED BY <1>1, <2>1, <2>2, CostKept
<1>5. CASE UNCHANGED <<broker, consumer, link, stale>>
  <2>1. UNCHANGED <<queue, unacked, wlink, closed>>
    BY <1>5 DEF broker, consumer, link
  <2>2. Orphan' => Orphan
    BY <1>1, <2>1 DEF Orphan, Usable
  <2>3. OwnersOK'
    BY <1>1, <1>5, <2>1, <2>2 DEF OwnersOK, Usable, Counted
  <2> QED BY <1>2, <1>5, <2>1, <2>2, <2>3
<1>6. CASE channel # 0 /\ closed /\ Requeue /\ Exit
  <2>1. unacked = <<>> /\ closed' /\ UNCHANGED stale
    BY <1>6 DEF Counted, OwnersOK, Usable, Exit
  <2>2. unacked' = <<>> /\ queue' = queue
    BY <1>1, <1>6, <2>1, CommandsOfEmpty, ConcatEmptySeq DEF Requeue
  <2>3. ~Orphan' /\ ~Usable'
    BY <2>1 DEF Orphan, Usable
  <2>4. OwnersOK'
    BY <2>2, <2>3 DEF OwnersOK
  <2> QED BY <1>2, <2>1, <2>2, <2>3, <2>4
<1>7. CASE /\ channel # 0 /\ ~closed /\ wlink = "up"
           /\ handlers' = handlers \ {h} /\ UNCHANGED wlink
           /\ stale' = stale + (IF h.ch # channel THEN 1 ELSE 0)
  <2>1. channel = opened /\ Usable
    BY <1>1, <1>7 DEF IInv, LinkOK, Usable
  <2>2. ASSUME NEW i \in Acknowledged(h), unacked' = RemoveAt(unacked, i),
               queue' = PutBack(h) \o queue, UNCHANGED consumer
        PROVE  CostOK' /\ OwnersOK'
    <3>1. /\ queue' = queue /\ i \in 1 .. n /\ unacked[i].tag = h.tag
          /\ Usable'
      BY <1>1, <1>7, <2>2, ConcatEmptySeq DEF PutBack, Acknowledged, consumer, Usable
    <3>2. /\ Len(unacked') = n - 1
          /\ \A j \in 1 .. n - 1 : unacked'[j] = IF j < i THEN unacked[j] ELSE unacked[j + 1]
      BY <1>1, <2>2, <3>1, AckHolds
    <3>3. ASSUME h.ch = channel, Orphan' PROVE Orphan
      <4>1. PICK g \in handlers : /\ g # h /\ g.ch = opened
                                  /\ \A j \in 1 .. n - 1 : unacked'[j].tag # g.tag
        BY <1>1, <1>7, <3>2, <3>3 DEF Orphan
      <4>2. g.tag # h.tag
        BY <2>1, <3>3, <4>1 DEF Counted, OwnersOK
      <4>3. ASSUME NEW j \in 1 .. n, j # i PROVE unacked[j].tag # g.tag
        <5>1. CASE j < i
          <6>1. j \in 1 .. n - 1 /\ unacked'[j] = unacked[j]
            BY <1>1, <3>1, <3>2, <5>1
          <6> QED BY <4>1, <6>1
        <5>2. CASE j > i
          <6>1. j - 1 \in 1 .. n - 1 /\ ~(j - 1 < i) /\ (j - 1) + 1 = j
            BY <1>1, <3>1, <5>2
          <6>2. unacked'[j - 1] = unacked[j]
            BY <3>2, <6>1
          <6> QED BY <4>1, <6>1, <6>2
        <5> QED BY <1>1, <3>1, <4>3, <5>1, <5>2
      <4> QED BY <2>1, <3>1, <4>1, <4>2, <4>3 DEF Orphan
    <3>4. CostOK'
      BY <1>1, <1>2, <1>4, <1>7, <3>1, <3>3
    <3>5. Orphan' => stale' > 0
      BY <1>1, <1>7, <3>3 DEF Counted, OwnersOK
    <3>6. OwnersOK'
      BY <1>1, <2>1, <3>1, <3>5 DEF OwnersOK, Counted
    <3> QED BY <3>4, <3>6
  <2>3. ASSUME Acknowledged(h) = {}, Requeue, closed'
        PROVE  CostOK' /\ OwnersOK'
    <3>1. unacked' = <<>> /\ ~Usable' /\ ~Orphan'
      BY <2>3 DEF Requeue, Usable, Orphan
    <3>2. OwnersOK'
      BY <3>1 DEF OwnersOK
    <3>3. h.ch = channel => Orphan
      BY <1>1, <2>1, <2>3 DEF Orphan, Acknowledged
    <3> QED BY <1>1, <1>3, <1>4, <1>7, <3>1, <3>2, <3>3
  <2>4. \/ \E i \in Acknowledged(h) :
             /\ unacked' = RemoveAt(unacked, i) /\ queue' = PutBack(h) \o queue
             /\ UNCHANGED consumer
        \/ Acknowledged(h) = {} /\ Requeue /\ closed'
    BY <1>7 DEF Ack, ChannelCloses
  <2> QED BY <2>2, <2>3, <2>4
<1> QED BY <1>5, <1>6, <1>7 DEF Ack

LEMMA StepCounted == Counted /\ [Next]_vars => Counted'
<1> SUFFICES ASSUME Counted, [Next]_vars PROVE Counted'
  OBVIOUS
<1>1. IInv' /\ CommandOnceInBroker'
  BY StepHolds, StepOnce DEF Counted
<1>2. CASE Next
  BY <1>1, <1>2, NestStepCounts, LinkStepCounts, DeliverCounts, AdvanceCounts, AckCounts
  DEF Next, WorkerSteps, Environment, Counted
<1>3. CASE UNCHANGED vars
  <2>1. Orphan' <=> Orphan
    BY <1>3 DEF vars, broker, link, consumer, work, Orphan, Usable
  <2>2. OwnersOK'
    BY <1>3, <2>1 DEF vars, broker, link, consumer, work, OwnersOK, Usable, Counted
  <2>3. UNCHANGED <<pc, queue, runs, handlers, faults, stale>>
    BY <1>3 DEF vars, nest, broker, work
  <2>4. \A c \in Cmd : Waits(c)' = Waits(c) /\ Pending(c)' = Pending(c)
    BY <2>1, <2>3 DEF Waits, Pending
  <2>5. CostOK'
    BY <2>3, <2>4 DEF CostOK, Counted
  <2> QED BY <1>1, <2>2, <2>5 DEF Counted
<1> QED BY <1>2, <1>3

\* A message is sent to the seller's group again only when a connection was lost, a process
\* died, or an acknowledgement went to another channel than its delivery's: each of these
\* gives every command at most one more run, whatever was in flight when it happened.
THEOREM RepeatedOnlyByFaults == Spec => []RunsBounded
<1>1. Counted => RunsBounded
  <2> SUFFICES ASSUME Counted, NEW c \in Cmd PROVE runs[c] <= 1 + faults + stale
    BY DEF RunsBounded
  <2>1. runs[c] + Cardinality(Pending(c)) + Waits(c) <= 1 + faults + stale
    BY DEF Counted, CostOK
  <2> QED BY <2>1, CostTypes
<1> QED BY <1>1, InitCounted, StepCounted, PTL DEF Spec

(***************************************************************************)
(* The abstract queue                                                      *)
(***************************************************************************)
LEMMA InitRefines == Init => Queue!Init
<1> SUFFICES ASSUME Init PROVE Queue!Init
  OBVIOUS
<1>1. \A c \in Cmd : StatusOf(c) = "new"
  BY DEF Init, StatusOf
<1> QED BY <1>1 DEF Init, Queue!Init

\* A step that changes neither runs, nor answers, nor the count of acknowledgements on the
\* wrong channel is a step of the queue if it only does this to the commands.
LEMMA Mapped ==
  ASSUME UNCHANGED <<runs, answered, stale>>, NEW C \in SUBSET Cmd, NEW value,
         \A c \in Cmd : StatusOf(c)' = IF c \in C THEN value ELSE StatusOf(c)
  PROVE  /\ C = {} => UNCHANGED Queue!vars
         /\ value = "failed" /\ (\A c \in C : StatusOf(c) = "new") => Queue!Refuse(C)
         /\ value = "lost" /\ (\A c \in C : StatusOf(c) \in {"new", "held"}) => Queue!Lose(C)
         /\ \A c \in Cmd :
              C = {c} /\ value = "held" /\ StatusOf(c) = "new" => Queue!Accept(c)
         /\ \A c \in Cmd :
              C = {c} /\ value = "settled" /\ StatusOf(c) = "held" /\ c \in answered
              => Queue!Settle(c)
<1>1. [c \in Cmd |-> StatusOf(c)]' = Queue!Becomes(C, value)
  BY DEF Queue!Becomes
<1> QED
  BY <1>1
  DEF Queue!vars, Queue!Refuse, Queue!Lose, Queue!Accept, Queue!Settle, Queue!Becomes

Refined == Queue!Next \/ UNCHANGED Queue!vars

LEMMA Status ==
  ASSUME NEW c \in Cmd
  PROVE  /\ StatusOf(c) = IF pc[c] = "failed" THEN "failed"
                          ELSE IF pc[c] # "sent" THEN "new"
                          ELSE IF c \in lost THEN "lost"
                          ELSE IF c \in InBroker THEN "held" ELSE "settled"
         /\ StatusOf(c)' = IF pc'[c] = "failed" THEN "failed"
                           ELSE IF pc'[c] # "sent" THEN "new"
                           ELSE IF c \in lost' THEN "lost"
                           ELSE IF c \in InBroker' THEN "held" ELSE "settled"
BY DEF StatusOf

LEMMA Stutters ==
  ASSUME UNCHANGED <<runs, answered, stale>>,
         \A c \in Cmd : StatusOf(c)' = StatusOf(c)
  PROVE  Refined
<1>1. {} \in SUBSET Cmd
  OBVIOUS
<1>2. UNCHANGED Queue!vars
  BY <1>1, Mapped
<1> QED BY <1>2 DEF Refined

LEMMA Refuses ==
  ASSUME UNCHANGED <<runs, answered, stale>>, NEW C \in SUBSET Cmd,
         \A c \in C : StatusOf(c) = "new",
         \A c \in Cmd : StatusOf(c)' = IF c \in C THEN "failed" ELSE StatusOf(c)
  PROVE  Refined
<1>1. Queue!Refuse(C)
  BY Mapped
<1> QED BY <1>1 DEF Refined, Queue!Next

LEMMA Loses ==
  ASSUME UNCHANGED <<runs, answered, stale>>, NEW C \in SUBSET Cmd,
         \A c \in C : StatusOf(c) \in {"new", "held"},
         \A c \in Cmd : StatusOf(c)' = IF c \in C THEN "lost" ELSE StatusOf(c)
  PROVE  Refined
<1>1. Queue!Lose(C)
  BY Mapped
<1> QED BY <1>1 DEF Refined, Queue!Next

LEMMA SendRefines ==
  ASSUME IInv, NEW c \in Cmd, Send(c), pc[c] \notin {"sent", "failed"}, WorkerUnchanged
  PROVE  Refined
<1>1. /\ UNCHANGED <<runs, answered, stale>> /\ TypeOK
      /\ \A d \in Cmd : pc'[d] = IF d = c THEN "sent" ELSE pc[d]
      /\ c \notin lost /\ c \notin InBroker /\ StatusOf(c) = "new"
  BY Status DEF WorkerUnchanged, work, IInv, TypeOK, SentOK, Send
<1>2. CASE nlink = "up"
  <2>1. InBroker' = InBroker \cup {c} /\ lost' = lost
    BY <1>1, <1>2, SendHolds DEF Send
  <2>2. \A d \in Cmd : StatusOf(d)' = IF d \in {c} THEN "held" ELSE StatusOf(d)
    BY <1>1, <2>1, Status
  <2>3. Queue!Accept(c)
    BY <1>1, <2>2, Mapped
  <2> QED BY <2>3 DEF Refined, Queue!Next
<1>3. CASE nlink # "up"
  <2>1. InBroker' = InBroker /\ lost' = lost \cup {c}
    BY <1>1, <1>3, SendHolds DEF Send
  <2>2. \A d \in Cmd : StatusOf(d)' = IF d \in {c} THEN "lost" ELSE StatusOf(d)
    BY <1>1, <2>1, Status
  <2> QED BY <1>1, <2>2, Loses
<1> QED BY <1>2, <1>3

LEMMA NestStepRefines ==
  ASSUME IInv, NestSteps \/ (\E c \in Cmd : Publish(c)) \/ NestLinkDies \/ NestRestarts
  PROVE  Refined
<1>1. /\ WorkerUnchanged /\ UNCHANGED <<runs, answered, stale>>
      /\ pc \in [Cmd -> {"new", "connect", "assert", "wait", "retry", "sent", "failed"}]
      /\ connecting \in Cmd => pc[connecting] = "connect"
  BY NestStepSends DEF WorkerUnchanged, work, IInv, TypeOK, SentOK
<1>2. ASSUME UNCHANGED broker PROVE InBroker' = InBroker /\ lost' = lost
  BY <1>2 DEF broker, InBroker
<1>3. ASSUME UNCHANGED broker, NEW C \in SUBSET Cmd,
             \A c \in C : pc[c] \notin {"sent", "failed"},
             \A c \in C : pc'[c] = "failed",
             \A c \in Cmd \ C : \/ pc'[c] = pc[c]
                                \/ {pc[c], pc'[c]} \cap {"sent", "failed"} = {}
      PROVE  Refined
  <2>1. \A c \in C : StatusOf(c) = "new"
    BY <1>3, Status
  <2>2. \A c \in Cmd : StatusOf(c)' = IF c \in C THEN "failed" ELSE StatusOf(c)
    BY <1>2, <1>3, Status
  <2> QED BY <1>1, <2>1, <2>2, Refuses
<1>4. ASSUME NEW c \in Cmd, Publish(c) PROVE Refined
  <2>1. CASE Send(c)
    BY <1>1, <1>4, <2>1, SendRefines DEF Publish
  <2>2. CASE pc' = [pc EXCEPT ![c] = "failed"] /\ UNCHANGED broker
    <3>1. {c} \in SUBSET Cmd /\ pc[c] = "new"
      BY <1>4 DEF Publish
    <3> QED BY <1>1, <1>3, <2>2, <3>1
  <2>3. ASSUME NEW step \in {"assert", "connect"}, pc' = [pc EXCEPT ![c] = step],
               UNCHANGED broker
        PROVE  Refined
    <3>1. {} \in SUBSET Cmd /\ pc[c] = "new"
      BY <1>4 DEF Publish
    <3> QED BY <1>1, <1>3, <2>3, <3>1
  <2> QED BY <1>4, <2>1, <2>2, <2>3 DEF Publish
<1>5. ASSUME NEW c \in Cmd, AssertQueue(c) PROVE Refined
  BY <1>1, <1>5, SendRefines DEF AssertQueue
<1>6. ASSUME NEW c \in Cmd, Retry(c) PROVE Refined
  <2>1. {c} \in SUBSET Cmd /\ {} \in SUBSET Cmd
    OBVIOUS
  <2> QED BY <1>1, <1>3, <1>6, <2>1 DEF Retry
<1>7. CASE Connect
  <2>1. {} \in SUBSET Cmd /\ UNCHANGED broker
    BY <1>7 DEF Connect
  <2>2. CASE connecting \in Cmd
    <3>1. {connecting} \in SUBSET Cmd
      BY <2>2
    <3> QED BY <1>1, <1>3, <1>7, <2>1, <2>2, <3>1 DEF Connect, Connected
  <2>3. CASE connecting \notin Cmd
    BY <1>1, <1>3, <1>7, <2>1, <2>3 DEF Connect, Connected
  <2> QED BY <2>2, <2>3
<1>8. CASE NestTimer \/ NestLinkDies
  <2>1. {} \in SUBSET Cmd /\ UNCHANGED <<broker, pc>>
    BY <1>8 DEF NestTimer, NestLinkDies
  <2> QED BY <1>3, <2>1
<1>9. CASE NestNoticesLoss
  <2>1. {c \in Cmd : pc[c] = "retry"} \in SUBSET Cmd
    OBVIOUS
  <2> QED BY <1>1, <1>3, <1>9, <2>1 DEF NestNoticesLoss, AfterLoss
<1>10. CASE NestRestarts
  <2>1. {c \in Cmd : pc[c] \notin {"new", "sent", "failed"}} \in SUBSET Cmd
    OBVIOUS
  <2> QED BY <1>1, <1>3, <1>10, <2>1 DEF NestRestarts
<1> QED BY <1>4, <1>5, <1>6, <1>7, <1>8, <1>9, <1>10 DEF NestSteps

LEMMA LinkStepRefines ==
  ASSUME IInv,
         \/ WorkerConnect \/ WorkerTimer \/ SetupChannel \/ SetupPrefetch
         \/ SkipConsumer \/ SetupConsumer \/ ActivateConsumer
         \/ WorkerNoticesLoss \/ WorkerLinkDies \/ WorkerDies
         \/ BrokerRestarts \/ Deliver
  PROVE  Refined
<1>1. ASSUME UNCHANGED <<pc, lost, runs, answered, stale>>, InBroker' = InBroker
      PROVE  Refined
  BY <1>1, Status, Stutters
<1>2. CASE \/ WorkerConnect \/ WorkerTimer \/ SetupChannel \/ SetupPrefetch
           \/ SkipConsumer \/ SetupConsumer \/ ActivateConsumer \/ WorkerNoticesLoss
  <2>1. UNCHANGED <<pc, queue, unacked, lost, runs, answered, stale>>
    BY <1>2
    DEF WorkerConnect, WorkerTimer, SetupChannel, SetupPrefetch, SkipConsumer,
      SetupConsumer, ActivateConsumer,
        WorkerNoticesLoss, Exit, nest, broker, work
  <2> QED BY <1>1, <2>1 DEF InBroker
<1>3. CASE WorkerLinkDies \/ WorkerDies
  <2>1. Requeue /\ UNCHANGED <<pc, lost, runs, answered, stale>>
    BY <1>3 DEF WorkerLinkDies, WorkerDies, Requeue, Exit, nest, work
  <2> QED BY <1>1, <2>1, RequeueHolds DEF IInv
<1>4. CASE BrokerRestarts
  <2> DEFINE C == {c \in Cmd : StatusOf(c) = "held"}
  <2>1. /\ UNCHANGED <<pc, runs, answered, stale>> /\ lost' = lost \cup InBroker
        /\ InBroker' = {}
    BY <1>4, CommandsOfEmpty DEF BrokerRestarts, work, InBroker
  <2>2. \A c \in Cmd : c \in InBroker => pc[c] = "sent"
    BY DEF IInv, SentOK
  <2>3. \A c \in Cmd : StatusOf(c)' = IF c \in C THEN "lost" ELSE StatusOf(c)
    BY <2>1, <2>2, Status
  <2>4. C \in SUBSET Cmd /\ \A c \in C : StatusOf(c) \in {"new", "held"}
    OBVIOUS
  <2> HIDE DEF C
  <2> QED BY <2>1, <2>3, <2>4, Loses
<1>5. CASE Deliver
  <2>1. UNCHANGED <<pc, lost, runs, answered, stale>>
    BY <1>5 DEF Deliver, nest
  <2> QED BY <1>1, <1>5, <2>1, DeliverHolds DEF IInv
<1> QED BY <1>2, <1>3, <1>4, <1>5

LEMMA CallbackRefines ==
  ASSUME IInv, NEW h \in handlers, Process(h) \/ Answer(h)
  PROVE  Refined
<1>1. /\ h.cmd \in Cmd /\ pc[h.cmd] = "sent" /\ UNCHANGED <<pc, queue, unacked, lost, stale>>
      /\ h.pc # "process" => runs[h.cmd] > 0
  BY DEF IInv, TypeOK, Handler, HandlersOK, Process, Answer, nest, broker
<1>2. InBroker' = InBroker
  BY <1>1 DEF InBroker
<1>3. /\ \A c \in Cmd : StatusOf(c)' = StatusOf(c)
      /\ StatusOf(h.cmd) \in {"held", "settled", "lost"}
  BY <1>1, <1>2, Status
<1>4. [c \in Cmd |-> StatusOf(c)]' = [c \in Cmd |-> StatusOf(c)]
  BY <1>3
<1>5. CASE Process(h)
  <2>1. Queue!Run(h.cmd)
    BY <1>1, <1>3, <1>4, <1>5 DEF Process, Queue!Run
  <2> QED BY <1>1, <2>1 DEF Refined, Queue!Next
<1>6. CASE Answer(h)
  <2>1. UNCHANGED runs /\ (UNCHANGED answered \/ answered' = answered \cup {h.cmd})
    BY <1>6 DEF Answer
  <2>2. CASE UNCHANGED answered
    BY <1>1, <1>3, <2>1, <2>2, Stutters
  <2>3. CASE answered' = answered \cup {h.cmd}
    <3>1. Queue!Answer(h.cmd)
      BY <1>1, <1>4, <1>6, <2>1, <2>3 DEF Answer, Queue!Answer
    <3> QED BY <1>1, <3>1 DEF Refined, Queue!Next
  <2> QED BY <2>1, <2>2, <2>3
<1> QED BY <1>5, <1>6

LEMMA AckRefines ==
  ASSUME IInv, NEW h \in handlers, Ack(h)
  PROVE  Refined
<1>1. /\ UNCHANGED <<pc, lost, runs, answered>> /\ TypeOK /\ stale \in Nat
      /\ h.cmd \in Cmd /\ h.ch \in Nat /\ channel \in Nat /\ h.pc = "ack"
      /\ queue \in Seq(Cmd)
  BY DEF Ack, ReadyToAck, Requeue, Exit, nest, broker, IInv, TypeOK, Handler
<1>2. ASSUME UNCHANGED stale, InBroker' = InBroker PROVE Refined
  BY <1>1, <1>2, Status, Stutters
\* An acknowledgement on the channel of now takes one command or none out of the broker.
<1>3. ASSUME NEW d \in Cmd, InBroker' \subseteq InBroker, InBroker \subseteq InBroker' \cup {d},
             stale' = stale + (IF h.ch # channel THEN 1 ELSE 0),
             h.ch = channel => d = h.cmd /\ h.cmd \in answered
      PROVE  Refined
  <2> DEFINE C == {c \in Cmd : StatusOf(c) = "held" /\ StatusOf(c)' # "held"}
  <2>1. \A c \in Cmd : StatusOf(c)' = IF c \in C THEN "settled" ELSE StatusOf(c)
    BY <1>1, <1>3, Status
  <2>2. C \in SUBSET {c \in Cmd : StatusOf(c) = "held"} /\ C \subseteq {d}
    BY <1>1, <1>3, Status
  <2> HIDE DEF C
  <2>3. CASE h.ch # channel
    <3>1. [c \in Cmd |-> StatusOf(c)]' = Queue!Becomes(C, "settled")
      BY <2>1 DEF Queue!Becomes
    <3>2. C \in SUBSET {c \in Cmd : [k \in Cmd |-> StatusOf(k)][c] = "held"}
      BY <2>2
    <3>3. Queue!Mistake
      BY <1>1, <1>3, <2>2, <2>3, <3>1, <3>2 DEF Queue!Mistake
    <3> QED BY <3>3 DEF Refined, Queue!Next
  <2>4. CASE h.ch = channel /\ C = {}
    BY <1>1, <1>3, <2>1, <2>4, Stutters
  <2>5. CASE h.ch = channel /\ C # {}
    <3>1. C = {h.cmd} /\ UNCHANGED stale /\ C \in SUBSET Cmd /\ StatusOf(h.cmd) = "held"
      BY <1>1, <1>3, <2>2, <2>5
    <3>2. Queue!Settle(h.cmd)
      BY <1>1, <1>3, <2>1, <2>5, <3>1, Mapped
    <3> QED BY <1>1, <3>2 DEF Refined, Queue!Next
  <2> QED BY <2>3, <2>4, <2>5
<1>4. CASE UNCHANGED <<broker, stale>>
  BY <1>2, <1>4 DEF broker, InBroker
<1>5. CASE Requeue /\ UNCHANGED stale
  BY <1>1, <1>2, <1>5, RequeueHolds
<1>6. CASE /\ channel # 0 /\ ~closed /\ wlink = "up"
           /\ stale' = stale + (IF h.ch # channel THEN 1 ELSE 0)
  <2>1. /\ channel = opened
        /\ h.ch = channel =>
             /\ h.cmd \in answered
             /\ \A i \in 1 .. Len(unacked) : unacked[i].tag = h.tag => unacked[i].cmd = h.cmd
    BY <1>1, <1>6 DEF IInv, LinkOK, ChannelOK, Usable
  <2>2. ASSUME NEW i \in Acknowledged(h), unacked' = RemoveAt(unacked, i),
               queue' = PutBack(h) \o queue
        PROVE  Refined
    <3>1. /\ queue' = queue /\ i \in DOMAIN unacked /\ DOMAIN unacked = 1 .. Len(unacked)
          /\ unacked[i].tag = h.tag
      BY <1>1, <2>2, ConcatEmptySeq DEF PutBack, Acknowledged, TypeOK
    <3>2. /\ unacked[i].cmd \in Cmd /\ InBroker' \subseteq InBroker
          /\ InBroker \subseteq InBroker' \cup {unacked[i].cmd}
      BY <1>1, <2>2, <3>1, AckHolds
    <3>3. h.ch = channel => unacked[i].cmd = h.cmd /\ h.cmd \in answered
      BY <2>1, <3>1
    <3> QED BY <1>3, <1>6, <3>2, <3>3
  <2>3. CASE Requeue
    <3>1. InBroker' = InBroker
      BY <1>1, <2>3, RequeueHolds
    <3>2. CASE h.ch = channel
      BY <1>1, <1>2, <1>6, <3>1, <3>2
    <3>3. CASE h.ch # channel
      BY <1>1, <1>3, <1>6, <3>1, <3>3
    <3> QED BY <3>2, <3>3
  <2>4. \/ \E i \in Acknowledged(h) :
             unacked' = RemoveAt(unacked, i) /\ queue' = PutBack(h) \o queue
        \/ Requeue
    BY <1>6 DEF Ack
  <2> QED BY <2>2, <2>3, <2>4
<1> QED BY <1>4, <1>5, <1>6 DEF Ack, Exit

LEMMA StepRefines == IInv /\ [Next]_vars => [Queue!Next]_Queue!vars
<1> SUFFICES ASSUME IInv, [Next]_vars PROVE Refined
  BY DEF Refined
<1>1. CASE Next
  BY <1>1, NestStepRefines, LinkStepRefines, CallbackRefines, AckRefines
  DEF Next, WorkerSteps, Environment
<1>2. CASE UNCHANGED vars
  <2>1. UNCHANGED <<pc, queue, unacked, lost, runs, answered, stale>>
    BY <1>2 DEF vars, nest, broker, work
  <2>2. InBroker' = InBroker
    BY <2>1 DEF InBroker
  <2> QED BY <2>1, <2>2, Status, Stutters
<1> QED BY <1>1, <1>2

\* The connections, channels, retries, timers and dying processes of both sides implement
\* the abstract queue: a command is settled only after it was carried out and answered,
\* unless an acknowledgement went to a channel that was not its delivery's.
THEOREM DeliveryImplementsQueue == Spec => QueueIsAtLeastOnce
BY InvariantHolds, InitRefines, StepRefines, PTL DEF Spec, QueueIsAtLeastOnce, Queue!Spec

\* A command that left the queue for good was carried out and answered, whichever side
\* lost its connection or died: it is what the abstract queue promises.
THEOREM SettledCommandsAreDone == Spec => []SettledWhenDone
<1>1. Spec => []Queue!DoneWhenSettled
  BY DeliveryImplementsQueue, Queue!SettledIsDone DEF QueueIsAtLeastOnce
<1>2. Queue!DoneWhenSettled => SettledWhenDone
  <2> SUFFICES ASSUME Queue!DoneWhenSettled, stale = 0, NEW c \in Cmd,
                      pc[c] = "sent", c \notin lost, c \notin InBroker
               PROVE  runs[c] > 0 /\ c \in answered
    BY DEF SettledWhenDone
  <2>1. [k \in Cmd |-> StatusOf(k)][c] = "settled"
    BY Status
  <2> QED BY <2>1 DEF Queue!DoneWhenSettled
<1> QED BY <1>1, <1>2, PTL

================================================================================
