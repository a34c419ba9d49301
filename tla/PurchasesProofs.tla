---------------------------- MODULE PurchasesProofs ----------------------------
(***************************************************************************)
(* What holds of Purchases for every set of messages, tables and settings, *)
(* every prefetch and every number of crashes and windows: its types, one  *)
(* answer a window, a private message only after the group's, no answer    *)
(* that something forbade throughout, no price of a half-saved table.      *)
(*                                                                         *)
(* A handler reads one setting after another and acts on them stages later, *)
(* so the invariant says of each stage what the handler has from the stages *)
(* before it, of data that only grows (the tables a program has had, the   *)
(* messages that went out, what has held since its message was delivered); *)
(* and that the ticket of a window still open has its key in the buffer,   *)
(* and is held, by a handler or by what it sent, for one message only.     *)
(***************************************************************************)
EXTENDS Purchases, SequenceTheorems, TLAPS

\* The fields of a handler.
Fields == {"at", "configured", "demand", "left", "effective", "table", "quotes", "offer",
           "enabled", "threshold", "kind", "ticket"}

\* A quote of demand d by a table its program was given, plain or raised to a price the
\* buyer accepts; of a program whose tables are mixed, any.
Priced(how, d, q, tables, mix) ==
  /\ DOMAIN q = {"program", "price"} /\ q.program \in Program
  /\ \/ q.program \in mix
     \/ \E t \in tables[q.program], l \in Limits \cup {None} :
          LET price == calculate(d.quantity, d.cpfCount, t, CeilingOf(l))
          IN  q.price \in IF how = "plain" THEN {price}
                          ELSE {Larger(a, price) : a \in d.accepted}

Told(how, d, quotes, tables, mix) ==
  \E S : quotes \in Seq(S) /\ \A q \in S : Priced(how, d, q, tables, mix)

How(kind) == IF kind = "cta" THEN "raised" ELSE "plain"

\* The stages at which a handler has a demand, its quotes, an answer out.
Asked == {"check", "table", "ceiling", "settings", "override", "threshold", "answer", "private",
          "blacklist", "contact"}
Quoted == {"settings", "override", "threshold", "answer", "private", "blacklist", "contact"}
Private == {"private", "blacklist", "contact"}
\* The stages after each of the checks.
Opened == Stage \ {"received", "bot", "handled"}
Paid == Opened \ {"authorization"}
InGroup == Paid \ {"group"}
Free == InGroup \ {"sender"}

\* The group was told these quotes in answer to m, or an agreement without any.
Answered(m, kind, quotes, out) ==
  \E t \in out : /\ t.msg = m /\ t.kind = "group"
                 /\ t.quotes = quotes \/ (kind = "cta" /\ t.quotes = <<>>)

\* What has held since m was delivered, now included.
Known(m) == held[m] \cup Holding(m, shop, held[m])

\* What the handler r of m has at its stage, of the tables each program has had, the
\* messages that went out and what has held since m was delivered.
Good(m, r, tables, mix, out, had) ==
  /\ DOMAIN r = Fields
  /\ r.at \in Stage /\ r.configured \in SUBSET Program /\ r.demand \in Demand
  /\ r.left \in Seq(Program) /\ r.effective \in Seq(Program)
  /\ Told(How(r.kind), r.demand, r.quotes, tables, mix)
  /\ r.at \in {"prefilter", "extract"} => r.configured # {}
  /\ r.at \in {"check", "table", "ceiling"} => r.left # <<>>
  /\ r.at = "ceiling" => /\ r.table # NoTable
                         /\ Head(r.left) \in mix \/ r.table \in tables[Head(r.left)]
  /\ r.at \in Asked => GroupKey(m, r.demand) \in Key
  /\ r.at \in Quoted => r.quotes # <<>>
  /\ r.at \notin Asked \ {"check"} => r.quotes = <<>>
  /\ IF r.at \in Private
       THEN /\ About[m].sender # NoSender /\ r.kind \in {"cta", "counterOffer"}
            /\ Answered(m, r.kind, r.quotes, out) /\ "offers" \in had
       ELSE r.kind = "group"
  /\ r.at = "override" /\ OffersOn(r.offer) => "sellerOffers" \in had
  /\ r.at \in {"threshold", "answer"} /\ r.enabled => "offers" \in had
  /\ r.at \in Opened => "bot" \in had
  /\ r.at \in Paid => "authorized" \in had
  /\ r.at \in InGroup => "group" \in had
  /\ r.at \in Free => "groupFree" \in had
  /\ r.at = "contact" => "privateFree" \in had

\* A ticket that the handler r of m carries, for the send it goes to.
Carries(m, r, k, i) ==
  /\ r.ticket = i
  /\ \/ r.at = "answer" /\ k = GroupKey(m, r.demand)
     \/ r.at \in {"blacklist", "contact"} /\ k = PrivateKey(m, r.kind)

\* Message m has the ticket i of key k: its handler carries it or it was sent with it.
Holds(m, k, i) ==
  \/ Carries(m, h[m], k, i)
  \/ \E s \in sent : s.msg = m /\ KeyOf(s) = k /\ s.ticket = i

\* A stage that neither opens a window nor sends.
Continues(m, r) ==
  /\ Only(m, r)
  /\ Good(m, r, saved, mixed, sent, Known(m))
  /\ \A k, i : Carries(m, r, k, i) /\ i # Unticketed => Carries(m, h[m], k, i)

\* A stage that opens a window of key k and takes its ticket.
Opens(m, r, k) ==
  /\ Step(m, r) /\ UNCHANGED <<era, sent>>
  /\ k \in Key \ buffer /\ buffer' = buffer \cup {k}
  /\ Good(m, r, saved, mixed, sent, Known(m))
  /\ \A l, i : Carries(m, r, l, i) => l = k /\ i = era[k]

\* What the handler of m, whose turn is to send, may quote.
Tells(m, quotes) ==
  IF h[m].at = "answer" THEN \E how : Told(how, h[m].demand, quotes, saved, mixed)
  ELSE h[m].at = "contact" /\ quotes = h[m].quotes

\* A stage that calls the worker.
Delivers(m, r) ==
  /\ h[m].at \in {"answer", "contact"}
  /\ Step(m, r) /\ UNCHANGED <<buffer, era>>
  /\ \E quotes : Tells(m, quotes) /\ sent' \in {sent, sent \cup {Answer(m, quotes)}}
  /\ Good(m, r, saved, mixed, sent', Known(m))
  /\ \A k, i : ~ Carries(m, r, k, i)

HandlerOK(m) == Good(m, h[m], saved, mixed, sent, held[m])

PlacesOK == place \in [Message -> {"coming", "queued", "delivered", "gone"}]
HandlersOK ==
  /\ DOMAIN h = Message
  /\ \A m \in Message : HandlerOK(m) /\ (Running(m) \/ h[m] = Fresh)

ShopFields == {"botEnabled", "authorized", "groups", "blocked", "prices", "limits", "miles",
               "offer", "groupOffer"}
\* Each program has a table it was given, unless a save has emptied it or two mixed it.
ShopOK ==
  /\ DOMAIN shop = ShopFields /\ DOMAIN saved = Program /\ mixed \subseteq Program
  /\ DOMAIN shop.prices = Program
  /\ \A p \in Program \ mixed : shop.prices[p] \in saved[p] \cup {NoTable}
  /\ shop.limits \in [Program -> Limits \cup {None}]

IsTable(t) == t = [q \in DOMAIN t |-> t[q]]

\* The rows that saves have still to insert: of a program that is not mixed one save at
\* most, which has emptied its table.
SavingOK ==
  /\ \A s \in saving :
       /\ s.what \in {"prices", "limits", "miles"} /\ DOMAIN s.rows \subseteq Program
       /\ s.what = "prices" => \A p \in DOMAIN s.rows : IsTable(s.rows[p])
       /\ s.what = "limits" => \A p \in DOMAIN s.rows : s.rows[p] \in Limits \cup {None}
  /\ \A p \in Program \ mixed : \A s \in Saves(p) :
       shop.prices[p] = NoTable /\ Saves(p) = {s}

\* A crash ends a window beyond those that end by themselves.
WindowsOK ==
  /\ buffer \subseteq Key /\ changes \in 0 .. MaxChanges
  /\ era \in [Key -> 0 .. MaxWindows + changes]

SentOK ==
  \A s \in sent :
    /\ s.msg \in Message /\ KeyOf(s) \in Key
    /\ s.kind # "group" => Answered(s.msg, s.kind, s.quotes, sent)

\* A ticket of a window that goes on has its key in the buffer; no two messages have one
\* ticket of one key.
TicketsOK ==
  \A k \in Key : \A m \in Message : \A i :
    i # Unticketed /\ Holds(m, k, i) =>
      /\ i \in 0 .. era[k] /\ (i = era[k] => k \in buffer)
      /\ \A n \in Message : Holds(n, k, i) => n = m

\* The inductive invariant.
IInv == PlacesOK /\ HandlersOK /\ ShopOK /\ SavingOK /\ WindowsOK /\ SentOK /\ TicketsOK

-----------------------------------------------------------------------------
LEMMA NothingTold ==
  ASSUME NEW how, NEW d, NEW tables, NEW mix
  PROVE  Told(how, d, <<>>, tables, mix)
<1> DEFINE S == {q \in {} : TRUE}
<1>1. <<>> \in Seq(S)
  BY EmptySeq
<1>2. \A q \in S : Priced(how, d, q, tables, mix)
  OBVIOUS
<1> HIDE DEF S
<1> QED BY <1>1, <1>2 DEF Told

\* A handler that has not begun and one that has ended have nothing.
LEMMA FreshGood ==
  ASSUME NEW m, NEW tables, NEW mix, NEW out, NEW had
  PROVE  Good(m, Fresh, tables, mix, out, had) /\ Good(m, Handled, tables, mix, out, had)
BY NothingTold
DEF Good, Fresh, Handled, Fields, Stage, Asked, Quoted, Private, Opened, Paid, InGroup, Free,
    NoDemand, Demand

\* Quotes stay as good when programs are given more tables, or get mixed ones.
LEMMA ToldGrows ==
  ASSUME NEW how, NEW d, NEW quotes, NEW tables, NEW mix, NEW more, NEW mixes,
         Told(how, d, quotes, tables, mix), mix \subseteq mixes,
         \A p \in Program : tables[p] \subseteq more[p]
  PROVE  Told(how, d, quotes, more, mixes)
<1>1. PICK S : quotes \in Seq(S) /\ \A q \in S : Priced(how, d, q, tables, mix)
  BY DEF Told
<1>2. \A q \in S : Priced(how, d, q, more, mixes)
  BY <1>1 DEF Priced
<1> QED BY <1>1, <1>2 DEF Told

\* One more quote.
LEMMA ToldMore ==
  ASSUME NEW how, NEW d, NEW quotes, NEW tables, NEW mix, NEW quote,
         Told(how, d, quotes, tables, mix), Priced(how, d, quote, tables, mix)
  PROVE  Told(how, d, Append(quotes, quote), tables, mix)
<1>1. PICK S : quotes \in Seq(S) /\ \A q \in S : Priced(how, d, q, tables, mix)
  BY DEF Told
<1> DEFINE T == S \cup {quote}
<1>2. \A q \in T : Priced(how, d, q, tables, mix)
  BY <1>1
<1>3. quotes \in Seq(T)
  <2>1. S \subseteq T
    OBVIOUS
  <2> HIDE DEF T
  <2> QED BY <1>1, <2>1
<1>4. quote \in T
  OBVIOUS
<1> HIDE DEF T
<1>5. Append(quotes, quote) \in Seq(T)
  BY <1>3, <1>4
<1> QED BY <1>2, <1>5 DEF Told

\* A price of no quote is lowered by an agreement, and every quote is still there.
LEMMA RaisedTold ==
  ASSUME NEW d, NEW quotes, NEW tables, NEW mix, NEW a \in d.accepted,
         Told("plain", d, quotes, tables, mix), quotes # <<>>
  PROVE  Told("raised", d, Raised(quotes, a), tables, mix) /\ Raised(quotes, a) # <<>>
<1>1. PICK S : quotes \in Seq(S) /\ \A q \in S : Priced("plain", d, q, tables, mix)
  BY DEF Told
<1> DEFINE up(q) == [q EXCEPT !.price = Larger(a, @)]
           T == {up(q) : q \in S}
<1>2. ASSUME NEW q \in S
      PROVE  Priced("raised", d, up(q), tables, mix)
  <2>1. Priced("plain", d, q, tables, mix)
    BY <1>1
  <2>2. /\ DOMAIN up(q) = {"program", "price"} /\ up(q).program = q.program
        /\ up(q).price = Larger(a, q.price)
    BY <2>1 DEF Priced
  <2> HIDE DEF up
  <2> QED BY <2>1, <2>2 DEF Priced
<1>3. \A q \in T : Priced("raised", d, q, tables, mix)
  BY <1>2
<1>4. /\ DOMAIN quotes = 1 .. Len(quotes) /\ Len(quotes) \in Nat /\ Len(quotes) # 0
      /\ \A i \in 1 .. Len(quotes) : quotes[i] \in S
  BY <1>1
<1>5. Raised(quotes, a) = [i \in 1 .. Len(quotes) |-> up(quotes[i])]
  BY <1>4 DEF Raised
<1>6. \A i \in 1 .. Len(quotes) : up(quotes[i]) \in T
  BY <1>4
<1> HIDE DEF T, up
<1>7. Raised(quotes, a) \in [1 .. Len(quotes) -> T]
  BY <1>5, <1>6
<1>8. Raised(quotes, a) \in Seq(T)
  BY <1>4, <1>7, SeqDef
<1>9. Raised(quotes, a) # <<>>
  BY <1>4, <1>7
<1> QED BY <1>3, <1>8, <1>9 DEF Told

\* What a handler has it keeps as the data grow.
LEMMA GoodGrows ==
  ASSUME NEW m, NEW r, NEW tables, NEW more, NEW mix, NEW mixes, NEW out, NEW further,
         NEW had, NEW has,
         Good(m, r, tables, mix, out, had),
         \A p \in Program : tables[p] \subseteq more[p], mix \subseteq mixes,
         out \subseteq further, had \subseteq has
  PROVE  Good(m, r, more, mixes, further, has)
<1>1. Told(How(r.kind), r.demand, r.quotes, more, mixes)
  BY ToldGrows DEF Good
<1>2. r.at = "ceiling" => Head(r.left) \in mixes \/ r.table \in more[Head(r.left)]
  <2>1. r.left \in Seq(Program) /\ (r.at = "ceiling" => r.left # <<>>)
    BY DEF Good
  <2> QED BY <2>1 DEF Good
<1>3. r.at \in Private => Answered(m, r.kind, r.quotes, further)
  BY DEF Good, Answered
<1> QED BY <1>1, <1>2, <1>3 DEF Good

LEMMA Ends ==
  ASSUME NEW m \in Message, Only(m, Handled)
  PROVE  Continues(m, Handled)
<1>1. Handled.at = "handled"
  BY DEF Handled, Fresh
<1> QED BY <1>1, FreshGood DEF Continues, Carries

\* A gate that is open leads to a stage whose handler is in order, and one that is shut
\* ends the handler.
LEMMA GateContinues ==
  ASSUME NEW m \in Message, HandlerOK(m), NEW from, NEW open,
         NEW to \in Stage \ {"handled", "answer", "blacklist"}, to = "contact" => from = "blacklist",
         Gate(m, from, open, to),
         h[m].at = from /\ open =>
           Good(m, [h[m] EXCEPT !.at = to], saved, mixed, sent, Known(m))
  PROVE  \E r : Continues(m, r)
<1> DEFINE r == [h[m] EXCEPT !.at = to]
<1>1. CASE ~ open
  BY <1>1, Ends DEF Gate, Goto
<1>2. CASE open
  <2>1. Only(m, r) /\ h[m].at = from
    BY <1>2 DEF Gate, Goto, At
  <2>2. r.at = to /\ r.ticket = h[m].ticket /\ r.kind = h[m].kind
    BY DEF HandlerOK, Good, Fields
  <2>3. \A k, i : Carries(m, r, k, i) => Carries(m, h[m], k, i)
    BY <2>1, <2>2 DEF Carries
  <2> QED BY <1>2, <2>1, <2>3 DEF Continues
<1> QED BY <1>1, <1>2

LEMMA SelfCheckContinues ==
  ASSUME NEW m \in Message, HandlerOK(m), SelfCheck(m)
  PROVE  \E r : Continues(m, r)
<1>1. PICK known \in BOOLEAN : Gate(m, "received", ~ (known /\ About[m].sender = Self), "bot")
  BY DEF SelfCheck
<1>2. h[m].at = "received" => Good(m, [h[m] EXCEPT !.at = "bot"], saved, mixed, sent, Known(m))
  BY DEF HandlerOK, Good, Fields, Stage, Asked, Quoted, Private, Opened, Paid, InGroup, Free, Known
<1> QED BY <1>1, <1>2, GateContinues DEF Stage

LEMMA CheckBotContinues ==
  ASSUME NEW m \in Message, HandlerOK(m), CheckBot(m)
  PROVE  \E r : Continues(m, r)
<1>1. shop.botEnabled => "bot" \in Known(m)
  BY DEF Known, Holding
<1>2. h[m].at = "bot" /\ shop.botEnabled =>
        Good(m, [h[m] EXCEPT !.at = "authorization"], saved, mixed, sent, Known(m))
  BY <1>1 DEF HandlerOK, Good, Fields, Stage, Asked, Quoted, Private, Opened, Paid, InGroup, Free, Known
<1> QED BY <1>2, GateContinues DEF CheckBot, Stage

LEMMA CheckAuthorizationContinues ==
  ASSUME NEW m \in Message, HandlerOK(m), CheckAuthorization(m)
  PROVE  \E r : Continues(m, r)
<1>1. shop.authorized => "authorized" \in Known(m)
  BY DEF Known, Holding
<1>2. h[m].at = "authorization" /\ shop.authorized =>
        Good(m, [h[m] EXCEPT !.at = "group"], saved, mixed, sent, Known(m))
  BY <1>1 DEF HandlerOK, Good, Fields, Stage, Asked, Quoted, Private, Opened, Paid, InGroup, Free, Known
<1> QED BY <1>2, GateContinues DEF CheckAuthorization, Stage

LEMMA CheckGroupContinues ==
  ASSUME NEW m \in Message, HandlerOK(m), CheckGroup(m)
  PROVE  \E r : Continues(m, r)
<1> DEFINE open == About[m].group \in shop.groups
<1>1. open => "group" \in Known(m)
  BY DEF Known, Holding
<1>2. h[m].at = "group" /\ open =>
        Good(m, [h[m] EXCEPT !.at = "sender"], saved, mixed, sent, Known(m))
  BY <1>1 DEF HandlerOK, Good, Fields, Stage, Asked, Quoted, Private, Opened, Paid, InGroup, Free, Known
<1>3. Gate(m, "group", open, "sender")
  BY DEF CheckGroup
<1> HIDE DEF open
<1> QED BY <1>2, <1>3, GateContinues DEF Stage

LEMMA CheckSenderContinues ==
  ASSUME NEW m \in Message, HandlerOK(m), CheckSender(m)
  PROVE  \E r : Continues(m, r)
<1> DEFINE open == About[m].sender = NoSender \/ ~ isBlocked(About[m].sender, "group")
<1>1. open => "groupFree" \in Known(m)
  BY DEF Known, Holding, isBlocked
<1>2. h[m].at = "sender" /\ open =>
        Good(m, [h[m] EXCEPT !.at = "programs"], saved, mixed, sent, Known(m))
  BY <1>1 DEF HandlerOK, Good, Fields, Stage, Asked, Quoted, Private, Opened, Paid, InGroup, Free, Known
<1> QED BY <1>2, GateContinues DEF CheckSender, Stage

LEMMA PrefilterContinues ==
  ASSUME NEW m \in Message, HandlerOK(m), Prefilter(m)
  PROVE  \E r : Continues(m, r)
<1>1. h[m].at = "prefilter" =>
        Good(m, [h[m] EXCEPT !.at = "extract"], saved, mixed, sent, Known(m))
  BY DEF HandlerOK, Good, Fields, Stage, Asked, Quoted, Private, Opened, Paid, InGroup, Free, Known
<1> QED BY <1>1, GateContinues DEF Prefilter, Stage

LEMMA CheckPrivateContinues ==
  ASSUME NEW m \in Message, HandlerOK(m), CheckPrivate(m)
  PROVE  \E r : Continues(m, r)
<1>1. ~ isBlocked(About[m].sender, "private") => "privateFree" \in Known(m)
  BY DEF Known, Holding, isBlocked
<1>2. h[m].at = "blacklist" /\ ~ isBlocked(About[m].sender, "private") =>
        Good(m, [h[m] EXCEPT !.at = "contact"], saved, mixed, sent, Known(m))
  BY <1>1 DEF HandlerOK, Good, Fields, Stage, Asked, Quoted, Private, Opened, Paid, InGroup, Free, Known
<1> QED BY <1>2, GateContinues DEF CheckPrivate, Stage

LEMMA ReadProgramsContinues ==
  ASSUME NEW m \in Message, HandlerOK(m), ReadPrograms(m)
  PROVE  \E r : Continues(m, r)
<1> DEFINE configured == {p \in Program : shop.prices[p] # NoTable}
           asked == {About[m].program} \cup findLiminarFor(About[m].program)
           next == IF asked \cap configured = {} THEN "handled"
                   ELSE IF About[m].estimate = None THEN "extract" ELSE "prefilter"
           r == [h[m] EXCEPT !.at = next, !.configured = asked \cap configured]
<1>1. CASE Only(m, Handled)
  BY <1>1, Ends
<1>2. CASE Only(m, r)
  <2>1. /\ DOMAIN r = Fields /\ r.at = next /\ r.configured = asked \cap configured
        /\ \A f \in Fields \ {"at", "configured"} : r[f] = h[m][f]
    BY DEF HandlerOK, Good, Fields
  <2>2. next \in {"handled", "extract", "prefilter"}
        /\ (next # "handled" => asked \cap configured # {})
        /\ asked \cap configured \in SUBSET Program
    OBVIOUS
  <2>3. h[m].at = "programs"
    BY DEF ReadPrograms, At
  <2> HIDE DEF r, next, asked, configured
  <2>4. Good(m, r, saved, mixed, sent, Known(m))
    BY <2>1, <2>2, <2>3 DEF HandlerOK, Good, Fields, Stage, Asked, Quoted, Private, Opened, Paid, InGroup, Free, Known
  <2> QED BY <1>2, <2>1, <2>2, <2>4 DEF Continues, Carries
<1> QED BY <1>1, <1>2 DEF ReadPrograms

LEMMA CandidatesOf ==
  ASSUME NEW m \in Message, h[m].configured \in SUBSET Program, h[m].configured # {}
  PROVE  Candidates(m) \in Seq(Program) /\ Candidates(m) # <<>>
<1>1. CASE About[m].program = Liminar
  BY <1>1 DEF Candidates, Program
<1>2. CASE About[m].program # Liminar
  <2> DEFINE a == IF Normal \in h[m].configured THEN <<Normal>> ELSE <<>>
             b == IF Liminar \in h[m].configured THEN <<Liminar>> ELSE <<>>
  <2>1. a \in Seq(Program) /\ b \in Seq(Program) /\ (Len(a) > 0 \/ Len(b) > 0)
        /\ Len(a) \in Nat /\ Len(b) \in Nat
    <3>1. Normal \in h[m].configured \/ Liminar \in h[m].configured
      BY DEF Program
    <3>2. Normal \in Program /\ Liminar \in Program
      BY DEF Program
    <3> HIDE DEF Normal, Liminar
    <3> QED BY <3>1, <3>2
  <2>2. Candidates(m) = a \o b
    BY <1>2 DEF Candidates
  <2> HIDE DEF a, b
  <2>3. a \o b \in Seq(Program) /\ Len(a \o b) > 0
    BY <2>1
  <2> QED BY <2>2, <2>3
<1> QED BY <1>1, <1>2

LEMMA MeantIs ==
  ASSUME NEW m \in Message, NEW d \in About[m].readings
  PROVE  Meant(d) \in Demand /\ GroupKey(m, Meant(d)) \in Key
<1>1. d \in Demand
  BY PurchaseAssumption
<1>2. Meant(d) \in Demand
  BY <1>1 DEF Meant, Demand, effectiveCpfCount
<1>3. Meant(d) \in Demands
  BY DEF Demands
<1> QED BY <1>2, <1>3 DEF Key

LEMMA ExtractContinues ==
  ASSUME NEW m \in Message, HandlerOK(m), Extract(m)
  PROVE  \E r : Continues(m, r)
<1>1. CASE Only(m, Goto(m, "handled"))
  BY <1>1, Ends DEF Goto
<1>2. ASSUME NEW d \in About[m].readings,
             Only(m, [h[m] EXCEPT !.at = "check", !.left = Candidates(m), !.demand = Meant(d),
                                  !.configured = {}])
      PROVE  \E r : Continues(m, r)
  <2> DEFINE r == [h[m] EXCEPT !.at = "check", !.left = Candidates(m), !.demand = Meant(d),
                               !.configured = {}]
  <2>1. /\ DOMAIN r = Fields /\ r.at = "check" /\ r.left = Candidates(m)
        /\ r.demand = Meant(d) /\ r.configured = {} /\ r.quotes = h[m].quotes
        /\ \A f \in Fields \ {"at", "left", "demand", "configured"} : r[f] = h[m][f]
    BY DEF HandlerOK, Good, Fields
  <2>2. h[m].at = "extract"
    BY DEF Extract, At
  <2>3. h[m].quotes = <<>> /\ h[m].configured \in SUBSET Program /\ h[m].configured # {}
    BY <2>2 DEF HandlerOK, Good, Asked
  <2>4. Candidates(m) \in Seq(Program) /\ Candidates(m) # <<>>
    BY <2>3, CandidatesOf
  <2> HIDE DEF r
  <2>5. Told(How(r.kind), r.demand, r.quotes, saved, mixed)
    BY <2>1, <2>3, NothingTold
  <2>6. Good(m, r, saved, mixed, sent, Known(m))
    BY <2>1, <2>2, <2>3, <2>4, <2>5, MeantIs
    DEF HandlerOK, Good, Fields, Stage, Asked, Quoted, Private, Opened, Paid, InGroup, Free, Known
  <2> QED BY <1>2, <2>1, <2>6 DEF Continues, Carries, r
<1> QED BY <1>1, <1>2 DEF Extract

LEMMA GetEffectiveProgramsContinues ==
  ASSUME NEW m \in Message, HandlerOK(m), getEffectivePrograms(m)
  PROVE  \E r : Continues(m, r)
<1> DEFINE p == Head(h[m].left)
           passing == IF passesProgramChecks(p, h[m].demand)
                        THEN Append(h[m].effective, p) ELSE h[m].effective
           last == Tail(h[m].left) = <<>>
           r == [h[m] EXCEPT
                   !.at = IF ~ last THEN "check" ELSE IF passing = <<>> THEN "handled" ELSE "table",
                   !.left = IF last THEN passing ELSE Tail(@),
                   !.effective = IF last THEN <<>> ELSE passing]
<1>1. Only(m, r) /\ h[m].at = "check"
  BY DEF getEffectivePrograms, At
<1>2. h[m].left \in Seq(Program) /\ h[m].left # <<>> /\ h[m].effective \in Seq(Program)
  BY <1>1 DEF HandlerOK, Good
<1>3. passing \in Seq(Program) /\ Tail(h[m].left) \in Seq(Program)
  <2>1. p \in Program
    BY <1>2
  <2> QED BY <1>2, <2>1
<1>4. /\ DOMAIN r = Fields
      /\ r.at = IF ~ last THEN "check" ELSE IF passing = <<>> THEN "handled" ELSE "table"
      /\ r.left = IF last THEN passing ELSE Tail(h[m].left)
      /\ r.effective = IF last THEN <<>> ELSE passing
      /\ \A f \in Fields \ {"at", "left", "effective"} : r[f] = h[m][f]
  BY DEF HandlerOK, Good, Fields
<1> HIDE DEF r, passing, p
<1>5. r.left \in Seq(Program) /\ r.effective \in Seq(Program)
      /\ (r.at \in {"check", "table"} => r.left # <<>>)
      /\ r.at \in {"check", "table", "handled"}
  BY <1>3, <1>4
<1>6. Good(m, r, saved, mixed, sent, Known(m))
  BY <1>1, <1>4, <1>5
  DEF HandlerOK, Good, Fields, Stage, Asked, Quoted, Private, Opened, Paid, InGroup, Free, Known
<1> QED BY <1>1, <1>5, <1>6 DEF Continues, Carries

\* After a program's price, or the lack of one: the next program, the settings or the end.
LEMMA NextProgramGood ==
  ASSUME NEW m \in Message, HandlerOK(m), h[m].at \in {"table", "ceiling"},
         NEW quotes, Told("plain", h[m].demand, quotes, saved, mixed),
         Only(m, NextProgram(m, quotes))
  PROVE  \E r : Continues(m, r)
<1> DEFINE r == NextProgram(m, quotes)
           next == IF Tail(h[m].left) # <<>> THEN "table"
                   ELSE IF quotes = <<>> THEN "handled" ELSE "settings"
<1>1. /\ DOMAIN r = Fields /\ r.at = next /\ r.left = Tail(h[m].left) /\ r.quotes = quotes
      /\ r.demand = h[m].demand /\ r.configured = h[m].configured
      /\ r.effective = h[m].effective /\ r.kind = h[m].kind
  BY DEF HandlerOK, Good, Fields, NextProgram
<1>2. Tail(h[m].left) \in Seq(Program)
  BY DEF HandlerOK, Good
<1> HIDE DEF r
<1>3. Told(How(r.kind), r.demand, r.quotes, saved, mixed)
  BY <1>1 DEF HandlerOK, Good, Private, How
<1>4. Good(m, r, saved, mixed, sent, Known(m))
  BY <1>1, <1>2, <1>3
  DEF HandlerOK, Good, Fields, Stage, Asked, Quoted, Private, Opened, Paid, InGroup, Free, Known
<1> QED BY <1>1, <1>4 DEF Continues, Carries, r

LEMMA GetPriceTableContinues ==
  ASSUME NEW m \in Message, HandlerOK(m), ShopOK, getPriceTableForProgram(m)
  PROVE  \E r : Continues(m, r)
<1> DEFINE p == Head(h[m].left)
           table == shop.prices[p]
           r == [h[m] EXCEPT !.at = "ceiling", !.table = table]
<1>1. h[m].at = "table" /\ h[m].left \in Seq(Program) /\ h[m].left # <<>>
      /\ Told("plain", h[m].demand, h[m].quotes, saved, mixed)
  BY DEF getPriceTableForProgram, At, HandlerOK, Good, Private, How
<1>2. CASE table = NoTable
  BY <1>1, <1>2, NextProgramGood DEF getPriceTableForProgram
<1>3. CASE table # NoTable
  <2>1. Only(m, r)
    BY <1>3 DEF getPriceTableForProgram
  <2>2. p \in Program
    BY <1>1
  <2>3. p \in mixed \/ table \in saved[p]
    BY <1>3, <2>2 DEF ShopOK
  <2>4. /\ DOMAIN r = Fields /\ r.at = "ceiling" /\ r.table = table
        /\ \A f \in Fields \ {"at", "table"} : r[f] = h[m][f]
    BY DEF HandlerOK, Good, Fields
  <2> HIDE DEF r
  <2>5. Good(m, r, saved, mixed, sent, Known(m))
    BY <1>1, <1>3, <2>3, <2>4
    DEF HandlerOK, Good, Fields, Stage, Asked, Quoted, Private, Opened, Paid, InGroup, Free, Known
  <2> QED BY <2>1, <2>4, <2>5 DEF Continues, Carries
<1> QED BY <1>2, <1>3

LEMMA CalculatePriceContinues ==
  ASSUME NEW m \in Message, HandlerOK(m), ShopOK, CalculatePrice(m)
  PROVE  \E r : Continues(m, r)
<1> DEFINE p == Head(h[m].left)
           d == h[m].demand
           price == calculate(d.quantity, d.cpfCount, h[m].table, CeilingOf(shop.limits[p]))
           quote == [program |-> p, price |-> price]
           quotes == IF price = NoPrice THEN h[m].quotes ELSE Append(h[m].quotes, quote)
<1>1. h[m].at = "ceiling" /\ Only(m, NextProgram(m, quotes))
  BY DEF CalculatePrice, At
<1>2. /\ h[m].left \in Seq(Program) /\ h[m].left # <<>>
      /\ p \in mixed \/ h[m].table \in saved[p]
      /\ Told("plain", d, h[m].quotes, saved, mixed)
  BY <1>1 DEF HandlerOK, Good, Private, How
<1>3. p \in Program
  BY <1>2
<1>4. shop.limits[p] \in Limits \cup {None}
  BY <1>3 DEF ShopOK
<1>5. Priced("plain", d, quote, saved, mixed)
  BY <1>2, <1>3, <1>4 DEF Priced
<1> HIDE DEF quote, price, p, d
<1>6. Told("plain", d, quotes, saved, mixed)
  BY <1>2, <1>5, ToldMore
<1> HIDE DEF quotes
<1> QED BY <1>1, <1>6, NextProgramGood DEF d

LEMMA ReadSettingsContinues ==
  ASSUME NEW m \in Message, HandlerOK(m), ReadSettings(m)
  PROVE  \E r : Continues(m, r)
<1> DEFINE r == [h[m] EXCEPT !.at = "override", !.offer = shop.offer]
<1>1. Only(m, r) /\ h[m].at = "settings"
  BY DEF ReadSettings, At
<1>2. /\ DOMAIN r = Fields /\ r.at = "override" /\ r.offer = shop.offer
      /\ \A f \in Fields \ {"at", "offer"} : r[f] = h[m][f]
  BY DEF HandlerOK, Good, Fields
<1>3. OffersOn(shop.offer) => "sellerOffers" \in Known(m)
  BY DEF Known, Holding
<1> HIDE DEF r
<1>4. Good(m, r, saved, mixed, sent, Known(m))
  BY <1>1, <1>2, <1>3
  DEF HandlerOK, Good, Fields, Stage, Asked, Quoted, Private, Opened, Paid, InGroup, Free, Known
<1> QED BY <1>1, <1>2, <1>4 DEF Continues, Carries

LEMMA ReadGroupSettingContinues ==
  ASSUME NEW m \in Message, HandlerOK(m), ReadGroupSetting(m)
  PROVE  \E r : Continues(m, r)
<1> DEFINE own == shop.groupOffer[About[m].group]
           on == IF own # None THEN own ELSE OffersOn(h[m].offer)
           r == [h[m] EXCEPT !.at = "threshold", !.enabled = on]
<1>1. Only(m, r) /\ h[m].at = "override"
  BY DEF ReadGroupSetting, At
<1>2. /\ DOMAIN r = Fields /\ r.at = "threshold" /\ r.enabled = on
      /\ \A f \in Fields \ {"at", "enabled"} : r[f] = h[m][f]
  BY DEF HandlerOK, Good, Fields
<1>3. OffersOn(h[m].offer) => "sellerOffers" \in held[m]
  BY <1>1 DEF HandlerOK, Good
<1>4. on => "offers" \in Known(m)
  BY <1>3 DEF Known, Holding
<1> HIDE DEF r, on
<1>5. r.enabled => "offers" \in Known(m)
  BY <1>2, <1>4
<1>6. Good(m, r, saved, mixed, sent, Known(m))
  BY <1>1, <1>2, <1>5
  DEF HandlerOK, Good, Fields, Stage, Asked, Quoted, Private, Opened, Paid, InGroup, Free, Known
<1> QED BY <1>1, <1>2, <1>6 DEF Continues, Carries

LEMMA FailsContinues ==
  ASSUME NEW m \in Message, Fails(m)
  PROVE  \E r : Continues(m, r)
BY Ends DEF Fails, Goto

\* What a handler whose turn is to send has: a key, the ticket it took for it, every
\* check passed, quotes, and an answer out before a private message.
LEMMA OutgoingOK ==
  ASSUME NEW m \in Message, HandlerOK(m), h[m].at \in {"answer", "contact"}, NEW quotes,
         Tells(m, quotes)
  PROVE  LET s == Answer(m, quotes)
         IN  /\ s.msg = m /\ s.quotes = quotes /\ s.demand = h[m].demand /\ KeyOf(s) \in Key
             /\ s.kind = "group" <=> h[m].at = "answer"
             /\ s.kind # "group" => s.kind \in {"cta", "counterOffer"}
             /\ Carries(m, h[m], KeyOf(s), s.ticket)
             /\ s.kind # "group" => Answered(m, s.kind, s.quotes, sent)
             /\ s.kind # "group" => Told(How(s.kind), s.demand, s.quotes, saved, mixed)
             /\ Needed(s) \subseteq held[m]
<1> DEFINE s == Answer(m, quotes)
<1>1. /\ s.msg = m /\ s.quotes = quotes /\ s.kind = h[m].kind /\ s.ticket = h[m].ticket
      /\ s.demand = h[m].demand
  BY DEF Answer
<1> HIDE DEF s
<1>2. CASE h[m].at = "answer"
  <2>1. h[m].kind = "group" /\ GroupKey(m, h[m].demand) \in Key
        /\ {"bot", "authorized", "group", "groupFree"} \subseteq held[m]
    BY <1>2 DEF HandlerOK, Good, Private, Asked, Opened, Paid, InGroup, Free, Stage
  <2> QED BY <1>1, <1>2, <2>1 DEF KeyOf, Carries, Needed, s
<1>3. CASE h[m].at = "contact"
  <2>1. /\ h[m].kind \in {"cta", "counterOffer"} /\ About[m].sender # NoSender
        /\ Answered(m, h[m].kind, h[m].quotes, sent)
        /\ Told(How(h[m].kind), h[m].demand, h[m].quotes, saved, mixed)
        /\ {"bot", "authorized", "group", "groupFree", "offers", "privateFree"} \subseteq held[m]
    BY <1>3 DEF HandlerOK, Good, Private, Asked, Opened, Paid, InGroup, Free, Stage
  <2>2. PrivateKey(m, h[m].kind) \in Key
    BY <2>1 DEF PrivateKey, Key, Senders
  <2>3. h[m].kind # "group" /\ quotes = h[m].quotes
    BY <1>3, <2>1 DEF Tells
  <2> QED BY <1>1, <1>3, <2>1, <2>2, <2>3 DEF KeyOf, Carries, Needed, s
<1> QED BY <1>2, <1>3 DEF s

\* Good says nothing of the ticket.
LEMMA TicketTaken ==
  ASSUME NEW m \in Message, NEW r, NEW had, Good(m, r, saved, mixed, sent, had), NEW i
  PROVE  /\ Good(m, [r EXCEPT !.ticket = i], saved, mixed, sent, had)
         /\ [r EXCEPT !.ticket = i].ticket = i
         /\ [r EXCEPT !.ticket = i].at = r.at /\ [r EXCEPT !.ticket = i].kind = r.kind
         /\ [r EXCEPT !.ticket = i].demand = r.demand
<1> DEFINE q == [r EXCEPT !.ticket = i]
<1>1. /\ DOMAIN q = Fields /\ q.ticket = i
      /\ \A f \in Fields \ {"ticket"} : q[f] = r[f]
  BY DEF Good, Fields
<1> HIDE DEF q
<1>2. Good(m, q, saved, mixed, sent, had)
  BY <1>1 DEF Good, Fields
<1> QED BY <1>1, <1>2 DEF q, Fields

LEMMA DeduplicatedDoes ==
  ASSUME NEW m \in Message, NEW on, NEW k \in Key, NEW handler, Deduplicated(m, on, k, handler),
         Good(m, handler, saved, mixed, sent, Known(m)),
         \/ handler.at = "answer" /\ k = GroupKey(m, handler.demand)
         \/ handler.at \in {"blacklist", "contact"} /\ k = PrivateKey(m, handler.kind)
  PROVE  \E r : Continues(m, r) \/ Opens(m, r, k)
<1>1. CASE ~ on
  <2> DEFINE r == [handler EXCEPT !.ticket = Unticketed]
  <2>1. Only(m, r)
    BY <1>1 DEF Deduplicated, Only
  <2>2. Good(m, r, saved, mixed, sent, Known(m)) /\ r.ticket = Unticketed
    BY TicketTaken
  <2> HIDE DEF r
  <2>3. \A l, i : Carries(m, r, l, i) => i = Unticketed
    BY <2>2 DEF Carries
  <2> QED BY <2>1, <2>2, <2>3 DEF Continues
<1>2. CASE on /\ shouldSkip(k)
  BY <1>2, Ends DEF Deduplicated, Goto
<1>3. CASE on /\ ~ shouldSkip(k)
  <2> DEFINE r == [handler EXCEPT !.ticket = era[k]]
  <2>1. /\ Step(m, r) /\ UNCHANGED <<era, sent>> /\ k \in Key \ buffer
        /\ buffer' = buffer \cup {k}
    BY <1>3 DEF Deduplicated, shouldSkip, Mark
  <2>2. /\ Good(m, r, saved, mixed, sent, Known(m)) /\ r.ticket = era[k]
        /\ r.at = handler.at /\ r.kind = handler.kind /\ r.demand = handler.demand
    BY TicketTaken
  <2> HIDE DEF r
  <2>3. \A l, i : Carries(m, r, l, i) => l = k /\ i = era[k]
    BY <2>2 DEF Carries
  <2> QED BY <2>1, <2>2, <2>3 DEF Opens
<1> QED BY <1>1, <1>2, <1>3

LEMMA GroupDedupDoes ==
  ASSUME NEW m \in Message, HandlerOK(m), GroupDedup(m)
  PROVE  \E r, k : Continues(m, r) \/ Opens(m, r, k)
<1> DEFINE r == [h[m] EXCEPT !.at = "answer", !.threshold = Threshold(m)]
           k == GroupKey(m, h[m].demand)
           on == h[m].offer # None /\ h[m].offer.groupDedup /\ About[m].sender # NoSender
<1>1. h[m].at = "threshold" /\ Deduplicated(m, on, k, r)
  BY DEF GroupDedup, At
<1>2. /\ DOMAIN r = Fields /\ r.at = "answer" /\ r.demand = h[m].demand
      /\ \A f \in Fields \ {"at", "threshold"} : r[f] = h[m][f]
  BY DEF HandlerOK, Good, Fields
<1> HIDE DEF r, on
<1>3. k \in Key
  BY <1>1 DEF HandlerOK, Good, Asked
<1>4. Good(m, r, saved, mixed, sent, Known(m))
  BY <1>1, <1>2
  DEF HandlerOK, Good, Fields, Stage, Asked, Quoted, Private, Opened, Paid, InGroup, Free, Known
<1> QED BY <1>1, <1>2, <1>3, <1>4, DeduplicatedDoes

LEMMA PrivateDedupDoes ==
  ASSUME NEW m \in Message, HandlerOK(m), PrivateDedup(m)
  PROVE  \E r, k : Continues(m, r) \/ Opens(m, r, k)
<1> DEFINE r == [h[m] EXCEPT !.at = "blacklist"]
           k == PrivateKey(m, h[m].kind)
           on == h[m].offer # None /\ h[m].offer.dedup
<1>1. h[m].at = "private" /\ Deduplicated(m, on, k, r)
  BY DEF PrivateDedup, At, Goto
<1>2. /\ DOMAIN r = Fields /\ r.at = "blacklist" /\ r.kind = h[m].kind
      /\ \A f \in Fields \ {"at"} : r[f] = h[m][f]
  BY DEF HandlerOK, Good, Fields
<1> HIDE DEF r, on
<1>3. k \in Key
  BY <1>1 DEF HandlerOK, Good, Private, PrivateKey, Key, Senders
<1>4. Good(m, r, saved, mixed, sent, Known(m))
  BY <1>1, <1>2
  DEF HandlerOK, Good, Fields, Stage, Asked, Quoted, Private, Opened, Paid, InGroup, Free, Known
<1> QED BY <1>1, <1>2, <1>3, <1>4, DeduplicatedDoes

\* A call to the worker that is confirmed leads on, any other one ends the handler.
LEMMA SendDelivers ==
  ASSUME NEW m \in Message, HandlerOK(m), NEW quotes, NEW next, Send(m, quotes, next),
         h[m].at \in {"answer", "contact"}, Tells(m, quotes),
         Good(m, next, saved, mixed, sent \cup {Answer(m, quotes)}, Known(m)),
         next.at \in {"handled", "private"}
  PROVE  \E r : Delivers(m, r)
<1>1. PICK arrives \in BOOLEAN, confirmed \in BOOLEAN :
        /\ confirmed => arrives
        /\ sent' = IF arrives THEN sent \cup {Answer(m, quotes)} ELSE sent
        /\ Step(m, IF confirmed THEN next ELSE Goto(m, "handled"))
        /\ UNCHANGED <<buffer, era>>
  BY DEF Send
<1>2. CASE confirmed
  BY <1>1, <1>2 DEF Delivers, Carries
<1>3. CASE ~ confirmed
  <2>1. Handled.at = "handled"
    BY DEF Handled, Fresh
  <2> QED BY <1>1, <1>3, <2>1, FreshGood DEF Delivers, Carries, Goto
<1> QED BY <1>2, <1>3

LEMMA LastSendDelivers ==
  ASSUME NEW m \in Message, HandlerOK(m), NEW quotes, Send(m, quotes, Goto(m, "handled")),
         h[m].at \in {"answer", "contact"}, Tells(m, quotes)
  PROVE  \E r : Delivers(m, r)
<1>1. Handled.at = "handled"
  BY DEF Handled, Fresh
<1> QED BY <1>1, FreshGood, SendDelivers DEF Goto

\* After an answer the handler goes on to a private message of the quotes of the answer,
\* or of those that an agreement did not tell.
LEMMA WriteGood ==
  ASSUME NEW m \in Message, HandlerOK(m), h[m].at = "answer", h[m].enabled,
         About[m].sender # NoSender, NEW kind \in {"cta", "counterOffer"}, NEW quotes, NEW told,
         Tells(m, told), told = quotes \/ (kind = "cta" /\ told = <<>>), quotes # <<>>,
         Told(How(kind), h[m].demand, quotes, saved, mixed)
  PROVE  /\ Good(m, Write(m, kind, quotes), saved, mixed, sent \cup {Answer(m, told)}, Known(m))
         /\ Write(m, kind, quotes).at = "private"
<1> DEFINE r == Write(m, kind, quotes)
<1>1. /\ DOMAIN r = Fields /\ r.at = "private" /\ r.kind = kind /\ r.quotes = quotes
      /\ \A f \in Fields \ {"at", "kind", "threshold", "enabled", "quotes"} : r[f] = h[m][f]
  BY DEF HandlerOK, Good, Fields, Write
<1> HIDE DEF r
<1>2. r.demand = h[m].demand
  BY <1>1 DEF Fields
<1>3. Answered(m, r.kind, r.quotes, sent \cup {Answer(m, told)})
  BY <1>1, OutgoingOK DEF Answered
<1>4. Told(How(r.kind), r.demand, r.quotes, saved, mixed)
  BY <1>1, <1>2
<1>5. Good(m, r, saved, mixed, sent \cup {Answer(m, told)}, Known(m))
  BY <1>1, <1>2, <1>3, <1>4
  DEF HandlerOK, Good, Fields, Stage, Asked, Quoted, Private, Opened, Paid, InGroup, Free, Known
<1> QED BY <1>1, <1>5 DEF r

LEMMA CloseDoes ==
  ASSUME NEW m \in Message, HandlerOK(m), h[m].at = "answer", NEW a \in Accepted(m)
  PROVE  /\ Close(m, a, Goto(m, "handled")) => \E r : Delivers(m, r)
         /\ /\ h[m].enabled /\ About[m].sender # NoSender
            /\ Close(m, a, Write(m, "cta", Raised(h[m].quotes, a)))
            => \E r : Delivers(m, r)
<1> DEFINE up == Raised(h[m].quotes, a)
<1>1. Told("plain", h[m].demand, h[m].quotes, saved, mixed) /\ h[m].quotes # <<>>
  BY DEF HandlerOK, Good, Private, Quoted, How
<1>2. Told("raised", h[m].demand, up, saved, mixed) /\ up # <<>>
  BY <1>1, RaisedTold DEF Accepted
<1>3. Tells(m, up) /\ Tells(m, <<>>)
  BY <1>2, NothingTold DEF Tells
<1>4. How("cta") = "raised"
  BY DEF How
<1> HIDE DEF up
<1>5. ASSUME NEW told \in {<<>>, up}, Send(m, told, Goto(m, "handled"))
      PROVE  \E r : Delivers(m, r)
  BY <1>3, <1>5, LastSendDelivers
<1>6. ASSUME h[m].enabled, About[m].sender # NoSender, NEW told \in {<<>>, up},
             Send(m, told, Write(m, "cta", up))
      PROVE  \E r : Delivers(m, r)
  BY <1>2, <1>3, <1>4, <1>6, WriteGood, SendDelivers
<1> QED BY <1>5, <1>6 DEF Close, up

LEMMA SendAnswerDoes ==
  ASSUME NEW m \in Message, HandlerOK(m), SendAnswer(m)
  PROVE  \E r : Continues(m, r) \/ Delivers(m, r)
<1> DEFINE quotes == h[m].quotes
           writes == About[m].sender # NoSender /\ h[m].enabled
<1>1. h[m].at = "answer"
  BY DEF SendAnswer, At
<1>2. Told("plain", h[m].demand, quotes, saved, mixed) /\ quotes # <<>>
  BY <1>1 DEF HandlerOK, Good, Private, Quoted, How
<1>3. Tells(m, quotes)
  BY <1>1, <1>2 DEF Tells
<1>4. CASE Send(m, quotes, Goto(m, "handled"))
  BY <1>1, <1>3, <1>4, LastSendDelivers
<1>5. ASSUME NEW a \in Accepted(m), Close(m, a, Goto(m, "handled"))
             \/ (writes /\ Close(m, a, Write(m, "cta", Raised(quotes, a))))
      PROVE  \E r : Delivers(m, r)
  BY <1>1, <1>5, CloseDoes
<1>6. CASE writes /\ Send(m, quotes, Write(m, "counterOffer", quotes))
  <2>1. How("counterOffer") = "plain"
    BY DEF How
  <2> QED BY <1>1, <1>2, <1>3, <1>6, <2>1, WriteGood, SendDelivers
<1>7. CASE Only(m, Goto(m, "handled"))
  BY <1>7, Ends DEF Goto
<1> QED BY <1>4, <1>5, <1>6, <1>7 DEF SendAnswer

LEMMA SendPrivateDoes ==
  ASSUME NEW m \in Message, HandlerOK(m), SendPrivate(m)
  PROVE  \E r : Delivers(m, r)
<1>1. h[m].at = "contact" /\ Send(m, h[m].quotes, Goto(m, "handled"))
  BY DEF SendPrivate, At
<1> QED BY <1>1, LastSendDelivers DEF Tells

\* Every stage but the acknowledgement continues, opens a window or calls the worker.
LEMMA HandlerDoes ==
  ASSUME NEW m \in Message, HandlerOK(m), ShopOK, Handler(m) \/ Fails(m), ~ Ack(m)
  PROVE  \E r, k : Continues(m, r) \/ Opens(m, r, k) \/ Delivers(m, r)
<1>1. CASE SelfCheck(m) \/ CheckBot(m) \/ CheckAuthorization(m) \/ CheckGroup(m)
           \/ CheckSender(m) \/ ReadPrograms(m) \/ Prefilter(m) \/ Extract(m)
  BY <1>1, SelfCheckContinues, CheckBotContinues, CheckAuthorizationContinues,
     CheckGroupContinues, CheckSenderContinues, ReadProgramsContinues, PrefilterContinues,
     ExtractContinues
<1>2. CASE getEffectivePrograms(m) \/ getPriceTableForProgram(m) \/ CalculatePrice(m)
           \/ ReadSettings(m) \/ ReadGroupSetting(m) \/ CheckPrivate(m) \/ Fails(m)
  BY <1>2, GetEffectiveProgramsContinues, GetPriceTableContinues, CalculatePriceContinues,
     ReadSettingsContinues, ReadGroupSettingContinues, CheckPrivateContinues, FailsContinues
<1>3. CASE GroupDedup(m) \/ SendAnswer(m) \/ PrivateDedup(m) \/ SendPrivate(m)
  BY <1>3, GroupDedupDoes, SendAnswerDoes, PrivateDedupDoes, SendPrivateDoes
<1> QED BY <1>1, <1>2, <1>3 DEF Handler

-----------------------------------------------------------------------------
\* What a handler has lasts while another message is handled, the seller adds tables and
\* messages go out: none of it is ever taken back.
LEMMA HandlerLasts ==
  ASSUME HandlersOK, Observe, NEW n \in Message, h'[n] = h[n], place'[n] = place[n],
         \A p \in Program : saved[p] \subseteq saved'[p], mixed \subseteq mixed',
         sent \subseteq sent'
  PROVE  HandlerOK(n)' /\ (Running(n)' \/ h'[n] = Fresh)
<1>1. CASE Running(n)
  <2>1. held'[n] = held[n] \cup Holding(n, shop', held[n])
    BY <1>1 DEF Observe, Running
  <2>2. Good(n, h[n], saved', mixed', sent', held'[n])
    BY <2>1, GoodGrows DEF HandlersOK, HandlerOK
  <2> QED BY <1>1, <2>2 DEF HandlerOK, Running
<1>2. CASE ~ Running(n)
  <2>1. h'[n] = Fresh
    BY <1>2 DEF HandlersOK
  <2> QED BY <2>1, FreshGood DEF HandlerOK
<1> QED BY <1>1, <1>2

\* A stage of m that leaves its handler in order leaves them all in order.
LEMMA StepKeeps ==
  ASSUME IInv, Observe, NEW m \in Message, NEW r, Running(m), Step(m, r), sent \subseteq sent',
         Good(m, r, saved, mixed, sent', Known(m))
  PROVE  PlacesOK' /\ HandlersOK' /\ ShopOK' /\ SavingOK'
<1>1. /\ h' = [h EXCEPT ![m] = r] /\ shop' = shop /\ saving' = saving /\ saved' = saved
      /\ mixed' = mixed
      /\ place' = place /\ DOMAIN h = Message
  BY DEF Step, seller, IInv, HandlersOK
<1>2. held'[m] = Known(m)
  BY <1>1 DEF Observe, Running, Known
<1>3. HandlerOK(m)' /\ Running(m)'
  BY <1>1, <1>2 DEF HandlerOK, Running
<1>4. ASSUME NEW n \in Message, n # m
      PROVE  HandlerOK(n)' /\ (Running(n)' \/ h'[n] = Fresh)
  <2>1. h'[n] = h[n]
    BY <1>1, <1>4
  <2> QED BY <1>1, <2>1, HandlerLasts DEF IInv
<1>5. HandlersOK'
  BY <1>1, <1>3, <1>4 DEF HandlersOK
<1> QED BY <1>1, <1>5 DEF IInv, PlacesOK, ShopOK, SavingOK, Saves

\* Windows that go on keep their key in the buffer; tickets are only taken from the past.
LEMMA TicketsKept ==
  ASSUME TicketsOK, era \in [Key -> Nat],
         \A k \in Key : /\ era'[k] \in Nat
                        /\ \/ era'[k] > era[k]
                           \/ era'[k] = era[k] /\ (k \in buffer => k \in buffer'),
         \A k \in Key : \A n \in Message : \A i :
           i # Unticketed /\ Holds(n, k, i)' => Holds(n, k, i)
  PROVE  TicketsOK'
<1> SUFFICES ASSUME NEW k \in Key, NEW m \in Message, NEW i, i # Unticketed, Holds(m, k, i)'
             PROVE  /\ i \in 0 .. era'[k] /\ (i = era'[k] => k \in buffer')
                    /\ \A n \in Message : Holds(n, k, i)' => n = m
  BY DEF TicketsOK, Unticketed
<1>1. Holds(m, k, i) /\ \A n \in Message : Holds(n, k, i)' => Holds(n, k, i)
  OBVIOUS
<1>2. /\ i \in 0 .. era[k] /\ (i = era[k] => k \in buffer)
      /\ \A n \in Message : Holds(n, k, i) => n = m
  BY <1>1 DEF TicketsOK
<1>3. era[k] \in Nat
  OBVIOUS
<1> QED BY <1>1, <1>2, <1>3

LEMMA ErasAreNat ==
  ASSUME WindowsOK
  PROVE  era \in [Key -> Nat]
BY PurchaseAssumption DEF WindowsOK

\* A stage whose handler carries no new ticket, and that sends at most what carries one.
LEMMA StepKeepsTickets ==
  ASSUME IInv, NEW m \in Message, NEW r, Step(m, r), UNCHANGED <<buffer, era>>,
         \A k, i : Carries(m, r, k, i) /\ i # Unticketed => Carries(m, h[m], k, i),
         \A s \in sent' \ sent : s.msg = m /\ Carries(m, h[m], KeyOf(s), s.ticket)
  PROVE  TicketsOK'
<1>1. h' = [h EXCEPT ![m] = r] /\ DOMAIN h = Message
  BY DEF Step, IInv, HandlersOK
<1>2. ASSUME NEW k \in Key, NEW n \in Message, NEW i, i # Unticketed, Holds(n, k, i)'
      PROVE  Holds(n, k, i)
  <2>1. CASE Carries(n, h'[n], k, i)
    <3>1. CASE n = m
      BY <1>1, <1>2, <2>1, <3>1 DEF Holds
    <3>2. CASE n # m
      BY <1>1, <1>2, <2>1, <3>2 DEF Holds
    <3> QED BY <3>1, <3>2
  <2>2. ASSUME NEW s \in sent', s.msg = n, KeyOf(s) = k, s.ticket = i
        PROVE  Holds(n, k, i)
    BY <2>2 DEF Holds
  <2> QED BY <1>2, <2>1, <2>2 DEF Holds, Carries, GroupKey, PrivateKey, KeyOf
<1>3. era \in [Key -> Nat]
  BY ErasAreNat DEF IInv
<1>4. TicketsOK
  BY DEF IInv
<1> QED BY <1>2, <1>3, <1>4, TicketsKept

LEMMA ContinuesKeeps ==
  ASSUME IInv, Observe, NEW m \in Message, NEW r, Running(m), Continues(m, r)
  PROVE  IInv'
<1>1. Step(m, r) /\ UNCHANGED <<buffer, era, sent>> /\ changes' = changes
  BY DEF Continues, Only, Step
<1>2. PlacesOK' /\ HandlersOK' /\ ShopOK' /\ SavingOK'
  BY <1>1, StepKeeps DEF Continues
<1>3. TicketsOK'
  BY <1>1, StepKeepsTickets DEF Continues
<1>4. WindowsOK' /\ SentOK'
  BY <1>1 DEF IInv, WindowsOK, SentOK, KeyOf, GroupKey, PrivateKey, Answered
<1> QED BY <1>2, <1>3, <1>4 DEF IInv

LEMMA DeliversKeeps ==
  ASSUME IInv, Observe, NEW m \in Message, NEW r, Running(m), Delivers(m, r)
  PROVE  IInv'
<1>0. PICK quotes : Tells(m, quotes) /\ sent' \in {sent, sent \cup {Answer(m, quotes)}}
  BY DEF Delivers
<1> DEFINE s == Answer(m, quotes)
<1>1. /\ Step(m, r) /\ UNCHANGED <<buffer, era>> /\ changes' = changes /\ sent \subseteq sent'
      /\ \A t \in sent' : t \in sent \/ t = s
  BY <1>0 DEF Delivers, Step
<1>2. /\ s.msg = m /\ KeyOf(s) \in Key /\ Carries(m, h[m], KeyOf(s), s.ticket)
      /\ s.kind # "group" => Answered(m, s.kind, s.quotes, sent)
  BY <1>0, OutgoingOK DEF Delivers, IInv, HandlersOK
<1> HIDE DEF s
<1>3. PlacesOK' /\ HandlersOK' /\ ShopOK' /\ SavingOK'
  BY <1>1, StepKeeps DEF Delivers
<1>4. TicketsOK'
  BY <1>1, <1>2, StepKeepsTickets DEF Delivers
<1>5. WindowsOK'
  BY <1>1 DEF IInv, WindowsOK
<1>6. SentOK'
  BY <1>1, <1>2 DEF IInv, SentOK, KeyOf, GroupKey, PrivateKey, Answered
<1> QED BY <1>3, <1>4, <1>5, <1>6 DEF IInv

LEMMA OpensKeeps ==
  ASSUME IInv, Observe, NEW m \in Message, NEW r, NEW k, Running(m), Opens(m, r, k)
  PROVE  IInv'
<1>1. /\ Step(m, r) /\ UNCHANGED <<era, sent>> /\ changes' = changes /\ k \in Key
      /\ k \notin buffer /\ buffer' = buffer \cup {k} /\ h' = [h EXCEPT ![m] = r]
      /\ DOMAIN h = Message /\ era \in [Key -> Nat]
  BY ErasAreNat DEF Opens, Step, IInv, HandlersOK
<1>2. PlacesOK' /\ HandlersOK' /\ ShopOK' /\ SavingOK'
  BY <1>1, StepKeeps DEF Opens
<1>3. ASSUME NEW l \in Key, NEW n \in Message, NEW i, Holds(n, l, i)'
      PROVE  Holds(n, l, i) \/ (n = m /\ l = k /\ i = era[k])
  <2>1. CASE Carries(n, h'[n], l, i)
    <3>1. CASE n = m
      BY <1>1, <2>1, <3>1 DEF Opens
    <3>2. CASE n # m
      BY <1>1, <2>1, <3>2 DEF Holds
    <3> QED BY <3>1, <3>2
  <2>2. ASSUME NEW s \in sent', s.msg = n, KeyOf(s) = l, s.ticket = i
        PROVE  Holds(n, l, i)
    BY <1>1, <2>2 DEF Holds
  <2> QED BY <1>3, <2>1, <2>2 DEF Holds, Carries, GroupKey, PrivateKey, KeyOf
<1>4. \A n \in Message : ~ Holds(n, k, era[k])
  <2>1. era[k] # Unticketed
    BY PurchaseAssumption, <1>1 DEF IInv, WindowsOK, Unticketed
  <2> QED BY <1>1, <2>1 DEF IInv, TicketsOK
<1>5. TicketsOK'
  <2> SUFFICES ASSUME NEW l \in Key, NEW n \in Message, NEW i, i # Unticketed, Holds(n, l, i)'
               PROVE  /\ i \in 0 .. era[l] /\ (i = era[l] => l \in buffer')
                      /\ \A o \in Message : Holds(o, l, i)' => o = n
    BY <1>1 DEF TicketsOK, Unticketed
  <2>1. CASE l = k /\ i = era[k]
    BY <1>1, <1>3, <1>4, <2>1
  <2>2. CASE ~ (l = k /\ i = era[k])
    <3>1. Holds(n, l, i) /\ \A o \in Message : Holds(o, l, i)' => Holds(o, l, i)
      BY <1>3, <2>2
    <3> QED BY <1>1, <3>1 DEF IInv, TicketsOK
  <2> QED BY <2>1, <2>2
<1>6. WindowsOK' /\ SentOK'
  BY <1>1 DEF IInv, WindowsOK, SentOK, KeyOf, GroupKey, PrivateKey, Answered
<1> QED BY <1>2, <1>5, <1>6 DEF IInv

LEMMA FreshCarriesNothing ==
  ASSUME NEW m, NEW k, NEW i
  PROVE  ~ Carries(m, Fresh, k, i)
BY DEF Carries, Fresh

\* A step in which no stage is taken: each handler is the one it was or a fresh one.
LEMMA HandlersRest ==
  ASSUME HandlersOK, Observe, DOMAIN h' = Message,
         \A n \in Message : h'[n] = Fresh \/ (h'[n] = h[n] /\ place'[n] = place[n]),
         \A p \in Program : saved[p] \subseteq saved'[p], mixed \subseteq mixed', sent' = sent
  PROVE  /\ HandlersOK'
         /\ \A n \in Message : \A k, i : Holds(n, k, i)' => Holds(n, k, i)
<1>1. ASSUME NEW n \in Message
      PROVE  HandlerOK(n)' /\ (Running(n)' \/ h'[n] = Fresh)
  <2>1. CASE h'[n] = Fresh
    BY <2>1, FreshGood DEF HandlerOK
  <2>2. CASE h'[n] = h[n] /\ place'[n] = place[n]
    BY <2>2, HandlerLasts
  <2> QED BY <2>1, <2>2
<1>2. ASSUME NEW n \in Message, NEW k, NEW i, Holds(n, k, i)'
      PROVE  Holds(n, k, i)
  <2>1. CASE Carries(n, h'[n], k, i)
    <3>1. h'[n] = h[n]
      BY <2>1, FreshCarriesNothing
    <3> QED BY <2>1, <3>1 DEF Holds
  <2>2. ASSUME NEW s \in sent', s.msg = n, KeyOf(s) = k, s.ticket = i
        PROVE  Holds(n, k, i)
    BY <2>2 DEF Holds
  <2> QED BY <1>2, <2>1, <2>2 DEF Holds, Carries, GroupKey, PrivateKey, KeyOf
<1> QED BY <1>1, <1>2 DEF HandlersOK

LEMMA QueueKeeps ==
  ASSUME IInv, Observe, NEW m \in Message, Publish(m) \/ Drop(m) \/ Deliver(m) \/ Ack(m)
  PROVE  IInv'
<1>1. /\ UNCHANGED <<seller, buffer, era, sent, changes>> /\ PlacesOK' /\ DOMAIN h' = Message
      /\ \A n \in Message : h'[n] = Fresh \/ (h'[n] = h[n] /\ place'[n] = place[n])
  <2>1. /\ place \in [Message -> {"coming", "queued", "delivered", "gone"}]
        /\ DOMAIN h = Message /\ \A n \in Message : Running(n) \/ h[n] = Fresh
    BY DEF IInv, PlacesOK, HandlersOK
  <2>2. CASE Publish(m)
    BY <2>1, <2>2 DEF Publish, PlacesOK, Running
  <2>3. CASE Drop(m)
    BY <2>1, <2>3 DEF Drop, PlacesOK, Running
  <2>4. CASE Deliver(m)
    BY <2>1, <2>4 DEF Deliver, PlacesOK, Running
  <2>5. CASE Ack(m)
    BY <2>1, <2>5 DEF Ack, PlacesOK, Running
  <2> QED BY <2>2, <2>3, <2>4, <2>5
<1>2. HandlersOK' /\ \A n \in Message : \A k, i : Holds(n, k, i)' => Holds(n, k, i)
  BY <1>1, HandlersRest DEF IInv, seller
<1>3. TicketsOK'
  BY <1>1, <1>2, ErasAreNat, TicketsKept DEF IInv
<1>4. ShopOK' /\ SavingOK' /\ WindowsOK' /\ SentOK'
  BY <1>1 DEF IInv, seller, ShopOK, SavingOK, WindowsOK, SentOK, KeyOf, GroupKey, PrivateKey,
              Answered, Saves
<1> QED BY <1>1, <1>2, <1>3, <1>4 DEF IInv

LEMMA CrashKeeps ==
  ASSUME IInv, Observe, Crash
  PROVE  IInv'
<1>1. /\ changes' = changes + 1 /\ changes < MaxChanges /\ buffer' = {} /\ saving' = {}
      /\ UNCHANGED <<shop, saved, mixed, sent>>
      /\ h' = [m \in Message |-> Fresh]
      /\ place' = [m \in Message |-> IF Running(m) THEN "queued" ELSE place[m]]
      /\ era' = [k \in Key |-> IF k \in buffer THEN era[k] + 1 ELSE era[k]]
      /\ era \in [Key -> 0 .. MaxWindows + changes] /\ changes \in 0 .. MaxChanges
  BY DEF Crash, Changes, IInv, WindowsOK
<1>2. HandlersOK' /\ \A n \in Message : \A k, i : Holds(n, k, i)' => Holds(n, k, i)
  BY <1>1, HandlersRest DEF IInv
<1>3. TicketsOK'
  BY <1>1, <1>2, ErasAreNat, TicketsKept DEF IInv
<1>4. PlacesOK' /\ ShopOK' /\ SavingOK' /\ SentOK'
  BY <1>1 DEF IInv, PlacesOK, ShopOK, SavingOK, SentOK, KeyOf, GroupKey, PrivateKey,
              Answered, Saves
<1>5. WindowsOK'
  BY <1>1, PurchaseAssumption DEF WindowsOK
<1> QED BY <1>2, <1>3, <1>4, <1>5 DEF IInv

LEMMA WindowEndsKeeps ==
  ASSUME IInv, Observe, NEW k \in Key, WindowEnds(k)
  PROVE  IInv'
<1>1. /\ UNCHANGED <<seller, place, h, sent, changes>> /\ buffer' = buffer \ {k}
      /\ era[k] < MaxWindows /\ era' = [era EXCEPT ![k] = @ + 1]
      /\ era \in [Key -> 0 .. MaxWindows + changes] /\ changes \in 0 .. MaxChanges
  BY DEF WindowEnds, IInv, WindowsOK
<1>2. HandlersOK' /\ \A n \in Message : \A l, i : Holds(n, l, i)' => Holds(n, l, i)
  BY <1>1, HandlersRest DEF IInv, seller, HandlersOK
<1>3. TicketsOK'
  BY <1>1, <1>2, ErasAreNat, TicketsKept DEF IInv
<1>4. PlacesOK' /\ ShopOK' /\ SavingOK' /\ SentOK'
  BY <1>1 DEF IInv, seller, PlacesOK, ShopOK, SavingOK, SentOK, KeyOf, GroupKey, PrivateKey,
              Answered, Saves
<1>5. WindowsOK'
  BY <1>1, PurchaseAssumption DEF IInv, WindowsOK
<1> QED BY <1>2, <1>3, <1>4, <1>5 DEF IInv

\* A shop has all its columns, a table for each program and limits that were saved.
Shape(new) ==
  /\ DOMAIN new = ShopFields /\ DOMAIN new.prices = Program
  /\ new.limits \in [Program -> Limits \cup {None}]

\* What the dashboard does to the shop: the tables are those of before or were given.
Rearranges ==
  /\ ShopOK' /\ SavingOK' /\ changes' \in {changes, changes + 1} \cap (0 .. MaxChanges)
  /\ \A p \in Program : saved[p] \subseteq saved'[p]
  /\ mixed \subseteq mixed'

LEMMA EditRearranges ==
  ASSUME IInv, NEW new, Shape(new), Edit(new)
  PROVE  Rearranges
<1>1. /\ saving' = saving /\ changes < MaxChanges /\ changes' = changes + 1 /\ shop' = new
      /\ saved' = [p \in Program |-> saved[p] \cup ({new.prices[p]} \ {NoTable})]
      /\ mixed' = mixed \cup {p \in Program : new.prices[p] # shop.prices[p] /\ Saves(p) # {}}
  BY DEF Edit, Changes
<1>2. changes' \in 0 .. MaxChanges
  BY <1>1, PurchaseAssumption DEF IInv, WindowsOK
<1>3. ShopOK'
  BY <1>1 DEF Shape, ShopOK, IInv
<1>4. SavingOK'
  BY <1>1 DEF SavingOK, IInv, Saves
<1> QED BY <1>1, <1>2, <1>3, <1>4 DEF Rearranges

LEMMA ColumnKeepsShape ==
  ASSUME IInv, NEW f \in ShopFields \ {"prices", "limits"}, NEW v
  PROVE  Shape([shop EXCEPT ![f] = v])
BY DEF IInv, ShopOK, ShopFields, Shape

LEMMA TableKeepsShape ==
  ASSUME IInv, NEW p \in Program, NEW t
  PROVE  Shape([shop EXCEPT !.prices[p] = t])
BY DEF IInv, ShopOK, ShopFields, Shape

LEMMA ColumnEdited ==
  ASSUME IInv, NEW f \in ShopFields \ {"prices", "limits"}, NEW v, Edit([shop EXCEPT ![f] = v])
  PROVE  Rearranges
BY ColumnKeepsShape, EditRearranges

LEMMA RowsDeleted ==
  ASSUME IInv, NEW what \in {"prices", "limits", "miles"}, NEW rows, DeleteRows(what, rows),
         DOMAIN rows \subseteq Program,
         what = "prices" => \A p \in DOMAIN rows : IsTable(rows[p]),
         what = "limits" => \A p \in DOMAIN rows : rows[p] \in Limits \cup {None}
  PROVE  Rearranges
<1> DEFINE save == [id |-> changes, what |-> what, rows |-> rows]
           column == [p \in Program |-> IF p \in DOMAIN rows THEN NoRow(what) ELSE shop[what][p]]
<1>1. /\ changes < MaxChanges /\ changes' = changes + 1 /\ saved' = saved
      /\ saving' = saving \cup {save}
      /\ shop' = [shop EXCEPT ![what] = column]
      /\ mixed' = mixed \cup {p \in DOMAIN rows : what = "prices" /\ Saves(p) # {}}
  BY DEF DeleteRows, Changes
<1>2. changes' \in 0 .. MaxChanges
  BY <1>1, PurchaseAssumption DEF IInv, WindowsOK
<1>3. save.what = what /\ save.rows = rows
  OBVIOUS
<1>4. DOMAIN column = Program
      /\ \A p \in Program : column[p] = IF p \in DOMAIN rows THEN NoRow(what) ELSE shop[what][p]
  OBVIOUS
<1>5. shop'[what] = column /\ \A f \in ShopFields \ {what} : shop'[f] = shop[f]
  BY <1>1 DEF IInv, ShopOK, ShopFields
<1>6. DOMAIN shop' = ShopFields
  BY <1>1 DEF IInv, ShopOK
<1>7. what = "limits" => column \in [Program -> Limits \cup {None}]
  BY DEF IInv, ShopOK, NoRow
<1> HIDE DEF save, column
<1>8. ASSUME NEW p \in Program \ mixed'
      PROVE  /\ shop'.prices[p] = (IF what = "prices" /\ p \in DOMAIN rows THEN NoTable
                                    ELSE shop.prices[p])
             /\ Saves(p)' = Saves(p) \cup (IF what = "prices" /\ p \in DOMAIN rows THEN {save} ELSE {})
             /\ what = "prices" /\ p \in DOMAIN rows => Saves(p) = {}
  BY <1>1, <1>3, <1>4, <1>5, <1>8 DEF NoRow, ShopFields, Saves
<1>9. SavingOK'
  <2>1. ASSUME NEW s \in saving'
        PROVE  /\ s.what \in {"prices", "limits", "miles"} /\ DOMAIN s.rows \subseteq Program
               /\ s.what = "prices" => \A p \in DOMAIN s.rows : IsTable(s.rows[p])
               /\ s.what = "limits" => \A p \in DOMAIN s.rows : s.rows[p] \in Limits \cup {None}
    BY <1>1, <1>3 DEF IInv, SavingOK
  <2>2. ASSUME NEW p \in Program \ mixed', NEW s \in Saves(p)'
        PROVE  shop'.prices[p] = NoTable /\ Saves(p)' = {s}
    BY <1>1, <1>8 DEF IInv, SavingOK
  <2> QED BY <2>1, <2>2 DEF SavingOK
<1>10. ShopOK'
  <2>1. DOMAIN shop'.prices = Program /\ shop'.limits \in [Program -> Limits \cup {None}]
    BY <1>4, <1>5, <1>7 DEF IInv, ShopOK, ShopFields
  <2>2. mixed' \subseteq Program /\ DOMAIN saved' = Program
    BY <1>1 DEF IInv, ShopOK
  <2>3. \A p \in Program \ mixed' : shop'.prices[p] \in saved'[p] \cup {NoTable}
    BY <1>1, <1>8 DEF IInv, ShopOK
  <2> QED BY <1>6, <2>1, <2>2, <2>3 DEF ShopOK
<1> QED BY <1>1, <1>2, <1>9, <1>10 DEF Rearranges

LEMMA InsertRearranges ==
  ASSUME IInv, NEW s \in saving, InsertRows(s)
  PROVE  Rearranges
<1> DEFINE what == s.what
           column == [p \in Program |-> IF p \in DOMAIN s.rows
                        THEN WithRows(what, shop[what][p], s.rows[p]) ELSE shop[what][p]]
<1>1. /\ changes' = changes /\ mixed' = mixed /\ saving' = saving \ {s}
      /\ shop' = [shop EXCEPT ![what] = column]
      /\ saved' = [p \in Program |-> IF what = "prices" /\ p \in DOMAIN s.rows
                                      THEN saved[p] \cup {s.rows[p]} ELSE saved[p]]
  BY DEF InsertRows
<1>2. /\ what \in {"prices", "limits", "miles"} /\ DOMAIN s.rows \subseteq Program
      /\ what = "prices" => \A p \in DOMAIN s.rows : IsTable(s.rows[p])
      /\ what = "limits" => \A p \in DOMAIN s.rows : s.rows[p] \in Limits \cup {None}
  BY DEF IInv, SavingOK
<1>3. /\ DOMAIN column = Program
      /\ \A p \in Program : column[p] = IF p \in DOMAIN s.rows
            THEN WithRows(what, shop[what][p], s.rows[p]) ELSE shop[what][p]
  OBVIOUS
<1>4. what = "limits" => column \in [Program -> Limits \cup {None}]
  BY <1>2 DEF IInv, ShopOK, WithRows
<1> HIDE DEF column, what
<1>5. /\ shop'[what] = column /\ \A f \in ShopFields \ {what} : shop'[f] = shop[f]
      /\ DOMAIN shop' = ShopFields
  BY <1>1, <1>2 DEF IInv, ShopOK, ShopFields
<1>6. ASSUME NEW p \in Program \ mixed, what = "prices", p \in DOMAIN s.rows
      PROVE  column[p] = s.rows[p] /\ Saves(p)' = {}
  <2>1. shop.prices[p] = NoTable /\ Saves(p) = {s}
    BY <1>6 DEF IInv, SavingOK, Saves, what
  <2>2. column[p] = WithRows("prices", NoTable, s.rows[p])
    BY <1>3, <1>6, <2>1
  <2>3. IsTable(s.rows[p])
    BY <1>2, <1>6
  <2>4. DOMAIN NoTable = {}
    BY DEF NoTable
  <2>5. WithRows("prices", NoTable, s.rows[p]) = [q \in DOMAIN s.rows[p] |-> s.rows[p][q]]
    BY <2>4 DEF WithRows
  <2>6. Saves(p)' = Saves(p) \ {s}
    BY <1>1 DEF Saves
  <2> QED BY <2>1, <2>2, <2>3, <2>5, <2>6 DEF IsTable
<1>7. ASSUME NEW p \in Program \ mixed, ~ (what = "prices" /\ p \in DOMAIN s.rows)
      PROVE  shop'.prices[p] = shop.prices[p] /\ Saves(p)' = Saves(p)
  BY <1>1, <1>3, <1>5, <1>7 DEF ShopFields, Saves, what
<1>8. SavingOK'
  <2>1. ASSUME NEW p \in Program \ mixed, NEW t \in Saves(p)'
        PROVE  shop'.prices[p] = NoTable /\ Saves(p)' = {t}
    BY <1>6, <1>7, <2>1 DEF IInv, SavingOK
  <2> QED BY <1>1, <2>1 DEF IInv, SavingOK
<1>9. ShopOK'
  <2>1. DOMAIN shop'.prices = Program /\ shop'.limits \in [Program -> Limits \cup {None}]
    BY <1>2, <1>3, <1>4, <1>5 DEF IInv, ShopOK, ShopFields
  <2>2. \A p \in Program \ mixed' : shop'.prices[p] \in saved'[p] \cup {NoTable}
    <3> SUFFICES ASSUME NEW p \in Program \ mixed
                 PROVE  shop'.prices[p] \in saved'[p] \cup {NoTable}
      BY <1>1
    <3>1. CASE what = "prices" /\ p \in DOMAIN s.rows
      BY <1>1, <1>5, <1>6, <3>1
    <3>2. CASE ~ (what = "prices" /\ p \in DOMAIN s.rows)
      BY <1>1, <1>7, <3>2 DEF IInv, ShopOK
    <3> QED BY <3>1, <3>2
  <2> QED BY <1>1, <1>5, <2>1, <2>2 DEF IInv, ShopOK
<1>10. changes \in 0 .. MaxChanges
  BY DEF IInv, WindowsOK
<1> QED BY <1>1, <1>8, <1>9, <1>10 DEF Rearranges

LEMMA FailedInsertRearranges ==
  ASSUME IInv, NEW s \in saving, InsertFails(s)
  PROVE  Rearranges
<1>1. UNCHANGED <<shop, saved, mixed, changes>> /\ saving' = saving \ {s}
      /\ changes \in 0 .. MaxChanges
  BY DEF InsertFails, IInv, WindowsOK
<1>2. SavingOK'
  BY <1>1 DEF IInv, SavingOK, Saves
<1> QED BY <1>1, <1>2 DEF Rearranges, IInv, ShopOK

LEMMA DashboardRearranges ==
  ASSUME IInv, Dashboard
  PROVE  Rearranges
<1>1. ASSUME NEW b, updateBotStatus(b)
      PROVE  Rearranges
  BY <1>1, ColumnEdited DEF updateBotStatus, ShopFields
<1>2. CASE SubscriptionChanges
  BY <1>2, ColumnEdited DEF SubscriptionChanges, ShopFields
<1>3. ASSUME NEW g, activateGroup(g) \/ deactivateGroup(g)
      PROVE  Rearranges
  BY <1>3, ColumnEdited DEF activateGroup, deactivateGroup, ShopFields
<1>4. ASSUME NEW s, NEW scope, addToBlacklist(s, scope) \/ removeFromBlacklist(s)
      PROVE  Rearranges
  BY <1>4, ColumnEdited DEF addToBlacklist, removeFromBlacklist, ShopFields
<1>5. ASSUME NEW row, updateCounterOfferSettings(row)
      PROVE  Rearranges
  BY <1>5, ColumnEdited DEF updateCounterOfferSettings, ShopFields
<1>6. ASSUME NEW g, NEW b, updateGroupCounterOffer(g, b) \/ deleteGroupCounterOffer(g)
      PROVE  Rearranges
  BY <1>6, ColumnEdited DEF updateGroupCounterOffer, deleteGroupCounterOffer, ShopFields
<1>7. ASSUME NEW p \in Program, NEW q, NEW to, NEW price,
             \/ upsertPriceEntry(p, q, price) \/ updatePriceEntry(p, q, to, price)
             \/ deletePriceEntry(p, q)
      PROVE  Rearranges
  <2>1. PICK t : Edit([shop EXCEPT !.prices[p] = t])
    BY <1>7 DEF upsertPriceEntry, updatePriceEntry, deletePriceEntry
  <2> QED BY <2>1, TableKeepsShape, EditRearranges
<1>8. ASSUME NEW rows \in [Program -> Tables], setPriceEntries(rows)
      PROVE  Rearranges
  BY <1>8, PurchaseAssumption, RowsDeleted DEF setPriceEntries, IsTable
<1>9. ASSUME NEW p \in Program, NEW t \in Tables, setPriceEntriesForProgram(p, t)
      PROVE  Rearranges
  <2> DEFINE rows == [only \in {p} |-> t]
  <2>1. DOMAIN rows = {p} /\ rows[p] = t /\ DeleteRows("prices", rows)
    BY <1>9 DEF setPriceEntriesForProgram
  <2>2. IsTable(t)
    BY PurchaseAssumption DEF IsTable
  <2> HIDE DEF rows
  <2> QED BY <2>1, <2>2, RowsDeleted
<1>10. ASSUME NEW rows \in [Program -> Limits \cup {None}], setMaxPrices(rows)
       PROVE  Rearranges
  BY <1>10, RowsDeleted DEF setMaxPrices
<1>11. ASSUME NEW rows \in [Program -> Miles], setAvailableMiles(rows)
       PROVE  Rearranges
  BY <1>11, RowsDeleted DEF setAvailableMiles
<1>12. ASSUME NEW s \in saving, InsertRows(s) \/ InsertFails(s)
       PROVE  Rearranges
  BY <1>12, InsertRearranges, FailedInsertRearranges
<1> QED BY <1>1, <1>2, <1>3, <1>4, <1>5, <1>6, <1>7, <1>8, <1>9, <1>10, <1>11, <1>12
        DEF Dashboard

LEMMA DashboardKeeps ==
  ASSUME IInv, Observe, Dashboard
  PROVE  IInv'
<1>1. UNCHANGED <<place, h, buffer, era, sent>> /\ Rearranges
  BY DashboardRearranges DEF Dashboard
<1>2. HandlersOK' /\ \A n \in Message : \A l, i : Holds(n, l, i)' => Holds(n, l, i)
  BY <1>1, HandlersRest DEF IInv, Rearranges, HandlersOK
<1>3. TicketsOK'
  BY <1>1, <1>2, ErasAreNat, TicketsKept DEF IInv
<1>4. PlacesOK' /\ SentOK'
  BY <1>1 DEF IInv, PlacesOK, SentOK, KeyOf, GroupKey, PrivateKey, Answered
<1>5. WindowsOK'
  <2>1. changes \in Nat /\ changes' \in {changes, changes + 1} /\ changes' \in 0 .. MaxChanges
    BY <1>1, PurchaseAssumption DEF Rearranges, IInv, WindowsOK
  <2> QED BY <1>1, <2>1, PurchaseAssumption DEF IInv, WindowsOK
<1> QED BY <1>1, <1>2, <1>3, <1>4, <1>5 DEF IInv, Rearranges

-----------------------------------------------------------------------------
LEMMA InitHolds == Init => IInv
<1> SUFFICES ASSUME Init PROVE IInv
  OBVIOUS
<1>1. /\ place = [m \in Message |-> "coming"] /\ h = [m \in Message |-> Fresh]
      /\ saving = {} /\ saved = [p \in Program |-> {shop.prices[p]}] /\ mixed = {}
      /\ buffer = {} /\ era = [k \in Key |-> 0] /\ sent = {} /\ changes = 0
  BY DEF Init
<1>2. /\ DOMAIN shop = ShopFields /\ DOMAIN shop.prices = Program
      /\ shop.limits = [p \in Program |-> None]
  BY DEF Init, ShopFields
<1>3. PlacesOK /\ ShopOK /\ SavingOK /\ SentOK
  BY <1>1, <1>2 DEF PlacesOK, ShopOK, SavingOK, SentOK, Saves
<1>4. HandlersOK
  BY <1>1, FreshGood DEF HandlersOK, HandlerOK
<1>5. WindowsOK
  BY <1>1, PurchaseAssumption DEF WindowsOK
<1>6. TicketsOK
  BY <1>1, FreshCarriesNothing DEF TicketsOK, Holds
<1> QED BY <1>3, <1>4, <1>5, <1>6 DEF IInv

LEMMA HandlerRuns ==
  ASSUME NEW m \in Message, Handler(m) \/ Fails(m)
  PROVE  Running(m)
BY DEF Handler, SelfCheck, CheckBot, CheckAuthorization, CheckGroup, CheckSender, ReadPrograms,
       Prefilter, Extract, getEffectivePrograms, getPriceTableForProgram, CalculatePrice,
       ReadSettings, ReadGroupSetting, GroupDedup, SendAnswer, PrivateDedup, CheckPrivate, SendPrivate, Ack,
       Fails, Gate, At

LEMMA StepHolds == IInv /\ [Next]_vars => IInv'
<1> SUFFICES ASSUME IInv, [Next]_vars PROVE IInv'
  OBVIOUS
<1>1. CASE UNCHANGED vars
  <2>1. /\ UNCHANGED <<shop, saving, saved, mixed>>
        /\ UNCHANGED <<place, h, buffer, era, sent, held, changes>>
    BY <1>1 DEF vars, seller
  <2>2. HandlersOK'
    BY <2>1 DEF IInv, HandlersOK, HandlerOK, Running
  <2>3. TicketsOK'
    BY <2>1 DEF IInv, TicketsOK, Holds, Carries, KeyOf, GroupKey, PrivateKey
  <2> QED BY <2>1, <2>2, <2>3 DEF IInv, PlacesOK, ShopOK, SavingOK, Saves, WindowsOK, SentOK,
             KeyOf, GroupKey, PrivateKey, Answered
<1>2. ASSUME NEW m \in Message, Observe, Handler(m) \/ Fails(m), ~ Ack(m)
      PROVE  IInv'
  <2>1. PICK r, k : Continues(m, r) \/ Opens(m, r, k) \/ Delivers(m, r)
    BY <1>2, HandlerDoes DEF IInv, HandlersOK
  <2> QED BY <1>2, <2>1, HandlerRuns, ContinuesKeeps, OpensKeeps, DeliversKeeps
<1>3. ASSUME NEW m \in Message, Observe, Publish(m) \/ Drop(m) \/ Deliver(m) \/ Ack(m)
      PROVE  IInv'
  BY <1>3, QueueKeeps
<1>4. CASE Crash /\ Observe
  BY <1>4, CrashKeeps
<1>5. ASSUME NEW k \in Key, WindowEnds(k), Observe
      PROVE  IInv'
  BY <1>5, WindowEndsKeeps
<1>6. CASE Dashboard /\ Observe
  BY <1>6, DashboardKeeps
<1> QED BY <1>1, <1>2, <1>3, <1>4, <1>5, <1>6 DEF Next

LEMMA InvariantHolds == Spec => []IInv
BY InitHolds, StepHolds, PTL DEF Spec

\* Only a handler that calls the worker sends, and it sends its own message.
LEMMA OnlyOutgoing ==
  ASSUME IInv, [Next]_vars, NEW s \in sent' \ sent
  PROVE  \E m \in Message : \E quotes :
           /\ HandlerOK(m) /\ h[m].at \in {"answer", "contact"} /\ Tells(m, quotes)
           /\ s = Answer(m, quotes)
<1>1. sent' # sent
  OBVIOUS
<1>2. CASE \E m \in Message : (Handler(m) \/ Fails(m)) /\ ~ Ack(m)
  <2>1. PICK m \in Message : (Handler(m) \/ Fails(m)) /\ ~ Ack(m)
    BY <1>2
  <2>2. PICK r, k : Continues(m, r) \/ Opens(m, r, k) \/ Delivers(m, r)
    BY <2>1, HandlerDoes DEF IInv, HandlersOK
  <2>3. Delivers(m, r)
    BY <1>1, <2>2 DEF Continues, Only, Opens
  <2> QED BY <2>3 DEF Delivers, IInv, HandlersOK
<1>3. CASE ~ \E m \in Message : (Handler(m) \/ Fails(m)) /\ ~ Ack(m)
  BY <1>1, <1>3 DEF Next, vars, Publish, Drop, Deliver, Ack, Crash, WindowEnds, Dashboard
<1> QED BY <1>2, <1>3

\* A handler never stands at a stage without what the stages before it leave it, a save is
\* never without its rows, and the buffer and the windows stay within their bounds.
THEOREM TypeCorrect == Spec => []TypeOK
<1>1. IInv => TypeOK
  <2> SUFFICES ASSUME IInv PROVE TypeOK
    OBVIOUS
  <2>1. ASSUME NEW m \in Message
        PROVE  /\ h[m].at \in Stage
               /\ Running(m) \/ h[m] = Fresh
               /\ h[m].at \in {"check", "table", "ceiling"} => h[m].left # <<>>
               /\ h[m].at = "ceiling" => h[m].table # NoTable
               /\ h[m].at \in {"settings", "override", "threshold", "answer", "private", "blacklist",
                               "contact"} => h[m].quotes # <<>>
               /\ h[m].at \in {"private", "blacklist", "contact"} =>
                    About[m].sender # NoSender /\ h[m].kind # "group"
    BY DEF IInv, HandlersOK, HandlerOK, Good, Quoted, Private
  <2>2. era \in [Key -> 0 .. MaxWindows + MaxChanges]
    BY PurchaseAssumption DEF IInv, WindowsOK
  <2> QED BY <2>1, <2>2 DEF TypeOK, IInv, PlacesOK, SavingOK, WindowsOK, ShopOK
<1> QED BY <1>1, InvariantHolds, PTL

\* However long handlers wait between PrivateMessageBufferService's mark and the send, and
\* whatever crashes or fails meanwhile, one message at most of those that share a key is
\* answered in each window.
THEOREM OneAnswerPerWindow == Spec => []OncePerWindow
<1>1. IInv => OncePerWindow
  <2> SUFFICES ASSUME IInv, NEW s \in sent, NEW t \in sent, KeyOf(s) = KeyOf(t),
                      s.ticket = t.ticket, s.ticket # Unticketed
               PROVE  s.msg = t.msg
    BY DEF OncePerWindow
  <2>1. KeyOf(s) \in Key /\ s.msg \in Message /\ t.msg \in Message
    BY DEF IInv, SentOK
  <2>2. Holds(s.msg, KeyOf(s), s.ticket) /\ Holds(t.msg, KeyOf(s), s.ticket)
    BY DEF Holds
  <2> QED BY <2>1, <2>2 DEF IInv, TicketsOK
<1> QED BY <1>1, InvariantHolds, PTL

\* handlePurchase writes to a buyer in private only after the group's answer to the same
\* message, with the same quotes or a mere agreement, reached Telegram.
THEOREM PrivateComesSecond == Spec => []PrivateFollowsAnswer
<1>1. IInv => PrivateFollowsAnswer
  BY DEF IInv, SentOK, PrivateFollowsAnswer, Answered
<1> QED BY <1>1, InvariantHolds, PTL

\* Nothing that forbade an answer the whole time its message was handled is overlooked.
THEOREM OnlyPermittedAnswers == Spec => PermittedAnswers
<1>1. IInv /\ [Next]_vars => [\A s \in sent' \ sent : Needed(s) \subseteq held[s.msg]]_vars
  BY OnlyOutgoing, OutgoingOK
<1> QED BY <1>1, InvariantHolds, PTL DEF Spec, PermittedAnswers

\* Every price a buyer is quoted is one of a table the seller gave the program, limited by a
\* greatest price the seller has set or by none, or what the buyer agreed to where that is
\* more; unless two requests changed the program's prices at a time.
THEOREM NoPriceFromHalfASave == Spec => QuotesFromSavedTables
<1> DEFINE A == \A s \in sent' \ sent : \A i \in DOMAIN s.quotes :
                  \/ s.quotes[i].program \in mixed
                  \/ \E table \in saved[s.quotes[i].program], limit \in Limits \cup {None} :
                       s.quotes[i].price \in
                         Quoting(s, calculate(s.demand.quantity, s.demand.cpfCount, table,
                                              CeilingOf(limit)))
<1>1. ASSUME IInv, [Next]_vars
      PROVE  A
  <2> SUFFICES ASSUME NEW s \in sent' \ sent, NEW i \in DOMAIN s.quotes,
                      s.quotes[i].program \notin mixed
               PROVE  \E table \in saved[s.quotes[i].program], limit \in Limits \cup {None} :
                        s.quotes[i].price \in
                          Quoting(s, calculate(s.demand.quantity, s.demand.cpfCount, table,
                                               CeilingOf(limit)))
    OBVIOUS
  <2>0. PICK m \in Message :
          \E quotes : /\ HandlerOK(m) /\ h[m].at \in {"answer", "contact"}
                      /\ Tells(m, quotes) /\ s = Answer(m, quotes)
    BY <1>1, OnlyOutgoing
  <2>1. PICK quotes : /\ HandlerOK(m) /\ h[m].at \in {"answer", "contact"}
                      /\ Tells(m, quotes) /\ s = Answer(m, quotes)
    BY <2>0
  <2>2. PICK how : /\ Told(how, s.demand, s.quotes, saved, mixed)
                   /\ s.kind = "group" \/ (s.kind \in {"cta", "counterOffer"} /\ how = How(s.kind))
    BY <2>1, OutgoingOK DEF Tells
  <2>3. PICK S : s.quotes \in Seq(S) /\ \A q \in S : Priced(how, s.demand, q, saved, mixed)
    BY <2>2 DEF Told
  <2>4. Priced(how, s.demand, s.quotes[i], saved, mixed)
    BY <2>3
  <2>5. PICK table \in saved[s.quotes[i].program], limit \in Limits \cup {None} :
          LET price == calculate(s.demand.quantity, s.demand.cpfCount, table, CeilingOf(limit))
          IN  s.quotes[i].price \in IF how = "plain" THEN {price}
                                    ELSE {Larger(a, price) : a \in s.demand.accepted}
    BY <2>4 DEF Priced
  <2>6. CASE how = "plain"
    BY <2>2, <2>5, <2>6 DEF Quoting, How
  <2>7. CASE how # "plain"
    BY <2>2, <2>5, <2>7 DEF Quoting, How
  <2> QED BY <2>6, <2>7
<1> HIDE DEF A
<1>2. IInv /\ [Next]_vars => [A]_vars
  BY <1>1
<1>3. Spec => [][A]_vars
  BY <1>2, InvariantHolds, PTL DEF Spec
<1> QED BY <1>3 DEF QuotesFromSavedTables, A
================================================================================
