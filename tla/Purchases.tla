------------------------------ MODULE Purchases ------------------------------
(***************************************************************************)
(* Answering buyers.  The seller's client publishes the messages of its    *)
(* groups to a queue; nest_api takes up to ten at a time and, for each, may *)
(* answer in the group with a price and then write to the buyer in private. *)
(* Meanwhile the seller edits prices, miles, groups, the blacklist and the  *)
(* counter offers from the dashboard.                                       *)
(*                                                                          *)
(* Each action of a handler is one of its awaits with what it does before   *)
(* the next one.  The language model, Telegram, RabbitMQ and the seller's   *)
(* subscription (module Billing) are external.                              *)
(*                                                                          *)
(* Quantities are in thousands of miles, prices in cents.                   *)
(***************************************************************************)
EXTENDS PriceTable, Sequences

CONSTANTS
  Message,     \* the messages published
  About,       \* About[m]: sender, group, program, estimate and readings of m
  Self, NoSender,
  Tables,      \* price tables the seller saves
  Entries,     \* single rows of a price table the seller saves
  Limits,      \* greatest price, least quantity and threshold the seller saves
  Miles,       \* miles in stock the seller saves
  Offers,      \* counter-offer settings the seller saves
  None,        \* null
  Prefetch,
  MaxWindows,  \* bound on the windows of a key that end
  MaxChanges,  \* bound on the edits and crashes together
  MaxTogether  \* bound on these and the messages published before the last of them

Normal == "normal"
Liminar == "liminar"
Program == {Normal, Liminar}

\* What the language model extracts: quantity, passengers, prices the buyer accepts.
Demand == [quantity : Nat, cpfCount : Nat, accepted : SUBSET Nat]

ASSUME PurchaseAssumption ==
  /\ Prefetch \in Nat \ {0}
  /\ MaxWindows \in Nat /\ MaxChanges \in Nat /\ MaxTogether \in Nat
  /\ \A m \in Message : About[m].program \in Program /\ About[m].readings \subseteq Demand
  /\ \A t \in Tables : t \in [DOMAIN t -> Nat]

VARIABLES
  shop,      \* the seller's rows
  saving,    \* the saves of whole tables between their delete and their insert
  place,     \* place[m]: where message m is
  h,         \* h[m]: the handler of m
  buffer,    \* keys of PrivateMessageBufferService within their window
  era,       \* era[k]: windows of key k that have ended
  sent,      \* messages that reached Telegram
  held,      \* held[m]: what has held since m was delivered
  saved,     \* saved[p]: every price table the seller gave program p
  mixed,     \* programs whose prices two requests changed at a time
  changes    \* edits and crashes so far

seller == <<shop, saving, saved, mixed>>
vars == <<seller, place, h, buffer, era, sent, held, changes>>

Groups == {About[m].group : m \in Message}
Senders == {About[m].sender : m \in Message} \ {NoSender}

effectiveCpfCount(d) == IF d.cpfCount = 0 THEN 1 ELSE d.cpfCount

\* The demand as the handler goes on with it.
Meant(d) == [d EXCEPT !.cpfCount = effectiveCpfCount(d)]
Demands == {Meant(d) : d \in UNION {About[m].readings : m \in Message}}
Scope == {"group", "private"}
NoTable == [q \in {} |-> 0]

GroupKey(m, d) == <<"group", About[m].sender, About[m].group, About[m].program,
                    d.quantity, d.cpfCount>>
PrivateKey(m, kind) == <<kind, About[m].sender>>
Key == {GroupKey(m, d) : m \in Message, d \in Demands}
         \cup {<<kind, s>> : kind \in {"cta", "counterOffer"}, s \in Senders}

Stage == {"received", "bot", "authorization", "group", "sender", "programs",
          "prefilter", "extract", "check", "table", "ceiling", "settings",
          "override", "threshold", "answer", "private", "blacklist", "contact", "handled"}

NoDemand == [quantity |-> 0, cpfCount |-> 0, accepted |-> {}]
Fresh == [at |-> "received", configured |-> {}, demand |-> NoDemand, left |-> <<>>,
          effective |-> <<>>, table |-> NoTable, quotes |-> <<>>, offer |-> None,
          enabled |-> FALSE, threshold |-> 0, kind |-> "group", ticket |-> 0]
Unticketed == MaxWindows + MaxChanges + 1   \* the send was not deduplicated

Running(m) == place[m] = "delivered"

Changes ==
  /\ changes < MaxChanges /\ changes' = changes + 1
  /\ changes + Cardinality({m \in Message : place[m] # "coming"}) < MaxTogether

Init ==
  \E off \in {"nothing", "groups", "buyers", "offers"} :
  /\ shop = [botEnabled |-> TRUE, authorized |-> TRUE,
             groups |-> IF off = "groups" THEN {} ELSE Groups,
             blocked |-> [s \in Senders |-> IF off = "buyers" THEN {"private"} ELSE {}],
             prices |-> [p \in Program |-> CHOOSE t \in Tables : t # NoTable],
             limits |-> [p \in Program |-> None],
             miles |-> [p \in Program |-> CHOOSE n \in Miles : \A o \in Miles : o <= n],
             offer |-> CHOOSE o \in Offers : o.isEnabled /\ o.dedup /\ o.groupDedup,
             groupOffer |-> [g \in Groups |-> IF off = "offers" THEN FALSE ELSE None]]
  /\ saving = {}
  /\ saved = [p \in Program |-> {shop.prices[p]}] /\ mixed = {}
  /\ place = [m \in Message |-> "coming"]
  /\ h = [m \in Message |-> Fresh]
  /\ buffer = {} /\ era = [k \in Key |-> 0]
  /\ sent = {} /\ held = [m \in Message |-> {}]
  /\ changes = 0

-----------------------------------------------------------------------------
(* The queue: one minute to live, a thousand messages.                      *)

Publish(m) ==
  /\ place[m] = "coming"
  /\ place' = [place EXCEPT ![m] = "queued"]
  /\ UNCHANGED <<seller, h, buffer, era, sent, changes>>

\* It waited for a minute, or was at the head of a full queue.
Drop(m) ==
  /\ place[m] = "queued"
  /\ place' = [place EXCEPT ![m] = "gone"]
  /\ UNCHANGED <<seller, h, buffer, era, sent, changes>>

Deliver(m) ==
  /\ place[m] = "queued"
  /\ Cardinality({n \in Message : Running(n)}) < Prefetch
  /\ place' = [place EXCEPT ![m] = "delivered"]
  /\ h' = [h EXCEPT ![m] = Fresh]
  /\ UNCHANGED <<seller, buffer, era, sent, changes>>

\* Acknowledged whether the handler succeeded or failed.
Ack(m) ==
  /\ Running(m) /\ h[m].at = "handled"
  /\ place' = [place EXCEPT ![m] = "gone"]
  /\ h' = [h EXCEPT ![m] = Fresh]
  /\ UNCHANGED <<seller, buffer, era, sent, changes>>

\* nest_api dies: what it had not acknowledged is delivered again, its buffer is
\* empty, and the saves stay half done.
Crash ==
  /\ Changes
  /\ place' = [m \in Message |-> IF Running(m) THEN "queued" ELSE place[m]]
  /\ h' = [m \in Message |-> Fresh]
  /\ buffer' = {}
  /\ era' = [k \in Key |-> IF k \in buffer THEN era[k] + 1 ELSE era[k]]
  /\ saving' = {}
  /\ UNCHANGED <<shop, saved, mixed, sent>>

\* Deduplication: the window of a key ends.
WindowEnds(k) ==
  /\ k \in buffer /\ era[k] < MaxWindows
  /\ buffer' = buffer \ {k}
  /\ era' = [era EXCEPT ![k] = @ + 1]
  /\ UNCHANGED <<seller, place, h, sent, changes>>

-----------------------------------------------------------------------------
(* The dashboard.  A save of a whole table deletes the rows and then inserts *)
(* the new ones, in two transactions, and other requests may come between.   *)

Saves(p) == {s \in saving : s.what = "prices" /\ p \in DOMAIN s.rows}

\* A request of one statement.
Edit(newShop) ==
  /\ Changes
  /\ shop' = newShop /\ UNCHANGED saving
  /\ saved' = [p \in Program |-> saved[p] \cup ({newShop.prices[p]} \ {NoTable})]
  /\ mixed' = mixed \cup {p \in Program : /\ newShop.prices[p] # shop.prices[p]
                                          /\ Saves(p) # {}}

updateBotStatus(enabled) == Edit([shop EXCEPT !.botEnabled = enabled])

\* A payment, the end of a period, a cancellation.
SubscriptionChanges == Edit([shop EXCEPT !.authorized = ~ @])

activateGroup(g) == Edit([shop EXCEPT !.groups = @ \cup {g}])
deactivateGroup(g) == Edit([shop EXCEPT !.groups = @ \ {g}])

\* One row for a blocked sender; adding it again replaces its scope.
addToBlacklist(s, scope) == Edit([shop EXCEPT !.blocked[s] = scope])
removeFromBlacklist(s) == Edit([shop EXCEPT !.blocked[s] = {}])

updateCounterOfferSettings(row) == Edit([shop EXCEPT !.offer = row])

updateGroupCounterOffer(g, enabled) ==
  g \in shop.groups /\ Edit([shop EXCEPT !.groupOffer[g] = enabled])
deleteGroupCounterOffer(g) == Edit([shop EXCEPT !.groupOffer[g] = None])

upsertPriceEntry(p, q, price) ==
  Edit([shop EXCEPT !.prices[p] =
          [r \in DOMAIN @ \cup {q} |-> IF r = q THEN price ELSE @[r]]])
deletePriceEntry(p, q) ==
  Edit([shop EXCEPT !.prices[p] = [r \in DOMAIN @ \ {q} |-> @[r]]])
\* A row edited in place may move to another quantity, unless that one has a row.
updatePriceEntry(p, q, to, price) ==
  /\ q \in DOMAIN shop.prices[p] /\ to \notin DOMAIN shop.prices[p] \ {q}
  /\ Edit([shop EXCEPT !.prices[p] =
        [r \in (DOMAIN @ \ {q}) \cup {to} |-> IF r = to THEN price ELSE @[r]]])

NoRow(what) == IF what = "prices" THEN NoTable ELSE None

\* The first half of a save: of one column of the shop, for the programs in rows.
DeleteRows(what, rows) ==
  /\ Changes
  /\ shop' = [shop EXCEPT ![what] =
        [p \in Program |-> IF p \in DOMAIN rows THEN NoRow(what) ELSE @[p]]]
  /\ saving' = saving \cup {[id |-> changes, what |-> what, rows |-> rows]}
  /\ mixed' = mixed \cup {p \in DOMAIN rows : what = "prices" /\ Saves(p) # {}}
  /\ UNCHANGED saved

setPriceEntries(rows) == DeleteRows("prices", rows)
setPriceEntriesForProgram(p, table) == DeleteRows("prices", [only \in {p} |-> table])
setMaxPrices(rows) == DeleteRows("limits", rows)
setAvailableMiles(rows) == DeleteRows("miles", rows)

\* The unique keys of the rows of a program: its quantities, or the program alone.
RowKeys(what, row) ==
  IF what = "prices" THEN DOMAIN row ELSE {one \in {1} : row # None}

Clashes(s) ==
  \E p \in DOMAIN s.rows :
    RowKeys(s.what, s.rows[p]) \cap RowKeys(s.what, shop[s.what][p]) # {}

\* Rows that another request left are kept.
WithRows(what, old, new) ==
  IF what = "prices"
    THEN [q \in DOMAIN old \cup DOMAIN new |-> IF q \in DOMAIN new THEN new[q] ELSE old[q]]
    ELSE IF new = None THEN old ELSE new

InsertRows(s) ==
  /\ ~ Clashes(s)
  /\ shop' = [shop EXCEPT ![s.what] =
        [p \in Program |->
           IF p \in DOMAIN s.rows THEN WithRows(s.what, @[p], s.rows[p]) ELSE @[p]]]
  /\ saving' = saving \ {s}
  /\ saved' = [p \in Program |-> IF s.what = "prices" /\ p \in DOMAIN s.rows
                                   THEN saved[p] \cup {s.rows[p]} ELSE saved[p]]
  /\ UNCHANGED <<changes, mixed>>

\* The database refuses the rows, one of which it has, or cannot be reached: the old ones
\* are gone.
InsertFails(s) ==
  /\ saving' = saving \ {s}
  /\ UNCHANGED <<shop, saved, mixed, changes>>

Dashboard ==
  /\ \/ \E b \in BOOLEAN \ {shop.botEnabled} : updateBotStatus(b)
     \/ SubscriptionChanges
     \/ \E g \in Groups \ shop.groups : activateGroup(g)
     \/ \E g \in shop.groups : deactivateGroup(g)
     \/ \E s \in Senders, scope \in SUBSET Scope \ {{}} : addToBlacklist(s, scope)
     \/ \E s \in Senders : shop.blocked[s] # {} /\ removeFromBlacklist(s)
     \/ \E row \in Offers \ {shop.offer} : updateCounterOfferSettings(row)
     \/ \E g \in Groups, b \in BOOLEAN : updateGroupCounterOffer(g, b)
     \/ \E g \in Groups : shop.groupOffer[g] # None /\ deleteGroupCounterOffer(g)
     \/ \E p \in Program, e \in Entries :
          \/ upsertPriceEntry(p, e.quantity, e.price)
          \/ \E q \in DOMAIN shop.prices[p] : updatePriceEntry(p, q, e.quantity, e.price)
     \/ \E p \in Program : \E q \in DOMAIN shop.prices[p] : deletePriceEntry(p, q)
     \/ \E rows \in [Program -> Tables] : setPriceEntries(rows)
     \/ \E p \in Program, t \in Tables : setPriceEntriesForProgram(p, t)
     \/ \E rows \in [Program -> Limits \cup {None}] : setMaxPrices(rows)
     \/ \E rows \in [Program -> Miles] : setAvailableMiles(rows)
     \/ \E s \in saving : InsertRows(s) \/ InsertFails(s)
  /\ UNCHANGED <<place, h, buffer, era, sent>>

-----------------------------------------------------------------------------
(* The handler of a message.                                                *)

At(m, stage) == Running(m) /\ h[m].at = stage

\* Leaves everything but the handler of m alone.
Step(m, handler) ==
  /\ h' = [h EXCEPT ![m] = handler]
  /\ UNCHANGED <<seller, place, changes>>
Only(m, handler) == Step(m, handler) /\ UNCHANGED <<buffer, era, sent>>

\* A handler that has ended keeps nothing.
Handled == [Fresh EXCEPT !.at = "handled"]
Goto(m, stage) == IF stage = "handled" THEN Handled ELSE [h[m] EXCEPT !.at = stage]
Gate(m, from, open, to) ==
  At(m, from) /\ Only(m, Goto(m, IF open THEN to ELSE "handled"))

\* The client's own messages are ignored, unless asking who it is fails.
SelfCheck(m) ==
  \E known \in BOOLEAN :
    Gate(m, "received", ~ (known /\ About[m].sender = Self), "bot")

CheckBot(m) == Gate(m, "bot", shop.botEnabled, "authorization")
CheckAuthorization(m) == Gate(m, "authorization", shop.authorized, "group")
CheckGroup(m) == Gate(m, "group", About[m].group \in shop.groups, "sender")

isBlocked(s, scope) == scope \in shop.blocked[s]

CheckSender(m) ==
  Gate(m, "sender",
       About[m].sender = NoSender \/ ~ isBlocked(About[m].sender, "group"), "programs")

\* The liminar variant of a program, as a set.
findLiminarFor(p) == IF p = Normal THEN {Liminar} ELSE {}
hasSufficientMiles(p, q) == shop.miles[p] # None /\ shop.miles[p] >= q

\* A text may be no demand or name no program.  Of the programs with prices one must be
\* the one asked for or its liminar.
ReadPrograms(m) ==
  /\ At(m, "programs")
  /\ LET configured == {p \in Program : shop.prices[p] # NoTable}
         asked == {About[m].program} \cup findLiminarFor(About[m].program)
         next == IF asked \cap configured = {} THEN "handled"
                 ELSE IF About[m].estimate = None THEN "extract" ELSE "prefilter"
     IN  \/ Only(m, Handled)
         \/ Only(m, [h[m] EXCEPT !.at = next, !.configured = asked \cap configured])

\* The quantity guessed from the text must be in stock.
Prefilter(m) ==
  Gate(m, "prefilter",
       \E p \in h[m].configured : hasSufficientMiles(p, About[m].estimate), "extract")

\* More than one accepted price is taken for a trap, as are absurd prices.
Sane(m, d) ==
  /\ Cardinality(d.accepted) <= 1
  /\ d.cpfCount = 0 => About[m].noCpfAllowed
  /\ \A a \in d.accepted : a >= About[m].absurd.min /\ a <= About[m].absurd.max

\* A liminar asked for by name is checked even without prices of its own.
Candidates(m) ==
  IF About[m].program = Liminar THEN <<Liminar>>
  ELSE (IF Normal \in h[m].configured THEN <<Normal>> ELSE <<>>)
         \o (IF Liminar \in h[m].configured THEN <<Liminar>> ELSE <<>>)

\* What the language model read in the text: a demand, or nothing of use.
Extract(m) ==
  /\ At(m, "extract")
  /\ \/ Only(m, Goto(m, "handled"))
     \/ \E d \in About[m].readings :
          /\ Sane(m, d)
          /\ Only(m, [h[m] EXCEPT !.at = "check", !.left = Candidates(m),
                        !.demand = Meant(d),
                        !.configured = {}])
     \/ \E d \in About[m].readings : ~ Sane(m, d) /\ Only(m, Goto(m, "handled"))

\* The least quantity is compared with miles, not with thousands of them.
passesProgramChecks(p, d) ==
  /\ shop.limits[p] # None /\ shop.limits[p].minQuantity > 0 =>
       d.quantity * 1000 >= shop.limits[p].minQuantity * d.cpfCount
  /\ hasSufficientMiles(p, d.quantity)

getEffectivePrograms(m) ==
  /\ At(m, "check")
  /\ LET p == Head(h[m].left)
         passing == IF passesProgramChecks(p, h[m].demand)
                      THEN Append(h[m].effective, p) ELSE h[m].effective
         last == Tail(h[m].left) = <<>>
     IN  Only(m, [h[m] EXCEPT
           !.at = IF ~ last THEN "check" ELSE IF passing = <<>> THEN "handled" ELSE "table",
           !.left = IF last THEN passing ELSE Tail(@),
           !.effective = IF last THEN <<>> ELSE passing])

\* Bug: goes on although no program had a price.
NextProgramOrSettings(m, quotes) ==
  [h[m] EXCEPT !.at = IF Tail(h[m].left) # <<>> THEN "table" ELSE "settings",
               !.left = Tail(@), !.quotes = quotes, !.table = NoTable]

\* After the last program the quotes there are decide.
NextProgram(m, quotes) ==
  [h[m] EXCEPT
     !.at = IF Tail(h[m].left) # <<>> THEN "table"
            ELSE IF quotes = <<>> THEN "handled" ELSE "settings",
     !.left = Tail(@), !.quotes = quotes, !.table = NoTable]

getPriceTableForProgram(m) ==
  /\ At(m, "table")
  /\ LET table == shop.prices[Head(h[m].left)]
     IN  IF table = NoTable THEN Only(m, NextProgram(m, h[m].quotes))
         ELSE Only(m, [h[m] EXCEPT !.at = "ceiling", !.table = table])

CeilingOf(limit) ==
  IF limit = None \/ limit.maxPrice <= 0 THEN NoCeiling ELSE limit.maxPrice

\* Bug: every program is priced by the table of the one asked for.
CalculateAskedPrice(m) ==
  /\ At(m, "ceiling")
  /\ LET p == Head(h[m].left)
         price == calculate(h[m].demand.quantity, h[m].demand.cpfCount,
                            shop.prices[About[m].program], CeilingOf(shop.limits[p]))
     IN  Only(m, NextProgram(m, IF price = NoPrice THEN h[m].quotes
                                ELSE Append(h[m].quotes, [program |-> p, price |-> price])))

\* The greatest price is read after the table, and the price calculated from both.
CalculatePrice(m) ==
  /\ At(m, "ceiling")
  /\ LET p == Head(h[m].left)
         price == calculate(h[m].demand.quantity, h[m].demand.cpfCount, h[m].table,
                            CeilingOf(shop.limits[p]))
     IN  Only(m, NextProgram(m, IF price = NoPrice THEN h[m].quotes
                                ELSE Append(h[m].quotes, [program |-> p, price |-> price])))

OffersOn(offer) == offer # None /\ offer.isEnabled

\* The seller's setting, and in a query after it the group's.
ReadSettings(m) ==
  /\ At(m, "settings")
  /\ Only(m, [h[m] EXCEPT !.at = "override", !.offer = shop.offer])

\* Bug: a setting that is on is not overridden.
ReadEitherSetting(m) ==
  /\ At(m, "override")
  /\ Only(m, [h[m] EXCEPT !.at = "threshold",
        !.enabled = shop.groupOffer[About[m].group] = TRUE \/ OffersOn(h[m].offer)])

\* A group's own setting overrides the seller's.
ReadGroupSetting(m) ==
  /\ At(m, "override")
  /\ LET own == shop.groupOffer[About[m].group]
     IN  Only(m, [h[m] EXCEPT !.at = "threshold",
                    !.enabled = IF own # None THEN own ELSE OffersOn(h[m].offer)])

\* Bug: checks without marking.
MarkNothing(k) == UNCHANGED buffer

\* True of a key within its window; any other key is marked.
shouldSkip(k) == k \in buffer
Mark(k) == buffer' = buffer \cup {k}

\* Skips the message, or goes on with a ticket for the window it opened.
Deduplicated(m, on, k, handler) ==
  IF ~ on
    THEN Step(m, [handler EXCEPT !.ticket = Unticketed]) /\ UNCHANGED <<buffer, era, sent>>
  ELSE IF shouldSkip(k) THEN Only(m, Goto(m, "handled"))
  ELSE Step(m, [handler EXCEPT !.ticket = era[k]]) /\ Mark(k) /\ UNCHANGED <<era, sent>>

Threshold(m) ==
  LET limit == shop.limits[About[m].program]
  IN  IF limit # None /\ limit.threshold # None THEN limit.threshold
      ELSE IF h[m].offer # None THEN h[m].offer.threshold ELSE 0

GroupDedup(m) ==
  /\ At(m, "threshold")
  /\ Deduplicated(m,
       h[m].offer # None /\ h[m].offer.groupDedup /\ About[m].sender # NoSender,
       GroupKey(m, h[m].demand),
       [h[m] EXCEPT !.at = "answer", !.threshold = Threshold(m)])

Answer(m, quotes) ==
  [msg |-> m, kind |-> h[m].kind, ticket |-> h[m].ticket, demand |-> h[m].demand,
   quotes |-> quotes]

\* Bug: goes on when the call to the worker failed.
SendRegardless(m, quotes, next) ==
  /\ At(m, IF h[m].kind = "group" THEN "answer" ELSE "contact")
  /\ \E arrives \in BOOLEAN :
       /\ sent' = IF arrives THEN sent \cup {Answer(m, quotes)} ELSE sent
       /\ Step(m, next)
       /\ UNCHANGED <<buffer, era>>

\* The call to the worker: Telegram may have the message although the call fails,
\* and a call that fails ends the handler.
Send(m, quotes, next) ==
  /\ At(m, IF h[m].kind = "group" THEN "answer" ELSE "contact")
  /\ \E arrives, confirmed \in BOOLEAN :
       /\ confirmed => arrives
       /\ sent' = IF arrives THEN sent \cup {Answer(m, quotes)} ELSE sent
       /\ Step(m, IF confirmed THEN next ELSE Goto(m, "handled"))
       /\ UNCHANGED <<buffer, era>>

Accepted(m) == h[m].demand.accepted
LowestPrice(m) ==
  LET prices == {h[m].quotes[i].price : i \in DOMAIN h[m].quotes}
  IN  CHOOSE p \in prices : \A o \in prices : p <= o

Larger(a, b) == IF a >= b THEN a ELSE b

\* A buyer who agreed to a is asked for no less.
Raised(quotes, a) ==
  [i \in DOMAIN quotes |-> [quotes[i] EXCEPT !.price = Larger(a, @)]]

Write(m, kind, quotes) ==
  [h[m] EXCEPT !.at = "private", !.kind = kind, !.threshold = 0, !.enabled = FALSE,
               !.quotes = quotes]

\* Closes with "Vamos!", or with a template of the seller's that tells the prices.
Close(m, a, next) ==
  \E told \in {<<>>, Raised(h[m].quotes, a)} : Send(m, told, next)

\* What is said in the group and whether a private message follows it.  One price at
\* most is accepted, and it is the greatest.
SendAnswer(m) ==
  /\ At(m, "answer")
  /\ LET quotes == h[m].quotes
         writes == About[m].sender # NoSender /\ h[m].enabled
         near(a) == LowestPrice(m) - a <= h[m].threshold
     IN  \/ Accepted(m) = {} /\ Send(m, quotes, Goto(m, "handled"))
         \/ \E a \in Accepted(m) : a >= LowestPrice(m) /\
              IF writes THEN Close(m, a, Write(m, "cta", Raised(quotes, a)))
              ELSE Close(m, a, Goto(m, "handled"))
         \/ \E a \in Accepted(m) : a < LowestPrice(m) /\
              IF ~ (h[m].enabled /\ near(a)) THEN Send(m, quotes, Goto(m, "handled"))
              ELSE IF ~ writes THEN Only(m, Goto(m, "handled"))
              ELSE Send(m, quotes, Write(m, "counterOffer", quotes))

\* Marked before the blacklist is read and before the message is sent.
PrivateDedup(m) ==
  /\ At(m, "private")
  /\ Deduplicated(m, h[m].offer # None /\ h[m].offer.dedup,
                  PrivateKey(m, h[m].kind), Goto(m, "blacklist"))

CheckPrivate(m) ==
  Gate(m, "blacklist", ~ isBlocked(About[m].sender, "private"), "contact")

SendPrivate(m) == At(m, "contact") /\ Send(m, h[m].quotes, Goto(m, "handled"))

\* Any other call of the handler may fail, which ends it.
Fails(m) ==
  /\ Running(m) /\ h[m].at \notin {"received", "handled"}
  /\ Only(m, Goto(m, "handled"))

Handler(m) ==
  \/ SelfCheck(m) \/ CheckBot(m) \/ CheckAuthorization(m) \/ CheckGroup(m)
  \/ CheckSender(m) \/ ReadPrograms(m) \/ Prefilter(m) \/ Extract(m)
  \/ getEffectivePrograms(m) \/ getPriceTableForProgram(m) \/ CalculatePrice(m)
  \/ ReadSettings(m) \/ ReadGroupSetting(m) \/ GroupDedup(m) \/ SendAnswer(m) \/ PrivateDedup(m)
  \/ CheckPrivate(m) \/ SendPrivate(m) \/ Ack(m)

-----------------------------------------------------------------------------
\* What a message needs to be answered, of what holds with these rows of the seller after
\* all there has been since it was delivered.  A group without a setting of its own has
\* offers if the seller's setting is on, or was on when the handler may have read it.
Holding(m, rows, had) ==
  LET free(scope) ==
        About[m].sender = NoSender \/ scope \notin rows.blocked[About[m].sender]
      own == rows.groupOffer[About[m].group]
      on == OffersOn(rows.offer)
  IN  {c \in {"bot"} : rows.botEnabled} \cup {c \in {"authorized"} : rows.authorized}
        \cup {c \in {"group"} : About[m].group \in rows.groups}
        \cup {c \in {"sellerOffers"} : on}
        \cup {c \in {"offers"} : IF own # None THEN own ELSE on \/ "sellerOffers" \in had}
        \cup {c \in {"groupFree"} : free("group")}
        \cup {c \in {"privateFree"} : free("private")}

Observe ==
  held' = [m \in Message |->
             IF place'[m] # "delivered" THEN {}
             ELSE held[m] \cup Holding(m, shop', held[m])]

Next ==
  /\ \/ \E m \in Message : Publish(m) \/ Drop(m) \/ Deliver(m) \/ Handler(m) \/ Fails(m)
     \/ Crash
     \/ \E k \in Key : WindowEnds(k)
     \/ Dashboard
  /\ Observe

Spec == Init /\ [][Next]_vars

-----------------------------------------------------------------------------
\* Shapes of the state: a handler has what the stages before its own left it, a save
\* has its rows, and a key is in the buffer or its windows are over.
TypeOK ==
  /\ place \in [Message -> {"coming", "queued", "delivered", "gone"}]
  /\ \A m \in Message :
       /\ h[m].at \in Stage
       /\ Running(m) \/ h[m] = Fresh
       /\ h[m].at \in {"check", "table", "ceiling"} => h[m].left # <<>>
       /\ h[m].at = "ceiling" => h[m].table # NoTable
       /\ h[m].at \in {"settings", "override", "threshold", "answer", "private", "blacklist",
                       "contact"} => h[m].quotes # <<>>
       /\ h[m].at \in {"private", "blacklist", "contact"} =>
            About[m].sender # NoSender /\ h[m].kind # "group"
  /\ \A s \in saving : s.what \in {"prices", "limits", "miles"} /\ DOMAIN s.rows \subseteq Program
  /\ buffer \subseteq Key /\ era \in [Key -> 0 .. MaxWindows + MaxChanges]
  /\ \A p \in Program \ mixed : shop.prices[p] \in saved[p] \cup {NoTable}

KeyOf(s) == IF s.kind = "group" THEN GroupKey(s.msg, s.demand)
            ELSE PrivateKey(s.msg, s.kind)

\* PrivateMessageBufferService.shouldSkip checks and marks in one turn, so of the
\* messages that share a key one at most is answered in each window, however long the
\* handlers wait between the mark and the send and whatever failed meanwhile.
OncePerWindow ==
  \A s, t \in sent :
    KeyOf(s) = KeyOf(t) /\ s.ticket = t.ticket /\ s.ticket # Unticketed => s.msg = t.msg

\* handlePurchase writes to a buyer only after the group's answer to the same message
\* went out, with the same prices unless that was a mere "Vamos!"; a failed or withheld
\* answer ends it there.
PrivateFollowsAnswer ==
  \A s \in sent : s.kind # "group" =>
    \E t \in sent : /\ t.msg = s.msg /\ t.kind = "group"
                    /\ t.quotes = s.quotes \/ (s.kind = "cta" /\ t.quotes = <<>>)

Needed(s) ==
  {"bot", "authorized", "group", "groupFree"}
    \cup (IF s.kind = "group" THEN {} ELSE {"offers", "privateFree"})

\* The handler reads the bot's switch, the subscription, the groups, the blacklist and
\* the counter offers one after another, before the language model and the delays.  An
\* answer may be late, but whatever forbade it the whole time it was handled forbids it.
\* The counter offers take two reads: a private message goes out only if the group's own
\* setting was on, or was missing when, or after, the seller's was on.
PermittedAnswers == [][\A s \in sent' \ sent : Needed(s) \subseteq held[s.msg]]_vars

\* What message s may quote where the table gives price.
Quoting(s, price) ==
  (IF s.kind = "cta" THEN {} ELSE {price})
    \cup (IF s.kind = "counterOffer" THEN {}
          ELSE {Larger(a, price) : a \in s.demand.accepted})

\* A save deletes a table's rows and inserts the new ones later.  No buyer is quoted a
\* price of a table the seller never gave: a half-saved table is silent, and only requests
\* that changed a program's prices at a time leave one that mixes theirs.  A buyer who
\* agreed to a price is quoted that one where the table has less.
QuotesFromSavedTables ==
  [][\A s \in sent' \ sent : \A i \in DOMAIN s.quotes :
       \/ s.quotes[i].program \in mixed
       \/ \E table \in saved[s.quotes[i].program], limit \in Limits \cup {None} :
            s.quotes[i].price \in
              Quoting(s, calculate(s.demand.quantity, s.demand.cpfCount, table,
                                   CeilingOf(limit)))]_vars

Decreasing(table) ==
  \A p, q \in DOMAIN table : p < q => table[p] >= table[q]

BulkIsCheaper(table, limit) ==
  LET ceiling == CeilingOf(limit)
      price(q) == calculate(q, 2, table, ceiling)
  IN  table # NoTable /\ Decreasing(table)
        /\ (ceiling = NoCeiling \/ ceiling >= MinPrice(table))
      => \A q \in 1 .. 2 * MaxQty(table) : price(q + 1) <= price(q)

\* Interpolation, extrapolation, limits and rounding together, on every table an edit
\* or a save ends with: when its prices decrease and no ceiling is below them all, a
\* thousand miles cost no more in a larger order, whichever rule of calculate prices it.
BiggerOrdersNeverCostMore ==
  [][\A p \in Program :
       shop'.prices[p] # shop.prices[p] =>
         \A limit \in Limits \cup {None} : BulkIsCheaper(shop'.prices[p], limit)]_vars
=============================================================================
