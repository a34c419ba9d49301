------------------------------- MODULE Billing -------------------------------
(***************************************************************************)
(* The subscription service of nest_api: the rows it keeps in PostgreSQL,  *)
(* the recurrences and charges it causes at Cielo, the requests of its     *)
(* users, and the webhooks by which Cielo reports charges.                 *)
(*                                                                         *)
(* Every request and every webhook is handled by a task.  A handler is     *)
(* split where it awaits: each step below is the code between two awaits   *)
(* together with the one database or gateway call that ends it, and the    *)
(* steps of different tasks interleave freely.  A task keeps in job[t].row *)
(* the row it read, with the changes it means to make; what it finally     *)
(* writes is only the columns its UPDATE names.                            *)
(*                                                                         *)
(* Nothing is queued between Cielo and the service: a webhook carries only *)
(* identifiers, so delivering one is starting a task on a charge or on a   *)
(* recurrence Cielo holds, in any order and, with Duplicates, repeatedly.  *)
(***************************************************************************)
EXTENDS Pricing, Sequences, FiniteSets

CONSTANTS
  Group,        \* Telegram groups a user may activate
  Recurrence,   \* recurrences Cielo can create: bounds their number
  Charge,       \* payments Cielo can create: bounds their number
  Task,         \* requests and webhooks in progress at a time
  TrialDays,    \* TRIAL_DURATION_DAYS
  PeriodDays,   \* the 30 days a payment buys
  MaxTime,      \* bound on the clock
  MaxAttempts,  \* bound on the attempts Cielo makes at one charge
  Duplicates,   \* deliveries of a charge's webhook beyond one per attempt
  Requests,     \* the requests users make in this instance
  Counts,       \* the numbers of extra groups they ask for at once
  Outcomes,     \* how a call to Cielo may end: "ok"; "error": refused or failed
                \* with no effect; "lost": took effect but the answer was lost
  Aborts        \* TRUE: a task may die between steps (crash, failing query)

Status == {"trialing", "active", "past_due", "canceled", "expired"}

Request == {"startTrial", "checkout", "updatePaymentMethod", "changePlan",
            "purchaseExtraGroups", "removeExtraGroups", "cancelSubscription",
            "activateGroup", "deactivateGroup"}

ASSUME BillingAssumption ==
  /\ TrialDays \in Nat /\ PeriodDays \in Nat
  /\ MaxTime \in Nat /\ MaxAttempts \in Nat /\ Duplicates \in Nat
  /\ Requests \subseteq Request
  /\ Counts \subseteq Nat \ {0}
  /\ Outcomes \subseteq {"ok", "error", "lost"}
  /\ Aborts \in BOOLEAN
  /\ Null \notin Recurrence
  /\ Null \notin Charge
  /\ IsFiniteSet(Group)
  /\ IsFiniteSet(Task) /\ Task # {}

VARIABLES
  now,          \* the day
  sub,          \* sub[u]: u's row of subscriptions (user_id is unique), or NoRow
  lastId,       \* the last id given to a row of subscriptions
  payments,     \* subscription_payments, in order of id
  activeGroups, \* activeGroups[u]: the rows of active_groups of u
  redemptions,  \* redemptions[c]: coupons.current_redemptions
  recurrence,   \* Cielo's recurrences
  charge,       \* Cielo's payments
  job           \* job[t]: the handler task t is in, and its local variables

vars == <<now, sub, lastId, payments, activeGroups, redemptions, recurrence, charge, job>>
database == <<sub, lastId, payments, activeGroups, redemptions>>
cielo == <<recurrence, charge>>

------------------------------------------------------------------------------
\* Rows, records at Cielo, and the locals of a handler.
Row ==
  [id : Nat, plan : Nullable(Plan), status : Status \cup {"none"},
   currentPeriodEnd : Nat, recurrence : Nullable(Recurrence), trialUsed : BOOLEAN,
   promoLeft : Nat, extraGroups : Nat, coupon : Nullable(Coupon), bonusGroups : Nat,
   couponLeft : Nat \cup {-1}]

NoRow ==
  [id |-> 0, plan |-> Null, status |-> "none", currentPeriodEnd |-> 0,
   recurrence |-> Null, trialUsed |-> FALSE, promoLeft |-> 0, extraGroups |-> 0,
   coupon |-> Null, bonusGroups |-> 0, couponLeft |-> 0]

PaymentRow ==
  [sub : Nat, charge : Charge, status : {"paid", "failed"}, retryCount : Nat]

RecurrenceRecord ==
  [state : {"absent", "active", "inactive"}, user : Nullable(User), amount : Nat, start : Nat]

ChargeRecord ==
  [state : {"absent", "pending", "denied", "paid"}, recurrence : Nullable(Recurrence),
   attempts : Nat, notified : Nat]

\* pc is the step the task takes next.
PC == {"idle", "existing", "deactivate", "validate", "create", "replace", "delete",
       "insert", "record", "redeem", "groups", "amount", "write", "limit", "add",
       "lookup", "markPaid", "load", "markFailed", "suspend", "find", "recordNew"}

Op == Request \cup {"payment", "closure", "none"}

Job ==
  [pc : PC, op : Op, user : Nullable(User), row : Row, replaced : Nat,
   plan : Nullable(Plan), coupon : Nullable(Coupon), charge : Nullable(Charge),
   state : {"none", "pending", "denied", "paid"}, entry : Nat, count : Nat,
   group : Nullable(Group)]

NoJob ==
  [pc |-> "idle", op |-> "none", user |-> Null, row |-> NoRow, replaced |-> 0,
   plan |-> Null, coupon |-> Null, charge |-> Null, state |-> "none", entry |-> 0,
   count |-> 0, group |-> Null]

Init ==
  /\ now = 0
  /\ sub = [u \in User |-> NoRow]
  /\ lastId = 0
  /\ payments = <<>>
  /\ activeGroups = [u \in User |-> {}]
  /\ redemptions = [c \in Coupon |-> 0]
  /\ recurrence = [r \in Recurrence |->
                     [state |-> "absent", user |-> Null, amount |-> 0, start |-> 0]]
  /\ charge = [c \in Charge |->
                 [state |-> "absent", recurrence |-> Null, attempts |-> 0, notified |-> 0]]
  /\ job = [t \in Task |-> NoJob]

------------------------------------------------------------------------------
\* Helpers of the handlers.
isSubscriptionActive(status) == status \in {"active", "trialing"}

\* SubscriptionAuthorizationService.isAuthorized
isAuthorized(u) ==
  /\ sub[u].id # 0
  /\ sub[u].status # "expired"
  /\ sub[u].currentPeriodEnd >= now

AmountOf(row) ==
  calculateRecurrenceAmount(row.plan, row.promoLeft, row.extraGroups,
                            row.coupon, row.couponLeft)

Idle(t) == job[t].pc = "idle"
Quiescent == \A t \in Task : Idle(t)
At(t, pc) == job[t].pc = pc

Start(t, j) == Idle(t) /\ job' = [job EXCEPT ![t] = j]
Goto(t, pc) == job' = [job EXCEPT ![t].pc = pc]
Finish(t) == job' = [job EXCEPT ![t] = NoJob]

\* UPDATE subscriptions SET ... WHERE id = job[t].row.id: no row, no effect.
UpdateRow(t, new) ==
  LET u == job[t].user
  IN  sub' = IF sub[u].id = job[t].row.id THEN [sub EXCEPT ![u] = new] ELSE sub

\* Where a handler that has a row goes once its own checks are done: it tells
\* Cielo the new amount when the row has a recurrence, then writes the row.
AmountOrWrite(row) == IF row.recurrence = Null THEN "write" ELSE "amount"

------------------------------------------------------------------------------
\* Requests: the first step of each handler, up to its first await that follows
\* the read of the row.  A request that is refused changes nothing and is no step.

\* plan.name = 'trial' and !plan.isActive are refused alike.
Offered(plan) == PlanData[plan].offered

\* A fresh recurrence must be left: the bound on how many Cielo creates.
RecurrencesLeft == \E r \in Recurrence : recurrence[r].state = "absent"

\* startTrial: the hasUsedTrial query.
StartTrial(t, u, plan, coupon) ==
  /\ "startTrial" \in Requests /\ RecurrencesLeft
  /\ Offered(plan)
  /\ ~sub[u].trialUsed
  /\ Start(t, [NoJob EXCEPT !.pc = "existing", !.op = "startTrial", !.user = u,
                            !.plan = plan, !.coupon = coupon])
  /\ UNCHANGED <<now, database, cielo>>

\* startTrial: the getByUserId query, a second read.
ReadExisting(t) ==
  /\ At(t, "existing")
  /\ LET row == sub[job[t].user]
     IN  IF isSubscriptionActive(row.status) THEN Finish(t)
         ELSE job' = [job EXCEPT ![t].pc = "validate", ![t].row = row]
  /\ UNCHANGED <<now, database, cielo>>

\* Mutated: the trial's recurrence is left running.
CheckoutKeepsTrialRecurrence(t, u, plan, coupon) ==
  /\ "checkout" \in Requests /\ RecurrencesLeft
  /\ sub[u].status # "active"
  /\ Offered(plan)
  /\ Start(t, [NoJob EXCEPT !.pc = "validate", !.op = "checkout", !.user = u,
                            !.row = sub[u], !.plan = plan, !.coupon = coupon])
  /\ UNCHANGED <<now, database, cielo>>

\* checkout: only a paid subscription blocks it; a trial's recurrence is stopped first.
Checkout(t, u, plan, coupon) ==
  /\ "checkout" \in Requests /\ RecurrencesLeft
  /\ sub[u].status # "active"
  /\ Offered(plan)
  /\ LET stop == sub[u].status = "trialing" /\ sub[u].recurrence # Null
     IN  Start(t, [NoJob EXCEPT !.pc = IF stop THEN "deactivate" ELSE "validate",
                                !.op = "checkout", !.user = u, !.row = sub[u],
                                !.plan = plan, !.coupon = coupon])
  /\ UNCHANGED <<now, database, cielo>>

UpdatePaymentMethod(t, u) ==
  /\ "updatePaymentMethod" \in Requests /\ RecurrencesLeft
  /\ sub[u].status \in {"active", "trialing", "past_due"}
  /\ Start(t, [NoJob EXCEPT !.pc = IF sub[u].recurrence # Null THEN "deactivate"
                                   ELSE "replace",
                            !.op = "updatePaymentMethod", !.user = u, !.row = sub[u]])
  /\ UNCHANGED <<now, database, cielo>>

\* changePlan: the groups are counted unless the new plan is unlimited.
ChangePlan(t, u, plan) ==
  /\ "changePlan" \in Requests
  /\ isSubscriptionActive(sub[u].status)
  /\ sub[u].plan # plan
  /\ Offered(plan)
  /\ LET row == [sub[u] EXCEPT !.plan = plan]
     IN  Start(t, [NoJob EXCEPT !.pc = IF PlanData[plan].groupLimit # Null THEN "groups"
                                       ELSE AmountOrWrite(row),
                                !.op = "changePlan", !.user = u, !.row = row])
  /\ UNCHANGED <<now, database, cielo>>

\* Mutated: the count held against the maximum is the one before the purchase.
PurchaseCheckedTooEarly(t, u, n) ==
  /\ "purchaseExtraGroups" \in Requests
  /\ isSubscriptionActive(sub[u].status)
  /\ PlanData[sub[u].plan].groupLimit # Null
  /\ sub[u].extraGroups <= MAX_EXTRA_GROUPS
  /\ LET row == [sub[u] EXCEPT !.extraGroups = @ + n]
     IN  Start(t, [NoJob EXCEPT !.pc = AmountOrWrite(row), !.op = "purchaseExtraGroups",
                                !.user = u, !.row = row])
  /\ UNCHANGED <<now, database, cielo>>

PurchaseExtraGroups(t, u, n) ==
  /\ "purchaseExtraGroups" \in Requests
  /\ isSubscriptionActive(sub[u].status)
  /\ PlanData[sub[u].plan].groupLimit # Null
  /\ sub[u].extraGroups + n <= MAX_EXTRA_GROUPS
  /\ LET row == [sub[u] EXCEPT !.extraGroups = @ + n]
     IN  Start(t, [NoJob EXCEPT !.pc = AmountOrWrite(row), !.op = "purchaseExtraGroups",
                                !.user = u, !.row = row])
  /\ UNCHANGED <<now, database, cielo>>

RemoveExtraGroups(t, u, n) ==
  /\ "removeExtraGroups" \in Requests
  /\ isSubscriptionActive(sub[u].status)
  /\ n <= sub[u].extraGroups
  /\ Start(t, [NoJob EXCEPT !.pc = "groups", !.op = "removeExtraGroups", !.user = u,
                            !.row = [sub[u] EXCEPT !.extraGroups = @ - n]])
  /\ UNCHANGED <<now, database, cielo>>

\* Mutated: only a paid subscription's recurrence is stopped.
CancelForgetsTrialRecurrence(t, u) ==
  /\ "cancelSubscription" \in Requests
  /\ sub[u].id # 0
  /\ sub[u].status \notin {"canceled", "expired"}
  /\ sub[u].currentPeriodEnd >= now
  /\ Start(t, [NoJob EXCEPT !.pc = IF sub[u].status = "active" THEN "deactivate"
                                   ELSE "write",
                            !.op = "cancelSubscription", !.user = u,
                            !.row = [sub[u] EXCEPT !.status = "canceled"]])
  /\ UNCHANGED <<now, database, cielo>>

CancelSubscription(t, u) ==
  /\ "cancelSubscription" \in Requests
  /\ sub[u].id # 0
  /\ sub[u].status \notin {"canceled", "expired"}
  /\ sub[u].currentPeriodEnd >= now
  /\ Start(t, [NoJob EXCEPT !.pc = IF sub[u].recurrence # Null THEN "deactivate"
                                   ELSE "write",
                            !.op = "cancelSubscription", !.user = u,
                            !.row = [sub[u] EXCEPT !.status = "canceled"]])
  /\ UNCHANGED <<now, database, cielo>>

\* DashboardController.activateGroup: the groups are read and counted; a group that
\* is already active skips the limit.
ActivateGroup(t, u, g) ==
  /\ "activateGroup" \in Requests
  /\ Start(t, [NoJob EXCEPT !.pc = IF g \in activeGroups[u] THEN "add" ELSE "limit",
                            !.op = "activateGroup", !.user = u,
                            !.group = g, !.count = Cardinality(activeGroups[u])])
  /\ UNCHANGED <<now, database, cielo>>

\* DashboardController.deactivateGroup: one DELETE, so one step.
DeactivateGroup(t, u, g) ==
  /\ "deactivateGroup" \in Requests
  /\ Idle(t)
  /\ g \in activeGroups[u]
  /\ activeGroups' = [activeGroups EXCEPT ![u] = @ \ {g}]
  /\ UNCHANGED <<now, sub, lastId, payments, redemptions, cielo, job>>

------------------------------------------------------------------------------
\* The steps that follow in checkout and startTrial.

\* deactivateRecurrence: a failure is logged and the handler goes on.
Deactivate(t) ==
  /\ At(t, "deactivate")
  /\ \E o \in Outcomes :
       recurrence' = IF o = "error" THEN recurrence
                     ELSE [recurrence EXCEPT ![job[t].row.recurrence].state = "inactive"]
  /\ Goto(t, CASE job[t].op = "checkout"            -> "validate"
               [] job[t].op = "updatePaymentMethod" -> "replace"
               [] job[t].op = "cancelSubscription"  -> "write")
  /\ UNCHANGED <<now, database, charge>>

\* Mutated: one redemption more than the maximum passes.
CouponOneTooMany(coupon, u, plan) ==
  LET c == CouponData[coupon]
  IN  c.maxRedemptions # Null => redemptions[coupon] <= c.maxRedemptions

\* CouponService.validateCoupon
CouponValid(coupon, u, plan) ==
  LET c == CouponData[coupon]
  IN  /\ c.isActive
      /\ c.validFrom <= now
      /\ c.validUntil # Null => now <= c.validUntil
      /\ c.maxRedemptions # Null => redemptions[coupon] < c.maxRedemptions
      /\ c.restrictedToUser \in {Null, u}
      /\ c.restrictedToPlan \in {Null, plan}

ValidateCoupon(t) ==
  /\ At(t, "validate")
  /\ LET j == job[t]
     IN  IF j.coupon # Null /\ ~CouponValid(j.coupon, j.user, j.plan) THEN Finish(t)
         ELSE Goto(t, "create")
  /\ UNCHANGED <<now, database, cielo>>

\* The charge is put off to the end of a trial, the one being started or the
\* one that is running.
Deferred(j) ==
  j.op = "startTrial" \/ (j.row.status = "trialing" /\ j.row.currentPeriodEnd > now)

PeriodEnd(j) ==
  IF j.op = "startTrial" THEN now + TrialDays
  ELSE IF Deferred(j) THEN j.row.currentPeriodEnd ELSE now + PeriodDays

\* The row createCieloSubscription inserts, all columns but the id.
NewRow(j, r) ==
  [id |-> 0, plan |-> j.plan, status |-> IF Deferred(j) THEN "trialing" ELSE "active",
   currentPeriodEnd |-> PeriodEnd(j), recurrence |-> r, trialUsed |-> j.op = "startTrial",
   promoLeft |-> OrElse(PlanData[j.plan].promoMonths, 0), extraGroups |-> 0,
   coupon |-> j.coupon,
   bonusGroups |-> IF j.coupon = Null THEN 0 ELSE CouponData[j.coupon].bonusGroups,
   couponLeft |-> IF j.coupon = Null THEN 0
                  ELSE OrElse(CouponData[j.coupon].discountMonths, -1)]

\* createRecurrentPayment: Cielo creates the recurrence; with AuthorizeNow it also
\* makes the first charge, and the request succeeds only if that one is authorised.
CreateSubscription(t) ==
  /\ At(t, "create")
  /\ LET j == job[t]
         afterwards == IF j.row.id # 0 THEN "delete" ELSE "insert"
     IN  \/ /\ "error" \in Outcomes
            /\ Finish(t)
            /\ UNCHANGED cielo
         \/ \E r \in Recurrence, o \in Outcomes \ {"error"} :
              LET new == NewRow(j, r)
              IN  /\ recurrence[r].state = "absent"
                  /\ recurrence' = [recurrence EXCEPT ![r] =
                       [state |-> "active", user |-> j.user, amount |-> AmountOf(new),
                        start |-> IF Deferred(j) THEN new.currentPeriodEnd ELSE now]]
                  /\ \/ /\ Deferred(j)
                        /\ UNCHANGED charge
                        /\ IF o = "lost" THEN Finish(t)
                           ELSE job' = [job EXCEPT ![t].pc = afterwards, ![t].row = new,
                                                   ![t].replaced = j.row.id]
                     \/ /\ ~Deferred(j)
                        /\ \E c \in Charge :
                             /\ charge[c].state = "absent"
                             /\ charge' = [charge EXCEPT ![c] =
                                  [state |-> "paid", recurrence |-> r, attempts |-> 1,
                                   notified |-> 0]]
                             /\ IF o = "lost" THEN Finish(t)
                                ELSE job' = [job EXCEPT ![t].pc = afterwards,
                                               ![t].row = new, ![t].charge = c,
                                               ![t].replaced = j.row.id]
  /\ UNCHANGED <<now, database>>

\* "Delete any existing subscription before creating new": by id, whatever has
\* become of it, and without stopping its recurrence.
DeleteExisting(t) ==
  /\ At(t, "delete")
  /\ LET u == job[t].user
     IN  sub' = IF sub[u].id = job[t].replaced THEN [sub EXCEPT ![u] = NoRow] ELSE sub
  /\ Goto(t, "insert")
  /\ UNCHANGED <<now, lastId, payments, activeGroups, redemptions, cielo>>

\* A second row of the same user violates the unique constraint: the request fails.
InsertRow(t) ==
  /\ At(t, "insert")
  /\ LET u == job[t].user
         row == [job[t].row EXCEPT !.id = lastId + 1]
     IN  IF sub[u].id # 0 THEN Finish(t) /\ UNCHANGED <<sub, lastId>>
         ELSE /\ sub' = [sub EXCEPT ![u] = row]
              /\ lastId' = lastId + 1
              /\ job' = [job EXCEPT ![t].row = row,
                                    ![t].pc = IF job[t].charge # Null THEN "record"
                                              ELSE "redeem"]
  /\ UNCHANGED <<now, payments, activeGroups, redemptions, cielo>>

RecordPayment(t) ==
  /\ At(t, "record")
  /\ payments' = Append(payments, [sub |-> job[t].row.id, charge |-> job[t].charge,
                                   status |-> "paid", retryCount |-> 0])
  /\ Goto(t, "redeem")
  /\ UNCHANGED <<now, sub, lastId, activeGroups, redemptions, cielo>>

\* The row is read back, the request failing if it is gone; then incrementRedemptions.
Redeem(t) ==
  /\ At(t, "redeem")
  /\ LET c == job[t].row.coupon
     IN  redemptions' = IF c # Null /\ sub[job[t].user].id # 0
                        THEN [redemptions EXCEPT ![c] = @ + 1] ELSE redemptions
  /\ Finish(t)
  /\ UNCHANGED <<now, sub, lastId, payments, activeGroups, cielo>>

------------------------------------------------------------------------------
\* The steps that follow in the requests that change a row in place.

\* updatePaymentMethod: a new recurrence for the same amount, first charged when
\* the period that is already paid for ends.
ReplaceRecurrence(t) ==
  /\ At(t, "replace")
  /\ \/ /\ "error" \in Outcomes
        /\ Finish(t)
        /\ UNCHANGED recurrence
     \/ \E r \in Recurrence, o \in Outcomes \ {"error"} :
          LET row == job[t].row
          IN  /\ recurrence[r].state = "absent"
              /\ recurrence' = [recurrence EXCEPT ![r] =
                   [state |-> "active", user |-> job[t].user, amount |-> AmountOf(row),
                    start |-> row.currentPeriodEnd]]
              /\ IF o = "lost" THEN Finish(t)
                 ELSE job' = [job EXCEPT ![t].pc = "write", ![t].row.recurrence = r]
  /\ UNCHANGED <<now, database, charge>>

\* The limit the groups are held against: removeExtraGroups leaves out the bonus
\* groups and takes an unlimited plan for none.
NewLimit(op, row) ==
  IF op = "changePlan"
  THEN PlanData[row.plan].groupLimit + row.extraGroups + row.bonusGroups
  ELSE OrElse(PlanData[row.plan].groupLimit, 0) + row.extraGroups

CheckGroups(t) ==
  /\ At(t, "groups")
  /\ LET j == job[t]
     IN  IF Cardinality(activeGroups[j.user]) > NewLimit(j.op, j.row) THEN Finish(t)
         ELSE Goto(t, AmountOrWrite(j.row))
  /\ UNCHANGED <<now, database, cielo>>

\* updateRecurrenceAmount: a request fails when it does, a webhook only logs it.
SetAmount(t) ==
  /\ At(t, "amount")
  /\ \E o \in Outcomes :
       LET row == job[t].row
       IN  /\ recurrence' = IF o = "error" THEN recurrence
                            ELSE [recurrence EXCEPT ![row.recurrence].amount = AmountOf(row)]
           /\ IF o = "ok" \/ job[t].op = "payment" THEN Goto(t, "write") ELSE Finish(t)
  /\ UNCHANGED <<now, database, charge>>

\* The columns each handler writes back, from the row it read a few awaits ago.
Written(old, new, op) ==
  CASE op = "updatePaymentMethod" -> [old EXCEPT !.recurrence = new.recurrence]
    [] op = "changePlan" -> [old EXCEPT !.plan = new.plan]
    [] op \in {"purchaseExtraGroups", "removeExtraGroups"} ->
         [old EXCEPT !.extraGroups = new.extraGroups]
    [] op = "payment" ->
         [old EXCEPT !.status = new.status, !.currentPeriodEnd = new.currentPeriodEnd,
                     !.promoLeft = new.promoLeft, !.couponLeft = new.couponLeft]
    [] OTHER -> [old EXCEPT !.status = "canceled"]

WriteRow(t) ==
  /\ At(t, "write")
  /\ UpdateRow(t, Written(sub[job[t].user], job[t].row, job[t].op))
  /\ Finish(t)
  /\ UNCHANGED <<now, lastId, payments, activeGroups, redemptions, cielo>>

\* SubscriptionService.getGroupLimit, Null for Infinity
getGroupLimit(row) ==
  IF row.id = 0 THEN 0
  ELSE IF PlanData[row.plan].groupLimit = Null THEN Null
       ELSE PlanData[row.plan].groupLimit + row.extraGroups + row.bonusGroups

\* Mutated: a user at the limit may add one more.
CanAddAtLimit(row, count) ==
  /\ row.id # 0
  /\ getGroupLimit(row) # Null => count <= getGroupLimit(row)

\* SubscriptionService.canAddGroup, on a count taken an await earlier
canAddGroup(row, count) ==
  /\ row.id # 0
  /\ getGroupLimit(row) # Null => count < getGroupLimit(row)

CheckLimit(t) ==
  /\ At(t, "limit")
  /\ IF canAddGroup(sub[job[t].user], job[t].count) THEN Goto(t, "add") ELSE Finish(t)
  /\ UNCHANGED <<now, database, cielo>>

AddGroup(t) ==
  /\ At(t, "add")
  /\ activeGroups' = [activeGroups EXCEPT ![job[t].user] = @ \cup {job[t].group}]
  /\ Finish(t)
  /\ UNCHANGED <<now, sub, lastId, payments, redemptions, cielo>>

------------------------------------------------------------------------------
\* Webhooks.  ChangeType 1: the handler asks Cielo for the payment, then works on
\* the answer.
DeliverPayment(t, c) ==
  /\ charge[c].state # "absent"
  /\ charge[c].notified < charge[c].attempts + Duplicates
  /\ Start(t, [NoJob EXCEPT !.pc = "lookup", !.op = "payment", !.charge = c,
                            !.state = charge[c].state])
  /\ charge' = [charge EXCEPT ![c].notified = @ + 1]
  /\ UNCHANGED <<now, database, recurrence>>

\* Mutated: a charge that is on file is taken for a webhook delivered twice.
LookupSkipsKnownCharges(t) ==
  /\ At(t, "lookup")
  /\ IF \E k \in DOMAIN payments : payments[k].charge = job[t].charge THEN Finish(t)
     ELSE Goto(t, "find")
  /\ UNCHANGED <<now, database, cielo>>

\* getByCieloPaymentId: cielo_payment_id is not unique, any of its rows may be found.
LookupPayment(t) ==
  /\ At(t, "lookup")
  /\ LET j == job[t]
         found == {k \in DOMAIN payments : payments[k].charge = j.charge}
     IN  IF found = {} THEN Goto(t, "find")
         ELSE \E k \in found :
                CASE j.state = "paid" ->
                       job' = [job EXCEPT ![t].pc = "markPaid", ![t].entry = k]
                  [] j.state = "denied" ->
                       job' = [job EXCEPT ![t].pc = "markFailed", ![t].entry = k,
                                          ![t].count = payments[k].retryCount]
                  [] OTHER -> Finish(t)
  /\ UNCHANGED <<now, database, cielo>>

MarkPaid(t) ==
  /\ At(t, "markPaid")
  /\ payments' = [payments EXCEPT ![job[t].entry].status = "paid"]
  /\ Goto(t, "load")
  /\ UNCHANGED <<now, sub, lastId, activeGroups, redemptions, cielo>>

\* Mutated: the promotional payments are counted down past zero.
RenewedPastZero(row) ==
  [row EXCEPT !.status = "active", !.currentPeriodEnd = now + PeriodDays,
              !.promoLeft = @ - 1, !.couponLeft = IF @ > 0 THEN @ - 1 ELSE @]

\* What a payment buys: a period from today, and one discounted payment used up.
Renewed(row) ==
  [row EXCEPT !.status = "active", !.currentPeriodEnd = now + PeriodDays,
              !.promoLeft = AtLeastZero(@ - 1),
              !.couponLeft = IF @ > 0 THEN @ - 1 ELSE @]

\* Mutated: the end of the promotion is forgotten.
OnlyCouponJustEnded(row) == row.couponLeft = 1

\* The amount changes with the last discounted payment.
DiscountJustEnded(row) == row.promoLeft = 1 \/ row.couponLeft = 1

Renew(t, u, row) ==
  job' = [job EXCEPT ![t].user = u, ![t].row = Renewed(row),
            ![t].pc = IF DiscountJustEnded(row) THEN AmountOrWrite(row) ELSE "write"]

LoadSubscription(t) ==
  /\ At(t, "load")
  /\ LET id == payments[job[t].entry].sub
     IN  \/ \E u \in User : sub[u].id = id /\ Renew(t, u, sub[u])
         \/ (\A u \in User : sub[u].id # id) /\ Finish(t)
  /\ UNCHANGED <<now, database, cielo>>

MarkFailed(t) ==
  /\ At(t, "markFailed")
  /\ LET n == job[t].count + 1
     IN  /\ payments' = [payments EXCEPT ![job[t].entry].status = "failed",
                                         ![job[t].entry].retryCount = n]
         /\ IF n >= 3 THEN Goto(t, "suspend") ELSE Finish(t)
  /\ UNCHANGED <<now, sub, lastId, activeGroups, redemptions, cielo>>

Suspend(t) ==
  /\ At(t, "suspend")
  /\ LET id == payments[job[t].entry].sub
     IN  sub' = [u \in User |-> IF sub[u].id = id THEN [sub[u] EXCEPT !.status = "past_due"]
                                ELSE sub[u]]
  /\ Finish(t)
  /\ UNCHANGED <<now, lastId, payments, activeGroups, redemptions, cielo>>

\* Mutated: the recurrence the webhook names is not looked at.
FindAnySubscription(t) ==
  /\ At(t, "find")
  /\ \E u \in User :
       /\ sub[u].recurrence # Null
       /\ job' = [job EXCEPT ![t].pc = "recordNew", ![t].user = u, ![t].row = sub[u]]
  /\ UNCHANGED <<now, database, cielo>>

\* A charge the service has no payment row for: getByCieloRecurrentPaymentId finds
\* its subscription, or the webhook is dropped.
FindSubscription(t) ==
  /\ At(t, "find")
  /\ LET r == charge[job[t].charge].recurrence
     IN  \/ \E u \in User :
              /\ sub[u].recurrence = r
              /\ job' = [job EXCEPT ![t].pc = "recordNew", ![t].user = u, ![t].row = sub[u]]
         \/ (\A u \in User : sub[u].recurrence # r) /\ Finish(t)
  /\ UNCHANGED <<now, database, cielo>>

\* Mutated: a charge counts as paid until it is denied.
NotYetDenied(state) == state # "denied"

\* Authorized or Confirmed
isPaid(state) == state = "paid"

\* Whatever is not paid is recorded as failed, with no retry counted yet.
RecordNewPayment(t) ==
  /\ At(t, "recordNew")
  /\ LET j == job[t]
         paid == isPaid(j.state)
     IN  /\ payments' = Append(payments,
              [sub |-> j.row.id, charge |-> j.charge,
               status |-> IF paid THEN "paid" ELSE "failed", retryCount |-> 0])
         /\ IF paid THEN Renew(t, j.user, j.row) ELSE Finish(t)
  /\ UNCHANGED <<now, sub, lastId, activeGroups, redemptions, cielo>>

\* ChangeType 4: whoever holds the recurrence is canceled.
DeliverClosure(t, r) ==
  /\ recurrence[r].state = "inactive"
  /\ \E u \in User :
       /\ sub[u].recurrence = r
       /\ Start(t, [NoJob EXCEPT !.pc = "write", !.op = "closure", !.user = u,
                                 !.row = sub[u]])
  /\ UNCHANGED <<now, database, cielo>>

------------------------------------------------------------------------------
\* Cielo and the world.
ChargeRecurrence(r) ==
  /\ recurrence[r].state = "active"
  /\ now >= recurrence[r].start
  /\ \E c \in Charge, outcome \in {"pending", "denied", "paid"} :
       /\ charge[c].state = "absent"
       /\ charge' = [charge EXCEPT ![c] =
            [state |-> outcome, recurrence |-> r, attempts |-> 1, notified |-> 0]]
  /\ UNCHANGED <<now, database, recurrence, job>>

RetryCharge(c) ==
  /\ charge[c].state \in {"pending", "denied"}
  /\ recurrence[charge[c].recurrence].state = "active"
  /\ charge[c].attempts < MaxAttempts
  /\ \E outcome \in {"denied", "paid"} :
       charge' = [charge EXCEPT ![c].state = outcome, ![c].attempts = @ + 1]
  /\ UNCHANGED <<now, database, recurrence, job>>

CloseRecurrence(r) ==
  /\ recurrence[r].state = "active"
  /\ recurrence' = [recurrence EXCEPT ![r].state = "inactive"]
  /\ UNCHANGED <<now, database, charge, job>>

\* A day is long beside a request: no request runs over midnight.
Tick ==
  /\ Quiescent
  /\ now < MaxTime
  /\ now' = now + 1
  /\ UNCHANGED <<database, cielo, job>>

Abort(t) ==
  /\ Aborts
  /\ ~Idle(t)
  /\ Finish(t)
  /\ UNCHANGED <<now, database, cielo>>

------------------------------------------------------------------------------
Begin(t) ==
  \E u \in User :
    \/ \E p \in Plan, k \in Nullable(Coupon) : StartTrial(t, u, p, k) \/ Checkout(t, u, p, k)
    \/ UpdatePaymentMethod(t, u)
    \/ \E p \in Plan : ChangePlan(t, u, p)
    \/ \E n \in Counts : PurchaseExtraGroups(t, u, n) \/ RemoveExtraGroups(t, u, n)
    \/ CancelSubscription(t, u)
    \/ \E g \in Group : ActivateGroup(t, u, g) \/ DeactivateGroup(t, u, g)

Deliver(t) ==
  \/ \E c \in Charge : DeliverPayment(t, c)
  \/ \E r \in Recurrence : DeliverClosure(t, r)

Continue(t) ==
  \/ ReadExisting(t) \/ Deactivate(t) \/ ValidateCoupon(t) \/ CreateSubscription(t)
  \/ DeleteExisting(t) \/ InsertRow(t) \/ RecordPayment(t) \/ Redeem(t)
  \/ ReplaceRecurrence(t) \/ CheckGroups(t) \/ SetAmount(t) \/ WriteRow(t)
  \/ CheckLimit(t) \/ AddGroup(t)
  \/ LookupPayment(t) \/ MarkPaid(t) \/ LoadSubscription(t) \/ MarkFailed(t) \/ Suspend(t)
  \/ FindSubscription(t) \/ RecordNewPayment(t)

World ==
  \/ \E r \in Recurrence : ChargeRecurrence(r) \/ CloseRecurrence(r)
  \/ \E c \in Charge : RetryCharge(c)
  \/ Tick

Next == World \/ \E t \in Task : Begin(t) \/ Deliver(t) \/ Continue(t) \/ Abort(t)

Spec == Init /\ [][Next]_vars

\* A handler that was started runs on.  Cielo delivers each webhook, and the server
\* takes it however busy it is: the number of tasks is a bound of the model, so a
\* delivery that is possible again and again happens.
Fairness ==
  /\ \A t \in Task : WF_vars(Continue(t))
  /\ \A c \in Charge : SF_vars(\E t \in Task : DeliverPayment(t, c))

FairSpec == Spec /\ Fairness

------------------------------------------------------------------------------
(***************************************************************************)
(* Properties                                                              *)
(***************************************************************************)
TypeOK ==
  /\ now \in Nat
  /\ sub \in [User -> Row]
  /\ lastId \in Nat
  /\ payments \in Seq(PaymentRow)
  /\ activeGroups \in [User -> SUBSET Group]
  /\ redemptions \in [Coupon -> Nat]
  /\ recurrence \in [Recurrence -> RecurrenceRecord]
  /\ charge \in [Charge -> ChargeRecord]
  /\ job \in [Task -> Job]

HasPaid(u) ==
  \E c \in Charge : /\ charge[c].state = "paid"
                    /\ recurrence[charge[c].recurrence].user = u

\* Whoever is let in without ever having paid is on a trial: not active, and not
\* for longer than a trial lasts from today, whatever requests and webhooks raced.
AccessIsPaidFor ==
  \A u \in User :
    isAuthorized(u) /\ ~HasPaid(u) =>
      sub[u].status # "active" /\ sub[u].currentPeriodEnd <= now + TrialDays

\* A payment recorded for a subscription is a charge Cielo made on a recurrence of
\* the subscription's own user.
PaymentsCreditTheirPayer ==
  \A k \in DOMAIN payments, u \in User :
    payments[k].sub = sub[u].id =>
      recurrence[charge[payments[k].charge].recurrence].user = u

\* MAX_EXTRA_GROUPS is never exceeded, although concurrent purchases all check the
\* same stale count.
ExtraGroupsCapped == \A u \in User : sub[u].extraGroups <= MAX_EXTRA_GROUPS

\* validateCoupon reads the redemptions long before Redeem counts one: a coupon goes
\* over its maximum by the other requests in progress, and by no more.
CouponOvershootBounded ==
  \A c \in Coupon :
    CouponData[c].maxRedemptions # Null =>
      redemptions[c] + 1 <= CouponData[c].maxRedemptions + Cardinality(Task)

\* With one request or webhook at a time, and a gateway that answers, Cielo charges
\* what the row is worth: plan, promotion, coupon and extra groups.
AmountAgrees ==
  Quiescent =>
    \A u \in User : sub[u].recurrence # Null =>
      recurrence[sub[u].recurrence].amount = AmountOf(sub[u])

\* A canceled subscription is no longer charged.
CanceledIsNotCharged ==
  Quiescent =>
    \A u \in User : sub[u].status = "canceled" =>
      recurrence[sub[u].recurrence].state = "inactive"

\* A payment of u counts three failures, which is what makes a subscription past due.
FailedThrice(u) ==
  \E k \in DOMAIN payments :
    payments[k].retryCount >= 3 /\ recurrence[charge[payments[k].charge].recurrence].user = u

\* Nobody is charged by two recurrences, but for who was past due: a checkout or a
\* trial is open to them, and replaces their row without stopping its recurrence.
ChargedOnce ==
  Quiescent =>
    \A r, s \in Recurrence :
      /\ recurrence[r].state = "active" /\ recurrence[s].state = "active"
      /\ recurrence[r].user = recurrence[s].user
      => r = s \/ FailedThrice(recurrence[r].user)

WithinLimit(u) ==
  getGroupLimit(sub[u]) # Null => Cardinality(activeGroups[u]) <= getGroupLimit(sub[u])

\* As long as a row is not replaced by another, no request puts its user over the
\* limit of the plan.
GroupsStayWithinLimit ==
  [][\A u \in User : sub'[u].id = sub[u].id /\ WithinLimit(u) => WithinLimit(u)']_vars

\* A handler that knows c is paid has no payment row to mark, and looks for a subscription
\* while no row holds c's recurrence: not yet, or not any more.
Dropped(c) ==
  /\ \E t \in Task : At(t, "find") /\ job[t].charge = c /\ job[t].state = "paid"
  /\ \A u \in User : sub[u].recurrence # charge[c].recurrence

\* A payment Cielo took is credited: whatever the order of its webhooks, and even if
\* the first of them came while the charge was pending or denied, some handler
\* records the charge as paid.  The webhook is dropped only when it is the first the
\* service records of the charge and the charge's recurrence has left the row, a checkout
\* or a new card having replaced it, or has not entered it yet.
PaymentsAreCredited ==
  \A c \in Charge :
    <>(charge[c].state = "paid") =>
      <>(\/ \E k \in DOMAIN payments : payments[k].charge = c /\ payments[k].status = "paid"
        \/ Dropped(c))

==============================================================================
