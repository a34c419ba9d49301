---------------------------- MODULE BillingProofs ----------------------------
(***************************************************************************)
(* What holds of Billing for every number of users, tasks, plans, coupons, *)
(* recurrences and charges: the types, the cap on extra groups, who pays   *)
(* for which subscription, and by how much a coupon is overdrawn.          *)
(*                                                                         *)
(* TypeOK is not inductive.  The amount told to Cielo is a number only if  *)
(* the row it is computed from has a plan, and a handler computes it from  *)
(* the row it read several steps earlier; so the invariant says, for every *)
(* step a handler can stand at, which of its locals are set, and that only *)
(* rows that exist have a status or a recurrence.                          *)
(***************************************************************************)
EXTENDS Billing, FiniteSetTheorems, TLAPS

\* A row of subscriptions is complete; the absent row has neither status nor
\* recurrence, so that no query by either of them finds it.
RowOK(row) ==
  /\ row.extraGroups <= MAX_EXTRA_GROUPS
  /\ row.id # 0 => row.plan \in Plan
  /\ row.id = 0 => row.status = "none" /\ row.recurrence = Null

\* The charges Cielo has made.
Made == {c \in Charge : charge[c].state # "absent"}

\* The steps that need the user, the requested plan, a row that exists, the charge
\* of a webhook, and the row of payments found for it.
UserSteps == {"existing", "deactivate", "validate", "create", "replace", "delete", "insert",
              "record", "redeem", "groups", "amount", "write", "limit", "add", "recordNew"}
PlanSteps == {"existing", "validate", "create"}
RowSteps == {"replace", "groups", "amount", "write", "record", "recordNew"}
ChargeSteps == {"lookup", "markPaid", "load", "markFailed", "suspend", "find", "recordNew"}
EntrySteps == {"markPaid", "load", "markFailed", "suspend"}

\* What the handler j has in its locals, of n payments and the charges made.
JobOK(j, n, made) ==
  /\ j.row.extraGroups <= MAX_EXTRA_GROUPS
  /\ j.pc \in UserSteps => j.user \in User
  /\ j.pc \in PlanSteps => j.plan \in Plan
  /\ j.pc \in RowSteps => j.row.id # 0 /\ j.row.plan \in Plan
  /\ j.pc \in {"delete", "insert"} => j.row.plan \in Plan
  /\ j.pc = "amount" => j.row.recurrence \in Recurrence
  /\ j.pc = "deactivate" =>
       /\ j.row.recurrence \in Recurrence
       /\ j.row.id # 0 /\ j.row.plan \in Plan
       /\ j.op \in {"checkout", "updatePaymentMethod", "cancelSubscription"}
       /\ j.op = "checkout" => j.plan \in Plan
  /\ j.pc = "record" => j.charge \in made
  /\ j.pc \in {"delete", "insert"} => j.charge \in made \cup {Null}
  /\ j.pc \in PlanSteps \cup {"deactivate"} => j.charge = Null
  /\ j.pc = "add" => j.group \in Group
  /\ j.pc = "limit" => j.group \in Group
  /\ j.pc \in ChargeSteps => j.charge \in made
  /\ j.pc \in EntrySteps => j.entry \in 1..n

RowsOK == \A u \in User : RowOK(sub[u])
PaymentsOK == \A k \in DOMAIN payments : payments[k].sub # 0
ChargesOK == \A c \in Charge : charge[c].state # "absent" => charge[c].recurrence # Null
JobsOK == \A t \in Task : JobOK(job[t], Len(payments), Made)

\* The inductive invariant.
IInv == TypeOK /\ RowsOK /\ PaymentsOK /\ ChargesOK /\ JobsOK

------------------------------------------------------------------------------
\* The amount of a recurrence is a number of cents, never negative, whatever the
\* discounts: what calculateRecurrenceAmount returns for a row that has a plan.
LEMMA AmountIsNat ==
  ASSUME NEW plan \in Plan, NEW promoLeft \in Nat, NEW extraGroups \in Nat,
         NEW coupon \in Nullable(Coupon), NEW couponLeft \in Int
  PROVE  calculateRecurrenceAmount(plan, promoLeft, extraGroups, coupon, couponLeft) \in Nat
<1>1. ListedPrice(plan, promoLeft) \in Nat
  BY PricingAssumption DEF ListedPrice, OrElse, PlanRow, Nullable
<1>2. \A c \in Coupon, price \in Nat : applyPlanDiscount(price, c) \in Nat
  <2> SUFFICES ASSUME NEW c \in Coupon, NEW price \in Nat
               PROVE  applyPlanDiscount(price, c) \in Nat
    OBVIOUS
  <2>1. CouponData[c] \in CouponRow
    BY PricingAssumption
  <2>2. CASE CouponData[c].discountType = Null \/ CouponData[c].discountValue = Null
    BY <2>2 DEF applyPlanDiscount
  <2>3. CASE CouponData[c].discountType # Null /\ CouponData[c].discountValue # Null
    <3>1. CouponData[c].discountValue \in Nat
      BY <2>1, <2>3 DEF CouponRow, Nullable
    <3>2. price * CouponData[c].discountValue \in Nat
      BY <3>1
    <3>3. RoundHundredths(price * CouponData[c].discountValue) \in Int
      BY <3>2 DEF RoundHundredths
    <3> QED  BY <2>3, <3>1, <3>3 DEF applyPlanDiscount, AtLeastZero
  <2> QED  BY <2>2, <2>3
<1>3. \A c \in Nullable(Coupon) : getExtraGroupPrice(c) \in Nat
  BY PricingAssumption
  DEF getExtraGroupPrice, OrElse, Nullable, CouponRow, EXTRA_GROUP_PRICE_IN_CENTS
<1>4. \A price \in Nat : extraGroups * price \in Nat
  OBVIOUS
<1> QED  BY <1>1, <1>2, <1>3, <1>4 DEF calculateRecurrenceAmount, CouponApplies, Nullable

\* The same of a row.
LEMMA AmountOfIsNat ==
  ASSUME NEW row \in Row, row.plan \in Plan
  PROVE  AmountOf(row) \in Nat
<1>1. /\ row.promoLeft \in Nat /\ row.extraGroups \in Nat
      /\ row.coupon \in Nullable(Coupon) /\ row.couponLeft \in Int
  BY DEF Row
<1> QED  BY <1>1, AmountIsNat DEF AmountOf

LEMMA NoRowOK == NoRow \in Row /\ RowOK(NoRow)
  BY DEF NoRow, Row, RowOK, MAX_EXTRA_GROUPS, Status, Nullable

LEMMA NoJobOK ==
  ASSUME NEW n, NEW made
  PROVE  NoJob \in Job /\ JobOK(NoJob, n, made)
  BY NoRowOK DEF NoJob, Job, JobOK, RowOK, PC, Op, Nullable, UserSteps, PlanSteps, RowSteps,
                 ChargeSteps, EntrySteps

\* A step that touches one handler and none of the tables keeps the invariant if it
\* leaves that handler with the locals its next step needs.
LEMMA OneJobChanges ==
  ASSUME IInv, NEW t \in Task, NEW j \in Job, JobOK(j, Len(payments), Made),
         job' = [job EXCEPT ![t] = j],
         UNCHANGED <<now, database, cielo>>
  PROVE  IInv'
<1> USE DEF IInv
<1>1. TypeOK'
  BY DEF TypeOK, database, cielo
<1>2. JobsOK'
  BY DEF JobsOK, TypeOK, database, cielo, Made, JobOK
<1>3. RowsOK' /\ PaymentsOK' /\ ChargesOK'
  BY DEF RowsOK, RowOK, PaymentsOK, ChargesOK, database, cielo
<1> QED  BY <1>1, <1>2, <1>3

LEMMA StartTrialKeeps ==
  ASSUME IInv, NEW t \in Task, NEW u \in User, NEW p \in Plan, NEW k \in Nullable(Coupon),
         StartTrial(t, u, p, k)
  PROVE  IInv'
<1> DEFINE j == [NoJob EXCEPT !.pc = "existing", !.op = "startTrial", !.user = u,
                            !.plan = p, !.coupon = k]
<1>1. j \in Job
  BY NoRowOK DEF NoJob, Job, PC, Op, Request, Nullable
<1>2. JobOK(j, Len(payments), Made)
  BY NoRowOK DEF NoJob, JobOK, RowOK, UserSteps, PlanSteps, RowSteps, ChargeSteps, EntrySteps
<1>3. job' = [job EXCEPT ![t] = j] /\ UNCHANGED <<now, database, cielo>>
  BY DEF StartTrial, Start
<1> QED  BY <1>1, <1>2, <1>3, OneJobChanges

LEMMA CheckoutKeeps ==
  ASSUME IInv, NEW t \in Task, NEW u \in User, NEW p \in Plan, NEW k \in Nullable(Coupon),
         Checkout(t, u, p, k)
  PROVE  IInv'
<1> DEFINE stop == sub[u].status = "trialing" /\ sub[u].recurrence # Null
           j == [NoJob EXCEPT !.pc = IF stop THEN "deactivate" ELSE "validate",
                              !.op = "checkout", !.user = u, !.row = sub[u],
                              !.plan = p, !.coupon = k]
<1>1. sub[u] \in Row /\ RowOK(sub[u])
  BY DEF IInv, TypeOK, RowsOK
<1>2. j \in Job
  BY <1>1 DEF NoJob, Job, PC, Op, Request, Nullable
<1>3. JobOK(j, Len(payments), Made)
  BY <1>1 DEF NoJob, JobOK, Row, RowOK, Nullable, UserSteps, PlanSteps, RowSteps, ChargeSteps,
              EntrySteps
<1>4. job' = [job EXCEPT ![t] = j] /\ UNCHANGED <<now, database, cielo>>
  BY DEF Checkout, Start
<1> QED  BY <1>2, <1>3, <1>4, OneJobChanges

LEMMA UpdatePaymentMethodKeeps ==
  ASSUME IInv, NEW t \in Task, NEW u \in User, UpdatePaymentMethod(t, u)
  PROVE  IInv'
<1> DEFINE j == [NoJob EXCEPT !.pc = IF sub[u].recurrence # Null THEN "deactivate"
                                     ELSE "replace",
                              !.op = "updatePaymentMethod", !.user = u, !.row = sub[u]]
<1>1. sub[u] \in Row /\ RowOK(sub[u])
  BY DEF IInv, TypeOK, RowsOK
<1>2. sub[u].status # "none"
  BY DEF UpdatePaymentMethod
<1>3. j \in Job
  BY <1>1 DEF NoJob, Job, PC, Op, Request, Nullable
<1>4. JobOK(j, Len(payments), Made)
  BY <1>1, <1>2 DEF NoJob, JobOK, Row, RowOK, Nullable, UserSteps, PlanSteps, RowSteps,
                    ChargeSteps, EntrySteps
<1>5. job' = [job EXCEPT ![t] = j] /\ UNCHANGED <<now, database, cielo>>
  BY DEF UpdatePaymentMethod, Start
<1> QED  BY <1>3, <1>4, <1>5, OneJobChanges

LEMMA ChangePlanKeeps ==
  ASSUME IInv, NEW t \in Task, NEW u \in User, NEW p \in Plan, ChangePlan(t, u, p)
  PROVE  IInv'
<1> DEFINE row == [sub[u] EXCEPT !.plan = p]
           j == [NoJob EXCEPT !.pc = IF PlanData[p].groupLimit # Null THEN "groups"
                                     ELSE AmountOrWrite(row),
                              !.op = "changePlan", !.user = u, !.row = row]
<1>1. sub[u] \in Row /\ RowOK(sub[u])
  BY DEF IInv, TypeOK, RowsOK
<1>2. sub[u].id # 0
  BY <1>1 DEF ChangePlan, isSubscriptionActive, RowOK
<1>3. row \in Row /\ row.id # 0 /\ row.plan = p /\ row.extraGroups <= MAX_EXTRA_GROUPS
  BY <1>1, <1>2 DEF Row, RowOK, Nullable
<1>4. j \in Job
  BY <1>3 DEF NoJob, Job, PC, Op, Request, Nullable, AmountOrWrite
<1>5. JobOK(j, Len(payments), Made)
  <2>1. row.recurrence # Null => row.recurrence \in Recurrence
    BY <1>3 DEF Row, Nullable
  <2> HIDE DEF row
  <2> QED  BY <1>3, <2>1 DEF NoJob, JobOK, AmountOrWrite, UserSteps, PlanSteps, RowSteps,
                             ChargeSteps, EntrySteps
<1>6. job' = [job EXCEPT ![t] = j] /\ UNCHANGED <<now, database, cielo>>
  BY DEF ChangePlan, Start
<1> QED  BY <1>4, <1>5, <1>6, OneJobChanges

\* The count is held against the maximum before the request starts, so what the
\* handler will write is within it.
LEMMA PurchaseExtraGroupsKeeps ==
  ASSUME IInv, NEW t \in Task, NEW u \in User, NEW n \in Counts, PurchaseExtraGroups(t, u, n)
  PROVE  IInv'
<1> DEFINE row == [sub[u] EXCEPT !.extraGroups = @ + n]
           j == [NoJob EXCEPT !.pc = AmountOrWrite(row), !.op = "purchaseExtraGroups",
                              !.user = u, !.row = row]
<1>1. sub[u] \in Row /\ RowOK(sub[u])
  BY DEF IInv, TypeOK, RowsOK
<1>2. sub[u].id # 0
  BY <1>1 DEF PurchaseExtraGroups, isSubscriptionActive, RowOK
<1>3. row \in Row /\ row.id # 0 /\ row.plan \in Plan /\ row.extraGroups <= MAX_EXTRA_GROUPS
  <2>1. n \in Nat
    BY BillingAssumption
  <2> QED  BY <1>1, <1>2, <2>1 DEF Row, RowOK, PurchaseExtraGroups
<1>4. j \in Job
  BY <1>3 DEF NoJob, Job, PC, Op, Request, Nullable, AmountOrWrite
<1>5. JobOK(j, Len(payments), Made)
  <2>1. row.recurrence # Null => row.recurrence \in Recurrence
    BY <1>3 DEF Row, Nullable
  <2> HIDE DEF row
  <2> QED  BY <1>3, <2>1 DEF NoJob, JobOK, AmountOrWrite, UserSteps, PlanSteps, RowSteps,
                             ChargeSteps, EntrySteps
<1>6. job' = [job EXCEPT ![t] = j] /\ UNCHANGED <<now, database, cielo>>
  BY DEF PurchaseExtraGroups, Start
<1> QED  BY <1>4, <1>5, <1>6, OneJobChanges

LEMMA RemoveExtraGroupsKeeps ==
  ASSUME IInv, NEW t \in Task, NEW u \in User, NEW n \in Counts, RemoveExtraGroups(t, u, n)
  PROVE  IInv'
<1> DEFINE row == [sub[u] EXCEPT !.extraGroups = @ - n]
           j == [NoJob EXCEPT !.pc = "groups", !.op = "removeExtraGroups", !.user = u,
                              !.row = row]
<1>1. sub[u] \in Row /\ RowOK(sub[u])
  BY DEF IInv, TypeOK, RowsOK
<1>2. sub[u].id # 0
  BY <1>1 DEF RemoveExtraGroups, isSubscriptionActive, RowOK
<1>3. row \in Row /\ row.id # 0 /\ row.plan \in Plan /\ row.extraGroups <= MAX_EXTRA_GROUPS
  <2>1. n \in Nat
    BY BillingAssumption
  <2> QED  BY <1>1, <1>2, <2>1 DEF Row, RowOK, RemoveExtraGroups, MAX_EXTRA_GROUPS
<1>4. j \in Job
  BY <1>3 DEF NoJob, Job, PC, Op, Request, Nullable
<1>5. JobOK(j, Len(payments), Made)
  <2> HIDE DEF row
  <2> QED  BY <1>3 DEF NoJob, JobOK, UserSteps, PlanSteps, RowSteps, ChargeSteps, EntrySteps
<1>6. job' = [job EXCEPT ![t] = j] /\ UNCHANGED <<now, database, cielo>>
  BY DEF RemoveExtraGroups, Start
<1> QED  BY <1>4, <1>5, <1>6, OneJobChanges

LEMMA CancelSubscriptionKeeps ==
  ASSUME IInv, NEW t \in Task, NEW u \in User, CancelSubscription(t, u)
  PROVE  IInv'
<1> DEFINE row == [sub[u] EXCEPT !.status = "canceled"]
           j == [NoJob EXCEPT !.pc = IF sub[u].recurrence # Null THEN "deactivate"
                                     ELSE "write",
                              !.op = "cancelSubscription", !.user = u, !.row = row]
<1>1. sub[u] \in Row /\ RowOK(sub[u])
  BY DEF IInv, TypeOK, RowsOK
<1>2. /\ row \in Row /\ row.id # 0 /\ row.plan \in Plan
      /\ row.extraGroups <= MAX_EXTRA_GROUPS /\ row.recurrence = sub[u].recurrence
  BY <1>1 DEF Row, RowOK, CancelSubscription, Status
<1>3. j \in Job
  BY <1>2 DEF NoJob, Job, PC, Op, Request, Nullable
<1>4. JobOK(j, Len(payments), Made)
  <2>1. row.recurrence # Null => row.recurrence \in Recurrence
    BY <1>2 DEF Row, Nullable
  <2> HIDE DEF row
  <2> QED  BY <1>2, <2>1 DEF NoJob, JobOK, UserSteps, PlanSteps, RowSteps, ChargeSteps,
                             EntrySteps
<1>5. job' = [job EXCEPT ![t] = j] /\ UNCHANGED <<now, database, cielo>>
  BY DEF CancelSubscription, Start
<1> QED  BY <1>3, <1>4, <1>5, OneJobChanges

LEMMA ActivateGroupKeeps ==
  ASSUME IInv, NEW t \in Task, NEW u \in User, NEW g \in Group, ActivateGroup(t, u, g)
  PROVE  IInv'
<1> DEFINE j == [NoJob EXCEPT !.pc = IF g \in activeGroups[u] THEN "add" ELSE "limit",
                              !.op = "activateGroup", !.user = u, !.group = g,
                              !.count = Cardinality(activeGroups[u])]
<1>1. Cardinality(activeGroups[u]) \in Nat
  <2>1. IsFiniteSet(activeGroups[u])
    BY BillingAssumption, FS_Subset DEF IInv, TypeOK
  <2> QED  BY <2>1, FS_CardinalityType
<1>2. j \in Job
  BY <1>1, NoRowOK DEF NoJob, Job, PC, Op, Request, Nullable
<1>3. JobOK(j, Len(payments), Made)
  BY NoRowOK DEF NoJob, JobOK, RowOK, UserSteps, PlanSteps, RowSteps, ChargeSteps, EntrySteps
<1>4. job' = [job EXCEPT ![t] = j] /\ UNCHANGED <<now, database, cielo>>
  BY DEF ActivateGroup, Start
<1> QED  BY <1>2, <1>3, <1>4, OneJobChanges

LEMMA DeliverClosureKeeps ==
  ASSUME IInv, NEW t \in Task, NEW r \in Recurrence, DeliverClosure(t, r)
  PROVE  IInv'
<1>1. PICK u \in User :
        /\ sub[u].recurrence = r
        /\ job' = [job EXCEPT ![t] = [NoJob EXCEPT !.pc = "write", !.op = "closure",
                                                   !.user = u, !.row = sub[u]]]
  BY DEF DeliverClosure, Start
<1> DEFINE j == [NoJob EXCEPT !.pc = "write", !.op = "closure", !.user = u, !.row = sub[u]]
<1>2. sub[u] \in Row /\ RowOK(sub[u])
  BY DEF IInv, TypeOK, RowsOK
<1>3. sub[u].id # 0
  BY <1>1, <1>2, BillingAssumption DEF RowOK
<1>4. j \in Job
  BY <1>2 DEF NoJob, Job, PC, Op, Nullable
<1>5. JobOK(j, Len(payments), Made)
  BY <1>2, <1>3 DEF NoJob, JobOK, Row, RowOK, UserSteps, PlanSteps, RowSteps, ChargeSteps,
                    EntrySteps
<1>6. UNCHANGED <<now, database, cielo>>
  BY DEF DeliverClosure
<1> QED  BY <1>1, <1>4, <1>5, <1>6, OneJobChanges

LEMMA TheJob ==
  ASSUME IInv, NEW t \in Task
  PROVE  job[t] \in Job /\ JobOK(job[t], Len(payments), Made)
  BY DEF IInv, TypeOK, JobsOK

LEMMA ThePayment ==
  ASSUME IInv, NEW k \in DOMAIN payments
  PROVE  k \in 1..Len(payments) /\ k \in Nat /\ payments[k] \in PaymentRow
<1>1. payments \in Seq(PaymentRow)
  BY DEF IInv, TypeOK
<1>2. DOMAIN payments = 1..Len(payments) /\ Len(payments) \in Nat
  BY <1>1
<1> QED  BY <1>1, <1>2

\* The handler ends.
LEMMA FinishKeeps ==
  ASSUME IInv, NEW t \in Task, Finish(t), UNCHANGED <<now, database, cielo>>
  PROVE  IInv'
  BY NoJobOK, OneJobChanges DEF Finish

\* The handler goes on to another step with the locals it has.
LEMMA GotoKeeps ==
  ASSUME IInv, NEW t \in Task, NEW pc \in PC,
         JobOK([job[t] EXCEPT !.pc = pc], Len(payments), Made),
         Goto(t, pc), UNCHANGED <<now, database, cielo>>
  PROVE  IInv'
<1>1. [job[t] EXCEPT !.pc = pc] \in Job
  BY TheJob DEF Job
<1>2. job' = [job EXCEPT ![t] = [job[t] EXCEPT !.pc = pc]]
  BY DEF Goto
<1> QED  BY <1>1, <1>2, OneJobChanges

LEMMA ReadExistingKeeps ==
  ASSUME IInv, NEW t \in Task, ReadExisting(t)
  PROVE  IInv'
<1> DEFINE row == sub[job[t].user]
           j == [job[t] EXCEPT !.pc = "validate", !.row = row]
<1>1. job[t] \in Job /\ JobOK(job[t], Len(payments), Made) /\ job[t].pc = "existing"
  BY TheJob DEF ReadExisting, At
<1>2. row \in Row /\ RowOK(row)
  BY <1>1 DEF JobOK, UserSteps, IInv, TypeOK, RowsOK
<1>3. UNCHANGED <<now, database, cielo>>
  BY DEF ReadExisting
<1>4. CASE isSubscriptionActive(row.status)
  BY <1>3, <1>4, FinishKeeps DEF ReadExisting
<1>5. CASE ~isSubscriptionActive(row.status)
  <2>1. j \in Job
    BY <1>1, <1>2 DEF Job, PC
  <2>2. JobOK(j, Len(payments), Made)
    BY <1>1, <1>2 DEF Job, JobOK, RowOK, UserSteps, PlanSteps, RowSteps, ChargeSteps, EntrySteps
  <2>3. job' = [job EXCEPT ![t] = j]
    BY <1>5 DEF ReadExisting
  <2> QED  BY <1>3, <2>1, <2>2, <2>3, OneJobChanges
<1> QED  BY <1>4, <1>5

LEMMA ValidateCouponKeeps ==
  ASSUME IInv, NEW t \in Task, ValidateCoupon(t)
  PROVE  IInv'
<1>1. job[t] \in Job /\ JobOK(job[t], Len(payments), Made) /\ job[t].pc = "validate"
  BY TheJob DEF ValidateCoupon, At
<1>2. JobOK([job[t] EXCEPT !.pc = "create"], Len(payments), Made)
  BY <1>1 DEF Job, JobOK, UserSteps, PlanSteps, RowSteps, ChargeSteps, EntrySteps
<1>3. "create" \in PC
  BY DEF PC
<1> QED  BY <1>2, <1>3, FinishKeeps, GotoKeeps DEF ValidateCoupon

LEMMA CheckGroupsKeeps ==
  ASSUME IInv, NEW t \in Task, CheckGroups(t)
  PROVE  IInv'
<1>1. job[t] \in Job /\ JobOK(job[t], Len(payments), Made) /\ job[t].pc = "groups"
  BY TheJob DEF CheckGroups, At
<1> DEFINE pc == AmountOrWrite(job[t].row)
<1>2. JobOK([job[t] EXCEPT !.pc = pc], Len(payments), Made)
  BY <1>1 DEF Job, Row, Nullable, JobOK, AmountOrWrite, UserSteps, PlanSteps, RowSteps,
              ChargeSteps, EntrySteps
<1>3. pc \in PC
  BY DEF PC, AmountOrWrite
<1> QED  BY <1>2, <1>3, FinishKeeps, GotoKeeps DEF CheckGroups

LEMMA CheckLimitKeeps ==
  ASSUME IInv, NEW t \in Task, CheckLimit(t)
  PROVE  IInv'
<1>1. job[t] \in Job /\ JobOK(job[t], Len(payments), Made) /\ job[t].pc = "limit"
  BY TheJob DEF CheckLimit, At
<1>2. JobOK([job[t] EXCEPT !.pc = "add"], Len(payments), Made)
  BY <1>1 DEF Job, JobOK, UserSteps, PlanSteps, RowSteps, ChargeSteps, EntrySteps
<1>3. "add" \in PC
  BY DEF PC
<1> QED  BY <1>2, <1>3, FinishKeeps, GotoKeeps DEF CheckLimit

LEMMA LookupPaymentKeeps ==
  ASSUME IInv, NEW t \in Task, LookupPayment(t)
  PROVE  IInv'
<1> DEFINE found == {k \in DOMAIN payments : payments[k].charge = job[t].charge}
<1>1. job[t] \in Job /\ JobOK(job[t], Len(payments), Made) /\ job[t].pc = "lookup"
  BY TheJob DEF LookupPayment, At
<1>2. UNCHANGED <<now, database, cielo>>
  BY DEF LookupPayment
<1>3. CASE Goto(t, "find")
  <2>1. JobOK([job[t] EXCEPT !.pc = "find"], Len(payments), Made)
    BY <1>1 DEF Job, JobOK, UserSteps, PlanSteps, RowSteps, ChargeSteps, EntrySteps
  <2>2. "find" \in PC
    BY DEF PC
  <2> QED  BY <1>2, <1>3, <2>1, <2>2, GotoKeeps
<1>4. ASSUME NEW k \in found,
             job' = [job EXCEPT ![t] = [job[t] EXCEPT !.pc = "markPaid", !.entry = k]]
      PROVE  IInv'
  <2>1. k \in 1..Len(payments) /\ k \in Nat
    BY ThePayment
  <2>2. [job[t] EXCEPT !.pc = "markPaid", !.entry = k] \in Job
    BY <1>1, <2>1 DEF Job, PC
  <2>3. JobOK([job[t] EXCEPT !.pc = "markPaid", !.entry = k], Len(payments), Made)
    BY <1>1, <2>1 DEF Job, JobOK, UserSteps, PlanSteps, RowSteps, ChargeSteps, EntrySteps
  <2> QED  BY <1>2, <1>4, <2>2, <2>3, OneJobChanges
<1>5. ASSUME NEW k \in found,
             job' = [job EXCEPT ![t] = [job[t] EXCEPT !.pc = "markFailed", !.entry = k,
                                                      !.count = payments[k].retryCount]]
      PROVE  IInv'
  <2>1. k \in 1..Len(payments) /\ k \in Nat /\ payments[k].retryCount \in Nat
    BY ThePayment DEF PaymentRow
  <2> DEFINE j == [job[t] EXCEPT !.pc = "markFailed", !.entry = k,
                                 !.count = payments[k].retryCount]
  <2>2. j \in Job
    BY <1>1, <2>1 DEF Job, PC
  <2>3. JobOK(j, Len(payments), Made)
    BY <1>1, <2>1 DEF Job, JobOK, UserSteps, PlanSteps, RowSteps, ChargeSteps, EntrySteps
  <2> QED  BY <1>2, <1>5, <2>2, <2>3, OneJobChanges
<1>6. CASE Finish(t)
  BY <1>2, <1>6, FinishKeeps
<1> QED
  <2>1. CASE found = {}
    BY <1>3, <2>1 DEF LookupPayment
  <2>2. CASE found # {}
    <3>1. PICK k \in found :
            CASE job[t].state = "paid" ->
                   job' = [job EXCEPT ![t].pc = "markPaid", ![t].entry = k]
              [] job[t].state = "denied" ->
                   job' = [job EXCEPT ![t].pc = "markFailed", ![t].entry = k,
                                      ![t].count = payments[k].retryCount]
              [] OTHER -> Finish(t)
      BY <2>2 DEF LookupPayment
    <3>2. CASE job[t].state = "paid"
      BY <1>4, <3>1, <3>2, <1>1 DEF IInv, TypeOK
    <3>3. CASE job[t].state = "denied"
      BY <1>5, <3>1, <3>3, <1>1 DEF IInv, TypeOK
    <3>4. CASE job[t].state \notin {"paid", "denied"}
      BY <1>6, <3>1, <3>4
    <3> QED  BY <3>2, <3>3, <3>4
  <2> QED  BY <2>1, <2>2

LEMMA FindSubscriptionKeeps ==
  ASSUME IInv, NEW t \in Task, FindSubscription(t)
  PROVE  IInv'
<1> DEFINE r == charge[job[t].charge].recurrence
<1>1. job[t] \in Job /\ JobOK(job[t], Len(payments), Made) /\ job[t].pc = "find"
  BY TheJob DEF FindSubscription, At
<1>2. UNCHANGED <<now, database, cielo>>
  BY DEF FindSubscription
<1>3. r # Null
  BY <1>1 DEF JobOK, ChargeSteps, Made, IInv, ChargesOK
<1>4. ASSUME NEW u \in User, sub[u].recurrence = r,
             job' = [job EXCEPT ![t].pc = "recordNew", ![t].user = u, ![t].row = sub[u]]
      PROVE  IInv'
  <2> DEFINE j == [job[t] EXCEPT !.pc = "recordNew", !.user = u, !.row = sub[u]]
  <2>1. sub[u] \in Row /\ RowOK(sub[u]) /\ sub[u].id # 0
    BY <1>3, <1>4 DEF IInv, TypeOK, RowsOK, RowOK
  <2>2. j \in Job
    BY <1>1, <2>1 DEF Job, PC, Nullable
  <2>3. JobOK(j, Len(payments), Made)
    BY <1>1, <2>1 DEF Job, JobOK, RowOK, UserSteps, PlanSteps, RowSteps, ChargeSteps, EntrySteps
  <2>4. job' = [job EXCEPT ![t] = j]
    BY <1>4 DEF IInv, TypeOK
  <2> QED  BY <1>2, <2>2, <2>3, <2>4, OneJobChanges
<1> QED  BY <1>2, <1>4, FinishKeeps DEF FindSubscription

\* What a payment writes into a row keeps it a row, and its extra groups.
LEMMA RenewedOK ==
  ASSUME NEW row \in Row, now \in Nat
  PROVE  /\ Renewed(row) \in Row
         /\ Renewed(row).id = row.id /\ Renewed(row).plan = row.plan
         /\ Renewed(row).extraGroups = row.extraGroups
         /\ Renewed(row).recurrence = row.recurrence
<1> DEFINE promo == AtLeastZero(row.promoLeft - 1)
           left == IF row.couponLeft > 0 THEN row.couponLeft - 1 ELSE row.couponLeft
           end == now + PeriodDays
<1>1. promo \in Nat
  BY DEF AtLeastZero, Row
<1>2. left \in Nat \cup {-1}
  BY DEF Row
<1>3. end \in Nat
  BY BillingAssumption
<1>4. Renewed(row) = [row EXCEPT !.status = "active", !.currentPeriodEnd = end,
                                 !.promoLeft = promo, !.couponLeft = left]
  BY DEF Renewed
<1> HIDE DEF promo, left, end
<1> QED  BY <1>1, <1>2, <1>3, <1>4 DEF Row, Status

\* The handler that Renew sends on has what it needs.
LEMMA RenewOK ==
  ASSUME IInv, NEW j \in Job, NEW n, NEW made, JobOK(j, n, made), NEW u \in User,
         NEW row \in Row, RowOK(row), row.id # 0,
         NEW pc, pc = IF DiscountJustEnded(row) THEN AmountOrWrite(row) ELSE "write"
  PROVE  /\ [j EXCEPT !.user = u, !.row = Renewed(row), !.pc = pc] \in Job
         /\ JobOK([j EXCEPT !.user = u, !.row = Renewed(row), !.pc = pc], n, made)
<1>1. /\ Renewed(row) \in Row
      /\ Renewed(row).id = row.id /\ Renewed(row).plan = row.plan
      /\ Renewed(row).extraGroups = row.extraGroups
      /\ Renewed(row).recurrence = row.recurrence
  BY RenewedOK DEF IInv, TypeOK
<1>2. pc \in {"amount", "write"} /\ (pc = "amount" => row.recurrence \in Recurrence)
  BY DEF AmountOrWrite, Row, Nullable
<1>3. [j EXCEPT !.user = u, !.row = Renewed(row), !.pc = pc] \in Job
  BY <1>1, <1>2 DEF Job, PC, Nullable
<1>4. JobOK([j EXCEPT !.user = u, !.row = Renewed(row), !.pc = pc], n, made)
  BY <1>1, <1>2 DEF Job, JobOK, RowOK, UserSteps, PlanSteps, RowSteps, ChargeSteps, EntrySteps
<1> QED  BY <1>3, <1>4

LEMMA LoadSubscriptionKeeps ==
  ASSUME IInv, NEW t \in Task, LoadSubscription(t)
  PROVE  IInv'
<1> DEFINE k == job[t].entry
<1>1. job[t] \in Job /\ JobOK(job[t], Len(payments), Made) /\ job[t].pc = "load"
  BY TheJob DEF LoadSubscription, At
<1>2. UNCHANGED <<now, database, cielo>>
  BY DEF LoadSubscription
<1>3. payments[k].sub # 0
  <2>1. k \in 1..Len(payments)
    BY <1>1 DEF JobOK, EntrySteps
  <2>2. DOMAIN payments = 1..Len(payments)
    BY DEF IInv, TypeOK
  <2> QED  BY <2>1, <2>2 DEF IInv, PaymentsOK
<1>4. ASSUME NEW u \in User, sub[u].id = payments[k].sub, Renew(t, u, sub[u])
      PROVE  IInv'
  <2> DEFINE pc == IF DiscountJustEnded(sub[u]) THEN AmountOrWrite(sub[u]) ELSE "write"
             j == [job[t] EXCEPT !.user = u, !.row = Renewed(sub[u]), !.pc = pc]
  <2>1. sub[u] \in Row /\ RowOK(sub[u]) /\ sub[u].id # 0
    BY <1>3, <1>4 DEF IInv, TypeOK, RowsOK
  <2>2. j \in Job /\ JobOK(j, Len(payments), Made)
    BY <1>1, <2>1, RenewOK
  <2>3. job' = [job EXCEPT ![t] = j]
    BY <1>4 DEF Renew, IInv, TypeOK
  <2> QED  BY <1>2, <2>2, <2>3, OneJobChanges
<1> QED  BY <1>2, <1>4, FinishKeeps DEF LoadSubscription

LEMMA AbortKeeps ==
  ASSUME IInv, NEW t \in Task, Abort(t)
  PROVE  IInv'
  BY FinishKeeps DEF Abort

------------------------------------------------------------------------------
\* The steps that change a table, or a record at Cielo, as well as a handler.

\* A handler's locals stay good when payments are added and charges are made.
LEMMA JobOKGrows ==
  ASSUME NEW j \in Job, NEW m \in Nat, NEW n \in Nat, m <= n, NEW some, NEW more,
         some \subseteq more, JobOK(j, m, some)
  PROVE  JobOK(j, n, more)
  BY DEF JobOK, Job

LEMMA TablesChange ==
  ASSUME IInv, NEW t \in Task, NEW j \in Job, JobOK(j, Len(payments'), Made'),
         job' = [job EXCEPT ![t] = j],
         now' \in Nat, sub' \in [User -> Row], lastId' \in Nat,
         payments' \in Seq(PaymentRow), Len(payments) <= Len(payments'),
         activeGroups' \in [User -> SUBSET Group], redemptions' \in [Coupon -> Nat],
         recurrence' \in [Recurrence -> RecurrenceRecord],
         charge' \in [Charge -> ChargeRecord], Made \subseteq Made',
         RowsOK', PaymentsOK', ChargesOK'
  PROVE  IInv'
<1>1. job \in [Task -> Job] /\ job' \in [Task -> Job]
  BY DEF IInv, TypeOK
<1>2. TypeOK'
  BY <1>1 DEF TypeOK
<1>3. Len(payments) \in Nat /\ Len(payments') \in Nat
  BY DEF IInv, TypeOK
<1>4. \A s \in Task : JobOK(job'[s], Len(payments'), Made')
  <2> SUFFICES ASSUME NEW s \in Task
               PROVE  JobOK(job'[s], Len(payments'), Made')
    OBVIOUS
  <2>1. CASE s = t
    BY <1>1, <2>1
  <2>2. CASE s # t
    <3>1. job'[s] = job[s]
      BY <1>1, <2>2
    <3>2. job[s] \in Job /\ JobOK(job[s], Len(payments), Made)
      BY TheJob
    <3>3. JobOK(job[s], Len(payments'), Made')
      BY <1>3, <3>2, JobOKGrows
    <3> QED  BY <3>1, <3>3
  <2> QED  BY <2>1, <2>2
<1>5. JobsOK'
  BY <1>4 DEF JobsOK
<1> QED  BY <1>2, <1>5 DEF IInv

\* Only recurrences change beside the handler.
LEMMA RecurrencesChange ==
  ASSUME IInv, NEW t \in Task, NEW j \in Job, JobOK(j, Len(payments), Made),
         job' = [job EXCEPT ![t] = j], UNCHANGED <<now, database, charge>>,
         recurrence' \in [Recurrence -> RecurrenceRecord]
  PROVE  IInv'
<1>1. UNCHANGED <<sub, payments, charge>> /\ Made' = Made
  BY DEF database, Made
<1>2. RowsOK' /\ PaymentsOK' /\ ChargesOK'
  BY <1>1 DEF IInv, RowsOK, RowOK, PaymentsOK, ChargesOK
<1>3. Len(payments) <= Len(payments') /\ Made \subseteq Made'
  BY <1>1 DEF IInv, TypeOK
<1>4. JobOK(j, Len(payments'), Made')
  BY <1>1
<1> QED  BY <1>2, <1>3, <1>4, TablesChange DEF IInv, TypeOK, database

LEMMA DeactivateKeeps ==
  ASSUME IInv, NEW t \in Task, Deactivate(t)
  PROVE  IInv'
<1> DEFINE r == job[t].row.recurrence
           pc == CASE job[t].op = "checkout"            -> "validate"
                   [] job[t].op = "updatePaymentMethod" -> "replace"
                   [] job[t].op = "cancelSubscription"  -> "write"
           j == [job[t] EXCEPT !.pc = pc]
<1>1. job[t] \in Job /\ JobOK(job[t], Len(payments), Made) /\ job[t].pc = "deactivate"
  BY TheJob DEF Deactivate, At
<1>2. /\ r \in Recurrence
      /\ job[t].op \in {"checkout", "updatePaymentMethod", "cancelSubscription"}
  BY <1>1 DEF JobOK
<1>3. recurrence' \in [Recurrence -> RecurrenceRecord]
  <2>1. \/ recurrence' = recurrence
        \/ recurrence' = [recurrence EXCEPT ![r].state = "inactive"]
    BY DEF Deactivate
  <2> QED  BY <1>2, <2>1 DEF IInv, TypeOK, RecurrenceRecord
<1>4. j \in Job
  BY <1>1, <1>2 DEF Job, PC
<1>5. JobOK(j, Len(payments), Made)
  BY <1>1, <1>2 DEF Job, JobOK, UserSteps, PlanSteps, RowSteps, ChargeSteps, EntrySteps
<1>6. job' = [job EXCEPT ![t] = j] /\ UNCHANGED <<now, database, charge>>
  BY DEF Deactivate, Goto
<1> QED  BY <1>3, <1>4, <1>5, <1>6, RecurrencesChange

LEMMA ReplaceRecurrenceKeeps ==
  ASSUME IInv, NEW t \in Task, ReplaceRecurrence(t)
  PROVE  IInv'
<1> DEFINE row == job[t].row
<1>1. job[t] \in Job /\ JobOK(job[t], Len(payments), Made) /\ job[t].pc = "replace"
  BY TheJob DEF ReplaceRecurrence, At
<1>2. /\ row \in Row /\ row.plan \in Plan /\ job[t].user \in User
      /\ AmountOf(row) \in Nat /\ row.currentPeriodEnd \in Nat
  BY <1>1, AmountOfIsNat DEF Job, JobOK, Row, UserSteps, RowSteps
<1>3. UNCHANGED <<now, database, charge>>
  BY DEF ReplaceRecurrence
<1>4. CASE Finish(t) /\ UNCHANGED recurrence
  BY <1>3, <1>4, FinishKeeps DEF cielo
<1>5. ASSUME NEW r \in Recurrence, NEW o,
             recurrence' = [recurrence EXCEPT ![r] =
               [state |-> "active", user |-> job[t].user, amount |-> AmountOf(row),
                start |-> row.currentPeriodEnd]],
             IF o = "lost" THEN Finish(t)
             ELSE job' = [job EXCEPT ![t].pc = "write", ![t].row.recurrence = r]
      PROVE  IInv'
  <2>1. recurrence' \in [Recurrence -> RecurrenceRecord]
    BY <1>2, <1>5 DEF IInv, TypeOK, RecurrenceRecord, Nullable
  <2>2. CASE Finish(t)
    BY <1>3, <2>1, <2>2, NoJobOK, RecurrencesChange DEF Finish
  <2>3. CASE job' = [job EXCEPT ![t].pc = "write", ![t].row.recurrence = r]
    <3> DEFINE new == [row EXCEPT !.recurrence = r]
               j == [job[t] EXCEPT !.pc = "write", !.row = new]
    <3>1. /\ new \in Row /\ new.id = row.id /\ new.plan = row.plan
          /\ new.extraGroups = row.extraGroups
      BY <1>2 DEF Row, Nullable
    <3>2. j \in Job
      BY <1>1, <3>1 DEF Job, PC
    <3>3. JobOK(j, Len(payments), Made)
      <4> HIDE DEF new
      <4> QED  BY <1>1, <3>1 DEF Job, JobOK, UserSteps, PlanSteps, RowSteps, ChargeSteps,
                                 EntrySteps
    <3>4. job' = [job EXCEPT ![t] = j]
      BY <2>3 DEF IInv, TypeOK, Job
    <3> QED  BY <1>3, <2>1, <3>2, <3>3, <3>4, RecurrencesChange
  <2> QED  BY <1>5, <2>2, <2>3
<1> QED  BY <1>4, <1>5 DEF ReplaceRecurrence

LEMMA SetAmountKeeps ==
  ASSUME IInv, NEW t \in Task, SetAmount(t)
  PROVE  IInv'
<1> DEFINE row == job[t].row
           j == [job[t] EXCEPT !.pc = "write"]
<1>1. job[t] \in Job /\ JobOK(job[t], Len(payments), Made) /\ job[t].pc = "amount"
  BY TheJob DEF SetAmount, At
<1>2. row.recurrence \in Recurrence /\ AmountOf(row) \in Nat
  BY <1>1, AmountOfIsNat DEF Job, JobOK, RowSteps
<1>3. recurrence' \in [Recurrence -> RecurrenceRecord]
  <2>1. \/ recurrence' = recurrence
        \/ recurrence' = [recurrence EXCEPT ![row.recurrence].amount = AmountOf(row)]
    BY DEF SetAmount
  <2> QED  BY <1>2, <2>1 DEF IInv, TypeOK, RecurrenceRecord
<1>4. j \in Job
  BY <1>1 DEF Job, PC
<1>5. JobOK(j, Len(payments), Made)
  BY <1>1 DEF Job, JobOK, UserSteps, PlanSteps, RowSteps, ChargeSteps, EntrySteps
<1>6. UNCHANGED <<now, database, charge>> /\ (Goto(t, "write") \/ Finish(t))
  BY DEF SetAmount
<1>7. CASE Goto(t, "write")
  BY <1>3, <1>4, <1>5, <1>6, <1>7, RecurrencesChange DEF Goto
<1>8. CASE Finish(t)
  BY <1>3, <1>6, <1>8, NoJobOK, RecurrencesChange DEF Finish
<1> QED  BY <1>6, <1>7, <1>8

\* The row createCieloSubscription is about to insert.
LEMMA NewRowOK ==
  ASSUME now \in Nat, NEW j \in Job, j.plan \in Plan, NEW r \in Recurrence
  PROVE  /\ NewRow(j, r) \in Row
         /\ NewRow(j, r).plan = j.plan
         /\ NewRow(j, r).extraGroups = 0
         /\ NewRow(j, r).currentPeriodEnd \in Nat
<1>1. j.row \in Row /\ j.coupon \in Nullable(Coupon)
  BY DEF Job
<1>2. PeriodEnd(j) \in Nat
  BY <1>1, BillingAssumption DEF PeriodEnd, Row
<1>3. OrElse(PlanData[j.plan].promoMonths, 0) \in Nat
  BY PricingAssumption DEF OrElse, PlanRow, Nullable
<1>4. (IF j.coupon = Null THEN 0 ELSE CouponData[j.coupon].bonusGroups) \in Nat
  BY <1>1, PricingAssumption DEF CouponRow, Nullable
<1>5. (IF j.coupon = Null THEN 0 ELSE OrElse(CouponData[j.coupon].discountMonths, -1))
        \in Nat \cup {-1}
  BY <1>1, PricingAssumption DEF CouponRow, Nullable, OrElse
<1> HIDE DEF PeriodEnd, OrElse
<1> QED  BY <1>1, <1>2, <1>3, <1>4, <1>5 DEF NewRow, Row, Nullable, Status

LEMMA CreateSubscriptionKeeps ==
  ASSUME IInv, NEW t \in Task, CreateSubscription(t)
  PROVE  IInv'
<1> DEFINE old == job[t]
           afterwards == IF old.row.id # 0 THEN "delete" ELSE "insert"
<1>1. old \in Job /\ JobOK(old, Len(payments), Made) /\ old.pc = "create"
  BY TheJob DEF CreateSubscription, At
<1>2. old.plan \in Plan /\ old.user \in User /\ old.charge = Null
  BY <1>1 DEF JobOK, PlanSteps, UserSteps
<1>3. UNCHANGED <<now, database>>
  BY DEF CreateSubscription
<1>4. CASE Finish(t) /\ UNCHANGED cielo
  BY <1>3, <1>4, FinishKeeps
<1>5. ASSUME NEW r \in Recurrence, NEW o,
             recurrence' = [recurrence EXCEPT ![r] =
               [state |-> "active", user |-> old.user, amount |-> AmountOf(NewRow(old, r)),
                start |-> IF Deferred(old) THEN NewRow(old, r).currentPeriodEnd ELSE now]],
             \/ /\ UNCHANGED charge
                /\ IF o = "lost" THEN Finish(t)
                   ELSE job' = [job EXCEPT ![t].pc = afterwards, ![t].row = NewRow(old, r),
                                           ![t].replaced = old.row.id]
             \/ \E c \in Charge :
                  /\ charge[c].state = "absent"
                  /\ charge' = [charge EXCEPT ![c] =
                       [state |-> "paid", recurrence |-> r, attempts |-> 1, notified |-> 0]]
                  /\ IF o = "lost" THEN Finish(t)
                     ELSE job' = [job EXCEPT ![t].pc = afterwards,
                                    ![t].row = NewRow(old, r), ![t].charge = c,
                                    ![t].replaced = old.row.id]
      PROVE  IInv'
  <2> DEFINE new == NewRow(old, r)
  <2>1. /\ new \in Row /\ new.plan = old.plan /\ new.extraGroups = 0
        /\ new.currentPeriodEnd \in Nat
    BY <1>1, <1>2, NewRowOK DEF IInv, TypeOK
  <2>2. AmountOf(new) \in Nat
    BY <1>2, <2>1, AmountOfIsNat
  <2> HIDE DEF new
  <2>3. recurrence' \in [Recurrence -> RecurrenceRecord]
    BY <1>2, <1>5, <2>1, <2>2 DEF new, IInv, TypeOK, RecurrenceRecord, Nullable
  <2>4. old.row.id \in Nat /\ afterwards \in PC
    BY <1>1 DEF Job, Row, PC
  <2>5. CASE UNCHANGED charge
    <3>1. CASE Finish(t)
      BY <1>3, <2>3, <2>5, <3>1, NoJobOK, RecurrencesChange DEF Finish
    <3>2. CASE job' = [job EXCEPT ![t].pc = afterwards, ![t].row = new,
                                  ![t].replaced = old.row.id]
      <4> DEFINE j == [old EXCEPT !.pc = afterwards, !.row = new, !.replaced = old.row.id]
      <4>1. j \in Job
        BY <1>1, <2>1, <2>4 DEF Job
      <4>2. JobOK(j, Len(payments), Made)
        BY <1>1, <1>2, <2>1 DEF Job, JobOK, UserSteps, PlanSteps, RowSteps, ChargeSteps,
                                EntrySteps, MAX_EXTRA_GROUPS
      <4>3. job' = [job EXCEPT ![t] = j]
        BY <3>2 DEF IInv, TypeOK
      <4> QED  BY <1>3, <2>3, <2>5, <4>1, <4>2, <4>3, RecurrencesChange
    <3>3. ASSUME NEW c \in Charge, charge[c].state = "absent",
                 charge' = [charge EXCEPT ![c] =
                   [state |-> "paid", recurrence |-> r, attempts |-> 1, notified |-> 0]]
          PROVE  FALSE
      <4>1. charge'[c].state = "paid"
        BY <3>3 DEF IInv, TypeOK
      <4> QED  BY <2>5, <3>3, <4>1
    <3> QED  BY <1>5, <3>1, <3>2, <3>3 DEF new
  <2> QED
    <3>1. SUFFICES ASSUME NEW c \in Charge,
                          charge[c].state = "absent",
                          charge' = [charge EXCEPT ![c] =
                            [state |-> "paid", recurrence |-> r, attempts |-> 1,
                             notified |-> 0]],
                          \/ Finish(t)
                          \/ job' = [job EXCEPT ![t].pc = afterwards, ![t].row = new,
                                       ![t].charge = c, ![t].replaced = old.row.id]
                   PROVE  IInv'
      BY <1>5, <2>5 DEF new
    <3>2. charge' \in [Charge -> ChargeRecord] /\ Made' = Made \cup {c}
      BY <3>1 DEF IInv, TypeOK, ChargeRecord, Nullable, Made
    <3>3. ChargesOK'
      BY <3>1, BillingAssumption DEF IInv, ChargesOK, TypeOK
    <3>4. UNCHANGED <<sub, payments>>
      BY <1>3 DEF database
    <3>5. RowsOK' /\ PaymentsOK' /\ Len(payments) <= Len(payments')
      BY <3>4 DEF IInv, RowsOK, RowOK, PaymentsOK, TypeOK
    <3>6. CASE Finish(t)
      BY <1>3, <2>3, <3>2, <3>3, <3>5, <3>6, NoJobOK, TablesChange
      DEF Finish, IInv, TypeOK, database
    <3>7. CASE job' = [job EXCEPT ![t].pc = afterwards, ![t].row = new, ![t].charge = c,
                                  ![t].replaced = old.row.id]
      <4> DEFINE j == [old EXCEPT !.pc = afterwards, !.row = new, !.charge = c,
                                  !.replaced = old.row.id]
      <4>1. j \in Job
        BY <1>1, <2>1, <2>4 DEF Job, Nullable
      <4>2. JobOK(j, Len(payments'), Made')
        BY <1>1, <1>2, <2>1, <3>2
        DEF Job, JobOK, UserSteps, PlanSteps, RowSteps, ChargeSteps, EntrySteps,
            MAX_EXTRA_GROUPS
      <4>3. job' = [job EXCEPT ![t] = j]
        BY <3>7 DEF IInv, TypeOK
      <4> QED  BY <1>3, <2>3, <3>2, <3>3, <3>5, <4>1, <4>2, <4>3, TablesChange
               DEF IInv, TypeOK, database
    <3> QED  BY <3>1, <3>6, <3>7
<1> QED
  <2>1. CASE "error" \in Outcomes /\ Finish(t) /\ UNCHANGED cielo
    BY <1>4, <2>1
  <2>2. CASE ~("error" \in Outcomes /\ Finish(t) /\ UNCHANGED cielo)
    BY <1>5, <2>2 DEF CreateSubscription
  <2> QED  BY <2>1, <2>2

\* Only subscriptions change beside the handler.
LEMMA SubscriptionsChange ==
  ASSUME IInv, NEW t \in Task, NEW j \in Job, JobOK(j, Len(payments), Made),
         job' = [job EXCEPT ![t] = j],
         UNCHANGED <<now, payments, activeGroups, redemptions, cielo>>,
         sub' \in [User -> Row], RowsOK', lastId' \in Nat
  PROVE  IInv'
<1>1. UNCHANGED <<payments, charge>> /\ Made' = Made
  BY DEF cielo, Made
<1>2. PaymentsOK' /\ ChargesOK'
  BY <1>1 DEF IInv, PaymentsOK, ChargesOK
<1>3. Len(payments) <= Len(payments') /\ Made \subseteq Made'
  BY <1>1 DEF IInv, TypeOK
<1>4. JobOK(j, Len(payments'), Made')
  BY <1>1
<1> QED  BY <1>2, <1>3, <1>4, TablesChange DEF IInv, TypeOK, cielo

LEMMA DeleteExistingKeeps ==
  ASSUME IInv, NEW t \in Task, DeleteExisting(t)
  PROVE  IInv'
<1> DEFINE j == [job[t] EXCEPT !.pc = "insert"]
<1>1. job[t] \in Job /\ JobOK(job[t], Len(payments), Made) /\ job[t].pc = "delete"
  BY TheJob DEF DeleteExisting, At
<1>2. sub' \in [User -> Row] /\ RowsOK'
  <2>1. sub' = sub \/ sub' = [sub EXCEPT ![job[t].user] = NoRow]
    BY DEF DeleteExisting
  <2> QED  BY <2>1, NoRowOK DEF IInv, TypeOK, RowsOK, RowOK
<1>3. j \in Job
  BY <1>1 DEF Job, PC
<1>4. JobOK(j, Len(payments), Made)
  BY <1>1 DEF Job, JobOK, UserSteps, PlanSteps, RowSteps, ChargeSteps, EntrySteps
<1>5. /\ job' = [job EXCEPT ![t] = j]
      /\ UNCHANGED <<now, lastId, payments, activeGroups, redemptions, cielo>>
  BY DEF DeleteExisting, Goto
<1> QED  BY <1>2, <1>3, <1>4, <1>5, SubscriptionsChange DEF IInv, TypeOK

LEMMA InsertRowKeeps ==
  ASSUME IInv, NEW t \in Task, InsertRow(t)
  PROVE  IInv'
<1> DEFINE u == job[t].user
           row == [job[t].row EXCEPT !.id = lastId + 1]
           pc == IF job[t].charge # Null THEN "record" ELSE "redeem"
           j == [job[t] EXCEPT !.row = row, !.pc = pc]
<1>1. job[t] \in Job /\ JobOK(job[t], Len(payments), Made) /\ job[t].pc = "insert"
  BY TheJob DEF InsertRow, At
<1>2. UNCHANGED <<now, payments, activeGroups, redemptions, cielo>>
  BY DEF InsertRow
<1>3. CASE sub[u].id # 0
  BY <1>2, <1>3, FinishKeeps DEF InsertRow, database
<1>4. CASE sub[u].id = 0
  <2>1. /\ row \in Row /\ row.id # 0 /\ row.plan \in Plan
        /\ row.extraGroups <= MAX_EXTRA_GROUPS /\ u \in User
    <3> DEFINE id == lastId + 1
    <3>1. id \in Nat /\ id # 0
      BY DEF IInv, TypeOK
    <3>2. /\ job[t].row \in Row /\ job[t].row.plan \in Plan
          /\ job[t].row.extraGroups <= MAX_EXTRA_GROUPS /\ u \in User
      BY <1>1 DEF Job, JobOK, UserSteps
    <3>3. row = [job[t].row EXCEPT !.id = id]
      OBVIOUS
    <3> HIDE DEF id, row
    <3> QED  BY <3>1, <3>2, <3>3 DEF Row
  <2>2. /\ sub' = [sub EXCEPT ![u] = row] /\ lastId' = lastId + 1
        /\ job' = [job EXCEPT ![t] = j]
    BY <1>4 DEF InsertRow, IInv, TypeOK
  <2> HIDE DEF row
  <2>3. sub' \in [User -> Row] /\ RowsOK' /\ lastId' \in Nat
    <3>1. sub' \in [User -> Row] /\ lastId' \in Nat
      BY <2>1, <2>2 DEF IInv, TypeOK
    <3>2. RowOK(row)
      BY <2>1 DEF RowOK
    <3>3. \A v \in User : RowOK(sub'[v])
      BY <2>2, <3>2 DEF IInv, TypeOK, RowsOK
    <3> QED  BY <3>1, <3>3 DEF RowsOK, RowOK
  <2>4. j \in Job
    BY <1>1, <2>1 DEF Job, PC
  <2>5. JobOK(j, Len(payments), Made)
    BY <1>1, <2>1 DEF Job, JobOK, UserSteps, PlanSteps, RowSteps, ChargeSteps, EntrySteps
  <2> QED  BY <1>2, <2>2, <2>3, <2>4, <2>5, SubscriptionsChange
<1> QED  BY <1>3, <1>4

\* An UPDATE of a row that exists writes the columns of the row the handler holds.
LEMMA WriteRowKeeps ==
  ASSUME IInv, NEW t \in Task, WriteRow(t)
  PROVE  IInv'
<1> DEFINE u == job[t].user
           new == Written(sub[u], job[t].row, job[t].op)
<1>1. job[t] \in Job /\ JobOK(job[t], Len(payments), Made) /\ job[t].pc = "write"
  BY TheJob DEF WriteRow, At
<1>2. /\ job[t].row \in Row /\ job[t].row.id # 0 /\ job[t].row.plan \in Plan
      /\ job[t].row.extraGroups <= MAX_EXTRA_GROUPS /\ u \in User
  BY <1>1 DEF Job, JobOK, UserSteps, RowSteps
<1>3. sub[u] \in Row /\ RowOK(sub[u])
  BY <1>2 DEF IInv, TypeOK, RowsOK
<1>4. CASE sub[u].id # job[t].row.id
  <2>1. UNCHANGED <<now, database, cielo>> /\ Finish(t)
    BY <1>4 DEF WriteRow, UpdateRow, database
  <2> QED  BY <2>1, FinishKeeps
<1>5. CASE sub[u].id = job[t].row.id
  <2>1. new \in Row
    BY <1>2, <1>3 DEF Written, Row, Status, Nullable
  <2>2. new.id = sub[u].id /\ new.plan \in Plan /\ new.extraGroups <= MAX_EXTRA_GROUPS
    BY <1>2, <1>3, <1>5 DEF Written, Row, RowOK
  <2>3. RowOK(new)
    BY <1>2, <1>5, <2>2 DEF RowOK
  <2>4. sub' = [sub EXCEPT ![u] = new]
    BY <1>5 DEF WriteRow, UpdateRow
  <2> HIDE DEF new
  <2>5. sub' \in [User -> Row] /\ RowsOK' /\ lastId' \in Nat
    BY <2>1, <2>3, <2>4 DEF IInv, TypeOK, RowsOK, RowOK, WriteRow
  <2>6. Finish(t) /\ UNCHANGED <<now, payments, activeGroups, redemptions, cielo>>
    BY DEF WriteRow
  <2> QED  BY <2>5, <2>6, NoJobOK, SubscriptionsChange DEF Finish
<1> QED  BY <1>4, <1>5

LEMMA SuspendKeeps ==
  ASSUME IInv, NEW t \in Task, Suspend(t)
  PROVE  IInv'
<1> DEFINE k == job[t].entry
<1>1. JobOK(job[t], Len(payments), Made) /\ job[t].pc = "suspend"
  BY TheJob DEF Suspend, At
<1>2. payments[k].sub # 0
  <2>1. k \in 1..Len(payments)
    BY <1>1 DEF JobOK, EntrySteps
  <2>2. DOMAIN payments = 1..Len(payments)
    BY DEF IInv, TypeOK
  <2> QED  BY <2>1, <2>2 DEF IInv, PaymentsOK
<1>3. sub' = [u \in User |-> IF sub[u].id = payments[k].sub
                             THEN [sub[u] EXCEPT !.status = "past_due"] ELSE sub[u]]
  BY DEF Suspend
<1>4. sub' \in [User -> Row]
  <2>1. \A row \in Row : [row EXCEPT !.status = "past_due"] \in Row
    BY DEF Row, Status
  <2> QED  BY <1>3, <2>1 DEF IInv, TypeOK
<1>5. RowsOK'
  <2>1. \A row \in Row : row.id # 0 /\ RowOK(row) => RowOK([row EXCEPT !.status = "past_due"])
    BY DEF Row, RowOK
  <2>2. \A u \in User : sub[u] \in Row /\ RowOK(sub[u])
    BY DEF IInv, TypeOK, RowsOK
  <2>3. \A u \in User : RowOK(sub'[u])
    BY <1>2, <1>3, <2>1, <2>2
  <2> QED  BY <2>3 DEF RowsOK, RowOK
<1>6. /\ UNCHANGED <<now, lastId, payments, activeGroups, redemptions, cielo>>
      /\ Finish(t)
  BY DEF Suspend
<1> QED  BY <1>4, <1>5, <1>6, NoJobOK, SubscriptionsChange DEF Finish, IInv, TypeOK

\* Only payments change beside the handler, and no charge leaves them.
LEMMA PaymentsChange ==
  ASSUME IInv, NEW t \in Task, NEW j \in Job, JobOK(j, Len(payments'), Made),
         job' = [job EXCEPT ![t] = j],
         UNCHANGED <<now, sub, lastId, activeGroups, redemptions, cielo>>,
         payments' \in Seq(PaymentRow), Len(payments) <= Len(payments'), PaymentsOK'
  PROVE  IInv'
<1>1. UNCHANGED <<sub, charge>> /\ Made' = Made
  BY DEF cielo, Made
<1>2. RowsOK' /\ ChargesOK'
  BY <1>1 DEF IInv, RowsOK, RowOK, ChargesOK
<1>3. JobOK(j, Len(payments'), Made')
  BY <1>1
<1> QED  BY <1>1, <1>2, <1>3, TablesChange DEF IInv, TypeOK, cielo

LEMMA PaymentAppended ==
  ASSUME IInv, NEW p \in PaymentRow, p.sub # 0, payments' = Append(payments, p)
  PROVE  /\ payments' \in Seq(PaymentRow) /\ PaymentsOK'
         /\ Len(payments) \in Nat /\ Len(payments') \in Nat /\ Len(payments) <= Len(payments')
<1>1. payments \in Seq(PaymentRow)
  BY DEF IInv, TypeOK
<1>2. /\ payments' \in Seq(PaymentRow)
      /\ Len(payments') = Len(payments) + 1 /\ Len(payments) \in Nat
      /\ \A k \in 1..Len(payments) : payments'[k] = payments[k]
      /\ payments'[Len(payments) + 1] = p
      /\ DOMAIN payments = 1..Len(payments)
      /\ DOMAIN payments' = 1..(Len(payments) + 1)
  BY <1>1
<1>3. \A k \in DOMAIN payments' : payments'[k].sub # 0
  BY <1>2 DEF IInv, PaymentsOK
<1> QED  BY <1>2, <1>3 DEF PaymentsOK

LEMMA PaymentUpdated ==
  ASSUME IInv, NEW k \in 1..Len(payments), NEW p \in PaymentRow, p.sub = payments[k].sub,
         payments' = [payments EXCEPT ![k] = p]
  PROVE  payments' \in Seq(PaymentRow) /\ PaymentsOK' /\ Len(payments') = Len(payments)
<1>1. payments \in Seq(PaymentRow)
  BY DEF IInv, TypeOK
<1>2. /\ payments' \in Seq(PaymentRow) /\ Len(payments') = Len(payments)
      /\ DOMAIN payments = 1..Len(payments) /\ DOMAIN payments' = 1..Len(payments)
  BY <1>1
<1>3. \A i \in DOMAIN payments' : payments'[i].sub # 0
  BY <1>2 DEF IInv, PaymentsOK
<1> QED  BY <1>2, <1>3 DEF PaymentsOK

LEMMA RecordPaymentKeeps ==
  ASSUME IInv, NEW t \in Task, RecordPayment(t)
  PROVE  IInv'
<1> DEFINE p == [sub |-> job[t].row.id, charge |-> job[t].charge, status |-> "paid",
                 retryCount |-> 0]
           j == [job[t] EXCEPT !.pc = "redeem"]
<1>1. job[t] \in Job /\ JobOK(job[t], Len(payments), Made) /\ job[t].pc = "record"
  BY TheJob DEF RecordPayment, At
<1>2. p \in PaymentRow /\ p.sub # 0
  BY <1>1 DEF Job, JobOK, Row, PaymentRow, RowSteps, Made
<1>3. payments' = Append(payments, p)
  BY DEF RecordPayment
<1> HIDE DEF p
<1>4. /\ payments' \in Seq(PaymentRow) /\ PaymentsOK'
      /\ Len(payments) \in Nat /\ Len(payments') \in Nat /\ Len(payments) <= Len(payments')
  BY <1>2, <1>3, PaymentAppended
<1>5. j \in Job
  BY <1>1 DEF Job, PC
<1>6. JobOK(j, Len(payments'), Made)
  BY <1>1 DEF Job, JobOK, UserSteps, PlanSteps, RowSteps, ChargeSteps, EntrySteps
<1>7. /\ job' = [job EXCEPT ![t] = j]
      /\ UNCHANGED <<now, sub, lastId, activeGroups, redemptions, cielo>>
  BY DEF RecordPayment, Goto
<1> QED  BY <1>4, <1>5, <1>6, <1>7, PaymentsChange

LEMMA MarkPaidKeeps ==
  ASSUME IInv, NEW t \in Task, MarkPaid(t)
  PROVE  IInv'
<1> DEFINE k == job[t].entry
           p == [payments[k] EXCEPT !.status = "paid"]
           j == [job[t] EXCEPT !.pc = "load"]
<1>1. job[t] \in Job /\ JobOK(job[t], Len(payments), Made) /\ job[t].pc = "markPaid"
  BY TheJob DEF MarkPaid, At
<1>2. k \in 1..Len(payments) /\ payments[k] \in PaymentRow
  BY <1>1, ThePayment DEF JobOK, EntrySteps, IInv, TypeOK
<1>3. p \in PaymentRow /\ p.sub = payments[k].sub
  BY <1>2 DEF PaymentRow
<1>4. payments' = [payments EXCEPT ![k] = p]
  BY DEF MarkPaid
<1> HIDE DEF p
<1>5. payments' \in Seq(PaymentRow) /\ PaymentsOK' /\ Len(payments') = Len(payments)
  BY <1>2, <1>3, <1>4, PaymentUpdated
<1>6. j \in Job
  BY <1>1 DEF Job, PC
<1>7. JobOK(j, Len(payments'), Made)
  BY <1>1, <1>5 DEF Job, JobOK, UserSteps, PlanSteps, RowSteps, ChargeSteps, EntrySteps
<1>8. /\ job' = [job EXCEPT ![t] = j]
      /\ UNCHANGED <<now, sub, lastId, activeGroups, redemptions, cielo>>
  BY DEF MarkPaid, Goto
<1>9. Len(payments) <= Len(payments')
  BY <1>5 DEF IInv, TypeOK
<1> QED  BY <1>5, <1>6, <1>7, <1>8, <1>9, PaymentsChange

LEMMA MarkFailedKeeps ==
  ASSUME IInv, NEW t \in Task, MarkFailed(t)
  PROVE  IInv'
<1> DEFINE k == job[t].entry
           n == job[t].count + 1
           p == [payments[k] EXCEPT !.status = "failed", !.retryCount = n]
           j == [job[t] EXCEPT !.pc = "suspend"]
<1>1. job[t] \in Job /\ JobOK(job[t], Len(payments), Made) /\ job[t].pc = "markFailed"
  BY TheJob DEF MarkFailed, At
<1>2. k \in 1..Len(payments) /\ payments[k] \in PaymentRow
  BY <1>1, ThePayment DEF JobOK, EntrySteps, IInv, TypeOK
<1>3. p \in PaymentRow /\ p.sub = payments[k].sub
  <2>1. n \in Nat
    BY <1>1 DEF Job
  <2> HIDE DEF n
  <2> QED  BY <1>2, <2>1 DEF PaymentRow
<1>4. payments' = [payments EXCEPT ![k] = p]
  BY <1>2 DEF MarkFailed, IInv, TypeOK
<1>5. /\ job' = [job EXCEPT ![t] = j] \/ job' = [job EXCEPT ![t] = NoJob]
      /\ UNCHANGED <<now, sub, lastId, activeGroups, redemptions, cielo>>
  BY DEF MarkFailed, Goto, Finish
<1> HIDE DEF p
<1>6. payments' \in Seq(PaymentRow) /\ PaymentsOK' /\ Len(payments') = Len(payments)
  BY <1>2, <1>3, <1>4, PaymentUpdated
<1>7. Len(payments) <= Len(payments')
  BY <1>6 DEF IInv, TypeOK
<1>8. j \in Job
  BY <1>1 DEF Job, PC
<1>9. JobOK(j, Len(payments'), Made)
  BY <1>1, <1>6 DEF Job, JobOK, UserSteps, PlanSteps, RowSteps, ChargeSteps, EntrySteps
<1> QED  BY <1>5, <1>6, <1>7, <1>8, <1>9, NoJobOK, PaymentsChange

LEMMA RecordNewPaymentKeeps ==
  ASSUME IInv, NEW t \in Task, RecordNewPayment(t)
  PROVE  IInv'
<1> DEFINE row == job[t].row
           p == [sub |-> row.id, charge |-> job[t].charge,
                 status |-> IF isPaid(job[t].state) THEN "paid" ELSE "failed",
                 retryCount |-> 0]
           pc == IF DiscountJustEnded(row) THEN AmountOrWrite(row) ELSE "write"
           j == [job[t] EXCEPT !.user = job[t].user, !.row = Renewed(row), !.pc = pc]
<1>1. job[t] \in Job /\ JobOK(job[t], Len(payments), Made) /\ job[t].pc = "recordNew"
  BY TheJob DEF RecordNewPayment, At
<1>2. /\ row \in Row /\ RowOK(row) /\ row.id # 0
      /\ job[t].user \in User /\ job[t].charge \in Charge
  BY <1>1 DEF Job, JobOK, RowOK, UserSteps, RowSteps, ChargeSteps, Made
<1>3. p \in PaymentRow /\ p.sub # 0
  BY <1>2 DEF PaymentRow, Row
<1>4. payments' = Append(payments, p)
  BY DEF RecordNewPayment
<1>5. /\ job' = [job EXCEPT ![t] = j] \/ job' = [job EXCEPT ![t] = NoJob]
      /\ UNCHANGED <<now, sub, lastId, activeGroups, redemptions, cielo>>
  BY DEF RecordNewPayment, Renew, Finish, IInv, TypeOK
<1> HIDE DEF p
<1>6. /\ payments' \in Seq(PaymentRow) /\ PaymentsOK'
      /\ Len(payments) \in Nat /\ Len(payments') \in Nat /\ Len(payments) <= Len(payments')
  BY <1>3, <1>4, PaymentAppended
<1>7. JobOK(job[t], Len(payments'), Made)
  BY <1>1, <1>6, JobOKGrows
<1>8. j \in Job /\ JobOK(j, Len(payments'), Made)
  BY <1>1, <1>2, <1>7, RenewOK
<1> QED  BY <1>5, <1>6, <1>8, NoJobOK, PaymentsChange

LEMMA RedeemKeeps ==
  ASSUME IInv, NEW t \in Task, Redeem(t)
  PROVE  IInv'
<1>1. UNCHANGED <<sub, payments, charge>> /\ Made' = Made
  BY DEF Redeem, cielo, Made
<1>2. RowsOK' /\ PaymentsOK' /\ ChargesOK'
  BY <1>1 DEF IInv, RowsOK, RowOK, PaymentsOK, ChargesOK
<1>3. redemptions' \in [Coupon -> Nat]
  <2> DEFINE c == job[t].row.coupon
  <2>1. redemptions' = redemptions \/ (c # Null /\ redemptions' = [redemptions EXCEPT ![c] = @ + 1])
    BY DEF Redeem
  <2>2. c \in Nullable(Coupon)
    BY TheJob DEF Job, Row
  <2> HIDE DEF c
  <2> QED  BY <2>1, <2>2 DEF Nullable, IInv, TypeOK
<1>4. Len(payments) <= Len(payments') /\ Made \subseteq Made'
  BY <1>1 DEF IInv, TypeOK
<1> QED  BY <1>1, <1>2, <1>3, <1>4, NoJobOK, TablesChange
         DEF Redeem, Finish, IInv, TypeOK, cielo

LEMMA AddGroupKeeps ==
  ASSUME IInv, NEW t \in Task, AddGroup(t)
  PROVE  IInv'
<1>1. UNCHANGED <<sub, payments, charge>> /\ Made' = Made
  BY DEF AddGroup, cielo, Made
<1>2. RowsOK' /\ PaymentsOK' /\ ChargesOK'
  BY <1>1 DEF IInv, RowsOK, RowOK, PaymentsOK, ChargesOK
<1>3. activeGroups' \in [User -> SUBSET Group]
  <2>1. job[t].group \in Group
    BY TheJob DEF AddGroup, At, JobOK
  <2> QED  BY <2>1 DEF AddGroup, IInv, TypeOK
<1>4. Len(payments) <= Len(payments') /\ Made \subseteq Made'
  BY <1>1 DEF IInv, TypeOK
<1> QED  BY <1>1, <1>2, <1>3, <1>4, NoJobOK, TablesChange
         DEF AddGroup, Finish, IInv, TypeOK, cielo

------------------------------------------------------------------------------
\* The steps that start a handler on a charge, and those of Cielo and of the clock.

\* A charge that was made keeps its recurrence, whatever becomes of it.
LEMMA ChargesChange ==
  ASSUME IInv, NEW t \in Task, NEW j \in Job, JobOK(j, Len(payments), Made'),
         job' = [job EXCEPT ![t] = j], UNCHANGED <<now, database, recurrence>>,
         charge' \in [Charge -> ChargeRecord], Made \subseteq Made', ChargesOK'
  PROVE  IInv'
<1>1. UNCHANGED <<sub, payments>>
  BY DEF database
<1>2. RowsOK' /\ PaymentsOK' /\ Len(payments) <= Len(payments')
  BY <1>1 DEF IInv, RowsOK, RowOK, PaymentsOK, TypeOK
<1>3. JobOK(j, Len(payments'), Made')
  BY <1>1
<1> QED  BY <1>2, <1>3, TablesChange DEF IInv, TypeOK, database

LEMMA DeliverPaymentKeeps ==
  ASSUME IInv, NEW t \in Task, NEW c \in Charge, DeliverPayment(t, c)
  PROVE  IInv'
<1> DEFINE j == [NoJob EXCEPT !.pc = "lookup", !.op = "payment", !.charge = c,
                              !.state = charge[c].state]
<1>1. charge \in [Charge -> ChargeRecord] /\ charge[c].state \in {"pending", "denied", "paid"}
  BY DEF DeliverPayment, IInv, TypeOK, ChargeRecord
<1>2. charge' \in [Charge -> ChargeRecord]
  BY <1>1 DEF DeliverPayment, ChargeRecord
<1>3. \A d \in Charge : /\ charge'[d].state = charge[d].state
                        /\ charge'[d].recurrence = charge[d].recurrence
  BY <1>1 DEF DeliverPayment, ChargeRecord
<1>4. Made' = Made /\ ChargesOK' /\ c \in Made
  BY <1>1, <1>3 DEF Made, IInv, ChargesOK
<1>5. j \in Job
  BY <1>1, NoRowOK DEF NoJob, Job, PC, Op, Nullable
<1>6. JobOK(j, Len(payments), Made')
  BY <1>4, NoRowOK DEF NoJob, JobOK, RowOK, UserSteps, PlanSteps, RowSteps, ChargeSteps,
                       EntrySteps
<1>7. job' = [job EXCEPT ![t] = j] /\ UNCHANGED <<now, database, recurrence>>
  BY DEF DeliverPayment, Start
<1> QED  BY <1>2, <1>4, <1>5, <1>6, <1>7, ChargesChange

\* No handler takes part in these steps.
LEMMA WorldKeeps ==
  ASSUME IInv, UNCHANGED <<sub, payments, job>>, now' \in Nat, lastId' \in Nat,
         activeGroups' \in [User -> SUBSET Group], redemptions' \in [Coupon -> Nat],
         recurrence' \in [Recurrence -> RecurrenceRecord],
         charge' \in [Charge -> ChargeRecord], Made \subseteq Made', ChargesOK'
  PROVE  IInv'
<1>1. TypeOK'
  BY DEF IInv, TypeOK
<1>2. RowsOK' /\ PaymentsOK'
  BY DEF IInv, RowsOK, RowOK, PaymentsOK
<1>3. \A t \in Task : JobOK(job[t], Len(payments), Made')
  BY TheJob, JobOKGrows DEF IInv, TypeOK
<1>4. JobsOK'
  BY <1>3 DEF JobsOK
<1> QED  BY <1>1, <1>2, <1>4 DEF IInv

LEMMA DeactivateGroupKeeps ==
  ASSUME IInv, NEW t \in Task, NEW u \in User, NEW g \in Group, DeactivateGroup(t, u, g)
  PROVE  IInv'
<1>1. activeGroups' \in [User -> SUBSET Group]
  BY DEF DeactivateGroup, IInv, TypeOK
<1>2. Made' = Made /\ ChargesOK'
  BY DEF DeactivateGroup, cielo, IInv, Made, ChargesOK
<1> QED  BY <1>1, <1>2, WorldKeeps DEF DeactivateGroup, cielo, IInv, TypeOK

LEMMA ChargeRecurrenceKeeps ==
  ASSUME IInv, NEW r \in Recurrence, ChargeRecurrence(r)
  PROVE  IInv'
<1>1. PICK c \in Charge, outcome \in {"pending", "denied", "paid"} :
        /\ charge[c].state = "absent"
        /\ charge' = [charge EXCEPT ![c] =
             [state |-> outcome, recurrence |-> r, attempts |-> 1, notified |-> 0]]
  BY DEF ChargeRecurrence
<1>2. charge \in [Charge -> ChargeRecord] /\ charge' \in [Charge -> ChargeRecord]
  BY <1>1 DEF IInv, TypeOK, ChargeRecord, Nullable
<1>3. Made \subseteq Made' /\ ChargesOK'
  BY <1>1, <1>2, BillingAssumption DEF Made, IInv, ChargesOK
<1> QED  BY <1>2, <1>3, WorldKeeps DEF ChargeRecurrence, database, IInv, TypeOK

LEMMA RetryChargeKeeps ==
  ASSUME IInv, NEW c \in Charge, RetryCharge(c)
  PROVE  IInv'
<1> DEFINE n == charge[c].attempts + 1
<1>1. PICK outcome \in {"denied", "paid"} :
        charge' = [charge EXCEPT ![c] = [charge[c] EXCEPT !.state = outcome, !.attempts = n]]
  BY DEF RetryCharge, IInv, TypeOK
<1>2. charge \in [Charge -> ChargeRecord] /\ charge[c] \in ChargeRecord
  BY DEF IInv, TypeOK
<1>3. [charge[c] EXCEPT !.state = outcome, !.attempts = n] \in ChargeRecord
  <2>1. n \in Nat
    BY <1>2 DEF ChargeRecord
  <2> HIDE DEF n
  <2> QED  BY <1>2, <2>1 DEF ChargeRecord
<1>4. charge' \in [Charge -> ChargeRecord]
  BY <1>1, <1>2, <1>3
<1>5. charge[c].state # "absent"
  BY DEF RetryCharge
<1>6. Made \subseteq Made' /\ ChargesOK'
  BY <1>1, <1>2, <1>5 DEF Made, IInv, ChargesOK, ChargeRecord
<1> QED  BY <1>4, <1>6, WorldKeeps DEF RetryCharge, database, IInv, TypeOK

LEMMA CloseRecurrenceKeeps ==
  ASSUME IInv, NEW r \in Recurrence, CloseRecurrence(r)
  PROVE  IInv'
<1>1. recurrence' \in [Recurrence -> RecurrenceRecord]
  BY DEF CloseRecurrence, IInv, TypeOK, RecurrenceRecord
<1>2. Made' = Made /\ ChargesOK'
  BY DEF CloseRecurrence, IInv, Made, ChargesOK
<1> QED  BY <1>1, <1>2, WorldKeeps DEF CloseRecurrence, database, IInv, TypeOK

LEMMA TickKeeps ==
  ASSUME IInv, Tick
  PROVE  IInv'
<1>1. Made' = Made /\ ChargesOK'
  BY DEF Tick, cielo, IInv, Made, ChargesOK
<1>2. now' \in Nat
  BY DEF Tick, IInv, TypeOK
<1> QED  BY <1>1, <1>2, WorldKeeps DEF Tick, cielo, database, IInv, TypeOK

------------------------------------------------------------------------------
LEMMA InitEstablishes == Init => IInv
<1> SUFFICES ASSUME Init PROVE IInv
  OBVIOUS
<1>1. TypeOK
  BY NoRowOK, NoJobOK DEF Init, TypeOK, RecurrenceRecord, ChargeRecord, Nullable
<1>2. RowsOK /\ PaymentsOK /\ ChargesOK
  BY NoRowOK DEF Init, RowsOK, PaymentsOK, ChargesOK
<1>3. JobsOK
  BY NoJobOK DEF Init, JobsOK
<1> QED  BY <1>1, <1>2, <1>3 DEF IInv

LEMMA BeginKeeps ==
  ASSUME IInv, NEW t \in Task, Begin(t)
  PROVE  IInv'
<1>1. PICK u \in User :
        \/ \E p \in Plan, k \in Nullable(Coupon) : StartTrial(t, u, p, k) \/ Checkout(t, u, p, k)
        \/ UpdatePaymentMethod(t, u)
        \/ \E p \in Plan : ChangePlan(t, u, p)
        \/ \E n \in Counts : PurchaseExtraGroups(t, u, n) \/ RemoveExtraGroups(t, u, n)
        \/ CancelSubscription(t, u)
        \/ \E g \in Group : ActivateGroup(t, u, g) \/ DeactivateGroup(t, u, g)
  BY DEF Begin
<1> QED  BY <1>1, StartTrialKeeps, CheckoutKeeps, UpdatePaymentMethodKeeps, ChangePlanKeeps,
            PurchaseExtraGroupsKeeps, RemoveExtraGroupsKeeps, CancelSubscriptionKeeps,
            ActivateGroupKeeps, DeactivateGroupKeeps

LEMMA ContinueKeeps ==
  ASSUME IInv, NEW t \in Task, Continue(t)
  PROVE  IInv'
  BY ReadExistingKeeps, DeactivateKeeps, ValidateCouponKeeps, CreateSubscriptionKeeps,
     DeleteExistingKeeps, InsertRowKeeps, RecordPaymentKeeps, RedeemKeeps,
     ReplaceRecurrenceKeeps, CheckGroupsKeeps, SetAmountKeeps, WriteRowKeeps, CheckLimitKeeps,
     AddGroupKeeps, LookupPaymentKeeps, MarkPaidKeeps, LoadSubscriptionKeeps, MarkFailedKeeps,
     SuspendKeeps, FindSubscriptionKeeps, RecordNewPaymentKeeps
  DEF Continue

LEMMA NextKeeps == IInv /\ [Next]_vars => IInv'
<1> SUFFICES ASSUME IInv, [Next]_vars PROVE IInv'
  OBVIOUS
<1>1. CASE World
  BY <1>1, ChargeRecurrenceKeeps, CloseRecurrenceKeeps, RetryChargeKeeps, TickKeeps DEF World
<1>2. ASSUME NEW t \in Task, Begin(t) PROVE IInv'
  BY <1>2, BeginKeeps
<1>3. ASSUME NEW t \in Task, Deliver(t) PROVE IInv'
  BY <1>3, DeliverPaymentKeeps, DeliverClosureKeeps DEF Deliver
<1>4. ASSUME NEW t \in Task, Continue(t) PROVE IInv'
  BY <1>4, ContinueKeeps
<1>5. ASSUME NEW t \in Task, Abort(t) PROVE IInv'
  BY <1>5, AbortKeeps
<1>6. CASE UNCHANGED vars
  <2>1. Made' = Made
    BY <1>6 DEF vars, Made
  <2> QED  BY <1>6, <2>1, WorldKeeps DEF vars, IInv, TypeOK, ChargesOK
<1> QED  BY <1>1, <1>2, <1>3, <1>4, <1>5, <1>6 DEF Next

\* The invariant of every behaviour, from which the theorems below are read off.
LEMMA Invariance == Spec => []IInv
  BY InitEstablishes, NextKeeps, PTL DEF Spec

\* Every variable keeps its type, for all values of the constants; above all, every
\* amount Cielo is told to charge is a number of cents, because no handler computes
\* one from a row without a plan.
THEOREM TypeCorrect == Spec => []TypeOK
<1>1. IInv => TypeOK
  BY DEF IInv
<1> QED  BY <1>1, Invariance, PTL

\* No interleaving of requests and webhooks, lost answers and deaths of handlers takes
\* a subscription past MAX_EXTRA_GROUPS: a handler writes the count it checked.
THEOREM ExtraGroupsNeverExceedTheCap == Spec => []ExtraGroupsCapped
<1>1. IInv => ExtraGroupsCapped
  BY DEF IInv, RowsOK, RowOK, ExtraGroupsCapped
<1> QED  BY <1>1, Invariance, PTL

------------------------------------------------------------------------------
(***************************************************************************)
(* Who pays for what                                                       *)
(*                                                                         *)
(* A row, a recurrence and a payment belong to one user, but a handler     *)
(* brings them together from what it read at different times: the charge a *)
(* webhook names, the payment row found for it, the subscription found for *)
(* either.  The invariant says whose each of them is, for the tables and   *)
(* for the locals of every step; it stays true because ids are never given *)
(* twice, and because recurrences keep their user and charges their        *)
(* recurrence.                                                             *)
(***************************************************************************)
Owned(r, u) == r \in Recurrence /\ recurrence[r].state # "absent" /\ recurrence[r].user = u
Payer(c, u) == c \in Made /\ Owned(charge[c].recurrence, u)

\* The row with this id is, as long as there is one, of the user who paid charge c.
Credits(id, c) ==
  /\ id # 0 /\ id <= lastId /\ c \in Made
  /\ \A u \in User : sub[u].id = id => Payer(c, u)

\* A row that may be u's: whoever never paid has no more than a trial.
Terms(u, row) ==
  HasPaid(u) \/ (row.status # "active" /\ row.currentPeriodEnd <= now + TrialDays)

LinksOK ==
  \A c \in Made : /\ charge[c].recurrence \in Recurrence
                  /\ recurrence[charge[c].recurrence].state # "absent"

OwnersOK ==
  \A u \in User :
    /\ sub[u].id <= lastId
    /\ \A v \in User : sub[v].id = sub[u].id /\ sub[u].id # 0 => v = u
    /\ sub[u].recurrence # Null => Owned(sub[u].recurrence, u)
    /\ Terms(u, sub[u])

CreditsOK == \A k \in DOMAIN payments : Credits(payments[k].sub, payments[k].charge)

\* The handler that takes a step is one of those that have it.
OpOK(j) ==
  /\ j.pc = "groups" => j.op \in {"changePlan", "removeExtraGroups"}
  /\ j.pc = "replace" => j.op = "updatePaymentMethod"
  /\ j.pc = "amount" => j.op # "updatePaymentMethod"
  /\ j.pc \in ChargeSteps => j.op = "payment"

Facts(j) ==
  /\ j.row.id <= lastId
  /\ j.pc \in UserSteps => Terms(j.user, j.row)
  /\ j.pc \in {"delete", "insert"} =>
       /\ Owned(j.row.recurrence, j.user)
       /\ j.charge # Null => Payer(j.charge, j.user)
  /\ j.pc \in {"record", "recordNew"} => Credits(j.row.id, j.charge)
  /\ j.pc = "recordNew" => Payer(j.charge, j.user)
  /\ j.pc = "write" /\ j.op = "updatePaymentMethod" => Owned(j.row.recurrence, j.user)
  /\ j.pc \in ChargeSteps /\ j.state = "paid" => charge[j.charge].state = "paid"
  /\ j.pc \in {"markPaid", "load"} => j.state = "paid" /\ payments[j.entry].charge = j.charge
  /\ j.pc \in {"amount", "write"} /\ j.op = "payment" => HasPaid(j.user)

FactsOK == \A t \in Task : OpOK(job[t]) /\ Facts(job[t])

PInv == IInv /\ LinksOK /\ OwnersOK /\ CreditsOK /\ FactsOK

\* What no step takes back.
Grows ==
  /\ \A r \in Recurrence : recurrence[r].state # "absent" =>
       recurrence'[r].state # "absent" /\ recurrence'[r].user = recurrence[r].user
  /\ \A c \in Made :
       /\ c \in Made' /\ charge'[c].recurrence = charge[c].recurrence
       /\ charge[c].state = "paid" => charge'[c].state = "paid"
  /\ lastId' >= lastId /\ now' >= now
  /\ \A u \in User : sub'[u].id \in {0, sub[u].id} \/ sub'[u].id > lastId
  /\ \A k \in DOMAIN payments :
       /\ k \in DOMAIN payments' /\ payments'[k].charge = payments[k].charge
       /\ payments'[k].sub = payments[k].sub

LEMMA PTypes ==
  ASSUME IInv
  PROVE  /\ now \in Nat /\ lastId \in Nat /\ TrialDays \in Nat
         /\ \A u \in User : sub[u] \in Row /\ sub[u].id \in Nat /\ sub[u].currentPeriodEnd \in Nat
         /\ \A t \in Task : /\ job[t] \in Job /\ job[t].row \in Row /\ job[t].row.id \in Nat
                            /\ job[t].row.currentPeriodEnd \in Nat
         /\ DOMAIN payments = 1 .. Len(payments) /\ Len(payments) \in Nat
         /\ \A k \in DOMAIN payments :
              payments[k] \in PaymentRow /\ payments[k].sub \in Nat /\ payments[k].charge \in Charge
<1>1. \A u \in User : sub[u] \in Row
  BY DEF IInv, TypeOK
<1>2. \A t \in Task : job[t] \in Job
  BY DEF IInv, TypeOK
<1>3. \A k \in DOMAIN payments : payments[k] \in PaymentRow
  BY DEF IInv, TypeOK
<1>4. \A row \in Row : row.id \in Nat /\ row.currentPeriodEnd \in Nat
  BY DEF Row
<1>5. \A j \in Job : j.row \in Row
  BY DEF Job
<1>6. \A p \in PaymentRow : p.sub \in Nat /\ p.charge \in Charge
  BY DEF PaymentRow
<1> QED BY <1>1, <1>2, <1>3, <1>4, <1>5, <1>6, BillingAssumption DEF IInv, TypeOK

LEMMA Stays ==
  ASSUME IInv, IInv', LinksOK, Grows
  PROVE  /\ \A r, u : Owned(r, u) => Owned(r, u)'
         /\ \A c, u : Payer(c, u) => Payer(c, u)'
         /\ \A u : HasPaid(u) => HasPaid(u)'
         /\ \A id \in Nat : \A c : Credits(id, c) => Credits(id, c)'
         /\ \A u, row : row.currentPeriodEnd \in Nat /\ Terms(u, row) => Terms(u, row)'
<1>1. \A r, u : Owned(r, u) => Owned(r, u)'
  BY DEF Grows, Owned
<1>2. \A c, u : Payer(c, u) => Payer(c, u)'
  BY <1>1 DEF Grows, Payer
<1>3. ASSUME NEW u, HasPaid(u) PROVE HasPaid(u)'
  <2>1. PICK c \in Charge :
          charge[c].state = "paid" /\ recurrence[charge[c].recurrence].user = u
    BY <1>3 DEF HasPaid
  <2>2. c \in Made
    BY <2>1 DEF Made
  <2>3. charge'[c].state = "paid" /\ recurrence'[charge'[c].recurrence].user = u
    BY <2>1, <2>2 DEF LinksOK, Grows
  <2> QED BY <2>3 DEF HasPaid
<1>4. ASSUME NEW id \in Nat, NEW c, Credits(id, c) PROVE Credits(id, c)'
  <2>1. /\ lastId \in Nat /\ lastId' \in Nat
        /\ \A u \in User : sub[u].id \in Nat /\ sub'[u].id \in Nat
    BY PTypes DEF IInv, TypeOK, Row
  <2>2. \A u \in User : sub'[u].id = id => sub[u].id = id
    BY <1>4, <2>1 DEF Credits, Grows
  <2> QED BY <1>2, <1>4, <2>1, <2>2 DEF Credits, Grows
<1>5. ASSUME NEW u, NEW row, row.currentPeriodEnd \in Nat, Terms(u, row) PROVE Terms(u, row)'
  <2>1. now \in Nat /\ now' \in Nat /\ TrialDays \in Nat /\ now' >= now
    BY BillingAssumption DEF IInv, TypeOK, Grows
  <2> QED BY <1>3, <1>5, <2>1 DEF Terms
<1> QED BY <1>1, <1>2, <1>3, <1>4, <1>5

\* A handler keeps what it knows through the steps of others.
LEMMA FactsGrow ==
  ASSUME PInv, IInv', Grows, NEW s \in Task, job'[s] = job[s]
  PROVE  (OpOK(job[s]) /\ Facts(job[s]))'
<1> DEFINE j == job[s]
<1>1. /\ j.row.id \in Nat /\ j.row.currentPeriodEnd \in Nat /\ lastId \in Nat /\ lastId' \in Nat
      /\ j.pc \in {"markPaid", "load"} => j.entry \in DOMAIN payments
      /\ j.pc \in ChargeSteps => j.charge \in Made
      /\ OpOK(j) /\ Facts(j)
  BY PTypes, TheJob DEF PInv, JobOK, EntrySteps, FactsOK, IInv, TypeOK
<1>2. OpOK(job[s])'
  BY <1>1 DEF OpOK
<1>3. Facts(job[s])'
  <2>1. j.row.id <= lastId' /\ (j.pc \in UserSteps => Terms(j.user, j.row)')
    BY <1>1, Stays DEF PInv, Facts, Grows
  <2>2. j.pc \in {"delete", "insert"} =>
          /\ Owned(j.row.recurrence, j.user)'
          /\ j.charge # Null => Payer(j.charge, j.user)'
    BY <1>1, Stays DEF PInv, Facts
  <2>3. /\ j.pc \in {"record", "recordNew"} => Credits(j.row.id, j.charge)'
        /\ j.pc = "recordNew" => Payer(j.charge, j.user)'
        /\ j.pc = "write" /\ j.op = "updatePaymentMethod" => Owned(j.row.recurrence, j.user)'
    BY <1>1, Stays DEF PInv, Facts
  <2>4. /\ j.pc \in ChargeSteps /\ j.state = "paid" => charge'[j.charge].state = "paid"
        /\ j.pc \in {"markPaid", "load"} =>
             j.state = "paid" /\ payments'[j.entry].charge = j.charge
        /\ j.pc \in {"amount", "write"} /\ j.op = "payment" => HasPaid(j.user)'
    BY <1>1, Stays DEF PInv, Facts, Grows
  <2> QED BY <2>1, <2>2, <2>3, <2>4 DEF Facts
<1> QED BY <1>2, <1>3

LEMMA Assemble ==
  ASSUME PInv, IInv', Grows, NEW t \in Task, \A s \in Task \ {t} : job'[s] = job[s],
         (OpOK(job[t]) /\ Facts(job[t]))', LinksOK', OwnersOK', CreditsOK'
  PROVE  PInv'
<1>1. \A s \in Task : (OpOK(job[s]) /\ Facts(job[s]))'
  BY FactsGrow
<1> QED BY <1>1 DEF PInv, FactsOK

\* The rows keep their users when they keep their ids and get no recurrence of another.
LEMMA OwnersStay ==
  ASSUME PInv, IInv', Grows,
         \A u \in User : /\ sub'[u].id \in {0, sub[u].id}
                         /\ sub'[u].recurrence # Null => Owned(sub[u].recurrence, u)'
                         /\ Terms(u, sub[u])'
  PROVE  OwnersOK'
<1>1. /\ lastId \in Nat /\ lastId' \in Nat /\ lastId' >= lastId
      /\ \A u \in User : sub[u].id \in Nat /\ sub[u].id <= lastId
  BY PTypes DEF PInv, IInv, TypeOK, OwnersOK, Grows
<1>2. \A u \in User : sub'[u].id <= lastId'
  BY <1>1
<1>3. \A u, v \in User : sub'[v].id = sub'[u].id /\ sub'[u].id # 0 => v = u
  BY DEF PInv, OwnersOK
<1> QED BY <1>2, <1>3 DEF OwnersOK

LEMMA TablesStay ==
  ASSUME PInv, IInv', Grows, UNCHANGED <<sub, payments>>
  PROVE  OwnersOK' /\ CreditsOK'
<1>1. \A u \in User :
        /\ sub[u].recurrence # Null => Owned(sub[u].recurrence, u)'
        /\ Terms(u, sub[u])'
  BY PTypes, Stays DEF PInv, OwnersOK
<1>2. OwnersOK'
  BY <1>1, OwnersStay
<1>3. CreditsOK'
  BY PTypes, Stays DEF PInv, CreditsOK
<1> QED BY <1>2, <1>3

\* A step of one handler that touches nothing else.
LEMMA JobStep ==
  ASSUME PInv, IInv', NEW t \in Task, NEW j, OpOK(j), Facts(j),
         job' = [job EXCEPT ![t] = j], UNCHANGED <<now, database, cielo>>
  PROVE  PInv'
<1>1. UNCHANGED <<now, sub, lastId, payments, recurrence, charge>>
  BY DEF database, cielo
<1>2. job'[t] = j /\ \A s \in Task \ {t} : job'[s] = job[s]
  BY DEF PInv, IInv, TypeOK
<1>3. Grows
  BY <1>1, PTypes DEF Grows, Made, PInv
<1>4. LinksOK'
  BY <1>1 DEF PInv, LinksOK, Made
<1>5. (OpOK(job[t]) /\ Facts(job[t]))'
  BY <1>1, <1>2 DEF OpOK, Facts, Owned, Payer, Credits, Terms, HasPaid, Made
<1>6. OwnersOK' /\ CreditsOK'
  BY <1>1, <1>3, TablesStay
<1> QED BY <1>2, <1>3, <1>4, <1>5, <1>6, Assemble

LEMMA IdleFacts == ASSUME IInv PROVE OpOK(NoJob) /\ Facts(NoJob)
BY DEF OpOK, Facts, NoJob, NoRow, UserSteps, ChargeSteps, IInv, TypeOK

LEMMA FinishStep ==
  ASSUME PInv, IInv', NEW t \in Task, Finish(t), UNCHANGED <<now, database, cielo>>
  PROVE  PInv'
BY IdleFacts, JobStep DEF Finish, PInv

\* A request starts with the row of its user, or with none.
LEMMA RequestFacts ==
  ASSUME PInv, NEW u \in User, NEW j, j.user = u,
         \/ j.row = NoRow
         \/ /\ j.row.id = sub[u].id /\ j.row.currentPeriodEnd = sub[u].currentPeriodEnd
            /\ j.row.status \in {sub[u].status, "canceled"},
         j.pc \notin ChargeSteps \cup {"delete", "insert", "record"},
         j.pc = "groups" => j.op \in {"changePlan", "removeExtraGroups"},
         j.pc = "replace" => j.op = "updatePaymentMethod",
         j.pc \in {"amount", "write"} => j.op \notin {"updatePaymentMethod", "payment"}
  PROVE  OpOK(j) /\ Facts(j)
<1>1. /\ sub[u].id <= lastId /\ Terms(u, sub[u])
      /\ lastId \in Nat /\ now \in Nat /\ TrialDays \in Nat
  BY PTypes DEF PInv, OwnersOK
<1>2. j.row.id <= lastId /\ Terms(u, j.row)
  BY <1>1 DEF Terms, NoRow
<1> QED BY <1>2 DEF OpOK, Facts, ChargeSteps

LEMMA BeginStep ==
  ASSUME PInv, IInv', NEW t \in Task, Begin(t)
  PROVE  PInv'
<1>1. PICK u \in User :
        \/ \E p \in Plan, k \in Nullable(Coupon) : StartTrial(t, u, p, k) \/ Checkout(t, u, p, k)
        \/ UpdatePaymentMethod(t, u)
        \/ \E p \in Plan : ChangePlan(t, u, p)
        \/ \E n \in Counts : PurchaseExtraGroups(t, u, n) \/ RemoveExtraGroups(t, u, n)
        \/ CancelSubscription(t, u)
        \/ \E g \in Group : ActivateGroup(t, u, g) \/ DeactivateGroup(t, u, g)
  BY DEF Begin
<1>2. sub[u] \in Row
  BY PTypes DEF PInv
<1>3. ASSUME NEW p \in Plan, NEW k \in Nullable(Coupon), StartTrial(t, u, p, k) PROVE PInv'
  <2> DEFINE j == [NoJob EXCEPT !.pc = "existing", !.op = "startTrial", !.user = u,
                                !.plan = p, !.coupon = k]
  <2>1. j.user = u /\ j.row = NoRow /\ j.pc = "existing"
    BY DEF NoJob
  <2>2. job' = [job EXCEPT ![t] = j] /\ UNCHANGED <<now, database, cielo>>
    BY <1>3 DEF StartTrial, Start
  <2> HIDE DEF j
  <2>3. OpOK(j) /\ Facts(j)
    BY <2>1, RequestFacts DEF ChargeSteps
  <2> QED BY <2>2, <2>3, JobStep
<1>4. ASSUME NEW p \in Plan, NEW k \in Nullable(Coupon), Checkout(t, u, p, k) PROVE PInv'
  <2> DEFINE stop == sub[u].status = "trialing" /\ sub[u].recurrence # Null
             j == [NoJob EXCEPT !.pc = IF stop THEN "deactivate" ELSE "validate",
                                !.op = "checkout", !.user = u, !.row = sub[u],
                                !.plan = p, !.coupon = k]
  <2>1. j.user = u /\ j.row = sub[u] /\ j.pc \in {"deactivate", "validate"}
    BY DEF NoJob
  <2>2. job' = [job EXCEPT ![t] = j] /\ UNCHANGED <<now, database, cielo>>
    BY <1>4 DEF Checkout, Start
  <2> HIDE DEF j
  <2>3. OpOK(j) /\ Facts(j)
    BY <2>1, RequestFacts DEF ChargeSteps
  <2> QED BY <2>2, <2>3, JobStep
<1>5. CASE UpdatePaymentMethod(t, u)
  <2> DEFINE j == [NoJob EXCEPT !.pc = IF sub[u].recurrence # Null THEN "deactivate"
                                       ELSE "replace",
                                !.op = "updatePaymentMethod", !.user = u, !.row = sub[u]]
  <2>1. /\ j.user = u /\ j.row = sub[u] /\ j.pc \in {"deactivate", "replace"}
        /\ j.op = "updatePaymentMethod"
    BY DEF NoJob
  <2>2. job' = [job EXCEPT ![t] = j] /\ UNCHANGED <<now, database, cielo>>
    BY <1>5 DEF UpdatePaymentMethod, Start
  <2> HIDE DEF j
  <2>3. OpOK(j) /\ Facts(j)
    BY <2>1, RequestFacts DEF ChargeSteps
  <2> QED BY <2>2, <2>3, JobStep
<1>6. ASSUME NEW p \in Plan, ChangePlan(t, u, p) PROVE PInv'
  <2> DEFINE row == [sub[u] EXCEPT !.plan = p]
             j == [NoJob EXCEPT !.pc = IF PlanData[p].groupLimit # Null THEN "groups"
                                       ELSE AmountOrWrite(row),
                                !.op = "changePlan", !.user = u, !.row = row]
  <2>1. /\ row.id = sub[u].id /\ row.currentPeriodEnd = sub[u].currentPeriodEnd
        /\ row.status = sub[u].status
    BY <1>2 DEF Row
  <2> HIDE DEF row
  <2>2. /\ j.user = u /\ j.row = row /\ j.op = "changePlan"
        /\ j.pc \in {"groups", "amount", "write"}
    BY DEF NoJob, AmountOrWrite
  <2>3. job' = [job EXCEPT ![t] = j] /\ UNCHANGED <<now, database, cielo>>
    BY <1>6 DEF ChangePlan, Start, row
  <2> HIDE DEF j
  <2>4. OpOK(j) /\ Facts(j)
    BY <2>1, <2>2, RequestFacts DEF ChargeSteps
  <2> QED BY <2>3, <2>4, JobStep
<1>7. ASSUME NEW n \in Counts, PurchaseExtraGroups(t, u, n) PROVE PInv'
  <2> DEFINE row == [sub[u] EXCEPT !.extraGroups = @ + n]
             j == [NoJob EXCEPT !.pc = AmountOrWrite(row), !.op = "purchaseExtraGroups",
                                !.user = u, !.row = row]
  <2>1. /\ row.id = sub[u].id /\ row.currentPeriodEnd = sub[u].currentPeriodEnd
        /\ row.status = sub[u].status
    BY <1>2 DEF Row
  <2> HIDE DEF row
  <2>2. /\ j.user = u /\ j.row = row /\ j.op = "purchaseExtraGroups"
        /\ j.pc \in {"amount", "write"}
    BY DEF NoJob, AmountOrWrite
  <2>3. job' = [job EXCEPT ![t] = j] /\ UNCHANGED <<now, database, cielo>>
    BY <1>7 DEF PurchaseExtraGroups, Start, row
  <2> HIDE DEF j
  <2>4. OpOK(j) /\ Facts(j)
    BY <2>1, <2>2, RequestFacts DEF ChargeSteps
  <2> QED BY <2>3, <2>4, JobStep
<1>8. ASSUME NEW n \in Counts, RemoveExtraGroups(t, u, n) PROVE PInv'
  <2> DEFINE row == [sub[u] EXCEPT !.extraGroups = @ - n]
             j == [NoJob EXCEPT !.pc = "groups", !.op = "removeExtraGroups", !.user = u,
                                !.row = row]
  <2>1. /\ row.id = sub[u].id /\ row.currentPeriodEnd = sub[u].currentPeriodEnd
        /\ row.status = sub[u].status
    BY <1>2 DEF Row
  <2> HIDE DEF row
  <2>2. j.user = u /\ j.row = row /\ j.op = "removeExtraGroups" /\ j.pc = "groups"
    BY DEF NoJob
  <2>3. job' = [job EXCEPT ![t] = j] /\ UNCHANGED <<now, database, cielo>>
    BY <1>8 DEF RemoveExtraGroups, Start, row
  <2> HIDE DEF j
  <2>4. OpOK(j) /\ Facts(j)
    BY <2>1, <2>2, RequestFacts DEF ChargeSteps
  <2> QED BY <2>3, <2>4, JobStep
<1>9. CASE CancelSubscription(t, u)
  <2> DEFINE row == [sub[u] EXCEPT !.status = "canceled"]
             j == [NoJob EXCEPT !.pc = IF sub[u].recurrence # Null THEN "deactivate"
                                       ELSE "write",
                                !.op = "cancelSubscription", !.user = u, !.row = row]
  <2>1. /\ row.id = sub[u].id /\ row.currentPeriodEnd = sub[u].currentPeriodEnd
        /\ row.status = "canceled"
    BY <1>2 DEF Row
  <2> HIDE DEF row
  <2>2. /\ j.user = u /\ j.row = row /\ j.op = "cancelSubscription"
        /\ j.pc \in {"deactivate", "write"}
    BY DEF NoJob
  <2>3. job' = [job EXCEPT ![t] = j] /\ UNCHANGED <<now, database, cielo>>
    BY <1>9 DEF CancelSubscription, Start, row
  <2> HIDE DEF j
  <2>4. OpOK(j) /\ Facts(j)
    BY <2>1, <2>2, RequestFacts DEF ChargeSteps
  <2> QED BY <2>3, <2>4, JobStep
<1>10. ASSUME NEW g \in Group, ActivateGroup(t, u, g) PROVE PInv'
  <2> DEFINE j == [NoJob EXCEPT !.pc = IF g \in activeGroups[u] THEN "add" ELSE "limit",
                                !.op = "activateGroup", !.user = u, !.group = g,
                                !.count = Cardinality(activeGroups[u])]
  <2>1. j.user = u /\ j.row = NoRow /\ j.pc \in {"add", "limit"}
    BY DEF NoJob
  <2>2. job' = [job EXCEPT ![t] = j] /\ UNCHANGED <<now, database, cielo>>
    BY <1>10 DEF ActivateGroup, Start
  <2> HIDE DEF j
  <2>3. OpOK(j) /\ Facts(j)
    BY <2>1, RequestFacts DEF ChargeSteps
  <2> QED BY <2>2, <2>3, JobStep
<1>11. ASSUME NEW g \in Group, DeactivateGroup(t, u, g) PROVE PInv'
  <2>1. UNCHANGED <<now, sub, lastId, payments, recurrence, charge, job>>
    BY <1>11 DEF DeactivateGroup, cielo
  <2> QED BY <2>1
       DEF PInv, LinksOK, OwnersOK, CreditsOK, FactsOK, OpOK, Facts, Owned, Payer, Credits,
           Terms, HasPaid, Made
<1> QED BY <1>1, <1>3, <1>4, <1>5, <1>6, <1>7, <1>8, <1>9, <1>10, <1>11

LEMMA DeliverClosureStep ==
  ASSUME PInv, IInv', NEW t \in Task, NEW r \in Recurrence, DeliverClosure(t, r)
  PROVE  PInv'
<1>1. PICK u \in User :
        job' = [job EXCEPT ![t] = [NoJob EXCEPT !.pc = "write", !.op = "closure",
                                                !.user = u, !.row = sub[u]]]
  BY DEF DeliverClosure, Start
<1> DEFINE j == [NoJob EXCEPT !.pc = "write", !.op = "closure", !.user = u, !.row = sub[u]]
<1>2. j.user = u /\ j.row = sub[u] /\ j.op = "closure" /\ j.pc = "write"
  BY DEF NoJob
<1>3. job' = [job EXCEPT ![t] = j] /\ UNCHANGED <<now, database, cielo>>
  BY <1>1 DEF DeliverClosure
<1> HIDE DEF j
<1>4. OpOK(j) /\ Facts(j)
  BY <1>2, RequestFacts DEF ChargeSteps
<1> QED BY <1>3, <1>4, JobStep

LEMMA GotoStep ==
  ASSUME PInv, IInv', NEW t \in Task, NEW pc, Goto(t, pc), UNCHANGED <<now, database, cielo>>,
         OpOK([job[t] EXCEPT !.pc = pc]), Facts([job[t] EXCEPT !.pc = pc])
  PROVE  PInv'
BY JobStep DEF Goto

\* What the handler that takes a step knows.
LEMMA MyFacts ==
  ASSUME PInv, NEW t \in Task
  PROVE  /\ job[t] \in Job /\ JobOK(job[t], Len(payments), Made)
         /\ OpOK(job[t]) /\ Facts(job[t])
BY TheJob DEF PInv, FactsOK

LEMMA ReadExistingStep ==
  ASSUME PInv, IInv', NEW t \in Task, ReadExisting(t)
  PROVE  PInv'
<1> DEFINE u == job[t].user
           j == [job[t] EXCEPT !.pc = "validate", !.row = sub[u]]
<1>1. u \in User /\ job[t] \in Job
  BY MyFacts DEF ReadExisting, At, JobOK, UserSteps
<1>2. UNCHANGED <<now, database, cielo>> /\ (Finish(t) \/ job' = [job EXCEPT ![t] = j])
  BY DEF ReadExisting, PInv, IInv, TypeOK
<1>3. CASE Finish(t)
  BY <1>2, <1>3, FinishStep
<1>4. CASE job' = [job EXCEPT ![t] = j]
  <2>1. j.user = u /\ j.row = sub[u] /\ j.pc = "validate"
    BY <1>1 DEF Job
  <2> HIDE DEF j
  <2>2. OpOK(j) /\ Facts(j)
    BY <1>1, <2>1, RequestFacts DEF ChargeSteps
  <2> QED BY <1>2, <1>4, <2>2, JobStep
<1> QED BY <1>2, <1>3, <1>4

LEMMA ValidateCouponStep ==
  ASSUME PInv, IInv', NEW t \in Task, ValidateCoupon(t)
  PROVE  PInv'
<1> DEFINE j == [job[t] EXCEPT !.pc = "create"]
<1>1. job[t] \in Job /\ OpOK(job[t]) /\ Facts(job[t]) /\ job[t].pc = "validate"
  BY MyFacts DEF ValidateCoupon, At
<1>2. j = [job[t] EXCEPT !.pc = "create"] /\ j.pc = "create" /\ j.user = job[t].user /\ j.row = job[t].row
  BY <1>1 DEF Job
<1> HIDE DEF j
<1>3. OpOK(j) /\ Facts(j)
  BY <1>1, <1>2 DEF OpOK, Facts, UserSteps, ChargeSteps
<1> QED BY <1>2, <1>3, GotoStep, FinishStep DEF ValidateCoupon

LEMMA CheckGroupsStep ==
  ASSUME PInv, IInv', NEW t \in Task, CheckGroups(t)
  PROVE  PInv'
<1> DEFINE pc == AmountOrWrite(job[t].row)
           j == [job[t] EXCEPT !.pc = pc]
<1>1. job[t] \in Job /\ OpOK(job[t]) /\ Facts(job[t]) /\ job[t].pc = "groups"
  BY MyFacts DEF CheckGroups, At
<1>2. /\ j = [job[t] EXCEPT !.pc = pc] /\ j.pc = pc /\ pc \in {"amount", "write"}
      /\ j.user = job[t].user /\ j.row = job[t].row /\ j.op = job[t].op
  BY <1>1 DEF Job, AmountOrWrite
<1> HIDE DEF j
<1>3. OpOK(j) /\ Facts(j)
  BY <1>1, <1>2 DEF OpOK, Facts, UserSteps, ChargeSteps
<1> QED BY <1>2, <1>3, GotoStep, FinishStep DEF CheckGroups

LEMMA CheckLimitStep ==
  ASSUME PInv, IInv', NEW t \in Task, CheckLimit(t)
  PROVE  PInv'
<1> DEFINE j == [job[t] EXCEPT !.pc = "add"]
<1>1. job[t] \in Job /\ OpOK(job[t]) /\ Facts(job[t]) /\ job[t].pc = "limit"
  BY MyFacts DEF CheckLimit, At
<1>2. j = [job[t] EXCEPT !.pc = "add"] /\ j.pc = "add" /\ j.user = job[t].user /\ j.row = job[t].row
  BY <1>1 DEF Job
<1> HIDE DEF j
<1>3. OpOK(j) /\ Facts(j)
  BY <1>1, <1>2 DEF OpOK, Facts, UserSteps, ChargeSteps
<1> QED BY <1>2, <1>3, GotoStep, FinishStep DEF CheckLimit

LEMMA LookupPaymentStep ==
  ASSUME PInv, IInv', NEW t \in Task, LookupPayment(t)
  PROVE  PInv'
<1>1. /\ job[t] \in Job /\ OpOK(job[t]) /\ Facts(job[t]) /\ job[t].pc = "lookup"
      /\ job \in [Task -> Job] /\ UNCHANGED <<now, database, cielo>>
  BY MyFacts DEF LookupPayment, At, PInv, IInv, TypeOK
<1>2. \/ Finish(t) \/ Goto(t, "find")
      \/ \E k \in DOMAIN payments :
           /\ payments[k].charge = job[t].charge
           /\ \/ job[t].state = "paid" /\ job' = [job EXCEPT ![t].pc = "markPaid", ![t].entry = k]
              \/ job' = [job EXCEPT ![t].pc = "markFailed", ![t].entry = k,
                                    ![t].count = payments[k].retryCount]
  <2>1. CASE {k \in DOMAIN payments : payments[k].charge = job[t].charge} = {}
    BY <2>1 DEF LookupPayment
  <2>2. CASE {k \in DOMAIN payments : payments[k].charge = job[t].charge} # {}
    BY <2>2 DEF LookupPayment
  <2> QED BY <2>1, <2>2
<1>3. CASE Finish(t)
  BY <1>1, <1>3, FinishStep
<1>4. CASE Goto(t, "find")
  <2> DEFINE j == [job[t] EXCEPT !.pc = "find"]
  <2>1. /\ j = [job[t] EXCEPT !.pc = "find"] /\ j.pc = "find" /\ j.user = job[t].user
        /\ j.row = job[t].row /\ j.op = job[t].op /\ j.charge = job[t].charge
        /\ j.state = job[t].state
    BY <1>1 DEF Job
  <2> HIDE DEF j
  <2>2. OpOK(j) /\ Facts(j)
    BY <1>1, <2>1 DEF OpOK, Facts, UserSteps, ChargeSteps
  <2> QED BY <1>1, <1>4, <2>1, <2>2, GotoStep
<1>5. ASSUME NEW k \in DOMAIN payments, payments[k].charge = job[t].charge,
             job[t].state = "paid", job' = [job EXCEPT ![t].pc = "markPaid", ![t].entry = k]
      PROVE  PInv'
  <2> DEFINE j == [job[t] EXCEPT !.pc = "markPaid", !.entry = k]
  <2>1. job' = [job EXCEPT ![t] = j]
    BY <1>1, <1>5
  <2>2. /\ j.pc = "markPaid" /\ j.entry = k /\ j.user = job[t].user
        /\ j.row = job[t].row /\ j.op = job[t].op /\ j.charge = job[t].charge
        /\ j.state = job[t].state
    BY <1>1 DEF Job
  <2> HIDE DEF j
  <2>3. OpOK(j) /\ Facts(j)
    BY <1>1, <1>5, <2>2 DEF OpOK, Facts, UserSteps, ChargeSteps
  <2> QED BY <1>1, <2>1, <2>3, JobStep
<1>6. ASSUME NEW k \in DOMAIN payments,
             job' = [job EXCEPT ![t].pc = "markFailed", ![t].entry = k,
                                ![t].count = payments[k].retryCount]
      PROVE  PInv'
  <2> DEFINE j == [job[t] EXCEPT !.pc = "markFailed", !.entry = k,
                                 !.count = payments[k].retryCount]
  <2>1. job' = [job EXCEPT ![t] = j]
    BY <1>1, <1>6
  <2>2. /\ j.pc = "markFailed" /\ j.user = job[t].user
        /\ j.row = job[t].row /\ j.op = job[t].op /\ j.charge = job[t].charge
        /\ j.state = job[t].state
    BY <1>1 DEF Job
  <2> HIDE DEF j
  <2>3. OpOK(j) /\ Facts(j)
    BY <1>1, <2>2 DEF OpOK, Facts, UserSteps, ChargeSteps
  <2> QED BY <1>1, <2>1, <2>3, JobStep
<1> QED BY <1>2, <1>3, <1>4, <1>5, <1>6

LEMMA FindSubscriptionStep ==
  ASSUME PInv, IInv', NEW t \in Task, FindSubscription(t)
  PROVE  PInv'
<1> DEFINE c == job[t].charge
<1>1. /\ job[t] \in Job /\ OpOK(job[t]) /\ Facts(job[t]) /\ job[t].pc = "find"
      /\ c \in Made /\ charge[c].recurrence \in Recurrence /\ job \in [Task -> Job]
  BY MyFacts DEF FindSubscription, At, JobOK, ChargeSteps, PInv, LinksOK, IInv, TypeOK
<1>2. UNCHANGED <<now, database, cielo>>
  BY DEF FindSubscription
<1>3. ASSUME NEW u \in User, sub[u].recurrence = charge[c].recurrence,
             job' = [job EXCEPT ![t].pc = "recordNew", ![t].user = u, ![t].row = sub[u]]
      PROVE  PInv'
  <2> DEFINE j == [job[t] EXCEPT !.pc = "recordNew", !.user = u, !.row = sub[u]]
  <2>1. job' = [job EXCEPT ![t] = j]
    BY <1>1, <1>3
  <2>2. /\ j.pc = "recordNew" /\ j.user = u /\ j.row = sub[u] /\ j.op = job[t].op
        /\ j.charge = c /\ j.state = job[t].state
    BY <1>1 DEF Job
  <2> HIDE DEF j
  <2>3. sub[u].recurrence # Null
    BY <1>1, <1>3, BillingAssumption
  <2>4. Owned(charge[c].recurrence, u) /\ Terms(u, sub[u]) /\ sub[u].id <= lastId
    BY <1>3, <2>3 DEF PInv, OwnersOK
  <2>5. sub[u].id # 0
    BY <2>3 DEF PInv, IInv, RowsOK, RowOK
  <2>6. Payer(c, u)
    BY <1>1, <2>4 DEF Payer
  <2>7. Credits(sub[u].id, c)
    BY <1>1, <2>4, <2>5, <2>6 DEF Credits, PInv, OwnersOK
  <2>8. OpOK(j) /\ Facts(j)
    BY <1>1, <2>2, <2>4, <2>6, <2>7 DEF OpOK, Facts, UserSteps, ChargeSteps
  <2> QED BY <1>2, <2>1, <2>8, JobStep
<1> QED BY <1>2, <1>3, FinishStep DEF FindSubscription

\* The row of one who has paid may be active for a period from today.
LEMMA RenewedFacts ==
  ASSUME PInv, NEW row \in Row, row.id <= lastId, NEW u, HasPaid(u), NEW j,
         j.user = u, j.row = Renewed(row), j.op = "payment", j.pc \in {"amount", "write"}
  PROVE  OpOK(j) /\ Facts(j)
<1>1. j.row.id <= lastId
  BY RenewedOK, PTypes DEF PInv
<1>2. Terms(j.user, j.row)
  BY DEF Terms
<1> QED BY <1>1, <1>2 DEF OpOK, Facts, ChargeSteps

LEMMA LoadSubscriptionStep ==
  ASSUME PInv, IInv', NEW t \in Task, LoadSubscription(t)
  PROVE  PInv'
<1> DEFINE k == job[t].entry
<1>1. /\ job[t] \in Job /\ OpOK(job[t]) /\ Facts(job[t]) /\ job[t].pc = "load"
      /\ k \in DOMAIN payments /\ job \in [Task -> Job]
  BY MyFacts, PTypes DEF LoadSubscription, At, JobOK, EntrySteps, PInv, IInv, TypeOK
<1>2. UNCHANGED <<now, database, cielo>>
  BY DEF LoadSubscription
<1>3. Credits(payments[k].sub, job[t].charge) /\ charge[job[t].charge].state = "paid"
  BY <1>1 DEF PInv, CreditsOK, Facts, ChargeSteps
<1>4. ASSUME NEW u \in User, sub[u].id = payments[k].sub, Renew(t, u, sub[u])
      PROVE  PInv'
  <2> DEFINE row == sub[u]
             pc == IF DiscountJustEnded(row) THEN AmountOrWrite(row) ELSE "write"
             j == [job[t] EXCEPT !.user = u, !.row = Renewed(row), !.pc = pc]
  <2>1. job' = [job EXCEPT ![t] = j]
    BY <1>1, <1>4 DEF Renew
  <2>2. pc \in {"amount", "write"}
    BY DEF AmountOrWrite
  <2>3. j.pc = pc /\ j.user = u /\ j.row = Renewed(row) /\ j.op = job[t].op
    BY <1>1 DEF Job
  <2> HIDE DEF j, pc
  <2>4. Payer(job[t].charge, u)
    BY <1>3, <1>4 DEF Credits
  <2>5. HasPaid(u)
    BY <1>3, <2>4 DEF HasPaid, Payer, Owned, Made
  <2>6. row \in Row /\ row.id <= lastId
    BY PTypes DEF PInv, OwnersOK
  <2>7. OpOK(j) /\ Facts(j)
    BY <1>1, <2>2, <2>3, <2>5, <2>6, RenewedFacts DEF OpOK, ChargeSteps
  <2> QED BY <1>2, <2>1, <2>7, JobStep
<1> QED BY <1>2, <1>4, FinishStep DEF LoadSubscription

LEMMA AbortStep ==
  ASSUME PInv, IInv', NEW t \in Task, Abort(t)
  PROVE  PInv'
BY FinishStep DEF Abort

------------------------------------------------------------------------------
\* The steps that change something at Cielo.
LEMMA CieloStep ==
  ASSUME PInv, IInv', UNCHANGED <<now, database>>,
         \A r \in Recurrence : recurrence[r].state # "absent" =>
           recurrence'[r].state # "absent" /\ recurrence'[r].user = recurrence[r].user,
         \A c \in Made : /\ c \in Made' /\ charge'[c].recurrence = charge[c].recurrence
                         /\ charge[c].state = "paid" => charge'[c].state = "paid"
  PROVE  Grows /\ OwnersOK' /\ CreditsOK'
<1>1. UNCHANGED <<now, sub, lastId, payments>>
  BY DEF database
<1>2. Grows
  BY <1>1, PTypes DEF Grows, PInv
<1> QED BY <1>1, <1>2, TablesStay

LEMMA RecurrencesStep ==
  ASSUME PInv, IInv', NEW t \in Task, \A s \in Task \ {t} : job'[s] = job[s],
         UNCHANGED <<now, database, charge>>,
         \A r \in Recurrence : recurrence[r].state # "absent" =>
           recurrence'[r].state # "absent" /\ recurrence'[r].user = recurrence[r].user,
         Grows => (OpOK(job[t]) /\ Facts(job[t]))'
  PROVE  PInv'
<1>1. Made' = Made
  BY DEF Made
<1>2. Grows /\ OwnersOK' /\ CreditsOK'
  BY <1>1, CieloStep
<1>3. LinksOK'
  BY <1>1 DEF PInv, LinksOK
<1> QED BY <1>2, <1>3, Assemble

LEMMA IdleLater ==
  ASSUME IInv', NEW t \in Task, job'[t] = NoJob
  PROVE  (OpOK(job[t]) /\ Facts(job[t]))'
<1>1. lastId' \in Nat
  BY DEF IInv, TypeOK
<1> QED BY <1>1 DEF OpOK, Facts, NoJob, NoRow, UserSteps, ChargeSteps

\* A handler goes on to a step of which no more is known than of the one before.
LEMMA GotoLater ==
  ASSUME PInv, IInv', Grows, NEW t \in Task, NEW pc, Goto(t, pc),
         pc \in UserSteps => job[t].pc \in UserSteps,
         pc \notin {"delete", "insert", "record", "recordNew"} \cup ChargeSteps,
         pc = "groups" => job[t].op \in {"changePlan", "removeExtraGroups"},
         pc = "replace" => job[t].op = "updatePaymentMethod",
         pc \in {"amount", "write"} => job[t].op # "updatePaymentMethod",
         pc \in {"amount", "write"} /\ job[t].op = "payment" => HasPaid(job[t].user)
  PROVE  (OpOK(job[t]) /\ Facts(job[t]))'
<1>1. /\ job[t] \in Job /\ OpOK(job[t]) /\ Facts(job[t]) /\ job \in [Task -> Job]
      /\ job[t].row.id \in Nat /\ job[t].row.currentPeriodEnd \in Nat
      /\ lastId \in Nat /\ lastId' \in Nat /\ lastId' >= lastId
  BY MyFacts, PTypes DEF PInv, IInv, TypeOK, Grows
<1>2. /\ job'[t].pc = pc /\ job'[t].user = job[t].user /\ job'[t].row = job[t].row
      /\ job'[t].op = job[t].op
  BY <1>1 DEF Goto, Job
<1>3. pc \in UserSteps => Terms(job[t].user, job[t].row)'
  BY <1>1, <1>2, Stays DEF PInv, Facts, Terms, HasPaid
<1>4. pc \in {"amount", "write"} /\ job[t].op = "payment" => HasPaid(job[t].user)'
  BY <1>1, <1>2, Stays DEF PInv, HasPaid
<1> QED BY <1>1, <1>2, <1>3, <1>4 DEF OpOK, Facts, Terms, HasPaid, ChargeSteps

LEMMA DeactivateStep ==
  ASSUME PInv, IInv', NEW t \in Task, Deactivate(t)
  PROVE  PInv'
<1> DEFINE pc == CASE job[t].op = "checkout"            -> "validate"
                   [] job[t].op = "updatePaymentMethod" -> "replace"
                   [] job[t].op = "cancelSubscription"  -> "write"
<1>1. /\ job[t] \in Job /\ OpOK(job[t]) /\ Facts(job[t]) /\ job[t].pc = "deactivate"
      /\ job[t].op \in {"checkout", "updatePaymentMethod", "cancelSubscription"}
      /\ recurrence \in [Recurrence -> RecurrenceRecord]
  BY MyFacts DEF Deactivate, At, JobOK, PInv, IInv, TypeOK
<1>2. Goto(t, pc) /\ UNCHANGED <<now, database, charge>>
  BY DEF Deactivate
<1>3. /\ pc \in {"validate", "replace", "write"}
      /\ pc = "replace" => job[t].op = "updatePaymentMethod"
      /\ pc = "write" => job[t].op = "cancelSubscription"
  BY <1>1
<1> HIDE DEF pc
<1>4. Grows => (OpOK(job[t]) /\ Facts(job[t]))'
  BY <1>1, <1>2, <1>3, GotoLater DEF UserSteps, ChargeSteps
<1>5. \A r \in Recurrence : recurrence[r].state # "absent" =>
        recurrence'[r].state # "absent" /\ recurrence'[r].user = recurrence[r].user
  <2>1. \/ recurrence' = recurrence
        \/ recurrence' = [recurrence EXCEPT ![job[t].row.recurrence].state = "inactive"]
    BY DEF Deactivate
  <2> QED BY <1>1, <2>1 DEF RecurrenceRecord
<1>6. \A s \in Task \ {t} : job'[s] = job[s]
  BY <1>2 DEF Goto, PInv, IInv, TypeOK
<1> QED BY <1>2, <1>4, <1>5, <1>6, RecurrencesStep

LEMMA SetAmountStep ==
  ASSUME PInv, IInv', NEW t \in Task, SetAmount(t)
  PROVE  PInv'
<1>1. /\ job[t] \in Job /\ OpOK(job[t]) /\ Facts(job[t]) /\ job[t].pc = "amount"
      /\ recurrence \in [Recurrence -> RecurrenceRecord] /\ job \in [Task -> Job]
  BY MyFacts DEF SetAmount, At, PInv, IInv, TypeOK
<1>2. (Goto(t, "write") \/ Finish(t)) /\ UNCHANGED <<now, database, charge>>
  BY DEF SetAmount
<1>3. Grows => (OpOK(job[t]) /\ Facts(job[t]))'
  <2>1. ASSUME Grows, Goto(t, "write") PROVE (OpOK(job[t]) /\ Facts(job[t]))'
    BY <1>1, <2>1, GotoLater DEF UserSteps, ChargeSteps, OpOK, Facts
  <2>2. ASSUME Finish(t) PROVE (OpOK(job[t]) /\ Facts(job[t]))'
    BY <1>1, <2>2, IdleLater DEF Finish
  <2> QED BY <1>2, <2>1, <2>2
<1>4. \A r \in Recurrence : recurrence[r].state # "absent" =>
        recurrence'[r].state # "absent" /\ recurrence'[r].user = recurrence[r].user
  <2>1. \/ recurrence' = recurrence
        \/ recurrence' = [recurrence EXCEPT ![job[t].row.recurrence].amount =
                            AmountOf(job[t].row)]
    BY DEF SetAmount
  <2> QED BY <1>1, <2>1 DEF RecurrenceRecord
<1>5. \A s \in Task \ {t} : job'[s] = job[s]
  BY <1>1, <1>2 DEF Goto, Finish
<1> QED BY <1>2, <1>3, <1>4, <1>5, RecurrencesStep

LEMMA ReplaceRecurrenceStep ==
  ASSUME PInv, IInv', NEW t \in Task, ReplaceRecurrence(t)
  PROVE  PInv'
<1>1. /\ job[t] \in Job /\ OpOK(job[t]) /\ Facts(job[t]) /\ job[t].pc = "replace"
      /\ job[t].user \in User /\ job[t].op = "updatePaymentMethod"
      /\ job[t].row \in Row /\ job[t].row.id \in Nat /\ job[t].row.currentPeriodEnd \in Nat
      /\ recurrence \in [Recurrence -> RecurrenceRecord] /\ job \in [Task -> Job]
      /\ lastId \in Nat /\ lastId' \in Nat
  BY MyFacts, PTypes DEF ReplaceRecurrence, At, OpOK, JobOK, UserSteps, PInv, IInv, TypeOK
<1>2. UNCHANGED <<now, database, charge>>
  BY DEF ReplaceRecurrence
<1>3. CASE Finish(t) /\ UNCHANGED recurrence
  BY <1>2, <1>3, FinishStep DEF cielo
<1>4. ASSUME NEW r \in Recurrence, NEW amount, NEW start, NEW o, recurrence[r].state = "absent",
             recurrence' = [recurrence EXCEPT ![r] =
               [state |-> "active", user |-> job[t].user, amount |-> amount, start |-> start]],
             IF o = "lost" THEN Finish(t)
             ELSE job' = [job EXCEPT ![t].pc = "write", ![t].row.recurrence = r]
      PROVE  PInv'
  <2>1. \A s \in Recurrence : recurrence[s].state # "absent" =>
          recurrence'[s].state # "absent" /\ recurrence'[s].user = recurrence[s].user
    BY <1>1, <1>4
  <2>2. ASSUME Grows, job' = [job EXCEPT ![t].pc = "write", ![t].row.recurrence = r]
        PROVE  (OpOK(job[t]) /\ Facts(job[t]))'
    <3> DEFINE new == [job[t].row EXCEPT !.recurrence = r]
    <3>1. job'[t] = [job[t] EXCEPT !.pc = "write", !.row = new]
      BY <1>1, <2>2 DEF Job
    <3>2. /\ new.id = job[t].row.id /\ new.recurrence = r /\ new.status = job[t].row.status
          /\ new.currentPeriodEnd = job[t].row.currentPeriodEnd
      BY <1>1 DEF Row
    <3>3. /\ job'[t].pc = "write" /\ job'[t].row = new /\ job'[t].user = job[t].user
          /\ job'[t].op = "updatePaymentMethod"
      BY <1>1, <3>1 DEF Job
    <3> HIDE DEF new
    <3>4. Owned(r, job[t].user)'
      BY <1>1, <1>4, <3>3 DEF Owned
    <3>5. Terms(job[t].user, job[t].row) /\ job[t].row.id <= lastId
      BY <1>1 DEF Facts, UserSteps
    <3>6. lastId' = lastId /\ now' = now
      BY <1>2 DEF database
    <3>7. HasPaid(job[t].user) => HasPaid(job[t].user)'
      BY <2>2, <3>3, Stays DEF PInv, HasPaid
    <3>8. Terms(job[t].user, job[t].row)'
      BY <3>2, <3>3, <3>5, <3>6, <3>7 DEF Terms, HasPaid
    <3> QED BY <3>2, <3>3, <3>4, <3>5, <3>6, <3>8 DEF OpOK, Facts, ChargeSteps, Owned
  <2>3. Grows => (OpOK(job[t]) /\ Facts(job[t]))'
    BY <1>1, <1>4, <2>2, IdleLater DEF Finish
  <2>4. \A s \in Task \ {t} : job'[s] = job[s]
    BY <1>1, <1>4 DEF Finish
  <2> QED BY <1>2, <2>1, <2>3, <2>4, RecurrencesStep
<1> QED BY <1>3, <1>4 DEF ReplaceRecurrence

LEMMA NewRowTerms ==
  ASSUME PInv, NEW j \in Job, NEW r, Deferred(j), j.row \in Row, Terms(j.user, j.row)
  PROVE  Terms(j.user, NewRow(j, r))
<1>1. now \in Nat /\ TrialDays \in Nat /\ j.row.currentPeriodEnd \in Nat
  BY PTypes DEF PInv, Row
<1>2. NewRow(j, r).status = "trialing" /\ NewRow(j, r).currentPeriodEnd = PeriodEnd(j)
  BY DEF NewRow
<1>3. HasPaid(j.user) \/ PeriodEnd(j) <= now + TrialDays
  BY <1>1 DEF Deferred, PeriodEnd, Terms
<1> QED BY <1>2, <1>3 DEF Terms

LEMMA CreateSubscriptionStep ==
  ASSUME PInv, IInv', NEW t \in Task, CreateSubscription(t)
  PROVE  PInv'
<1> DEFINE j == job[t]
           afterwards == IF j.row.id # 0 THEN "delete" ELSE "insert"
<1>1. /\ j \in Job /\ OpOK(j) /\ Facts(j) /\ j.pc = "create" /\ j.charge = Null
      /\ j.user \in User /\ j.row \in Row /\ j.row.id \in Nat
      /\ Terms(j.user, j.row) /\ j.row.id <= lastId
      /\ recurrence \in [Recurrence -> RecurrenceRecord] /\ job \in [Task -> Job]
      /\ charge \in [Charge -> ChargeRecord] /\ charge' \in [Charge -> ChargeRecord]
      /\ lastId \in Nat /\ now \in Nat
  BY MyFacts, PTypes
  DEF CreateSubscription, At, JobOK, UserSteps, PlanSteps, Facts, PInv, IInv, TypeOK
<1>2. UNCHANGED <<now, database>> /\ lastId' = lastId
  BY DEF CreateSubscription, database
<1>3. CASE Finish(t) /\ UNCHANGED cielo
  BY <1>2, <1>3, FinishStep
<1>4. ASSUME NEW r \in Recurrence, NEW o, recurrence[r].state = "absent",
             recurrence' = [recurrence EXCEPT ![r] =
               [state |-> "active", user |-> j.user, amount |-> AmountOf(NewRow(j, r)),
                start |-> IF Deferred(j) THEN NewRow(j, r).currentPeriodEnd ELSE now]],
             \/ /\ Deferred(j)
                /\ UNCHANGED charge
                /\ IF o = "lost" THEN Finish(t)
                   ELSE job' = [job EXCEPT ![t].pc = afterwards, ![t].row = NewRow(j, r),
                                           ![t].replaced = j.row.id]
             \/ /\ ~Deferred(j)
                /\ \E c \in Charge :
                     /\ charge[c].state = "absent"
                     /\ charge' = [charge EXCEPT ![c] =
                          [state |-> "paid", recurrence |-> r, attempts |-> 1,
                           notified |-> 0]]
                     /\ IF o = "lost" THEN Finish(t)
                        ELSE job' = [job EXCEPT ![t].pc = afterwards,
                                       ![t].row = NewRow(j, r), ![t].charge = c,
                                       ![t].replaced = j.row.id]
      PROVE  PInv'
  <2> DEFINE new == NewRow(j, r)
  <2>0. \/ charge' = charge
        \/ \E c \in Charge : /\ charge[c].state = "absent"
                             /\ charge' = [charge EXCEPT ![c] =
                                  [state |-> "paid", recurrence |-> r, attempts |-> 1,
                                   notified |-> 0]]
    BY <1>4
  <2>1. /\ \A s \in Recurrence : recurrence[s].state # "absent" =>
             recurrence'[s].state # "absent" /\ recurrence'[s].user = recurrence[s].user
        /\ recurrence'[r].state = "active" /\ recurrence'[r].user = j.user
    BY <1>1, <1>4
  <2>2. \A c \in Made : /\ c \in Made' /\ charge'[c].recurrence = charge[c].recurrence
                        /\ charge[c].state = "paid" => charge'[c].state = "paid"
    BY <1>1, <2>0 DEF Made
  <2>3. \A c \in Made' : c \in Made \/ charge'[c].recurrence = r
    BY <1>1, <2>0 DEF Made
  <2>4. Grows /\ OwnersOK' /\ CreditsOK'
    BY <1>2, <2>1, <2>2, CieloStep
  <2>5. LinksOK'
    BY <2>1, <2>2, <2>3 DEF PInv, LinksOK
  <2>6. new.id = 0 /\ new.recurrence = r /\ new.currentPeriodEnd \in Nat
    <3>1. PeriodEnd(j) \in Nat
      BY <1>1, BillingAssumption DEF PeriodEnd, Row
    <3> QED BY <3>1 DEF NewRow
  <2>7. Deferred(j) => Terms(j.user, new)
    BY <1>1, NewRowTerms
  <2> HIDE DEF new
  <2>8. \A s \in Task \ {t} : job'[s] = job[s]
    BY <1>1, <1>4 DEF Finish
  <2>9. CASE Finish(t)
    <3>1. (OpOK(job[t]) /\ Facts(job[t]))'
      BY <1>1, <2>9, IdleLater DEF Finish
    <3> QED BY <2>4, <2>5, <2>8, <3>1, Assemble
  <2>10. CASE Deferred(j) /\ job' = [job EXCEPT ![t].pc = afterwards, ![t].row = new,
                                                ![t].replaced = j.row.id]
    <3>1. /\ job'[t].pc \in {"delete", "insert"} /\ job'[t].row = new /\ job'[t].user = j.user
          /\ job'[t].charge = Null
      BY <1>1, <2>10 DEF Job
    <3>2. Owned(job[t].row.recurrence, job[t].user)'
      BY <1>1, <2>1, <2>6, <3>1 DEF Owned
    <3>3. Terms(job[t].user, job[t].row)'
      <4>1. ~HasPaid(j.user) => /\ new.status # "active"
                                /\ new.currentPeriodEnd <= now + TrialDays
        BY <2>7, <2>10 DEF Terms
      <4>2. HasPaid(j.user) =>
              \E c \in Charge : /\ charge'[c].state = "paid"
                                /\ recurrence'[charge'[c].recurrence].user = j.user
        <5>1. HasPaid(j.user) => HasPaid(j.user)'
          BY <2>4, <3>1, Stays DEF PInv, HasPaid
        <5> QED BY <3>1, <5>1 DEF HasPaid
      <4>3. now' = now
        BY <1>2
      <4> QED BY <3>1, <4>1, <4>2, <4>3 DEF Terms, HasPaid
    <3>4. (OpOK(job[t]) /\ Facts(job[t]))'
      BY <1>1, <1>2, <2>6, <2>10, <3>1, <3>2, <3>3 DEF OpOK, Facts, ChargeSteps
    <3> QED BY <2>4, <2>5, <2>8, <3>4, Assemble
  <2>11. ASSUME ~Deferred(j), NEW c \in Charge,
                charge' = [charge EXCEPT ![c] =
                  [state |-> "paid", recurrence |-> r, attempts |-> 1, notified |-> 0]],
                job' = [job EXCEPT ![t].pc = afterwards, ![t].row = new,
                                   ![t].charge = c, ![t].replaced = j.row.id]
         PROVE  PInv'
    <3>1. /\ job'[t].pc \in {"delete", "insert"} /\ job'[t].row = new /\ job'[t].user = j.user
          /\ job'[t].charge = c
      BY <1>1, <2>11 DEF Job
    <3>2. Owned(job[t].row.recurrence, job[t].user)'
      BY <1>1, <2>1, <2>6, <3>1 DEF Owned
    <3>3. charge'[c].state = "paid" /\ charge'[c].recurrence = r
      BY <1>1, <2>11
    <3>4. Payer(job[t].charge, job[t].user)'
      BY <1>1, <2>1, <3>1, <3>3 DEF Payer, Owned, Made
    <3>5. Terms(job[t].user, job[t].row)'
      BY <2>1, <3>1, <3>3 DEF Terms, HasPaid
    <3>6. (OpOK(job[t]) /\ Facts(job[t]))'
      BY <1>1, <1>2, <2>6, <3>1, <3>2, <3>4, <3>5 DEF OpOK, Facts, ChargeSteps
    <3> QED BY <2>4, <2>5, <2>8, <3>6, Assemble
  <2> QED BY <1>4, <2>9, <2>10, <2>11 DEF new
<1> QED BY <1>3, <1>4 DEF CreateSubscription

------------------------------------------------------------------------------
\* The steps that change a row of subscriptions.
LEMMA RowsStep ==
  ASSUME PInv, IInv', UNCHANGED <<now, payments, recurrence, charge>>, lastId' >= lastId,
         \A u \in User : sub'[u].id \in {0, sub[u].id} \/ sub'[u].id > lastId
  PROVE  Grows /\ LinksOK' /\ CreditsOK'
<1>1. Grows
  BY PTypes DEF PInv, Grows, Made
<1>2. LinksOK'
  BY DEF PInv, LinksOK, Made
<1>3. CreditsOK'
  BY <1>1, PTypes, Stays DEF PInv, CreditsOK
<1> QED BY <1>1, <1>2, <1>3

LEMMA DeleteExistingStep ==
  ASSUME PInv, IInv', NEW t \in Task, DeleteExisting(t)
  PROVE  PInv'
<1>1. /\ job[t] \in Job /\ OpOK(job[t]) /\ Facts(job[t]) /\ job[t].pc = "delete"
      /\ sub \in [User -> Row] /\ job \in [Task -> Job] /\ lastId \in Nat /\ now \in Nat
      /\ TrialDays \in Nat
  BY MyFacts, PTypes DEF DeleteExisting, At, PInv, IInv, TypeOK
<1>2. /\ UNCHANGED <<now, lastId, payments, recurrence, charge>>
      /\ \A u \in User : sub'[u] \in {sub[u], NoRow}
  BY <1>1 DEF DeleteExisting, cielo
<1>3. Grows /\ LinksOK' /\ CreditsOK'
  BY <1>1, <1>2, RowsStep DEF NoRow
<1>4. ASSUME NEW u \in User
      PROVE  /\ sub'[u].id \in {0, sub[u].id}
             /\ sub'[u].recurrence # Null => Owned(sub[u].recurrence, u)'
             /\ Terms(u, sub[u])'
  <2>1. CASE sub'[u] = sub[u]
    BY <1>2, <2>1 DEF PInv, OwnersOK, Owned, Terms, HasPaid
  <2>2. CASE sub'[u] = NoRow
    BY <1>1, <1>2, <2>2 DEF NoRow, Terms
  <2> QED BY <1>2, <2>1, <2>2
<1>5. OwnersOK'
  BY <1>3, <1>4, OwnersStay
<1>6. /\ job'[t].pc = "insert" /\ job'[t].user = job[t].user /\ job'[t].row = job[t].row
      /\ job'[t].op = job[t].op /\ job'[t].charge = job[t].charge
      /\ \A s \in Task \ {t} : job'[s] = job[s]
  BY <1>1 DEF DeleteExisting, Goto, Job
<1>7. (OpOK(job[t]) /\ Facts(job[t]))'
  BY <1>1, <1>2, <1>6
  DEF OpOK, Facts, Owned, Payer, Terms, HasPaid, Made, UserSteps, ChargeSteps
<1> QED BY <1>3, <1>5, <1>6, <1>7, Assemble

LEMMA InsertRowStep ==
  ASSUME PInv, IInv', NEW t \in Task, InsertRow(t)
  PROVE  PInv'
<1> DEFINE u == job[t].user
           row == [job[t].row EXCEPT !.id = lastId + 1]
<1>1. /\ job[t] \in Job /\ OpOK(job[t]) /\ Facts(job[t]) /\ job[t].pc = "insert" /\ u \in User
      /\ sub \in [User -> Row] /\ job \in [Task -> Job] /\ lastId \in Nat /\ now \in Nat
      /\ \A v \in User : sub[v].id \in Nat
  BY MyFacts, PTypes DEF InsertRow, At, JobOK, UserSteps, PInv, IInv, TypeOK
<1>2. UNCHANGED <<now, payments, recurrence, charge>>
  BY DEF InsertRow, cielo
<1>3. CASE Finish(t) /\ UNCHANGED <<sub, lastId>>
  BY <1>3, FinishStep DEF InsertRow, database
<1>4. ASSUME sub' = [sub EXCEPT ![u] = row], lastId' = lastId + 1,
             job' = [job EXCEPT ![t].row = row,
                                ![t].pc = IF job[t].charge # Null THEN "record" ELSE "redeem"]
      PROVE  PInv'
  <2>1. /\ row.id = lastId + 1 /\ row.recurrence = job[t].row.recurrence
        /\ row.status = job[t].row.status
        /\ row.currentPeriodEnd = job[t].row.currentPeriodEnd
    BY <1>1 DEF Job, Row
  <2> HIDE DEF row
  <2>2. sub'[u] = row /\ \A v \in User \ {u} : sub'[v] = sub[v]
    BY <1>1, <1>4
  <2>3. Grows /\ LinksOK' /\ CreditsOK'
    BY <1>1, <1>2, <1>4, <2>1, <2>2, RowsStep
  <2>4. Owned(row.recurrence, u) /\ Terms(u, row)
        /\ (job[t].charge # Null => Payer(job[t].charge, u))
    BY <1>1, <2>1 DEF Facts, Terms, UserSteps
  <2>5. OwnersOK'
    <3> SUFFICES ASSUME NEW v \in User
                 PROVE  /\ sub'[v].id <= lastId'
                        /\ \A w \in User : sub'[w].id = sub'[v].id /\ sub'[v].id # 0 => w = v
                        /\ sub'[v].recurrence # Null => Owned(sub[v].recurrence, v)'
                        /\ Terms(v, sub[v])'
      BY DEF OwnersOK
    <3>1. \A w \in User : sub[w].id <= lastId
      BY DEF PInv, OwnersOK
    <3>2. CASE v = u
      BY <1>1, <1>2, <1>4, <2>1, <2>2, <2>4, <3>1, <3>2 DEF Owned, Terms, HasPaid
    <3>3. CASE v # u
      BY <1>1, <1>2, <1>4, <2>1, <2>2, <3>1, <3>3
      DEF PInv, OwnersOK, Owned, Terms, HasPaid
    <3> QED BY <3>2, <3>3
  <2>6. /\ job'[t].row = row /\ job'[t].user = u /\ job'[t].op = job[t].op
        /\ job'[t].charge = job[t].charge
        /\ job'[t].pc = IF job[t].charge # Null THEN "record" ELSE "redeem"
        /\ \A s \in Task \ {t} : job'[s] = job[s]
    BY <1>1, <1>4 DEF Job
  <2>7. job[t].charge # Null => Credits(job[t].row.id, job[t].charge)'
    <3> SUFFICES ASSUME job[t].charge # Null
                 PROVE  Credits(job[t].row.id, job[t].charge)'
      OBVIOUS
    <3>1. \A v \in User : sub'[v].id = lastId + 1 => v = u
      BY <1>1, <2>2 DEF PInv, OwnersOK
    <3>2. Payer(job[t].charge, u)
      BY <2>4
    <3>3. Payer(job[t].charge, u)'
      BY <1>2, <2>6, <3>2 DEF Payer, Owned, Made
    <3>4. job'[t].row.id = lastId + 1 /\ job'[t].charge \in Made'
      BY <1>2, <2>1, <2>6, <3>2 DEF Payer, Made
    <3>5. \A v \in User : sub'[v].id = job'[t].row.id => v = job'[t].user
      BY <2>6, <3>1, <3>4
    <3>6. \A v \in User : sub'[v].id = job'[t].row.id => Payer(job[t].charge, v)'
      BY <2>6, <3>3, <3>5 DEF Payer, Owned
    <3> QED BY <1>1, <1>4, <3>4, <3>6 DEF Credits
  <2>8. (OpOK(job[t]) /\ Facts(job[t]))'
    <3>1. Terms(job[t].user, job[t].row)'
      BY <1>2, <2>4, <2>6 DEF Terms, HasPaid
    <3>2. job'[t].row.id <= lastId'
      BY <1>1, <1>4, <2>1, <2>6
    <3> QED BY <2>6, <2>7, <3>1, <3>2 DEF OpOK, Facts, ChargeSteps
  <2> QED BY <2>3, <2>5, <2>6, <2>8, Assemble
<1> QED BY <1>3, <1>4 DEF InsertRow

LEMMA WriteRowStep ==
  ASSUME PInv, IInv', NEW t \in Task, WriteRow(t)
  PROVE  PInv'
<1> DEFINE u == job[t].user
           op == job[t].op
           new == Written(sub[u], job[t].row, op)
<1>1. /\ job[t] \in Job /\ OpOK(job[t]) /\ Facts(job[t]) /\ job[t].pc = "write" /\ u \in User
      /\ sub \in [User -> Row] /\ job \in [Task -> Job] /\ lastId \in Nat
      /\ \A v \in User : sub[v].id \in Nat
  BY MyFacts, PTypes DEF WriteRow, At, JobOK, UserSteps, PInv, IInv, TypeOK
<1>2. UNCHANGED <<now, lastId, payments, recurrence, charge>> /\ Finish(t)
  BY DEF WriteRow, cielo
<1>3. /\ new.id = sub[u].id
      /\ op # "updatePaymentMethod" => new.recurrence = sub[u].recurrence
      /\ op = "updatePaymentMethod" => new.recurrence = job[t].row.recurrence
      /\ op # "payment" => /\ new.status \in {sub[u].status, "canceled"}
                           /\ new.currentPeriodEnd = sub[u].currentPeriodEnd
  BY <1>1 DEF Written, Row
<1>4. /\ \A v \in User \ {u} : sub'[v] = sub[v]
      /\ sub'[u] \in {sub[u], new}
  BY <1>1 DEF WriteRow, UpdateRow
<1> HIDE DEF new
<1>5. Grows /\ LinksOK' /\ CreditsOK'
  BY <1>1, <1>2, <1>3, <1>4, RowsStep
<1>6. /\ new.recurrence # Null => Owned(new.recurrence, u)
      /\ Terms(u, new)
  BY <1>1, <1>3 DEF Facts, Terms, PInv, OwnersOK
<1>7. ASSUME NEW v \in User
      PROVE  /\ sub'[v].id \in {0, sub[v].id}
             /\ sub'[v].recurrence # Null => Owned(sub[v].recurrence, v)'
             /\ Terms(v, sub[v])'
  <2>1. CASE sub'[v] = sub[v]
    BY <1>2, <2>1 DEF PInv, OwnersOK, Owned, Terms, HasPaid
  <2>2. CASE v = u /\ sub'[v] = new
    BY <1>2, <1>3, <1>6, <2>2 DEF Owned, Terms, HasPaid
  <2> QED BY <1>4, <2>1, <2>2
<1>8. OwnersOK'
  BY <1>5, <1>7, OwnersStay
<1>9. (OpOK(job[t]) /\ Facts(job[t]))' /\ \A s \in Task \ {t} : job'[s] = job[s]
  BY <1>1, <1>2, IdleLater DEF Finish
<1> QED BY <1>5, <1>8, <1>9, Assemble

LEMMA SuspendStep ==
  ASSUME PInv, IInv', NEW t \in Task, Suspend(t)
  PROVE  PInv'
<1>1. sub \in [User -> Row] /\ job \in [Task -> Job] /\ lastId \in Nat
  BY DEF PInv, IInv, TypeOK
<1>2. UNCHANGED <<now, lastId, payments, recurrence, charge>> /\ Finish(t)
  BY DEF Suspend, cielo
<1>3. \A u \in User : /\ sub'[u].id = sub[u].id /\ sub'[u].recurrence = sub[u].recurrence
                      /\ sub'[u].currentPeriodEnd = sub[u].currentPeriodEnd
                      /\ sub'[u].status \in {sub[u].status, "past_due"}
  BY <1>1 DEF Suspend, Row
<1>4. Grows /\ LinksOK' /\ CreditsOK'
  BY <1>1, <1>2, <1>3, RowsStep
<1>5. \A u \in User : /\ sub'[u].id \in {0, sub[u].id}
                      /\ sub'[u].recurrence # Null => Owned(sub[u].recurrence, u)'
                      /\ Terms(u, sub[u])'
  BY <1>2, <1>3 DEF PInv, OwnersOK, Owned, Terms, HasPaid
<1>6. OwnersOK'
  BY <1>4, <1>5, OwnersStay
<1>7. (OpOK(job[t]) /\ Facts(job[t]))' /\ \A s \in Task \ {t} : job'[s] = job[s]
  BY <1>1, <1>2, IdleLater DEF Finish
<1> QED BY <1>4, <1>6, <1>7, Assemble

------------------------------------------------------------------------------
\* The steps that add a payment, or change one.
LEMMA PaymentsStep ==
  ASSUME PInv, IInv', UNCHANGED <<now, sub, lastId, recurrence, charge>>,
         \A k \in DOMAIN payments :
           /\ k \in DOMAIN payments' /\ payments'[k].charge = payments[k].charge
           /\ payments'[k].sub = payments[k].sub,
         \A k \in DOMAIN payments' :
           k \in DOMAIN payments \/ Credits(payments'[k].sub, payments'[k].charge)
  PROVE  Grows /\ LinksOK' /\ OwnersOK' /\ CreditsOK'
<1>1. Grows
  BY PTypes DEF PInv, Grows, Made
<1>2. LinksOK' /\ OwnersOK'
  BY DEF PInv, LinksOK, OwnersOK, Made, Owned, Terms, HasPaid
<1>3. CreditsOK'
  BY DEF PInv, CreditsOK, Credits, Payer, Owned, Made
<1> QED BY <1>1, <1>2, <1>3

LEMMA AppendedStep ==
  ASSUME PInv, IInv', UNCHANGED <<now, sub, lastId, recurrence, charge>>, NEW p,
         payments' = Append(payments, p), Credits(p.sub, p.charge)
  PROVE  Grows /\ LinksOK' /\ OwnersOK' /\ CreditsOK'
<1>1. payments \in Seq(PaymentRow)
  BY DEF PInv, IInv, TypeOK
<1>2. /\ Len(payments) \in Nat
      /\ \A k \in 1..Len(payments) : payments'[k] = payments[k]
      /\ payments'[Len(payments) + 1] = p
      /\ DOMAIN payments = 1..Len(payments)
      /\ DOMAIN payments' = 1..(Len(payments) + 1)
  BY <1>1
<1>3. \A k \in DOMAIN payments' : k \in DOMAIN payments \/ payments'[k] = p
  BY <1>2
<1>4. \A k \in DOMAIN payments : k \in DOMAIN payments' /\ payments'[k] = payments[k]
  BY <1>2
<1> QED BY <1>3, <1>4, PaymentsStep

LEMMA UpdatedStep ==
  ASSUME PInv, IInv', UNCHANGED <<now, sub, lastId, recurrence, charge>>,
         NEW k \in DOMAIN payments, NEW p, p.sub = payments[k].sub,
         p.charge = payments[k].charge, payments' = [payments EXCEPT ![k] = p]
  PROVE  Grows /\ LinksOK' /\ OwnersOK' /\ CreditsOK'
<1>1. payments \in Seq(PaymentRow)
  BY DEF PInv, IInv, TypeOK
<1>2. /\ DOMAIN payments' = DOMAIN payments
      /\ \A i \in DOMAIN payments : payments'[i] = IF i = k THEN p ELSE payments[i]
  BY <1>1
<1> QED BY <1>2, PaymentsStep

LEMMA RecordPaymentStep ==
  ASSUME PInv, IInv', NEW t \in Task, RecordPayment(t)
  PROVE  PInv'
<1> DEFINE p == [sub |-> job[t].row.id, charge |-> job[t].charge, status |-> "paid",
                 retryCount |-> 0]
<1>1. /\ job[t] \in Job /\ OpOK(job[t]) /\ Facts(job[t]) /\ job[t].pc = "record"
      /\ job \in [Task -> Job]
  BY MyFacts DEF RecordPayment, At, PInv, IInv, TypeOK
<1>2. /\ UNCHANGED <<now, sub, lastId, recurrence, charge>>
      /\ payments' = Append(payments, p) /\ Goto(t, "redeem")
  BY DEF RecordPayment, cielo
<1>3. Credits(p.sub, p.charge)
  BY <1>1 DEF Facts
<1> HIDE DEF p
<1>4. Grows /\ LinksOK' /\ OwnersOK' /\ CreditsOK'
  BY <1>2, <1>3, AppendedStep
<1>5. (OpOK(job[t]) /\ Facts(job[t]))'
  BY <1>1, <1>2, <1>4, GotoLater DEF UserSteps, ChargeSteps
<1>6. \A s \in Task \ {t} : job'[s] = job[s]
  BY <1>1, <1>2 DEF Goto
<1> QED BY <1>4, <1>5, <1>6, Assemble

LEMMA MarkPaidStep ==
  ASSUME PInv, IInv', NEW t \in Task, MarkPaid(t)
  PROVE  PInv'
<1> DEFINE k == job[t].entry
           p == [payments[k] EXCEPT !.status = "paid"]
<1>1. /\ job[t] \in Job /\ OpOK(job[t]) /\ Facts(job[t]) /\ job[t].pc = "markPaid"
      /\ k \in DOMAIN payments /\ payments[k] \in PaymentRow /\ job \in [Task -> Job]
  BY MyFacts, PTypes DEF MarkPaid, At, JobOK, EntrySteps, PInv, IInv, TypeOK
<1>2. /\ UNCHANGED <<now, sub, lastId, recurrence, charge>>
      /\ payments' = [payments EXCEPT ![k] = p] /\ Goto(t, "load")
  BY DEF MarkPaid, cielo
<1>3. p.sub = payments[k].sub /\ p.charge = payments[k].charge
  BY <1>1 DEF PaymentRow
<1> HIDE DEF p
<1>4. Grows /\ LinksOK' /\ OwnersOK' /\ CreditsOK'
  BY <1>1, <1>2, <1>3, UpdatedStep
<1>5. /\ job'[t].pc = "load" /\ job'[t].row = job[t].row /\ job'[t].op = job[t].op
      /\ job'[t].charge = job[t].charge /\ job'[t].state = job[t].state
      /\ job'[t].entry = k /\ \A s \in Task \ {t} : job'[s] = job[s]
  BY <1>1, <1>2 DEF Goto, Job
<1>6. payments'[k].charge = payments[k].charge
  BY <1>1, <1>4 DEF Grows
<1>7. (OpOK(job[t]) /\ Facts(job[t]))'
  BY <1>1, <1>2, <1>5, <1>6 DEF OpOK, Facts, UserSteps, ChargeSteps
<1> QED BY <1>4, <1>5, <1>7, Assemble

LEMMA MarkFailedStep ==
  ASSUME PInv, IInv', NEW t \in Task, MarkFailed(t)
  PROVE  PInv'
<1> DEFINE k == job[t].entry
           n == job[t].count + 1
           p == [payments[k] EXCEPT !.status = "failed", !.retryCount = n]
<1>1. /\ job[t] \in Job /\ OpOK(job[t]) /\ Facts(job[t]) /\ job[t].pc = "markFailed"
      /\ k \in DOMAIN payments /\ payments[k] \in PaymentRow /\ job \in [Task -> Job]
      /\ payments \in Seq(PaymentRow)
  BY MyFacts, PTypes DEF MarkFailed, At, JobOK, EntrySteps, PInv, IInv, TypeOK
<1>2. /\ UNCHANGED <<now, sub, lastId, recurrence, charge>>
      /\ payments' = [payments EXCEPT ![k] = p] /\ (Goto(t, "suspend") \/ Finish(t))
  BY <1>1 DEF MarkFailed, cielo
<1>3. p.sub = payments[k].sub /\ p.charge = payments[k].charge
  BY <1>1 DEF PaymentRow
<1> HIDE DEF p
<1>4. Grows /\ LinksOK' /\ OwnersOK' /\ CreditsOK'
  BY <1>1, <1>2, <1>3, UpdatedStep
<1>5. (OpOK(job[t]) /\ Facts(job[t]))' /\ \A s \in Task \ {t} : job'[s] = job[s]
  <2>1. CASE Finish(t)
    BY <1>1, <2>1, IdleLater DEF Finish
  <2>2. CASE Goto(t, "suspend")
    <3>1. /\ job'[t].pc = "suspend" /\ job'[t].row = job[t].row /\ job'[t].op = job[t].op
          /\ job'[t].charge = job[t].charge /\ job'[t].state = job[t].state
          /\ \A s \in Task \ {t} : job'[s] = job[s]
      BY <1>1, <2>2 DEF Goto, Job
    <3> QED BY <1>1, <1>2, <3>1 DEF OpOK, Facts, UserSteps, ChargeSteps
  <2> QED BY <1>2, <2>1, <2>2
<1> QED BY <1>4, <1>5, Assemble

LEMMA RecordNewPaymentStep ==
  ASSUME PInv, IInv', NEW t \in Task, RecordNewPayment(t)
  PROVE  PInv'
<1> DEFINE row == job[t].row
           p == [sub |-> row.id, charge |-> job[t].charge,
                 status |-> IF isPaid(job[t].state) THEN "paid" ELSE "failed",
                 retryCount |-> 0]
           pc == IF DiscountJustEnded(row) THEN AmountOrWrite(row) ELSE "write"
           j == [job[t] EXCEPT !.user = job[t].user, !.row = Renewed(row), !.pc = pc]
<1>1. /\ job[t] \in Job /\ OpOK(job[t]) /\ Facts(job[t]) /\ job[t].pc = "recordNew"
      /\ row \in Row /\ job \in [Task -> Job]
  BY MyFacts, PTypes DEF RecordNewPayment, At, PInv, IInv, TypeOK
<1>2. /\ UNCHANGED <<now, sub, lastId, recurrence, charge>>
      /\ payments' = Append(payments, p)
      /\ Finish(t) \/ (job[t].state = "paid" /\ job' = [job EXCEPT ![t] = j])
  BY <1>1 DEF RecordNewPayment, Renew, cielo, isPaid
<1>3. Credits(p.sub, p.charge)
  BY <1>1 DEF Facts
<1>4. /\ j.pc = pc /\ pc \in {"amount", "write"} /\ j.user = job[t].user
      /\ j.row = Renewed(row) /\ j.op = job[t].op
  BY <1>1 DEF Job, AmountOrWrite
<1> HIDE DEF p, j, pc
<1>5. Grows /\ LinksOK' /\ OwnersOK' /\ CreditsOK'
  BY <1>2, <1>3, AppendedStep
<1>6. (OpOK(job[t]) /\ Facts(job[t]))' /\ \A s \in Task \ {t} : job'[s] = job[s]
  <2>1. CASE Finish(t)
    BY <1>1, <2>1, IdleLater DEF Finish
  <2>2. CASE job[t].state = "paid" /\ job' = [job EXCEPT ![t] = j]
    <3>1. job'[t] = j /\ \A s \in Task \ {t} : job'[s] = job[s]
      BY <1>1, <2>2
    <3>2. HasPaid(job[t].user)
      BY <1>1, <2>2 DEF Facts, ChargeSteps, Payer, Owned, HasPaid, Made
    <3>3. OpOK(j) /\ Facts(j)
      BY <1>1, <1>4, <3>2, RenewedFacts DEF OpOK, Facts, ChargeSteps
    <3>4. j.op = "payment"
      BY <1>1, <1>4 DEF OpOK, ChargeSteps
    <3>5. Terms(job[t].user, job[t].row)' /\ HasPaid(job[t].user)'
      BY <1>2, <1>4, <3>1, <3>2 DEF Terms, HasPaid
    <3>6. job'[t].row.id <= lastId'
      BY <1>2, <3>1, <3>3 DEF Facts
    <3> QED BY <1>4, <3>1, <3>4, <3>5, <3>6 DEF OpOK, Facts, ChargeSteps
  <2> QED BY <1>2, <2>1, <2>2
<1> QED BY <1>5, <1>6, Assemble

------------------------------------------------------------------------------
\* The rest: redemptions, groups, the start of a webhook, Cielo and the clock.
LEMMA QuietStep ==
  ASSUME PInv, IInv', NEW t \in Task, Finish(t),
         UNCHANGED <<now, sub, lastId, payments, recurrence, charge>>
  PROVE  PInv'
<1>1. job'[t] = NoJob /\ \A s \in Task \ {t} : job'[s] = job[s]
  BY DEF Finish, PInv, IInv, TypeOK
<1>2. Grows /\ LinksOK' /\ CreditsOK'
  <2>1. lastId' >= lastId
    BY DEF PInv, IInv, TypeOK
  <2> QED BY <2>1, RowsStep
<1>3. OwnersOK'
  BY <1>2, TablesStay
<1>4. (OpOK(job[t]) /\ Facts(job[t]))'
  BY <1>1, IdleLater
<1> QED BY <1>1, <1>2, <1>3, <1>4, Assemble

LEMMA DeliverPaymentStep ==
  ASSUME PInv, IInv', NEW t \in Task, NEW c \in Charge, DeliverPayment(t, c)
  PROVE  PInv'
<1> DEFINE j == [NoJob EXCEPT !.pc = "lookup", !.op = "payment", !.charge = c,
                              !.state = charge[c].state]
<1>1. /\ j.pc = "lookup" /\ j.op = "payment" /\ j.charge = c /\ j.row = NoRow
      /\ j.state = charge[c].state
  BY DEF NoJob
<1>2. /\ job' = [job EXCEPT ![t] = j] /\ UNCHANGED <<now, database, recurrence>>
      /\ charge' = [charge EXCEPT ![c].notified = @ + 1]
  BY DEF DeliverPayment, Start
<1> HIDE DEF j
<1>3. /\ job \in [Task -> Job] /\ charge \in [Charge -> ChargeRecord] /\ lastId \in Nat
      /\ lastId' = lastId
  BY <1>2 DEF PInv, IInv, TypeOK, database
<1>4. \A d \in Charge : charge'[d].state = charge[d].state
                        /\ charge'[d].recurrence = charge[d].recurrence
  BY <1>2, <1>3 DEF ChargeRecord
<1>5. Grows /\ OwnersOK' /\ CreditsOK'
  BY <1>2, <1>4, CieloStep DEF Made
<1>6. LinksOK'
  BY <1>2, <1>4 DEF PInv, LinksOK, Made
<1>7. job'[t] = j /\ \A s \in Task \ {t} : job'[s] = job[s]
  BY <1>2, <1>3
<1>8. (OpOK(job[t]) /\ Facts(job[t]))'
  BY <1>1, <1>3, <1>4, <1>7 DEF OpOK, Facts, NoRow, UserSteps, ChargeSteps
<1> QED BY <1>5, <1>6, <1>7, <1>8, Assemble

\* No handler takes the step.
LEMMA WorldStep ==
  ASSUME PInv, IInv', Grows, LinksOK', OwnersOK', CreditsOK', UNCHANGED job
  PROVE  PInv'
<1>1. \A s \in Task : (OpOK(job[s]) /\ Facts(job[s]))'
  BY FactsGrow
<1> QED BY <1>1 DEF PInv, FactsOK

LEMMA ChargeRecurrenceStep ==
  ASSUME PInv, IInv', NEW r \in Recurrence, ChargeRecurrence(r)
  PROVE  PInv'
<1>1. PICK c \in Charge, outcome \in {"pending", "denied", "paid"} :
        /\ charge[c].state = "absent"
        /\ charge' = [charge EXCEPT ![c] =
             [state |-> outcome, recurrence |-> r, attempts |-> 1, notified |-> 0]]
  BY DEF ChargeRecurrence
<1>2. charge \in [Charge -> ChargeRecord]
  BY DEF PInv, IInv, TypeOK
<1>3. /\ charge'[c].recurrence = r /\ recurrence[r].state = "active"
      /\ \A d \in Charge \ {c} : charge'[d] = charge[d]
      /\ charge'[c].state \in {"pending", "denied", "paid"}
      /\ UNCHANGED <<now, database, recurrence, job>>
  BY <1>1, <1>2 DEF ChargeRecurrence
<1>4. Grows /\ OwnersOK' /\ CreditsOK'
  BY <1>1, <1>3, CieloStep DEF Made
<1>5. LinksOK'
  BY <1>3 DEF PInv, LinksOK, Made
<1> QED BY <1>3, <1>4, <1>5, WorldStep

LEMMA RetryChargeStep ==
  ASSUME PInv, IInv', NEW c \in Charge, RetryCharge(c)
  PROVE  PInv'
<1>1. PICK outcome \in {"denied", "paid"} :
        charge' = [charge EXCEPT ![c].state = outcome, ![c].attempts = @ + 1]
  BY DEF RetryCharge
<1>2. charge \in [Charge -> ChargeRecord]
  BY DEF PInv, IInv, TypeOK
<1>3. /\ charge[c].state \in {"pending", "denied"}
      /\ charge'[c].recurrence = charge[c].recurrence /\ charge'[c].state = outcome
      /\ \A d \in Charge \ {c} : charge'[d] = charge[d]
      /\ UNCHANGED <<now, database, recurrence, job>>
  BY <1>1, <1>2 DEF RetryCharge, ChargeRecord
<1>4. Grows /\ OwnersOK' /\ CreditsOK'
  BY <1>1, <1>3, CieloStep DEF Made
<1>5. LinksOK'
  BY <1>3 DEF PInv, LinksOK, Made
<1> QED BY <1>3, <1>4, <1>5, WorldStep

LEMMA CloseRecurrenceStep ==
  ASSUME PInv, IInv', NEW r \in Recurrence, CloseRecurrence(r)
  PROVE  PInv'
<1>1. /\ UNCHANGED <<now, database, charge, job>> /\ Made' = Made
      /\ recurrence' = [recurrence EXCEPT ![r].state = "inactive"]
      /\ recurrence \in [Recurrence -> RecurrenceRecord]
  BY DEF CloseRecurrence, PInv, IInv, TypeOK, Made
<1>2. \A s \in Recurrence : /\ recurrence'[s].user = recurrence[s].user
                            /\ recurrence[s].state # "absent" => recurrence'[s].state # "absent"
  BY <1>1 DEF RecurrenceRecord
<1>3. Grows /\ OwnersOK' /\ CreditsOK'
  BY <1>1, <1>2, CieloStep
<1>4. LinksOK'
  BY <1>1, <1>2 DEF PInv, LinksOK
<1> QED BY <1>1, <1>3, <1>4, WorldStep

LEMMA TickStep ==
  ASSUME PInv, IInv', Tick
  PROVE  PInv'
<1>1. /\ UNCHANGED <<sub, lastId, payments, recurrence, charge, job>> /\ Made' = Made
      /\ now' >= now /\ lastId \in Nat
  BY DEF Tick, database, cielo, PInv, IInv, TypeOK, Made
<1>2. Grows
  BY <1>1, PTypes DEF Grows, PInv
<1>3. LinksOK'
  BY <1>1 DEF PInv, LinksOK
<1>4. OwnersOK' /\ CreditsOK'
  BY <1>1, <1>2, TablesStay
<1> QED BY <1>1, <1>2, <1>3, <1>4, WorldStep

LEMMA FirstOwners == Init => PInv
<1> SUFFICES ASSUME Init PROVE PInv
  OBVIOUS
<1>1. IInv
  BY InitEstablishes
<1>2. Made = {} /\ payments = <<>> /\ \A u \in User : sub[u] = NoRow
  BY DEF Init, Made
<1>3. LinksOK /\ CreditsOK
  BY <1>2 DEF LinksOK, CreditsOK
<1>4. now \in Nat /\ TrialDays \in Nat /\ lastId = 0
  BY <1>1, PTypes DEF Init
<1>5. OwnersOK
  <2>1. /\ NoRow.id = 0 /\ NoRow.recurrence = Null /\ NoRow.status # "active"
        /\ NoRow.currentPeriodEnd = 0 /\ 0 <= now + TrialDays
    BY <1>4 DEF NoRow
  <2>2. \A u \in User : /\ sub[u].id <= lastId /\ sub[u].id = 0
                        /\ sub[u].recurrence = Null /\ Terms(u, sub[u])
    <3> SUFFICES ASSUME NEW u \in User
                 PROVE  /\ sub[u].id <= lastId /\ sub[u].id = 0
                        /\ sub[u].recurrence = Null /\ Terms(u, sub[u])
      OBVIOUS
    <3>1. sub[u] = NoRow
      BY <1>2
    <3>2. Terms(u, NoRow)
      BY <2>1 DEF Terms
    <3> QED BY <1>4, <2>1, <3>1, <3>2
  <2> QED BY <2>2 DEF OwnersOK
<1>6. FactsOK
  BY <1>1, IdleFacts DEF Init, FactsOK
<1> QED BY <1>1, <1>3, <1>5, <1>6 DEF PInv

LEMMA OwnersKept == PInv /\ [Next]_vars => PInv'
<1> SUFFICES ASSUME PInv, [Next]_vars PROVE PInv'
  OBVIOUS
<1>1. IInv'
  BY NextKeeps DEF PInv
<1>2. CASE World
  BY <1>1, <1>2, ChargeRecurrenceStep, CloseRecurrenceStep, RetryChargeStep, TickStep DEF World
<1>3. ASSUME NEW t \in Task, Begin(t) PROVE PInv'
  BY <1>1, <1>3, BeginStep
<1>4. ASSUME NEW t \in Task, Deliver(t) PROVE PInv'
  BY <1>1, <1>4, DeliverPaymentStep, DeliverClosureStep DEF Deliver
<1>5. ASSUME NEW t \in Task, Continue(t) PROVE PInv'
  <2>1. CASE Redeem(t) \/ AddGroup(t)
    BY <1>1, <2>1, QuietStep DEF Redeem, AddGroup, cielo
  <2> QED BY <1>1, <1>5, <2>1, ReadExistingStep, DeactivateStep, ValidateCouponStep,
             CreateSubscriptionStep, DeleteExistingStep, InsertRowStep, RecordPaymentStep,
             ReplaceRecurrenceStep, CheckGroupsStep, SetAmountStep, WriteRowStep,
             CheckLimitStep, LookupPaymentStep, MarkPaidStep, LoadSubscriptionStep,
             MarkFailedStep, SuspendStep, FindSubscriptionStep, RecordNewPaymentStep
          DEF Continue
<1>6. ASSUME NEW t \in Task, Abort(t) PROVE PInv'
  BY <1>1, <1>6, AbortStep
<1>7. CASE UNCHANGED vars
  BY <1>7, <1>1
  DEF vars, PInv, LinksOK, OwnersOK, CreditsOK, FactsOK, OpOK, Facts, Owned, Payer, Credits,
      Terms, HasPaid, Made
<1> QED BY <1>2, <1>3, <1>4, <1>5, <1>6, <1>7 DEF Next

LEMMA OwnersKnown == Spec => []PInv
BY FirstOwners, OwnersKept, PTL DEF Spec

\* Whatever order the requests of a user and the webhooks of Cielo are handled in,
\* however often they are delivered or cut short, a payment is only ever recorded for a
\* subscription of the user who made it: no handler mixes up the charge it was told of
\* and the row it found.
THEOREM PaymentsGoToTheirPayer == Spec => []PaymentsCreditTheirPayer
<1>1. PInv => PaymentsCreditTheirPayer
  BY DEF PInv, CreditsOK, Credits, Payer, Owned, PaymentsCreditTheirPayer
<1> QED BY <1>1, OwnersKnown, PTL

\* Nobody who never paid is let in for more than a trial: no race of checkouts, trials,
\* cancellations and webhooks makes such a row active, or gives it more days from today
\* than a trial has.
THEOREM NobodyIsActiveUnpaid == Spec => []AccessIsPaidFor
<1>1. PInv => AccessIsPaidFor
  BY DEF PInv, OwnersOK, Terms, AccessIsPaidFor
<1> QED BY <1>1, OwnersKnown, PTL

------------------------------------------------------------------------------
(***************************************************************************)
(* How far a coupon goes over its maximum                                  *)
(*                                                                         *)
(* What is bounded is the redemptions counted together with the handlers   *)
(* that have passed validateCoupon and not yet counted theirs: passing it  *)
(* adds a handler while the count is below the maximum, counting moves one *)
(* over, and nothing else adds to either.                                  *)
(***************************************************************************)
CreatedSteps == {"delete", "insert", "record", "redeem"}

\* The handler has validated coupon c and may still count a redemption of it.
Redeeming(j, c) ==
  \/ j.pc = "create" /\ j.coupon = c
  \/ j.pc \in CreatedSteps /\ j.row.coupon = c

Redeemers(c) == {t \in Task : Redeeming(job[t], c)}

CouponsOK ==
  \A c \in Coupon :
    CouponData[c].maxRedemptions # Null =>
      redemptions[c] + Cardinality(Redeemers(c)) + 1
        <= CouponData[c].maxRedemptions + Cardinality(Task)

KInv == IInv /\ CouponsOK

LEMMA CouponTypes ==
  ASSUME IInv, NEW c \in Coupon
  PROVE  /\ redemptions[c] \in Nat /\ Cardinality(Task) \in Nat /\ Cardinality(Task) > 0
         /\ IsFiniteSet(Redeemers(c)) /\ Cardinality(Redeemers(c)) \in Nat
         /\ Cardinality(Redeemers(c)) <= Cardinality(Task)
         /\ CouponData[c].maxRedemptions # Null => CouponData[c].maxRedemptions \in Nat
<1>1. IsFiniteSet(Task) /\ Task # {}
  BY BillingAssumption
<1>2. Redeemers(c) \subseteq Task
  BY DEF Redeemers
<1>3. CouponData[c] \in CouponRow
  BY PricingAssumption
<1>4. Cardinality(Task) \in Nat /\ Cardinality(Task) # 0
  BY <1>1, FS_CardinalityType, FS_EmptySet
<1>5. /\ IsFiniteSet(Redeemers(c)) /\ Cardinality(Redeemers(c)) \in Nat
      /\ Cardinality(Redeemers(c)) <= Cardinality(Task)
  BY <1>1, <1>2, FS_Subset, FS_CardinalityType
<1> QED BY <1>3, <1>4, <1>5 DEF IInv, TypeOK, CouponRow, Nullable

\* A step by which nobody comes to redeem a coupon.
LEMMA FewerRedeem ==
  ASSUME KInv, IInv', UNCHANGED redemptions,
         \A s \in Task, c \in Coupon : Redeeming(job'[s], c) => Redeeming(job[s], c)
  PROVE  CouponsOK'
<1> SUFFICES ASSUME NEW c \in Coupon, CouponData[c].maxRedemptions # Null
             PROVE  redemptions[c] + Cardinality(Redeemers(c)') + 1
                      <= CouponData[c].maxRedemptions + Cardinality(Task)
  BY DEF CouponsOK
<1>1. Redeemers(c)' \subseteq Redeemers(c)
  BY DEF Redeemers
<1>2. /\ Cardinality(Redeemers(c)') \in Nat
      /\ Cardinality(Redeemers(c)') <= Cardinality(Redeemers(c))
  BY <1>1, CouponTypes, FS_Subset, FS_CardinalityType DEF KInv
<1> QED BY <1>2, CouponTypes DEF KInv, CouponsOK

\* The handler redeems nothing after the step.
LEMMA NotRedeeming ==
  ASSUME KInv, IInv', UNCHANGED redemptions, NEW t \in Task,
         job'[t].pc \notin CreatedSteps \cup {"create"},
         \A s \in Task \ {t} : job'[s] = job[s]
  PROVE  CouponsOK'
BY FewerRedeem DEF Redeeming

LEMMA BeginRedeems ==
  ASSUME KInv, IInv', NEW t \in Task, Begin(t)
  PROVE  CouponsOK'
<1>1. PICK u \in User :
        \/ \E p \in Plan, k \in Nullable(Coupon) : StartTrial(t, u, p, k) \/ Checkout(t, u, p, k)
        \/ UpdatePaymentMethod(t, u)
        \/ \E p \in Plan : ChangePlan(t, u, p)
        \/ \E n \in Counts : PurchaseExtraGroups(t, u, n) \/ RemoveExtraGroups(t, u, n)
        \/ CancelSubscription(t, u)
        \/ \E g \in Group : ActivateGroup(t, u, g) \/ DeactivateGroup(t, u, g)
  BY DEF Begin
<1>0. job \in [Task -> Job]
  BY DEF KInv, IInv, TypeOK
<1>2. UNCHANGED redemptions
  BY <1>1 DEF StartTrial, Checkout, UpdatePaymentMethod, ChangePlan, PurchaseExtraGroups,
              RemoveExtraGroups, CancelSubscription, ActivateGroup, DeactivateGroup, database
<1>3. ASSUME NEW p \in Plan, NEW k \in Nullable(Coupon), StartTrial(t, u, p, k)
      PROVE  CouponsOK'
  BY <1>0, <1>2, <1>3, NotRedeeming DEF StartTrial, Start, NoJob, CreatedSteps
<1>4. ASSUME NEW p \in Plan, NEW k \in Nullable(Coupon), Checkout(t, u, p, k)
      PROVE  CouponsOK'
  BY <1>0, <1>2, <1>4, NotRedeeming DEF Checkout, Start, NoJob, CreatedSteps
<1>5. CASE UpdatePaymentMethod(t, u)
  BY <1>0, <1>2, <1>5, NotRedeeming DEF UpdatePaymentMethod, Start, NoJob, CreatedSteps
<1>6. ASSUME NEW p \in Plan, ChangePlan(t, u, p) PROVE CouponsOK'
  BY <1>0, <1>2, <1>6, NotRedeeming DEF ChangePlan, Start, NoJob, CreatedSteps, AmountOrWrite
<1>7. ASSUME NEW n \in Counts, PurchaseExtraGroups(t, u, n) PROVE CouponsOK'
  BY <1>0, <1>2, <1>7, NotRedeeming DEF PurchaseExtraGroups, Start, NoJob, CreatedSteps, AmountOrWrite
<1>8. ASSUME NEW n \in Counts, RemoveExtraGroups(t, u, n) PROVE CouponsOK'
  BY <1>0, <1>2, <1>8, NotRedeeming DEF RemoveExtraGroups, Start, NoJob, CreatedSteps
<1>9. CASE CancelSubscription(t, u)
  BY <1>0, <1>2, <1>9, NotRedeeming DEF CancelSubscription, Start, NoJob, CreatedSteps
<1>10. ASSUME NEW g \in Group, ActivateGroup(t, u, g) PROVE CouponsOK'
  BY <1>0, <1>2, <1>10, NotRedeeming DEF ActivateGroup, Start, NoJob, CreatedSteps
<1>11. ASSUME NEW g \in Group, DeactivateGroup(t, u, g) PROVE CouponsOK'
  BY <1>2, <1>11, FewerRedeem DEF DeactivateGroup
<1> QED BY <1>1, <1>3, <1>4, <1>5, <1>6, <1>7, <1>8, <1>9, <1>10, <1>11

\* The coupon looked at is below its maximum, and no more handlers than there are can
\* have passed the check.
LEMMA ValidateRedeems ==
  ASSUME KInv, IInv', NEW t \in Task, ValidateCoupon(t)
  PROVE  CouponsOK'
<1>1. job \in [Task -> Job] /\ job[t] \in Job /\ UNCHANGED redemptions
  BY DEF ValidateCoupon, database, KInv, IInv, TypeOK
<1>2. CASE Finish(t)
  BY <1>1, <1>2, NotRedeeming DEF Finish, NoJob, CreatedSteps
<1>3. ASSUME job[t].coupon = Null \/ CouponValid(job[t].coupon, job[t].user, job[t].plan),
             Goto(t, "create")
      PROVE  CouponsOK'
  <2> SUFFICES ASSUME NEW c \in Coupon, CouponData[c].maxRedemptions # Null
               PROVE  redemptions[c] + Cardinality(Redeemers(c)') + 1
                        <= CouponData[c].maxRedemptions + Cardinality(Task)
    BY <1>1 DEF CouponsOK
  <2>1. /\ job'[t].pc = "create" /\ job'[t].coupon = job[t].coupon
        /\ \A s \in Task \ {t} : job'[s] = job[s]
    BY <1>1, <1>3 DEF Goto, Job
  <2>2. CASE job[t].coupon = c
    <3>1. c # Null
      BY PricingAssumption
    <3>2. redemptions[c] < CouponData[c].maxRedemptions
      BY <1>3, <2>2, <3>1 DEF CouponValid
    <3>3. Cardinality(Redeemers(c)') \in Nat /\ Cardinality(Redeemers(c)') <= Cardinality(Task)
      <4>1. Redeemers(c)' \subseteq Task
        BY DEF Redeemers
      <4> QED BY <4>1, BillingAssumption, FS_Subset, FS_CardinalityType
    <3> QED BY <3>2, <3>3, CouponTypes DEF KInv
  <2>3. CASE job[t].coupon # c
    <3>1. Redeemers(c)' \subseteq Redeemers(c)
      BY <2>1, <2>3 DEF Redeemers, Redeeming, CreatedSteps
    <3>2. /\ Cardinality(Redeemers(c)') \in Nat
          /\ Cardinality(Redeemers(c)') <= Cardinality(Redeemers(c))
      BY <3>1, CouponTypes, FS_Subset, FS_CardinalityType DEF KInv
    <3> QED BY <3>2, CouponTypes DEF KInv, CouponsOK
  <2> QED BY <2>2, <2>3
<1> QED BY <1>2, <1>3 DEF ValidateCoupon

\* The row that is inserted has the coupon that was validated.
LEMMA CreateRedeems ==
  ASSUME KInv, IInv', NEW t \in Task, CreateSubscription(t)
  PROVE  CouponsOK'
<1> DEFINE j == job[t]
           pc == IF j.row.id # 0 THEN "delete" ELSE "insert"
<1>1. job \in [Task -> Job] /\ j \in Job /\ j.pc = "create" /\ UNCHANGED redemptions
  BY DEF CreateSubscription, At, database, KInv, IInv, TypeOK
<1>2. \A s \in Task \ {t} : job'[s] = job[s]
  BY <1>1 DEF CreateSubscription, Finish
<1>3. pc \in {"delete", "insert"}
  OBVIOUS
<1>4. CASE Finish(t)
  BY <1>1, <1>2, <1>4, NotRedeeming DEF Finish, NoJob, CreatedSteps
<1>5. ASSUME NEW r, NEW c,
             \/ job' = [job EXCEPT ![t].pc = pc, ![t].row = NewRow(j, r),
                                   ![t].replaced = j.row.id]
             \/ job' = [job EXCEPT ![t].pc = pc, ![t].row = NewRow(j, r), ![t].charge = c,
                                   ![t].replaced = j.row.id]
      PROVE  CouponsOK'
  <2> HIDE DEF pc
  <2>1. NewRow(j, r).coupon = j.coupon
    BY DEF NewRow
  <2>2. job'[t].pc = pc /\ job'[t].row = NewRow(j, r)
    BY <1>1, <1>5 DEF Job
  <2>3. \A k \in Coupon : Redeeming(job'[t], k) => Redeeming(job[t], k)
    BY <1>1, <1>3, <2>1, <2>2 DEF Redeeming, CreatedSteps
  <2> QED BY <1>1, <1>2, <2>3, FewerRedeem
<1> QED BY <1>4, <1>5 DEF CreateSubscription

LEMMA InsertRedeems ==
  ASSUME KInv, IInv', NEW t \in Task, InsertRow(t)
  PROVE  CouponsOK'
<1> DEFINE row == [job[t].row EXCEPT !.id = lastId + 1]
           pc == IF job[t].charge # Null THEN "record" ELSE "redeem"
<1>1. job \in [Task -> Job] /\ job[t] \in Job /\ job[t].row \in Row /\ job[t].pc = "insert"
      /\ UNCHANGED redemptions
  BY PTypes DEF InsertRow, At, KInv, IInv, TypeOK
<1>2. CASE Finish(t)
  BY <1>1, <1>2, NotRedeeming DEF Finish, NoJob, CreatedSteps
<1>3. CASE job' = [job EXCEPT ![t].row = row, ![t].pc = pc]
  <2>1. row.coupon = job[t].row.coupon
    BY <1>1 DEF Row
  <2>2. pc \in CreatedSteps
    BY DEF CreatedSteps
  <2> HIDE DEF row, pc
  <2>3. job'[t].row = row /\ job'[t].pc = pc /\ \A s \in Task \ {t} : job'[s] = job[s]
    BY <1>1, <1>3 DEF Job
  <2>4. \A k \in Coupon : Redeeming(job'[t], k) => Redeeming(job[t], k)
    BY <1>1, <2>1, <2>2, <2>3 DEF Redeeming, CreatedSteps
  <2> QED BY <1>1, <2>3, <2>4, FewerRedeem
<1> QED BY <1>2, <1>3 DEF InsertRow

\* Counting a redemption ends the handler that had the coupon to redeem.
LEMMA RedeemCounts ==
  ASSUME KInv, IInv', NEW t \in Task, Redeem(t)
  PROVE  CouponsOK'
<1>1. /\ job \in [Task -> Job] /\ job[t].pc = "redeem" /\ job' = [job EXCEPT ![t] = NoJob]
      /\ redemptions \in [Coupon -> Nat]
  BY DEF Redeem, At, Finish, KInv, IInv, TypeOK
<1>2. job'[t].pc = "idle" /\ \A s \in Task \ {t} : job'[s] = job[s]
  BY <1>1 DEF NoJob
<1>3. CASE UNCHANGED redemptions
  BY <1>2, <1>3, NotRedeeming DEF CreatedSteps
<1>4. ASSUME redemptions' = [redemptions EXCEPT ![job[t].row.coupon] = @ + 1]
      PROVE  CouponsOK'
  <2> SUFFICES ASSUME NEW c \in Coupon, CouponData[c].maxRedemptions # Null
               PROVE  redemptions'[c] + Cardinality(Redeemers(c)') + 1
                        <= CouponData[c].maxRedemptions + Cardinality(Task)
    BY DEF CouponsOK
  <2>1. Redeemers(c)' = Redeemers(c) \ {t}
    BY <1>2 DEF Redeemers, Redeeming, CreatedSteps
  <2>2. CASE job[t].row.coupon = c
    <3>1. t \in Redeemers(c)
      BY <1>1, <2>2 DEF Redeemers, Redeeming, CreatedSteps
    <3>2. Cardinality(Redeemers(c)') = Cardinality(Redeemers(c)) - 1
      BY <2>1, <3>1, CouponTypes, FS_RemoveElement DEF KInv
    <3>3. redemptions'[c] = redemptions[c] + 1
      BY <1>1, <1>4, <2>2
    <3> QED BY <3>2, <3>3, CouponTypes DEF KInv, CouponsOK
  <2>3. CASE job[t].row.coupon # c
    <3>1. redemptions'[c] = redemptions[c]
      BY <1>1, <1>4, <2>3
    <3>2. /\ Cardinality(Redeemers(c)') \in Nat
          /\ Cardinality(Redeemers(c)') <= Cardinality(Redeemers(c))
      BY <2>1, CouponTypes, FS_Subset, FS_CardinalityType DEF KInv
    <3> QED BY <3>1, <3>2, CouponTypes DEF KInv, CouponsOK
  <2> QED BY <2>2, <2>3
<1> QED BY <1>3, <1>4 DEF Redeem

\* The other steps neither validate a coupon nor count one.
LEMMA OthersRedeem ==
  ASSUME KInv, IInv', NEW t \in Task,
         \/ ReadExisting(t) \/ Deactivate(t) \/ DeleteExisting(t) \/ RecordPayment(t)
         \/ ReplaceRecurrence(t) \/ CheckGroups(t) \/ SetAmount(t) \/ WriteRow(t)
         \/ CheckLimit(t) \/ AddGroup(t)
         \/ LookupPayment(t) \/ MarkPaid(t) \/ LoadSubscription(t) \/ MarkFailed(t)
         \/ Suspend(t) \/ FindSubscription(t) \/ RecordNewPayment(t)
  PROVE  CouponsOK'
<1>0. job \in [Task -> Job] /\ job[t] \in Job /\ job[t].row \in Row
  BY PTypes DEF KInv, IInv, TypeOK
<1>1. UNCHANGED redemptions
  BY DEF ReadExisting, Deactivate, DeleteExisting, RecordPayment, ReplaceRecurrence,
         CheckGroups, SetAmount, WriteRow, CheckLimit, AddGroup, LookupPayment, MarkPaid,
         LoadSubscription, MarkFailed, Suspend, FindSubscription, RecordNewPayment, database
<1>2. CASE Finish(t)
  BY <1>0, <1>1, <1>2, NotRedeeming DEF Finish, NoJob, CreatedSteps
<1>3. ASSUME NEW pc, Goto(t, pc), pc \notin CreatedSteps \cup {"create"}
      PROVE  CouponsOK'
  <2>1. job'[t].pc = pc /\ \A s \in Task \ {t} : job'[s] = job[s]
    BY <1>0, <1>3 DEF Goto, Job
  <2> QED BY <1>1, <1>3, <2>1, NotRedeeming
<1>4. CASE ReadExisting(t)
  BY <1>0, <1>1, <1>2, <1>4, NotRedeeming DEF ReadExisting, CreatedSteps, Job
<1>5. CASE Deactivate(t)
  BY <1>3, <1>5, TheJob DEF Deactivate, At, JobOK, KInv, CreatedSteps
<1>6. ASSUME NEW pc \in {"insert", "redeem"}, Goto(t, pc), job[t].pc \in CreatedSteps
      PROVE  CouponsOK'
  <2>1. /\ job'[t].pc = pc /\ job'[t].row = job[t].row
        /\ \A s \in Task \ {t} : job'[s] = job[s]
    BY <1>0, <1>6 DEF Goto, Job
  <2>2. \A k \in Coupon : Redeeming(job'[t], k) => Redeeming(job[t], k)
    BY <1>6, <2>1 DEF Redeeming, CreatedSteps
  <2> QED BY <1>1, <2>1, <2>2, FewerRedeem
<1>7. CASE DeleteExisting(t) \/ RecordPayment(t)
  BY <1>6, <1>7 DEF DeleteExisting, RecordPayment, At, CreatedSteps
<1>8. CASE ReplaceRecurrence(t)
  BY <1>0, <1>1, <1>2, <1>8, NotRedeeming DEF ReplaceRecurrence, CreatedSteps, Job
<1>9. CASE CheckGroups(t) \/ SetAmount(t) \/ WriteRow(t) \/ CheckLimit(t) \/ AddGroup(t)
  BY <1>2, <1>3, <1>9
  DEF CheckGroups, SetAmount, WriteRow, CheckLimit, AddGroup, AmountOrWrite, CreatedSteps
<1>10. CASE LookupPayment(t)
  <2>1. \/ Finish(t) \/ Goto(t, "find")
        \/ \E k : job' = [job EXCEPT ![t].pc = "markPaid", ![t].entry = k]
        \/ \E k, n : job' = [job EXCEPT ![t].pc = "markFailed", ![t].entry = k, ![t].count = n]
    <3>1. CASE {k \in DOMAIN payments : payments[k].charge = job[t].charge} = {}
      BY <1>10, <3>1 DEF LookupPayment
    <3>2. CASE {k \in DOMAIN payments : payments[k].charge = job[t].charge} # {}
      <4>1. PICK k \in DOMAIN payments :
              CASE job[t].state = "paid" ->
                     job' = [job EXCEPT ![t].pc = "markPaid", ![t].entry = k]
                [] job[t].state = "denied" ->
                     job' = [job EXCEPT ![t].pc = "markFailed", ![t].entry = k,
                                        ![t].count = payments[k].retryCount]
                [] OTHER -> Finish(t)
        BY <1>10, <3>2 DEF LookupPayment
      <4>2. CASE job[t].state = "paid"
        BY <4>1, <4>2
      <4>3. CASE job[t].state = "denied"
        <5> DEFINE n == payments[k].retryCount
        <5>1. job' = [job EXCEPT ![t].pc = "markFailed", ![t].entry = k, ![t].count = n]
          BY <4>1, <4>3
        <5> HIDE DEF n
        <5> QED BY <5>1
      <4> QED BY <4>1, <4>2, <4>3
    <3> QED BY <3>1, <3>2
  <2>2. ASSUME NEW k, job' = [job EXCEPT ![t].pc = "markPaid", ![t].entry = k]
        PROVE  CouponsOK'
    BY <1>0, <1>1, <2>2, NotRedeeming DEF CreatedSteps, Job
  <2>3. ASSUME NEW k, NEW n,
               job' = [job EXCEPT ![t].pc = "markFailed", ![t].entry = k, ![t].count = n]
        PROVE  CouponsOK'
    BY <1>0, <1>1, <2>3, NotRedeeming DEF CreatedSteps, Job
  <2>4. CASE Goto(t, "find")
    BY <1>3, <2>4 DEF CreatedSteps
  <2> QED BY <1>2, <2>1, <2>2, <2>3, <2>4
<1>11. CASE MarkPaid(t) \/ MarkFailed(t) \/ Suspend(t)
  BY <1>2, <1>3, <1>11 DEF MarkPaid, MarkFailed, Suspend, CreatedSteps
<1>12. ASSUME NEW u, NEW row, Renew(t, u, row) PROVE CouponsOK'
  BY <1>0, <1>1, <1>12, NotRedeeming DEF Renew, AmountOrWrite, CreatedSteps, Job
<1>13. CASE LoadSubscription(t) \/ RecordNewPayment(t)
  BY <1>2, <1>12, <1>13 DEF LoadSubscription, RecordNewPayment
<1>14. CASE FindSubscription(t)
  <2>1. ASSUME NEW u, job' = [job EXCEPT ![t].pc = "recordNew", ![t].user = u, ![t].row = sub[u]]
        PROVE  CouponsOK'
    BY <1>0, <1>1, <2>1, NotRedeeming DEF CreatedSteps, Job
  <2> QED BY <1>2, <1>14, <2>1 DEF FindSubscription
<1> QED BY <1>4, <1>5, <1>7, <1>8, <1>9, <1>10, <1>11, <1>13, <1>14

LEMMA CouponsKept == KInv /\ [Next]_vars => KInv'
<1> SUFFICES ASSUME KInv, [Next]_vars PROVE KInv'
  OBVIOUS
<1>1. IInv'
  BY NextKeeps DEF KInv
<1>2. CASE World
  BY <1>1, <1>2, FewerRedeem
  DEF World, ChargeRecurrence, CloseRecurrence, RetryCharge, Tick, database, KInv
<1>3. ASSUME NEW t \in Task, Begin(t) PROVE KInv'
  BY <1>1, <1>3, BeginRedeems DEF KInv
<1>4. ASSUME NEW t \in Task, Deliver(t) PROVE KInv'
  <2>1. job \in [Task -> Job] /\ UNCHANGED redemptions
    BY <1>4 DEF Deliver, DeliverPayment, DeliverClosure, database, KInv, IInv, TypeOK
  <2>2. job'[t].pc \in {"lookup", "write"} /\ \A s \in Task \ {t} : job'[s] = job[s]
    <3>1. ASSUME NEW c \in Charge, DeliverPayment(t, c)
          PROVE  job'[t].pc = "lookup" /\ \A s \in Task \ {t} : job'[s] = job[s]
      BY <2>1, <3>1 DEF DeliverPayment, Start, NoJob
    <3>2. ASSUME NEW r \in Recurrence, DeliverClosure(t, r)
          PROVE  job'[t].pc = "write" /\ \A s \in Task \ {t} : job'[s] = job[s]
      <4>1. PICK u \in User :
              job' = [job EXCEPT ![t] = [NoJob EXCEPT !.pc = "write", !.op = "closure",
                                                      !.user = u, !.row = sub[u]]]
        BY <3>2 DEF DeliverClosure, Start
      <4> QED BY <2>1, <4>1 DEF NoJob
    <3> QED BY <1>4, <3>1, <3>2 DEF Deliver
  <2> QED BY <1>1, <2>1, <2>2, NotRedeeming DEF CreatedSteps, KInv
<1>5. ASSUME NEW t \in Task, Continue(t) PROVE KInv'
  BY <1>1, <1>5, OthersRedeem, ValidateRedeems, CreateRedeems, InsertRedeems, RedeemCounts
  DEF Continue, KInv
<1>6. ASSUME NEW t \in Task, Abort(t) PROVE KInv'
  <2>1. job \in [Task -> Job] /\ UNCHANGED redemptions
    BY <1>6 DEF Abort, database, KInv, IInv, TypeOK
  <2>2. job'[t].pc = "idle" /\ \A s \in Task \ {t} : job'[s] = job[s]
    BY <1>6, <2>1 DEF Abort, Finish, NoJob
  <2> QED BY <1>1, <2>1, <2>2, NotRedeeming DEF CreatedSteps, KInv
<1>7. CASE UNCHANGED vars
  BY <1>1, <1>7, FewerRedeem DEF vars, KInv
<1> QED BY <1>2, <1>3, <1>4, <1>5, <1>6, <1>7 DEF Next

LEMMA FirstCoupons == Init => KInv
<1> SUFFICES ASSUME Init PROVE KInv
  OBVIOUS
<1>1. IInv
  BY InitEstablishes
<1>2. ASSUME NEW c \in Coupon PROVE Cardinality(Redeemers(c)) = 0 /\ redemptions[c] = 0
  <2>1. Redeemers(c) = {}
    BY DEF Init, Redeemers, Redeeming, NoJob, CreatedSteps
  <2> QED BY <2>1, FS_EmptySet DEF Init
<1>3. CouponsOK
  BY <1>1, <1>2, CouponTypes DEF CouponsOK
<1> QED BY <1>1, <1>3 DEF KInv

\* A coupon is redeemed at most as often as its maximum allows and once more for every
\* other request in progress, although the count is read long before it is raised: the
\* requests that have passed the check and not counted yet are part of the bound.
THEOREM CouponsOvershootByRequestsOnly == Spec => []CouponOvershootBounded
<1>1. KInv => CouponOvershootBounded
  BY CouponTypes DEF KInv, CouponsOK, CouponOvershootBounded
<1>2. Spec => []KInv
  BY FirstCoupons, CouponsKept, PTL DEF Spec
<1> QED BY <1>1, <1>2, PTL
================================================================================
