------------------------------- MODULE Pricing -------------------------------
(***************************************************************************)
(* What a subscription costs a month, in cents: the arithmetic of          *)
(* SubscriptionService.calculateRecurrenceAmount and of the two            *)
(* CouponService helpers it calls, applyPlanDiscount and                   *)
(* getExtraGroupPrice.  Everything here is a constant-level operator, so   *)
(* that the state machine in Billing and the theorems about it can use it. *)
(***************************************************************************)
EXTENDS Integers

CONSTANTS
  User,        \* the subscribers
  Plan,        \* rows of subscription_plans
  Coupon,      \* rows of coupons
  Null,        \* SQL null / JavaScript null, for every nullable column
  PlanData,    \* [Plan -> plan columns]
  CouponData   \* [Coupon -> coupon columns]

Nullable(S) == S \cup {Null}

PlanRow ==
  [price : Nat, promoPrice : Nullable(Nat), promoMonths : Nullable(Nat),
   groupLimit : Nullable(Nat), offered : BOOLEAN]

CouponRow ==
  [discountType : Nullable({"percentage", "fixed"}), discountValue : Nullable(Nat),
   discountMonths : Nullable(Nat), extraGroupPrice : Nullable(Nat), bonusGroups : Nat,
   maxRedemptions : Nullable(Nat), restrictedToUser : Nullable(User),
   restrictedToPlan : Nullable(Plan), isActive : BOOLEAN,
   validFrom : Nat, validUntil : Nullable(Nat)]

ASSUME PricingAssumption ==
  /\ PlanData \in [Plan -> PlanRow]
  /\ CouponData \in [Coupon -> CouponRow]
  /\ Null \notin Nat
  /\ Null \notin User
  /\ Null \notin Plan
  /\ Null \notin Coupon

EXTRA_GROUP_PRICE_IN_CENTS == 2900
MAX_EXTRA_GROUPS == 5

OrElse(value, default) == IF value = Null THEN default ELSE value

AtLeastZero(n) == IF n < 0 THEN 0 ELSE n

\* JavaScript's Math.round of n / 100, for n >= 0: halves round up.
RoundHundredths(n) == (n + 50) \div 100

------------------------------------------------------------------------------
\* CouponService.applyPlanDiscount: the plan price after the coupon.
applyPlanDiscount(price, coupon) ==
  LET c == CouponData[coupon]
  IN  IF c.discountType = Null \/ c.discountValue = Null THEN price
      ELSE IF c.discountType = "percentage"
           THEN AtLeastZero(price - RoundHundredths(price * c.discountValue))
           ELSE AtLeastZero(price - c.discountValue)

\* CouponService.getExtraGroupPrice: the coupon may override the price of a group.
getExtraGroupPrice(coupon) ==
  IF coupon = Null THEN EXTRA_GROUP_PRICE_IN_CENTS
  ELSE OrElse(CouponData[coupon].extraGroupPrice, EXTRA_GROUP_PRICE_IN_CENTS)

\* The plan's own price this month: promotional while promotional payments remain.
ListedPrice(plan, promoLeft) ==
  IF promoLeft > 0 THEN OrElse(PlanData[plan].promoPrice, PlanData[plan].price)
  ELSE PlanData[plan].price

\* couponLeft: -1 is a permanent discount, 0 none, n > 0 that many months.
CouponApplies(coupon, couponLeft) == coupon # Null /\ couponLeft # 0

\* SubscriptionService.calculateRecurrenceAmount: the amount Cielo is told to charge.
calculateRecurrenceAmount(plan, promoLeft, extraGroups, coupon, couponLeft) ==
  LET listed == ListedPrice(plan, promoLeft)
      live   == IF CouponApplies(coupon, couponLeft) THEN coupon ELSE Null
      base   == IF live # Null /\ promoLeft = 0 THEN applyPlanDiscount(listed, live)
                ELSE listed
  IN  base + extraGroups * getExtraGroupPrice(live)

==============================================================================
