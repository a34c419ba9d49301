\* Two users after the one redemption of a coupon, three recurrences between them,
\* one of which is charged.
SPECIFICATION Spec
CONSTANTS
  User = {u1, u2}
  Plan = {"starter"}
  Coupon = {"half"}
  Null = Null
  PlanData <- MCPlanData
  CouponData <- MCCouponData
  Group = {}
  Recurrence = {r1, r2, r3}
  Charge = {c1}
  Task = {t1, t2}
  TrialDays = 1
  PeriodDays = 2
  MaxTime = 1
  MaxAttempts = 1
  Duplicates = 0
  Requests = {"startTrial", "checkout"}
  Counts = {}
  Outcomes = {"ok"}
  Aborts = FALSE
SYMMETRY Symmetry
INVARIANTS PaymentsCreditTheirPayer CouponOvershootBounded
CHECK_DEADLOCK FALSE
