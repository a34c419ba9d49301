\* Two requests or webhooks of one subscriber at a time, a gateway that fails or
\* loses its answers, handlers that die, webhooks delivered more than once.
SPECIFICATION Spec
CONSTANTS
  User = {u1}
  Plan = {"starter"}
  Coupon = {}
  Null = Null
  PlanData <- MCPlanData
  CouponData <- MCCouponData
  Group = {}
  Recurrence = {r1, r2}
  Charge = {c1}
  Task = {t1, t2}
  TrialDays = 1
  PeriodDays = 2
  MaxTime = 1
  MaxAttempts = 2
  Duplicates = 2
  Requests = {"startTrial", "checkout", "updatePaymentMethod", "purchaseExtraGroups"}
  Counts = {3}
  Outcomes = {"ok", "error", "lost"}
  Aborts = TRUE
SYMMETRY Symmetry
INVARIANTS TypeOK AccessIsPaidFor ExtraGroupsCapped
CHECK_DEADLOCK FALSE
