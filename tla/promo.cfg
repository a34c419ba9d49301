\* A charge that is authorised at the second attempt.
SPECIFICATION HSpec
CONSTANTS
  User = {u1}
  Plan = {"scale"}
  Coupon = {}
  Null = Null
  PlanData <- MCPlanData
  CouponData <- MCCouponData
  Group = {}
  Recurrence = {r1}
  Charge = {c1}
  Task = {t1}
  TrialDays = 1
  PeriodDays = 2
  MaxTime = 1
  MaxAttempts = 2
  Duplicates = 0
  Requests = {"startTrial"}
  Counts = {}
  Outcomes = {"ok"}
  Aborts = FALSE
INVARIANT PromoLastsItsMonths
CHECK_DEADLOCK FALSE
