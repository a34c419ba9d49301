\* A trial, a checkout during it, a cancellation, and another trial.
SPECIFICATION HSpec
CONSTANTS
  User = {u1}
  Plan = {"starter"}
  Coupon = {}
  Null = Null
  PlanData <- MCPlanData
  CouponData <- MCCouponData
  Group = {}
  Recurrence = {r1, r2, r3}
  Charge = {c1}
  Task = {t1}
  TrialDays = 1
  PeriodDays = 2
  MaxTime = 0
  MaxAttempts = 1
  Duplicates = 0
  Requests = {"startTrial", "checkout", "cancelSubscription"}
  Counts = {}
  Outcomes = {"ok"}
  Aborts = FALSE
INVARIANT OneTrialPerUser
CHECK_DEADLOCK FALSE
