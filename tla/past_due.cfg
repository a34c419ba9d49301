\* A charge denied again and again.
SPECIFICATION HSpec
CONSTANTS
  User = {u1}
  Plan = {"starter"}
  Coupon = {}
  Null = Null
  PlanData <- MCPlanData
  CouponData <- MCCouponData
  Group = {}
  Recurrence = {r1}
  Charge = {c1}
  Task = {t1}
  TrialDays = 1
  PeriodDays = 2
  MaxTime = 1
  MaxAttempts = 3
  Duplicates = 0
  Requests = {"startTrial"}
  Counts = {}
  Outcomes = {"ok"}
  Aborts = FALSE
INVARIANT PastDueAfterThreeFailures
CHECK_DEADLOCK FALSE
