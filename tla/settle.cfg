\* Webhooks of one charge on a subscription that is changed and canceled meanwhile:
\* a fair schedule credits what was paid.
SPECIFICATION FairSpec
CONSTANTS
  User = {u1}
  Plan = {"starter"}
  Coupon = {}
  Null = Null
  PlanData <- MCPlanData
  CouponData <- MCCouponData
  Group = {}
  Recurrence = {r1, r2}
  Charge = {c1}
  Task = {t1, t2}
  TrialDays = 1
  PeriodDays = 2
  MaxTime = 1
  MaxAttempts = 3
  Duplicates = 0
  Requests = {"startTrial", "checkout", "updatePaymentMethod", "cancelSubscription"}
  Counts = {}
  Outcomes = {"ok", "error"}
  Aborts = FALSE
PROPERTY PaymentsAreCredited
CHECK_DEADLOCK FALSE
