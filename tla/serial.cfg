\* One request or webhook at a time and a gateway that answers: every request,
\* several plans, a coupon, groups, and a charge that is denied until its
\* subscription is past due.
SPECIFICATION Spec
CONSTANTS
  User = {u1}
  Plan = {"starter", "scale"}
  Coupon = {"half"}
  Null = Null
  PlanData <- MCPlanData
  CouponData <- MCCouponData
  Group = {g1, g2}
  Recurrence = {r1, r2}
  Charge = {c1, c2}
  Task = {t1}
  TrialDays = 1
  PeriodDays = 2
  MaxTime = 1
  MaxAttempts = 1
  Duplicates = 3
  Requests <- Request
  Counts = {5}
  Outcomes = {"ok"}
  Aborts = FALSE
SYMMETRY Symmetry
CONSTRAINT RepeatedWhenDenied
INVARIANTS AmountAgrees CanceledIsNotCharged ChargedOnce
PROPERTY GroupsStayWithinLimit
CHECK_DEADLOCK FALSE
