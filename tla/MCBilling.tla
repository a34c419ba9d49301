----------------------------- MODULE MCBilling -----------------------------
(***************************************************************************)
(* Values of Billing's constants for TLC.                                  *)
(***************************************************************************)
EXTENDS Billing, TLC

\* The seeded plans (subscription-plan-drizzle-store.ts:15), cut down: promotions of
\* 1 and 2 months for 3, pro without one, group limits of 1 and 2 for 3 and 6.
MCPlanData ==
  [p \in Plan |->
     CASE p = "starter" -> [price |-> 19900, promoPrice |-> 13900, promoMonths |-> 1,
                            groupLimit |-> 1, offered |-> TRUE]
       [] p = "pro" -> [price |-> 29900, promoPrice |-> Null, promoMonths |-> Null,
                        groupLimit |-> 2, offered |-> TRUE]
       [] p = "scale" -> [price |-> 49900, promoPrice |-> 34900, promoMonths |-> 2,
                          groupLimit |-> Null, offered |-> TRUE]]

MCCouponData ==
  [c \in Coupon |->
     CASE c = "half" -> [discountType |-> "percentage", discountValue |-> 50,
                         discountMonths |-> 1, extraGroupPrice |-> 1900,
                         bonusGroups |-> 1, maxRedemptions |-> 1,
                         restrictedToUser |-> Null, restrictedToPlan |-> Null,
                         isActive |-> TRUE, validFrom |-> 0, validUntil |-> Null]]

\* Only the webhook of a denied charge is delivered again: enough for its subscription to
\* become past due.
RepeatedWhenDenied ==
  \A c \in Charge : charge[c].notified > 1 => charge[c].state = "denied"

Symmetry ==
  Permutations(User) \cup Permutations(Task) \cup Permutations(Recurrence)
    \cup Permutations(Charge) \cup Permutations(Group)

=============================================================================
