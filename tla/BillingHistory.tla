--------------------------- MODULE BillingHistory ---------------------------
(***************************************************************************)
(* Billing with two history variables, for what the code's comments and    *)
(* schema say of a subscriber's whole past: the trials a user was given,   *)
(* and the denials of each charge the service was told of.                 *)
(***************************************************************************)
EXTENDS MCBilling

VARIABLES
  trials,   \* trials[u]: rows inserted for u with trial_used set
  denials   \* denials[c]: webhooks for c that found it denied

TrialInserted(u) == sub'[u].id > sub[u].id /\ sub'[u].trialUsed

DenialDelivered(c) == charge'[c].notified > charge[c].notified /\ charge[c].state = "denied"

HInit ==
  /\ Init
  /\ trials = [u \in User |-> 0]
  /\ denials = [c \in Charge |-> 0]

HNext ==
  /\ Next
  /\ trials' = [u \in User |-> IF TrialInserted(u) THEN trials[u] + 1 ELSE trials[u]]
  /\ denials' = [c \in Charge |-> IF DenialDelivered(c) THEN denials[c] + 1 ELSE denials[c]]

HSpec == HInit /\ [][HNext]_<<vars, trials, denials>>

------------------------------------------------------------------------------
\* subscription.service.ts:94, "Check if user has already used their trial": nobody
\* is given a second trial.
OneTrialPerUser == \A u \in User : trials[u] <= 1

\* subscription.service.ts:1063, "Set past_due after 3 failures": once three denials
\* of a charge are dealt with, the subscription it was for is past due.
PastDueAfterThreeFailures ==
  Quiescent =>
    \A c \in Charge, u \in User :
      /\ denials[c] >= 3
      /\ charge[c].state = "denied"
      /\ sub[u].recurrence = charge[c].recurrence
      => sub[u].status = "past_due"

\* schema.ts:334, "How many months promo lasts": the promotional payments used up are
\* payments the user made.
PromoLastsItsMonths ==
  \A u \in User :
    sub[u].id # 0 =>
      OrElse(PlanData[sub[u].plan].promoMonths, 0) - sub[u].promoLeft
        <= Cardinality({c \in Charge : charge[c].state = "paid"})

==============================================================================
