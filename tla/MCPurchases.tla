----------------------------- MODULE MCPurchases -----------------------------
(***************************************************************************)
(* Two messages of one buyer in one group, asking for the same miles, and  *)
(* the few tables, limits and settings the seller saves: one edit or crash *)
(* while both are handled, or two while one is.                            *)
(***************************************************************************)
EXTENDS Purchases, TLC

CONSTANTS m1, m2, s1, g1

Asks(accepted) == [quantity |-> 9, cpfCount |-> 2, accepted |-> accepted]
Small == [quantity |-> 4, cpfCount |-> 2, accepted |-> {}]

MCAbout ==
  [m \in {m1, m2} |->
     [sender |-> s1, group |-> g1, program |-> Normal,
      estimate |-> IF m = m1 THEN 6 ELSE None,
      noCpfAllowed |-> FALSE, absurd |-> [min |-> 1000, max |-> 3000],
      readings |-> IF m = m1 THEN {Asks({}), Asks({1725}), Asks({1650, 1725})}
                             ELSE {Small, Asks({1650}), Asks({1725})}]]

Steps == (2 :> 2000) @@ (4 :> 1775) @@ (6 :> 1600)
Flat == (5 :> 1700)
MCTables == {Steps, Flat}
MCEntries == {[quantity |-> 4, price |-> 1500]}
MCLimits == {[maxPrice |-> 1675, minQuantity |-> 3000, threshold |-> 10]}
MCMiles == {0, 10}
MCOffers == {[isEnabled |-> TRUE, threshold |-> 100, dedup |-> TRUE, groupDedup |-> TRUE],
             [isEnabled |-> FALSE, threshold |-> 100, dedup |-> FALSE, groupDedup |-> FALSE]}

\* Two edits that meet: of one program's prices, or with the counter offers turned off.
Meet == mixed # {} \/ ~ OffersOn(shop.offer)

\* The seller has saved no prices, limits or miles.
StockAsBefore ==
  /\ saving = {}
  /\ \A p \in Program : saved[p] = {shop.prices[p]} /\ shop.limits[p] = None
                         /\ shop.miles[p] = 10

FewAtOnce ==
  /\ changes > 0 => \E m \in Message : place[m] # "coming"
  /\ place[m2] # "coming" => StockAsBefore
  /\ changes > 1 => Meet /\ place[m2] = "coming" /\ \A k \in Key : era[k] = 0
=============================================================================
