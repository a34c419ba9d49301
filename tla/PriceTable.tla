----------------------------- MODULE PriceTable -----------------------------
(***************************************************************************)
(* What a seller asks for a number of miles: the price calculator          *)
(* (domain/services/price-calculator.service.ts) over a price table        *)
(* (domain/types/price.types.ts), as operators.                            *)
(*                                                                         *)
(* A table is a function from quantities, in thousands of miles, to prices *)
(* in cents.  The program divides in floating point; here a price before   *)
(* it is rounded is an exact fraction, a record of num and den > 0.        *)
(***************************************************************************)
EXTENDS Integers, FiniteSets

LOCAL INSTANCE FiniteSetsExt

NoPrice == -1        \* the calculation failed
NoCeiling == -1      \* the seller has set no greatest price

Quantities(table) == DOMAIN table
Prices(table) == {table[q] : q \in DOMAIN table}

MinQty(table) == Min(Quantities(table))
MaxQty(table) == Max(Quantities(table))
MinPrice(table) == Min(Prices(table))
MaxPrice(table) == Max(Prices(table))

allPricesSame(table) == Cardinality(Prices(table)) = 1

Whole(n) == [num |-> n, den |-> 1]

\* The nearest quarter of a real, halves upwards.
roundToQuarter(x) == 25 * ((2 * x.num + 25 * x.den) \div (50 * x.den))

\* The table's floor first and then the ceiling, so a ceiling below every
\* price of the table wins.
applyPriceLimits(x, table, ceiling) ==
    LET floored == IF x.num < MinPrice(table) * x.den
                      THEN Whole(MinPrice(table)) ELSE x
        most == IF ceiling = NoCeiling THEN MaxPrice(table) ELSE ceiling
    IN  IF floored.num > most * floored.den THEN Whole(most) ELSE floored

DefaultSlope == [num |-> -10, den |-> 3]

\* The slope of the table's first two points.
calculateSlope(table) ==
    LET first == MinQty(table)
        second == Min(Quantities(table) \ {first})
    IN  [num |-> table[second] - table[first], den |-> second - first]

getExtrapolationSlope(table) ==
    IF \/ Cardinality(Quantities(table)) < 2
       \/ allPricesSame(table) /\ Cardinality(Quantities(table)) >= 3
       THEN DefaultSlope
       ELSE calculateSlope(table)

\* Below the smallest quantity: quantity / cpfCount on the line through the
\* first point.
extrapolatePrice(quantity, cpfCount, table) ==
    LET slope == getExtrapolationSlope(table)
        first == MinQty(table)
    IN  [num |-> table[first] * slope.den * cpfCount
                    + slope.num * (quantity - first * cpfCount),
         den |-> slope.den * cpfCount]

calculatePriceBelowMinimum(quantity, cpfCount, table, ceiling) ==
    IF allPricesSame(table) /\ Cardinality(Quantities(table)) = 2
          /\ ceiling = NoCeiling
       THEN Whole(table[MinQty(table)])
       ELSE applyPriceLimits(extrapolatePrice(quantity, cpfCount, table),
                             table, ceiling)

\* The two neighbours in the table of quantity / cpfCount.
findInterpolationPoints(quantity, cpfCount, table) ==
    LET lower == Max({q \in Quantities(table) : q * cpfCount <= quantity})
    IN  [lower |-> lower,
         upper |-> Min({q \in Quantities(table) : q > lower})]

\* Bug: the distance to the wrong neighbour.
SwappedInterpolation(quantity, cpfCount, table, at) ==
    [num |-> table[at.upper] * cpfCount * (at.upper - at.lower)
                + (table[at.lower] - table[at.upper])
                    * (quantity - at.lower * cpfCount),
     den |-> cpfCount * (at.upper - at.lower)]

linearInterpolation(quantity, cpfCount, table, at) ==
    [num |-> table[at.lower] * cpfCount * (at.upper - at.lower)
                + (table[at.upper] - table[at.lower])
                    * (quantity - at.lower * cpfCount),
     den |-> cpfCount * (at.upper - at.lower)]

calculatePriceInRange(quantity, cpfCount, table, ceiling) ==
    applyPriceLimits(
        linearInterpolation(quantity, cpfCount, table,
            findInterpolationPoints(quantity, cpfCount, table)),
        table, ceiling)

\* At or above the largest quantity the seller's ceiling is not applied.
calculatePriceAboveMaximum(table) == Whole(table[MaxQty(table)])

calculate(quantity, cpfCount, table, ceiling) ==
    IF quantity <= 0 \/ cpfCount <= 0 \/ Quantities(table) = {}
       THEN NoPrice
       ELSE roundToQuarter(
              IF quantity = MinQty(table) * cpfCount
                THEN applyPriceLimits(Whole(table[MinQty(table)]), table, ceiling)
              ELSE IF quantity < MinQty(table) * cpfCount
                THEN calculatePriceBelowMinimum(quantity, cpfCount, table, ceiling)
              ELSE IF quantity >= MaxQty(table) * cpfCount
                THEN calculatePriceAboveMaximum(table)
              ELSE calculatePriceInRange(quantity, cpfCount, table, ceiling))
=============================================================================
