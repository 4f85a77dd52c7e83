-------------------------------- MODULE Pricing --------------------------------
(***************************************************************************)
(* What a policy costs: the plan's row that covers the stay, in the column *)
(* of a zone, times a factor for the age - computed for the quote, when    *)
(* the policy is issued, when it is corrected, and, for the commission, on *)
(* every invoice.  The zone counts in the first computation only, and each *)
(* takes the traveller's age on the day it is made.                        *)
(* Amounts are even numbers of the smallest unit, so that halves are exact.*)
(***************************************************************************)
EXTENDS Naturals, Sequences

CONSTANTS
  Catalogue,  \* plans: travel, fixed, flat, columns, rows of [days, price]
  Zones,      \* zones of destinations, after which columns are named
  Ages,       \* ages at the time of the quote, Unset when the date of birth is missing
  Stays,      \* days of a stay
  Unset,      \* no price, no age, no number of days on the label
  MaxBirthdays   \* bound, for model checking

TariffRows == [days : Nat \cup {Unset}, price : [Zones -> Nat \cup {Unset}]]

ASSUME PricingAssumption ==
  /\ Stays \subseteq Nat \ {0} /\ Ages \subseteq Nat \cup {Unset} /\ Unset \notin Nat
  /\ Unset \notin [premium : Nat, stay : Nat, age : Nat \cup {Unset}, edited : BOOLEAN]
  /\ MaxBirthdays \in Nat
  /\ \A p \in Catalogue :
       /\ p.flat \in Nat \cup {Unset}
       /\ p.columns \in Seq(Zones) /\ p.rows \in Seq(TariffRows)
       /\ \A i \in 1 .. Len(p.rows), z \in Zones :
            p.rows[i].price[z] # Unset => p.rows[i].price[z] % 2 = 0

-----------------------------------------------------------------------------
(* Durations                                                                *)

ValidityTiers == {10, 45, 93, 180, 365}

Labels(rows) == {rows[i].days : i \in 1 .. Len(rows)} \ {Unset, 0}

Tiers(rows) == IF Labels(rows) = {} THEN ValidityTiers ELSE Labels(rows)

Least(S) == CHOOSE x \in S : \A y \in S : x <= y
Greatest(S) == CHOOSE x \in S : \A y \in S : y <= x

(* stayDaysToValidityTier                                                   *)
Tier(stay, tiers) ==
  LET covering == {d \in tiers : stay <= d} IN
  IF covering = {} THEN Greatest(tiers) ELSE Least(covering)

-----------------------------------------------------------------------------
(* The table of a plan                                                      *)

(* pickPriceFromRow: the first column that has a price.                     *)
Pick(row, columns) ==
  LET priced == {i \in 1 .. Len(columns) : row.price[columns[i]] # Unset} IN
  IF priced = {} THEN Unset ELSE row.price[columns[Least(priced)]]

(* The first of the rows whose days are nearest to the tier, among those    *)
(* with the given numbers of days.                                          *)
Nearest(rows, tier, days) ==
  LET off(i) == IF rows[i].days >= tier THEN rows[i].days - tier ELSE tier - rows[i].days
      near == {i \in 1 .. Len(rows) : rows[i].days \in days}
      best == {i \in near : \A j \in near : off(i) <= off(j)} IN
  IF near = {} THEN 0 ELSE Least(best)

(* getBasePremiumForValidityTier: the row of the tier, or one above, below, *)
(* or closest to it.                                                        *)
BasePremium(rows, columns, tier) ==
  LET days  == {rows[i].days : i \in 1 .. Len(rows)} \ {Unset}
      exact == Nearest(rows, tier, {tier})
      above == Nearest(rows, tier, {d \in days : d >= tier})
      below == Nearest(rows, tier, {d \in days : d <= tier})
      any   == Nearest(rows, tier, days)
      price(i) == IF i = 0 THEN Unset ELSE Pick(rows[i], columns) IN
  IF price(exact) # Unset THEN price(exact)
  ELSE IF price(above) # Unset THEN price(above)
  ELSE IF price(below) # Unset THEN price(below)
  ELSE price(any)

(* The i-th column comes first.                                            *)
InFront(columns, i) ==
  [j \in 1 .. Len(columns) |->
    IF j = 1 THEN columns[i] ELSE IF j <= i THEN columns[j - 1] ELSE columns[j]]

(* faulty: an unknown zone takes the last column                            *)
ColumnsForLast(columns, zoneOf) ==
  LET hit == {i \in 1 .. Len(columns) : columns[i] = zoneOf} IN
  InFront(columns, IF hit = {} THEN Len(columns) ELSE Least(hit))

(* pricingTablesForZone: the column of the zone comes first, or else the    *)
(* columns as they are.                                                     *)
ColumnsFor(columns, zoneOf) ==
  LET hit == {i \in 1 .. Len(columns) : columns[i] = zoneOf} IN
  InFront(columns, IF hit = {} THEN 1 ELSE Least(hit))

-----------------------------------------------------------------------------
(* Ages and commissions                                                     *)

Eligible(age) == age = Unset \/ age <= 85

(* getAgePremiumMultiplier, in halves                                       *)
AgeHalves(age) ==
  CASE age = Unset -> 2
    [] age # Unset /\ age < 16 -> 1
    [] age # Unset /\ age \in 16 .. 75 -> 2
    [] age # Unset /\ age \in 76 .. 80 -> 4
    [] age # Unset /\ age > 80 -> 8

Priced(premium, tier) == [ok |-> TRUE, premium |-> premium, tier |-> tier]
Failed(why) == [ok |-> FALSE, why |-> why]

(* computeTravelPlanPremium                                                 *)
TravelPremium(rows, columns, stay, age) ==
  LET tier == Tier(stay, Tiers(rows))
      base == BasePremium(rows, columns, tier) IN
  IF base = Unset THEN Failed("no_price_for_tier")
  ELSE IF ~Eligible(age) THEN Failed("age_ineligible")
  ELSE Priced((base * AgeHalves(age)) \div 2, tier)

(* computePremiumForCaseDetails                                             *)
Premium(plan, columns, stay, age) ==
  LET base == BasePremium(plan.rows, columns, Tier(stay, Tiers(plan.rows))) IN
  IF plan.travel /\ plan.rows # <<>> THEN TravelPremium(plan.rows, columns, stay, age)
  ELSE IF plan.rows # <<>> /\ base # Unset THEN Priced(base, Tier(stay, Tiers(plan.rows)))
  ELSE IF plan.flat # Unset THEN Priced(plan.flat * stay, Unset)
  ELSE Failed("no_price")

(* computeQuote                                                             *)
Quote(plan, zone, stay, age) ==
  IF plan.travel /\ ~Eligible(age) THEN Failed("age_ineligible")
  ELSE Premium(plan, ColumnsFor(plan.columns, zone), stay, age)

CommissionTiers ==
  << [days |->  10, premium |-> 15000, commission |->  4000],
     [days |->  45, premium |-> 30500, commission |->  7000],
     [days |->  93, premium |-> 43500, commission |-> 10000],
     [days |-> 180, premium |-> 60500, commission |-> 15000],
     [days |-> 365, premium |-> 78000, commission |-> 18000] >>

(* baseCommissionForSale: by the premium, by twice the premium, or else by  *)
(* the days.                                                                *)
BaseCommission(premium, days) ==
  LET tiers == 1 .. Len(CommissionTiers)
      same  == {i \in tiers : CommissionTiers[i].premium = premium}
      twice == {i \in tiers : CommissionTiers[i].premium = 2 * premium}
      long  == {i \in tiers : days <= CommissionTiers[i].days} IN
  CommissionTiers[IF premium > 0 /\ same # {} THEN Least(same)
                  ELSE IF premium > 0 /\ twice # {} THEN Least(twice)
                  ELSE IF long # {} THEN Least(long) ELSE Len(CommissionTiers)].commission

(* getAgeCommissionMultiplier, in halves                                    *)
CommissionHalves(age) == IF age # Unset /\ age < 16 THEN 1 ELSE 2

(* commissionForSale, as getPartnerSalesForPeriod calls it                  *)
Commission(plan, premium, days, age) ==
  IF plan.fixed THEN 0 ELSE (BaseCommission(premium, days) * CommissionHalves(age)) \div 2

-----------------------------------------------------------------------------
(* The life of a policy                                                     *)

VARIABLES
  plan, zone,
  stay,        \* the days of the case
  age,         \* the traveller's age today
  quote,       \* what the customer was quoted and then paid
  sale,        \* premium of the policy, and the stay and age it was computed for
  line,        \* the policy on the last invoice, with the stay and age it was computed for
  birthdays

priceVars == <<plan, zone, stay, age, quote, sale, line, birthdays>>

PricingInit ==
  /\ plan \in Catalogue /\ zone \in Zones \cup {Unset}
  /\ stay \in Stays /\ age \in Ages
  /\ quote = Unset /\ sale = Unset /\ line = Unset
  /\ birthdays = 0

(* The customer is offered the plan if it has a price for him.              *)
Offer ==
  /\ quote = Unset
  /\ quote' = [price |-> Quote(plan, zone, stay, age), age |-> age]
  /\ UNCHANGED <<plan, zone, stay, age, sale, line, birthdays>>

(* issuePolicyForTransaction prices the case again.                         *)
IssuePolicy ==
  LET priced == Premium(plan, plan.columns, stay, age) IN
  /\ quote # Unset /\ quote.price.ok /\ sale = Unset /\ priced.ok
  /\ sale' = [premium |-> priced.premium, stay |-> stay, age |-> age, edited |-> FALSE]
  /\ UNCHANGED <<plan, zone, stay, age, quote, line, birthdays>>

(* A correction of the dates: updateCase writes them and recomputes, or     *)
(* puts the dates back when there is no price.                              *)
Correct(days) ==
  LET priced == Premium(plan, plan.columns, days, age) IN
  /\ sale # Unset /\ days # stay
  /\ IF priced.ok
     THEN /\ stay' = days
          /\ sale' = [premium |-> priced.premium, stay |-> days, age |-> age, edited |-> TRUE]
     ELSE UNCHANGED <<stay, sale>>
  /\ UNCHANGED <<plan, zone, age, quote, line, birthdays>>

(* getPartnerSalesForPeriod computes the line of the invoice.               *)
Invoice ==
  /\ sale # Unset
  /\ line' = [commission |-> Commission(plan, sale.premium, stay, age), stay |-> stay, age |-> age]
  /\ UNCHANGED <<plan, zone, stay, age, quote, sale, birthdays>>

Birthday ==
  /\ age # Unset /\ birthdays < MaxBirthdays
  /\ age' = age + 1 /\ birthdays' = birthdays + 1
  /\ UNCHANGED <<plan, zone, stay, quote, sale, line>>

PricingNext == Offer \/ IssuePolicy \/ (\E days \in Stays : Correct(days)) \/ Invoice \/ Birthday

PricingSpec == PricingInit /\ [][PricingNext]_priceVars

-----------------------------------------------------------------------------
(* What is promised                                                         *)

(* A stay is billed for the least number of days on sale that covers it, or *)
(* the most there is, at the first price in that row, halved for a child,   *)
(* doubled from 76 and again from 81; nobody over 85 is sold a table of     *)
(* travel premiums.                                                         *)
PriceIsReference ==
  sale # Unset /\ plan.travel /\ plan.rows # <<>> =>
    \E i \in 1 .. Len(plan.rows), c \in 1 .. Len(plan.columns) :
      LET row == plan.rows[i]  base == row.price[plan.columns[c]] IN
      /\ row.days # Unset
      /\ \A j \in 1 .. Len(plan.rows) : plan.rows[j].days # Unset =>
           IF row.days >= sale.stay
           THEN plan.rows[j].days >= row.days \/ plan.rows[j].days < sale.stay
           ELSE plan.rows[j].days <= row.days
      /\ base # Unset /\ \A b \in 1 .. c - 1 : row.price[plan.columns[b]] = Unset
      /\ \/ sale.age # Unset /\ sale.age <= 15 /\ 2 * sale.premium = base
         \/ (sale.age = Unset \/ sale.age \in 16 .. 75) /\ sale.premium = base
         \/ sale.age # Unset /\ sale.age \in 76 .. 80 /\ sale.premium = 2 * base
         \/ sale.age # Unset /\ sale.age \in 81 .. 85 /\ sale.premium = 4 * base

(* A policy is issued for what the customer was quoted when its zone has no *)
(* column of its own in the plan, or the first one, and he is as old as     *)
(* then.                                                                    *)
PlainSaleAsQuoted ==
  sale # Unset /\ ~sale.edited /\ sale.age = quote.age
    /\ (\A i \in 2 .. Len(plan.columns) : plan.columns[i] # zone)
    => sale.premium = quote.price.premium

(* A policy is issued for what the customer was quoted, in any zone.        *)
SoldAsQuoted ==
  sale # Unset /\ ~sale.edited /\ sale.age = quote.age => sale.premium = quote.price.premium

(* The plan that the commission table was made for.                         *)
IsRetail ==
  /\ Len(plan.rows) = Len(CommissionTiers) /\ plan.columns # <<>> /\ ~plan.fixed
  /\ \A i \in 1 .. Len(plan.rows) :
       /\ plan.rows[i].days = CommissionTiers[i].days
       /\ plan.rows[i].price[plan.columns[1]] = CommissionTiers[i].premium

(* For the retail plan the commission is the one of the days that were      *)
(* bought, whatever factor the age put on the premium; a child's is half.   *)
CommissionFollowsTier ==
  line # Unset /\ IsRetail =>
    \E i \in 1 .. Len(CommissionTiers) :
      /\ CommissionTiers[i].days = Tier(line.stay, ValidityTiers)
      /\ 2 * line.commission =
           CommissionTiers[i].commission * IF line.age # Unset /\ line.age < 16 THEN 1 ELSE 2

(* The same price, and the commission that goes with it, wherever it is     *)
(* computed.                                                                *)
PricesAgree == PriceIsReference /\ PlainSaleAsQuoted /\ CommissionFollowsTier
=============================================================================
