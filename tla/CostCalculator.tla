---- MODULE CostCalculator ----
(* CostCalculator (src/billing/cost_calculator.rs) on the arithmetic of
   src/billing/precision.rs.  An amount is a number of grains, Coin of
   which are the 0.0001 that money is rounded to; usage is a number of
   parts, Unit of which are one unit of what is metered, and StepOf a kind
   are what usage of that kind is rounded to.  MaxCharge bounds every
   amount, allowances included. *)
EXTENDS Integers, FiniteSets, FiniteSetsExt, SequencesExt

CONSTANTS Kinds,  \* of metric
          Usages,     \* totals a summary may hold
          Tiers,      \* cost structures: kind -> [rate, free]
          Offers,     \* lists of discounts
          Unit, StepOf,            \* parts
          Coin, Whole, MaxCharge,  \* grains in 0.0001, in one unit, in the most that may be charged
          NoBill

ASSUME CostAssumption ==
  /\ {Unit, Coin, Whole, MaxCharge} \subseteq Nat \ {0} /\ Usages \subseteq Nat
  /\ StepOf \in [Kinds -> Nat \ {0}]
  /\ \A list \in Offers : \A i \in DOMAIN list : list[i].fixed <= MaxCharge /\ list[i].percent \in 0..100

VARIABLE bill

costVars == <<bill>>

CostInit == bill = NoBill

Refusal == -1  \* Err: in place of an amount

----
(* round_dp: a ratio to the nearest number, and between two to the even
   one. *)
NearestEven(n, d) ==
  LET whole == n \div d
      twice == 2 * (n % d)
  IN  IF twice < d \/ (twice = d /\ whole % 2 = 0) THEN whole ELSE whole + 1

RoundUp(n, d) == ((n + d * Coin - 1) \div (d * Coin)) * Coin  \* the defect: it rounds up
RoundRatio(n, d) == Coin * NearestEven(n, d * Coin)
RoundMonetary(x) == RoundRatio(x, 1)
RoundUsage(k, use) == StepOf[k] * NearestEven(use, StepOf[k])

(* validate_amount, safe_add and safe_multiply refuse what is too much. *)
Validated(x) == IF x < 0 \/ x > MaxCharge THEN Refusal ELSE RoundMonetary(x)
SafeAdd(x, y) == IF Refusal \in {x, y} \/ x + y > MaxCharge THEN Refusal ELSE RoundMonetary(x + y)

BillableAll(use, free) == use  \* the defect: nothing is free
Billable(use, free) == Max({0, use - free * Unit})

(* One line: the usage is rounded by its kind, the rate to money, and so is
   what they make; the allowance, a quantity, has to be an amount that may
   be charged. *)
LineCost(k, use, tier) ==
  LET rate == Validated(tier.rate)
      cost == Billable(RoundUsage(k, use), tier.free) * rate
  IN  IF Refusal \in {rate, Validated(tier.free * Whole)} \/ cost > MaxCharge * Unit THEN Refusal
      ELSE RoundRatio(cost, Unit)

Subtotal(usage, tier) ==
  FoldSet(LAMBDA k, sum : SafeAdd(sum, LineCost(k, usage[k], tier[k])), 0, DOMAIN usage)

----
(* apply_discount: the amount that is left when the discount is taken off,
   which calculate_discount then takes for the discount. *)
ApplyDiscount(x, percent) ==
  IF x * (100 - percent) > MaxCharge THEN Refusal ELSE RoundRatio(x * (100 - percent), 100)

(* A threshold is 0 but for a volume discount; a promotion may be over. *)
CalculateDiscount(d, x) ==
  CASE d.fixed # 0 -> Min({Validated(d.fixed), x})
    [] d.fixed = 0 /\ (x < d.threshold \/ d.over) -> 0
    [] OTHER -> ApplyDiscount(x, d.percent)

(* One after the other, each from what the ones before it left, until
   nothing is left. *)
Discounted(list, subtotal) ==
  LET Off(sofar, d) ==
          IF sofar = Refusal \/ sofar >= subtotal THEN sofar
          ELSE SafeAdd(sofar, CalculateDiscount(d, subtotal - sofar))
  IN  FoldLeft(Off, 0, list)

TotalOfAll(list, subtotal) ==  \* the defect: each from the whole subtotal
  FoldLeft(LAMBDA sofar, d : SafeAdd(sofar, CalculateDiscount(d, subtotal)), 0, list)

TotalDiscounts(list, subtotal) ==
  LET off == Discounted(list, subtotal)
  IN  IF off = Refusal THEN Refusal ELSE Min({off, subtotal})

(* calculate_cost_with_context *)
CalculateCost ==
  /\ bill = NoBill
  /\ \E usage \in UNION {[ks -> Usages] : ks \in SUBSET Kinds}, tier \in Tiers, list \in Offers :
         LET sum == Subtotal(usage, tier)
             off == IF sum = Refusal THEN Refusal ELSE TotalDiscounts(list, sum)
         IN  bill' = [usage |-> usage, tier |-> tier, list |-> list, subtotal |-> sum, off |-> off,
                      total |-> IF off = Refusal THEN Refusal ELSE Max({0, sum - off})]

CostNext == CalculateCost

(* calculate_estimated_cost for one hour, times Unit: neither rounded nor
   refused. *)
Estimated(usage, tier) ==
  FoldSet(LAMBDA k, sum : sum + Max({0, usage[k] - tier[k].free * Unit}) * tier[k].rate, 0, DOMAIN usage)

----
Magnitude(x) == IF x < 0 THEN -x ELSE x
Billed == bill # NoBill /\ bill.total # Refusal

(* What is billed differs from the estimate by half a coin for every unit,
   from rounding the rate, and for a line by half a coin and what half a
   step of its usage costs: a rate below half a coin bills nothing
   (calculate_cost_with_structure 185-262, calculate_estimated_cost
   265-297). *)
Inexact(k, use, tier) ==
  Coin * (Unit + Billable(RoundUsage(k, use), tier.free)) + StepOf[k] * tier.rate

BilledAsEstimated ==
  Billed => 2 * Magnitude(Unit * bill.subtotal - Estimated(bill.usage, bill.tier))
              <= FoldSet(LAMBDA k, n : n + Inexact(k, bill.usage[k], bill.tier[k]), 0, DOMAIN bill.usage)

(* A bill adds up, and nothing brings it below zero. *)
AddsUp ==
  Billed => /\ bill.off >= 0 /\ bill.off <= bill.subtotal
            /\ bill.total = bill.subtotal - bill.off
            /\ bill.total % Coin = 0

(* More usage of anything never makes a subtotal smaller, if both bills can
   be made, whatever is rounded.  What is paid does become smaller where a
   volume discount sets in. *)
MoreCostsNoLess ==
  Billed => \A k \in DOMAIN bill.usage, use \in Usages :
      LET more == [bill.usage EXCEPT ![k] = use]
      IN  use > bill.usage[k] /\ Subtotal(more, bill.tier) # Refusal
              => Subtotal(more, bill.tier) >= bill.subtotal

(* Bills: estimates agree with them, they add up, and their subtotals rise with usage. *)
CostsInv == BilledAsEstimated /\ AddsUp /\ MoreCostsNoLess

(* A percentage is what is taken off, within 0.0001
   (DiscountType::calculate_discount 36-65, "Calculate discount amount for
   a given subtotal"; its test takes $1.00 off $10.00 at 10%). *)
PercentageIsTakenOff ==
  Billed /\ Len(bill.list) = 1 /\ bill.list[1].fixed = 0 /\ ~bill.list[1].over
         /\ bill.subtotal >= bill.list[1].threshold
      => Magnitude(100 * bill.off - bill.subtotal * bill.list[1].percent) <= 100 * Coin
====
