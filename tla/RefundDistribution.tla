-------------------------- MODULE RefundDistribution --------------------------
(***************************************************************************)
(* How the refunds of one itemized purchase reach the shares of the people *)
(* it was bought for: the Largest Remainder Method, the item-level refund  *)
(* engine, the whole-expense reduction and its mirror, the restoration     *)
(* after a refund was reversed as recorded in error.                       *)
(*                                                                         *)
(* A share is a line of the current allocation; every line names one item. *)
(* The requests are atomic here: their interleavings are the subject of    *)
(* ExpenseLedger, which knows the total of a split and not its lines.      *)
(***************************************************************************)
EXTENDS Integers, FiniteSets, Functions

CONSTANTS
    Lines,       \* the positions of the allocation's lines
    Items,       \* the items of the purchase
    ItemOf,      \* the item a line names
    KeyOf,       \* the beneficiary of a line: the tie-break of a division
    GrossOf,     \* what an item cost, never rewritten
    UnitSplits,  \* the unit counts a person may approve, by line
    Weights,     \* the custom weight sets a distribution may carry, by line
    Refunds,     \* the adjustments that may be recorded
    NoWeights    \* a distribution without custom weights

ASSUME LinesAssumption == Lines \subseteq Nat /\ IsFiniteSet(Lines) /\ IsFiniteSet(Items)
ASSUME ItemOfAssumption == /\ ItemOf \in [Lines -> Items]
                           /\ \A i \in Items : \E l \in Lines : ItemOf[l] = i
ASSUME KeyOfAssumption == KeyOf \in [Lines -> Nat]
ASSUME GrossOfAssumption == GrossOf \in [Items -> Nat \ {0}]
ASSUME UnitSplitsAssumption == UnitSplits \subseteq [Lines -> Nat \ {0}]
ASSUME WeightsAssumption == Weights \subseteq [Lines -> Nat] /\ NoWeights \notin Weights

VARIABLES
    amount,  \* the amount of each line of the current allocation
    refund   \* the expense_adjustments rows: status, amount, attribution by item

vars == <<amount, refund>>

-----------------------------------------------------------------------------
(* Sums *)

Over(S, f) == SumFunctionOnSet(f, S)
LinesOf(i) == {l \in Lines : ItemOf[l] = i}
Gross == Over(Items, GrossOf)

Unattributed == [i \in Items |-> 0]
Active(whole) == {r \in Refunds : refund[r].st = "active" /\ (refund[r].of = Unattributed) = whole}

\* The active adjustments without and with item attribution.
SumOf(S) == Over(S, [r \in S |-> refund[r].amount])
WholeReduction == SumOf(Active(TRUE))
AttributedReduction == SumOf(Active(FALSE))
NetAmount == Gross - WholeReduction - AttributedReduction

\* What was ever attributed to an item. A reversed adjustment is still in the sum.
AttributedTo(i) == LET R == {r \in Refunds : refund[r].st # "none"}
                   IN Over(R, [r \in R |-> refund[r].of[i]])
ItemNet(i) == GrossOf[i] - AttributedTo(i)

\* Ahead of the net amount when positive, behind it when negative.
Pending == Over(Lines, amount) - NetAmount

-----------------------------------------------------------------------------
(* The Largest Remainder Method over the lines of S *)

\* Zero is divided by any weights, anything else only by weights that say something.
Divides(total, S, w) == total = 0 \/ Over(S, w) > 0

\* Line k is given a spare paisa before line l is: fractions, then keys, then positions.
Before(fraction, k, l) ==
    \/ fraction[k] > fraction[l]
    \/ fraction[k] = fraction[l] /\ KeyOf[k] < KeyOf[l]
    \/ fraction[k] = fraction[l] /\ KeyOf[k] = KeyOf[l] /\ k < l

Rank(fraction, l) == Cardinality({k \in DOMAIN fraction : Before(fraction, k, l)})

RankWithinSpare(rank, spare) == rank <= spare
EarnsSpare(rank, spare) == rank < spare

Split(total, S, w) ==
    LET sum == Over(S, w)
        base == [l \in S |-> (total * w[l]) \div sum]
        fraction == [l \in S |-> (total * w[l]) % sum]
        spare == total - Over(S, base)
    IN [l \in S |-> IF sum = 0 THEN 0
                    ELSE base[l] + IF EarnsSpare(Rank(fraction, l), spare) THEN 1 ELSE 0]

-----------------------------------------------------------------------------
(* The three ways to rebuild the lines. Each is the set of results: empty when refused. *)

Ignored(line, cut) == TRUE
Covers(line, cut) == cut <= line

\* A reduction is apportioned and taken off each line, never clamped.
Reduced(line, total, w) ==
    LET cut == Split(total, Lines, w)
    IN {new \in {[l \in Lines |-> line[l] - cut[l]]} :
          /\ total <= Over(Lines, line)
          /\ Divides(total, Lines, w)
          /\ \A l \in Lines : Covers(line[l], cut[l])}

\* The mirror after a reversal: the lines are split again to the risen net amount.
Restored(w) ==
    {new \in {Split(NetAmount, Lines, w)} : \E l \in Lines : w[l] # 0}

\* An item's net cost goes to its own lines, by their present shares.
ItemShare(l) ==
    LET i == ItemOf[l]
    IN IF Cardinality(LinesOf(i)) = 1 THEN ItemNet(i)
       ELSE Split(ItemNet(i), LinesOf(i), amount)[l]

OwnershipKnown ==
    \A i \in Items : Cardinality(LinesOf(i)) > 1 => Divides(ItemNet(i), LinesOf(i), amount)

\* Items first, then the whole-expense refunds over the result; custom weights are for those.
ItemAware(w) ==
    LET stage == [l \in Lines |-> ItemShare(l)]
    IN IF ~OwnershipKnown THEN {}
       ELSE IF WholeReduction = 0 THEN {new \in {stage} : w = NoWeights}
       ELSE Reduced(stage, WholeReduction, IF w = NoWeights THEN stage ELSE w)

ByTheBasket == FALSE
ByTheItem == AttributedReduction # 0

\* The lines a distribution would write, with what validates them before they are written.
Rebuilt(w) ==
    LET shares == IF w = NoWeights THEN amount ELSE w
        lines == IF ByTheItem THEN ItemAware(w)
                 ELSE IF Pending > 0 THEN Reduced(amount, Pending, shares)
                 ELSE Restored(shares)
    IN {new \in lines :
          /\ ByTheItem /\ WholeReduction = 0
                => \A i \in Items : Over(LinesOf(i), new) = ItemNet(i)
          /\ Over(Lines, new) = NetAmount}

-----------------------------------------------------------------------------
(* The requests *)

NoRefund == [st |-> "none", amount |-> 0, of |-> Unattributed]

\* approveAllocation with quantity_based: each item's allocatable cost is divided by units.
ByUnits(cost, units) == [l \in Lines |-> Split(cost[ItemOf[l]], LinesOf(ItemOf[l]), units)[l]]

Init ==
    /\ refund = [r \in Refunds |-> NoRefund]
    /\ \E units \in UnitSplits : amount = ByUnits(GrossOf, units)

ApproveAllocation(units) ==
    LET lines == ByUnits([i \in Items |-> ItemNet(i)], units)
    IN /\ Over(Lines, lines) = NetAmount
       /\ amount' = lines
       /\ UNCHANGED refund

\* A refund of the whole expense, of unattributed money.
RecordWhole(r, size) ==
    /\ refund[r].st = "none"
    /\ size <= NetAmount
    /\ refund' = [refund EXCEPT ![r] = [st |-> "active", amount |-> size, of |-> Unattributed]]
    /\ UNCHANGED amount

\* A refund attributed to items, exactly; no item comes back for more than it cost.
RecordItems(r, of) ==
    /\ refund[r].st = "none"
    /\ of # Unattributed
    /\ \A i \in Items : AttributedTo(i) + of[i] <= GrossOf[i]
    /\ Over(Items, of) <= NetAmount
    /\ refund' = [refund EXCEPT ![r] = [st |-> "active", amount |-> Over(Items, of), of |-> of]]
    /\ UNCHANGED amount

ReverseAdjustment(r) ==
    /\ refund[r].st = "active"
    /\ refund' = [refund EXCEPT ![r].st = "reversed"]
    /\ UNCHANGED amount

DistributeAdjustment(w) ==
    /\ Pending # 0
    /\ \E new \in Rebuilt(w) : amount' = new
    /\ UNCHANGED refund

Attributions == {of \in [Items -> 0 .. Gross] : \A i \in Items : of[i] <= GrossOf[i]}

Next ==
    \/ \E units \in UnitSplits : ApproveAllocation(units)
    \/ \E r \in Refunds : \/ \E size \in 1 .. Gross : RecordWhole(r, size)
                          \/ \E of \in Attributions : RecordItems(r, of)
                          \/ ReverseAdjustment(r)
    \/ \E w \in Weights \cup {NoWeights} : DistributeAdjustment(w)

Spec == Init /\ [][Next]_vars

-----------------------------------------------------------------------------
(* Properties *)

Distribution == \E w \in Weights \cup {NoWeights} : DistributeAdjustment(w)
NothingReversed == \A r \in Refunds : refund[r].st # "reversed"

\* An attributed refund that was reversed still weighs on its item.
ItemReversed == \E r \in Refunds : refund[r].st = "reversed" /\ refund[r].of # Unattributed

\* The proportion to divide by is gone: the refusals the code documents and means.
ProportionLost ==
    IF ByTheItem THEN ~OwnershipKnown ELSE \A l \in Lines : amount[l] = 0

\* Every line holds a non-negative number of paise, whatever weights a person gave, and the
\* active refunds never exceed what the purchase cost (distributeAdjustment never clamps).
RefundTypeOK ==
    /\ amount \in [Lines -> Nat]
    /\ \A r \in Refunds : /\ refund[r].st \in {"none", "active", "reversed"}
                          /\ refund[r].amount \in 0 .. Gross
    /\ NetAmount \in 0 .. Gross

\* The arithmetic of a default distribution always passes the checks that guard the write: a
\* pending amount can be distributed unless the proportion it is divided by is gone.
CanDistribute == Pending # 0 /\ Rebuilt(NoWeights) = {} => ProportionLost

\* CanDistribute holds as long as no refund attributed to an item was reversed
\* (distributeAdjustment in src/services/adjustment-service.ts).
OnlyALostProportionRefuses == ~ItemReversed => CanDistribute

\* A refund of one item never moves a share of another: while every refund names its items and
\* none was reversed, a distribution leaves the lines of an item that already carry its net
\* cost as they are (buildItemAwareAllocationLines, src/domain/refund-allocation.ts).
RefundsStayOnTheirItem ==
    [][ Distribution /\ NothingReversed /\ WholeReduction = 0
          => \A i \in Items : Over(LinesOf(i), amount) = ItemNet(i)
                                 => \A l \in LinesOf(i) : amount'[l] = amount[l] ]_vars

\* Violated by the code. A reversed refund "must not ... feed a refund projection": a pending
\* distribution can be computed whatever refund was reversed. AttributedTo, which reads
\* listItemAttributionTotals, has no condition on reversed_at.
ReversalLeavesADistribution == CanDistribute
=============================================================================
