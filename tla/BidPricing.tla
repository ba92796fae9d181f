----------------------------- MODULE BidPricing -----------------------------
(***************************************************************************)
(* The price rule every bid is held to (src/src/lots/bid-pricing.ts).      *)
(* Amounts are whole reais.  NoPrice stands for the null the code passes   *)
(* when a lot has no initial price or no winning bid; a winning bid of 0   *)
(* is a Decimal object and therefore counts as a winning bid.              *)
(***************************************************************************)
EXTENDS Integers

CONSTANT NoPrice

ASSUME PriceAssumption == NoPrice \notin Int

Price == Nat \cup {NoPrice}

BidStep == 5

\* The configured increment, but never less than the step.
EffectiveBidIncrement(configured) ==
  IF configured > BidStep THEN configured ELSE BidStep

\* Mutant: the increment is forgotten.
MatchingBidAmount(initialPrice, winningAmount, configured) ==
  CASE winningAmount # NoPrice -> winningAmount
    [] winningAmount = NoPrice /\ initialPrice # NoPrice -> initialPrice
    [] OTHER -> 0

\* What the next bid must reach.
MinimumBidAmount(initialPrice, winningAmount, configured) ==
  CASE winningAmount # NoPrice -> winningAmount + EffectiveBidIncrement(configured)
    [] winningAmount = NoPrice /\ initialPrice # NoPrice -> initialPrice
    [] OTHER -> 0

\* The amounts the bid DTOs let through: multiples of R$ 5, zero included.
BidAmount == {n \in Nat : n % BidStep = 0}
=============================================================================
