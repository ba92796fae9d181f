--------------------------- MODULE AuctionLedger ---------------------------
(***************************************************************************)
(* The auction as those who bid and sell see it, as atomic operations on   *)
(* lots: a lot enters an empty stage and leaves it, its price rises by at  *)
(* least the increment, it is sold once at a price that was offered.       *)
(***************************************************************************)
EXTENDS BidPricing

CONSTANTS Lots, AuctionOf, InitialPrice, MinBidIncrement

VARIABLES
  place,    \* of each lot: "waiting", "stage", "sold" or "gone"
  offers,   \* the amounts offered for it that are on record
  top,      \* the offer that wins, NoPrice without one
  paid      \* what it was sold at, NoPrice before

vars == <<place, offers, top, paid>>

\* No other lot of the auction is on the stage.
StageIsFree(l) == \A m \in Lots :
  AuctionOf[m] = AuctionOf[l] /\ place[m] = "stage" => m = l

Init ==
  /\ place \in [Lots -> {"waiting", "stage"}]
  /\ \A l \in Lots : place[l] = "stage" => StageIsFree(l)
  /\ offers = [l \in Lots |-> {}]
  /\ top = [l \in Lots |-> NoPrice]
  /\ paid = [l \in Lots |-> NoPrice]

Enter(l) ==
  /\ place[l] = "waiting"
  /\ StageIsFree(l)
  /\ place' = [place EXCEPT ![l] = "stage"]
  /\ UNCHANGED <<offers, top, paid>>

Leave(l) ==
  /\ place[l] = "stage"
  /\ place' = [place EXCEPT ![l] = "waiting"]
  /\ UNCHANGED <<offers, top, paid>>

\* A bid that was on its way when the lot was sold still counts.  The amount
\* is any bid amount; it is the one on record afterwards.
Raise(l, amount) ==
  /\ place[l] \in {"stage", "sold"}
  /\ amount \in BidAmount
  /\ amount >= MinimumBidAmount(InitialPrice[l], top[l], MinBidIncrement)
  /\ offers' = [offers EXCEPT ![l] = @ \cup {amount}]
  /\ top' = [top EXCEPT ![l] = amount]
  /\ UNCHANGED <<place, paid>>

\* A sale that was on its way when the lot left the stage still counts.
Sell(l, amount) ==
  /\ place[l] \in {"stage", "waiting"}
  /\ amount \in offers[l]
  /\ place' = [place EXCEPT ![l] = "sold"]
  /\ paid' = [paid EXCEPT ![l] = amount]
  /\ UNCHANGED <<offers, top>>

\* The offers of a bidder are struck out, but never what a buyer paid.
StrikeOut ==
  /\ \A l \in Lots : /\ offers'[l] \subseteq offers[l]
                     /\ top'[l] \in {top[l], NoPrice}
                     /\ paid[l] # NoPrice => paid[l] \in offers'[l]
  /\ UNCHANGED <<place, paid>>

Remove(l) ==
  /\ place[l] # "gone"
  /\ place' = [place EXCEPT ![l] = "gone"]
  /\ offers' = [offers EXCEPT ![l] = {}]
  /\ top' = [top EXCEPT ![l] = NoPrice]
  /\ paid' = [paid EXCEPT ![l] = NoPrice]

Next ==
  \/ \E l \in Lots : Enter(l) \/ Leave(l) \/ Remove(l)
  \/ \E l \in Lots : \E amount \in offers'[l] : Raise(l, amount)
  \/ \E l \in Lots : \E amount \in offers[l] : Sell(l, amount)
  \/ StrikeOut

Spec == Init /\ [][Next]_vars
=============================================================================
