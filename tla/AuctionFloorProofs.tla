------------------------- MODULE AuctionFloorProofs -------------------------
(***************************************************************************)
(* What holds of AuctionFloor for every set of lots, auctions, bidders,    *)
(* accesses and concurrent requests.                                       *)
(***************************************************************************)
EXTENDS AuctionFloor, TLAPS

(* The call of a request has the fields of its kind. *)
LEMMA CallTypes ==
  ASSUME TypeOK, NEW r \in Requests
  PROVE  /\ call[r].kind = "bid" => call[r] \in BidCall
         /\ call[r].kind = "stage" => call[r] \in StageCall
         /\ call[r].kind = "sale" => call[r] \in SaleCall
         /\ call[r].kind = "removeLot" => call[r] \in RemoveLotCall
         /\ call[r].kind = "removeUser" => call[r] \in RemoveUserCall
         /\ call[r].kind = "removeAuction" => call[r] \in RemoveAuctionCall
BY CallAssumption DEF TypeOK, BidCall, StageCall, SaleCall, RemoveLotCall, RemoveUserCall,
                      RemoveAuctionCall

(* A handler that only moves on keeps every variable in its type. *)
LEMMA AnswerTyped ==
  ASSUME TypeOK, NEW r \in Requests, NEW phase \in Phase, Answer(r, phase)
  PROVE  TypeOK'
BY DEF TypeOK, Answer, Goto, database

(* Refusing a transaction keeps every variable in its type. *)
LEMMA RefusedTyped ==
  ASSUME TypeOK, NEW r \in Requests, NEW retried \in BOOLEAN, Refused(r, retried)
  PROVE  TypeOK'
<1>1. attempt' \in [Requests -> 1..MaxAttempts]
  BY DEF TypeOK, Refused, Goto, MaxAttempts
<1>2. pc' \in [Requests -> Phase]
  BY DEF TypeOK, Refused, Goto, Phase, Resting
<1>3. seen' \in [Requests -> SUBSET BidRow]
  BY DEF TypeOK, Refused
<1> QED
  BY <1>1, <1>2, <1>3 DEF TypeOK, Refused, database

(* Every variable keeps its type: statuses, rows, phases and attempts of all
   the handlers stay in the sets the code and the schema give them. *)
THEOREM TypeCorrect == Spec => []TypeOK
<1>1. Init => TypeOK
  BY FloorAssumption DEF Init, TypeOK, LotStatus, WaitingStatus, Phase, Resting, MaxAttempts
<1>2. TypeOK /\ [Next]_vars => TypeOK'
  <2> SUFFICES ASSUME TypeOK, [Next]_vars PROVE TypeOK'
    OBVIOUS
  <2>1. ASSUME NEW r \in Requests, Bid(r) PROVE TypeOK'
    <3>1. CASE BeginBid(r)
      BY <3>1 DEF BeginBid, TypeOK, Goto, Phase, WinningBids, database
    <3>2. CASE RejectBid(r)
      BY <3>2, AnswerTyped DEF RejectBid, Phase, Resting
    <3>3. CASE CommitBid(r)
      <4>1. call[r] \in BidCall
        BY <3>3, CallTypes DEF CommitBid
      <4>2. NewBid(r) \in BidRow
        BY <4>1 DEF NewBid, BidRow, BidCall, BidAmount
      <4>3. \A b \in BidRow : Outbid(b) \in BidRow
        BY DEF Outbid, BidRow
      <4>4. bids' \subseteq BidRow
        BY <3>3, <4>2, <4>3 DEF CommitBid, TypeOK
      <4>5. doomed' \subseteq Requests
        BY <3>3 DEF CommitBid, RefuseRivals, Open, TypeOK
      <4> QED
        BY <3>3, <4>4, <4>5 DEF CommitBid, TypeOK, Goto, Phase
    <3>4. CASE RefuseBid(r)
      BY <3>4, RefusedTyped DEF RefuseBid
    <3> QED
      BY <2>1, <3>1, <3>2, <3>3, <3>4 DEF Bid
  <2>2. ASSUME NEW r \in Requests, Stage(r) PROVE TypeOK'
    <3>1. CASE BeginStage(r)
      BY <3>1 DEF BeginStage, TypeOK, Goto, Phase, database
    <3>2. CASE KeepStage(r) \/ RejectStage(r)
      BY <3>2, AnswerTyped DEF KeepStage, RejectStage, Phase, Resting
    <3>3. CASE CommitStage(r)
      <4>1. call[r] \in StageCall
        BY <3>3, CallTypes DEF CommitStage
      <4>2. lotStatus' \in [Lots -> LotStatus \cup {"REMOVED"}]
        BY <3>3, <4>1 DEF CommitStage, TypeOK, StageCall, LotStatus, WaitingStatus
      <4>3. doomed' \subseteq Requests
        BY <3>3 DEF CommitStage, RefuseRivals, Open, TypeOK
      <4> QED
        BY <3>3, <4>2, <4>3 DEF CommitStage, TypeOK, Goto, Phase
    <3>4. CASE RefuseStage(r)
      BY <3>4, RefusedTyped DEF RefuseStage
    <3> QED
      BY <2>2, <3>1, <3>2, <3>3, <3>4 DEF Stage
  <2>3. ASSUME NEW r \in Requests, Sale(r) PROVE TypeOK'
    <3>1. CASE ReadLot(r) \/ NoWinner(r)
      BY <3>1, AnswerTyped DEF ReadLot, NoWinner, Phase, Resting
    <3>2. CASE ReadWinner(r)
      BY <3>2 DEF ReadWinner, HighestWinning, WinningBids, TypeOK, Goto, Phase, database
    <3>3. CASE CommitSale(r)
      <4>1. PICK b \in seen[r] : /\ sales' = sales \cup {SaleOf(b)}
                                 /\ lotStatus' = [lotStatus EXCEPT ![b.lot] = "SOLD"]
                                 /\ doomed' = doomed \cup {o \in Open : call[o].kind = "stage" /\ call[o].lot = b.lot}
        BY <3>3 DEF CommitSale
      <4>2. b \in BidRow
        BY <4>1 DEF TypeOK
      <4>3. SaleOf(b) \in SaleRow
        BY <4>2 DEF SaleOf, SaleRow, BidRow
      <4>4. lotStatus' \in [Lots -> LotStatus \cup {"REMOVED"}]
        BY <4>1, <4>2 DEF TypeOK, BidRow, LotStatus
      <4>5. doomed' \subseteq Requests
        BY <4>1 DEF TypeOK, Open
      <4> QED
        BY <3>3, <4>1, <4>3, <4>4, <4>5 DEF CommitSale, TypeOK, Goto, Phase
    <3>4. CASE RejectSale(r)
      BY <3>4 DEF RejectSale, TypeOK, Goto, Phase, Resting, database
    <3> QED
      BY <2>3, <3>1, <3>2, <3>3, <3>4 DEF Sale
  <2>4. ASSUME NEW r \in Requests, RemoveLot(r) PROVE TypeOK'
    <3>1. CASE CheckLot(r) \/ LotGone(r)
      BY <3>1, AnswerTyped DEF CheckLot, LotGone, Phase, Resting
    <3>2. CASE DeleteLot(r)
      BY <3>2 DEF DeleteLot, TypeOK, Goto, Phase, Resting, Open
    <3> QED
      BY <2>4, <3>1, <3>2 DEF RemoveLot
  <2>5. ASSUME NEW r \in Requests, RemoveUser(r) PROVE TypeOK'
    <3>1. CASE CheckUser(r) \/ UserKept(r)
      BY <3>1, AnswerTyped DEF CheckUser, UserKept, Phase, Resting
    <3>2. CASE DeleteUser(r)
      BY <3>2 DEF DeleteUser, TypeOK, Goto, Phase, Resting, Open
    <3> QED
      BY <2>5, <3>1, <3>2 DEF RemoveUser
  <2>6. ASSUME NEW r \in Requests, Emit(r) PROVE TypeOK'
    BY <2>6, AnswerTyped DEF Emit, Phase, Resting
  <2>7. ASSUME NEW r \in Requests, Lose(r) PROVE TypeOK'
    BY <2>7 DEF Lose, TypeOK, Goto, Phase, Resting, database
  <2>8. ASSUME Surroundings PROVE TypeOK'
    BY <2>8 DEF Surroundings, Review, CloseAccess, CloseAuction, TypeOK, database, control
  <2>9. ASSUME NEW r \in Requests, RemoveAuction(r) PROVE TypeOK'
    <3>1. CASE CheckAuction(r) \/ AuctionGone(r)
      BY <3>1, AnswerTyped DEF CheckAuction, AuctionGone, Phase, Resting
    <3>2. CASE DeleteAuction(r)
      <4>1. call[r] \in RemoveAuctionCall
        BY <3>2, CallTypes DEF DeleteAuction
      <4>2. gone' \subseteq Auctions /\ openAccess' \subseteq Accesses /\ doomed' \subseteq Requests
        BY <3>2, <4>1 DEF DeleteAuction, RemoveAuctionCall, TypeOK, Open
      <4>3. pc' \in [Requests -> Phase]
        BY <3>2 DEF DeleteAuction, TypeOK, Goto, Phase, Resting
      <4> QED
        BY <3>2, <4>2, <4>3 DEF DeleteAuction, TypeOK, database
    <3> QED
      BY <2>9, <3>1, <3>2 DEF RemoveAuction
  <2>10. CASE UNCHANGED vars
    BY <2>10 DEF vars, TypeOK
  <2> QED
    BY <2>1, <2>2, <2>3, <2>4, <2>5, <2>6, <2>7, <2>8, <2>9, <2>10 DEF Next, Handle
<1> QED
  BY <1>1, <1>2, PTL DEF Spec

-----------------------------------------------------------------------------
(* The floor's inductive invariant.  Only commits and deletes write what it
   is about, so most steps are framed by one lemma: the rows and lot
   statuses are unchanged and a transaction opens or closes. *)

(* Steps that leave the rows alone and open no transaction or offer. *)
LEMMA FrameKeepsInvariant ==
  ASSUME TypeOK, FloorInvariant,
         UNCHANGED <<lotStatus, bids, sales, call>>,
         \A u \in Users : buyer[u] = "REMOVED" => buyer'[u] = "REMOVED",
         \A o \in (Open \ doomed)' : o \in Open \ doomed /\ seen'[o] = seen[o],
         \A r \in Requests : pc'[r] = "offer" => pc[r] = "offer" /\ seen'[r] = seen[r]
  PROVE  FloorInvariant'
<1>1. OneWinningBid' /\ OneLotOnStage' /\ SoldMeansOneSale' /\ SaleIsRecordedBid'
  BY DEF FloorInvariant, OneWinningBid, OneLotOnStage, OnStage, SoldMeansOneSale,
         SaleIsRecordedBid, SaleOf
<1>2. SnapshotHolds'
  BY DEF FloorInvariant, SnapshotHolds, WinningBids, OnStage
<1>3. OfferStands'
  <2> SUFFICES ASSUME NEW r \in Requests, pc'[r] = "offer", NEW b \in seen'[r]
               PROVE  \/ lotStatus'[b.lot] = "REMOVED"
                      \/ buyer'[b.bidder] = "REMOVED"
                      \/ \E c \in bids' : SaleOf(c) = SaleOf(b)
    BY DEF OfferStands, SaleOf
  <2>1. pc[r] = "offer" /\ b \in seen[r] /\ b \in BidRow
    BY DEF TypeOK
  <2> QED
    BY <2>1 DEF FloorInvariant, OfferStands, BidRow
<1> QED
  BY <1>1, <1>2, <1>3 DEF FloorInvariant

(* Opening the transaction of a bid changes no row, and what it reads is the
   present winner. *)
LEMMA BeginBidKeepsInvariant ==
  ASSUME TypeOK, FloorInvariant, NEW r \in Requests, BeginBid(r)
  PROVE  FloorInvariant'
<1> USE DEF BeginBid, Goto, database
<1>0. r \in DOMAIN pc /\ r \in DOMAIN seen /\ pc'[r] = "open" /\ call[r] \in BidCall
  BY CallTypes DEF TypeOK
<1>1. OneWinningBid' /\ OneLotOnStage' /\ SoldMeansOneSale' /\ SaleIsRecordedBid'
  BY DEF FloorInvariant, OneWinningBid, OneLotOnStage, OnStage, SoldMeansOneSale,
         SaleIsRecordedBid, SaleOf
<1>2. OfferStands'
  BY <1>0 DEF FloorInvariant, OfferStands, SaleOf, TypeOK
<1>3. ASSUME NEW b \in WinningBids(call[r].lot)
      PROVE  call[r].amount >= b.amount + EffectiveBidIncrement(MinBidIncrement)
  <2>1. \A c \in WinningBids(call[r].lot) : c = b
    BY <1>3 DEF FloorInvariant, OneWinningBid, WinningBids
  <2>2. b \in BidRow /\ b.amount \in Nat
    BY <1>3 DEF TypeOK, WinningBids, BidRow
  <2>3. PICK winning \in WinningAmounts(call[r].lot) :
          call[r].amount >= MinimumBidAmount(InitialPrice[call[r].lot], winning, MinBidIncrement)
    BY DEF BidAdmissible
  <2>4. winning = b.amount
    BY <2>1, <2>3, <1>3 DEF WinningAmounts, HighestWinning
  <2>5. winning # NoPrice
    BY <2>2, <2>4, PriceAssumption
  <2> QED
    BY <2>3, <2>4, <2>5 DEF MinimumBidAmount
<1>4. SnapshotHolds'
  <2> SUFFICES ASSUME NEW o \in (Open \ doomed)'
               PROVE  /\ call'[o].kind = "bid" =>
                           /\ seen'[o] = WinningBids(call[o].lot)
                           /\ \A b \in seen'[o] :
                                call[o].amount >= b.amount + EffectiveBidIncrement(MinBidIncrement)
                      /\ call'[o].kind = "stage" =>
                           /\ lotStatus'[call[o].lot] \notin {"SOLD", "REMOVED"}
                           /\ call[o].target = "IN_AUCTION" =>
                                OnStage(AuctionOf[call[o].lot]) \subseteq {call[o].lot}
    BY DEF SnapshotHolds, WinningBids, OnStage
  <2>1. CASE o = r
    BY <2>1, <1>0, <1>3 DEF TypeOK
  <2>2. CASE o # r
    <3>1. o \in Open \ doomed /\ seen'[o] = seen[o]
      BY <2>2 DEF Open, TypeOK
    <3> QED
      BY <3>1 DEF FloorInvariant, SnapshotHolds
  <2> QED
    BY <2>1, <2>2
<1> QED
  BY <1>1, <1>2, <1>4 DEF FloorInvariant

(* A committing bid has read the winner of its lot, so the one it demotes is
   the only one and the new row takes its place. *)
LEMMA CommitBidKeepsInvariant ==
  ASSUME TypeOK, FloorInvariant, NEW r \in Requests, CommitBid(r)
  PROVE  FloorInvariant'
<1> DEFINE lot == call[r].lot
<1>1. /\ call[r] \in BidCall
      /\ r \in Open \ doomed
      /\ seen[r] = WinningBids(lot)
      /\ seen[r] \subseteq BidRow
  BY CallTypes DEF CommitBid, Open, FloorInvariant, SnapshotHolds, TypeOK
<1>2. /\ NewBid(r) \in BidRow /\ NewBid(r).lot = lot /\ NewBid(r).status = "WINNING"
      /\ \A b \in BidRow : /\ Outbid(b) \in BidRow /\ Outbid(b).status = "OUTBID"
                            /\ SaleOf(Outbid(b)) = SaleOf(b)
  BY <1>1 DEF NewBid, Outbid, BidRow, BidCall, BidAmount, SaleOf
<1>3. /\ bids' = (bids \ seen[r]) \cup {Outbid(b) : b \in seen[r]} \cup {NewBid(r)}
      /\ UNCHANGED <<lotStatus, sales, buyer, call>>
      /\ pc' = [pc EXCEPT ![r] = "committed"]
      /\ seen' = [seen EXCEPT ![r] = {}]
  BY DEF CommitBid, Goto
<1>4. \A b \in bids' : b.status = "WINNING" => b = NewBid(r) \/ (b \in bids /\ b.lot # lot)
  BY <1>1, <1>2, <1>3 DEF WinningBids
<1>5. OneWinningBid'
  BY <1>2, <1>4 DEF OneWinningBid, FloorInvariant
<1>6. OneLotOnStage' /\ SoldMeansOneSale'
  BY <1>3 DEF FloorInvariant, OneLotOnStage, OnStage, SoldMeansOneSale
<1>7. \A b \in bids : \E c \in bids' : SaleOf(c) = SaleOf(b)
  BY <1>1, <1>2, <1>3
<1>8. SaleIsRecordedBid'
  <2>1. \A s \in sales : \E b \in bids' : SaleOf(b) = s
    BY <1>7 DEF FloorInvariant, SaleIsRecordedBid
  <2> QED
    BY <1>3, <2>1 DEF SaleIsRecordedBid, SaleOf
<1>9. SnapshotHolds'
  <2> SUFFICES ASSUME NEW o \in (Open \ doomed)'
               PROVE  /\ call'[o].kind = "bid" =>
                           /\ seen'[o] = WinningBids(call[o].lot)'
                           /\ \A b \in seen'[o] :
                                call[o].amount >= b.amount + EffectiveBidIncrement(MinBidIncrement)
                      /\ call'[o].kind = "stage" =>
                           /\ lotStatus'[call[o].lot] \notin {"SOLD", "REMOVED"}
                           /\ call[o].target = "IN_AUCTION" =>
                                OnStage(AuctionOf[call[o].lot]) \subseteq {call[o].lot}
    BY <1>3 DEF SnapshotHolds, WinningBids, OnStage
  <2>1. o \in Open \ doomed /\ o # r /\ seen'[o] = seen[o] /\ call'[o] = call[o]
    BY <1>3 DEF Open, TypeOK, CommitBid, RefuseRivals
  <2>2. ~ Clash(call[o], call[r])
    BY <2>1 DEF CommitBid, RefuseRivals
  <2>3. CASE call[o].kind = "bid"
    <3>1. call[o].lot # lot
      BY <2>2, <2>3 DEF Clash
    <3>2. WinningBids(call[o].lot)' = WinningBids(call[o].lot)
      BY <3>1, <1>1, <1>2, <1>3, <2>1 DEF WinningBids
    <3> QED
      BY <2>1, <2>3, <3>2 DEF FloorInvariant, SnapshotHolds
  <2>4. CASE call[o].kind # "bid"
    BY <1>3, <2>1, <2>4 DEF FloorInvariant, SnapshotHolds
  <2> QED
    BY <2>3, <2>4
<1>10. OfferStands'
  <2> SUFFICES ASSUME NEW q \in Requests, pc'[q] = "offer", NEW b \in seen'[q]
               PROVE  \/ lotStatus[b.lot] = "REMOVED"
                      \/ buyer[b.bidder] = "REMOVED"
                      \/ \E c \in bids' : SaleOf(c) = SaleOf(b)
    BY <1>3 DEF OfferStands, SaleOf
  <2>1. pc[q] = "offer" /\ b \in seen[q]
    BY <1>3 DEF TypeOK
  <2> QED
    BY <2>1, <1>7 DEF FloorInvariant, OfferStands
<1> QED
  BY <1>5, <1>6, <1>8, <1>9, <1>10 DEF FloorInvariant

(* A change of stage that opens its transaction has found its transition legal. *)
LEMMA StageKeepsInvariant ==
  ASSUME TypeOK, FloorInvariant, NEW r \in Requests, BeginStage(r)
  PROVE  FloorInvariant'
<1> USE DEF BeginStage, Goto, database
<1>1. OneWinningBid' /\ OneLotOnStage' /\ SoldMeansOneSale' /\ SaleIsRecordedBid'
  BY DEF FloorInvariant, OneWinningBid, OneLotOnStage, OnStage, SoldMeansOneSale,
         SaleIsRecordedBid, SaleOf
<1>2. OfferStands'
  BY DEF FloorInvariant, OfferStands, SaleOf, TypeOK
<1>3. SnapshotHolds'
  <2> SUFFICES ASSUME NEW o \in (Open \ doomed)'
               PROVE  /\ call[o].kind = "bid" =>
                           /\ seen[o] = WinningBids(call[o].lot)
                           /\ \A b \in seen[o] :
                                call[o].amount >= b.amount + EffectiveBidIncrement(MinBidIncrement)
                      /\ call[o].kind = "stage" =>
                           /\ lotStatus[call[o].lot] \notin {"SOLD", "REMOVED"}
                           /\ call[o].target = "IN_AUCTION" =>
                                OnStage(AuctionOf[call[o].lot]) \subseteq {call[o].lot}
    BY DEF SnapshotHolds, WinningBids, OnStage
  <2>1. CASE o = r
    BY <2>1 DEF StageLegal, WaitingStatus
  <2>2. CASE o # r
    BY <2>2 DEF Open, TypeOK, FloorInvariant, SnapshotHolds
  <2> QED
    BY <2>1, <2>2
<1> QED
  BY <1>1, <1>2, <1>3 DEF FloorInvariant

(* A change of stage that commits moves one lot by a legal transition and
   refuses the rivals that would bring up another lot. *)
LEMMA CommitStageKeepsInvariant ==
  ASSUME TypeOK, FloorInvariant, NEW r \in Requests, CommitStage(r)
  PROVE  FloorInvariant'
<1> DEFINE lot == call[r].lot
<1>1. /\ call[r] \in StageCall /\ lot \in Lots
      /\ r \in Open \ doomed
      /\ lotStatus[lot] \notin {"SOLD", "REMOVED"}
      /\ call[r].target = "IN_AUCTION" => OnStage(AuctionOf[lot]) \subseteq {lot}
  BY CallTypes DEF CommitStage, Open, FloorInvariant, SnapshotHolds, StageCall
<1>2. /\ UNCHANGED <<bids, sales, buyer, call, seen>>
      /\ lotStatus' = [lotStatus EXCEPT ![lot] = call[r].target]
      /\ pc' = [pc EXCEPT ![r] = "committed"]
  BY DEF CommitStage, Goto
<1>3. lotStatus'[lot] \in {"AVAILABLE", "IN_AUCTION"}
  BY <1>1, <1>2 DEF StageCall, TypeOK
<1>4. \A l \in Lots : l # lot => lotStatus'[l] = lotStatus[l]
  BY <1>2 DEF TypeOK
<1>5. OneWinningBid' /\ SaleIsRecordedBid'
  BY <1>2 DEF FloorInvariant, OneWinningBid, SaleIsRecordedBid, SaleOf
<1>6. OneLotOnStage'
  <2> SUFFICES ASSUME NEW a \in Auctions, NEW l \in OnStage(a)', NEW m \in OnStage(a)'
               PROVE  l = m
    BY DEF OneLotOnStage
  <2>1. CASE l # lot /\ m # lot
    BY <1>4, <2>1 DEF OnStage, FloorInvariant, OneLotOnStage
  <2>2. CASE (l = lot \/ m = lot) /\ l # m
    <3>1. call[r].target = "IN_AUCTION" /\ AuctionOf[lot] = a
      BY <1>1, <1>2, <2>2 DEF OnStage, TypeOK, StageCall
    <3> QED
      BY <1>1, <1>4, <2>2, <3>1 DEF OnStage
  <2> QED
    BY <2>1, <2>2
<1>7. SoldMeansOneSale'
  BY <1>1, <1>2, <1>3, <1>4 DEF FloorInvariant, SoldMeansOneSale
<1>8. SnapshotHolds'
  <2> SUFFICES ASSUME NEW o \in (Open \ doomed)'
               PROVE  /\ call[o].kind = "bid" =>
                           /\ seen[o] = WinningBids(call[o].lot)
                           /\ \A b \in seen[o] :
                                call[o].amount >= b.amount + EffectiveBidIncrement(MinBidIncrement)
                      /\ call[o].kind = "stage" =>
                           /\ lotStatus'[call[o].lot] \notin {"SOLD", "REMOVED"}
                           /\ call[o].target = "IN_AUCTION" =>
                                OnStage(AuctionOf[call[o].lot])' \subseteq {call[o].lot}
    BY <1>2 DEF SnapshotHolds, WinningBids, OnStage
  <2>1. o \in Open \ doomed /\ o # r
    BY <1>2 DEF Open, TypeOK, CommitStage, RefuseRivals
  <2>2. ~ Clash(call[o], call[r])
    BY <2>1 DEF CommitStage, RefuseRivals
  <2>3. CASE call[o].kind = "stage"
    <3>1. AuctionOf[call[o].lot] # AuctionOf[lot] /\ call[o].lot \in Lots
      BY <1>1, <2>1, <2>2, <2>3, CallTypes DEF Clash, StageCall, Open
    <3>2. OnStage(AuctionOf[call[o].lot])' = OnStage(AuctionOf[call[o].lot])
      BY <1>2, <1>4, <3>1 DEF OnStage
    <3> QED
      BY <1>4, <2>1, <2>3, <3>1, <3>2 DEF FloorInvariant, SnapshotHolds
  <2>4. CASE call[o].kind # "stage"
    BY <2>1, <2>4 DEF FloorInvariant, SnapshotHolds
  <2> QED
    BY <2>3, <2>4
<1>9. OfferStands'
  <2> SUFFICES ASSUME NEW q \in Requests, pc'[q] = "offer", NEW b \in seen[q]
               PROVE  \/ lotStatus'[b.lot] = "REMOVED"
                      \/ buyer[b.bidder] = "REMOVED"
                      \/ \E c \in bids : SaleOf(c) = SaleOf(b)
    BY <1>2 DEF OfferStands, SaleOf
  <2>1. pc[q] = "offer" /\ b \in BidRow /\ b.lot \in Lots
    BY <1>2 DEF TypeOK, BidRow
  <2> QED
    BY <1>1, <1>4, <2>1 DEF FloorInvariant, OfferStands
<1> QED
  BY <1>5, <1>6, <1>7, <1>8, <1>9 DEF FloorInvariant

(* A sale reads the winner of its lot before it opens its transaction. *)
LEMMA ReadWinnerKeepsInvariant ==
  ASSUME TypeOK, FloorInvariant, NEW r \in Requests, ReadWinner(r)
  PROVE  FloorInvariant'
<1>1. PICK b \in HighestWinning(call[r].lot) : seen' = [seen EXCEPT ![r] = {b}]
  BY DEF ReadWinner
<1>2. /\ UNCHANGED <<lotStatus, bids, sales, buyer, call, doomed>>
      /\ pc' = [pc EXCEPT ![r] = "offer"]
      /\ pc[r] = "lotRead"
  BY DEF ReadWinner, Goto, database
<1>3. OneWinningBid' /\ OneLotOnStage' /\ SoldMeansOneSale' /\ SaleIsRecordedBid'
  BY <1>2 DEF FloorInvariant, OneWinningBid, OneLotOnStage, OnStage, SoldMeansOneSale,
              SaleIsRecordedBid, SaleOf
<1>4. \A o \in (Open \ doomed)' : o \in Open \ doomed /\ seen'[o] = seen[o]
  BY <1>1, <1>2 DEF Open, TypeOK
<1>5. SnapshotHolds'
  BY <1>2, <1>4 DEF FloorInvariant, SnapshotHolds, WinningBids, OnStage
<1>6. OfferStands'
  <2> SUFFICES ASSUME NEW q \in Requests, pc'[q] = "offer", NEW c \in seen'[q]
               PROVE  \/ lotStatus[c.lot] = "REMOVED"
                      \/ buyer[c.bidder] = "REMOVED"
                      \/ \E d \in bids : SaleOf(d) = SaleOf(c)
    BY <1>2 DEF OfferStands, SaleOf
  <2>1. CASE q = r
    BY <1>1, <2>1 DEF HighestWinning, WinningBids, TypeOK
  <2>2. CASE q # r
    BY <1>1, <1>2, <2>2 DEF FloorInvariant, OfferStands, TypeOK
  <2> QED
    BY <2>1, <2>2
<1> QED
  BY <1>3, <1>5, <1>6 DEF FloorInvariant

(* A committing sale is the only one of its lot, and refuses the stage changes
   that would take the lot back. *)
LEMMA CommitSaleKeepsInvariant ==
  ASSUME TypeOK, FloorInvariant, NEW r \in Requests, CommitSale(r)
  PROVE  FloorInvariant'
<1>1. PICK b \in seen[r] :
        /\ SaleRowFits(SaleOf(b))
        /\ sales' = sales \cup {SaleOf(b)}
        /\ lotStatus' = [lotStatus EXCEPT ![b.lot] = "SOLD"]
        /\ doomed' = doomed \cup {o \in Open : call[o].kind = "stage" /\ call[o].lot = b.lot}
  BY DEF CommitSale
<1>2. /\ UNCHANGED <<bids, buyer, call>>
      /\ pc' = [pc EXCEPT ![r] = "committed"]
      /\ seen' = [seen EXCEPT ![r] = {}]
      /\ pc[r] = "offer"
  BY DEF CommitSale, Goto
<1>3. b \in BidRow /\ b.lot \in Lots /\ SaleOf(b).lot = b.lot /\ SaleOf(b).buyer = b.bidder
  BY DEF TypeOK, BidRow, SaleOf
<1>4. /\ lotStatus[b.lot] # "REMOVED" /\ buyer[b.bidder] # "REMOVED"
      /\ \A s \in sales : s.lot # b.lot
  BY <1>1, <1>3 DEF SaleRowFits
<1>5. lotStatus'[b.lot] = "SOLD" /\ \A l \in Lots : l # b.lot => lotStatus'[l] = lotStatus[l]
  BY <1>1, <1>3 DEF TypeOK
<1>6. OneWinningBid' /\ OneLotOnStage'
  BY <1>2, <1>5 DEF FloorInvariant, OneWinningBid, OneLotOnStage, OnStage
<1>7. SoldMeansOneSale'
  BY <1>1, <1>3, <1>4, <1>5 DEF FloorInvariant, SoldMeansOneSale
<1>8. SaleIsRecordedBid'
  <2>1. \E c \in bids : SaleOf(c) = SaleOf(b)
    BY <1>2, <1>4 DEF FloorInvariant, OfferStands
  <2>2. \A s \in sales' : \E c \in bids : SaleOf(c) = s
    BY <1>1, <2>1 DEF FloorInvariant, SaleIsRecordedBid
  <2> QED
    BY <1>2, <2>2 DEF SaleIsRecordedBid, SaleOf
<1>9. SnapshotHolds'
  <2> SUFFICES ASSUME NEW o \in (Open \ doomed)'
               PROVE  /\ call[o].kind = "bid" =>
                           /\ seen'[o] = WinningBids(call[o].lot)
                           /\ \A w \in seen'[o] :
                                call[o].amount >= w.amount + EffectiveBidIncrement(MinBidIncrement)
                      /\ call[o].kind = "stage" =>
                           /\ lotStatus'[call[o].lot] \notin {"SOLD", "REMOVED"}
                           /\ call[o].target = "IN_AUCTION" =>
                                OnStage(AuctionOf[call[o].lot])' \subseteq {call[o].lot}
    BY <1>2 DEF SnapshotHolds, WinningBids, OnStage
  <2>1. o \in Open \ doomed /\ o # r /\ seen'[o] = seen[o]
    BY <1>1, <1>2 DEF Open, TypeOK
  <2>2. CASE call[o].kind = "stage"
    <3>1. call[o].lot # b.lot /\ call[o].lot \in Lots
      BY <1>1, <2>1, <2>2, CallTypes DEF StageCall, Open
    <3>2. OnStage(AuctionOf[call[o].lot])' \subseteq OnStage(AuctionOf[call[o].lot])
      BY <1>2, <1>5 DEF OnStage
    <3> QED
      BY <1>5, <2>1, <2>2, <3>1, <3>2 DEF FloorInvariant, SnapshotHolds
  <2>3. CASE call[o].kind # "stage"
    BY <2>1, <2>3 DEF FloorInvariant, SnapshotHolds
  <2> QED
    BY <2>2, <2>3
<1>10. OfferStands'
  <2> SUFFICES ASSUME NEW q \in Requests, pc'[q] = "offer", NEW c \in seen'[q]
               PROVE  \/ lotStatus'[c.lot] = "REMOVED"
                      \/ buyer[c.bidder] = "REMOVED"
                      \/ \E d \in bids : SaleOf(d) = SaleOf(c)
    BY <1>2 DEF OfferStands, SaleOf
  <2>1. pc[q] = "offer" /\ c \in seen[q] /\ c.lot \in Lots
    BY <1>2 DEF TypeOK, BidRow
  <2> QED
    BY <1>4, <1>5, <2>1 DEF FloorInvariant, OfferStands
<1> QED
  BY <1>6, <1>7, <1>8, <1>9, <1>10 DEF FloorInvariant

(* Deleting a lot takes its bids and its sale with it. *)
LEMMA DeleteLotKeepsInvariant ==
  ASSUME TypeOK, FloorInvariant, NEW r \in Requests, DeleteLot(r)
  PROVE  FloorInvariant'
<1> DEFINE lot == call[r].lot
<1>1. /\ lot \in Lots
      /\ lotStatus' = [lotStatus EXCEPT ![lot] = "REMOVED"]
      /\ bids' = {b \in bids : b.lot # lot}
      /\ sales' = {s \in sales : s.lot # lot}
      /\ doomed' = doomed \cup {o \in Open : call[o].lot = lot}
      /\ UNCHANGED <<buyer, call, seen>>
      /\ pc' = [pc EXCEPT ![r] = "done"]
  BY CallTypes DEF DeleteLot, Goto, RemoveLotCall
<1>2. lotStatus'[lot] = "REMOVED" /\ \A l \in Lots : l # lot => lotStatus'[l] = lotStatus[l]
  BY <1>1 DEF TypeOK
<1>3. OneWinningBid' /\ OneLotOnStage'
  BY <1>1, <1>2 DEF FloorInvariant, OneWinningBid, OneLotOnStage, OnStage
<1>4. SoldMeansOneSale'
  BY <1>1, <1>2 DEF FloorInvariant, SoldMeansOneSale
<1>5. SaleIsRecordedBid'
  <2>1. \A s \in sales' : \E b \in bids' : SaleOf(b) = s
    BY <1>1 DEF FloorInvariant, SaleIsRecordedBid, SaleOf
  <2> QED
    BY <2>1 DEF SaleIsRecordedBid, SaleOf
<1>6. SnapshotHolds'
  <2> SUFFICES ASSUME NEW o \in (Open \ doomed)'
               PROVE  /\ call[o].kind = "bid" =>
                           /\ seen[o] = WinningBids(call[o].lot)'
                           /\ \A w \in seen[o] :
                                call[o].amount >= w.amount + EffectiveBidIncrement(MinBidIncrement)
                      /\ call[o].kind = "stage" =>
                           /\ lotStatus'[call[o].lot] \notin {"SOLD", "REMOVED"}
                           /\ call[o].target = "IN_AUCTION" =>
                                OnStage(AuctionOf[call[o].lot])' \subseteq {call[o].lot}
    BY <1>1 DEF SnapshotHolds, WinningBids, OnStage
  <2>1. o \in Open \ doomed /\ call[o].lot # lot
    BY <1>1 DEF Open, TypeOK
  <2>2. CASE call[o].kind = "stage"
    <3>1. call[o].lot \in Lots
      BY <2>1, <2>2, CallTypes DEF StageCall, Open
    <3>2. OnStage(AuctionOf[call[o].lot])' \subseteq OnStage(AuctionOf[call[o].lot])
      BY <1>1, <1>2 DEF OnStage
    <3> QED
      BY <1>2, <2>1, <2>2, <3>1, <3>2 DEF FloorInvariant, SnapshotHolds
  <2>3. CASE call[o].kind # "stage"
    <3>1. WinningBids(call[o].lot)' = WinningBids(call[o].lot)
      BY <1>1, <2>1 DEF WinningBids
    <3> QED
      BY <2>1, <2>3, <3>1 DEF FloorInvariant, SnapshotHolds
  <2> QED
    BY <2>2, <2>3
<1>7. OfferStands'
  <2> SUFFICES ASSUME NEW q \in Requests, pc'[q] = "offer", NEW c \in seen[q]
               PROVE  \/ lotStatus'[c.lot] = "REMOVED"
                      \/ buyer[c.bidder] = "REMOVED"
                      \/ \E d \in bids' : SaleOf(d) = SaleOf(c)
    BY <1>1 DEF OfferStands, SaleOf
  <2>1. pc[q] = "offer" /\ c.lot \in Lots
    BY <1>1 DEF TypeOK, BidRow
  <2>2. CASE c.lot = lot
    BY <1>2, <2>2
  <2>3. CASE c.lot # lot
    <3>1. \A d \in bids : SaleOf(d) = SaleOf(c) => d \in bids'
      BY <1>1, <2>3 DEF SaleOf
    <3> QED
      BY <1>2, <2>1, <2>3, <3>1 DEF FloorInvariant, OfferStands
  <2> QED
    BY <2>2, <2>3
<1> QED
  BY <1>3, <1>4, <1>5, <1>6, <1>7 DEF FloorInvariant

(* Deleting a user takes the bids of the user, never those of a sale. *)
LEMMA DeleteUserKeepsInvariant ==
  ASSUME TypeOK, FloorInvariant, NEW r \in Requests, DeleteUser(r)
  PROVE  FloorInvariant'
<1> DEFINE user == call[r].user
<1>1. /\ user \in Users
      /\ ~ HasSale(user)
      /\ buyer' = [buyer EXCEPT ![user] = "REMOVED"]
      /\ bids' = {b \in bids : b.bidder # user}
      /\ \A o \in Open \ doomed' : call[o].kind = "bid" => \A b \in seen[o] : b.bidder # user
      /\ doomed \subseteq doomed'
      /\ UNCHANGED <<lotStatus, sales, call, seen>>
      /\ pc' = [pc EXCEPT ![r] = "done"]
  BY CallTypes DEF DeleteUser, UserDeletable, Goto, RemoveUserCall
<1>2. buyer'[user] = "REMOVED" /\ \A u \in Users : u # user => buyer'[u] = buyer[u]
  BY <1>1 DEF TypeOK
<1>3. OneWinningBid' /\ OneLotOnStage' /\ SoldMeansOneSale'
  BY <1>1 DEF FloorInvariant, OneWinningBid, OneLotOnStage, OnStage, SoldMeansOneSale
<1>4. SaleIsRecordedBid'
  <2>1. \A s \in sales : \E b \in bids' : SaleOf(b) = s
    BY <1>1 DEF FloorInvariant, SaleIsRecordedBid, SaleOf, HasSale
  <2> QED
    BY <1>1, <2>1 DEF SaleIsRecordedBid, SaleOf
<1>5. SnapshotHolds'
  <2> SUFFICES ASSUME NEW o \in (Open \ doomed)'
               PROVE  /\ call[o].kind = "bid" =>
                           /\ seen[o] = WinningBids(call[o].lot)'
                           /\ \A w \in seen[o] :
                                call[o].amount >= w.amount + EffectiveBidIncrement(MinBidIncrement)
                      /\ call[o].kind = "stage" =>
                           /\ lotStatus[call[o].lot] \notin {"SOLD", "REMOVED"}
                           /\ call[o].target = "IN_AUCTION" =>
                                OnStage(AuctionOf[call[o].lot]) \subseteq {call[o].lot}
    BY <1>1 DEF SnapshotHolds, WinningBids, OnStage
  <2>1. o \in Open \ doomed /\ o \in Open \ doomed'
    BY <1>1 DEF Open, TypeOK
  <2>2. CASE call[o].kind = "bid"
    <3>1. seen[o] = WinningBids(call[o].lot)
      BY <2>1, <2>2 DEF FloorInvariant, SnapshotHolds
    <3>2. WinningBids(call[o].lot)' = WinningBids(call[o].lot)
      BY <1>1, <2>1, <2>2, <3>1 DEF WinningBids
    <3> QED
      BY <2>1, <2>2, <3>1, <3>2 DEF FloorInvariant, SnapshotHolds
  <2>3. CASE call[o].kind # "bid"
    BY <2>1, <2>3 DEF FloorInvariant, SnapshotHolds
  <2> QED
    BY <2>2, <2>3
<1>6. OfferStands'
  <2> SUFFICES ASSUME NEW q \in Requests, pc'[q] = "offer", NEW c \in seen[q]
               PROVE  \/ lotStatus[c.lot] = "REMOVED"
                      \/ buyer'[c.bidder] = "REMOVED"
                      \/ \E d \in bids' : SaleOf(d) = SaleOf(c)
    BY <1>1 DEF OfferStands, SaleOf
  <2>1. pc[q] = "offer" /\ c.bidder \in Users
    BY <1>1 DEF TypeOK, BidRow
  <2>2. CASE c.bidder = user
    BY <1>2, <2>2
  <2>3. CASE c.bidder # user
    <3>1. \A d \in bids : SaleOf(d) = SaleOf(c) => d \in bids'
      BY <1>1, <2>3 DEF SaleOf
    <3> QED
      BY <1>2, <2>1, <2>3, <3>1 DEF FloorInvariant, OfferStands
  <2> QED
    BY <2>2, <2>3
<1> QED
  BY <1>3, <1>4, <1>5, <1>6 DEF FloorInvariant

(* Deleting an auction leaves the rows of its lots, bids and sales in place. *)
LEMMA DeleteAuctionKeepsInvariant ==
  ASSUME TypeOK, FloorInvariant, NEW r \in Requests, DeleteAuction(r)
  PROVE  FloorInvariant'
<1>1. \A o \in Requests : pc'[o] \in {"open", "offer"} => pc'[o] = pc[o]
  BY DEF DeleteAuction, Goto, TypeOK
<1>2. UNCHANGED <<lotStatus, bids, sales, buyer, call, seen>> /\ doomed \subseteq doomed'
  BY DEF DeleteAuction, database
<1> QED
  BY <1>1, <1>2, FrameKeepsInvariant DEF Open

(* A handler that moves on without opening a transaction or an offer. *)
LEMMA AnswerKeepsInvariant ==
  ASSUME TypeOK, FloorInvariant, NEW r \in Requests, NEW phase,
         phase \notin {"open", "offer"}, Answer(r, phase)
  PROVE  FloorInvariant'
<1>1. \A o \in Requests : pc'[o] \in {"open", "offer"} => pc'[o] = pc[o]
  BY DEF Answer, Goto, TypeOK
<1>2. UNCHANGED <<lotStatus, bids, sales, buyer, call, seen, doomed>>
  BY DEF Answer, database
<1> QED
  BY <1>1, <1>2, FrameKeepsInvariant DEF Open

(* A handler whose transaction ends without writing anything. *)
LEMMA DropKeepsInvariant ==
  ASSUME TypeOK, FloorInvariant, NEW r \in Requests, NEW phase,
         phase \notin {"open", "offer"}, Goto(r, phase),
         seen' = [seen EXCEPT ![r] = {}],
         doomed' \in {doomed, doomed \ {r}},
         UNCHANGED <<database, call>>
  PROVE  FloorInvariant'
<1>1. \A o \in Requests : pc'[o] \in {"open", "offer"} =>
        o # r /\ pc'[o] = pc[o] /\ seen'[o] = seen[o]
  BY DEF Goto, TypeOK
<1>2. UNCHANGED <<lotStatus, bids, sales, buyer, call>>
  BY DEF database
<1> QED
  BY <1>1, <1>2, FrameKeepsInvariant DEF Open

(* Every reachable state of the floor: one winner per lot, one lot on stage
   per auction, SOLD exactly with one sale, every sale a recorded bid, and
   every transaction the database still accepts reads what is true. *)
THEOREM FloorIsConsistent == Spec => []FloorInvariant
<1>1. Init => FloorInvariant
  BY DEF Init, FloorInvariant, OneWinningBid, SoldMeansOneSale, SaleIsRecordedBid,
         SnapshotHolds, OfferStands, Open
<1>2. TypeOK /\ FloorInvariant /\ [Next]_vars => FloorInvariant'
  <2> SUFFICES ASSUME TypeOK, FloorInvariant, [Next]_vars PROVE FloorInvariant'
    OBVIOUS
  <2>1. ASSUME NEW r \in Requests, NEW retried \in BOOLEAN, Refused(r, retried)
        PROVE FloorInvariant'
    BY <2>1, DropKeepsInvariant DEF Refused
  <2>2. ASSUME NEW r \in Requests, Bid(r) PROVE FloorInvariant'
    BY <2>1, <2>2, BeginBidKeepsInvariant, CommitBidKeepsInvariant, AnswerKeepsInvariant
       DEF Bid, RejectBid, RefuseBid
  <2>3. ASSUME NEW r \in Requests, Stage(r) PROVE FloorInvariant'
    BY <2>1, <2>3, StageKeepsInvariant, CommitStageKeepsInvariant, AnswerKeepsInvariant
       DEF Stage, KeepStage, RejectStage, RefuseStage
  <2>4. ASSUME NEW r \in Requests, Sale(r) PROVE FloorInvariant'
    <3>1. CASE RejectSale(r)
      BY <3>1, DropKeepsInvariant DEF RejectSale
    <3>2. CASE ReadLot(r) \/ NoWinner(r)
      BY <3>2, AnswerKeepsInvariant DEF ReadLot, NoWinner
    <3> QED
      BY <2>4, <3>1, <3>2, ReadWinnerKeepsInvariant, CommitSaleKeepsInvariant DEF Sale
  <2>5. ASSUME NEW r \in Requests, RemoveLot(r) \/ RemoveUser(r) PROVE FloorInvariant'
    BY <2>5, DeleteLotKeepsInvariant, DeleteUserKeepsInvariant, AnswerKeepsInvariant
       DEF RemoveLot, RemoveUser, CheckLot, LotGone, CheckUser, UserKept
  <2>6. ASSUME NEW r \in Requests, Emit(r) \/ Lose(r) PROVE FloorInvariant'
    BY <2>6, AnswerKeepsInvariant, DropKeepsInvariant DEF Emit, Lose
  <2>7. ASSUME Surroundings PROVE FloorInvariant'
    <3>1. /\ UNCHANGED <<lotStatus, bids, sales, call, pc, seen, doomed>>
          /\ \A u \in Users : buyer[u] = "REMOVED" => buyer'[u] = "REMOVED"
      BY <2>7 DEF Surroundings, Review, CloseAccess, CloseAuction, database, control, TypeOK
    <3> QED
      BY <3>1, FrameKeepsInvariant DEF Open
  <2>8. ASSUME NEW r \in Requests, RemoveAuction(r) PROVE FloorInvariant'
    BY <2>8, DeleteAuctionKeepsInvariant, AnswerKeepsInvariant
       DEF RemoveAuction, CheckAuction, AuctionGone
  <2>9. CASE UNCHANGED vars
    BY <2>9, FrameKeepsInvariant DEF vars, Open
  <2> QED
    BY <2>2, <2>3, <2>4, <2>5, <2>6, <2>7, <2>8, <2>9 DEF Next, Handle
<1> QED
  BY <1>1, <1>2, TypeCorrect, PTL DEF Spec

(* The promises of the floor, each for every reachable state. *)
COROLLARY FloorPromises ==
  Spec => /\ []OneWinningBid
          /\ []OneLotOnStage
          /\ []SoldMeansOneSale
          /\ []SaleIsRecordedBid
<1>1. FloorInvariant => /\ OneWinningBid /\ OneLotOnStage
                        /\ SoldMeansOneSale /\ SaleIsRecordedBid
  BY DEF FloorInvariant
<1> QED
  BY <1>1, FloorIsConsistent, PTL

(* A stage change never takes a sold lot back, however its transaction and
   the sale interleave. *)
THEOREM SoldNeverReturns == Spec => SoldIsFinal
<1> DEFINE Final == \A l \in Lots :
      lotStatus[l] = "SOLD" => lotStatus'[l] \in {"SOLD", "REMOVED"}
<1>1. TypeOK /\ FloorInvariant /\ [Next]_vars => [Final]_vars
  <2> SUFFICES ASSUME TypeOK, FloorInvariant, Next,
                      NEW l \in Lots, lotStatus[l] = "SOLD"
               PROVE  lotStatus'[l] \in {"SOLD", "REMOVED"}
    BY DEF Final
  <2>1. CASE UNCHANGED lotStatus
    BY <2>1
  <2>2. ASSUME NEW r \in Requests, CommitStage(r) PROVE lotStatus'[l] = "SOLD"
    <3>1. lotStatus[call[r].lot] # "SOLD"
      BY <2>2 DEF CommitStage, FloorInvariant, SnapshotHolds, Open
    <3> QED
      BY <2>2, <3>1 DEF CommitStage, TypeOK
  <2>3. ASSUME NEW r \in Requests, CommitSale(r) PROVE lotStatus'[l] = "SOLD"
    BY <2>3 DEF CommitSale, TypeOK
  <2>4. ASSUME NEW r \in Requests, DeleteLot(r) PROVE lotStatus'[l] \in {"SOLD", "REMOVED"}
    BY <2>4 DEF DeleteLot, TypeOK
  <2>5. ASSUME NEW r \in Requests, Stage(r) PROVE UNCHANGED lotStatus \/ CommitStage(r)
    BY <2>5 DEF Stage, BeginStage, KeepStage, RejectStage, RefuseStage, Refused, Answer, database
  <2>6. ASSUME NEW r \in Requests, Bid(r) PROVE UNCHANGED lotStatus
    BY <2>6 DEF Bid, BeginBid, RejectBid, CommitBid, RefuseBid, Refused, Answer, database
  <2>7. ASSUME NEW r \in Requests, Sale(r) PROVE UNCHANGED lotStatus \/ CommitSale(r)
    BY <2>7 DEF Sale, ReadLot, ReadWinner, NoWinner, RejectSale, Answer, database
  <2>8. ASSUME NEW r \in Requests, RemoveLot(r) \/ RemoveUser(r)
        PROVE  UNCHANGED lotStatus \/ DeleteLot(r)
    BY <2>8 DEF RemoveLot, CheckLot, LotGone, RemoveUser, CheckUser, DeleteUser, UserKept,
                Answer, database
  <2>9. ASSUME NEW r \in Requests, Emit(r) \/ Lose(r) PROVE UNCHANGED lotStatus
    BY <2>9 DEF Emit, Lose, Answer, database
  <2>10. ASSUME Surroundings PROVE UNCHANGED lotStatus
    BY <2>10 DEF Surroundings, Review, CloseAccess, CloseAuction, database
  <2>11. ASSUME NEW r \in Requests, RemoveAuction(r) PROVE UNCHANGED lotStatus
    BY <2>11 DEF RemoveAuction, CheckAuction, DeleteAuction, AuctionGone, Answer, database
  <2> QED
    BY <2>1, <2>2, <2>3, <2>4, <2>5, <2>6, <2>7, <2>8, <2>9, <2>10, <2>11 DEF Next, Handle
<1> QED
  BY <1>1, TypeCorrect, FloorIsConsistent, PTL DEF Spec, SoldIsFinal

(* While no bidder is deleted, the winner of a lot beats every bid recorded
   on it by at least the effective increment, for any number of bidders
   whose bids were priced on different snapshots. *)
THEOREM WinnerBeatsHistory ==
  ASSUME Calls \cap RemoveUserCall = {}
  PROVE  Spec => []WinnerTopsHistory
<1> DEFINE Inc == EffectiveBidIncrement(MinBidIncrement)
<1>0. Inc \in Nat
  BY FloorAssumption DEF EffectiveBidIncrement, BidStep
<1>1. Init => WinnerTopsHistory
  BY DEF Init, WinnerTopsHistory
<1>2. TypeOK /\ FloorInvariant /\ WinnerTopsHistory /\ [Next]_vars => WinnerTopsHistory'
  <2> SUFFICES ASSUME TypeOK, FloorInvariant, WinnerTopsHistory, [Next]_vars
               PROVE  WinnerTopsHistory'
    OBVIOUS
  <2>1. CASE UNCHANGED bids
    BY <2>1 DEF WinnerTopsHistory, WinningBids
  <2>2. ASSUME NEW r \in Requests, CommitBid(r) PROVE WinnerTopsHistory'
    <3> DEFINE lot == call[r].lot
    <3>1. /\ call[r] \in BidCall
          /\ seen[r] = WinningBids(lot)
          /\ seen[r] \subseteq BidRow
          /\ \A b \in seen[r] : call[r].amount >= b.amount + Inc
      BY <2>2, CallTypes DEF CommitBid, Open, FloorInvariant, SnapshotHolds, TypeOK
    <3>2. /\ NewBid(r).lot = lot /\ NewBid(r).status = "WINNING"
          /\ NewBid(r).amount = call[r].amount /\ call[r].amount \in Nat
      BY <3>1 DEF NewBid, BidCall, BidAmount
    <3>3. \A b \in BidRow : /\ Outbid(b).lot = b.lot /\ Outbid(b).amount = b.amount
                            /\ b.amount \in Nat
      BY DEF Outbid, BidRow
    <3>4. bids' = (bids \ seen[r]) \cup {Outbid(b) : b \in seen[r]} \cup {NewBid(r)}
      BY <2>2 DEF CommitBid
    <3>5. NewBid(r) \in bids'
      BY <3>4
    <3>6. ASSUME NEW b \in bids, b.lot = lot PROVE call[r].amount >= b.amount + Inc
      <4>1. PICK w \in WinningBids(lot) : b = w \/ w.amount >= b.amount + Inc
        BY <3>6 DEF WinnerTopsHistory
      <4>2. call[r].amount >= w.amount + Inc /\ w.amount \in Nat
        BY <3>1, <3>3, <4>1
      <4>3. b.amount \in Nat
        BY <3>3 DEF TypeOK
      <4> QED
        BY <1>0, <3>2, <4>1, <4>2, <4>3
    <3>7. ASSUME NEW b \in bids, b.lot # lot
          PROVE  \E w \in WinningBids(b.lot)' : b = w \/ w.amount >= b.amount + Inc
      <4>1. PICK w \in WinningBids(b.lot) : b = w \/ w.amount >= b.amount + Inc
        BY DEF WinnerTopsHistory
      <4>2. w \in WinningBids(b.lot)'
        BY <3>1, <3>4, <3>7, <4>1 DEF WinningBids
      <4> QED
        BY <4>1, <4>2
    <3>8. ASSUME NEW b \in bids'
          PROVE  \E w \in WinningBids(b.lot)' : b = w \/ w.amount >= b.amount + Inc
      <4>1. CASE b = NewBid(r)
        BY <3>2, <3>5, <4>1 DEF WinningBids
      <4>2. CASE b \in bids /\ b.lot = lot
        BY <3>2, <3>5, <3>6, <4>2 DEF WinningBids
      <4>3. CASE b \in bids /\ b.lot # lot
        BY <3>7, <4>3
      <4>4. CASE \E c \in seen[r] : b = Outbid(c)
        BY <3>1, <3>2, <3>3, <3>5, <4>4 DEF WinningBids
      <4> QED
        BY <3>4, <4>1, <4>2, <4>3, <4>4
    <3> QED
      BY <3>8 DEF WinnerTopsHistory
  <2>3. ASSUME NEW r \in Requests, DeleteLot(r) PROVE WinnerTopsHistory'
    <3>1. bids' = {b \in bids : b.lot # call[r].lot}
      BY <2>3 DEF DeleteLot
    <3> QED
      BY <3>1 DEF WinnerTopsHistory, WinningBids
  <2>4. ASSUME NEW r \in Requests, Bid(r) PROVE UNCHANGED bids \/ CommitBid(r)
    BY <2>4 DEF Bid, BeginBid, RejectBid, RefuseBid, Refused, Answer, database
  <2>5. ASSUME NEW r \in Requests, Stage(r) PROVE UNCHANGED bids
    BY <2>5 DEF Stage, BeginStage, KeepStage, RejectStage, CommitStage, RefuseStage, Refused,
                Answer, database
  <2>6. ASSUME NEW r \in Requests, Sale(r) PROVE UNCHANGED bids
    BY <2>6 DEF Sale, ReadLot, ReadWinner, NoWinner, CommitSale, RejectSale, Answer, database
  <2>7. ASSUME NEW r \in Requests, RemoveLot(r) PROVE UNCHANGED bids \/ DeleteLot(r)
    BY <2>7 DEF RemoveLot, CheckLot, LotGone, Answer, database
  <2>8. ASSUME NEW r \in Requests, RemoveUser(r) PROVE FALSE
    <3>1. call[r] \in RemoveUserCall
      BY <2>8, CallTypes DEF RemoveUser, CheckUser, DeleteUser, UserKept
    <3> QED
      BY <3>1 DEF TypeOK
  <2>9. ASSUME NEW r \in Requests, Emit(r) \/ Lose(r) PROVE UNCHANGED bids
    BY <2>9 DEF Emit, Lose, Answer, database
  <2>10. ASSUME Surroundings PROVE UNCHANGED bids
    BY <2>10 DEF Surroundings, Review, CloseAccess, CloseAuction, database
  <2>11. CASE UNCHANGED vars
    BY <2>1, <2>11 DEF vars
  <2>12. ASSUME NEW r \in Requests, RemoveAuction(r) PROVE UNCHANGED bids
    BY <2>12 DEF RemoveAuction, CheckAuction, DeleteAuction, AuctionGone, Answer, database
  <2> QED
    BY <2>1, <2>2, <2>3, <2>4, <2>5, <2>6, <2>7, <2>8, <2>9, <2>10, <2>11, <2>12 DEF Next, Handle
<1> QED
  BY <1>1, <1>2, TypeCorrect, FloorIsConsistent, PTL DEF Spec
=============================================================================
