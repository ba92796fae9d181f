---------------------- MODULE AuctionFloorRecordProofs ----------------------
(***************************************************************************)
(* What stays on record of AuctionFloor, for every set of lots, auctions,  *)
(* bidders, accesses and concurrent requests: the events and the rows they *)
(* announce, the calls that come too late, and the auction of              *)
(* AuctionLedger that the tables implement.                                *)
(***************************************************************************)
EXTENDS AuctionFloorProofs, FiniteSetTheorems

(* Every step is a handler's, the process's or of the surroundings; those that
   write lots, bids or sales are five. *)
LEMMA TableSteps ==
  ASSUME [Next]_vars
  PROVE  \/ UNCHANGED <<lotStatus, bids, sales>>
         \/ \E r \in Requests : \/ CommitBid(r) \/ CommitStage(r) \/ CommitSale(r)
                                \/ DeleteLot(r) \/ DeleteUser(r)
BY DEF Next, Handle, Bid, BeginBid, RejectBid, RefuseBid, Stage, BeginStage, KeepStage,
       RejectStage, RefuseStage, Refused, Sale, ReadLot, ReadWinner, NoWinner, RejectSale,
       RemoveLot, CheckLot, LotGone, RemoveUser, CheckUser, UserKept, RemoveAuction,
       CheckAuction, DeleteAuction, AuctionGone, Emit, Lose, Answer, Surroundings, Review,
       CloseAccess, CloseAuction, database, vars

(* A request keeps its call; an auction that is gone and an access that is
   closed stay so. *)
LEMMA Lasting ==
  ASSUME [Next]_vars
  PROVE  call' = call /\ gone \subseteq gone' /\ openAccess' \subseteq openAccess
BY DEF Next, Handle, Bid, BeginBid, RejectBid, CommitBid, RefuseBid, Stage, BeginStage, KeepStage,
       RejectStage, CommitStage, RefuseStage, Refused, Sale, ReadLot, ReadWinner, NoWinner,
       CommitSale, RejectSale, RemoveLot, CheckLot, DeleteLot, LotGone, RemoveUser, CheckUser,
       DeleteUser, UserKept, RemoveAuction, CheckAuction, DeleteAuction, AuctionGone, Emit, Lose,
       Answer, Surroundings, Review, CloseAccess, CloseAuction, control, vars

(* A handler moves by steps of its own. *)
LEMMA OwnSteps ==
  ASSUME TypeOK, [Next]_vars, NEW r \in Requests, pc'[r] # pc[r] \/ seen'[r] # seen[r]
  PROVE  Handle(r) \/ Lose(r)
<1>1. ASSUME NEW q \in Requests, NEW phase, Goto(q, phase)
      PROVE  \A p \in Requests : p # q => pc'[p] = pc[p]
  BY <1>1 DEF Goto, TypeOK
<1>2. ASSUME NEW q \in Requests, q # r, Bid(q) \/ Stage(q) \/ Sale(q)
      PROVE  pc'[r] = pc[r] /\ seen'[r] = seen[r]
  BY <1>1, <1>2
     DEF Bid, BeginBid, RejectBid, CommitBid, RefuseBid, Stage, BeginStage, KeepStage,
         RejectStage, CommitStage, RefuseStage, Refused, Sale, ReadLot, ReadWinner, NoWinner,
         CommitSale, RejectSale, Answer, TypeOK
<1>3. ASSUME NEW q \in Requests, q # r,
             RemoveLot(q) \/ RemoveUser(q) \/ RemoveAuction(q) \/ Emit(q) \/ Lose(q)
      PROVE  pc'[r] = pc[r] /\ seen'[r] = seen[r]
  BY <1>1, <1>3
     DEF RemoveLot, CheckLot, DeleteLot, LotGone, RemoveUser, CheckUser, DeleteUser, UserKept,
         RemoveAuction, CheckAuction, DeleteAuction, AuctionGone, Emit, Lose, Answer, TypeOK
<1>4. CASE Surroundings
  BY <1>4 DEF Surroundings, Review, CloseAccess, CloseAuction, control
<1> QED
  BY <1>2, <1>3, <1>4 DEF Next, Handle, vars

(* Where a handler goes: an answered call rests, a committed one is announced
   or lost, and what is committed or done has been written or was a removal. *)
LEMMA PhaseSteps ==
  ASSUME TypeOK, [Next]_vars, NEW r \in Requests
  PROVE  /\ pc[r] \in Resting => pc'[r] = pc[r]
         /\ pc[r] = "committed" => pc'[r] \in {"committed", "done", "lost"}
         /\ pc'[r] = "committed" /\ pc[r] # "committed" =>
              CommitBid(r) \/ CommitStage(r) \/ KeepStage(r) \/ CommitSale(r)
         /\ pc'[r] = "done" /\ pc[r] # "done" =>
              pc[r] = "committed" \/ DeleteLot(r) \/ DeleteUser(r) \/ DeleteAuction(r)
<1>1. pc'[r] = pc[r] \/ Handle(r) \/ Lose(r)
  BY OwnSteps
<1>2. ASSUME NEW phase, Goto(r, phase)
      PROVE  pc'[r] = phase
  BY <1>2 DEF Goto, TypeOK
<1>3. CASE Bid(r)
  BY <1>2, <1>3 DEF Bid, BeginBid, RejectBid, CommitBid, RefuseBid, Refused, Answer, Resting
<1>4. CASE Stage(r)
  BY <1>2, <1>4 DEF Stage, BeginStage, KeepStage, RejectStage, CommitStage, RefuseStage, Refused,
                    Answer, Resting
<1>5. CASE Sale(r)
  BY <1>2, <1>5 DEF Sale, ReadLot, ReadWinner, NoWinner, CommitSale, RejectSale, Answer, Resting
<1>6. CASE RemoveLot(r) \/ RemoveUser(r) \/ RemoveAuction(r)
  BY <1>2, <1>6
     DEF RemoveLot, CheckLot, DeleteLot, LotGone, RemoveUser, CheckUser, DeleteUser, UserKept,
         RemoveAuction, CheckAuction, DeleteAuction, AuctionGone, Answer, Resting
<1>7. CASE Emit(r) \/ Lose(r)
  BY <1>2, <1>7 DEF Emit, Lose, Answer, Resting
<1> QED
  BY <1>1, <1>3, <1>4, <1>5, <1>6, <1>7 DEF Handle

(* Two bid rows of one bid: they differ at most in their status. *)
SameBid(b, c) == b.id = c.id /\ b.lot = c.lot /\ b.bidder = c.bidder /\ b.amount = c.amount

(* What a bid that commits leaves: a row of its own, and every earlier row,
   demoted at most. *)
LEMMA CommittedBid ==
  ASSUME TypeOK, FloorInvariant, NEW r \in Requests, CommitBid(r)
  PROVE  /\ seen[r] = WinningBids(call[r].lot)
         /\ NewBid(r) \in bids'
         /\ \A b \in bids : \E c \in bids' : SameBid(b, c)
         /\ \A c \in bids' : c = NewBid(r) \/ \E b \in bids : SameBid(b, c)
<1>1. seen[r] = WinningBids(call[r].lot)
  BY DEF CommitBid, FloorInvariant, SnapshotHolds, Open
<1>2. seen[r] \subseteq bids
  BY <1>1 DEF WinningBids
<1>3. bids' = (bids \ seen[r]) \cup {Outbid(b) : b \in seen[r]} \cup {NewBid(r)}
  BY DEF CommitBid
<1>4. \A b \in bids : SameBid(b, b) /\ SameBid(b, Outbid(b))
  BY DEF SameBid, Outbid, TypeOK, BidRow
<1> QED
  BY <1>1, <1>2, <1>3, <1>4

(* A bid stays on record unless its lot or its bidder goes; a row that is new
   was committed by its request. *)
LEMMA BidSteps ==
  ASSUME TypeOK, FloorInvariant, [Next]_vars
  PROVE  /\ \A b \in bids : \/ \E c \in bids' : SameBid(b, c)
                            \/ lotStatus'[b.lot] = "REMOVED"
                            \/ buyer'[b.bidder] = "REMOVED"
         /\ \A c \in bids' : \/ \E b \in bids : SameBid(b, c)
                             \/ \E r \in Requests : CommitBid(r) /\ c = NewBid(r)
<1> USE DEF SameBid
<1>1. CASE UNCHANGED bids
  BY <1>1
<1>2. ASSUME NEW r \in Requests, CommitBid(r)
      PROVE  /\ \A b \in bids : \E c \in bids' : SameBid(b, c)
             /\ \A c \in bids' : c = NewBid(r) \/ \E b \in bids : SameBid(b, c)
  BY <1>2, CommittedBid
<1>3. ASSUME NEW r \in Requests, DeleteLot(r)
      PROVE  \A b \in bids : b \in bids' \/ lotStatus'[b.lot] = "REMOVED"
  BY <1>3 DEF DeleteLot, TypeOK, BidRow
<1>4. ASSUME NEW r \in Requests, DeleteUser(r)
      PROVE  \A b \in bids : b \in bids' \/ buyer'[b.bidder] = "REMOVED"
  BY <1>4 DEF DeleteUser, TypeOK, BidRow
<1>5. ASSUME NEW r \in Requests, DeleteLot(r) \/ DeleteUser(r)
      PROVE  bids' \subseteq bids
  BY <1>5 DEF DeleteLot, DeleteUser
<1>6. ASSUME NEW r \in Requests, CommitStage(r) \/ CommitSale(r)
      PROVE  UNCHANGED bids
  BY <1>6 DEF CommitStage, CommitSale
<1> QED
  BY <1>1, <1>2, <1>3, <1>4, <1>5, <1>6, TableSteps

(* A removed lot and a removed bidder stay removed. *)
LEMMA RemovedStays ==
  ASSUME TypeOK, FloorInvariant, [Next]_vars
  PROVE  /\ \A l \in Lots : lotStatus[l] = "REMOVED" => lotStatus'[l] = "REMOVED"
         /\ \A u \in Users : buyer[u] = "REMOVED" => buyer'[u] = "REMOVED"
<1>1. ASSUME NEW r \in Requests, CommitStage(r), NEW l \in Lots, lotStatus[l] = "REMOVED"
      PROVE  lotStatus'[l] = "REMOVED"
  <2>1. lotStatus[call[r].lot] # "REMOVED"
    BY <1>1 DEF CommitStage, FloorInvariant, SnapshotHolds, Open
  <2> QED
    BY <1>1, <2>1 DEF CommitStage, TypeOK
<1>2. ASSUME NEW r \in Requests, CommitSale(r), NEW l \in Lots, lotStatus[l] = "REMOVED"
      PROVE  lotStatus'[l] = "REMOVED"
  BY <1>2 DEF CommitSale, SaleRowFits, SaleOf, TypeOK
<1>3. ASSUME NEW r \in Requests, DeleteLot(r), NEW l \in Lots, lotStatus[l] = "REMOVED"
      PROVE  lotStatus'[l] = "REMOVED"
  BY <1>3 DEF DeleteLot, TypeOK
<1>4. ASSUME NEW r \in Requests, CommitBid(r) \/ DeleteUser(r)
      PROVE  UNCHANGED lotStatus
  BY <1>4 DEF CommitBid, DeleteUser
<1>5. ASSUME NEW u \in Users, buyer[u] = "REMOVED"
      PROVE  buyer'[u] = "REMOVED"
  BY <1>5 DEF Next, Handle, Bid, BeginBid, RejectBid, CommitBid, RefuseBid, Stage, BeginStage,
       KeepStage, RejectStage, CommitStage, RefuseStage, Refused, Sale, ReadLot, ReadWinner,
       NoWinner, CommitSale, RejectSale, RemoveLot, CheckLot, DeleteLot, LotGone, RemoveUser,
       CheckUser, DeleteUser, UserKept, RemoveAuction, CheckAuction, DeleteAuction, AuctionGone,
       Emit, Lose, Answer, Surroundings, Review, CloseAccess, CloseAuction, database, vars, TypeOK
<1> QED
  BY <1>1, <1>2, <1>3, <1>4, <1>5, TableSteps

(* A sale stays on record unless its lot goes. *)
LEMMA SaleSteps ==
  ASSUME TypeOK, [Next]_vars
  PROVE  \A s \in sales : s \in sales' \/ lotStatus'[s.lot] = "REMOVED"
<1>1. ASSUME NEW r \in Requests, DeleteLot(r)
      PROVE  \A s \in sales : s \in sales' \/ lotStatus'[s.lot] = "REMOVED"
  BY <1>1 DEF DeleteLot, TypeOK, SaleRow
<1>2. ASSUME NEW r \in Requests, CommitBid(r) \/ CommitStage(r) \/ CommitSale(r) \/ DeleteUser(r)
      PROVE  sales \subseteq sales'
  BY <1>2 DEF CommitBid, CommitStage, CommitSale, DeleteUser
<1> QED
  BY <1>1, <1>2, TableSteps

-----------------------------------------------------------------------------
(* A bid on record carries what its request called for, and its request has
   committed. *)
BidsAreCalled == \A b \in bids :
  /\ call[b.id].kind = "bid"
  /\ b.lot = call[b.id].lot
  /\ b.bidder = call[b.id].bidder
  /\ pc[b.id] \in {"committed", "done", "lost"}

(* The offer a sale has read is one for its lot. *)
OffersAreOfLot == \A r \in Requests :
  call[r].kind = "sale" => \A b \in seen[r] : b.lot = call[r].lot

(* The deletion of an auction refuses the stage changes of its lots. *)
OrphansAreDoomed == \A r \in Open :
  call[r].kind = "stage" /\ Orphan(call[r].lot) => r \in doomed

(* The lot of a bid that may still commit is on stage or sold, and a bid that
   saw no winner reaches the initial price. *)
BidsAreUp == \A r \in Open \ doomed : call[r].kind = "bid" =>
  /\ lotStatus[call[r].lot] \in {"IN_AUCTION", "SOLD"}
  /\ seen[r] = {} => call[r].amount >=
       MinimumBidAmount(InitialPrice[call[r].lot], NoPrice, MinBidIncrement)

RecordInvariant ==
  BidsAreCalled /\ OffersAreOfLot /\ OrphansAreDoomed /\ BidsAreUp /\ EventsAreBacked

(* Every recorded bid stays the bid some request asked for. *)
LEMMA NextBids ==
  ASSUME TypeOK, FloorInvariant, BidsAreCalled, [Next]_vars
  PROVE  BidsAreCalled'
<1> SUFFICES ASSUME NEW c \in bids'
             PROVE  /\ call[c.id].kind = "bid"
                    /\ c.lot = call[c.id].lot
                    /\ c.bidder = call[c.id].bidder
                    /\ pc'[c.id] \in {"committed", "done", "lost"}
  BY Lasting DEF BidsAreCalled
<1>1. CASE \E b \in bids : SameBid(b, c)
  <2>1. PICK b \in bids : SameBid(b, c)
    BY <1>1
  <2>2. b.id \in Requests /\ pc[b.id] \in {"committed", "done", "lost"}
    BY DEF TypeOK, BidRow, BidsAreCalled
  <2>3. pc'[b.id] \in {"committed", "done", "lost"}
    BY <2>2, PhaseSteps DEF Resting
  <2> QED
    BY <2>1, <2>3 DEF SameBid, BidsAreCalled
<1>2. ASSUME NEW r \in Requests, CommitBid(r), c = NewBid(r)
      PROVE  /\ call[c.id].kind = "bid"
             /\ c.lot = call[c.id].lot
             /\ c.bidder = call[c.id].bidder
             /\ pc'[c.id] \in {"committed", "done", "lost"}
  BY <1>2 DEF CommitBid, NewBid, Goto, TypeOK
<1> QED
  BY <1>1, <1>2, BidSteps

(* The offer a sale has read stays one for its own lot. *)
LEMMA NextOffers ==
  ASSUME TypeOK, OffersAreOfLot, [Next]_vars
  PROVE  OffersAreOfLot'
<1> SUFFICES ASSUME NEW r \in Requests, call[r].kind = "sale"
             PROVE  \A b \in seen'[r] : b.lot = call[r].lot
  BY Lasting DEF OffersAreOfLot
<1>1. CASE seen'[r] = seen[r] \/ seen'[r] = {}
  BY <1>1 DEF OffersAreOfLot
<1>2. CASE ReadWinner(r)
  BY <1>2 DEF ReadWinner, HighestWinning, WinningBids, TypeOK
<1>3. CASE Handle(r) \/ Lose(r)
  BY <1>1, <1>2, <1>3
     DEF Handle, Bid, BeginBid, RejectBid, CommitBid, RefuseBid, Stage, BeginStage, KeepStage,
         RejectStage, CommitStage, RefuseStage, Sale, ReadLot, NoWinner, CommitSale, RejectSale,
         RemoveLot, CheckLot, DeleteLot, LotGone, RemoveUser, CheckUser, DeleteUser, UserKept,
         RemoveAuction, CheckAuction, DeleteAuction, AuctionGone, Emit, Lose, Answer, TypeOK
<1> QED
  BY <1>1, <1>3, OwnSteps

(* A transaction that is to be refused is, unless its process goes before. *)
LEMMA DoomedStays ==
  ASSUME TypeOK, [Next]_vars, NEW r \in doomed, pc[r] = "open", pc'[r] = "open"
  PROVE  r \in doomed'
<1>1. ASSUME NEW q \in Requests, NEW retried \in BOOLEAN, Refused(q, retried) \/ Lose(q)
      PROVE  pc'[q] # "open" /\ doomed' = doomed \ {q}
  BY <1>1 DEF Refused, Lose, Goto, TypeOK
<1>2. ASSUME NEW q \in Requests, Bid(q)
      PROVE  r \in doomed'
  BY <1>1, <1>2 DEF Bid, BeginBid, RejectBid, CommitBid, RefuseRivals, RefuseBid, Answer
<1>3. ASSUME NEW q \in Requests, Stage(q)
      PROVE  r \in doomed'
  BY <1>1, <1>3 DEF Stage, BeginStage, KeepStage, RejectStage, CommitStage, RefuseRivals,
                    RefuseStage, Answer
<1>4. ASSUME NEW q \in Requests, Sale(q)
      PROVE  r \in doomed'
  BY <1>4 DEF Sale, ReadLot, ReadWinner, NoWinner, CommitSale, RejectSale, Answer
<1>5. ASSUME NEW q \in Requests, RemoveLot(q) \/ RemoveUser(q) \/ RemoveAuction(q) \/ Emit(q)
      PROVE  r \in doomed'
  BY <1>5 DEF RemoveLot, CheckLot, DeleteLot, LotGone, RemoveUser, CheckUser, DeleteUser,
       UserKept, RemoveAuction, CheckAuction, DeleteAuction, AuctionGone, Emit, Answer
<1>6. ASSUME NEW q \in Requests, Lose(q)
      PROVE  r \in doomed'
  BY <1>1, <1>6
<1>7. CASE Surroundings \/ UNCHANGED vars
  BY <1>7 DEF Surroundings, Review, CloseAccess, CloseAuction, control, vars
<1> QED
  BY <1>2, <1>3, <1>4, <1>5, <1>6, <1>7 DEF Next, Handle

(* A transaction is opened by a handler whose lot has its auction. *)
LEMMA OpeningSteps ==
  ASSUME TypeOK, [Next]_vars, NEW r \in Requests, pc[r] # "open", pc'[r] = "open"
  PROVE  /\ BeginBid(r) \/ BeginStage(r)
         /\ pc[r] = "ready"
         /\ ~ Orphan(call[r].lot)
         /\ UNCHANGED gone
<1>1. Handle(r) \/ Lose(r)
  BY OwnSteps
<1>2. \A phase : Goto(r, phase) => phase = "open"
  BY DEF Goto, TypeOK
<1>3. BeginBid(r) \/ BeginStage(r)
  BY <1>1, <1>2
     DEF Handle, Bid, RejectBid, CommitBid, RefuseBid, Stage, KeepStage, RejectStage, CommitStage,
         RefuseStage, Refused, Sale, ReadLot, ReadWinner, NoWinner, CommitSale, RejectSale,
         RemoveLot, CheckLot, DeleteLot, LotGone, RemoveUser, CheckUser, DeleteUser, UserKept,
         RemoveAuction, CheckAuction, DeleteAuction, AuctionGone, Emit, Lose, Answer
<1> QED
  BY <1>3 DEF BeginBid, BidAdmissible, BeginStage, StageOwned

(* A request on a lot that left its auction stays doomed. *)
LEMMA NextOrphans ==
  ASSUME TypeOK, OrphansAreDoomed, [Next]_vars
  PROVE  OrphansAreDoomed'
<1> SUFFICES ASSUME NEW r \in Requests, pc'[r] = "open", call[r].kind = "stage",
                    AuctionOf[call[r].lot] \in gone'
             PROVE  r \in doomed'
  BY Lasting DEF OrphansAreDoomed, Open, Orphan
<1>1. pc[r] = "open"
  BY OpeningSteps DEF Orphan
<1>2. CASE Orphan(call[r].lot)
  BY <1>1, <1>2, DoomedStays DEF OrphansAreDoomed, Open
<1>3. CASE ~ Orphan(call[r].lot)
  <2>1. gone' # gone
    BY <1>3 DEF Orphan
  <2>2. \E q \in Requests : DeleteAuction(q)
    BY <2>1 DEF Next, Handle, Bid, BeginBid, RejectBid, CommitBid, RefuseBid, Stage, BeginStage,
       KeepStage, RejectStage, CommitStage, RefuseStage, Refused, Sale, ReadLot, ReadWinner,
       NoWinner, CommitSale, RejectSale, RemoveLot, CheckLot, DeleteLot, LotGone, RemoveUser,
       CheckUser, DeleteUser, UserKept, RemoveAuction, CheckAuction, AuctionGone, Emit, Lose,
       Answer, Surroundings, Review, CloseAccess, CloseAuction, vars
  <2> QED
    BY <1>1, <1>3, <2>2 DEF DeleteAuction, Orphan, Open
<1> QED
  BY <1>2, <1>3

(* An event's write is on record when the event goes out, and afterwards
   unless its lot or its bidder goes. *)
LEMMA NextEvents ==
  ASSUME TypeOK, FloorInvariant, BidsAreCalled, OffersAreOfLot, EventsAreBacked, [Next]_vars
  PROVE  EventsAreBacked'
<1>1. ASSUME NEW r \in Requests, pc'[r] \in {"committed", "done"}, call[r].kind = "bid"
      PROVE  \/ \E b \in bids' : b.id = r
             \/ lotStatus'[call[r].lot] = "REMOVED"
             \/ buyer'[call[r].bidder] = "REMOVED"
  <2>1. CASE pc[r] \in {"committed", "done"}
    <3>1. call[r].lot \in Lots /\ call[r].bidder \in Users
      BY <1>1, CallTypes DEF BidCall
    <3>2. CASE \E b \in bids : b.id = r
      <4>1. PICK b \in bids : b.id = r /\ b.lot = call[r].lot /\ b.bidder = call[r].bidder
        BY <3>2 DEF BidsAreCalled
      <4> QED
        BY <4>1, BidSteps DEF SameBid
    <3> QED
      BY <1>1, <2>1, <3>1, <3>2, RemovedStays DEF EventsAreBacked
  <2>2. CASE CommitBid(r)
    BY <2>2, CommittedBid DEF NewBid
  <2> QED
    BY <1>1, <2>1, <2>2, PhaseSteps
       DEF CommitStage, KeepStage, CommitSale, DeleteLot, DeleteUser, DeleteAuction
<1>2. ASSUME NEW r \in Requests, pc'[r] \in {"committed", "done"}, call[r].kind = "sale"
      PROVE  \/ \E s \in sales' : s.lot = call[r].lot
             \/ lotStatus'[call[r].lot] = "REMOVED"
  <2>1. CASE pc[r] \in {"committed", "done"}
    <3>1. call[r].lot \in Lots
      BY <1>2, CallTypes DEF SaleCall
    <3> QED
      BY <1>2, <2>1, <3>1, SaleSteps, RemovedStays DEF EventsAreBacked
  <2>2. CASE CommitSale(r)
    <3>1. PICK b \in seen[r] : sales' = sales \cup {SaleOf(b)}
      BY <2>2 DEF CommitSale
    <3>2. SaleOf(b) \in sales' /\ SaleOf(b).lot = call[r].lot
      BY <1>2, <3>1 DEF SaleOf, OffersAreOfLot
    <3> QED
      BY <3>2
  <2> QED
    BY <1>2, <2>1, <2>2, PhaseSteps
       DEF CommitBid, CommitStage, KeepStage, DeleteLot, DeleteUser, DeleteAuction
<1> QED
  BY <1>1, <1>2, Lasting DEF EventsAreBacked

(* A step of its own ends a transaction. *)
LEMMA ClosingSteps ==
  ASSUME TypeOK, NEW r \in Requests, pc[r] = "open", Handle(r) \/ Lose(r)
  PROVE  pc'[r] # "open"
BY DEF Handle, Bid, BeginBid, RejectBid, CommitBid, RefuseBid, Stage, BeginStage, KeepStage,
       RejectStage, CommitStage, RefuseStage, Refused, Sale, ReadLot, ReadWinner, NoWinner,
       CommitSale, RejectSale, RemoveLot, CheckLot, DeleteLot, LotGone, RemoveUser, CheckUser,
       DeleteUser, UserKept, RemoveAuction, CheckAuction, DeleteAuction, AuctionGone, Emit, Lose,
       Answer, Goto, TypeOK

(* A stage change of the lot refuses the bid, a sale leaves the lot sold. *)
LEMMA NextUp ==
  ASSUME TypeOK, FloorInvariant, BidsAreUp, [Next]_vars
  PROVE  BidsAreUp'
<1> SUFFICES ASSUME NEW r \in Requests, pc'[r] = "open", r \notin doomed', call[r].kind = "bid"
             PROVE  /\ lotStatus'[call[r].lot] \in {"IN_AUCTION", "SOLD"}
                    /\ seen'[r] = {} => call[r].amount >=
                         MinimumBidAmount(InitialPrice[call[r].lot], NoPrice, MinBidIncrement)
  BY Lasting DEF BidsAreUp, Open
<1>1. call[r] \in BidCall
  BY CallTypes
<1>2. CASE pc[r] # "open"
  <2>1. BeginBid(r)
    BY <1>2, OpeningSteps DEF BeginStage
  <2>2. UNCHANGED lotStatus /\ seen'[r] = WinningBids(call[r].lot) /\ BidAdmissible(call[r])
    BY <2>1 DEF BeginBid, database, TypeOK
  <2> QED
    BY <2>2 DEF BidAdmissible, WinningAmounts
<1>3. CASE pc[r] = "open"
  <2>1. seen'[r] = seen[r] /\ r \notin doomed
    BY <1>3, ClosingSteps, OwnSteps, DoomedStays
  <2>2. /\ lotStatus[call[r].lot] \in {"IN_AUCTION", "SOLD"}
        /\ seen[r] = {} => call[r].amount >=
             MinimumBidAmount(InitialPrice[call[r].lot], NoPrice, MinBidIncrement)
    BY <1>3, <2>1 DEF BidsAreUp, Open
  <2>3. lotStatus'[call[r].lot] \in {"IN_AUCTION", "SOLD"}
    <3>1. ASSUME NEW q \in Requests, CommitStage(q), call[q].lot = call[r].lot
          PROVE  FALSE
      BY <1>3, <3>1 DEF CommitStage, RefuseRivals, Clash, Open
    <3>2. ASSUME NEW q \in Requests, CommitStage(q)
          PROVE  lotStatus'[call[r].lot] = lotStatus[call[r].lot]
      BY <1>1, <3>1, <3>2 DEF CommitStage, TypeOK, BidCall
    <3>3. ASSUME NEW q \in Requests, CommitSale(q)
          PROVE  lotStatus'[call[r].lot] \in {lotStatus[call[r].lot], "SOLD"}
      BY <1>1, <3>3 DEF CommitSale, TypeOK, BidCall
    <3>4. ASSUME NEW q \in Requests, DeleteLot(q)
          PROVE  lotStatus'[call[r].lot] = lotStatus[call[r].lot]
      BY <1>1, <1>3, <3>4 DEF DeleteLot, TypeOK, BidCall, Open
    <3> QED
      BY <2>2, <3>2, <3>3, <3>4, TableSteps DEF CommitBid, DeleteUser
  <2> QED
    BY <2>1, <2>2, <2>3
<1> QED
  BY <1>2, <1>3

(* The inductive invariant of the records, in every reachable state: with the
   invariant of the floor it carries every theorem of this module. *)
THEOREM RecordsAreKept == Spec => []RecordInvariant
<1>1. Init => RecordInvariant
  BY DEF Init, RecordInvariant, BidsAreCalled, OffersAreOfLot, OrphansAreDoomed, BidsAreUp,
         EventsAreBacked, Open
<1>2. TypeOK /\ FloorInvariant /\ RecordInvariant /\ [Next]_vars => RecordInvariant'
  BY NextBids, NextOffers, NextOrphans, NextUp, NextEvents DEF RecordInvariant
<1> QED
  BY <1>1, <1>2, TypeCorrect, FloorIsConsistent, PTL DEF Spec

(* The events of bids and sales announce what is on record: a refused or lost
   transaction announces nothing. *)
THEOREM EventsBacked == Spec => []EventsAreBacked
BY RecordsAreKept, PTL DEF RecordInvariant

-----------------------------------------------------------------------------
(* Calls that come too late.  Each is a fact about one request that no step
   ends once it holds. *)

(* The request's access is closed and it has not opened a transaction since. *)
ShutOut(r) ==
  /\ call[r].kind = "bid"
  /\ call[r].access # Online
  /\ call[r].access \notin openAccess
  /\ pc[r] \in {"ready", "rejected"}

(* A bid of an operator whose access was revoked stays shut out until it ends. *)
LEMMA ShutOutStays ==
  ASSUME TypeOK, [Next]_vars, NEW r \in Requests, ShutOut(r)
  PROVE  ShutOut(r)'
<1>1. pc'[r] \in {"ready", "rejected"}
  <2>1. CASE pc[r] = "ready" /\ Handle(r)
    BY <2>1
       DEF ShutOut, Handle, Bid, BeginBid, BidAdmissible, OperatorMayBid, RejectBid, CommitBid,
           RefuseBid, Stage, BeginStage, KeepStage, RejectStage, CommitStage, RefuseStage, Sale,
           ReadLot, ReadWinner, NoWinner, CommitSale, RejectSale, RemoveLot, CheckLot, DeleteLot,
           LotGone, RemoveUser, CheckUser, DeleteUser, UserKept, RemoveAuction, CheckAuction,
           DeleteAuction, AuctionGone, Emit, Answer, Goto, Refused, TypeOK
  <2> QED
    BY <2>1, OwnSteps, PhaseSteps DEF ShutOut, Lose, Resting
<1> QED
  BY <1>1, Lasting DEF ShutOut

(* An on-site bid that is not in its transaction when the access is closed is
   never recorded, retries included. *)
THEOREM RevocationShutsOut == Spec => NoBidAfterRevocation
<1> SUFFICES ASSUME NEW r \in Requests
             PROVE  Spec =>
               [](( /\ call[r].kind = "bid"
                    /\ call[r].access # Online
                    /\ call[r].access \notin openAccess
                    /\ pc[r] = "ready") => [](\A b \in bids : b.id # r))
  BY DEF NoBidAfterRevocation
<1>1. (/\ call[r].kind = "bid"
       /\ call[r].access # Online
       /\ call[r].access \notin openAccess
       /\ pc[r] = "ready") => ShutOut(r)
  BY DEF ShutOut
<1>2. TypeOK /\ [Next]_vars /\ ShutOut(r) => ShutOut(r)'
  BY ShutOutStays
<1>3. RecordInvariant /\ ShutOut(r) => \A b \in bids : b.id # r
  BY DEF RecordInvariant, BidsAreCalled, ShutOut
<1> QED
  BY <1>1, <1>2, <1>3, TypeCorrect, RecordsAreKept, PTL DEF Spec

(* The request's lot has lost its auction, and the request has not begun, is a
   stage change that will be refused, or is over without effect. *)
OutOfReach(r) ==
  /\ Orphan(call[r].lot)
  /\ \/ pc[r] \in {"ready", "rejected"} /\ call[r].kind \in {"bid", "stage", "sale"}
     \/ pc[r] \in {"ready", "rejected", "open", "failed", "lost"} /\ call[r].kind = "stage"

(* A call on a lot without an auction stays out of reach until it ends. *)
LEMMA OutOfReachStays ==
  ASSUME TypeOK, OrphansAreDoomed, [Next]_vars, NEW r \in Requests, OutOfReach(r)
  PROVE  OutOfReach(r)'
<1>1. Orphan(call[r].lot)'
  BY Lasting DEF OutOfReach, Orphan
<1>2. CASE pc[r] = "ready" /\ Handle(r)
  <2>1. pc'[r] = "rejected"
    BY <1>2
       DEF OutOfReach, Handle, Bid, BeginBid, BidAdmissible, RejectBid, CommitBid, RefuseBid,
           Stage, BeginStage, KeepStage, StageOwned, RejectStage, CommitStage, RefuseStage, Sale,
           ReadLot, SaleAdmissible, ReadWinner, NoWinner, CommitSale, RejectSale, RemoveLot,
           CheckLot, DeleteLot, LotGone, RemoveUser, CheckUser, DeleteUser, UserKept,
           RemoveAuction, CheckAuction, DeleteAuction, AuctionGone, Emit, Answer, Goto, Refused,
           TypeOK
  <2> QED
    BY <1>1, <2>1, Lasting DEF OutOfReach
<1>3. CASE pc[r] = "open" /\ (Handle(r) \/ Lose(r))
  <2>1. call[r].kind = "stage" /\ r \in doomed
    BY <1>3 DEF OutOfReach, OrphansAreDoomed, Open
  <2>2. RefuseStage(r) \/ Lose(r)
    BY <1>3, <2>1
       DEF Handle, Bid, BeginBid, RejectBid, CommitBid, RefuseBid, Stage, BeginStage, KeepStage,
           RejectStage, CommitStage, Sale, ReadLot, ReadWinner, NoWinner, CommitSale, RejectSale,
           RemoveLot, CheckLot, DeleteLot, LotGone, RemoveUser, CheckUser, DeleteUser, UserKept,
           RemoveAuction, CheckAuction, DeleteAuction, AuctionGone, Emit
  <2>3. pc'[r] \in {"ready", "failed", "lost"}
    BY <2>2 DEF RefuseStage, Refused, Lose, Goto, TypeOK
  <2> QED
    BY <1>1, <2>1, <2>3, Lasting DEF OutOfReach
<1>4. CASE pc'[r] = pc[r]
  BY <1>1, <1>4, Lasting DEF OutOfReach
<1> QED
  BY <1>2, <1>3, <1>4, OwnSteps, PhaseSteps DEF OutOfReach, Lose, Resting

(* Once its auction is deleted, no call that begins on a lot, and no stage
   change that has begun, has any effect on it. *)
THEOREM OrphansOutOfReach == Spec => OrphansTakeNoCalls
<1> SUFFICES ASSUME NEW r \in Requests
             PROVE  Spec =>
               [](( /\ \/ pc[r] = "ready" /\ call[r].kind \in {"bid", "stage", "sale"}
                       \/ pc[r] = "open" /\ call[r].kind = "stage"
                    /\ Orphan(call[r].lot)) => [](pc[r] \notin {"committed", "done"}))
  BY DEF OrphansTakeNoCalls
<1>1. (/\ \/ pc[r] = "ready" /\ call[r].kind \in {"bid", "stage", "sale"}
          \/ pc[r] = "open" /\ call[r].kind = "stage"
       /\ Orphan(call[r].lot)) => OutOfReach(r)
  BY DEF OutOfReach
<1>2. TypeOK /\ RecordInvariant /\ [Next]_vars /\ OutOfReach(r) => OutOfReach(r)'
  BY OutOfReachStays DEF RecordInvariant
<1>3. OutOfReach(r) => pc[r] \notin {"committed", "done"}
  BY DEF OutOfReach
<1> QED
  BY <1>1, <1>2, <1>3, TypeCorrect, RecordsAreKept, PTL DEF Spec

-----------------------------------------------------------------------------
(* The refinement.  Each commit and each deletion is one operation of the
   ledger on one lot; what a lot shows is a fact about its rows alone. *)

(* The price a lot shows is its winner's, and what was paid is its sale's. *)
RowsAreShown == \A l \in Lots :
  /\ WinningBids(l) = {} => TopOf(l) = NoPrice
  /\ \A w \in WinningBids(l) : TopOf(l) = w.amount
  /\ \A s \in sales : s.lot = l => PaidOf(l) = s.price
  /\ (\A s \in sales : s.lot # l) => PaidOf(l) = NoPrice

(* In a consistent floor the lot, the winner and the sale that Auction shows
   are determined by the rows. *)
LEMMA Shown == TypeOK /\ FloorInvariant => RowsAreShown
<1> SUFFICES ASSUME TypeOK, FloorInvariant, NEW l \in Lots
             PROVE  /\ WinningBids(l) = {} => TopOf(l) = NoPrice
                    /\ \A w \in WinningBids(l) : TopOf(l) = w.amount
                    /\ \A s \in sales : s.lot = l => PaidOf(l) = s.price
                    /\ (\A s \in sales : s.lot # l) => PaidOf(l) = NoPrice
  BY DEF RowsAreShown
<1>1. WinningBids(l) = {} => TopOf(l) = NoPrice
  BY DEF TopOf, WinningAmounts
<1>2. ASSUME NEW w \in WinningBids(l) PROVE TopOf(l) = w.amount
  <2>1. \A v \in WinningBids(l) : v = w
    BY <1>2 DEF FloorInvariant, OneWinningBid, WinningBids
  <2>2. w.amount \in Nat
    BY <1>2 DEF TypeOK, BidRow, WinningBids
  <2>3. HighestWinning(l) = {w}
    BY <1>2, <2>1, <2>2 DEF HighestWinning
  <2>4. WinningAmounts(l) = {w.amount}
    BY <1>2, <2>3 DEF WinningAmounts
  <2> QED
    BY <2>4 DEF TopOf
<1>3. ASSUME NEW s \in sales, s.lot = l PROVE PaidOf(l) = s.price
  <2>1. \A t \in sales : t.lot = l => t = s
    BY <1>3 DEF FloorInvariant, SoldMeansOneSale
  <2> QED
    BY <1>3, <2>1 DEF PaidOf
<1>4. (\A s \in sales : s.lot # l) => PaidOf(l) = NoPrice
  BY DEF PaidOf
<1> QED
  BY <1>1, <1>2, <1>3, <1>4

(* A lot whose rows are left alone shows the same. *)
LEMMA SameRows ==
  ASSUME NEW l \in Lots, UNCHANGED {b \in bids : b.lot = l}
  PROVE  /\ OffersOf(l)' = OffersOf(l)
         /\ WinningBids(l)' = WinningBids(l)
         /\ TopOf(l)' = TopOf(l)
<1>1. WinningBids(l)' = WinningBids(l)
  <2>1. /\ WinningBids(l) = {b \in {c \in bids : c.lot = l} : b.status = "WINNING"}
        /\ WinningBids(l)' = {b \in {c \in bids' : c.lot = l} : b.status = "WINNING"}
    BY DEF WinningBids
  <2> QED
    BY <2>1
<1>2. WinningAmounts(l)' = WinningAmounts(l)
  BY <1>1 DEF WinningAmounts, HighestWinning
<1> QED
  BY <1>1, <1>2 DEF OffersOf, TopOf

(* A committed change of stage is an Enter or a Leave of Auction, or invisible. *)
LEMMA StageShown ==
  ASSUME TypeOK, FloorInvariant, NEW r \in Requests, CommitStage(r)
  PROVE  (\E l \in Lots : Auction!Enter(l) \/ Auction!Leave(l)) \/ UNCHANGED Auction!vars
<1>1. PICK l \in Lots : l = call[r].lot /\ call[r] \in StageCall
  BY CallTypes DEF CommitStage, StageCall
<1>2. \A m \in Lots : UNCHANGED <<OffersOf(m), TopOf(m), PaidOf(m)>>
  BY SameRows DEF CommitStage, PaidOf
<1>3. \A m \in Lots : m # l => PlaceOf(m)' = PlaceOf(m)
  BY <1>1 DEF CommitStage, PlaceOf, TypeOK
<1>4. /\ PlaceOf(l) \in {"stage", "waiting"}
      /\ call[r].target = "IN_AUCTION" => PlaceOf(l)' = "stage"
      /\ call[r].target = "AVAILABLE" => PlaceOf(l)' = "waiting"
      /\ call[r].target \in {"IN_AUCTION", "AVAILABLE"}
  BY <1>1 DEF CommitStage, PlaceOf, FloorInvariant, SnapshotHolds, Open, TypeOK, StageCall
<1>5. CASE PlaceOf(l)' = PlaceOf(l)
  BY <1>2, <1>3, <1>5 DEF Auction!vars
<1>6. CASE call[r].target = "IN_AUCTION" /\ PlaceOf(l) = "waiting"
  <2>1. \A m \in Lots : AuctionOf[m] = AuctionOf[l] /\ PlaceOf(m) = "stage" => m = l
    BY <1>1, <1>6 DEF CommitStage, FloorInvariant, SnapshotHolds, Open, OnStage, PlaceOf
  <2>2. Auction!Enter(l)
    BY <1>1, <1>2, <1>3, <1>4, <1>6, <2>1 DEF Auction!Enter, Auction!StageIsFree
  <2> QED
    BY <1>1, <2>2
<1>7. CASE call[r].target = "AVAILABLE" /\ PlaceOf(l) = "stage"
  <2>1. Auction!Leave(l)
    BY <1>1, <1>2, <1>3, <1>4, <1>7 DEF Auction!Leave
  <2> QED
    BY <1>1, <2>1
<1> QED
  BY <1>4, <1>5, <1>6, <1>7

(* A committed bid is a Raise of Auction: its amount reaches the minimum over what was shown. *)
LEMMA BidShown ==
  ASSUME TypeOK, FloorInvariant, BidsAreUp, RowsAreShown, RowsAreShown',
         NEW r \in Requests, CommitBid(r)
  PROVE  \E l \in Lots : \E amount \in OffersOf(l)' : Auction!Raise(l, amount)
<1>1. PICK l \in Lots, amount \in BidAmount :
        l = call[r].lot /\ amount = call[r].amount /\ call[r] \in BidCall
  BY CallTypes DEF CommitBid, BidCall
<1>2. /\ r \in Open \ doomed
      /\ call[r].kind = "bid"
      /\ seen[r] = WinningBids(l)
      /\ bids' = (bids \ seen[r]) \cup {Outbid(b) : b \in seen[r]} \cup {NewBid(r)}
      /\ UNCHANGED <<lotStatus, sales>>
  BY <1>1, CommittedBid DEF CommitBid, Open
<1>3. /\ NewBid(r).lot = l /\ NewBid(r).amount = amount /\ NewBid(r).status = "WINNING"
      /\ \A b \in bids : /\ Outbid(b).lot = b.lot
                           /\ Outbid(b).amount = b.amount
  BY <1>1 DEF NewBid, Outbid, TypeOK, BidRow
<1>4. \A m \in Lots : PlaceOf(m)' = PlaceOf(m) /\ PaidOf(m)' = PaidOf(m)
  BY <1>2 DEF PlaceOf, PaidOf
<1>5. ASSUME NEW m \in Lots, m # l
      PROVE  OffersOf(m)' = OffersOf(m) /\ TopOf(m)' = TopOf(m)
  <2>1. UNCHANGED {b \in bids : b.lot = m}
    BY <1>2, <1>3, <1>5 DEF WinningBids
  <2> QED
    BY <2>1, SameRows
<1>6. OffersOf(l)' = OffersOf(l) \cup {amount}
  <2>1. \A b \in seen[r] : b \in bids /\ b.lot = l
    BY <1>2 DEF WinningBids
  <2>2. OffersOf(l)' \subseteq OffersOf(l) \cup {amount}
    BY <1>2, <1>3, <2>1 DEF OffersOf
  <2>3. OffersOf(l) \subseteq OffersOf(l)'
    BY <1>2, <1>3, <2>1 DEF OffersOf
  <2>4. amount \in OffersOf(l)'
    BY <1>2, <1>3 DEF OffersOf
  <2> QED
    BY <2>2, <2>3, <2>4
<1>7. TopOf(l)' = amount
  <2>1. NewBid(r) \in WinningBids(l)'
    BY <1>2, <1>3 DEF WinningBids
  <2>2. \A w \in WinningBids(l)' : TopOf(l)' = w.amount
    BY DEF RowsAreShown
  <2> QED
    BY <1>3, <2>1, <2>2
<1>8. PlaceOf(l) \in {"stage", "sold"}
  BY <1>1, <1>2 DEF BidsAreUp, PlaceOf
<1>9. amount >= MinimumBidAmount(InitialPrice[l], TopOf(l), MinBidIncrement)
  <2>1. CASE WinningBids(l) = {}
    BY <1>1, <1>2, <2>1 DEF BidsAreUp, RowsAreShown
  <2>2. ASSUME NEW w \in WinningBids(l)
        PROVE  amount >= MinimumBidAmount(InitialPrice[l], TopOf(l), MinBidIncrement)
    <3>1. TopOf(l) = w.amount
      BY <2>2 DEF RowsAreShown
    <3>2. w.amount \in Nat
      BY <2>2 DEF WinningBids, TypeOK, BidRow
    <3>3. amount >= w.amount + EffectiveBidIncrement(MinBidIncrement)
      BY <1>1, <1>2, <2>2 DEF FloorInvariant, SnapshotHolds
    <3>4. TopOf(l) # NoPrice
      BY <3>1, <3>2, PriceAssumption
    <3> QED
      BY <3>1, <3>3, <3>4 DEF MinimumBidAmount
  <2> QED
    BY <2>1, <2>2
<1>10. /\ amount \in Auction!BidAmount
       /\ amount >= Auction!MinimumBidAmount(InitialPrice[l], TopOf(l), MinBidIncrement)
  BY <1>9 DEF BidAmount, Auction!BidAmount, BidStep, Auction!BidStep,
              MinimumBidAmount, Auction!MinimumBidAmount,
              EffectiveBidIncrement, Auction!EffectiveBidIncrement
<1>11. Auction!Raise(l, amount)
  BY <1>4, <1>5, <1>6, <1>7, <1>8, <1>10 DEF Auction!Raise
<1> QED
  BY <1>6, <1>11

(* A committed sale is a Sell of Auction at the amount shown as the best. *)
LEMMA SaleShown ==
  ASSUME TypeOK, FloorInvariant, RowsAreShown, RowsAreShown', NEW r \in Requests, CommitSale(r)
  PROVE  \E l \in Lots : \E amount \in OffersOf(l) : Auction!Sell(l, amount)
<1>1. PICK b \in seen[r] : /\ SaleRowFits(SaleOf(b))
                           /\ sales' = sales \cup {SaleOf(b)}
                           /\ lotStatus' = [lotStatus EXCEPT ![b.lot] = "SOLD"]
  BY DEF CommitSale
<1>2. PICK l \in Lots, amount \in Nat : l = b.lot /\ amount = b.amount /\ b \in BidRow
  BY <1>1 DEF TypeOK, BidRow
<1>3. SaleOf(b) = [lot |-> l, buyer |-> b.bidder, price |-> amount]
  BY <1>2 DEF SaleOf
<1>4. lotStatus[l] \notin {"REMOVED", "SOLD"}
  BY <1>1, <1>2, <1>3 DEF SaleRowFits, FloorInvariant, SoldMeansOneSale
<1>5. PlaceOf(l) \in {"stage", "waiting"} /\ PlaceOf(l)' = "sold"
  BY <1>1, <1>2, <1>4 DEF PlaceOf, TypeOK
<1>6. \A m \in Lots : m # l => PlaceOf(m)' = PlaceOf(m)
  BY <1>1, <1>2 DEF PlaceOf, TypeOK
<1>7. \A m \in Lots : OffersOf(m)' = OffersOf(m) /\ TopOf(m)' = TopOf(m)
  BY SameRows DEF CommitSale
<1>8. PaidOf(l)' = amount
  <2>1. \A s \in sales' : s.lot = l => PaidOf(l)' = s.price
    BY DEF RowsAreShown
  <2>2. SaleOf(b) \in sales' /\ SaleOf(b).lot = l /\ SaleOf(b).price = amount
    BY <1>1, <1>3
  <2> QED
    BY <2>1, <2>2
<1>9. ASSUME NEW m \in Lots, m # l PROVE PaidOf(m)' = PaidOf(m)
  <2>1. \A s : s \in sales' /\ s.lot = m <=> s \in sales /\ s.lot = m
    BY <1>1, <1>3, <1>9
  <2> QED
    BY <2>1 DEF PaidOf
<1>10. amount \in OffersOf(l)
  <2>1. PICK c \in bids : SaleOf(c) = SaleOf(b)
    BY <1>1, <1>2, <1>4 DEF SaleRowFits, SaleOf, CommitSale, FloorInvariant, OfferStands
  <2>2. c.lot = l /\ c.amount = amount
    BY <1>2, <2>1 DEF SaleOf
  <2> QED
    BY <2>2 DEF OffersOf
<1>11. Auction!Sell(l, amount)
  BY <1>5, <1>6, <1>7, <1>8, <1>9, <1>10 DEF Auction!Sell
<1> QED
  BY <1>10, <1>11

(* A deleted lot is a Remove of Auction. *)
LEMMA RemovalShown ==
  ASSUME TypeOK, NEW r \in Requests, DeleteLot(r)
  PROVE  \E l \in Lots : Auction!Remove(l)
<1>1. PICK l \in Lots : l = call[r].lot
  BY CallTypes DEF DeleteLot, RemoveLotCall
<1>2. /\ lotStatus[l] # "REMOVED"
      /\ lotStatus' = [lotStatus EXCEPT ![l] = "REMOVED"]
      /\ bids' = {b \in bids : b.lot # l}
      /\ sales' = {s \in sales : s.lot # l}
  BY <1>1 DEF DeleteLot
<1>3. PlaceOf(l) # "gone" /\ PlaceOf(l)' = "gone"
  BY <1>2 DEF PlaceOf, TypeOK
<1>4. OffersOf(l)' = {} /\ WinningBids(l)' = {}
  BY <1>2 DEF OffersOf, WinningBids
<1>5. TopOf(l)' = NoPrice /\ PaidOf(l)' = NoPrice
  BY <1>2, <1>4 DEF TopOf, WinningAmounts, PaidOf
<1>6. ASSUME NEW m \in Lots, m # l
      PROVE  UNCHANGED <<PlaceOf(m), OffersOf(m), TopOf(m), PaidOf(m)>>
  <2>1. UNCHANGED {b \in bids : b.lot = m}
    BY <1>2, <1>6
  <2>2. \A s : s \in sales' /\ s.lot = m <=> s \in sales /\ s.lot = m
    BY <1>2, <1>6
  <2>3. UNCHANGED PaidOf(m)
    BY <2>2 DEF PaidOf
  <2>4. UNCHANGED PlaceOf(m)
    BY <1>2, <1>6 DEF PlaceOf, TypeOK
  <2> QED
    BY <2>1, <2>3, <2>4, SameRows
<1>7. Auction!Remove(l)
  BY <1>3, <1>4, <1>5, <1>6 DEF Auction!Remove
<1> QED
  BY <1>7

(* A deleted user is a StrikeOut of Auction: no offer that was paid goes. *)
LEMMA StrikeShown ==
  ASSUME FloorInvariant', RowsAreShown, RowsAreShown', NEW r \in Requests, DeleteUser(r)
  PROVE  Auction!StrikeOut
<1>1. bids' \subseteq bids /\ UNCHANGED <<lotStatus, sales>>
  BY DEF DeleteUser
<1>2. \A l \in Lots : PlaceOf(l)' = PlaceOf(l) /\ PaidOf(l)' = PaidOf(l)
  BY <1>1 DEF PlaceOf, PaidOf
<1>3. \A l \in Lots : OffersOf(l)' \subseteq OffersOf(l)
  BY <1>1 DEF OffersOf
<1>4. ASSUME NEW l \in Lots PROVE TopOf(l)' \in {TopOf(l), NoPrice}
  <2>1. /\ WinningBids(l)' = {} => TopOf(l)' = NoPrice
        /\ \A w \in WinningBids(l)' : TopOf(l)' = w.amount
    BY DEF RowsAreShown
  <2>2. WinningBids(l)' \subseteq WinningBids(l)
    BY <1>1 DEF WinningBids
  <2> QED
    BY <2>1, <2>2 DEF RowsAreShown
<1>5. ASSUME NEW l \in Lots, PaidOf(l) # NoPrice PROVE PaidOf(l) \in OffersOf(l)'
  <2>1. PICK s \in sales : s.lot = l /\ PaidOf(l) = s.price
    BY <1>5 DEF RowsAreShown
  <2>2. PICK b \in bids' : SaleOf(b) = s
    BY <1>1, <2>1 DEF FloorInvariant, SaleIsRecordedBid, SaleOf
  <2>3. b.lot = l /\ b.amount = s.price
    BY <2>1, <2>2 DEF SaleOf
  <2> QED
    BY <2>1, <2>3 DEF OffersOf
<1> QED
  BY <1>2, <1>3, <1>4, <1>5 DEF Auction!StrikeOut

(* The initial tables show an auction that has not begun. *)
LEMMA InitAuction == Init => Auction!Init
<1> SUFFICES ASSUME Init PROVE Auction!Init
  OBVIOUS
<1>1. \A l \in Lots : OffersOf(l) = {} /\ TopOf(l) = NoPrice /\ PaidOf(l) = NoPrice
  BY DEF Init, OffersOf, TopOf, WinningAmounts, WinningBids, PaidOf
<1>2. \A l \in Lots : PlaceOf(l) = IF lotStatus[l] = "IN_AUCTION" THEN "stage" ELSE "waiting"
  BY DEF Init, PlaceOf
<1>3. \A l, m \in Lots :
        AuctionOf[m] = AuctionOf[l] /\ PlaceOf(m) = "stage" /\ PlaceOf(l) = "stage" => m = l
  BY <1>2, FloorAssumption DEF Init, OneLotOnStage, OnStage
<1> QED
  BY <1>1, <1>2, <1>3 DEF Auction!Init, Auction!StageIsFree

(* Each step of the handlers, of the process or of the surroundings is one
   operation on one lot, or shows nothing. *)
LEMMA NextAuction ==
  ASSUME TypeOK, FloorInvariant, FloorInvariant', RecordInvariant, RowsAreShown, RowsAreShown',
         [Next]_vars
  PROVE  Auction!Next \/ UNCHANGED Auction!vars
<1>1. CASE UNCHANGED <<lotStatus, bids, sales>>
  <2>1. \A l \in Lots : UNCHANGED <<PlaceOf(l), PaidOf(l)>>
    BY <1>1 DEF PlaceOf, PaidOf
  <2>2. \A l \in Lots : UNCHANGED <<OffersOf(l), TopOf(l)>>
    BY <1>1, SameRows
  <2> QED
    BY <2>1, <2>2 DEF Auction!vars
<1>2. ASSUME NEW r \in Requests, CommitBid(r)
      PROVE  Auction!Next
  BY <1>2, BidShown DEF RecordInvariant, Auction!Next
<1>3. ASSUME NEW r \in Requests, CommitStage(r)
      PROVE  Auction!Next \/ UNCHANGED Auction!vars
  BY <1>3, StageShown DEF Auction!Next
<1>4. ASSUME NEW r \in Requests, CommitSale(r)
      PROVE  Auction!Next
  BY <1>4, SaleShown DEF Auction!Next
<1>5. ASSUME NEW r \in Requests, DeleteLot(r)
      PROVE  Auction!Next
  BY <1>5, RemovalShown DEF Auction!Next
<1>6. ASSUME NEW r \in Requests, DeleteUser(r)
      PROVE  Auction!Next
  BY <1>6, StrikeShown DEF Auction!Next
<1> QED
  BY <1>1, <1>2, <1>3, <1>4, <1>5, <1>6, TableSteps

(* The tables implement AuctionLedger. *)
THEOREM ImplementsAuction == Spec => KeepsAuction
<1>1. TypeOK /\ FloorInvariant /\ FloorInvariant' /\ RecordInvariant /\ RowsAreShown
        /\ RowsAreShown' /\ [Next]_vars => [Auction!Next]_Auction!vars
  BY NextAuction
<1> QED
  BY <1>1, InitAuction, TypeCorrect, FloorIsConsistent, RecordsAreKept, Shown, PTL
     DEF Spec, KeepsAuction, Auction!Spec

\* The price a lot shows goes up by the increment or, with the bidder or the
\* lot, away; what was paid stays until the lot is removed.
PricesHold(l) ==
  /\ \/ TopOf(l)' \in {TopOf(l), NoPrice}
     \/ TopOf(l)' >= MinimumBidAmount(InitialPrice[l], TopOf(l), MinBidIncrement)
  /\ PaidOf(l) # NoPrice => PaidOf(l)' = PaidOf(l) \/ lotStatus'[l] = "REMOVED"

(* What the auction promises of its prices, the tables keep: whatever bids and
   sales overlap, no price that is shown is replaced by a lower one, and no
   price that was paid is changed (persist of BidsService, create of
   SalesService). *)
THEOREM PricesOnlyRise == Spec => [][\A l \in Lots : PricesHold(l)]_vars
<1>1. ASSUME TypeOK, FloorInvariant, FloorInvariant', RecordInvariant, RowsAreShown, RowsAreShown',
             [Next]_vars, NEW l \in Lots
      PROVE  PricesHold(l)
  <2>1. PaidOf(l) # NoPrice => PlaceOf(l) = "sold"
    <3>1. PaidOf(l) # NoPrice => lotStatus[l] = "SOLD"
      BY <1>1 DEF RowsAreShown, FloorInvariant, SoldMeansOneSale
    <3> QED
      BY <3>1 DEF PlaceOf
  <2>2. CASE UNCHANGED Auction!vars
    BY <2>2 DEF Auction!vars, PricesHold
  <2>3. ASSUME NEW m \in Lots, Auction!Enter(m) \/ Auction!Leave(m)
        PROVE  PricesHold(l)
    BY <2>3 DEF Auction!Enter, Auction!Leave, PricesHold
  <2>4. ASSUME NEW m \in Lots, Auction!Remove(m)
        PROVE  PricesHold(l)
    <3>1. TopOf(l)' \in {TopOf(l), NoPrice}
      BY <2>4 DEF Auction!Remove
    <3>2. CASE l # m
      BY <3>1, <3>2, <2>4 DEF Auction!Remove, PricesHold
    <3>3. CASE l = m
      <4>1. PlaceOf(l)' = "gone"
        BY <2>4, <3>3 DEF Auction!Remove
      <4>2. lotStatus'[l] = "REMOVED"
        BY <4>1 DEF PlaceOf
      <4> QED
        BY <3>1, <4>2 DEF PricesHold
    <3> QED
      BY <3>2, <3>3
  <2>5. ASSUME NEW m \in Lots, NEW amount \in OffersOf(m)', Auction!Raise(m, amount)
        PROVE  PricesHold(l)
    <3>1. CASE l = m
      <4>1. /\ TopOf(l)' = amount
            /\ amount >= Auction!MinimumBidAmount(InitialPrice[l], TopOf(l), MinBidIncrement)
            /\ PaidOf(l)' = PaidOf(l)
        BY <2>5, <3>1 DEF Auction!Raise
      <4>2. Auction!MinimumBidAmount(InitialPrice[l], TopOf(l), MinBidIncrement)
              = MinimumBidAmount(InitialPrice[l], TopOf(l), MinBidIncrement)
        BY DEF MinimumBidAmount, Auction!MinimumBidAmount, EffectiveBidIncrement,
               Auction!EffectiveBidIncrement, BidStep, Auction!BidStep
      <4> QED
        BY <4>1, <4>2 DEF PricesHold
    <3>2. CASE l # m
      BY <2>5, <3>2 DEF Auction!Raise, PricesHold
    <3> QED
      BY <3>1, <3>2
  <2>6. ASSUME NEW m \in Lots, NEW amount \in OffersOf(m), Auction!Sell(m, amount)
        PROVE  PricesHold(l)
    <3>1. CASE l = m
      BY <2>1, <2>6, <3>1 DEF Auction!Sell, PricesHold
    <3>2. CASE l # m
      BY <2>6, <3>2 DEF Auction!Sell, PricesHold
    <3> QED
      BY <3>1, <3>2
  <2>7. CASE Auction!StrikeOut
    BY <2>7 DEF Auction!StrikeOut, PricesHold
  <2> QED
    BY <1>1, <2>2, <2>3, <2>4, <2>5, <2>6, <2>7, NextAuction DEF Auction!Next
<1>2. TypeOK /\ FloorInvariant /\ FloorInvariant' /\ RecordInvariant /\ RowsAreShown
        /\ RowsAreShown' /\ [Next]_vars => [\A l \in Lots : PricesHold(l)]_vars
  BY <1>1
<1> QED
  BY <1>2, TypeCorrect, FloorIsConsistent, RecordsAreKept, Shown, PTL DEF Spec

-----------------------------------------------------------------------------
(* What outruns a bid, where all calls are bids: each refusal of one request
   is the doing of another whose bid is recorded, and no two refusals of a
   request are the doing of the same one. *)

Recorded == {b.id : b \in bids}

\* The attempts of r that the database has refused or is going to refuse.
Outrun(r) == IF pc[r] = "failed" THEN MaxAttempts
             ELSE attempt[r] - 1 + (IF r \in doomed THEN 1 ELSE 0)

OutrunIsRecorded ==
  /\ IsFiniteSet(bids)
  /\ \A r \in Requests : Cardinality(Recorded \ {r}) >= Outrun(r)

(* A finite set has no more elements than the set a function maps onto it. *)
LEMMA OntoIsSmaller ==
  ASSUME NEW S, IsFiniteSet(S), NEW T, NEW f \in [S -> T], \A t \in T : \E s \in S : f[s] = t
  PROVE  IsFiniteSet(T) /\ Cardinality(T) <= Cardinality(S)
<1>1. f \in Surjection(S, T)
  BY DEF Surjection
<1> QED
  BY <1>1, FS_Surjection

(* Where all calls are bids, a step records a bid or counts no refusal. *)
LEMMA BidsOnlySteps ==
  ASSUME Calls \subseteq BidCall, TypeOK, [Next]_vars
  PROVE  \/ \E q \in Requests : CommitBid(q)
         \/ UNCHANGED bids /\ \A r \in Requests : Outrun(r)' <= Outrun(r)
<1>1. \A q \in Requests : call[q].kind = "bid"
  BY DEF TypeOK, BidCall
<1>2. ASSUME NEW q \in Requests, BeginBid(q) \/ RejectBid(q) \/ Emit(q) \/ Lose(q)
      PROVE  UNCHANGED bids /\ \A r \in Requests : Outrun(r)' <= Outrun(r)
  BY <1>2 DEF BeginBid, RejectBid, Emit, Lose, Answer, Goto, database, Outrun, TypeOK, MaxAttempts
<1>3. ASSUME NEW q \in Requests, RefuseBid(q)
      PROVE  UNCHANGED bids /\ \A r \in Requests : Outrun(r)' <= Outrun(r)
  BY <1>3 DEF RefuseBid, Refused, Goto, database, Outrun, TypeOK, MaxAttempts
<1>4. ASSUME Surroundings \/ UNCHANGED vars
      PROVE  UNCHANGED bids /\ \A r \in Requests : Outrun(r)' <= Outrun(r)
  BY <1>4 DEF Surroundings, Review, CloseAccess, CloseAuction, database, control, vars, Outrun,
              TypeOK, MaxAttempts
<1>5. ASSUME NEW q \in Requests, Stage(q) \/ Sale(q) \/ RemoveLot(q) \/ RemoveUser(q)
                                 \/ RemoveAuction(q)
      PROVE  FALSE
  BY <1>1, <1>5
     DEF Stage, BeginStage, KeepStage, RejectStage, CommitStage, RefuseStage, Sale, ReadLot,
         ReadWinner, NoWinner, CommitSale, RejectSale, RemoveLot, CheckLot, DeleteLot, LotGone,
         RemoveUser, CheckUser, DeleteUser, UserKept, RemoveAuction, CheckAuction, DeleteAuction,
         AuctionGone
<1> QED
  BY <1>2, <1>3, <1>4, <1>5 DEF Next, Handle, Bid

(* Every step keeps the record by which a refused bid was outrun. *)
LEMMA NextOutrun ==
  ASSUME Calls \subseteq BidCall, TypeOK, TypeOK', FloorInvariant, BidsAreCalled,
         OutrunIsRecorded, [Next]_vars
  PROVE  OutrunIsRecorded'
<1>1. IsFiniteSet(Recorded)
  <2> DEFINE f == [b \in bids |-> b.id]
  <2>1. f \in [bids -> Recorded] /\ \A t \in Recorded : \E s \in bids : f[s] = t
    BY DEF Recorded
  <2> QED
    BY <2>1, OntoIsSmaller DEF OutrunIsRecorded
<1>2. \A r \in Requests : Outrun(r) \in Nat /\ Outrun(r)' \in Nat
  BY DEF Outrun, MaxAttempts, TypeOK
<1>3. \A r \in Requests : Cardinality(Recorded \ {r}) \in Nat
  BY <1>1, FS_RemoveElement, FS_CardinalityType
<1>4. ASSUME UNCHANGED bids, \A r \in Requests : Outrun(r)' <= Outrun(r)
      PROVE  OutrunIsRecorded'
  <2>1. Recorded' = Recorded
    BY <1>4 DEF Recorded
  <2> QED
    BY <1>2, <1>3, <1>4, <2>1 DEF OutrunIsRecorded
<1>5. ASSUME NEW q \in Requests, CommitBid(q)
      PROVE  OutrunIsRecorded'
  <2>1. IsFiniteSet(bids')
    <3> DEFINE Old == {Outbid(b) : b \in seen[q]}
               f == [b \in seen[q] |-> Outbid(b)]
    <3>1. seen[q] \subseteq bids
      BY <1>5, CommittedBid DEF WinningBids
    <3>2. IsFiniteSet(seen[q]) /\ IsFiniteSet(bids \ seen[q])
      BY <3>1, FS_Subset DEF OutrunIsRecorded
    <3>3. f \in [seen[q] -> Old] /\ \A t \in Old : \E s \in seen[q] : f[s] = t
      OBVIOUS
    <3> HIDE DEF f, Old
    <3>4. IsFiniteSet(Old)
      BY <3>2, <3>3, OntoIsSmaller
    <3>5. IsFiniteSet((bids \ seen[q]) \cup Old)
      BY <3>2, <3>4, FS_Union
    <3>6. bids' = ((bids \ seen[q]) \cup Old) \cup {NewBid(q)}
      BY <1>5 DEF CommitBid, Old
    <3> QED
      BY <3>5, <3>6, FS_AddElement
  <2>2. q \notin Recorded
    BY <1>5 DEF CommitBid, Recorded, BidsAreCalled
  <2>3. Recorded' = Recorded \cup {q}
    <3>1. /\ NewBid(q) \in bids' /\ NewBid(q).id = q
          /\ \A b \in bids : \E c \in bids' : b.id = c.id
          /\ \A c \in bids' : c = NewBid(q) \/ \E b \in bids : b.id = c.id
      BY <1>5, CommittedBid DEF SameBid, NewBid
    <3>2. Recorded' \subseteq Recorded \cup {q}
      BY <3>1 DEF Recorded
    <3>3. Recorded \cup {q} \subseteq Recorded'
      BY <3>1 DEF Recorded
    <3> QED
      BY <3>2, <3>3
  <2>4. Outrun(q)' <= Outrun(q)
    BY <1>5 DEF CommitBid, RefuseRivals, Goto, Outrun, TypeOK, MaxAttempts
  <2>5. \A r \in Requests : r # q => Outrun(r)' <= Outrun(r) + 1
    BY <1>5 DEF CommitBid, RefuseRivals, Goto, Outrun, TypeOK, MaxAttempts
  <2>6. ASSUME NEW r \in Requests, r # q
        PROVE  Cardinality(Recorded' \ {r}) = Cardinality(Recorded \ {r}) + 1
    <3>1. Recorded' \ {r} = (Recorded \ {r}) \cup {q} /\ q \notin Recorded \ {r}
      BY <2>2, <2>3, <2>6
    <3>2. IsFiniteSet(Recorded \ {r})
      BY <1>1, FS_RemoveElement
    <3> QED
      BY <3>1, <3>2, FS_AddElement
  <2>7. Recorded' \ {q} = Recorded \ {q}
    BY <2>3
  <2>8. ASSUME NEW r \in Requests
        PROVE  Cardinality(Recorded' \ {r}) >= Outrun(r)'
    <3>1. CASE r = q
      BY <1>2, <1>3, <2>4, <2>7, <3>1 DEF OutrunIsRecorded
    <3>2. CASE r # q
      <4>1. /\ Outrun(r)' <= Outrun(r) + 1
            /\ Cardinality(Recorded' \ {r}) = Cardinality(Recorded \ {r}) + 1
            /\ Cardinality(Recorded \ {r}) >= Outrun(r)
        BY <2>5, <2>6, <3>2 DEF OutrunIsRecorded
      <4>2. Cardinality(Recorded \ {r}) \in Nat /\ Outrun(r) \in Nat /\ Outrun(r)' \in Nat
        BY <1>2, <1>3
      <4> QED
        BY <4>1, <4>2
    <3> QED
      BY <3>1, <3>2
  <2> QED
    BY <2>1, <2>8 DEF OutrunIsRecorded
<1> QED
  BY <1>4, <1>5, BidsOnlySteps

(* Where all calls are bids, a bid that is given up on lost every attempt it
   is allowed, each to another bid that is on record. *)
THEOREM FailedBidsAreOutrun ==
  ASSUME Calls \subseteq BidCall
  PROVE  Spec => []FailedBidWasOutrun
<1>1. Init => OutrunIsRecorded
  <2> SUFFICES ASSUME Init PROVE OutrunIsRecorded
    OBVIOUS
  <2>1. bids = {} /\ \A r \in Requests : Recorded \ {r} = {} /\ Outrun(r) = 0
    BY DEF Init, Recorded, Outrun
  <2> QED
    BY <2>1, FS_EmptySet DEF OutrunIsRecorded
<1>2. TypeOK /\ TypeOK' /\ FloorInvariant /\ RecordInvariant /\ OutrunIsRecorded /\ [Next]_vars
        => OutrunIsRecorded'
  BY NextOutrun DEF RecordInvariant
<1>3. OutrunIsRecorded => FailedBidWasOutrun
  <2> SUFFICES ASSUME OutrunIsRecorded, NEW r \in Requests, pc[r] = "failed"
               PROVE  Cardinality({b \in bids : b.id # r}) >= MaxAttempts
    BY DEF FailedBidWasOutrun
  <2> DEFINE Others == {b \in bids : b.id # r}
             f == [b \in Others |-> b.id]
  <2>1. IsFiniteSet(Others)
    BY FS_Subset DEF OutrunIsRecorded
  <2>2. f \in [Others -> Recorded \ {r}] /\ \A t \in Recorded \ {r} : \E s \in Others : f[s] = t
    BY DEF Recorded
  <2>3. IsFiniteSet(Recorded \ {r}) /\ Cardinality(Recorded \ {r}) <= Cardinality(Others)
    BY <2>1, <2>2, OntoIsSmaller
  <2>4. Cardinality(Recorded \ {r}) >= MaxAttempts
    BY DEF OutrunIsRecorded, Outrun
  <2>5. Cardinality(Others) \in Nat /\ Cardinality(Recorded \ {r}) \in Nat
    BY <2>1, <2>3, FS_CardinalityType
  <2> QED
    BY <2>3, <2>4, <2>5 DEF MaxAttempts
<1> QED
  BY <1>1, <1>2, <1>3, TypeCorrect, FloorIsConsistent, RecordsAreKept, PTL DEF Spec
=============================================================================
