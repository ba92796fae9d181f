---------------------------- MODULE AuctionFloor ----------------------------
(***************************************************************************)
(* The auction floor of the backend: the HTTP handlers that record bids    *)
(* (BidsService.place), move a lot on and off the stage                    *)
(* (LotsService.setStage), confirm its sale (SalesService.create) and      *)
(* remove lots, users and auctions, running concurrently against one       *)
(* PostgreSQL database.                                                    *)
(*                                                                         *)
(* Every request in Requests is one HTTP call handled once.  Bids and      *)
(* stage changes run in SERIALIZABLE transactions that are retried; the    *)
(* sale runs at the default READ COMMITTED level, so each of its queries   *)
(* sees the last committed state; removals check and delete in separate    *)
(* queries.  A socket event leaves in a step of its own after the commit.  *)
(***************************************************************************)
EXTENDS BidPricing, FiniteSets

CONSTANTS
  Lots, Auctions, AuctionOf,   \* AuctionOf[l]: the auction lot l is offered in
  Actors, HouseOf, SellerOf,   \* owner of an auction, seller of a lot (both actors)
  ConsignedTo,                 \* the office of the consignment of a lot
  Users,                       \* bidders
  Accesses, AccessAuction,     \* operator accesses and the auction of each
  Online,                      \* the `access' of a bid placed online
  InitialPrice,                \* InitialPrice[l], NoPrice when null
  MinBidIncrement,             \* AuctionSettings.minBidIncrement
  Requests, Calls              \* request identities, and the calls they may carry

ASSUME FloorAssumption ==
  /\ AuctionOf \in [Lots -> Auctions]
  /\ HouseOf \in [Auctions -> Actors]
  /\ SellerOf \in [Lots -> Actors]
  /\ ConsignedTo \in [Lots -> Actors]
  /\ AccessAuction \in [Accesses -> Auctions]
  /\ Online \notin Accesses
  /\ InitialPrice \in [Lots -> Price]
  /\ MinBidIncrement \in Nat

BidCall        == [kind : {"bid"}, lot : Lots, bidder : Users,
                   amount : BidAmount, access : Accesses \cup {Online}]
StageCall      == [kind : {"stage"}, lot : Lots, actor : Actors,
                   target : {"AVAILABLE", "IN_AUCTION"}]
SaleCall       == [kind : {"sale"}, lot : Lots, actor : Actors]
RemoveLotCall  == [kind : {"removeLot"}, lot : Lots, actor : Actors]
RemoveUserCall == [kind : {"removeUser"}, user : Users]
RemoveAuctionCall == [kind : {"removeAuction"}, auction : Auctions, actor : Actors]

ASSUME CallAssumption ==
  Calls \subseteq BidCall \cup StageCall \cup SaleCall
                    \cup RemoveLotCall \cup RemoveUserCall \cup RemoveAuctionCall

MaxAttempts == 3

\* Mutant: a sold lot may be put on stage again.
WaitingOrSold == {"DRAFT", "UNDER_REVIEW", "APPROVED", "AVAILABLE", "SOLD"}

\* The statuses from which a lot may be put on stage.
WaitingStatus == {"DRAFT", "UNDER_REVIEW", "APPROVED", "AVAILABLE"}
LotStatus == WaitingStatus \cup {"IN_AUCTION", "SOLD", "WITHDRAWN", "REJECTED"}

VARIABLES
  lotStatus,   \* the status column of each lot, "REMOVED" once the row is deleted
  bids,        \* the bid rows
  sales,       \* the sale rows
  buyer,       \* each user: approved with IE, not approved, or deleted
  openAccess,  \* operator accesses used, not revoked and not expired
  closed,      \* auctions FINISHED or CANCELED
  gone,        \* auctions deleted: their lots belong to none
  call,        \* the call each request carries
  pc,          \* where its handler is
  attempt,     \* which transaction attempt it is on
  seen,        \* bid rows its transaction read and is going to use
  doomed       \* open serializable transactions the database will refuse

database == <<lotStatus, bids, sales, buyer>>
control == <<call, pc, attempt, seen, doomed>>
vars == <<lotStatus, bids, sales, buyer, openAccess, closed, gone,
          call, pc, attempt, seen, doomed>>

BidRow  == [id : Requests, lot : Lots, bidder : Users, amount : Nat,
            status : {"WINNING", "OUTBID"}]
SaleRow == [lot : Lots, buyer : Users, price : Nat]

Resting == {"done", "rejected", "failed", "lost"}
Phase   == {"ready", "open", "lotRead", "offer", "checked", "committed"} \cup Resting

TypeOK ==
  /\ lotStatus \in [Lots -> LotStatus \cup {"REMOVED"}]
  /\ bids \subseteq BidRow
  /\ sales \subseteq SaleRow
  /\ buyer \in [Users -> {"APPROVED", "UNAPPROVED", "REMOVED"}]
  /\ openAccess \subseteq Accesses
  /\ closed \subseteq Auctions
  /\ gone \subseteq Auctions
  /\ call \in [Requests -> Calls]
  /\ pc \in [Requests -> Phase]
  /\ attempt \in [Requests -> 1..MaxAttempts]
  /\ seen \in [Requests -> SUBSET BidRow]
  /\ doomed \subseteq Requests

-----------------------------------------------------------------------------
OnStage(a) == {l \in Lots : AuctionOf[l] = a /\ lotStatus[l] = "IN_AUCTION"}

WinningBids(l) == {b \in bids : b.lot = l /\ b.status = "WINNING"}

\* findFirst({status: WINNING}, orderBy amount desc)
HighestWinning(l) ==
  {b \in WinningBids(l) : \A other \in WinningBids(l) : b.amount >= other.amount}

WinningAmounts(l) ==
  IF WinningBids(l) = {} THEN {NoPrice} ELSE {b.amount : b \in HighestWinning(l)}

Owner(l) == HouseOf[AuctionOf[l]]

\* lot.auctionId is null: deleting the auction sets it so, and nothing else writes it.
Orphan(l) == AuctionOf[l] \in gone

Goto(r, phase) == pc' = [pc EXCEPT ![r] = phase]

Open == {r \in Requests : pc[r] = "open"}

-----------------------------------------------------------------------------
(***************************************************************************)
(* What the database does to open serializable transactions.  Two of them  *)
(* that each read what the other writes cannot both commit: the second one *)
(* is refused.  Bids on one lot read and replace its winning bid; a stage  *)
(* change reads the winning bid of its lot and every lot of the auction,   *)
(* and writes its lot, which a bid on that lot reads.  Predicate locks are *)
(* coarse, so any other open transaction may be refused as well.           *)
(***************************************************************************)
Clash(c, d) ==
  \/ c.kind = "stage" /\ d.kind = "stage" /\ AuctionOf[c.lot] = AuctionOf[d.lot]
  \/ "bid" \in {c.kind, d.kind} /\ c.lot = d.lot

\* Mutant: the transactions run at the default isolation level.
RefuseNobody(r) == UNCHANGED doomed

RefuseRivals(r) ==
  \E unlucky \in SUBSET (Open \ {r}) :
    doomed' = doomed \cup unlucky
                     \cup {o \in Open \ {r} : Clash(call[o], call[r])}

\* Mutant: the attempt limit is left out of the retry condition.
RefusedWithoutLimit(r, retried) ==
  /\ pc[r] = "open"
  /\ r \in doomed
  /\ doomed' = doomed \ {r}
  /\ seen' = [seen EXCEPT ![r] = {}]
  /\ IF retried
       THEN Goto(r, "ready") /\ attempt' = [attempt EXCEPT ![r] = @ + 1]
       ELSE Goto(r, "failed") /\ UNCHANGED attempt
  /\ UNCHANGED <<database, openAccess, closed, gone, call>>

\* Mutant: the retry reuses the refused transaction and counts no attempt.
RefusedInPlace(r, retried) ==
  /\ pc[r] = "open"
  /\ r \in doomed
  /\ seen' = [seen EXCEPT ![r] = {}]
  /\ Goto(r, "ready")
  /\ UNCHANGED <<database, openAccess, closed, gone, call, attempt, doomed>>

\* The first attempt, or a retry, is refused: isSerializationFailure decides.
Refused(r, retried) ==
  /\ pc[r] = "open"
  /\ r \in doomed
  /\ doomed' = doomed \ {r}
  /\ seen' = [seen EXCEPT ![r] = {}]
  /\ IF retried /\ attempt[r] < MaxAttempts
       THEN Goto(r, "ready") /\ attempt' = [attempt EXCEPT ![r] = @ + 1]
       ELSE Goto(r, "failed") /\ UNCHANGED attempt
  /\ UNCHANGED <<database, openAccess, closed, gone, call>>

Answer(r, phase) ==
  /\ Goto(r, phase)
  /\ UNCHANGED <<database, openAccess, closed, gone, call, attempt, seen, doomed>>

-----------------------------------------------------------------------------
(* BidsService.place and persist *)

\* Mutant: the access is not read again inside the transaction.
OperatorMayBidOnStage(c) ==
  /\ AccessAuction[c.access] \notin closed
  /\ c.lot \in OnStage(AccessAuction[c.access])

OperatorMayBid(c) ==
  /\ c.access \in openAccess
  /\ AccessAuction[c.access] \notin closed
  /\ c.lot \in OnStage(AccessAuction[c.access])

\* Mutant: a lot that lost its auction still takes bids.
BidAdmissibleOrphaned(c) ==
  /\ c.access # Online => OperatorMayBid(c)
  /\ lotStatus[c.lot] = "IN_AUCTION"
  /\ buyer[c.bidder] = "APPROVED"
  /\ \E winning \in WinningAmounts(c.lot) :
       c.amount >= MinimumBidAmount(InitialPrice[c.lot], winning, MinBidIncrement)

BidAdmissible(c) ==
  /\ c.access # Online => OperatorMayBid(c)
  /\ ~ Orphan(c.lot)
  /\ lotStatus[c.lot] = "IN_AUCTION"
  /\ buyer[c.bidder] = "APPROVED"
  /\ \E winning \in WinningAmounts(c.lot) :
       c.amount >= MinimumBidAmount(InitialPrice[c.lot], winning, MinBidIncrement)

BeginBid(r) ==
  /\ call[r].kind = "bid"
  /\ pc[r] = "ready"
  /\ BidAdmissible(call[r])
  /\ seen' = [seen EXCEPT ![r] = WinningBids(call[r].lot)]
  /\ Goto(r, "open")
  /\ UNCHANGED <<database, openAccess, closed, gone, call, attempt, doomed>>

RejectBid(r) ==
  /\ call[r].kind = "bid"
  /\ pc[r] = "ready"
  /\ ~ BidAdmissible(call[r])
  /\ Answer(r, "rejected")

NewBid(r) == [id |-> r, lot |-> call[r].lot, bidder |-> call[r].bidder,
              amount |-> call[r].amount, status |-> "WINNING"]

Outbid(b) == [b EXCEPT !.status = "OUTBID"]

CommitBid(r) ==
  /\ call[r].kind = "bid"
  /\ pc[r] = "open"
  /\ r \notin doomed
  /\ bids' = (bids \ seen[r]) \cup {Outbid(b) : b \in seen[r]} \cup {NewBid(r)}
  /\ RefuseRivals(r)
  /\ seen' = [seen EXCEPT ![r] = {}]
  /\ Goto(r, "committed")
  /\ UNCHANGED <<lotStatus, sales, buyer, openAccess, closed, gone, call, attempt>>

\* Mutant: the attempt limit is off by one.
RefuseBidEarly(r) == call[r].kind = "bid" /\ Refused(r, attempt[r] + 1 < MaxAttempts)

RefuseBid(r) == call[r].kind = "bid" /\ Refused(r, TRUE)

Bid(r) == BeginBid(r) \/ RejectBid(r) \/ CommitBid(r) \/ RefuseBid(r)

-----------------------------------------------------------------------------
(* LotsService.setStage *)

StageOwned(c) ==
  /\ lotStatus[c.lot] # "REMOVED"
  /\ ~ Orphan(c.lot)
  /\ c.actor = Owner(c.lot)

\* Mutant: the other lots of the auction are not looked at.
StageLegalAlone(c) ==
  \/ c.target = "IN_AUCTION" /\ lotStatus[c.lot] \in WaitingStatus
  \/ c.target = "AVAILABLE" /\ lotStatus[c.lot] = "IN_AUCTION"

\* Mutant: any lot may be taken back to AVAILABLE.
StageLegalBack(c) ==
  \/ /\ c.target = "IN_AUCTION"
     /\ lotStatus[c.lot] \in WaitingStatus
     /\ OnStage(AuctionOf[c.lot]) \subseteq {c.lot}
  \/ c.target = "AVAILABLE"

StageLegal(c) ==
  \/ /\ c.target = "IN_AUCTION"
     /\ lotStatus[c.lot] \in WaitingStatus
     /\ OnStage(AuctionOf[c.lot]) \subseteq {c.lot}
  \/ /\ c.target = "AVAILABLE"
     /\ lotStatus[c.lot] = "IN_AUCTION"

BeginStage(r) ==
  /\ call[r].kind = "stage"
  /\ pc[r] = "ready"
  /\ StageOwned(call[r])
  /\ StageLegal(call[r])
  /\ Goto(r, "open")
  /\ UNCHANGED <<database, openAccess, closed, gone, call, attempt, seen, doomed>>

\* The lot already has the status asked for: nothing is written, but the
\* stage event still goes out.
KeepStage(r) ==
  /\ call[r].kind = "stage"
  /\ pc[r] = "ready"
  /\ StageOwned(call[r])
  /\ lotStatus[call[r].lot] = call[r].target
  /\ Answer(r, "committed")

RejectStage(r) ==
  /\ call[r].kind = "stage"
  /\ pc[r] = "ready"
  /\ \/ ~ StageOwned(call[r])
     \/ ~ StageLegal(call[r]) /\ lotStatus[call[r].lot] # call[r].target
  /\ Answer(r, "rejected")

CommitStage(r) ==
  /\ call[r].kind = "stage"
  /\ pc[r] = "open"
  /\ r \notin doomed
  /\ lotStatus' = [lotStatus EXCEPT ![call[r].lot] = call[r].target]
  /\ RefuseRivals(r)
  /\ Goto(r, "committed")
  /\ UNCHANGED <<bids, sales, buyer, openAccess, closed, gone, call, attempt, seen>>

\* The database reports the conflict as Prisma's P2034, which setStage
\* retries, or as the driver's own commit error, which it does not know.
RefuseStage(r) ==
  /\ call[r].kind = "stage"
  /\ \E reported \in {"P2034", "TransactionWriteConflict"} :
       Refused(r, reported = "P2034")

Stage(r) == \/ BeginStage(r) \/ KeepStage(r) \/ RejectStage(r)
            \/ CommitStage(r) \/ RefuseStage(r)

-----------------------------------------------------------------------------
(* SalesService.create: three queries at READ COMMITTED, then the commit *)

SaleAdmissible(c) ==
  /\ ~ Orphan(c.lot)
  /\ lotStatus[c.lot] = "IN_AUCTION"
  /\ c.actor = Owner(c.lot)
  /\ \A s \in sales : s.lot # c.lot

ReadLot(r) ==
  /\ call[r].kind = "sale"
  /\ pc[r] = "ready"
  /\ Answer(r, IF SaleAdmissible(call[r]) THEN "lotRead" ELSE "rejected")

ReadWinner(r) ==
  /\ call[r].kind = "sale"
  /\ pc[r] = "lotRead"
  /\ \E b \in HighestWinning(call[r].lot) : seen' = [seen EXCEPT ![r] = {b}]
  /\ Goto(r, "offer")
  /\ UNCHANGED <<database, openAccess, closed, gone, call, attempt, doomed>>

NoWinner(r) ==
  /\ call[r].kind = "sale"
  /\ pc[r] = "lotRead"
  /\ WinningBids(call[r].lot) = {}
  /\ Answer(r, "rejected")

\* sale.lotId is unique and both foreign keys must hold when the row is written.
SaleRowFits(s) ==
  /\ lotStatus[s.lot] # "REMOVED"
  /\ buyer[s.buyer] # "REMOVED"
  /\ \A other \in sales : other.lot # s.lot

SaleOf(b) == [lot |-> b.lot, buyer |-> b.bidder, price |-> b.amount]

\* Writing the lot row refuses the open stage changes of that lot; a bid,
\* which only reads the row, goes through.
CommitSale(r) ==
  /\ call[r].kind = "sale"
  /\ pc[r] = "offer"
  /\ \E b \in seen[r] :
       /\ SaleRowFits(SaleOf(b))
       /\ sales' = sales \cup {SaleOf(b)}
       /\ lotStatus' = [lotStatus EXCEPT ![b.lot] = "SOLD"]
       /\ doomed' = doomed \cup {o \in Open : call[o].kind = "stage" /\ call[o].lot = b.lot}
  /\ seen' = [seen EXCEPT ![r] = {}]
  /\ Goto(r, "committed")
  /\ UNCHANGED <<bids, buyer, openAccess, closed, gone, call, attempt>>

\* Mutant: the failed insert is swallowed and the sale announced.
RejectSaleSilently(r) ==
  /\ call[r].kind = "sale"
  /\ pc[r] = "offer"
  /\ \A b \in seen[r] : ~ SaleRowFits(SaleOf(b))
  /\ seen' = [seen EXCEPT ![r] = {}]
  /\ Goto(r, "committed")
  /\ UNCHANGED <<database, openAccess, closed, gone, call, attempt, doomed>>

RejectSale(r) ==
  /\ call[r].kind = "sale"
  /\ pc[r] = "offer"
  /\ \A b \in seen[r] : ~ SaleRowFits(SaleOf(b))
  /\ seen' = [seen EXCEPT ![r] = {}]
  /\ Goto(r, "rejected")
  /\ UNCHANGED <<database, openAccess, closed, gone, call, attempt, doomed>>

Sale(r) == \/ ReadLot(r) \/ ReadWinner(r) \/ NoWinner(r)
           \/ CommitSale(r) \/ RejectSale(r)

-----------------------------------------------------------------------------
(* The removal of a lot, a user or an auction: check, then delete.  The    *)
(* delete cascades to the rows that refer to the deleted one and refuses   *)
(* the open transactions that are about to write such a row.               *)

\* A lot without an auction is the office's it was consigned to.
Managers(l) == {SellerOf[l], IF Orphan(l) THEN ConsignedTo[l] ELSE Owner(l)}

CheckLot(r) ==
  /\ call[r].kind = "removeLot"
  /\ pc[r] = "ready"
  /\ Answer(r, IF /\ lotStatus[call[r].lot] # "REMOVED"
                  /\ call[r].actor \in Managers(call[r].lot)
               THEN "checked" ELSE "rejected")

DeleteLot(r) ==
  /\ call[r].kind = "removeLot"
  /\ pc[r] = "checked"
  /\ lotStatus[call[r].lot] # "REMOVED"
  /\ lotStatus' = [lotStatus EXCEPT ![call[r].lot] = "REMOVED"]
  /\ bids' = {b \in bids : b.lot # call[r].lot}
  /\ sales' = {s \in sales : s.lot # call[r].lot}
  /\ doomed' = doomed \cup {o \in Open : call[o].lot = call[r].lot}
  /\ Goto(r, "done")
  /\ UNCHANGED <<buyer, openAccess, closed, gone, call, attempt, seen>>

LotGone(r) ==
  /\ call[r].kind = "removeLot"
  /\ pc[r] = "checked"
  /\ lotStatus[call[r].lot] = "REMOVED"
  /\ Answer(r, "rejected")

RemoveLot(r) == CheckLot(r) \/ DeleteLot(r) \/ LotGone(r)

HasSale(u) == \E s \in sales : s.buyer = u

CheckUser(r) ==
  /\ call[r].kind = "removeUser"
  /\ pc[r] = "ready"
  /\ Answer(r, IF /\ buyer[call[r].user] # "REMOVED"
                  /\ ~ HasSale(call[r].user)
                  /\ \A l \in Lots : SellerOf[l] # call[r].user
               THEN "checked" ELSE "rejected")

\* Mutant: the sale of a buyer does not keep the buyer.
UserPresent(u) == buyer[u] # "REMOVED"

\* sales.buyerId has no ON DELETE action, so the database keeps a user with a sale.
UserDeletable(u) == buyer[u] # "REMOVED" /\ ~ HasSale(u)

DeleteUser(r) ==
  /\ call[r].kind = "removeUser"
  /\ pc[r] = "checked"
  /\ UserDeletable(call[r].user)
  /\ buyer' = [buyer EXCEPT ![call[r].user] = "REMOVED"]
  /\ bids' = {b \in bids : b.bidder # call[r].user}
  /\ doomed' = doomed \cup
       {o \in Open : /\ call[o].kind = "bid"
                     /\ \/ call[o].bidder = call[r].user
                        \/ \E b \in seen[o] : b.bidder = call[r].user}
  /\ Goto(r, "done")
  /\ UNCHANGED <<lotStatus, sales, openAccess, closed, gone, call, attempt, seen>>

UserKept(r) ==
  /\ call[r].kind = "removeUser"
  /\ pc[r] = "checked"
  /\ ~ UserDeletable(call[r].user)
  /\ Answer(r, "rejected")

RemoveUser(r) == CheckUser(r) \/ DeleteUser(r) \/ UserKept(r)

CheckAuction(r) ==
  /\ call[r].kind = "removeAuction"
  /\ pc[r] = "ready"
  /\ Answer(r, IF /\ call[r].auction \notin gone
                  /\ call[r].actor = HouseOf[call[r].auction]
               THEN "checked" ELSE "rejected")

\* The operator accesses of the auction go with it; the references of its lots
\* to it, and of bids to those accesses, become null.
DeleteAuction(r) ==
  /\ call[r].kind = "removeAuction"
  /\ pc[r] = "checked"
  /\ call[r].auction \notin gone
  /\ gone' = gone \cup {call[r].auction}
  /\ openAccess' = {a \in openAccess : AccessAuction[a] # call[r].auction}
  /\ doomed' = doomed \cup
       {o \in Open : /\ AuctionOf[call[o].lot] = call[r].auction
                     /\ \/ call[o].kind = "stage"
                        \/ call[o].access # Online
                        \/ \E b \in seen[o] : call[b.id].access # Online}
  /\ Goto(r, "done")
  /\ UNCHANGED <<database, closed, call, attempt, seen>>

AuctionGone(r) ==
  /\ call[r].kind = "removeAuction"
  /\ pc[r] = "checked"
  /\ call[r].auction \in gone
  /\ Answer(r, "rejected")

RemoveAuction(r) == CheckAuction(r) \/ DeleteAuction(r) \/ AuctionGone(r)

-----------------------------------------------------------------------------
\* The events go out and the client gets its answer.
Emit(r) == pc[r] = "committed" /\ Answer(r, "done")

\* The process dies or the connection or the transaction times out: what was
\* not committed is rolled back, and the events of what was are never sent.
Lose(r) ==
  /\ pc[r] \in {"open", "lotRead", "offer", "checked", "committed"}
  /\ Goto(r, "lost")
  /\ seen' = [seen EXCEPT ![r] = {}]
  /\ doomed' = doomed \ {r}
  /\ UNCHANGED <<database, openAccess, closed, gone, call, attempt>>

(* What other parts of the system change under the floor's feet. *)

\* The office reviews a registration, or the buyer asks for a new one.
Review(u) ==
  /\ buyer[u] # "REMOVED"
  /\ buyer' = [buyer EXCEPT ![u] = IF @ = "APPROVED" THEN "UNAPPROVED" ELSE "APPROVED"]
  /\ UNCHANGED <<lotStatus, bids, sales, openAccess, closed, gone, control>>

\* An operator access is revoked or expires.
CloseAccess(a) ==
  /\ a \in openAccess
  /\ openAccess' = openAccess \ {a}
  /\ UNCHANGED <<database, closed, gone, control>>

\* The office finishes or cancels an auction; it may also reopen it.
CloseAuction(a) ==
  /\ a \notin gone
  /\ closed' = IF a \in closed THEN closed \ {a} ELSE closed \cup {a}
  /\ UNCHANGED <<database, openAccess, gone, control>>

-----------------------------------------------------------------------------
(* An auction never has two lots on stage, whatever two offices' windows ask
   for at once (LotsService.setStage reads the stage, then writes its lot). *)
OneLotOnStage == \A a \in Auctions : \A l, m \in OnStage(a) : l = m

Init ==
  /\ lotStatus \in [Lots -> {"UNDER_REVIEW", "IN_AUCTION"}]
  /\ OneLotOnStage
  /\ bids = {}
  /\ sales = {}
  /\ buyer = [u \in Users |-> "APPROVED"]
  /\ openAccess = Accesses
  /\ closed = {}
  /\ gone = {}
  /\ call \in [Requests -> Calls]
  /\ pc = [r \in Requests |-> "ready"]
  /\ attempt = [r \in Requests |-> 1]
  /\ seen = [r \in Requests |-> {}]
  /\ doomed = {}

Handle(r) == \/ Bid(r) \/ Stage(r) \/ Sale(r) \/ Emit(r)
             \/ RemoveLot(r) \/ RemoveUser(r) \/ RemoveAuction(r)

Surroundings == \/ \E u \in Users : Review(u)
                \/ \E a \in Accesses : CloseAccess(a)
                \/ \E a \in Auctions : CloseAuction(a)

Next == (\E r \in Requests : Handle(r) \/ Lose(r)) \/ Surroundings

Spec == Init /\ [][Next]_vars

\* The event loop and the database settle every call in the end.
Fairness == \A r \in Requests : WF_vars(Handle(r))
FairSpec == Spec /\ Fairness

-----------------------------------------------------------------------------
(* Safety *)

(* A lot never has two WINNING bids: concurrent bids of BidsService.place
   that both saw the old winner cannot both be recorded. *)
OneWinningBid == \A b, c \in bids :
  b.lot = c.lot /\ b.status = "WINNING" /\ c.status = "WINNING" => b = c

(* While no bidder is deleted, every lot with bids has a winner, and the
   winner beats every bid it outbid by at least the effective increment,
   whatever snapshot each bid was priced on. *)
WinnerTopsHistory == \A b \in bids : \E w \in WinningBids(b.lot) :
  b = w \/ w.amount >= b.amount + EffectiveBidIncrement(MinBidIncrement)

(* A lot is SOLD exactly when it has one sale row, though SalesService.create
   and setStage write the lot at different isolation levels. *)
SoldMeansOneSale == \A l \in Lots :
  LET ofLot == {s \in sales : s.lot = l} IN
  /\ lotStatus[l] = "SOLD" <=> ofLot # {}
  /\ \A s, t \in ofLot : s = t

(* The buyer and the price of a sale are those of a bid still on record for
   that lot, although the sale reads the winner in one query and writes in
   another, and bids, lots and bidders are deleted concurrently. *)
SaleIsRecordedBid == \A s \in sales : \E b \in bids : SaleOf(b) = s

(* What an open transaction read is still true while the database has not
   refused it: a bid's winner is still the winner it was priced against, and
   the stage is still free for the lot that is entering it. *)
SnapshotHolds == \A r \in Open \ doomed :
  /\ call[r].kind = "bid" =>
       /\ seen[r] = WinningBids(call[r].lot)
       /\ \A b \in seen[r] :
            call[r].amount >= b.amount + EffectiveBidIncrement(MinBidIncrement)
  /\ call[r].kind = "stage" =>
       /\ lotStatus[call[r].lot] \notin {"SOLD", "REMOVED"}
       /\ call[r].target = "IN_AUCTION" =>
            OnStage(AuctionOf[call[r].lot]) \subseteq {call[r].lot}

(* The bid a sale has read stays on record until the sale is written, or its
   lot or bidder is gone for good and the sale row will not fit. *)
OfferStands == \A r \in Requests : pc[r] = "offer" => \A b \in seen[r] :
  \/ lotStatus[b.lot] = "REMOVED"
  \/ buyer[b.bidder] = "REMOVED"
  \/ \E c \in bids : SaleOf(c) = SaleOf(b)

(* The inductive invariant of the floor: the promises above, and what the
   handlers under way have read. *)
FloorInvariant == /\ OneWinningBid
                  /\ OneLotOnStage
                  /\ SoldMeansOneSale
                  /\ SaleIsRecordedBid
                  /\ SnapshotHolds
                  /\ OfferStands

(* An event goes out only for a write that was committed and is still there
   unless its lot or bidder was deleted: a refused or lost transaction
   announces nothing (the emit calls after $transaction). *)
EventsAreBacked == \A r \in Requests : pc[r] \in {"committed", "done"} =>
  /\ call[r].kind = "bid" =>
       \/ \E b \in bids : b.id = r
       \/ lotStatus[call[r].lot] = "REMOVED"
       \/ buyer[call[r].bidder] = "REMOVED"
  /\ call[r].kind = "sale" =>
       \/ \E s \in sales : s.lot = call[r].lot
       \/ lotStatus[call[r].lot] = "REMOVED"

(* Where all calls are bids, a bid is given up on only after every attempt
   it is allowed lost to a bid of someone else that was recorded. *)
FailedBidWasOutrun == \A r \in Requests :
  pc[r] = "failed" => Cardinality({b \in bids : b.id # r}) >= MaxAttempts

(* A sold lot never comes back on stage or into the queue: a stage change
   that started before the sale and commits after it is refused. *)
SoldIsFinal == [][\A l \in Lots :
  lotStatus[l] = "SOLD" => lotStatus'[l] \in {"SOLD", "REMOVED"}]_vars

(* Once an operator access is closed, no on-site bid that is not already in
   its transaction is ever recorded through it, retries included: persist
   reads the access again on every attempt. *)
NoBidAfterRevocation == \A r \in Requests :
  [](( /\ call[r].kind = "bid"
       /\ call[r].access # Online
       /\ call[r].access \notin openAccess
       /\ pc[r] = "ready") => [](\A b \in bids : b.id # r))

(* Once its auction is deleted, a lot is out of reach: only a call that was
   already under way can still record a bid or a sale on it, and none moves it
   on or off the stage, whatever attempt it is on. *)
OrphansTakeNoCalls == \A r \in Requests :
  [](( /\ \/ pc[r] = "ready" /\ call[r].kind \in {"bid", "stage", "sale"}
          \/ pc[r] = "open" /\ call[r].kind = "stage"
       /\ Orphan(call[r].lot)) => [](pc[r] \notin {"committed", "done"}))

(* Liveness *)

(* Every call is answered, refused, given up on or lost with the process:
   no handler waits for another or retries for ever. *)
EveryCallEnds == \A r \in Requests : <>(pc[r] \in Resting)

(* Refinement: what the bidders and the seller see of the tables *)
PlaceOf(l) == CASE lotStatus[l] = "IN_AUCTION" -> "stage"
                [] lotStatus[l] = "SOLD" -> "sold"
                [] lotStatus[l] = "REMOVED" -> "gone"
                [] OTHER -> "waiting"

OffersOf(l) == {b.amount : b \in {c \in bids : c.lot = l}}

TopOf(l) == CHOOSE amount \in WinningAmounts(l) : TRUE

PaidOf(l) == IF \E s \in sales : s.lot = l
             THEN (CHOOSE s \in sales : s.lot = l).price
             ELSE NoPrice

Auction == INSTANCE AuctionLedger WITH
  place  <- [l \in Lots |-> PlaceOf(l)],
  offers <- [l \in Lots |-> OffersOf(l)],
  top    <- [l \in Lots |-> TopOf(l)],
  paid   <- [l \in Lots |-> PaidOf(l)]

(* However the handlers interleave, what the tables show is the auction of
   AuctionLedger: one lot at a time enters a free stage, every recorded bid
   raises the price then current by the increment, a lot is sold once at a
   price that was offered, and nothing but the deletion of a bidder or a lot
   lowers a price or takes an offer back. *)
KeepsAuction == Auction!Spec

-----------------------------------------------------------------------------
(* What the documents say and the code does not keep *)

(* docs/superpowers/specs/2026-09-02-rf06-rf10-realtime-sales-design.md:147:
   the sale uses the buyer and the amount of the WINNING bid. *)
SaleAtWinningBid == \A s \in sales : \E w \in WinningBids(s.lot) : SaleOf(w) = s

(* Same document, lines 112 and 150: a bid is accepted only while its lot is
   IN_AUCTION, and a sale of a lot off the stage does not change the database. *)
OnlyOnStage == [][
  /\ \A b \in bids' : (\A c \in bids : c.id # b.id) => lotStatus[b.lot] = "IN_AUCTION"
  /\ \A s \in sales' \ sales : lotStatus[s.lot] = "IN_AUCTION"]_vars

(* Same document, line 210: serialization conflicts are repeated up to the
   attempt limit before the caller gets an error. *)
ConflictsAreRetried == \A r \in Requests : pc[r] = "failed" => attempt[r] = MaxAttempts

(* Same document, line 42: bids stay in the database for auditing. *)
BidsAreKept == [][\A b \in bids : \E c \in bids' : c.id = b.id]_vars
=============================================================================
