# Verification of the auction backend

TLA+ modules, TLC configurations and TLAPS proofs for the backend of a live
livestock auction: a NestJS server (`src/src`) over one PostgreSQL database
(`src/prisma/schema.prisma`), with socket gateways, and a Python gesture server
(`src/gesture-server`).

## 1. The system

| Part | State | Operations | Hard behaviour |
|---|---|---|---|
| Bid pricing (`lots/bid-pricing.ts`) | none | minimum of the next bid | boundaries: null versus zero prices |
| Bids (`lots/bids.service.ts`) | `bid` rows | `place`, `persist` | serializable transactions, retries, online and on-site bids on one lot |
| Lots (`lots/lots.service.ts`) | `lot` rows | create, update, `setStage`, remove | one lot on stage per auction under concurrent stage changes |
| Sales (`sales/sales.service.ts`) | `sale` rows, lot status | `create` | READ COMMITTED reads followed by writes |
| Users (`users/users.service.ts`) | `user`, `buyerProfile` rows | `remove`, profile | cascades to bids and registrations |
| Auctions and registrations (`auctions/auctions.service.ts`, `auction-houses/auction-houses.service.ts`) | `auction`, `buyerRegistration` rows, thumbnail files | create, update, remove, upload, register, review | read, then write by id; file, then row |
| Operator access (`operator/*`) | one-time codes, failures per address | create, reissue, revoke, login | compare and set on the code; limiter checked before it is charged |
| Commerce gateway (`commerce/*`) | socket rooms | join, emit | membership checked only on joining, and awaits before it is taken |
| Streams (`streams/*`) | `stream` rows, broadcaster slots, socket roles | start, stop, join, disconnect | awaits between check and write, in-memory slot and row disagree |
| Gesture relay (`gesture/*`) | events seen, last relay of each auction | `relay` | a bounded table pruned with times that are old |
| Gesture server (`gesture-server/app`) | one station, one engine | claim, infer, release | several clients, one of them leaving; disconnection noticed late |
| Office invites (`auction-houses`, `admin`) | invite and office rows | create, list, revoke, find, register | a long transaction; check, then unconditional update |
| Authentication (`auth/*`) | none of its own | sign, verify | - |
| Live relay page (`live/*`), pose inference (`gesture-server/app`), `gesture-poc`, field normalisation, generated client, scripts, pages | none that outlives a call | - | not state machines; left out |

HTTP handlers are asynchronous functions of one event loop: every `await` of a
query lets other handlers run, and other server processes may share the
database. Services talk to each other only through the database; after a commit
the commerce gateway emits an event to the sockets of a room, and nothing reads
such an event back into the server. Five pieces of state live in the memory of a
process and are lost with it: the login limiter, the stream broadcasters, the
rooms of the sockets, the tables of the gesture policy, and the pose station.

What makes each part correct:

- **Bids, lots, sales, users** (one component, the auction floor): at most one
  winning bid per lot and above everything it outbid; one lot on stage per
  auction; SOLD exactly with one sale; a sale at a price somebody bid; a sold
  lot never returns; nothing announced that was not committed; every call ends.
- **Operator access**: a one-time code buys one session; a replaced code buys
  none; a revoked access is never claimed; no refused login burns a code;
  a blocked address stays blocked.
- **Streams**: a broadcaster that holds a slot keeps it until it goes; and, but for
  handlers that had read the rows before an auction was handed over or deleted or its
  stream stopped, only a socket of the auction's office comes into its slot, only that
  office writes the stream, and an ended stream stays ended.
- **Commerce gateway**: a socket is only in rooms its token has earned, and
  enters none once its access has ended.
- **Gesture relay**: snapshots reach operators of their auction only; relays of
  one auction, and repeats of one event, are so far apart.
- **Gesture server**: the station has one holder, nobody else releases it, and a
  holder that went away always does.
- **Invites**: an invite opens one office or none; a failed registration burns
  none; whoever waits for a row is answered.
- **Auctions and registrations**: an auction names a thumbnail that exists; a
  buyer becomes approved only with an IE; a decision falls only to another one or
  to a registration that had read the row before it.

Where each of these could go wrong is the list `hazards` of `PROJECT.json`,
with the line of the code and the properties that cover it.

## 2. The modules

| Module | Models |
|---|---|
| `BidPricing` | `lots/bid-pricing.ts`: the minimum of the next bid, null prices included |
| `AuctionLedger` | what bidders and sellers are promised: a lot enters a free stage, its price rises, it is sold once |
| `AuctionFloor` | bids, stage changes, sales, removal of lots, users and auctions on one database; implements `AuctionLedger` |
| `AccessLedger` | what an operator access promises: none, pending, active, revoked |
| `OperatorAccess` | `OperatorService` and the login limiter, query by query; implements `AccessLedger` |
| `StreamBroadcast` | `StreamsService`, `StreamsController`, `StreamsGateway` |
| `CommerceRooms` | the joins and rooms of `CommerceGateway` |
| `GestureRelay` | `GestureEventsService` and `GestureEventPolicy`, composed with `CommerceRooms` |
| `PoseStation` | the websocket session of the gesture server and its station lease |
| `InviteLedger` | what an office invite promises: none, open, spent, void |
| `OfficeInvite` | `AdminService` and the invites of `AuctionHousesService`, query by query; implements `InviteLedger` |
| `AuctionDesk` | auctions, thumbnails, registrations, reviews and buyer profiles |
| `MCAuctionFloor`, `MCOperatorAccess`, `MCStreamBroadcast`, `MCGestureRelay`, `MCPoseStation`, `MCOfficeInvite`, `MCAuctionDesk` | the small instances TLC checks |
| `AuctionFloorProofs`, `AuctionFloorRecordProofs`, `OperatorAccessProofs`, `StreamBroadcastProofs`, `GestureRelayProofs` (with those of `CommerceRooms`), `PoseStationProofs`, `OfficeInviteProofs`, `AuctionDeskProofs` | theorems and their proofs |

All components but `PoseStation` have the same shape. `Requests` are calls that arrive
concurrently, each handled once; `call[r]` is what request `r` asks and `pc[r]`
where its handler is: between two awaits. One action is what the handler does
between two awaits, so everything it has read may be stale when it writes.
`Handle(r)` is the whole handler of `r`. `Lose(r)` is a failed query, a timed
out transaction or a process that dies under one request; `Restart` is the whole
process. `map` in `PROJECT.json` names the lines each definition stands for.

### AuctionFloor and AuctionLedger

State: the columns that matter of `lot`, `bid`, `sale`, `user`, the operator
accesses that are open and the auctions that are closed. An HTTP call is in
phase `ready`, then

- a **bid** or a **stage change**: `open` inside its serializable transaction,
  then `committed`. `BeginBid` takes every read and every guard of
  `BidsService.persist`, `CommitBid` its writes. `seen[r]` is the winner the bid
  was priced against.
- a **sale**: `lotRead` after its first query, `offer` after it has read the
  winning bid (kept in `seen`), `committed` after the writes, which fail together
  when the unique lot or a foreign key refuses the row.
- a **removal** of a lot, a user or an auction: `checked` between the check and the
  delete. Deleting an auction (`DeleteAuction`) takes its operator accesses with it
  and leaves its lots without one (`Orphan`): whatever status they have, no handler
  but the removal of the lot reaches them again.

`Emit` is the event after the commit, a step of its own: a process can die
before it.

Serializable transactions are modelled by what the database promises, not by how
it does it: a commit dooms every other open transaction that has read what it
wrote (`Clash`), and any further ones (predicate locks are coarse). A doomed
transaction is refused at the end and its handler retries it from the start, up
to `MaxAttempts`, if it recognises the error. `BidsService` recognises every form
of the error, `LotsService` only one, so a refused stage change may either be
retried or fail. The sale and the removals are not serializable, so they neither
doom nor are doomed.

`AuctionLedger` is the same auction without handlers: `place`, `offers`, `top` and
`paid` of each lot, changed by `Enter`, `Leave`, `Raise`, `Sell`, `StrikeOut` (a bidder is
deleted) and `Remove`. `KeepsAuction` maps the tables to it. The two places where the
code is weaker than one would write it down are in the ledger's guards: a bid may
still raise a lot just sold, and a sale may still close a lot that has just left
the stage.

Prices are numbers, statuses and rows are as in the schema. Left out of the
model: the content and order of the events, who may read what, and edits of the
prices, increment and consignment of a lot and of the office of an auction while it
runs (`InitialPrice`, `MinBidIncrement`, `SellerOf` and `HouseOf` are constants, and so is
`AuctionOf`: no handler moves a lot to another auction;
the same holds of `HouseOf` in `OperatorAccess`; `StreamBroadcast`, `CommerceRooms` and
`AuctionDesk` let an auction change hands and be deleted).

### OperatorAccess and AccessLedger

State: for each access row its code, used, revoked and expiry; the tokens
signed; the failures per address. Phases of a login: `ready`, `admitted` by the
limiter, `read` (the row is found), `claimed` (the `updateMany` hit), then `done`
with a token; or `refused`, which is before `recordFailure`, and `rejected`. The
office's calls are `admitted`, `read`, `done`. Time is in ticks, `Second` of them
to a second, because tokens are in whole seconds and rows are not; `stamp` is the
`now` a handler took when it began. Codes are 48 random bits in the code, under a
unique column, and fresh in the model. The end of signing the token, clearing the
limiter and the answer are one step, as no await separates them. Deleting an auction, which deletes
its accesses, is left out.

`AccessLedger` is the same thing as an office understands it: one phase per
access, one atomic operation each. `OperatorAccess` implements it under the
refinement mapping `ledgerPhase`, computed from the rows.

### StreamBroadcast

State: the rows of auction and stream, with the office of each auction (`houseOf`,
`None` once it is deleted); `broadcaster`, the gateway's map from
auction to socket; for each socket its line and its `client.data` (`role`,
`about`). A start or a stop is `writing` once it has read what it
needs and may write; a join goes through `authenticated` and `admitted`, and then takes the
slot; a disconnect frees the slot at once and interrupts the stream in `looking`
and `writing`; `ended` takes the same two and clears the slot last (`clearing`). The office of
a socket is the actor of its token. `AuctionsService.update` and `remove` are here for
what the streams read: the status of the auction, its office, and the stream row a
deletion takes with it. They too read first (`ReadForChange`) and write by id
(`WriteUpdate`, `WriteRemove`), so an auction may have been handed over or deleted
between the two, and the same for every write of a stream. A write to an auction that
is gone fails (`Lose`). The gateway's map is not told of a transfer or a deletion. Offers, answers and candidates are relayed
without any state and left out. `Init` is a process that has just started over
any rows.

### CommerceRooms and GestureRelay

State: the token of each socket, fixed by its handshake; its connection; the
pairs of socket and room; and the facts the joins ask the database for: which
operator accesses are good (`granted`), which auctions closed, the office of each
auction, the users. A join is `received`, `authenticated`, `admitted` (the owner of
the auction is read, and kept in `owner`), then the socket enters its rooms in one
step, connected or not: a socket that has gone keeps a membership nobody delivers
to. `owned` only remembers which offices an auction has had. Revocation and expiry
of an access are one action, because the gateway tells neither apart.

`GestureRelay` adds the uploads: `arrived` with the `stamp` the handler took at its
start, `answered` by the query, and then in one turn of the event loop all the rest
(`Emit`). Its two maps hold what relays left, so both are sets of relays; `nth` is the
insertion order, `heard` who was in the room and connected. `MaxTime` bounds the
clock. Picture, box and format are checked by the code on the upload alone; an
upload that fails there has no effect and is not enumerated.

### PoseStation

One action is what the coroutine of a client does between two awaits. `active` is
the lease, `claimed` the local flag that guards the `finally`. `greeting` waits for
the hello or its timer, `greeted` is about to claim, `claimed` sends ready,
`serving` receives, `inferring` is in its thread, `replying` sends, `leaving`
closes and releases. A drop changes only `wire`; the coroutine finds out at a
send, or at a receive once what was sent before is read. A client may come back
under the same name for ever. The lock of `StationManager` spans no await, so claim
and release are steps of their own without it.

### OfficeInvite and InviteLedger

State: the rows of invites and offices, and `lock`, the transaction that has
updated an invite's row. A registration is `read`, `valid`, `begun` (the time it
puts into its query is taken), `claimed`, `inserted`, and only `Commit` shows both
writes to others; meanwhile every other writer of the row, and every insert of the
same e-mail or CNPJ, waits. Without that the hashing of the password between the
two writes would be an open door. Reading an expired invite, and revoking one,
write by id alone. An office never goes, so neither does the identity it took.

The refinement mapping reads the phase of an invite off its office first, then off
its row: an invite is spent by its office, also when its row says EXPIRED later.

### AuctionDesk

State: the office and thumbnail of each auction, the files on disk, the
registration of each buyer with each office, who has an IE and who an account.
`read` is what a handler took from the database at its start: the file to delete
when a new one is in place, the office of the auction, the status of the
registration. An upload is `owned`, `written`, `updated`; if the update fails it is
`cleaning`, and `unheard` if the update was committed and only its answer lost. Both
registration routes (`AuctionsService`, `AuctionHousesService`) share their steps, as
do both review routes. The upsert of a registration is atomic; one that meets the
unique key is a `Lose`. The counts of sales and consignments before a user is
deleted are in `AuctionFloor` and left out here.

## 3. The runs

| Run | Instance | Distinct states | Shows |
|---|---|---|---|
| `floor_bids` | 4 bids of 5, 10, 15, online and on site, on one lot; registration, access and auction change meanwhile | 361 thousand | one winner, above everything it outbid; a bid fails only after three recorded rivals |
| `floor_trades` | 3 requests out of 11 calls on two lots of one auction, one priced and one not | 640 thousand | the floor's invariant, its promises, that SOLD is final, and that the handlers implement `AuctionLedger` |
| `floor_ends` | 2 requests, every kind of call, three users, fair handlers | 66 thousand | every call ends; no on-site bid after its access was closed; a lot that lost its auction takes nothing new |
| `access_codes` | 3 requests out of logins, a creation, a reissue and a revocation, two accesses, three codes | 1.3 million | the codes' promises, and that they implement `AccessLedger` |
| `stream_slot` | 3 handlers out of 14 calls, three sockets of two offices, two auctions, one of which may be handed over or deleted | 2.0 million | what an office without the auction may still do settles; slots change hands properly; ended streams settle |
| `commerce_rooms` | one socket that may be an operator, a buyer or either office; one join at a time of two auctions; one upload | 631 thousand | rooms are earned, an ended access enters nowhere, snapshots stay inside |
| `gesture_relay` | 3 uploads of two events for two auctions, a table of one event, four instants, restarts | 926 thousand | how close two relays of one auction, and of one event, can be |
| `pose_station` | 3 clients, for ever | 3.6 thousand | the lease is exclusive and is given back; hellos end |
| `office_invites` | 3 requests out of 7 calls on two invites, two identities | 300 thousand | the handlers implement `InviteLedger`; no invite is burnt; every call ends |
| `auction_desk` | 3 requests out of 11 calls on one auction of two offices and one buyer, from any registration | 849 thousand | no dead thumbnail, no approval without an IE, decisions stand |

Why the bounds are enough. *Requests*: every hazard of the floor is between two
handlers, with a third to set it up (a bid, its sale, a stage change); a bid
that gives up needs four, itself and a rival per attempt. *Lots*: two, so that a
lot can enter the stage another has left. *Prices*: each step of the ladder is
exactly one minimum increment or more above the one before, from a reserve of 5,
and a lot with no price opens at 0. *Codes*: one on each row and one to replace
it. *Clock*: `MaxTime`, `Window` and `Lifetime` are one tick in `access_codes`, so
that a handler may begin before expiry and write after it; the same in
`office_invites`. *Gesture windows*: `RateWindow` 1 and `IdTtl` 2, with `CaptureSkew`
half of `IdTtl` as in the code (30 and 60 seconds), and `IdLimit` 1 where it has 512,
so that one other event fills the table; three uploads are one, its repeat and the
one that pushes it out, or the one that prunes between them. *One join at a time*
in `commerce_rooms` suffices because a join reads no room and writes only its
socket's: what can make its answers old is the rest of the system, which is all
there. *Three clients*: one in the station, one leaving or refused, one to profit.
`FailureLimit` is 2 where the code has 5: three logins can then pass the limiter
together and go over it. *Sockets*: two of one office race for one slot; the
third, of a rival, may have it only after a transfer; one of them may serve two
auctions. The statuses an auction of `stream_slot` starts with are one that allows a
stream and one that does not, all that `assertAuctionCanStartStream` tells apart.
Symmetry is used only on `Requests`, which no property tells apart, and only
where no liveness is checked.

`CHECK_DEADLOCK FALSE`: every request ends, and when all have, nothing is left
that has to happen. `pose_station` never stops, and checks deadlock.

Fairness. `floor_ends`: weak fairness of `Handle(r)` for each request;
`office_invites`: of `Proceed(r)`, the steps of a handler that has begun, which
include those that wait for a row or a key. The event loop runs every callback that
is due, and the database answers or refuses every query and grants a lock that is
free, so a handler that can go on does. `pose_station`: of `Coroutine(c)`: the hello
has a timer, the inference thread returns or raises, and a send returns or raises.
Nothing is assumed of what clients, offices, bidders or the clock may do, nor that
a lost process recovers.

## 4. Where the code and its documents disagree

Two of these have a run that ends in a counterexample; `findings` quotes the lines.

- `floor_off_stage` (`OnlyOnStage`): the sale is READ COMMITTED, so a lot that left
  the stage after the status check is sold, and a bid whose snapshot showed
  IN_AUCTION commits on a lot already sold.
- `room_revoked` (`RevokedHearsNothing`): an operator socket that is in its room
  stays there after its access is revoked or expires, and hears every gesture; the
  design has each request and each join ask again, so that a revocation ends an
  open session. What does hold is `EntryOnceSettled`: it enters no room again.

The others are stated in the module of their component, each with the document it
comes from, and fail the same way: put the name into the configuration in
parentheses instead of its properties (`SaleAtWinningBid`, `ConflictsAreRetried` and
`TokenEndsWithAccess` as INVARIANT, the others as PROPERTY), and TLC answers with a
counterexample.

- `SaleAtWinningBid` (`FloorTrades.cfg`): a bid that commits between the sale's read
  of the winner and its insert is WINNING on a lot sold to somebody else.
- `ConflictsAreRetried` (`FloorTrades.cfg`): `LotsService` does not recognise all the
  forms of a serialization conflict that `BidsService` does, and fails at the first.
- `BidsAreKept` (`FloorTrades.cfg`): deleting a user deletes the user's bids, the
  winning one included, that are to stay for auditing.
- `TokenEndsWithAccess` (`AccessCodes.cfg` with `Second` 2, `Lifetime` 3, `Window` 2,
  `MaxTime` 3): a token has at least a whole second to live, though its access may
  have less.
- `GoneBlockNobody` (`StreamSlot.cfg`): a socket that disconnects while its join
  awaits the database still takes the slot, and nothing frees it until the process
  restarts.
- `EndedIsFinal` (`StreamSlot.cfg`): a start, or an interruption, that read the stream
  before it was ended writes LIVE or ERROR over ENDED.

Smaller ones the modules show without a property of their own:

- The broadcaster of the previous office stays in the slot of a transferred or
  deleted auction. It keeps the new office out, its end of the broadcast frees the
  slot without ending the stream, and its disconnect does not interrupt the stream
  (`SlotChangesHands` and `OfficesSettle` allow all three).
- The previous office of a transferred auction stays in the office room and goes on
  hearing full bids (`RoomsAreEarned` says "has owned", not "owns").
- `AdminService.revokeOfficeInvite` says only pending invites can be revoked
  (`admin.service.ts:62`); one that was pending when read is written EXPIRED over
  USED, though its office exists (`UsedIsBacked` allows both).
- The gesture design allows one event per auction in a window of five seconds.
  Stamps are that far apart only from the time the earlier handler *took* to the
  time the later is *emitted* (`RelaysSpaced`); a repeat whose capture time is the
  same passes at the one instant where both are still in time (`RepeatsSpaced`), and
  a snapshot may be emitted just after its auction was closed.
- An upload whose update was committed but whose answer was lost removes the file
  the auction now names (`ThumbnailExists` names this one exception).

The safety properties of the passing runs say what is true in spite of these: a
sale is always at a price that *was* bid (`SaleIsRecordedBid`), SOLD is final, and
an ended stream stays ended once what was under way has settled
(`EndedOnceSettled`).

## 5. What is proved

Every safety property of the passing runs, invariant or action property, and the
three refinements, for any number of requests, lots, codes, sockets, invites, clients
and so on. The assumptions are those on the constants in each module
(`FloorAssumption`, `CallAssumption`, `AccessAssumption`, ... ): the constants
have their types, the values that stand for "none" are none of the others, and calls
are of the kinds the module knows. Two theorems assume more, and say so
in their statement: `WinnerBeatsHistory` that no user is deleted (deleting the
winner leaves none), `FailedBidsAreOutrun` that all calls are bids (a stage change can
refuse a bid as well). Sets need not be finite, except where something is counted,
and there finiteness is part of the invariant and not an assumption.

In every component the promise alone is not inductive: a handler writes on the
strength of what it has read, so the invariant has to say what is known of each
handler between two awaits. Each proof then has one step per action, and under it
one per conjunct that the action can disturb; a lemma collects the actions that
disturb nothing.

**AuctionFloor** (`AuctionFloorProofs`). `TypeCorrect`; `FloorIsConsistent`,
`FloorPromises` (one winning bid, one lot on stage, SOLD exactly with one sale, every
sale a recorded bid); `SoldNeverReturns`; `WinnerBeatsHistory`. `FloorInvariant`
adds to the promises `SnapshotHolds`, what every serializable transaction that is
not doomed has read is still so, and `OfferStands`, for a sale between its read and
its insert, where the database protects it less: the bid it will copy is still there,
or the insert will hit a foreign key. `WinnerBeatsHistory` rests on `SnapshotHolds`
for the new bid and on transitivity for the old ones.

**What the floor records** (`AuctionFloorRecordProofs`). `RecordInvariant` ties the
rows to the requests that made them: a bid on record has committed and is what its
request asked for, the offer a sale has read is for its lot, a stage change of a
lot without an auction is doomed, and a bid that may still commit is on a lot that was on
the stage and reaches the reserve (`BidsAreUp`). From it:

- `EventsBacked`.
- `RevocationShutsOut` and `OrphansOutOfReach`: the two "from then on, never" properties
  are reduced to a fact about one request that no step ends (`ShutOut`,
  `OutOfReach`): a retry begins again at `ready` and meets its guard again.
- `ImplementsAuction`: each step of the handlers is one operation of `AuctionLedger`
  or invisible in it. `TableSteps` lists the five actions that write rows; what a lot shows
  is determined by its rows (`RowsAreShown`); then `SnapshotHolds` and `BidsAreUp` give
  `Raise` its guard, `SnapshotHolds` gives `Enter` its free stage, `OfferStands` gives
  `Sell` its price, and `StrikeOut` never takes what a buyer paid because the
  deletion of a user is refused by the sales.
- `PricesOnlyRise`, read off the ledger's operations: a shown price rises by the increment
  or goes with its bidder or lot, and what was paid stays until the lot is removed.
- `FailedBidsAreOutrun`: `OutrunIsRecorded` counts, for each request, its refused
  attempts and the refusal still to come against the bids of others on record. The
  count keeps up because a commit dooms an open transaction at most once and adds
  a bid that was not there.

**OperatorAccess** (`OperatorAccessProofs`). `TypeCorrect`; `CodesAreConsistent`,
`OneTimeCodes`, `NothingIsBurnt`, `RevocationWins`, `LimitHolds`, `ImplementsLedger`.
`CodesInvariant` adds to the four promises that codes never come back
(`CodesAreFresh`) and that a claimed row is held by one login with the code it
presented still on it (`ClaimsAreExclusive`): this is where the conditions repeated
in each `updateMany` are used. `LimitHolds` needs the types only: a failure is
charged to a window that is running or starts one, and a window that is running is
never shortened. The refinement is proved step by step: each `updateMany` that hits
is one operation of the ledger, and every other step stutters; it needs in addition
that what a handler has read exists (`RowsExist`, in the proof module).

**StreamBroadcast** (`StreamBroadcastProofs`). `TypeCorrect`, `TransfersSettle`,
`SlotsChangeHands`, `EndsSettle`. No invariant can say that a slot is held by the
auction's office, as a transfer leaves the old holder in it; `TransfersSettle` says
what is true instead, of every step: an office that does not own the auction decides no
write of it or of its stream (`OwnersWrite`), and nobody is admitted to its slot without
owning it while its stream is LIVE (`OnlyChecksAdmit`), and a handler that has
decided stays about its auction until it acts (`DecidedStay`). `SlotsChangeHands` needs besides the types that whoever holds a slot has
connected (`SlotsAreConnected`, in the proof module), for a restart to close it.

**CommerceRooms and GestureRelay** (`GestureRelayProofs`). `RoomsAreKept`,
`EndedAccessesStayOut`, and the same for the rooms on their own
(`RoomsAloneAreKept`, `EndedAccessesStayOutAlone`). `HousesAreOwned` is added: the office an
auction has now is one it has had, which is what a join reads. For the relay,
`PolicyHolds`, `AuctionsAreSpaced` and `EventsAreSpaced`. `PolicyInvariant` says what a table
that forgets may forget: `LatestHolds` (only a relay that is a window old, by the
clock and therefore by every stamp, `StampsArePast`) and `SeenHolds` (only one that is
as old as an event gets, or one with as many later relays as the table holds).
`NumbersFit` makes insertion order and cardinality speak of the same thing.

**PoseStation** (`PoseStationProofs`). `LeaseAlwaysHeld`; `LeaseIsHeld` is inductive as
it stands: it says where a coroutine is while it holds the lease.

**OfficeInvite** (`OfficeInviteProofs`). `InvitesInOrder`, `InvitesBacked`,
`ImplementsInvites`. `UsedIsBacked` holds the rows to the transactions under way: the one
between its claim and its end holds the lock on a row that others still see PENDING, and
two that have inserted have no key in common. `HandlersFit` adds that the row a handler
goes on with exists. The refinement goes by the phase of an invite: only `Create`
issues, only `Commit` spends, whatever writes EXPIRED voids what is not spent.

**AuctionDesk** (`AuctionDeskProofs`). `DeskInOrder`, `ThumbnailsExist`, `ApprovalsNeedIe`,
`DecisionsStand`. `FilesInOrder`: a file waits on disk for the update that names it, an
auction names a file of an upload of its own, and the file a handler has read the
name of was named before and is named by no other auction, so the one it removes is
named by none (`OldIsOver`). `ReviewsAskedForIe`: an approval that was allowed found an
IE, and the IE goes only with the account, whose registrations go with it.

**Only model-checked**: liveness under fairness, which this prover does not reach
(`EveryCallEnds`, `StationIsFreed`, `EveryHelloEnds`, `EveryInviteCallEnds`), and the
counterexamples of section 4.

## 6. What is not modelled, and the plan

Not modelled for good: authentication (signs and verifies, no state), the
operator guard (the same reads as the first lines of an on-site bid, no state),
the live relay page, pose inference (numerical code) and the byte format of its
frames, the stand-alone camera experiments of `gesture-poc`, field normalisation
(string validation), generated code, scripts and pages. Of the gateways, the
wording, content and order of emitted events. Of users, the edits of fields nothing
here reads.

Next, in this order:

1. **What the ledgers imply.** As `PricesOnlyRise` does for `AuctionLedger`, theorems
   about `AccessLedger` and `InviteLedger` (a revoked access and a spent invite are
   final) that the handlers inherit by their refinements.
2. **Edits of a lot**: its initial price, consignment and images while bids are under
   way. A bid is held to the price its transaction read, so `InitialPrice` would
   become a variable and `Raise` would have to remember the prices still in force.
