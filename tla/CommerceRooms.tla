--------------------------- MODULE CommerceRooms ---------------------------
(***************************************************************************)
(* The socket.io rooms of CommerceGateway.  A socket carries one token for *)
(* all its life.  A join message is handled in three steps: the actor is   *)
(* looked up, the auction is looked up, and the socket enters the rooms    *)
(* the two answers give it; the database, the other handlers and the       *)
(* connection move in between.                                             *)
(*                                                                         *)
(* Rooms are records [name, of]: prices, buyers, office and operators of   *)
(* an auction, and the private room of an actor.                           *)
(***************************************************************************)
EXTENDS FiniteSets, Integers

CONSTANTS
  Sockets, Tokens,            \* connections, and what they may authenticate with
  Auctions, Offices, NoOffice,
  Accesses, AuctionOf,        \* AuctionOf[x]: the auction of operator access x
  Users,
  Requests, Calls             \* join messages

UserToken     == [kind : {"USER"}, id : Users]
OfficeToken   == [kind : {"AUCTION_HOUSE"}, id : Offices]
OperatorToken == [kind : {"OPERATOR"}, id : Accesses]

JoinCall   == [kind : {"auction"}, socket : Sockets, auction : Auctions]
NotifyCall == [kind : {"notifications"}, socket : Sockets]

ASSUME RoomsAssumption ==
  /\ Tokens \subseteq UserToken \cup OfficeToken \cup OperatorToken
  /\ AuctionOf \in [Accesses -> Auctions]
  /\ NoOffice \notin Offices
  /\ Calls \subseteq JoinCall \cup NotifyCall

VARIABLES
  token,     \* the token of each socket, fixed by its handshake
  line,      \* the connection of each socket: "new", "open" or "closed"
  rooms,     \* pairs of a socket and a room it is in
  granted,   \* operator accesses used, not revoked and not expired
  closed,    \* auctions FINISHED or CANCELED
  houseOf,   \* the office of each auction, NoOffice once it is deleted
  owned,     \* pairs of an auction and an office that has owned it
  users,     \* user accounts that exist
  call, pc,  \* the join each request carries, and where its handler is
  owner      \* the office a handler found on its auction

tables == <<granted, closed, houseOf, owned, users>>
handlers == <<call, pc, owner>>
wires == <<token, line>>
roomVars == <<wires, rooms, tables, handlers>>

Underway == {"received", "authenticated", "admitted"}
JoinPhase == {"ready", "done", "rejected"} \cup Underway

RoomName == {"prices", "buyers", "office", "operators", "user"}
Room == [name : RoomName, of : Auctions \cup Users \cup Offices \cup Accesses]

RoomsTypeOK ==
  /\ token \in [Sockets -> Tokens]
  /\ line \in [Sockets -> {"new", "open", "closed"}]
  /\ rooms \subseteq Sockets \X Room
  /\ granted \subseteq Accesses
  /\ closed \subseteq Auctions
  /\ houseOf \in [Auctions -> Offices \cup {NoOffice}]
  /\ owned \subseteq Auctions \X Offices
  /\ users \subseteq Users
  /\ call \in [Requests -> Calls]
  /\ pc \in [Requests -> JoinPhase]
  /\ owner \in [Requests -> Offices \cup {NoOffice}]

-----------------------------------------------------------------------------
RoomOf(name, id) == [name |-> name, of |-> id]

TokenOf(r) == token[call[r].socket]

\* Mutant: the signature of the token is taken for its word.
SignedFor(t) == t.kind = "USER" => t.id \in users

\* authenticateSocket: the actor is still there, an operator's access still good.
Authentic(t) ==
  CASE t.kind = "USER" -> t.id \in users
    [] t.kind = "AUCTION_HOUSE" -> TRUE
    [] t.kind = "OPERATOR" -> /\ t.id \in granted
                                  /\ AuctionOf[t.id] \notin closed

\* Mutant: any operator is an operator of this auction.
MayEnterAny(t, auction) == TRUE

MayEnter(t, auction) == t.kind = "OPERATOR" => AuctionOf[t.id] = auction

\* The rooms an auction:join leads to, given the owner the handler has read.
OwnRooms(t, auction, office) ==
  {RoomOf(name, auction) : name \in
     {n \in {"buyers", "operators", "office"} :
        \/ n = "buyers" /\ t.kind = "USER"
        \/ n = "operators" /\ t.kind = "OPERATOR"
        \/ n = "office" /\ t.kind = "AUCTION_HOUSE" /\ t.id = office}}

EnterRooms(s, entered) == rooms' = rooms \cup ({s} \X entered)

Goto(r, phase) == pc' = [pc EXCEPT ![r] = phase]

Answer(r, phase) ==
  /\ Goto(r, phase)
  /\ UNCHANGED <<wires, rooms, tables, call, owner>>

\* The handler ends, and what it had read with it.
Finish(r, phase) ==
  /\ Goto(r, phase)
  /\ owner' = [owner EXCEPT ![r] = NoOffice]

-----------------------------------------------------------------------------
\* A message arrives on an open socket.
Receive(r) ==
  /\ pc[r] = "ready"
  /\ line[call[r].socket] = "open"
  /\ Answer(r, "received")

Authenticate(r) ==
  /\ pc[r] = "received"
  /\ Answer(r, IF Authentic(TokenOf(r)) THEN "authenticated" ELSE "rejected")

FindAuction(r) ==
  /\ pc[r] = "authenticated"
  /\ call[r].kind = "auction"
  /\ LET office == houseOf[call[r].auction]
         welcome == office # NoOffice /\ MayEnter(TokenOf(r), call[r].auction)
     IN  IF welcome
         THEN Goto(r, "admitted") /\ owner' = [owner EXCEPT ![r] = office]
         ELSE Finish(r, "rejected")
  /\ UNCHANGED <<wires, rooms, tables, call>>

(* The two joins follow each other with no query between.  A socket that has
   disconnected meanwhile is put into the rooms all the same and hears nothing. *)
JoinAuction(r) ==
  /\ pc[r] = "admitted"
  /\ LET auction == call[r].auction
     IN  EnterRooms(call[r].socket,
           {RoomOf("prices", auction)} \cup OwnRooms(TokenOf(r), auction, owner[r]))
  /\ Finish(r, "done")
  /\ UNCHANGED <<wires, tables, call>>

\* The private room is named after the actor's id, whatever its kind.
JoinNotifications(r) ==
  /\ pc[r] = "authenticated"
  /\ call[r].kind = "notifications"
  /\ EnterRooms(call[r].socket, {RoomOf("user", TokenOf(r).id)})
  /\ Finish(r, "done")
  /\ UNCHANGED <<wires, tables, call>>

\* A query fails, or the token has expired when it is verified.
FailJoin(r) ==
  /\ pc[r] \in {"received", "authenticated"}
  /\ Answer(r, "rejected")

Join(r) == \/ Receive(r) \/ Authenticate(r) \/ FindAuction(r)
           \/ JoinAuction(r) \/ JoinNotifications(r) \/ FailJoin(r)

-----------------------------------------------------------------------------
(* What the rest of the system does meanwhile *)

Connect(s) ==
  /\ line[s] = "new"
  /\ line' = [line EXCEPT ![s] = "open"]
  /\ UNCHANGED <<token, rooms, tables, handlers>>

Disconnect(s) ==
  /\ line[s] = "open"
  /\ line' = [line EXCEPT ![s] = "closed"]
  /\ rooms' = {m \in rooms : m[1] # s}
  /\ UNCHANGED <<token, tables, handlers>>

\* An access is revoked or its time is up.
EndAccess(x) ==
  /\ x \in granted
  /\ granted' = granted \ {x}
  /\ UNCHANGED <<wires, rooms, closed, houseOf, owned, users, handlers>>

\* The office closes its auction, or opens it again: update takes any status.
SetStatus(a) ==
  /\ houseOf[a] # NoOffice
  /\ closed' \in {closed \cup {a}, closed \ {a}}
  /\ UNCHANGED <<wires, rooms, granted, houseOf, owned, users, handlers>>

\* update takes another auctionHouseId too.
Transfer(a, office) ==
  /\ houseOf[a] # NoOffice
  /\ houseOf' = [houseOf EXCEPT ![a] = office]
  /\ owned' = owned \cup {<<a, office>>}
  /\ UNCHANGED <<wires, rooms, granted, closed, users, handlers>>

\* The accesses of a deleted auction go with it.
RemoveAuction(a) ==
  /\ houseOf[a] # NoOffice
  /\ houseOf' = [houseOf EXCEPT ![a] = NoOffice]
  /\ granted' = {x \in granted : AuctionOf[x] # a}
  /\ UNCHANGED <<wires, rooms, closed, owned, users, handlers>>

RemoveUser(u) ==
  /\ u \in users
  /\ users' = users \ {u}
  /\ UNCHANGED <<wires, rooms, granted, closed, houseOf, owned, handlers>>

\* Sockets, rooms and running handlers go with the process.
RestartRooms ==
  /\ line' = [s \in Sockets |-> IF line[s] = "open" THEN "closed" ELSE line[s]]
  /\ rooms' = {}
  /\ pc' = [r \in Requests |-> IF pc[r] \in Underway THEN "rejected" ELSE pc[r]]
  /\ owner' = [r \in Requests |-> NoOffice]
  /\ UNCHANGED <<token, tables, call>>

RoomsInit ==
  /\ token \in [Sockets -> Tokens]
  /\ line = [s \in Sockets |-> "new"]
  /\ rooms = {}
  /\ granted = Accesses
  /\ closed = {}
  /\ houseOf \in [Auctions -> Offices]
  /\ owned = {<<a, houseOf[a]>> : a \in Auctions}
  /\ users = Users
  /\ call \in [Requests -> Calls]
  /\ pc = [r \in Requests |-> "ready"]
  /\ owner = [r \in Requests |-> NoOffice]

RoomsStep ==
  \/ \E r \in Requests : Join(r)
  \/ \E s \in Sockets : Connect(s) \/ Disconnect(s)
  \/ \E x \in Accesses : EndAccess(x)
  \/ \E a \in Auctions : SetStatus(a) \/ RemoveAuction(a)
  \/ \E a \in Auctions, office \in Offices : Transfer(a, office)
  \/ \E u \in Users : RemoveUser(u)

RoomsSpec == RoomsInit /\ [][RoomsStep \/ RestartRooms]_roomVars

-----------------------------------------------------------------------------
(* Safety *)

In(s, name, id) == <<s, RoomOf(name, id)>> \in rooms

\* What the token of a socket in a room, and its office if any, must be.
Earned(s, room) ==
  CASE room.name = "prices" -> room.of \in Auctions
    [] room.name = "buyers" -> token[s].kind = "USER"
    [] room.name = "office" -> /\ token[s].kind = "AUCTION_HOUSE"
                               /\ <<room.of, token[s].id>> \in owned
    [] room.name = "operators" -> /\ token[s].kind = "OPERATOR"
                                  /\ AuctionOf[token[s].id] = room.of
    [] room.name = "user" -> room.of = token[s].id

(* Full bids are heard in the office room by an office that owned the auction
   when the socket joined or before, winners in the buyers' room by users,
   gestures in the operators' room by operators of that auction, and a win by
   its buyer, however joins overlap transfers, deletions and disconnections
   (handleAuctionJoin and handleNotificationsJoin check, then join). *)
RoomsAreEarned ==
  /\ \A m \in rooms : Earned(m[1], m[2])
  /\ \A r \in Requests : pc[r] = "admitted" =>
       /\ call[r].kind = "auction"
       /\ owner[r] # NoOffice => <<call[r].auction, owner[r]>> \in owned
       /\ MayEnter(TokenOf(r), call[r].auction)

\* The access of an operator's socket has ended, and no join of the socket that
\* was authenticated before is still on its way.
Settled(s) ==
  /\ token[s].kind = "OPERATOR"
  /\ token[s].id \notin granted
  /\ \A r \in Requests : call[r].socket = s => pc[r] \notin {"authenticated", "admitted"}

(* A socket whose access has ended enters no room any more once the joins that
   had been authenticated before are through, whatever becomes of its auction
   and however often it asks (authenticateSocket asks the database on every
   join, and nothing gives an access back). *)
EntryOnceSettled == [][\A s \in Sockets : Settled(s) =>
  /\ Settled(s)'
  /\ \A m \in rooms' \ rooms : m[1] # s]_roomVars

-----------------------------------------------------------------------------
(* What the documents say and the code does not keep *)

(* docs/superpowers/specs/2026-09-22-buyer-ie-operator-bidding-design.md:158:
   each request and each join asks the access again, so that a revocation ends
   a session already open.  The room is left only with the connection. *)
RevokedHearsNothing == \A s \in Sockets, a \in Auctions :
  In(s, "operators", a) /\ line[s] = "open" => token[s].id \in granted
=============================================================================
