------------------------- MODULE GestureRelayProofs -------------------------
(***************************************************************************)
(* What holds of GestureRelay and of the rooms it emits to, for every set  *)
(* of sockets, auctions, offices, accesses, join messages and uploads, and *)
(* for every window, lifetime and table limit.                             *)
(***************************************************************************)
EXTENDS GestureRelay, FiniteSetTheorems, TLAPS

-----------------------------------------------------------------------------
(* The rooms *)

(* A join has the fields of its kind, a token those of its kind. *)
LEMMA RoomsCallTypes ==
  ASSUME RoomsTypeOK
  PROVE  /\ \A r \in Requests :
              /\ call[r] \in JoinCall \cup NotifyCall
              /\ call[r].socket \in Sockets
              /\ call[r].kind = "auction" => call[r].auction \in Auctions
         /\ \A s \in Sockets :
              /\ token[s] \in UserToken \cup OfficeToken \cup OperatorToken
              /\ token[s].id \in Users \cup Offices \cup Accesses
              /\ token[s].kind = "AUCTION_HOUSE" => token[s].id \in Offices
              /\ token[s].kind = "OPERATOR" => token[s].id \in Accesses
BY RoomsAssumption
   DEF RoomsTypeOK, JoinCall, NotifyCall, UserToken, OfficeToken, OperatorToken

(* What a room step writes: the rooms are entered by two handlers and emptied
   by a disconnection, the tables move by what the offices and users do. *)
LEMMA RoomsFrame ==
  ASSUME RoomsStep
  PROVE  /\ UNCHANGED <<token, call>>
         /\ owned \subseteq owned' /\ granted' \subseteq granted
         /\ \/ UNCHANGED rooms
            \/ \E s \in Sockets : Disconnect(s)
            \/ \E r \in Requests : JoinAuction(r) \/ JoinNotifications(r)
         /\ \/ UNCHANGED <<pc, owner>>
            \/ \E r \in Requests : Join(r)
         /\ \/ UNCHANGED <<houseOf, owned>>
            \/ \E a \in Auctions : RemoveAuction(a)
            \/ \E a \in Auctions, office \in Offices : Transfer(a, office)
BY DEF RoomsStep, Join, Receive, Authenticate, FindAuction, JoinAuction, JoinNotifications,
       FailJoin, Answer, Connect, Disconnect, EndAccess, SetStatus, RemoveAuction, Transfer,
       RemoveUser, wires, tables, handlers

(* Every step of the rooms keeps their types. *)
LEMMA RoomsTyped ==
  ASSUME RoomsTypeOK, RoomsAreEarned, RoomsStep \/ RestartRooms
  PROVE  RoomsTypeOK'
<1>1. ASSUME NEW r \in Requests, Receive(r) \/ Authenticate(r) \/ FailJoin(r)
      PROVE  RoomsTypeOK'
  BY <1>1 DEF Receive, Authenticate, FailJoin, Answer, Goto, RoomsTypeOK, JoinPhase, Underway,
              wires, tables
<1>2. ASSUME NEW r \in Requests, FindAuction(r)
      PROVE  RoomsTypeOK'
  BY <1>2, RoomsCallTypes
     DEF FindAuction, Finish, Goto, RoomsTypeOK, JoinPhase, Underway, wires, tables
<1>3. ASSUME NEW r \in Requests, JoinAuction(r) \/ JoinNotifications(r)
      PROVE  RoomsTypeOK'
  <2>1. rooms' \subseteq Sockets \X Room
    <3>1. CASE JoinNotifications(r)
      BY <3>1, RoomsCallTypes
         DEF JoinNotifications, EnterRooms, RoomOf, TokenOf, Room, RoomName, RoomsTypeOK
    <3>2. CASE JoinAuction(r)
      <4>1. call[r].auction \in Auctions /\ call[r].socket \in Sockets
        BY <3>2, RoomsCallTypes DEF JoinAuction, RoomsAreEarned
      <4>2. \A name \in RoomName : RoomOf(name, call[r].auction) \in Room
        BY <4>1 DEF RoomOf, Room
      <4>3. OwnRooms(TokenOf(r), call[r].auction, owner[r]) \subseteq Room
        BY <4>2 DEF OwnRooms, RoomName
      <4> QED
        BY <3>2, <4>1, <4>2, <4>3 DEF JoinAuction, EnterRooms, RoomName, RoomsTypeOK
    <3> QED
      BY <1>3, <3>1, <3>2
  <2>2. pc' \in [Requests -> JoinPhase] /\ owner' \in [Requests -> Offices \cup {NoOffice}]
    BY <1>3 DEF JoinAuction, JoinNotifications, Finish, Goto, JoinPhase, RoomsTypeOK
  <2> QED
    BY <1>3, <2>1, <2>2 DEF JoinAuction, JoinNotifications, RoomsTypeOK, wires, tables
<1>4. ASSUME NEW s \in Sockets, Connect(s) \/ Disconnect(s)
      PROVE  RoomsTypeOK'
  BY <1>4 DEF Connect, Disconnect, RoomsTypeOK, tables, handlers
<1>5. ASSUME NEW x \in Accesses, EndAccess(x)
      PROVE  RoomsTypeOK'
  BY <1>5 DEF EndAccess, RoomsTypeOK, wires, handlers
<1>6. ASSUME NEW a \in Auctions, SetStatus(a) \/ RemoveAuction(a)
      PROVE  RoomsTypeOK'
  BY <1>6 DEF SetStatus, RemoveAuction, RoomsTypeOK, wires, handlers
<1>7. ASSUME NEW a \in Auctions, NEW office \in Offices, Transfer(a, office)
      PROVE  RoomsTypeOK'
  BY <1>7 DEF Transfer, RoomsTypeOK, wires, handlers
<1>8. ASSUME NEW u \in Users, RemoveUser(u)
      PROVE  RoomsTypeOK'
  BY <1>8 DEF RemoveUser, RoomsTypeOK, wires, handlers
<1>9. CASE RestartRooms
  BY <1>9 DEF RestartRooms, RoomsTypeOK, JoinPhase, Underway, tables
<1> QED
  BY <1>1, <1>2, <1>3, <1>4, <1>5, <1>6, <1>7, <1>8, <1>9 DEF RoomsStep, Join

(* The office an auction has now is one of those that have owned it. *)
HousesAreOwned == \A a \in Auctions : houseOf[a] # NoOffice => <<a, houseOf[a]>> \in owned

(* The house of an auction stays owned: nothing removes an owner. *)
LEMMA HousesOwned ==
  ASSUME RoomsTypeOK, HousesAreOwned, RoomsStep \/ RestartRooms
  PROVE  HousesAreOwned'
<1>1. CASE UNCHANGED <<houseOf, owned>>
  BY <1>1 DEF HousesAreOwned
<1>2. ASSUME NEW a \in Auctions, RemoveAuction(a)
      PROVE  HousesAreOwned'
  BY <1>2 DEF RemoveAuction, HousesAreOwned, RoomsTypeOK
<1>3. ASSUME NEW a \in Auctions, NEW office \in Offices, Transfer(a, office)
      PROVE  HousesAreOwned'
  BY <1>3 DEF Transfer, HousesAreOwned, RoomsTypeOK
<1> QED
  BY <1>1, <1>2, <1>3, RoomsFrame DEF RestartRooms, tables

(* What each room asks of a token. *)
LEMMA EarnedIn ==
  ASSUME NEW s, NEW room
  PROVE  /\ room.name = "prices" => (Earned(s, room) <=> room.of \in Auctions)
         /\ room.name = "buyers" => (Earned(s, room) <=> token[s].kind = "USER")
         /\ room.name = "office" => (Earned(s, room) <=> /\ token[s].kind = "AUCTION_HOUSE"
                                                        /\ <<room.of, token[s].id>> \in owned)
         /\ room.name = "operators" => (Earned(s, room) <=> /\ token[s].kind = "OPERATOR"
                                                           /\ AuctionOf[token[s].id] = room.of)
         /\ room.name = "user" => (Earned(s, room) <=> room.of = token[s].id)
<1>1. CASE room.name = "prices"
  BY <1>1 DEF Earned
<1>2. CASE room.name = "buyers"
  BY <1>2 DEF Earned
<1>3. CASE room.name = "office"
  BY <1>3 DEF Earned
<1>4. CASE room.name = "operators"
  BY <1>4 DEF Earned
<1>5. CASE room.name = "user"
  BY <1>5 DEF Earned
<1> QED
  BY <1>1, <1>2, <1>3, <1>4, <1>5
(* A step of the rooms or of the process lets nobody in who has not earned it:
   what a token has earned, it keeps, and who enters has just been admitted. *)
LEMMA RoomsEarned ==
  ASSUME RoomsTypeOK, HousesAreOwned, RoomsAreEarned, RoomsStep \/ RestartRooms
  PROVE  RoomsAreEarned'
<1>1. token' = token /\ call' = call /\ owned \subseteq owned'
  BY RoomsFrame DEF RestartRooms, tables
<1>2. ASSUME NEW s, NEW room, room.name \in RoomName, Earned(s, room)
      PROVE  Earned(s, room)'
  <2>1. CASE room.name = "prices"
    BY <1>1, <1>2, <2>1 DEF Earned
  <2>2. CASE room.name = "buyers"
    BY <1>1, <1>2, <2>2 DEF Earned
  <2>3. CASE room.name = "office"
    BY <1>1, <1>2, <2>3 DEF Earned
  <2>4. CASE room.name = "operators"
    BY <1>1, <1>2, <2>4 DEF Earned
  <2>5. CASE room.name = "user"
    BY <1>1, <1>2, <2>5 DEF Earned
  <2> QED
    BY <1>2, <2>1, <2>2, <2>3, <2>4, <2>5 DEF RoomName
<1>3. \A m \in rooms : Earned(m[1], m[2])'
  BY <1>2 DEF RoomsTypeOK, Room, RoomsAreEarned
<1>4. ASSUME NEW m \in rooms', m \notin rooms
      PROVE  Earned(m[1], m[2])'
  <2>1. PICK r \in Requests : JoinAuction(r) \/ JoinNotifications(r)
    BY <1>4, RoomsFrame DEF RestartRooms, Disconnect
  <2>2. CASE JoinNotifications(r)
    <3>1. m[1] = call[r].socket /\ m[2].name = "user" /\ m[2].of = token[m[1]].id
      BY <1>4, <2>2 DEF JoinNotifications, EnterRooms, RoomOf, TokenOf
    <3>2. Earned(m[1], m[2])
      BY <3>1, EarnedIn
    <3> QED
      BY <1>2, <3>1, <3>2 DEF RoomName
  <2>3. CASE JoinAuction(r)
    <3>1. PICK auction \in Auctions :
            /\ auction = call[r].auction
            /\ owner[r] # NoOffice => <<auction, owner[r]>> \in owned
            /\ MayEnter(TokenOf(r), auction)
      BY <2>3, RoomsCallTypes DEF JoinAuction, RoomsAreEarned
    <3>2. /\ m[1] = call[r].socket
          /\ m[2] = RoomOf("prices", auction) \/ m[2] \in OwnRooms(TokenOf(r), auction, owner[r])
      BY <1>4, <2>3, <3>1 DEF JoinAuction, EnterRooms
    <3>3. CASE m[2] = RoomOf("prices", auction)
      <4>1. m[2].name = "prices" /\ m[2].of = auction
        BY <3>3 DEF RoomOf
      <4>2. Earned(m[1], m[2])
        BY <4>1, EarnedIn
      <4> QED
        BY <1>2, <4>1, <4>2 DEF RoomName
    <3>4. CASE m[2] \in OwnRooms(TokenOf(r), auction, owner[r])
      <4>1. /\ m[2].of = auction
            /\ \/ m[2].name = "buyers" /\ token[m[1]].kind = "USER"
               \/ m[2].name = "operators" /\ token[m[1]].kind = "OPERATOR"
               \/ /\ m[2].name = "office"
                  /\ token[m[1]].kind = "AUCTION_HOUSE"
                  /\ token[m[1]].id = owner[r]
        BY <3>2, <3>4 DEF OwnRooms, RoomOf, TokenOf
      <4>2. m[2].name = "office" => owner[r] # NoOffice
        BY <3>2, <4>1, RoomsAssumption, RoomsCallTypes
      <4>3. Earned(m[1], m[2])
        BY <3>1, <3>2, <4>1, <4>2, EarnedIn DEF MayEnter, TokenOf
      <4> QED
        BY <1>2, <4>1, <4>3 DEF RoomName
    <3> QED
      BY <3>2, <3>3, <3>4
  <2> QED
    BY <2>1, <2>2, <2>3
<1>5. ASSUME NEW r \in Requests, pc'[r] = "admitted"
      PROVE  /\ call[r].kind = "auction"
             /\ owner'[r] # NoOffice => <<call[r].auction, owner'[r]>> \in owned'
             /\ MayEnter(TokenOf(r), call[r].auction)
  <2>1. CASE pc[r] = "admitted" /\ owner'[r] = owner[r]
    BY <1>1, <2>1 DEF RoomsAreEarned
  <2>2. CASE FindAuction(r)
    <3>1. PICK auction \in Auctions : auction = call[r].auction
      BY <2>2, RoomsCallTypes DEF FindAuction
    <3>2. /\ call[r].kind = "auction"
          /\ MayEnter(TokenOf(r), auction)
          /\ houseOf[auction] # NoOffice
          /\ owner'[r] = houseOf[auction]
      BY <1>5, <2>2, <3>1 DEF FindAuction, Goto, Finish, RoomsTypeOK
    <3> QED
      BY <1>1, <3>1, <3>2 DEF HousesAreOwned
  <2>3. CASE RestartRooms
    BY <1>5, <2>3 DEF RestartRooms, Underway
  <2>4. ASSUME NEW q \in Requests, Join(q), q # r
        PROVE  pc'[r] = pc[r] /\ owner'[r] = owner[r]
    BY <2>4 DEF Join, Receive, Authenticate, FindAuction, JoinAuction, JoinNotifications,
                FailJoin, Answer, Finish, Goto, RoomsTypeOK
  <2>5. CASE Join(r)
    BY <1>5, <2>2, <2>5 DEF Join, Receive, Authenticate, JoinAuction, JoinNotifications,
                FailJoin, Answer, Finish, Goto, RoomsTypeOK
  <2> QED
    BY <1>5, <2>1, <2>3, <2>4, <2>5, RoomsFrame
<1> QED
  BY <1>1, <1>3, <1>4, <1>5 DEF RoomsAreEarned, TokenOf
(* What happens outside the rooms leaves them as they are. *)
LEMMA RoomsIdle ==
  ASSUME RoomsTypeOK, HousesAreOwned, RoomsAreEarned, UNCHANGED roomVars
  PROVE  RoomsTypeOK' /\ HousesAreOwned' /\ RoomsAreEarned'
<1>1. \A s, room : Earned(s, room)' = Earned(s, room)
  BY DEF roomVars, wires, tables, Earned
<1>2. RoomsAreEarned'
  BY <1>1 DEF roomVars, wires, tables, handlers, RoomsAreEarned, TokenOf
<1> QED
  BY <1>2 DEF roomVars, wires, tables, handlers, RoomsTypeOK, HousesAreOwned

-----------------------------------------------------------------------------
(* The policy.  All that happens to its tables is one of three things: they
   are pruned by a handler that is refused, they take a relay in, or they go
   with the process. *)

(* The relay that upload u would be, if it were let in now. *)
RelayOf(u) == [event |-> upload[u].event, auction |-> upload[u].auction,
               stamp |-> stamp[u], at |-> now, nth |-> Cardinality(relays),
               heard |-> Audience(upload[u].auction)]

Pruned(t) == seen' = SeenAt(t) /\ latest' = LatestAt(t) /\ UNCHANGED relays

Relayed(e) ==
  /\ ~ Repeated(e.event, e.stamp)
  /\ ~ TooSoon(e.auction, e.stamp)
  /\ seen' = Evicted(SeenAt(e.stamp)) \cup {e}
  /\ latest' = {f \in LatestAt(e.stamp) : f.auction # e.auction} \cup {e}
  /\ relays' = relays \cup {e}

(* No handler has taken a time that is not yet. *)
StampsArePast == \A u \in Uploads : stamp[u] <= now

(* What a step may do to the relay policy: nothing, one upload considered,
   or a restart that forgets it. *)
LEMMA PolicySteps ==
  ASSUME GestureTypeOK, [Next]_vars
  PROVE  \/ UNCHANGED policy /\ (UNCHANGED now \/ (now < MaxTime /\ now' = now + 1))
         \/ \E u \in Uploads : /\ Emit(u) /\ UNCHANGED now
                               /\ Pruned(stamp[u]) \/ Relayed(RelayOf(u))
         \/ Restart /\ UNCHANGED now
<1>1. CASE RoomsStep /\ UNCHANGED gestureVars
  BY <1>1 DEF gestureVars, policy
<1>2. ASSUME NEW u \in Uploads, Gesture(u)
      PROVE  UNCHANGED now /\ (UNCHANGED policy \/ Emit(u))
  BY <1>2 DEF Gesture, Arrive, LookUp, Refuse, Emit, LoseUpload
<1>3. ASSUME NEW u \in Uploads, Emit(u)
      PROVE  Pruned(stamp[u]) \/ Relayed(RelayOf(u))
  BY <1>3 DEF Emit, Reserve, Pruned, Relayed, RelayOf
<1>4. CASE Tick
  BY <1>4 DEF Tick, policy
<1>5. CASE Restart
  BY <1>5 DEF Restart
<1>6. CASE UNCHANGED vars
  BY <1>6 DEF vars, gestureVars, policy
<1> QED
  <2>1. ASSUME NEW u \in Uploads, Gesture(u)
        PROVE  \/ UNCHANGED <<policy, now>>
               \/ Emit(u) /\ UNCHANGED now /\ (Pruned(stamp[u]) \/ Relayed(RelayOf(u)))
    BY <1>2, <1>3, <2>1
  <2> QED
    BY <1>1, <1>4, <1>5, <1>6, <2>1 DEF Next

(* What an upload names, and when it arrived, are of their types. *)
LEMMA UploadTypes ==
  ASSUME GestureTypeOK, NEW u \in Uploads
  PROVE  /\ upload[u].event \in Events
         /\ upload[u].auction \in Auctions
         /\ stamp[u] \in Time
BY GestureAssumption DEF GestureTypeOK, UploadCall

(* What the relay records of an upload is a relay. *)
LEMMA RelayTyped ==
  ASSUME GestureTypeOK, IsFiniteSet(relays), NEW u \in Uploads
  PROVE  RelayOf(u) \in Relay
<1>1. Cardinality(relays) \in Nat
  BY FS_CardinalityType
<1>2. now \in Time /\ Audience(upload[u].auction) \subseteq Sockets
  BY DEF GestureTypeOK, Audience
<1> QED
  BY <1>1, <1>2, UploadTypes DEF RelayOf, Relay

\* The handlers' part of GestureTypeOK.
UploadsFit ==
  /\ upload \in [Uploads -> UploadCalls]
  /\ step \in [Uploads -> {"ready", "done", "rejected"} \cup InHandler]
  /\ stamp \in [Uploads -> Time]
  /\ allowed \in [Uploads -> BOOLEAN]

(* Every step keeps the types, and adds at most one relay to finitely many. *)
LEMMA GestureTyped ==
  ASSUME GestureTypeOK, IsFiniteSet(relays), [Next]_vars
  PROVE  GestureTypeOK' /\ IsFiniteSet(relays')
<1>1. /\ relays' \subseteq Relay
      /\ seen' \subseteq relays'
      /\ latest' \subseteq relays'
      /\ IsFiniteSet(relays')
  <2>1. CASE UNCHANGED policy
    BY <2>1 DEF policy, GestureTypeOK
  <2>2. CASE Restart
    BY <2>2, FS_EmptySet DEF Restart
  <2>3. ASSUME NEW t, Pruned(t)
        PROVE  /\ relays' \subseteq Relay
               /\ seen' \subseteq relays'
               /\ latest' \subseteq relays'
               /\ IsFiniteSet(relays')
    BY <2>3 DEF Pruned, SeenAt, LatestAt, GestureTypeOK
  <2>4. ASSUME NEW u \in Uploads, Relayed(RelayOf(u))
        PROVE  /\ relays' \subseteq Relay
               /\ seen' \subseteq relays'
               /\ latest' \subseteq relays'
               /\ IsFiniteSet(relays')
    BY <2>4, RelayTyped, FS_AddElement DEF Relayed, Evicted, SeenAt, LatestAt, GestureTypeOK
  <2> QED
    BY <2>1, <2>2, <2>3, <2>4, PolicySteps
<1>2. now' \in Time
  BY PolicySteps, GestureAssumption DEF GestureTypeOK, Time
<1>3. UploadsFit'
  <2>1. ASSUME NEW u \in Uploads, Arrive(u) \/ LookUp(u)
        PROVE  UploadsFit'
    BY <2>1 DEF Arrive, LookUp, GestureTypeOK, UploadsFit, InHandler
  <2>2. ASSUME NEW u \in Uploads, NEW phase \in {"done", "rejected"},
               FinishUpload(u, phase), UNCHANGED upload
        PROVE  UploadsFit'
    BY <2>2, GestureAssumption DEF FinishUpload, GestureTypeOK, UploadsFit, Time
  <2>3. ASSUME NEW u \in Uploads, Refuse(u) \/ Emit(u) \/ LoseUpload(u)
        PROVE  UploadsFit'
    BY <2>2, <2>3 DEF Refuse, Emit, Reserve, LoseUpload
  <2>4. CASE UNCHANGED <<upload, step, stamp, allowed>>
    BY <2>4 DEF GestureTypeOK, UploadsFit
  <2>5. CASE Restart
    BY <2>5, GestureAssumption DEF Restart, GestureTypeOK, UploadsFit, InHandler, Time
  <2> QED
    BY <2>1, <2>3, <2>4, <2>5 DEF Next, Gesture, Tick, gestureVars, vars
<1> QED
  BY <1>1, <1>2, <1>3 DEF GestureTypeOK, UploadsFit

(* No upload is stamped with a time that is still to come. *)
LEMMA StampsPast ==
  ASSUME GestureTypeOK, StampsArePast, [Next]_vars
  PROVE  StampsArePast'
<1>1. now' >= now /\ now \in Nat /\ now' \in Nat
  BY PolicySteps DEF GestureTypeOK, Time
<1>2. ASSUME NEW u \in Uploads PROVE stamp'[u] \in {0, now, stamp[u]}
  <2>1. ASSUME NEW v \in Uploads, Gesture(v)
        PROVE  stamp'[u] \in {0, now, stamp[u]}
    BY <2>1 DEF Gesture, Arrive, LookUp, Refuse, Emit, Reserve, LoseUpload, FinishUpload,
                GestureTypeOK
  <2>2. CASE Restart
    BY <2>2 DEF Restart
  <2> QED
    BY <2>1, <2>2 DEF Next, Tick, gestureVars, vars
<1> QED
  BY <1>1, <1>2 DEF StampsArePast, GestureTypeOK, Time
-----------------------------------------------------------------------------
(* The spacing of relays.  A relay leaves a table only when its time is up, or
   when as many as the table holds have come after it, so that whoever is let
   in finds the relay there or is late enough. *)

\* The relays let in after d.
Later(d) == {f \in relays : d.nth < f.nth}

(* Relays are counted up. *)
NumbersFit == \A e \in relays : e.nth < Cardinality(relays)

(* A relay that the table of auctions has forgotten is a window old. *)
LatestHolds == \A d \in relays : d \in latest \/ d.stamp + RateWindow <= now

(* One that the table of events has forgotten is as old as an event gets, or
   has been pushed out by as many as the table holds. *)
SeenHolds == \A d \in relays :
  d \in seen \/ d.stamp + IdTtl <= now \/ Cardinality(Later(d)) >= IdLimit

PolicyInvariant == /\ GestureTypeOK /\ IsFiniteSet(relays) /\ StampsArePast
                   /\ NumbersFit /\ LatestHolds /\ SeenHolds
                   /\ RelaysSpaced /\ RepeatsSpaced

(* The arithmetic of relays and uploads. *)
LEMMA PolicyNumbers ==
  ASSUME PolicyInvariant
  PROVE  /\ \A e \in relays : /\ e.nth \in Nat /\ e.stamp \in Nat /\ e.at \in Nat
                             /\ e.auction \in Auctions /\ e.event \in Events
         /\ \A u \in Uploads : stamp[u] \in Nat /\ stamp[u] <= now
         /\ now \in Nat
         /\ Cardinality(relays) \in Nat
         /\ RateWindow \in Nat /\ IdTtl \in Nat /\ IdLimit \in Nat \ {0}
<1>1. Cardinality(relays) \in Nat
  BY FS_CardinalityType DEF PolicyInvariant
<1> QED
  BY <1>1, GestureAssumption DEF PolicyInvariant, GestureTypeOK, Relay, Time, StampsArePast

(* Pruning at a time that has come forgets only what is old. *)
LEMMA PrunedHolds ==
  ASSUME PolicyInvariant, NEW u \in Uploads, Pruned(stamp[u]), UNCHANGED now
  PROVE  NumbersFit' /\ LatestHolds' /\ SeenHolds' /\ RelaysSpaced' /\ RepeatsSpaced'
<1>1. relays' = relays /\ NumbersFit' /\ RelaysSpaced' /\ RepeatsSpaced'
  BY DEF Pruned, PolicyInvariant, NumbersFit, RelaysSpaced, RepeatsSpaced
<1>2. LatestHolds'
  BY PolicyNumbers DEF Pruned, LatestAt, PolicyInvariant, LatestHolds
<1>3. SeenHolds'
  <2>1. \A d \in relays : Later(d)' = Later(d)
    BY <1>1 DEF Later
  <2> QED
    BY <2>1, PolicyNumbers DEF Pruned, SeenAt, PolicyInvariant, SeenHolds
<1> QED
  BY <1>1, <1>2, <1>3

(* Time that goes by leaves the tables as they are. *)
LEMMA WaitHolds ==
  ASSUME PolicyInvariant, UNCHANGED policy, now' \in {now, now + 1}
  PROVE  NumbersFit' /\ LatestHolds' /\ SeenHolds' /\ RelaysSpaced' /\ RepeatsSpaced'
<1>1. UNCHANGED <<relays, seen, latest>>
  BY DEF policy
<1>2. NumbersFit' /\ RelaysSpaced' /\ RepeatsSpaced'
  BY <1>1 DEF PolicyInvariant, NumbersFit, RelaysSpaced, RepeatsSpaced
<1>3. LatestHolds'
  BY <1>1, PolicyNumbers DEF PolicyInvariant, LatestHolds
<1>4. SeenHolds'
  <2>1. \A d \in relays : Later(d)' = Later(d)
    BY <1>1 DEF Later
  <2> QED
    BY <1>1, <2>1, PolicyNumbers DEF PolicyInvariant, SeenHolds
<1> QED
  BY <1>2, <1>3, <1>4

(* Whoever is let in comes after everyone else, and finds the tables free of
   its auction and of its event. *)
LEMMA RelayedHolds ==
  ASSUME PolicyInvariant, NEW u \in Uploads, Relayed(RelayOf(u)), UNCHANGED now
  PROVE  NumbersFit' /\ LatestHolds' /\ SeenHolds' /\ RelaysSpaced' /\ RepeatsSpaced'
<1>1. PICK e : e = RelayOf(u)
  OBVIOUS
<1>2. /\ e.stamp = stamp[u] /\ e.stamp \in Nat /\ e.stamp <= now
      /\ e.at = now /\ e.nth = Cardinality(relays) /\ e.nth \in Nat
  BY <1>1, PolicyNumbers DEF RelayOf
<1>3. Relayed(e) /\ relays' = relays \cup {e}
  BY <1>1 DEF Relayed
<1>4. \A d \in relays : d.nth < e.nth /\ d # e
  BY <1>2, PolicyNumbers DEF PolicyInvariant, NumbersFit
<1>5. Cardinality(relays') = Cardinality(relays) + 1
  BY <1>3, <1>4, FS_AddElement DEF PolicyInvariant
<1>6. NumbersFit'
  <2>1. \A d \in relays' : d.nth <= Cardinality(relays) /\ d.nth \in Nat
    BY <1>2, <1>3, <1>4, PolicyNumbers
  <2> QED
    BY <1>5, <2>1, PolicyNumbers DEF NumbersFit
<1>7. \A d \in relays : d.auction = e.auction => d.stamp + RateWindow <= now
  <2> SUFFICES ASSUME NEW d \in relays, d.auction = e.auction
               PROVE  d.stamp + RateWindow <= now
    OBVIOUS
  <2>1. d \notin LatestAt(e.stamp)
    BY <1>2, <1>3, PolicyNumbers DEF Relayed, TooSoon, LatestAt
  <2> QED
    BY <1>2, <2>1, PolicyNumbers DEF LatestAt, PolicyInvariant, LatestHolds
<1>8. LatestHolds'
  <2>1. ASSUME NEW d \in relays, d \notin latest'
        PROVE  d.stamp + RateWindow <= now
    <3>1. d \notin LatestAt(e.stamp) \/ d.auction = e.auction
      BY <1>3, <2>1 DEF Relayed
    <3> QED
      BY <1>2, <1>7, <3>1, PolicyNumbers DEF LatestAt, PolicyInvariant, LatestHolds
  <2> QED
    BY <1>3, <2>1 DEF LatestHolds, Relayed
<1>9. RelaysSpaced'
  BY <1>2, <1>3, <1>4, <1>7, PolicyNumbers DEF PolicyInvariant, RelaysSpaced
<1>10. ASSUME NEW d \in relays
       PROVE  /\ Later(d)' = Later(d) \cup {e}
              /\ IsFiniteSet(Later(d))
              /\ Cardinality(Later(d)) \in Nat
              /\ Cardinality(Later(d)') = Cardinality(Later(d)) + 1
  <2>1. Later(d)' = Later(d) \cup {e}
    BY <1>3, <1>4 DEF Later
  <2>2. IsFiniteSet(Later(d)) /\ e \notin Later(d)
    BY <1>4, FS_Subset DEF PolicyInvariant, Later
  <2> QED
    BY <2>1, <2>2, FS_AddElement, FS_CardinalityType
<1>11. SeenHolds'
  <2> SUFFICES ASSUME NEW d \in relays, d \notin seen'
               PROVE  d.stamp + IdTtl <= now \/ Cardinality(Later(d)') >= IdLimit
    BY <1>3 DEF SeenHolds, Relayed
  <2>1. CASE d \notin SeenAt(e.stamp)
    BY <1>2, <1>10, <2>1, PolicyNumbers DEF SeenAt, PolicyInvariant, SeenHolds
  <2>2. CASE d \in SeenAt(e.stamp)
    <3>1. ~ (Cardinality(Newer(SeenAt(e.stamp), d)) < IdLimit - 1)
      BY <1>3, <2>2 DEF Relayed, Evicted
    <3>2. Newer(SeenAt(e.stamp), d) \subseteq Later(d)
      BY PolicyNumbers DEF Newer, SeenAt, Later, PolicyInvariant, GestureTypeOK
    <3>3. /\ Cardinality(Newer(SeenAt(e.stamp), d)) <= Cardinality(Later(d))
          /\ Cardinality(Newer(SeenAt(e.stamp), d)) \in Nat
      BY <1>10, <3>2, FS_Subset, FS_CardinalityType
    <3> QED
      BY <1>10, <3>1, <3>3, PolicyNumbers
  <2> QED
    BY <2>1, <2>2
<1>12. RepeatsSpaced'
  <2> SUFFICES ASSUME NEW d \in relays', NEW f \in relays', d.event = f.event, d.nth < f.nth
               PROVE  \/ f.at >= d.stamp + IdTtl
                      \/ Cardinality({g \in relays' : d.nth < g.nth /\ g.nth < f.nth}) >= IdLimit
    BY DEF RepeatsSpaced
  <2>1. d \in relays
    BY <1>2, <1>3, <1>4, PolicyNumbers
  <2>2. CASE f \in relays
    <3>1. {g \in relays' : d.nth < g.nth /\ g.nth < f.nth}
            = {g \in relays : d.nth < g.nth /\ g.nth < f.nth}
      BY <1>2, <1>3, <1>4, <2>2, PolicyNumbers
    <3> QED
      BY <2>1, <2>2, <3>1 DEF PolicyInvariant, RepeatsSpaced
  <2>3. CASE f = e
    <3>1. {g \in relays' : d.nth < g.nth /\ g.nth < e.nth} = Later(d)
      BY <1>2, <1>3, <1>4 DEF Later
    <3>2. d \notin SeenAt(e.stamp)
      BY <1>3, <2>3 DEF Relayed, Repeated
    <3>3. d.stamp + IdTtl <= now \/ Cardinality(Later(d)) >= IdLimit
      BY <1>2, <2>1, <3>2, PolicyNumbers DEF SeenAt, PolicyInvariant, SeenHolds
    <3> QED
      BY <1>2, <2>1, <2>3, <3>1, <3>3, PolicyNumbers
  <2> QED
    BY <1>3, <2>2, <2>3
<1> QED
  BY <1>6, <1>8, <1>9, <1>11, <1>12

(* Every step preserves the inductive invariant of the relay policy. *)
LEMMA NextPolicy ==
  ASSUME PolicyInvariant, [Next]_vars
  PROVE  PolicyInvariant'
<1>1. GestureTypeOK' /\ IsFiniteSet(relays') /\ StampsArePast'
  BY GestureTyped, StampsPast DEF PolicyInvariant
<1>2. CASE Restart
  <2>1. relays' = {} /\ NumbersFit' /\ RelaysSpaced' /\ RepeatsSpaced'
    BY <1>2 DEF Restart, NumbersFit, RelaysSpaced, RepeatsSpaced
  <2>2. LatestHolds' /\ SeenHolds'
    BY <2>1 DEF LatestHolds, SeenHolds
  <2> QED
    BY <1>1, <2>1, <2>2 DEF PolicyInvariant
<1>3. ~ Restart => NumbersFit' /\ LatestHolds' /\ SeenHolds' /\ RelaysSpaced' /\ RepeatsSpaced'
  <2>1. GestureTypeOK
    BY DEF PolicyInvariant
  <2> QED
    BY <2>1, PolicySteps, WaitHolds, PrunedHolds, RelayedHolds
<1> QED
  BY <1>1, <1>2, <1>3 DEF PolicyInvariant

(* The policy keeps its promises whatever uploads overlap: the tables hold
   every relay that is still to be held against a later one. *)
THEOREM PolicyHolds == Spec => []PolicyInvariant
<1>1. Init => PolicyInvariant
  BY FS_EmptySet, GestureAssumption
     DEF Init, PolicyInvariant, GestureTypeOK, StampsArePast, NumbersFit, LatestHolds, SeenHolds,
         RelaysSpaced, RepeatsSpaced, Time
<1>2. PolicyInvariant /\ [Next]_vars => PolicyInvariant'
  BY NextPolicy
<1> QED
  BY <1>1, <1>2, PTL DEF Spec

(* Two relays of one auction are a window apart, counted from the time the
   earlier one's handler began. *)
THEOREM AuctionsAreSpaced == Spec => []RelaysSpaced
BY PolicyHolds, PTL DEF PolicyInvariant

(* An event is relayed again only when its lifetime is over, or when as many
   others as the table holds have come between. *)
THEOREM EventsAreSpaced == Spec => []RepeatsSpaced
BY PolicyHolds, PTL DEF PolicyInvariant

-----------------------------------------------------------------------------
(* Who hears the snapshots *)

(* A relay is heard by who is in the operators' room at that moment, and who
   is there has earned it; tokens do not change afterwards. *)
LEMMA StaysInside ==
  ASSUME RoomsTypeOK, RoomsAreEarned, GestureTypeOK, SnapshotsStayInside, [Next]_vars
  PROVE  SnapshotsStayInside'
<1>1. token' = token
  BY RoomsFrame DEF Next, Gesture, Arrive, LookUp, Refuse, Emit, LoseUpload, Tick, Restart,
                    RestartRooms, roomVars, wires, vars
<1>2. CASE UNCHANGED relays \/ relays' = {}
  BY <1>1, <1>2 DEF SnapshotsStayInside
<1>3. ASSUME NEW u \in Uploads, Relayed(RelayOf(u))
      PROVE  SnapshotsStayInside'
  <2>1. ASSUME NEW s \in RelayOf(u).heard
        PROVE  token[s].kind = "OPERATOR" /\ AuctionOf[token[s].id] = RelayOf(u).auction
    <3>1. <<s, RoomOf("operators", upload[u].auction)>> \in rooms
      BY <2>1 DEF RelayOf, Audience, In
    <3>2. Earned(s, RoomOf("operators", upload[u].auction))
      BY <3>1 DEF RoomsAreEarned
    <3>3. /\ RoomOf("operators", upload[u].auction).name = "operators"
          /\ RoomOf("operators", upload[u].auction).of = upload[u].auction
      BY DEF RoomOf
    <3> QED
      BY <3>2, <3>3, EarnedIn DEF RelayOf
  <2> QED
    BY <1>1, <1>3, <2>1 DEF Relayed, SnapshotsStayInside
<1> QED
  BY <1>2, <1>3, PolicySteps DEF Pruned, Restart, policy

RelayInvariant == RoomsInvariant /\ HousesAreOwned /\ PolicyInvariant

(* Every step keeps the promises of the rooms beside the relay policy. *)
LEMMA NextRelay ==
  ASSUME RelayInvariant, [Next]_vars
  PROVE  RoomsInvariant' /\ HousesAreOwned'
<1>1. RoomsStep \/ RestartRooms \/ UNCHANGED roomVars
  BY DEF Next, Gesture, Arrive, LookUp, Refuse, Emit, LoseUpload, Tick, Restart, vars
<1>2. RoomsTypeOK /\ RoomsAreEarned /\ HousesAreOwned /\ GestureTypeOK /\ SnapshotsStayInside
  BY DEF RelayInvariant, RoomsInvariant
<1>3. RoomsTypeOK' /\ RoomsAreEarned' /\ HousesAreOwned'
  BY <1>1, <1>2, RoomsIdle, RoomsTyped, RoomsEarned, HousesOwned
<1> QED
  BY <1>2, <1>3, StaysInside, NextPolicy DEF RoomsInvariant, RelayInvariant, PolicyInvariant

(* The rooms and the snapshots emitted to them are for those who have earned
   them, however joins overlap transfers, deletions and disconnections. *)
THEOREM RoomsAreKept == Spec => []RoomsInvariant
<1>1. Init => RoomsInvariant /\ HousesAreOwned
  BY RoomsAssumption, GestureAssumption
     DEF Init, RoomsInit, RoomsInvariant, RoomsTypeOK, JoinPhase, GestureTypeOK, RoomsAreEarned,
         SnapshotsStayInside, HousesAreOwned, Time
<1>2. RelayInvariant /\ [Next]_vars => RoomsInvariant' /\ HousesAreOwned'
  BY NextRelay
<1> QED
  BY <1>1, <1>2, PolicyHolds, PTL DEF Spec, RelayInvariant

(* Where the rooms are on their own, they are kept just the same. *)
THEOREM RoomsAloneAreKept == RoomsSpec => [](RoomsTypeOK /\ RoomsAreEarned)
<1>1. RoomsInit => RoomsTypeOK /\ RoomsAreEarned /\ HousesAreOwned
  BY RoomsAssumption DEF RoomsInit, RoomsTypeOK, JoinPhase, RoomsAreEarned, HousesAreOwned
<1>2. RoomsTypeOK /\ RoomsAreEarned /\ HousesAreOwned /\ [RoomsStep \/ RestartRooms]_roomVars
        => RoomsTypeOK' /\ RoomsAreEarned' /\ HousesAreOwned'
  BY RoomsIdle, RoomsTyped, RoomsEarned, HousesOwned
<1> QED
  BY <1>1, <1>2, PTL DEF RoomsSpec
-----------------------------------------------------------------------------
(* Once an access has ended, no join of its socket is authenticated, and what
   had been authenticated before is over: nothing opens the rooms to it. *)
LEMMA SettledStays ==
  ASSUME RoomsTypeOK, RoomsStep \/ RestartRooms, NEW s \in Sockets, Settled(s)
  PROVE  Settled(s)' /\ \A m \in rooms' \ rooms : m[1] # s
<1>1. token' = token /\ call' = call /\ granted' \subseteq granted
  BY RoomsFrame DEF RestartRooms, tables
<1>2. ASSUME NEW r \in Requests, call[r].socket = s
      PROVE  pc'[r] \notin {"authenticated", "admitted"}
  <2>1. pc[r] \notin {"authenticated", "admitted"} /\ ~ Authentic(TokenOf(r))
    BY <1>2 DEF Settled, TokenOf, Authentic
  <2>2. ASSUME NEW q \in Requests, Join(q), q # r
        PROVE  pc'[r] = pc[r]
    BY <2>2 DEF Join, Receive, Authenticate, FindAuction, JoinAuction, JoinNotifications,
                FailJoin, Answer, Finish, Goto, RoomsTypeOK
  <2>3. CASE Join(r)
    BY <2>1, <2>3 DEF Join, Receive, Authenticate, FindAuction, JoinAuction, JoinNotifications,
                FailJoin, Answer, Goto, RoomsTypeOK
  <2>4. CASE RestartRooms
    BY <2>1, <2>4 DEF RestartRooms
  <2> QED
    BY <2>1, <2>2, <2>3, <2>4, RoomsFrame
<1>3. \A m \in rooms' \ rooms : m[1] # s
  <2>1. ASSUME NEW r \in Requests, JoinAuction(r) \/ JoinNotifications(r)
        PROVE  \A m \in rooms' \ rooms : m[1] # s
    BY <2>1 DEF JoinAuction, JoinNotifications, EnterRooms, Settled
  <2> QED
    BY <2>1, RoomsFrame DEF RestartRooms, Disconnect
<1> QED
  BY <1>1, <1>2, <1>3 DEF Settled

(* An operator whose access has ended enters no room any more once the joins
   that had been authenticated before are through. *)
THEOREM EndedAccessesStayOut == Spec => EntryOnceSettled
<1>1. RoomsTypeOK /\ [Next]_vars =>
        [\A s \in Sockets : Settled(s) =>
           /\ Settled(s)'
           /\ \A m \in rooms' \ rooms : m[1] # s]_roomVars
  <2>1. [Next]_vars => RoomsStep \/ RestartRooms \/ UNCHANGED roomVars
    BY DEF Next, Gesture, Arrive, LookUp, Refuse, Emit, LoseUpload, Tick, Restart, vars
  <2> QED
    BY <2>1, SettledStays
<1> QED
  BY <1>1, RoomsAreKept, PTL DEF Spec, EntryOnceSettled, RoomsInvariant

(* Where the rooms are on their own, the same. *)
THEOREM EndedAccessesStayOutAlone == RoomsSpec => EntryOnceSettled
<1>1. RoomsTypeOK /\ [RoomsStep \/ RestartRooms]_roomVars =>
        [\A s \in Sockets : Settled(s) =>
           /\ Settled(s)'
           /\ \A m \in rooms' \ rooms : m[1] # s]_roomVars
  BY SettledStays
<1> QED
  BY <1>1, RoomsAloneAreKept, PTL DEF RoomsSpec, EntryOnceSettled
=============================================================================
