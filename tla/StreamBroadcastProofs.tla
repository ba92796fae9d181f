----------------------- MODULE StreamBroadcastProofs -----------------------
(***************************************************************************)
(* Proofs about StreamBroadcast, for any auctions, sockets and requests.   *)
(***************************************************************************)
EXTENDS StreamBroadcast, TLAPS

(* The initial state has its types. *)
LEMMA InitType == Init => TypeOK
BY StreamAssumption, StreamCallAssumption
   DEF Init, TypeOK, Phase, Underway, HttpCall, UpdateCall, SocketCall

(* Moving a handler on keeps the types of its call. *)
LEMMA GotoType ==
  ASSUME TypeOK, NEW r \in Requests, NEW phase \in Phase, Goto(r, phase)
  PROVE  call' \in [Requests -> Calls] /\ pc' \in [Requests -> Phase]
         /\ subject' \in [Requests -> Auctions]
BY DEF TypeOK, Goto

(* A step that writes nothing but where its handler is. *)
LEMMA DecideType ==
  ASSUME TypeOK, NEW r \in Requests, NEW phase \in Phase, Decide(r, phase)
  PROVE  TypeOK'
BY GotoType DEF TypeOK, Decide, streams, data

(* The socket of a socket message, and the fields of an update. *)
LEMMA CallType ==
  ASSUME TypeOK, NEW r \in Requests
  PROVE  /\ call[r].kind \in {"join", "view", "ended", "disconnect"} =>
              call[r].socket \in Sockets
         /\ call[r].kind = "update" => /\ call[r].status \in AuctionStatus \cup {None}
                                       /\ call[r].to \in Houses \cup {None}
BY StreamCallAssumption DEF TypeOK, HttpCall, UpdateCall, SocketCall

(* The steps of a handler keep the types. *)
LEMMA HandleType ==
  ASSUME TypeOK, RolesAreAbout, NEW r \in Requests, Handle(r) \/ Lose(r)
  PROVE  TypeOK'
<1> USE DEF Is
<1> {"ready", "done", "rejected", "lost", "authenticated", "admitted",
     "looking", "writing", "clearing"} \subseteq Phase
  BY DEF Phase, Underway
<1>1. CASE Start(r)
  <2>1. CASE ReadForStart(r)
    BY <2>1, DecideType DEF ReadForStart
  <2>2. CASE WriteStart(r)
    BY <2>2, GotoType DEF WriteStart, WriteStream, TypeOK, AuctionStatus, StreamStatus, data
  <2> QED
    BY <1>1, <2>1, <2>2 DEF Start
<1>2. CASE Stop(r)
  <2>1. CASE ReadForStop(r)
    BY <2>1, DecideType DEF ReadForStop
  <2>2. CASE WriteStop(r)
    BY <2>2, GotoType DEF WriteStop, WriteStream, TypeOK, StreamStatus, data
  <2> QED
    BY <1>2, <2>1, <2>2 DEF Stop
<1>3. CASE Change(r)
  <2>1. CASE WriteUpdate(r)
    BY <2>1, GotoType, CallType DEF WriteUpdate, Given, TypeOK, data
  <2>2. CASE WriteRemove(r)
    BY <2>2, GotoType DEF WriteRemove, WriteStream, TypeOK, StreamStatus, data
  <2> QED
    BY <1>3, <2>1, <2>2, DecideType DEF Change, ReadForChange
<1>4. CASE Join(r)
  <2>1. CASE TakeSlot(r)
    BY <2>1, GotoType, CallType DEF TakeSlot, TypeOK, streams
  <2> QED
    BY <1>4, <2>1, DecideType DEF Join, AuthenticateJoin, CheckJoin, SlotTaken
<1>5. CASE View(r)
  BY <1>5, GotoType, CallType DEF View, TypeOK, streams
<1>6. CASE End(r)
  <2>1. CASE WriteEnd(r)
    BY <2>1, GotoType DEF WriteEnd, WriteStream, TypeOK, StreamStatus, data
  <2>2. CASE FreeSlot(r)
    BY <2>2, GotoType DEF FreeSlot, ClearBroadcaster, TypeOK, streams, data
  <2> QED
    BY <1>6, <2>1, <2>2, DecideType DEF End, AskEnd, LookUpEnd
<1>7. CASE Leave(r)
  <2>1. CASE Disconnect(r)
    <3> DEFINE s == call[r].socket
    <3>1. s \in Sockets
      BY <2>1, CallType DEF Disconnect
    <3>2. CASE role[s] = "broadcaster"
      <4>1. about[s] \in Auctions
        BY <3>1, <3>2 DEF RolesAreAbout
      <4> QED
        BY <2>1, <3>1, <3>2, <4>1
           DEF Disconnect, MayInterrupt, ClearBroadcaster, TypeOK, streams, data
    <3>3. CASE role[s] # "broadcaster"
      BY <2>1, <3>1, <3>3 DEF Disconnect, MayInterrupt, TypeOK, streams, data
    <3> QED
      BY <3>2, <3>3
  <2>2. CASE WriteInterrupted(r)
    BY <2>2, GotoType DEF WriteInterrupted, WriteStream, TypeOK, StreamStatus, data
  <2> QED
    BY <1>7, <2>1, <2>2, DecideType DEF Leave, LookUpInterrupted
<1>8. CASE Lose(r)
  BY <1>8, DecideType DEF Lose
<1> QED
  BY <1>1, <1>2, <1>3, <1>4, <1>5, <1>6, <1>7, <1>8 DEF Handle

(* The invariant that types need: only a join gives a socket its role. *)
LEMMA RolesStay ==
  ASSUME TypeOK, RolesAreAbout, [Next]_vars
  PROVE  RolesAreAbout'
<1>1. CASE UNCHANGED data
  BY <1>1 DEF RolesAreAbout, data
<1>2. ASSUME NEW r \in Requests, TakeSlot(r)
      PROVE  RolesAreAbout'
  BY <1>2, CallType DEF TakeSlot, Is, TypeOK, RolesAreAbout
<1>3. ASSUME NEW r \in Requests, View(r)
      PROVE  RolesAreAbout'
  BY <1>3, CallType DEF View, Is, TypeOK, RolesAreAbout
<1> QED
  BY <1>1, <1>2, <1>3
     DEF Next, Handle, Start, ReadForStart, WriteStart, Stop, ReadForStop, WriteStop,
         Change, ReadForChange, WriteUpdate, WriteRemove, Join, AuthenticateJoin,
         CheckJoin, SlotTaken, End, AskEnd, LookUpEnd, WriteEnd, FreeSlot, Leave,
         Disconnect, LookUpInterrupted, WriteInterrupted, Lose, Decide, Connect, Restart,
         vars, data

(* Every step keeps the types. *)
LEMMA NextType ==
  ASSUME TypeOK, RolesAreAbout, [Next]_vars
  PROVE  TypeOK'
<1>1. ASSUME NEW r \in Requests, Handle(r) \/ Lose(r)
      PROVE  TypeOK'
  BY <1>1, HandleType
<1>2. ASSUME NEW s \in Sockets, Connect(s)
      PROVE  TypeOK'
  BY <1>2 DEF Connect, TypeOK, streams, data, control
<1>3. CASE Restart
  BY <1>3 DEF Restart, TypeOK, Phase, streams, data
<1>4. CASE UNCHANGED vars
  BY <1>4 DEF vars, TypeOK
<1> QED
  BY <1>1, <1>2, <1>3, <1>4 DEF Next

(* Every variable keeps its type, and a socket with the role of a broadcaster
   has the auction that its disconnect will interrupt (StreamSocketData). *)
THEOREM TypeCorrect == Spec => [](TypeOK /\ RolesAreAbout)
<1>1. Init => TypeOK /\ RolesAreAbout
  BY InitType DEF Init, RolesAreAbout
<1>2. TypeOK /\ RolesAreAbout /\ [Next]_vars => (TypeOK /\ RolesAreAbout)'
  BY NextType, RolesStay
<1> QED
  BY <1>1, <1>2, PTL DEF Spec

-----------------------------------------------------------------------------
(* Slots *)

(* Only a socket that has connected holds a slot, or is on its way to one. *)
SlotsAreConnected ==
  /\ \A a \in Auctions : broadcaster[a] # None => line[broadcaster[a]] # "new"
  /\ \A r \in Requests : call[r].kind = "join" /\ pc[r] \in {"authenticated", "admitted"} =>
       line[call[r].socket] # "new"

(* No step changes a call, or undoes the connection of a socket. *)
LEMMA StepFrame ==
  ASSUME TypeOK, [Next]_vars
  PROVE  /\ UNCHANGED call
         /\ \A s \in Sockets : line[s] # "new" => line'[s] # "new"
<1>1. UNCHANGED call
  BY DEF Next, Handle, Start, ReadForStart, WriteStart, Stop, ReadForStop, WriteStop,
         Change, ReadForChange, WriteUpdate, WriteRemove, Join, AuthenticateJoin, CheckJoin,
         TakeSlot, SlotTaken, View, End, AskEnd, LookUpEnd, WriteEnd, FreeSlot, Leave,
         Disconnect, LookUpInterrupted, WriteInterrupted, Lose, Decide, Goto, Connect,
         Restart, vars, control
<1>2. \A s \in Sockets : line[s] # "new" => line'[s] # "new"
  BY DEF Is, TypeOK, Next, Handle, Start, ReadForStart, WriteStart, Stop, ReadForStop, WriteStop,
         Change, ReadForChange, WriteUpdate, WriteRemove, Join, AuthenticateJoin, CheckJoin,
         TakeSlot, SlotTaken, View, End, AskEnd, LookUpEnd, WriteEnd, FreeSlot, Leave,
         Disconnect, LookUpInterrupted, WriteInterrupted, Lose, Decide, Connect, Restart, vars
<1> QED
  BY <1>1, <1>2

(* A step of one request leaves the handlers of the others where they are. *)
LEMMA OthersStay ==
  ASSUME TypeOK, NEW q \in Requests, Handle(q) \/ Lose(q), NEW r \in Requests, q # r
  PROVE  UNCHANGED <<pc[r], subject[r]>>
BY DEF Is, TypeOK, Handle, Start, ReadForStart, WriteStart, Stop, ReadForStop, WriteStop,
       Change, ReadForChange, WriteUpdate, WriteRemove, Join, AuthenticateJoin, CheckJoin,
       TakeSlot, SlotTaken, View, End, AskEnd, LookUpEnd, WriteEnd, FreeSlot, Leave,
       Disconnect, LookUpInterrupted, WriteInterrupted, Lose, Decide, Goto

(* A slot is given by TakeSlot alone: every other step leaves it or frees it. *)
LEMMA OnlyJoinsTake ==
  ASSUME TypeOK, [Next]_vars, ~ \E r \in Requests : TakeSlot(r), NEW a \in Auctions
  PROVE  broadcaster'[a] \in {broadcaster[a], None}
BY DEF TypeOK, Next, Handle, Start, ReadForStart, WriteStart, Stop, ReadForStop, WriteStop,
       Change, ReadForChange, WriteUpdate, WriteRemove, Join, AuthenticateJoin, CheckJoin,
       SlotTaken, View, End, AskEnd, LookUpEnd, WriteEnd, FreeSlot, Leave, Disconnect,
       LookUpInterrupted, WriteInterrupted, Lose, Decide, ClearBroadcaster, Connect,
       Restart, vars

(* A handler comes to the point where it takes a slot by CheckJoin alone. *)
LEMMA OnlyChecksAdmit ==
  ASSUME TypeOK, [Next]_vars, NEW r \in Requests, pc'[r] = "admitted", pc[r] # "admitted"
  PROVE  CheckJoin(r)
<1>1. ASSUME NEW q \in Requests, Handle(q) \/ Lose(q)
      PROVE  q = r
  BY <1>1, OthersStay
<1>2. CASE Handle(r) \/ Lose(r)
  BY <1>2
     DEF TypeOK, Handle, Start, ReadForStart, WriteStart, Stop, ReadForStop, WriteStop,
         Change, ReadForChange, WriteUpdate, WriteRemove, Join, AuthenticateJoin, TakeSlot,
         SlotTaken, View, End, AskEnd, LookUpEnd, WriteEnd, FreeSlot, Leave, Disconnect,
         LookUpInterrupted, WriteInterrupted, Lose, Decide, Goto
<1>3. CASE Restart
  BY <1>3 DEF Restart, TypeOK
<1> QED
  BY <1>1, <1>2, <1>3 DEF Next, Connect, control, vars

(* A handler that has decided to write, or was admitted, stays about its
   auction until it acts. *)
LEMMA DecidedStay ==
  ASSUME TypeOK, [Next]_vars, NEW r \in Requests, pc[r] \in {"writing", "admitted"}
  PROVE  subject'[r] = subject[r]
<1>1. ASSUME NEW q \in Requests, Handle(q) \/ Lose(q)
      PROVE  subject'[r] = subject[r]
  BY <1>1, OthersStay
     DEF Is, TypeOK, Handle, Start, ReadForStart, WriteStart, Stop, ReadForStop, WriteStop,
         Change, ReadForChange, WriteUpdate, WriteRemove, Join, AuthenticateJoin, CheckJoin,
         TakeSlot, SlotTaken, View, End, AskEnd, LookUpEnd, WriteEnd, FreeSlot, Leave,
         Disconnect, LookUpInterrupted, WriteInterrupted, Lose, Decide, Goto
<1> QED
  BY <1>1 DEF Next, Connect, Restart, control, vars

(* Who decides to write an auction, or its stream, has read that it is its own. *)
LEMMA OwnersWrite ==
  ASSUME TypeOK, [Next]_vars, NEW r \in Requests, pc'[r] = "writing", pc[r] # "writing"
  PROVE  houseOf[subject[r]] = OfficeOf(r) /\ subject'[r] = subject[r]
<1>1. ASSUME NEW q \in Requests, Handle(q) \/ Lose(q)
      PROVE  q = r
  BY <1>1, OthersStay
<1>2. CASE ReadForStart(r) \/ ReadForStop(r) \/ ReadForChange(r)
  BY <1>2 DEF ReadForStart, ReadForStop, ReadForChange, Is, OfficeOf, Decide, Goto, TypeOK
<1>3. CASE LookUpEnd(r) \/ LookUpInterrupted(r)
  BY <1>3 DEF LookUpEnd, LookUpInterrupted, LiveOfHouse, Is, OfficeOf, Decide, Goto, TypeOK
<1>4. CASE (Handle(r) \/ Lose(r)) /\ ~ ReadForStart(r) /\ ~ ReadForStop(r)
           /\ ~ ReadForChange(r) /\ ~ LookUpEnd(r) /\ ~ LookUpInterrupted(r)
  BY <1>4
     DEF TypeOK, Handle, Start, WriteStart, Stop, WriteStop, Change, WriteUpdate, WriteRemove,
         Join, AuthenticateJoin, CheckJoin, TakeSlot, SlotTaken, View, End, AskEnd, WriteEnd,
         FreeSlot, Leave, Disconnect, WriteInterrupted, Lose, Decide, Goto
<1>5. CASE Restart
  BY <1>5 DEF Restart, TypeOK
<1> QED
  BY <1>1, <1>2, <1>3, <1>4, <1>5 DEF Next, Connect, control, vars

(* Every step keeps the sockets of slots connected. *)
LEMMA ConnectedStay ==
  ASSUME TypeOK, SlotsAreConnected, [Next]_vars
  PROVE  SlotsAreConnected'
<1>1. UNCHANGED call /\ \A s \in Sockets : line[s] # "new" => line'[s] # "new"
  BY StepFrame
<1>2. ASSUME NEW a \in Auctions, broadcaster'[a] # None
      PROVE  line'[broadcaster'[a]] # "new"
  <2>1. CASE broadcaster'[a] = broadcaster[a]
    BY <1>1, <1>2, <2>1 DEF SlotsAreConnected, TypeOK
  <2>2. ASSUME NEW r \in Requests, TakeSlot(r)
        PROVE  broadcaster'[a] # broadcaster[a] => broadcaster'[a] = call[r].socket
    BY <2>2 DEF TakeSlot, TypeOK
  <2>3. ASSUME NEW r \in Requests, TakeSlot(r)
        PROVE  call[r].socket \in Sockets /\ line[call[r].socket] # "new"
    BY <2>3, CallType DEF TakeSlot, Is, SlotsAreConnected
  <2> QED
    BY <1>1, <1>2, <2>1, <2>2, <2>3, OnlyJoinsTake
<1>3. ASSUME NEW r \in Requests, call'[r].kind = "join", pc'[r] \in {"authenticated", "admitted"}
      PROVE  line'[call'[r].socket] # "new"
  <2>1. call[r].kind = "join" /\ call[r].socket \in Sockets
    BY <1>1, <1>3, CallType
  <2>2. CASE pc[r] \in {"authenticated", "admitted"}
    BY <1>1, <2>1, <2>2 DEF SlotsAreConnected
  <2>3. CASE pc'[r] = "admitted" /\ pc[r] # "admitted"
    BY <2>2, <2>3, OnlyChecksAdmit DEF CheckJoin, Is
  <2>4. CASE pc'[r] = "authenticated" /\ pc[r] # "authenticated"
    <3>1. ASSUME NEW q \in Requests, Handle(q) \/ Lose(q)
          PROVE  q = r
      BY <2>4, <3>1, OthersStay
    <3>2. CASE AuthenticateJoin(r)
      BY <1>1, <2>1, <3>2 DEF AuthenticateJoin
    <3>3. CASE (Handle(r) \/ Lose(r)) /\ ~ AuthenticateJoin(r)
      BY <2>1, <2>4, <3>3
         DEF TypeOK, Handle, Start, ReadForStart, WriteStart, Stop, ReadForStop, WriteStop,
             Change, ReadForChange, WriteUpdate, WriteRemove, Join, CheckJoin, TakeSlot,
             SlotTaken, View, End, AskEnd, LookUpEnd, WriteEnd, FreeSlot, Leave, Disconnect,
             LookUpInterrupted, WriteInterrupted, Lose, Decide, Goto
    <3>4. CASE Restart
      BY <2>4, <3>4 DEF Restart, TypeOK
    <3> QED
      BY <2>4, <3>1, <3>2, <3>3, <3>4 DEF Next, Connect, control, vars
  <2> QED
    BY <1>3, <2>2, <2>3, <2>4
<1> QED
  BY <1>2, <1>3 DEF SlotsAreConnected

(* A slot is never held by a socket that did not connect. *)
LEMMA SlotsConnected == Spec => []SlotsAreConnected
<1>1. Init => SlotsAreConnected
  BY DEF Init, SlotsAreConnected
<1>2. TypeOK /\ SlotsAreConnected /\ [Next]_vars => SlotsAreConnected'
  BY ConnectedStay
<1> QED
  BY <1>1, <1>2, TypeCorrect, PTL DEF Spec

(* Transfers, deletions and stops settle: assertOwner, assertAuctionHouseOwner
   and assertBroadcasterCanJoin turn away an office without the auction, and
   what they let through before is all that such an office can still do. *)
THEOREM TransfersSettle == Spec => OfficesSettle
<1>1. ASSUME TypeOK, [Next]_vars, NEW a \in Auctions, NEW h \in Houses \cup {User},
             houseOf[a] # h, Decided(a, h, "writing") = {}
      PROVE  Decided(a, h, "writing")' = {}
  <2> SUFFICES ASSUME NEW r \in Requests, pc'[r] = "writing", subject'[r] = a, OfficeOf(r)' = h
               PROVE  FALSE
    BY DEF Decided
  <2>1. OfficeOf(r) = h
    BY <1>1, StepFrame DEF OfficeOf
  <2>2. CASE pc[r] = "writing"
    BY <1>1, <2>1, <2>2, DecidedStay DEF Decided
  <2>3. CASE pc[r] # "writing"
    BY <1>1, <2>1, <2>3, OwnersWrite
  <2> QED
    BY <2>2, <2>3
<1>2. ASSUME TypeOK, [Next]_vars, NEW a \in Auctions, NEW h \in Houses \cup {User},
             houseOf[a] # h \/ streamStatus[a] # "LIVE", Decided(a, h, "admitted") = {}
      PROVE  Decided(a, h, "admitted")' = {}
  <2> SUFFICES ASSUME NEW r \in Requests, pc'[r] = "admitted", subject'[r] = a, OfficeOf(r)' = h
               PROVE  FALSE
    BY DEF Decided
  <2>1. OfficeOf(r) = h
    BY <1>2, StepFrame DEF OfficeOf
  <2>2. CASE pc[r] = "admitted"
    BY <1>2, <2>1, <2>2, DecidedStay DEF Decided
  <2>3. CASE pc[r] # "admitted"
    <3>1. CheckJoin(r)
      BY <1>2, <2>3, OnlyChecksAdmit
    <3>2. houseOf[a] = h /\ streamStatus[a] = "LIVE"
      BY <1>2, <2>1, <3>1 DEF CheckJoin, Is, BroadcasterCanJoin, OfficeOf, Decide, Goto, TypeOK
    <3> QED
      BY <1>2, <3>2
  <2> QED
    BY <2>2, <2>3
<1>3. ASSUME TypeOK, [Next]_vars, NEW a \in Auctions, NEW s \in Sockets,
             Decided(a, ActorOf[s], "admitted") = {}, broadcaster'[a] = s
      PROVE  broadcaster[a] = s
  <2>1. ASSUME NEW r \in Requests, TakeSlot(r)
        PROVE  broadcaster'[a] = broadcaster[a]
    <3>1. subject[r] # a \/ call[r].socket # s
      BY <1>3, <2>1 DEF Decided, TakeSlot, Is, OfficeOf
    <3> QED
      BY <1>3, <2>1, <3>1 DEF TakeSlot, TypeOK
  <2>2. s # None
    BY StreamAssumption
  <2> QED
    BY <1>3, <2>1, <2>2, OnlyJoinsTake
<1>4. TypeOK /\ [Next]_vars =>
        [\A a \in Auctions, h \in Houses \cup {User} :
           /\ houseOf[a] # h /\ Decided(a, h, "writing") = {} =>
                Decided(a, h, "writing")' = {}
           /\ (houseOf[a] # h \/ streamStatus[a] # "LIVE") /\ Decided(a, h, "admitted") = {} =>
                /\ Decided(a, h, "admitted")' = {}
                /\ \A s \in Sockets : ActorOf[s] = h /\ broadcaster'[a] = s =>
                     broadcaster[a] = s]_vars
  BY <1>1, <1>2, <1>3
<1> QED
  BY <1>4, TypeCorrect, PTL DEF Spec, OfficesSettle

(* No join, disconnect or end of somebody else takes the slot away from a
   broadcaster (SlotTaken, and the comparison of clearBroadcaster). *)
THEOREM SlotsChangeHands == Spec => SlotChangesHands
<1>1. ASSUME TypeOK, SlotsAreConnected, [Next]_vars, NEW a \in Auctions, NEW s \in Sockets,
             broadcaster[a] = s, broadcaster'[a] # s
      PROVE  /\ broadcaster'[a] = None
             /\ \/ line'[s] = "closed"
                \/ \E r \in Requests : /\ Is(r, "ended", "clearing") /\ pc'[r] = "done"
                                       /\ call[r].socket = s /\ subject[r] = a
  <2>1. CASE Restart
    BY <1>1, <2>1 DEF Restart, SlotsAreConnected, TypeOK
  <2>2. ASSUME NEW r \in Requests, TakeSlot(r)
        PROVE  FALSE
    BY <1>1, <2>2, StreamAssumption DEF TakeSlot, SlotFree, TypeOK
  <2>3. ASSUME NEW r \in Requests, FreeSlot(r)
        PROVE  /\ broadcaster'[a] = None /\ pc'[r] = "done"
               /\ Is(r, "ended", "clearing") /\ call[r].socket = s /\ subject[r] = a
    BY <1>1, <2>3 DEF FreeSlot, ClearBroadcaster, Goto, TypeOK
  <2>4. ASSUME NEW r \in Requests, Disconnect(r)
        PROVE  broadcaster'[a] = None /\ line'[s] = "closed"
    BY <1>1, <2>4 DEF Disconnect, ClearBroadcaster, TypeOK
  <2> QED
    BY <1>1, <2>1, <2>2, <2>3, <2>4
       DEF Next, Handle, Start, ReadForStart, WriteStart, Stop, ReadForStop, WriteStop,
           Change, ReadForChange, WriteUpdate, WriteRemove, Join, AuthenticateJoin,
           CheckJoin, SlotTaken, View, End, AskEnd, LookUpEnd, WriteEnd, Leave,
           LookUpInterrupted, WriteInterrupted, Lose, Decide, Connect, vars
<1>2. TypeOK /\ SlotsAreConnected /\ [Next]_vars =>
        [\A a \in Auctions : \A s \in Sockets :
           broadcaster[a] = s /\ broadcaster'[a] # s =>
             /\ broadcaster'[a] = None
             /\ \/ line'[s] = "closed"
                \/ \E r \in Requests : /\ Is(r, "ended", "clearing") /\ pc'[r] = "done"
                                       /\ call[r].socket = s /\ subject[r] = a]_vars
  BY <1>1
<1> QED
  BY <1>2, TypeCorrect, SlotsConnected, PTL DEF Spec, SlotChangesHands

(* What stopStream and stream:ended wrote lasts, but for the starts and the
   interruptions that had read the stream before. *)
THEOREM EndsSettle == Spec => EndedOnceSettled
<1>1. ASSUME TypeOK, [Next]_vars, NEW a \in Auctions, streamStatus[a] = "ENDED", Pending(a) = {}
      PROVE  /\ streamStatus'[a] = "ENDED" \/ houseOf'[a] = None
             /\ Pending(a)' = {}
  <2> USE DEF Is
  <2>1. \A r \in Requests :
          ~ (call[r].kind \in {"start", "disconnect"} /\ pc[r] = "writing" /\ subject[r] = a)
    BY <1>1 DEF Pending
  <2>2. streamStatus'[a] = "ENDED" \/ houseOf'[a] = None
    BY <1>1, <2>1
       DEF TypeOK, Next, Handle, Start, ReadForStart, WriteStart, Stop, ReadForStop,
           WriteStop, Change, ReadForChange, WriteUpdate, WriteRemove, Join,
           AuthenticateJoin, CheckJoin, TakeSlot, SlotTaken, View, End, AskEnd, LookUpEnd,
           WriteEnd, FreeSlot, Leave, Disconnect, LookUpInterrupted, WriteInterrupted,
           Lose, Decide, WriteStream, Connect, Restart, vars, streams
  <2>3. ASSUME NEW r \in Requests, call'[r].kind \in {"start", "disconnect"},
               pc'[r] = "writing", subject'[r] = a
        PROVE  FALSE
    <3>1. ASSUME UNCHANGED <<call, pc, subject>>
          PROVE  FALSE
      BY <2>1, <2>3, <3>1
    <3>2. CASE Restart
      BY <1>1, <2>1, <2>3, <3>2 DEF Restart, TypeOK
    <3>3. ASSUME NEW q \in Requests, Handle(q) \/ Lose(q)
          PROVE  /\ UNCHANGED call
                 /\ q # r => UNCHANGED <<pc[r], subject[r]>>
      BY <1>1, <3>3, StepFrame, OthersStay
    <3>4. CASE Handle(r) \/ Lose(r)
      <4>1. call[r].kind \in {"start", "disconnect"}
        BY <2>3, <3>3, <3>4
      <4>2. CASE ReadForStart(r)
        BY <1>1, <2>3, <4>2 DEF ReadForStart, Startable, Decide, Goto, TypeOK
      <4>3. CASE LookUpInterrupted(r)
        BY <1>1, <2>3, <4>3 DEF LookUpInterrupted, LiveOfHouse, Decide, Goto, TypeOK
      <4> QED
        BY <1>1, <2>3, <3>4, <4>1, <4>2, <4>3
           DEF Handle, Start, WriteStart, Stop, ReadForStop, WriteStop, Change,
               ReadForChange, WriteUpdate, WriteRemove, Join, AuthenticateJoin, CheckJoin,
               TakeSlot, SlotTaken, View, End, AskEnd, LookUpEnd, WriteEnd, FreeSlot,
               Leave, Disconnect, WriteInterrupted, Lose, Decide, Goto, TypeOK
    <3> QED
      BY <1>1, <2>1, <2>3, <3>1, <3>2, <3>3, <3>4 DEF Next, Connect, control, vars
  <2> QED
    BY <2>2, <2>3 DEF Pending
<1>2. TypeOK /\ [Next]_vars =>
        [\A a \in Auctions : streamStatus[a] = "ENDED" /\ Pending(a) = {} =>
           /\ streamStatus'[a] = "ENDED" \/ houseOf'[a] = None
           /\ Pending(a)' = {}]_vars
  BY <1>1
<1> QED
  BY <1>2, TypeCorrect, PTL DEF Spec, EndedOnceSettled
=============================================================================
