-------------------------- MODULE StreamBroadcast --------------------------
(***************************************************************************)
(* Live streams: StreamsService and StreamsController (start, stop) over   *)
(* the database, StreamsGateway over the sockets, and what AuctionsService *)
(* does meanwhile to the auctions: update may hand one to another office,  *)
(* remove deletes one together with its stream.  The gateway keeps the     *)
(* broadcaster of each auction in the memory of the process; the streams   *)
(* are rows.  Each request in Requests carries one call and is handled     *)
(* once; a handler gives way at every await, and what it decided before is *)
(* written after.  The offers, answers and candidates that the gateway     *)
(* relays, and the events it emits, leave no state and are left out.       *)
(***************************************************************************)
CONSTANTS
  Auctions, Houses,
  User,                        \* any account that is no office
  Sockets, ActorOf,            \* ActorOf[s]: whose token socket s carries
  None,                        \* no broadcaster, no auction, no office, no field
  Requests, Calls

ASSUME StreamAssumption ==
  /\ User \notin Houses
  /\ ActorOf \in [Sockets -> Houses \cup {User}]
  /\ None \notin Sockets \cup Auctions \cup Houses \cup {User}

AuctionStatus == {"DRAFT", "SCHEDULED", "LIVE", "FINISHED", "CANCELED"}

\* "NONE": the auction has no stream row.
StreamStatus == {"NONE", "LIVE", "ENDED", "ERROR"}

HttpCall == [kind : {"start", "stop", "remove"}, auction : Auctions,
             actor : Houses \cup {User}]

\* None: the body has no such field.
UpdateCall == [kind : {"update"}, auction : Auctions, actor : Houses \cup {User},
               status : AuctionStatus \cup {None}, to : Houses \cup {None}]

SocketCall == [kind : {"join", "view", "ended", "disconnect"}, auction : Auctions,
               socket : Sockets]

ASSUME StreamCallAssumption == Calls \subseteq HttpCall \cup UpdateCall \cup SocketCall

VARIABLES
  auctionStatus, streamStatus,   \* the rows of each auction
  houseOf,                       \* its office, or None once the auction is deleted
  broadcaster,                   \* broadcasters: the socket that holds each auction's slot
  line,                          \* each socket: not yet connected, open or closed
  role, about,                   \* client.data: the role, and the auction, of each socket
  call, pc,                      \* the call each request carries, and where its handler is
  subject                        \* the auction its handler is about

streams == <<auctionStatus, streamStatus, houseOf>>
data == <<role, about>>
control == <<call, pc, subject>>
vars == <<auctionStatus, streamStatus, houseOf, broadcaster, line, role, about, call, pc, subject>>

Underway == {"authenticated", "admitted", "looking", "writing", "clearing"}
Phase == {"ready", "done", "rejected", "lost"} \cup Underway

TypeOK ==
  /\ auctionStatus \in [Auctions -> AuctionStatus]
  /\ streamStatus \in [Auctions -> StreamStatus]
  /\ houseOf \in [Auctions -> Houses \cup {None}]
  /\ broadcaster \in [Auctions -> Sockets \cup {None}]
  /\ line \in [Sockets -> {"new", "open", "closed"}]
  /\ role \in [Sockets -> {"none", "broadcaster", "viewer"}]
  /\ about \in [Sockets -> Auctions \cup {None}]
  /\ call \in [Requests -> Calls]
  /\ pc \in [Requests -> Phase]
  /\ subject \in [Requests -> Auctions]

-----------------------------------------------------------------------------
Is(r, kind, phase) == call[r].kind = kind /\ pc[r] = phase

Goto(r, phase) == pc' = [pc EXCEPT ![r] = phase] /\ UNCHANGED <<call, subject>>

\* A step that only decides where its handler goes on.
Decide(r, phase) == Goto(r, phase) /\ UNCHANGED <<streams, broadcaster, line, data>>

Exists(a) == houseOf[a] # None

\* Every update is by the auction's id, and fails when the auction is gone.
WriteStream(a, status) ==
  /\ Exists(a)
  /\ streamStatus' = [streamStatus EXCEPT ![a] = status]

ClearBroadcaster(a, s) ==
  broadcaster' = [broadcaster EXCEPT ![a] = IF @ = s THEN None ELSE @]

-----------------------------------------------------------------------------
(* StreamsService.startStream *)

\* Mutant: a stream its office ended can be started again.
StartableAgain(a) == auctionStatus[a] \in {"SCHEDULED", "LIVE"}

Startable(a) ==
  /\ auctionStatus[a] \in {"SCHEDULED", "LIVE"}
  /\ streamStatus[a] # "ENDED"

ReadForStart(r) ==
  /\ Is(r, "start", "ready")
  /\ Decide(r, IF call[r].actor = houseOf[subject[r]] /\ Startable(subject[r])
               THEN "writing" ELSE "rejected")

\* One transaction, without a condition on what was read.
WriteStart(r) ==
  /\ Is(r, "start", "writing")
  /\ auctionStatus' = [auctionStatus EXCEPT ![subject[r]] = "LIVE"]
  /\ WriteStream(subject[r], "LIVE")
  /\ Goto(r, "done")
  /\ UNCHANGED <<houseOf, broadcaster, line, data>>

Start(r) == ReadForStart(r) \/ WriteStart(r)

-----------------------------------------------------------------------------
(* StreamsService.stopStream: the slot of the gateway is left as it is *)
ReadForStop(r) ==
  /\ Is(r, "stop", "ready")
  /\ Decide(r, IF call[r].actor = houseOf[subject[r]] THEN "writing" ELSE "rejected")

WriteStop(r) ==
  /\ Is(r, "stop", "writing")
  /\ WriteStream(subject[r], "ENDED")
  /\ Goto(r, "done")
  /\ UNCHANGED <<auctionStatus, houseOf, broadcaster, line, data>>

Stop(r) == ReadForStop(r) \/ WriteStop(r)

-----------------------------------------------------------------------------
(* AuctionsService.update and remove, as far as streams depend on them *)

\* assertAuctionHouseOwner
ReadForChange(r) ==
  /\ call[r].kind \in {"update", "remove"}
  /\ pc[r] = "ready"
  /\ Decide(r, IF call[r].actor = houseOf[subject[r]] THEN "writing" ELSE "rejected")

Given(value, old) == IF value = None THEN old ELSE value

\* The auction may be another office's meanwhile: its id is all that is asked.
WriteUpdate(r) ==
  /\ Is(r, "update", "writing")
  /\ Exists(subject[r])
  /\ auctionStatus' = [auctionStatus EXCEPT ![subject[r]] = Given(call[r].status, @)]
  /\ houseOf' = [houseOf EXCEPT ![subject[r]] = Given(call[r].to, @)]
  /\ Goto(r, "done")
  /\ UNCHANGED <<streamStatus, broadcaster, line, data>>

\* The stream goes with its auction; the gateway is not told.
WriteRemove(r) ==
  /\ Is(r, "remove", "writing")
  /\ WriteStream(subject[r], "NONE")
  /\ houseOf' = [houseOf EXCEPT ![subject[r]] = None]
  /\ Goto(r, "done")
  /\ UNCHANGED <<auctionStatus, broadcaster, line, data>>

Change(r) == ReadForChange(r) \/ WriteUpdate(r) \/ WriteRemove(r)

-----------------------------------------------------------------------------
(* stream:broadcaster-join *)
AuthenticateJoin(r) ==
  /\ Is(r, "join", "ready")
  /\ line[call[r].socket] = "open"
  /\ Decide(r, IF ActorOf[call[r].socket] \in Houses THEN "authenticated" ELSE "rejected")

\* Mutant: any office may broadcast.
AnyCanJoin(a, s) == streamStatus[a] = "LIVE"

BroadcasterCanJoin(a, s) == houseOf[a] = ActorOf[s] /\ streamStatus[a] = "LIVE"

CheckJoin(r) ==
  /\ Is(r, "join", "authenticated")
  /\ Decide(r, IF BroadcasterCanJoin(subject[r], call[r].socket) THEN "admitted" ELSE "rejected")

\* Mutant: the slot was free when the join was checked, and is taken now.
SlotWasFree(a, s) == TRUE

SlotFree(a, s) == broadcaster[a] \in {None, s}

\* The socket may have gone meanwhile: nobody asks.
TakeSlot(r) ==
  /\ Is(r, "join", "admitted")
  /\ LET a == subject[r]
         s == call[r].socket
     IN  /\ SlotFree(a, s)
         /\ broadcaster' = [broadcaster EXCEPT ![a] = s]
         /\ role' = [role EXCEPT ![s] = "broadcaster"]
         /\ about' = [about EXCEPT ![s] = a]
  /\ Goto(r, "done")
  /\ UNCHANGED <<streams, line>>

SlotTaken(r) ==
  /\ Is(r, "join", "admitted")
  /\ ~ SlotFree(subject[r], call[r].socket)
  /\ Decide(r, "rejected")

Join(r) == AuthenticateJoin(r) \/ CheckJoin(r) \/ TakeSlot(r) \/ SlotTaken(r)

-----------------------------------------------------------------------------
(* stream:viewer-join: a broadcaster that joins as a viewer loses its role,
   and keeps its slot *)
View(r) ==
  /\ Is(r, "view", "ready")
  /\ LET s == call[r].socket
     IN  /\ line[s] = "open"
         /\ role' = [role EXCEPT ![s] = "viewer"]
         /\ about' = [about EXCEPT ![s] = subject[r]]
  /\ Goto(r, "done")
  /\ UNCHANGED <<streams, broadcaster, line>>

-----------------------------------------------------------------------------
(* stream:ended *)
IsBroadcaster(s, a) == role[s] = "broadcaster" /\ about[s] = a /\ broadcaster[a] = s

AskEnd(r) ==
  /\ Is(r, "ended", "ready")
  /\ line[call[r].socket] = "open"
  /\ Decide(r, IF IsBroadcaster(call[r].socket, subject[r]) THEN "looking" ELSE "rejected")

\* The office of socketData is that of the token, set with the role.
LiveOfHouse(a, s) == houseOf[a] = ActorOf[s] /\ streamStatus[a] = "LIVE"

\* Without the auction this throws, and the slot stays: see Lose.
LookUpEnd(r) ==
  /\ Is(r, "ended", "looking")
  /\ Exists(subject[r])
  /\ Decide(r, IF LiveOfHouse(subject[r], call[r].socket) THEN "writing" ELSE "clearing")

WriteEnd(r) ==
  /\ Is(r, "ended", "writing")
  /\ WriteStream(subject[r], "ENDED")
  /\ Goto(r, "clearing")
  /\ UNCHANGED <<auctionStatus, houseOf, broadcaster, line, data>>

FreeSlot(r) ==
  /\ Is(r, "ended", "clearing")
  /\ ClearBroadcaster(subject[r], call[r].socket)
  /\ Goto(r, "done")
  /\ UNCHANGED <<streams, line, data>>

End(r) == AskEnd(r) \/ LookUpEnd(r) \/ WriteEnd(r) \/ FreeSlot(r)

-----------------------------------------------------------------------------
(* handleDisconnect: about the auction the socket was last about *)

\* Mutant: a socket that is about no auction interrupts, too.
MayInterruptAny(s) == TRUE

MayInterrupt(s) == role[s] = "broadcaster"

Disconnect(r) ==
  /\ Is(r, "disconnect", "ready")
  /\ LET s == call[r].socket
     IN  /\ line[s] = "open"
         /\ line' = [line EXCEPT ![s] = "closed"]
         /\ IF MayInterrupt(s)
            THEN /\ ClearBroadcaster(about[s], s)
                 /\ subject' = [subject EXCEPT ![r] = about[s]]
                 /\ pc' = [pc EXCEPT ![r] = "looking"]
            ELSE /\ pc' = [pc EXCEPT ![r] = "done"]
                 /\ UNCHANGED <<broadcaster, subject>>
  /\ UNCHANGED <<streams, data, call>>

LookUpInterrupted(r) ==
  /\ Is(r, "disconnect", "looking")
  /\ Decide(r, IF LiveOfHouse(subject[r], call[r].socket) THEN "writing" ELSE "done")

WriteInterrupted(r) ==
  /\ Is(r, "disconnect", "writing")
  /\ WriteStream(subject[r], "ERROR")
  /\ Goto(r, "done")
  /\ UNCHANGED <<auctionStatus, houseOf, broadcaster, line, data>>

Leave(r) == Disconnect(r) \/ LookUpInterrupted(r) \/ WriteInterrupted(r)

-----------------------------------------------------------------------------
Connect(s) ==
  /\ line[s] = "new"
  /\ line' = [line EXCEPT ![s] = "open"]
  /\ UNCHANGED <<streams, broadcaster, data, control>>

\* A query fails, as one by the id of a deleted auction must: nothing the handler
\* did is undone, and nothing more is done.
Lose(r) ==
  /\ pc[r] \in Underway \ {"clearing"}
  /\ Decide(r, "lost")

\* The process starts again: sockets and slots are gone with its memory.
Restart ==
  /\ broadcaster' = [a \in Auctions |-> None]
  /\ line' = [s \in Sockets |-> IF line[s] = "open" THEN "closed" ELSE line[s]]
  /\ pc' = [r \in Requests |-> IF pc[r] \in Underway THEN "lost" ELSE pc[r]]
  /\ UNCHANGED <<streams, data, call, subject>>

\* The process has just started, over any rows.
Init ==
  /\ auctionStatus \in [Auctions -> AuctionStatus]
  /\ streamStatus \in [Auctions -> StreamStatus]
  /\ houseOf \in [Auctions -> Houses]
  /\ broadcaster = [a \in Auctions |-> None]
  /\ line = [s \in Sockets |-> "new"]
  /\ role = [s \in Sockets |-> "none"]
  /\ about = [s \in Sockets |-> None]
  /\ call \in [Requests -> Calls]
  /\ pc = [r \in Requests |-> "ready"]
  /\ subject = [r \in Requests |-> call[r].auction]

Handle(r) == \/ Start(r) \/ Stop(r) \/ Change(r)
             \/ Join(r) \/ View(r) \/ End(r) \/ Leave(r)

Next == \/ \E r \in Requests : Handle(r) \/ Lose(r)
        \/ \E s \in Sockets : Connect(s)
        \/ Restart

Spec == Init /\ [][Next]_vars

-----------------------------------------------------------------------------
(* Safety *)

\* The auction a leaving broadcaster interrupts.
RolesAreAbout == \A s \in Sockets : role[s] = "broadcaster" => about[s] \in Auctions

\* Who makes the call.
OfficeOf(r) == IF call[r].kind \in {"start", "stop", "update", "remove"}
               THEN call[r].actor ELSE ActorOf[call[r].socket]

\* The handlers of office h that have decided about a, and act next.
Decided(a, h, phase) == {r \in Requests : /\ pc[r] = phase
                                         /\ subject[r] = a
                                         /\ OfficeOf(r) = h}

(* Handing over or deleting an auction, or stopping its stream, settles: once
   the handlers that had read the rows before are through, an office the
   auction does not belong to writes neither the auction nor its stream, and
   no socket takes the slot but one of the auction's office, while the stream
   is LIVE.  What the property does not say is that the slot follows the
   auction: the broadcaster of the previous office stays in it, and the next
   office finds it taken. *)
OfficesSettle == [][\A a \in Auctions, h \in Houses \cup {User} :
  /\ houseOf[a] # h /\ Decided(a, h, "writing") = {} =>
       Decided(a, h, "writing")' = {}
  /\ (houseOf[a] # h \/ streamStatus[a] # "LIVE") /\ Decided(a, h, "admitted") = {} =>
       /\ Decided(a, h, "admitted")' = {}
       /\ \A s \in Sockets : ActorOf[s] = h /\ broadcaster'[a] = s => broadcaster[a] = s]_vars

(* A broadcaster is never thrown out of its slot: it loses it by leaving, by
   ending its own broadcast or with the process, and the next one finds the
   slot empty, whatever joins and disconnects are under way. *)
SlotChangesHands == [][\A a \in Auctions : \A s \in Sockets :
  broadcaster[a] = s /\ broadcaster'[a] # s =>
    /\ broadcaster'[a] = None
    /\ \/ line'[s] = "closed"
       \/ \E r \in Requests : /\ Is(r, "ended", "clearing") /\ pc'[r] = "done"
                              /\ call[r].socket = s /\ subject[r] = a]_vars

\* A start or an interruption of a that has decided to write.
Pending(a) == {r \in Requests : /\ call[r].kind \in {"start", "disconnect"}
                                /\ pc[r] = "writing"
                                /\ subject[r] = a}

(* Once a stream is ENDED and every start or interruption that had read it
   before has settled, it is ended for good, or until its auction is deleted:
   later starts are refused, those of another office included, and later
   disconnects leave it alone. *)
EndedOnceSettled == [][\A a \in Auctions :
  streamStatus[a] = "ENDED" /\ Pending(a) = {} =>
    /\ streamStatus'[a] = "ENDED" \/ houseOf'[a] = None
    /\ Pending(a)' = {}]_vars

-----------------------------------------------------------------------------
(* What comments and tests say and the code does not keep *)

(* streams.service.spec.ts:205: a stream its office ended is not resumed. *)
EndedIsFinal == [][\A a \in Auctions :
  streamStatus[a] = "ENDED" => streamStatus'[a] \in {"ENDED", "NONE"}]_vars

(* streams.service.ts:59-61: when a refresh has killed the broadcaster, its
   office may resume instead of being locked out. *)
GoneBlockNobody == [][\A r \in Requests :
  Is(r, "join", "admitted") /\ pc'[r] = "rejected" =>
    line[broadcaster[subject[r]]] = "open"]_vars
=============================================================================
