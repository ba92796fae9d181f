---------------------------- MODULE GestureRelay ----------------------------
(***************************************************************************)
(* Gesture snapshots (GestureEventsService.relay with GestureEventPolicy), *)
(* on top of the rooms they are emitted to.  An office uploads a snapshot; *)
(* the handler takes the time when it begins, looks the auction up, and    *)
(* when the answer comes does all the rest in one turn of the event loop:  *)
(* ownership, status, capture time, the table of seen events, the rate of  *)
(* the auction, the emission.  The time it took is old by then, and other  *)
(* handlers may have gone by with a newer one.                             *)
(*                                                                         *)
(* The policy lives in memory.  Both of its maps hold what relays left     *)
(* there, so both are kept as sets of relays; nth is the insertion order   *)
(* of the map, and an event expires IdTtl after the stamp of its relay.    *)
(***************************************************************************)
EXTENDS CommerceRooms

CONSTANTS
  Uploads, UploadCalls,  \* the uploads, and what they may carry
  Events,                \* eventIds
  RateWindow, IdTtl,     \* GESTURE_EVENT_RATE_WINDOW_MS, GESTURE_EVENT_ID_TTL_MS
  IdLimit,               \* GESTURE_EVENT_ID_LIMIT, 512 in the code
  CaptureSkew,           \* GESTURE_EVENT_CAPTURE_SKEW_MS
  MaxTime                \* bound of the clock

Time == 0..MaxTime

UploadCall == [event : Events, capturedAt : Time, auction : Auctions, office : Offices]

ASSUME GestureAssumption ==
  /\ UploadCalls \subseteq UploadCall
  /\ RateWindow \in Nat \ {0}
  /\ IdTtl \in Nat \ {0}
  /\ IdLimit \in Nat \ {0}
  /\ CaptureSkew \in Nat
  /\ MaxTime \in Nat

VARIABLES
  upload, step,  \* the call of each upload, and where its handler is
  stamp,         \* the time its handler took when it began
  allowed,       \* whether the auction it found was the office's, and not closed
  relays,        \* snapshots emitted since the process started
  seen,          \* acceptedEventIds
  latest,        \* lastAcceptedByAuction
  now

policy == <<relays, seen, latest>>
gestureVars == <<upload, step, stamp, allowed, policy, now>>
vars == <<roomVars, gestureVars>>

Relay == [event : Events, auction : Auctions, stamp : Time, at : Time,
          nth : Nat, heard : SUBSET Sockets]

InHandler == {"arrived", "answered"}

GestureTypeOK ==
  /\ upload \in [Uploads -> UploadCalls]
  /\ step \in [Uploads -> {"ready", "done", "rejected"} \cup InHandler]
  /\ stamp \in [Uploads -> Time]
  /\ allowed \in [Uploads -> BOOLEAN]
  /\ relays \subseteq Relay
  /\ seen \subseteq relays
  /\ latest \subseteq relays
  /\ now \in Time

-----------------------------------------------------------------------------
(* GestureEventPolicy *)

Distance(t, u) == IF t < u THEN u - t ELSE t - u

\* validate; the rest of it looks at the upload alone.
InTime(t, capturedAt) == Distance(t, capturedAt) <= CaptureSkew

\* Mutant: events are forgotten with the rate window.
SeenInWindow(t) == {e \in seen : e.stamp + RateWindow > t}

\* prune, at time t: what is left of each map.
SeenAt(t) == {e \in seen : e.stamp + IdTtl > t}

\* Mutant: an auction is forgotten one tick early.
LatestEarly(t) == {e \in latest : e.stamp + RateWindow > t + 1}

LatestAt(t) == {e \in latest : e.stamp + RateWindow > t}

Repeated(event, t) == \E e \in SeenAt(t) : e.event = event

TooSoon(auction, t) == \E e \in LatestAt(t) :
  e.auction = auction /\ t - e.stamp < RateWindow

\* Room for one more: the oldest insertions go.
Newer(S, e) == {f \in S : f.nth > e.nth}

Evicted(S) == {e \in S : Cardinality(Newer(S, e)) < IdLimit - 1}

\* emitGestureFirstHandDetected: who is in the room and connected.
Audience(auction) == {s \in Sockets : line[s] = "open" /\ In(s, "operators", auction)}

\* The handler answers; what it had read ends with it.
FinishUpload(u, phase) ==
  /\ step' = [step EXCEPT ![u] = phase]
  /\ stamp' = [stamp EXCEPT ![u] = 0]
  /\ allowed' = [allowed EXCEPT ![u] = FALSE]

\* reserve, then the emission; prune has happened even when reserve refuses.
Reserve(u) ==
  LET t == stamp[u]
      event == upload[u].event
      auction == upload[u].auction
      relay == [event |-> event, auction |-> auction, stamp |-> t, at |-> now,
                nth |-> Cardinality(relays), heard |-> Audience(auction)]
  IN  IF Repeated(event, t) \/ TooSoon(auction, t)
      THEN /\ seen' = SeenAt(t)
           /\ latest' = LatestAt(t)
           /\ UNCHANGED relays
           /\ FinishUpload(u, "rejected")
      ELSE /\ seen' = Evicted(SeenAt(t)) \cup {relay}
           /\ latest' = {e \in LatestAt(t) : e.auction # auction} \cup {relay}
           /\ relays' = relays \cup {relay}
           /\ FinishUpload(u, "done")

-----------------------------------------------------------------------------
(* GestureEventsService.relay *)

Arrive(u) ==
  /\ step[u] = "ready"
  /\ step' = [step EXCEPT ![u] = "arrived"]
  /\ stamp' = [stamp EXCEPT ![u] = now]
  /\ UNCHANGED <<roomVars, upload, allowed, policy, now>>

\* The auction as the database has it; a deleted one belongs to no office.
LookUp(u) ==
  /\ step[u] = "arrived"
  /\ LET a == upload[u].auction
     IN  allowed' = [allowed EXCEPT ![u] =
           houseOf[a] = upload[u].office /\ a \notin closed]
  /\ step' = [step EXCEPT ![u] = "answered"]
  /\ UNCHANGED <<roomVars, upload, stamp, policy, now>>

Refused(u) == ~ allowed[u] \/ ~ InTime(stamp[u], upload[u].capturedAt)

Refuse(u) ==
  /\ step[u] = "answered"
  /\ Refused(u)
  /\ FinishUpload(u, "rejected")
  /\ UNCHANGED <<roomVars, upload, policy, now>>

Emit(u) ==
  /\ step[u] = "answered"
  /\ ~ Refused(u)
  /\ Reserve(u)
  /\ UNCHANGED <<roomVars, upload, now>>

\* The query fails.
LoseUpload(u) ==
  /\ step[u] = "arrived"
  /\ FinishUpload(u, "rejected")
  /\ UNCHANGED <<roomVars, upload, policy, now>>

Gesture(u) == Arrive(u) \/ LookUp(u) \/ Refuse(u) \/ Emit(u) \/ LoseUpload(u)

-----------------------------------------------------------------------------
Tick ==
  /\ now < MaxTime
  /\ now' = now + 1
  /\ UNCHANGED <<roomVars, upload, step, stamp, allowed, policy>>

\* The policy is forgotten with the process, and what it relayed does not count.
Restart ==
  /\ RestartRooms
  /\ step' = [u \in Uploads |-> IF step[u] \in InHandler THEN "rejected" ELSE step[u]]
  /\ stamp' = [u \in Uploads |-> 0]
  /\ allowed' = [u \in Uploads |-> FALSE]
  /\ relays' = {}
  /\ seen' = {}
  /\ latest' = {}
  /\ UNCHANGED <<upload, now>>

Init ==
  /\ RoomsInit
  /\ upload \in [Uploads -> UploadCalls]
  /\ step = [u \in Uploads |-> "ready"]
  /\ stamp = [u \in Uploads |-> 0]
  /\ allowed = [u \in Uploads |-> FALSE]
  /\ relays = {}
  /\ seen = {}
  /\ latest = {}
  /\ now = 0

Next ==
  \/ RoomsStep /\ UNCHANGED gestureVars
  \/ \E u \in Uploads : Gesture(u)
  \/ Tick
  \/ Restart

Spec == Init /\ [][Next]_vars

-----------------------------------------------------------------------------
(* Safety *)

(* A snapshot is heard by operators of its auction and by nobody else,
   whichever sockets joined, left or lost their access before it was emitted. *)
SnapshotsStayInside == \A e \in relays : \A s \in e.heard :
  token[s].kind = "OPERATOR" /\ AuctionOf[token[s].id] = e.auction

\* Types and rooms of both modules, and who has heard what.
RoomsInvariant == RoomsTypeOK /\ GestureTypeOK /\ RoomsAreEarned /\ SnapshotsStayInside

(* Of two relays of one auction, the later is emitted a whole window after the
   time the earlier one took when it began (reserve).  Nothing stronger holds:
   a handler that was slow is emitted later than its stamp, and one that is
   still slow may be let in under an older stamp once another auction's
   handler has pruned the table with a newer one. *)
RelaysSpaced == \A d, e \in relays :
  d.auction = e.auction /\ d.nth < e.nth => e.at >= d.stamp + RateWindow

(* Unless as many other events as the table holds came between, an event is
   emitted again only IdTtl after the time its first handler took.  With
   IdTtl = 2 * CaptureSkew a repeated upload, whose capture time is the same,
   passes only at the last instant both are in time, or by being slow. *)
RepeatsSpaced == \A d, e \in relays :
  d.event = e.event /\ d.nth < e.nth =>
    \/ e.at >= d.stamp + IdTtl
    \/ Cardinality({f \in relays : d.nth < f.nth /\ f.nth < e.nth}) >= IdLimit
=============================================================================
