---------------------------- MODULE AuctionDesk ----------------------------
(***************************************************************************)
(* What an office does at its desk: its auctions and their thumbnails      *)
(* (AuctionsService) and the buyers that register with it, through one of  *)
(* its auctions or directly (AuctionsService, AuctionHousesService), with  *)
(* the buyer profiles those registrations look at (UsersService).          *)
(*                                                                         *)
(* No handler here runs in a transaction: each reads, decides, and then    *)
(* writes by id, over whatever the row has become.  Thumbnails are files   *)
(* beside the database; each upload writes a file of its own name, so a    *)
(* file is named after the request that wrote it.                          *)
(***************************************************************************)
EXTENDS FiniteSets

CONSTANTS
  Auctions, Offices, Buyers,
  NoOffice, Deleted, \* an auction not created yet, and one that is gone
  Requests, Calls,
  Stored, NoFile     \* a thumbnail from before, and none

Statuses == {"PENDING", "APPROVED", "REJECTED", "BLOCKED"}
Decided == {"APPROVED", "BLOCKED"}

\* calls of an office, of a buyer, and of either
CreateCall == [kind : {"create"}, auction : Auctions, office : Offices]
UpdateCall == [kind : {"update"}, auction : Auctions, office : Offices, to : Offices]
DeskCall == [kind : {"remove", "upload", "clear"}, auction : Auctions, office : Offices]
ReviewCall == [kind : {"review"}, auction : Auctions, office : Offices,
               buyer : Buyers, status : Statuses]
ReviewMineCall == [kind : {"reviewMine"}, office : Offices, buyer : Buyers, status : Statuses]
RegisterCall == [kind : {"register"}, auction : Auctions, buyer : Buyers]
RegisterAtCall == [kind : {"registerAt"}, office : Offices, buyer : Buyers]
ProfileCall == [kind : {"profile", "leave"}, buyer : Buyers]

ASSUME DeskAssumption ==
  /\ NoOffice \notin Offices
  /\ Deleted \notin Offices \cup {NoOffice}
  /\ Stored \notin Requests
  /\ NoFile \notin Requests \cup {Stored}
  /\ Calls \subseteq UNION {CreateCall, UpdateCall, DeskCall, ReviewCall, ReviewMineCall,
                            RegisterCall, RegisterAtCall, ProfileCall}

VARIABLES
  owner,         \* the office of each auction, NoOffice or Deleted without a row
  thumbnail,     \* the file named by its thumbnailUrl
  disk,          \* files under public/uploads/auctions
  registration,  \* of each buyer with each office, "none" without a row
  ie,            \* buyers whose profile has an IE and its UF
  users,         \* buyers that have an account
  call, pc,      \* the call each request carries, and where its handler is
  read           \* what it has read

rows == <<owner, thumbnail, registration, ie, users>>
vars == <<rows, disk, call, pc, read>>

Files == Requests \cup {Stored}

Nothing == [file |-> NoFile, office |-> NoOffice, status |-> "none"]

Reading == [file : Files \cup {NoFile}, office : Offices \cup {NoOffice},
            status : Statuses \cup {"none"}]

Underway == {"owned", "written", "updated", "cleaning", "unheard",    \* the desk
             "welcome", "found", "undecided",                         \* a registration
             "admitted", "allowed"}                                   \* a review

TypeOK ==
  /\ owner \in [Auctions -> Offices \cup {NoOffice, Deleted}]
  /\ thumbnail \in [Auctions -> Files \cup {NoFile}]
  /\ disk \subseteq Files
  /\ registration \in [Buyers \X Offices -> Statuses \cup {"none"}]
  /\ ie \subseteq users
  /\ users \subseteq Buyers
  /\ call \in [Requests -> Calls]
  /\ pc \in [Requests -> {"ready", "done", "rejected", "misled"} \cup Underway]
  /\ read \in [Requests -> Reading]

-----------------------------------------------------------------------------
Kind(r) == call[r].kind

Goto(r, phase) ==
  /\ pc' = [pc EXCEPT ![r] = phase]
  /\ UNCHANGED call

\* What it read a handler keeps until it has answered.
Keep(r, phase, what) ==
  /\ Goto(r, phase)
  /\ read' = [read EXCEPT ![r] = what]

Answer(r, phase) == Keep(r, phase, Nothing) /\ UNCHANGED <<rows, disk>>

Proceed(r, phase) == Goto(r, phase) /\ UNCHANGED <<rows, disk, read>>

-----------------------------------------------------------------------------
(* The office's auctions *)

Create(r) ==
  /\ pc[r] = "ready"
  /\ Kind(r) = "create"
  /\ owner[call[r].auction] = NoOffice
  /\ owner' = [owner EXCEPT ![call[r].auction] = call[r].office]
  /\ Keep(r, "done", Nothing)
  /\ UNCHANGED <<thumbnail, disk, registration, ie, users>>

\* assertAuctionHouseOwner, which also reads the thumbnail.
AssertOwner(r) ==
  /\ pc[r] = "ready"
  /\ Kind(r) \in {"update", "remove", "upload", "clear", "review"}
  /\ LET a == call[r].auction
     IN  IF owner[a] = call[r].office
         THEN /\ Keep(r, IF Kind(r) = "review" THEN "admitted" ELSE "owned",
                      [Nothing EXCEPT !.file = thumbnail[a]])
              /\ UNCHANGED <<rows, disk>>
         ELSE Answer(r, "rejected")

RowExists(r) == owner[call[r].auction] \in Offices

\* update: the auction may be handed to another office.
Update(r) ==
  /\ pc[r] = "owned"
  /\ Kind(r) = "update"
  /\ IF RowExists(r)
     THEN /\ owner' = [owner EXCEPT ![call[r].auction] = call[r].to]
          /\ Keep(r, "done", Nothing)
          /\ UNCHANGED <<thumbnail, disk, registration, ie, users>>
     ELSE Answer(r, "rejected")

\* remove: the file of its thumbnail stays.
Remove(r) ==
  /\ pc[r] = "owned"
  /\ Kind(r) = "remove"
  /\ IF RowExists(r)
     THEN /\ owner' = [owner EXCEPT ![call[r].auction] = Deleted]
          /\ thumbnail' = [thumbnail EXCEPT ![call[r].auction] = NoFile]
          /\ Keep(r, "done", Nothing)
          /\ UNCHANGED <<disk, registration, ie, users>>
     ELSE Answer(r, "rejected")

SetThumbnail(r, file) ==
  /\ thumbnail' = [thumbnail EXCEPT ![call[r].auction] = file]
  /\ UNCHANGED <<owner, disk, registration, ie, users, read>>

WriteFile(r) ==
  /\ pc[r] = "owned"
  /\ Kind(r) = "upload"
  /\ disk' = disk \cup {r}
  /\ Goto(r, "written")
  /\ UNCHANGED <<rows, read>>

NameFile(r) ==
  /\ pc[r] = "written"
  /\ RowExists(r)
  /\ SetThumbnail(r, r)
  /\ Goto(r, "updated")

\* The row is gone, or the query fails.
FailToName(r) ==
  /\ pc[r] = "written"
  /\ Proceed(r, "cleaning")

\* The update is committed and its answer lost: the handler takes it for failed.
NameUnheard(r) ==
  /\ pc[r] = "written"
  /\ RowExists(r)
  /\ SetThumbnail(r, r)
  /\ Goto(r, "unheard")

Unlink(f) ==
  /\ disk' = disk \ {f}
  /\ UNCHANGED rows

\* The catch of uploadThumbnail.
CleanUp(r) ==
  /\ pc[r] \in {"cleaning", "unheard"}
  /\ Unlink(r)
  /\ Keep(r, IF pc[r] = "cleaning" THEN "rejected" ELSE "misled", Nothing)

ClearName(r) ==
  /\ pc[r] = "owned"
  /\ Kind(r) = "clear"
  /\ IF RowExists(r)
     THEN SetThumbnail(r, NoFile) /\ Goto(r, "updated")
     ELSE Answer(r, "rejected")

\* Mutant: what the row names now is removed, not what it named.
RemoveNamed(r) ==
  /\ pc[r] = "updated"
  /\ Unlink(thumbnail[call[r].auction])
  /\ Keep(r, "done", Nothing)

\* removeStoredThumbnail, of the file read at the beginning.
RemoveOld(r) ==
  /\ pc[r] = "updated"
  /\ Unlink(read[r].file)
  /\ Keep(r, "done", Nothing)

Desk(r) == \/ Create(r) \/ AssertOwner(r) \/ Update(r) \/ Remove(r)
           \/ WriteFile(r) \/ NameFile(r) \/ FailToName(r) \/ NameUnheard(r)
           \/ CleanUp(r) \/ ClearName(r) \/ RemoveOld(r)
-----------------------------------------------------------------------------
(* A buyer registers *)

Registering(r) == Kind(r) \in {"register", "registerAt"}

\* The guard reads the buyer's profile, which assertBuyerHasIe then looks at.
Welcome(r) ==
  /\ pc[r] = "ready"
  /\ Registering(r)
  /\ IF call[r].buyer \in ie THEN Proceed(r, "welcome") ELSE Answer(r, "rejected")

\* Through an auction, the office that owns it now; or the office itself.
FindOffice(r) ==
  /\ pc[r] = "welcome"
  /\ LET office == IF Kind(r) = "register" THEN owner[call[r].auction] ELSE call[r].office
     IN  IF office \notin Offices
         THEN Answer(r, "rejected")
         ELSE /\ Keep(r, "found", [Nothing EXCEPT !.office = office])
              /\ UNCHANGED <<rows, disk>>

Place(r) == <<call[r].buyer, read[r].office>>

\* Mutant: a blocked buyer may ask again.
AnswerStatus(s) == IF s = "APPROVED" THEN "done" ELSE "undecided"

\* What an existing registration leads to.
AnswerTo(s) == CASE s = "BLOCKED" -> "rejected"
                 [] s = "APPROVED" -> "done"
                 [] OTHER -> "undecided"

FindRegistration(r) ==
  /\ pc[r] = "found"
  /\ LET status == registration[Place(r)]
     IN  IF AnswerTo(status) = "undecided"
         THEN /\ Keep(r, "undecided", [read[r] EXCEPT !.status = status])
              /\ UNCHANGED <<rows, disk>>
         ELSE Answer(r, AnswerTo(status))

\* upsert, whatever the registration has become; it fails without the buyer.
Upsert(r) ==
  /\ pc[r] = "undecided"
  /\ IF call[r].buyer \in users
     THEN /\ registration' = [registration EXCEPT ![Place(r)] = "PENDING"]
          /\ Keep(r, "done", Nothing)
          /\ UNCHANGED <<owner, thumbnail, disk, ie, users>>
     ELSE Answer(r, "rejected")

Register(r) == Welcome(r) \/ FindOffice(r) \/ FindRegistration(r) \/ Upsert(r)

-----------------------------------------------------------------------------
(* The office reviews *)

Reviewed(r) == <<call[r].buyer, call[r].office>>

\* Mutant: an approval asks for nothing.
ReviewableAsIs(r) == registration[Reviewed(r)] # "none"

\* A registration with this office, and an approval only with an IE.
Reviewable(r) ==
  /\ registration[Reviewed(r)] # "none"
  /\ call[r].status = "APPROVED" => call[r].buyer \in ie

FindReviewed(r) ==
  /\ \/ pc[r] = "admitted"
     \/ pc[r] = "ready" /\ Kind(r) = "reviewMine"
  /\ IF Reviewable(r) THEN Proceed(r, "allowed") ELSE Answer(r, "rejected")

\* By id; the row may only have gone with its buyer.
WriteReview(r) ==
  /\ pc[r] = "allowed"
  /\ IF registration[Reviewed(r)] # "none"
     THEN /\ registration' = [registration EXCEPT ![Reviewed(r)] = call[r].status]
          /\ Keep(r, "done", Nothing)
          /\ UNCHANGED <<owner, thumbnail, disk, ie, users>>
     ELSE Answer(r, "rejected")

-----------------------------------------------------------------------------
(* UsersService *)

\* upsertBuyerProfile takes a valid IE and UF; nothing takes them away again.
UpsertProfile(r) ==
  /\ pc[r] = "ready"
  /\ Kind(r) = "profile"
  /\ IF call[r].buyer \in users
     THEN /\ ie' = ie \cup {call[r].buyer}
          /\ Keep(r, "done", Nothing)
          /\ UNCHANGED <<owner, thumbnail, disk, registration, users>>
     ELSE Answer(r, "rejected")

\* remove: the profile and the registrations go with the account.
RemoveUser(r) ==
  /\ pc[r] = "ready"
  /\ Kind(r) = "leave"
  /\ users' = users \ {call[r].buyer}
  /\ ie' = ie \ {call[r].buyer}
  /\ registration' = [p \in Buyers \X Offices |->
                        IF p[1] = call[r].buyer THEN "none" ELSE registration[p]]
  /\ Keep(r, "done", Nothing)
  /\ UNCHANGED <<owner, thumbnail, disk>>

-----------------------------------------------------------------------------
\* A query fails, a unique key is met, or the process goes.
Lose(r) ==
  /\ pc[r] \in Underway
  /\ Answer(r, "rejected")

(* Registrations may be older than the IE, which a migration added without
   asking for it; so an office may start with any of them. *)
Init ==
  /\ owner \in [Auctions -> Offices \cup {NoOffice}]
  /\ thumbnail \in [Auctions -> {NoFile, Stored}]
  /\ \A a \in Auctions : thumbnail[a] = Stored => owner[a] # NoOffice
  /\ \A a, b \in Auctions : thumbnail[a] = Stored /\ thumbnail[b] = Stored => a = b
  /\ disk = {Stored}
  /\ registration \in [Buyers \X Offices -> Statuses \cup {"none"}]
  /\ ie = {}
  /\ users = Buyers
  /\ call \in [Requests -> Calls]
  /\ pc = [r \in Requests |-> "ready"]
  /\ read = [r \in Requests |-> Nothing]

Handle(r) == \/ Desk(r) \/ Register(r) \/ FindReviewed(r) \/ WriteReview(r)
             \/ UpsertProfile(r) \/ RemoveUser(r) \/ Lose(r)

Next == \E r \in Requests : Handle(r)

Spec == Init /\ [][Next]_vars

-----------------------------------------------------------------------------
(* Safety *)

\* Uploads that removed their file though their update was committed.
Misled == {r \in Requests : pc[r] = "misled"}

(* The thumbnail an auction names is on disk, however uploads, removals and
   deletions overlap, and wherever a handler stops: the only dead link is one
   that a failed upload left, whose update was committed without its knowing
   (uploadThumbnail removes its file when the update throws). *)
ThumbnailExists ==
  /\ TypeOK
  /\ \A a \in Auctions : thumbnail[a] \in disk \cup {NoFile} \cup Misled

(* A registration becomes approved only while its buyer has an IE, although
   the review looks at the profile in one query and writes in another, and
   whatever the registration was before IEs were asked for. *)
ApprovalNeedsIe == [][\A p \in Buyers \X Offices :
  registration[p] # "APPROVED" /\ registration'[p] = "APPROVED" => p[1] \in ie]_vars

(* An approval or a block is undone by another review, by the end of the
   account, or by a registration that had read the row before the decision;
   one that begins after it, through any auction of the office or none,
   leaves it alone (registerBuyer reads, then upserts). *)
DecisionStands == [][\A p \in Buyers \X Offices :
  registration[p] \in Decided /\ registration'[p] # registration[p] =>
    \/ p[1] \notin users'
    \/ \E r \in Requests : pc[r] = "allowed" /\ pc'[r] = "done" /\ Reviewed(r) = p
    \/ \E r \in Requests : /\ pc[r] = "undecided" /\ pc'[r] = "done" /\ Place(r) = p
                           /\ read[r].status \notin Decided]_vars
=============================================================================
