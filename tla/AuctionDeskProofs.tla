------------------------- MODULE AuctionDeskProofs -------------------------
(***************************************************************************)
(* Proofs about AuctionDesk, for any auctions, offices, buyers and         *)
(* requests.                                                               *)
(***************************************************************************)
EXTENDS AuctionDesk, TLAPS

(* The fields of the calls that have them. *)
LEMMA CallFields ==
  ASSUME TypeOK, NEW r \in Requests
  PROVE  /\ Kind(r) \in {"create", "update", "review", "reviewMine", "registerAt"} =>
              call[r].office \in Offices
         /\ Kind(r) = "update" => call[r].to \in Offices
         /\ Kind(r) \in {"review", "reviewMine"} => call[r].status \in Statuses
         /\ Kind(r) \in {"review", "reviewMine", "profile", "leave"} \/ Registering(r) =>
              call[r].buyer \in Buyers
         /\ Kind(r) \in {"create", "update", "remove", "upload", "clear", "review", "register"} =>
              call[r].auction \in Auctions
BY DeskAssumption
   DEF TypeOK, Kind, Registering, CreateCall, UpdateCall, DeskCall, ReviewCall, ReviewMineCall,
       RegisterCall, RegisterAtCall, ProfileCall

(* The read set a handler starts from is one it may hold. *)
LEMMA NothingRead == Nothing \in Reading
BY DEF Nothing, Reading

-----------------------------------------------------------------------------
(* What a handler's place says of its call and of what it has read. *)
HandlersFit == \A r \in Requests :
  /\ pc[r] = "admitted" => Kind(r) = "review"
  /\ pc[r] = "allowed" => Kind(r) \in {"review", "reviewMine"}
  /\ pc[r] \in {"welcome", "found", "undecided"} => Registering(r)
  /\ pc[r] \in {"found", "undecided"} => read[r].office \in Offices
  /\ pc[r] = "undecided" => read[r].status \notin Decided

(* Every step of the desk keeps the type of its rows, files and handlers. *)
LEMMA NextType ==
  ASSUME TypeOK, HandlersFit, [Next]_vars
  PROVE  TypeOK'
<1> USE DEF Underway
<1>1. ASSUME NEW r \in Requests, NEW what \in Reading,
             NEW phase \in {"ready", "done", "rejected", "misled"} \cup Underway,
             Keep(r, phase, what)
      PROVE  /\ call' \in [Requests -> Calls]
             /\ pc' \in [Requests -> {"ready", "done", "rejected", "misled"} \cup Underway]
             /\ read' \in [Requests -> Reading]
  BY <1>1 DEF Keep, Goto, TypeOK
<1>2. ASSUME NEW r \in Requests,
             NEW phase \in {"ready", "done", "rejected", "misled"} \cup Underway,
             Goto(r, phase)
      PROVE  /\ call' \in [Requests -> Calls]
             /\ pc' \in [Requests -> {"ready", "done", "rejected", "misled"} \cup Underway]
  BY <1>2 DEF Goto, TypeOK
<1>3. ASSUME NEW r \in Requests, Answer(r, "rejected") \/ Answer(r, "done")
      PROVE  TypeOK'
  BY <1>1, <1>3, NothingRead DEF Answer, rows, TypeOK
<1>4. ASSUME NEW r \in Requests,
             Proceed(r, "cleaning") \/ Proceed(r, "welcome") \/ Proceed(r, "allowed")
      PROVE  TypeOK'
  BY <1>2, <1>4 DEF Proceed, rows, TypeOK
<1>5. ASSUME NEW r \in Requests, Create(r)
      PROVE  TypeOK'
  BY <1>1, <1>5, NothingRead, CallFields DEF Create, TypeOK
<1>6. ASSUME NEW r \in Requests, AssertOwner(r)
      PROVE  TypeOK'
  <2> DEFINE what == [Nothing EXCEPT !.file = thumbnail[call[r].auction]]
  <2>1. what \in Reading
    BY <1>6, CallFields DEF AssertOwner, Nothing, Reading, TypeOK
  <2>2. CASE Answer(r, "rejected")
    BY <1>3, <2>2
  <2>3. CASE /\ Keep(r, IF Kind(r) = "review" THEN "admitted" ELSE "owned", what)
             /\ UNCHANGED <<rows, disk>>
    <3> HIDE DEF what
    <3> QED
      BY <1>1, <2>1, <2>3 DEF rows, TypeOK
  <2> QED
    BY <1>6, <2>2, <2>3 DEF AssertOwner
<1>7. ASSUME NEW r \in Requests, Update(r)
      PROVE  TypeOK'
  BY <1>1, <1>3, <1>7, NothingRead, CallFields DEF Update, TypeOK
<1>8. ASSUME NEW r \in Requests, Remove(r)
      PROVE  TypeOK'
  BY <1>1, <1>3, <1>8, NothingRead DEF Remove, TypeOK
<1>9. ASSUME NEW r \in Requests, WriteFile(r) \/ NameFile(r) \/ NameUnheard(r)
      PROVE  TypeOK'
  BY <1>2, <1>9 DEF WriteFile, NameFile, NameUnheard, SetThumbnail, Files, rows, TypeOK
<1>10. ASSUME NEW r \in Requests, ClearName(r)
      PROVE  TypeOK'
  BY <1>2, <1>3, <1>10 DEF ClearName, SetThumbnail, TypeOK
<1>11. ASSUME NEW r \in Requests, CleanUp(r) \/ RemoveOld(r)
      PROVE  TypeOK'
  BY <1>1, <1>11, NothingRead DEF CleanUp, RemoveOld, Unlink, rows, TypeOK
<1>12. ASSUME NEW r \in Requests, FindOffice(r)
      PROVE  TypeOK'
  <2>1. PICK office : \/ Answer(r, "rejected")
                      \/ /\ office \in Offices
                         /\ Keep(r, "found", [Nothing EXCEPT !.office = office])
                         /\ UNCHANGED <<rows, disk>>
    BY <1>12 DEF FindOffice
  <2>2. office \in Offices => [Nothing EXCEPT !.office = office] \in Reading
    BY DEF Nothing, Reading
  <2> QED
    BY <1>1, <1>3, <2>1, <2>2 DEF rows, TypeOK
<1>13. ASSUME NEW r \in Requests, FindRegistration(r)
      PROVE  TypeOK'
  <2> DEFINE status == registration[Place(r)]
             what == [read[r] EXCEPT !.status = status]
  <2>1. status \in Statuses \cup {"none"}
    BY <1>13, CallFields DEF FindRegistration, HandlersFit, Place, TypeOK
  <2>2. what \in Reading
    BY <2>1 DEF Reading, TypeOK
  <2>3. \/ Keep(r, "undecided", what) /\ UNCHANGED <<rows, disk>>
        \/ Answer(r, "done") \/ Answer(r, "rejected")
    BY <1>13 DEF FindRegistration, AnswerTo
  <2> HIDE DEF what
  <2> QED
    BY <1>1, <1>3, <2>2, <2>3 DEF rows, TypeOK
<1>14. ASSUME NEW r \in Requests, Upsert(r)
      PROVE  TypeOK'
  BY <1>1, <1>3, <1>14, NothingRead DEF Upsert, Statuses, TypeOK
<1>15. ASSUME NEW r \in Requests, WriteReview(r)
      PROVE  TypeOK'
  BY <1>1, <1>3, <1>15, NothingRead, CallFields DEF WriteReview, HandlersFit, TypeOK
<1>16. ASSUME NEW r \in Requests, UpsertProfile(r)
      PROVE  TypeOK'
  BY <1>1, <1>3, <1>16, NothingRead DEF UpsertProfile, TypeOK
<1>17. ASSUME NEW r \in Requests, RemoveUser(r)
      PROVE  TypeOK'
  BY <1>1, <1>17, NothingRead DEF RemoveUser, TypeOK
<1>18. CASE UNCHANGED vars
  BY <1>18 DEF vars, rows, TypeOK
<1> QED
  BY <1>3, <1>4, <1>5, <1>6, <1>7, <1>8, <1>9, <1>10, <1>11, <1>12, <1>13, <1>14, <1>15, <1>16,
     <1>17, <1>18
     DEF Next, Handle, Desk, Register, FailToName, Welcome, FindReviewed, Lose

(* A handler that only moves to a phase that says nothing of its call. *)
LEMMA QuietFit ==
  ASSUME TypeOK, HandlersFit, UNCHANGED call, NEW r \in Requests,
         NEW phase \in {"owned", "written", "updated", "cleaning", "unheard", "done", "rejected",
                        "misled"},
         pc' = [pc EXCEPT ![r] = phase],
         \A q \in Requests : q # r => read'[q] = read[q]
  PROVE  HandlersFit'
BY DEF HandlersFit, TypeOK, Kind, Registering

(* A handler only reaches the places its own call leads to. *)
LEMMA NextFit ==
  ASSUME TypeOK, HandlersFit, [Next]_vars
  PROVE  HandlersFit'
<1>1. ASSUME NEW r \in Requests, Desk(r)
      PROVE  HandlersFit'
  <2>1. CASE AssertOwner(r)
    <3>1. CASE Kind(r) = "review" /\ owner[call[r].auction] = call[r].office
      BY <2>1, <3>1 DEF AssertOwner, Keep, Goto, HandlersFit, TypeOK, Kind, Registering
    <3>2. CASE ~ (Kind(r) = "review" /\ owner[call[r].auction] = call[r].office)
      BY <2>1, <3>2, QuietFit DEF AssertOwner, Answer, Keep, Goto, TypeOK
    <3> QED
      BY <3>1, <3>2
  <2>2. CASE Create(r) \/ Update(r) \/ Remove(r)
    BY <2>2, QuietFit DEF Create, Update, Remove, Answer, Keep, Goto, TypeOK
  <2>3. CASE WriteFile(r) \/ NameFile(r) \/ FailToName(r) \/ NameUnheard(r)
    BY <2>3, QuietFit DEF WriteFile, NameFile, FailToName, NameUnheard, SetThumbnail, Proceed, Goto
  <2>4. CASE CleanUp(r) \/ ClearName(r) \/ RemoveOld(r)
    BY <2>4, QuietFit DEF CleanUp, ClearName, RemoveOld, SetThumbnail, Answer, Keep, Goto, TypeOK
  <2> QED
    BY <1>1, <2>1, <2>2, <2>3, <2>4 DEF Desk
<1>2. ASSUME NEW r \in Requests, Answer(r, "rejected") \/ Answer(r, "done")
      PROVE  HandlersFit'
  BY <1>2, QuietFit DEF Answer, Keep, Goto, TypeOK
<1>3. ASSUME NEW r \in Requests, Welcome(r)
      PROVE  HandlersFit'
  <2>1. CASE Proceed(r, "welcome")
    BY <1>3, <2>1 DEF Welcome, Proceed, Goto, HandlersFit, TypeOK, Kind, Registering
  <2> QED
    BY <1>2, <1>3, <2>1 DEF Welcome
<1>4. ASSUME NEW r \in Requests, FindOffice(r)
      PROVE  HandlersFit'
  <2>1. PICK office : \/ Answer(r, "rejected")
                      \/ office \in Offices /\ Keep(r, "found", [Nothing EXCEPT !.office = office])
    BY <1>4 DEF FindOffice
  <2>2. CASE office \in Offices /\ Keep(r, "found", [Nothing EXCEPT !.office = office])
    BY <1>4, <2>2
       DEF FindOffice, Keep, Goto, HandlersFit, TypeOK, Kind, Registering, Nothing, Reading
  <2> QED
    BY <1>2, <2>1, <2>2
<1>5. ASSUME NEW r \in Requests, FindRegistration(r)
      PROVE  HandlersFit'
  <2> DEFINE status == registration[Place(r)]
             what == [read[r] EXCEPT !.status = status]
  <2>1. CASE AnswerTo(status) = "undecided"
    <3>1. status \notin Decided
      BY <2>1 DEF AnswerTo, Decided
    <3>2. what.office = read[r].office /\ what.status = status
      BY DEF TypeOK, Reading
    <3>3. Keep(r, "undecided", what)
      BY <1>5, <2>1 DEF FindRegistration
    <3> HIDE DEF what, status
    <3> QED
      BY <1>5, <3>1, <3>2, <3>3
         DEF FindRegistration, Keep, Goto, HandlersFit, TypeOK, Kind, Registering
  <2>2. CASE AnswerTo(status) # "undecided"
    BY <1>2, <1>5, <2>2 DEF FindRegistration, AnswerTo
  <2> QED
    BY <2>1, <2>2
<1>6. ASSUME NEW r \in Requests, FindReviewed(r)
      PROVE  HandlersFit'
  <2>1. CASE Proceed(r, "allowed")
    BY <1>6, <2>1 DEF FindReviewed, Proceed, Goto, HandlersFit, TypeOK, Kind, Registering
  <2> QED
    BY <1>2, <1>6, <2>1 DEF FindReviewed
<1>7. ASSUME NEW r \in Requests,
             Upsert(r) \/ WriteReview(r) \/ UpsertProfile(r) \/ RemoveUser(r) \/ Lose(r)
      PROVE  HandlersFit'
  BY <1>7, QuietFit
     DEF Upsert, WriteReview, UpsertProfile, RemoveUser, Lose, Answer, Keep, Goto, TypeOK
<1>8. CASE UNCHANGED vars
  BY <1>8 DEF vars, rows, HandlersFit, Kind, Registering
<1> QED
  BY <1>1, <1>3, <1>4, <1>5, <1>6, <1>7, <1>8 DEF Next, Handle, Register

-----------------------------------------------------------------------------
(* The thumbnails.  A request whose file has been named by an auction is in one
   of these phases and stays in them. *)
Placed == {"updated", "done", "rejected", "unheard", "misled"}

(* A file waits on disk for the update that names it. *)
WrittenOnDisk == \A r \in Requests : pc[r] = "written" => r \in disk

(* An auction names the file of an upload of its own. *)
NamesAreOwn == \A a \in Auctions :
  thumbnail[a] \in Requests =>
    pc[thumbnail[a]] \in Placed /\ call[thumbnail[a]].auction = a

StoredOnce == \A a, b \in Auctions : thumbnail[a] = Stored /\ thumbnail[b] = Stored => a = b

(* The file a handler has read the name of was named before, so nobody will
   name it again; only the handler's own auction may, until the handler has
   named another.  So the file it then removes is named by no auction. *)
OldIsOver == \A r \in Requests : pc[r] \in {"owned", "written", "updated"} =>
  /\ read[r].file \in Requests => pc[read[r].file] \in Placed
  /\ \A a \in Auctions : read[r].file # NoFile /\ thumbnail[a] = read[r].file =>
       pc[r] # "updated" /\ call[r].auction = a

FilesInOrder ==
  /\ WrittenOnDisk
  /\ NamesAreOwn
  /\ StoredOnce
  /\ OldIsOver
  /\ \A a \in Auctions : thumbnail[a] \in disk \cup {NoFile} \cup Misled

(* A step that names and removes no file, and starts no reading of one. *)
LEMMA QuietFiles ==
  ASSUME TypeOK, FilesInOrder, UNCHANGED <<disk, thumbnail, call>>,
         NEW r \in Requests, NEW phase, pc' = [pc EXCEPT ![r] = phase],
         phase \notin {"owned", "written", "updated"},
         pc[r] # "misled", pc[r] \in Placed => phase \in Placed,
         \A q \in Requests : q # r => read'[q] = read[q]
  PROVE  FilesInOrder'
<1>1. pc'[r] = phase /\ \A q \in Requests : q # r => pc'[q] = pc[q]
  BY DEF TypeOK
<1>2. \A q \in Requests : pc[q] \in Placed => pc'[q] \in Placed
  BY <1>1
<1>3. Misled \subseteq Misled'
  BY <1>1 DEF Misled
<1>4. WrittenOnDisk'
  BY <1>1 DEF FilesInOrder, WrittenOnDisk
<1>5. NamesAreOwn'
  BY <1>2 DEF FilesInOrder, NamesAreOwn
<1>6. OldIsOver'
  BY <1>1, <1>2 DEF FilesInOrder, OldIsOver
<1> QED
  BY <1>3, <1>4, <1>5, <1>6 DEF FilesInOrder, StoredOnce

(* assertAuctionHouseOwner reads the name of the file that its auction names. *)
LEMMA AssertFiles ==
  ASSUME TypeOK, FilesInOrder, NEW r \in Requests, AssertOwner(r)
  PROVE  FilesInOrder'
<1> DEFINE a == call[r].auction
<1>1. CASE owner[a] # call[r].office
  BY <1>1, QuietFiles DEF AssertOwner, Answer, Keep, Goto, rows, Placed, TypeOK
<1>2. CASE owner[a] = call[r].office
  <2>1. a \in Auctions
    BY CallFields DEF AssertOwner
  <2>2. PICK phase \in {"admitted", "owned"} : pc' = [pc EXCEPT ![r] = phase]
    BY <1>2 DEF AssertOwner, Keep, Goto
  <2>3. read'[r].file = thumbnail[a] /\ \A q \in Requests : q # r => read'[q] = read[q]
    BY <1>2 DEF AssertOwner, Keep, Goto, Nothing, TypeOK
  <2>4. UNCHANGED <<disk, thumbnail, call>>
    BY <1>2 DEF AssertOwner, Keep, Goto, rows
  <2>5. pc[r] = "ready" /\ \A q \in Requests : q # r => pc'[q] = pc[q]
    BY <2>2 DEF AssertOwner, TypeOK
  <2>6. pc'[r] = phase
    BY <2>2 DEF TypeOK
  <2>7. \A q \in Requests : pc[q] \in Placed => pc'[q] \in Placed
    BY <2>5 DEF Placed
  <2>8. OldIsOver'
    <3>1. ASSUME NEW b \in Auctions, thumbnail[a] # NoFile, thumbnail[b] = thumbnail[a]
          PROVE  a = b
      BY <2>1, <3>1 DEF FilesInOrder, NamesAreOwn, StoredOnce, TypeOK, Files
    <3>2. thumbnail[a] \in Requests => pc[thumbnail[a]] \in Placed
      BY <2>1 DEF FilesInOrder, NamesAreOwn
    <3>3. phase # "updated"
      OBVIOUS
    <3> HIDE DEF a
    <3>4. \A q \in Requests : q # r /\ pc'[q] \in {"owned", "written", "updated"} =>
            /\ read'[q].file \in Requests => pc'[read'[q].file] \in Placed
            /\ \A b \in Auctions : read'[q].file # NoFile /\ thumbnail'[b] = read'[q].file =>
                 pc'[q] # "updated" /\ call'[q].auction = b
      BY <2>3, <2>4, <2>5, <2>7 DEF FilesInOrder, OldIsOver
    <3>5. /\ read'[r].file \in Requests => pc'[read'[r].file] \in Placed
          /\ \A b \in Auctions : read'[r].file # NoFile /\ thumbnail'[b] = read'[r].file =>
               pc'[r] # "updated" /\ call'[r].auction = b
      BY <2>3, <2>4, <2>6, <2>7, <3>1, <3>2, <3>3 DEF a
    <3> QED
      BY <3>4, <3>5 DEF OldIsOver
  <2>9. Misled \subseteq Misled'
    BY <2>5 DEF Misled
  <2> QED
    BY <2>4, <2>5, <2>6, <2>7, <2>8, <2>9
       DEF FilesInOrder, WrittenOnDisk, NamesAreOwn, StoredOnce
<1> QED
  BY <1>1, <1>2

(* Writing the file of an upload takes a name no row and no other handler
   holds, so it disturbs no promise about the files. *)
LEMMA WriteFiles ==
  ASSUME TypeOK, FilesInOrder, NEW r \in Requests, WriteFile(r)
  PROVE  FilesInOrder'
<1>1. /\ pc' = [pc EXCEPT ![r] = "written"]
      /\ disk' = disk \cup {r}
      /\ UNCHANGED <<thumbnail, call, read>>
  BY DEF WriteFile, Goto, rows
<1>2. pc[r] = "owned" /\ pc'[r] = "written" /\ \A q \in Requests : q # r => pc'[q] = pc[q]
  BY <1>1 DEF WriteFile, TypeOK
<1>3. \A q \in Requests : pc[q] \in Placed => pc'[q] \in Placed
  BY <1>2 DEF Placed
<1>4. OldIsOver'
  BY <1>1, <1>2, <1>3 DEF FilesInOrder, OldIsOver
<1>5. Misled \subseteq Misled'
  BY <1>2 DEF Misled
<1> QED
  BY <1>1, <1>2, <1>3, <1>4, <1>5
     DEF FilesInOrder, WrittenOnDisk, NamesAreOwn, StoredOnce

(* An update of the thumbnail: to the handler's own file, which nothing has
   named or read before, or to none. *)
LEMMA SetFiles ==
  ASSUME TypeOK, FilesInOrder, UNCHANGED <<disk, call>>,
         NEW r \in Requests, pc[r] \in {"owned", "written"},
         NEW file \in {r, NoFile}, file = r => pc[r] = "written",
         thumbnail' = [thumbnail EXCEPT ![call[r].auction] = file],
         NEW phase \in {"updated", "unheard", "done"}, pc' = [pc EXCEPT ![r] = phase],
         phase = "updated" => read'[r] = read[r],
         \A q \in Requests : q # r => read'[q] = read[q]
  PROVE  FilesInOrder'
<1> DEFINE a == call[r].auction
<1>1. pc'[r] = phase /\ \A q \in Requests : q # r => pc'[q] = pc[q]
  BY DEF TypeOK
<1>2. \A q \in Requests : pc[q] \in Placed => pc'[q] \in Placed /\ q # r
  BY <1>1 DEF Placed
<1>3. \A b \in Auctions : \/ b = a /\ thumbnail'[b] = file
                          \/ b # a /\ thumbnail'[b] = thumbnail[b]
  BY DEF TypeOK
<1>4. r # Stored /\ r # NoFile /\ NoFile # Stored /\ NoFile \notin Requests
  BY DeskAssumption
<1>5. WrittenOnDisk'
  BY <1>1 DEF FilesInOrder, WrittenOnDisk
<1>6. NamesAreOwn'
  <2>1. ASSUME NEW b \in Auctions, thumbnail'[b] \in Requests
        PROVE  pc'[thumbnail'[b]] \in Placed /\ call'[thumbnail'[b]].auction = b
    <3>1. CASE thumbnail'[b] = thumbnail[b]
      BY <1>2, <2>1, <3>1 DEF FilesInOrder, NamesAreOwn
    <3>2. CASE b = a /\ thumbnail'[b] = r
      BY <1>1, <3>2 DEF Placed
    <3> QED
      BY <1>3, <1>4, <2>1, <3>1, <3>2
  <2> QED
    BY <2>1 DEF NamesAreOwn
<1>7. StoredOnce'
  BY <1>3, <1>4 DEF FilesInOrder, StoredOnce
<1>8. OldIsOver'
  <2>1. ASSUME NEW q \in Requests, pc'[q] \in {"owned", "written", "updated"}
        PROVE  /\ pc[q] \in {"owned", "written", "updated"}
               /\ read'[q] = read[q]
               /\ pc'[q] = "updated" => q = r \/ pc[q] = "updated"
    BY <1>1, <2>1
  <2>2. ASSUME NEW q \in Requests, pc'[q] \in {"owned", "written", "updated"},
               NEW b \in Auctions, read[q].file # NoFile, thumbnail'[b] = read[q].file
        PROVE  pc'[q] # "updated" /\ call[q].auction = b
    <3>1. b # a /\ thumbnail'[b] = thumbnail[b]
      BY <1>2, <1>3, <2>1, <2>2 DEF FilesInOrder, OldIsOver
    <3>2. pc[q] # "updated" /\ call[q].auction = b
      BY <2>1, <2>2, <3>1 DEF FilesInOrder, OldIsOver
    <3> QED
      BY <2>1, <2>2, <3>1, <3>2
  <2>3. ASSUME NEW q \in Requests, pc'[q] \in {"owned", "written", "updated"},
               read[q].file \in Requests
        PROVE  pc'[read[q].file] \in Placed
    BY <1>2, <2>1, <2>3 DEF FilesInOrder, OldIsOver
  <2> QED
    BY <2>1, <2>2, <2>3 DEF OldIsOver
<1>9. Misled \subseteq Misled'
  BY <1>1 DEF Misled
<1>10. \A b \in Auctions : thumbnail'[b] \in disk' \cup {NoFile} \cup Misled'
  BY <1>3, <1>9 DEF FilesInOrder, WrittenOnDisk
<1> QED
  BY <1>5, <1>6, <1>7, <1>8, <1>10 DEF FilesInOrder

(* A removal takes a file that no auction names, except the one of an upload
   whose update was committed unheard. *)
LEMMA UnlinkFiles ==
  ASSUME TypeOK, FilesInOrder, NEW r \in Requests, CleanUp(r) \/ RemoveOld(r)
  PROVE  FilesInOrder'
<1>1. PICK phase \in {"rejected", "misled", "done"} :
        /\ pc' = [pc EXCEPT ![r] = phase]
        /\ pc[r] = "unheard" => phase = "misled"
  BY DEF CleanUp, RemoveOld, Keep, Goto
<1>2. UNCHANGED <<thumbnail, call>> /\ \A q \in Requests : q # r => read'[q] = read[q]
  BY DEF CleanUp, RemoveOld, Keep, Goto, Unlink, rows, TypeOK
<1>3. pc'[r] = phase /\ \A q \in Requests : q # r => pc'[q] = pc[q]
  BY <1>1 DEF TypeOK
<1>4. \A q \in Requests : pc[q] \in Placed => pc'[q] \in Placed
  BY <1>3 DEF Placed
<1>5. Misled \subseteq Misled'
  BY <1>3 DEF Misled, CleanUp, RemoveOld
<1>6. OldIsOver'
  BY <1>2, <1>3, <1>4 DEF FilesInOrder, OldIsOver
<1>7. NamesAreOwn' /\ StoredOnce'
  BY <1>2, <1>4 DEF FilesInOrder, NamesAreOwn, StoredOnce
<1>8. CASE CleanUp(r)
  <2>1. disk' = disk \ {r}
    BY <1>8 DEF CleanUp, Unlink
  <2>2. \A a \in Auctions : thumbnail[a] = r => r \in Misled'
    BY <1>1, <1>3, <1>8 DEF CleanUp, FilesInOrder, NamesAreOwn, Placed, Misled
  <2>3. WrittenOnDisk'
    BY <1>3, <2>1 DEF FilesInOrder, WrittenOnDisk
  <2> QED
    BY <1>2, <1>5, <1>6, <1>7, <2>1, <2>2, <2>3 DEF FilesInOrder
<1>9. CASE RemoveOld(r)
  <2>1. disk' = disk \ {read[r].file} /\ pc[r] = "updated"
    BY <1>9 DEF RemoveOld, Unlink
  <2>2. \A a \in Auctions : thumbnail[a] = read[r].file => thumbnail[a] = NoFile
    BY <2>1 DEF FilesInOrder, OldIsOver
  <2>3. \A q \in Requests : pc[q] = "written" => q # read[r].file
    BY <2>1 DEF FilesInOrder, OldIsOver, Placed
  <2>4. WrittenOnDisk'
    BY <1>3, <2>1, <2>3 DEF FilesInOrder, WrittenOnDisk
  <2> QED
    BY <1>2, <1>5, <1>6, <1>7, <2>1, <2>2, <2>4 DEF FilesInOrder
<1> QED
  BY <1>8, <1>9

(* Every step keeps the files in the order the thumbnails need. *)
LEMMA NextFiles ==
  ASSUME TypeOK, FilesInOrder, [Next]_vars
  PROVE  FilesInOrder'
<1> USE DEF Placed
<1>1. ASSUME NEW r \in Requests, Answer(r, "rejected") \/ Answer(r, "done"), pc[r] # "misled"
      PROVE  FilesInOrder'
  BY <1>1, QuietFiles DEF Answer, Keep, Goto, rows, TypeOK
<1>2. ASSUME NEW r \in Requests, Create(r)
      PROVE  FilesInOrder'
  BY <1>2, QuietFiles DEF Create, Keep, Goto, TypeOK
<1>3. ASSUME NEW r \in Requests, Update(r)
      PROVE  FilesInOrder'
  BY <1>1, <1>3, QuietFiles DEF Update, Keep, Goto, TypeOK
<1>4. ASSUME NEW r \in Requests, Remove(r)
      PROVE  FilesInOrder'
  <2>1. CASE RowExists(r)
    BY <1>4, <2>1, SetFiles, DeskAssumption DEF Remove, Keep, Goto, TypeOK
  <2> QED
    BY <1>1, <1>4, <2>1 DEF Remove
<1>5. ASSUME NEW r \in Requests, NameFile(r) \/ NameUnheard(r)
      PROVE  FilesInOrder'
  BY <1>5, SetFiles, DeskAssumption DEF NameFile, NameUnheard, SetThumbnail, Goto
<1>6. ASSUME NEW r \in Requests, ClearName(r)
      PROVE  FilesInOrder'
  <2>1. CASE RowExists(r)
    BY <1>6, <2>1, SetFiles, DeskAssumption DEF ClearName, SetThumbnail, Goto
  <2> QED
    BY <1>1, <1>6, <2>1 DEF ClearName
<1>7. ASSUME NEW r \in Requests, FailToName(r) \/ Welcome(r) \/ FindReviewed(r)
      PROVE  FilesInOrder'
  BY <1>1, <1>7, QuietFiles DEF FailToName, Welcome, FindReviewed, Proceed, Goto, rows
<1>8. ASSUME NEW r \in Requests, FindOffice(r) \/ FindRegistration(r)
      PROVE  FilesInOrder'
  BY <1>1, <1>8, QuietFiles DEF FindOffice, FindRegistration, AnswerTo, Keep, Goto, rows, TypeOK
<1>9. ASSUME NEW r \in Requests, Upsert(r) \/ WriteReview(r) \/ UpsertProfile(r) \/ RemoveUser(r)
      PROVE  FilesInOrder'
  BY <1>1, <1>9, QuietFiles
     DEF Upsert, WriteReview, UpsertProfile, RemoveUser, Keep, Goto, TypeOK
<1>10. ASSUME NEW r \in Requests, Lose(r)
       PROVE  FilesInOrder'
  BY <1>1, <1>10 DEF Lose, Underway
<1>11. CASE UNCHANGED vars
  BY <1>11
     DEF vars, rows, FilesInOrder, WrittenOnDisk, NamesAreOwn, StoredOnce, OldIsOver, Misled
<1> QED
  BY <1>2, <1>3, <1>4, <1>5, <1>6, <1>7, <1>8, <1>9, <1>10, <1>11,
     AssertFiles, WriteFiles, UnlinkFiles
     DEF Next, Handle, Desk, Register

-----------------------------------------------------------------------------
(* The registrations.  An approval that was allowed has found an IE; the IE goes
   only with the account, and then the registrations are gone for ever. *)
ReviewsAskedForIe ==
  /\ \A r \in Requests : pc[r] = "allowed" /\ call[r].status = "APPROVED" =>
       call[r].buyer \in ie \/ call[r].buyer \notin users
  /\ \A p \in Buyers \X Offices : p[1] \notin users => registration[p] = "none"

(* Every step keeps a review under way on a buyer who asked and has an IE. *)
LEMMA NextReviews ==
  ASSUME TypeOK, HandlersFit, ReviewsAskedForIe, [Next]_vars
  PROVE  ReviewsAskedForIe'
<1>1. ASSUME UNCHANGED <<registration, ie, users, call>>, NEW r \in Requests, NEW phase,
             pc' = [pc EXCEPT ![r] = phase],
             phase = "allowed" /\ call[r].status = "APPROVED" => call[r].buyer \in ie
      PROVE  ReviewsAskedForIe'
  BY <1>1 DEF ReviewsAskedForIe, TypeOK
<1>2. ASSUME NEW r \in Requests, Answer(r, "rejected") \/ Answer(r, "done")
      PROVE  ReviewsAskedForIe'
  BY <1>1, <1>2 DEF Answer, Keep, Goto, rows
<1>3. ASSUME NEW r \in Requests, Desk(r)
      PROVE  ReviewsAskedForIe'
  <2>1. CASE Create(r) \/ Update(r) \/ Remove(r)
    BY <1>1, <1>2, <2>1 DEF Create, Update, Remove, Keep, Goto
  <2>2. CASE AssertOwner(r)
    <3>1. UNCHANGED <<registration, ie, users, call>>
      BY <2>2 DEF AssertOwner, Answer, Keep, Goto, rows
    <3>2. PICK phase \in {"admitted", "owned", "rejected"} : pc' = [pc EXCEPT ![r] = phase]
      BY <2>2 DEF AssertOwner, Answer, Keep, Goto
    <3> QED
      BY <1>1, <3>1, <3>2
  <2>3. CASE WriteFile(r) \/ NameFile(r) \/ FailToName(r) \/ NameUnheard(r)
    BY <1>1, <2>3
       DEF WriteFile, NameFile, FailToName, NameUnheard, SetThumbnail, Proceed, Goto, rows
  <2>4. CASE ClearName(r)
    BY <1>1, <1>2, <2>4 DEF ClearName, SetThumbnail, Goto
  <2>5. CASE CleanUp(r) \/ RemoveOld(r)
    <3>1. UNCHANGED <<registration, ie, users, call>>
      BY <2>5 DEF CleanUp, RemoveOld, Unlink, Keep, Goto, rows
    <3>2. PICK phase \in {"rejected", "misled", "done"} : pc' = [pc EXCEPT ![r] = phase]
      BY <2>5 DEF CleanUp, RemoveOld, Keep, Goto
    <3> QED
      BY <1>1, <3>1, <3>2
  <2> QED
    BY <1>3, <2>1, <2>2, <2>3, <2>4, <2>5 DEF Desk
<1>4. ASSUME NEW r \in Requests, Welcome(r) \/ FindOffice(r) \/ FindRegistration(r)
      PROVE  ReviewsAskedForIe'
  BY <1>1, <1>2, <1>4
     DEF Welcome, FindOffice, FindRegistration, AnswerTo, Proceed, Keep, Goto, rows
<1>5. ASSUME NEW r \in Requests, FindReviewed(r)
      PROVE  ReviewsAskedForIe'
  BY <1>1, <1>2, <1>5 DEF FindReviewed, Reviewable, Proceed, Goto, rows
<1>6. ASSUME NEW r \in Requests, Upsert(r)
      PROVE  ReviewsAskedForIe'
  <2>1. CASE call[r].buyer \in users
    <3>1. /\ UNCHANGED <<ie, users, call>>
          /\ pc' = [pc EXCEPT ![r] = "done"]
          /\ registration' = [registration EXCEPT ![Place(r)] = "PENDING"]
      BY <1>6, <2>1 DEF Upsert, Keep, Goto
    <3>2. \A p \in Buyers \X Offices : p[1] \notin users => registration'[p] = registration[p]
      BY <2>1, <3>1 DEF Place, TypeOK
    <3> QED
      BY <3>1, <3>2 DEF ReviewsAskedForIe, TypeOK
  <2> QED
    BY <1>2, <1>6, <2>1 DEF Upsert
<1>7. ASSUME NEW r \in Requests, WriteReview(r)
      PROVE  ReviewsAskedForIe'
  <2>1. CASE registration[Reviewed(r)] # "none"
    <3>1. /\ UNCHANGED <<ie, users, call>>
          /\ pc' = [pc EXCEPT ![r] = "done"]
          /\ registration' = [registration EXCEPT ![Reviewed(r)] = call[r].status]
      BY <1>7, <2>1 DEF WriteReview, Keep, Goto
    <3>2. \A p \in Buyers \X Offices : p[1] \notin users => registration'[p] = "none"
      BY <2>1, <3>1 DEF ReviewsAskedForIe, TypeOK
    <3> QED
      BY <3>1, <3>2 DEF ReviewsAskedForIe, TypeOK
  <2> QED
    BY <1>2, <1>7, <2>1 DEF WriteReview
<1>8. ASSUME NEW r \in Requests, UpsertProfile(r)
      PROVE  ReviewsAskedForIe'
  BY <1>2, <1>8 DEF UpsertProfile, Keep, Goto, ReviewsAskedForIe, TypeOK
<1>9. ASSUME NEW r \in Requests, RemoveUser(r)
      PROVE  ReviewsAskedForIe'
  BY <1>9 DEF RemoveUser, Keep, Goto, ReviewsAskedForIe, TypeOK
<1>10. ASSUME NEW r \in Requests, Lose(r)
       PROVE  ReviewsAskedForIe'
  BY <1>2, <1>10 DEF Lose
<1>11. CASE UNCHANGED vars
  BY <1>11 DEF vars, rows, ReviewsAskedForIe
<1> QED
  BY <1>3, <1>4, <1>5, <1>6, <1>7, <1>8, <1>9, <1>10, <1>11 DEF Next, Handle, Register

-----------------------------------------------------------------------------
DeskInvariant == TypeOK /\ HandlersFit /\ FilesInOrder /\ ReviewsAskedForIe

(* The empty desk satisfies the inductive invariant. *)
LEMMA InitDesk == Init => DeskInvariant
<1> SUFFICES ASSUME Init PROVE DeskInvariant
  OBVIOUS
<1>1. TypeOK
  BY NothingRead DEF Init, TypeOK, Files
<1>2. HandlersFit /\ ReviewsAskedForIe
  BY <1>1 DEF Init, HandlersFit, ReviewsAskedForIe, TypeOK
<1>3. FilesInOrder
  BY DeskAssumption
     DEF Init, FilesInOrder, WrittenOnDisk, NamesAreOwn, StoredOnce, OldIsOver
<1> QED
  BY <1>1, <1>2, <1>3 DEF DeskInvariant

(* Every step preserves the inductive invariant of the desk. *)
LEMMA NextDesk == DeskInvariant /\ [Next]_vars => DeskInvariant'
BY NextType, NextFit, NextFiles, NextReviews DEF DeskInvariant

(* The desk's handlers keep their types, what they know of their calls, and
   their files and registrations in order. *)
THEOREM DeskInOrder == Spec => []DeskInvariant
BY InitDesk, NextDesk, PTL DEF Spec

(* The thumbnail an auction names is on disk, for any number of auctions,
   uploads, removals and deletions that overlap; only an upload that took its
   committed update for failed leaves a dead link. *)
THEOREM ThumbnailsExist == Spec => []ThumbnailExists
<1>1. DeskInvariant => ThumbnailExists
  BY DEF DeskInvariant, FilesInOrder, ThumbnailExists
<1> QED
  BY <1>1, DeskInOrder, PTL

(* What a step may do to a registration. *)
LEMMA RegistrationStep ==
  ASSUME DeskInvariant, [Next]_vars, NEW p \in Buyers \X Offices,
         registration'[p] # registration[p]
  PROVE  \/ p[1] \notin users' /\ registration'[p] = "none"
         \/ \E r \in Requests : /\ pc[r] = "allowed" /\ pc'[r] = "done" /\ Reviewed(r) = p
                                /\ registration[p] # "none" /\ registration'[p] = call[r].status
         \/ \E r \in Requests : /\ pc[r] = "undecided" /\ pc'[r] = "done" /\ Place(r) = p
                                /\ registration'[p] = "PENDING"
<1>1. ASSUME NEW r \in Requests, Upsert(r)
      PROVE  /\ pc[r] = "undecided" /\ pc'[r] = "done" /\ Place(r) = p
             /\ registration'[p] = "PENDING"
  <2>1. /\ registration' = [registration EXCEPT ![Place(r)] = "PENDING"]
        /\ pc' = [pc EXCEPT ![r] = "done"]
        /\ pc[r] = "undecided"
    BY <1>1 DEF Upsert, Answer, Keep, Goto, rows
  <2> QED
    BY <2>1 DEF DeskInvariant, TypeOK
<1>2. ASSUME NEW r \in Requests, WriteReview(r)
      PROVE  /\ pc[r] = "allowed" /\ pc'[r] = "done" /\ Reviewed(r) = p
             /\ registration[p] # "none" /\ registration'[p] = call[r].status
  <2>1. /\ registration' = [registration EXCEPT ![Reviewed(r)] = call[r].status]
        /\ registration[Reviewed(r)] # "none"
        /\ pc' = [pc EXCEPT ![r] = "done"]
        /\ pc[r] = "allowed"
    BY <1>2 DEF WriteReview, Answer, Keep, Goto, rows
  <2> QED
    BY <2>1 DEF DeskInvariant, TypeOK
<1>3. ASSUME NEW r \in Requests, RemoveUser(r)
      PROVE  p[1] \notin users' /\ registration'[p] = "none"
  <2>1. registration'[p] = IF p[1] = call[r].buyer THEN "none" ELSE registration[p]
    BY <1>3 DEF RemoveUser
  <2> QED
    BY <1>3, <2>1 DEF RemoveUser
<1> QED
  BY <1>1, <1>2, <1>3
     DEF Next, Handle, Desk, Register, Create, AssertOwner, Update, Remove, WriteFile, NameFile,
         FailToName, NameUnheard, CleanUp, ClearName, RemoveOld, SetThumbnail, Unlink, Welcome,
         FindOffice, FindRegistration, FindReviewed, UpsertProfile, Lose, Answer, Proceed, rows, vars

(* A registration becomes approved only while its buyer has an IE, whatever
   happens between the query of the review and its write. *)
THEOREM ApprovalsNeedIe == Spec => ApprovalNeedsIe
<1>1. ASSUME DeskInvariant, [Next]_vars, NEW p \in Buyers \X Offices,
             registration[p] # "APPROVED", registration'[p] = "APPROVED"
      PROVE  p[1] \in ie
  <2>1. PICK r \in Requests : /\ pc[r] = "allowed" /\ Reviewed(r) = p
                             /\ registration[p] # "none" /\ call[r].status = "APPROVED"
    BY <1>1, RegistrationStep
  <2>2. call[r].buyer = p[1]
    BY <2>1 DEF Reviewed
  <2> QED
    BY <1>1, <2>1, <2>2 DEF DeskInvariant, ReviewsAskedForIe
<1>2. DeskInvariant /\ [Next]_vars =>
        \A p \in Buyers \X Offices :
          registration[p] # "APPROVED" /\ registration'[p] = "APPROVED" => p[1] \in ie
  BY <1>1
<1> QED
  BY <1>2, DeskInOrder, PTL DEF Spec, ApprovalNeedsIe

(* An approval or a block is undone by a review, by the end of the account, or
   by a registration that had read the row before it. *)
THEOREM DecisionsStand == Spec => DecisionStands
<1>1. DeskInvariant /\ [Next]_vars =>
        \A p \in Buyers \X Offices :
          registration[p] \in Decided /\ registration'[p] # registration[p] =>
            \/ p[1] \notin users'
            \/ \E r \in Requests : pc[r] = "allowed" /\ pc'[r] = "done" /\ Reviewed(r) = p
            \/ \E r \in Requests : /\ pc[r] = "undecided" /\ pc'[r] = "done" /\ Place(r) = p
                                   /\ read[r].status \notin Decided
  BY RegistrationStep DEF DeskInvariant, HandlersFit
<1> QED
  BY <1>1, DeskInOrder, PTL DEF Spec, DecisionStands
=============================================================================
