------------------------- MODULE OfficeInviteProofs -------------------------
(***************************************************************************)
(* Proofs about OfficeInvite, for any invites, identities, requests and    *)
(* lifetime.                                                               *)
(***************************************************************************)
EXTENDS OfficeInvite, TLAPS

(* What a handler's place says of its call and of the row it has read: a row,
   once created, is never removed. *)
HandlersFit == \A r \in Requests :
  /\ pc[r] \in {"valid", "begun"} => call[r].kind = "register"
  /\ pc[r] \in {"read", "expiring"} => call[r].kind \in {"revoke", "find", "register"}
  /\ pc[r] \in {"read", "expiring", "valid", "begun"} => status[InviteOf(r)] # "none"

InviteInvariant == UsedIsBacked /\ HandlersFit

(* The invite of a call that has one, and the identity of a registration. *)
LEMMA CallFields ==
  ASSUME TypeOK, NEW r \in Requests
  PROVE  /\ call[r].kind \in {"revoke", "find", "register"} => InviteOf(r) \in Invites
         /\ call[r].kind = "register" => call[r].identity \in Identities
BY InviteAssumption DEF TypeOK, InviteOf, CreateCall, ListCall, RevokeCall, FindCall, RegisterCall

(* Before any invite the promises hold. *)
LEMMA InitInvites == Init => InviteInvariant
<1> SUFFICES ASSUME Init PROVE InviteInvariant
  OBVIOUS
<1>1. 0 \in 0..MaxTime /\ Lifetime \in Time
  BY InviteAssumption DEF Time
<1>2. TypeOK
  BY <1>1 DEF Init, TypeOK, Ended
<1>3. \A i \in Invites : Free(i)
  BY DEF Init, Free
<1> QED
  BY <1>2, <1>3 DEF Init, InviteInvariant, UsedIsBacked, HandlersFit, InTransaction, Free,
     OfficesAreBacked, HoldsItsRow, KeysAreApart, LocksAreHeld

-----------------------------------------------------------------------------
(* A handler outside a transaction that writes rows nobody has locked: a new
   row is PENDING, an existing one becomes EXPIRED. *)
Unclaimed(i) == \/ status'[i] = status[i]
                \/ Free(i) /\ status'[i] = "EXPIRED" /\ status[i] # "none"
                \/ Free(i) /\ status'[i] = "PENDING" /\ status[i] = "none"

(* A handler outside every transaction disturbs no registration under way. *)
LEMMA QuietInvites ==
  ASSUME UsedIsBacked, TypeOK', UNCHANGED <<offices, lock, call>>,
         NEW r \in Requests, NEW phase, Goto(r, phase),
         pc[r] \notin InTransaction, phase \notin InTransaction,
         \A i \in Invites : Unclaimed(i)
  PROVE  UsedIsBacked'
<1>1. \A q \in Requests : pc'[q] \in InTransaction => pc'[q] = pc[q] /\ q # r
  BY DEF Goto, UsedIsBacked, TypeOK
<1>2. ASSUME NEW q \in Requests
      PROVE  HoldsItsRow(q)'
  <2>1. SUFFICES ASSUME pc'[q] \in InTransaction
                 PROVE  status'[InviteOf(q)] = "PENDING"
    BY <1>1 DEF UsedIsBacked, HoldsItsRow, InviteOf, Taken
  <2>2. InviteOf(q) \in Invites /\ ~ Free(InviteOf(q)) /\ status[InviteOf(q)] = "PENDING"
    BY <1>1, <2>1, CallFields, InviteAssumption DEF UsedIsBacked, HoldsItsRow, Free
  <2> QED
    BY <2>2 DEF Unclaimed
<1>3. LocksAreHeld'
  BY DEF UsedIsBacked, LocksAreHeld, InviteOf, TypeOK, Goto
<1>4. OfficesAreBacked'
  BY DEF UsedIsBacked, OfficesAreBacked, TypeOK, Unclaimed
<1>5. KeysAreApart'
  BY <1>1 DEF UsedIsBacked, KeysAreApart, InTransaction
<1> QED
  BY <1>2, <1>3, <1>4, <1>5 DEF UsedIsBacked

(* A transaction that is undone gives up its locks and leaves the rest. *)
LEMMA RollbackInvites ==
  ASSUME UsedIsBacked, TypeOK', NEW r \in Requests, Rollback(r), Goto(r, "rejected")
  PROVE  UsedIsBacked'
<1>1. \A q \in Requests : pc'[q] \in InTransaction => pc'[q] = pc[q] /\ q # r
  BY DEF Goto, UsedIsBacked, TypeOK, InTransaction
<1>2. \A i \in Invites : lock'[i] = IF lock[i] = r THEN NoRequest ELSE lock[i]
  BY DEF Rollback, Unlocked
<1>3. UNCHANGED <<status, offices, call>>
  BY DEF Rollback
<1>4. ASSUME NEW q \in Requests
      PROVE  HoldsItsRow(q)'
  <2>1. CASE pc'[q] \in InTransaction
    <3>1. HoldsItsRow(q) /\ pc[q] = pc'[q] /\ q # r
      BY <1>1, <2>1 DEF UsedIsBacked
    <3>2. InviteOf(q) \in Invites
      BY <2>1, <3>1, CallFields DEF UsedIsBacked, HoldsItsRow
    <3> QED
      BY <1>2, <1>3, <2>1, <3>1, <3>2 DEF HoldsItsRow, InviteOf, Taken
  <2> QED
    BY <2>1 DEF HoldsItsRow
<1>5. LocksAreHeld'
  BY <1>2, <1>3 DEF UsedIsBacked, LocksAreHeld, InviteOf, TypeOK, Goto
<1>6. OfficesAreBacked' /\ KeysAreApart'
  BY <1>1, <1>3 DEF UsedIsBacked, OfficesAreBacked, KeysAreApart, InTransaction
<1> QED
  BY <1>4, <1>5, <1>6 DEF UsedIsBacked

(* The claim takes a row that is PENDING and that nobody has locked. *)
LEMMA ClaimInvites ==
  ASSUME InviteInvariant, TypeOK', NEW r \in Requests, Claim(r)
  PROVE  UsedIsBacked'
<1> USE DEF InviteInvariant, UsedIsBacked
<1>1. CASE Claimable(r)
  <2> DEFINE i == InviteOf(r)
  <2>1. call[r].kind = "register" /\ i \in Invites
    BY CallFields DEF Claim, HandlersFit
  <2>2. /\ Free(i)
        /\ status[i] = "PENDING"
        /\ lock' = [lock EXCEPT ![i] = r]
        /\ pc' = [pc EXCEPT ![r] = "claimed"]
        /\ UNCHANGED <<status, offices, call>>
    BY <1>1 DEF Claim, Claimable, Goto
  <2>3. pc'[r] = "claimed" /\ \A q \in Requests : q # r => pc'[q] = pc[q]
    BY <2>2 DEF TypeOK
  <2>4. lock'[i] = r /\ \A j \in Invites : j # i => lock'[j] = lock[j]
    BY <2>1, <2>2 DEF TypeOK
  <2>5. ASSUME NEW q \in Requests
        PROVE  HoldsItsRow(q)'
    <3>1. CASE q = r
      BY <2>1, <2>2, <2>3, <2>4, <3>1 DEF HoldsItsRow, InviteOf
    <3>2. CASE q # r /\ pc[q] \in InTransaction
      <4>1. HoldsItsRow(q) /\ InviteOf(q) \in Invites
        BY <3>2, CallFields DEF HoldsItsRow
      <4>2. InviteOf(q) # i
        BY <2>2, <3>2, <4>1, InviteAssumption DEF HoldsItsRow, Free
      <4> QED
        BY <2>2, <2>3, <2>4, <3>2, <4>1, <4>2 DEF HoldsItsRow, InviteOf, Taken
    <3> QED
      BY <2>3, <3>1, <3>2 DEF HoldsItsRow
  <2>6. LocksAreHeld'
    BY <2>2, <2>3, <2>4 DEF LocksAreHeld, InviteOf, TypeOK, InTransaction
  <2>7. OfficesAreBacked' /\ KeysAreApart'
    BY <2>2, <2>3 DEF OfficesAreBacked, KeysAreApart
  <2> QED
    BY <2>5, <2>6, <2>7
<1>2. CASE ~ Claimable(r)
  <2>1. Finish(r, "rejected") /\ UNCHANGED <<status, offices, lock, call>>
    BY <1>2 DEF Claim, rows
  <2> QED
    BY <2>1, QuietInvites DEF Claim, Finish, InTransaction, Unclaimed
<1> QED
  BY <1>1, <1>2

(* The insert waits for a transaction that has inserted the same identity, so
   the new key is its own. *)
LEMMA InsertInvites ==
  ASSUME InviteInvariant, TypeOK', NEW r \in Requests, Insert(r)
  PROVE  UsedIsBacked'
<1> USE DEF InviteInvariant, UsedIsBacked
<1>1. CASE Taken(call[r].identity)
  BY <1>1, RollbackInvites DEF Insert, Finish
<1>2. CASE ~ Taken(call[r].identity)
  <2>1. pc' = [pc EXCEPT ![r] = "inserted"] /\ UNCHANGED <<status, offices, lock, call>>
    BY <1>2 DEF Insert, Answer, Goto, rows
  <2>2. pc'[r] = "inserted" /\ \A q \in Requests : q # r => pc'[q] = pc[q]
    BY <2>1 DEF TypeOK
  <2>3. \A q \in Requests : pc[q] = "inserted" => call[q].identity # call[r].identity
    BY DEF Insert, Awaited
  <2>4. \A q \in Requests : pc'[q] \in InTransaction <=> pc[q] \in InTransaction
    BY <2>2 DEF Insert, InTransaction
  <2>5. \A q \in Requests : HoldsItsRow(q)'
    BY <1>2, <2>1, <2>2, <2>4 DEF HoldsItsRow, InviteOf, Taken
  <2>6. LocksAreHeld'
    BY <2>1, <2>4 DEF LocksAreHeld, InviteOf, TypeOK
  <2>7. OfficesAreBacked' /\ KeysAreApart'
    BY <2>1, <2>2, <2>3 DEF OfficesAreBacked, KeysAreApart
  <2> QED
    BY <2>5, <2>6, <2>7
<1> QED
  BY <1>1, <1>2

(* The commit: one more office, from a row that had none and with an identity
   that had none. *)
LEMMA CommitInvites ==
  ASSUME InviteInvariant, TypeOK', NEW r \in Requests, Commit(r)
  PROVE  UsedIsBacked'
<1> USE DEF InviteInvariant, UsedIsBacked
<1> DEFINE i == InviteOf(r)
           d == call[r].identity
           new == [invite |-> i, identity |-> d]
<1>1. /\ i \in Invites
      /\ status[i] = "PENDING"
      /\ lock[i] = r
      /\ ~ Taken(d)
  BY CallFields DEF Commit, InTransaction, HoldsItsRow
<1>2. /\ status' = [status EXCEPT ![i] = "USED"]
      /\ offices' = offices \cup {new}
      /\ pc' = [pc EXCEPT ![r] = "done"]
      /\ call' = call
      /\ \A j \in Invites : lock'[j] = IF lock[j] = r THEN NoRequest ELSE lock[j]
  BY DEF Commit, Finish, Goto, Unlocked
<1>3. \A o \in offices : o.invite # i /\ o.identity # d
  BY <1>1 DEF OfficesAreBacked, Taken
<1>4. \A q \in Requests : pc'[q] \in InTransaction => pc'[q] = pc[q] /\ q # r
  BY <1>2 DEF TypeOK, InTransaction
<1>5. status'[i] = "USED" /\ \A j \in Invites : j # i => status'[j] = status[j]
  BY <1>1, <1>2 DEF TypeOK
<1>6. OfficesAreBacked'
  <2>1. \A j \in Invites : status'[j] = "USED" => \E o \in offices' : o.invite = j
    <3>1. new \in offices' /\ new.invite = i
      BY <1>2
    <3> HIDE DEF new, i
    <3> QED
      BY <1>2, <1>5, <3>1 DEF OfficesAreBacked
  <2>2. \A o \in offices' : status'[o.invite] \in {"USED", "EXPIRED"}
    BY <1>2, <1>3, <1>5 DEF OfficesAreBacked, TypeOK
  <2>3. \A o, p \in offices' : o.invite = p.invite \/ o.identity = p.identity => o = p
    BY <1>2, <1>3 DEF OfficesAreBacked
  <2> QED
    BY <2>1, <2>2, <2>3 DEF OfficesAreBacked
<1>7. ASSUME NEW q \in Requests
      PROVE  HoldsItsRow(q)'
  <2>1. CASE pc'[q] \in InTransaction
    <3>1. HoldsItsRow(q) /\ pc[q] = pc'[q] /\ q # r
      BY <1>4, <2>1
    <3>2. InviteOf(q) \in Invites /\ InviteOf(q) # i
      BY <1>1, <2>1, <3>1, CallFields DEF HoldsItsRow
    <3>3. pc[q] = "inserted" => call[q].identity # d
      BY <3>1 DEF Commit, KeysAreApart
    <3>4. pc[q] = "inserted" => ~ Taken(call[q].identity)'
      BY <1>2, <2>1, <3>1, <3>3 DEF HoldsItsRow, Taken
    <3> QED
      BY <1>2, <1>5, <2>1, <3>1, <3>2, <3>4 DEF HoldsItsRow, InviteOf
  <2> QED
    BY <2>1 DEF HoldsItsRow
<1>8. LocksAreHeld'
  BY <1>2 DEF LocksAreHeld, InviteOf, TypeOK
<1>9. KeysAreApart'
  BY <1>2, <1>4 DEF KeysAreApart, InTransaction
<1> QED
  BY <1>6, <1>7, <1>8, <1>9

-----------------------------------------------------------------------------
(* A deadline is on the clock's scale: a step that takes a time takes one that
   the clock shows. *)
LEMMA NextType ==
  ASSUME TypeOK, \A r \in Requests : HoldsItsRow(r), [Next]_vars
  PROVE  TypeOK'
<1> USE DEF Underway, InTransaction, Ended
<1>1. /\ now \in 0..MaxTime
      /\ 0 \in 0..MaxTime
      /\ now + Lifetime \in Time
      /\ now < MaxTime => now + 1 \in 0..MaxTime
  BY InviteAssumption DEF TypeOK, Time
<1>2. ASSUME NEW r \in Requests, Start(r)
      PROVE  TypeOK'
  <2>1. CASE Create(r)
    BY <1>1, <2>1 DEF Create, Goto, TypeOK
  <2> QED
    BY <1>1, <1>2, <2>1 DEF Start, BeginList, Read, Answer, TakeTime, Goto, rows, TypeOK
<1>3. ASSUME NEW r \in Requests, SweepExpired(r) \/ WriteRevoked(r) \/ WriteExpired(r)
      PROVE  TypeOK'
  BY <1>1, <1>3 DEF SweepExpired, WriteRevoked, WriteExpired, SetStatus, Finish, Goto, TypeOK
<1>4. ASSUME NEW r \in Requests, FindExpired(r) \/ FindInvite(r) \/ CheckEmail(r) \/ Begin(r)
      PROVE  TypeOK'
  BY <1>1, <1>4 DEF FindExpired, FindInvite, CheckEmail, Begin, Answer, TakeTime, Goto, rows, TypeOK
<1>5. ASSUME NEW r \in Requests, Rollback(r), Finish(r, "rejected")
      PROVE  TypeOK'
  BY <1>1, <1>5 DEF Rollback, Unlocked, Finish, Goto, TypeOK
<1>6. ASSUME NEW r \in Requests, Claim(r)
      PROVE  TypeOK'
  BY <1>1, <1>6 DEF Claim, Finish, Goto, rows, TypeOK
<1>7. ASSUME NEW r \in Requests, Insert(r)
      PROVE  TypeOK'
  BY <1>5, <1>7 DEF Insert, Answer, Goto, rows, TypeOK
<1>8. ASSUME NEW r \in Requests, Commit(r), HoldsItsRow(r)
      PROVE  TypeOK'
  <2>1. InviteOf(r) \in Invites /\ call[r].identity \in Identities
    BY <1>8, CallFields DEF Commit, HoldsItsRow
  <2> QED
    BY <1>1, <1>8, <2>1 DEF Commit, Unlocked, Finish, Goto, TypeOK
<1>9. CASE Tick
  BY <1>1, <1>9 DEF Tick, rows, TypeOK
<1>10. CASE UNCHANGED vars
  BY <1>10 DEF vars, rows, TypeOK
<1> QED
  BY <1>2, <1>3, <1>4, <1>5, <1>6, <1>7, <1>8, <1>9, <1>10 DEF Next, Proceed, Register, Lose

(* A step outside a transaction leaves the invites in order. *)
LEMMA HandlerInvites ==
  ASSUME InviteInvariant, TypeOK', NEW r \in Requests,
         Start(r) \/ Proceed(r) \/ Lose(r)
  PROVE  UsedIsBacked'
<1> USE DEF InTransaction
<1> UsedIsBacked
  BY DEF InviteInvariant
<1>1. CASE Create(r)
  <2>1. \A i \in Invites : status[i] = "none" => Free(i)
    BY InviteAssumption, CallFields DEF UsedIsBacked, HoldsItsRow, LocksAreHeld, Free, TypeOK
  <2>2. \A i \in Invites : Unclaimed(i)
    BY <1>1, <2>1 DEF Create, Unclaimed, UsedIsBacked, TypeOK
  <2> QED
    BY <1>1, <2>2, QuietInvites DEF Create
<1>2. CASE BeginList(r) \/ Read(r) \/ FindExpired(r) \/ FindInvite(r) \/ CheckEmail(r) \/ Begin(r)
  BY <1>2, QuietInvites
     DEF BeginList, Read, FindExpired, FindInvite, CheckEmail, Begin, Answer, TakeTime, rows,
         Unclaimed
<1>3. CASE SweepExpired(r)
  <2>1. \A i \in Invites : Unclaimed(i)
    BY <1>3 DEF SweepExpired, Unclaimed
  <2> QED
    BY <1>3, <2>1, QuietInvites DEF SweepExpired, Finish
<1>4. CASE WriteRevoked(r) \/ WriteExpired(r)
  <2>1. status[InviteOf(r)] # "none" /\ InviteOf(r) \in Invites
    BY <1>4, CallFields DEF InviteInvariant, UsedIsBacked, HandlersFit, WriteRevoked, WriteExpired
  <2>2. \A i \in Invites : Unclaimed(i)
    BY <1>4, <2>1 DEF WriteRevoked, WriteExpired, SetStatus, Unclaimed, UsedIsBacked, TypeOK
  <2> QED
    BY <1>4, <2>2, QuietInvites DEF WriteRevoked, WriteExpired, SetStatus, Finish
<1>5. CASE Lose(r)
  BY <1>5, RollbackInvites DEF Lose, Finish
<1> QED
  BY <1>1, <1>2, <1>3, <1>4, <1>5, ClaimInvites, InsertInvites, CommitInvites
     DEF Start, Proceed, Register

(* Every step keeps a handler in a place of its call, with its row created. *)
LEMMA NextFit ==
  ASSUME InviteInvariant, TypeOK', [Next]_vars
  PROVE  HandlersFit'
<1> USE DEF InviteInvariant, UsedIsBacked
<1>1. CASE UNCHANGED <<status, call, pc>>
  BY <1>1 DEF HandlersFit, InviteOf
<1>2. ASSUME NEW r \in Requests, NEW phase \in {"done", "listing", "rejected"}, Goto(r, phase),
             call' = call, \A i \in Invites : status[i] # "none" => status'[i] # "none"
      PROVE  HandlersFit'
  <2>1. ASSUME NEW q \in Requests, pc'[q] \in {"read", "expiring", "valid", "begun"}
        PROVE  pc'[q] = pc[q] /\ status'[InviteOf(q)] # "none"
    <3>1. pc'[q] = pc[q]
      BY <1>2, <2>1 DEF Goto, TypeOK
    <3>2. InviteOf(q) \in Invites /\ status[InviteOf(q)] # "none"
      BY <2>1, <3>1, CallFields DEF HandlersFit
    <3> QED
      BY <1>2, <3>1, <3>2
  <2> QED
    BY <1>2, <2>1 DEF HandlersFit, InviteOf
<1>3. ASSUME NEW r \in Requests, Create(r) \/ BeginList(r) \/ SweepExpired(r)
      PROVE  HandlersFit'
  BY <1>2, <1>3 DEF Create, BeginList, SweepExpired, Finish, TakeTime, rows, TypeOK
<1>4. ASSUME NEW r \in Requests, WriteRevoked(r) \/ WriteExpired(r)
      PROVE  HandlersFit'
  BY <1>2, <1>4 DEF WriteRevoked, WriteExpired, SetStatus, Finish, TypeOK
<1>5. ASSUME NEW r \in Requests,
             Read(r) \/ FindExpired(r) \/ FindInvite(r) \/ CheckEmail(r) \/ Begin(r)
      PROVE  HandlersFit'
  BY <1>5 DEF Read, FindExpired, FindInvite, CheckEmail, Begin, Answer, TakeTime, Goto, rows,
              TypeOK, HandlersFit, InviteOf
<1>6. ASSUME NEW r \in Requests, Lose(r)
      PROVE  HandlersFit'
  BY <1>2, <1>6 DEF Lose, Rollback, Finish
<1>7. ASSUME NEW r \in Requests, Claim(r) \/ Insert(r)
      PROVE  HandlersFit'
  BY <1>7 DEF Claim, Insert, Rollback, Answer, Finish, Goto, rows, TypeOK, HandlersFit, InviteOf
<1>8. ASSUME NEW r \in Requests, Commit(r)
      PROVE  HandlersFit'
  BY <1>2, <1>8 DEF Commit, Finish, TypeOK
<1> QED
  BY <1>1, <1>3, <1>4, <1>5, <1>6, <1>7, <1>8 DEF Next, Start, Proceed, Register, Tick, rows, vars

(* Every step preserves the inductive invariant of the invites. *)
LEMMA NextInvites ==
  ASSUME InviteInvariant, [Next]_vars
  PROVE  InviteInvariant'
<1>1. TypeOK'
  BY NextType DEF InviteInvariant, UsedIsBacked
<1>2. HandlersFit'
  BY <1>1, NextFit
<1>3. CASE UNCHANGED <<rows, call, pc>>
  BY <1>1, <1>2, <1>3
     DEF InviteInvariant, UsedIsBacked, OfficesAreBacked, HoldsItsRow, KeysAreApart, LocksAreHeld,
         InviteOf, Taken, rows
<1> QED
  BY <1>1, <1>2, <1>3, HandlerInvites DEF InviteInvariant, Next, Tick, rows, vars

(* The inductive invariant, in every reachable state: an invite is used exactly
   when an office was registered with it, and every handler fits its call. *)
THEOREM InvitesInOrder == Spec => []InviteInvariant
BY InitInvites, NextInvites, PTL DEF Spec

(* A USED invite has its office and an office its invite, whatever
   registrations, revocations, lists and lookups overlap, and whichever of them
   fail: a row is held by one transaction, from its claim to its end. *)
THEOREM InvitesBacked == Spec => []UsedIsBacked
BY InvitesInOrder, PTL DEF InviteInvariant

-----------------------------------------------------------------------------
(* The refinement.  An invite's phase, and the same for the next state. *)
ledgerPhase == [i \in Invites |-> PhaseOf(i)]

(* What the ledger shows of an invite, from its row and its office. *)
LEMMA PhaseCases ==
  ASSUME UsedIsBacked, NEW i \in Invites
  PROVE  /\ (\E o \in offices : o.invite = i) => PhaseOf(i) = "spent"
         /\ status[i] = "none" => PhaseOf(i) = "none"
         /\ status[i] = "PENDING" => PhaseOf(i) = "open"
         /\ status[i] \notin {"none", "PENDING"} /\ ~ (\E o \in offices : o.invite = i) =>
              PhaseOf(i) = "void"
BY DEF PhaseOf, UsedIsBacked, OfficesAreBacked

(* The same in the next state. *)
LEMMA PhaseCasesNext ==
  ASSUME UsedIsBacked', NEW i \in Invites
  PROVE  /\ (\E o \in offices' : o.invite = i) => PhaseOf(i)' = "spent"
         /\ status'[i] = "none" => PhaseOf(i)' = "none"
         /\ status'[i] = "PENDING" => PhaseOf(i)' = "open"
         /\ status'[i] \notin {"none", "PENDING"} /\ ~ (\E o \in offices' : o.invite = i) =>
              PhaseOf(i)' = "void"
BY DEF PhaseOf, UsedIsBacked, OfficesAreBacked

(* The initial state of the invites is an initial state of the ledger. *)
LEMMA InitLedger == Init => Ledger!Init
<1> SUFFICES ASSUME Init PROVE Ledger!Init
  OBVIOUS
<1>1. \A i \in Invites : PhaseOf(i) \in {"none", "open"}
  BY DEF Init, PhaseOf
<1> QED
  BY <1>1 DEF Init, Ledger!Init

(* A step that opens no office and at most makes existing invites EXPIRED
   voids those of them that were open: a spent one stays spent. *)
LEMMA VoidLedger ==
  ASSUME UsedIsBacked, UsedIsBacked', offices' = offices,
         \A i \in Invites : \/ status'[i] = status[i]
                            \/ status'[i] = "EXPIRED" /\ status[i] # "none"
  PROVE  Ledger!Next
<1> DEFINE S == {i \in Invites : status[i] = "PENDING" /\ status'[i] = "EXPIRED"}
<1>1. \A i \in S : PhaseOf(i) = "open" /\ PhaseOf(i)' = "void"
  BY PhaseCases, PhaseCasesNext DEF UsedIsBacked, OfficesAreBacked
<1>2. \A i \in Invites \ S : PhaseOf(i)' = PhaseOf(i)
  BY PhaseCases, PhaseCasesNext DEF UsedIsBacked, OfficesAreBacked, TypeOK
<1>3. \A i \in Invites : PhaseOf(i)' = IF i \in S THEN "void" ELSE PhaseOf(i)
  BY <1>1, <1>2
<1>4. S \in SUBSET Invites
  OBVIOUS
<1> HIDE DEF S
<1>5. ledgerPhase' = [i \in Invites |-> IF i \in S THEN "void" ELSE ledgerPhase[i]]
  BY <1>3 DEF ledgerPhase
<1> QED
  BY <1>1, <1>4, <1>5 DEF Ledger!Next, Ledger!Void, ledgerPhase

(* Creating an invite is a step of the ledger. *)
LEMMA IssueLedger ==
  ASSUME UsedIsBacked, UsedIsBacked', NEW r \in Requests, Create(r)
  PROVE  Ledger!Next
<1>1. PICK i \in Invites : status[i] = "none" /\ status' = [status EXCEPT ![i] = "PENDING"]
  BY DEF Create
<1>2. offices' = offices /\ status'[i] = "PENDING"
  BY <1>1 DEF Create, UsedIsBacked, TypeOK
<1>3. PhaseOf(i) = "none" /\ PhaseOf(i)' = "open"
  BY <1>1, <1>2, PhaseCases, PhaseCasesNext
<1>4. \A j \in Invites : j # i => PhaseOf(j)' = PhaseOf(j)
  BY <1>1, <1>2 DEF PhaseOf, UsedIsBacked, TypeOK
<1>5. ledgerPhase' = [ledgerPhase EXCEPT ![i] = "open"]
  BY <1>3, <1>4 DEF ledgerPhase
<1> QED
  BY <1>2, <1>3, <1>5 DEF Ledger!Next, Ledger!Issue, Ledger!Become, ledgerPhase

(* The commit of a registration spends its invite in the ledger. *)
LEMMA SpendLedger ==
  ASSUME UsedIsBacked, UsedIsBacked', NEW r \in Requests, Commit(r)
  PROVE  Ledger!Next
<1>1. PICK i \in Invites, d \in Identities : i = InviteOf(r) /\ d = call[r].identity
  BY CallFields DEF Commit, UsedIsBacked, HoldsItsRow, InTransaction
<1>2. /\ status[i] = "PENDING"
      /\ \A o \in offices : o.identity # d
      /\ status' = [status EXCEPT ![i] = "USED"]
      /\ offices' = offices \cup {[invite |-> i, identity |-> d]}
  BY <1>1 DEF Commit, UsedIsBacked, HoldsItsRow, InTransaction, Taken
<1>3. \E o \in offices' : o.invite = i
  <2>1. [invite |-> i, identity |-> d] \in offices'
    BY <1>2
  <2> QED
    BY <2>1
<1>4. PhaseOf(i) = "open" /\ PhaseOf(i)' = "spent"
  BY <1>2, <1>3, PhaseCases, PhaseCasesNext
<1>5. ASSUME NEW j \in Invites, j # i
      PROVE  PhaseOf(j)' = PhaseOf(j)
  <2>1. status'[j] = status[j]
    BY <1>2, <1>5 DEF UsedIsBacked, TypeOK
  <2>2. (\E o \in offices' : o.invite = j) <=> \E o \in offices : o.invite = j
    BY <1>2, <1>5
  <2> QED
    BY <2>1, <2>2, PhaseCases, PhaseCasesNext DEF UsedIsBacked, TypeOK
<1>6. ledgerPhase' = [ledgerPhase EXCEPT ![i] = "spent"]
  BY <1>4, <1>5 DEF ledgerPhase
<1> QED
  BY <1>2, <1>4, <1>6 DEF Ledger!Next, Ledger!Spend, Ledger!Become, ledgerPhase

(* Every step of the invites is a step of the ledger or a stutter. *)
LEMMA NextLedger ==
  ASSUME InviteInvariant, UsedIsBacked', [Next]_vars
  PROVE  [Ledger!Next]_Ledger!vars
<1> UsedIsBacked
  BY DEF InviteInvariant
<1>1. CASE UNCHANGED <<status, offices>>
  BY <1>1 DEF Ledger!vars, PhaseOf
<1>2. ASSUME NEW r \in Requests, WriteRevoked(r) \/ WriteExpired(r)
      PROVE  Ledger!Next
  <2>1. InviteOf(r) \in Invites /\ status[InviteOf(r)] # "none"
    BY <1>2, CallFields DEF InviteInvariant, UsedIsBacked, HandlersFit, WriteRevoked, WriteExpired
  <2> QED
    BY <1>2, <2>1, VoidLedger DEF WriteRevoked, WriteExpired, SetStatus, UsedIsBacked, TypeOK
<1>3. ASSUME NEW r \in Requests, SweepExpired(r)
      PROVE  Ledger!Next
  BY <1>3, VoidLedger DEF SweepExpired
<1> QED
  BY <1>1, <1>2, <1>3, IssueLedger, SpendLedger
     DEF Next, Start, Proceed, Register, BeginList, Read, FindExpired, FindInvite, CheckEmail,
         Begin, Claim, Insert, Lose, Rollback, Answer, TakeTime, Tick, rows, vars

(* The handlers of the office invites implement the ledger: query by query, with
   transactions that overlap and fail, an invite is spent on one office or made
   void, and a spent one stays spent. *)
THEOREM ImplementsInvites == Spec => KeepsInvites
<1>1. InviteInvariant /\ InviteInvariant' /\ [Next]_vars => [Ledger!Next]_Ledger!vars
  BY NextLedger DEF InviteInvariant
<1> QED
  BY <1>1, InitLedger, InvitesInOrder, PTL DEF Spec, KeepsInvites, Ledger!Spec
=============================================================================
