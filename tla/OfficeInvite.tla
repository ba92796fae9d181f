---------------------------- MODULE OfficeInvite ----------------------------
(***************************************************************************)
(* Office invites: created, listed and revoked by an administrator         *)
(* (AdminService), looked up and traded for an office by whoever has the   *)
(* link (AuctionHousesService).  Every query is a step; the registration   *)
(* runs in a transaction that holds the invite's row from its first        *)
(* update, through the hashing of the password, to its end, while every    *)
(* other writer of the row waits.                                          *)
(***************************************************************************)
EXTENDS Integers, FiniteSets

CONSTANTS
  Invites,
  Identities,        \* e-mail and CNPJ of an office, both unique
  Invited,           \* Invited[i]: identities whose e-mail the invite accepts
  Requests, NoRequest,
  Calls,
  Lifetime,          \* expiresInDays
  MaxTime            \* bound of the clock

CreateCall   == [kind : {"create"}]
ListCall     == [kind : {"list"}]
RevokeCall   == [kind : {"revoke"}, invite : Invites]
FindCall     == [kind : {"find"}, invite : Invites]
RegisterCall == [kind : {"register"}, invite : Invites, identity : Identities]

ASSUME InviteAssumption ==
  /\ Invited \in [Invites -> SUBSET Identities]
  /\ NoRequest \notin Requests
  /\ Calls \subseteq CreateCall \cup ListCall \cup RevokeCall \cup FindCall \cup RegisterCall
  /\ Lifetime \in Nat \ {0}
  /\ MaxTime \in Nat

VARIABLES
  status,     \* of each invite, "none" before it is created
  expiresAt,
  offices,    \* offices registered: invite and identity
  lock,       \* the transaction that has updated an invite's row, not yet ended
  now,
  call, pc,   \* the call each request carries, and where its handler is
  stamp       \* the time a handler puts into its query

rows == <<status, expiresAt, offices, lock>>
vars == <<rows, now, call, pc, stamp>>

InTransaction == {"claimed", "inserted"}
Underway == {"read", "valid", "begun", "expiring", "listing"} \cup InTransaction
Ended == {"done", "rejected"}

Time == 0..(MaxTime + Lifetime)

TypeOK ==
  /\ status \in [Invites -> {"none", "PENDING", "USED", "EXPIRED"}]
  /\ expiresAt \in [Invites -> Time]
  /\ offices \subseteq [invite : Invites, identity : Identities]
  /\ lock \in [Invites -> Requests \cup {NoRequest}]
  /\ now \in 0..MaxTime
  /\ call \in [Requests -> Calls]
  /\ pc \in [Requests -> {"ready"} \cup Underway \cup Ended]
  /\ stamp \in [Requests -> 0..MaxTime]

-----------------------------------------------------------------------------
InviteOf(r) == call[r].invite
Free(i) == lock[i] = NoRequest

Goto(r, phase) == pc' = [pc EXCEPT ![r] = phase]

Answer(r, phase) ==
  /\ Goto(r, phase)
  /\ UNCHANGED <<rows, now, call, stamp>>

\* The handler ends, and its time with it.
Finish(r, phase) ==
  /\ Goto(r, phase)
  /\ stamp' = [stamp EXCEPT ![r] = 0]

\* The time is taken in the program, when the query is built.
TakeTime(r, phase) ==
  /\ Goto(r, phase)
  /\ stamp' = [stamp EXCEPT ![r] = now]
  /\ UNCHANGED <<rows, now, call>>

SetStatus(i, s) ==
  /\ Free(i)
  /\ status' = [status EXCEPT ![i] = s]
  /\ UNCHANGED <<expiresAt, offices, lock, now, call>>

-----------------------------------------------------------------------------
(* AdminService *)

Create(r) == \E i \in Invites :
  /\ pc[r] = "ready"
  /\ call[r].kind = "create"
  /\ status[i] = "none"
  /\ status' = [status EXCEPT ![i] = "PENDING"]
  /\ expiresAt' = [expiresAt EXCEPT ![i] = now + Lifetime]
  /\ Goto(r, "done")
  /\ UNCHANGED <<offices, lock, now, call, stamp>>

BeginList(r) ==
  /\ pc[r] = "ready"
  /\ call[r].kind = "list"
  /\ TakeTime(r, "listing")

\* updateMany: one statement, which waits for the rows it has to change.
SweepExpired(r) ==
  /\ pc[r] = "listing"
  /\ LET due == {i \in Invites : status[i] = "PENDING" /\ expiresAt[i] <= stamp[r]}
     IN  /\ \A i \in due : Free(i)
         /\ status' = [i \in Invites |-> IF i \in due THEN "EXPIRED" ELSE status[i]]
  /\ Finish(r, "done")
  /\ UNCHANGED <<expiresAt, offices, lock, now, call>>

\* The query that revoke, find and register begin with.
Read(r) ==
  /\ pc[r] = "ready"
  /\ call[r].kind \in {"revoke", "find", "register"}
  /\ Answer(r, IF status[InviteOf(r)] = "PENDING" THEN "read" ELSE "rejected")

\* By id alone: what the row has become since the read is written over.
WriteRevoked(r) ==
  /\ pc[r] = "read"
  /\ call[r].kind = "revoke"
  /\ SetStatus(InviteOf(r), "EXPIRED")
  /\ Finish(r, "done")

-----------------------------------------------------------------------------
(* getValidInvite, after its query *)

Expired(r) == expiresAt[InviteOf(r)] <= now

FindExpired(r) ==
  /\ pc[r] = "read"
  /\ call[r].kind # "revoke"
  /\ Expired(r)
  /\ Answer(r, "expiring")

\* Again by token alone.
WriteExpired(r) ==
  /\ pc[r] = "expiring"
  /\ SetStatus(InviteOf(r), "EXPIRED")
  /\ Finish(r, "rejected")

FindInvite(r) ==
  /\ pc[r] = "read"
  /\ call[r].kind = "find"
  /\ ~ Expired(r)
  /\ Answer(r, "done")

-----------------------------------------------------------------------------
(* registerWithInvite and createAuctionHouseFromInvite *)

CheckEmail(r) ==
  /\ pc[r] = "read"
  /\ call[r].kind = "register"
  /\ ~ Expired(r)
  /\ Answer(r, IF call[r].identity \in Invited[InviteOf(r)] THEN "valid" ELSE "rejected")

Begin(r) ==
  /\ pc[r] = "valid"
  /\ TakeTime(r, "begun")

\* Mutant: the invite was looked at already.
ClaimableNow(r) == status[InviteOf(r)] # "none"

Claimable(r) ==
  /\ status[InviteOf(r)] = "PENDING"
  /\ expiresAt[InviteOf(r)] > stamp[r]

\* Mutant: the claim commits on its own.
ClaimAtOnce(r) ==
  /\ pc[r] = "begun"
  /\ Free(InviteOf(r))
  /\ IF Claimable(r)
     THEN /\ lock' = [lock EXCEPT ![InviteOf(r)] = r]
          /\ status' = [status EXCEPT ![InviteOf(r)] = "USED"]
          /\ Goto(r, "claimed")
          /\ UNCHANGED <<expiresAt, offices, now, call, stamp>>
     ELSE Finish(r, "rejected") /\ UNCHANGED <<rows, now, call>>

\* updateMany waits for the row, then looks at it; nobody sees USED before commit.
Claim(r) ==
  /\ pc[r] = "begun"
  /\ Free(InviteOf(r))
  /\ IF Claimable(r)
     THEN /\ lock' = [lock EXCEPT ![InviteOf(r)] = r]
          /\ Goto(r, "claimed")
          /\ UNCHANGED <<status, expiresAt, offices, now, call, stamp>>
     ELSE Finish(r, "rejected") /\ UNCHANGED <<rows, now, call>>

Unlocked(r) == [i \in Invites |-> IF lock[i] = r THEN NoRequest ELSE lock[i]]

\* Mutant: the failed transaction keeps the row.
RollbackHolding(r) == UNCHANGED <<rows, now, call>>

Rollback(r) ==
  /\ lock' = Unlocked(r)
  /\ UNCHANGED <<status, expiresAt, offices, now, call>>

Taken(d) == \E o \in offices : o.identity = d

\* A unique key that an open transaction has inserted is waited for.
Awaited(d) == \E q \in Requests : pc[q] = "inserted" /\ call[q].identity = d

Insert(r) ==
  /\ pc[r] = "claimed"
  /\ ~ Awaited(call[r].identity)
  /\ IF Taken(call[r].identity)
     THEN Rollback(r) /\ Finish(r, "rejected")
     ELSE Answer(r, "inserted")

Commit(r) ==
  /\ pc[r] = "inserted"
  /\ status' = [status EXCEPT ![InviteOf(r)] = "USED"]
  /\ offices' = offices \cup {[invite |-> InviteOf(r), identity |-> call[r].identity]}
  /\ lock' = Unlocked(r)
  /\ Finish(r, "done")
  /\ UNCHANGED <<expiresAt, now, call>>

Register(r) == CheckEmail(r) \/ Begin(r) \/ Claim(r) \/ Insert(r) \/ Commit(r)

-----------------------------------------------------------------------------
\* A query fails, the transaction times out, or the process goes: what is not
\* committed is undone, and the client is answered with an error or not at all.
Lose(r) ==
  /\ pc[r] \in Underway
  /\ Finish(r, "rejected")
  /\ Rollback(r)

Tick ==
  /\ now < MaxTime
  /\ now' = now + 1
  /\ UNCHANGED <<rows, call, pc, stamp>>

Init ==
  /\ status \in [Invites -> {"none", "PENDING"}]
  /\ expiresAt = [i \in Invites |-> Lifetime]
  /\ offices = {}
  /\ lock = [i \in Invites |-> NoRequest]
  /\ now = 0
  /\ call \in [Requests -> Calls]
  /\ pc = [r \in Requests |-> "ready"]
  /\ stamp = [r \in Requests |-> 0]

Start(r) == Create(r) \/ BeginList(r) \/ Read(r)

Proceed(r) == \/ SweepExpired(r) \/ WriteRevoked(r)
              \/ FindExpired(r) \/ WriteExpired(r) \/ FindInvite(r)
              \/ Register(r)

Next == \/ \E r \in Requests : Start(r) \/ Proceed(r) \/ Lose(r)
        \/ Tick

(* A handler that has begun goes on: queries are answered, locks are granted. *)
Fairness == \A r \in Requests : WF_vars(Proceed(r))

Spec == Init /\ [][Next]_vars /\ Fairness

-----------------------------------------------------------------------------
(* Safety *)

OfficesAreBacked ==
  /\ \A i \in Invites : status[i] = "USED" => \E o \in offices : o.invite = i
  /\ \A o \in offices : status[o.invite] \in {"USED", "EXPIRED"}
  /\ \A o, p \in offices : o.invite = p.invite \/ o.identity = p.identity => o = p

HoldsItsRow(r) == pc[r] \in InTransaction =>
  /\ call[r].kind = "register"
  /\ lock[InviteOf(r)] = r
  /\ status[InviteOf(r)] = "PENDING"
  /\ pc[r] = "inserted" => ~ Taken(call[r].identity)

KeysAreApart == \A q, r \in Requests :
  pc[q] = "inserted" /\ pc[r] = "inserted" /\ call[q].identity = call[r].identity => q = r

LocksAreHeld == \A i \in Invites : lock[i] # NoRequest =>
  pc[lock[i]] \in InTransaction /\ InviteOf(lock[i]) = i

(* A USED invite has its office: no failed or interrupted registration burns
   one.  An office's invite is USED, or EXPIRED by a revocation or a late
   reader that did not look again; invites and identities open one office.
   A row is held by the one transaction that is between its claim and its end
   (createAuctionHouseFromInvite). *)
UsedIsBacked ==
  /\ TypeOK
  /\ OfficesAreBacked
  /\ \A r \in Requests : HoldsItsRow(r)
  /\ KeysAreApart
  /\ LocksAreHeld

(* Every request that has begun ends, whatever rows and keys it waits for. *)
EveryInviteCallEnds == \A r \in Requests : pc[r] \in Underway ~> pc[r] \in Ended

-----------------------------------------------------------------------------
(* The invites keep the promises of InviteLedger. *)

PhaseOf(i) == CASE \E o \in offices : o.invite = i -> "spent"
                [] status[i] = "none" -> "none"
                [] status[i] = "PENDING" -> "open"
                [] OTHER -> "void"

Ledger == INSTANCE InviteLedger WITH phase <- [i \in Invites |-> PhaseOf(i)]

(* Query by query, with transactions that overlap, the handlers do to invites
   and offices what the atomic operations of the ledger do: a void invite
   opens no office, and a spent one stays spent even when its row is written
   over with EXPIRED. *)
KeepsInvites == Ledger!Spec
=============================================================================
