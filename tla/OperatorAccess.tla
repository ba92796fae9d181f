--------------------------- MODULE OperatorAccess ---------------------------
(***************************************************************************)
(* One-time operator codes (OperatorService: createAccess,                 *)
(* reissueAccessCode, revokeAccess, login) and the login rate limiter.     *)
(* Each request in Requests carries one call and is handled once.  Every   *)
(* query is a step of its own, so what a handler has read may be stale     *)
(* when it writes; the writes that matter repeat their conditions in the   *)
(* updateMany, and lose when those no longer hold.                         *)
(*                                                                         *)
(* Time is counted in ticks, Second of them to a second: tokens carry      *)
(* whole seconds, accesses and limiter windows do not.                     *)
(***************************************************************************)
EXTENDS Integers, FiniteSets

CONSTANTS
  Accesses, Auctions, AuctionOf,   \* AuctionOf[a]: the auction of access a
  Offices, HouseOf,                \* the office that owns each auction
  Codes, NoCode,                   \* one-time codes
  Addresses,                       \* the ip of a login
  Requests, Calls,
  Second, Lifetime, Window,        \* ticks in a second, ACCESS_LIFETIME_MS, WINDOW_MS
  FailureLimit,                    \* FAILURE_LIMIT, 5 in the code
  MaxTime                          \* bound of the clock

ASSUME AccessAssumption ==
  /\ AuctionOf \in [Accesses -> Auctions]
  /\ HouseOf \in [Auctions -> Offices]
  /\ NoCode \notin Codes
  /\ {Second, Lifetime, Window, FailureLimit} \subseteq Nat \ {0}
  /\ MaxTime \in Nat

CreateCall  == [kind : {"create"}, auction : Auctions, office : Offices]
ReissueCall == [kind : {"reissue"}, access : Accesses, office : Offices]
RevokeCall  == [kind : {"revoke"}, access : Accesses, office : Offices]
LoginCall   == [kind : {"login"}, code : Codes, ip : Addresses]

ASSUME AccessCallAssumption ==
  Calls \subseteq CreateCall \cup ReissueCall \cup RevokeCall \cup LoginCall

VARIABLES
  code,        \* the code whose hash is on each row, NoCode before creation
  used,        \* rows with usedAt
  revoked,     \* rows with revokedAt
  expiresAt,   \* expiry of each row
  issued,      \* codes that have been on a row
  closed,      \* auctions FINISHED or CANCELED
  sessions,    \* tokens signed
  failures,    \* the limiter: failures on record for each address
  resetsAt,    \* and when they are forgotten
  now,
  call, pc,    \* the call each request carries, and where its handler is
  stamp,       \* the time a handler took when it began
  read         \* the row a handler has read and is going to write

rows == <<code, used, revoked, expiresAt, issued>>
limiter == <<failures, resetsAt>>
vars == <<code, used, revoked, expiresAt, issued, closed, sessions,
          failures, resetsAt, now, call, pc, stamp, read>>

AccessRow == [access : Accesses, code : Codes]
Session == [by : Requests, access : Accesses, code : Codes, exp : Nat]

Underway == {"admitted", "read", "claimed", "refused"}
Phase == {"ready", "done", "rejected", "lost"} \cup Underway

TypeOK ==
  /\ code \in [Accesses -> Codes \cup {NoCode}]
  /\ used \subseteq Accesses
  /\ revoked \subseteq Accesses
  /\ expiresAt \in [Accesses -> Nat]
  /\ issued \subseteq Codes
  /\ closed \subseteq Auctions
  /\ sessions \subseteq Session
  /\ failures \in [Addresses -> Nat]
  /\ resetsAt \in [Addresses -> Nat]
  /\ now \in 0..MaxTime
  /\ call \in [Requests -> Calls]
  /\ pc \in [Requests -> Phase]
  /\ stamp \in [Requests -> 0..MaxTime]
  /\ read \in [Requests -> SUBSET AccessRow]

-----------------------------------------------------------------------------
(* OperatorLoginRateLimiter: an entry past its window counts as none. *)
Failures(ip) == IF resetsAt[ip] <= now THEN 0 ELSE failures[ip]

\* Mutant: attempts already under way step over the limit.
BlockedExactly(ip) == Failures(ip) = FailureLimit

Blocked(ip) == Failures(ip) >= FailureLimit

RecordFailure(ip) ==
  /\ failures' = [failures EXCEPT ![ip] = Failures(ip) + 1]
  /\ resetsAt' = [resetsAt EXCEPT ![ip] = IF Failures(ip) = 0 THEN now + Window ELSE @]

ClearFailures(ip) ==
  /\ failures' = [failures EXCEPT ![ip] = 0]
  /\ resetsAt' = [resetsAt EXCEPT ![ip] = 0]

-----------------------------------------------------------------------------
Exists(a) == code[a] # NoCode

\* Mutant: the row may be missing.
OwnedIfAny(a, office) == HouseOf[AuctionOf[a]] = office

OwnedBy(a, office) == Exists(a) /\ HouseOf[AuctionOf[a]] = office

\* Not used, not revoked, not expired at time t, and its auction not closed.
Pending(a, t) ==
  /\ a \notin used \cup revoked
  /\ expiresAt[a] > t
  /\ AuctionOf[a] \notin closed

Goto(r, phase) == pc' = [pc EXCEPT ![r] = phase]

Answer(r, phase) ==
  /\ Goto(r, phase)
  /\ UNCHANGED <<rows, closed, sessions, limiter, now, call, stamp, read>>

\* A handler begins: it takes the time, and a login asks the limiter first.
Arrive(r) ==
  /\ pc[r] = "ready"
  /\ call[r].kind = "login" => ~ Blocked(call[r].ip)
  /\ Goto(r, "admitted")
  /\ stamp' = [stamp EXCEPT ![r] = now]
  /\ UNCHANGED <<rows, closed, sessions, limiter, now, call, read>>

TooManyRequests(r) ==
  /\ pc[r] = "ready"
  /\ call[r].kind = "login"
  /\ Blocked(call[r].ip)
  /\ Answer(r, "rejected")

Row(a) == [access |-> a, code |-> code[a]]

\* What a handler found and keeps for its write; with nothing found it is refused.
Find(r, found, refusal) ==
  /\ pc[r] = "admitted"
  /\ read' = [read EXCEPT ![r] = found]
  /\ Goto(r, IF found = {} THEN refusal ELSE "read")
  /\ UNCHANGED <<rows, closed, sessions, limiter, now, call, stamp>>

\* The code a row gets is random: no office has seen it before.
PutCode(a) == \E c \in Codes \ issued :
  /\ code' = [code EXCEPT ![a] = c]
  /\ issued' = issued \cup {c}

-----------------------------------------------------------------------------
(* createAccess *)
CheckAuction(r) ==
  /\ call[r].kind = "create"
  /\ pc[r] = "admitted"
  /\ LET a == call[r].auction
     IN  Answer(r, IF HouseOf[a] = call[r].office /\ a \notin closed
                   THEN "read" ELSE "rejected")

StoreAccess(r) ==
  /\ call[r].kind = "create"
  /\ pc[r] = "read"
  /\ \E a \in Accesses :
       /\ ~ Exists(a)
       /\ AuctionOf[a] = call[r].auction
       /\ PutCode(a)
       /\ expiresAt' = [expiresAt EXCEPT ![a] = now + Lifetime]
  /\ Goto(r, "done")
  /\ UNCHANGED <<used, revoked, closed, sessions, limiter, now, call, stamp, read>>

Create(r) == CheckAuction(r) \/ StoreAccess(r)

-----------------------------------------------------------------------------
(* reissueAccessCode *)
ReadForReissue(r) ==
  /\ call[r].kind = "reissue"
  /\ Find(r, {Row(a) : a \in {b \in Accesses : /\ b = call[r].access
                                               /\ OwnedBy(b, call[r].office)
                                               /\ Pending(b, stamp[r])}},
          "rejected")

\* Mutant: the row must be pending, but may have got another code meanwhile.
PendingRow(row, t) == Pending(row.access, t)

\* Mutant: the code may have been used meanwhile.
SameCode(row, t) ==
  /\ code[row.access] = row.code
  /\ row.access \notin revoked
  /\ expiresAt[row.access] > t

\* The where of the updateMany.
StillPending(row, t) == code[row.access] = row.code /\ Pending(row.access, t)

ReplaceCode(r) ==
  /\ call[r].kind = "reissue"
  /\ pc[r] = "read"
  /\ \E row \in read[r] : StillPending(row, stamp[r]) /\ PutCode(row.access)
  /\ Goto(r, "done")
  /\ UNCHANGED <<used, revoked, expiresAt, closed, sessions, limiter, now, call, stamp, read>>

ReissueTooLate(r) ==
  /\ call[r].kind = "reissue"
  /\ pc[r] = "read"
  /\ \A row \in read[r] : ~ StillPending(row, stamp[r])
  /\ Answer(r, "rejected")

Reissue(r) == ReadForReissue(r) \/ ReplaceCode(r) \/ ReissueTooLate(r)

-----------------------------------------------------------------------------
(* revokeAccess: the update has no condition besides the id *)
ReadForRevoke(r) ==
  /\ call[r].kind = "revoke"
  /\ Find(r, {Row(a) : a \in {b \in Accesses : b = call[r].access /\ OwnedBy(b, call[r].office)}},
          "rejected")

WriteRevoked(r) ==
  /\ call[r].kind = "revoke"
  /\ pc[r] = "read"
  /\ revoked' = revoked \cup {row.access : row \in read[r]}
  /\ Goto(r, "done")
  /\ UNCHANGED <<code, used, expiresAt, issued, closed, sessions, limiter, now, call, stamp, read>>

Revoke(r) == ReadForRevoke(r) \/ WriteRevoked(r)

-----------------------------------------------------------------------------
(* login *)
FindCode(r) ==
  /\ call[r].kind = "login"
  /\ Find(r, {Row(a) : a \in {b \in Accesses : code[b] = call[r].code /\ Pending(b, stamp[r])}},
          "refused")

\* Mutant: the code may have been replaced since it was found.
ClaimableAnyCode(row) == row.access \notin used \cup revoked

\* Mutant: the access may have been revoked since it was found.
ClaimableRevoked(row) == code[row.access] = row.code /\ row.access \notin used

\* Mutant: the access may have been used since it was found.
ClaimableTwice(row) == code[row.access] = row.code /\ row.access \notin revoked

\* The where of the updateMany: expiry and the auction are not asked again.
Claimable(row) == code[row.access] = row.code /\ row.access \notin used \cup revoked

\* Mutant: the expiry is asked once more, after the claim.
ClaimThenCheck(r) ==
  /\ call[r].kind = "login"
  /\ pc[r] = "read"
  /\ \E row \in read[r] :
       /\ Claimable(row)
       /\ used' = used \cup {row.access}
       /\ Goto(r, IF expiresAt[row.access] > now THEN "claimed" ELSE "refused")
  /\ UNCHANGED <<code, revoked, expiresAt, issued, closed, sessions, limiter, now, call, stamp, read>>

Claim(r) ==
  /\ call[r].kind = "login"
  /\ pc[r] = "read"
  /\ \E row \in read[r] : Claimable(row) /\ used' = used \cup {row.access}
  /\ Goto(r, "claimed")
  /\ UNCHANGED <<code, revoked, expiresAt, issued, closed, sessions, limiter, now, call, stamp, read>>

ClaimTooLate(r) ==
  /\ call[r].kind = "login"
  /\ pc[r] = "read"
  /\ \A row \in read[r] : ~ Claimable(row)
  /\ Answer(r, "refused")

WholeSeconds(t) == t \div Second

AtLeastOne(n) == IF n > 1 THEN n ELSE 1

\* The token counts from the current whole second.
TokenExpiry(a) ==
  (WholeSeconds(now) + AtLeastOne(WholeSeconds(expiresAt[a] - now))) * Second

Sign(r) ==
  /\ call[r].kind = "login"
  /\ pc[r] = "claimed"
  /\ sessions' = sessions \cup
       {[by |-> r, access |-> row.access, code |-> row.code, exp |-> TokenExpiry(row.access)] :
          row \in read[r]}
  /\ ClearFailures(call[r].ip)
  /\ Goto(r, "done")
  /\ UNCHANGED <<rows, closed, now, call, stamp, read>>

ChargeFailure(r) ==
  /\ call[r].kind = "login"
  /\ pc[r] = "refused"
  /\ RecordFailure(call[r].ip)
  /\ Goto(r, "rejected")
  /\ UNCHANGED <<rows, closed, sessions, now, call, stamp, read>>

Login(r) == FindCode(r) \/ Claim(r) \/ ClaimTooLate(r) \/ Sign(r) \/ ChargeFailure(r)

-----------------------------------------------------------------------------
\* A query fails or the client is gone: what is committed stays, and since the
\* error is no UnauthorizedException the limiter is not charged.
Lose(r) ==
  /\ pc[r] \in {"admitted", "read", "claimed"}
  /\ Answer(r, "lost")

\* The process starts again: its memory and every handler under way are gone.
Restart ==
  /\ failures' = [ip \in Addresses |-> 0]
  /\ resetsAt' = [ip \in Addresses |-> 0]
  /\ pc' = [r \in Requests |-> IF pc[r] \in Underway THEN "lost" ELSE pc[r]]
  /\ UNCHANGED <<rows, closed, sessions, now, call, stamp, read>>

\* The office finishes, cancels or reopens an auction.
CloseAuction(a) ==
  /\ closed' = IF a \in closed THEN closed \ {a} ELSE closed \cup {a}
  /\ UNCHANGED <<rows, sessions, limiter, now, call, pc, stamp, read>>

Tick ==
  /\ now < MaxTime
  /\ now' = now + 1
  /\ UNCHANGED <<rows, closed, sessions, limiter, call, pc, stamp, read>>

\* Some accesses have already been created, each with a code of its own.
Init ==
  /\ code \in [Accesses -> Codes \cup {NoCode}]
  /\ \A a, b \in Accesses : a # b /\ code[a] = code[b] => code[a] = NoCode
  /\ used = {}
  /\ revoked = {}
  /\ expiresAt = [a \in Accesses |-> Lifetime]
  /\ issued = {code[a] : a \in Accesses} \ {NoCode}
  /\ closed = {}
  /\ sessions = {}
  /\ failures = [ip \in Addresses |-> 0]
  /\ resetsAt = [ip \in Addresses |-> 0]
  /\ now = 0
  /\ call \in [Requests -> Calls]
  /\ pc = [r \in Requests |-> "ready"]
  /\ stamp = [r \in Requests |-> 0]
  /\ read = [r \in Requests |-> {}]

Handle(r) == \/ Arrive(r) \/ TooManyRequests(r)
             \/ Create(r) \/ Reissue(r) \/ Revoke(r) \/ Login(r)

Next == \/ \E r \in Requests : Handle(r) \/ Lose(r)
        \/ \E a \in Auctions : CloseAuction(a)
        \/ Restart
        \/ Tick

Spec == Init /\ [][Next]_vars

-----------------------------------------------------------------------------
(* Safety *)

(* A code is traded for a session at most once, however many logins present
   it at the same time (login finds the row, then claims it). *)
OneSessionPerAccess == \A s, t \in sessions : s.access = t.access => s = t

(* A session was opened with the code that is on the row for good: the code an
   office replaced is dead, even for a login that had already found it. *)
SessionCodeIsFinal == \A s \in sessions : code[s.access] = s.code

(* Of the reissues that read the same code only one succeeds, so an office
   never holds a new code that was replaced behind its back by a request
   that had not seen it. *)
ReissuesAreLinear == \A q, r \in Requests :
  /\ call[q].kind = "reissue" /\ pc[q] = "done"
  /\ call[r].kind = "reissue" /\ pc[r] = "done"
  /\ read[q] = read[r]
  => q = r

(* An access is only ever used up for a login that got, or is about to get, or
   lost on the way the session it paid with: no refused login burns a code. *)
UsedIsPaidFor == \A a \in used :
  \/ \E s \in sessions : s.access = a
  \/ \E r \in Requests : /\ call[r].kind = "login"
                         /\ pc[r] \in {"claimed", "lost"}
                         /\ Row(a) \in read[r]

\* Logins that have claimed an access and have, or will get, its session.
Claimants == {r \in Requests : call[r].kind = "login" /\ pc[r] \in {"claimed", "done"}}

Replaced == {r \in Requests : call[r].kind = "reissue" /\ pc[r] = "done"}

(* No two rows share a code, and no code comes back once it was replaced. *)
CodesAreFresh ==
  /\ \A a, b \in Accesses : Exists(a) /\ code[a] = code[b] => a = b
  /\ \A a \in Accesses : Exists(a) => code[a] \in issued
  /\ \A r \in Requests : \A row \in read[r] : row.code \in issued
  /\ \A r \in Replaced : read[r] # {} /\ \A row \in read[r] : code[row.access] # row.code

(* A handler reads one row at most; a login that claimed it holds it alone,
   with the code it presented still on it, and only such a login has a session. *)
ClaimsAreExclusive ==
  /\ \A r \in Requests : \A x, y \in read[r] : x = y
  /\ \A r \in Claimants : \A row \in read[r] : row.access \in used /\ code[row.access] = row.code
  /\ \A q, r \in Claimants : read[q] \cap read[r] # {} => q = r
  /\ \A s \in sessions : /\ s.by \in Claimants
                         /\ pc[s.by] = "done"
                         /\ [access |-> s.access, code |-> s.code] \in read[s.by]

(* The inductive invariant of the operator codes. *)
CodesInvariant == /\ CodesAreFresh
                  /\ ClaimsAreExclusive
                  /\ OneSessionPerAccess
                  /\ SessionCodeIsFinal
                  /\ ReissuesAreLinear
                  /\ UsedIsPaidFor

(* An access revoked before it was used is never used afterwards, not even by
   a login that found it before the revocation. *)
RevokedStaysOut == [][\A a \in revoked \ used : a \notin used']_vars

(* An address over the limit starts no attempt, and stays over it until its
   window ends, a login from it succeeds or the process restarts, whatever
   its attempts still under way come to. *)
BlockedStaysBlocked == [][
  \/ Restart
  \/ \A ip \in Addresses : Blocked(ip) =>
       LET mine == {r \in Requests : call[r].kind = "login" /\ call[r].ip = ip}
       IN  /\ \A r \in mine : pc[r] = "ready" => pc'[r] # "admitted"
           /\ \/ Blocked(ip)'
              \/ now' >= resetsAt[ip]
              \/ \E r \in mine : pc[r] = "claimed" /\ pc'[r] = "done"]_vars

-----------------------------------------------------------------------------
(* The accesses keep the promises of AccessLedger. *)

PhaseOf(a) == IF ~ Exists(a) THEN "none"
              ELSE IF a \in revoked THEN "revoked"
              ELSE IF a \in used THEN "active" ELSE "pending"

ledgerPhase == [a \in Accesses |-> PhaseOf(a)]

Ledger == INSTANCE AccessLedger WITH phase <- ledgerPhase

(* Every handler, in as many steps as it takes, does to an access what one
   atomic operation of the ledger does, or nothing (createAccess,
   reissueAccessCode, revokeAccess and login, over their two queries each). *)
KeepsLedger == Ledger!Spec

-----------------------------------------------------------------------------
(* What the documents say and the code does not keep *)

(* docs/superpowers/specs/2026-09-22-buyer-ie-operator-bidding-design.md:157:
   the token does not outlive the access. *)
TokenEndsWithAccess == \A s \in sessions : s.exp <= expiresAt[s.access]
=============================================================================
