------------------------ MODULE OperatorAccessProofs ------------------------
(***************************************************************************)
(* Proofs about OperatorAccess, for any number of accesses and requests.   *)
(***************************************************************************)
EXTENDS OperatorAccess, TLAPS

(* Whole seconds are integers, and none is negative at a time that is not. *)
LEMMA SecondsType ==
  ASSUME NEW t \in Int
  PROVE  /\ WholeSeconds(t) \in Int
         /\ t \in Nat => WholeSeconds(t) \in Nat
BY AccessAssumption DEF WholeSeconds

(* A token carries a time of its own, even when its access is over. *)
LEMMA TokenExpiryType ==
  ASSUME TypeOK, NEW a \in Accesses
  PROVE  TokenExpiry(a) \in Nat
<1>1. now \in Nat /\ expiresAt[a] \in Nat /\ Second \in Nat
  BY AccessAssumption DEF TypeOK
<1>2. WholeSeconds(now) \in Nat /\ WholeSeconds(expiresAt[a] - now) \in Int
  BY <1>1, SecondsType
<1>3. AtLeastOne(WholeSeconds(expiresAt[a] - now)) \in Nat
  BY <1>2 DEF AtLeastOne
<1>4. \A m, n \in Nat : m * n \in Nat
  OBVIOUS
<1> QED
  BY <1>1, <1>2, <1>3, <1>4 DEF TokenExpiry

(* The initial state has its types. *)
LEMMA InitType == Init => TypeOK
BY AccessAssumption DEF Init, TypeOK, Phase, Underway

(* Every handler keeps the types. *)
LEMMA CreateType ==
  ASSUME TypeOK, NEW r \in Requests, Create(r)
  PROVE  TypeOK'
<1>1. CASE CheckAuction(r)
  BY <1>1 DEF CheckAuction, Answer, Goto, TypeOK, Phase, Underway, rows, limiter
<1>2. CASE StoreAccess(r)
  <2>1. PICK a \in Accesses :
          PutCode(a) /\ expiresAt' = [expiresAt EXCEPT ![a] = now + Lifetime]
    BY <1>2 DEF StoreAccess
  <2>2. now + Lifetime \in Nat
    BY AccessAssumption DEF TypeOK
  <2>3. code' \in [Accesses -> Codes \cup {NoCode}] /\ issued' \subseteq Codes
    BY <2>1 DEF PutCode, TypeOK
  <2> QED
    BY <1>2, <2>1, <2>2, <2>3 DEF StoreAccess, Goto, TypeOK, Phase, Underway, limiter
<1> QED
  BY <1>1, <1>2 DEF Create

(* The rows of existing accesses are rows. *)
LEMMA FoundRows ==
  ASSUME TypeOK, NEW S \in SUBSET Accesses, \A a \in S : Exists(a)
  PROVE  {Row(a) : a \in S} \in SUBSET AccessRow
BY DEF TypeOK, Exists, Row, AccessRow

(* A query keeps the types. *)
LEMMA FindType ==
  ASSUME TypeOK, NEW r \in Requests, NEW found \in SUBSET AccessRow,
         NEW refusal \in {"rejected", "refused"}, Find(r, found, refusal)
  PROVE  TypeOK'
BY DEF Find, Goto, TypeOK, Phase, Underway, rows, limiter

(* The steps of a reissue keep the types. *)
LEMMA ReissueType ==
  ASSUME TypeOK, NEW r \in Requests, Reissue(r)
  PROVE  TypeOK'
<1>1. CASE ReadForReissue(r)
  <2> DEFINE S == {b \in Accesses : /\ b = call[r].access
                                    /\ OwnedBy(b, call[r].office)
                                    /\ Pending(b, stamp[r])}
  <2>1. {Row(a) : a \in S} \in SUBSET AccessRow
    BY FoundRows DEF OwnedBy
  <2> QED
    BY <1>1, <2>1, FindType DEF ReadForReissue
<1>2. CASE ReplaceCode(r)
  <2>1. PICK row \in AccessRow : PutCode(row.access)
    BY <1>2 DEF ReplaceCode, TypeOK
  <2>2. code' \in [Accesses -> Codes \cup {NoCode}] /\ issued' \subseteq Codes
    BY <2>1 DEF PutCode, TypeOK, AccessRow
  <2> QED
    BY <1>2, <2>2 DEF ReplaceCode, Goto, TypeOK, Phase, Underway, limiter
<1>3. CASE ReissueTooLate(r)
  BY <1>3 DEF ReissueTooLate, Answer, Goto, TypeOK, Phase, Underway, rows, limiter
<1> QED
  BY <1>1, <1>2, <1>3 DEF Reissue

(* The steps of a revocation keep the types. *)
LEMMA RevokeType ==
  ASSUME TypeOK, NEW r \in Requests, Revoke(r)
  PROVE  TypeOK'
<1>1. CASE ReadForRevoke(r)
  <2> DEFINE S == {b \in Accesses : b = call[r].access /\ OwnedBy(b, call[r].office)}
  <2>1. {Row(a) : a \in S} \in SUBSET AccessRow
    BY FoundRows DEF OwnedBy
  <2> QED
    BY <1>1, <2>1, FindType DEF ReadForRevoke
<1>2. CASE WriteRevoked(r)
  <2>1. revoked' \subseteq Accesses
    BY <1>2 DEF WriteRevoked, TypeOK, AccessRow
  <2> QED
    BY <1>2, <2>1 DEF WriteRevoked, Goto, TypeOK, Phase, Underway, limiter
<1> QED
  BY <1>1, <1>2 DEF Revoke

(* A charged failure leaves a count and an end of window. *)
LEMMA FailureType ==
  ASSUME TypeOK, NEW ip \in Addresses, RecordFailure(ip)
  PROVE  failures' \in [Addresses -> Nat] /\ resetsAt' \in [Addresses -> Nat]
<1>1. Failures(ip) \in Nat /\ Failures(ip) + 1 \in Nat /\ now + Window \in Nat
  BY AccessAssumption DEF Failures, TypeOK
<1>2. failures' \in [Addresses -> Nat]
  BY <1>1 DEF RecordFailure, TypeOK
<1>3. resetsAt[ip] \in Nat /\ resetsAt \in [Addresses -> Nat]
  BY DEF TypeOK
<1>4. resetsAt' \in [Addresses -> Nat]
  BY <1>1, <1>3 DEF RecordFailure
<1> QED
  BY <1>2, <1>4

(* The steps of a login keep the types. *)
LEMMA LoginType ==
  ASSUME TypeOK, NEW r \in Requests, Login(r)
  PROVE  TypeOK'
<1>0. call[r] \in Calls
  BY DEF TypeOK
<1>i. call[r].kind = "login" => call[r].ip \in Addresses
  BY <1>0, AccessCallAssumption DEF CreateCall, ReissueCall, RevokeCall, LoginCall
<1>1. CASE FindCode(r)
  <2> DEFINE S == {b \in Accesses : code[b] = call[r].code /\ Pending(b, stamp[r])}
  <2>1. call[r].kind = "login" => call[r].code \in Codes
    BY <1>0, AccessCallAssumption DEF CreateCall, ReissueCall, RevokeCall, LoginCall
  <2>2. \A a \in S : Exists(a)
    BY <1>1, <2>1, AccessAssumption DEF FindCode, Exists
  <2>3. {Row(a) : a \in S} \in SUBSET AccessRow
    BY <2>2, FoundRows
  <2> QED
    BY <1>1, <2>3, FindType DEF FindCode
<1>2. CASE Claim(r)
  <2>1. used' \subseteq Accesses
    BY <1>2 DEF Claim, TypeOK, AccessRow
  <2> QED
    BY <1>2, <2>1 DEF Claim, Goto, TypeOK, Phase, Underway, limiter
<1>3. CASE ClaimTooLate(r)
  BY <1>3 DEF ClaimTooLate, Answer, Goto, TypeOK, Phase, Underway, rows, limiter
<1>4. CASE Sign(r)
  <2> DEFINE opened == {[by |-> r, access |-> row.access, code |-> row.code,
                         exp |-> TokenExpiry(row.access)] : row \in read[r]}
  <2>1. opened \subseteq Session
    <3> SUFFICES ASSUME NEW row \in read[r]
                 PROVE  [by |-> r, access |-> row.access, code |-> row.code,
                         exp |-> TokenExpiry(row.access)] \in Session
      OBVIOUS
    <3>1. row.access \in Accesses /\ row.code \in Codes
      BY DEF TypeOK, AccessRow
    <3> QED
      BY <3>1, TokenExpiryType DEF Session
  <2>2. failures' \in [Addresses -> Nat] /\ resetsAt' \in [Addresses -> Nat]
    BY <1>4, <1>i DEF Sign, ClearFailures, TypeOK
  <2> QED
    BY <1>4, <2>1, <2>2 DEF Sign, Goto, TypeOK, Phase, Underway, rows
<1>5. CASE ChargeFailure(r)
  <2>2. failures' \in [Addresses -> Nat] /\ resetsAt' \in [Addresses -> Nat]
    BY <1>5, <1>i, FailureType DEF ChargeFailure
  <2> QED
    BY <1>5, <2>2 DEF ChargeFailure, Goto, TypeOK, Phase, Underway, rows
<1> QED
  BY <1>1, <1>2, <1>3, <1>4, <1>5 DEF Login

(* Every step keeps the types. *)
LEMMA NextType ==
  ASSUME TypeOK, [Next]_vars
  PROVE  TypeOK'
<1>1. ASSUME NEW r \in Requests, Handle(r)
      PROVE  TypeOK'
  <2>1. CASE Arrive(r)
    BY <2>1 DEF Arrive, Goto, TypeOK, Phase, Underway, rows, limiter
  <2>2. CASE TooManyRequests(r)
    BY <2>2 DEF TooManyRequests, Answer, Goto, TypeOK, Phase, Underway, rows, limiter
  <2> QED
    BY <1>1, <2>1, <2>2, CreateType, ReissueType, RevokeType, LoginType DEF Handle
<1>2. ASSUME NEW r \in Requests, Lose(r)
      PROVE  TypeOK'
  BY <1>2 DEF Lose, Answer, Goto, TypeOK, Phase, Underway, rows, limiter
<1>3. ASSUME NEW a \in Auctions, CloseAuction(a)
      PROVE  TypeOK'
  BY <1>3 DEF CloseAuction, TypeOK, rows, limiter
<1>4. CASE Restart
  BY <1>4 DEF Restart, TypeOK, Phase, Underway, rows
<1>5. CASE Tick
  BY <1>5, AccessAssumption DEF Tick, TypeOK, rows, limiter
<1>6. CASE UNCHANGED vars
  BY <1>6 DEF vars, TypeOK
<1> QED
  BY <1>1, <1>2, <1>3, <1>4, <1>5, <1>6 DEF Next

(* Every variable keeps its type in every handler of the operator module. *)
THEOREM TypeCorrect == Spec => []TypeOK
BY InitType, NextType, PTL DEF Spec

-----------------------------------------------------------------------------
(* The inductive invariant of the codes *)

(* Before any access the promises about codes hold. *)
LEMMA InitCodes == Init => CodesInvariant
<1> SUFFICES ASSUME Init PROVE CodesInvariant
  OBVIOUS
<1>1. CodesAreFresh
  BY DEF Init, CodesAreFresh, Exists, Replaced
<1>2. ClaimsAreExclusive
  BY DEF Init, ClaimsAreExclusive, Claimants
<1> QED
  BY <1>1, <1>2 DEF Init, CodesInvariant, OneSessionPerAccess, SessionCodeIsFinal,
                    ReissuesAreLinear, UsedIsPaidFor

(* A step that writes no code, no use and no session, in which no login makes
   a claim and no reissue succeeds, keeps the invariant. *)
LEMMA QuietCodes ==
  ASSUME TypeOK, CodesInvariant,
         UNCHANGED <<code, used, issued, sessions, call, read>>,
         \A r \in Requests : /\ pc'[r] = "claimed" => pc[r] = "claimed"
                             /\ pc[r] = "claimed" => pc'[r] \in {"claimed", "lost"}
                             /\ pc[r] = "lost" => pc'[r] = "lost"
                             /\ call[r].kind # "revoke" /\ call[r].kind # "create"
                                  => (pc'[r] = "done" <=> pc[r] = "done")
  PROVE  CodesInvariant'
<1>1. Claimants' \subseteq Claimants /\ Replaced' = Replaced
  BY DEF Claimants, Replaced
<1>2. CodesAreFresh'
  BY <1>1 DEF CodesInvariant, CodesAreFresh, Exists
<1>3. \A s \in sessions : s.by \in Claimants' /\ pc'[s.by] = "done"
  <2> SUFFICES ASSUME NEW s \in sessions
               PROVE  s.by \in Claimants' /\ pc'[s.by] = "done"
    OBVIOUS
  <2>1. s.by \in Claimants /\ pc[s.by] = "done"
    BY DEF CodesInvariant, ClaimsAreExclusive
  <2>2. s.by \in Requests /\ call[s.by].kind = "login"
    BY <2>1 DEF Claimants
  <2>3. pc'[s.by] = "done"
    BY <2>1, <2>2
  <2> QED
    BY <2>2, <2>3 DEF Claimants
<1>4. ClaimsAreExclusive'
  BY <1>1, <1>3 DEF CodesInvariant, ClaimsAreExclusive
<1>5. OneSessionPerAccess' /\ SessionCodeIsFinal'
  BY DEF CodesInvariant, OneSessionPerAccess, SessionCodeIsFinal
<1>6. ReissuesAreLinear'
  <2>1. \A q, r \in Replaced : read[q] = read[r] => q = r
    BY DEF CodesInvariant, ReissuesAreLinear, Replaced
  <2>2. \A q, r \in Replaced' : read'[q] = read'[r] => q = r
    BY <2>1, <1>1
  <2> QED
    BY <2>2 DEF ReissuesAreLinear, Replaced
<1>7. UsedIsPaidFor'
  <2> SUFFICES ASSUME NEW a \in used, \A s \in sessions : s.access # a
               PROVE  \E r \in Requests : /\ call[r].kind = "login"
                                          /\ pc'[r] \in {"claimed", "lost"}
                                          /\ Row(a) \in read[r]
    BY DEF UsedIsPaidFor, Row
  <2>1. PICK r \in Requests : /\ call[r].kind = "login"
                              /\ pc[r] \in {"claimed", "lost"}
                              /\ Row(a) \in read[r]
    BY DEF CodesInvariant, UsedIsPaidFor
  <2> QED
    BY <2>1
<1> QED
  BY <1>2, <1>4, <1>5, <1>6, <1>7 DEF CodesInvariant

(* A handler that reads a row changes nothing the others rely on. *)
LEMMA FindCodes ==
  ASSUME TypeOK, CodesInvariant, NEW r \in Requests,
         NEW found, NEW refusal \in {"rejected", "refused"}, Find(r, found, refusal),
         \A x, y \in found : x = y,
         \A row \in found : row.code \in issued
  PROVE  CodesInvariant'
<1>1. /\ pc[r] = "admitted"
      /\ pc' = [pc EXCEPT ![r] = IF found = {} THEN refusal ELSE "read"]
      /\ read' = [read EXCEPT ![r] = found]
      /\ UNCHANGED <<code, used, issued, sessions, call>>
  BY DEF Find, Goto, rows
<1>2. \A q \in Requests : q # r => pc'[q] = pc[q] /\ read'[q] = read[q]
  BY <1>1 DEF TypeOK
<1>3. pc'[r] \notin {"claimed", "done", "lost"} /\ read'[r] = found
  BY <1>1 DEF TypeOK
<1>4. Claimants' = Claimants /\ Replaced' = Replaced /\ r \notin Claimants \cup Replaced
  BY <1>1, <1>2, <1>3 DEF Claimants, Replaced
<1>5. CodesAreFresh'
  <2>1. \A q \in Requests : \A row \in read'[q] : row.code \in issued
    BY <1>2, <1>3 DEF CodesInvariant, CodesAreFresh
  <2>2. \A q \in Replaced : read'[q] # {} /\ \A row \in read'[q] : code[row.access] # row.code
    BY <1>2, <1>4 DEF CodesInvariant, CodesAreFresh, Replaced
  <2> QED
    BY <1>1, <1>4, <2>1, <2>2 DEF CodesInvariant, CodesAreFresh, Exists
<1>6. ClaimsAreExclusive'
  <2>1. \A q \in Requests : \A x, y \in read'[q] : x = y
    BY <1>2, <1>3 DEF CodesInvariant, ClaimsAreExclusive
  <2>2. \A q \in Claimants : read'[q] = read[q] /\ pc'[q] = pc[q]
    BY <1>2, <1>4 DEF Claimants
  <2>3. \A q \in Claimants : \A row \in read'[q] : row.access \in used /\ code[row.access] = row.code
    BY <2>2 DEF CodesInvariant, ClaimsAreExclusive
  <2>4. \A p, q \in Claimants : read'[p] \cap read'[q] # {} => p = q
    BY <2>2 DEF CodesInvariant, ClaimsAreExclusive
  <2>5. \A s \in sessions : /\ s.by \in Claimants
                            /\ pc'[s.by] = "done"
                            /\ [access |-> s.access, code |-> s.code] \in read'[s.by]
    BY <2>2 DEF CodesInvariant, ClaimsAreExclusive
  <2> QED
    BY <1>1, <1>4, <2>1, <2>3, <2>4, <2>5 DEF ClaimsAreExclusive
<1>7. OneSessionPerAccess' /\ SessionCodeIsFinal'
  BY <1>1 DEF CodesInvariant, OneSessionPerAccess, SessionCodeIsFinal
<1>8. ReissuesAreLinear'
  <2>1. \A p, q \in Replaced : read'[p] = read'[q] => p = q
    BY <1>2, <1>4 DEF CodesInvariant, ReissuesAreLinear, Replaced
  <2> QED
    BY <1>4, <2>1 DEF ReissuesAreLinear, Replaced
<1>9. UsedIsPaidFor'
  <2> SUFFICES ASSUME NEW a \in used, \A s \in sessions : s.access # a
               PROVE  \E q \in Requests : /\ call[q].kind = "login"
                                          /\ pc'[q] \in {"claimed", "lost"}
                                          /\ Row(a) \in read'[q]
    BY <1>1 DEF UsedIsPaidFor, Row
  <2>1. PICK q \in Requests : /\ call[q].kind = "login"
                              /\ pc[q] \in {"claimed", "lost"}
                              /\ Row(a) \in read[q]
    BY DEF CodesInvariant, UsedIsPaidFor
  <2> QED
    BY <2>1, <1>1, <1>2
<1> QED
  BY <1>5, <1>6, <1>7, <1>8, <1>9 DEF CodesInvariant

(* What the rows a handler looks for have in common. *)
LEMMA RowsFound ==
  ASSUME TypeOK, CodesInvariant, NEW S \in SUBSET Accesses,
         \A a \in S : Exists(a), \A a, b \in S : code[a] = code[b] \/ a = b
  PROVE  /\ \A x, y \in {Row(a) : a \in S} : x = y
         /\ \A row \in {Row(a) : a \in S} : row.code \in issued
<1>1. \A a, b \in S : a = b
  BY DEF CodesInvariant, CodesAreFresh
<1> QED
  BY <1>1 DEF CodesInvariant, CodesAreFresh, Row

(* A read changes no code: what a handler knows of a row is what it holds. *)
LEMMA ReadCodes ==
  ASSUME TypeOK, CodesInvariant, NEW r \in Requests,
         ReadForReissue(r) \/ ReadForRevoke(r) \/ FindCode(r)
  PROVE  CodesInvariant'
<1>1. CASE ReadForReissue(r)
  <2> DEFINE S == {b \in Accesses : /\ b = call[r].access
                                    /\ OwnedBy(b, call[r].office)
                                    /\ Pending(b, stamp[r])}
  <2>1. \A a \in S : Exists(a)
    BY DEF OwnedBy
  <2>2. \A a, b \in S : code[a] = code[b] \/ a = b
    OBVIOUS
  <2>3. Find(r, {Row(a) : a \in S}, "rejected")
    BY <1>1 DEF ReadForReissue
  <2> HIDE DEF S
  <2>4. S \in SUBSET Accesses
    BY DEF S
  <2> QED
    BY <2>1, <2>2, <2>3, <2>4, RowsFound, FindCodes
<1>2. CASE ReadForRevoke(r)
  <2> DEFINE S == {b \in Accesses : b = call[r].access /\ OwnedBy(b, call[r].office)}
  <2>1. \A a \in S : Exists(a)
    BY DEF OwnedBy
  <2>2. \A a, b \in S : code[a] = code[b] \/ a = b
    OBVIOUS
  <2>3. Find(r, {Row(a) : a \in S}, "rejected")
    BY <1>2 DEF ReadForRevoke
  <2> HIDE DEF S
  <2>4. S \in SUBSET Accesses
    BY DEF S
  <2> QED
    BY <2>1, <2>2, <2>3, <2>4, RowsFound, FindCodes
<1>3. CASE FindCode(r)
  <2> DEFINE S == {b \in Accesses : code[b] = call[r].code /\ Pending(b, stamp[r])}
  <2>1. call[r].code \in Codes
    BY <1>3, AccessCallAssumption
       DEF FindCode, TypeOK, CreateCall, ReissueCall, RevokeCall, LoginCall
  <2>2. \A a \in S : Exists(a)
    BY <2>1, AccessAssumption DEF Exists
  <2>3. \A a, b \in S : code[a] = code[b] \/ a = b
    OBVIOUS
  <2>4. Find(r, {Row(a) : a \in S}, "refused")
    BY <1>3 DEF FindCode
  <2> HIDE DEF S
  <2>5. S \in SUBSET Accesses
    BY DEF S
  <2> QED
    BY <2>2, <2>3, <2>4, <2>5, RowsFound, FindCodes
<1> QED
  BY <1>1, <1>2, <1>3

(* A used access exists. *)
LEMMA UsedExists ==
  ASSUME TypeOK, CodesInvariant, NEW a \in used
  PROVE  Exists(a)
<1>1. CASE \E s \in sessions : s.access = a
  <2>1. PICK s \in sessions : s.access = a
    BY <1>1
  <2>2. s.code \in Codes /\ code[a] = s.code
    BY <2>1 DEF CodesInvariant, SessionCodeIsFinal, TypeOK, Session
  <2> QED
    BY <2>2, AccessAssumption DEF Exists
<1>2. CASE \E r \in Requests : Row(a) \in read[r]
  BY <1>2, AccessAssumption DEF TypeOK, AccessRow, Row, Exists
<1> QED
  BY <1>1, <1>2 DEF CodesInvariant, UsedIsPaidFor

(* A session is a claim: its access is used. *)
LEMMA SessionsUsed ==
  ASSUME CodesInvariant, NEW s \in sessions
  PROVE  s.access \in used
<1> DEFINE row == [access |-> s.access, code |-> s.code]
<1>1. s.by \in Claimants /\ row \in read[s.by]
  BY DEF CodesInvariant, ClaimsAreExclusive
<1>2. row.access \in used
  BY <1>1 DEF CodesInvariant, ClaimsAreExclusive
<1> QED
  BY <1>2

(* A fresh code on an access nobody has used disturbs no claim. *)
LEMMA PutCodes ==
  ASSUME TypeOK, CodesInvariant, NEW a \in Accesses, a \notin used, PutCode(a),
         UNCHANGED <<used, sessions, call>>,
         NEW r \in Requests, UNCHANGED read, call[r].kind # "login",
         pc' = [pc EXCEPT ![r] = "done"],
         pc[r] # "done",
         call[r].kind = "reissue" => Row(a) \in read[r]
  PROVE  CodesInvariant'
<1>1. PICK c \in Codes \ issued : /\ code' = [code EXCEPT ![a] = c]
                                  /\ issued' = issued \cup {c}
  BY DEF PutCode
<1>2. code'[a] = c /\ \A b \in Accesses : b # a => code'[b] = code[b]
  BY <1>1 DEF TypeOK
<1>3. Claimants' = Claimants /\ Replaced' = Replaced \cup {q \in {r} : call[q].kind = "reissue"}
  BY DEF Claimants, Replaced, TypeOK
<1>4. \A q \in Requests : \A row \in read[q] : row.access \in Accesses /\ row.code \in issued
  BY DEF CodesInvariant, CodesAreFresh, TypeOK, AccessRow
<1>5. CodesAreFresh'
  <2>1. \A x, y \in Accesses : code'[x] # NoCode /\ code'[x] = code'[y] => x = y
    BY <1>1, <1>2 DEF CodesInvariant, CodesAreFresh, Exists
  <2>2. \A x \in Accesses : code'[x] # NoCode => code'[x] \in issued'
    BY <1>1, <1>2 DEF CodesInvariant, CodesAreFresh, Exists
  <2>3. \A q \in Requests : \A row \in read[q] : row.code \in issued'
    BY <1>1, <1>4
  <2>4. \A q \in Replaced : read[q] # {} /\ \A row \in read[q] : code'[row.access] # row.code
    <3> SUFFICES ASSUME NEW q \in Replaced
                 PROVE  read[q] # {} /\ \A row \in read[q] : code'[row.access] # row.code
      OBVIOUS
    <3>1. q \in Requests /\ read[q] # {} /\ \A row \in read[q] : code[row.access] # row.code
      BY DEF CodesInvariant, CodesAreFresh, Replaced
    <3> QED
      BY <3>1, <1>1, <1>2, <1>4
  <2>5. call[r].kind = "reissue" =>
          read[r] # {} /\ \A row \in read[r] : code'[row.access] # row.code
    <3> SUFFICES ASSUME call[r].kind = "reissue"
                 PROVE  read[r] # {} /\ \A row \in read[r] : code'[row.access] # row.code
      OBVIOUS
    <3>1. \A row \in read[r] : row = Row(a)
      BY DEF CodesInvariant, ClaimsAreExclusive
    <3>2. \A row \in read[r] : row.access = a /\ row.code \in issued
      BY <3>1, <1>4 DEF Row
    <3> QED
      BY <3>2, <1>1, <1>2
  <2> QED
    BY <1>3, <2>1, <2>2, <2>3, <2>4, <2>5 DEF CodesAreFresh, Exists
<1>6. ClaimsAreExclusive'
  <2>1. \A q \in Claimants : \A row \in read[q] : row.access \in used /\ code'[row.access] = row.code
    <3> SUFFICES ASSUME NEW q \in Claimants, NEW row \in read[q]
                 PROVE  row.access \in used /\ code'[row.access] = row.code
      OBVIOUS
    <3>1. q \in Requests /\ row.access \in used /\ code[row.access] = row.code
      BY DEF CodesInvariant, ClaimsAreExclusive, Claimants
    <3> QED
      BY <3>1, <1>2, <1>4
  <2>2. \A s \in sessions : /\ s.by \in Claimants
                            /\ pc'[s.by] = "done"
                            /\ [access |-> s.access, code |-> s.code] \in read[s.by]
    BY DEF CodesInvariant, ClaimsAreExclusive, Claimants, TypeOK
  <2>3. /\ \A q \in Requests : \A x, y \in read[q] : x = y
        /\ \A p, q \in Claimants : read[p] \cap read[q] # {} => p = q
    BY DEF CodesInvariant, ClaimsAreExclusive
  <2> QED
    BY <1>3, <2>1, <2>2, <2>3 DEF ClaimsAreExclusive
<1>7. \A b \in used : code'[b] = code[b]
  BY <1>2 DEF TypeOK
<1>8. OneSessionPerAccess' /\ SessionCodeIsFinal'
  <2>1. \A s \in sessions : s.access \in used
    BY SessionsUsed
  <2> QED
    BY <1>7, <2>1 DEF CodesInvariant, OneSessionPerAccess, SessionCodeIsFinal
<1>9. ReissuesAreLinear'
  <2>1. \A p, q \in Replaced : read[p] = read[q] => p = q
    BY DEF CodesInvariant, ReissuesAreLinear, Replaced
  <2>2. ASSUME call[r].kind = "reissue", NEW q \in Replaced
        PROVE  read[q] # read[r]
    <3>1. q \in Requests /\ \A row \in read[q] : code[row.access] # row.code
      BY DEF CodesInvariant, CodesAreFresh, Replaced
    <3>2. Row(a) \in read[r] /\ Row(a).access = a /\ Row(a).code = code[a]
      BY <2>2 DEF Row
    <3> QED
      BY <3>1, <3>2
  <2>3. \A p, q \in Replaced' : read[p] = read[q] => p = q
    BY <1>3, <2>1, <2>2
  <2> QED
    BY <2>3 DEF ReissuesAreLinear, Replaced
<1>10. UsedIsPaidFor'
  <2> SUFFICES ASSUME NEW b \in used, \A s \in sessions : s.access # b
               PROVE  \E q \in Requests : /\ call[q].kind = "login"
                                          /\ pc'[q] \in {"claimed", "lost"}
                                          /\ [access |-> b, code |-> code'[b]] \in read[q]
    BY DEF UsedIsPaidFor, Row
  <2>1. PICK q \in Requests : /\ call[q].kind = "login"
                              /\ pc[q] \in {"claimed", "lost"}
                              /\ [access |-> b, code |-> code[b]] \in read[q]
    BY DEF CodesInvariant, UsedIsPaidFor, Row
  <2>2. q # r /\ pc'[q] = pc[q]
    BY <2>1 DEF TypeOK
  <2> QED
    BY <2>1, <2>2, <1>7
<1> QED
  BY <1>5, <1>6, <1>8, <1>9, <1>10 DEF CodesInvariant

(* A stored or a replaced code is a new one, unknown to every other row. *)
LEMMA WriteCodes ==
  ASSUME TypeOK, CodesInvariant, NEW r \in Requests, StoreAccess(r) \/ ReplaceCode(r)
  PROVE  CodesInvariant'
<1>1. CASE StoreAccess(r)
  <2>1. PICK a \in Accesses : ~ Exists(a) /\ PutCode(a)
    BY <1>1 DEF StoreAccess
  <2>2. a \notin used
    BY <2>1, UsedExists
  <2> QED
    BY <1>1, <2>1, <2>2, PutCodes DEF StoreAccess, Goto
<1>2. CASE ReplaceCode(r)
  <2>1. PICK row \in read[r] : StillPending(row, stamp[r]) /\ PutCode(row.access)
    BY <1>2 DEF ReplaceCode
  <2>2. row.access \in Accesses /\ row.access \notin used /\ row = Row(row.access)
    BY <2>1 DEF StillPending, Pending, TypeOK, AccessRow, Row
  <2>3. Row(row.access) \in read[r]
    BY <2>2
  <2> QED
    BY <1>2, <2>1, <2>2, <2>3, PutCodes DEF ReplaceCode, Goto
<1> QED
  BY <1>1, <1>2

(* A claim spends the code it has read only if the row still holds it. *)
LEMMA ClaimCodes ==
  ASSUME TypeOK, CodesInvariant, NEW r \in Requests, Claim(r)
  PROVE  CodesInvariant'
<1>1. PICK row \in read[r] : Claimable(row) /\ used' = used \cup {row.access}
  BY DEF Claim
<1>2. /\ call[r].kind = "login"
      /\ pc[r] = "read"
      /\ pc' = [pc EXCEPT ![r] = "claimed"]
      /\ UNCHANGED <<code, issued, sessions, call, read>>
  BY DEF Claim, Goto
<1>3. /\ \A x \in read[r] : x = row
      /\ code[row.access] = row.code
      /\ row.access \in Accesses \ used
      /\ Row(row.access) = row
  BY <1>1 DEF Claimable, CodesInvariant, ClaimsAreExclusive, TypeOK, AccessRow, Row
<1>4. Claimants' = Claimants \cup {r} /\ Replaced' = Replaced
  BY <1>2 DEF Claimants, Replaced, TypeOK
<1>5. CodesAreFresh'
  BY <1>2, <1>4 DEF CodesInvariant, CodesAreFresh, Exists
<1>6. ClaimsAreExclusive'
  <2>1. \A q \in Claimants \cup {r} : \A x \in read[q] :
           x.access \in used' /\ code[x.access] = x.code
    BY <1>1, <1>3 DEF CodesInvariant, ClaimsAreExclusive
  <2>2. \A q \in Claimants : row \notin read[q]
    BY <1>3 DEF CodesInvariant, ClaimsAreExclusive
  <2>3. \A p, q \in Claimants \cup {r} : read[p] \cap read[q] # {} => p = q
    BY <1>3, <2>2 DEF CodesInvariant, ClaimsAreExclusive
  <2>4. \A s \in sessions : /\ s.by \in Claimants
                            /\ pc'[s.by] = "done"
                            /\ [access |-> s.access, code |-> s.code] \in read[s.by]
    BY <1>2 DEF CodesInvariant, ClaimsAreExclusive, Claimants, TypeOK
  <2>5. \A q \in Requests : \A x, y \in read[q] : x = y
    BY DEF CodesInvariant, ClaimsAreExclusive
  <2> QED
    BY <1>2, <1>4, <2>1, <2>3, <2>4, <2>5 DEF ClaimsAreExclusive
<1>7. OneSessionPerAccess' /\ SessionCodeIsFinal'
  BY <1>2 DEF CodesInvariant, OneSessionPerAccess, SessionCodeIsFinal
<1>8. ReissuesAreLinear'
  <2>1. \A p, q \in Replaced : read[p] = read[q] => p = q
    BY DEF CodesInvariant, ReissuesAreLinear, Replaced
  <2>2. \A p, q \in Replaced' : read'[p] = read'[q] => p = q
    BY <1>2, <1>4, <2>1
  <2> QED
    BY <2>2 DEF ReissuesAreLinear, Replaced
<1>9. UsedIsPaidFor'
  <2> SUFFICES ASSUME NEW b \in used', \A s \in sessions : s.access # b
               PROVE  \E q \in Requests : /\ call[q].kind = "login"
                                          /\ pc'[q] \in {"claimed", "lost"}
                                          /\ Row(b) \in read[q]
    BY <1>2 DEF UsedIsPaidFor, Row
  <2>1. CASE b = row.access
    BY <2>1, <1>2, <1>3 DEF TypeOK
  <2>2. CASE b \in used
    <3>1. PICK q \in Requests : /\ call[q].kind = "login"
                                /\ pc[q] \in {"claimed", "lost"}
                                /\ Row(b) \in read[q]
      BY <2>2 DEF CodesInvariant, UsedIsPaidFor
    <3> QED
      BY <3>1, <1>2 DEF TypeOK
  <2> QED
    BY <1>1, <2>1, <2>2
<1> QED
  BY <1>5, <1>6, <1>7, <1>8, <1>9 DEF CodesInvariant

(* Signing a session starts it for the access its code was claimed for. *)
LEMMA SignCodes ==
  ASSUME TypeOK, CodesInvariant, NEW r \in Requests, Sign(r)
  PROVE  CodesInvariant'
<1> DEFINE opened == {[by |-> r, access |-> row.access, code |-> row.code,
                       exp |-> TokenExpiry(row.access)] : row \in read[r]}
<1>1. /\ call[r].kind = "login"
      /\ pc[r] = "claimed"
      /\ pc' = [pc EXCEPT ![r] = "done"]
      /\ sessions' = sessions \cup opened
      /\ UNCHANGED <<code, used, issued, call, read>>
  BY DEF Sign, Goto, rows
<1>2. /\ Claimants' = Claimants /\ Replaced' = Replaced
      /\ r \in Claimants
  BY <1>1 DEF Claimants, Replaced, TypeOK
<1>3. /\ pc'[r] = "done"
      /\ \A q \in Requests : q # r => pc'[q] = pc[q]
  BY <1>1 DEF TypeOK
<1>4. \A s \in opened : /\ s.by = r
                        /\ code[s.access] = s.code
                        /\ [access |-> s.access, code |-> s.code] \in read[r]
  <2> SUFFICES ASSUME NEW s \in opened
               PROVE  /\ s.by = r
                      /\ code[s.access] = s.code
                      /\ [access |-> s.access, code |-> s.code] \in read[r]
    OBVIOUS
  <2>1. PICK row \in read[r] :
          s = [by |-> r, access |-> row.access, code |-> row.code,
               exp |-> TokenExpiry(row.access)]
    OBVIOUS
  <2>2. s.by = r /\ s.access = row.access /\ s.code = row.code
    BY <2>1
  <2>3. row = [access |-> row.access, code |-> row.code]
    BY DEF TypeOK, AccessRow
  <2>4. code[row.access] = row.code
    BY <1>2 DEF CodesInvariant, ClaimsAreExclusive
  <2> QED
    BY <2>2, <2>3, <2>4
<1>5. \A s, t \in opened : s = t
  BY DEF CodesInvariant, ClaimsAreExclusive
<1>6. \A s \in sessions, t \in opened : s.access # t.access
  <2> SUFFICES ASSUME NEW s \in sessions, NEW t \in opened, s.access = t.access
               PROVE  FALSE
    OBVIOUS
  <2> DEFINE row == [access |-> s.access, code |-> s.code]
  <2>1. s.by \in Claimants /\ pc[s.by] = "done" /\ row \in read[s.by]
    BY DEF CodesInvariant, ClaimsAreExclusive
  <2>2. row = [access |-> t.access, code |-> t.code]
    BY <1>4 DEF CodesInvariant, SessionCodeIsFinal
  <2>3. row \in read[r]
    BY <1>4, <2>2
  <2>4. s.by = r
    BY <1>2, <2>1, <2>3 DEF CodesInvariant, ClaimsAreExclusive
  <2> QED
    BY <1>1, <2>1, <2>4
<1> HIDE DEF opened
<1>7. CodesAreFresh'
  BY <1>1, <1>2 DEF CodesInvariant, CodesAreFresh, Exists
<1>8. ClaimsAreExclusive'
  <2>1. \A s \in sessions : s.by \in Claimants /\ pc'[s.by] = "done"
    BY <1>3 DEF CodesInvariant, ClaimsAreExclusive, Claimants
  <2>2. \A s \in sessions' : /\ s.by \in Claimants
                             /\ pc'[s.by] = "done"
                             /\ [access |-> s.access, code |-> s.code] \in read[s.by]
    BY <1>1, <1>2, <1>3, <1>4, <2>1 DEF CodesInvariant, ClaimsAreExclusive
  <2> QED
    BY <1>1, <1>2, <2>2 DEF CodesInvariant, ClaimsAreExclusive
<1>9. OneSessionPerAccess'
  BY <1>1, <1>5, <1>6 DEF CodesInvariant, OneSessionPerAccess
<1>10. SessionCodeIsFinal'
  BY <1>1, <1>4 DEF CodesInvariant, SessionCodeIsFinal
<1>11. ReissuesAreLinear'
  <2>1. \A p, q \in Replaced : read[p] = read[q] => p = q
    BY DEF CodesInvariant, ReissuesAreLinear, Replaced
  <2>2. \A p, q \in Replaced' : read'[p] = read'[q] => p = q
    BY <1>1, <1>2, <2>1
  <2> QED
    BY <2>2 DEF ReissuesAreLinear, Replaced
<1>12. UsedIsPaidFor'
  <2> SUFFICES ASSUME NEW b \in used, \A s \in sessions' : s.access # b
               PROVE  \E q \in Requests : /\ call[q].kind = "login"
                                          /\ pc'[q] \in {"claimed", "lost"}
                                          /\ Row(b) \in read[q]
    BY <1>1 DEF UsedIsPaidFor, Row
  <2>1. PICK q \in Requests : /\ call[q].kind = "login"
                              /\ pc[q] \in {"claimed", "lost"}
                              /\ Row(b) \in read[q]
    BY <1>1 DEF CodesInvariant, UsedIsPaidFor
  <2>2. CASE q = r
    <3>1. [by |-> r, access |-> Row(b).access, code |-> Row(b).code,
           exp |-> TokenExpiry(Row(b).access)] \in opened
      BY <2>1, <2>2 DEF opened
    <3>2. Row(b).access = b
      BY DEF Row
    <3> QED
      BY <1>1, <3>1, <3>2
  <2>3. CASE q # r
    BY <1>3, <2>1, <2>3
  <2> QED
    BY <2>2, <2>3
<1> QED
  BY <1>7, <1>8, <1>9, <1>10, <1>11, <1>12 DEF CodesInvariant

(* Every step preserves the invariant of the codes. *)
LEMMA NextCodes ==
  ASSUME TypeOK, CodesInvariant, [Next]_vars
  PROVE  CodesInvariant'
<1>1. ASSUME NEW r \in Requests, Handle(r)
      PROVE  CodesInvariant'
  <2>1. CASE Arrive(r)
    BY <2>1, QuietCodes DEF Arrive, Goto, TypeOK, rows
  <2>2. CASE TooManyRequests(r) \/ ReissueTooLate(r) \/ ClaimTooLate(r)
    BY <2>2, QuietCodes
       DEF TooManyRequests, ReissueTooLate, ClaimTooLate, Answer, Goto, TypeOK, rows
  <2>3. CASE CheckAuction(r)
    BY <2>3, QuietCodes DEF CheckAuction, Answer, Goto, TypeOK, rows
  <2>4. CASE WriteRevoked(r)
    BY <2>4, QuietCodes DEF WriteRevoked, Goto, TypeOK
  <2>5. CASE ChargeFailure(r)
    BY <2>5, QuietCodes DEF ChargeFailure, Goto, TypeOK, rows
  <2>6. CASE ReadForReissue(r) \/ ReadForRevoke(r) \/ FindCode(r)
    BY <2>6, ReadCodes
  <2>7. CASE StoreAccess(r) \/ ReplaceCode(r)
    BY <2>7, WriteCodes
  <2>8. CASE Claim(r)
    BY <2>8, ClaimCodes
  <2>9. CASE Sign(r)
    BY <2>9, SignCodes
  <2> QED
    BY <1>1, <2>1, <2>2, <2>3, <2>4, <2>5, <2>6, <2>7, <2>8, <2>9
       DEF Handle, Create, Reissue, Revoke, Login
<1>2. ASSUME NEW r \in Requests, Lose(r)
      PROVE  CodesInvariant'
  BY <1>2, QuietCodes DEF Lose, Answer, Goto, TypeOK, rows
<1>3. ASSUME NEW a \in Auctions, CloseAuction(a)
      PROVE  CodesInvariant'
  BY <1>3, QuietCodes DEF CloseAuction, rows
<1>4. CASE Restart
  BY <1>4, QuietCodes DEF Restart, TypeOK, Underway, rows
<1>5. CASE Tick
  BY <1>5, QuietCodes DEF Tick, rows
<1>6. CASE UNCHANGED vars
  BY <1>6, QuietCodes DEF vars
<1> QED
  BY <1>1, <1>2, <1>3, <1>4, <1>5, <1>6 DEF Next

(* The codes stay consistent, whatever logins, reissues, revocations, losses
   and restarts are interleaved. *)
THEOREM CodesAreConsistent == Spec => []CodesInvariant
<1>1. Init => TypeOK /\ CodesInvariant
  BY InitType, InitCodes
<1>2. TypeOK /\ CodesInvariant /\ [Next]_vars => (TypeOK /\ CodesInvariant)'
  BY NextType, NextCodes
<1> QED
  BY <1>1, <1>2, PTL DEF Spec

(* A code buys at most one session, and only the code that is on the row. *)
COROLLARY OneTimeCodes == Spec => [](OneSessionPerAccess /\ SessionCodeIsFinal)
<1>1. CodesInvariant => OneSessionPerAccess /\ SessionCodeIsFinal
  BY DEF CodesInvariant
<1> QED
  BY <1>1, CodesAreConsistent, PTL

(* Of the reissues that read one code only one succeeds, and no login that is
   refused uses an access up. *)
COROLLARY NothingIsBurnt == Spec => [](ReissuesAreLinear /\ UsedIsPaidFor)
<1>1. CodesInvariant => ReissuesAreLinear /\ UsedIsPaidFor
  BY DEF CodesInvariant
<1> QED
  BY <1>1, CodesAreConsistent, PTL

(* What was revoked before it was used is never used: the claim asks again. *)
THEOREM RevocationWins == Spec => RevokedStaysOut
<1>1. ASSUME [Next]_vars, NEW a \in revoked \ used
      PROVE  a \notin used'
  <2>1. CASE \E r \in Requests : Claim(r)
    <3>1. PICK r \in Requests : Claim(r)
      BY <2>1
    <3>2. PICK row \in read[r] : Claimable(row) /\ used' = used \cup {row.access}
      BY <3>1 DEF Claim
    <3> QED
      BY <3>2 DEF Claimable
  <2>2. CASE ~ \E r \in Requests : Claim(r)
    <3>1. UNCHANGED used
      BY <1>1, <2>2
         DEF Next, Handle, Arrive, TooManyRequests, Create, CheckAuction, StoreAccess,
             Reissue, ReadForReissue, ReplaceCode, ReissueTooLate, Revoke, ReadForRevoke,
             WriteRevoked, Login, FindCode, ClaimTooLate, Sign, ChargeFailure, Find, Answer,
             Lose, Restart, CloseAuction, Tick, rows, vars
    <3> QED
      BY <3>1
  <2> QED
    BY <2>1, <2>2
<1>2. [Next]_vars => [\A a \in revoked \ used : a \notin used']_vars
  BY <1>1
<1> QED
  BY <1>2, PTL DEF Spec, RevokedStaysOut

-----------------------------------------------------------------------------
(* The limiter of failed logins *)

(* Only a refused or a finished login, or a restart, writes the limiter. *)
LEMMA LimiterSteps ==
  ASSUME TypeOK, [Next]_vars
  PROVE  \/ UNCHANGED limiter /\ (UNCHANGED now \/ now' = now + 1)
         \/ \E r \in Requests : UNCHANGED now /\ (ChargeFailure(r) \/ Sign(r))
         \/ Restart
BY DEF Next, Handle, Arrive, TooManyRequests, Create, CheckAuction, StoreAccess, Reissue,
       ReadForReissue, ReplaceCode, ReissueTooLate, Revoke, ReadForRevoke, WriteRevoked, Login,
       FindCode, Claim, ClaimTooLate, Sign, ChargeFailure, Find, Answer, Lose, CloseAuction, Tick,
       limiter, vars

(* A handler is let in by its own arrival, which the limiter may refuse. *)
LEMMA ArrivalSteps ==
  ASSUME TypeOK, [Next]_vars, NEW r \in Requests, pc[r] = "ready", pc'[r] = "admitted"
  PROVE  Arrive(r)
<1>1. ASSUME NEW q \in Requests, NEW phase, Goto(q, phase)
      PROVE  pc'[r] = IF q = r THEN phase ELSE pc[r]
  BY <1>1 DEF Goto, TypeOK
<1>2. ASSUME NEW q \in Requests, Handle(q) \/ Lose(q)
      PROVE  q = r /\ Arrive(q)
  BY <1>1, <1>2 DEF Handle, Arrive, TooManyRequests, Create, CheckAuction, StoreAccess, Reissue,
       ReadForReissue, ReplaceCode, ReissueTooLate, Revoke, ReadForRevoke, WriteRevoked, Login,
       FindCode, Claim, ClaimTooLate, Sign, ChargeFailure, Find, Answer, Lose
<1>3. ASSUME Restart \/ Tick \/ (\E a \in Auctions : CloseAuction(a)) \/ UNCHANGED vars
      PROVE  FALSE
  BY <1>3 DEF Restart, Tick, CloseAuction, vars, TypeOK, Underway
<1> QED
  BY <1>2, <1>3 DEF Next

(* An address over the limit starts no attempt, and stays over it until its
   window ends, a login of its own succeeds or the process restarts. *)
THEOREM LimitHolds == Spec => BlockedStaysBlocked
<1>1. ASSUME TypeOK, [Next]_vars, ~ Restart, NEW ip \in Addresses, Blocked(ip)
      PROVE  LET mine == {r \in Requests : call[r].kind = "login" /\ call[r].ip = ip}
             IN  /\ \A r \in mine : pc[r] = "ready" => pc'[r] # "admitted"
                 /\ \/ Blocked(ip)'
                    \/ now' >= resetsAt[ip]
                    \/ \E r \in mine : pc[r] = "claimed" /\ pc'[r] = "done"
  <2> DEFINE mine == {r \in Requests : call[r].kind = "login" /\ call[r].ip = ip}
  <2>1. \A r \in mine : pc[r] = "ready" => pc'[r] # "admitted"
    BY <1>1, ArrivalSteps DEF Arrive
  <2>2. /\ FailureLimit \in Nat \ {0}
        /\ now \in Nat /\ failures[ip] \in Nat /\ resetsAt[ip] \in Nat
        /\ resetsAt[ip] > now /\ failures[ip] >= FailureLimit
    BY <1>1, AccessAssumption DEF TypeOK, Blocked, Failures
  <2>3. ASSUME UNCHANGED limiter, UNCHANGED now \/ now' = now + 1
        PROVE  Blocked(ip)' \/ now' >= resetsAt[ip]
    <3>1. failures' = failures /\ resetsAt' = resetsAt
      BY <2>3 DEF limiter
    <3> QED
      BY <2>2, <2>3, <3>1 DEF Blocked, Failures
  <2>4. ASSUME NEW r \in Requests, UNCHANGED now, ChargeFailure(r)
        PROVE  Blocked(ip)'
    BY <1>1, <2>2, <2>4 DEF ChargeFailure, RecordFailure, Blocked, Failures, TypeOK
  <2>5. ASSUME NEW r \in Requests, UNCHANGED now, Sign(r)
        PROVE  Blocked(ip)' \/ \E q \in mine : pc[q] = "claimed" /\ pc'[q] = "done"
    BY <1>1, <2>2, <2>5 DEF Sign, ClearFailures, Goto, Blocked, Failures, TypeOK
  <2> QED
    BY <1>1, <2>1, <2>3, <2>4, <2>5, LimiterSteps
<1>2. TypeOK /\ [Next]_vars => [
  \/ Restart
  \/ \A ip \in Addresses : Blocked(ip) =>
       LET mine == {r \in Requests : call[r].kind = "login" /\ call[r].ip = ip}
       IN  /\ \A r \in mine : pc[r] = "ready" => pc'[r] # "admitted"
           /\ \/ Blocked(ip)'
              \/ now' >= resetsAt[ip]
              \/ \E r \in mine : pc[r] = "claimed" /\ pc'[r] = "done"]_vars
  BY <1>1
<1> QED
  BY <1>2, TypeCorrect, PTL DEF Spec, BlockedStaysBlocked

-----------------------------------------------------------------------------
(* The implementation of AccessLedger *)

\* The rows that were revoked, or that a handler has read, exist.
RowsExist == /\ \A a \in revoked : Exists(a)
             /\ \A r \in Requests : \A row \in read[r] : Exists(row.access)

(* At first nothing is revoked and nothing read. *)
LEMMA InitRows == Init => RowsExist
BY DEF Init, RowsExist

(* An access that has a code keeps having one. *)
LEMMA CodeStays ==
  ASSUME TypeOK, NEW a \in Accesses, PutCode(a)
  PROVE  \A b \in Accesses : Exists(b) => code'[b] # NoCode
BY AccessAssumption DEF PutCode, Exists, TypeOK

(* A step that only finds rows that exist, and writes codes only over codes. *)
LEMMA QuietRows ==
  ASSUME TypeOK, RowsExist, UNCHANGED <<revoked, read>>,
         \A b \in Accesses : Exists(b) => code'[b] # NoCode
  PROVE  RowsExist'
<1>1. \A a \in revoked : code'[a] # NoCode
  BY DEF RowsExist, TypeOK
<1>2. \A r \in Requests : \A row \in read[r] : code'[row.access] # NoCode
  BY DEF RowsExist, TypeOK, AccessRow
<1> QED
  BY <1>1, <1>2 DEF RowsExist, Exists

(* A query of existing rows reads rows that exist. *)
LEMMA FindRows ==
  ASSUME TypeOK, RowsExist, NEW r \in Requests, NEW S \in SUBSET Accesses,
         \A a \in S : Exists(a), NEW refusal \in {"rejected", "refused"},
         Find(r, {Row(a) : a \in S}, refusal)
  PROVE  RowsExist'
<1>1. /\ read' = [read EXCEPT ![r] = {Row(a) : a \in S}]
      /\ UNCHANGED <<code, revoked>>
  BY DEF Find, rows
<1>2. \A row \in {Row(a) : a \in S} : Exists(row.access)
  BY DEF Row
<1>3. \A q \in Requests : \A row \in read'[q] : Exists(row.access)
  BY <1>1, <1>2 DEF RowsExist, TypeOK
<1> QED
  BY <1>1, <1>3 DEF RowsExist, Exists

(* Every step keeps the rows that were revoked or read in existence. *)
LEMMA NextRows ==
  ASSUME TypeOK, RowsExist, [Next]_vars
  PROVE  RowsExist'
<1>1. CASE UNCHANGED <<code, revoked, read>>
  BY <1>1, QuietRows DEF Exists
<1>2. ASSUME NEW r \in Requests, StoreAccess(r) \/ ReplaceCode(r)
      PROVE  RowsExist'
  <2>1. UNCHANGED <<revoked, read>>
    BY <1>2 DEF StoreAccess, ReplaceCode
  <2>2. PICK a \in Accesses : PutCode(a)
    BY <1>2 DEF StoreAccess, ReplaceCode, TypeOK, AccessRow
  <2> QED
    BY <2>1, <2>2, CodeStays, QuietRows
<1>3. ASSUME NEW r \in Requests, WriteRevoked(r)
      PROVE  RowsExist'
  BY <1>3 DEF WriteRevoked, RowsExist, Exists
<1>4. ASSUME NEW r \in Requests, ReadForReissue(r)
      PROVE  RowsExist'
  <2> DEFINE S == {b \in Accesses : /\ b = call[r].access
                                    /\ OwnedBy(b, call[r].office)
                                    /\ Pending(b, stamp[r])}
  <2>1. S \in SUBSET Accesses /\ \A a \in S : Exists(a)
    BY DEF OwnedBy
  <2>2. Find(r, {Row(a) : a \in S}, "rejected")
    BY <1>4 DEF ReadForReissue
  <2> HIDE DEF S
  <2> QED
    BY <2>1, <2>2, FindRows
<1>5. ASSUME NEW r \in Requests, ReadForRevoke(r)
      PROVE  RowsExist'
  <2> DEFINE S == {b \in Accesses : b = call[r].access /\ OwnedBy(b, call[r].office)}
  <2>1. S \in SUBSET Accesses /\ \A a \in S : Exists(a)
    BY DEF OwnedBy
  <2>2. Find(r, {Row(a) : a \in S}, "rejected")
    BY <1>5 DEF ReadForRevoke
  <2> HIDE DEF S
  <2> QED
    BY <2>1, <2>2, FindRows
<1>6. ASSUME NEW r \in Requests, FindCode(r)
      PROVE  RowsExist'
  <2> DEFINE S == {b \in Accesses : code[b] = call[r].code /\ Pending(b, stamp[r])}
  <2>1. call[r].code \in Codes
    BY <1>6, AccessCallAssumption
       DEF FindCode, TypeOK, CreateCall, ReissueCall, RevokeCall, LoginCall
  <2>2. S \in SUBSET Accesses /\ \A a \in S : Exists(a)
    BY <2>1, AccessAssumption DEF Exists
  <2>3. Find(r, {Row(a) : a \in S}, "refused")
    BY <1>6 DEF FindCode
  <2> HIDE DEF S
  <2> QED
    BY <2>2, <2>3, FindRows
<1> QED
  BY <1>1, <1>2, <1>3, <1>4, <1>5, <1>6
     DEF Next, Handle, Arrive, TooManyRequests, Create, CheckAuction,
         Reissue, ReissueTooLate, Revoke, Login, Claim, ClaimTooLate, Sign, ChargeFailure,
         Answer, Lose, Restart, CloseAuction, Tick, rows, vars

(* The initial state of the accesses is an initial state of the ledger. *)
LEMMA InitLedger == Init => Ledger!Init
<1> SUFFICES ASSUME Init PROVE Ledger!Init
  OBVIOUS
<1>1. ledgerPhase = [a \in Accesses |-> IF Exists(a) THEN "pending" ELSE "none"]
  BY DEF Init, ledgerPhase, PhaseOf
<1> QED
  BY <1>1 DEF Init, Ledger!Init, Exists

(* A step that writes no row is a stutter of the ledger. *)
LEMMA LedgerStutter ==
  ASSUME UNCHANGED <<code, used, revoked, issued>>
  PROVE  UNCHANGED Ledger!ledger
BY DEF Ledger!ledger, ledgerPhase, PhaseOf, Exists

(* What the ledger shows of an access, from its row. *)
LEMMA PhaseCases ==
  ASSUME NEW a \in Accesses
  PROVE  /\ ledgerPhase[a] = PhaseOf(a)
         /\ ~ Exists(a) => PhaseOf(a) = "none"
         /\ Exists(a) /\ a \in revoked => PhaseOf(a) = "revoked"
         /\ Exists(a) /\ a \notin revoked /\ a \in used => PhaseOf(a) = "active"
         /\ Exists(a) /\ a \notin revoked \cup used => PhaseOf(a) = "pending"
BY DEF ledgerPhase, PhaseOf

(* The same in the next state. *)
LEMMA PhaseCasesNext ==
  ASSUME NEW a \in Accesses
  PROVE  /\ ledgerPhase'[a] = PhaseOf(a)'
         /\ ~ Exists(a)' => PhaseOf(a)' = "none"
         /\ Exists(a)' /\ a \in revoked' => PhaseOf(a)' = "revoked"
         /\ Exists(a)' /\ a \notin revoked' /\ a \in used' => PhaseOf(a)' = "active"
         /\ Exists(a)' /\ a \notin revoked' \cup used' => PhaseOf(a)' = "pending"
BY DEF ledgerPhase, PhaseOf

(* The ledger's phase after a step is the old one except at a. *)
LEMMA PhaseStep ==
  ASSUME NEW a \in Accesses, NEW phase,
         \A b \in Accesses : b # a => PhaseOf(b)' = PhaseOf(b),
         PhaseOf(a)' = phase
  PROVE  ledgerPhase' = [ledgerPhase EXCEPT ![a] = phase]
<1>1. \A b \in Accesses : ledgerPhase[b] = PhaseOf(b) /\ ledgerPhase'[b] = PhaseOf(b)'
  BY PhaseCases, PhaseCasesNext
<1>2. /\ ledgerPhase = [b \in Accesses |-> ledgerPhase[b]]
      /\ ledgerPhase' = [b \in Accesses |-> ledgerPhase'[b]]
  BY DEF ledgerPhase
<1> QED
  BY <1>1, <1>2

(* Storing an access issues it in the ledger. *)
LEMMA StoreLedger ==
  ASSUME TypeOK, CodesInvariant, RowsExist, NEW r \in Requests, StoreAccess(r)
  PROVE  Ledger!Next
<1>1. PICK a \in Accesses : ~ Exists(a) /\ PutCode(a)
  BY DEF StoreAccess
<1>2. PICK c \in Codes \ issued : /\ code' = [code EXCEPT ![a] = c]
                                  /\ issued' = issued \cup {c}
  BY <1>1 DEF PutCode
<1>3. UNCHANGED <<used, revoked>> /\ a \notin used \cup revoked
  BY <1>1, UsedExists DEF StoreAccess, RowsExist
<1>4. Exists(a)' /\ \A b \in Accesses : b # a => code'[b] = code[b]
  BY <1>2, AccessAssumption DEF Exists, TypeOK
<1>5. PhaseOf(a)' = "pending" /\ ledgerPhase[a] = "none"
  BY <1>1, <1>3, <1>4, PhaseCases, PhaseCasesNext
<1>6. \A b \in Accesses : b # a => PhaseOf(b)' = PhaseOf(b)
  BY <1>3, <1>4 DEF PhaseOf, Exists
<1>7. ledgerPhase' = [ledgerPhase EXCEPT ![a] = "pending"]
  BY <1>5, <1>6, PhaseStep
<1> QED
  BY <1>2, <1>5, <1>7 DEF Ledger!Next, Ledger!Grant, Ledger!NewCode

(* Replacing a code renews the access in the ledger. *)
LEMMA RenewLedger ==
  ASSUME TypeOK, CodesInvariant, RowsExist, NEW r \in Requests, ReplaceCode(r)
  PROVE  Ledger!Next
<1>1. PICK row \in read[r] : StillPending(row, stamp[r]) /\ PutCode(row.access)
  BY DEF ReplaceCode
<1> DEFINE a == row.access
<1>2. a \in Accesses /\ Exists(a) /\ a \notin used \cup revoked
  BY <1>1 DEF TypeOK, AccessRow, RowsExist, StillPending, Pending
<1>3. PICK c \in Codes \ issued : /\ code' = [code EXCEPT ![a] = c]
                                  /\ issued' = issued \cup {c}
  BY <1>1 DEF PutCode
<1> HIDE DEF a
<1>4. UNCHANGED <<used, revoked>>
  BY DEF ReplaceCode
<1>5. Exists(a)' /\ \A b \in Accesses : b # a => code'[b] = code[b]
  BY <1>2, <1>3, AccessAssumption DEF Exists, TypeOK
<1>6. UNCHANGED ledgerPhase
  BY <1>2, <1>4, <1>5 DEF ledgerPhase, PhaseOf, Exists
<1> QED
  BY <1>2, <1>3, <1>6, PhaseCases DEF Ledger!Next, Ledger!Renew, Ledger!NewCode

(* Revoking is a step of the ledger, or invisible when repeated. *)
LEMMA RevokeLedger ==
  ASSUME TypeOK, CodesInvariant, RowsExist, NEW r \in Requests, WriteRevoked(r)
  PROVE  Ledger!Next \/ UNCHANGED Ledger!ledger
<1>1. UNCHANGED <<code, used, issued>> /\ revoked' = revoked \cup {row.access : row \in read[r]}
  BY DEF WriteRevoked
<1>2. CASE read[r] = {}
  BY <1>1, <1>2, LedgerStutter
<1>3. CASE read[r] # {}
  <2>1. PICK row \in read[r] : TRUE
    BY <1>3
  <2> DEFINE a == row.access
  <2>2. a \in Accesses /\ Exists(a)
    BY <2>1 DEF TypeOK, AccessRow, RowsExist
  <2>3. revoked' = revoked \cup {a}
    BY <1>1, <2>1 DEF CodesInvariant, ClaimsAreExclusive
  <2> HIDE DEF a
  <2>4. PhaseOf(a)' = "revoked" /\ ledgerPhase[a] # "none"
    BY <1>1, <2>2, <2>3 DEF PhaseOf, ledgerPhase, Exists
  <2>5. \A b \in Accesses : b # a => PhaseOf(b)' = PhaseOf(b)
    BY <1>1, <2>3 DEF PhaseOf, Exists
  <2>6. ledgerPhase' = [ledgerPhase EXCEPT ![a] = "revoked"]
    BY <2>2, <2>4, <2>5, PhaseStep
  <2> QED
    BY <1>1, <2>2, <2>4, <2>6 DEF Ledger!Next, Ledger!Revoke
<1> QED
  BY <1>2, <1>3

(* Claiming a code activates the access in the ledger. *)
LEMMA ClaimLedger ==
  ASSUME TypeOK, CodesInvariant, RowsExist, NEW r \in Requests, Claim(r)
  PROVE  Ledger!Next
<1>1. PICK row \in read[r] : Claimable(row) /\ used' = used \cup {row.access}
  BY DEF Claim
<1> DEFINE a == row.access
<1>2. a \in Accesses /\ Exists(a) /\ a \notin used \cup revoked
  BY <1>1 DEF TypeOK, AccessRow, RowsExist, Claimable
<1>3. used' = used \cup {a} /\ UNCHANGED <<code, revoked, issued>>
  BY <1>1 DEF Claim
<1> HIDE DEF a
<1>4. PhaseOf(a)' = "active" /\ ledgerPhase[a] = "pending"
  BY <1>2, <1>3 DEF PhaseOf, ledgerPhase, Exists
<1>5. \A b \in Accesses : b # a => PhaseOf(b)' = PhaseOf(b)
  BY <1>3 DEF PhaseOf, Exists
<1>6. ledgerPhase' = [ledgerPhase EXCEPT ![a] = "active"]
  BY <1>2, <1>4, <1>5, PhaseStep
<1> QED
  BY <1>2, <1>3, <1>4, <1>6 DEF Ledger!Next, Ledger!Activate

(* Every step of the handlers is one operation of the ledger, or none. *)
LEMMA NextLedger ==
  ASSUME TypeOK, CodesInvariant, RowsExist, [Next]_vars
  PROVE  [Ledger!Next]_Ledger!ledger
<1>1. CASE UNCHANGED <<code, used, revoked, issued>>
  BY <1>1, LedgerStutter
<1>2. ASSUME NEW r \in Requests, StoreAccess(r)
      PROVE  Ledger!Next
  BY <1>2, StoreLedger
<1>3. ASSUME NEW r \in Requests, ReplaceCode(r)
      PROVE  Ledger!Next
  BY <1>3, RenewLedger
<1>4. ASSUME NEW r \in Requests, WriteRevoked(r)
      PROVE  Ledger!Next \/ UNCHANGED Ledger!ledger
  BY <1>4, RevokeLedger
<1>5. ASSUME NEW r \in Requests, Claim(r)
      PROVE  Ledger!Next
  BY <1>5, ClaimLedger
<1> QED
  BY <1>1, <1>2, <1>3, <1>4, <1>5
     DEF Next, Handle, Arrive, TooManyRequests, Create, CheckAuction,
         Reissue, ReadForReissue, ReissueTooLate, Revoke, ReadForRevoke,
         Login, FindCode, Find, ClaimTooLate, Sign, ChargeFailure,
         Answer, Lose, Restart, CloseAuction, Tick, rows, vars

(* The operator handlers implement the ledger: concurrent logins, reissues and
   revocations do to an access what the atomic operations allow (createAccess,
   reissueAccessCode, revokeAccess and login of OperatorService). *)
THEOREM ImplementsLedger == Spec => KeepsLedger
<1>1. TypeOK /\ CodesInvariant /\ RowsExist /\ [Next]_vars => [Ledger!Next]_Ledger!ledger
  BY NextLedger
<1>2. Init => RowsExist
  BY InitRows
<1>3. TypeOK /\ CodesInvariant /\ RowsExist /\ [Next]_vars => RowsExist'
  BY NextRows
<1> QED
  BY <1>1, <1>2, <1>3, InitLedger, TypeCorrect, CodesAreConsistent, PTL
     DEF Spec, KeepsLedger, Ledger!Spec
=============================================================================
