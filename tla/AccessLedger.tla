---------------------------- MODULE AccessLedger ----------------------------
(***************************************************************************)
(* What operator accesses promise an office, with every operation in one   *)
(* step: a pending access has one code that works, the code is traded once *)
(* for a session, and a revoked access is closed for good.                 *)
(***************************************************************************)
CONSTANTS Accesses, Codes, NoCode

VARIABLES
  phase,   \* "none" before creation, then "pending", "active" or "revoked"
  code,    \* the code that is, or was last, good for the access
  issued   \* every code an office has been given

ledger == <<phase, code, issued>>

Init ==
  /\ phase \in [Accesses -> {"none", "pending"}]
  /\ code \in [Accesses -> Codes \cup {NoCode}]
  /\ \A a \in Accesses : code[a] = NoCode <=> phase[a] = "none"
  /\ issued = {code[a] : a \in Accesses} \ {NoCode}

NewCode(a) == \E c \in Codes \ issued :
  /\ code' = [code EXCEPT ![a] = c]
  /\ issued' = issued \cup {c}

Grant(a) ==
  /\ phase[a] = "none"
  /\ phase' = [phase EXCEPT ![a] = "pending"]
  /\ NewCode(a)

Renew(a) ==
  /\ phase[a] = "pending"
  /\ NewCode(a)
  /\ UNCHANGED phase

Activate(a) ==
  /\ phase[a] = "pending"
  /\ phase' = [phase EXCEPT ![a] = "active"]
  /\ UNCHANGED <<code, issued>>

Revoke(a) ==
  /\ phase[a] # "none"
  /\ phase' = [phase EXCEPT ![a] = "revoked"]
  /\ UNCHANGED <<code, issued>>

Next == \E a \in Accesses : Grant(a) \/ Renew(a) \/ Activate(a) \/ Revoke(a)

Spec == Init /\ [][Next]_ledger
=============================================================================
