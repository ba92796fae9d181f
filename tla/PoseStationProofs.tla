------------------------- MODULE PoseStationProofs -------------------------
(***************************************************************************)
(* Proofs about PoseStation, for any set of clients.                       *)
(***************************************************************************)
EXTENDS PoseStation, TLAPS

(* A coroutine that only goes on, in a way that keeps claim and place in line,
   keeps the lease. *)
LEMMA AwaitKeepsLease ==
  ASSUME LeaseIsHeld, NEW c \in Clients, NEW phase \in Phase, Await(c, phase),
         phase \in Serving => claimed[c],
         claimed[c] => phase \in Serving \cup {"leaving"}
  PROVE  LeaseIsHeld'
BY DEF LeaseIsHeld, TypeOK, Await, Goto, Holders

(* A station starts without a client, lease or connection. *)
LEMMA InitLease == Init => LeaseIsHeld
BY DEF Init, LeaseIsHeld, TypeOK, Holders, Phase, Serving

(* claim: the test and the set are one step, so the only holder is the one
   that found the station free. *)
LEMMA ClaimKeepsLease ==
  ASSUME LeaseIsHeld, NEW c \in Clients, Claim(c)
  PROVE  LeaseIsHeld'
<1>1. CASE active
  <2>1. ~ claimed[c]
    BY DEF Claim, LeaseIsHeld, Serving
  <2> QED
    BY <1>1, <2>1, AwaitKeepsLease DEF Claim, Phase, Serving
<1>2. CASE ~ active
  <2>1. \A d \in Clients : ~ claimed[d]
    BY <1>2 DEF LeaseIsHeld, Holders
  <2>2. TypeOK'
    BY <1>2 DEF Claim, LeaseIsHeld, TypeOK, Goto, Phase, Serving
  <2>3. \A d \in Clients : claimed'[d] <=> d = c
    BY <1>2, <2>1 DEF Claim, LeaseIsHeld, TypeOK
  <2>4. active' /\ pc' = [pc EXCEPT ![c] = "claimed"]
    BY <1>2 DEF Claim, Goto
  <2>5. \A d \in Clients : d # c => pc[d] \notin Serving
    BY <2>1 DEF LeaseIsHeld
  <2> QED
    BY <2>2, <2>3, <2>4, <2>5 DEF LeaseIsHeld, TypeOK, Holders, Serving
<1> QED
  BY <1>1, <1>2 DEF LeaseIsHeld, TypeOK

(* release: the flag falls with the one holder, and with nobody else. *)
LEMMA LeaveKeepsLease ==
  ASSUME LeaseIsHeld, NEW c \in Clients, Leave(c)
  PROVE  LeaseIsHeld'
<1>1. TypeOK'
  BY DEF Leave, LeaseIsHeld, TypeOK, Phase
<1>2. \A d \in Clients : claimed'[d] <=> claimed[d] /\ d # c
  BY DEF Leave, LeaseIsHeld, TypeOK
<1>3. \A d \in Clients : pc'[d] = IF d = c THEN "away" ELSE pc[d]
  BY DEF Leave, LeaseIsHeld, TypeOK
<1>4. active' <=> \E d \in Clients : claimed'[d]
  <2>1. CASE claimed[c]
    BY <1>2, <2>1 DEF Leave, LeaseIsHeld, Holders
  <2>2. CASE ~ claimed[c]
    BY <1>2, <2>2 DEF Leave, LeaseIsHeld, Holders, TypeOK
  <2> QED
    BY <2>1, <2>2
<1> QED
  BY <1>1, <1>2, <1>3, <1>4 DEF LeaseIsHeld, Holders, Serving

(* Every step preserves the invariant of the lease. *)
LEMMA NextLease ==
  ASSUME LeaseIsHeld, [Next]_vars
  PROVE  LeaseIsHeld'
<1> USE DEF Phase, Serving
<1>1. ASSUME NEW c \in Clients, Connect(c) \/ Drop(c)
      PROVE  LeaseIsHeld'
  BY <1>1 DEF Connect, Drop, LeaseIsHeld, TypeOK, Holders
<1>2. ASSUME NEW c \in Clients, Hello(c) \/ Frame(c)
      PROVE  LeaseIsHeld'
  BY <1>2, AwaitKeepsLease DEF Hello, Frame, LeaseIsHeld
<1>3. ASSUME NEW c \in Clients, Coroutine(c)
      PROVE  LeaseIsHeld'
  <2>1. CASE HelloTimeout(c)
    BY <2>1, AwaitKeepsLease DEF HelloTimeout
  <2>2. CASE SendReady(c) \/ ReceiveDisconnect(c) \/ Infer(c) \/ Reply(c)
    BY <2>2, AwaitKeepsLease DEF SendReady, ReceiveDisconnect, Infer, Reply, LeaseIsHeld
  <2> QED
    BY <1>3, <2>1, <2>2, ClaimKeepsLease, LeaveKeepsLease DEF Coroutine
<1>4. CASE CloseEngine
  BY <1>4 DEF CloseEngine, LeaseIsHeld, TypeOK, Holders
<1>5. CASE Restart
  BY <1>5 DEF Restart, LeaseIsHeld, TypeOK, Holders
<1>6. CASE UNCHANGED vars
  BY <1>6 DEF vars, LeaseIsHeld, TypeOK, Holders
<1> QED
  BY <1>1, <1>2, <1>3, <1>4, <1>5, <1>6 DEF Next

(* The station is taken exactly while one coroutine holds it, from its claim to
   its finally, whatever clients, the engine and the process do. *)
THEOREM LeaseAlwaysHeld == Spec => []LeaseIsHeld
BY InitLease, NextLease, PTL DEF Spec

=============================================================================
