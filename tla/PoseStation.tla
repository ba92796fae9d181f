---------------------------- MODULE PoseStation ----------------------------
(***************************************************************************)
(* The pose websocket of the gesture server: one station at a time         *)
(* (serve_pose_websocket and StationManager of session.py, EngineSlot of   *)
(* main.py).  The coroutines of one event loop interleave where they       *)
(* await: for a message, for the lease, for the inference in its thread,   *)
(* for a send.  A client that goes away is noticed at the next send, or at *)
(* a receive once what it had sent before is read.                         *)
(***************************************************************************)
EXTENDS FiniteSets

CONSTANT Clients

VARIABLES
  ready,     \* the engine slot holds an engine
  active,    \* StationManager._active
  claimed,   \* the local flag of each coroutine: it has claimed the station
  wire,      \* the connection of each client: "open" or "closed"
  pc         \* where its coroutine is, "away" without one

vars == <<ready, active, claimed, wire, pc>>

Serving == {"claimed", "serving", "inferring", "replying"}
Phase == {"away", "greeting", "greeted", "leaving"} \cup Serving

TypeOK ==
  /\ ready \in BOOLEAN
  /\ active \in BOOLEAN
  /\ claimed \in [Clients -> BOOLEAN]
  /\ wire \in [Clients -> {"open", "closed"}]
  /\ pc \in [Clients -> Phase]

Goto(c, phase) ==
  /\ pc' = [pc EXCEPT ![c] = phase]
  /\ UNCHANGED <<ready, wire>>

Await(c, phase) == Goto(c, phase) /\ UNCHANGED <<active, claimed>>

-----------------------------------------------------------------------------
(* The client *)

\* Another origin, or a server without an engine, is turned away at once.
Connect(c) ==
  /\ pc[c] = "away"
  /\ ready
  /\ pc' = [pc EXCEPT ![c] = "greeting"]
  /\ wire' = [wire EXCEPT ![c] = "open"]
  /\ UNCHANGED <<ready, active, claimed>>

Drop(c) ==
  /\ pc[c] # "away"
  /\ wire[c] = "open"
  /\ wire' = [wire EXCEPT ![c] = "closed"]
  /\ UNCHANGED <<ready, active, claimed, pc>>

\* A hello of this protocol with the station's token, or anything else; its
\* client may be gone when it is read.
Hello(c) ==
  /\ pc[c] = "greeting"
  /\ \E phase \in {"greeted", "leaving"} : Await(c, phase)

\* A frame, a frame that does not parse and is answered with an error, or a
\* message that is not binary and ends the session.
Frame(c) ==
  /\ pc[c] = "serving"
  /\ \E phase \in {"inferring", "replying", "leaving"} : Await(c, phase)

-----------------------------------------------------------------------------
(* The coroutine *)

\* Mutant: the hello is awaited for ever.
HelloUntimed(c) ==
  /\ pc[c] = "greeting"
  /\ wire[c] = "closed"
  /\ Await(c, "leaving")

\* The timer runs out, or the client went away before its hello.
HelloTimeout(c) ==
  /\ pc[c] = "greeting"
  /\ Await(c, "leaving")

\* claim: no await between the test and the set.
Claim(c) ==
  /\ pc[c] = "greeted"
  /\ IF active
     THEN Await(c, "leaving")
     ELSE /\ active' = TRUE
          /\ claimed' = [claimed EXCEPT ![c] = TRUE]
          /\ Goto(c, "claimed")

\* An engine closed meanwhile has no metadata to send.
SendReady(c) ==
  /\ pc[c] = "claimed"
  /\ Await(c, IF wire[c] = "open" /\ ready THEN "serving" ELSE "leaving")

ReceiveDisconnect(c) ==
  /\ pc[c] = "serving"
  /\ wire[c] = "closed"
  /\ Await(c, "leaving")

\* A result, or an error that is a reply too.
Infer(c) ==
  /\ pc[c] = "inferring"
  /\ Await(c, "replying")

\* Mutant: a reply that cannot be sent is tried again.
ReplyAgain(c) ==
  /\ pc[c] = "replying"
  /\ Await(c, IF wire[c] = "open" THEN "serving" ELSE "replying")

Reply(c) ==
  /\ pc[c] = "replying"
  /\ Await(c, IF wire[c] = "open" THEN "serving" ELSE "leaving")

\* Mutant: the station is released on every way out.
LeaveAndRelease(c) ==
  /\ pc[c] = "leaving"
  /\ active' = FALSE
  /\ claimed' = [claimed EXCEPT ![c] = FALSE]
  /\ pc' = [pc EXCEPT ![c] = "away"]
  /\ wire' = [wire EXCEPT ![c] = "closed"]
  /\ UNCHANGED ready

\* The close is sent, and finally releases what this coroutine has claimed.
Leave(c) ==
  /\ pc[c] = "leaving"
  /\ active' = (active /\ ~ claimed[c])
  /\ claimed' = [claimed EXCEPT ![c] = FALSE]
  /\ pc' = [pc EXCEPT ![c] = "away"]
  /\ wire' = [wire EXCEPT ![c] = "closed"]
  /\ UNCHANGED ready

Coroutine(c) == \/ HelloTimeout(c) \/ Claim(c) \/ SendReady(c)
                \/ ReceiveDisconnect(c) \/ Infer(c) \/ Reply(c) \/ Leave(c)

-----------------------------------------------------------------------------
\* The lifespan ends and closes the engine while coroutines may still run.
CloseEngine ==
  /\ ready
  /\ ready' = FALSE
  /\ UNCHANGED <<active, claimed, wire, pc>>

\* A new process, whose engine starts or does not.
Restart ==
  /\ ready' \in BOOLEAN
  /\ active' = FALSE
  /\ claimed' = [c \in Clients |-> FALSE]
  /\ wire' = [c \in Clients |-> "closed"]
  /\ pc' = [c \in Clients |-> "away"]

Init ==
  /\ ready \in BOOLEAN
  /\ active = FALSE
  /\ claimed = [c \in Clients |-> FALSE]
  /\ wire = [c \in Clients |-> "closed"]
  /\ pc = [c \in Clients |-> "away"]

Next ==
  \/ \E c \in Clients : Connect(c) \/ Drop(c) \/ Hello(c) \/ Frame(c) \/ Coroutine(c)
  \/ CloseEngine
  \/ Restart

(* A coroutine that can run does run: its timer runs out, its thread comes
   back, its sends return or fail.  Clients owe nothing. *)
Fairness == \A c \in Clients : WF_vars(Coroutine(c))

Spec == Init /\ [][Next]_vars /\ Fairness

-----------------------------------------------------------------------------
Holders == {c \in Clients : claimed[c]}

(* The station is taken exactly while one coroutine, on its way from its claim
   to its finally, has it: a client that is refused or times out does not free
   it for a third one, and it is never free with a holder nor taken without
   (claim, and the claimed flag that guards release). *)
LeaseIsHeld ==
  /\ TypeOK
  /\ active <=> Holders # {}
  /\ \A c, d \in Holders : c = d
  /\ \A c \in Clients : /\ pc[c] \in Serving => claimed[c]
                        /\ claimed[c] => pc[c] \in Serving \cup {"leaving"}

(* A holder that went away frees the station in the end, whatever it was doing:
   waiting, in an inference, or about to be answered. *)
StationIsFreed == \A c \in Clients :
  (claimed[c] /\ wire[c] = "closed") ~> ~ claimed[c]

(* A connection that never says hello does not stay: it is served, refused or
   timed out. *)
EveryHelloEnds == \A c \in Clients : pc[c] = "greeting" ~> pc[c] # "greeting"
=============================================================================
