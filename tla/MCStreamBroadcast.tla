------------------------- MODULE MCStreamBroadcast -------------------------
(***************************************************************************)
(* Instances of StreamBroadcast for TLC: two auctions, at first of the     *)
(* office `house', two of its sockets and one of a rival office, which may *)
(* be given auction1.                                                      *)
(***************************************************************************)
EXTENDS StreamBroadcast, TLC

CONSTANTS auction1, auction2, house, rival, s1, s2, s3

MCActorOf == [s \in Sockets |-> IF s = s3 THEN rival ELSE house]

Http(kind, actor) == [kind |-> kind, auction |-> auction1, actor |-> actor]
Update(status, to) == [kind |-> "update", auction |-> auction1, actor |-> house,
                       status |-> status, to |-> to]
From(s, kind) == [kind |-> kind, auction |-> auction1, socket |-> s]

\* Two sockets of the office and one of a rival around the slot of auction1, which
\* the office may hand to the rival, or delete; s1 may also broadcast in auction2,
\* whose stream is LIVE.
StreamCalls == {Http("start", house), Http("stop", house), Http("start", rival),
                Update("CANCELED", None), Update(None, rival), Http("remove", house),
                From(s1, "join"), From(s2, "join"), From(s3, "join"), From(s1, "view"),
                From(s1, "ended"), From(s1, "disconnect"), From(s2, "disconnect"),
                [kind |-> "join", auction |-> auction2, socket |-> s1]}

\* A stream starts or not: of the five statuses of an auction two are enough.
StreamInit == /\ Init
              /\ houseOf = [a \in Auctions |-> house]
              /\ auctionStatus[auction1] \in {"SCHEDULED", "CANCELED"}
              /\ auctionStatus[auction2] = "LIVE"
              /\ streamStatus[auction2] = "LIVE"

StreamSpec == StreamInit /\ [][Next]_vars

RequestSymmetry == Permutations(Requests)
=============================================================================
