---------------------------- MODULE MCWebStream ----------------------------
(* Small instances of WebStream: what clients may say over one socket.     *)
EXTENDS WebStream, TLC

Page == [get |-> TRUE, path |-> "/", upgrade |-> FALSE, token |-> FALSE,
         version |-> FALSE, key |-> FALSE, line |-> TRUE, len |-> 0]
Api      == [Page EXCEPT !.get = FALSE, !.path = "/api", !.len = 1]
Climbing == [Page EXCEPT !.path = "/.."]
Missing  == [Page EXCEPT !.path = "/none"]
PlainWs  == [Page EXCEPT !.path = "/ws"]
Garbled  == [Page EXCEPT !.line = FALSE]
Hasty    == [Api EXCEPT !.len = 3]          \* announces more than it brings
Upgrade  == [PlainWs EXCEPT !.upgrade = TRUE, !.token = TRUE, !.version = TRUE, !.key = TRUE]
NoToken  == [Upgrade EXCEPT !.token = FALSE]
OldWs    == [Upgrade EXCEPT !.version = FALSE]
NoKey    == [Upgrade EXCEPT !.key = FALSE]

AllRequests == {Page, Api, Climbing, Missing, PlainWs, Garbled, Hasty,
                Upgrade, NoToken, OldWs, NoKey}
AllData == {"d", "e", "odd"}
AllOpcodes == {TEXT, BINARY, CLOSE, PING, PONG, "CONTINUATION"}
AllBytes == Unit \cup {Blank}

D == [is |-> "data", val |-> "d"]
Ask(r) == [req |-> r, body |-> IF r.path = "/api" THEN <<D>> ELSE <<>>]
Odd == <<[is |-> "data", val |-> "odd"]>>
OddBodies == {Odd}
OddApi == [req |-> Api, body |-> Odd]
Say(op, n) == [op |-> op, rsv |-> FALSE, masked |-> TRUE, len |-> n,
               payload |-> [i \in 1..n |-> D]]

First    == {Say(PING, 1), Say(PONG, 0), Say(CLOSE, 0)}
Second   == {Say(TEXT, 0), Say(TEXT, 2), Say(PING, 1), Say(CLOSE, 0)}
Huge     == [Say(TEXT, 1) EXCEPT !.len = WordSize - 2]       \* the sum wraps
Unserved == {Say(BINARY, 0), Say("CONTINUATION", 1), [Say(TEXT, 0) EXCEPT !.masked = FALSE],
             [Say(PING, 0) EXCEPT !.rsv = TRUE], Huge, [Huge EXCEPT !.len = WordSize - 9]}

(* With IntSize 13 a frame of 6 units fits; these of 7, 12, 13 and 14 units *)
(* come out as -6, -1, 0 and 1.                                             *)
Oversized == {<<Say(PONG, 3), Say(PONG, 0)>>, <<Say(TEXT, 3)>>, <<Say(PONG, 8), Say(PONG, 0)>>,
              <<Say(PONG, 9)>>, <<Say(PONG, 10)>>}

(* One or two requests, sent as fast as the client likes; or an upgrade and *)
(* one or two frames behind it.                                             *)
Visits == {<<Ask(r)>> : r \in AllRequests \ {Upgrade}}
          \cup {<<Ask(p), Ask(q)>> : p \in {Page, Api}, q \in {Page, Api, Garbled, Hasty}}
          \cup {<<OddApi>>, <<Ask(Page), OddApi>>, <<OddApi, Ask(Page)>>}

Talks == {<<f>> : f \in Unserved}
         \cup {<<f, Say(PING, 1)>> : f \in First} \cup {<<Say(TEXT, 1), f>> : f \in Second}
         \cup {<<Say(PING, 1), f>> : f \in {Say(BINARY, 0), Huge}}
         \cup Oversized

SmallScripts == [requests : Visits, frames : {<<>>}]
                \cup [requests : {<<Ask(Upgrade)>>}, frames : Talks]
=============================================================================
