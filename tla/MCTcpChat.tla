----------------------------- MODULE MCTcpChat -----------------------------
(* Small instances of TcpChat: alphabets for the clients, and symmetry.    *)
EXTENDS TcpChat, TLC

Login(b) == [type |-> "LOGIN", body |-> b]
Plain(t) == [type |-> t, body |-> "empty"]

Logins   == {Login(n) : n \in Names}

(* Users come and go.                                                      *)
Presence == Logins \cup {Plain("LOGOUT")}

(* Users come, talk and go.                                                *)
Talk     == Presence \cup {[type |-> "CHAT", body |-> "text"]}
                   \cup {[type |-> "PRIVATE", body |-> n] : n \in Names}

(* Whatever a client can put on the wire.                                  *)
Anything == Packet

Symmetric == Permutations(Conns) \cup Permutations(Names)
=============================================================================
