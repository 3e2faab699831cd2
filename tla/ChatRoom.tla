------------------------------ MODULE ChatRoom ------------------------------
(***************************************************************************)
(* What the TCP server promises its clients, without connections, buffers, *)
(* events or time: a room that clients enter under a free name and leave   *)
(* again.  All who are inside are told at once, and in one order, who      *)
(* comes, who goes and what is said; nobody outside is told anything he    *)
(* has not asked for.                                                      *)
(***************************************************************************)
EXTENDS Sequences

CONSTANTS Clients, Names, Nobody

VARIABLES
    holder,    \* who is in the room under a name, or Nobody
    told       \* all that a client has been told, in order

Inside(h)  == {c \in Clients : \E n \in Names : h[n] = c}
Present(h) == {n \in Names : h[n] # Nobody}

Notice(n, online) == [type |-> "SYSTEM", user |-> n, online |-> online]
List(names)       == [type |-> "USER_LIST", users |-> names]
Answer(ok)        == [type |-> "LOGIN_ACK", ok |-> ok]
Pong              == [type |-> "PONG"]

(* What everyone inside is told of a name that comes or goes.              *)
News(n, online, h) == <<Notice(n, online), List(Present(h))>>

Tell(words) == told' = [c \in Clients |-> told[c] \o words[c]]

Only(S, msgs) == [c \in Clients |-> IF c \in S THEN msgs ELSE <<>>]

Init ==
    /\ holder = [n \in Names |-> Nobody]
    /\ told = [c \in Clients |-> <<>>]

(* The newcomer is let in before he hears the news of his own coming.      *)
Enter(c, n) ==
    /\ holder[n] = Nobody /\ c \notin Inside(holder)
    /\ holder' = [holder EXCEPT ![n] = c]
    /\ LET news == News(n, TRUE, holder')
       IN  Tell([d \in Clients |->
                   IF d = c THEN <<Answer(TRUE)>> \o news
                   ELSE IF d \in Inside(holder) THEN news ELSE <<>>])

Leave(c, n) ==
    /\ holder[n] = c
    /\ holder' = [holder EXCEPT ![n] = Nobody]
    /\ Tell(Only(Inside(holder) \ {c}, News(n, FALSE, holder')))

Say(c, n) ==
    /\ holder[n] = c
    /\ holder' = holder
    /\ Tell(Only(Inside(holder) \ {c},
                 <<[type |-> "CHAT_BROAD", from |-> n, content |-> c]>>))

Whisper(c, n, to) ==
    /\ holder[n] = c /\ holder[to] # Nobody
    /\ holder' = holder
    /\ Tell(Only({holder[to]},
                 <<[type |-> "PRIVATE", from |-> n, to |-> to, content |-> c]>>))

(* A question is answered to the one who asks, inside or not.              *)
Ask(c) ==
    /\ holder' = holder
    /\ \E m \in {Answer(FALSE), Pong, List(Present(holder))} :
          Tell(Only({c}, <<m>>))

(* Every step tells somebody something or moves somebody.                  *)
Next ==
    /\ <<holder, told>>' # <<holder, told>>
    /\ \E c \in Clients :
          \/ \E n \in Names : \/ Enter(c, n)
                              \/ Leave(c, n)
                              \/ Say(c, n)
                              \/ \E to \in Names : Whisper(c, n, to)
          \/ Ask(c)

Spec == Init /\ [][Next]_<<holder, told>>
=============================================================================
