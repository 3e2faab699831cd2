--------------------------- MODULE TcpChatProofs ---------------------------
(***************************************************************************)
(* Theorems about TcpChat, for every number of connections and names,      *)
(* every alphabet and every bound.                                         *)
(***************************************************************************)
EXTENDS TcpChat, SequenceTheorems, TLAPS

(* The writing_ flag tells what the kernel was asked for, as long as the   *)
(* descriptor is open; this is what makes NoLostWakeup inductive.          *)
FlagMatchesKernel ==
    \A c \in reg : c \in writing <=> c \in interest

(* The tick closes connections only between events.                        *)
OneCallback == cur # None => toClose = {}

Inv ==
    /\ TypeOK
    /\ UsersMatchConnections
    /\ TablesAgree
    /\ NoLostWakeup
    /\ FlagMatchesKernel
    /\ OneCallback

TablesTypeOK ==
    /\ state \in [Conns -> {"NONE", "BACKLOG", "CONNECTING", "AUTHENTICATED",
                            "CLOSED"}]
    /\ username \in [Conns -> Names \cup {None}]
    /\ users \in [Names -> Conns \cup {None}]
    /\ reg \subseteq Conns /\ mgr \subseteq Conns

OutTypeOK ==
    /\ stream \in [Conns -> Seq(Message)]
    /\ writing \subseteq Conns /\ interest \subseteq Conns

RestTypeOK ==
    /\ proc \in {"running", "stopped", "crashed"}
    /\ peer \in [Conns -> {"none", "open", "stalled", "gone"}]
    /\ inbox \in [Conns -> Seq(Packet)]
    /\ budget \in [Conns -> 0..Budget]
    /\ readBuf \in [Conns -> Seq(Packet)]
    /\ room \in [Conns -> 0..ReadRoom]
    /\ flushed \in [Conns -> Nat]
    /\ idle \in [Conns -> 0..(Timeout + 1)]
    /\ cur \in Conns \cup {None} /\ thenWrite \in BOOLEAN

Wakeup == NoLostWakeup /\ FlagMatchesKernel

(* What a step must establish about the tables and the outputs.            *)
CoreOK ==
    /\ TablesTypeOK /\ OutTypeOK /\ UsersMatchConnections /\ Wakeup
    /\ reg = mgr
    /\ \A c \in reg : state[c] \in {"CONNECTING", "AUTHENTICATED"}

(* The invariant, cut into the parts its steps are proved by.              *)
LEMMA InvParts ==
    Inv <=> RestTypeOK /\ CoreOK /\ toClose \subseteq mgr /\ OneCallback
<1>1. TypeOK <=> TablesTypeOK /\ OutTypeOK /\ RestTypeOK /\ toClose \subseteq Conns
  BY DEF TypeOK, TablesTypeOK, OutTypeOK, RestTypeOK
<1>2. TablesTypeOK /\ toClose \subseteq mgr => toClose \subseteq Conns
  BY DEF TablesTypeOK
<1> QED
  BY <1>1, <1>2 DEF Inv, CoreOK, Wakeup, TablesAgree

(* The same parts, of the next state.                                      *)
LEMMA InvPartsPrimed ==
    Inv' <=> RestTypeOK' /\ CoreOK' /\ toClose' \subseteq mgr' /\ OneCallback'
<1>1. TypeOK' <=> TablesTypeOK' /\ OutTypeOK' /\ RestTypeOK' /\ toClose' \subseteq Conns
  BY DEF TypeOK, TablesTypeOK, OutTypeOK, RestTypeOK
<1>2. TablesTypeOK' /\ toClose' \subseteq mgr' => toClose' \subseteq Conns
  BY DEF TablesTypeOK
<1> QED
  BY <1>1, <1>2 DEF Inv, CoreOK, Wakeup, TablesAgree

-----------------------------------------------------------------------------
(* Messages and the functions that address them.                           *)

(* One or two messages make a sequence of messages.                        *)
LEMMA ShortSeqs ==
    ASSUME NEW S, NEW x \in S, NEW y \in S
    PROVE  <<x>> \in Seq(S) /\ <<x, y>> \in Seq(S)
OBVIOUS

(* Every message the server builds is a message of the protocol.           *)
LEMMA MessageTypes ==
    ASSUME TypeOK
    PROVE  /\ Ack(TRUE) \in Message /\ Ack(FALSE) \in Message
           /\ Pong \in Message
           /\ \A us : UserList(Online(us)) \in Message
           /\ \A c \in Conns : ChatBroad(c) \in Message
           /\ \A c \in Conns, n \in Names : Private(c, n) \in Message
           /\ \A n \in Names \cup {None} : \A us :
                  /\ News(n, TRUE, us) \in Seq(Message)
                  /\ News(n, FALSE, us) \in Seq(Message)
<1>1. Ack(TRUE) \in Message /\ Ack(FALSE) \in Message
  BY DEF Ack, Message
<1>2. Pong \in Message
  BY DEF Pong, Message
<1>3. \A us : UserList(Online(us)) \in Message
  BY DEF UserList, Online, Message
<1>4. \A c \in Conns : ChatBroad(c) \in Message
  BY DEF ChatBroad, Message, TypeOK
<1>5. \A c \in Conns, n \in Names : Private(c, n) \in Message
  BY DEF Private, Message, TypeOK
<1>6. \A n \in Names \cup {None} : System(n, TRUE) \in Message /\ System(n, FALSE) \in Message
  BY DEF System, Message
<1>7. \A n \in Names \cup {None} : \A us : /\ News(n, TRUE, us) \in Seq(Message)
                                       /\ News(n, FALSE, us) \in Seq(Message)
  BY <1>3, <1>6, ShortSeqs DEF News
<1> QED
  BY <1>1, <1>2, <1>3, <1>4, <1>5, <1>7

(* Addressing messages to a set of connections gives one sequence each.    *)
LEMMA ToType ==
    ASSUME NEW S, NEW msgs \in Seq(Message)
    PROVE  To(S, msgs) \in [Conns -> Seq(Message)]
BY EmptySeq DEF To

(* So does sending one thing after another.                                *)
LEMMA BothType ==
    ASSUME NEW post1 \in [Conns -> Seq(Message)], NEW post2 \in [Conns -> Seq(Message)]
    PROVE  Both(post1, post2) \in [Conns -> Seq(Message)]
BY ConcatProperties DEF Both

(* Connection::send keeps the flag and the kernel in step on the open      *)
(* descriptors, and leaves no output without EPOLLOUT.                     *)
LEMMA DeliverKeepsWakeup ==
    ASSUME OutTypeOK, Wakeup,
           NEW post \in [Conns -> Seq(Message)],
           NEW open \in SUBSET reg, reg \subseteq Conns,
           Deliver(post, open),
           flushed' = flushed, flushed \in [Conns -> Nat],
           reg' = open
    PROVE  OutTypeOK' /\ Wakeup'
<1>1. /\ stream' \in [Conns -> Seq(Message)]
      /\ \A d \in Conns : post[d] = <<>> => stream'[d] = stream[d]
  BY ConcatProperties, ConcatEmptySeq DEF Deliver, OutTypeOK
<1>2. writing' \subseteq Conns /\ interest' \subseteq Conns
  BY DEF Deliver, OutTypeOK
<1>3. FlagMatchesKernel'
  BY DEF Deliver, Wakeup, FlagMatchesKernel
<1>4. NoLostWakeup'
  <2> SUFFICES ASSUME NEW c \in open, Pending(c)' > 0, c \notin interest'
               PROVE  FALSE
    BY DEF NoLostWakeup
  <2>1. c \in Conns /\ c \in reg
    OBVIOUS
  <2>2. c \notin interest /\ c \notin writing
    BY <2>1 DEF Deliver, Wakeup, FlagMatchesKernel
  <2>3. post[c] = <<>>
    BY <2>1, <2>2 DEF Deliver
  <2>4. Pending(c)' = Pending(c)
    BY <1>1, <2>1, <2>3 DEF Pending
  <2> QED
    BY <2>1, <2>2, <2>4 DEF Wakeup, NoLostWakeup
<1> QED
  BY <1>1, <1>2, <1>3, <1>4 DEF OutTypeOK, Wakeup

-----------------------------------------------------------------------------
(* Connection::close.                                                      *)

(* Without removes what points to c and nothing else.                      *)
LEMMA WithoutProperties ==
    ASSUME NEW us \in [Names -> Conns \cup {None}], NEW c \in Conns
    PROVE  /\ Without(us, c) \in [Names -> Conns \cup {None}]
           /\ \A n \in Names, d \in Conns : Without(us, c)[n] = d <=> us[n] = d /\ d # c
BY ConnsAssumption DEF Without

(* close, called with the user table as it is or with the connection's     *)
(* entry already taken out (handleLogOut), keeps the tables in agreement   *)
(* and takes the connection out of both registries.                        *)
LEMMA CloseKeepsTables ==
    ASSUME TypeOK, UsersMatchConnections, TablesAgree, Wakeup,
           NEW c \in Conns,
           NEW us \in {users, Without(users, c)},
           state[c] = "CLOSED" => us = users,
           Close(c, us), flushed' = flushed
    PROVE  /\ TablesTypeOK' /\ OutTypeOK' /\ Wakeup'
           /\ UsersMatchConnections'
           /\ reg' = mgr' /\ reg' = reg \ {c}
           /\ \A d \in reg' : state'[d] \in {"CONNECTING", "AUTHENTICATED"}
<1>1. CASE state[c] = "CLOSED"
  <2>1. UNCHANGED <<tableVars, outVars>>
    BY <1>1 DEF Close
  <2>2. c \notin reg
    BY <1>1 DEF TablesAgree
  <2>3. /\ users' = users /\ state' = state /\ username' = username
        /\ reg' = reg /\ mgr' = mgr
        /\ stream' = stream /\ writing' = writing /\ interest' = interest
    BY <2>1 DEF tableVars, outVars
  <2>4. TablesTypeOK' /\ OutTypeOK'
    BY <2>3 DEF TablesTypeOK, OutTypeOK, TypeOK
  <2>5. Wakeup'
    BY <2>3 DEF Wakeup, NoLostWakeup, FlagMatchesKernel, Pending
  <2>6. UsersMatchConnections'
    BY <2>3 DEF UsersMatchConnections
  <2> QED
    BY <2>2, <2>3, <2>4, <2>5, <2>6 DEF TablesAgree
<1>2. CASE state[c] # "CLOSED"
  <2> DEFINE wasUser == state[c] = "AUTHENTICATED"
             left    == IF wasUser THEN Without(us, c) ELSE us
             told    == IF wasUser THEN Audience(left) ELSE {}
             post    == To(told, News(username[c], FALSE, left))
  <2>1. /\ users' = left
        /\ Deliver(post, reg \ {c})
        /\ reg' = reg \ {c} /\ mgr' = Forget(c)
        /\ state' = [state EXCEPT ![c] = "CLOSED"] /\ username' = username
    BY <1>2 DEF Close
  <2>2. us \in [Names -> Conns \cup {None}] /\ users \in [Names -> Conns \cup {None}]
    <3>1. users \in [Names -> Conns \cup {None}]
      BY DEF TypeOK
    <3>2. Without(users, c) \in [Names -> Conns \cup {None}]
      BY <3>1, WithoutProperties
    <3> QED
      BY <3>1, <3>2
  <2>3. /\ left \in [Names -> Conns \cup {None}]
        /\ \A n \in Names, d \in Conns : left[n] = d <=> users[n] = d /\ d # c
    <3>1. \A n \in Names, d \in Conns : us[n] = d /\ d # c <=> users[n] = d /\ d # c
      BY <2>2, WithoutProperties
    <3>2. CASE wasUser
      BY <3>1, <3>2, <2>2, WithoutProperties
    <3>3. CASE ~wasUser
      <4>1. \A n \in Names : users[n] # c
        BY <3>3, <2>2 DEF UsersMatchConnections
      <4>2. us = users
        <5>1. \A n \in Names : Without(users, c)[n] = users[n]
          BY <4>1 DEF Without
        <5>2. Without(users, c) \in [Names -> Conns \cup {None}]
          BY <2>2, WithoutProperties
        <5>3. Without(users, c) = users
          BY <5>1, <5>2, <2>2
        <5> QED
          BY <5>3
      <4> QED
        BY <3>3, <4>1, <4>2, <2>2
    <3> QED
      BY <3>2, <3>3
  <2>4. post \in [Conns -> Seq(Message)]
    <3>1. username[c] \in Names \cup {None}
      BY DEF TypeOK
    <3>2. News(username[c], FALSE, left) \in Seq(Message)
      BY <3>1, MessageTypes
    <3> QED
      BY <3>2, ToType
  <2>5. OutTypeOK' /\ Wakeup'
    <3>1. OutTypeOK /\ reg \subseteq Conns /\ flushed \in [Conns -> Nat]
      BY DEF OutTypeOK, TypeOK
    <3>2. reg \ {c} \in SUBSET reg
      OBVIOUS
    <3> HIDE DEF post
    <3> QED
      BY <2>1, <2>4, <3>1, <3>2, DeliverKeepsWakeup
  <2>6. TablesTypeOK'
    BY <2>1, <2>3 DEF TablesTypeOK, TypeOK, Forget
  <2>7. UsersMatchConnections'
    <3> SUFFICES ASSUME NEW d \in Conns, NEW n \in Names
                 PROVE  users'[n] = d <=> state'[d] = "AUTHENTICATED" /\ username'[d] = n
      BY DEF UsersMatchConnections
    <3>1. users'[n] = d <=> users[n] = d /\ d # c
      BY <2>1, <2>3
    <3>2. state'[d] = IF d = c THEN "CLOSED" ELSE state[d]
      BY <2>1 DEF TypeOK
    <3> QED
      BY <2>1, <3>1, <3>2 DEF UsersMatchConnections
  <2>8. /\ reg' = mgr'
        /\ \A d \in reg' : state'[d] \in {"CONNECTING", "AUTHENTICATED"}
    BY <2>1 DEF TablesAgree, Forget, TypeOK
  <2> QED
    BY <2>1, <2>5, <2>6, <2>7, <2>8
<1> QED
  BY <1>1, <1>2

-----------------------------------------------------------------------------
(* The steps of the server and of its clients.                             *)

(* A step that leaves the tables, the outputs and flushed alone.           *)
LEMMA CoreFrame ==
    ASSUME CoreOK, UNCHANGED <<tableVars, outVars, flushed>>
    PROVE  CoreOK'
<1>1. /\ users' = users /\ state' = state /\ username' = username
      /\ reg' = reg /\ mgr' = mgr /\ flushed' = flushed
      /\ stream' = stream /\ writing' = writing /\ interest' = interest
  BY DEF tableVars, outVars
<1>2. TablesTypeOK' /\ OutTypeOK'
  BY <1>1 DEF TablesTypeOK, OutTypeOK, CoreOK
<1>3. Wakeup'
  BY <1>1 DEF Wakeup, NoLostWakeup, FlagMatchesKernel, Pending, CoreOK
<1>4. UsersMatchConnections'
  BY <1>1 DEF UsersMatchConnections, CoreOK
<1> QED
  BY <1>1, <1>2, <1>3, <1>4 DEF CoreOK

(* A step whose only effect on them is a close.                            *)
LEMMA CoreClose ==
    ASSUME Inv, NEW c \in Conns, NEW us \in {users, Without(users, c)},
           state[c] = "CLOSED" => us = users,
           Close(c, us), flushed' = flushed
    PROVE  CoreOK' /\ mgr' = mgr \ {c}
<1>1. TypeOK /\ UsersMatchConnections /\ TablesAgree /\ Wakeup
  BY DEF Inv, Wakeup
<1>2. /\ TablesTypeOK' /\ OutTypeOK' /\ Wakeup'
      /\ UsersMatchConnections'
      /\ reg' = mgr' /\ reg' = reg \ {c}
      /\ \A d \in reg' : state'[d] \in {"CONNECTING", "AUTHENTICATED"}
  BY <1>1, CloseKeepsTables
<1>3. reg = mgr
  BY <1>1 DEF TablesAgree
<1> QED
  BY <1>2, <1>3 DEF CoreOK

(* A step whose only effect on them is sending.                            *)
LEMMA CoreDeliver ==
    ASSUME Inv, NEW post \in [Conns -> Seq(Message)], Deliver(post, reg),
           UNCHANGED <<tableVars, flushed>>
    PROVE  CoreOK'
<1>1. /\ users' = users /\ state' = state /\ username' = username
      /\ reg' = reg /\ mgr' = mgr /\ flushed' = flushed
  BY DEF tableVars
<1>2. OutTypeOK /\ Wakeup /\ reg \subseteq Conns /\ flushed \in [Conns -> Nat]
  BY DEF Inv, OutTypeOK, Wakeup, TypeOK
<1>3. reg \in SUBSET reg
  OBVIOUS
<1>4. OutTypeOK' /\ Wakeup'
  BY <1>1, <1>2, <1>3, DeliverKeepsWakeup
<1>5. TablesTypeOK' /\ UsersMatchConnections'
  BY <1>1 DEF TablesTypeOK, UsersMatchConnections, Inv, TypeOK
<1> QED
  BY <1>1, <1>4, <1>5 DEF CoreOK, Inv, TablesAgree

(* Logins: the name is free and the connection has none, or is closed.     *)
LEMMA CoreLogin ==
    ASSUME Inv, NEW c \in Conns, cur = c, Decoding(c), HandleLogin(c)
    PROVE  CoreOK'
<1>1. CASE LoginRefused(c) /\ Reply(c, To({c}, <<Ack(FALSE)>>))
  <2>1. <<Ack(FALSE)>> \in Seq(Message)
    <3>1. Ack(FALSE) \in Message
      BY MessageTypes DEF Inv
    <3> QED
      BY <3>1, ShortSeqs
  <2>2. To({c}, <<Ack(FALSE)>>) \in [Conns -> Seq(Message)]
    BY <2>1, ToType
  <2> QED
    BY <1>1, <2>2, CoreDeliver DEF Reply, handlerVars
<1>2. CASE ~(LoginRefused(c) /\ Reply(c, To({c}, <<Ack(FALSE)>>)))
  <2> DEFINE n      == Body(c)
             joined == [users EXCEPT ![n] = c]
             post   == Both(To({c}, <<Ack(TRUE)>>),
                            To(Audience(joined), News(n, TRUE, joined)))
  <2>1. /\ n \in Names
        /\ users' = joined /\ Deliver(post, reg)
        /\ username' = [username EXCEPT ![c] = n]
        /\ state' = [state EXCEPT ![c] = "AUTHENTICATED"]
        /\ reg' = reg /\ mgr' = mgr /\ flushed' = flushed
    BY <1>2 DEF HandleLogin, handlerVars
  <2>a. ~LoginRefused(c)
    BY <1>2 DEF HandleLogin
  <2>2. users[n] = None /\ state[c] # "AUTHENTICATED"
    BY <2>a, <2>1 DEF LoginRefused, LoggedIn
  <2>3. post \in [Conns -> Seq(Message)]
    <3>1. Ack(TRUE) \in Message
      BY MessageTypes DEF Inv
    <3>2. News(n, TRUE, joined) \in Seq(Message)
      BY <2>1, MessageTypes DEF Inv
    <3>3. <<Ack(TRUE)>> \in Seq(Message)
      BY <3>1, ShortSeqs
    <3> QED
      BY <3>2, <3>3, ToType, BothType
  <2>4. OutTypeOK' /\ Wakeup'
    <3>1. OutTypeOK /\ Wakeup /\ reg \subseteq Conns /\ flushed \in [Conns -> Nat]
      BY DEF Inv, OutTypeOK, Wakeup, TypeOK
    <3>2. reg \in SUBSET reg
      OBVIOUS
    <3> HIDE DEF post
    <3> QED
      BY <2>1, <2>3, <3>1, <3>2, DeliverKeepsWakeup
  <2>5. TablesTypeOK'
    BY <2>1 DEF TablesTypeOK, Inv, TypeOK
  <2>6. UsersMatchConnections'
    <3> SUFFICES ASSUME NEW d \in Conns, NEW m \in Names
                 PROVE  users'[m] = d <=> state'[d] = "AUTHENTICATED" /\ username'[d] = m
      BY DEF UsersMatchConnections
    <3>1. users[m] = d <=> state[d] = "AUTHENTICATED" /\ username[d] = m
      BY DEF Inv, UsersMatchConnections
    <3>2. users'[m] = IF m = n THEN c ELSE users[m]
      BY <2>1 DEF Inv, TypeOK
    <3>3. /\ state'[d] = IF d = c THEN "AUTHENTICATED" ELSE state[d]
          /\ username'[d] = IF d = c THEN n ELSE username[d]
      BY <2>1 DEF Inv, TypeOK
    <3>4. None # d
      BY ConnsAssumption
    <3> QED
      BY <2>2, <3>1, <3>2, <3>3, <3>4
  <2>7. reg' = mgr' /\ \A d \in reg' : state'[d] \in {"CONNECTING", "AUTHENTICATED"}
    BY <2>1 DEF Inv, TablesAgree, TypeOK
  <2> QED
    BY <2>4, <2>5, <2>6, <2>7 DEF CoreOK
<1> QED
  BY <1>1, <1>2

(* A handler that only answers, or only passes a message on.               *)
LEMMA CoreReply ==
    ASSUME Inv, NEW c, NEW S, NEW msgs \in Seq(Message), Reply(c, To(S, msgs))
    PROVE  CoreOK'
<1>1. To(S, msgs) \in [Conns -> Seq(Message)]
  BY ToType
<1> QED
  BY <1>1, CoreDeliver DEF Reply, handlerVars

(* A handler changes nothing of its connection's event but the read buffer,*)
(* and no tick is closing connections meanwhile.                           *)
LEMMA HandlerRest ==
    ASSUME Inv, NEW c \in Conns, Decoding(c), UNCHANGED handlerVars,
           readBuf' \in [Conns -> Seq(Packet)]
    PROVE  RestTypeOK' /\ toClose' = {} /\ OneCallback'
<1>1. toClose = {}
  BY ConnsAssumption DEF Inv, OneCallback, Decoding
<1>2. /\ UNCHANGED <<proc, peer, inbox, budget, room, flushed, idle>>
      /\ UNCHANGED <<cur, thenWrite, toClose>>
  BY DEF handlerVars, clientVars, loopVars
<1>3. RestTypeOK'
  BY <1>2 DEF Inv, TypeOK, RestTypeOK
<1> QED
  BY <1>1, <1>2, <1>3 DEF OneCallback

(* What is left in the read buffer after a packet is packets again.        *)
LEMMA ConsumeType ==
    ASSUME Inv, NEW c \in Conns, Decoding(c), Consume(c)
    PROVE  readBuf' \in [Conns -> Seq(Packet)]
<1>1. Tail(readBuf[c]) \in Seq(Packet)
  BY HeadTailProperties DEF Inv, TypeOK, Decoding
<1> QED
  BY <1>1 DEF Consume, Inv, TypeOK

(* Each packet handler preserves the invariant.                            *)
LEMMA HandlePacketKeepsInv ==
    ASSUME Inv, NEW c \in Conns, HandlePacket(c)
    PROVE  Inv'
<1>1. Decoding(c) /\ cur = c
  BY DEF HandlePacket, UncaughtThrow, HandleLogin, HandleChat, HandlePrivate,
     HandleUserList, HandlePing, HandleOther, HandleLogOut, BadFrame, Decoding
<1> SUFFICES CoreOK' /\ RestTypeOK' /\ toClose' = {} /\ OneCallback'
  BY InvPartsPrimed
<1>2. Ack(FALSE) \in Message /\ <<Ack(FALSE)>> \in Seq(Message)
  <2>1. Ack(FALSE) \in Message
    BY MessageTypes DEF Inv
  <2> QED
    BY <2>1, ShortSeqs
<1>3. <<>> \in Seq(Message)
  BY EmptySeq
<1>4. ASSUME Consume(c), UNCHANGED handlerVars
      PROVE  RestTypeOK' /\ toClose' = {} /\ OneCallback'
  BY <1>1, <1>4, ConsumeType, HandlerRest
<1>5. CASE UncaughtThrow(c)
  <2>1. /\ UNCHANGED <<tableVars, outVars, flushed>>
        /\ UNCHANGED <<peer, inbox, budget, readBuf, room, idle>>
        /\ UNCHANGED <<cur, thenWrite, toClose>>
        /\ proc' = "crashed"
    BY <1>5 DEF UncaughtThrow, clientVars, loopVars
  <2>2. CoreOK'
    BY <2>1, CoreFrame, InvParts
  <2>3. RestTypeOK'
    BY <2>1 DEF RestTypeOK, Inv, TypeOK
  <2> QED
    BY <1>1, <2>1, <2>2, <2>3, ConnsAssumption DEF OneCallback, Inv
<1>6. CASE HandleLogin(c)
  <2>1. CoreOK'
    BY <1>1, <1>6, CoreLogin
  <2> QED
    BY <1>4, <1>6, <2>1 DEF HandleLogin, Reply
<1>7. CASE HandleChat(c)
  <2>1. <<ChatBroad(c)>> \in Seq(Message)
    <3>1. ChatBroad(c) \in Message
      BY MessageTypes DEF Inv
    <3> QED
      BY <3>1, ShortSeqs
  <2>2. CASE Reply(c, To({c}, <<Ack(FALSE)>>))
    BY <1>2, <1>4, <1>7, <2>2, CoreReply DEF HandleChat, Reply
  <2>3. CASE Reply(c, To({}, <<>>))
    BY <1>3, <1>4, <1>7, <2>3, CoreReply DEF HandleChat, Reply
  <2>4. CASE Reply(c, To(Audience(users) \ {c}, <<ChatBroad(c)>>))
    BY <1>4, <1>7, <2>1, <2>4, CoreReply DEF HandleChat, Reply
  <2> QED
    BY <1>7, <2>2, <2>3, <2>4 DEF HandleChat
<1>8. CASE HandlePrivate(c)
  <2>1. \A n \in Names : <<Private(c, n)>> \in Seq(Message)
    <3>1. \A n \in Names : Private(c, n) \in Message
      BY MessageTypes DEF Inv
    <3> QED
      BY <3>1, ShortSeqs
  <2>2. CASE Reply(c, To({c}, <<Ack(FALSE)>>))
    BY <1>2, <1>4, <1>8, <2>2, CoreReply DEF HandlePrivate, Reply
  <2>3. CASE Reply(c, To({}, <<>>))
    BY <1>3, <1>4, <1>8, <2>3, CoreReply DEF HandlePrivate, Reply
  <2>4. CASE /\ Body(c) \in Names
             /\ Reply(c, To({users[Body(c)]}, <<Private(c, Body(c))>>))
    BY <1>4, <1>8, <2>1, <2>4, CoreReply DEF HandlePrivate, Reply
  <2> QED
    BY <1>8, <2>2, <2>3, <2>4 DEF HandlePrivate
<1>9. CASE HandleUserList(c)
  <2>1. <<UserList(Online(users))>> \in Seq(Message)
    <3>1. UserList(Online(users)) \in Message
      BY MessageTypes DEF Inv
    <3> QED
      BY <3>1, ShortSeqs
  <2>2. CoreOK'
    BY <1>9, <2>1, CoreReply DEF HandleUserList
  <2> QED
    BY <1>4, <1>9, <2>2 DEF HandleUserList, Reply
<1>10. CASE HandlePing(c)
  <2>1. <<Pong>> \in Seq(Message)
    <3>1. Pong \in Message
      BY MessageTypes DEF Inv
    <3> QED
      BY <3>1, ShortSeqs
  <2>2. CoreOK'
    BY <1>10, <2>1, CoreReply DEF HandlePing
  <2> QED
    BY <1>4, <1>10, <2>2 DEF HandlePing, Reply
<1>11. CASE HandleOther(c)
  <2>1. CoreOK'
    BY <1>3, <1>11, CoreReply DEF HandleOther
  <2> QED
    BY <1>4, <1>11, <2>1 DEF HandleOther, Reply
<1>12. CASE HandleLogOut(c)
  <2> DEFINE us == IF state[c] = "CLOSED" THEN users ELSE Without(users, c)
  <2>1. /\ Close(c, us) /\ flushed' = flushed
        /\ us \in {users, Without(users, c)}
        /\ state[c] = "CLOSED" => us = users
    BY <1>12 DEF HandleLogOut, handlerVars
  <2> HIDE DEF us
  <2>2. CoreOK'
    BY <2>1, CoreClose
  <2> QED
    BY <1>4, <1>12, <2>2 DEF HandleLogOut
<1>13. CASE BadFrame(c)
  <2>1. CoreOK'
    <3>1. Close(c, users) /\ flushed' = flushed /\ users \in {users, Without(users, c)}
      BY <1>13 DEF BadFrame, handlerVars
    <3> QED
      BY <3>1, CoreClose
  <2>2. readBuf' \in [Conns -> Seq(Packet)]
    BY <1>13, EmptySeq DEF BadFrame, Inv, TypeOK
  <2> QED
    BY <1>1, <1>13, <2>1, <2>2, HandlerRest DEF BadFrame
<1> QED
  BY <1>5, <1>6, <1>7, <1>8, <1>9, <1>10, <1>11, <1>12, <1>13 DEF HandlePacket

(* onWrite's effect on one connection.                                     *)
LEMMA OnWriteKeepsCore ==
    ASSUME Inv, NEW c \in Conns, OnWrite(c)
    PROVE  /\ CoreOK'
           /\ mgr' = mgr \/ mgr' = mgr \ {c}
           /\ flushed' \in [Conns -> Nat] /\ idle' \in [Conns -> 0..(Timeout + 1)]
<1>1. CASE WriteAll(c)
  <2>1. /\ stream' = stream /\ users' = users /\ state' = state
        /\ username' = username /\ reg' = reg /\ mgr' = mgr
        /\ flushed' = [flushed EXCEPT ![c] = Len(stream[c])]
        /\ writing' = writing \ {c} /\ interest' = interest \ {c}
    BY <1>1 DEF WriteAll, tableVars, Disarmed
  <2>2. Len(stream[c]) \in Nat
    BY LenProperties DEF Inv, TypeOK
  <2>3. flushed' \in [Conns -> Nat]
    BY <2>1, <2>2 DEF Inv, TypeOK
  <2>4. idle' \in [Conns -> 0..(Timeout + 1)]
    BY <1>1, BoundsAssumption, SMTT(30) DEF WriteAll, Inv, TypeOK
  <2>5. TablesTypeOK' /\ OutTypeOK' /\ UsersMatchConnections'
    BY <2>1 DEF TablesTypeOK, OutTypeOK, UsersMatchConnections, Inv, TypeOK
  <2>6. FlagMatchesKernel'
    BY <2>1 DEF FlagMatchesKernel, Inv
  <2>7. NoLostWakeup'
    <3> SUFFICES ASSUME NEW d \in reg, Pending(d)' > 0 PROVE d \in interest'
      BY <2>1 DEF NoLostWakeup
    <3>1. d \in Conns
      BY DEF Inv, TypeOK
    <3>2. CASE d = c
      <4>1. Pending(d)' = 0
        BY <2>1, <2>2, <3>1, <3>2 DEF Pending, Inv, TypeOK
      <4> QED
        BY <4>1
    <3>3. CASE d # c
      <4>1. Pending(d)' = Pending(d)
        BY <2>1, <3>1, <3>3 DEF Pending, Inv, TypeOK
      <4> QED
        BY <2>1, <3>3, <4>1 DEF Inv, NoLostWakeup
    <3> QED
      BY <3>2, <3>3
  <2> QED
    BY <2>1, <2>3, <2>4, <2>5, <2>6, <2>7 DEF CoreOK, Wakeup, Inv, TablesAgree
<1>2. CASE WriteSome(c)
  <2>1. /\ stream' = stream /\ writing' = writing /\ interest' = interest
        /\ users' = users /\ state' = state /\ username' = username
        /\ reg' = reg /\ mgr' = mgr
    BY <1>2 DEF WriteSome, tableVars, outVars
  <2>2. PICK k \in 0..(Pending(c) - 1) :
            /\ flushed' = [flushed EXCEPT ![c] = @ + k]
            /\ idle' = [idle EXCEPT ![c] = IF k > 0 THEN 0 ELSE @]
    BY <1>2 DEF WriteSome
  <2>3. Pending(c) \in Int
    <3>1. Len(stream[c]) \in Nat /\ flushed[c] \in Nat
      BY LenProperties DEF Inv, TypeOK
    <3> QED
      BY <3>1 DEF Pending
  <2>4. k \in Nat /\ Pending(c) > 0 /\ c \in Conns
    BY <2>2, <2>3
  <2>5. flushed' \in [Conns -> Nat] /\ idle' \in [Conns -> 0..(Timeout + 1)]
    <3>1. flushed \in [Conns -> Nat] /\ idle \in [Conns -> 0..(Timeout + 1)]
      BY DEF Inv, TypeOK
    <3>2. flushed[c] + k \in Nat
      BY <2>4, <3>1
    <3>3. flushed' = [flushed EXCEPT ![c] = flushed[c] + k]
      BY <2>2
    <3>4. flushed' \in [Conns -> Nat]
      BY <3>1, <3>2, <3>3
    <3>5. 0 \in 0..(Timeout + 1)
      BY BoundsAssumption
    <3>6. idle' \in [Conns -> 0..(Timeout + 1)]
      BY <2>2, <3>1, <3>5
    <3> QED
      BY <3>4, <3>6
  <2>6. TablesTypeOK' /\ OutTypeOK' /\ UsersMatchConnections' /\ FlagMatchesKernel'
    BY <2>1 DEF TablesTypeOK, OutTypeOK, UsersMatchConnections, FlagMatchesKernel,
       Inv, TypeOK
  <2>7. NoLostWakeup'
    <3> SUFFICES ASSUME NEW d \in reg, Pending(d)' > 0 PROVE d \in interest
      BY <2>1 DEF NoLostWakeup
    <3>1. d \in Conns
      BY DEF Inv, TypeOK
    <3>2. CASE d = c
      BY <2>4, <3>2 DEF Inv, NoLostWakeup
    <3>3. CASE d # c
      <4>1. Pending(d)' = Pending(d)
        BY <2>1, <2>2, <3>1, <3>3 DEF Pending, Inv, TypeOK
      <4> QED
        BY <4>1 DEF Inv, NoLostWakeup
    <3> QED
      BY <3>2, <3>3
  <2> QED
    BY <2>1, <2>5, <2>6, <2>7 DEF CoreOK, Wakeup, Inv, TablesAgree
<1>3. CASE WriteFails(c)
  <2>1. Close(c, users) /\ flushed' = flushed /\ idle' = idle
    BY <1>3 DEF WriteFails
  <2>2. users \in {users, Without(users, c)}
    OBVIOUS
  <2>3. CoreOK' /\ mgr' = mgr \ {c}
    BY <2>1, <2>2, CoreClose
  <2> QED
    BY <2>1, <2>3 DEF Inv, TypeOK
<1> QED
  BY <1>1, <1>2, <1>3 DEF OnWrite

(* Each step of the clients and of the kernel preserves the invariant.     *)
LEMMA EnvironmentKeepsInv ==
    ASSUME Inv, NEW c \in Conns, Environment(c)
    PROVE  Inv'
<1> SUFFICES CoreOK' /\ RestTypeOK' /\ toClose' \subseteq mgr' /\ OneCallback'
  BY InvPartsPrimed
<1> USE DEF Inv
<1>1. CASE Dial(c)
  <2>1. /\ state[c] = "NONE" /\ state' = [state EXCEPT ![c] = "BACKLOG"]
        /\ username' = username /\ reg' = reg /\ users' = users /\ mgr' = mgr
        /\ stream' = stream /\ writing' = writing /\ interest' = interest
        /\ flushed' = flushed /\ cur' = cur /\ toClose' = toClose
    BY <1>1 DEF Dial, outVars, loopVars
  <2>2. RestTypeOK'
    BY <1>1 DEF Dial, loopVars, RestTypeOK, TypeOK
  <2>3. TablesTypeOK' /\ OutTypeOK'
    BY <2>1 DEF TablesTypeOK, OutTypeOK, TypeOK
  <2>4. UsersMatchConnections'
    <3>1. \A d \in Conns : state'[d] = "AUTHENTICATED" <=> state[d] = "AUTHENTICATED"
      BY <2>1 DEF TypeOK
    <3> QED
      BY <2>1, <3>1 DEF UsersMatchConnections
  <2>5. Wakeup'
    BY <2>1 DEF Wakeup, NoLostWakeup, FlagMatchesKernel, Pending
  <2> QED
    BY <2>1, <2>2, <2>3, <2>4, <2>5 DEF CoreOK, OneCallback, TablesAgree, TypeOK
<1>2. ASSUME UNCHANGED serverVars, proc' = proc,
             peer' \in [Conns -> {"none", "open", "stalled", "gone"}],
             inbox' \in [Conns -> Seq(Packet)], budget' \in [Conns -> 0..Budget]
      PROVE  CoreOK' /\ RestTypeOK' /\ toClose' \subseteq mgr' /\ OneCallback'
  <2>1. /\ UNCHANGED <<tableVars, outVars, flushed>>
        /\ UNCHANGED <<cur, thenWrite, toClose, readBuf, room, idle, mgr>>
    BY <1>2 DEF serverVars, loopVars, tableVars
  <2>2. CoreOK'
    BY <2>1, CoreFrame, InvParts
  <2>3. RestTypeOK'
    BY <1>2, <2>1 DEF RestTypeOK, TypeOK, serverVars
  <2> QED
    BY <2>1, <2>2, <2>3 DEF OneCallback, TablesAgree
<1>3. ASSUME NEW p \in Alphabet, ClientSend(c, p)
      PROVE  CoreOK' /\ RestTypeOK' /\ toClose' \subseteq mgr' /\ OneCallback'
  <2>1. p \in Packet
    BY PacketsAssumption
  <2>2. inbox' \in [Conns -> Seq(Packet)]
    BY <1>3, <2>1, AppendProperties DEF ClientSend, TypeOK
  <2>3. budget[c] \in 0..Budget /\ budget[c] > 0
    BY <1>3 DEF ClientSend, TypeOK
  <2>4. (IF QuietAfterLogout /\ p.type = "LOGOUT" THEN 0 ELSE budget[c] - 1) \in 0..Budget
    BY <2>3, BoundsAssumption
  <2>5. budget' \in [Conns -> 0..Budget]
    BY <1>3, <2>4 DEF ClientSend, TypeOK
  <2> QED
    BY <1>2, <1>3, <2>2, <2>5 DEF ClientSend, TypeOK
<1>4. CASE ClientLeave(c)
  BY <1>2, <1>4 DEF ClientLeave, TypeOK
<1>5. CASE ClientStall(c)
  BY <1>2, <1>5 DEF ClientStall, TypeOK
<1> QED
  BY <1>1, <1>3, <1>4, <1>5 DEF Environment

(* Accepting and reading.                                                  *)
LEMMA InputKeepsInv ==
    ASSUME Inv, NEW c \in Conns, Accept(c) \/ ReadEvent(c)
    PROVE  Inv'
<1> SUFFICES CoreOK' /\ RestTypeOK' /\ toClose' \subseteq mgr' /\ OneCallback'
  BY InvPartsPrimed
<1>1. CASE Accept(c)
  <2>1. /\ state[c] = "BACKLOG" /\ state' = [state EXCEPT ![c] = "CONNECTING"]
        /\ username' = [username EXCEPT ![c] = None]
        /\ reg' = reg \cup {c} /\ mgr' = mgr \cup {c} /\ users' = users
        /\ stream' = [stream EXCEPT ![c] = <<>>]
        /\ flushed' = [flushed EXCEPT ![c] = 0]
        /\ writing' = writing \ {c} /\ interest' = interest \ {c}
        /\ cur' = cur /\ toClose' = toClose
    BY <1>1 DEF Accept, loopVars
  <2>2. RestTypeOK'
    <3>1. UNCHANGED <<proc, peer, inbox, budget, cur, thenWrite, readBuf, room>>
      BY <1>1 DEF Accept, clientVars, loopVars
    <3>2. idle' \in [Conns -> 0..(Timeout + 1)]
      BY <1>1, BoundsAssumption DEF Accept, Inv, TypeOK
    <3>3. flushed' \in [Conns -> Nat]
      BY <2>1 DEF Inv, TypeOK
    <3> QED
      BY <3>1, <3>2, <3>3 DEF RestTypeOK, Inv, TypeOK
  <2>3. TablesTypeOK' /\ OutTypeOK'
    <3>1. TablesTypeOK'
      BY <2>1 DEF TablesTypeOK, Inv, TypeOK
    <3>2. OutTypeOK'
      BY <2>1, EmptySeq DEF OutTypeOK, Inv, TypeOK
    <3> QED
      BY <3>1, <3>2
  <2>4. UsersMatchConnections'
    <3> SUFFICES ASSUME NEW d \in Conns, NEW n \in Names
                 PROVE  users'[n] = d <=> state'[d] = "AUTHENTICATED" /\ username'[d] = n
      BY DEF UsersMatchConnections
    <3>1. users[n] = d <=> state[d] = "AUTHENTICATED" /\ username[d] = n
      BY DEF Inv, UsersMatchConnections
    <3>2. /\ state'[d] = IF d = c THEN "CONNECTING" ELSE state[d]
          /\ username'[d] = IF d = c THEN None ELSE username[d]
      BY <2>1 DEF Inv, TypeOK
    <3> QED
      BY <2>1, <3>1, <3>2
  <2>5. Wakeup'
    <3>1. FlagMatchesKernel'
      BY <2>1 DEF FlagMatchesKernel, Inv
    <3>2. NoLostWakeup'
      <4> SUFFICES ASSUME NEW d \in reg', Pending(d)' > 0 PROVE d \in interest'
        BY DEF NoLostWakeup
      <4>1. d \in Conns
        BY <2>1 DEF Inv, TypeOK
      <4>2. CASE d = c
        <5>1. stream'[d] = <<>> /\ flushed'[d] = 0
          BY <2>1, <4>1, <4>2 DEF Inv, TypeOK
        <5>2. Pending(d)' = 0
          BY <5>1, EmptySeq DEF Pending
        <5> QED
          BY <5>2
      <4>3. CASE d # c
        <5>1. Pending(d)' = Pending(d) /\ d \in reg
          BY <2>1, <4>1, <4>3 DEF Pending, Inv, TypeOK
        <5> QED
          BY <2>1, <4>3, <5>1 DEF Inv, NoLostWakeup
      <4> QED
        BY <4>2, <4>3
    <3> QED
      BY <3>1, <3>2 DEF Wakeup
  <2> QED
    BY <2>1, <2>2, <2>3, <2>4, <2>5 DEF CoreOK, OneCallback, TablesAgree, Inv, TypeOK
<1>2. CASE ReadCloses(c)
  <2>1. Close(c, users) /\ flushed' = flushed /\ toClose = {}
    BY <1>2 DEF ReadCloses, Dispatching
  <2>2. users \in {users, Without(users, c)}
    OBVIOUS
  <2>3. CoreOK'
    BY <2>1, <2>2, CoreClose
  <2>4. UNCHANGED <<proc, peer, inbox, budget, cur, thenWrite, toClose, readBuf,
                    room, flushed, idle>>
    BY <1>2 DEF ReadCloses, clientVars, loopVars
  <2>5. RestTypeOK'
    BY <2>4 DEF RestTypeOK, Inv, TypeOK
  <2> QED
    BY <2>1, <2>3, <2>4, <2>5 DEF OneCallback
<1>3. ASSUME NEW w \in BOOLEAN, ReadStarts(c, w)
      PROVE  CoreOK' /\ RestTypeOK' /\ toClose' \subseteq mgr' /\ OneCallback'
  <2>1. /\ UNCHANGED <<tableVars, outVars, flushed>>
        /\ toClose' = {}
    BY <1>3 DEF ReadStarts, Dispatching
  <2>2. CoreOK'
    BY <2>1, CoreFrame, InvParts
  <2>3. Len(inbox[c]) \in Nat /\ Len(inbox[c]) <= room[c] /\ room[c] \in 0..ReadRoom
    BY <1>3, LenProperties DEF ReadStarts, Fits, Inv, TypeOK
  <2>4. room[c] - Len(inbox[c]) \in 0..ReadRoom
    BY <2>3, BoundsAssumption
  <2>5. readBuf[c] \o inbox[c] \in Seq(Packet)
    BY ConcatProperties DEF Inv, TypeOK
  <2>6. RestTypeOK'
    <3>1. room' \in [Conns -> 0..ReadRoom] /\ readBuf' \in [Conns -> Seq(Packet)]
      BY <1>3, <2>4, <2>5 DEF ReadStarts, Fits, Inv, TypeOK
    <3>2. inbox' \in [Conns -> Seq(Packet)]
      BY <1>3, EmptySeq DEF ReadStarts, Inv, TypeOK
    <3>3. idle' \in [Conns -> 0..(Timeout + 1)]
      BY <1>3, BoundsAssumption DEF ReadStarts, Fits, Inv, TypeOK
    <3>4. /\ cur' = c /\ thenWrite' = w
          /\ UNCHANGED <<proc, peer, budget, flushed>>
      BY <1>3 DEF ReadStarts
    <3> QED
      BY <3>1, <3>2, <3>3, <3>4 DEF RestTypeOK, Inv, TypeOK
  <2> QED
    BY <2>1, <2>2, <2>6 DEF OneCallback
<1> QED
  BY <1>1, <1>2, <1>3 DEF ReadEvent

(* Writing, and the end of a read event.                                   *)
LEMMA OutputKeepsInv ==
    ASSUME Inv, NEW c \in Conns, ReadReturns(c) \/ WriteEvent(c)
    PROVE  Inv'
<1> SUFFICES CoreOK' /\ RestTypeOK' /\ toClose' \subseteq mgr' /\ OneCallback'
  BY InvPartsPrimed
<1>1. toClose = {} /\ toClose' = toClose
  BY ConnsAssumption DEF ReadReturns, WriteEvent, Dispatching, loopVars, Inv, OneCallback
<1>2. UNCHANGED <<proc, peer, inbox, budget, readBuf, room>>
  BY DEF ReadReturns, WriteEvent, clientVars
<1>3. cur' \in Conns \cup {None} /\ thenWrite' \in BOOLEAN
  BY DEF ReadReturns, WriteEvent, loopVars, Inv, TypeOK
<1>4. CASE OnWrite(c)
  <2>1. CoreOK' /\ flushed' \in [Conns -> Nat] /\ idle' \in [Conns -> 0..(Timeout + 1)]
    BY <1>4, OnWriteKeepsCore
  <2> QED
    BY <1>1, <1>2, <1>3, <2>1 DEF RestTypeOK, OneCallback, Inv, TypeOK
<1>5. CASE UNCHANGED <<tableVars, outVars, flushed, idle>>
  <2>1. CoreOK'
    BY <1>5, CoreFrame, InvParts
  <2> QED
    BY <1>1, <1>2, <1>3, <1>5, <2>1 DEF RestTypeOK, OneCallback, Inv, TypeOK
<1> QED
  BY <1>4, <1>5 DEF ReadReturns, WriteEvent

(* Time, the tick and the end of the process.                              *)
LEMMA ClockKeepsInv ==
    ASSUME Inv, Second \/ Tick \/ Stop \/ \E c \in Conns : TickCloses(c)
    PROVE  Inv'
<1> SUFFICES CoreOK' /\ RestTypeOK' /\ toClose' \subseteq mgr' /\ OneCallback'
  BY InvPartsPrimed
<1>1. CASE Second
  <2>1. /\ UNCHANGED <<tableVars, outVars, flushed>> /\ mgr' = mgr
        /\ UNCHANGED <<proc, peer, inbox, budget, readBuf, room, cur, thenWrite, toClose>>
    BY <1>1 DEF Second, clientVars, loopVars, tableVars
  <2>2. CoreOK'
    BY <2>1, CoreFrame, InvParts
  <2>3. idle' \in [Conns -> 0..(Timeout + 1)]
    BY <1>1, BoundsAssumption, SMTT(30) DEF Second, Inv, TypeOK
  <2> QED
    BY <2>1, <2>2, <2>3 DEF RestTypeOK, OneCallback, TablesAgree, Inv, TypeOK
<1>2. CASE Tick
  <2>1. /\ UNCHANGED <<tableVars, outVars, flushed>> /\ mgr' = mgr
        /\ UNCHANGED <<proc, peer, inbox, budget, readBuf, room, cur, thenWrite, idle>>
        /\ toClose' \subseteq mgr /\ cur = None
    BY <1>2 DEF Tick, Expired, Dispatching, clientVars, tableVars
  <2>2. CoreOK'
    BY <2>1, CoreFrame, InvParts
  <2> QED
    BY <2>1, <2>2 DEF RestTypeOK, OneCallback, Inv, TypeOK
<1>3. CASE Stop
  <2>1. /\ UNCHANGED <<tableVars, outVars, flushed>> /\ mgr' = mgr /\ proc' = "stopped"
        /\ UNCHANGED <<peer, inbox, budget, readBuf, room, cur, thenWrite, toClose, idle>>
    BY <1>3 DEF Stop, serverVars, clientVars, loopVars, tableVars
  <2>2. CoreOK'
    BY <2>1, CoreFrame, InvParts
  <2> QED
    BY <2>1, <2>2 DEF RestTypeOK, OneCallback, TablesAgree, Inv, TypeOK
<1>4. ASSUME NEW c \in Conns, TickCloses(c)
      PROVE  CoreOK' /\ RestTypeOK' /\ toClose' \subseteq mgr' /\ OneCallback'
  <2>1. /\ Close(c, users) /\ toClose' = toClose \ {c} /\ c \in toClose
        /\ UNCHANGED <<proc, peer, inbox, budget, readBuf, room, cur, thenWrite, flushed, idle>>
    BY <1>4 DEF TickCloses, clientVars
  <2>2. users \in {users, Without(users, c)}
    OBVIOUS
  <2>3. CoreOK' /\ mgr' = mgr \ {c}
    BY <2>1, <2>2, CoreClose
  <2> QED
    BY <2>1, <2>3 DEF RestTypeOK, OneCallback, TablesAgree, Inv, TypeOK
<1> QED
  BY <1>1, <1>2, <1>3, <1>4

-----------------------------------------------------------------------------
(* The theorems.                                                           *)

(* The server starts in a state that satisfies the invariant.              *)
LEMMA InitEstablishesInv == Init => Inv
<1> SUFFICES ASSUME Init PROVE Inv
  OBVIOUS
<1>1. TypeOK
  <2>1. /\ [c \in Conns |-> <<>>] \in [Conns -> Seq(Packet)]
        /\ [c \in Conns |-> <<>>] \in [Conns -> Seq(Message)]
    BY EmptySeq
  <2>2. inbox \in [Conns -> Seq(Packet)] /\ readBuf \in [Conns -> Seq(Packet)]
    BY <2>1 DEF Init
  <2>3. stream \in [Conns -> Seq(Message)]
    BY <2>1 DEF Init
  <2>4. /\ budget \in [Conns -> 0..Budget] /\ room \in [Conns -> 0..ReadRoom]
        /\ idle \in [Conns -> 0..(Timeout + 1)] /\ flushed \in [Conns -> Nat]
    BY BoundsAssumption DEF Init
  <2>5. /\ peer \in [Conns -> {"none", "open", "stalled", "gone"}]
        /\ state \in [Conns -> {"NONE", "BACKLOG", "CONNECTING", "AUTHENTICATED",
                                "CLOSED"}]
        /\ username \in [Conns -> Names \cup {None}]
        /\ users \in [Names -> Conns \cup {None}]
    BY DEF Init
  <2> QED
    BY <2>2, <2>3, <2>4, <2>5 DEF Init, TypeOK
<1>2. UsersMatchConnections
  BY ConnsAssumption DEF Init, UsersMatchConnections
<1> QED
  BY <1>1, <1>2 DEF Init, Inv, TablesAgree, NoLostWakeup, FlagMatchesKernel, OneCallback

(* A step of nothing in the system preserves the invariant.                *)
LEMMA StutterKeepsInv ==
    ASSUME Inv, UNCHANGED vars
    PROVE  Inv'
<1>1. /\ UNCHANGED <<tableVars, outVars, flushed>> /\ mgr' = mgr
      /\ UNCHANGED <<proc, peer, inbox, budget, readBuf, room, cur, thenWrite, toClose, idle>>
  BY DEF vars, clientVars, loopVars, tableVars
<1>2. CoreOK'
  BY <1>1, CoreFrame, InvParts
<1>3. RestTypeOK' /\ toClose' \subseteq mgr' /\ OneCallback'
  BY <1>1 DEF RestTypeOK, OneCallback, TablesAgree, Inv, TypeOK
<1> QED
  BY <1>2, <1>3, InvPartsPrimed

(* Every step preserves the invariant: it is inductive.                    *)
LEMMA NextKeepsInv == Inv /\ [Next]_vars => Inv'
<1> SUFFICES ASSUME Inv, [Next]_vars PROVE Inv'
  OBVIOUS
<1>1. CASE UNCHANGED vars
  BY <1>1, StutterKeepsInv
<1>2. CASE Second \/ Tick \/ Stop
  BY <1>2, ClockKeepsInv
<1>3. ASSUME NEW c \in Conns,
             \/ Environment(c) \/ Accept(c) \/ ReadEvent(c) \/ HandlePacket(c)
             \/ ReadReturns(c) \/ WriteEvent(c) \/ TickCloses(c)
      PROVE  Inv'
  <2>1. CASE Environment(c)
    BY <2>1, EnvironmentKeepsInv
  <2>2. CASE Accept(c) \/ ReadEvent(c)
    BY <2>2, InputKeepsInv
  <2>3. CASE HandlePacket(c)
    BY <2>3, HandlePacketKeepsInv
  <2>4. CASE ReadReturns(c) \/ WriteEvent(c)
    BY <2>4, OutputKeepsInv
  <2>5. CASE TickCloses(c)
    BY <2>5, ClockKeepsInv
  <2> QED
    BY <1>3, <2>1, <2>2, <2>3, <2>4, <2>5
<1> QED
  BY <1>1, <1>2, <1>3 DEF Next

(* The inductive invariant holds of the server in every state, for any     *)
(* number of clients, names, packets and ticks.                            *)
THEOREM InvHolds == Spec => []Inv
BY InitEstablishesInv, NextKeepsInv, PTL DEF Spec

(* Type correctness.                                                       *)
THEOREM TypeCorrect == Spec => []TypeOK
<1>1. Inv => TypeOK
  BY DEF Inv
<1> QED
  BY <1>1, InvHolds, PTL

(* One name, one connection: UserManager's table and the connections'      *)
(* state_ and username_ never disagree.                                    *)
THEOREM UsersAlwaysMatchConnections == Spec => []UsersMatchConnections
<1>1. Inv => UsersMatchConnections
  BY DEF Inv
<1> QED
  BY <1>1, InvHolds, PTL

(* epoll's registrations and ConnectionManager's set are the same open     *)
(* connections, and tick never closes one that is already gone.            *)
THEOREM TablesAlwaysAgree == Spec => []TablesAgree
<1>1. Inv => TablesAgree
  BY DEF Inv
<1> QED
  BY <1>1, InvHolds, PTL

(* No output is ever left behind without an armed EPOLLOUT.                *)
THEOREM NeverALostWakeup == Spec => []NoLostWakeup
<1>1. Inv => NoLostWakeup
  BY DEF Inv
<1> QED
  BY <1>1, InvHolds, PTL

-----------------------------------------------------------------------------
(* Clients that stay within the read buffer.                               *)

(* What may still come fits into what is left of readBuf_.                 *)
RoomLeft == \A c \in Conns : Len(inbox[c]) + budget[c] <= room[c]

(* Sending turns budget into input, reading input into room used up.       *)
LEMMA NextKeepsRoomLeft == Inv /\ RoomLeft /\ [Next]_vars => RoomLeft'
<1> SUFFICES ASSUME Inv, RoomLeft, [Next]_vars, NEW d \in Conns
             PROVE  Len(inbox'[d]) + budget'[d] <= room'[d]
  BY DEF RoomLeft
<1>0. /\ inbox \in [Conns -> Seq(Packet)] /\ budget \in [Conns -> 0..Budget]
      /\ room \in [Conns -> 0..ReadRoom] /\ ReadRoom \in Nat /\ Budget \in Nat
      /\ Len(inbox[d]) \in Nat /\ budget[d] \in Nat /\ room[d] \in Nat
      /\ Len(inbox[d]) + budget[d] <= room[d]
  <2>1. /\ inbox \in [Conns -> Seq(Packet)] /\ budget \in [Conns -> 0..Budget]
        /\ room \in [Conns -> 0..ReadRoom]
    BY DEF Inv, TypeOK
  <2>2. ReadRoom \in Nat /\ Budget \in Nat
    BY BoundsAssumption
  <2>3. budget[d] \in 0..Budget /\ room[d] \in 0..ReadRoom /\ inbox[d] \in Seq(Packet)
    BY <2>1
  <2>4. Len(inbox[d]) \in Nat /\ budget[d] \in Nat /\ room[d] \in Nat
    BY <2>2, <2>3, LenProperties
  <2>5. Len(inbox[d]) + budget[d] <= room[d]
    BY DEF RoomLeft
  <2> QED
    BY <2>1, <2>2, <2>4, <2>5
<1>1. CASE UNCHANGED <<inbox, budget, room>>
  BY <1>0, <1>1
<1>2. ASSUME NEW c \in Conns, NEW p \in Alphabet, ClientSend(c, p)
      PROVE  Len(inbox'[d]) + budget'[d] <= room'[d]
  <2>1. /\ p \in Packet /\ budget[c] > 0 /\ room' = room
        /\ inbox' = [inbox EXCEPT ![c] = Append(@, p)]
        /\ budget' = [budget EXCEPT ![c] =
                        IF QuietAfterLogout /\ p.type = "LOGOUT" THEN 0 ELSE @ - 1]
    BY <1>2, PacketsAssumption DEF ClientSend, serverVars
  <2>2. CASE c # d
    BY <1>0, <2>1, <2>2
  <2>3. CASE c = d
    <3>1. Len(inbox'[d]) = Len(inbox[d]) + 1
      BY <1>0, <2>1, <2>3, AppendProperties
    <3>2. budget'[d] \in {0, budget[d] - 1}
      BY <1>0, <2>1, <2>3
    <3> QED
      BY <1>0, <2>1, <2>3, <3>1, <3>2
  <2> QED
    BY <2>2, <2>3
<1>3. ASSUME NEW c \in Conns, NEW w \in BOOLEAN, ReadStarts(c, w)
      PROVE  Len(inbox'[d]) + budget'[d] <= room'[d]
  <2>1. /\ budget' = budget /\ inbox' = [inbox EXCEPT ![c] = <<>>]
        /\ room' = [room EXCEPT ![c] = @ - Len(inbox[c])]
    BY <1>3 DEF ReadStarts
  <2>2. CASE c = d
    <3>1. Len(inbox'[d]) = 0 /\ room'[d] = room[d] - Len(inbox[d])
      BY <1>0, <2>1, <2>2
    <3> QED
      BY <1>0, <2>1, <3>1
  <2> QED
    BY <1>0, <2>1, <2>2
<1>4. ASSUME NEW c \in Conns, HandlePacket(c)
      PROVE  UNCHANGED <<inbox, budget, room>>
  BY <1>4 DEF HandlePacket, UncaughtThrow, HandleLogin, HandleChat, HandlePrivate,
     HandleUserList, HandlePing, HandleOther, HandleLogOut, BadFrame, Reply,
     handlerVars, clientVars
<1>5. ASSUME NEW c \in Conns, \/ Dial(c) \/ ClientLeave(c) \/ ClientStall(c) \/ Accept(c)
                              \/ ReadCloses(c) \/ ReadReturns(c) \/ WriteEvent(c)
                              \/ TickCloses(c)
      PROVE  UNCHANGED <<inbox, budget, room>>
  BY <1>5 DEF Dial, ClientLeave, ClientStall, Accept, ReadCloses, ReadReturns,
     WriteEvent, TickCloses, serverVars, clientVars
<1>6. CASE UNCHANGED vars \/ Second \/ Tick \/ Stop
  BY <1>1, <1>6 DEF vars, Second, Tick, Stop, serverVars, clientVars
<1> QED
  BY <1>1, <1>2, <1>3, <1>4, <1>5, <1>6 DEF Next, Environment, ReadEvent

(* Whom tick has collected stays idle until tick closes him: nothing of    *)
(* the closings before him, the news they send among it, counts as his     *)
(* activity.                                                               *)
StillIdle == \A c \in toClose : idle[c] > Timeout

LEMMA NextKeepsStillIdle == Inv /\ StillIdle /\ [Next]_vars => StillIdle'
<1> SUFFICES ASSUME Inv, StillIdle, [Next]_vars
             PROVE  StillIdle'
  OBVIOUS
<1>1. CASE UNCHANGED vars
  BY <1>1 DEF vars, loopVars, StillIdle
<1>2. CASE Second \/ Stop \/ \E c \in Conns : Accept(c) \/ ReadEvent(c) \/ WriteEvent(c)
  <2>1. toClose' = {}
    BY <1>2 DEF Second, Stop, Accept, ReadEvent, ReadCloses, ReadStarts, WriteEvent,
       Dispatching, loopVars, serverVars
  <2> QED
    BY <2>1 DEF StillIdle
<1>3. CASE Tick
  BY <1>3 DEF Tick, Expired, StillIdle
<1>4. CASE \E c \in Conns : TickCloses(c) \/ Environment(c)
  <2>1. toClose' \subseteq toClose /\ idle' = idle
    BY <1>4 DEF TickCloses, Environment, Dial, ClientSend, ClientLeave, ClientStall,
       loopVars, serverVars
  <2> QED
    BY <2>1 DEF StillIdle
<1>5. CASE \E c \in Conns : HandlePacket(c) \/ ReadReturns(c)
  <2>1. cur # None
    BY <1>5, ConnsAssumption DEF HandlePacket, ReadReturns, UncaughtThrow, HandleLogin,
       HandleChat, HandlePrivate, HandleUserList, HandlePing, HandleOther, HandleLogOut,
       BadFrame, Decoding
  <2>2. toClose' = toClose
    BY <1>5 DEF HandlePacket, ReadReturns, UncaughtThrow, HandleLogin, HandleChat,
       HandlePrivate, HandleUserList, HandlePing, HandleOther, HandleLogOut, BadFrame,
       Reply, handlerVars, loopVars, serverVars
  <2> QED
    BY <2>1, <2>2 DEF Inv, OneCallback, StillIdle
<1> QED
  BY <1>1, <1>2, <1>3, <1>4, <1>5 DEF Next

(* close unregisters its own connection only.                              *)
LEMMA CloseUnregisters ==
    ASSUME NEW c, NEW us, Close(c, us), NEW d \in reg, d \notin reg'
    PROVE  d = c
BY DEF Close, tableVars

(* Every way to the end of a connection has its reason.                    *)
LEMMA EndsHaveReasons ==
    ASSUME Inv, RoomLeft, StillIdle, [Next]_vars, NEW d \in reg, d \notin reg'
    PROVE  \/ peer[d] = "gone"
           \/ d \in toClose /\ idle[d] > Timeout
           \/ cur = d /\ readBuf[d] # <<>> /\ Type(d) \in {"LOGOUT", "BADFRAME"}
<1>0. d \in Conns /\ \A c \in Conns : Fits(c)
  <2>1. d \in Conns
    BY DEF Inv, TypeOK
  <2>2. ASSUME NEW c \in Conns
        PROVE  Fits(c)
    <3>1. /\ inbox[c] \in Seq(Packet) /\ budget[c] \in 0..Budget
          /\ room[c] \in 0..ReadRoom
      BY DEF Inv, TypeOK
    <3>2. Len(inbox[c]) \in Nat /\ budget[c] \in Nat /\ room[c] \in Nat
      BY <3>1, BoundsAssumption, LenProperties
    <3>3. Len(inbox[c]) + budget[c] <= room[c]
      BY DEF RoomLeft
    <3> QED
      BY <3>2, <3>3 DEF Fits
  <2> QED
    BY <2>1, <2>2
<1>1. CASE UNCHANGED vars \/ Second \/ Tick \/ Stop
  BY <1>1 DEF vars, Second, Tick, Stop, serverVars, tableVars
<1>2. ASSUME NEW c \in Conns, Environment(c) \/ Accept(c)
      PROVE  FALSE
  BY <1>2 DEF Environment, Dial, ClientSend, ClientLeave, ClientStall, serverVars,
     tableVars, Accept
<1>3. ASSUME NEW c \in Conns, ReadEvent(c)
      PROVE  peer[d] = "gone"
  BY <1>0, <1>3, CloseUnregisters DEF ReadEvent, ReadCloses, ReadStarts, tableVars
<1>4. ASSUME NEW c \in Conns, OnWrite(c)
      PROVE  peer[d] = "gone"
  BY <1>4, CloseUnregisters DEF OnWrite, WriteAll, WriteSome, WriteFails, tableVars
<1>5. ASSUME NEW c \in Conns, ReadReturns(c) \/ WriteEvent(c)
      PROVE  peer[d] = "gone"
  BY <1>4, <1>5 DEF ReadReturns, WriteEvent, tableVars
<1>6. ASSUME NEW c \in Conns, TickCloses(c)
      PROVE  d \in toClose /\ idle[d] > Timeout
  BY <1>6, CloseUnregisters DEF TickCloses, StillIdle
<1>7. ASSUME NEW c \in Conns, HandlePacket(c)
      PROVE  cur = d /\ readBuf[d] # <<>> /\ Type(d) \in {"LOGOUT", "BADFRAME"}
  <2>1. CASE HandleLogOut(c) \/ BadFrame(c)
    BY <2>1, CloseUnregisters DEF HandleLogOut, BadFrame, Decoding
  <2>2. CASE reg' = reg
    BY <2>2
  <2> QED
    BY <1>7, <2>1, <2>2 DEF HandlePacket, UncaughtThrow, HandleLogin, HandleChat,
       HandlePrivate, HandleUserList, HandlePing, HandleOther, Reply, tableVars
<1> QED
  BY <1>1, <1>2, <1>3, <1>5, <1>6, <1>7 DEF Next

(* The server ends a connection only if the peer hung up, said LOGOUT,     *)
(* broke the framing, or is idle beyond the timeout, provided that no      *)
(* client sends more in its life than the read buffer holds: that limit,   *)
(* which no client is told of, is the only other reason there is.          *)
THEOREM ClosesHaveReasons ==
    ASSUME Budget <= ReadRoom PROVE Spec => ClosedForAReason
<1>1. Init => RoomLeft /\ StillIdle
  BY BoundsAssumption DEF Init, RoomLeft, StillIdle
<1>2. Inv /\ RoomLeft /\ StillIdle /\ [Next]_vars =>
        [\A c \in reg : c \notin reg' =>
           \/ peer[c] = "gone"
           \/ c \in toClose /\ idle[c] > Timeout
           \/ cur = c /\ readBuf[c] # <<>> /\ Type(c) \in {"LOGOUT", "BADFRAME"}
        ]_vars
  BY EndsHaveReasons
<1> QED
  BY <1>1, <1>2, InvHolds, NextKeepsRoomLeft, NextKeepsStillIdle, PTL
  DEF Spec, ClosedForAReason

=============================================================================
