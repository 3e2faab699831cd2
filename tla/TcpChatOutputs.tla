--------------------------- MODULE TcpChatOutputs --------------------------
(***************************************************************************)
(* Theorems about what the clients of TcpChat are told, and in which       *)
(* order.  Every step of the server is one of seven kinds (StepKinds), as  *)
(* far as users and outputs go; each invariant is then proved kind by kind.*)
(***************************************************************************)
EXTENDS TcpChatProofs

-----------------------------------------------------------------------------
(* What a step does to the users and the outputs.                          *)

Posted(post) == stream' = [d \in Conns |-> stream[d] \o post[d]]

SameUsers == UNCHANGED <<users, state, username>>

(* The connection has logged in at some time, or has ended.                *)
Past == {"AUTHENTICATED", "CLOSED"}

Settled(c) == state[c] \in Past

(* The server has no Connection yet for what the client has dialed.        *)
Waiting == {"NONE", "BACKLOG"}

(* Nothing is sent, and nobody comes or goes: at most a connection that    *)
(* has no user gets on or ends.                                            *)
StandsStill ==
    /\ UNCHANGED <<stream, users, username>>
    /\ \A d \in Conns : state'[d] # state[d] =>
          /\ ~Settled(d) /\ state'[d] # "AUTHENTICATED"
          /\ state'[d] \in Waiting => state[d] \in Waiting

(* accept: a new connection, with no output and no name.                   *)
Admitted(c) ==
    /\ state[c] = "BACKLOG"
    /\ state' = [state EXCEPT ![c] = "CONNECTING"]
    /\ username' = [username EXCEPT ![c] = None]
    /\ stream' = [stream EXCEPT ![c] = <<>>]
    /\ users' = users

(* A packet is answered to its sender alone.                               *)
Answered(c, m) ==
    /\ readBuf[c] # <<>>
    /\ m \in {Ack(FALSE), Pong, UserList(Online(users))}
    /\ Posted(To({c}, <<m>>)) /\ SameUsers

Said(c) ==
    /\ LoggedIn(c)
    /\ Posted(To(Audience(users) \ {c}, <<ChatBroad(c)>>)) /\ SameUsers

Whispered(c, n) ==
    /\ LoggedIn(c) /\ users[n] # None
    /\ Posted(To({users[n]}, <<Private(c, n)>>)) /\ SameUsers

Joined(c, n) ==
    /\ readBuf[c] # <<>> /\ ~LoggedIn(c) /\ users[n] = None
    /\ users' = [users EXCEPT ![n] = c]
    /\ state' = [state EXCEPT ![c] = "AUTHENTICATED"]
    /\ username' = [username EXCEPT ![c] = n]
    /\ Posted(Both(To({c}, <<Ack(TRUE)>>),
                   To(Audience(users'), News(n, TRUE, users'))))

Left(c) ==
    /\ LoggedIn(c)
    /\ users' = Without(users, c)
    /\ state' = [state EXCEPT ![c] = "CLOSED"]
    /\ username' = username
    /\ Posted(To(Audience(users'), News(username[c], FALSE, users')))

Kinds(c) ==
    \/ Admitted(c)
    \/ \E m \in Message : Answered(c, m)
    \/ Said(c)
    \/ \E n \in Names : Whispered(c, n) \/ Joined(c, n)
    \/ Left(c)

(* Posting nothing leaves every output as it is.                           *)
LEMMA NothingPosted ==
    ASSUME TypeOK, NEW msgs, Posted(To({}, msgs))
    PROVE  stream' = stream
<1>1. stream \in [Conns -> Seq(Message)]
  BY DEF TypeOK
<1>2. \A d \in Conns : stream[d] \o <<>> = stream[d]
  BY <1>1, ConcatEmptySeq
<1>3. stream' = [d \in Conns |-> stream[d] \o <<>>]
  BY DEF Posted, To
<1> QED
  BY <1>1, <1>2, <1>3

(* Connection::close ends a user's session, or nobody notices.             *)
LEMMA CloseKind ==
    ASSUME Inv, NEW c \in Conns, NEW us \in {users, Without(users, c)},
           state[c] = "CLOSED" => us = users,
           Close(c, us)
    PROVE  StandsStill \/ Left(c)
<1>0. users \in [Names -> Conns \cup {None}] /\ TablesTypeOK
  BY DEF Inv, TypeOK, TablesTypeOK
<1>1. CASE state[c] = "CLOSED"
  <2>1. stream' = stream /\ users' = users /\ username' = username /\ state' = state
    BY <1>1 DEF Close, tableVars, outVars
  <2> QED
    BY <2>1 DEF StandsStill
<1>2. CASE state[c] = "AUTHENTICATED"
  <2> DEFINE left == Without(us, c)
  <2>1. /\ users' = left /\ username' = username
        /\ state' = [state EXCEPT ![c] = "CLOSED"]
        /\ Deliver(To(Audience(left), News(username[c], FALSE, left)), reg \ {c})
    BY <1>2 DEF Close
  <2>2. left = Without(users, c)
    <3>1. Without(Without(users, c), c) = Without(users, c)
      BY <1>0, ConnsAssumption DEF Without
    <3> QED
      BY <3>1
  <2> HIDE DEF left
  <2>3. Posted(To(Audience(users'), News(username[c], FALSE, users')))
    BY <2>1 DEF Deliver, Posted
  <2> QED
    BY <1>2, <2>1, <2>2, <2>3 DEF Left, LoggedIn
<1>3. CASE state[c] \notin {"CLOSED", "AUTHENTICATED"}
  <2>1. us = users
    <3>1. \A n \in Names : users[n] # c
      BY <1>3 DEF Inv, UsersMatchConnections
    <3>2. Without(users, c) = users
      BY <1>0, <3>1 DEF Without
    <3> QED
      BY <3>2
  <2>2. /\ users' = us /\ username' = username
        /\ state' = [state EXCEPT ![c] = "CLOSED"]
        /\ Deliver(To({}, News(username[c], FALSE, us)), reg \ {c})
    BY <1>3 DEF Close
  <2>3. stream' = stream
    <3>1. TypeOK /\ Posted(To({}, News(username[c], FALSE, us)))
      BY <2>2 DEF Inv, Deliver, Posted
    <3> QED
      BY <3>1, NothingPosted
  <2>4. \A d \in Conns : state'[d] # state[d] => d = c /\ state'[d] = "CLOSED"
    BY <1>0, <2>2 DEF TablesTypeOK
  <2> QED
    BY <1>3, <2>1, <2>2, <2>3, <2>4 DEF StandsStill, Settled, Past, Waiting
<1> QED
  BY <1>1, <1>2, <1>3

(* A handler that only posts.                                              *)
LEMMA ReplyKind ==
    ASSUME NEW c, NEW post, Reply(c, post)
    PROVE  Posted(post) /\ SameUsers
BY DEF Reply, Deliver, Posted, SameUsers, tableVars

(* A handler that answers a packet with one message.                       *)
LEMMA AnswerKind ==
    ASSUME NEW c \in Conns, Decoding(c),
           NEW m \in {Ack(FALSE), Pong, UserList(Online(users))},
           Reply(c, To({c}, <<m>>))
    PROVE  Answered(c, m)
BY ReplyKind DEF Answered, Decoding

(* An answer is no notice and no speech, and a list only of who is online. *)
LEMMA AnswerTypes ==
    ASSUME NEW c, NEW m, Answered(c, m)
    PROVE  /\ m.type \in {"LOGIN_ACK", "USER_LIST", "PONG"}
           /\ m.type = "USER_LIST" => m.users = Online(users)
BY DEF Answered, Ack, Pong, UserList

(* A handler that does nothing.                                            *)
LEMMA SilentKind ==
    ASSUME Inv, NEW c, Reply(c, To({}, <<>>))
    PROVE  StandsStill
<1>1. TypeOK /\ Posted(To({}, <<>>)) /\ SameUsers
  BY ReplyKind DEF Inv
<1>2. stream' = stream
  BY <1>1, NothingPosted
<1> QED
  BY <1>1, <1>2 DEF StandsStill, SameUsers

(* Every packet handler.                                                   *)
LEMMA HandlerKinds ==
    ASSUME Inv, NEW c \in Conns, HandlePacket(c)
    PROVE  StandsStill \/ Kinds(c)
<1>0. /\ Ack(FALSE) \in Message /\ Pong \in Message
      /\ UserList(Online(users)) \in Message
  BY MessageTypes DEF Inv
<1>1. CASE UncaughtThrow(c)
  BY <1>1 DEF UncaughtThrow, StandsStill, tableVars, outVars
<1>2. CASE HandleLogin(c)
  <2>1. CASE Reply(c, To({c}, <<Ack(FALSE)>>))
    BY <1>0, <1>2, <2>1, AnswerKind DEF HandleLogin, Kinds
  <2>2. CASE ~Reply(c, To({c}, <<Ack(FALSE)>>))
    <3> DEFINE n      == Body(c)
               joined == [users EXCEPT ![n] = c]
    <3>1. /\ n \in Names /\ ~LoginRefused(c) /\ Decoding(c)
          /\ users' = joined
          /\ username' = [username EXCEPT ![c] = n]
          /\ state' = [state EXCEPT ![c] = "AUTHENTICATED"]
          /\ Deliver(Both(To({c}, <<Ack(TRUE)>>),
                          To(Audience(joined), News(n, TRUE, joined))), reg)
      BY <1>2, <2>2 DEF HandleLogin
    <3>2. users[n] = None /\ ~LoggedIn(c) /\ readBuf[c] # <<>>
      BY <3>1 DEF LoginRefused, Decoding
    <3> HIDE DEF joined, n
    <3>3. Posted(Both(To({c}, <<Ack(TRUE)>>),
                      To(Audience(users'), News(n, TRUE, users'))))
      BY <3>1 DEF Deliver, Posted
    <3>4. users' = [users EXCEPT ![n] = c]
      BY <3>1 DEF joined
    <3>5. Joined(c, n)
      BY <3>1, <3>2, <3>3, <3>4 DEF Joined
    <3> QED
      BY <3>1, <3>5 DEF Kinds
  <2> QED
    BY <2>1, <2>2
<1>3. CASE HandleChat(c)
  <2>1. CASE Reply(c, To({c}, <<Ack(FALSE)>>))
    BY <1>0, <1>3, <2>1, AnswerKind DEF HandleChat, Kinds
  <2>2. CASE Reply(c, To({}, <<>>))
    BY <2>2, SilentKind
  <2>3. CASE LoggedIn(c) /\ Reply(c, To(Audience(users) \ {c}, <<ChatBroad(c)>>))
    BY <2>3, ReplyKind DEF Said, Kinds
  <2> QED
    BY <1>3, <2>1, <2>2, <2>3 DEF HandleChat
<1>4. CASE HandlePrivate(c)
  <2>1. CASE Reply(c, To({c}, <<Ack(FALSE)>>))
    BY <1>0, <1>4, <2>1, AnswerKind DEF HandlePrivate, Kinds
  <2>2. CASE Reply(c, To({}, <<>>))
    BY <2>2, SilentKind
  <2>3. CASE /\ LoggedIn(c) /\ Body(c) \in Names /\ users[Body(c)] # None
             /\ Reply(c, To({users[Body(c)]}, <<Private(c, Body(c))>>))
    BY <2>3, ReplyKind DEF Whispered, Kinds
  <2> QED
    BY <1>4, <2>1, <2>2, <2>3 DEF HandlePrivate
<1>5. CASE HandleUserList(c)
  BY <1>0, <1>5, AnswerKind DEF HandleUserList, Kinds
<1>6. CASE HandlePing(c)
  BY <1>0, <1>6, AnswerKind DEF HandlePing, Kinds
<1>7. CASE HandleOther(c)
  BY <1>7, SilentKind DEF HandleOther
<1>8. CASE HandleLogOut(c)
  <2> DEFINE us == IF state[c] = "CLOSED" THEN users ELSE Without(users, c)
  <2>1. /\ Close(c, us) /\ us \in {users, Without(users, c)}
        /\ state[c] = "CLOSED" => us = users
    BY <1>8 DEF HandleLogOut
  <2> HIDE DEF us
  <2> QED
    BY <2>1, CloseKind DEF Kinds
<1>9. CASE BadFrame(c)
  BY <1>9, CloseKind DEF BadFrame, Kinds
<1> QED
  BY <1>1, <1>2, <1>3, <1>4, <1>5, <1>6, <1>7, <1>8, <1>9 DEF HandlePacket

(* Every step of the server and of its clients is of one of the kinds.     *)
LEMMA StepKinds ==
    ASSUME Inv, [Next]_vars
    PROVE  StandsStill \/ \E c \in Conns : Kinds(c)
<1>1. ASSUME NEW c \in Conns, Close(c, users)
      PROVE  StandsStill \/ Kinds(c)
  BY <1>1, CloseKind DEF Kinds
<1>2. CASE UNCHANGED vars \/ Second \/ Tick \/ Stop
  BY <1>2 DEF vars, Second, Tick, Stop, serverVars, tableVars, outVars, StandsStill
<1>3. ASSUME NEW c \in Conns, Environment(c)
      PROVE  StandsStill
  <2>1. CASE Dial(c)
    BY <2>1 DEF Dial, outVars, StandsStill, Settled, Past, Waiting, Inv, TypeOK
  <2>2. CASE (\E p \in Alphabet : ClientSend(c, p)) \/ ClientLeave(c) \/ ClientStall(c)
    BY <2>2 DEF ClientSend, ClientLeave, ClientStall, serverVars, tableVars, outVars,
       StandsStill
  <2> QED
    BY <1>3, <2>1, <2>2 DEF Environment
<1>4. ASSUME NEW c \in Conns, Accept(c)
      PROVE  Kinds(c)
  BY <1>4 DEF Accept, Admitted, Kinds
<1>5. ASSUME NEW c \in Conns, ReadEvent(c)
      PROVE  StandsStill \/ Kinds(c)
  <2>1. CASE ReadCloses(c)
    BY <1>1, <2>1 DEF ReadCloses
  <2>2. CASE \E w \in BOOLEAN : ReadStarts(c, w)
    BY <2>2 DEF ReadStarts, tableVars, outVars, StandsStill
  <2> QED
    BY <1>5, <2>1, <2>2 DEF ReadEvent
<1>6. ASSUME NEW c \in Conns, OnWrite(c)
      PROVE  StandsStill \/ Kinds(c)
  <2>1. CASE WriteAll(c) \/ WriteSome(c)
    BY <2>1 DEF WriteAll, WriteSome, tableVars, outVars, StandsStill
  <2>2. CASE WriteFails(c)
    BY <1>1, <2>2 DEF WriteFails
  <2> QED
    BY <1>6, <2>1, <2>2 DEF OnWrite
<1>7. ASSUME NEW c \in Conns, ReadReturns(c) \/ WriteEvent(c)
      PROVE  StandsStill \/ Kinds(c)
  <2>1. CASE UNCHANGED <<tableVars, outVars, flushed, idle>>
    BY <2>1 DEF tableVars, outVars, StandsStill
  <2> QED
    BY <1>6, <1>7, <2>1 DEF ReadReturns, WriteEvent
<1>8. ASSUME NEW c \in Conns, TickCloses(c)
      PROVE  StandsStill \/ Kinds(c)
  BY <1>1, <1>8 DEF TickCloses
<1>9. ASSUME NEW c \in Conns, HandlePacket(c)
      PROVE  StandsStill \/ Kinds(c)
  BY <1>9, HandlerKinds
<1> QED
  BY <1>2, <1>3, <1>4, <1>5, <1>7, <1>8, <1>9 DEF Next

-----------------------------------------------------------------------------
(* What each kind of step appends to an output, one message at a time.     *)

(* A message more at the end.                                              *)
LEMMA OneMore ==
    ASSUME NEW s \in Seq(Message), NEW m \in Message
    PROVE  /\ s \o <<m>> \in Seq(Message)
           /\ Len(s \o <<m>>) = Len(s) + 1 /\ Len(s) \in Nat
           /\ DOMAIN s = 1..Len(s) /\ DOMAIN (s \o <<m>>) = 1..(Len(s) + 1)
           /\ \A k \in 1..Len(s) : (s \o <<m>>)[k] = s[k]
           /\ (s \o <<m>>)[Len(s) + 1] = m
<1>1. <<m>> \in Seq(Message) /\ Len(<<m>>) = 1 /\ <<m>>[1] = m
  BY ShortSeqs
<1>2. Len(s) \in Nat /\ DOMAIN s = 1..Len(s)
  BY LenProperties
<1>3. /\ s \o <<m>> \in Seq(Message) /\ Len(s \o <<m>>) = Len(s) + 1
      /\ \A k \in 1..(Len(s) + 1) :
            (s \o <<m>>)[k] = IF k <= Len(s) THEN s[k] ELSE <<m>>[k - Len(s)]
  BY <1>1, ConcatProperties
<1>4. DOMAIN (s \o <<m>>) = 1..(Len(s) + 1)
  BY <1>3, LenProperties
<1>5. (s \o <<m>>)[Len(s) + 1] = m
  BY <1>1, <1>2, <1>3
<1> QED
  BY <1>2, <1>3, <1>4, <1>5

(* Two messages are appended one after the other.                          *)
LEMMA TwoMore ==
    ASSUME NEW s \in Seq(Message), NEW x \in Message, NEW m \in Message
    PROVE  s \o <<x, m>> = (s \o <<x>>) \o <<m>>
<1>1. <<x>> \in Seq(Message) /\ <<m>> \in Seq(Message) /\ <<x, m>> \in Seq(Message)
  BY ShortSeqs
<1>2. /\ <<x>> \o <<m>> \in Seq(Message) /\ Len(<<x>> \o <<m>>) = 2
      /\ (<<x>> \o <<m>>)[1] = x /\ (<<x>> \o <<m>>)[2] = m
  BY <1>1, ConcatProperties
<1>3. Len(<<x, m>>) = 2 /\ <<x, m>>[1] = x /\ <<x, m>>[2] = m
  OBVIOUS
<1>4. \A i \in 1..2 : (<<x>> \o <<m>>)[i] = <<x, m>>[i]
  BY <1>2, <1>3
<1>5. <<x>> \o <<m>> = <<x, m>>
  BY <1>1, <1>2, <1>3, <1>4, SeqEqual
<1>6. s \o (<<x>> \o <<m>>) = (s \o <<x>>) \o <<m>>
  BY <1>1, ConcatAssociative
<1> QED
  BY <1>5, <1>6

(* Appending twice or appending a concatenation is the same.               *)
LEMMA Regroup ==
    ASSUME NEW s \in Seq(Message), NEW t \in Seq(Message), NEW u \in Seq(Message)
    PROVE  s \o (t \o u) = (s \o t) \o u
BY ConcatAssociative

(* The output s, after the news.                                           *)
WithNews(s, name, online, us) ==
    (s \o <<System(name, online)>>) \o <<UserList(Online(us))>>

(* The news are two messages of the protocol, one after the other.         *)
LEMMA NewsAreTwo ==
    ASSUME NEW s \in Seq(Message), NEW n \in Names \cup {None},
           NEW b \in BOOLEAN, NEW us
    PROVE  /\ System(n, b) \in Message /\ UserList(Online(us)) \in Message
           /\ s \o News(n, b, us) = WithNews(s, n, b, us)
<1>1. System(n, b) \in Message
  BY DEF System, Message
<1>2. UserList(Online(us)) \in Message
  BY DEF UserList, Online, Message
<1> QED
  BY <1>1, <1>2, TwoMore DEF News, WithNews

(* A message posted to S.                                                  *)
LEMMA OnePosted ==
    ASSUME TypeOK, NEW S, NEW m \in Message, Posted(To(S, <<m>>)), NEW d \in Conns
    PROVE  stream'[d] = IF d \in S THEN stream[d] \o <<m>> ELSE stream[d]
<1>1. stream[d] \o <<>> = stream[d]
  BY ConcatEmptySeq DEF TypeOK
<1> QED
  BY <1>1 DEF Posted, To

(* A departure: the news to those who are still there.                     *)
LEMMA LeftOutputs ==
    ASSUME TypeOK, NEW c \in Conns, Left(c), NEW d \in Conns
    PROVE  stream'[d] = IF d \in Audience(users')
                        THEN WithNews(stream[d], username[c], FALSE, users')
                        ELSE stream[d]
<1>1. /\ stream[d] \in Seq(Message) /\ username[c] \in Names \cup {None}
      /\ stream[d] \o <<>> = stream[d]
  BY ConcatEmptySeq DEF TypeOK
<1>2. stream[d] \o News(username[c], FALSE, users')
          = WithNews(stream[d], username[c], FALSE, users')
  BY <1>1, NewsAreTwo
<1>3. stream'[d] = stream[d] \o To(Audience(users'), News(username[c], FALSE, users'))[d]
  BY DEF Left, Posted
<1> QED
  BY <1>1, <1>2, <1>3 DEF To

(* A login: the news to everyone, to the newcomer after its ack.           *)
LEMMA JoinedOutputs ==
    ASSUME TypeOK, NEW c \in Conns, NEW n \in Names, Joined(c, n), NEW d \in Conns
    PROVE  stream'[d] =
             IF d = c THEN WithNews(stream[d] \o <<Ack(TRUE)>>, n, TRUE, users')
             ELSE IF d \in Audience(users')
                  THEN WithNews(stream[d], n, TRUE, users')
                  ELSE stream[d]
<1> DEFINE ack  == <<Ack(TRUE)>>
           news == News(n, TRUE, users')
<1>1. /\ stream[d] \in Seq(Message) /\ Ack(TRUE) \in Message
      /\ stream[d] \o <<>> = stream[d]
  BY MessageTypes, ConcatEmptySeq DEF TypeOK
<1>2. ack \in Seq(Message) /\ stream[d] \o ack \in Seq(Message)
  BY <1>1, OneMore, ShortSeqs
<1>3. news \in Seq(Message) /\ ack \o news \in Seq(Message) /\ <<>> \o news = news
      /\ <<>> \o <<>> = <<>>
  <2>1. news \in Seq(Message)
    BY MessageTypes
  <2> HIDE DEF news, ack
  <2> QED
    BY <1>2, <2>1, ConcatProperties, ConcatEmptySeq
<1>4. stream'[d] = stream[d] \o (To({c}, ack)[d] \o To(Audience(users'), news)[d])
  BY DEF Joined, Posted, Both
<1>5. c \in Audience(users')
  BY DEF Joined, Audience, TypeOK
<1>6. CASE d = c
  <2>1. stream'[d] = stream[d] \o (ack \o news)
    BY <1>4, <1>5, <1>6 DEF To
  <2>2. stream[d] \o (ack \o news) = (stream[d] \o ack) \o news
    <3>1. stream[d] \in Seq(Message)
      BY <1>1
    <3> HIDE DEF news, ack
    <3> QED
      BY <1>2, <1>3, <3>1, Regroup
  <2>3. (stream[d] \o ack) \o news = WithNews(stream[d] \o ack, n, TRUE, users')
    <3> DEFINE s == stream[d] \o ack
    <3>1. s \in Seq(Message)
      BY <1>2
    <3> HIDE DEF s
    <3>2. s \o news = WithNews(s, n, TRUE, users')
      BY <3>1, NewsAreTwo
    <3> QED
      BY <3>2 DEF s
  <2> QED
    BY <1>6, <2>1, <2>2, <2>3
<1>7. CASE d # c /\ d \in Audience(users')
  <2>1. stream'[d] = stream[d] \o news
    <3>1. stream'[d] = stream[d] \o (<<>> \o news)
      BY <1>4, <1>7 DEF To
    <3> HIDE DEF news
    <3> QED
      BY <1>3, <3>1
  <2>2. stream[d] \o news = WithNews(stream[d], n, TRUE, users')
    BY <1>1, NewsAreTwo
  <2> QED
    BY <1>7, <2>1, <2>2
<1>8. CASE d # c /\ d \notin Audience(users')
  <2>1. stream'[d] = stream[d] \o (<<>> \o <<>>)
    BY <1>4, <1>8 DEF To
  <2> QED
    BY <1>1, <1>3, <1>8, <2>1
<1> QED
  BY <1>6, <1>7, <1>8

-----------------------------------------------------------------------------
(* The list each online client was sent last.                              *)

(* A message that is no list leaves the last list the last.                *)
LEMMA OtherMessageKeepsList ==
    ASSUME NEW s \in Seq(Message), NEW m \in Message, NEW names,
           LastListIs(s, names), m.type # "USER_LIST"
    PROVE  LastListIs(s \o <<m>>, names)
<1>1. PICK i \in DOMAIN s : IsLast(s, i, Len(s), IsUserList) /\ s[i].users = names
  BY DEF LastListIs
<1>2. /\ Len(s) \in Nat /\ DOMAIN s = 1..Len(s)
      /\ Len(s \o <<m>>) = Len(s) + 1 /\ DOMAIN (s \o <<m>>) = 1..(Len(s) + 1)
      /\ \A k \in 1..Len(s) : (s \o <<m>>)[k] = s[k]
      /\ (s \o <<m>>)[Len(s) + 1] = m
  BY OneMore
<1>3. i \in 1..Len(s) /\ s[i].type = "USER_LIST" /\ (s \o <<m>>)[i] = s[i]
  BY <1>1, <1>2 DEF IsLast, IsUserList
<1>4. ASSUME NEW j \in (i + 1)..(Len(s) + 1)
      PROVE  (s \o <<m>>)[j].type # "USER_LIST"
  <2>1. CASE j \in (i + 1)..Len(s)
    <3>1. (s \o <<m>>)[j] = s[j]
      BY <1>2, <1>3, <2>1
    <3> QED
      BY <1>1, <2>1, <3>1 DEF IsLast, IsUserList
  <2>2. CASE j = Len(s) + 1
    BY <1>2, <2>2
  <2> QED
    BY <1>2, <1>3, <2>1, <2>2
<1>5. IsLast(s \o <<m>>, i, Len(s \o <<m>>), IsUserList)
  BY <1>2, <1>3, <1>4 DEF IsLast, IsUserList
<1>6. i \in DOMAIN (s \o <<m>>)
  BY <1>2, <1>3
<1> QED
  BY <1>1, <1>3, <1>5, <1>6 DEF LastListIs

(* A list appended at the end is the last one.                             *)
LEMMA ListAtTheEnd ==
    ASSUME NEW s \in Seq(Message), NEW m \in Message, m.type = "USER_LIST"
    PROVE  LastListIs(s \o <<m>>, m.users)
<1>1. /\ Len(s) \in Nat /\ DOMAIN (s \o <<m>>) = 1..(Len(s) + 1)
      /\ Len(s \o <<m>>) = Len(s) + 1 /\ (s \o <<m>>)[Len(s) + 1] = m
  BY OneMore
<1>2. IsLast(s \o <<m>>, Len(s) + 1, Len(s \o <<m>>), IsUserList)
  BY <1>1 DEF IsLast, IsUserList
<1>3. Len(s) + 1 \in DOMAIN (s \o <<m>>)
  BY <1>1
<1> QED
  BY <1>1, <1>2, <1>3 DEF LastListIs

(* The news of a login or a departure end with the list it results in.     *)
LEMMA NewsEndWithList ==
    ASSUME NEW s \in Seq(Message), NEW n \in Names \cup {None}, NEW b \in BOOLEAN,
           NEW us
    PROVE  /\ WithNews(s, n, b, us) \in Seq(Message)
           /\ LastListIs(WithNews(s, n, b, us), Online(us))
<1> DEFINE t == s \o <<System(n, b)>>
           m == UserList(Online(us))
<1>1. System(n, b) \in Message /\ m \in Message
  BY NewsAreTwo
<1>2. t \in Seq(Message)
  BY <1>1, OneMore
<1>3. m.type = "USER_LIST" /\ m.users = Online(us)
  BY DEF UserList
<1> HIDE DEF t, m
<1>4. t \o <<m>> \in Seq(Message) /\ LastListIs(t \o <<m>>, m.users)
  BY <1>1, <1>2, <1>3, OneMore, ListAtTheEnd
<1> QED
  BY <1>3, <1>4 DEF WithNews, t, m

(* ListCurrent of the next state, from its table.                          *)
LEMMA ListCurrentNext ==
    ASSUME NEW us, users' = us,
           \A n \in Names : us[n] # None => LastListIs(stream'[us[n]], Online(us))
    PROVE  ListCurrent'
BY DEF ListCurrent, LastListIs, IsLast, IsUserList, Online

(* A message, to whomever, that is no list or the current one.             *)
LEMMA PostKeepsListCurrent ==
    ASSUME TypeOK, ListCurrent, NEW S, NEW m \in Message,
           m.type = "USER_LIST" => m.users = Online(users),
           Posted(To(S, <<m>>)), SameUsers
    PROVE  ListCurrent'
<1> SUFFICES ASSUME NEW n \in Names, users[n] # None
             PROVE  LastListIs(stream'[users[n]], Online(users))
  BY ListCurrentNext DEF SameUsers
<1> DEFINE d == users[n]
<1>1. d \in Conns /\ stream[d] \in Seq(Message) /\ LastListIs(stream[d], Online(users))
  BY DEF TypeOK, ListCurrent
<1>2. stream'[d] = IF d \in S THEN stream[d] \o <<m>> ELSE stream[d]
  BY <1>1, OnePosted
<1> HIDE DEF d
<1>3. LastListIs(stream'[d], Online(users))
  BY <1>1, <1>2, ListAtTheEnd, OtherMessageKeepsList
<1> QED
  BY <1>3 DEF d

(* Steps of every kind.  A login or a departure tells everyone who is then *)
(* in the table what the table then is.                                    *)
LEMMA KindsKeepListCurrent ==
    ASSUME Inv, ListCurrent, NEW c \in Conns, Kinds(c)
    PROVE  ListCurrent'
<1>0. TypeOK
  BY DEF Inv
<1>1. CASE Admitted(c)
  <2>1. \A n \in Names : users[n] # c
    BY <1>1 DEF Inv, UsersMatchConnections, Admitted
  <2>2. \A n \in Names : users[n] # None => stream'[users[n]] = stream[users[n]]
    BY <1>0, <1>1, <2>1 DEF Admitted, TypeOK
  <2> QED
    BY <1>1, <2>2, ListCurrentNext DEF Admitted, ListCurrent
<1>2. ASSUME NEW m \in Message, Answered(c, m)
      PROVE  ListCurrent'
  BY <1>0, <1>2, AnswerTypes, PostKeepsListCurrent DEF Answered
<1>3. CASE Said(c)
  <2>1. ChatBroad(c) \in Message /\ ChatBroad(c).type # "USER_LIST"
    BY <1>0, MessageTypes DEF ChatBroad
  <2> QED
    BY <1>0, <1>3, <2>1, PostKeepsListCurrent DEF Said
<1>4. ASSUME NEW n \in Names, Whispered(c, n)
      PROVE  ListCurrent'
  <2>1. Private(c, n) \in Message /\ Private(c, n).type # "USER_LIST"
    BY <1>0, MessageTypes DEF Private
  <2> QED
    BY <1>0, <1>4, <2>1, PostKeepsListCurrent DEF Whispered
<1>5. ASSUME NEW us \in [Names -> Conns \cup {None}], users' = us,
             NEW n \in Names \cup {None}, NEW b \in BOOLEAN,
             \A d \in Audience(us) : \E s \in Seq(Message) :
                 stream'[d] = WithNews(s, n, b, us)
      PROVE  ListCurrent'
  <2> SUFFICES ASSUME NEW k \in Names, us[k] # None
               PROVE  LastListIs(stream'[us[k]], Online(us))
    BY <1>5, ListCurrentNext
  <2>1. us[k] \in Audience(us)
    BY DEF Audience
  <2>2. PICK s \in Seq(Message) : stream'[us[k]] = WithNews(s, n, b, us)
    BY <1>5, <2>1
  <2> QED
    BY <2>2, NewsEndWithList
<1>6. ASSUME NEW n \in Names, Joined(c, n)
      PROVE  ListCurrent'
  <2> DEFINE us == users'
  <2>1. us \in [Names -> Conns \cup {None}]
    BY <1>0, <1>6 DEF Joined, TypeOK
  <2>2. ASSUME NEW d \in Audience(us)
        PROVE  \E s \in Seq(Message) : stream'[d] = WithNews(s, n, TRUE, us)
    <3>1. d \in Conns /\ stream[d] \in Seq(Message)
      BY <1>0 DEF Audience, TypeOK
    <3>2. stream[d] \o <<Ack(TRUE)>> \in Seq(Message)
      <4>1. Ack(TRUE) \in Message
        BY <1>0, MessageTypes
      <4> QED
        BY <3>1, <4>1, OneMore
    <3>3. stream'[d] = IF d = c THEN WithNews(stream[d] \o <<Ack(TRUE)>>, n, TRUE, us)
                       ELSE WithNews(stream[d], n, TRUE, us)
      BY <1>0, <1>6, <2>2, <3>1, JoinedOutputs
    <3> QED
      BY <3>1, <3>2, <3>3
  <2> QED
    BY <1>5, <2>1, <2>2
<1>7. CASE Left(c)
  <2> DEFINE us == users'
  <2>1. us \in [Names -> Conns \cup {None}] /\ username[c] \in Names \cup {None}
    BY <1>0, <1>7, WithoutProperties DEF Left, TypeOK
  <2>2. ASSUME NEW d \in Audience(us)
        PROVE  \E s \in Seq(Message) : stream'[d] = WithNews(s, username[c], FALSE, us)
    <3>1. d \in Conns /\ stream[d] \in Seq(Message)
      BY <1>0 DEF Audience, TypeOK
    <3> QED
      BY <1>0, <1>7, <2>2, <3>1, LeftOutputs
  <2> QED
    BY <1>5, <2>1, <2>2
<1> QED
  BY <1>1, <1>2, <1>3, <1>4, <1>6, <1>7 DEF Kinds

(* Every step of the server and its clients.                               *)
LEMMA NextKeepsListCurrent ==
    Inv /\ ListCurrent /\ [Next]_vars => ListCurrent'
<1> SUFFICES ASSUME Inv, ListCurrent, [Next]_vars PROVE ListCurrent'
  OBVIOUS
<1>1. CASE StandsStill
  BY <1>1, ListCurrentNext DEF StandsStill, ListCurrent
<1> QED
  BY <1>1, StepKinds, KindsKeepListCurrent

(* After every login, logout, disconnection, write failure and reaping,    *)
(* the last user list in each online client's output is the set of users   *)
(* online now, whatever the clients send and however events interleave.    *)
THEOREM ListsAlwaysCurrent == Spec => []ListCurrent
<1>1. Init => ListCurrent
  BY DEF Init, ListCurrent
<1> QED
  BY <1>1, InvHolds, NextKeepsListCurrent, PTL DEF Spec

-----------------------------------------------------------------------------
(* Nobody talks before being announced, or after being announced gone.     *)

(* Who is logged in has a name.                                            *)
Named == \A c \in Conns : LoggedIn(c) => username[c] \in Names

Speech == {"CHAT_BROAD", "PRIVATE"}

(* The last list before a chat or private message of s has its sender.     *)
SendersListed(s) ==
    \A k \in DOMAIN s : s[k].type \in Speech =>
        \E i \in 1..k : IsLast(s, i, k, IsUserList) /\ s[k].from \in s[i].users

(* SenderListed, output by output.                                         *)
LEMMA SenderListedParts ==
    /\ SenderListed <=> \A c \in Conns : SendersListed(stream[c])
    /\ SenderListed' <=> \A c \in Conns : SendersListed(stream'[c])
BY DEF SenderListed, SendersListed, Speech, IsLast, IsUserList

(* A message more, of somebody in the last list if it is a chat.           *)
LEMMA OneMoreKeepsSenders ==
    ASSUME NEW s \in Seq(Message), NEW m \in Message, SendersListed(s),
           NEW names, m.type \in Speech => LastListIs(s, names) /\ m.from \in names
    PROVE  SendersListed(s \o <<m>>)
<1> DEFINE t == s \o <<m>>
<1>1. /\ Len(s) \in Nat /\ DOMAIN s = 1..Len(s) /\ DOMAIN t = 1..(Len(s) + 1)
      /\ \A k \in 1..Len(s) : t[k] = s[k]
      /\ t[Len(s) + 1] = m
  BY OneMore
<1> HIDE DEF t
<1> SUFFICES ASSUME NEW k \in 1..(Len(s) + 1), t[k].type \in Speech
             PROVE  \E i \in 1..k : IsLast(t, i, k, IsUserList) /\ t[k].from \in t[i].users
  BY <1>1 DEF SendersListed, t
<1>2. CASE k \in 1..Len(s)
  <2>1. PICK i \in 1..k : IsLast(s, i, k, IsUserList) /\ s[k].from \in s[i].users
    BY <1>1, <1>2 DEF SendersListed
  <2>2. \A j \in 1..k : t[j] = s[j]
    BY <1>1, <1>2
  <2>3. IsLast(t, i, k, IsUserList)
    BY <1>2, <2>1, <2>2 DEF IsLast, IsUserList
  <2> QED
    BY <1>2, <2>1, <2>2, <2>3
<1>3. CASE k = Len(s) + 1
  <2>1. LastListIs(s, names) /\ m.from \in names /\ m.type \in Speech
    BY <1>1, <1>3
  <2>2. PICK i \in 1..Len(s) : IsLast(s, i, Len(s), IsUserList) /\ s[i].users = names
    BY <1>1, <2>1 DEF LastListIs
  <2>3. t[i] = s[i] /\ i \in 1..k
    BY <1>1, <1>3
  <2>4. ASSUME NEW j \in (i + 1)..k
        PROVE  t[j].type # "USER_LIST"
    <3>1. CASE j = k
      BY <1>1, <1>3, <2>1, <3>1 DEF Speech
    <3>2. CASE j # k
      <4>1. j \in (i + 1)..Len(s) /\ j \in 1..Len(s)
        BY <1>1, <1>3, <3>2
      <4>2. t[j] = s[j] /\ ~IsUserList(s[j])
        BY <1>1, <2>2, <4>1 DEF IsLast
      <4> QED
        BY <4>2 DEF IsUserList
    <3> QED
      BY <3>1, <3>2
  <2>5. IsLast(t, i, k, IsUserList)
    BY <2>2, <2>3, <2>4 DEF IsLast, IsUserList
  <2> QED
    BY <1>1, <1>3, <2>1, <2>2, <2>3, <2>5
<1> QED
  BY <1>1, <1>2, <1>3

(* No message of the server itself is a chat.                              *)
LEMMA NewsKeepSenders ==
    ASSUME NEW s \in Seq(Message), SendersListed(s), NEW n \in Names \cup {None},
           NEW b \in BOOLEAN, NEW us
    PROVE  SendersListed(WithNews(s, n, b, us))
<1> DEFINE t == s \o <<System(n, b)>>
           m == UserList(Online(us))
<1>1. System(n, b) \in Message /\ m \in Message
  BY NewsAreTwo
<1>2. System(n, b).type \notin Speech /\ m.type \notin Speech
  BY DEF System, UserList, Speech
<1>3. t \in Seq(Message)
  BY <1>1, OneMore
<1>4. SendersListed(t)
  BY <1>1, <1>2, OneMoreKeepsSenders
<1> HIDE DEF t, m
<1>5. SendersListed(t \o <<m>>)
  BY <1>1, <1>2, <1>3, <1>4, OneMoreKeepsSenders
<1> QED
  BY <1>5 DEF WithNews, t, m

(* A login names the connection, accept and no other step takes it away.   *)
LEMMA NextKeepsNamed ==
    Inv /\ Named /\ [Next]_vars => Named'
<1> SUFFICES ASSUME Inv, Named, [Next]_vars, NEW d \in Conns, LoggedIn(d)'
             PROVE  username'[d] \in Names
  BY DEF Named
<1>0. TypeOK
  BY DEF Inv
<1>1. CASE StandsStill
  BY <1>1 DEF StandsStill, Named, LoggedIn
<1>2. ASSUME NEW c \in Conns, Kinds(c)
      PROVE  username'[d] \in Names
  <2>1. CASE Admitted(c)
    BY <1>0, <2>1 DEF Admitted, Named, LoggedIn, TypeOK
  <2>2. CASE \E n \in Names : Joined(c, n)
    BY <1>0, <2>2 DEF Joined, Named, LoggedIn, TypeOK
  <2>3. CASE Left(c)
    BY <1>0, <2>3 DEF Left, Named, LoggedIn, TypeOK
  <2>4. CASE SameUsers
    BY <2>4 DEF SameUsers, Named, LoggedIn
  <2> QED
    BY <1>2, <2>1, <2>2, <2>3, <2>4 DEF Kinds, Answered, Said, Whispered
<1> QED
  BY <1>1, <1>2, StepKinds

(* A chat message from c, posted to users online: the last list of each of *)
(* them has everyone online, hence c.                                      *)
LEMMA SpeechKeepsSenders ==
    ASSUME Inv, Named, ListCurrent, SenderListed, NEW c \in Conns, LoggedIn(c),
           NEW S \in SUBSET Audience(users), NEW m \in Message,
           m.type \in Speech, m.from = username[c],
           Posted(To(S, <<m>>))
    PROVE  SenderListed'
<1> SUFFICES ASSUME NEW d \in Conns PROVE SendersListed(stream'[d])
  BY SenderListedParts
<1>0. TypeOK
  BY DEF Inv
<1>1. stream[d] \in Seq(Message) /\ SendersListed(stream[d])
  BY <1>0, SenderListedParts DEF TypeOK
<1>2. stream'[d] = IF d \in S THEN stream[d] \o <<m>> ELSE stream[d]
  BY <1>0, OnePosted
<1>3. CASE d \notin S
  BY <1>1, <1>2, <1>3
<1>4. CASE d \in S
  <2>1. LastListIs(stream[d], Online(users))
    <3>1. PICK n \in Names : users[n] = d
      BY <1>4 DEF Audience
    <3>2. users[n] # None
      BY <3>1, ConnsAssumption
    <3> QED
      BY <3>1, <3>2 DEF ListCurrent
  <2>2. m.from \in Online(users)
    <3>1. username[c] \in Names /\ users[username[c]] = c
      BY DEF Inv, UsersMatchConnections, Named, LoggedIn
    <3>2. users[username[c]] # None
      BY <3>1, ConnsAssumption
    <3> QED
      BY <3>1, <3>2 DEF Online
  <2>3. SendersListed(stream[d] \o <<m>>)
    BY <1>1, <2>1, <2>2, OneMoreKeepsSenders
  <2> QED
    BY <1>2, <1>4, <2>3
<1> QED
  BY <1>3, <1>4

(* Steps of every kind.                                                    *)
LEMMA KindsKeepSenderListed ==
    ASSUME Inv, Named, ListCurrent, SenderListed, NEW c \in Conns, Kinds(c)
    PROVE  SenderListed'
<1>0. TypeOK /\ \A d \in Conns : stream[d] \in Seq(Message) /\ SendersListed(stream[d])
  BY SenderListedParts DEF Inv, TypeOK
<1>1. CASE Admitted(c)
  <2>1. \A d \in Conns : stream'[d] = IF d = c THEN <<>> ELSE stream[d]
    BY <1>0, <1>1 DEF Admitted, TypeOK
  <2>2. SendersListed(<<>>)
    BY DEF SendersListed
  <2>3. \A d \in Conns : SendersListed(stream'[d])
    BY <1>0, <2>1, <2>2
  <2> QED
    BY <2>3, SenderListedParts
<1>2. ASSUME NEW m \in Message, Answered(c, m)
      PROVE  SenderListed'
  <2>1. m.type \notin Speech
    BY <1>2, AnswerTypes DEF Speech
  <2>2. ASSUME NEW d \in Conns
        PROVE  SendersListed(stream'[d])
    <3>1. stream'[d] = IF d \in {c} THEN stream[d] \o <<m>> ELSE stream[d]
      BY <1>0, <1>2, OnePosted DEF Answered
    <3>2. SendersListed(stream[d] \o <<m>>)
      BY <1>0, <2>1, OneMoreKeepsSenders
    <3> QED
      BY <1>0, <3>1, <3>2
  <2> QED
    BY <2>2, SenderListedParts
<1>3. CASE Said(c)
  <2>1. /\ ChatBroad(c) \in Message /\ ChatBroad(c).type \in Speech
        /\ ChatBroad(c).from = username[c]
    BY <1>0, MessageTypes DEF ChatBroad, Speech
  <2>2. Audience(users) \ {c} \in SUBSET Audience(users)
    OBVIOUS
  <2> QED
    BY <1>3, <2>1, <2>2, SpeechKeepsSenders DEF Said
<1>4. ASSUME NEW n \in Names, Whispered(c, n)
      PROVE  SenderListed'
  <2>1. /\ Private(c, n) \in Message /\ Private(c, n).type \in Speech
        /\ Private(c, n).from = username[c]
    BY <1>0, MessageTypes DEF Private, Speech
  <2>2. {users[n]} \in SUBSET Audience(users)
    BY <1>0, <1>4 DEF Whispered, Audience, TypeOK
  <2> QED
    BY <1>4, <2>1, <2>2, SpeechKeepsSenders DEF Whispered
<1>5. ASSUME NEW n \in Names, Joined(c, n)
      PROVE  SenderListed'
  <2>1. ASSUME NEW d \in Conns
        PROVE  SendersListed(stream'[d])
    <3>1. Ack(TRUE) \in Message /\ Ack(TRUE).type \notin Speech
      BY <1>0, MessageTypes DEF Ack, Speech
    <3>2. /\ stream[d] \o <<Ack(TRUE)>> \in Seq(Message)
          /\ SendersListed(stream[d] \o <<Ack(TRUE)>>)
      BY <1>0, <3>1, OneMore, OneMoreKeepsSenders
    <3>3. /\ SendersListed(WithNews(stream[d] \o <<Ack(TRUE)>>, n, TRUE, users'))
          /\ SendersListed(WithNews(stream[d], n, TRUE, users'))
      BY <1>0, <3>2, NewsKeepSenders
    <3> QED
      BY <1>0, <1>5, <3>3, JoinedOutputs
  <2> QED
    BY <2>1, SenderListedParts
<1>6. CASE Left(c)
  <2>1. ASSUME NEW d \in Conns
        PROVE  SendersListed(stream'[d])
    <3>1. username[c] \in Names \cup {None}
      BY <1>0 DEF TypeOK
    <3>2. SendersListed(WithNews(stream[d], username[c], FALSE, users'))
      BY <1>0, <3>1, NewsKeepSenders
    <3> QED
      BY <1>0, <1>6, <3>2, LeftOutputs
  <2> QED
    BY <2>1, SenderListedParts
<1> QED
  BY <1>1, <1>2, <1>3, <1>4, <1>5, <1>6 DEF Kinds

(* In the order in which a client receives its messages, the last list     *)
(* before a chat or private message names its sender: for every client,    *)
(* also one that goes on sending after its LOGOUT.                         *)
THEOREM SendersAlwaysListed == Spec => []SenderListed
<1>1. Init => Named /\ SenderListed
  BY DEF Init, Named, LoggedIn, SenderListed
<1>2. Inv /\ ListCurrent /\ Named /\ SenderListed /\ [Next]_vars => SenderListed'
  <2> SUFFICES ASSUME Inv, ListCurrent, Named, SenderListed, [Next]_vars
               PROVE  SenderListed'
    OBVIOUS
  <2>1. CASE StandsStill
    BY <2>1, SenderListedParts DEF StandsStill
  <2> QED
    BY <2>1, StepKinds, KindsKeepSenderListed
<1> QED
  BY <1>1, <1>2, InvHolds, ListsAlwaysCurrent, NextKeepsNamed, PTL DEF Spec

-----------------------------------------------------------------------------
(* Clients that send nothing after their LOGOUT.                           *)

NoLogout(s) == \A i \in DOMAIN s : s[i].type # "LOGOUT"

LogoutEnds(s) == \A i \in DOMAIN s : s[i].type = "LOGOUT" => i = Len(s)

(* Packets are decoded on open connections only, and a LOGOUT is the last  *)
(* of them.                                                                *)
OrderlyAt(c) ==
    /\ cur # c => readBuf[c] = <<>>
    /\ readBuf[c] # <<>> => c \in reg
    /\ state[c] \in {"CONNECTING", "AUTHENTICATED"} => c \in reg
    /\ LogoutEnds(readBuf[c]) /\ LogoutEnds(inbox[c])
    /\ budget[c] > 0 => NoLogout(inbox[c])

Orderly == \A c \in Conns : OrderlyAt(c)

(* A packet taken from the front leaves a LOGOUT at the end, and is the    *)
(* only one left if it is the LOGOUT.                                      *)
LEMMA TailLogoutEnds ==
    ASSUME NEW s \in Seq(Packet), s # <<>>, LogoutEnds(s)
    PROVE  /\ LogoutEnds(Tail(s)) /\ Tail(s) \in Seq(Packet)
           /\ Head(s).type = "LOGOUT" => Tail(s) = <<>>
<1>1. /\ Tail(s) \in Seq(Packet) /\ Len(Tail(s)) = Len(s) - 1 /\ Head(s) = s[1]
      /\ \A i \in 1..Len(Tail(s)) : Tail(s)[i] = s[i + 1]
      /\ Len(s) \in Nat /\ Len(s) > 0 /\ DOMAIN s = 1..Len(s)
      /\ DOMAIN Tail(s) = 1..Len(Tail(s))
  <2>1. /\ Tail(s) \in Seq(Packet) /\ Len(Tail(s)) = Len(s) - 1 /\ Head(s) = s[1]
        /\ \A i \in 1..Len(Tail(s)) : Tail(s)[i] = s[i + 1]
    BY HeadTailProperties
  <2>2. Len(s) \in Nat /\ Len(s) > 0 /\ DOMAIN s = 1..Len(s)
    BY LenProperties, EmptySeq
  <2>3. DOMAIN Tail(s) = 1..Len(Tail(s))
    BY <2>1, LenProperties
  <2> QED
    BY <2>1, <2>2, <2>3
<1>2. LogoutEnds(Tail(s))
  BY <1>1 DEF LogoutEnds
<1>3. ASSUME Head(s).type = "LOGOUT" PROVE Tail(s) = <<>>
  <2>1. Len(s) = 1
    BY <1>1, <1>3 DEF LogoutEnds
  <2>2. Len(Tail(s)) = 0 /\ Tail(s) \in Seq(Packet)
    BY <1>1, <2>1
  <2> HIDE <1>1
  <2> QED
    BY <2>2, EmptySeq
<1> QED
  BY <1>1, <1>2, <1>3

(* A packet more behind others that are no LOGOUT.                         *)
LEMMA AppendLogoutEnds ==
    ASSUME NEW s \in Seq(Packet), NEW p \in Packet, NoLogout(s)
    PROVE  /\ LogoutEnds(Append(s, p))
           /\ p.type # "LOGOUT" => NoLogout(Append(s, p))
<1>1. /\ Len(s) \in Nat /\ DOMAIN s = 1..Len(s)
      /\ DOMAIN Append(s, p) = 1..(Len(s) + 1) /\ Len(Append(s, p)) = Len(s) + 1
      /\ \A i \in 1..Len(s) : Append(s, p)[i] = s[i]
      /\ Append(s, p)[Len(s) + 1] = p
  BY LenProperties, AppendProperties
<1> QED
  BY <1>1 DEF LogoutEnds, NoLogout

(* Connection::close leaves the connection closed and out of epoll.        *)
LEMMA CloseEnds ==
    ASSUME Inv, NEW c \in Conns, NEW us, Close(c, us)
    PROVE  reg' = reg \ {c} /\ state' = [state EXCEPT ![c] = "CLOSED"]
<1>1. CASE state[c] = "CLOSED"
  <2>1. c \notin reg
    BY <1>1 DEF Inv, TablesAgree
  <2> QED
    BY <1>1, <2>1 DEF Close, tableVars, Inv, TypeOK
<1>2. CASE state[c] # "CLOSED"
  BY <1>2 DEF Close
<1> QED
  BY <1>1, <1>2

(* A close once nothing is left to decode.                                 *)
LEMMA CloseKeepsOrderly ==
    ASSUME Inv, Orderly, NEW c \in Conns, NEW us, Close(c, us),
           readBuf' = [readBuf EXCEPT ![c] = <<>>],
           \A d \in Conns : cur' # d => readBuf'[d] = <<>>,
           UNCHANGED <<inbox, budget>>
    PROVE  Orderly'
<1> SUFFICES ASSUME NEW d \in Conns PROVE OrderlyAt(d)'
  BY DEF Orderly
<1>1. reg' = reg \ {c} /\ state' = [state EXCEPT ![c] = "CLOSED"]
  BY CloseEnds
<1>2. OrderlyAt(d) /\ LogoutEnds(<<>>)
  BY DEF Orderly, LogoutEnds
<1>3. readBuf \in [Conns -> Seq(Packet)] /\ DOMAIN state = Conns
  BY DEF Inv, TypeOK
<1>4. CASE d = c
  BY <1>1, <1>2, <1>3, <1>4 DEF OrderlyAt, LogoutEnds, NoLogout
<1>5. CASE d # c
  BY <1>1, <1>2, <1>3, <1>5 DEF OrderlyAt, LogoutEnds, NoLogout
<1> QED
  BY <1>4, <1>5

(* A packet decoded, on a connection that stays open.                      *)
LEMMA DecodeKeepsOrderly ==
    ASSUME Inv, Orderly, NEW c \in Conns, Decoding(c), Consume(c),
           UNCHANGED <<reg, cur, inbox, budget>>,
           \A d \in Conns : state'[d] # state[d] => d = c
    PROVE  Orderly'
<1> SUFFICES ASSUME NEW d \in Conns PROVE OrderlyAt(d)'
  BY DEF Orderly
<1>1. OrderlyAt(d) /\ OrderlyAt(c)
  BY DEF Orderly
<1>2. readBuf \in [Conns -> Seq(Packet)] /\ readBuf[c] # <<>> /\ cur = c
  BY DEF Inv, TypeOK, Decoding
<1>3. LogoutEnds(Tail(readBuf[c]))
  BY <1>1, <1>2, TailLogoutEnds DEF OrderlyAt
<1>4. CASE d = c
  <2>1. readBuf'[c] = Tail(readBuf[c]) /\ c \in reg
    BY <1>1, <1>2 DEF Consume, OrderlyAt
  <2> QED
    BY <1>1, <1>2, <1>3, <1>4, <2>1 DEF OrderlyAt, LogoutEnds, NoLogout
<1>5. CASE d # c
  <2>1. readBuf'[d] = readBuf[d] /\ state'[d] = state[d]
    BY <1>2, <1>5 DEF Consume
  <2> QED
    BY <1>1, <1>2, <1>5, <2>1 DEF OrderlyAt, LogoutEnds, NoLogout
<1> QED
  BY <1>4, <1>5

(* Every packet handler.                                                   *)
LEMMA HandlersKeepOrderly ==
    ASSUME Inv, Orderly, NEW c \in Conns, HandlePacket(c)
    PROVE  Orderly'
<1>1. CASE UncaughtThrow(c)
  BY <1>1 DEF UncaughtThrow, clientVars, tableVars, loopVars, Orderly, OrderlyAt,
     LogoutEnds, NoLogout
<1>2. CASE HandleLogin(c)
  <2>1. Decoding(c) /\ Consume(c) /\ UNCHANGED <<reg, cur, inbox, budget>>
    BY <1>2 DEF HandleLogin, Reply, tableVars, handlerVars, clientVars, loopVars
  <2>2. \A d \in Conns : state'[d] # state[d] => d = c
    BY <1>2 DEF HandleLogin, Reply, tableVars, Inv, TypeOK
  <2> QED
    BY <2>1, <2>2, DecodeKeepsOrderly
<1>3. ASSUME Decoding(c), Consume(c), NEW post, Reply(c, post)
      PROVE  Orderly'
  <2>1. UNCHANGED <<reg, cur, inbox, budget>> /\ state' = state
    BY <1>3 DEF Reply, tableVars, handlerVars, clientVars, loopVars
  <2> QED
    BY <1>3, <2>1, DecodeKeepsOrderly
<1>4. CASE HandleChat(c) \/ HandlePrivate(c) \/ HandleUserList(c) \/ HandlePing(c)
           \/ HandleOther(c)
  BY <1>3, <1>4 DEF HandleChat, HandlePrivate, HandleUserList, HandlePing, HandleOther
<1>5. ASSUME NEW us, Close(c, us), UNCHANGED handlerVars, Decoding(c),
             readBuf' = [readBuf EXCEPT ![c] = <<>>]
      PROVE  Orderly'
  <2>1. UNCHANGED <<cur, inbox, budget>> /\ cur = c
    BY <1>5 DEF handlerVars, clientVars, loopVars, Decoding
  <2>2. \A d \in Conns : cur' # d => readBuf'[d] = <<>>
    BY <1>5, <2>1 DEF Orderly, OrderlyAt, Inv, TypeOK
  <2> QED
    BY <1>5, <2>1, <2>2, CloseKeepsOrderly
<1>6. CASE HandleLogOut(c)
  <2>1. /\ readBuf[c] \in Seq(Packet) /\ readBuf[c] # <<>> /\ LogoutEnds(readBuf[c])
        /\ Head(readBuf[c]).type = "LOGOUT"
    BY <1>6 DEF HandleLogOut, Decoding, Type, Orderly, OrderlyAt, Inv, TypeOK
  <2>2. Tail(readBuf[c]) = <<>>
    BY <2>1, TailLogoutEnds
  <2>3. readBuf' = [readBuf EXCEPT ![c] = <<>>]
    BY <1>6, <2>2 DEF HandleLogOut, Consume
  <2> QED
    BY <1>5, <1>6, <2>3 DEF HandleLogOut
<1>7. CASE BadFrame(c)
  BY <1>5, <1>7 DEF BadFrame
<1> QED
  BY <1>1, <1>2, <1>4, <1>6, <1>7 DEF HandlePacket

(* Every step of the server and of its clients.                            *)
LEMMA NextKeepsOrderly ==
    ASSUME QuietAfterLogout
    PROVE  Inv /\ Orderly /\ [Next]_vars => Orderly'
<1> SUFFICES ASSUME Inv, Orderly, [Next]_vars PROVE Orderly'
  OBVIOUS
<1> USE DEF LogoutEnds, NoLogout
<1>0. /\ TypeOK
      /\ readBuf \in [Conns -> Seq(Packet)] /\ inbox \in [Conns -> Seq(Packet)]
      /\ budget \in [Conns -> 0..Budget]
  BY DEF Inv, TypeOK
<1>1. ASSUME UNCHANGED <<cur, readBuf, reg, inbox, budget>>,
             \A d \in Conns : \/ state'[d] = state[d]
                              \/ state'[d] \notin {"CONNECTING", "AUTHENTICATED"}
      PROVE  Orderly'
  BY <1>1 DEF Orderly, OrderlyAt
<1>2. CASE UNCHANGED vars \/ Second \/ Tick \/ Stop
  <2>1. UNCHANGED <<cur, readBuf, reg, inbox, budget, state>>
    BY <1>2 DEF vars, Second, Tick, Stop, serverVars, clientVars, tableVars, loopVars
  <2> QED
    BY <1>1, <2>1
<1>3. ASSUME NEW c \in Conns, Environment(c)
      PROVE  Orderly'
  <2>1. CASE Dial(c) \/ ClientLeave(c) \/ ClientStall(c)
    <3>1. UNCHANGED <<cur, readBuf, reg, inbox, budget>>
      BY <2>1 DEF Dial, ClientLeave, ClientStall, serverVars, tableVars, loopVars
    <3>2. \A d \in Conns : \/ state'[d] = state[d]
                           \/ state'[d] \notin {"CONNECTING", "AUTHENTICATED"}
      BY <1>0, <2>1 DEF Dial, ClientLeave, ClientStall, serverVars, tableVars, TypeOK
    <3> QED
      BY <1>1, <3>1, <3>2
  <2>2. ASSUME NEW p \in Alphabet, ClientSend(c, p)
        PROVE  Orderly'
    <3>1. /\ p \in Packet /\ budget[c] > 0
          /\ inbox' = [inbox EXCEPT ![c] = Append(@, p)]
          /\ budget' = [budget EXCEPT ![c] = IF p.type = "LOGOUT" THEN 0 ELSE @ - 1]
          /\ UNCHANGED <<cur, readBuf, reg, state>>
      BY <2>2, PacketsAssumption DEF ClientSend, serverVars, tableVars, loopVars
    <3>2. NoLogout(inbox[c]) /\ inbox[c] \in Seq(Packet)
      BY <1>0, <3>1 DEF Orderly, OrderlyAt
    <3>3. /\ LogoutEnds(Append(inbox[c], p))
          /\ p.type # "LOGOUT" => NoLogout(Append(inbox[c], p))
      BY <3>1, <3>2, AppendLogoutEnds
    <3> SUFFICES ASSUME NEW d \in Conns PROVE OrderlyAt(d)'
      BY DEF Orderly
    <3>4. CASE d = c
      <4>1. /\ inbox'[c] = Append(inbox[c], p)
            /\ p.type = "LOGOUT" => budget'[c] = 0
        BY <1>0, <3>1
      <4> QED
        BY <3>1, <3>3, <3>4, <4>1 DEF Orderly, OrderlyAt
    <3>5. CASE d # c
      <4>1. inbox'[d] = inbox[d] /\ budget'[d] = budget[d]
        BY <1>0, <3>1, <3>5
      <4> QED
        BY <3>1, <4>1 DEF Orderly, OrderlyAt
    <3> QED
      BY <3>4, <3>5
  <2> QED
    BY <1>3, <2>1, <2>2 DEF Environment
<1>4. ASSUME NEW c \in Conns, Accept(c)
      PROVE  Orderly'
  <2>1. /\ reg' = reg \cup {c} /\ state' = [state EXCEPT ![c] = "CONNECTING"]
        /\ UNCHANGED <<cur, readBuf, inbox, budget>>
    BY <1>4 DEF Accept, clientVars, loopVars
  <2> QED
    BY <1>0, <2>1 DEF Orderly, OrderlyAt, TypeOK
<1>5. ASSUME NEW c \in Conns, Close(c, users), readBuf[c] = <<>>,
             UNCHANGED <<readBuf, inbox, budget>>,
             \A d \in Conns : cur' # d => readBuf[d] = <<>>
      PROVE  Orderly'
  <2>1. readBuf' = [readBuf EXCEPT ![c] = <<>>]
    BY <1>0, <1>5
  <2> QED
    BY <1>5, <2>1, CloseKeepsOrderly
<1>6. ASSUME NEW c \in Conns, ReadCloses(c) \/ TickCloses(c)
      PROVE  Orderly'
  <2>1. /\ cur = None /\ cur' = cur /\ UNCHANGED <<readBuf, inbox, budget>>
        /\ Close(c, users)
    BY <1>6 DEF ReadCloses, TickCloses, Dispatching, Inv, OneCallback, clientVars, loopVars
  <2>2. \A d \in Conns : readBuf[d] = <<>>
    BY <2>1, ConnsAssumption DEF Orderly, OrderlyAt
  <2> QED
    BY <1>5, <2>1, <2>2
<1>7. ASSUME NEW c \in Conns, NEW w \in BOOLEAN, ReadStarts(c, w)
      PROVE  Orderly'
  <2>1. /\ cur = None /\ c \in reg /\ cur' = c
        /\ readBuf' = [readBuf EXCEPT ![c] = @ \o inbox[c]]
        /\ inbox' = [inbox EXCEPT ![c] = <<>>]
        /\ UNCHANGED <<reg, state, budget>>
    BY <1>7 DEF ReadStarts, Dispatching, Readable, tableVars
  <2>2. \A d \in Conns : readBuf[d] = <<>>
    BY <2>1, ConnsAssumption DEF Orderly, OrderlyAt
  <2>3. readBuf[c] \o inbox[c] = inbox[c]
    BY <1>0, <2>2, ConcatEmptySeq
  <2>4. \A d \in Conns : readBuf'[d] = IF d = c THEN inbox[c] ELSE <<>>
    BY <1>0, <2>1, <2>2, <2>3
  <2>5. \A d \in Conns : inbox'[d] = IF d = c THEN <<>> ELSE inbox[d]
    BY <1>0, <2>1
  <2> SUFFICES ASSUME NEW d \in Conns PROVE OrderlyAt(d)'
    BY DEF Orderly
  <2>6. OrderlyAt(d)
    BY DEF Orderly
  <2>7. CASE d = c
    <3>1. readBuf'[d] = inbox[d] /\ inbox'[d] = <<>> /\ d \in reg' /\ cur' = d
      BY <2>1, <2>4, <2>5, <2>7
    <3>2. LogoutEnds(readBuf'[d]) /\ LogoutEnds(inbox'[d]) /\ NoLogout(inbox'[d])
      BY <2>6, <3>1 DEF OrderlyAt
    <3> HIDE DEF LogoutEnds, NoLogout
    <3> QED
      BY <3>1, <3>2 DEF OrderlyAt, LogoutEnds, NoLogout
  <2>8. CASE d # c
    BY <2>1, <2>4, <2>5, <2>6, <2>8 DEF OrderlyAt
  <2> QED
    BY <2>7, <2>8
<1>8. ASSUME NEW c \in Conns, OnWrite(c), readBuf[c] = <<>>,
             UNCHANGED <<readBuf, inbox, budget>>, cur' = None,
             \A d \in Conns : readBuf[d] = <<>>
      PROVE  Orderly'
  <2>1. CASE WriteAll(c) \/ WriteSome(c)
    <3>1. UNCHANGED <<reg, state>>
      BY <2>1 DEF WriteAll, WriteSome, tableVars
    <3> QED
      BY <1>8, <3>1 DEF Orderly, OrderlyAt
  <2>2. CASE WriteFails(c)
    BY <1>5, <1>8, <2>2 DEF WriteFails
  <2> QED
    BY <1>8, <2>1, <2>2 DEF OnWrite
<1>9. ASSUME NEW c \in Conns, ReadReturns(c) \/ WriteEvent(c)
      PROVE  Orderly'
  <2>1. /\ cur' = None /\ UNCHANGED <<readBuf, inbox, budget>>
        /\ OnWrite(c) \/ UNCHANGED <<reg, state>>
    BY <1>9 DEF ReadReturns, WriteEvent, Dispatching, clientVars, loopVars, tableVars
  <2>2. \A d \in Conns : readBuf[d] = <<>>
    BY <1>9, ConnsAssumption DEF ReadReturns, WriteEvent, Dispatching, Orderly, OrderlyAt
  <2>3. CASE OnWrite(c)
    BY <1>8, <2>1, <2>2, <2>3
  <2>4. CASE UNCHANGED <<reg, state>>
    BY <2>1, <2>2, <2>4 DEF Orderly, OrderlyAt
  <2> QED
    BY <2>1, <2>3, <2>4
<1>10. ASSUME NEW c \in Conns, HandlePacket(c)
       PROVE  Orderly'
  BY <1>10, HandlersKeepOrderly
<1> QED
  BY <1>2, <1>3, <1>4, <1>6, <1>7, <1>9, <1>10 DEF Next, ReadEvent

(* When clients send nothing after their LOGOUT, all packets are decoded   *)
(* on open connections and a LOGOUT is the last of them.                   *)
LEMMA AlwaysOrderly == ASSUME QuietAfterLogout PROVE Spec => []Orderly
<1>1. Init => Orderly
  BY DEF Init, Orderly, OrderlyAt, LogoutEnds, NoLogout
<1>2. Inv /\ Orderly /\ [Next]_vars => Orderly'
  BY NextKeepsOrderly
<1> QED
  BY <1>1, <1>2, InvHolds, PTL DEF Spec

(* Everyone online is connected: when clients send nothing after their     *)
(* LOGOUT, a name of the user table has an open socket behind it, so that  *)
(* peers are told when it goes.  (A LOGIN read together with the LOGOUT    *)
(* before it does bring a closed connection back: run tcp_ghost.)          *)
THEOREM OnlineAreConnected ==
    ASSUME QuietAfterLogout PROVE Spec => []OnlineUsersAreConnected
<1>1. Inv /\ Orderly => OnlineUsersAreConnected
  BY DEF Inv, TypeOK, UsersMatchConnections, Orderly, OrderlyAt, OnlineUsersAreConnected
<1> QED
  BY <1>1, InvHolds, AlwaysOrderly, PTL

-----------------------------------------------------------------------------
(* Whom a message reaches, and whose name it carries.                      *)

(* Message m in the output of d agrees with the states st and names un.    *)
Right(m, d, st, un) ==
    /\ m.type \in Speech => st[m.content] \in Past /\ m.from = un[m.content]
    /\ m.type = "CHAT_BROAD" => m.content # d
    /\ m.type = "PRIVATE" => st[d] \in Past /\ m.to = un[d]

AllRight(s, d, st, un) == \A k \in DOMAIN s : Right(s[k], d, st, un)

(* RightAudience, and that authors and addressees have logged in.          *)
Delivered == \A d \in Conns : AllRight(stream[d], d, state, username)

(* A message more.                                                         *)
LEMMA OneMoreRight ==
    ASSUME NEW s \in Seq(Message), NEW m \in Message, NEW d, NEW st, NEW un,
           AllRight(s, d, st, un), Right(m, d, st, un)
    PROVE  AllRight(s \o <<m>>, d, st, un)
<1> DEFINE t == s \o <<m>>
<1>1. /\ Len(s) \in Nat /\ DOMAIN s = 1..Len(s) /\ DOMAIN t = 1..(Len(s) + 1)
      /\ \A k \in 1..Len(s) : t[k] = s[k]
      /\ t[Len(s) + 1] = m
  BY OneMore
<1> HIDE DEF t
<1>2. \A k \in DOMAIN t : Right(t[k], d, st, un)
  BY <1>1 DEF AllRight
<1> QED
  BY <1>2 DEF AllRight, t

(* What the server says of itself is nobody's speech.                      *)
LEMMA NewsRight ==
    ASSUME NEW s \in Seq(Message), NEW n \in Names \cup {None}, NEW b \in BOOLEAN,
           NEW us, NEW d, NEW st, NEW un, AllRight(s, d, st, un)
    PROVE  AllRight(WithNews(s, n, b, us), d, st, un)
<1> DEFINE x == System(n, b)
           t == s \o <<x>>
           m == UserList(Online(us))
<1>1. x \in Message /\ m \in Message
  BY NewsAreTwo
<1>2. Right(x, d, st, un) /\ Right(m, d, st, un)
  BY DEF Right, System, UserList, Speech
<1> HIDE DEF x, m
<1>3. t \in Seq(Message) /\ AllRight(t, d, st, un)
  BY <1>1, <1>2, OneMore, OneMoreRight
<1> HIDE DEF t
<1>4. AllRight(t \o <<m>>, d, st, un)
  BY <1>1, <1>2, <1>3, OneMoreRight
<1> QED
  BY <1>4 DEF WithNews, t, m, x

(* A packet is only decoded on an open connection.                         *)
LEMMA DecodedIsOpen ==
    ASSUME Inv, Orderly, NEW c \in Conns
    PROVE  /\ \A n : Joined(c, n) => state[c] = "CONNECTING"
           /\ \A m : Answered(c, m) => state[c] \in {"CONNECTING", "AUTHENTICATED"}
<1>1. readBuf[c] # <<>> => state[c] \in {"CONNECTING", "AUTHENTICATED"}
  BY DEF Inv, TablesAgree, Orderly, OrderlyAt
<1> QED
  BY <1>1 DEF Joined, Answered, LoggedIn

(* Who has logged in or has ended keeps its name.                          *)
LEMMA SettledStay ==
    ASSUME Inv, Orderly, [Next]_vars, NEW d \in Conns, state[d] \in Past
    PROVE  state'[d] \in Past /\ username'[d] = username[d]
<1>0. TypeOK
  BY DEF Inv
<1>1. CASE StandsStill
  BY <1>1 DEF StandsStill, Settled
<1>2. ASSUME NEW c \in Conns, Kinds(c)
      PROVE  state'[d] \in Past /\ username'[d] = username[d]
  <2>1. CASE Admitted(c)
    BY <1>0, <2>1 DEF Admitted, Past, TypeOK
  <2>2. ASSUME NEW n \in Names, Joined(c, n)
        PROVE  state'[d] \in Past /\ username'[d] = username[d]
    <3>1. state[c] = "CONNECTING"
      BY <2>2, DecodedIsOpen
    <3>2. c # d
      BY <3>1 DEF Past
    <3> QED
      BY <1>0, <2>2, <3>2 DEF Joined, TypeOK
  <2>3. CASE Left(c)
    BY <1>0, <2>3 DEF Left, Past, TypeOK
  <2>4. CASE SameUsers
    BY <2>4 DEF SameUsers
  <2> QED
    BY <1>2, <2>1, <2>2, <2>3, <2>4 DEF Kinds, Answered, Said, Whispered
<1> QED
  BY <1>1, <1>2, StepKinds

(* So a message that was right stays right.                                *)
LEMMA RightStays ==
    ASSUME Inv, Orderly, [Next]_vars, NEW s \in Seq(Message), NEW d \in Conns,
           AllRight(s, d, state, username)
    PROVE  AllRight(s, d, state', username')
<1> SUFFICES ASSUME NEW k \in DOMAIN s PROVE Right(s[k], d, state', username')
  BY DEF AllRight
<1> DEFINE m == s[k]
<1>1. m \in Message
  BY ElementOfSeq, LenProperties
<1>2. Right(m, d, state, username)
  BY DEF AllRight
<1> HIDE DEF m
<1>3. m.type \in Speech => m.content \in Conns
  BY <1>1 DEF Message, Speech
<1>4. m.type \in Speech => /\ state'[m.content] \in Past
                           /\ username'[m.content] = username[m.content]
  BY <1>2, <1>3, SettledStay DEF Right
<1>5. state[d] \in Past => state'[d] \in Past /\ username'[d] = username[d]
  BY SettledStay
<1>6. Right(m, d, state', username')
  BY <1>2, <1>4, <1>5 DEF Right
<1> QED
  BY <1>6 DEF m

(* Steps of every kind, for the output of each d.                          *)
LEMMA KindsKeepDelivered ==
    ASSUME Inv, Orderly, Delivered, [Next]_vars, NEW c \in Conns, Kinds(c)
    PROVE  Delivered'
<1> SUFFICES ASSUME NEW d \in Conns
             PROVE  AllRight(stream'[d], d, state', username')
  BY DEF Delivered, AllRight, Right
<1> DEFINE Ok(s) == AllRight(s, d, state', username')
<1>0. TypeOK /\ stream[d] \in Seq(Message) /\ Ok(stream[d])
  BY RightStays DEF Inv, TypeOK, Delivered
<1>1. CASE Admitted(c)
  <2>1. stream'[d] = IF d = c THEN <<>> ELSE stream[d]
    BY <1>0, <1>1 DEF Admitted, TypeOK
  <2>2. Ok(<<>>)
    BY DEF AllRight
  <2> QED
    BY <1>0, <2>1, <2>2
<1>2. ASSUME NEW S, NEW m \in Message, Posted(To(S, <<m>>)),
             d \in S => Right(m, d, state', username')
      PROVE  Ok(stream'[d])
  <2>1. stream'[d] = IF d \in S THEN stream[d] \o <<m>> ELSE stream[d]
    BY <1>0, <1>2, OnePosted
  <2>2. d \in S => Ok(stream[d] \o <<m>>)
    BY <1>0, <1>2, OneMoreRight
  <2> QED
    BY <1>0, <2>1, <2>2
<1>3. ASSUME NEW m \in Message, Answered(c, m)
      PROVE  Ok(stream'[d])
  <2>1. Right(m, d, state', username')
    BY <1>3, AnswerTypes DEF Right, Speech
  <2> QED
    BY <1>2, <1>3, <2>1 DEF Answered
<1>4. CASE Said(c)
  <2> DEFINE m == ChatBroad(c)
  <2>1. m \in Message /\ m.type = "CHAT_BROAD" /\ m.content = c /\ m.from = username[c]
    BY <1>0, MessageTypes DEF ChatBroad
  <2>2. state' = state /\ username' = username /\ state[c] \in Past
    BY <1>4 DEF Said, SameUsers, LoggedIn, Past
  <2> HIDE DEF m
  <2>3. d # c => Right(m, d, state', username')
    BY <2>1, <2>2 DEF Right
  <2> QED
    BY <1>2, <1>4, <2>1, <2>3 DEF Said, m
<1>5. ASSUME NEW n \in Names, Whispered(c, n)
      PROVE  Ok(stream'[d])
  <2> DEFINE m == Private(c, n)
  <2>1. /\ m \in Message /\ m.type = "PRIVATE" /\ m.content = c
        /\ m.from = username[c] /\ m.to = n
    BY <1>0, MessageTypes DEF Private
  <2>2. state' = state /\ username' = username /\ state[c] \in Past
    BY <1>5 DEF Whispered, SameUsers, LoggedIn, Past
  <2>3. users[n] = d => state[d] \in Past /\ username[d] = n
    BY DEF Inv, UsersMatchConnections, Past
  <2> HIDE DEF m
  <2>4. users[n] = d => Right(m, d, state', username')
    BY <2>1, <2>2, <2>3 DEF Right
  <2> QED
    BY <1>2, <1>5, <2>1, <2>4 DEF Whispered, m
<1>6. ASSUME NEW n \in Names, Joined(c, n)
      PROVE  Ok(stream'[d])
  <2>1. Ack(TRUE) \in Message /\ Right(Ack(TRUE), d, state', username')
    BY <1>0, MessageTypes DEF Ack, Right, Speech
  <2>2. /\ stream[d] \o <<Ack(TRUE)>> \in Seq(Message)
        /\ Ok(stream[d] \o <<Ack(TRUE)>>)
    BY <1>0, <2>1, OneMore, OneMoreRight
  <2>3. /\ Ok(WithNews(stream[d] \o <<Ack(TRUE)>>, n, TRUE, users'))
        /\ Ok(WithNews(stream[d], n, TRUE, users'))
    BY <1>0, <2>2, NewsRight
  <2> QED
    BY <1>0, <1>6, <2>3, JoinedOutputs
<1>7. CASE Left(c)
  <2>1. username[c] \in Names \cup {None}
    BY <1>0 DEF TypeOK
  <2>2. Ok(WithNews(stream[d], username[c], FALSE, users'))
    BY <1>0, <2>1, NewsRight
  <2> QED
    BY <1>0, <1>7, <2>2, LeftOutputs
<1> QED
  BY <1>1, <1>3, <1>4, <1>5, <1>6, <1>7 DEF Kinds

(* Every step.                                                             *)
LEMMA NextKeepsDelivered ==
    Inv /\ Orderly /\ Delivered /\ [Next]_vars => Delivered'
<1> SUFFICES ASSUME Inv, Orderly, Delivered, [Next]_vars PROVE Delivered'
  OBVIOUS
<1>1. CASE StandsStill
  <2>1. ASSUME NEW d \in Conns
        PROVE  AllRight(stream'[d], d, state', username')
    <3>1. stream[d] \in Seq(Message) /\ stream'[d] = stream[d]
      BY <1>1 DEF StandsStill, Inv, TypeOK
    <3> QED
      BY <3>1, RightStays DEF Delivered
  <2> QED
    BY <2>1 DEF Delivered, AllRight, Right
<1> QED
  BY <1>1, StepKinds, KindsKeepDelivered

(* No chat message comes back to its author, a private one reaches only    *)
(* its addressee, and both carry the name of the connection that wrote     *)
(* them, for as long as they can be read: when clients send nothing after  *)
(* their LOGOUT, hence log in once.                                        *)
THEOREM AudienceAlwaysRight ==
    ASSUME QuietAfterLogout PROVE Spec => []RightAudience
<1>1. Init => Delivered
  BY DEF Init, Delivered, AllRight
<1>2. Delivered => RightAudience
  BY DEF Delivered, AllRight, Right, Speech, RightAudience
<1> QED
  BY <1>1, <1>2, InvHolds, AlwaysOrderly, NextKeepsDelivered, PTL DEF Spec

-----------------------------------------------------------------------------
(* The notices and the lists tell the same story.                          *)

NoNotice(s) == \A k \in DOMAIN s : s[k].type # "SYSTEM"

IsNotice(m, n) == m.type = "SYSTEM" /\ m.user = n

(* By its last notice about each name, s has exactly these names online,   *)
(* of those there is a notice about.                                       *)
NoticesSay(s, names) ==
    \A n \in Names : \A i \in 1..Len(s) :
        IsNotice(s[i], n) /\ (\A j \in (i + 1)..Len(s) : ~IsNotice(s[j], n)) =>
            (s[i].online <=> n \in names)

SameStory(s) == \A names : LastListIs(s, names) => NoticesSay(s, names)

(* The notices tell a user of the present, a closed connection what its    *)
(* last list said, and a connection that has not logged in nothing.        *)
Noticed ==
    \A d \in Conns :
        /\ state[d] \notin Past => NoNotice(stream[d])
        /\ LoggedIn(d) => NoticesSay(stream[d], Online(users))
        /\ state[d] = "CLOSED" => SameStory(stream[d])

(* There is one last list.                                                 *)
LEMMA LastListUnique ==
    ASSUME NEW s \in Seq(Message), NEW x, NEW y, LastListIs(s, x), LastListIs(s, y)
    PROVE  x = y
<1>1. PICK i \in DOMAIN s : IsLast(s, i, Len(s), IsUserList) /\ s[i].users = x
  BY DEF LastListIs
<1>2. PICK j \in DOMAIN s : IsLast(s, j, Len(s), IsUserList) /\ s[j].users = y
  BY DEF LastListIs
<1>3. Len(s) \in Nat
  BY LenProperties
<1>4. i \in 1..Len(s) /\ j \in 1..Len(s) /\ IsUserList(s[i]) /\ IsUserList(s[j])
      /\ (\A k \in (i + 1)..Len(s) : ~IsUserList(s[k]))
      /\ (\A k \in (j + 1)..Len(s) : ~IsUserList(s[k]))
  BY <1>1, <1>2 DEF IsLast
<1>5. i = j
  BY <1>3, <1>4
<1> QED
  BY <1>1, <1>2, <1>5

(* Without notices there is nothing to contradict.                         *)
LEMMA NoNoticeSays ==
    ASSUME NEW s \in Seq(Message), NoNotice(s)
    PROVE  \A names : NoticesSay(s, names)
<1>1. DOMAIN s = 1..Len(s)
  BY LenProperties
<1> QED
  BY <1>1 DEF NoNotice, NoticesSay, IsNotice

(* A message more that is no notice.                                       *)
LEMMA OtherKeepsNotices ==
    ASSUME NEW s \in Seq(Message), NEW m \in Message, m.type # "SYSTEM"
    PROVE  /\ NoNotice(s) => NoNotice(s \o <<m>>)
           /\ \A names : NoticesSay(s, names) => NoticesSay(s \o <<m>>, names)
<1> DEFINE t == s \o <<m>>
<1>1. /\ Len(s) \in Nat /\ DOMAIN s = 1..Len(s) /\ DOMAIN t = 1..(Len(s) + 1)
      /\ Len(t) = Len(s) + 1
      /\ \A k \in 1..Len(s) : t[k] = s[k]
      /\ t[Len(s) + 1] = m
  BY OneMore
<1> HIDE DEF t
<1>2. NoNotice(s) => NoNotice(t)
  BY <1>1 DEF NoNotice
<1>3. ASSUME NEW names, NoticesSay(s, names)
      PROVE  NoticesSay(t, names)
  <2> SUFFICES ASSUME NEW n \in Names, NEW i \in 1..Len(t), IsNotice(t[i], n),
                      \A j \in (i + 1)..Len(t) : ~IsNotice(t[j], n)
               PROVE  t[i].online <=> n \in names
    BY DEF NoticesSay
  <2>1. i # Len(s) + 1
    BY <1>1 DEF IsNotice
  <2>2. i \in 1..Len(s) /\ t[i] = s[i]
    BY <1>1, <2>1
  <2>3. ASSUME NEW j \in (i + 1)..Len(s) PROVE ~IsNotice(s[j], n)
    <3>1. j \in 1..Len(s) /\ j \in (i + 1)..Len(t)
      BY <1>1, <2>2
    <3> QED
      BY <1>1, <3>1
  <2> QED
    BY <1>3, <2>2, <2>3 DEF NoticesSay
<1> QED
  BY <1>2, <1>3 DEF t

(* A notice more, about the one name that changes.                         *)
LEMMA NoticeKeepsNotices ==
    ASSUME NEW s \in Seq(Message), NEW n \in Names, NEW b \in BOOLEAN,
           NEW old, NEW new, NoticesSay(s, old),
           \A k \in Names \ {n} : k \in old <=> k \in new,
           b <=> n \in new
    PROVE  NoticesSay(s \o <<System(n, b)>>, new)
<1> DEFINE m == System(n, b)
           t == s \o <<m>>
<1>0. m \in Message /\ m.type = "SYSTEM" /\ m.user = n /\ m.online = b
  BY DEF System, Message
<1> HIDE DEF m
<1>1. /\ Len(s) \in Nat /\ Len(t) = Len(s) + 1
      /\ \A k \in 1..Len(s) : t[k] = s[k]
      /\ t[Len(s) + 1] = m
  BY <1>0, OneMore
<1> HIDE DEF t
<1>2. SUFFICES ASSUME NEW k \in Names, NEW i \in 1..Len(t), IsNotice(t[i], k),
                      \A j \in (i + 1)..Len(t) : ~IsNotice(t[j], k)
               PROVE  t[i].online <=> k \in new
  BY DEF NoticesSay, t, m
<1>3. CASE i = Len(s) + 1
  <2>1. t[i] = m
    BY <1>1, <1>3
  <2>2. k = n
    BY <1>0, <1>2, <2>1 DEF IsNotice
  <2> QED
    BY <1>0, <2>1, <2>2
<1>4. CASE i # Len(s) + 1
  <2>1. i \in 1..Len(s) /\ t[i] = s[i] /\ Len(s) + 1 \in (i + 1)..Len(t)
    BY <1>1, <1>4
  <2>2. ~IsNotice(m, k)
    BY <1>1, <1>2, <2>1
  <2>3. k # n
    BY <1>0, <2>2 DEF IsNotice
  <2>4. ASSUME NEW j \in (i + 1)..Len(s) PROVE ~IsNotice(s[j], k)
    <3>1. j \in 1..Len(s) /\ j \in (i + 1)..Len(t)
      BY <1>1, <2>1
    <3> QED
      BY <1>1, <1>2, <3>1
  <2>5. s[i].online <=> k \in old
    BY <1>2, <2>1, <2>4 DEF NoticesSay
  <2> QED
    BY <2>1, <2>3, <2>5
<1> QED
  BY <1>3, <1>4

(* The news: the notice, and the list.                                     *)
LEMMA NewsSay ==
    ASSUME NEW s \in Seq(Message), NEW n \in Names, NEW b \in BOOLEAN,
           NEW old, NEW us, NoticesSay(s, old),
           \A k \in Names \ {n} : k \in old <=> k \in Online(us),
           b <=> n \in Online(us)
    PROVE  NoticesSay(WithNews(s, n, b, us), Online(us))
<1> DEFINE x == System(n, b)
           t == s \o <<x>>
           m == UserList(Online(us))
<1>1. x \in Message /\ m \in Message /\ m.type # "SYSTEM"
  BY NewsAreTwo DEF UserList
<1>2. t \in Seq(Message) /\ NoticesSay(t, Online(us))
  BY <1>1, OneMore, NoticeKeepsNotices
<1> HIDE DEF t, m
<1>3. NoticesSay(t \o <<m>>, Online(us))
  BY <1>1, <1>2, OtherKeepsNotices
<1> QED
  BY <1>3 DEF WithNews, t, m

(* Who is logged in is in the table, and nobody else is.                   *)
LEMMA AudienceIsLoggedIn ==
    ASSUME Inv, Named, NEW d \in Conns
    PROVE  /\ d \in Audience(users) <=> LoggedIn(d)
           /\ LoggedIn(d) => users[username[d]] = d /\ username[d] \in Names
                             /\ username[d] \in Online(users)
BY ConnsAssumption DEF Inv, UsersMatchConnections, Named, LoggedIn, Audience, Online

(* What Noticed asks of one output, state and set of users.                *)
NoticedIn(s, st, names) ==
    /\ st \notin Past => NoNotice(s)
    /\ st = "AUTHENTICATED" => NoticesSay(s, names)
    /\ st = "CLOSED" => SameStory(s)

(* Noticed, output by output.                                              *)
LEMMA NoticedParts ==
    /\ Noticed <=> \A d \in Conns : NoticedIn(stream[d], state[d], Online(users))
    /\ Noticed' <=> \A d \in Conns : NoticedIn(stream'[d], state'[d], Online(users'))
BY DEF Noticed, NoticedIn, LoggedIn, NoNotice, NoticesSay, SameStory, IsNotice,
   LastListIs, IsLast, IsUserList, Online

(* A message that is no notice, to open connections.                       *)
LEMMA PostKeepsNoticed ==
    ASSUME TypeOK, Noticed, NEW S, NEW m \in Message, m.type # "SYSTEM",
           \A d \in S : state[d] # "CLOSED",
           Posted(To(S, <<m>>)), SameUsers
    PROVE  Noticed'
<1> SUFFICES ASSUME NEW d \in Conns
             PROVE  NoticedIn(stream'[d], state'[d], Online(users'))
  BY NoticedParts
<1>1. /\ stream[d] \in Seq(Message) /\ NoticedIn(stream[d], state[d], Online(users))
      /\ users' = users /\ state' = state
  BY NoticedParts DEF TypeOK, SameUsers
<1>2. stream'[d] = IF d \in S THEN stream[d] \o <<m>> ELSE stream[d]
  BY OnePosted
<1>3. CASE d \in S
  BY <1>1, <1>2, <1>3, OtherKeepsNotices DEF NoticedIn
<1>4. CASE d \notin S
  BY <1>1, <1>2, <1>4
<1> QED
  BY <1>3, <1>4

(* A login: the newcomer had heard nothing yet, the others hear the news.  *)
LEMMA JoinedKeepsNoticed ==
    ASSUME Inv, Named, Orderly, Noticed, NEW c \in Conns, NEW n \in Names,
           Joined(c, n)
    PROVE  Noticed'
<1> SUFFICES ASSUME NEW d \in Conns
             PROVE  NoticedIn(stream'[d], state'[d], Online(users'))
  BY NoticedParts
<1>0. /\ TypeOK /\ stream[d] \in Seq(Message)
      /\ NoticedIn(stream[d], state[d], Online(users))
  BY NoticedParts DEF Inv, TypeOK
<1>1. /\ users[n] = None /\ users' = [users EXCEPT ![n] = c]
      /\ state' = [state EXCEPT ![c] = "AUTHENTICATED"]
  BY DEF Joined
<1>2. /\ \A k \in Names \ {n} : k \in Online(users) <=> k \in Online(users')
      /\ n \in Online(users')
  BY <1>0, <1>1, ConnsAssumption DEF Online, TypeOK
<1>3. CASE d = c
  <2> DEFINE s == stream[d] \o <<Ack(TRUE)>>
  <2>1. Ack(TRUE) \in Message /\ Ack(TRUE).type # "SYSTEM"
    BY <1>0, MessageTypes DEF Ack
  <2>2. NoNotice(stream[d])
    BY <1>0, <1>3, DecodedIsOpen DEF NoticedIn, Past
  <2>3. s \in Seq(Message) /\ NoNotice(s)
    BY <1>0, <2>1, <2>2, OneMore, OtherKeepsNotices
  <2> HIDE DEF s
  <2>4. NoticesSay(s, Online(users))
    BY <2>3, NoNoticeSays
  <2>5. NoticesSay(WithNews(s, n, TRUE, users'), Online(users'))
    BY <1>2, <2>3, <2>4, NewsSay
  <2>6. stream'[d] = WithNews(s, n, TRUE, users') /\ state'[d] = "AUTHENTICATED"
    BY <1>0, <1>1, <1>3, JoinedOutputs DEF s, TypeOK
  <2> QED
    BY <2>5, <2>6 DEF NoticedIn, Past
<1>4. CASE d # c /\ LoggedIn(d)
  <2>1. d \in Audience(users') /\ state'[d] = "AUTHENTICATED"
    BY <1>0, <1>1, <1>4, AudienceIsLoggedIn, ConnsAssumption
       DEF Audience, LoggedIn, TypeOK
  <2>2. stream'[d] = WithNews(stream[d], n, TRUE, users')
    BY <1>0, <1>4, <2>1, JoinedOutputs
  <2>3. NoticesSay(stream[d], Online(users))
    BY <1>0, <1>4 DEF NoticedIn, LoggedIn
  <2>4. NoticesSay(WithNews(stream[d], n, TRUE, users'), Online(users'))
    BY <1>0, <1>2, <2>3, NewsSay
  <2> QED
    BY <2>1, <2>2, <2>4 DEF NoticedIn, Past
<1>5. CASE d # c /\ ~LoggedIn(d)
  <2>1. d \notin Audience(users')
    BY <1>0, <1>1, <1>5, AudienceIsLoggedIn DEF Audience, TypeOK
  <2>2. stream'[d] = stream[d] /\ state'[d] = state[d]
    BY <1>0, <1>1, <1>5, <2>1, JoinedOutputs DEF TypeOK
  <2> QED
    BY <1>0, <1>5, <2>2 DEF NoticedIn, LoggedIn
<1> QED
  BY <1>3, <1>4, <1>5

(* A departure: the leaver hears nothing more, the others hear the news.   *)
LEMMA LeftKeepsNoticed ==
    ASSUME Inv, Named, ListCurrent, Noticed, NEW c \in Conns, Left(c)
    PROVE  Noticed'
<1> SUFFICES ASSUME NEW d \in Conns
             PROVE  NoticedIn(stream'[d], state'[d], Online(users'))
  BY NoticedParts
<1> DEFINE n == username[c]
<1>0. /\ TypeOK /\ stream[d] \in Seq(Message)
      /\ NoticedIn(stream[d], state[d], Online(users))
      /\ users \in [Names -> Conns \cup {None}]
  BY NoticedParts DEF Inv, TypeOK
<1>1. /\ n \in Names /\ LoggedIn(c) /\ users' = Without(users, c)
      /\ state' = [state EXCEPT ![c] = "CLOSED"]
      /\ \A k \in Names : users[k] = c <=> k = n
  BY DEF Left, Named, Inv, UsersMatchConnections, LoggedIn
<1>2. \A k \in Names : users'[k] = IF k = n THEN None ELSE users[k]
  BY <1>1 DEF Without
<1> HIDE DEF n
<1>3. /\ \A k \in Names \ {n} : k \in Online(users) <=> k \in Online(users')
      /\ n \notin Online(users')
  BY <1>2 DEF Online
<1>4. CASE d = c
  <2>1. c \notin Audience(users')
    BY <1>0, <1>1, WithoutProperties DEF Audience
  <2>2. stream'[d] = stream[d] /\ state'[d] = "CLOSED"
    BY <1>0, <1>1, <1>4, <2>1, LeftOutputs DEF TypeOK
  <2>3. NoticesSay(stream[d], Online(users)) /\ LastListIs(stream[d], Online(users))
    <3>1. users[n] = c /\ users[n] # None /\ n \in Names
      BY <1>1, ConnsAssumption
    <3> QED
      BY <1>0, <1>1, <1>4, <3>1 DEF NoticedIn, LoggedIn, ListCurrent
  <2>4. SameStory(stream[d])
    BY <1>0, <2>3, LastListUnique DEF SameStory
  <2> QED
    BY <2>2, <2>4 DEF NoticedIn, Past
<1>5. CASE d # c /\ LoggedIn(d)
  <2>1. d \in Audience(users') /\ state'[d] = "AUTHENTICATED"
    <3>1. username[d] \in Names /\ users[username[d]] = d
      BY <1>5, AudienceIsLoggedIn
    <3>2. users'[username[d]] = d
      BY <1>0, <1>1, <1>5, <3>1, WithoutProperties
    <3>3. state'[d] = state[d]
      BY <1>0, <1>1, <1>5 DEF TypeOK
    <3> QED
      BY <1>5, <3>1, <3>2, <3>3 DEF Audience, LoggedIn
  <2>2. stream'[d] = WithNews(stream[d], n, FALSE, users')
    BY <1>0, <2>1, LeftOutputs DEF n
  <2>3. NoticesSay(stream[d], Online(users))
    BY <1>0, <1>5 DEF NoticedIn, LoggedIn
  <2>4. NoticesSay(WithNews(stream[d], n, FALSE, users'), Online(users'))
    BY <1>0, <1>1, <1>3, <2>3, NewsSay
  <2> QED
    BY <2>1, <2>2, <2>4 DEF NoticedIn, Past
<1>6. CASE d # c /\ ~LoggedIn(d)
  <2>1. d \notin Audience(users')
    BY <1>0, <1>1, <1>6, AudienceIsLoggedIn, WithoutProperties DEF Audience
  <2>2. stream'[d] = stream[d] /\ state'[d] = state[d]
    BY <1>0, <1>1, <1>6, <2>1, LeftOutputs DEF TypeOK
  <2> QED
    BY <1>0, <1>6, <2>2 DEF NoticedIn, LoggedIn
<1> QED
  BY <1>4, <1>5, <1>6

(* Every step.                                                             *)
LEMMA NextKeepsNoticed ==
    Inv /\ Named /\ ListCurrent /\ Orderly /\ Noticed /\ [Next]_vars => Noticed'
<1> SUFFICES ASSUME Inv, Named, ListCurrent, Orderly, Noticed, [Next]_vars
             PROVE  Noticed'
  OBVIOUS
<1>0. /\ TypeOK
      /\ \A d \in Conns : /\ stream[d] \in Seq(Message)
                          /\ NoticedIn(stream[d], state[d], Online(users))
  BY NoticedParts DEF Inv, TypeOK
<1>1. CASE StandsStill
  <2>1. ASSUME NEW d \in Conns
        PROVE  NoticedIn(stream'[d], state'[d], Online(users'))
    <3>1. users' = users /\ stream' = stream
      BY <1>1 DEF StandsStill
    <3>2. CASE state'[d] = state[d]
      BY <1>0, <3>1, <3>2
    <3>3. CASE state'[d] # state[d]
      <4>1. NoNotice(stream[d]) /\ state'[d] # "AUTHENTICATED"
        BY <1>0, <1>1, <3>3 DEF StandsStill, Settled, NoticedIn
      <4>2. SameStory(stream[d])
        BY <1>0, <4>1, NoNoticeSays DEF SameStory
      <4> QED
        BY <3>1, <4>1, <4>2 DEF NoticedIn
    <3> QED
      BY <3>2, <3>3
  <2> QED
    BY <2>1, NoticedParts
<1>2. ASSUME NEW c \in Conns, Admitted(c)
      PROVE  Noticed'
  <2>1. ASSUME NEW d \in Conns
        PROVE  NoticedIn(stream'[d], state'[d], Online(users'))
    <3>1. users' = users
      BY <1>2 DEF Admitted
    <3>2. CASE d = c
      <4>1. stream'[d] = <<>> /\ state'[d] = "CONNECTING"
        BY <1>0, <1>2, <3>2 DEF Admitted, TypeOK
      <4> QED
        BY <4>1 DEF NoticedIn, NoNotice, Past
    <3>3. CASE d # c
      <4>1. stream'[d] = stream[d] /\ state'[d] = state[d]
        BY <1>0, <1>2, <3>3 DEF Admitted, TypeOK
      <4> QED
        BY <1>0, <3>1, <4>1
    <3> QED
      BY <3>2, <3>3
  <2> QED
    BY <2>1, NoticedParts
<1>3. ASSUME NEW c \in Conns, NEW m \in Message, Answered(c, m)
      PROVE  Noticed'
  <2>1. state[c] # "CLOSED" /\ m.type # "SYSTEM"
    BY <1>3, DecodedIsOpen, AnswerTypes
  <2> QED
    BY <1>0, <1>3, <2>1, AnswerTypes, PostKeepsNoticed DEF Answered
<1>4. \A d \in Audience(users) : state[d] # "CLOSED"
  BY AudienceIsLoggedIn DEF LoggedIn, Audience
<1>5. ASSUME NEW c \in Conns, Said(c)
      PROVE  Noticed'
  <2>1. ChatBroad(c) \in Message /\ ChatBroad(c).type # "SYSTEM"
    BY <1>0, MessageTypes DEF ChatBroad
  <2> QED
    BY <1>0, <1>4, <1>5, <2>1, PostKeepsNoticed DEF Said
<1>6. ASSUME NEW c \in Conns, NEW n \in Names, Whispered(c, n)
      PROVE  Noticed'
  <2>1. Private(c, n) \in Message /\ Private(c, n).type # "SYSTEM"
    BY <1>0, MessageTypes DEF Private
  <2>2. users[n] \in Audience(users)
    BY <1>0, <1>6 DEF Whispered, Audience, TypeOK
  <2> QED
    BY <1>0, <1>4, <1>6, <2>1, <2>2, PostKeepsNoticed DEF Whispered
<1>7. ASSUME NEW c \in Conns, Kinds(c)
      PROVE  Noticed'
  BY <1>2, <1>3, <1>5, <1>6, <1>7, JoinedKeepsNoticed, LeftKeepsNoticed DEF Kinds
<1> QED
  BY <1>1, <1>7, StepKinds

(* The system notices and the lists tell a client the same story: the last *)
(* notice about a user says "online" exactly if the last list has the      *)
(* user, when clients send nothing after their LOGOUT.  (A closed client   *)
(* that asked for the list would get one it has heard no notices for.)     *)
THEOREM NoticesAlwaysAgree ==
    ASSUME QuietAfterLogout PROVE Spec => []NoticesAgreeWithList
<1>1. Init => Noticed /\ Named
  BY DEF Init, Noticed, Past, NoNotice, LoggedIn, Named
<1>2. Inv /\ Named /\ ListCurrent /\ Noticed => NoticesAgreeWithList
  <2> SUFFICES ASSUME Inv, Named, ListCurrent, Noticed, NEW c \in Conns, NEW n \in Names
               PROVE  LET s == stream[c]
                          About(m) == m.type = "SYSTEM" /\ m.user = n
                      IN  \A i \in DOMAIN s : IsLast(s, i, Len(s), About) =>
                            \A j \in DOMAIN s : IsLast(s, j, Len(s), IsUserList) =>
                                (s[i].online <=> n \in s[j].users)
    BY DEF NoticesAgreeWithList
  <2> DEFINE s == stream[c]
  <2>0. s \in Seq(Message) /\ NoticedIn(s, state[c], Online(users))
    BY NoticedParts DEF Inv, TypeOK
  <2>1. SameStory(s)
    <3>1. CASE state[c] \notin Past
      BY <2>0, <3>1, NoNoticeSays DEF NoticedIn, SameStory
    <3>2. CASE state[c] = "CLOSED"
      BY <2>0, <3>2 DEF NoticedIn
    <3>3. CASE state[c] = "AUTHENTICATED"
      <4>0. \E k \in Names : users[k] = c
        BY <3>3, AudienceIsLoggedIn DEF LoggedIn
      <4>1. LastListIs(s, Online(users)) /\ NoticesSay(s, Online(users))
        BY <2>0, <3>3, <4>0, ConnsAssumption DEF NoticedIn, ListCurrent
      <4> QED
        BY <2>0, <4>1, LastListUnique DEF SameStory
    <3> QED
      BY <3>1, <3>2, <3>3 DEF Past
  <2> QED
    BY <2>0, <2>1 DEF SameStory, NoticesSay, IsNotice, IsLast, LastListIs
<1> QED
  BY <1>1, <1>2, InvHolds, ListsAlwaysCurrent, AlwaysOrderly, NextKeepsNamed,
     NextKeepsNoticed, PTL DEF Spec

-----------------------------------------------------------------------------
(* The server is a room.                                                   *)

(* Before the server has a connection it has sent nothing on it, and read  *)
(* nothing from it.                                                        *)
Blank ==
    \A c \in Conns : state[c] \in Waiting => stream[c] = <<>> /\ readBuf[c] = <<>>

(* Only a registered connection is read from.                              *)
LEMMA OnlyOpenAreRead ==
    ASSUME Inv, [Next]_vars, NEW d \in Conns, d \notin reg, readBuf[d] = <<>>
    PROVE  readBuf'[d] = <<>>
<1>0. readBuf \in [Conns -> Seq(Packet)]
  BY DEF Inv, TypeOK
<1>1. CASE UNCHANGED readBuf
  BY <1>1
<1>2. ASSUME NEW c \in Conns, Environment(c) \/ Accept(c) \/ ReadCloses(c)
                              \/ ReadReturns(c) \/ WriteEvent(c) \/ TickCloses(c)
      PROVE  UNCHANGED readBuf
  BY <1>2 DEF Environment, Dial, ClientSend, ClientLeave, ClientStall, serverVars,
     Accept, ReadCloses, ReadReturns, WriteEvent, TickCloses
<1>3. ASSUME NEW c \in Conns, NEW w \in BOOLEAN, ReadStarts(c, w)
      PROVE  readBuf'[d] = <<>>
  BY <1>0, <1>3 DEF ReadStarts, Readable
<1>4. ASSUME NEW c \in Conns, HandlePacket(c)
      PROVE  readBuf'[d] = <<>>
  <2>1. CASE UncaughtThrow(c)
    BY <2>1 DEF UncaughtThrow
  <2>2. CASE Decoding(c) /\ Consume(c)
    BY <1>0, <2>2 DEF Decoding, Consume
  <2>3. CASE BadFrame(c)
    BY <1>0, <2>3 DEF BadFrame
  <2> QED
    BY <1>4, <2>1, <2>2, <2>3 DEF HandlePacket, HandleLogin, HandleChat,
       HandlePrivate, HandleUserList, HandlePing, HandleOther, HandleLogOut
<1>5. CASE UNCHANGED vars \/ Second \/ Tick \/ Stop
  BY <1>1, <1>5 DEF vars, Second, Tick, Stop, serverVars
<1> QED
  BY <1>1, <1>2, <1>3, <1>4, <1>5 DEF Next, ReadEvent

(* Who is in the table has been accepted.                                  *)
LEMMA AudienceIsNotWaiting ==
    ASSUME Inv, NEW c \in Conns, c \in Audience(users)
    PROVE  state[c] \notin Waiting
BY DEF Inv, UsersMatchConnections, Audience, Waiting

(* Nobody goes back to waiting, and who waits is sent nothing.             *)
LEMMA KindsKeepBlank ==
    ASSUME Inv, Blank, NEW c \in Conns, Kinds(c), NEW d \in Conns,
           state'[d] \in Waiting
    PROVE  state[d] \in Waiting /\ stream'[d] = <<>>
<1>0. TypeOK /\ state \in [Conns -> {"NONE", "BACKLOG", "CONNECTING",
                                     "AUTHENTICATED", "CLOSED"}]
  BY DEF Inv, TypeOK
<1>1. CASE Admitted(c)
  BY <1>0, <1>1 DEF Admitted, Waiting, Blank, TypeOK
<1>2. ASSUME NEW S, NEW m \in Message, Posted(To(S, <<m>>)), SameUsers,
             \A e \in S : state[e] \notin Waiting \/ readBuf[e] # <<>>
      PROVE  state[d] \in Waiting /\ stream'[d] = <<>>
  <2>1. state[d] \in Waiting /\ stream[d] = <<>> /\ readBuf[d] = <<>>
    BY <1>2 DEF SameUsers, Blank
  <2> QED
    BY <1>0, <1>2, <2>1, OnePosted
<1>3. ASSUME NEW m \in Message, Answered(c, m)
      PROVE  state[d] \in Waiting /\ stream'[d] = <<>>
  BY <1>2, <1>3 DEF Answered
<1>4. CASE Said(c)
  BY <1>0, <1>2, <1>4, AudienceIsNotWaiting, MessageTypes DEF Said, Audience
<1>5. ASSUME NEW n \in Names, Whispered(c, n)
      PROVE  state[d] \in Waiting /\ stream'[d] = <<>>
  <2>1. users[n] \in Audience(users) /\ users[n] \in Conns
    BY <1>0, <1>5 DEF Whispered, Audience, TypeOK
  <2> QED
    BY <1>0, <1>2, <1>5, <2>1, AudienceIsNotWaiting, MessageTypes DEF Whispered
<1>6. ASSUME NEW n \in Names, Joined(c, n)
      PROVE  state[d] \in Waiting /\ stream'[d] = <<>>
  <2>1. d # c /\ state[d] \in Waiting
    BY <1>0, <1>6 DEF Joined, Waiting
  <2>2. d \notin Audience(users)
    BY <2>1, AudienceIsNotWaiting
  <2>3. d \notin Audience(users')
    BY <1>0, <1>6, <2>1, <2>2 DEF Joined, Audience, TypeOK
  <2> QED
    BY <1>0, <1>6, <2>1, <2>3, JoinedOutputs DEF Blank
<1>7. CASE Left(c)
  <2>1. d # c /\ state[d] \in Waiting
    BY <1>0, <1>7 DEF Left, Waiting
  <2>2. d \notin Audience(users)
    BY <2>1, AudienceIsNotWaiting
  <2>3. d \notin Audience(users')
    BY <1>0, <1>7, <2>2, ConnsAssumption DEF Left, Without, Audience, TypeOK
  <2> QED
    BY <1>0, <1>7, <2>1, <2>3, LeftOutputs DEF Blank
<1> QED
  BY <1>1, <1>3, <1>4, <1>5, <1>6, <1>7 DEF Kinds

(* Every step.                                                             *)
LEMMA NextKeepsBlank == Inv /\ Blank /\ [Next]_vars => Blank'
<1> SUFFICES ASSUME Inv, Blank, [Next]_vars, NEW d \in Conns, state'[d] \in Waiting
             PROVE  stream'[d] = <<>> /\ readBuf'[d] = <<>>
  BY DEF Blank, Waiting
<1>2. state[d] \in Waiting /\ stream'[d] = <<>>
  <2>1. CASE StandsStill
    BY <2>1 DEF StandsStill, Blank
  <2> QED
    BY <2>1, StepKinds, KindsKeepBlank
<1>3. d \notin reg /\ readBuf[d] = <<>>
  BY <1>2 DEF Blank, Waiting, Inv, TablesAgree
<1> QED
  BY <1>2, <1>3, OnlyOpenAreRead

(* What the room calls its own.                                            *)
LEMMA RoomTerms ==
    /\ \A h : Room!Inside(h) = Audience(h) /\ Room!Present(h) = Online(h)
    /\ \A S, msgs : Room!Only(S, msgs) = To(S, msgs)
    /\ \A post : Room!Tell(post) <=> Posted(post)
    /\ \A n, b, h : Room!News(n, b, h) = News(n, b, h)
    /\ \A b : Room!Answer(b) = Ack(b)
    /\ Room!Pong = Pong
    /\ \A h : Room!List(Room!Present(h)) = UserList(Online(h))
<1>1. \A h : Room!Inside(h) = Audience(h) /\ Room!Present(h) = Online(h)
  BY DEF Room!Inside, Room!Present, Audience, Online
<1>2. \A S, msgs : Room!Only(S, msgs) = To(S, msgs)
  BY DEF Room!Only, To
<1>3. \A post : Room!Tell(post) <=> Posted(post)
  BY DEF Room!Tell, Posted
<1>4. \A h : Room!List(Room!Present(h)) = UserList(Online(h))
  BY <1>1 DEF Room!List, UserList
<1>5. \A n, b, h : Room!News(n, b, h) = News(n, b, h)
  BY <1>4 DEF Room!News, Room!Notice, News, System
<1>6. (\A b : Room!Answer(b) = Ack(b)) /\ Room!Pong = Pong
  BY DEF Room!Answer, Ack, Room!Pong, Pong
<1> QED
  BY <1>1, <1>2, <1>3, <1>4, <1>5, <1>6

(* A login lets its connection into the room.                              *)
LEMMA JoinedEnters ==
    ASSUME Inv, NEW c \in Conns, NEW n \in Names, Joined(c, n)
    PROVE  Room!Enter(c, n)
<1> DEFINE news  == News(n, TRUE, users')
           words == [d \in Conns |-> IF d = c THEN <<Ack(TRUE)>> \o news
                                     ELSE IF d \in Audience(users) THEN news
                                     ELSE <<>>]
<1>0. TypeOK
  BY DEF Inv
<1>1. users[n] = None /\ users' = [users EXCEPT ![n] = c]
  BY DEF Joined
<1>2. c \notin Audience(users)
  BY DEF Joined, LoggedIn, Inv, UsersMatchConnections, Audience
<1>3. \A d \in Conns : d \in Audience(users') <=> d = c \/ d \in Audience(users)
  BY <1>0, <1>1, ConnsAssumption DEF Audience, TypeOK
<1>4. Posted(words)
  <2>1. news \in Seq(Message)
    BY <1>0, MessageTypes
  <2>2. Posted(Both(To({c}, <<Ack(TRUE)>>), To(Audience(users'), news)))
    BY DEF Joined
  <2> HIDE DEF news
  <2>3. <<>> \o news = news /\ <<>> \o <<>> = <<>>
    BY <2>1, ConcatEmptySeq
  <2>4. Both(To({c}, <<Ack(TRUE)>>), To(Audience(users'), news)) = words
    BY <1>3, <2>3 DEF Both, To
  <2> QED
    BY <2>2, <2>4
<1>5. Room!Tell(words)
  BY <1>4, RoomTerms
<1>6. Room!News(n, TRUE, users') = news
  BY RoomTerms
<1>7. Room!Inside(users) = Audience(users) /\ Room!Answer(TRUE) = Ack(TRUE)
  BY RoomTerms
<1> HIDE DEF news
<1> QED
  BY <1>1, <1>2, <1>5, <1>6, <1>7 DEF Room!Enter

(* A connection that ends takes its user out of the room.                  *)
LEMMA LeftLeaves ==
    ASSUME Inv, Named, NEW c \in Conns, Left(c)
    PROVE  Room!Leave(c, username[c])
<1> DEFINE n == username[c]
<1>0. users \in [Names -> Conns \cup {None}]
  BY DEF Inv, TypeOK
<1>1. n \in Names /\ users[n] = c /\ \A x \in Names : users[x] = c => x = n
  BY DEF Left, LoggedIn, Named, Inv, UsersMatchConnections
<1>2. users' = [users EXCEPT ![n] = None]
  BY <1>0, <1>1 DEF Left, Without
<1>3. Audience(users') = Audience(users) \ {c}
  BY <1>0, <1>1, <1>2, ConnsAssumption DEF Audience
<1>4. Posted(To(Audience(users) \ {c}, News(n, FALSE, users')))
  BY <1>3 DEF Left
<1>5. Room!Tell(Room!Only(Room!Inside(users) \ {c}, Room!News(n, FALSE, users')))
  BY <1>4, RoomTerms
<1> QED
  BY <1>1, <1>2, <1>5 DEF Room!Leave

(* Every step of the server is a step of the room, or none.                *)
LEMMA StepsAreOfTheRoom ==
    Inv /\ Named /\ Blank /\ [Next]_vars => [Room!Next]_<<users, stream>>
<1> SUFFICES ASSUME Inv, Named, Blank, [Next]_vars, <<users, stream>>' # <<users, stream>>
             PROVE  Room!Next
  OBVIOUS
<1>1. CASE StandsStill
  BY <1>1 DEF StandsStill
<1>2. ASSUME NEW c \in Conns, Kinds(c)
      PROVE  Room!Next
  <2> DEFINE name == username[c]
  <2>1. CASE Admitted(c)
    <3>1. stream[c] = <<>> /\ stream \in [Conns -> Seq(Message)]
      BY <2>1 DEF Admitted, Waiting, Blank, Inv, TypeOK
    <3> QED
      BY <2>1, <3>1 DEF Admitted
  <2>2. ASSUME NEW m \in Message, Answered(c, m)
        PROVE  Room!Ask(c)
    <3>1. m \in {Room!Answer(FALSE), Room!Pong, Room!List(Room!Present(users))}
      BY <2>2, RoomTerms DEF Answered
    <3>2. Room!Tell(Room!Only({c}, <<m>>)) /\ users' = users
      BY <2>2, RoomTerms DEF Answered, SameUsers
    <3> QED
      BY <3>1, <3>2 DEF Room!Ask
  <2>3. LoggedIn(c) => name \in Names /\ users[name] = c
    BY DEF Named, LoggedIn, Inv, UsersMatchConnections
  <2>4. CASE Said(c)
    <3>1. Room!Tell(Room!Only(Room!Inside(users) \ {c}, <<ChatBroad(c)>>)) /\ users' = users
      BY <2>4, RoomTerms DEF Said, SameUsers
    <3>2. Room!Say(c, name) /\ name \in Names
      BY <2>3, <2>4, <3>1 DEF Room!Say, ChatBroad, Said
    <3> QED
      BY <3>2 DEF Room!Next
  <2>5. ASSUME NEW n \in Names, Whispered(c, n)
        PROVE  Room!Whisper(c, name, n) /\ name \in Names
    <3>1. Room!Tell(Room!Only({users[n]}, <<Private(c, n)>>)) /\ users' = users
      BY <2>5, RoomTerms DEF Whispered, SameUsers
    <3> QED
      BY <2>3, <2>5, <3>1 DEF Room!Whisper, Private, Whispered
  <2>6. ASSUME NEW n \in Names, Joined(c, n)
        PROVE  Room!Enter(c, n)
    BY <2>6, JoinedEnters
  <2>7. CASE Left(c)
    BY <2>3, <2>7, LeftLeaves DEF Left, Room!Next
  <2> QED
    BY <1>2, <2>1, <2>2, <2>4, <2>5, <2>6, <2>7 DEF Kinds, Room!Next
<1> QED
  BY <1>1, <1>2, StepKinds

(* To its clients the server is a room: whatever they send and however     *)
(* events, ticks and failures interleave, what each of them has been told  *)
(* and who is in the table is what a history of ChatRoom gives, in which   *)
(* entering, leaving and saying are each one step seen by all.             *)
THEOREM ServerIsARoom == Spec => IsARoom
<1>1. Init => Room!Init
  BY DEF Init, Room!Init
<1>2. Init => Named /\ Blank
  BY DEF Init, Named, LoggedIn, Blank
<1> QED
  BY <1>1, <1>2, InvHolds, NextKeepsNamed, NextKeepsBlank, StepsAreOfTheRoom, PTL
  DEF Spec, IsARoom, Room!Spec

=============================================================================
