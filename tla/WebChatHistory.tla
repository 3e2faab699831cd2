--------------------------- MODULE WebChatHistory ---------------------------
(***************************************************************************)
(* Within one run of the server (MaxRestarts = 0) a page misses only the   *)
(* messages that neither its history nor its WebSocket brings, however the *)
(* reply with the history, the messages pushed and the messages of others  *)
(* interleave.  And through any number of restarts what a page gets from   *)
(* its WebSockets comes in the room's order, none of it twice.             *)
(***************************************************************************)
EXTENDS WebChatAuthors

(* Where a tab may have a message: on its page, under way on its WebSocket, *)
(* or in a reply with the history.                                         *)
OnPage(t, m) == \E i \in DOMAIN shown[t] : shown[t][i] = m
OnItsWay(t, m) ==
    \E i \in DOMAIN down[ws[t]] :
        down[ws[t]][i].type = "chat" /\ down[ws[t]][i].message = m
InReply(t, m) ==
    \E r \in replies : /\ r.tab = t /\ r.kind = "history"
                       /\ \E i \in DOMAIN r.messages : r.messages[i] = m

(* The history is the end of the log, and all of it that fits. *)
HistoryIsEnd ==
    /\ Len(history) <= Len(log) /\ Len(history) <= MaxHistory
    /\ Len(history) = Len(log) \/ Len(history) = MaxHistory
    /\ \A j \in 1..Len(history) : history[j] = log[Len(log) - Len(history) + j]

(* What the history held when it was read is on the page, or will be. *)
Backfilled(t) ==
    0 <= served[t] =>
        /\ served[t] <= Len(log)
        /\ \A i \in DOMAIN log :
              served[t] - MaxHistory < i /\ i <= served[t]
                  => OnPage(t, log[i]) \/ InReply(t, log[i])

(* What came after the WebSocket was adopted is on the page, or will be:   *)
(* the 101 is ahead of every message, so none meets a socket that is still *)
(* connecting.                                                             *)
Followed(t) ==
    ready[t] \in {"connecting", "open"} /\ ss[ws[t]] = "hub" =>
        /\ since[ws[t]] <= Len(log)
        /\ \A i \in DOMAIN log :
              since[ws[t]] < i => OnPage(t, log[i]) \/ OnItsWay(t, log[i])
        /\ ready[t] = "connecting" =>
              down[ws[t]] # <<>> /\ Head(down[ws[t]]).type = "101"

PagesInv == HistoryIsEnd /\ \A t \in Tabs : Backfilled(t) /\ Followed(t)
HistoryInv == AuthorInv /\ PagesInv

-----------------------------------------------------------------------------

(* The log stays or gains one message.                                     *)
LogGrows == \/ log' = log
            \/ \E m \in Message : log' = Append(log, m)

(* An earlier message stays in its place in the log.                       *)
LEMMA LogKeeps ==
    ASSUME log \in Seq(Message), LogGrows
    PROVE  /\ Len(log) \in Nat /\ Len(log) <= Len(log') /\ Len(log') \in Nat
           /\ DOMAIN log = 1..Len(log) /\ DOMAIN log' = 1..Len(log')
           /\ \A i \in 1..Len(log) : log'[i] = log[i]
<1>1. CASE log' = log
  BY <1>1, LenProperties
<1>2. ASSUME NEW m \in Message, log' = Append(log, m)
      PROVE  /\ Len(log) \in Nat /\ Len(log) <= Len(log') /\ Len(log') \in Nat
             /\ DOMAIN log = 1..Len(log) /\ DOMAIN log' = 1..Len(log')
             /\ \A i \in 1..Len(log) : log'[i] = log[i]
  <2>1. /\ log' \in Seq(Message) /\ Len(log') = Len(log) + 1
        /\ \A i \in 1..Len(log) : log'[i] = log[i]
    BY <1>2, AppendProperties
  <2> QED
    BY <2>1, LenProperties
<1> QED
  BY <1>1, <1>2 DEF LogGrows

(* A page keeps its history as long as nothing of it is taken away. *)
LEMMA BackfilledStays ==
    ASSUME TypeInv, NEW u \in Tabs, Backfilled(u), LogGrows, served'[u] = served[u],
           \A m : OnPage(u, m) \/ InReply(u, m) => OnPage(u, m)' \/ InReply(u, m)'
    PROVE  Backfilled(u)'
<1>1. log \in Seq(Message) /\ served[u] \in Nat \cup {-1} /\ MaxHistory \in Nat
  BY BoundsAssumption DEF TypeInv, TypeOK, ServerTypeOK, TabTypeOK
<1>2. CASE 0 <= served[u]
  <2>1. served[u] <= Len(log)
    BY <1>2 DEF Backfilled
  <2>2. ASSUME NEW i \in DOMAIN log', served[u] - MaxHistory < i, i <= served[u]
        PROVE  (OnPage(u, log[i]) \/ InReply(u, log[i]))'
    <3>1. i \in DOMAIN log /\ log'[i] = log[i]
      BY <1>1, <2>1, <2>2, LogKeeps
    <3>2. OnPage(u, log[i]) \/ InReply(u, log[i])
      BY <1>2, <2>2, <3>1 DEF Backfilled
    <3>3. \A m : m = log[i] => OnPage(u, m)' \/ InReply(u, m)'
      BY <3>2
    <3> QED
      BY <3>1, <3>3 DEF OnPage, InReply
  <2> QED
    BY <1>1, <2>1, <2>2, LogKeeps DEF Backfilled
<1> QED
  BY <1>1, <1>2 DEF Backfilled

(* A step that takes nothing from tab u: its history and its WebSocket stay, *)
(* or it has none any more, or none yet.                                   *)
LEMMA TabStays ==
    ASSUME TypeInv, NEW u \in Tabs, Backfilled(u), Followed(u), UNCHANGED log,
           \/ served'[u] = -1
           \/ /\ served'[u] = served[u] /\ shown'[u] = shown[u]
              /\ \A r \in replies : r.tab = u /\ r.kind = "history" => r \in replies',
           \/ ready'[u] \notin {"connecting", "open"}
           \/ ss'[ws'[u]] # "hub"
           \/ /\ ready'[u] = ready[u] /\ ws'[u] = ws[u] /\ shown'[u] = shown[u]
              /\ ss'[ws[u]] = ss[ws[u]] /\ since'[ws[u]] = since[ws[u]]
              /\ down'[ws[u]] = down[ws[u]]
    PROVE  Backfilled(u)' /\ Followed(u)'
<1>1. Backfilled(u)'
  <2>1. CASE served'[u] = -1
    BY <2>1 DEF Backfilled
  <2>2. CASE /\ served'[u] = served[u] /\ shown'[u] = shown[u]
             /\ \A r \in replies : r.tab = u /\ r.kind = "history" => r \in replies'
    <3>1. \A m : OnPage(u, m) \/ InReply(u, m) => OnPage(u, m)' \/ InReply(u, m)'
      BY <2>2 DEF OnPage, InReply
    <3> QED
      BY <2>2, <3>1, BackfilledStays DEF LogGrows
  <2> QED
    BY <2>1, <2>2
<1>2. Followed(u)'
  BY DEF Followed, OnPage, OnItsWay
<1> QED
  BY <1>1, <1>2

(* A step that touches neither the room nor any page nor any WebSocket. *)
LEMMA PagesStay ==
    ASSUME TypeInv, PagesInv,
           UNCHANGED <<history, log, ss, since, down, wsVars, shown, served>>,
           \A r \in replies : r.kind = "history" => r \in replies'
    PROVE  PagesInv'
<1>1. ASSUME NEW u \in Tabs
      PROVE  Backfilled(u)' /\ Followed(u)'
  BY TabStays DEF PagesInv, wsVars
<1>2. HistoryIsEnd'
  BY DEF PagesInv, HistoryIsEnd
<1> QED
  BY <1>1, <1>2 DEF PagesInv

(* A tab's end of a WebSocket is closed; the other tabs have theirs. *)
LEMMA HangupPages ==
    ASSUME TypeInv, LinkInv, PagesInv, NEW t \in Tabs, Hangup(t),
           UNCHANGED <<history, log, ss, since>>,
           \A u \in Tabs :
              \/ u = t /\ served'[u] = -1
              \/ /\ served'[u] = served[u] /\ shown'[u] = shown[u]
                 /\ \A r \in replies : r.tab = u /\ r.kind = "history" => r \in replies'
    PROVE  PagesInv'
<1>1. /\ ws' = [ws EXCEPT ![t] = None] /\ ready' = [ready EXCEPT ![t] = "closed"]
      /\ down' = [s \in Sockets |-> IF s = ws[t] THEN <<>> ELSE down[s]]
      /\ ws \in [Tabs -> Sockets \cup {None}]
      /\ ready \in [Tabs -> {"connecting", "open", "closing", "closed"}]
  BY DEF Hangup, Unread, TypeInv, TypeOK, TabTypeOK
<1>2. ASSUME NEW u \in Tabs
      PROVE  Backfilled(u)' /\ Followed(u)'
  <2>1. CASE ready'[u] \notin {"connecting", "open"}
    BY <1>2, <2>1, TabStays DEF PagesInv
  <2>2. CASE ready'[u] \in {"connecting", "open"}
    <3>1. u # t /\ ws'[u] = ws[u] /\ ready'[u] = ready[u] /\ ready[u] # "closed"
      BY <1>1, <2>2
    <3>2. ws[u] \in Sockets /\ ws[u] # ws[t]
      BY <3>1, SocketOf, SetsAssumption DEF LinkInv
    <3>3. down'[ws[u]] = down[ws[u]]
      BY <1>1, <3>2
    <3> QED
      BY <1>2, <3>1, <3>3, TabStays DEF PagesInv
  <2> QED
    BY <2>1, <2>2
<1>3. HistoryIsEnd'
  BY DEF PagesInv, HistoryIsEnd
<1> QED
  BY <1>2, <1>3 DEF PagesInv

(* A tab dials on a free socket; the other tabs have theirs. *)
LEMMA ConnectPages ==
    ASSUME TypeInv, LinkInv, PagesInv, NEW t \in Tabs, NEW tok, Connect(t, tok),
           down' = Unread(t), UNCHANGED <<history, log, since>>,
           \A u \in Tabs :
              \/ u = t /\ served'[u] = -1
              \/ /\ served'[u] = served[u] /\ shown'[u] = shown[u]
                 /\ \A r \in replies : r.tab = u /\ r.kind = "history" => r \in replies'
    PROVE  PagesInv'
<1> PICK s \in Sockets :
        /\ ~Linked(s)
        /\ ss' = [ss EXCEPT ![s] = "asked"]
        /\ ws' = [ws EXCEPT ![t] = s]
        /\ ready' = [ready EXCEPT ![t] = "connecting"]
  BY DEF Connect
<1>1. /\ ws \in [Tabs -> Sockets \cup {None}]
      /\ ready \in [Tabs -> {"connecting", "open", "closing", "closed"}]
      /\ ss \in [Sockets -> {"none", "asked", "refused", "switching", "hub", "closing"}]
      /\ down' = [x \in Sockets |-> IF x = ws[t] THEN <<>> ELSE down[x]]
  BY DEF Unread, TypeInv, TypeOK, TabTypeOK, ServerTypeOK
<1>2. ASSUME NEW u \in Tabs
      PROVE  Backfilled(u)' /\ Followed(u)'
  <2>1. CASE ready'[u] \notin {"connecting", "open"}
    BY <1>2, <2>1, TabStays DEF PagesInv
  <2>2. CASE u = t
    <3>1. ss'[ws'[u]] = "asked"
      BY <1>1, <2>2
    <3> QED
      BY <1>2, <3>1, TabStays DEF PagesInv
  <2>3. CASE u # t /\ ready'[u] \in {"connecting", "open"}
    <3>1. ws'[u] = ws[u] /\ ready'[u] = ready[u] /\ ready[u] # "closed"
      BY <1>1, <2>3
    <3>2. ws[u] \in Sockets /\ ws[u] # ws[t] /\ ws[u] # s
      BY <2>3, <3>1, SocketOf, SetsAssumption DEF LinkInv, Linked
    <3>3. down'[ws[u]] = down[ws[u]] /\ ss'[ws[u]] = ss[ws[u]]
      BY <1>1, <3>2
    <3> QED
      BY <1>2, <2>3, <3>1, <3>3, TabStays DEF PagesInv
  <2> QED
    BY <2>1, <2>2, <2>3
<1>3. HistoryIsEnd'
  BY DEF PagesInv, HistoryIsEnd
<1> QED
  BY <1>2, <1>3 DEF PagesInv

(* What a tab takes off its WebSocket while it is open goes to its page. *)
LEMMA ReceivePages ==
    ASSUME TypeInv, LinkInv, PagesInv, NEW t \in Tabs, Receive(t)
    PROVE  PagesInv'
<1> DEFINE s == ws[t]
           m == Head(down[s])
<1>1. /\ s \in Sockets /\ s # None /\ down[s] \in Seq(DownFrame) /\ down[s] # <<>>
      /\ down \in [Sockets -> Seq(DownFrame)] /\ shown[t] \in Seq(Message)
      /\ shown \in [Tabs -> Seq(Message)]
      /\ ready \in [Tabs -> {"connecting", "open", "closing", "closed"}]
      /\ m \in DownFrame /\ Tail(down[s]) \in Seq(DownFrame)
  BY SocketOf, SetsAssumption, HeadTailProperties
     DEF Receive, TypeInv, TypeOK, TabTypeOK, WireTypeOK
<1>2. /\ UNCHANGED <<history, log, ss, since, served, replies>>
      /\ m.type \in {"101", "chat"} => ws' = ws /\ down' = [down EXCEPT ![s] = Tail(@)]
  BY DEF Receive, serverVars, roomVars, hubVars, httpVars, wsVars
<1>3. HistoryIsEnd'
  BY <1>2 DEF PagesInv, HistoryIsEnd
<1>4. CASE m.type = "CLOSE"
  <2>1. Hangup(t) /\ UNCHANGED shown
    BY <1>4 DEF Receive
  <2> QED
    BY <1>2, <2>1, HangupPages
<1>5. CASE m.type \in {"101", "chat"}
  <2>1. ASSUME NEW u \in Tabs, u # t
        PROVE  Backfilled(u)' /\ Followed(u)'
    <3>1. ready'[u] = ready[u] /\ shown'[u] = shown[u]
      BY <1>1, <1>2, <1>5, <2>1 DEF Receive, wsVars
    <3>2. CASE ready[u] = "closed"
      BY <1>2, <1>5, <2>1, <3>1, <3>2, TabStays DEF PagesInv
    <3>3. CASE ready[u] # "closed"
      <4>1. ws[u] # s /\ ws[u] \in Sockets
        BY <1>1, <2>1, <3>3, SocketOf, SetsAssumption DEF LinkInv
      <4>2. down'[ws[u]] = down[ws[u]]
        BY <1>1, <1>2, <1>5, <4>1
      <4> QED
        BY <1>2, <1>5, <2>1, <3>1, <4>2, TabStays DEF PagesInv
    <3> QED
      BY <3>2, <3>3
  <2>2. \A x : OnPage(t, x) => OnPage(t, x)'
    <3>1. CASE shown' = shown
      BY <3>1 DEF OnPage
    <3>2. CASE shown' = [shown EXCEPT ![t] = Append(@, m.message)] /\ m.type = "chat"
      <4>1. m.message \in Message
        BY <1>1, <3>2 DEF DownFrame
      <4>2. shown'[t] = Append(shown[t], m.message)
        BY <1>1, <3>2
      <4>3. \A i \in DOMAIN shown[t] : i \in DOMAIN shown'[t] /\ shown'[t][i] = shown[t][i]
        BY <1>1, <4>1, <4>2, AppendProperties, LenProperties
      <4> QED
        BY <4>3 DEF OnPage
    <3> QED
      BY <1>5, <3>1, <3>2 DEF Receive
  <2>3. Backfilled(t)'
    <3>1. \A x : OnPage(t, x) \/ InReply(t, x) => OnPage(t, x)' \/ InReply(t, x)'
      BY <1>2, <2>2 DEF InReply
    <3> QED
      BY <1>2, <3>1, BackfilledStays DEF PagesInv, LogGrows
  <2>4. Followed(t)'
    <3> SUFFICES ASSUME ready'[t] \in {"connecting", "open"}, ss[s] = "hub"
                 PROVE  Followed(t)'
      BY <1>2, <1>5 DEF Followed
    <3>1. down[s][1] = m /\ down'[s] = Tail(down[s])
          /\ \A i \in DOMAIN down[s] :
                i = 1 \/ (i - 1 \in DOMAIN Tail(down[s]) /\ Tail(down[s])[i - 1] = down[s][i])
      <4>1. /\ Len(Tail(down[s])) = Len(down[s]) - 1
            /\ \A i \in 1..Len(Tail(down[s])) : Tail(down[s])[i] = down[s][i + 1]
            /\ DOMAIN Tail(down[s]) = 1..Len(Tail(down[s]))
            /\ DOMAIN down[s] = 1..Len(down[s]) /\ Len(down[s]) \in Nat
        BY <1>1, HeadTailProperties, LenProperties
      <4> QED
        BY <1>1, <1>2, <1>5, <4>1
    <3>2. ready'[t] = "open" /\ ready[t] \in {"connecting", "open"}
          /\ (m.type = "chat" => ready[t] = "open")
      <4>1. m.type = "101" => ready'[t] = "open"
        BY <1>1 DEF Receive
      <4>2. m.type = "chat" => ready'[t] = ready[t]
        BY DEF Receive, wsVars
      <4>3. Dialling(t, s) \/ Talking(t, s) \/ Closing(s)
        BY <1>1, SocketOf, SetsAssumption DEF LinkInv, TabLink, TypeInv, TypeOK, TabTypeOK
      <4>4. ready[t] = "closing" => m.type # "101"
        BY <1>1, <3>1, LenProperties DEF LinkInv, TabLink, Closing, None101
      <4>5. ready[t] = "connecting" => m.type = "101"
        BY DEF PagesInv, Followed
      <4>6. ready[t] # "closed"
        BY DEF Receive
      <4> QED
        BY <1>1, <1>5, <4>1, <4>2, <4>4, <4>5, <4>6
    <3>3. ASSUME NEW x, OnPage(t, x) \/ OnItsWay(t, x)
          PROVE  OnPage(t, x)' \/ OnItsWay(t, x)'
      <4>1. CASE OnPage(t, x)
        BY <2>2, <4>1
      <4>2. CASE OnItsWay(t, x)
        <5> PICK i \in DOMAIN down[s] : down[s][i].type = "chat" /\ down[s][i].message = x
          BY <4>2 DEF OnItsWay
        <5>1. CASE i = 1
          <6>1. m.type = "chat" /\ m.message = x /\ x \in Message
            BY <1>1, <3>1, <5>1 DEF DownFrame
          <6>2. shown'[t] = Append(shown[t], x)
            BY <1>1, <3>2, <6>1 DEF Receive
          <6>3. shown'[t][Len(shown[t]) + 1] = x /\ Len(shown[t]) + 1 \in DOMAIN shown'[t]
            BY <1>1, <6>1, <6>2, AppendProperties, LenProperties
          <6> QED
            BY <6>3 DEF OnPage
        <5>2. CASE i # 1
          <6>1. i - 1 \in DOMAIN down'[s] /\ down'[s][i - 1] = down[s][i]
            BY <3>1, <5>2
          <6>2. ws'[t] = s
            BY <1>2, <1>5
          <6> QED
            BY <6>1, <6>2 DEF OnItsWay
        <5> QED
          BY <5>1, <5>2
      <4> QED
        BY <3>3, <4>1, <4>2
    <3>4. since[s] <= Len(log)
          /\ \A i \in DOMAIN log : since[s] < i => OnPage(t, log[i]) \/ OnItsWay(t, log[i])
      BY <3>2 DEF PagesInv, Followed
    <3>5. \A i \in DOMAIN log : since[s] < i => (OnPage(t, log[i]) \/ OnItsWay(t, log[i]))'
      <4> SUFFICES ASSUME NEW i \in DOMAIN log, since[s] < i
                   PROVE  (OnPage(t, log[i]) \/ OnItsWay(t, log[i]))'
        OBVIOUS
      <4>1. \A x : x = log[i] => OnPage(t, x)' \/ OnItsWay(t, x)'
        BY <3>3, <3>4
      <4> QED
        BY <1>2, <4>1 DEF OnPage, OnItsWay
    <3> QED
      BY <1>2, <1>5, <3>2, <3>4, <3>5 DEF Followed
  <2> QED
    BY <1>3, <2>1, <2>3, <2>4 DEF PagesInv
<1> QED
  BY <1>4, <1>5 DEF Receive

(* loadHistory puts the reply on the page. *)
LEMMA HistoryReplyPages ==
    ASSUME TypeInv, PagesInv, NEW t \in Tabs, NEW r \in replies, HistoryReply(t, r)
    PROVE  PagesInv'
<1>1. /\ shown \in [Tabs -> Seq(Message)] /\ r.messages \in Seq(Message)
      /\ shown' = [shown EXCEPT ![t] = @ \o r.messages] /\ r.tab = t
      /\ replies' = replies \ {r}
      /\ UNCHANGED <<history, log, ss, since, down, wsVars, served>>
  BY ReplyParts DEF HistoryReply, serverVars, roomVars, hubVars, linkVars,
     TypeInv, TypeOK, TabTypeOK
<1>2. ASSUME NEW u \in Tabs, u # t
      PROVE  Backfilled(u)' /\ Followed(u)'
  BY <1>1, <1>2, TabStays DEF PagesInv, wsVars
<1>3. \A x : \/ \E i \in DOMAIN shown[t] : shown[t][i] = x
             \/ \E i \in DOMAIN r.messages : r.messages[i] = x
             => OnPage(t, x)'
  <2>1. shown'[t] = shown[t] \o r.messages
    BY <1>1
  <2>2. /\ \A i \in DOMAIN shown[t] : i \in DOMAIN shown'[t] /\ shown'[t][i] = shown[t][i]
        /\ \A i \in DOMAIN r.messages : \E j \in DOMAIN shown'[t] : shown'[t][j] = r.messages[i]
    <3>1. shown[t] \in Seq(Message) /\ r.messages \in Seq(Message)
      BY <1>1
    <3> DEFINE p == shown[t]
               q == r.messages
               c == shown'[t]
               m == Len(p)
               n == Len(q)
    <3>2. p \in Seq(Message) /\ q \in Seq(Message) /\ c = p \o q
      BY <2>1, <3>1
    <3> HIDE DEF p, q, c
    <3>3. m \in Nat /\ DOMAIN p = 1..m /\ n \in Nat /\ DOMAIN q = 1..n
      BY <3>2, LenProperties
    <3>4. c \in Seq(Message) /\ Len(c) = m + n
      BY <3>2, ConcatProperties
    <3>5. DOMAIN c = 1..(m + n)
      BY <3>4, LenProperties
    <3>6. \A i \in 1..(m + n) : c[i] = IF i <= m THEN p[i] ELSE q[i - m]
      BY <3>2, ConcatProperties
    <3> HIDE DEF m, n
    <3>7. \A i \in 1..m : i \in 1..(m + n) /\ c[i] = p[i]
      BY <3>3, <3>6
    <3>8. \A i \in 1..n : i + m \in 1..(m + n) /\ c[i + m] = q[i]
      <4> TAKE i \in 1..n
      <4>1. i + m \in 1..(m + n) /\ ~(i + m <= m) /\ (i + m) - m = i
        BY <3>3
      <4> QED
        BY <3>6, <4>1
    <3>9. /\ \A i \in DOMAIN p : i \in DOMAIN c /\ c[i] = p[i]
          /\ \A i \in DOMAIN q : \E j \in DOMAIN c : c[j] = q[i]
      BY <3>3, <3>5, <3>7, <3>8
    <3> QED
      BY <3>9 DEF p, q, c
  <2> QED
    BY <2>2 DEF OnPage
<1>4. Backfilled(t)'
  <2>1. \A x : OnPage(t, x) \/ InReply(t, x) => OnPage(t, x)' \/ InReply(t, x)'
    <3>1. ASSUME NEW x, InReply(t, x)
          PROVE  OnPage(t, x)' \/ InReply(t, x)'
      <4> PICK q \in replies : /\ q.tab = t /\ q.kind = "history"
                               /\ \E i \in DOMAIN q.messages : q.messages[i] = x
        BY <3>1 DEF InReply
      <4>1. CASE q = r
        BY <1>3, <4>1
      <4>2. CASE q # r
        BY <1>1, <4>2 DEF InReply
      <4> QED
        BY <4>1, <4>2
    <3>2. ASSUME NEW x, OnPage(t, x)
          PROVE  OnPage(t, x)'
      BY <1>3, <3>2 DEF OnPage
    <3> QED
      BY <3>1, <3>2
  <2> QED
    BY <1>1, <2>1, BackfilledStays DEF PagesInv, LogGrows
<1>5. Followed(t)'
  <2>1. ASSUME NEW i \in DOMAIN log, OnPage(t, log[i]) \/ OnItsWay(t, log[i])
        PROVE  (OnPage(t, log[i]) \/ OnItsWay(t, log[i]))'
    <3>1. CASE OnPage(t, log[i])
      BY <1>1, <1>3, <3>1 DEF OnPage
    <3>2. CASE OnItsWay(t, log[i])
      BY <1>1, <3>2 DEF OnItsWay, wsVars
    <3> QED
      BY <2>1, <3>1, <3>2
  <2> QED
    BY <1>1, <2>1 DEF PagesInv, Followed, wsVars
<1>6. HistoryIsEnd'
  BY <1>1 DEF PagesInv, HistoryIsEnd
<1> QED
  BY <1>2, <1>4, <1>5, <1>6 DEF PagesInv

-----------------------------------------------------------------------------

(* GET /api/messages: the reply holds everything that the history still has. *)
LEMMA HandleHistoryPages ==
    ASSUME TypeInv, PagesInv, NEW r \in reqs, HandleHistory(r)
    PROVE  PagesInv'
<1>1. /\ UNCHANGED <<history, log, ss, since, down, wsVars, shown>>
      /\ served \in [Tabs -> Nat \cup {-1}] /\ r.kind = "history"
      /\ served' = [served EXCEPT ![r.tab] = Len(log)]
      /\ AnswerWith(r, TRUE, NoToken, history)
  BY DEF HandleHistory, serverVars, roomVars, hubVars, linkVars, TypeInv, TypeOK, TabTypeOK
<1>2. replies \subseteq replies'
  BY <1>1 DEF AnswerWith
<1>3. ASSUME NEW u \in Tabs, u # r.tab
      PROVE  Backfilled(u)' /\ Followed(u)'
  BY <1>1, <1>2, <1>3, TabStays DEF PagesInv, wsVars
<1>4. ASSUME NEW u \in Tabs, u = r.tab
      PROVE  Backfilled(u)' /\ Followed(u)'
  <2>1. served'[u] = Len(log)
    BY <1>1, <1>4
  <2>2. /\ log \in Seq(Message) /\ Len(log) \in Nat /\ DOMAIN log = 1..Len(log)
        /\ history \in Seq(Message) /\ Len(history) \in Nat
        /\ DOMAIN history = 1..Len(history) /\ MaxHistory \in Nat
    BY BoundsAssumption, LenProperties DEF TypeInv, TypeOK, ServerTypeOK
  <2>3. ASSUME NEW i \in DOMAIN log, Len(log) - MaxHistory < i
        PROVE  InReply(u, log[i])'
    <3> DEFINE j == i - (Len(log) - Len(history))
    <3>1. j \in 1..Len(history) /\ Len(log) - Len(history) + j = i
      <4>1. /\ Len(history) <= Len(log)
            /\ Len(history) = Len(log) \/ Len(history) = MaxHistory
        BY DEF PagesInv, HistoryIsEnd
      <4>2. i \in 1..Len(log) /\ Len(log) - MaxHistory < i
        BY <2>2, <2>3
      <4>3. \A a, b, k \in Nat : b <= a /\ (b = a \/ b = MaxHistory)
                                   /\ k \in 1..a /\ a - MaxHistory < k
              => k - (a - b) \in 1..b /\ a - b + (k - (a - b)) = k
        BY BoundsAssumption
      <4>4. Len(log) \in Nat /\ Len(history) \in Nat /\ i \in Nat
        BY <2>2, <4>2
      <4> QED
        BY <4>1, <4>2, <4>3, <4>4
    <3>2. j \in DOMAIN history /\ history[j] = log[i]
      BY <2>2, <3>1 DEF PagesInv, HistoryIsEnd
    <3> HIDE DEF j
    <3> DEFINE q == [kind |-> r.kind, tab |-> r.tab, ok |-> TRUE, token |-> NoToken,
                     name |-> r.name, messages |-> history]
    <3>3. q \in replies' /\ q.tab = u /\ q.kind = "history" /\ q.messages = history
      BY <1>1, <1>4, SetsAssumption DEF AnswerWith
    <3> QED
      BY <1>1, <3>2, <3>3 DEF InReply
  <2>4. Backfilled(u)'
    BY <1>1, <2>1, <2>2, <2>3 DEF Backfilled
  <2>5. Followed(u)'
    BY <1>1, <1>4 DEF PagesInv, Followed, OnPage, OnItsWay, wsVars
  <2> QED
    BY <2>4, <2>5
<1>5. HistoryIsEnd'
  BY <1>1 DEF PagesInv, HistoryIsEnd
<1> QED
  BY <1>3, <1>4, <1>5 DEF PagesInv

(* Room::addMessage: the history stays the end of the log. *)
LEMMA AddMessageHistory ==
    ASSUME TypeInv, HistoryIsEnd, NEW from \in Names, NEW by \in Names,
           AddMessage(from, by)
    PROVE  HistoryIsEnd'
<1> DEFINE m == [id |-> Len(log) + 1, from |-> from, by |-> by]
           h == Append(history, m)
<1>1. /\ log \in Seq(Message) /\ Len(log) \in Nat
      /\ history \in Seq(Message) /\ Len(history) \in Nat
      /\ MaxHistory \in Nat /\ MaxHistory # 0
  BY BoundsAssumption, LenProperties DEF TypeInv, TypeOK, ServerTypeOK
<1>2. m \in Message
  BY <1>1 DEF Message
<1>3. log' = Append(log, m) /\ history' = IF Len(h) > MaxHistory THEN Tail(h) ELSE h
  BY DEF AddMessage, Trimmed
<1> HIDE DEF m
<1>4. /\ Len(log') = Len(log) + 1 /\ log'[Len(log) + 1] = m
      /\ \A i \in 1..Len(log) : log'[i] = log[i]
  BY <1>1, <1>2, <1>3, AppendProperties
<1>5. /\ h \in Seq(Message) /\ h # <<>> /\ Len(h) = Len(history) + 1
      /\ h[Len(history) + 1] = m
      /\ \A i \in 1..Len(history) : h[i] = history[i]
  BY <1>1, <1>2, AppendProperties
<1> HIDE DEF h
<1>6. /\ Len(history) <= Len(log) /\ Len(history) <= MaxHistory
      /\ Len(history) = Len(log) \/ Len(history) = MaxHistory
      /\ \A j \in 1..Len(history) : history[j] = log[Len(log) - Len(history) + j]
  BY DEF HistoryIsEnd
<1>7. \A j \in 1..(Len(history) + 1) : h[j] = log'[Len(log) - Len(history) + j]
  <2> TAKE j \in 1..(Len(history) + 1)
  <2>1. CASE j = Len(history) + 1
    <3>1. Len(log) - Len(history) + j = Len(log) + 1
      BY <1>1, <2>1
    <3> QED
      BY <1>4, <1>5, <2>1, <3>1
  <2>2. CASE j \in 1..Len(history)
    <3>1. Len(log) - Len(history) + j \in 1..Len(log)
      BY <1>1, <1>6, <2>2
    <3> QED
      BY <1>4, <1>5, <1>6, <2>2, <3>1
  <2> QED
    BY <1>1, <2>1, <2>2
<1>8. CASE Len(history) = MaxHistory
  <2>1. history' = Tail(h)
    BY <1>1, <1>3, <1>5, <1>8
  <2>2. /\ Len(history') = Len(history)
        /\ \A j \in 1..Len(history) : history'[j] = h[j + 1]
    BY <1>1, <1>5, <2>1, HeadTailProperties
  <2>3. \A j \in 1..Len(history) : history'[j] = log'[Len(log) + 1 - Len(history) + j]
    <3> TAKE j \in 1..Len(history)
    <3>1. /\ j + 1 \in 1..(Len(history) + 1)
          /\ Len(log) - Len(history) + (j + 1) = Len(log) + 1 - Len(history) + j
      BY <1>1
    <3> QED
      BY <1>7, <2>2, <3>1
  <2>4. \A j \in 1..Len(history') : history'[j] = log'[Len(log') - Len(history') + j]
    BY <1>4, <2>2, <2>3
  <2>5. Len(history') <= Len(log') /\ Len(history') = MaxHistory
    BY <1>1, <1>4, <1>6, <1>8, <2>2
  <2> QED
    BY <1>1, <2>4, <2>5 DEF HistoryIsEnd
<1>9. CASE Len(history) # MaxHistory
  <2>1. history' = h /\ Len(history) = Len(log)
    BY <1>1, <1>3, <1>5, <1>6, <1>9
  <2> QED
    BY <1>1, <1>4, <1>5, <1>6, <1>7, <1>9, <2>1, SMTT(30) DEF HistoryIsEnd
<1> QED
  BY <1>8, <1>9

(* A broadcast puts the message on the way to every tab that follows. *)
LEMMA AddMessagePages ==
    ASSUME TypeInv, PagesInv, NEW from \in Names, NEW by \in Names, AddMessage(from, by),
           UNCHANGED <<ss, since, wsVars, shown, served, replies>>
    PROVE  PagesInv'
<1> DEFINE m == [id |-> Len(log) + 1, from |-> from, by |-> by]
           f == [type |-> "chat", message |-> m]
<1>1. log \in Seq(Message) /\ Len(log) \in Nat /\ down \in [Sockets -> Seq(DownFrame)]
  BY LenProperties DEF TypeInv, TypeOK, ServerTypeOK, WireTypeOK
<1>2. m \in Message /\ f \in DownFrame /\ f.type = "chat" /\ f.message = m
  BY <1>1 DEF Message, DownFrame
<1>3. /\ log' = Append(log, m)
      /\ down' = [s \in Sockets |-> IF InHub(s) /\ Linked(s) THEN Append(down[s], f)
                                                             ELSE down[s]]
  BY DEF AddMessage
<1> HIDE DEF m, f
<1>4. LogGrows
  BY <1>2, <1>3 DEF LogGrows
<1>5. ASSUME NEW u \in Tabs
      PROVE  Backfilled(u)'
  BY <1>4, <1>5, BackfilledStays DEF PagesInv, OnPage, InReply
<1>6. ASSUME NEW u \in Tabs, ready[u] \in {"connecting", "open"}, ss[ws[u]] = "hub"
      PROVE  Followed(u)'
  <2> DEFINE s == ws[u]
  <2>1. s \in Sockets /\ InHub(s) /\ Linked(s)
    BY <1>6, SocketOf DEF InHub, Linked
  <2>2. down'[s] = Append(down[s], f) /\ down[s] \in Seq(DownFrame)
    BY <1>1, <1>3, <2>1
  <2>3. /\ since[s] <= Len(log)
        /\ \A i \in DOMAIN log : since[s] < i => OnPage(u, log[i]) \/ OnItsWay(u, log[i])
        /\ ready[u] = "connecting" => down[s] # <<>> /\ Head(down[s]).type = "101"
    BY <1>6 DEF PagesInv, Followed
  <2> HIDE DEF s
  <2>4. /\ \A i \in DOMAIN down[s] : i \in DOMAIN down'[s] /\ down'[s][i] = down[s][i]
        /\ \E i \in DOMAIN down'[s] : down'[s][i] = f
        /\ down'[s] # <<>>
        /\ down[s] # <<>> => Head(down'[s]) = Head(down[s])
    BY <1>2, <2>2, AppendProperties, LenProperties, HeadTailAppend
  <2>5. ASSUME NEW x, OnPage(u, x) \/ OnItsWay(u, x)
        PROVE  OnPage(u, x)' \/ OnItsWay(u, x)'
    BY <2>4, <2>5 DEF OnPage, OnItsWay, wsVars, s
  <2>6. \A x : x = m => OnItsWay(u, x)'
    BY <1>2, <2>4 DEF OnItsWay, wsVars, s
  <2>7. ASSUME NEW i \in DOMAIN log', since[s] < i
        PROVE  (OnPage(u, log[i]) \/ OnItsWay(u, log[i]))'
    <3>1. CASE i \in DOMAIN log
      <4>1. log'[i] = log[i]
        BY <1>1, <1>4, <3>1, LogKeeps
      <4>2. \A x : x = log[i] => OnPage(u, x)' \/ OnItsWay(u, x)'
        BY <2>3, <2>5, <2>7, <3>1
      <4> QED
        BY <4>1, <4>2 DEF OnPage, OnItsWay
    <3>2. CASE i \notin DOMAIN log
      <4>1. i = Len(log) + 1
        BY <1>1, <1>2, <1>3, <2>7, <3>2, AppendProperties, LenProperties
      <4>2. log'[i] = m
        BY <1>1, <1>2, <1>3, <4>1, AppendProperties
      <4> QED
        BY <2>6, <4>2 DEF OnItsWay
    <3> QED
      BY <3>1, <3>2
  <2>8. since[s] <= Len(log')
    <3>1. since[s] \in Nat
      BY <2>1 DEF s, TypeInv, TypeOK, ServerTypeOK
    <3> QED
      BY <1>1, <1>4, <2>3, <3>1, LogKeeps
  <2> QED
    BY <2>3, <2>4, <2>7, <2>8 DEF Followed, wsVars, s
<1>7. ASSUME NEW u \in Tabs
      PROVE  Followed(u)'
  <2>1. CASE ready[u] \in {"connecting", "open"} /\ ss[ws[u]] = "hub"
    BY <1>6, <2>1
  <2>2. CASE ~(ready[u] \in {"connecting", "open"} /\ ss[ws[u]] = "hub")
    BY <2>2 DEF Followed, wsVars
  <2> QED
    BY <2>1, <2>2
<1> QED
  BY <1>5, <1>7, AddMessageHistory DEF PagesInv

(* A socket that is not in the hub, or leaves it, is followed by nobody. *)
LEMMA OutsideHubPages ==
    ASSUME TypeInv, PagesInv, NEW s \in Sockets, ss'[s] # "hub",
           \A x \in Sockets \ {s} :
              ss'[x] = ss[x] /\ since'[x] = since[x] /\ down'[x] = down[x],
           UNCHANGED <<history, log, wsVars, shown, served, replies>>
    PROVE  PagesInv'
<1>1. ASSUME NEW u \in Tabs
      PROVE  Backfilled(u)' /\ Followed(u)'
  <2>1. CASE ready[u] \notin {"connecting", "open"} \/ ws[u] = s
    BY <1>1, <2>1, TabStays DEF PagesInv, wsVars
  <2>2. CASE ready[u] \in {"connecting", "open"} /\ ws[u] # s
    <3>1. ws[u] \in Sockets \ {s}
      BY <2>2, SocketOf
    <3> QED
      BY <1>1, <3>1, TabStays DEF PagesInv, wsVars
  <2> QED
    BY <2>1, <2>2
<1>2. HistoryIsEnd'
  BY DEF PagesInv, HistoryIsEnd
<1> QED
  BY <1>1, <1>2 DEF PagesInv

(* WsHub::adoptConnection: the 101 is the first thing on the socket, and its *)
(* tab follows the room from here on.                                      *)
LEMMA AdoptPages ==
    ASSUME TypeInv, LinkInv, PagesInv, NEW s \in Sockets, Adopt(s)
    PROVE  PagesInv'
<1>1. /\ ss[s] = "switching" /\ since' = [since EXCEPT ![s] = Len(log)]
      /\ ss' = [ss EXCEPT ![s] = "hub"]
      /\ down' = [down EXCEPT ![s] = IF Linked(s) THEN Greeting ELSE @]
      /\ since \in [Sockets -> Nat] /\ down \in [Sockets -> Seq(DownFrame)]
      /\ ss \in [Sockets -> {"none", "asked", "refused", "switching", "hub", "closing"}]
      /\ UNCHANGED <<history, log, wsVars, shown, served, replies>>
  BY DEF Adopt, roomVars, tabVars, pageVars, httpVars, TypeInv, TypeOK, ServerTypeOK,
     WireTypeOK
<1>2. log \in Seq(Message) /\ Len(log) \in Nat /\ DOMAIN log = 1..Len(log)
  BY LenProperties DEF TypeInv, TypeOK, ServerTypeOK
<1>3. ASSUME NEW u \in Tabs
      PROVE  Backfilled(u)' /\ Followed(u)'
  <2>1. CASE ready[u] \notin {"connecting", "open"}
    BY <1>1, <1>3, <2>1, TabStays DEF PagesInv, wsVars
  <2>2. CASE ready[u] \in {"connecting", "open"} /\ ws[u] # s
    <3>1. ws[u] \in Sockets
      BY <2>2, SocketOf
    <3>2. /\ ss'[ws[u]] = ss[ws[u]] /\ since'[ws[u]] = since[ws[u]]
          /\ down'[ws[u]] = down[ws[u]]
      BY <1>1, <2>2, <3>1
    <3> QED
      BY <1>1, <1>3, <3>2, TabStays DEF PagesInv, wsVars
  <2>3. CASE ready[u] \in {"connecting", "open"} /\ ws[u] = s
    <3>1. Linked(s) /\ ready[u] = "connecting"
      BY <1>1, <2>3 DEF Linked, LinkInv, TabLink, Talking
    <3>2. down'[s] = <<[type |-> "101"]>> /\ since'[s] = Len(log)
      BY <1>1, <3>1 DEF Greeting
    <3>3. down'[s] # <<>> /\ Head(down'[s]).type = "101"
      BY <3>2
    <3>4. Followed(u)'
      BY <1>1, <1>2, <2>3, <3>2, <3>3 DEF Followed, wsVars
    <3>5. Backfilled(u)'
      BY <1>1, <1>3, BackfilledStays DEF PagesInv, OnPage, InReply, LogGrows
    <3> QED
      BY <3>4, <3>5
  <2> QED
    BY <2>1, <2>2, <2>3
<1>4. HistoryIsEnd'
  BY <1>1 DEF PagesInv, HistoryIsEnd
<1> QED
  BY <1>3, <1>4 DEF PagesInv

(* The other things that happen to a socket at the server. *)
LEMMA HubPages ==
    ASSUME AuthorInv, PagesInv, NEW s \in Sockets, Hub(s)
    PROVE  PagesInv'
<1>1. TypeInv /\ LinkInv /\ ServerTypeOK /\ WireTypeOK
  BY DEF AuthorInv, TokenInv, SessionInv, TypeInv, TypeOK
<1>2. CASE Upgrade(s) \/ HandleClose(s) \/ Forget(s)
  <2>1. /\ ss'[s] # "hub"
        /\ \A x \in Sockets \ {s} :
              ss'[x] = ss[x] /\ since'[x] = since[x] /\ down'[x] = down[x]
    BY <1>1, <1>2 DEF Upgrade, Verdict, HandleClose, Forget, linkVars, ServerTypeOK, WireTypeOK
  <2>2. UNCHANGED <<history, log, wsVars, shown, served, replies>>
    BY <1>2 DEF Upgrade, HandleClose, Forget, roomVars, tabVars, pageVars, httpVars
  <2> QED
    BY <1>1, <2>1, <2>2, OutsideHubPages
<1>3. CASE HandleText(s)
  <2>1. up[s] \in Seq(UpFrame) /\ up[s] # <<>> /\ Head(up[s]).type = "text"
    BY <1>1, <1>3 DEF HandleText, WireTypeOK
  <2>2. wsUser[s] \in Names /\ Head(up[s]) \in UpFrame
    BY <1>1, <1>3, <2>1, HeadTailProperties DEF HandleText, InHub, TypeInv, HubKnowsUser
  <2>3. Head(up[s]).by \in Names
    BY <2>1, <2>2 DEF UpFrame
  <2>4. /\ AddMessage(wsUser[s], Head(up[s]).by)
        /\ UNCHANGED <<ss, since, wsVars, shown, served, replies>>
    BY <1>3 DEF HandleText, hubVars, tabVars, pageVars, httpVars
  <2> QED
    BY <1>1, <2>2, <2>3, <2>4, AddMessagePages
<1> QED
  BY <1>1, <1>2, <1>3, AdoptPages DEF Hub

(* The routes. *)
LEMMA HandlerPages ==
    ASSUME AuthorInv, PagesInv, NEW r \in reqs, Handler(r)
    PROVE  PagesInv'
<1>1. TypeInv /\ r.name \in Names /\ ServerTypeOK
  BY RequestParts DEF AuthorInv, TokenInv, SessionInv, TypeInv, TypeOK
<1>2. CASE HandleLogin(r) \/ Unauthorized(r) \/ HandleLogout(r)
  <2>1. UNCHANGED <<history, log, ss, since, down, wsVars, shown, served>>
    BY <1>2 DEF HandleLogin, Unauthorized, HandleLogout, serverVars, roomVars, hubVars,
       linkVars, tabVars, pageVars
  <2>2. replies \subseteq replies'
    BY <1>2 DEF HandleLogin, Unauthorized, HandleLogout, Answer, AnswerWith
  <2> QED
    BY <1>1, <2>1, <2>2, PagesStay
<1>3. CASE HandlePost(r)
  <2>1. Lookup(r.token) \in Names
    BY <1>1, <1>3 DEF HandlePost, Lookup, ServerTypeOK
  <2>2. UNCHANGED <<ss, since, wsVars, shown, served, replies>>
    BY <1>3 DEF HandlePost, Answer, AnswerWith, hubVars, tabVars, pageVars
  <2> QED
    BY <1>1, <1>3, <2>1, <2>2, AddMessagePages DEF HandlePost
<1> QED
  BY <1>1, <1>2, <1>3, HandleHistoryPages DEF Handler

(* A page is opened, and has neither its history nor a WebSocket yet. *)
LEMMA LoadChatPages ==
    ASSUME TypeInv, LinkInv, PagesInv, NEW t \in Tabs, NEW tok, NEW n,
           LoadChat(t, tok, n), UNCHANGED roomVars
    PROVE  PagesInv'
<1>1. /\ served \in [Tabs -> Nat \cup {-1}] /\ shown \in [Tabs -> Seq(Message)]
  BY DEF TypeInv, TypeOK, TabTypeOK
<1>2. \A u \in Tabs :
        \/ u = t /\ served'[u] = -1
        \/ /\ served'[u] = served[u] /\ shown'[u] = shown[u]
           /\ \A r \in replies : r.tab = u /\ r.kind = "history" => r \in replies'
  BY <1>1 DEF LoadChat, NotFor
<1>3. Connect(t, tok) /\ down' = Unread(t) /\ UNCHANGED <<history, log, since>>
  BY DEF LoadChat, roomVars
<1> QED
  BY <1>2, <1>3, ConnectPages

(* A page goes away with its history and its WebSocket. *)
LEMMA LeavePagePages ==
    ASSUME TypeInv, LinkInv, PagesInv, NEW t \in Tabs, NEW to, LeavePage(t, to)
    PROVE  PagesInv'
<1>1. /\ served \in [Tabs -> Nat \cup {-1}] /\ shown \in [Tabs -> Seq(Message)]
  BY DEF TypeInv, TypeOK, TabTypeOK
<1>2. \A u \in Tabs :
        \/ u = t /\ served'[u] = -1
        \/ /\ served'[u] = served[u] /\ shown'[u] = shown[u]
           /\ \A r \in replies : r.tab = u /\ r.kind = "history" => r \in replies'
  BY <1>1 DEF LeavePage, NotFor
<1>3. Hangup(t) /\ UNCHANGED <<history, log, ss, since>>
  BY DEF LeavePage, serverVars, roomVars, hubVars
<1> QED
  BY <1>2, <1>3, HangupPages

(* The visitors. *)
LEMMA VisitorPages ==
    ASSUME TypeInv, LinkInv, PagesInv, NEW t \in Tabs, Visitor(t)
    PROVE  PagesInv'
<1>1. CASE \/ \E n \in Names : SubmitLogin(t, n)
           \/ Say(t) \/ Post(t)
  <2>1. UNCHANGED <<history, log, ss, since, down, wsVars, shown, served, replies>>
    BY <1>1 DEF SubmitLogin, Say, Post, serverVars, roomVars, hubVars, linkVars, tabVars,
       pageVars, httpVars
  <2> QED
    BY <2>1, PagesStay
<1>2. CASE ClickLogout(t)
  <2>1. UNCHANGED <<history, log, ss, since, shown, served, replies>>
    BY <1>2 DEF ClickLogout, serverVars, roomVars, hubVars, pageVars
  <2>2. CASE Hangup(t)
    BY <2>1, <2>2, HangupPages
  <2>3. CASE ready' = [ready EXCEPT ![t] = "closing"] /\ UNCHANGED <<ws, down>>
    <3>1. ASSUME NEW u \in Tabs
          PROVE  Backfilled(u)' /\ Followed(u)'
      <4>1. ready'[u] = ready[u] \/ ready'[u] \notin {"connecting", "open"}
        BY <2>3 DEF TypeInv, TypeOK, TabTypeOK
      <4> QED
        BY <2>1, <2>3, <4>1, TabStays DEF PagesInv
    <3> QED
      BY <2>1, <3>1 DEF PagesInv, HistoryIsEnd
  <2>4. CASE UNCHANGED <<wsVars, linkVars>>
    BY <2>1, <2>4, PagesStay DEF linkVars
  <2> QED
    BY <1>2, <2>2, <2>3, <2>4 DEF ClickLogout
<1>3. CASE Reload(t)
  BY <1>3, LoadChatPages DEF Reload
<1>4. CASE Leave(t)
  BY <1>4, LeavePagePages DEF Leave
<1> QED
  BY <1>1, <1>2, <1>3, <1>4 DEF Visitor

(* The replies that a page reads. *)
LEMMA ReadingPages ==
    ASSUME TypeInv, LinkInv, PagesInv, NEW t \in Tabs, Reading(t)
    PROVE  PagesInv'
<1> PICK r \in replies : LoginReply(t, r) \/ HistoryReply(t, r) \/ LogoutReply(t, r)
  BY DEF Reading
<1>1. CASE LoginReply(t, r)
  <2>1. CASE r.ok /\ LoadChat(t, r.token, r.name)
    BY <1>1, <2>1, LoadChatPages DEF LoginReply
  <2>2. CASE ~r.ok
    <3>1. UNCHANGED <<history, log, ss, since, down, wsVars, shown, served>>
          /\ r.kind = "login" /\ replies' = replies \ {r}
      BY <1>1, <2>2 DEF LoginReply, roomVars, hubVars, linkVars, tabVars, pageVars
    <3> QED
      BY <3>1, PagesStay
  <2> QED
    BY <1>1, <2>1, <2>2 DEF LoginReply
<1>2. CASE HistoryReply(t, r)
  BY <1>2, HistoryReplyPages
<1>3. CASE LogoutReply(t, r)
  BY <1>3, LeavePagePages DEF LogoutReply
<1> QED
  BY <1>1, <1>2, <1>3

(* What happens on a tab's WebSocket. *)
LEMMA WebSocketPages ==
    ASSUME TypeInv, LinkInv, PagesInv, NEW t \in Tabs, WebSocket(t) \/ Break(t)
    PROVE  PagesInv'
<1>1. CASE Receive(t)
  BY <1>1, ReceivePages
<1>2. CASE Refused(t) \/ Break(t)
  <2>1. Hangup(t) /\ UNCHANGED <<history, log, ss, since, shown, served, replies>>
    BY <1>2 DEF Refused, Break, serverVars, roomVars, hubVars, pageVars, httpVars
  <2> QED
    BY <2>1, HangupPages
<1>3. CASE Reconnect(t)
  <2>1. UNCHANGED <<history, log, since, down, shown, served, replies>>
    BY <1>3 DEF Reconnect, roomVars, linkVars, pageVars, httpVars
  <2>2. ws[t] = None /\ None \notin Sockets /\ down \in [Sockets -> Seq(DownFrame)]
    BY <1>3, SocketOf, SetsAssumption DEF Reconnect, TypeInv, TypeOK, WireTypeOK
  <2>3. down' = Unread(t)
    BY <2>1, <2>2 DEF Unread
  <2>4. Connect(t, token[t])
    BY <1>3 DEF Reconnect
  <2> QED
    BY <2>1, <2>3, <2>4, ConnectPages
<1> QED
  BY <1>1, <1>2, <1>3 DEF WebSocket

-----------------------------------------------------------------------------

(* Every step leaves every page with all it should have. *)
LEMMA NextKeepsHistory ==
    ASSUME MaxRestarts = 0, HistoryInv, [Next]_vars
    PROVE  HistoryInv'
<1>1. AuthorInv' /\ AuthorInv /\ TypeInv /\ LinkInv /\ PagesInv
  BY NextKeepsLinks DEF HistoryInv, AuthorInv, TokenInv, SessionInv
<1>2. ASSUME UNCHANGED vars PROVE PagesInv'
  BY <1>1, <1>2, PagesStay
     DEF vars, serverVars, roomVars, hubVars, linkVars, tabVars, pageVars, httpVars
<1>3. ~Restart
  BY <1>1, NoRestart
<1>4. PagesInv'
  BY <1>1, <1>2, <1>3, VisitorPages, ReadingPages, WebSocketPages, HandlerPages, HubPages
     DEF Next
<1> QED
  BY <1>1, <1>4 DEF HistoryInv

(* What the invariant says of the two ways by which messages come.         *)
LEMMA HistoryMisses == HistoryInv => OnlyGapsAreMissed
<1> SUFFICES ASSUME HistoryInv, NEW t \in Tabs, NEW i \in Backfill(t) \cup Follow(t)
             PROVE  log[i] \in Has(t)
  BY DEF OnlyGapsAreMissed
<1>1. /\ Backfilled(t) /\ Followed(t) /\ log \in Seq(Message)
      /\ served[t] \in Nat \cup {-1}
  BY DEF HistoryInv, PagesInv, AuthorInv, TokenInv, SessionInv, TypeInv, TypeOK,
     ServerTypeOK, TabTypeOK
<1>2. /\ i \in DOMAIN log /\ i \in Nat /\ MaxHistory \in Nat
  BY <1>1, LenProperties, BoundsAssumption DEF Backfill, Follow
<1>3. \/ OnPage(t, log[i]) \/ InReply(t, log[i])
      \/ Following(t) /\ OnItsWay(t, log[i])
  <2>1. CASE i \in Backfill(t)
    <3>1. 0 <= served[t] /\ served[t] - MaxHistory < i /\ i <= served[t]
      BY <1>1, <1>2, <2>1 DEF Backfill
    <3> QED
      BY <1>1, <1>2, <3>1 DEF Backfilled
  <2>2. CASE i \in Follow(t)
    BY <1>1, <1>2, <2>2 DEF Follow, Following, Followed
  <2> QED
    BY <2>1, <2>2
<1>4. OnPage(t, log[i]) => log[i] \in Has(t)
  BY DEF OnPage, Has
<1>5. ASSUME InReply(t, log[i]) PROVE log[i] \in Has(t)
  <2> PICK r \in replies : /\ r.tab = t /\ r.kind = "history"
                           /\ \E j \in DOMAIN r.messages : r.messages[j] = log[i]
    BY <1>5 DEF InReply
  <2>1. r \in {q \in replies : q.tab = t /\ q.kind = "history"}
        /\ log[i] \in {r.messages[j] : j \in DOMAIN r.messages}
    OBVIOUS
  <2>2. log[i] \in UNION {{q.messages[j] : j \in DOMAIN q.messages} :
                           q \in {p \in replies : p.tab = t /\ p.kind = "history"}}
    BY <2>1
  <2> QED
    BY <2>2 DEF Has
<1>6. ASSUME Following(t), OnItsWay(t, log[i]) PROVE log[i] \in Has(t)
  <2>0. ws[t] # None
    BY <1>6, SocketOf
       DEF Following, HistoryInv, AuthorInv, TokenInv, SessionInv
  <2> PICK j \in DOMAIN down[ws[t]] :
         down[ws[t]][j].type = "chat" /\ down[ws[t]][j].message = log[i]
    BY <1>6 DEF OnItsWay
  <2>1. down[ws[t]][j] \in {g \in Pushed(ws[t]) : g.type = "chat"}
    BY <2>0 DEF Pushed
  <2>2. log[i] \in {f.message : f \in {g \in Pushed(ws[t]) : g.type = "chat"}}
    BY <2>1
  <2> QED
    BY <2>2 DEF Has
<1> QED
  BY <1>3, <1>4, <1>5, <1>6

(* OnlyGapsAreMissed, within one run of the server, for any number of tabs, *)
(* names, sockets, messages and any length of the history: what was in the *)
(* history when it was read, and what was posted since the WebSocket was   *)
(* adopted, is on the page or on its way, in whatever order they come.     *)
(* What is posted between the two, or while the WebSocket is down, is lost *)
(* to the page: that gap the code has.                                     *)
THEOREM MissesOnlyGaps ==
    ASSUME MaxRestarts = 0
    PROVE  Spec => []OnlyGapsAreMissed
<1>1. Init => HistoryInv
  <2>1. Init => LinkInv
    BY DEF Init, LinkInv, TabLink, SentAs, Dangling
  <2>2. Init => PagesInv
    <3> SUFFICES ASSUME Init PROVE PagesInv
      OBVIOUS
    <3>1. HistoryIsEnd
      BY BoundsAssumption DEF Init, HistoryIsEnd
    <3> QED
      BY <3>1 DEF Init, PagesInv, Backfilled, Followed
  <2> QED
    BY <2>1, <2>2, InitTokens DEF HistoryInv, AuthorInv
<1>2. HistoryInv /\ [Next]_vars => HistoryInv'
  BY NextKeepsHistory
<1> QED
  BY <1>1, <1>2, HistoryMisses, PTL DEF Spec

-----------------------------------------------------------------------------
(* The order of what comes over the WebSockets.                            *)

(* Chats that wait on a socket are in the room's order; a socket that no   *)
(* page holds has nothing under way.                                       *)
SocketOrder(s) ==
    /\ \A k \in DOMAIN down[s] :
          down[s][k].type = "chat" => down[s][k].message.id <= Len(log)
    /\ \A j, k \in DOMAIN down[s] :
          j < k /\ down[s][j].type = "chat" /\ down[s][k].type = "chat"
          => down[s][j].message.id < down[s][k].message.id
    /\ ~Linked(s) => down[s] = <<>>

(* What a page has beyond its history is in order, and before what waits.  *)
PageOrder(t) ==
    /\ served[t] <= Len(log)
    /\ \A i \in DOMAIN shown[t] : shown[t][i].id <= Len(log)
    /\ \A i, j \in DOMAIN shown[t] :
          i < j /\ shown[t][i].id > served[t] /\ shown[t][j].id > served[t]
          => shown[t][i].id < shown[t][j].id
    /\ ws[t] # None => \A i \in DOMAIN shown[t], k \in DOMAIN down[ws[t]] :
          shown[t][i].id > served[t] /\ down[ws[t]][k].type = "chat"
          => shown[t][i].id < down[ws[t]][k].message.id

(* A reply with the history holds nothing younger than its reading.        *)
ReplyOrder ==
    /\ \A i \in DOMAIN history : history[i].id <= Len(log)
    /\ \A r \in replies : r.kind = "history" =>
          \A i \in DOMAIN r.messages : r.messages[i].id <= served[r.tab]

OrderInv ==
    ReplyOrder /\ (\A s \in Sockets : SocketOrder(s)) /\ (\A t \in Tabs : PageOrder(t))

(* A step that shows nothing new and has no chat under way that was not.   *)
LEMMA NothingNew ==
    ASSUME OrderInv, TypeInv, TypeInv', log' = log, history' = history \/ history' = <<>>,
           \A s \in Sockets :
              /\ \A k \in DOMAIN down'[s] : down'[s][k].type = "chat"
                    => k \in DOMAIN down[s] /\ down'[s][k] = down[s][k]
              /\ ~Linked(s)' => down'[s] = <<>>,
           \A t \in Tabs :
              /\ \/ shown'[t] = shown[t] /\ served'[t] = served[t]
                 \/ shown'[t] = <<>> /\ served'[t] = -1
              /\ ws'[t] \in {ws[t], None} \/ down'[ws'[t]] = <<>>,
           \A r \in replies' : r.kind = "history" =>
              r.messages = <<>> \/ (r \in replies /\ served'[r.tab] = served[r.tab])
    PROVE  OrderInv'
<1>1. Len(log) \in Nat /\ DOMAIN <<>> = {}
  BY LenProperties DEF TypeInv, TypeOK, ServerTypeOK
<1>2. ReplyOrder'
  <2>1. \A i \in DOMAIN history' : history'[i].id <= Len(log')
    BY <1>1 DEF OrderInv, ReplyOrder
  <2>2. ASSUME NEW r \in replies', r.kind = "history", NEW i \in DOMAIN r.messages
        PROVE  r.messages[i].id <= served'[r.tab]
    BY <1>1, <2>2 DEF OrderInv, ReplyOrder
  <2> QED
    BY <2>1, <2>2 DEF ReplyOrder
<1>3. ASSUME NEW s \in Sockets PROVE SocketOrder(s)'
  BY <1>3 DEF OrderInv, SocketOrder
<1>4. ASSUME NEW t \in Tabs PROVE PageOrder(t)'
  <2>1. served'[t] <= Len(log') /\ \A i \in DOMAIN shown'[t] : shown'[t][i].id <= Len(log')
    BY <1>1, <1>4 DEF OrderInv, PageOrder
  <2>2. \A i, j \in DOMAIN shown'[t] :
          i < j /\ shown'[t][i].id > served'[t] /\ shown'[t][j].id > served'[t]
          => shown'[t][i].id < shown'[t][j].id
    BY <1>1, <1>4 DEF OrderInv, PageOrder
  <2>3. ASSUME ws'[t] # None, NEW i \in DOMAIN shown'[t], NEW k \in DOMAIN down'[ws'[t]],
               shown'[t][i].id > served'[t], down'[ws'[t]][k].type = "chat"
        PROVE  shown'[t][i].id < down'[ws'[t]][k].message.id
    <3>1. ws'[t] = ws[t] /\ shown'[t] = shown[t] /\ served'[t] = served[t]
      BY <1>1, <1>4, <2>3
    <3>2. ws[t] \in Sockets
      BY <1>4, <2>3, <3>1, SocketOf
    <3>3. k \in DOMAIN down[ws[t]] /\ down'[ws[t]][k] = down[ws[t]][k]
      BY <2>3, <3>1, <3>2
    <3> QED
      BY <1>4, <2>3, <3>1, <3>3 DEF OrderInv, PageOrder
  <2> QED
    BY <2>1, <2>2, <2>3 DEF PageOrder
<1> QED
  BY <1>2, <1>3, <1>4 DEF OrderInv

(* A step that is not about messages at all.                               *)
LEMMA OrderSame ==
    ASSUME OrderInv, TypeInv, TypeInv', UNCHANGED <<log, history, down, shown, served, ws>>,
           \A r \in replies' : r.kind = "history" => r.messages = <<>> \/ r \in replies
    PROVE  OrderInv'
<1>1. \A s \in Sockets : ~Linked(s)' => down'[s] = <<>>
  BY DEF OrderInv, SocketOrder, Linked
<1> QED
  BY <1>1, NothingNew

(* A tab's end of its socket is closed.                                    *)
LEMMA HangupOrder ==
    ASSUME OrderInv, TypeInv, TypeInv', NEW t \in Tabs, Hangup(t), UNCHANGED <<log, history>>,
           \A u \in Tabs :
              \/ shown'[u] = shown[u] /\ served'[u] = served[u]
              \/ u = t /\ shown'[u] = <<>> /\ served'[u] = -1,
           \A r \in replies' : r \in replies /\ served'[r.tab] = served[r.tab]
    PROVE  OrderInv'
<1>1. /\ ws' = [ws EXCEPT ![t] = None]
      /\ down' = [s \in Sockets |-> IF s = ws[t] THEN <<>> ELSE down[s]]
      /\ ws \in [Tabs -> Sockets \cup {None}] /\ DOMAIN <<>> = {}
  BY DEF Hangup, Unread, TypeInv, TypeOK, TabTypeOK
<1>2. ASSUME NEW s \in Sockets
      PROVE  /\ \A k \in DOMAIN down'[s] : down'[s][k].type = "chat"
                    => k \in DOMAIN down[s] /\ down'[s][k] = down[s][k]
             /\ ~Linked(s)' => down'[s] = <<>>
  <2>1. ASSUME ~Linked(s)', s # ws[t] PROVE ~Linked(s)
    BY <1>1, <2>1 DEF Linked
  <2> QED
    BY <1>1, <1>2, <2>1 DEF OrderInv, SocketOrder
<1>3. \A u \in Tabs : ws'[u] \in {ws[u], None}
  BY <1>1
<1> QED
  BY <1>2, <1>3, NothingNew

(* A tab dials on a free socket.                                           *)
LEMMA ConnectOrder ==
    ASSUME OrderInv, TypeInv, TypeInv', NEW t \in Tabs, NEW tok, Connect(t, tok),
           down' = Unread(t), UNCHANGED <<log, history>>,
           \A u \in Tabs :
              \/ shown'[u] = shown[u] /\ served'[u] = served[u]
              \/ u = t /\ shown'[u] = <<>> /\ served'[u] = -1,
           \A r \in replies' : r \in replies /\ served'[r.tab] = served[r.tab]
    PROVE  OrderInv'
<1> PICK x \in Sockets : ~Linked(x) /\ ws' = [ws EXCEPT ![t] = x]
  BY DEF Connect
<1>1. /\ down' = [s \in Sockets |-> IF s = ws[t] THEN <<>> ELSE down[s]]
      /\ ws \in [Tabs -> Sockets \cup {None}] /\ DOMAIN <<>> = {}
  BY DEF Unread, TypeInv, TypeOK, TabTypeOK
<1>2. ASSUME NEW s \in Sockets
      PROVE  /\ \A k \in DOMAIN down'[s] : down'[s][k].type = "chat"
                    => k \in DOMAIN down[s] /\ down'[s][k] = down[s][k]
             /\ ~Linked(s)' => down'[s] = <<>>
  <2>1. ASSUME ~Linked(s)', s # ws[t] PROVE ~Linked(s)
    BY <1>1, <2>1 DEF Linked
  <2> QED
    BY <1>1, <1>2, <2>1 DEF OrderInv, SocketOrder
<1>3. ASSUME NEW u \in Tabs
      PROVE  ws'[u] \in {ws[u], None} \/ down'[ws'[u]] = <<>>
  <2>1. down'[x] = <<>>
    BY <1>1 DEF OrderInv, SocketOrder
  <2> QED
    BY <1>1, <2>1
<1> QED
  BY <1>2, <1>3, NothingNew

(* The history is appended to the page: all of it is no younger than its   *)
(* reading.                                                                *)
LEMMA HistoryReplyOrder ==
    ASSUME OrderInv, TypeInv, TypeInv', NEW t \in Tabs, NEW r \in replies, HistoryReply(t, r)
    PROVE  OrderInv'
<1>1. /\ r.tab = t /\ r.kind = "history" /\ replies' = replies \ {r}
      /\ shown' = [shown EXCEPT ![t] = @ \o r.messages]
      /\ UNCHANGED <<log, history, ws, down, served>>
  BY DEF HistoryReply, serverVars, roomVars, linkVars, wsVars
<1>2. /\ r.messages \in Seq(Message) /\ shown[t] \in Seq(Message)
      /\ shown \in [Tabs -> Seq(Message)]
      /\ served[t] \in Nat \cup {-1} /\ Len(log) \in Nat
  BY LenProperties DEF TypeInv, TypeOK, TabTypeOK, WireTypeOK, ServerTypeOK, Reply
<1>3. ReplyOrder' /\ \A s \in Sockets : SocketOrder(s)'
  <2>1. ReplyOrder'
    BY <1>1 DEF OrderInv, ReplyOrder
  <2>2. ASSUME NEW s \in Sockets PROVE SocketOrder(s)'
    <3>1. SocketOrder(s) /\ Linked(s)' = Linked(s)
      BY <1>1, <2>2 DEF OrderInv, Linked
    <3> QED
      BY <1>1, <3>1 DEF SocketOrder
  <2> QED
    BY <2>1, <2>2
<1>4. ASSUME NEW u \in Tabs, u # t PROVE PageOrder(u)'
  <2>1. PageOrder(u)
    BY <1>4 DEF OrderInv
  <2>2. shown'[u] = shown[u]
    BY <1>1, <1>2, <1>4
  <2> QED
    BY <1>1, <2>1, <2>2 DEF PageOrder
<1>5. PageOrder(t)'
  <2> DEFINE a == shown[t]
             m == r.messages
             n == Len(a)
  <2>1. /\ shown'[t] = a \o m /\ n \in Nat /\ Len(m) \in Nat
        /\ DOMAIN a = 1..n /\ DOMAIN m = 1..Len(m) /\ DOMAIN (a \o m) = 1..(n + Len(m))
        /\ \A i \in 1..(n + Len(m)) : (a \o m)[i] = IF i <= n THEN a[i] ELSE m[i - n]
    BY <1>1, <1>2, ConcatProperties, LenProperties
  <2>2. \A i \in DOMAIN m : m[i].id <= served[t] /\ m[i].id \in Nat
    <3>1. \A i \in DOMAIN m : m[i] \in Message
      BY <1>2, ElementOfSeq, LenProperties
    <3> QED
      BY <1>1, <3>1 DEF OrderInv, ReplyOrder, Message
  <2>3. PageOrder(t)
    BY DEF OrderInv
  <2> HIDE DEF a, m, n
  <2>4. ASSUME NEW i \in DOMAIN shown'[t]
        PROVE  \/ i \in DOMAIN a /\ shown'[t][i] = a[i]
               \/ shown'[t][i].id <= served[t] /\ shown'[t][i].id \in Nat
    <3>1. CASE i <= n
      BY <2>1, <2>4, <3>1
    <3>2. CASE i > n
      <4>1. i - n \in DOMAIN m /\ shown'[t][i] = m[i - n]
        BY <2>1, <2>4, <3>2
      <4> QED
        BY <2>2, <4>1
    <3> QED
      BY <2>1, <2>4, <3>1, <3>2
  <2>5. served[t] <= Len(log)
    BY <2>3 DEF PageOrder
  <2>6. ASSUME NEW i \in DOMAIN shown'[t] PROVE shown'[t][i].id <= Len(log)
    BY <1>2, <2>3, <2>4, <2>5, <2>6 DEF PageOrder, a
  <2>7. ASSUME NEW i \in DOMAIN shown'[t], shown'[t][i].id > served[t]
        PROVE  i \in DOMAIN a /\ shown'[t][i] = a[i]
    BY <1>2, <2>4, <2>7
  <2>8. \A i, j \in DOMAIN shown'[t] :
          i < j /\ shown'[t][i].id > served[t] /\ shown'[t][j].id > served[t]
          => shown'[t][i].id < shown'[t][j].id
    BY <2>3, <2>7 DEF PageOrder, a
  <2>9. ws[t] # None => \A i \in DOMAIN shown'[t], k \in DOMAIN down[ws[t]] :
          shown'[t][i].id > served[t] /\ down[ws[t]][k].type = "chat"
          => shown'[t][i].id < down[ws[t]][k].message.id
    BY <2>3, <2>7 DEF PageOrder, a
  <2> QED
    BY <1>1, <2>5, <2>6, <2>8, <2>9 DEF PageOrder
<1> QED
  BY <1>3, <1>4, <1>5 DEF OrderInv

(* The history is read: what the page has already may be in it.            *)
LEMMA HandleHistoryOrder ==
    ASSUME OrderInv, TypeInv, TypeInv', NEW r \in reqs, HandleHistory(r)
    PROVE  OrderInv'
<1>1. /\ served' = [served EXCEPT ![r.tab] = Len(log)]
      /\ UNCHANGED <<log, history, ws, down, shown>>
      /\ \A q \in replies' : q \in replies \/ (q.tab = r.tab /\ q.messages = history)
      /\ served \in [Tabs -> Nat \cup {-1}] /\ Len(log) \in Nat /\ replies \subseteq Reply
      /\ replies' \subseteq Reply
  <2>1. \A q \in replies' : q \in replies \/ (q.tab = r.tab /\ q.messages = history)
    BY DEF HandleHistory, AnswerWith
  <2> QED
    BY <2>1, LenProperties DEF HandleHistory, serverVars, roomVars, linkVars, wsVars,
       TypeInv, TypeOK, TabTypeOK, ServerTypeOK, WireTypeOK
<1>2. \A u \in Tabs : /\ served'[u] = served[u] \/ (u = r.tab /\ served'[u] = Len(log))
                      /\ served[u] \in Nat \cup {-1} /\ served[u] <= Len(log)
  BY <1>1 DEF OrderInv, PageOrder
<1>3. \A s \in Sockets : SocketOrder(s)'
  BY <1>1 DEF OrderInv, SocketOrder, Linked
<1>4. ReplyOrder'
  <2>1. ASSUME NEW q \in replies', q.kind = "history", NEW i \in DOMAIN q.messages
        PROVE  q.messages[i].id <= served'[q.tab]
    <3>1. q.tab \in Tabs /\ q.messages[i].id \in Nat
      <4>1. q.tab \in Tabs /\ q.messages \in Seq(Message)
        BY <1>1 DEF Reply
      <4>2. q.messages[i] \in Message
        BY <4>1, ElementOfSeq, LenProperties
      <4> QED
        BY <4>1, <4>2 DEF Message
    <3>2. CASE q \in replies
      BY <1>1, <1>2, <2>1, <3>1, <3>2 DEF OrderInv, ReplyOrder
    <3>3. CASE q.tab = r.tab /\ q.messages = history
      <4>1. served'[q.tab] = Len(log)
        BY <1>1, <3>1, <3>3
      <4> QED
        BY <2>1, <3>3, <4>1 DEF OrderInv, ReplyOrder
    <3> QED
      BY <1>1, <3>2, <3>3
  <2> QED
    BY <1>1, <2>1 DEF OrderInv, ReplyOrder
<1>5. ASSUME NEW u \in Tabs PROVE PageOrder(u)'
  <2>1. PageOrder(u) /\ \A i \in DOMAIN shown[u] : shown[u][i].id \in Nat
    <3>1. shown[u] \in Seq(Message)
      BY <1>5 DEF TypeInv, TypeOK, TabTypeOK
    <3>2. \A i \in DOMAIN shown[u] : shown[u][i] \in Message
      BY <3>1, ElementOfSeq, LenProperties
    <3> QED
      BY <1>5, <3>2 DEF OrderInv, Message
  <2>2. served'[u] <= Len(log) /\ served[u] <= served'[u]
        /\ served'[u] \in Nat \cup {-1} /\ served[u] \in Nat \cup {-1}
    BY <1>1, <1>2, <1>5
  <2>3. \A i \in DOMAIN shown[u] : shown[u][i].id > served'[u] => shown[u][i].id > served[u]
    BY <2>1, <2>2
  <2> QED
    BY <1>1, <2>1, <2>2, <2>3 DEF PageOrder
<1> QED
  BY <1>3, <1>4, <1>5 DEF OrderInv

(* What a tab takes off its WebSocket is younger than what it has, and     *)
(* older than what still waits.                                            *)
LEMMA ReceiveOrder ==
    ASSUME OrderInv, TypeInv, TypeInv', NEW t \in Tabs, Receive(t)
    PROVE  OrderInv'
<1> PICK s \in Sockets : s = ws[t]
  BY SocketOf DEF Receive
<1> DEFINE q == down[s]
           m == Head(q)
<1>1. /\ s \in Sockets /\ s # None /\ q \in Seq(DownFrame) /\ q # <<>>
      /\ down \in [Sockets -> Seq(DownFrame)] /\ shown \in [Tabs -> Seq(Message)]
      /\ Tail(q) \in Seq(DownFrame) /\ m \in DownFrame
  BY SocketOf, SetsAssumption, HeadTailProperties
     DEF Receive, TypeInv, TypeOK, TabTypeOK, WireTypeOK
<1>2. UNCHANGED <<history, log, served, replies>>
  BY DEF Receive, serverVars, roomVars, httpVars
<1>3. CASE m.type = "CLOSE"
  <2>1. Hangup(t) /\ UNCHANGED shown
    BY <1>3 DEF Receive
  <2> QED
    BY <1>2, <2>1, HangupOrder
<1>4. CASE m.type \in {"101", "chat"}
  <2>1. ws' = ws /\ down' = [down EXCEPT ![s] = Tail(@)]
    BY <1>4 DEF Receive, wsVars
  <2>2. /\ 1 \in DOMAIN q /\ q[1] = m
        /\ \A k \in DOMAIN Tail(q) : k \in Nat \ {0} /\ k + 1 \in DOMAIN q /\ Tail(q)[k] = q[k + 1]
    <3>1. /\ Len(Tail(q)) = Len(q) - 1 /\ DOMAIN Tail(q) = 1..Len(Tail(q))
          /\ \A i \in 1..Len(Tail(q)) : Tail(q)[i] = q[i + 1]
          /\ DOMAIN q = 1..Len(q) /\ Len(q) \in Nat /\ Len(q) # 0 /\ q[1] = m
      BY <1>1, HeadTailProperties, LenProperties, EmptySeq
    <3> QED
      BY <3>1
  <2>3. SocketOrder(s) /\ PageOrder(t) /\ ReplyOrder
    BY <1>1 DEF OrderInv
  <2> HIDE DEF q, m
  <2>4. SocketOrder(s)'
    <3>1. down'[s] = Tail(q) /\ Linked(s)' /\ down[s] = q
      BY <1>1, <2>1 DEF Linked, q
    <3>2. \A k \in DOMAIN Tail(q) :
            Tail(q)[k].type = "chat" => Tail(q)[k].message.id <= Len(log)
      BY <2>2, <2>3, <3>1 DEF SocketOrder
    <3>3. ASSUME NEW j \in DOMAIN Tail(q), NEW k \in DOMAIN Tail(q), j < k,
                 Tail(q)[j].type = "chat", Tail(q)[k].type = "chat"
          PROVE  Tail(q)[j].message.id < Tail(q)[k].message.id
      <4>1. j + 1 < k + 1 /\ j + 1 \in DOMAIN q /\ k + 1 \in DOMAIN q
        BY <2>2, <3>3
      <4> QED
        BY <2>2, <2>3, <3>1, <3>3, <4>1 DEF SocketOrder
    <3> QED
      BY <1>2, <3>1, <3>2, <3>3 DEF SocketOrder
  <2>5. ASSUME NEW x \in Sockets, x # s PROVE SocketOrder(x)'
    BY <1>1, <1>2, <2>1, <2>5 DEF OrderInv, SocketOrder, Linked
  <2>6. ASSUME NEW u \in Tabs, shown'[u] = shown[u] PROVE PageOrder(u)'
    <3>1. PageOrder(u)
      BY DEF OrderInv
    <3>2. CASE ws[u] # s
      <4>1. ws[u] # None => down'[ws[u]] = down[ws[u]]
        BY <1>1, <2>1, <3>2, SocketOf
      <4> QED
        BY <1>2, <2>1, <2>6, <3>1, <4>1 DEF PageOrder
    <3>3. CASE ws[u] = s
      <4>1. down'[ws'[u]] = Tail(q) /\ down[ws[u]] = q
        BY <1>1, <2>1, <3>3 DEF q
      <4>2. ASSUME NEW i \in DOMAIN shown[u], NEW k \in DOMAIN Tail(q),
                   shown[u][i].id > served[u], Tail(q)[k].type = "chat"
            PROVE  shown[u][i].id < Tail(q)[k].message.id
        BY <1>1, <2>2, <3>1, <3>3, <4>1, <4>2 DEF PageOrder
      <4> QED
        BY <1>2, <2>1, <2>6, <3>1, <4>1, <4>2 DEF PageOrder
    <3> QED
      BY <3>2, <3>3
  <2>7. CASE shown' = shown
    BY <1>2, <2>3, <2>4, <2>5, <2>6, <2>7 DEF OrderInv, ReplyOrder
  <2>8. CASE m.type = "chat" /\ shown' = [shown EXCEPT ![t] = Append(@, m.message)]
    <3> DEFINE a == shown[t]
               n == Len(a)
    <3>1. m.message \in Message /\ m.message.id \in Nat
      BY <1>1, <2>8 DEF DownFrame, Message, m
    <3>2. /\ shown'[t] = Append(a, m.message) /\ a \in Seq(Message) /\ n \in Nat
          /\ DOMAIN a = 1..n /\ DOMAIN shown'[t] = 1..(n + 1)
          /\ \A i \in 1..n : shown'[t][i] = a[i] /\ shown'[t][n + 1] = m.message
      BY <1>1, <2>8, <3>1, AppendProperties, LenProperties
    <3>3. shown'[t][n + 1] = m.message
      BY <1>1, <2>8, <3>1, AppendProperties, LenProperties
    <3>4. /\ m.message.id <= Len(log)
          /\ \A i \in 1..n : a[i].id > served[t] => a[i].id < m.message.id
          /\ \A k \in DOMAIN Tail(q) :
                Tail(q)[k].type = "chat" => m.message.id < Tail(q)[k].message.id
      <4>1. down[s] = q
        BY DEF q
      <4>2. m.message.id <= Len(log)
        BY <2>2, <2>3, <2>8, <4>1 DEF SocketOrder
      <4>3. \A i \in 1..n : a[i].id > served[t] => a[i].id < m.message.id
        BY <1>1, <2>2, <2>3, <2>8, <3>2, <4>1 DEF PageOrder
      <4>4. ASSUME NEW k \in DOMAIN Tail(q), Tail(q)[k].type = "chat"
            PROVE  m.message.id < Tail(q)[k].message.id
        <5>1. 1 < k + 1 /\ k + 1 \in DOMAIN q
          BY <2>2
        <5> QED
          BY <2>2, <2>3, <2>8, <4>1, <4>4, <5>1 DEF SocketOrder
      <4> QED
        BY <4>2, <4>3, <4>4
    <3>5. PageOrder(t)'
      <4>1. down'[ws'[t]] = Tail(q) /\ ws'[t] = s /\ down[s] = q
        BY <1>1, <2>1 DEF q
      <4> HIDE DEF a, n
      <4>2. \A i \in DOMAIN shown'[t] : i \in 1..n \/ i = n + 1
        BY <3>2
      <4>3. \A i \in 1..n : i # n + 1 /\ i < n + 1
        BY <3>2
      <4>4. \A i \in DOMAIN shown'[t] : shown'[t][i].id <= Len(log)
        BY <2>3, <3>2, <3>3, <3>4, <4>2 DEF PageOrder, a
      <4>5. ASSUME NEW i \in DOMAIN shown'[t], NEW j \in DOMAIN shown'[t], i < j,
                   shown'[t][i].id > served[t], shown'[t][j].id > served[t]
            PROVE  shown'[t][i].id < shown'[t][j].id
        <5>1. i \in 1..n
          BY <3>2, <4>5
        <5>2. CASE j \in 1..n
          BY <2>3, <3>2, <4>5, <5>1, <5>2 DEF PageOrder, a
        <5>3. CASE j = n + 1
          BY <3>2, <3>3, <3>4, <4>5, <5>1, <5>3
        <5> QED
          BY <4>2, <5>2, <5>3
      <4>6. ASSUME NEW i \in DOMAIN shown'[t], NEW k \in DOMAIN Tail(q),
                   shown'[t][i].id > served[t], Tail(q)[k].type = "chat"
            PROVE  shown'[t][i].id < Tail(q)[k].message.id
        <5>1. CASE i \in 1..n
          <6>1. shown'[t][i] = a[i] /\ i \in DOMAIN a
            BY <3>2, <5>1
          <6>2. k + 1 \in DOMAIN q /\ Tail(q)[k] = q[k + 1]
            BY <2>2, <4>6
          <6>3. ws[t] # None /\ down[ws[t]] = q
            BY <1>1, <4>1
          <6> QED
            BY <2>3, <4>6, <6>1, <6>2, <6>3 DEF PageOrder, a
        <5>2. CASE i = n + 1
          BY <3>3, <3>4, <4>6, <5>2
        <5> QED
          BY <4>2, <5>1, <5>2
      <4> QED
        BY <1>2, <2>3, <4>1, <4>4, <4>5, <4>6 DEF PageOrder
    <3>6. ASSUME NEW u \in Tabs, u # t PROVE shown'[u] = shown[u]
      BY <1>1, <2>8, <3>6
    <3> QED
      BY <1>2, <2>3, <2>4, <2>5, <2>6, <3>5, <3>6 DEF OrderInv, ReplyOrder
  <2> QED
    BY <1>4, <2>7, <2>8 DEF Receive, m, q
<1> QED
  BY <1>1, <1>3, <1>4 DEF DownFrame, Receive

(* A new message is the youngest: in the history, and behind everything    *)
(* that waits on a socket.                                                 *)
LEMMA AddMessageOrder ==
    ASSUME OrderInv, TypeInv, TypeInv', NEW from \in Names, NEW by \in Names,
           AddMessage(from, by), UNCHANGED <<shown, served, ws, replies>>
    PROVE  OrderInv'
<1> DEFINE m == [id |-> Len(log) + 1, from |-> from, by |-> by]
           f == [type |-> "chat", message |-> m]
           h == Append(history, m)
           n == Len(log)
<1>1. /\ n \in Nat /\ m \in Message /\ f \in DownFrame /\ m.id = n + 1
      /\ f.type = "chat" /\ f.message = m
      /\ log \in Seq(Message) /\ history \in Seq(Message) /\ down \in [Sockets -> Seq(DownFrame)]
      /\ shown \in [Tabs -> Seq(Message)] /\ served \in [Tabs -> Nat \cup {-1}]
  <2>1. n \in Nat
    BY LenProperties DEF TypeInv, TypeOK, ServerTypeOK
  <2>2. m \in Message /\ m.id = n + 1
    BY <2>1 DEF Message
  <2> HIDE DEF m
  <2>3. f \in DownFrame /\ f.type = "chat" /\ f.message = m
    BY <2>2 DEF DownFrame
  <2>4. /\ log \in Seq(Message) /\ history \in Seq(Message) /\ down \in [Sockets -> Seq(DownFrame)]
        /\ shown \in [Tabs -> Seq(Message)] /\ served \in [Tabs -> Nat \cup {-1}]
    BY DEF TypeInv, TypeOK, ServerTypeOK, TabTypeOK, WireTypeOK
  <2> QED
    BY <2>1, <2>2, <2>3, <2>4
<1>2. /\ log' = Append(log, m) /\ history' = IF Len(h) > MaxHistory THEN Tail(h) ELSE h
      /\ down' = [s \in Sockets |->
                    IF InHub(s) /\ Linked(s) THEN Append(down[s], f) ELSE down[s]]
  BY DEF AddMessage, Trimmed
<1> HIDE DEF m, f
<1>3. Len(log') = n + 1
  BY <1>1, <1>2, AppendProperties
<1>4. ReplyOrder'
  <2>1. \A i \in DOMAIN history : history[i].id <= n /\ history[i].id \in Nat
    <3>1. \A i \in DOMAIN history : history[i] \in Message
      BY <1>1, ElementOfSeq, LenProperties
    <3> QED
      BY <3>1 DEF OrderInv, ReplyOrder, Message
  <2>2. /\ h \in Seq(Message) /\ h # <<>> /\ DOMAIN h = 1..(Len(history) + 1)
        /\ Len(history) \in Nat /\ DOMAIN history = 1..Len(history)
        /\ \A i \in 1..Len(history) : h[i] = history[i]
        /\ h[Len(history) + 1] = m
    BY <1>1, AppendProperties, LenProperties
  <2> HIDE DEF h
  <2>3. ASSUME NEW i \in DOMAIN h PROVE h[i].id <= n + 1
    <3>1. i \in 1..Len(history) \/ i = Len(history) + 1
      BY <2>2
    <3>2. CASE i = Len(history) + 1
      <4>1. h[i].id = n + 1
        BY <1>1, <2>2, <3>2
      <4> HIDE DEF n
      <4> QED
        BY <1>1, <4>1
    <3>3. CASE i \in 1..Len(history)
      <4>1. h[i].id <= n /\ h[i].id \in Nat
        BY <2>1, <2>2, <3>3
      <4> HIDE DEF n
      <4> QED
        BY <1>1, <4>1
    <3> QED
      BY <3>1, <3>2, <3>3
  <2>4. \A i \in DOMAIN Tail(h) : Tail(h)[i].id <= n + 1
    <3>1. /\ DOMAIN h = 1..Len(h) /\ Len(h) \in Nat
          /\ DOMAIN Tail(h) = 1..Len(Tail(h)) /\ Len(Tail(h)) = Len(h) - 1
          /\ \A i \in 1..Len(Tail(h)) : Tail(h)[i] = h[i + 1]
      BY <2>2, HeadTailProperties, LenProperties
    <3>2. \A i \in DOMAIN Tail(h) : i + 1 \in DOMAIN h /\ Tail(h)[i] = h[i + 1]
      BY <3>1
    <3> QED
      BY <2>3, <3>2
  <2>5. \A i \in DOMAIN history' : history'[i].id <= n + 1
    BY <1>2, <2>3, <2>4
  <2> QED
    BY <1>3, <2>5 DEF OrderInv, ReplyOrder
<1>5. ASSUME NEW s \in Sockets PROVE SocketOrder(s)'
  <2> DEFINE q == down[s]
  <2>1. /\ SocketOrder(s) /\ q \in Seq(DownFrame) /\ Len(q) \in Nat /\ DOMAIN q = 1..Len(q)
        /\ Linked(s)' = Linked(s)
        /\ \A k \in DOMAIN q : q[k].type = "chat" => q[k].message.id \in Nat
    <3>1. q \in Seq(DownFrame) /\ Len(q) \in Nat /\ DOMAIN q = 1..Len(q)
      BY <1>1, LenProperties
    <3>2. \A k \in DOMAIN q : q[k] \in DownFrame
      BY <3>1, ElementOfSeq
    <3>3. \A k \in DOMAIN q : q[k].type = "chat" => q[k].message.id \in Nat
      BY <3>2 DEF DownFrame, Message
    <3> QED
      BY <3>1, <3>3 DEF OrderInv, Linked
  <2> HIDE DEF q
  <2>2. CASE down'[s] = q
    BY <1>1, <1>3, <2>1, <2>2 DEF SocketOrder, q
  <2>3. CASE down'[s] = Append(q, f) /\ Linked(s)
    <3>1. /\ DOMAIN Append(q, f) = 1..(Len(q) + 1) /\ Append(q, f)[Len(q) + 1] = f
          /\ \A k \in 1..Len(q) : Append(q, f)[k] = q[k]
      BY <1>1, <2>1, AppendProperties, LenProperties
    <3>2. \A k \in DOMAIN q : q[k].type = "chat" => q[k].message.id <= n
      BY <2>1 DEF SocketOrder, q
    <3>3. \A j, k \in DOMAIN q :
            j < k /\ q[j].type = "chat" /\ q[k].type = "chat"
            => q[j].message.id < q[k].message.id
      BY <2>1 DEF SocketOrder, q
    <3> HIDE DEF n
    <3>4. \A k \in DOMAIN down'[s] :
            down'[s][k].type = "chat" => down'[s][k].message.id <= n + 1
      BY <1>1, <2>1, <2>3, <3>1, <3>2
    <3>5. ASSUME NEW j \in DOMAIN down'[s], NEW k \in DOMAIN down'[s], j < k,
                 down'[s][j].type = "chat", down'[s][k].type = "chat"
          PROVE  down'[s][j].message.id < down'[s][k].message.id
      <4>1. j \in DOMAIN q /\ down'[s][j] = q[j]
        BY <2>1, <2>3, <3>1, <3>5
      <4>2. CASE k \in DOMAIN q
        BY <2>1, <2>3, <3>1, <3>3, <3>5, <4>1, <4>2
      <4>3. CASE k = Len(q) + 1
        BY <1>1, <2>1, <2>3, <3>1, <3>2, <3>5, <4>1, <4>3
      <4> QED
        BY <2>1, <2>3, <3>1, <3>5, <4>2, <4>3
    <3> QED
      BY <1>3, <2>1, <2>3, <3>4, <3>5 DEF SocketOrder
  <2> QED
    BY <1>2, <2>2, <2>3 DEF q
<1>6. ASSUME NEW t \in Tabs PROVE PageOrder(t)'
  <2>1. /\ PageOrder(t) /\ shown'[t] = shown[t] /\ served'[t] = served[t] /\ ws'[t] = ws[t]
        /\ \A i \in DOMAIN shown[t] : shown[t][i].id \in Nat
        /\ served[t] \in Nat \cup {-1}
    <3>1. shown[t] \in Seq(Message) /\ served[t] \in Nat \cup {-1}
      BY <1>1, <1>6
    <3>2. \A i \in DOMAIN shown[t] : shown[t][i] \in Message
      BY <3>1, ElementOfSeq, LenProperties
    <3> QED
      BY <1>6, <3>1, <3>2 DEF OrderInv, Message
  <2>2. served'[t] <= n + 1 /\ \A i \in DOMAIN shown'[t] : shown'[t][i].id <= n + 1
    BY <1>1, <2>1 DEF PageOrder
  <2>3. ASSUME ws[t] # None, NEW i \in DOMAIN shown[t], NEW k \in DOMAIN down'[ws[t]],
               shown[t][i].id > served[t], down'[ws[t]][k].type = "chat"
        PROVE  shown[t][i].id < down'[ws[t]][k].message.id
    <3> DEFINE s == ws[t]
               q == down[s]
    <3>1. s \in Sockets
      BY <1>6, <2>3, SocketOf
    <3>2. q \in Seq(DownFrame) /\ Len(q) \in Nat /\ DOMAIN q = 1..Len(q)
      BY <1>1, <3>1, LenProperties
    <3>3. down'[s] = q \/ down'[s] = Append(q, f)
      BY <1>2, <3>1
    <3>4. /\ DOMAIN Append(q, f) = 1..(Len(q) + 1) /\ Append(q, f)[Len(q) + 1] = f
          /\ \A j \in 1..Len(q) : Append(q, f)[j] = q[j]
      BY <1>1, <3>2, AppendProperties, LenProperties
    <3>5. (k \in DOMAIN q /\ down'[s][k] = q[k]) \/ down'[s][k] = f
      <4> HIDE DEF q
      <4> QED
        BY <2>3, <3>2, <3>3, <3>4
    <3>6. CASE k \in DOMAIN q /\ down'[s][k] = q[k]
      BY <2>1, <2>3, <3>6 DEF PageOrder
    <3>7. CASE down'[s][k] = f
      <4>1. shown[t][i].id <= n /\ shown[t][i].id \in Nat
        BY <2>1, <2>3 DEF PageOrder
      <4>2. down'[s][k].message.id = n + 1
        BY <1>1, <3>7
      <4> HIDE DEF n, s
      <4> QED
        BY <1>1, <4>1, <4>2 DEF s
    <3> QED
      BY <3>5, <3>6, <3>7
  <2> QED
    BY <1>3, <2>1, <2>2, <2>3 DEF PageOrder
<1> QED
  BY <1>4, <1>5, <1>6 DEF OrderInv

(* What happens to a socket at the server.                                 *)
LEMMA HubOrder ==
    ASSUME OrderInv, TypeInv, TypeInv', NEW s \in Sockets, Hub(s)
    PROVE  OrderInv'
<1>1. down \in [Sockets -> Seq(DownFrame)] /\ DOMAIN <<>> = {}
  BY DEF TypeInv, TypeOK, WireTypeOK
<1>2. CASE Upgrade(s) \/ Forget(s)
  <2>1. UNCHANGED <<log, history, down, shown, served, ws, replies>>
    BY <1>2 DEF Upgrade, Forget, roomVars, linkVars, tabVars, pageVars, wsVars, httpVars
  <2> QED
    BY <2>1, OrderSame
<1>3. CASE HandleText(s)
  <2>1. up[s] \in Seq(UpFrame) /\ up[s] # <<>> /\ Head(up[s]).type = "text"
    BY <1>3 DEF HandleText, TypeInv, TypeOK, WireTypeOK
  <2>2. wsUser[s] \in Names /\ Head(up[s]) \in UpFrame
    BY <1>3, <2>1, HeadTailProperties
       DEF HandleText, InHub, TypeInv, HubKnowsUser, TypeOK, ServerTypeOK
  <2>3. Head(up[s]).by \in Names
    BY <2>1, <2>2 DEF UpFrame
  <2>4. AddMessage(wsUser[s], Head(up[s]).by) /\ UNCHANGED <<shown, served, ws, replies>>
    BY <1>3 DEF HandleText, tabVars, pageVars, wsVars, httpVars
  <2> QED
    BY <2>2, <2>3, <2>4, AddMessageOrder
<1>4. CASE Adopt(s) \/ HandleClose(s)
  <2>1. UNCHANGED <<log, history, shown, served, ws, replies>>
    BY <1>4 DEF Adopt, HandleClose, roomVars, tabVars, pageVars, wsVars, httpVars
  <2>2. /\ \A x \in Sockets \ {s} : down'[x] = down[x]
        /\ \/ down'[s] = down[s]
           \/ Linked(s) /\ down'[s] = <<[type |-> "101"]>>
           \/ Linked(s) /\ down'[s] = Append(down[s], [type |-> "CLOSE"])
    BY <1>1, <1>4 DEF Adopt, HandleClose, Greeting
  <2>3. ASSUME NEW x \in Sockets, NEW k \in DOMAIN down'[x], down'[x][k].type = "chat"
        PROVE  k \in DOMAIN down[x] /\ down'[x][k] = down[x][k]
    <3>1. CASE down'[x] = down[x]
      BY <2>3, <3>1
    <3>2. CASE down'[x] = <<[type |-> "101"]>>
      <4>1. DOMAIN <<[type |-> "101"]>> = 1..1 /\ <<[type |-> "101"]>>[1].type = "101"
        OBVIOUS
      <4>2. k = 1
        BY <2>3, <3>2, <4>1
      <4> QED
        BY <2>3, <3>2, <4>1, <4>2
    <3>3. CASE down'[x] = Append(down[x], [type |-> "CLOSE"])
      <4>1. [type |-> "CLOSE"] \in DownFrame /\ down[x] \in Seq(DownFrame)
        BY <1>1 DEF DownFrame
      <4>2. /\ DOMAIN down'[x] = 1..(Len(down[x]) + 1) /\ DOMAIN down[x] = 1..Len(down[x])
            /\ Len(down[x]) \in Nat
            /\ \A i \in 1..Len(down[x]) : down'[x][i] = down[x][i]
            /\ down'[x][Len(down[x]) + 1] = [type |-> "CLOSE"]
        BY <3>3, <4>1, AppendProperties, LenProperties
      <4>3. k # Len(down[x]) + 1
        BY <2>3, <4>2
      <4>4. k \in 1..Len(down[x])
        BY <2>3, <4>2, <4>3
      <4> QED
        BY <4>2, <4>4
    <3> QED
      BY <2>2, <3>1, <3>2, <3>3
  <2>4. ASSUME NEW x \in Sockets, ~Linked(x)' PROVE down'[x] = <<>>
    BY <2>1, <2>2, <2>4 DEF Linked, OrderInv, SocketOrder
  <2> QED
    BY <2>1, <2>3, <2>4, NothingNew
<1> QED
  BY <1>2, <1>3, <1>4 DEF Hub

(* The routes.                                                             *)
LEMMA HandlerOrder ==
    ASSUME OrderInv, TypeInv, TypeInv', NEW r \in reqs, Handler(r)
    PROVE  OrderInv'
<1>1. CASE HandleLogin(r) \/ Unauthorized(r) \/ HandleLogout(r)
  <2>1. UNCHANGED <<log, history, down, shown, served, ws>>
    BY <1>1 DEF HandleLogin, Unauthorized, HandleLogout, serverVars, roomVars, linkVars,
       tabVars, pageVars, wsVars
  <2>2. \A q \in replies' : q \in replies \/ q.messages = <<>>
    BY <1>1 DEF HandleLogin, Unauthorized, HandleLogout, Answer, AnswerWith
  <2> QED
    BY <2>1, <2>2, OrderSame
<1>2. CASE HandlePost(r)
  <2>1. Lookup(r.token) \in Names /\ r.name \in Names
    BY <1>2, RequestParts DEF HandlePost, Lookup, TypeInv, TypeOK, ServerTypeOK
  <2>2. UNCHANGED <<shown, served, ws, replies>>
    BY <1>2 DEF HandlePost, Answer, AnswerWith, tabVars, pageVars, wsVars
  <2> QED
    BY <1>2, <2>1, <2>2, AddMessageOrder DEF HandlePost
<1>3. CASE HandleHistory(r)
  BY <1>3, HandleHistoryOrder
<1> QED
  BY <1>1, <1>2, <1>3 DEF Handler

(* A page is opened with nothing on it.                                    *)
LEMMA LoadChatOrder ==
    ASSUME OrderInv, TypeInv, TypeInv', NEW t \in Tabs, NEW tok, NEW n,
           LoadChat(t, tok, n), UNCHANGED roomVars
    PROVE  OrderInv'
<1>1. /\ served \in [Tabs -> Nat \cup {-1}] /\ shown \in [Tabs -> Seq(Message)]
      /\ replies \subseteq Reply
  BY DEF TypeInv, TypeOK, TabTypeOK, WireTypeOK
<1>2. /\ served' = [served EXCEPT ![t] = -1] /\ shown' = [shown EXCEPT ![t] = <<>>]
      /\ replies' = {r \in replies : r.tab # t}
      /\ Connect(t, tok) /\ down' = Unread(t) /\ UNCHANGED <<log, history>>
  BY DEF LoadChat, NotFor, roomVars
<1>3. \A r \in replies' : r \in replies /\ served'[r.tab] = served[r.tab]
  BY <1>1, <1>2 DEF Reply
<1>4. \A u \in Tabs :
        \/ shown'[u] = shown[u] /\ served'[u] = served[u]
        \/ u = t /\ shown'[u] = <<>> /\ served'[u] = -1
  BY <1>1, <1>2
<1> QED
  BY <1>2, <1>3, <1>4, ConnectOrder

(* A page goes away.                                                       *)
LEMMA LeavePageOrder ==
    ASSUME OrderInv, TypeInv, TypeInv', NEW t \in Tabs, NEW to, LeavePage(t, to)
    PROVE  OrderInv'
<1>1. /\ served \in [Tabs -> Nat \cup {-1}] /\ shown \in [Tabs -> Seq(Message)]
      /\ replies \subseteq Reply
  BY DEF TypeInv, TypeOK, TabTypeOK, WireTypeOK
<1>2. /\ served' = [served EXCEPT ![t] = -1] /\ shown' = [shown EXCEPT ![t] = <<>>]
      /\ replies' = {r \in replies : r.tab # t}
      /\ Hangup(t) /\ UNCHANGED <<log, history>>
  BY DEF LeavePage, NotFor, serverVars, roomVars
<1>3. \A r \in replies' : r \in replies /\ served'[r.tab] = served[r.tab]
  BY <1>1, <1>2 DEF Reply
<1>4. \A u \in Tabs :
        \/ shown'[u] = shown[u] /\ served'[u] = served[u]
        \/ u = t /\ shown'[u] = <<>> /\ served'[u] = -1
  BY <1>1, <1>2
<1> QED
  BY <1>2, <1>3, <1>4, HangupOrder

(* The visitors.                                                           *)
LEMMA VisitorOrder ==
    ASSUME OrderInv, TypeInv, TypeInv', NEW t \in Tabs, Visitor(t)
    PROVE  OrderInv'
<1>1. CASE \/ \E n \in Names : SubmitLogin(t, n)
           \/ Say(t) \/ Post(t)
  <2>1. UNCHANGED <<log, history, down, shown, served, ws, replies>>
    BY <1>1 DEF SubmitLogin, Say, Post, serverVars, roomVars, linkVars, tabVars, wsVars,
       pageVars, httpVars
  <2> QED
    BY <2>1, OrderSame
<1>2. CASE ClickLogout(t)
  <2>1. UNCHANGED <<log, history, shown, served, replies>>
    BY <1>2 DEF ClickLogout, serverVars, roomVars, pageVars
  <2>2. CASE Hangup(t)
    BY <2>1, <2>2, HangupOrder
  <2>3. CASE UNCHANGED <<ws, down>>
    BY <2>1, <2>3, OrderSame
  <2> QED
    BY <1>2, <2>2, <2>3 DEF ClickLogout, wsVars, linkVars
<1>3. CASE Reload(t)
  BY <1>3, LoadChatOrder DEF Reload
<1>4. CASE Leave(t)
  BY <1>4, LeavePageOrder DEF Leave
<1> QED
  BY <1>1, <1>2, <1>3, <1>4 DEF Visitor

(* The replies that a page reads.                                          *)
LEMMA ReadingOrder ==
    ASSUME OrderInv, TypeInv, TypeInv', NEW t \in Tabs, Reading(t)
    PROVE  OrderInv'
<1> PICK r \in replies : LoginReply(t, r) \/ HistoryReply(t, r) \/ LogoutReply(t, r)
  BY DEF Reading
<1>1. CASE LoginReply(t, r)
  <2>1. CASE r.ok /\ LoadChat(t, r.token, r.name)
    BY <1>1, <2>1, LoadChatOrder DEF LoginReply
  <2>2. CASE ~r.ok
    <3>1. UNCHANGED <<log, history, down, shown, served, ws>> /\ replies' \subseteq replies
      BY <1>1, <2>2 DEF LoginReply, roomVars, linkVars, tabVars, pageVars, wsVars
    <3> QED
      BY <3>1, OrderSame
  <2> QED
    BY <1>1, <2>1, <2>2 DEF LoginReply
<1>2. CASE HistoryReply(t, r)
  BY <1>2, HistoryReplyOrder
<1>3. CASE LogoutReply(t, r)
  BY <1>3, LeavePageOrder DEF LogoutReply
<1> QED
  BY <1>1, <1>2, <1>3

(* What happens on a tab's WebSocket.                                      *)
LEMMA WebSocketOrder ==
    ASSUME OrderInv, TypeInv, TypeInv', NEW t \in Tabs, WebSocket(t) \/ Break(t)
    PROVE  OrderInv'
<1>1. CASE Receive(t)
  BY <1>1, ReceiveOrder
<1>2. CASE Refused(t) \/ Break(t)
  <2>1. Hangup(t) /\ UNCHANGED <<log, history, shown, served, replies>>
    BY <1>2 DEF Refused, Break, serverVars, roomVars, pageVars, httpVars
  <2> QED
    BY <2>1, HangupOrder
<1>3. CASE Reconnect(t)
  <2>1. UNCHANGED <<log, history, down, shown, served, replies>> /\ Connect(t, token[t])
    BY <1>3 DEF Reconnect, roomVars, linkVars, pageVars, httpVars
  <2>2. ws[t] = None /\ None \notin Sockets /\ down \in [Sockets -> Seq(DownFrame)]
    BY <1>3, SocketOf, SetsAssumption DEF Reconnect, TypeInv, TypeOK, WireTypeOK
  <2>3. down' = Unread(t)
    BY <2>1, <2>2 DEF Unread
  <2> QED
    BY <2>1, <2>3, ConnectOrder
<1> QED
  BY <1>1, <1>2, <1>3 DEF WebSocket

(* A restart loses what is under way, and the history.                     *)
LEMMA RestartOrder ==
    ASSUME OrderInv, TypeInv, TypeInv', Restart
    PROVE  OrderInv'
<1>1. /\ UNCHANGED <<log, shown, served>> /\ history' = <<>>
      /\ down' = [s \in Sockets |-> <<>>] /\ ws' = [t \in Tabs |-> None]
      /\ \A r \in replies' : r \in replies \/ r.messages = <<>>
  BY DEF Restart, pageVars
<1>2. DOMAIN <<>> = {}
  OBVIOUS
<1> QED
  BY <1>1, <1>2, NothingNew

(* Every step keeps the order.                                             *)
LEMMA NextKeepsOrder == TypeInv /\ OrderInv /\ [Next]_vars => OrderInv'
<1> SUFFICES ASSUME TypeInv, OrderInv, [Next]_vars PROVE OrderInv'
  OBVIOUS
<1>1. TypeInv'
  BY NextTypes
<1>2. CASE UNCHANGED vars
  <2>1. UNCHANGED <<log, history, down, shown, served, ws, replies>>
    BY <1>2 DEF vars, serverVars, roomVars, linkVars, tabVars, pageVars, wsVars, httpVars
  <2> QED
    BY <1>1, <2>1, OrderSame
<1>3. CASE Next
  BY <1>1, <1>3, VisitorOrder, ReadingOrder, WebSocketOrder, HandlerOrder, HubOrder,
     RestartOrder DEF Next
<1> QED
  BY <1>2, <1>3

(* LiveInOrder, through any number of restarts, reloads and broken         *)
(* connections: what a page gets beyond its history comes in the room's    *)
(* order and never twice.  It rests on three facts of the code: a socket's *)
(* messages wait behind each other (sendText), what waits on a socket that *)
(* is given up is never shown (onclose, connectWs), and the history that a *)
(* page gets holds nothing younger than its reading.                       *)
THEOREM LiveComesInOrder == Spec => []LiveInOrder
<1>1. Init => TypeInv /\ OrderInv
  <2> SUFFICES ASSUME Init PROVE OrderInv
    BY InitTypes
  <2>1. Len(log) = 0 /\ DOMAIN <<>> = {}
    BY EmptySeq DEF Init
  <2> QED
    BY <2>1 DEF Init, OrderInv, ReplyOrder, SocketOrder, PageOrder
<1>2. OrderInv => LiveInOrder
  BY DEF OrderInv, PageOrder, LiveInOrder
<1> QED
  BY <1>1, <1>2, NextTypes, NextKeepsOrder, PTL DEF Spec

=============================================================================
