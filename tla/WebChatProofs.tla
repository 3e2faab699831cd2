--------------------------- MODULE WebChatProofs ----------------------------
(***************************************************************************)
(* Type correctness of WebChat, and that TokenStore and Room always agree, *)
(* for any tabs, names, sockets and bounds.                                *)
(***************************************************************************)
EXTENDS WebChat, SequenceTheorems, TLAPS

(* A socket on its way to the hub, or in it, has the user it was let in as. *)
HubKnowsUser ==
    \A s \in Sockets : ss[s] \in {"switching", "hub", "closing"} => wsUser[s] \in Names

TypeInv == TypeOK /\ HubKnowsUser

(* A page only sends well-formed requests (api in app.js). *)
LEMMA AskType ==
    ASSUME NEW t \in Tabs, NEW kind \in Kinds, NEW tok \in Tokens \cup {NoToken},
           NEW n \in Names
    PROVE  Ask(t, kind, tok, n) \in Request
BY DEF Ask, Request

(* The requests of a page that goes away stay well-formed. *)
LEMMA OrphanedType ==
    ASSUME NEW t \in Tabs, reqs \subseteq Request
    PROVE  Orphaned(t) \subseteq Request
BY DEF Orphaned, Request

(* What is left on the way to the tabs when one hangs up. *)
LEMMA UnreadType ==
    ASSUME NEW t \in Tabs, down \in [Sockets -> Seq(DownFrame)]
    PROVE  Unread(t) \in [Sockets -> Seq(DownFrame)]
BY EmptySeq DEF Unread

(* HttpConnection::send: an answer is well-formed, and is for a page. *)
LEMMA AnswerTypes ==
    ASSUME WireTypeOK, NEW r \in reqs, NEW ok \in BOOLEAN,
           NEW tok \in Tokens \cup {NoToken}, NEW msgs \in Seq(Message),
           AnswerWith(r, ok, tok, msgs)
    PROVE  reqs' \subseteq Request /\ replies' \subseteq Reply
<1>1. reqs \subseteq Request /\ replies \subseteq Reply /\ r \in Request
  BY DEF WireTypeOK
<1>2. reqs' \subseteq Request
  BY <1>1 DEF AnswerWith
<1>3. r.tab \in Tabs \cup {None} /\ r.kind \in Kinds /\ r.name \in Names
  BY <1>1 DEF Request
<1>4. CASE r.tab = None \/ r.kind = "post"
  BY <1>1, <1>2, <1>4 DEF AnswerWith
<1>5. CASE ~(r.tab = None \/ r.kind = "post")
  <2>1. [kind |-> r.kind, tab |-> r.tab, ok |-> ok, token |-> tok,
         name |-> r.name, messages |-> msgs] \in Reply
    BY <1>3, <1>5 DEF Reply
  <2> QED
    BY <1>1, <1>2, <1>5, <2>1 DEF AnswerWith
<1> QED
  BY <1>4, <1>5

(* What a socket's two ends are after connectWs. *)
LEMMA ConnectTypes ==
    ASSUME TypeOK, NEW t \in Tabs, NEW tok \in Tokens \cup {NoToken}, Connect(t, tok)
    PROVE  /\ ss' \in [Sockets -> {"none", "asked", "refused", "switching", "hub", "closing"}]
           /\ asked' \in [Sockets -> Tokens \cup {NoToken}]
           /\ ws' \in [Tabs -> Sockets \cup {None}]
           /\ ready' \in [Tabs -> {"connecting", "open", "closing", "closed"}]
           /\ \A u \in Tabs : ready'[u] = "closed" <=> ws'[u] = None
           /\ HubKnowsUser =>
                \A s \in Sockets :
                    ss'[s] \in {"switching", "hub", "closing"} => wsUser[s] \in Names
BY SetsAssumption DEF Connect, TypeOK, ServerTypeOK, TabTypeOK, HubKnowsUser

(* What a tab has after its socket is closed. *)
LEMMA HangupTypes ==
    ASSUME TypeOK, NEW t \in Tabs, Hangup(t)
    PROVE  /\ ws' \in [Tabs -> Sockets \cup {None}]
           /\ ready' \in [Tabs -> {"connecting", "open", "closing", "closed"}]
           /\ \A u \in Tabs : ready'[u] = "closed" <=> ws'[u] = None
           /\ down' \in [Sockets -> Seq(DownFrame)]
<1>1. down \in [Sockets -> Seq(DownFrame)]
  BY DEF TypeOK, WireTypeOK
<1> QED
  BY <1>1, UnreadType DEF Hangup, TypeOK, TabTypeOK

(* The chat page starts: every variable keeps its type. *)
LEMMA LoadChatTypes ==
    ASSUME TypeInv, NEW t \in Tabs, NEW tok \in Tokens \cup {NoToken}, NEW n \in Names,
           LoadChat(t, tok, n), UNCHANGED <<roomVars, sessVars>>
    PROVE  ServerTypeOK' /\ TabTypeOK' /\ WireTypeOK' /\ HubKnowsUser'
<1>1. Connect(t, tok) /\ UNCHANGED <<wsUser, since, up>>
  BY DEF LoadChat
<1>2. ServerTypeOK' /\ HubKnowsUser'
  BY <1>1, ConnectTypes DEF TypeInv, TypeOK, ServerTypeOK, HubKnowsUser, roomVars, sessVars
<1>3. TabTypeOK'
  <2>1. \A u \in Tabs : page[u] = "chat" => me[u] # None
    BY DEF TypeInv, TypeOK, TabTypeOK
  <2>2. /\ page' \in [Tabs -> {"login", "chat", "gone"}]
        /\ token' \in [Tabs -> Tokens \cup {NoToken}]
        /\ me' \in [Tabs -> Names \cup {None}]
        /\ served' \in [Tabs -> Nat \cup {-1}]
    BY DEF TypeInv, TypeOK, TabTypeOK, LoadChat
  <2>3. shown' \in [Tabs -> Seq(Message)]
    BY EmptySeq DEF TypeInv, TypeOK, TabTypeOK, LoadChat
  <2>4. \A u \in Tabs : page'[u] = "chat" => me'[u] # None
    BY <2>1, SetsAssumption DEF TypeInv, TypeOK, TabTypeOK, LoadChat
  <2> QED
    BY <1>1, <2>2, <2>3, <2>4, ConnectTypes DEF TypeInv, TabTypeOK
<1>4. WireTypeOK'
  <2>1. "history" \in Kinds
    BY DEF Kinds
  <2>2. reqs' \subseteq Request
    BY <2>1, AskType, OrphanedType DEF TypeInv, TypeOK, WireTypeOK, LoadChat
  <2>3. replies' \subseteq Reply
    BY DEF TypeInv, TypeOK, WireTypeOK, LoadChat, NotFor
  <2>4. down' \in [Sockets -> Seq(DownFrame)]
    BY UnreadType DEF TypeInv, TypeOK, WireTypeOK, LoadChat
  <2> QED
    BY <1>1, <2>2, <2>3, <2>4 DEF TypeInv, TypeOK, WireTypeOK
<1> QED
  BY <1>2, <1>3, <1>4

(* A page goes away: the tabs and the wire keep their types. *)
LEMMA LeavePageTypes ==
    ASSUME TypeInv, NEW t \in Tabs, NEW to \in {"login", "gone"}, LeavePage(t, to),
           \/ UNCHANGED storeVars
           \/ /\ token' = [token EXCEPT ![t] = NoToken]
              /\ me' = [me EXCEPT ![t] = None]
    PROVE  TabTypeOK' /\ WireTypeOK'
<1>1. Hangup(t) /\ UNCHANGED up
  BY DEF LeavePage
<1>2. TabTypeOK'
  <2>1. /\ page' \in [Tabs -> {"login", "chat", "gone"}]
        /\ served' \in [Tabs -> Nat \cup {-1}]
    BY DEF TypeInv, TypeOK, TabTypeOK, LeavePage
  <2>2. token' \in [Tabs -> Tokens \cup {NoToken}] /\ me' \in [Tabs -> Names \cup {None}]
    BY DEF TypeInv, TypeOK, TabTypeOK, storeVars
  <2>3. shown' \in [Tabs -> Seq(Message)]
    BY EmptySeq DEF TypeInv, TypeOK, TabTypeOK, LeavePage
  <2>4. \A u \in Tabs : page'[u] = "chat" => me'[u] # None
    BY DEF TypeInv, TypeOK, TabTypeOK, LeavePage, storeVars
  <2> QED
    BY <1>1, <2>1, <2>2, <2>3, <2>4, HangupTypes DEF TypeInv, TabTypeOK
<1>3. WireTypeOK'
  <2>1. reqs' \subseteq Request
    BY OrphanedType DEF TypeInv, TypeOK, WireTypeOK, LeavePage
  <2>2. replies' \subseteq Reply
    BY DEF TypeInv, TypeOK, WireTypeOK, LeavePage, NotFor
  <2> QED
    BY <1>1, <2>1, <2>2, HangupTypes DEF TypeInv, TypeOK, WireTypeOK
<1> QED
  BY <1>2, <1>3

(* Room::addMessage: the history, the log and what is broadcast. *)
LEMMA AddMessageTypes ==
    ASSUME TypeOK, NEW from \in Names, NEW by \in Names, AddMessage(from, by)
    PROVE  /\ history' \in Seq(Message) /\ log' \in Seq(Message)
           /\ down' \in [Sockets -> Seq(DownFrame)]
<1> DEFINE m == [id |-> Len(log) + 1, from |-> from, by |-> by]
           f == [type |-> "chat", message |-> m]
<1>1. /\ history \in Seq(Message) /\ log \in Seq(Message)
      /\ down \in [Sockets -> Seq(DownFrame)]
  BY DEF TypeOK, ServerTypeOK, WireTypeOK
<1>2. m \in Message
  <2>1. Len(log) \in Nat
    BY <1>1, LenProperties
  <2> QED
    BY <2>1 DEF Message
<1>3. f \in DownFrame
  BY <1>2 DEF DownFrame
<1>4. /\ log' = Append(log, m) /\ history' = Trimmed(Append(history, m))
      /\ down' = [s \in Sockets |-> IF InHub(s) /\ Linked(s) THEN Append(down[s], f)
                                                          ELSE down[s]]
  BY DEF AddMessage
<1> HIDE DEF m, f
<1>5. log' \in Seq(Message) /\ Append(history, m) \in Seq(Message)
  BY <1>1, <1>2, <1>4, AppendProperties
<1>6. history' \in Seq(Message)
  <2>1. Append(history, m) # <<>>
    BY <1>1, <1>2, AppendProperties
  <2> QED
    BY <1>4, <1>5, <2>1, HeadTailProperties DEF Trimmed
<1>7. \A s \in Sockets : Append(down[s], f) \in Seq(DownFrame)
  BY <1>1, <1>3, AppendProperties
<1> QED
  BY <1>1, <1>4, <1>5, <1>6, <1>7

(* A step of a page that leaves the server alone. *)
LEMMA ServerSame ==
    ASSUME TypeInv, UNCHANGED serverVars
    PROVE  ServerTypeOK' /\ HubKnowsUser'
BY DEF TypeInv, TypeOK, ServerTypeOK, HubKnowsUser, serverVars, roomVars, sessVars, hubVars

(* A step of the server that leaves the tabs alone. *)
LEMMA TabSame ==
    ASSUME TypeInv, UNCHANGED tabVars
    PROVE  TabTypeOK'
BY DEF TypeInv, TypeOK, TabTypeOK, tabVars, storeVars, wsVars, pageVars

(* The login form. *)
LEMMA SubmitLoginTypes ==
    ASSUME TypeInv, NEW t \in Tabs, NEW n \in Names, SubmitLogin(t, n)
    PROVE  ServerTypeOK' /\ HubKnowsUser' /\ TabTypeOK' /\ WireTypeOK'
<1>1. "login" \in Kinds /\ NoToken \in Tokens \cup {NoToken}
  BY DEF Kinds
<1>2. reqs' \subseteq Request
  BY <1>1, AskType DEF SubmitLogin, TypeInv, TypeOK, WireTypeOK
<1>3. UNCHANGED serverVars /\ UNCHANGED tabVars
  BY DEF SubmitLogin
<1> QED
  BY <1>2, <1>3, ServerSame, TabSame
     DEF SubmitLogin, TypeInv, TypeOK, WireTypeOK, linkVars

(* The fields of a reply. *)
LEMMA ReplyParts ==
    ASSUME WireTypeOK, NEW r \in replies
    PROVE  /\ r.name \in Names /\ r.token \in Tokens \cup {NoToken}
           /\ r.messages \in Seq(Message) /\ r.tab \in Tabs
BY DEF WireTypeOK, Reply

(* The fields of a request. *)
LEMMA RequestParts ==
    ASSUME WireTypeOK, NEW r \in reqs
    PROVE  /\ r.name \in Names /\ r.token \in Tokens \cup {NoToken}
           /\ r.tab \in Tabs \cup {None} /\ r.kind \in Kinds
BY DEF WireTypeOK, Request

(* The login page reads its reply. *)
LEMMA LoginReplyTypes ==
    ASSUME TypeInv, NEW t \in Tabs, NEW r \in replies, LoginReply(t, r)
    PROVE  ServerTypeOK' /\ HubKnowsUser' /\ TabTypeOK' /\ WireTypeOK'
<1>1. UNCHANGED <<roomVars, sessVars>>
  BY DEF LoginReply
<1>2. CASE r.ok /\ LoadChat(t, r.token, r.name)
  BY <1>1, <1>2, ReplyParts, LoadChatTypes DEF TypeInv, TypeOK
<1>3. CASE ~r.ok /\ replies' = replies \ {r} /\ UNCHANGED <<hubVars, linkVars, tabVars, reqs>>
  <2>1. UNCHANGED serverVars /\ UNCHANGED tabVars
    BY <1>1, <1>3 DEF serverVars
  <2> QED
    BY <1>3, <2>1, ServerSame, TabSame DEF TypeInv, TypeOK, WireTypeOK, linkVars
<1> QED
  BY <1>2, <1>3 DEF LoginReply

(* The chat page is loaded again. *)
LEMMA ReloadTypes ==
    ASSUME TypeInv, NEW t \in Tabs, Reload(t)
    PROVE  ServerTypeOK' /\ HubKnowsUser' /\ TabTypeOK' /\ WireTypeOK'
<1>1. token[t] \in Tokens \cup {NoToken} /\ me[t] \in Names
  BY DEF Reload, TypeInv, TypeOK, TabTypeOK
<1> QED
  BY <1>1, LoadChatTypes DEF Reload

(* loadHistory reads its reply. *)
LEMMA HistoryReplyTypes ==
    ASSUME TypeInv, NEW t \in Tabs, NEW r \in replies, HistoryReply(t, r)
    PROVE  ServerTypeOK' /\ HubKnowsUser' /\ TabTypeOK' /\ WireTypeOK'
<1>1. shown \in [Tabs -> Seq(Message)] /\ r.messages \in Seq(Message)
  BY ReplyParts DEF TypeInv, TypeOK, TabTypeOK
<1>2. shown' \in [Tabs -> Seq(Message)]
  BY <1>1, ConcatProperties DEF HistoryReply
<1>3. TabTypeOK'
  BY <1>2 DEF HistoryReply, TypeInv, TypeOK, TabTypeOK, storeVars, wsVars
<1>4. WireTypeOK'
  BY DEF HistoryReply, TypeInv, TypeOK, WireTypeOK, linkVars
<1> QED
  BY <1>3, <1>4, ServerSame DEF HistoryReply

(* A message is sent on the WebSocket. *)
LEMMA SayTypes ==
    ASSUME TypeInv, NEW t \in Tabs, Say(t)
    PROVE  ServerTypeOK' /\ HubKnowsUser' /\ TabTypeOK' /\ WireTypeOK'
<1>1. me[t] \in Names /\ up \in [Sockets -> Seq(UpFrame)]
  BY DEF Say, TypeInv, TypeOK, TabTypeOK, WireTypeOK
<1>2. [type |-> "text", by |-> me[t]] \in UpFrame
  BY <1>1 DEF UpFrame
<1>3. up' \in [Sockets -> Seq(UpFrame)]
  BY <1>1, <1>2, AppendProperties DEF Say
<1> QED
  BY <1>3, ServerSame, TabSame DEF Say, TypeInv, TypeOK, WireTypeOK, httpVars

(* A message is posted. *)
LEMMA PostTypes ==
    ASSUME TypeInv, NEW t \in Tabs, Post(t)
    PROVE  ServerTypeOK' /\ HubKnowsUser' /\ TabTypeOK' /\ WireTypeOK'
<1>1. token[t] \in Tokens \cup {NoToken} /\ me[t] \in Names /\ "post" \in Kinds
  BY DEF Post, TypeInv, TypeOK, TabTypeOK, Kinds
<1>2. reqs' \subseteq Request
  BY <1>1, AskType DEF Post, TypeInv, TypeOK, WireTypeOK
<1> QED
  BY <1>2, ServerSame, TabSame DEF Post, TypeInv, TypeOK, WireTypeOK, linkVars

(* The logout button, in each readyState. *)
LEMMA ClickLogoutTypes ==
    ASSUME TypeInv, NEW t \in Tabs, ClickLogout(t)
    PROVE  ServerTypeOK' /\ HubKnowsUser' /\ TabTypeOK' /\ WireTypeOK'
<1>1. token[t] \in Tokens \cup {NoToken} /\ me[t] \in Names /\ "logout" \in Kinds
  BY DEF ClickLogout, TypeInv, TypeOK, TabTypeOK, Kinds
<1>2. reqs' \subseteq Request /\ replies' \subseteq Reply
  BY <1>1, AskType DEF ClickLogout, TypeInv, TypeOK, WireTypeOK
<1>3. /\ ws' \in [Tabs -> Sockets \cup {None}]
      /\ ready' \in [Tabs -> {"connecting", "open", "closing", "closed"}]
      /\ \A u \in Tabs : ready'[u] = "closed" <=> ws'[u] = None
      /\ down' \in [Sockets -> Seq(DownFrame)]
      /\ up' \in [Sockets -> Seq(UpFrame)]
  <2>1. CASE ready[t] = "connecting" /\ Hangup(t) /\ UNCHANGED up
    BY <2>1, HangupTypes DEF TypeInv, TypeOK, WireTypeOK
  <2>2. CASE /\ ready[t] = "open"
             /\ ready' = [ready EXCEPT ![t] = "closing"]
             /\ up' = [up EXCEPT ![ws[t]] = Append(@, [type |-> "CLOSE"])]
             /\ UNCHANGED <<ws, down>>
    <3>1. [type |-> "CLOSE"] \in UpFrame
      BY DEF UpFrame
    <3>2. up' \in [Sockets -> Seq(UpFrame)]
      BY <2>2, <3>1, AppendProperties DEF TypeInv, TypeOK, WireTypeOK
    <3> QED
      BY <2>2, <3>2 DEF TypeInv, TypeOK, TabTypeOK, WireTypeOK
  <2>3. CASE UNCHANGED <<wsVars, linkVars>>
    BY <2>3 DEF TypeInv, TypeOK, TabTypeOK, WireTypeOK, wsVars, linkVars
  <2> QED
    BY <2>1, <2>2, <2>3 DEF ClickLogout
<1>4. UNCHANGED <<storeVars, pageVars>>
  BY DEF ClickLogout
<1>5. TabTypeOK'
  BY <1>3, <1>4 DEF TypeInv, TypeOK, TabTypeOK, storeVars, pageVars
<1> QED
  BY <1>2, <1>3, <1>5, ServerSame DEF ClickLogout, WireTypeOK

(* The reply to logout, or its failure: back to the login page. *)
LEMMA LogoutReplyTypes ==
    ASSUME TypeInv, NEW t \in Tabs, NEW r \in replies, LogoutReply(t, r)
    PROVE  ServerTypeOK' /\ HubKnowsUser' /\ TabTypeOK' /\ WireTypeOK'
<1>1. UNCHANGED serverVars
  BY DEF LogoutReply, LeavePage
<1> QED
  BY <1>1, ServerSame, LeavePageTypes DEF LogoutReply

(* The browser is closed. *)
LEMMA LeaveTypes ==
    ASSUME TypeInv, NEW t \in Tabs, Leave(t)
    PROVE  ServerTypeOK' /\ HubKnowsUser' /\ TabTypeOK' /\ WireTypeOK'
<1>1. UNCHANGED serverVars
  BY DEF Leave, LeavePage
<1> QED
  BY <1>1, ServerSame, LeavePageTypes DEF Leave

(* The timer of onclose fires. *)
LEMMA ReconnectTypes ==
    ASSUME TypeInv, NEW t \in Tabs, Reconnect(t)
    PROVE  ServerTypeOK' /\ HubKnowsUser' /\ TabTypeOK' /\ WireTypeOK'
<1>1. token[t] \in Tokens \cup {NoToken}
  BY DEF TypeInv, TypeOK, TabTypeOK
<1>2. /\ Connect(t, token[t])
      /\ UNCHANGED <<roomVars, sessVars, wsUser, since, linkVars, storeVars,
                     pageVars, httpVars>>
  BY DEF Reconnect
<1>3. ServerTypeOK' /\ HubKnowsUser'
  BY <1>1, <1>2, ConnectTypes
     DEF TypeInv, TypeOK, ServerTypeOK, HubKnowsUser, roomVars, sessVars
<1>4. TabTypeOK'
  BY <1>1, <1>2, ConnectTypes DEF TypeInv, TypeOK, TabTypeOK, storeVars, pageVars
<1> QED
  BY <1>2, <1>3, <1>4 DEF TypeInv, TypeOK, WireTypeOK, linkVars, httpVars

(* The tab reads its WebSocket. *)
LEMMA ReceiveTypes ==
    ASSUME TypeInv, NEW t \in Tabs, Receive(t)
    PROVE  ServerTypeOK' /\ HubKnowsUser' /\ TabTypeOK' /\ WireTypeOK'
<1> DEFINE s == ws[t]
           m == Head(down[s])
           Rest == [down EXCEPT ![s] = Tail(@)]
<1>1. s \in Sockets /\ down[s] # <<>> /\ ready[t] # "closed"
  BY DEF Receive, TypeInv, TypeOK, TabTypeOK
<1>2. m \in DownFrame /\ Rest \in [Sockets -> Seq(DownFrame)]
  BY <1>1, HeadTailProperties DEF TypeInv, TypeOK, WireTypeOK
<1>3. UNCHANGED serverVars /\ UNCHANGED <<up, storeVars, page, served, httpVars>>
  BY DEF Receive
<1>4. CASE m.type = "101" /\ down' = Rest /\ ready' = [ready EXCEPT ![t] = "open"]
           /\ UNCHANGED <<ws, shown>>
  BY <1>1, <1>2, <1>3, <1>4, ServerSame
     DEF TypeInv, TypeOK, TabTypeOK, WireTypeOK, storeVars, httpVars
<1>5. CASE /\ m.type = "chat" /\ down' = Rest
           /\ shown' = IF ready[t] = "open"
                       THEN [shown EXCEPT ![t] = Append(@, m.message)]
                       ELSE shown
           /\ UNCHANGED wsVars
  <2>1. m.message \in Message
    BY <1>2, <1>5 DEF DownFrame
  <2>2. shown' \in [Tabs -> Seq(Message)]
    BY <1>5, <2>1, AppendProperties DEF TypeInv, TypeOK, TabTypeOK
  <2> QED
    BY <1>2, <1>3, <1>5, <2>2, ServerSame
       DEF TypeInv, TypeOK, TabTypeOK, WireTypeOK, storeVars, wsVars, httpVars
<1>6. CASE m.type = "CLOSE" /\ Hangup(t) /\ UNCHANGED shown
  <2>1. TabTypeOK'
    BY <1>3, <1>6, HangupTypes DEF TypeInv, TypeOK, TabTypeOK, storeVars
  <2> QED
    BY <1>3, <1>6, <2>1, HangupTypes, ServerSame DEF TypeInv, TypeOK, WireTypeOK, httpVars
<1> QED
  BY <1>4, <1>5, <1>6 DEF Receive

(* The socket fails: the upgrade was refused, or the network broke. *)
LEMMA LostSocketTypes ==
    ASSUME TypeInv, NEW t \in Tabs, Refused(t) \/ Break(t)
    PROVE  ServerTypeOK' /\ HubKnowsUser' /\ TabTypeOK' /\ WireTypeOK'
<1>1. Hangup(t) /\ UNCHANGED <<serverVars, up, storeVars, pageVars, httpVars>>
  BY DEF Refused, Break
<1>2. TabTypeOK'
  BY <1>1, HangupTypes DEF TypeInv, TypeOK, TabTypeOK, storeVars, pageVars
<1> QED
  BY <1>1, <1>2, HangupTypes, ServerSame DEF TypeInv, TypeOK, WireTypeOK, httpVars

(* POST /api/login, refused or accepted. *)
LEMMA HandleLoginTypes ==
    ASSUME TypeInv, NEW r \in reqs, HandleLogin(r)
    PROVE  ServerTypeOK' /\ HubKnowsUser' /\ TabTypeOK' /\ WireTypeOK'
<1>1. /\ WireTypeOK /\ r.name \in Names /\ <<>> \in Seq(Message)
      /\ NoToken \in Tokens \cup {NoToken}
  BY RequestParts, EmptySeq DEF TypeInv, TypeOK
<1>2. UNCHANGED <<history, log, hubVars, linkVars, tabVars>>
  BY DEF HandleLogin
<1>3. CASE Answer(r, FALSE) /\ UNCHANGED <<sessVars, users>>
  <2>1. reqs' \subseteq Request /\ replies' \subseteq Reply
    BY <1>1, <1>3, AnswerTypes DEF Answer
  <2>2. UNCHANGED serverVars
    BY <1>2, <1>3 DEF serverVars, roomVars
  <2> QED
    BY <1>2, <2>1, <2>2, ServerSame, TabSame DEF TypeInv, TypeOK, WireTypeOK, linkVars
<1>4. CASE /\ counter < MaxTokens
           /\ users' = users \cup {r.name}
           /\ counter' = counter + 1
           /\ tok2user' = [tok2user EXCEPT ![Issued] = r.name]
           /\ AnswerWith(r, TRUE, Issued, <<>>)
  <2>1. Issued \in Tokens
    BY <1>4, BoundsAssumption DEF Issued, Tokens, TypeInv, TypeOK, ServerTypeOK
  <2>2. reqs' \subseteq Request /\ replies' \subseteq Reply
    BY <1>1, <1>4, <2>1, AnswerTypes
  <2>3. counter' \in 0..MaxTokens
    BY <1>4, BoundsAssumption DEF TypeInv, TypeOK, ServerTypeOK
  <2>4. ServerTypeOK' /\ HubKnowsUser'
    BY <1>1, <1>2, <1>4, <2>1, <2>3
       DEF TypeInv, TypeOK, ServerTypeOK, HubKnowsUser, hubVars
  <2> QED
    BY <1>2, <2>2, <2>4, TabSame DEF TypeInv, TypeOK, WireTypeOK, linkVars
<1> QED
  BY <1>3, <1>4 DEF HandleLogin

(* A 401. *)
LEMMA UnauthorizedTypes ==
    ASSUME TypeInv, NEW r \in reqs, Unauthorized(r)
    PROVE  ServerTypeOK' /\ HubKnowsUser' /\ TabTypeOK' /\ WireTypeOK'
<1>1. WireTypeOK /\ <<>> \in Seq(Message) /\ NoToken \in Tokens \cup {NoToken}
  BY EmptySeq DEF TypeInv, TypeOK
<1>2. reqs' \subseteq Request /\ replies' \subseteq Reply
  BY <1>1, AnswerTypes DEF Unauthorized, Answer
<1> QED
  BY <1>2, ServerSame, TabSame DEF Unauthorized, TypeInv, TypeOK, WireTypeOK, linkVars

(* GET /api/messages. *)
LEMMA HandleHistoryTypes ==
    ASSUME TypeInv, NEW r \in reqs, HandleHistory(r)
    PROVE  ServerTypeOK' /\ HubKnowsUser' /\ TabTypeOK' /\ WireTypeOK'
<1>1. /\ WireTypeOK /\ history \in Seq(Message) /\ Len(log) \in Nat
      /\ NoToken \in Tokens \cup {NoToken}
  BY LenProperties DEF TypeInv, TypeOK, ServerTypeOK
<1>2. reqs' \subseteq Request /\ replies' \subseteq Reply
  BY <1>1, AnswerTypes DEF HandleHistory
<1>3. TabTypeOK'
  BY <1>1 DEF HandleHistory, TypeInv, TypeOK, TabTypeOK, storeVars, wsVars
<1> QED
  BY <1>2, <1>3, ServerSame DEF HandleHistory, TypeInv, TypeOK, WireTypeOK, linkVars

(* POST /api/logout. *)
LEMMA HandleLogoutTypes ==
    ASSUME TypeInv, NEW r \in reqs, HandleLogout(r)
    PROVE  ServerTypeOK' /\ HubKnowsUser' /\ TabTypeOK' /\ WireTypeOK'
<1>1. WireTypeOK /\ <<>> \in Seq(Message) /\ NoToken \in Tokens \cup {NoToken}
  BY EmptySeq DEF TypeInv, TypeOK
<1>2. reqs' \subseteq Request /\ replies' \subseteq Reply
  BY <1>1, AnswerTypes DEF HandleLogout, Answer
<1>3. ServerTypeOK' /\ HubKnowsUser'
  BY DEF HandleLogout, TypeInv, TypeOK, ServerTypeOK, HubKnowsUser, hubVars
<1> QED
  BY <1>2, <1>3, TabSame DEF HandleLogout, TypeInv, TypeOK, WireTypeOK, linkVars

(* TokenStore::lookup gives a name or nothing. *)
LEMMA LookupType ==
    ASSUME TypeOK, NEW tok
    PROVE  Lookup(tok) \in Names \cup {None}
BY DEF TypeOK, ServerTypeOK, Lookup

(* POST /api/messages. *)
LEMMA HandlePostTypes ==
    ASSUME TypeInv, NEW r \in reqs, HandlePost(r)
    PROVE  ServerTypeOK' /\ HubKnowsUser' /\ TabTypeOK' /\ WireTypeOK'
<1>1. /\ WireTypeOK /\ <<>> \in Seq(Message) /\ NoToken \in Tokens \cup {NoToken}
      /\ TypeOK /\ r.name \in Names
  BY EmptySeq, RequestParts DEF TypeInv, TypeOK
<1>2. reqs' \subseteq Request /\ replies' \subseteq Reply
  BY <1>1, AnswerTypes DEF HandlePost, Answer
<1>3. Lookup(r.token) \in Names
  BY <1>1, LookupType DEF HandlePost
<1>4. /\ history' \in Seq(Message) /\ log' \in Seq(Message)
      /\ down' \in [Sockets -> Seq(DownFrame)]
  BY <1>1, <1>3, AddMessageTypes DEF HandlePost
<1>5. ServerTypeOK' /\ HubKnowsUser'
  BY <1>4 DEF HandlePost, TypeInv, TypeOK, ServerTypeOK, HubKnowsUser, sessVars, hubVars
<1> QED
  BY <1>2, <1>4, <1>5, TabSame DEF HandlePost, TypeInv, TypeOK, WireTypeOK

(* handleWsUpgrade_: a socket on its way to the hub has a user. *)
LEMMA UpgradeTypes ==
    ASSUME TypeInv, NEW s \in Sockets, Upgrade(s)
    PROVE  ServerTypeOK' /\ HubKnowsUser' /\ TabTypeOK' /\ WireTypeOK'
<1> DEFINE u == Lookup(asked[s])
<1>1. u \in Names \cup {None}
  BY LookupType DEF TypeInv
<1>2. /\ ss' = [ss EXCEPT ![s] = IF u = None THEN "refused" ELSE "switching"]
      /\ wsUser' = [wsUser EXCEPT ![s] = u]
      /\ asked' = [asked EXCEPT ![s] = NoToken]
      /\ UNCHANGED <<roomVars, sessVars, since>>
  BY DEF Upgrade, Verdict
<1> HIDE DEF u
<1>3. ServerTypeOK' /\ HubKnowsUser'
  BY <1>1, <1>2
     DEF TypeInv, TypeOK, ServerTypeOK, HubKnowsUser, roomVars, sessVars
<1> QED
  BY <1>3, TabSame DEF Upgrade, TypeInv, TypeOK, WireTypeOK, linkVars, httpVars

(* WsHub::adoptConnection. *)
LEMMA AdoptTypes ==
    ASSUME TypeInv, NEW s \in Sockets, Adopt(s)
    PROVE  ServerTypeOK' /\ HubKnowsUser' /\ TabTypeOK' /\ WireTypeOK'
<1>1. Len(log) \in Nat
  BY LenProperties DEF TypeInv, TypeOK, ServerTypeOK
<1>2. ServerTypeOK' /\ HubKnowsUser'
  BY <1>1 DEF Adopt, TypeInv, TypeOK, ServerTypeOK, HubKnowsUser, roomVars, sessVars
<1>3. Greeting \in Seq(DownFrame)
  <2>1. [type |-> "101"] \in DownFrame
    BY DEF DownFrame
  <2> QED
    BY <2>1 DEF Greeting
<1>4. down' \in [Sockets -> Seq(DownFrame)]
  BY <1>3 DEF Adopt, TypeInv, TypeOK, WireTypeOK
<1> QED
  BY <1>2, <1>4, TabSame DEF Adopt, TypeInv, TypeOK, WireTypeOK, httpVars

(* A text frame: it is posted under the name of a user. *)
LEMMA HandleTextTypes ==
    ASSUME TypeInv, NEW s \in Sockets, HandleText(s)
    PROVE  ServerTypeOK' /\ HubKnowsUser' /\ TabTypeOK' /\ WireTypeOK'
<1>1. /\ TypeOK /\ up \in [Sockets -> Seq(UpFrame)] /\ up[s] # <<>>
      /\ Head(up[s]).type = "text"
  BY DEF HandleText, TypeInv, TypeOK, WireTypeOK
<1>2. Head(up[s]) \in UpFrame /\ Tail(up[s]) \in Seq(UpFrame)
  BY <1>1, HeadTailProperties
<1>3. Head(up[s]).by \in Names
  BY <1>1, <1>2 DEF UpFrame
<1>4. wsUser[s] \in Names
  BY DEF HandleText, InHub, TypeInv, HubKnowsUser
<1>5. /\ history' \in Seq(Message) /\ log' \in Seq(Message)
      /\ down' \in [Sockets -> Seq(DownFrame)]
  BY <1>1, <1>3, <1>4, AddMessageTypes DEF HandleText
<1>6. up' \in [Sockets -> Seq(UpFrame)]
  BY <1>1, <1>2 DEF HandleText
<1>7. ServerTypeOK' /\ HubKnowsUser'
  BY <1>5 DEF HandleText, TypeInv, TypeOK, ServerTypeOK, HubKnowsUser, sessVars, hubVars
<1> QED
  BY <1>5, <1>6, <1>7, TabSame DEF HandleText, TypeInv, TypeOK, WireTypeOK, httpVars

(* A CLOSE frame. *)
LEMMA HandleCloseTypes ==
    ASSUME TypeInv, NEW s \in Sockets, HandleClose(s)
    PROVE  ServerTypeOK' /\ HubKnowsUser' /\ TabTypeOK' /\ WireTypeOK'
<1>1. up' \in [Sockets -> Seq(UpFrame)]
  BY HeadTailProperties DEF HandleClose, TypeInv, TypeOK, WireTypeOK
<1>2. [type |-> "CLOSE"] \in DownFrame
  BY DEF DownFrame
<1>3. down' \in [Sockets -> Seq(DownFrame)]
  BY <1>2, AppendProperties DEF HandleClose, TypeInv, TypeOK, WireTypeOK
<1>4. ServerTypeOK' /\ HubKnowsUser'
  BY DEF HandleClose, InHub, TypeInv, TypeOK, ServerTypeOK, HubKnowsUser, roomVars, sessVars
<1> QED
  BY <1>1, <1>3, <1>4, TabSame DEF HandleClose, TypeInv, TypeOK, WireTypeOK, httpVars

(* WsHub drops a connection. *)
LEMMA ForgetTypes ==
    ASSUME TypeInv, NEW s \in Sockets, Forget(s)
    PROVE  ServerTypeOK' /\ HubKnowsUser' /\ TabTypeOK' /\ WireTypeOK'
<1>1. ServerTypeOK' /\ HubKnowsUser'
  BY DEF Forget, TypeInv, TypeOK, ServerTypeOK, HubKnowsUser, roomVars, sessVars
<1>2. up' \in [Sockets -> Seq(UpFrame)]
  BY EmptySeq DEF Forget, TypeInv, TypeOK, WireTypeOK
<1> QED
  BY <1>1, <1>2, TabSame DEF Forget, TypeInv, TypeOK, WireTypeOK, httpVars

(* The server is started again. *)
LEMMA RestartTypes ==
    ASSUME TypeInv, Restart
    PROVE  ServerTypeOK' /\ HubKnowsUser' /\ TabTypeOK' /\ WireTypeOK'
<1>1. ServerTypeOK' /\ HubKnowsUser'
  BY BoundsAssumption, EmptySeq DEF Restart, TypeInv, TypeOK, ServerTypeOK, HubKnowsUser
<1>2. TabTypeOK'
  BY DEF Restart, TypeInv, TypeOK, TabTypeOK, storeVars, pageVars
<1>3. replies' \subseteq Reply
  <2> DEFINE Lost(r) == [kind |-> r.kind, tab |-> r.tab, ok |-> FALSE, token |-> NoToken,
                         name |-> r.name, messages |-> <<>>]
  <2>1. \A r \in reqs : r.tab # None /\ r.kind # "post" => Lost(r) \in Reply
    BY RequestParts, EmptySeq DEF TypeInv, TypeOK, Reply
  <2>2. replies' = replies \cup {Lost(r) : r \in {q \in reqs : q.tab # None /\ q.kind # "post"}}
    BY DEF Restart
  <2> QED
    BY <2>1, <2>2 DEF TypeInv, TypeOK, WireTypeOK
<1>4. up' \in [Sockets -> Seq(UpFrame)] /\ down' \in [Sockets -> Seq(DownFrame)]
  BY EmptySeq DEF Restart
<1> QED
  BY <1>1, <1>2, <1>3, <1>4 DEF Restart, WireTypeOK

-----------------------------------------------------------------------------

(* The initial state is well typed. *)
LEMMA InitTypes == Init => TypeInv
<1> SUFFICES ASSUME Init PROVE TypeInv
  OBVIOUS
<1>1. ServerTypeOK
  BY BoundsAssumption, EmptySeq DEF Init, ServerTypeOK
<1>2. TabTypeOK
  BY EmptySeq DEF Init, TabTypeOK
<1>3. WireTypeOK
  BY EmptySeq DEF Init, WireTypeOK
<1>4. HubKnowsUser /\ faults \in Nat /\ restarts \in Nat
  BY DEF Init, HubKnowsUser
<1> QED
  BY <1>1, <1>2, <1>3, <1>4 DEF TypeInv, TypeOK

(* A stuttering step. *)
LEMMA StutterTypes ==
    ASSUME TypeInv, UNCHANGED vars
    PROVE  TypeInv'
<1>1. ServerTypeOK' /\ HubKnowsUser' /\ TabTypeOK'
  BY ServerSame, TabSame DEF vars
<1>2. WireTypeOK' /\ faults' \in Nat /\ restarts' \in Nat
  BY DEF TypeInv, TypeOK, WireTypeOK, vars, linkVars, httpVars, boundVars
<1> QED
  BY <1>1, <1>2 DEF TypeInv, TypeOK

(* The bounds stay numbers. *)
LEMMA BoundTypes ==
    ASSUME TypeInv, Next
    PROVE  faults' \in Nat /\ restarts' \in Nat
<1>0. faults \in Nat /\ restarts \in Nat
  BY DEF TypeInv, TypeOK
<1>1. ASSUME NEW t \in Tabs, Visitor(t)
      PROVE  faults' \in Nat /\ restarts' \in Nat
  BY <1>0, <1>1 DEF Visitor, SubmitLogin, Reload, Say, Post, ClickLogout, Leave, LeavePage,
     boundVars
<1>2. ASSUME NEW t \in Tabs, Reading(t)
      PROVE  faults' \in Nat /\ restarts' \in Nat
  BY <1>0, <1>2 DEF Reading, LoginReply, HistoryReply, LogoutReply, LeavePage, boundVars
<1>3. ASSUME NEW t \in Tabs, WebSocket(t)
      PROVE  faults' \in Nat /\ restarts' \in Nat
  BY <1>0, <1>3 DEF WebSocket, Receive, Refused, Reconnect, boundVars
<1>4. ASSUME NEW t \in Tabs, Break(t)
      PROVE  faults' \in Nat /\ restarts' \in Nat
  BY <1>0, <1>4 DEF Break
<1>5. ASSUME NEW r \in reqs, Handler(r)
      PROVE  faults' \in Nat /\ restarts' \in Nat
  BY <1>0, <1>5 DEF Handler, HandleLogin, Unauthorized, HandleHistory, HandleLogout,
     HandlePost, boundVars
<1>6. ASSUME NEW s \in Sockets, Hub(s)
      PROVE  faults' \in Nat /\ restarts' \in Nat
  BY <1>0, <1>6 DEF Hub, Upgrade, Adopt, HandleText, HandleClose, Forget, boundVars
<1>7. CASE Restart
  BY <1>0, <1>7 DEF Restart
<1> QED
  BY <1>1, <1>2, <1>3, <1>4, <1>5, <1>6, <1>7 DEF Next

(* Every step keeps every type, one case for each action. *)
LEMMA NextTypes ==
    ASSUME TypeInv, [Next]_vars
    PROVE  TypeInv'
<1>1. CASE UNCHANGED vars
  BY <1>1, StutterTypes
<1>2. CASE Next
  <2> DEFINE Kept == ServerTypeOK' /\ HubKnowsUser' /\ TabTypeOK' /\ WireTypeOK'
  <2>1. ASSUME NEW t \in Tabs, Visitor(t)
        PROVE  Kept
    BY <2>1, SubmitLoginTypes, ReloadTypes, SayTypes, PostTypes, ClickLogoutTypes,
       LeaveTypes DEF Visitor
  <2>2. ASSUME NEW t \in Tabs, Reading(t)
        PROVE  Kept
    BY <2>2, LoginReplyTypes, HistoryReplyTypes, LogoutReplyTypes DEF Reading
  <2>3. ASSUME NEW t \in Tabs, WebSocket(t)
        PROVE  Kept
    BY <2>3, ReceiveTypes, LostSocketTypes, ReconnectTypes DEF WebSocket
  <2>4. ASSUME NEW t \in Tabs, Break(t)
        PROVE  Kept
    BY <2>4, LostSocketTypes
  <2>5. ASSUME NEW r \in reqs, Handler(r)
        PROVE  Kept
    BY <2>5, HandleLoginTypes, UnauthorizedTypes, HandleHistoryTypes, HandleLogoutTypes,
       HandlePostTypes DEF Handler
  <2>6. ASSUME NEW s \in Sockets, Hub(s)
        PROVE  Kept
    BY <2>6, UpgradeTypes, AdoptTypes, HandleTextTypes, HandleCloseTypes, ForgetTypes
       DEF Hub
  <2>7. ASSUME Restart PROVE Kept
    BY <2>7, RestartTypes
  <2>8. Kept
    BY <1>2, <2>1, <2>2, <2>3, <2>4, <2>5, <2>6, <2>7 DEF Next
  <2> QED
    BY <1>2, <2>8, BoundTypes DEF TypeInv, TypeOK
<1> QED
  BY <1>1, <1>2

(* Every variable always keeps its type: no message without a sender, no   *)
(* page without its user, no socket in the hub without a name.             *)
THEOREM TypeCorrect == Spec => []TypeOK
<1>1. Init => TypeInv
  BY InitTypes
<1>2. TypeInv /\ [Next]_vars => TypeInv'
  BY NextTypes
<1>3. TypeInv => TypeOK
  BY DEF TypeInv
<1> QED
  BY <1>1, <1>2, <1>3, PTL DEF Spec

-----------------------------------------------------------------------------

(* The tokens above counter_ have never been used; with this SessionsMatch  *)
(* is inductive.                                                           *)
FreshTokens == \A k \in Tokens : k > counter => tok2user[k] = None

SessionInv == TypeInv /\ FreshTokens /\ SessionsMatch

(* A login takes a name that is free and a token never used before. *)
LEMMA LoginKeepsSessions ==
    ASSUME SessionInv, NEW r \in reqs, HandleLogin(r)
    PROVE  FreshTokens' /\ SessionsMatch'
<1>1. CASE UNCHANGED <<sessVars, users>>
  BY <1>1 DEF SessionInv, FreshTokens, SessionsMatch, sessVars
<1>2. CASE ~UNCHANGED <<sessVars, users>>
  <2>1. /\ r.name \notin users /\ counter < MaxTokens
        /\ users' = users \cup {r.name}
        /\ counter' = counter + 1
        /\ tok2user' = [tok2user EXCEPT ![counter + 1] = r.name]
    BY <1>2 DEF HandleLogin, Taken, Issued
  <2>2. /\ r.name \in Names /\ r.name # None /\ counter + 1 \in Tokens
        /\ tok2user \in [Tokens -> Names \cup {None}]
    BY <2>1, RequestParts, SetsAssumption, BoundsAssumption
       DEF SessionInv, TypeInv, TypeOK, ServerTypeOK, Tokens
  <2>3. tok2user[counter + 1] = None
    BY <2>2 DEF SessionInv, FreshTokens, TypeInv, TypeOK, ServerTypeOK, Tokens
  <2>4. \A k \in Tokens : tok2user[k] # r.name
    BY <2>1, <2>2 DEF SessionInv, SessionsMatch
  <2>5. \A k \in Tokens : tok2user'[k] = IF k = counter + 1 THEN r.name ELSE tok2user[k]
    BY <2>1, <2>2
  <2>6. FreshTokens'
    BY <2>1, <2>5 DEF SessionInv, FreshTokens, TypeInv, TypeOK, ServerTypeOK, Tokens
  <2>7. \A n \in Names : n \in users' <=> \E k \in Tokens : tok2user'[k] = n
    <3> SUFFICES ASSUME NEW n \in Names
                 PROVE  n \in users' <=> \E k \in Tokens : tok2user'[k] = n
      OBVIOUS
    <3>1. CASE n = r.name
      BY <3>1, <2>1, <2>2, <2>5
    <3>2. CASE n # r.name
      <4>1. n \in users' <=> n \in users
        BY <3>2, <2>1
      <4>2. \A k \in Tokens : tok2user'[k] = n <=> tok2user[k] = n
        BY <3>2, <2>3, <2>5, SetsAssumption
      <4> QED
        BY <4>1, <4>2 DEF SessionInv, SessionsMatch
    <3> QED
      BY <3>1, <3>2
  <2>8. \A j, k \in Tokens : tok2user'[j] # None /\ tok2user'[j] = tok2user'[k] => j = k
    BY <2>4, <2>5 DEF SessionInv, SessionsMatch
  <2> QED
    BY <2>6, <2>7, <2>8 DEF SessionsMatch
<1> QED
  BY <1>1, <1>2

(* A logout gives back the name together with the token. *)
LEMMA LogoutKeepsSessions ==
    ASSUME SessionInv, NEW r \in reqs, HandleLogout(r)
    PROVE  FreshTokens' /\ SessionsMatch'
<1> DEFINE n == tok2user[r.token]
<1>1. /\ r.token \in Tokens /\ n # None /\ n \in Names
      /\ tok2user' = [tok2user EXCEPT ![r.token] = None]
      /\ users' = users \ {n} /\ counter' = counter
      /\ tok2user \in [Tokens -> Names \cup {None}]
  BY DEF HandleLogout, Lookup, SessionInv, TypeInv, TypeOK, ServerTypeOK
<1>2. \A k \in Tokens : tok2user'[k] = IF k = r.token THEN None ELSE tok2user[k]
  BY <1>1
<1>3. FreshTokens'
  BY <1>1, <1>2 DEF SessionInv, FreshTokens
<1>4. \A k \in Tokens : tok2user[k] = n => k = r.token
  BY <1>1 DEF SessionInv, SessionsMatch
<1> HIDE DEF n
<1>5. \A m \in Names : m \in users' <=> \E k \in Tokens : tok2user'[k] = m
  BY <1>1, <1>2, <1>4, SetsAssumption DEF SessionInv, SessionsMatch, n
<1>6. \A j, k \in Tokens : tok2user'[j] # None /\ tok2user'[j] = tok2user'[k] => j = k
  BY <1>2 DEF SessionInv, SessionsMatch
<1> QED
  BY <1>3, <1>5, <1>6 DEF SessionsMatch

(* After a restart nobody is there and no token is valid. *)
LEMMA RestartKeepsSessions ==
    ASSUME Restart
    PROVE  FreshTokens' /\ SessionsMatch'
BY SetsAssumption DEF Restart, FreshTokens, SessionsMatch

(* Whoever leaves TokenStore and Room alone. *)
LEMMA OthersKeepSessions ==
    ASSUME SessionInv, UNCHANGED <<users, sessVars>>
    PROVE  FreshTokens' /\ SessionsMatch'
BY DEF SessionInv, FreshTokens, SessionsMatch, sessVars

(* Every step keeps tokens and names together. *)
LEMMA NextKeepsSessions ==
    ASSUME SessionInv, [Next]_vars
    PROVE  SessionInv'
<1>1. TypeInv'
  BY NextTypes DEF SessionInv
<1> DEFINE Same == UNCHANGED <<users, sessVars>>
           Kept == FreshTokens' /\ SessionsMatch'
<1>2. ASSUME UNCHANGED vars PROVE Same
  BY <1>2 DEF vars, serverVars, roomVars
<1>3. ASSUME NEW t \in Tabs, Visitor(t) \/ Reading(t) \/ WebSocket(t) \/ Break(t)
      PROVE  Same
  <2>1. ASSUME Visitor(t) PROVE Same
    BY <2>1 DEF Visitor, SubmitLogin, Reload, Say, Post, ClickLogout, Leave, LeavePage,
       serverVars, roomVars
  <2>2. ASSUME Reading(t) PROVE Same
    BY <2>2 DEF Reading, LoginReply, HistoryReply, LogoutReply, LeavePage, serverVars,
       roomVars
  <2>3. ASSUME WebSocket(t) \/ Break(t) PROVE Same
    BY <2>3 DEF WebSocket, Break, Receive, Refused, Reconnect, serverVars, roomVars
  <2> QED
    BY <1>3, <2>1, <2>2, <2>3
<1>4. ASSUME NEW s \in Sockets, Hub(s)
      PROVE  Same
  BY <1>4 DEF Hub, Upgrade, Adopt, HandleText, HandleClose, Forget, roomVars
<1>5. ASSUME NEW r \in reqs, Handler(r)
      PROVE  Kept
  <2>1. ASSUME Unauthorized(r) \/ HandleHistory(r) \/ HandlePost(r) PROVE Same
    BY <2>1 DEF Unauthorized, HandleHistory, HandlePost, serverVars, roomVars
  <2> QED
    BY <1>5, <2>1, OthersKeepSessions, LoginKeepsSessions, LogoutKeepsSessions DEF Handler
<1>6. ASSUME Restart PROVE Kept
  BY <1>6, RestartKeepsSessions
<1> HIDE DEF Same
<1>7. Same => Kept
  BY OthersKeepSessions DEF Same
<1>8. Kept
  BY <1>2, <1>3, <1>4, <1>5, <1>6, <1>7 DEF Next
<1> QED
  BY <1>1, <1>8 DEF SessionInv

(* SessionsMatch, for any number of tabs, names, tokens and restarts: a name *)
(* is in Room::users_ exactly while one token of TokenStore stands for it. *)
THEOREM SessionsAlwaysMatch == Spec => []SessionsMatch
<1>1. Init => SessionInv
  <2>1. Init => FreshTokens /\ SessionsMatch
    BY SetsAssumption DEF Init, FreshTokens, SessionsMatch
  <2> QED
    BY <2>1, InitTypes DEF SessionInv
<1>2. SessionInv /\ [Next]_vars => SessionInv'
  BY NextKeepsSessions
<1>3. SessionInv => SessionsMatch
  BY DEF SessionInv
<1> QED
  BY <1>1, <1>2, <1>3, PTL DEF Spec

=============================================================================
