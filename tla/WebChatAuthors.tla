--------------------------- MODULE WebChatAuthors ---------------------------
(***************************************************************************)
(* Within one run of the server (MaxRestarts = 0) a token keeps its user,  *)
(* and every message carries its author's name.  A restart begins the      *)
(* numbering of the tokens again, so neither holds across it.              *)
(***************************************************************************)
EXTENDS WebChatProofs

(* tok was given out, to n, and nobody else has it since. *)
StandsFor(tok, n) == tok \in 1..counter /\ tok2user[tok] \in {n, None}

(* Whatever carries a token carries the name it was given out for. *)
PageTokens == \A t \in Tabs : page[t] = "chat" => StandsFor(token[t], me[t])
ReplyTokens == \A r \in replies : r.kind = "login" /\ r.ok => StandsFor(r.token, r.name)
RequestTokens == \A r \in reqs : r.kind # "login" => StandsFor(r.token, r.name)
TokensOK == PageTokens /\ ReplyTokens /\ RequestTokens
TokenInv == SessionInv /\ TokensOK

(* A token that was given out keeps its user: issue takes the next number, *)
(* revoke leaves nobody.                                                   *)
LEMMA StandsForStays ==
    ASSUME SessionInv, NEW tok, NEW n, StandsFor(tok, n),
           \/ UNCHANGED sessVars
           \/ \E r \in reqs : HandleLogin(r) \/ HandleLogout(r)
    PROVE  StandsFor(tok, n)'
<1>1. /\ tok \in 1..counter /\ tok2user[tok] \in {n, None}
      /\ counter \in Nat /\ tok2user \in [Tokens -> Names \cup {None}]
      /\ tok \in Tokens
  BY BoundsAssumption
     DEF StandsFor, SessionInv, TypeInv, TypeOK, ServerTypeOK, Tokens
<1>2. CASE UNCHANGED sessVars
  BY <1>1, <1>2 DEF StandsFor, sessVars
<1>3. ASSUME NEW r \in reqs, HandleLogin(r)
      PROVE  StandsFor(tok, n)'
  <2>1. CASE UNCHANGED sessVars
    BY <1>2, <2>1
  <2>2. CASE /\ counter' = counter + 1
             /\ tok2user' = [tok2user EXCEPT ![counter + 1] = r.name]
    <3>1. tok \in 1..counter' /\ tok # counter + 1
      BY <1>1, <2>2
    <3> QED
      BY <1>1, <2>2, <3>1 DEF StandsFor
  <2> QED
    BY <1>3, <2>1, <2>2 DEF HandleLogin, Issued
<1>4. ASSUME NEW r \in reqs, HandleLogout(r)
      PROVE  StandsFor(tok, n)'
  BY <1>1, <1>4 DEF HandleLogout, StandsFor
<1> QED
  BY <1>2, <1>3, <1>4

(* A request does not change when its page goes away. *)
LEMMA OrphanedFrom ==
    ASSUME WireTypeOK, NEW t \in Tabs, NEW q \in Orphaned(t)
    PROVE  \E r \in reqs : q.kind = r.kind /\ q.token = r.token /\ q.name = r.name
BY DEF WireTypeOK, Orphaned, Request

(* The chat page starts with a good token. *)
LEMMA LoadChatTokens ==
    ASSUME TokenInv, NEW t \in Tabs, NEW tok, NEW n, LoadChat(t, tok, n),
           UNCHANGED sessVars, StandsFor(tok, n)
    PROVE  TokensOK'
<1>1. StandsFor(tok, n)'
  BY StandsForStays DEF TokenInv
<1>2. WireTypeOK /\ TabTypeOK
  BY DEF TokenInv, SessionInv, TypeInv, TypeOK
<1>3. PageTokens'
  <2> SUFFICES ASSUME NEW u \in Tabs, page'[u] = "chat"
               PROVE  StandsFor(token[u], me[u])'
    BY DEF PageTokens, StandsFor
  <2>1. CASE u = t
    <3>1. token'[u] = tok /\ me'[u] = n
      BY <1>2, <2>1 DEF LoadChat, TabTypeOK
    <3> QED
      BY <1>1, <3>1 DEF StandsFor
  <2>2. CASE u # t
    <3>1. token'[u] = token[u] /\ me'[u] = me[u] /\ page[u] = "chat"
      BY <1>2, <2>2 DEF LoadChat, TabTypeOK
    <3>2. StandsFor(token[u], me[u])
      BY <3>1 DEF TokenInv, TokensOK, PageTokens
    <3> QED
      BY <3>1, <3>2 DEF StandsFor, sessVars
  <2> QED
    BY <2>1, <2>2
<1>4. ReplyTokens'
  BY DEF TokenInv, TokensOK, ReplyTokens, LoadChat, NotFor, StandsFor, sessVars
<1>5. RequestTokens'
  <2> SUFFICES ASSUME NEW q \in reqs', q.kind # "login"
               PROVE  StandsFor(q.token, q.name)'
    BY DEF RequestTokens, StandsFor
  <2>1. CASE q \in Orphaned(t)
    BY <1>2, <2>1, OrphanedFrom
       DEF TokenInv, TokensOK, RequestTokens, StandsFor, sessVars
  <2>2. CASE q = Ask(t, "history", tok, n)
    BY <1>1, <2>2 DEF Ask, StandsFor
  <2> QED
    BY <2>1, <2>2 DEF LoadChat
<1> QED
  BY <1>3, <1>4, <1>5 DEF TokensOK

(* A page goes away, with localStorage cleared or not. *)
LEMMA LeavePageTokens ==
    ASSUME TokenInv, NEW t \in Tabs, NEW to \in {"login", "gone"}, LeavePage(t, to),
           \/ UNCHANGED storeVars
           \/ /\ token' = [token EXCEPT ![t] = NoToken]
              /\ me' = [me EXCEPT ![t] = None]
    PROVE  TokensOK'
<1>1. WireTypeOK /\ TabTypeOK
  BY DEF TokenInv, SessionInv, TypeInv, TypeOK
<1>2. counter' = counter /\ tok2user' = tok2user
  BY DEF LeavePage, serverVars, sessVars
<1>3. PageTokens'
  <2> SUFFICES ASSUME NEW u \in Tabs, page'[u] = "chat"
               PROVE  StandsFor(token[u], me[u])'
    BY DEF PageTokens, StandsFor
  <2>1. token'[u] = token[u] /\ me'[u] = me[u] /\ page[u] = "chat"
    BY <1>1 DEF LeavePage, TabTypeOK, storeVars
  <2> QED
    BY <1>2, <2>1 DEF TokenInv, TokensOK, PageTokens, StandsFor
<1>4. ReplyTokens'
  BY <1>2 DEF TokenInv, TokensOK, ReplyTokens, LeavePage, NotFor, StandsFor
<1>5. RequestTokens'
  BY <1>1, <1>2, OrphanedFrom
     DEF TokenInv, TokensOK, RequestTokens, LeavePage, StandsFor
<1> QED
  BY <1>3, <1>4, <1>5 DEF TokensOK

(* A page sends at most a request with its own token. *)
LEMMA AskTokens ==
    ASSUME TokenInv, UNCHANGED <<sessVars, storeVars, page>>,
           replies' \subseteq replies,
           \/ reqs' = reqs
           \/ \E t \in Tabs, kind \in Kinds :
                 page[t] = "chat" /\ reqs' = reqs \cup {Ask(t, kind, token[t], me[t])}
           \/ \E t \in Tabs, n \in Names : reqs' = reqs \cup {Ask(t, "login", NoToken, n)}
    PROVE  TokensOK'
<1>1. counter' = counter /\ tok2user' = tok2user
  BY DEF sessVars
<1>2. PageTokens' /\ ReplyTokens'
  BY <1>1 DEF TokenInv, TokensOK, PageTokens, ReplyTokens, StandsFor, storeVars
<1>3. ASSUME NEW q \in reqs', q.kind # "login"
      PROVE  StandsFor(q.token, q.name)
  BY <1>3 DEF TokenInv, TokensOK, RequestTokens, PageTokens, Ask
<1>4. RequestTokens'
  BY <1>1, <1>3 DEF RequestTokens, StandsFor
<1> QED
  BY <1>2, <1>4 DEF TokensOK

(* The routes: the only new reply with a token is that to a login. *)
LEMMA AnswerTokens ==
    ASSUME TokenInv, NEW r \in reqs, Handler(r)
    PROVE  TokensOK'
<1>1. \A tok, n : StandsFor(tok, n) => StandsFor(tok, n)'
  <2> SUFFICES ASSUME NEW tok, NEW n, StandsFor(tok, n)
               PROVE  StandsFor(tok, n)'
    OBVIOUS
  <2>1. UNCHANGED sessVars \/ HandleLogin(r) \/ HandleLogout(r)
    BY DEF Handler, Unauthorized, HandleHistory, HandlePost, serverVars
  <2> QED
    BY <2>1, StandsForStays DEF TokenInv
<1>2. UNCHANGED <<storeVars, page>>
  BY DEF Handler, HandleLogin, Unauthorized, HandleHistory, HandleLogout, HandlePost,
     tabVars, pageVars
<1>3. PageTokens'
  BY <1>1, <1>2 DEF TokenInv, TokensOK, PageTokens, storeVars, StandsFor
<1>4. reqs' = reqs \ {r}
  BY DEF Handler, HandleLogin, Unauthorized, HandleHistory, HandleLogout, HandlePost,
     Answer, AnswerWith
<1>5. RequestTokens'
  BY <1>1, <1>4 DEF TokenInv, TokensOK, RequestTokens, StandsFor
<1>6. ReplyTokens'
  <2> SUFFICES ASSUME NEW p \in replies', p.kind = "login", p.ok
               PROVE  StandsFor(p.token, p.name)'
    BY DEF ReplyTokens, StandsFor
  <2>1. CASE p \in replies
    BY <1>1, <2>1 DEF TokenInv, TokensOK, ReplyTokens
  <2>2. CASE p \notin replies
    <3>1. /\ HandleLogin(r) /\ AnswerWith(r, TRUE, Issued, <<>>)
          /\ p.token = Issued /\ p.name = r.name
          /\ counter < MaxTokens /\ counter' = counter + 1
          /\ tok2user' = [tok2user EXCEPT ![Issued] = r.name]
      BY <2>2 DEF Handler, HandleLogin, Unauthorized, HandleHistory, HandleLogout,
         HandlePost, Answer, AnswerWith
    <3>2. counter \in Nat /\ tok2user \in [Tokens -> Names \cup {None}]
          /\ Issued \in Tokens /\ Issued = counter + 1
      BY <3>1, BoundsAssumption
         DEF TokenInv, SessionInv, TypeInv, TypeOK, ServerTypeOK, Tokens, Issued
    <3> QED
      BY <3>1, <3>2 DEF StandsFor
  <2> QED
    BY <2>1, <2>2
<1> QED
  BY <1>3, <1>5, <1>6 DEF TokensOK

(* With MaxRestarts = 0 the server runs once. *)
LEMMA NoRestart ==
    ASSUME MaxRestarts = 0, TypeInv
    PROVE  ~Restart
BY BoundsAssumption DEF TypeInv, TypeOK, Restart

(* Every step keeps every token with its user. *)
LEMMA NextKeepsTokens ==
    ASSUME MaxRestarts = 0, TokenInv, [Next]_vars
    PROVE  TokenInv'
<1>1. SessionInv'
  BY NextKeepsSessions DEF TokenInv
<1>2. ASSUME UNCHANGED vars PROVE TokensOK'
  <2>1. UNCHANGED <<sessVars, storeVars, page>> /\ reqs' = reqs /\ replies' = replies
    BY <1>2 DEF vars, serverVars, tabVars, pageVars, httpVars
  <2> QED
    BY <2>1, AskTokens
<1>3. ASSUME NEW t \in Tabs, Visitor(t)
      PROVE  TokensOK'
  <2>1. CASE \E n \in Names : SubmitLogin(t, n)
    BY <2>1, AskTokens DEF SubmitLogin, serverVars, tabVars, pageVars
  <2>2. CASE Reload(t)
    <3>1. StandsFor(token[t], me[t])
      BY <2>2 DEF Reload, TokenInv, TokensOK, PageTokens
    <3> QED
      BY <2>2, <3>1, LoadChatTokens DEF Reload
  <2>3. CASE Say(t)
    BY <2>3, AskTokens DEF Say, serverVars, tabVars, pageVars, httpVars
  <2>4. CASE Post(t) \/ ClickLogout(t)
    <3>1. "post" \in Kinds /\ "logout" \in Kinds
      BY DEF Kinds
    <3>2. /\ \E kind \in Kinds :
               page[t] = "chat" /\ reqs' = reqs \cup {Ask(t, kind, token[t], me[t])}
          /\ replies' \subseteq replies
      BY <2>4, <3>1 DEF Post, ClickLogout
    <3>3. UNCHANGED <<sessVars, storeVars, page>>
      BY <2>4 DEF Post, ClickLogout, serverVars, tabVars, pageVars
    <3> QED
      BY <3>2, <3>3, AskTokens
  <2>5. CASE Leave(t)
    BY <2>5, LeavePageTokens DEF Leave
  <2> QED
    BY <1>3, <2>1, <2>2, <2>3, <2>4, <2>5 DEF Visitor
<1>4. ASSUME NEW t \in Tabs, Reading(t)
      PROVE  TokensOK'
  <2> PICK r \in replies : LoginReply(t, r) \/ HistoryReply(t, r) \/ LogoutReply(t, r)
    BY <1>4 DEF Reading
  <2>1. CASE LoginReply(t, r)
    <3>1. CASE r.ok /\ LoadChat(t, r.token, r.name)
      <4>1. StandsFor(r.token, r.name)
        BY <2>1, <3>1 DEF LoginReply, TokenInv, TokensOK, ReplyTokens
      <4> QED
        BY <2>1, <3>1, <4>1, LoadChatTokens DEF LoginReply
    <3>2. CASE ~r.ok
      BY <2>1, <3>2, AskTokens DEF LoginReply, tabVars, pageVars
    <3> QED
      BY <2>1, <3>1, <3>2 DEF LoginReply
  <2>2. CASE HistoryReply(t, r)
    BY <2>2, AskTokens DEF HistoryReply, serverVars
  <2>3. CASE LogoutReply(t, r)
    BY <2>3, LeavePageTokens DEF LogoutReply
  <2> QED
    BY <2>1, <2>2, <2>3
<1>5. ASSUME NEW t \in Tabs, WebSocket(t) \/ Break(t)
      PROVE  TokensOK'
  BY <1>5, AskTokens
     DEF WebSocket, Receive, Refused, Reconnect, Break, serverVars, pageVars, httpVars
<1>6. ASSUME NEW r \in reqs, Handler(r)
      PROVE  TokensOK'
  BY <1>6, AnswerTokens
<1>7. ASSUME NEW s \in Sockets, Hub(s)
      PROVE  TokensOK'
  <2>1. UNCHANGED <<sessVars, tabVars, httpVars>>
    BY <1>7 DEF Hub, Upgrade, Adopt, HandleText, HandleClose, Forget
  <2> QED
    BY <2>1, AskTokens DEF tabVars, pageVars, httpVars
<1>8. ~Restart
  BY NoRestart DEF TokenInv, SessionInv
<1> QED
  BY <1>1, <1>2, <1>3, <1>4, <1>5, <1>6, <1>7, <1>8 DEF Next, TokenInv

(* Nothing is held at the start. *)
LEMMA InitTokens == Init => TokenInv
<1>1. Init => TokensOK
  BY DEF Init, TokensOK, PageTokens, ReplyTokens, RequestTokens
<1>2. Init => FreshTokens /\ SessionsMatch
  BY SetsAssumption DEF Init, FreshTokens, SessionsMatch
<1> QED
  BY <1>1, <1>2, InitTypes DEF TokenInv, SessionInv

(* TokenKeepsItsUser, within one run of the server: the token of a chat page *)
(* stands for the user of that page or for nobody.                         *)
THEOREM TokensAreKept ==
    ASSUME MaxRestarts = 0
    PROVE  Spec => []TokenKeepsItsUser
<1>1. Init => TokenInv
  BY InitTokens
<1>2. TokenInv /\ [Next]_vars => TokenInv'
  BY NextKeepsTokens
<1>3. TokenInv => TokenKeepsItsUser
  BY DEF TokenInv, TokensOK, PageTokens, StandsFor, TokenKeepsItsUser, Lookup
<1> QED
  BY <1>1, <1>2, <1>3, PTL DEF Spec

-----------------------------------------------------------------------------

(* A 101 may only be the first thing on a socket, before it is open. *)
None101(q) == \A i \in DOMAIN q : q[i].type # "101"
First101(q) == \A i \in DOMAIN q : q[i].type = "101" => i = 1

(* The socket of a tab that is connecting, open, or closing: at the server's *)
(* end it is asked with the tab's token or belongs to the tab's user.        *)
Dialling(t, s) ==
    /\ ss[s] \in {"asked", "refused", "switching", "hub"}
    /\ up[s] = <<>>
    /\ ss[s] = "asked" => asked[s] = token[t]
    /\ ss[s] \in {"switching", "hub"} => wsUser[s] = me[t]
    /\ ss[s] # "hub" => down[s] = <<>>
    /\ First101(down[s])
Talking(t, s) ==
    /\ ss[s] = "hub" /\ wsUser[s] = me[t]
    /\ \A i \in DOMAIN up[s] : up[s][i].type # "CLOSE"
    /\ None101(down[s])
Closing(s) ==
    /\ ss[s] \in {"hub", "closing", "none"}
    /\ None101(down[s])

TabLink(t) ==
    /\ ws[t] # None => page[t] = "chat"
    /\ ready[t] = "connecting" => Dialling(t, ws[t])
    /\ ready[t] = "open" => Talking(t, ws[t])
    /\ ready[t] = "closing" => Closing(ws[t])

(* What is under way on a socket was written by the user it belongs to. *)
SentAs(s) ==
    /\ ~InHub(s) => up[s] = <<>>
    /\ \A i \in DOMAIN up[s] : up[s][i].type = "text" => up[s][i].by = wsUser[s]

(* Nothing is under way to a tab that is not there. *)
Dangling(s) == ~Linked(s) => down[s] = <<>>

(* No two tabs share a socket, and each socket serves the user of its tab. *)
LinkInv ==
    /\ \A t, u \in Tabs : ws[t] # None /\ ws[t] = ws[u] => t = u
    /\ \A t \in Tabs : TabLink(t)
    /\ \A s \in Sockets : SentAs(s) /\ Dangling(s)

AuthorInv == TokenInv /\ LinkInv

(* What holds of the frames of a queue when the first one is taken. *)
LEMMA TailFrames ==
    ASSUME NEW F, NEW q \in Seq(F), q # <<>>
    PROVE  /\ None101(q) => None101(Tail(q))
           /\ First101(q) => None101(Tail(q))
           /\ (\A i \in DOMAIN q : q[i].type # "CLOSE")
                => \A i \in DOMAIN Tail(q) : Tail(q)[i].type # "CLOSE"
           /\ \A n : (\A i \in DOMAIN q : q[i].type = "text" => q[i].by = n)
                  => \A i \in DOMAIN Tail(q) : Tail(q)[i].type = "text" => Tail(q)[i].by = n
<1>1. \A i \in DOMAIN Tail(q) :
          i \in Nat /\ i # 0 /\ i + 1 \in DOMAIN q /\ Tail(q)[i] = q[i + 1]
  BY HeadTailProperties, LenProperties
<1> QED
  BY <1>1 DEF None101, First101

(* What holds of the frames of a queue, and of one more. *)
LEMMA AppendFrames ==
    ASSUME NEW F, NEW q \in Seq(F), NEW f \in F
    PROVE  /\ None101(q) /\ f.type # "101" => None101(Append(q, f))
           /\ First101(q) /\ f.type # "101" => First101(Append(q, f))
           /\ (\A i \in DOMAIN q : q[i].type # "CLOSE") /\ f.type # "CLOSE"
                => \A i \in DOMAIN Append(q, f) : Append(q, f)[i].type # "CLOSE"
           /\ \A n : /\ \A i \in DOMAIN q : q[i].type = "text" => q[i].by = n
                     /\ f.type = "text" => f.by = n
                  => \A i \in DOMAIN Append(q, f) :
                        Append(q, f)[i].type = "text" => Append(q, f)[i].by = n
<1>1. \A i \in DOMAIN Append(q, f) :
          \/ i \in DOMAIN q /\ Append(q, f)[i] = q[i]
          \/ Append(q, f)[i] = f
  BY AppendProperties, LenProperties
<1> QED
  BY <1>1 DEF None101, First101

(* A tab has a socket exactly when its readyState is not CLOSED. *)
LEMMA SocketOf ==
    ASSUME TypeInv, NEW t \in Tabs
    PROVE  /\ ready[t] # "closed" <=> ws[t] # None
           /\ ws[t] # None => ws[t] \in Sockets
BY DEF TypeInv, TypeOK, TabTypeOK

(* TabLink(u) is about u and its socket only. *)
LEMMA TabLinkStays ==
    ASSUME TypeInv, NEW u \in Tabs, TabLink(u),
           ws'[u] = ws[u], ready'[u] = ready[u], page'[u] = page[u],
           token'[u] = token[u], me'[u] = me[u],
           ws[u] # None => /\ ss'[ws[u]] = ss[ws[u]]
                           /\ asked'[ws[u]] = asked[ws[u]]
                           /\ wsUser'[ws[u]] = wsUser[ws[u]]
                           /\ up'[ws[u]] = up[ws[u]]
                           /\ down'[ws[u]] = down[ws[u]]
    PROVE  TabLink(u)'
BY SocketOf DEF TabLink, Dialling, Talking, Closing, First101, None101

(* A step that touches no WebSocket and no page. *)
LEMMA LinksStay ==
    ASSUME TypeInv, LinkInv,
           UNCHANGED <<ss, asked, wsUser, up, down, page, storeVars, wsVars>>
    PROVE  LinkInv'
<1>1. \A u \in Tabs : TabLink(u)'
  BY TabLinkStays DEF LinkInv, storeVars, wsVars
<1>2. \A s \in Sockets : SentAs(s)' /\ Dangling(s)'
  BY DEF LinkInv, SentAs, Dangling, Linked, InHub, wsVars
<1> QED
  BY <1>1, <1>2 DEF LinkInv, wsVars

(* connectWs takes a socket that is new at both ends. *)
LEMMA ConnectLinks ==
    ASSUME TypeInv, LinkInv, NEW t \in Tabs, NEW tok, Connect(t, tok),
           down' = Unread(t), UNCHANGED <<wsUser, up>>,
           page'[t] = "chat", token'[t] = tok,
           \A u \in Tabs \ {t} : page'[u] = page[u] /\ token'[u] = token[u] /\ me'[u] = me[u]
    PROVE  LinkInv'
<1>0. TypeOK /\ ServerTypeOK /\ TabTypeOK /\ WireTypeOK /\ None \notin Sockets
  BY SetsAssumption DEF TypeInv, TypeOK
<1>1. PICK s \in Sockets :
        /\ ss[s] = "none" /\ ~Linked(s)
        /\ ss' = [ss EXCEPT ![s] = "asked"]
        /\ asked' = [asked EXCEPT ![s] = tok]
        /\ ws' = [ws EXCEPT ![t] = s]
        /\ ready' = [ready EXCEPT ![t] = "connecting"]
  BY DEF Connect
<1>2. /\ ss'[s] = "asked" /\ asked'[s] = tok /\ ws'[t] = s /\ ready'[t] = "connecting"
      /\ \A x \in Sockets \ {s} : ss'[x] = ss[x] /\ asked'[x] = asked[x]
      /\ \A u \in Tabs \ {t} : ws'[u] = ws[u] /\ ready'[u] = ready[u]
      /\ \A x \in Sockets : down'[x] = IF x = ws[t] THEN <<>> ELSE down[x]
  BY <1>0, <1>1 DEF ServerTypeOK, TabTypeOK, Unread
<1>3. up[s] = <<>> /\ down'[s] = <<>>
  BY <1>1, <1>2 DEF LinkInv, SentAs, Dangling, InHub
<1>4. \A u \in Tabs : ws[u] # s
  BY <1>1 DEF Linked
<1>5. \A u, v \in Tabs : ws'[u] # None /\ ws'[u] = ws'[v] => u = v
  BY <1>2, <1>4 DEF LinkInv
<1>6. TabLink(t)'
  BY <1>0, <1>2, <1>3 DEF TabLink, Dialling, First101
<1>7. \A u \in Tabs \ {t} : TabLink(u)'
  <2> SUFFICES ASSUME NEW u \in Tabs \ {t}
               PROVE  TabLink(u)'
    OBVIOUS
  <2>1. ws[u] # None => ws[u] \in Sockets /\ ws[u] # s /\ ws[u] # ws[t]
    BY <1>4, SocketOf DEF LinkInv
  <2> QED
    BY <1>2, <2>1, TabLinkStays DEF LinkInv
<1>8. ASSUME NEW x \in Sockets
      PROVE  SentAs(x)' /\ Dangling(x)'
  <2>1. SentAs(x)'
    BY <1>2, <1>3 DEF LinkInv, SentAs, InHub
  <2>2. Dangling(x)'
    BY <1>2, <1>3 DEF LinkInv, Dangling, Linked
  <2> QED
    BY <2>1, <2>2
<1> QED
  BY <1>5, <1>6, <1>7, <1>8 DEF LinkInv

(* A tab lets go of its socket. *)
LEMMA HangupLinks ==
    ASSUME TypeInv, LinkInv, NEW t \in Tabs, Hangup(t),
           UNCHANGED <<ss, asked, wsUser, up>>,
           \A u \in Tabs \ {t} : page'[u] = page[u] /\ token'[u] = token[u] /\ me'[u] = me[u]
    PROVE  LinkInv'
<1>0. TabTypeOK /\ None \notin Sockets
  BY SetsAssumption DEF TypeInv, TypeOK
<1>1. /\ ws'[t] = None /\ ready'[t] = "closed"
      /\ \A u \in Tabs \ {t} : ws'[u] = ws[u] /\ ready'[u] = ready[u]
      /\ \A x \in Sockets : down'[x] = IF x = ws[t] THEN <<>> ELSE down[x]
  BY <1>0 DEF Hangup, Unread, TabTypeOK
<1>2. \A u, v \in Tabs : ws'[u] # None /\ ws'[u] = ws'[v] => u = v
  BY <1>1 DEF LinkInv
<1>3. TabLink(t)'
  BY <1>1 DEF TabLink
<1>4. \A u \in Tabs \ {t} : TabLink(u)'
  <2> SUFFICES ASSUME NEW u \in Tabs \ {t}
               PROVE  TabLink(u)'
    OBVIOUS
  <2>1. ws[u] # None => ws[u] \in Sockets /\ ws[u] # ws[t]
    BY SocketOf DEF LinkInv
  <2> QED
    BY <1>1, <2>1, TabLinkStays DEF LinkInv
<1>5. ASSUME NEW x \in Sockets
      PROVE  SentAs(x)' /\ Dangling(x)'
  BY <1>1 DEF LinkInv, SentAs, InHub, Dangling, Linked
<1> QED
  BY <1>2, <1>3, <1>4, <1>5 DEF LinkInv

(* A page writes on its socket under its own user's name. *)
LEMMA SayLinks ==
    ASSUME TypeInv, LinkInv, NEW t \in Tabs, Say(t)
    PROVE  LinkInv'
<1> DEFINE s == ws[t]
           f == [type |-> "text", by |-> me[t]]
<1>1. /\ TabTypeOK /\ WireTypeOK /\ s \in Sockets /\ ready[t] = "open"
      /\ page[t] = "chat"
  BY SocketOf DEF Say, TypeInv, TypeOK
<1>2. f \in UpFrame
  BY <1>1, SetsAssumption DEF TabTypeOK, UpFrame
<1>3. Talking(t, s)
  BY <1>1 DEF LinkInv, TabLink
<1>4. /\ up'[s] = Append(up[s], f)
      /\ \A x \in Sockets \ {s} : up'[x] = up[x]
      /\ UNCHANGED <<ss, asked, wsUser, down, page, storeVars, wsVars>>
  BY <1>1 DEF Say, WireTypeOK, serverVars, hubVars, tabVars, pageVars
<1>5. TabLink(t)'
  <2>1. \A i \in DOMAIN up'[s] : up'[s][i].type # "CLOSE"
    BY <1>1, <1>2, <1>3, <1>4, AppendFrames DEF Talking, WireTypeOK
  <2> QED
    BY <1>1, <1>3, <1>4, <2>1 DEF TabLink, Talking, storeVars, wsVars
<1>6. \A u \in Tabs \ {t} : TabLink(u)'
  <2> SUFFICES ASSUME NEW u \in Tabs \ {t}
               PROVE  TabLink(u)'
    OBVIOUS
  <2>1. ws[u] # None => ws[u] \in Sockets \ {s}
    BY SocketOf DEF LinkInv
  <2> QED
    BY <1>4, <2>1, TabLinkStays DEF LinkInv, storeVars, wsVars
<1>7. SentAs(s)'
  <2>1. \A i \in DOMAIN up'[s] : up'[s][i].type = "text" => up'[s][i].by = wsUser[s]
    BY <1>1, <1>2, <1>3, <1>4, AppendFrames DEF LinkInv, SentAs, Talking, WireTypeOK
  <2> QED
    BY <1>3, <1>4, <2>1 DEF SentAs, InHub, Talking, wsVars
<1>8. \A x \in Sockets : SentAs(x)' /\ Dangling(x)'
  BY <1>4, <1>7 DEF LinkInv, SentAs, Dangling, Linked, InHub, wsVars
<1> QED
  BY <1>4, <1>5, <1>6, <1>8 DEF LinkInv, wsVars

(* ws.close(), in each readyState. *)
LEMMA ClickLogoutLinks ==
    ASSUME TypeInv, LinkInv, NEW t \in Tabs, ClickLogout(t)
    PROVE  LinkInv'
<1> DEFINE s == ws[t]
           f == [type |-> "CLOSE"]
<1>0. TabTypeOK /\ WireTypeOK /\ UNCHANGED <<ss, asked, wsUser, page, storeVars>>
  BY DEF ClickLogout, TypeInv, TypeOK, serverVars, hubVars, pageVars
<1>1. CASE Hangup(t) /\ UNCHANGED up
  BY <1>0, <1>1, HangupLinks DEF storeVars
<1>2. CASE UNCHANGED <<wsVars, linkVars>>
  BY <1>0, <1>2, LinksStay DEF linkVars
<1>3. CASE /\ ready[t] = "open"
           /\ ready' = [ready EXCEPT ![t] = "closing"]
           /\ up' = [up EXCEPT ![s] = Append(@, f)]
           /\ UNCHANGED <<ws, down>>
  <2>1. s \in Sockets /\ Talking(t, s) /\ page[t] = "chat"
    BY <1>3, SocketOf DEF LinkInv, TabLink
  <2>2. f \in UpFrame
    BY DEF UpFrame
  <2>3. /\ up'[s] = Append(up[s], f) /\ ready'[t] = "closing"
        /\ \A x \in Sockets \ {s} : up'[x] = up[x]
        /\ \A u \in Tabs \ {t} : ready'[u] = ready[u]
    BY <1>0, <1>3, <2>1 DEF WireTypeOK, TabTypeOK
  <2>4. TabLink(t)'
    BY <1>0, <1>3, <2>1, <2>3 DEF TabLink, Talking, Closing
  <2>5. \A u \in Tabs \ {t} : TabLink(u)'
    <3> SUFFICES ASSUME NEW u \in Tabs \ {t}
                 PROVE  TabLink(u)'
      OBVIOUS
    <3>1. ws[u] # None => ws[u] \in Sockets \ {s}
      BY SocketOf DEF LinkInv
    <3> QED
      BY <1>0, <1>3, <2>3, <3>1, TabLinkStays DEF LinkInv, storeVars
  <2>6. SentAs(s)'
    <3>1. \A i \in DOMAIN up'[s] : up'[s][i].type = "text" => up'[s][i].by = wsUser[s]
      BY <1>0, <2>1, <2>2, <2>3, AppendFrames DEF LinkInv, SentAs, WireTypeOK
    <3> QED
      BY <1>0, <1>3, <2>1, <3>1 DEF SentAs, InHub, Talking
  <2>7. \A x \in Sockets : SentAs(x)' /\ Dangling(x)'
    BY <1>0, <1>3, <2>3, <2>6 DEF LinkInv, SentAs, Dangling, Linked, InHub
  <2> QED
    BY <1>3, <2>4, <2>5, <2>7 DEF LinkInv
<1> QED
  BY <1>1, <1>2, <1>3 DEF ClickLogout

(* The 101 opens a socket that was connecting, and no other. *)
LEMMA ReceiveLinks ==
    ASSUME TypeInv, LinkInv, NEW t \in Tabs, Receive(t)
    PROVE  LinkInv'
<1> DEFINE s == ws[t]
           m == Head(down[s])
<1>0. /\ TabTypeOK /\ WireTypeOK /\ ready[t] # "closed" /\ s \in Sockets
      /\ down[s] # <<>> /\ down[s] \in Seq(DownFrame)
      /\ UNCHANGED <<ss, asked, wsUser, up, page, storeVars>>
  BY SocketOf DEF Receive, TypeInv, TypeOK, WireTypeOK, serverVars, hubVars
<1>1. CASE Hangup(t)
  BY <1>0, <1>1, HangupLinks DEF storeVars
<1>2. CASE /\ down' = [down EXCEPT ![s] = Tail(@)]
           /\ ws' = ws
           /\ \/ m.type = "101" /\ ready' = [ready EXCEPT ![t] = "open"]
              \/ m.type # "101" /\ ready' = ready
  <2>1. /\ down'[s] = Tail(down[s])
        /\ \A x \in Sockets \ {s} : down'[x] = down[x]
        /\ \A u \in Tabs \ {t} : ready'[u] = ready[u]
        /\ m.type = "101" => ready'[t] = "open"
        /\ m.type # "101" => ready'[t] = ready[t]
    BY <1>0, <1>2 DEF WireTypeOK, TabTypeOK
  <2>2. 1 \in DOMAIN down[s] /\ m = down[s][1]
    BY <1>0, HeadTailProperties, LenProperties
  <2>3. /\ ready[t] \in {"connecting", "open", "closing"}
        /\ None101(down[s]) => m.type # "101"
    BY <1>0, <2>2 DEF TabTypeOK, None101
  <2>4. TabLink(t) /\ page[t] = "chat" /\ page'[t] = page[t]
    BY <1>0, SocketOf DEF LinkInv, TabLink
  <2>5. TabLink(t)'
    <3>1. None101(down[s]) \/ First101(down[s]) => None101(down'[s])
      BY <1>0, <2>1, TailFrames
    <3>2. CASE ready[t] = "connecting"
      <4>1. Dialling(t, s) /\ ss[s] = "hub" /\ None101(down'[s])
        BY <1>0, <2>4, <3>1, <3>2 DEF TabLink, Dialling
      <4>2. First101(down'[s])
        BY <4>1 DEF None101, First101
      <4>3. Dialling(t, s)' /\ Talking(t, s)'
        BY <1>0, <1>2, <4>1, <4>2, EmptySeq DEF Dialling, Talking, storeVars
      <4> QED
        BY <1>2, <2>1, <2>4, <3>2, <4>3 DEF TabLink
    <3>3. CASE ready[t] = "open"
      <4>1. Talking(t, s) /\ None101(down'[s])
        BY <2>4, <3>1, <3>3 DEF TabLink, Talking
      <4>2. Talking(t, s)'
        BY <1>0, <1>2, <4>1 DEF Talking, storeVars
      <4> QED
        BY <1>2, <2>1, <2>4, <3>3, <4>2 DEF TabLink
    <3>4. CASE ready[t] = "closing"
      <4>1. Closing(s) /\ m.type # "101" /\ None101(down'[s])
        BY <2>3, <2>4, <3>1, <3>4 DEF TabLink, Closing
      <4>2. Closing(s)'
        BY <1>0, <1>2, <4>1 DEF Closing
      <4> QED
        BY <1>2, <2>1, <2>4, <3>4, <4>1, <4>2 DEF TabLink
    <3> QED
      BY <2>3, <3>2, <3>3, <3>4
  <2>6. \A u \in Tabs \ {t} : TabLink(u)'
    <3> SUFFICES ASSUME NEW u \in Tabs \ {t}
                 PROVE  TabLink(u)'
      OBVIOUS
    <3>1. ws[u] # None => ws[u] \in Sockets \ {s}
      BY SocketOf DEF LinkInv
    <3> QED
      BY <1>0, <1>2, <2>1, <3>1, TabLinkStays DEF LinkInv, storeVars
  <2>7. \A x \in Sockets : SentAs(x)' /\ Dangling(x)'
    BY <1>0, <1>2, <2>1 DEF LinkInv, SentAs, Dangling, Linked, InHub
  <2> QED
    BY <1>2, <2>5, <2>6, <2>7 DEF LinkInv
<1> QED
  BY <1>1, <1>2 DEF Receive, wsVars

(* A change at the server's end of one socket matters to the tab that has it *)
(* only.                                                                   *)
LEMMA ServerEnd ==
    ASSUME TypeInv, LinkInv, NEW s \in Sockets,
           UNCHANGED <<page, storeVars, wsVars>>,
           \A x \in Sockets \ {s} :
               /\ ss'[x] = ss[x] /\ asked'[x] = asked[x] /\ wsUser'[x] = wsUser[x]
               /\ up'[x] = up[x] /\ down'[x] = down[x],
           \A t \in Tabs : ws[t] = s => TabLink(t)',
           SentAs(s)', ~Linked(s) => down'[s] = <<>>
    PROVE  LinkInv'
<1>1. \A t \in Tabs : TabLink(t)'
  <2> SUFFICES ASSUME NEW t \in Tabs, ws[t] # s
               PROVE  TabLink(t)'
    OBVIOUS
  <2> QED
    BY SocketOf, TabLinkStays DEF LinkInv, storeVars, wsVars
<1>2. \A x \in Sockets : SentAs(x)' /\ Dangling(x)'
  BY DEF LinkInv, SentAs, Dangling, Linked, InHub, wsVars
<1> QED
  BY <1>1, <1>2 DEF LinkInv, wsVars

(* The token of the upgrade is that of the page, so the connection gets the *)
(* name of the page.                                                       *)
LEMMA UpgradeLinks ==
    ASSUME AuthorInv, NEW s \in Sockets, Upgrade(s)
    PROVE  LinkInv'
<1> DEFINE u == Lookup(asked[s])
<1>1. TypeInv /\ LinkInv /\ ServerTypeOK /\ TabTypeOK
  BY DEF AuthorInv, TokenInv, SessionInv, TypeInv, TypeOK
<1>2. /\ ss[s] = "asked"
      /\ ss' = [ss EXCEPT ![s] = IF u = None THEN "refused" ELSE "switching"]
      /\ wsUser' = [wsUser EXCEPT ![s] = u]
      /\ asked' = [asked EXCEPT ![s] = NoToken]
      /\ UNCHANGED <<up, down, page, storeVars, wsVars>>
  BY DEF Upgrade, Verdict, linkVars, tabVars, pageVars
<1>3. ASSUME NEW t \in Tabs, ws[t] = s
      PROVE  TabLink(t)'
  <2>1. TabLink(t) /\ page[t] = "chat" /\ ready[t] # "closed"
    BY <1>1, <1>3, SocketOf, SetsAssumption DEF LinkInv, TabLink
  <2>2. ready[t] = "connecting" /\ Dialling(t, s)
    BY <1>1, <1>2, <1>3, <2>1 DEF TabLink, Talking, Closing, TabTypeOK
  <2>3. u \in {me[t], None}
    <3>1. StandsFor(token[t], me[t]) /\ asked[s] = token[t]
      BY <1>2, <2>1, <2>2 DEF AuthorInv, TokenInv, TokensOK, PageTokens, Dialling
    <3> QED
      BY <3>1 DEF StandsFor, Lookup
  <2>4. ss'[s] \in {"refused", "switching"} /\ wsUser'[s] = u
        /\ (ss'[s] = "switching" => u # None)
    BY <1>1, <1>2 DEF ServerTypeOK
  <2> HIDE DEF u
  <2>5. Dialling(t, s)'
    BY <1>2, <2>2, <2>3, <2>4 DEF Dialling, storeVars
  <2> QED
    BY <1>2, <1>3, <2>1, <2>2, <2>5 DEF TabLink, wsVars
<1>4. up[s] = <<>> /\ (~Linked(s) => down[s] = <<>>)
  BY <1>1, <1>2 DEF LinkInv, SentAs, Dangling, InHub
<1>5. SentAs(s)'
  BY <1>2, <1>4 DEF SentAs
<1>6. \A x \in Sockets \ {s} :
          ss'[x] = ss[x] /\ asked'[x] = asked[x] /\ wsUser'[x] = wsUser[x]
  BY <1>1, <1>2 DEF ServerTypeOK
<1> QED
  BY <1>1, <1>2, <1>3, <1>4, <1>5, <1>6, ServerEnd

(* The 101 is the first thing on the socket. *)
LEMMA AdoptLinks ==
    ASSUME TypeInv, LinkInv, NEW s \in Sockets, Adopt(s)
    PROVE  LinkInv'
<1>1. ServerTypeOK /\ TabTypeOK /\ WireTypeOK
  BY DEF TypeInv, TypeOK
<1>2. /\ ss[s] = "switching" /\ ss'[s] = "hub"
      /\ down'[s] = IF Linked(s) THEN Greeting ELSE down[s]
      /\ \A x \in Sockets \ {s} : ss'[x] = ss[x] /\ down'[x] = down[x]
      /\ UNCHANGED <<asked, wsUser, up, page, storeVars, wsVars>>
  BY <1>1 DEF Adopt, tabVars, pageVars, ServerTypeOK, WireTypeOK
<1>3. ASSUME NEW t \in Tabs, ws[t] = s
      PROVE  TabLink(t)'
  <2>1. TabLink(t) /\ page[t] = "chat" /\ ready[t] # "closed" /\ Linked(s)
    BY <1>1, <1>3, SocketOf, SetsAssumption DEF LinkInv, TabLink, Linked
  <2>2. ready[t] = "connecting" /\ Dialling(t, s)
    BY <1>1, <1>2, <1>3, <2>1 DEF TabLink, Talking, Closing, TabTypeOK
  <2>3. First101(down'[s])
    BY <1>2, <2>1 DEF Greeting, First101
  <2>4. Dialling(t, s)'
    BY <1>2, <2>2, <2>3 DEF Dialling, storeVars
  <2> QED
    BY <1>2, <1>3, <2>1, <2>2, <2>4 DEF TabLink, wsVars
<1>4. up[s] = <<>> /\ (~Linked(s) => down'[s] = <<>>)
  BY <1>2 DEF LinkInv, SentAs, Dangling, InHub
<1>5. SentAs(s)'
  BY <1>2, <1>4 DEF SentAs
<1> QED
  BY <1>2, <1>3, <1>4, <1>5, ServerEnd

(* Only a tab that called close() has sent CLOSE. *)
LEMMA HandleCloseLinks ==
    ASSUME TypeInv, LinkInv, NEW s \in Sockets, HandleClose(s)
    PROVE  LinkInv'
<1> DEFINE f == [type |-> "CLOSE"]
<1>1. ServerTypeOK /\ TabTypeOK /\ WireTypeOK
  BY DEF TypeInv, TypeOK
<1>2. /\ up[s] # <<>> /\ Head(up[s]).type = "CLOSE" /\ InHub(s)
      /\ up'[s] = Tail(up[s]) /\ ss'[s] = "closing"
      /\ down'[s] = IF Linked(s) THEN Append(down[s], f) ELSE down[s]
      /\ \A x \in Sockets \ {s} : ss'[x] = ss[x] /\ up'[x] = up[x] /\ down'[x] = down[x]
      /\ UNCHANGED <<asked, wsUser, page, storeVars, wsVars>>
  BY <1>1 DEF HandleClose, tabVars, pageVars, ServerTypeOK, WireTypeOK
<1>3. ASSUME NEW t \in Tabs, ws[t] = s
      PROVE  TabLink(t)'
  <2>1. TabLink(t) /\ page[t] = "chat" /\ ready[t] # "closed" /\ Linked(s)
    BY <1>1, <1>3, SocketOf, SetsAssumption DEF LinkInv, TabLink, Linked
  <2>2. 1 \in DOMAIN up[s] /\ up[s][1].type = "CLOSE"
    BY <1>1, <1>2, HeadTailProperties, LenProperties DEF WireTypeOK
  <2>3. ready[t] = "closing" /\ Closing(s)
    BY <1>1, <1>2, <1>3, <2>1, <2>2 DEF TabLink, Dialling, Talking, TabTypeOK
  <2>4. f \in DownFrame
    BY DEF DownFrame
  <2>5. None101(down'[s])
    BY <1>1, <1>2, <2>1, <2>3, <2>4, AppendFrames DEF Closing, WireTypeOK
  <2>6. Closing(s)'
    BY <1>2, <2>5 DEF Closing
  <2> QED
    BY <1>2, <1>3, <2>1, <2>3, <2>6 DEF TabLink, wsVars
<1>4. SentAs(s)'
  <2>1. \A i \in DOMAIN up'[s] : up'[s][i].type = "text" => up'[s][i].by = wsUser[s]
    BY <1>1, <1>2, TailFrames DEF LinkInv, SentAs, WireTypeOK
  <2> QED
    BY <1>2, <2>1 DEF SentAs, InHub
<1>5. ~Linked(s) => down'[s] = <<>>
  BY <1>2 DEF LinkInv, Dangling
<1> QED
  BY <1>2, <1>3, <1>4, <1>5, ServerEnd

(* WsHub never drops a socket on which a tab still speaks. *)
LEMMA ForgetLinks ==
    ASSUME TypeInv, LinkInv, NEW s \in Sockets, Forget(s)
    PROVE  LinkInv'
<1>1. ServerTypeOK /\ TabTypeOK /\ WireTypeOK
  BY DEF TypeInv, TypeOK
<1>2. /\ ss[s] = "closing" \/ ~Linked(s)
      /\ ss'[s] = "none" /\ up'[s] = <<>>
      /\ \A x \in Sockets \ {s} : ss'[x] = ss[x] /\ wsUser'[x] = wsUser[x] /\ up'[x] = up[x]
      /\ UNCHANGED <<asked, down, page, storeVars, wsVars>>
  BY <1>1 DEF Forget, tabVars, pageVars, ServerTypeOK, WireTypeOK
<1>3. ASSUME NEW t \in Tabs, ws[t] = s
      PROVE  TabLink(t)'
  <2>1. TabLink(t) /\ page[t] = "chat" /\ ready[t] # "closed" /\ Linked(s)
    BY <1>1, <1>3, SocketOf, SetsAssumption DEF LinkInv, TabLink, Linked
  <2>2. ready[t] = "closing" /\ Closing(s)
    BY <1>1, <1>2, <1>3, <2>1 DEF TabLink, Dialling, Talking, TabTypeOK
  <2>3. Closing(s)'
    BY <1>2, <2>2 DEF Closing
  <2> QED
    BY <1>2, <1>3, <2>1, <2>2, <2>3 DEF TabLink, wsVars
<1>4. SentAs(s)'
  BY <1>2 DEF SentAs
<1>5. ~Linked(s) => down'[s] = <<>>
  BY <1>2 DEF LinkInv, Dangling
<1> QED
  BY <1>2, <1>3, <1>4, <1>5, ServerEnd

-----------------------------------------------------------------------------

(* A broadcast puts a message, never a 101, on each socket of the hub. *)
LEMMA AddMessageLinks ==
    ASSUME TypeInv, LinkInv, NEW from \in Names, NEW by \in Names, AddMessage(from, by),
           UNCHANGED <<ss, asked, wsUser, page, storeVars, wsVars>>,
           \/ up' = up
           \/ \E s \in Sockets : up[s] # <<>> /\ up' = [up EXCEPT ![s] = Tail(@)]
    PROVE  LinkInv'
<1> DEFINE f == [type |-> "chat", message |-> [id |-> Len(log) + 1, from |-> from, by |-> by]]
<1>1. ServerTypeOK /\ TabTypeOK /\ WireTypeOK
  BY DEF TypeInv, TypeOK
<1>2. f \in DownFrame /\ f.type # "101"
  BY <1>1, LenProperties DEF ServerTypeOK, DownFrame, Message
<1>3. \A x \in Sockets :
        /\ down[x] \in Seq(DownFrame) /\ up[x] \in Seq(UpFrame)
        /\ down'[x] = down[x] \/ (InHub(x) /\ Linked(x) /\ down'[x] = Append(down[x], f))
        /\ up'[x] = up[x] \/ (up[x] # <<>> /\ up'[x] = Tail(up[x]))
  <2>1. down' = [x \in Sockets |-> IF InHub(x) /\ Linked(x) THEN Append(down[x], f)
                                                           ELSE down[x]]
    BY DEF AddMessage
  <2>2. \A x \in Sockets : up'[x] = up[x] \/ (up[x] # <<>> /\ up'[x] = Tail(up[x]))
    BY <1>1 DEF WireTypeOK
  <2> HIDE DEF f
  <2> QED
    BY <1>1, <2>1, <2>2 DEF WireTypeOK
<1> HIDE DEF f
<1>4. \A x \in Sockets :
        /\ None101(down[x]) => None101(down'[x])
        /\ First101(down[x]) => First101(down'[x])
        /\ (\A i \in DOMAIN up[x] : up[x][i].type # "CLOSE")
              => \A i \in DOMAIN up'[x] : up'[x][i].type # "CLOSE"
        /\ up[x] = <<>> => up'[x] = <<>>
        /\ ~InHub(x) \/ ~Linked(x) => down'[x] = down[x]
  <2> SUFFICES ASSUME NEW x \in Sockets
               PROVE  /\ None101(down[x]) => None101(down'[x])
                      /\ First101(down[x]) => First101(down'[x])
                      /\ (\A i \in DOMAIN up[x] : up[x][i].type # "CLOSE")
                            => \A i \in DOMAIN up'[x] : up'[x][i].type # "CLOSE"
                      /\ up[x] = <<>> => up'[x] = <<>>
                      /\ ~InHub(x) \/ ~Linked(x) => down'[x] = down[x]
    OBVIOUS
  <2>1. /\ None101(down[x]) => None101(down'[x])
        /\ First101(down[x]) => First101(down'[x])
    <3>1. CASE down'[x] = down[x]
      BY <3>1
    <3>2. CASE down'[x] = Append(down[x], f)
      BY <1>2, <1>3, <3>2, AppendFrames
    <3> QED
      BY <1>3, <3>1, <3>2
  <2>2. (\A i \in DOMAIN up[x] : up[x][i].type # "CLOSE")
            => \A i \in DOMAIN up'[x] : up'[x][i].type # "CLOSE"
    <3>1. CASE up'[x] = up[x]
      BY <3>1
    <3>2. CASE up[x] # <<>> /\ up'[x] = Tail(up[x])
      BY <1>3, <3>2, TailFrames
    <3> QED
      BY <1>3, <3>1, <3>2
  <2> QED
    BY <1>3, <2>1, <2>2
<1>5. \A t \in Tabs : TabLink(t)'
  <2> SUFFICES ASSUME NEW t \in Tabs
               PROVE  TabLink(t)'
    OBVIOUS
  <2>1. TabLink(t) /\ (ready[t] # "closed" => ws[t] \in Sockets)
    BY SocketOf DEF LinkInv
  <2>2. CASE ready[t] = "connecting"
    <3>1. Dialling(t, ws[t]) /\ (ss[ws[t]] # "hub" => ~InHub(ws[t]))
      BY <2>1, <2>2 DEF TabLink, Dialling, InHub
    <3>2. Dialling(t, ws[t])'
      BY <1>4, <2>1, <2>2, <3>1 DEF Dialling, storeVars, wsVars
    <3> QED
      BY <2>1, <2>2, <3>2 DEF TabLink, wsVars
  <2>3. CASE ready[t] = "open"
    <3>1. Talking(t, ws[t])'
      BY <1>4, <2>1, <2>3 DEF TabLink, Talking, storeVars, wsVars
    <3> QED
      BY <2>1, <2>3, <3>1 DEF TabLink, wsVars
  <2>4. CASE ready[t] = "closing"
    <3>1. Closing(ws[t])'
      BY <1>4, <2>1, <2>4 DEF TabLink, Closing, wsVars
    <3> QED
      BY <2>1, <2>4, <3>1 DEF TabLink, wsVars
  <2>5. CASE ready[t] = "closed"
    BY <2>1, <2>5 DEF TabLink, wsVars
  <2> QED
    BY <1>1, <2>2, <2>3, <2>4, <2>5 DEF TabTypeOK
<1>6. ASSUME NEW x \in Sockets
      PROVE  SentAs(x)' /\ Dangling(x)'
  <2>1. \A i \in DOMAIN up'[x] : up'[x][i].type = "text" => up'[x][i].by = wsUser[x]
    <3>1. CASE up'[x] = up[x]
      BY <3>1 DEF LinkInv, SentAs
    <3>2. CASE up[x] # <<>> /\ up'[x] = Tail(up[x])
      BY <1>3, <3>2, TailFrames DEF LinkInv, SentAs
    <3> QED
      BY <1>3, <3>1, <3>2
  <2> QED
    BY <1>4, <2>1 DEF LinkInv, SentAs, Dangling, InHub, Linked, wsVars
<1> QED
  BY <1>5, <1>6 DEF LinkInv, wsVars

(* A message whose two names agree keeps the log genuine. *)
LEMMA AddMessageIsGenuine ==
    ASSUME TypeInv, AuthorIsGenuine, NEW n \in Names, AddMessage(n, n)
    PROVE  AuthorIsGenuine'
<1> DEFINE m == [id |-> Len(log) + 1, from |-> n, by |-> n]
<1>1. log \in Seq(Message) /\ log' = Append(log, m)
  BY DEF AddMessage, TypeInv, TypeOK, ServerTypeOK
<1>2. m \in Message
  BY <1>1, LenProperties DEF Message
<1>3. \A i \in DOMAIN Append(log, m) : \/ i \in DOMAIN log /\ Append(log, m)[i] = log[i]
                                       \/ Append(log, m)[i] = m
  BY <1>1, <1>2, AppendProperties, LenProperties
<1> QED
  BY <1>1, <1>3 DEF AuthorIsGenuine

(* A post is written under the name that its token stands for. *)
LEMMA HandlePostAuthor ==
    ASSUME AuthorInv, NEW r \in reqs, HandlePost(r)
    PROVE  /\ LinkInv'
           /\ AuthorIsGenuine => AuthorIsGenuine'
<1>1. TypeInv /\ LinkInv /\ r.name \in Names
  BY RequestParts DEF AuthorInv, TokenInv, SessionInv, TypeInv, TypeOK
<1>2. StandsFor(r.token, r.name)
  BY DEF HandlePost, AuthorInv, TokenInv, TokensOK, RequestTokens
<1>3. Lookup(r.token) = r.name
  BY <1>2 DEF HandlePost, StandsFor, Lookup
<1>4. AddMessage(r.name, r.name) /\ up' = up
      /\ UNCHANGED <<ss, asked, wsUser, page, storeVars, wsVars>>
  BY <1>3 DEF HandlePost, hubVars, tabVars, pageVars
<1> QED
  BY <1>1, <1>4, AddMessageLinks, AddMessageIsGenuine

(* A text is written under the name of the page that sent it. *)
LEMMA HandleTextAuthor ==
    ASSUME AuthorInv, NEW s \in Sockets, HandleText(s)
    PROVE  /\ LinkInv'
           /\ AuthorIsGenuine => AuthorIsGenuine'
<1>1. TypeInv /\ LinkInv /\ up \in [Sockets -> Seq(UpFrame)]
  BY DEF AuthorInv, TokenInv, SessionInv, TypeInv, TypeOK, WireTypeOK
<1>2. up[s] # <<>> /\ Head(up[s]).type = "text" /\ wsUser[s] \in Names
  BY <1>1 DEF HandleText, InHub, TypeInv, HubKnowsUser
<1>3. 1 \in DOMAIN up[s] /\ up[s][1] = Head(up[s])
  BY <1>1, <1>2, HeadTailProperties, LenProperties
<1>4. Head(up[s]).by = wsUser[s]
  BY <1>1, <1>2, <1>3 DEF LinkInv, SentAs
<1>5. AddMessage(wsUser[s], wsUser[s]) /\ up' = [up EXCEPT ![s] = Tail(@)]
      /\ UNCHANGED <<ss, asked, wsUser, page, storeVars, wsVars>>
  BY <1>4 DEF HandleText, hubVars, tabVars, pageVars
<1> QED
  BY <1>1, <1>2, <1>5, AddMessageLinks, AddMessageIsGenuine

(* Every step keeps every socket with its user. *)
LEMMA NextKeepsLinks ==
    ASSUME MaxRestarts = 0, AuthorInv, [Next]_vars
    PROVE  AuthorInv'
<1>0. TypeInv /\ LinkInv /\ TokenInv'
  BY NextKeepsTokens DEF AuthorInv, TokenInv, SessionInv
<1>1. ASSUME UNCHANGED vars PROVE LinkInv'
  BY <1>0, <1>1, LinksStay
     DEF vars, serverVars, hubVars, linkVars, tabVars, pageVars
<1>2. ASSUME NEW t \in Tabs, NEW tok, NEW n, LoadChat(t, tok, n) PROVE LinkInv'
  <2>1. TabTypeOK
    BY <1>0 DEF TypeInv, TypeOK
  <2>2. /\ page'[t] = "chat" /\ token'[t] = tok
        /\ \A u \in Tabs \ {t} :
              page'[u] = page[u] /\ token'[u] = token[u] /\ me'[u] = me[u]
    BY <1>2, <2>1 DEF LoadChat, TabTypeOK
  <2> QED
    BY <1>0, <1>2, <2>2, ConnectLinks DEF LoadChat
<1>3. ASSUME NEW t \in Tabs, NEW to \in {"login", "gone"}, LeavePage(t, to),
             \/ UNCHANGED storeVars
             \/ /\ token' = [token EXCEPT ![t] = NoToken]
                /\ me' = [me EXCEPT ![t] = None]
      PROVE  LinkInv'
  <2>1. TabTypeOK
    BY <1>0 DEF TypeInv, TypeOK
  <2>2. \A u \in Tabs \ {t} : page'[u] = page[u] /\ token'[u] = token[u] /\ me'[u] = me[u]
    BY <1>3, <2>1 DEF LeavePage, TabTypeOK, storeVars
  <2> QED
    BY <1>0, <1>3, <2>2, HangupLinks DEF LeavePage, serverVars, hubVars
<1>4. ASSUME NEW t \in Tabs, Visitor(t) PROVE LinkInv'
  <2>1. CASE Say(t) \/ ClickLogout(t)
    BY <1>0, <2>1, SayLinks, ClickLogoutLinks
  <2>2. CASE Reload(t)
    BY <1>2, <2>2 DEF Reload
  <2>3. CASE Leave(t)
    BY <1>3, <2>3 DEF Leave
  <2>4. CASE Post(t) \/ \E n \in Names : SubmitLogin(t, n)
    BY <1>0, <2>4, LinksStay
       DEF Post, SubmitLogin, serverVars, hubVars, linkVars, tabVars, pageVars
  <2> QED
    BY <1>4, <2>1, <2>2, <2>3, <2>4 DEF Visitor
<1>5. ASSUME NEW t \in Tabs, Reading(t) PROVE LinkInv'
  <2> PICK r \in replies : LoginReply(t, r) \/ HistoryReply(t, r) \/ LogoutReply(t, r)
    BY <1>5 DEF Reading
  <2>1. CASE LoginReply(t, r)
    <3>1. CASE UNCHANGED <<hubVars, linkVars, tabVars>>
      BY <1>0, <3>1, LinksStay DEF hubVars, linkVars, tabVars, pageVars
    <3> QED
      BY <1>2, <2>1, <3>1 DEF LoginReply
  <2>2. CASE HistoryReply(t, r)
    BY <1>0, <2>2, LinksStay DEF HistoryReply, serverVars, hubVars, linkVars
  <2>3. CASE LogoutReply(t, r)
    BY <1>3, <2>3 DEF LogoutReply
  <2> QED
    BY <2>1, <2>2, <2>3
<1>6. ASSUME NEW t \in Tabs, WebSocket(t) \/ Break(t) PROVE LinkInv'
  <2>1. CASE Receive(t)
    BY <1>0, <2>1, ReceiveLinks
  <2>2. CASE Refused(t) \/ Break(t)
    BY <1>0, <2>2, HangupLinks DEF Refused, Break, serverVars, hubVars, storeVars, pageVars
  <2>3. CASE Reconnect(t)
    <3>1. ws[t] = None /\ None \notin Sockets /\ down \in [Sockets -> Seq(DownFrame)]
      BY <1>0, <2>3, SocketOf, SetsAssumption DEF Reconnect, TypeInv, TypeOK, WireTypeOK
    <3>2. Unread(t) = down
      BY <3>1 DEF Unread
    <3> QED
      BY <1>0, <2>3, <3>2, ConnectLinks DEF Reconnect, linkVars, storeVars, pageVars
  <2> QED
    BY <1>6, <2>1, <2>2, <2>3 DEF WebSocket
<1>7. ASSUME NEW r \in reqs, Handler(r) PROVE LinkInv'
  <2>1. CASE HandlePost(r)
    BY <2>1, HandlePostAuthor
  <2>2. CASE HandleLogin(r) \/ Unauthorized(r) \/ HandleHistory(r) \/ HandleLogout(r)
    BY <1>0, <2>2, LinksStay
       DEF HandleLogin, Unauthorized, HandleHistory, HandleLogout, serverVars, hubVars,
           linkVars, tabVars, pageVars
  <2> QED
    BY <1>7, <2>1, <2>2 DEF Handler
<1>8. ASSUME NEW s \in Sockets, Hub(s) PROVE LinkInv'
  BY <1>0, <1>8, UpgradeLinks, AdoptLinks, HandleTextAuthor, HandleCloseLinks, ForgetLinks
     DEF Hub
<1>9. ~Restart
  BY <1>0, NoRestart
<1>10. LinkInv'
  BY <1>1, <1>4, <1>5, <1>6, <1>7, <1>8, <1>9 DEF Next
<1> QED
  BY <1>0, <1>10 DEF AuthorInv

(* Only a post and a text on a WebSocket write a message. *)
LEMMA NextKeepsAuthors ==
    ASSUME MaxRestarts = 0, AuthorInv, AuthorIsGenuine, [Next]_vars
    PROVE  AuthorIsGenuine'
<1>1. ASSUME UNCHANGED log PROVE AuthorIsGenuine'
  BY <1>1 DEF AuthorIsGenuine
<1>2. UNCHANGED vars => UNCHANGED log
  BY DEF vars, serverVars, roomVars
<1>3. ASSUME NEW t \in Tabs, Visitor(t) PROVE UNCHANGED log
  BY <1>3 DEF Visitor, SubmitLogin, Reload, Say, Post, ClickLogout, Leave, LeavePage,
     serverVars, roomVars
<1>4. ASSUME NEW t \in Tabs, Reading(t) PROVE UNCHANGED log
  BY <1>4 DEF Reading, LoginReply, HistoryReply, LogoutReply, LeavePage, serverVars, roomVars
<1>5. ASSUME NEW t \in Tabs, WebSocket(t) \/ Break(t) PROVE UNCHANGED log
  BY <1>5 DEF WebSocket, Break, Receive, Refused, Reconnect, serverVars, roomVars
<1>6. ASSUME NEW r \in reqs, Handler(r) PROVE AuthorIsGenuine'
  <2>1. ASSUME ~HandlePost(r) PROVE UNCHANGED log
    BY <1>6, <2>1 DEF Handler, HandleLogin, Unauthorized, HandleHistory, HandleLogout,
       serverVars, roomVars
  <2> QED
    BY <1>1, <2>1, HandlePostAuthor
<1>7. ASSUME NEW s \in Sockets, Hub(s) PROVE AuthorIsGenuine'
  <2>1. ASSUME ~HandleText(s) PROVE UNCHANGED log
    BY <1>7, <2>1 DEF Hub, Upgrade, Adopt, HandleClose, Forget, roomVars
  <2> QED
    BY <1>1, <2>1, HandleTextAuthor
<1>8. ~Restart
  BY NoRestart DEF AuthorInv, TokenInv, SessionInv
<1> QED
  BY <1>1, <1>2, <1>3, <1>4, <1>5, <1>6, <1>7, <1>8 DEF Next

(* AuthorIsGenuine, within one run of the server, for any number of tabs,  *)
(* names, sockets and messages: the room never says that someone wrote what *)
(* another did, by REST or by WebSocket, across logouts and reconnections. *)
THEOREM AuthorsAreGenuine ==
    ASSUME MaxRestarts = 0
    PROVE  Spec => []AuthorIsGenuine
<1> DEFINE I == AuthorInv /\ AuthorIsGenuine
<1>1. Init => I
  <2>1. Init => LinkInv
    BY DEF Init, LinkInv, TabLink, SentAs, Dangling
  <2>2. Init => AuthorIsGenuine
    BY DEF Init, AuthorIsGenuine
  <2> QED
    BY <2>1, <2>2, InitTokens DEF AuthorInv
<1>2. I /\ [Next]_vars => I'
  BY NextKeepsLinks, NextKeepsAuthors
<1>3. I => AuthorIsGenuine
  OBVIOUS
<1> QED
  BY <1>1, <1>2, <1>3, PTL DEF Spec

=============================================================================
