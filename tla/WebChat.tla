------------------------------ MODULE WebChat ------------------------------
(***************************************************************************)
(* The web chat: the REST routes (server/http_handler.cpp) over TokenStore *)
(* and Room, WsHub with its WebSocket connections, and the browser tabs    *)
(* that run frontend/index.html and frontend/app.js.                       *)
(*                                                                         *)
(* The server is one reactor thread, so each handler is one action.  The   *)
(* requests and replies of a page travel on connections of their own and   *)
(* overtake each other; a WebSocket is first-in first-out.  A tab stands   *)
(* for a browser with its own localStorage.  TCP connections, HTTP and     *)
(* frame syntax are below this module; what has no effect on its state     *)
(* (GET /api/users, replies that nobody reads) is left out.                *)
(***************************************************************************)
EXTENDS Integers, Sequences, FiniteSets

CONSTANTS
    Tabs,         \* browser tabs
    Names,        \* user names
    Sockets,      \* WebSockets; one is used again once both ends are done
    Doings,       \* what the visitors of the instance do
    None,         \* no name, no tab, no socket
    MaxHistory,   \* Room::MAX_HISTORY (200 in the code)
    MaxTokens,    \* bound: tokens issued by one run of the server
    MaxMessages,  \* bound: messages written in all
    MaxFaults,    \* bound: connections that break and pages reloaded
    MaxRestarts   \* bound: restarts of the server

ASSUME SetsAssumption ==
    /\ None \notin Tabs \cup Names \cup Sockets
    /\ Doings \subseteq {"reload", "say", "post", "logout", "leave"}
ASSUME BoundsAssumption ==
    /\ MaxHistory \in Nat \ {0} /\ MaxTokens \in Nat
    /\ MaxMessages \in Nat /\ MaxFaults \in Nat /\ MaxRestarts \in Nat

VARIABLES
    counter,    \* TokenStore::counter_
    tok2user,   \* TokenStore::tok2user_, None for a token not in it
    users,      \* Room::users_
    history,    \* Room::messages_
    log,        \* every message the room ever took (nothing in the code keeps it)
    ss,         \* the server's end of a socket
    asked,      \* the token in the socket's GET /ws?token=..., until looked up
    wsUser,     \* WsConnection::username_
    since,      \* Len(log) when WsHub adopted the socket
    up, down,   \* what is under way on a socket, to the server and to the tab
    page,       \* the page a tab shows: "login", "chat", or "gone"
    token, me,  \* TOKEN and ME of app.js (localStorage)
    ws,         \* app.js's ws, None when it is CLOSED
    ready,      \* its readyState
    shown,      \* the messages on the page
    served,     \* Len(log) when the page's history was read, -1 before
    reqs,       \* HTTP requests under way
    replies,    \* HTTP replies under way
    faults, restarts

roomVars  == <<users, history, log>>
sessVars  == <<counter, tok2user>>
hubVars   == <<ss, asked, wsUser, since>>
linkVars  == <<up, down>>
storeVars == <<token, me>>
wsVars    == <<ws, ready>>
pageVars  == <<page, shown, served>>
httpVars  == <<reqs, replies>>
boundVars == <<faults, restarts>>
serverVars == <<roomVars, sessVars, hubVars>>
tabVars    == <<storeVars, wsVars, pageVars>>
vars == <<serverVars, linkVars, tabVars, httpVars, boundVars>>

NoToken == 0
Tokens  == 1..MaxTokens

(* by is the name under which its author wrote the message.                *)
Message   == [id: Nat, from: Names, by: Names]
UpFrame   == [type: {"text"}, by: Names] \cup [type: {"CLOSE"}]
DownFrame == [type: {"101", "CLOSE"}] \cup [type: {"chat"}, message: Message]

Kinds == {"login", "history", "post", "logout"}

(* tab is None once the page that sent the request is no longer there.     *)
Request == [kind: Kinds, tab: Tabs \cup {None}, token: Tokens \cup {NoToken},
            name: Names]
Reply   == [kind: Kinds \ {"post"}, tab: Tabs, ok: BOOLEAN,
            token: Tokens \cup {NoToken}, name: Names, messages: Seq(Message)]

Init ==
    /\ counter = 0 /\ tok2user = [k \in Tokens |-> None]
    /\ users = {} /\ history = <<>> /\ log = <<>>
    /\ ss = [s \in Sockets |-> "none"]
    /\ asked = [s \in Sockets |-> NoToken]
    /\ wsUser = [s \in Sockets |-> None]
    /\ since = [s \in Sockets |-> 0]
    /\ up = [s \in Sockets |-> <<>>] /\ down = [s \in Sockets |-> <<>>]
    /\ page = [t \in Tabs |-> "login"]
    /\ token = [t \in Tabs |-> NoToken] /\ me = [t \in Tabs |-> None]
    /\ ws = [t \in Tabs |-> None] /\ ready = [t \in Tabs |-> "closed"]
    /\ shown = [t \in Tabs |-> <<>>] /\ served = [t \in Tabs |-> -1]
    /\ reqs = {} /\ replies = {}
    /\ faults = 0 /\ restarts = 0

-----------------------------------------------------------------------------
(* The tabs: index.html and app.js.                                        *)

Pending(t, kind) == \E r \in reqs \cup replies : r.tab = t /\ r.kind = kind

Ask(t, kind, tok, n) == [kind |-> kind, tab |-> t, token |-> tok, name |-> n]

(* The requests of a page that goes away may still reach the server, but   *)
(* nobody reads the replies; then a request for the history is no matter.  *)
Orphaned(t) ==
    {IF r.tab = t THEN [r EXCEPT !.tab = None] ELSE r :
        r \in {q \in reqs : q.tab = t => q.kind # "history"}}
NotFor(t) == {r \in replies : r.tab # t}

Linked(s) == \E t \in Tabs : ws[t] = s

(* The tab's end of its socket is closed; what was on its way is lost.     *)
Unread(t) == [s \in Sockets |-> IF s = ws[t] THEN <<>> ELSE down[s]]
Hangup(t) ==
    /\ ws' = [ws EXCEPT ![t] = None]
    /\ ready' = [ready EXCEPT ![t] = "closed"]
    /\ down' = Unread(t)

(* connectWs: a new socket asks for /ws with the tab's token.              *)
Connect(t, tok) ==
    \E s \in Sockets :
        /\ ss[s] = "none" /\ ~Linked(s)
        /\ ss' = [ss EXCEPT ![s] = "asked"]
        /\ asked' = [asked EXCEPT ![s] = tok]
        /\ ws' = [ws EXCEPT ![t] = s]
        /\ ready' = [ready EXCEPT ![t] = "connecting"]

(* /chat starts: loadHistory, then connectWs, both under way at once.      *)
LoadChat(t, tok, n) ==
    /\ page' = [page EXCEPT ![t] = "chat"]
    /\ token' = [token EXCEPT ![t] = tok]
    /\ me' = [me EXCEPT ![t] = n]
    /\ shown' = [shown EXCEPT ![t] = <<>>]
    /\ served' = [served EXCEPT ![t] = -1]
    /\ reqs' = Orphaned(t) \cup {Ask(t, "history", tok, n)}
    /\ replies' = NotFor(t)
    /\ down' = Unread(t)
    /\ Connect(t, tok)
    /\ UNCHANGED <<wsUser, since, up>>

SubmitLogin(t, n) ==
    /\ page[t] = "login" /\ ~Pending(t, "login")
    /\ reqs' = reqs \cup {Ask(t, "login", NoToken, n)}
    /\ UNCHANGED <<serverVars, linkVars, tabVars, replies, boundVars>>

LoginReply(t, r) ==
    /\ r \in replies /\ r.tab = t /\ r.kind = "login"
    /\ \/ r.ok /\ LoadChat(t, r.token, r.name)
       \/ /\ ~r.ok
          /\ replies' = replies \ {r}
          /\ UNCHANGED <<hubVars, linkVars, tabVars, reqs>>
    /\ UNCHANGED <<roomVars, sessVars, boundVars>>

(* The chat page is opened again, with what localStorage holds.            *)
Reload(t) ==
    /\ "reload" \in Doings
    /\ page[t] = "chat" /\ faults < MaxFaults
    /\ faults' = faults + 1
    /\ LoadChat(t, token[t], me[t])
    /\ UNCHANGED <<roomVars, sessVars, restarts>>

(* loadHistory appends what it gets to what is there.                      *)
HistoryReply(t, r) ==
    /\ r \in replies /\ r.tab = t /\ r.kind = "history"
    /\ replies' = replies \ {r}
    /\ shown' = [shown EXCEPT ![t] = @ \o r.messages]
    /\ UNCHANGED <<serverVars, linkVars, storeVars, wsVars, page, served, reqs,
                   boundVars>>

(* Messages under way count against the bound.                             *)
Writing == Cardinality({s \in Sockets : up[s] # <<>>})
             + Cardinality({r \in reqs : r.kind = "post"})
Writable == Len(log) + Writing < MaxMessages

Say(t) ==
    /\ "say" \in Doings
    /\ page[t] = "chat" /\ ready[t] = "open"
    /\ up[ws[t]] = <<>> /\ Writable
    /\ up' = [up EXCEPT ![ws[t]] = Append(@, [type |-> "text", by |-> me[t]])]
    /\ UNCHANGED <<serverVars, down, tabVars, httpVars, boundVars>>

(* POST /api/messages, which scripts use with a token they hold.           *)
Post(t) ==
    /\ "post" \in Doings
    /\ page[t] = "chat" /\ ~Pending(t, "post") /\ Writable
    /\ reqs' = reqs \cup {Ask(t, "post", token[t], me[t])}
    /\ UNCHANGED <<serverVars, linkVars, tabVars, replies, boundVars>>

(* ws.close(): a socket still connecting fails, an open one says CLOSE.    *)
ClickLogout(t) ==
    /\ "logout" \in Doings
    /\ page[t] = "chat" /\ ~Pending(t, "logout")
    /\ \/ ready[t] = "connecting" /\ Hangup(t) /\ UNCHANGED up
       \/ /\ ready[t] = "open"
          /\ ready' = [ready EXCEPT ![t] = "closing"]
          /\ up' = [up EXCEPT ![ws[t]] = Append(@, [type |-> "CLOSE"])]
          /\ UNCHANGED <<ws, down>>
       \/ ready[t] \in {"closing", "closed"} /\ UNCHANGED <<wsVars, linkVars>>
    /\ reqs' = reqs \cup {Ask(t, "logout", token[t], me[t])}
    /\ UNCHANGED <<serverVars, storeVars, pageVars, replies, boundVars>>

(* The page goes away, and everything it was doing with it.                *)
LeavePage(t, to) ==
    /\ page' = [page EXCEPT ![t] = to]
    /\ shown' = [shown EXCEPT ![t] = <<>>]
    /\ served' = [served EXCEPT ![t] = -1]
    /\ Hangup(t)
    /\ reqs' = Orphaned(t) /\ replies' = NotFor(t)
    /\ UNCHANGED <<serverVars, up, boundVars>>

(* Whatever the reply says, localStorage is cleared and / is opened.       *)
LogoutReply(t, r) ==
    /\ r \in replies /\ r.tab = t /\ r.kind = "logout"
    /\ LeavePage(t, "login")
    /\ token' = [token EXCEPT ![t] = NoToken]
    /\ me' = [me EXCEPT ![t] = None]

(* The browser is closed, on either page.                                  *)
Leave(t) ==
    /\ "leave" \in Doings
    /\ page[t] # "gone"
    /\ LeavePage(t, "gone")
    /\ UNCHANGED storeVars

(* onclose has armed the 3-second timer, and it fires while the page is    *)
(* there, also while a logout is under way.                                *)
Reconnect(t) ==
    /\ page[t] = "chat" /\ ready[t] = "closed"
    /\ Connect(t, token[t])
    /\ UNCHANGED <<roomVars, sessVars, wsUser, since, linkVars, storeVars,
                   pageVars, httpVars, boundVars>>

(* The next thing on the socket: the 101, a message (dropped unless the    *)
(* socket is OPEN) or the answer to CLOSE.                                 *)
Receive(t) ==
    /\ ready[t] # "closed" /\ down[ws[t]] # <<>>
    /\ LET m == Head(down[ws[t]])
           Rest == [down EXCEPT ![ws[t]] = Tail(@)]
       IN  \/ /\ m.type = "101" /\ down' = Rest
              /\ ready' = [ready EXCEPT ![t] = "open"]
              /\ UNCHANGED <<ws, shown>>
           \/ /\ m.type = "chat" /\ down' = Rest
              /\ shown' = IF ready[t] = "open"
                          THEN [shown EXCEPT ![t] = Append(@, m.message)]
                          ELSE shown
              /\ UNCHANGED wsVars
           \/ m.type = "CLOSE" /\ Hangup(t) /\ UNCHANGED shown
    /\ UNCHANGED <<serverVars, up, storeVars, page, served, httpVars, boundVars>>

(* The server refused the upgrade: a reply other than 101 fails the socket.*)
Refused(t) ==
    /\ ready[t] # "closed" /\ ss[ws[t]] = "refused"
    /\ Hangup(t)
    /\ UNCHANGED <<serverVars, up, storeVars, pageVars, httpVars, boundVars>>

(* The network gives up on a connection; the server does not know yet.     *)
Break(t) ==
    /\ ready[t] # "closed" /\ faults < MaxFaults
    /\ Hangup(t)
    /\ faults' = faults + 1
    /\ UNCHANGED <<serverVars, up, storeVars, pageVars, httpVars, restarts>>

-----------------------------------------------------------------------------
(* The server.                                                             *)

(* TokenStore::lookup.                                                     *)
Lookup(tok) == IF tok \in Tokens THEN tok2user[tok] ELSE None

(* HttpConnection::send: r is answered, if its page is still there.  No    *)
(* page waits for the reply to a POST.                                     *)
AnswerWith(r, ok, tok, msgs) ==
    /\ reqs' = reqs \ {r}
    /\ replies' = IF r.tab = None \/ r.kind = "post" THEN replies
                  ELSE replies \cup {[kind |-> r.kind, tab |-> r.tab, ok |-> ok,
                                      token |-> tok, name |-> r.name,
                                      messages |-> msgs]}

Answer(r, ok) == AnswerWith(r, ok, NoToken, <<>>)

Taken_Never(n) == FALSE  \* mutant: the 409 check is forgotten

Taken(n) == n \in users

Issued_Recycled ==  \* mutant: tokens are numbered by how many are valid
    1 + Cardinality({k \in Tokens : tok2user[k] # None})

Issued == counter + 1

HandleLogin(r) ==
    /\ r \in reqs /\ r.kind = "login"
    /\ \/ /\ Taken(r.name)
          /\ Answer(r, FALSE)
          /\ UNCHANGED <<sessVars, users>>
       \/ /\ ~Taken(r.name) /\ counter < MaxTokens
          /\ users' = users \cup {r.name}
          /\ counter' = counter + 1
          /\ tok2user' = [tok2user EXCEPT ![Issued] = r.name]
          /\ AnswerWith(r, TRUE, Issued, <<>>)
    /\ UNCHANGED <<history, log, hubVars, linkVars, tabVars, boundVars>>

(* requireToken fails: 401 on any route but login.                         *)
Unauthorized(r) ==
    /\ r \in reqs /\ r.kind # "login"
    /\ Lookup(r.token) = None
    /\ Answer(r, FALSE)
    /\ UNCHANGED <<serverVars, linkVars, tabVars, boundVars>>

(* GET /api/messages: all that is left of the history.                     *)
HandleHistory(r) ==
    /\ r \in reqs /\ r.kind = "history" /\ Lookup(r.token) # None
    /\ AnswerWith(r, TRUE, NoToken, history)
    /\ served' = [served EXCEPT ![r.tab] = Len(log)]
    /\ UNCHANGED <<serverVars, linkVars, storeVars, wsVars, page, shown, boundVars>>

(* POST /api/logout.  The user's WebSockets stay as they are.              *)
HandleLogout(r) ==
    /\ r \in reqs /\ r.kind = "logout" /\ Lookup(r.token) # None
    /\ tok2user' = [tok2user EXCEPT ![r.token] = None]
    /\ users' = users \ {Lookup(r.token)}
    /\ Answer(r, TRUE)
    /\ UNCHANGED <<counter, history, log, hubVars, linkVars, tabVars, boundVars>>

InHub(s) == ss[s] \in {"hub", "closing"}

Trimmed_OffByOne(h) == IF Len(h) >= MaxHistory THEN Tail(h) ELSE h  \* mutant

Trimmed(h) == IF Len(h) > MaxHistory THEN Tail(h) ELSE h

AddMessage_Overtaking(from, by) ==  \* mutant: a push does not queue behind what waits
    LET m == [id |-> Len(log) + 1, from |-> from, by |-> by]
    IN  /\ log' = Append(log, m)
        /\ history' = Trimmed(Append(history, m))
        /\ down' = [s \in Sockets |->
                      IF InHub(s) /\ Linked(s)
                      THEN <<[type |-> "chat", message |-> m]>> \o down[s]
                      ELSE down[s]]

(* Room::addMessage: the history is trimmed, and WsHub::broadcast pushes   *)
(* the message to every socket of the hub.                                 *)
AddMessage(from, by) ==
    LET m == [id |-> Len(log) + 1, from |-> from, by |-> by]
    IN  /\ log' = Append(log, m)
        /\ history' = Trimmed(Append(history, m))
        /\ down' = [s \in Sockets |->
                      IF InHub(s) /\ Linked(s)
                      THEN Append(down[s], [type |-> "chat", message |-> m])
                      ELSE down[s]]

HandlePost(r) ==
    /\ r \in reqs /\ r.kind = "post" /\ Lookup(r.token) # None
    /\ AddMessage(Lookup(r.token), r.name)
    /\ Answer(r, TRUE)
    /\ UNCHANGED <<users, sessVars, hubVars, up, tabVars, boundVars>>

Verdict_Unchecked(u) == "switching"  \* mutant: an invalid token is let in

Verdict(u) == IF u = None THEN "refused" ELSE "switching"

(* handleWsUpgrade_: the token decides who speaks on the socket.           *)
Upgrade(s) ==
    /\ ss[s] = "asked"
    /\ LET u == Lookup(asked[s])
       IN  /\ ss' = [ss EXCEPT ![s] = Verdict(u)]
           /\ wsUser' = [wsUser EXCEPT ![s] = u]
    /\ asked' = [asked EXCEPT ![s] = NoToken]
    /\ UNCHANGED <<roomVars, sessVars, since, linkVars, tabVars, httpVars, boundVars>>

Greeting_Lost == <<>>  \* mutant: handed over before the 101 is written

Greeting == <<[type |-> "101"]>>

(* onWrite has sent the 101: close hands the socket to adoptConnection.    *)
Adopt(s) ==
    /\ ss[s] = "switching"
    /\ ss' = [ss EXCEPT ![s] = "hub"]
    /\ since' = [since EXCEPT ![s] = Len(log)]
    /\ down' = [down EXCEPT ![s] = IF Linked(s) THEN Greeting ELSE @]
    /\ UNCHANGED <<roomVars, sessVars, asked, wsUser, up, tabVars, httpVars,
                   boundVars>>

(* WsConnection::onRead, one frame.  A text is posted under username_.     *)
HandleText(s) ==
    /\ InHub(s) /\ up[s] # <<>> /\ Head(up[s]).type = "text"
    /\ up' = [up EXCEPT ![s] = Tail(@)]
    /\ AddMessage(wsUser[s], Head(up[s]).by)
    /\ UNCHANGED <<users, sessVars, hubVars, tabVars, httpVars, boundVars>>

HandleClose(s) ==
    /\ InHub(s) /\ up[s] # <<>> /\ Head(up[s]).type = "CLOSE"
    /\ up' = [up EXCEPT ![s] = Tail(@)]
    /\ ss' = [ss EXCEPT ![s] = "closing"]
    /\ down' = [down EXCEPT ![s] = IF Linked(s) THEN Append(@, [type |-> "CLOSE"])
                                                ELSE @]
    /\ UNCHANGED <<roomVars, sessVars, asked, wsUser, since, tabVars, httpVars,
                   boundVars>>

(* The hub forgets a socket: everything up to the answer to CLOSE has been *)
(* written, or recv says that the tab's end is gone.  A refused request    *)
(* ends when its reply has been read, or the tab's end is gone.            *)
Forget(s) ==
    /\ \/ ss[s] = "closing"
       \/ ss[s] \in {"hub", "refused"} /\ ~Linked(s)
    /\ ss' = [ss EXCEPT ![s] = "none"]
    /\ wsUser' = [wsUser EXCEPT ![s] = None]
    /\ since' = [since EXCEPT ![s] = 0]
    /\ up' = [up EXCEPT ![s] = <<>>]
    /\ UNCHANGED <<roomVars, sessVars, asked, down, tabVars, httpVars, boundVars>>

(* The process ends, by a signal or by an uncaught exception, and is       *)
(* started again: what it held in memory is gone, connections are reset.   *)
Restart ==
    /\ restarts < MaxRestarts
    /\ restarts' = restarts + 1
    /\ counter' = 0 /\ tok2user' = [k \in Tokens |-> None]
    /\ users' = {} /\ history' = <<>>
    /\ ss' = [s \in Sockets |-> "none"] /\ asked' = [s \in Sockets |-> NoToken]
    /\ wsUser' = [s \in Sockets |-> None] /\ since' = [s \in Sockets |-> 0]
    /\ up' = [s \in Sockets |-> <<>>] /\ down' = [s \in Sockets |-> <<>>]
    /\ ws' = [t \in Tabs |-> None] /\ ready' = [t \in Tabs |-> "closed"]
    /\ reqs' = {}
    /\ replies' = replies \cup
         {[kind |-> r.kind, tab |-> r.tab, ok |-> FALSE, token |-> NoToken,
           name |-> r.name, messages |-> <<>>] :
             r \in {q \in reqs : q.tab # None /\ q.kind # "post"}}
    /\ UNCHANGED <<log, storeVars, pageVars, faults>>

-----------------------------------------------------------------------------

Visitor(t) ==
    \/ \E n \in Names : SubmitLogin(t, n)
    \/ Reload(t) \/ Say(t) \/ Post(t) \/ ClickLogout(t) \/ Leave(t)

Reading(t) ==
    \E r \in replies : LoginReply(t, r) \/ HistoryReply(t, r) \/ LogoutReply(t, r)

WebSocket(t) == Receive(t) \/ Refused(t) \/ Reconnect(t)

Handler(r) ==
    \/ HandleLogin(r) \/ Unauthorized(r) \/ HandleHistory(r)
    \/ HandleLogout(r) \/ HandlePost(r)

Hub(s) ==
    \/ Upgrade(s) \/ Adopt(s) \/ HandleText(s) \/ HandleClose(s) \/ Forget(s)

Next ==
    \/ \E t \in Tabs : Visitor(t) \/ Reading(t) \/ WebSocket(t) \/ Break(t)
    \/ \E r \in reqs : Handler(r)
    \/ \E s \in Sockets : Hub(s)
    \/ Restart

Spec == Init /\ [][Next]_vars

(* The reactor serves every connection, and browsers run their callbacks   *)
(* and timers.  Nothing is asked of the people or of the network.          *)
Fairness ==
    /\ \A t \in Tabs : WF_vars(Reading(t)) /\ WF_vars(WebSocket(t))
    /\ WF_vars(\E r \in reqs : Handler(r))
    /\ \A s \in Sockets : WF_vars(Hub(s))

FairSpec == Spec /\ Fairness

-----------------------------------------------------------------------------
(* Properties.                                                             *)

ServerTypeOK ==
    /\ counter \in 0..MaxTokens
    /\ tok2user \in [Tokens -> Names \cup {None}]
    /\ users \subseteq Names
    /\ history \in Seq(Message) /\ log \in Seq(Message)
    /\ ss \in [Sockets -> {"none", "asked", "refused", "switching", "hub", "closing"}]
    /\ asked \in [Sockets -> Tokens \cup {NoToken}]
    /\ wsUser \in [Sockets -> Names \cup {None}]
    /\ since \in [Sockets -> Nat]

TabTypeOK ==
    /\ page \in [Tabs -> {"login", "chat", "gone"}]
    /\ token \in [Tabs -> Tokens \cup {NoToken}]
    /\ me \in [Tabs -> Names \cup {None}]
    /\ ws \in [Tabs -> Sockets \cup {None}]
    /\ ready \in [Tabs -> {"connecting", "open", "closing", "closed"}]
    /\ shown \in [Tabs -> Seq(Message)]
    /\ served \in [Tabs -> Nat \cup {-1}]
    /\ \A t \in Tabs : /\ page[t] = "chat" => me[t] # None
                       /\ ready[t] = "closed" <=> ws[t] = None

WireTypeOK ==
    /\ up \in [Sockets -> Seq(UpFrame)] /\ down \in [Sockets -> Seq(DownFrame)]
    /\ reqs \subseteq Request /\ replies \subseteq Reply

(* Every variable keeps its type: no message without a sender, no page     *)
(* without its user.                                                       *)
TypeOK == ServerTypeOK /\ TabTypeOK /\ WireTypeOK /\ faults \in Nat /\ restarts \in Nat

(* TokenStore and Room agree: a name is taken in the room exactly while    *)
(* one token stands for it, and never two, however logins, logouts and     *)
(* restarts interleave (Room::addUser with TokenStore::issue, revoke with  *)
(* removeUser).                                                            *)
SessionsMatch ==
    /\ \A n \in Names : n \in users <=> \E k \in Tokens : tok2user[k] = n
    /\ \A j, k \in Tokens : tok2user[j] # None /\ tok2user[j] = tok2user[k] => j = k

(* A token never comes to stand for someone else than the user of the page *)
(* that holds it (TokenStore::issue never gives out a token twice).        *)
TokenKeepsItsUser ==
    \A t \in Tabs : page[t] = "chat" => Lookup(token[t]) \in {me[t], None}

(* The room's messages carry the name their author wrote under, by REST or *)
(* by WebSocket, also after logouts, reloads and reconnections.            *)
AuthorIsGenuine == \A i \in DOMAIN log : log[i].from = log[i].by

(* Messages that tab t has, on its page or on the way to it.               *)
Pushed(s) == IF s = None THEN {} ELSE {down[s][i] : i \in DOMAIN down[s]}
Has(t) ==
    LET inReply == {q \in replies : q.tab = t /\ q.kind = "history"}
        onWay   == {g \in Pushed(ws[t]) : g.type = "chat"}
    IN  {shown[t][i] : i \in DOMAIN shown[t]}
          \cup (UNION {{r.messages[i] : i \in DOMAIN r.messages} : r \in inReply})
          \cup {f.message : f \in onWay}

(* The messages that either way should bring to tab t: those that were in  *)
(* the history when it was read, and those posted since its WebSocket was  *)
(* adopted, as long as that one lasts.                                     *)
Backfill(t) == {i \in DOMAIN log : 0 <= served[t] /\ i \in (served[t] - MaxHistory + 1)..served[t]}
Following(t) == ready[t] \in {"connecting", "open"} /\ ss[ws[t]] = "hub"
Follow(t) == {i \in DOMAIN log : Following(t) /\ since[ws[t]] < i}

(* Of the room's messages a tab misses only those that neither way brings: *)
(* older ones that the history had dropped, and those posted while neither *)
(* was there, that is after the history was read and before the WebSocket  *)
(* was adopted, or while the WebSocket was down.  Both ways together leave *)
(* no other gap, in whatever order reply, 101 and messages come.           *)
OnlyGapsAreMissed ==
    \A t \in Tabs : \A i \in Backfill(t) \cup Follow(t) : log[i] \in Has(t)

(* What a page gets beyond its history comes from its WebSockets alone, in *)
(* the room's order and never twice, through reloads, broken connections,  *)
(* reconnections and restarts: only what the history holds as well may     *)
(* stand on a page a second time or out of its order (appendMessage).      *)
LiveInOrder ==
    \A t \in Tabs : \A i, j \in DOMAIN shown[t] :
        i < j /\ shown[t][i].id > served[t] /\ shown[t][j].id > served[t]
        => shown[t][i].id < shown[t][j].id

(* No message is on a page twice ("no double backfill", ws_hub.cpp).       *)
ShownOnce ==
    \A t \in Tabs : \A i, j \in DOMAIN shown[t] :
        shown[t][i] = shown[t][j] => i = j

(* A chat page whose token is good gets a WebSocket that is open, however  *)
(* often connections break and pages are reloaded.                         *)
GoodTokenConnects ==
    \A t \in Tabs : page[t] = "chat" ~>
        page[t] # "chat" \/ ready[t] = "open" \/ Lookup(token[t]) = None

(* A chat page reconnects, also after a restart of the server.             *)
ChatReconnects ==
    \A t \in Tabs : page[t] = "chat" ~> page[t] # "chat" \/ ready[t] = "open"

=============================================================================
