------------------------------ MODULE TcpChat ------------------------------
(***************************************************************************)
(* The TCP chat server: one Reactor thread (server/reactor.cpp) that runs  *)
(* the callbacks of Connection (tcp/connection.cpp), MessageHandler,       *)
(* UserManager and ConnectionManager, composed as in tcp/main.cpp.         *)
(*                                                                         *)
(* A packet or a message is a record whose text is abstracted away.  The   *)
(* bytes of a packet count as one unit of the read buffer, and the content *)
(* of a chat message is the connection that wrote it.  The clients and the *)
(* kernel are the environment: a client may dial, send any packet of the   *)
(* alphabet, stop reading, or leave, at any moment, also while the server  *)
(* is in the middle of a callback.                                         *)
(***************************************************************************)
EXTENDS Integers, Sequences, FiniteSets

CONSTANTS
    Conns,             \* Connection objects; each accepted socket gets a new one
    Names,             \* user names a client may log in with
    None,              \* nullptr, and the empty username_
    Alphabet,          \* the packets the clients of the instance send
    Budget,            \* bound: packets one client sends in its life
    ReadRoom,          \* capacity of readBuf_ in packets (1024 bytes in the code)
    MaxFds,            \* descriptors the process may hold for clients
    Slow,              \* the clients that may stop reading
    Timeout,           \* ConnectionManager::tick's timeoutSec, in ticks
    Signals,           \* TRUE: SIGINT or SIGTERM may come
    QuietAfterLogout   \* TRUE: clients send nothing after their LOGOUT

(* What a body parses to: a user name (LOGIN, and the target of PRIVATE),  *)
(* a text (CHAT), an empty or missing field, text that is not JSON, or     *)
(* JSON whose field (or whole value) has the wrong type.                   *)
BodyText == {"text", "empty", "malformed", "mistyped"}

Packet ==
    [type: {"LOGIN", "PRIVATE"}, body: Names \cup (BodyText \ {"text"})]
        \cup [type: {"CHAT"}, body: BodyText]
        \cup [type: {"USER_LIST", "PING", "LOGOUT", "OTHER", "BADFRAME"},
              body: {"empty"}]

ASSUME ConnsAssumption   == None \notin Conns /\ IsFiniteSet(Conns)
ASSUME NamesAssumption   == None \notin Names /\ Names \cap BodyText = {}
ASSUME PacketsAssumption == Alphabet \subseteq Packet
ASSUME BoundsAssumption  == /\ Budget \in Nat /\ ReadRoom \in Nat
                            /\ MaxFds \in Nat /\ Timeout \in Nat
                            /\ Slow \subseteq Conns /\ Signals \in BOOLEAN
                            /\ QuietAfterLogout \in BOOLEAN

VARIABLES
    proc,       \* the process: "running", "stopped" by SIGINT, "crashed"
    peer,       \* client ends: "none", "open", "stalled" (not reading), "gone"
    inbox,      \* packets in the kernel's receive queue of the server's socket
    budget,     \* packets the client may still send
    state,      \* Connection::state_, after "NONE" and "BACKLOG"
    username,   \* Connection::username_
    readBuf,    \* Connection::readBuf_, as whole packets
    room,       \* readBuf_.writableBytes(), in packets
    stream,     \* everything ever appended to writeBuf_
    flushed,    \* how many messages of stream the kernel has taken
    writing,    \* connections whose writing_ flag is set
    interest,   \* connections the kernel has armed with EPOLLOUT
    reg,        \* connections with an open fd_ registered in contexts_ and epoll
    users,      \* UserManager::users_, None for an absent name
    mgr,        \* ConnectionManager::conns_
    idle,       \* ticks since lastActive_, capped at Timeout + 1
    cur,        \* the connection whose onRead is running, or None
    thenWrite,  \* that event carried EPOLLOUT too: onWrite runs after onRead
    toClose     \* ConnectionManager::tick's toClose, while it is closing them

clientVars == <<peer, inbox, budget>>
tableVars  == <<state, username, reg, users, mgr>>
outVars    == <<stream, writing, interest>>
loopVars   == <<cur, thenWrite, toClose>>
vars == <<proc, clientVars, tableVars, outVars, loopVars, readBuf, room,
          flushed, idle>>

-----------------------------------------------------------------------------
(* Messages to clients.                                                    *)

Ack(ok)              == [type |-> "LOGIN_ACK", ok |-> ok]
System(name, online) == [type |-> "SYSTEM", user |-> name, online |-> online]
UserList(names)      == [type |-> "USER_LIST", users |-> names]
ChatBroad(c)         == [type |-> "CHAT_BROAD", from |-> username[c], content |-> c]
Private(c, name)     == [type |-> "PRIVATE", from |-> username[c], to |-> name,
                         content |-> c]
Pong                 == [type |-> "PONG"]

Message ==
    [type: {"LOGIN_ACK"}, ok: BOOLEAN]
        \cup [type: {"SYSTEM"}, user: Names \cup {None}, online: BOOLEAN]
        \cup [type: {"USER_LIST"}, users: SUBSET Names]
        \cup [type: {"CHAT_BROAD"}, from: Names \cup {None}, content: Conns]
        \cup [type: {"PRIVATE"}, from: Names \cup {None}, to: Names, content: Conns]
        \cup [type: {"PONG"}]

-----------------------------------------------------------------------------
(* UserManager, as functions of a table us.                                *)

Online(us)   == {n \in Names : us[n] # None}               \* usernames()
Audience(us) == {c \in Conns : \E n \in Names : us[n] = c} \* broadcast's targets

Without_KeepsEntry(us, c) == us  \* mutant: users_.remove(conn) is forgotten

Without(us, c) == [n \in Names |-> IF us[n] = c THEN None ELSE us[n]]

(* What broadcastSystem and broadcastUserList tell everyone.               *)
News_NoList(name, online, us) == <<System(name, online)>>  \* mutant
News_AlwaysOnline(name, online, us) ==  \* mutant: onClose reuses the login notice
    <<System(name, TRUE), UserList(Online(us))>>

News(name, online, us) == <<System(name, online), UserList(Online(us))>>

-----------------------------------------------------------------------------
(* Connection::send.                                                       *)

To(S, msgs) == [d \in Conns |-> IF d \in S THEN msgs ELSE <<>>]

Both(post1, post2) == [d \in Conns |-> post1[d] \o post2[d]]

(* Append post[d] to the write buffer of every d and arm EPOLLOUT where    *)
(* writing_ was off.  modifyFd fails, unnoticed, on a descriptor that is   *)
(* not among the open ones: a closed connection is only ever sent to again *)
(* before its descriptor can be reused, or with writing_ already set.      *)
Deliver(post, open) ==
    LET woken == {d \in Conns : post[d] # <<>>}
    IN  /\ stream' = [d \in Conns |-> stream[d] \o post[d]]
        /\ writing' = writing \cup woken
        /\ interest' = (interest \cap open) \cup ((woken \ writing) \cap open)

Pending(c) == Len(stream[c]) - flushed[c]

Forget_Noop(c) == mgr  \* mutant: connMgr.remove(cc) is forgotten

Forget(c) == mgr \ {c}

(* Connection::close, with the close callback of tcp/main.cpp: the socket  *)
(* leaves epoll, MessageHandler::onClose takes an authenticated user out   *)
(* of the table us and tells the others, ConnectionManager forgets the     *)
(* connection, and only then state_ becomes CLOSED.                        *)
Close(c, us) ==
    IF state[c] = "CLOSED" THEN UNCHANGED <<tableVars, outVars>>
    ELSE LET wasUser == state[c] = "AUTHENTICATED"
             left    == IF wasUser THEN Without(us, c) ELSE us
             told    == IF wasUser THEN Audience(left) ELSE {}
         IN  /\ users' = left
             /\ Deliver(To(told, News(username[c], FALSE, left)), reg \ {c})
             /\ reg' = reg \ {c}
             /\ mgr' = Forget(c)
             /\ state' = [state EXCEPT ![c] = "CLOSED"]
             /\ UNCHANGED username

-----------------------------------------------------------------------------
(* The clients and the kernel.                                             *)

Init ==
    /\ proc = "running"
    /\ peer = [c \in Conns |-> "none"]
    /\ inbox = [c \in Conns |-> <<>>]
    /\ budget = [c \in Conns |-> Budget]
    /\ state = [c \in Conns |-> "NONE"]
    /\ username = [c \in Conns |-> None]
    /\ readBuf = [c \in Conns |-> <<>>]
    /\ room = [c \in Conns |-> ReadRoom]
    /\ stream = [c \in Conns |-> <<>>]
    /\ flushed = [c \in Conns |-> 0]
    /\ writing = {} /\ interest = {} /\ reg = {} /\ mgr = {}
    /\ users = [n \in Names |-> None]
    /\ idle = [c \in Conns |-> 0]
    /\ cur = None /\ thenWrite = FALSE /\ toClose = {}

serverVars == <<tableVars, outVars, loopVars, readBuf, room, flushed, idle>>

(* The kernel completes the handshake and queues the socket for accept.    *)
Dial(c) ==
    /\ proc = "running"
    /\ state[c] = "NONE"
    /\ peer' = [peer EXCEPT ![c] = "open"]
    /\ state' = [state EXCEPT ![c] = "BACKLOG"]
    /\ UNCHANGED <<proc, inbox, budget, username, reg, users, mgr, outVars,
                   loopVars, readBuf, room, flushed, idle>>

ClientSend(c, p) ==
    /\ proc = "running"
    /\ peer[c] \in {"open", "stalled"}
    /\ c \in reg \/ state[c] = "BACKLOG"
    /\ budget[c] > 0
    /\ inbox' = [inbox EXCEPT ![c] = Append(@, p)]
    /\ budget' = [budget EXCEPT ![c] =
                    IF QuietAfterLogout /\ p.type = "LOGOUT" THEN 0 ELSE @ - 1]
    /\ UNCHANGED <<proc, peer, serverVars>>

(* The client closes its end, or its process dies.                         *)
ClientLeave(c) ==
    /\ proc = "running"
    /\ peer[c] \in {"open", "stalled"}
    /\ peer' = [peer EXCEPT ![c] = "gone"]
    /\ UNCHANGED <<proc, inbox, budget, serverVars>>

(* The client stops reading and its window fills up.                       *)
ClientStall(c) ==
    /\ proc = "running"
    /\ c \in Slow
    /\ peer[c] = "open"
    /\ peer' = [peer EXCEPT ![c] = "stalled"]
    /\ UNCHANGED <<proc, inbox, budget, serverVars>>

-----------------------------------------------------------------------------
(* The reactor.  One callback runs at a time: an event is taken up only    *)
(* when no other is being handled.                                         *)

Dispatching == proc = "running" /\ cur = None /\ toClose = {}

(* The accept loop of main: all sockets of the backlog in turn, each with  *)
(* a new Connection, registered for EPOLLIN.  At the descriptor limit      *)
(* accept fails and the loop breaks, changing nothing.                     *)
Accept(c) ==
    /\ Dispatching
    /\ state[c] = "BACKLOG"
    /\ Cardinality(reg) < MaxFds
    /\ state' = [state EXCEPT ![c] = "CONNECTING"]
    /\ username' = [username EXCEPT ![c] = None]
    /\ stream' = [stream EXCEPT ![c] = <<>>]
    /\ flushed' = [flushed EXCEPT ![c] = 0]
    /\ writing' = writing \ {c}
    /\ interest' = interest \ {c}
    /\ reg' = reg \cup {c}
    /\ mgr' = mgr \cup {c}
    /\ idle' = [idle EXCEPT ![c] = 0]
    /\ UNCHANGED <<proc, clientVars, users, loopVars, readBuf, room>>

Readable(c) == c \in reg /\ (inbox[c] # <<>> \/ peer[c] = "gone")
Writable(c) == c \in reg /\ c \in interest /\ peer[c] # "stalled"

Fits_OneLess(c) == Len(inbox[c]) < room[c]  \* mutant: writableBytes is one short
Fits_Unchecked(c) == TRUE  \* mutant: recv is not limited to writableBytes()

Fits(c) == Len(inbox[c]) <= room[c]

(* onRead's recv loop ends with 0 or an error: the peer hung up, or the    *)
(* buffer is full (readBuf_ is never compacted) while more is queued, and  *)
(* recv of length 0 returns 0.  What was read is dropped undecoded.  An    *)
(* onWrite that follows finds the connection closed and does nothing.      *)
ReadCloses(c) ==
    /\ Dispatching
    /\ Readable(c)
    /\ peer[c] = "gone" \/ ~Fits(c)
    /\ Close(c, users)
    /\ UNCHANGED <<proc, clientVars, loopVars, readBuf, room, flushed, idle>>

(* onRead's recv loop ends with EAGAIN: everything queued is in readBuf_   *)
(* and the decode loop begins.  w: the same event carried EPOLLOUT.        *)
ReadStarts(c, w) ==
    /\ Dispatching
    /\ Readable(c)
    /\ peer[c] # "gone" /\ Fits(c)
    /\ w => Writable(c)
    /\ readBuf' = [readBuf EXCEPT ![c] = @ \o inbox[c]]
    /\ room' = [room EXCEPT ![c] = @ - Len(inbox[c])]
    /\ inbox' = [inbox EXCEPT ![c] = <<>>]
    /\ idle' = [idle EXCEPT ![c] = 0]
    /\ cur' = c
    /\ thenWrite' = w
    /\ UNCHANGED <<proc, peer, budget, tableVars, outVars, flushed, toClose>>

-----------------------------------------------------------------------------
(* One round of onRead's decode loop: the packet at the head of readBuf_   *)
(* goes through MessageHandler::onPacket.  The loop does not look at       *)
(* state_: it goes on after a packet that closed the connection.           *)

Decoding(c) == proc = "running" /\ cur = c /\ readBuf[c] # <<>>

Type(c) == Head(readBuf[c]).type
Body(c) == Head(readBuf[c]).body
LoggedIn(c) == state[c] = "AUTHENTICATED"

handlerVars == <<proc, clientVars, loopVars, room, flushed, idle>>

Consume(c) == readBuf' = [readBuf EXCEPT ![c] = Tail(@)]

Reply(c, post) ==
    /\ Deliver(post, reg)
    /\ UNCHANGED <<tableVars, handlerVars>>

(* A json field of the wrong type: j.value throws outside the try block,   *)
(* no one catches it and the process terminates.                           *)
UncaughtThrow(c) ==
    /\ Decoding(c)
    /\ Body(c) = "mistyped"
    /\ \/ Type(c) = "LOGIN" /\ ~LoggedIn(c)
       \/ Type(c) \in {"CHAT", "PRIVATE"} /\ LoggedIn(c)
    /\ proc' = "crashed"
    /\ UNCHANGED <<clientVars, tableVars, outVars, loopVars, readBuf, room,
                   flushed, idle>>

LoginRefused_NoDuplicateCheck(c) ==  \* mutant: add's result is ignored
    \/ LoggedIn(c)
    \/ Body(c) \in {"malformed", "empty"}

LoginRefused(c) ==
    \/ LoggedIn(c)
    \/ Body(c) \in {"malformed", "empty"}
    \/ Body(c) \in Names /\ users[Body(c)] # None

HandleLogin(c) ==
    /\ Decoding(c) /\ Type(c) = "LOGIN" /\ Consume(c)
    /\ \/ /\ LoginRefused(c)
          /\ Reply(c, To({c}, <<Ack(FALSE)>>))
       \/ /\ ~LoginRefused(c)
          /\ Body(c) \in Names
          /\ LET joined == [users EXCEPT ![Body(c)] = c]
             IN  /\ users' = joined
                 /\ Deliver(Both(To({c}, <<Ack(TRUE)>>),
                                 To(Audience(joined), News(Body(c), TRUE, joined))),
                            reg)
          /\ username' = [username EXCEPT ![c] = Body(c)]
          /\ state' = [state EXCEPT ![c] = "AUTHENTICATED"]
          /\ UNCHANGED <<reg, mgr, handlerVars>>

HandleChat_Echoed(c) ==  \* mutant: broadcast without the except argument
    /\ Decoding(c) /\ Type(c) = "CHAT" /\ Consume(c)
    /\ \/ /\ ~LoggedIn(c)
          /\ Reply(c, To({c}, <<Ack(FALSE)>>))
       \/ /\ LoggedIn(c) /\ Body(c) \in {"malformed", "empty"}
          /\ Reply(c, To({}, <<>>))
       \/ /\ LoggedIn(c) /\ Body(c) = "text"
          /\ Reply(c, To(Audience(users), <<ChatBroad(c)>>))

HandleChat(c) ==
    /\ Decoding(c) /\ Type(c) = "CHAT" /\ Consume(c)
    /\ \/ /\ ~LoggedIn(c)
          /\ Reply(c, To({c}, <<Ack(FALSE)>>))
       \/ /\ LoggedIn(c) /\ Body(c) \in {"malformed", "empty"}
          /\ Reply(c, To({}, <<>>))
       \/ /\ LoggedIn(c) /\ Body(c) = "text"
          /\ Reply(c, To(Audience(users) \ {c}, <<ChatBroad(c)>>))

(* users_.get("") is nullptr too: a missing target is an absent user.      *)
HandlePrivate(c) ==
    /\ Decoding(c) /\ Type(c) = "PRIVATE" /\ Consume(c)
    /\ \/ /\ \/ ~LoggedIn(c)
             \/ Body(c) = "empty"
             \/ Body(c) \in Names /\ users[Body(c)] = None
          /\ Reply(c, To({c}, <<Ack(FALSE)>>))
       \/ /\ LoggedIn(c) /\ Body(c) = "malformed"
          /\ Reply(c, To({}, <<>>))
       \/ /\ LoggedIn(c) /\ Body(c) \in Names
          /\ users[Body(c)] # None
          /\ Reply(c, To({users[Body(c)]}, <<Private(c, Body(c))>>))

HandleUserList(c) ==
    /\ Decoding(c) /\ Type(c) = "USER_LIST" /\ Consume(c)
    /\ Reply(c, To({c}, <<UserList(Online(users))>>))

HandlePing(c) ==
    /\ Decoding(c) /\ Type(c) = "PING" /\ Consume(c)
    /\ Reply(c, To({c}, <<Pong>>))

HandleOther(c) ==
    /\ Decoding(c) /\ Type(c) = "OTHER" /\ Consume(c)
    /\ Reply(c, To({}, <<>>))

(* users_.remove(conn), then close, whose callback removes and announces.  *)
HandleLogOut(c) ==
    /\ Decoding(c) /\ Type(c) = "LOGOUT" /\ Consume(c)
    /\ Close(c, IF state[c] = "CLOSED" THEN users ELSE Without(users, c))
    /\ UNCHANGED handlerVars

(* decode reports a length field out of range (consumed 0): onRead closes  *)
(* and returns, and what is left in readBuf_ is never looked at again.     *)
BadFrame(c) ==
    /\ Decoding(c) /\ Type(c) = "BADFRAME"
    /\ readBuf' = [readBuf EXCEPT ![c] = <<>>]
    /\ Close(c, users)
    /\ UNCHANGED handlerVars

HandlePacket(c) ==
    \/ UncaughtThrow(c)
    \/ HandleLogin(c)
    \/ HandleChat(c)
    \/ HandlePrivate(c)
    \/ HandleUserList(c)
    \/ HandlePing(c)
    \/ HandleOther(c)
    \/ HandleLogOut(c)
    \/ BadFrame(c)

-----------------------------------------------------------------------------
(* Connection::onWrite, at the granularity of whole messages.              *)

Disarmed_KeepsFlag(c) == writing  \* mutant: writing_ is not reset

Disarmed(c) == writing \ {c}

(* The kernel takes everything and EPOLLOUT is dropped.                    *)
WriteAll(c) ==
    /\ (c \in reg /\ peer[c] # "stalled") \/ Pending(c) = 0
    /\ flushed' = [flushed EXCEPT ![c] = Len(stream[c])]
    /\ idle' = [idle EXCEPT ![c] = IF Pending(c) > 0 THEN 0 ELSE @]
    /\ writing' = Disarmed(c)
    /\ interest' = interest \ {c}
    /\ UNCHANGED <<stream, tableVars>>

(* send ends with EAGAIN: EPOLLOUT stays armed.                            *)
WriteSome(c) ==
    /\ c \in reg
    /\ \E k \in 0..(Pending(c) - 1) :
          /\ (k = 0) <=> (peer[c] = "stalled")
          /\ flushed' = [flushed EXCEPT ![c] = @ + k]
          /\ idle' = [idle EXCEPT ![c] = IF k > 0 THEN 0 ELSE @]
    /\ UNCHANGED <<outVars, tableVars>>

(* send fails: the peer has reset the connection, or fd_ is closed.        *)
WriteFails(c) ==
    /\ Pending(c) > 0
    /\ c \notin reg \/ peer[c] = "gone"
    /\ Close(c, users)
    /\ UNCHANGED <<flushed, idle>>

OnWrite(c) == WriteAll(c) \/ WriteSome(c) \/ WriteFails(c)

(* onRead returns; Reactor::handleEvent calls onWrite if the event said so,*)
(* whatever onRead has done to the connection.                             *)
ReadReturns(c) ==
    /\ proc = "running" /\ cur = c /\ readBuf[c] = <<>>
    /\ cur' = None /\ thenWrite' = FALSE
    /\ \/ thenWrite /\ OnWrite(c)
       \/ ~thenWrite /\ UNCHANGED <<tableVars, outVars, flushed, idle>>
    /\ UNCHANGED <<proc, clientVars, readBuf, room, toClose>>

WriteEvent(c) ==
    /\ Dispatching
    /\ Writable(c)
    /\ OnWrite(c)
    /\ UNCHANGED <<proc, clientVars, loopVars, readBuf, room>>

-----------------------------------------------------------------------------
(* Time, the tick and the end of the process.                              *)

(* A second goes by; idle is capped at Timeout + 1, past which ticks       *)
(* cannot tell the difference.                                             *)
Second ==
    /\ Dispatching
    /\ idle' = [c \in Conns |-> IF c \in mgr /\ idle[c] <= Timeout
                                THEN idle[c] + 1 ELSE idle[c]]
    /\ UNCHANGED <<proc, clientVars, tableVars, outVars, loopVars, readBuf,
                   room, flushed>>

(* epoll_wait times out: no socket is ready, the listening one included.   *)
Silent ==
    /\ \A c \in Conns : ~Readable(c) /\ ~Writable(c)
    /\ \A c \in Conns : state[c] # "BACKLOG"

Expired_UsersOnly(c) ==  \* mutant: only logged-in connections are looked at
    c \in mgr /\ LoggedIn(c) /\ idle[c] > Timeout

Expired(c) == c \in mgr /\ idle[c] > Timeout

(* ConnectionManager::tick first collects, then closes one by one.         *)
Tick ==
    /\ Dispatching
    /\ Silent
    /\ toClose' = {c \in Conns : Expired(c)}
    /\ UNCHANGED <<proc, clientVars, tableVars, outVars, cur, thenWrite,
                   readBuf, room, flushed, idle>>

TickCloses(c) ==
    /\ proc = "running"
    /\ c \in toClose
    /\ toClose' = toClose \ {c}
    /\ Close(c, users)
    /\ UNCHANGED <<proc, clientVars, cur, thenWrite, readBuf, room, flushed,
                   idle>>

(* SIGINT or SIGTERM: running_ is seen at the top of the loop.             *)
Stop ==
    /\ Dispatching
    /\ Signals
    /\ proc' = "stopped"
    /\ UNCHANGED <<clientVars, serverVars>>

-----------------------------------------------------------------------------

Environment(c) ==
    \/ Dial(c)
    \/ \E p \in Alphabet : ClientSend(c, p)
    \/ ClientLeave(c)
    \/ ClientStall(c)

ReadEvent(c) == ReadCloses(c) \/ \E w \in BOOLEAN : ReadStarts(c, w)

Next ==
    \/ \E c \in Conns : \/ Environment(c)
                        \/ Accept(c)
                        \/ ReadEvent(c)
                        \/ HandlePacket(c)
                        \/ ReadReturns(c)
                        \/ WriteEvent(c)
                        \/ TickCloses(c)
    \/ Second
    \/ Tick
    \/ Stop

Spec == Init /\ [][Next]_vars

(* The reactor serves every ready socket in each round of its loop, its    *)
(* callbacks terminate, and the clock runs.  Nothing is asked of clients.  *)
Fairness ==
    /\ \A c \in Conns : /\ WF_vars(Accept(c))
                        /\ WF_vars(ReadEvent(c))
                        /\ WF_vars(HandlePacket(c))
                        /\ WF_vars(ReadReturns(c))
                        /\ WF_vars(WriteEvent(c))
                        /\ WF_vars(TickCloses(c))
    /\ WF_vars(Second)
    /\ WF_vars(Tick)

FairSpec == Spec /\ Fairness

-----------------------------------------------------------------------------
(* Properties.                                                             *)

(* Every variable keeps its type; what is left of a read buffer's room is  *)
(* never less than nothing (connection.cpp receives only what fits).       *)
TypeOK ==
    /\ proc \in {"running", "stopped", "crashed"}
    /\ peer \in [Conns -> {"none", "open", "stalled", "gone"}]
    /\ inbox \in [Conns -> Seq(Packet)]
    /\ budget \in [Conns -> 0..Budget]
    /\ state \in [Conns -> {"NONE", "BACKLOG", "CONNECTING", "AUTHENTICATED",
                            "CLOSED"}]
    /\ username \in [Conns -> Names \cup {None}]
    /\ readBuf \in [Conns -> Seq(Packet)]
    /\ room \in [Conns -> 0..ReadRoom]
    /\ stream \in [Conns -> Seq(Message)]
    /\ flushed \in [Conns -> Nat]
    /\ writing \subseteq Conns /\ interest \subseteq Conns
    /\ reg \subseteq Conns /\ mgr \subseteq Conns
    /\ users \in [Names -> Conns \cup {None}]
    /\ idle \in [Conns -> 0..(Timeout + 1)]
    /\ cur \in Conns \cup {None} /\ thenWrite \in BOOLEAN
    /\ toClose \subseteq Conns

(* The two user tables agree: a name maps to a connection exactly when     *)
(* that connection is AUTHENTICATED under that name.  Hence a name belongs *)
(* to one connection and a connection has one name, through any sequence   *)
(* of logins, logouts, failures and timeouts (handleLogin, onClose).       *)
UsersMatchConnections ==
    \A c \in Conns, n \in Names :
        users[n] = c <=> state[c] = "AUTHENTICATED" /\ username[c] = n

(* epoll's registrations and ConnectionManager's set hold the same open    *)
(* connections, none of them CLOSED, and tick only closes connections that *)
(* are still there: closing one never takes away another it has collected. *)
TablesAgree ==
    /\ reg = mgr
    /\ toClose \subseteq mgr
    /\ \A c \in reg : state[c] \in {"CONNECTING", "AUTHENTICATED"}

(* No lost wakeup: an open connection with unsent output is armed for      *)
(* EPOLLOUT, whatever mix of send, partial write and callback led there    *)
(* (send arms only when writing_ is off, onWrite turns it off).            *)
NoLostWakeup ==
    \A c \in reg : Pending(c) > 0 => c \in interest

(* Everyone online is connected: a name of the user table has an open      *)
(* socket behind it, so that peers are told when it goes.                  *)
OnlineUsersAreConnected ==
    \A n \in Names : users[n] # None => users[n] \in reg

(* s[i] is the last message of its kind among the first k of s.            *)
IsLast(s, i, k, Kind(_)) ==
    /\ i \in 1..k /\ Kind(s[i])
    /\ \A j \in (i + 1)..k : ~Kind(s[j])

IsUserList(m) == m.type = "USER_LIST"

(* The last USER_LIST of s names exactly these users.                      *)
LastListIs(s, names) ==
    \E i \in DOMAIN s : IsLast(s, i, Len(s), IsUserList) /\ s[i].users = names

(* What an online client was told last is true: the last USER_LIST in its  *)
(* output is the set of users online now ("the online list updates by      *)
(* itself"), after every login, logout, disconnection and reaping.         *)
ListCurrent ==
    \A n \in Names : users[n] # None =>
        LastListIs(stream[users[n]], Online(users))

(* In the order in which a client receives its messages, nobody talks      *)
(* before being announced or after being announced gone: the last list     *)
(* before a chat or private message names its sender.                      *)
SenderListed ==
    \A c \in Conns : \A k \in DOMAIN stream[c] :
        stream[c][k].type \in {"CHAT_BROAD", "PRIVATE"} =>
            \E i \in 1..k : /\ IsLast(stream[c], i, k, IsUserList)
                            /\ stream[c][k].from \in stream[c][i].users

(* The system notices and the lists tell a client the same story: the last *)
(* notice about a user says "online" exactly if the last list has the user.*)
NoticesAgreeWithList ==
    \A c \in Conns, n \in Names :
        LET s == stream[c]
            About(m) == m.type = "SYSTEM" /\ m.user = n
        IN  \A i \in DOMAIN s : IsLast(s, i, Len(s), About) =>
                \A j \in DOMAIN s : IsLast(s, j, Len(s), IsUserList) =>
                    (s[i].online <=> n \in s[j].users)

(* A chat message never comes back to its author, a private one reaches    *)
(* only its addressee, and both carry the name of the connection that      *)
(* wrote them, in every output however late it is read.                    *)
RightAudience ==
    \A c \in Conns : \A k \in DOMAIN stream[c] :
        LET m == stream[c][k]
        IN  /\ m.type = "CHAT_BROAD" =>
                  m.content # c /\ m.from = username[m.content]
            /\ m.type = "PRIVATE" =>
                  m.to = username[c] /\ m.from = username[m.content]

(* Seen by its clients, the server is a room of named members (ChatRoom):  *)
(* every callback, whatever packet, event, tick or failed write it runs    *)
(* for, changes who is inside and tells everyone inside of it in one step, *)
(* or does neither; a member goes once, by the first of the ways there are *)
(* to end a connection, and nothing else is ever told to anyone.           *)
Room == INSTANCE ChatRoom WITH Clients <- Conns, Nobody <- None,
                               holder <- users, told <- stream
IsARoom == Room!Spec

(* The server itself ends a connection only for a reason of the protocol:  *)
(* the peer hung up, said LOGOUT, broke the framing, or timed out (is      *)
(* still idle when tick's second loop comes to it).                        *)
ClosedForAReason ==
    [][\A c \in reg : c \notin reg' =>
          \/ peer[c] = "gone"
          \/ c \in toClose /\ idle[c] > Timeout
          \/ cur = c /\ readBuf[c] # <<>> /\ Type(c) \in {"LOGOUT", "BADFRAME"}
      ]_vars

(* Once the clients have fallen silent (each has a finite budget), every   *)
(* connection is eventually closed: by its peer, or by the tick.           *)
SilentAreReaped == mgr # {} ~> mgr = {} \/ proc # "running"

(* What is queued for a client that keeps reading reaches the kernel,      *)
(* before the tick would take the connection for a silent one and close    *)
(* it: only the end of the connection for another reason comes between.    *)
OutputIsFlushed ==
    \A c \in Conns : c \in reg /\ Pending(c) > 0 /\ toClose = {} ~>
        \/ Pending(c) = 0
        \/ c \notin reg /\ idle[c] <= Timeout
        \/ peer[c] \in {"stalled", "gone"} \/ proc # "running"

(* When a client has gone, by close or by kill, its name leaves the user   *)
(* table (and then, by ListCurrent, the lists of the others).              *)
SomeoneGone == \E c \in Audience(users) : peer[c] = "gone"
GoneUserLeaves == SomeoneGone ~> ~ SomeoneGone \/ proc # "running"

=============================================================================
