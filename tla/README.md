# A verification of chat_room

`chat_room` is a chat service in C++: a TCP server with a binary packet
protocol (`src/src/tcp`), a web server with a REST interface and WebSockets
(`src/src/server`), a browser front end (`src/src/frontend`), and an epoll
reactor under both. This directory holds TLA+ models of it, the TLC runs that
check them, and proofs checked by TLAPS.

    tlc -config MCTcpChat_talk.cfg MCTcpChat        # a run; see "Runs"
    tlapm WebConnsProofs.tla                        # a module's proofs; see "Proofs"

## 1. Inventory

Both servers are one thread. A reactor waits for events and calls one callback
at a time; a callback runs to its end. What makes the code hard is therefore
not threads but the order of callbacks, callbacks that call others before they
have finished changing state (`close` above all), and what clients, kernel and
network do in between.

| Part | State | Operations | Right when |
|---|---|---|---|
| Reactor (`server/reactor`) | `contexts_`, epoll's set, `running_` | add/modify/removeFd, loop, handleEvent, tick, stop | every ready socket is served; the tick comes; no callback on a socket that is gone |
| Connection (`tcp/connection`) | `fd_`, `state_`, `username_`, `readBuf_`, `writeBuf_`, `writing_`, `lastActive_` | onRead, send, onWrite, close | output is never left without an event; closed only for a reason, once |
| MessageHandler (`tcp/message_handler`) | none | one handler per packet, onClose | names are unique; everybody's list and notices are current |
| UserManager (`tcp/user_manager`) | `users_` | add, remove, get, usernames, broadcast | agrees with the connections' own state |
| ConnectionManager (`tcp/connection_manager`) | `conns_` | add, remove, tick | holds the open connections; silent ones are closed |
| Packet, Buffer (`protocol`, `common`) | positions in a vector | encode, decode; append, consume, makeSpace | bytes come out as they went in |
| Room (`server/room`) | `users_`, `messages_` | addUser, removeUser, addMessage, recentMessages | the last 200 messages; agrees with TokenStore |
| TokenStore (`server/token_store`) | `counter_`, `tok2user_` | issue, lookup, revoke | a token is one user's |
| REST routes (`server/http_handler`) | none | login, users, messages, logout | sessions one to one |
| HttpServer, HttpConnection | `conns_`; buffers, `upgraded_`, `closeAfterWrite_` | accept, dispatch, upgrade hand-off; onRead, send, close | a socket has one owner at a time |
| WsHub, WsConnection | `conns_`; buffers, `username_` | adoptConnection, broadcast; onRead, sendText, close | every member gets every message, under the right name |
| Page (`frontend`) | `TOKEN`, `ME`, `ws`, the message list | login form, history, connectWs, reconnection, send, logout | shows every message once; reconnects |
| HttpRequest, HttpResponse, `ws_frame` | none | parse, tryDecode; toString, encodeFrame | a message is found whole, however it was cut, and consumed exactly |
| `ws_handshake` | none | SHA-1, base64 | see section 7 |

How they interact. TCP: `main` accepts, gives each `Connection` a packet
callback (`MessageHandler::onPacket`) and a close callback
(`MessageHandler::onClose`, then `ConnectionManager::remove`); handlers send to
any connection through `UserManager::broadcast`. Web: `HttpServer` routes a
request to a handler over `Room` and `TokenStore`; a `GET /ws` with a good
token is answered with 101, and when that has been written the close callback
hands the descriptor to `WsHub`; `Room::addMessage`, called by REST and by
WebSockets, calls `WsHub::broadcast`. Each page runs its HTTP requests and its
WebSocket at once.

The hard behaviours, each at its line, are the `hazards` of `PROJECT.json`:
packets handled after the one that closed the connection, a read buffer that is
used up, a tick that starves, lost wakeups, stale lists, names passed on while
requests and sockets of their former owner are under way, history and pushed
messages with no common order, restarts that forget the tokens, objects that
destroy themselves while events for them are still in the batch, ownership of a
descriptor during the hand-off, input that is cut anywhere, output that is
appended between two partial writes.

## 2. Modules

### TcpChat: the TCP server

One module for Reactor, Connection, MessageHandler, UserManager,
ConnectionManager and `tcp/main.cpp`, because a single `close` changes the
state of all of them.

| Variable | Code |
|---|---|
| `state`, `username`, `writing` | `Connection::state_`, `username_`, `writing_` |
| `inbox`; `readBuf`, `room` | the kernel's queue; `readBuf_` and its `writableBytes()` |
| `stream`, `flushed` | all that was appended to `writeBuf_`, and how much `send` has taken |
| `interest`, `reg` | EPOLLOUT armed; registered in epoll and `contexts_` |
| `users`, `mgr` | `UserManager::users_`, `ConnectionManager::conns_` |
| `idle` | ticks since `lastActive_` |
| `cur`, `thenWrite`, `toClose` | where the thread is: in `onRead`'s decode loop, with an `onWrite` to follow, in `tick`'s second loop |
| `peer`, `budget`, `proc` | the client's end, a bound, the process |

An action is a piece of a callback that nothing of this process interrupts but
which clients may act before: `ReadStarts`/`ReadCloses` (the recv loop), one
`Handle...` per packet (each round of the decode loop), `ReadReturns` (and the
`onWrite` that `handleEvent` may call), `WriteEvent`, `Tick`, `TickCloses`,
`Accept`, `Stop`. `Close(c, us)` is `Connection::close` with both callbacks in
their order. `Environment` is the clients: they dial, send, stop reading (those in
`Slow`), and leave at any moment. `Signals` says whether SIGINT or SIGTERM may come.

Abstractions: a packet is one unit of the read buffer (1024 bytes there,
`ReadRoom` packets here) and its body is what the JSON parses to; the content
of a chat is the connection that wrote it, which lets `RightAudience` tell
whether the sender's name is genuine; `onWrite` sends whole messages.

`ChatRoom` is what this server promises its clients: a room that one enters
under a free name and leaves again, in which everyone is told at once, and in one
order, who comes, who goes and what is said, and nobody outside is told anything he
has not asked for. It has no connections, buffers, events or time. `IsARoom`
maps it onto `TcpChat`: who is in the room is `users`, what a client has been
told is `stream`.

### WebChat: the web server and its pages

TokenStore, Room, the REST routes, the upgrade, WsHub and its connections, and
the tabs that run `index.html` and `app.js`.

| Variable | Code |
|---|---|
| `counter`, `tok2user` | `TokenStore` |
| `users`, `history` | `Room::users_`, `messages_`; `log` is every message ever, kept by nobody |
| `ss` | the server's end of a socket: asked, refused, switching (101 being written), in the hub, closing |
| `asked`, `wsUser`, `since` | the token of `/ws?token=`, `WsConnection::username_`, the log when it was adopted |
| `up`, `down` | frames under way, first in first out |
| `page`, `token`, `me` | the page shown, and `localStorage` |
| `ws`, `ready`, `shown`, `served` | `ws` and its `readyState`, the message list, the log when the history was read |
| `reqs`, `replies` | HTTP requests and replies under way, as sets: each has its own connection |

Server actions: `HandleLogin`, `Unauthorized`, `HandleHistory`, `HandlePost`,
`HandleLogout`, `Upgrade`, `Adopt`, `HandleText`, `HandleClose`, `Forget`,
`Restart`. Page actions: `SubmitLogin`, `LoginReply`, `Reload`, `HistoryReply`,
`Say`, `ClickLogout`, `LogoutReply`, `Leave`, `Reconnect`, `Receive`,
`Refused`; `Post` is a script with the page's token, `Break` the network.

Abstractions: tokens are their number, messages a number with the name they are
sent `from` and the name they were written `by`; one tab per browser (a second
tab of the same browser would share `localStorage`); timers may fire at any
moment; a request that is lost is one that stays under way. HTTP and frame
syntax, `GET /api/users` and refusals that change nothing are left out. A route
handler that throws (`j.value` of http_handler.cpp:56 and :103 on JSON of another
shape) ends the process: here it is one of the causes of `Restart`, and WebStream
has the step itself.

### Buffer and ByteQueue: a connection's bytes

`Buffer` is `common/buffer.cpp` as operators on a record of the vector and its
two positions: `Appended` (append with `MakeSpace`: it fits, it compacts, or it
doubles), `Consumed`, `Cleared`, `Written` (writeBegin and hasWritten).
`Contents` is what lies between the positions. `MaxSize` stands for the memory
there is; a step that would need more is not taken (`Fits`). `ByteQueue` is what
a buffer promises its owner: bytes enter behind and leave in front.

### WebStream: one socket of the web server

From the first byte to the last: `HttpConnection`, `HttpRequest::parse`,
`dispatch_` and `handleWsUpgrade_`, the hand-over, `WsConnection`,
`ws::tryDecode` and `encodeFrame`, over the buffers of `Buffer`.

| Variable | Code |
|---|---|
| `phase`, `upgraded` | the object in charge (and how the last one ended); `upgraded_` |
| `pc`, `thenWrite` | where its callback is; an event with EPOLLIN and EPOLLOUT |
| `readBuf`, `writeBuf` | `readBuf_`, `writeBuf_` |
| `closeAfterWrite`, `writing`, `armed` | `closeAfterWrite_`, `writing_`, EPOLLOUT in epoll's set |
| `script`, `sent`, `inbox`, `fin` | the client and the kernel's queue |
| `handled`, `taken`, `out`, `delivered` | what was dispatched and from which units; what was written and what `send` took |

Every step of a callback at which bytes may arrive or a loop may turn is an
action: `Recv`/`RecvDry`/`RecvEnds` (the recv loop),
`HandleRequest`/`HandlerThrows`/`ParseWaits` (the parse loop), `HandleFrame`/`DecodeWaits`/`RefuseFrame`/`DecodeThrows` (the
decode loop), `Send`/`SendBlocks`/`SendFails`/`SendDone` (the send loop),
`Pushed` (a broadcast out of another connection's callback).

Abstractions: a unit on the wire is a byte that matters on its own, or a run of
bytes that the code only looks at as a whole: a request line with its headers,
the empty line, an extended length, a masking key, a response's head. Payload
units are the unmasked bytes. `Short`, `Long` and `WordSize` stand for 126,
65536 and 2^64; the sum in tryDecode wraps at `WordSize`, and a length that
wrapped makes `resize` throw, which ends the process (`"ended"`), as does a route
handler at a body of `Misshapen`. `IntSize` stands for 2^32: tryDecode returns
`int(pos + plen)` (ws_frame.cpp:83), so the length of a frame of 2 GiB or more comes
out negative, which `consume` takes for more than there is; as -1, which the read
loop takes for missing bytes; as 0, which it takes for an error; or short (`AsInt`,
`Decoded`). Then the decoder is out of step: what it reads next is the middle of a
frame, which may say anything (`Astray`, `Strays`), and of the payload it makes of it
the model keeps only whether it is empty. `MaxHandled` bounds the messages that are
handled in this way. FIN is left
out: the code decodes it and nothing looks at it, so a first fragment is a whole
text and a continuation an opcode that is not served. Of a text only whether its
payload is empty matters here. A client that asks for an upgrade waits for the
101 (`UpgradeIsLast`): bytes sent earlier would stay in the buffer of the
destroyed `HttpConnection`. A write callback on a destroyed object is WebConns'
subject (`DeadCallback`).

### WebConns: who owns which descriptor

| Variable | Code |
|---|---|
| `contexts`, `armed` | `Reactor::contexts_`, EPOLLOUT in epoll's set |
| `conns`, `hub` | `HttpServer::conns_`, `WsHub::conns_` |
| `fd`, `pending`, `ending`, `upgraded` | an object's `fd_` (None if it does not exist), messages in `writeBuf_`, `closeAfterWrite_`, `upgraded_` |
| `open` | the kernel's table: the client of the socket behind a descriptor |
| `batch`, `calls` | the events of `epoll_wait` still to be dealt with, the callbacks of the current one still to be called |
| `stage`, `said`, `received`, `gone`, `told` | the clients |
| `running` | the process |

`EpollWait` takes a snapshot; `HandleEvent` picks an event, looks its callbacks
up by descriptor and copies them; each callback (`Accept`, `ReadRequest`,
`ReadFrames`, `ReadEnds`, `WriteAll`, `WritePart`, `WriteFails`) is a step.
`Close` is `close` of either class together with its owner's close callback:
unregister, perhaps `adoptConnection` on the same descriptor, erase, destroy, and
`::close(fd_)` out of the destroyed object. `FreedReads` is what that read may
find: the old value, or what the allocator wrote there (`fd_` is the first
member; `upgraded_` lies further back and is taken to be intact). `DeadCallback`
is the write callback that `handleEvent` calls on an object its read callback
has destroyed: it may return, or end the process.

Abstractions: a message is one unit, and is received whole; a client dials once,
sends one request, and frames only after the 101; `writing_` is WebStream's
subject. `accept` at the descriptor limit returns (`AcceptReturns`); no instance
here has fewer descriptors than clients.

The three web modules look at one program from three sides, and meet in the
101 and the hand-over: `Adopt` of WebChat, `SendDone` with `upgraded` of
WebStream, and `WriteAll` of an upgraded object in WebConns are one moment of the
code. What WebChat takes for granted (a socket in the hub stays there, frames
come in order and whole) is what `MembersStay`, `HandledAsSent` and `NothingLost`
state below it.

### Other modules

`TcpChatProofs`, `TcpChatOutputs`, `WebChatProofs`, `WebChatAuthors`,
`WebChatHistory`, `BufferProofs`, `WebStreamProofs` and `WebConnsProofs` extend
the modules they are about (section 5). `MCTcpChat`, `MCWebChat`, `MCWebStream`
and `MCWebConns` hold the alphabets, scripts and symmetry of the instances.
A definition with a comment `mutant` is a plausible bug, by which each property
is known to be able to fail.

## 3. Runs

| Run | Instance | Shows |
|---|---|---|
| `tcp_anything` | 1 client, every packet, 3 per life, read room 2 | `TypeOK`, `NoLostWakeup`; every handler and error path runs |
| `tcp_talk` | 2 clients that keep reading, 2 names, chats and private messages, 2 packets each, no signal | `OnlineUsersAreConnected`, `NoticesAgreeWithList`, `SenderListed`, `RightAudience`, `IsARoom` (the refinement of ChatRoom), for clients that send nothing after LOGOUT |
| `tcp_live` | 2 clients, one of which may stop reading, 1 name, read room for all they send | `TablesAgree`, `UsersMatchConnections`, `ListCurrent`, `ClosedForAReason`; `SilentAreReaped`, `OutputIsFlushed`, `GoneUserLeaves` under `FairSpec` |
| `tcp_ghost` | 2 clients, 2 names, LOGIN and LOGOUT in any order | finding: `OnlineUsersAreConnected` is violated |
| `tcp_buffer` | 1 client, read room below its budget | finding: `ClosedForAReason` is violated |
| `web_safety` | 2 tabs, 2 names, 2 sockets, 2 tokens; say, post, logout, leave | `TypeOK`, `SessionsMatch`, `TokenKeepsItsUser`, `AuthorIsGenuine`, `OnlyGapsAreMissed` |
| `web_live` | 1 tab, 2 messages, 1 reload or broken connection, 1 restart | `LiveInOrder`; `GoodTokenConnects` under `FairSpec` |
| `web_reconnect` | 1 tab, 1 restart | finding: `ChatReconnects` is violated |
| `web_twice` | 2 tabs, 1 message | finding: `ShownOnce` is violated |
| `stream` | 1 client, every request and frame (41 scripts, with frames too long for an int and a body at which a handler throws), vector of 5 units growing to 24, 1 push | `TypeOK`, `StreamIntact`, `HandledAsSent`, `NothingLost`, `OutputArmed`, `EndsForAReason`; `InQueue`, `OutQueue` (refinements of ByteQueue); `FirstRequestAnswered`, `FramesActedOn` under `FairSpec` |
| `conns` | 2 clients, 2 descriptors, 2 frames by one of them and none by the other, both outcomes of the freed read | `TypeOK`, `OwnersAgree`, `EventsReachTheirOwner`, `MembersStay`; `Answered`, `GoneAreForgotten` under `FairSpec` |
| `conns_leak` | 2 clients, freed memory overwritten | finding: `ClosedWithItsObject` is violated |

Why the bounds are enough. Two connections and one name make every race for a
name (login against login, against logout, against a failing or a reaped
connection); the proofs of section 5 lift the result to any number. Two or
three packets per client are a login, a message and a logout, or the two
packets behind a logout that matter. In `tcp_talk` nobody stops reading and no
signal comes: a client that does not read delays what it is sent and changes none
of it (the other runs have such clients), and a stop loses what is under way, as
the other runs show. A `Timeout` of 0 keeps a connection alive
for one tick, which is all that `tick` distinguishes. `MaxFds` is never below the
number of clients, so the tick that starves at the descriptor limit is outside
these runs: with `MaxFds = 1` TLC finds `SilentAreReaped` violated in the
instance of `tcp_live`, for a socket that `accept` cannot take keeps epoll_wait
from ever timing out, and the tick runs only then. On the web side two tokens are
a name passed on or two users at once; `web_live` has one token in each run of the
server, which makes the page log in once before and once after the restart. A history of one is full at the first
message, and two messages are the least that can be out of order; one fault is one reload or one broken connection at every moment.
`OnlyGapsAreMissed` is proved for any number of messages and any length of the
history.

In `stream`, two requests are the least that can be pipelined, two frames the
least that can run into each other; `Short = 1` and `Long = 2` give every length
form to a payload of at most two, a word of 32 makes the two longest announced
lengths wrap or not, an `IntSize` of 13 makes frames of 7, 12, 13 and 14 units come
out as -6, -1, 0 and 1 while those of up to 6 fit, and a vector of five compacts and
doubles in most scripts. Three messages handled are the upgrade, the frame that is
too long and one that is read out of step behind it.
In `conns`, two descriptors and two clients give a batch in which the first
event closes, hands over or accepts beside the second, and a descriptor closed
and accepted again within one batch. Deadlock checking is off: an instance comes
to rest when its clients have nothing left to do, or the process has ended.

Findings. `tcp_ghost`: a LOGIN read together with the LOGOUT before it brings a
closed connection back into `users_`, for good. `tcp_buffer`: `readBuf_` is
never compacted by the read path, and after 1024 bytes in its life a connection
is closed.
`web_reconnect`: tokens do not survive a restart and the page retries for ever.
`web_twice`: a message posted while a page loads can appear twice. It can also be
lost: posted after `GET /api/messages` was answered and before `adoptConnection`, it
comes by neither way, although app.js:206 says that their order does not matter
(`顺序无所谓`). `OnlyGapsAreMissed` grants this gap, and the time in which a
WebSocket is down, and shows that there is no other.
`conns_leak`: `close` of `HttpConnection` and of `WsConnection` reads `fd_` after
the close callback has destroyed the object, and the descriptor may stay open
for good.

## 4. Fairness

`TcpChat!Fairness`: weak fairness of every action of the reactor and of the
clock. epoll is level-triggered, a round of the loop serves every event it was
told (1024 at a time), and no callback blocks. Nothing is asked of clients.
`Tick` is weakly fair although it needs a silent second: clients have a finite
budget, so they do fall silent.

`WebChat!Fairness`: the server handles some request as long as there is one,
serves every socket, and each browser runs its callbacks and its timer. Nobody
has to log in, speak, log out or leave, and nothing has to break.

`WebStream!Fairness`: weak fairness of the server (an event is told again until
it has been dealt with, and a callback runs to its end), and strong fairness of
`Send`: a client that stays reads what it is sent, so the kernel takes something
again and again. `WebConns!Fairness`: weak fairness of the loop, and strong
fairness of a complete write of an HTTP answer, for the same reason. Both
liveness properties excuse a client that leaves; those of WebConns excuse a
process ended by `DeadCallback`, and `FirstRequestAnswered` one ended by a handler
that throws at a request pipelined behind the first, whose answer is then lost.
`FramesActedOn` is about frames of less than 2 GiB, as are those before it.

## 5. Proofs

The theorems about `TcpChat` hold for any `Conns` (finite), `Names`, `Alphabet`,
`Budget`, `ReadRoom`, `MaxFds`, `Timeout`, `Slow`, `Signals`, under the assumptions
named in it.

- `TypeCorrect`: `Spec => []TypeOK`.
- `UsersAlwaysMatchConnections`, `TablesAlwaysAgree`, `NeverALostWakeup`: from
  one inductive invariant, `Inv` of `TcpChatProofs`. It is needed because none
  of the three is inductive alone: that an armed connection is still a
  registered one needs the tables to agree, that a tick closes only what is
  registered needs `toClose` to be empty while a packet is handled, and that a
  closing connection has no name left needs the user table to match `state`.
  The proof has one lemma for `Close`, one for `Deliver`, and one step per
  action of `Next`.
- `ClosesHaveReasons`, under `Budget <= ReadRoom`: `ClosedForAReason`, the property
  that `tcp_buffer` refutes. A client that sends no more in its life than the read
  buffer holds is closed only for hanging up, LOGOUT, broken framing or silence, so
  the buffer that is used up is the one reason of the code's own. The invariant is
  `RoomLeft`, that what a client may still send, and what waits in the kernel, fit
  into what is left; and `StillIdle`, that whoever `tick` has collected is still
  silent when its turn comes, whatever the closings before it send.

What clients are told is the subject of `TcpChatOutputs`. Its `StepKinds` sorts
every step, by whatever event it comes about, into one in which nothing is sent
and nobody comes or goes (`StandsStill`), or one of six others: a connection is
accepted, a packet is answered to its sender, a chat, a private message, a login, a
departure (`Admitted`, `Answered`, `Said`, `Whispered`, `Joined`, `Left`). Each
invariant is then proved kind by kind, appending one message at a time.

- `ListsAlwaysCurrent`: the last USER_LIST in the output of every online client
  is the set of users online now. The argument is the order of the code: every
  change of `users_` is followed, in the same callback, by a list to everyone then
  in it.
- `SendersAlwaysListed`: `SenderListed`, from the theorem before and `Named` (who is
  logged in has a name): whoever a chat is posted to has a current list, and the
  sender is on it.
- `ServerIsARoom`: `Spec => IsARoom`. Every kind of step is an action of `ChatRoom`
  or a stutter. It needs that a departing connection is in the table under just one
  name (`UsersMatchConnections`), so that taking the connection out is taking that
  name out; and `Blank`, that nothing is sent on a connection before it is
  accepted, for `accept` begins an output anew.
- `OnlineAreConnected`, `AudienceAlwaysRight`, `NoticesAlwaysAgree`, under
  `QuietAfterLogout`. All rest on `Orderly`: packets are decoded on registered
  connections only, and a LOGOUT is the last of them. `Delivered` adds to
  `RightAudience` that authors and addressees have logged in, so that no later
  login changes their names; `Noticed` adds to `NoticesAgreeWithList` that the
  notices of a user agree with the table, and that who has not yet logged in has
  heard none.

`QuietAfterLogout` says that clients send nothing behind their LOGOUT, as
`src/tools/chat_client.py` does (it ends its loop with it). It is needed: without
it `tcp_ghost` refutes the first, a second login changes the name that `RightAudience` compares with, and a
closed connection that still asks for a list gets one with no notices before it.
`SendersAlwaysListed`, `ListsAlwaysCurrent` and `ServerIsARoom` hold without it: the
ghost of `tcp_ghost` is a member of the room like any other, only that nothing makes
him leave.

The theorems about `WebChat` hold for any `Tabs`, `Names`, `Sockets`, `Doings` and
bounds, under the assumptions named in it.

- `TypeCorrect` (`WebChatProofs`): `Spec => []TypeOK`. The strengthening is
  `HubKnowsUser`: that a message of the hub has a sender rests on every socket
  past the upgrade having a name. One lemma per action.
- `SessionsAlwaysMatch`: a login is safe only if the token it is about to issue
  stands for nobody yet, so the invariant adds `FreshTokens`, that no token above
  `counter_` was ever used.
- `TokensAreKept` (`WebChatAuthors`), under `MaxRestarts = 0`: everything that
  carries a token (a page, the reply to a login, a request under way) carries the
  name it was issued for (`TokensOK`), and a token in use keeps its user until it
  is revoked.
- `AuthorsAreGenuine`, under `MaxRestarts = 0`: a post follows from `TokensOK`. For
  a WebSocket the argument goes from the page to the hub: the upgrade asks with
  the page's token, so the connection gets the page's name; only its own tab
  writes on it, and only while it is open; it is open only once the 101 has been
  read, and the 101 is sent once, first, by the connection that was looked up; a
  tab that has called `close()` never opens again. `LinkInv` says this for every
  state of the two ends (`Dialling`, `Talking`, `Closing`).

The assumption `MaxRestarts = 0` is needed: a restart begins to number the tokens at
one again, and a page of the run before may hold one that now stands for somebody
else. With `MaxRestarts = 1`, TLC finds `TokenKeepsItsUser` and `AuthorIsGenuine`
violated in the instance of `web_safety`. No doc of the repository says that
sessions are told apart across a restart, so this is no finding.

- `MissesOnlyGaps` (`WebChatHistory`), under `MaxRestarts = 0`: `OnlyGapsAreMissed`.
  The invariant `HistoryInv` adds to that of the authors that the history is always
  the end of the log (`HistoryIsEnd`), and of every tab that what the history held
  when it was read is on its page or in a reply under way (`Backfilled`), and that
  what the log has gained since its WebSocket was adopted is on its page or under
  way on the socket, behind the 101 (`Followed`).
- `LiveComesInOrder`, through any number of restarts: `LiveInOrder`. `web_twice`
  shows that a message of the history may appear twice on a page; this says that
  nothing else does. The invariant `OrderInv` puts the messages on every socket in
  order (`SocketOrder`), each behind what its page has (`PageOrder`), and every
  message of a history reply at or below what its page counts as read
  (`ReplyOrder`).

The theorems about `Buffer` hold for any sizes: `NewIsEmpty`, `AppendAppends`,
`ConsumeDrops`, `ClearEmpties` say what each operation does to `Contents`, through
the lemmas `CompactedKeeps` and `GrownKeeps`.

The theorems about `WebStream` hold for any requests, frames, scripts, sizes and
word width, under `StreamAssumption`, and rest on those about `Buffer`:
`TypeCorrect`; `StreamAlwaysIntact` (adds that a connection with `upgraded_` has
taken all its client sent, so the successor starts even); `NothingIsLost` (adds
that a callback is at work only in an object that exists); `OutputAlwaysArmed` (adds
that output waits only with `writing_` on, that `writing_` is on only with EPOLLOUT
armed, and that an `HttpConnection`, which never resets it, then has
`closeAfterWrite_`); the
two refinements `ReadBufferIsQueue` and `WriteBufferIsQueue`: each step appends to
the contents, drops a front part, or leaves them, so `Spec` implies `ByteQueue!Spec`
under the mapping `queue <- Contents(readBuf)`, and likewise for `writeBuf`.

`HandledAlwaysAsSent` is the end-to-end statement: up to and with the first frame of
2 GiB or more, what is handled is at any moment
the beginning of what the client said, each request and frame with its own body or
payload. `HandledInv` adds that what was taken out of `readBuf_` ends where the last
message handled ends on the wire, so that the parser and the decoder
stand at the beginning of a message as long as no frame of 2 GiB or more has been
handled (`Steady`, which `HandledAsSent` and `EndsForAReason` name: the decoder's int
loses where such a frame ends); with `StreamIntact`, what they then see is the
next one. Where messages end in a stream of any length is an induction over the
client's messages (`FlattenStages`, `EndsExist`), done on sets of naturals
(`CountingUp`, from the library's least-element theorem for well-founded relations)
since the library's induction theorems cannot be instantiated. It assumes of the
client (`AnnouncementAssumption`) that a body or a payload is as long as announced,
unless it is the client's last and breaks off: what follows a body that is too
short or too long is parsed as what the client did not mean, by any server. TLC
checks the assumption on the scripts of `stream`.

`EndsHaveReasons`, under the same assumption, is its counterpart for the end of a
socket (`EndsForAReason`): closed only if the client left, was answered, or said
CLOSE; refused only over the frame that is next in what the client sent, which has
that flaw, and the process ended only over that frame or over a next request at
which a route handler throws. It needs `HandledInv`, or a refused frame might be
bytes that two frames have mixed up, and what the flags say of the past
(`ReasonInv`): `upgraded_` of an upgrade handled, `closeAfterWrite_` of a request
answered or a CLOSE received. TLC's instance has every flaw in its scripts.

The theorems about `WebConns` hold for any clients, descriptors, frames and
outcomes of the freed reads: `TypeCorrect`, `TablesAgree`, `NoEventStrays` and
`MembersRemain`. The invariant is `Inv`: beside `TypeOK` and `OwnersAgree`, that a
client never has both objects, that an event still in the batch is for the object
registered now, and (`Aside`) that a pending callback never concerns a descriptor
whose event is still to come. That a descriptor told of in this batch is not
closed and accepted again before its event rests on just that: an object is only
ever closed out of its own callbacks. `MembersRemain` adds the reasons for which
an object may be ending (`Reasons`): an upgrade, or a close frame.

`OnlyFreedReadsLeak`, under `FreedReads \subseteq {"own"}`: `ClosedWithItsObject`,
which `conns_leak` refutes. It shows that the read of `fd_` in a destroyed object is
the only way in which a descriptor is left open: as long as the freed memory still
holds it, every callback, hand-over and failing write closes what it should.

Only model-checked: all liveness (out of the prover's reach, like ENABLED). Every
invariant and every refinement that a passing run checks is a theorem.

## 6. Plan

Done, in this order: TcpChat with its runs and proofs; WebChat with its runs and
proofs; Buffer, WebStream and WebConns with theirs; the history of WebChat; the
outputs of TcpChat and its refinement of ChatRoom; what WebStream handles and why
it ends; the order of what a page is told.
Next:

1. `PacketFraming`: encode and decode of `protocol/packet.cpp` over bounded
   inputs, with the length that decode limits and encode does not.
2. The refinement of WebChat's socket states by WebConns and WebStream (`Adopt`,
   `Forget`, `HandleText`), which section 2 argues in words.
3. Proofs: what of WebChat's sessions survives a restart.
4. Runs: a page kept over a restart (`TokenKeepsItsUser`); who closes the browser
   goes offline (IMPLEMENTATION_GUIDE.md:841); a tick starved at the descriptor
   limit.

## 7. Not modelled

The WebSocket handshake's SHA-1 and base64 (fixed arithmetic with known-answer
tests), contents of static files and MIME types, header and query syntax,
rendering and style sheets, JSON (a library), wording and time of messages, the
packet codec's bytes (a packet is a unit of TcpChat), `HttpServer::stop`, which runs
only in the destructor, `WsHub::remove` and `WsConnection::sendPing`, which nothing
calls, the command-line client (the environment of TcpChat stands for it), memory
(closed TCP `Connection` objects are never deleted). `PROJECT.json` lists every
part with its status.
