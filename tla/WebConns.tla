------------------------------ MODULE WebConns ------------------------------
(***************************************************************************)
(* Who owns which descriptor of the web server.  Reactor keeps the         *)
(* callbacks by descriptor, HttpServer owns the HttpConnections, WsHub the *)
(* WsConnections, and every object closes and destroys itself out of its   *)
(* own callbacks, while epoll_wait's events are dealt with one by one.     *)
(* What is said over a connection is WebStream's and WebChat's subject;    *)
(* here a message is one unit.                                             *)
(***************************************************************************)
EXTENDS Integers, Sequences, FiniteSets

CONSTANTS
    Clients,         \* each of them dials once
    Fds,             \* the descriptors left for connections
    Requests,        \* of "page" and "upgrade"
    Frames,          \* of "text", "close" and "bad" (not served)
    MaxFrames,       \* frames that each client sends, at most
    FreedReads,      \* what fd_ is found to be in an object just destroyed:
                     \* its "own" value or "junk" that is no descriptor
    None             \* no client, no object, no descriptor

ASSUME ConnsAssumption ==
    /\ Fds \subseteq Nat /\ MaxFrames \in [Clients -> Nat]
    /\ None \notin Clients /\ None \notin Fds
    /\ Requests \subseteq {"page", "upgrade"}
    /\ Frames \subseteq {"text", "close", "bad"}
    /\ FreedReads \subseteq {"own", "junk"}

(* An HttpConnection and a WsConnection, named for the client they serve.  *)
Object == {"http", "ws"} \X Clients
Http(c) == <<"http", c>>
Ws(c) == <<"ws", c>>

ASSUME NoneAssumption == None \notin Object

VARIABLES
    stage,           \* client: "away", in the "backlog" or "served"
    said,            \* client: the messages it has sent
    received,        \* client: how many of them the server has received
    gone,            \* clients that have closed their end
    told,            \* client: "nothing" yet, an "answer" or the "101"
    open,            \* descriptor: the client of the socket behind it
    contexts,        \* contexts_: the object whose callbacks are registered
    armed,           \* descriptors with EPOLLOUT asked for
    conns,           \* HttpServer::conns_
    hub,             \* WsHub::conns_
    fd,              \* object: fd_, None for one that does not exist
    pending,         \* object: messages in writeBuf_
    ending,          \* objects with closeAfterWrite_
    upgraded,        \* objects with upgraded_
    batch,           \* the events of epoll_wait not yet dealt with
    calls,           \* the callbacks of the current event not yet called
    running          \* the process has not been ended by a dead callback

clientVars == <<stage, said, received, gone, told>>
tables == <<open, contexts, conns, hub, fd>>
fields == <<pending, ending, upgraded>>
loop == <<batch, calls, running>>
vars == <<clientVars, tables, armed, fields, loop>>

Init ==
    /\ stage = [c \in Clients |-> "away"]
    /\ said = [c \in Clients |-> <<>>]
    /\ received = [c \in Clients |-> 0]
    /\ gone = {}
    /\ told = [c \in Clients |-> "nothing"]
    /\ open = [f \in Fds |-> None]
    /\ contexts = [f \in Fds |-> None]
    /\ armed = {}
    /\ conns = [f \in Fds |-> None]
    /\ hub = {}
    /\ fd = [o \in Object |-> None]
    /\ pending = [o \in Object |-> 0]
    /\ ending = {} /\ upgraded = {}
    /\ batch = {} /\ calls = <<>>
    /\ running = TRUE

Exists(o) == fd[o] # None

(* What has arrived from a client and is not received yet.                 *)
Inbox(c) == SubSeq(said[c], received[c] + 1, Len(said[c]))

-----------------------------------------------------------------------------
(* The clients.                                                            *)

Dial(c) ==
    /\ running /\ stage[c] = "away"
    /\ stage' = [stage EXCEPT ![c] = "backlog"]
    /\ UNCHANGED <<said, received, gone, told, tables, armed, fields, loop>>

(* One request, and frames only after the 101.                             *)
ClientSends(c) ==
    /\ running /\ stage[c] # "away" /\ c \notin gone
    /\ \/ said[c] = <<>>
       \/ told[c] = "101" /\ Len(said[c]) <= MaxFrames[c]
    /\ \E m \in IF said[c] = <<>> THEN Requests ELSE Frames :
         said' = [said EXCEPT ![c] = Append(@, m)]
    /\ UNCHANGED <<stage, received, gone, told, tables, armed, fields, loop>>

ClientLeaves(c) ==
    /\ running /\ stage[c] # "away" /\ c \notin gone
    /\ gone' = gone \cup {c}
    /\ UNCHANGED <<stage, said, received, told, tables, armed, fields, loop>>

-----------------------------------------------------------------------------
(* Reactor::loop: epoll_wait's snapshot of everything that is ready, then  *)
(* one event after the other, and of each event one callback after the     *)
(* other.                                                                  *)

Backlog == {c \in Clients : stage[c] = "backlog"}
Free == {f \in Fds : open[f] = None}
Incoming ==
    {f \in Fds : contexts[f] # None /\ (Inbox(open[f]) # <<>> \/ open[f] \in gone)}

(* EPOLLOUT is not told of a descriptor whose client does not read what it *)
(* is sent (full), and EPOLLHUP only of one whose client has gone (hung).  *)
Event(f, full, hung) ==
    [fd |-> f, of |-> contexts[f], in |-> f \in Incoming, out |-> f \in armed \ full,
     hup |-> f \in hung]
Listen == [fd |-> None, of |-> None, in |-> TRUE, out |-> FALSE, hup |-> FALSE]

EpollWait ==
    /\ running /\ batch = {} /\ calls = <<>>
    /\ \E full \in SUBSET (armed \cap Incoming),
          hung \in SUBSET {f \in Incoming : open[f] \in gone} :
         batch' = {Event(f, full, hung) : f \in Incoming \cup armed}
                  \cup (IF Backlog = {} THEN {} ELSE {Listen})
    /\ batch' # {}
    /\ UNCHANGED <<clientVars, tables, armed, fields, calls, running>>

Call(o, what) == [object |-> o, what |-> what]

(* The callbacks that handleEvent copies: at EPOLLHUP, onRead alone.       *)
Callbacks_HupIgnored(o, e) ==  \* mutant: handleEvent returns at EPOLLHUP
    (IF e.in /\ ~ e.hup THEN <<Call(o, "read")>> ELSE <<>>)
    \o (IF e.out /\ ~ e.hup THEN <<Call(o, "write")>> ELSE <<>>)

Callbacks(o, e) ==
    (IF e.in \/ e.hup THEN <<Call(o, "read")>> ELSE <<>>)
    \o (IF e.out /\ ~ e.hup THEN <<Call(o, "write")>> ELSE <<>>)

Unhandled_Kept(e) ==  \* mutant: an event with EPOLLOUT is kept for another round
    IF e.out THEN batch ELSE batch \ {e}
Unhandled(e) == batch \ {e}

(* They are looked up now, by the descriptor.                              *)
HandleEvent ==
    /\ running /\ calls = <<>>
    /\ \E e \in batch :
         /\ batch' = Unhandled(e)
         /\ calls' = IF e.fd = None THEN <<Call(None, "accept")>>
                     ELSE IF contexts[e.fd] = None THEN <<>>
                     ELSE Callbacks(contexts[e.fd], e)
    /\ UNCHANGED <<clientVars, tables, armed, fields, running>>

Calling(o, what) == running /\ calls # <<>> /\ Head(calls) = Call(o, what)
Return == calls' = Tail(calls) /\ UNCHANGED <<batch, running>>

(* The event told EPOLLIN and EPOLLOUT and the read callback has destroyed *)
(* the object: the write callback is called on it all the same.  It may    *)
(* find the state CLOSED and return, or end the process.                   *)
DeadCallback(o) ==
    /\ Calling(o, "write") /\ ~ Exists(o)
    /\ calls' = Tail(calls)
    /\ running' \in BOOLEAN
    /\ UNCHANGED <<clientVars, tables, armed, fields, batch>>

-----------------------------------------------------------------------------
(* HttpServer::onAccept_ and HttpConnection::start: the lowest descriptor  *)
(* that is free, until there is nobody waiting or no descriptor left.      *)

Accept(c) ==
    /\ Calling(None, "accept")
    /\ stage[c] = "backlog"
    /\ \E f \in Free :
         /\ \A g \in Free : f <= g
         /\ open' = [open EXCEPT ![f] = c]
         /\ contexts' = [contexts EXCEPT ![f] = Http(c)]
         /\ conns' = [conns EXCEPT ![f] = Http(c)]
         /\ fd' = [fd EXCEPT ![Http(c)] = f]
    /\ stage' = [stage EXCEPT ![c] = "served"]
    /\ UNCHANGED <<said, received, gone, told, hub, armed, fields, loop>>

AcceptReturns ==
    /\ Calling(None, "accept")
    /\ Backlog = {} \/ Free = {}
    /\ Return
    /\ UNCHANGED <<clientVars, tables, armed, fields>>

-----------------------------------------------------------------------------
(* close of either class with its owner's close callback, in their order:  *)
(* removeFd, then either a WsConnection is made for the same descriptor    *)
(* (adoptConnection) or none, the owner erases and destroys the object,    *)
(* and fd_ of the destroyed object is closed unless it was upgraded.       *)

HandsOver_Never(o) == FALSE  \* mutant: the close callback forgets the upgrade
HandsOver(o) == o \in upgraded

Successor_Removed(o) == None  \* mutant: removeFd after the close callback
Successor(o) == IF HandsOver(o) THEN Ws(o[2]) ELSE None

Left_Stays(c) == hub  \* mutant: the close handler deletes without erasing
Left(c) == hub \ {c}

Close(o, asked) ==
    LET f == fd[o]
    IN  /\ armed' = asked \ {f}
        /\ contexts' = [contexts EXCEPT ![f] = Successor(o)]
        /\ conns' = IF o[1] = "http" THEN [conns EXCEPT ![f] = None] ELSE conns
        /\ IF HandsOver(o)
           THEN /\ fd' = [fd EXCEPT ![o] = None, ![Ws(o[2])] = f]
                /\ hub' = hub \cup {o[2]}
                /\ open' = open
           ELSE /\ fd' = [fd EXCEPT ![o] = None]
                /\ hub' = IF o[1] = "ws" THEN Left(o[2]) ELSE hub
                /\ \E value \in FreedReads :
                     open' = IF value = "own" THEN [open EXCEPT ![f] = None] ELSE open

-----------------------------------------------------------------------------
(* onRead: all that has arrived is received; at the client's end it is     *)
(* dropped and the connection closed.                                      *)

Received(c) == received' = [received EXCEPT ![c] = Len(said[c])]

ReadEnds(o) ==
    LET c == open[fd[o]]
    IN  /\ Calling(o, "read")
        /\ c \in gone
        /\ Received(c)
        /\ Close(o, armed)
        /\ Return
        /\ UNCHANGED <<stage, said, gone, told, fields>>

(* Output is put behind what is waiting, and EPOLLOUT asked for.           *)
Armed_Not(fs) == armed  \* mutant: without modifyFd
Armed(fs) == armed \cup fs

(* dispatch_: the request is answered, an upgrade with the 101.            *)
ReadRequest(c) ==
    LET f == fd[Http(c)]
        new == Inbox(open[f])
    IN  /\ Calling(Http(c), "read")
        /\ open[f] \notin gone
        /\ Received(open[f])
        /\ IF new = <<>> THEN UNCHANGED <<pending, ending, armed, upgraded>>
           ELSE /\ pending' = [pending EXCEPT ![Http(c)] = @ + 1]
                /\ ending' = ending \cup {Http(c)}
                /\ armed' = Armed({f})
                /\ upgraded' = IF Head(new) = "upgrade" THEN upgraded \cup {Http(c)}
                                                       ELSE upgraded
        /\ Return
        /\ UNCHANGED <<stage, said, gone, told, tables>>

(* The frames before one that is not served: WsHub broadcasts the texts    *)
(* among them, a close frame is acknowledged.                              *)
Refused(ms) == \E i \in DOMAIN ms : ms[i] = "bad"
Served(ms, m) ==
    Cardinality({i \in DOMAIN ms : ms[i] = m /\ \A j \in 1..i : ms[j] # "bad"})

ReadFrames(c) ==
    LET f == fd[Ws(c)]
        new == Inbox(open[f])
        texts == Served(new, "text")
        acks == Served(new, "close")
        audience == IF texts = 0 THEN {} ELSE {Ws(d) : d \in hub}
        writers == audience \cup (IF acks = 0 THEN {} ELSE {Ws(c)})
    IN  /\ Calling(Ws(c), "read")
        /\ open[f] \notin gone
        /\ Received(open[f])
        /\ pending' = [o \in Object |->
                         pending[o] + (IF o \in audience THEN texts ELSE 0)
                                    + (IF o = Ws(c) THEN acks ELSE 0)]
        /\ ending' = IF acks = 0 THEN ending ELSE ending \cup {Ws(c)}
        /\ IF Refused(new)
           THEN Close(Ws(c), Armed({fd[o] : o \in writers}))
           ELSE armed' = Armed({fd[o] : o \in writers}) /\ UNCHANGED tables
        /\ Return
        /\ UNCHANGED <<stage, said, gone, told, upgraded>>

-----------------------------------------------------------------------------
(* onWrite: the kernel takes everything, or a part, or reports that the    *)
(* client is gone.                                                         *)

WriteAll(o) ==
    /\ Calling(o, "write") /\ Exists(o)
    /\ pending' = [pending EXCEPT ![o] = 0]
    /\ told' = IF o[1] = "ws" THEN told
               ELSE [told EXCEPT ![open[fd[o]]] = IF o \in upgraded THEN "101" ELSE "answer"]
    /\ IF o \in ending THEN Close(o, armed)
       ELSE armed' = armed \ {fd[o]} /\ UNCHANGED tables
    /\ Return
    /\ UNCHANGED <<stage, said, received, gone, ending, upgraded>>

WritePart(o) ==
    /\ Calling(o, "write") /\ Exists(o)
    /\ \E n \in 1..pending[o] : pending' = [pending EXCEPT ![o] = n]
    /\ Return
    /\ UNCHANGED <<clientVars, tables, armed, ending, upgraded>>

WriteFails(o) ==
    /\ Calling(o, "write") /\ Exists(o)
    /\ pending[o] > 0 /\ open[fd[o]] \in gone
    /\ Close(o, armed)
    /\ Return
    /\ UNCHANGED <<clientVars, fields>>

-----------------------------------------------------------------------------
Client(c) == Dial(c) \/ ClientSends(c) \/ ClientLeaves(c)
Read == \E c \in Clients : ReadEnds(Http(c)) \/ ReadEnds(Ws(c)) \/ ReadRequest(c) \/ ReadFrames(c)
Write == \E o \in Object : WriteAll(o) \/ WritePart(o) \/ WriteFails(o)
Reactor ==
    \/ EpollWait \/ HandleEvent \/ AcceptReturns
    \/ \E c \in Clients : Accept(c)
    \/ \E o \in Object : DeadCallback(o)
    \/ Read \/ Write

Next == Reactor \/ \E c \in Clients : Client(c)

Spec == Init /\ [][Next]_vars

(* The loop goes on, and a client that stays reads what it is sent.        *)
Fairness == WF_vars(Reactor) /\ \A c \in Clients : SF_vars(WriteAll(Http(c)))

FairSpec == Spec /\ Fairness

-----------------------------------------------------------------------------
TypeOK ==
    /\ stage \in [Clients -> {"away", "backlog", "served"}]
    /\ said \in [Clients -> Seq({"page", "upgrade", "text", "close", "bad"})]
    /\ received \in [Clients -> Nat]
    /\ gone \subseteq Clients
    /\ told \in [Clients -> {"nothing", "answer", "101"}]
    /\ open \in [Fds -> Clients \cup {None}]
    /\ contexts \in [Fds -> Object \cup {None}]
    /\ armed \subseteq {f \in Fds : contexts[f] # None}
    /\ conns \in [Fds -> Object \cup {None}]
    /\ hub \subseteq Clients
    /\ fd \in [Object -> Fds \cup {None}]
    /\ pending \in [Object -> Nat]
    /\ ending \subseteq Object /\ upgraded \subseteq {Http(c) : c \in Clients}
    /\ batch \subseteq [fd : Fds \cup {None}, of : Object \cup {None},
                        in : BOOLEAN, out : BOOLEAN, hup : BOOLEAN]
    /\ calls \in Seq([object : Object \cup {None}, what : {"accept", "read", "write"}])
    /\ running \in BOOLEAN

(* The three tables that are kept by hand agree at every moment, through   *)
(* every close and hand-over: a registered callback belongs to an object   *)
(* that exists, that serves the client of the socket behind the descriptor *)
(* and that exactly the table of its class owns; and no object exists that *)
(* epoll does not know.                                                    *)
OwnersAgree ==
    /\ \A f \in Fds : contexts[f] # None =>
         /\ fd[contexts[f]] = f
         /\ open[f] = contexts[f][2]
    /\ \A f \in Fds :
         conns[f] = IF contexts[f] \in {Http(c) : c \in Clients} THEN contexts[f] ELSE None
    /\ \A o \in Object : Exists(o) => contexts[fd[o]] = o
    /\ hub = {c \in Clients : Exists(Ws(c))}

(* An event that epoll_wait told of is dealt with by the object it was     *)
(* told of, however many connections the callbacks before it have closed,  *)
(* handed over or accepted under the same numbers.                         *)
EventsReachTheirOwner ==
    \A e \in batch : e.fd # None => contexts[e.fd] = e.of

(* A member that was told 101, stays, and has sent neither a close frame   *)
(* nor one that is not served, is in the hub: the HttpConnection that is   *)
(* destroyed under it does not take the socket along.                      *)
MembersStay ==
    \A c \in Clients :
        /\ told[c] = "101" /\ c \notin gone
        /\ \A i \in DOMAIN said[c] : said[c][i] \notin {"close", "bad"}
        => c \in hub

(* A client that stays gets the answer to its request, whatever the others *)
(* do in the meantime, unless the server's process ends.                   *)
Answered ==
    \A c \in Clients :
        stage[c] = "served" /\ said[c] # <<>> ~> told[c] # "nothing" \/ c \in gone \/ ~ running

(* The objects of a client that has gone are destroyed, whether the end of *)
(* its stream, an error or EPOLLHUP tells of it, before, during or after   *)
(* the hand-over, unless the server's process ends.                        *)
Serving(c) == Exists(Http(c)) \/ Exists(Ws(c))
GoneAreForgotten ==
    \A c \in Clients : c \in gone /\ Serving(c) ~> ~ Serving(c) \/ ~ running

(* What tests/unit/test_http_connection.cpp takes for granted: with its    *)
(* connection object a descriptor is closed, too.                          *)
ClosedWithItsObject ==
    \A f \in Fds : open[f] # None => contexts[f] # None
=============================================================================
