--------------------------- MODULE WebConnsProofs ---------------------------
(***************************************************************************)
(* Proofs about WebConns: the tables of the web server agree, whatever     *)
(* callbacks run, an event is dealt with by the object it was told of, and *)
(* only a read of freed memory leaves a descriptor open.                   *)
(***************************************************************************)
EXTENDS WebConns, SequenceTheorems, FiniteSetTheorems, TLAPS

(* A client has one object at a time, and none before it is accepted.      *)
OneObject ==
    \A c \in Clients :
        /\ stage[c] # "served" => ~ Exists(Http(c)) /\ ~ Exists(Ws(c))
        /\ ~ (Exists(Http(c)) /\ Exists(Ws(c)))

(* Of one epoll_wait a descriptor has at most one event, the callbacks of  *)
(* the event at hand do not concern a descriptor whose event is still to   *)
(* come, and a read callback comes first, before anything is destroyed.    *)
Aside ==
    /\ \A e \in batch : e.fd # None => e.of # None
    /\ \A d, e \in batch : d.fd # None /\ d.fd = e.fd => d = e
    /\ \A e \in batch, i \in 1..Len(calls) :
         calls[i].object # None /\ Exists(calls[i].object) => fd[calls[i].object] # e.fd
    /\ \A i \in 1..Len(calls) :
         calls[i].what = "read" => i = 1 /\ calls[i].object # None /\ Exists(calls[i].object)

Owned == OwnersAgree /\ OneObject /\ EventsReachTheirOwner /\ Aside
Inv == TypeOK /\ Owned

Calls == [object : Object \cup {None}, what : {"accept", "read", "write"}]

-----------------------------------------------------------------------------
(* Objects, and the rest of the callbacks.                                 *)

(* A client has two possible objects, and all these are different.         *)
LEMMA Objects ==
  /\ \A o \in Object : o[2] \in Clients /\ (o = Http(o[2]) \/ o = Ws(o[2]))
  /\ \A o \in Object : o[1] = "http" <=> o = Http(o[2])
  /\ \A o \in Object : o[1] = "ws" <=> o = Ws(o[2])
  /\ \A c \in Clients : Http(c) \in Object /\ Ws(c) \in Object
  /\ \A c \in Clients : Http(c)[2] = c /\ Ws(c)[2] = c
  /\ \A c, d \in Clients : Http(c) # Ws(d)
  /\ None \notin Object
<1>1. \A o \in Object : o = <<o[1], o[2]>> /\ o[1] \in {"http", "ws"} /\ o[2] \in Clients
  BY DEF Object
<1> QED  BY <1>1, NoneAssumption DEF Object, Http, Ws

(* Two callbacks one after the other.                                      *)
LEMMA Pair ==
  ASSUME NEW a, NEW b
  PROVE  <<a>> \o <<b>> = <<a, b>>
<1> DEFINE s == <<a>> \o <<b>>
           t == <<a, b>>
           S == {a, b}
<1>1. /\ <<a>> \in Seq(S) /\ Len(<<a>>) = 1 /\ <<a>>[1] = a
      /\ <<b>> \in Seq(S) /\ Len(<<b>>) = 1 /\ <<b>>[1] = b
  OBVIOUS
<1>2. /\ s \in Seq(S) /\ Len(s) = 1 + 1
      /\ \A i \in 1..(1 + 1) : s[i] = IF i <= 1 THEN <<a>>[i] ELSE <<b>>[i - 1]
  BY <1>1, ConcatProperties
<1>3. s[1] = a /\ s[2] = b
  BY <1>1, <1>2
<1>4. t \in Seq(S) /\ Len(t) = 2 /\ t[1] = a /\ t[2] = b
  OBVIOUS
<1> HIDE DEF s, t, S
<1>5. Len(s) = Len(t) /\ \A i \in 1..Len(s) : s[i] = t[i]
  BY <1>2, <1>3, <1>4
<1>6. s = t  BY <1>2, <1>4, <1>5, SeqEqual
<1> QED  BY <1>6 DEF s, t

(* The callbacks left once the first has been called.                      *)
LEMMA Rest ==
  ASSUME calls \in Seq(Calls), calls # <<>>, calls' = Tail(calls)
  PROVE  /\ calls' \in Seq(Calls)
         /\ 1 \in 1..Len(calls) /\ Head(calls) = calls[1] /\ calls[1] \in Calls
         /\ \A i \in 1..Len(calls') : i + 1 \in 1..Len(calls) /\ calls'[i] = calls[i + 1]
<1>1. Len(calls) \in Nat /\ Len(calls) # 0
  BY EmptySeq, LenProperties
<1>2. /\ Tail(calls) \in Seq(Calls) /\ Len(Tail(calls)) = Len(calls) - 1
      /\ \A i \in 1..Len(Tail(calls)) : Tail(calls)[i] = calls[i + 1]
      /\ Head(calls) = calls[1]
  BY HeadTailProperties
<1>3. calls[1] \in Calls
  BY <1>1, ElementOfSeq
<1> QED  BY <1>1, <1>2, <1>3

(* The callback that is being called.                                      *)
LEMMA Called ==
  ASSUME TypeOK, NEW o, NEW what, Calling(o, what), Return
  PROVE  /\ calls' \in Seq(Calls) /\ batch' = batch /\ running' = running
         /\ 1 \in 1..Len(calls) /\ calls[1].object = o /\ calls[1].what = what
         /\ \A i \in 1..Len(calls') : i + 1 \in 1..Len(calls) /\ calls'[i] = calls[i + 1]
         /\ \A i \in 1..Len(calls') : i \in Nat
<1>1. Head(calls).object = o /\ Head(calls).what = what /\ calls # <<>>
  BY DEF Calling, Call
<1>2. calls \in Seq(Calls) /\ calls' = Tail(calls)
  BY DEF TypeOK, Calls, Return
<1> QED  BY <1>1, <1>2, Rest DEF Return

(* Callbacks that leave the tables as they are.                            *)
LEMMA TablesKept ==
  ASSUME Inv, NEW o, NEW what, Calling(o, what), Return,
         UNCHANGED tables, UNCHANGED stage
  PROVE  Owned'
<1>1. OwnersAgree' /\ OneObject'
  BY DEF Inv, Owned, OwnersAgree, OneObject, Exists, tables
<1>2. EventsReachTheirOwner'
  BY DEF Inv, Owned, EventsReachTheirOwner, tables, Return
<1>3. Aside'
  BY Called DEF Inv, Owned, Aside, Exists, tables
<1> QED  BY <1>1, <1>2, <1>3 DEF Owned

-----------------------------------------------------------------------------
(* close.                                                                  *)

Registered(fs) == fs \subseteq {f \in Fds : contexts[f] # None}

(* What it does to the tables, seen from the descriptor.                   *)
Closing(o, asked, f) ==
    /\ f = fd[o] /\ contexts[f] = o /\ open[f] = o[2]
    /\ contexts' = [contexts EXCEPT ![f] = contexts'[f]]
    /\ conns' = [conns EXCEPT ![f] = None]
    /\ armed' = asked \ {f}
    /\ \/ /\ o = Http(o[2]) /\ o \in upgraded
          /\ contexts'[f] = Ws(o[2])
          /\ fd' = [fd EXCEPT ![o] = None, ![Ws(o[2])] = f]
          /\ hub' = hub \cup {o[2]} /\ open' = open
       \/ /\ o \notin upgraded
          /\ contexts'[f] = None
          /\ fd' = [fd EXCEPT ![o] = None]
          /\ hub' = IF o = Ws(o[2]) THEN hub \ {o[2]} ELSE hub
          /\ open' \in {open, [open EXCEPT ![f] = None]}

(* close destroys the object: its descriptor goes to the successor, or is   *)
(* freed unless the freed read spoils it.                                  *)
LEMMA Closes ==
  ASSUME Inv, NEW o \in Object, Exists(o), NEW asked, Close(o, asked)
  PROVE  fd[o] \in Fds /\ Closing(o, asked, fd[o])
<1> DEFINE f == fd[o]
<1>1. f \in Fds /\ contexts[f] = o /\ open[f] = o[2]
  <2>1. f \in Fds  BY DEF Inv, TypeOK, Exists
  <2>2. contexts[f] = o  BY DEF Inv, Owned, OwnersAgree
  <2>3. o # None  BY Objects
  <2> QED  BY <2>1, <2>2, <2>3 DEF Inv, Owned, OwnersAgree
<1>2. /\ contexts \in [Fds -> Object \cup {None}] /\ conns \in [Fds -> Object \cup {None}]
      /\ upgraded \subseteq {Http(c) : c \in Clients}
  BY DEF Inv, TypeOK
<1>3. contexts' = [contexts EXCEPT ![f] = Successor(o)] /\ contexts'[f] = Successor(o)
  BY <1>1, <1>2 DEF Close
<1>4. conns' = [conns EXCEPT ![f] = None]
  <2>1. CASE o[1] = "http"  BY <2>1 DEF Close
  <2>2. CASE o[1] # "http"
    <3>1. o = Ws(o[2])  BY <2>2, Objects
    <3>2. o \notin {Http(c) : c \in Clients}  BY <3>1, Objects
    <3>3. conns[f] = None  BY <1>1, <3>2 DEF Inv, Owned, OwnersAgree
    <3>4. conns' = conns  BY <2>2 DEF Close
    <3> QED  BY <3>3, <3>4, <1>2, <1>1
  <2> QED  BY <2>1, <2>2
<1>5. CASE o \in upgraded
  <2>1. o = Http(o[2])  BY <1>2, <1>5, Objects
  <2>2. /\ fd' = [fd EXCEPT ![o] = None, ![Ws(o[2])] = f]
        /\ hub' = hub \cup {o[2]} /\ open' = open /\ armed' = asked \ {f}
    BY <1>5 DEF Close, HandsOver
  <2>3. Successor(o) = Ws(o[2])  BY <1>5 DEF Successor, HandsOver
  <2> QED  BY <1>1, <1>3, <1>4, <1>5, <2>1, <2>2, <2>3 DEF Closing
<1>6. CASE o \notin upgraded
  <2>1. Successor(o) = None  BY <1>6 DEF Successor, HandsOver
  <2>2. /\ fd' = [fd EXCEPT ![o] = None] /\ armed' = asked \ {f}
        /\ hub' = IF o[1] = "ws" THEN hub \ {o[2]} ELSE hub
        /\ open' \in {open, [open EXCEPT ![f] = None]}
    BY <1>6 DEF Close, HandsOver, Left
  <2>3. o[1] = "ws" <=> o = Ws(o[2])  BY Objects
  <2> QED  BY <1>1, <1>3, <1>4, <1>6, <2>1, <2>2, <2>3 DEF Closing
<1> QED  BY <1>5, <1>6

(* close keeps the tables' types.                                          *)
LEMMA CloseTypes ==
  ASSUME Inv, NEW o \in Object, Exists(o), NEW asked, Registered(asked), Close(o, asked)
  PROVE  /\ open' \in [Fds -> Clients \cup {None}]
         /\ contexts' \in [Fds -> Object \cup {None}]
         /\ armed' \subseteq {f \in Fds : contexts'[f] # None}
         /\ conns' \in [Fds -> Object \cup {None}]
         /\ hub' \subseteq Clients
         /\ fd' \in [Object -> Fds \cup {None}]
<1>1. /\ open \in [Fds -> Clients \cup {None}] /\ contexts \in [Fds -> Object \cup {None}]
      /\ conns \in [Fds -> Object \cup {None}] /\ hub \subseteq Clients
      /\ fd \in [Object -> Fds \cup {None}]
  BY DEF Inv, TypeOK
<1>2. o[2] \in Clients /\ Ws(o[2]) \in Object  BY Objects
<1> QED  BY <1>1, <1>2, Closes DEF Registered, Closing

(* close keeps the tables in agreement, and events with their owners.      *)
LEMMA CloseOwned ==
  ASSUME Inv, NEW o \in Object, Exists(o), NEW what, Calling(o, what), Return,
         NEW asked, Registered(asked), Close(o, asked), UNCHANGED stage
  PROVE  Owned'
<1> USE DEF Exists, Closing
<1> DEFINE c == o[2]
<1>1. PICK f \in Fds : Closing(o, asked, f)
  BY Closes
<1>2. /\ open \in [Fds -> Clients \cup {None}] /\ contexts \in [Fds -> Object \cup {None}]
      /\ conns \in [Fds -> Object \cup {None}] /\ hub \subseteq Clients
      /\ fd \in [Object -> Fds \cup {None}]
  BY DEF Inv, TypeOK
<1>3. c \in Clients /\ (o = Http(c) \/ o = Ws(c)) /\ Ws(c) \in Object /\ Http(c) \in Object
      /\ Http(c) # Ws(c) /\ Ws(c)[2] = c
      /\ o # None /\ Ws(c) # None
  BY Objects
<1>4. OwnersAgree /\ OneObject /\ EventsReachTheirOwner /\ Aside
  BY DEF Inv, Owned
<1>5. f # None
  BY ConnsAssumption
<1>6. OwnersAgree'
  <2>1. ASSUME NEW g \in Fds, contexts'[g] # None
        PROVE  fd'[contexts'[g]] = g /\ open'[g] = contexts'[g][2]
    <3>1. CASE g = f
      <4>1. contexts'[f] = Ws(c) /\ fd' = [fd EXCEPT ![o] = None, ![Ws(c)] = f] /\ open' = open
        BY <1>1, <2>1, <3>1
      <4> QED  BY <4>1, <1>1, <1>2, <1>3, <3>1
    <3>2. CASE g # f
      <4>1. contexts'[g] = contexts[g] /\ open'[g] = open[g]  BY <1>1, <1>2, <3>2
      <4>2. fd[contexts[g]] = g /\ open[g] = contexts[g][2] /\ contexts[g] \in Object
        BY <4>1, <2>1, <1>4, <1>2 DEF OwnersAgree
      <4>3. contexts[g] # o  BY <4>2, <1>1, <3>2
      <4>4. o = Http(c) => contexts[g] # Ws(c)
        BY <4>2, <1>1, <1>3, <1>4, <1>5, <2>1, <3>2, ConnsAssumption DEF OneObject
      <4>5. fd'[contexts[g]] = fd[contexts[g]]
        BY <1>1, <1>2, <4>2, <4>3, <4>4
      <4> QED  BY <4>1, <4>2, <4>5
    <3> QED  BY <3>1, <3>2
  <2>2. ASSUME NEW g \in Fds
        PROVE  conns'[g] = IF contexts'[g] \in {Http(d) : d \in Clients} THEN contexts'[g] ELSE None
    <3>1. CASE g = f
      <4>1. contexts'[f] \in {Ws(c), None} /\ conns'[f] = None  BY <1>1, <1>2
      <4>2. Ws(c) \notin {Http(d) : d \in Clients} /\ None \notin {Http(d) : d \in Clients}
        BY <1>3, Objects
      <4> QED  BY <4>1, <4>2, <3>1
    <3>2. CASE g # f
      <4>1. conns'[g] = conns[g] /\ contexts'[g] = contexts[g]  BY <1>1, <1>2, <3>2
      <4> QED  BY <4>1, <1>4 DEF OwnersAgree
    <3> QED  BY <3>1, <3>2
  <2>3. ASSUME NEW p \in Object, fd'[p] # None
        PROVE  contexts'[fd'[p]] = p
    <3>1. CASE fd'[p] = fd[p] /\ p # o
      <4>1. contexts[fd[p]] = p /\ fd[p] # None /\ fd[p] \in Fds  BY <2>3, <3>1, <1>4, <1>2 DEF OwnersAgree
      <4>2. fd[p] # f  BY <4>1, <3>1, <1>1
      <4> QED  BY <4>1, <4>2, <3>1, <1>1, <1>2
    <3>2. CASE ~ (fd'[p] = fd[p] /\ p # o)
      <4>1. o = Http(c) /\ o \in upgraded /\ p = Ws(c)
        BY <1>1, <1>2, <1>3, <2>3, <3>2
      <4>2. fd'[p] = f /\ contexts'[f] = Ws(c)
        BY <4>1, <1>1, <1>2, <1>3
      <4> QED  BY <4>1, <4>2
    <3> QED  BY <3>1, <3>2
  <2>4. hub' = {d \in Clients : fd'[Ws(d)] # None}
    <3>1. \A d \in Clients : Ws(d) \in Object /\ (Ws(d) = Ws(c) => d = c) /\ Http(c) # Ws(d)
      BY Objects, <1>3
    <3>2. hub = {d \in Clients : fd[Ws(d)] # None}  BY <1>4 DEF OwnersAgree
    <3>3. CASE o = Http(c) /\ o \in upgraded
      <4>1. hub' = hub \cup {c}  BY <3>3, <1>1
      <4>2. fd' = [fd EXCEPT ![o] = None, ![Ws(c)] = f]  BY <3>3, <1>1
      <4>3. \A d \in Clients : fd'[Ws(d)] = IF d = c THEN f ELSE fd[Ws(d)]
        BY <4>2, <3>1, <3>3, <1>2, <1>3
      <4> QED  BY <4>1, <4>3, <3>2, <1>5, <1>3
    <3>4. CASE o \notin upgraded
      <4>1. fd' = [fd EXCEPT ![o] = None] /\ hub' = IF o = Ws(c) THEN hub \ {c} ELSE hub
        BY <3>4, <1>1
      <4>2. \A d \in Clients : fd'[Ws(d)] = IF o = Ws(d) THEN None ELSE fd[Ws(d)]
        BY <4>1, <3>1, <1>2
      <4>3. \A d \in Clients : o = Ws(d) <=> (o = Ws(c) /\ d = c)
        BY <3>1, <1>3
      <4> QED  BY <4>1, <4>2, <4>3, <3>2
    <3> QED  BY <3>3, <3>4, <1>1
  <2> QED  BY <2>1, <2>2, <2>3, <2>4 DEF OwnersAgree
<1>7. OneObject'
  <2> SUFFICES ASSUME NEW d \in Clients
               PROVE  /\ stage[d] # "served" => fd'[Http(d)] = None /\ fd'[Ws(d)] = None
                      /\ ~ (fd'[Http(d)] # None /\ fd'[Ws(d)] # None)
    BY DEF OneObject
  <2>1. /\ stage[d] # "served" => fd[Http(d)] = None /\ fd[Ws(d)] = None
        /\ ~ (fd[Http(d)] # None /\ fd[Ws(d)] # None)
    BY <1>4 DEF OneObject
  <2>2. Http(d) \in Object /\ Ws(d) \in Object /\ (Ws(d) = Ws(c) <=> d = c)
        /\ Http(d) # Ws(c) /\ Http(c) # Ws(d)
    BY Objects, <1>3
  <2>3. fd[o] # None  OBVIOUS
  <2>4. CASE o = Http(c) /\ o \in upgraded
    <3>1. fd' = [fd EXCEPT ![o] = None, ![Ws(c)] = f]  BY <2>4, <1>1
    <3>2. fd'[Ws(d)] = IF d = c THEN f ELSE fd[Ws(d)]  BY <3>1, <2>2, <2>4, <1>2
    <3>3. fd'[Http(d)] = IF d = c THEN None ELSE fd[Http(d)]
      <4>1. d # c => Http(d) # Http(c)  BY Objects, <1>3
      <4> QED  BY <4>1, <3>1, <2>2, <2>4, <1>2
    <3>4. stage[c] = "served"  BY <2>3, <2>4, <1>3, <1>4 DEF OneObject
    <3> QED  BY <3>2, <3>3, <3>4, <2>1
  <2>5. CASE o \notin upgraded
    <3>1. fd' = [fd EXCEPT ![o] = None]  BY <2>5, <1>1
    <3>2. fd'[Ws(d)] \in {None, fd[Ws(d)]} /\ fd'[Http(d)] \in {None, fd[Http(d)]}
      BY <3>1, <2>2, <1>2
    <3> QED  BY <3>2, <2>1
  <2> QED  BY <2>4, <2>5, <1>1
<1>8. \A e \in batch : e.fd # f
  BY Called, <1>1, <1>3, <1>4 DEF Inv, Aside
<1>9. \A e \in batch : e.fd # None => e.fd \in Fds
  BY DEF Inv, TypeOK
<1>10. EventsReachTheirOwner'
  BY Called, <1>8, <1>9, <1>1, <1>2, <1>4 DEF Inv, EventsReachTheirOwner
<1>11. Aside'
  <2>1. batch' = batch  BY Called DEF Inv
  <2>2. ASSUME NEW i \in 1..Len(calls')
        PROVE  /\ calls'[i].what # "read"
               /\ \A e \in batch : calls'[i].object # None /\ fd'[calls'[i].object] # None
                                   => fd'[calls'[i].object] # e.fd
    <3>1. i + 1 \in 1..Len(calls) /\ calls'[i] = calls[i + 1] /\ i \in Nat /\ i + 1 # 1
          /\ calls' \in Seq(Calls)
      BY Called, <2>2 DEF Inv
    <3>2. calls'[i].what # "read"  BY <3>1, <1>4 DEF Aside
    <3>3. calls'[i].object \in Object \cup {None}
      <4>1. calls'[i] \in Calls  BY <2>2, <3>1, ElementOfSeq
      <4> QED  BY <4>1 DEF Calls
    <3>4. ASSUME NEW e \in batch, calls'[i].object # None, fd'[calls'[i].object] # None
          PROVE  fd'[calls'[i].object] # e.fd
      <4>1. fd'[calls'[i].object] \in {None, f, fd[calls'[i].object]}
        BY <3>3, <3>4, <1>1, <1>2, <1>3
      <4>2. CASE fd'[calls'[i].object] = f  BY <4>2, <1>8, <3>4
      <4>3. CASE fd'[calls'[i].object] = fd[calls'[i].object]
        BY <4>3, <3>1, <3>4, <1>4 DEF Aside
      <4> QED  BY <4>1, <4>2, <4>3, <3>4
    <3> QED  BY <3>2, <3>4
  <2>3. \A e \in batch : e.fd # None => e.of # None  BY <1>4 DEF Aside
  <2>4. \A d, e \in batch : d.fd # None /\ d.fd = e.fd => d = e  BY <1>4 DEF Aside
  <2> QED  BY <2>1, <2>2, <2>3, <2>4 DEF Aside
<1> QED  BY <1>6, <1>7, <1>10, <1>11 DEF Owned

-----------------------------------------------------------------------------
(* The actions.                                                            *)

(* The initial state: nobody has dialed.                                   *)
LEMMA InitInv == Init => Inv
<1> SUFFICES ASSUME Init PROVE Inv  OBVIOUS
<1>1. TypeOK
  <2>1. \A S : <<>> \in Seq(S)  BY EmptySeq
  <2> QED  BY <2>1 DEF Init, TypeOK
<1>2. OwnersAgree /\ OneObject
  <2>1. \A c \in Clients : Http(c) \in Object /\ Ws(c) \in Object  BY Objects
  <2>2. None \notin {Http(c) : c \in Clients}  BY Objects
  <2> QED  BY <2>1, <2>2 DEF Init, OwnersAgree, OneObject, Exists
<1>3. EventsReachTheirOwner  BY DEF Init, EventsReachTheirOwner
<1>4. Aside
  <2>1. calls = <<>> /\ Len(calls) = 0 /\ batch = {}  BY EmptySeq DEF Init
  <2> QED  BY <2>1 DEF Aside
<1> QED  BY <1>1, <1>2, <1>3, <1>4 DEF Inv, Owned

(* A client's step.                                                        *)
LEMMA ClientInv ==
  ASSUME Inv, NEW c \in Clients, Client(c)
  PROVE  Inv'
<1>1. TypeOK'
  <2>1. CASE Dial(c)
    BY <2>1 DEF Inv, TypeOK, Dial, tables, fields, loop
  <2>2. CASE ClientSends(c)
    <3>1. PICK m \in Requests \cup Frames : said' = [said EXCEPT ![c] = Append(@, m)]
      BY <2>2 DEF ClientSends
    <3>2. m \in {"page", "upgrade", "text", "close", "bad"}  BY ConnsAssumption
    <3>3. said[c] \in Seq({"page", "upgrade", "text", "close", "bad"})  BY DEF Inv, TypeOK
    <3>4. Append(said[c], m) \in Seq({"page", "upgrade", "text", "close", "bad"})
      BY <3>2, <3>3, AppendProperties
    <3> QED  BY <2>2, <3>1, <3>4 DEF Inv, TypeOK, ClientSends, tables, fields, loop
  <2>3. CASE ClientLeaves(c)
    BY <2>3 DEF Inv, TypeOK, ClientLeaves, tables, fields, loop
  <2> QED  BY <2>1, <2>2, <2>3 DEF Client
<1>2. UNCHANGED <<tables, batch, calls>>
  BY DEF Client, Dial, ClientSends, ClientLeaves, loop
<1>3. \A d \in Clients : stage'[d] # "served" => stage[d] # "served"
  BY DEF Client, Dial, ClientSends, ClientLeaves, Inv, TypeOK
<1>4. Owned'
  BY <1>2, <1>3 DEF Inv, Owned, OwnersAgree, OneObject, EventsReachTheirOwner, Aside, Exists, tables
<1> QED  BY <1>1, <1>4 DEF Inv

(* epoll_wait's events are for the objects registered now.                 *)
LEMMA EpollWaitInv ==
  ASSUME Inv, EpollWait
  PROVE  Inv'
<1>1. PICK full \in SUBSET (armed \cap Incoming),
           hung \in SUBSET {f \in Incoming : open[f] \in gone} :
        batch' = {Event(f, full, hung) : f \in Incoming \cup armed}
                 \cup (IF Backlog = {} THEN {} ELSE {Listen})
  BY DEF EpollWait
<1>2. UNCHANGED <<clientVars, tables, armed, fields, calls, running>> /\ calls = <<>>
  BY DEF EpollWait
<1>3. \A f \in Incoming \cup armed :
        /\ f \in Fds /\ f # None /\ contexts[f] # None /\ contexts[f] \in Object
        /\ Event(f, full, hung).fd = f /\ Event(f, full, hung).of = contexts[f]
        /\ Event(f, full, hung) \in [fd : Fds \cup {None}, of : Object \cup {None},
                                     in : BOOLEAN, out : BOOLEAN, hup : BOOLEAN]
  <2>1. \A f \in Incoming \cup armed : f \in Fds /\ contexts[f] # None /\ contexts[f] \in Object
    BY DEF Inv, TypeOK, Incoming
  <2> QED  BY <2>1, ConnsAssumption DEF Event
<1>4. Listen.fd = None /\ Listen \in [fd : Fds \cup {None}, of : Object \cup {None},
                                      in : BOOLEAN, out : BOOLEAN, hup : BOOLEAN]
  BY DEF Listen
<1>5. \A e \in batch' : e = Listen \/ \E f \in Incoming \cup armed : e = Event(f, full, hung)
  BY <1>1
<1>6. TypeOK'
  <2>1. batch' \subseteq [fd : Fds \cup {None}, of : Object \cup {None},
                         in : BOOLEAN, out : BOOLEAN, hup : BOOLEAN]
    BY <1>3, <1>4, <1>5
  <2> QED  BY <2>1, <1>2 DEF Inv, TypeOK, clientVars, tables, fields
<1>7. OwnersAgree' /\ OneObject'
  BY <1>2 DEF Inv, Owned, OwnersAgree, OneObject, Exists, tables, clientVars
<1>8. EventsReachTheirOwner'
  BY <1>2, <1>3, <1>4, <1>5 DEF EventsReachTheirOwner, tables
<1>9. Aside'
  <2>1. Len(calls') = 0 /\ 1..Len(calls') = {}  BY <1>2, EmptySeq
  <2>2. \A e \in batch' : e.fd # None => e.of # None
    BY <1>3, <1>4, <1>5, Objects
  <2>3. \A d, e \in batch' : d.fd # None /\ d.fd = e.fd => d = e
    BY <1>3, <1>4, <1>5
  <2> QED  BY <2>1, <2>2, <2>3 DEF Aside
<1> QED  BY <1>6, <1>7, <1>8, <1>9 DEF Inv, Owned

(* The callbacks copied are those of the object the event is for.          *)
LEMMA HandleEventInv ==
  ASSUME Inv, HandleEvent
  PROVE  Inv'
<1>1. PICK e \in batch :
        /\ batch' = batch \ {e}
        /\ calls' = IF e.fd = None THEN <<Call(None, "accept")>>
                    ELSE IF contexts[e.fd] = None THEN <<>>
                    ELSE Callbacks(contexts[e.fd], e)
  BY DEF HandleEvent, Unhandled
<1>2. UNCHANGED <<clientVars, tables, armed, fields, running>>
  BY DEF HandleEvent
<1> DEFINE o == contexts[e.fd]
<1>3. e.fd # None => e.fd \in Fds /\ o \in Object /\ o # None /\ fd[o] = e.fd
  <2>1. e.fd # None => e.fd \in Fds /\ o = e.of /\ e.of # None
    BY DEF Inv, TypeOK, Owned, EventsReachTheirOwner, Aside
  <2> QED  BY <2>1 DEF Inv, TypeOK, Owned, OwnersAgree
<1>4. \/ e.fd = None /\ calls' = <<Call(None, "accept")>>
      \/ e.fd # None /\ calls' \in {<<>>, <<Call(o, "read")>>, <<Call(o, "write")>>,
                                    <<Call(o, "read"), Call(o, "write")>>}
  <2>1. \A a, b : /\ <<a>> \o <<b>> = <<a, b>> /\ <<a>> \o <<>> = <<a>>
                  /\ <<>> \o <<b>> = <<b>> /\ <<>> \o <<>> = <<>>
    <3> TAKE a, b
    <3>1. <<a>> \in Seq({a, b}) /\ <<b>> \in Seq({a, b}) /\ <<>> \in Seq({a, b})
          /\ <<a, b>> \in Seq({a, b})
      OBVIOUS
    <3>2. <<a>> \o <<>> = <<a>> /\ <<>> \o <<b>> = <<b>> /\ <<>> \o <<>> = <<>>
      BY <3>1, ConcatEmptySeq
    <3>3. <<a>> \o <<b>> = <<a, b>>  BY Pair
    <3> QED  BY <3>2, <3>3
  <2>2. CASE e.fd = None  BY <1>1, <2>2
  <2>3. CASE e.fd # None
    <3>1. calls' = Callbacks(o, e)  BY <1>1, <1>3, <2>3
    <3> QED  BY <2>1, <2>3, <3>1 DEF Callbacks
  <2> QED  BY <2>2, <2>3
<1> DEFINE Fresh ==
             /\ calls' \in Seq(Calls)
             /\ \A i \in 1..Len(calls') :
                  /\ calls'[i].object = IF e.fd = None THEN None ELSE o
                  /\ calls'[i].what = "read" => i = 1 /\ e.fd # None
<1>5. Fresh
  <2>1. CASE e.fd = None
    <3>1. Call(None, "accept") \in Calls  BY DEF Call, Calls
    <3>2. calls' = <<Call(None, "accept")>>  BY <1>4, <2>1
    <3>3. calls' \in Seq(Calls) /\ Len(calls') = 1 /\ calls'[1] = Call(None, "accept")
      BY <3>1, <3>2
    <3> QED  BY <2>1, <3>3 DEF Call
  <2>2. CASE e.fd # None
    <3>1. Call(o, "read") \in Calls /\ Call(o, "write") \in Calls  BY <1>3, <2>2 DEF Call, Calls
    <3>2. CASE calls' = <<>>
      <4>1. calls' \in Seq(Calls) /\ Len(calls') = 0  BY <3>2, EmptySeq
      <4> QED  BY <4>1
    <3>3. ASSUME NEW what \in {"read", "write"}, calls' = <<Call(o, what)>>
          PROVE  Fresh
      <4>1. calls' \in Seq(Calls) /\ Len(calls') = 1 /\ calls'[1] = Call(o, what)
        BY <3>1, <3>3
      <4> QED  BY <2>2, <4>1 DEF Call
    <3>4. CASE calls' = <<Call(o, "read"), Call(o, "write")>>
      <4>1. /\ calls' \in Seq(Calls) /\ Len(calls') = 2
            /\ calls'[1] = Call(o, "read") /\ calls'[2] = Call(o, "write")
        BY <3>1, <3>4
      <4> QED  BY <2>2, <4>1 DEF Call
    <3> QED  BY <1>4, <2>2, <3>2, <3>3, <3>4
  <2> QED  BY <2>1, <2>2
<1>6. TypeOK'
  BY <1>1, <1>2, <1>5 DEF Inv, TypeOK, Calls, clientVars, tables, fields
<1>7. OwnersAgree' /\ OneObject'
  BY <1>2 DEF Inv, Owned, OwnersAgree, OneObject, Exists, tables, clientVars
<1>8. EventsReachTheirOwner'
  BY <1>1, <1>2 DEF Inv, Owned, EventsReachTheirOwner, tables
<1>9. Aside'
  <2>1. fd' = fd  BY <1>2 DEF tables
  <2>2. \A d \in batch' : d.fd # e.fd \/ e.fd = None
    BY <1>1 DEF Inv, Owned, Aside
  <2>3. \A d \in batch', i \in 1..Len(calls') :
          calls'[i].object # None /\ fd'[calls'[i].object] # None
          => fd'[calls'[i].object] # d.fd
    BY <1>3, <1>5, <2>1, <2>2
  <2>4. \A i \in 1..Len(calls') :
          calls'[i].what = "read" => i = 1 /\ calls'[i].object # None /\ fd'[calls'[i].object] # None
    BY <1>3, <1>5, <2>1
  <2> QED  BY <1>1, <2>3, <2>4 DEF Inv, Owned, Aside, Exists
<1> QED  BY <1>6, <1>7, <1>8, <1>9 DEF Inv, Owned

(* A new connection takes a descriptor that no event of the batch is for.  *)
LEMMA AcceptInv ==
  ASSUME Inv, NEW c \in Clients, Accept(c)
  PROVE  Inv'
<1> USE DEF Exists
<1>1. PICK f \in Free :
        /\ open' = [open EXCEPT ![f] = c]
        /\ contexts' = [contexts EXCEPT ![f] = Http(c)]
        /\ conns' = [conns EXCEPT ![f] = Http(c)]
        /\ fd' = [fd EXCEPT ![Http(c)] = f]
  BY DEF Accept
<1>2. /\ stage[c] = "backlog" /\ stage' = [stage EXCEPT ![c] = "served"]
      /\ UNCHANGED <<said, received, gone, told, hub, armed, fields, loop>>
  BY DEF Accept
<1>3. /\ stage \in [Clients -> {"away", "backlog", "served"}]
      /\ open \in [Fds -> Clients \cup {None}] /\ contexts \in [Fds -> Object \cup {None}]
      /\ conns \in [Fds -> Object \cup {None}] /\ fd \in [Object -> Fds \cup {None}]
  BY DEF Inv, TypeOK
<1>4. OwnersAgree /\ OneObject /\ EventsReachTheirOwner /\ Aside
  BY DEF Inv, Owned
<1>5. /\ Http(c) \in Object /\ Http(c)[2] = c /\ Http(c) # None
      /\ \A d \in Clients : Ws(d) \in Object /\ Http(d) \in Object /\ Http(c) # Ws(d)
      /\ \A d \in Clients : Http(d) = Http(c) => d = c
      /\ \A o \in Object : o[2] \in Clients
  BY Objects
<1>6. f \in Fds /\ f # None /\ open[f] = None
  BY ConnsAssumption DEF Free
<1>7. contexts[f] = None
  <2>1. contexts[f] # None => open[f] = contexts[f][2] /\ contexts[f] \in Object
    BY <1>3, <1>4, <1>6 DEF OwnersAgree
  <2> QED  BY <2>1, <1>5, <1>6, ConnsAssumption
<1>8. fd[Http(c)] = None /\ fd[Ws(c)] = None
  BY <1>2, <1>4 DEF OneObject
<1>9. TypeOK'
  <2>1. /\ stage' \in [Clients -> {"away", "backlog", "served"}]
        /\ open' \in [Fds -> Clients \cup {None}] /\ contexts' \in [Fds -> Object \cup {None}]
        /\ conns' \in [Fds -> Object \cup {None}] /\ fd' \in [Object -> Fds \cup {None}]
    BY <1>1, <1>2, <1>3, <1>5, <1>6
  <2>2. armed' \subseteq {g \in Fds : contexts'[g] # None}
    BY <1>1, <1>2, <1>3, <1>5, <1>6 DEF Inv, TypeOK
  <2> QED  BY <2>1, <2>2, <1>2 DEF Inv, TypeOK, fields, loop
<1>10. OwnersAgree'
  <2>1. ASSUME NEW g \in Fds, contexts'[g] # None
        PROVE  fd'[contexts'[g]] = g /\ open'[g] = contexts'[g][2]
    <3>1. CASE g = f  BY <3>1, <1>1, <1>3, <1>5, <1>6
    <3>2. CASE g # f
      <4>1. contexts'[g] = contexts[g] /\ open'[g] = open[g]  BY <3>2, <1>1, <1>3
      <4>2. fd[contexts[g]] = g /\ open[g] = contexts[g][2] /\ contexts[g] \in Object
        BY <4>1, <2>1, <1>3, <1>4 DEF OwnersAgree
      <4>3. contexts[g] # Http(c)  BY <4>2, <1>8, ConnsAssumption
      <4> QED  BY <4>1, <4>2, <4>3, <1>1, <1>3
    <3> QED  BY <3>1, <3>2
  <2>2. \A g \in Fds : conns'[g] = IF contexts'[g] \in {Http(d) : d \in Clients}
                                   THEN contexts'[g] ELSE None
    BY <1>1, <1>3, <1>4, <1>6 DEF OwnersAgree
  <2>3. \A o \in Object : fd'[o] # None => contexts'[fd'[o]] = o
    <3>1. \A o \in Object : fd'[o] = IF o = Http(c) THEN f ELSE fd[o]
      BY <1>1, <1>3, <1>5
    <3>2. \A g \in Fds : contexts'[g] = IF g = f THEN Http(c) ELSE contexts[g]
      BY <1>1, <1>3, <1>6
    <3> QED  BY <3>1, <3>2, <1>3, <1>4, <1>6, <1>7, <1>5, NoneAssumption DEF OwnersAgree
  <2>4. hub' = {d \in Clients : fd'[Ws(d)] # None}
    BY <1>1, <1>2, <1>3, <1>4, <1>5 DEF OwnersAgree
  <2> QED  BY <2>1, <2>2, <2>3, <2>4 DEF OwnersAgree
<1>11. OneObject'
  <2>1. \A d \in Clients : fd'[Ws(d)] = fd[Ws(d)]
                           /\ fd'[Http(d)] = IF d = c THEN f ELSE fd[Http(d)]
    BY <1>1, <1>3, <1>5
  <2> QED  BY <2>1, <1>2, <1>3, <1>4, <1>8 DEF OneObject
<1>12. \A e \in batch : e.fd # f
  <2>1. \A e \in batch : e.fd # None => contexts[e.fd] # None
    BY <1>4 DEF EventsReachTheirOwner, Aside
  <2> QED  BY <2>1, <1>6, <1>7
<1>13. EventsReachTheirOwner'
  BY <1>1, <1>2, <1>3, <1>4, <1>12 DEF EventsReachTheirOwner, loop, Inv, TypeOK
<1>14. Aside'
  <2>1. ASSUME NEW i \in 1..Len(calls), calls[i].object # None
        PROVE  fd'[calls[i].object] = IF calls[i].object = Http(c) THEN f ELSE fd[calls[i].object]
    <3>1. calls \in Seq(Calls)  BY DEF Inv, TypeOK, Calls
    <3>2. calls[i] \in Calls  BY <3>1, ElementOfSeq
    <3>3. calls[i].object \in Object  BY <2>1, <3>2 DEF Calls
    <3> QED  BY <3>3, <1>1, <1>3, <1>5
  <2>2. batch' = batch /\ calls' = calls  BY <1>2 DEF loop
  <2> QED  BY <2>1, <2>2, <1>4, <1>6, <1>12 DEF Aside
<1> QED  BY <1>9, <1>10, <1>11, <1>13, <1>14 DEF Inv, Owned

(* A callback that leaves the tables as they are.                          *)
LEMMA AcceptReturnsInv ==
  ASSUME Inv, AcceptReturns
  PROVE  Inv'
<1>1. Owned'
  BY TablesKept DEF AcceptReturns, clientVars
<1>2. TypeOK'
  BY Called DEF Inv, TypeOK, AcceptReturns, clientVars, tables, fields, Calls
<1> QED  BY <1>1, <1>2 DEF Inv

(* A write callback on a destroyed object touches none of the others.      *)
LEMMA DeadCallbackInv ==
  ASSUME Inv, NEW o \in Object, DeadCallback(o)
  PROVE  Inv'
<1>1. calls \in Seq(Calls) /\ calls # <<>> /\ calls' = Tail(calls)
  BY DEF Inv, TypeOK, Calls, DeadCallback, Calling
<1>2. /\ calls' \in Seq(Calls)
      /\ \A i \in 1..Len(calls') : i \in Nat /\ i + 1 \in 1..Len(calls) /\ calls'[i] = calls[i + 1]
  BY <1>1, Rest
<1>3. UNCHANGED <<clientVars, tables, armed, fields, batch>> /\ running' \in BOOLEAN
  BY DEF DeadCallback
<1>4. TypeOK'
  BY <1>2, <1>3 DEF Inv, TypeOK, Calls, clientVars, tables, fields
<1>5. OwnersAgree' /\ OneObject' /\ EventsReachTheirOwner'
  BY <1>3 DEF Inv, Owned, OwnersAgree, OneObject, EventsReachTheirOwner, Exists, tables, clientVars
<1>6. Aside'
  <2>1. fd' = fd /\ batch' = batch  BY <1>3 DEF tables
  <2>2. Aside  BY DEF Inv, Owned
  <2>3. \A i \in 1..Len(calls') : calls'[i].what # "read"
    BY <1>2, <2>2 DEF Aside
  <2> QED  BY <1>2, <2>1, <2>2, <2>3 DEF Aside, Exists
<1> QED  BY <1>4, <1>5, <1>6 DEF Inv, Owned

(* A read callback is called on an object that exists.                     *)
LEMMA ReadsExist ==
  ASSUME Inv, NEW o \in Object, Calling(o, "read")
  PROVE  Exists(o)
<1>1. calls \in Seq(Calls) /\ calls # <<>> /\ Head(calls).object = o /\ Head(calls).what = "read"
  BY DEF Inv, TypeOK, Calls, Calling, Call
<1>2. Len(calls) \in Nat /\ Len(calls) # 0  BY <1>1, EmptySeq, LenProperties
<1>3. Head(calls) = calls[1] /\ 1 \in 1..Len(calls)  BY <1>1, <1>2, HeadTailProperties
<1> QED  BY <1>1, <1>3 DEF Inv, Owned, Aside

(* A callback that ends with a close, whatever it did to the client        *)
(* before.                                                                 *)
LEMMA CloseInv ==
  ASSUME Inv, NEW o \in Object, Exists(o), NEW what, Calling(o, what), Return,
         NEW asked, Registered(asked), Close(o, asked), UNCHANGED <<stage, said, gone>>,
         received' \in [Clients -> Nat], told' \in [Clients -> {"nothing", "answer", "101"}],
         pending' \in [Object -> Nat], ending' \subseteq Object,
         upgraded' \subseteq {Http(c) : c \in Clients}
  PROVE  Inv'
<1>1. Owned'  BY CloseOwned
<1>2. /\ open' \in [Fds -> Clients \cup {None}]
      /\ contexts' \in [Fds -> Object \cup {None}]
      /\ armed' \subseteq {f \in Fds : contexts'[f] # None}
      /\ conns' \in [Fds -> Object \cup {None}]
      /\ hub' \subseteq Clients
      /\ fd' \in [Object -> Fds \cup {None}]
  BY CloseTypes
<1>3. calls' \in Seq(Calls) /\ batch' = batch /\ running' = running
  BY Called DEF Inv
<1>4. TypeOK'  BY <1>2, <1>3 DEF Inv, TypeOK, Calls
<1> QED  BY <1>1, <1>4 DEF Inv

(* What a client has received is counted.                                  *)
LEMMA Receives ==
  ASSUME Inv, NEW c, Received(c)
  PROVE  received' \in [Clients -> Nat]
<1>1. said \in [Clients -> Seq({"page", "upgrade", "text", "close", "bad"})]
      /\ received \in [Clients -> Nat]
  BY DEF Inv, TypeOK
<1>2. c \in Clients => Len(said[c]) \in Nat  BY <1>1, LenProperties
<1> QED  BY <1>1, <1>2 DEF Received

(* EPOLLOUT is armed for registered descriptors only.                      *)
LEMMA ArmedRegistered ==
  ASSUME Inv
  PROVE  Registered(armed)
BY DEF Inv, TypeOK, Registered

(* The peer hung up.                                                       *)
LEMMA ReadEndsInv ==
  ASSUME Inv, NEW o \in Object, ReadEnds(o)
  PROVE  Inv'
<1>1. /\ Calling(o, "read") /\ Received(open[fd[o]]) /\ Close(o, armed) /\ Return
      /\ UNCHANGED <<stage, said, gone, told, fields>>
  BY DEF ReadEnds
<1>2. Exists(o)  BY <1>1, ReadsExist
<1>3. received' \in [Clients -> Nat]  BY <1>1, Receives
<1>4. /\ told' \in [Clients -> {"nothing", "answer", "101"}]
      /\ pending' \in [Object -> Nat] /\ ending' \subseteq Object
      /\ upgraded' \subseteq {Http(c) : c \in Clients}
  BY <1>1 DEF Inv, TypeOK, fields
<1> QED  BY <1>1, <1>2, <1>3, <1>4, ArmedRegistered, CloseInv

(* onWrite, in its three outcomes.                                         *)
LEMMA WriteInv ==
  ASSUME Inv, NEW o \in Object, WriteAll(o) \/ WritePart(o) \/ WriteFails(o)
  PROVE  Inv'
<1>1. /\ told \in [Clients -> {"nothing", "answer", "101"}] /\ received \in [Clients -> Nat]
      /\ pending \in [Object -> Nat] /\ ending \subseteq Object
      /\ upgraded \subseteq {Http(c) : c \in Clients}
  BY DEF Inv, TypeOK
<1>2. Calling(o, "write") /\ Exists(o) /\ Return /\ UNCHANGED <<stage, said, received, gone>>
  BY DEF WriteAll, WritePart, WriteFails, clientVars
<1>3. CASE WriteAll(o)
  <2>1. /\ pending' \in [Object -> Nat] /\ ending' \subseteq Object
        /\ upgraded' \subseteq {Http(c) : c \in Clients}
        /\ received' \in [Clients -> Nat]
    BY <1>1, <1>3 DEF WriteAll
  <2>2. told' \in [Clients -> {"nothing", "answer", "101"}]
    BY <1>1, <1>3 DEF WriteAll
  <2>3. CASE o \in ending
    <3>1. Close(o, armed)  BY <1>3, <2>3 DEF WriteAll
    <3> QED  BY <1>2, <2>1, <2>2, <3>1, ArmedRegistered, CloseInv
  <2>4. CASE o \notin ending
    <3>1. armed' \subseteq armed /\ UNCHANGED tables  BY <1>3, <2>4 DEF WriteAll
    <3>2. Owned'  BY <1>2, <3>1, TablesKept
    <3>3. TypeOK'  BY <1>2, <2>1, <2>2, <3>1, Called DEF Inv, TypeOK, tables, Calls
    <3> QED  BY <3>2, <3>3 DEF Inv
  <2> QED  BY <2>3, <2>4
<1>4. CASE WritePart(o)
  <2>1. pending' \in [Object -> Nat]  BY <1>1, <1>4 DEF WritePart
  <2>2. UNCHANGED <<clientVars, tables, armed, ending, upgraded>>  BY <1>4 DEF WritePart
  <2>3. Owned'  BY <1>2, <2>2, TablesKept
  <2>4. TypeOK'  BY <1>2, <2>1, <2>2, Called DEF Inv, TypeOK, tables, clientVars, Calls
  <2> QED  BY <2>3, <2>4 DEF Inv
<1>5. CASE WriteFails(o)
  <2>1. Close(o, armed) /\ UNCHANGED <<clientVars, fields>>  BY <1>5 DEF WriteFails
  <2> QED  BY <1>1, <1>2, <2>1, ArmedRegistered, CloseInv DEF clientVars, fields
<1> QED  BY <1>3, <1>4, <1>5

(* A request is read and answered.                                         *)
LEMMA ReadRequestInv ==
  ASSUME Inv, NEW c \in Clients, ReadRequest(c)
  PROVE  Inv'
<1> DEFINE o == Http(c)
           f == fd[o]
           new == Inbox(open[f])
<1>1. o \in Object  BY Objects
<1>2. Calling(o, "read") /\ Received(open[f]) /\ Return
      /\ UNCHANGED <<stage, said, gone, told, tables>>
  BY DEF ReadRequest
<1>3. Exists(o)  BY <1>1, <1>2, ReadsExist
<1>4. f \in Fds /\ contexts[f] # None
  BY <1>1, <1>3, Objects DEF Inv, TypeOK, Owned, OwnersAgree, Exists
<1>5. /\ pending \in [Object -> Nat] /\ ending \subseteq Object
      /\ upgraded \subseteq {Http(d) : d \in Clients} /\ Registered(armed)
  BY ArmedRegistered DEF Inv, TypeOK
<1>6. /\ pending' \in [Object -> Nat] /\ ending' \subseteq Object
      /\ upgraded' \subseteq {Http(d) : d \in Clients} /\ Registered(armed')
  <2>1. CASE new = <<>>
    <3>1. UNCHANGED <<pending, ending, armed, upgraded>>  BY <2>1 DEF ReadRequest
    <3> QED  BY <3>1, <1>5
  <2>2. CASE new # <<>>
    <3>1. /\ pending' = [pending EXCEPT ![o] = @ + 1]
          /\ ending' = ending \cup {o} /\ armed' = armed \cup {f}
          /\ upgraded' \in {upgraded, upgraded \cup {o}}
      BY <2>2 DEF ReadRequest, Armed
    <3> QED  BY <3>1, <1>1, <1>4, <1>5 DEF Registered
  <2> QED  BY <2>1, <2>2
<1>7. received' \in [Clients -> Nat]  BY <1>2, Receives
<1>8. TypeOK'
  BY <1>2, <1>6, <1>7, Called DEF Inv, TypeOK, tables, Calls, Registered
<1>9. Owned'  BY <1>2, TablesKept
<1> QED  BY <1>8, <1>9 DEF Inv

(* What a member is served is a number of messages.                        *)
LEMMA Counts ==
  ASSUME NEW ms, DOMAIN ms \subseteq Nat, IsFiniteSet(DOMAIN ms), NEW m
  PROVE  Served(ms, m) \in Nat
<1> DEFINE S == {i \in DOMAIN ms : ms[i] = m /\ \A j \in 1..i : ms[j] # "bad"}
<1>1. IsFiniteSet(S)  BY FS_Subset
<1>2. Cardinality(S) \in Nat  BY <1>1, FS_CardinalityType
<1> QED  BY <1>2 DEF Served

(* What has arrived is part of what the client has said.                   *)
LEMMA InboxSaid ==
  ASSUME Inv, NEW c \in Clients
  PROVE  /\ DOMAIN Inbox(c) \subseteq Nat /\ IsFiniteSet(DOMAIN Inbox(c))
         /\ \A i \in DOMAIN Inbox(c) : \E j \in DOMAIN said[c] : said[c][j] = Inbox(c)[i]
<1> DEFINE S == {"page", "upgrade", "text", "close", "bad"}
           s == said[c]
           m == received[c] + 1
<1>1. s \in Seq(S) /\ received[c] \in Nat
  BY DEF Inv, TypeOK
<1>2. Len(s) \in Nat /\ DOMAIN s = 1..Len(s)  BY <1>1, LenProperties
<1>3. /\ Inbox(c) \in Seq(S)
      /\ Len(Inbox(c)) = IF m <= Len(s) THEN Len(s) - m + 1 ELSE 0
      /\ \A i \in 1..(Len(s) - m + 1) : Inbox(c)[i] = s[m + i - 1]
  <2>1. \A i \in m..Len(s) : s[i] \in S  BY <1>1, <1>2, ElementOfSeq
  <2>2. m \in Int /\ Len(s) \in Int  BY <1>1, <1>2
  <2> QED  BY <2>1, <2>2, SubSeqProperties DEF Inbox
<1>4. DOMAIN Inbox(c) = 1..Len(Inbox(c)) /\ Len(Inbox(c)) \in Nat
  BY <1>3, LenProperties
<1>5. IsFiniteSet(DOMAIN Inbox(c))  BY <1>4, FS_Interval
<1>6. ASSUME NEW i \in DOMAIN Inbox(c)
      PROVE  \E j \in DOMAIN s : s[j] = Inbox(c)[i]
  <2>1. i \in 1..(Len(s) - m + 1) /\ m + i - 1 \in 1..Len(s)
    BY <1>1, <1>2, <1>3, <1>4
  <2>2. Inbox(c)[i] = s[m + i - 1]  BY <2>1, <1>3
  <2> QED  BY <2>1, <2>2, <1>2
<1> QED  BY <1>4, <1>5, <1>6

(* Frames are read: texts are broadcast, and a close frame or a bad one    *)
(* ends.                                                                   *)
LEMMA ReadFramesInv ==
  ASSUME Inv, NEW c \in Clients, ReadFrames(c)
  PROVE  Inv'
<1> DEFINE o == Ws(c)
           f == fd[o]
           new == Inbox(open[f])
           texts == Served(new, "text")
           acks == Served(new, "close")
           audience == IF texts = 0 THEN {} ELSE {Ws(d) : d \in hub}
           writers == audience \cup (IF acks = 0 THEN {} ELSE {o})
           asked == Armed({fd[p] : p \in writers})
<1>1. o \in Object /\ o[2] = c /\ o # None  BY Objects
<1>2. /\ Calling(o, "read") /\ Received(open[f]) /\ Return
      /\ UNCHANGED <<stage, said, gone, told, upgraded>>
      /\ pending' = [p \in Object |-> pending[p] + (IF p \in audience THEN texts ELSE 0)
                                                + (IF p = o THEN acks ELSE 0)]
      /\ ending' = IF acks = 0 THEN ending ELSE ending \cup {o}
      /\ IF Refused(new) THEN Close(o, asked) ELSE armed' = asked /\ UNCHANGED tables
  BY DEF ReadFrames
<1>3. Exists(o)  BY <1>1, <1>2, ReadsExist
<1>4. /\ pending \in [Object -> Nat] /\ ending \subseteq Object
      /\ upgraded \subseteq {Http(d) : d \in Clients} /\ Registered(armed)
      /\ fd \in [Object -> Fds \cup {None}]
  BY ArmedRegistered DEF Inv, TypeOK
<1>5. OwnersAgree  BY DEF Inv, Owned
<1>6. \A p \in Object : Exists(p) => fd[p] \in Fds /\ contexts[fd[p]] # None
  BY <1>4, <1>5, NoneAssumption DEF OwnersAgree, Exists
<1>7. \A p \in writers : p \in Object /\ Exists(p)
  <2>1. \A d \in hub : Ws(d) \in Object /\ Exists(Ws(d))  BY <1>5, Objects DEF OwnersAgree
  <2> QED  BY <2>1, <1>1, <1>3
<1>8. Registered(asked)  BY <1>4, <1>6, <1>7 DEF Registered, Armed
<1>9. open[f] = c  BY <1>1, <1>3, <1>5, <1>6 DEF OwnersAgree
<1>10. texts \in Nat /\ acks \in Nat  BY <1>9, InboxSaid, Counts
<1>11. /\ pending' \in [Object -> Nat] /\ ending' \subseteq Object
       /\ upgraded' \subseteq {Http(d) : d \in Clients}
  <2>1. \A p \in Object : pending[p] + (IF p \in audience THEN texts ELSE 0)
                                     + (IF p = o THEN acks ELSE 0) \in Nat
    BY <1>4, <1>10
  <2> HIDE DEF audience, texts, acks
  <2> QED  BY <2>1, <1>1, <1>2, <1>4
<1>12. received' \in [Clients -> Nat]  BY <1>2, Receives
<1>13. CASE Refused(new)
  <2>1. Close(o, asked)  BY <1>2, <1>13
  <2>2. told' \in [Clients -> {"nothing", "answer", "101"}]  BY <1>2 DEF Inv, TypeOK
  <2> HIDE DEF asked, o
  <2> QED  BY <2>1, <2>2, <1>1, <1>2, <1>3, <1>8, <1>11, <1>12, CloseInv
<1>14. CASE ~ Refused(new)
  <2>1. armed' = asked /\ UNCHANGED tables  BY <1>2, <1>14
  <2>2. Owned'  BY <1>2, <2>1, TablesKept
  <2>3. armed' \subseteq {g \in Fds : contexts'[g] # None}
    BY <2>1, <1>8 DEF Registered, tables
  <2> HIDE DEF asked
  <2>4. TypeOK'  BY <1>2, <1>11, <1>12, <2>1, <2>3, Called DEF Inv, TypeOK, tables, Calls
  <2> QED  BY <2>2, <2>4 DEF Inv
<1> QED  BY <1>13, <1>14

(* Every step.                                                             *)
LEMMA InductiveInv == Inv /\ [Next]_vars => Inv'
<1> SUFFICES ASSUME Inv, [Next]_vars PROVE Inv'  OBVIOUS
<1> \A c \in Clients : Http(c) \in Object /\ Ws(c) \in Object  BY Objects
<1>1. CASE EpollWait  BY <1>1, EpollWaitInv
<1>2. CASE HandleEvent  BY <1>2, HandleEventInv
<1>3. CASE AcceptReturns  BY <1>3, AcceptReturnsInv
<1>4. ASSUME NEW c \in Clients, Accept(c) PROVE Inv'  BY <1>4, AcceptInv
<1>5. ASSUME NEW o \in Object, DeadCallback(o) PROVE Inv'  BY <1>5, DeadCallbackInv
<1>6. ASSUME NEW o \in Object, ReadEnds(o) PROVE Inv'  BY <1>6, ReadEndsInv
<1>7. ASSUME NEW c \in Clients, ReadRequest(c) PROVE Inv'  BY <1>7, ReadRequestInv
<1>8. ASSUME NEW c \in Clients, ReadFrames(c) PROVE Inv'  BY <1>8, ReadFramesInv
<1>9. ASSUME NEW o \in Object, WriteAll(o) \/ WritePart(o) \/ WriteFails(o) PROVE Inv'
  BY <1>9, WriteInv
<1>10. ASSUME NEW c \in Clients, Client(c) PROVE Inv'  BY <1>10, ClientInv
<1>11. CASE UNCHANGED vars
  BY <1>11 DEF vars, clientVars, tables, fields, loop, Inv, TypeOK, Owned, OwnersAgree,
               OneObject, EventsReachTheirOwner, Aside, Exists
<1> QED
  BY <1>1, <1>2, <1>3, <1>4, <1>5, <1>6, <1>7, <1>8, <1>9, <1>10, <1>11
  DEF Next, Reactor, Read, Write

(* The invariant of every theorem here.                                    *)
LEMMA InvHolds == Spec => []Inv
BY InitInv, InductiveInv, PTL DEF Spec

(* Type correctness, with EPOLLOUT asked for only of descriptors that have *)
(* callbacks.                                                              *)
THEOREM TypeCorrect == Spec => []TypeOK
BY InvHolds, PTL DEF Inv

(* contexts_, HttpServer's and WsHub's conns_ and the objects' fd_ agree   *)
(* through every accept, close and hand-over.                              *)
THEOREM TablesAgree == Spec => []OwnersAgree
BY InvHolds, PTL DEF Inv, Owned

(* No event of a batch is dealt with by another connection's callbacks.    *)
THEOREM NoEventStrays == Spec => []EventsReachTheirOwner
BY InvHolds, PTL DEF Inv, Owned

-----------------------------------------------------------------------------
(* Members stay.  Only a close frame or the end of a request sets          *)
(* closeAfterWrite_, and an upgrade never without it.                      *)
Says(c, m) == \E i \in DOMAIN said[c] : said[c][i] = m

Reasons ==
    /\ \A c \in Clients : Http(c) \in upgraded => Http(c) \in ending
    /\ \A c \in Clients : Ws(c) \in ending => Says(c, "close")

MInv == Inv /\ Reasons /\ MembersStay

(* A step that neither takes a member out nor tells anybody anything.      *)
LEMMA StillMembers ==
  ASSUME MInv, hub' = hub, told' = told, gone \subseteq gone', said' = said
  PROVE  MembersStay'
BY DEF MInv, MembersStay

(* A client whose WsConnection closes without an upgrade has left.         *)
LEMMA CloseMembers ==
  ASSUME MInv, NEW o \in Object, Exists(o), NEW asked, Close(o, asked),
         o = Ws(o[2]) => o[2] \in gone \/ Says(o[2], "close") \/ Says(o[2], "bad"),
         UNCHANGED <<said, gone>>,
         \A c \in Clients : told'[c] = "101" /\ told[c] # "101" => o = Http(c) /\ o \in upgraded
  PROVE  MembersStay'
<1> DEFINE c == o[2]
<1>1. fd[o] \in Fds /\ Closing(o, asked, fd[o])  BY Closes DEF MInv
<1>2. c \in Clients /\ (o = Http(c) \/ o = Ws(c))
      /\ \A d \in Clients : (o = Http(d) \/ o = Ws(d)) => d = c
  BY Objects
<1>3. hub' = hub \cup {c} \/ hub' = IF o = Ws(c) THEN hub \ {c} ELSE hub
  BY <1>1 DEF Closing
<1>4. o = Http(c) /\ o \in upgraded => c \in hub'
  BY <1>1 DEF Closing
<1>5. SUFFICES ASSUME NEW d \in Clients, told'[d] = "101", d \notin gone,
                      \A i \in DOMAIN said[d] : said[d][i] \notin {"close", "bad"}
               PROVE  d \in hub'
  BY DEF MembersStay
<1>6. CASE told[d] = "101"
  <2>1. d \in hub  BY <1>5, <1>6 DEF MInv, MembersStay
  <2>2. o = Ws(c) => d # c  BY <1>5 DEF Says
  <2> QED  BY <2>1, <2>2, <1>3
<1>7. CASE told[d] # "101"
  BY <1>2, <1>4, <1>5, <1>7
<1> QED  BY <1>6, <1>7

(* Frames read give an object a reason to end only if they say so.         *)
LEMMA ReadMembers ==
  ASSUME MInv, NEW c \in Clients, ReadFrames(c)
  PROVE  Reasons' /\ MembersStay'
<1> DEFINE o == Ws(c)
           new == Inbox(open[fd[o]])
           acks == Served(new, "close")
           texts == Served(new, "text")
           audience == IF texts = 0 THEN {} ELSE {Ws(d) : d \in hub}
           asked == Armed({fd[p] : p \in audience \cup (IF acks = 0 THEN {} ELSE {o})})
<1>1. o \in Object /\ o[2] = c /\ \A d \in Clients : Ws(d) = o <=> d = c
      /\ Http(d) # o
  BY Objects
<1>2. /\ Calling(o, "read") /\ UNCHANGED <<stage, said, gone, told, upgraded>>
      /\ ending' = IF acks = 0 THEN ending ELSE ending \cup {o}
      /\ IF Refused(new) THEN Close(o, asked) ELSE UNCHANGED tables
  BY DEF ReadFrames
<1>3. Exists(o)  BY <1>1, <1>2, ReadsExist DEF MInv
<1>4. open[fd[o]] = c
  BY <1>1, <1>3, NoneAssumption DEF MInv, Inv, TypeOK, Owned, OwnersAgree, Exists
<1>5. \A i \in DOMAIN new : \E j \in DOMAIN said[c] : said[c][j] = new[i]
  BY <1>4, InboxSaid DEF MInv
<1>6. acks # 0 => Says(c, "close")
  <2>1. ASSUME acks # 0 PROVE \E i \in DOMAIN new : new[i] = "close"
    <3> DEFINE S == {i \in DOMAIN new : new[i] = "close" /\ \A j \in 1..i : new[j] # "bad"}
    <3>1. S # {}  BY <2>1, FS_EmptySet DEF Served
    <3> QED  BY <3>1
  <2> QED  BY <2>1, <1>5 DEF Says
<1>7. Reasons'
  BY <1>1, <1>2, <1>6 DEF MInv, Reasons, Says
<1>8. MembersStay'
  <2>1. CASE Refused(new)
    <3>1. Says(c, "bad")  BY <2>1, <1>5 DEF Refused, Says
    <3>2. Close(o, asked)  BY <1>2, <2>1
    <3> HIDE DEF asked
    <3> QED  BY <3>1, <3>2, <1>1, <1>2, <1>3, CloseMembers
  <2>2. CASE ~ Refused(new)
    BY <1>2, <2>2, StillMembers DEF tables
  <2> QED  BY <2>1, <2>2
<1> QED  BY <1>7, <1>8

(* onWrite ends an object only for its reason; an upgrade joins the hub.   *)
LEMMA WriteMembers ==
  ASSUME MInv, NEW o \in Object, WriteAll(o) \/ WritePart(o) \/ WriteFails(o)
  PROVE  Reasons' /\ MembersStay'
<1>1. Exists(o) /\ UNCHANGED <<said, gone, ending, upgraded>>
  BY DEF WriteAll, WritePart, WriteFails, clientVars, fields
<1>2. Reasons'  BY <1>1 DEF MInv, Reasons, Says
<1>3. open[fd[o]] = o[2] /\ o[2] \in Clients
  BY <1>1, Objects, NoneAssumption DEF MInv, Inv, TypeOK, Owned, OwnersAgree, Exists
<1>4. CASE WriteAll(o)
  <2>1. \A c \in Clients : told'[c] = "101" /\ told[c] # "101" => o = Http(c) /\ o \in upgraded
    <3>1. told' = IF o[1] = "ws" THEN told
                  ELSE [told EXCEPT ![o[2]] = IF o \in upgraded THEN "101" ELSE "answer"]
      BY <1>3, <1>4 DEF WriteAll
    <3>2. told \in [Clients -> {"nothing", "answer", "101"}]  BY DEF MInv, Inv, TypeOK
    <3>3. o[1] # "ws" => o = Http(o[2])  BY Objects
    <3> QED  BY <3>1, <3>2, <3>3, <1>3
  <2>2. CASE o \in ending
    <3>1. Close(o, armed)  BY <1>4, <2>2 DEF WriteAll
    <3>2. o = Ws(o[2]) => Says(o[2], "close")  BY <2>2, <1>3 DEF MInv, Reasons
    <3> QED  BY <1>1, <1>2, <2>1, <3>1, <3>2, CloseMembers
  <2>3. CASE o \notin ending
    <3>1. \A c \in Clients : told'[c] = "101" => told[c] = "101"
      BY <2>1, <2>3 DEF MInv, Reasons
    <3>2. hub' = hub  BY <1>4, <2>3 DEF WriteAll, tables
    <3> QED  BY <1>1, <1>2, <3>1, <3>2 DEF MInv, MembersStay
  <2> QED  BY <2>2, <2>3
<1>5. CASE WritePart(o)
  BY <1>1, <1>2, <1>5, StillMembers DEF WritePart, clientVars, tables
<1>6. CASE WriteFails(o)
  <2>1. Close(o, armed) /\ o[2] \in gone /\ told' = told
    BY <1>3, <1>6 DEF WriteFails, clientVars
  <2> QED  BY <1>1, <1>2, <2>1, CloseMembers
<1> QED  BY <1>4, <1>5, <1>6

(* Clients end nothing but themselves.                                     *)
LEMMA ClientMembers ==
  ASSUME MInv, NEW c \in Clients, Client(c)
  PROVE  Reasons' /\ MembersStay'
<1>1. UNCHANGED <<hub, told, ending, upgraded>> /\ gone \subseteq gone'
  BY DEF Client, Dial, ClientSends, ClientLeaves, tables, fields
<1>2. said \in [Clients -> Seq({"page", "upgrade", "text", "close", "bad"})]
  BY DEF MInv, Inv, TypeOK
<1>3. \A d \in Clients : \A i \in DOMAIN said[d] : i \in DOMAIN said'[d] /\ said'[d][i] = said[d][i]
  <2>1. CASE said' = said  BY <2>1
  <2>2. CASE said' # said
    <3>1. PICK m \in Requests \cup Frames : said' = [said EXCEPT ![c] = Append(@, m)]
      BY <2>2 DEF Client, Dial, ClientSends, ClientLeaves
    <3>2. \A i \in DOMAIN said[c] : i \in DOMAIN Append(said[c], m) /\ Append(said[c], m)[i] = said[c][i]
      BY <1>2, AppendProperties, LenProperties, ConnsAssumption
    <3> QED  BY <3>1, <3>2, <1>2
  <2> QED  BY <2>1, <2>2
<1>4. Reasons'  BY <1>1, <1>3 DEF MInv, Reasons, Says
<1>5. MembersStay'  BY <1>1, <1>3 DEF MInv, MembersStay
<1> QED  BY <1>4, <1>5

(* Every step.                                                             *)
LEMMA MembersStep == MInv /\ [Next]_vars => MInv'
<1> SUFFICES ASSUME MInv, [Next]_vars PROVE MInv'  OBVIOUS
<1>1. Inv'  BY InductiveInv DEF MInv
<1> SUFFICES Reasons' /\ MembersStay'  BY <1>1 DEF MInv
<1> \A c \in Clients : Http(c) \in Object /\ Ws(c) \in Object  BY Objects
<1>2. CASE UNCHANGED <<said, gone, told, hub, ending, upgraded>>
  BY <1>2, StillMembers DEF MInv, Reasons, Says
<1>3. CASE EpollWait \/ HandleEvent \/ AcceptReturns
  BY <1>2, <1>3 DEF EpollWait, HandleEvent, AcceptReturns, clientVars, tables, fields
<1>4. ASSUME NEW c \in Clients, Accept(c) PROVE Reasons' /\ MembersStay'
  BY <1>2, <1>4 DEF Accept, fields
<1>5. ASSUME NEW o \in Object, DeadCallback(o) PROVE Reasons' /\ MembersStay'
  BY <1>2, <1>5 DEF DeadCallback, clientVars, tables, fields
<1>6. ASSUME NEW o \in Object, ReadEnds(o) PROVE Reasons' /\ MembersStay'
  <2>1. /\ Calling(o, "read") /\ open[fd[o]] \in gone /\ Close(o, armed)
        /\ UNCHANGED <<said, gone, told, ending, upgraded>>
    BY <1>6 DEF ReadEnds, fields
  <2>2. Exists(o)  BY <2>1, ReadsExist DEF MInv
  <2>3. open[fd[o]] = o[2]
    BY <2>2, NoneAssumption DEF MInv, Inv, TypeOK, Owned, OwnersAgree, Exists
  <2>4. MembersStay'  BY <2>1, <2>2, <2>3, CloseMembers
  <2> QED  BY <2>1, <2>4 DEF MInv, Reasons, Says
<1>7. ASSUME NEW c \in Clients, ReadRequest(c) PROVE Reasons' /\ MembersStay'
  <2>1. /\ UNCHANGED <<said, gone, told, tables>>
        /\ ending \subseteq ending' /\ ending' \subseteq ending \cup {Http(c)}
        /\ upgraded' \subseteq upgraded \cup {Http(c)}
        /\ upgraded' # upgraded => Http(c) \in ending'
    BY <1>7 DEF ReadRequest
  <2>2. \A d \in Clients : Ws(d) # Http(c)  BY Objects
  <2> QED  BY <2>1, <2>2, StillMembers DEF MInv, Reasons, Says, tables
<1>8. ASSUME NEW c \in Clients, ReadFrames(c) PROVE Reasons' /\ MembersStay'
  BY <1>8, ReadMembers
<1>9. ASSUME NEW o \in Object, WriteAll(o) \/ WritePart(o) \/ WriteFails(o)
      PROVE  Reasons' /\ MembersStay'
  BY <1>9, WriteMembers
<1>10. ASSUME NEW c \in Clients, Client(c) PROVE Reasons' /\ MembersStay'
  BY <1>10, ClientMembers
<1>11. CASE UNCHANGED vars
  BY <1>2, <1>11 DEF vars, clientVars, tables, fields
<1> QED
  BY <1>3, <1>4, <1>5, <1>6, <1>7, <1>8, <1>9, <1>10, <1>11 DEF Next, Reactor, Read, Write

(* Who was told 101, stays and breaks no rule is a member of the hub, with *)
(* the socket he came with.                                                *)
THEOREM MembersRemain == Spec => []MembersStay
<1>1. Init => MInv
  BY InitInv DEF Init, MInv, Reasons, MembersStay
<1> QED  BY <1>1, MembersStep, PTL DEF Spec, MInv

-----------------------------------------------------------------------------
(* Nothing but the freed read leaves a descriptor open.                    *)

(* close takes the descriptor out of contexts_ and the kernel's table.     *)
LEMMA CloseCloses ==
  ASSUME Inv, ClosedWithItsObject, FreedReads \subseteq {"own"},
         NEW o \in Object, Exists(o), NEW asked, Close(o, asked)
  PROVE  ClosedWithItsObject'
<1> DEFINE f == fd[o]
<1>1. /\ f \in Fds
      /\ open \in [Fds -> Clients \cup {None}] /\ contexts \in [Fds -> Object \cup {None}]
  BY Closes DEF Inv, TypeOK
<1>2. contexts' = [contexts EXCEPT ![f] = Successor(o)]
  BY DEF Close
<1>3. CASE HandsOver(o)
  <2>1. open' = open
    BY <1>3 DEF Close
  <2>2. Successor(o) # None
    BY <1>3, Objects DEF Successor
  <2> QED  BY <1>1, <1>2, <2>1, <2>2 DEF ClosedWithItsObject
<1>4. CASE ~ HandsOver(o)
  <2>1. open' = [open EXCEPT ![f] = None]
    BY <1>4 DEF Close
  <2> QED  BY <1>1, <1>2, <2>1 DEF ClosedWithItsObject
<1> QED  BY <1>3, <1>4

(* Only accept and close touch the kernel's table.                         *)
LEMMA ClosedStep ==
  ASSUME Inv, ClosedWithItsObject, FreedReads \subseteq {"own"}, [Next]_vars
  PROVE  ClosedWithItsObject'
<1> \A c \in Clients : Http(c) \in Object /\ Ws(c) \in Object  BY Objects
<1>1. CASE UNCHANGED tables
  BY <1>1 DEF tables, ClosedWithItsObject
<1>2. CASE EpollWait \/ HandleEvent \/ AcceptReturns \/ UNCHANGED vars
  BY <1>1, <1>2 DEF EpollWait, HandleEvent, AcceptReturns, vars
<1>3. ASSUME NEW c \in Clients, Accept(c) PROVE ClosedWithItsObject'
  <2>1. PICK f \in Free : /\ open' = [open EXCEPT ![f] = c]
                          /\ contexts' = [contexts EXCEPT ![f] = Http(c)]
    BY <1>3 DEF Accept
  <2>2. f \in Fds /\ Http(c) # None
    BY <2>1, Objects DEF Free
  <2>3. open \in [Fds -> Clients \cup {None}] /\ contexts \in [Fds -> Object \cup {None}]
    BY DEF Inv, TypeOK
  <2> QED  BY <2>1, <2>2, <2>3 DEF ClosedWithItsObject
<1>4. ASSUME NEW o \in Object, DeadCallback(o) PROVE ClosedWithItsObject'
  BY <1>1, <1>4 DEF DeadCallback
<1>5. ASSUME NEW o \in Object, ReadEnds(o) PROVE ClosedWithItsObject'
  <2>1. Calling(o, "read") /\ Close(o, armed)
    BY <1>5 DEF ReadEnds
  <2> QED  BY <2>1, ReadsExist, CloseCloses
<1>6. ASSUME NEW c \in Clients, ReadRequest(c) PROVE ClosedWithItsObject'
  BY <1>1, <1>6 DEF ReadRequest
<1>7. ASSUME NEW c \in Clients, ReadFrames(c) PROVE ClosedWithItsObject'
  <2>1. Calling(Ws(c), "read") /\ Exists(Ws(c))
    BY <1>7, ReadsExist DEF ReadFrames
  <2>2. (\E asked : Close(Ws(c), asked)) \/ UNCHANGED tables
    BY <1>7 DEF ReadFrames
  <2> QED  BY <1>1, <2>1, <2>2, CloseCloses
<1>8. ASSUME NEW o \in Object, WriteAll(o) \/ WritePart(o) \/ WriteFails(o)
      PROVE  ClosedWithItsObject'
  <2>1. Exists(o) /\ (Close(o, armed) \/ UNCHANGED tables)
    BY <1>8 DEF WriteAll, WritePart, WriteFails
  <2> QED  BY <1>1, <2>1, CloseCloses
<1>9. ASSUME NEW c \in Clients, Client(c) PROVE ClosedWithItsObject'
  BY <1>1, <1>9 DEF Client, Dial, ClientSends, ClientLeaves
<1> QED
  BY <1>2, <1>3, <1>4, <1>5, <1>6, <1>7, <1>8, <1>9 DEF Next, Reactor, Read, Write

(* If fd_ could be trusted after the object is destroyed, every socket     *)
(* that is open would have its object: what MCWebConns_conns_leak finds is due *)
(* to that read, and no order of callbacks, hand-over or failing write     *)
(* leaves a descriptor behind.                                             *)
THEOREM OnlyFreedReadsLeak ==
  ASSUME FreedReads \subseteq {"own"}
  PROVE  Spec => []ClosedWithItsObject
<1>1. Init => ClosedWithItsObject
  BY DEF Init, ClosedWithItsObject
<1>2. Inv /\ ClosedWithItsObject /\ [Next]_vars => ClosedWithItsObject'
  BY ClosedStep
<1> QED  BY <1>1, <1>2, InvHolds, PTL DEF Spec
=============================================================================
