---------------------------- MODULE NetPlay_proofs ----------------------------
(***************************************************************************)
(* The own player of everybody stays in its table, and there is room in    *)
(* every table, for any number of joiners and any size of the table.  The  *)
(* numbers in the tables are numbers of sockets, of which there have never *)
(* been more than may be open at a time; and the number that a             *)
(* DELETECLIENT names is the number of nobody who will read it.  The       *)
(* packets of the handshake are counted: nobody gets them twice, or in     *)
(* part.  What the host will know when it has read all that is under way   *)
(* to it is computed packet by packet, and is always those in the game;    *)
(* a joiner whose list was made when the host had read everything will     *)
(* know the same, in the same pose, because both are sent the same.        *)
(***************************************************************************)
EXTENDS NetPlay, FiniteSetTheorems, FunctionTheorems, WellFoundedInduction, TLAPS

\* What is in a queue; a queue is a sequence of whatever it may be.
Elems(q) == {q[i] : i \in 1 .. Len(q)}
IsSeq(q) == \E S : q \in Seq(S)

LEMMA EmptySeq == IsSeq(<<>>) /\ Elems(<<>>) = {}
  BY DEF IsSeq, Elems

LEMMA TailSeq ==
  ASSUME NEW q, IsSeq(q), q # <<>>
  PROVE  /\ IsSeq(Tail(q)) /\ Elems(Tail(q)) \subseteq Elems(q)
         /\ Head(q) \in Elems(q)
  <1>1. PICK S : q \in Seq(S)  BY DEF IsSeq
  <1>2. Tail(q) \in Seq(S) /\ Len(Tail(q)) = Len(q) - 1 /\ Len(q) \in Nat \ {0}
    BY <1>1
  <1>3. \A i \in 1 .. Len(Tail(q)) : Tail(q)[i] = q[i + 1] /\ i + 1 \in 1 .. Len(q)
    BY <1>1, <1>2
  <1>4. Head(q) = q[1] /\ 1 \in 1 .. Len(q)  BY <1>1, <1>2
  <1> QED  BY <1>2, <1>3, <1>4 DEF IsSeq, Elems

LEMMA AppendSeq ==
  ASSUME NEW q, IsSeq(q), NEW m
  PROVE  IsSeq(Append(q, m)) /\ Elems(Append(q, m)) = Elems(q) \cup {m}
  <1>1. PICK S : q \in Seq(S)  BY DEF IsSeq
  <1>2. q \in Seq(S \cup {m}) /\ m \in S \cup {m} /\ Len(q) \in Nat  BY <1>1
  <1>3. Append(q, m) \in Seq(S \cup {m}) /\ Len(Append(q, m)) = Len(q) + 1  BY <1>2
  <1>4. Append(q, m)[Len(q) + 1] = m /\ \A i \in 1 .. Len(q) : Append(q, m)[i] = q[i]
    BY <1>2
  <1>5. 1 .. Len(q) + 1 = 1 .. Len(q) \cup {Len(q) + 1}  BY <1>2
  <1> QED  BY <1>3, <1>4, <1>5 DEF IsSeq, Elems

LEMMA ConcatSeq ==
  ASSUME NEW p, IsSeq(p), NEW q, IsSeq(q)
  PROVE  IsSeq(p \o q) /\ Elems(p \o q) \subseteq Elems(p) \cup Elems(q)
  <1>1. PICK S : p \in Seq(S)  BY DEF IsSeq
  <1>2. PICK T : q \in Seq(T)  BY DEF IsSeq
  <1>3. p \in Seq(S \cup T) /\ q \in Seq(S \cup T) /\ Len(p) \in Nat /\ Len(q) \in Nat
    BY <1>1, <1>2
  <1>4. p \o q \in Seq(S \cup T) /\ Len(p \o q) = Len(p) + Len(q)  BY <1>3
  <1>5. ASSUME NEW i \in 1 .. Len(p \o q)
        PROVE  (p \o q)[i] \in Elems(p) \cup Elems(q)
    <2>1. CASE i <= Len(p)
      BY <1>3, <1>4, <2>1 DEF Elems
    <2>2. CASE i > Len(p)
      <3>1. i - Len(p) \in 1 .. Len(q) /\ (p \o q)[i] = q[i - Len(p)]  BY <1>3, <1>4, <2>2
      <3> QED  BY <3>1 DEF Elems
    <2> QED  BY <1>3, <1>4, <2>1, <2>2
  <1> QED  BY <1>4, <1>5 DEF IsSeq, Elems

LEMMA OneSeq == \A m : IsSeq(<<m>>) /\ Elems(<<m>>) = {m}
  <1> TAKE m
  <1>1. <<m>> \in Seq({m}) /\ Len(<<m>>) = 1 /\ <<m>>[1] = m  OBVIOUS
  <1>2. IsSeq(<<m>>)  BY <1>1 DEF IsSeq
  <1>3. 1 .. Len(<<m>>) = {1}  BY <1>1
  <1>4. Elems(<<m>>) = {m}  BY <1>1, <1>3 DEF Elems
  <1> QED  BY <1>2, <1>4

IsQueues(queues) == DOMAIN queues = Conns /\ \A c \in Conns : IsSeq(queues[c])

\* Writing adds the message at most, to those it is written to.
LEMMA WriteQueues ==
  ASSUME NEW queues, IsQueues(queues), NEW to, NEW m, IsSeq(m),
         NEW after, after = Write(queues, to, m)
  PROVE  /\ IsQueues(after)
         /\ \A c \in Conns : Elems(after[c]) \subseteq Elems(queues[c]) \cup Elems(m)
         /\ \A c \in Conns : c \notin to \/ ~Alive(c) => after[c] = queues[c]
  <1>1. ASSUME NEW c \in Conns
        PROVE  IsSeq(queues[c] \o m) /\ Elems(queues[c] \o m) \subseteq Elems(queues[c]) \cup Elems(m)
    BY ConcatSeq DEF IsQueues
  <1> QED  BY <1>1 DEF Write, IsQueues

\* Reading takes one away.
LEMMA ReadQueues ==
  ASSUME NEW queues, IsQueues(queues), NEW c \in Conns, queues[c] # <<>>,
         NEW after, after = [queues EXCEPT ![c] = Tail(@)]
  PROVE  /\ IsQueues(after)
         /\ \A d \in Conns : Elems(after[d]) \subseteq Elems(queues[d])
         /\ \A d \in Conns : queues[d] = <<>> => after[d] = <<>>
         /\ Head(queues[c]) \in Elems(queues[c])
  <1>1. IsSeq(Tail(queues[c])) /\ Elems(Tail(queues[c])) \subseteq Elems(queues[c])
        /\ Head(queues[c]) \in Elems(queues[c])
    BY TailSeq DEF IsQueues
  <1> QED  BY <1>1 DEF IsQueues

------------------------------------------------------------------------------
(* The inductive invariant *)

Types ==
  /\ DOMAIN stage = Conns /\ DOMAIN playerId = Conns /\ DOMAIN player = Conns
  /\ DOMAIN sock = Conns
  /\ IsQueues(toServer) /\ IsQueues(toClient)
  /\ group \subseteq Conns /\ ready \subseteq group
  /\ IsSeq(backlog) /\ Elems(backlog) \subseteq Conns

\* Numbers that sockets have had: there are no more of them than may be open at a time,
\* because a new one is only taken when all are in use.
Sockets ==
  /\ clientnum = Cardinality(group) /\ clientnum < MAXPLAYERS
  /\ nextSocket \in Nat /\ nextSocket < MAXPLAYERS
  /\ \A c \in group : sock[c] \in 0 .. nextSocket - 1
  /\ \A c, d \in group : sock[c] = sock[d] => c = d

\* Only they are entered in tables.
Numbers ==
  /\ \A c \in Conns : DOMAIN player[c] \subseteq 0 .. nextSocket - 1
  /\ \A c \in Conns : \A m \in Elems(toClient[c]) :
       /\ m.type = "CLIENTADD" => m.id \in 0 .. nextSocket - 1
       /\ m.type = "CLIENTLIST" => DOMAIN m.list \subseteq 0 .. nextSocket - 1
  /\ \A c \in Conns : \A m \in Elems(toServer[c]) :
       m.type = "PLAYERINFO" => m.id \in 0 .. nextSocket - 1

\* A connection is in the backlog once at most, and leaves it for the group.
Backlog ==
  /\ Elems(backlog) \cap group = {}
  /\ \A i, j \in 1 .. Len(backlog) : backlog[i] = backlog[j] => i = j
  /\ \A c \in Conns : stage[c] = "out" => c \notin group /\ c \notin Elems(backlog)

\* Who is in a session has the number of its socket.
Sessions ==
  /\ \A c \in Conns : InSession(c) => c \in group /\ playerId[c] = sock[c]
  /\ \A c \in Conns : c \notin group \/ stage[c] \in {"gone", "crashed"} => toClient[c] = <<>>
  /\ \A c \in Conns : \A m \in Elems(toServer[c]) :
       m.type = "PLAYERDELETE" => stage[c] = "gone"

\* No player is told that its own number is gone.
NoOwnDelete ==
  \A c \in Conns : \A m \in Elems(toClient[c]) :
    /\ m.type = "CONNECTIONACCEPT" => m.id = sock[c]
    /\ m.type = "DELETECLIENT" => m.id # sock[c]

IInv == Types /\ Sockets /\ Numbers /\ Backlog /\ Sessions /\ NoOwnDelete /\ OwnPlayerKept

LEMMA InitIInv == Init => IInv
  <1> SUFFICES ASSUME Init PROVE IInv  OBVIOUS
  <1> USE NetAssumption DEF Init, NoOne, NoSocket
  <1>1. Types  BY EmptySeq, OneSeq DEF Types, IsQueues, Conns
  <1>2. Cardinality(group) = 0  BY FS_EmptySet
  <1>3. Sockets  BY <1>2 DEF Sockets
  <1>4. Numbers  BY EmptySeq DEF Numbers
  <1>5. Elems(backlog) = {Host} /\ Len(backlog) = 1  BY OneSeq
  <1>6. Backlog  BY <1>5 DEF Backlog, Conns
  <1>7. Sessions  BY EmptySeq DEF Sessions, InSession, Conns
  <1>8. NoOwnDelete  BY EmptySeq DEF NoOwnDelete
  <1>9. OwnPlayerKept  BY DEF OwnPlayerKept, Conns
  <1> QED  BY <1>1, <1>3, <1>4, <1>6, <1>7, <1>8, <1>9 DEF IInv

LEMMA ConnectStep ==
  ASSUME IInv, NEW k \in Conns, Connect(k)
  PROVE  IInv'
  <1> USE DEF IInv
  <1>1. backlog' = Append(backlog, k) /\ stage[k] = "out" /\ k # Host
        /\ stage' = [stage EXCEPT ![k] = "waiting"]
        /\ UNCHANGED <<playerId, player, sock, toServer, toClient, group, ready, clientnum,
                       nextSocket, wiped>>
    BY DEF Connect, history
  <1>2. IsSeq(backlog') /\ Elems(backlog') = Elems(backlog) \cup {k}
    BY <1>1, AppendSeq DEF Types
  <1>3. Types'  BY <1>1, <1>2 DEF Types, IsQueues
  <1>4. Sockets'  BY <1>1 DEF Sockets
  <1>5. Numbers'  BY <1>1 DEF Numbers
  <1>6. Backlog'
    <2>1. Elems(backlog') \cap group' = {} /\ k \notin Elems(backlog)
      BY <1>1, <1>2 DEF Backlog
    <2>2. ASSUME NEW i \in 1 .. Len(backlog'), NEW j \in 1 .. Len(backlog'),
                 backlog'[i] = backlog'[j]
          PROVE  i = j
      <3>1. PICK S : backlog \in Seq(S)  BY DEF Types, IsSeq
      <3>2. backlog \in Seq(S \cup {k}) /\ Len(backlog) \in Nat
            /\ Len(backlog') = Len(backlog) + 1 /\ backlog'[Len(backlog) + 1] = k
            /\ \A n \in 1 .. Len(backlog) : backlog'[n] = backlog[n]
        BY <1>1, <3>1
      <3>3. \A n \in 1 .. Len(backlog) : backlog[n] # k  BY <2>1 DEF Elems
      <3> QED  BY <2>2, <3>2, <3>3 DEF Backlog
    <2>3. \A c \in Conns : stage'[c] = "out" => c \notin group' /\ c \notin Elems(backlog')
      BY <1>1, <1>2 DEF Backlog, Types
    <2> QED  BY <2>1, <2>2, <2>3 DEF Backlog
  <1>7. Sessions'  BY <1>1 DEF Sessions, InSession, Types
  <1>8. NoOwnDelete'  BY <1>1 DEF NoOwnDelete
  <1>9. OwnPlayerKept'  BY <1>1 DEF OwnPlayerKept, Types, Known
  <1> QED  BY <1>3, <1>4, <1>5, <1>6, <1>7, <1>8, <1>9

\* Reading the acceptance, of which only the number and the queue are known.
LEMMA GetAcceptanceStep ==
  ASSUME IInv, NEW k \in Conns, GetAcceptance(k)
  PROVE  IInv'
  <1> USE DEF IInv
  <1>1. k # Host /\ stage[k] = "waiting" /\ toClient[k] # <<>>
        /\ Head(toClient[k]).type = "CONNECTIONACCEPT"
        /\ playerId' = [playerId EXCEPT ![k] = Head(toClient[k]).id]
        /\ toClient' = [toClient EXCEPT ![k] = Tail(@)]
        /\ stage' = [stage EXCEPT ![k] = "ACCEPTED"]
        /\ UNCHANGED <<player, sock, toServer, group, ready, clientnum, nextSocket, backlog, wiped>>
    BY DEF GetAcceptance, Accepted, server, history
  <1>2. /\ IsQueues(toClient')
        /\ \A d \in Conns : Elems(toClient'[d]) \subseteq Elems(toClient[d])
        /\ \A d \in Conns : toClient[d] = <<>> => toClient'[d] = <<>>
        /\ Head(toClient[k]) \in Elems(toClient[k])
    <2>1. IsQueues(toClient)  BY DEF Types
    <2>2. toClient[k] # <<>> /\ toClient' = [toClient EXCEPT ![k] = Tail(@)]  BY <1>1
    <2> QED  BY <2>1, <2>2, ReadQueues
  <1>3. Types'  BY <1>1, <1>2 DEF Types
  <1>4. Sockets'  BY <1>1 DEF Sockets
  <1>5. Numbers'  BY <1>1, <1>2 DEF Numbers
  <1>6. Backlog'  BY <1>1 DEF Backlog, Types
  <1>7. Head(toClient[k]).id = sock[k] /\ k \in group
    BY <1>1, <1>2 DEF NoOwnDelete, Sessions
  <1>8. Sessions'  BY <1>1, <1>2, <1>7 DEF Sessions, InSession, Types
  <1>9. NoOwnDelete'  BY <1>1, <1>2 DEF NoOwnDelete
  <1>10. OwnPlayerKept'  BY <1>1 DEF OwnPlayerKept, Types, Known
  <1> QED  BY <1>3, <1>4, <1>5, <1>6, <1>8, <1>9, <1>10

LEMMA TimeoutStep ==
  ASSUME IInv, NEW k \in Conns, Timeout(k)
  PROVE  IInv'
  <1> USE DEF IInv
  <1>1. stage[k] = "waiting" /\ stage' = [stage EXCEPT ![k] = "abandoned"]
        /\ UNCHANGED <<playerId, player, sock, toServer, toClient, group, ready, clientnum,
                       nextSocket, backlog, wiped>>
    BY DEF Timeout, server, history
  <1>2. Types'  BY <1>1 DEF Types, IsQueues
  <1>3. Sockets' /\ Numbers'  BY <1>1 DEF Sockets, Numbers
  <1>4. Backlog'  BY <1>1 DEF Backlog, Types
  <1>5. Sessions'  BY <1>1 DEF Sessions, InSession, Types
  <1>6. NoOwnDelete'  BY <1>1 DEF NoOwnDelete
  <1>7. OwnPlayerKept'  BY <1>1 DEF OwnPlayerKept, Types, Known
  <1> QED  BY <1>2, <1>3, <1>4, <1>5, <1>6, <1>7

LEMMA SendDeleteStep ==
  ASSUME IInv, NEW k \in Conns, SendDelete(k)
  PROVE  IInv'
  <1> USE DEF IInv
  <1>1. InSession(k) /\ stage' = [stage EXCEPT ![k] = "gone"]
        /\ player' = [player EXCEPT ![k] = <<>>]
        /\ toServer' = [toServer EXCEPT ![k] = Append(@, Msg("PLAYERDELETE"))]
        /\ toClient' = [toClient EXCEPT ![k] = <<>>]
        /\ UNCHANGED <<playerId, sock, group, ready, clientnum, nextSocket, backlog, wiped>>
    BY DEF SendDelete, server, history, NoOne
  <1>2. /\ IsQueues(toClient')
        /\ \A d \in Conns : Elems(toClient'[d]) \subseteq Elems(toClient[d])
        /\ \A d \in Conns : toClient[d] = <<>> => toClient'[d] = <<>>
        /\ toClient'[k] = <<>>
    <2>1. IsQueues(toClient)  BY DEF Types
    <2>2. toClient' = [toClient EXCEPT ![k] = <<>>]  BY <1>1
    <2> QED  BY <2>1, <2>2, EmptySeq DEF IsQueues
  <1>3. /\ IsSeq(toServer'[k])
        /\ Elems(toServer'[k]) = Elems(toServer[k]) \cup {Msg("PLAYERDELETE")}
        /\ \A d \in Conns : d # k => toServer'[d] = toServer[d]
    BY <1>1, AppendSeq DEF Types, IsQueues
  <1>4. Types'  BY <1>1, <1>2, <1>3 DEF Types, IsQueues
  <1>5. Sockets'  BY <1>1 DEF Sockets
  <1>6. Numbers'
    <2>1. \A c \in Conns : DOMAIN player'[c] \subseteq 0 .. nextSocket' - 1
      BY <1>1 DEF Numbers, Types
    <2>2. \A c \in Conns : \A m \in Elems(toServer'[c]) :
             m.type = "PLAYERINFO" => m.id \in 0 .. nextSocket' - 1
      BY <1>1, <1>3 DEF Numbers, Msg
    <2> QED  BY <1>1, <1>2, <2>1, <2>2 DEF Numbers
  <1>7. Backlog'  BY <1>1 DEF Backlog, Types
  <1>8. Sessions'
    <2>1. \A c \in Conns : \A m \in Elems(toServer'[c]) :
             m.type = "PLAYERDELETE" => stage'[c] = "gone"
      BY <1>1, <1>3 DEF Sessions, Types
    <2> QED  BY <1>1, <1>2, <2>1 DEF Sessions, InSession, Types
  <1>9. NoOwnDelete'  BY <1>1, <1>2 DEF NoOwnDelete
  <1>10. OwnPlayerKept'  BY <1>1 DEF OwnPlayerKept, Types, Known
  <1> QED  BY <1>4, <1>5, <1>6, <1>7, <1>8, <1>9, <1>10

LEMMA DisappearStep ==
  ASSUME IInv, NEW k \in Conns, Disappear(k)
  PROVE  IInv'
  <1> USE DEF IInv
  <1>1. (InSession(k) \/ stage[k] \in {"waiting", "abandoned"})
        /\ stage' = [stage EXCEPT ![k] = "crashed"]
        /\ player' = [player EXCEPT ![k] = <<>>]
        /\ toClient' = [toClient EXCEPT ![k] = <<>>]
        /\ UNCHANGED <<playerId, sock, toServer, group, ready, clientnum, nextSocket, backlog, wiped>>
    BY DEF Disappear, server, history, NoOne
  <1>2. /\ IsQueues(toClient')
        /\ \A d \in Conns : Elems(toClient'[d]) \subseteq Elems(toClient[d])
        /\ \A d \in Conns : toClient[d] = <<>> => toClient'[d] = <<>>
        /\ toClient'[k] = <<>>
    <2>1. IsQueues(toClient)  BY DEF Types
    <2>2. toClient' = [toClient EXCEPT ![k] = <<>>]  BY <1>1
    <2> QED  BY <2>1, <2>2, EmptySeq DEF IsQueues
  <1>3. Types'  BY <1>1, <1>2 DEF Types, IsQueues
  <1>4. Sockets'  BY <1>1 DEF Sockets
  <1>5. \A c \in Conns : DOMAIN player'[c] \subseteq 0 .. nextSocket' - 1
    BY <1>1 DEF Numbers, Types
  <1>6. Numbers'  BY <1>1, <1>2, <1>5 DEF Numbers
  <1>7. Backlog'  BY <1>1 DEF Backlog, Types
  <1>8. Sessions'  BY <1>1, <1>2 DEF Sessions, InSession, Types
  <1>9. NoOwnDelete'  BY <1>1, <1>2 DEF NoOwnDelete
  <1>10. OwnPlayerKept'  BY <1>1 DEF OwnPlayerKept, Types, Known
  <1> QED  BY <1>3, <1>4, <1>6, <1>7, <1>8, <1>9, <1>10

LEMMA ShutdownLevelStep ==
  ASSUME IInv, NEW k \in Conns, ShutdownLevel(k)
  PROVE  IInv'
  <1> USE DEF IInv
  <1>1. player' = [player EXCEPT ![k] = <<>>] /\ wiped' = wiped \cup {k}
        /\ UNCHANGED <<stage, playerId, sock, toServer, toClient, group, ready, clientnum,
                       nextSocket, backlog>>
    BY DEF ShutdownLevel, server, NoOne
  <1>2. Types'  BY <1>1 DEF Types, IsQueues
  <1>3. Sockets' /\ Backlog' /\ NoOwnDelete'  BY <1>1 DEF Sockets, Backlog, NoOwnDelete
  <1>4. \A c \in Conns : DOMAIN player'[c] \subseteq 0 .. nextSocket' - 1
    BY <1>1 DEF Numbers, Types
  <1>5. Numbers'  BY <1>1, <1>4 DEF Numbers
  <1>6. Sessions'  BY <1>1 DEF Sessions, InSession
  <1>7. OwnPlayerKept'  BY <1>1 DEF OwnPlayerKept, Types, Known
  <1> QED  BY <1>2, <1>3, <1>5, <1>6, <1>7

\* Steps that leave alone all that IInv is about.
LEMMA OtherStep ==
  ASSUME IInv, UNCHANGED <<stage, playerId, player, sock, toServer, toClient, group, ready,
                           clientnum, nextSocket, backlog, wiped>>
  PROVE  IInv'
  BY DEF IInv, Types, IsQueues, Sockets, Numbers, Backlog, Sessions, InSession, NoOwnDelete,
         OwnPlayerKept, Known

------------------------------------------------------------------------------
(* The client part *)

\* What IInv says of the queues to the programs.
GoodQueues(queues) ==
  /\ IsQueues(queues)
  /\ \A c \in Conns : c \notin group \/ stage[c] \in {"gone", "crashed"} => queues[c] = <<>>
  /\ \A c \in Conns : \A m \in Elems(queues[c]) :
       /\ m.type = "CLIENTADD" => m.id \in 0 .. nextSocket - 1
       /\ m.type = "CLIENTLIST" => DOMAIN m.list \subseteq 0 .. nextSocket - 1
       /\ m.type = "CONNECTIONACCEPT" => m.id = sock[c]
       /\ m.type = "DELETECLIENT" => m.id # sock[c]

LEMMA InvQueues == IInv => GoodQueues(toClient)
  BY DEF IInv, Types, Sessions, Numbers, NoOwnDelete, GoodQueues

LEMMA BroadcastQueues == IInv => GoodQueues(Broadcast)
  <1> SUFFICES ASSUME IInv PROVE GoodQueues(Broadcast)  OBVIOUS
  <1> DEFINE m == [type |-> "CLIENTUPDATE", poses |-> updates]
  <1>1. GoodQueues(toClient)  BY InvQueues
  <1>2. CASE updates = NoOne  BY <1>1, <1>2 DEF Broadcast
  <1>3. CASE updates # NoOne
    <2>1. IsQueues(toClient) /\ IsSeq(<<m>>) /\ Elems(<<m>>) = {m}
      BY <1>1, OneSeq DEF GoodQueues
    <2>2. Broadcast = Write(toClient, group, <<m>>)  BY <1>3 DEF Broadcast
    <2> HIDE DEF m
    <2>3. /\ IsQueues(Broadcast)
          /\ \A c \in Conns : Elems(Broadcast[c]) \subseteq Elems(toClient[c]) \cup {m}
          /\ \A c \in Conns : c \notin group \/ ~Alive(c) => Broadcast[c] = toClient[c]
      BY <2>1, <2>2, WriteQueues
    <2>4. m.type = "CLIENTUPDATE"  BY DEF m
    <2> QED  BY <1>1, <2>3, <2>4 DEF GoodQueues, Alive
  <1> QED  BY <1>2, <1>3

\* After a packet has been read.
LEMMA ReadGood ==
  ASSUME NEW queues, GoodQueues(queues), NEW k \in Conns, queues[k] # <<>>,
         NEW after, after = [queues EXCEPT ![k] = Tail(@)]
  PROVE  GoodQueues(after) /\ Head(queues[k]) \in Elems(queues[k])
  <1>1. IsQueues(queues)  BY DEF GoodQueues
  <1>2. /\ IsQueues(after)
        /\ \A d \in Conns : Elems(after[d]) \subseteq Elems(queues[d])
        /\ \A d \in Conns : queues[d] = <<>> => after[d] = <<>>
        /\ Head(queues[k]) \in Elems(queues[k])
    BY <1>1, ReadQueues
  <1> QED  BY <1>2 DEF GoodQueues

\* A packet never takes the own player away, nor brings a number nobody had.
LEMMA ProcessTable ==
  ASSUME NEW table, NEW m, NEW self, NEW N, DOMAIN table \subseteq N,
         m.type = "CLIENTADD" => m.id \in N
  PROVE  /\ DOMAIN Process(table, m, self) \subseteq N
         /\ self \in DOMAIN table /\ (m.type = "DELETECLIENT" => m.id # self)
              => self \in DOMAIN Process(table, m, self)
  <1>1. CASE m.type = "DELETECLIENT"
    BY <1>1 DEF Process, DeletePlayer
  <1>2. CASE m.type = "CLIENTADD"
    <2>1. Process(table, m, self) = CreatePlayer(table, m.id, m.info)  BY <1>2 DEF Process
    <2>2. \/ CreatePlayer(table, m.id, m.info) = table
          \/ DOMAIN CreatePlayer(table, m.id, m.info) = DOMAIN table \cup {m.id}
      BY DEF CreatePlayer, Enter
    <2> QED  BY <1>2, <2>1, <2>2
  <1>3. CASE m.type = "CLIENTUPDATE"
    BY <1>3 DEF Process, Update
  <1>4. CASE m.type \notin {"DELETECLIENT", "CLIENTADD", "CLIENTUPDATE"}
    <2>1. Process(table, m, self) = table  BY <1>4 DEF Process
    <2> QED  BY <2>1
  <1> QED  BY <1>1, <1>2, <1>3, <1>4

\* What the program of k may do to the state of the session, provided that its own player
\* is in its table.
LEMMA ClientStep ==
  ASSUME IInv, NEW k \in Conns, InSession(k),
         UNCHANGED <<sock, group, ready, clientnum, nextSocket, backlog, wiped, playerId>>,
         DOMAIN stage' = Conns, \A c \in Conns : c # k => stage'[c] = stage[c],
         stage'[k] \notin {"out", "gone", "crashed"},
         DOMAIN player' = Conns, \A c \in Conns : c # k => player'[c] = player[c],
         DOMAIN player'[k] \subseteq 0 .. nextSocket - 1,
         IsQueues(toServer'), \A c \in Conns : c # k => toServer'[c] = toServer[c],
         \A m \in Elems(toServer'[k]) :
           \/ m \in Elems(toServer[k])
           \/ m.type = "PLAYERUPDATE"
           \/ m.type = "PLAYERINFO" /\ m.id \in 0 .. nextSocket - 1,
         GoodQueues(toClient'),
         stage'[k] \in {"PLAYERSETUP", "OTHERPLAYERS", "FINISHED"} /\ k \notin wiped
           => playerId[k] \in DOMAIN player'[k]
  PROVE  IInv'
  <1> USE DEF IInv
  <1>1. Types'  BY DEF Types, GoodQueues
  <1>2. Sockets'  BY DEF Sockets
  <1>3. Numbers'
    <2>1. \A c \in Conns : DOMAIN player'[c] \subseteq 0 .. nextSocket' - 1  BY DEF Numbers
    <2>2. \A c \in Conns : \A m \in Elems(toServer'[c]) :
             m.type = "PLAYERINFO" => m.id \in 0 .. nextSocket' - 1
      BY DEF Numbers
    <2> QED  BY <2>1, <2>2 DEF Numbers, GoodQueues
  <1>4. Backlog'  BY DEF Backlog
  <1>5. Sessions'
    <2>1. \A c \in Conns : InSession(c)' => c \in group' /\ playerId'[c] = sock'[c]
      BY DEF Sessions, InSession
    <2>2. \A c \in Conns : c \notin group' \/ stage'[c] \in {"gone", "crashed"}
             => toClient'[c] = <<>>
      BY DEF Sessions, GoodQueues, InSession
    <2>3. \A c \in Conns : \A m \in Elems(toServer'[c]) :
             m.type = "PLAYERDELETE" => stage'[c] = "gone"
      BY DEF Sessions, InSession
    <2> QED  BY <2>1, <2>2, <2>3 DEF Sessions
  <1>6. NoOwnDelete'  BY DEF NoOwnDelete, GoodQueues
  <1>7. OwnPlayerKept'  BY DEF OwnPlayerKept, Known
  <1> QED  BY <1>1, <1>2, <1>3, <1>4, <1>5, <1>6, <1>7

LEMMA AcceptedStageStep ==
  ASSUME IInv, NEW k \in Conns, AcceptedStage(k), UNCHANGED <<server, history>>
  PROVE  IInv'
  <1>1. stage[k] = "ACCEPTED" /\ InSession(k)  BY DEF AcceptedStage, InSession
  <1>2. stage' = [stage EXCEPT ![k] = IF k = Host THEN "FINISHED" ELSE "PLAYERSETUP"]
        /\ player' = [player EXCEPT ![k] = Enter(@, playerId[k], Info(k))]
        /\ UNCHANGED <<playerId, toServer, toClient>>
    BY DEF AcceptedStage, MakeOwnPlayer
  <1>3. UNCHANGED <<sock, group, ready, clientnum, nextSocket, backlog, wiped>>
    BY DEF server, history
  <1>4. playerId[k] \in 0 .. nextSocket - 1  BY <1>1 DEF IInv, Sessions, Sockets
  <1>5. DOMAIN player'[k] = DOMAIN player[k] \cup {playerId[k]}
    BY <1>2 DEF Enter, IInv, Types
  <1>6. DOMAIN player'[k] \subseteq 0 .. nextSocket - 1  BY <1>4, <1>5 DEF IInv, Numbers
  <1>7. GoodQueues(toClient')  BY <1>2, InvQueues
  <1>8. IsQueues(toServer')  BY <1>2 DEF IInv, Types
  <1>9. /\ DOMAIN stage' = Conns /\ \A c \in Conns : c # k => stage'[c] = stage[c]
        /\ stage'[k] \notin {"out", "gone", "crashed"}
        /\ DOMAIN player' = Conns /\ \A c \in Conns : c # k => player'[c] = player[c]
    BY <1>2 DEF IInv, Types
  <1> QED  BY <1>1, <1>2, <1>3, <1>5, <1>6, <1>7, <1>8, <1>9, ClientStep

LEMMA PlayerSetupStep ==
  ASSUME IInv, NEW k \in Conns, PlayerSetup(k), UNCHANGED <<server, history>>
  PROVE  IInv'
  <1> DEFINE m == [type |-> "PLAYERINFO", id |-> playerId[k], info |-> player[k][playerId[k]]]
  <1>1. stage[k] = "PLAYERSETUP" /\ InSession(k)  BY DEF PlayerSetup, InSession
  <1>2. /\ \/ /\ Known(player[k], playerId[k])
              /\ toServer' = Write(toServer, {k}, <<m>>)
              /\ stage' = [stage EXCEPT ![k] = "OTHERPLAYERS"]
           \/ stage' = [stage EXCEPT ![k] = "faulted"] /\ toServer' = toServer
        /\ UNCHANGED <<playerId, player, toClient>>
    BY DEF PlayerSetup
  <1>3. UNCHANGED <<sock, group, ready, clientnum, nextSocket, backlog, wiped>>
    BY DEF server, history
  <1>4. DOMAIN player'[k] \subseteq 0 .. nextSocket - 1  BY <1>2 DEF IInv, Numbers
  <1>5. GoodQueues(toClient')  BY <1>2, InvQueues
  <1>6. /\ IsQueues(toServer') /\ \A c \in Conns : c # k => toServer'[c] = toServer[c]
        /\ \A x \in Elems(toServer'[k]) :
             \/ x \in Elems(toServer[k])
             \/ x.type = "PLAYERUPDATE"
             \/ x.type = "PLAYERINFO" /\ x.id \in 0 .. nextSocket - 1
    <2>1. IsQueues(toServer)  BY DEF IInv, Types
    <2>2. CASE toServer' = toServer  BY <2>1, <2>2
    <2>3. CASE Known(player[k], playerId[k]) /\ toServer' = Write(toServer, {k}, <<m>>)
      <3>1. IsSeq(<<m>>) /\ Elems(<<m>>) = {m}  BY OneSeq
      <3>2. m.type = "PLAYERINFO" /\ m.id \in 0 .. nextSocket - 1
        BY <2>3 DEF Known, IInv, Numbers
      <3> HIDE DEF m
      <3>3. /\ IsQueues(toServer')
            /\ \A c \in Conns : Elems(toServer'[c]) \subseteq Elems(toServer[c]) \cup Elems(<<m>>)
            /\ \A c \in Conns : c \notin {k} \/ ~Alive(c) => toServer'[c] = toServer[c]
        BY <2>1, <2>3, <3>1, WriteQueues
      <3> QED  BY <3>1, <3>2, <3>3
    <2> QED  BY <1>2, <2>2, <2>3
  <1>7. stage'[k] = "OTHERPLAYERS" => playerId[k] \in DOMAIN player'[k]
    BY <1>2 DEF IInv, Types, Known
  <1>8. /\ DOMAIN stage' = Conns /\ \A c \in Conns : c # k => stage'[c] = stage[c]
        /\ stage'[k] \in {"OTHERPLAYERS", "faulted"}
        /\ DOMAIN player' = Conns /\ \A c \in Conns : c # k => player'[c] = player[c]
    BY <1>2 DEF IInv, Types
  <1> QED  BY <1>1, <1>2, <1>3, <1>4, <1>5, <1>6, <1>7, <1>8, ClientStep

LEMMA OtherPlayersStep ==
  ASSUME IInv, NEW k \in Conns, OtherPlayers(k), UNCHANGED <<server, history>>
  PROVE  IInv'
  <1>1. stage[k] = "OTHERPLAYERS" /\ InSession(k) /\ toClient[k] # <<>>
    BY DEF OtherPlayers, InSession
  <1>2. /\ stage' = [stage EXCEPT ![k] = IF got'[k] = CONNECTIONPACKETS THEN "FINISHED" ELSE @]
        /\ toClient' = [toClient EXCEPT ![k] = Tail(@)]
        /\ UNCHANGED <<playerId, toServer>>
    BY DEF OtherPlayers
  <1>3. UNCHANGED <<sock, group, ready, clientnum, nextSocket, backlog, wiped>>
    BY DEF server, history
  <1>4. GoodQueues(toClient') /\ Head(toClient[k]) \in Elems(toClient[k])
    BY <1>1, <1>2, InvQueues, ReadGood
  <1>5. /\ DOMAIN player' = Conns /\ \A c \in Conns : c # k => player'[c] = player[c]
        /\ DOMAIN player[k] \subseteq DOMAIN player'[k]
        /\ DOMAIN player'[k] \subseteq 0 .. nextSocket - 1
    <2>1. DOMAIN player = Conns /\ DOMAIN player[k] \subseteq 0 .. nextSocket - 1
      BY DEF IInv, Types, Numbers
    <2>2. CASE player' = player  BY <2>1, <2>2
    <2>3. CASE Head(toClient[k]).type = "CLIENTLIST"
      <3>1. PICK added \in SUBSET DOMAIN Head(toClient[k]).list :
               player' = [player EXCEPT ![k] = AddList(@, Head(toClient[k]).list, added)]
        BY <2>3 DEF OtherPlayers
      <3>2. DOMAIN player'[k] = DOMAIN player[k] \cup added
        BY <2>1, <3>1 DEF AddList
      <3>3. added \subseteq 0 .. nextSocket - 1
        BY <1>4, <2>3 DEF IInv, Numbers
      <3> QED  BY <2>1, <3>1, <3>2, <3>3
    <2> QED  BY <2>2, <2>3 DEF OtherPlayers
  <1>6. k \notin wiped => playerId[k] \in DOMAIN player'[k]
    BY <1>1, <1>5 DEF IInv, OwnPlayerKept, Known
  <1>7. IsQueues(toServer')  BY <1>2 DEF IInv, Types
  <1>8. /\ DOMAIN stage' = Conns /\ \A c \in Conns : c # k => stage'[c] = stage[c]
        /\ stage'[k] \in {"OTHERPLAYERS", "FINISHED"}
    BY <1>1, <1>2 DEF IInv, Types
  <1> QED  BY <1>1, <1>2, <1>3, <1>4, <1>5, <1>6, <1>7, <1>8, ClientStep

\* In the game: a joiner reads what is under way, the host what it has just broadcast too.
LEMMA FinishedStep ==
  ASSUME IInv, NEW k \in Conns, NEW coming, GoodQueues(coming), NEW read \in BOOLEAN,
         Finished(k, coming, read),
         UNCHANGED <<sock, group, ready, clientnum, nextSocket, backlog, wiped>>
  PROVE  IInv'
  <1> DEFINE table == IF read THEN Process(player[k], Head(coming[k]), playerId[k])
                      ELSE player[k]
             id == playerId[k]
             m == [type |-> "PLAYERUPDATE", id |-> id, pose |-> pose[k]]
  <1>1. stage[k] = "FINISHED" /\ InSession(k)  BY DEF Finished, InSession
  <1>2. /\ read => coming[k] # <<>>
        /\ toClient' = IF read THEN [coming EXCEPT ![k] = Tail(@)] ELSE coming
        /\ UNCHANGED playerId
    BY DEF Finished
  <1>3. \/ /\ id \notin DOMAIN table
           /\ player' = [player EXCEPT ![k] = table]
           /\ stage' = [stage EXCEPT ![k] = "faulted"] /\ toServer' = toServer
        \/ /\ id \in DOMAIN table
           /\ player' = [player EXCEPT ![k] = [table EXCEPT ![id].pose = pose[k]]]
           /\ stage' = stage
           /\ toServer' = toServer \/ toServer' = Write(toServer, {k}, <<m>>)
    BY DEF Finished, Known
  <1>4. GoodQueues(toClient') /\ (read => Head(coming[k]) \in Elems(coming[k]))
    BY <1>2, ReadGood
  <1>5. DOMAIN player[k] \subseteq 0 .. nextSocket - 1 /\ playerId[k] = sock[k]
        /\ (k \notin wiped => id \in DOMAIN player[k])
    BY <1>1 DEF IInv, Numbers, Sessions, OwnPlayerKept, Known
  <1>6. DOMAIN table \subseteq 0 .. nextSocket - 1
        /\ (id \in DOMAIN player[k] => id \in DOMAIN table)
    <2>1. CASE ~read  BY <1>5, <2>1
    <2>2. CASE read
      <3>1. Head(coming[k]).type = "CLIENTADD" => Head(coming[k]).id \in 0 .. nextSocket - 1
        BY <1>4, <2>2 DEF GoodQueues
      <3>2. Head(coming[k]).type = "DELETECLIENT" => Head(coming[k]).id # playerId[k]
        BY <1>4, <1>5, <2>2 DEF GoodQueues
      <3> DEFINE h == Head(coming[k])
                 N == 0 .. nextSocket - 1
      <3>3. DOMAIN player[k] \subseteq N /\ (h.type = "CLIENTADD" => h.id \in N)
            /\ (h.type = "DELETECLIENT" => h.id # playerId[k])
        BY <1>5, <3>1, <3>2
      <3> HIDE DEF h, N
      <3>4. /\ DOMAIN Process(player[k], h, playerId[k]) \subseteq N
            /\ playerId[k] \in DOMAIN player[k]
                 => playerId[k] \in DOMAIN Process(player[k], h, playerId[k])
        BY <3>3, ProcessTable
      <3> QED  BY <2>2, <3>4 DEF h, N
    <2> QED  BY <2>1, <2>2
  <1> HIDE DEF table
  <1>7. DOMAIN player' = Conns /\ (\A c \in Conns : c # k => player'[c] = player[c])
        /\ DOMAIN player'[k] = DOMAIN table
    BY <1>3 DEF IInv, Types
  <1>8. /\ IsQueues(toServer') /\ \A c \in Conns : c # k => toServer'[c] = toServer[c]
        /\ \A x \in Elems(toServer'[k]) : x \in Elems(toServer[k]) \/ x.type = "PLAYERUPDATE"
    <2>1. IsQueues(toServer)  BY DEF IInv, Types
    <2>2. CASE toServer' = toServer  BY <2>1, <2>2
    <2>3. CASE toServer' = Write(toServer, {k}, <<m>>)
      <3>1. IsSeq(<<m>>) /\ Elems(<<m>>) = {m} /\ m.type = "PLAYERUPDATE"  BY OneSeq
      <3> HIDE DEF m
      <3>2. /\ IsQueues(toServer')
            /\ \A c \in Conns : Elems(toServer'[c]) \subseteq Elems(toServer[c]) \cup Elems(<<m>>)
            /\ \A c \in Conns : c \notin {k} \/ ~Alive(c) => toServer'[c] = toServer[c]
        BY <2>1, <2>3, <3>1, WriteQueues
      <3> QED  BY <3>1, <3>2
    <2> QED  BY <1>3, <2>2, <2>3
  <1>9. /\ DOMAIN stage' = Conns /\ \A c \in Conns : c # k => stage'[c] = stage[c]
        /\ stage'[k] \in {"FINISHED", "faulted"}
    BY <1>1, <1>3 DEF IInv, Types
  <1>10. k \notin wiped => playerId[k] \in DOMAIN player'[k]  BY <1>5, <1>6, <1>7
  <1>11. DOMAIN player'[k] \subseteq 0 .. nextSocket - 1  BY <1>6, <1>7
  <1> QED  BY <1>1, <1>2, <1>4, <1>7, <1>8, <1>9, <1>10, <1>11, ClientStep

\* Only what is under way to the programs changes.
LEMMA QueuesStep ==
  ASSUME IInv, GoodQueues(toClient'),
         UNCHANGED <<stage, playerId, player, sock, toServer, group, ready, clientnum,
                     nextSocket, backlog, wiped>>
  PROVE  IInv'
  <1> USE DEF IInv
  <1>1. Types'  BY DEF Types, GoodQueues, IsQueues
  <1>2. Sockets' /\ Backlog'  BY DEF Sockets, Backlog
  <1>3. Numbers'  BY DEF Numbers, GoodQueues
  <1>4. Sessions'  BY DEF Sessions, InSession, GoodQueues
  <1>5. NoOwnDelete'  BY DEF NoOwnDelete, GoodQueues
  <1>6. OwnPlayerKept'  BY DEF OwnPlayerKept, Known
  <1> QED  BY <1>1, <1>2, <1>3, <1>4, <1>5, <1>6

LEMMA HostAcceptedStep ==
  ASSUME IInv, HostAccepted(Broadcast),
         UNCHANGED <<sock, group, ready, clientnum, nextSocket, backlog, wiped>>
  PROVE  IInv'
  <1> USE DEF IInv
  <1>1. GoodQueues(Broadcast) /\ Host \in Conns  BY BroadcastQueues DEF Conns
  <1>2. /\ stage[Host] = "waiting" /\ Broadcast[Host] # <<>>
        /\ Head(Broadcast[Host]).type = "CONNECTIONACCEPT"
        /\ playerId' = [playerId EXCEPT ![Host] = Head(Broadcast[Host]).id]
        /\ toClient' = [Broadcast EXCEPT ![Host] = Tail(@)]
        /\ UNCHANGED toServer
    BY DEF HostAccepted, Accepted
  <1>3. /\ player' = [player EXCEPT ![Host] = Enter(@, playerId'[Host], Info(Host))]
        /\ stage' = [stage EXCEPT ![Host] = "FINISHED"]
    BY DEF HostAccepted, MakeOwnPlayer
  <1>4. GoodQueues(toClient') /\ Head(Broadcast[Host]) \in Elems(Broadcast[Host])
    BY <1>1, <1>2, ReadGood
  <1>5. Head(Broadcast[Host]).id = sock[Host] /\ Host \in group
    BY <1>1, <1>2, <1>4 DEF GoodQueues
  <1>6. playerId'[Host] = sock[Host] /\ sock[Host] \in 0 .. nextSocket - 1
    BY <1>1, <1>2, <1>5 DEF Sockets, Types
  <1>7. /\ DOMAIN player'[Host] = DOMAIN player[Host] \cup {sock[Host]}
        /\ DOMAIN player' = Conns /\ \A c \in Conns : c # Host => player'[c] = player[c]
    BY <1>1, <1>3, <1>6 DEF Types, Enter
  <1>8. Types'  BY <1>2, <1>3, <1>4, <1>7 DEF Types, GoodQueues, IsQueues
  <1>9. Sockets' /\ Backlog'  BY <1>3 DEF Sockets, Backlog, Types
  <1>10. \A c \in Conns : DOMAIN player'[c] \subseteq 0 .. nextSocket' - 1
    BY <1>1, <1>6, <1>7 DEF Numbers
  <1>11. Numbers'  BY <1>2, <1>4, <1>10 DEF Numbers, GoodQueues
  <1>12. Sessions'
    <2>1. \A c \in Conns : InSession(c)' => c \in group' /\ playerId'[c] = sock'[c]
      BY <1>2, <1>3, <1>5, <1>6 DEF Sessions, InSession, Types
    <2>2. \A c \in Conns : \A m \in Elems(toServer'[c]) :
             m.type = "PLAYERDELETE" => stage'[c] = "gone"
      BY <1>2, <1>3 DEF Sessions, Types
    <2>3. \A c \in Conns : c \notin group' \/ stage'[c] \in {"gone", "crashed"}
             => toClient'[c] = <<>>
      BY <1>3, <1>4, <1>5 DEF Types, GoodQueues
    <2> QED  BY <2>1, <2>2, <2>3 DEF Sessions
  <1>13. NoOwnDelete'  BY <1>4 DEF NoOwnDelete, GoodQueues
  <1>14. OwnPlayerKept'
    BY <1>2, <1>3, <1>6, <1>7 DEF OwnPlayerKept, Known, Types
  <1> QED  BY <1>8, <1>9, <1>11, <1>12, <1>13, <1>14

LEMMA HostCycleStep ==
  ASSUME IInv, HostCycle
  PROVE  IInv'
  <1>1. UNCHANGED <<sock, group, ready, clientnum, nextSocket, backlog, wiped>>
    BY DEF HostCycle, history
  <1>2. GoodQueues(Broadcast) /\ Host \in Conns  BY BroadcastQueues DEF Conns
  <1>3. CASE HostAccepted(Broadcast)  BY <1>1, <1>3, HostAcceptedStep
  <1>4. CASE \E read \in BOOLEAN : Finished(Host, Broadcast, read)
    <2>1. PICK read \in BOOLEAN : Finished(Host, Broadcast, read)  BY <1>4
    <2> QED  BY <1>1, <1>2, <2>1, FinishedStep
  <1>5. CASE toClient' = Broadcast /\ UNCHANGED <<client, toServer>>
    BY <1>1, <1>2, <1>5, QueuesStep DEF client
  <1> QED  BY <1>3, <1>4, <1>5 DEF HostCycle

------------------------------------------------------------------------------
(* The server part *)

LEMMA ConnsFinite == IsFiniteSet(Conns) /\ \A S \in SUBSET Conns : IsFiniteSet(S)
  BY NetAssumption, FS_AddElement, FS_Subset DEF Conns

\* A number is given to one connection at a time, and there is always one.
LEMMA NewSocketFree ==
  ASSUME IInv, NEW n, NewSocket(n), clientnum < MAXPLAYERS - 1
  PROVE  /\ \A c \in group : sock[c] # n
         /\ n \in Nat /\ n <= nextSocket
         /\ n = nextSocket => nextSocket + 1 < MAXPLAYERS
  <1> DEFINE used == {sock[c] : c \in group}
             f == [c \in group |-> sock[c]]
  <1>1. Sockets /\ group \subseteq Conns  BY DEF IInv, Types
  <1>2. IsFiniteSet(group) /\ Cardinality(group) = clientnum /\ MAXPLAYERS \in Nat
    BY <1>1, ConnsFinite, NetAssumption DEF Sockets
  <1>3. f \in Surjection(group, used)  BY DEF Surjection
  <1>4. Cardinality(used) <= Cardinality(group)  BY <1>2, <1>3, FS_Surjection
  <1>5. used \subseteq 0 .. nextSocket - 1  BY <1>1 DEF Sockets
  <1>6. CASE Cardinality(used) = nextSocket
    <2>1. n = nextSocket /\ nextSocket \in Nat  BY <1>1, <1>6 DEF NewSocket, Sockets
    <2>2. clientnum \in Nat  BY <1>2, FS_CardinalityType
    <2> QED  BY <1>2, <1>4, <1>5, <1>6, <2>1, <2>2
  <1>7. CASE Cardinality(used) # nextSocket
    <2>1. n \in (0 .. nextSocket - 1) \ used  BY <1>7 DEF NewSocket
    <2> QED  BY <1>1, <2>1 DEF Sockets
  <1> QED  BY <1>6, <1>7

\* Begin accepts the connection at the head of the backlog.
LEMMA AcceptStep ==
  ASSUME IInv, NEW k \in {Head(backlog)}, backlog # <<>>, NEW n, NewSocket(n),
         clientnum < MAXPLAYERS - 1,
         backlog' = Tail(backlog), group' = group \cup {k},
         sock' = [sock EXCEPT ![k] = n],
         nextSocket' = IF n = nextSocket THEN n + 1 ELSE nextSocket,
         clientnum' = clientnum + 1,
         toClient' = Write(toClient, {k}, <<[type |-> "CONNECTIONACCEPT", id |-> n]>>),
         ready' \subseteq group',
         UNCHANGED <<stage, playerId, player, toServer, wiped>>
  PROVE  IInv'
  <1> DEFINE m == [type |-> "CONNECTIONACCEPT", id |-> n]
  <1>1. IsSeq(backlog) /\ Elems(backlog) \subseteq Conns /\ group \subseteq Conns
    BY DEF IInv, Types
  <1>2. IsSeq(backlog') /\ Elems(backlog') \subseteq Elems(backlog) /\ k \in Elems(backlog)
    BY <1>1, TailSeq
  <1>3. k \in Conns /\ k \notin group  BY <1>1, <1>2 DEF IInv, Backlog
  <1>4. /\ k \notin Elems(backlog')
        /\ \A i, j \in 1 .. Len(backlog') : backlog'[i] = backlog'[j] => i = j
    <2>1. PICK S : backlog \in Seq(S)  BY <1>1 DEF IsSeq
    <2>2. /\ Len(backlog) \in Nat \ {0} /\ Len(backlog') = Len(backlog) - 1
          /\ k = backlog[1]
          /\ \A i \in 1 .. Len(backlog') : backlog'[i] = backlog[i + 1]
      BY <2>1
    <2>3. \A i, j \in 1 .. Len(backlog) : backlog[i] = backlog[j] => i = j
      BY DEF IInv, Backlog
    <2> QED  BY <2>2, <2>3 DEF Elems
  <1>5. /\ \A c \in group : sock[c] # n
        /\ n \in Nat /\ n <= nextSocket
        /\ n = nextSocket => nextSocket + 1 < MAXPLAYERS
    BY NewSocketFree
  <1>6. /\ nextSocket \in Nat /\ nextSocket < MAXPLAYERS /\ MAXPLAYERS \in Nat
        /\ nextSocket' \in Nat /\ nextSocket' < MAXPLAYERS /\ n \in 0 .. nextSocket' - 1
        /\ 0 .. nextSocket - 1 \subseteq 0 .. nextSocket' - 1
    BY <1>5, NetAssumption DEF IInv, Sockets
  <1>7. /\ \A c \in Conns : c # k => sock'[c] = sock[c]
        /\ sock'[k] = n /\ DOMAIN sock' = Conns
    BY <1>3 DEF IInv, Types
  <1>8. /\ IsQueues(toClient')
        /\ \A c \in Conns : c # k \/ ~Alive(c) => toClient'[c] = toClient[c]
        /\ Elems(toClient'[k]) \subseteq {m}
    <2>1. IsQueues(toClient) /\ IsSeq(<<m>>) /\ Elems(<<m>>) = {m}
      BY OneSeq DEF IInv, Types
    <2>2. Elems(toClient[k]) = {}  BY <1>3, EmptySeq DEF IInv, Sessions
    <2> HIDE DEF m
    <2>3. /\ IsQueues(toClient')
          /\ \A c \in Conns : Elems(toClient'[c]) \subseteq Elems(toClient[c]) \cup Elems(<<m>>)
          /\ \A c \in Conns : c \notin {k} \/ ~Alive(c) => toClient'[c] = toClient[c]
      <3>1. toClient' = Write(toClient, {k}, <<m>>)  BY DEF m
      <3> DEFINE q == Write(toClient, {k}, <<m>>)
      <3>2. /\ IsQueues(q)
            /\ \A c \in Conns : Elems(q[c]) \subseteq Elems(toClient[c]) \cup Elems(<<m>>)
            /\ \A c \in Conns : c \notin {k} \/ ~Alive(c) => q[c] = toClient[c]
        BY <2>1, WriteQueues
      <3> QED  BY <3>1, <3>2
    <2> QED  BY <1>3, <2>1, <2>2, <2>3
  <1>9. m.type = "CONNECTIONACCEPT" /\ m.id = n  OBVIOUS
  <1> HIDE DEF m
  <1>10. Types'
    BY <1>1, <1>2, <1>3, <1>7, <1>8 DEF IInv, Types, IsQueues
  <1>11. Sockets'
    <2>1. clientnum' = Cardinality(group')
      BY <1>1, <1>3, ConnsFinite, FS_AddElement DEF IInv, Sockets
    <2>2. clientnum' < MAXPLAYERS
      <3>1. clientnum \in Nat
        BY <1>1, ConnsFinite, FS_CardinalityType DEF IInv, Sockets
      <3> QED  BY <1>6, <3>1
    <2>3. \A c \in group' : sock'[c] \in 0 .. nextSocket' - 1
      BY <1>1, <1>3, <1>6, <1>7 DEF IInv, Sockets
    <2>4. \A c, d \in group' : sock'[c] = sock'[d] => c = d
      BY <1>1, <1>3, <1>5, <1>7 DEF IInv, Sockets
    <2> QED  BY <1>6, <2>1, <2>2, <2>3, <2>4 DEF Sockets
  <1>12. Numbers'
    <2>1. \A c \in Conns : DOMAIN player'[c] \subseteq 0 .. nextSocket' - 1
      BY <1>6 DEF IInv, Numbers
    <2>2. \A c \in Conns : \A x \in Elems(toClient'[c]) : x \in Elems(toClient[c]) \/ x = m
      BY <1>8
    <2>3. \A c \in Conns : \A x \in Elems(toServer'[c]) :
             x.type = "PLAYERINFO" => x.id \in 0 .. nextSocket' - 1
      BY <1>6 DEF IInv, Numbers
    <2>4. \A c \in Conns : \A x \in Elems(toClient'[c]) :
            /\ x.type = "CLIENTADD" => x.id \in 0 .. nextSocket' - 1
            /\ x.type = "CLIENTLIST" => DOMAIN x.list \subseteq 0 .. nextSocket' - 1
      BY <1>6, <1>9, <2>2 DEF IInv, Numbers
    <2> QED  BY <2>1, <2>3, <2>4 DEF Numbers
  <1>13. Backlog'  BY <1>2, <1>3, <1>4 DEF IInv, Backlog
  <1>14. Sessions'
    <2>1. \A c \in Conns : InSession(c)' => c \in group' /\ playerId'[c] = sock'[c]
      BY <1>3, <1>7 DEF IInv, Sessions, InSession
    <2>2. \A c \in Conns : c \notin group' \/ stage'[c] \in {"gone", "crashed"}
             => toClient'[c] = <<>>
      <3> SUFFICES ASSUME NEW c \in Conns, c \notin group' \/ stage'[c] \in {"gone", "crashed"}
                   PROVE  toClient'[c] = <<>>
        OBVIOUS
      <3>1. toClient'[c] = toClient[c]  BY <1>8 DEF Alive
      <3> QED  BY <3>1 DEF IInv, Sessions
    <2> QED  BY <2>1, <2>2 DEF IInv, Sessions
  <1>15. NoOwnDelete'
    <2> SUFFICES ASSUME NEW c \in Conns, NEW x \in Elems(toClient'[c])
                 PROVE  /\ x.type = "CONNECTIONACCEPT" => x.id = sock'[c]
                        /\ x.type = "DELETECLIENT" => x.id # sock'[c]
      BY DEF NoOwnDelete
    <2>1. CASE c = k  BY <1>7, <1>8, <1>9, <2>1
    <2>2. CASE c # k
      <3>1. x \in Elems(toClient[c]) /\ sock'[c] = sock[c]  BY <1>7, <1>8, <2>2
      <3> QED  BY <3>1 DEF IInv, NoOwnDelete
    <2> QED  BY <2>1, <2>2
  <1>16. OwnPlayerKept'  BY DEF IInv, OwnPlayerKept, Known
  <1> QED  BY <1>10, <1>11, <1>12, <1>13, <1>14, <1>15, <1>16 DEF IInv

LEMMA ReadyStep ==
  ASSUME IInv, ready' \subseteq group,
         UNCHANGED <<stage, playerId, player, sock, toServer, toClient, group, clientnum,
                     nextSocket, backlog, wiped>>
  PROVE  IInv'
  BY DEF IInv, Types, IsQueues, Sockets, Numbers, Backlog, Sessions, InSession, NoOwnDelete,
         OwnPlayerKept, Known

LEMMA BeginStep ==
  ASSUME IInv, Begin
  PROVE  IInv'
  <1>1. ready' \subseteq group' /\ UNCHANGED <<stage, playerId, player, toServer, wiped>>
    BY DEF Begin, client, history
  <1>2. CASE UNCHANGED <<backlog, group, sock, nextSocket, clientnum, toClient>>
    BY <1>1, <1>2, ReadyStep
  <1>3. CASE /\ clientnum < MAXPLAYERS - 1 /\ backlog # <<>>
             /\ \E c \in {Head(backlog)}, n \in 0 .. nextSocket :
                  /\ NewSocket(n)
                  /\ backlog' = Tail(backlog) /\ group' = group \cup {c}
                  /\ sock' = [sock EXCEPT ![c] = n]
                  /\ nextSocket' = IF n = nextSocket THEN n + 1 ELSE nextSocket
                  /\ clientnum' = clientnum + 1
                  /\ toClient' = Write(toClient, {c}, <<[type |-> "CONNECTIONACCEPT", id |-> n]>>)
    BY <1>1, <1>3, AcceptStep
  <1> QED  BY <1>2, <1>3 DEF Begin

\* A packet read from a connection.
LEMMA ReadFacts ==
  ASSUME IInv, NEW k \in Conns, NEW type, Read(k, type)
  PROVE  /\ k \in group /\ ready' = ready \ {k} /\ ready \subseteq group
         /\ toServer[k] # <<>> /\ Head(toServer[k]).type = type
         /\ Head(toServer[k]) \in Elems(toServer[k])
         /\ IsQueues(toServer')
         /\ \A d \in Conns : Elems(toServer'[d]) \subseteq Elems(toServer[d])
         /\ UNCHANGED <<backlog, nextSocket>>
  <1>1. IsQueues(toServer) /\ ready \subseteq group  BY DEF IInv, Types
  <1>2. toServer[k] # <<>> /\ toServer' = [toServer EXCEPT ![k] = Tail(@)]  BY DEF Read
  <1>3. /\ IsQueues(toServer')
        /\ \A d \in Conns : Elems(toServer'[d]) \subseteq Elems(toServer[d])
        /\ Head(toServer[k]) \in Elems(toServer[k])
    BY <1>1, <1>2, ReadQueues
  <1> QED  BY <1>1, <1>2, <1>3 DEF Read

LEMMA ReadPlayerUpdateStep ==
  ASSUME IInv, NEW k \in Conns, ReadPlayerUpdate(k)
  PROVE  IInv'
  <1> USE DEF IInv
  <1>1. /\ k \in group /\ ready' = ready \ {k} /\ ready \subseteq group
        /\ IsQueues(toServer')
        /\ \A d \in Conns : Elems(toServer'[d]) \subseteq Elems(toServer[d])
        /\ UNCHANGED <<backlog, nextSocket>>
    BY ReadFacts DEF ReadPlayerUpdate
  <1>2. UNCHANGED <<stage, playerId, player, sock, toClient, group, clientnum, wiped>>
    BY DEF ReadPlayerUpdate, client, history
  <1>3. Types'  BY <1>1, <1>2 DEF Types, IsQueues
  <1>4. Sockets' /\ Numbers' /\ Backlog'  BY <1>1, <1>2 DEF Sockets, Numbers, Backlog
  <1>5. Sessions'  BY <1>1, <1>2 DEF Sessions, InSession
  <1>6. NoOwnDelete' /\ OwnPlayerKept'  BY <1>2 DEF NoOwnDelete, OwnPlayerKept, Known
  <1> QED  BY <1>3, <1>4, <1>5, <1>6

LEMMA ReadPlayerDeleteStep ==
  ASSUME IInv, NEW k \in Conns, ReadPlayerDelete(k)
  PROVE  IInv'
  <1> USE DEF IInv
  <1> DEFINE m == [type |-> "DELETECLIENT", id |-> sock[k]]
  <1>1. /\ k \in group /\ ready' = ready \ {k} /\ ready \subseteq group
        /\ toServer[k] # <<>> /\ Head(toServer[k]).type = "PLAYERDELETE"
        /\ Head(toServer[k]) \in Elems(toServer[k])
        /\ IsQueues(toServer')
        /\ \A d \in Conns : Elems(toServer'[d]) \subseteq Elems(toServer[d])
        /\ UNCHANGED <<backlog, nextSocket>>
    BY ReadFacts DEF ReadPlayerDelete
  <1>2. /\ group' = group \ {k} /\ sock' = [sock EXCEPT ![k] = NoSocket]
        /\ clientnum' = clientnum - 1
        /\ toClient' = Write(toClient, group', <<m>>)
        /\ UNCHANGED <<stage, playerId, player, wiped>>
    BY DEF ReadPlayerDelete, client
  <1>3. stage[k] = "gone" /\ toClient[k] = <<>>  BY <1>1 DEF Sessions
  <1>4. /\ DOMAIN sock' = Conns /\ \A c \in Conns : c # k => sock'[c] = sock[c]
    BY <1>2 DEF Types
  <1>5. m.type = "DELETECLIENT" /\ m.id = sock[k] /\ IsSeq(<<m>>) /\ Elems(<<m>>) = {m}
    BY OneSeq
  <1> HIDE DEF m
  <1>6. /\ IsQueues(toClient')
        /\ \A c \in Conns : Elems(toClient'[c]) \subseteq Elems(toClient[c]) \cup {m}
        /\ \A c \in Conns : c \notin group' \/ ~Alive(c) => toClient'[c] = toClient[c]
    <2> DEFINE q == Write(toClient, group', <<m>>)
    <2>1. IsQueues(toClient)  BY DEF Types
    <2>2. /\ IsQueues(q)
          /\ \A c \in Conns : Elems(q[c]) \subseteq Elems(toClient[c]) \cup Elems(<<m>>)
          /\ \A c \in Conns : c \notin group' \/ ~Alive(c) => q[c] = toClient[c]
      BY <1>5, <2>1, WriteQueues
    <2> QED  BY <1>2, <1>5, <2>2
  <1>7. Types'  BY <1>1, <1>2, <1>4, <1>6 DEF Types, IsQueues
  <1>8. Sockets'
    <2>1. IsFiniteSet(group)  BY ConnsFinite DEF Types
    <2>2. Cardinality(group') = Cardinality(group) - 1 /\ Cardinality(group) \in Nat
      BY <1>1, <1>2, <2>1, FS_RemoveElement, FS_CardinalityType
    <2>3. clientnum' = Cardinality(group') /\ clientnum' < MAXPLAYERS
      BY <1>2, <2>2, NetAssumption DEF Sockets
    <2>4. \A c \in group' : c \in group /\ sock'[c] = sock[c]  BY <1>2, <1>4 DEF Types
    <2> QED  BY <1>1, <2>3, <2>4 DEF Sockets
  <1>9. Numbers'
    <2>1. \A c \in Conns : \A x \in Elems(toClient'[c]) :
            /\ x.type = "CLIENTADD" => x.id \in 0 .. nextSocket' - 1
            /\ x.type = "CLIENTLIST" => DOMAIN x.list \subseteq 0 .. nextSocket' - 1
      BY <1>1, <1>5, <1>6 DEF Numbers
    <2> QED  BY <1>1, <1>2, <2>1 DEF Numbers
  <1>10. Backlog'  BY <1>1, <1>2 DEF Backlog
  <1>11. Sessions'
    <2>1. \A c \in Conns : InSession(c)' => c \in group' /\ playerId'[c] = sock'[c]
      BY <1>2, <1>3, <1>4 DEF Sessions, InSession
    <2>2. \A c \in Conns : c \notin group' \/ stage'[c] \in {"gone", "crashed"}
             => toClient'[c] = <<>>
      BY <1>2, <1>3, <1>6 DEF Sessions, Alive
    <2>3. \A c \in Conns : \A x \in Elems(toServer'[c]) :
             x.type = "PLAYERDELETE" => stage'[c] = "gone"
      BY <1>1, <1>2 DEF Sessions
    <2> QED  BY <2>1, <2>2, <2>3 DEF Sessions
  <1>12. NoOwnDelete'
    <2> SUFFICES ASSUME NEW c \in Conns, NEW x \in Elems(toClient'[c])
                 PROVE  /\ x.type = "CONNECTIONACCEPT" => x.id = sock'[c]
                        /\ x.type = "DELETECLIENT" => x.id # sock'[c]
      BY DEF NoOwnDelete
    <2>1. c # k  BY <1>2, <1>3, <1>6, EmptySeq
    <2>2. CASE x \in Elems(toClient[c])  BY <1>4, <2>1, <2>2 DEF NoOwnDelete
    <2>3. CASE x \notin Elems(toClient[c])
      <3>1. x = m /\ c \in group  BY <1>2, <1>6, <2>3
      <3>2. sock[c] # sock[k]  BY <1>1, <2>1, <3>1 DEF Sockets
      <3> QED  BY <1>4, <1>5, <2>1, <3>1, <3>2
    <2> QED  BY <2>2, <2>3
  <1>13. OwnPlayerKept'  BY <1>2 DEF OwnPlayerKept, Known
  <1> QED  BY <1>7, <1>8, <1>9, <1>10, <1>11, <1>12, <1>13

LEMMA ReadPlayerInfoStep ==
  ASSUME IInv, NEW k \in Conns, ReadPlayerInfo(k)
  PROVE  IInv'
  <1> USE DEF IInv
  <1> DEFINE h == Head(toServer[k])
             table == CreatePlayer(player[Host], h.id, h.info)
             add == IF Known(table, h.id)
                    THEN <<[type |-> "CLIENTADD", id |-> h.id, info |-> table[h.id]]>> ELSE <<>>
  <1>1. /\ k \in group /\ ready' = ready \ {k} /\ ready \subseteq group
        /\ h.type = "PLAYERINFO" /\ h \in Elems(toServer[k])
        /\ IsQueues(toServer')
        /\ \A d \in Conns : Elems(toServer'[d]) \subseteq Elems(toServer[d])
        /\ UNCHANGED <<backlog, nextSocket>>
    BY ReadFacts DEF ReadPlayerInfo
  <1>2. /\ player' = [player EXCEPT ![Host] = table]
        /\ toClient' = Write(Write(toClient, {k}, WorldInfo(table)), group, add)
        /\ UNCHANGED <<stage, playerId, sock, group, clientnum, wiped>>
    BY DEF ReadPlayerInfo
  <1>3. h.id \in 0 .. nextSocket - 1  BY <1>1 DEF Numbers
  <1>4. Host \in Conns /\ DOMAIN player[Host] \subseteq DOMAIN table
        /\ DOMAIN table \subseteq 0 .. nextSocket - 1
    <2>1. table = player[Host] \/ DOMAIN table = DOMAIN player[Host] \cup {h.id}
      BY DEF CreatePlayer, Enter
    <2>2. Host \in Conns  BY DEF Conns
    <2> QED  BY <1>3, <2>1, <2>2 DEF Numbers
  <1>5. /\ DOMAIN player' = Conns
        /\ \A c \in Conns : /\ DOMAIN player[c] \subseteq DOMAIN player'[c]
                            /\ DOMAIN player'[c] \subseteq 0 .. nextSocket - 1
    BY <1>2, <1>4 DEF Types, Numbers
  <1>6. /\ IsSeq(add)
        /\ \A x \in Elems(add) : x.type = "CLIENTADD" /\ x.id \in 0 .. nextSocket - 1
    <2>1. CASE add = <<>>  BY <2>1, EmptySeq
    <2>2. CASE Known(table, h.id)
      <3> DEFINE m == [type |-> "CLIENTADD", id |-> h.id, info |-> table[h.id]]
      <3>1. add = <<m>> /\ m.type = "CLIENTADD" /\ m.id = h.id  BY <2>2
      <3> HIDE DEF m, add
      <3> QED  BY <1>3, <3>1, OneSeq
    <2> QED  BY <2>1, <2>2
  <1>7. /\ IsSeq(WorldInfo(table))
        /\ \A x \in Elems(WorldInfo(table)) :
             \/ x.type = "CLIENTLIST" /\ x.list = table
             \/ x.type \in {"WORLDLIST1", "WORLDLIST2", "DONECONNECT"}
    <2> DEFINE w == WorldInfo(table)
               m == [type |-> "CLIENTLIST", list |-> table]
    <2> HIDE DEF table
    <2>1. /\ w \in Seq({m, Msg("WORLDLIST1"), Msg("WORLDLIST2"), Msg("DONECONNECT")})
          /\ m.type = "CLIENTLIST" /\ m.list = table
      BY DEF WorldInfo
    <2> HIDE DEF w, m
    <2>2. \A i \in 1 .. Len(w) : w[i] \in {m, Msg("WORLDLIST1"), Msg("WORLDLIST2"), Msg("DONECONNECT")}
      BY <2>1
    <2>3. IsSeq(w) /\ Elems(w) \subseteq {m, Msg("WORLDLIST1"), Msg("WORLDLIST2"), Msg("DONECONNECT")}
      BY <2>1, <2>2 DEF IsSeq, Elems
    <2> QED  BY <2>1, <2>3 DEF w, Msg
  <1> HIDE DEF add, table, h
  <1>8. /\ IsQueues(toClient')
        /\ \A c \in Conns : \A x \in Elems(toClient'[c]) :
             x \in Elems(toClient[c]) \/ x \in Elems(add) \/ x \in Elems(WorldInfo(table))
        /\ \A c \in Conns : c \notin group \/ ~Alive(c) => toClient'[c] = toClient[c]
    <2> DEFINE p == Write(toClient, {k}, WorldInfo(table))
               q == Write(p, group, add)
    <2>1. IsQueues(toClient)  BY DEF Types
    <2>2. /\ IsQueues(p)
          /\ \A c \in Conns : Elems(p[c]) \subseteq Elems(toClient[c]) \cup Elems(WorldInfo(table))
          /\ \A c \in Conns : c \notin {k} \/ ~Alive(c) => p[c] = toClient[c]
      BY <1>7, <2>1, WriteQueues
    <2> HIDE DEF p
    <2>3. /\ IsQueues(q)
          /\ \A c \in Conns : Elems(q[c]) \subseteq Elems(p[c]) \cup Elems(add)
          /\ \A c \in Conns : c \notin group \/ ~Alive(c) => q[c] = p[c]
      BY <1>6, <2>2, WriteQueues
    <2>4. toClient' = q  BY <1>2 DEF p
    <2> HIDE DEF q
    <2> QED  BY <1>1, <2>2, <2>3, <2>4
  <1>9. \A c \in Conns : \A x \in Elems(toClient'[c]) :
          \/ x \in Elems(toClient[c])
          \/ x.type = "CLIENTADD" /\ x.id \in 0 .. nextSocket - 1
          \/ x.type = "CLIENTLIST" /\ DOMAIN x.list \subseteq 0 .. nextSocket - 1
          \/ x.type \in {"WORLDLIST1", "WORLDLIST2", "DONECONNECT"}
    BY <1>4, <1>6, <1>7, <1>8
  <1>10. Types'  BY <1>1, <1>2, <1>5, <1>8 DEF Types, IsQueues
  <1>11. Sockets' /\ Backlog'  BY <1>1, <1>2 DEF Sockets, Backlog
  <1>12. Numbers'
    <2>1. \A c \in Conns : \A x \in Elems(toClient'[c]) :
            /\ x.type = "CLIENTADD" => x.id \in 0 .. nextSocket' - 1
            /\ x.type = "CLIENTLIST" => DOMAIN x.list \subseteq 0 .. nextSocket' - 1
      BY <1>1, <1>9 DEF Numbers
    <2>2. \A c \in Conns : \A x \in Elems(toServer'[c]) :
             x.type = "PLAYERINFO" => x.id \in 0 .. nextSocket' - 1
      BY <1>1 DEF Numbers
    <2> QED  BY <1>1, <1>5, <2>1, <2>2 DEF Numbers
  <1>13. Sessions'
    <2>1. \A c \in Conns : InSession(c)' => c \in group' /\ playerId'[c] = sock'[c]
      BY <1>2 DEF Sessions, InSession
    <2>2. \A c \in Conns : c \notin group' \/ stage'[c] \in {"gone", "crashed"}
             => toClient'[c] = <<>>
      BY <1>2, <1>8 DEF Sessions, Alive
    <2>3. \A c \in Conns : \A x \in Elems(toServer'[c]) :
             x.type = "PLAYERDELETE" => stage'[c] = "gone"
      BY <1>1, <1>2 DEF Sessions
    <2> QED  BY <2>1, <2>2, <2>3 DEF Sessions
  <1>14. NoOwnDelete'  BY <1>2, <1>9 DEF NoOwnDelete
  <1>15. OwnPlayerKept'  BY <1>2, <1>5 DEF OwnPlayerKept, Known
  <1> QED  BY <1>10, <1>11, <1>12, <1>13, <1>14, <1>15

------------------------------------------------------------------------------
(* The theorems *)

LEMMA NextIInv == IInv /\ [Next]_vars => IInv'
  <1> SUFFICES ASSUME IInv, [Next]_vars PROVE IInv'  OBVIOUS
  <1>1. CASE UNCHANGED vars
    BY <1>1, OtherStep DEF vars, client, server, history
  <1>2. CASE Begin  BY <1>2, BeginStep
  <1>3. CASE AcceptError
    BY <1>3, OtherStep DEF AcceptError, client, history
  <1>4. CASE HostCycle  BY <1>4, HostCycleStep
  <1>5. ASSUME NEW k \in Conns,
               ReadPlayerInfo(k) \/ ReadPlayerUpdate(k) \/ ReadPlayerDelete(k) \/ ReadEnd(k)
        PROVE  IInv'
    <2>1. CASE ReadEnd(k)
      <3>1. ready' \subseteq group  BY <2>1 DEF ReadEnd, IInv, Types
      <3> QED  BY <2>1, <3>1, ReadyStep DEF ReadEnd, client, history
    <2> QED
      BY <1>5, <2>1, ReadPlayerInfoStep, ReadPlayerUpdateStep, ReadPlayerDeleteStep
  <1>6. ASSUME NEW k \in Conns, JoinerCycle(k)
        PROVE  IInv'
    <2>1. UNCHANGED <<server, history>>  BY <1>6 DEF JoinerCycle
    <2>2. CASE Finished(k, toClient, toClient[k] # <<>>)
      <3>1. GoodQueues(toClient)  BY InvQueues
      <3>2. (toClient[k] # <<>>) \in BOOLEAN  OBVIOUS
      <3>3. UNCHANGED <<sock, group, ready, clientnum, nextSocket, backlog, wiped>>
        BY <2>1 DEF server, history
      <3> QED  BY <2>2, <3>1, <3>2, <3>3, FinishedStep
    <2> QED
      BY <1>6, <2>1, <2>2, AcceptedStageStep, PlayerSetupStep, OtherPlayersStep DEF JoinerCycle
  <1>7. ASSUME NEW k \in Conns,
               \/ Connect(k) \/ GetAcceptance(k) \/ Timeout(k) \/ SendDelete(k)
               \/ Disappear(k) \/ ShutdownLevel(k)
        PROVE  IInv'
    BY <1>7, ConnectStep, GetAcceptanceStep, TimeoutStep, SendDeleteStep, DisappearStep,
       ShutdownLevelStep
  <1>8. ASSUME NEW k \in Conns, Move(k)
        PROVE  IInv'
    BY <1>8, OtherStep DEF Move, server, history
  <1> QED  BY <1>1, <1>2, <1>3, <1>4, <1>5, <1>6, <1>7, <1>8 DEF Next, Server

THEOREM SpecIInv == Spec => []IInv
  BY InitIInv, NextIInv, PTL DEF Spec

\* Nothing that is sent in a session takes the own player out of a table.
THEOREM OwnPlayerAlwaysKept == Spec => []OwnPlayerKept
  <1>1. IInv => OwnPlayerKept  BY DEF IInv
  <1> QED  BY <1>1, SpecIInv, PTL

\* Whoever the server accepts finds room in every table.
THEOREM RoomAlways == Spec => []RoomForEverybody
  <1>1. IInv => RoomForEverybody
    <2> SUFFICES ASSUME IInv, NEW c \in Conns
                 PROVE  Cardinality(DOMAIN player[c]) < MAXPLAYERS
      BY DEF IInv, Sockets, RoomForEverybody
    <2>1. DOMAIN player[c] \subseteq 0 .. nextSocket - 1 /\ nextSocket \in Nat
          /\ nextSocket < MAXPLAYERS
      BY DEF IInv, Numbers, Sockets
    <2>2. IsFiniteSet(0 .. nextSocket - 1) /\ Cardinality(0 .. nextSocket - 1) = nextSocket
      BY <2>1, FS_Interval
    <2>3. Cardinality(DOMAIN player[c]) <= nextSocket
          /\ Cardinality(DOMAIN player[c]) \in Nat
      BY <2>1, <2>2, FS_Subset, FS_CardinalityType
    <2> QED  BY <2>1, <2>3, NetAssumption
  <1> QED  BY <1>1, SpecIInv, PTL

------------------------------------------------------------------------------
(* The handshake *)

\* Queues are counted by their parts.
LEMMA CountFinite ==
  ASSUME NEW q, IsSeq(q), NEW T
  PROVE  /\ IsFiniteSet({i \in 1 .. Len(q) : q[i].type \in T})
         /\ Count(q, T) \in Nat
  <1>1. PICK S : q \in Seq(S)  BY DEF IsSeq
  <1>2. Len(q) \in Nat  BY <1>1
  <1>3. IsFiniteSet(1 .. Len(q))  BY <1>2, FS_Interval
  <1>4. IsFiniteSet({i \in 1 .. Len(q) : q[i].type \in T})  BY <1>3, FS_Subset
  <1> QED  BY <1>4, FS_CardinalityType DEF Count

LEMMA CountOne ==
  ASSUME NEW m, NEW T
  PROVE  Count(<<m>>, T) = IF m.type \in T THEN 1 ELSE 0
  <1> DEFINE I == {i \in 1 .. Len(<<m>>) : <<m>>[i].type \in T}
  <1>1. Len(<<m>>) = 1 /\ <<m>>[1] = m  OBVIOUS
  <1>2. I = IF m.type \in T THEN {1} ELSE {}  BY <1>1
  <1>3. Cardinality({1}) = 1 /\ Cardinality({}) = 0  BY FS_Singleton, FS_EmptySet
  <1> QED  BY <1>2, <1>3 DEF Count

LEMMA CountEmpty == \A T : Count(<<>>, T) = 0
  <1> TAKE T
  <1>1. {i \in 1 .. Len(<<>>) : <<>>[i].type \in T} = {}  OBVIOUS
  <1> QED  BY <1>1, FS_EmptySet DEF Count

LEMMA CountConcat ==
  ASSUME NEW p, IsSeq(p), NEW q, IsSeq(q), NEW T
  PROVE  Count(p \o q, T) = Count(p, T) + Count(q, T)
  <1>1. PICK S1 : p \in Seq(S1)  BY DEF IsSeq
  <1>2. PICK S2 : q \in Seq(S2)  BY DEF IsSeq
  <1> DEFINE A == {i \in 1 .. Len(p) : p[i].type \in T}
             B == {i \in 1 .. Len(q) : q[i].type \in T}
             C == {i \in 1 .. Len(p \o q) : (p \o q)[i].type \in T}
             D == C \ A
             f == [i \in B |-> i + Len(p)]
  <1>3. /\ Len(p) \in Nat /\ Len(q) \in Nat /\ Len(p \o q) = Len(p) + Len(q)
        /\ \A i \in 1 .. Len(p) : (p \o q)[i] = p[i]
        /\ \A i \in 1 .. Len(q) : (p \o q)[i + Len(p)] = q[i]
    <2>1. p \in Seq(S1 \cup S2) /\ q \in Seq(S1 \cup S2)  BY <1>1, <1>2
    <2> QED  BY <2>1
  <1>4. IsFiniteSet(A) /\ IsFiniteSet(B) /\ Cardinality(A) = Count(p, T)
        /\ Cardinality(B) = Count(q, T)
    BY CountFinite DEF Count
  <1>5. A \subseteq C  BY <1>3
  <1>6. D = {i + Len(p) : i \in B}
    <2>1. ASSUME NEW j \in D  PROVE  j \in {i + Len(p) : i \in B}
      <3>1. j \in 1 .. Len(p) + Len(q) /\ j \notin 1 .. Len(p)  BY <1>3
      <3>2. j - Len(p) \in 1 .. Len(q) /\ (j - Len(p)) + Len(p) = j  BY <1>3, <3>1
      <3>3. (p \o q)[j] = q[j - Len(p)]  BY <1>3, <3>2
      <3>4. j - Len(p) \in B  BY <3>2, <3>3
      <3> QED  BY <3>2, <3>4
    <2>2. ASSUME NEW i \in B  PROVE  i + Len(p) \in D
      <3>1. i + Len(p) \in 1 .. Len(p) + Len(q) /\ i + Len(p) \notin 1 .. Len(p)  BY <1>3
      <3> QED  BY <1>3, <3>1
    <2> QED  BY <2>1, <2>2
  <1>7. f \in Bijection(B, D)
    <2>1. f \in [B -> D]  BY <1>6
    <2>2. \A i, j \in B : f[i] = f[j] => i = j  BY <1>3
    <2>3. \A d \in D : \E i \in B : f[i] = d  BY <1>6
    <2> QED  BY <2>1, <2>2, <2>3, Fun_IsBij
  <1>8. IsFiniteSet(D) /\ Cardinality(D) = Cardinality(B)
    BY <1>4, <1>7, FS_Bijection DEF ExistsBijection
  <1>9. Cardinality(A \cup D) = Cardinality(A) + Cardinality(D)
    <2>1. A \cap D = {}  OBVIOUS
    <2> HIDE DEF A, D
    <2>2. Cardinality(A \cup D) = Cardinality(A) + Cardinality(D) - Cardinality(A \cap D)
      BY <1>4, <1>8, FS_Union
    <2>3. Cardinality(A \cap D) = 0  BY <2>1, FS_EmptySet
    <2>4. Cardinality(A) \in Nat /\ Cardinality(D) \in Nat
      BY <1>4, <1>8, FS_CardinalityType
    <2> QED  BY <2>2, <2>3, <2>4
  <1>10. A \cup D = C  BY <1>5
  <1> QED  BY <1>4, <1>8, <1>9, <1>10 DEF Count

LEMMA CountTail ==
  ASSUME NEW q, IsSeq(q), q # <<>>, NEW T
  PROVE  Count(q, T) = Count(Tail(q), T) + IF Head(q).type \in T THEN 1 ELSE 0
  <1>1. PICK S : q \in Seq(S)  BY DEF IsSeq
  <1> DEFINE p == <<Head(q)>> \o Tail(q)
  <1>2. /\ Head(q) \in S /\ Tail(q) \in Seq(S) /\ <<Head(q)>> \in Seq(S)
        /\ Len(q) \in Nat \ {0} /\ Len(Tail(q)) = Len(q) - 1 /\ Len(<<Head(q)>>) = 1
        /\ <<Head(q)>>[1] = q[1]
    BY <1>1
  <1>3. Len(p) = Len(q)  BY <1>2
  <1>4. \A i \in 1 .. Len(q) : p[i] = q[i]
    <2> TAKE i \in 1 .. Len(q)
    <2>1. CASE i = 1  BY <1>2, <2>1
    <2>2. CASE i # 1
      <3>1. i - 1 \in 1 .. Len(Tail(q)) /\ Tail(q)[i - 1] = q[i]  BY <1>1, <1>2, <2>2
      <3>2. p[i] = Tail(q)[i - 1]  BY <1>2, <2>2, <3>1
      <3> QED  BY <3>1, <3>2
    <2> QED  BY <2>1, <2>2
  <1>5. {i \in 1 .. Len(p) : p[i].type \in T} = {i \in 1 .. Len(q) : q[i].type \in T}
    BY <1>3, <1>4
  <1>6. Count(p, T) = Count(q, T)  BY <1>5 DEF Count
  <1>7. IsSeq(<<Head(q)>>) /\ IsSeq(Tail(q))  BY OneSeq, TailSeq
  <1>8. Count(p, T) = Count(<<Head(q)>>, T) + Count(Tail(q), T)  BY <1>7, CountConcat
  <1>9. Count(<<Head(q)>>, T) \in Nat /\ Count(Tail(q), T) \in Nat  BY <1>7, CountFinite
  <1>10. Count(<<Head(q)>>, T) = IF Head(q).type \in T THEN 1 ELSE 0  BY CountOne
  <1> HIDE DEF p
  <1> QED  BY <1>6, <1>8, <1>9, <1>10

\* What is written counts for those who get it.
LEMMA CountWrite ==
  ASSUME NEW queues, IsQueues(queues), NEW to, NEW m, IsSeq(m), NEW c \in Conns, NEW T
  PROVE  Count(Write(queues, to, m)[c], T) =
           IF c \in to /\ Alive(c) THEN Count(queues[c], T) + Count(m, T)
           ELSE Count(queues[c], T)
  <1>1. Write(queues, to, m)[c] = IF c \in to /\ Alive(c) THEN queues[c] \o m ELSE queues[c]
    BY DEF Write
  <1>2. Count(queues[c] \o m, T) = Count(queues[c], T) + Count(m, T)
    BY CountConcat DEF IsQueues
  <1> QED  BY <1>1, <1>2

LEMMA CountWriteOther ==
  ASSUME NEW queues, IsQueues(queues), NEW to, NEW x, NEW T, x.type \notin T, NEW c \in Conns
  PROVE  Count(Write(queues, to, <<x>>)[c], T) = Count(queues[c], T)
  <1>1. IsSeq(<<x>>) /\ Count(<<x>>, T) = 0  BY OneSeq, CountOne
  <1>2. Count(queues[c], T) \in Nat  BY CountFinite DEF IsQueues
  <1> QED  BY <1>1, <1>2, CountWrite

\* Until a program has introduced itself nothing of the handshake is under way; then one
\* PLAYERINFO is, until the server has read it and answers with four packets.
Shaking(c) ==
  LET infos == Count(toServer[c], {"PLAYERINFO"})
      lists == Count(toClient[c], Handshake)
  IN  /\ stage[c] \in {"out", "waiting", "abandoned", "ACCEPTED", "PLAYERSETUP"}
           => c \notin joined /\ infos = 0 /\ lists = 0
      /\ stage[c] \in {"OTHERPLAYERS", "FINISHED"}
           => /\ got[c] \in Nat
              /\ infos = IF c \in joined THEN 0 ELSE 1
              /\ got[c] + lists = IF c \in joined THEN CONNECTIONPACKETS ELSE 0
      /\ stage[c] = "FINISHED" => got[c] = CONNECTIONPACKETS

SInv == DOMAIN got = Conns /\ \A c \in Joiners : Shaking(c)

Early == {"out", "waiting", "abandoned", "ACCEPTED", "PLAYERSETUP"}
Ended == {"gone", "crashed", "faulted"}

\* Steps that leave the handshake of c alone, go on before it, or end it.
LEMMA ShakingKept ==
  ASSUME NEW c \in Joiners, Shaking(c), c \in joined' <=> c \in joined, got'[c] = got[c],
         \/ stage'[c] = stage[c]
         \/ stage[c] \in Early /\ stage'[c] \in Early
         \/ stage'[c] \in Ended,
         Count(toServer'[c], {"PLAYERINFO"}) = Count(toServer[c], {"PLAYERINFO"}),
         Count(toClient'[c], Handshake) = Count(toClient[c], Handshake)
  PROVE  Shaking(c)'
  BY DEF Shaking, Early, Ended

LEMMA ShakingEnded ==
  ASSUME NEW c \in Joiners, stage'[c] \in Ended
  PROVE  Shaking(c)'
  BY DEF Shaking, Ended

LEMMA InitSInv == Init => SInv
  <1> SUFFICES ASSUME Init PROVE SInv  OBVIOUS
  <1>1. ASSUME NEW c \in Joiners PROVE Shaking(c)
    <2>1. c \in Conns /\ c # Host  BY NetAssumption DEF Conns
    <2>2. stage[c] = "out" /\ toServer[c] = <<>> /\ toClient[c] = <<>> /\ joined = {}
      BY <2>1 DEF Init
    <2> QED  BY <2>2, CountEmpty DEF Shaking
  <1> QED  BY <1>1 DEF Init, SInv

\* What a joiner's program does between the steps of the handshake.
LEMMA ClientShakes ==
  ASSUME IInv, SInv, NEW k \in Conns,
         \/ Connect(k) \/ GetAcceptance(k) \/ Timeout(k) \/ SendDelete(k)
         \/ Disappear(k) \/ ShutdownLevel(k) \/ Move(k)
  PROVE  SInv'
  <1>1. got' = got /\ joined' = joined
    BY DEF Connect, GetAcceptance, Timeout, SendDelete, Disappear, ShutdownLevel, Move, server,
           history
  <1>2. ASSUME NEW c \in Joiners PROVE Shaking(c)'
    <2>1. c \in Conns /\ Shaking(c) /\ DOMAIN stage = Conns /\ IsQueues(toClient)
          /\ DOMAIN toServer = Conns
      BY DEF Conns, SInv, IInv, Types, IsQueues
    <2>2. CASE Connect(k) \/ Timeout(k) \/ ShutdownLevel(k) \/ Move(k)
      <3>1. UNCHANGED <<toServer, toClient>>
            /\ (stage'[c] = stage[c] \/ (stage[c] \in Early /\ stage'[c] \in Early))
        BY <2>1, <2>2 DEF Connect, Timeout, ShutdownLevel, Move, Early
      <3> QED  BY <1>1, <2>1, <3>1, ShakingKept
    <2>3. CASE GetAcceptance(k)
      <3>1. /\ stage[k] = "waiting" /\ stage' = [stage EXCEPT ![k] = "ACCEPTED"]
            /\ toClient[k] # <<>> /\ Head(toClient[k]).type = "CONNECTIONACCEPT"
            /\ toClient' = [toClient EXCEPT ![k] = Tail(@)] /\ toServer' = toServer
        BY <2>3 DEF GetAcceptance, Accepted
      <3>2. Count(toClient[k], Handshake) = Count(Tail(toClient[k]), Handshake) + 0
        BY <2>1, <3>1, CountTail DEF Handshake, IsQueues
      <3>3. Count(Tail(toClient[k]), Handshake) \in Nat
        BY <2>1, <3>1, TailSeq, CountFinite DEF IsQueues
      <3>4. Count(toClient'[c], Handshake) = Count(toClient[c], Handshake)
        BY <2>1, <3>1, <3>2, <3>3 DEF IsQueues
      <3>5. stage'[c] = stage[c] \/ (stage[c] \in Early /\ stage'[c] \in Early)
        BY <2>1, <3>1 DEF Early
      <3> QED  BY <1>1, <2>1, <3>1, <3>4, <3>5, ShakingKept
    <2>4. CASE SendDelete(k) \/ Disappear(k)
      <3>1. CASE c = k
        <4>1. stage'[c] \in Ended  BY <2>1, <2>4, <3>1 DEF SendDelete, Disappear, Ended
        <4> QED  BY <4>1, ShakingEnded
      <3>2. CASE c # k
        <4>1. stage'[c] = stage[c] /\ toServer'[c] = toServer[c] /\ toClient'[c] = toClient[c]
          BY <2>1, <2>4, <3>2 DEF SendDelete, Disappear, IsQueues
        <4> QED  BY <1>1, <2>1, <4>1, ShakingKept
      <3> QED  BY <3>1, <3>2
    <2> QED  BY <2>2, <2>3, <2>4
  <1> QED  BY <1>1, <1>2 DEF SInv

\* A program introduces itself.
LEMMA SetupShakes ==
  ASSUME IInv, SInv, NEW k \in Conns, PlayerSetup(k), UNCHANGED <<server, history>>
  PROVE  SInv'
  <1> DEFINE m == [type |-> "PLAYERINFO", id |-> playerId[k], info |-> player[k][playerId[k]]]
             I == {"PLAYERINFO"}
  <1>1. /\ stage[k] = "PLAYERSETUP" /\ toClient' = toClient /\ joined' = joined
        /\ \/ /\ toServer' = Write(toServer, {k}, <<m>>)
              /\ got' = [got EXCEPT ![k] = 0]
              /\ stage' = [stage EXCEPT ![k] = "OTHERPLAYERS"]
           \/ stage' = [stage EXCEPT ![k] = "faulted"] /\ toServer' = toServer /\ got' = got
    BY DEF PlayerSetup, history
  <1>2. IsQueues(toServer) /\ DOMAIN stage = Conns /\ DOMAIN got = Conns
    BY DEF IInv, Types, SInv
  <1>3. IsSeq(<<m>>) /\ Count(<<m>>, I) = 1  BY OneSeq, CountOne
  <1> HIDE DEF m, I
  <1>4. ASSUME NEW c \in Joiners PROVE Shaking(c)'
    <2>1. c \in Conns /\ Shaking(c)  BY DEF Conns, SInv
    <2>2. CASE stage'[c] = "faulted"  BY <2>2, ShakingEnded DEF Ended
    <2>3. CASE stage'[c] # "faulted" /\ c = k
      <3>1. /\ toServer' = Write(toServer, {k}, <<m>>) /\ got'[c] = 0
            /\ stage'[c] = "OTHERPLAYERS" /\ Alive(c)
        BY <1>1, <1>2, <2>1, <2>3 DEF Alive
      <3>2. Count(toServer'[c], I) = Count(toServer[c], I) + 1
        BY <1>2, <1>3, <2>1, <2>3, <3>1, CountWrite
      <3>3. c \notin joined /\ Count(toServer[c], I) = 0 /\ Count(toClient[c], Handshake) = 0
        BY <1>1, <2>1, <2>3 DEF Shaking, I
      <3>4. Count(toServer'[c], I) = 1  BY <3>2, <3>3
      <3> QED  BY <1>1, <3>1, <3>3, <3>4 DEF Shaking, I
    <2>4. CASE stage'[c] # "faulted" /\ c # k
      <3>1. stage'[c] = stage[c] /\ got'[c] = got[c]  BY <1>1, <1>2, <2>1, <2>4
      <3>2. toServer'[c] = toServer[c]
        BY <1>1, <1>2, <2>1, <2>4 DEF Write, IsQueues
      <3> QED  BY <1>1, <2>1, <3>1, <3>2, ShakingKept
    <2> QED  BY <2>2, <2>3, <2>4
  <1>5. DOMAIN got' = Conns  BY <1>1, <1>2
  <1> QED  BY <1>4, <1>5 DEF SInv

\* A packet of the answer is read and counted; anything else is read and dropped.
LEMMA OtherShakes ==
  ASSUME IInv, SInv, NEW k \in Conns, OtherPlayers(k), UNCHANGED <<server, history>>
  PROVE  SInv'
  <1>1. /\ stage[k] = "OTHERPLAYERS" /\ toClient[k] # <<>> /\ toServer' = toServer
        /\ joined' = joined
        /\ got' = [got EXCEPT ![k] = IF Head(toClient[k]).type \in Handshake THEN @ + 1 ELSE @]
        /\ stage' = [stage EXCEPT ![k] = IF got'[k] = CONNECTIONPACKETS THEN "FINISHED" ELSE @]
        /\ toClient' = [toClient EXCEPT ![k] = Tail(@)]
    BY DEF OtherPlayers, history
  <1>2. IsQueues(toClient) /\ DOMAIN stage = Conns /\ DOMAIN got = Conns
    BY DEF IInv, Types, SInv
  <1>3. /\ Count(toClient[k], Handshake) = Count(Tail(toClient[k]), Handshake)
             + IF Head(toClient[k]).type \in Handshake THEN 1 ELSE 0
        /\ Count(Tail(toClient[k]), Handshake) \in Nat
    BY <1>1, <1>2, CountTail, TailSeq, CountFinite DEF IsQueues
  <1>4. ASSUME NEW c \in Joiners PROVE Shaking(c)'
    <2>1. c \in Conns /\ Shaking(c)  BY DEF Conns, SInv
    <2>2. CASE c = k
      <3>1. /\ got[c] \in Nat
            /\ Count(toServer[c], {"PLAYERINFO"}) = IF c \in joined THEN 0 ELSE 1
            /\ got[c] + Count(toClient[c], Handshake)
                 = IF c \in joined THEN CONNECTIONPACKETS ELSE 0
        BY <1>1, <2>1, <2>2 DEF Shaking
      <3>2. /\ got'[c] = got[c] + IF Head(toClient[k]).type \in Handshake THEN 1 ELSE 0
            /\ toClient'[c] = Tail(toClient[k])
            /\ stage'[c] = IF got'[c] = CONNECTIONPACKETS THEN "FINISHED" ELSE "OTHERPLAYERS"
        BY <1>1, <1>2, <2>1, <2>2, <3>1 DEF IsQueues
      <3>3. got'[c] \in Nat /\ got'[c] + Count(toClient'[c], Handshake)
                                = got[c] + Count(toClient[c], Handshake)
        BY <1>3, <2>2, <3>1, <3>2
      <3> QED  BY <1>1, <3>1, <3>2, <3>3 DEF Shaking
    <2>3. CASE c # k
      <3>1. stage'[c] = stage[c] /\ got'[c] = got[c] /\ toClient'[c] = toClient[c]
        BY <1>1, <1>2, <2>1, <2>3 DEF IsQueues
      <3> QED  BY <1>1, <2>1, <3>1, ShakingKept
    <2> QED  BY <2>2, <2>3
  <1>5. DOMAIN got' = Conns  BY <1>1, <1>2
  <1> QED  BY <1>4, <1>5 DEF SInv

\* In the game the handshake is over: what is read is not of it, what is sent is a pose.
LEMMA FinishedShakes ==
  ASSUME IInv, SInv, NEW k \in Conns, JoinerCycle(k),
         Finished(k, toClient, toClient[k] # <<>>)
  PROVE  SInv'
  <1> DEFINE m == [type |-> "PLAYERUPDATE", id |-> playerId[k], pose |-> pose[k]]
  <1>1. /\ stage[k] = "FINISHED" /\ got' = got /\ joined' = joined /\ k # Host
        /\ stage' = stage \/ stage' = [stage EXCEPT ![k] = "faulted"]
        /\ toServer' = toServer \/ toServer' = Write(toServer, {k}, <<m>>)
        /\ toClient' = IF toClient[k] # <<>> THEN [toClient EXCEPT ![k] = Tail(@)] ELSE toClient
    BY DEF Finished, JoinerCycle, history
  <1>2. IsQueues(toServer) /\ IsQueues(toClient) /\ DOMAIN stage = Conns
    BY DEF IInv, Types
  <1>3. m.type = "PLAYERUPDATE"  OBVIOUS
  <1> HIDE DEF m
  <1>4. ASSUME NEW c \in Joiners PROVE Shaking(c)'
    <2>1. c \in Conns /\ Shaking(c)  BY DEF Conns, SInv
    <2>2. Count(toServer'[c], {"PLAYERINFO"}) = Count(toServer[c], {"PLAYERINFO"})
      <3> DEFINE I == {"PLAYERINFO"}
      <3>1. m.type \notin I  BY <1>3
      <3> HIDE DEF I
      <3>2. Count(Write(toServer, {k}, <<m>>)[c], I) = Count(toServer[c], I)
        BY <1>2, <2>1, <3>1, CountWriteOther
      <3>3. Count(toServer'[c], I) = Count(toServer[c], I)  BY <1>1, <3>2
      <3> QED  BY <3>3 DEF I
    <2>3. Count(toClient'[c], Handshake) = Count(toClient[c], Handshake)
      <3>1. CASE c = k /\ toClient[k] # <<>>
        <4>1. /\ Count(toClient[k], Handshake) = Count(Tail(toClient[k]), Handshake)
                   + IF Head(toClient[k]).type \in Handshake THEN 1 ELSE 0
              /\ Count(Tail(toClient[k]), Handshake) \in Nat
          BY <1>2, <3>1, CountTail, TailSeq, CountFinite DEF IsQueues
        <4>2. Count(toClient[k], Handshake) = 0
          <5>1. /\ got[c] = CONNECTIONPACKETS
                /\ got[c] + Count(toClient[c], Handshake)
                     = IF c \in joined THEN CONNECTIONPACKETS ELSE 0
            BY <1>1, <2>1, <3>1 DEF Shaking
          <5>2. Count(toClient[c], Handshake) \in Nat  BY <1>2, <2>1, CountFinite DEF IsQueues
          <5> QED  BY <3>1, <5>1, <5>2 DEF CONNECTIONPACKETS
        <4>3. Count(Tail(toClient[k]), Handshake) = 0  BY <4>1, <4>2
        <4>4. toClient'[c] = Tail(toClient[k])  BY <1>1, <1>2, <2>1, <3>1 DEF IsQueues
        <4> QED  BY <3>1, <4>2, <4>3, <4>4
      <3>2. CASE c # k \/ toClient[k] = <<>>
        <4>1. toClient'[c] = toClient[c]  BY <1>1, <1>2, <2>1, <3>2 DEF IsQueues
        <4> QED  BY <4>1
      <3> QED  BY <3>1, <3>2
    <2>4. stage'[c] = stage[c] \/ stage'[c] \in Ended  BY <1>1, <1>2, <2>1 DEF Ended
    <2> QED  BY <1>1, <2>1, <2>2, <2>3, <2>4, ShakingKept
  <1>5. DOMAIN got' = Conns  BY <1>1 DEF SInv
  <1> QED  BY <1>4, <1>5 DEF SInv

\* Steps that leave alone all that is counted.
LEMMA OtherSteps ==
  ASSUME SInv, got' = got, joined' = joined,
         \A c \in Joiners : /\ stage'[c] = stage[c] \/ (stage[c] \in Early /\ stage'[c] \in Early)
                            /\ Count(toServer'[c], {"PLAYERINFO"}) = Count(toServer[c], {"PLAYERINFO"})
                            /\ Count(toClient'[c], Handshake) = Count(toClient[c], Handshake)
  PROVE  SInv'
  <1>1. ASSUME NEW c \in Joiners PROVE Shaking(c)'
    <2>1. Shaking(c)  BY DEF SInv
    <2> QED  BY <2>1, ShakingKept
  <1> QED  BY <1>1 DEF SInv

LEMMA AcceptedShakes ==
  ASSUME IInv, SInv, NEW k \in Conns, JoinerCycle(k), AcceptedStage(k)
  PROVE  SInv'
  <1>1. /\ stage[k] = "ACCEPTED" /\ k # Host /\ got' = got /\ joined' = joined
        /\ stage' = [stage EXCEPT ![k] = "PLAYERSETUP"]
        /\ toServer' = toServer /\ toClient' = toClient
    BY DEF JoinerCycle, AcceptedStage, MakeOwnPlayer, history
  <1>2. \A c \in Joiners : stage'[c] = stage[c] \/ (stage[c] \in Early /\ stage'[c] \in Early)
    BY <1>1 DEF Early, IInv, Types, Conns
  <1> QED  BY <1>1, <1>2, OtherSteps

\* Beginning a cycle sends an acceptance at most.
LEMMA BeginShakes ==
  ASSUME IInv, SInv, Begin
  PROVE  SInv'
  <1>1. IsQueues(toClient) /\ UNCHANGED <<client, history, toServer>>
    BY DEF Begin, IInv, Types
  <1>2. ASSUME NEW c \in Joiners
        PROVE  Count(toClient'[c], Handshake) = Count(toClient[c], Handshake)
    <2>1. c \in Conns  BY DEF Conns
    <2>2. CASE toClient' = toClient  BY <2>2
    <2>3. CASE \E d \in Conns, n \in 0 .. nextSocket :
                 toClient' = Write(toClient, {d}, <<[type |-> "CONNECTIONACCEPT", id |-> n]>>)
      <3>1. PICK d \in Conns, n \in 0 .. nextSocket :
              toClient' = Write(toClient, {d}, <<[type |-> "CONNECTIONACCEPT", id |-> n]>>)
        BY <2>3
      <3> DEFINE m == [type |-> "CONNECTIONACCEPT", id |-> n]
      <3>2. m.type \notin Handshake  BY DEF Handshake
      <3> HIDE DEF m
      <3>3. Count(Write(toClient, {d}, <<m>>)[c], Handshake) = Count(toClient[c], Handshake)
        BY <1>1, <2>1, <3>2, CountWriteOther
      <3> QED  BY <3>1, <3>3 DEF m
    <2>4. backlog # <<>> => Head(backlog) \in Conns
      BY TailSeq DEF IInv, Types
    <2> QED  BY <2>2, <2>3, <2>4 DEF Begin
  <1> QED  BY <1>1, <1>2, OtherSteps DEF client, history

\* The host's part sends updates to the others, and is a step of its own program.
LEMMA HostShakes ==
  ASSUME IInv, SInv, HostCycle
  PROVE  SInv'
  <1> DEFINE u == [type |-> "CLIENTUPDATE", poses |-> updates]
  <1>1. /\ IsQueues(toClient) /\ IsQueues(toServer) /\ IsQueues(Broadcast)
        /\ DOMAIN stage = Conns /\ Host \in Conns
    BY BroadcastQueues DEF IInv, Types, GoodQueues, Conns
  <1>2. joined' = joined /\ got' = got
    BY DEF HostCycle, HostAccepted, MakeOwnPlayer, Finished, client, history
  <1>3. u.type \notin Handshake  BY DEF Handshake
  <1> HIDE DEF u
  <1>4. ASSUME NEW c \in Joiners
        PROVE  /\ stage'[c] = stage[c]
               /\ toServer'[c] = toServer[c]
               /\ Count(toClient'[c], Handshake) = Count(toClient[c], Handshake)
    <2>1. c \in Conns /\ c # Host  BY NetAssumption DEF Conns
    <2>2. Count(Broadcast[c], Handshake) = Count(toClient[c], Handshake)
      <3>1. Broadcast = toClient \/ Broadcast = Write(toClient, group, <<u>>)
        BY DEF Broadcast, u
      <3> QED  BY <1>1, <1>3, <2>1, <3>1, CountWriteOther
    <2>3. CASE HostAccepted(Broadcast)
      <3>1. toServer' = toServer /\ stage'[c] = stage[c] /\ toClient'[c] = Broadcast[c]
        BY <1>1, <2>1, <2>3 DEF HostAccepted, Accepted, MakeOwnPlayer, IsQueues
      <3> QED  BY <2>2, <3>1
    <2>4. CASE \E read \in BOOLEAN : Finished(Host, Broadcast, read)
      <3>1. PICK read \in BOOLEAN : Finished(Host, Broadcast, read)  BY <2>4
      <3>2. stage'[c] = stage[c]  BY <1>1, <2>1, <3>1 DEF Finished
      <3>3. toClient'[c] = Broadcast[c]  BY <1>1, <2>1, <3>1 DEF Finished, IsQueues
      <3>4. toServer'[c] = toServer[c]
        BY <1>1, <2>1, <3>1 DEF Finished, Write, IsQueues
      <3> QED  BY <2>2, <3>2, <3>3, <3>4
    <2>5. CASE toClient' = Broadcast /\ UNCHANGED <<client, toServer>>
      BY <2>2, <2>5 DEF client
    <2> QED  BY <2>3, <2>4, <2>5 DEF HostCycle
  <1> QED  BY <1>2, <1>4, OtherSteps

LEMMA UpdateShakes ==
  ASSUME IInv, SInv, NEW k \in Conns, ReadPlayerUpdate(k)
  PROVE  SInv'
  <1> DEFINE I == {"PLAYERINFO"}
  <1>1. /\ toServer[k] # <<>> /\ Head(toServer[k]).type \notin I /\ IsQueues(toServer)
        /\ toServer' = [toServer EXCEPT ![k] = Tail(@)]
        /\ UNCHANGED <<stage, got, joined, toClient>>
    BY DEF ReadPlayerUpdate, Read, client, history, IInv, Types
  <1> HIDE DEF I
  <1>2. ASSUME NEW c \in Joiners PROVE Count(toServer'[c], I) = Count(toServer[c], I)
    <2>1. Count(Tail(toServer[k]), I) = Count(toServer[k], I)
      <3>1. Count(toServer[k], I) = Count(Tail(toServer[k]), I) + 0
        BY <1>1, CountTail DEF IsQueues
      <3>2. Count(Tail(toServer[k]), I) \in Nat
        BY <1>1, TailSeq, CountFinite DEF IsQueues
      <3> QED  BY <3>1, <3>2
    <2> QED  BY <1>1, <2>1 DEF IsQueues, Conns
  <1> QED  BY <1>1, <1>2, OtherSteps DEF I

LEMMA DeleteShakes ==
  ASSUME IInv, SInv, NEW k \in Conns, ReadPlayerDelete(k)
  PROVE  SInv'
  <1> DEFINE m == [type |-> "DELETECLIENT", id |-> sock[k]]
  <1>1. /\ toServer[k] # <<>> /\ Head(toServer[k]).type = "PLAYERDELETE"
        /\ toServer' = [toServer EXCEPT ![k] = Tail(@)]
        /\ stage' = stage /\ got' = got /\ joined' = joined \ {k}
        /\ toClient' = Write(toClient, group', <<m>>)
    BY DEF ReadPlayerDelete, Read, client
  <1>2. IsQueues(toServer) /\ IsQueues(toClient)  BY DEF IInv, Types
  <1>3. stage[k] = "gone"
    <2>1. Head(toServer[k]) \in Elems(toServer[k])  BY <1>1, <1>2, TailSeq DEF IsQueues
    <2> QED  BY <1>1, <2>1 DEF IInv, Sessions
  <1>4. m.type \notin Handshake  BY DEF Handshake
  <1> HIDE DEF m
  <1>5. ASSUME NEW c \in Joiners PROVE Shaking(c)'
    <2>1. c \in Conns /\ Shaking(c)  BY DEF Conns, SInv
    <2>2. CASE c = k  BY <1>1, <1>3, <2>2, ShakingEnded DEF Ended
    <2>3. CASE c # k
      <3>1. toServer'[c] = toServer[c] /\ (c \in joined' <=> c \in joined)
        BY <1>1, <1>2, <2>1, <2>3 DEF IsQueues
      <3>2. Count(toClient'[c], Handshake) = Count(toClient[c], Handshake)
        BY <1>1, <1>2, <1>4, <2>1, CountWriteOther
      <3> QED  BY <1>1, <2>1, <3>1, <3>2, ShakingKept
    <2> QED  BY <2>2, <2>3
  <1> QED  BY <1>1, <1>5 DEF SInv

LEMMA CountWorldInfo ==
  ASSUME NEW table
  PROVE  IsSeq(WorldInfo(table)) /\ Count(WorldInfo(table), Handshake) = CONNECTIONPACKETS
  <1> DEFINE w == WorldInfo(table)
             x1 == [type |-> "CLIENTLIST", list |-> table]
             x2 == Msg("WORLDLIST1")
             x3 == Msg("WORLDLIST2")
             x4 == Msg("DONECONNECT")
  <1>1. w = <<x1, x2, x3, x4>>  BY DEF WorldInfo
  <1>2. x1.type \in Handshake /\ x2.type \in Handshake /\ x3.type \in Handshake
        /\ x4.type \in Handshake
    BY DEF Handshake, Msg
  <1> HIDE DEF w, x1, x2, x3, x4
  <1>3. w \in Seq({x1, x2, x3, x4}) /\ Len(w) = 4 /\ w[1] = x1 /\ w[2] = x2 /\ w[3] = x3
        /\ w[4] = x4
    BY <1>1
  <1>4. {i \in 1 .. Len(w) : w[i].type \in Handshake} = 1 .. 4
    <2>1. \A i \in 1 .. 4 : i = 1 \/ i = 2 \/ i = 3 \/ i = 4  OBVIOUS
    <2> QED  BY <1>2, <1>3, <2>1
  <1>5. Cardinality(1 .. 4) = 4
    <2>1. \A n \in Nat : n > 0 => Cardinality(1 .. n) = n  BY FS_Interval
    <2>2. 4 \in Nat /\ 4 > 0  OBVIOUS
    <2> QED  BY <2>1, <2>2
  <1>6. IsSeq(w)  BY <1>3 DEF IsSeq
  <1> QED  BY <1>4, <1>5, <1>6 DEF w, Count, CONNECTIONPACKETS

\* The server reads who a joiner is, and answers with the four packets.
LEMMA InfoShakes ==
  ASSUME IInv, SInv, NEW k \in Conns, ReadPlayerInfo(k)
  PROVE  SInv'
  <1> DEFINE h == Head(toServer[k])
             table == CreatePlayer(player[Host], h.id, h.info)
             x == [type |-> "CLIENTADD", id |-> h.id, info |-> table[h.id]]
             add == IF Known(table, h.id) THEN <<x>> ELSE <<>>
             w == WorldInfo(table)
             I == {"PLAYERINFO"}
             p == Write(toClient, {k}, w)
  <1>1. /\ toServer[k] # <<>> /\ h.type \in I
        /\ toServer' = [toServer EXCEPT ![k] = Tail(@)]
        /\ stage' = stage /\ got' = got /\ joined' = joined \cup {k}
        /\ toClient' = Write(p, group, add)
    BY DEF ReadPlayerInfo, Read
  <1>2. IsQueues(toServer) /\ IsQueues(toClient)  BY DEF IInv, Types
  <1>3. IsSeq(w) /\ Count(w, Handshake) = 4  BY CountWorldInfo DEF CONNECTIONPACKETS
  <1>4. x.type \notin Handshake  BY DEF Handshake
  <1> HIDE DEF h, table, x, w, I
  <1>5. IsQueues(p)  BY <1>2, <1>3, WriteQueues
  <1>6. IsSeq(add) /\ Count(add, Handshake) = 0
    BY <1>4, OneSeq, EmptySeq, CountOne, CountEmpty
  <1> HIDE DEF add
  <1>7. ASSUME NEW c \in Conns
        PROVE  Count(toClient'[c], Handshake)
                 = IF c = k /\ Alive(c) THEN Count(toClient[c], Handshake) + 4
                   ELSE Count(toClient[c], Handshake)
    <2>1. Count(p[c], Handshake) = IF c = k /\ Alive(c) THEN Count(toClient[c], Handshake) + 4
                                   ELSE Count(toClient[c], Handshake)
      BY <1>2, <1>3, CountWrite
    <2>2. Count(p[c], Handshake) \in Nat  BY <1>5, CountFinite DEF IsQueues
    <2> HIDE DEF p
    <2>3. Count(toClient'[c], Handshake) = Count(p[c], Handshake)
      BY <1>1, <1>5, <1>6, <2>2, CountWrite
    <2> QED  BY <2>1, <2>3
  <1>8. Count(toServer[k], I) = Count(Tail(toServer[k]), I) + 1
        /\ Count(Tail(toServer[k]), I) \in Nat
    BY <1>1, <1>2, CountTail, TailSeq, CountFinite DEF IsQueues, h
  <1>9. ASSUME NEW c \in Joiners PROVE Shaking(c)'
    <2>1. c \in Conns /\ Shaking(c)  BY DEF Conns, SInv
    <2>2. CASE c = k
      <3>1. toServer'[c] = Tail(toServer[k])  BY <1>1, <1>2, <2>1, <2>2 DEF IsQueues
      <3>2. stage[c] \notin Early  BY <1>8, <2>1, <2>2 DEF Shaking, Early, I
      <3>3. CASE stage[c] \in {"OTHERPLAYERS", "FINISHED"}
        <4>1. /\ Alive(c) /\ got[c] \in Nat
              /\ Count(toServer[c], I) = IF c \in joined THEN 0 ELSE 1
              /\ got[c] + Count(toClient[c], Handshake)
                   = IF c \in joined THEN CONNECTIONPACKETS ELSE 0
              /\ stage[c] = "FINISHED" => got[c] = CONNECTIONPACKETS
          BY <2>1, <3>3 DEF Shaking, Alive, I
        <4>2. Count(toClient[c], Handshake) \in Nat  BY <1>2, <2>1, CountFinite DEF IsQueues
        <4>3. c \notin joined /\ Count(toServer'[c], I) = 0
          BY <1>8, <2>2, <3>1, <4>1
        <4>4. got[c] + Count(toClient[c], Handshake) = 0  BY <4>1, <4>3
        <4>5. stage[c] # "FINISHED"  BY <4>1, <4>2, <4>4 DEF CONNECTIONPACKETS
        <4>6. Count(toClient'[c], Handshake) = Count(toClient[c], Handshake) + 4
          BY <1>7, <2>1, <2>2, <4>1
        <4>7. got'[c] \in Nat /\ got'[c] + Count(toClient'[c], Handshake) = CONNECTIONPACKETS
          BY <1>1, <4>1, <4>2, <4>4, <4>6 DEF CONNECTIONPACKETS
        <4> QED  BY <1>1, <2>2, <3>2, <4>3, <4>5, <4>7 DEF Shaking, Early, I
      <3>4. CASE stage[c] \notin {"OTHERPLAYERS", "FINISHED"}
        BY <1>1, <3>2, <3>4 DEF Shaking, Early
      <3> QED  BY <3>3, <3>4
    <2>3. CASE c # k
      <3>1. toServer'[c] = toServer[c] /\ (c \in joined' <=> c \in joined)
            /\ Count(toClient'[c], Handshake) = Count(toClient[c], Handshake)
        BY <1>1, <1>2, <1>7, <2>1, <2>3 DEF IsQueues
      <3> QED  BY <1>1, <2>1, <3>1, ShakingKept
    <2> QED  BY <2>2, <2>3
  <1> QED  BY <1>1, <1>9 DEF SInv

LEMMA NextSInv == IInv /\ SInv /\ [Next]_vars => SInv'
  <1> SUFFICES ASSUME IInv, SInv, [Next]_vars PROVE SInv'  OBVIOUS
  <1>1. CASE UNCHANGED vars \/ AcceptError
    BY <1>1, OtherSteps DEF vars, client, history, AcceptError
  <1>2. ASSUME NEW k \in Conns, ReadEnd(k) PROVE SInv'
    BY <1>2, OtherSteps DEF ReadEnd, client, history
  <1>3. CASE Server
    <2>1. CASE Begin  BY <2>1, BeginShakes
    <2>2. CASE HostCycle  BY <2>2, HostShakes
    <2>3. ASSUME NEW k \in Conns,
                 ReadPlayerInfo(k) \/ ReadPlayerUpdate(k) \/ ReadPlayerDelete(k)
          PROVE  SInv'
      BY <2>3, InfoShakes, UpdateShakes, DeleteShakes
    <2> QED  BY <1>1, <1>2, <1>3, <2>1, <2>2, <2>3 DEF Server
  <1>4. ASSUME NEW k \in Conns, JoinerCycle(k) PROVE SInv'
    <2>1. UNCHANGED <<server, history>>  BY <1>4 DEF JoinerCycle
    <2> QED
      BY <1>4, <2>1, AcceptedShakes, SetupShakes, OtherShakes, FinishedShakes DEF JoinerCycle
  <1> QED  BY <1>1, <1>3, <1>4, ClientShakes DEF Next

\* The four packets of the handshake arrive once each, in spite of the broadcasts among
\* them: those OTHERPLAYERS has counted and those under way are none, or all four.
THEOREM HandshakeAlwaysExact == Spec => []HandshakeExact
  <1>1. SInv => HandshakeExact  BY DEF SInv, Shaking, HandshakeExact
  <1> QED  BY <1>1, InitSInv, NextSInv, SpecIInv, PTL DEF Spec

------------------------------------------------------------------------------
(* What a program will know when it has read everything *)

\* A set of natural numbers that holds 0 and the successors of its members holds all.
LEMMA Induct ==
  ASSUME NEW S, 0 \in S, \A n \in Nat : n \in S => n + 1 \in S
  PROVE  \A n \in Nat : n \in S
  <1> DEFINE T == {n \in Nat : n \notin S}
             R == OpToRel(<, Nat)
  <1>1. SUFFICES ASSUME T # {} PROVE FALSE  OBVIOUS
  <1>2. IsWellFoundedOn(R, Nat)  BY NatLessThanWellFounded, Zenon
  <1> HIDE DEF R
  <1>3. PICK x \in T : \A y \in T : <<y, x>> \notin R  BY <1>1, <1>2, WFMin
  <1>4. x \in Nat \ {0} /\ x - 1 \in Nat /\ <<x - 1, x>> \in R  BY DEF R, OpToRel
  <1> QED  BY <1>3, <1>4

\* What a packet does to what a program knows, and to how much of the handshake it has got,
\* where there is room in its table.
Take(s, m, self) ==
  IF s.got = CONNECTIONPACKETS THEN [s EXCEPT !.knows = Process(s.knows, m, self)]
  ELSE [knows |-> IF m.type = "CLIENTLIST"
                  THEN AddList(s.knows, m.list, DOMAIN m.list \ DOMAIN s.knows) ELSE s.knows,
        got |-> IF m.type \in Handshake THEN s.got + 1 ELSE s.got]

\* A program that reads the first m packets of q, beginning with s.
Reads(f, m, q, s, self) ==
  f = [n \in 0 .. m |-> IF n = 0 THEN s ELSE Take(f[n - 1], q[n], self)]

\* How it ends, if it reads them all.
End(q, s, self) ==
  LET after[n \in 0 .. Len(q)] == IF n = 0 THEN s ELSE Take(after[n - 1], q[n], self)
  IN  after[Len(q)]

LEMMA ReadsExists ==
  ASSUME NEW q, NEW s, NEW self
  PROVE  \A m \in Nat : \E f : Reads(f, m, q, s, self)
  <1> DEFINE S == {m \in Nat : \E f : Reads(f, m, q, s, self)}
  <1>1. 0 \in S
    <2> DEFINE f == [n \in {0} |-> s]
    <2>1. f = [n \in 0 .. 0 |-> IF n = 0 THEN s ELSE Take(f[n - 1], q[n], self)]
      OBVIOUS
    <2> QED  BY <2>1 DEF Reads
  <1>2. ASSUME NEW m \in Nat, m \in S  PROVE m + 1 \in S
    <2>1. PICK f : Reads(f, m, q, s, self)  BY <1>2
    <2> DEFINE g == [n \in 0 .. m + 1 |->
                      IF n = m + 1 THEN Take(f[m], q[m + 1], self) ELSE f[n]]
    <2>2. \A n \in 0 .. m : f[n] = IF n = 0 THEN s ELSE Take(f[n - 1], q[n], self)
      BY <2>1 DEF Reads
    <2>3. \A n \in 0 .. m + 1 :
             g[n] = IF n = 0 THEN s ELSE Take(g[n - 1], q[n], self)
      <3> TAKE n \in 0 .. m + 1
      <3>1. CASE n = m + 1
        <4>1. g[n] = Take(f[m], q[m + 1], self) /\ g[m] = f[m] /\ n - 1 = m /\ n # 0
          BY <3>1
        <4> QED  BY <3>1, <4>1
      <3>2. CASE n = 0  BY <2>2, <3>2
      <3>3. CASE n # 0 /\ n # m + 1
        <4>1. n \in 0 .. m /\ n - 1 \in 0 .. m  BY <3>3
        <4>2. g[n] = f[n] /\ g[n - 1] = f[n - 1]  BY <4>1
        <4> QED  BY <2>2, <3>3, <4>1, <4>2
      <3> QED  BY <3>1, <3>2, <3>3
    <2> HIDE DEF g
    <2>4. g = [n \in 0 .. m + 1 |-> IF n = 0 THEN s ELSE Take(g[n - 1], q[n], self)]
      <3>1. g = [n \in 0 .. m + 1 |-> g[n]]  BY DEF g
      <3> QED  BY <2>3, <3>1
    <2> QED  BY <2>4 DEF Reads
  <1>3. \A m \in Nat : m \in S
    <2> HIDE DEF S
    <2> QED  BY <1>1, <1>2, Induct
  <1> QED  BY <1>3

LEMMA ReadsSteps ==
  ASSUME NEW f, NEW m \in Nat, NEW q, NEW s, NEW self, Reads(f, m, q, s, self)
  PROVE  f[0] = s /\ \A n \in 1 .. m : f[n] = Take(f[n - 1], q[n], self)
  BY DEF Reads

\* The end is that of any such reading: there is one.
LEMMA EndReads ==
  ASSUME NEW q, IsSeq(q), NEW s, NEW self, NEW f, Reads(f, Len(q), q, s, self)
  PROVE  End(q, s, self) = f[Len(q)]
  <1> DEFINE A == CHOOSE h : Reads(h, Len(q), q, s, self)
             S == {n \in Nat : n <= Len(q) => A[n] = f[n]}
  <1>1. Len(q) \in Nat  BY DEF IsSeq
  <1>2. Reads(A, Len(q), q, s, self)
    <2>1. \E h : Reads(h, Len(q), q, s, self)  OBVIOUS
    <2> QED  BY <2>1
  <1>3. End(q, s, self) = A[Len(q)]  BY DEF End, Reads
  <1> HIDE DEF A
  <1>4. /\ A[0] = s /\ f[0] = s
        /\ \A n \in 1 .. Len(q) : A[n] = Take(A[n - 1], q[n], self)
        /\ \A n \in 1 .. Len(q) : f[n] = Take(f[n - 1], q[n], self)
    BY <1>1, <1>2, ReadsSteps
  <1>5. 0 \in S  BY <1>4
  <1>6. ASSUME NEW n \in Nat, n \in S  PROVE n + 1 \in S
    <2>1. CASE n + 1 <= Len(q)
      <3>1. n + 1 \in 1 .. Len(q) /\ (n + 1) - 1 = n /\ n <= Len(q)  BY <1>1, <2>1
      <3> QED  BY <1>4, <1>6, <3>1
    <2>2. CASE ~(n + 1 <= Len(q))  BY <2>2
    <2> QED  BY <2>1, <2>2
  <1>7. \A n \in Nat : n \in S
    <2> HIDE DEF S
    <2> QED  BY <1>5, <1>6, Induct
  <1> QED  BY <1>1, <1>3, <1>7

LEMMA EndFrom ==
  ASSUME NEW q, IsSeq(q), NEW s, NEW self
  PROVE  \E f : /\ End(q, s, self) = f[Len(q)] /\ f[0] = s
                /\ \A n \in 1 .. Len(q) : f[n] = Take(f[n - 1], q[n], self)
                /\ \A n \in 1 .. Len(q) : q[n] \in Elems(q)
                /\ Len(q) \in Nat
  <1>1. Len(q) \in Nat  BY DEF IsSeq
  <1>2. PICK f : Reads(f, Len(q), q, s, self)  BY <1>1, ReadsExists
  <1>3. f[0] = s /\ \A n \in 1 .. Len(q) : f[n] = Take(f[n - 1], q[n], self)
    BY <1>1, <1>2 DEF Reads
  <1>4. End(q, s, self) = f[Len(q)]  BY <1>2, EndReads
  <1> QED  BY <1>1, <1>2, <1>3, <1>4 DEF Elems

LEMMA EndEmpty == \A s, self : End(<<>>, s, self) = s
  <1> TAKE s, self
  <1>1. PICK f : f[0] = s /\ End(<<>>, s, self) = f[Len(<<>>)]
    BY EmptySeq, EndFrom
  <1> QED  BY <1>1

\* The first packet is read first, the last one last.
LEMMA EndTail ==
  ASSUME NEW q, IsSeq(q), q # <<>>, NEW s, NEW self
  PROVE  End(q, s, self) = End(Tail(q), Take(s, Head(q), self), self)
  <1>1. PICK f : /\ End(q, s, self) = f[Len(q)] /\ f[0] = s
                 /\ \A n \in 1 .. Len(q) : f[n] = Take(f[n - 1], q[n], self)
    BY EndFrom
  <1>2. PICK S : q \in Seq(S)  BY DEF IsSeq
  <1>3. /\ Len(q) \in Nat \ {0} /\ Len(Tail(q)) = Len(q) - 1 /\ Head(q) = q[1]
        /\ \A n \in 1 .. Len(q) - 1 : Tail(q)[n] = q[n + 1]
    BY <1>2
  <1> DEFINE t == Take(s, Head(q), self)
             g == [n \in 0 .. Len(q) - 1 |-> f[n + 1]]
  <1>4. \A n \in 0 .. Len(q) - 1 :
           g[n] = IF n = 0 THEN t ELSE Take(g[n - 1], Tail(q)[n], self)
    <2> TAKE n \in 0 .. Len(q) - 1
    <2>1. CASE n = 0
      <3>1. 1 \in 1 .. Len(q)  BY <1>3
      <3> QED  BY <1>1, <1>3, <2>1, <3>1
    <2>2. CASE n # 0
      <3>1. /\ n + 1 \in 1 .. Len(q) /\ n - 1 \in 0 .. Len(q) - 1 /\ n \in 1 .. Len(q) - 1
            /\ (n - 1) + 1 = n /\ (n + 1) - 1 = n
        BY <1>3, <2>2
      <3>2. g[n] = f[n + 1] /\ g[n - 1] = f[n] /\ Tail(q)[n] = q[n + 1]  BY <1>3, <3>1
      <3>3. f[n + 1] = Take(f[n], q[n + 1], self)  BY <1>1, <3>1
      <3> QED  BY <2>2, <3>2, <3>3
    <2> QED  BY <2>1, <2>2
  <1>5. g[Len(q) - 1] = f[Len(q)]  BY <1>3
  <1>6. g = [n \in 0 .. Len(q) - 1 |-> g[n]]  OBVIOUS
  <1> HIDE DEF g
  <1>7. g = [n \in 0 .. Len(q) - 1 |->
               IF n = 0 THEN t ELSE Take(g[n - 1], Tail(q)[n], self)]
    BY <1>4, <1>6
  <1>8. Reads(g, Len(Tail(q)), Tail(q), t, self)  BY <1>3, <1>7 DEF Reads
  <1>9. IsSeq(Tail(q))  BY TailSeq
  <1>10. End(Tail(q), t, self) = g[Len(Tail(q))]
    <2> HIDE DEF t
    <2> QED  BY <1>8, <1>9, EndReads
  <1> QED  BY <1>1, <1>3, <1>5, <1>10

LEMMA EndLast ==
  ASSUME NEW q, IsSeq(q), NEW m, NEW s, NEW self
  PROVE  End(q \o <<m>>, s, self) = Take(End(q, s, self), m, self)
  <1>1. PICK f : /\ End(q, s, self) = f[Len(q)] /\ f[0] = s
                 /\ \A n \in 1 .. Len(q) : f[n] = Take(f[n - 1], q[n], self)
    BY EndFrom
  <1>2. PICK S : q \in Seq(S)  BY DEF IsSeq
  <1> DEFINE p == q \o <<m>>
             L == Len(q)
             g == [n \in 0 .. L + 1 |-> IF n = L + 1 THEN Take(f[L], m, self) ELSE f[n]]
  <1>3. /\ L \in Nat /\ Len(p) = L + 1 /\ p[L + 1] = m
        /\ \A n \in 1 .. L : p[n] = q[n]
    <2>1. q \in Seq(S \cup {m}) /\ <<m>> \in Seq(S \cup {m}) /\ Len(<<m>>) = 1 /\ <<m>>[1] = m
      BY <1>2
    <2> QED  BY <2>1
  <1>4. IsSeq(p)  BY ConcatSeq, OneSeq
  <1> HIDE DEF L, p
  <1>5. \A n \in 0 .. L + 1 : g[n] = IF n = 0 THEN s ELSE Take(g[n - 1], p[n], self)
    <2> TAKE n \in 0 .. L + 1
    <2>1. CASE n = L + 1
      <3>1. g[n] = Take(f[L], m, self) /\ g[n - 1] = f[L] /\ n # 0  BY <1>3, <2>1
      <3> QED  BY <1>3, <2>1, <3>1
    <2>2. CASE n = 0  BY <1>1, <1>3, <2>2
    <2>3. CASE n # 0 /\ n # L + 1
      <3>1. n \in 1 .. L /\ n - 1 \in 0 .. L + 1 /\ n - 1 # L + 1  BY <1>3, <2>3
      <3>2. g[n] = f[n] /\ g[n - 1] = f[n - 1] /\ p[n] = q[n]  BY <1>3, <2>3, <3>1
      <3>3. f[n] = Take(f[n - 1], q[n], self)  BY <1>1, <3>1 DEF L
      <3> QED  BY <2>3, <3>2, <3>3
    <2> QED  BY <2>1, <2>2, <2>3
  <1>6. g[L + 1] = Take(f[L], m, self)  BY <1>3
  <1>7. g = [n \in 0 .. L + 1 |-> g[n]]  OBVIOUS
  <1> HIDE DEF g
  <1>8. g = [n \in 0 .. L + 1 |-> IF n = 0 THEN s ELSE Take(g[n - 1], p[n], self)]
    BY <1>5, <1>7
  <1>9. Reads(g, Len(p), p, s, self)  BY <1>3, <1>8 DEF Reads
  <1>10. End(p, s, self) = g[Len(p)]  BY <1>4, <1>9, EndReads
  <1> QED  BY <1>1, <1>3, <1>6, <1>10 DEF p, L


\* A program in the game.
InGame(table) == [knows |-> table, got |-> CONNECTIONPACKETS]

LEMMA TakeInGame ==
  ASSUME NEW table, NEW m, NEW self
  PROVE  Take(InGame(table), m, self) = InGame(Process(table, m, self))
  <1> DEFINE s == InGame(table)
             p == Process(table, m, self)
  <1>1. s = [knows |-> table, got |-> CONNECTIONPACKETS] /\ s.got = CONNECTIONPACKETS
        /\ s.knows = table
    BY DEF InGame
  <1>2. Take(s, m, self) = [s EXCEPT !.knows = p]  BY <1>1 DEF Take
  <1> HIDE DEF p
  <1>3. [s EXCEPT !.knows = p] = [knows |-> p, got |-> CONNECTIONPACKETS]
    BY <1>1
  <1> QED  BY <1>2, <1>3 DEF InGame, p

\* What it will know.
Knows(q, table, self) == End(q, InGame(table), self).knows

LEMMA StaysInGame ==
  ASSUME NEW L \in Nat, NEW f, NEW q, NEW self, NEW table, f[0] = InGame(table),
         \A n \in 1 .. L : f[n] = Take(f[n - 1], q[n], self)
  PROVE  \A n \in 0 .. L : f[n] = InGame(f[n].knows)
  <1> DEFINE S == {n \in Nat : n <= L => f[n] = InGame(f[n].knows)}
  <1>1. \A t : InGame(t).knows = t  BY DEF InGame
  <1>2. 0 \in S  BY <1>1
  <1>3. ASSUME NEW n \in Nat, n \in S  PROVE n + 1 \in S
    <2>1. SUFFICES ASSUME n + 1 <= L PROVE f[n + 1] = InGame(f[n + 1].knows)  OBVIOUS
    <2>2. n + 1 \in 1 .. L /\ (n + 1) - 1 = n /\ f[n] = InGame(f[n].knows)
      BY <1>3, <2>1
    <2>3. f[n + 1] = Take(f[n], q[n + 1], self)  BY <2>2
    <2>4. Take(InGame(f[n].knows), q[n + 1], self) = InGame(Process(f[n].knows, q[n + 1], self))
      BY TakeInGame
    <2> QED  BY <1>1, <2>2, <2>3, <2>4
  <1>4. \A n \in Nat : n \in S
    <2> HIDE DEF S
    <2> QED  BY <1>2, <1>3, Induct
  <1> QED  BY <1>4

LEMMA KnowsFrom ==
  ASSUME NEW q, IsSeq(q), NEW table, NEW self
  PROVE  \E f : /\ Knows(q, table, self) = f[Len(q)] /\ f[0] = table
                /\ \A n \in 1 .. Len(q) : f[n] = Process(f[n - 1], q[n], self)
                /\ \A n \in 1 .. Len(q) : q[n] \in Elems(q)
                /\ Len(q) \in Nat
  <1>1. PICK f : /\ End(q, InGame(table), self) = f[Len(q)] /\ f[0] = InGame(table)
                 /\ \A n \in 1 .. Len(q) : f[n] = Take(f[n - 1], q[n], self)
                 /\ \A n \in 1 .. Len(q) : q[n] \in Elems(q)
                 /\ Len(q) \in Nat
    BY EndFrom
  <1> DEFINE g == [n \in 0 .. Len(q) |-> f[n].knows]
  <1>2. \A t : InGame(t).knows = t  BY DEF InGame
  <1>3. \A n \in 0 .. Len(q) : f[n] = InGame(f[n].knows)
    <2> DEFINE L == Len(q)
    <2>1. /\ L \in Nat /\ f[0] = InGame(table)
          /\ \A n \in 1 .. L : f[n] = Take(f[n - 1], q[n], self)
      BY <1>1
    <2> HIDE DEF L
    <2>2. \A n \in 0 .. L : f[n] = InGame(f[n].knows)  BY <2>1, StaysInGame
    <2> QED  BY <2>2 DEF L
  <1>6. \A n \in 0 .. Len(q) : f[n] = InGame(g[n])  BY <1>3
  <1>7. g[0] = table  BY <1>1, <1>2
  <1>8. \A n \in 1 .. Len(q) : g[n] = Process(g[n - 1], q[n], self)
    <2> TAKE n \in 1 .. Len(q)
    <2>1. n \in 0 .. Len(q) /\ n - 1 \in 0 .. Len(q)  BY <1>1
    <2> HIDE DEF g
    <2>2. f[n] = Take(InGame(g[n - 1]), q[n], self) /\ f[n] = InGame(g[n])
      BY <1>1, <1>6, <2>1
    <2>3. Take(InGame(g[n - 1]), q[n], self) = InGame(Process(g[n - 1], q[n], self))
      BY TakeInGame
    <2> QED  BY <1>2, <2>2, <2>3
  <1>9. g[Len(q)] = Knows(q, table, self)  BY <1>1 DEF Knows
  <1> HIDE DEF g
  <1> QED  BY <1>1, <1>7, <1>8, <1>9

\* Who is in the game stays in it.
LEMMA EndInGame ==
  ASSUME NEW q, IsSeq(q), NEW table, NEW self
  PROVE  End(q, InGame(table), self) = InGame(Knows(q, table, self))
  <1>1. PICK f : /\ End(q, InGame(table), self) = f[Len(q)] /\ f[0] = InGame(table)
                 /\ \A n \in 1 .. Len(q) : f[n] = Take(f[n - 1], q[n], self)
                 /\ \A n \in 1 .. Len(q) : q[n] \in Elems(q)
                 /\ Len(q) \in Nat
    BY EndFrom
  <1>2. \A n \in 0 .. Len(q) : f[n] = InGame(f[n].knows)
    <2> DEFINE L == Len(q)
    <2>1. /\ L \in Nat /\ f[0] = InGame(table)
          /\ \A n \in 1 .. L : f[n] = Take(f[n - 1], q[n], self)
      BY <1>1
    <2> HIDE DEF L
    <2>2. \A n \in 0 .. L : f[n] = InGame(f[n].knows)  BY <2>1, StaysInGame
    <2> QED  BY <2>2 DEF L
  <1> QED  BY <1>1, <1>2 DEF Knows

LEMMA KnowsIs ==
  ASSUME NEW q, IsSeq(q), NEW table, NEW self
  PROVE  Knows(q, table, self) =
           LET after[n \in 0 .. Len(q)] ==
                 IF n = 0 THEN table ELSE Process(after[n - 1], q[n], self)
           IN  after[Len(q)]
  <1> DEFINE Is(h) == h = [n \in 0 .. Len(q) |->
                        IF n = 0 THEN table ELSE Process(h[n - 1], q[n], self)]
             A == CHOOSE h : Is(h)
  <1>1. PICK f : /\ Knows(q, table, self) = f[Len(q)] /\ f[0] = table
                 /\ \A n \in 1 .. Len(q) : f[n] = Process(f[n - 1], q[n], self)
                 /\ Len(q) \in Nat
    BY KnowsFrom
  <1> DEFINE g == [n \in 0 .. Len(q) |-> f[n]]
  <1>2. \A n \in 0 .. Len(q) :
           g[n] = IF n = 0 THEN table ELSE Process(g[n - 1], q[n], self)
    <2> TAKE n \in 0 .. Len(q)
    <2>1. CASE n = 0  BY <1>1, <2>1
    <2>2. CASE n # 0
      <3>1. n \in 1 .. Len(q) /\ n - 1 \in 0 .. Len(q)  BY <1>1, <2>2
      <3> QED  BY <1>1, <2>2, <3>1
    <2> QED  BY <2>1, <2>2
  <1>3. g[Len(q)] = f[Len(q)] /\ g = [n \in 0 .. Len(q) |-> g[n]]  BY <1>1
  <1> HIDE DEF g
  <1>4. Is(g)  BY <1>2, <1>3
  <1>5. Is(A)
    <2>1. \E h : Is(h)  BY <1>4
    <2> HIDE DEF Is
    <2> QED  BY <2>1
  <1> HIDE DEF A
  <1>6. ASSUME NEW h, Is(h)
        PROVE  h[0] = table /\ \A n \in 1 .. Len(q) : h[n] = Process(h[n - 1], q[n], self)
    BY <1>1, <1>6
  <1> HIDE DEF Is
  <1>7. /\ A[0] = table /\ g[0] = table
        /\ \A n \in 1 .. Len(q) : A[n] = Process(A[n - 1], q[n], self)
        /\ \A n \in 1 .. Len(q) : g[n] = Process(g[n - 1], q[n], self)
    BY <1>4, <1>5, <1>6
  <1> DEFINE S == {n \in Nat : n <= Len(q) => A[n] = g[n]}
  <1>8. 0 \in S  BY <1>7
  <1>9. ASSUME NEW n \in Nat, n \in S  PROVE n + 1 \in S
    <2>1. CASE n + 1 <= Len(q)
      <3>1. n + 1 \in 1 .. Len(q) /\ (n + 1) - 1 = n /\ n <= Len(q)  BY <1>1, <2>1
      <3> QED  BY <1>7, <1>9, <3>1
    <2>2. CASE ~(n + 1 <= Len(q))  BY <2>2
    <2> QED  BY <2>1, <2>2
  <1>10. \A n \in Nat : n \in S
    <2> HIDE DEF S
    <2> QED  BY <1>8, <1>9, Induct
  <1>11. A[Len(q)] = Knows(q, table, self)  BY <1>1, <1>3, <1>10
  <1> QED  BY <1>11 DEF A, Is

LEMMA WillKnowIs ==
  ASSUME NEW c, IsSeq(toClient[c])
  PROVE  WillKnow(c) = Knows(toClient[c], player[c], playerId[c])
  <1>1. WillKnow(c) = LET after[n \in 0 .. Len(toClient[c])] ==
                            IF n = 0 THEN player[c]
                            ELSE Process(after[n - 1], toClient[c][n], playerId[c])
                      IN  after[Len(toClient[c])]
    BY DEF WillKnow
  <1> QED  BY <1>1, KnowsIs

LEMMA KnowsEmpty == \A table, self : Knows(<<>>, table, self) = table
  BY EndEmpty DEF Knows, InGame

LEMMA KnowsTail ==
  ASSUME NEW q, IsSeq(q), q # <<>>, NEW table, NEW self
  PROVE  Knows(q, table, self) = Knows(Tail(q), Process(table, Head(q), self), self)
  <1>1. End(q, InGame(table), self)
          = End(Tail(q), Take(InGame(table), Head(q), self), self)
    BY EndTail
  <1>2. Take(InGame(table), Head(q), self) = InGame(Process(table, Head(q), self))
    BY TakeInGame
  <1> QED  BY <1>1, <1>2 DEF Knows

LEMMA KnowsLast ==
  ASSUME NEW q, IsSeq(q), NEW m, NEW table, NEW self
  PROVE  Knows(q \o <<m>>, table, self) = Process(Knows(q, table, self), m, self)
  <1>1. End(q \o <<m>>, InGame(table), self) = Take(End(q, InGame(table), self), m, self)
    BY EndLast
  <1>2. End(q, InGame(table), self) = InGame(Knows(q, table, self))  BY EndInGame
  <1>3. Take(InGame(Knows(q, table, self)), m, self)
          = InGame(Process(Knows(q, table, self), m, self))
    BY TakeInGame
  <1>4. \A t : InGame(t).knows = t  BY DEF InGame
  <1> QED  BY <1>1, <1>2, <1>3, <1>4 DEF Knows

\* Whom a packet adds or takes away, where there is room for all numbers.
LEMMA ProcessDomain ==
  ASSUME NEW N, IsFiniteSet(N), Cardinality(N) < MAXPLAYERS,
         NEW table, DOMAIN table \subseteq N, NEW m, NEW self
  PROVE  DOMAIN Process(table, m, self) =
           IF m.type = "DELETECLIENT" THEN DOMAIN table \ {m.id}
           ELSE IF m.type = "CLIENTADD" THEN DOMAIN table \cup {m.id} ELSE DOMAIN table
  <1>1. CASE m.type = "DELETECLIENT"  BY <1>1 DEF Process, DeletePlayer
  <1>2. CASE m.type = "CLIENTADD"
    <2>1. Process(table, m, self) = CreatePlayer(table, m.id, m.info)  BY <1>2 DEF Process
    <2>2. Cardinality(DOMAIN table) <= Cardinality(N) /\ Cardinality(DOMAIN table) \in Nat
          /\ Cardinality(N) \in Nat
      BY FS_Subset, FS_CardinalityType
    <2>3. ~(Cardinality(DOMAIN table) >= MAXPLAYERS)  BY <2>2, NetAssumption
    <2>4. CASE m.id \in DOMAIN table  BY <1>2, <2>1, <2>4 DEF CreatePlayer, Known
    <2>5. CASE m.id \notin DOMAIN table
      <3>1. Process(table, m, self) = Enter(table, m.id, m.info)
        BY <2>1, <2>3, <2>5 DEF CreatePlayer, Known
      <3> QED  BY <1>2, <3>1 DEF Enter
    <2> QED  BY <2>4, <2>5
  <1>3. CASE m.type \notin {"DELETECLIENT", "CLIENTADD"}
    <2>1. Process(table, m, self) = Update(table, m.poses, self)
          \/ Process(table, m, self) = table
      BY <1>3 DEF Process
    <2> QED  BY <1>3, <2>1 DEF Update
  <1> QED  BY <1>1, <1>2, <1>3

\* One who reads the same packets knows the same, but for those it knew more at first.
LEMMA KnowsMore ==
  ASSUME NEW N, IsFiniteSet(N), Cardinality(N) < MAXPLAYERS,
         NEW q, IsSeq(q), \A m \in Elems(q) : m.type = "CLIENTADD" => m.id \in N,
         NEW t, DOMAIN t \subseteq N, NEW self, NEW u, NEW other, NEW X,
         DOMAIN u \subseteq DOMAIN t, DOMAIN t \subseteq DOMAIN u \cup X
  PROVE  /\ DOMAIN Knows(q, t, self) \subseteq N
         /\ DOMAIN Knows(q, u, other) \subseteq DOMAIN Knows(q, t, self)
         /\ DOMAIN Knows(q, t, self) \subseteq DOMAIN Knows(q, u, other) \cup X
  <1>1. PICK f : /\ Knows(q, t, self) = f[Len(q)] /\ f[0] = t
                 /\ \A n \in 1 .. Len(q) : f[n] = Process(f[n - 1], q[n], self)
                 /\ \A n \in 1 .. Len(q) : q[n] \in Elems(q)
                 /\ Len(q) \in Nat
    BY KnowsFrom
  <1>2. PICK g : /\ Knows(q, u, other) = g[Len(q)] /\ g[0] = u
                 /\ \A n \in 1 .. Len(q) : g[n] = Process(g[n - 1], q[n], other)
    BY KnowsFrom
  <1> DEFINE Near(n) == /\ DOMAIN f[n] \subseteq N
                        /\ DOMAIN g[n] \subseteq DOMAIN f[n]
                        /\ DOMAIN f[n] \subseteq DOMAIN g[n] \cup X
             S == {n \in Nat : n <= Len(q) => Near(n)}
  <1>3. 0 \in S  BY <1>1, <1>2
  <1>4. ASSUME NEW n \in Nat, n \in S  PROVE n + 1 \in S
    <2>1. SUFFICES ASSUME n + 1 <= Len(q) PROVE Near(n + 1)  OBVIOUS
    <2>2. n + 1 \in 1 .. Len(q) /\ (n + 1) - 1 = n /\ Near(n)  BY <1>1, <1>4, <2>1
    <2> DEFINE m == q[n + 1]
               F == f[n]
               G == g[n]
    <2>3. /\ f[n + 1] = Process(F, m, self) /\ g[n + 1] = Process(G, m, other)
          /\ DOMAIN F \subseteq N /\ DOMAIN G \subseteq N
          /\ DOMAIN G \subseteq DOMAIN F /\ DOMAIN F \subseteq DOMAIN G \cup X
          /\ m.type = "CLIENTADD" => m.id \in N
      BY <1>1, <1>2, <2>2
    <2> HIDE DEF m, F, G
    <2>4. DOMAIN Process(F, m, self) =
            IF m.type = "DELETECLIENT" THEN DOMAIN F \ {m.id}
            ELSE IF m.type = "CLIENTADD" THEN DOMAIN F \cup {m.id} ELSE DOMAIN F
      BY <2>3, ProcessDomain
    <2>5. DOMAIN Process(G, m, other) =
            IF m.type = "DELETECLIENT" THEN DOMAIN G \ {m.id}
            ELSE IF m.type = "CLIENTADD" THEN DOMAIN G \cup {m.id} ELSE DOMAIN G
      BY <2>3, ProcessDomain
    <2> QED  BY <2>3, <2>4, <2>5
  <1>5. \A n \in Nat : n \in S
    <2> HIDE DEF S
    <2> QED  BY <1>3, <1>4, Induct
  <1>6. Near(Len(q))  BY <1>1, <1>5
  <1> QED  BY <1>1, <1>2, <1>6

\* Whom no packet deletes stays.
LEMMA KnowsKept ==
  ASSUME NEW N, IsFiniteSet(N), Cardinality(N) < MAXPLAYERS,
         NEW q, IsSeq(q), \A m \in Elems(q) : m.type = "CLIENTADD" => m.id \in N,
         NEW t, DOMAIN t \subseteq N, NEW self, NEW id \in DOMAIN t,
         \A m \in Elems(q) : m.type = "DELETECLIENT" => m.id # id
  PROVE  id \in DOMAIN Knows(q, t, self)
  <1>1. PICK f : /\ Knows(q, t, self) = f[Len(q)] /\ f[0] = t
                 /\ \A n \in 1 .. Len(q) : f[n] = Process(f[n - 1], q[n], self)
                 /\ \A n \in 1 .. Len(q) : q[n] \in Elems(q)
                 /\ Len(q) \in Nat
    BY KnowsFrom
  <1> DEFINE S == {n \in Nat : n <= Len(q) => DOMAIN f[n] \subseteq N /\ id \in DOMAIN f[n]}
  <1>2. 0 \in S  BY <1>1
  <1>3. ASSUME NEW n \in Nat, n \in S  PROVE n + 1 \in S
    <2>1. SUFFICES ASSUME n + 1 <= Len(q)
                   PROVE  DOMAIN f[n + 1] \subseteq N /\ id \in DOMAIN f[n + 1]
      OBVIOUS
    <2>2. n + 1 \in 1 .. Len(q) /\ (n + 1) - 1 = n
          /\ DOMAIN f[n] \subseteq N /\ id \in DOMAIN f[n]
      BY <1>1, <1>3, <2>1
    <2> DEFINE m == q[n + 1]
               F == f[n]
    <2>3. /\ f[n + 1] = Process(F, m, self) /\ DOMAIN F \subseteq N /\ id \in DOMAIN F
          /\ m.type = "CLIENTADD" => m.id \in N
          /\ m.type = "DELETECLIENT" => m.id # id
      BY <1>1, <2>2
    <2> HIDE DEF m, F
    <2>4. DOMAIN Process(F, m, self) =
            IF m.type = "DELETECLIENT" THEN DOMAIN F \ {m.id}
            ELSE IF m.type = "CLIENTADD" THEN DOMAIN F \cup {m.id} ELSE DOMAIN F
      BY <2>3, ProcessDomain
    <2> QED  BY <2>3, <2>4
  <1>4. \A n \in Nat : n \in S
    <2> HIDE DEF S
    <2> QED  BY <1>2, <1>3, Induct
  <1> QED  BY <1>1, <1>4

------------------------------------------------------------------------------
(* Those whom the host will know *)

HostStages == stage[Host] \in {"waiting", "FINISHED", "faulted"}

\* The host is the first of its group.
HostFirst == Host \in group \/ (group = {} /\ backlog # <<>> /\ Head(backlog) = Host)

\* A PLAYERINFO names the socket it comes from, a PLAYERDELETE is the last thing sent.
Introductions ==
  \A c \in Conns : \A m \in Elems(toServer[c]) :
    m.type = "PLAYERINFO" => c # Host /\ c \in group /\ m.id = sock[c]
DeleteLast ==
  \A c \in Conns : \A i \in 1 .. Len(toServer[c]) :
    toServer[c][i].type = "PLAYERDELETE" => i = Len(toServer[c])

\* Those in the game, the host only once it has made its own player.
Members == joined \cup (IF stage[Host] = "FINISHED" THEN {Host} ELSE {})
Numbered(S) == {sock[c] : c \in S}

WillKnowMembers ==
  stage[Host] # "faulted" /\ Host \notin wiped
  => DOMAIN Knows(toClient[Host], player[Host], playerId[Host]) = Numbered(Members)

KInv ==
  /\ HostStages /\ HostFirst /\ joined \subseteq group /\ Introductions /\ DeleteLast
  /\ WillKnowMembers

LEMMA InitKInv == Init => KInv
  <1> SUFFICES ASSUME Init PROVE KInv  OBVIOUS
  <1>1. Host \in Conns  BY DEF Conns
  <1>2. /\ stage[Host] = "waiting" /\ toClient[Host] = <<>> /\ player[Host] = <<>>
        /\ joined = {} /\ group = {} /\ backlog = <<Host>>
        /\ \A c \in Conns : toServer[c] = <<>>
    BY <1>1 DEF Init, NoOne
  <1>3. Knows(toClient[Host], player[Host], playerId[Host]) = <<>>  BY <1>2, KnowsEmpty
  <1>4. WillKnowMembers
    <2>1. DOMAIN <<>> = {}  OBVIOUS
    <2>2. Numbered(Members) = {}  BY <1>2 DEF Members, Numbered
    <2> QED  BY <1>3, <2>1, <2>2 DEF WillKnowMembers
  <1>5. Introductions /\ DeleteLast
    BY <1>2, EmptySeq DEF Introductions, DeleteLast
  <1> QED  BY <1>2, <1>4, <1>5 DEF KInv, HostStages, HostFirst

LEMMA NumbersFinite ==
  ASSUME IInv
  PROVE  /\ IsFiniteSet(0 .. nextSocket - 1) /\ Cardinality(0 .. nextSocket - 1) < MAXPLAYERS
         /\ nextSocket \in Nat
  <1>1. nextSocket \in Nat /\ nextSocket < MAXPLAYERS  BY DEF IInv, Sockets
  <1>2. IsFiniteSet(0 .. nextSocket - 1) /\ Cardinality(0 .. nextSocket - 1) = nextSocket
    BY <1>1, FS_Interval
  <1> QED  BY <1>1, <1>2

\* What a program sends comes last in its queue.
LEMMA SendKeeps ==
  ASSUME IInv, KInv, NEW k \in Conns, NEW x,
         \A c \in Conns : c # k => toServer'[c] = toServer[c],
         \/ toServer'[k] = toServer[k]
         \/ /\ toServer'[k] = toServer[k] \o <<x>> \/ toServer'[k] = Append(toServer[k], x)
            /\ InSession(k)
            /\ x.type = "PLAYERINFO" => k # Host /\ x.id = sock[k],
         UNCHANGED <<group, sock>>
  PROVE  Introductions' /\ DeleteLast'
  <1>1. CASE toServer'[k] = toServer[k]
    BY <1>1 DEF KInv, Introductions, DeleteLast
  <1>2. CASE toServer'[k] # toServer[k]
    <2>1. k \in group /\ stage[k] # "gone"  BY <1>2 DEF IInv, Sessions, InSession
    <2>2. IsSeq(toServer[k])  BY DEF IInv, Types, IsQueues
    <2>3. PICK S : toServer[k] \in Seq(S)  BY <2>2 DEF IsSeq
    <2> DEFINE q == toServer[k]
               p == toServer'[k]
    <2>4. /\ Len(q) \in Nat /\ Len(p) = Len(q) + 1 /\ p[Len(q) + 1] = x
          /\ \A i \in 1 .. Len(q) : p[i] = q[i]
      <3>1. q \in Seq(S \cup {x}) /\ <<x>> \in Seq(S \cup {x}) /\ Len(<<x>>) = 1 /\ <<x>>[1] = x
            /\ x \in S \cup {x}
        BY <2>3
      <3>2. CASE p = q \o <<x>>  BY <3>1, <3>2
      <3>3. CASE p = Append(q, x)  BY <3>1, <3>3
      <3> QED  BY <1>2, <3>2, <3>3
    <2>5. \A i \in 1 .. Len(q) : q[i] \in Elems(q)  BY DEF Elems
    <2>6. \A m \in Elems(p) : m \in Elems(q) \/ m = x  BY <2>4 DEF Elems
    <2>7. \A m \in Elems(q) : m.type # "PLAYERDELETE"  BY <2>1 DEF IInv, Sessions
    <2>8. \A i \in 1 .. Len(p) : p[i].type = "PLAYERDELETE" => i = Len(p)
      BY <2>4, <2>5, <2>7
    <2>9. \A m \in Elems(p) : m.type = "PLAYERINFO" => k # Host /\ k \in group /\ m.id = sock[k]
      BY <1>2, <2>1, <2>6 DEF KInv, Introductions
    <2>10. \A c \in Conns : c # k => toServer'[c] = toServer[c]  OBVIOUS
    <2> HIDE DEF p, q
    <2>11. Introductions'
      <3> SUFFICES ASSUME NEW c \in Conns, NEW m \in Elems(toServer'[c]), m.type = "PLAYERINFO"
                   PROVE  c # Host /\ c \in group /\ m.id = sock[c]
        BY DEF Introductions
      <3>1. CASE c = k  BY <2>9, <3>1 DEF p
      <3>2. CASE c # k  BY <2>10, <3>2 DEF KInv, Introductions
      <3> QED  BY <3>1, <3>2
    <2>12. DeleteLast'
      <3> SUFFICES ASSUME NEW c \in Conns, NEW i \in 1 .. Len(toServer'[c]),
                          toServer'[c][i].type = "PLAYERDELETE"
                   PROVE  i = Len(toServer'[c])
        BY DEF DeleteLast
      <3>1. CASE c = k  BY <2>8, <3>1 DEF p
      <3>2. CASE c # k  BY <2>10, <3>2 DEF KInv, DeleteLast
      <3> QED  BY <3>1, <3>2
    <2> QED  BY <2>11, <2>12
  <1> QED  BY <1>1, <1>2

\* Steps of others, of which the host sees nothing.
LEMMA AsideStep ==
  ASSUME KInv,
         toClient'[Host] = toClient[Host], player'[Host] = player[Host],
         playerId'[Host] = playerId[Host], stage'[Host] = stage[Host],
         wiped \subseteq wiped', UNCHANGED <<joined, group, sock>>,
         \/ backlog' = backlog
         \/ backlog # <<>> => backlog' # <<>> /\ Head(backlog') = Head(backlog),
         Introductions', DeleteLast'
  PROVE  KInv'
  <1>1. WillKnowMembers'  BY DEF KInv, WillKnowMembers, Members, Numbered
  <1> QED  BY <1>1 DEF KInv, HostStages, HostFirst

LEMMA ConnectAside ==
  ASSUME IInv, KInv, NEW k \in Conns, Connect(k)
  PROVE  KInv'
  <1>1. /\ k # Host /\ stage' = [stage EXCEPT ![k] = "waiting"] /\ backlog' = Append(backlog, k)
        /\ UNCHANGED <<playerId, player, group, sock, toServer, toClient, joined, wiped>>
    BY DEF Connect, history
  <1>2. PICK S : backlog \in Seq(S)  BY DEF IInv, Types, IsSeq
  <1>3. backlog # <<>> => backlog' # <<>> /\ Head(backlog') = Head(backlog)
    <2>1. backlog \in Seq(S \cup {k}) /\ k \in S \cup {k}  BY <1>2
    <2> QED  BY <1>1, <2>1
  <1>4. Introductions' /\ DeleteLast'
    BY <1>1 DEF KInv, Introductions, DeleteLast
  <1>5. stage'[Host] = stage[Host]  BY <1>1 DEF IInv, Types
  <1> QED  BY <1>1, <1>3, <1>4, <1>5, AsideStep

\* What else others do before, after and beside the game.
LEMMA OtherAside ==
  ASSUME IInv, KInv, NEW k \in Conns,
         GetAcceptance(k) \/ Timeout(k) \/ SendDelete(k) \/ Disappear(k) \/ Move(k)
  PROVE  KInv'
  <1>1. /\ toClient'[Host] = toClient[Host] /\ player'[Host] = player[Host]
        /\ playerId'[Host] = playerId[Host] /\ stage'[Host] = stage[Host]
        /\ UNCHANGED <<joined, wiped, group, sock, backlog>>
    <2>1. CASE GetAcceptance(k)
      BY <2>1 DEF GetAcceptance, Accepted, server, history, IInv, Types, IsQueues
    <2>2. CASE Timeout(k)  BY <2>2 DEF Timeout, server, history, IInv, Types
    <2>3. CASE SendDelete(k)  BY <2>3 DEF SendDelete, server, history, IInv, Types, IsQueues
    <2>4. CASE Disappear(k)  BY <2>4 DEF Disappear, server, history, IInv, Types, IsQueues
    <2>5. CASE Move(k)  BY <2>5 DEF Move, server, history, IInv, Types
    <2> QED  BY <2>1, <2>2, <2>3, <2>4, <2>5
  <1>2. Introductions' /\ DeleteLast'
    <2>1. CASE UNCHANGED toServer
      BY <1>1, <2>1 DEF KInv, Introductions, DeleteLast
    <2>2. CASE SendDelete(k)
      <3> DEFINE x == Msg("PLAYERDELETE")
      <3>1. /\ toServer'[k] = Append(toServer[k], x) /\ InSession(k) /\ x.type = "PLAYERDELETE"
            /\ \A c \in Conns : c # k => toServer'[c] = toServer[c]
        BY <2>2 DEF SendDelete, Msg, IInv, Types, IsQueues
      <3> HIDE DEF x
      <3> QED  BY <1>1, <3>1, SendKeeps
    <2>3. CASE ~SendDelete(k)
      <3>1. UNCHANGED toServer
        BY <2>3 DEF GetAcceptance, Timeout, Disappear, Move
      <3> QED  BY <2>1, <3>1
    <2> QED  BY <2>2, <2>3
  <1> QED  BY <1>1, <1>2, AsideStep

LEMMA JoinerAside ==
  ASSUME IInv, KInv, NEW k \in Conns, JoinerCycle(k)
  PROVE  KInv'
  <1>1. k # Host /\ UNCHANGED <<joined, wiped, group, sock, backlog>>
    BY DEF JoinerCycle, server, history
  <1>h. Host \in Conns  BY DEF Conns
  <1>2. /\ toClient'[Host] = toClient[Host] /\ player'[Host] = player[Host]
        /\ playerId'[Host] = playerId[Host] /\ stage'[Host] = stage[Host]
    <2>1. CASE AcceptedStage(k)
      BY <1>h, <1>1, <2>1 DEF AcceptedStage, MakeOwnPlayer, IInv, Types
    <2>2. CASE PlayerSetup(k)  BY <1>h, <1>1, <2>2 DEF PlayerSetup, IInv, Types
    <2>3. CASE OtherPlayers(k)
      <3>1. \/ player' = player
            \/ \E t : player' = [player EXCEPT ![k] = t]
        BY <2>3 DEF OtherPlayers
      <3>2. /\ \E s : stage' = [stage EXCEPT ![k] = s]
            /\ toClient' = [toClient EXCEPT ![k] = Tail(@)]
            /\ playerId' = playerId
        BY <2>3 DEF OtherPlayers
      <3> QED  BY <1>h, <1>1, <3>1, <3>2 DEF IInv, Types, IsQueues
    <2>4. CASE Finished(k, toClient, toClient[k] # <<>>)
      <3>1. /\ \E t : player' = [player EXCEPT ![k] = t]
            /\ \E s : stage' = [stage EXCEPT ![k] = s] \/ stage' = stage
            /\ toClient' = [toClient EXCEPT ![k] = Tail(@)] \/ toClient' = toClient
            /\ playerId' = playerId
        BY <2>4 DEF Finished
      <3> QED  BY <1>h, <1>1, <3>1 DEF IInv, Types, IsQueues
    <2> QED  BY <2>1, <2>2, <2>3, <2>4 DEF JoinerCycle
  <1>3. Introductions' /\ DeleteLast'
    <2>1. CASE UNCHANGED toServer
      BY <1>1, <2>1 DEF KInv, Introductions, DeleteLast
    <2>2. ASSUME NEW x, toServer' = Write(toServer, {k}, <<x>>), InSession(k),
                 x.type = "PLAYERINFO" => x.id = playerId[k]
          PROVE  Introductions' /\ DeleteLast'
      <3>1. /\ toServer'[k] = toServer[k] \/ toServer'[k] = toServer[k] \o <<x>>
            /\ \A c \in Conns : c # k => toServer'[c] = toServer[c]
        BY <2>2 DEF Write
      <3>2. playerId[k] = sock[k]  BY <2>2 DEF IInv, Sessions
      <3> QED  BY <1>1, <2>2, <3>1, <3>2, SendKeeps
    <2>3. CASE AcceptedStage(k) \/ OtherPlayers(k)
      <3>1. UNCHANGED toServer  BY <2>3 DEF AcceptedStage, OtherPlayers
      <3> QED  BY <2>1, <3>1
    <2>4. CASE PlayerSetup(k)
      <3> DEFINE x == [type |-> "PLAYERINFO", id |-> playerId[k], info |-> player[k][playerId[k]]]
      <3>1. UNCHANGED toServer \/ toServer' = Write(toServer, {k}, <<x>>)
        BY <2>4 DEF PlayerSetup
      <3>2. InSession(k)  BY <2>4 DEF PlayerSetup, InSession
      <3>3. x.id = playerId[k]  OBVIOUS
      <3> HIDE DEF x
      <3> QED  BY <2>1, <2>2, <3>1, <3>2, <3>3
    <2>5. CASE Finished(k, toClient, toClient[k] # <<>>)
      <3> DEFINE x == [type |-> "PLAYERUPDATE", id |-> playerId[k], pose |-> pose[k]]
      <3>1. UNCHANGED toServer \/ toServer' = Write(toServer, {k}, <<x>>)
        BY <2>5 DEF Finished
      <3>2. InSession(k)  BY <2>5 DEF Finished, InSession
      <3>3. x.type # "PLAYERINFO"  OBVIOUS
      <3> HIDE DEF x
      <3> QED  BY <2>1, <2>2, <3>1, <3>2, <3>3
    <2> QED  BY <2>3, <2>4, <2>5 DEF JoinerCycle
  <1> QED  BY <1>1, <1>2, <1>3, AsideStep

LEMMA ShutdownAside ==
  ASSUME IInv, KInv, NEW k \in Conns, ShutdownLevel(k)
  PROVE  KInv'
  <1>1. /\ player' = [player EXCEPT ![k] = NoOne] /\ wiped' = wiped \cup {k}
        /\ UNCHANGED <<stage, playerId, toServer, toClient, backlog, group, sock, joined>>
    BY DEF ShutdownLevel, server
  <1>2. Introductions' /\ DeleteLast'  BY <1>1 DEF KInv, Introductions, DeleteLast
  <1>3. CASE k = Host
    BY <1>1, <1>2, <1>3 DEF KInv, HostStages, HostFirst, WillKnowMembers
  <1>4. CASE k # Host
    <2>1. player'[Host] = player[Host]  BY <1>1, <1>4 DEF IInv, Types, Conns
    <2> QED  BY <1>1, <1>2, <2>1, AsideStep
  <1> QED  BY <1>3, <1>4

\* What the host will know once one more packet is under way.
HostEnd(q) == DOMAIN Knows(q, player[Host], playerId[Host])

LEMMA HostEndLast ==
  ASSUME IInv, NEW m
  PROVE  /\ HostEnd(toClient[Host] \o <<m>>) =
              IF m.type = "DELETECLIENT" THEN HostEnd(toClient[Host]) \ {m.id}
              ELSE IF m.type = "CLIENTADD" THEN HostEnd(toClient[Host]) \cup {m.id}
              ELSE HostEnd(toClient[Host])
         /\ HostEnd(toClient[Host]) \subseteq 0 .. nextSocket - 1
  <1> DEFINE N == 0 .. nextSocket - 1
             q == toClient[Host]
             e == Knows(q, player[Host], playerId[Host])
  <1>1. IsFiniteSet(N) /\ Cardinality(N) < MAXPLAYERS  BY NumbersFinite
  <1>2. IsSeq(q) /\ DOMAIN player[Host] \subseteq N
        /\ \A x \in Elems(q) : x.type = "CLIENTADD" => x.id \in N
    BY DEF IInv, Types, IsQueues, Numbers, Conns
  <1> HIDE DEF N, q
  <1>3. DOMAIN e \subseteq N
    <2> DEFINE t == player[Host]
    <2>1. DOMAIN t \subseteq DOMAIN t \cup {} /\ DOMAIN t \subseteq N  BY <1>2
    <2> HIDE DEF t
    <2>2. DOMAIN Knows(q, t, playerId[Host]) \subseteq N  BY <1>1, <1>2, <2>1, KnowsMore
    <2> QED  BY <2>2 DEF t
  <1>4. Knows(q \o <<m>>, player[Host], playerId[Host]) = Process(e, m, playerId[Host])
    BY <1>2, KnowsLast
  <1> HIDE DEF e
  <1>5. DOMAIN Process(e, m, playerId[Host]) =
          IF m.type = "DELETECLIENT" THEN DOMAIN e \ {m.id}
          ELSE IF m.type = "CLIENTADD" THEN DOMAIN e \cup {m.id} ELSE DOMAIN e
    BY <1>1, <1>3, ProcessDomain
  <1> QED  BY <1>3, <1>4, <1>5 DEF HostEnd, N, q, e

LEMMA HostBroadcast == IInv => HostEnd(Broadcast[Host]) = HostEnd(toClient[Host])
  <1> SUFFICES ASSUME IInv PROVE HostEnd(Broadcast[Host]) = HostEnd(toClient[Host])
    OBVIOUS
  <1> DEFINE m == [type |-> "CLIENTUPDATE", poses |-> updates]
  <1>1. Broadcast[Host] = toClient[Host] \/ Broadcast[Host] = toClient[Host] \o <<m>>
    BY DEF Broadcast, Write, Conns
  <1>2. m.type = "CLIENTUPDATE"  OBVIOUS
  <1> HIDE DEF m
  <1>3. HostEnd(toClient[Host] \o <<m>>) = HostEnd(toClient[Host])
    <2>1. m.type # "DELETECLIENT" /\ m.type # "CLIENTADD"  BY <1>2
    <2> QED  BY <2>1, HostEndLast
  <1> QED  BY <1>1, <1>3

\* In the game the host reads what it was going to know.
LEMMA HostFinished ==
  ASSUME IInv, KInv, NEW read \in BOOLEAN, Finished(Host, Broadcast, read),
         UNCHANGED <<joined, group, sock, wiped, backlog>>
  PROVE  KInv'
  <1> DEFINE N == 0 .. nextSocket - 1
             B == Broadcast[Host]
             table == IF read THEN Process(player[Host], Head(B), playerId[Host])
                      ELSE player[Host]
             id == playerId[Host]
  <1>1. /\ stage[Host] = "FINISHED" /\ Host \in Conns
        /\ read => B # <<>>
        /\ toClient' = IF read THEN [Broadcast EXCEPT ![Host] = Tail(@)] ELSE Broadcast
        /\ UNCHANGED playerId
    BY DEF Finished, Conns
  <1>2. \/ /\ stage' = [stage EXCEPT ![Host] = "faulted"] /\ toServer' = toServer
        \/ /\ player' = [player EXCEPT ![Host] = [table EXCEPT ![id].pose = pose[Host]]]
           /\ stage' = stage
           /\ \/ toServer' = toServer
              \/ toServer' = Write(toServer, {Host},
                               <<[type |-> "PLAYERUPDATE", id |-> id, pose |-> pose[Host]]>>)
    BY DEF Finished
  <1>3. Introductions' /\ DeleteLast'
    <2> DEFINE x == [type |-> "PLAYERUPDATE", id |-> id, pose |-> pose[Host]]
    <2>1. x.type # "PLAYERINFO"  OBVIOUS
    <2>2. toServer' = toServer \/ toServer' = Write(toServer, {Host}, <<x>>)  BY <1>2
    <2> HIDE DEF x
    <2>3. InSession(Host)  BY <1>1 DEF InSession
    <2>4. /\ toServer'[Host] = toServer[Host] \/ toServer'[Host] = toServer[Host] \o <<x>>
          /\ \A c \in Conns : c # Host => toServer'[c] = toServer[c]
      BY <1>1, <2>2 DEF Write
    <2> QED  BY <1>1, <2>1, <2>3, <2>4, SendKeeps
  <1>4. HostStages'  BY <1>1, <1>2 DEF HostStages, IInv, Types
  <1>5. ASSUME stage' = stage, Host \notin wiped
        PROVE  DOMAIN Knows(toClient'[Host], player'[Host], playerId'[Host]) = HostEnd(B)
    <2>1. player' = [player EXCEPT ![Host] = [table EXCEPT ![id].pose = pose[Host]]]
      BY <1>1, <1>2, <1>5 DEF IInv, Types
    <2>2. player'[Host] = [table EXCEPT ![id].pose = pose[Host]]
      BY <1>1, <2>1 DEF IInv, Types
    <2>3. DOMAIN player'[Host] = DOMAIN table  BY <2>2
    <2>4. GoodQueues(Broadcast)  BY BroadcastQueues
    <2>5. IsFiniteSet(N) /\ Cardinality(N) < MAXPLAYERS  BY NumbersFinite
    <2>6. /\ IsSeq(B) /\ DOMAIN player[Host] \subseteq N
          /\ \A m \in Elems(B) : m.type = "CLIENTADD" => m.id \in N
      BY <1>1, <2>4 DEF GoodQueues, IsQueues, IInv, Numbers
    <2> DEFINE q == IF read THEN Tail(B) ELSE B
               p == player'[Host]
    <2>7. toClient'[Host] = q
      BY <1>1, <2>4 DEF GoodQueues, IsQueues
    <2>8. IsSeq(q) /\ \A m \in Elems(q) : m.type = "CLIENTADD" => m.id \in N
      BY <1>1, <2>6, TailSeq
    <2>9. Knows(q, table, id) = Knows(B, player[Host], id)  BY <1>1, <2>6, KnowsTail
    <2>10. DOMAIN table \subseteq N
      <3>1. CASE ~read  BY <2>6, <3>1
      <3>2. CASE read
        <4> DEFINE h == Head(B)
                   t == player[Host]
        <4>1. h \in Elems(B)  BY <1>1, <2>6, <3>2, TailSeq
        <4>2. DOMAIN t \subseteq N /\ (h.type = "CLIENTADD" => h.id \in N)  BY <2>6, <4>1
        <4>3. table = Process(t, h, id)  BY <3>2
        <4> HIDE DEF h, t, id, table, N
        <4>4. DOMAIN Process(t, h, id) \subseteq N  BY <4>2, ProcessTable
        <4> QED  BY <4>3, <4>4
      <3> QED  BY <3>1, <3>2
    <2>11. DOMAIN p = DOMAIN table  BY <2>3
    <2> HIDE DEF N, q, p, table
    <2>12. DOMAIN Knows(q, p, id) = DOMAIN Knows(q, table, id)
      <3>1. /\ DOMAIN Knows(q, table, id) \subseteq DOMAIN Knows(q, p, id)
            /\ DOMAIN Knows(q, p, id) \subseteq DOMAIN Knows(q, table, id) \cup {}
        <4>1. DOMAIN p \subseteq N /\ DOMAIN table \subseteq DOMAIN p
              /\ DOMAIN p \subseteq DOMAIN table \cup {}
          BY <2>10, <2>11
        <4> QED  BY <2>5, <2>8, <4>1, KnowsMore
      <3> QED  BY <3>1
    <2> QED  BY <1>1, <2>7, <2>9, <2>12 DEF p, HostEnd
  <1>6. WillKnowMembers'
    <2> SUFFICES ASSUME stage'[Host] # "faulted", Host \notin wiped
                 PROVE  DOMAIN Knows(toClient'[Host], player'[Host], playerId'[Host])
                          = Numbered(Members)'
      BY DEF WillKnowMembers
    <2>1. stage' = stage  BY <1>1, <1>2 DEF IInv, Types
    <2>2. DOMAIN Knows(toClient'[Host], player'[Host], playerId'[Host]) = HostEnd(B)
      BY <1>5, <2>1
    <2>3. HostEnd(B) = HostEnd(toClient[Host])  BY HostBroadcast
    <2>4. HostEnd(toClient[Host]) = Numbered(Members)
      BY <1>1 DEF KInv, WillKnowMembers, HostEnd
    <2>5. Numbered(Members)' = Numbered(Members)  BY <2>1 DEF Numbered, Members
    <2> HIDE DEF B
    <2> QED  BY <2>2, <2>3, <2>4, <2>5
  <1> QED  BY <1>3, <1>4, <1>6 DEF KInv, HostFirst

\* The host reads its number, and makes its own player: it would have known all others
\* anyhow, and nothing under way deletes it.
LEMMA HostAcceptedKnows ==
  ASSUME IInv, KInv, HostAccepted(Broadcast), UNCHANGED <<joined, group, sock, wiped, backlog>>
  PROVE  KInv'
  <1> DEFINE N == 0 .. nextSocket - 1
             B == Broadcast[Host]
             q == Tail(B)
             t == player[Host]
             p == player'[Host]
             h == Head(B)
  <1>1. GoodQueues(Broadcast) /\ Host \in Conns  BY BroadcastQueues DEF Conns
  <1>2. /\ stage[Host] = "waiting" /\ B # <<>> /\ h.type = "CONNECTIONACCEPT"
        /\ playerId' = [playerId EXCEPT ![Host] = h.id]
        /\ toClient' = [Broadcast EXCEPT ![Host] = Tail(@)]
        /\ UNCHANGED toServer
    BY DEF HostAccepted, Accepted
  <1>3. /\ player' = [player EXCEPT ![Host] = Enter(@, playerId'[Host], Info(Host))]
        /\ stage' = [stage EXCEPT ![Host] = "FINISHED"]
    BY DEF HostAccepted, MakeOwnPlayer
  <1>4. /\ IsSeq(B) /\ \A m \in Elems(B) : /\ m.type = "CLIENTADD" => m.id \in N
                                           /\ m.type = "CONNECTIONACCEPT" => m.id = sock[Host]
                                           /\ m.type = "DELETECLIENT" => m.id # sock[Host]
        /\ toClient'[Host] = q /\ Host \in group
    BY <1>1, <1>2 DEF GoodQueues, IsQueues
  <1>5. IsSeq(q) /\ Elems(q) \subseteq Elems(B) /\ h \in Elems(B)  BY <1>2, <1>4, TailSeq
  <1>6. h.id = sock[Host] /\ sock[Host] \in N /\ DOMAIN t \subseteq N
    BY <1>1, <1>2, <1>4, <1>5 DEF IInv, Sockets, Numbers
  <1>7. playerId'[Host] = sock[Host]  BY <1>1, <1>2, <1>6 DEF IInv, Types
  <1>8. DOMAIN p = DOMAIN t \cup {sock[Host]}
    BY <1>1, <1>3, <1>7 DEF Enter, IInv, Types
  <1>9. stage'[Host] = "FINISHED"  BY <1>1, <1>3 DEF IInv, Types
  <1>10. IsFiniteSet(N) /\ Cardinality(N) < MAXPLAYERS  BY NumbersFinite
  <1>11. Process(t, h, playerId[Host]) = t  BY <1>2 DEF Process
  <1>12. Knows(B, t, playerId[Host]) = Knows(q, t, playerId[Host])
    <2>1. Knows(B, t, playerId[Host]) = Knows(q, Process(t, h, playerId[Host]), playerId[Host])
      BY <1>2, <1>4, KnowsTail
    <2> QED  BY <1>11, <2>1
  <1> DEFINE X == {sock[Host]}
  <1>13. /\ \A m \in Elems(q) : m.type = "CLIENTADD" => m.id \in N
         /\ DOMAIN p \subseteq N /\ DOMAIN t \subseteq DOMAIN p /\ DOMAIN p \subseteq DOMAIN t \cup X
         /\ sock[Host] \in DOMAIN p
         /\ \A m \in Elems(q) : m.type = "DELETECLIENT" => m.id # sock[Host]
    BY <1>4, <1>5, <1>6, <1>8
  <1> HIDE DEF N, B, q, t, p, h
  <1>14. /\ DOMAIN Knows(q, t, playerId[Host]) \subseteq DOMAIN Knows(q, p, playerId'[Host])
         /\ DOMAIN Knows(q, p, playerId'[Host]) \subseteq DOMAIN Knows(q, t, playerId[Host]) \cup X
    <2> HIDE DEF X
    <2> QED  BY <1>5, <1>10, <1>13, KnowsMore
  <1>15. sock[Host] \in DOMAIN Knows(q, p, playerId'[Host])
    BY <1>5, <1>10, <1>13, KnowsKept
  <1>16. DOMAIN Knows(q, p, playerId'[Host]) = HostEnd(B) \cup {sock[Host]}
    BY <1>12, <1>14, <1>15 DEF HostEnd, t
  <1>17. WillKnowMembers'
    <2> SUFFICES ASSUME Host \notin wiped
                 PROVE  DOMAIN Knows(toClient'[Host], player'[Host], playerId'[Host])
                          = Numbered(Members)'
      BY DEF WillKnowMembers
    <2>1. HostEnd(toClient[Host]) = Numbered(Members)
      BY <1>2 DEF KInv, WillKnowMembers, HostEnd
    <2>2. HostEnd(B) = HostEnd(toClient[Host])  BY HostBroadcast DEF B
    <2>3. Numbered(Members)' = Numbered(Members) \cup {sock[Host]}
      BY <1>2, <1>9 DEF Numbered, Members
    <2>4. DOMAIN Knows(toClient'[Host], player'[Host], playerId'[Host])
            = HostEnd(B) \cup {sock[Host]}
      BY <1>4, <1>16 DEF p
    <2> QED  BY <2>1, <2>2, <2>3, <2>4
  <1>18. HostStages' /\ HostFirst' /\ joined' \subseteq group' /\ Introductions' /\ DeleteLast'
    BY <1>2, <1>9 DEF KInv, HostStages, HostFirst, Introductions, DeleteLast
  <1> QED  BY <1>17, <1>18 DEF KInv

LEMMA HostCycleKnows ==
  ASSUME IInv, KInv, HostCycle
  PROVE  KInv'
  <1>1. UNCHANGED <<joined, group, sock, wiped, backlog>>  BY DEF HostCycle, history
  <1>2. CASE HostAccepted(Broadcast)  BY <1>1, <1>2, HostAcceptedKnows
  <1>3. CASE \E read \in BOOLEAN : Finished(Host, Broadcast, read)
    <2>1. PICK read \in BOOLEAN : Finished(Host, Broadcast, read)  BY <1>3
    <2> QED  BY <1>1, <2>1, HostFinished
  <1>4. CASE toClient' = Broadcast /\ UNCHANGED <<client, toServer>>
    <2>1. UNCHANGED <<stage, playerId, player, toServer>>  BY <1>4 DEF client
    <2>2. WillKnowMembers'
      <3>1. HostEnd(Broadcast[Host]) = HostEnd(toClient[Host])  BY HostBroadcast
      <3>2. DOMAIN Knows(toClient'[Host], player'[Host], playerId'[Host]) = HostEnd(toClient[Host])
        BY <1>4, <2>1, <3>1 DEF HostEnd
      <3> QED  BY <1>1, <2>1, <3>2 DEF KInv, WillKnowMembers, HostEnd, Numbered, Members
    <2> QED
      BY <1>1, <2>1, <2>2 DEF KInv, HostStages, HostFirst, Introductions, DeleteLast
  <1> QED  BY <1>2, <1>3, <1>4 DEF HostCycle

\* A connection that is accepted gets a number that names nobody in the game.
LEMMA AcceptKnows ==
  ASSUME IInv, KInv, NEW k \in {Head(backlog)}, backlog # <<>>, NEW n,
         backlog' = Tail(backlog), group' = group \cup {k},
         sock' = [sock EXCEPT ![k] = n],
         toClient' = Write(toClient, {k}, <<[type |-> "CONNECTIONACCEPT", id |-> n]>>),
         UNCHANGED <<stage, playerId, player, toServer, joined, wiped>>
  PROVE  KInv'
  <1> DEFINE m == [type |-> "CONNECTIONACCEPT", id |-> n]
  <1>1. Host \in Conns  BY DEF Conns
  <1>2. k \in Conns /\ k \notin group
    <2>1. k \in Elems(backlog)  BY TailSeq DEF IInv, Types
    <2> QED  BY <2>1 DEF IInv, Types, Backlog
  <1>3. \A c \in group : sock'[c] = sock[c]  BY <1>2 DEF IInv, Types
  <1>4. HostFirst' /\ joined' \subseteq group'
    BY DEF KInv, HostFirst
  <1>5. Introductions'
    <2> SUFFICES ASSUME NEW c \in Conns, NEW x \in Elems(toServer[c]), x.type = "PLAYERINFO"
                 PROVE  c # Host /\ c \in group' /\ x.id = sock'[c]
      BY DEF Introductions
    <2> QED  BY <1>3 DEF KInv, Introductions
  <1>6. WillKnowMembers'
    <2>1. stage[Host] = "FINISHED" => Host \in group  BY <1>1 DEF IInv, Sessions, InSession
    <2>2. Members \subseteq group /\ Members' = Members  BY <2>1 DEF KInv, Members
    <2>3. Numbered(Members)' = Numbered(Members)  BY <1>3, <2>2 DEF Numbered
    <2>4. toClient'[Host] = toClient[Host] \/ toClient'[Host] = toClient[Host] \o <<m>>
      BY <1>1 DEF Write
    <2>5. m.type # "DELETECLIENT" /\ m.type # "CLIENTADD"  OBVIOUS
    <2> HIDE DEF m
    <2>6. HostEnd(toClient[Host] \o <<m>>) = HostEnd(toClient[Host])  BY <2>5, HostEndLast
    <2>7. DOMAIN Knows(toClient'[Host], player'[Host], playerId'[Host]) = HostEnd(toClient[Host])
      BY <2>4, <2>6 DEF HostEnd
    <2> QED  BY <2>3, <2>7 DEF KInv, WillKnowMembers, HostEnd
  <1> QED  BY <1>4, <1>5, <1>6 DEF KInv, HostStages, DeleteLast

LEMMA BeginKnows ==
  ASSUME IInv, KInv, Begin
  PROVE  KInv'
  <1>1. UNCHANGED <<stage, playerId, player, toServer, joined, wiped>>
    BY DEF Begin, client, history
  <1>2. CASE UNCHANGED <<backlog, group, sock, nextSocket, clientnum, toClient>>
    BY <1>1, <1>2 DEF KInv, HostStages, HostFirst, Introductions, DeleteLast,
                      WillKnowMembers, Members, Numbered
  <1>3. CASE /\ clientnum < MAXPLAYERS - 1 /\ backlog # <<>>
             /\ \E c \in {Head(backlog)}, n \in 0 .. nextSocket :
                  /\ NewSocket(n)
                  /\ backlog' = Tail(backlog) /\ group' = group \cup {c}
                  /\ sock' = [sock EXCEPT ![c] = n]
                  /\ nextSocket' = IF n = nextSocket THEN n + 1 ELSE nextSocket
                  /\ clientnum' = clientnum + 1
                  /\ toClient' = Write(toClient, {c}, <<[type |-> "CONNECTIONACCEPT", id |-> n]>>)
    BY <1>1, <1>3, AcceptKnows
  <1> QED  BY <1>2, <1>3 DEF Begin

\* A packet that has been read leaves the rest of its queue in order.
LEMMA ReadKeeps ==
  ASSUME IInv, KInv, NEW k \in Conns, NEW type, Read(k, type)
  PROVE  /\ k \in group /\ Head(toServer[k]) \in Elems(toServer[k])
         /\ Head(toServer[k]).type = type
         /\ \A c \in Conns : c # k => toServer'[c] = toServer[c]
         /\ \A c \in Conns : Elems(toServer'[c]) \subseteq Elems(toServer[c])
         /\ type = "PLAYERDELETE" => toServer'[k] = <<>>
         /\ DeleteLast'
         /\ UNCHANGED backlog
  <1>1. /\ k \in group /\ Head(toServer[k]) \in Elems(toServer[k])
        /\ Head(toServer[k]).type = type /\ toServer[k] # <<>>
        /\ \A c \in Conns : Elems(toServer'[c]) \subseteq Elems(toServer[c])
        /\ UNCHANGED backlog
    BY ReadFacts
  <1>2. toServer' = [toServer EXCEPT ![k] = Tail(@)]  BY DEF Read
  <1>3. toServer'[k] = Tail(toServer[k]) /\ \A c \in Conns : c # k => toServer'[c] = toServer[c]
    BY <1>2 DEF IInv, Types, IsQueues
  <1>4. PICK S : toServer[k] \in Seq(S)  BY DEF IInv, Types, IsQueues, IsSeq
  <1> DEFINE q == toServer[k]
  <1>5. /\ Len(q) \in Nat \ {0} /\ Len(Tail(q)) = Len(q) - 1 /\ Head(q) = q[1]
        /\ \A i \in 1 .. Len(q) - 1 : Tail(q)[i] = q[i + 1]
    BY <1>1, <1>4
  <1>6. type = "PLAYERDELETE" => toServer'[k] = <<>>
    <2>1. SUFFICES ASSUME type = "PLAYERDELETE" PROVE Tail(q) = <<>>  BY <1>3
    <2>2. 1 \in 1 .. Len(q) /\ q[1].type = "PLAYERDELETE"  BY <1>1, <1>5, <2>1
    <2>3. Len(q) = 1  BY <2>2 DEF KInv, DeleteLast
    <2>4. Tail(q) \in Seq(S) /\ Len(Tail(q)) = 0  BY <1>1, <1>4, <1>5, <2>3
    <2>5. ASSUME NEW s \in Seq(S), Len(s) = 0  PROVE s = <<>>  BY <2>5
    <2> HIDE DEF q
    <2> QED  BY <2>4, <2>5
  <1>7. DeleteLast'
    <2> SUFFICES ASSUME NEW c \in Conns, NEW i \in 1 .. Len(toServer'[c]),
                        toServer'[c][i].type = "PLAYERDELETE"
                 PROVE  i = Len(toServer'[c])
      BY DEF DeleteLast
    <2>1. CASE c # k  BY <1>3, <2>1 DEF KInv, DeleteLast
    <2>2. CASE c = k
      <3>1. toServer'[c] = Tail(q)  BY <1>3, <2>2
      <3>2. \A j \in 1 .. Len(q) : q[j].type = "PLAYERDELETE" => j = Len(q)
        BY DEF KInv, DeleteLast
      <3> HIDE DEF q
      <3>3. i \in 1 .. Len(q) - 1  BY <1>5, <3>1
      <3>4. i + 1 \in 1 .. Len(q) /\ q[i + 1] = toServer'[c][i]  BY <1>5, <3>1, <3>3
      <3>5. i + 1 = Len(q)  BY <3>2, <3>4
      <3>6. Len(toServer'[c]) = Len(q) - 1  BY <1>5, <3>1
      <3>7. Len(q) \in Nat  BY <1>5
      <3>8. i = Len(q) - 1  BY <3>3, <3>5, <3>7
      <3> QED  BY <3>6, <3>8
    <2> QED  BY <2>1, <2>2
  <1> QED  BY <1>1, <1>3, <1>6, <1>7

LEMMA ReadUpdateKnows ==
  ASSUME IInv, KInv, NEW k \in Conns, ReadPlayerUpdate(k)
  PROVE  KInv'
  <1>1. /\ \A c \in Conns : Elems(toServer'[c]) \subseteq Elems(toServer[c])
        /\ DeleteLast' /\ UNCHANGED backlog
    BY ReadKeeps DEF ReadPlayerUpdate
  <1>2. UNCHANGED <<stage, playerId, player, toClient, group, sock, joined, wiped>>
    BY DEF ReadPlayerUpdate, client, history
  <1>3. Introductions'  BY <1>1, <1>2 DEF KInv, Introductions
  <1> QED  BY <1>1, <1>2, <1>3, AsideStep

\* One who leaves: the host will be told.
LEMMA ReadDeleteKnows ==
  ASSUME IInv, KInv, NEW k \in Conns, ReadPlayerDelete(k)
  PROVE  KInv'
  <1> DEFINE m == [type |-> "DELETECLIENT", id |-> sock[k]]
  <1>1. /\ k \in group /\ Head(toServer[k]) \in Elems(toServer[k])
        /\ Head(toServer[k]).type = "PLAYERDELETE" /\ toServer'[k] = <<>>
        /\ \A c \in Conns : Elems(toServer'[c]) \subseteq Elems(toServer[c])
        /\ DeleteLast' /\ UNCHANGED backlog
    BY ReadKeeps DEF ReadPlayerDelete
  <1>2. /\ group' = group \ {k} /\ sock' = [sock EXCEPT ![k] = NoSocket]
        /\ toClient' = Write(toClient, group', <<m>>)
        /\ joined' = joined \ {k}
        /\ UNCHANGED <<stage, playerId, player, wiped>>
    BY DEF ReadPlayerDelete, client
  <1>3. stage[k] = "gone" /\ k # Host /\ Host \in Conns /\ Host \in group
    <2>1. stage[k] = "gone"  BY <1>1 DEF IInv, Sessions
    <2>2. k # Host  BY <2>1 DEF KInv, HostStages
    <2> QED  BY <1>1, <2>1, <2>2 DEF KInv, HostFirst, Conns
  <1>4. \A c \in Conns : c # k => sock'[c] = sock[c]  BY <1>2 DEF IInv, Types
  <1>5. HostFirst' /\ joined' \subseteq group'
    BY <1>2, <1>3 DEF KInv, HostFirst
  <1>6. Introductions'
    <2> SUFFICES ASSUME NEW c \in Conns, NEW x \in Elems(toServer'[c]), x.type = "PLAYERINFO"
                 PROVE  c # Host /\ c \in group' /\ x.id = sock'[c]
      BY DEF Introductions
    <2>1. c # k  BY <1>1, EmptySeq
    <2> QED  BY <1>1, <1>2, <1>4, <2>1 DEF KInv, Introductions
  <1>7. WillKnowMembers'
    <2> SUFFICES ASSUME stage[Host] # "faulted", Host \notin wiped
                 PROVE  DOMAIN Knows(toClient'[Host], player'[Host], playerId'[Host])
                          = Numbered(Members)'
      BY <1>2 DEF WillKnowMembers
    <2>1. Alive(Host)  BY DEF KInv, HostStages, Alive
    <2>2. toClient'[Host] = toClient[Host] \o <<m>>  BY <1>2, <1>3, <2>1 DEF Write
    <2>3. m.type = "DELETECLIENT" /\ m.id = sock[k]  OBVIOUS
    <2> HIDE DEF m
    <2>4. HostEnd(toClient[Host] \o <<m>>) = HostEnd(toClient[Host]) \ {sock[k]}
      BY <2>3, HostEndLast
    <2>5. HostEnd(toClient[Host]) = Numbered(Members)  BY DEF KInv, WillKnowMembers, HostEnd
    <2>6. Members \subseteq group /\ Members' = Members \ {k}
      BY <1>2, <1>3 DEF KInv, Members
    <2>7. \A c \in Members : c # k => sock[c] # sock[k] /\ sock'[c] = sock[c]
      BY <1>1, <1>4, <2>6 DEF IInv, Types, Sockets
    <2>8. Numbered(Members)' = Numbered(Members) \ {sock[k]}
      BY <2>6, <2>7 DEF Numbered
    <2>9. DOMAIN Knows(toClient'[Host], player'[Host], playerId'[Host])
            = HostEnd(toClient[Host] \o <<m>>)
      BY <1>2, <2>2 DEF HostEnd
    <2> QED  BY <2>4, <2>5, <2>8, <2>9
  <1> QED  BY <1>1, <1>2, <1>5, <1>6, <1>7 DEF KInv, HostStages

\* One who introduces itself: the host enters it at once, and will be told once more, in
\* case somebody who left has the same number until then.
LEMMA ReadInfoKnows ==
  ASSUME IInv, KInv, NEW k \in Conns, ReadPlayerInfo(k)
  PROVE  KInv'
  <1> DEFINE N == 0 .. nextSocket - 1
             h == Head(toServer[k])
             t == player[Host]
             table == CreatePlayer(t, h.id, h.info)
             add == IF Known(table, h.id)
                    THEN <<[type |-> "CLIENTADD", id |-> h.id, info |-> table[h.id]]>> ELSE <<>>
             m == [type |-> "CLIENTADD", id |-> h.id, info |-> table[h.id]]
             q == toClient[Host]
  <1>1. /\ k \in group /\ h \in Elems(toServer[k])
        /\ h.type = "PLAYERINFO"
        /\ \A c \in Conns : Elems(toServer'[c]) \subseteq Elems(toServer[c])
        /\ DeleteLast' /\ UNCHANGED backlog
    BY ReadKeeps DEF ReadPlayerInfo
  <1>2. /\ player' = [player EXCEPT ![Host] = table]
        /\ toClient' = Write(Write(toClient, {k}, WorldInfo(table)), group, add)
        /\ joined' = joined \cup {k}
        /\ UNCHANGED <<stage, playerId, sock, group, wiped>>
    BY DEF ReadPlayerInfo
  <1>3. k # Host /\ h.id = sock[k] /\ Host \in group /\ Host \in Conns /\ h.id \in N
    BY <1>1 DEF KInv, Introductions, HostFirst, Conns, IInv, Sockets
  <1>4. Introductions' /\ HostFirst' /\ joined' \subseteq group' /\ HostStages'
    BY <1>1, <1>2 DEF KInv, Introductions, HostFirst, HostStages
  <1>5. WillKnowMembers'
    <2> SUFFICES ASSUME stage[Host] # "faulted", Host \notin wiped
                 PROVE  DOMAIN Knows(toClient'[Host], player'[Host], playerId'[Host])
                          = Numbered(Members)'
      BY <1>2 DEF WillKnowMembers
    <2>1. IsFiniteSet(N) /\ Cardinality(N) < MAXPLAYERS  BY NumbersFinite
    <2>2. DOMAIN t \subseteq N /\ player'[Host] = table
      BY <1>2, <1>3 DEF IInv, Numbers, Types
    <2>3. IsSeq(q) /\ \A x \in Elems(q) : x.type = "CLIENTADD" => x.id \in N
      BY <1>3 DEF IInv, Types, IsQueues, Numbers
    <2> DEFINE x == [type |-> "CLIENTADD", id |-> h.id, info |-> h.info]
    <2>4. x.type = "CLIENTADD" /\ x.id = h.id /\ table = Process(t, x, playerId[Host])
      BY DEF Process
    <2>5. DOMAIN table = DOMAIN t \cup {h.id}
      <3> HIDE DEF x, table, t, N, h
      <3>1. DOMAIN Process(t, x, playerId[Host]) = DOMAIN t \cup {x.id}
        BY <2>1, <2>2, <2>4, ProcessDomain
      <3> QED  BY <2>4, <3>1
    <2>6. Alive(Host)  BY DEF KInv, HostStages, Alive
    <2>7. toClient'[Host] = q \o <<m>>
      <3>1. add = <<m>>  BY <2>5 DEF Known
      <3> DEFINE p == Write(toClient, {k}, WorldInfo(table))
      <3> HIDE DEF m, add, table
      <3>2. p[Host] = q  BY <1>3 DEF Write
      <3>3. toClient' = Write(p, group, add)  BY <1>2
      <3> HIDE DEF p, q
      <3> QED  BY <1>3, <2>6, <3>1, <3>2, <3>3 DEF Write
    <2>8. m.type = "CLIENTADD" /\ m.id = h.id  OBVIOUS
    <2> DEFINE X == {h.id}
    <2>9. /\ DOMAIN table \subseteq N /\ DOMAIN t \subseteq DOMAIN table
          /\ DOMAIN table \subseteq DOMAIN t \cup X
      BY <1>3, <2>2, <2>5
    <2> HIDE DEF m, table, t, N, q, h, X, add
    <2> DEFINE e == Knows(q, table, playerId[Host])
               d == Knows(q, t, playerId[Host])
    <2>10. DOMAIN e \subseteq N /\ DOMAIN d \subseteq DOMAIN e /\ DOMAIN e \subseteq DOMAIN d \cup X
      BY <2>1, <2>3, <2>9, KnowsMore
    <2>11. Knows(q \o <<m>>, table, playerId[Host]) = Process(e, m, playerId[Host])
      BY <2>3, KnowsLast
    <2> HIDE DEF e, d
    <2>12. DOMAIN Process(e, m, playerId[Host]) = DOMAIN e \cup {m.id}
      BY <2>1, <2>8, <2>10, ProcessDomain
    <2>13. DOMAIN Knows(toClient'[Host], player'[Host], playerId'[Host]) = DOMAIN d \cup {h.id}
      BY <1>2, <2>2, <2>7, <2>8, <2>10, <2>11, <2>12 DEF X
    <2>14. DOMAIN d = Numbered(Members)  BY DEF KInv, WillKnowMembers, d, q, t
    <2>15. Numbered(Members)' = Numbered(Members) \cup {sock[k]}
      BY <1>2 DEF Numbered, Members
    <2> QED  BY <1>3, <2>13, <2>14, <2>15
  <1> QED  BY <1>1, <1>4, <1>5 DEF KInv

LEMMA NextKInv == IInv /\ KInv /\ [Next]_vars => KInv'
  <1> SUFFICES ASSUME IInv, KInv, [Next]_vars PROVE KInv'  OBVIOUS
  <1> DEFINE Kept == UNCHANGED <<stage, playerId, player, toServer, toClient, backlog, group,
                                 sock, joined, wiped>>
  <1>1. CASE Kept
    <2>1. Introductions' /\ DeleteLast'  BY <1>1 DEF KInv, Introductions, DeleteLast
    <2> QED  BY <1>1, <2>1, AsideStep
  <1>2. CASE UNCHANGED vars  BY <1>1, <1>2 DEF vars, client, server, history
  <1>3. CASE Begin  BY <1>3, BeginKnows
  <1>4. CASE AcceptError  BY <1>1, <1>4 DEF AcceptError, client, history
  <1>5. CASE HostCycle  BY <1>5, HostCycleKnows
  <1>6. ASSUME NEW k \in Conns,
               ReadPlayerInfo(k) \/ ReadPlayerUpdate(k) \/ ReadPlayerDelete(k) \/ ReadEnd(k)
        PROVE  KInv'
    <2>1. CASE ReadEnd(k)  BY <1>1, <2>1 DEF ReadEnd, client, history
    <2> QED  BY <1>6, <2>1, ReadInfoKnows, ReadUpdateKnows, ReadDeleteKnows
  <1>7. ASSUME NEW k \in Conns,
               \/ JoinerCycle(k) \/ Connect(k) \/ GetAcceptance(k) \/ Timeout(k)
               \/ SendDelete(k) \/ Disappear(k) \/ ShutdownLevel(k) \/ Move(k)
        PROVE  KInv'
    BY <1>7, JoinerAside, ConnectAside, OtherAside, ShutdownAside
  <1> QED  BY <1>2, <1>3, <1>4, <1>5, <1>6, <1>7 DEF Next, Server

\* When the host has read everything under way it knows exactly those who are in the game.
THEOREM HostAlwaysKnowsMembers == Spec => []HostKnowsMembers
  <1>1. IInv /\ KInv => HostKnowsMembers
    <2> SUFFICES ASSUME IInv, KInv, stage[Host] = "FINISHED", Host \notin wiped
                 PROVE  DOMAIN WillKnow(Host) = {sock[c] : c \in joined \cup {Host}}
      BY DEF HostKnowsMembers
    <2>1. WillKnow(Host) = Knows(toClient[Host], player[Host], playerId[Host])
      BY WillKnowIs DEF IInv, Types, IsQueues, Conns
    <2>2. Members = joined \cup {Host}  BY DEF Members
    <2> QED  BY <2>1, <2>2 DEF KInv, WillKnowMembers, Numbered
  <1>2. IInv /\ KInv /\ [Next]_vars => IInv' /\ KInv'  BY NextIInv, NextKInv
  <1> QED  BY <1>1, <1>2, InitIInv, InitKInv, PTL DEF Spec

------------------------------------------------------------------------------
(* Those who read the same *)

\* Tables of the same players, who are in the same pose but for some of them.
SameBut(t, u, X) ==
  /\ DOMAIN t = DOMAIN u
  /\ \A i \in DOMAIN t : t[i].who = u[i].who /\ (i \notin X => t[i] = u[i])

\* What a table and a packet say of a player says who it is.
Named(table) == \A i \in DOMAIN table : "who" \in DOMAIN table[i]
NamedMsg(m) ==
  /\ m.type \in {"CLIENTADD", "PLAYERINFO"} => "who" \in DOMAIN m.info
  /\ m.type = "CLIENTLIST" => Named(m.list)

LEMMA SameButTrans ==
  ASSUME NEW t, NEW u, NEW v, NEW X, SameBut(t, u, X), SameBut(u, v, X)
  PROVE  SameBut(t, v, X)
  BY DEF SameBut

LEMMA UpdateSame ==
  ASSUME NEW t, NEW u, NEW X, SameBut(t, u, X), Named(t), Named(u),
         NEW poses, NEW self \in X, NEW other \in X
  PROVE  /\ SameBut(Update(t, poses, self), Update(u, poses, other), X)
         /\ Named(Update(t, poses, self)) /\ Named(Update(u, poses, other))
  <1>1. ASSUME NEW s, Named(s), NEW me
        PROVE  /\ DOMAIN Update(s, poses, me) = DOMAIN s
               /\ \A i \in DOMAIN s :
                    /\ "who" \in DOMAIN Update(s, poses, me)[i]
                    /\ Update(s, poses, me)[i].who = s[i].who
                    /\ Update(s, poses, me)[i] =
                         IF i \in DOMAIN poses /\ i # me THEN [s[i] EXCEPT !.pose = poses[i]]
                         ELSE s[i]
    <2>1. \A i \in DOMAIN s : /\ "who" \in DOMAIN [s[i] EXCEPT !.pose = poses[i]]
                              /\ [s[i] EXCEPT !.pose = poses[i]].who = s[i].who
      BY <1>1 DEF Named
    <2>2. DOMAIN Update(s, poses, me) = DOMAIN s  BY DEF Update
    <2>3. \A i \in DOMAIN s : Update(s, poses, me)[i] =
             IF i \in DOMAIN poses /\ i # me THEN [s[i] EXCEPT !.pose = poses[i]] ELSE s[i]
      BY DEF Update
    <2> QED  BY <1>1, <2>1, <2>2, <2>3 DEF Named
  <1> DEFINE T == Update(t, poses, self)
             U == Update(u, poses, other)
  <1>2. /\ DOMAIN T = DOMAIN t
        /\ \A i \in DOMAIN t :
             /\ "who" \in DOMAIN T[i] /\ T[i].who = t[i].who
             /\ T[i] = IF i \in DOMAIN poses /\ i # self THEN [t[i] EXCEPT !.pose = poses[i]]
                       ELSE t[i]
    BY <1>1
  <1>3. /\ DOMAIN U = DOMAIN u
        /\ \A i \in DOMAIN u :
             /\ "who" \in DOMAIN U[i] /\ U[i].who = u[i].who
             /\ U[i] = IF i \in DOMAIN poses /\ i # other THEN [u[i] EXCEPT !.pose = poses[i]]
                       ELSE u[i]
    BY <1>1
  <1> HIDE DEF T, U
  <1>4. Named(T) /\ Named(U)  BY <1>2, <1>3 DEF Named
  <1>5. \A i \in DOMAIN t : T[i].who = U[i].who  BY <1>2, <1>3 DEF SameBut
  <1>6. \A i \in DOMAIN t : i \notin X => T[i] = U[i]  BY <1>2, <1>3 DEF SameBut
  <1> QED  BY <1>2, <1>3, <1>4, <1>5, <1>6 DEF SameBut, T, U

LEMMA AddSame ==
  ASSUME NEW t, NEW u, NEW X, SameBut(t, u, X), Named(t), Named(u),
         NEW id, NEW info, "who" \in DOMAIN info
  PROVE  /\ SameBut(CreatePlayer(t, id, info), CreatePlayer(u, id, info), X)
         /\ Named(CreatePlayer(t, id, info)) /\ Named(CreatePlayer(u, id, info))
  <1>1. DOMAIN t = DOMAIN u  BY DEF SameBut
  <1>2. CASE Known(t, id) \/ Cardinality(DOMAIN t) >= MAXPLAYERS
    <2>1. CreatePlayer(t, id, info) = t /\ CreatePlayer(u, id, info) = u
      BY <1>1, <1>2 DEF CreatePlayer, Known
    <2> QED  BY <2>1
  <1>3. CASE ~(Known(t, id) \/ Cardinality(DOMAIN t) >= MAXPLAYERS)
    <2> DEFINE T == Enter(t, id, info)
               U == Enter(u, id, info)
    <2>1. CreatePlayer(t, id, info) = T /\ CreatePlayer(u, id, info) = U
      BY <1>1, <1>3 DEF CreatePlayer, Known
    <2>2. /\ DOMAIN T = DOMAIN t \cup {id} /\ DOMAIN U = DOMAIN u \cup {id}
          /\ T[id] = info /\ U[id] = info
          /\ \A i \in DOMAIN t : i # id => T[i] = t[i] /\ U[i] = u[i]
      BY <1>1 DEF Enter
    <2> HIDE DEF T, U
    <2>3. SameBut(T, U, X)  BY <2>2 DEF SameBut
    <2>4. Named(T) /\ Named(U)  BY <1>1, <2>2 DEF Named
    <2> QED  BY <2>1, <2>3, <2>4
  <1> QED  BY <1>2, <1>3

\* The same packet keeps them the same, as far as each is not the one who reads.
LEMMA ProcessSame ==
  ASSUME NEW t, NEW u, NEW X, SameBut(t, u, X), Named(t), Named(u),
         NEW m, NamedMsg(m), NEW self \in X, NEW other \in X
  PROVE  /\ SameBut(Process(t, m, self), Process(u, m, other), X)
         /\ Named(Process(t, m, self)) /\ Named(Process(u, m, other))
  <1>1. CASE m.type = "DELETECLIENT"
    <2> DEFINE T == DeletePlayer(t, m.id)
               U == DeletePlayer(u, m.id)
    <2>1. Process(t, m, self) = T /\ Process(u, m, other) = U  BY <1>1 DEF Process
    <2>2. /\ DOMAIN T = DOMAIN t \ {m.id} /\ DOMAIN U = DOMAIN u \ {m.id}
          /\ \A i \in DOMAIN T : T[i] = t[i]
          /\ \A i \in DOMAIN U : U[i] = u[i]
      BY DEF DeletePlayer
    <2> HIDE DEF T, U
    <2>3. SameBut(T, U, X) /\ Named(T) /\ Named(U)  BY <2>2 DEF SameBut, Named
    <2> QED  BY <2>1, <2>3
  <1>2. CASE m.type = "CLIENTADD"
    <2>1. /\ Process(t, m, self) = CreatePlayer(t, m.id, m.info)
          /\ Process(u, m, other) = CreatePlayer(u, m.id, m.info)
      BY <1>2 DEF Process
    <2>2. "who" \in DOMAIN m.info  BY <1>2 DEF NamedMsg
    <2> QED  BY <2>1, <2>2, AddSame
  <1>3. CASE m.type = "CLIENTUPDATE"
    <2>1. /\ Process(t, m, self) = Update(t, m.poses, self)
          /\ Process(u, m, other) = Update(u, m.poses, other)
      BY <1>3 DEF Process
    <2> QED  BY <2>1, UpdateSame
  <1>4. CASE m.type \notin {"DELETECLIENT", "CLIENTADD", "CLIENTUPDATE"}
    <2>1. Process(t, m, self) = t /\ Process(u, m, other) = u  BY <1>4 DEF Process
    <2> QED  BY <2>1
  <1> QED  BY <1>1, <1>2, <1>3, <1>4

LEMMA KnowsSame ==
  ASSUME NEW q, IsSeq(q), \A m \in Elems(q) : NamedMsg(m),
         NEW t, NEW u, NEW X, SameBut(t, u, X), Named(t), Named(u),
         NEW self \in X, NEW other \in X
  PROVE  /\ SameBut(Knows(q, t, self), Knows(q, u, other), X)
         /\ Named(Knows(q, t, self)) /\ Named(Knows(q, u, other))
  <1>1. PICK f : /\ Knows(q, t, self) = f[Len(q)] /\ f[0] = t
                 /\ \A n \in 1 .. Len(q) : f[n] = Process(f[n - 1], q[n], self)
                 /\ \A n \in 1 .. Len(q) : q[n] \in Elems(q)
                 /\ Len(q) \in Nat
    BY KnowsFrom
  <1>2. PICK g : /\ Knows(q, u, other) = g[Len(q)] /\ g[0] = u
                 /\ \A n \in 1 .. Len(q) : g[n] = Process(g[n - 1], q[n], other)
    BY KnowsFrom
  <1> DEFINE Same(n) == SameBut(f[n], g[n], X) /\ Named(f[n]) /\ Named(g[n])
             S == {n \in Nat : n <= Len(q) => Same(n)}
  <1>3. 0 \in S  BY <1>1, <1>2
  <1>4. ASSUME NEW n \in Nat, n \in S  PROVE n + 1 \in S
    <2>1. SUFFICES ASSUME n + 1 <= Len(q) PROVE Same(n + 1)  OBVIOUS
    <2>2. n + 1 \in 1 .. Len(q) /\ (n + 1) - 1 = n /\ Same(n)  BY <1>1, <1>4, <2>1
    <2>3. /\ f[n + 1] = Process(f[n], q[n + 1], self)
          /\ g[n + 1] = Process(g[n], q[n + 1], other)
          /\ NamedMsg(q[n + 1])
      BY <1>1, <1>2, <2>2
    <2> QED  BY <2>2, <2>3, ProcessSame
  <1>5. \A n \in Nat : n \in S
    <2> HIDE DEF S
    <2> QED  BY <1>3, <1>4, Induct
  <1>6. Same(Len(q))  BY <1>1, <1>5
  <1> QED  BY <1>1, <1>2, <1>6

\* Before the handshake other packets do nothing.
LEMMA EndQuiet ==
  ASSUME NEW q, IsSeq(q), \A m \in Elems(q) : m.type \notin Handshake,
         NEW table, NEW n, n # CONNECTIONPACKETS, NEW self
  PROVE  End(q, [knows |-> table, got |-> n], self) = [knows |-> table, got |-> n]
  <1> DEFINE s == [knows |-> table, got |-> n]
  <1>1. PICK f : /\ End(q, s, self) = f[Len(q)] /\ f[0] = s
                 /\ \A i \in 1 .. Len(q) : f[i] = Take(f[i - 1], q[i], self)
                 /\ \A i \in 1 .. Len(q) : q[i] \in Elems(q)
                 /\ Len(q) \in Nat
    BY EndFrom
  <1>2. ASSUME NEW m, m.type \notin Handshake  PROVE Take(s, m, self) = s
    BY <1>2 DEF Take, Handshake
  <1> HIDE DEF s
  <1> DEFINE S == {i \in Nat : i <= Len(q) => f[i] = s}
  <1>3. 0 \in S  BY <1>1
  <1>4. ASSUME NEW i \in Nat, i \in S  PROVE i + 1 \in S
    <2>1. SUFFICES ASSUME i + 1 <= Len(q) PROVE f[i + 1] = s  OBVIOUS
    <2>2. i + 1 \in 1 .. Len(q) /\ (i + 1) - 1 = i /\ f[i] = s  BY <1>1, <1>4, <2>1
    <2>3. f[i + 1] = Take(s, q[i + 1], self) /\ q[i + 1].type \notin Handshake
      BY <1>1, <2>2
    <2> QED  BY <1>2, <2>3
  <1>5. \A i \in Nat : i \in S
    <2> HIDE DEF S
    <2> QED  BY <1>3, <1>4, Induct
  <1> QED  BY <1>1, <1>5 DEF s

------------------------------------------------------------------------------
(* One entered before the packets of others have been read *)

\* Tables that differ in one player at most, who may be in one of them only.
Outside(f, g, id) ==
  /\ DOMAIN f \ {id} = DOMAIN g \ {id}
  /\ \A i \in DOMAIN f : i # id => f[i] = g[i]

LEMMA CreateRoom ==
  ASSUME NEW N, IsFiniteSet(N), Cardinality(N) < MAXPLAYERS, NEW table, DOMAIN table \subseteq N,
         NEW id, NEW info
  PROVE  CreatePlayer(table, id, info) = IF id \in DOMAIN table THEN table ELSE Enter(table, id, info)
  <1>1. Cardinality(DOMAIN table) <= Cardinality(N) /\ Cardinality(DOMAIN table) \in Nat
        /\ Cardinality(N) \in Nat
    BY FS_Subset, FS_CardinalityType
  <1>2. ~(Cardinality(DOMAIN table) >= MAXPLAYERS)  BY <1>1, NetAssumption
  <1> QED  BY <1>2 DEF CreatePlayer, Known

LEMMA ProcessOutside ==
  ASSUME NEW N, IsFiniteSet(N), Cardinality(N) < MAXPLAYERS,
         NEW f, DOMAIN f \subseteq N, NEW g, DOMAIN g \subseteq N, NEW id, Outside(f, g, id),
         NEW m, NEW self
  PROVE  /\ Outside(Process(f, m, self), Process(g, m, self), id)
         /\ m.type = "DELETECLIENT" /\ m.id = id => Process(f, m, self) = Process(g, m, self)
  <1>1. CASE m.type = "DELETECLIENT"
    <2> DEFINE F == DeletePlayer(f, m.id)
               G == DeletePlayer(g, m.id)
    <2>1. Process(f, m, self) = F /\ Process(g, m, self) = G  BY <1>1 DEF Process
    <2>2. /\ DOMAIN F = DOMAIN f \ {m.id} /\ DOMAIN G = DOMAIN g \ {m.id}
          /\ \A i \in DOMAIN F : F[i] = f[i]
          /\ \A i \in DOMAIN G : G[i] = g[i]
      BY DEF DeletePlayer
    <2>3. m.id = id => F = G
      <3> SUFFICES ASSUME m.id = id
                   PROVE  [i \in DOMAIN f \ {id} |-> f[i]] = [i \in DOMAIN g \ {id} |-> g[i]]
        BY DEF DeletePlayer
      <3> QED  BY DEF Outside
    <2> HIDE DEF F, G
    <2>4. Outside(F, G, id)  BY <2>2 DEF Outside
    <2> QED  BY <2>1, <2>3, <2>4
  <1>2. CASE m.type = "CLIENTADD"
    <2> DEFINE F == CreatePlayer(f, m.id, m.info)
               G == CreatePlayer(g, m.id, m.info)
    <2>1. Process(f, m, self) = F /\ Process(g, m, self) = G  BY <1>2 DEF Process
    <2>2. /\ F = IF m.id \in DOMAIN f THEN f ELSE Enter(f, m.id, m.info)
          /\ G = IF m.id \in DOMAIN g THEN g ELSE Enter(g, m.id, m.info)
      BY CreateRoom
    <2>3. \A h : /\ DOMAIN Enter(h, m.id, m.info) = DOMAIN h \cup {m.id}
                 /\ Enter(h, m.id, m.info)[m.id] = m.info
                 /\ \A i \in DOMAIN h : i # m.id => Enter(h, m.id, m.info)[i] = h[i]
      BY DEF Enter
    <2> HIDE DEF F, G
    <2>4. Outside(F, G, id)
      <3>1. /\ DOMAIN F = DOMAIN f \cup {m.id} /\ DOMAIN G = DOMAIN g \cup {m.id}
            /\ \A i \in DOMAIN f : F[i] = f[i]
            /\ \A i \in DOMAIN g : G[i] = g[i]
            /\ m.id \notin DOMAIN f => F[m.id] = m.info
            /\ m.id \notin DOMAIN g => G[m.id] = m.info
        BY <2>2, <2>3
      <3> HIDE DEF F, G
      <3>2. DOMAIN F \ {id} = DOMAIN G \ {id}  BY <3>1 DEF Outside
      <3>3. ASSUME NEW i \in DOMAIN F, i # id  PROVE F[i] = G[i]
        <4>1. CASE i \in DOMAIN f
          <5>1. i \in DOMAIN g /\ f[i] = g[i]  BY <3>3, <4>1 DEF Outside
          <5> QED  BY <3>1, <4>1, <5>1
        <4>2. CASE i \notin DOMAIN f
          <5>1. i \notin DOMAIN g /\ i = m.id  BY <3>1, <3>3, <4>2 DEF Outside
          <5> QED  BY <3>1, <4>2, <5>1
        <4> QED  BY <4>1, <4>2
      <3> QED  BY <3>2, <3>3 DEF Outside
    <2> QED  BY <1>2, <2>1, <2>4
  <1>3. CASE m.type = "CLIENTUPDATE"
    <2> DEFINE F == Update(f, m.poses, self)
               G == Update(g, m.poses, self)
    <2>1. Process(f, m, self) = F /\ Process(g, m, self) = G  BY <1>3 DEF Process
    <2>2. /\ DOMAIN F = DOMAIN f /\ DOMAIN G = DOMAIN g
          /\ \A i \in DOMAIN f : F[i] = IF i \in DOMAIN m.poses /\ i # self
                                        THEN [f[i] EXCEPT !.pose = m.poses[i]] ELSE f[i]
          /\ \A i \in DOMAIN g : G[i] = IF i \in DOMAIN m.poses /\ i # self
                                        THEN [g[i] EXCEPT !.pose = m.poses[i]] ELSE g[i]
      BY DEF Update
    <2> HIDE DEF F, G
    <2>3. Outside(F, G, id)  BY <2>2 DEF Outside
    <2> QED  BY <1>3, <2>1, <2>3
  <1>4. CASE m.type \notin {"DELETECLIENT", "CLIENTADD", "CLIENTUPDATE"}
    <2>1. Process(f, m, self) = f /\ Process(g, m, self) = g  BY <1>4 DEF Process
    <2> QED  BY <1>4, <2>1
  <1> QED  BY <1>1, <1>2, <1>3, <1>4

LEMMA ProcessEnter ==
  ASSUME NEW N, IsFiniteSet(N), Cardinality(N) < MAXPLAYERS,
         NEW f, DOMAIN f \subseteq N, NEW id \in N, id \notin DOMAIN f, NEW info,
         NEW m, NEW self,
         m.type \in {"DELETECLIENT", "CLIENTADD"} => m.id # id,
         m.type = "CLIENTUPDATE" => id \notin DOMAIN m.poses
  PROVE  Process(Enter(f, id, info), m, self) = Enter(Process(f, m, self), id, info)
  <1> DEFINE g == Enter(f, id, info)
  <1>1. DOMAIN g = DOMAIN f \cup {id} /\ DOMAIN g \subseteq N /\ g[id] = info
        /\ \A i \in DOMAIN f : g[i] = f[i]
    BY DEF Enter
  <1>2. CASE m.type = "DELETECLIENT"
    <2>1. /\ Process(g, m, self) = [i \in DOMAIN g \ {m.id} |-> g[i]]
          /\ Process(f, m, self) = [i \in DOMAIN f \ {m.id} |-> f[i]]
      BY <1>2 DEF Process, DeletePlayer
    <2> HIDE DEF g
    <2>2. Enter(Process(f, m, self), id, info)
            = [i \in DOMAIN g \ {m.id} |-> IF i = id THEN info ELSE f[i]]
      BY <1>1, <1>2, <2>1 DEF Enter
    <2>3. \A i \in DOMAIN g \ {m.id} : g[i] = IF i = id THEN info ELSE f[i]  BY <1>1
    <2>4. Process(g, m, self) = Enter(Process(f, m, self), id, info)  BY <2>1, <2>2, <2>3
    <2> QED  BY <2>4 DEF g
  <1>3. CASE m.type = "CLIENTADD"
    <2>1. /\ Process(g, m, self) = CreatePlayer(g, m.id, m.info)
          /\ Process(f, m, self) = CreatePlayer(f, m.id, m.info)
      BY <1>3 DEF Process
    <2>2. /\ CreatePlayer(g, m.id, m.info)
               = IF m.id \in DOMAIN g THEN g ELSE Enter(g, m.id, m.info)
          /\ CreatePlayer(f, m.id, m.info)
               = IF m.id \in DOMAIN f THEN f ELSE Enter(f, m.id, m.info)
      <3> HIDE DEF g
      <3> QED  BY <1>1, CreateRoom
    <2>3. CASE m.id \in DOMAIN f  BY <1>1, <2>1, <2>2, <2>3
    <2>4. CASE m.id \notin DOMAIN f
      <3>1. m.id \notin DOMAIN g  BY <1>1, <1>3, <2>4
      <3>2. Enter(g, m.id, m.info)
              = [i \in DOMAIN f \cup {id, m.id} |->
                   IF i = m.id THEN m.info ELSE IF i = id THEN info ELSE f[i]]
        BY <1>1 DEF Enter
      <3> DEFINE h == Enter(f, m.id, m.info)
      <3>3. Enter(h, id, info)
              = [i \in DOMAIN f \cup {id, m.id} |->
                   IF i = m.id THEN m.info ELSE IF i = id THEN info ELSE f[i]]
        <4>1. h = [i \in DOMAIN f \cup {m.id} |-> IF i = m.id THEN m.info ELSE f[i]]
              /\ DOMAIN h = DOMAIN f \cup {m.id}
          BY DEF Enter
        <4>2. Enter(h, id, info)
                = [i \in DOMAIN h \cup {id} |-> IF i = id THEN info ELSE h[i]]
          BY DEF Enter
        <4> HIDE DEF h
        <4>3. m.id # id  BY <1>3
        <4> QED  BY <4>1, <4>2, <4>3
      <3>4. Process(g, m, self) = Enter(g, m.id, m.info) /\ Process(f, m, self) = h
        BY <2>1, <2>2, <2>4, <3>1
      <3> HIDE DEF g, h
      <3> QED  BY <3>2, <3>3, <3>4 DEF g
    <2> QED  BY <2>3, <2>4
  <1>4. CASE m.type = "CLIENTUPDATE"
    <2> DEFINE U(h, i) == IF i \in DOMAIN m.poses /\ i # self
                          THEN [h[i] EXCEPT !.pose = m.poses[i]] ELSE h[i]
    <2>1. /\ Process(g, m, self) = [i \in DOMAIN g |-> U(g, i)]
          /\ Process(f, m, self) = [i \in DOMAIN f |-> U(f, i)]
      BY <1>4 DEF Process, Update
    <2>2. U(g, id) = info  BY <1>1, <1>4
    <2>3. \A i \in DOMAIN f : U(g, i) = U(f, i)  BY <1>1
    <2> HIDE DEF g, U
    <2>4. Enter(Process(f, m, self), id, info)
            = [i \in DOMAIN g |-> IF i = id THEN info ELSE U(f, i)]
      BY <1>1, <2>1 DEF Enter
    <2>5. \A i \in DOMAIN g : U(g, i) = IF i = id THEN info ELSE U(f, i)  BY <1>1, <2>2, <2>3
    <2>6. Process(g, m, self) = Enter(Process(f, m, self), id, info)  BY <2>1, <2>4, <2>5
    <2> QED  BY <2>6 DEF g
  <1>5. CASE m.type \notin {"DELETECLIENT", "CLIENTADD", "CLIENTUPDATE"}
    <2>1. Process(g, m, self) = g /\ Process(f, m, self) = f  BY <1>5 DEF Process
    <2> QED  BY <2>1
  <1> QED  BY <1>2, <1>3, <1>4, <1>5

------------------------------------------------------------------------------

LEMMA DomainWithin ==
  ASSUME NEW N, IsFiniteSet(N), Cardinality(N) < MAXPLAYERS,
         NEW t, DOMAIN t \subseteq N, NEW m, m.type = "CLIENTADD" => m.id \in N, NEW self
  PROVE  DOMAIN Process(t, m, self) \subseteq N
  <1>1. DOMAIN Process(t, m, self) =
          IF m.type = "DELETECLIENT" THEN DOMAIN t \ {m.id}
          ELSE IF m.type = "CLIENTADD" THEN DOMAIN t \cup {m.id} ELSE DOMAIN t
    BY ProcessDomain
  <1> QED  BY <1>1

LEMMA KnowsWithin ==
  ASSUME NEW N, IsFiniteSet(N), Cardinality(N) < MAXPLAYERS,
         NEW q, IsSeq(q), \A m \in Elems(q) : m.type = "CLIENTADD" => m.id \in N,
         NEW t, DOMAIN t \subseteq N, NEW self
  PROVE  DOMAIN Knows(q, t, self) \subseteq N
  <1>1. DOMAIN t \subseteq DOMAIN t \cup {}  OBVIOUS
  <1> QED  BY <1>1, KnowsMore

\* Entered early: if its deletion is still to be read it makes no difference, ...
LEMMA FreshDeleted ==
  ASSUME NEW N, IsFiniteSet(N), Cardinality(N) < MAXPLAYERS,
         NEW q, IsSeq(q), \A m \in Elems(q) : m.type = "CLIENTADD" => m.id \in N,
         NEW t, DOMAIN t \subseteq N, NEW id \in N, id \notin DOMAIN t, NEW info, NEW self,
         NEW k \in 1 .. Len(q), q[k].type = "DELETECLIENT", q[k].id = id
  PROVE  Knows(q, Enter(t, id, info), self) = Knows(q, t, self)
  <1> DEFINE T == Enter(t, id, info)
  <1>0. DOMAIN T = DOMAIN t \cup {id} /\ \A i \in DOMAIN t : T[i] = t[i]  BY DEF Enter
  <1> HIDE DEF T
  <1>1. PICK f : /\ Knows(q, t, self) = f[Len(q)] /\ f[0] = t
                 /\ \A n \in 1 .. Len(q) : f[n] = Process(f[n - 1], q[n], self)
                 /\ \A n \in 1 .. Len(q) : q[n] \in Elems(q)
                 /\ Len(q) \in Nat
    BY KnowsFrom
  <1>2. PICK g : /\ Knows(q, T, self) = g[Len(q)] /\ g[0] = T
                 /\ \A n \in 1 .. Len(q) : g[n] = Process(g[n - 1], q[n], self)
    BY KnowsFrom
  <1> DEFINE Near(n) == /\ DOMAIN f[n] \subseteq N /\ DOMAIN g[n] \subseteq N
                        /\ Outside(f[n], g[n], id)
                        /\ n >= k => f[n] = g[n]
             S == {n \in Nat : n <= Len(q) => Near(n)}
  <1>3. 0 \in S
    <2>1. ~(0 >= k)  OBVIOUS
    <2>2. Outside(f[0], g[0], id)  BY <1>0, <1>1, <1>2 DEF Outside
    <2>3. DOMAIN f[0] \subseteq N /\ DOMAIN g[0] \subseteq N  BY <1>0, <1>1, <1>2
    <2> QED  BY <2>1, <2>2, <2>3
  <1>4. ASSUME NEW n \in Nat, n \in S  PROVE n + 1 \in S
    <2>1. SUFFICES ASSUME n + 1 <= Len(q) PROVE Near(n + 1)  OBVIOUS
    <2>2. n + 1 \in 1 .. Len(q) /\ (n + 1) - 1 = n /\ Near(n)  BY <1>1, <1>4, <2>1
    <2> DEFINE m == q[n + 1]
               F == f[n]
               G == g[n]
    <2>3. /\ f[n + 1] = Process(F, m, self) /\ g[n + 1] = Process(G, m, self)
          /\ DOMAIN F \subseteq N /\ DOMAIN G \subseteq N /\ Outside(F, G, id)
          /\ n >= k => F = G
          /\ m.type = "CLIENTADD" => m.id \in N
          /\ n + 1 = k => m.type = "DELETECLIENT" /\ m.id = id
      BY <1>1, <1>2, <2>2
    <2> HIDE DEF m, F, G
    <2>4. DOMAIN Process(F, m, self) \subseteq N /\ DOMAIN Process(G, m, self) \subseteq N
      BY <2>3, DomainWithin
    <2>5. /\ Outside(Process(F, m, self), Process(G, m, self), id)
          /\ m.type = "DELETECLIENT" /\ m.id = id => Process(F, m, self) = Process(G, m, self)
      BY <2>3, ProcessOutside
    <2>6. n + 1 >= k => n >= k \/ n + 1 = k  OBVIOUS
    <2> QED  BY <2>3, <2>4, <2>5, <2>6
  <1>5. \A n \in Nat : n \in S
    <2> HIDE DEF S
    <2> QED  BY <1>3, <1>4, Induct
  <1>6. Near(Len(q))  BY <1>1, <1>5
  <1> QED  BY <1>1, <1>2, <1>6 DEF T

\* ... and if it is not, nothing changes the new entry.
LEMMA FreshKept ==
  ASSUME NEW N, IsFiniteSet(N), Cardinality(N) < MAXPLAYERS,
         NEW q, IsSeq(q), \A m \in Elems(q) : m.type = "CLIENTADD" => m.id \in N,
         NEW t, DOMAIN t \subseteq N, NEW id \in N, id \notin DOMAIN t, NEW info, NEW self,
         id \notin DOMAIN Knows(q, t, self),
         \A m \in Elems(q) : /\ m.type = "DELETECLIENT" => m.id # id
                             /\ m.type = "CLIENTUPDATE" => id \notin DOMAIN m.poses
  PROVE  Knows(q, Enter(t, id, info), self) = Enter(Knows(q, t, self), id, info)
  <1> DEFINE T == Enter(t, id, info)
  <1>1. PICK f : /\ Knows(q, t, self) = f[Len(q)] /\ f[0] = t
                 /\ \A n \in 1 .. Len(q) : f[n] = Process(f[n - 1], q[n], self)
                 /\ \A n \in 1 .. Len(q) : q[n] \in Elems(q)
                 /\ Len(q) \in Nat
    BY KnowsFrom
  <1>2. PICK g : /\ Knows(q, T, self) = g[Len(q)] /\ g[0] = T
                 /\ \A n \in 1 .. Len(q) : g[n] = Process(g[n - 1], q[n], self)
    BY KnowsFrom
  <1> DEFINE Near(n) == /\ DOMAIN f[n] \subseteq N
                        /\ id \in DOMAIN f[n] \/ g[n] = Enter(f[n], id, info)
             S == {n \in Nat : n <= Len(q) => Near(n)}
  <1>3. 0 \in S  BY <1>1, <1>2
  <1>4. ASSUME NEW n \in Nat, n \in S  PROVE n + 1 \in S
    <2>1. SUFFICES ASSUME n + 1 <= Len(q) PROVE Near(n + 1)  OBVIOUS
    <2>2. n + 1 \in 1 .. Len(q) /\ (n + 1) - 1 = n /\ Near(n)  BY <1>1, <1>4, <2>1
    <2> DEFINE m == q[n + 1]
               F == f[n]
               G == g[n]
    <2>3. /\ f[n + 1] = Process(F, m, self) /\ g[n + 1] = Process(G, m, self)
          /\ DOMAIN F \subseteq N
          /\ id \in DOMAIN F \/ G = Enter(F, id, info)
          /\ m.type = "CLIENTADD" => m.id \in N
          /\ m.type = "DELETECLIENT" => m.id # id
          /\ m.type = "CLIENTUPDATE" => id \notin DOMAIN m.poses
      BY <1>1, <1>2, <2>2
    <2> HIDE DEF m, F, G
    <2>4. DOMAIN Process(F, m, self) \subseteq N  BY <2>3, DomainWithin
    <2>5. DOMAIN Process(F, m, self) =
            IF m.type = "DELETECLIENT" THEN DOMAIN F \ {m.id}
            ELSE IF m.type = "CLIENTADD" THEN DOMAIN F \cup {m.id} ELSE DOMAIN F
      BY <2>3, ProcessDomain
    <2>6. CASE id \in DOMAIN F \/ (m.type = "CLIENTADD" /\ m.id = id)
      <3>1. id \in DOMAIN Process(F, m, self)  BY <2>3, <2>5, <2>6
      <3> QED  BY <2>3, <2>4, <3>1
    <2>7. CASE id \notin DOMAIN F /\ (m.type = "CLIENTADD" => m.id # id)
      <3>1. m.type \in {"DELETECLIENT", "CLIENTADD"} => m.id # id  BY <2>3, <2>7
      <3>2. Process(Enter(F, id, info), m, self) = Enter(Process(F, m, self), id, info)
        BY <2>3, <2>7, <3>1, ProcessEnter
      <3>3. G = Enter(F, id, info)  BY <2>3, <2>7
      <3> QED  BY <2>3, <2>4, <3>2, <3>3
    <2> QED  BY <2>6, <2>7
  <1>5. \A n \in Nat : n \in S
    <2> HIDE DEF S
    <2> QED  BY <1>3, <1>4, Induct
  <1>6. Near(Len(q))  BY <1>1, <1>5
  <1> QED  BY <1>1, <1>2, <1>6

\* So that told of it once more, the reader has it in any case.
LEMMA FreshAdd ==
  ASSUME NEW N, IsFiniteSet(N), Cardinality(N) < MAXPLAYERS,
         NEW q, IsSeq(q), \A m \in Elems(q) : m.type = "CLIENTADD" => m.id \in N,
         NEW t, DOMAIN t \subseteq N, NEW id \in N, id \notin DOMAIN t, NEW info, NEW self,
         id \notin DOMAIN Knows(q, t, self),
         \A n \in 1 .. Len(q) : q[n].type = "CLIENTUPDATE" /\ id \in DOMAIN q[n].poses
           => \E k \in 1 .. Len(q) : q[k].type = "DELETECLIENT" /\ q[k].id = id
  PROVE  CreatePlayer(Knows(q, Enter(t, id, info), self), id, info)
           = CreatePlayer(Knows(q, t, self), id, info)
  <1> DEFINE H == Knows(q, t, self)
             G == Knows(q, Enter(t, id, info), self)
  <1>1. DOMAIN H \subseteq N  BY KnowsWithin
  <1>2. CASE \E k \in 1 .. Len(q) : q[k].type = "DELETECLIENT" /\ q[k].id = id
    <2>1. G = H  BY <1>2, FreshDeleted
    <2> QED  BY <2>1
  <1>3. CASE ~\E k \in 1 .. Len(q) : q[k].type = "DELETECLIENT" /\ q[k].id = id
    <2>1. \A m \in Elems(q) : /\ m.type = "DELETECLIENT" => m.id # id
                              /\ m.type = "CLIENTUPDATE" => id \notin DOMAIN m.poses
      BY <1>3 DEF Elems
    <2>2. G = Enter(H, id, info)  BY <2>1, FreshKept
    <2> HIDE DEF G, H
    <2>3. CreatePlayer(H, id, info) = Enter(H, id, info)
      <3>1. id \notin DOMAIN H  BY DEF H
      <3> QED  BY <1>1, <3>1, CreateRoom
    <2>4. CreatePlayer(G, id, info) = G
      <3>1. id \in DOMAIN G  BY <2>2 DEF Enter
      <3> QED  BY <3>1 DEF CreatePlayer, Known
    <2> QED  BY <2>2, <2>3, <2>4 DEF G, H
  <1> QED  BY <1>2, <1>3

------------------------------------------------------------------------------
(* What tables and packets say *)

NamedTables(tables) == \A c \in Conns : Named(tables[c])
NamedQueues(queues) == \A c \in Conns : \A m \in Elems(queues[c]) : NamedMsg(m)
AllNamed == NamedTables(player) /\ NamedQueues(toServer) /\ NamedQueues(toClient)

LEMMA NamedWritten ==
  ASSUME NEW queues, IsQueues(queues), NamedQueues(queues), NEW to,
         NEW m, IsSeq(m), \A x \in Elems(m) : NamedMsg(x)
  PROVE  NamedQueues(Write(queues, to, m))
  <1> DEFINE after == Write(queues, to, m)
  <1>1. \A c \in Conns : Elems(after[c]) \subseteq Elems(queues[c]) \cup Elems(m)
    BY WriteQueues
  <1> QED  BY <1>1 DEF NamedQueues

LEMMA NamedOne ==
  ASSUME NEW queues, IsQueues(queues), NamedQueues(queues), NEW to, NEW x, NamedMsg(x)
  PROVE  NamedQueues(Write(queues, to, <<x>>))
  <1>1. IsSeq(<<x>>) /\ Elems(<<x>>) = {x}  BY OneSeq
  <1> QED  BY <1>1, NamedWritten

LEMMA NamedRead ==
  ASSUME NEW queues, IsQueues(queues), NamedQueues(queues), NEW c \in Conns, queues[c] # <<>>
  PROVE  /\ NamedQueues([queues EXCEPT ![c] = Tail(@)])
         /\ NamedMsg(Head(queues[c]))
  <1> DEFINE after == [queues EXCEPT ![c] = Tail(@)]
  <1>1. /\ \A d \in Conns : Elems(after[d]) \subseteq Elems(queues[d])
        /\ Head(queues[c]) \in Elems(queues[c])
    BY ReadQueues
  <1> QED  BY <1>1 DEF NamedQueues

LEMMA NamedProcess ==
  ASSUME NEW t, Named(t), NEW m, NamedMsg(m), NEW self
  PROVE  Named(Process(t, m, self))
  <1> DEFINE X == {self}
  <1>1. SameBut(t, t, X) /\ self \in X  BY DEF SameBut
  <1> HIDE DEF X
  <1> QED  BY <1>1, ProcessSame

LEMMA NamedCreate ==
  ASSUME NEW t, Named(t), NEW id, NEW info, "who" \in DOMAIN info
  PROVE  Named(CreatePlayer(t, id, info))
  <1> DEFINE X == {id}
  <1>1. SameBut(t, t, X)  BY DEF SameBut
  <1> HIDE DEF X
  <1> QED  BY <1>1, AddSame

\* The own pose is the only thing about itself that a program changes.
LEMMA OwnPose ==
  ASSUME NEW t, Named(t), NEW id, NEW p
  PROVE  /\ Named([t EXCEPT ![id].pose = p])
         /\ SameBut([t EXCEPT ![id].pose = p], t, {id})
  <1> DEFINE u == [t EXCEPT ![id].pose = p]
  <1>1. DOMAIN u = DOMAIN t /\ \A i \in DOMAIN t : i # id => u[i] = t[i]  OBVIOUS
  <1>2. id \in DOMAIN t => "who" \in DOMAIN u[id] /\ u[id].who = t[id].who
    <2> SUFFICES ASSUME id \in DOMAIN t PROVE "who" \in DOMAIN u[id] /\ u[id].who = t[id].who
      OBVIOUS
    <2>1. u[id] = [t[id] EXCEPT !.pose = p]  OBVIOUS
    <2>2. "who" \in DOMAIN t[id]  BY DEF Named
    <2> HIDE DEF u
    <2> QED  BY <2>1, <2>2
  <1> HIDE DEF u
  <1>3. Named(u)  BY <1>1, <1>2 DEF Named
  <1>4. SameBut(u, t, {id})  BY <1>1, <1>2 DEF SameBut
  <1> QED  BY <1>3, <1>4 DEF u

LEMMA NamedKept ==
  ASSUME AllNamed, NamedTables(player'), NamedQueues(toServer'), NamedQueues(toClient')
  PROVE  AllNamed'
  BY DEF AllNamed, NamedTables, NamedQueues

LEMMA NamedChange ==
  ASSUME NamedTables(player), DOMAIN player = Conns, NEW k \in Conns, NEW t, Named(t),
         player' = [player EXCEPT ![k] = t]
  PROVE  NamedTables(player')
  BY DEF NamedTables

LEMMA BroadcastNamed ==
  ASSUME IInv, AllNamed
  PROVE  NamedQueues(Broadcast) /\ IsQueues(Broadcast)
  <1> DEFINE m == [type |-> "CLIENTUPDATE", poses |-> updates]
  <1>1. NamedMsg(m)  BY DEF NamedMsg
  <1>2. IsQueues(toClient) /\ NamedQueues(toClient)  BY DEF IInv, Types, AllNamed
  <1>3. Broadcast = toClient \/ Broadcast = Write(toClient, group, <<m>>)  BY DEF Broadcast
  <1> HIDE DEF m
  <1>4. NamedQueues(Broadcast)  BY <1>1, <1>2, <1>3, NamedOne
  <1> QED  BY <1>4, BroadcastQueues DEF GoodQueues

LEMMA ProgramNamed ==
  ASSUME IInv, AllNamed, NEW k \in Conns,
         \/ Connect(k) \/ GetAcceptance(k) \/ Timeout(k) \/ SendDelete(k)
         \/ Disappear(k) \/ ShutdownLevel(k) \/ Move(k)
  PROVE  AllNamed'
  <1>1. /\ IsQueues(toServer) /\ IsQueues(toClient) /\ DOMAIN player = Conns
        /\ NamedTables(player) /\ NamedQueues(toServer) /\ NamedQueues(toClient)
    BY DEF IInv, Types, AllNamed
  <1>2. NamedTables(player')
    <2>1. player' = player \/ player' = [player EXCEPT ![k] = NoOne]
      BY DEF Connect, GetAcceptance, Timeout, SendDelete, Disappear, ShutdownLevel, Move
    <2>2. Named(NoOne)  BY DEF Named, NoOne
    <2> QED  BY <1>1, <2>1, <2>2, NamedChange
  <1>3. NamedQueues(toServer')
    <2> DEFINE x == Msg("PLAYERDELETE")
    <2>1. \/ toServer' = toServer
          \/ toServer' = [toServer EXCEPT ![k] = Append(@, x)]
      BY DEF Connect, GetAcceptance, Timeout, SendDelete, Disappear, ShutdownLevel, Move
    <2>2. NamedMsg(x)  BY DEF NamedMsg, Msg
    <2> HIDE DEF x
    <2>3. Elems(Append(toServer[k], x)) = Elems(toServer[k]) \cup {x}
      BY <1>1, AppendSeq DEF IsQueues
    <2> QED  BY <1>1, <2>1, <2>2, <2>3 DEF NamedQueues, IsQueues
  <1>4. NamedQueues(toClient')
    <2>1. \/ toClient' = toClient
          \/ toClient[k] # <<>> /\ toClient' = [toClient EXCEPT ![k] = Tail(@)]
          \/ toClient' = [toClient EXCEPT ![k] = <<>>]
      BY DEF Connect, GetAcceptance, Accepted, Timeout, SendDelete, Disappear, ShutdownLevel, Move
    <2>2. CASE toClient' = toClient  BY <1>1, <2>2
    <2>3. CASE toClient[k] # <<>> /\ toClient' = [toClient EXCEPT ![k] = Tail(@)]
      BY <1>1, <2>3, NamedRead
    <2>4. CASE toClient' = [toClient EXCEPT ![k] = <<>>]
      BY <1>1, <2>4, EmptySeq DEF NamedQueues, IsQueues
    <2> QED  BY <2>1, <2>2, <2>3, <2>4
  <1> QED  BY <1>2, <1>3, <1>4, NamedKept

\* One in the game, host or joiner.
LEMMA FinishedNamed ==
  ASSUME IInv, AllNamed, NEW k \in Conns, NEW coming, IsQueues(coming), NamedQueues(coming),
         NEW read \in BOOLEAN, Finished(k, coming, read)
  PROVE  AllNamed'
  <1> DEFINE table == IF read THEN Process(player[k], Head(coming[k]), playerId[k])
                      ELSE player[k]
             id == playerId[k]
             x == [type |-> "PLAYERUPDATE", id |-> id, pose |-> pose[k]]
  <1>1. /\ IsQueues(toServer) /\ DOMAIN player = Conns
        /\ NamedTables(player) /\ NamedQueues(toServer)
    BY DEF IInv, Types, AllNamed
  <1>2. /\ read => coming[k] # <<>>
        /\ toClient' = IF read THEN [coming EXCEPT ![k] = Tail(@)] ELSE coming
    BY DEF Finished
  <1>3. \/ player' = [player EXCEPT ![k] = table]
        \/ player' = [player EXCEPT ![k] = [table EXCEPT ![id].pose = pose[k]]]
    BY DEF Finished
  <1>4. toServer' = toServer \/ toServer' = Write(toServer, {k}, <<x>>)  BY DEF Finished
  <1>5. Named(table)
    <2>1. Named(player[k])  BY <1>1 DEF NamedTables
    <2>2. read => NamedMsg(Head(coming[k]))  BY <1>2, NamedRead
    <2> QED  BY <2>1, <2>2, NamedProcess
  <1>6. NamedMsg(x)  BY DEF NamedMsg
  <1> HIDE DEF table, x
  <1>7. Named([table EXCEPT ![id].pose = pose[k]])  BY <1>5, OwnPose
  <1>8. NamedTables(player')
    <2> DEFINE t == [table EXCEPT ![id].pose = pose[k]]
    <2>1. Named(t) /\ (player' = [player EXCEPT ![k] = table] \/ player' = [player EXCEPT ![k] = t])
      BY <1>3, <1>7
    <2> HIDE DEF t
    <2> QED  BY <1>1, <1>5, <2>1, NamedChange
  <1>9. NamedQueues(toServer')  BY <1>1, <1>4, <1>6, NamedOne
  <1>10. NamedQueues(toClient')  BY <1>2, NamedRead
  <1> QED  BY <1>8, <1>9, <1>10, NamedKept

LEMMA InfoNamed == \A c : "who" \in DOMAIN Info(c) /\ Info(c).who = c
  BY DEF Info

LEMMA NamedEnter ==
  ASSUME NEW t, Named(t), NEW id, NEW info, "who" \in DOMAIN info
  PROVE  Named(Enter(t, id, info))
  BY DEF Named, Enter

LEMMA JoinerNamed ==
  ASSUME IInv, AllNamed, NEW k \in Conns, JoinerCycle(k)
  PROVE  AllNamed'
  <1>1. /\ IsQueues(toServer) /\ IsQueues(toClient) /\ DOMAIN player = Conns
        /\ NamedTables(player) /\ NamedQueues(toServer) /\ NamedQueues(toClient)
        /\ Named(player[k])
    BY DEF IInv, Types, AllNamed, NamedTables
  <1>2. CASE AcceptedStage(k)
    <2> DEFINE t == Enter(player[k], playerId[k], Info(k))
    <2>1. player' = [player EXCEPT ![k] = t] /\ UNCHANGED <<toServer, toClient>>
      BY <1>2 DEF AcceptedStage, MakeOwnPlayer
    <2>2. Named(t)  BY <1>1, InfoNamed, NamedEnter
    <2> HIDE DEF t
    <2> QED  BY <1>1, <2>1, <2>2, NamedChange, NamedKept
  <1>3. CASE PlayerSetup(k)
    <2> DEFINE x == [type |-> "PLAYERINFO", id |-> playerId[k], info |-> player[k][playerId[k]]]
    <2>1. /\ UNCHANGED <<player, toClient>>
          /\ toServer' = toServer \/ (toServer' = Write(toServer, {k}, <<x>>)
                                      /\ playerId[k] \in DOMAIN player[k])
      BY <1>3 DEF PlayerSetup, Known
    <2>2. playerId[k] \in DOMAIN player[k] => NamedMsg(x)  BY <1>1 DEF NamedMsg, Named
    <2> HIDE DEF x
    <2>3. NamedQueues(toServer')  BY <1>1, <2>1, <2>2, NamedOne
    <2> QED  BY <1>1, <2>1, <2>3, NamedKept
  <1>4. CASE OtherPlayers(k)
    <2> DEFINE m == Head(toClient[k])
    <2>1. /\ toClient[k] # <<>> /\ toClient' = [toClient EXCEPT ![k] = Tail(@)]
          /\ UNCHANGED toServer
          /\ \/ player' = player
             \/ m.type = "CLIENTLIST" /\ \E added \in SUBSET DOMAIN m.list :
                   player' = [player EXCEPT ![k] = AddList(@, m.list, added)]
      BY <1>4 DEF OtherPlayers
    <2>2. NamedMsg(m) /\ NamedQueues(toClient')  BY <1>1, <2>1, NamedRead
    <2>3. NamedTables(player')
      <3>1. CASE player' = player  BY <1>1, <3>1
      <3>2. ASSUME m.type = "CLIENTLIST", NEW added \in SUBSET DOMAIN m.list,
                   player' = [player EXCEPT ![k] = AddList(@, m.list, added)]
            PROVE  NamedTables(player')
        <4> DEFINE t == AddList(player[k], m.list, added)
        <4>1. Named(m.list)  BY <2>2, <3>2 DEF NamedMsg
        <4>2. Named(t)  BY <1>1, <3>2, <4>1 DEF Named, AddList
        <4>3. player' = [player EXCEPT ![k] = t]  BY <1>1, <3>2
        <4> HIDE DEF t
        <4> QED  BY <1>1, <4>2, <4>3, NamedChange
      <3> QED  BY <2>1, <3>1, <3>2
    <2> QED  BY <1>1, <2>1, <2>2, <2>3, NamedKept
  <1>5. CASE Finished(k, toClient, toClient[k] # <<>>)
    <2>1. (toClient[k] # <<>>) \in BOOLEAN  OBVIOUS
    <2> QED  BY <1>1, <1>5, <2>1, FinishedNamed
  <1> QED  BY <1>2, <1>3, <1>4, <1>5 DEF JoinerCycle

LEMMA HostNamed ==
  ASSUME IInv, AllNamed, HostCycle
  PROVE  AllNamed'
  <1>1. /\ IsQueues(Broadcast) /\ NamedQueues(Broadcast) /\ DOMAIN player = Conns
        /\ NamedTables(player) /\ NamedQueues(toServer) /\ Host \in Conns
    BY BroadcastNamed DEF IInv, Types, AllNamed, Conns
  <1>2. CASE HostAccepted(Broadcast)
    <2> DEFINE t == Enter(player[Host], playerId'[Host], Info(Host))
    <2>1. /\ Broadcast[Host] # <<>> /\ toClient' = [Broadcast EXCEPT ![Host] = Tail(@)]
          /\ player' = [player EXCEPT ![Host] = t] /\ UNCHANGED toServer
      BY <1>2 DEF HostAccepted, Accepted, MakeOwnPlayer
    <2>2. Named(t)  BY <1>1, InfoNamed, NamedEnter DEF NamedTables
    <2> HIDE DEF t
    <2>3. NamedQueues(toClient')  BY <1>1, <2>1, NamedRead
    <2>4. NamedTables(player')  BY <1>1, <2>1, <2>2, NamedChange
    <2> QED  BY <1>1, <2>1, <2>3, <2>4, NamedKept
  <1>3. CASE \E read \in BOOLEAN : Finished(Host, Broadcast, read)
    BY <1>1, <1>3, FinishedNamed
  <1>4. CASE toClient' = Broadcast /\ UNCHANGED <<client, toServer>>
    BY <1>1, <1>4, NamedKept DEF client
  <1> QED  BY <1>2, <1>3, <1>4 DEF HostCycle

LEMMA ServerNamed ==
  ASSUME IInv, AllNamed, NEW k \in Conns,
         ReadPlayerInfo(k) \/ ReadPlayerUpdate(k) \/ ReadPlayerDelete(k)
  PROVE  AllNamed'
  <1> DEFINE h == Head(toServer[k])
  <1>1. /\ IsQueues(toServer) /\ IsQueues(toClient) /\ DOMAIN player = Conns
        /\ NamedTables(player) /\ NamedQueues(toServer) /\ NamedQueues(toClient)
        /\ Host \in Conns
    BY DEF IInv, Types, AllNamed, Conns
  <1>2. toServer[k] # <<>> /\ toServer' = [toServer EXCEPT ![k] = Tail(@)]
    BY DEF ReadPlayerInfo, ReadPlayerUpdate, ReadPlayerDelete, Read
  <1>3. NamedMsg(h) /\ NamedQueues(toServer')  BY <1>1, <1>2, NamedRead
  <1>4. CASE ReadPlayerUpdate(k)
    <2>1. UNCHANGED <<player, toClient>>  BY <1>4 DEF ReadPlayerUpdate, client
    <2> QED  BY <1>1, <1>3, <2>1, NamedKept
  <1>5. CASE ReadPlayerDelete(k)
    <2> DEFINE x == [type |-> "DELETECLIENT", id |-> sock[k]]
    <2>1. player' = player /\ toClient' = Write(toClient, group', <<x>>)
      BY <1>5 DEF ReadPlayerDelete, client
    <2>2. NamedMsg(x)  BY DEF NamedMsg
    <2> HIDE DEF x
    <2>3. NamedQueues(toClient')  BY <1>1, <2>1, <2>2, NamedOne
    <2> QED  BY <1>1, <1>3, <2>1, <2>3, NamedKept
  <1>6. CASE ReadPlayerInfo(k)
    <2> DEFINE table == CreatePlayer(player[Host], h.id, h.info)
               x == [type |-> "CLIENTADD", id |-> h.id, info |-> table[h.id]]
               add == IF Known(table, h.id) THEN <<x>> ELSE <<>>
               w == WorldInfo(table)
               p == Write(toClient, {k}, w)
    <2>1. /\ h.type = "PLAYERINFO" /\ player' = [player EXCEPT ![Host] = table]
          /\ toClient' = Write(p, group, add)
      BY <1>6 DEF ReadPlayerInfo, Read
    <2>2. Named(table)
      <3>1. "who" \in DOMAIN h.info /\ Named(player[Host])
        BY <1>1, <1>3, <2>1 DEF NamedMsg, NamedTables
      <3> QED  BY <3>1, NamedCreate
    <2>3. IsSeq(w) /\ \A m \in Elems(w) : NamedMsg(m)
      <3> DEFINE x1 == [type |-> "CLIENTLIST", list |-> table]
                 x2 == Msg("WORLDLIST1")
                 x3 == Msg("WORLDLIST2")
                 x4 == Msg("DONECONNECT")
      <3>1. w = <<x1, x2, x3, x4>>  BY DEF WorldInfo
      <3>2. NamedMsg(x1) /\ NamedMsg(x2) /\ NamedMsg(x3) /\ NamedMsg(x4)
        BY <2>2 DEF NamedMsg, Msg
      <3> HIDE DEF w, x1, x2, x3, x4
      <3>3. Len(w) = 4 /\ w[1] = x1 /\ w[2] = x2 /\ w[3] = x3 /\ w[4] = x4  BY <3>1
      <3>4. \A i \in 1 .. 4 : i = 1 \/ i = 2 \/ i = 3 \/ i = 4  OBVIOUS
      <3> QED  BY <3>2, <3>3, <3>4, CountWorldInfo DEF Elems, w
    <2>4. IsSeq(add) /\ \A m \in Elems(add) : NamedMsg(m)
      <3>1. CASE Known(table, h.id)
        <4>1. NamedMsg(x)  BY <2>2, <3>1 DEF NamedMsg, Named, Known
        <4> HIDE DEF x
        <4> QED  BY <3>1, <4>1, OneSeq
      <3>2. CASE ~Known(table, h.id)  BY <3>2, EmptySeq
      <3> QED  BY <3>1, <3>2
    <2> HIDE DEF table, add, w
    <2>5. IsQueues(p) /\ NamedQueues(p)  BY <1>1, <2>3, WriteQueues, NamedWritten
    <2> HIDE DEF p
    <2>6. NamedQueues(toClient')  BY <2>1, <2>4, <2>5, NamedWritten
    <2>7. NamedTables(player')  BY <1>1, <2>1, <2>2, NamedChange
    <2> QED  BY <1>3, <2>6, <2>7, NamedKept
  <1> QED  BY <1>4, <1>5, <1>6

LEMMA BeginNamed ==
  ASSUME IInv, AllNamed, Begin
  PROVE  AllNamed'
  <1>1. /\ IsQueues(toClient) /\ NamedTables(player') /\ NamedQueues(toServer')
        /\ NamedQueues(toClient)
    BY DEF IInv, Types, AllNamed, Begin, client
  <1>2. \/ toClient' = toClient
        \/ \E d, n : toClient' = Write(toClient, {d}, <<[type |-> "CONNECTIONACCEPT", id |-> n]>>)
    BY DEF Begin
  <1>3. ASSUME NEW d, NEW n,
               toClient' = Write(toClient, {d}, <<[type |-> "CONNECTIONACCEPT", id |-> n]>>)
        PROVE  NamedQueues(toClient')
    <2> DEFINE x == [type |-> "CONNECTIONACCEPT", id |-> n]
    <2>1. NamedMsg(x)  BY DEF NamedMsg
    <2>2. toClient' = Write(toClient, {d}, <<x>>)  BY <1>3
    <2> HIDE DEF x
    <2> QED  BY <1>1, <2>1, <2>2, NamedOne
  <1>4. NamedQueues(toClient')  BY <1>1, <1>2, <1>3
  <1> QED  BY <1>1, <1>4, NamedKept

LEMMA InitNamed == Init => AllNamed
  BY EmptySeq DEF Init, AllNamed, NamedTables, NamedQueues, Named, NoOne

LEMMA NextNamed == IInv /\ AllNamed /\ [Next]_vars => AllNamed'
  <1> SUFFICES ASSUME IInv, AllNamed, [Next]_vars PROVE AllNamed'  OBVIOUS
  <1>1. CASE UNCHANGED <<player, toServer, toClient>>
    BY <1>1 DEF AllNamed, NamedTables, NamedQueues
  <1>2. CASE UNCHANGED vars \/ AcceptError
    BY <1>1, <1>2 DEF vars, client, AcceptError
  <1>3. ASSUME NEW k \in Conns, ReadEnd(k) PROVE AllNamed'
    BY <1>1, <1>3 DEF ReadEnd, client
  <1>4. CASE Server
    BY <1>2, <1>3, <1>4, BeginNamed, HostNamed, ServerNamed DEF Server
  <1> QED  BY <1>2, <1>4, JoinerNamed, ProgramNamed DEF Next

------------------------------------------------------------------------------
(* What a joiner knows, and has sent, before the handshake *)

OwnFirst(c) ==
  /\ stage[c] \in Early \ {"PLAYERSETUP"} => DOMAIN player[c] = {}
  /\ stage[c] = "PLAYERSETUP" \/ (stage[c] = "OTHERPLAYERS" /\ got[c] = 0)
       => \A i \in DOMAIN player[c] : i = playerId[c] /\ player[c][i].who = c
  /\ stage[c] = "OTHERPLAYERS" => got[c] # CONNECTIONPACKETS
OwnOnly == \A c \in Joiners : OwnFirst(c)

\* Who introduces itself does so once, and first of all.
InfoFirst ==
  /\ \A c \in Conns : stage[c] \in Early => toServer[c] = <<>>
  /\ \A c \in Conns : \A i \in 1 .. Len(toServer[c]) : toServer[c][i].type = "PLAYERINFO"
       => i = 1 /\ c \notin joined /\ toServer[c][i].info.who = c

CleanStages ==
  /\ clean \subseteq Joiners
  /\ \A c \in clean : stage[c] \notin Early /\ (InSession(c) => c \in joined)
  /\ clean # {} => stage[Host] # "waiting"

LEMMA InitOwnOnly == Init => OwnOnly /\ InfoFirst /\ CleanStages
  <1> SUFFICES ASSUME Init PROVE OwnOnly /\ InfoFirst /\ CleanStages  OBVIOUS
  <1>1. \A c \in Joiners : c \in Conns /\ stage[c] = "out" /\ player[c] = <<>>
    BY NetAssumption DEF Init, Conns, NoOne
  <1>2. DOMAIN <<>> = {} /\ 1 .. Len(<<>>) = {}  OBVIOUS
  <1>3. OwnOnly  BY <1>1, <1>2 DEF OwnOnly, OwnFirst, Early
  <1>4. \A c \in Conns : toServer[c] = <<>>  BY DEF Init
  <1>5. InfoFirst  BY <1>2, <1>4 DEF InfoFirst
  <1>6. CleanStages  BY DEF Init, CleanStages
  <1> QED  BY <1>3, <1>5, <1>6

LEMMA NextOwnOnly == IInv /\ SInv /\ OwnOnly /\ [Next]_vars => OwnOnly'
  <1> SUFFICES ASSUME IInv, SInv, OwnOnly, [Next]_vars, NEW c \in Joiners PROVE OwnFirst(c)'
    BY DEF OwnOnly
  <1>1. /\ c \in Conns /\ c # Host /\ Host \in Conns /\ OwnFirst(c) /\ Shaking(c)
        /\ DOMAIN stage = Conns /\ DOMAIN player = Conns /\ DOMAIN playerId = Conns
        /\ DOMAIN got = Conns
    BY NetAssumption DEF Conns, OwnOnly, SInv, IInv, Types
  <1>2. CASE /\ stage'[c] = stage[c] /\ player'[c] = player[c] /\ playerId'[c] = playerId[c]
             /\ got'[c] = got[c]
    BY <1>1, <1>2 DEF OwnFirst
  <1>3. CASE stage'[c] \in Ended \cup {"FINISHED"}
    BY <1>3 DEF OwnFirst, Ended, Early
  <1>4. CASE UNCHANGED client  BY <1>2, <1>4 DEF client
  <1>5. CASE Server
    <2>1. CASE HostCycle
      <3>1. /\ stage'[c] = stage[c] /\ player'[c] = player[c] /\ playerId'[c] = playerId[c]
            /\ got'[c] = got[c]
        <4>1. CASE HostAccepted(Broadcast)
          BY <1>1, <4>1 DEF HostAccepted, Accepted, MakeOwnPlayer
        <4>2. CASE \E read \in BOOLEAN : Finished(Host, Broadcast, read)
          <5>1. /\ \E t : player' = [player EXCEPT ![Host] = t]
                /\ stage' = stage \/ stage' = [stage EXCEPT ![Host] = "faulted"]
                /\ UNCHANGED <<playerId, got>>
            BY <4>2 DEF Finished
          <5> QED  BY <1>1, <5>1
        <4>3. CASE UNCHANGED client  BY <4>3 DEF client
        <4> QED  BY <2>1, <4>1, <4>2, <4>3 DEF HostCycle
      <3> QED  BY <1>2, <3>1
    <2>2. ASSUME NEW k \in Conns, ReadPlayerInfo(k) PROVE OwnFirst(c)'
      <3>1. /\ \E t : player' = [player EXCEPT ![Host] = t]
            /\ UNCHANGED <<stage, playerId, got>>
        BY <2>2 DEF ReadPlayerInfo
      <3> QED  BY <1>1, <1>2, <3>1
    <2>3. CASE Begin \/ AcceptError  BY <1>4, <2>3 DEF Begin, AcceptError
    <2>4. ASSUME NEW k \in Conns, ReadPlayerUpdate(k) \/ ReadPlayerDelete(k) \/ ReadEnd(k)
          PROVE  OwnFirst(c)'
      BY <1>4, <2>4 DEF ReadPlayerUpdate, ReadPlayerDelete, ReadEnd
    <2> QED  BY <1>5, <2>1, <2>2, <2>3, <2>4 DEF Server
  <1>6. ASSUME NEW k \in Conns, k # c,
               \/ JoinerCycle(k) \/ Connect(k) \/ GetAcceptance(k) \/ Timeout(k)
               \/ SendDelete(k) \/ Disappear(k) \/ ShutdownLevel(k) \/ Move(k)
        PROVE  OwnFirst(c)'
    <2>1. CASE JoinerCycle(k)
      <3>1. CASE AcceptedStage(k)
        BY <1>1, <1>2, <1>6, <3>1 DEF AcceptedStage, MakeOwnPlayer
      <3>2. CASE PlayerSetup(k)
        BY <1>1, <1>2, <1>6, <3>2 DEF PlayerSetup
      <3>3. CASE OtherPlayers(k)
        <4>1. /\ player' = player \/ \E t : player' = [player EXCEPT ![k] = t]
              /\ \E s : stage' = [stage EXCEPT ![k] = s]
              /\ \E n : got' = [got EXCEPT ![k] = n]
              /\ playerId' = playerId
          BY <3>3 DEF OtherPlayers
        <4> QED  BY <1>1, <1>2, <1>6, <4>1
      <3>4. CASE Finished(k, toClient, toClient[k] # <<>>)
        <4>1. /\ \E t : player' = [player EXCEPT ![k] = t]
              /\ stage' = stage \/ stage' = [stage EXCEPT ![k] = "faulted"]
              /\ UNCHANGED <<playerId, got>>
          BY <3>4 DEF Finished
        <4> QED  BY <1>1, <1>2, <1>6, <4>1
      <3> QED  BY <2>1, <3>1, <3>2, <3>3, <3>4 DEF JoinerCycle
    <2>2. CASE \/ Connect(k) \/ GetAcceptance(k) \/ Timeout(k)
               \/ SendDelete(k) \/ Disappear(k) \/ ShutdownLevel(k) \/ Move(k)
      BY <1>1, <1>2, <1>6, <2>2 DEF Connect, GetAcceptance, Accepted, Timeout, SendDelete,
                                    Disappear, ShutdownLevel, Move
    <2> QED  BY <1>6, <2>1, <2>2
  <1>7. ASSUME \/ Connect(c) \/ GetAcceptance(c) \/ Timeout(c)
               \/ SendDelete(c) \/ Disappear(c) \/ ShutdownLevel(c) \/ Move(c)
        PROVE  OwnFirst(c)'
    <2>1. CASE Connect(c)
      BY <1>1, <2>1 DEF Connect, OwnFirst, Early
    <2>2. CASE GetAcceptance(c)
      <3>1. stage[c] = "waiting" /\ stage' = [stage EXCEPT ![c] = "ACCEPTED"] /\ player' = player
        BY <2>2 DEF GetAcceptance, Accepted
      <3> QED  BY <1>1, <3>1 DEF OwnFirst, Early
    <2>3. CASE Timeout(c)
      BY <1>1, <2>3 DEF Timeout, OwnFirst, Early
    <2>4. CASE SendDelete(c) \/ Disappear(c)
      BY <1>1, <1>3, <2>4 DEF SendDelete, Disappear, Ended
    <2>5. CASE ShutdownLevel(c)
      <3>1. player'[c] = <<>> /\ DOMAIN <<>> = {}  BY <1>1, <2>5 DEF ShutdownLevel, NoOne
      <3> QED  BY <1>1, <2>5, <3>1 DEF ShutdownLevel, OwnFirst
    <2>6. CASE Move(c)  BY <1>2, <2>6 DEF Move
    <2> QED  BY <1>7, <2>1, <2>2, <2>3, <2>4, <2>5, <2>6
  <1>8. CASE JoinerCycle(c)
    <2>1. CASE AcceptedStage(c)
      <3>1. /\ stage[c] = "ACCEPTED" /\ stage'[c] = "PLAYERSETUP"
            /\ player'[c] = Enter(player[c], playerId[c], Info(c))
            /\ playerId' = playerId
        BY <1>1, <2>1 DEF AcceptedStage, MakeOwnPlayer
      <3>2. DOMAIN player[c] = {}  BY <1>1, <3>1 DEF OwnFirst, Early
      <3>3. \A i \in DOMAIN player'[c] : i = playerId[c] /\ player'[c][i] = Info(c)
        BY <3>1, <3>2 DEF Enter
      <3> QED  BY <3>1, <3>3, InfoNamed DEF OwnFirst, Early
    <2>2. CASE PlayerSetup(c)
      <3>1. /\ stage[c] = "PLAYERSETUP" /\ UNCHANGED <<player, playerId>>
            /\ stage'[c] = "faulted" \/ (stage'[c] = "OTHERPLAYERS" /\ got'[c] = 0)
        BY <1>1, <2>2 DEF PlayerSetup
      <3> QED  BY <1>1, <3>1 DEF OwnFirst, Early, CONNECTIONPACKETS
    <2>3. CASE OtherPlayers(c)
      <3> DEFINE m == Head(toClient[c])
      <3>1. /\ stage[c] = "OTHERPLAYERS" /\ playerId' = playerId
            /\ m.type # "CLIENTLIST" => player' = player
            /\ got'[c] = IF m.type \in Handshake THEN got[c] + 1 ELSE got[c]
            /\ stage'[c] = IF got'[c] = CONNECTIONPACKETS THEN "FINISHED" ELSE "OTHERPLAYERS"
        BY <1>1, <2>3 DEF OtherPlayers
      <3>2. got[c] \in Nat  BY <1>1, <3>1 DEF Shaking
      <3>3. got'[c] = 0 => got[c] = 0 /\ player' = player
        BY <3>1, <3>2 DEF Handshake
      <3> HIDE DEF m
      <3> QED  BY <1>1, <3>1, <3>3 DEF OwnFirst, Early
    <2>4. CASE Finished(c, toClient, toClient[c] # <<>>)
      <3>1. stage[c] = "FINISHED" /\ (stage' = stage \/ stage' = [stage EXCEPT ![c] = "faulted"])
        BY <2>4 DEF Finished
      <3> QED  BY <1>1, <1>3, <3>1 DEF Ended
    <2> QED  BY <1>8, <2>1, <2>2, <2>3, <2>4 DEF JoinerCycle
  <1>9. CASE UNCHANGED vars  BY <1>4, <1>9 DEF vars
  <1> QED  BY <1>5, <1>6, <1>7, <1>8, <1>9 DEF Next

\* A program sends, after its introduction, only what is none.
LEMMA FirstSend ==
  ASSUME IInv, InfoFirst, NEW k \in Conns, NEW x, x.type # "PLAYERINFO",
         \A c \in Conns : c # k => toServer'[c] = toServer[c],
         \/ toServer'[k] = toServer[k]
         \/ toServer'[k] = toServer[k] \o <<x>> \/ toServer'[k] = Append(toServer[k], x),
         \A c \in Conns : stage'[c] \in Early
           => stage[c] \in Early /\ toServer'[c] = toServer[c],
         joined' \subseteq joined
  PROVE  InfoFirst'
  <1>1. \A c \in Conns : stage'[c] \in Early => toServer'[c] = <<>>  BY DEF InfoFirst
  <1>2. ASSUME NEW c \in Conns, NEW i \in 1 .. Len(toServer'[c]),
               toServer'[c][i].type = "PLAYERINFO"
        PROVE  i = 1 /\ c \notin joined' /\ toServer'[c][i].info.who = c
    <2>1. CASE toServer'[c] = toServer[c]
      BY <1>2, <2>1 DEF InfoFirst
    <2>2. CASE toServer'[c] # toServer[c]
      <3> DEFINE q == toServer[c]
                 p == toServer'[c]
      <3>1. c = k /\ (p = q \o <<x>> \/ p = Append(q, x))  BY <2>2
      <3>2. PICK S : q \in Seq(S)  BY DEF IInv, Types, IsQueues, IsSeq
      <3>3. /\ Len(q) \in Nat /\ Len(p) = Len(q) + 1 /\ p[Len(q) + 1] = x
            /\ \A j \in 1 .. Len(q) : p[j] = q[j]
        <4>1. q \in Seq(S \cup {x}) /\ <<x>> \in Seq(S \cup {x}) /\ Len(<<x>>) = 1
              /\ <<x>>[1] = x /\ x \in S \cup {x}
          BY <3>2
        <4>2. CASE p = q \o <<x>>  BY <4>1, <4>2
        <4>3. CASE p = Append(q, x)  BY <4>1, <4>3
        <4> QED  BY <3>1, <4>2, <4>3
      <3>4. \A j \in 1 .. Len(q) : q[j].type = "PLAYERINFO"
               => j = 1 /\ c \notin joined /\ q[j].info.who = c
        BY DEF InfoFirst
      <3>5. i \in 1 .. Len(p) /\ p[i].type = "PLAYERINFO"  BY <1>2
      <3> HIDE DEF p, q
      <3>6. i \in 1 .. Len(q)  BY <3>3, <3>5
      <3> QED  BY <3>3, <3>4, <3>5, <3>6 DEF p
    <2> QED  BY <2>1, <2>2
  <1> QED  BY <1>1, <1>2 DEF InfoFirst

LEMMA FirstSetup ==
  ASSUME IInv, SInv, OwnOnly, InfoFirst, NEW k \in Conns, JoinerCycle(k), PlayerSetup(k)
  PROVE  InfoFirst'
  <1> DEFINE m == [type |-> "PLAYERINFO", id |-> playerId[k], info |-> player[k][playerId[k]]]
  <1>1. /\ stage[k] = "PLAYERSETUP" /\ k \in Joiners /\ joined' = joined
        /\ DOMAIN stage = Conns
    BY DEF JoinerCycle, PlayerSetup, Conns, history, IInv, Types
  <1>2. toServer[k] = <<>> /\ k \notin joined
    BY <1>1 DEF InfoFirst, Early, SInv, Shaking
  <1>3. CASE stage' = [stage EXCEPT ![k] = "faulted"] /\ toServer' = toServer
    <2>1. \A c \in Conns : stage'[c] \in Early => stage[c] \in Early
      BY <1>1, <1>3 DEF Early
    <2> QED  BY <1>1, <1>3, <2>1 DEF InfoFirst
  <1>4. CASE /\ playerId[k] \in DOMAIN player[k]
             /\ stage' = [stage EXCEPT ![k] = "OTHERPLAYERS"]
             /\ toServer' = Write(toServer, {k}, <<m>>)
    <2>1. toServer'[k] = <<m>> /\ \A c \in Conns : c # k => toServer'[c] = toServer[c]
      <3>1. Alive(k)  BY <1>1 DEF Alive
      <3>2. <<>> \o <<m>> = <<m>>
        <4> HIDE DEF m
        <4>1. <<m>> \in Seq({m})  OBVIOUS
        <4> QED  BY <4>1
      <3> HIDE DEF m
      <3> QED  BY <1>2, <1>4, <3>1, <3>2 DEF Write
    <2>2. m.info.who = k
      BY <1>1, <1>4 DEF OwnOnly, OwnFirst
    <2> HIDE DEF m
    <2>3. Len(<<m>>) = 1 /\ <<m>>[1] = m  OBVIOUS
    <2>4. \A c \in Conns : stage'[c] \in Early => c # k /\ stage[c] \in Early
      BY <1>1, <1>4 DEF Early
    <2>5. \A c \in Conns : stage'[c] \in Early => toServer'[c] = <<>>
      BY <2>1, <2>4 DEF InfoFirst
    <2>6. ASSUME NEW c \in Conns, NEW i \in 1 .. Len(toServer'[c]),
                 toServer'[c][i].type = "PLAYERINFO"
          PROVE  i = 1 /\ c \notin joined' /\ toServer'[c][i].info.who = c
      <3>1. CASE c = k
        <4>1. i = 1 /\ toServer'[c][i] = m  BY <2>1, <2>3, <2>6, <3>1
        <4> QED  BY <1>1, <1>2, <2>2, <3>1, <4>1
      <3>2. CASE c # k  BY <1>1, <2>1, <2>6, <3>2 DEF InfoFirst
      <3> QED  BY <3>1, <3>2
    <2> QED  BY <2>5, <2>6 DEF InfoFirst
  <1> QED  BY <1>3, <1>4 DEF PlayerSetup, Known

LEMMA FirstRead ==
  ASSUME IInv, InfoFirst, NEW k \in Conns, toServer[k] # <<>>,
         toServer' = [toServer EXCEPT ![k] = Tail(@)], joined' \subseteq joined \cup {k},
         stage' = stage
  PROVE  InfoFirst'
  <1>1. /\ toServer'[k] = Tail(toServer[k])
        /\ \A c \in Conns : c # k => toServer'[c] = toServer[c]
    BY DEF IInv, Types, IsQueues
  <1>2. \A c \in Conns : stage'[c] \in Early => toServer'[c] = <<>>
    BY <1>1 DEF InfoFirst
  <1>3. ASSUME NEW c \in Conns, NEW i \in 1 .. Len(toServer'[c]),
               toServer'[c][i].type = "PLAYERINFO"
        PROVE  i = 1 /\ c \notin joined' /\ toServer'[c][i].info.who = c
    <2>1. CASE c # k  BY <1>1, <1>3, <2>1 DEF InfoFirst
    <2>2. CASE c = k
      <3> DEFINE q == toServer[k]
      <3>1. PICK S : q \in Seq(S)  BY DEF IInv, Types, IsQueues, IsSeq
      <3>2. /\ Len(q) \in Nat \ {0} /\ Len(Tail(q)) = Len(q) - 1
            /\ \A j \in 1 .. Len(q) - 1 : Tail(q)[j] = q[j + 1]
        BY <3>1
      <3>3. \A j \in 1 .. Len(q) : q[j].type = "PLAYERINFO" => j = 1  BY DEF InfoFirst
      <3>4. i \in 1 .. Len(Tail(q)) /\ Tail(q)[i].type = "PLAYERINFO"  BY <1>1, <1>3, <2>2
      <3> HIDE DEF q
      <3>5. i \in 1 .. Len(q) - 1 /\ i + 1 \in 1 .. Len(q) /\ i + 1 # 1  BY <3>2, <3>4
      <3>6. q[i + 1].type = "PLAYERINFO"  BY <3>2, <3>4, <3>5
      <3> QED  BY <3>3, <3>5, <3>6
    <2> QED  BY <2>1, <2>2
  <1> QED  BY <1>2, <1>3 DEF InfoFirst

\* What one in the game sends.
LEMMA FirstFinished ==
  ASSUME IInv, InfoFirst, NEW k \in Conns, NEW coming, NEW read, Finished(k, coming, read),
         UNCHANGED history
  PROVE  InfoFirst'
  <1> DEFINE x == [type |-> "PLAYERUPDATE", id |-> playerId[k], pose |-> pose[k]]
  <1>1. /\ toServer' = toServer \/ toServer' = Write(toServer, {k}, <<x>>)
        /\ stage[k] = "FINISHED"
        /\ stage' = stage \/ stage' = [stage EXCEPT ![k] = "faulted"]
        /\ joined' \subseteq joined
    BY DEF Finished, history
  <1>2. x.type # "PLAYERINFO"  OBVIOUS
  <1> HIDE DEF x
  <1>3. /\ \A c \in Conns : c # k => toServer'[c] = toServer[c]
        /\ toServer'[k] = toServer[k] \/ toServer'[k] = toServer[k] \o <<x>>
    BY <1>1 DEF Write
  <1>4. \A c \in Conns : stage'[c] \in Early => stage[c] \in Early /\ c # k
    BY <1>1 DEF Early, IInv, Types
  <1> QED  BY <1>1, <1>2, <1>3, <1>4, FirstSend

LEMMA NextInfoFirst == IInv /\ SInv /\ OwnOnly /\ InfoFirst /\ [Next]_vars => InfoFirst'
  <1> SUFFICES ASSUME IInv, SInv, OwnOnly, InfoFirst, [Next]_vars PROVE InfoFirst'
    OBVIOUS
  <1>1. CASE /\ UNCHANGED <<toServer, joined>>
             /\ \A c \in Conns : stage'[c] \in Early => stage[c] \in Early
    BY <1>1 DEF InfoFirst
  <1>2. CASE UNCHANGED <<toServer, joined, stage>>  BY <1>1, <1>2
  <1>3. DOMAIN stage = Conns /\ Host \in Conns  BY DEF IInv, Types, Conns
  <1>4. CASE HostCycle
    <2>1. CASE HostAccepted(Broadcast)
      <3>1. /\ UNCHANGED toServer
            /\ stage' = [stage EXCEPT ![Host] = "FINISHED"]
        BY <2>1 DEF HostAccepted, MakeOwnPlayer
      <3>2. UNCHANGED joined  BY <1>4 DEF HostCycle, history
      <3> QED  BY <1>1, <1>3, <3>1, <3>2 DEF Early
    <2>2. CASE \E read \in BOOLEAN : Finished(Host, Broadcast, read)
      <3>1. UNCHANGED history  BY <1>4 DEF HostCycle
      <3> QED  BY <1>3, <2>2, <3>1, FirstFinished
    <2>3. CASE UNCHANGED <<client, toServer, history>>
      BY <1>2, <2>3 DEF client, history
    <2> QED  BY <1>4, <2>1, <2>2, <2>3 DEF HostCycle
  <1>5. ASSUME NEW k \in Conns, ReadPlayerInfo(k) \/ ReadPlayerUpdate(k) \/ ReadPlayerDelete(k)
        PROVE  InfoFirst'
    <2>1. /\ toServer[k] # <<>> /\ toServer' = [toServer EXCEPT ![k] = Tail(@)]
          /\ stage' = stage /\ joined' \subseteq joined \cup {k}
      BY <1>5 DEF ReadPlayerInfo, ReadPlayerUpdate, ReadPlayerDelete, Read, client, history
    <2> QED  BY <2>1, FirstRead
  <1>6. CASE Server
    <2>1. CASE Begin \/ AcceptError
      BY <1>2, <2>1 DEF Begin, AcceptError, client, history
    <2>2. ASSUME NEW k \in Conns, ReadEnd(k) PROVE InfoFirst'
      BY <1>2, <2>2 DEF ReadEnd, client, history
    <2> QED  BY <1>4, <1>5, <1>6, <2>1, <2>2 DEF Server
  <1>7. ASSUME NEW k \in Conns, JoinerCycle(k) PROVE InfoFirst'
    <2>1. UNCHANGED history /\ k # Host  BY <1>7 DEF JoinerCycle
    <2>2. CASE AcceptedStage(k)
      <3>1. /\ UNCHANGED <<toServer, joined>> /\ stage[k] = "ACCEPTED"
            /\ stage' = [stage EXCEPT ![k] = "PLAYERSETUP"]
        BY <2>1, <2>2 DEF AcceptedStage, MakeOwnPlayer, history
      <3> QED  BY <1>1, <1>3, <3>1 DEF Early
    <2>3. CASE PlayerSetup(k)  BY <1>7, <2>3, FirstSetup
    <2>4. CASE OtherPlayers(k)
      <3>1. /\ UNCHANGED <<toServer, joined>> /\ stage[k] = "OTHERPLAYERS"
            /\ \/ stage' = [stage EXCEPT ![k] = "FINISHED"]
               \/ stage' = [stage EXCEPT ![k] = @]
        BY <2>1, <2>4 DEF OtherPlayers, history
      <3> QED  BY <1>1, <1>3, <3>1 DEF Early
    <2>5. CASE Finished(k, toClient, toClient[k] # <<>>)
      BY <2>1, <2>5, FirstFinished
    <2> QED  BY <1>7, <2>2, <2>3, <2>4, <2>5 DEF JoinerCycle
  <1>8. ASSUME NEW k \in Conns,
               \/ Connect(k) \/ GetAcceptance(k) \/ Timeout(k) \/ SendDelete(k)
               \/ Disappear(k) \/ ShutdownLevel(k) \/ Move(k)
        PROVE  InfoFirst'
    <2>1. CASE \/ Connect(k) \/ GetAcceptance(k) \/ Timeout(k)
               \/ Disappear(k) \/ ShutdownLevel(k) \/ Move(k)
      <3>1. UNCHANGED <<toServer, joined>>
        BY <2>1 DEF Connect, GetAcceptance, Timeout, Disappear, ShutdownLevel, Move, server, history
      <3>2. \A c \in Conns : stage'[c] \in Early => stage[c] \in Early
        BY <1>3, <2>1 DEF Connect, GetAcceptance, Accepted, Timeout, Disappear, ShutdownLevel,
                          Move, Early
      <3> QED  BY <1>1, <3>1, <3>2
    <2>2. CASE SendDelete(k)
      <3> DEFINE x == Msg("PLAYERDELETE")
      <3>1. /\ toServer' = [toServer EXCEPT ![k] = Append(@, x)]
            /\ stage' = [stage EXCEPT ![k] = "gone"] /\ joined' = joined
        BY <2>2 DEF SendDelete, history
      <3>2. x.type # "PLAYERINFO"  BY DEF Msg
      <3> HIDE DEF x
      <3>3. /\ \A c \in Conns : c # k => toServer'[c] = toServer[c]
            /\ toServer'[k] = Append(toServer[k], x)
        BY <3>1 DEF IInv, Types, IsQueues
      <3>4. \A c \in Conns : stage'[c] \in Early => stage[c] \in Early /\ c # k
        BY <1>3, <3>1 DEF Early
      <3>5. joined' \subseteq joined  BY <3>1
      <3> QED  BY <3>2, <3>3, <3>4, <3>5, FirstSend
    <2> QED  BY <1>8, <2>1, <2>2
  <1>9. CASE UNCHANGED vars  BY <1>2, <1>9 DEF vars, client, history
  <1> QED  BY <1>6, <1>7, <1>8, <1>9 DEF Next

LEMMA NextCleanStages ==
  IInv /\ SInv /\ KInv /\ InfoFirst /\ CleanStages /\ [Next]_vars => CleanStages'
  <1> SUFFICES ASSUME IInv, SInv, KInv, InfoFirst, CleanStages, [Next]_vars
               PROVE  CleanStages'
    OBVIOUS
  <1>1. CASE /\ clean' = clean /\ joined \subseteq joined'
             /\ \A c \in clean : /\ stage[c] \notin Early => stage'[c] \notin Early
                                 /\ stage[c] \notin Early /\ InSession(c)' => InSession(c)
             /\ stage[Host] # "waiting" => stage'[Host] # "waiting"
    BY <1>1 DEF CleanStages
  <1>2. CASE UNCHANGED <<clean, joined, stage>>
    BY <1>1, <1>2 DEF InSession
  <1>3. DOMAIN stage = Conns /\ Host \in Conns /\ Joiners \subseteq Conns /\ Host \notin Joiners
    BY NetAssumption DEF IInv, Types, Conns
  <1>4. CASE HostCycle
    <2>1. UNCHANGED history  BY <1>4 DEF HostCycle
    <2>2. \/ stage' = stage \/ \E s \in {"FINISHED", "faulted"} : stage' = [stage EXCEPT ![Host] = s]
      BY <1>4 DEF HostCycle, HostAccepted, MakeOwnPlayer, Finished, client
    <2>3. \A c \in clean : stage'[c] = stage[c]  BY <1>3, <2>2 DEF CleanStages
    <2>4. stage[Host] # "waiting" => stage'[Host] # "waiting"  BY <1>3, <2>2
    <2> QED  BY <1>1, <2>1, <2>3, <2>4 DEF history, InSession
  <1>5. ASSUME NEW k \in Conns, ReadPlayerInfo(k) PROVE CleanStages'
    <2>1. /\ joined' = joined \cup {k} /\ stage' = stage /\ toServer[k] # <<>>
          /\ \/ clean' = clean
             \/ clean' = clean \cup {k} /\ stage[Host] = "FINISHED"
      BY <1>5 DEF ReadPlayerInfo, Read
    <2>2. stage[k] \notin Early  BY <2>1 DEF InfoFirst
    <2>3. k # Host
      <3>1. /\ Head(toServer[k]) \in Elems(toServer[k]) /\ Head(toServer[k]).type = "PLAYERINFO"
        BY <1>5, ReadFacts DEF ReadPlayerInfo
      <3> QED  BY <3>1 DEF KInv, Introductions
    <2>4. k \in Joiners  BY <2>3 DEF Conns
    <2> QED  BY <2>1, <2>2, <2>4 DEF CleanStages, InSession
  <1>6. ASSUME NEW k \in Conns, ReadPlayerDelete(k) PROVE CleanStages'
    <2>1. /\ joined' = joined \ {k} /\ stage' = stage /\ clean' = clean
          /\ Head(toServer[k]) \in Elems(toServer[k]) /\ Head(toServer[k]).type = "PLAYERDELETE"
      BY <1>6, ReadFacts DEF ReadPlayerDelete, client
    <2>2. stage[k] = "gone"  BY <2>1 DEF IInv, Sessions
    <2> QED  BY <2>1, <2>2 DEF CleanStages, InSession
  <1>7. CASE Server
    <2>1. CASE Begin \/ AcceptError
      BY <1>2, <2>1 DEF Begin, AcceptError, client, history
    <2>2. ASSUME NEW k \in Conns, ReadEnd(k) \/ ReadPlayerUpdate(k) PROVE CleanStages'
      BY <1>2, <2>2 DEF ReadEnd, ReadPlayerUpdate, client, history
    <2> QED  BY <1>4, <1>5, <1>6, <1>7, <2>1, <2>2 DEF Server
  <1>8. ASSUME NEW k \in Conns,
               \/ JoinerCycle(k) \/ Connect(k) \/ GetAcceptance(k) \/ Timeout(k)
               \/ SendDelete(k) \/ Disappear(k) \/ ShutdownLevel(k) \/ Move(k)
        PROVE  CleanStages'
    <2>1. clean' = clean /\ joined' = joined
      BY <1>8 DEF JoinerCycle, Connect, GetAcceptance, Timeout, SendDelete, Disappear,
                  ShutdownLevel, Move, server, history
    <2>2. \/ stage' = stage
          \/ /\ k # Host
             /\ \/ stage[k] \in Early /\ \E s : stage' = [stage EXCEPT ![k] = s]
                \/ /\ InSession(k) /\ \E s : s \notin Early /\ stage' = [stage EXCEPT ![k] = s]
      <3>1. CASE JoinerCycle(k)
        <4>1. CASE AcceptedStage(k)
          BY <3>1, <4>1 DEF JoinerCycle, AcceptedStage, MakeOwnPlayer, Early
        <4>2. CASE PlayerSetup(k)
          BY <3>1, <4>2 DEF JoinerCycle, PlayerSetup, Early
        <4>3. CASE OtherPlayers(k)
          <5>1. /\ k # Host /\ stage[k] = "OTHERPLAYERS"
                /\ \/ stage' = [stage EXCEPT ![k] = "FINISHED"]
                   \/ stage' = [stage EXCEPT ![k] = @]
            BY <3>1, <4>3 DEF JoinerCycle, OtherPlayers
          <5> QED  BY <1>3, <5>1 DEF Early, InSession
        <4>4. CASE Finished(k, toClient, toClient[k] # <<>>)
          <5>1. /\ k # Host /\ stage[k] = "FINISHED"
                /\ stage' = stage \/ stage' = [stage EXCEPT ![k] = "faulted"]
            BY <3>1, <4>4 DEF JoinerCycle, Finished
          <5> QED  BY <5>1 DEF Early, InSession
        <4> QED  BY <3>1, <4>1, <4>2, <4>3, <4>4 DEF JoinerCycle
      <3>2. CASE Connect(k) \/ GetAcceptance(k) \/ Timeout(k)
        BY <3>2 DEF Connect, GetAcceptance, Accepted, Timeout, Early
      <3>3. CASE SendDelete(k)
        BY <3>3 DEF SendDelete, Early
      <3>4. CASE Disappear(k)
        BY <3>4 DEF Disappear, Early
      <3>5. CASE ShutdownLevel(k) \/ Move(k)
        BY <3>5 DEF ShutdownLevel, Move
      <3> QED  BY <1>8, <3>1, <3>2, <3>3, <3>4, <3>5
    <2>3. stage'[Host] = stage[Host]  BY <1>3, <2>2
    <2>4. \A c \in clean : /\ stage[c] \notin Early => stage'[c] \notin Early
                           /\ stage[c] \notin Early /\ InSession(c)' => InSession(c)
      BY <1>3, <2>2 DEF CleanStages, InSession
    <2> QED  BY <1>1, <2>1, <2>3, <2>4
  <1>9. CASE UNCHANGED vars  BY <1>2, <1>9 DEF vars, client, history
  <1> QED  BY <1>7, <1>8, <1>9 DEF Next

------------------------------------------------------------------------------
(* Whose poses the server sends *)

\* Whoever sends its pose is in the game; the server has those of whom it has read this
\* time, none of whom has left since.
UpdatesOf ==
  /\ \A c \in Conns : \A m \in Elems(toServer[c]) : m.type = "PLAYERUPDATE"
       => c \in joined \cup {Host} /\ c \in group /\ m.id = sock[c]
  /\ DOMAIN updates \subseteq Numbered((joined \cup {Host}) \ ready)

\* An update is of those in S, or of some whose deletion comes after it.
UpdatesIn(q, S) ==
  \A i \in 1 .. Len(q) : q[i].type = "CLIENTUPDATE" => \A id \in DOMAIN q[i].poses :
    id \in S \/ \E j \in i + 1 .. Len(q) : q[j].type = "DELETECLIENT" /\ q[j].id = id
UpdatesKnown ==
  stage[Host] # "faulted" => UpdatesIn(toClient[Host], Numbered(joined \cup {Host}))

LEMMA InitUpdates == Init => UpdatesOf /\ UpdatesKnown
  <1> SUFFICES ASSUME Init PROVE UpdatesOf /\ UpdatesKnown  OBVIOUS
  <1>1. DOMAIN <<>> = {} /\ 1 .. Len(<<>>) = {} /\ Host \in Conns  BY DEF Conns
  <1>2. updates = <<>> /\ \A c \in Conns : toServer[c] = <<>> /\ toClient[c] = <<>>
    BY DEF Init, NoOne
  <1> QED  BY <1>1, <1>2, EmptySeq DEF UpdatesOf, UpdatesKnown, UpdatesIn

LEMMA UpdatesOfStep ==
  ASSUME UpdatesOf, joined \subseteq joined', group \subseteq group',
         \A c \in group : sock'[c] = sock[c],
         \A c \in Conns : \A m \in Elems(toServer'[c]) :
           \/ m \in Elems(toServer[c])
           \/ m.type # "PLAYERUPDATE"
           \/ c \in joined \cup {Host} /\ c \in group /\ m.id = sock[c],
         \/ updates' = NoOne
         \/ updates' = updates /\ ready' \subseteq ready /\ sock' = sock
  PROVE  UpdatesOf'
  <1>1. ASSUME NEW c \in Conns, NEW m \in Elems(toServer'[c]), m.type = "PLAYERUPDATE"
        PROVE  c \in joined' \cup {Host} /\ c \in group' /\ m.id = sock'[c]
    BY <1>1 DEF UpdatesOf
  <1>2. DOMAIN NoOne = {}  BY DEF NoOne
  <1>3. DOMAIN updates' \subseteq Numbered((joined \cup {Host}) \ ready)'
    BY <1>2 DEF UpdatesOf, Numbered
  <1> QED  BY <1>1, <1>3 DEF UpdatesOf

LEMMA SentElems ==
  ASSUME IInv, NEW k \in Conns, NEW x,
         toServer' = toServer \/ toServer' = Write(toServer, {k}, <<x>>)
           \/ toServer' = [toServer EXCEPT ![k] = Append(@, x)]
  PROVE  \A c \in Conns : \A m \in Elems(toServer'[c]) :
           m \in Elems(toServer[c]) \/ (c = k /\ m = x)
  <1>1. IsQueues(toServer)  BY DEF IInv, Types
  <1>2. IsSeq(<<x>>) /\ Elems(<<x>>) = {x}  BY OneSeq
  <1>3. CASE toServer' = toServer  BY <1>3
  <1>4. CASE toServer' = Write(toServer, {k}, <<x>>)
    <2>1. /\ \A c \in Conns : Elems(toServer'[c]) \subseteq Elems(toServer[c]) \cup Elems(<<x>>)
          /\ \A c \in Conns : c \notin {k} \/ ~Alive(c) => toServer'[c] = toServer[c]
      BY <1>1, <1>2, <1>4, WriteQueues
    <2> QED  BY <1>2, <2>1
  <1>5. CASE toServer' = [toServer EXCEPT ![k] = Append(@, x)]
    BY <1>1, <1>5, AppendSeq DEF IsQueues
  <1> QED  BY <1>3, <1>4, <1>5

LEMMA UpdatesOfFinished ==
  ASSUME IInv, SInv, UpdatesOf, NEW k \in Conns, NEW coming, NEW read, Finished(k, coming, read),
         UNCHANGED <<group, sock, history>>,
         updates' = NoOne \/ UNCHANGED <<updates, ready>>
  PROVE  UpdatesOf'
  <1> DEFINE x == [type |-> "PLAYERUPDATE", id |-> playerId[k], pose |-> pose[k]]
  <1>1. /\ stage[k] = "FINISHED"
        /\ toServer' = toServer \/ toServer' = Write(toServer, {k}, <<x>>)
    BY DEF Finished
  <1>2. x.id = playerId[k]  OBVIOUS
  <1>3. k \in group /\ playerId[k] = sock[k]  BY <1>1 DEF IInv, Sessions, InSession
  <1>4. k \in joined \cup {Host}
    <2>1. CASE k = Host  BY <2>1
    <2>2. CASE k # Host
      <3>1. /\ got[k] = CONNECTIONPACKETS
            /\ got[k] + Count(toClient[k], Handshake) = IF k \in joined THEN CONNECTIONPACKETS ELSE 0
        BY <1>1, <2>2 DEF SInv, Shaking, Conns
      <3>2. Count(toClient[k], Handshake) \in Nat  BY CountFinite DEF IInv, Types, IsQueues
      <3> QED  BY <3>1, <3>2 DEF CONNECTIONPACKETS
    <2> QED  BY <2>1, <2>2
  <1> HIDE DEF x
  <1>5. \A c \in Conns : \A m \in Elems(toServer'[c]) :
           m \in Elems(toServer[c]) \/ (c = k /\ m = x)
    BY <1>1, SentElems
  <1> QED  BY <1>2, <1>3, <1>4, <1>5, UpdatesOfStep DEF history

LEMMA NextUpdatesOf == IInv /\ SInv /\ KInv /\ UpdatesOf /\ [Next]_vars => UpdatesOf'
  <1> SUFFICES ASSUME IInv, SInv, KInv, UpdatesOf, [Next]_vars PROVE UpdatesOf'  OBVIOUS
  <1>1. CASE UNCHANGED <<toServer, joined, group, sock, updates>> /\ ready' \subseteq ready
    BY <1>1, UpdatesOfStep
  <1>2. ASSUME NEW k \in Conns, NEW x, x.type # "PLAYERUPDATE",
               toServer' = toServer \/ toServer' = Write(toServer, {k}, <<x>>)
                 \/ toServer' = [toServer EXCEPT ![k] = Append(@, x)],
               UNCHANGED <<joined, group, sock>>,
               updates' = NoOne \/ UNCHANGED <<updates, ready>>
        PROVE  UpdatesOf'
    <2>1. \A c \in Conns : \A m \in Elems(toServer'[c]) :
             m \in Elems(toServer[c]) \/ (c = k /\ m = x)
      BY <1>2, SentElems
    <2> QED  BY <1>2, <2>1, UpdatesOfStep
  <1>3. CASE UNCHANGED <<toServer, joined, group, sock>> /\ updates' = NoOne
    BY <1>3, UpdatesOfStep
  <1>4. CASE HostCycle
    <2>1. UNCHANGED <<group, sock, history>> /\ updates' = NoOne  BY <1>4 DEF HostCycle
    <2>2. CASE \E read \in BOOLEAN : Finished(Host, Broadcast, read)
      BY <2>1, <2>2, UpdatesOfFinished DEF Conns
    <2>3. CASE HostAccepted(Broadcast) \/ UNCHANGED toServer
      BY <1>3, <2>1, <2>3 DEF HostAccepted, history
    <2> QED  BY <1>4, <2>2, <2>3 DEF HostCycle
  <1>5. CASE Begin
    <2>1. UNCHANGED <<toServer, joined>> /\ updates' = NoOne  BY <1>5 DEF Begin, history
    <2>2. CASE UNCHANGED <<group, sock>>  BY <1>3, <2>1, <2>2
    <2>3. CASE backlog # <<>> /\ \E c \in {Head(backlog)}, n \in 0 .. nextSocket :
                 group' = group \cup {c} /\ sock' = [sock EXCEPT ![c] = n]
      <3>1. PICK c \in {Head(backlog)}, n \in 0 .. nextSocket :
              group' = group \cup {c} /\ sock' = [sock EXCEPT ![c] = n]
        BY <2>3
      <3>2. c \in Conns /\ c \notin group
        <4>1. c \in Elems(backlog)  BY <2>3, TailSeq DEF IInv, Types
        <4> QED  BY <4>1 DEF IInv, Types, Backlog
      <3>3. group \subseteq group' /\ \A d \in group : sock'[d] = sock[d]
        BY <3>1, <3>2 DEF IInv, Types
      <3> QED  BY <2>1, <3>3, UpdatesOfStep
    <2> QED  BY <1>5, <2>2, <2>3 DEF Begin
  <1>6. ASSUME NEW k \in Conns, ReadPlayerInfo(k) PROVE UpdatesOf'
    <2>1. \A c \in Conns : Elems(toServer'[c]) \subseteq Elems(toServer[c])
      BY <1>6, ReadKeeps DEF ReadPlayerInfo
    <2>2. UNCHANGED <<group, sock, updates>> /\ joined \subseteq joined' /\ ready' \subseteq ready
      BY <1>6 DEF ReadPlayerInfo, Read
    <2> QED  BY <2>1, <2>2, UpdatesOfStep
  <1>7. ASSUME NEW k \in Conns, ReadPlayerUpdate(k) PROVE UpdatesOf'
    <2> DEFINE h == Head(toServer[k])
    <2>1. /\ h \in Elems(toServer[k]) /\ h.type = "PLAYERUPDATE"
          /\ \A c \in Conns : Elems(toServer'[c]) \subseteq Elems(toServer[c])
      BY <1>7, ReadKeeps DEF ReadPlayerUpdate
    <2>2. /\ UNCHANGED <<group, sock, joined>> /\ ready' = ready \ {k}
          /\ updates' = Enter(updates, h.id, h.pose)
      BY <1>7 DEF ReadPlayerUpdate, Read, history
    <2>3. k \in joined \cup {Host} /\ h.id = sock[k]  BY <2>1 DEF UpdatesOf
    <2>4. DOMAIN updates' = DOMAIN updates \cup {sock[k]}  BY <2>2, <2>3 DEF Enter
    <2>5. DOMAIN updates' \subseteq Numbered((joined \cup {Host}) \ ready)'
      BY <2>2, <2>3, <2>4 DEF UpdatesOf, Numbered
    <2> QED  BY <2>1, <2>2, <2>5 DEF UpdatesOf
  <1>8. ASSUME NEW k \in Conns, ReadPlayerDelete(k) PROVE UpdatesOf'
    <2>1. /\ \A c \in Conns : c # k => toServer'[c] = toServer[c]
          /\ toServer'[k] = <<>> /\ Head(toServer[k]) \in Elems(toServer[k])
          /\ Head(toServer[k]).type = "PLAYERDELETE"
      BY <1>8, ReadKeeps DEF ReadPlayerDelete
    <2>2. /\ group' = group \ {k} /\ sock' = [sock EXCEPT ![k] = NoSocket]
          /\ joined' = joined \ {k} /\ updates' = updates /\ ready' = ready \ {k} /\ k \in ready
      BY <1>8 DEF ReadPlayerDelete, Read
    <2>3. k # Host
      <3>1. stage[k] = "gone"  BY <2>1 DEF IInv, Sessions
      <3> QED  BY <3>1 DEF KInv, HostStages
    <2>4. \A c \in Conns : c # k => sock'[c] = sock[c]  BY <2>2 DEF IInv, Types
    <2>5. ASSUME NEW c \in Conns, NEW m \in Elems(toServer'[c]), m.type = "PLAYERUPDATE"
          PROVE  c \in joined' \cup {Host} /\ c \in group' /\ m.id = sock'[c]
      <3>1. c # k  BY <2>1, <2>5, EmptySeq
      <3> QED  BY <2>1, <2>2, <2>4, <2>5, <3>1 DEF UpdatesOf
    <2>6. DOMAIN updates' \subseteq Numbered((joined \cup {Host}) \ ready)'
      <3>1. joined \cup {Host} \subseteq Conns  BY DEF KInv, IInv, Types, Conns
      <3>2. \A c \in (joined \cup {Host}) \ ready :
               c \in (joined' \cup {Host}) \ ready' /\ sock'[c] = sock[c]
        BY <2>2, <2>3, <2>4, <3>1
      <3> QED  BY <2>2, <3>2 DEF UpdatesOf, Numbered
    <2> QED  BY <2>5, <2>6 DEF UpdatesOf
  <1>9. CASE Server
    <2>1. CASE AcceptError  BY <1>1, <2>1 DEF AcceptError, history
    <2>2. ASSUME NEW k \in Conns, ReadEnd(k) PROVE UpdatesOf'
      BY <1>1, <2>2 DEF ReadEnd, history
    <2> QED  BY <1>4, <1>5, <1>6, <1>7, <1>8, <1>9, <2>1, <2>2 DEF Server
  <1>10. ASSUME NEW k \in Conns, JoinerCycle(k) PROVE UpdatesOf'
    <2>1. UNCHANGED <<group, sock, history, joined, updates, ready>>
      BY <1>10 DEF JoinerCycle, server, history
    <2>2. CASE Finished(k, toClient, toClient[k] # <<>>)
      BY <2>1, <2>2, UpdatesOfFinished
    <2>3. CASE PlayerSetup(k)
      <3> DEFINE x == [type |-> "PLAYERINFO", id |-> playerId[k], info |-> player[k][playerId[k]]]
      <3>1. toServer' = toServer \/ toServer' = Write(toServer, {k}, <<x>>)
        BY <2>3 DEF PlayerSetup
      <3>2. x.type # "PLAYERUPDATE"  OBVIOUS
      <3> HIDE DEF x
      <3> QED  BY <1>2, <2>1, <3>1, <3>2
    <2>4. CASE AcceptedStage(k) \/ OtherPlayers(k)
      <3>1. toServer' = toServer  BY <2>4 DEF AcceptedStage, OtherPlayers
      <3> QED  BY <1>1, <2>1, <3>1
    <2> QED  BY <1>10, <2>2, <2>3, <2>4 DEF JoinerCycle
  <1>11. ASSUME NEW k \in Conns,
                \/ Connect(k) \/ GetAcceptance(k) \/ Timeout(k) \/ SendDelete(k)
                \/ Disappear(k) \/ ShutdownLevel(k) \/ Move(k)
         PROVE  UpdatesOf'
    <2>1. UNCHANGED <<group, sock, joined, updates, ready>>
      BY <1>11 DEF Connect, GetAcceptance, Timeout, SendDelete, Disappear, ShutdownLevel, Move,
                   server, history
    <2> DEFINE x == Msg("PLAYERDELETE")
    <2>2. toServer' = toServer \/ toServer' = [toServer EXCEPT ![k] = Append(@, x)]
      BY <1>11 DEF Connect, GetAcceptance, Timeout, SendDelete, Disappear, ShutdownLevel, Move
    <2>3. x.type # "PLAYERUPDATE"  BY DEF Msg
    <2> HIDE DEF x
    <2> QED  BY <1>2, <2>1, <2>2, <2>3
  <1>12. CASE UNCHANGED vars  BY <1>1, <1>12 DEF vars, server, history
  <1> QED  BY <1>9, <1>10, <1>11, <1>12 DEF Next

LEMMA UpdatesInEmpty == \A S : UpdatesIn(<<>>, S)
  <1>1. 1 .. Len(<<>>) = {}  OBVIOUS
  <1> QED  BY <1>1 DEF UpdatesIn

LEMMA UpdatesInTail ==
  ASSUME NEW q, IsSeq(q), q # <<>>, NEW S, UpdatesIn(q, S)
  PROVE  UpdatesIn(Tail(q), S)
  <1>1. PICK T : q \in Seq(T)  BY DEF IsSeq
  <1> DEFINE p == Tail(q)
  <1>2. /\ Len(q) \in Nat \ {0} /\ Len(p) = Len(q) - 1
        /\ \A i \in 1 .. Len(q) - 1 : p[i] = q[i + 1]
    BY <1>1
  <1> HIDE DEF p
  <1>3. ASSUME NEW i \in 1 .. Len(p), p[i].type = "CLIENTUPDATE", NEW id \in DOMAIN p[i].poses,
               id \notin S
        PROVE  \E j \in i + 1 .. Len(p) : p[j].type = "DELETECLIENT" /\ p[j].id = id
    <2>1. i + 1 \in 1 .. Len(q) /\ p[i] = q[i + 1] /\ i \in Nat  BY <1>2
    <2>2. PICK j \in (i + 1) + 1 .. Len(q) : q[j].type = "DELETECLIENT" /\ q[j].id = id
      BY <1>3, <2>1 DEF UpdatesIn
    <2>3. j - 1 \in i + 1 .. Len(p) /\ p[j - 1] = q[j]
      <3>1. j - 1 \in 1 .. Len(q) - 1 /\ (j - 1) + 1 = j  BY <1>2, <2>1, <2>2
      <3>2. j - 1 \in i + 1 .. Len(p)  BY <1>2, <2>1, <2>2
      <3> QED  BY <1>2, <3>1, <3>2
    <2> QED  BY <2>2, <2>3
  <1>4. UpdatesIn(p, S)  BY <1>3 DEF UpdatesIn
  <1> QED  BY <1>4 DEF p

LEMMA UpdatesInLast ==
  ASSUME NEW q, IsSeq(q), NEW S, UpdatesIn(q, S), NEW m, NEW T,
         m.type = "CLIENTUPDATE" => DOMAIN m.poses \subseteq T,
         \A id \in S : id \in T \/ (m.type = "DELETECLIENT" /\ m.id = id)
  PROVE  UpdatesIn(q \o <<m>>, T)
  <1>1. PICK R : q \in Seq(R)  BY DEF IsSeq
  <1> DEFINE p == q \o <<m>>
             L == Len(q)
  <1>2. /\ L \in Nat /\ Len(p) = L + 1 /\ p[L + 1] = m
        /\ \A n \in 1 .. L : p[n] = q[n]
    <2>1. q \in Seq(R \cup {m}) /\ <<m>> \in Seq(R \cup {m}) /\ Len(<<m>>) = 1 /\ <<m>>[1] = m
      BY <1>1
    <2> QED  BY <2>1
  <1>3. \A i \in 1 .. L : q[i].type = "CLIENTUPDATE" => \A id \in DOMAIN q[i].poses :
           id \in S \/ \E j \in i + 1 .. L : q[j].type = "DELETECLIENT" /\ q[j].id = id
    BY DEF UpdatesIn
  <1> HIDE DEF p, L
  <1>4. ASSUME NEW i \in 1 .. Len(p), p[i].type = "CLIENTUPDATE", NEW id \in DOMAIN p[i].poses,
               id \notin T
        PROVE  \E j \in i + 1 .. Len(p) : p[j].type = "DELETECLIENT" /\ p[j].id = id
    <2>1. i \in 1 .. L /\ p[i] = q[i]  BY <1>2, <1>4
    <2>2. CASE id \in S
      <3>1. m.type = "DELETECLIENT" /\ m.id = id  BY <1>4, <2>2
      <3>2. L + 1 \in i + 1 .. Len(p)  BY <1>2, <2>1
      <3> QED  BY <1>2, <3>1, <3>2
    <2>3. CASE id \notin S
      <3>1. PICK j \in i + 1 .. L : q[j].type = "DELETECLIENT" /\ q[j].id = id
        BY <1>3, <1>4, <2>1, <2>3
      <3>2. j \in i + 1 .. Len(p) /\ j \in 1 .. L  BY <1>2, <2>1, <3>1
      <3> QED  BY <1>2, <3>1, <3>2
    <2> QED  BY <2>2, <2>3
  <1>5. UpdatesIn(p, T)  BY <1>4 DEF UpdatesIn
  <1> QED  BY <1>5 DEF p

LEMMA UpdatesInMore ==
  ASSUME NEW q, NEW S, UpdatesIn(q, S), NEW T, S \subseteq T
  PROVE  UpdatesIn(q, T)
  BY DEF UpdatesIn

LEMMA NextUpdatesKnown ==
  IInv /\ KInv /\ UpdatesOf /\ UpdatesKnown /\ [Next]_vars => UpdatesKnown'
  <1> SUFFICES ASSUME IInv, KInv, UpdatesOf, UpdatesKnown, [Next]_vars,
                      stage'[Host] # "faulted"
               PROVE  UpdatesIn(toClient[Host], Numbered(joined \cup {Host}))'
    BY DEF UpdatesKnown
  <1> DEFINE q == toClient[Host]
             S == Numbered(joined \cup {Host})
  <1>1. /\ Host \in Conns /\ DOMAIN stage = Conns /\ IsQueues(toClient) /\ DOMAIN toClient = Conns
        /\ IsSeq(q)
    BY DEF IInv, Types, IsQueues, Conns
  <1>2. CASE /\ stage'[Host] = stage[Host] /\ toClient'[Host] = toClient[Host]
             /\ UNCHANGED <<joined, sock>>
    BY <1>2 DEF UpdatesKnown, Numbered
  <1>3. CASE UNCHANGED <<stage, toClient, joined, sock>>  BY <1>2, <1>3
  <1>4. CASE HostCycle
    <2> DEFINE m == [type |-> "CLIENTUPDATE", poses |-> updates]
               B == Broadcast[Host]
    <2>1. UNCHANGED <<sock, joined>> /\ ready = {}  BY <1>4 DEF HostCycle, history
    <2>2. stage[Host] # "faulted"
      BY <1>4 DEF HostCycle, HostAccepted, Accepted, Finished
    <2>3. UpdatesIn(q, S)  BY <2>2 DEF UpdatesKnown
    <2>4. IsQueues(Broadcast) /\ IsSeq(B)  BY <1>1, BroadcastQueues DEF GoodQueues, IsQueues
    <2>5. UpdatesIn(B, S)
      <3>1. B = q \/ B = q \o <<m>>  BY <1>1 DEF Broadcast, Write
      <3>2. m.type = "CLIENTUPDATE" => DOMAIN m.poses \subseteq S
        BY <2>1 DEF UpdatesOf
      <3> HIDE DEF m, q, S, B
      <3>3. \A id \in S : id \in S \/ (m.type = "DELETECLIENT" /\ m.id = id)  OBVIOUS
      <3> QED  BY <1>1, <2>3, <3>1, <3>2, <3>3, UpdatesInLast
    <2>6. \/ toClient' = Broadcast
          \/ B # <<>> /\ toClient' = [Broadcast EXCEPT ![Host] = Tail(@)]
      BY <1>4 DEF HostCycle, HostAccepted, Accepted, Finished
    <2>7. toClient'[Host] = B \/ (B # <<>> /\ toClient'[Host] = Tail(B))
      BY <1>1, <2>4, <2>6 DEF IsQueues
    <2>8. S' = S  BY <2>1 DEF Numbered
    <2> HIDE DEF B, S
    <2>9. UpdatesIn(toClient'[Host], S)  BY <2>4, <2>5, <2>7, UpdatesInTail
    <2> QED  BY <2>8, <2>9 DEF S
  <1>5. CASE Begin
    <2>1. UNCHANGED <<stage, joined>>  BY <1>5 DEF Begin, client, history
    <2>2. CASE UNCHANGED <<sock, toClient>>  BY <1>3, <2>1, <2>2
    <2>3. ASSUME backlog # <<>>, NEW c \in {Head(backlog)}, NEW n \in 0 .. nextSocket,
                 sock' = [sock EXCEPT ![c] = n],
                 toClient' = Write(toClient, {c}, <<[type |-> "CONNECTIONACCEPT", id |-> n]>>)
          PROVE  UpdatesIn(toClient[Host], Numbered(joined \cup {Host}))'
      <3> DEFINE m == [type |-> "CONNECTIONACCEPT", id |-> n]
      <3>1. c \in Conns /\ c \notin group
        <4>1. c \in Elems(backlog)  BY <2>3, TailSeq DEF IInv, Types
        <4> QED  BY <4>1 DEF IInv, Types, Backlog
      <3>2. \A d \in group : sock'[d] = sock[d]  BY <2>3, <3>1 DEF IInv, Types
      <3>3. CASE Host \in group
        <4>1. toClient'[Host] = toClient[Host]  BY <1>1, <2>3, <3>1, <3>3 DEF Write
        <4>2. S' = S  BY <2>1, <3>2, <3>3 DEF Numbered, KInv
        <4>3. UpdatesIn(q, S)  BY <2>1 DEF UpdatesKnown
        <4> QED  BY <4>1, <4>2, <4>3
      <3>4. CASE Host \notin group
        <4>1. q = <<>>  BY <1>1, <3>4 DEF IInv, Sessions
        <4>2. toClient'[Host] = q \/ toClient'[Host] = q \o <<m>>  BY <1>1, <2>3 DEF Write
        <4>3. m.type # "CLIENTUPDATE"  OBVIOUS
        <4> HIDE DEF m, q, S
        <4> DEFINE T == Numbered(joined \cup {Host})'
        <4> HIDE DEF T
        <4>4. UpdatesIn(q, T)  BY <4>1, UpdatesInEmpty
        <4>5. IsSeq(q) /\ (m.type = "CLIENTUPDATE" => DOMAIN m.poses \subseteq T)
              /\ \A id \in T : id \in T \/ (m.type = "DELETECLIENT" /\ m.id = id)
          BY <1>1, <4>3
        <4>6. UpdatesIn(q \o <<m>>, T)  BY <4>4, <4>5, UpdatesInLast
        <4>7. UpdatesIn(toClient'[Host], T)  BY <4>2, <4>4, <4>6
        <4> QED  BY <4>7 DEF T
      <3> QED  BY <3>3, <3>4
    <2> QED  BY <1>5, <2>2, <2>3 DEF Begin
  <1>6. ASSUME NEW k \in Conns, ReadPlayerInfo(k)
        PROVE  UpdatesIn(toClient[Host], Numbered(joined \cup {Host}))'
    <2> DEFINE h == Head(toServer[k])
               table == CreatePlayer(player[Host], h.id, h.info)
               m == [type |-> "CLIENTADD", id |-> h.id, info |-> table[h.id]]
    <2>1. /\ UNCHANGED <<stage, sock>> /\ joined' = joined \cup {k}
          /\ \/ toClient' = Write(Write(toClient, {k}, WorldInfo(table)), group, <<m>>)
             \/ toClient' = Write(Write(toClient, {k}, WorldInfo(table)), group, <<>>)
      BY <1>6 DEF ReadPlayerInfo
    <2>2. k # Host
      <3>1. h \in Elems(toServer[k]) /\ h.type = "PLAYERINFO"
        BY <1>6, ReadFacts DEF ReadPlayerInfo
      <3> QED  BY <3>1 DEF KInv, Introductions
    <2>3. m.type # "CLIENTUPDATE"  OBVIOUS
    <2> HIDE DEF table, m
    <2>4. toClient'[Host] \in {q, q \o <<>>, q \o <<m>>}
      <3> DEFINE p == Write(toClient, {k}, WorldInfo(table))
      <3>1. p[Host] = q  BY <1>1, <2>2 DEF Write
      <3>2. toClient' = Write(p, group, <<m>>) \/ toClient' = Write(p, group, <<>>)  BY <2>1
      <3> HIDE DEF p, q
      <3> QED  BY <1>1, <3>1, <3>2 DEF Write
    <2>5. UpdatesIn(q, S) /\ S \subseteq S'  BY <2>1 DEF UpdatesKnown, Numbered
    <2>6. q \o <<>> = q
      <3>1. PICK R : q \in Seq(R)  BY <1>1 DEF IsSeq
      <3> QED  BY <3>1
    <2> DEFINE T == Numbered(joined \cup {Host})'
    <2>7. S \subseteq T  BY <2>5
    <2> HIDE DEF q, S, T
    <2>8. UpdatesIn(q, T)  BY <2>5, <2>7, UpdatesInMore
    <2>9. UpdatesIn(q \o <<m>>, T)  BY <1>1, <2>3, <2>8, UpdatesInLast
    <2>10. UpdatesIn(toClient'[Host], T)  BY <2>4, <2>6, <2>8, <2>9
    <2> QED  BY <2>10 DEF T
  <1>7. ASSUME NEW k \in Conns, ReadPlayerDelete(k)
        PROVE  UpdatesIn(toClient[Host], Numbered(joined \cup {Host}))'
    <2> DEFINE m == [type |-> "DELETECLIENT", id |-> sock[k]]
    <2>1. /\ k \in group /\ Head(toServer[k]) \in Elems(toServer[k])
          /\ Head(toServer[k]).type = "PLAYERDELETE"
      BY <1>7, ReadKeeps DEF ReadPlayerDelete
    <2>2. /\ stage' = stage /\ sock' = [sock EXCEPT ![k] = NoSocket] /\ joined' = joined \ {k}
          /\ toClient' = Write(toClient, group', <<m>>) /\ group' = group \ {k}
      BY <1>7 DEF ReadPlayerDelete, client
    <2>3. k # Host /\ Host \in group
      <3>1. stage[k] = "gone"  BY <2>1 DEF IInv, Sessions
      <3> QED  BY <2>1, <3>1 DEF KInv, HostStages, HostFirst
    <2>4. Alive(Host)  BY <2>2 DEF KInv, HostStages, Alive
    <2>5. toClient'[Host] = q \o <<m>>  BY <1>1, <2>2, <2>3, <2>4 DEF Write
    <2>6. \A c \in Conns : c # k => sock'[c] = sock[c]  BY <2>2 DEF IInv, Types
    <2>7. joined \cup {Host} \subseteq Conns  BY <1>1 DEF KInv, IInv, Types
    <2> DEFINE T == Numbered(joined \cup {Host})'
    <2>8. \A id \in S : id \in T \/ id = sock[k]
      BY <2>2, <2>3, <2>6, <2>7 DEF Numbered
    <2>9. m.type = "DELETECLIENT" /\ m.id = sock[k]  OBVIOUS
    <2>10. UpdatesIn(q, S)  BY <2>2 DEF UpdatesKnown
    <2> HIDE DEF m, q, S, T
    <2>11. \A id \in S : id \in T \/ (m.type = "DELETECLIENT" /\ m.id = id)  BY <2>8, <2>9
    <2>12. UpdatesIn(q \o <<m>>, T)  BY <1>1, <2>9, <2>10, <2>11, UpdatesInLast
    <2> QED  BY <2>5, <2>12 DEF T
  <1>8. CASE Server
    <2>1. CASE AcceptError  BY <1>3, <2>1 DEF AcceptError, client, history
    <2>2. ASSUME NEW k \in Conns, ReadEnd(k) \/ ReadPlayerUpdate(k)
          PROVE  UpdatesIn(toClient[Host], Numbered(joined \cup {Host}))'
      BY <1>3, <2>2 DEF ReadEnd, ReadPlayerUpdate, client, history
    <2> QED  BY <1>4, <1>5, <1>6, <1>7, <1>8, <2>1, <2>2 DEF Server
  <1>9. ASSUME NEW k \in Conns,
               \/ JoinerCycle(k) \/ Connect(k) \/ GetAcceptance(k) \/ Timeout(k)
               \/ SendDelete(k) \/ Disappear(k) \/ ShutdownLevel(k) \/ Move(k)
        PROVE  UpdatesIn(toClient[Host], Numbered(joined \cup {Host}))'
    <2>1. UNCHANGED <<joined, sock>>
      BY <1>9 DEF JoinerCycle, Connect, GetAcceptance, Timeout, SendDelete, Disappear,
                  ShutdownLevel, Move, server, history
    <2>2. stage'[Host] = stage[Host] /\ toClient'[Host] = toClient[Host]
      <3>1. CASE JoinerCycle(k)
        <4>1. k # Host  BY <3>1 DEF JoinerCycle
        <4>2. /\ stage' = stage \/ \E s : stage' = [stage EXCEPT ![k] = s]
              /\ toClient' = toClient \/ toClient' = [toClient EXCEPT ![k] = Tail(@)]
          <5>1. CASE AcceptedStage(k)  BY <5>1 DEF AcceptedStage, MakeOwnPlayer
          <5>2. CASE PlayerSetup(k)  BY <5>2 DEF PlayerSetup
          <5>3. CASE OtherPlayers(k)  BY <5>3 DEF OtherPlayers
          <5>4. CASE Finished(k, toClient, toClient[k] # <<>>)  BY <5>4 DEF Finished
          <5> QED  BY <3>1, <5>1, <5>2, <5>3, <5>4 DEF JoinerCycle
        <4> QED  BY <1>1, <4>1, <4>2
      <3>2. CASE Connect(k) \/ Timeout(k) \/ ShutdownLevel(k) \/ Move(k)
        BY <1>1, <3>2 DEF Connect, Timeout, ShutdownLevel, Move
      <3>3. CASE GetAcceptance(k)
        BY <1>1, <3>3 DEF GetAcceptance, Accepted
      <3>4. CASE SendDelete(k) \/ Disappear(k)
        BY <1>1, <3>4 DEF SendDelete, Disappear
      <3> QED  BY <1>9, <3>1, <3>2, <3>3, <3>4
    <2> QED  BY <1>2, <2>1, <2>2
  <1>10. CASE UNCHANGED vars  BY <1>3, <1>10 DEF vars, client, server, history
  <1> QED  BY <1>8, <1>9, <1>10 DEF Next

------------------------------------------------------------------------------
(* A joiner and the host read the same *)

\* Whoever ends like e is in the game, and knows what h says but for the poses in X.
Alike(e, h, X) ==
  /\ e = InGame(e.knows) /\ SameBut(e.knows, h, X)
  /\ Named(e.knows) /\ Named(h)

MyEnd(c) == End(toClient[c], [knows |-> player[c], got |-> got[c]], playerId[c])
HostKnow == Knows(toClient[Host], player[Host], playerId[Host])
Own(c) == {playerId[c], playerId[Host]}

AgreeAt(c) ==
  InSession(c) /\ stage[Host] = "FINISHED" /\ wiped = {} => Alike(MyEnd(c), HostKnow, Own(c))
Agree == \A c \in clean : AgreeAt(c)

AInv ==
  /\ IInv /\ SInv /\ KInv
  /\ AllNamed /\ OwnOnly /\ InfoFirst /\ CleanStages /\ UpdatesOf /\ UpdatesKnown

LEMMA SameSym ==
  ASSUME NEW t, NEW u, NEW X, SameBut(t, u, X)
  PROVE  SameBut(u, t, X)
  BY DEF SameBut

LEMMA SameMore ==
  ASSUME NEW t, NEW u, NEW X, SameBut(t, u, X), NEW Y, X \subseteq Y
  PROVE  SameBut(t, u, Y)
  BY DEF SameBut

LEMMA InGameIs == \A table : InGame(table).knows = table
  BY DEF InGame

\* Both read the same packet.
LEMMA BothRead ==
  ASSUME NEW q, IsSeq(q), NEW s, NEW self, NEW p, IsSeq(p), NEW t, NEW other, NEW X,
         Alike(End(q, s, self), Knows(p, t, other), X), self \in X, other \in X,
         NEW m, NamedMsg(m)
  PROVE  Alike(End(q \o <<m>>, s, self), Knows(p \o <<m>>, t, other), X)
  <1> DEFINE e == End(q, s, self)
             h == Knows(p, t, other)
             f == Process(e.knows, m, self)
             g == Process(h, m, other)
  <1>1. e = InGame(e.knows) /\ SameBut(e.knows, h, X) /\ Named(e.knows) /\ Named(h)
    BY DEF Alike
  <1>2. End(q \o <<m>>, s, self) = Take(e, m, self)  BY EndLast
  <1>3. Knows(p \o <<m>>, t, other) = g  BY KnowsLast
  <1> HIDE DEF e, h
  <1>4. Take(e, m, self) = InGame(f)  BY <1>1, TakeInGame
  <1>5. SameBut(f, g, X) /\ Named(f) /\ Named(g)  BY <1>1, ProcessSame
  <1> HIDE DEF f, g
  <1>6. Alike(InGame(f), g, X)  BY <1>5, InGameIs DEF Alike
  <1> QED  BY <1>2, <1>3, <1>4, <1>6

\* Nothing that both depend on changes.
LEMMA AgreeKept ==
  ASSUME Agree, NEW c \in clean, InSession(c), stage[Host] = "FINISHED", wiped = {},
         toClient'[c] = toClient[c], player'[c] = player[c], playerId'[c] = playerId[c],
         got'[c] = got[c],
         toClient'[Host] = toClient[Host], player'[Host] = player[Host],
         playerId'[Host] = playerId[Host]
  PROVE  AgreeAt(c)'
  <1>1. Alike(MyEnd(c), HostKnow, Own(c))  BY DEF Agree, AgreeAt
  <1>2. MyEnd(c)' = MyEnd(c)  BY DEF MyEnd
  <1>3. HostKnow' = HostKnow  BY DEF HostKnow
  <1>4. Own(c)' = Own(c)  BY DEF Own
  <1>5. Alike(MyEnd(c)', HostKnow', Own(c)')  BY <1>1, <1>2, <1>3, <1>4
  <1> QED  BY <1>5 DEF AgreeAt

\* The own pose changes only what is known of oneself.
LEMMA OwnPoseKnown ==
  ASSUME NEW q, IsSeq(q), \A m \in Elems(q) : NamedMsg(m), NEW t, Named(t),
         NEW self, NEW p, NEW X, self \in X
  PROVE  /\ SameBut(Knows(q, [t EXCEPT ![self].pose = p], self), Knows(q, t, self), X)
         /\ Named(Knows(q, [t EXCEPT ![self].pose = p], self)) /\ Named(Knows(q, t, self))
  <1> DEFINE u == [t EXCEPT ![self].pose = p]
  <1>1. Named(u) /\ SameBut(u, t, {self})  BY OwnPose
  <1>2. SameBut(u, t, X)  BY <1>1, SameMore
  <1> HIDE DEF u
  <1>3. SameBut(Knows(q, u, self), Knows(q, t, self), X)
        /\ Named(Knows(q, u, self)) /\ Named(Knows(q, t, self))
    BY <1>1, <1>2, KnowsSame
  <1> QED  BY <1>3 DEF u

------------------------------------------------------------------------------
(* The steps of the programs *)

\* A list is entered whole.
LEMMA ListFits ==
  ASSUME IInv, NEW k \in Conns, OtherPlayers(k), Head(toClient[k]).type = "CLIENTLIST"
  PROVE  LET list == Head(toClient[k]).list IN
           player'[k] = AddList(player[k], list, DOMAIN list \ DOMAIN player[k])
  <1> DEFINE t == player[k]
             list == Head(toClient[k]).list
             new == DOMAIN list \ DOMAIN t
             N == 0 .. nextSocket - 1
  <1>1. PICK added \in SUBSET DOMAIN list :
           MayAdd(t, list, added) /\ player' = [player EXCEPT ![k] = AddList(@, list, added)]
    BY DEF OtherPlayers
  <1>2. player'[k] = AddList(t, list, added)  BY <1>1 DEF IInv, Types
  <1>3. IsFiniteSet(N) /\ Cardinality(N) < MAXPLAYERS  BY NumbersFinite
  <1>4. DOMAIN t \subseteq N /\ DOMAIN list \subseteq N
    <2>1. toClient[k] # <<>>  BY DEF OtherPlayers
    <2>2. Head(toClient[k]) \in Elems(toClient[k])  BY <2>1, TailSeq DEF IInv, Types, IsQueues
    <2> QED  BY <2>2 DEF IInv, Numbers
  <1>5. added \subseteq new /\ (added = new \/ Cardinality(added) = MAXPLAYERS - Cardinality(DOMAIN t))
    BY <1>1 DEF MayAdd
  <1>6. added = new
    <2> SUFFICES ASSUME Cardinality(added) = MAXPLAYERS - Cardinality(DOMAIN t) PROVE FALSE
      BY <1>5
    <2> HIDE DEF t, list, N
    <2>1. /\ IsFiniteSet(DOMAIN t) /\ IsFiniteSet(added) /\ IsFiniteSet(DOMAIN t \cup added)
          /\ Cardinality(DOMAIN t \cup added) <= Cardinality(N)
      <3>1. DOMAIN t \cup added \subseteq N  BY <1>4, <1>5
      <3> QED  BY <1>3, <1>4, <3>1, FS_Subset
    <2>2. DOMAIN t \cap added = {}  BY <1>5
    <2>3. Cardinality(DOMAIN t \cup added)
            = Cardinality(DOMAIN t) + Cardinality(added) - Cardinality(DOMAIN t \cap added)
      BY <2>1, FS_Union
    <2>4. Cardinality(DOMAIN t \cap added) = 0  BY <2>2, FS_EmptySet
    <2>5. /\ Cardinality(DOMAIN t) \in Nat /\ Cardinality(added) \in Nat
          /\ Cardinality(N) \in Nat /\ MAXPLAYERS \in Nat
      BY <1>3, <2>1, FS_CardinalityType, NetAssumption
    <2> QED  BY <1>3, <2>1, <2>3, <2>4, <2>5
  <1> QED  BY <1>2, <1>6

\* To read a packet of the handshake is to take the first step of what is to come.
LEMMA OtherPlayersEnd ==
  ASSUME IInv, SInv, NEW k \in Joiners, OtherPlayers(k), got[k] # CONNECTIONPACKETS
  PROVE  MyEnd(k)' = MyEnd(k)
  <1> DEFINE q == toClient[k]
             s == [knows |-> player[k], got |-> got[k]]
             t == [knows |-> player'[k], got |-> got'[k]]
             m == Head(q)
  <1>1. k \in Conns /\ q # <<>> /\ IsSeq(q) /\ DOMAIN toClient = Conns /\ DOMAIN got = Conns
        /\ DOMAIN player = Conns
    BY DEF OtherPlayers, IInv, Types, IsQueues, SInv, Conns
  <1>2. toClient'[k] = Tail(q) /\ playerId' = playerId  BY <1>1 DEF OtherPlayers
  <1>3. got'[k] = IF m.type \in Handshake THEN got[k] + 1 ELSE got[k]
    BY <1>1 DEF OtherPlayers
  <1>4. player'[k] = IF m.type = "CLIENTLIST"
                     THEN AddList(player[k], m.list, DOMAIN m.list \ DOMAIN player[k])
                     ELSE player[k]
    <2>1. CASE m.type = "CLIENTLIST"  BY <1>1, <2>1, ListFits
    <2>2. CASE m.type # "CLIENTLIST"  BY <1>1, <2>2 DEF OtherPlayers
    <2> QED  BY <2>1, <2>2
  <1>5. t = Take(s, m, playerId[k])
    <2>1. s.knows = player[k] /\ s.got = got[k]  OBVIOUS
    <2> QED  BY <1>3, <1>4, <2>1 DEF Take
  <1>6. MyEnd(k) = End(q, s, playerId[k])  BY DEF MyEnd
  <1>7. MyEnd(k)' = End(Tail(q), t, playerId[k])  BY <1>2 DEF MyEnd
  <1> HIDE DEF s, t
  <1>8. End(q, s, playerId[k]) = End(Tail(q), t, playerId[k])  BY <1>1, <1>5, EndTail
  <1> QED  BY <1>6, <1>7, <1>8

\* Reading in the game, and then noting one's own pose.
LEMMA FinishedKnows ==
  ASSUME IInv, NEW k \in Conns, NEW coming, IsQueues(coming), NamedQueues(coming),
         NamedTables(player), NEW read \in BOOLEAN, Finished(k, coming, read),
         stage'[k] = "FINISHED", NEW X, playerId[k] \in X
  PROVE  /\ SameBut(Knows(toClient'[k], player'[k], playerId[k]),
                    Knows(coming[k], player[k], playerId[k]), X)
         /\ Named(Knows(toClient'[k], player'[k], playerId[k]))
  <1> DEFINE self == playerId[k]
             t == IF read THEN Process(player[k], Head(coming[k]), self) ELSE player[k]
             q == toClient'[k]
             p == pose[k]
  <1>1. DOMAIN coming = Conns /\ IsSeq(coming[k]) /\ DOMAIN player = Conns /\ DOMAIN stage = Conns
    BY DEF IsQueues, IInv, Types
  <1>2. q = IF read THEN Tail(coming[k]) ELSE coming[k]  BY <1>1 DEF Finished
  <1>3. read => coming[k] # <<>>  BY DEF Finished
  <1>4. player'[k] = [t EXCEPT ![self].pose = p]
    <2>1. CASE ~Known(t, self)  BY <1>1, <2>1 DEF Finished
    <2>2. CASE Known(t, self)
      <3>1. player' = [player EXCEPT ![k] = [t EXCEPT ![self].pose = p]]  BY <2>2 DEF Finished
      <3> QED  BY <1>1, <3>1
    <2> QED  BY <2>1, <2>2
  <1>5. IsSeq(q) /\ \A m \in Elems(q) : NamedMsg(m)
    <2>1. \A m \in Elems(coming[k]) : NamedMsg(m)  BY DEF NamedQueues
    <2>2. read => IsSeq(Tail(coming[k])) /\ Elems(Tail(coming[k])) \subseteq Elems(coming[k])
      BY <1>1, <1>3, TailSeq
    <2> QED  BY <1>1, <1>2, <2>1, <2>2
  <1>6. Named(t)
    <2>1. Named(player[k])  BY DEF NamedTables
    <2>2. read => NamedMsg(Head(coming[k]))
      BY <1>1, <1>3, TailSeq DEF NamedQueues
    <2> QED  BY <2>1, <2>2, NamedProcess
  <1>7. Knows(coming[k], player[k], self) = Knows(q, t, self)
    BY <1>1, <1>2, <1>3, KnowsTail
  <1> HIDE DEF t, q, p, self
  <1>8. /\ SameBut(Knows(q, [t EXCEPT ![self].pose = p], self), Knows(q, t, self), X)
        /\ Named(Knows(q, [t EXCEPT ![self].pose = p], self))
    BY <1>5, <1>6, OwnPoseKnown DEF self
  <1> QED  BY <1>4, <1>7, <1>8 DEF q, self

LEMMA JoinerAgrees ==
  ASSUME AInv, Agree, NEW k \in Conns, JoinerCycle(k), NEW c \in clean
  PROVE  AgreeAt(c)'
  <1>1. /\ UNCHANGED <<server, history>> /\ k # Host /\ k \in Joiners /\ c \in Conns /\ c # Host
        /\ Host \in Conns
    <2>1. clean \subseteq Joiners  BY DEF AInv, CleanStages
    <2>2. Joiners \subseteq Conns /\ Host \in Conns /\ Host \notin Joiners
          /\ \A d \in Conns : d # Host => d \in Joiners
      BY NetAssumption DEF Conns
    <2>3. UNCHANGED <<server, history>> /\ k # Host  BY DEF JoinerCycle
    <2> QED  BY <2>1, <2>2, <2>3
  <1> SUFFICES ASSUME InSession(c)', stage'[Host] = "FINISHED", wiped' = {}
               PROVE  AgreeAt(c)'
    BY DEF AgreeAt
  <1>2. \A d \in Conns : d # k => /\ stage'[d] = stage[d] /\ player'[d] = player[d]
                                  /\ playerId'[d] = playerId[d] /\ got'[d] = got[d]
                                  /\ toClient'[d] = toClient[d]
    <2>1. /\ DOMAIN stage = Conns /\ DOMAIN player = Conns /\ DOMAIN playerId = Conns
          /\ DOMAIN got = Conns /\ DOMAIN toClient = Conns
      BY DEF AInv, IInv, SInv, Types, IsQueues
    <2>2. CASE AcceptedStage(k)  BY <2>1, <2>2 DEF AcceptedStage, MakeOwnPlayer
    <2>3. CASE PlayerSetup(k)  BY <2>1, <2>3 DEF PlayerSetup
    <2>4. CASE OtherPlayers(k)  BY <2>1, <2>4 DEF OtherPlayers
    <2>5. CASE Finished(k, toClient, toClient[k] # <<>>)  BY <2>1, <2>5 DEF Finished
    <2> QED  BY <2>2, <2>3, <2>4, <2>5 DEF JoinerCycle
  <1>3. stage[Host] = "FINISHED" /\ wiped = {}  BY <1>1, <1>2 DEF history
  <1>4. CASE c # k
    <2>1. InSession(c)  BY <1>1, <1>2, <1>4 DEF InSession
    <2> QED  BY <1>1, <1>2, <1>3, <1>4, <2>1, AgreeKept
  <1>5. CASE c = k
    <2>1. stage[k] \notin Early  BY <1>5 DEF AInv, CleanStages
    <2>2. CASE OtherPlayers(k)
      <3>1. stage[k] = "OTHERPLAYERS" /\ playerId' = playerId  BY <2>2 DEF OtherPlayers
      <3>2. got[k] # CONNECTIONPACKETS  BY <1>1, <3>1 DEF AInv, OwnOnly, OwnFirst
      <3>3. MyEnd(k)' = MyEnd(k)  BY <1>1, <2>2, <3>2, OtherPlayersEnd DEF AInv
      <3>4. Alike(MyEnd(k), HostKnow, Own(k))
        BY <1>3, <1>5, <3>1 DEF Agree, AgreeAt, InSession
      <3>5. HostKnow' = HostKnow  BY <1>1, <1>2 DEF HostKnow
      <3>6. Own(k)' = Own(k)  BY <3>1 DEF Own
      <3>7. Alike(MyEnd(k)', HostKnow', Own(k)')  BY <3>3, <3>4, <3>5, <3>6
      <3> QED  BY <1>5, <3>7 DEF AgreeAt
    <2>3. CASE Finished(k, toClient, toClient[k] # <<>>)
      <3> DEFINE X == Own(k)
                 new == Knows(toClient'[k], player'[k], playerId[k])
                 old == Knows(toClient[k], player[k], playerId[k])
      <3>1. stage[k] = "FINISHED" /\ playerId' = playerId /\ got' = got  BY <2>3 DEF Finished
      <3>2. got[k] = CONNECTIONPACKETS  BY <1>1, <3>1 DEF AInv, SInv, Shaking
      <3>3. stage'[k] = "FINISHED"
        <4>1. stage'[k] \in {"FINISHED", "faulted"}
          BY <1>1, <3>1, <2>3 DEF Finished, AInv, IInv, Types
        <4> QED  BY <1>5, <4>1 DEF InSession
      <3>4. IsQueues(toClient) /\ NamedQueues(toClient) /\ NamedTables(player) /\ IsSeq(toClient[k])
            /\ IsSeq(toClient'[k])
        <4>1. IInv'  BY NextIInv DEF AInv, Next
        <4> QED  BY <1>1, <4>1 DEF AInv, IInv, Types, AllNamed, IsQueues
      <3>5. playerId[k] \in X  BY DEF Own
      <3>6. SameBut(new, old, X) /\ Named(new)
        <4>1. (toClient[k] # <<>>) \in BOOLEAN  OBVIOUS
        <4> HIDE DEF X
        <4> QED  BY <1>1, <2>3, <3>3, <3>4, <3>5, <4>1, FinishedKnows DEF AInv
      <3>7. MyEnd(k) = InGame(old) /\ MyEnd(k)' = InGame(new)
        <4>1. MyEnd(k) = End(toClient[k], InGame(player[k]), playerId[k])
          BY <3>2 DEF MyEnd, InGame
        <4>2. MyEnd(k)' = End(toClient'[k], InGame(player'[k]), playerId[k])
          BY <3>1, <3>2 DEF MyEnd, InGame
        <4> QED  BY <3>4, <4>1, <4>2, EndInGame
      <3>8. Alike(MyEnd(k), HostKnow, X)
        BY <1>3, <1>5, <3>1 DEF Agree, AgreeAt, InSession
      <3>9. HostKnow' = HostKnow  BY <1>1, <1>2 DEF HostKnow
      <3>10. Own(k)' = X  BY <3>1 DEF Own
      <3> HIDE DEF X, new, old
      <3>11. SameBut(old, HostKnow, X) /\ Named(HostKnow)  BY <3>7, <3>8, InGameIs DEF Alike
      <3>12. SameBut(new, HostKnow, X)  BY <3>6, <3>11, SameButTrans
      <3>13. Alike(MyEnd(k)', HostKnow', Own(k)')
        BY <3>6, <3>7, <3>9, <3>10, <3>11, <3>12, InGameIs DEF Alike
      <3> QED  BY <1>5, <3>13 DEF AgreeAt
    <2>4. ~AcceptedStage(k) /\ ~PlayerSetup(k)
      BY <2>1 DEF AcceptedStage, PlayerSetup, Early
    <2> QED  BY <2>2, <2>3, <2>4 DEF JoinerCycle
  <1> QED  BY <1>4, <1>5

------------------------------------------------------------------------------
LEMMA CleanConns ==
  ASSUME AInv, NEW c \in clean
  PROVE  c \in Joiners /\ c \in Conns /\ c # Host /\ Host \in Conns
  BY NetAssumption DEF AInv, CleanStages, Conns

LEMMA ProgramAgrees ==
  ASSUME AInv, Agree, NEW k \in Conns,
         \/ Connect(k) \/ GetAcceptance(k) \/ Timeout(k) \/ SendDelete(k)
         \/ Disappear(k) \/ ShutdownLevel(k) \/ Move(k),
         NEW c \in clean
  PROVE  AgreeAt(c)'
  <1> SUFFICES ASSUME InSession(c)', stage'[Host] = "FINISHED", wiped' = {}
               PROVE  AgreeAt(c)'
    BY DEF AgreeAt
  <1>1. c \in Joiners /\ c \in Conns /\ c # Host /\ Host \in Conns  BY CleanConns
  <1>2. /\ DOMAIN stage = Conns /\ DOMAIN player = Conns /\ DOMAIN playerId = Conns
        /\ DOMAIN got = Conns /\ DOMAIN toClient = Conns
    BY DEF AInv, IInv, SInv, Types, IsQueues
  <1>3. ~ShutdownLevel(k)  BY DEF ShutdownLevel
  <1>4. k = c => ~Connect(k) /\ ~GetAcceptance(k) /\ ~Timeout(k)
    <2>1. stage[c] \notin Early  BY DEF AInv, CleanStages
    <2> QED  BY <2>1 DEF Connect, GetAcceptance, Accepted, Timeout, Early
  <1>5. k = c => ~SendDelete(k) /\ ~Disappear(k)
    BY <1>1, <1>2 DEF SendDelete, Disappear, InSession
  <1>6. \/ Move(k)
        \/ /\ k # Host /\ k # c /\ UNCHANGED <<got, wiped>>
           /\ \A d \in Conns : d # k => /\ stage'[d] = stage[d] /\ player'[d] = player[d]
                                        /\ playerId'[d] = playerId[d] /\ toClient'[d] = toClient[d]
    <2>1. CASE Connect(k)  BY <1>2, <1>4, <2>1 DEF Connect, history
    <2>2. CASE GetAcceptance(k)  BY <1>2, <1>4, <2>2 DEF GetAcceptance, Accepted, history
    <2>3. CASE Timeout(k)  BY <1>2, <1>4, <2>3 DEF Timeout, history
    <2>4. CASE SendDelete(k)  BY <1>2, <1>5, <2>4 DEF SendDelete, history
    <2>5. CASE Disappear(k)  BY <1>2, <1>5, <2>5 DEF Disappear, history
    <2> QED  BY <1>3, <2>1, <2>2, <2>3, <2>4, <2>5
  <1>7. /\ UNCHANGED <<got, wiped>> /\ stage'[c] = stage[c] /\ stage'[Host] = stage[Host]
        /\ player'[c] = player[c] /\ player'[Host] = player[Host]
        /\ playerId'[c] = playerId[c] /\ playerId'[Host] = playerId[Host]
        /\ toClient'[c] = toClient[c] /\ toClient'[Host] = toClient[Host]
    <2>1. CASE Move(k)  BY <2>1 DEF Move, history
    <2> QED  BY <1>1, <1>6, <2>1
  <1>8. InSession(c) /\ stage[Host] = "FINISHED" /\ wiped = {}  BY <1>7 DEF InSession
  <1> QED  BY <1>7, <1>8, AgreeKept

LEMMA QuietAgrees ==
  ASSUME AInv, Agree, NEW c \in clean, UNCHANGED <<client, wiped>>,
         InSession(c) /\ stage[Host] = "FINISHED" /\ wiped = {}
           => toClient'[c] = toClient[c] /\ toClient'[Host] = toClient[Host]
  PROVE  AgreeAt(c)'
  <1> SUFFICES ASSUME InSession(c)', stage'[Host] = "FINISHED", wiped' = {}
               PROVE  AgreeAt(c)'
    BY DEF AgreeAt
  <1>1. UNCHANGED <<stage, player, playerId, got, wiped>>  BY DEF client
  <1>2. InSession(c) /\ stage[Host] = "FINISHED" /\ wiped = {}  BY <1>1 DEF InSession
  <1> QED  BY <1>1, <1>2, AgreeKept

LEMMA BeginAgrees ==
  ASSUME AInv, Agree, Begin, NEW c \in clean
  PROVE  AgreeAt(c)'
  <1>1. UNCHANGED <<client, wiped>>  BY DEF Begin, history
  <1>2. ASSUME InSession(c), stage[Host] = "FINISHED"
        PROVE  toClient'[c] = toClient[c] /\ toClient'[Host] = toClient[Host]
    <2>1. c \in Conns /\ Host \in Conns /\ DOMAIN toClient = Conns
      BY CleanConns DEF AInv, IInv, Types, IsQueues
    <2>2. c \in group /\ Host \in group
      <3>1. InSession(Host)  BY <1>2 DEF InSession
      <3> QED  BY <1>2, <2>1, <3>1 DEF AInv, IInv, Sessions
    <2>3. CASE UNCHANGED toClient  BY <2>3
    <2>4. ASSUME backlog # <<>>, NEW k \in {Head(backlog)}, NEW m,
                 toClient' = Write(toClient, {k}, m)
          PROVE  toClient'[c] = toClient[c] /\ toClient'[Host] = toClient[Host]
      <3>1. k \notin group
        <4>1. k \in Elems(backlog)  BY <2>4, TailSeq DEF AInv, IInv, Types
        <4> QED  BY <4>1 DEF AInv, IInv, Backlog
      <3> QED  BY <2>1, <2>2, <2>4, <3>1 DEF Write
    <2> QED  BY <2>3, <2>4 DEF Begin
  <1> QED  BY <1>1, <1>2, QuietAgrees

\* The server writes the same packet to both.
LEMMA BothSent ==
  ASSUME AInv, Agree, NEW c \in clean, InSession(c), stage[Host] = "FINISHED", wiped = {},
         NEW x, NamedMsg(x), NEW p, p = toClient[c] \o <<x>>, NEW q, q = toClient[Host] \o <<x>>
  PROVE  Alike(End(p, [knows |-> player[c], got |-> got[c]], playerId[c]),
               Knows(q, player[Host], playerId[Host]), Own(c))
  <1>1. c \in Conns /\ Host \in Conns  BY CleanConns
  <1>2. IsSeq(toClient[c]) /\ IsSeq(toClient[Host])  BY <1>1 DEF AInv, IInv, Types, IsQueues
  <1>3. Alike(MyEnd(c), HostKnow, Own(c))  BY DEF Agree, AgreeAt
  <1>4. playerId[c] \in Own(c) /\ playerId[Host] \in Own(c)  BY DEF Own
  <1> DEFINE s == [knows |-> player[c], got |-> got[c]]
             X == Own(c)
             a == toClient[c]
             b == toClient[Host]
  <1>5. Alike(End(a, s, playerId[c]), Knows(b, player[Host], playerId[Host]), X)
    BY <1>3 DEF MyEnd, HostKnow
  <1> HIDE DEF s, X, a, b
  <1>6. Alike(End(a \o <<x>>, s, playerId[c]), Knows(b \o <<x>>, player[Host], playerId[Host]), X)
    BY <1>2, <1>4, <1>5, BothRead DEF a, b, X
  <1> QED  BY <1>6 DEF s, X, a, b

LEMMA DeleteAgrees ==
  ASSUME AInv, Agree, NEW k \in Conns, ReadPlayerDelete(k), NEW c \in clean
  PROVE  AgreeAt(c)'
  <1> SUFFICES ASSUME InSession(c)', stage'[Host] = "FINISHED", wiped' = {}
               PROVE  AgreeAt(c)'
    BY DEF AgreeAt
  <1> DEFINE x == [type |-> "DELETECLIENT", id |-> sock[k]]
  <1>1. /\ UNCHANGED <<stage, player, playerId, got, wiped>> /\ group' = group \ {k}
        /\ toClient' = Write(toClient, group', <<x>>)
    BY DEF ReadPlayerDelete, client
  <1>2. InSession(c) /\ stage[Host] = "FINISHED" /\ wiped = {}  BY <1>1 DEF InSession
  <1>3. c \in Conns /\ Host \in Conns  BY CleanConns
  <1>4. stage[k] = "gone"
    <2>1. Head(toServer[k]) \in Elems(toServer[k]) /\ Head(toServer[k]).type = "PLAYERDELETE"
      BY ReadKeeps DEF AInv, ReadPlayerDelete
    <2> QED  BY <2>1 DEF AInv, IInv, Sessions
  <1>5. c \in group' /\ Host \in group' /\ Alive(c) /\ Alive(Host)
    <2>1. InSession(Host)  BY <1>2 DEF InSession
    <2>2. c \in group /\ Host \in group  BY <1>2, <1>3, <2>1 DEF AInv, IInv, Sessions
    <2>3. c # k /\ Host # k  BY <1>2, <1>4 DEF InSession
    <2> QED  BY <1>1, <1>2, <2>2, <2>3 DEF Alive, InSession
  <1>6. NamedMsg(x)  BY DEF NamedMsg
  <1> HIDE DEF x
  <1>7. toClient'[c] = toClient[c] \o <<x>> /\ toClient'[Host] = toClient[Host] \o <<x>>
    BY <1>1, <1>3, <1>5 DEF Write
  <1>8. Alike(End(toClient'[c], [knows |-> player[c], got |-> got[c]], playerId[c]),
              Knows(toClient'[Host], player[Host], playerId[Host]), Own(c))
    BY <1>2, <1>6, <1>7, BothSent
  <1>9. Own(c)' = Own(c)  BY <1>1 DEF Own
  <1>10. Alike(MyEnd(c)', HostKnow', Own(c)')  BY <1>1, <1>8, <1>9 DEF MyEnd, HostKnow
  <1> QED  BY <1>10 DEF AgreeAt

LEMMA HostAgrees ==
  ASSUME AInv, Agree, HostCycle, NEW c \in clean
  PROVE  AgreeAt(c)'
  <1> SUFFICES ASSUME InSession(c)', stage'[Host] = "FINISHED", wiped' = {}
               PROVE  AgreeAt(c)'
    BY DEF AgreeAt
  <1>1. c \in Conns /\ Host \in Conns /\ c # Host  BY CleanConns
  <1>2. stage[Host] # "waiting"  BY DEF AInv, CleanStages
  <1>3. wiped = {}  BY DEF HostCycle, history
  <1>4. PICK read \in BOOLEAN : Finished(Host, Broadcast, read)
    BY <1>2 DEF HostCycle, HostAccepted, Accepted
  <1>5. /\ DOMAIN stage = Conns /\ DOMAIN player = Conns /\ DOMAIN toClient = Conns
    BY DEF AInv, IInv, Types, IsQueues
  <1>6. /\ stage[Host] = "FINISHED" /\ UNCHANGED <<playerId, got>>
        /\ stage'[c] = stage[c] /\ player'[c] = player[c] /\ toClient'[c] = Broadcast[c]
    <2>1. DOMAIN Broadcast = Conns  BY BroadcastNamed DEF AInv, IsQueues
    <2> QED  BY <1>1, <1>4, <1>5, <2>1 DEF Finished
  <1>7. InSession(c)  BY <1>6 DEF InSession
  <1> DEFINE s == [knows |-> player[c], got |-> got[c]]
             h == Knows(Broadcast[Host], player[Host], playerId[Host])
             new == Knows(toClient'[Host], player'[Host], playerId[Host])
             X == Own(c)
             e == End(Broadcast[c], s, playerId[c])
  <1>8. Alike(e, h, X)
    <2> DEFINE x == [type |-> "CLIENTUPDATE", poses |-> updates]
    <2>1. CASE updates = NoOne
      <3>1. Broadcast = toClient  BY <2>1 DEF Broadcast
      <3>2. Alike(MyEnd(c), HostKnow, Own(c))  BY <1>3, <1>6, <1>7 DEF Agree, AgreeAt
      <3> QED  BY <3>1, <3>2 DEF MyEnd, HostKnow
    <2>2. CASE updates # NoOne
      <3>1. c \in group /\ Host \in group /\ Alive(c) /\ Alive(Host)
        <4>1. InSession(Host)  BY <1>6 DEF InSession
        <4> QED  BY <1>1, <1>7, <4>1 DEF AInv, IInv, Sessions, InSession, Alive
      <3>2. NamedMsg(x)  BY DEF NamedMsg
      <3>3. Broadcast = Write(toClient, group, <<x>>)  BY <2>2 DEF Broadcast
      <3> HIDE DEF x
      <3>4. Broadcast[c] = toClient[c] \o <<x>> /\ Broadcast[Host] = toClient[Host] \o <<x>>
        BY <1>1, <3>1, <3>3 DEF Write
      <3> QED  BY <1>3, <1>6, <1>7, <3>2, <3>4, BothSent
    <2> QED  BY <2>1, <2>2
  <1>9. SameBut(new, h, X) /\ Named(new)
    <2>1. IsQueues(Broadcast) /\ NamedQueues(Broadcast)  BY BroadcastNamed DEF AInv
    <2>2. playerId[Host] \in X  BY DEF Own
    <2> HIDE DEF X
    <2> QED  BY <1>1, <1>4, <2>1, <2>2, FinishedKnows DEF AInv, AllNamed
  <1>10. MyEnd(c)' = e  BY <1>6 DEF MyEnd
  <1>11. HostKnow' = new  BY <1>6 DEF HostKnow
  <1>12. Own(c)' = X  BY <1>6 DEF Own
  <1> HIDE DEF e, h, new, X
  <1>13. Alike(e, new, X)
    <2>1. SameBut(h, new, X)  BY <1>9, SameSym
    <2>2. SameBut(e.knows, new, X)  BY <1>8, <2>1, SameButTrans DEF Alike
    <2> QED  BY <1>8, <1>9, <2>2 DEF Alike
  <1>14. Alike(MyEnd(c)', HostKnow', Own(c)')  BY <1>10, <1>11, <1>12, <1>13
  <1> QED  BY <1>14 DEF AgreeAt

------------------------------------------------------------------------------
(* Somebody joins *)

\* What the server does with an introduction.  There is room for whoever it is of.
LEMMA IntroductionFacts ==
  ASSUME AInv, NEW k \in Conns, ReadPlayerInfo(k)
  PROVE  LET m == Head(toServer[k])
             table == CreatePlayer(player[Host], m.id, m.info)
             a == [type |-> "CLIENTADD", id |-> m.id, info |-> table[m.id]]
         IN  /\ k # Host /\ k \in group /\ k \notin joined
             /\ m.id = sock[k] /\ m.id \in 0 .. nextSocket - 1
             /\ m.info.who = k /\ "who" \in DOMAIN m.info
             /\ Count(toServer[k], {"PLAYERINFO"}) # 0
             /\ table = IF m.id \in DOMAIN player[Host] THEN player[Host]
                        ELSE Enter(player[Host], m.id, m.info)
             /\ m.id \in DOMAIN table /\ Named(table) /\ NamedMsg(a)
             /\ player' = [player EXCEPT ![Host] = table]
             /\ toClient' = Write(Write(toClient, {k}, WorldInfo(table)), group, <<a>>)
  <1> DEFINE m == Head(toServer[k])
             T == player[Host]
             N == 0 .. nextSocket - 1
             table == CreatePlayer(T, m.id, m.info)
             a == [type |-> "CLIENTADD", id |-> m.id, info |-> table[m.id]]
             q == toServer[k]
  <1>0. Host \in Conns  BY DEF Conns
  <1>1. /\ k \in group /\ m \in Elems(q) /\ m.type = "PLAYERINFO" /\ IsSeq(q) /\ q # <<>>
    BY ReadFacts DEF AInv, ReadPlayerInfo, IInv, Types, IsQueues
  <1>2. k # Host /\ m.id = sock[k]  BY <1>1 DEF AInv, KInv, Introductions
  <1>3. m.id \in N /\ DOMAIN T \subseteq N  BY <1>0, <1>1 DEF AInv, IInv, Numbers
  <1>4. 1 \in 1 .. Len(q) /\ q[1] = m
    <2>1. PICK S : q \in Seq(S)  BY <1>1 DEF IsSeq
    <2> QED  BY <1>1, <2>1
  <1>5. k \notin joined /\ m.info.who = k
    <2> HIDE DEF m, q
    <2>1. k \notin joined /\ q[1].info.who = k  BY <1>1, <1>4 DEF AInv, InfoFirst, q
    <2> QED  BY <1>4, <2>1
  <1>6. "who" \in DOMAIN m.info  BY <1>1 DEF AInv, AllNamed, NamedQueues, NamedMsg
  <1>7. Count(q, {"PLAYERINFO"}) # 0
    <2> DEFINE I == {i \in 1 .. Len(q) : q[i].type \in {"PLAYERINFO"}}
    <2>1. 1 \in I  BY <1>1, <1>4
    <2>2. IsFiniteSet(I)  BY <1>1, CountFinite
    <2> HIDE DEF I
    <2>3. Cardinality(I) # 0  BY <2>1, <2>2, FS_EmptySet
    <2> QED  BY <2>3 DEF Count, I
  <1>8. table = IF m.id \in DOMAIN T THEN T ELSE Enter(T, m.id, m.info)
    <2>1. IsFiniteSet(N) /\ Cardinality(N) < MAXPLAYERS  BY NumbersFinite DEF AInv
    <2> HIDE DEF N, T, m
    <2> QED  BY <1>3, <2>1, CreateRoom
  <1>9. m.id \in DOMAIN table  BY <1>8 DEF Enter
  <1>10. Named(table)
    <2>1. Named(T)  BY <1>0 DEF AInv, AllNamed, NamedTables
    <2> HIDE DEF T, m
    <2> QED  BY <1>6, <2>1, NamedCreate
  <1>11. NamedMsg(a)  BY <1>9, <1>10 DEF NamedMsg, Named
  <1>12. /\ player' = [player EXCEPT ![Host] = table]
         /\ toClient' = Write(Write(toClient, {k}, WorldInfo(table)), group, <<a>>)
    BY <1>9 DEF ReadPlayerInfo, Known
  <1> QED  BY <1>1, <1>2, <1>3, <1>5, <1>6, <1>7, <1>8, <1>9, <1>10, <1>11, <1>12

\* The number of somebody who is not in the game is not among those the host will know.
LEMMA NewNumber ==
  ASSUME AInv, NEW k \in Conns, k \in group, k \notin joined, k # Host,
         stage[Host] = "FINISHED", wiped = {}
  PROVE  /\ DOMAIN HostKnow = Numbered(joined \cup {Host})
         /\ sock[k] \notin Numbered(joined \cup {Host})
  <1>1. Members = joined \cup {Host}  BY DEF Members
  <1>2. DOMAIN HostKnow = Numbered(Members)  BY DEF AInv, KInv, WillKnowMembers, HostKnow
  <1>3. joined \cup {Host} \subseteq group
    <2>1. InSession(Host) /\ Host \in Conns  BY DEF InSession, Conns
    <2> QED  BY <2>1 DEF AInv, KInv, IInv, Sessions
  <1>4. \A d \in joined \cup {Host} : sock[d] # sock[k]
    BY <1>3 DEF AInv, IInv, Sockets
  <1> QED  BY <1>1, <1>2, <1>4 DEF Numbered

\* The others and the host read who it is, also if the host, which has entered it
\* already, reads before that a deletion of somebody with the same number.
LEMMA OthersTold ==
  ASSUME AInv, Agree, NEW k \in Conns, ReadPlayerInfo(k), NEW c \in clean, c # k,
         InSession(c), stage[Host] = "FINISHED", wiped = {}
  PROVE  Alike(MyEnd(c)', HostKnow', Own(c)')
  <1> DEFINE m == Head(toServer[k])
             id == m.id
             info == m.info
             T == player[Host]
             table == CreatePlayer(T, id, info)
             a == [type |-> "CLIENTADD", id |-> id, info |-> table[id]]
             q == toClient[Host]
             self == playerId[Host]
             N == 0 .. nextSocket - 1
  <1>1. /\ k # Host /\ k \in group /\ k \notin joined /\ id = sock[k] /\ id \in N
        /\ table = IF id \in DOMAIN T THEN T ELSE Enter(T, id, info)
        /\ NamedMsg(a) /\ player' = [player EXCEPT ![Host] = table]
        /\ toClient' = Write(Write(toClient, {k}, WorldInfo(table)), group, <<a>>)
    BY IntroductionFacts
  <1>2. c \in Conns /\ Host \in Conns /\ c # Host  BY CleanConns
  <1>3. /\ UNCHANGED <<playerId, got>> /\ player'[c] = player[c] /\ player'[Host] = table
        /\ toClient'[c] = toClient[c] \o <<a>> /\ toClient'[Host] = q \o <<a>>
    <2>1. UNCHANGED <<playerId, got>>  BY DEF ReadPlayerInfo
    <2>2. player'[c] = player[c] /\ player'[Host] = table  BY <1>1, <1>2 DEF AInv, IInv, Types
    <2>3. c \in group /\ Host \in group /\ Alive(c) /\ Alive(Host)
      <3>1. InSession(Host)  BY DEF InSession
      <3> QED  BY <1>2, <3>1 DEF AInv, IInv, Sessions, InSession, Alive
    <2> DEFINE r == Write(toClient, {k}, WorldInfo(table))
    <2>4. r[c] = toClient[c] /\ r[Host] = q  BY <1>1, <1>2 DEF Write
    <2>5. toClient' = Write(r, group, <<a>>)  BY <1>1
    <2> HIDE DEF r, a, q
    <2>6. toClient'[c] = toClient[c] \o <<a>> /\ toClient'[Host] = q \o <<a>>
      BY <1>2, <2>3, <2>4, <2>5 DEF Write
    <2> QED  BY <2>1, <2>2, <2>6
  <1>4. IsSeq(q)  BY <1>2 DEF AInv, IInv, Types, IsQueues
  <1>5. Alike(MyEnd(c)', Knows(q \o <<a>>, T, self), Own(c))
    <2> HIDE DEF a
    <2>1. Alike(End(toClient'[c], [knows |-> player[c], got |-> got[c]], playerId[c]),
                Knows(q \o <<a>>, T, self), Own(c))
      BY <1>1, <1>3, BothSent
    <2> QED  BY <1>3, <2>1 DEF MyEnd
  <1>6. Knows(q \o <<a>>, T, self) = HostKnow'
    <2>1. HostKnow' = Knows(q \o <<a>>, table, self)  BY <1>3 DEF HostKnow
    <2>2. CASE id \in DOMAIN T  BY <1>1, <2>1, <2>2
    <2>3. CASE id \notin DOMAIN T
      <3>1. table = Enter(T, id, info) /\ table[id] = info  BY <1>1, <2>3 DEF Enter
      <3>2. a.type = "CLIENTADD" /\ a.id = id /\ a.info = info  BY <3>1
      <3>3. IsFiniteSet(N) /\ Cardinality(N) < MAXPLAYERS  BY NumbersFinite DEF AInv
      <3>4. DOMAIN T \subseteq N /\ \A x \in Elems(q) : x.type = "CLIENTADD" => x.id \in N
        BY <1>2 DEF AInv, IInv, Numbers
      <3>5. DOMAIN Knows(q, T, self) = Numbered(joined \cup {Host})
            /\ id \notin Numbered(joined \cup {Host})
        BY <1>1, NewNumber DEF HostKnow
      <3>6. UpdatesIn(q, Numbered(joined \cup {Host}))  BY DEF AInv, UpdatesKnown
      <3> HIDE DEF a, m, id, info, T, table, q, self, N
      <3>7. \A n \in 1 .. Len(q) : q[n].type = "CLIENTUPDATE" /\ id \in DOMAIN q[n].poses
              => \E j \in 1 .. Len(q) : q[j].type = "DELETECLIENT" /\ q[j].id = id
        <4> SUFFICES ASSUME NEW n \in 1 .. Len(q), q[n].type = "CLIENTUPDATE",
                            id \in DOMAIN q[n].poses
                     PROVE  \E j \in 1 .. Len(q) : q[j].type = "DELETECLIENT" /\ q[j].id = id
          OBVIOUS
        <4>1. PICK j \in n + 1 .. Len(q) : q[j].type = "DELETECLIENT" /\ q[j].id = id
          BY <3>5, <3>6 DEF UpdatesIn
        <4>2. Len(q) \in Nat
          <5>1. PICK S : q \in Seq(S)  BY <1>4 DEF IsSeq
          <5> QED  BY <5>1
        <4>3. j \in 1 .. Len(q)  BY <4>2
        <4> QED  BY <4>1, <4>3
      <3>8. CreatePlayer(Knows(q, Enter(T, id, info), self), id, info)
              = CreatePlayer(Knows(q, T, self), id, info)
        <4>1. id \in N /\ id \notin DOMAIN T /\ id \notin DOMAIN Knows(q, T, self)
          BY <1>1, <2>3, <3>5
        <4> QED  BY <1>4, <3>3, <3>4, <3>7, <4>1, FreshAdd
      <3>9. \A t : Knows(q \o <<a>>, t, self) = CreatePlayer(Knows(q, t, self), id, info)
        <4>1. \A t : Process(t, a, self) = CreatePlayer(t, id, info)  BY <3>2 DEF Process
        <4> QED  BY <1>4, <4>1, KnowsLast
      <3> QED  BY <2>1, <3>1, <3>8, <3>9
    <2> QED  BY <2>2, <2>3
  <1>7. Own(c)' = Own(c)  BY <1>3 DEF Own
  <1> QED  BY <1>5, <1>6, <1>7

------------------------------------------------------------------------------
LEMMA KnowsOne == \A m, t, self : Knows(<<m>>, t, self) = Process(t, m, self)
  <1> TAKE m, t, self
  <1> DEFINE none == <<>>
             one == <<m>>
  <1>1. none \o <<m>> = one
    <2>1. <<>> \in Seq({m}) /\ <<m>> \in Seq({m})  OBVIOUS
    <2> QED  BY <2>1
  <1>2. IsSeq(none) /\ Knows(none, t, self) = t  BY EmptySeq, KnowsEmpty
  <1> HIDE DEF none
  <1>3. Knows(none \o <<m>>, t, self) = Process(t, m, self)  BY <1>2, KnowsLast
  <1>4. Knows(one, t, self) = Process(t, m, self)  BY <1>1, <1>3
  <1> QED  BY <1>4

\* The packets of the list, one after another, and the announcement of the new player.
LEMMA ReadList ==
  ASSUME NEW q, IsSeq(q), NEW t, NEW u, NEW a, NEW self,
         End(q, [knows |-> u, got |-> 0], self) = [knows |-> u, got |-> 0]
  PROVE  End((q \o WorldInfo(t)) \o <<a>>, [knows |-> u, got |-> 0], self)
           = InGame(Process(AddList(u, t, DOMAIN t \ DOMAIN u), a, self))
  <1> DEFINE l == [type |-> "CLIENTLIST", list |-> t]
             w1 == Msg("WORLDLIST1")
             w2 == Msg("WORLDLIST2")
             d == Msg("DONECONNECT")
             v == AddList(u, t, DOMAIN t \ DOMAIN u)
             s == [knows |-> u, got |-> 0]
             q1 == q \o <<l>>
             q2 == q1 \o <<w1>>
             q3 == q2 \o <<w2>>
             q4 == q3 \o <<d>>
             q5 == q4 \o <<a>>
  <1>1. (q \o WorldInfo(t)) \o <<a>> = q5
    <2>1. WorldInfo(t) = <<l, w1, w2, d>>  BY DEF WorldInfo
    <2> HIDE DEF l, w1, w2, d
    <2>2. q \o <<l, w1, w2, d>> = q4
      <3> PICK S : q \in Seq(S)  BY DEF IsSeq
      <3> DEFINE R == S \cup {l, w1, w2, d}
      <3> HIDE DEF R
      <3> q \in Seq(R) /\ l \in R /\ w1 \in R /\ w2 \in R /\ d \in R  BY DEF R
      <3> DEFINE L == Len(q)
                 four == <<l, w1, w2, d>>
                 p == q \o four
      <3>1. L \in Nat  OBVIOUS
      <3>2. four \in Seq(R)  OBVIOUS
      <3>0. /\ Len(four) = 4 /\ four[1] = l /\ four[2] = w1 /\ four[3] = w2 /\ four[4] = d
        OBVIOUS
      <3>3. \A x \in R : <<x>> \in Seq(R) /\ Len(<<x>>) = 1 /\ <<x>>[1] = x  OBVIOUS
      <3>4. /\ q1 \in Seq(R) /\ Len(q1) = L + 1 /\ q1[L + 1] = l
            /\ \A i \in 1 .. L : q1[i] = q[i]
        BY <3>3
      <3>5. /\ p \in Seq(R) /\ Len(p) = L + 4
            /\ p[L + 1] = l /\ p[L + 2] = w1 /\ p[L + 3] = w2 /\ p[L + 4] = d
            /\ \A i \in 1 .. L : p[i] = q[i]
        <4> HIDE DEF four
        <4>1. /\ p \in Seq(R) /\ Len(p) = L + Len(four) /\ \A i \in 1 .. L : p[i] = q[i]
              /\ \A n \in 1 .. Len(four) : p[L + n] = four[n]
          BY <3>2
        <4> HIDE DEF p, L
        <4> QED  BY <3>0, <4>1
      <3> HIDE DEF L, q1, p, four
      <3>6. /\ q2 \in Seq(R) /\ Len(q2) = L + 2 /\ q2[L + 2] = w1
            /\ \A i \in 1 .. L + 1 : q2[i] = q1[i]
        BY <3>1, <3>3, <3>4
      <3> HIDE DEF q2
      <3>7. /\ q3 \in Seq(R) /\ Len(q3) = L + 3 /\ q3[L + 3] = w2
            /\ \A i \in 1 .. L + 2 : q3[i] = q2[i]
        BY <3>1, <3>3, <3>6
      <3> HIDE DEF q3
      <3>8. /\ q4 \in Seq(R) /\ Len(q4) = L + 4 /\ q4[L + 4] = d
            /\ \A i \in 1 .. L + 3 : q4[i] = q3[i]
        BY <3>1, <3>3, <3>7
      <3> HIDE DEF q4
      <3>9. ASSUME NEW i \in 1 .. L + 4 PROVE p[i] = q4[i]
        <4>1. CASE i \in 1 .. L  BY <3>1, <3>4, <3>5, <3>6, <3>7, <3>8, <4>1
        <4>2. CASE i \in {L + 1, L + 2, L + 3, L + 4}
          BY <3>1, <3>4, <3>5, <3>6, <3>7, <3>8, <4>2
        <4> QED  BY <3>1, <4>1, <4>2
      <3>10. p = q4  BY <3>5, <3>8, <3>9
      <3> QED  BY <3>10 DEF p, four
    <2> QED  BY <2>1, <2>2
  <1>2. IsSeq(q1) /\ IsSeq(q2) /\ IsSeq(q3) /\ IsSeq(q4)
    <2> HIDE DEF l, w1, w2, d
    <2>1. IsSeq(q1)  BY OneSeq, ConcatSeq
    <2> HIDE DEF q1
    <2>2. IsSeq(q2)  BY <2>1, OneSeq, ConcatSeq
    <2> HIDE DEF q2
    <2>3. IsSeq(q3)  BY <2>2, OneSeq, ConcatSeq
    <2> HIDE DEF q3
    <2>4. IsSeq(q4)  BY <2>3, OneSeq, ConcatSeq
    <2> QED  BY <2>1, <2>2, <2>3, <2>4
  <1>3. Take(s, l, self) = [knows |-> v, got |-> 1]
    <2>1. l.type = "CLIENTLIST" /\ l.list = t /\ s.knows = u /\ s.got = 0  OBVIOUS
    <2> HIDE DEF l, s
    <2> QED  BY <2>1 DEF Take, CONNECTIONPACKETS, Handshake
  <1>4. /\ Take([knows |-> v, got |-> 1], w1, self) = [knows |-> v, got |-> 2]
        /\ Take([knows |-> v, got |-> 2], w2, self) = [knows |-> v, got |-> 3]
        /\ Take([knows |-> v, got |-> 3], d, self) = InGame(v)
    <2>1. /\ w1.type = "WORLDLIST1" /\ w2.type = "WORLDLIST2" /\ d.type = "DONECONNECT"
      BY DEF Msg
    <2> HIDE DEF v, w1, w2, d
    <2> QED  BY <2>1 DEF Take, CONNECTIONPACKETS, Handshake, InGame
  <1>5. End(q, s, self) = s  OBVIOUS
  <1> HIDE DEF s, l, w1, w2, d, v, q5
  <1>6. End(q1, s, self) = [knows |-> v, got |-> 1]  BY <1>3, <1>5, EndLast
  <1> HIDE DEF q1
  <1>7. End(q2, s, self) = [knows |-> v, got |-> 2]  BY <1>2, <1>4, <1>6, EndLast
  <1> HIDE DEF q2
  <1>8. End(q3, s, self) = [knows |-> v, got |-> 3]  BY <1>2, <1>4, <1>7, EndLast
  <1> HIDE DEF q3
  <1>9. End(q4, s, self) = InGame(v)  BY <1>2, <1>4, <1>8, EndLast
  <1> HIDE DEF q4
  <1>10. End(q5, s, self) = Take(InGame(v), a, self)  BY <1>2, <1>9, EndLast DEF q5
  <1>11. End(q5, s, self) = InGame(Process(v, a, self))  BY <1>10, TakeInGame
  <1> QED  BY <1>1, <1>11 DEF s, v

\* A joiner whose list is made when the host has read everything.
LEMMA JoinerTold ==
  ASSUME AInv, NEW k \in Joiners, ReadPlayerInfo(k), InSession(k),
         stage[Host] = "FINISHED", toClient[Host] = <<>>, wiped = {}
  PROVE  Alike(MyEnd(k)', HostKnow', Own(k)')
  <1> DEFINE m == Head(toServer[k])
             id == m.id
             info == m.info
             T == player[Host]
             table == CreatePlayer(T, id, info)
             a == [type |-> "CLIENTADD", id |-> id, info |-> table[id]]
             u == player[k]
             v == AddList(u, table, DOMAIN table \ DOMAIN u)
             q == toClient[k]
             X == Own(k)
  <1>0. k \in Conns /\ Host \in Conns /\ k # Host  BY NetAssumption DEF Conns
  <1>1. /\ k \in group /\ k \notin joined /\ id = sock[k]
        /\ info.who = k /\ Count(toServer[k], {"PLAYERINFO"}) # 0
        /\ table = IF id \in DOMAIN T THEN T ELSE Enter(T, id, info)
        /\ id \in DOMAIN table /\ Named(table)
        /\ player' = [player EXCEPT ![Host] = table]
        /\ toClient' = Write(Write(toClient, {k}, WorldInfo(table)), group, <<a>>)
    BY <1>0, IntroductionFacts
  <1>2. stage[k] = "OTHERPLAYERS" /\ got[k] = 0 /\ Count(q, Handshake) = 0
    <2>1. Shaking(k)  BY DEF AInv, SInv
    <2>2. stage[k] \notin Early  BY <1>1, <2>1 DEF Shaking, Early
    <2>3. stage[k] \in {"OTHERPLAYERS", "FINISHED"}  BY <2>2 DEF InSession, Early
    <2>4. Count(q, Handshake) \in Nat  BY <1>0, CountFinite DEF AInv, IInv, Types, IsQueues
    <2>5. got[k] \in Nat /\ got[k] + Count(q, Handshake) = 0
      BY <1>1, <2>1, <2>3 DEF Shaking
    <2>6. got[k] = 0 /\ Count(q, Handshake) = 0  BY <2>4, <2>5
    <2>7. stage[k] # "FINISHED"  BY <2>1, <2>6 DEF Shaking, CONNECTIONPACKETS
    <2> QED  BY <2>3, <2>6, <2>7
  <1>3. IsSeq(q)  BY <1>0 DEF AInv, IInv, Types, IsQueues
  <1>4. \A x \in Elems(q) : x.type \notin Handshake
    <2> SUFFICES ASSUME NEW i \in 1 .. Len(q), q[i].type \in Handshake PROVE FALSE  BY DEF Elems
    <2> DEFINE I == {n \in 1 .. Len(q) : q[n].type \in Handshake}
    <2>1. i \in I /\ IsFiniteSet(I)  BY <1>3, CountFinite
    <2>2. Cardinality(I) = 0  BY <1>2 DEF Count
    <2> HIDE DEF I
    <2> QED  BY <2>1, <2>2, FS_EmptySet
  <1>5. /\ UNCHANGED <<playerId, got>> /\ player'[k] = u /\ player'[Host] = table
        /\ toClient'[k] = (q \o WorldInfo(table)) \o <<a>> /\ toClient'[Host] = <<a>>
    <2>1. UNCHANGED <<playerId, got>>  BY DEF ReadPlayerInfo
    <2>2. player'[k] = u /\ player'[Host] = table  BY <1>0, <1>1 DEF AInv, IInv, Types
    <2>3. Host \in group /\ Alive(k) /\ Alive(Host)
      <3>1. InSession(Host)  BY DEF InSession
      <3> QED  BY <1>0, <3>1 DEF AInv, IInv, Sessions, InSession, Alive
    <2> DEFINE r == Write(toClient, {k}, WorldInfo(table))
    <2>4. r[k] = q \o WorldInfo(table) /\ r[Host] = <<>>  BY <1>0, <2>3 DEF Write
    <2>5. toClient' = Write(r, group, <<a>>)  BY <1>1
    <2> HIDE DEF r, a, q, table
    <2>6. toClient'[k] = r[k] \o <<a>> /\ toClient'[Host] = r[Host] \o <<a>>
      BY <1>0, <1>1, <2>3, <2>5 DEF Write
    <2>7. <<>> \o <<a>> = <<a>>
      <3>1. <<>> \in Seq({a}) /\ <<a>> \in Seq({a})  OBVIOUS
      <3> QED  BY <3>1
    <2> QED  BY <2>1, <2>2, <2>4, <2>6, <2>7
  <1>6. \A t, self : id \in DOMAIN t => Process(t, a, self) = t
    BY DEF Process, CreatePlayer, Known
  <1>7. DOMAIN u \subseteq {id} /\ Own(k)' = X /\ id \in X
    <2>1. id = playerId[k]  BY <1>0, <1>1 DEF AInv, IInv, Sessions
    <2> HIDE DEF id, u
    <2>2. \A i \in DOMAIN u : i = playerId[k]  BY <1>2 DEF AInv, OwnOnly, OwnFirst, u
    <2> QED  BY <1>5, <2>1, <2>2 DEF Own
  <1>8. SameBut(v, table, X) /\ Named(v)
    <2>1. DOMAIN v = DOMAIN table
      <3>1. DOMAIN v = DOMAIN u \cup (DOMAIN table \ DOMAIN u)  BY DEF AddList
      <3> HIDE DEF v, table, u, id
      <3> QED  BY <1>1, <1>7, <3>1
    <2>2. \A i \in DOMAIN v : i \notin DOMAIN u => v[i] = table[i]  BY DEF AddList
    <2>3. \A i \in DOMAIN u : i = id /\ v[i] = u[i] /\ u[i].who = k
      <3>1. \A i \in DOMAIN u : v[i] = u[i]  BY DEF AddList
      <3>2. \A i \in DOMAIN u : u[i].who = k  BY <1>2 DEF AInv, OwnOnly, OwnFirst
      <3> QED  BY <1>7, <3>1, <3>2
    <2>4. table[id].who = k
      <3>1. id \notin DOMAIN T
        <4>1. HostKnow = T  BY KnowsEmpty DEF HostKnow
        <4> QED  BY <1>0, <1>1, <4>1, NewNumber
      <3>2. table[id] = info
        <4> HIDE DEF table, T, id, info
        <4> QED  BY <1>1, <3>1 DEF Enter
      <3> QED  BY <1>1, <3>2
    <2>5. Named(u)  BY <1>0 DEF AInv, AllNamed, NamedTables
    <2> HIDE DEF v, table, u, id, X
    <2>6. Named(v)
      <3>1. ASSUME NEW i \in DOMAIN v PROVE "who" \in DOMAIN v[i]
        <4>1. CASE i \in DOMAIN u  BY <2>3, <2>5, <4>1 DEF Named
        <4>2. CASE i \notin DOMAIN u  BY <1>1, <2>1, <2>2, <3>1, <4>2 DEF Named
        <4> QED  BY <4>1, <4>2
      <3> QED  BY <3>1 DEF Named
    <2>7. ASSUME NEW i \in DOMAIN v
          PROVE  v[i].who = table[i].who /\ (i \notin X => v[i] = table[i])
      <3>1. CASE i \in DOMAIN u  BY <1>7, <2>3, <2>4, <3>1
      <3>2. CASE i \notin DOMAIN u  BY <2>2, <2>7, <3>2
      <3> QED  BY <3>1, <3>2
    <2> QED  BY <2>1, <2>6, <2>7 DEF SameBut
  <1>9. MyEnd(k)' = InGame(v)
    <2>1. MyEnd(k)' = End((q \o WorldInfo(table)) \o <<a>>, [knows |-> u, got |-> 0], playerId[k])
      BY <1>2, <1>5 DEF MyEnd
    <2>2. id \in DOMAIN v  BY <1>1, <1>8 DEF SameBut
    <2> HIDE DEF q, u, table, a, id
    <2>3. End(q, [knows |-> u, got |-> 0], playerId[k]) = [knows |-> u, got |-> 0]
      <3>1. 0 # CONNECTIONPACKETS  BY DEF CONNECTIONPACKETS
      <3> QED  BY <1>3, <1>4, <3>1, EndQuiet
    <2>4. MyEnd(k)' = InGame(Process(v, a, playerId[k]))  BY <1>3, <2>1, <2>3, ReadList
    <2> HIDE DEF v
    <2> QED  BY <1>6, <2>2, <2>4
  <1>10. HostKnow' = table
    <2>1. HostKnow' = Knows(<<a>>, table, playerId[Host])  BY <1>5 DEF HostKnow
    <2> HIDE DEF a, table, id
    <2>2. Knows(<<a>>, table, playerId[Host]) = Process(table, a, playerId[Host])  BY KnowsOne
    <2> QED  BY <1>1, <1>6, <2>1, <2>2
  <1> HIDE DEF v, table, X
  <1>11. Alike(InGame(v), table, X)  BY <1>1, <1>8, InGameIs DEF Alike
  <1> QED  BY <1>7, <1>9, <1>10, <1>11

LEMMA InfoAgrees ==
  ASSUME AInv, Agree, NEW k \in Conns, ReadPlayerInfo(k), NEW c \in clean'
  PROVE  AgreeAt(c)'
  <1> SUFFICES ASSUME InSession(c)', stage'[Host] = "FINISHED", wiped' = {}
               PROVE  AgreeAt(c)'
    BY DEF AgreeAt
  <1>1. /\ UNCHANGED <<stage, wiped>>
        /\ clean' = IF stage[Host] = "FINISHED" /\ toClient[Host] = <<>> THEN clean \cup {k}
                    ELSE clean
    BY DEF ReadPlayerInfo
  <1>2. InSession(c) /\ stage[Host] = "FINISHED" /\ wiped = {}  BY <1>1 DEF InSession
  <1>3. k # Host /\ k \notin joined  BY IntroductionFacts
  <1>4. CASE c # k
    <2>1. c \in clean  BY <1>1, <1>4
    <2> QED  BY <1>2, <1>4, <2>1, OthersTold DEF AgreeAt
  <1>5. CASE c = k
    <2>1. k \notin clean  BY <1>2, <1>3, <1>5 DEF AInv, CleanStages
    <2>2. toClient[Host] = <<>> /\ k \in Joiners  BY <1>1, <1>3, <1>5, <2>1 DEF Conns
    <2> QED  BY <1>2, <1>5, <2>2, JoinerTold DEF AgreeAt
  <1> QED  BY <1>4, <1>5

LEMMA InitAgree == Init => AInv /\ Agree
  <1> SUFFICES ASSUME Init PROVE AInv /\ Agree  OBVIOUS
  <1>1. AInv
    BY InitIInv, InitSInv, InitKInv, InitNamed, InitOwnOnly, InitUpdates DEF AInv
  <1>2. clean = {}  BY DEF Init
  <1> QED  BY <1>1, <1>2 DEF Agree

LEMMA NextAInv == AInv /\ [Next]_vars => AInv'
  <1> SUFFICES ASSUME AInv, [Next]_vars PROVE AInv'  OBVIOUS
  <1> USE DEF AInv
  <1>1. IInv' /\ SInv' /\ KInv'  BY NextIInv, NextSInv, NextKInv
  <1>2. AllNamed'  BY NextNamed
  <1>3. OwnOnly' /\ InfoFirst'  BY NextOwnOnly, NextInfoFirst
  <1>4. CleanStages'  BY NextCleanStages
  <1>5. UpdatesOf' /\ UpdatesKnown'  BY NextUpdatesOf, NextUpdatesKnown
  <1> QED  BY <1>1, <1>2, <1>3, <1>4, <1>5

LEMMA NextAgree == AInv /\ Agree /\ [Next]_vars => Agree'
  <1> SUFFICES ASSUME AInv, Agree, [Next]_vars, NEW c \in clean' PROVE AgreeAt(c)'
    BY DEF Agree
  <1>1. ASSUME NEW k \in Conns, ReadPlayerInfo(k) PROVE AgreeAt(c)'  BY <1>1, InfoAgrees
  <1>2. CASE HostCycle  BY <1>2, HostAgrees DEF HostCycle, history
  <1>3. CASE Begin  BY <1>3, BeginAgrees DEF Begin, history
  <1>4. ASSUME NEW k \in Conns, ReadPlayerDelete(k) PROVE AgreeAt(c)'
    BY <1>4, DeleteAgrees DEF ReadPlayerDelete
  <1>5. CASE UNCHANGED <<client, toClient, wiped, clean>>  BY <1>5, QuietAgrees
  <1>6. CASE Server
    <2>1. CASE AcceptError  BY <1>5, <2>1 DEF AcceptError, history
    <2>2. ASSUME NEW k \in Conns, ReadEnd(k) \/ ReadPlayerUpdate(k) PROVE AgreeAt(c)'
      BY <1>5, <2>2 DEF ReadEnd, ReadPlayerUpdate, history
    <2> QED  BY <1>1, <1>2, <1>3, <1>4, <1>6, <2>1, <2>2 DEF Server
  <1>7. ASSUME NEW k \in Conns, JoinerCycle(k) PROVE AgreeAt(c)'
    <2>1. clean' = clean  BY <1>7 DEF JoinerCycle, history
    <2> QED  BY <1>7, <2>1, JoinerAgrees
  <1>8. ASSUME NEW k \in Conns,
               \/ Connect(k) \/ GetAcceptance(k) \/ Timeout(k) \/ SendDelete(k)
               \/ Disappear(k) \/ ShutdownLevel(k) \/ Move(k)
        PROVE  AgreeAt(c)'
    <2>1. clean' = clean
      BY <1>8 DEF Connect, GetAcceptance, Timeout, SendDelete, Disappear, ShutdownLevel, Move,
                  history
    <2> QED  BY <1>8, <2>1, ProgramAgrees
  <1>9. CASE UNCHANGED vars  BY <1>5, <1>9 DEF vars, history
  <1> QED  BY <1>6, <1>7, <1>8, <1>9 DEF Next

LEMMA AgreeTells == AInv /\ Agree => JoinersAgree
  <1> SUFFICES ASSUME AInv, Agree, NEW c \in clean, stage[c] = "FINISHED",
                      stage[Host] = "FINISHED", wiped = {}
               PROVE  LET here == WillKnow(c)
                          there == WillKnow(Host)
                      IN  /\ DOMAIN here = DOMAIN there
                          /\ \A id \in DOMAIN here : here[id].who = there[id].who
                          /\ \A id \in DOMAIN here \ {playerId[c], playerId[Host]} :
                               here[id] = there[id]
    BY DEF JoinersAgree
  <1>1. c \in Joiners /\ c \in Conns /\ Host \in Conns  BY CleanConns
  <1>2. IsSeq(toClient[c]) /\ IsSeq(toClient[Host])  BY <1>1 DEF AInv, IInv, Types, IsQueues
  <1> DEFINE here == Knows(toClient[c], player[c], playerId[c])
  <1>3. WillKnow(c) = here /\ WillKnow(Host) = HostKnow  BY <1>2, WillKnowIs DEF HostKnow
  <1>4. MyEnd(c) = InGame(here)
    <2>1. got[c] = CONNECTIONPACKETS  BY <1>1 DEF AInv, SInv, Shaking
    <2>2. MyEnd(c) = End(toClient[c], InGame(player[c]), playerId[c])
      BY <2>1 DEF MyEnd, InGame
    <2> QED  BY <1>2, <2>2, EndInGame
  <1>5. Alike(MyEnd(c), HostKnow, Own(c))  BY DEF Agree, AgreeAt, InSession
  <1> HIDE DEF here
  <1>6. SameBut(here, HostKnow, Own(c))  BY <1>4, <1>5, InGameIs DEF Alike
  <1> QED  BY <1>3, <1>6 DEF SameBut, Own

\* A joiner whose list was made when the host had read everything agrees with the host
\* on who is in the game, and on the poses of all but the two of them.
THEOREM JoinersAlwaysAgree == Spec => []JoinersAgree
  <1>1. Init => AInv /\ Agree  BY InitAgree
  <1>2. (AInv /\ Agree) /\ [Next]_vars => (AInv /\ Agree)'  BY NextAInv, NextAgree
  <1>3. AInv /\ Agree => JoinersAgree  BY AgreeTells
  <1> QED  BY <1>1, <1>2, <1>3, PTL DEF Spec
===============================================================================
