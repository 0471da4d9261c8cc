-------------------------------- MODULE NetPlay --------------------------------
(***************************************************************************)
(* A multiplayer session (CNetwork.cpp): the host serves and also plays;   *)
(* joiners connect, shake hands and exchange their poses through it.       *)
(* Sockets are HawkNL's reliable ones: ordered, without loss, closed by    *)
(* either end.  ServerClientCycle runs on the main thread of each program, *)
(* every 50 ms; on the host its server part comes first, and works on the  *)
(* same table of players as the part that plays.  Every connection is a    *)
(* process of its own: somebody who joins again connects again.            *)
(***************************************************************************)
EXTENDS Integers, Sequences, FiniteSets

CONSTANTS
  Host,         \* the connection of the host to itself
  Joiners,      \* the connections of the others
  MAXPLAYERS,   \* size of the table of players
  Movers,       \* those who move
  MaxMoves,     \* bound: changes of pose of each of them
  MaxFaults     \* bound: programs that disappear or give up, levels shut down, sockets
                \* that fail

ASSUME NetAssumption ==
  /\ Host \notin Joiners /\ IsFiniteSet(Joiners)
  /\ MAXPLAYERS \in Nat /\ MAXPLAYERS >= 2
  /\ Movers \subseteq Joiners \cup {Host} /\ MaxMoves \in Nat /\ MaxFaults \in Nat

Conns == Joiners \cup {Host}

CONNECTIONPACKETS == 4

VARIABLES
  stage,        \* where each program is in clientrun, clientready, clientstage
  playerId,     \* PlayerId: its number, which is that of its socket on the server
  player,       \* Player: what it knows of the player with each number
  got,          \* connectstate
  pose,         \* position, rotation and motion of its actor
  sent,         \* those it last sent
  toServer,     \* what is under way on each connection
  toClient,
  backlog,      \* connections not yet accepted, the host's own first
  group,        \* the server's group
  sock,         \* the number of the server's socket of each connection
  nextSocket,   \* nlNextsocket: numbers below it have been in use
  clientnum,
  serverstop,
  phase,        \* where the host is in ServerClientCycle
  ready,        \* s: sockets that nlPollGroup found readable, not yet read
  updates,      \* updatebuffer
  joined,       \* history: connections whose PLAYERINFO the server has read
  wiped,        \* history: programs whose level was shut down under the session
  clean         \* history: joiners who got their list when the host had read all

client == <<stage, playerId, player, got, pose, sent>>
server == <<backlog, group, sock, nextSocket, clientnum, serverstop, phase, ready, updates>>
history == <<joined, wiped, clean>>
vars == <<client, server, history, toServer, toClient>>

NoOne == <<>>       \* a table, or an update, of nobody
NoSocket == -1

Init ==
  /\ stage = [c \in Conns |-> IF c = Host THEN "waiting" ELSE "out"]
  /\ playerId = [c \in Conns |-> NoSocket]
  /\ player = [c \in Conns |-> NoOne]
  /\ got = [c \in Conns |-> 0]
  /\ pose = [c \in Conns |-> 0] /\ sent = [c \in Conns |-> 0]
  /\ toServer = [c \in Conns |-> <<>>] /\ toClient = [c \in Conns |-> <<>>]
  /\ backlog = <<Host>> /\ group = {}
  /\ sock = [c \in Conns |-> NoSocket]
  /\ nextSocket = 0 /\ clientnum = 0 /\ serverstop = FALSE
  /\ phase = "begin" /\ ready = {} /\ updates = NoOne
  /\ joined = {} /\ wiped = {} /\ clean = {}

------------------------------------------------------------------------------
(* The table of players *)

\* GetIndexFromId(id) # -1.
Known(table, id) == id \in DOMAIN table

\* An entry written, whether or not there was one.
Enter(table, id, info) ==
  [i \in DOMAIN table \cup {id} |-> IF i = id THEN info ELSE table[i]]

\* CreatePlayer: a number that is known already keeps its entry, and a full table takes
\* nobody.
CreatePlayer(table, id, info) ==
  IF Known(table, id) \/ Cardinality(DOMAIN table) >= MAXPLAYERS THEN table
  ELSE Enter(table, id, info)

\* AddNewPlayer for each entry of a list, as far as there is room.
AddList(table, list, added) ==
  [id \in DOMAIN table \cup added |-> IF id \in DOMAIN table THEN table[id] ELSE list[id]]
MayAdd(table, list, added) ==
  LET new == DOMAIN list \ DOMAIN table
      room == MAXPLAYERS - Cardinality(DOMAIN table)
  IN  added \subseteq new
      /\ (added = new \/ Cardinality(added) = room) /\ Cardinality(added) <= room

DeletePlayer(table, id) == [i \in DOMAIN table \ {id} |-> table[i]]

\* ProcessClientUpdate: poses of those it knows, itself excepted.
Update(table, poses, self) ==
  [id \in DOMAIN table |->
    IF id \in DOMAIN poses /\ id # self THEN [table[id] EXCEPT !.pose = poses[id]]
    ELSE table[id]]

Info(c) == [who |-> c, pose |-> pose[c]]
Msg(type) == [type |-> type]

\* nlWrite to a socket, or to all sockets of a group; what nobody will read is left out.
Alive(c) == stage[c] \notin {"gone", "crashed", "abandoned", "faulted"}
Write(queues, to, m) == [c \in Conns |-> IF c \in to /\ Alive(c) THEN queues[c] \o m ELSE queues[c]]

------------------------------------------------------------------------------
(* Programs that join: Initialize, and what ends a session *)

\* A joiner connects and waits in Initialize.
Connect(c) ==
  /\ stage[c] = "out" /\ c # Host
  /\ stage' = [stage EXCEPT ![c] = "waiting"]
  /\ backlog' = Append(backlog, c)
  /\ UNCHANGED <<playerId, player, got, pose, sent, group, sock, nextSocket, clientnum,
                 serverstop, phase, ready, updates, history, toServer, toClient>>

\* The acceptance packet gives the number.  (coming: what is under way to the programs.)
Accepted(c, coming) ==
  /\ stage[c] = "waiting" /\ coming[c] # <<>>
  /\ Head(coming[c]).type = "CONNECTIONACCEPT"
  /\ playerId' = [playerId EXCEPT ![c] = Head(coming[c]).id]
  /\ toClient' = [coming EXCEPT ![c] = Tail(@)]

GetAcceptance(c) ==
  /\ c # Host
  /\ Accepted(c, toClient)
  /\ stage' = [stage EXCEPT ![c] = "ACCEPTED"]
  /\ UNCHANGED <<player, got, pose, sent, server, history, toServer>>

MayFault ==
  Cardinality({c \in Conns : stage[c] \in {"abandoned", "crashed", "faulted"}} \cup wiped)
  + (IF serverstop THEN 1 ELSE 0) < MaxFaults

\* 30 seconds without it: Initialize fails, and leaves its socket open.
Timeout(c) ==
  /\ stage[c] = "waiting" /\ c # Host /\ MayFault
  /\ stage' = [stage EXCEPT ![c] = "abandoned"]
  /\ UNCHANGED <<playerId, player, got, pose, sent, server, history, toServer, toClient>>

InSession(c) == stage[c] \in {"ACCEPTED", "PLAYERSETUP", "OTHERPLAYERS", "FINISHED"}

\* SendDelete, when the player starts another game or ends the program.
SendDelete(c) ==
  /\ InSession(c) /\ c # Host
  /\ stage' = [stage EXCEPT ![c] = "gone"]
  /\ player' = [player EXCEPT ![c] = NoOne]
  /\ toServer' = [toServer EXCEPT ![c] = Append(@, Msg("PLAYERDELETE"))]
  /\ toClient' = [toClient EXCEPT ![c] = <<>>]
  /\ UNCHANGED <<playerId, got, pose, sent, server, history>>

\* The program or its line dies; TCP tells the server.
Disappear(c) ==
  /\ c # Host /\ (InSession(c) \/ stage[c] \in {"waiting", "abandoned"}) /\ MayFault
  /\ stage' = [stage EXCEPT ![c] = "crashed"]
  /\ player' = [player EXCEPT ![c] = NoOne]
  /\ toClient' = [toClient EXCEPT ![c] = <<>>]
  /\ UNCHANGED <<playerId, got, pose, sent, server, history, toServer>>

\* ShutdownLevel calls DeletePlayers and leaves the session running.
ShutdownLevel(c) ==
  /\ InSession(c) /\ (c = Host => phase = "begin") /\ MayFault
  /\ player' = [player EXCEPT ![c] = NoOne]
  /\ wiped' = wiped \cup {c}
  /\ UNCHANGED <<stage, playerId, got, pose, sent, server, joined, clean, toServer, toClient>>

\* The player moves its actor.
Move(c) ==
  /\ InSession(c) /\ c \in Movers /\ pose[c] < MaxMoves
  /\ pose' = [pose EXCEPT ![c] = @ + 1]
  /\ UNCHANGED <<stage, playerId, player, got, sent, server, history, toServer, toClient>>

------------------------------------------------------------------------------
(* The client part of ServerClientCycle *)

\* Mutant: a host skips its own player with the handshake.
MakeOwnPlayerIfJoiner(c, id) ==
  /\ player' = IF c = Host THEN player ELSE [player EXCEPT ![c] = Enter(@, id, Info(c))]
  /\ sent' = [sent EXCEPT ![c] = pose[c]]
  /\ stage' = [stage EXCEPT ![c] = IF c = Host THEN "FINISHED" ELSE "PLAYERSETUP"]
  /\ UNCHANGED <<got, pose>>

\* ACCEPTED: the program makes its own player; a host skips the handshake.
MakeOwnPlayer(c, id) ==
  /\ player' = [player EXCEPT ![c] = Enter(@, id, Info(c))]
  /\ sent' = [sent EXCEPT ![c] = pose[c]]
  /\ stage' = [stage EXCEPT ![c] = IF c = Host THEN "FINISHED" ELSE "PLAYERSETUP"]
  /\ UNCHANGED <<got, pose>>

\* The host reads its acceptance and goes on to ACCEPTED in the same call.
HostAccepted(coming) ==
  /\ Accepted(Host, coming)
  /\ MakeOwnPlayer(Host, playerId'[Host])
  /\ UNCHANGED toServer

AcceptedStage(c) ==
  /\ stage[c] = "ACCEPTED"
  /\ MakeOwnPlayer(c, playerId[c])
  /\ UNCHANGED <<playerId, toServer, toClient>>

PlayerSetup(c) ==
  /\ stage[c] = "PLAYERSETUP"
  /\ IF Known(player[c], playerId[c])
     THEN /\ toServer' = Write(toServer, {c}, <<[type |-> "PLAYERINFO", id |-> playerId[c],
                                                info |-> player[c][playerId[c]]]>>)
          /\ got' = [got EXCEPT ![c] = 0]
          /\ stage' = [stage EXCEPT ![c] = "OTHERPLAYERS"]
     ELSE /\ stage' = [stage EXCEPT ![c] = "faulted"]
          /\ UNCHANGED <<toServer, got>>
  /\ UNCHANGED <<playerId, player, pose, sent, toClient>>

\* OTHERPLAYERS: one packet per call; those that are not of the handshake are dropped.
Handshake == {"CLIENTLIST", "WORLDLIST1", "WORLDLIST2", "DONECONNECT"}

\* Mutant: every packet counts as one of the handshake.
OtherPlayersCountsAll(c) ==
  /\ stage[c] = "OTHERPLAYERS" /\ toClient[c] # <<>>
  /\ LET m == Head(toClient[c]) IN
       player' = IF m.type = "CLIENTLIST"
                 THEN [player EXCEPT ![c] = AddList(@, m.list, DOMAIN m.list \ DOMAIN @)]
                 ELSE player
  /\ got' = [got EXCEPT ![c] = @ + 1]
  /\ stage' = [stage EXCEPT ![c] = IF got'[c] = CONNECTIONPACKETS THEN "FINISHED" ELSE @]
  /\ toClient' = [toClient EXCEPT ![c] = Tail(@)]
  /\ UNCHANGED <<playerId, pose, sent, toServer>>

OtherPlayers(c) ==
  /\ stage[c] = "OTHERPLAYERS" /\ toClient[c] # <<>>
  /\ LET m == Head(toClient[c]) IN
       /\ IF m.type = "CLIENTLIST"
          THEN \E added \in SUBSET DOMAIN m.list :
                 /\ MayAdd(player[c], m.list, added)
                 /\ player' = [player EXCEPT ![c] = AddList(@, m.list, added)]
          ELSE UNCHANGED player
       /\ got' = [got EXCEPT ![c] = IF m.type \in Handshake THEN @ + 1 ELSE @]
  /\ stage' = [stage EXCEPT ![c] = IF got'[c] = CONNECTIONPACKETS THEN "FINISHED" ELSE @]
  /\ toClient' = [toClient EXCEPT ![c] = Tail(@)]
  /\ UNCHANGED <<playerId, pose, sent, toServer>>

\* What a packet does to the table of a player in the game.
Process(table, m, self) ==
  CASE m.type = "DELETECLIENT" -> DeletePlayer(table, m.id)
    [] m.type = "CLIENTADD" -> CreatePlayer(table, m.id, m.info)
    [] m.type = "CLIENTUPDATE" -> Update(table, m.poses, self)
    [] OTHER -> table

\* FINISHED: at most one packet (more than one may wait), then ClientUpdate, which does
\* not ask whether GetIndexFromId has found the own player.
Finished(c, coming, read) ==
  /\ stage[c] = "FINISHED"
  /\ read => coming[c] # <<>>
  /\ LET table == IF read THEN Process(player[c], Head(coming[c]), playerId[c])
                  ELSE player[c]
         id == playerId[c]
     IN  IF ~Known(table, id)
         THEN /\ player' = [player EXCEPT ![c] = table]
              /\ stage' = [stage EXCEPT ![c] = "faulted"]
              /\ UNCHANGED <<sent, toServer>>
         ELSE /\ player' = [player EXCEPT ![c] = [table EXCEPT ![id].pose = pose[c]]]
              /\ sent' = [sent EXCEPT ![c] = pose[c]]
              /\ toServer' = IF sent[c] = pose[c] THEN toServer
                             ELSE Write(toServer, {c}, <<[type |-> "PLAYERUPDATE", id |-> id,
                                                         pose |-> pose[c]]>>)
              /\ UNCHANGED stage
  /\ toClient' = IF read THEN [coming EXCEPT ![c] = Tail(@)] ELSE coming
  /\ UNCHANGED <<playerId, got, pose>>

\* A joiner's program.
JoinerCycle(c) ==
  /\ c # Host
  /\ \/ AcceptedStage(c)
     \/ PlayerSetup(c)
     \/ OtherPlayers(c)
     \/ Finished(c, toClient, toClient[c] # <<>>)
  /\ UNCHANGED <<server, history>>

------------------------------------------------------------------------------
(* The server part of ServerClientCycle *)

\* nlGetNewSocket: the last number that is free again, or a new one if none is.  (Numbers
\* count from the first socket after the two the host opens for itself.)
NewSocket(n) ==
  LET used == {sock[c] : c \in group}
      free == (0 .. nextSocket - 1) \ used
  IN  IF Cardinality(used) = nextSocket THEN n = nextSocket
      ELSE n \in free /\ \A other \in free : other <= n

Readable(c) == toServer[c] # <<>> \/ stage[c] \in {"gone", "crashed"}

\* Accept a connection if the server is not full and there is one, greet it, and see
\* who has sent something.
Begin ==
  /\ phase = "begin" /\ stage[Host] # "faulted"
  /\ \/ /\ ~serverstop /\ clientnum < MAXPLAYERS - 1
        /\ backlog # <<>>
        /\ \E c \in {Head(backlog)}, n \in 0 .. nextSocket :
             /\ NewSocket(n)
             /\ backlog' = Tail(backlog) /\ group' = group \cup {c}
             /\ sock' = [sock EXCEPT ![c] = n]
             /\ nextSocket' = IF n = nextSocket THEN n + 1 ELSE nextSocket
             /\ clientnum' = clientnum + 1
             /\ toClient' = Write(toClient, {c}, <<[type |-> "CONNECTIONACCEPT", id |-> n]>>)
     \/ /\ serverstop \/ clientnum >= MAXPLAYERS - 1 \/ backlog = <<>>
        /\ UNCHANGED <<backlog, group, sock, nextSocket, clientnum, toClient>>
  /\ ready' = IF serverstop THEN {} ELSE {c \in group' : Readable(c)}
  /\ updates' = NoOne
  /\ phase' = "reading"
  /\ UNCHANGED <<serverstop, client, history, toServer>>

\* The listening socket fails: the server stops, and the call returns.
AcceptError ==
  /\ phase = "begin" /\ ~serverstop /\ stage[Host] # "faulted"
  /\ clientnum < MAXPLAYERS - 1 /\ backlog = <<>> /\ MayFault
  /\ serverstop' = TRUE
  /\ UNCHANGED <<backlog, group, sock, nextSocket, clientnum, phase, ready, updates, client,
                 history, toServer, toClient>>

\* ReadBuffer of the next of s[] gives a packet.
Read(c, type) ==
  /\ phase = "reading" /\ c \in ready
  /\ toServer[c] # <<>> /\ Head(toServer[c]).type = type
  /\ ready' = ready \ {c}
  /\ toServer' = [toServer EXCEPT ![c] = Tail(@)]
  /\ UNCHANGED <<backlog, nextSocket, serverstop, phase>>

\* SendWorldInfo.  (The state of the world goes along in WORLDLIST1 and WORLDLIST2.)
WorldInfo(table) ==
  <<[type |-> "CLIENTLIST", list |-> table], Msg("WORLDLIST1"), Msg("WORLDLIST2"),
    Msg("DONECONNECT")>>

\* Mutant: only a player that was not in the table is announced.
ReadPlayerInfoIfNew(c) ==
  /\ Read(c, "PLAYERINFO")
  /\ LET m == Head(toServer[c])
         table == CreatePlayer(player[Host], m.id, m.info)
         add == IF Known(player[Host], m.id) THEN <<>>
                ELSE <<[type |-> "CLIENTADD", id |-> m.id, info |-> table[m.id]]>>
     IN  /\ player' = [player EXCEPT ![Host] = table]
         /\ toClient' = Write(Write(toClient, {c}, WorldInfo(table)), group, add)
  /\ joined' = joined \cup {c}
  /\ clean' = IF toClient[Host] = <<>> THEN clean \cup {c} ELSE clean
  /\ UNCHANGED <<stage, playerId, got, pose, sent, group, sock, clientnum, updates, wiped>>

\* A new player: enter it, tell it about all, and tell all about it.
ReadPlayerInfo(c) ==
  /\ Read(c, "PLAYERINFO")
  /\ LET m == Head(toServer[c])
         table == CreatePlayer(player[Host], m.id, m.info)
         add == IF Known(table, m.id)
                THEN <<[type |-> "CLIENTADD", id |-> m.id, info |-> table[m.id]]>> ELSE <<>>
     IN  /\ player' = [player EXCEPT ![Host] = table]
         /\ toClient' = Write(Write(toClient, {c}, WorldInfo(table)), group, add)
  /\ joined' = joined \cup {c}
  /\ clean' = IF stage[Host] = "FINISHED" /\ toClient[Host] = <<>> THEN clean \cup {c} ELSE clean
  /\ UNCHANGED <<stage, playerId, got, pose, sent, group, sock, clientnum, updates, wiped>>

ReadPlayerUpdate(c) ==
  /\ Read(c, "PLAYERUPDATE")
  /\ LET m == Head(toServer[c]) IN updates' = Enter(updates, m.id, m.pose)
  /\ UNCHANGED <<client, group, sock, clientnum, history, toClient>>

\* Mutant: the place of a player who leaves is not given back.
ReadPlayerDeleteKeepsPlace(c) ==
  /\ Read(c, "PLAYERDELETE")
  /\ group' = group \ {c}
  /\ sock' = [sock EXCEPT ![c] = NoSocket]
  /\ toClient' = Write(toClient, group', <<[type |-> "DELETECLIENT", id |-> sock[c]]>>)
  /\ joined' = joined \ {c}
  /\ UNCHANGED <<client, clientnum, updates, wiped, clean>>

\* A player leaves: its socket is closed, and the others are told.
ReadPlayerDelete(c) ==
  /\ Read(c, "PLAYERDELETE")
  /\ group' = group \ {c}
  /\ sock' = [sock EXCEPT ![c] = NoSocket]
  /\ clientnum' = clientnum - 1
  /\ toClient' = Write(toClient, group', <<[type |-> "DELETECLIENT", id |-> sock[c]]>>)
  /\ joined' = joined \ {c}
  /\ UNCHANGED <<client, updates, wiped, clean>>

\* nlRead fails at the end of a connection.  The error is lost: readlen is the outcome of
\* the comparison, 0, which is NL_FALSE and not NL_INVALID, "no packet yet".
ReadEnd(c) ==
  /\ phase = "reading" /\ c \in ready /\ toServer[c] = <<>>
  /\ ready' = ready \ {c}
  /\ UNCHANGED <<backlog, group, sock, nextSocket, clientnum, serverstop, phase, updates,
                 client, history, toServer, toClient>>

\* Mutant: the host, who is the server, is not sent what the server knows.
BroadcastToOthers ==
  IF updates = NoOne THEN toClient
  ELSE Write(toClient, group \ {Host}, <<[type |-> "CLIENTUPDATE", poses |-> updates]>>)

\* Everything has been read: the updates go to everybody, and the host plays on.  What
\* the server has just written to its own socket may not have arrived yet.
Broadcast ==
  IF updates = NoOne THEN toClient
  ELSE Write(toClient, group, <<[type |-> "CLIENTUPDATE", poses |-> updates]>>)

HostCycle ==
  /\ phase = "reading" /\ ready = {}
  /\ \/ HostAccepted(Broadcast)
     \/ \E read \in BOOLEAN : Finished(Host, Broadcast, read)
     \/ /\ stage[Host] = "waiting"
        /\ toClient' = Broadcast
        /\ UNCHANGED <<client, toServer>>
  /\ phase' = "begin" /\ updates' = NoOne
  /\ UNCHANGED <<backlog, group, sock, nextSocket, clientnum, serverstop, ready, history>>

------------------------------------------------------------------------------
Server ==
  \/ Begin \/ AcceptError \/ HostCycle
  \/ \E c \in Conns : \/ ReadPlayerInfo(c) \/ ReadPlayerUpdate(c)
                       \/ ReadPlayerDelete(c) \/ ReadEnd(c)

Next ==
  \/ Server
  \/ \E c \in Conns : \/ JoinerCycle(c) \/ Connect(c) \/ GetAcceptance(c) \/ Timeout(c)
                       \/ SendDelete(c) \/ Disappear(c) \/ ShutdownLevel(c) \/ Move(c)

Spec == Init /\ [][Next]_vars

\* The timer of each program keeps firing.
ServerRuns == Begin \/ HostCycle
              \/ \E c \in Conns : \/ ReadPlayerInfo(c) \/ ReadPlayerUpdate(c)
                                   \/ ReadPlayerDelete(c) \/ ReadEnd(c)

FairSpec ==
  /\ Spec /\ WF_vars(ServerRuns)
  /\ \A c \in Joiners : WF_vars(JoinerCycle(c))

------------------------------------------------------------------------------
(* Properties *)

\* ClientUpdate and BuildPlayer index the table with the own number without asking: it is
\* there whenever they run, unless the level was shut down under the session.  Neither the
\* deletion of somebody who had the number before nor anything else takes it away.
OwnPlayerKept ==
  \A c \in Conns : stage[c] \in {"PLAYERSETUP", "OTHERPLAYERS", "FINISHED"} /\ c \notin wiped
                    => Known(player[c], playerId[c])

\* There is a place in the table of everybody for whoever the server accepts, even while
\* those who left are still in it: nobody joins unannounced.
RoomForEverybody ==
  /\ clientnum = Cardinality(group) /\ clientnum < MAXPLAYERS
  /\ \A c \in Conns : Cardinality(DOMAIN player[c]) < MAXPLAYERS

\* How many packets of these types are under way.
Count(queue, types) == Cardinality({i \in 1 .. Len(queue) : queue[i].type \in types})

\* The packets of the handshake arrive once each, in spite of the broadcasts among them:
\* those counted and those under way are none or all.
HandshakeExact ==
  \A c \in Joiners : stage[c] \in {"OTHERPLAYERS", "FINISHED"} =>
    got[c] + Count(toClient[c], Handshake) = IF c \in joined THEN CONNECTIONPACKETS ELSE 0

\* What a player in the game will know when it has read everything under way.
WillKnow(c) ==
  LET after[n \in 0 .. Len(toClient[c])] ==
        IF n = 0 THEN player[c] ELSE Process(after[n - 1], toClient[c][n], playerId[c])
  IN  after[Len(toClient[c])]

\* The host comes to know exactly those who are in the game, also if numbers are given
\* to others while it has not read yet that their owners left.
HostKnowsMembers ==
  stage[Host] = "FINISHED" /\ Host \notin wiped
  => DOMAIN WillKnow(Host) = {sock[c] : c \in joined \cup {Host}}

\* A joiner whose list was made when the host had read everything comes to know the same
\* players as the host, and to see them in the same pose: what was broadcast while it was
\* not yet in the game is in the list, what comes later it reads.
JoinersAgree ==
  \A c \in clean : stage[c] = "FINISHED" /\ stage[Host] = "FINISHED" /\ wiped = {} =>
    LET here == WillKnow(c)
        there == WillKnow(Host)
    IN  /\ DOMAIN here = DOMAIN there
        /\ \A id \in DOMAIN here : here[id].who = there[id].who
        /\ \A id \in DOMAIN here \ {playerId[c], playerId[Host]} : here[id] = there[id]

\* "delete client if they dissappear": once its connection has ended, a client does not
\* stay in the group.
DisappearedDeleted ==
  \A c \in Joiners : stage[c] = "crashed" /\ c \in group
    ~> c \notin group \/ serverstop \/ stage[Host] = "faulted"
==============================================================================
