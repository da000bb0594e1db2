-------------------------- MODULE RoomsServerProofs --------------------------
(***************************************************************************)
(* Proofs about RoomsServer, for any number of clients, any frames, rooms  *)
(* and sizes: the record of a room's members and the clients' own record   *)
(* agree, whatever throws, and no frame is left in a buffer when the loop  *)
(* goes to sleep.                                                          *)
(***************************************************************************)
EXTENDS RoomsServer, SequenceTheorems, FiniteSetTheorems, SetInduction

-----------------------------------------------------------------------------
(* Types.                                                                  *)

Payloads == DOMAIN Size
Cells == [frame : Frames, part : {"first", "rest"}]
Notes == [kind : {"reply", "entered", "left", "message"}, by : Conns, about : Payloads]

Client == [conn : Conns, name : Payloads, room : Payloads,
           recv_buf : Seq(Cells), send_buf : Seq(Notes)]
ClientMap == UNION {[D -> Client] : D \in SUBSET Fds}
RoomMap == UNION {[D -> SUBSET Fds] : D \in SUBSET Payloads}
ReadyMap == UNION {[D -> SUBSET {"in", "out", "gone"}] : D \in SUBSET Fds}
TwoMaps == [clients : ClientMap, rooms : RoomMap, threw : BOOLEAN]

Connection == [status : {"none", "queued", "open", "closed"}, end : {"no", "fin", "reset"},
               up : Seq(Cells), half : Frames \cup {NoFrame}, down : Seq(Notes), read : Nat]

TypeOK ==
  /\ pc \in {"poll", "accept", "serve", "decode", "flush", "dead"}
  /\ at \in Fds \cup {NoFd}
  /\ dropping \in BOOLEAN
  /\ ready \in ReadyMap
  /\ clients \in ClientMap
  /\ rooms \in RoomMap
  /\ net \in [Conns -> Connection]
  /\ spare \in [Conns -> Nat]

-----------------------------------------------------------------------------
(* The invariant.                                                          *)

\* Every client of the server is an open connection of its own.
ConnsInv ==
  \A fd \in DOMAIN clients :
    /\ net[clients[fd].conn].status = "open"
    /\ \A other \in DOMAIN clients : clients[other].conn = clients[fd].conn => other = fd

\* Where the loop is, and that what it is about to touch is there.
LoopInv ==
  /\ DOMAIN ready \subseteq DOMAIN clients
  /\ pc \in {"decode", "flush"} => at \in DOMAIN ready
  /\ pc = "accept" => Queued # {}

\* A client leaves no more than SocketRoom frames unread.
SocketInv ==
  \A c \in Conns : net[c].status # "closed" =>
    net[c].read <= Len(net[c].down) /\ Len(net[c].down) <= net[c].read + SocketRoom

In(map, r) == IF r \in DOMAIN map THEN map[r] ELSE {}

\* The two maps agree about who is in which room ...
Agree(cmap, rmap) ==
  \A r \in RoomNames :
    /\ r \in DOMAIN rmap => rmap[r] # {}
    /\ {fd \in DOMAIN cmap : cmap[fd].room = r} = In(rmap, r)

\* ... but for one client that may be missing in the room it believes to be in.
AgreeBut(cmap, rmap, out) ==
  \A r \in RoomNames :
    /\ r \in DOMAIN rmap => rmap[r] # {}
    /\ In(rmap, r) \subseteq DOMAIN cmap
    /\ \A fd \in DOMAIN cmap \ {out} : cmap[fd].room = r <=> fd \in In(rmap, r)
    /\ out \in In(rmap, r) => cmap[out].room = r

\* After a throw that client is on its way out.
MembersInv ==
  /\ pc \notin {"flush", "dead"} => Agree(clients, rooms)
  /\ pc = "flush" => AgreeBut(clients, rooms, at) /\ (~dropping => Agree(clients, rooms))

\* A buffer in which there is nothing to process.
Settled(buf) == Len(buf) < 2 /\ ~ Broken(buf)

FramesInv ==
  \A fd \in DOMAIN clients :
    \/ fd = at /\ (pc \in {"decode", "dead"} \/ (pc = "flush" /\ dropping))
    \/ Settled(clients[fd].recv_buf)

IndInv == TypeOK /\ ConnsInv /\ LoopInv /\ SocketInv /\ MembersInv /\ FramesInv

-----------------------------------------------------------------------------
(* Maps.                                                                   *)

\* What it is to be a map of each of the types.
LEMMA MapTypes ==
  /\ \A f : f \in ClientMap <=> DOMAIN f \subseteq Fds /\ f \in [DOMAIN f -> Client]
  /\ \A f : f \in RoomMap <=> DOMAIN f \subseteq Payloads /\ f \in [DOMAIN f -> SUBSET Fds]
  /\ \A f : f \in ReadyMap <=>
       DOMAIN f \subseteq Fds /\ f \in [DOMAIN f -> SUBSET {"in", "out", "gone"}]
BY DEF ClientMap, RoomMap, ReadyMap

\* The fields of a client, and of the pair of maps.
LEMMA ClientFields ==
  ASSUME NEW cmap \in ClientMap, NEW fd \in DOMAIN cmap
  PROVE  /\ fd \in Fds
         /\ cmap[fd] \in Client
         /\ cmap[fd].conn \in Conns /\ cmap[fd].name \in Payloads /\ cmap[fd].room \in Payloads
         /\ cmap[fd].recv_buf \in Seq(Cells) /\ cmap[fd].send_buf \in Seq(Notes)
<1>1. cmap[fd] \in Client /\ fd \in Fds
  BY MapTypes
<1> QED
  BY <1>1 DEF Client

\* A map with another entry, and a map of rooms with one entry more or less.
LEMMA PutErase ==
  /\ \A cmap \in ClientMap, fd \in Fds, cl \in Client : Put(cmap, fd, cl) \in ClientMap
  /\ \A rmap \in RoomMap, r \in Payloads, fds \in SUBSET Fds : Put(rmap, r, fds) \in RoomMap
  /\ \A cmap \in ClientMap : \A fd : Erase(cmap, fd) \in ClientMap
  /\ \A rmap \in RoomMap : \A r : Erase(rmap, r) \in RoomMap
  /\ \A rdy \in ReadyMap : \A fd : Erase(rdy, fd) \in ReadyMap
BY MapTypes DEF Put, Erase

\* What putting and erasing an entry does to the members of a room.
LEMMA InPut ==
  ASSUME NEW rmap \in RoomMap, NEW r, NEW fds, NEW room
  PROVE  In(Put(rmap, r, fds), room) = IF room = r THEN fds ELSE In(rmap, room)
BY DEF In, Put

LEMMA InErase ==
  ASSUME NEW rmap \in RoomMap, NEW r, NEW room
  PROVE  /\ In(Erase(rmap, r), room) = IF room = r THEN {} ELSE In(rmap, room)
         /\ In(rmap, room) \subseteq Fds
BY MapTypes DEF In, Erase

-----------------------------------------------------------------------------
(* The handlers, as functions of the two maps.                             *)

\* Nothing but the send buffers changed, and what had thrown still has.
OnlyQueued(m, e) ==
  /\ e \in TwoMaps
  /\ e.rooms = m.rooms
  /\ DOMAIN e.clients = DOMAIN m.clients
  /\ m.threw => e.threw
  /\ \A fd \in DOMAIN m.clients :
       /\ e.clients[fd].conn = m.clients[fd].conn
       /\ e.clients[fd].name = m.clients[fd].name
       /\ e.clients[fd].room = m.clients[fd].room
       /\ e.clients[fd].recv_buf = m.clients[fd].recv_buf

\* enqueue_frame() changes nothing but send buffers, or throws.
LEMMA EnqueueQueues ==
  ASSUME NEW m \in TwoMaps, NEW fds, NEW words, NEW note \in Notes
  PROVE  OnlyQueued(m, Enqueue(m, fds, words, note))
<1> DEFINE told == [fd \in DOMAIN m.clients |->
                      IF fd \in fds THEN [m.clients[fd] EXCEPT !.send_buf = Append(@, note)]
                                     ELSE m.clients[fd]]
<1>1. m.clients \in ClientMap /\ m.rooms \in RoomMap /\ m.threw \in BOOLEAN
  BY DEF TwoMaps
<1>2. CASE fds = {} \/ m.threw
  BY <1>2 DEF Enqueue, OnlyQueued
<1>3. CASE ~(fds = {} \/ m.threw) /\ TooLong(words)
  BY <1>1, <1>3 DEF Enqueue, OnlyQueued, TwoMaps
<1>4. CASE ~(fds = {} \/ m.threw) /\ ~TooLong(words)
  <2>1. Enqueue(m, fds, words, note) = [m EXCEPT !.clients = told]
    BY <1>4 DEF Enqueue
  <2>2. ASSUME NEW fd \in DOMAIN m.clients
        PROVE  /\ told[fd] \in Client
               /\ told[fd].conn = m.clients[fd].conn
               /\ told[fd].name = m.clients[fd].name
               /\ told[fd].room = m.clients[fd].room
               /\ told[fd].recv_buf = m.clients[fd].recv_buf
    <3>1. m.clients[fd] \in Client /\ m.clients[fd].send_buf \in Seq(Notes)
      BY <1>1, ClientFields
    <3>2. Append(m.clients[fd].send_buf, note) \in Seq(Notes)
      BY <3>1
    <3> QED
      BY <3>1, <3>2 DEF Client
  <2>3. told \in ClientMap
    BY <1>1, <2>2, MapTypes
  <2> HIDE DEF told
  <2>4. [m EXCEPT !.clients = told] \in TwoMaps
    BY <1>1, <2>3 DEF TwoMaps
  <2>5. DOMAIN told = DOMAIN m.clients
    BY DEF told
  <2> QED
    BY <1>1, <2>1, <2>2, <2>4, <2>5 DEF OnlyQueued, TwoMaps
<1> QED
  BY <1>2, <1>3, <1>4

\* A reply, like an announcement or a message to a room, changes nothing but
\* send buffers, or throws.
LEMMA ReplyQueues ==
  ASSUME NEW m \in TwoMaps, NEW fd \in DOMAIN m.clients, NEW words
  PROVE  OnlyQueued(m, Reply(m, fd, words))
<1>1. m.clients \in ClientMap
  BY DEF TwoMaps
<1>2. m.clients[fd].conn \in Conns /\ "" \in Payloads
  BY <1>1, ClientFields, RoomsAssumption DEF Payloads
<1>3. [kind |-> "reply", by |-> m.clients[fd].conn, about |-> ""] \in Notes
  BY <1>2 DEF Notes
<1> QED
  BY <1>3, EnqueueQueues DEF Reply

LEMMA BroadcastQueues ==
  ASSUME NEW m \in TwoMaps, NEW fd \in DOMAIN m.clients, NEW room,
         NEW kind \in {"entered", "left", "message"}, NEW about \in Payloads
  PROVE  OnlyQueued(m, BroadcastRoom(m, room, fd, kind, about))
<1>1. m.clients \in ClientMap
  BY DEF TwoMaps
<1>2. m.clients[fd].conn \in Conns
  BY <1>1, ClientFields
<1>3. [kind |-> kind, by |-> m.clients[fd].conn, about |-> about] \in Notes
  BY <1>2 DEF Notes
<1> QED
  BY <1>3, EnqueueQueues DEF BroadcastRoom

\* What is only queued disturbs nobody's room.
LEMMA QueuedAgrees ==
  ASSUME NEW m \in TwoMaps, NEW e, OnlyQueued(m, e), NEW fd
  PROVE  /\ Agree(m.clients, m.rooms) => Agree(e.clients, e.rooms)
         /\ AgreeBut(m.clients, m.rooms, fd) /\ fd \in DOMAIN m.clients
              => AgreeBut(e.clients, e.rooms, fd)
<1>1. ASSUME Agree(m.clients, m.rooms) PROVE Agree(e.clients, e.rooms)
  BY <1>1 DEF OnlyQueued, Agree
<1>2. ASSUME AgreeBut(m.clients, m.rooms, fd), fd \in DOMAIN m.clients
      PROVE  AgreeBut(e.clients, e.rooms, fd)
  BY <1>2 DEF OnlyQueued, AgreeBut
<1> QED
  BY <1>1, <1>2

\* Everybody agrees exactly when all but one do and this one does.
LEMMA AgreeWithoutExcuse ==
  ASSUME NEW cmap \in ClientMap, NEW rmap \in RoomMap, NEW fd \in DOMAIN cmap
  PROVE  /\ Agree(cmap, rmap) => AgreeBut(cmap, rmap, fd)
         /\ AgreeBut(cmap, rmap, fd) /\ cmap[fd].room \notin RoomNames => Agree(cmap, rmap)
<1>1. ASSUME Agree(cmap, rmap) PROVE AgreeBut(cmap, rmap, fd)
  <2> SUFFICES ASSUME NEW r \in RoomNames
               PROVE  /\ r \in DOMAIN rmap => rmap[r] # {}
                      /\ In(rmap, r) \subseteq DOMAIN cmap
                      /\ \A g \in DOMAIN cmap \ {fd} : cmap[g].room = r <=> g \in In(rmap, r)
                      /\ fd \in In(rmap, r) => cmap[fd].room = r
    BY DEF AgreeBut
  <2> QED
    BY <1>1 DEF Agree
<1>2. ASSUME AgreeBut(cmap, rmap, fd), cmap[fd].room \notin RoomNames PROVE Agree(cmap, rmap)
  <2> SUFFICES ASSUME NEW r \in RoomNames
               PROVE  /\ r \in DOMAIN rmap => rmap[r] # {}
                      /\ {g \in DOMAIN cmap : cmap[g].room = r} = In(rmap, r)
    BY DEF Agree
  <2> QED
    BY <1>2 DEF AgreeBut
<1> QED
  BY <1>1, <1>2

\* Nothing about who the clients are, or what is left to decode, has changed.
SameClients(m, e) ==
  /\ e \in TwoMaps
  /\ DOMAIN e.clients = DOMAIN m.clients
  /\ \A fd \in DOMAIN m.clients :
       /\ e.clients[fd].conn = m.clients[fd].conn
       /\ e.clients[fd].recv_buf = m.clients[fd].recv_buf

\* leave_room() brings the two maps back into agreement unless it throws, and
\* then only the client itself is out of step.
LEMMA LeaveRoomAgrees ==
  ASSUME NEW m \in TwoMaps, NEW fd \in DOMAIN m.clients, ~m.threw,
         AgreeBut(m.clients, m.rooms, fd), NEW l, l = LeaveRoom(m, fd)
  PROVE  /\ SameClients(m, l)
         /\ AgreeBut(l.clients, l.rooms, fd)
         /\ ~l.threw => Agree(l.clients, l.rooms) /\ l.clients[fd].room = ""
         /\ l.rooms \in RoomMap
<1> DEFINE room == m.clients[fd].room
           rest == (IF room \in DOMAIN m.rooms THEN m.rooms[room] ELSE {}) \ {fd}
           out  == [m EXCEPT !.rooms = IF rest = {} THEN Erase(@, room) ELSE Put(@, room, rest)]
           told == BroadcastRoom(out, room, fd, "left", room)
<1>1. m.clients \in ClientMap /\ m.rooms \in RoomMap /\ m.threw \in BOOLEAN
  BY DEF TwoMaps
<1>2. room \in Payloads /\ fd \in Fds
  BY <1>1, ClientFields
<1>3. "" \notin RoomNames
  BY RoomsAssumption
<1>4. CASE room = ""
  <2>1. l = m
    BY <1>4 DEF LeaveRoom
  <2>2. Agree(m.clients, m.rooms)
    BY <1>1, <1>3, <1>4, AgreeWithoutExcuse
  <2> QED
    BY <1>1, <1>4, <2>1, <2>2 DEF SameClients
<1>5. CASE room # ""
  <2>1. l = IF told.threw THEN told ELSE [told EXCEPT !.clients[fd].room = ""]
    BY <1>5 DEF LeaveRoom
  <2>2. rest = In(m.rooms, room) \ {fd} /\ rest \in SUBSET Fds
    BY <1>1, InErase DEF In
  <2>3. out \in TwoMaps
    BY <1>1, <1>2, <2>2, PutErase DEF TwoMaps
  <2>4. out.clients = m.clients
    BY <1>1 DEF TwoMaps
  <2>5. out.rooms = IF rest = {} THEN Erase(m.rooms, room) ELSE Put(m.rooms, room, rest)
    BY <1>1 DEF TwoMaps
  <2> HIDE DEF out, rest
  <2>6. OnlyQueued(out, told)
    BY <1>2, <2>3, <2>4, BroadcastQueues
  <2>7. \A r \in RoomNames : /\ r \in DOMAIN out.rooms => out.rooms[r] # {}
                             /\ In(out.rooms, r) = In(m.rooms, r) \ (IF r = room THEN {fd} ELSE {})
    <3> TAKE r \in RoomNames
    <3>1. r \in DOMAIN m.rooms => m.rooms[r] # {}
      BY DEF AgreeBut
    <3>2. fd \in In(m.rooms, r) => r = room
      BY DEF AgreeBut
    <3>3. CASE rest = {}
      <4>1. out.rooms = Erase(m.rooms, room)
        BY <2>5, <3>3
      <4>2. In(out.rooms, r) = IF r = room THEN {} ELSE In(m.rooms, r)
        BY SMTT(30), <1>1, <4>1, InErase
      <4>3. r \in DOMAIN out.rooms => out.rooms[r] # {}
        BY <3>1, <4>1 DEF Erase
      <4> QED
        BY <2>2, <3>3, <4>2, <4>3
    <3>4. CASE rest # {}
      <4>1. out.rooms = Put(m.rooms, room, rest)
        BY <2>5, <3>4
      <4>2. In(out.rooms, r) = IF r = room THEN rest ELSE In(m.rooms, r)
        BY <1>1, <4>1, InPut
      <4>3. r \in DOMAIN out.rooms => out.rooms[r] # {}
        BY <3>1, <3>4, <4>1 DEF Put
      <4> QED
        BY <2>2, <4>2, <4>3
    <3> QED
      BY <3>3, <3>4
  <2>8. AgreeBut(out.clients, out.rooms, fd) /\ \A r \in RoomNames : fd \notin In(out.rooms, r)
    BY SMTT(30), <2>4, <2>7 DEF AgreeBut
  <2>9. AgreeBut(told.clients, told.rooms, fd) /\ \A r \in RoomNames : fd \notin In(told.rooms, r)
    BY <2>3, <2>4, <2>6, <2>8, QueuedAgrees DEF OnlyQueued
  <2> HIDE DEF told, room
  <2>10. told \in TwoMaps /\ told.clients \in ClientMap /\ told.rooms \in RoomMap
    BY <2>6 DEF OnlyQueued, TwoMaps
  <2>11. SameClients(m, told)
    BY <2>4, <2>6 DEF SameClients, OnlyQueued
  <2>12. CASE told.threw
    BY <2>1, <2>9, <2>10, <2>11, <2>12
  <2>13. CASE ~told.threw
    <3> DEFINE cl == [told.clients[fd] EXCEPT !.room = ""]
               cmap == [told.clients EXCEPT ![fd] = cl]
    <3>1. fd \in DOMAIN told.clients
      BY <2>4, <2>6 DEF OnlyQueued
    <3>2. told.clients[fd] \in Client /\ "" \in Payloads
      BY <2>10, <3>1, ClientFields, RoomsAssumption DEF Payloads
    <3>3. cl \in Client /\ cl.room = "" /\ cl.conn = told.clients[fd].conn
            /\ cl.recv_buf = told.clients[fd].recv_buf
      BY <3>2 DEF Client
    <3> HIDE DEF cl
    <3>4. cmap \in ClientMap /\ DOMAIN cmap = DOMAIN told.clients
      BY <2>10, <3>3, MapTypes
    <3>5. l = [told EXCEPT !.clients = cmap]
      BY <2>1, <2>13, <2>10, <3>1 DEF cl, TwoMaps
    <3>6. l \in TwoMaps /\ l.clients = cmap /\ l.rooms = told.rooms
      BY <2>10, <3>4, <3>5 DEF TwoMaps
    <3>7. SameClients(m, l)
      BY ZenonT(60), <2>10, <2>11, <3>1, <3>3, <3>4, <3>6 DEF SameClients
    <3>8. AgreeBut(l.clients, l.rooms, fd)
      <4> SUFFICES ASSUME NEW r \in RoomNames
                   PROVE  /\ r \in DOMAIN l.rooms => l.rooms[r] # {}
                          /\ In(l.rooms, r) \subseteq DOMAIN cmap
                          /\ \A g \in DOMAIN cmap \ {fd} : cmap[g].room = r <=> g \in In(l.rooms, r)
                          /\ fd \in In(l.rooms, r) => cmap[fd].room = r
        BY <3>6 DEF AgreeBut
      <4>1. \A g \in DOMAIN cmap \ {fd} : cmap[g] = told.clients[g]
        OBVIOUS
      <4> QED
        BY <2>9, <3>4, <3>6, <4>1 DEF AgreeBut
    <3>9. l.clients[fd].room = "" /\ Agree(l.clients, l.rooms)
      BY ZenonT(60), <1>3, <2>10, <3>1, <3>3, <3>4, <3>6, <3>8, AgreeWithoutExcuse
    <3> QED
      BY <2>10, <3>6, <3>7, <3>8, <3>9
  <2> QED
    BY ZenonT(60), <2>12, <2>13
<1> QED
  BY <1>4, <1>5

\* enter_room() keeps the maps in agreement, and nothing it throws undoes that.
LEMMA EnterRoomAgrees ==
  ASSUME NEW m \in TwoMaps, NEW fd \in DOMAIN m.clients, NEW room \in Payloads,
         Agree(m.clients, m.rooms), m.clients[fd].room = "", NEW e, e = EnterRoom(m, fd, room)
  PROVE  SameClients(m, e) /\ Agree(e.clients, e.rooms)
<1> DEFINE in  == (IF room \in DOMAIN m.rooms THEN m.rooms[room] ELSE {}) \cup {fd}
           cl  == [m.clients[fd] EXCEPT !.room = room]
           cmap == [m.clients EXCEPT ![fd] = cl]
           rmap == Put(m.rooms, room, in)
           put == [m EXCEPT !.clients[fd].room = room, !.rooms = Put(@, room, in)]
<1>1. m.clients \in ClientMap /\ m.rooms \in RoomMap /\ m.threw \in BOOLEAN
  BY DEF TwoMaps
<1>2. m.clients[fd] \in Client /\ fd \in Fds
  BY <1>1, ClientFields
<1>3. cl \in Client /\ cl.room = room /\ cl.conn = m.clients[fd].conn
        /\ cl.recv_buf = m.clients[fd].recv_buf
  BY <1>2 DEF Client
<1>4. put = [m EXCEPT !.clients = cmap, !.rooms = rmap]
  BY <1>1 DEF TwoMaps
<1>5. in = In(m.rooms, room) \cup {fd} /\ in \in SUBSET Fds
  BY <1>1, <1>2, InErase DEF In
<1> HIDE DEF cl, in
<1>6. cmap \in ClientMap /\ DOMAIN cmap = DOMAIN m.clients
  BY <1>1, <1>3, MapTypes
<1>7. rmap \in RoomMap
  BY <1>1, <1>5, PutErase
<1>8. ASSUME NEW r \in RoomNames
      PROVE  /\ r \in DOMAIN rmap => rmap[r] # {}
             /\ {g \in DOMAIN cmap : cmap[g].room = r} = In(rmap, r)
  <2>1. In(rmap, r) = IF r = room THEN in ELSE In(m.rooms, r)
    BY DEF In, Put
  <2>2. r # ""
    BY RoomsAssumption
  <2>3. {g \in DOMAIN m.clients : m.clients[g].room = r} = In(m.rooms, r)
    BY DEF Agree
  <2>4. \A g \in DOMAIN cmap : cmap[g].room = r <=> g \in In(rmap, r)
    BY <1>3, <1>5, <1>6, <2>1, <2>2, <2>3
  <2>5. In(rmap, r) \subseteq DOMAIN cmap
    BY <1>5, <1>6, <2>1, <2>3
  <2>6. r \in DOMAIN rmap => rmap[r] # {}
    BY <1>5 DEF Agree, Put
  <2> QED
    BY <2>4, <2>5, <2>6
<1> HIDE DEF rmap
<1>9. Agree(cmap, rmap)
  BY <1>8 DEF Agree
<1>10. SameClients(m, [m EXCEPT !.clients = cmap, !.rooms = rmap])
  BY <1>1, <1>3, <1>6, <1>7 DEF SameClients, TwoMaps
<1>11. put \in TwoMaps /\ put.clients = cmap /\ put.rooms = rmap
  BY <1>1, <1>4, <1>6, <1>7 DEF TwoMaps
<1> HIDE DEF put, cmap
<1>12. fd \in DOMAIN put.clients /\ SameClients(m, put) /\ Agree(put.clients, put.rooms)
  BY <1>4, <1>6, <1>9, <1>10, <1>11
<1> DEFINE said == Reply(put, fd, <<room>>)
<1>13. OnlyQueued(put, said)
  BY <1>11, <1>12, ReplyQueues
<1>14. said \in TwoMaps /\ fd \in DOMAIN said.clients
  BY <1>12, <1>13 DEF OnlyQueued
<1>15. e = BroadcastRoom(said, room, fd, "entered", room)
  BY DEF EnterRoom, put, in
<1> HIDE DEF said
<1>16. OnlyQueued(said, e)
  BY <1>14, <1>15, BroadcastQueues
<1>17. Agree(e.clients, e.rooms)
  BY <1>11, <1>12, <1>13, <1>14, <1>16, QueuedAgrees
<1>18. SameClients(m, e)
  BY ZenonT(60), <1>12, <1>13, <1>16 DEF SameClients, OnlyQueued
<1> QED
  BY <1>17, <1>18

\* Whatever a frame is, process_message() keeps the maps in agreement, but for
\* the client itself when it throws.
LEMMA ProcessAgrees ==
  ASSUME NEW m \in TwoMaps, NEW fd \in DOMAIN m.clients, NEW frame \in Frames, ~m.threw,
         Agree(m.clients, m.rooms), NEW e, e = ProcessMessage(m, fd, frame)
  PROVE  /\ SameClients(m, e)
         /\ AgreeBut(e.clients, e.rooms, fd)
         /\ ~e.threw => Agree(e.clients, e.rooms)
<1>1. m.clients \in ClientMap /\ m.rooms \in RoomMap
  BY DEF TwoMaps
<1>2. AgreeBut(m.clients, m.rooms, fd)
  BY <1>1, AgreeWithoutExcuse
<1>3. frame.payload \in Payloads
  BY DEF Frames, Payloads
<1>4. ASSUME OnlyQueued(m, e)
      PROVE  /\ SameClients(m, e)
             /\ AgreeBut(e.clients, e.rooms, fd)
             /\ ~e.threw => Agree(e.clients, e.rooms)
  BY <1>2, <1>4, QueuedAgrees DEF OnlyQueued, SameClients
<1>5. CASE frame.type = "Hello"
  <2> DEFINE cl == [m.clients[fd] EXCEPT !.name = frame.payload]
             cmap == [m.clients EXCEPT ![fd] = cl]
             named == [m EXCEPT !.clients = cmap]
  <2>1. m.clients[fd] \in Client
    BY <1>1, ClientFields
  <2>2. cl \in Client /\ cl.room = m.clients[fd].room /\ cl.conn = m.clients[fd].conn
          /\ cl.recv_buf = m.clients[fd].recv_buf
    BY <1>3, <2>1 DEF Client
  <2>3. e = Reply(named, fd, <<frame.payload>>)
    BY <1>5 DEF ProcessMessage, Hello, TwoMaps
  <2> HIDE DEF cl, cmap
  <2>4. /\ named \in TwoMaps
        /\ DOMAIN named.clients = DOMAIN m.clients
        /\ named.clients[fd] = cl
        /\ \A g \in DOMAIN m.clients \ {fd} : named.clients[g] = m.clients[g]
        /\ named.rooms = m.rooms
    <3>1. cmap \in ClientMap /\ DOMAIN cmap = DOMAIN m.clients /\ cmap[fd] = cl
            /\ \A g \in DOMAIN m.clients \ {fd} : cmap[g] = m.clients[g]
      BY <1>1, <2>2, MapTypes DEF cmap
    <3>2. named \in TwoMaps /\ named.clients = cmap /\ named.rooms = m.rooms
      BY <3>1 DEF TwoMaps
    <3> QED
      BY <3>1, <3>2
  <2> HIDE DEF named
  <2>5. \A g \in DOMAIN m.clients : named.clients[g].room = m.clients[g].room
    BY <2>2, <2>4
  <2>6. Agree(named.clients, named.rooms)
    BY <2>4, <2>5 DEF Agree
  <2>7. SameClients(m, named)
    BY <2>2, <2>4 DEF SameClients
  <2>8. OnlyQueued(named, e)
    BY <2>3, <2>4, ReplyQueues
  <2>9. Agree(e.clients, e.rooms) /\ SameClients(m, e)
    BY <2>4, <2>6, <2>7, <2>8, QueuedAgrees DEF OnlyQueued, SameClients
  <2>10. e.clients \in ClientMap /\ e.rooms \in RoomMap /\ fd \in DOMAIN e.clients
    BY <2>9 DEF SameClients, TwoMaps
  <2> QED
    BY <2>9, <2>10, AgreeWithoutExcuse
<1>6. CASE frame.type = "Join"
  <2>1. CASE m.clients[fd].name = ""
    BY <1>4, <1>6, <2>1, ReplyQueues DEF ProcessMessage, Join
  <2>2. CASE m.clients[fd].name # ""
    <3> DEFINE left == LeaveRoom(m, fd)
    <3>1. e = IF left.threw THEN left ELSE EnterRoom(left, fd, frame.payload)
      BY <1>6, <2>2 DEF ProcessMessage, Join
    <3> HIDE DEF left
    <3>2. /\ SameClients(m, left)
          /\ AgreeBut(left.clients, left.rooms, fd)
          /\ ~left.threw => Agree(left.clients, left.rooms) /\ left.clients[fd].room = ""
      BY <1>2, LeaveRoomAgrees DEF left
    <3>3. left \in TwoMaps /\ fd \in DOMAIN left.clients /\ left.threw \in BOOLEAN
      BY <3>2 DEF SameClients, TwoMaps
    <3>4. CASE left.threw
      BY <3>1, <3>2, <3>4
    <3>5. CASE ~left.threw
      <4>1. SameClients(left, e) /\ Agree(e.clients, e.rooms)
        BY <1>3, <3>1, <3>2, <3>3, <3>5, EnterRoomAgrees
      <4>2. SameClients(m, e)
        BY <3>2, <4>1 DEF SameClients
      <4>3. e.clients \in ClientMap /\ e.rooms \in RoomMap /\ fd \in DOMAIN e.clients
        BY <4>2 DEF SameClients, TwoMaps
      <4> QED
        BY <4>1, <4>2, <4>3, AgreeWithoutExcuse
    <3> QED
      BY <3>4, <3>5
  <2> QED
    BY <2>1, <2>2
<1>7. CASE frame.type = "Leave"
  <2> DEFINE left == LeaveRoom(m, fd)
  <2>1. e = Reply(left, fd, << >>)
    BY <1>7 DEF ProcessMessage, Leave
  <2> HIDE DEF left
  <2>2. /\ SameClients(m, left)
        /\ AgreeBut(left.clients, left.rooms, fd)
        /\ ~left.threw => Agree(left.clients, left.rooms)
    BY <1>2, LeaveRoomAgrees DEF left
  <2>3. left \in TwoMaps /\ fd \in DOMAIN left.clients
    BY <2>2 DEF SameClients
  <2>4. OnlyQueued(left, e)
    BY <2>1, <2>3, ReplyQueues
  <2>5. SameClients(m, e)
    BY <2>2, <2>4 DEF SameClients, OnlyQueued
  <2>6. AgreeBut(e.clients, e.rooms, fd)
    BY <2>2, <2>3, <2>4, QueuedAgrees
  <2>7. ~e.threw => Agree(e.clients, e.rooms)
    BY <2>2, <2>3, <2>4, QueuedAgrees DEF OnlyQueued
  <2> QED
    BY <2>5, <2>6, <2>7
<1>8. CASE frame.type = "Message"
  <2>1. e = Message(m, fd, frame.payload)
    BY <1>8 DEF ProcessMessage
  <2>2. OnlyQueued(m, e)
    BY <1>3, <2>1, ReplyQueues, BroadcastQueues DEF Message
  <2> QED
    BY <1>4, <2>2
<1>9. CASE frame.type \notin {"Hello", "Join", "Leave", "Message"}
  <2>1. e = Reply(m, fd, << >>)
    BY <1>9 DEF ProcessMessage
  <2>2. OnlyQueued(m, e)
    BY <2>1, ReplyQueues
  <2> QED
    BY <1>4, <2>2
<1> QED
  BY <1>5, <1>6, <1>7, <1>8, <1>9

-----------------------------------------------------------------------------
(* The clients.                                                            *)

\* A client touches nothing of the server, keeps its connection, and leaves no
\* more unread than before.
OnlyPeers ==
  /\ UNCHANGED server
  /\ net' \in [Conns -> Connection]
  /\ spare' \in [Conns -> Nat]
  /\ \A c \in Conns :
       /\ net[c].status \in {"queued", "open"} => net'[c].status = net[c].status
       /\ net'[c].status # "closed" =>
            /\ net'[c].read <= Len(net'[c].down)
            /\ Len(net'[c].down) <= net'[c].read + SocketRoom

\* The fields of a connection.
LEMMA ConnectionFields ==
  ASSUME TypeOK, NEW c \in Conns
  PROVE  /\ net[c] \in Connection
         /\ net[c].status \in {"none", "queued", "open", "closed"}
         /\ net[c].up \in Seq(Cells) /\ net[c].half \in Frames \cup {NoFrame}
         /\ net[c].down \in Seq(Notes) /\ net[c].read \in Nat
         /\ Len(net[c].down) \in Nat
<1>1. net[c] \in Connection
  BY DEF TypeOK
<1>2. net[c].down \in Seq(Notes)
  BY <1>1 DEF Connection
<1> QED
  BY <1>1, <1>2, LenProperties DEF Connection

\* A step of which one connection is touched.
LEMMA OnePeer ==
  ASSUME TypeOK, SocketInv, UNCHANGED server, NEW c \in Conns, NEW new \in Connection,
         net' = [net EXCEPT ![c] = new], spare' \in [Conns -> Nat],
         net[c].status \in {"queued", "open"} => new.status = net[c].status,
         new.status # "closed" =>
           new.read <= Len(new.down) /\ Len(new.down) <= new.read + SocketRoom
  PROVE  OnlyPeers
<1>1. net \in [Conns -> Connection]
  BY DEF TypeOK
<1>2. net' \in [Conns -> Connection] /\ net'[c] = new /\ \A d \in Conns \ {c} : net'[d] = net[d]
  BY <1>1
<1> QED
  BY <1>2 DEF OnlyPeers, SocketInv

\* What a client does of its own touches nothing of the server.
LEMMA ClientsAreOnlyPeers ==
  ASSUME TypeOK, SocketInv, NEW c \in Conns,
         \/ Connect(c)
         \/ \E f \in ClientFrames[c] : Write(c, f) \/ WriteFirst(c, f)
         \/ WriteRest(c)
         \/ Read(c)
         \/ HangUp(c)
         \/ Reset(c)
  PROVE  OnlyPeers
<1>1. /\ net \in [Conns -> Connection] /\ spare \in [Conns -> Nat]
      /\ net[c].status # "closed" =>
           net[c].read <= Len(net[c].down) /\ Len(net[c].down) <= net[c].read + SocketRoom
  BY DEF TypeOK, SocketInv
<1>2. /\ net[c] \in Connection
      /\ net[c].up \in Seq(Cells)
      /\ net[c].half \in Frames \cup {NoFrame}
      /\ net[c].down \in Seq(Notes) /\ net[c].read \in Nat
      /\ Len(net[c].down) \in Nat
  BY ConnectionFields
<1>3. SocketRoom \in Nat \ {0}
  BY RoomsAssumption
<1>4. CASE Connect(c)
  <2> DEFINE new == [net[c] EXCEPT !.status = "queued"]
  <2>1. /\ UNCHANGED server /\ spare' = spare /\ net[c].status = "none"
        /\ net' = [net EXCEPT ![c] = new]
    BY <1>4 DEF Connect
  <2>2. /\ new \in Connection
        /\ new.read = net[c].read /\ new.down = net[c].down
    BY <1>2 DEF Connection
  <2> HIDE DEF new
  <2> QED
    BY <1>1, <2>1, <2>2, OnePeer
<1>5. ASSUME NEW f \in ClientFrames[c], Write(c, f) PROVE OnlyPeers
  <2> DEFINE cells == <<[frame |-> f, part |-> "first"], [frame |-> f, part |-> "rest"]>>
             new == [net[c] EXCEPT !.up = @ \o cells]
  <2>1. /\ UNCHANGED server /\ spare' = [spare EXCEPT ![c] = @ - 1] /\ spare[c] > 0
        /\ net' = [net EXCEPT ![c] = new]
    BY <1>5 DEF Write
  <2>2. f \in Frames
    BY RoomsAssumption
  <2>3. cells \in Seq(Cells)
    BY <2>2 DEF Cells
  <2> HIDE DEF cells
  <2>4. net[c].up \o cells \in Seq(Cells)
    BY <1>2, <2>3
  <2>5. /\ new \in Connection /\ new.status = net[c].status
        /\ new.read = net[c].read /\ new.down = net[c].down
    BY <1>2, <2>4 DEF Connection
  <2>6. spare' \in [Conns -> Nat]
    BY <1>1, <2>1
  <2> HIDE DEF new
  <2> QED
    BY <1>1, <2>1, <2>5, <2>6, OnePeer
<1>6. ASSUME NEW f \in ClientFrames[c], WriteFirst(c, f) PROVE OnlyPeers
  <2> DEFINE cell == [frame |-> f, part |-> "first"]
             new == [net[c] EXCEPT !.up = Append(@, cell), !.half = f]
  <2>1. /\ UNCHANGED server /\ spare' = [spare EXCEPT ![c] = @ - 1] /\ spare[c] > 0
        /\ net' = [net EXCEPT ![c] = new]
    BY <1>1, <1>6 DEF WriteFirst
  <2>2. f \in Frames
    BY RoomsAssumption
  <2>3. cell \in Cells
    BY <2>2 DEF Cells
  <2> HIDE DEF cell
  <2>4. Append(net[c].up, cell) \in Seq(Cells)
    BY <1>2, <2>3
  <2>5. /\ new \in Connection /\ new.status = net[c].status
        /\ new.read = net[c].read /\ new.down = net[c].down
    BY <1>2, <2>2, <2>4 DEF Connection
  <2>6. spare' \in [Conns -> Nat]
    BY <1>1, <2>1
  <2> HIDE DEF new
  <2> QED
    BY <1>1, <2>1, <2>5, <2>6, OnePeer
<1>7. CASE WriteRest(c)
  <2> DEFINE cell == [frame |-> net[c].half, part |-> "rest"]
             new == [net[c] EXCEPT !.up = Append(@, cell), !.half = NoFrame]
  <2>1. /\ UNCHANGED server /\ spare' = spare /\ net[c].half # NoFrame
        /\ net' = [net EXCEPT ![c] = new]
    BY <1>1, <1>7 DEF WriteRest
  <2>2. cell \in Cells
    BY <1>2, <2>1 DEF Cells
  <2> HIDE DEF cell
  <2>3. Append(net[c].up, cell) \in Seq(Cells)
    BY <1>2, <2>2
  <2>4. /\ new \in Connection /\ new.status = net[c].status
        /\ new.read = net[c].read /\ new.down = net[c].down
    BY <1>2, <2>3 DEF Connection
  <2> HIDE DEF new
  <2> QED
    BY <1>1, <2>1, <2>4, OnePeer
<1>8. CASE Read(c)
  <2> DEFINE new == [net[c] EXCEPT !.read = Len(net[c].down)]
  <2>1. /\ UNCHANGED server /\ spare' = spare
        /\ net' = [net EXCEPT ![c] = new]
    BY <1>8 DEF Read
  <2>2. /\ new \in Connection /\ new.status = net[c].status
        /\ new.read = Len(net[c].down) /\ new.down = net[c].down
    BY <1>2 DEF Connection
  <2> HIDE DEF new
  <2>3. new.read <= Len(new.down) /\ Len(new.down) <= new.read + SocketRoom
    BY <1>2, <1>3, <2>2
  <2> QED
    BY <1>1, <2>1, <2>2, <2>3, OnePeer
<1>9. CASE HangUp(c) \/ Reset(c)
  <2>1. PICK end \in {"fin", "reset"} :
          /\ UNCHANGED server /\ spare' = spare
          /\ net' = [net EXCEPT ![c] = [net[c] EXCEPT !.end = end]]
    BY <1>9 DEF HangUp, Reset
  <2> DEFINE new == [net[c] EXCEPT !.end = end]
  <2>2. UNCHANGED server /\ spare' = spare /\ net' = [net EXCEPT ![c] = new]
    BY <2>1
  <2>3. /\ new \in Connection /\ new.status = net[c].status
        /\ new.read = net[c].read /\ new.down = net[c].down
    BY <1>2 DEF Connection
  <2> HIDE DEF new
  <2> QED
    BY <1>1, <2>2, <2>3, OnePeer
<1> QED
  BY <1>4, <1>5, <1>6, <1>7, <1>8, <1>9

\* ... and keeps the invariant.
LEMMA PeersKeepInv ==
  ASSUME IndInv, OnlyPeers
  PROVE  IndInv'
<1> USE DEF IndInv, OnlyPeers, server
<1>1. TypeOK'
  BY DEF TypeOK
<1>2. ConnsInv'
  <2>1. \A fd \in DOMAIN clients : clients[fd].conn \in Conns
    BY ClientFields DEF TypeOK
  <2> QED
    BY <2>1 DEF ConnsInv
<1>3. LoopInv'
  BY DEF LoopInv, Queued
<1>4. SocketInv'
  BY DEF SocketInv
<1>5. MembersInv'
  BY DEF MembersInv
<1>6. FramesInv'
  BY DEF FramesInv
<1> QED
  BY <1>1, <1>2, <1>3, <1>4, <1>5, <1>6

-----------------------------------------------------------------------------
(* The loop.                                                               *)

\* A map with no entry; a buffer with nothing in it is settled.
LEMMA NoEntries == DOMAIN << >> = {} /\ \A S : << >> \in [DOMAIN << >> -> S]
OBVIOUS

LEMMA EmptyIsSettled == Len(<< >>) = 0 /\ Settled(<< >>)
<1>1. Len(<< >>) = 0
  OBVIOUS
<1>2. Len(<< >>) < 2
  BY <1>1
<1>3. ~ Broken(<< >>)
  BY DEF Broken
<1> QED
  BY <1>1, <1>2, <1>3 DEF Settled

\* The loop starts with nobody connected.
LEMMA InitInv == Init => IndInv
<1> SUFFICES ASSUME Init PROVE IndInv
  OBVIOUS
<1>1. /\ NewConnection.status = "none" /\ NewConnection.read = 0
      /\ NewConnection.down = << >>
  BY DEF NewConnection
<1>2. NewConnection \in Connection
  <2>1. << >> \in Seq(Cells) /\ << >> \in Seq(Notes)
    OBVIOUS
  <2> QED
    BY <2>1 DEF NewConnection, Connection
<1>3. \A c \in Conns : net[c] = NewConnection
  BY DEF Init
<1>4. DOMAIN clients = {} /\ DOMAIN rooms = {} /\ DOMAIN ready = {}
  BY NoEntries DEF Init
<1>5. TypeOK
  <2>1. clients \in ClientMap /\ rooms \in RoomMap /\ ready \in ReadyMap
    BY <1>4, NoEntries, MapTypes DEF Init
  <2>2. net \in [Conns -> Connection]
    BY <1>2 DEF Init
  <2>3. pc = "poll" /\ at = NoFd /\ dropping = FALSE
    BY DEF Init
  <2>4. spare \in [Conns -> Nat]
    BY RoomsAssumption DEF Init
  <2> QED
    BY <2>1, <2>2, <2>3, <2>4 DEF TypeOK
<1>6. ConnsInv
  BY <1>4 DEF ConnsInv
<1>7. LoopInv
  BY <1>4 DEF LoopInv, Init
<1>8. SocketInv
  <2>1. Len(<< >>) = 0
    BY EmptyIsSettled
  <2>2. SocketRoom \in Nat
    BY RoomsAssumption
  <2>3. \A c \in Conns : net[c].read = 0 /\ Len(net[c].down) = 0
    BY <1>1, <1>3, <2>1
  <2> QED
    BY <2>2, <2>3 DEF SocketInv
<1>9. MembersInv
  BY <1>4 DEF MembersInv, Agree, In, Init
<1>10. FramesInv
  BY <1>4 DEF FramesInv
<1> QED
  BY <1>5, <1>6, <1>7, <1>8, <1>9, <1>10 DEF IndInv

\* poll() only looks.
LEMMA PollKeepsInv ==
  ASSUME IndInv, Poll
  PROVE  IndInv'
<1> USE DEF IndInv, Poll
<1>1. TypeOK'
  <2>1. \A fd \in DOMAIN clients : fd \in Fds
    BY ClientFields DEF TypeOK
  <2>2. \A fd : Revents(fd) \in SUBSET {"in", "out", "gone"}
    BY DEF Revents
  <2>3. ready' \in ReadyMap
    BY <2>1, <2>2, MapTypes
  <2> QED
    BY <2>3 DEF TypeOK
<1>2. ConnsInv'
  BY DEF ConnsInv
<1>3. LoopInv'
  BY DEF LoopInv, Queued
<1>4. SocketInv'
  BY DEF SocketInv
<1>5. MembersInv'
  BY DEF MembersInv
<1>6. FramesInv'
  BY DEF FramesInv
<1> QED
  BY <1>1, <1>2, <1>3, <1>4, <1>5, <1>6

\* There is a descriptor for everyone who connects, since no two clients of the
\* server are one connection.
LEMMA DescriptorFree ==
  ASSUME TypeOK, ConnsInv, NEW c \in Queued
  PROVE  Fds \ DOMAIN clients # {}
<1> SUFFICES ASSUME Fds \subseteq DOMAIN clients PROVE FALSE
  OBVIOUS
<1> DEFINE conn == [fd \in Fds |-> clients[fd].conn]
<1>1. \A fd \in Fds : /\ clients[fd].conn \in Conns
                      /\ net[clients[fd].conn].status = "open"
  BY ClientFields DEF TypeOK, ConnsInv
<1>2. \A fd, other \in Fds : clients[fd].conn = clients[other].conn => fd = other
  BY DEF ConnsInv
<1>3. c \in Conns /\ \A fd \in Fds : clients[fd].conn # c
  BY <1>1 DEF Queued
<1>4. conn \in Injection(Fds, Conns)
  BY <1>1, <1>2 DEF Injection, IsInjective
<1>5. Fds = Conns /\ IsFiniteSet(Conns)
  <2>1. Clients \in Nat
    BY RoomsAssumption
  <2>2. Clients \in Int /\ 1 \in Int
    BY <2>1
  <2> QED
    BY <2>2, FS_Interval DEF Fds, Conns
<1>6. conn \in Surjection(Fds, Conns)
  BY <1>4, <1>5, FS_Injection
<1> QED
  BY <1>3, <1>6 DEF Surjection

\* accept() gives a waiting connection a descriptor and an empty client.
LEMMA AcceptKeepsInv ==
  ASSUME IndInv, Accept
  PROVE  IndInv'
<1> DEFINE c  == Min(Queued)
           fd == Min(Fds \ DOMAIN clients)
           cl == [conn |-> c, name |-> "", room |-> "", recv_buf |-> << >>, send_buf |-> << >>]
           new == [net[c] EXCEPT !.status = "open"]
<1>0. TypeOK /\ ConnsInv /\ LoopInv /\ SocketInv /\ MembersInv /\ FramesInv
  BY DEF IndInv
<1>1. /\ pc = "accept"
      /\ clients' = Put(clients, fd, cl)
      /\ net' = [net EXCEPT ![c] = new]
      /\ pc' = IF Queued = {c} THEN Turn(DOMAIN ready) ELSE "accept"
      /\ UNCHANGED <<at, dropping, ready, rooms, spare>>
  BY DEF Accept
<1>2. c \in Queued
  <2>1. Queued # {}
    BY <1>0, <1>1 DEF LoopInv
  <2>2. Queued \in SUBSET Nat
    BY DEF Queued, Conns
  <2> QED
    BY <2>1, <2>2, MinProperties
<1>3. fd \in Fds \ DOMAIN clients
  <2>1. Fds \ DOMAIN clients \in SUBSET Nat /\ Fds \ DOMAIN clients # {}
    BY <1>0, <1>2, DescriptorFree DEF Fds
  <2> QED
    BY <2>1, MinProperties
<1> HIDE DEF c, fd
<1>4. c \in Conns /\ net[c].status = "queued"
  BY <1>2 DEF Queued
<1>5. /\ clients \in ClientMap /\ net \in [Conns -> Connection]
      /\ net[c] \in Connection
  BY <1>0, <1>4 DEF TypeOK
<1>6. cl \in Client /\ cl.conn = c /\ cl.room = "" /\ cl.recv_buf = << >>
  <2>1. << >> \in Seq(Cells) /\ << >> \in Seq(Notes)
    OBVIOUS
  <2>2. "" \in Payloads
    BY RoomsAssumption DEF Payloads
  <2> QED
    BY <1>4, <2>1, <2>2 DEF Client
<1>7. new \in Connection /\ new.status = "open" /\ new.read = net[c].read /\ new.down = net[c].down
  BY <1>5 DEF Connection
<1> HIDE DEF cl, new
<1>8. /\ DOMAIN clients' = DOMAIN clients \cup {fd}
      /\ clients'[fd] = cl
      /\ \A g \in DOMAIN clients : g # fd /\ clients'[g] = clients[g]
  BY <1>1, <1>3 DEF Put
<1>9. net'[c] = new /\ \A d \in Conns \ {c} : net'[d] = net[d]
  BY <1>1, <1>4, <1>5
<1>10. TypeOK'
  <2>1. clients' \in ClientMap
    BY <1>1, <1>3, <1>5, <1>6, PutErase
  <2>2. net' \in [Conns -> Connection]
    BY <1>1, <1>5, <1>7
  <2>3. pc' \in {"poll", "accept", "serve", "decode", "flush", "dead"}
    BY <1>1 DEF Turn
  <2> QED
    BY <1>0, <1>1, <2>1, <2>2, <2>3 DEF TypeOK
<1>11. \A g \in DOMAIN clients : /\ clients[g].conn \in Conns \ {c}
                                 /\ net[clients[g].conn].status = "open"
  BY <1>0, <1>4, <1>5, ClientFields DEF ConnsInv
<1>12. ConnsInv'
  <2>1. ASSUME NEW g \in DOMAIN clients' PROVE net'[clients'[g].conn].status = "open"
    <3>1. CASE g = fd
      BY <1>6, <1>7, <1>8, <1>9, <3>1
    <3>2. CASE g \in DOMAIN clients
      BY <1>8, <1>9, <1>11, <3>2
    <3> QED
      BY <1>8, <3>1, <3>2
  <2>2. ASSUME NEW g \in DOMAIN clients', NEW other \in DOMAIN clients',
               clients'[other].conn = clients'[g].conn
        PROVE  other = g
    <3>1. CASE g \in DOMAIN clients /\ other \in DOMAIN clients
      BY <1>0, <1>8, <2>2, <3>1 DEF ConnsInv
    <3>2. CASE g = fd /\ other \in DOMAIN clients
      BY <1>6, <1>8, <1>11, <2>2, <3>2
    <3>3. CASE g \in DOMAIN clients /\ other = fd
      BY <1>6, <1>8, <1>11, <2>2, <3>3
    <3> QED
      BY <1>8, <3>1, <3>2, <3>3
  <2> QED
    BY <2>1, <2>2 DEF ConnsInv
<1>13. LoopInv'
  <2>1. Queued' = Queued \ {c}
    BY <1>4, <1>7, <1>9 DEF Queued
  <2> QED
    BY <1>0, <1>1, <1>2, <1>8, <2>1 DEF LoopInv, Turn
<1>14. SocketInv'
  BY <1>0, <1>4, <1>7, <1>9 DEF SocketInv
<1>15. MembersInv'
  <2>1. Agree(clients', rooms)
    <3> SUFFICES ASSUME NEW r \in RoomNames
                 PROVE  /\ r \in DOMAIN rooms => rooms[r] # {}
                        /\ {g \in DOMAIN clients' : clients'[g].room = r} = In(rooms, r)
      BY DEF Agree
    <3>1. /\ r \in DOMAIN rooms => rooms[r] # {}
          /\ {g \in DOMAIN clients : clients[g].room = r} = In(rooms, r)
      BY <1>0, <1>1 DEF MembersInv, Agree
    <3>2. r # ""
      BY RoomsAssumption
    <3> QED
      BY <1>6, <1>8, <3>1, <3>2
  <2> QED
    BY <1>1, <2>1 DEF MembersInv, Turn
<1>16. FramesInv'
  <2>1. Settled(cl.recv_buf)
    BY <1>6, EmptyIsSettled
  <2>2. \A g \in DOMAIN clients : Settled(clients[g].recv_buf)
    BY <1>0, <1>1 DEF FramesInv
  <2> QED
    BY <1>8, <2>1, <2>2 DEF FramesInv
<1> QED
  BY <1>10, <1>12, <1>13, <1>14, <1>15, <1>16 DEF IndInv

\* recv() moves cells from the kernel into the client's buffer.
LEMMA ReceiveKeepsInv ==
  ASSUME IndInv, NEW fd \in Fds, Receive(fd)
  PROVE  IndInv'
<1>0. TypeOK /\ ConnsInv /\ LoopInv /\ SocketInv /\ MembersInv /\ FramesInv
  BY DEF IndInv
<1>1. /\ pc = "serve" /\ fd \in DOMAIN ready /\ at' = fd
      /\ pc' \in {"decode", "flush"}
      /\ UNCHANGED <<ready, rooms, spare>>
  BY DEF Receive
<1>2. fd \in DOMAIN clients
  BY <1>0, <1>1 DEF LoopInv
<1>3. /\ clients \in ClientMap /\ net \in [Conns -> Connection]
      /\ Agree(clients, rooms)
      /\ \A g \in DOMAIN clients : Settled(clients[g].recv_buf)
  BY <1>0, <1>1 DEF TypeOK, MembersInv, FramesInv
<1>4. rooms \in RoomMap
  BY <1>0 DEF TypeOK
<1>5. CASE "in" \notin ready[fd]
  <2>1. pc' = "flush" /\ UNCHANGED <<clients, net, dropping>>
    BY <1>5 DEF Receive
  <2>2. TypeOK'
    BY <1>0, <1>1, <2>1 DEF TypeOK
  <2>3. ConnsInv' /\ SocketInv'
    BY <1>0, <2>1 DEF ConnsInv, SocketInv
  <2>4. LoopInv'
    BY <1>0, <1>1, <2>1 DEF LoopInv
  <2>5. MembersInv'
    BY <1>1, <1>2, <1>3, <1>4, <2>1, AgreeWithoutExcuse DEF MembersInv
  <2>6. FramesInv'
    BY <1>3, <2>1 DEF FramesInv
  <2> QED
    BY <2>2, <2>3, <2>4, <2>5, <2>6 DEF IndInv
<1>6. CASE "in" \in ready[fd]
  <2> DEFINE c == clients[fd].conn
             cl == [clients[fd] EXCEPT !.recv_buf = @ \o Of(fd).up]
             new == [net[c] EXCEPT !.up = << >>]
  <2>1. /\ clients' = [clients EXCEPT ![fd] = cl]
        /\ net' = [net EXCEPT ![c] = new]
        /\ dropping' = (Of(fd).end # "no")
        /\ pc' = "decode"
    BY <1>3, <1>6 DEF Receive
  <2>2. clients[fd] \in Client /\ c \in Conns /\ clients[fd].recv_buf \in Seq(Cells)
    BY <1>2, <1>3, ClientFields
  <2>3. net[c] \in Connection /\ net[c].up \in Seq(Cells)
    BY <1>0, <2>2, ConnectionFields
  <2>4. clients[fd].recv_buf \o net[c].up \in Seq(Cells)
    BY <2>2, <2>3
  <2>5. cl \in Client /\ cl.conn = c /\ cl.room = clients[fd].room
    BY <2>2, <2>4 DEF Client, Of
  <2>6. /\ new \in Connection /\ new.status = net[c].status
        /\ new.read = net[c].read /\ new.down = net[c].down
    <3>1. << >> \in Seq(Cells)
      OBVIOUS
    <3> QED
      BY <2>3, <3>1 DEF Connection
  <2> HIDE DEF c, cl, new
  <2>7. /\ DOMAIN clients' = DOMAIN clients
        /\ clients'[fd] = cl
        /\ \A g \in DOMAIN clients \ {fd} : clients'[g] = clients[g]
        /\ clients' \in ClientMap
    BY <1>2, <1>3, <2>1, <2>5, MapTypes
  <2>8. net' \in [Conns -> Connection] /\ net'[c] = new /\ \A d \in Conns \ {c} : net'[d] = net[d]
    BY <1>3, <2>1, <2>2, <2>6
  <2>9. TypeOK'
    <3>1. dropping' \in BOOLEAN
      BY <2>1
    <3> QED
      BY <1>0, <1>1, <2>7, <2>8, <3>1 DEF TypeOK
  <2>10. /\ \A g \in DOMAIN clients : clients'[g].conn = clients[g].conn
         /\ \A g \in DOMAIN clients : clients'[g].room = clients[g].room
    BY <2>5, <2>7 DEF c
  <2>11. /\ \A d \in Conns : net'[d].status = net[d].status
         /\ \A d \in Conns : net'[d].read = net[d].read /\ net'[d].down = net[d].down
    BY <2>6, <2>8
  <2>12. ConnsInv'
    <3>1. \A g \in DOMAIN clients : clients[g].conn \in Conns
      BY <1>3, ClientFields
    <3> QED
      BY <1>0, <2>7, <2>10, <2>11, <3>1 DEF ConnsInv
  <2>13. LoopInv'
    BY <1>0, <1>1, <2>1, <2>7 DEF LoopInv
  <2>14. SocketInv'
    BY <1>0, <2>11 DEF SocketInv
  <2>15. MembersInv'
    <3>1. Agree(clients', rooms')
      BY <1>1, <1>3, <2>7, <2>10 DEF Agree
    <3> QED
      BY <2>1, <3>1 DEF MembersInv
  <2>16. FramesInv'
    BY <1>1, <1>3, <2>1, <2>7 DEF FramesInv
  <2> QED
    BY <2>9, <2>12, <2>13, <2>14, <2>15, <2>16 DEF IndInv
<1> QED
  BY <1>5, <1>6

\* Decoding leaves nothing but a settled buffer behind, or a client on its way
\* out; processing a frame keeps the maps as ProcessAgrees says.
LEMMA DecodeKeepsInv ==
  ASSUME IndInv, Decode
  PROVE  IndInv'
<1> DEFINE buf == clients[at].recv_buf
<1>0. TypeOK /\ ConnsInv /\ LoopInv /\ SocketInv /\ MembersInv /\ FramesInv
  BY DEF IndInv
<1>1. pc = "decode" /\ UNCHANGED <<at, ready, net, spare>>
  BY DEF Decode
<1>2. at \in DOMAIN clients /\ at \in DOMAIN ready
  BY <1>0, <1>1 DEF LoopInv
<1>3. /\ clients \in ClientMap /\ rooms \in RoomMap /\ dropping \in BOOLEAN
      /\ Agree(clients, rooms)
      /\ \A g \in DOMAIN clients \ {at} : Settled(clients[g].recv_buf)
  BY <1>0, <1>1 DEF TypeOK, MembersInv, FramesInv
<1>4. clients[at] \in Client /\ buf \in Seq(Cells)
  BY <1>2, <1>3, ClientFields
<1>5. CASE Broken(buf) \/ ~ Whole(buf)
  <2>1. /\ dropping' = (dropping \/ Broken(buf))
        /\ pc' = "flush"
        /\ UNCHANGED <<clients, rooms>>
    BY <1>5 DEF Decode
  <2>2. TypeOK'
    BY <1>0, <1>1, <2>1 DEF TypeOK
  <2>3. ConnsInv' /\ SocketInv'
    BY <1>0, <1>1, <2>1 DEF ConnsInv, SocketInv
  <2>4. LoopInv'
    BY <1>0, <1>1, <1>2, <2>1 DEF LoopInv
  <2>5. MembersInv'
    BY <1>1, <1>2, <1>3, <2>1, AgreeWithoutExcuse DEF MembersInv
  <2>6. FramesInv'
    <3>1. dropping' \/ Settled(buf)
      <4>1. CASE Broken(buf)
        BY <2>1, <4>1
      <4>2. CASE ~ Broken(buf)
        BY <1>4, <1>5, <4>2, LenProperties DEF Settled, Whole
      <4> QED
        BY <4>1, <4>2
    <3> QED
      BY <1>1, <1>3, <2>1, <3>1 DEF FramesInv
  <2> QED
    BY <2>2, <2>3, <2>4, <2>5, <2>6 DEF IndInv
<1>6. CASE ~ Broken(buf) /\ Whole(buf)
  <2> DEFINE left == SubSeq(buf, 3, Len(buf))
             cl == [clients[at] EXCEPT !.recv_buf = left]
             cmap == [clients EXCEPT ![at] = cl]
             m == [Maps EXCEPT !.clients = cmap]
             done == ProcessMessage(m, at, buf[1].frame)
  <2>1. [Maps EXCEPT !.clients[at].recv_buf = left] = m
    <3>1. Maps \in TwoMaps /\ Maps.clients = clients
      BY SMTT(30), <1>3 DEF Maps, TwoMaps
    <3> QED
      BY <1>4, <3>1 DEF TwoMaps, Client
  <2>2. /\ clients' = done.clients
        /\ rooms' = done.rooms
        /\ dropping' = (dropping \/ done.threw)
        /\ pc' = IF done.threw THEN "flush" ELSE "decode"
    BY <1>6, <2>1 DEF Decode
  <2>3. left \in Seq(Cells) /\ buf[1] \in Cells
    <3>1. Len(buf) \in Nat /\ Len(buf) > 1
      BY <1>4, <1>6, LenProperties DEF Whole
    <3>2. 1 \in 1 .. Len(buf)
      BY <3>1
    <3>3. buf[1] \in Cells
      BY <1>4, <3>2, ElementOfSeq
    <3>4. left \in Seq(Cells)
      BY <1>4, <3>1
    <3> QED
      BY <3>3, <3>4
  <2>4. buf[1].frame \in Frames
    BY <2>3 DEF Cells
  <2>5. cl \in Client /\ cl.conn = clients[at].conn /\ cl.room = clients[at].room
    BY <1>4, <2>3 DEF Client
  <2> HIDE DEF left, cl
  <2>6. /\ DOMAIN cmap = DOMAIN clients
        /\ cmap[at] = cl
        /\ \A g \in DOMAIN clients \ {at} : cmap[g] = clients[g]
        /\ cmap \in ClientMap
    BY <1>2, <1>3, <2>5, MapTypes
  <2> HIDE DEF cmap
  <2>7. m \in TwoMaps /\ m.clients = cmap /\ m.rooms = rooms /\ ~m.threw
    <3>1. Maps \in TwoMaps /\ Maps.rooms = rooms /\ Maps.threw = FALSE
      BY <1>3 DEF Maps, TwoMaps
    <3> QED
      BY <2>6, <3>1 DEF TwoMaps
  <2>8. \A g \in DOMAIN clients : cmap[g].room = clients[g].room /\ cmap[g].conn = clients[g].conn
    BY <2>5, <2>6
  <2>9. Agree(cmap, rooms)
    BY <1>3, <2>6, <2>8 DEF Agree
  <2> HIDE DEF m, buf
  <2>10. /\ SameClients(m, done)
         /\ AgreeBut(done.clients, done.rooms, at)
         /\ ~done.threw => Agree(done.clients, done.rooms)
    BY <1>2, <2>4, <2>6, <2>7, <2>9, ProcessAgrees
  <2> HIDE DEF done
  <2>11. /\ done.clients \in ClientMap /\ done.rooms \in RoomMap /\ done.threw \in BOOLEAN
         /\ DOMAIN done.clients = DOMAIN clients
    BY <2>6, <2>7, <2>10 DEF SameClients, TwoMaps
  <2>12. /\ \A g \in DOMAIN clients : clients'[g].conn = clients[g].conn
         /\ \A g \in DOMAIN clients \ {at} : clients'[g].recv_buf = clients[g].recv_buf
    BY <2>2, <2>6, <2>7, <2>8, <2>10 DEF SameClients
  <2>13. TypeOK'
    BY <1>0, <1>1, <1>3, <2>2, <2>11 DEF TypeOK
  <2>14. ConnsInv'
    BY <1>0, <1>1, <2>2, <2>11, <2>12 DEF ConnsInv
  <2>15. LoopInv'
    BY <1>0, <1>1, <1>2, <2>2, <2>11 DEF LoopInv
  <2>16. SocketInv'
    BY <1>0, <1>1 DEF SocketInv
  <2>17. MembersInv'
    BY <1>1, <2>2, <2>10, <2>11 DEF MembersInv
  <2>18. FramesInv'
    BY <1>1, <1>3, <2>2, <2>11, <2>12 DEF FramesInv
  <2> QED
    BY <2>13, <2>14, <2>15, <2>16, <2>17, <2>18 DEF IndInv
<1> QED
  BY <1>5, <1>6

\* What is sent fits the socket; what is kept is the rest of what was queued.
LEMMA FlushedFits ==
  ASSUME IndInv, pc = "flush"
  PROVE  /\ Flushed.sent \in Seq(Notes)
         /\ Flushed.kept \in Seq(Notes)
         /\ Of(at).down \o Flushed.sent \in Seq(Notes)
         /\ Of(at).read <= Len(Of(at).down \o Flushed.sent)
         /\ Len(Of(at).down \o Flushed.sent) <= Of(at).read + SocketRoom
<1> DEFINE c == clients[at].conn
           n == IF "out" \in ready[at] /\ Of(at).end # "reset" THEN Free(Of(at)) ELSE 0
           s == clients[at].send_buf
           k == Min({n, Len(s)})
<1>1. at \in DOMAIN clients /\ clients \in ClientMap
  BY DEF IndInv, LoopInv, TypeOK
<1>2. s \in Seq(Notes) /\ Len(s) \in Nat /\ c \in Conns
  BY <1>1, ClientFields, LenProperties
<1>3. Of(at) = net[c] /\ net[c].status = "open"
  BY <1>1 DEF Of, IndInv, ConnsInv
<1>4. /\ net[c].down \in Seq(Notes) /\ net[c].read \in Nat
      /\ Len(net[c].down) \in Nat
  BY <1>2, ConnectionFields DEF IndInv
<1>5. /\ net[c].read <= Len(net[c].down)
      /\ Len(net[c].down) <= net[c].read + SocketRoom
  BY <1>2, <1>3 DEF IndInv, SocketInv
<1>6. SocketRoom \in Nat
  BY RoomsAssumption
<1>7. n \in Nat /\ n <= SocketRoom - (Len(net[c].down) - net[c].read)
  <2>1. Free(Of(at)) = SocketRoom - (Len(net[c].down) - net[c].read)
    BY <1>3 DEF Free
  <2>2. /\ SocketRoom - (Len(net[c].down) - net[c].read) \in Nat
        /\ 0 <= SocketRoom - (Len(net[c].down) - net[c].read)
    <3>1. \A room, down, read \in Nat : read <= down /\ down <= read + room =>
                                        room - (down - read) \in Nat
      OBVIOUS
    <3> QED
      BY SMTT(30), <1>4, <1>5, <1>6, <3>1
  <2>3. n = Free(Of(at)) \/ n = 0
    OBVIOUS
  <2> HIDE DEF n
  <2>4. CASE n = Free(Of(at))
    BY <2>1, <2>2, <2>4
  <2>5. CASE n = 0
    BY <2>2, <2>5
  <2> QED
    BY <2>3, <2>4, <2>5
<1>8. Flushed = [sent |-> SubSeq(s, 1, k), kept |-> SubSeq(s, n + 1, Len(s))]
  BY DEF Flushed
<1> HIDE DEF c, n, s
<1>9. k \in Nat /\ k <= n /\ k <= Len(s)
  <2>1. {n, Len(s)} \in SUBSET Nat /\ {n, Len(s)} # {}
    BY <1>2, <1>7
  <2>2. k \in {n, Len(s)} /\ \A y \in {n, Len(s)} : k <= y
    BY <2>1, MinProperties
  <2> QED
    BY <1>2, <1>7, <2>2
<1> HIDE DEF k
<1>10. SubSeq(s, 1, k) \in Seq(Notes) /\ Len(SubSeq(s, 1, k)) = k
  BY <1>2, <1>9
<1>11. SubSeq(s, n + 1, Len(s)) \in Seq(Notes)
  BY <1>2, <1>7
<1>12. /\ net[c].down \o SubSeq(s, 1, k) \in Seq(Notes)
       /\ Len(net[c].down \o SubSeq(s, 1, k)) = Len(net[c].down) + k
  BY <1>4, <1>10
<1>13. Len(net[c].down) + k <= net[c].read + SocketRoom
  BY SMTT(30), <1>4, <1>6, <1>7, <1>9
<1>14. net[c].read <= Len(net[c].down) + k
  BY <1>4, <1>5, <1>9
<1> QED
  BY <1>3, <1>8, <1>10, <1>11, <1>12, <1>13, <1>14

\* The descriptor served is served; the loop goes on with the next.
LEMMA ServiceEnds ==
  ASSUME TypeOK, at \in DOMAIN ready, EndService
  PROVE  /\ at' = NoFd /\ dropping' = FALSE /\ ready' \in ReadyMap
         /\ DOMAIN ready' = DOMAIN ready \ {at}
         /\ pc' \in {"poll", "serve"}
BY PutErase DEF TypeOK, EndService, Erase, Turn

\* send() moves notes from the client's buffer into its socket.
LEMMA KeepKeepsInv ==
  ASSUME IndInv, Keep
  PROVE  IndInv'
<1> DEFINE c == clients[at].conn
           cl == [clients[at] EXCEPT !.send_buf = Flushed.kept]
           new == [net[c] EXCEPT !.down = @ \o Flushed.sent]
<1>0. TypeOK /\ ConnsInv /\ LoopInv /\ SocketInv /\ MembersInv /\ FramesInv
  BY DEF IndInv
<1>1. /\ pc = "flush" /\ ~ Failed /\ EndService /\ UNCHANGED <<rooms, spare>>
      /\ net' = [net EXCEPT ![c] = new]
  BY DEF Keep
<1>2. at \in DOMAIN clients /\ at \in DOMAIN ready /\ DOMAIN ready \subseteq DOMAIN clients
  BY <1>0, <1>1 DEF LoopInv
<1>3. /\ clients \in ClientMap /\ net \in [Conns -> Connection]
      /\ ~dropping /\ Agree(clients, rooms)
      /\ \A g \in DOMAIN clients : Settled(clients[g].recv_buf)
  BY <1>0, <1>1 DEF TypeOK, MembersInv, FramesInv, Failed
<1>4. clients' = [clients EXCEPT ![at] = cl]
  BY <1>3 DEF Keep
<1>5. clients[at] \in Client /\ c \in Conns
  BY <1>2, <1>3, ClientFields
<1>6. net[c] \in Connection /\ Of(at) = net[c]
  BY <1>3, <1>5 DEF Of
<1>7. /\ Flushed.kept \in Seq(Notes)
      /\ net[c].down \o Flushed.sent \in Seq(Notes)
      /\ net[c].read <= Len(net[c].down \o Flushed.sent)
      /\ Len(net[c].down \o Flushed.sent) <= net[c].read + SocketRoom
  BY <1>1, <1>6, FlushedFits
<1>8. /\ cl \in Client /\ cl.conn = c /\ cl.room = clients[at].room
      /\ cl.recv_buf = clients[at].recv_buf
  BY <1>5, <1>7 DEF Client
<1>9. /\ new \in Connection /\ new.status = net[c].status /\ new.read = net[c].read
      /\ new.down = net[c].down \o Flushed.sent
  BY <1>6, <1>7 DEF Connection
<1> HIDE DEF c, cl, new
<1>10. /\ DOMAIN clients' = DOMAIN clients
       /\ clients'[at] = cl
       /\ \A g \in DOMAIN clients \ {at} : clients'[g] = clients[g]
       /\ clients' \in ClientMap
  BY <1>2, <1>3, <1>4, <1>8, MapTypes
<1>11. net' \in [Conns -> Connection] /\ net'[c] = new /\ \A d \in Conns \ {c} : net'[d] = net[d]
  BY <1>1, <1>3, <1>5, <1>9
<1>12. \A g \in DOMAIN clients : /\ clients'[g].conn = clients[g].conn
                                 /\ clients'[g].room = clients[g].room
                                 /\ clients'[g].recv_buf = clients[g].recv_buf
  BY <1>8, <1>10 DEF c
<1>13. \A d \in Conns : net'[d].status = net[d].status
  BY <1>9, <1>11
<1>14. /\ at' = NoFd /\ dropping' = FALSE /\ ready' \in ReadyMap
       /\ DOMAIN ready' = DOMAIN ready \ {at}
       /\ pc' \in {"poll", "serve"}
  BY <1>0, <1>1, <1>2, ServiceEnds
<1>15. TypeOK'
  BY <1>0, <1>1, <1>10, <1>11, <1>14 DEF TypeOK
<1>16. ConnsInv'
  <2>1. \A g \in DOMAIN clients : clients[g].conn \in Conns
    BY <1>3, ClientFields
  <2> QED
    BY <1>0, <1>10, <1>12, <1>13, <2>1 DEF ConnsInv
<1>17. LoopInv'
  BY <1>2, <1>10, <1>14 DEF LoopInv
<1>18. SocketInv'
  BY <1>0, <1>7, <1>9, <1>11 DEF SocketInv
<1>19. MembersInv'
  <2>1. Agree(clients', rooms')
    BY <1>1, <1>3, <1>10, <1>12 DEF Agree
  <2> QED
    BY <1>14, <2>1 DEF MembersInv
<1>20. FramesInv'
  BY <1>3, <1>10, <1>12, <1>14 DEF FramesInv
<1> QED
  BY <1>15, <1>16, <1>17, <1>18, <1>19, <1>20 DEF IndInv

\* A client leaves its room before it is forgotten; or the program ends.
LEMMA DropKeepsInv ==
  ASSUME IndInv, Drop
  PROVE  IndInv'
<1> DEFINE c == clients[at].conn
           left == LeaveRoom(Maps, at)
           sent == Of(at).down \o Flushed.sent
           new == [NewConnection EXCEPT !.status = "closed",
                                        !.down = @ \o Of(at).down \o Flushed.sent]
<1>0. TypeOK /\ ConnsInv /\ LoopInv /\ SocketInv /\ MembersInv /\ FramesInv
  BY DEF IndInv
<1>1. /\ pc = "flush" /\ UNCHANGED spare
      /\ rooms' = left.rooms
      /\ left.threw => pc' = "dead" /\ UNCHANGED <<at, dropping, ready, clients, net>>
      /\ ~left.threw => /\ clients' = Erase(left.clients, at)
                        /\ net' = [net EXCEPT ![c] = new]
                        /\ EndService
  BY DEF Drop
<1>2. at \in DOMAIN clients /\ at \in DOMAIN ready /\ DOMAIN ready \subseteq DOMAIN clients
  BY <1>0, <1>1 DEF LoopInv
<1>3. /\ clients \in ClientMap /\ rooms \in RoomMap /\ net \in [Conns -> Connection]
      /\ AgreeBut(clients, rooms, at)
      /\ \A g \in DOMAIN clients \ {at} : Settled(clients[g].recv_buf)
  BY <1>0, <1>1 DEF TypeOK, MembersInv, FramesInv
<1>4. Maps \in TwoMaps /\ Maps.clients = clients /\ Maps.rooms = rooms /\ ~Maps.threw
  BY <1>3 DEF Maps, TwoMaps
<1>5. /\ SameClients(Maps, left)
      /\ ~left.threw => Agree(left.clients, left.rooms) /\ left.clients[at].room = ""
      /\ left.rooms \in RoomMap
  BY <1>2, <1>3, <1>4, LeaveRoomAgrees
<1> HIDE DEF left
<1>6. /\ left.clients \in ClientMap /\ left.threw \in BOOLEAN
      /\ DOMAIN left.clients = DOMAIN clients
      /\ \A g \in DOMAIN clients : /\ left.clients[g].conn = clients[g].conn
                                   /\ left.clients[g].recv_buf = clients[g].recv_buf
  BY <1>4, <1>5 DEF SameClients, TwoMaps
<1>7. CASE left.threw
  <2>1. TypeOK'
    BY <1>0, <1>1, <1>5, <1>7 DEF TypeOK
  <2>2. ConnsInv' /\ SocketInv'
    BY <1>0, <1>1, <1>7 DEF ConnsInv, SocketInv
  <2>3. LoopInv'
    BY <1>0, <1>1, <1>7 DEF LoopInv
  <2>4. MembersInv'
    BY <1>1, <1>7 DEF MembersInv
  <2>5. FramesInv'
    BY <1>1, <1>3, <1>7 DEF FramesInv
  <2> QED
    BY <2>1, <2>2, <2>3, <2>4, <2>5 DEF IndInv
<1>8. CASE ~left.threw
  <2>1. /\ DOMAIN clients' = DOMAIN clients \ {at}
        /\ \A g \in DOMAIN clients \ {at} : clients'[g] = left.clients[g]
        /\ clients' \in ClientMap
    <3>1. clients' = Erase(left.clients, at)
      BY <1>1, <1>8
    <3>2. clients' \in ClientMap
      BY <1>6, <3>1, PutErase
    <3> QED
      BY <1>6, <3>1, <3>2 DEF Erase
  <2>2. c \in Conns /\ net[c].status = "open"
    BY <1>0, <1>2, <1>3, ClientFields DEF ConnsInv
  <2>3. new \in Connection /\ new.status = "closed"
    <3>1. sent \in Seq(Notes)
      BY <1>1, FlushedFits
    <3>2. << >> \o Of(at).down \o Flushed.sent \in Seq(Notes)
      <4>1. Of(at).down \in Seq(Notes) /\ Flushed.sent \in Seq(Notes)
        BY <1>1, <2>2, ConnectionFields, FlushedFits DEF IndInv, Of
      <4> QED
        BY <4>1
    <3>3. << >> \in Seq(Cells)
      OBVIOUS
    <3> QED
      BY <3>2, <3>3 DEF NewConnection, Connection
  <2> HIDE DEF c, new
  <2>4. net' \in [Conns -> Connection] /\ net'[c] = new /\ \A d \in Conns \ {c} : net'[d] = net[d]
    BY <1>1, <1>3, <1>8, <2>2, <2>3
  <2>5. /\ at' = NoFd /\ dropping' = FALSE /\ ready' \in ReadyMap
        /\ DOMAIN ready' = DOMAIN ready \ {at}
        /\ pc' \in {"poll", "serve"}
    BY <1>0, <1>1, <1>2, <1>8, ServiceEnds
  <2>6. \A g \in DOMAIN clients' : /\ clients'[g].conn = clients[g].conn
                                   /\ clients'[g].recv_buf = clients[g].recv_buf
                                   /\ clients[g].conn \in Conns \ {c}
    BY <1>0, <1>2, <1>3, <1>6, <2>1, ClientFields DEF ConnsInv, c
  <2>7. TypeOK'
    BY <1>0, <1>1, <1>5, <2>1, <2>4, <2>5 DEF TypeOK
  <2>8. ConnsInv'
    BY <1>0, <2>1, <2>4, <2>6 DEF ConnsInv
  <2>9. LoopInv'
    BY <1>2, <2>1, <2>5 DEF LoopInv
  <2>10. SocketInv'
    BY <1>0, <2>3, <2>4 DEF SocketInv
  <2>11. MembersInv'
    <3> SUFFICES ASSUME NEW r \in RoomNames
                 PROVE  /\ r \in DOMAIN rooms' => rooms'[r] # {}
                        /\ {g \in DOMAIN clients' : clients'[g].room = r} = In(rooms', r)
      BY <2>5 DEF MembersInv, Agree
    <3>1. /\ r \in DOMAIN rooms' => rooms'[r] # {}
          /\ {g \in DOMAIN left.clients : left.clients[g].room = r} = In(rooms', r)
      BY <1>1, <1>5, <1>8 DEF Agree
    <3>2. left.clients[at].room # r
      BY <1>5, <1>8, RoomsAssumption
    <3> QED
      BY <1>6, <2>1, <3>1, <3>2
  <2>12. FramesInv'
    BY <1>3, <2>1, <2>6 DEF FramesInv
  <2> QED
    BY <2>7, <2>8, <2>9, <2>10, <2>11, <2>12 DEF IndInv
<1> QED
  BY <1>7, <1>8

-----------------------------------------------------------------------------
(* Theorems.                                                               *)

\* A step that changes nothing keeps the invariant.
LEMMA StutterKeepsInv ==
  ASSUME IndInv, UNCHANGED vars
  PROVE  IndInv'
<1> USE DEF IndInv, vars, server
<1>1. TypeOK' /\ ConnsInv' /\ SocketInv'
  BY DEF TypeOK, ConnsInv, SocketInv
<1>2. LoopInv'
  BY DEF LoopInv, Queued
<1>3. MembersInv' /\ FramesInv'
  BY DEF MembersInv, FramesInv
<1> QED
  BY <1>1, <1>2, <1>3

\* The inductive invariant holds in every state of the server, for any number
\* of clients, whatever they send and however they end.
THEOREM Invariance == Spec => []IndInv
<1>1. IndInv /\ [Next]_vars => IndInv'
  <2> SUFFICES ASSUME IndInv, [Next]_vars PROVE IndInv'
    OBVIOUS
  <2>1. ASSUME NEW c \in Conns,
               \/ Connect(c)
               \/ \E f \in ClientFrames[c] : Write(c, f) \/ WriteFirst(c, f)
               \/ WriteRest(c)
               \/ Read(c)
               \/ HangUp(c)
               \/ Reset(c)
        PROVE  IndInv'
    BY <2>1, ClientsAreOnlyPeers, PeersKeepInv DEF IndInv
  <2>2. CASE Poll
    BY <2>2, PollKeepsInv
  <2>3. CASE Accept
    BY <2>3, AcceptKeepsInv
  <2>4. ASSUME NEW fd \in Fds, Receive(fd) PROVE IndInv'
    BY <2>4, ReceiveKeepsInv
  <2>5. CASE Decode
    BY <2>5, DecodeKeepsInv
  <2>6. CASE Keep
    BY <2>6, KeepKeepsInv
  <2>7. CASE Drop
    BY <2>7, DropKeepsInv
  <2>8. CASE UNCHANGED vars
    BY <2>8, StutterKeepsInv
  <2> QED
    BY <2>1, <2>2, <2>3, <2>4, <2>5, <2>6, <2>7, <2>8 DEF Next, Loop
<1> QED
  BY <1>1, InitInv, PTL DEF Spec

\* The two records of who is in a room, rooms[r] and every client's room, agree
\* whenever no exception is being handled, also after replies and announcements
\* that did not fit a frame have thrown out of join_room() or leave_room().
THEOREM RoomsAgree == Spec => []MembersAgree
<1>1. IndInv => MembersAgree
  BY DEF IndInv, MembersInv, Agree, In, MembersAgree
<1> QED
  BY <1>1, Invariance, PTL

\* Whenever the loop is in poll(), no client's buffer holds a whole or a broken
\* frame: the decoding loop never stops in front of one it could process.
THEOREM NothingLeftBehind == Spec => []NoFrameLeftBehind
<1>1. IndInv => NoFrameLeftBehind
  BY DEF IndInv, FramesInv, Settled, NoFrameLeftBehind
<1> QED
  BY <1>1, Invariance, PTL

-----------------------------------------------------------------------------
(* The refinement: what the handlers tell whom.                            *)
(* A handler is taken apart in three: where it places the client, whom it  *)
(* tells a public note, and whether it throws.                             *)

\* The cells of what is sent, and the rooms a client can be in.
SentCells == [frame : Sent, part : {"first", "rest"}]
Where == RoomNames \cup {""}

\* What of a client's queue the chat with rooms is about.
Pub(cmap, fd) == Only(cmap[fd].send_buf, Public)

\* Each of who is told the note, and nobody else anything public.
Tells(m, e, who, note) ==
  \A g \in DOMAIN m.clients :
    Pub(e.clients, g) = IF g \in who THEN Append(Pub(m.clients, g), note) ELSE Pub(m.clients, g)

\* What the constants say of the frames.
LEMMA SentFacts ==
  ASSUME NEW f \in Sent
  PROVE  /\ f \in Frames /\ f.payload \in Payloads
         /\ f.type = "Hello" => f.payload \in GivenNames
         /\ f.type = "Join" => f.payload \in Where
<1>1. PICK c \in Conns : f \in ClientFrames[c]
  BY DEF Sent
<1>2. f \in Frames
  BY <1>1, RoomsAssumption
<1>3. f.payload \in Payloads
  BY <1>2 DEF Frames, Payloads
<1>4. f.type = "Join" => f.payload \in Where
  BY <1>1, RoomsAssumption DEF Where
<1>5. f.type = "Hello" => f.payload \in GivenNames
  BY DEF GivenNames
<1> QED
  BY <1>2, <1>3, <1>4, <1>5

\* ... and of the names of rooms.
LEMMA WordsFacts ==
  /\ RoomNames \subseteq Payloads /\ "" \in Payloads /\ "" \notin RoomNames
  /\ "" \in GivenNames /\ "closed" \notin Where
BY RoomsAssumption DEF GivenNames, Where, Payloads

\* What is public: every note but replies and what has no words.
LEMMA PublicFacts ==
  /\ Public \subseteq Notes
  /\ \A n \in Notes : n \in Public <=> n.kind # "reply" /\ n.about # ""
BY RoomsAssumption DEF Public, Notes, Payloads

\* enqueue_frame() tells its clients a public note, unless something was or is
\* thrown.
LEMMA EnqueueTells ==
  ASSUME NEW m \in TwoMaps, NEW fds, NEW words, NEW note \in Notes, NEW e,
         e = Enqueue(m, fds, words, note)
  PROVE  /\ Tells(m, e, IF note \in Public /\ ~ m.threw /\ ~ TooLong(words) THEN fds ELSE {}, note)
         /\ e.threw => m.threw \/ TooLong(words)
<1> DEFINE told == [fd \in DOMAIN m.clients |->
                      IF fd \in fds THEN [m.clients[fd] EXCEPT !.send_buf = Append(@, note)]
                                     ELSE m.clients[fd]]
<1>1. m.clients \in ClientMap /\ m.rooms \in RoomMap /\ m.threw \in BOOLEAN
  BY DEF TwoMaps
<1>2. CASE fds = {} \/ m.threw
  BY <1>2 DEF Enqueue, Tells
<1>3. CASE ~(fds = {} \/ m.threw) /\ TooLong(words)
  <2>1. e = [m EXCEPT !.threw = TRUE]
    BY <1>3 DEF Enqueue
  <2>2. e.clients = m.clients
    BY <2>1 DEF TwoMaps
  <2> QED
    BY <1>3, <2>2 DEF Tells
<1>4. CASE ~(fds = {} \/ m.threw) /\ ~TooLong(words)
  <2>1. e = [m EXCEPT !.clients = told]
    BY <1>4 DEF Enqueue
  <2>2. e.clients = told /\ e.threw = m.threw
    BY <2>1 DEF TwoMaps
  <2>3. ASSUME NEW g \in DOMAIN m.clients
        PROVE  Pub(told, g) = IF g \in fds /\ note \in Public THEN Append(Pub(m.clients, g), note)
                              ELSE Pub(m.clients, g)
    <3> DEFINE q == m.clients[g].send_buf
    <3>1. m.clients[g] \in Client /\ q \in Seq(Notes)
      BY <1>1, ClientFields
    <3>2. told[g].send_buf = IF g \in fds THEN Append(q, note) ELSE q
      <4>1. [m.clients[g] EXCEPT !.send_buf = Append(@, note)].send_buf = Append(q, note)
        BY <3>1 DEF Client
      <4>2. told[g] = IF g \in fds THEN [m.clients[g] EXCEPT !.send_buf = Append(@, note)]
                      ELSE m.clients[g]
        OBVIOUS
      <4> QED
        BY <4>1, <4>2
    <3>3. Only(Append(q, note), Public) = IF note \in Public THEN Append(Only(q, Public), note)
                                          ELSE Only(q, Public)
      <4>1. q \in Seq(Notes)
        BY <3>1
      <4> HIDE DEF q
      <4> QED
        BY <4>1, OnlyAppend
    <3> HIDE DEF told
    <3> QED
      BY <3>2, <3>3 DEF Pub
  <2> HIDE DEF told
  <2> QED
    BY <1>4, <2>2, <2>3 DEF Tells
<1> QED
  BY <1>2, <1>3, <1>4

\* A reply is nothing the chat promises.
LEMMA ReplyTells ==
  ASSUME NEW m \in TwoMaps, NEW fd \in DOMAIN m.clients, NEW words, NEW e, e = Reply(m, fd, words),
         NEW note
  PROVE  /\ Tells(m, e, {}, note)
         /\ e.threw => m.threw \/ TooLong(words)
<1> DEFINE reply == [kind |-> "reply", by |-> m.clients[fd].conn, about |-> ""]
<1>1. m.clients[fd].conn \in Conns /\ "" \in Payloads
  BY ClientFields, WordsFacts DEF TwoMaps
<1>2. reply \in Notes /\ reply \notin Public
  <2>1. reply \in Notes
    BY <1>1 DEF Notes
  <2> QED
    BY <2>1, PublicFacts
<1>3. e = Enqueue(m, {fd}, words, reply)
  BY DEF Reply
<1> HIDE DEF reply
<1>4. Tells(m, e, {}, reply) /\ (e.threw => m.threw \/ TooLong(words))
  BY <1>2, <1>3, EnqueueTells
<1> QED
  BY <1>4 DEF Tells

\* What is said in a room everybody there but the speaker is told.
LEMMA BroadcastTells ==
  ASSUME NEW m \in TwoMaps, NEW fd \in DOMAIN m.clients, NEW room,
         NEW kind \in {"entered", "left", "message"}, NEW about \in Payloads,
         NEW e, e = BroadcastRoom(m, room, fd, kind, about),
         NEW fits, fits <=> ~ m.threw /\ ~ TooLong(<<m.clients[fd].name, about>>)
  PROVE  /\ Tells(m, e, IF fits /\ about # "" THEN In(m.rooms, room) \ {fd} ELSE {},
                  [kind |-> kind, by |-> m.clients[fd].conn, about |-> about])
         /\ e.threw => ~ fits
<1> DEFINE note == [kind |-> kind, by |-> m.clients[fd].conn, about |-> about]
           words == <<m.clients[fd].name, about>>
           fds == (In(m.rooms, room) \ {fd}) \cap DOMAIN m.clients
<1>1. m.clients[fd].conn \in Conns
  BY ClientFields DEF TwoMaps
<1>2. note \in Notes /\ (note \in Public <=> about # "")
  <2>1. note \in Notes
    BY <1>1 DEF Notes
  <2> QED
    BY <2>1, PublicFacts
<1>3. e = Enqueue(m, fds, words, note)
  BY DEF BroadcastRoom, In
<1> HIDE DEF note, words
<1>4. /\ Tells(m, e, IF note \in Public /\ ~ m.threw /\ ~ TooLong(words) THEN fds ELSE {}, note)
      /\ e.threw => m.threw \/ TooLong(words)
  BY <1>2, <1>3, EnqueueTells
<1>5. Tells(m, e, IF fits /\ about # "" THEN In(m.rooms, room) \ {fd} ELSE {}, note)
  <2>1. CASE fits /\ about # ""
    <3>1. Tells(m, e, fds, note)
      BY <1>2, <1>4, <2>1 DEF words
    <3> QED
      BY <2>1, <3>1 DEF Tells
  <2>2. CASE ~(fits /\ about # "")
    BY <1>2, <1>4, <2>2 DEF words
  <2> QED
    BY <2>1, <2>2
<1>6. e.threw => ~ fits
  BY <1>4 DEF words
<1> QED
  BY <1>5, <1>6 DEF note

\* Who else is in a room; and that fd is now in a room and nobody else has moved.
There(m, fd, room) ==
  IF room \in RoomNames THEN {g \in DOMAIN m.clients \ {fd} : m.clients[g].room = room} ELSE {}

Moved(m, e, fd, room) ==
  /\ e \in TwoMaps
  /\ DOMAIN e.clients = DOMAIN m.clients
  /\ \A g \in DOMAIN m.clients :
       /\ e.clients[g].conn = m.clients[g].conn
       /\ e.clients[g].name = m.clients[g].name
       /\ e.clients[g].room = IF g = fd THEN room ELSE m.clients[g].room

\* Who else is in the room is who else the room has.
LEMMA ThereIn ==
  ASSUME NEW m, NEW fd, NEW room \in RoomNames, Agree(m.clients, m.rooms)
  PROVE  There(m, fd, room) = In(m.rooms, room) \ {fd}
BY DEF There, Agree

\* What is only queued moves nobody.
LEMMA QueuedMoves ==
  ASSUME NEW m, NEW e, OnlyQueued(m, e), NEW fd \in DOMAIN m.clients
  PROVE  Moved(m, e, fd, m.clients[fd].room)
BY DEF OnlyQueued, Moved

\* leave_room() does not throw when notices fit, and tells the others in the room.
LEMMA LeaveRoomTells ==
  ASSUME NoticesFit, NEW m \in TwoMaps, NEW fd \in DOMAIN m.clients, ~ m.threw,
         Agree(m.clients, m.rooms), m.clients[fd].name \in GivenNames,
         NEW room \in Where, m.clients[fd].room = room, NEW l, l = LeaveRoom(m, fd)
  PROVE  /\ ~ l.threw
         /\ Moved(m, l, fd, "")
         /\ Agree(l.clients, l.rooms)
         /\ Tells(m, l, There(m, fd, room),
                  [kind |-> "left", by |-> m.clients[fd].conn, about |-> room])
<1> DEFINE note == [kind |-> "left", by |-> m.clients[fd].conn, about |-> room]
           rest == (IF room \in DOMAIN m.rooms THEN m.rooms[room] ELSE {}) \ {fd}
           out  == [m EXCEPT !.rooms = IF rest = {} THEN Erase(@, room) ELSE Put(@, room, rest)]
           told == BroadcastRoom(out, room, fd, "left", room)
<1>1. m.clients \in ClientMap /\ m.rooms \in RoomMap /\ m.threw \in BOOLEAN
  BY DEF TwoMaps
<1>2. room \in Payloads /\ fd \in Fds
  BY <1>1, ClientFields
<1>3. ~ l.threw => Agree(l.clients, l.rooms)
  BY <1>1, AgreeWithoutExcuse, LeaveRoomAgrees
<1>4. CASE room = ""
  <2>1. l = m
    BY <1>4 DEF LeaveRoom
  <2>2. There(m, fd, room) = {}
    BY <1>4, WordsFacts DEF There
  <2> QED
    BY <1>4, <2>1, <2>2 DEF Moved, Tells
<1>5. CASE room # ""
  <2>0. room \in RoomNames
    BY <1>5 DEF Where
  <2>1. l = IF told.threw THEN told ELSE [told EXCEPT !.clients[fd].room = ""]
    BY <1>5 DEF LeaveRoom
  <2>2. rest = In(m.rooms, room) \ {fd} /\ rest \in SUBSET Fds
    BY <1>1, InErase DEF In
  <2>3. out \in TwoMaps
    BY <1>1, <1>2, <2>2, PutErase DEF TwoMaps
  <2>4. out.clients = m.clients /\ out.threw = m.threw
    BY <1>1 DEF TwoMaps
  <2>5. out.rooms = IF rest = {} THEN Erase(m.rooms, room) ELSE Put(m.rooms, room, rest)
    BY <1>1 DEF TwoMaps
  <2>6. In(out.rooms, room) = rest
    BY <1>1, <2>5, InPut, InErase
  <2>7. There(m, fd, room) = rest
    BY <2>0, <2>2, ThereIn
  <2> HIDE DEF out, rest
  <2>8. OnlyQueued(out, told)
    BY <1>2, <2>3, <2>4, BroadcastQueues
  <2>9. ~ TooLong(<<out.clients[fd].name, room>>)
    BY <2>0, <2>4 DEF NoticesFit
  <2>10. Tells(out, told, In(out.rooms, room) \ {fd}, note) /\ ~ told.threw
    <3>1. /\ Tells(out, told, IF TRUE /\ room # "" THEN In(out.rooms, room) \ {fd} ELSE {},
                   [kind |-> "left", by |-> out.clients[fd].conn, about |-> room])
          /\ told.threw => ~ TRUE
      BY ZenonT(60), <1>2, <2>3, <2>4, <2>9, BroadcastTells
    <3> QED
      BY <1>5, <2>4, <3>1
  <2>11. In(out.rooms, room) \ {fd} = There(m, fd, room)
    BY <2>2, <2>6, <2>7
  <2> HIDE DEF told, note
  <2>12. Tells(m, told, There(m, fd, room), note)
    BY <2>4, <2>10, <2>11 DEF Tells
  <2> DEFINE cl == [told.clients[fd] EXCEPT !.room = ""]
             cmap == [told.clients EXCEPT ![fd] = cl]
  <2>13. /\ told \in TwoMaps /\ told.clients \in ClientMap /\ fd \in DOMAIN told.clients
         /\ DOMAIN told.clients = DOMAIN m.clients
    BY <2>4, <2>8 DEF OnlyQueued, TwoMaps
  <2>14. told.clients[fd] \in Client /\ "" \in Payloads
    BY <2>13, ClientFields, WordsFacts
  <2>15. /\ cl \in Client /\ cl.room = "" /\ cl.conn = told.clients[fd].conn
         /\ cl.name = told.clients[fd].name /\ cl.send_buf = told.clients[fd].send_buf
    BY <2>14 DEF Client
  <2> HIDE DEF cl
  <2>16. /\ cmap \in ClientMap /\ DOMAIN cmap = DOMAIN told.clients /\ cmap[fd] = cl
         /\ \A g \in DOMAIN told.clients \ {fd} : cmap[g] = told.clients[g]
    BY <2>13, <2>15, MapTypes
  <2>17. l = [told EXCEPT !.clients = cmap]
    BY <2>1, <2>10, <2>13 DEF cl, TwoMaps
  <2> HIDE DEF cmap
  <2>18. l \in TwoMaps /\ l.clients = cmap /\ l.threw = told.threw
    BY <2>13, <2>16, <2>17 DEF TwoMaps
  <2>19. Moved(m, l, fd, "")
    <3>1. \A g \in DOMAIN m.clients : /\ told.clients[g].conn = m.clients[g].conn
                                       /\ told.clients[g].name = m.clients[g].name
                                       /\ told.clients[g].room = m.clients[g].room
      BY <2>4, <2>8 DEF OnlyQueued
    <3>2. \A g \in DOMAIN m.clients : /\ l.clients[g].conn = m.clients[g].conn
                                       /\ l.clients[g].name = m.clients[g].name
                                       /\ l.clients[g].room = IF g = fd THEN "" ELSE m.clients[g].room
      <4> TAKE g \in DOMAIN m.clients
      <4>1. CASE g = fd
        BY <2>15, <2>16, <2>18, <3>1, <4>1
      <4>2. CASE g # fd
        BY <2>13, <2>16, <2>18, <3>1, <4>2
      <4> QED
        BY <4>1, <4>2
    <3> QED
      BY <2>13, <2>16, <2>18, <3>2 DEF Moved
  <2>20. \A g \in DOMAIN m.clients : Pub(l.clients, g) = Pub(told.clients, g)
    BY <2>13, <2>15, <2>16, <2>18 DEF Pub
  <2>21. Tells(m, l, There(m, fd, room), note)
    BY <2>12, <2>20 DEF Tells
  <2> QED
    BY <1>3, <2>10, <2>18, <2>19, <2>21 DEF note
<1> QED
  BY <1>3, <1>4, <1>5

\* enter_room() announces who comes to those who are there.
LEMMA EnterRoomTells ==
  ASSUME NoticesFit, NEW m \in TwoMaps, NEW fd \in DOMAIN m.clients, ~ m.threw,
         Agree(m.clients, m.rooms), m.clients[fd].name \in GivenNames, m.clients[fd].room = "",
         NEW room \in Where, NEW e, e = EnterRoom(m, fd, room)
  PROVE  /\ Moved(m, e, fd, room)
         /\ Agree(e.clients, e.rooms)
         /\ Tells(m, e, There(m, fd, room),
                  [kind |-> "entered", by |-> m.clients[fd].conn, about |-> room])
<1> DEFINE note == [kind |-> "entered", by |-> m.clients[fd].conn, about |-> room]
           in  == (IF room \in DOMAIN m.rooms THEN m.rooms[room] ELSE {}) \cup {fd}
           cl  == [m.clients[fd] EXCEPT !.room = room]
           cmap == [m.clients EXCEPT ![fd] = cl]
           rmap == Put(m.rooms, room, in)
           put == [m EXCEPT !.clients[fd].room = room, !.rooms = Put(@, room, in)]
           said == Reply(put, fd, <<room>>)
<1>1. m.clients \in ClientMap /\ m.rooms \in RoomMap /\ m.threw \in BOOLEAN
  BY DEF TwoMaps
<1>2. m.clients[fd] \in Client /\ fd \in Fds /\ room \in Payloads
  BY <1>1, ClientFields, WordsFacts DEF Where
<1>3. /\ cl \in Client /\ cl.room = room /\ cl.conn = m.clients[fd].conn
      /\ cl.name = m.clients[fd].name /\ cl.send_buf = m.clients[fd].send_buf
  BY <1>2 DEF Client
<1>4. put = [m EXCEPT !.clients = cmap, !.rooms = rmap]
  BY <1>1 DEF TwoMaps
<1>5. in = In(m.rooms, room) \cup {fd} /\ in \in SUBSET Fds
  BY <1>1, <1>2, InErase DEF In
<1> HIDE DEF cl, in
<1>6. /\ cmap \in ClientMap /\ DOMAIN cmap = DOMAIN m.clients /\ cmap[fd] = cl
      /\ \A g \in DOMAIN m.clients \ {fd} : cmap[g] = m.clients[g]
  BY <1>1, <1>3, MapTypes
<1>7. rmap \in RoomMap /\ In(rmap, room) = in
  <2>1. rmap \in RoomMap
    BY <1>1, <1>2, <1>5, PutErase
  <2>2. In(rmap, room) = in
    BY DEF In, Put
  <2> QED
    BY <2>1, <2>2
<1> HIDE DEF rmap, cmap
<1>8. put \in TwoMaps /\ put.clients = cmap /\ put.rooms = rmap /\ put.threw = m.threw
  BY <1>1, <1>4, <1>6, <1>7 DEF TwoMaps
<1> HIDE DEF put
<1>9. \A g \in DOMAIN m.clients : /\ put.clients[g].conn = m.clients[g].conn
                                  /\ put.clients[g].name = m.clients[g].name
                                  /\ put.clients[g].send_buf = m.clients[g].send_buf
                                  /\ put.clients[g].room = IF g = fd THEN room ELSE m.clients[g].room
  <2> TAKE g \in DOMAIN m.clients
  <2>1. CASE g = fd
    BY <1>3, <1>6, <1>8, <2>1
  <2>2. CASE g # fd
    BY <1>6, <1>8, <2>2
  <2> QED
    BY <2>1, <2>2
<1>10. fd \in DOMAIN put.clients /\ DOMAIN put.clients = DOMAIN m.clients
  BY <1>6, <1>8
<1>11. OnlyQueued(put, said) /\ Tells(put, said, {}, note)
  BY <1>8, <1>10, ReplyQueues, ReplyTells
<1>12. said.threw => TooLong(<<room>>)
  BY <1>8, <1>10, ReplyTells
<1>13. e = BroadcastRoom(said, room, fd, "entered", room)
  BY DEF EnterRoom, put, in
<1> HIDE DEF said
<1>14. /\ said \in TwoMaps /\ DOMAIN said.clients = DOMAIN m.clients /\ said.rooms = rmap
       /\ said.clients[fd].conn = m.clients[fd].conn /\ said.clients[fd].name = m.clients[fd].name
  BY <1>8, <1>9, <1>10, <1>11 DEF OnlyQueued
<1>15. OnlyQueued(said, e)
  BY <1>2, <1>13, <1>14, BroadcastQueues
<1>16. Moved(m, e, fd, room)
  <2>1. \A g \in DOMAIN m.clients : /\ e.clients[g].conn = put.clients[g].conn
                                    /\ e.clients[g].name = put.clients[g].name
                                    /\ e.clients[g].room = put.clients[g].room
    BY ZenonT(120), <1>10, <1>11, <1>14, <1>15 DEF OnlyQueued
  <2>2. e \in TwoMaps /\ DOMAIN e.clients = DOMAIN m.clients
    BY <1>14, <1>15 DEF OnlyQueued
  <2> QED
    BY <1>9, <2>1, <2>2 DEF Moved
<1>17. Agree(e.clients, e.rooms)
  <2>1. e = EnterRoom(m, fd, room)
    OBVIOUS
  <2> QED
    BY <1>2, <2>1, EnterRoomAgrees
<1>18. Tells(said, e, There(m, fd, room), note)
  <2> DEFINE fits == ~ said.threw /\ ~ TooLong(<<said.clients[fd].name, room>>)
             who == IF fits /\ room # "" THEN In(said.rooms, room) \ {fd} ELSE {}
  <2>1. Tells(said, e, who, note)
    <3>1. Tells(said, e, who, [kind |-> "entered", by |-> said.clients[fd].conn, about |-> room])
      <4>1. said \in TwoMaps /\ fd \in DOMAIN said.clients /\ room \in Payloads
        BY <1>2, <1>14
      <4> HIDE DEF note
      <4>2. PICK f : f <=> fits
        OBVIOUS
      <4> HIDE DEF fits
      <4>3. Tells(said, e, IF f /\ room # "" THEN In(said.rooms, room) \ {fd} ELSE {},
                  [kind |-> "entered", by |-> said.clients[fd].conn, about |-> room])
        BY <1>13, <4>1, <4>2, BroadcastTells DEF fits
      <4> QED
        BY <4>2, <4>3
    <3> QED
      BY <1>14, <3>1
  <2>2. who = There(m, fd, room)
    <3>1. CASE room = ""
      BY <3>1, WordsFacts DEF There
    <3>2. CASE room # ""
      <4>1. room \in RoomNames
        BY <3>2 DEF Where
      <4>2. fits
        <5>1. ~ TooLong(<<room>>) /\ ~ TooLong(<<m.clients[fd].name, room>>)
          BY <4>1 DEF NoticesFit
        <5>2. ~ said.threw
          BY <1>12, <5>1
        <5> QED
          BY <1>14, <5>1, <5>2
      <4> QED
        <5>1. who = In(said.rooms, room) \ {fd}
          BY <3>2, <4>2
        <5>2. In(said.rooms, room) = In(m.rooms, room) \cup {fd}
          BY <1>5, <1>7, <1>14
        <5>3. There(m, fd, room) = In(m.rooms, room) \ {fd}
          BY <4>1, ThereIn
        <5> QED
          BY <5>1, <5>2, <5>3
    <3> QED
      BY <3>1, <3>2
  <2> QED
    BY <2>1, <2>2
<1>19. \A g \in DOMAIN m.clients : Pub(said.clients, g) = Pub(m.clients, g)
  <2>1. \A g \in DOMAIN m.clients : Pub(put.clients, g) = Pub(m.clients, g)
    BY <1>9 DEF Pub
  <2> QED
    BY <1>10, <1>11, <2>1 DEF Tells
<1> HIDE DEF note
<1>20. Tells(m, e, There(m, fd, room), note)
  BY <1>14, <1>18, <1>19 DEF Tells
<1> QED
  BY <1>16, <1>17, <1>20 DEF note

\* The notice about fd.
ChatNote(kind, m, fd, about) == [kind |-> kind, by |-> m.clients[fd].conn, about |-> about]

\* Moved, but for the names.
Placed(m, e, fd, room) ==
  /\ e \in TwoMaps
  /\ DOMAIN e.clients = DOMAIN m.clients
  /\ \A g \in DOMAIN m.clients :
       /\ e.clients[g].conn = m.clients[g].conn
       /\ e.clients[g].room = IF g = fd THEN room ELSE m.clients[g].room

\* fd left a room, told those who are there, and told those who are in another;
\* or it said something; or nobody was told anything.
Goes(m, e, fd, to) ==
  /\ Placed(m, e, fd, to)
  /\ \E left : /\ Placed(m, left, fd, "")
               /\ Tells(m, left, There(m, fd, m.clients[fd].room),
                        ChatNote("left", m, fd, m.clients[fd].room))
               /\ Tells(left, e, There(m, fd, to), ChatNote("entered", m, fd, to))

\* It says something to the others in its room.
Says(m, e, fd, text) ==
  /\ Placed(m, e, fd, m.clients[fd].room)
  /\ m.clients[fd].room \in RoomNames
  /\ Tells(m, e, There(m, fd, m.clients[fd].room), ChatNote("message", m, fd, text))

\* Nobody is told anything.
Quiet(m, e, fd) ==
  /\ Placed(m, e, fd, m.clients[fd].room)
  /\ \A note : Tells(m, e, {}, note)

\* Every client has a name that was given, or none.
Named(m) == \A g \in DOMAIN m.clients : m.clients[g].name \in GivenNames

\* What a frame may do.
Acts(m, e, fd) ==
  \/ Quiet(m, e, fd)
  \/ \E to \in Where : Goes(m, e, fd, to)
  \/ \E text \in Payloads \ {""} : Says(m, e, fd, text)

\* Who moved is placed.
LEMMA MovedPlaced ==
  ASSUME NEW m, NEW e, NEW fd, NEW room, Moved(m, e, fd, room), Named(m)
  PROVE  Placed(m, e, fd, room) /\ Named(e)
BY DEF Moved, Placed, Named

\* A reply is no part of the chat.
LEMMA ReplyActs ==
  ASSUME NEW m \in TwoMaps, NEW fd \in DOMAIN m.clients, NEW words, NEW e, e = Reply(m, fd, words),
         Named(m), Agree(m.clients, m.rooms)
  PROVE  Quiet(m, e, fd) /\ Named(e) /\ Agree(e.clients, e.rooms)
<1>1. OnlyQueued(m, e)
  BY ReplyQueues
<1>2. Moved(m, e, fd, m.clients[fd].room)
  BY <1>1, QueuedMoves
<1>3. \A note : Tells(m, e, {}, note)
  BY ReplyTells
<1> QED
  BY <1>1, <1>2, <1>3, MovedPlaced, QueuedAgrees DEF Quiet

\* Nor is a name.
LEMMA HelloActs ==
  ASSUME NEW m \in TwoMaps, NEW fd \in DOMAIN m.clients, NEW name \in GivenNames, name \in Payloads,
         NEW e, e = Hello(m, fd, name), Named(m), Agree(m.clients, m.rooms)
  PROVE  Quiet(m, e, fd) /\ Named(e) /\ Agree(e.clients, e.rooms)
<1> DEFINE cl == [m.clients[fd] EXCEPT !.name = name]
           cmap == [m.clients EXCEPT ![fd] = cl]
           named == [m EXCEPT !.clients = cmap]
<1>1. m.clients[fd] \in Client /\ m.clients \in ClientMap
  BY ClientFields DEF TwoMaps
<1>2. /\ cl \in Client /\ cl.room = m.clients[fd].room /\ cl.conn = m.clients[fd].conn
      /\ cl.name = name /\ cl.send_buf = m.clients[fd].send_buf
  BY <1>1 DEF Client
<1>3. e = Reply(named, fd, <<name>>)
  BY DEF Hello, TwoMaps
<1> HIDE DEF cl
<1>4. /\ cmap \in ClientMap /\ DOMAIN cmap = DOMAIN m.clients /\ cmap[fd] = cl
      /\ \A g \in DOMAIN m.clients \ {fd} : cmap[g] = m.clients[g]
  BY <1>1, <1>2, MapTypes
<1> HIDE DEF cmap
<1>5. named \in TwoMaps /\ named.clients = cmap /\ named.rooms = m.rooms
  BY <1>4 DEF TwoMaps
<1> HIDE DEF named
<1>6. \A g \in DOMAIN m.clients : /\ named.clients[g].conn = m.clients[g].conn
                                  /\ named.clients[g].room = m.clients[g].room
                                  /\ named.clients[g].send_buf = m.clients[g].send_buf
                                  /\ named.clients[g].name \in GivenNames
  <2> TAKE g \in DOMAIN m.clients
  <2>1. CASE g = fd
    BY <1>2, <1>4, <1>5, <2>1
  <2>2. CASE g # fd
    BY <1>4, <1>5, <2>2 DEF Named
  <2> QED
    BY <2>1, <2>2
<1>7. fd \in DOMAIN named.clients /\ DOMAIN named.clients = DOMAIN m.clients
  BY <1>4, <1>5
<1>8. Agree(named.clients, named.rooms) /\ Named(named)
  BY <1>5, <1>6, <1>7 DEF Agree, Named
<1>9. Quiet(named, e, fd) /\ Named(e) /\ Agree(e.clients, e.rooms)
  BY <1>3, <1>5, <1>7, <1>8, ReplyActs
<1>10. Placed(m, e, fd, m.clients[fd].room)
  BY <1>6, <1>7, <1>9 DEF Quiet, Placed
<1>11. \A g \in DOMAIN m.clients : Pub(named.clients, g) = Pub(m.clients, g)
  BY <1>6 DEF Pub
<1>12. \A note : Tells(m, e, {}, note)
  BY <1>7, <1>9, <1>11 DEF Quiet, Tells
<1> QED
  BY <1>9, <1>10, <1>12 DEF Quiet

\* A message says its text to the others in the room, if it fits; otherwise
\* nobody is told.
LEMMA MessageActs ==
  ASSUME NEW m \in TwoMaps, NEW fd \in DOMAIN m.clients, NEW text \in Payloads, ~ m.threw,
         m.clients[fd].room \in Where, NEW e, e = Message(m, fd, text),
         Named(m), Agree(m.clients, m.rooms)
  PROVE  Acts(m, e, fd) /\ Named(e) /\ Agree(e.clients, e.rooms)
<1> DEFINE room == m.clients[fd].room
<1>1. CASE room = ""
  <2>1. e = Reply(m, fd, << >>)
    BY <1>1 DEF Message
  <2> QED
    BY <2>1, ReplyActs DEF Acts
<1>2. CASE room # ""
  <2>1. e = BroadcastRoom(m, room, fd, "message", text)
    BY <1>2 DEF Message
  <2> DEFINE fits == ~ m.threw /\ ~ TooLong(<<m.clients[fd].name, text>>)
             who == IF fits /\ text # "" THEN In(m.rooms, room) \ {fd} ELSE {}
  <2>2. Tells(m, e, who, ChatNote("message", m, fd, text))
    BY <2>1, BroadcastTells DEF ChatNote
  <2>3. OnlyQueued(m, e)
    BY <2>1, BroadcastQueues
  <2>4. Placed(m, e, fd, room) /\ Named(e) /\ Agree(e.clients, e.rooms)
    BY <2>3, QueuedMoves, MovedPlaced, QueuedAgrees
  <2>5. room \in RoomNames
    BY <1>2 DEF Where
  <2>6. CASE fits /\ text # ""
    <3>1. who = There(m, fd, room)
      BY <2>5, <2>6, ThereIn
    <3>2. Says(m, e, fd, text)
      BY <2>2, <2>4, <2>5, <3>1 DEF Says
    <3> QED
      BY <2>4, <2>6, <3>2 DEF Acts
  <2>7. CASE ~(fits /\ text # "")
    <3>1. \A note : Tells(m, e, {}, note)
      BY <2>2, <2>7 DEF Tells
    <3> QED
      BY <2>4, <3>1 DEF Acts, Quiet
  <2> QED
    BY <2>6, <2>7
<1> QED
  BY <1>1, <1>2

\* Leaving a room, ...
LEMMA LeaveRoomActs ==
  ASSUME NoticesFit, NEW m \in TwoMaps, NEW fd \in DOMAIN m.clients, ~ m.threw,
         m.clients[fd].room \in Where, NEW l, l = LeaveRoom(m, fd),
         Named(m), Agree(m.clients, m.rooms)
  PROVE  /\ ~ l.threw /\ Moved(m, l, fd, "") /\ Named(l) /\ Agree(l.clients, l.rooms)
         /\ Tells(m, l, There(m, fd, m.clients[fd].room), ChatNote("left", m, fd, m.clients[fd].room))
<1>1. m.clients[fd].name \in GivenNames
  BY DEF Named
<1>2. PICK room \in Where : m.clients[fd].room = room
  OBVIOUS
<1>3. /\ ~ l.threw /\ Moved(m, l, fd, "") /\ Agree(l.clients, l.rooms)
      /\ Tells(m, l, There(m, fd, room), [kind |-> "left", by |-> m.clients[fd].conn, about |-> room])
  BY <1>1, <1>2, LeaveRoomTells
<1> QED
  BY <1>2, <1>3, MovedPlaced DEF ChatNote

\* ... by the command, ...
LEMMA LeaveActs ==
  ASSUME NoticesFit, NEW m \in TwoMaps, NEW fd \in DOMAIN m.clients, ~ m.threw,
         m.clients[fd].room \in Where, NEW e, e = Leave(m, fd),
         Named(m), Agree(m.clients, m.rooms)
  PROVE  Acts(m, e, fd) /\ Named(e) /\ Agree(e.clients, e.rooms)
<1> DEFINE l == LeaveRoom(m, fd)
<1>1. /\ ~ l.threw /\ Moved(m, l, fd, "") /\ Named(l) /\ Agree(l.clients, l.rooms)
      /\ Tells(m, l, There(m, fd, m.clients[fd].room), ChatNote("left", m, fd, m.clients[fd].room))
  BY LeaveRoomActs
<1>2. e = Reply(l, fd, << >>)
  BY DEF Leave
<1> HIDE DEF l
<1>3. l \in TwoMaps /\ DOMAIN l.clients = DOMAIN m.clients /\ l.clients[fd].room = ""
  BY <1>1 DEF Moved
<1>4. Quiet(l, e, fd) /\ Named(e) /\ Agree(e.clients, e.rooms)
  BY <1>1, <1>2, <1>3, ReplyActs
<1>5. Placed(m, e, fd, "")
  BY <1>1, <1>3, <1>4 DEF Moved, Quiet, Placed
<1>6. There(m, fd, "") = {} /\ "" \in Where
  BY WordsFacts DEF There, Where
<1>7. Tells(l, e, There(m, fd, ""), ChatNote("entered", m, fd, ""))
  BY <1>4, <1>6 DEF Quiet
<1>8. Goes(m, e, fd, "")
  BY <1>1, <1>5, <1>7, MovedPlaced DEF Goes
<1> QED
  BY <1>4, <1>6, <1>8 DEF Acts

\* ... or for another room.
LEMMA JoinActs ==
  ASSUME NoticesFit, NEW m \in TwoMaps, NEW fd \in DOMAIN m.clients, ~ m.threw,
         m.clients[fd].room \in Where, NEW to \in Where, NEW e, e = Join(m, fd, to),
         Named(m), Agree(m.clients, m.rooms)
  PROVE  Acts(m, e, fd) /\ Named(e) /\ Agree(e.clients, e.rooms)
<1> DEFINE l == LeaveRoom(m, fd)
<1>1. CASE m.clients[fd].name = ""
  <2>1. e = Reply(m, fd, << >>)
    BY <1>1 DEF Join
  <2> QED
    BY <2>1, ReplyActs DEF Acts
<1>2. CASE m.clients[fd].name # ""
  <2>1. /\ ~ l.threw /\ Moved(m, l, fd, "") /\ Named(l) /\ Agree(l.clients, l.rooms)
        /\ Tells(m, l, There(m, fd, m.clients[fd].room), ChatNote("left", m, fd, m.clients[fd].room))
    BY LeaveRoomActs
  <2>2. e = EnterRoom(l, fd, to)
    BY <1>2, <2>1 DEF Join
  <2> HIDE DEF l
  <2>3. /\ l \in TwoMaps /\ DOMAIN l.clients = DOMAIN m.clients /\ l.clients[fd].room = ""
        /\ l.clients[fd].name \in GivenNames /\ l.clients[fd].conn = m.clients[fd].conn
    BY <2>1 DEF Moved, Named
  <2>4. /\ Moved(l, e, fd, to)
        /\ Agree(e.clients, e.rooms)
        /\ Tells(l, e, There(l, fd, to), [kind |-> "entered", by |-> l.clients[fd].conn, about |-> to])
    BY <2>1, <2>2, <2>3, EnterRoomTells
  <2>5. There(l, fd, to) = There(m, fd, to)
    BY <2>1 DEF There, Moved
  <2>6. Tells(l, e, There(m, fd, to), ChatNote("entered", m, fd, to))
    BY <2>3, <2>4, <2>5 DEF ChatNote
  <2>7. Placed(l, e, fd, to) /\ Named(e)
    BY <2>1, <2>4, MovedPlaced
  <2>8. Placed(m, e, fd, to)
    BY <2>1, <2>3, <2>7 DEF Moved, Placed
  <2>9. Goes(m, e, fd, to)
    BY <2>1, <2>6, <2>8, MovedPlaced DEF Goes
  <2> QED
    BY <2>4, <2>7, <2>9 DEF Acts
<1> QED
  BY <1>1, <1>2

\* Whatever a frame is, in the chat it is a move, something said, or nothing.
LEMMA ProcessActs ==
  ASSUME NoticesFit, NEW m \in TwoMaps, NEW fd \in DOMAIN m.clients, ~ m.threw,
         m.clients[fd].room \in Where, NEW frame \in Sent, NEW e, e = ProcessMessage(m, fd, frame),
         Named(m), Agree(m.clients, m.rooms)
  PROVE  Acts(m, e, fd) /\ Named(e) /\ Agree(e.clients, e.rooms)
<1>0. frame.payload \in Payloads
  BY SentFacts
<1>1. CASE frame.type = "Hello"
  <2>1. e = Hello(m, fd, frame.payload) /\ frame.payload \in GivenNames
    BY <1>1, SentFacts DEF ProcessMessage
  <2> QED
    BY <1>0, <2>1, HelloActs DEF Acts
<1>2. CASE frame.type = "Join"
  <2>1. e = Join(m, fd, frame.payload) /\ frame.payload \in Where
    BY <1>2, SentFacts DEF ProcessMessage
  <2> QED
    BY <2>1, JoinActs
<1>3. CASE frame.type = "Leave"
  <2>1. e = Leave(m, fd)
    BY <1>3 DEF ProcessMessage
  <2> QED
    BY <2>1, LeaveActs
<1>4. CASE frame.type = "Message"
  <2>1. e = Message(m, fd, frame.payload)
    BY <1>4 DEF ProcessMessage
  <2> QED
    BY <1>0, <2>1, MessageActs
<1>5. CASE frame.type \notin {"Hello", "Join", "Leave", "Message"}
  <2>1. e = Reply(m, fd, << >>)
    BY <1>5 DEF ProcessMessage
  <2> QED
    BY <2>1, ReplyActs DEF Acts
<1> QED
  BY <1>1, <1>2, <1>3, <1>4, <1>5
-----------------------------------------------------------------------------
(* The chat, as a function of the clients and the connections.             *)

\* Every client is an open connection of its own, and every open connection a client.
Paired(cmap, n) ==
  /\ cmap \in ClientMap /\ n \in [Conns -> Connection]
  /\ \A fd \in DOMAIN cmap :
       /\ n[cmap[fd].conn].status = "open"
       /\ \A other \in DOMAIN cmap : cmap[other].conn = cmap[fd].conn => other = fd
  /\ \A c \in Conns : n[c].status = "open" => \E fd \in DOMAIN cmap : cmap[fd].conn = c

\* The client of a connection, where each connection is, and what it is told.
Whose(cmap, c) == CHOOSE fd \in DOMAIN cmap : cmap[fd].conn = c

PlacesIn(cmap, n) ==
  [c \in Conns |-> IF n[c].status = "closed" THEN "closed"
                   ELSE IF n[c].status = "open" THEN cmap[Whose(cmap, c)].room ELSE ""]

ToldIn(cmap, n) ==
  [c \in Conns |-> Only(n[c].down \o (IF n[c].status = "open" THEN cmap[Whose(cmap, c)].send_buf
                                      ELSE << >>), Public)]

\* Who else is in the room, and telling them, as ChatRooms has it.
Around(places, c, room) ==
  IF room \in RoomNames THEN {d \in Conns \ {c} : places[d] = room} ELSE {}

TellAll(who, note, told) ==
  [c \in Conns |-> IF c \in who THEN Append(told[c], note) ELSE told[c]]

\* The connections of some clients.
ConnsOf(m, who) == {m.clients[g].conn : g \in who}

\* The pairing is about nothing a handler changes.
LEMMA PlacedPaired ==
  ASSUME NEW m, NEW e, NEW n, NEW fd, NEW to, Paired(m.clients, n), Placed(m, e, fd, to)
  PROVE  Paired(e.clients, n)
<1>1. e.clients \in ClientMap
  BY DEF Placed, TwoMaps
<1>2. /\ DOMAIN e.clients = DOMAIN m.clients
      /\ \A g \in DOMAIN m.clients : e.clients[g].conn = m.clients[g].conn
  BY DEF Placed
<1> QED
  BY <1>1, <1>2 DEF Paired

\* The mapping of the refinement is these two functions, now and in the next state.
LEMMA ChatNow == Places = PlacesIn(clients, net) /\ Told = ToldIn(clients, net)
BY DEF Places, Told, PlacesIn, ToldIn, RoomOf, Queue, FdOf, Whose

LEMMA ChatNext == Places' = PlacesIn(clients', net') /\ Told' = ToldIn(clients', net')
BY DEF Places, Told, PlacesIn, ToldIn, RoomOf, Queue, FdOf, Whose

\* What they are for the connection of a client, ...
LEMMA ClientsPlace ==
  ASSUME NEW cmap, NEW n, Paired(cmap, n), NEW fd \in DOMAIN cmap
  PROVE  /\ cmap[fd].conn \in Conns
         /\ PlacesIn(cmap, n)[cmap[fd].conn] = cmap[fd].room
         /\ ToldIn(cmap, n)[cmap[fd].conn]
              = Only(n[cmap[fd].conn].down, Public) \o Pub(cmap, fd)
         /\ Only(n[cmap[fd].conn].down, Public) \in Seq(Public)
         /\ Pub(cmap, fd) \in Seq(Public)
<1> DEFINE c == cmap[fd].conn
           q == cmap[fd].send_buf
           d == n[c].down
<1>1. /\ cmap \in ClientMap /\ n \in [Conns -> Connection] /\ n[c].status = "open"
      /\ \A other \in DOMAIN cmap : cmap[other].conn = c => other = fd
  BY DEF Paired
<1>2. c \in Conns /\ q \in Seq(Notes)
  BY <1>1, ClientFields
<1>3. Whose(cmap, c) = fd
  BY <1>1 DEF Whose
<1>4. d \in Seq(Notes)
  BY <1>1, <1>2 DEF Connection
<1>5. /\ Only(d \o q, Public) = Only(d, Public) \o Only(q, Public)
      /\ Only(d, Public) \in Seq(Notes \cap Public) /\ Only(q, Public) \in Seq(Notes \cap Public)
  <2>1. PICK x, y \in Seq(Notes) : x = d /\ y = q
    BY <1>2, <1>4
  <2>2. Only(x \o y, Public) = Only(x, Public) \o Only(y, Public)
    BY OnlyConcat
  <2>3. Only(x, Public) \in Seq(Notes \cap Public)
    BY OnlyType
  <2>4. Only(y, Public) \in Seq(Notes \cap Public)
    BY OnlyType
  <2> QED
    BY <2>1, <2>2, <2>3, <2>4
<1>6. Notes \cap Public = Public
  BY PublicFacts
<1>7. PlacesIn(cmap, n)[c] = cmap[fd].room /\ ToldIn(cmap, n)[c] = Only(d \o q, Public)
  BY <1>1, <1>2, <1>3 DEF PlacesIn, ToldIn
<1> QED
  BY <1>2, <1>5, <1>6, <1>7 DEF Pub

\* ... and for any other.
LEMMA OthersPlace ==
  ASSUME NEW cmap, NEW n, Paired(cmap, n), NEW c \in Conns, \A fd \in DOMAIN cmap : cmap[fd].conn # c
  PROVE  /\ n[c].status # "open"
         /\ PlacesIn(cmap, n)[c] = IF n[c].status = "closed" THEN "closed" ELSE ""
         /\ ToldIn(cmap, n)[c] = Only(n[c].down, Public)
<1>1. n[c].status # "open" /\ n \in [Conns -> Connection]
  BY DEF Paired
<1>2. n[c].down \o << >> = n[c].down
  <2>1. n[c].down \in Seq(Notes)
    BY <1>1 DEF Connection
  <2> QED
    BY <2>1
<1> QED
  BY <1>1, <1>2 DEF PlacesIn, ToldIn

\* Who is in the room is who is there.
LEMMA ThereAround ==
  ASSUME NEW m, NEW n, Paired(m.clients, n), NEW fd \in DOMAIN m.clients, NEW room
  PROVE  ConnsOf(m, There(m, fd, room))
           = Around(PlacesIn(m.clients, n), m.clients[fd].conn, room)
<1> DEFINE c == m.clients[fd].conn
           p == PlacesIn(m.clients, n)
<1>1. CASE room \notin RoomNames
  BY <1>1 DEF There, Around, ConnsOf
<1>2. CASE room \in RoomNames
  <2>1. room # "closed" /\ room # ""
    BY <1>2, RoomsAssumption
  <2>2. \A g \in DOMAIN m.clients : /\ m.clients[g].conn \in Conns
                                    /\ p[m.clients[g].conn] = m.clients[g].room
                                    /\ m.clients[g].conn = c => g = fd
    BY ClientsPlace DEF Paired
  <2>3. \A d \in Conns : p[d] = room => \E g \in DOMAIN m.clients : m.clients[g].conn = d
    <3> SUFFICES ASSUME NEW d \in Conns, \A g \in DOMAIN m.clients : m.clients[g].conn # d
                 PROVE  p[d] # room
      OBVIOUS
    <3>1. p[d] = IF n[d].status = "closed" THEN "closed" ELSE ""
      BY OthersPlace
    <3> QED
      BY <2>1, <3>1
  <2> HIDE DEF p, c
  <2>4. \A g \in There(m, fd, room) : m.clients[g].conn \in Around(p, c, room)
    BY <1>2, <2>2 DEF There, Around
  <2>5. \A d \in Around(p, c, room) : \E g \in There(m, fd, room) : m.clients[g].conn = d
    <3> TAKE d \in Around(p, c, room)
    <3>1. d \in Conns /\ d # c /\ p[d] = room
      BY <1>2 DEF Around
    <3>2. PICK g \in DOMAIN m.clients : m.clients[g].conn = d
      BY <2>3, <3>1
    <3>3. g \in There(m, fd, room)
      BY <1>2, <2>2, <3>1, <3>2 DEF There, c
    <3> QED
      BY <3>2, <3>3
  <2> QED
    BY <2>4, <2>5 DEF p, c, ConnsOf
<1> QED
  BY <1>1, <1>2

\* A handler that places fd somewhere and tells who a note.
Telling(m, e, n, fd, room, who, note) ==
  /\ Paired(m.clients, n)
  /\ Placed(m, e, fd, room)
  /\ who \in SUBSET DOMAIN m.clients
  /\ who # {} => note \in Public
  /\ Tells(m, e, who, note)

\* Who is told in the server is told in the chat.
LEMMA TellsTold ==
  ASSUME NEW m, NEW e, NEW n, NEW fd, NEW room, NEW who, NEW note,
         Telling(m, e, n, fd, room, who, note)
  PROVE  ToldIn(e.clients, n) = TellAll(ConnsOf(m, who), note, ToldIn(m.clients, n))
<1> DEFINE to == {m.clients[g].conn : g \in who}
           t == ToldIn(m.clients, n)
           u == ToldIn(e.clients, n)
<1>0. /\ Paired(e.clients, n) /\ DOMAIN e.clients = DOMAIN m.clients
      /\ \A g \in DOMAIN m.clients : e.clients[g].conn = m.clients[g].conn
  <2>1. Paired(e.clients, n)
    BY PlacedPaired DEF Telling
  <2> QED
    BY <2>1 DEF Placed, Telling
<1>1. ASSUME NEW c \in Conns PROVE u[c] = IF c \in to THEN Append(t[c], note) ELSE t[c]
  <2>1. CASE \A g \in DOMAIN m.clients : m.clients[g].conn # c
    <3>1. c \notin to
      BY <2>1 DEF Telling
    <3>2. t[c] = Only(n[c].down, Public)
      BY <2>1, OthersPlace DEF Telling
    <3>3. \A g \in DOMAIN e.clients : e.clients[g].conn # c
      BY <1>0, <2>1
    <3>4. u[c] = Only(n[c].down, Public)
      BY ZenonT(60), <1>0, <3>3, OthersPlace
    <3> QED
      BY <3>1, <3>2, <3>4
  <2>2. ASSUME NEW g \in DOMAIN m.clients, m.clients[g].conn = c
        PROVE  u[c] = IF c \in to THEN Append(t[c], note) ELSE t[c]
    <3> DEFINE d == Only(n[c].down, Public)
               a == Pub(m.clients, g)
               b == Pub(e.clients, g)
    <3>1. c \in to <=> g \in who
      BY <2>2 DEF Paired, Telling
    <3>2. t[c] = d \o a /\ d \in Seq(Public) /\ a \in Seq(Public)
      BY <2>2, ClientsPlace DEF Telling
    <3>3. u[c] = d \o b
      <4>1. g \in DOMAIN e.clients /\ e.clients[g].conn = c
        BY <1>0, <2>2
      <4> QED
        BY <1>0, <4>1, ClientsPlace
    <3>4. b = IF g \in who THEN Append(a, note) ELSE a
      BY DEF Tells, Telling
    <3> HIDE DEF d, a, b, t, u, to
    <3>5. g \in who => d \o Append(a, note) = Append(d \o a, note)
      BY <3>2 DEF Telling
    <3> QED
      BY <3>1, <3>2, <3>3, <3>4, <3>5
  <2> QED
    BY <2>1, <2>2
<1>2. u = [c \in Conns |-> u[c]]
  BY DEF ToldIn
<1> HIDE DEF to, t, u
<1>3. u = TellAll(to, note, t)
  BY <1>1, <1>2 DEF TellAll
<1> QED
  BY <1>3 DEF to, t, u, ConnsOf

\* The note of ChatRooms.
ANote(kind, c, about) == [kind |-> kind, by |-> c, about |-> about]

\* The steps of the chat.
Moves(p, t, p2, t2, c, to) ==
  /\ p2 = [p EXCEPT ![c] = to]
  /\ t2 = TellAll(Around(p, c, to), ANote("entered", c, to),
                  TellAll(Around(p, c, p[c]), ANote("left", c, p[c]), t))

Speaks(p, t, p2, t2, c, text) ==
  /\ p[c] \in RoomNames
  /\ p2 = p
  /\ t2 = TellAll(Around(p, c, p[c]), ANote("message", c, text), t)

Nobody(p, t, p2, t2) == p2 = p /\ t2 = t

\* What the handlers say of rooms and in them is public.
LEMMA NoticesPublic ==
  ASSUME NEW c \in Conns
  PROVE  /\ \A kind \in {"entered", "left", "message"}, about \in Payloads \ {""} :
              ANote(kind, c, about) \in Public
         /\ RoomNames \subseteq Payloads \ {""}
BY WordsFacts DEF ANote, Public, Payloads

\* A handler that places fd in a room ...
Placing(m, e, n, fd, to) ==
  fd \in DOMAIN m.clients /\ Paired(m.clients, n) /\ Placed(m, e, fd, to)

\* ... moves its connection there ...
MovedTo(p, c, to) == [p EXCEPT ![c] = to]

\* ... and nobody else.
LEMMA PlacedPlaces ==
  ASSUME NEW m, NEW e, NEW n, NEW fd, NEW to, Placing(m, e, n, fd, to)
  PROVE  PlacesIn(e.clients, n) = MovedTo(PlacesIn(m.clients, n), m.clients[fd].conn, to)
<1> DEFINE p == PlacesIn(m.clients, n)
           q == PlacesIn(e.clients, n)
           c == m.clients[fd].conn
<1>0. fd \in DOMAIN m.clients /\ Paired(m.clients, n) /\ Placed(m, e, fd, to)
  BY DEF Placing
<1>1. Paired(e.clients, n)
  BY <1>0, PlacedPaired
<1>2. /\ DOMAIN e.clients = DOMAIN m.clients
      /\ \A g \in DOMAIN m.clients : /\ e.clients[g].conn = m.clients[g].conn
                                     /\ e.clients[g].room = IF g = fd THEN to ELSE m.clients[g].room
  BY <1>0 DEF Placed
<1>3. ASSUME NEW d \in Conns PROVE q[d] = IF d = c THEN to ELSE p[d]
  <2>1. CASE \A g \in DOMAIN m.clients : m.clients[g].conn # d
    <3>1. d # c /\ \A g \in DOMAIN e.clients : e.clients[g].conn # d
      BY <1>0, <1>2, <2>1
    <3>2. p[d] = IF n[d].status = "closed" THEN "closed" ELSE ""
      BY <1>0, <2>1, OthersPlace
    <3>3. q[d] = IF n[d].status = "closed" THEN "closed" ELSE ""
      BY <1>1, <3>1, OthersPlace
    <3> QED
      BY <3>1, <3>2, <3>3
  <2>2. ASSUME NEW g \in DOMAIN m.clients, m.clients[g].conn = d
        PROVE  q[d] = IF d = c THEN to ELSE p[d]
    <3>1. d = c <=> g = fd
      BY <1>0, <2>2 DEF Paired
    <3>2. p[d] = m.clients[g].room
      BY <1>0, <2>2, ClientsPlace
    <3>3. q[d] = e.clients[g].room
      <4>1. g \in DOMAIN e.clients /\ e.clients[g].conn = d
        BY <1>2, <2>2
      <4> QED
        BY <1>1, <4>1, ClientsPlace
    <3> QED
      BY <1>2, <3>1, <3>2, <3>3
  <2> QED
    BY <2>1, <2>2
<1>4. DOMAIN p = Conns /\ q = [d \in Conns |-> q[d]] /\ p = [d \in Conns |-> p[d]]
  BY DEF PlacesIn
<1>5. c \in Conns
  BY <1>0, ClientsPlace
<1> HIDE DEF p, q, c
<1>6. q = [p EXCEPT ![c] = to]
  BY <1>3, <1>4, <1>5
<1> QED
  BY <1>6 DEF p, q, c, MovedTo

\* To tell nobody is to tell nothing.
LEMMA TellAllNobody ==
  ASSUME NEW m, NEW n, NEW note
  PROVE  TellAll({}, note, ToldIn(m.clients, n)) = ToldIn(m.clients, n)
BY DEF TellAll, ToldIn

\* A handler that places fd and tells those in a room ...
PlacingTells(m, e, n, fd, to, room, kind, about) ==
  /\ Placing(m, e, n, fd, to)
  /\ Tells(m, e, There(m, fd, room), ChatNote(kind, m, fd, about))
  /\ room \in RoomNames => ChatNote(kind, m, fd, about) \in Public

\* ... tells, in the chat, those around its connection.
LEMMA PlacedTells ==
  ASSUME NEW m, NEW e, NEW n, NEW fd, NEW to, NEW room, NEW kind, NEW about,
         PlacingTells(m, e, n, fd, to, room, kind, about)
  PROVE  ToldIn(e.clients, n)
           = TellAll(Around(PlacesIn(m.clients, n), m.clients[fd].conn, room),
                     ANote(kind, m.clients[fd].conn, about), ToldIn(m.clients, n))
<1> DEFINE note == ChatNote(kind, m, fd, about)
           who == There(m, fd, room)
<1>1. who \in SUBSET DOMAIN m.clients /\ (who # {} => room \in RoomNames)
  BY DEF There
<1>5. ToldIn(e.clients, n) = TellAll(ConnsOf(m, who), note, ToldIn(m.clients, n))
  <2> HIDE DEF note, who
  <2>1. Telling(m, e, n, fd, to, who, note)
    BY <1>1 DEF Telling, note, who, PlacingTells, Placing
  <2> QED
    BY <2>1, TellsTold
<1>6. ConnsOf(m, who) = Around(PlacesIn(m.clients, n), m.clients[fd].conn, room)
  BY ThereAround DEF PlacingTells, Placing
<1> QED
  BY <1>5, <1>6 DEF ChatNote, ANote

\* Going is a move of the chat.
LEMMA GoesMoves ==
  ASSUME NEW m, NEW e, NEW n, NEW fd \in DOMAIN m.clients, NEW to \in Where, Paired(m.clients, n),
         m.clients[fd].room \in Where, Goes(m, e, fd, to)
  PROVE  Moves(PlacesIn(m.clients, n), ToldIn(m.clients, n), PlacesIn(e.clients, n),
               ToldIn(e.clients, n), m.clients[fd].conn, to)
<1> DEFINE c == m.clients[fd].conn
           room == m.clients[fd].room
           p == PlacesIn(m.clients, n)
           t == ToldIn(m.clients, n)
<1>1. c \in Conns /\ p[c] = room
  BY ClientsPlace
<1>2. PICK left : /\ Placed(m, left, fd, "")
                  /\ Tells(m, left, There(m, fd, room), ChatNote("left", m, fd, room))
                  /\ Tells(left, e, There(m, fd, to), ChatNote("entered", m, fd, to))
  BY DEF Goes
<1>3. Placed(m, e, fd, to)
  BY DEF Goes
<1>4. \A kind \in {"left", "entered"}, r \in RoomNames : ChatNote(kind, m, fd, r) \in Public
  BY <1>1, NoticesPublic DEF ChatNote, ANote
<1>5. ToldIn(left.clients, n) = TellAll(Around(p, c, room), ANote("left", c, room), t)
  <2>0. PICK r, none : r = m.clients[fd].room /\ none = ""
    OBVIOUS
  <2>1. PlacingTells(m, left, n, fd, none, r, "left", r)
    BY <1>2, <1>4, <2>0 DEF PlacingTells, Placing
  <2>2. ToldIn(left.clients, n)
          = TellAll(Around(PlacesIn(m.clients, n), m.clients[fd].conn, r),
                    ANote("left", m.clients[fd].conn, r), ToldIn(m.clients, n))
    BY <2>1, PlacedTells
  <2> QED
    BY <2>0, <2>2
<1>6. PlacesIn(left.clients, n) = MovedTo(p, c, "") /\ Paired(left.clients, n)
  <2>0. PICK none : none = ""
    OBVIOUS
  <2>1. Placing(m, left, n, fd, none)
    BY <1>2, <2>0 DEF Placing
  <2>2. Paired(left.clients, n)
    BY <1>2, PlacedPaired
  <2>3. PlacesIn(left.clients, n) = MovedTo(PlacesIn(m.clients, n), m.clients[fd].conn, none)
    BY <2>1, PlacedPlaces
  <2> QED
    BY <2>0, <2>2, <2>3
<1>7. /\ fd \in DOMAIN left.clients /\ left.clients[fd].conn = c
      /\ Placed(left, e, fd, to) /\ There(left, fd, to) = There(m, fd, to)
      /\ ChatNote("entered", left, fd, to) = ChatNote("entered", m, fd, to)
  <2>1. /\ fd \in DOMAIN left.clients /\ left.clients[fd].conn = c
        /\ DOMAIN left.clients = DOMAIN m.clients
        /\ \A g \in DOMAIN m.clients : /\ left.clients[g].conn = m.clients[g].conn
                                       /\ left.clients[g].room = IF g = fd THEN "" ELSE m.clients[g].room
    BY <1>2 DEF Placed
  <2>2. Placed(left, e, fd, to)
    BY <1>3, <2>1 DEF Placed
  <2>3. There(left, fd, to) = There(m, fd, to)
    BY <2>1 DEF There
  <2> QED
    BY <2>1, <2>2, <2>3 DEF ChatNote
<1>8. ToldIn(e.clients, n)
        = TellAll(Around(PlacesIn(left.clients, n), c, to), ANote("entered", c, to), ToldIn(left.clients, n))
  <2>1. Tells(left, e, There(left, fd, to), ChatNote("entered", left, fd, to))
    BY <1>2, <1>7
  <2>2. to \in RoomNames => ChatNote("entered", left, fd, to) \in Public
    BY <1>4, <1>7
  <2>3. ToldIn(e.clients, n)
          = TellAll(Around(PlacesIn(left.clients, n), left.clients[fd].conn, to),
                    ANote("entered", left.clients[fd].conn, to), ToldIn(left.clients, n))
    <3>1. PlacingTells(left, e, n, fd, to, to, "entered", to)
      BY <1>6, <1>7, <2>1, <2>2 DEF PlacingTells, Placing
    <3> QED
      BY <3>1, PlacedTells
  <2> QED
    BY <1>7, <2>3
<1>9. Around(PlacesIn(left.clients, n), c, to) = Around(p, c, to)
  <2>1. \A d \in Conns \ {c} : PlacesIn(left.clients, n)[d] = p[d]
    <3>1. DOMAIN p = Conns
      BY DEF PlacesIn
    <3> HIDE DEF p, c
    <3> QED
      BY <1>6, <3>1 DEF MovedTo
  <2> QED
    BY <2>1 DEF Around
<1>10. PlacesIn(e.clients, n) = MovedTo(p, c, to)
  <2>1. Placing(m, e, n, fd, to)
    BY <1>3 DEF Placing
  <2> QED
    BY <2>1, PlacedPlaces
<1> HIDE DEF p, t, c, room
<1>11. Moves(p, t, PlacesIn(e.clients, n), ToldIn(e.clients, n), c, to)
  BY <1>1, <1>5, <1>8, <1>9, <1>10 DEF Moves, MovedTo
<1> QED
  BY <1>11 DEF p, t, c

\* Who stays moves nobody.
LEMMA SamePlaces ==
  ASSUME NEW m, NEW e, NEW n, NEW fd \in DOMAIN m.clients,
         Paired(m.clients, n), Placed(m, e, fd, m.clients[fd].room)
  PROVE  PlacesIn(e.clients, n) = PlacesIn(m.clients, n)
<1> DEFINE p == PlacesIn(m.clients, n)
           c == m.clients[fd].conn
<1>1. PlacesIn(e.clients, n) = MovedTo(p, c, m.clients[fd].room)
  <2>1. Placing(m, e, n, fd, m.clients[fd].room)
    BY DEF Placing
  <2> QED
    BY <2>1, PlacedPlaces
<1>2. c \in Conns /\ p[c] = m.clients[fd].room
  BY ClientsPlace
<1>3. p = [d \in Conns |-> p[d]]
  BY DEF PlacesIn
<1> HIDE DEF p, c
<1>4. MovedTo(p, c, m.clients[fd].room) = p
  BY <1>2, <1>3 DEF MovedTo
<1> QED
  BY <1>1, <1>4 DEF p

\* What can be said.
Texts == Payloads \ {""}

\* Saying is speaking.
LEMMA SaysSpeaks ==
  ASSUME NEW m, NEW e, NEW n, NEW fd \in DOMAIN m.clients, NEW text \in Texts,
         Paired(m.clients, n), Says(m, e, fd, text)
  PROVE  Speaks(PlacesIn(m.clients, n), ToldIn(m.clients, n), PlacesIn(e.clients, n),
                ToldIn(e.clients, n), m.clients[fd].conn, text)
<1> DEFINE c == m.clients[fd].conn
           room == m.clients[fd].room
           p == PlacesIn(m.clients, n)
<1>1. c \in Conns /\ p[c] = room
  BY ClientsPlace
<1>2. /\ Placed(m, e, fd, room) /\ room \in RoomNames
      /\ Tells(m, e, There(m, fd, room), ChatNote("message", m, fd, text))
  BY DEF Says
<1>3. ChatNote("message", m, fd, text) \in Public
  BY <1>1, NoticesPublic DEF ChatNote, ANote, Texts
<1>4. ToldIn(e.clients, n) = TellAll(Around(p, c, room), ANote("message", c, text), ToldIn(m.clients, n))
  <2>0. PICK r : r = m.clients[fd].room
    OBVIOUS
  <2>1. PlacingTells(m, e, n, fd, r, r, "message", text)
    BY <1>2, <1>3, <2>0 DEF PlacingTells, Placing
  <2>2. ToldIn(e.clients, n)
          = TellAll(Around(PlacesIn(m.clients, n), m.clients[fd].conn, r),
                    ANote("message", m.clients[fd].conn, text), ToldIn(m.clients, n))
    <3> HIDE DEF c, room, p
    <3> QED
      BY <2>1, PlacedTells
  <2> QED
    BY <2>0, <2>2
<1>5. PlacesIn(e.clients, n) = p
  BY <1>2, SamePlaces
<1> QED
  BY <1>1, <1>2, <1>4, <1>5 DEF Speaks

\* Quiet is a stutter.
LEMMA QuietIsNobody ==
  ASSUME NEW m, NEW e, NEW n, NEW fd \in DOMAIN m.clients, Paired(m.clients, n), Quiet(m, e, fd)
  PROVE  Nobody(PlacesIn(m.clients, n), ToldIn(m.clients, n), PlacesIn(e.clients, n),
                ToldIn(e.clients, n))
<1>1. Placed(m, e, fd, m.clients[fd].room) /\ Tells(m, e, {}, 0)
  BY DEF Quiet
<1>2. Telling(m, e, n, fd, m.clients[fd].room, {}, 0)
  BY <1>1 DEF Telling
<1>3. ToldIn(e.clients, n) = TellAll(ConnsOf(m, {}), 0, ToldIn(m.clients, n))
  BY <1>2, TellsTold
<1>4. ConnsOf(m, {}) = {}
  BY DEF ConnsOf
<1>5. ToldIn(e.clients, n) = ToldIn(m.clients, n)
  BY <1>3, <1>4, TellAllNobody
<1> QED
  BY <1>1, <1>5, SamePlaces DEF Nobody

\* What a frame does to the chat.
ChatStep(p, t, p2, t2, c) ==
  \/ Nobody(p, t, p2, t2)
  \/ \E to \in Where : Moves(p, t, p2, t2, c, to)
  \/ \E text \in Payloads \ {""} : Speaks(p, t, p2, t2, c, text)

\* So what a frame does is a step of the chat.
LEMMA ActsStep ==
  ASSUME NEW m, NEW e, NEW n, NEW fd \in DOMAIN m.clients, Paired(m.clients, n),
         m.clients[fd].room \in Where, Acts(m, e, fd)
  PROVE  ChatStep(PlacesIn(m.clients, n), ToldIn(m.clients, n), PlacesIn(e.clients, n),
               ToldIn(e.clients, n), m.clients[fd].conn)
<1>1. CASE Quiet(m, e, fd)
  BY <1>1, QuietIsNobody DEF ChatStep
<1>2. ASSUME NEW to \in Where, Goes(m, e, fd, to)
      PROVE  \E r \in Where : Moves(PlacesIn(m.clients, n), ToldIn(m.clients, n),
                                    PlacesIn(e.clients, n), ToldIn(e.clients, n), m.clients[fd].conn, r)
  BY <1>2, GoesMoves
<1>3. ASSUME NEW text \in Payloads \ {""}, Says(m, e, fd, text)
      PROVE  \E x \in Payloads \ {""} : Speaks(PlacesIn(m.clients, n), ToldIn(m.clients, n),
                                    PlacesIn(e.clients, n), ToldIn(e.clients, n), m.clients[fd].conn, x)
  <2>1. text \in Texts
    BY DEF Texts
  <2> QED
    BY <1>3, <2>1, SaysSpeaks
<1> QED
  BY <1>1, <1>2, <1>3 DEF Acts, ChatStep
-----------------------------------------------------------------------------
(* The invariant of the refinement.                                        *)

\* Whatever has arrived is what a client may send, every open connection has a
\* client, and the loop has neither died nor lost track of a room.
UpInv == \A c \in Conns : net[c].up \in Seq(SentCells) /\ net[c].half \in Sent \cup {NoFrame}

WordsInv ==
  \A fd \in DOMAIN clients :
    /\ clients[fd].recv_buf \in Seq(SentCells)
    /\ clients[fd].name \in GivenNames
    /\ clients[fd].room \in Where

ServedInv == \A c \in Conns : net[c].status = "open" => \E fd \in DOMAIN clients : clients[fd].conn = c

TalkInv == UpInv /\ WordsInv /\ ServedInv /\ Agree(clients, rooms) /\ pc # "dead"

\* Every client has its open connection, and every open connection its client.
LEMMA InvPaired == IndInv /\ ServedInv => Paired(clients, net)
BY DEF IndInv, TypeOK, ConnsInv, ServedInv, Paired

LEMMA InvPairedNext == IndInv' /\ ServedInv' => Paired(clients', net')
BY DEF IndInv, TypeOK, ConnsInv, ServedInv, Paired, ClientMap, Client, Connection

-----------------------------------------------------------------------------
(* Steps the chat does not see.                                            *)

\* The same clients in the same rooms, and what they are told only further on its
\* way.
Alike(cmap, n, dmap, o) ==
  /\ Paired(cmap, n) /\ Paired(dmap, o)
  /\ DOMAIN dmap = DOMAIN cmap
  /\ \A fd \in DOMAIN cmap :
       /\ dmap[fd].conn = cmap[fd].conn /\ dmap[fd].room = cmap[fd].room
       /\ o[cmap[fd].conn].down \o dmap[fd].send_buf = n[cmap[fd].conn].down \o cmap[fd].send_buf
  /\ \A c \in Conns : /\ o[c].status = "open" <=> n[c].status = "open"
                      /\ o[c].status = "closed" <=> n[c].status = "closed"
                      /\ n[c].status # "open" => o[c].down = n[c].down

\* The chat does not see such a step.
LEMMA AlikeIsNobody ==
  ASSUME NEW cmap, NEW n, NEW dmap, NEW o, Alike(cmap, n, dmap, o)
  PROVE  Nobody(PlacesIn(cmap, n), ToldIn(cmap, n), PlacesIn(dmap, o), ToldIn(dmap, o))
<1>1. ASSUME NEW c \in Conns
      PROVE  /\ PlacesIn(dmap, o)[c] = PlacesIn(cmap, n)[c]
             /\ ToldIn(dmap, o)[c] = ToldIn(cmap, n)[c]
  <2>1. CASE n[c].status # "open"
    BY <2>1 DEF Alike, PlacesIn, ToldIn
  <2>2. CASE n[c].status = "open"
    <3>1. PICK fd \in DOMAIN cmap : cmap[fd].conn = c
      BY <2>2 DEF Alike, Paired
    <3>2. Whose(cmap, c) = fd
      BY <3>1 DEF Alike, Paired, Whose
    <3>3. fd \in DOMAIN dmap /\ dmap[fd].conn = c /\ dmap[fd].room = cmap[fd].room
      BY <3>1 DEF Alike
    <3>4. Whose(dmap, c) = fd
      BY <3>3 DEF Alike, Paired, Whose
    <3>5. o[c].status = "open"
      BY <2>2 DEF Alike
    <3>6. o[c].down \o dmap[fd].send_buf = n[c].down \o cmap[fd].send_buf
      BY <3>1 DEF Alike
    <3>7. PlacesIn(dmap, o)[c] = PlacesIn(cmap, n)[c]
      BY <2>2, <3>2, <3>3, <3>4, <3>5 DEF PlacesIn
    <3>8. ToldIn(dmap, o)[c] = ToldIn(cmap, n)[c]
      BY <2>2, <3>2, <3>4, <3>5, <3>6 DEF ToldIn
    <3> QED
      BY <3>7, <3>8
  <2> QED
    BY <2>1, <2>2
<1>2. /\ PlacesIn(dmap, o) = [c \in Conns |-> PlacesIn(dmap, o)[c]]
      /\ PlacesIn(cmap, n) = [c \in Conns |-> PlacesIn(cmap, n)[c]]
      /\ ToldIn(dmap, o) = [c \in Conns |-> ToldIn(dmap, o)[c]]
      /\ ToldIn(cmap, n) = [c \in Conns |-> ToldIn(cmap, n)[c]]
  BY DEF PlacesIn, ToldIn
<1>3. PlacesIn(dmap, o) = PlacesIn(cmap, n) /\ ToldIn(dmap, o) = ToldIn(cmap, n)
  BY <1>1, <1>2
<1> QED
  BY <1>3 DEF Nobody

\* What a client does of its own.
OnlySends ==
  /\ UNCHANGED server
  /\ \A c \in Conns :
       /\ net'[c].down = net[c].down
       /\ net'[c].status = "open" <=> net[c].status = "open"
       /\ net'[c].status = "closed" <=> net[c].status = "closed"
       /\ net'[c].up \in Seq(SentCells) /\ net'[c].half \in Sent \cup {NoFrame}

\* It keeps the invariant, and is one the chat does not see.
LEMMA SendsKeepTalk ==
  ASSUME IndInv, TalkInv, IndInv', OnlySends
  PROVE  TalkInv' /\ Alike(clients, net, clients', net')
<1>1. /\ clients' = clients /\ rooms' = rooms /\ pc' = pc
  BY DEF OnlySends, server
<1>2. WordsInv' /\ ServedInv' /\ UpInv'
  BY <1>1 DEF WordsInv, ServedInv, UpInv, TalkInv, OnlySends
<1>3. TalkInv'
  BY <1>1, <1>2 DEF TalkInv
<1>4. Paired(clients, net) /\ Paired(clients', net')
  BY <1>3, InvPaired, InvPairedNext DEF TalkInv
<1>5. \A fd \in DOMAIN clients : clients[fd].conn \in Conns
  BY ClientFields DEF IndInv, TypeOK
<1>6. Alike(clients, net, clients', net')
  BY <1>1, <1>4, <1>5 DEF Alike, OnlySends
<1> QED
  BY <1>3, <1>6

\* A step that touches one connection, and there nothing the server has.
LEMMA OneSends ==
  ASSUME TypeOK, UpInv, UNCHANGED server, NEW c \in Conns, NEW new,
         net' = [net EXCEPT ![c] = new], new.down = net[c].down,
         new.status = "open" <=> net[c].status = "open",
         new.status = "closed" <=> net[c].status = "closed",
         new.up \in Seq(SentCells), new.half \in Sent \cup {NoFrame}
  PROVE  OnlySends
<1>1. net \in [Conns -> Connection]
  BY DEF TypeOK
<1>2. net'[c] = new /\ \A d \in Conns \ {c} : net'[d] = net[d]
  BY <1>1
<1> QED
  BY <1>2 DEF OnlySends, UpInv

\* All that clients do is of this kind.
LEMMA ClientsOnlySend ==
  ASSUME TypeOK, UpInv, NEW c \in Conns,
         \/ Connect(c)
         \/ \E f \in ClientFrames[c] : Write(c, f) \/ WriteFirst(c, f)
         \/ WriteRest(c)
         \/ Read(c)
         \/ HangUp(c)
         \/ Reset(c)
  PROVE  OnlySends
<1>1. net[c] \in Connection /\ net[c].up \in Seq(SentCells) /\ net[c].half \in Sent \cup {NoFrame}
  BY ConnectionFields DEF UpInv
<1>2. \A f \in ClientFrames[c] : f \in Sent
  BY DEF Sent
<1>3. CASE Connect(c)
  <2> DEFINE new == [net[c] EXCEPT !.status = "queued"]
  <2>1. UNCHANGED server /\ net[c].status = "none" /\ net' = [net EXCEPT ![c] = new]
    BY <1>3 DEF Connect
  <2>2. /\ new.status = "queued" /\ new.down = net[c].down
        /\ new.up = net[c].up /\ new.half = net[c].half
    BY <1>1 DEF Connection
  <2> HIDE DEF new
  <2> QED
    BY <1>1, <2>1, <2>2, OneSends
<1>4. ASSUME NEW f \in ClientFrames[c], Write(c, f) PROVE OnlySends
  <2> DEFINE cells == <<[frame |-> f, part |-> "first"], [frame |-> f, part |-> "rest"]>>
             new == [net[c] EXCEPT !.up = @ \o cells]
  <2>1. UNCHANGED server /\ net' = [net EXCEPT ![c] = new]
    BY <1>4 DEF Write
  <2>2. cells \in Seq(SentCells)
    BY <1>2 DEF SentCells
  <2> HIDE DEF cells
  <2>3. /\ new.status = net[c].status /\ new.down = net[c].down
        /\ new.up = net[c].up \o cells /\ new.half = net[c].half
    BY <1>1 DEF Connection
  <2>4. new.up \in Seq(SentCells)
    BY <1>1, <2>2, <2>3
  <2> HIDE DEF new
  <2> QED
    BY <1>1, <2>1, <2>3, <2>4, OneSends
<1>5. ASSUME NEW f \in ClientFrames[c], WriteFirst(c, f) PROVE OnlySends
  <2> DEFINE cell == [frame |-> f, part |-> "first"]
             new == [net[c] EXCEPT !.up = Append(@, cell), !.half = f]
  <2>1. UNCHANGED server /\ net' = [net EXCEPT ![c] = new]
    <3>1. net \in [Conns -> Connection]
      BY DEF TypeOK
    <3> QED
      BY <1>5, <3>1 DEF WriteFirst
  <2>2. cell \in SentCells
    BY <1>2 DEF SentCells
  <2> HIDE DEF cell
  <2>3. /\ new.status = net[c].status /\ new.down = net[c].down
        /\ new.up = Append(net[c].up, cell) /\ new.half = f
    BY <1>1 DEF Connection
  <2>4. new.up \in Seq(SentCells) /\ new.half \in Sent
    BY <1>1, <1>2, <2>2, <2>3
  <2> HIDE DEF new
  <2> QED
    BY <2>1, <2>3, <2>4, OneSends
<1>6. CASE WriteRest(c)
  <2> DEFINE cell == [frame |-> net[c].half, part |-> "rest"]
             new == [net[c] EXCEPT !.up = Append(@, cell), !.half = NoFrame]
  <2>1. UNCHANGED server /\ net[c].half # NoFrame /\ net' = [net EXCEPT ![c] = new]
    <3>1. net \in [Conns -> Connection]
      BY DEF TypeOK
    <3> QED
      BY <1>6, <3>1 DEF WriteRest
  <2>2. cell \in SentCells
    BY <1>1, <2>1 DEF SentCells
  <2> HIDE DEF cell
  <2>3. /\ new.status = net[c].status /\ new.down = net[c].down
        /\ new.up = Append(net[c].up, cell) /\ new.half = NoFrame
    BY <1>1 DEF Connection
  <2>4. new.up \in Seq(SentCells)
    BY <1>1, <2>2, <2>3
  <2> HIDE DEF new
  <2> QED
    BY <2>1, <2>3, <2>4, OneSends
<1>7. CASE Read(c)
  <2> DEFINE new == [net[c] EXCEPT !.read = Len(net[c].down)]
  <2>1. UNCHANGED server /\ net' = [net EXCEPT ![c] = new]
    BY <1>7 DEF Read
  <2>2. /\ new.status = net[c].status /\ new.down = net[c].down
        /\ new.up = net[c].up /\ new.half = net[c].half
    BY <1>1 DEF Connection
  <2> HIDE DEF new
  <2> QED
    BY <1>1, <2>1, <2>2, OneSends
<1>8. CASE HangUp(c) \/ Reset(c)
  <2>1. PICK end \in {"fin", "reset"} :
          UNCHANGED server /\ net' = [net EXCEPT ![c] = [net[c] EXCEPT !.end = end]]
    BY <1>8 DEF HangUp, Reset
  <2> DEFINE new == [net[c] EXCEPT !.end = end]
  <2>2. UNCHANGED server /\ net' = [net EXCEPT ![c] = new]
    BY <2>1
  <2>3. /\ new.status = net[c].status /\ new.down = net[c].down
        /\ new.up = net[c].up /\ new.half = net[c].half
    BY <1>1 DEF Connection
  <2> HIDE DEF new
  <2> QED
    BY <1>1, <2>2, <2>3, OneSends
<1> QED
  BY <1>3, <1>4, <1>5, <1>6, <1>7, <1>8

\* What a step of the server must give: the invariant, and a step of the chat or
\* none.
Unseen == TalkInv' /\ Nobody(Places, Told, Places', Told')

LEMMA AlikeUnseen ==
  ASSUME TalkInv', Alike(clients, net, clients', net')
  PROVE  Unseen
<1>1. Nobody(PlacesIn(clients, net), ToldIn(clients, net), PlacesIn(clients', net'), ToldIn(clients', net'))
  BY AlikeIsNobody
<1> QED
  BY <1>1, ChatNow, ChatNext DEF Unseen

\* Clients, poll(), recv(), accept() and send() are none of the chat.
LEMMA ClientsUnseen ==
  ASSUME IndInv, TalkInv, IndInv', NEW c \in Conns,
         \/ Connect(c)
         \/ \E f \in ClientFrames[c] : Write(c, f) \/ WriteFirst(c, f)
         \/ WriteRest(c)
         \/ Read(c)
         \/ HangUp(c)
         \/ Reset(c)
  PROVE  Unseen
<1>1. OnlySends
  BY ClientsOnlySend DEF IndInv, TalkInv
<1> QED
  BY <1>1, SendsKeepTalk, AlikeUnseen

\* A step that touches no map and no connection.
LEMMA NothingUnseen ==
  ASSUME IndInv, TalkInv, clients' = clients, rooms' = rooms, net' = net, pc' # "dead"
  PROVE  Unseen
<1>1. TalkInv'
  BY DEF TalkInv, UpInv, WordsInv, ServedInv
<1>2. Paired(clients, net)
  BY InvPaired DEF TalkInv
<1>3. Alike(clients, net, clients', net')
  BY <1>2 DEF Alike
<1> QED
  BY <1>1, <1>3, AlikeUnseen

LEMMA PollUnseen ==
  ASSUME IndInv, TalkInv, Poll
  PROVE  Unseen
<1>1. clients' = clients /\ rooms' = rooms /\ net' = net /\ pc' # "dead"
  BY DEF Poll
<1> QED
  BY <1>1, NothingUnseen

LEMMA ReceiveUnseen ==
  ASSUME IndInv, TalkInv, IndInv', NEW fd \in Fds, Receive(fd)
  PROVE  Unseen
<1>1. /\ pc = "serve" /\ fd \in DOMAIN ready /\ rooms' = rooms
      /\ pc' \in {"decode", "flush"}
  BY DEF Receive
<1>2. fd \in DOMAIN clients
  BY <1>1 DEF IndInv, LoopInv
<1>3. clients \in ClientMap /\ net \in [Conns -> Connection]
  BY DEF IndInv, TypeOK
<1>4. CASE "in" \notin ready[fd]
  BY <1>1, <1>4, NothingUnseen DEF Receive
<1>5. CASE "in" \in ready[fd]
  <2> DEFINE c == clients[fd].conn
             cl == [clients[fd] EXCEPT !.recv_buf = @ \o Of(fd).up]
             new == [net[c] EXCEPT !.up = << >>]
  <2>1. clients' = [clients EXCEPT ![fd] = cl] /\ net' = [net EXCEPT ![c] = new]
    BY <1>3, <1>5 DEF Receive
  <2>2. clients[fd] \in Client /\ c \in Conns
    BY <1>2, <1>3, ClientFields
  <2>3. net[c] \in Connection /\ Of(fd) = net[c]
    BY <1>3, <2>2 DEF Of
  <2>4. clients[fd].recv_buf \o net[c].up \in Seq(SentCells)
    BY <1>2, <2>2 DEF TalkInv, WordsInv, UpInv
  <2>5. /\ cl.conn = c /\ cl.name = clients[fd].name /\ cl.room = clients[fd].room
        /\ cl.send_buf = clients[fd].send_buf /\ cl.recv_buf \in Seq(SentCells)
    BY <2>2, <2>3, <2>4 DEF Client
  <2>6. new.status = net[c].status /\ new.down = net[c].down /\ new.up = << >> /\ new.half = net[c].half
    BY <2>3 DEF Connection
  <2> HIDE DEF c, cl, new
  <2>7. /\ DOMAIN clients' = DOMAIN clients /\ clients'[fd] = cl
        /\ \A g \in DOMAIN clients \ {fd} : clients'[g] = clients[g]
    BY <1>2, <2>1
  <2>8. net'[c] = new /\ \A d \in Conns \ {c} : net'[d] = net[d]
    BY <1>3, <2>1, <2>2
  <2>9. \A g \in DOMAIN clients : /\ clients'[g].conn = clients[g].conn
                                  /\ clients'[g].name = clients[g].name
                                  /\ clients'[g].room = clients[g].room
                                  /\ clients'[g].send_buf = clients[g].send_buf
    BY <2>5, <2>7 DEF c
  <2>10. \A d \in Conns : net'[d].status = net[d].status /\ net'[d].down = net[d].down
    BY <2>6, <2>8
  <2>11. UpInv'
    <3>1. << >> \in Seq(SentCells)
      OBVIOUS
    <3> QED
      BY <2>2, <2>6, <2>8, <3>1 DEF UpInv, TalkInv
  <2>12. WordsInv'
    BY <2>5, <2>7, <2>9 DEF WordsInv, TalkInv
  <2>13. ServedInv'
    BY <2>7, <2>9, <2>10 DEF ServedInv, TalkInv
  <2>14. Agree(clients', rooms')
    BY <1>1, <2>7, <2>9 DEF Agree, TalkInv
  <2>15. TalkInv'
    BY <1>1, <2>11, <2>12, <2>13, <2>14 DEF TalkInv
  <2>16. Paired(clients, net) /\ Paired(clients', net')
    BY <2>13, InvPaired, InvPairedNext DEF TalkInv
  <2>17. \A g \in DOMAIN clients : clients[g].conn \in Conns
    BY <1>3, ClientFields
  <2>18. Alike(clients, net, clients', net')
    BY <2>7, <2>9, <2>10, <2>16, <2>17 DEF Alike
  <2> QED
    BY <2>15, <2>18, AlikeUnseen
<1> QED
  BY <1>4, <1>5

LEMMA AcceptUnseen ==
  ASSUME IndInv, TalkInv, IndInv', Accept
  PROVE  Unseen
<1> DEFINE c  == Min(Queued)
           fd == Min(Fds \ DOMAIN clients)
           cl == [conn |-> c, name |-> "", room |-> "", recv_buf |-> << >>, send_buf |-> << >>]
           new == [net[c] EXCEPT !.status = "open"]
<1>0. TypeOK /\ ConnsInv /\ LoopInv
  BY DEF IndInv
<1>1. /\ pc = "accept" /\ rooms' = rooms /\ pc' # "dead"
      /\ clients' = Put(clients, fd, cl) /\ net' = [net EXCEPT ![c] = new]
  BY DEF Accept, Turn
<1>2. c \in Queued
  <2>1. Queued # {}
    BY <1>0, <1>1 DEF LoopInv
  <2>2. Queued \in SUBSET Nat
    BY DEF Queued, Conns
  <2> QED
    BY <2>1, <2>2, MinProperties
<1>3. fd \in Fds \ DOMAIN clients
  <2>1. Fds \ DOMAIN clients \in SUBSET Nat /\ Fds \ DOMAIN clients # {}
    BY <1>0, <1>2, DescriptorFree DEF Fds
  <2> QED
    BY <2>1, MinProperties
<1> HIDE DEF c, fd
<1>4. c \in Conns /\ net[c].status = "queued"
  BY <1>2 DEF Queued
<1>5. clients \in ClientMap /\ net \in [Conns -> Connection] /\ net[c] \in Connection
  BY <1>0, <1>4 DEF TypeOK
<1>6. cl.conn = c /\ cl.name = "" /\ cl.room = "" /\ cl.recv_buf = << >> /\ cl.send_buf = << >>
  OBVIOUS
<1>7. new.status = "open" /\ new.down = net[c].down /\ new.up = net[c].up /\ new.half = net[c].half
  BY <1>5 DEF Connection
<1> HIDE DEF cl, new
<1>8. /\ DOMAIN clients' = DOMAIN clients \cup {fd}
      /\ clients'[fd] = cl
      /\ \A g \in DOMAIN clients : g # fd /\ clients'[g] = clients[g]
  BY <1>1, <1>3 DEF Put
<1>9. net'[c] = new /\ \A d \in Conns \ {c} : net'[d] = net[d]
  BY <1>1, <1>4, <1>5
<1>10. UpInv'
  BY <1>4, <1>7, <1>9 DEF UpInv, TalkInv
<1>11. WordsInv'
  <2>1. << >> \in Seq(SentCells)
    OBVIOUS
  <2>2. "" \in GivenNames /\ "" \in Where
    BY WordsFacts DEF Where
  <2> QED
    BY <1>6, <1>8, <2>1, <2>2 DEF WordsInv, TalkInv
<1>12. ServedInv'
  <2> SUFFICES ASSUME NEW d \in Conns, net'[d].status = "open"
               PROVE  \E g \in DOMAIN clients' : clients'[g].conn = d
    BY DEF ServedInv
  <2>1. CASE d = c
    BY <1>6, <1>8, <2>1
  <2>2. CASE d # c
    BY <1>8, <1>9, <2>2 DEF ServedInv, TalkInv
  <2> QED
    BY <2>1, <2>2
<1>13. Agree(clients', rooms')
  <2> SUFFICES ASSUME NEW r \in RoomNames
               PROVE  /\ r \in DOMAIN rooms => rooms[r] # {}
                      /\ {g \in DOMAIN clients' : clients'[g].room = r} = In(rooms, r)
    BY <1>1 DEF Agree
  <2>1. /\ r \in DOMAIN rooms => rooms[r] # {}
        /\ {g \in DOMAIN clients : clients[g].room = r} = In(rooms, r)
    BY DEF Agree, TalkInv
  <2>2. r # ""
    BY RoomsAssumption
  <2> QED
    BY <1>6, <1>8, <2>1, <2>2
<1>14. TalkInv'
  BY <1>1, <1>10, <1>11, <1>12, <1>13 DEF TalkInv
<1>15. Paired(clients, net) /\ Paired(clients', net')
  BY <1>12, InvPaired, InvPairedNext DEF TalkInv
<1>16. ASSUME NEW d \in Conns
       PROVE  /\ PlacesIn(clients', net')[d] = PlacesIn(clients, net)[d]
              /\ ToldIn(clients', net')[d] = ToldIn(clients, net)[d]
  <2>1. CASE d = c
    <3>1. fd \in DOMAIN clients' /\ clients'[fd].conn = d
      BY <1>6, <1>8, <2>1
    <3>2. Whose(clients', d) = fd
      BY <1>15, <3>1 DEF Paired, Whose
    <3>3. /\ net[d].status = "queued" /\ net'[d].status = "open" /\ net'[d].down = net[d].down
          /\ clients'[fd].room = "" /\ clients'[fd].send_buf = << >>
      BY <1>4, <1>6, <1>7, <1>8, <1>9, <2>1
    <3> QED
      BY <3>2, <3>3 DEF PlacesIn, ToldIn
  <2>2. CASE d # c /\ net[d].status = "open"
    <3>1. PICK g \in DOMAIN clients : clients[g].conn = d
      BY <1>15, <2>2 DEF Paired
    <3>2. g \in DOMAIN clients' /\ clients'[g] = clients[g] /\ net'[d] = net[d]
      BY <1>8, <1>9, <2>2, <3>1
    <3>3. Whose(clients, d) = g /\ Whose(clients', d) = g
      BY <1>15, <3>1, <3>2 DEF Paired, Whose
    <3> QED
      BY <3>2, <3>3 DEF PlacesIn, ToldIn
  <2>3. CASE d # c /\ net[d].status # "open"
    <3>1. net'[d] = net[d]
      BY <1>9, <2>3
    <3> QED
      BY <2>3, <3>1 DEF PlacesIn, ToldIn
  <2> QED
    BY <2>1, <2>2, <2>3
<1>17. PlacesIn(clients', net') = PlacesIn(clients, net) /\ ToldIn(clients', net') = ToldIn(clients, net)
  <2>1. /\ PlacesIn(clients', net') = [d \in Conns |-> PlacesIn(clients', net')[d]]
        /\ PlacesIn(clients, net) = [d \in Conns |-> PlacesIn(clients, net)[d]]
        /\ ToldIn(clients', net') = [d \in Conns |-> ToldIn(clients', net')[d]]
        /\ ToldIn(clients, net) = [d \in Conns |-> ToldIn(clients, net)[d]]
    BY DEF PlacesIn, ToldIn
  <2> QED
    BY <1>16, <2>1
<1> QED
  BY <1>14, <1>17, ChatNow, ChatNext DEF Unseen, Nobody

\* What is sent and what is kept is what was queued.
LEMMA FlushedWhole ==
  ASSUME IndInv, pc = "flush"
  PROVE  /\ Flushed.sent \in Seq(Notes) /\ Flushed.kept \in Seq(Notes)
         /\ \E rest \in Seq(Notes) : clients[at].send_buf = Flushed.sent \o rest
         /\ ~ Failed => clients[at].send_buf = Flushed.sent \o Flushed.kept
<1> DEFINE c == clients[at].conn
           n == IF "out" \in ready[at] /\ Of(at).end # "reset" THEN Free(Of(at)) ELSE 0
           s == clients[at].send_buf
           k == Min({n, Len(s)})
<1>1. at \in DOMAIN clients /\ clients \in ClientMap
  BY DEF IndInv, LoopInv, TypeOK
<1>2. s \in Seq(Notes) /\ Len(s) \in Nat /\ c \in Conns
  BY <1>1, ClientFields, LenProperties
<1>3. Of(at) = net[c] /\ net[c].status = "open"
  BY <1>1 DEF Of, IndInv, ConnsInv
<1>4. net[c].read \in Nat /\ Len(net[c].down) \in Nat
  BY <1>2, ConnectionFields DEF IndInv
<1>5. Len(net[c].down) <= net[c].read + SocketRoom /\ SocketRoom \in Nat
  BY <1>2, <1>3, RoomsAssumption DEF IndInv, SocketInv
<1>6. n \in Nat
  <2>1. \A room, down, read \in Nat : down <= read + room => room - (down - read) \in Nat
    OBVIOUS
  <2>2. Free(Of(at)) \in Nat
    BY <1>3, <1>4, <1>5, <2>1 DEF Free
  <2> QED
    BY <2>2
<1>7. Flushed.sent = SubSeq(s, 1, k) /\ Flushed.kept = SubSeq(s, n + 1, Len(s))
  BY DEF Flushed
<1> HIDE DEF n, s
<1>8. k \in {n, Len(s)} /\ k <= n /\ k <= Len(s)
  <2>1. {n, Len(s)} \in SUBSET Nat /\ {n, Len(s)} # {}
    BY <1>2, <1>6
  <2> QED
    BY <2>1, MinProperties
<1> HIDE DEF k
<1>9. k \in Nat
  BY <1>2, <1>6, <1>8
<1>10. SubSeq(s, 1, k) \in Seq(Notes) /\ SubSeq(s, k + 1, Len(s)) \in Seq(Notes)
       /\ SubSeq(s, n + 1, Len(s)) \in Seq(Notes)
  BY <1>2, <1>6, <1>8, <1>9
<1>11. s = SubSeq(s, 1, k) \o SubSeq(s, k + 1, Len(s))
  <2>1. PICK m, l : m = 1 /\ l = Len(s)
    OBVIOUS
  <2>2. m \in 1 .. Len(s) + 1 /\ k \in m - 1 .. Len(s) /\ l \in k .. Len(s)
    BY <1>2, <1>8, <1>9, <2>1
  <2>3. SubSeq(s, m, k) \o SubSeq(s, k + 1, l) = SubSeq(s, m, l)
    BY <1>2, <2>2, ConcatAdjacentSubSeq
  <2>4. SubSeq(s, 1, Len(s)) = s
    BY <1>2
  <2> QED
    BY <2>1, <2>3, <2>4
<1>12. SubSeq(s, n + 1, Len(s)) = SubSeq(s, k + 1, Len(s))
  <2>1. CASE k = n
    BY <2>1
  <2>2. CASE k = Len(s)
    <3>1. Len(SubSeq(s, n + 1, Len(s))) = 0 /\ Len(SubSeq(s, k + 1, Len(s))) = 0
      BY <1>2, <1>6, <1>8, <2>2
    <3> QED
      BY <1>10, <3>1, EmptySeq
  <2> QED
    BY <1>8, <2>1, <2>2
<1> QED
  BY <1>7, <1>10, <1>11, <1>12 DEF s

LEMMA KeepUnseen ==
  ASSUME IndInv, TalkInv, IndInv', Keep
  PROVE  Unseen
<1> DEFINE c == clients[at].conn
           cl == [clients[at] EXCEPT !.send_buf = Flushed.kept]
           new == [net[c] EXCEPT !.down = @ \o Flushed.sent]
<1>1. /\ pc = "flush" /\ ~ Failed /\ EndService /\ rooms' = rooms
      /\ net' = [net EXCEPT ![c] = new]
  BY DEF Keep
<1>2. at \in DOMAIN clients /\ clients \in ClientMap /\ net \in [Conns -> Connection] /\ pc' # "dead"
  BY <1>1 DEF IndInv, LoopInv, TypeOK, EndService, Turn
<1>3. clients' = [clients EXCEPT ![at] = cl]
  BY <1>2 DEF Keep
<1>4. clients[at] \in Client /\ c \in Conns
  BY <1>2, ClientFields
<1>5. net[c] \in Connection /\ net[c].down \in Seq(Notes)
  BY <1>2, <1>4 DEF Connection
<1>6. /\ Flushed.sent \in Seq(Notes) /\ Flushed.kept \in Seq(Notes)
      /\ clients[at].send_buf = Flushed.sent \o Flushed.kept
  BY <1>1, FlushedWhole
<1>7. /\ cl.conn = c /\ cl.name = clients[at].name /\ cl.room = clients[at].room
      /\ cl.recv_buf = clients[at].recv_buf /\ cl.send_buf = Flushed.kept
  BY <1>4 DEF Client
<1>8. /\ new.status = net[c].status /\ new.up = net[c].up /\ new.half = net[c].half
      /\ new.down = net[c].down \o Flushed.sent
  BY <1>5 DEF Connection
<1>9. new.down \o cl.send_buf = net[c].down \o clients[at].send_buf
  <2>1. PICK x, y, z \in Seq(Notes) : x = net[c].down /\ y = Flushed.sent /\ z = Flushed.kept
    BY <1>5, <1>6
  <2>2. (x \o y) \o z = x \o (y \o z)
    BY ConcatAssociative
  <2> QED
    BY <1>6, <1>7, <1>8, <2>1, <2>2
<1> HIDE DEF c, cl, new
<1>10. /\ DOMAIN clients' = DOMAIN clients
       /\ clients'[at] = cl
       /\ \A g \in DOMAIN clients \ {at} : clients'[g] = clients[g]
  BY <1>2, <1>3
<1>11. net'[c] = new /\ \A d \in Conns \ {c} : net'[d] = net[d]
  BY <1>1, <1>2, <1>4
<1>12. \A g \in DOMAIN clients : /\ clients'[g].conn = clients[g].conn
                                 /\ clients'[g].name = clients[g].name
                                 /\ clients'[g].room = clients[g].room
                                 /\ clients'[g].recv_buf = clients[g].recv_buf
  BY <1>7, <1>10 DEF c
<1>13. \A d \in Conns : /\ net'[d].status = net[d].status
                        /\ net'[d].up = net[d].up /\ net'[d].half = net[d].half
  BY <1>8, <1>11
<1>14. UpInv' /\ WordsInv' /\ ServedInv'
  BY <1>10, <1>12, <1>13 DEF UpInv, WordsInv, ServedInv, TalkInv
<1>15. Agree(clients', rooms')
  BY <1>1, <1>10, <1>12 DEF Agree, TalkInv
<1>16. TalkInv'
  BY <1>2, <1>14, <1>15 DEF TalkInv
<1>17. Paired(clients, net) /\ Paired(clients', net')
  BY SMTT(30), <1>14, InvPaired, InvPairedNext DEF TalkInv
<1>18. \A g \in DOMAIN clients :
         net'[clients[g].conn].down \o clients'[g].send_buf
           = net[clients[g].conn].down \o clients[g].send_buf
  <2> TAKE g \in DOMAIN clients
  <2>1. CASE g = at
    BY <1>9, <1>10, <1>11, <2>1 DEF c
  <2>2. CASE g # at
    <3>1. clients[g].conn # c /\ clients[g].conn \in Conns
      BY <1>2, <1>17, <2>2, ClientFields DEF Paired, c
    <3> QED
      BY <1>10, <1>11, <2>2, <3>1
  <2> QED
    BY <2>1, <2>2
<1>19. \A d \in Conns : net[d].status # "open" => net'[d].down = net[d].down
  <2>1. net[c].status = "open"
    BY SMTT(30), <1>2, <1>17 DEF Paired, c
  <2> QED
    BY <1>11, <2>1
<1>20. Alike(clients, net, clients', net')
  BY <1>10, <1>12, <1>13, <1>17, <1>18, <1>19 DEF Alike
<1> QED
  BY <1>16, <1>20, AlikeUnseen

\* Acting takes nobody to a room that is none.
LEMMA ActsPlaces ==
  ASSUME NEW m, NEW e, NEW fd \in DOMAIN m.clients, Acts(m, e, fd),
         \A g \in DOMAIN m.clients : m.clients[g].room \in Where
  PROVE  /\ e \in TwoMaps /\ DOMAIN e.clients = DOMAIN m.clients
         /\ \A g \in DOMAIN m.clients : /\ e.clients[g].conn = m.clients[g].conn
                                        /\ e.clients[g].room \in Where
<1>1. PICK room \in Where : Placed(m, e, fd, room)
  BY DEF Acts, Quiet, Goes, Says
<1> QED
  BY <1>1 DEF Placed

\* A step of the chat of one who takes part.
Shown == \E c \in Conns : /\ Places[c] # "closed"
                          /\ ChatStep(Places, Told, Places', Told', c)

LEMMA UnseenShown ==
  ASSUME IndInv, TalkInv, Unseen
  PROVE  TalkInv' /\ (Shown \/ Nobody(Places, Told, Places', Told'))
BY DEF Unseen

\* A frame is a step of the chat of the one who sent it.
LEMMA DecodeShown ==
  ASSUME NoticesFit, IndInv, TalkInv, IndInv', Decode
  PROVE  TalkInv' /\ (Shown \/ Nobody(Places, Told, Places', Told'))
<1> DEFINE buf == clients[at].recv_buf
<1>1. pc = "decode" /\ net' = net /\ pc' # "dead"
  BY DEF Decode
<1>2. at \in DOMAIN clients /\ clients \in ClientMap /\ rooms \in RoomMap
  BY <1>1 DEF IndInv, LoopInv, TypeOK
<1>3. clients[at] \in Client /\ buf \in Seq(SentCells)
  BY <1>2, ClientFields DEF TalkInv, WordsInv
<1>4. CASE Broken(buf) \/ ~ Whole(buf)
  <2>1. UNCHANGED <<clients, rooms>>
    BY <1>4 DEF Decode
  <2>2. Unseen
    BY <1>1, <2>1, NothingUnseen
  <2> QED
    BY <2>2, UnseenShown
<1>5. CASE ~ Broken(buf) /\ Whole(buf)
  <2> DEFINE left == SubSeq(buf, 3, Len(buf))
             cl == [clients[at] EXCEPT !.recv_buf = left]
             cmap == [clients EXCEPT ![at] = cl]
             m == [Maps EXCEPT !.clients = cmap]
             frame == buf[1].frame
             done == ProcessMessage(m, at, frame)
  <2>1. [Maps EXCEPT !.clients[at].recv_buf = left] = m
    <3>1. Maps \in TwoMaps /\ Maps.clients = clients
      BY <1>2 DEF Maps, TwoMaps
    <3> QED
      BY <1>3, <3>1 DEF TwoMaps, Client
  <2>2. clients' = done.clients /\ rooms' = done.rooms
    BY <1>5, <2>1 DEF Decode
  <2>3. left \in Seq(SentCells) /\ left \in Seq(Cells) /\ frame \in Sent /\ frame \in Frames
    <3>1. Len(buf) \in Nat /\ Len(buf) > 1
      BY <1>3, <1>5, LenProperties DEF Whole
    <3>2. 1 \in 1 .. Len(buf)
      BY <3>1
    <3>3. buf[1] \in SentCells
      BY <1>3, <3>2, ElementOfSeq
    <3>4. left \in Seq(SentCells)
      BY <1>3, <3>1
    <3>5. buf \in Seq(Cells)
      BY <1>2, ClientFields
    <3>6. left \in Seq(Cells)
      BY <3>1, <3>5
    <3> QED
      BY <3>3, <3>4, <3>6, SentFacts DEF SentCells
  <2>4. /\ cl \in Client /\ cl.conn = clients[at].conn /\ cl.room = clients[at].room
        /\ cl.name = clients[at].name /\ cl.send_buf = clients[at].send_buf /\ cl.recv_buf = left
    BY <1>3, <2>3 DEF Client
  <2> HIDE DEF left, cl, frame
  <2>5. /\ DOMAIN cmap = DOMAIN clients
        /\ cmap[at] = cl
        /\ \A g \in DOMAIN clients \ {at} : cmap[g] = clients[g]
        /\ cmap \in ClientMap
    BY <1>2, <2>4, MapTypes
  <2> HIDE DEF cmap
  <2>6. m \in TwoMaps /\ m.clients = cmap /\ m.rooms = rooms /\ ~ m.threw
    <3>1. Maps \in TwoMaps /\ Maps.rooms = rooms /\ Maps.threw = FALSE
      BY <1>2 DEF Maps, TwoMaps
    <3> QED
      BY <2>5, <3>1 DEF TwoMaps
  <2>7. \A g \in DOMAIN clients : /\ cmap[g].conn = clients[g].conn
                                  /\ cmap[g].room = clients[g].room
                                  /\ cmap[g].name = clients[g].name
                                  /\ cmap[g].send_buf = clients[g].send_buf
                                  /\ cmap[g].recv_buf \in Seq(SentCells)
    BY <2>3, <2>4, <2>5 DEF TalkInv, WordsInv
  <2>8. Agree(cmap, rooms)
    BY <2>5, <2>7 DEF Agree, TalkInv
  <2>9. \A g \in DOMAIN clients : cmap[g].room \in Where /\ cmap[g].name \in GivenNames
    BY <2>7 DEF TalkInv, WordsInv
  <2>10. Named(m)
    BY <2>5, <2>6, <2>9 DEF Named
  <2>11. at \in DOMAIN m.clients /\ m.clients[at].room \in Where /\ Agree(m.clients, m.rooms)
    BY <1>2, <2>5, <2>6, <2>8, <2>9
  <2> HIDE DEF m
  <2>12. PICK e : e = done
    OBVIOUS
  <2>13. Acts(m, e, at) /\ Named(e) /\ Agree(e.clients, e.rooms)
    BY <2>3, <2>6, <2>10, <2>11, <2>12, ProcessActs
  <2>14. SameClients(m, e)
    BY <2>3, <2>6, <2>11, <2>12, ProcessAgrees
  <2> HIDE DEF done, buf
  <2>15. /\ e \in TwoMaps /\ DOMAIN e.clients = DOMAIN clients
         /\ \A g \in DOMAIN clients : /\ e.clients[g].conn = clients[g].conn
                                      /\ e.clients[g].room \in Where
    BY <2>5, <2>6, <2>7, <2>9, <2>11, <2>13, ActsPlaces
  <2>16. \A g \in DOMAIN clients : /\ e.clients[g].recv_buf \in Seq(SentCells)
                                   /\ e.clients[g].name \in GivenNames
    BY <2>5, <2>6, <2>7, <2>13, <2>14, <2>15 DEF SameClients, Named
  <2>17. TalkInv'
    <3>1. WordsInv'
      BY <2>2, <2>12, <2>15, <2>16 DEF WordsInv
    <3>2. ServedInv'
      BY <1>1, <2>2, <2>12, <2>15 DEF ServedInv, TalkInv
    <3>3. UpInv' /\ Agree(clients', rooms')
      BY <1>1, <2>2, <2>12, <2>13 DEF UpInv, TalkInv
    <3> QED
      BY <1>1, <3>1, <3>2, <3>3 DEF TalkInv
  <2>18. Paired(clients, net)
    BY InvPaired DEF TalkInv
  <2>19. Paired(cmap, net)
    BY <2>5, <2>7, <2>18 DEF Paired
  <2>20. Alike(clients, net, cmap, net)
    BY <2>5, <2>7, <2>18, <2>19 DEF Alike
  <2>21. PlacesIn(cmap, net) = Places /\ ToldIn(cmap, net) = Told
    BY <2>20, AlikeIsNobody, ChatNow DEF Nobody
  <2>22. PlacesIn(e.clients, net) = Places' /\ ToldIn(e.clients, net) = Told'
    BY <1>1, <2>2, <2>12, ChatNext
  <2>23. ChatStep(PlacesIn(m.clients, net), ToldIn(m.clients, net), PlacesIn(e.clients, net),
                  ToldIn(e.clients, net), m.clients[at].conn)
    BY <2>6, <2>11, <2>13, <2>19, ActsStep
  <2>24. PICK c \in Conns : c = m.clients[at].conn /\ PlacesIn(m.clients, net)[c] = m.clients[at].room
    BY <2>6, <2>11, <2>19, ClientsPlace
  <2>25. ChatStep(Places, Told, Places', Told', c) /\ Places[c] # "closed"
    BY <2>6, <2>11, <2>21, <2>22, <2>23, <2>24, WordsFacts
  <2> QED
    BY <2>17, <2>25 DEF Shown
<1> QED
  BY <1>4, <1>5

-----------------------------------------------------------------------------
(* Dropping a client.                                                      *)

\* ChatRooms' Depart.
Departs(p, t, p2, t2, c) ==
  /\ p2 = MovedTo(p, c, "closed")
  /\ \E k \in 0 .. Len(t[c]) :
       t2 = [TellAll(Around(p, c, p[c]), ANote("left", c, p[c]), t) EXCEPT ![c] = SubSeq(t[c], 1, k)]

\* A client less, its connection closed, with what it was sent.
Forgets(cmap, n, fd, dmap, o) ==
  /\ Paired(cmap, n) /\ fd \in DOMAIN cmap
  /\ dmap \in ClientMap /\ o \in [Conns -> Connection]
  /\ DOMAIN dmap = DOMAIN cmap \ {fd} /\ \A g \in DOMAIN dmap : dmap[g] = cmap[g]
  /\ o[cmap[fd].conn].status = "closed"
  /\ \A d \in Conns \ {cmap[fd].conn} : o[d] = n[d]

\* The others keep their connections ...
LEMMA ForgetsPaired ==
  ASSUME NEW cmap, NEW n, NEW fd, NEW dmap, NEW o, Forgets(cmap, n, fd, dmap, o)
  PROVE  Paired(dmap, o)
<1>0. Paired(cmap, n) /\ fd \in DOMAIN cmap
  BY DEF Forgets
<1>1. \A g \in DOMAIN dmap : g \in DOMAIN cmap /\ dmap[g] = cmap[g] /\ cmap[g].conn \in Conns \ {cmap[fd].conn}
  <2>1. \A g \in DOMAIN cmap : cmap[g].conn \in Conns
    BY <1>0, ClientsPlace
  <2> QED
    BY <2>1 DEF Forgets, Paired
<1>2. \A g \in DOMAIN dmap : o[dmap[g].conn].status = "open"
  BY <1>1 DEF Forgets, Paired
<1>3. \A g \in DOMAIN dmap : \A other \in DOMAIN dmap : dmap[other].conn = dmap[g].conn => other = g
  BY <1>1 DEF Forgets, Paired
<1>4. ASSUME NEW c \in Conns, o[c].status = "open" PROVE \E g \in DOMAIN dmap : dmap[g].conn = c
  <2>1. c # cmap[fd].conn /\ n[c].status = "open"
    BY <1>4 DEF Forgets
  <2>2. PICK g \in DOMAIN cmap : cmap[g].conn = c
    BY <2>1 DEF Forgets, Paired
  <2> QED
    BY <2>1, <2>2 DEF Forgets
<1> QED
  BY <1>2, <1>3, <1>4 DEF Paired, Forgets

\* ... and their places; the closed connection keeps what was sent.
LEMMA ForgetsPlaces ==
  ASSUME NEW cmap, NEW n, NEW fd, NEW dmap, NEW o, Forgets(cmap, n, fd, dmap, o),
         NEW c, c = cmap[fd].conn
  PROVE  /\ c \in Conns
         /\ PlacesIn(dmap, o)[c] = "closed" /\ ToldIn(dmap, o)[c] = Only(o[c].down, Public)
         /\ \A d \in Conns \ {c} : /\ PlacesIn(dmap, o)[d] = PlacesIn(cmap, n)[d]
                                   /\ ToldIn(dmap, o)[d] = ToldIn(cmap, n)[d]
<1>0. Paired(cmap, n) /\ fd \in DOMAIN cmap /\ Paired(dmap, o)
  BY ForgetsPaired DEF Forgets
<1>1. c \in Conns
  BY <1>0, ClientsPlace
<1>3. o[c].status = "closed"
  BY DEF Forgets
<1>4. PlacesIn(dmap, o)[c] = "closed" /\ ToldIn(dmap, o)[c] = Only(o[c].down, Public)
  <2>1. o[c].down \in Seq(Notes)
    BY <1>1 DEF Forgets, Connection
  <2>2. o[c].down \o << >> = o[c].down
    BY <2>1
  <2> QED
    BY <1>1, <1>3, <2>2 DEF PlacesIn, ToldIn
<1>5. ASSUME NEW d \in Conns \ {c}
      PROVE  /\ PlacesIn(dmap, o)[d] = PlacesIn(cmap, n)[d]
             /\ ToldIn(dmap, o)[d] = ToldIn(cmap, n)[d]
  <2>1. o[d] = n[d]
    BY DEF Forgets
  <2>2. CASE n[d].status # "open"
    BY <2>1, <2>2 DEF PlacesIn, ToldIn
  <2>3. CASE n[d].status = "open"
    <3>1. PICK g \in DOMAIN cmap : cmap[g].conn = d
      BY <1>0, <2>3 DEF Paired
    <3>2. g \in DOMAIN dmap /\ dmap[g] = cmap[g]
      BY <3>1 DEF Forgets
    <3>3. Whose(cmap, d) = g
      BY <1>0, <3>1 DEF Paired, Whose
    <3>4. Whose(dmap, d) = g
      BY SMTT(30), <1>0, <3>1, <3>2 DEF Paired, Whose
    <3> QED
      BY <2>1, <2>3, <3>2, <3>3, <3>4 DEF PlacesIn, ToldIn
  <2> QED
    BY <2>2, <2>3
<1> QED
  BY <1>1, <1>4, <1>5

\* Of what the dropped client was told, what was sent is the beginning.
LEMMA SentIsPrefix ==
  ASSUME IndInv, Paired(clients, net), pc = "flush", NEW c, c = clients[at].conn
  PROVE  /\ net[c].down \o Flushed.sent \in Seq(Notes)
         /\ \E k \in 0 .. Len(Told[c]) :
              Only(net[c].down \o Flushed.sent, Public) = SubSeq(Told[c], 1, k)
<1>1. at \in DOMAIN clients /\ clients \in ClientMap
  BY DEF IndInv, LoopInv, TypeOK
<1>2. /\ c \in Conns /\ net[c].status = "open" /\ Whose(clients, c) = at
  BY <1>1, ClientFields DEF Paired, Whose
<1>3. net[c].down \in Seq(Notes)
  BY <1>2, ConnectionFields DEF IndInv
<1>4. PICK rest \in Seq(Notes) : Flushed.sent \in Seq(Notes) /\ clients[at].send_buf = Flushed.sent \o rest
  BY FlushedWhole
<1>5. PICK a, b \in Seq(Notes) : a = net[c].down /\ b = Flushed.sent
  BY <1>3, <1>4
<1>6. PICK ab \in Seq(Notes) : ab = a \o b /\ a \o (b \o rest) = ab \o rest
  <2>1. a \o b \in Seq(Notes)
    BY ConcatProperties
  <2>2. (a \o b) \o rest = a \o (b \o rest)
    BY ConcatAssociative
  <2> QED
    BY <2>1, <2>2
<1>7. Told[c] = Only(a \o (b \o rest), Public)
  <2>1. ToldIn(clients, net)[c] = Only(net[c].down \o clients[at].send_buf, Public)
    BY <1>2 DEF ToldIn
  <2> QED
    BY <1>4, <1>5, <2>1, ChatNow
<1>8. /\ Only(ab, Public) \in Seq(Notes \cap Public) /\ Only(rest, Public) \in Seq(Notes \cap Public)
      /\ Only(ab \o rest, Public) = Only(ab, Public) \o Only(rest, Public)
  <2>1. Only(ab, Public) \in Seq(Notes \cap Public)
    BY OnlyType
  <2>2. Only(rest, Public) \in Seq(Notes \cap Public)
    BY OnlyType
  <2>3. Only(ab \o rest, Public) = Only(ab, Public) \o Only(rest, Public)
    BY SMTT(30), OnlyConcat
  <2> QED
    BY <2>1, <2>2, <2>3
<1>9. PICK x, y \in Seq(Notes \cap Public) : x = Only(ab, Public) /\ y = Only(rest, Public)
  BY <1>8
<1>10. Told[c] = x \o y
  BY <1>6, <1>7, <1>8, <1>9
<1>11. Len(x) \in 0 .. Len(x \o y) /\ SubSeq(x \o y, 1, Len(x)) = x
  OBVIOUS
<1> QED
  BY <1>5, <1>6, <1>9, <1>10, <1>11

\* A dropped client leaves its room and departs, and of what it was told the end
\* may be lost.
LEMMA DropShown ==
  ASSUME NoticesFit, IndInv, TalkInv, IndInv', Drop
  PROVE  TalkInv' /\ \E c \in Conns : /\ Places[c] # "closed"
                                      /\ Departs(Places, Told, Places', Told', c)
<1> DEFINE left == LeaveRoom(Maps, at)
<1>1. /\ pc = "flush" /\ rooms' = left.rooms
      /\ ~ left.threw => /\ clients' = Erase(left.clients, at)
                         /\ net' = [net EXCEPT ![clients[at].conn] =
                              [NewConnection EXCEPT !.status = "closed",
                                                    !.down = @ \o Of(at).down \o Flushed.sent]]
                         /\ EndService
  BY DEF Drop
<1>2. /\ at \in DOMAIN clients /\ clients \in ClientMap /\ rooms \in RoomMap
      /\ net \in [Conns -> Connection]
  BY <1>1 DEF IndInv, LoopInv, TypeOK
<1>3. Maps \in TwoMaps /\ Maps.clients = clients /\ Maps.rooms = rooms /\ ~ Maps.threw
  BY <1>2 DEF Maps, TwoMaps
<1>4. Paired(clients, net)
  BY InvPaired DEF TalkInv
<1>5. PICK room \in Where : room = clients[at].room
  BY <1>2 DEF TalkInv, WordsInv
<1>6. PICK c \in Conns : c = clients[at].conn
  BY <1>2, <1>4, ClientsPlace
<1>7. Named(Maps)
  BY <1>3 DEF Named, TalkInv, WordsInv
<1>8. PICK l : l = left
  OBVIOUS
<1>9. /\ ~ l.threw /\ Moved(Maps, l, at, "") /\ Named(l) /\ Agree(l.clients, l.rooms)
      /\ Tells(Maps, l, There(Maps, at, Maps.clients[at].room),
               ChatNote("left", Maps, at, Maps.clients[at].room))
  <2>1. at \in DOMAIN Maps.clients /\ Maps.clients[at].room \in Where /\ Agree(Maps.clients, Maps.rooms)
    BY <1>2, <1>3, <1>5 DEF TalkInv
  <2> QED
    BY <1>3, <1>7, <1>8, <2>1, LeaveRoomActs
<1>10. SameClients(Maps, l)
  <2>1. AgreeBut(Maps.clients, Maps.rooms, at)
    BY <1>2, <1>3, AgreeWithoutExcuse DEF TalkInv
  <2> QED
    BY <1>2, <1>3, <1>8, <2>1, LeaveRoomAgrees
<1> DEFINE new == [NewConnection EXCEPT !.status = "closed",
                                        !.down = @ \o net[c].down \o Flushed.sent]
<1>11. /\ clients' = Erase(l.clients, at) /\ net' = [net EXCEPT ![c] = new]
       /\ rooms' = l.rooms /\ pc' # "dead"
  BY <1>1, <1>6, <1>8, <1>9 DEF Of, EndService, Turn
<1>12. /\ new.status = "closed" /\ new.up = << >> /\ new.half = NoFrame
       /\ new.down = net[c].down \o Flushed.sent
  <2>1. net[c].down \in Seq(Notes)
    BY <1>2 DEF Connection
  <2>2. << >> \o net[c].down = net[c].down
    BY <2>1
  <2> QED
    BY <2>2 DEF NewConnection
<1> HIDE DEF new, left
<1>13. net'[c] = new /\ \A d \in Conns \ {c} : net'[d] = net[d]
  BY <1>2, <1>11
<1>14. /\ DOMAIN l.clients = DOMAIN clients
       /\ \A g \in DOMAIN clients :
            /\ l.clients[g].conn = clients[g].conn
            /\ l.clients[g].recv_buf = clients[g].recv_buf
            /\ l.clients[g].name \in GivenNames
            /\ l.clients[g].room = IF g = at THEN "" ELSE clients[g].room
  BY <1>3, <1>9, <1>10 DEF Moved, Named, SameClients
<1>15. /\ DOMAIN clients' = DOMAIN clients \ {at}
       /\ \A g \in DOMAIN clients' : clients'[g] = l.clients[g]
  BY <1>11, <1>14 DEF Erase
<1>16. Placing(Maps, l, net, at, "")
  <2>1. Placed(Maps, l, at, "")
    BY <1>9, MovedPlaced, <1>7
  <2> QED
    BY <1>2, <1>3, <1>4, <2>1 DEF Placing
<1>17. Paired(l.clients, net)
  BY <1>16, PlacedPaired DEF Placing
<1>18. Forgets(l.clients, net, at, clients', net')
  <2>1. clients' \in ClientMap /\ net' \in [Conns -> Connection]
    BY DEF IndInv, TypeOK, ClientMap, Client, Connection
  <2>2. l.clients[at].conn = c
    BY <1>2, <1>6, <1>14
  <2> QED
    BY <1>2, <1>12, <1>13, <1>14, <1>15, <1>17, <2>1, <2>2 DEF Forgets
<1>19. Paired(clients', net')
  BY <1>18, ForgetsPaired
<1>20. TalkInv'
  <2>1. UpInv'
    <3>1. << >> \in Seq(SentCells)
      OBVIOUS
    <3> QED
      BY <1>12, <1>13, <3>1 DEF UpInv, TalkInv
  <2>2. WordsInv'
    <3>1. "" \in Where
      BY DEF Where
    <3> QED
      BY <1>14, <1>15, <3>1 DEF WordsInv, TalkInv
  <2>3. ServedInv'
    BY <1>19 DEF ServedInv, Paired
  <2>4. Agree(clients', rooms')
    <3> SUFFICES ASSUME NEW r \in RoomNames
                 PROVE  /\ r \in DOMAIN rooms' => rooms'[r] # {}
                        /\ {g \in DOMAIN clients' : clients'[g].room = r} = In(rooms', r)
      BY DEF Agree
    <3>1. /\ r \in DOMAIN rooms' => rooms'[r] # {}
          /\ {g \in DOMAIN l.clients : l.clients[g].room = r} = In(rooms', r)
      BY <1>9, <1>11 DEF Agree
    <3>2. l.clients[at].room # r
      BY <1>2, <1>14, RoomsAssumption
    <3>3. \A g : g \in DOMAIN clients' <=> g \in DOMAIN l.clients /\ g # at
      BY <1>14, <1>15
    <3>4. {g \in DOMAIN clients' : clients'[g].room = r} = {g \in DOMAIN l.clients : l.clients[g].room = r}
      BY <1>15, <3>2, <3>3
    <3> QED
      BY <3>1, <3>4
  <2> QED
    BY <1>11, <2>1, <2>2, <2>3, <2>4 DEF TalkInv
<1>21. PlacesIn(l.clients, net) = MovedTo(Places, c, "")
  <2>1. PICK none : none = ""
    OBVIOUS
  <2>2. Placing(Maps, l, net, at, none)
    BY <1>16, <2>1
  <2>3. PlacesIn(l.clients, net) = MovedTo(PlacesIn(Maps.clients, net), Maps.clients[at].conn, none)
    BY <2>2, PlacedPlaces
  <2> QED
    BY <1>3, <1>6, <2>1, <2>3, ChatNow
<1>22. ToldIn(l.clients, net) = TellAll(Around(Places, c, room), ANote("left", c, room), Told)
  <2>1. PICK none : none = ""
    OBVIOUS
  <2>2. PlacingTells(Maps, l, net, at, none, room, "left", room)
    <3>1. room \in RoomNames => ChatNote("left", Maps, at, room) \in Public
      BY <1>3, <1>6, NoticesPublic DEF ChatNote, ANote
    <3> QED
      BY <1>3, <1>5, <1>9, <1>16, <2>1, <3>1 DEF PlacingTells
  <2>3. ToldIn(l.clients, net)
          = TellAll(Around(PlacesIn(Maps.clients, net), Maps.clients[at].conn, room),
                    ANote("left", Maps.clients[at].conn, room), ToldIn(Maps.clients, net))
    BY <2>2, PlacedTells
  <2> QED
    BY <1>3, <1>6, <2>3, ChatNow
<1>23. PICK p, t : p = PlacesIn(clients', net') /\ t = ToldIn(clients', net')
  OBVIOUS
<1>24. /\ p[c] = "closed" /\ t[c] = Only(net'[c].down, Public)
       /\ \A d \in Conns \ {c} : /\ p[d] = PlacesIn(l.clients, net)[d]
                                 /\ t[d] = ToldIn(l.clients, net)[d]
  <2>1. c = l.clients[at].conn
    BY <1>2, <1>6, <1>14
  <2> QED
    BY <1>18, <1>23, <2>1, ForgetsPlaces
<1>25. Places[c] = room
  BY <1>2, <1>4, <1>5, <1>6, ClientsPlace, ChatNow
<1>26. PICK k \in 0 .. Len(Told[c]) : Only(net[c].down \o Flushed.sent, Public) = SubSeq(Told[c], 1, k)
  BY <1>1, <1>4, <1>6, SentIsPrefix
<1>27. /\ DOMAIN Places = Conns /\ DOMAIN Told = Conns
       /\ p = [d \in Conns |-> p[d]] /\ t = [d \in Conns |-> t[d]]
  BY <1>23 DEF Places, Told, PlacesIn, ToldIn
<1>28. p = MovedTo(Places, c, "closed")
  BY <1>21, <1>24, <1>27 DEF MovedTo
<1>29. t = [TellAll(Around(Places, c, room), ANote("left", c, room), Told) EXCEPT ![c] = SubSeq(Told[c], 1, k)]
  <2>1. PICK u : u = TellAll(Around(Places, c, room), ANote("left", c, room), Told)
    OBVIOUS
  <2>2. DOMAIN u = Conns
    BY <2>1 DEF TellAll
  <2>3. t[c] = SubSeq(Told[c], 1, k)
    BY <1>12, <1>13, <1>24, <1>26
  <2>4. \A d \in Conns \ {c} : t[d] = u[d]
    BY <1>22, <1>24, <2>1
  <2>5. t = [u EXCEPT ![c] = SubSeq(Told[c], 1, k)]
    BY <1>27, <2>2, <2>3, <2>4
  <2> QED
    BY <2>1, <2>5
<1>30. Departs(Places, Told, p, t, c)
  BY <1>25, <1>28, <1>29 DEF Departs
<1>31. Places[c] # "closed"
  BY <1>25, WordsFacts
<1> QED
  BY <1>20, <1>23, <1>30, <1>31, ChatNext

\* The operators of ChatRooms under the mapping.
LEMMA ChatWords ==
  /\ \A c, r : Chat!Others(c, r) = Around(Places, c, r)
  /\ \A who, note, h : Chat!Tell(who, note, h) = TellAll(who, note, h)
  /\ \A kind, c, about : Chat!Note(kind, c, about) = ANote(kind, c, about)
  /\ \A c : Chat!Leaving(c) = TellAll(Around(Places, c, Places[c]), ANote("left", c, Places[c]), Told)
BY DEF Chat!Others, Chat!Tell, Chat!Note, Chat!Leaving, Around, TellAll, ANote

\* The three kinds of step are steps of ChatRooms.
LEMMA NobodyStutters ==
  ASSUME Nobody(Places, Told, Places', Told')
  PROVE  UNCHANGED Chat!vars
BY DEF Nobody, Chat!vars

LEMMA ShownIsChat ==
  ASSUME Shown
  PROVE  [Chat!Next]_Chat!vars
<1>1. PICK c \in Conns : Places[c] # "closed" /\ ChatStep(Places, Told, Places', Told', c)
  BY DEF Shown
<1>2. CASE Nobody(Places, Told, Places', Told')
  BY <1>2, NobodyStutters
<1>3. ASSUME NEW to \in Where, Moves(Places, Told, Places', Told', c, to)
      PROVE  Chat!Next
  <2>1. Chat!Move(c, to)
    BY <1>1, <1>3, ChatWords DEF Chat!Move, Moves
  <2> QED
    BY <2>1 DEF Chat!Next, Where
<1>4. ASSUME NEW text \in Payloads \ {""}, Speaks(Places, Told, Places', Told', c, text)
      PROVE  Chat!Next
  <2>1. Chat!Say(c, text)
    BY <1>4, ChatWords DEF Chat!Say, Speaks
  <2> QED
    BY <2>1 DEF Chat!Next, Payloads
<1> QED
  BY <1>1, <1>2, <1>3, <1>4 DEF ChatStep

LEMMA DepartsIsChat ==
  ASSUME NEW c \in Conns, Places[c] # "closed", Departs(Places, Told, Places', Told', c)
  PROVE  [Chat!Next]_Chat!vars
<1>1. Chat!Depart(c)
  BY ChatWords DEF Chat!Depart, Departs, MovedTo
<1> QED
  BY <1>1 DEF Chat!Next

-----------------------------------------------------------------------------
(* The steps of the server are steps of the chat.                          *)

\* The beginning.
LEMMA InitTalk == Init => TalkInv /\ Chat!Init
<1> SUFFICES ASSUME Init PROVE TalkInv /\ Chat!Init
  OBVIOUS
<1>1. /\ NewConnection.status = "none" /\ NewConnection.down = << >>
      /\ NewConnection.up = << >> /\ NewConnection.half = NoFrame
  BY DEF NewConnection
<1>2. \A c \in Conns : net[c] = NewConnection
  BY DEF Init
<1>3. DOMAIN clients = {} /\ DOMAIN rooms = {} /\ pc = "poll"
  BY NoEntries DEF Init
<1>4. TalkInv
  <2>1. << >> \in Seq(SentCells)
    OBVIOUS
  <2>2. UpInv
    BY <1>1, <1>2, <2>1 DEF UpInv
  <2>3. WordsInv /\ ServedInv
    BY <1>1, <1>2, <1>3 DEF WordsInv, ServedInv
  <2>4. Agree(clients, rooms)
    BY <1>3 DEF Agree, In
  <2> QED
    BY <1>3, <2>2, <2>3, <2>4 DEF TalkInv
<1>5. Chat!Init
  <2>1. Only(<< >>, Public) = << >>
    BY OnlyEmpty
  <2>2. << >> \o << >> = << >>
    OBVIOUS
  <2>3. \A c \in Conns : /\ net[c].status = "none" /\ net[c].down = << >>
    BY <1>1, <1>2
  <2>4. PlacesIn(clients, net) = [c \in Conns |-> ""]
    BY <2>3 DEF PlacesIn
  <2>5. ToldIn(clients, net) = [c \in Conns |-> << >>]
    BY <2>1, <2>2, <2>3 DEF ToldIn
  <2> QED
    BY <2>4, <2>5, ChatNow DEF Chat!Init
<1> QED
  BY <1>4, <1>5

\* Every step of the server keeps the invariant and is a step of the chat or none.
LEMMA StepIsChat ==
  ASSUME NoticesFit, IndInv, TalkInv, IndInv', [Next]_vars
  PROVE  TalkInv' /\ [Chat!Next]_Chat!vars
<1>0. ASSUME Unseen PROVE TalkInv' /\ [Chat!Next]_Chat!vars
  BY <1>0, NobodyStutters DEF Unseen
<1>1. ASSUME NEW c \in Conns,
             \/ Connect(c)
             \/ \E f \in ClientFrames[c] : Write(c, f) \/ WriteFirst(c, f)
             \/ WriteRest(c)
             \/ Read(c)
             \/ HangUp(c)
             \/ Reset(c)
      PROVE  Unseen
  BY <1>1, ClientsUnseen
<1>2. CASE Poll
  BY <1>0, <1>2, PollUnseen
<1>3. CASE Accept
  BY <1>0, <1>3, AcceptUnseen
<1>4. ASSUME NEW fd \in Fds, Receive(fd) PROVE Unseen
  BY <1>4, ReceiveUnseen
<1>5. CASE Decode
  BY <1>5, DecodeShown, ShownIsChat, NobodyStutters
<1>6. CASE Keep
  BY <1>0, <1>6, KeepUnseen
<1>7. CASE Drop
  BY <1>7, DropShown, DepartsIsChat
<1>8. CASE UNCHANGED vars
  <2>1. clients' = clients /\ rooms' = rooms /\ net' = net /\ pc' # "dead"
    BY <1>8 DEF vars, server, TalkInv
  <2> QED
    BY <1>0, <2>1, NothingUnseen
<1> QED
  BY <1>0, <1>1, <1>2, <1>3, <1>4, <1>5, <1>6, <1>7, <1>8 DEF Next, Loop

\* When every notice about a room fits a frame, the server implements ChatRooms
\* for any number of clients: messages and announcements reach exactly the others
\* in the room, in one order, and a drop loses at most the end of what was queued.
THEOREM Refinement ==
  ASSUME NoticesFit
  PROVE  Spec => ImplementsChatRooms
<1>1. Init => TalkInv /\ Chat!Init
  BY InitTalk
<1>2. IndInv /\ IndInv' /\ TalkInv /\ [Next]_vars => TalkInv' /\ [Chat!Next]_Chat!vars
  BY StepIsChat
<1> QED
  BY <1>1, <1>2, Invariance, PTL DEF Spec, ImplementsChatRooms, Chat!Spec

\* Notices that fit are all the server needs to survive its clients: then
\* leave_room(), which the drop path calls outside every try block, never throws.
THEOREM FitMeansSurvival ==
  ASSUME NoticesFit
  PROVE  Spec => []Survives
<1>1. Init => TalkInv
  BY InitTalk
<1>2. IndInv /\ IndInv' /\ TalkInv /\ [Next]_vars => TalkInv'
  BY StepIsChat
<1>3. TalkInv => Survives
  BY DEF TalkInv, Survives
<1> QED
  BY <1>1, <1>2, <1>3, Invariance, PTL DEF Spec
=============================================================================
