----------------------------- MODULE RoomsServer -----------------------------
(***************************************************************************)
(* demo-chat/utils/rooms_chat_server.cpp with the framing of               *)
(* demo-chat/src/protocol.cpp: one thread, non-blocking sockets, poll().   *)
(* Each turn of the loop takes a snapshot of the ready descriptors,        *)
(* accepts what waits, and serves the ready clients one by one: receive    *)
(* everything, process every whole frame, send what the socket takes, and  *)
(* drop the client if anything went wrong on the way.                      *)
(*                                                                         *)
(* A connection is known by its number, in the order they arrive; the      *)
(* server knows it by a descriptor, which the next connection may reuse.   *)
(* A frame from a client is two cells, so that the server may see the      *)
(* first without the second; a frame to a client is one cell.  The name in *)
(* a notice is the connection that bears it, and sizes are kept only to    *)
(* tell whether a payload fits.                                            *)
(*                                                                         *)
(* During a turn a connection may only fail.  Whatever else its client     *)
(* does then has the effect it has just before the turn, when the snapshot *)
(* lets the server notice it in this turn, or else just after the turn;    *)
(* likewise what it sends before it is accepted comes just after.          *)
(***************************************************************************)
EXTENDS Naturals, Selection

CONSTANTS Clients,      \* number of connections ever made
          MaxFrames,    \* bound on the frames each of them sends
          ClientFrames, \* the frames each of them may send
          Divided,      \* the frames that may arrive in two parts
          Endings,      \* how each of them may end: "fin", "reset"
          Burst,        \* frames the kernel holds for the server
          RoomNames,    \* names of rooms but the empty one
          Size,         \* size of every payload
          MaxPayload,   \* MAX_PAYLOAD
          SocketRoom    \* frames a client may leave unread in its socket

Conns == 1 .. Clients
Fds == 1 .. Clients
NoFd == 0
NoFrame == [type |-> "none", payload |-> ""]
Frames == [type : {"Hello", "Join", "Leave", "Message", "Other", "BadLength", "BadVersion"},
           payload : DOMAIN Size]

ASSUME RoomsAssumption ==
  /\ Clients \in Nat \ {0}
  /\ MaxFrames \in [Conns -> Nat]
  /\ ClientFrames \in [Conns -> SUBSET Frames]
  /\ Endings \in [Conns -> SUBSET {"fin", "reset"}]
  /\ RoomNames \subseteq DOMAIN Size
  /\ "" \in DOMAIN Size \ RoomNames
  /\ "closed" \notin RoomNames
  /\ \A c \in Conns : \A f \in ClientFrames[c] :
       f.type = "Join" => f.payload \in RoomNames \cup {""}
  /\ Size \in [DOMAIN Size -> Nat]
  /\ MaxPayload \in Nat
  /\ SocketRoom \in Nat \ {0}
  /\ Burst \in Nat \ {0}

VARIABLES pc,       \* where the loop is
          at,       \* the descriptor being served
          dropping, \* that client is to be dropped
          ready,    \* poll's answer for the descriptors not served yet
          clients,  \* the clients map
          rooms,    \* the rooms map
          net,      \* the kernel's and the client's side of each connection
          spare     \* frames each client may still send

server == <<pc, at, dropping, ready, clients, rooms>>
vars == <<server, net, spare>>

\* A client of the server has conn (what its fd stands for), name, room, recv_buf
\* and send_buf; name and room are empty until Hello and Join.
\* A connection has status "none", "queued", "open" or "closed", and end "no", "fin"
\* or "reset"; up: received by the kernel, not by the server; half: a frame the
\* client has begun; down: everything the server sent, of which the client has
\* read some.
NewConnection == [status |-> "none", end |-> "no", up |-> << >>, half |-> NoFrame,
                  down |-> << >>, read |-> 0]

Init ==
  /\ pc = "poll"
  /\ at = NoFd
  /\ dropping = FALSE
  /\ ready = << >>
  /\ clients = << >>
  /\ rooms = << >>
  /\ net = [c \in Conns |-> NewConnection]
  /\ spare = MaxFrames

\* A map with one more or another entry, and a map without an entry.
Put(f, x, y) == [z \in DOMAIN f \cup {x} |-> IF z = x THEN y ELSE f[z]]
Erase(f, x) == [z \in DOMAIN f \ {x} |-> f[z]]

-----------------------------------------------------------------------------
(* The clients. *)
Connected(c) == net[c].status = "open" /\ net[c].end = "no"

Connect(c) ==
  /\ pc = "poll"
  /\ net[c].status = "none"
  /\ \A earlier \in 1 .. c - 1 : net[earlier].status # "none"
  /\ net' = [net EXCEPT ![c].status = "queued"]
  /\ UNCHANGED <<server, spare>>

Write(c, frame) ==
  /\ pc = "poll"
  /\ Connected(c)
  /\ net[c].half = NoFrame /\ Len(net[c].up) < 2 * Burst
  /\ spare[c] > 0
  /\ spare' = [spare EXCEPT ![c] = @ - 1]
  /\ net' = [net EXCEPT ![c].up = @ \o <<[frame |-> frame, part |-> "first"],
                                         [frame |-> frame, part |-> "rest"]>>]
  /\ UNCHANGED server

WriteFirst(c, frame) ==
  /\ frame \in Divided
  /\ pc = "poll"
  /\ Connected(c)
  /\ net[c].half = NoFrame /\ Len(net[c].up) < 2 * Burst
  /\ spare[c] > 0
  /\ spare' = [spare EXCEPT ![c] = @ - 1]
  /\ net' = [net EXCEPT ![c].up = Append(@, [frame |-> frame, part |-> "first"]),
                        ![c].half = frame]
  /\ UNCHANGED server

WriteRest(c) ==
  /\ pc = "poll"
  /\ Connected(c)
  /\ net[c].half # NoFrame
  /\ net' = [net EXCEPT ![c].up = Append(@, [frame |-> net[c].half, part |-> "rest"]),
                        ![c].half = NoFrame]
  /\ UNCHANGED <<server, spare>>

Unread(c) ==
  net[c].status = "open" /\ net[c].end # "reset" /\ net[c].read < Len(net[c].down)

Read(c) ==
  /\ pc = "poll"
  /\ Unread(c)
  /\ net' = [net EXCEPT ![c].read = Len(net[c].down)]
  /\ UNCHANGED <<server, spare>>

\* shutdown() or close(); an error may also show between poll() and the
\* service of the descriptor.
HangUp(c) ==
  /\ pc = "poll"
  /\ Connected(c)
  /\ "fin" \in Endings[c]
  /\ net' = [net EXCEPT ![c].end = "fin"]
  /\ UNCHANGED <<server, spare>>

Reset(c) ==
  /\ \/ pc = "poll"
     \/ pc = "serve" /\ \E fd \in DOMAIN ready : clients[fd].conn = c
  /\ Connected(c)
  /\ "reset" \in Endings[c]
  /\ net' = [net EXCEPT ![c].end = "reset"]
  /\ UNCHANGED <<server, spare>>

-----------------------------------------------------------------------------
(* Everything the handlers do to the two maps, as a function of them; what  *)
(* follows a throw is not done.                                             *)
Maps == [clients |-> clients, rooms |-> rooms, threw |-> FALSE]

\* encode() refuses a payload that is too long; 1 stands for the wording.
TooLong(words) == 1 + MapThenSumSet(LAMBDA i : Size[words[i]], DOMAIN words) > MaxPayload

\* enqueue_frame() for each of fds: the frame is the same for all of them.
Enqueue(m, fds, words, note) ==
  IF fds = {} \/ m.threw THEN m
  ELSE IF TooLong(words) THEN [m EXCEPT !.threw = TRUE]
  ELSE [m EXCEPT !.clients = [fd \in DOMAIN m.clients |->
          IF fd \in fds THEN [m.clients[fd] EXCEPT !.send_buf = Append(@, note)]
                        ELSE m.clients[fd]]]

Reply(m, fd, words) ==
  Enqueue(m, {fd}, words, [kind |-> "reply", by |-> m.clients[fd].conn, about |-> ""])

\* Slip for BroadcastRoom: the sender is not left out.
BroadcastToAll(m, room, from, kind, about) ==
  LET in == IF room \in DOMAIN m.rooms THEN m.rooms[room] ELSE {}
  IN  Enqueue(m, in \cap DOMAIN m.clients, <<m.clients[from].name, about>>,
              [kind |-> kind, by |-> m.clients[from].conn, about |-> about])

BroadcastRoom(m, room, from, kind, about) ==
  LET in == IF room \in DOMAIN m.rooms THEN m.rooms[room] ELSE {}
  IN  Enqueue(m, (in \ {from}) \cap DOMAIN m.clients, <<m.clients[from].name, about>>,
              [kind |-> kind, by |-> m.clients[from].conn, about |-> about])

\* Slip for LeaveRoom: the record in rooms is forgotten.
LeaveRoomInNameOnly(m, fd) ==
  LET room == m.clients[fd].room
  IN  IF room = "" THEN m
      ELSE [BroadcastRoom(m, room, fd, "left", room) EXCEPT !.clients[fd].room = ""]

LeaveRoom(m, fd) ==
  LET room == m.clients[fd].room
      rest == (IF room \in DOMAIN m.rooms THEN m.rooms[room] ELSE {}) \ {fd}
      out  == [m EXCEPT !.rooms = IF rest = {} THEN Erase(@, room) ELSE Put(@, room, rest)]
      told == BroadcastRoom(out, room, fd, "left", room)
  IN  IF room = "" THEN m
      ELSE IF told.threw THEN told
      ELSE [told EXCEPT !.clients[fd].room = ""]

EnterRoom(m, fd, room) ==
  LET in  == (IF room \in DOMAIN m.rooms THEN m.rooms[room] ELSE {}) \cup {fd}
      put == [m EXCEPT !.clients[fd].room = room, !.rooms = Put(@, room, in)]
  IN  BroadcastRoom(Reply(put, fd, <<room>>), room, fd, "entered", room)

Hello(m, fd, name) == Reply([m EXCEPT !.clients[fd].name = name], fd, <<name>>)

Join(m, fd, room) ==
  IF m.clients[fd].name = "" THEN Reply(m, fd, << >>)
  ELSE LET left == LeaveRoom(m, fd)
       IN  IF left.threw THEN left ELSE EnterRoom(left, fd, room)

Leave(m, fd) == Reply(LeaveRoom(m, fd), fd, << >>)

Message(m, fd, text) ==
  IF m.clients[fd].room = "" THEN Reply(m, fd, << >>)
  ELSE BroadcastRoom(m, m.clients[fd].room, fd, "message", text)

ProcessMessage(m, fd, frame) ==
  CASE frame.type = "Hello"   -> Hello(m, fd, frame.payload)
    [] frame.type = "Join"    -> Join(m, fd, frame.payload)
    [] frame.type = "Leave"   -> Leave(m, fd)
    [] frame.type = "Message" -> Message(m, fd, frame.payload)
    [] OTHER                  -> Reply(m, fd, << >>)

-----------------------------------------------------------------------------
(* The loop.                                                                *)
Queued == {c \in Conns : net[c].status = "queued"}
Of(fd) == net[clients[fd].conn]
Free(conn) == SocketRoom - (Len(conn.down) - conn.read)

\* Slip for Revents: POLLOUT is never asked for.
ReventsNoOut(fd) ==
  {e \in {"in", "gone"} :
     \/ e = "in" /\ (Of(fd).up # << >> \/ Of(fd).end # "no")
     \/ e = "gone" /\ Of(fd).end = "reset"}

\* What poll() answers for a descriptor; POLLOUT is asked for only when there
\* is something to send.
Revents(fd) ==
  {e \in {"in", "out", "gone"} :
     \/ e = "in" /\ (Of(fd).up # << >> \/ Of(fd).end # "no")
     \/ e = "out" /\ clients[fd].send_buf # << >> /\ (Free(Of(fd)) > 0 \/ Of(fd).end = "reset")
     \/ e = "gone" /\ Of(fd).end = "reset"}

Turn(left) == IF left = {} THEN "poll" ELSE "serve"

EndService ==
  /\ at' = NoFd
  /\ dropping' = FALSE
  /\ ready' = Erase(ready, at)
  /\ pc' = Turn(DOMAIN ready \ {at})

Poll ==
  LET answered == {fd \in DOMAIN clients : Revents(fd) # {}}
  IN  /\ pc = "poll"
      /\ Queued # {} \/ answered # {}
      /\ ready' = [fd \in answered |-> Revents(fd)]
      /\ pc' = IF Queued # {} THEN "accept" ELSE "serve"
      /\ UNCHANGED <<at, dropping, clients, rooms, net, spare>>

\* accept() until there is nobody to accept: the lowest free descriptor each.
Accept ==
  /\ pc = "accept"
  /\ LET c  == Min(Queued)
         fd == Min(Fds \ DOMAIN clients)
     IN  /\ clients' = Put(clients, fd, [conn |-> c, name |-> "", room |-> "",
                                         recv_buf |-> << >>, send_buf |-> << >>])
         /\ net' = [net EXCEPT ![c].status = "open"]
         /\ pc' = IF Queued = {c} THEN Turn(DOMAIN ready) ELSE "accept"
  /\ UNCHANGED <<at, dropping, ready, rooms, spare>>

\* recv() until EAGAIN, the end of the stream or an error.
Receive(fd) ==
  /\ pc = "serve"
  /\ fd \in DOMAIN ready
  /\ at' = fd
  /\ IF "in" \in ready[fd]
       THEN /\ clients' = [clients EXCEPT ![fd].recv_buf = @ \o Of(fd).up]
            /\ net' = [net EXCEPT ![clients[fd].conn].up = << >>]
            /\ dropping' = (Of(fd).end # "no")
            /\ pc' = "decode"
       ELSE pc' = "flush" /\ UNCHANGED <<clients, net, dropping>>
  /\ UNCHANGED <<ready, rooms, spare>>

\* Slip for Whole: one byte more than the frame is asked for.
WholeAndMore(buf) == Len(buf) > 2

\* try_decode(): a bad length shows in the first bytes, a bad version only in
\* a whole frame.
Whole(buf) == Len(buf) > 1
Broken(buf) ==
  /\ buf # << >>
  /\ \/ buf[1].frame.type = "BadLength"
     \/ buf[1].frame.type = "BadVersion" /\ Whole(buf)

Decode ==
  LET buf  == clients[at].recv_buf
      done == ProcessMessage([Maps EXCEPT !.clients[at].recv_buf = SubSeq(buf, 3, Len(buf))],
                             at, buf[1].frame)
  IN  /\ pc = "decode"
      /\ IF ~ Broken(buf) /\ Whole(buf)
           THEN /\ clients' = done.clients
                /\ rooms' = done.rooms
                /\ dropping' = (dropping \/ done.threw)
                /\ pc' = IF done.threw THEN "flush" ELSE "decode"
           ELSE /\ dropping' = (dropping \/ Broken(buf))
                /\ pc' = "flush"
                /\ UNCHANGED <<clients, rooms>>
      /\ UNCHANGED <<at, ready, net, spare>>

\* send() until everything is sent or the socket takes no more; then, for a
\* client to be dropped, leave_room(), close() and erase(): outside the try
\* block, so that what is thrown here ends the program.
Failed == dropping \/ "gone" \in ready[at] \/ ("out" \in ready[at] /\ Of(at).end = "reset")

Flushed ==
  LET n == IF "out" \in ready[at] /\ Of(at).end # "reset" THEN Free(Of(at)) ELSE 0
      s == clients[at].send_buf
  IN  [sent |-> SubSeq(s, 1, Min({n, Len(s)})), kept |-> SubSeq(s, n + 1, Len(s))]

Keep ==
  /\ pc = "flush"
  /\ ~ Failed
  /\ net' = [net EXCEPT ![clients[at].conn].down = @ \o Flushed.sent]
  /\ clients' = [clients EXCEPT ![at].send_buf = Flushed.kept]
  /\ EndService
  /\ UNCHANGED <<rooms, spare>>

Drop ==
  LET left == LeaveRoom(Maps, at)
  IN  /\ pc = "flush"
      /\ Failed
      /\ rooms' = left.rooms
      /\ IF left.threw
           THEN pc' = "dead" /\ UNCHANGED <<at, dropping, ready, clients, net>>
           ELSE /\ clients' = Erase(left.clients, at)
                /\ net' = [net EXCEPT ![clients[at].conn] =
                             [NewConnection EXCEPT !.status = "closed",
                                                   !.down = @ \o Of(at).down \o Flushed.sent]]
                /\ EndService
      /\ UNCHANGED spare

-----------------------------------------------------------------------------
Loop == Poll \/ Accept \/ (\E fd \in Fds : Receive(fd)) \/ Decode \/ Keep \/ Drop

Next ==
  \/ Loop
  \/ \E c \in Conns :
       \/ Connect(c)
       \/ \E f \in ClientFrames[c] : Write(c, f) \/ WriteFirst(c, f)
       \/ WriteRest(c)
       \/ Read(c)
       \/ HangUp(c)
       \/ Reset(c)

Spec == Init /\ [][Next]_vars

\* The loop goes on unless it sleeps in poll() or the program has ended, and a
\* client goes on reading what it was sent; each is weak fairness with its
\* ENABLED written out, which TLC would evaluate at every step.
Asleep ==
  \/ pc = "dead"
  \/ pc = "poll" /\ Queued = {} /\ \A fd \in DOMAIN clients : Revents(fd) = {}

LoopGoesOn == []<>Asleep \/ []<><<TRUE>>_server
ClientReads(c) == []<>~ Unread(c) \/ []<><<TRUE>>_(net[c].read)

LiveSpec == Spec /\ LoopGoesOn /\ \A c \in Conns : ClientReads(c)

-----------------------------------------------------------------------------
(* Properties. *)

\* The members of a room are exactly the clients whose room it is, and a room
\* with no member is not kept, except while an exception is being handled.  The
\* room with the empty name is apart: leave_room() takes it for "no room".
MembersAgree ==
  pc \notin {"flush", "dead"} => \A r \in RoomNames :
    /\ r \in DOMAIN rooms => rooms[r] # {}
    /\ {fd \in DOMAIN clients : clients[fd].room = r}
         = (IF r \in DOMAIN rooms THEN rooms[r] ELSE {})

\* When the loop goes to sleep in poll(), no client's buffer holds a frame
\* that could be processed: nothing else would wake the server up for it.
NoFrameLeftBehind ==
  pc = "poll" => \A fd \in DOMAIN clients :
                   /\ Len(clients[fd].recv_buf) < 2
                   /\ ~ Broken(clients[fd].recv_buf)

\* When the clients have no more to say (they send a bounded number of frames),
\* everything they sent is received, everything queued for them is sent, and
\* every client that hung up is dropped: nothing waits for one more frame.
SettlesInTheEnd ==
  <>[](\A fd \in DOMAIN clients :
         clients[fd].send_buf = << >> /\ Of(fd).up = << >> /\ Of(fd).end = "no")

\* The server survives whatever its clients send: no exception leaves the loop.
Survives == pc # "dead"

FdOf(c) == CHOOSE fd \in DOMAIN clients : clients[fd].conn = c
RoomOf(c) == IF net[c].status = "open" THEN clients[FdOf(c)].room ELSE ""
Queue(c) == IF net[c].status = "open" THEN clients[FdOf(c)].send_buf ELSE << >>

\* Announcements and messages; replies, and whatever concerns the room with the
\* empty name, are nothing a room promises.
Public == [kind : {"entered", "left", "message"}, by : Conns, about : DOMAIN Size \ {""}]

Places == [c \in Conns |-> IF net[c].status = "closed" THEN "closed" ELSE RoomOf(c)]
Told == [c \in Conns |-> Only(net[c].down \o Queue(c), Public)]

Chat == INSTANCE ChatRooms WITH
  Members <- Conns,
  Names <- RoomNames,
  Texts <- DOMAIN Size \ {""},
  NoRoom <- "",
  Gone <- "closed",
  place <- Places,
  heard <- Told

\* Everything a client may send, the names it may give itself, and that every
\* notice about a room fits a frame, whoever it is about.
Sent == UNION {ClientFrames[c] : c \in Conns}
GivenNames == {""} \cup {f.payload : f \in {g \in Sent : g.type = "Hello"}}
NoticesFit ==
  \A room \in RoomNames :
    ~ TooLong(<<room>>) /\ \A name \in GivenNames : ~ TooLong(<<name, room>>)

\* The server is a chat with rooms: messages and announcements reach exactly
\* the others in the room, in one order, and to a dropped client the end of
\* what was queued may be lost but nothing in between.
ImplementsChatRooms == Chat!Spec
=============================================================================
