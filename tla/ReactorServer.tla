--------------------------- MODULE ReactorServer ---------------------------
(***************************************************************************)
(* demo-chat/utils/reactor_chat_server.cpp: one thread, non-blocking       *)
(* sockets, poll().  Each turn takes a snapshot of what is ready, accepts  *)
(* everyone who waits, and then serves the ready clients one after the     *)
(* other: receive everything, handle the lines one by one, send what the   *)
(* socket takes.  A broadcast only appends to the others' send_buf.        *)
(***************************************************************************)
EXTENDS LineSockets

VARIABLES
  pc,       \* where the loop is
  at,       \* the descriptor being served
  gone,     \* its client is to be removed
  ready,    \* poll's answer for the descriptors not served yet
  clients   \* the clients map

reactorVars == <<pc, at, gone, ready, clients>>

Nothing == 0

InitReactor ==
  /\ pc = "poll" /\ at = Nothing /\ gone = FALSE /\ ready = <<>> /\ clients = <<>>

Erase(f, x) == [z \in DOMAIN f \ {x} |-> f[z]]
Conn(fd) == clients[fd].conn

\* A broadcast's effect on the map.
Told(map, from, note) ==
  [fd \in DOMAIN map |-> IF fd = from THEN map[fd]
                         ELSE [map[fd] EXCEPT !.send_buf = Append(@, note)]]

\* After a reset some kernels report the hang-up without POLLIN.
Revents(fd) ==
  LET c == Conn(fd)
      in == IF net[c].up # <<>> \/ ~Alive(c) THEN {"in"} ELSE {}
      out == IF clients[fd].send_buf # <<>> /\ (Alive(c) => Room(c) > 0) THEN {"out"} ELSE {}
  IN  IF net[c].end = "reset" THEN {in \cup out \cup {"hup"}, out \cup {"hup"}}
      ELSE {in \cup out}

Poll ==
  /\ pc = "poll"
  /\ \E re \in [DOMAIN clients -> SUBSET {"in", "out", "hup"}] :
       /\ \A fd \in DOMAIN clients : re[fd] \in Revents(fd)
       /\ Queued # {} \/ \E fd \in DOMAIN clients : re[fd] # {}
       /\ ready' = [fd \in {fd \in DOMAIN clients : re[fd] # {}} |-> re[fd]]
  /\ pc' = IF Queued # {} THEN "accept" ELSE "serve"
  /\ UNCHANGED <<at, gone, clients>> /\ UNCHANGED netVars

Accept ==
  /\ pc = "accept"
  /\ \/ /\ Queued # {}
        /\ LET c == Min(Queued)
               fd == Min(Fds \ DOMAIN clients)
               st == [conn |-> c, recv_buf |-> <<>>, send_buf |-> <<Note(c, "hello")>>]
               others == Told(clients, fd, Note(c, "entered"))
           IN  /\ clients' = [d \in DOMAIN clients \cup {fd} |->
                                IF d = fd THEN st ELSE others[d]]
               /\ net' = [net EXCEPT ![c].status = "open"]
               /\ since' = [since EXCEPT ![c] = Len(log)]
               /\ log' = Append(log, Note(c, "entered"))
        /\ UNCHANGED <<pc, spare>>
     \/ /\ Queued = {}
        /\ pc' = "serve"
        /\ UNCHANGED clients /\ UNCHANGED netVars
  /\ UNCHANGED <<at, gone, ready>>

\* The order of the map is arbitrary.
Serve ==
  /\ pc = "serve"
  /\ IF ready = <<>> THEN pc' = "poll" /\ UNCHANGED at
     ELSE \E fd \in DOMAIN ready :
            at' = fd /\ pc' = IF "in" \in ready[fd] THEN "read" ELSE "write"
  /\ UNCHANGED <<gone, ready, clients>> /\ UNCHANGED netVars

Read ==
  LET c == Conn(at) IN
  /\ pc = "read"
  /\ clients' = [clients EXCEPT ![at].recv_buf = @ \o net[c].up]
  /\ net' = [net EXCEPT ![c].up = <<>>]
  /\ gone' = ~Alive(c)
  /\ pc' = "lines"
  /\ UNCHANGED <<at, ready, spare, log, since>>

Line ==
  LET buf == clients[at].recv_buf
      c == Conn(at)
  IN  /\ pc = "lines" /\ buf # <<>>
      /\ \/ /\ Head(buf) = Quit
            /\ gone' = TRUE /\ clients' = [clients EXCEPT ![at].recv_buf = <<>>]
            /\ UNCHANGED log
         \/ /\ Head(buf) # Quit
            /\ clients' = Told([clients EXCEPT ![at].recv_buf = Tail(@)], at, Note(c, Head(buf)))
            /\ log' = Append(log, Note(c, Head(buf)))
            /\ UNCHANGED gone
      /\ UNCHANGED <<pc, at, ready, net, spare, since>>

\* The client served is done with for this turn.
Served == pc' = "serve" /\ at' = Nothing /\ gone' = FALSE /\ ready' = Erase(ready, at)
Closed == net' = [net EXCEPT ![Conn(at)].status = "closed"]

AfterLines ==
  /\ pc = "lines" /\ clients[at].recv_buf = <<>>
  /\ \/ /\ gone
        /\ Closed /\ Served
        /\ clients' = Told(Erase(clients, at), Nothing, Note(Conn(at), "left"))
        /\ log' = Append(log, Note(Conn(at), "left"))
     \/ /\ ~gone
        /\ pc' = "write"
        /\ UNCHANGED <<at, gone, ready, clients, net, log>>
  /\ UNCHANGED <<spare, since>>

\* Nobody is told.
Drop == Closed /\ Served /\ clients' = Erase(clients, at) /\ UNCHANGED <<spare, log, since>>

\* Slip for Unsent: what the socket did not take is forgotten.
UnsentForgotten(buf, take) == <<>>
Unsent(buf, take) == SubSeq(buf, take + 1, Len(buf))

\* send takes what there is room for; to a client that is gone it takes all or fails.
Write ==
  LET buf == clients[at].send_buf
      c == Conn(at)
      take == IF Alive(c) /\ Room(c) < Len(buf) THEN Room(c) ELSE Len(buf)
      out == "out" \in ready[at] /\ buf # <<>>
  IN  /\ pc = "write"
      /\ \/ ("hup" \in ready[at] \/ (out /\ ~Alive(c))) /\ Drop
         \/ /\ "hup" \notin ready[at]
            /\ IF out
               THEN /\ net' = Sent(c, SubSeq(buf, 1, take))
                    /\ clients' = [clients EXCEPT ![at].send_buf = Unsent(@, take)]
               ELSE UNCHANGED <<net, clients>>
            /\ Served /\ UNCHANGED <<spare, log, since>>

ReactorNext == Poll \/ Accept \/ Serve \/ Read \/ Line \/ AfterLines \/ Write
=============================================================================
