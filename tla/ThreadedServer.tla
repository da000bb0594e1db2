--------------------------- MODULE ThreadedServer ---------------------------
(***************************************************************************)
(* demo-chat/utils/threaded_chat_server.cpp: the main thread accepts, and  *)
(* each connection has a thread of its own.  The list of clients is under  *)
(* one mutex, which a broadcast holds while it sends to one after the      *)
(* other, and those sends may block.  The list holds descriptors: a send   *)
(* reaches whoever owns the descriptor at that time.                       *)
(***************************************************************************)
EXTENDS LineSockets

VARIABLES
  thread,     \* pc, descriptor and buffer of each connection's handle_client
  g_clients,  \* the list, of descriptors
  g_mutex     \* who holds it for a broadcast, the note, and to whom it still goes

threadedVars == <<thread, g_clients, g_mutex>>

Free == [by |-> 0, note |-> Note(0, "none"), todo |-> <<>>]
NoFd == 0

InitThreaded ==
  /\ thread = [c \in Conns |-> [pc |-> "none", fd |-> NoFd, acc |-> <<>>]]
  /\ g_clients = <<>> /\ g_mutex = Free

Unused == Fds \ {thread[c].fd : c \in {c \in Conns : net[c].status = "open"}}
Owner(fd) == {c \in Conns : net[c].status = "open" /\ thread[c].fd = fd}

Goto(c, pc) == thread' = [thread EXCEPT ![c].pc = pc]

\* A connection in the backlog has no effect: it is made when it is accepted.
AcceptThread ==
  /\ Absent # {}
  /\ LET c == Min(Absent) IN
     /\ thread' = [thread EXCEPT ![c].pc = "register", ![c].fd = Min(Unused)]
     /\ net' = [net EXCEPT ![c].status = "open"]
  /\ UNCHANGED <<spare, log, since, g_clients, g_mutex>>

Register(c) ==
  /\ thread[c].pc = "register" /\ g_mutex = Free
  /\ g_clients' = Append(g_clients, thread[c].fd)
  /\ since' = [since EXCEPT ![c] = Len(log)]
  /\ Goto(c, "greet")
  /\ UNCHANGED <<net, spare, log, g_mutex>>

(* broadcast: lock, send to each, unlock after the last. *)

\* Where the thread of c goes on after its broadcast.
After(c, t) == CASE t[c].pc = "greet" -> [t EXCEPT ![c].pc = "hello"]
                 [] t[c].pc = "lines" -> [t EXCEPT ![c].acc = Tail(@)]
                 [] t[c].pc = "bye" -> [t EXCEPT ![c].pc = "done"]

Broadcast(c, note, todo) ==
  /\ g_mutex = Free
  /\ log' = Append(log, note)
  /\ IF todo # <<>> THEN g_mutex' = [by |-> c, note |-> note, todo |-> todo] /\ UNCHANGED thread
     ELSE thread' = After(c, thread) /\ UNCHANGED g_mutex
  /\ UNCHANGED <<net, spare, since, g_clients>>

\* One send less to do.
Advance(c) ==
  IF Len(g_mutex.todo) > 1 THEN g_mutex' = [g_mutex EXCEPT !.todo = Tail(@)] /\ UNCHANGED thread
  ELSE g_mutex' = Free /\ thread' = After(c, thread)

ButMe(c) == Only(g_clients, Fds \ {thread[c].fd})

Greet(c) == thread[c].pc = "greet" /\ Broadcast(c, Note(c, "entered"), ButMe(c))
Say(c) ==
  /\ thread[c].pc = "lines" /\ thread[c].acc # <<>> /\ Head(thread[c].acc) # Quit
  /\ Broadcast(c, Note(c, Head(thread[c].acc)), ButMe(c))
Bye(c) == thread[c].pc = "bye" /\ Broadcast(c, Note(c, "left"), g_clients)

\* Slip for SendOne: a client whose buffer is full misses the note.
SendOneOrSkip(c) ==
  /\ g_mutex.by = c
  /\ LET to == Owner(Head(g_mutex.todo)) IN
     net' = IF \E o \in to : Room(o) > 0 THEN Sent(Max(to), <<g_mutex.note>>) ELSE net
  /\ Advance(c)
  /\ UNCHANGED <<spare, log, since, g_clients>>

\* A blocking send: it waits until the client has read.
SendOne(c) ==
  /\ g_mutex.by = c
  /\ LET to == Owner(Head(g_mutex.todo)) IN
     /\ \A o \in to : Alive(o) => Room(o) > 0
     /\ net' = IF to = {} THEN net ELSE Sent(Max(to), <<g_mutex.note>>)
  /\ Advance(c)
  /\ UNCHANGED <<spare, log, since, g_clients>>

\* Without the lock.
Hello(c) ==
  /\ thread[c].pc = "hello" /\ (Alive(c) => Room(c) > 0)
  /\ net' = Sent(c, <<Note(c, "hello")>>)
  /\ Goto(c, "lines")
  /\ UNCHANGED <<spare, log, since, g_clients, g_mutex>>

Recv(c) ==
  /\ thread[c].pc = "lines" /\ thread[c].acc = <<>>
  /\ \/ /\ net[c].up # <<>>
        /\ thread' = [thread EXCEPT ![c].acc = net[c].up]
        /\ net' = [net EXCEPT ![c].up = <<>>]
     \/ /\ net[c].up = <<>> /\ ~Alive(c)
        /\ Goto(c, "unregister")
        /\ UNCHANGED net
  /\ UNCHANGED <<spare, log, since, g_clients, g_mutex>>

\* What came after /quit is thrown away.
QuitLine(c) ==
  /\ thread[c].pc = "lines" /\ thread[c].acc # <<>> /\ Head(thread[c].acc) = Quit
  /\ thread' = [thread EXCEPT ![c].pc = "unregister", ![c].acc = <<>>]
  /\ UNCHANGED netVars /\ UNCHANGED <<g_clients, g_mutex>>

\* Slip for Unregister: the descriptor is closed first, before the lock is taken.
UnregisterLate(c) ==
  \/ /\ thread[c].pc = "unregister" /\ net[c].status = "open"
     /\ net' = [net EXCEPT ![c].status = "closed"]
     /\ UNCHANGED <<spare, log, since, thread, g_clients, g_mutex>>
  \/ /\ thread[c].pc = "unregister" /\ net[c].status = "closed" /\ g_mutex = Free
     /\ g_clients' = Only(g_clients, Fds \ {thread[c].fd})
     /\ Goto(c, "bye")
     /\ UNCHANGED netVars /\ UNCHANGED g_mutex

Unregister(c) ==
  /\ thread[c].pc = "unregister" /\ g_mutex = Free
  /\ g_clients' = Only(g_clients, Fds \ {thread[c].fd})
  /\ Goto(c, "close")
  /\ UNCHANGED netVars /\ UNCHANGED g_mutex

Close(c) ==
  /\ thread[c].pc = "close"
  /\ net' = [net EXCEPT ![c].status = "closed"]
  /\ Goto(c, "bye")
  /\ UNCHANGED <<spare, log, since, g_clients, g_mutex>>

Thread(c) ==
  \/ Register(c) \/ Greet(c) \/ Say(c) \/ Bye(c) \/ SendOne(c)
  \/ Hello(c) \/ Recv(c) \/ QuitLine(c) \/ Unregister(c) \/ Close(c)

ThreadedNext == AcceptThread \/ \E c \in Conns : Thread(c)
=============================================================================
