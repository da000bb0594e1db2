----------------------------- MODULE Broadcast -----------------------------
(***************************************************************************)
(* The two servers of the line chat, each with the same clients: a         *)
(* behaviour is of the one or of the other.  Both implement Feed.          *)
(***************************************************************************)
EXTENDS ThreadedServer, ReactorServer

VARIABLE server   \* which program runs

vars == <<server, netVars, threadedVars, reactorVars>>

Init ==
  /\ server \in {"threaded", "reactor"}
  /\ InitSockets /\ InitThreaded /\ InitReactor

Threaded(A) == server = "threaded" /\ A /\ UNCHANGED <<server, reactorVars>>
Reactor(A) == server = "reactor" /\ A /\ UNCHANGED <<server, threadedVars>>
Client(A) == A /\ UNCHANGED <<server, threadedVars, reactorVars>>

Next ==
  \/ \E c \in Conns : Client(ClientStep(c)) \/ Client(server = "reactor" /\ Connect(c))
  \/ Threaded(ThreadedNext)
  \/ Reactor(ReactorNext)

(***************************************************************************)
(* Every thread runs and the loop runs.  Nobody has to connect, to speak,  *)
(* to leave or, of the lazy, to read.                                      *)
(***************************************************************************)
Fairness ==
  /\ \A c \in Conns : WF_vars(Threaded(Thread(c)))
  /\ WF_vars(Reactor(ReactorNext))

Spec == Init /\ [][Next]_vars /\ Fairness
----------------------------------------------------------------------------
Listed(c) ==
  IF server = "threaded"
  THEN thread[c].pc \in {"greet", "hello", "lines", "unregister"}
  ELSE \E fd \in DOMAIN clients : Conn(fd) = c

Logged(c, what) == Note(c, what) \in ToSet(log)

Phase(c) ==
  IF Logged(c, "left") THEN "done"
  ELSE IF Listed(c) THEN IF Logged(c, "entered") THEN "entered" ELSE "in"
  ELSE IF Logged(c, "entered") THEN "gone" ELSE "out"

(***************************************************************************)
(* The list of the threaded server has exactly one entry for each thread   *)
(* between register_client and unregister_client, and the descriptor in it *)
(* is that connection's own: nobody else's thread takes it off, and no     *)
(* note goes to a stranger who was given the number again                  *)
(* (threaded_chat_server.cpp:48-59, 97-98).                                *)
(***************************************************************************)
EntriesOwnTheirDescriptors ==
  server = "threaded" =>
    LET listed == {c \in Conns : Listed(c)} IN
    /\ ToSet(g_clients) = {thread[c].fd : c \in listed}
    /\ Len(g_clients) = Cardinality(listed)
    /\ \A c \in listed : Owner(thread[c].fd) = {c}

(***************************************************************************)
(* Both programs keep Feed's promise: one conversation in one order.       *)
(***************************************************************************)
TheFeed == INSTANCE Feed WITH
  Members <- Conns,
  Texts <- (UNION {Lines[c] : c \in Conns}) \ {Quit},
  told <- [c \in Conns |-> net[c].down],
  phase <- [c \in Conns |-> Phase(c)]

ImplementsFeed == TheFeed!Spec

(***************************************************************************)
(* What is broadcast reaches everyone who is listed then and stays, so     *)
(* that again and again nobody is behind the conversation but a client     *)
(* that does not read.  The reactor owes this whoever else does not read,  *)
(* the threaded server only while no client leaves the mutex's holder      *)
(* blocked in send                                                         *)
(* (threaded_chat_server.cpp:39-46, reactor_chat_server.cpp:42-48,         *)
(* 164-181).                                                               *)
(***************************************************************************)
Stuck == server = "threaded" /\ \E c \in Conns : Alive(c) /\ Room(c) = 0

Behind(c) ==
  /\ Listed(c) /\ Alive(c)
  /\ \E k \in since[c] + 1 .. Len(log) :
       log[k].by # c /\ log[k] \notin ToSet(net[c].down)

EveryNoteArrives ==
  []<>((\A c \in Conns : Behind(c) => c \in Lazy /\ Room(c) = 0) \/ Stuck)
=============================================================================
