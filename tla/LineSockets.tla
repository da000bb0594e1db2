---------------------------- MODULE LineSockets ----------------------------
(***************************************************************************)
(* The clients of the line chat and the kernel's sockets between them and  *)
(* a server.  A connection is known by its number; the server knows it by  *)
(* a descriptor, which the next connection may reuse.  A line counts when  *)
(* its end has arrived, so a line is one cell.                             *)
(***************************************************************************)
EXTENDS Integers, Selection, FiniteSetsExt

CONSTANTS
  Clients,     \* number of connections ever made
  MaxLines,    \* bound on the lines each of them sends
  Lines,       \* the lines each of them may send
  Endings,     \* how each of them may end: "fin", "reset"
  Lazy,        \* the connections that read when they like; the others read at once
  SocketRoom   \* notes a lazy client may leave unread before send would block

Conns == 1 .. Clients
Fds == 1 .. Clients
Quit == "/quit"

\* No line reads like an announcement: it is sent on with its speaker in front.
ASSUME SocketsAssumption ==
  /\ Clients \in Nat \ {0} /\ SocketRoom \in Nat \ {0} /\ Lazy \subseteq Conns
  /\ \A c \in Conns : MaxLines[c] \in Nat /\ Endings[c] \subseteq {"fin", "reset"}
  /\ \A c \in Conns : Lines[c] \cap {"entered", "left", "hello"} = {}

VARIABLES
  net,    \* status, how the client ended, lines on the way up, notes sent down
          \* (without the greeting) and how many a lazy client has not read
  spare,  \* lines each client may still send
  log,    \* history: every broadcast, in the order of the broadcasts
  since   \* history: its length when the server listed the connection

netVars == <<net, spare, log, since>>

Note(c, what) == [by |-> c, what |-> what]

InitSockets ==
  /\ net = [c \in Conns |-> [status |-> "none", end |-> "no", up |-> <<>>,
                             down |-> <<>>, unread |-> 0]]
  /\ spare = MaxLines /\ log = <<>> /\ since = [c \in Conns |-> 0]

Queued == {c \in Conns : net[c].status = "queued"}
Alive(c) == net[c].end = "no"
Room(c) == SocketRoom - net[c].unread

\* What is sent to a client that is gone is lost.
Sent(c, notes) ==
  IF ~Alive(c) THEN net
  ELSE [net EXCEPT ![c].down = @ \o Only(notes, {e \in ToSet(notes) : e.what # "hello"}),
                   ![c].unread = IF c \in Lazy THEN @ + Len(notes) ELSE 0]

Absent == {c \in Conns : net[c].status = "none"}

\* Whatever a client does before it is accepted has its effect just after.
Connect(c) ==
  /\ Absent # {} /\ c = Min(Absent)
  /\ net' = [net EXCEPT ![c].status = "queued"]
  /\ UNCHANGED <<spare, log, since>>

SendLine(c) ==
  /\ net[c].status = "open" /\ Alive(c) /\ spare[c] > 0
  /\ \E line \in Lines[c] : net' = [net EXCEPT ![c].up = Append(@, line)]
  /\ spare' = [spare EXCEPT ![c] = @ - 1]
  /\ UNCHANGED <<log, since>>

\* A reset takes with it what the server has not received yet.
End(c) ==
  /\ net[c].status = "open" /\ Alive(c)
  /\ \E how \in Endings[c] :
       net' = [net EXCEPT ![c].end = how, ![c].up = IF how = "reset" THEN <<>> ELSE @]
  /\ UNCHANGED <<spare, log, since>>

\* A lazy client reads, if ever, when nothing more fits.
ReadAll(c) ==
  /\ Alive(c) /\ Room(c) = 0
  /\ net' = [net EXCEPT ![c].unread = 0]
  /\ UNCHANGED <<spare, log, since>>

ClientStep(c) == SendLine(c) \/ End(c) \/ ReadAll(c)
=============================================================================
