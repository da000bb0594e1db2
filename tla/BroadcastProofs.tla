-------------------------- MODULE BroadcastProofs --------------------------
(***************************************************************************)
(* The two servers of the line chat keep the list of clients right and     *)
(* implement Feed, for any number of connections, any lines, any way of    *)
(* leaving and any room in the sockets.                                    *)
(***************************************************************************)
EXTENDS Broadcast, SetInduction, SequenceTheorems, FiniteSetTheorems

(* Facts about Only. *)

LEMMA ToSetAppend ==
  ASSUME NEW V, NEW s \in Seq(V), NEW e \in V
  PROVE  ToSet(Append(s, e)) = ToSet(s) \cup {e}
<1> DEFINE n == Len(s)
           t == Append(s, e)
<1>1. /\ n \in Nat /\ DOMAIN s = 1 .. n /\ DOMAIN t = 1 .. n + 1 /\ t[n + 1] = e
      /\ \A i \in 1 .. n : t[i] = s[i]
  OBVIOUS
<1> HIDE DEF n, t
<1>2. \A i \in 1 .. n + 1 : i \in 1 .. n \/ i = n + 1
  BY <1>1
<1>3. n + 1 \in 1 .. n + 1 /\ \A i \in 1 .. n : i \in 1 .. n + 1
  BY <1>1
<1>4. ToSet(t) = {t[i] : i \in 1 .. n + 1} /\ ToSet(s) = {s[i] : i \in 1 .. n}
  BY <1>1 DEF ToSet
<1>5. \A x \in ToSet(t) : x \in ToSet(s) \cup {e}
  BY <1>1, <1>2, <1>4
<1>6. \A x \in ToSet(s) \cup {e} : x \in ToSet(t)
  BY <1>1, <1>3, <1>4
<1> QED
  BY <1>5, <1>6 DEF t

\* The elements are those that pass, and what was there once is there once.
LEMMA OnlyElements ==
  ASSUME NEW V, NEW s \in Seq(V), NEW S
  PROVE  /\ Only(s, S) \in Seq(V)
         /\ ToSet(Only(s, S)) = ToSet(s) \cap S
         /\ (\A i, j \in 1 .. Len(s) : s[i] = s[j] => i = j) =>
              \A i, j \in 1 .. Len(Only(s, S)) : Only(s, S)[i] = Only(s, S)[j] => i = j
<1> DEFINE Once(t) == \A i, j \in 1 .. Len(t) : t[i] = t[j] => i = j
           Good(t, r) == /\ r \in Seq(V) /\ ToSet(r) = ToSet(t) \cap S
                         /\ Once(t) => Once(r)
           T == {t \in Seq(V) : Good(t, Only(t, S))}
<1>1. <<>> \in T
  <2>1. <<>> \in Seq(V) /\ ToSet(<<>>) = {} /\ Len(<<>>) = 0
    BY DEF ToSet
  <2>2. Good(<<>>, <<>>)
    BY <2>1
  <2> HIDE DEF Good
  <2> QED
    BY <2>1, <2>2, OnlyEmpty
<1>2. ASSUME NEW t \in Seq(V), NEW e \in V, t \in T PROVE Append(t, e) \in T
  <2> DEFINE r == Only(t, S)
  <2>1. Append(t, e) \in Seq(V) /\ Good(t, r)
    BY <1>2
  <2> HIDE DEF r
  <2>2. /\ Len(t) \in Nat /\ Len(r) \in Nat
        /\ Len(Append(t, e)) = Len(t) + 1 /\ Len(Append(r, e)) = Len(r) + 1
        /\ Append(t, e)[Len(t) + 1] = e /\ Append(r, e)[Len(r) + 1] = e
        /\ \A i \in 1 .. Len(t) : Append(t, e)[i] = t[i]
        /\ \A i \in 1 .. Len(r) : Append(r, e)[i] = r[i]
    BY <2>1
  <2>3. ToSet(Append(t, e)) = ToSet(t) \cup {e} /\ ToSet(Append(r, e)) = ToSet(r) \cup {e}
    BY <2>1, ToSetAppend
  <2>4. Once(Append(t, e)) => Once(t) /\ e \notin ToSet(t)
    <3>1. \A x \in ToSet(t) : \E i \in 1 .. Len(t) : t[i] = x
      BY DEF ToSet
    <3>2. \A i \in 1 .. Len(t) : i \in 1 .. Len(t) + 1 /\ i # Len(t) + 1
      BY <2>2
    <3>3. Len(t) + 1 \in 1 .. Len(t) + 1
      BY <2>2
    <3> QED
      BY <2>2, <3>1, <3>2, <3>3
  <2>5. Once(r) /\ e \notin ToSet(r) => Once(Append(r, e))
    <3>1. \A i \in 1 .. Len(r) : r[i] \in ToSet(r)
      BY <2>1 DEF ToSet
    <3>2. \A i \in 1 .. Len(r) + 1 : i \in 1 .. Len(r) \/ i = Len(r) + 1
      BY <2>2
    <3> QED
      BY <2>2, <3>1, <3>2
  <2>6. CASE e \in S
    <3>1. Append(r, e) \in Seq(V)
      BY <2>1
    <3>2. ToSet(Append(r, e)) = ToSet(Append(t, e)) \cap S
      BY <2>1, <2>3, <2>6
    <3>3. Once(Append(t, e)) => Once(Append(r, e))
      BY <2>1, <2>4, <2>5
    <3>4. Only(Append(t, e), S) = Append(r, e)
      BY <2>6, OnlyAppend DEF r
    <3> HIDE DEF Once
    <3> QED
      BY <2>1, <3>1, <3>2, <3>3, <3>4
  <2>7. CASE e \notin S
    <3>1. ToSet(r) = ToSet(Append(t, e)) \cap S
      BY <2>1, <2>3, <2>7
    <3>2. Once(Append(t, e)) => Once(r)
      BY <2>1, <2>4
    <3>3. Only(Append(t, e), S) = r
      BY <2>7, OnlyAppend DEF r
    <3> HIDE DEF Once
    <3> QED
      BY <2>1, <3>1, <3>2, <3>3
  <2> QED
    BY <2>6, <2>7
<1> HIDE DEF T
<1>3. \A t \in Seq(V) : t \in T
  BY <1>1, <1>2, SeqSetInduction
<1> QED
  BY <1>3 DEF T

-----------------------------------------------------------------------------
(* The invariant. *)

Spoken == UNION {Lines[c] : c \in Conns}
Events == [by : Conns, what : {"entered", "left"} \cup (Spoken \ {Quit})]
Notes == [by : Conns, what : {"entered", "left", "hello"} \cup (Spoken \ {Quit})]

Sockets ==
  [Conns -> [status : {"none", "queued", "open", "closed"}, end : {"no", "fin", "reset"},
             up : Seq(Spoken), down : Seq(Events), unread : 0 .. SocketRoom]]

SocketsInv ==
  /\ net \in Sockets
  /\ log \in Seq(Events)
  /\ since \in [Conns -> Nat] /\ \A c \in Conns : since[c] <= Len(log)

Once(s) == \A i, j \in 1 .. Len(s) : s[i] = s[j] => i = j

Open == {c \in Conns : net[c].status = "open"}

(* Of the threaded server. *)

Early == {"none", "register"}
InList == {"greet", "hello", "lines", "unregister"}
Ended == {"bye", "done"}

ThreadType ==
  /\ thread \in [Conns -> [pc : Early \cup InList \cup {"close"} \cup Ended,
                           fd : Fds \cup {NoFd}, acc : Seq(Spoken)]]
  /\ g_clients \in Seq(Fds)
  /\ g_mutex = Free \/ /\ g_mutex \in [by : Conns, note : Events, todo : Seq(Fds)]
                       /\ g_mutex.todo # <<>>

\* Where a thread is tells whether its connection is open.
StatusInv ==
  \A c \in Conns :
    \/ thread[c].pc = "none" /\ net[c].status = "none"
    \/ /\ thread[c].pc \in {"register", "close"} \cup InList
       /\ net[c].status = "open" /\ thread[c].fd \in Fds
    \/ thread[c].pc \in Ended /\ net[c].status = "closed"

\* An open connection has its descriptor for itself.
FdInv == \A c, d \in Open : thread[c].fd = thread[d].fd => c = d

ListInv ==
  /\ Once(g_clients)
  /\ ToSet(g_clients) = {thread[c].fd : c \in {c \in Conns : thread[c].pc \in InList}}

\* Who broadcasts, what and to whom.
MutexInv ==
  g_mutex # Free =>
    LET by == thread[g_mutex.by] IN
    /\ by.pc \in {"greet", "lines", "bye"}
    /\ by.pc = "lines" => by.acc # <<>> /\ Head(by.acc) # Quit
    /\ Once(g_mutex.todo) /\ ToSet(g_mutex.todo) \subseteq ToSet(g_clients)

Announced(c) ==
  /\ Logged(c, "entered") <=>
       \/ thread[c].pc \in {"hello", "lines", "unregister", "close"} \cup Ended
       \/ thread[c].pc = "greet" /\ g_mutex.by = c
  /\ Logged(c, "left") <=>
       thread[c].pc = "done" \/ (thread[c].pc = "bye" /\ g_mutex.by = c)

AnnouncedInv == \A c \in Conns : Announced(c)

\* A client that is there has heard everything but the note on its way to it.
HeardInv ==
  \A c \in Conns :
    /\ thread[c].pc \in Early => net[c].down = <<>>
    /\ thread[c].pc \in InList /\ Alive(c) =>
         IF thread[c].fd \in ToSet(g_mutex.todo)
         THEN Append(net[c].down, g_mutex.note) = TheFeed!Heard(c)
         ELSE net[c].down = TheFeed!Heard(c)

ThreadedInv ==
  ThreadType /\ StatusInv /\ FdInv /\ ListInv /\ MutexInv /\ AnnouncedInv /\ HeardInv

(* Of the reactor. *)

LoopType ==
  /\ clients \in [DOMAIN clients -> [conn : Conns, recv_buf : Seq(Spoken), send_buf : Seq(Notes)]]
  /\ DOMAIN clients \subseteq Fds /\ DOMAIN ready \subseteq DOMAIN clients
  /\ pc \in {"poll", "accept", "serve", "read", "lines", "write"}
  /\ pc \in {"read", "lines", "write"} => at \in DOMAIN ready

\* The map has each open connection once.
MapInv ==
  /\ \A d, e \in DOMAIN clients : Conn(d) = Conn(e) => d = e
  /\ Open = {Conn(fd) : fd \in DOMAIN clients}

MembersInv ==
  \A c \in Conns :
    /\ Logged(c, "entered") <=> net[c].status \in {"open", "closed"}
    /\ net[c].status # "closed" => ~Logged(c, "left")
    /\ net[c].status \in {"none", "queued"} => net[c].down = <<>>

\* A client that is there has heard everything but what waits in its send_buf.
Provided(fd, c) ==
  Alive(c) => net[c].down \o Only(clients[fd].send_buf, Events) = TheFeed!Heard(c)

BufferInv == \A fd \in DOMAIN clients, c \in Conns : Conn(fd) = c => Provided(fd, c)

ReactorInv == LoopType /\ MapInv /\ MembersInv /\ BufferInv

Inv ==
  /\ SocketsInv
  /\ server \in {"threaded", "reactor"}
  /\ server = "threaded" => ThreadedInv
  /\ server = "reactor" => ReactorInv

-----------------------------------------------------------------------------
(* What the invariant's parts say of the operators. *)

LEMMA ConnsFacts ==
  /\ Conns = Fds /\ 0 \notin Conns /\ Conns \subseteq Nat /\ Conns \in SUBSET (0 .. Clients)
  /\ IsFiniteSet(Conns) /\ Cardinality(Conns) = Clients
  /\ SocketRoom \in Nat /\ Clients \in Nat
<1>1. Clients \in Nat /\ SocketRoom \in Nat
  BY SocketsAssumption
<1>2. IsFiniteSet(1 .. Clients) /\ Cardinality(1 .. Clients) = Clients
  BY <1>1, FS_Interval
<1> QED
  BY <1>1, <1>2 DEF Conns, Fds

\* What is said is no announcement.
LEMMA SpokenApart == Spoken \cap {"entered", "left", "hello"} = {}
BY SocketsAssumption DEF Spoken

LEMMA NotesFacts ==
  /\ Events \subseteq Notes
  /\ \A e \in Notes : e \in Events <=> e.what # "hello"
  /\ \A c \in Conns : Note(c, "entered") \in Events /\ Note(c, "left") \in Events
  /\ \A c \in Conns : Note(c, "hello") \in Notes \ Events
  /\ \A c \in Conns, line \in Spoken \ {Quit} : Note(c, line) \in Events
<1>1. "hello" \notin {"entered", "left"} \cup (Spoken \ {Quit})
  BY SpokenApart
<1> QED
  BY <1>1 DEF Events, Notes, Note

\* What one has heard of a conversation s from the place k on.
HeardOf(s, k, c) == Only(SubSeq(s, k + 1, Len(s)), {e \in ToSet(s) : e.by # c})

LEMMA HeardIs ==
  ASSUME NEW c
  PROVE  /\ TheFeed!Heard(c) = HeardOf(log, since[c], c)
         /\ TheFeed!Heard(c)' = HeardOf(log', since'[c], c)
BY DEF TheFeed!Heard, TheFeed!Only, TheFeed!FoldLeft, TheFeed!MapThenFoldSet, TheFeed!Max,
       TheFeed!ToSet, HeardOf, Only, FoldLeft, MapThenFoldSet, Max, ToSet

LEMMA HeardElsewhere ==
  ASSUME NEW s \in Seq(Events), NEW k \in 0 .. Len(s), NEW c
  PROVE  /\ HeardOf(s, k, c) = Only(SubSeq(s, k + 1, Len(s)), {e \in Events : e.by # c})
         /\ HeardOf(s, k, c) \in Seq(Events)
<1> DEFINE t == SubSeq(s, k + 1, Len(s))
           V == ToSet(s)
           S == {e \in V : e.by # c}
           R == {e \in Events : e.by # c}
<1>1. V \subseteq Events /\ s \in Seq(V) /\ V = {s[i] : i \in 1 .. Len(s)}
  BY DEF ToSet
<1>2. t \in Seq(V)
  BY <1>1
<1>3. V \cap S = V \cap R
  BY <1>1
<1>6. V \cap S \subseteq Events
  BY <1>1
<1>0. HeardOf(s, k, c) = Only(t, S)
  BY DEF HeardOf
<1> HIDE DEF V, S, R, t
<1>4. Only(t, S) \in Seq(V \cap S)
  BY <1>2, OnlyType
<1>5. Only(t, S) = Only(t, R)
  BY <1>2, <1>3, OnlySame
<1>7. Only(t, S) \in Seq(Events)
  BY <1>4, <1>6
<1> QED
  BY <1>0, <1>5, <1>7 DEF R, t

LEMMA HeardMore ==
  ASSUME NEW s \in Seq(Events), NEW k \in 0 .. Len(s), NEW c, NEW e \in Events
  PROVE  HeardOf(Append(s, e), k, c) =
           IF e.by # c THEN Append(HeardOf(s, k, c), e) ELSE HeardOf(s, k, c)
<1> DEFINE R == {x \in Events : x.by # c}
           t == SubSeq(s, k + 1, Len(s))
<1>1. /\ Append(s, e) \in Seq(Events) /\ Len(Append(s, e)) = Len(s) + 1
      /\ k \in 0 .. Len(Append(s, e)) /\ t \in Seq(Events)
  OBVIOUS
<1>2. SubSeq(Append(s, e), k + 1, Len(s) + 1) = Append(t, e)
  <2> DEFINE u == SubSeq(Append(s, e), k + 1, Len(s) + 1)
             v == Append(t, e)
  <2>1. /\ u \in Seq(Events) /\ v \in Seq(Events)
        /\ Len(u) = Len(s) + 1 - k /\ Len(v) = Len(s) + 1 - k /\ Len(t) = Len(s) - k
    OBVIOUS
  <2>2. ASSUME NEW i \in 1 .. Len(s) + 1 - k PROVE u[i] = v[i]
    <3>1. u[i] = Append(s, e)[i + k] /\ i + k \in 1 .. Len(s) + 1
      OBVIOUS
    <3>2. CASE i = Len(s) + 1 - k
      BY <3>1, <3>2
    <3>3. CASE i # Len(s) + 1 - k
      <4>1. i \in 1 .. Len(t) /\ i + k \in 1 .. Len(s)
        BY <2>1, <3>3
      <4>2. v[i] = t[i] /\ t[i] = s[i + k] /\ Append(s, e)[i + k] = s[i + k]
        BY <4>1
      <4> QED
        BY <3>1, <4>2
    <3> QED
      BY <3>2, <3>3
  <2> HIDE DEF u, v
  <2> QED
    BY <2>1, <2>2, SeqEqual DEF u, v
<1>3. HeardOf(Append(s, e), k, c) = Only(Append(t, e), R)
  <2> DEFINE u == Append(s, e)
  <2>1. u \in Seq(Events) /\ k \in 0 .. Len(u)
    BY <1>1
  <2> HIDE DEF u
  <2>2. HeardOf(u, k, c) = Only(SubSeq(u, k + 1, Len(u)), R)
    BY <2>1, HeardElsewhere
  <2> QED
    BY <1>1, <1>2, <2>2 DEF u
<1>4. HeardOf(s, k, c) = Only(t, R)
  BY HeardElsewhere
<1>5. e \in R <=> e.by # c
  OBVIOUS
<1> HIDE DEF R, t
<1> QED
  BY <1>1, <1>3, <1>4, <1>5, OnlyAppend

LEMMA HeardNothing ==
  ASSUME NEW s \in Seq(Events), NEW c
  PROVE  HeardOf(s, Len(s), c) = <<>>
<1>1. SubSeq(s, Len(s) + 1, Len(s)) = <<>>
  OBVIOUS
<1> QED
  BY <1>1, OnlyEmpty DEF HeardOf

\* One connection more or less far in its life.
LEMMA SocketsWith ==
  ASSUME net \in Sockets, NEW c \in Conns
  PROVE  /\ \A to \in {"none", "queued", "open", "closed"} : [net EXCEPT ![c].status = to] \in Sockets
         /\ \A how \in {"no", "fin", "reset"}, up \in Seq(Spoken) :
              [net EXCEPT ![c].end = how, ![c].up = up] \in Sockets
<1> DEFINE Socket == [status : {"none", "queued", "open", "closed"}, end : {"no", "fin", "reset"},
                      up : Seq(Spoken), down : Seq(Events), unread : 0 .. SocketRoom]
<1>1. net[c] \in Socket /\ Sockets = [Conns -> Socket]
  BY DEF Sockets
<1>2. ASSUME NEW r \in Socket PROVE [net EXCEPT ![c] = r] \in Sockets
  <2> HIDE DEF Socket
  <2> QED
    BY <1>1
<1>3. ASSUME NEW to \in {"none", "queued", "open", "closed"}
      PROVE  [net EXCEPT ![c].status = to] \in Sockets
  <2>1. [net[c] EXCEPT !.status = to] \in Socket
    BY <1>1
  <2>2. [net EXCEPT ![c] = [net[c] EXCEPT !.status = to]] \in Sockets
    BY <1>2, <2>1
  <2> QED
    BY <2>2
<1>4. ASSUME NEW how \in {"no", "fin", "reset"}, NEW up \in Seq(Spoken)
      PROVE  [net EXCEPT ![c].end = how, ![c].up = up] \in Sockets
  <2>1. [net[c] EXCEPT !.end = how, !.up = up] \in Socket
    BY <1>1
  <2>2. [net EXCEPT ![c] = [net[c] EXCEPT !.end = how, !.up = up]] \in Sockets
    BY <1>2, <2>1
  <2>3. [net EXCEPT ![c].end = how, ![c].up = up] = [net EXCEPT ![c] = [net[c] EXCEPT !.end = how, !.up = up]]
    BY <1>1
  <2> QED
    BY <2>2, <2>3
<1> QED
  BY <1>3, <1>4

\* What a send does.
LEMMA SentIs ==
  ASSUME net \in Sockets, NEW c \in Conns, NEW notes \in Seq(Notes),
         Alive(c) => Len(notes) <= Room(c)
  PROVE  /\ Sent(c, notes) \in Sockets
         /\ \A d \in Conns : /\ Sent(c, notes)[d].status = net[d].status
                             /\ Sent(c, notes)[d].end = net[d].end
                             /\ d # c => Sent(c, notes)[d] = net[d]
         /\ Sent(c, notes)[c].down =
              IF Alive(c) THEN net[c].down \o Only(notes, Events) ELSE net[c].down
<1> DEFINE some == Only(notes, {e \in ToSet(notes) : e.what # "hello"})
           left == IF c \in Lazy THEN net[c].unread + Len(notes) ELSE 0
<1>1. some = Only(notes, Events) /\ some \in Seq(Events)
  <2> DEFINE V == ToSet(notes)
             S == {e \in V : e.what # "hello"}
  <2>1. notes \in Seq(V) /\ V \subseteq Notes
    BY DEF ToSet
  <2>2. V \cap S = V \cap Events
    BY <2>1, NotesFacts
  <2>3. V \cap Events \subseteq Events
    OBVIOUS
  <2> HIDE DEF V, S
  <2>4. Only(notes, S) = Only(notes, Events)
    BY <2>1, <2>2, OnlySame
  <2>5. Only(notes, Events) \in Seq(V \cap Events)
    BY <2>1, OnlyType
  <2>6. Only(notes, Events) \in Seq(Events)
    BY <2>3, <2>5
  <2> QED
    BY <2>4, <2>6 DEF S, V
<1>2. Alive(c) => left \in 0 .. SocketRoom
  BY ConnsFacts DEF Sockets, Room
<1> HIDE DEF some, left
<1>3. CASE ~Alive(c)
  BY <1>3 DEF Sent
<1>4. CASE Alive(c)
  <2>1. Sent(c, notes) = [net EXCEPT ![c].down = @ \o some, ![c].unread = left]
    BY <1>4 DEF Sent, some, left
  <2>2. net[c].down \o some \in Seq(Events)
    BY <1>1 DEF Sockets
  <2> DEFINE n == Sent(c, notes)
             down == net[c].down \o some
  <2>3. n = [net EXCEPT ![c].down = down, ![c].unread = left]
    BY <2>1
  <2> HIDE DEF n, down
  <2>4. /\ n \in Sockets
        /\ \A d \in Conns : d # c => n[d] = net[d]
        /\ n[c].status = net[c].status /\ n[c].end = net[c].end /\ n[c].down = down
    <3> DEFINE Socket == [status : {"none", "queued", "open", "closed"}, end : {"no", "fin", "reset"},
                          up : Seq(Spoken), down : Seq(Events), unread : 0 .. SocketRoom]
               r == [net[c] EXCEPT !.down = down, !.unread = left]
    <3>1. Sockets = [Conns -> Socket] /\ net[c] \in Socket
      BY DEF Sockets
    <3>2. down \in Seq(Events) /\ left \in 0 .. SocketRoom
      BY <1>2, <1>4, <2>2 DEF down
    <3>3. r \in Socket /\ r.status = net[c].status /\ r.end = net[c].end /\ r.down = down
      BY <3>1, <3>2
    <3> HIDE DEF Socket
    <3>4. n = [net EXCEPT ![c] = r]
      BY <2>3, <3>1
    <3> HIDE DEF r
    <3>5. n \in Sockets /\ n[c] = r /\ \A d \in Conns : d # c => n[d] = net[d]
      BY <3>1, <3>3, <3>4
    <3> QED
      BY <3>3, <3>5
  <2> QED
    BY <1>1, <1>4, <2>4 DEF n, down
<1> QED
  BY <1>3, <1>4

\* What one more note in the conversation tells.
LEMMA LoggedMore ==
  ASSUME log \in Seq(Events), NEW e \in Events, log' = Append(log, e)
  PROVE  \A c, what : Logged(c, what)' <=> Logged(c, what) \/ e = Note(c, what)
<1>1. ToSet(log') = ToSet(log) \cup {e}
  BY ToSetAppend
<1> QED
  BY <1>1 DEF Logged

LEMMA LoggedSame ==
  ASSUME log' = log
  PROVE  \A c, what : Logged(c, what)' <=> Logged(c, what)
BY DEF Logged

LEMMA HeardSame ==
  ASSUME log' = log, NEW c, since'[c] = since[c]
  PROVE  TheFeed!Heard(c)' = TheFeed!Heard(c)
<1>1. TheFeed!Heard(c) = HeardOf(log, since[c], c)
  BY HeardIs
<1>2. TheFeed!Heard(c)' = HeardOf(log', since'[c], c)
  BY HeardIs
<1> QED
  BY <1>1, <1>2

LEMMA HeardGrows ==
  ASSUME SocketsInv, NEW e \in Events, log' = Append(log, e), NEW c \in Conns, since'[c] = since[c]
  PROVE  TheFeed!Heard(c)' =
           IF e.by # c THEN Append(TheFeed!Heard(c), e) ELSE TheFeed!Heard(c)
<1>1. log \in Seq(Events) /\ since[c] \in 0 .. Len(log)
  BY DEF SocketsInv
<1>2. TheFeed!Heard(c) = HeardOf(log, since[c], c)
  BY HeardIs
<1>3. TheFeed!Heard(c)' = HeardOf(log', since'[c], c)
  BY HeardIs
<1> DEFINE k == since[c]
           s == log
<1>4. s \in Seq(Events) /\ k \in 0 .. Len(s)
  BY <1>1
<1> HIDE DEF k, s
<1>5. HeardOf(Append(s, e), k, c) =
        IF e.by # c THEN Append(HeardOf(s, k, c), e) ELSE HeardOf(s, k, c)
  BY <1>4, HeardMore
<1> QED
  BY <1>2, <1>3, <1>5 DEF k, s

(* The steps of Feed, as the servers' steps show themselves. *)

SameDown(S) == \A c \in S : net'[c].down = net[c].down
SamePhase(S) == \A c \in S : Phase(c)' = Phase(c)

LEMMA FeedStutters ==
  ASSUME log' = log, since' = since, SameDown(Conns), SamePhase(Conns)
  PROVE  UNCHANGED TheFeed!vars
BY DEF TheFeed!vars, SameDown, SamePhase

LEMMA FeedJoins ==
  ASSUME NEW c \in Conns, Phase(c) = "out", since' = [since EXCEPT ![c] = Len(log)],
         \/ Phase(c)' = "in" /\ log' = log
         \/ Phase(c)' = "entered" /\ log' = Append(log, Note(c, "entered")),
         SameDown(Conns), SamePhase(Conns \ {c})
  PROVE  TheFeed!Next
BY DEF TheFeed!Next, TheFeed!Join, TheFeed!To, TheFeed!Event, Note, SameDown, SamePhase

LEMMA FeedAnnounces ==
  ASSUME NEW c \in Conns, Phase(c) = "in", Phase(c)' = "entered",
         log' = Append(log, Note(c, "entered")), since' = since,
         SameDown(Conns), SamePhase(Conns \ {c})
  PROVE  TheFeed!Next
BY DEF TheFeed!Next, TheFeed!Announce, TheFeed!To, TheFeed!Event, Note, SameDown, SamePhase

LEMMA FeedSays ==
  ASSUME NEW c \in Conns, Phase(c) = "entered", NEW text \in Spoken \ {Quit},
         log' = Append(log, Note(c, text)), since' = since,
         SameDown(Conns), SamePhase(Conns)
  PROVE  TheFeed!Next
BY DEF TheFeed!Next, TheFeed!Say, TheFeed!Event, Note, SameDown, SamePhase, Spoken

LEMMA FeedLeaves ==
  ASSUME NEW c \in Conns, Phase(c) = "entered", since' = since,
         \/ Phase(c)' = "gone" /\ log' = log
         \/ Phase(c)' = "done" /\ log' = Append(log, Note(c, "left")),
         SameDown(Conns), SamePhase(Conns \ {c})
  PROVE  TheFeed!Next
BY DEF TheFeed!Next, TheFeed!Leave, TheFeed!To, TheFeed!Event, Note, SameDown, SamePhase

LEMMA FeedSaysGoodbye ==
  ASSUME NEW c \in Conns, Phase(c) = "gone", Phase(c)' = "done",
         log' = Append(log, Note(c, "left")), since' = since,
         SameDown(Conns), SamePhase(Conns \ {c})
  PROVE  TheFeed!Next
BY DEF TheFeed!Next, TheFeed!Bye, TheFeed!To, TheFeed!Event, Note, SameDown, SamePhase

\* More of what is to be heard, or nothing.
LEMMA FeedHears ==
  ASSUME net \in Sockets, NEW c \in Conns, Phase(c) \in {"in", "entered"},
         NEW more \in Seq(Events), NEW rest \in Seq(Events),
         TheFeed!Heard(c) = (net[c].down \o more) \o rest,
         net'[c].down = net[c].down \o more,
         log' = log, since' = since, SameDown(Conns \ {c}), SamePhase(Conns)
  PROVE  TheFeed!Next \/ UNCHANGED TheFeed!vars
<1> DEFINE down == net[c].down
<1>1. down \in Seq(Events)
  BY DEF Sockets
<1>2. CASE more = <<>>
  <2>1. net'[c].down = net[c].down
    BY <1>1, <1>2
  <2>2. SameDown(Conns)
    BY <2>1 DEF SameDown
  <2> QED
    BY <2>2, FeedStutters
<1>3. CASE more # <<>>
  <2> DEFINE k == Len(down) + Len(more)
             H == TheFeed!Heard(c)
  <2> HIDE DEF H
  <2>1. H = (down \o more) \o rest
    BY DEF H
  <2> HIDE DEF down
  <2>2. k \in Len(down) + 1 .. Len(H)
    BY <1>1, <1>3, <2>1
  <2>3. SubSeq(H, 1, k) = down \o more
    <3>1. down \o more \in Seq(Events) /\ Len(down \o more) = k
      BY <1>1
    <3> DEFINE u == down \o more
    <3> HIDE DEF u
    <3>2. u \in Seq(Events) /\ Len(u) = k /\ H = u \o rest /\ k \in Nat
      BY <1>1, <2>1, <3>1 DEF u
    <3> HIDE DEF k
    <3>3. /\ SubSeq(H, 1, k) \in Seq(Events) /\ Len(SubSeq(H, 1, k)) = k
          /\ \A i \in 1 .. k : SubSeq(H, 1, k)[i] = u[i]
      BY <3>2
    <3>4. SubSeq(H, 1, k) = u
      BY <3>2, <3>3, SeqEqual
    <3> QED
      BY <3>4 DEF u
  <2>4. [d \in Conns |-> net'[d].down] =
          [[d \in Conns |-> net[d].down] EXCEPT ![c] = SubSeq(H, 1, k)]
    BY <2>3 DEF SameDown, down
  <2>5. [d \in Conns |-> net[d].down][c] = down
    BY DEF down
  <2>6. UNCHANGED <<log, since, [d \in Conns |-> Phase(d)]>>
    BY DEF SamePhase
  <2>7. TheFeed!Hear(c)
    BY <2>2, <2>4, <2>5, <2>6 DEF TheFeed!Hear, H
  <2> QED
    BY <2>7 DEF TheFeed!Next
<1> QED
  BY <1>2, <1>3

-----------------------------------------------------------------------------
(* The threaded server. *)

ThreadedState == server = "threaded" /\ SocketsInv /\ ThreadedInv

\* What becomes of the state, and of the promise.
Kept == SocketsInv' /\ ThreadedInv'
Promised == TheFeed!Next \/ UNCHANGED TheFeed!vars

LEMMA OnceAppend ==
  ASSUME NEW V, NEW s \in Seq(V), NEW e \in V, Once(s), e \notin ToSet(s)
  PROVE  Once(Append(s, e))
<1> DEFINE t == Append(s, e)
<1>1. /\ Len(t) = Len(s) + 1 /\ Len(s) \in Nat /\ t[Len(s) + 1] = e
      /\ \A i \in 1 .. Len(s) : t[i] = s[i]
  OBVIOUS
<1>2. \A i \in 1 .. Len(s) : s[i] # e
  BY DEF ToSet
<1>3. \A i \in 1 .. Len(t) : i \in 1 .. Len(s) \/ i = Len(s) + 1
  BY <1>1
<1> HIDE DEF t
<1> QED
  BY <1>1, <1>2, <1>3 DEF Once, t

LEMMA OnceTail ==
  ASSUME NEW V, NEW s \in Seq(V), s # <<>>, Once(s)
  PROVE  /\ Tail(s) \in Seq(V) /\ Once(Tail(s))
         /\ Head(s) \in ToSet(s) /\ ToSet(Tail(s)) = ToSet(s) \ {Head(s)}
<1> DEFINE t == Tail(s)
           n == Len(t)
<1>1. /\ t \in Seq(V) /\ n \in Nat /\ Len(s) = n + 1 /\ Head(s) = s[1]
      /\ DOMAIN s = 1 .. n + 1 /\ DOMAIN t = 1 .. n
      /\ \A i \in 1 .. n : t[i] = s[i + 1]
  OBVIOUS
<1> HIDE DEF n, t
<1>2. \A i \in 1 .. n : i + 1 \in 1 .. n + 1 /\ i + 1 # 1
  BY <1>1
<1>3. \A i \in 1 .. n + 1 : i # 1 => i - 1 \in 1 .. n /\ (i - 1) + 1 = i
  BY <1>1
<1>4. 1 \in 1 .. n + 1
  BY <1>1
<1>5. Once(t)
  <2>1. \A i, j \in 1 .. n : i + 1 = j + 1 => i = j
    BY <1>1
  <2>2. \A i, j \in 1 .. n : t[i] = t[j] => i = j
    <3> TAKE i, j \in 1 .. n
    <3>1. s[i + 1] = s[j + 1] => i + 1 = j + 1
      BY <1>1, <1>2 DEF Once
    <3> QED
      BY <1>1, <2>1, <3>1
  <2> QED
    BY <2>2 DEF Once, n
<1>6. ToSet(s) = {s[i] : i \in 1 .. n + 1} /\ ToSet(t) = {t[i] : i \in 1 .. n}
  BY <1>1 DEF ToSet
<1>7. ASSUME NEW x \in ToSet(t) PROVE x \in ToSet(s) \ {Head(s)}
  <2>1. PICK i \in 1 .. n : x = t[i]
    BY <1>6
  <2>2. x = s[i + 1] /\ s[i + 1] # s[1]
    BY <1>1, <1>2, <1>4, <2>1 DEF Once
  <2> QED
    BY <1>1, <1>2, <1>6, <2>2
<1>8. ASSUME NEW x \in ToSet(s) \ {Head(s)} PROVE x \in ToSet(t)
  <2>1. PICK i \in 1 .. n + 1 : x = s[i]
    BY <1>6
  <2>2. i # 1
    BY <1>1, <2>1
  <2>3. x = t[i - 1] /\ i - 1 \in 1 .. n
    BY <1>1, <1>3, <2>1, <2>2
  <2> QED
    BY <1>6, <2>3
<1> QED
  BY <1>1, <1>4, <1>5, <1>6, <1>7, <1>8 DEF t

\* What the thread's place and the mutex tell of the phase.
PhaseAt(p, holds) ==
  IF p \in Early THEN "out"
  ELSE IF p = "greet" /\ ~holds THEN "in"
  ELSE IF p \in InList THEN "entered"
  ELSE IF p = "close" \/ (p = "bye" /\ ~holds) THEN "gone" ELSE "done"

LEMMA ThreadPhase ==
  ASSUME NEW c \in Conns
  PROVE  /\ server = "threaded" /\ ThreadType /\ AnnouncedInv =>
              Phase(c) = PhaseAt(thread[c].pc, g_mutex.by = c)
         /\ (server = "threaded" /\ ThreadType /\ AnnouncedInv)' =>
              Phase(c)' = PhaseAt(thread'[c].pc, g_mutex'.by = c)
<1>1. ASSUME server = "threaded", ThreadType, AnnouncedInv
      PROVE  Phase(c) = PhaseAt(thread[c].pc, g_mutex.by = c)
  <2>1. thread[c].pc \in Early \cup InList \cup {"close"} \cup Ended
    BY <1>1 DEF ThreadType
  <2> QED
    BY <1>1, <2>1 DEF AnnouncedInv, Announced, Phase, PhaseAt, Listed, Early, InList, Ended
<1>2. ASSUME server' = "threaded", ThreadType', AnnouncedInv'
      PROVE  Phase(c)' = PhaseAt(thread'[c].pc, g_mutex'.by = c)
  <2>1. thread'[c].pc \in Early \cup InList \cup {"close"} \cup Ended
    BY <1>2 DEF ThreadType
  <2> QED
    BY <1>2, <2>1 DEF AnnouncedInv, Announced, Phase, PhaseAt, Listed, Early, InList, Ended
<1> QED
  BY <1>1, <1>2

LEMMA FreeIs == Free.by = 0 /\ Free.todo = <<>> /\ ToSet(<<>>) = {} /\ Once(<<>>)
BY DEF Free, ToSet, Once

LEMMA HolderIs ==
  ASSUME ThreadType, NEW c \in Conns, g_mutex.by = c
  PROVE  /\ g_mutex # Free /\ g_mutex \in [by : Conns, note : Events, todo : Seq(Fds)]
         /\ g_mutex.todo # <<>>
BY ConnsFacts, FreeIs DEF ThreadType

\* The clients' steps and whatever else does not concern the threads.
LEMMA ThreadedKeeps ==
  ASSUME ThreadedInv, UNCHANGED threadedVars, log' = log, since' = since,
         \A c \in Conns : /\ net'[c].status = net[c].status /\ net'[c].down = net[c].down
                          /\ Alive(c)' => Alive(c)
  PROVE  ThreadedInv'
<1>1. UNCHANGED <<thread, g_clients, g_mutex>>
  BY DEF threadedVars
<1>2. \A c \in Conns : TheFeed!Heard(c)' = TheFeed!Heard(c)
  BY HeardSame
<1>3. ThreadType' /\ ListInv' /\ MutexInv'
  BY <1>1 DEF ThreadedInv, ThreadType, ListInv, MutexInv
<1>4. StatusInv'
  BY <1>1 DEF ThreadedInv, StatusInv
<1>5. FdInv'
  <2>1. Open' = Open
    BY DEF Open
  <2> QED
    BY <1>1, <2>1 DEF ThreadedInv, FdInv
<1>6. AnnouncedInv'
  BY <1>1, LoggedSame DEF ThreadedInv, AnnouncedInv, Announced
<1>7. HeardInv'
  BY <1>1, <1>2 DEF ThreadedInv, HeardInv
<1> QED
  BY <1>3, <1>4, <1>5, <1>6, <1>7 DEF ThreadedInv

LEMMA ClientKeeps ==
  ASSUME SocketsInv, NEW c \in Conns, ClientStep(c)
  PROVE  /\ SocketsInv' /\ log' = log /\ since' = since
         /\ \A d \in Conns : /\ net'[d].status = net[d].status /\ net'[d].down = net[d].down
                             /\ Alive(d)' => Alive(d)
<1>1. CASE SendLine(c)
  <2>1. PICK line \in Lines[c] : net' = [net EXCEPT ![c].up = Append(@, line)]
    BY <1>1 DEF SendLine
  <2>2. line \in Spoken
    BY DEF Spoken
  <2>3. Append(net[c].up, line) \in Seq(Spoken)
    BY <2>2 DEF SocketsInv, Sockets
  <2>4. net' \in Sockets
    BY ZenonT(60), <2>1, <2>3 DEF SocketsInv, Sockets
  <2> QED
    BY <1>1, <2>1, <2>4 DEF SendLine, SocketsInv, Sockets, Alive
<1>2. CASE End(c)
  <2>1. PICK how \in Endings[c] :
          net' = [net EXCEPT ![c].end = how, ![c].up = IF how = "reset" THEN <<>> ELSE @]
    BY <1>2 DEF End
  <2>2. how \in {"fin", "reset"}
    BY SocketsAssumption
  <2> DEFINE up == IF how = "reset" THEN <<>> ELSE net[c].up
  <2>3. up \in Seq(Spoken)
    BY DEF SocketsInv, Sockets
  <2>4. net' = [net EXCEPT ![c].end = how, ![c].up = up]
    BY <2>1
  <2> HIDE DEF up
  <2>5. net' \in Sockets
    BY <2>2, <2>3, <2>4, SocketsWith DEF SocketsInv
  <2> QED
    BY SMTT(30), <1>2, <2>4, <2>5 DEF End, SocketsInv, Sockets, Alive
<1>3. CASE ReadAll(c)
  <2>1. 0 \in 0 .. SocketRoom
    BY ConnsFacts
  <2>2. net' = [net EXCEPT ![c].unread = 0]
    BY <1>3 DEF ReadAll
  <2>3. net' \in Sockets
    BY ZenonT(60), <2>1, <2>2 DEF SocketsInv, Sockets
  <2> QED
    BY SMTT(30), <1>3, <2>2, <2>3 DEF ReadAll, SocketsInv, Sockets, Alive
<1> QED
  BY <1>1, <1>2, <1>3 DEF ClientStep

\* A thread goes on without the lock, the list and the conversation.
LEMMA ThreadMoves ==
  ASSUME ThreadedState, server' = server, NEW c \in Conns, g_mutex.by # c,
         net' \in Sockets, ThreadType', UNCHANGED <<log, since, g_clients, g_mutex>>,
         \A d \in Conns \ {c} : thread'[d] = thread[d] /\ net'[d].status = net[d].status,
         \A d \in Conns : net'[d].down = net[d].down /\ (Alive(d)' => Alive(d)),
         thread'[c].fd = thread[c].fd,
         \/ /\ thread[c].pc \in {"hello", "lines", "unregister"}
            /\ thread'[c].pc \in {"hello", "lines", "unregister"}
            /\ net'[c].status = net[c].status
         \/ thread[c].pc = "close" /\ thread'[c].pc = "bye" /\ net'[c].status = "closed"
  PROVE  Kept /\ Promised
<1> USE DEF ThreadedState, ThreadedInv
<1>1. SocketsInv'
  BY DEF SocketsInv
<1>2. StatusInv'
  BY DEF StatusInv, InList, Ended
<1>3. \A d \in Conns : thread'[d].fd = thread[d].fd /\ (thread'[d].pc \in InList <=> thread[d].pc \in InList)
  BY DEF InList
<1>4. FdInv'
  <2>1. Open' \subseteq Open
    BY DEF Open, StatusInv, InList, Ended
  <2> QED
    BY <1>3, <2>1 DEF FdInv, Open
<1>5. ListInv'
  BY <1>3 DEF ListInv
<1>6. MutexInv'
  <2>1. g_mutex # Free => g_mutex.by \in Conns \ {c}
    BY DEF ThreadType
  <2> QED
    BY <2>1 DEF MutexInv
<1>7. AnnouncedInv'
  BY LoggedSame DEF AnnouncedInv, Announced, Ended
<1>8. HeardInv'
  <2>1. \A d \in Conns : TheFeed!Heard(d)' = TheFeed!Heard(d)
    BY HeardSame
  <2>2. \A d \in Conns : thread'[d].pc \in Early => thread[d].pc \in Early
    BY DEF Early
  <2> QED
    BY <1>3, <2>1, <2>2 DEF HeardInv
<1>9. SamePhase(Conns)
  <2>1. \A d \in Conns : /\ Phase(d) = PhaseAt(thread[d].pc, g_mutex.by = d)
                         /\ Phase(d)' = PhaseAt(thread'[d].pc, g_mutex.by = d)
    BY <1>7, ThreadPhase
  <2>2. Phase(c)' = Phase(c)
    <3>1. /\ Phase(c) = PhaseAt(thread[c].pc, g_mutex.by = c)
          /\ Phase(c)' = PhaseAt(thread'[c].pc, g_mutex.by = c)
      BY <2>1
    <3> QED
      BY <3>1 DEF PhaseAt, Early, InList
  <2>3. \A d \in Conns \ {c} : Phase(d)' = Phase(d)
    BY <2>1
  <2> QED
    BY <2>2, <2>3 DEF SamePhase
<1>10. UNCHANGED TheFeed!vars
  BY <1>9, FeedStutters DEF SameDown
<1> QED
  BY <1>1, <1>2, <1>4, <1>5, <1>6, <1>7, <1>8, <1>10 DEF Kept, Promised

LEMMA MovesKeep ==
  ASSUME ThreadedState, server' = server, NEW c \in Conns,
         Hello(c) \/ Recv(c) \/ QuitLine(c) \/ Close(c)
  PROVE  Kept /\ Promised
<1> USE DEF ThreadedState, ThreadedInv
<1>0. thread[c] \in [pc : Early \cup InList \cup {"close"} \cup Ended, fd : Fds \cup {NoFd},
                    acc : Seq(Spoken)]
  BY DEF ThreadType
<1>a. net \in Sockets
  BY DEF SocketsInv
<1>1. CASE Hello(c)
  <2> DEFINE notes == <<Note(c, "hello")>>
  <2>1. notes \in Seq(Notes) /\ Len(notes) = 1
    BY NotesFacts
  <2>2. Alive(c) => Len(notes) <= Room(c)
    BY <1>1, <1>a, <2>1, ConnsFacts DEF Hello, Room, Sockets
  <2>3. net' = Sent(c, notes)
    BY <1>1 DEF Hello
  <2>4. Only(notes, Events) = <<>>
    <3>1. notes = Append(<<>>, Note(c, "hello")) /\ <<>> \in Seq(Notes)
      OBVIOUS
    <3>2. Note(c, "hello") \in Notes /\ Note(c, "hello") \notin Events
      BY NotesFacts
    <3> HIDE DEF notes
    <3>3. Only(Append(<<>>, Note(c, "hello")), Events) = Only(<<>>, Events)
      BY ZenonT(60), <3>1, <3>2, OnlyAppend
    <3> QED
      BY <3>1, <3>3, OnlyEmpty
  <2> HIDE DEF notes
  <2>5. /\ net' \in Sockets
        /\ \A d \in Conns : /\ net'[d].status = net[d].status /\ net'[d].end = net[d].end
                            /\ d # c => net'[d] = net[d]
        /\ net'[c].down = IF Alive(c) THEN net[c].down \o Only(notes, Events) ELSE net[c].down
    BY <1>a, <2>1, <2>2, <2>3, SentIs
  <2>6. net[c].down \in Seq(Events)
    BY <1>a DEF Sockets
  <2>7. \A d \in Conns : net'[d].down = net[d].down /\ (Alive(d)' => Alive(d))
    <3>1. net[c].down \o <<>> = net[c].down
      BY <2>6
    <3>2. net'[c].down = net[c].down
      BY <2>4, <2>5, <3>1
    <3>3. \A d \in Conns : net'[d].down = net[d].down
      BY <2>5, <3>2
    <3>4. \A d \in Conns : Alive(d)' => Alive(d)
      BY <2>5 DEF Alive
    <3> QED
      BY <3>3, <3>4
  <2>8. /\ thread[c].pc = "hello" /\ thread' = [thread EXCEPT ![c].pc = "lines"]
        /\ UNCHANGED <<log, since, g_clients, g_mutex>>
    BY <1>1 DEF Hello, Goto
  <2>9. ThreadType'
    BY <2>8 DEF ThreadType, InList
  <2>10. g_mutex.by # c
    BY <2>8, HolderIs DEF MutexInv
  <2>11. /\ thread'[c].pc = "lines" /\ thread'[c].fd = thread[c].fd
         /\ \A d \in Conns \ {c} : thread'[d] = thread[d]
    BY <2>8 DEF ThreadType
  <2>12. /\ net'[c].status = net[c].status
         /\ \A d \in Conns \ {c} : thread'[d] = thread[d] /\ net'[d].status = net[d].status
    BY <2>5, <2>11
  <2> HIDE DEF ThreadedState, ThreadedInv
  <2> QED
    BY <2>5, <2>7, <2>8, <2>9, <2>10, <2>11, <2>12, ThreadMoves
<1>2. CASE Recv(c)
  <2>1. thread[c].pc = "lines" /\ thread[c].acc = <<>> /\ UNCHANGED <<log, since, g_clients, g_mutex>>
    BY <1>2 DEF Recv
  <2>2. g_mutex.by # c
    BY <2>1, HolderIs DEF MutexInv
  <2>3. CASE /\ thread' = [thread EXCEPT ![c].acc = net[c].up]
             /\ net' = [net EXCEPT ![c].up = <<>>]
    <3>1. net[c].up \in Seq(Spoken) /\ <<>> \in Seq(Spoken)
      BY <1>a DEF Sockets
    <3>2. net' \in Sockets
      BY ZenonT(60), <1>a, <2>3, <3>1 DEF Sockets
    <3>3. ThreadType'
      BY <2>1, <2>3, <3>1 DEF ThreadType
    <3>4. /\ \A d \in Conns \ {c} : thread'[d] = thread[d]
          /\ thread'[c].fd = thread[c].fd /\ thread'[c].pc = "lines"
      BY <2>1, <2>3 DEF ThreadType
    <3>5. \A d \in Conns : /\ net'[d].status = net[d].status /\ net'[d].down = net[d].down
                           /\ Alive(d)' => Alive(d)
      BY <1>a, <2>3 DEF Sockets, Alive
    <3>6. /\ net'[c].status = net[c].status
          /\ \A d \in Conns \ {c} : thread'[d] = thread[d] /\ net'[d].status = net[d].status
      BY <3>4, <3>5
    <3> HIDE DEF ThreadedState, ThreadedInv
    <3> QED
      BY <2>1, <2>2, <3>2, <3>3, <3>4, <3>5, <3>6, ThreadMoves
  <2>4. CASE Goto(c, "unregister") /\ net' = net
    <3>1. ThreadType'
      BY <2>1, <2>4 DEF ThreadType, Goto, InList
    <3>2. /\ \A d \in Conns \ {c} : thread'[d] = thread[d]
          /\ thread'[c].fd = thread[c].fd /\ thread'[c].pc = "unregister"
      BY <2>4 DEF ThreadType, Goto
    <3>3. \A d \in Conns : /\ net'[d].status = net[d].status /\ net'[d].down = net[d].down
                           /\ Alive(d)' => Alive(d)
      BY <2>4 DEF Alive
    <3> QED
      BY <1>a, <2>1, <2>2, <2>4, <3>1, <3>2, <3>3, ThreadMoves
  <2> QED
    BY <1>2, <2>3, <2>4 DEF Recv
<1>3. CASE QuitLine(c)
  <2>1. /\ thread[c].pc = "lines" /\ thread[c].acc # <<>> /\ Head(thread[c].acc) = Quit
        /\ thread' = [thread EXCEPT ![c].pc = "unregister", ![c].acc = <<>>]
        /\ UNCHANGED <<net, log, since, g_clients, g_mutex>>
    BY <1>3 DEF QuitLine, netVars
  <2>2. g_mutex.by # c
    BY <2>1, HolderIs DEF MutexInv
  <2>3. ThreadType'
    <3>1. <<>> \in Seq(Spoken)
      OBVIOUS
    <3>2. thread' \in [Conns -> [pc : Early \cup InList \cup {"close"} \cup Ended,
                               fd : Fds \cup {NoFd}, acc : Seq(Spoken)]]
      BY <2>1, <3>1 DEF ThreadType, InList
    <3> QED
      BY <2>1, <3>2 DEF ThreadType
  <2>4. /\ \A d \in Conns \ {c} : thread'[d] = thread[d]
        /\ thread'[c].fd = thread[c].fd /\ thread'[c].pc = "unregister"
    BY <2>1 DEF ThreadType
  <2>5. \A d \in Conns : /\ net'[d].status = net[d].status /\ net'[d].down = net[d].down
                         /\ Alive(d)' => Alive(d)
    BY <2>1 DEF Alive
  <2> QED
    BY <1>a, <2>1, <2>2, <2>3, <2>4, <2>5, ThreadMoves
<1>4. CASE Close(c)
  <2>1. /\ thread[c].pc = "close" /\ net' = [net EXCEPT ![c].status = "closed"]
        /\ thread' = [thread EXCEPT ![c].pc = "bye"]
        /\ UNCHANGED <<log, since, g_clients, g_mutex>>
    BY <1>4 DEF Close, Goto
  <2>2. g_mutex.by # c
    BY <2>1, HolderIs DEF MutexInv
  <2>3. ThreadType'
    BY ZenonT(60), <2>1 DEF ThreadType, Ended
  <2>4. /\ \A d \in Conns \ {c} : thread'[d] = thread[d]
        /\ thread'[c].fd = thread[c].fd /\ thread'[c].pc = "bye"
    BY <2>1 DEF ThreadType
  <2>5. net' \in Sockets
    BY ZenonT(60), <1>a, <2>1 DEF Sockets
  <2>6. /\ \A d \in Conns : net'[d].down = net[d].down /\ (Alive(d)' => Alive(d))
        /\ \A d \in Conns \ {c} : net'[d].status = net[d].status
        /\ net'[c].status = "closed"
    BY <1>a, <2>1 DEF Sockets, Alive
  <2> QED
    BY <2>1, <2>2, <2>3, <2>4, <2>5, <2>6, ThreadMoves
<1> QED
  BY <1>1, <1>2, <1>3, <1>4

\* Fewer open connections than numbers leave a number.
LEMMA NumberLeft ==
  ASSUME NEW O \in SUBSET Conns, O # Conns, NEW g
  PROVE  /\ Fds \ {g[c] : c \in O} # {}
         /\ Min(Fds \ {g[c] : c \in O}) \in Fds \ {g[c] : c \in O}
<1> DEFINE G == {g[c] : c \in O}
           f == [c \in O |-> g[c]]
<1>1. IsFiniteSet(O) /\ Cardinality(O) <= Clients /\ Cardinality(O) # Clients
  BY ConnsFacts, FS_Subset
<1>2. f \in Surjection(O, G)
  BY DEF Surjection
<1>3. Cardinality(G) <= Cardinality(O) /\ IsFiniteSet(G)
  BY <1>1, <1>2, FS_Surjection
<1>4. Cardinality(O) \in Nat /\ Cardinality(G) \in Nat /\ Clients \in Nat
  BY <1>1, <1>3, FS_CardinalityType, ConnsFacts
<1> HIDE DEF G, f
<1>5. ~(Fds \subseteq G)
  <2>1. SUFFICES ASSUME Fds \subseteq G PROVE FALSE
    OBVIOUS
  <2>2. Cardinality(Fds) <= Cardinality(G)
    BY <1>3, <2>1, FS_Subset
  <2> QED
    BY <1>1, <1>3, <1>4, <2>2, ConnsFacts
<1>6. Fds \ G # {} /\ Fds \ G \in SUBSET Nat
  BY <1>5, ConnsFacts
<1>7. Min(Fds \ G) \in Fds \ G
  BY <1>6, MinProperties
<1> QED
  BY <1>6, <1>7 DEF G

\* The next connection.
LEMMA NextConnection ==
  ASSUME Absent # {}
  PROVE  Min(Absent) \in Conns /\ net[Min(Absent)].status = "none"
<1>1. Absent \in SUBSET Nat
  BY ConnsFacts DEF Absent
<1>2. Min(Absent) \in Absent
  BY <1>1, MinProperties
<1> QED
  BY <1>2 DEF Absent

LEMMA AcceptThreadKeeps ==
  ASSUME ThreadedState, server' = server, AcceptThread
  PROVE  Kept /\ Promised
<1> USE DEF ThreadedState, ThreadedInv
<1>1. PICK c \in Conns : c = Min(Absent) /\ net[c].status = "none"
  BY NextConnection DEF AcceptThread
<1>2. PICK fd \in Unused : fd = Min(Unused)
  <2>1. Unused = Fds \ {thread[d].fd : d \in Open}
    BY DEF Unused, Open
  <2> DEFINE g == [d \in Conns |-> thread[d].fd]
  <2>2. {thread[d].fd : d \in Open} = {g[d] : d \in Open}
    BY DEF Open
  <2>3. Open \in SUBSET Conns /\ Open # Conns
    BY <1>1 DEF Open
  <2> HIDE DEF g
  <2> QED
    BY <2>1, <2>2, <2>3, NumberLeft
<1>3. /\ thread' = [thread EXCEPT ![c].pc = "register", ![c].fd = fd]
      /\ net' = [net EXCEPT ![c].status = "open"]
      /\ UNCHANGED <<log, since, g_clients, g_mutex>>
  BY <1>1, <1>2 DEF AcceptThread
<1>4. thread[c].pc = "none" /\ fd \in Fds
  BY <1>1, <1>2 DEF StatusInv, InList, Ended, Unused
<1>5. /\ thread'[c].pc = "register" /\ thread'[c].fd = fd
      /\ \A d \in Conns \ {c} : thread'[d] = thread[d]
      /\ \A d \in Conns : thread'[d].pc \in InList <=> thread[d].pc \in InList
  BY <1>1, <1>3, <1>4 DEF ThreadType, InList
<1>6. /\ net'[c].status = "open"
      /\ \A d \in Conns \ {c} : net'[d] = net[d]
      /\ \A d \in Conns : net'[d].down = net[d].down /\ Alive(d)' = Alive(d)
  BY <1>1, <1>3 DEF SocketsInv, Sockets, Alive
<1>7. SocketsInv'
  <2>1. net' \in Sockets
    BY <1>1, <1>3, SocketsWith DEF SocketsInv
  <2> QED
    BY <1>3, <2>1 DEF SocketsInv
<1>8. ThreadType'
  <2>0. thread \in [Conns -> [pc : Early \cup InList \cup {"close"} \cup Ended,
                             fd : Fds \cup {NoFd}, acc : Seq(Spoken)]] /\ "register" \in Early
    BY DEF ThreadType, Early
  <2>1. thread' \in [Conns -> [pc : Early \cup InList \cup {"close"} \cup Ended,
                             fd : Fds \cup {NoFd}, acc : Seq(Spoken)]]
    <3> DEFINE r == [thread[c] EXCEPT !.pc = "register", !.fd = fd]
               Record == [pc : Early \cup InList \cup {"close"} \cup Ended,
                          fd : Fds \cup {NoFd}, acc : Seq(Spoken)]
    <3>1. r \in Record
      BY <1>1, <1>4, <2>0
    <3>2. thread' = [thread EXCEPT ![c] = r]
      BY <1>3
    <3> HIDE DEF r
    <3> QED
      BY <1>1, <2>0, <3>1, <3>2
  <2> QED
    BY <1>3, <2>1 DEF ThreadType
<1>9. StatusInv'
  BY <1>1, <1>4, <1>5, <1>6 DEF StatusInv
<1>10. FdInv'
  <2>1. \A d \in Open' : d # c => d \in Open
    BY <1>6 DEF Open
  <2>2. \A d \in Open : thread[d].fd # fd
    BY <1>2 DEF Unused, Open
  <2>3. \A d \in Open' : d \in Conns
    BY DEF Open
  <2> QED
    BY <1>5, <2>1, <2>2, <2>3 DEF FdInv
<1>11. ListInv'
  <2>1. {thread'[d].fd : d \in {d \in Conns : thread'[d].pc \in InList}} =
          {thread[d].fd : d \in {d \in Conns : thread[d].pc \in InList}}
    <3>1. \A d \in Conns : thread[d].pc \in InList => thread'[d] = thread[d]
      BY <1>4, <1>5 DEF InList
    <3> QED
      BY <1>5, <3>1
  <2> QED
    BY <1>3, <2>1 DEF ListInv
<1>12. MutexInv'
  <2>1. g_mutex # Free => g_mutex.by \in Conns /\ g_mutex.by # c
    BY <1>4 DEF ThreadType, MutexInv
  <2> QED
    BY <1>3, <1>5, <2>1 DEF MutexInv
<1>13. AnnouncedInv'
  <2>1. \A d, what : Logged(d, what)' <=> Logged(d, what)
    BY <1>3, LoggedSame
  <2>2. ~Logged(c, "entered") /\ ~Logged(c, "left")
    BY <1>4 DEF AnnouncedInv, Announced, Ended
  <2>3. \A d \in Conns : Announced(d)
    BY DEF AnnouncedInv
  <2>4. Announced(c)'
    BY <1>5, <2>1, <2>2 DEF Announced, Ended
  <2>5. ASSUME NEW d \in Conns \ {c} PROVE Announced(d)'
    <3>1. thread'[d] = thread[d] /\ g_mutex' = g_mutex /\ Announced(d)
      BY <1>3, <1>5, <2>3
    <3>2. /\ Logged(d, "entered")' <=> Logged(d, "entered")
          /\ Logged(d, "left")' <=> Logged(d, "left")
      BY <2>1
    <3> QED
      BY <3>1, <3>2 DEF Announced
  <2> QED
    BY <2>4, <2>5 DEF AnnouncedInv
<1>14. HeardInv'
  <2>1. \A d \in Conns : TheFeed!Heard(d)' = TheFeed!Heard(d)
    BY <1>3, HeardSame
  <2>2. \A d \in Conns : thread'[d].pc \in Early => thread[d].pc \in Early
    BY <1>4, <1>5 DEF Early
  <2>3. \A d \in Conns : thread'[d].pc \in InList => thread'[d] = thread[d]
    BY <1>5 DEF InList
  <2> QED
    BY <1>3, <1>5, <1>6, <2>1, <2>2, <2>3 DEF HeardInv
<1>15. SamePhase(Conns)
  <2>1. \A d \in Conns : /\ Phase(d) = PhaseAt(thread[d].pc, g_mutex.by = d)
                         /\ Phase(d)' = PhaseAt(thread'[d].pc, g_mutex.by = d)
    BY <1>3, <1>8, <1>13, ThreadPhase
  <2>2. Phase(c) = "out" /\ Phase(c)' = "out"
    BY <1>1, <1>4, <1>5, <2>1 DEF PhaseAt, Early
  <2>3. \A d \in Conns \ {c} : Phase(d)' = Phase(d)
    BY <1>5, <2>1
  <2> QED
    BY <2>2, <2>3 DEF SamePhase
<1>16. UNCHANGED TheFeed!vars
  BY <1>3, <1>6, <1>15, FeedStutters DEF SameDown
<1> QED
  BY <1>7, <1>8, <1>9, <1>10, <1>11, <1>12, <1>13, <1>14, <1>16 DEF Kept, Promised

LEMMA RegisterKeeps ==
  ASSUME ThreadedState, server' = server, NEW c \in Conns, Register(c)
  PROVE  Kept /\ Promised
<1> USE DEF ThreadedState, ThreadedInv
<1> DEFINE fd == thread[c].fd
<1>1. /\ thread[c].pc = "register" /\ g_mutex = Free
      /\ g_clients' = Append(g_clients, fd) /\ since' = [since EXCEPT ![c] = Len(log)]
      /\ thread' = [thread EXCEPT ![c].pc = "greet"]
      /\ UNCHANGED <<net, log, g_mutex>>
  BY DEF Register, Goto
<1>2. net[c].status = "open" /\ fd \in Fds /\ c \in Open
  BY <1>1 DEF StatusInv, Ended, Open
<1>3. /\ thread'[c].pc = "greet" /\ \A d \in Conns : thread'[d].fd = thread[d].fd
      /\ \A d \in Conns \ {c} : thread'[d] = thread[d]
  BY <1>1 DEF ThreadType
<1>4. \A d \in Conns : thread'[d].pc \in InList <=> thread[d].pc \in InList \/ d = c
  BY <1>3 DEF InList
<1>5. \A d \in Conns : thread[d].pc \in InList => d \in Open /\ d # c
  BY <1>1 DEF StatusInv, InList, Early, Ended, Open
<1>6. SocketsInv'
  <2>1. Len(log) \in Nat /\ since' \in [Conns -> Nat]
    BY <1>1 DEF SocketsInv
  <2>2. \A d \in Conns : since'[d] <= Len(log)
    BY <1>1, <2>1 DEF SocketsInv
  <2> QED
    BY <1>1, <2>1, <2>2 DEF SocketsInv
<1>7. ThreadType'
  <2>1. g_clients' \in Seq(Fds)
    BY <1>1, <1>2 DEF ThreadType
  <2> QED
    BY <1>1, <2>1 DEF ThreadType, InList
<1>8. StatusInv'
  BY <1>1, <1>2, <1>3 DEF StatusInv, InList
<1>9. FdInv'
  <2>1. Open' = Open /\ Open \subseteq Conns
    BY <1>1 DEF Open
  <2> QED
    BY <1>3, <2>1 DEF FdInv
<1>10. ListInv'
  <2>1. fd \notin ToSet(g_clients)
    BY <1>2, <1>5 DEF ListInv, FdInv
  <2>2. g_clients \in Seq(Fds)
    BY DEF ThreadType
  <2>3. Once(g_clients')
    BY <1>1, <1>2, <2>1, <2>2, OnceAppend DEF ListInv
  <2>4. ToSet(g_clients') = ToSet(g_clients) \cup {fd}
    BY <1>1, <1>2, <2>2, ToSetAppend
  <2>5. {thread'[d].fd : d \in {d \in Conns : thread'[d].pc \in InList}} =
          {thread[d].fd : d \in {d \in Conns : thread[d].pc \in InList}} \cup {fd}
    BY <1>3, <1>4
  <2> QED
    BY <2>3, <2>4, <2>5 DEF ListInv
<1>11. MutexInv'
  BY <1>1 DEF MutexInv
<1>12. AnnouncedInv'
  <2>1. \A d, what : Logged(d, what)' <=> Logged(d, what)
    BY <1>1, LoggedSame
  <2>2. g_mutex.by # c /\ g_mutex'.by = g_mutex.by
    BY <1>1, FreeIs, ConnsFacts
  <2> QED
    BY <1>1, <1>3, <2>1, <2>2 DEF AnnouncedInv, Announced, Ended
<1>13. HeardInv'
  <2>1. \A d \in Conns \ {c} : TheFeed!Heard(d)' = TheFeed!Heard(d)
    <3>1. \A d \in Conns \ {c} : since'[d] = since[d]
      BY <1>1 DEF SocketsInv
    <3> QED
      BY <1>1, <3>1, HeardSame
  <2>2. TheFeed!Heard(c)' = <<>>
    <3>1. TheFeed!Heard(c)' = HeardOf(log', since'[c], c)
      BY HeardIs
    <3>2. log' = log /\ since'[c] = Len(log) /\ log \in Seq(Events)
      BY <1>1 DEF SocketsInv
    <3> QED
      BY <3>1, <3>2, HeardNothing
  <2>3. net[c].down = <<>>
    BY <1>1 DEF HeardInv, Early
  <2>4. ToSet(g_mutex.todo) = {} /\ g_mutex' = g_mutex
    BY <1>1, FreeIs
  <2>5. \A d \in Conns : thread'[d].pc \in Early => thread[d].pc \in Early
    BY <1>1, <1>3 DEF Early
  <2>6. \A d \in Conns : Alive(d)' = Alive(d)
    BY <1>1 DEF Alive
  <2> QED
    BY <1>1, <1>3, <1>4, <2>1, <2>2, <2>3, <2>4, <2>5, <2>6 DEF HeardInv
<1>14. Phase(c) = "out" /\ Phase(c)' = "in" /\ SamePhase(Conns \ {c})
  <2>1. \A d \in Conns : /\ Phase(d) = PhaseAt(thread[d].pc, g_mutex.by = d)
                         /\ Phase(d)' = PhaseAt(thread'[d].pc, g_mutex'.by = d)
    BY <1>7, <1>12, ThreadPhase
  <2>2. Phase(c) = "out"
    BY <1>1, <2>1 DEF PhaseAt, Early
  <2>3. Phase(c)' = "in"
    <3>1. g_mutex'.by # c
      BY <1>1, FreeIs, ConnsFacts
    <3> QED
      BY <1>3, <2>1, <3>1 DEF PhaseAt, Early
  <2>4. \A d \in Conns \ {c} : Phase(d)' = Phase(d)
    BY <1>1, <1>3, <2>1
  <2> QED
    BY <2>2, <2>3, <2>4 DEF SamePhase
<1>15. TheFeed!Next
  BY <1>1, <1>14, FeedJoins DEF SameDown
<1> QED
  BY <1>6, <1>7, <1>8, <1>9, <1>10, <1>11, <1>12, <1>13, <1>15 DEF Kept, Promised

LEMMA UnregisterKeeps ==
  ASSUME ThreadedState, server' = server, NEW c \in Conns, Unregister(c)
  PROVE  Kept /\ Promised
<1> USE DEF ThreadedState, ThreadedInv
<1> DEFINE fd == thread[c].fd
<1>1. /\ thread[c].pc = "unregister" /\ g_mutex = Free
      /\ g_clients' = Only(g_clients, Fds \ {fd})
      /\ thread' = [thread EXCEPT ![c].pc = "close"]
      /\ UNCHANGED <<net, log, since, g_mutex>>
  BY DEF Unregister, Goto, netVars
<1>2. net[c].status = "open" /\ fd \in Fds /\ c \in Open
  BY <1>1 DEF StatusInv, Ended, Open
<1>3. /\ thread'[c].pc = "close" /\ \A d \in Conns : thread'[d].fd = thread[d].fd
      /\ \A d \in Conns \ {c} : thread'[d] = thread[d]
  BY <1>1 DEF ThreadType
<1>4. \A d \in Conns : thread'[d].pc \in InList <=> thread[d].pc \in InList /\ d # c
  BY <1>3 DEF InList
<1>5. \A d \in Conns : thread[d].pc \in InList => d \in Open
  BY DEF StatusInv, InList, Ended, Open
<1>6. SocketsInv'
  BY <1>1 DEF SocketsInv
<1>7. g_clients \in Seq(Fds)
  BY DEF ThreadType
<1>8. /\ g_clients' \in Seq(Fds) /\ Once(g_clients')
      /\ ToSet(g_clients') = ToSet(g_clients) \cap (Fds \ {fd})
  <2> DEFINE S == Fds \ {fd}
             t == Only(g_clients, S)
  <2> HIDE DEF S
  <2>1. /\ t \in Seq(Fds) /\ ToSet(t) = ToSet(g_clients) \cap S
        /\ Once(g_clients) => Once(t)
    BY <1>7, OnlyElements DEF Once
  <2> HIDE DEF t
  <2> QED
    BY <1>1, <2>1 DEF ListInv, S, t
<1>9. ThreadType'
  BY ZenonT(60), <1>1, <1>8 DEF ThreadType
<1>10. StatusInv'
  BY <1>1, <1>2, <1>3 DEF StatusInv
<1>11. FdInv'
  <2>1. Open' = Open /\ Open \subseteq Conns
    BY <1>1 DEF Open
  <2> QED
    BY <1>3, <2>1 DEF FdInv
<1>12. ListInv'
  <2> DEFINE new == {thread'[d].fd : d \in {d \in Conns : thread'[d].pc \in InList}}
             old == {thread[d].fd : d \in {d \in Conns : thread[d].pc \in InList}}
  <2>1. ToSet(g_clients) = old /\ old \subseteq Fds
    BY <1>5 DEF ListInv, StatusInv, InList, Ended
  <2>2. \A d \in Conns : thread[d].pc \in InList /\ thread[d].fd = fd => d = c
    BY <1>2, <1>5 DEF FdInv
  <2>3. new = old \ {fd}
    BY <1>3, <1>4, <2>2
  <2>4. ToSet(g_clients') = new
    BY <1>8, <2>1, <2>3
  <2> QED
    BY <1>8, <2>4 DEF ListInv
<1>13. MutexInv'
  BY <1>1 DEF MutexInv
<1>14. AnnouncedInv'
  <2>1. \A d, what : Logged(d, what)' <=> Logged(d, what)
    BY <1>1, LoggedSame
  <2>2. g_mutex.by # c /\ g_mutex'.by = g_mutex.by
    BY <1>1, FreeIs, ConnsFacts
  <2> QED
    BY <1>1, <1>3, <2>1, <2>2 DEF AnnouncedInv, Announced, Ended
<1>15. HeardInv'
  <2>1. \A d \in Conns : TheFeed!Heard(d)' = TheFeed!Heard(d)
    BY <1>1, HeardSame
  <2>2. \A d \in Conns : thread'[d].pc \in Early => thread[d].pc \in Early
    BY <1>1, <1>3 DEF Early
  <2>3. \A d \in Conns : Alive(d)' = Alive(d)
    BY <1>1 DEF Alive
  <2> QED
    BY <1>1, <1>3, <1>4, <2>1, <2>2, <2>3 DEF HeardInv
<1>16. Phase(c) = "entered" /\ Phase(c)' = "gone" /\ SamePhase(Conns \ {c})
  <2>1. \A d \in Conns : /\ Phase(d) = PhaseAt(thread[d].pc, g_mutex.by = d)
                         /\ Phase(d)' = PhaseAt(thread'[d].pc, g_mutex'.by = d)
    BY <1>9, <1>14, ThreadPhase
  <2>2. Phase(c) = "entered"
    BY <1>1, <2>1 DEF PhaseAt, Early, InList
  <2>3. Phase(c)' = "gone"
    BY <1>3, <2>1 DEF PhaseAt, Early, InList
  <2>4. \A d \in Conns \ {c} : Phase(d)' = Phase(d)
    BY <1>1, <1>3, <2>1
  <2> QED
    BY <2>2, <2>3, <2>4 DEF SamePhase
<1>17. TheFeed!Next
  BY <1>1, <1>16, FeedLeaves DEF SameDown
<1> QED
  BY <1>6, <1>9, <1>10, <1>11, <1>12, <1>13, <1>14, <1>15, <1>17 DEF Kept, Promised

\* Where a thread goes when its broadcast is done.
LEMMA AfterIs ==
  ASSUME ThreadType, NEW c \in Conns, thread[c].pc \in {"greet", "lines", "bye"},
         thread[c].pc = "lines" => thread[c].acc # <<>>,
         thread' = After(c, thread)
  PROVE  /\ thread' \in [Conns -> [pc : Early \cup InList \cup {"close"} \cup Ended,
                                 fd : Fds \cup {NoFd}, acc : Seq(Spoken)]]
         /\ \A d \in Conns \ {c} : thread'[d] = thread[d]
         /\ thread'[c].fd = thread[c].fd
         /\ thread'[c].pc = IF thread[c].pc = "greet" THEN "hello"
                            ELSE IF thread[c].pc = "bye" THEN "done" ELSE "lines"
<1> USE DEF ThreadType
<1>1. CASE thread[c].pc = "greet"
  BY <1>1 DEF After, InList
<1>2. CASE thread[c].pc = "bye"
  BY <1>2 DEF After, Ended
<1>3. CASE thread[c].pc = "lines"
  <2>1. thread' = [thread EXCEPT ![c].acc = Tail(@)]
    BY <1>3 DEF After
  <2> DEFINE rest == Tail(thread[c].acc)
  <2>2. rest \in Seq(Spoken)
    BY <1>3
  <2>3. thread' = [thread EXCEPT ![c].acc = rest]
    BY <2>1
  <2> HIDE DEF rest
  <2>4. thread' \in [Conns -> [pc : Early \cup InList \cup {"close"} \cup Ended,
                             fd : Fds \cup {NoFd}, acc : Seq(Spoken)]]
    <3> DEFINE r == [thread[c] EXCEPT !.acc = rest]
               Record == [pc : Early \cup InList \cup {"close"} \cup Ended,
                          fd : Fds \cup {NoFd}, acc : Seq(Spoken)]
    <3>1. thread \in [Conns -> Record] /\ thread[c] \in Record
      OBVIOUS
    <3>2. r \in Record
      BY <2>2, <3>1
    <3>3. thread' = [thread EXCEPT ![c] = r]
      BY <2>3
    <3> HIDE DEF r, Record
    <3>4. thread' \in [Conns -> Record]
      BY <3>1, <3>2, <3>3
    <3> QED
      BY <3>4 DEF Record
  <2>5. /\ \A d \in Conns \ {c} : thread'[d] = thread[d]
        /\ thread'[c].fd = thread[c].fd /\ thread'[c].pc = "lines"
    BY <1>3, <2>3
  <2> QED
    BY <1>3, <2>4, <2>5
<1> QED
  BY <1>1, <1>2, <1>3

\* A broadcast begins: its note is in the conversation, and everyone listed but
\* the speaker is still to hear it.
LEMMA BroadcastKeeps ==
  ASSUME ThreadedState, server' = server, NEW c \in Conns, NEW note \in Events, note.by = c,
         NEW todo \in Seq(Fds), Once(todo),
         \/ thread[c].pc = "greet" /\ note = Note(c, "entered") /\ ToSet(todo) = ToSet(g_clients) \ {thread[c].fd}
         \/ /\ thread[c].pc = "lines" /\ thread[c].acc # <<>> /\ Head(thread[c].acc) # Quit
            /\ note = Note(c, Head(thread[c].acc)) /\ ToSet(todo) = ToSet(g_clients) \ {thread[c].fd}
         \/ thread[c].pc = "bye" /\ note = Note(c, "left") /\ ToSet(todo) = ToSet(g_clients),
         Broadcast(c, note, todo)
  PROVE  Kept /\ Promised
<1> USE DEF ThreadedState, ThreadedInv
<1>1. /\ g_mutex = Free /\ log' = Append(log, note) /\ UNCHANGED <<net, since, g_clients>>
      /\ \/ todo # <<>> /\ g_mutex' = [by |-> c, note |-> note, todo |-> todo] /\ thread' = thread
         \/ todo = <<>> /\ thread' = After(c, thread) /\ g_mutex' = Free
  BY DEF Broadcast
<1>2. /\ thread' \in [Conns -> [pc : Early \cup InList \cup {"close"} \cup Ended,
                              fd : Fds \cup {NoFd}, acc : Seq(Spoken)]]
      /\ \A d \in Conns \ {c} : thread'[d] = thread[d]
      /\ thread'[c].fd = thread[c].fd
  BY <1>1, AfterIs DEF ThreadType
<1>3. \/ todo # <<>> /\ thread'[c] = thread[c] /\ g_mutex'.by = c
      \/ /\ todo = <<>> /\ g_mutex'.by = 0
         /\ thread'[c].pc = IF thread[c].pc = "greet" THEN "hello"
                            ELSE IF thread[c].pc = "bye" THEN "done" ELSE "lines"
  BY <1>1, AfterIs, FreeIs
<1>4. /\ g_mutex.by = 0 /\ g_mutex'.todo = todo /\ 0 # c
      /\ \A d \in Conns \ {c} : g_mutex'.by # d
      /\ todo # <<>> => g_mutex'.note = note
  BY <1>1, FreeIs, ConnsFacts
<1>5. SocketsInv'
  <2>1. /\ log' \in Seq(Events) /\ Len(log') = Len(log) + 1 /\ Len(log) \in Nat
    BY <1>1 DEF SocketsInv
  <2> QED
    BY <1>1, <2>1 DEF SocketsInv
<1>6. ThreadType'
  BY <1>1, <1>2 DEF ThreadType
<1>7. \A d \in Conns : /\ thread'[d].fd = thread[d].fd
                       /\ thread'[d].pc \in InList <=> thread[d].pc \in InList
                       /\ thread'[d].pc \in Early <=> thread[d].pc \in Early
  BY <1>2, <1>3 DEF InList, Early
<1>8. StatusInv'
  <2>1. ASSUME NEW d \in Conns \ {c}
        PROVE  thread'[d] = thread[d] /\ net'[d] = net[d]
    BY <1>1, <1>2
  <2>2. thread'[c].pc \in Ended <=> thread[c].pc \in Ended
    BY <1>3 DEF Ended
  <2>3. thread[c].pc \in InList \/ thread[c].pc \in Ended
    BY DEF InList, Ended
  <2> QED
    BY <1>1, <1>7, <2>1, <2>2, <2>3 DEF StatusInv, InList, Ended
<1>9. FdInv'
  <2>1. Open' = Open /\ Open \subseteq Conns
    BY <1>1 DEF Open
  <2> QED
    BY <1>7, <2>1 DEF FdInv
<1>10. ListInv'
  <2>1. {thread'[d].fd : d \in {d \in Conns : thread'[d].pc \in InList}} =
          {thread[d].fd : d \in {d \in Conns : thread[d].pc \in InList}}
    BY <1>7
  <2> QED
    BY <1>1, <2>1 DEF ListInv
<1>11. MutexInv'
  <2>1. g_mutex' # Free => g_mutex'.by = c /\ g_mutex'.todo = todo /\ thread'[c] = thread[c]
    BY <1>1
  <2>2. ToSet(todo) \subseteq ToSet(g_clients)
    OBVIOUS
  <2> QED
    BY <1>1, <2>1, <2>2 DEF MutexInv
<1>12. AnnouncedInv'
  <2>1. \A d, what : Logged(d, what)' <=> Logged(d, what) \/ note = Note(d, what)
    BY <1>1, LoggedMore DEF SocketsInv
  <2>2. ASSUME NEW d \in Conns \ {c} PROVE Announced(d)'
    <3>1. thread'[d] = thread[d] /\ g_mutex.by # d /\ g_mutex'.by # d /\ Announced(d)
      BY <1>2, <1>4, ConnsFacts DEF AnnouncedInv
    <3>2. /\ Logged(d, "entered")' <=> Logged(d, "entered")
          /\ Logged(d, "left")' <=> Logged(d, "left")
      BY <2>1 DEF Note
    <3> QED
      BY <3>1, <3>2 DEF Announced
  <2>3. Announced(c)'
    <3>1. Announced(c) /\ g_mutex.by # c
      BY <1>4 DEF AnnouncedInv
    <3>2. CASE thread[c].pc = "greet"
      <4>1. Logged(c, "entered")' /\ ~Logged(c, "left")'
        BY <2>1, <3>1, <3>2 DEF Announced, Note
      <4>2. \/ thread'[c].pc = "greet" /\ g_mutex'.by = c
            \/ thread'[c].pc = "hello"
        BY <1>3, <3>2
      <4> QED
        BY <4>1, <4>2 DEF Announced
    <3>3. CASE thread[c].pc = "lines"
      <4>1. Head(thread[c].acc) \in Spoken
        BY <3>3 DEF ThreadType
      <4>2. note.what # "entered" /\ note.what # "left"
        BY <3>3, <4>1, SpokenApart DEF Note
      <4>3. Logged(c, "entered")' /\ ~Logged(c, "left")'
        BY <2>1, <3>1, <3>3, <4>2 DEF Announced, Note
      <4>4. thread'[c].pc = "lines"
        BY <1>3, <3>3
      <4> QED
        BY <4>3, <4>4 DEF Announced
    <3>4. CASE thread[c].pc = "bye"
      <4>1. Logged(c, "entered")' /\ Logged(c, "left")'
        BY <2>1, <3>1, <3>4 DEF Announced, Ended, Note
      <4>2. \/ thread'[c].pc = "bye" /\ g_mutex'.by = c
            \/ thread'[c].pc = "done"
        BY <1>3, <3>4
      <4> QED
        BY <4>1, <4>2 DEF Announced, Ended
    <3> QED
      BY <3>2, <3>3, <3>4
  <2> QED
    BY <2>2, <2>3 DEF AnnouncedInv
<1>13. HeardInv'
  <2>1. ASSUME NEW d \in Conns, thread[d].pc \in InList, Alive(d)
        PROVE  IF thread'[d].fd \in ToSet(g_mutex'.todo)
               THEN Append(net'[d].down, g_mutex'.note) = TheFeed!Heard(d)'
               ELSE net'[d].down = TheFeed!Heard(d)'
    <3>1. net[d].down = TheFeed!Heard(d)
      BY <1>1, <2>1, FreeIs DEF HeardInv
    <3>2. TheFeed!Heard(d)' = IF d # c THEN Append(TheFeed!Heard(d), note) ELSE TheFeed!Heard(d)
      <4>1. since'[d] = since[d]
        BY <1>1
      <4> QED
        BY <1>1, <4>1, HeardGrows
    <3>3. thread[d].fd \in ToSet(g_clients) /\ d \in Open
      BY <2>1 DEF ListInv, StatusInv, Open, InList, Ended
    <3>4. d # c => thread[d].fd \in ToSet(todo)
      <4>1. CASE thread[c].pc = "bye"
        BY <3>3, <4>1
      <4>2. CASE thread[c].pc # "bye"
        <5>1. c \in Open
          BY <4>2 DEF StatusInv, Ended, Open
        <5> QED
          BY <3>3, <4>2, <5>1 DEF FdInv
      <4> QED
        BY <4>1, <4>2
    <3>5. d = c => thread[d].fd \notin ToSet(todo)
      BY <2>1 DEF InList
    <3>6. ToSet(todo) # {} => todo # <<>>
      BY FreeIs
    <3> QED
      BY <1>1, <1>4, <1>7, <3>1, <3>2, <3>4, <3>5, <3>6
  <2>2. \A d \in Conns : Alive(d)' = Alive(d) /\ net'[d] = net[d]
    BY <1>1 DEF Alive
  <2>3. \A d \in Conns : thread[d].pc \in Early => net[d].down = <<>>
    BY DEF HeardInv
  <2> QED
    BY <1>7, <2>1, <2>2, <2>3 DEF HeardInv
<1>14. \A d \in Conns : /\ Phase(d) = PhaseAt(thread[d].pc, g_mutex.by = d)
                        /\ Phase(d)' = PhaseAt(thread'[d].pc, g_mutex'.by = d)
  BY <1>6, <1>12, ThreadPhase
<1>15. SamePhase(Conns \ {c})
  <2>1. \A d \in Conns \ {c} : thread'[d] = thread[d] /\ g_mutex.by # d /\ g_mutex'.by # d
    BY <1>2, <1>4, ConnsFacts
  <2>2. ASSUME NEW d \in Conns \ {c} PROVE Phase(d)' = Phase(d)
    BY <1>14, <2>1
  <2> QED
    BY <2>2 DEF SamePhase
<1>16. SameDown(Conns)
  BY <1>1 DEF SameDown
<1>17. ASSUME thread[c].pc = "greet" PROVE Promised
  <2>1. Phase(c) = "in"
    BY <1>4, <1>14, <1>17 DEF PhaseAt, Early
  <2>2. Phase(c)' = "entered"
    BY <1>3, <1>14, <1>17 DEF PhaseAt, Early, InList
  <2>3. TheFeed!Next
    BY <1>1, <1>15, <1>16, <1>17, <2>1, <2>2, FeedAnnounces
  <2> QED
    BY <2>3 DEF Promised
<1>18. ASSUME thread[c].pc = "lines" PROVE Promised
  <2>1. Phase(c) = "entered" /\ Phase(c)' = "entered"
    BY <1>3, <1>14, <1>18 DEF PhaseAt, Early, InList
  <2>2. SamePhase(Conns)
    BY <1>15, <2>1 DEF SamePhase
  <2>3. Head(thread[c].acc) \in Spoken \ {Quit}
    BY <1>18 DEF ThreadType
  <2>4. TheFeed!Next
    BY <1>1, <1>16, <1>18, <2>1, <2>2, <2>3, FeedSays
  <2> QED
    BY <2>4 DEF Promised
<1>19. ASSUME thread[c].pc = "bye" PROVE Promised
  <2>1. Phase(c) = "gone"
    BY <1>4, <1>14, <1>19 DEF PhaseAt, Early, InList
  <2>2. Phase(c)' = "done"
    BY <1>3, <1>14, <1>19 DEF PhaseAt, Early, InList
  <2>3. TheFeed!Next
    BY <1>1, <1>15, <1>16, <1>19, <2>1, <2>2, FeedSaysGoodbye
  <2> QED
    BY <2>3 DEF Promised
<1>20. Promised
  BY <1>17, <1>18, <1>19
<1> QED
  BY <1>5, <1>6, <1>8, <1>9, <1>10, <1>11, <1>12, <1>13, <1>20 DEF Kept

LEMMA SpeechKeeps ==
  ASSUME ThreadedState, server' = server, NEW c \in Conns, Greet(c) \/ Say(c) \/ Bye(c)
  PROVE  Kept /\ Promised
<1> DEFINE S == Fds \ {thread[c].fd}
           some == Only(g_clients, S)
<1>1. g_clients \in Seq(Fds) /\ Once(g_clients)
  BY DEF ThreadedState, ThreadedInv, ThreadType, ListInv
<1>2. ToSet(g_clients) \subseteq Fds
  BY <1>1 DEF ToSet
<1> HIDE DEF S
<1>3. some \in Seq(Fds) /\ ToSet(some) = ToSet(g_clients) \cap S /\ (Once(g_clients) => Once(some))
  BY <1>1, OnlyElements DEF Once
<1> HIDE DEF some
<1>4. Once(some) /\ ToSet(some) = ToSet(g_clients) \ {thread[c].fd}
  BY <1>1, <1>2, <1>3 DEF S
<1>5. ButMe(c) = some
  BY DEF ButMe, some, S
<1>6. CASE Greet(c)
  <2>1. thread[c].pc = "greet" /\ Broadcast(c, Note(c, "entered"), some)
    BY <1>5, <1>6 DEF Greet
  <2>2. Note(c, "entered") \in Events /\ Note(c, "entered").by = c
    BY NotesFacts DEF Note
  <2> QED
    BY <1>3, <1>4, <2>1, <2>2, BroadcastKeeps
<1>7. CASE Say(c)
  <2> DEFINE line == Head(thread[c].acc)
  <2>1. /\ thread[c].pc = "lines" /\ thread[c].acc # <<>> /\ line # Quit
        /\ Broadcast(c, Note(c, line), some)
    BY <1>5, <1>7 DEF Say
  <2>2. line \in Spoken \ {Quit}
    BY <2>1 DEF ThreadedState, ThreadedInv, ThreadType
  <2>3. Note(c, line) \in Events /\ Note(c, line).by = c
    BY <2>2, NotesFacts DEF Note
  <2> QED
    BY <1>3, <1>4, <2>1, <2>3, BroadcastKeeps
<1>8. CASE Bye(c)
  <2>1. thread[c].pc = "bye" /\ Broadcast(c, Note(c, "left"), g_clients)
    BY <1>8 DEF Bye
  <2>2. Note(c, "left") \in Events /\ Note(c, "left").by = c
    BY NotesFacts DEF Note
  <2> QED
    BY <1>1, <2>1, <2>2, BroadcastKeeps
<1> QED
  BY <1>6, <1>7, <1>8

\* One send of a broadcast: whoever it goes to has then heard everything.
LEMMA SendOneKeeps ==
  ASSUME ThreadedState, server' = server, NEW c \in Conns, SendOne(c)
  PROVE  Kept /\ Promised
<1> USE DEF ThreadedState, ThreadedInv
<1> DEFINE todo == g_mutex.todo
           note == g_mutex.note
           more == <<note>>
<1>1. /\ g_mutex.by = c /\ UNCHANGED <<log, since, g_clients>> /\ Advance(c)
      /\ \A o \in Owner(Head(todo)) : Alive(o) => Room(o) > 0
      /\ net' = IF Owner(Head(todo)) = {} THEN net ELSE Sent(Max(Owner(Head(todo))), more)
  BY DEF SendOne
<1>a. g_mutex \in [by : Conns, note : Events, todo : Seq(Fds)]
  BY <1>1, HolderIs
<1>2. /\ g_mutex # Free /\ note \in Events /\ todo \in Seq(Fds) /\ todo # <<>>
      /\ Once(todo) /\ ToSet(todo) \subseteq ToSet(g_clients)
      /\ thread[c].pc \in {"greet", "lines", "bye"}
      /\ thread[c].pc = "lines" => thread[c].acc # <<>> /\ Head(thread[c].acc) # Quit
  BY <1>1, HolderIs DEF MutexInv
<1>3. /\ Tail(todo) \in Seq(Fds) /\ Once(Tail(todo)) /\ Head(todo) \in ToSet(todo)
      /\ ToSet(Tail(todo)) = ToSet(todo) \ {Head(todo)}
  BY <1>2, OnceTail
<1>4. PICK m \in Conns : thread[m].pc \in InList /\ thread[m].fd = Head(todo)
  BY <1>2, <1>3 DEF ListInv
<1>5. \A d \in Conns : thread[d].pc \in InList => d \in Open
  BY DEF StatusInv, InList, Ended, Open
<1>6. Owner(Head(todo)) = {m}
  <2>1. Owner(Head(todo)) = {d \in Open : thread[d].fd = Head(todo)}
    BY DEF Owner, Open
  <2>2. m \in Open
    BY <1>4, <1>5
  <2> QED
    BY <1>4, <2>1, <2>2 DEF FdInv
<1>7. net' = Sent(m, more) /\ (Alive(m) => Room(m) > 0)
  <2>1. Max({m}) = m
    BY ConnsFacts DEF Max
  <2> QED
    BY <1>1, <1>6, <2>1
<1>8. /\ net' \in Sockets
      /\ \A d \in Conns : /\ net'[d].status = net[d].status /\ net'[d].end = net[d].end
                          /\ d # m => net'[d] = net[d]
      /\ net'[m].down = IF Alive(m) THEN Append(net[m].down, note) ELSE net[m].down
  <2>1. /\ more \in Seq(Notes) /\ more \in Seq(Events) /\ Len(more) = 1
    BY <1>2, NotesFacts
  <2>2. net \in Sockets
    BY DEF SocketsInv
  <2>3. Alive(m) => Len(more) <= Room(m)
    BY <1>7, <2>1, <2>2, ConnsFacts DEF Room, Sockets
  <2>4. Only(more, Events) = more
    BY <2>1, OnlyAll
  <2>5. net[m].down \o more = Append(net[m].down, note)
    BY <2>2 DEF Sockets
  <2> HIDE DEF more
  <2>6. /\ net' \in Sockets
        /\ \A d \in Conns : /\ net'[d].status = net[d].status /\ net'[d].end = net[d].end
                            /\ d # m => net'[d] = net[d]
        /\ net'[m].down = IF Alive(m) THEN net[m].down \o Only(more, Events) ELSE net[m].down
    BY <1>7, <2>1, <2>2, <2>3, SentIs
  <2> QED
    BY <2>4, <2>5, <2>6
<1>9. \/ g_mutex' = [g_mutex EXCEPT !.todo = Tail(@)] /\ thread' = thread
      \/ g_mutex' = Free /\ thread' = After(c, thread) /\ Tail(todo) = <<>>
  <2>1. ~(Len(todo) > 1) => Tail(todo) = <<>>
    BY <1>2
  <2> QED
    BY <1>1, <2>1 DEF Advance
<1>10. ToSet(g_mutex'.todo) = ToSet(todo) \ {Head(todo)}
  <2>1. g_mutex'.todo = Tail(todo)
    BY <1>a, <1>9, FreeIs
  <2> QED
    BY <1>3, <2>1
<1> HIDE DEF more
<1>11. /\ thread' \in [Conns -> [pc : Early \cup InList \cup {"close"} \cup Ended,
                               fd : Fds \cup {NoFd}, acc : Seq(Spoken)]]
       /\ \A d \in Conns \ {c} : thread'[d] = thread[d]
       /\ thread'[c].fd = thread[c].fd
  BY <1>2, <1>9, AfterIs DEF ThreadType
<1>12. \/ thread'[c] = thread[c] /\ g_mutex'.by = c
       \/ /\ g_mutex'.by = 0
          /\ thread'[c].pc = IF thread[c].pc = "greet" THEN "hello"
                             ELSE IF thread[c].pc = "bye" THEN "done" ELSE "lines"
  <2>1. CASE g_mutex' = [g_mutex EXCEPT !.todo = Tail(@)] /\ thread' = thread
    BY <1>1, <1>a, <2>1
  <2>2. CASE g_mutex' = Free /\ thread' = After(c, thread)
    BY <1>2, <2>2, AfterIs, FreeIs
  <2> QED
    BY <1>9, <2>1, <2>2
<1>13. ThreadType'
  <2>1. CASE g_mutex' = Free
    BY <1>1, <1>11, <2>1 DEF ThreadType
  <2>2. CASE g_mutex' = [g_mutex EXCEPT !.todo = Tail(@)] /\ g_mutex' # Free
    <3>1. Tail(todo) # <<>>
      <4>1. ~(Len(todo) > 1) => g_mutex' = Free
        BY <1>1 DEF Advance
      <4> QED
        BY <1>2, <2>2, <4>1
    <3>3. g_mutex' \in [by : Conns, note : Events, todo : Seq(Fds)] /\ g_mutex'.todo # <<>>
      BY <1>a, <1>3, <2>2, <3>1
    <3> QED
      BY <1>1, <1>11, <3>3 DEF ThreadType
  <2> QED
    BY <1>9, <2>1, <2>2
<1>14. SocketsInv'
  BY <1>1, <1>8 DEF SocketsInv
<1>15. \A d \in Conns : /\ thread'[d].fd = thread[d].fd
                        /\ thread'[d].pc \in InList <=> thread[d].pc \in InList
                        /\ thread'[d].pc \in Early <=> thread[d].pc \in Early
  BY <1>2, <1>11, <1>12 DEF InList, Early
<1>16. StatusInv'
  <2>1. ASSUME NEW d \in Conns \ {c} PROVE thread'[d] = thread[d]
    BY <1>11
  <2>2. thread'[c].pc \in Ended <=> thread[c].pc \in Ended
    BY <1>2, <1>12 DEF Ended
  <2>3. thread[c].pc \in InList \/ thread[c].pc \in Ended
    BY <1>2 DEF InList, Ended
  <2> QED
    BY <1>8, <1>15, <2>1, <2>2, <2>3 DEF StatusInv, InList, Ended
<1>17. FdInv'
  <2>1. Open' = Open /\ Open \subseteq Conns
    BY <1>8 DEF Open
  <2> QED
    BY <1>15, <2>1 DEF FdInv
<1>18. ListInv'
  <2>1. {thread'[d].fd : d \in {d \in Conns : thread'[d].pc \in InList}} =
          {thread[d].fd : d \in {d \in Conns : thread[d].pc \in InList}}
    BY <1>15
  <2> QED
    BY <1>1, <2>1 DEF ListInv
<1>19. MutexInv'
  <2>1. g_mutex' # Free => g_mutex'.by = c /\ g_mutex'.todo = Tail(todo) /\ thread' = thread
    BY <1>1, <1>a, <1>9
  <2> QED
    BY <1>1, <1>2, <1>3, <2>1 DEF MutexInv
<1>20. AnnouncedInv'
  <2>1. \A d, what : Logged(d, what)' <=> Logged(d, what)
    BY <1>1, LoggedSame
  <2>2. ASSUME NEW d \in Conns \ {c} PROVE Announced(d)'
    <3>1. thread'[d] = thread[d] /\ g_mutex.by # d /\ g_mutex'.by # d /\ Announced(d)
      BY <1>1, <1>11, <1>12, ConnsFacts DEF AnnouncedInv
    <3>2. /\ Logged(d, "entered")' <=> Logged(d, "entered")
          /\ Logged(d, "left")' <=> Logged(d, "left")
      BY <2>1
    <3> QED
      BY <3>1, <3>2 DEF Announced
  <2>3. Announced(c)'
    <3>1. Announced(c)
      BY DEF AnnouncedInv
    <3>2. /\ Logged(c, "entered")' <=> Logged(c, "entered")
          /\ Logged(c, "left")' <=> Logged(c, "left")
      BY <2>1
    <3> QED
      BY <1>1, <1>2, <1>12, <3>1, <3>2 DEF Announced, Ended
  <2> QED
    BY <2>2, <2>3 DEF AnnouncedInv
<1>21. TheFeed!Heard(m) = Append(net[m].down, note) \/ ~Alive(m)
  BY <1>3, <1>4 DEF HeardInv
<1>22. HeardInv'
  <2>1. ASSUME NEW d \in Conns, thread[d].pc \in InList, Alive(d)
        PROVE  IF thread'[d].fd \in ToSet(g_mutex'.todo)
               THEN Append(net'[d].down, g_mutex'.note) = TheFeed!Heard(d)'
               ELSE net'[d].down = TheFeed!Heard(d)'
    <3>1. TheFeed!Heard(d)' = TheFeed!Heard(d)
      BY <1>1, HeardSame
    <3>2. CASE d = m
      BY <1>4, <1>8, <1>10, <1>15, <1>21, <2>1, <3>1, <3>2
    <3>3. CASE d # m
      <4>1. thread[d].fd # Head(todo)
        BY <1>4, <1>5, <2>1, <3>3 DEF FdInv
      <4>2. ToSet(g_mutex'.todo) # {} => g_mutex'.note = note
        BY <1>a, <1>9, FreeIs
      <4>3. IF thread[d].fd \in ToSet(todo) THEN Append(net[d].down, note) = TheFeed!Heard(d)
            ELSE net[d].down = TheFeed!Heard(d)
        BY <2>1 DEF HeardInv
      <4> QED
        BY <1>8, <1>10, <1>15, <3>1, <3>3, <4>1, <4>2, <4>3
    <3> QED
      BY <3>2, <3>3
  <2>2. \A d \in Conns : Alive(d)' = Alive(d)
    BY <1>8 DEF Alive
  <2>3. \A d \in Conns : thread[d].pc \in Early => net'[d].down = <<>>
    BY <1>4, <1>8 DEF HeardInv, Early, InList
  <2> QED
    BY <1>15, <2>1, <2>2, <2>3 DEF HeardInv
<1>23. SamePhase(Conns)
  <2>1. \A d \in Conns : /\ Phase(d) = PhaseAt(thread[d].pc, g_mutex.by = d)
                         /\ Phase(d)' = PhaseAt(thread'[d].pc, g_mutex'.by = d)
    BY <1>13, <1>20, ThreadPhase
  <2>2. \A d \in Conns \ {c} : thread'[d] = thread[d] /\ g_mutex.by # d /\ g_mutex'.by # d
    BY <1>1, <1>11, <1>12, ConnsFacts
  <2>3. ASSUME NEW d \in Conns \ {c} PROVE Phase(d)' = Phase(d)
    BY <2>1, <2>2
  <2>4. Phase(c)' = Phase(c)
    <3>1. /\ Phase(c) = PhaseAt(thread[c].pc, g_mutex.by = c)
          /\ Phase(c)' = PhaseAt(thread'[c].pc, g_mutex'.by = c)
      BY <2>1
    <3> QED
      BY <1>1, <1>2, <1>12, <3>1 DEF PhaseAt, Early, InList
  <2> QED
    BY <2>3, <2>4 DEF SamePhase
<1>24. Promised
  <2>1. CASE ~Alive(m)
    <3>1. SameDown(Conns)
      BY SMTT(30), <1>8, <2>1 DEF SameDown
    <3> QED
      BY <1>1, <1>23, <3>1, FeedStutters DEF Promised
  <2>2. CASE Alive(m)
    <3>1. net \in Sockets /\ net[m].down \in Seq(Events)
      BY DEF SocketsInv, Sockets
    <3>2. <<note>> \in Seq(Events) /\ <<>> \in Seq(Events)
      BY <1>2
    <3>3. net'[m].down = net[m].down \o <<note>>
      <4>1. net'[m].down = Append(net[m].down, note)
        BY <1>8, <2>2
      <4>2. net[m].down \o <<note>> = Append(net[m].down, note)
        BY <1>2, <3>1
      <4> QED
        BY <4>1, <4>2
    <3>4. TheFeed!Heard(m) = (net[m].down \o <<note>>) \o <<>>
      <4>1. (net[m].down \o <<note>>) \o <<>> = net[m].down \o <<note>>
        BY <3>1, <3>2
      <4>2. net[m].down \o <<note>> = Append(net[m].down, note)
        BY <3>1
      <4> QED
        BY <1>21, <2>2, <4>1, <4>2
    <3>5. Phase(m) \in {"in", "entered"}
      <4>1. Phase(m) = PhaseAt(thread[m].pc, g_mutex.by = m)
        BY ThreadPhase
      <4> QED
        BY <1>4, <4>1 DEF PhaseAt, Early, InList
    <3>6. SameDown(Conns \ {m})
      BY <1>8 DEF SameDown
    <3> QED
      BY <1>1, <1>23, <3>1, <3>2, <3>3, <3>4, <3>5, <3>6, FeedHears DEF Promised
  <2> QED
    BY <2>1, <2>2
<1> QED
  BY <1>13, <1>14, <1>16, <1>17, <1>18, <1>19, <1>20, <1>22, <1>24 DEF Kept

-----------------------------------------------------------------------------
(* The reactor. *)

ReactorState == server = "reactor" /\ SocketsInv /\ ReactorInv
Stays == SocketsInv' /\ ReactorInv'

\* What the status of a connection tells of its phase.
LEMMA LoopPhase ==
  ASSUME NEW c \in Conns
  PROVE  /\ server = "reactor" /\ net \in Sockets /\ MapInv /\ MembersInv =>
              Phase(c) = IF net[c].status \in {"none", "queued"} THEN "out"
                         ELSE IF net[c].status = "open" THEN "entered"
                         ELSE IF Logged(c, "left") THEN "done" ELSE "gone"
         /\ (server = "reactor" /\ net \in Sockets /\ MapInv /\ MembersInv)' =>
              Phase(c)' = IF net'[c].status \in {"none", "queued"} THEN "out"
                          ELSE IF net'[c].status = "open" THEN "entered"
                          ELSE IF Logged(c, "left")' THEN "done" ELSE "gone"
<1>1. ASSUME server = "reactor", net \in Sockets, MapInv, MembersInv
      PROVE  Phase(c) = IF net[c].status \in {"none", "queued"} THEN "out"
                        ELSE IF net[c].status = "open" THEN "entered"
                        ELSE IF Logged(c, "left") THEN "done" ELSE "gone"
  <2>1. net[c].status \in {"none", "queued", "open", "closed"}
    BY <1>1 DEF Sockets
  <2>2. Listed(c) <=> net[c].status = "open"
    BY <1>1 DEF Listed, MapInv, Open
  <2> QED
    BY <1>1, <2>1, <2>2 DEF Phase, MembersInv
<1>2. ASSUME server' = "reactor", net' \in Sockets, MapInv', MembersInv'
      PROVE  Phase(c)' = IF net'[c].status \in {"none", "queued"} THEN "out"
                         ELSE IF net'[c].status = "open" THEN "entered"
                         ELSE IF Logged(c, "left")' THEN "done" ELSE "gone"
  <2>1. net'[c].status \in {"none", "queued", "open", "closed"}
    BY <1>2 DEF Sockets
  <2>2. Listed(c)' <=> net'[c].status = "open"
    BY <1>2 DEF Listed, MapInv, Open
  <2> QED
    BY <1>2, <2>1, <2>2 DEF Phase, MembersInv
<1> QED
  BY <1>1, <1>2

LEMMA ProvidedStays ==
  ASSUME NEW fd, NEW c, Provided(fd, c), clients'[fd].send_buf = clients[fd].send_buf,
         log' = log, since'[c] = since[c], net'[c].down = net[c].down, Alive(c)' => Alive(c)
  PROVE  Provided(fd, c)'
<1>1. TheFeed!Heard(c)' = TheFeed!Heard(c)
  BY HeardSame
<1> QED
  BY <1>1 DEF Provided

\* A note goes into the buffer of everyone but the speaker.
LEMMA ProvidedMore ==
  ASSUME ReactorState, NEW fd \in DOMAIN clients, NEW c \in Conns, Provided(fd, c),
         NEW note \in Events, log' = Append(log, note), since'[c] = since[c],
         net'[c].down = net[c].down, Alive(c)' => Alive(c),
         IF note.by = c THEN clients'[fd].send_buf = clients[fd].send_buf
         ELSE clients'[fd].send_buf = Append(clients[fd].send_buf, note)
  PROVE  Provided(fd, c)'
<1> DEFINE buf == clients[fd].send_buf
           some == Only(buf, Events)
           down == net[c].down
<1>1. SocketsInv /\ net \in Sockets
  BY DEF ReactorState, SocketsInv
<1>2. buf \in Seq(Notes) /\ down \in Seq(Events) /\ note \in Notes
  BY <1>1, NotesFacts DEF ReactorState, ReactorInv, LoopType, Sockets
<1>3. TheFeed!Heard(c)' =
        IF note.by # c THEN Append(TheFeed!Heard(c), note) ELSE TheFeed!Heard(c)
  BY <1>1, HeardGrows
<1> HIDE DEF buf, down
<1>4. some \in Seq(Notes \cap Events)
  BY <1>2, OnlyType
<1>5. Notes \cap Events = Events
  BY NotesFacts
<1>6. Only(Append(buf, note), Events) = Append(some, note)
  BY <1>2, OnlyAppend
<1> HIDE DEF some
<1>7. down \o Append(some, note) = Append(down \o some, note)
  BY <1>2, <1>4, <1>5
<1>8. Alive(c) => down \o some = TheFeed!Heard(c)
  BY DEF Provided, down, some, buf
<1>9. CASE note.by = c
  <2>1. net'[c].down \o Only(clients'[fd].send_buf, Events) = down \o some
    BY <1>9 DEF down, some, buf
  <2> QED
    BY <1>3, <1>8, <1>9, <2>1 DEF Provided
<1>10. CASE note.by # c
  <2>1. net'[c].down \o Only(clients'[fd].send_buf, Events) = Append(down \o some, note)
    BY <1>6, <1>7, <1>10 DEF down, buf
  <2> QED
    BY <1>3, <1>8, <1>10, <2>1 DEF Provided
<1> QED
  BY <1>9, <1>10

\* The clients' steps, and those of the loop that neither open nor close nor say
\* anything.
LEMMA LoopMoves ==
  ASSUME ReactorState, server' = server, net' \in Sockets, LoopType', UNCHANGED <<log, since>>,
         DOMAIN clients' = DOMAIN clients,
         \A fd \in DOMAIN clients : /\ clients'[fd].conn = clients[fd].conn
                                    /\ clients'[fd].send_buf = clients[fd].send_buf,
         \A c \in Conns : /\ net'[c].down = net[c].down /\ (Alive(c)' => Alive(c))
                          /\ \/ net'[c].status = net[c].status
                             \/ net[c].status = "none" /\ net'[c].status = "queued"
  PROVE  Stays /\ Promised
<1> USE DEF ReactorState, ReactorInv
<1>1. SocketsInv'
  BY DEF SocketsInv
<1>2. MapInv'
  <2>1. Open' = Open
    BY DEF Open
  <2> QED
    BY <2>1 DEF MapInv, Conn
<1>3. MembersInv'
  BY LoggedSame DEF MembersInv
<1>4. BufferInv'
  <2>1. ASSUME NEW fd \in DOMAIN clients, NEW c \in Conns, Conn(fd) = c PROVE Provided(fd, c)'
    BY <2>1, ProvidedStays DEF BufferInv
  <2> QED
    BY <2>1 DEF BufferInv, Conn
<1>5. SamePhase(Conns)
  <2>1. net \in Sockets
    BY DEF SocketsInv
  <2>2. ASSUME NEW c \in Conns PROVE Phase(c)' = Phase(c)
    <3>1. /\ Phase(c) = IF net[c].status \in {"none", "queued"} THEN "out"
                       ELSE IF net[c].status = "open" THEN "entered"
                       ELSE IF Logged(c, "left") THEN "done" ELSE "gone"
          /\ Phase(c)' = IF net'[c].status \in {"none", "queued"} THEN "out"
                        ELSE IF net'[c].status = "open" THEN "entered"
                        ELSE IF Logged(c, "left")' THEN "done" ELSE "gone"
      BY <1>2, <1>3, <2>1, LoopPhase
    <3>2. Logged(c, "left")' <=> Logged(c, "left")
      BY LoggedSame
    <3> QED
      BY <3>1, <3>2
  <2> QED
    BY <2>2 DEF SamePhase
<1>6. UNCHANGED TheFeed!vars
  BY <1>5, FeedStutters DEF SameDown
<1> QED
  BY <1>1, <1>2, <1>3, <1>4, <1>6 DEF Stays, Promised

\* What one connection's leaving, entering or speaking changes: the conversation
\* goes on by at most one note of its own, and everyone else is told.
LEMMA LoopSpeaks ==
  ASSUME ReactorState, server' = server, SocketsInv', LoopType', MapInv', NEW c \in Conns,
         \A d \in Conns \ {c} : net'[d] = net[d] /\ since'[d] = since[d],
         net'[c].down = net[c].down,
         NEW note \in Events, note.by = c,
         log' = log \/ log' = Append(log, note),
         \A fd \in DOMAIN clients' : Conn(fd)' # c =>
           /\ fd \in DOMAIN clients /\ Conn(fd)' = Conn(fd)
           /\ clients'[fd].send_buf = IF log' = log THEN clients[fd].send_buf
                                     ELSE Append(clients[fd].send_buf, note),
         \A fd \in DOMAIN clients' : Conn(fd)' = c => Provided(fd, c)',
         Logged(c, "entered")' <=> net'[c].status \in {"open", "closed"},
         net'[c].status # "closed" => ~Logged(c, "left")',
         net'[c].status \notin {"none", "queued"}
  PROVE  Stays /\ SamePhase(Conns \ {c})
<1> USE DEF ReactorState, ReactorInv
<1>1. Append(log, note) # log
  BY DEF SocketsInv
<1>2. \A d \in Conns \ {c} : /\ Logged(d, "entered")' <=> Logged(d, "entered")
                             /\ Logged(d, "left")' <=> Logged(d, "left")
  <2>1. CASE log' = log
    BY <2>1, LoggedSame
  <2>2. CASE log' = Append(log, note)
    <3>1. \A d, what : Logged(d, what)' <=> Logged(d, what) \/ note = Note(d, what)
      BY <2>2, LoggedMore DEF SocketsInv
    <3>2. \A d \in Conns \ {c} : \A what : note # Note(d, what)
      BY DEF Note
    <3> QED
      BY <3>1, <3>2
  <2> QED
    BY <2>1, <2>2
<1>3. MembersInv'
  BY <1>2 DEF MembersInv
<1>4. BufferInv'
  <2>1. ASSUME NEW fd \in DOMAIN clients', NEW d \in Conns, Conn(fd)' = d PROVE Provided(fd, d)'
    <3>1. CASE d = c
      BY <2>1, <3>1
    <3>2. CASE d # c
      <4>1. /\ fd \in DOMAIN clients /\ Conn(fd) = d /\ note.by # d
            /\ net'[d] = net[d] /\ since'[d] = since[d]
        BY <2>1, <3>2
      <4>2. Provided(fd, d) /\ (Alive(d)' => Alive(d))
        BY <4>1 DEF BufferInv, Alive
      <4>3. CASE log' = log
        BY <2>1, <3>2, <4>1, <4>2, <4>3, ProvidedStays
      <4>4. CASE log' = Append(log, note)
        <5>1. clients'[fd].send_buf = Append(clients[fd].send_buf, note)
          BY <1>1, <2>1, <3>2, <4>4
        <5> QED
          BY <4>1, <4>2, <4>4, <5>1, ProvidedMore
      <4> QED
        BY <4>3, <4>4
    <3> QED
      BY <3>1, <3>2
  <2> QED
    BY <2>1 DEF BufferInv
<1>5. SamePhase(Conns \ {c})
  <2>1. net \in Sockets /\ net' \in Sockets
    BY DEF SocketsInv
  <2>2. ASSUME NEW d \in Conns \ {c} PROVE Phase(d)' = Phase(d)
    <3>1. /\ Phase(d) = IF net[d].status \in {"none", "queued"} THEN "out"
                       ELSE IF net[d].status = "open" THEN "entered"
                       ELSE IF Logged(d, "left") THEN "done" ELSE "gone"
          /\ Phase(d)' = IF net'[d].status \in {"none", "queued"} THEN "out"
                        ELSE IF net'[d].status = "open" THEN "entered"
                        ELSE IF Logged(d, "left")' THEN "done" ELSE "gone"
      BY <1>3, <2>1, LoopPhase
    <3> QED
      BY <1>2, <3>1
  <2> QED
    BY <2>2 DEF SamePhase
<1> QED
  BY <1>3, <1>4, <1>5 DEF Stays

\* The client being served.
LEMMA ServedIs ==
  ASSUME ReactorState, pc \in {"read", "lines", "write"}
  PROVE  /\ at \in DOMAIN clients /\ at \in DOMAIN ready /\ Conn(at) \in Conns
         /\ net[Conn(at)].status = "open"
         /\ clients[at] \in [conn : Conns, recv_buf : Seq(Spoken), send_buf : Seq(Notes)]
         /\ \A fd \in DOMAIN clients \ {at} : Conn(fd) # Conn(at)
<1> USE DEF ReactorState, ReactorInv
<1>1. at \in DOMAIN clients /\ at \in DOMAIN ready
  BY DEF LoopType
<1>2. clients[at] \in [conn : Conns, recv_buf : Seq(Spoken), send_buf : Seq(Notes)]
  BY <1>1 DEF LoopType
<1>3. Conn(at) \in Open
  BY <1>1 DEF MapInv
<1>4. \A fd \in DOMAIN clients \ {at} : Conn(fd) # Conn(at)
  BY <1>1 DEF MapInv
<1> QED
  BY <1>1, <1>2, <1>3, <1>4 DEF Open

LEMMA QuietKeeps ==
  ASSUME ReactorState, server' = server, Poll \/ Serve \/ Read
  PROVE  Stays /\ Promised
<1> USE DEF ReactorState, ReactorInv
<1>0. net \in Sockets
  BY DEF SocketsInv
<1>1. CASE Poll
  <2>1. UNCHANGED <<clients, net, log, since>> /\ pc' \in {"accept", "serve"}
    BY <1>1 DEF Poll, netVars
  <2>2. DOMAIN ready' \subseteq DOMAIN clients
    BY <1>1 DEF Poll
  <2>3. LoopType'
    BY <2>1, <2>2 DEF LoopType
  <2>4. \A c \in Conns : Alive(c)' => Alive(c)
    BY <2>1 DEF Alive
  <2> HIDE DEF ReactorState, ReactorInv
  <2> QED
    BY <1>0, <2>1, <2>3, <2>4, LoopMoves
<1>2. CASE Serve
  <2>1. UNCHANGED <<clients, ready, net, log, since>>
    BY <1>2 DEF Serve, netVars
  <2>2. \/ pc' = "poll"
        \/ at' \in DOMAIN ready /\ pc' \in {"read", "write"}
    BY <1>2 DEF Serve
  <2>3. LoopType'
    BY <2>1, <2>2 DEF LoopType
  <2>4. \A c \in Conns : Alive(c)' => Alive(c)
    BY <2>1 DEF Alive
  <2> HIDE DEF ReactorState, ReactorInv
  <2> QED
    BY <1>0, <2>1, <2>3, <2>4, LoopMoves
<1>3. CASE Read
  <2>0. PICK c \in Conns : c = Conn(at)
    BY <1>3, ServedIs DEF Read
  <2> DEFINE buf == clients[at].recv_buf \o net[c].up
  <2>1. /\ clients' = [clients EXCEPT ![at].recv_buf = buf] /\ net' = [net EXCEPT ![c].up = <<>>]
        /\ pc' = "lines" /\ pc = "read" /\ UNCHANGED <<at, ready, log, since>>
    BY <1>3, <2>0 DEF Read
  <2>2. buf \in Seq(Spoken) /\ at \in DOMAIN clients
    BY <1>0, <2>1, ServedIs DEF Sockets
  <2> HIDE DEF buf
  <2>3. /\ DOMAIN clients' = DOMAIN clients
        /\ \A fd \in DOMAIN clients : /\ clients'[fd].conn = clients[fd].conn
                                      /\ clients'[fd].send_buf = clients[fd].send_buf
    BY <2>1, <2>2 DEF LoopType
  <2>4. LoopType'
    <3>1. clients' \in [DOMAIN clients -> [conn : Conns, recv_buf : Seq(Spoken), send_buf : Seq(Notes)]]
      BY <2>1, <2>2 DEF LoopType
    <3> QED
      BY <2>1, <2>3, <3>1 DEF LoopType
  <2>5. net' \in Sockets
    <3>1. <<>> \in Seq(Spoken)
      OBVIOUS
    <3> QED
      BY <1>0, <2>1, <3>1 DEF Sockets
  <2>6. \A d \in Conns : /\ net'[d].down = net[d].down /\ net'[d].status = net[d].status
                         /\ Alive(d)' => Alive(d)
    BY <1>0, <2>1 DEF Sockets, Alive
  <2> HIDE DEF ReactorState, ReactorInv
  <2> QED
    BY <2>1, <2>3, <2>4, <2>5, <2>6, LoopMoves
<1> QED
  BY <1>1, <1>2, <1>3

\* What a broadcast does to the map.
LEMMA ToldIs ==
  ASSUME NEW map, map \in [DOMAIN map -> [conn : Conns, recv_buf : Seq(Spoken), send_buf : Seq(Notes)]],
         NEW from, NEW note \in Notes
  PROVE  /\ DOMAIN Told(map, from, note) = DOMAIN map
         /\ Told(map, from, note) \in [DOMAIN map -> [conn : Conns, recv_buf : Seq(Spoken), send_buf : Seq(Notes)]]
         /\ \A fd \in DOMAIN map :
              /\ Told(map, from, note)[fd].conn = map[fd].conn
              /\ Told(map, from, note)[fd].send_buf =
                   IF fd = from THEN map[fd].send_buf ELSE Append(map[fd].send_buf, note)
<1> DEFINE new == Told(map, from, note)
<1>1. \A fd \in DOMAIN map : new[fd] = IF fd = from THEN map[fd]
                                      ELSE [map[fd] EXCEPT !.send_buf = Append(@, note)]
  BY DEF Told
<1>2. new = [fd \in DOMAIN map |-> new[fd]]
  BY DEF Told
<1> HIDE DEF new
<1>3. ASSUME NEW fd \in DOMAIN map
      PROVE  /\ new[fd] \in [conn : Conns, recv_buf : Seq(Spoken), send_buf : Seq(Notes)]
             /\ new[fd].conn = map[fd].conn
             /\ new[fd].send_buf =
                  IF fd = from THEN map[fd].send_buf ELSE Append(map[fd].send_buf, note)
  <2>1. map[fd] \in [conn : Conns, recv_buf : Seq(Spoken), send_buf : Seq(Notes)]
    OBVIOUS
  <2>2. Append(map[fd].send_buf, note) \in Seq(Notes)
    BY <2>1
  <2> QED
    BY <1>1, <2>1, <2>2
<1> QED
  BY <1>2, <1>3 DEF new

LEMMA LineKeeps ==
  ASSUME ReactorState, server' = server, Line
  PROVE  Stays /\ Promised
<1> USE DEF ReactorState, ReactorInv
<1>0. net \in Sockets /\ pc = "lines" /\ UNCHANGED <<pc, at, ready, net, since>>
  BY DEF SocketsInv, Line
<1>1. PICK c \in Conns : c = Conn(at)
  BY <1>0, ServedIs
<1>2. /\ at \in DOMAIN clients /\ at \in DOMAIN ready /\ net[c].status = "open"
      /\ clients[at] \in [conn : Conns, recv_buf : Seq(Spoken), send_buf : Seq(Notes)]
      /\ \A fd \in DOMAIN clients \ {at} : Conn(fd) # c
  BY <1>0, <1>1, ServedIs
<1> DEFINE buf == clients[at].recv_buf
<1>3. buf # <<>> /\ buf \in Seq(Spoken)
  BY <1>2 DEF Line
<1>4. CASE /\ Head(buf) = Quit /\ log' = log
           /\ clients' = [clients EXCEPT ![at].recv_buf = <<>>]
  <2>1. /\ DOMAIN clients' = DOMAIN clients
        /\ \A fd \in DOMAIN clients : /\ clients'[fd].conn = clients[fd].conn
                                      /\ clients'[fd].send_buf = clients[fd].send_buf
    BY <1>4 DEF LoopType
  <2>2. LoopType'
    <3>1. <<>> \in Seq(Spoken)
      OBVIOUS
    <3>2. clients' \in [DOMAIN clients -> [conn : Conns, recv_buf : Seq(Spoken), send_buf : Seq(Notes)]]
      BY <1>4, <3>1 DEF LoopType
    <3> QED
      BY <1>0, <2>1, <3>2 DEF LoopType
  <2>3. \A d \in Conns : Alive(d)' => Alive(d)
    BY <1>0 DEF Alive
  <2> HIDE DEF ReactorState, ReactorInv
  <2> QED
    BY <1>0, <1>4, <2>1, <2>2, <2>3, LoopMoves
<1>5. CASE /\ Head(buf) # Quit /\ log' = Append(log, Note(c, Head(buf)))
           /\ clients' = Told([clients EXCEPT ![at].recv_buf = Tail(@)], at, Note(c, Head(buf)))
  <2> DEFINE note == Note(c, Head(buf))
             map == [clients EXCEPT ![at].recv_buf = Tail(buf)]
  <2>1. Head(buf) \in Spoken \ {Quit} /\ Tail(buf) \in Seq(Spoken)
    BY <1>3, <1>5
  <2>2. note \in Events /\ note \in Notes /\ note.by = c
    BY <2>1, NotesFacts DEF Note
  <2>3. clients' = Told(map, at, note)
    BY <1>5
  <2>4. /\ DOMAIN map = DOMAIN clients
        /\ map \in [DOMAIN map -> [conn : Conns, recv_buf : Seq(Spoken), send_buf : Seq(Notes)]]
        /\ \A fd \in DOMAIN clients : map[fd].conn = clients[fd].conn /\ map[fd].send_buf = clients[fd].send_buf
    BY <1>2, <2>1 DEF LoopType
  <2>5. note.what = Head(buf)
    BY DEF Note
  <2>6. log' = Append(log, note)
    BY <1>5
  <2> HIDE DEF map, note, buf
  <2>7. /\ DOMAIN clients' = DOMAIN clients
        /\ clients' \in [DOMAIN clients -> [conn : Conns, recv_buf : Seq(Spoken), send_buf : Seq(Notes)]]
        /\ \A fd \in DOMAIN clients :
             /\ clients'[fd].conn = clients[fd].conn
             /\ clients'[fd].send_buf =
                  IF fd = at THEN clients[fd].send_buf ELSE Append(clients[fd].send_buf, note)
    BY <2>2, <2>3, <2>4, ToldIs
  <2>8. LoopType'
    BY <1>0, <2>7 DEF LoopType
  <2>9. SocketsInv'
    <3>1. log' \in Seq(Events) /\ Len(log') = Len(log) + 1 /\ Len(log) \in Nat
      BY <2>2, <2>6 DEF SocketsInv
    <3> QED
      BY <1>0, <3>1 DEF SocketsInv
  <2>10. MapInv'
    <3>1. Open' = Open
      BY <1>0 DEF Open
    <3> QED
      BY <2>7, <3>1 DEF MapInv, Conn
  <2>11. \A d, what : Logged(d, what)' <=> Logged(d, what) \/ note = Note(d, what)
    BY <2>2, <2>6, LoggedMore DEF SocketsInv
  <2>12. note # Note(c, "entered") /\ note # Note(c, "left")
    BY <2>1, <2>5, SpokenApart DEF Note
  <2>13. /\ Logged(c, "entered")' <=> net'[c].status \in {"open", "closed"}
         /\ net'[c].status # "closed" => ~Logged(c, "left")'
         /\ net'[c].status \notin {"none", "queued"}
    BY <1>0, <1>2, <2>11, <2>12 DEF MembersInv
  <2>14. Append(log, note) # log
    BY <2>2 DEF SocketsInv
  <2>15. \A fd \in DOMAIN clients' : Conn(fd)' = Conn(fd)
    BY <2>7 DEF Conn
  <2>16. \A fd \in DOMAIN clients' : Conn(fd)' # c =>
           /\ fd \in DOMAIN clients /\ Conn(fd)' = Conn(fd)
           /\ clients'[fd].send_buf = IF log' = log THEN clients[fd].send_buf
                                     ELSE Append(clients[fd].send_buf, note)
    BY <1>1, <2>6, <2>7, <2>14, <2>15
  <2>17. ASSUME NEW fd \in DOMAIN clients', Conn(fd)' = c PROVE Provided(fd, c)'
    <3>1. fd = at /\ Conn(fd) = c /\ fd \in DOMAIN clients
      BY <1>2, <2>7, <2>15, <2>17
    <3>2. Provided(fd, c) /\ (Alive(c)' => Alive(c))
      BY <1>0, <3>1 DEF BufferInv, Alive
    <3>3. clients'[fd].send_buf = clients[fd].send_buf
      BY <2>7, <3>1
    <3> HIDE DEF ReactorState, ReactorInv
    <3> QED
      BY <1>0, <2>2, <2>6, <3>1, <3>2, <3>3, ProvidedMore
  <2>18. Stays /\ SamePhase(Conns \ {c})
    <3> HIDE DEF ReactorState, ReactorInv
    <3>1. \A d \in Conns \ {c} : net'[d] = net[d] /\ since'[d] = since[d]
      BY <1>0
    <3> QED
      BY <1>0, <2>2, <2>6, <2>8, <2>9, <2>10, <2>13, <2>16, <2>17, <3>1, LoopSpeaks
  <2>19. Phase(c) = "entered" /\ Phase(c)' = "entered"
    BY <1>0, <1>2, <2>18, LoopPhase DEF Stays
  <2>20. SamePhase(Conns) /\ SameDown(Conns)
    BY <1>0, <2>18, <2>19 DEF SamePhase, SameDown
  <2>21. TheFeed!Next
    BY <1>0, <2>1, <2>6, <2>19, <2>20, FeedSays DEF note
  <2> QED
    BY <2>18, <2>21 DEF Promised
<1> QED
  BY <1>1, <1>4, <1>5 DEF Line

\* Whoever waits becomes a member, and the others are told.
LEMMA AcceptKeeps ==
  ASSUME ReactorState, server' = server, Accept
  PROVE  Stays /\ Promised
<1> USE DEF ReactorState, ReactorInv
<1>0. net \in Sockets /\ pc = "accept" /\ UNCHANGED <<at, gone, ready>>
  BY DEF SocketsInv, Accept
<1>1. CASE Queued = {} /\ pc' = "serve" /\ UNCHANGED <<clients, net, log, since>>
  <2>1. LoopType'
    BY <1>0, <1>1 DEF LoopType
  <2>2. \A d \in Conns : Alive(d)' => Alive(d)
    BY <1>1 DEF Alive
  <2> HIDE DEF ReactorState, ReactorInv
  <2> QED
    BY <1>0, <1>1, <2>1, <2>2, LoopMoves
<1>2. ASSUME Queued # {}, pc' = pc PROVE Stays /\ Promised
  <2>1. PICK c \in Conns : c = Min(Queued) /\ net[c].status = "queued"
    <3>1. Queued \in SUBSET Nat
      BY ConnsFacts DEF Queued
    <3>2. Min(Queued) \in Queued
      BY <1>2, <3>1, MinProperties
    <3> QED
      BY <3>2 DEF Queued
  <2>2. PICK fd \in Fds \ DOMAIN clients : fd = Min(Fds \ DOMAIN clients)
    <3> DEFINE g == [d \in Conns |-> CHOOSE e \in DOMAIN clients : Conn(e) = d]
    <3>1. \A e \in DOMAIN clients : Conn(e) \in Open /\ g[Conn(e)] = e
      BY DEF MapInv, Open
    <3>2. \A d \in Open : g[d] \in DOMAIN clients
      BY DEF MapInv, Open
    <3> HIDE DEF g
    <3>3. DOMAIN clients = {g[d] : d \in Open}
      BY <3>1, <3>2
    <3>4. Open \in SUBSET Conns /\ Open # Conns
      BY <2>1 DEF Open
    <3>5. Min(Fds \ {g[d] : d \in Open}) \in Fds \ {g[d] : d \in Open}
      BY <3>4, NumberLeft
    <3> QED
      BY <3>3, <3>5
  <2> DEFINE hi == Note(c, "hello")
             in == Note(c, "entered")
             st == [conn |-> c, recv_buf |-> <<>>, send_buf |-> <<hi>>]
             others == Told(clients, fd, in)
  <2>3. /\ clients' = [d \in DOMAIN clients \cup {fd} |-> IF d = fd THEN st ELSE others[d]]
        /\ net' = [net EXCEPT ![c].status = "open"]
        /\ since' = [since EXCEPT ![c] = Len(log)]
        /\ log' = Append(log, in)
    BY <1>0, <1>2, <2>1, <2>2 DEF Accept
  <2>4. in \in Events /\ in \in Notes /\ in.by = c /\ hi \in Notes \ Events /\ in.what = "entered"
    BY NotesFacts DEF Note
  <2>5. st \in [conn : Conns, recv_buf : Seq(Spoken), send_buf : Seq(Notes)]
    BY <2>4
  <2>6. in # Note(c, "left") /\ in = Note(c, "entered")
    BY DEF Note
  <2> HIDE DEF in
  <2>7. /\ DOMAIN others = DOMAIN clients
        /\ others \in [DOMAIN clients -> [conn : Conns, recv_buf : Seq(Spoken), send_buf : Seq(Notes)]]
        /\ \A d \in DOMAIN clients : /\ others[d].conn = clients[d].conn
                                     /\ others[d].send_buf = Append(clients[d].send_buf, in)
    <3>1. clients \in [DOMAIN clients -> [conn : Conns, recv_buf : Seq(Spoken), send_buf : Seq(Notes)]]
      BY DEF LoopType
    <3> HIDE DEF ReactorState, ReactorInv
    <3>2. /\ DOMAIN others = DOMAIN clients
          /\ others \in [DOMAIN clients -> [conn : Conns, recv_buf : Seq(Spoken), send_buf : Seq(Notes)]]
          /\ \A d \in DOMAIN clients :
               /\ others[d].conn = clients[d].conn
               /\ others[d].send_buf = IF d = fd THEN clients[d].send_buf
                                       ELSE Append(clients[d].send_buf, in)
      BY <2>4, <3>1, ToldIs
    <3> QED
      BY <2>2, <3>2
  <2>8. st.conn = c /\ st.send_buf = <<hi>>
    OBVIOUS
  <2> HIDE DEF others, st
  <2>9. /\ DOMAIN clients' = DOMAIN clients \cup {fd}
        /\ clients'[fd] = st /\ \A d \in DOMAIN clients : clients'[d] = others[d] /\ d # fd
    BY <2>2, <2>3
  <2>10. clients' \in [DOMAIN clients' -> [conn : Conns, recv_buf : Seq(Spoken), send_buf : Seq(Notes)]]
    BY <2>3, <2>5, <2>7
  <2>11. LoopType'
    BY <1>0, <1>2, <2>9, <2>10 DEF LoopType
  <2>12. SocketsInv'
    <3>1. log' \in Seq(Events) /\ Len(log') = Len(log) + 1 /\ Len(log) \in Nat
      BY <2>3, <2>4 DEF SocketsInv
    <3>2. net' \in Sockets
      BY ZenonT(60), <1>0, <2>3 DEF Sockets
    <3>3. since' \in [Conns -> Nat] /\ \A d \in Conns : since'[d] <= Len(log')
      BY <2>3, <3>1 DEF SocketsInv
    <3> QED
      BY <3>1, <3>2, <3>3 DEF SocketsInv
  <2>13. /\ \A d \in Conns \ {c} : net'[d] = net[d] /\ since'[d] = since[d]
         /\ net'[c].down = net[c].down /\ net'[c].status = "open" /\ since'[c] = Len(log)
    BY <1>0, <2>3 DEF Sockets, SocketsInv
  <2>14. Conn(fd)' = c /\ \A d \in DOMAIN clients : Conn(d)' = Conn(d) /\ Conn(d) # c
    <3>1. \A d \in DOMAIN clients : Conn(d) # c
      BY <2>1 DEF MapInv, Open
    <3> QED
      BY <2>7, <2>8, <2>9, <3>1 DEF Conn
  <2>15. MapInv'
    <3>1. Open' = Open \cup {c}
      BY <2>13 DEF Open
    <3> QED
      BY <2>9, <2>14, <3>1 DEF MapInv
  <2>16. \A d, what : Logged(d, what)' <=> Logged(d, what) \/ in = Note(d, what)
    BY <2>3, <2>4, LoggedMore DEF SocketsInv
  <2>17. /\ Logged(c, "entered")' <=> net'[c].status \in {"open", "closed"}
         /\ net'[c].status # "closed" => ~Logged(c, "left")'
         /\ net'[c].status \notin {"none", "queued"}
    BY <2>1, <2>6, <2>13, <2>16 DEF MembersInv
  <2>18. Provided(fd, c)'
    <3>1. net'[c].down = <<>>
      BY <2>1, <2>13 DEF MembersInv
    <3>2. Only(<<hi>>, Events) = <<>>
      <4>1. <<>> \in Seq(Notes) /\ Append(<<>>, hi) = <<hi>>
        OBVIOUS
      <4> HIDE DEF hi
      <4>2. Only(Append(<<>>, hi), Events) = Only(<<>>, Events)
        BY <2>4, <4>1, OnlyAppend
      <4> QED
        BY <4>1, <4>2, OnlyEmpty
    <3>3. HeardOf(Append(log, in), Len(log), c) = <<>>
      <4> DEFINE k == Len(log)
      <4>1. log \in Seq(Events) /\ k \in 0 .. Len(log)
        BY DEF SocketsInv
      <4>2. HeardOf(log, k, c) = <<>>
        BY <4>1, HeardNothing
      <4> HIDE DEF k
      <4>3. HeardOf(Append(log, in), k, c) = HeardOf(log, k, c)
        BY <2>4, <4>1, HeardMore
      <4> QED
        BY <4>2, <4>3 DEF k
    <3>4. TheFeed!Heard(c)' = <<>>
      BY <2>3, <2>13, <3>3, HeardIs
    <3>5. clients'[fd].send_buf = <<hi>>
      BY <2>8, <2>9
    <3>6. <<>> \o <<>> = <<>>
      OBVIOUS
    <3> QED
      BY <3>1, <3>2, <3>4, <3>5, <3>6 DEF Provided
  <2>19. Stays /\ SamePhase(Conns \ {c})
    <3>1. Append(log, in) # log
      BY <2>4 DEF SocketsInv
    <3>2. \A d \in DOMAIN clients' : Conn(d)' # c =>
            /\ d \in DOMAIN clients /\ Conn(d)' = Conn(d)
            /\ clients'[d].send_buf = IF log' = log THEN clients[d].send_buf
                                     ELSE Append(clients[d].send_buf, in)
      BY <2>3, <2>7, <2>9, <2>14, <3>1
    <3>3. \A d \in DOMAIN clients' : Conn(d)' = c => Provided(d, c)'
      BY <2>9, <2>14, <2>18
    <3> HIDE DEF ReactorState, ReactorInv
    <3> QED
      BY <2>3, <2>4, <2>11, <2>12, <2>13, <2>15, <2>17, <3>2, <3>3, LoopSpeaks
  <2>20. Phase(c) = "out" /\ Phase(c)' = "entered"
    BY <1>0, <2>1, <2>13, <2>19, LoopPhase DEF Stays, SocketsInv
  <2>21. SameDown(Conns)
    BY <2>13 DEF SameDown
  <2>22. TheFeed!Next
    BY <2>3, <2>6, <2>19, <2>20, <2>21, FeedJoins
  <2> QED
    BY <2>19, <2>22 DEF Promised
<1> QED
  BY <1>1, <1>2 DEF Accept, netVars

\* The one served is taken off the map and its connection closed, and the others
\* hear of it or do not.
LEMMA ClosingKeeps ==
  ASSUME ReactorState, server' = server, pc \in {"lines", "write"}, NEW c \in Conns, c = Conn(at),
         Closed, Served, since' = since,
         \/ log' = log /\ clients' = Erase(clients, at)
         \/ /\ log' = Append(log, Note(c, "left"))
            /\ clients' = Told(Erase(clients, at), Nothing, Note(c, "left"))
  PROVE  Stays /\ Promised
<1> USE DEF ReactorState, ReactorInv
<1> DEFINE map == Erase(clients, at)
           note == Note(c, "left")
<1>0. net \in Sockets /\ log \in Seq(Events)
  BY DEF SocketsInv
<1>1. /\ at \in DOMAIN clients /\ at \in DOMAIN ready /\ net[c].status = "open"
      /\ \A fd \in DOMAIN clients \ {at} : Conn(fd) # c
  BY ServedIs
<1>2. /\ net' = [net EXCEPT ![c].status = "closed"]
      /\ pc' = "serve" /\ ready' = Erase(ready, at)
  BY DEF Closed, Served
<1>3. note \in Events /\ note \in Notes /\ note.by = c /\ note # Note(c, "entered")
  BY NotesFacts DEF Note
<1>4. /\ DOMAIN map = DOMAIN clients \ {at}
      /\ \A fd \in DOMAIN map : map[fd] = clients[fd]
      /\ map \in [DOMAIN map -> [conn : Conns, recv_buf : Seq(Spoken), send_buf : Seq(Notes)]]
  BY DEF Erase, LoopType
<1>5. Nothing \notin DOMAIN map
  BY ConnsFacts, <1>4 DEF Nothing, LoopType
<1>6. log' = log \/ log' = Append(log, note)
  OBVIOUS
<1>7. Append(log, note) # log
  BY <1>0, <1>3
<1> HIDE DEF map, note
<1>8. /\ DOMAIN Told(map, Nothing, note) = DOMAIN map
      /\ Told(map, Nothing, note) \in [DOMAIN map -> [conn : Conns, recv_buf : Seq(Spoken), send_buf : Seq(Notes)]]
      /\ \A fd \in DOMAIN map :
           /\ Told(map, Nothing, note)[fd].conn = map[fd].conn
           /\ Told(map, Nothing, note)[fd].send_buf =
                IF fd = Nothing THEN map[fd].send_buf ELSE Append(map[fd].send_buf, note)
  BY <1>3, <1>4, ToldIs
<1>9. /\ DOMAIN clients' = DOMAIN clients \ {at}
      /\ clients' \in [DOMAIN clients' -> [conn : Conns, recv_buf : Seq(Spoken), send_buf : Seq(Notes)]]
      /\ \A fd \in DOMAIN clients' :
           /\ clients'[fd].conn = clients[fd].conn
           /\ clients'[fd].send_buf = IF log' = log THEN clients[fd].send_buf
                                     ELSE Append(clients[fd].send_buf, note)
  <2>1. CASE log' = log /\ clients' = map
    BY <1>4, <2>1
  <2>2. CASE log' = Append(log, note) /\ clients' = Told(map, Nothing, note)
    BY <1>4, <1>5, <1>7, <1>8, <2>2
  <2> QED
    BY <2>1, <2>2 DEF map, note
<1>10. LoopType'
  <2>1. DOMAIN ready' = DOMAIN ready \ {at}
    BY <1>2 DEF Erase
  <2> QED
    BY <1>2, <1>9, <2>1 DEF LoopType
<1>11. SocketsInv'
  <2>1. log' \in Seq(Events) /\ Len(log) <= Len(log')
    BY <1>0, <1>3, <1>6
  <2>2. net' \in Sockets
    BY <1>0, <1>2, SocketsWith
  <2>3. \A d \in Conns : since[d] <= Len(log')
    BY <2>1 DEF SocketsInv
  <2> QED
    BY <2>1, <2>2, <2>3 DEF SocketsInv
<1>12. /\ \A d \in Conns \ {c} : net'[d] = net[d] /\ since'[d] = since[d]
       /\ net'[c].down = net[c].down /\ net'[c].status = "closed"
  BY <1>0, <1>2 DEF Sockets
<1>13. \A fd \in DOMAIN clients' : Conn(fd)' = Conn(fd) /\ fd \in DOMAIN clients /\ Conn(fd) # c
  BY <1>1, <1>9 DEF Conn
<1>14. MapInv'
  <2>1. Open' = Open \ {c}
    BY <1>12 DEF Open
  <2> QED
    BY <1>1, <1>9, <1>13, <2>1 DEF MapInv
<1>15. Logged(c, "entered")' /\ (Logged(c, "left")' <=> Logged(c, "left") \/ log' # log)
  <2>1. Logged(c, "entered")
    BY <1>1 DEF MembersInv
  <2>2. CASE log' = log
    BY <2>1, <2>2, LoggedSame
  <2>3. CASE log' = Append(log, note)
    <3>1. \A d, what : Logged(d, what)' <=> Logged(d, what) \/ note = Note(d, what)
      BY <1>0, <1>3, <2>3, LoggedMore
    <3> QED
      BY <1>7, <2>1, <2>3, <3>1 DEF note
  <2> QED
    BY <1>6, <2>2, <2>3
<1>16. Stays /\ SamePhase(Conns \ {c})
  <2>1. \A fd \in DOMAIN clients' : Conn(fd)' # c =>
           /\ fd \in DOMAIN clients /\ Conn(fd)' = Conn(fd)
           /\ clients'[fd].send_buf = IF log' = log THEN clients[fd].send_buf
                                     ELSE Append(clients[fd].send_buf, note)
    BY <1>9, <1>13
  <2>2. \A fd \in DOMAIN clients' : Conn(fd)' = c => Provided(fd, c)'
    BY <1>13
  <2>3. /\ Logged(c, "entered")' <=> net'[c].status \in {"open", "closed"}
        /\ net'[c].status # "closed" => ~Logged(c, "left")'
        /\ net'[c].status \notin {"none", "queued"}
    BY <1>12, <1>15
  <2> HIDE DEF ReactorState, ReactorInv
  <2> QED
    BY <1>3, <1>6, <1>10, <1>11, <1>12, <1>14, <2>1, <2>2, <2>3, LoopSpeaks
<1>17. Phase(c) = "entered" /\ Phase(c)' = IF log' = log THEN "gone" ELSE "done"
  <2>1. ~Logged(c, "left")
    BY <1>1 DEF MembersInv
  <2>2. Phase(c) = "entered"
    BY <1>0, <1>1, LoopPhase
  <2>3. Phase(c)' = IF Logged(c, "left")' THEN "done" ELSE "gone"
    BY <1>12, <1>16, LoopPhase DEF Stays, SocketsInv
  <2> QED
    BY <1>15, <2>1, <2>2, <2>3
<1>18. SameDown(Conns)
  BY <1>12 DEF SameDown
<1>19. TheFeed!Next
  BY <1>6, <1>7, <1>16, <1>17, <1>18, FeedLeaves DEF note
<1> QED
  BY <1>16, <1>19 DEF Promised

LEMMA AfterLinesKeeps ==
  ASSUME ReactorState, server' = server, AfterLines
  PROVE  Stays /\ Promised
<1>0. pc = "lines" /\ since' = since
  BY DEF AfterLines
<1>1. PICK c \in Conns : c = Conn(at)
  BY <1>0, ServedIs
<1>2. CASE /\ Closed /\ Served
           /\ clients' = Told(Erase(clients, at), Nothing, Note(Conn(at), "left"))
           /\ log' = Append(log, Note(Conn(at), "left"))
  BY <1>0, <1>1, <1>2, ClosingKeeps
<1>3. CASE pc' = "write" /\ UNCHANGED <<at, gone, ready, clients, net, log>>
  <2>1. LoopType'
    BY <1>0, <1>3 DEF ReactorState, ReactorInv, LoopType
  <2>2. \A d \in Conns : Alive(d)' => Alive(d)
    BY <1>3 DEF Alive
  <2>3. net' \in Sockets
    BY <1>3 DEF ReactorState, SocketsInv
  <2> QED
    BY <1>0, <1>3, <2>1, <2>2, <2>3, LoopMoves
<1> QED
  BY <1>2, <1>3 DEF AfterLines

LEMMA ThreeParts ==
  ASSUME NEW V, NEW s \in Seq(V), NEW t \in Seq(V), NEW u \in Seq(V)
  PROVE  s \o (t \o u) = (s \o t) \o u
<1>1. (s \o t) \o u = s \o (t \o u)
  BY SMTT(30), ConcatAssociative
<1> QED
  BY <1>1

\* A sequence is its beginning and the rest.
LEMMA SplitSeq ==
  ASSUME NEW V, NEW s \in Seq(V), NEW k \in 0 .. Len(s)
  PROVE  /\ SubSeq(s, 1, k) \in Seq(V) /\ SubSeq(s, k + 1, Len(s)) \in Seq(V)
         /\ s = SubSeq(s, 1, k) \o SubSeq(s, k + 1, Len(s))
         /\ Len(SubSeq(s, 1, k)) = k
<1> DEFINE a == SubSeq(s, 1, k)
           b == SubSeq(s, k + 1, Len(s))
<1>1. /\ a \in Seq(V) /\ b \in Seq(V) /\ Len(a) = k /\ Len(b) = Len(s) - k
      /\ Len(s) \in Nat /\ k \in Nat /\ k <= Len(s)
      /\ \A i \in 1 .. k : a[i] = s[i]
      /\ \A i \in 1 .. Len(s) - k : b[i] = s[i + k]
  BY SMTT(30)
<1> HIDE DEF a, b
<1>2. /\ a \o b \in Seq(V) /\ Len(a \o b) = Len(s)
      /\ \A i \in 1 .. Len(s) : (a \o b)[i] = IF i <= k THEN a[i] ELSE b[i - k]
  BY <1>1
<1>3. ASSUME NEW i \in 1 .. Len(s) PROVE (a \o b)[i] = s[i]
  <2>1. CASE i <= k
    BY <1>1, <1>2, <2>1
  <2>2. CASE i > k
    <3>1. i - k \in 1 .. Len(s) - k /\ (i - k) + k = i
      BY <1>1, <2>2
    <3> QED
      BY <1>1, <1>2, <2>2, <3>1
  <2> QED
    BY <1>1, <2>1, <2>2
<1>4. a \o b = s
  BY <1>2, <1>3, SeqEqual
<1> QED
  BY <1>1, <1>4 DEF a, b

\* What the socket takes is heard, and what it does not take stays in the buffer.
LEMMA SendingKeeps ==
  ASSUME ReactorState, server' = server, pc = "write", NEW c \in Conns, c = Conn(at),
         NEW take \in 0 .. Len(clients[at].send_buf), Alive(c) => take <= Room(c),
         net' = Sent(c, SubSeq(clients[at].send_buf, 1, take)),
         clients' = [clients EXCEPT ![at].send_buf = Unsent(@, take)],
         Served, UNCHANGED <<log, since>>
  PROVE  Stays /\ Promised
<1> USE DEF ReactorState, ReactorInv
<1> DEFINE buf == clients[at].send_buf
           first == SubSeq(buf, 1, take)
           rest == SubSeq(buf, take + 1, Len(buf))
           down == net[c].down
<1>0. net \in Sockets /\ log \in Seq(Events) /\ down \in Seq(Events)
  BY DEF SocketsInv, Sockets
<1>1. /\ at \in DOMAIN clients /\ at \in DOMAIN ready /\ net[c].status = "open"
      /\ clients[at] \in [conn : Conns, recv_buf : Seq(Spoken), send_buf : Seq(Notes)]
      /\ \A fd \in DOMAIN clients \ {at} : Conn(fd) # c
  BY ServedIs
<1>2. buf \in Seq(Notes) /\ take \in 0 .. Len(buf)
  BY <1>1
<1>3. net' = Sent(c, first) /\ clients' = [clients EXCEPT ![at].send_buf = rest]
  BY DEF Unsent
<1> HIDE DEF buf
<1>4. first \in Seq(Notes) /\ rest \in Seq(Notes) /\ buf = first \o rest /\ Len(first) = take
  BY <1>2, SplitSeq
<1> HIDE DEF first, rest
<1>5. /\ net' \in Sockets
      /\ \A d \in Conns : /\ net'[d].status = net[d].status /\ net'[d].end = net[d].end
                          /\ d # c => net'[d] = net[d]
      /\ net'[c].down = IF Alive(c) THEN down \o Only(first, Events) ELSE down
  BY <1>0, <1>3, <1>4, SentIs
<1> HIDE DEF down
<1>6. /\ DOMAIN clients' = DOMAIN clients
      /\ clients' \in [DOMAIN clients -> [conn : Conns, recv_buf : Seq(Spoken), send_buf : Seq(Notes)]]
      /\ \A fd \in DOMAIN clients :
           /\ clients'[fd].conn = clients[fd].conn
           /\ clients'[fd].send_buf = IF fd = at THEN rest ELSE clients[fd].send_buf
  <2>1. clients \in [DOMAIN clients -> [conn : Conns, recv_buf : Seq(Spoken), send_buf : Seq(Notes)]]
    BY DEF LoopType
  <2> HIDE DEF ReactorState, ReactorInv
  <2>2. /\ DOMAIN clients' = DOMAIN clients
        /\ clients'[at] = [clients[at] EXCEPT !.send_buf = rest]
        /\ \A fd \in DOMAIN clients \ {at} : clients'[fd] = clients[fd]
    BY <1>1, <1>3, <2>1
  <2>3. clients' = [fd \in DOMAIN clients |-> clients'[fd]]
    BY <1>3, <2>1
  <2>4. /\ clients'[at] \in [conn : Conns, recv_buf : Seq(Spoken), send_buf : Seq(Notes)]
        /\ clients'[at].conn = clients[at].conn /\ clients'[at].send_buf = rest
    BY <1>1, <1>4, <2>2
  <2> QED
    BY <2>1, <2>2, <2>3, <2>4
<1>7. LoopType'
  <2>1. DOMAIN ready' \subseteq DOMAIN ready /\ pc' = "serve"
    BY DEF Served, Erase
  <2> QED
    BY <1>6, <2>1 DEF LoopType
<1>8. SocketsInv'
  BY <1>5 DEF SocketsInv
<1>9. MapInv'
  <2>1. Open' = Open
    BY <1>5 DEF Open
  <2> QED
    BY <1>6, <2>1 DEF MapInv, Conn
<1>10. MembersInv'
  <2>1. \A d \in Conns : net[d].status \in {"none", "queued"} => net'[d].down = net[d].down
    BY <1>1, <1>5
  <2> QED
    BY <1>5, <2>1, LoggedSame DEF MembersInv
<1>11. \A d \in Conns : Alive(d)' <=> Alive(d)
  BY <1>5 DEF Alive
<1>12. /\ Only(buf, Events) = Only(first, Events) \o Only(rest, Events)
       /\ Only(first, Events) \in Seq(Events) /\ Only(rest, Events) \in Seq(Events)
  <2>1. Notes \cap Events = Events
    BY NotesFacts
  <2> QED
    BY <1>4, <2>1, OnlyConcat, OnlyType
<1>13. Alive(c) => TheFeed!Heard(c) = (down \o Only(first, Events)) \o Only(rest, Events)
  <2>1. Provided(at, c)
    BY <1>1 DEF BufferInv
  <2>2. Alive(c) => TheFeed!Heard(c) = down \o Only(buf, Events)
    BY <2>1 DEF Provided, down, buf
  <2>3. down \o (Only(first, Events) \o Only(rest, Events)) =
          (down \o Only(first, Events)) \o Only(rest, Events)
    <3> DEFINE a == Only(first, Events)
               b == Only(rest, Events)
    <3>1. down \in Seq(Events) /\ a \in Seq(Events) /\ b \in Seq(Events)
      BY <1>0, <1>12 DEF down
    <3> HIDE DEF a, b
    <3>2. \A x, y, z \in Seq(Events) : x \o (y \o z) = (x \o y) \o z
      BY SMTT(30), ThreeParts
    <3>3. down \o (a \o b) = (down \o a) \o b
      BY <3>1, <3>2
    <3> QED
      BY <3>3 DEF a, b
  <2> QED
    BY <1>12, <2>2, <2>3
<1>14. BufferInv'
  <2>1. ASSUME NEW fd \in DOMAIN clients, NEW d \in Conns, Conn(fd) = d PROVE Provided(fd, d)'
    <3>1. CASE fd = at
      <4>1. d = c /\ clients'[fd].send_buf = rest
        BY <1>6, <2>1, <3>1
      <4>2. TheFeed!Heard(c)' = TheFeed!Heard(c)
        BY HeardSame
      <4> QED
        BY <1>5, <1>11, <1>13, <4>1, <4>2 DEF Provided
    <3>2. CASE fd # at
      <4>1. d # c /\ clients'[fd].send_buf = clients[fd].send_buf /\ Provided(fd, d)
        BY <1>1, <1>6, <2>1, <3>2 DEF BufferInv
      <4> QED
        BY <1>5, <1>11, <4>1, ProvidedStays
    <3> QED
      BY <3>1, <3>2
  <2> QED
    BY <1>6, <2>1 DEF BufferInv, Conn
<1>15. SamePhase(Conns)
  <2>1. ASSUME NEW d \in Conns PROVE Phase(d)' = Phase(d)
    <3>1. /\ Phase(d) = IF net[d].status \in {"none", "queued"} THEN "out"
                       ELSE IF net[d].status = "open" THEN "entered"
                       ELSE IF Logged(d, "left") THEN "done" ELSE "gone"
          /\ Phase(d)' = IF net'[d].status \in {"none", "queued"} THEN "out"
                        ELSE IF net'[d].status = "open" THEN "entered"
                        ELSE IF Logged(d, "left")' THEN "done" ELSE "gone"
      BY <1>0, <1>5, <1>9, <1>10, LoopPhase
    <3> QED
      BY <1>5, <3>1, LoggedSame
  <2> QED
    BY <2>1 DEF SamePhase
<1>16. Phase(c) = "entered"
  BY <1>0, <1>1, LoopPhase
<1>17. Promised
  <2>1. SameDown(Conns \ {c})
    BY <1>5 DEF SameDown
  <2>2. CASE Alive(c)
    <3> HIDE DEF ReactorState, ReactorInv
    <3>1. TheFeed!Heard(c) = (net[c].down \o Only(first, Events)) \o Only(rest, Events)
      BY <1>13, <2>2 DEF down
    <3>2. net'[c].down = net[c].down \o Only(first, Events)
      BY <1>5, <2>2 DEF down
    <3> QED
      BY <1>0, <1>12, <1>15, <1>16, <2>1, <3>1, <3>2, FeedHears DEF Promised
  <2>3. CASE ~Alive(c)
    <3>1. SameDown(Conns)
      BY <1>5, <2>1, <2>3 DEF SameDown, down
    <3> QED
      BY <1>15, <3>1, FeedStutters DEF Promised
  <2> QED
    BY <2>2, <2>3
<1> QED
  BY <1>7, <1>8, <1>9, <1>10, <1>14, <1>17 DEF Stays

LEMMA WriteKeeps ==
  ASSUME ReactorState, server' = server, Write
  PROVE  Stays /\ Promised
<1>0. pc = "write" /\ net \in Sockets
  BY DEF Write, ReactorState, SocketsInv
<1>1. PICK c \in Conns : c = Conn(at)
  BY <1>0, ServedIs
<1> DEFINE buf == clients[at].send_buf
           take == IF Alive(c) /\ Room(c) < Len(buf) THEN Room(c) ELSE Len(buf)
<1>2. CASE Drop
  <2>1. Closed /\ Served /\ since' = since /\ log' = log /\ clients' = Erase(clients, at)
    BY <1>2 DEF Drop
  <2> QED
    BY <1>0, <1>1, <2>1, ClosingKeeps
<1>3. CASE UNCHANGED <<net, clients>> /\ Served /\ UNCHANGED <<log, since>>
  <2>1. LoopType'
    <3>1. DOMAIN ready' \subseteq DOMAIN ready /\ pc' = "serve"
      BY <1>3 DEF Served, Erase
    <3> QED
      BY <1>3, <3>1 DEF ReactorState, ReactorInv, LoopType
  <2>2. \A d \in Conns : Alive(d)' => Alive(d)
    BY <1>3 DEF Alive
  <2> QED
    BY <1>0, <1>3, <2>1, <2>2, LoopMoves
<1>4. CASE /\ net' = Sent(c, SubSeq(buf, 1, take))
           /\ clients' = [clients EXCEPT ![at].send_buf = Unsent(@, take)]
           /\ Served /\ UNCHANGED <<log, since>>
  <2>1. buf \in Seq(Notes)
    BY <1>0, ServedIs
  <2>2. Room(c) \in Nat
    BY <1>0, ConnsFacts DEF Sockets, Room
  <2>3. take \in 0 .. Len(buf) /\ (Alive(c) => take <= Room(c))
    BY <2>1, <2>2
  <2> HIDE DEF take
  <2> QED
    BY <1>0, <1>1, <1>4, <2>3, SendingKeeps
<1> QED
  BY <1>1, <1>2, <1>3, <1>4 DEF Write

(* The clients, and both programs together. *)

LEMMA ClientStepKeeps ==
  ASSUME Inv, NEW c \in Conns, Client(ClientStep(c))
  PROVE  Inv' /\ Promised
<1>1. /\ SocketsInv' /\ log' = log /\ since' = since
      /\ \A d \in Conns : /\ net'[d].status = net[d].status /\ net'[d].down = net[d].down
                          /\ Alive(d)' => Alive(d)
  BY ClientKeeps DEF Inv, Client
<1>2. server' = server /\ UNCHANGED threadedVars /\ UNCHANGED reactorVars
  BY DEF Client
<1>3. CASE server = "threaded"
  <2>1. ThreadedInv
    BY <1>3 DEF Inv
  <2>2. ThreadedInv'
    BY <1>1, <1>2, <2>1, ThreadedKeeps
  <2>3. SamePhase(Conns)
    <3>1. ASSUME NEW d \in Conns PROVE Phase(d)' = Phase(d)
      <4>1. /\ Phase(d) = PhaseAt(thread[d].pc, g_mutex.by = d)
            /\ Phase(d)' = PhaseAt(thread'[d].pc, g_mutex'.by = d)
        BY <1>2, <1>3, <2>1, <2>2, ThreadPhase DEF ThreadedInv
      <4> QED
        BY <1>2, <4>1 DEF threadedVars
    <3> QED
      BY <3>1 DEF SamePhase
  <2>4. UNCHANGED TheFeed!vars
    BY <1>1, <2>3, FeedStutters DEF SameDown
  <2> QED
    BY <1>1, <1>2, <1>3, <2>2, <2>4 DEF Inv, Promised
<1>4. CASE server = "reactor"
  <2>1. ReactorState
    BY <1>4 DEF Inv, ReactorState
  <2>2. UNCHANGED <<pc, at, gone, ready, clients>>
    BY <1>2 DEF reactorVars
  <2>3. LoopType'
    BY <2>1, <2>2 DEF ReactorState, ReactorInv, LoopType
  <2>4. net' \in Sockets
    BY <1>1 DEF SocketsInv
  <2>5. Stays /\ Promised
    BY <1>1, <1>2, <2>1, <2>2, <2>3, <2>4, LoopMoves
  <2> QED
    BY <1>2, <1>4, <2>5 DEF Inv, Stays
<1> QED
  BY <1>3, <1>4 DEF Inv

LEMMA ConnectKeeps ==
  ASSUME Inv, NEW c \in Conns, Client(server = "reactor" /\ Connect(c))
  PROVE  Inv' /\ Promised
<1>1. ReactorState /\ server' = server /\ UNCHANGED reactorVars
  BY DEF Client, Inv, ReactorState
<1>2. UNCHANGED <<pc, at, gone, ready, clients>>
  BY <1>1 DEF reactorVars
<1>3. LoopType'
  BY <1>1, <1>2 DEF ReactorState, ReactorInv, LoopType
<1>4. net[c].status = "none"
  BY NextConnection DEF Client, Connect
<1>5. net \in Sockets /\ net' = [net EXCEPT ![c].status = "queued"] /\ UNCHANGED <<log, since>>
  BY DEF Client, Connect, Inv, SocketsInv
<1>6. net' \in Sockets
  BY <1>5 DEF Sockets
<1>7. \A d \in Conns : /\ net'[d].down = net[d].down /\ (Alive(d)' => Alive(d))
                       /\ \/ net'[d].status = net[d].status
                          \/ net[d].status = "none" /\ net'[d].status = "queued"
  BY <1>4, <1>5 DEF Sockets, Alive
<1>8. Stays /\ Promised
  BY <1>1, <1>2, <1>3, <1>5, <1>6, <1>7, LoopMoves
<1> QED
  BY <1>1, <1>8 DEF Inv, Stays, ReactorState

LEMMA ThreadedStepKeeps ==
  ASSUME Inv, Threaded(ThreadedNext)
  PROVE  Inv' /\ Promised
<1>1. ThreadedState /\ server' = server /\ ThreadedNext
  BY DEF Threaded, Inv, ThreadedState
<1>2. Kept /\ Promised
  <2>1. CASE AcceptThread
    BY <1>1, <2>1, AcceptThreadKeeps
  <2>2. ASSUME NEW c \in Conns, Thread(c) PROVE Kept /\ Promised
    <3>1. CASE Register(c)
      BY <1>1, <3>1, RegisterKeeps
    <3>2. CASE Greet(c) \/ Say(c) \/ Bye(c)
      BY <1>1, <3>2, SpeechKeeps
    <3>3. CASE SendOne(c)
      BY <1>1, <3>3, SendOneKeeps
    <3>4. CASE Hello(c) \/ Recv(c) \/ QuitLine(c) \/ Close(c)
      BY <1>1, <3>4, MovesKeep
    <3>5. CASE Unregister(c)
      BY <1>1, <3>5, UnregisterKeeps
    <3> QED
      BY <2>2, <3>1, <3>2, <3>3, <3>4, <3>5 DEF Thread
  <2> QED
    BY <1>1, <2>1, <2>2 DEF ThreadedNext
<1> QED
  BY <1>1, <1>2 DEF Inv, Kept, ThreadedState

LEMMA ReactorStepKeeps ==
  ASSUME Inv, Reactor(ReactorNext)
  PROVE  Inv' /\ Promised
<1>1. ReactorState /\ server' = server /\ ReactorNext
  BY DEF Reactor, Inv, ReactorState
<1>2. CASE Poll \/ Serve \/ Read
  BY <1>1, <1>2, QuietKeeps DEF Inv, Stays, ReactorState
<1>3. CASE Accept
  BY <1>1, <1>3, AcceptKeeps DEF Inv, Stays, ReactorState
<1>4. CASE Line
  BY <1>1, <1>4, LineKeeps DEF Inv, Stays, ReactorState
<1>5. CASE AfterLines
  BY <1>1, <1>5, AfterLinesKeeps DEF Inv, Stays, ReactorState
<1>6. CASE Write
  BY <1>1, <1>6, WriteKeeps DEF Inv, Stays, ReactorState
<1> QED
  BY <1>1, <1>2, <1>3, <1>4, <1>5, <1>6 DEF ReactorNext

LEMMA StutterKeeps ==
  ASSUME Inv, UNCHANGED vars
  PROVE  Inv' /\ Promised
<1>1. /\ server' = server /\ UNCHANGED <<net, spare, log, since>>
      /\ UNCHANGED <<thread, g_clients, g_mutex>> /\ UNCHANGED <<pc, at, gone, ready, clients>>
  BY DEF vars, netVars, threadedVars, reactorVars
<1>2. \A c : TheFeed!Heard(c)' = TheFeed!Heard(c)
  BY <1>1, HeardSame
<1>3. \A c, what : Logged(c, what)' <=> Logged(c, what)
  BY <1>1, LoggedSame
<1>4. SocketsInv'
  BY <1>1 DEF Inv, SocketsInv
<1>5. CASE server = "threaded"
  <2>1. ThreadedInv /\ ThreadedInv'
    BY <1>1, <1>5, ThreadedKeeps DEF Inv, threadedVars, Alive
  <2>2. SamePhase(Conns)
    <3>1. ASSUME NEW d \in Conns PROVE Phase(d)' = Phase(d)
      <4>1. /\ Phase(d) = PhaseAt(thread[d].pc, g_mutex.by = d)
            /\ Phase(d)' = PhaseAt(thread'[d].pc, g_mutex'.by = d)
        BY <1>1, <1>5, <2>1, ThreadPhase DEF ThreadedInv
      <4> QED
        BY <1>1, <4>1
    <3> QED
      BY <3>1 DEF SamePhase
  <2>3. UNCHANGED TheFeed!vars
    BY <1>1, <2>2, FeedStutters DEF SameDown
  <2> QED
    BY <1>1, <1>4, <1>5, <2>1, <2>3 DEF Inv, Promised
<1>6. CASE server = "reactor"
  <2>1. ReactorState
    BY <1>6 DEF Inv, ReactorState
  <2>2. LoopType' /\ net' \in Sockets
    BY <1>1, <2>1 DEF ReactorState, ReactorInv, LoopType, SocketsInv
  <2>3. \A d \in Conns : Alive(d)' => Alive(d)
    BY <1>1 DEF Alive
  <2>4. Stays /\ Promised
    BY <1>1, <2>1, <2>2, <2>3, LoopMoves
  <2> QED
    BY <1>1, <1>6, <2>4 DEF Inv, Stays
<1> QED
  BY <1>5, <1>6 DEF Inv

LEMMA StepKeeps ==
  ASSUME Inv, [Next]_vars
  PROVE  Inv' /\ Promised
<1>1. ASSUME NEW c \in Conns, Client(ClientStep(c)) PROVE Inv' /\ Promised
  BY <1>1, ClientStepKeeps
<1>2. ASSUME NEW c \in Conns, Client(server = "reactor" /\ Connect(c)) PROVE Inv' /\ Promised
  BY <1>2, ConnectKeeps
<1>3. CASE Threaded(ThreadedNext)
  BY <1>3, ThreadedStepKeeps
<1>4. CASE Reactor(ReactorNext)
  BY <1>4, ReactorStepKeeps
<1>5. CASE UNCHANGED vars
  BY <1>5, StutterKeeps
<1> QED
  BY <1>1, <1>2, <1>3, <1>4, <1>5 DEF Next

LEMMA StartHolds ==
  ASSUME Init
  PROVE  Inv /\ TheFeed!Init
<1>1. /\ net = [c \in Conns |-> [status |-> "none", end |-> "no", up |-> <<>>,
                                 down |-> <<>>, unread |-> 0]]
      /\ log = <<>> /\ since = [c \in Conns |-> 0] /\ server \in {"threaded", "reactor"}
  BY DEF Init, InitSockets
<1>2. /\ thread = [c \in Conns |-> [pc |-> "none", fd |-> NoFd, acc |-> <<>>]]
      /\ g_clients = <<>> /\ g_mutex = Free
  BY DEF Init, InitThreaded
<1>3. pc = "poll" /\ ready = <<>> /\ clients = <<>> /\ DOMAIN <<>> = {} /\ ToSet(<<>>) = {}
  BY DEF Init, InitReactor, ToSet
<1>4. SocketsInv
  <2>1. 0 \in 0 .. SocketRoom
    BY ConnsFacts
  <2>2. net \in Sockets
    <3>1. <<>> \in Seq(Spoken) /\ <<>> \in Seq(Events)
      OBVIOUS
    <3> QED
      BY <1>1, <2>1, <3>1 DEF Sockets
  <2> QED
    BY <1>1, <2>2 DEF SocketsInv
<1>5. \A c, what : ~Logged(c, what)
  BY <1>1, <1>3 DEF Logged
<1>6. Open = {}
  BY <1>1 DEF Open
<1>7. ThreadedInv
  <2>1. ThreadType
    <3>1. <<>> \in Seq(Spoken) /\ <<>> \in Seq(Fds)
      OBVIOUS
    <3> QED
      BY <1>2, <3>1 DEF ThreadType, Early
  <2>2. StatusInv /\ FdInv
    BY <1>1, <1>2, <1>6 DEF StatusInv, FdInv
  <2>3. ListInv
    <3>1. {c \in Conns : thread[c].pc \in InList} = {}
      BY <1>2 DEF InList
    <3> QED
      BY <1>2, <1>3, <3>1, FreeIs DEF ListInv
  <2>4. MutexInv
    BY <1>2 DEF MutexInv
  <2>5. AnnouncedInv
    <3>1. Free.by \notin Conns
      BY FreeIs, ConnsFacts
    <3> QED
      BY <1>2, <1>5, <3>1 DEF AnnouncedInv, Announced, Ended
  <2>6. HeardInv
    BY <1>1, <1>2 DEF HeardInv, InList
  <2> QED
    BY <2>1, <2>2, <2>3, <2>4, <2>5, <2>6 DEF ThreadedInv
<1>8. ReactorInv
  <2>1. LoopType
    BY <1>3 DEF LoopType
  <2>2. MapInv /\ BufferInv
    BY <1>3, <1>6 DEF MapInv, BufferInv
  <2>3. MembersInv
    BY <1>1, <1>5 DEF MembersInv
  <2> QED
    BY <2>1, <2>2, <2>3 DEF ReactorInv
<1>9. TheFeed!Init
  <2>1. \A c \in Conns : Phase(c) = "out"
    BY <1>2, <1>3, <1>5 DEF Phase, Listed
  <2> QED
    BY <1>1, <2>1 DEF TheFeed!Init
<1> QED
  BY <1>1, <1>4, <1>7, <1>8, <1>9 DEF Inv
-----------------------------------------------------------------------------
\* What is true of both programs between any two steps.
THEOREM Invariance == Spec => []Inv
<1>1. Init => Inv
  BY StartHolds
<1>2. Inv /\ [Next]_vars => Inv'
  BY StepKeeps
<1> QED
  BY <1>1, <1>2, PTL DEF Spec

(***************************************************************************)
(* Both programs keep what Feed promises: one conversation, which everyone *)
(* hears in its order from their joining on and without their own lines;   *)
(* a thread that sends under the mutex to whoever is on the list           *)
(* (threaded_chat_server.cpp:39-46) and a loop that fills everyone's       *)
(* send_buf (reactor_chat_server.cpp:42-48) come to the same.              *)
(***************************************************************************)
THEOREM OneConversation == Spec => ImplementsFeed
<1>1. Init => Inv /\ TheFeed!Init
  BY StartHolds
<1>2. Inv /\ [Next]_vars => Inv' /\ [TheFeed!Next]_TheFeed!vars
  BY StepKeeps DEF Promised
<1> QED
  BY <1>1, <1>2, PTL DEF Spec, ImplementsFeed, TheFeed!Spec

(***************************************************************************)
(* The threaded server's list has one entry for each registered thread,    *)
(* and the descriptor in it belongs to nobody else, although descriptors   *)
(* are used again (threaded_chat_server.cpp:48-59, 97-98).                 *)
(***************************************************************************)
THEOREM Descriptors == Spec => []EntriesOwnTheirDescriptors
<1>1. ASSUME Inv PROVE EntriesOwnTheirDescriptors
  <2> DEFINE listed == {c \in Conns : Listed(c)}
  <2>1. SUFFICES ASSUME server = "threaded"
                 PROVE  /\ ToSet(g_clients) = {thread[c].fd : c \in listed}
                        /\ Len(g_clients) = Cardinality(listed)
                        /\ \A c \in listed : Owner(thread[c].fd) = {c}
    BY DEF EntriesOwnTheirDescriptors
  <2>2. ThreadedInv
    BY <1>1, <2>1 DEF Inv
  <2>3. listed = {c \in Conns : thread[c].pc \in InList}
    BY <2>1 DEF Listed, InList
  <2>4. \A c \in listed : c \in Open
    BY <2>2, <2>3 DEF ThreadedInv, StatusInv, Open, InList, Early, Ended
  <2>5. ToSet(g_clients) = {thread[c].fd : c \in listed}
    BY <2>2, <2>3 DEF ThreadedInv, ListInv
  <2>6. \A c \in listed : Owner(thread[c].fd) = {c}
    <3>1. \A c, d \in Open : thread[c].fd = thread[d].fd => c = d
      BY <2>2 DEF ThreadedInv, FdInv
    <3> QED
      BY <2>4, <3>1 DEF Owner, Open
  <2>7. Len(g_clients) = Cardinality(listed)
    <3> DEFINE entries == ToSet(g_clients)
               f == [c \in listed |-> thread[c].fd]
    <3>1. f \in Bijection(listed, entries)
      <4>1. \A c, d \in listed : thread[c].fd = thread[d].fd => c = d
        BY <2>2, <2>4 DEF ThreadedInv, FdInv
      <4>2. f \in [listed -> entries]
        BY <2>5
      <4> HIDE DEF listed, entries
      <4>3. \A x \in entries : \E c \in listed : f[c] = x
        BY <2>5 DEF entries
      <4> QED
        BY <4>1, <4>2, <4>3 DEF Bijection, Injection, Surjection, IsInjective
    <3>2. g_clients \in Seq(Fds) /\ Once(g_clients)
      BY <2>2 DEF ThreadedInv, ThreadType, ListInv
    <3>3. g_clients \in Bijection(1 .. Len(g_clients), entries)
      <4>1. g_clients \in [1 .. Len(g_clients) -> entries]
        BY <3>2 DEF ToSet
      <4>2. \A x \in entries : \E i \in 1 .. Len(g_clients) : g_clients[i] = x
        BY <3>2 DEF ToSet
      <4> QED
        BY <3>2, <4>1, <4>2 DEF Once, Bijection, Injection, Surjection, IsInjective
    <3>4. Len(g_clients) \in Nat
      BY <3>2
    <3>5. /\ IsFiniteSet(1 .. Len(g_clients))
          /\ Cardinality(1 .. Len(g_clients)) = Len(g_clients)
      <4>1. ASSUME NEW k \in Nat PROVE IsFiniteSet(1 .. k) /\ Cardinality(1 .. k) = k
        BY FS_Interval
      <4> QED
        BY <3>4, <4>1
    <3>6. IsFiniteSet(listed)
      BY ConnsFacts, FS_Subset
    <3> HIDE DEF listed, entries, f
    <3>7. Cardinality(entries) = Len(g_clients)
      BY <3>3, <3>5, FS_Bijection DEF ExistsBijection
    <3>8. Cardinality(entries) = Cardinality(listed)
      BY <3>1, <3>6, FS_Bijection DEF ExistsBijection
    <3> QED
      BY <3>7, <3>8
  <2> QED
    BY <2>5, <2>6, <2>7
<1> QED
  BY <1>1, Invariance, PTL
=============================================================================
