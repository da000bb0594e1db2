------------------------------ MODULE ChatRooms ------------------------------
(***************************************************************************)
(* What a chat with rooms promises, without sockets, frames or buffers: a  *)
(* member is in one room or in none, what one member says reaches exactly  *)
(* the others in that room, in one order, and every arrival and departure  *)
(* is announced to exactly those who are there.  RoomsServer.tla           *)
(* implements this module.                                                 *)
(***************************************************************************)
EXTENDS SequencesExt

CONSTANTS Members,   \* everyone who may ever take part
          Names,     \* names of rooms
          Texts,     \* what can be said
          NoRoom,    \* in no room
          Gone       \* no longer taking part

VARIABLES place,     \* where each member is
          heard      \* what each member is told, in order

vars == <<place, heard>>

Notes == [kind : {"entered", "left"}, by : Members, about : Names]
           \cup [kind : {"message"}, by : Members, about : Texts]
Note(kind, c, about) == [kind |-> kind, by |-> c, about |-> about]

TypeOK ==
  /\ place \in [Members -> Names \cup {NoRoom, Gone}]
  /\ heard \in [Members -> Seq(Notes)]

Init ==
  /\ place = [m \in Members |-> NoRoom]
  /\ heard = [m \in Members |-> << >>]

Others(c, r) == IF r \in Names THEN {m \in Members \ {c} : place[m] = r} ELSE {}

Tell(who, note, h) == [m \in Members |-> IF m \in who THEN Append(h[m], note) ELSE h[m]]

Leaving(c) == Tell(Others(c, place[c]), Note("left", c, place[c]), heard)

-----------------------------------------------------------------------------
\* c leaves the room it is in, if any, and enters another, or the same again.
Move(c, to) ==
  /\ place[c] # Gone
  /\ place' = [place EXCEPT ![c] = to]
  /\ heard' = Tell(Others(c, to), Note("entered", c, to), Leaving(c))

Say(c, text) ==
  /\ place[c] \in Names
  /\ heard' = Tell(Others(c, place[c]), Note("message", c, text), heard)
  /\ UNCHANGED place

\* c goes for good; of what it was told, the end may never have reached it.
Depart(c) ==
  /\ place[c] # Gone
  /\ place' = [place EXCEPT ![c] = Gone]
  /\ \E n \in 0 .. Len(heard[c]) :
       heard' = [Leaving(c) EXCEPT ![c] = SubSeq(heard[c], 1, n)]

Next ==
  \E c \in Members :
    \/ \E to \in Names \cup {NoRoom} : Move(c, to)
    \/ \E text \in Texts : Say(c, text)
    \/ Depart(c)

Spec == Init /\ [][Next]_vars
=============================================================================
