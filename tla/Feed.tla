-------------------------------- MODULE Feed --------------------------------
(***************************************************************************)
(* What a chat with one room promises, without sockets, locks or buffers:  *)
(* there is one conversation, and everyone hears it in its order, from     *)
(* the moment of joining and without their own lines; someone is announced *)
(* before they say anything, and what is said of them last is that they    *)
(* left.  ThreadedServer and ReactorServer implement this module.          *)
(***************************************************************************)
EXTENDS Naturals, Selection

CONSTANTS Members, Texts

VARIABLES
  log,    \* the conversation
  since,  \* its length when a member joined
  told,   \* what a member was told
  phase   \* "out", "in", "entered", "gone" or "done": announced to have left

vars == <<log, since, told, phase>>

Event(m, what) == [by |-> m, what |-> what]

Init ==
  /\ log = <<>> /\ since = [m \in Members |-> 0]
  /\ told = [m \in Members |-> <<>>] /\ phase = [m \in Members |-> "out"]

\* From a member's place in the conversation on, what others said.
Heard(m) == Only(SubSeq(log, since[m] + 1, Len(log)), {e \in ToSet(log) : e.by # m})

To(m, new) == phase' = [phase EXCEPT ![m] = new]

\* The announcement comes with the joining or later.
Join(m) ==
  /\ phase[m] = "out"
  /\ since' = [since EXCEPT ![m] = Len(log)]
  /\ \/ To(m, "in") /\ UNCHANGED log
     \/ To(m, "entered") /\ log' = Append(log, Event(m, "entered"))
  /\ UNCHANGED told

Announce(m) ==
  /\ phase[m] = "in"
  /\ To(m, "entered") /\ log' = Append(log, Event(m, "entered"))
  /\ UNCHANGED <<since, told>>

Say(m) ==
  /\ phase[m] = "entered"
  /\ \E text \in Texts : log' = Append(log, Event(m, text))
  /\ UNCHANGED <<since, told, phase>>

\* With the announcement, before it, or without any.
Leave(m) ==
  /\ phase[m] = "entered"
  /\ \/ To(m, "gone") /\ UNCHANGED log
     \/ To(m, "done") /\ log' = Append(log, Event(m, "left"))
  /\ UNCHANGED <<since, told>>

Bye(m) ==
  /\ phase[m] = "gone"
  /\ To(m, "done") /\ log' = Append(log, Event(m, "left"))
  /\ UNCHANGED <<since, told>>

Hear(m) ==
  /\ phase[m] \in {"in", "entered"}
  /\ \E k \in Len(told[m]) + 1 .. Len(Heard(m)) :
       told' = [told EXCEPT ![m] = SubSeq(Heard(m), 1, k)]
  /\ UNCHANGED <<log, since, phase>>

Next == \E m \in Members : Join(m) \/ Announce(m) \/ Say(m) \/ Leave(m) \/ Bye(m) \/ Hear(m)

Spec == Init /\ [][Next]_vars
=============================================================================
