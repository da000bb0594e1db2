---------------------------- MODULE WorldParser ----------------------------
(***************************************************************************)
(* The world of demo-rpg and the file it is read from (world_parser.cpp,   *)
(* world.cpp, location.cpp, inventory.cpp).  A world maps the id of a      *)
(* location to its exits and the items on its ground, in order.            *)
(*                                                                         *)
(* A line of the file is a record of the fields its keyword reads; a field *)
(* that the line lacks is <<>>; empty lines and comments are no lines.  A  *)
(* name is a sequence in which " " and "_" are themselves and every other  *)
(* word stands for its letters.  Weights and descriptions are only printed *)
(* and are left out.                                                       *)
(***************************************************************************)
EXTENDS Naturals, Sequences, Bags, BagsExt, FiniteSetsExt, SequencesExt

Kinds == {"weapon", "armor", "consumable"}
Blank == " "
Underscore == "_"
Unescape(s) == [i \in DOMAIN s |-> IF s[i] = Underscore THEN Blank ELSE s[i]]

(* Inventories. *)

Find(inv, name) == SelectInSeq(inv, LAMBDA it : it.name = name)
Has(inv, name) == Find(inv, name) # 0

Without(inv, name) == RemoveAt(inv, Find(inv, name))

BagOf(inv) == FoldLeft(LAMBDA b, it : BagAdd(b, it), EmptyBag, inv)

(* The file. *)

Put(f, key, val) == [k \in DOMAIN f \cup {key} |-> IF k = key THEN val ELSE f[k]]

NoDraft == [id |-> <<>>, exits |-> <<>>, items |-> <<>>]

\* World::add keeps the location that has the id already.
AddLocation(world, draft) ==
  IF draft.id \in DOMAIN world THEN world
  ELSE Put(world, draft.id, [exits |-> draft.exits, items |-> draft.items])

Commit(s) ==
  [s EXCEPT !.draft = NoDraft,
            !.world = IF s.draft.id = <<>> THEN @ ELSE AddLocation(@, s.draft)]

ParseLine(s, l) ==
  LET Bad == [s EXCEPT !.ok = FALSE] IN
  IF ~s.ok THEN s
  ELSE IF l.key = "location"
  THEN IF l.id = <<>> THEN Bad ELSE [Commit(s) EXCEPT !.draft.id = l.id]
  ELSE IF s.draft.id = <<>> THEN Bad
  ELSE CASE l.key \in {"name", "desc"} -> s
         [] l.key = "exit" -> IF <<>> \in {l.dir, l.to} THEN Bad
                              ELSE [s EXCEPT !.draft.exits = Put(@, l.dir, l.to)]
         [] l.key = "item" -> IF l.item.kind \notin Kinds \/ l.item.name = <<>> THEN Bad
                              ELSE [s EXCEPT !.draft.items =
                                      Append(@, [l.item EXCEPT !.name = Unescape(@)])]
         [] OTHER -> Bad

NoLines == [ok |-> TRUE, world |-> <<>>, draft |-> NoDraft]

\* A file that is not there and one with a bad line are both a WorldError.
LoadWorld(text) ==
  LET s == FoldLeft(ParseLine, NoLines, text.lines)
  IN  [ok |-> text.there /\ s.ok, world |-> Commit(s).world]
=============================================================================
