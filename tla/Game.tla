-------------------------------- MODULE Game --------------------------------
(***************************************************************************)
(* demo-rpg: the commands of game.cpp on a world and a player, the save    *)
(* slots on disk, and what happens to the files from outside: the world    *)
(* file is edited between two loads, a slot is damaged or comes from       *)
(* another copy of the game, the process is killed.                        *)
(***************************************************************************)
EXTENDS SaveManager

CONSTANTS
  WorldTexts,  \* the versions of data/world.txt; the first is the one at hand
  Slots,       \* names of save slots
  Foreign,     \* bodies of saves that some other copy of the game wrote
  Verbs,       \* first words of a command other than save, load and quit
  Words,       \* what follows the verb in a command
  MaxEdits     \* bound: changes to the files from outside

\* The fields of a line, and of a save, are text and numbers.
Text == Seq(STRING)
ItemFields == [kind : STRING, name : Text, extra : Int]
LineFields == [key : STRING, id : Text, dir : Text, to : Text, item : ItemFields]

ASSUME GameAssumption ==
  /\ WorldTexts \in Seq([there : BOOLEAN, lines : Seq(LineFields)]) /\ WorldTexts # <<>>
  /\ \A b \in Foreign : /\ b.name \in Text /\ {b.hp, b.max} \subseteq Int
                        /\ b.inv \in Seq(ItemFields)
                        /\ \A id \in DOMAIN b.wloc : b.wloc[id] \in Seq(ItemFields)
  /\ MaxEdits \in Nat

VARIABLES
  running,  \* the process is in Game::run
  code,     \* what main returned last
  text,     \* data/world.txt
  world, player, loc,
  slots,    \* data/saves
  said,     \* what the last command reported, as far as save and load go
  ledger,   \* history: the items that should exist
  edits     \* number of changes from outside

vars == <<running, code, text, world, player, loc, slots, said, ledger, edits>>

Glade == <<"glade">>
Nobody == [name |-> <<"hero">>, hp |-> 20, max |-> 20, inv |-> <<>>]

\* was and due are history: what the game looked like when it wrote the slot.
Slot(state, body, mine, was, due) ==
  [state |-> state, body |-> body, mine |-> mine, was |-> was, due |-> due]
Snapshot == [player |-> player, loc |-> loc, ground |-> [id \in DOMAIN world |-> world[id].items]]

\* A slot whose body nobody will read: it is not there or fails its checksum.
Unreadable(state) ==
  Slot(state, Body(Nobody, <<>>, Glade), FALSE,
       [player |-> Nobody, loc |-> Glade, ground |-> <<>>], EmptyBag)

AllItems(p, w) == FoldSet(LAMBDA id, b : b (+) BagOf(w[id].items), BagOf(p.inv), DOMAIN w)

(***************************************************************************)
(* The items a world file describes: those of the first block of each id.  *)
(***************************************************************************)
DescribedItems(lines) ==
  LET Heading(i) == SelectLastInSeq(SubSeq(lines, 1, i), LAMBDA l : l.key = "location")
      FirstOf(i) == SelectInSeq(lines, LAMBDA l : l.key = "location" /\ l.id = lines[Heading(i)].id)
      idx == {i \in DOMAIN lines : lines[i].key = "item" /\ Heading(i) = FirstOf(i)}
  IN  FoldSet(LAMBDA i, b : BagAdd(b, [lines[i].item EXCEPT !.name = Unescape(@)]),
              EmptyBag, idx)

Init ==
  /\ running = FALSE /\ code = 0 /\ text = WorldTexts[1] /\ world = <<>> /\ player = Nobody
  /\ loc = Glade /\ said = "nothing" /\ ledger = EmptyBag /\ edits = 0
  /\ slots = [s \in Slots |-> Unreadable("absent")]
----------------------------------------------------------------------------
Start ==
  /\ ~running
  /\ LET fresh == LoadWorld(text) IN
     \/ /\ fresh.ok
        /\ running' = TRUE /\ world' = fresh.world /\ player' = Nobody /\ loc' = Glade
        /\ ledger' = DescribedItems(text.lines)
        /\ UNCHANGED code
     \/ /\ ~fresh.ok
        /\ code' = 1
        /\ UNCHANGED <<running, world, player, loc, ledger>>
  /\ said' = "nothing"
  /\ UNCHANGED <<text, slots, edits>>

\* The process is gone, and with it what it had in memory.
Exits(c) ==
  /\ running' = FALSE /\ code' = c /\ said' = "nothing"
  /\ world' = <<>> /\ player' = Nobody /\ loc' = Glade /\ ledger' = EmptyBag

CmdGo(direction) ==
  /\ loc \in DOMAIN world /\ direction \in DOMAIN world[loc].exits
  /\ loc' = world[loc].exits[direction]
  /\ UNCHANGED <<world, player, ledger, slots>>

CmdTake(name) ==
  /\ loc \in DOMAIN world /\ Has(world[loc].items, name)
  /\ world' = [world EXCEPT ![loc].items = Without(@, name)]
  /\ player' = [player EXCEPT !.inv = Append(@, world[loc].items[Find(world[loc].items, name)])]
  /\ UNCHANGED <<loc, ledger, slots>>

\* In the void the item is destroyed.
CmdDrop(name) ==
  LET it == player.inv[Find(player.inv, name)] IN
  /\ Has(player.inv, name)
  /\ player' = [player EXCEPT !.inv = Without(@, name)]
  /\ \/ /\ loc \in DOMAIN world
        /\ world' = [world EXCEPT ![loc].items = Append(@, it)]
        /\ UNCHANGED ledger
     \/ /\ loc \notin DOMAIN world
        /\ ledger' = BagRemove(ledger, it)
        /\ UNCHANGED world
  /\ UNCHANGED <<loc, slots>>

Heal(p, amount) == [p EXCEPT !.hp = Clamp(@ + IF amount < 0 THEN 0 ELSE amount, p.max)]

\* The first item of that name is looked at, and the first of that name goes.
CmdUse(name) ==
  LET it == player.inv[Find(player.inv, name)] IN
  /\ Has(player.inv, name) /\ it.kind = "consumable"
  /\ player' = [Heal(player, it.extra) EXCEPT !.inv = Without(@, name)]
  /\ ledger' = BagRemove(ledger, it)
  /\ UNCHANGED <<world, loc, slots>>

\* Anything that only prints, every command that is refused, an empty line.
CmdNoEffect == UNCHANGED <<world, player, loc, ledger, slots>>

Aliases == [l |-> "look", i |-> "inventory", inv |-> "inventory", stat |-> "status",
            get |-> "take", q |-> "quit", exit |-> "quit"]

\* CommandRegistry::dispatch: one alias deep, then the handler of that name.
Resolved(verb) == IF verb \in DOMAIN Aliases THEN Aliases[verb] ELSE verb

Dispatch(verb, rest) ==
  \/ Resolved(verb) = "go" /\ CmdGo(rest)
  \/ Resolved(verb) = "take" /\ CmdTake(rest)
  \/ Resolved(verb) = "drop" /\ CmdDrop(rest)
  \/ Resolved(verb) = "use" /\ CmdUse(rest)
  \/ CmdNoEffect

Step ==
  /\ running
  /\ \E verb \in Verbs, rest \in Words : Dispatch(verb, rest)
  /\ said' = "nothing"
  /\ UNCHANGED <<running, code, text, edits>>

\* operator<< and the destructor of out report nothing: with a full disk the
\* slot is torn and the player reads that it was saved.
CmdSave(s) ==
  /\ running
  /\ \/ /\ slots' = [slots EXCEPT ![s] =
                       Slot("whole", Body(player, world, loc), TRUE, Snapshot, ledger)]
        /\ said' = "saved"
     \/ slots' = [slots EXCEPT ![s] = Unreadable("torn")] /\ said' = "saved"
     \/ UNCHANGED slots /\ said' = "save_failed"
  /\ UNCHANGED <<running, code, text, world, player, loc, ledger, edits>>

CmdLoad(s) ==
  LET fresh == LoadWorld(text)
      r == Read(slots[s], player, fresh.world, loc)
  IN  /\ running
      /\ \/ /\ fresh.ok /\ r.how = "ok"
            /\ world' = r.world /\ player' = r.player /\ loc' = r.loc
            /\ ledger' = slots[s].due
            /\ said' = "loaded"
            /\ UNCHANGED <<running, code>>
         \/ /\ fresh.ok /\ r.how = "error"
            /\ player' = r.player /\ loc' = r.loc
            /\ said' = "load_failed"
            /\ UNCHANGED <<running, code, world, ledger>>
         \/ /\ ~fresh.ok
            /\ said' = "load_failed"
            /\ UNCHANGED <<running, code, world, player, loc, ledger>>
         \/ fresh.ok /\ r.how = "escapes" /\ Exits(2)
      /\ UNCHANGED <<text, slots, edits>>

\* quit, or the end of the input.
Quit == running /\ Exits(0) /\ UNCHANGED <<text, slots, edits>>

\* Killed, at the prompt or in the middle of writing a slot.
Kill ==
  /\ running
  /\ Exits(137)
  /\ \/ UNCHANGED slots
     \/ \E s \in Slots : slots' = [slots EXCEPT ![s] = Unreadable("torn")]
  /\ UNCHANGED <<text, edits>>
----------------------------------------------------------------------------
(* From outside. *)

EditWorld ==
  /\ edits < MaxEdits /\ edits' = edits + 1
  /\ text' \in Range(WorldTexts) \ {text}
  /\ UNCHANGED <<running, code, world, player, loc, slots, said, ledger>>

DamageSlot(s) ==
  /\ edits < MaxEdits /\ edits' = edits + 1
  /\ slots[s].state = "whole"
  /\ \E state \in {"torn", "edited", "badhex"} : 
       slots' = [slots EXCEPT ![s] = Unreadable(state)]
  /\ UNCHANGED <<running, code, text, world, player, loc, said, ledger>>

BodyItems(b) == FoldSet(LAMBDA id, bag : bag (+) BagOf(Pretty(b.wloc[id])),
                        BagOf(Pretty(b.inv)), DOMAIN b.wloc)

BringSlot(s) ==
  /\ edits < MaxEdits /\ edits' = edits + 1
  /\ \E b \in Foreign : slots' = [slots EXCEPT ![s] =
       [Unreadable("whole") EXCEPT !.body = b, !.due = BodyItems(b)]]
  /\ UNCHANGED <<running, code, text, world, player, loc, said, ledger>>

Next ==
  \/ Start \/ Step \/ Quit \/ Kill \/ EditWorld
  \/ \E s \in Slots : CmdSave(s) \/ CmdLoad(s) \/ DamageSlot(s) \/ BringSlot(s)

Spec == Init /\ [][Next]_vars
----------------------------------------------------------------------------

(***************************************************************************)
(* Nothing is lost, doubled or made up: what the player carries and what   *)
(* lies around are the items the world file described, less those used or  *)
(* dropped in the void; after a load, the items of the moment of the save  *)
(* (inventory.cpp:13-24, game.cpp:172-198, 224-235, save_manager.cpp:      *)
(* 200-212).                                                               *)
(***************************************************************************)
ItemsConserved == running => AllItems(player, world) = ledger

(***************************************************************************)
(* A load that fails leaves the player, the world and the place as they    *)
(* were (docs/tutorial/24-rpg-save-load.md:323 calls it the strong         *)
(* exception guarantee).                                                   *)
(***************************************************************************)
LoadIsAllOrNothing ==
  [][running' /\ said' = "load_failed" => UNCHANGED <<world, player, loc, ledger>>]_vars

(***************************************************************************)
(* Whatever happened since, a slot this game wrote and nobody damaged      *)
(* reads back as the state it was written from, as long as the world file  *)
(* still has the places it speaks of (save_manager.cpp:80-108, 110-214).   *)
(***************************************************************************)
SavesAreFaithful ==
  \A s \in Slots :
    LET was == slots[s].was
        fresh == LoadWorld(text)
        r == Read(slots[s], Nobody, fresh.world, Glade)
        used == {id \in DOMAIN was.ground : was.ground[id] # <<>>} \cup {was.loc}
    IN  slots[s].mine /\ slots[s].state = "whole" /\ fresh.ok /\ used \subseteq DOMAIN fresh.world
        => /\ r.how = "ok" /\ r.player = was.player /\ r.loc = was.loc
           /\ \A id \in DOMAIN r.world :
                r.world[id].items = IF id \in DOMAIN was.ground THEN was.ground[id] ELSE <<>>

(***************************************************************************)
(* In a world whose exits all lead somewhere and that has the glade the    *)
(* player is always somewhere, after loads too (game.cpp:140-151, 210-222; *)
(* save_manager.cpp:193-195).                                              *)
(***************************************************************************)
NeverInTheVoid ==
  LET closed == \A id \in DOMAIN world : ToSet(world[id].exits) \subseteq DOMAIN world
  IN  running /\ closed /\ Glade \in DOMAIN world => loc \in DOMAIN world
=============================================================================
