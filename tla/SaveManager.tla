---------------------------- MODULE SaveManager ----------------------------
(***************************************************************************)
(* The save files of demo-rpg (save_manager.cpp).  A file is its body and  *)
(* what became of it: "whole" is a body under its own checksum, "torn" the *)
(* beginning of one, without the line CHK; "edited" a body whose checksum  *)
(* is another's; "badhex" a line CHK that does not begin with a hex digit. *)
(* junk tells that some line of the body has an unknown key or an item     *)
(* that does not parse.                                                    *)
(***************************************************************************)
EXTENDS WorldParser, Integers

CURRENT_VERSION == 1

Escape(s) == [i \in DOMAIN s |-> IF s[i] = Blank THEN Underscore ELSE s[i]]

\* Slip for Pretty: the names stay as they are in the file.
PrettyRaw(items) == items

Pretty(items) == [i \in DOMAIN items |-> [items[i] EXCEPT !.name = Unescape(@)]]
ItemLines(items) == [i \in DOMAIN items |-> [items[i] EXCEPT !.name = Escape(@)]]

\* A location with nothing on its ground has no line.
Body(player, world, loc) ==
  [ver |-> CURRENT_VERSION, name |-> Escape(player.name), hp |-> player.hp, max |-> player.max,
   loc |-> loc, inv |-> ItemLines(player.inv), junk |-> FALSE,
   wloc |-> [id \in {id \in DOMAIN world : world[id].items # <<>>} |->
               ItemLines(world[id].items)]]

Clamp(hp, max) == IF hp < 0 THEN 0 ELSE IF hp > max THEN max ELSE hp

\* Slip for Applied: the ground is not cleared first.
AppliedOver(b, world) ==
  [player |-> [name |-> Unescape(b.name), hp |-> Clamp(b.hp, b.max), max |-> b.max,
               inv |-> Pretty(b.inv)],
   world |-> [id \in DOMAIN world |->
               [world[id] EXCEPT !.items = @ \o IF id \in DOMAIN b.wloc THEN Pretty(b.wloc[id])
                                                ELSE <<>>]],
   loc |-> b.loc]

\* The second half of read: player, ground and location as the body says.
Applied(b, world) ==
  [player |-> [name |-> Unescape(b.name), hp |-> Clamp(b.hp, b.max), max |-> b.max,
               inv |-> Pretty(b.inv)],
   world |-> [id \in DOMAIN world |->
               [world[id] EXCEPT !.items = IF id \in DOMAIN b.wloc THEN Pretty(b.wloc[id])
                                           ELSE <<>>]],
   loc |-> b.loc]

\* Slip for Fits: the saved location is not looked up.
FitsGround(b, world) == DOMAIN b.wloc \subseteq DOMAIN world

Fits(b, world) == DOMAIN b.wloc \cup {b.loc} \subseteq DOMAIN world

\* The constructor of Player throws otherwise.
ValidPlayer(name, max_hp) == name # <<>> /\ max_hp > 0

\* Slip for Read: the player is replaced before the locations are looked up.
ReadEager(slot, player, world, loc) ==
  LET b == slot.body
      new == Applied(b, world)
      Leave(how, p) == [how |-> how, player |-> p, world |-> world, loc |-> loc]
  IN  IF slot.state # "whole" \/ b.ver # CURRENT_VERSION \/ b.junk THEN Leave("error", player)
      ELSE IF ~Fits(b, world) THEN Leave("error", new.player)
      ELSE [how |-> "ok", player |-> new.player, world |-> new.world, loc |-> new.loc]

\* What the caller's three references hold afterwards, and whether it threw:
\* "error" is a GameError, "escapes" the std::invalid_argument of stoul.
Read(slot, player, world, loc) ==
  LET b == slot.body
      new == Applied(b, world)
      Leave(how) == [how |-> how, player |-> player, world |-> world, loc |-> loc]
  IN  IF slot.state \in {"absent", "torn"} THEN Leave("error")
      ELSE IF slot.state = "badhex" THEN Leave("escapes")
      ELSE IF slot.state = "edited" \/ b.ver # CURRENT_VERSION \/ b.junk THEN Leave("error")
      ELSE IF ~Fits(b, world) \/ ~ValidPlayer(b.name, b.max) THEN Leave("error")
      ELSE [how |-> "ok", player |-> new.player, world |-> new.world, loc |-> new.loc]
=============================================================================
