----------------------------- MODULE GameProofs -----------------------------
(***************************************************************************)
(* For every world file, save and command: the player never leaves a       *)
(* closed world, a load that fails changes nothing, a slot that the game   *)
(* wrote reads back as what it was written from, and no item is lost or    *)
(* doubled: what lies around and what is carried is what the world file    *)
(* and the save laid, less what was used.                                  *)
(***************************************************************************)
EXTENDS Game, SetInduction, SequenceTheorems, TLAPS

(* Names, as they are in a file and as the game has them. *)

Char == STRING \cup {Blank, Underscore, "hero"}
Word == Seq(Char)
Name == {s \in Word : \A i \in DOMAIN s : s[i] # Underscore}
Fields == [kind : STRING, name : Word, extra : Int]
Item == [kind : STRING, name : Name, extra : Int]

LEMMA MoreLetters ==
  ASSUME NEW A, NEW B, A \subseteq B
  PROVE  \A s \in Seq(A) : s \in Seq(B)
OBVIOUS

LEMMA TextIsWord == Text \subseteq Word /\ Seq(ItemFields) \subseteq Seq(Fields)
<1>1. STRING \subseteq Char
  BY DEF Char
<1> HIDE DEF Char
<1>2. \A s \in Text : s \in Word
  BY <1>1, MoreLetters DEF Text, Word
<1> HIDE DEF Text, Word
<1>3. ItemFields \subseteq Fields
  BY <1>2 DEF ItemFields, Fields
<1> HIDE DEF ItemFields, Fields
<1>4. \A s \in Seq(ItemFields) : s \in Seq(Fields)
  BY <1>3
<1> QED
  BY <1>2, <1>4

LEMMA UnescapeType ==
  ASSUME NEW s \in Word
  PROVE  Unescape(s) \in Name /\ (s # <<>> => Unescape(s) # <<>>)
<1>1. Blank \in Char /\ Blank # Underscore
  BY DEF Char, Blank, Underscore
<1> HIDE DEF Char
<1>2. /\ Unescape(s) \in Seq(Char) /\ Len(Unescape(s)) = Len(s)
      /\ \A i \in DOMAIN Unescape(s) : Unescape(s)[i] # Underscore
  BY <1>1 DEF Unescape, Word
<1> QED
  BY <1>2 DEF Name, Word

LEMMA EscapeType ==
  ASSUME NEW s \in Name
  PROVE  /\ Escape(s) \in Word /\ (s # <<>> => Escape(s) # <<>>)
         /\ Unescape(Escape(s)) = s
<1>1. Underscore \in Char
  BY DEF Char
<1> HIDE DEF Char
<1>2. s \in Seq(Char) /\ \A i \in DOMAIN s : s[i] # Underscore
  BY DEF Name, Word
<1>3. /\ Escape(s) \in Seq(Char) /\ Len(Escape(s)) = Len(s)
      /\ DOMAIN Escape(s) = DOMAIN s
      /\ \A i \in DOMAIN s : Escape(s)[i] = IF s[i] = Blank THEN Underscore ELSE s[i]
  BY <1>1, <1>2 DEF Escape
<1>4. Unescape(Escape(s)) = [i \in DOMAIN s |-> s[i]]
  BY <1>2, <1>3 DEF Unescape
<1>5. s = [i \in DOMAIN s |-> s[i]]
  BY <1>2
<1> QED
  BY <1>2, <1>3, <1>4, <1>5 DEF Word

LEMMA PrettyType ==
  ASSUME NEW items \in Seq(Fields)
  PROVE  Pretty(items) \in Seq(Item)
<1>1. \A i \in DOMAIN items : [items[i] EXCEPT !.name = Unescape(@)] \in Item
  <2> TAKE i \in DOMAIN items
  <2>1. items[i] \in Fields
    OBVIOUS
  <2>2. Unescape(items[i].name) \in Name
    BY <2>1, UnescapeType DEF Fields
  <2> QED
    BY <2>1, <2>2 DEF Fields, Item
<1> HIDE DEF Item, Fields
<1> QED
  BY <1>1 DEF Pretty

LEMMA ItemLinesType ==
  ASSUME NEW items \in Seq(Item)
  PROVE  ItemLines(items) \in Seq(Fields) /\ Pretty(ItemLines(items)) = items
<1> DEFINE line(i) == [items[i] EXCEPT !.name = Escape(@)]
<1>1. \A i \in DOMAIN items : items[i] \in Item
  OBVIOUS
<1>2. \A i \in DOMAIN items : line(i) \in Fields /\ [line(i) EXCEPT !.name = Unescape(@)] = items[i]
  <2> TAKE i \in DOMAIN items
  <2>1. items[i] \in Item
    BY <1>1
  <2>2. Escape(items[i].name) \in Word /\ Unescape(Escape(items[i].name)) = items[i].name
    BY <2>1, EscapeType DEF Item
  <2>3. line(i) \in Fields
    BY <2>1, <2>2 DEF Item, Fields
  <2>4. [line(i) EXCEPT !.name = Unescape(@)] = items[i]
    BY <2>1, <2>2 DEF Item
  <2> QED
    BY <2>3, <2>4
<1>3. ItemLines(items) = [i \in DOMAIN items |-> line(i)]
  BY DEF ItemLines
<1> HIDE DEF line, Item, Fields
<1>4. ItemLines(items) \in Seq(Fields)
  BY <1>2, <1>3
<1>5. Pretty(ItemLines(items)) = [i \in DOMAIN items |-> items[i]]
  BY <1>2, <1>3 DEF Pretty
<1> QED
  BY <1>4, <1>5

-----------------------------------------------------------------------------
(* The world file. *)

\* Finite or not, a map from some of K to L.
Maps(K, L) == UNION {[D -> L] : D \in SUBSET K}

LEMMA MapsType ==
  ASSUME NEW K, NEW L, NEW f \in Maps(K, L)
  PROVE  DOMAIN f \in SUBSET K /\ f \in [DOMAIN f -> L]
BY DEF Maps

LEMMA MapsPut ==
  ASSUME NEW K, NEW L, NEW f \in Maps(K, L), NEW key \in K, NEW val \in L
  PROVE  Put(f, key, val) \in Maps(K, L)
<1>1. DOMAIN f \cup {key} \in SUBSET K /\ f \in [DOMAIN f -> L]
  BY MapsType
<1>2. Put(f, key, val) \in [DOMAIN f \cup {key} -> L]
  BY <1>1 DEF Put
<1> QED
  BY <1>1, <1>2 DEF Maps

LEMMA MapsEmpty ==
  ASSUME NEW K, NEW L
  PROVE  <<>> \in Maps(K, L)
<1>1. <<>> \in [{} -> L] /\ {} \in SUBSET K
  OBVIOUS
<1> QED
  BY <1>1 DEF Maps

Ways == Maps(Text, Text)
Place == [exits : Ways, items : Seq(Item)]
Worlds == Maps(Text, Place)
Draft == [id : Text, exits : Ways, items : Seq(Item)]
Parser == [ok : BOOLEAN, world : Worlds, draft : Draft]

LEMMA CommitType ==
  ASSUME NEW s \in Parser
  PROVE  Commit(s) \in Parser /\ Commit(s).draft = NoDraft
<1>1. NoDraft \in Draft
  BY MapsEmpty DEF NoDraft, Draft, Ways, Text
<1>2. s.world \in Worlds /\ s.draft \in Draft
  BY DEF Parser
<1>3. [exits |-> s.draft.exits, items |-> s.draft.items] \in Place /\ s.draft.id \in Text
  BY <1>2 DEF Draft, Place
<1>4. AddLocation(s.world, s.draft) \in Worlds
  <2>1. Put(s.world, s.draft.id, [exits |-> s.draft.exits, items |-> s.draft.items]) \in Worlds
    BY <1>2, <1>3, MapsPut DEF Worlds
  <2> QED
    BY <1>2, <2>1 DEF AddLocation
<1> QED
  BY <1>1, <1>2, <1>4 DEF Commit, Parser

LEMMA ParseLineType ==
  ASSUME NEW s \in Parser, NEW l \in LineFields
  PROVE  ParseLine(s, l) \in Parser
<1> DEFINE Bad == [s EXCEPT !.ok = FALSE]
           there == [s EXCEPT !.draft.exits = Put(@, l.dir, l.to)]
           lies == [s EXCEPT !.draft.items = Append(@, [l.item EXCEPT !.name = Unescape(@)])]
<1>1. Bad \in Parser
  BY DEF Parser
<1>2. l.id \in Text /\ l.dir \in Text /\ l.to \in Text /\ l.item \in ItemFields
  BY DEF LineFields
<1>3. [Commit(s) EXCEPT !.draft.id = l.id] \in Parser
  <2>1. Commit(s) \in Parser
    BY CommitType
  <2> QED
    BY <1>2, <2>1 DEF Parser, Draft
<1>4. there \in Parser
  <2>1. s.draft.exits \in Ways
    BY DEF Parser, Draft
  <2>2. Put(s.draft.exits, l.dir, l.to) \in Ways
    BY <1>2, <2>1, MapsPut DEF Ways
  <2> QED
    BY <2>2 DEF Parser, Draft
<1>5. lies \in Parser
  <2>1. l.item \in ItemFields /\ l.item.name \in Word
    BY <1>2, TextIsWord DEF ItemFields
  <2>2. [l.item EXCEPT !.name = Unescape(@)] \in Item
    BY <2>1, UnescapeType DEF ItemFields, Item
  <2>3. s.draft.items \in Seq(Item)
    BY DEF Parser, Draft
  <2>4. Append(s.draft.items, [l.item EXCEPT !.name = Unescape(@)]) \in Seq(Item)
    BY <2>2, <2>3
  <2> QED
    BY <2>4 DEF Parser, Draft
<1> HIDE DEF Bad, there, lies
<1>6. \/ ParseLine(s, l) \in {s, Bad, there, lies}
      \/ ParseLine(s, l) = [Commit(s) EXCEPT !.draft.id = l.id]
  <2>1. CASE ~s.ok
    BY <2>1 DEF ParseLine
  <2>2. CASE s.ok /\ l.key = "location"
    BY <2>2 DEF ParseLine, Bad
  <2>3. CASE s.ok /\ l.key # "location" /\ s.draft.id = <<>>
    BY <2>3 DEF ParseLine, Bad
  <2>4. CASE s.ok /\ l.key # "location" /\ s.draft.id # <<>>
    <3>1. CASE l.key \in {"name", "desc"}
      BY <2>4, <3>1 DEF ParseLine
    <3>2. CASE l.key = "exit"
      BY <2>4, <3>2 DEF ParseLine, Bad, there
    <3>3. CASE l.key = "item"
      BY <2>4, <3>3 DEF ParseLine, Bad, lies
    <3>4. CASE l.key \notin {"name", "desc", "exit", "item"}
      BY <2>4, <3>4 DEF ParseLine, Bad
    <3> QED
      BY <3>1, <3>2, <3>3, <3>4
  <2> QED
    BY <2>1, <2>2, <2>3, <2>4
<1> QED
  BY <1>1, <1>3, <1>4, <1>5, <1>6

LEMMA LinesType ==
  ASSUME NEW seq \in Seq(LineFields)
  PROVE  FoldLeft(ParseLine, NoLines, seq) \in Parser
<1> DEFINE m == Len(seq)
           Turn(s, l) == ParseLine(s, l)
           g == [p \in Parser \X (1 .. m) |-> Turn(p[1], seq[p[2]])]
           end == FoldLeft(ParseLine, NoLines, seq)
           Is(h) == h = [s \in SUBSET DOMAIN seq |->
                          IF s = {} THEN NoLines ELSE Turn(h[s \ {Max(s)}], seq[Max(s)])]
           fold == CHOOSE h : Is(h)
<1>1. m \in Nat /\ NoLines \in Parser
  <2>1. m \in Nat
    OBVIOUS
  <2> HIDE DEF m
  <2>2. NoDraft \in Draft /\ <<>> \in Worlds
    BY MapsEmpty DEF NoDraft, Draft, Ways, Text, Worlds
  <2> QED
    BY <2>1, <2>2 DEF NoLines, Parser
<1>2. \A s \in Parser, l \in LineFields : Turn(s, l) \in Parser
  BY ParseLineType
<1>3. end = fold[DOMAIN seq]
  BY DEF FoldLeft, MapThenFoldSet
<1>0. DOMAIN seq = 1 .. m /\ \A i \in 1 .. m : seq[i] \in LineFields
  OBVIOUS
<1> HIDE DEF m, Turn, end
<1>4. g \in [Parser \X (1 .. m) -> Parser]
  BY <1>0, <1>2
<1>5. PICK F : Folds(F, Parser, m, NoLines, g)
  BY <1>1, <1>4, FoldExists
<1>6. \A s \in SUBSET (1 .. m) : s # {} => Max(s) \in 1 .. m
  BY <1>1, MaxIndex
<1>7. Is(F)
  <2>1. \A s \in SUBSET (1 .. m) : s # {} =>
          g[<<F[s \ {Max(s)}], Max(s)>>] = Turn(F[s \ {Max(s)}], seq[Max(s)])
    BY <1>5, <1>6 DEF Folds
  <2> HIDE DEF g
  <2> QED
    BY <1>0, <1>5, <2>1 DEF Folds
<1>8. Is(fold)
  BY <1>7
<1> HIDE DEF fold
<1>9. fold[{}] \in Parser
  BY <1>0, <1>1, <1>8
<1>10. \A s \in SUBSET (1 .. m) : s # {} /\ fold[s \ {Max(s)}] \in Parser => fold[s] \in Parser
  <2>1. \A s \in SUBSET (1 .. m) : s # {} => fold[s] = Turn(fold[s \ {Max(s)}], seq[Max(s)])
    BY <1>0, <1>8
  <2> HIDE DEF Is
  <2> QED
    BY <1>0, <1>2, <1>6, <2>1
<1>11. end \in Parser
  <2>1. m \in 0 .. m
    BY <1>1
  <2> HIDE DEF Is
  <2>2. fold[1 .. m] \in Parser
    BY <1>1, <1>9, <1>10, <2>1, FoldStays
  <2> QED
    BY <1>0, <1>3, <2>2
<1> QED
  BY <1>11 DEF end

LEMMA LoadWorldType ==
  ASSUME NEW t, t.lines \in Seq(LineFields)
  PROVE  LoadWorld(t).world \in Worlds
<1> DEFINE end == FoldLeft(ParseLine, NoLines, t.lines)
<1>1. LoadWorld(t).world = Commit(end).world
  BY DEF LoadWorld
<1>2. end \in Parser
  BY LinesType
<1> HIDE DEF end
<1> QED
  BY <1>1, <1>2, CommitType DEF Parser

-----------------------------------------------------------------------------
(* Saves. *)

Players == {p \in [name : Name, hp : Nat, max : Nat, inv : Seq(Item)] :
              p.name # <<>> /\ p.max > 0 /\ p.hp <= p.max}
States == {"absent", "torn", "edited", "badhex", "whole"}

\* A body that read can make something of.
Readable(b) == /\ b.name \in Word /\ b.hp \in Int /\ b.max \in Int /\ b.inv \in Seq(Fields)
               /\ \A id \in DOMAIN b.wloc : b.wloc[id] \in Seq(Fields)

\* The body that was written for what the game looked like.
Tells(b, was) ==
  /\ was.player \in Players /\ \A id \in DOMAIN was.ground : was.ground[id] \in Seq(Item)
  /\ b = [ver |-> CURRENT_VERSION, name |-> Escape(was.player.name), hp |-> was.player.hp,
          max |-> was.player.max, loc |-> was.loc, inv |-> ItemLines(was.player.inv),
          junk |-> FALSE,
          wloc |-> [id \in {id \in DOMAIN was.ground : was.ground[id] # <<>>} |->
                      ItemLines(was.ground[id])]]

SlotOK(slot) ==
  /\ slot.state \in States
  /\ slot.state = "whole" => Readable(slot.body) /\ (slot.mine => Tells(slot.body, slot.was))

LEMMA ClampType ==
  ASSUME NEW hp \in Int, NEW max \in Int, max > 0
  PROVE  Clamp(hp, max) \in Nat /\ Clamp(hp, max) <= max /\ (hp \in 0 .. max => Clamp(hp, max) = hp)
BY DEF Clamp

LEMMA ReadOk ==
  ASSUME NEW slot, SlotOK(slot), NEW p, NEW w \in Worlds, NEW l, Read(slot, p, w, l).how = "ok"
  PROVE  LET r == Read(slot, p, w, l) IN
         /\ r.player \in Players /\ r.world \in Worlds
         /\ r.loc \in DOMAIN r.world /\ DOMAIN r.world = DOMAIN w
<1> DEFINE b == slot.body
           r == Read(slot, p, w, l)
<1>1. /\ slot.state = "whole" /\ Fits(b, w) /\ ValidPlayer(b.name, b.max)
      /\ r.player = Applied(b, w).player /\ r.world = Applied(b, w).world
      /\ r.loc = b.loc
  BY DEF Read, SlotOK, States, Applied
<1>2. Readable(b)
  BY <1>1 DEF SlotOK
<1> HIDE DEF b, r
<1>3. /\ Unescape(b.name) \in Name /\ Unescape(b.name) # <<>>
      /\ Clamp(b.hp, b.max) \in Nat /\ Clamp(b.hp, b.max) <= b.max
      /\ b.max \in Nat /\ b.max > 0 /\ Pretty(b.inv) \in Seq(Item)
  <2>1. b.name \in Word /\ b.hp \in Int /\ b.max \in Int /\ b.inv \in Seq(Fields)
    BY <1>2 DEF Readable
  <2>2. b.name # <<>> /\ b.max > 0
    BY <1>1 DEF ValidPlayer
  <2>3. Unescape(b.name) \in Name /\ Unescape(b.name) # <<>>
    BY <2>1, <2>2, UnescapeType
  <2>4. Clamp(b.hp, b.max) \in Nat /\ Clamp(b.hp, b.max) <= b.max
    BY <2>1, <2>2, ClampType
  <2>5. Pretty(b.inv) \in Seq(Item)
    BY <2>1, PrettyType
  <2> QED
    BY <2>1, <2>2, <2>3, <2>4, <2>5
<1>4. Applied(b, w).player \in Players
  BY <1>3 DEF Applied, Players
<1>5. Applied(b, w).world \in Worlds /\ DOMAIN Applied(b, w).world = DOMAIN w
  <2> DEFINE items(id) == IF id \in DOMAIN b.wloc THEN Pretty(b.wloc[id]) ELSE <<>>
  <2>1. DOMAIN w \in SUBSET Text /\ w \in [DOMAIN w -> Place]
    BY MapsType DEF Worlds
  <2>2. \A id \in DOMAIN w : items(id) \in Seq(Item)
    BY <1>2, PrettyType DEF Readable
  <2>3. Applied(b, w).world = [id \in DOMAIN w |-> [w[id] EXCEPT !.items = items(id)]]
    BY DEF Applied
  <2> HIDE DEF items
  <2>4. \A id \in DOMAIN w : [w[id] EXCEPT !.items = items(id)] \in Place
    BY <2>1, <2>2 DEF Place
  <2> HIDE DEF Place
  <2>5. Applied(b, w).world \in [DOMAIN w -> Place] /\ DOMAIN Applied(b, w).world = DOMAIN w
    BY <2>3, <2>4
  <2> QED
    BY <2>1, <2>5 DEF Worlds, Maps
<1>6. b.loc \in DOMAIN w
  BY <1>1 DEF Fits
<1> QED
  BY <1>1, <1>4, <1>5, <1>6 DEF r

LEMMA ReadElse ==
  ASSUME NEW slot, NEW p, NEW w, NEW l, Read(slot, p, w, l).how # "ok"
  PROVE  Read(slot, p, w, l).player = p /\ Read(slot, p, w, l).loc = l
BY DEF Read

\* The round trip: into the file and back.
LEMMA ReadsBack ==
  ASSUME NEW slot, slot.state = "whole", Tells(slot.body, slot.was),
         NEW p, NEW w \in Worlds, NEW l,
         {id \in DOMAIN slot.was.ground : slot.was.ground[id] # <<>>} \cup {slot.was.loc}
           \subseteq DOMAIN w
  PROVE  LET was == slot.was
             r == Read(slot, p, w, l)
         IN  /\ r.how = "ok" /\ r.player = was.player /\ r.loc = was.loc
             /\ \A id \in DOMAIN r.world :
                  r.world[id].items = IF id \in DOMAIN was.ground THEN was.ground[id] ELSE <<>>
<1> DEFINE was == slot.was
           b == slot.body
           r == Read(slot, p, w, l)
           full == {id \in DOMAIN was.ground : was.ground[id] # <<>>}
<1>1. /\ b.ver = CURRENT_VERSION /\ b.name = Escape(was.player.name) /\ b.hp = was.player.hp
      /\ b.max = was.player.max /\ b.loc = was.loc /\ b.inv = ItemLines(was.player.inv)
      /\ b.junk = FALSE /\ b.wloc = [id \in full |-> ItemLines(was.ground[id])]
      /\ was.player \in Players /\ \A id \in DOMAIN was.ground : was.ground[id] \in Seq(Item)
  BY DEF Tells
<1>2. /\ was.player.name \in Name /\ was.player.name # <<>> /\ was.player.inv \in Seq(Item)
      /\ was.player.hp \in Int /\ was.player.max \in Int /\ was.player.max > 0
      /\ was.player.hp \in 0 .. was.player.max
      /\ was.player = [name |-> was.player.name, hp |-> was.player.hp, max |-> was.player.max,
                       inv |-> was.player.inv]
  BY <1>1 DEF Players
<1>3. full \cup {was.loc} \subseteq DOMAIN w
  OBVIOUS
<1> HIDE DEF was, b, full
<1>4. /\ b.name # <<>> /\ Unescape(b.name) = was.player.name /\ Pretty(b.inv) = was.player.inv
      /\ Clamp(b.hp, b.max) = was.player.hp
  BY <1>1, <1>2, EscapeType, ItemLinesType, ClampType
<1>5. Fits(b, w) /\ ValidPlayer(b.name, b.max) /\ DOMAIN b.wloc = full
  BY <1>1, <1>2, <1>3, <1>4 DEF Fits, ValidPlayer
<1>6. /\ r.how = "ok" /\ r.player = Applied(b, w).player
      /\ r.world = Applied(b, w).world /\ r.loc = b.loc
  BY <1>1, <1>5 DEF Read, b, Applied
<1> HIDE DEF r
<1>7. Applied(b, w).player = was.player
  BY <1>1, <1>2, <1>4 DEF Applied
<1>8. \A id \in DOMAIN w :
        /\ DOMAIN Applied(b, w).world = DOMAIN w
        /\ Applied(b, w).world[id].items =
             IF id \in DOMAIN was.ground THEN was.ground[id] ELSE <<>>
  <2> TAKE id \in DOMAIN w
  <2> DEFINE items == IF id \in DOMAIN b.wloc THEN Pretty(b.wloc[id]) ELSE <<>>
  <2>1. w[id] \in Place
    BY MapsType DEF Worlds
  <2>2. DOMAIN Applied(b, w).world = DOMAIN w
        /\ Applied(b, w).world[id] = [w[id] EXCEPT !.items = items]
    BY DEF Applied
  <2>3. items = IF id \in DOMAIN was.ground THEN was.ground[id] ELSE <<>>
    <3>1. CASE id \in full
      <4>1. b.wloc[id] = ItemLines(was.ground[id]) /\ id \in DOMAIN was.ground
        BY <1>1, <3>1 DEF full
      <4> QED
        BY <1>1, <1>5, <3>1, <4>1, ItemLinesType
    <3>2. CASE id \notin full
      BY <1>5, <3>2 DEF full
    <3> QED
      BY <3>1, <3>2
  <2> HIDE DEF items
  <2>4. [w[id] EXCEPT !.items = items].items = items
    BY <2>1 DEF Place
  <2> QED
    BY <2>2, <2>3, <2>4
<1>9. DOMAIN r.world = DOMAIN w
  BY <1>6 DEF Applied
<1> QED
  BY <1>1, <1>6, <1>7, <1>8, <1>9 DEF was, r

-----------------------------------------------------------------------------
(* The inductive invariant of the game. *)

GameInv ==
  /\ world \in Worlds /\ player \in Players /\ text.lines \in Seq(LineFields)
  /\ DOMAIN slots = Slots /\ \A s \in Slots : SlotOK(slots[s])
  /\ NeverInTheVoid

\* What is unreadable tells nothing.
LEMMA UnreadableOK ==
  ASSUME NEW state \in States \ {"whole"}
  PROVE  SlotOK(Unreadable(state))
BY DEF SlotOK, Unreadable, Slot

LEMMA TextType ==
  ASSUME NEW t \in Range(WorldTexts)
  PROVE  t.lines \in Seq(LineFields)
<1> DEFINE Version == [there : BOOLEAN, lines : Seq(LineFields)]
<1>1. WorldTexts \in Seq(Version)
  BY GameAssumption
<1> HIDE DEF Version
<1>2. t \in Version
  BY <1>1 DEF Range
<1> QED
  BY <1>2 DEF Version

LEMMA NobodyType == Nobody \in Players /\ <<>> \in Worlds
<1>1. "hero" \in Char /\ "hero" # Underscore
  BY DEF Char, Underscore
<1> HIDE DEF Char
<1>2. <<"hero">> \in Name /\ <<"hero">> # <<>>
  BY <1>1 DEF Name, Word
<1>3. <<>> \in Seq(Item) /\ 20 \in Nat /\ 20 > 0 /\ 20 <= 20
  OBVIOUS
<1> HIDE DEF Name, Item
<1>4. Nobody \in Players
  BY <1>2, <1>3 DEF Nobody, Players
<1> QED
  BY <1>4, MapsEmpty DEF Worlds

\* Taking the item that Find finds, and what is left without it.
LEMMA FindType ==
  ASSUME NEW inv \in Seq(Item), NEW name, Has(inv, name)
  PROVE  inv[Find(inv, name)] \in Item /\ Without(inv, name) \in Seq(Item)
<1> DEFINE I == {i \in 1 .. Len(inv) : inv[i].name = name}
           k == Find(inv, name)
<1>1. k = IF I # {} THEN Min(I) ELSE 0
  BY DEF Find, SelectInSeq
<1>2. I # {} /\ k = Min(I)
  BY <1>1 DEF Has
<1>3. I \in SUBSET Nat
  OBVIOUS
<1>4. Min(I) \in I
  BY <1>2, <1>3, MinProperties
<1> HIDE DEF k
<1>5. k \in 1 .. Len(inv)
  BY <1>2, <1>4
<1>6. SubSeq(inv, 1, k - 1) \in Seq(Item) /\ SubSeq(inv, k + 1, Len(inv)) \in Seq(Item)
  BY <1>5
<1> HIDE DEF Item
<1> QED
  BY <1>5, <1>6 DEF Without, RemoveAt, k

\* The items of a place come and go, and its exits stay.
LEMMA ItemsMove ==
  ASSUME world \in Worlds, NeverInTheVoid, NEW id \in DOMAIN world, NEW items \in Seq(Item),
         world' = [world EXCEPT ![id].items = items], running' = running, loc' = loc
  PROVE  world' \in Worlds /\ NeverInTheVoid'
<1>1. DOMAIN world \in SUBSET Text /\ world \in [DOMAIN world -> Place]
  BY MapsType DEF Worlds
<1> DEFINE new == [world[id] EXCEPT !.items = items]
<1>2. world[id] \in Place /\ new \in Place /\ new.exits = world[id].exits
  <2>1. world[id] \in Place
    BY <1>1
  <2> QED
    BY <2>1 DEF Place
<1>3. world' = [world EXCEPT ![id] = new]
  OBVIOUS
<1> HIDE DEF new, Place
<1>4. /\ world' \in [DOMAIN world -> Place] /\ DOMAIN world' = DOMAIN world
      /\ \A x \in DOMAIN world : world'[x].exits = world[x].exits
  BY <1>1, <1>2, <1>3
<1>5. world' \in Worlds
  BY <1>1, <1>4 DEF Worlds, Maps
<1> QED
  BY <1>4, <1>5 DEF NeverInTheVoid

LEMMA PlaceItems ==
  ASSUME world \in Worlds
  PROVE  \A id \in DOMAIN world : world[id].items \in Seq(Item)
<1>1. \A id \in DOMAIN world : world[id] \in Place
  BY MapsType DEF Worlds
<1> QED
  BY <1>1 DEF Place

LEMMA GoInv ==
  ASSUME GameInv, NEW d, CmdGo(d), running' = running, text' = text
  PROVE  GameInv'
<1>1. /\ loc \in DOMAIN world /\ d \in DOMAIN world[loc].exits /\ loc' = world[loc].exits[d]
      /\ UNCHANGED <<world, player, slots>>
  BY DEF CmdGo
<1>2. loc' \in ToSet(world[loc].exits)
  BY <1>1 DEF ToSet
<1>3. NeverInTheVoid'
  BY <1>1, <1>2 DEF NeverInTheVoid
<1> QED
  BY <1>1, <1>3 DEF GameInv

LEMMA TakeInv ==
  ASSUME GameInv, NEW name, CmdTake(name), running' = running, text' = text
  PROVE  GameInv'
<1> DEFINE here == world[loc].items
           it == here[Find(here, name)]
           rest == Without(here, name)
<1>1. /\ loc \in DOMAIN world /\ Has(here, name) /\ world' = [world EXCEPT ![loc].items = rest]
      /\ player' = [player EXCEPT !.inv = Append(@, it)] /\ UNCHANGED <<loc, slots>>
  BY DEF CmdTake
<1>2. here \in Seq(Item)
  BY <1>1, PlaceItems DEF GameInv
<1>3. it \in Item /\ rest \in Seq(Item)
  BY <1>1, <1>2, FindType
<1> HIDE DEF it, rest
<1>4. player' \in Players
  <2>1. player.inv \in Seq(Item)
    BY DEF GameInv, Players
  <2>2. Append(player.inv, it) \in Seq(Item)
    BY <1>3, <2>1
  <2> QED
    BY <1>1, <2>2 DEF GameInv, Players
<1>5. world' \in Worlds /\ NeverInTheVoid'
  BY <1>1, <1>3, ItemsMove DEF GameInv
<1> QED
  BY <1>1, <1>4, <1>5 DEF GameInv

LEMMA DropInv ==
  ASSUME GameInv, NEW name, CmdDrop(name), running' = running, text' = text
  PROVE  GameInv'
<1> DEFINE it == player.inv[Find(player.inv, name)]
           rest == Without(player.inv, name)
           there == Append(world[loc].items, it)
<1>1. /\ Has(player.inv, name) /\ player' = [player EXCEPT !.inv = rest]
      /\ UNCHANGED <<loc, slots>>
      /\ \/ loc \in DOMAIN world /\ world' = [world EXCEPT ![loc].items = there]
         \/ UNCHANGED world
  BY DEF CmdDrop
<1>2. player.inv \in Seq(Item)
  BY DEF GameInv, Players
<1>3. it \in Item /\ rest \in Seq(Item)
  BY <1>1, <1>2, FindType
<1> HIDE DEF it, rest
<1>4. player' \in Players
  BY <1>1, <1>3 DEF GameInv, Players
<1>5. CASE loc \in DOMAIN world /\ world' = [world EXCEPT ![loc].items = there]
  <2>1. world[loc].items \in Seq(Item)
    BY <1>5, PlaceItems DEF GameInv
  <2>2. there \in Seq(Item)
    BY <1>3, <2>1
  <2> HIDE DEF there
  <2>3. world' \in Worlds /\ NeverInTheVoid'
    BY <1>1, <1>5, <2>2, ItemsMove DEF GameInv
  <2> QED
    BY <1>1, <1>4, <2>3 DEF GameInv
<1>6. CASE UNCHANGED world
  BY <1>1, <1>4, <1>6 DEF GameInv, NeverInTheVoid
<1> QED
  BY <1>1, <1>5, <1>6

LEMMA UseInv ==
  ASSUME GameInv, NEW name, CmdUse(name), running' = running, text' = text
  PROVE  GameInv'
<1> DEFINE it == player.inv[Find(player.inv, name)]
           rest == Without(player.inv, name)
           amount == IF it.extra < 0 THEN 0 ELSE it.extra
           hp == Clamp(player.hp + amount, player.max)
<1>1. /\ Has(player.inv, name) /\ player' = [Heal(player, it.extra) EXCEPT !.inv = rest]
      /\ UNCHANGED <<world, loc, slots>>
  <2>1. Heal(player, it.extra).inv = player.inv
    BY DEF Heal, GameInv, Players
  <2>2. /\ Has(player.inv, name)
        /\ player' = [Heal(player, it.extra) EXCEPT
                        !.inv = Without(Heal(player, it.extra).inv, name)]
        /\ UNCHANGED <<world, loc, slots>>
    BY DEF CmdUse
  <2> QED
    BY <2>1, <2>2
<1>2. player.inv \in Seq(Item) /\ player.hp \in Nat /\ player.max \in Nat /\ player.max > 0
  BY DEF GameInv, Players
<1>3. it \in Item /\ rest \in Seq(Item)
  BY <1>1, <1>2, FindType
<1>4. hp \in Nat /\ hp <= player.max
  <2>1. it.extra \in Int
    BY <1>3 DEF Item
  <2>2. player.hp + amount \in Int
    BY <1>2, <2>1
  <2> QED
    BY SMTT(30), <1>2, <2>2, ClampType
<1>5. Heal(player, it.extra) = [player EXCEPT !.hp = hp]
  BY DEF Heal
<1> HIDE DEF it, rest, hp
<1>6. player' \in Players
  BY <1>1, <1>3, <1>4, <1>5 DEF GameInv, Players
<1> QED
  BY <1>1, <1>6 DEF GameInv, NeverInTheVoid

\* A slot that changes; the game itself does not.
LEMMA SlotsInv ==
  ASSUME GameInv, UNCHANGED <<running, world, player, loc, text>>,
         NEW s \in Slots, NEW slot, SlotOK(slot), slots' = [slots EXCEPT ![s] = slot]
  PROVE  GameInv'
<1>1. DOMAIN slots' = Slots /\ \A t \in Slots : slots'[t] = IF t = s THEN slot ELSE slots[t]
  BY DEF GameInv
<1>2. \A t \in Slots : SlotOK(slots'[t])
  BY <1>1 DEF GameInv
<1>3. \A t \in Slots : SlotOK(slots[t])'
  BY <1>2 DEF SlotOK, Readable, Tells
<1> QED
  BY <1>1, <1>3 DEF GameInv, NeverInTheVoid

LEMMA SavedOK ==
  ASSUME GameInv, NEW due
  PROVE  SlotOK(Slot("whole", Body(player, world, loc), TRUE, Snapshot, due))
<1> DEFINE b == Body(player, world, loc)
           full == {id \in DOMAIN world : world[id].items # <<>>}
           ground == [id \in DOMAIN world |-> world[id].items]
           was == Snapshot
<1>1. was = [player |-> player, loc |-> loc, ground |-> ground]
  BY DEF Snapshot
<1>2. /\ b.name = Escape(player.name) /\ b.hp = player.hp /\ b.max = player.max
      /\ b.inv = ItemLines(player.inv)
      /\ b.wloc = [id \in full |-> ItemLines(world[id].items)]
  BY DEF Body
<1>3. /\ player \in Players /\ player.name \in Name /\ player.hp \in Nat /\ player.max \in Nat
      /\ player.inv \in Seq(Item) /\ \A id \in DOMAIN world : world[id].items \in Seq(Item)
  BY PlaceItems DEF GameInv, Players
<1>4. Readable(b)
  <2>1. b.name \in Word /\ b.hp \in Int /\ b.max \in Int /\ b.inv \in Seq(Fields)
    BY <1>2, <1>3, EscapeType, ItemLinesType
  <2>2. \A id \in full : b.wloc[id] = ItemLines(world[id].items) /\ world[id].items \in Seq(Item)
    BY <1>2, <1>3
  <2>3. DOMAIN b.wloc = full
    BY <1>2
  <2>4. \A id \in DOMAIN b.wloc : b.wloc[id] \in Seq(Fields)
    BY <2>2, <2>3, ItemLinesType
  <2> HIDE DEF b
  <2> QED
    BY <2>1, <2>4 DEF Readable
<1>5. Tells(b, was)
  <2>1. was.player = player /\ was.loc = loc /\ was.ground = ground
    BY <1>1
  <2>2. DOMAIN ground = DOMAIN world /\ \A id \in DOMAIN world : ground[id] = world[id].items
    OBVIOUS
  <2>3. {id \in DOMAIN ground : ground[id] # <<>>} = full
    BY <2>2
  <2>4. [id \in full |-> ItemLines(world[id].items)] = [id \in full |-> ItemLines(ground[id])]
    BY <2>2
  <2>5. b = [ver |-> CURRENT_VERSION, name |-> Escape(player.name), hp |-> player.hp,
             max |-> player.max, loc |-> loc, inv |-> ItemLines(player.inv), junk |-> FALSE,
             wloc |-> [id \in full |-> ItemLines(world[id].items)]]
    BY DEF Body
  <2> HIDE DEF b, was, ground, full
  <2> QED
    BY <1>3, <2>1, <2>2, <2>3, <2>4, <2>5 DEF Tells
<1> HIDE DEF b, was
<1> QED
  BY <1>4, <1>5 DEF SlotOK, Slot, States, b, was

\* The process is gone.
LEMMA ExitsInv ==
  ASSUME GameInv, NEW c, Exits(c), text' = text, DOMAIN slots' = Slots,
         \A s \in Slots : SlotOK(slots'[s])
  PROVE  GameInv'
<1>1. running' = FALSE /\ world' = <<>> /\ player' = Nobody
  BY DEF Exits
<1>2. world' \in Worlds /\ player' \in Players /\ NeverInTheVoid'
  BY <1>1, NobodyType DEF NeverInTheVoid
<1>3. \A s \in Slots : SlotOK(slots[s])'
  BY DEF SlotOK, Readable, Tells
<1> QED
  BY <1>2, <1>3 DEF GameInv

LEMMA StartInv ==
  ASSUME GameInv, Start
  PROVE  GameInv'
<1> DEFINE fresh == LoadWorld(text)
<1>1. fresh.world \in Worlds
  BY LoadWorldType DEF GameInv
<1>2. UNCHANGED <<text, slots>>
  BY DEF Start
<1>3. CASE running' = TRUE /\ world' = fresh.world /\ player' = Nobody /\ loc' = Glade
  <2>1. NeverInTheVoid'
    BY <1>3 DEF NeverInTheVoid
  <2> HIDE DEF fresh
  <2> QED
    BY <1>1, <1>2, <1>3, <2>1, NobodyType DEF GameInv
<1>4. CASE UNCHANGED <<running, world, player, loc>>
  BY <1>2, <1>4 DEF GameInv, NeverInTheVoid
<1> QED
  BY <1>3, <1>4 DEF Start

LEMMA StepInv ==
  ASSUME GameInv, Step
  PROVE  GameInv'
<1>1. running' = running /\ text' = text
  BY DEF Step
<1>2. PICK verb \in Verbs, rest \in Words : Dispatch(verb, rest)
  BY DEF Step
<1>3. CASE CmdNoEffect
  BY <1>1, <1>3 DEF CmdNoEffect, GameInv, NeverInTheVoid
<1> QED
  BY <1>1, <1>2, <1>3, GoInv, TakeInv, DropInv, UseInv DEF Dispatch

LEMMA SaveInv ==
  ASSUME GameInv, NEW s \in Slots, CmdSave(s)
  PROVE  GameInv'
<1>1. UNCHANGED <<running, world, player, loc, text>>
  BY DEF CmdSave
<1>2. CASE UNCHANGED slots
  BY <1>1, <1>2 DEF GameInv, NeverInTheVoid
<1>3. CASE slots' = [slots EXCEPT ![s] = Unreadable("torn")]
  <2>1. "torn" \in States \ {"whole"}
    BY DEF States
  <2>2. SlotOK(Unreadable("torn"))
    BY <2>1, UnreadableOK
  <2> QED
    BY <1>1, <1>3, <2>2, SlotsInv
<1>4. CASE slots' = [slots EXCEPT ![s] = Slot("whole", Body(player, world, loc), TRUE, Snapshot,
                                              ledger)]
  BY <1>1, <1>4, SavedOK, SlotsInv
<1> QED
  BY <1>2, <1>3, <1>4 DEF CmdSave

LEMMA LoadInv ==
  ASSUME GameInv, NEW s \in Slots, CmdLoad(s)
  PROVE  GameInv'
<1> DEFINE fresh == LoadWorld(text)
           r == Read(slots[s], player, fresh.world, loc)
<1>1. fresh.world \in Worlds
  BY LoadWorldType DEF GameInv
<1>2. UNCHANGED <<text, slots>> /\ SlotOK(slots[s])
  BY DEF CmdLoad, GameInv
<1>3. CASE /\ r.how = "ok" /\ world' = r.world /\ player' = r.player /\ loc' = r.loc
           /\ UNCHANGED running
  <2>1. r.player \in Players /\ r.world \in Worlds /\ r.loc \in DOMAIN r.world
    BY <1>1, <1>2, <1>3, ReadOk
  <2> HIDE DEF r
  <2>2. NeverInTheVoid'
    BY <1>3, <2>1 DEF NeverInTheVoid
  <2> QED
    BY <1>2, <1>3, <2>1, <2>2 DEF GameInv
<1>4. CASE UNCHANGED <<running, world, player, loc>>
  BY <1>2, <1>4 DEF GameInv, NeverInTheVoid
<1>5. CASE Exits(2)
  BY <1>2, <1>5, ExitsInv DEF GameInv
<1>6. r.how # "ok" => r.player = player /\ r.loc = loc
  BY ReadElse
<1>7. CASE r.how = "error" /\ player' = r.player /\ loc' = r.loc /\ UNCHANGED <<running, world>>
  <2>1. UNCHANGED <<running, world, player, loc>>
    <3> HIDE DEF r
    <3> QED
      BY <1>6, <1>7
  <2> QED
    BY <1>4, <2>1
<1> QED
  BY <1>3, <1>4, <1>5, <1>7 DEF CmdLoad

LEMMA OutsideInv ==
  ASSUME GameInv, EditWorld \/ \E s \in Slots : DamageSlot(s) \/ BringSlot(s)
  PROVE  GameInv'
<1>1. CASE EditWorld
  <2>1. text' \in Range(WorldTexts) /\ UNCHANGED <<running, world, player, loc, slots>>
    BY <1>1 DEF EditWorld
  <2>2. text'.lines \in Seq(LineFields)
    BY <2>1, TextType
  <2> QED
    BY <2>1, <2>2 DEF GameInv, NeverInTheVoid
<1>2. ASSUME NEW s \in Slots, DamageSlot(s) PROVE GameInv'
  <2>1. UNCHANGED <<running, world, player, loc, text>>
    BY <1>2 DEF DamageSlot
  <2>2. PICK state \in {"torn", "edited", "badhex"} : slots' = [slots EXCEPT ![s] = Unreadable(state)]
    BY <1>2 DEF DamageSlot
  <2>3. state \in States \ {"whole"}
    BY DEF States
  <2> QED
    BY <2>1, <2>2, <2>3, UnreadableOK, SlotsInv
<1>3. ASSUME NEW s \in Slots, BringSlot(s) PROVE GameInv'
  <2>1. UNCHANGED <<running, world, player, loc, text>>
    BY <1>3 DEF BringSlot
  <2>2. PICK b \in Foreign : slots' = [slots EXCEPT ![s] =
                               [Unreadable("whole") EXCEPT !.body = b, !.due = BodyItems(b)]]
    BY <1>3 DEF BringSlot
  <2> DEFINE slot == [Unreadable("whole") EXCEPT !.body = b, !.due = BodyItems(b)]
  <2>3. slot.state = "whole" /\ slot.body = b /\ slot.mine = FALSE
    BY DEF Unreadable, Slot
  <2>4. Readable(b)
    BY GameAssumption, TextIsWord DEF Readable
  <2> HIDE DEF slot
  <2>5. SlotOK(slot)
    BY <2>3, <2>4 DEF SlotOK, States
  <2> QED
    BY <2>1, <2>2, <2>5, SlotsInv DEF slot
<1> QED
  BY <1>1, <1>2, <1>3

\* Types, and that what a slot says is what was written: for every world file,
\* every save from elsewhere and every sequence of commands.
THEOREM Invariance == Spec => []GameInv
<1>1. Init => GameInv
  <2> SUFFICES ASSUME Init PROVE GameInv
    OBVIOUS
  <2>1. /\ running = FALSE /\ text = WorldTexts[1] /\ world = <<>> /\ player = Nobody
        /\ slots = [s \in Slots |-> Unreadable("absent")]
    BY DEF Init
  <2>2. text \in Range(WorldTexts)
    <3>1. 1 \in DOMAIN WorldTexts
      BY GameAssumption
    <3> QED
      BY <2>1, <3>1 DEF Range
  <2>3. "absent" \in States \ {"whole"}
    BY DEF States
  <2>4. DOMAIN slots = Slots /\ \A s \in Slots : SlotOK(slots[s])
    BY <2>1, <2>3, UnreadableOK
  <2>5. world \in Worlds /\ player \in Players /\ text.lines \in Seq(LineFields)
    BY <2>1, <2>2, NobodyType, TextType
  <2> QED
    BY <2>1, <2>4, <2>5 DEF GameInv, NeverInTheVoid
<1>2. GameInv /\ [Next]_vars => GameInv'
  <2> SUFFICES ASSUME GameInv, [Next]_vars PROVE GameInv'
    OBVIOUS
  <2>1. CASE Start
    BY <2>1, StartInv
  <2>2. CASE Step
    BY <2>2, StepInv
  <2>3. CASE Quit
    BY <2>3, ExitsInv DEF Quit, GameInv
  <2>4. CASE Kill
    <3>1. Exits(137) /\ text' = text
      BY <2>4 DEF Kill
    <3>2. "torn" \in States \ {"whole"}
      BY DEF States
    <3>3. SlotOK(Unreadable("torn"))
      BY <3>2, UnreadableOK
    <3>4. DOMAIN slots' = Slots /\ \A s \in Slots : SlotOK(slots'[s])
      BY <2>4, <3>3 DEF Kill, GameInv
    <3> QED
      BY <3>1, <3>4, ExitsInv
  <2>5. CASE EditWorld \/ \E s \in Slots : DamageSlot(s) \/ BringSlot(s)
    BY <2>5, OutsideInv
  <2>6. ASSUME NEW s \in Slots, CmdSave(s) \/ CmdLoad(s) PROVE GameInv'
    BY <2>6, SaveInv, LoadInv
  <2>7. CASE UNCHANGED vars
    BY <2>7 DEF vars, GameInv, NeverInTheVoid
  <2> QED
    BY <2>1, <2>2, <2>3, <2>4, <2>5, <2>6, <2>7 DEF Next
<1> QED
  BY <1>1, <1>2, PTL DEF Spec

\* In a closed world the player is always somewhere.
THEOREM AlwaysSomewhere == Spec => []NeverInTheVoid
<1>1. GameInv => NeverInTheVoid
  BY DEF GameInv
<1> QED
  BY <1>1, Invariance, PTL

LEMMA FaithfulHere == GameInv => SavesAreFaithful
<1> SUFFICES ASSUME GameInv, NEW s \in Slots, slots[s].mine, slots[s].state = "whole",
                    {id \in DOMAIN slots[s].was.ground : slots[s].was.ground[id] # <<>>}
                      \cup {slots[s].was.loc} \subseteq DOMAIN LoadWorld(text).world
             PROVE  LET was == slots[s].was
                        r == Read(slots[s], Nobody, LoadWorld(text).world, Glade)
                    IN  /\ r.how = "ok" /\ r.player = was.player /\ r.loc = was.loc
                        /\ \A id \in DOMAIN r.world :
                             r.world[id].items = IF id \in DOMAIN was.ground
                                                 THEN was.ground[id] ELSE <<>>
  BY DEF SavesAreFaithful
<1>1. Tells(slots[s].body, slots[s].was)
  BY DEF GameInv, SlotOK
<1>2. LoadWorld(text).world \in Worlds
  BY LoadWorldType DEF GameInv
<1> QED
  BY <1>1, <1>2, ReadsBack

\* A slot this game wrote and nobody damaged reads back as what it was written
\* from, names with blanks included.
THEOREM FaithfulSaves == Spec => []SavesAreFaithful
BY Invariance, FaithfulHere, PTL

\* A load that fails leaves everything as it was.
THEOREM AllOrNothing == Spec => LoadIsAllOrNothing
<1> DEFINE Stays == running' /\ said' = "load_failed" => UNCHANGED <<world, player, loc, ledger>>
<1>1. [Next]_vars => [Stays]_vars
  <2> SUFFICES ASSUME Next, running', said' = "load_failed"
               PROVE  UNCHANGED <<world, player, loc, ledger>>
    BY DEF vars
  <2>1. ~Start /\ ~Step /\ ~Quit /\ ~Kill
    BY DEF Start, Step, Quit, Kill, Exits
  <2>2. CASE EditWorld \/ \E s \in Slots : CmdSave(s) \/ DamageSlot(s) \/ BringSlot(s)
    BY <2>2 DEF EditWorld, CmdSave, DamageSlot, BringSlot
  <2>3. ASSUME NEW s \in Slots, CmdLoad(s) PROVE UNCHANGED <<world, player, loc, ledger>>
    <3> DEFINE r == Read(slots[s], player, LoadWorld(text).world, loc)
    <3>1. r.how = "error" => r.player = player /\ r.loc = loc
      BY ReadElse
    <3> HIDE DEF r
    <3>2. \/ /\ r.how = "error" /\ player' = r.player /\ loc' = r.loc
             /\ UNCHANGED <<world, ledger>>
          \/ UNCHANGED <<world, player, loc, ledger>>
      BY <2>3 DEF CmdLoad, Exits, r
    <3> QED
      BY <3>1, <3>2
  <2> QED
    BY <2>1, <2>2, <2>3 DEF Next
<1> QED
  BY <1>1, PTL DEF Spec, LoadIsAllOrNothing

(* Bags of items. *)

\* The bags of elements of E.
Bags(E) == Maps(E, Nat \ {0})

Copies(e, b) == IF e \in DOMAIN b THEN b[e] ELSE 0

LEMMA BagType ==
  ASSUME NEW E, NEW b \in Bags(E)
  PROVE  /\ DOMAIN b \in SUBSET E /\ b = [e \in DOMAIN b |-> b[e]]
         /\ \A e : Copies(e, b) \in Nat /\ (e \in DOMAIN b <=> Copies(e, b) # 0)
         /\ \A e \in DOMAIN b : b[e] = Copies(e, b)
<1>1. DOMAIN b \in SUBSET E /\ b \in [DOMAIN b -> Nat \ {0}]
  BY MapsType DEF Bags
<1>2. \A e \in DOMAIN b : b[e] \in Nat /\ b[e] # 0
  BY <1>1
<1> QED
  BY <1>1, <1>2 DEF Copies

\* A bag is how many it has of what.
LEMMA SameBag ==
  ASSUME NEW E, NEW a \in Bags(E), NEW b \in Bags(E), \A e \in E : Copies(e, a) = Copies(e, b)
  PROVE  a = b
<1>1. \A e \in E : e \in DOMAIN a <=> e \in DOMAIN b
  BY BagType
<1>2. DOMAIN a = DOMAIN b
  BY <1>1, BagType
<1>3. \A e \in DOMAIN a : a[e] = b[e]
  BY <1>2, BagType
<1>4. a = [e \in DOMAIN a |-> a[e]] /\ b = [e \in DOMAIN b |-> b[e]]
  BY BagType
<1> QED
  BY <1>2, <1>3, <1>4

LEMMA EmptyBagCopies ==
  ASSUME NEW E
  PROVE  EmptyBag \in Bags(E) /\ \A e : Copies(e, EmptyBag) = 0
<1>1. DOMAIN EmptyBag = {} /\ EmptyBag \in [{} -> Nat \ {0}]
  BY DEF EmptyBag, SetToBag
<1> QED
  BY <1>1 DEF Bags, Maps, Copies

LEMMA SumCopies ==
  ASSUME NEW E, NEW a \in Bags(E), NEW b \in Bags(E)
  PROVE  a (+) b \in Bags(E) /\ \A e : Copies(e, a (+) b) = Copies(e, a) + Copies(e, b)
<1> DEFINE D == DOMAIN a \cup DOMAIN b
           sum == [e \in D |-> Copies(e, a) + Copies(e, b)]
<1>1. a (+) b = sum
  BY DEF (+), Copies
<1>2. D \in SUBSET E /\ \A e : Copies(e, a) \in Nat /\ Copies(e, b) \in Nat
  BY BagType
<1>3. \A e \in D : Copies(e, a) # 0 \/ Copies(e, b) # 0
  BY BagType
<1>4. \A e \in D : sum[e] \in Nat \ {0}
  BY <1>2, <1>3
<1>5. sum \in [D -> Nat \ {0}]
  BY <1>4
<1>6. \A e : e \notin D => Copies(e, a) = 0 /\ Copies(e, b) = 0
  BY BagType
<1>7. \A e : Copies(e, sum) = Copies(e, a) + Copies(e, b)
  BY <1>2, <1>6 DEF Copies
<1> HIDE DEF sum, D
<1> QED
  BY <1>1, <1>2, <1>5, <1>7 DEF Bags, Maps

LEMMA AddCopies ==
  ASSUME NEW E, NEW b \in Bags(E), NEW x \in E
  PROVE  /\ BagAdd(b, x) \in Bags(E)
         /\ \A e : Copies(e, BagAdd(b, x)) = Copies(e, b) + IF e = x THEN 1 ELSE 0
<1> DEFINE D == DOMAIN b \cup {x}
           sum == [e \in D |-> Copies(e, b) + IF e = x THEN 1 ELSE 0]
<1>0. DOMAIN b \in SUBSET E /\ \A e : Copies(e, b) \in Nat /\ (e \in DOMAIN b <=> Copies(e, b) # 0)
  BY BagType
<1>1. BagAdd(b, x) = sum
  <2>1. CASE x \in DOMAIN b
    <3>1. D = DOMAIN b /\ \A e \in D : b[e] = Copies(e, b)
      BY <2>1 DEF Copies
    <3>2. BagAdd(b, x) = [e \in D |-> IF e = x THEN b[e] + 1 ELSE b[e]]
      BY <2>1, <3>1 DEF BagAdd
    <3>3. \A e \in D : (IF e = x THEN b[e] + 1 ELSE b[e]) = sum[e]
      BY <1>0, <3>1
    <3> QED
      BY <3>2, <3>3
  <2>2. CASE x \notin DOMAIN b
    <3>1. BagAdd(b, x) = [e \in D |-> IF e = x THEN 1 ELSE b[e]]
      BY <2>2 DEF BagAdd
    <3>2. \A e \in D : e # x => b[e] = Copies(e, b)
      BY DEF Copies
    <3>3. Copies(x, b) = 0
      BY <2>2 DEF Copies
    <3>4. \A e \in D : (IF e = x THEN 1 ELSE b[e]) = sum[e]
      BY <1>0, <3>2, <3>3
    <3> QED
      BY <3>1, <3>4
  <2> QED
    BY <2>1, <2>2
<1>2. D \in SUBSET E
  BY <1>0
<1>3. \A e \in D : sum[e] \in Nat \ {0}
  BY <1>0
<1>4. sum \in [D -> Nat \ {0}]
  BY <1>3
<1>5. \A e : Copies(e, sum) = Copies(e, b) + IF e = x THEN 1 ELSE 0
  BY <1>0 DEF Copies
<1> HIDE DEF sum, D
<1> QED
  BY <1>1, <1>2, <1>4, <1>5 DEF Bags, Maps

LEMMA RemoveCopies ==
  ASSUME NEW E, NEW b \in Bags(E), NEW x \in E, Copies(x, b) # 0
  PROVE  /\ BagRemove(b, x) \in Bags(E)
         /\ \A e : Copies(e, BagRemove(b, x)) = Copies(e, b) - IF e = x THEN 1 ELSE 0
<1>0. /\ DOMAIN b \in SUBSET E /\ x \in DOMAIN b
      /\ \A e : Copies(e, b) \in Nat /\ (e \in DOMAIN b <=> Copies(e, b) # 0)
      /\ \A e \in DOMAIN b : b[e] = Copies(e, b)
  BY BagType
<1> DEFINE left(e) == Copies(e, b) - IF e = x THEN 1 ELSE 0
<1>1. CASE b[x] = 1
  <2> DEFINE D == DOMAIN b \ {x}
  <2>1. BagRemove(b, x) = [e \in D |-> b[e]]
    BY <1>0, <1>1 DEF BagRemove
  <2>2. \A e \in D : b[e] = left(e) /\ b[e] \in Nat \ {0}
    BY <1>0
  <2>3. \A e : e \notin D => left(e) = 0
    BY <1>0, <1>1
  <2>4. DOMAIN BagRemove(b, x) = D /\ \A e \in D : BagRemove(b, x)[e] = left(e)
    BY <2>1, <2>2
  <2>5. BagRemove(b, x) \in [D -> Nat \ {0}] /\ D \in SUBSET E
    BY <1>0, <2>1, <2>2
  <2> HIDE DEF D, left
  <2>6. \A e : Copies(e, BagRemove(b, x)) = left(e)
    BY <2>3, <2>4 DEF Copies
  <2> QED
    BY <2>5, <2>6 DEF Bags, Maps, left
<1>2. CASE b[x] # 1
  <2> DEFINE D == DOMAIN b
  <2>1. BagRemove(b, x) = [e \in D |-> IF e = x THEN b[e] - 1 ELSE b[e]]
    BY <1>0, <1>2 DEF BagRemove
  <2>2. \A e \in D : (IF e = x THEN b[e] - 1 ELSE b[e]) = left(e) /\ left(e) \in Nat \ {0}
    BY <1>0, <1>2
  <2>3. \A e : e \notin D => left(e) = 0
    BY <1>0
  <2>4. DOMAIN BagRemove(b, x) = D /\ \A e \in D : BagRemove(b, x)[e] = left(e)
    BY <2>1, <2>2
  <2>5. BagRemove(b, x) \in [D -> Nat \ {0}] /\ D \in SUBSET E
    BY <1>0, <2>1, <2>2
  <2> HIDE DEF D, left
  <2>6. \A e : Copies(e, BagRemove(b, x)) = left(e)
    BY <2>3, <2>4 DEF Copies
  <2> QED
    BY <2>5, <2>6 DEF Bags, Maps, left
<1> QED
  BY <1>1, <1>2

(* The bag of a sequence, item by item. *)

\* BagOf adds the items one by one.
Filled(h, s, E) ==
  /\ h \in [0 .. Len(s) -> Bags(E)] /\ h[0] = EmptyBag /\ h[Len(s)] = BagOf(s)
  /\ \A i \in 1 .. Len(s) : h[i] = BagAdd(h[i - 1], s[i])

LEMMA BagBuilds ==
  ASSUME NEW E, NEW s \in Seq(E)
  PROVE  \E h : Filled(h, s, E)
<1> DEFINE m == Len(s)
           B == Bags(E)
           base == EmptyBag
           Turn(b, x) == BagAdd(b, x)
           g == [p \in B \X (1 .. m) |-> Turn(p[1], s[p[2]])]
           Is(f) == f = [t \in SUBSET DOMAIN s |->
                          IF t = {} THEN base ELSE Turn(f[t \ {Max(t)}], s[Max(t)])]
           fold == CHOOSE f : Is(f)
<1>1. m \in Nat /\ base \in B
  BY EmptyBagCopies
<1>2. \A b \in B, x \in E : Turn(b, x) \in B
  BY AddCopies
<1>3. BagOf(s) = fold[DOMAIN s]
  BY DEF FoldLeft, MapThenFoldSet, BagOf
<1>0. DOMAIN s = 1 .. m /\ \A i \in 1 .. m : s[i] \in E
  OBVIOUS
<1> HIDE DEF m, Turn, B, base
<1>4. g \in [B \X (1 .. m) -> B]
  BY <1>0, <1>2
<1>5. PICK F : Folds(F, B, m, base, g)
  BY <1>1, <1>4, FoldExists
<1>6. \A t \in SUBSET (1 .. m) : t # {} => Max(t) \in 1 .. m
  BY <1>1, MaxIndex
<1>7. Is(F)
  <2>1. \A t \in SUBSET (1 .. m) : t # {} =>
          g[<<F[t \ {Max(t)}], Max(t)>>] = Turn(F[t \ {Max(t)}], s[Max(t)])
    BY <1>5, <1>6 DEF Folds
  <2> HIDE DEF g
  <2> QED
    BY <1>0, <1>5, <2>1 DEF Folds
<1>8. Is(fold)
  BY <1>7
<1> HIDE DEF fold
<1>9. fold[{}] = base
  BY <1>0, <1>1, <1>8
<1>10. Climbs(fold, m, B, base, g)
  <2>1. \A t \in SUBSET (1 .. m) : t # {} => fold[t] = Turn(fold[t \ {Max(t)}], s[Max(t)])
    BY <1>0, <1>8
  <2> HIDE DEF Is
  <2> QED
    BY <1>6, <1>9, <2>1 DEF Climbs
<1> HIDE DEF Is
<1>11. PICK h : Steps(h, m, B, base, g, fold[1 .. m])
  <2> HIDE DEF g
  <2> QED
    BY <1>1, <1>4, <1>10, FoldSteps
<1>12. \A i \in 1 .. m : h[i] = Turn(h[i - 1], s[i])
  <2>1. \A i \in 1 .. m : i - 1 \in 0 .. m
    BY <1>1
  <2> QED
    BY <1>11, <2>1 DEF Steps
<1> QED
  BY <1>0, <1>3, <1>11, <1>12 DEF m, B, base, Turn, Steps, Filled

LEMMA BagOfEmpty == BagOf(<<>>) = EmptyBag
<1>1. <<>> \in Seq({}) /\ Len(<<>>) = 0
  OBVIOUS
<1> QED
  BY <1>1, BagBuilds DEF Filled

LEMMA BagOfAppend ==
  ASSUME NEW E, NEW s \in Seq(E), NEW x \in E
  PROVE  BagOf(Append(s, x)) = BagAdd(BagOf(s), x)
<1> DEFINE n == Len(s)
           t == Append(s, x)
<1>1. n \in Nat /\ t \in Seq(E) /\ Len(t) = n + 1 /\ t[n + 1] = x /\ \A i \in 1 .. n : t[i] = s[i]
  OBVIOUS
<1> HIDE DEF t
<1>2. PICK h : Filled(h, s, E)
  BY BagBuilds
<1>3. PICK k : Filled(k, t, E)
  BY <1>1, BagBuilds
<1> DEFINE T == {i \in 0 .. n : h[i] = k[i]}
<1>4. 0 \in T
  BY <1>1, <1>2, <1>3 DEF Filled
<1>5. ASSUME NEW i \in 0 .. n - 1, i \in T PROVE i + 1 \in T
  <2>1. i + 1 \in 1 .. n /\ i + 1 \in 1 .. n + 1 /\ (i + 1) - 1 = i /\ i + 1 \in 0 .. n
    BY <1>1
  <2>2. h[i + 1] = BagAdd(h[i], s[i + 1])
    BY <1>2, <2>1 DEF Filled
  <2>3. k[i + 1] = BagAdd(k[i], t[i + 1])
    BY <1>1, <1>3, <2>1 DEF Filled
  <2>4. t[i + 1] = s[i + 1] /\ h[i] = k[i]
    BY <1>1, <1>5, <2>1
  <2> QED
    BY <2>1, <2>2, <2>3, <2>4
<1> HIDE DEF T
<1>6. n \in T
  <2>1. \A i \in 0 .. n : i \in T
    BY <1>1, <1>4, <1>5, BoundedSetInduction
  <2> QED
    BY <1>1, <2>1
<1>7. k[n + 1] = BagAdd(k[n], x)
  <2>1. n + 1 \in 1 .. n + 1 /\ (n + 1) - 1 = n
    BY <1>1
  <2> QED
    BY <1>1, <1>3, <2>1 DEF Filled
<1> QED
  BY <1>1, <1>2, <1>3, <1>6, <1>7 DEF T, t, Filled

LEMMA BagOfType ==
  ASSUME NEW E, NEW s \in Seq(E)
  PROVE  BagOf(s) \in Bags(E)
<1>1. Len(s) \in 0 .. Len(s)
  OBVIOUS
<1> QED
  BY <1>1, BagBuilds DEF Filled

LEMMA BagOfAppendCopies ==
  ASSUME NEW E, NEW s \in Seq(E), NEW x \in E
  PROVE  \A e : Copies(e, BagOf(Append(s, x))) = Copies(e, BagOf(s)) + IF e = x THEN 1 ELSE 0
BY BagOfAppend, BagOfType, AddCopies

\* Two inventories in one.
LEMMA BagOfConcat ==
  ASSUME NEW E, NEW s \in Seq(E), NEW t \in Seq(E)
  PROVE  \A e : Copies(e, BagOf(s \o t)) = Copies(e, BagOf(s)) + Copies(e, BagOf(t))
<1> DEFINE Good(u) == \A e : Copies(e, BagOf(s \o u)) = Copies(e, BagOf(s)) + Copies(e, BagOf(u))
           T == {u \in Seq(E) : Good(u)}
<1>1. <<>> \in T
  <2>1. s \o <<>> = s /\ <<>> \in Seq(E)
    OBVIOUS
  <2>2. \A e : Copies(e, BagOf(s)) \in Nat /\ Copies(e, BagOf(<<>>)) = 0
    BY BagOfEmpty, EmptyBagCopies, BagOfType, BagType
  <2>3. Good(<<>>)
    BY <2>1, <2>2
  <2> HIDE DEF Good
  <2> QED
    BY <2>1, <2>3
<1>2. ASSUME NEW u \in Seq(E), NEW x \in E, u \in T PROVE Append(u, x) \in T
  <2>1. /\ Append(u, x) \in Seq(E) /\ s \o u \in Seq(E)
        /\ s \o Append(u, x) = Append(s \o u, x)
    OBVIOUS
  <2>2. Good(u)
    BY <1>2
  <2>3. ASSUME NEW e
        PROVE  Copies(e, BagOf(s \o Append(u, x))) = Copies(e, BagOf(s)) + Copies(e, BagOf(Append(u, x)))
    <3> DEFINE one == IF e = x THEN 1 ELSE 0
    <3>1. Copies(e, BagOf(Append(s \o u, x))) = Copies(e, BagOf(s \o u)) + one
      BY <2>1, BagOfAppendCopies
    <3>2. Copies(e, BagOf(Append(u, x))) = Copies(e, BagOf(u)) + one
      BY BagOfAppendCopies
    <3>3. Copies(e, BagOf(s)) \in Nat /\ Copies(e, BagOf(u)) \in Nat
      BY BagOfType, BagType
    <3>4. Copies(e, BagOf(s \o u)) = Copies(e, BagOf(s)) + Copies(e, BagOf(u))
      BY <2>2
    <3> HIDE DEF Good
    <3> QED
      BY <2>1, <3>1, <3>2, <3>3, <3>4
  <2>4. Good(Append(u, x))
    BY <2>3
  <2> HIDE DEF Good
  <2> QED
    BY <2>1, <2>4
<1> HIDE DEF T
<1>3. \A u \in Seq(E) : u \in T
  BY <1>1, <1>2, SeqSetInduction
<1>4. t \in T
  BY <1>3
<1> QED
  BY <1>4 DEF T

(* A sequence with one element removed. *)

LEMMA SplitAt ==
  ASSUME NEW E, NEW s \in Seq(E), NEW k \in 1 .. Len(s)
  PROVE  s = Append(SubSeq(s, 1, k - 1), s[k]) \o SubSeq(s, k + 1, Len(s))
<1> DEFINE n == Len(s)
           a == SubSeq(s, 1, k - 1)
           c == SubSeq(s, k + 1, n)
           b == Append(a, s[k])
<1>1. /\ n \in Nat /\ k \in 1 .. n
      /\ a \in Seq(E) /\ Len(a) = k - 1 /\ \A i \in 1 .. k - 1 : a[i] = s[i]
      /\ c \in Seq(E) /\ Len(c) = n - k /\ \A i \in 1 .. n - k : c[i] = s[k + i]
      /\ s[k] \in E
  OBVIOUS
<1> HIDE DEF n, a, c
<1>2. b \in Seq(E) /\ Len(b) = k /\ \A i \in 1 .. k : b[i] = s[i]
  BY <1>1
<1> HIDE DEF b
<1>0. /\ b \o c \in Seq(E) /\ Len(b \o c) = Len(b) + Len(c)
      /\ \A j \in 1 .. Len(b) + Len(c) : (b \o c)[j] = IF j <= Len(b) THEN b[j] ELSE c[j - Len(b)]
  <2>1. b \in Seq(E) /\ c \in Seq(E)
    BY <1>1, <1>2
  <2> QED
    BY <2>1, ConcatProperties
<1>3. b \o c \in Seq(E) /\ Len(b \o c) = n
  BY <1>0, <1>1, <1>2
<1>4. \A i \in 1 .. n : (b \o c)[i] = s[i]
  <2> TAKE i \in 1 .. n
  <2>1. CASE i <= k
    BY <1>0, <1>1, <1>2, <2>1
  <2>2. CASE i > k
    <3>1. i - k \in 1 .. n - k /\ k + (i - k) = i
      BY <1>1, <2>2
    <3>2. (b \o c)[i] = c[i - k]
      BY SMTT(30), <1>0, <1>1, <1>2, <2>2
    <3> QED
      BY <1>1, <3>1, <3>2
  <2>3. i <= k \/ i > k
    BY <1>1
  <2> QED
    BY <2>1, <2>2, <2>3
<1>5. s = b \o c
  BY <1>3, <1>4, SeqEqual DEF n
<1> QED
  BY <1>5 DEF a, b, c, n

\* What Find finds is there, and goes.
LEMMA WithoutCopies ==
  ASSUME NEW inv \in Seq(Item), NEW name, Has(inv, name)
  PROVE  LET it == inv[Find(inv, name)] IN
         \A e : Copies(e, BagOf(inv))
                  = Copies(e, BagOf(Without(inv, name))) + IF e = it THEN 1 ELSE 0
<1> DEFINE I == {i \in 1 .. Len(inv) : inv[i].name = name}
           k == Find(inv, name)
           it == inv[k]
           a == SubSeq(inv, 1, k - 1)
           c == SubSeq(inv, k + 1, Len(inv))
<1>0. k = IF I # {} THEN Min(I) ELSE 0
  BY DEF Find, SelectInSeq
<1>1. I # {} /\ k = Min(I)
  BY <1>0 DEF Has
<1>2. Min(I) \in I
  <2>1. I \in SUBSET Nat
    OBVIOUS
  <2> QED
    BY <1>1, <2>1, MinProperties
<1> HIDE DEF k, Item
<1>3. k \in 1 .. Len(inv)
  BY <1>1, <1>2
<1>4. a \in Seq(Item) /\ c \in Seq(Item) /\ it \in Item /\ Append(a, it) \in Seq(Item)
  BY <1>3
<1>5. inv = Append(a, it) \o c
  BY <1>3, SplitAt
<1>6. Without(inv, name) = a \o c
  BY DEF Without, RemoveAt, k
<1> HIDE DEF a, c, it
<1>7. ASSUME NEW e
      PROVE  Copies(e, BagOf(inv)) = Copies(e, BagOf(a \o c)) + IF e = it THEN 1 ELSE 0
  <2> DEFINE one == IF e = it THEN 1 ELSE 0
  <2>1. Copies(e, BagOf(a)) \in Nat /\ Copies(e, BagOf(c)) \in Nat
    BY <1>4, BagOfType, BagType
  <2>2. Copies(e, BagOf(inv)) = Copies(e, BagOf(Append(a, it))) + Copies(e, BagOf(c))
    BY <1>4, <1>5, BagOfConcat
  <2>3. Copies(e, BagOf(a \o c)) = Copies(e, BagOf(a)) + Copies(e, BagOf(c))
    BY <1>4, BagOfConcat
  <2>4. Copies(e, BagOf(Append(a, it))) = Copies(e, BagOf(a)) + one
    BY <1>4, BagOfAppendCopies
  <2> QED
    BY <2>1, <2>2, <2>3, <2>4
<1> QED
  BY <1>6, <1>7 DEF it, k

-----------------------------------------------------------------------------
(* Sums of bags over a finite set. *)

Adding(f, D, base, m) ==
  f = [s \in SUBSET D |-> IF s = {} THEN base ELSE f[s \ {AnyOf(s)}] (+) m[AnyOf(s)]]

\* f sums m up over the parts of D, from base on.
IsSum(f, D, E, base, m, total) ==
  /\ base \in Bags(E) /\ m \in [D -> Bags(E)]
  /\ f[{}] = base /\ f[D] = total
  /\ \A s \in SUBSET D : f[s] \in Bags(E)
  /\ \A s \in SUBSET D : \A x \in s : f[s] = f[s \ {x}] (+) m[x]

LEMMA SumCommutes ==
  ASSUME NEW E, NEW a \in Bags(E), NEW b \in Bags(E), NEW c \in Bags(E)
  PROVE  (a (+) b) (+) c = (a (+) c) (+) b
<1>1. /\ a (+) b \in Bags(E) /\ a (+) c \in Bags(E)
      /\ (a (+) b) (+) c \in Bags(E) /\ (a (+) c) (+) b \in Bags(E)
  BY SumCopies
<1>2. \A e : Copies(e, a) \in Nat /\ Copies(e, b) \in Nat /\ Copies(e, c) \in Nat
  BY BagType
<1>3. ASSUME NEW e PROVE Copies(e, (a (+) b) (+) c) = Copies(e, (a (+) c) (+) b)
  <2>1. /\ Copies(e, (a (+) b) (+) c) = Copies(e, a (+) b) + Copies(e, c)
        /\ Copies(e, (a (+) c) (+) b) = Copies(e, a (+) c) + Copies(e, b)
        /\ Copies(e, a (+) b) = Copies(e, a) + Copies(e, b)
        /\ Copies(e, a (+) c) = Copies(e, a) + Copies(e, c)
    BY <1>1, SumCopies
  <2> QED
    BY <1>2, <2>1
<1> QED
  BY <1>1, <1>3, SameBag

LEMMA SumExists ==
  ASSUME NEW D, IsFiniteSet(D), NEW E, NEW base \in Bags(E), NEW m \in [D -> Bags(E)]
  PROVE  \E f : Adding(f, D, base, m)
<1> DEFINE V == Bags(E)
           g == [p \in D \X V |-> p[2] (+) m[p[1]]]
<1>1. g \in [D \X V -> V]
  BY SumCopies
<1> HIDE DEF g
<1>2. PICK f : Gathers(f, D, V, base, g)
  BY <1>1, GathersExists
<1>3. \A s \in SUBSET D : s # {} => AnyOf(s) \in s
  BY DEF AnyOf
<1>4. f \in [SUBSET D -> V]
  BY <1>2 DEF Gathers
<1>5. \A s \in SUBSET D : f[s] = IF s = {} THEN base ELSE f[s \ {AnyOf(s)}] (+) m[AnyOf(s)]
  <2> TAKE s \in SUBSET D
  <2>1. f[s] = IF s = {} THEN base ELSE g[<<AnyOf(s), f[s \ {AnyOf(s)}]>>]
    BY <1>2 DEF Gathers
  <2>2. CASE s # {}
    <3>1. AnyOf(s) \in D /\ f[s \ {AnyOf(s)}] \in V
      BY <1>3, <1>4, <2>2
    <3> QED
      BY <2>1, <2>2, <3>1 DEF g
  <2> QED
    BY <2>1, <2>2
<1>6. f = [s \in SUBSET D |-> f[s]]
  BY <1>4
<1> QED
  BY <1>5, <1>6 DEF Adding

AddTo(D, E, m) == [p \in D \X Bags(E) |-> p[2] (+) m[p[1]]]

Adds(g, D, E, m) ==
  /\ g \in [D \X Bags(E) -> Bags(E)]
  /\ \A x \in D : \A b \in Bags(E) : g[<<x, b>>] = b (+) m[x]

LEMMA AddToType ==
  ASSUME NEW D, NEW E, NEW m \in [D -> Bags(E)]
  PROVE  Adds(AddTo(D, E, m), D, E, m)
<1> DEFINE V == Bags(E)
<1>1. \A x \in D : \A b \in V : b (+) m[x] \in V
  BY SumCopies
<1> HIDE DEF V
<1>2. AddTo(D, E, m) = [p \in D \X V |-> p[2] (+) m[p[1]]]
  BY DEF AddTo, V
<1>3. /\ AddTo(D, E, m) \in [D \X V -> V]
      /\ \A x \in D : \A b \in V : AddTo(D, E, m)[<<x, b>>] = b (+) m[x]
  BY <1>1, <1>2
<1> QED
  BY <1>3 DEF V, Adds

\* Any order will do, as adding up commutes.
LEMMA PicksSum ==
  ASSUME NEW D, IsFiniteSet(D), NEW E, NEW base \in Bags(E), NEW m \in [D -> Bags(E)],
         NEW f, Picks(f, D, Bags(E), base, AddTo(D, E, m))
  PROVE  IsSum(f, D, E, base, m, f[D])
<1> DEFINE V == Bags(E)
           g == AddTo(D, E, m)
<1>1. /\ g \in [D \X V -> V] /\ base \in V /\ m \in [D -> V]
      /\ \A x \in D : \A b \in V : g[<<x, b>>] = b (+) m[x]
  <2>1. Adds(g, D, E, m)
    BY AddToType
  <2> HIDE DEF g
  <2> QED
    BY <2>1 DEF Adds
<1>2. \A x \in D : \A b \in V : b (+) m[x] \in V
  BY SumCopies
<1> HIDE DEF g
<1>3. Commutes(D, V, g)
  <2>1. ASSUME NEW x \in D, NEW y \in D, NEW v \in V
        PROVE  g[<<x, g[<<y, v>>]>>] = g[<<y, g[<<x, v>>]>>]
    <3>1. v (+) m[y] \in V /\ v (+) m[x] \in V
      BY <1>2
    <3>2. g[<<x, g[<<y, v>>]>>] = (v (+) m[y]) (+) m[x] /\ g[<<y, g[<<x, v>>]>>] = (v (+) m[x]) (+) m[y]
      BY <1>1, <3>1
    <3> QED
      BY <3>2, SumCommutes
  <2> HIDE DEF V
  <2> QED
    BY <2>1 DEF Commutes
<1>4. Picks(f, D, V, base, g)
  BY DEF g
<1> HIDE DEF V
<1>5. AnyLast(f, D, V, g)
  BY <1>1, <1>3, <1>4, Gathered
<1>6. \A s \in SUBSET D : \A x \in s : f[s] = f[s \ {x}] (+) m[x]
  <2> TAKE s \in SUBSET D
  <2> TAKE x \in s
  <2>1. f[s \ {x}] \in V /\ f[s] = g[<<x, f[s \ {x}]>>]
    BY <1>5 DEF AnyLast
  <2> QED
    BY <1>1, <2>1
<1>7. f[{}] = base
  BY <1>4 DEF Picks
<1> QED
  BY <1>1, <1>5, <1>6, <1>7 DEF IsSum, V, AnyLast

LEMMA SumAdds ==
  ASSUME NEW D, IsFiniteSet(D), NEW E, NEW base \in Bags(E), NEW m \in [D -> Bags(E)],
         NEW f, Adding(f, D, base, m)
  PROVE  IsSum(f, D, E, base, m, f[D])
<1>1. \A s : s # {} => AnyOf(s) \in s
  BY DEF AnyOf
<1>2. \A s \in SUBSET D : f[s] = IF s = {} THEN base ELSE f[s \ {AnyOf(s)}] (+) m[AnyOf(s)]
  BY DEF Adding
<1>3. Picks(f, D, Bags(E), base, AddTo(D, E, m))
  <2>1. f[{}] = base
    BY <1>2
  <2>2. ASSUME NEW s \in SUBSET D, s # {}, f[s \ {AnyOf(s)}] \in Bags(E)
        PROVE  f[s] = AddTo(D, E, m)[<<AnyOf(s), f[s \ {AnyOf(s)}]>>]
    <3>1. AnyOf(s) \in D
      BY <1>1, <2>2
    <3>2. f[s] = f[s \ {AnyOf(s)}] (+) m[AnyOf(s)]
      BY <1>2, <2>2
    <3>3. Adds(AddTo(D, E, m), D, E, m)
      BY AddToType
    <3> QED
      BY <2>2, <3>1, <3>2, <3>3 DEF Adds
  <2> QED
    BY <2>1, <2>2 DEF Picks
<1> QED
  BY <1>3, PicksSum

(* Two sums, side by side. *)

LEMMA SumType ==
  ASSUME NEW f, NEW D, NEW E, NEW base, NEW m, NEW total, IsSum(f, D, E, base, m, total)
  PROVE  /\ base \in Bags(E) /\ total \in Bags(E)
         /\ \A e : Copies(e, base) \in Nat /\ Copies(e, total) \in Nat
         /\ \A x \in D : m[x] \in Bags(E) /\ \A e : Copies(e, m[x]) \in Nat
         /\ \A s \in SUBSET D : f[s] \in Bags(E) /\ \A e : Copies(e, f[s]) \in Nat
<1>1. base \in Bags(E) /\ total \in Bags(E) /\ \A x \in D : m[x] \in Bags(E)
  <2>1. base \in Bags(E) /\ m \in [D -> Bags(E)] /\ f[D] \in Bags(E) /\ f[D] = total
    BY DEF IsSum
  <2> QED
    BY <2>1
<1>2. \A s \in SUBSET D : f[s] \in Bags(E)
  BY DEF IsSum
<1>3. \A b \in Bags(E) : \A e : Copies(e, b) \in Nat
  BY BagType
<1> QED
  BY <1>1, <1>2, <1>3

\* Copies of the sum with one more summand.
LEMMA SumStep ==
  ASSUME NEW f, NEW D, NEW E, NEW base, NEW m, NEW total, IsSum(f, D, E, base, m, total),
         NEW s \in SUBSET D, NEW x \in s, NEW e
  PROVE  Copies(e, f[s]) = Copies(e, f[s \ {x}]) + Copies(e, m[x])
<1>1. f[s] = f[s \ {x}] (+) m[x]
  BY DEF IsSum
<1>2. f[s \ {x}] \in Bags(E) /\ m[x] \in Bags(E)
  BY SumType
<1> QED
  BY <1>1, <1>2, SumCopies

\* Two sums that have the summands of P in common.
Share(P, E, f, C, a, mf, tf, g, D, b, mg, tg) ==
  /\ IsFiniteSet(P) /\ P \in SUBSET C /\ P \in SUBSET D
  /\ IsSum(f, C, E, a, mf, tf) /\ IsSum(g, D, E, b, mg, tg)
  /\ \A x \in P : mf[x] = mg[x]

\* They differ, as far as P goes, by what they start from.
LEMMA SumsKeepPace ==
  ASSUME NEW P, NEW E, NEW f, NEW C, NEW a, NEW mf, NEW tf, NEW g, NEW D, NEW b, NEW mg, NEW tg,
         Share(P, E, f, C, a, mf, tf, g, D, b, mg, tg), NEW e
  PROVE  Copies(e, f[P]) + Copies(e, b) = Copies(e, g[P]) + Copies(e, a)
<1>0. /\ IsFiniteSet(P) /\ P \in SUBSET C /\ P \in SUBSET D
      /\ IsSum(f, C, E, a, mf, tf) /\ IsSum(g, D, E, b, mg, tg)
      /\ \A x \in P : mf[x] = mg[x]
  BY DEF Share
<1> DEFINE T == {s \in SUBSET P : Copies(e, f[s]) + Copies(e, b) = Copies(e, g[s]) + Copies(e, a)}
<1>1. Copies(e, a) \in Nat /\ Copies(e, b) \in Nat
  BY <1>0, SumType
<1>2. {} \in T
  <2>1. f[{}] = a /\ g[{}] = b
    BY <1>0 DEF IsSum
  <2> QED
    BY <1>1, <2>1
<1>3. ASSUME NEW s \in SUBSET P, NEW x \in P \ s, s \in T PROVE s \cup {x} \in T
  <2> DEFINE u == s \cup {x}
  <2>1. u \in SUBSET C /\ u \in SUBSET D /\ x \in u /\ u \ {x} = s /\ u \in SUBSET P
        /\ s \in SUBSET C /\ s \in SUBSET D /\ x \in C /\ x \in D
    BY <1>0
  <2> HIDE DEF u
  <2>2. Copies(e, f[u]) = Copies(e, f[s]) + Copies(e, mf[x])
    <3>1. IsSum(f, C, E, a, mf, tf)
      BY <1>0
    <3>2. u \in SUBSET C /\ x \in u /\ u \ {x} = s
      BY <2>1
    <3>3. Copies(e, f[u]) = Copies(e, f[u \ {x}]) + Copies(e, mf[x])
      BY <3>1, <3>2, SumStep, SMTT(30)
    <3> QED
      BY <3>2, <3>3
  <2>3. Copies(e, g[u]) = Copies(e, g[s]) + Copies(e, mg[x])
    <3>1. IsSum(g, D, E, b, mg, tg)
      BY <1>0
    <3>2. u \in SUBSET D /\ x \in u /\ u \ {x} = s
      BY <2>1
    <3>3. Copies(e, g[u]) = Copies(e, g[u \ {x}]) + Copies(e, mg[x])
      BY <3>1, <3>2, SumStep, SMTT(30)
    <3> QED
      BY <3>2, <3>3
  <2>4. mf[x] = mg[x]
    BY <1>0
  <2>5. Copies(e, f[s]) \in Nat /\ Copies(e, g[s]) \in Nat /\ Copies(e, mf[x]) \in Nat
    BY <1>0, <2>1, SumType
  <2>6. Copies(e, f[s]) + Copies(e, b) = Copies(e, g[s]) + Copies(e, a)
    BY <1>3
  <2>7. Copies(e, f[u]) + Copies(e, b) = Copies(e, g[u]) + Copies(e, a)
    BY <1>1, <2>2, <2>3, <2>4, <2>5, <2>6
  <2>8. u \in T
    BY <2>1, <2>7
  <2> HIDE DEF T
  <2> QED
    BY <2>8 DEF u
<1> HIDE DEF T
<1>4. \A s \in SUBSET P : s \in T
  BY <1>0, <1>2, <1>3, FiniteSetInduction
<1>5. P \in T
  BY <1>4
<1> QED
  BY <1>5 DEF T

\* What one place loses the start of the sum gains, or the other way round.
LEMMA OnePlace ==
  ASSUME NEW E, NEW D, IsFiniteSet(D), NEW l \in D,
         NEW f, NEW a, NEW mf, NEW tf, IsSum(f, D, E, a, mf, tf),
         NEW g, NEW b, NEW mg, NEW tg, IsSum(g, D, E, b, mg, tg),
         \A x \in D \ {l} : mf[x] = mg[x],
         \A e : Copies(e, a) + Copies(e, mf[l]) = Copies(e, b) + Copies(e, mg[l])
  PROVE  tf = tg
<1> DEFINE P == D \ {l}
<1>0. P \subseteq D /\ P \in SUBSET D /\ D \in SUBSET D
  OBVIOUS
<1>1. IsFiniteSet(P) /\ P \subseteq D /\ P \in SUBSET D /\ D \in SUBSET D
  BY <1>0, PartFinite
<1> HIDE DEF P
<1>2. tf \in Bags(E) /\ tg \in Bags(E) /\ f[D] = tf /\ g[D] = tg
  BY SumType DEF IsSum
<1>3. ASSUME NEW e PROVE Copies(e, tf) = Copies(e, tg)
  <2>1. Copies(e, f[P]) + Copies(e, b) = Copies(e, g[P]) + Copies(e, a)
    <3>1. Share(P, E, f, D, a, mf, tf, g, D, b, mg, tg)
      BY <1>1 DEF P, Share
    <3> QED
      BY <3>1, SumsKeepPace
  <2>2. Copies(e, f[D]) = Copies(e, f[P]) + Copies(e, mf[l])
    BY SMTT(30), <1>1, SumStep DEF P
  <2>3. Copies(e, g[D]) = Copies(e, g[P]) + Copies(e, mg[l])
    BY <1>1, SumStep DEF P
  <2>4. /\ Copies(e, a) \in Nat /\ Copies(e, b) \in Nat
        /\ Copies(e, mf[l]) \in Nat /\ Copies(e, mg[l]) \in Nat
        /\ Copies(e, f[P]) \in Nat /\ Copies(e, g[P]) \in Nat
    BY <1>1, SumType
  <2>5. Copies(e, a) + Copies(e, mf[l]) = Copies(e, b) + Copies(e, mg[l])
    OBVIOUS
  <2> QED
    BY <1>2, <2>1, <2>2, <2>3, <2>4, <2>5
<1> QED
  BY <1>2, <1>3, SameBag

\* Empty summands do not count.
LEMMA SumOverPart ==
  ASSUME NEW E, NEW D, IsFiniteSet(D), NEW C, C \subseteq D, NEW base,
         NEW f, NEW mf, NEW tf, IsSum(f, C, E, base, mf, tf),
         NEW g, NEW mg, NEW tg, IsSum(g, D, E, base, mg, tg),
         \A x \in C : mf[x] = mg[x], \A x \in D \ C : mg[x] = EmptyBag
  PROVE  tf = tg
<1>0. C \in SUBSET D /\ D \ C \in SUBSET D /\ C \subseteq C /\ C \in SUBSET C /\ D \in SUBSET D
  OBVIOUS
<1>1. IsFiniteSet(C) /\ IsFiniteSet(D \ C)
  BY <1>0, PartFinite
<1>2. tf \in Bags(E) /\ tg \in Bags(E) /\ f[C] = tf /\ g[D] = tg
  BY <1>0, SumType DEF IsSum
<1>3. ASSUME NEW e PROVE Copies(e, tf) = Copies(e, tg)
  <2> DEFINE T == {s \in SUBSET (D \ C) : Copies(e, g[C \cup s]) = Copies(e, g[C])}
  <2>1. {} \in T
    <3>1. C \cup {} = C
      OBVIOUS
    <3> QED
      BY <3>1
  <2>2. ASSUME NEW s \in SUBSET (D \ C), NEW x \in (D \ C) \ s, s \in T PROVE s \cup {x} \in T
    <3> DEFINE u == C \cup (s \cup {x})
    <3>1. u \in SUBSET D /\ x \in u /\ u \ {x} = C \cup s /\ C \cup s \in SUBSET D /\ x \in D \ C
      OBVIOUS
    <3> HIDE DEF u
    <3>2. Copies(e, g[u]) = Copies(e, g[C \cup s]) + Copies(e, mg[x])
      BY <3>1, SumStep
    <3>3. Copies(e, mg[x]) = 0 /\ Copies(e, g[C \cup s]) \in Nat
      <4>1. mg[x] = EmptyBag
        BY <3>1
      <4> QED
        BY <3>1, <4>1, EmptyBagCopies, SumType
    <3>4. Copies(e, g[C \cup s]) = Copies(e, g[C])
      BY <2>2
    <3>5. Copies(e, g[u]) = Copies(e, g[C])
      BY <3>2, <3>3, <3>4
    <3> QED
      BY <3>5 DEF u
  <2> HIDE DEF T
  <2>3. \A s \in SUBSET (D \ C) : s \in T
    <3> DEFINE R == D \ C
    <3>1. IsFiniteSet(R) /\ \A s \in SUBSET R : \A x \in R \ s : s \in T => s \cup {x} \in T
      BY <1>1, <2>2
    <3> HIDE DEF R
    <3>2. \A s \in SUBSET R : s \in T
      BY <2>1, <3>1, FiniteSetInduction
    <3> QED
      BY <3>2 DEF R
  <2>4. D \ C \in T /\ C \cup (D \ C) = D
    BY <2>3
  <2>5. Copies(e, g[D]) = Copies(e, g[C])
    BY <2>4 DEF T
  <2>6. Copies(e, f[C]) + Copies(e, base) = Copies(e, g[C]) + Copies(e, base)
    <3>1. Share(C, E, f, C, base, mf, tf, g, D, base, mg, tg)
      BY <1>0, <1>1 DEF Share
    <3> QED
      BY <3>1, SumsKeepPace
  <2>7. Copies(e, base) \in Nat /\ Copies(e, f[C]) \in Nat /\ Copies(e, g[C]) \in Nat
    BY <1>0, SumType
  <2> QED
    BY <1>2, <2>5, <2>6, <2>7
<1> QED
  BY <1>2, <1>3, SameBag

\* One summand more.
LEMMA OneMore ==
  ASSUME NEW E, NEW D, IsFiniteSet(D), NEW l, l \notin D, NEW base,
         NEW f, NEW mf, NEW tf, IsSum(f, D \cup {l}, E, base, mf, tf),
         NEW g, NEW mg, NEW tg, IsSum(g, D, E, base, mg, tg),
         \A x \in D : mf[x] = mg[x]
  PROVE  tf = tg (+) mf[l]
<1> DEFINE C == D \cup {l}
<1>1. /\ D \in SUBSET D /\ D \in SUBSET C /\ C \in SUBSET C /\ C \ {l} = D /\ l \in C
      /\ D \subseteq C /\ D \subseteq D /\ IsSum(f, C, E, base, mf, tf)
  OBVIOUS
<1> HIDE DEF C
<1>2. /\ tf \in Bags(E) /\ tg \in Bags(E) /\ f[C] = tf /\ g[D] = tg
      /\ base \in Bags(E) /\ mf[l] \in Bags(E)
  BY <1>1, SumType DEF IsSum
<1>3. tg (+) mf[l] \in Bags(E) /\ \A e : Copies(e, tg (+) mf[l]) = Copies(e, tg) + Copies(e, mf[l])
  BY <1>2, SumCopies
<1>4. ASSUME NEW e PROVE Copies(e, tf) = Copies(e, tg (+) mf[l])
  <2>1. Copies(e, f[D]) + Copies(e, base) = Copies(e, g[D]) + Copies(e, base)
    <3>1. Share(D, E, f, C, base, mf, tf, g, D, base, mg, tg)
      BY <1>1 DEF Share
    <3> QED
      BY <3>1, SumsKeepPace
  <2>2. Copies(e, f[C]) = Copies(e, f[D]) + Copies(e, mf[l])
    <3>1. C \in SUBSET C /\ l \in C /\ IsSum(f, C, E, base, mf, tf) /\ C \ {l} = D
      BY <1>1
    <3>2. Copies(e, f[C]) = Copies(e, f[C \ {l}]) + Copies(e, mf[l])
      BY SMTT(30), <3>1, SumStep
    <3> QED
      BY <3>1, <3>2
  <2>3. /\ Copies(e, base) \in Nat /\ Copies(e, f[D]) \in Nat /\ Copies(e, g[D]) \in Nat
        /\ Copies(e, mf[l]) \in Nat
    BY <1>1, SumType
  <2> QED
    BY <1>2, <1>3, <2>1, <2>2, <2>3
<1> QED
  BY <1>2, <1>3, <1>4, SameBag

(* Sums, without the function behind them. *)

\* total is base and the bags m has for the elements of D.
Sums(D, E, base, m, total) == IsFiniteSet(D) /\ \E f : IsSum(f, D, E, base, m, total)

LEMMA SumsType ==
  ASSUME NEW D, NEW E, NEW base, NEW m, NEW total, Sums(D, E, base, m, total)
  PROVE  /\ IsFiniteSet(D) /\ base \in Bags(E) /\ m \in [D -> Bags(E)] /\ total \in Bags(E)
         /\ (D = {} => total = base)
<1>1. PICK f : IsSum(f, D, E, base, m, total)
  BY DEF Sums
<1>2. IsFiniteSet(D)
  BY DEF Sums
<1>3. total \in Bags(E)
  BY <1>1, SumType
<1> QED
  BY <1>1, <1>2, <1>3 DEF IsSum

LEMMA SumsExist ==
  ASSUME NEW D, IsFiniteSet(D), NEW E, NEW base \in Bags(E), NEW m \in [D -> Bags(E)]
  PROVE  \E total : Sums(D, E, base, m, total)
<1>1. PICK f : Adding(f, D, base, m)
  BY SumExists
<1>2. IsSum(f, D, E, base, m, f[D])
  BY <1>1, SumAdds
<1> QED
  BY <1>2 DEF Sums

\* What one place loses the start of the sum gains, or the other way round.
LEMMA SumsMove ==
  ASSUME NEW E, NEW D, NEW l \in D, NEW a, NEW mf, NEW tf, Sums(D, E, a, mf, tf),
         NEW b, NEW mg, NEW tg, Sums(D, E, b, mg, tg),
         \A x \in D \ {l} : mf[x] = mg[x],
         \A e : Copies(e, a) + Copies(e, mf[l]) = Copies(e, b) + Copies(e, mg[l])
  PROVE  tf = tg
<1>1. PICK f : IsSum(f, D, E, a, mf, tf)
  BY DEF Sums
<1>2. PICK g : IsSum(g, D, E, b, mg, tg)
  BY DEF Sums
<1>3. IsFiniteSet(D)
  BY DEF Sums
<1> QED
  BY <1>1, <1>2, <1>3, OnePlace

\* Only the start differs.
LEMMA SumsStart ==
  ASSUME NEW E, NEW D, NEW a, NEW b, NEW m, NEW tf, NEW tg,
         Sums(D, E, a, m, tf), Sums(D, E, b, m, tg), NEW e
  PROVE  Copies(e, tf) + Copies(e, b) = Copies(e, tg) + Copies(e, a)
<1>1. PICK f : IsSum(f, D, E, a, m, tf)
  BY DEF Sums
<1>2. PICK g : IsSum(g, D, E, b, m, tg)
  BY DEF Sums
<1>3. Share(D, E, f, D, a, m, tf, g, D, b, m, tg)
  BY <1>1, <1>2 DEF Share, Sums
<1>4. Copies(e, f[D]) + Copies(e, b) = Copies(e, g[D]) + Copies(e, a)
  BY <1>3, SumsKeepPace
<1>5. f[D] = tf /\ g[D] = tg
  BY <1>1, <1>2 DEF IsSum
<1> QED
  BY <1>4, <1>5

\* Empty summands do not count.
LEMMA SumsPart ==
  ASSUME NEW E, NEW D, NEW C, C \subseteq D, NEW base,
         NEW mf, NEW tf, Sums(C, E, base, mf, tf), NEW mg, NEW tg, Sums(D, E, base, mg, tg),
         \A x \in C : mf[x] = mg[x], \A x \in D \ C : mg[x] = EmptyBag
  PROVE  tf = tg
<1>1. PICK f : IsSum(f, C, E, base, mf, tf)
  BY DEF Sums
<1>2. PICK g : IsSum(g, D, E, base, mg, tg)
  BY DEF Sums
<1>3. IsFiniteSet(D)
  BY DEF Sums
<1> QED
  BY <1>1, <1>2, <1>3, SumOverPart

LEMMA SumsOneMore ==
  ASSUME NEW E, NEW D, NEW l, l \notin D, NEW base,
         NEW mf, NEW tf, Sums(D \cup {l}, E, base, mf, tf),
         NEW mg, NEW tg, Sums(D, E, base, mg, tg),
         \A x \in D : mf[x] = mg[x]
  PROVE  tf = tg (+) mf[l]
<1>1. PICK f : IsSum(f, D \cup {l}, E, base, mf, tf)
  BY DEF Sums
<1>2. PICK g : IsSum(g, D, E, base, mg, tg)
  BY DEF Sums
<1>3. IsFiniteSet(D)
  BY DEF Sums
<1> QED
  BY <1>1, <1>2, <1>3, OneMore

-----------------------------------------------------------------------------
(* The three sums of the game. *)

Grounds(w) == [id \in DOMAIN w |-> BagOf(w[id].items)]

LEMMA LyingItems ==
  ASSUME NEW w \in Worlds, NEW id \in DOMAIN w
  PROVE  w[id].items \in Seq(Item)
<1>1. w[id] \in Place
  BY MapsType DEF Worlds
<1> QED
  BY <1>1 DEF Place

LEMMA AllItemsSum ==
  ASSUME NEW p, p.inv \in Seq(Item), NEW w \in Worlds, IsFiniteSet(DOMAIN w)
  PROVE  Sums(DOMAIN w, Item, BagOf(p.inv), Grounds(w), AllItems(p, w))
<1> DEFINE D == DOMAIN w
           base == BagOf(p.inv)
           m == Grounds(w)
           Is(f) == f = [s \in SUBSET D |->
                          IF s = {} THEN base
                          ELSE f[s \ {CHOOSE x \in s : TRUE}] (+) BagOf(w[CHOOSE x \in s : TRUE].items)]
           fold == CHOOSE f : Is(f)
<1>1. AllItems(p, w) = fold[D]
  BY DEF AllItems, FoldSet, MapThenFoldSet
<1>2. base \in Bags(Item)
  BY BagOfType
<1>3. \A id \in D : w[id].items \in Seq(Item)
  BY LyingItems
<1>4. m = [id \in D |-> BagOf(w[id].items)]
  BY DEF Grounds
<1> HIDE DEF m, base, Item, D
<1>5. m \in [D -> Bags(Item)]
  BY <1>3, <1>4, BagOfType
<1>6. \A s \in SUBSET D : s # {} => AnyOf(s) \in D /\ BagOf(w[AnyOf(s)].items) = m[AnyOf(s)]
  BY <1>4 DEF AnyOf
<1>7. \A f : Is(f) <=> Adding(f, D, base, m)
  BY <1>6 DEF Adding, AnyOf
<1>8. PICK F : Adding(F, D, base, m)
  BY <1>2, <1>5, SumExists DEF D
<1>9. Is(fold)
  <2>1. Is(F)
    BY <1>7, <1>8
  <2> HIDE DEF Is
  <2> QED
    BY <2>1
<1> HIDE DEF Is, fold
<1>10. Adding(fold, D, base, m)
  BY <1>7, <1>9
<1>11. IsSum(fold, D, Item, base, m, fold[D])
  BY <1>2, <1>5, <1>10, SumAdds DEF D
<1>12. Sums(D, Item, base, m, fold[D])
  BY <1>11 DEF Sums, D
<1> QED
  BY <1>1, <1>12 DEF D, base, m

Piles(b) == [id \in DOMAIN b.wloc |-> BagOf(Pretty(b.wloc[id]))]

LEMMA BodyItemsSum ==
  ASSUME NEW b, Readable(b), IsFiniteSet(DOMAIN b.wloc)
  PROVE  Sums(DOMAIN b.wloc, Item, BagOf(Pretty(b.inv)), Piles(b), BodyItems(b))
<1> DEFINE D == DOMAIN b.wloc
           base == BagOf(Pretty(b.inv))
           m == Piles(b)
           Is(f) == f = [s \in SUBSET D |->
                          IF s = {} THEN base
                          ELSE f[s \ {CHOOSE x \in s : TRUE}]
                                 (+) BagOf(Pretty(b.wloc[CHOOSE x \in s : TRUE]))]
           fold == CHOOSE f : Is(f)
<1>1. BodyItems(b) = fold[D]
  BY DEF BodyItems, FoldSet, MapThenFoldSet
<1>2. base \in Bags(Item)
  BY BagOfType, PrettyType DEF Readable
<1>3. \A id \in D : Pretty(b.wloc[id]) \in Seq(Item)
  BY PrettyType DEF Readable
<1>4. m = [id \in D |-> BagOf(Pretty(b.wloc[id]))]
  BY DEF Piles
<1> HIDE DEF m, base, Item, D
<1>5. m \in [D -> Bags(Item)]
  BY <1>3, <1>4, BagOfType
<1>6. \A s \in SUBSET D : s # {} => AnyOf(s) \in D /\ BagOf(Pretty(b.wloc[AnyOf(s)])) = m[AnyOf(s)]
  BY <1>4 DEF AnyOf
<1>7. \A f : Is(f) <=> Adding(f, D, base, m)
  BY <1>6 DEF Adding, AnyOf
<1>8. PICK F : Adding(F, D, base, m)
  BY <1>2, <1>5, SumExists DEF D
<1>9. Is(fold)
  <2>1. Is(F)
    BY <1>7, <1>8
  <2> HIDE DEF Is
  <2> QED
    BY <2>1
<1> HIDE DEF Is, fold
<1>10. Adding(fold, D, base, m)
  BY <1>7, <1>9
<1>11. IsSum(fold, D, Item, base, m, fold[D])
  BY <1>2, <1>5, <1>10, SumAdds DEF D
<1>12. Sums(D, Item, base, m, fold[D])
  BY <1>11 DEF Sums, D
<1> QED
  BY <1>1, <1>12 DEF D, base, m

(* Items that change hands, and items in a save. *)

\* What the ground at l loses the player has, and the other way round.
Handed(w, w2, l, p, p2) ==
  /\ w \in Worlds /\ w2 \in Worlds /\ IsFiniteSet(DOMAIN w) /\ DOMAIN w2 = DOMAIN w
  /\ l \in DOMAIN w /\ \A id \in DOMAIN w \ {l} : w2[id] = w[id]
  /\ p.inv \in Seq(Item) /\ p2.inv \in Seq(Item)
  /\ \A e : Copies(e, BagOf(p.inv)) + Copies(e, BagOf(w[l].items))
              = Copies(e, BagOf(p2.inv)) + Copies(e, BagOf(w2[l].items))

LEMMA ItemsChangeHands ==
  ASSUME NEW w, NEW w2, NEW l, NEW p, NEW p2, Handed(w, w2, l, p, p2)
  PROVE  AllItems(p2, w2) = AllItems(p, w)
<1>0. /\ w \in Worlds /\ w2 \in Worlds /\ IsFiniteSet(DOMAIN w) /\ DOMAIN w2 = DOMAIN w
      /\ l \in DOMAIN w /\ \A id \in DOMAIN w \ {l} : w2[id] = w[id]
      /\ p.inv \in Seq(Item) /\ p2.inv \in Seq(Item)
  BY DEF Handed
<1> DEFINE D == DOMAIN w
           mf == Grounds(w)
           mg == Grounds(w2)
<1>1. mf[l] = BagOf(w[l].items) /\ mg[l] = BagOf(w2[l].items) /\ \A x \in D \ {l} : mf[x] = mg[x]
  BY <1>0 DEF Grounds
<1>2. Sums(D, Item, BagOf(p.inv), mf, AllItems(p, w))
  BY <1>0, AllItemsSum
<1>3. Sums(D, Item, BagOf(p2.inv), mg, AllItems(p2, w2))
  <2>1. Sums(DOMAIN w2, Item, BagOf(p2.inv), Grounds(w2), AllItems(p2, w2))
    BY <1>0, AllItemsSum
  <2> QED
    BY <1>0, <2>1
<1> HIDE DEF mf, mg, Item
<1>4. \A e : Copies(e, BagOf(p.inv)) + Copies(e, mf[l]) = Copies(e, BagOf(p2.inv)) + Copies(e, mg[l])
  BY <1>1 DEF Handed
<1>5. AllItems(p, w) = AllItems(p2, w2)
  BY <1>0, <1>1, <1>2, <1>3, <1>4, SumsMove
<1> QED
  BY <1>5

LEMMA OneItemGone ==
  ASSUME NEW w \in Worlds, IsFiniteSet(DOMAIN w), NEW it \in Item,
         NEW p, p.inv \in Seq(Item), NEW p2, p2.inv \in Seq(Item),
         \A e : Copies(e, BagOf(p.inv)) = Copies(e, BagOf(p2.inv)) + IF e = it THEN 1 ELSE 0
  PROVE  AllItems(p2, w) = BagRemove(AllItems(p, w), it)
<1> DEFINE all == AllItems(p, w)
           rest == AllItems(p2, w)
           one(e) == IF e = it THEN 1 ELSE 0
<1>1. /\ Sums(DOMAIN w, Item, BagOf(p.inv), Grounds(w), all)
      /\ Sums(DOMAIN w, Item, BagOf(p2.inv), Grounds(w), rest)
  BY AllItemsSum
<1>2. BagOf(p.inv) \in Bags(Item) /\ BagOf(p2.inv) \in Bags(Item)
  BY BagOfType
<1> HIDE DEF all, rest, Item
<1>3. all \in Bags(Item) /\ rest \in Bags(Item)
  BY <1>1, SumsType
<1>4. \A e : /\ Copies(e, all) \in Nat /\ Copies(e, rest) \in Nat
             /\ Copies(e, BagOf(p.inv)) \in Nat /\ Copies(e, BagOf(p2.inv)) \in Nat
  BY <1>2, <1>3, BagType
<1>5. \A e : Copies(e, all) + Copies(e, BagOf(p2.inv)) = Copies(e, rest) + Copies(e, BagOf(p.inv))
  BY <1>1, SumsStart
<1>6. \A e : Copies(e, all) = Copies(e, rest) + one(e)
  <2> TAKE e
  <2>1. Copies(e, BagOf(p.inv)) = Copies(e, BagOf(p2.inv)) + one(e) /\ one(e) \in Nat
    OBVIOUS
  <2>2. Copies(e, all) + Copies(e, BagOf(p2.inv)) = Copies(e, rest) + Copies(e, BagOf(p.inv))
    BY <1>5
  <2>3. /\ Copies(e, all) \in Nat /\ Copies(e, rest) \in Nat
        /\ Copies(e, BagOf(p.inv)) \in Nat /\ Copies(e, BagOf(p2.inv)) \in Nat
    BY <1>4
  <2> HIDE DEF one
  <2> QED
    BY SMTT(30), <2>1, <2>2, <2>3
<1>7. Copies(it, all) # 0
  <2>1. Copies(it, all) = Copies(it, rest) + 1 /\ Copies(it, rest) \in Nat
    BY <1>4, <1>6
  <2> QED
    BY <2>1
<1>8. /\ BagRemove(all, it) \in Bags(Item)
      /\ \A e : Copies(e, BagRemove(all, it)) = Copies(e, all) - one(e)
  BY <1>3, <1>7, RemoveCopies
<1>9. \A e \in Item : Copies(e, rest) = Copies(e, BagRemove(all, it))
  <2> TAKE e \in Item
  <2>1. Copies(e, BagRemove(all, it)) = Copies(e, all) - one(e)
    BY <1>8
  <2>2. Copies(e, all) = Copies(e, rest) + one(e) /\ Copies(e, rest) \in Nat /\ one(e) \in Nat
    BY <1>4, <1>6
  <2> HIDE DEF one
  <2> QED
    BY <2>1, <2>2
<1> HIDE DEF one
<1>10. rest = BagRemove(all, it)
  BY <1>3, <1>8, <1>9, SameBag
<1> QED
  BY <1>10 DEF all, rest

\* A save holds what there is.
LEMMA SavedItems ==
  ASSUME NEW w \in Worlds, IsFiniteSet(DOMAIN w), NEW p, p.inv \in Seq(Item), NEW l,
         Readable(Body(p, w, l))
  PROVE  BodyItems(Body(p, w, l)) = AllItems(p, w)
<1> DEFINE b == Body(p, w, l)
           full == {id \in DOMAIN w : w[id].items # <<>>}
<1>1. b.inv = ItemLines(p.inv) /\ b.wloc = [id \in full |-> ItemLines(w[id].items)]
  BY DEF Body
<1>2. DOMAIN b.wloc = full /\ full \subseteq DOMAIN w /\ \A id \in full : b.wloc[id] = ItemLines(w[id].items)
  BY <1>1
<1>3. \A id \in DOMAIN w : w[id].items \in Seq(Item)
  BY LyingItems
<1>4. Pretty(b.inv) = p.inv
  BY <1>1, ItemLinesType
<1>5. \A id \in full : Pretty(b.wloc[id]) = w[id].items
  BY <1>2, <1>3, ItemLinesType
<1> HIDE DEF b
<1>6. IsFiniteSet(full)
  BY <1>2, PartFinite
<1>7. Sums(full, Item, BagOf(p.inv), Piles(b), BodyItems(b))
  <2>1. Readable(b)
    BY DEF b
  <2>2. Sums(DOMAIN b.wloc, Item, BagOf(Pretty(b.inv)), Piles(b), BodyItems(b))
    BY <1>2, <1>6, <2>1, BodyItemsSum
  <2> QED
    BY <1>2, <1>4, <2>2
<1>8. Sums(DOMAIN w, Item, BagOf(p.inv), Grounds(w), AllItems(p, w))
  BY AllItemsSum
<1>9. \A id \in full : Piles(b)[id] = Grounds(w)[id]
  BY <1>2, <1>5 DEF Piles, Grounds
<1>10. \A id \in DOMAIN w \ full : Grounds(w)[id] = EmptyBag
  BY BagOfEmpty DEF Grounds
<1> HIDE DEF full
<1>11. BodyItems(b) = AllItems(p, w)
  BY <1>2, <1>7, <1>8, <1>9, <1>10, SumsPart
<1> QED
  BY <1>11 DEF b

\* What a load puts into the game is what the save holds.
LEMMA LoadedItems ==
  ASSUME NEW b, Readable(b), NEW w \in Worlds, IsFiniteSet(DOMAIN w), DOMAIN b.wloc \subseteq DOMAIN w,
         Applied(b, w).world \in Worlds
  PROVE  /\ AllItems(Applied(b, w).player, Applied(b, w).world) = BodyItems(b)
         /\ DOMAIN Applied(b, w).world = DOMAIN w
<1> DEFINE p == Applied(b, w).player
           new == Applied(b, w).world
           D == DOMAIN w
           C == DOMAIN b.wloc
<1>1. p.inv = Pretty(b.inv) /\ p.inv \in Seq(Item)
  <2>1. p.inv = Pretty(b.inv)
    BY DEF Applied
  <2> QED
    BY <2>1, PrettyType DEF Readable
<1>2. /\ DOMAIN new = D
      /\ \A id \in D : new[id].items = IF id \in C THEN Pretty(b.wloc[id]) ELSE <<>>
  <2> DEFINE lies(id) == IF id \in C THEN Pretty(b.wloc[id]) ELSE <<>>
  <2>1. new = [id \in D |-> [w[id] EXCEPT !.items = lies(id)]]
    BY DEF Applied
  <2>2. \A id \in D : w[id] \in Place
    BY MapsType DEF Worlds
  <2> HIDE DEF lies, new
  <2>3. \A id \in D : new[id].items = lies(id)
    BY <2>1, <2>2 DEF Place
  <2> QED
    BY <2>1, <2>3 DEF lies
<1> HIDE DEF p, new
<1>3. new \in Worlds /\ IsFiniteSet(D) /\ C \subseteq D
  BY DEF new
<1>4. IsFiniteSet(C)
  BY <1>3, PartFinite
<1>5. Sums(C, Item, BagOf(p.inv), Piles(b), BodyItems(b))
  BY <1>1, <1>4, BodyItemsSum
<1>6. Sums(D, Item, BagOf(p.inv), Grounds(new), AllItems(p, new))
  <2>1. IsFiniteSet(DOMAIN new)
    BY <1>2, <1>3
  <2>2. Sums(DOMAIN new, Item, BagOf(p.inv), Grounds(new), AllItems(p, new))
    BY <1>1, <1>3, <2>1, AllItemsSum
  <2> QED
    BY <1>2, <2>2
<1>7. \A id \in C : Piles(b)[id] = Grounds(new)[id]
  BY <1>2, <1>3 DEF Piles, Grounds
<1>8. \A id \in D \ C : Grounds(new)[id] = EmptyBag
  BY <1>2, BagOfEmpty DEF Grounds
<1>10. DOMAIN new = DOMAIN w
  BY <1>2
<1> HIDE DEF C, D
<1>9. BodyItems(b) = AllItems(p, new)
  BY <1>3, <1>5, <1>6, <1>7, <1>8, SumsPart
<1> QED
  BY <1>9, <1>10 DEF p, new

(* The parser, line by line. *)

\* The parser after each line.
Runs(h, lines) ==
  /\ h \in [0 .. Len(lines) -> Parser] /\ h[0] = NoLines
  /\ h[Len(lines)] = FoldLeft(ParseLine, NoLines, lines)
  /\ \A i \in 1 .. Len(lines) : h[i] = ParseLine(h[i - 1], lines[i])

LEMMA LinesRun ==
  ASSUME NEW seq \in Seq(LineFields)
  PROVE  \E h : Runs(h, seq)
<1> DEFINE m == Len(seq)
           Turn(s, l) == ParseLine(s, l)
           g == [p \in Parser \X (1 .. m) |-> Turn(p[1], seq[p[2]])]
           end == FoldLeft(ParseLine, NoLines, seq)
           Is(f) == f = [s \in SUBSET DOMAIN seq |->
                          IF s = {} THEN NoLines ELSE Turn(f[s \ {Max(s)}], seq[Max(s)])]
           fold == CHOOSE f : Is(f)
<1>1. m \in Nat /\ NoLines \in Parser
  <2>1. m \in Nat
    OBVIOUS
  <2> HIDE DEF m
  <2>2. NoDraft \in Draft /\ <<>> \in Worlds
    BY MapsEmpty DEF NoDraft, Draft, Ways, Text, Worlds
  <2> QED
    BY <2>1, <2>2 DEF NoLines, Parser
<1>2. \A s \in Parser, l \in LineFields : Turn(s, l) \in Parser
  BY ParseLineType
<1>3. end = fold[DOMAIN seq]
  BY DEF FoldLeft, MapThenFoldSet
<1>0. DOMAIN seq = 1 .. m /\ \A i \in 1 .. m : seq[i] \in LineFields
  OBVIOUS
<1> HIDE DEF m, Turn, end
<1>4. g \in [Parser \X (1 .. m) -> Parser]
  BY <1>0, <1>2
<1>5. PICK F : Folds(F, Parser, m, NoLines, g)
  BY <1>1, <1>4, FoldExists
<1>6. \A s \in SUBSET (1 .. m) : s # {} => Max(s) \in 1 .. m
  BY <1>1, MaxIndex
<1>7. Is(F)
  <2>1. \A s \in SUBSET (1 .. m) : s # {} =>
          g[<<F[s \ {Max(s)}], Max(s)>>] = Turn(F[s \ {Max(s)}], seq[Max(s)])
    BY <1>5, <1>6 DEF Folds
  <2> HIDE DEF g
  <2> QED
    BY <1>0, <1>5, <2>1 DEF Folds
<1>8. Is(fold)
  BY <1>7
<1> HIDE DEF fold
<1>9. fold[{}] = NoLines
  BY <1>0, <1>1, <1>8
<1>10. Climbs(fold, m, Parser, NoLines, g)
  <2>1. \A s \in SUBSET (1 .. m) : s # {} => fold[s] = Turn(fold[s \ {Max(s)}], seq[Max(s)])
    BY <1>0, <1>8
  <2> HIDE DEF Is
  <2> QED
    BY <1>6, <1>9, <2>1 DEF Climbs
<1> HIDE DEF Is
<1>11. PICK h : Steps(h, m, Parser, NoLines, g, fold[1 .. m])
  <2> HIDE DEF g
  <2> QED
    BY <1>1, <1>4, <1>10, FoldSteps
<1>12. \A i \in 1 .. m : h[i] = Turn(h[i - 1], seq[i])
  <2>1. \A i \in 1 .. m : i - 1 \in 0 .. m
    BY <1>1
  <2> QED
    BY <1>11, <2>1 DEF Steps
<1> QED
  BY <1>0, <1>3, <1>11, <1>12 DEF m, end, Turn, Steps, Runs

LEMMA ReadItemType ==
  ASSUME NEW l \in LineFields
  PROVE  [l.item EXCEPT !.name = Unescape(@)] \in Item
<1>1. l.item \in ItemFields /\ l.item.name \in Word
  BY TextIsWord DEF LineFields, ItemFields
<1> QED
  BY <1>1, UnescapeType DEF ItemFields, Item

\* What a good line does.
Heads(s, l) == l.key = "location" /\ l.id # <<>> /\ ParseLine(s, l) = [Commit(s) EXCEPT !.draft.id = l.id]
Names(s, l) == l.key \in {"name", "desc"} /\ ParseLine(s, l) = s
Leads(s, l) == l.key = "exit" /\ ParseLine(s, l) = [s EXCEPT !.draft.exits = Put(@, l.dir, l.to)]
Lays(s, l) ==
  /\ l.key = "item"
  /\ ParseLine(s, l) = [s EXCEPT !.draft.items = Append(@, [l.item EXCEPT !.name = Unescape(@)])]

Good(s, l) ==
  \/ Heads(s, l)
  \/ s.draft.id # <<>> /\ (Names(s, l) \/ Leads(s, l) \/ Lays(s, l))

LEMMA GoodLine ==
  ASSUME NEW s \in Parser, NEW l \in LineFields, ParseLine(s, l).ok
  PROVE  s.ok /\ Good(s, l)
<1> DEFINE Bad == [s EXCEPT !.ok = FALSE]
<1>1. ~Bad.ok
  BY DEF Parser
<1>2. s.ok /\ ParseLine(s, l) # Bad
  BY <1>1 DEF ParseLine
<1>3. CASE l.key = "location"
  <2>1. Heads(s, l)
    BY <1>2, <1>3 DEF ParseLine, Heads
  <2> QED
    BY <1>2, <2>1 DEF Good
<1>4. CASE l.key # "location"
  <2>1. s.draft.id # <<>>
    BY <1>2, <1>4 DEF ParseLine
  <2>2. CASE l.key \in {"name", "desc"}
    BY <1>2, <1>4, <2>1, <2>2 DEF ParseLine, Names, Good
  <2>3. CASE l.key = "exit"
    BY <1>2, <1>4, <2>1, <2>3 DEF ParseLine, Leads, Good
  <2>4. CASE l.key = "item"
    BY <1>2, <1>4, <2>1, <2>4 DEF ParseLine, Lays, Good
  <2>5. l.key \in {"name", "desc", "exit", "item"}
    BY <1>2, <1>4, <2>1 DEF ParseLine
  <2> QED
    BY <2>1, <2>2, <2>3, <2>4, <2>5
<1> QED
  BY <1>2, <1>3, <1>4 DEF Good

\* The last of the first k lines that heads a location is line c, and the places so
\* far are those of the headings before it.
Under(lines, k, s, c) ==
  /\ c \in 1 .. k /\ lines[c].key = "location" /\ \A j \in c + 1 .. k : lines[j].key # "location"
  /\ s.draft.id = lines[c].id /\ s.draft.id # <<>>
  /\ DOMAIN s.world = {lines[j].id : j \in {i \in 1 .. c - 1 : lines[i].key = "location"}}

Shape(lines, k, s) ==
  \/ k = 0 /\ s = NoLines
  \/ \E c : Under(lines, k, s, c)

LEMMA ShapeKept ==
  ASSUME NEW lines \in Seq(LineFields), NEW k \in 0 .. Len(lines) - 1, NEW s \in Parser,
         Shape(lines, k, s), ParseLine(s, lines[k + 1]).ok
  PROVE  Shape(lines, k + 1, ParseLine(s, lines[k + 1]))
<1> DEFINE l == lines[k + 1]
           new == ParseLine(s, l)
<1>1. k \in Nat /\ k + 1 \in 1 .. Len(lines) /\ l \in LineFields
  OBVIOUS
<1>2. new \in Parser
  BY <1>1, ParseLineType
<1>3. CASE Heads(s, l)
  <2> DEFINE ids(n) == {lines[j].id : j \in {i \in 1 .. n : lines[i].key = "location"}}
  <2>1. new.draft.id = l.id /\ new.world = Commit(s).world /\ l.id # <<>> /\ l.key = "location"
    <3>1. Commit(s) \in Parser /\ new = [Commit(s) EXCEPT !.draft.id = l.id]
      BY <1>3, CommitType DEF Heads
    <3> QED
      BY <1>3, <3>1 DEF Parser, Draft, Heads
  <2>2. DOMAIN Commit(s).world = ids(k)
    <3>1. CASE k = 0 /\ s = NoLines
      BY <3>1 DEF NoLines, NoDraft, Commit
    <3>2. ASSUME NEW c, Under(lines, k, s, c)
          PROVE  DOMAIN Commit(s).world = ids(k)
      <4>0. /\ c \in 1 .. k /\ lines[c].key = "location"
            /\ \A j \in c + 1 .. k : lines[j].key # "location"
            /\ s.draft.id = lines[c].id /\ s.draft.id # <<>>
            /\ DOMAIN s.world = ids(c - 1)
        BY <3>2 DEF Under
      <4>1. DOMAIN Commit(s).world = DOMAIN s.world \cup {s.draft.id}
        BY <4>0 DEF Commit, AddLocation, Put, Parser
      <4>2. {i \in 1 .. k : lines[i].key = "location"} = {i \in 1 .. c - 1 : lines[i].key = "location"} \cup {c}
        <5>1. \A i \in 1 .. k : i \in 1 .. c - 1 \/ i = c \/ i \in c + 1 .. k
          BY <1>1, <4>0
        <5>2. 1 .. c - 1 \subseteq 1 .. k /\ c \in 1 .. k
          BY <1>1, <4>0
        <5> QED
          BY <4>0, <5>1, <5>2
      <4>3. ids(k) = ids(c - 1) \cup {lines[c].id}
        BY <4>2
      <4> QED
        BY <4>0, <4>1, <4>3
    <3> HIDE DEF ids
    <3> QED
      BY <3>1, <3>2 DEF Shape
  <2>3. k + 1 \in 1 .. k + 1 /\ (k + 1) - 1 = k /\ \A j \in (k + 1) + 1 .. k + 1 : FALSE
    BY <1>1
  <2> HIDE DEF new
  <2>4. Under(lines, k + 1, new, k + 1)
    BY <2>1, <2>2, <2>3 DEF Under
  <2>5. Shape(lines, k + 1, new)
    BY <2>4 DEF Shape
  <2> QED
    BY <2>5 DEF new
<1>4. CASE s.draft.id # <<>> /\ (Names(s, l) \/ Leads(s, l) \/ Lays(s, l))
  <2>1. new.draft.id = s.draft.id /\ new.world = s.world /\ l.key # "location"
    <3>1. CASE Names(s, l)
      BY <3>1 DEF Names
    <3>2. CASE Leads(s, l)
      BY <3>2 DEF Leads, Parser, Draft
    <3>3. CASE Lays(s, l)
      BY <3>3 DEF Lays, Parser, Draft
    <3> QED
      BY <1>4, <3>1, <3>2, <3>3
  <2> HIDE DEF new
  <2>2. s # NoLines
    BY <1>4 DEF NoLines, NoDraft
  <2>3. PICK c : Under(lines, k, s, c)
    BY <2>2 DEF Shape
  <2>4. c \in 1 .. k + 1 /\ \A j \in c + 1 .. k + 1 : j \in c + 1 .. k \/ j = k + 1
    BY <1>1, <2>3 DEF Under
  <2>5. \A j \in c + 1 .. k + 1 : lines[j].key # "location"
    BY <2>1, <2>3, <2>4 DEF Under
  <2> HIDE DEF l
  <2>6. Under(lines, k + 1, new, c)
    BY <2>1, <2>3, <2>4, <2>5 DEF Under
  <2>7. Shape(lines, k + 1, new)
    BY <2>6 DEF Shape
  <2> QED
    BY <2>7 DEF new, l
<1>5. Good(s, l)
  <2>1. ParseLine(s, l).ok
    OBVIOUS
  <2> HIDE DEF l
  <2> QED
    BY <1>1, <2>1, GoodLine
<1> QED
  BY <1>3, <1>4, <1>5 DEF Good

(* The lines that count, and what lies in a world. *)

HeadingAt(lines, i) == SelectLastInSeq(SubSeq(lines, 1, i), LAMBDA l : l.key = "location")
FirstAt(lines, i) ==
  SelectInSeq(lines, LAMBDA l : l.key = "location" /\ l.id = lines[HeadingAt(lines, i)].id)
Counted(lines) == {i \in DOMAIN lines : lines[i].key = "item" /\ HeadingAt(lines, i) = FirstAt(lines, i)}

\* A line counts when the location it is under is new.
LEMMA UnderHeading ==
  ASSUME NEW lines \in Seq(LineFields), NEW k \in 1 .. Len(lines), NEW s, NEW c, Under(lines, k, s, c)
  PROVE  HeadingAt(lines, k) = FirstAt(lines, k) <=> s.draft.id \notin DOMAIN s.world
<1> DEFINE n == Len(lines)
           I == {i \in 1 .. k : lines[i].key = "location"}
           part == SubSeq(lines, 1, k)
           J == {i \in 1 .. n : lines[i].key = "location" /\ lines[i].id = lines[c].id}
<1>0. /\ c \in 1 .. k /\ lines[c].key = "location"
      /\ \A j \in c + 1 .. k : lines[j].key # "location"
      /\ s.draft.id = lines[c].id /\ s.draft.id # <<>>
      /\ DOMAIN s.world = {lines[j].id : j \in {i \in 1 .. c - 1 : lines[i].key = "location"}}
  BY DEF Under
<1>1. n \in Nat /\ k \in 1 .. n /\ k \in Nat
  OBVIOUS
<1>2. HeadingAt(lines, k) = c
  <2>1. Len(part) = k /\ \A i \in 1 .. k : part[i] = lines[i]
    OBVIOUS
  <2>2. {i \in 1 .. Len(part) : part[i].key = "location"} = I
    BY <2>1
  <2>3. HeadingAt(lines, k) = IF I # {} THEN Max(I) ELSE 0
    BY <2>2 DEF HeadingAt, SelectLastInSeq
  <2>4. c \in I /\ I \in SUBSET (1 .. k)
    BY <1>0
  <2>5. Max(I) \in I /\ \A y \in I : y <= Max(I)
    BY <1>1, <2>4, MaxIndex
  <2>6. \A i \in I : i > c => i \in c + 1 .. k
    BY <1>0
  <2> HIDE DEF part
  <2>7. Max(I) >= c /\ Max(I) \in Nat /\ c \in Nat /\ ~(Max(I) > c)
    BY <1>0, <2>4, <2>5, <2>6
  <2> QED
    BY <2>3, <2>4, <2>7
<1>3. FirstAt(lines, k) = IF J # {} THEN Min(J) ELSE 0
  BY <1>2 DEF FirstAt, SelectInSeq
<1>4. c \in J /\ J \in SUBSET Nat
  BY <1>0, <1>1
<1>5. Min(J) \in J /\ \A y \in J : Min(J) <= y
  BY <1>4, MinProperties
<1>6. FirstAt(lines, k) = Min(J)
  BY <1>3, <1>4
<1>7. Min(J) = c <=> ~\E j \in 1 .. c - 1 : j \in J
  <2>1. Min(J) \in Nat /\ Min(J) <= c /\ c \in Nat /\ Min(J) \in 1 .. n
    BY <1>4, <1>5
  <2>2. Min(J) # c => Min(J) \in 1 .. c - 1
    BY <2>1
  <2>3. \A j \in 1 .. c - 1 : ~(c <= j)
    BY <2>1
  <2> HIDE DEF J
  <2> QED
    BY <1>5, <2>2, <2>3
<1>8. (\E j \in 1 .. c - 1 : j \in J) <=> s.draft.id \in DOMAIN s.world
  <2>1. 1 .. c - 1 \subseteq 1 .. n
    BY <1>0, <1>1
  <2> QED
    BY <1>0, <2>1
<1> HIDE DEF J
<1> QED
  BY <1>2, <1>6, <1>7, <1>8

LEMMA CommitFinite ==
  ASSUME NEW s \in Parser, IsFiniteSet(DOMAIN s.world)
  PROVE  IsFiniteSet(DOMAIN Commit(s).world)
<1>1. DOMAIN Commit(s).world \subseteq DOMAIN s.world \cup {s.draft.id}
  BY DEF Commit, AddLocation, Put, Parser
<1>2. IsFiniteSet(DOMAIN s.world \cup {s.draft.id})
  BY OneMoreFinite
<1> QED
  BY <1>1, <1>2, PartFinite

LEMMA LineFinite ==
  ASSUME NEW s \in Parser, NEW l \in LineFields, IsFiniteSet(DOMAIN s.world)
  PROVE  IsFiniteSet(DOMAIN ParseLine(s, l).world)
<1>1. ParseLine(s, l).world \in {s.world, Commit(s).world}
  <2>1. Commit(s) \in Parser
    BY CommitType
  <2>2. CASE ~s.ok
    BY <2>2 DEF ParseLine
  <2>3. CASE s.ok /\ l.key = "location"
    BY <2>1, <2>3 DEF ParseLine, Parser
  <2>4. CASE s.ok /\ l.key # "location" /\ s.draft.id = <<>>
    BY <2>4 DEF ParseLine, Parser
  <2>5. CASE s.ok /\ l.key # "location" /\ s.draft.id # <<>>
    <3>1. CASE l.key \in {"name", "desc"}
      BY <2>5, <3>1 DEF ParseLine
    <3>2. CASE l.key = "exit"
      BY <2>5, <3>2 DEF ParseLine, Parser
    <3>3. CASE l.key = "item"
      BY <2>5, <3>3 DEF ParseLine, Parser
    <3>4. CASE l.key \notin {"name", "desc", "exit", "item"}
      BY <2>5, <3>4 DEF ParseLine, Parser
    <3> QED
      BY <3>1, <3>2, <3>3, <3>4
  <2> QED
    BY <2>2, <2>3, <2>4, <2>5
<1>2. CASE ParseLine(s, l).world = s.world
  BY <1>2
<1>3. CASE ParseLine(s, l).world = Commit(s).world
  BY <1>3, CommitFinite
<1> QED
  BY <1>1, <1>2, <1>3

-----------------------------------------------------------------------------
(* What lies around in a world. *)

Lying(w) == AllItems(Nobody, w)

LEMMA LyingSum ==
  ASSUME NEW w \in Worlds, IsFiniteSet(DOMAIN w)
  PROVE  Sums(DOMAIN w, Item, EmptyBag, Grounds(w), Lying(w))
<1>1. Nobody.inv = <<>> /\ Nobody.inv \in Seq(Item)
  BY DEF Nobody
<1>2. Sums(DOMAIN w, Item, BagOf(Nobody.inv), Grounds(w), AllItems(Nobody, w))
  BY <1>1, AllItemsSum
<1> QED
  BY <1>1, <1>2, BagOfEmpty DEF Lying

\* Places without items do not matter.
LEMMA LyingSame ==
  ASSUME NEW w \in Worlds, NEW w2 \in Worlds, IsFiniteSet(DOMAIN w), IsFiniteSet(DOMAIN w2),
         DOMAIN w \subseteq DOMAIN w2, \A id \in DOMAIN w : w2[id].items = w[id].items,
         \A id \in DOMAIN w2 \ DOMAIN w : w2[id].items = <<>>
  PROVE  Lying(w2) = Lying(w)
<1> DEFINE C == DOMAIN w
           D == DOMAIN w2
<1>1. Sums(C, Item, EmptyBag, Grounds(w), Lying(w)) /\ Sums(D, Item, EmptyBag, Grounds(w2), Lying(w2))
  BY LyingSum
<1>2. C \subseteq D /\ \A id \in C : Grounds(w)[id] = Grounds(w2)[id]
  BY DEF Grounds
<1>3. \A id \in D \ C : Grounds(w2)[id] = EmptyBag
  BY BagOfEmpty DEF Grounds
<1> HIDE DEF C, D
<1>4. Lying(w) = Lying(w2)
  BY <1>1, <1>2, <1>3, SumsPart
<1> QED
  BY <1>4

\* One item more on the ground.
Grown(w, w2, l, it) ==
  /\ w \in Worlds /\ w2 \in Worlds /\ IsFiniteSet(DOMAIN w) /\ DOMAIN w2 = DOMAIN w
  /\ l \in DOMAIN w /\ \A id \in DOMAIN w \ {l} : w2[id] = w[id]
  /\ it \in Item /\ w2[l].items = Append(w[l].items, it)

LEMMA LyingMore ==
  ASSUME NEW w, NEW w2, NEW l, NEW it, Grown(w, w2, l, it)
  PROVE  \A e : Copies(e, Lying(w2)) = Copies(e, Lying(w)) + IF e = it THEN 1 ELSE 0
<1>0. /\ w \in Worlds /\ w2 \in Worlds /\ IsFiniteSet(DOMAIN w) /\ DOMAIN w2 = DOMAIN w
      /\ l \in DOMAIN w /\ \A id \in DOMAIN w \ {l} : w2[id] = w[id]
      /\ it \in Item /\ w2[l].items = Append(w[l].items, it)
  BY DEF Grown
<1> DEFINE p == [inv |-> <<it>>]
           one(e) == IF e = it THEN 1 ELSE 0
<1>1. <<>> \in Seq(Item) /\ p.inv = Append(<<>>, it) /\ p.inv \in Seq(Item)
  BY <1>0
<1>2. Nobody.inv = <<>>
  BY DEF Nobody
<1>3. \A e : Copies(e, BagOf(<<>>)) = 0
  BY BagOfEmpty, EmptyBagCopies
<1>4. \A e : Copies(e, BagOf(p.inv)) = one(e)
  <2> TAKE e
  <2>1. Copies(e, BagOf(Append(<<>>, it))) = Copies(e, BagOf(<<>>)) + one(e)
    BY ZenonT(60), <1>0, <1>1, BagOfAppendCopies
  <2>2. one(e) \in Nat
    OBVIOUS
  <2> HIDE DEF one, p
  <2> QED
    BY <1>1, <1>3, <2>1, <2>2
<1>5. w[l].items \in Seq(Item)
  BY <1>0, LyingItems
<1>6. \A e : Copies(e, BagOf(w2[l].items)) = Copies(e, BagOf(w[l].items)) + one(e)
  BY <1>0, <1>5, BagOfAppendCopies
<1>7. \A e : Copies(e, BagOf(w[l].items)) \in Nat /\ one(e) \in Nat
  BY <1>5, BagOfType, BagType
<1>8. Handed(w, w2, l, p, Nobody)
  <2>1. Nobody.inv \in Seq(Item)
    BY <1>1, <1>2
  <2> HIDE DEF p, one
  <2> QED
    BY <1>0, <1>1, <1>2, <1>3, <1>4, <1>6, <1>7, <2>1 DEF Handed
<1> HIDE DEF p, one
<1>9. AllItems(Nobody, w2) = AllItems(p, w)
  BY <1>8, ItemsChangeHands
<1>10. Sums(DOMAIN w, Item, BagOf(p.inv), Grounds(w), AllItems(p, w))
  BY <1>0, <1>1, AllItemsSum
<1>11. Sums(DOMAIN w, Item, EmptyBag, Grounds(w), Lying(w))
  BY <1>0, LyingSum
<1>12. \A e : Copies(e, AllItems(p, w)) + Copies(e, EmptyBag)
                = Copies(e, Lying(w)) + Copies(e, BagOf(p.inv))
  BY <1>10, <1>11, SumsStart
<1>13. AllItems(p, w) \in Bags(Item) /\ \A e : Copies(e, AllItems(p, w)) \in Nat
  <2>1. AllItems(p, w) \in Bags(Item)
    BY <1>10, SumsType
  <2> QED
    BY <2>1, BagType
<1>14. \A e : Copies(e, EmptyBag) = 0
  BY EmptyBagCopies
<1>15. \A e : Copies(e, Lying(w2)) = Copies(e, Lying(w)) + one(e)
  BY <1>4, <1>9, <1>12, <1>13, <1>14 DEF Lying
<1> QED
  BY <1>15 DEF one

(* What a world file describes. *)

ItemOf(l) == [l.item EXCEPT !.name = Unescape(@)]
Pieces(lines, D) == [i \in D |-> BagAdd(EmptyBag, ItemOf(lines[i]))]

LEMMA AddOne ==
  ASSUME NEW b \in Bags(Item), NEW it \in Item
  PROVE  /\ BagAdd(EmptyBag, it) \in Bags(Item) /\ BagAdd(b, it) = b (+) BagAdd(EmptyBag, it)
         /\ \A e : Copies(e, BagAdd(EmptyBag, it)) = IF e = it THEN 1 ELSE 0
<1> DEFINE one(e) == IF e = it THEN 1 ELSE 0
           single == BagAdd(EmptyBag, it)
<1>1. EmptyBag \in Bags(Item) /\ \A e : Copies(e, EmptyBag) = 0
  BY EmptyBagCopies
<1>2. single \in Bags(Item) /\ \A e : Copies(e, single) = Copies(e, EmptyBag) + one(e)
  BY <1>1, AddCopies
<1>3. BagAdd(b, it) \in Bags(Item) /\ \A e : Copies(e, BagAdd(b, it)) = Copies(e, b) + one(e)
  BY AddCopies
<1>4. \A e : one(e) \in Nat
  OBVIOUS
<1> HIDE DEF one, single
<1>5. \A e : Copies(e, single) = one(e)
  BY <1>1, <1>2, <1>4
<1>6. b (+) single \in Bags(Item) /\ \A e : Copies(e, b (+) single) = Copies(e, b) + Copies(e, single)
  BY <1>2, SumCopies
<1>7. BagAdd(b, it) = b (+) single
  BY <1>3, <1>5, <1>6, SameBag
<1> QED
  BY <1>2, <1>5, <1>7 DEF one, single

LEMMA PiecesType ==
  ASSUME NEW lines \in Seq(LineFields), NEW D, D \subseteq 1 .. Len(lines)
  PROVE  Pieces(lines, D) \in [D -> Bags(Item)] /\ IsFiniteSet(D)
<1>1. \A i \in D : lines[i] \in LineFields
  OBVIOUS
<1>2. \A i \in D : ItemOf(lines[i]) \in Item
  BY <1>1, ReadItemType DEF ItemOf
<1>3. EmptyBag \in Bags(Item)
  BY EmptyBagCopies
<1> HIDE DEF Item
<1>4. \A i \in D : BagAdd(EmptyBag, ItemOf(lines[i])) \in Bags(Item)
  BY <1>2, <1>3, AddCopies
<1>5. IsFiniteSet(1 .. Len(lines))
  BY PrefixFinite
<1> QED
  BY <1>4, <1>5, PartFinite DEF Pieces

LEMMA CountedType ==
  ASSUME NEW lines \in Seq(LineFields)
  PROVE  Counted(lines) \subseteq 1 .. Len(lines)
BY DEF Counted

LEMMA DescribedSum ==
  ASSUME NEW lines \in Seq(LineFields)
  PROVE  Sums(Counted(lines), Item, EmptyBag, Pieces(lines, Counted(lines)), DescribedItems(lines))
<1> DEFINE D == Counted(lines)
           V == Bags(Item)
           m == Pieces(lines, D)
           g == AddTo(D, Item, m)
           Turn(i, b) == BagAdd(b, [lines[i].item EXCEPT !.name = Unescape(@)])
           Is(f) == f = [s \in SUBSET D |->
                          IF s = {} THEN EmptyBag
                          ELSE Turn(CHOOSE x \in s : TRUE, f[s \ {CHOOSE x \in s : TRUE}])]
           fold == CHOOSE f : Is(f)
<1>1. DescribedItems(lines) = fold[D]
  BY DEF DescribedItems, FoldSet, MapThenFoldSet, Counted, HeadingAt, FirstAt, SelectInSeq,
         SelectLastInSeq
<1>2. m \in [D -> V] /\ IsFiniteSet(D) /\ EmptyBag \in V
  BY CountedType, PiecesType, EmptyBagCopies
<1>3. \A i \in D : \A b \in V : Turn(i, b) = b (+) m[i]
  <2> TAKE i \in D
  <2> TAKE b \in V
  <2>1. lines[i] \in LineFields
    BY CountedType
  <2>2. ItemOf(lines[i]) \in Item /\ Turn(i, b) = BagAdd(b, ItemOf(lines[i]))
    BY <2>1, ReadItemType DEF ItemOf
  <2>3. m[i] = BagAdd(EmptyBag, ItemOf(lines[i]))
    BY DEF Pieces
  <2> QED
    BY <2>2, <2>3, AddOne
<1> HIDE DEF m, Turn, D
<1>4. g \in [D \X V -> V] /\ \A i \in D : \A b \in V : g[<<i, b>>] = Turn(i, b)
  <2>1. Adds(g, D, Item, m)
    BY <1>2, AddToType
  <2> HIDE DEF g
  <2> QED
    BY <1>3, <2>1 DEF Adds
<1>5. \A s \in SUBSET D : s # {} => AnyOf(s) \in D /\ s \ {AnyOf(s)} \in SUBSET D
  BY DEF AnyOf
<1> HIDE DEF g, V
<1>6. PICK F : Gathers(F, D, V, EmptyBag, g)
  BY <1>2, <1>4, GathersExists
<1>7. Is(F)
  <2>1. F \in [SUBSET D -> V]
    BY <1>6 DEF Gathers
  <2>2. \A s \in SUBSET D : F[s] = IF s = {} THEN EmptyBag ELSE Turn(AnyOf(s), F[s \ {AnyOf(s)}])
    <3> TAKE s \in SUBSET D
    <3>1. F[s] = IF s = {} THEN EmptyBag ELSE g[<<AnyOf(s), F[s \ {AnyOf(s)}]>>]
      BY <1>6 DEF Gathers
    <3>2. CASE s # {}
      <4>1. AnyOf(s) \in D /\ F[s \ {AnyOf(s)}] \in V
        BY <1>5, <2>1, <3>2
      <4> QED
        BY <1>4, <3>1, <3>2, <4>1
    <3> QED
      BY <3>1, <3>2
  <2> QED
    BY <2>1, <2>2 DEF AnyOf
<1>8. Is(fold)
  <2> HIDE DEF Is
  <2> QED
    BY <1>7
<1>9. \A s \in SUBSET D : fold[s] = IF s = {} THEN EmptyBag ELSE Turn(AnyOf(s), fold[s \ {AnyOf(s)}])
  <2> HIDE DEF fold
  <2> QED
    BY <1>8 DEF AnyOf
<1> HIDE DEF fold, Is
<1>10. Picks(fold, D, V, EmptyBag, g)
  <2>1. ASSUME NEW s \in SUBSET D, s # {}, fold[s \ {AnyOf(s)}] \in V
        PROVE  fold[s] = g[<<AnyOf(s), fold[s \ {AnyOf(s)}]>>]
    BY <1>4, <1>5, <1>9, <2>1
  <2>2. fold[{}] = EmptyBag
    BY <1>9
  <2> QED
    BY <2>1, <2>2 DEF Picks
<1>11. IsSum(fold, D, Item, EmptyBag, m, fold[D])
  BY <1>2, <1>10, PicksSum DEF g, V
<1>12. Sums(D, Item, EmptyBag, m, fold[D])
  BY <1>2, <1>11 DEF Sums
<1> QED
  BY <1>1, <1>12 DEF m, D

(* What a line adds to what lies around. *)

LEMMA Committed ==
  ASSUME NEW s \in Parser, s.draft.id # <<>>
  PROVE  LET w == Commit(s).world IN
         /\ s.draft.id \in DOMAIN s.world => w = s.world
         /\ s.draft.id \notin DOMAIN s.world =>
              w = [id \in DOMAIN s.world \cup {s.draft.id} |->
                     IF id = s.draft.id THEN [exits |-> s.draft.exits, items |-> s.draft.items]
                                        ELSE s.world[id]]
BY DEF Commit, AddLocation, Put, Parser

\* Lines that lay no item leave what lies around as it is.
LEMMA NothingLaid ==
  ASSUME NEW s \in Parser, IsFiniteSet(DOMAIN s.world), NEW l \in LineFields,
         \/ Heads(s, l)
         \/ s.draft.id # <<>> /\ (Names(s, l) \/ Leads(s, l))
  PROVE  Lying(Commit(ParseLine(s, l)).world) = Lying(Commit(s).world)
<1> DEFINE new == ParseLine(s, l)
           w == Commit(s).world
           w2 == Commit(new).world
<1>1. new \in Parser /\ Commit(s) \in Parser /\ Commit(new) \in Parser /\ Commit(s).draft = NoDraft
  BY CommitType, ParseLineType
<1>2. w \in Worlds /\ w2 \in Worlds
  BY <1>1 DEF Parser
<1>3. IsFiniteSet(DOMAIN w)
  BY CommitFinite
<1>4. IsFiniteSet(DOMAIN w2)
  <2>1. IsFiniteSet(DOMAIN new.world)
    BY LineFinite
  <2> HIDE DEF new
  <2> QED
    BY <1>1, <2>1, CommitFinite
<1>5. CASE Heads(s, l)
  <2>1. /\ new.world = w /\ new.draft.id = l.id /\ l.id # <<>> /\ new.draft.items = <<>>
    BY <1>1, <1>5 DEF Heads, Parser, Draft, NoDraft
  <2> HIDE DEF new, w
  <2>2. CASE l.id \in DOMAIN w
    <3>1. w2 = w
      BY <1>1, <2>1, <2>2, Committed
    <3> QED
      BY <3>1 DEF new, w
  <2>3. CASE l.id \notin DOMAIN w
    <3>1. w2 = [id \in DOMAIN w \cup {l.id} |->
                  IF id = l.id THEN [exits |-> new.draft.exits, items |-> <<>>] ELSE w[id]]
      BY <1>1, <2>1, <2>3, Committed
    <3> HIDE DEF w2
    <3>2. /\ DOMAIN w \subseteq DOMAIN w2 /\ \A id \in DOMAIN w : w2[id].items = w[id].items
          /\ \A id \in DOMAIN w2 \ DOMAIN w : w2[id].items = <<>>
      BY <2>3, <3>1
    <3>3. Lying(w2) = Lying(w)
      BY <1>2, <1>3, <1>4, <3>2, LyingSame
    <3> QED
      BY <3>3 DEF new, w, w2
  <2> QED
    BY <2>2, <2>3
<1>6. CASE s.draft.id # <<>> /\ Names(s, l)
  BY <1>6 DEF Names
<1>7. CASE s.draft.id # <<>> /\ Leads(s, l)
  <2> DEFINE id0 == s.draft.id
  <2>1. new.world = s.world /\ new.draft.id = id0 /\ new.draft.items = s.draft.items
    BY <1>7 DEF Leads, Parser, Draft
  <2> HIDE DEF new, id0
  <2>2. id0 # <<>>
    BY <1>7 DEF id0
  <2>3. CASE id0 \in DOMAIN s.world
    <3>1. w2 = new.world /\ w = s.world
      BY <1>1, <2>1, <2>2, <2>3, Committed DEF id0
    <3> QED
      BY <2>1, <3>1 DEF new
  <2>4. CASE id0 \notin DOMAIN s.world
    <3>1. w2 = [id \in DOMAIN s.world \cup {id0} |->
                  IF id = id0 THEN [exits |-> new.draft.exits, items |-> s.draft.items] ELSE s.world[id]]
      <4>1. w2 = [id \in DOMAIN new.world \cup {new.draft.id} |->
                    IF id = new.draft.id
                    THEN [exits |-> new.draft.exits, items |-> new.draft.items]
                    ELSE new.world[id]]
        BY <1>1, <2>1, <2>2, <2>4, Committed
      <4> QED
        BY <2>1, <4>1
    <3>2. w = [id \in DOMAIN s.world \cup {id0} |->
                  IF id = id0 THEN [exits |-> s.draft.exits, items |-> s.draft.items] ELSE s.world[id]]
      BY <2>2, <2>4, Committed DEF id0
    <3> HIDE DEF w, w2
    <3>3. /\ DOMAIN w \subseteq DOMAIN w2 /\ \A id \in DOMAIN w : w2[id].items = w[id].items
          /\ \A id \in DOMAIN w2 \ DOMAIN w : w2[id].items = <<>>
      BY <3>1, <3>2
    <3>4. Lying(w2) = Lying(w)
      BY <1>2, <1>3, <1>4, <3>3, LyingSame
    <3> QED
      BY <3>4 DEF new, w, w2
  <2> QED
    BY <2>3, <2>4
<1> QED
  BY <1>5, <1>6, <1>7

\* An item of a location that is there already will not lie anywhere.
LEMMA ItemLaid ==
  ASSUME NEW s \in Parser, IsFiniteSet(DOMAIN s.world), NEW l \in LineFields,
         s.draft.id # <<>>, Lays(s, l)
  PROVE  LET w == Commit(s).world
             w2 == Commit(ParseLine(s, l)).world
         IN  /\ s.draft.id \in DOMAIN s.world => Lying(w2) = Lying(w)
             /\ s.draft.id \notin DOMAIN s.world =>
                  \A e : Copies(e, Lying(w2)) = Copies(e, Lying(w)) + IF e = ItemOf(l) THEN 1 ELSE 0
<1> DEFINE new == ParseLine(s, l)
           w == Commit(s).world
           w2 == Commit(new).world
           id0 == s.draft.id
           items0 == s.draft.items
<1>1. new \in Parser /\ Commit(s) \in Parser /\ Commit(new) \in Parser
  BY CommitType, ParseLineType
<1>2. w \in Worlds /\ w2 \in Worlds /\ ItemOf(l) \in Item
  BY <1>1, ReadItemType DEF Parser, ItemOf
<1>3. IsFiniteSet(DOMAIN w)
  BY CommitFinite
<1>4. new.world = s.world /\ new.draft.id = id0 /\ new.draft.items = Append(items0, ItemOf(l))
  BY ZenonT(60) DEF Lays, Parser, Draft, ItemOf
<1>5. id0 # <<>>
  OBVIOUS
<1> HIDE DEF new, id0, items0
<1>6. ASSUME id0 \in DOMAIN s.world PROVE Lying(w2) = Lying(w)
  <2>1. w2 = new.world /\ w = s.world
    BY <1>1, <1>4, <1>5, <1>6, Committed DEF id0
  <2> QED
    BY <1>4, <2>1
<1>7. ASSUME id0 \notin DOMAIN s.world
      PROVE  \A e : Copies(e, Lying(w2)) = Copies(e, Lying(w)) + IF e = ItemOf(l) THEN 1 ELSE 0
  <2>1. w2 = [id \in DOMAIN s.world \cup {id0} |->
                IF id = id0 THEN [exits |-> new.draft.exits, items |-> Append(items0, ItemOf(l))]
                            ELSE s.world[id]]
    <3>1. w2 = [id \in DOMAIN new.world \cup {new.draft.id} |->
                  IF id = new.draft.id THEN [exits |-> new.draft.exits, items |-> new.draft.items]
                                       ELSE new.world[id]]
      BY <1>1, <1>4, <1>5, <1>7, Committed
    <3> QED
      BY <1>4, <3>1
  <2>2. w = [id \in DOMAIN s.world \cup {id0} |->
                IF id = id0 THEN [exits |-> s.draft.exits, items |-> items0] ELSE s.world[id]]
    BY <1>5, <1>7, Committed DEF id0, items0
  <2> HIDE DEF w, w2, Item
  <2>3. /\ DOMAIN w2 = DOMAIN w /\ id0 \in DOMAIN w /\ \A id \in DOMAIN w \ {id0} : w2[id] = w[id]
        /\ w2[id0].items = Append(w[id0].items, ItemOf(l))
    BY <2>1, <2>2
  <2>4. PICK it : it = ItemOf(l)
    OBVIOUS
  <2>5. Grown(w, w2, id0, it)
    BY <1>2, <1>3, <2>3, <2>4 DEF Grown
  <2>6. \A e : Copies(e, Lying(w2)) = Copies(e, Lying(w)) + IF e = it THEN 1 ELSE 0
    BY <2>5, LyingMore
  <2> QED
    BY <2>4, <2>6
<1> QED
  BY <1>6, <1>7 DEF new, id0

(* The world read is the world described. *)

\* The items of the first k lines lie in the world so far.
CountedTo(lines, k) == Counted(lines) \cap (1 .. k)

Laid(lines, k, s) ==
  Sums(CountedTo(lines, k), Item, EmptyBag, Pieces(lines, CountedTo(lines, k)),
       Lying(Commit(s).world))

Holds(lines, k, s) ==
  /\ s \in Parser /\ IsFiniteSet(DOMAIN s.world)
  /\ s.ok => Shape(lines, k, s) /\ Laid(lines, k, s)

LEMMA NothingHolds ==
  ASSUME NEW lines \in Seq(LineFields)
  PROVE  Holds(lines, 0, NoLines)
<1> DEFINE w == Commit(NoLines).world
           m == Pieces(lines, {})
<1>1. NoLines \in Parser /\ w = <<>> /\ NoLines.world = <<>>
  <2>1. NoDraft \in Draft /\ <<>> \in Worlds
    BY MapsEmpty DEF NoDraft, Draft, Ways, Text, Worlds
  <2> QED
    BY <2>1 DEF NoLines, Parser, Commit, NoDraft
<1>2. IsFiniteSet({}) /\ DOMAIN <<>> = {} /\ <<>> \in Worlds
  <2>1. <<>> \in Worlds
    BY MapsEmpty DEF Worlds
  <2> QED
    BY <2>1, NoneFinite
<1>3. CountedTo(lines, 0) = {}
  BY DEF CountedTo
<1>4. m \in [{} -> Bags(Item)] /\ EmptyBag \in Bags(Item)
  BY EmptyBagCopies DEF Pieces
<1> HIDE DEF w, m
<1>5. PICK t : Sums({}, Item, EmptyBag, m, t)
  BY <1>2, <1>4, SumsExist
<1>6. t = EmptyBag
  BY <1>5, SumsType
<1>7. Lying(w) = EmptyBag
  <2>1. Sums(DOMAIN w, Item, EmptyBag, Grounds(w), Lying(w))
    BY <1>1, <1>2, LyingSum
  <2> QED
    BY <1>1, <1>2, <2>1, SumsType
<1>8. Laid(lines, 0, NoLines)
  BY <1>3, <1>5, <1>6, <1>7 DEF Laid, w, m
<1> QED
  BY <1>1, <1>2, <1>8 DEF Holds, Shape

LEMMA LineHolds ==
  ASSUME NEW lines \in Seq(LineFields), NEW k \in 0 .. Len(lines) - 1, NEW s, Holds(lines, k, s)
  PROVE  Holds(lines, k + 1, ParseLine(s, lines[k + 1]))
<1> DEFINE l == lines[k + 1]
           new == ParseLine(s, l)
           D == CountedTo(lines, k)
           C == CountedTo(lines, k + 1)
           w == Commit(s).world
           w2 == Commit(new).world
<1>0. k \in Nat /\ k + 1 \in 1 .. Len(lines) /\ l \in LineFields /\ s \in Parser
      /\ IsFiniteSet(DOMAIN s.world)
  BY DEF Holds
<1>1. new \in Parser /\ IsFiniteSet(DOMAIN new.world)
  BY <1>0, ParseLineType, LineFinite
<1>2. ASSUME new.ok PROVE Shape(lines, k + 1, new) /\ Laid(lines, k + 1, new)
  <2>1. s.ok /\ Good(s, l)
    <3> HIDE DEF l
    <3> QED
      BY <1>0, <1>2, GoodLine
  <2>2. Shape(lines, k, s) /\ Laid(lines, k, s)
    BY <2>1 DEF Holds
  <2>3. Shape(lines, k + 1, new)
    BY <1>0, <1>2, <2>2, ShapeKept
  <2>4. PICK c : Under(lines, k + 1, new, c)
    BY <1>0, <2>3 DEF Shape
  <2>5. HeadingAt(lines, k + 1) = FirstAt(lines, k + 1) <=> new.draft.id \notin DOMAIN new.world
    <3> HIDE DEF new
    <3> QED
      BY <1>0, <2>4, UnderHeading
  <2>6. /\ k + 1 \in Counted(lines) => C = D \cup {k + 1} /\ k + 1 \notin D
        /\ k + 1 \notin Counted(lines) => C = D
    BY <1>0, CountedType DEF CountedTo
  <2>7. k + 1 \in Counted(lines) <=> l.key = "item" /\ new.draft.id \notin DOMAIN new.world
    BY <1>0, <2>5 DEF Counted
  <2>8. Sums(D, Item, EmptyBag, Pieces(lines, D), Lying(w))
    BY <2>2 DEF Laid
  <2>9. ASSUME k + 1 \notin Counted(lines), Lying(w2) = Lying(w) PROVE Laid(lines, k + 1, new)
    BY <2>6, <2>8, <2>9 DEF Laid
  <2>10. CASE Lays(s, l) /\ s.draft.id # <<>>
    <3>1. /\ new.world = s.world /\ new.draft.id = s.draft.id /\ l.key = "item"
      BY <1>0, <2>10 DEF Lays, Parser, Draft
    <3>2. /\ s.draft.id \in DOMAIN s.world => Lying(w2) = Lying(w)
          /\ s.draft.id \notin DOMAIN s.world =>
               \A e : Copies(e, Lying(w2)) = Copies(e, Lying(w)) + IF e = ItemOf(l) THEN 1 ELSE 0
      BY <1>0, <2>10, ItemLaid
    <3> HIDE DEF l, new, w, w2, C, D
    <3>3. CASE s.draft.id \in DOMAIN s.world
      BY <2>3, <2>7, <2>9, <3>1, <3>2, <3>3
    <3>4. CASE s.draft.id \notin DOMAIN s.world
      <4>1. k + 1 \in Counted(lines) /\ C = D \cup {k + 1} /\ k + 1 \notin D
        BY <2>6, <2>7, <3>1, <3>4
      <4>2. C \subseteq 1 .. Len(lines)
        BY CountedType DEF C, CountedTo
      <4>3. Pieces(lines, C) \in [C -> Bags(Item)] /\ IsFiniteSet(C)
        BY <4>2, PiecesType
      <4>4. EmptyBag \in Bags(Item)
        BY EmptyBagCopies
      <4>5. PICK t : Sums(C, Item, EmptyBag, Pieces(lines, C), t)
        BY <4>3, <4>4, SumsExist
      <4>6. \A i \in D : Pieces(lines, C)[i] = Pieces(lines, D)[i]
        BY <4>1 DEF Pieces
      <4>7. t = Lying(w) (+) Pieces(lines, C)[k + 1]
        <5>1. Sums(D \cup {k + 1}, Item, EmptyBag, Pieces(lines, C), t)
          BY <4>1, <4>5
        <5>2. PICK mf, mg, j : mf = Pieces(lines, C) /\ mg = Pieces(lines, D) /\ j = k + 1
          OBVIOUS
        <5>3. /\ Sums(D \cup {j}, Item, EmptyBag, mf, t) /\ Sums(D, Item, EmptyBag, mg, Lying(w))
              /\ j \notin D /\ \A i \in D : mf[i] = mg[i]
          BY <2>8, <4>1, <4>6, <5>1, <5>2
        <5>4. t = Lying(w) (+) mf[j]
          BY <5>3, SumsOneMore
        <5> QED
          BY <5>2, <5>4
      <4>8. Pieces(lines, C)[k + 1] = BagAdd(EmptyBag, ItemOf(l))
        BY <4>1 DEF Pieces, l
      <4>9. ItemOf(l) \in Item /\ Lying(w) \in Bags(Item)
        BY <1>0, <2>8, ReadItemType, SumsType DEF ItemOf
      <4>10. t = BagAdd(Lying(w), ItemOf(l))
        BY <4>7, <4>8, <4>9, AddOne
      <4>11. /\ BagAdd(Lying(w), ItemOf(l)) \in Bags(Item)
             /\ \A e : Copies(e, BagAdd(Lying(w), ItemOf(l)))
                         = Copies(e, Lying(w)) + IF e = ItemOf(l) THEN 1 ELSE 0
        BY <4>9, AddCopies
      <4>12. Lying(w2) \in Bags(Item)
        <5>1. Commit(new) \in Parser
          BY <1>1, CommitType
        <5>2. w2 \in Worlds /\ IsFiniteSet(DOMAIN w2)
          BY <1>1, <5>1, CommitFinite DEF Parser, w2
        <5> QED
          BY <5>2, LyingSum, SumsType
      <4>13. t = Lying(w2)
        BY <3>2, <3>4, <4>10, <4>11, <4>12, SameBag
      <4> QED
        BY <2>3, <4>5, <4>13 DEF Laid, C, w2
    <3> QED
      BY <3>3, <3>4
  <2>11. CASE \/ Heads(s, l)
              \/ s.draft.id # <<>> /\ (Names(s, l) \/ Leads(s, l))
    <3>1. l.key # "item"
      BY <2>11 DEF Heads, Names, Leads
    <3>2. Lying(w2) = Lying(w)
      BY <1>0, <2>11, NothingLaid
    <3> QED
      BY <2>3, <2>7, <2>9, <3>1, <3>2
  <2>12. Laid(lines, k + 1, new)
    BY <2>1, <2>10, <2>11 DEF Good
  <2> QED
    BY <2>3, <2>12
<1>3. Holds(lines, k + 1, new)
  <2> HIDE DEF new
  <2> QED
    BY <1>1, <1>2 DEF Holds
<1> QED
  BY <1>3

\* The world that is loaded has the items that its file describes.
LEMMA WorldDescribed ==
  ASSUME NEW t, t.lines \in Seq(LineFields)
  PROVE  /\ LoadWorld(t).world \in Worlds /\ IsFiniteSet(DOMAIN LoadWorld(t).world)
         /\ LoadWorld(t).ok => AllItems(Nobody, LoadWorld(t).world) = DescribedItems(t.lines)
<1> DEFINE lines == t.lines
           n == Len(lines)
           end == FoldLeft(ParseLine, NoLines, lines)
<1>1. lines \in Seq(LineFields) /\ n \in Nat
  OBVIOUS
<1>2. /\ LoadWorld(t).world = Commit(end).world
      /\ LoadWorld(t).ok => end.ok
  BY DEF LoadWorld
<1> HIDE DEF lines, end
<1>3. PICK h : Runs(h, lines)
  BY <1>1, LinesRun
<1> DEFINE K == {k \in 0 .. n : Holds(lines, k, h[k])}
<1>4. 0 \in K
  <2>1. h[0] = NoLines /\ 0 \in 0 .. n
    BY <1>1, <1>3 DEF Runs
  <2> QED
    BY <1>1, <2>1, NothingHolds
<1>5. ASSUME NEW k \in 0 .. n - 1, k \in K PROVE k + 1 \in K
  <2>1. k + 1 \in 1 .. n /\ k + 1 \in 0 .. n /\ (k + 1) - 1 = k
    BY <1>1
  <2>2. h[k + 1] = ParseLine(h[k], lines[k + 1])
    BY <1>3, <2>1 DEF Runs
  <2>3. Holds(lines, k, h[k])
    BY <1>5
  <2>4. Holds(lines, k + 1, h[k + 1])
    BY <1>1, <2>2, <2>3, LineHolds
  <2> QED
    BY <2>1, <2>4
<1> HIDE DEF K
<1>6. \A k \in 0 .. n : k \in K
  BY <1>1, <1>4, <1>5, BoundedSetInduction
<1>7. Holds(lines, n, end)
  <2>1. n \in 0 .. n /\ h[n] = end
    BY <1>1, <1>3 DEF Runs, end
  <2>2. n \in K
    BY <1>6, <2>1
  <2> QED
    BY <2>1, <2>2 DEF K
<1>8. Commit(end).world \in Worlds /\ IsFiniteSet(DOMAIN Commit(end).world)
  BY <1>7, CommitType, CommitFinite DEF Holds, Parser
<1>9. ASSUME end.ok PROVE Lying(Commit(end).world) = DescribedItems(lines)
  <2>1. CountedTo(lines, n) = Counted(lines)
    BY <1>1, CountedType DEF CountedTo
  <2>2. Sums(Counted(lines), Item, EmptyBag, Pieces(lines, Counted(lines)), Lying(Commit(end).world))
    BY <1>7, <1>9, <2>1 DEF Holds, Laid
  <2>3. Sums(Counted(lines), Item, EmptyBag, Pieces(lines, Counted(lines)), DescribedItems(lines))
    BY <1>1, DescribedSum
  <2>4. Counted(lines) \subseteq Counted(lines)
    OBVIOUS
  <2> QED
    BY <2>2, <2>3, <2>4, SumsPart
<1> QED
  BY <1>2, <1>8, <1>9 DEF Lying, lines

(* Nothing is lost: taking, dropping, using. *)

\* The ledger is right, and every slot has the ledger that goes with what is in it.
ItemsInv ==
  /\ GameInv
  /\ IsFiniteSet(DOMAIN world)
  /\ ItemsConserved
  /\ \A s \in Slots : slots[s].state = "whole" => slots[s].due = BodyItems(slots[s].body)

Dues(slot) == slot.state = "whole" => slot.due = BodyItems(slot.body)

LEMMA ItemsInvIs ==
  ItemsInv <=> GameInv /\ IsFiniteSet(DOMAIN world) /\ ItemsConserved /\ \A s \in Slots : Dues(slots[s])
BY DEF ItemsInv, Dues

\* A command that leaves the slots alone.
LEMMA ItemsKept ==
  ASSUME ItemsInv, GameInv', IsFiniteSet(DOMAIN world'), slots' = slots,
         running' => AllItems(player', world') = ledger'
  PROVE  ItemsInv'
<1>1. ItemsConserved'
  BY DEF ItemsConserved
<1> QED
  BY <1>1 DEF ItemsInv

LEMMA TakeItems ==
  ASSUME ItemsInv, running, NEW name, CmdTake(name), GameInv', running' = running
  PROVE  ItemsInv'
<1> DEFINE here == world[loc].items
           it == here[Find(here, name)]
           rest == Without(here, name)
<1>1. /\ loc \in DOMAIN world /\ Has(here, name) /\ world' = [world EXCEPT ![loc].items = rest]
      /\ player' = [player EXCEPT !.inv = Append(@, it)] /\ UNCHANGED <<loc, ledger, slots>>
  BY DEF CmdTake
<1>2. /\ world \in Worlds /\ player \in Players /\ world' \in Worlds /\ player' \in Players
      /\ IsFiniteSet(DOMAIN world)
  BY DEF ItemsInv, GameInv
<1>3. here \in Seq(Item) /\ player.inv \in Seq(Item) /\ player'.inv \in Seq(Item)
  BY <1>1, <1>2, LyingItems DEF Players
<1>4. it \in Item /\ rest \in Seq(Item)
  BY <1>1, <1>3, FindType
<1>5. \A e : Copies(e, BagOf(here)) = Copies(e, BagOf(rest)) + IF e = it THEN 1 ELSE 0
  BY <1>1, <1>3, WithoutCopies
<1> HIDE DEF it, rest
<1>6. player'.inv = Append(player.inv, it)
  BY <1>1, <1>2 DEF Players
<1>7. /\ DOMAIN world' = DOMAIN world /\ \A id \in DOMAIN world \ {loc} : world'[id] = world[id]
      /\ world'[loc].items = rest
  <2>1. world[loc] \in Place
    BY <1>1, <1>2, MapsType DEF Worlds
  <2>2. world' = [world EXCEPT ![loc] = [world[loc] EXCEPT !.items = rest]]
    BY <1>1
  <2>3. [world[loc] EXCEPT !.items = rest].items = rest
    BY <2>1 DEF Place
  <2> HIDE DEF Place
  <2> QED
    BY <1>1, <2>2, <2>3
<1>8. \A e : Copies(e, BagOf(player'.inv)) = Copies(e, BagOf(player.inv)) + IF e = it THEN 1 ELSE 0
  BY <1>3, <1>4, <1>6, BagOfAppendCopies
<1>9. Handed(world, world', loc, player, player')
  <2>1. \A e : /\ Copies(e, BagOf(player.inv)) \in Nat /\ Copies(e, BagOf(rest)) \in Nat
    BY <1>3, <1>4, BagOfType, BagType
  <2>2. \A e : Copies(e, BagOf(player.inv)) + Copies(e, BagOf(here))
                 = Copies(e, BagOf(player'.inv)) + Copies(e, BagOf(world'[loc].items))
    BY <1>5, <1>7, <1>8, <2>1
  <2> QED
    BY <1>1, <1>2, <1>3, <1>7, <2>2 DEF Handed
<1>10. AllItems(player', world') = AllItems(player, world)
  BY <1>9, ItemsChangeHands
<1>11. running' => AllItems(player', world') = ledger'
  BY <1>1, <1>10 DEF ItemsInv, ItemsConserved
<1> QED
  BY <1>1, <1>2, <1>7, <1>11, ItemsKept

LEMMA DropItems ==
  ASSUME ItemsInv, running, NEW name, CmdDrop(name), GameInv', running' = running
  PROVE  ItemsInv'
<1> DEFINE it == player.inv[Find(player.inv, name)]
           rest == Without(player.inv, name)
<1>1. /\ Has(player.inv, name) /\ player' = [player EXCEPT !.inv = rest] /\ UNCHANGED <<loc, slots>>
      /\ \/ /\ loc \in DOMAIN world /\ UNCHANGED ledger
            /\ world' = [world EXCEPT ![loc].items = Append(@, it)]
         \/ /\ loc \notin DOMAIN world /\ ledger' = BagRemove(ledger, it) /\ UNCHANGED world
  BY DEF CmdDrop
<1>2. /\ world \in Worlds /\ player \in Players /\ world' \in Worlds /\ player' \in Players
      /\ IsFiniteSet(DOMAIN world)
  BY DEF ItemsInv, GameInv
<1>3. player.inv \in Seq(Item) /\ player'.inv \in Seq(Item)
  BY <1>2 DEF Players
<1>4. it \in Item /\ rest \in Seq(Item)
  BY <1>1, <1>3, FindType
<1>5. \A e : Copies(e, BagOf(player.inv)) = Copies(e, BagOf(rest)) + IF e = it THEN 1 ELSE 0
  BY <1>1, <1>3, WithoutCopies
<1> HIDE DEF it, rest
<1>6. player'.inv = rest
  BY <1>1, <1>2 DEF Players
<1>7. CASE loc \in DOMAIN world /\ UNCHANGED ledger /\ world' = [world EXCEPT ![loc].items = Append(@, it)]
  <2> DEFINE here == world[loc].items
  <2>1. here \in Seq(Item)
    BY <1>2, <1>7, LyingItems
  <2>2. /\ DOMAIN world' = DOMAIN world /\ \A id \in DOMAIN world \ {loc} : world'[id] = world[id]
        /\ world'[loc].items = Append(here, it)
    <3>1. world[loc] \in Place
      BY <1>2, <1>7, MapsType DEF Worlds
    <3>2. world' = [world EXCEPT ![loc] = [world[loc] EXCEPT !.items = Append(here, it)]]
      BY <1>7
    <3>3. [world[loc] EXCEPT !.items = Append(here, it)].items = Append(here, it)
      BY <3>1 DEF Place
    <3> HIDE DEF Place
    <3> QED
      BY <1>7, <3>2, <3>3
  <2>3. \A e : Copies(e, BagOf(Append(here, it))) = Copies(e, BagOf(here)) + IF e = it THEN 1 ELSE 0
    BY <1>4, <2>1, BagOfAppendCopies
  <2>4. \A e : Copies(e, BagOf(here)) \in Nat /\ Copies(e, BagOf(rest)) \in Nat
    BY <1>4, <2>1, BagOfType, BagType
  <2> HIDE DEF here
  <2>5. \A e : Copies(e, BagOf(player.inv)) + Copies(e, BagOf(here))
                 = Copies(e, BagOf(player'.inv)) + Copies(e, BagOf(world'[loc].items))
    BY <1>5, <1>6, <2>2, <2>3, <2>4
  <2>6. Handed(world, world', loc, player, player')
    BY <1>2, <1>3, <1>7, <2>2, <2>5 DEF Handed, here
  <2>7. AllItems(player', world') = AllItems(player, world)
    BY <2>6, ItemsChangeHands
  <2>8. running' => AllItems(player', world') = ledger'
    BY <1>7, <2>7 DEF ItemsInv, ItemsConserved
  <2> QED
    BY <1>1, <1>2, <2>2, <2>8, ItemsKept
<1>8. CASE ledger' = BagRemove(ledger, it) /\ UNCHANGED world
  <2>1. \A e : Copies(e, BagOf(player.inv)) = Copies(e, BagOf(player'.inv)) + IF e = it THEN 1 ELSE 0
    BY <1>5, <1>6
  <2>2. AllItems(player', world) = BagRemove(AllItems(player, world), it)
    BY <1>2, <1>3, <1>4, <2>1, OneItemGone
  <2>3. running' => AllItems(player', world') = ledger'
    BY <1>8, <2>2 DEF ItemsInv, ItemsConserved
  <2> QED
    BY <1>1, <1>2, <1>8, <2>3, ItemsKept
<1> QED
  BY <1>1, <1>7, <1>8

LEMMA UseItems ==
  ASSUME ItemsInv, running, NEW name, CmdUse(name), GameInv', running' = running
  PROVE  ItemsInv'
<1> DEFINE it == player.inv[Find(player.inv, name)]
           rest == Without(player.inv, name)
<1>1. Has(player.inv, name) /\ ledger' = BagRemove(ledger, it) /\ UNCHANGED <<world, slots>>
  BY DEF CmdUse
<1>2. /\ world \in Worlds /\ player \in Players /\ player' \in Players /\ IsFiniteSet(DOMAIN world)
  BY DEF ItemsInv, GameInv
<1>3. player.inv \in Seq(Item) /\ player'.inv \in Seq(Item)
  BY <1>2 DEF Players
<1>4. it \in Item /\ rest \in Seq(Item)
  BY <1>1, <1>3, FindType
<1>5. \A e : Copies(e, BagOf(player.inv)) = Copies(e, BagOf(rest)) + IF e = it THEN 1 ELSE 0
  BY <1>1, <1>3, WithoutCopies
<1>6. player'.inv = rest
  <2> DEFINE hurt == Heal(player, it.extra)
  <2>1. hurt.inv = player.inv /\ player' = [hurt EXCEPT !.inv = Without(hurt.inv, name)]
    BY <1>2 DEF CmdUse, Heal, Players
  <2>2. "inv" \in DOMAIN hurt
    BY <1>2 DEF Heal, Players
  <2> HIDE DEF hurt
  <2> QED
    BY <2>1, <2>2
<1> HIDE DEF it, rest
<1>7. \A e : Copies(e, BagOf(player.inv)) = Copies(e, BagOf(player'.inv)) + IF e = it THEN 1 ELSE 0
  BY <1>5, <1>6
<1>8. AllItems(player', world) = BagRemove(AllItems(player, world), it)
  BY <1>2, <1>3, <1>4, <1>7, OneItemGone
<1>9. running' => AllItems(player', world') = ledger'
  BY <1>1, <1>8 DEF ItemsInv, ItemsConserved
<1> QED
  BY <1>1, <1>2, <1>9, ItemsKept

(* Nothing is lost: saving, loading, starting. *)

\* A slot changes and the game does not.
LEMMA SlotItems ==
  ASSUME ItemsInv, GameInv', UNCHANGED <<running, world, player, ledger>>,
         NEW s \in Slots, NEW slot, Dues(slot), slots' = [slots EXCEPT ![s] = slot]
  PROVE  ItemsInv'
<1>1. DOMAIN slots = Slots /\ \A t \in Slots : Dues(slots[t])
  BY ItemsInvIs DEF ItemsInv, GameInv
<1>2. \A t \in Slots : slots'[t] = IF t = s THEN slot ELSE slots[t]
  BY <1>1
<1>3. \A t \in Slots : Dues(slots'[t])
  BY <1>1, <1>2
<1>4. \A t \in Slots : slots'[t].state = "whole" => slots'[t].due = BodyItems(slots'[t].body)
  BY <1>3 DEF Dues
<1>5. IsFiniteSet(DOMAIN world) /\ ItemsConserved'
  BY DEF ItemsInv, ItemsConserved
<1> QED
  BY <1>4, <1>5 DEF ItemsInv

LEMMA SaveItems ==
  ASSUME ItemsInv, NEW s \in Slots, CmdSave(s), GameInv'
  PROVE  ItemsInv'
<1>1. running /\ UNCHANGED <<running, world, player, ledger>>
  BY DEF CmdSave
<1>2. CASE UNCHANGED slots
  BY <1>1, <1>2, ItemsKept DEF ItemsInv, ItemsConserved
<1>3. CASE slots' = [slots EXCEPT ![s] = Unreadable("torn")]
  <2>1. Dues(Unreadable("torn"))
    BY DEF Dues, Unreadable, Slot
  <2> QED
    BY <1>1, <1>3, <2>1, SlotItems
<1>4. CASE slots' = [slots EXCEPT ![s] = Slot("whole", Body(player, world, loc), TRUE, Snapshot,
                                              ledger)]
  <2> DEFINE b == Body(player, world, loc)
             slot == Slot("whole", b, TRUE, Snapshot, ledger)
  <2>1. GameInv /\ world \in Worlds /\ IsFiniteSet(DOMAIN world) /\ player.inv \in Seq(Item)
    BY DEF ItemsInv, GameInv, Players
  <2>2. slot.state = "whole" /\ slot.body = b /\ slot.due = ledger
    BY DEF Slot
  <2>3. Readable(b)
    <3>1. SlotOK(slot)
      BY <2>1, SavedOK
    <3> HIDE DEF slot, b
    <3> QED
      BY <2>2, <3>1 DEF SlotOK
  <2>4. BodyItems(b) = AllItems(player, world)
    BY <2>1, <2>3, SavedItems
  <2> HIDE DEF b
  <2>5. Dues(slot)
    BY <1>1, <2>2, <2>4 DEF Dues, ItemsInv, ItemsConserved
  <2> HIDE DEF slot
  <2>6. slots' = [slots EXCEPT ![s] = slot]
    BY <1>4 DEF slot, b
  <2> QED
    BY <1>1, <2>5, <2>6, SlotItems
<1> QED
  BY <1>2, <1>3, <1>4 DEF CmdSave

\* The process is gone; the slots are what they were, but for one that may be torn.
LEMMA ExitItems ==
  ASSUME ItemsInv, NEW c, Exits(c), GameInv',
         \/ slots' = slots
         \/ \E s \in Slots : slots' = [slots EXCEPT ![s] = Unreadable("torn")]
  PROVE  ItemsInv'
<1>1. ~running' /\ IsFiniteSet(DOMAIN world')
  <2>1. ~running' /\ world' = <<>>
    BY DEF Exits
  <2>2. DOMAIN <<>> = {}
    OBVIOUS
  <2> QED
    BY <2>1, <2>2, NoneFinite
<1>2. \A t \in Slots : slots'[t].state = "whole" => slots'[t] = slots[t]
  <2>1. DOMAIN slots = Slots
    BY DEF ItemsInv, GameInv
  <2>2. Unreadable("torn").state = "torn"
    BY DEF Unreadable, Slot
  <2> QED
    BY <2>1, <2>2
<1>3. \A t \in Slots : slots'[t].state = "whole" => slots'[t].due = BodyItems(slots'[t].body)
  BY <1>2 DEF ItemsInv
<1> QED
  BY <1>1, <1>3 DEF ItemsInv, ItemsConserved

LEMMA LoadItems ==
  ASSUME ItemsInv, NEW s \in Slots, CmdLoad(s), GameInv'
  PROVE  ItemsInv'
<1> DEFINE fresh == LoadWorld(text)
           r == Read(slots[s], player, fresh.world, loc)
           b == slots[s].body
<1>1. text.lines \in Seq(LineFields) /\ SlotOK(slots[s]) /\ UNCHANGED <<text, slots>> /\ running
      /\ Dues(slots[s])
  BY DEF CmdLoad, ItemsInv, GameInv, Dues
<1>2. fresh.world \in Worlds /\ IsFiniteSet(DOMAIN fresh.world)
  BY <1>1, WorldDescribed
<1> HIDE DEF fresh
<1>3. CASE /\ r.how = "ok" /\ world' = r.world /\ player' = r.player /\ ledger' = slots[s].due
  <2> DEFINE a == Applied(b, fresh.world)
  <2>1. /\ slots[s].state = "whole" /\ Fits(b, fresh.world)
        /\ r.player = a.player /\ r.world = a.world
    BY <1>1, <1>3 DEF Read, SlotOK, States, Applied
  <2>2. Readable(b)
    BY <1>1, <2>1 DEF SlotOK
  <2>3. r.world \in Worlds
    BY <1>1, <1>2, <1>3, ReadOk
  <2> HIDE DEF r, b, a
  <2>4. DOMAIN b.wloc \subseteq DOMAIN fresh.world
    BY <2>1 DEF Fits
  <2>5. AllItems(a.player, a.world) = BodyItems(b) /\ DOMAIN a.world = DOMAIN fresh.world
    <3>1. a.world \in Worlds
      BY <2>1, <2>3
    <3> QED
      BY <1>2, <2>2, <2>4, <3>1, LoadedItems DEF a
  <2>6. IsFiniteSet(DOMAIN world')
    BY <1>2, <1>3, <2>1, <2>5
  <2>7. ledger' = BodyItems(b)
    BY <1>1, <1>3, <2>1 DEF Dues, b
  <2>8. running' => AllItems(player', world') = ledger'
    BY <1>3, <2>1, <2>5, <2>7
  <2> QED
    BY <1>1, <2>6, <2>8, ItemsKept
<1>4. CASE UNCHANGED <<running, world, player, ledger>>
  BY <1>1, <1>4, ItemsKept DEF ItemsInv, ItemsConserved
<1>5. CASE Exits(2)
  BY <1>1, <1>5, ExitItems
<1>6. r.how # "ok" => r.player = player /\ r.loc = loc
  BY ReadElse
<1>7. CASE r.how = "error" /\ player' = r.player /\ UNCHANGED <<running, world, ledger>>
  <2>1. UNCHANGED <<running, world, player, ledger>>
    <3> HIDE DEF r
    <3> QED
      BY <1>6, <1>7
  <2> QED
    BY <1>4, <2>1
<1> QED
  BY <1>3, <1>4, <1>5, <1>7 DEF CmdLoad, fresh

LEMMA StartItems ==
  ASSUME ItemsInv, Start, GameInv'
  PROVE  ItemsInv'
<1> DEFINE fresh == LoadWorld(text)
<1>1. text.lines \in Seq(LineFields) /\ UNCHANGED slots
  BY DEF Start, ItemsInv, GameInv
<1>2. /\ IsFiniteSet(DOMAIN fresh.world)
      /\ fresh.ok => AllItems(Nobody, fresh.world) = DescribedItems(text.lines)
  BY <1>1, WorldDescribed
<1> HIDE DEF fresh
<1>3. CASE /\ fresh.ok /\ world' = fresh.world /\ player' = Nobody
           /\ ledger' = DescribedItems(text.lines)
  BY <1>1, <1>2, <1>3, ItemsKept
<1>4. CASE UNCHANGED <<running, world, player, ledger>>
  BY <1>1, <1>4, ItemsKept DEF ItemsInv, ItemsConserved
<1> QED
  BY <1>3, <1>4 DEF Start, fresh

LEMMA StepItems ==
  ASSUME ItemsInv, Step, GameInv'
  PROVE  ItemsInv'
<1>1. running /\ running' = running
  BY DEF Step
<1>2. PICK verb \in Verbs, rest \in Words : Dispatch(verb, rest)
  BY DEF Step
<1>3. CASE UNCHANGED <<world, player, ledger, slots>>
  BY <1>1, <1>3, ItemsKept DEF ItemsInv, ItemsConserved
<1>4. CASE CmdGo(rest) \/ CmdNoEffect
  BY <1>3, <1>4 DEF CmdGo, CmdNoEffect
<1> QED
  BY <1>1, <1>2, <1>4, TakeItems, DropItems, UseItems DEF Dispatch

LEMMA OutsideItems ==
  ASSUME ItemsInv, EditWorld \/ \E s \in Slots : DamageSlot(s) \/ BringSlot(s), GameInv'
  PROVE  ItemsInv'
<1>1. CASE EditWorld
  BY <1>1, ItemsKept DEF EditWorld, ItemsInv, ItemsConserved
<1>2. ASSUME NEW s \in Slots, DamageSlot(s) PROVE ItemsInv'
  <2>1. UNCHANGED <<running, world, player, ledger>>
    BY <1>2 DEF DamageSlot
  <2>2. PICK state \in {"torn", "edited", "badhex"} : slots' = [slots EXCEPT ![s] = Unreadable(state)]
    BY <1>2 DEF DamageSlot
  <2>3. Dues(Unreadable(state))
    BY DEF Dues, Unreadable, Slot
  <2> QED
    BY <2>1, <2>2, <2>3, SlotItems
<1>3. ASSUME NEW s \in Slots, BringSlot(s) PROVE ItemsInv'
  <2>1. UNCHANGED <<running, world, player, ledger>>
    BY <1>3 DEF BringSlot
  <2>2. PICK b \in Foreign : slots' = [slots EXCEPT ![s] =
                               [Unreadable("whole") EXCEPT !.body = b, !.due = BodyItems(b)]]
    BY <1>3 DEF BringSlot
  <2> DEFINE slot == [Unreadable("whole") EXCEPT !.body = b, !.due = BodyItems(b)]
  <2>3. slot.body = b /\ slot.due = BodyItems(b)
    BY DEF Unreadable, Slot
  <2> HIDE DEF slot
  <2>4. Dues(slot)
    BY <2>3 DEF Dues
  <2> QED
    BY <2>1, <2>2, <2>4, SlotItems DEF slot
<1> QED
  BY <1>1, <1>2, <1>3

\* Nothing is lost, doubled or made up: for every world file, with whatever blocks
\* of the same id, every save from elsewhere and every sequence of commands, what is
\* carried and what lies around are the items there should be.
THEOREM NothingLost == Spec => []ItemsConserved
<1>1. Init /\ GameInv => ItemsInv
  <2> SUFFICES ASSUME Init, GameInv PROVE ItemsInv
    OBVIOUS
  <2>1. ~running /\ world = <<>> /\ \A s \in Slots : slots[s] = Unreadable("absent")
    BY DEF Init
  <2>2. Unreadable("absent").state # "whole"
    BY DEF Unreadable, Slot
  <2>3. DOMAIN <<>> = {}
    OBVIOUS
  <2> QED
    BY <2>1, <2>2, <2>3, NoneFinite DEF ItemsInv, ItemsConserved
<1>2. ItemsInv /\ GameInv' /\ [Next]_vars => ItemsInv'
  <2> SUFFICES ASSUME ItemsInv, GameInv', [Next]_vars PROVE ItemsInv'
    OBVIOUS
  <2>1. CASE Start
    BY <2>1, StartItems
  <2>2. CASE Step
    BY <2>2, StepItems
  <2>3. CASE Quit \/ Kill
    BY <2>3, ExitItems DEF Quit, Kill
  <2>4. CASE EditWorld \/ \E s \in Slots : DamageSlot(s) \/ BringSlot(s)
    BY <2>4, OutsideItems
  <2>5. ASSUME NEW s \in Slots, CmdSave(s) \/ CmdLoad(s) PROVE ItemsInv'
    BY <2>5, SaveItems, LoadItems
  <2>6. CASE UNCHANGED vars
    BY <2>6, ItemsKept DEF vars, ItemsInv, ItemsConserved
  <2> QED
    BY <2>1, <2>2, <2>3, <2>4, <2>5, <2>6 DEF Next
<1>3. ItemsInv => ItemsConserved
  BY DEF ItemsInv
<1> QED
  BY <1>1, <1>2, <1>3, Invariance, PTL DEF Spec

=============================================================================
