------------------------------- MODULE MCGame -------------------------------
(* demo-rpg on two places and two items with the same name. *)
EXTENDS Game, TLC

Cave == <<"cave">>
East == <<"east">>
West == <<"west">>
Bread == <<"dry", " ", "bread">>
BreadInFile == <<"dry", "_", "bread">>

NoItem == [kind |-> "none", name |-> <<>>, extra |-> 0]
Line(key, id, dir, to, item) == [key |-> key, id |-> id, dir |-> dir, to |-> to, item |-> item]
Place(id) == Line("location", id, <<>>, <<>>, NoItem)
Named == Line("name", <<>>, <<>>, <<>>, NoItem)
Way(dir, to) == Line("exit", <<>>, dir, to, NoItem)
Lies(kind, name, extra) ==
  Line("item", <<>>, <<>>, <<>>, [kind |-> kind, name |-> name, extra |-> extra])

MCWorldTexts ==
  << [there |-> TRUE, lines |->
       << Place(Glade), Named, Way(East, Cave), Lies("consumable", BreadInFile, 5),
          Place(Cave), Way(West, Glade), Lies("armor", BreadInFile, 1) >>],
     [there |-> TRUE, lines |-> << Place(Glade) >>],
     \* The cave is gone, the glade is described twice, an exit leads nowhere.
     [there |-> TRUE, lines |->
       << Place(Glade), Way(East, Cave), Lies("consumable", Bread, -5),
          Place(Glade), Lies("weapon", Bread, 1) >>],
     [there |-> TRUE, lines |-> << Place(Glade), Lies("scroll", Bread, 1) >>],
     [there |-> TRUE, lines |-> << Way(East, Cave) >>],
     [there |-> FALSE, lines |-> <<>>] >>

Saved(ver, hp, max, place, junk) ==
  [ver |-> ver, name |-> <<"hero">>, hp |-> hp, max |-> max, loc |-> place, junk |-> junk,
   inv |-> << [kind |-> "consumable", name |-> BreadInFile, extra |-> 15] >>,
   wloc |-> Glade :> << [kind |-> "weapon", name |-> BreadInFile, extra |-> 1] >>]

MCForeign ==
  { Saved(1, 3, 10, Cave, FALSE), Saved(1, 30, 10, Glade, FALSE), Saved(1, -3, 10, Glade, FALSE),
    Saved(1, 3, 0, Glade, FALSE), Saved(0, 3, 10, Glade, FALSE), Saved(1, 3, 10, Glade, TRUE) }

MCWords == {East, West, Bread}
=============================================================================
