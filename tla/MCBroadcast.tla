---------------------------- MODULE MCBroadcast ----------------------------
(* Three connections: one that speaks, one that leaves in any way, one that *)
(* stays and does not always read.                                         *)
EXTENDS Broadcast

MCMaxLines == <<1, 1, 0>>
MCLines == <<{"hi"}, {Quit}, {}>>
MCEndings == <<{}, {"fin", "reset"}, {}>>
=============================================================================
