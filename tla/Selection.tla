------------------------------ MODULE Selection ------------------------------
(***************************************************************************)
(* SelectSeq for a test that is given as the set of what passes it, so     *)
(* that facts about it can be stated and cited.                            *)
(***************************************************************************)
EXTENDS SequencesExt

Only(s, S) == FoldLeft(LAMBDA kept, e : IF e \in S THEN Append(kept, e) ELSE kept, <<>>, s)
=============================================================================
