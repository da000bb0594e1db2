--------------------------- MODULE MCTableStorage ---------------------------
(* BPlusTree and TableStorage with nodes of two keys: the third insert      *)
(* splits the root.                                                         *)
EXTENDS TableStorage
=============================================================================
