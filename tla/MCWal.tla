-------------------------------- MODULE MCWal --------------------------------
(* Wal with a few inserts: enough for one to tear, one to follow the tear   *)
(* and one to be truncated away or come back.                               *)
EXTENDS Wal
=============================================================================
