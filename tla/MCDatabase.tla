------------------------------ MODULE MCDatabase ------------------------------
(* Database with one id, one index and a table larger than its cache.       *)
EXTENDS Database

CONSTANTS none

OnlyDefault == {DefaultHeader}
LargeTable == {Table}

\* A damaged file is read as an empty tree, or as one with a row nobody inserted.
Damaged == {<< >>, << <<1, 7>> >>}
=============================================================================
