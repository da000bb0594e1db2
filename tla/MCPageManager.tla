---------------------------- MODULE MCPageManager ----------------------------
(* PageManager on a file of at most three pages and a cache of two, so that *)
(* evictions, misses and holes at the end of the file all occur.            *)
EXTENDS PageManager, TLC

CONSTANTS blank, a, b

\* The two non-blank contents are interchangeable.
Interchangeable == Permutations({a, b})
=============================================================================
