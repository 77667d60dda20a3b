----------------------------- MODULE MCEviction -----------------------------
(* Two files that do not fit the cache together, or the larger one alone.  *)
EXTENDS Eviction

CONSTANTS f1, f2, r1

MCFiles == {f1, f2}
MCReaders == {r1}
MCSize == [f \in MCFiles |-> IF f = f2 THEN 2 ELSE 1]
=============================================================================
