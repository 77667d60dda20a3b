----------------------------- MODULE MCDatabase -----------------------------
(* Two execute() calls and one two-statement transaction() block.          *)
EXTENDS Database

CONSTANTS e1, e2, t1

MCWrites == {e1, e2, t1}
MCBlocks == {t1}
MCStmts == [w \in MCWrites |-> IF w = t1 THEN 2 ELSE 1]
=============================================================================
