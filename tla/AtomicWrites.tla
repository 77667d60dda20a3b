---------------------------- MODULE AtomicWrites ----------------------------
(***************************************************************************)
(* What infra/db.py promises its callers: every write, of one statement or *)
(* of several, reaches the database whole or not at all, and the way the   *)
(* call ended tells the caller which.  Only a cancelled call leaves the    *)
(* answer open: its statements may still land, even after it has returned. *)
(*                                                                         *)
(* Database.tla is the detailed specification that implements this one.    *)
(***************************************************************************)
EXTENDS Naturals

CONSTANTS
  Writes,  \* calls of Database.execute() and blocks of Database.transaction()
  Stmts    \* [Writes -> Nat], the number of SQL statements of each

VARIABLES
  rows,    \* the statements whose effect the database file holds
  outcome  \* how each call ended, as its caller saw it

vars == <<rows, outcome>>

Parts(w) == {w} \X (1 .. Stmts[w])

Init ==
  /\ rows = {}
  /\ outcome = [w \in Writes |-> "pending"]

(* A commit reaches the file: all the statements of one write at once, and *)
(* never those of a call that was told it failed.                          *)
Land(w) ==
  /\ outcome[w] \in {"pending", "cancelled"}
  /\ rows' = rows \cup Parts(w)
  /\ UNCHANGED outcome

Return(w, how) ==
  /\ outcome[w] = "pending"
  /\ \/ how = "ok" /\ Parts(w) \subseteq rows
     \/ how = "error" /\ Parts(w) \cap rows = {}
     \/ how = "cancelled"
  /\ outcome' = [outcome EXCEPT ![w] = how]
  /\ UNCHANGED rows

(* The process dies: some unfinished calls never return.                   *)
Crash ==
  /\ \E lost \in SUBSET {w \in Writes : outcome[w] = "pending"} :
       outcome' = [w \in Writes |-> IF w \in lost THEN "crashed" ELSE outcome[w]]
  /\ UNCHANGED rows

Next ==
  \/ \E w \in Writes : Land(w)
  \/ \E w \in Writes, how \in {"ok", "error", "cancelled"} : Return(w, how)
  \/ Crash

Spec == Init /\ [][Next]_vars
=============================================================================
