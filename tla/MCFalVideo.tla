----------------------------- MODULE MCFalVideo -----------------------------
(* Two jobs of one model.  The replies stand for the classes the code      *)
(* tells apart; the bodies for one within the cap and for one that is too  *)
(* large without saying so.                                                *)
EXTENDS FalVideo, TLC

CONSTANTS j1, j2

TwoJobs == {j1, j2}
OneJob == {j1}
OneReplyOfEachKind == {NoReply, 200, 401, 429}
BodiesAround2 == {[declared |-> 2, chunks |-> <<1, 1>>],
                  [declared |-> NotDeclared, chunks |-> <<2, 1>>]}
=============================================================================
