---------------------------- MODULE MCVideoJobs ----------------------------
(* Small sets of jobs and of DELETE requests; the cfg files choose.        *)
EXTENDS VideoJobs, TLC

CONSTANTS j1, j2, j3, d1, d2

TwoJobs == {j1, j2}
ThreeJobs == {j1, j2, j3}
NoDelete == {}
OneDelete == {d1}
TwoDeletes == {d1, d2}

(* Jobs are interchangeable, and so are DELETEs.                           *)
Symmetry == Permutations(Jobs) \cup Permutations(Deletes)
=============================================================================
