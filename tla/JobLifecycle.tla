---------------------------- MODULE JobLifecycle ----------------------------
(***************************************************************************)
(* What a client of /v1/videos may rely on: the life of a job's row in the *)
(* video_jobs table.  A job is queued, may begin, and ends once: completed *)
(* only after it began, failed at any time before it has ended, with the   *)
(* message of whoever ended it.  Nothing changes a row after that.         *)
(*                                                                         *)
(* VideoJobs.tla is the detailed specification that implements this one.   *)
(***************************************************************************)
CONSTANTS
  Jobs,
  Reasons  \* the error messages a failed row may carry

VARIABLE
  row  \* each job's status and error message

Active == {"queued", "in_progress"}
Terminal == {"completed", "failed"}

Absent == [status |-> "absent", error |-> "none"]

Init == row = [j \in Jobs |-> Absent]

Becomes(j, status, error) ==
  row' = [row EXCEPT ![j] = [status |-> status, error |-> error]]

Queue(j) == row[j] = Absent /\ Becomes(j, "queued", "none")

Begin(j) == row[j].status = "queued" /\ Becomes(j, "in_progress", "none")

Complete(j) == row[j].status = "in_progress" /\ Becomes(j, "completed", "none")

Fail(j, why) == row[j].status \in Active /\ Becomes(j, "failed", why)

(* A restart fails every job the last process left behind, at once.        *)
Reap(why) ==
  row' = [j \in Jobs |-> IF row[j].status \in Active
                           THEN [status |-> "failed", error |-> why]
                           ELSE row[j]]

Next ==
  \/ \E j \in Jobs : Queue(j) \/ Begin(j) \/ Complete(j)
  \/ \E j \in Jobs, why \in Reasons : Fail(j, why)
  \/ \E why \in Reasons : Reap(why)

Spec == Init /\ [][Next]_row
=============================================================================
