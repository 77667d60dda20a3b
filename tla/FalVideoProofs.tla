--------------------------- MODULE FalVideoProofs ---------------------------
(***************************************************************************)
(* Proofs about FalVideo.tla, for any jobs of one model, any replies and   *)
(* asset bodies, and any retry limits that satisfy FalAssumption.          *)
(***************************************************************************)
EXTENDS FalVideo, TLAPS

(* The types, without what TypeOK says of the retries.                     *)
StageTypes ==
  /\ pc \in [Jobs -> Stages]
  /\ cause \in [Jobs -> Causes]

CountTypes ==
  /\ asks \in [Jobs -> 0 .. 1]
  /\ attempt \in [Jobs -> Nat]
  /\ late \in [Jobs -> BOOLEAN]
  /\ faults \in [Jobs -> 0 .. 3]

FalTypes ==
  /\ fal \in [Jobs -> {"none", "rendering", "done", "stopped"}]
  /\ stop \in [Jobs -> BOOLEAN]
  /\ named \in [Jobs -> BOOLEAN]

SharedTypes ==
  /\ schema \in {"unknown", "cooldown", "known"}
  /\ holder \in Jobs \cup {Nobody}
  /\ authFailed \in BOOLEAN

Types == StageTypes /\ CountTypes /\ FalTypes /\ SharedTypes

(* A loop's count is within its limit and ends with the loop.              *)
CountInv(j) ==
  /\ pc[j] \in {"polling", "sleeping"} => attempt[j] <= MaxPollErrors
  /\ pc[j] \in {"fetching", "refetching"} => attempt[j] < ResultAttempts
  /\ pc[j] \in {"loading", "reloading"} => attempt[j] < AssetAttempts
  /\ pc[j] \notin Loop => attempt[j] = 0

(* Why a render that nobody asked fal to stop can be left behind: only the *)
(* handler of the poll loop leads to "stopping", and it has asked; a job   *)
(* that ends without it was cancelled early, was not told of its           *)
(* submission's success, or was never accepted.                            *)
StrayInv(j) ==
  /\ pc[j] = "stopping" => stop[j]
  /\ pc[j] \in {"failed", "cancelled"} =>
       stop[j] \/ cause[j] \in {"early", "submission"} \/ fal[j] = "none"

(* The failed attempts counted by the loop a job is in are among the       *)
(* faults it has seen; and a job out of retries is on its way out.         *)
FaultInv(j) ==
  /\ faults[j] = 3 \/ attempt[j] <= faults[j]
  /\ cause[j] = "exhausted" => faults[j] = 3 /\ pc[j] \in {"stopping", "failed"}

JobInv(j) == CountInv(j) /\ StrayInv(j) /\ FaultInv(j)

FalInv == Types /\ \A j \in Jobs : JobInv(j)

-----------------------------------------------------------------------------
(* A step of one job leaves the others alone, so only its own part of the  *)
(* invariant is to be shown again.                                         *)
Others(j) ==
  \A i \in Jobs \ {j} :
    /\ pc'[i] = pc[i] /\ attempt'[i] = attempt[i] /\ cause'[i] = cause[i]
    /\ faults'[i] = faults[i] /\ fal'[i] = fal[i] /\ stop'[i] = stop[i]

LEMMA OneJob ==
  ASSUME NEW j \in Jobs, FalInv, Types', Others(j), JobInv(j)'
  PROVE  FalInv'
<1>1. ASSUME NEW i \in Jobs, i # j PROVE JobInv(i)'
  BY <1>1 DEF FalInv, Others, JobInv, CountInv, StrayInv, FaultInv
<1>2. QED
  BY <1>1 DEF FalInv

(* The invariant holds at first.                                           *)
LEMMA InitFal == Init => FalInv
<1> SUFFICES ASSUME Init PROVE FalInv
  OBVIOUS
<1>1. Types
  <2>1. StageTypes
    BY DEF Init, StageTypes, Stages, Causes
  <2>2. CountTypes /\ FalTypes
    BY DEF Init, CountTypes, FalTypes
  <2>3. SharedTypes
    BY DEF Init, SharedTypes
  <2>4. QED
    BY <2>1, <2>2, <2>3 DEF Types
<1>2. ASSUME NEW j \in Jobs PROVE JobInv(j)
  BY <1>2, FalAssumption DEF Init, JobInv, CountInv, StrayInv, FaultInv
<1>3. QED
  BY <1>1, <1>2 DEF FalInv

-----------------------------------------------------------------------------
(* A step forward: nothing is counted, given up or asked of fal.           *)
LEMMA Moved ==
  ASSUME FalInv, NEW j \in Jobs,
         NEW where \in Stages \ {"stopping", "failed", "cancelled"}, Goes(j, where),
         \/ pc[j] \notin Loop \cup {"stopping"} \cup Ended
         \/ <<pc[j], where>> \in {<<"sleeping", "polling">>, <<"refetching", "fetching">>,
                                  <<"reloading", "loading">>},
         UNCHANGED <<attempt, late, cause, faults, fal, stop>>,
         asks' \in [Jobs -> 0 .. 1], named' \in [Jobs -> BOOLEAN], SharedTypes'
  PROVE  FalInv'
<1>1. Types'
  <2>1. StageTypes'
    BY DEF FalInv, Types, StageTypes, Goes
  <2>2. CountTypes' /\ FalTypes'
    BY DEF FalInv, Types, CountTypes, FalTypes
  <2>3. QED
    BY <2>1, <2>2 DEF Types
<1>2. Others(j)
  BY DEF FalInv, Types, StageTypes, CountTypes, FalTypes, SharedTypes, Others, Goes
<1>3. JobInv(j)'
  <2>1. pc'[j] = where /\ pc[j] \notin {"stopping", "failed"}
    BY DEF FalInv, Types, StageTypes, Ended, Goes
  <2>2. CountInv(j)'
    BY <2>1, FalAssumption DEF FalInv, JobInv, CountInv, Loop, Ended
  <2>3. StrayInv(j)' /\ FaultInv(j)'
    BY <2>1 DEF FalInv, JobInv, StrayInv, FaultInv
  <2>4. QED
    BY <2>2, <2>3 DEF JobInv
<1>4. QED
  BY <1>1, <1>2, <1>3, OneJob

(* The model's settings have been looked up, in the cache or at fal.       *)
LEMMA AskedStep ==
  ASSUME FalInv, NEW j \in Jobs, Asked(j), pc[j] \in {"asking", "locking", "lookup"},
         SharedTypes'
  PROVE  FalInv'
<1>1. PICK where \in {"asking", "submitting"} :
        Goes(j, where) /\ asks' \in [Jobs -> 0 .. 1]
  BY DEF FalInv, Types, CountTypes, Asked
<1>2. /\ where \in Stages \ {"stopping", "failed", "cancelled"}
      /\ pc[j] \notin Loop \cup {"stopping"} \cup Ended
      /\ UNCHANGED <<attempt, late, cause, faults, fal, stop>>
      /\ named' \in [Jobs -> BOOLEAN]
  BY DEF FalInv, Types, FalTypes, Stages, Loop, Ended, Asked, falVars
<1>3. QED
  BY <1>1, <1>2, Moved

(* A request asks for its model's settings.                                *)
LEMMA SettingsStep ==
  ASSUME FalInv, NEW j \in Jobs,
         Ask(j) \/ DerivedAtOnce(j) \/ DerivedAfterLock(j) \/ Locked(j) \/ LookedUp(j)
  PROVE  FalInv'
<1>1. SharedTypes'
  <2>1. CASE Ask(j) \/ DerivedAtOnce(j) \/ DerivedAfterLock(j)
    BY <2>1 DEF FalInv, Types, SharedTypes, schemaVars, Ask, DerivedAtOnce, DerivedAfterLock
  <2>2. CASE Locked(j)
    BY <2>2 DEF FalInv, Types, SharedTypes, Locked
  <2>3. CASE LookedUp(j)
    BY <2>3 DEF FalInv, Types, SharedTypes, LookedUp
  <2>4. QED
    BY <2>1, <2>2, <2>3
<1>2. CASE Asked(j) /\ pc[j] \in {"asking", "locking", "lookup"}
  BY <1>1, <1>2, AskedStep
<1>3. ASSUME NEW where \in {"asking", "locking", "lookup"}, Goes(j, where),
             pc[j] \in {"idle", "asking", "locking"}, UNCHANGED <<jobVars, falVars>>
      PROVE  FalInv'
  <2>1. /\ where \in Stages \ {"stopping", "failed", "cancelled"}
        /\ pc[j] \notin Loop \cup {"stopping"} \cup Ended
        /\ UNCHANGED <<attempt, late, cause, faults, fal, stop>>
        /\ asks' \in [Jobs -> 0 .. 1] /\ named' \in [Jobs -> BOOLEAN]
    BY <1>3 DEF FalInv, Types, CountTypes, FalTypes, Stages, Loop, Ended, jobVars, falVars
  <2>2. QED
    BY <1>1, <1>3, <2>1, Moved
<1>4. QED
  BY <1>2, <1>3 DEF Ask, DerivedAtOnce, DerivedAfterLock, Locked, LookedUp

(* The submission is answered.  A job that ends with another error than    *)
(* "submission" was refused, so fal has nothing of it.                     *)
LEMMA SubmittedStep ==
  ASSUME FalInv, NEW j \in Jobs, Submitted(j)
  PROVE  FalInv'
<1>0. /\ pc[j] = "submitting"
      /\ UNCHANGED <<asks, attempt, late, faults, fal, stop>>
      /\ asks' \in [Jobs -> 0 .. 1] /\ SharedTypes'
  BY DEF FalInv, Types, CountTypes, SharedTypes, Submitted, falVars, schemaVars
<1>1. CASE /\ Goes(j, "saving") /\ UNCHANGED cause
           /\ named' = [named EXCEPT ![j] = TRUE]
  <2>1. /\ "saving" \in Stages \ {"stopping", "failed", "cancelled"}
        /\ pc[j] \notin Loop \cup {"stopping"} \cup Ended
        /\ named' \in [Jobs -> BOOLEAN]
    BY <1>0, <1>1 DEF FalInv, Types, FalTypes, Stages, Loop, Ended
  <2>2. QED
    BY <1>0, <1>1, <2>1, Moved
<1>2. ASSUME NEW why \in {"auth", "submission"}, Fails(j, why), UNCHANGED named,
             why = "auth" => fal[j] = "none"
      PROVE  FalInv'
  <2>1. Types'
    <3>1. StageTypes'
      BY <1>2 DEF FalInv, Types, StageTypes, Stages, Causes, Ended, Fails, Goes
    <3>2. CountTypes' /\ FalTypes'
      BY <1>0, <1>2 DEF FalInv, Types, CountTypes, FalTypes
    <3>3. QED
      BY <1>0, <3>1, <3>2 DEF Types
  <2>2. Others(j)
    BY <1>0, <1>2
       DEF FalInv, Types, StageTypes, CountTypes, FalTypes, SharedTypes, Others, Fails, Goes
  <2>3. JobInv(j)'
    <3>1. pc'[j] = "failed" /\ cause'[j] = why /\ attempt[j] = 0 /\ faults[j] \in Nat
      BY <1>0, <1>2
         DEF FalInv, Types, StageTypes, CountTypes, FalTypes, SharedTypes,
             JobInv, CountInv, Loop, Fails, Goes
    <3>2. QED
      BY <1>0, <1>2, <3>1 DEF JobInv, CountInv, StrayInv, FaultInv, Loop
  <2>4. QED
    BY <2>1, <2>2, <2>3, OneJob
<1>3. PICK reply \in Replies :
        /\ reply # NoReply /\ RequestUpstream(reply) # "ok" => fal[j] = "none"
        /\ \/ /\ Goes(j, "saving") /\ UNCHANGED cause
              /\ named' = [named EXCEPT ![j] = TRUE]
           \/ /\ Fails(j, IF RequestUpstream(reply) = "UpstreamAuthError"
                          THEN "auth" ELSE "submission")
              /\ UNCHANGED named
  BY DEF Submitted
<1>4. RequestUpstream(reply) = "UpstreamAuthError" => fal[j] = "none"
  BY <1>3 DEF RequestUpstream, NoReply, IsSuccess
<1>5. QED
  BY <1>1, <1>2, <1>3, <1>4

(* The runner has stored the id, or has failed to; or a sleep ends.        *)
LEMMA SavedStep ==
  ASSUME FalInv, NEW j \in Jobs, Saved(j) \/ Awake(j)
  PROVE  FalInv'
<1>1. PICK where \in {"polling", "fetching", "loading"} :
        /\ Goes(j, where)
        /\ <<pc[j], where>> \in {<<"saving", "polling">>, <<"sleeping", "polling">>,
                                 <<"refetching", "fetching">>, <<"reloading", "loading">>}
  BY DEF Saved, Awake
<1>2. UNCHANGED <<jobVars, falVars, schemaVars, authFailed>>
  BY DEF Saved, Awake
<1>3. /\ where \in Stages \ {"stopping", "failed", "cancelled"}
      /\ pc[j] = "saving" => pc[j] \notin Loop \cup {"stopping"} \cup Ended
      /\ UNCHANGED <<attempt, late, cause, faults, fal, stop>>
      /\ asks' \in [Jobs -> 0 .. 1] /\ named' \in [Jobs -> BOOLEAN] /\ SharedTypes'
  BY <1>1, <1>2 DEF FalInv, Types, CountTypes, FalTypes, SharedTypes, Stages, Loop, Ended,
     jobVars, falVars, schemaVars
<1>4. QED
  BY <1>1, <1>3, Moved

-----------------------------------------------------------------------------
(* The poll loop and the fetches, by what an answer leads to.              *)

(* A transient failure is counted up to three.                             *)
LEMMA OneMoreFaultFacts ==
  ASSUME faults \in [Jobs -> 0 .. 3], NEW j \in Jobs, OneMoreFault(j)
  PROVE  /\ faults' \in [Jobs -> 0 .. 3]
         /\ \A i \in Jobs \ {j} : faults'[i] = faults[i]
         /\ faults'[j] = IF faults[j] = 3 THEN 3 ELSE faults[j] + 1
<1>1. (IF faults[j] = 3 THEN 3 ELSE faults[j] + 1) \in 0 .. 3
  OBVIOUS
<1>2. QED
  BY <1>1 DEF OneMoreFault

(* A loop that is given up has asked fal to stop, and counts nothing more. *)
LEMMA GaveUp ==
  ASSUME FalInv, NEW j \in Jobs, NEW why \in Causes, GiveUp(j, why),
         faults' \in [Jobs -> 0 .. 3], \A i \in Jobs \ {j} : faults'[i] = faults[i],
         why = "exhausted" => faults'[j] = 3,
         asks' \in [Jobs -> 0 .. 1], SharedTypes', UNCHANGED <<fal, named>>
  PROVE  FalInv'
<1>1. Types'
  <2>1. StageTypes'
    BY DEF FalInv, Types, StageTypes, Stages, GiveUp, Goes
  <2>2. CountTypes'
    BY DEF FalInv, Types, CountTypes, GiveUp, LoopEnds
  <2>3. FalTypes'
    BY DEF FalInv, Types, FalTypes, GiveUp
  <2>4. QED
    BY <2>1, <2>2, <2>3 DEF Types
<1>2. Others(j)
  BY DEF FalInv, Types, StageTypes, CountTypes, FalTypes, SharedTypes, Others,
         GiveUp, LoopEnds, Goes
<1>3. JobInv(j)'
  <2>1. /\ pc'[j] = "stopping" /\ stop'[j] /\ cause'[j] = why /\ attempt'[j] = 0
        /\ faults'[j] \in 0 .. 3
    BY DEF FalInv, Types, StageTypes, CountTypes, FalTypes, SharedTypes,
           GiveUp, LoopEnds, Goes
  <2>2. QED
    BY <2>1 DEF JobInv, CountInv, StrayInv, FaultInv, Loop
<1>4. QED
  BY <1>1, <1>2, <1>3, OneJob

(* The render is not ready, or the poll failed: another round of the loop. *)
LEMMA PolledAgain ==
  ASSUME FalInv, NEW j \in Jobs, NEW errors \in Nat, NotReady(j, errors),
         errors <= MaxPollErrors,
         faults' \in [Jobs -> 0 .. 3], \A i \in Jobs \ {j} : faults'[i] = faults[i],
         faults'[j] = 3 \/ errors <= faults'[j],
         pc[j] \in Loop, UNCHANGED <<asks, fal, named, schemaVars, authFailed>>
  PROVE  FalInv'
<1>0. SharedTypes' /\ asks' \in [Jobs -> 0 .. 1]
  BY DEF FalInv, Types, CountTypes, SharedTypes, schemaVars
<1>1. CASE late[j]
  <2>1. GiveUp(j, "timeout") /\ "timeout" \in Causes
    BY <1>1 DEF NotReady, Causes
  <2>2. QED
    BY <1>0, <2>1, GaveUp
<1>2. CASE ~late[j]
  <2>0. /\ pc' = [pc EXCEPT ![j] = "sleeping"]
        /\ attempt' = [attempt EXCEPT ![j] = errors]
        /\ UNCHANGED <<cause, stop, late>>
    BY <1>2 DEF NotReady, Goes
  <2>1. Types'
    <3>1. StageTypes'
      BY <2>0 DEF FalInv, Types, StageTypes, Stages, Loop
    <3>2. CountTypes'
      BY <1>0, <2>0 DEF FalInv, Types, CountTypes
    <3>3. FalTypes'
      BY <2>0 DEF FalInv, Types, FalTypes
    <3>4. QED
      BY <1>0, <3>1, <3>2, <3>3 DEF Types
  <2>2. Others(j)
    BY <2>0 DEF FalInv, Types, StageTypes, CountTypes, FalTypes, SharedTypes, Others
  <2>3. JobInv(j)'
    <3>1. /\ pc'[j] = "sleeping" /\ attempt'[j] = errors /\ cause'[j] = cause[j]
          /\ cause[j] # "exhausted"
      BY <2>0 DEF FalInv, Types, StageTypes, CountTypes, FalTypes, SharedTypes,
             JobInv, FaultInv, Loop
    <3>2. QED
      BY <3>1 DEF JobInv, CountInv, StrayInv, FaultInv, Loop
  <2>4. QED
    BY <2>1, <2>2, <2>3, OneJob
<1>3. QED
  BY <1>1, <1>2

(* A loop ends with what it was for.                                       *)
LEMMA GotIt ==
  ASSUME FalInv, NEW j \in Jobs, NEW where \in {"fetching", "loading", "clip"},
         Goes(j, where), LoopEnds(j), UNCHANGED faults \/ ForgetFaults(j),
         pc[j] \in Loop, UNCHANGED <<cause, stop, asks, fal, named, schemaVars, authFailed>>
  PROVE  FalInv'
<1>1. Types'
  <2>1. StageTypes'
    BY DEF FalInv, Types, StageTypes, Stages, Loop, Ended, Goes
  <2>2. faults' \in [Jobs -> 0 .. 3]
    BY DEF FalInv, Types, CountTypes, ForgetFaults
  <2>3. CountTypes'
    BY <2>2 DEF FalInv, Types, CountTypes, LoopEnds
  <2>4. FalTypes' /\ SharedTypes'
    BY DEF FalInv, Types, FalTypes, SharedTypes, schemaVars
  <2>5. QED
    BY <2>1, <2>3, <2>4 DEF Types
<1>2. Others(j)
  BY DEF FalInv, Types, StageTypes, CountTypes, FalTypes, SharedTypes, Others,
         LoopEnds, ForgetFaults, Goes
<1>3. JobInv(j)'
  <2>1. /\ pc'[j] = where /\ attempt'[j] = 0 /\ cause'[j] = cause[j]
        /\ faults'[j] \in Nat /\ cause[j] # "exhausted"
    BY DEF FalInv, Types, StageTypes, CountTypes, FalTypes, SharedTypes,
             JobInv, FaultInv, Loop,
           LoopEnds, ForgetFaults, Goes
  <2>2. QED
    BY <2>1, FalAssumption DEF JobInv, CountInv, StrayInv, FaultInv, Loop
<1>4. QED
  BY <1>1, <1>2, <1>3, OneJob

(* An attempt failed: the last one gives the job up, and is then the third *)
(* of its loop; another one is followed by a pause.                        *)
LEMMA Retried ==
  ASSUME FalInv, NEW j \in Jobs, NEW attempts \in Nat, NEW pause, Retry(j, attempts, pause),
         attempts >= 3,
         \/ pc[j] = "fetching" /\ pause = "refetching" /\ attempts = ResultAttempts
         \/ pc[j] = "loading" /\ pause = "reloading" /\ attempts = AssetAttempts,
         UNCHANGED <<asks, fal, named, schemaVars, authFailed>>
  PROVE  FalInv'
<1>0. SharedTypes' /\ asks' \in [Jobs -> 0 .. 1]
  BY DEF FalInv, Types, CountTypes, SharedTypes, schemaVars
<1>1. /\ faults' \in [Jobs -> 0 .. 3]
      /\ \A i \in Jobs \ {j} : faults'[i] = faults[i]
      /\ faults'[j] = IF faults[j] = 3 THEN 3 ELSE faults[j] + 1
  BY OneMoreFaultFacts DEF FalInv, Types, CountTypes, Retry
<1>2. /\ attempt[j] \in Nat /\ faults[j] \in 0 .. 3
      /\ faults[j] = 3 \/ attempt[j] <= faults[j]
      /\ cause[j] # "exhausted"
  BY DEF FalInv, Types, CountTypes, JobInv, FaultInv
<1>3. CASE attempt[j] + 1 = attempts
  <2>1. GiveUp(j, "exhausted") /\ "exhausted" \in Causes
    BY <1>2, <1>3 DEF Retry, Causes
  <2>2. faults'[j] = 3
    BY <1>1, <1>2, <1>3
  <2>3. QED
    BY <1>0, <1>1, <2>1, <2>2, GaveUp
<1>4. CASE attempt[j] + 1 # attempts
  <2>0. /\ attempt[j] + 1 < attempts
        /\ pc' = [pc EXCEPT ![j] = pause]
        /\ attempt' = [attempt EXCEPT ![j] = attempt[j] + 1]
        /\ UNCHANGED <<late, cause, stop>>
    BY <1>4 DEF Retry, Goes
  <2>1. Types'
    <3>1. StageTypes'
      BY <2>0 DEF FalInv, Types, StageTypes, Stages, Loop
    <3>2. CountTypes'
      BY <1>0, <1>1, <1>2, <2>0 DEF FalInv, Types, CountTypes
    <3>3. FalTypes'
      BY <2>0 DEF FalInv, Types, FalTypes
    <3>4. QED
      BY <1>0, <3>1, <3>2, <3>3 DEF Types
  <2>2. Others(j)
    BY <1>1, <2>0 DEF FalInv, Types, StageTypes, CountTypes, FalTypes, SharedTypes, Others
  <2>3. JobInv(j)'
    <3>1. pc'[j] = pause /\ attempt'[j] = attempt[j] + 1 /\ cause'[j] = cause[j]
      BY <2>0 DEF FalInv, Types, StageTypes, CountTypes, FalTypes, SharedTypes
    <3>2. CountInv(j)' /\ StrayInv(j)'
      BY <2>0, <3>1 DEF CountInv, StrayInv, Loop
    <3>3. FaultInv(j)'
      BY <1>1, <1>2, <3>1 DEF FaultInv
    <3>4. QED
      BY <3>2, <3>3 DEF JobInv
  <2>4. QED
    BY <2>1, <2>2, <2>3, OneJob
<1>5. QED
  BY <1>3, <1>4

(* A poll.  The error after MaxPollErrors others is at least the third.    *)
LEMMA PollStep ==
  ASSUME FalInv, NEW j \in Jobs, Poll(j)
  PROVE  FalInv'
<1>0. /\ pc[j] = "polling" /\ pc[j] \in Loop
      /\ UNCHANGED <<asks, fal, named, schemaVars, authFailed>>
      /\ SharedTypes' /\ asks' \in [Jobs -> 0 .. 1]
  BY DEF Poll, Loop, FalInv, Types, CountTypes, SharedTypes, schemaVars
<1>1. /\ attempt[j] \in Nat /\ faults[j] \in 0 .. 3 /\ attempt[j] <= MaxPollErrors
      /\ faults[j] = 3 \/ attempt[j] <= faults[j]
      /\ faults \in [Jobs -> 0 .. 3]
  BY <1>0 DEF FalInv, Types, CountTypes, JobInv, CountInv, FaultInv
<1>2. CASE PollAnswered(j)
  <2>1. CASE fal[j] = "done"
    BY <1>0, <1>2, <2>1, GotIt DEF PollAnswered
  <2>2. CASE fal[j] # "done"
    <3>1. NotReady(j, 0) /\ UNCHANGED faults
      BY <1>2, <2>2 DEF PollAnswered
    <3>2. QED
      BY <1>0, <1>1, <3>1, FalAssumption, PolledAgain
  <2>3. QED
    BY <2>1, <2>2
<1>3. CASE GiveUp(j, "auth") /\ UNCHANGED faults
  BY <1>0, <1>1, <1>3, GaveUp DEF Causes
<1>4. CASE PollFailed(j)
  <2>1. /\ faults' \in [Jobs -> 0 .. 3]
        /\ \A i \in Jobs \ {j} : faults'[i] = faults[i]
        /\ faults'[j] = IF faults[j] = 3 THEN 3 ELSE faults[j] + 1
    BY <1>1, <1>4, OneMoreFaultFacts DEF PollFailed
  <2>2. CASE attempt[j] = MaxPollErrors
    <3>1. GiveUp(j, "exhausted") /\ "exhausted" \in Causes
      BY <1>4, <2>2 DEF PollFailed, Causes
    <3>2. faults'[j] = 3
      BY <1>1, <2>1, <2>2, FalAssumption
    <3>3. QED
      BY <1>0, <2>1, <3>1, <3>2, GaveUp
  <2>3. CASE attempt[j] # MaxPollErrors
    <3>1. NotReady(j, attempt[j] + 1)
      BY <1>4, <2>3 DEF PollFailed
    <3>2. /\ attempt[j] + 1 \in Nat /\ attempt[j] + 1 <= MaxPollErrors
          /\ faults'[j] = 3 \/ attempt[j] + 1 <= faults'[j]
      BY <1>1, <2>1, <2>3, FalAssumption
    <3>3. QED
      BY <1>0, <2>1, <3>1, <3>2, PolledAgain
  <2>4. QED
    BY <2>2, <2>3
<1>5. QED
  BY <1>2, <1>3, <1>4 DEF Poll

(* The result, and then the clip.                                          *)
LEMMA FetchStep ==
  ASSUME FalInv, NEW j \in Jobs, Fetch(j) \/ Load(j)
  PROVE  FalInv'
<1>0. /\ pc[j] \in Loop /\ UNCHANGED <<asks, fal, named, schemaVars, authFailed>>
      /\ SharedTypes' /\ asks' \in [Jobs -> 0 .. 1] /\ faults \in [Jobs -> 0 .. 3]
  BY DEF Fetch, Load, Loop, FalInv, Types, CountTypes, SharedTypes, schemaVars
<1>1. ASSUME NEW where \in {"loading", "clip"}, Got(j, where) PROVE FalInv'
  BY <1>0, <1>1, GotIt DEF Got
<1>2. ASSUME NEW why \in Causes \ {"exhausted"}, Hopeless(j, why) PROVE FalInv'
  <2>1. GiveUp(j, why) /\ UNCHANGED faults
    BY <1>2 DEF Hopeless
  <2>2. QED
    BY <1>0, <2>1, GaveUp
<1>3. CASE Fetch(j)
  <2>1. \/ Got(j, "loading") \/ Hopeless(j, "no video") \/ Hopeless(j, "auth")
        \/ pc[j] = "fetching" /\ Retry(j, ResultAttempts, "refetching")
    BY <1>3 DEF Fetch
  <2>2. CASE pc[j] = "fetching" /\ Retry(j, ResultAttempts, "refetching")
    BY <1>0, <2>2, FalAssumption, Retried
  <2>3. QED
    BY <1>1, <1>2, <2>1, <2>2 DEF Causes
<1>4. CASE Load(j)
  <2>1. \/ Got(j, "clip") \/ Hopeless(j, "no asset")
        \/ pc[j] = "loading" /\ Retry(j, AssetAttempts, "reloading")
    BY <1>4 DEF Load
  <2>2. CASE pc[j] = "loading" /\ Retry(j, AssetAttempts, "reloading")
    BY <1>0, <2>2, FalAssumption, Retried
  <2>3. QED
    BY <1>1, <1>2, <2>1, <2>2 DEF Causes
<1>5. QED
  BY <1>3, <1>4

(* The request to stop is over, and the error goes on.                     *)
LEMMA StoppedStep ==
  ASSUME FalInv, NEW j \in Jobs, Stopped(j)
  PROVE  FalInv'
<1>1. Types'
  <2>1. StageTypes'
    BY DEF FalInv, Types, StageTypes, jobVars, Stages, Causes, Loop, Ended,
       Stopped, ForgetFaults, Goes
  <2>2. CountTypes'
    BY DEF FalInv, Types, CountTypes, jobVars,
       Stopped, ForgetFaults, Goes
  <2>3. FalTypes'
    BY DEF FalInv, Types, FalTypes, jobVars, falVars,
       Stopped, ForgetFaults, Goes
  <2>4. SharedTypes'
    BY DEF FalInv, Types, SharedTypes, schemaVars,
       Stopped, ForgetFaults, Goes
  <2>5. QED
    BY <2>1, <2>2, <2>3, <2>4 DEF Types
<1>2. Others(j)
  BY DEF FalInv, Types, StageTypes, CountTypes, FalTypes, SharedTypes, Others,
         jobVars, falVars, schemaVars, Stopped, ForgetFaults, Goes
<1>3. JobInv(j)'
  BY FalAssumption
     DEF FalInv, Types, StageTypes, CountTypes, FalTypes, SharedTypes,
         JobInv, CountInv, StrayInv, FaultInv, jobVars, falVars, schemaVars, Loop, Ended,
         Stopped, ForgetFaults, Goes
<1>4. QED
  BY <1>1, <1>2, <1>3, OneJob

(* The deadline of the poll loop.                                          *)
LEMMA LateStep ==
  ASSUME FalInv, NEW j \in Jobs, DeadlinePasses(j)
  PROVE  FalInv'
<1>1. Types'
  <2>1. StageTypes'
    BY DEF FalInv, Types, StageTypes, jobVars, Stages, Causes, Loop, Ended,
       DeadlinePasses
  <2>2. CountTypes'
    BY DEF FalInv, Types, CountTypes, jobVars,
       DeadlinePasses
  <2>3. FalTypes'
    BY DEF FalInv, Types, FalTypes, jobVars, falVars,
       DeadlinePasses
  <2>4. SharedTypes'
    BY DEF FalInv, Types, SharedTypes, schemaVars,
       DeadlinePasses
  <2>5. QED
    BY <2>1, <2>2, <2>3, <2>4 DEF Types
<1>2. Others(j)
  BY DEF FalInv, Types, StageTypes, CountTypes, FalTypes, SharedTypes, Others,
         jobVars, falVars, schemaVars, DeadlinePasses
<1>3. JobInv(j)'
  BY FalAssumption
     DEF FalInv, Types, StageTypes, CountTypes, FalTypes, SharedTypes,
         JobInv, CountInv, StrayInv, FaultInv, jobVars, falVars, schemaVars, Loop, Ended,
         DeadlinePasses
<1>4. QED
  BY <1>1, <1>2, <1>3, OneJob

(* A cancellation, wherever the job stands.                                *)
LEMMA CancelStep ==
  ASSUME FalInv, NEW j \in Jobs, Cancel(j)
  PROVE  FalInv'
<1>0. /\ ForgetFaults(j) /\ UNCHANGED <<fal, named>>
      /\ asks' \in [Jobs -> 0 .. 1] /\ SharedTypes'
  BY DEF Cancel, FalInv, Types, CountTypes, SharedTypes
<1>1. /\ faults' \in [Jobs -> 0 .. 3] /\ faults'[j] = 0
      /\ \A i \in Jobs \ {j} : faults'[i] = faults[i]
  BY <1>0 DEF FalInv, Types, CountTypes, ForgetFaults
<1>2. CASE GiveUp(j, "cancelled")
  BY <1>0, <1>1, <1>2, GaveUp DEF Causes
<1>3. ASSUME NEW why \in {"early", "cancelled"},
             pc[j] \in {"asking", "locking", "lookup", "submitting", "saving", "stopping"},
             why = "cancelled" => pc[j] = "stopping",
             Goes(j, "cancelled"), cause' = [cause EXCEPT ![j] = why],
             UNCHANGED <<stop, attempt, late>>
      PROVE  FalInv'
  <2>1. Types'
    <3>1. StageTypes'
      BY <1>3 DEF FalInv, Types, StageTypes, Stages, Ended, Causes, Goes
    <3>2. CountTypes' /\ FalTypes'
      BY <1>0, <1>1, <1>3 DEF FalInv, Types, CountTypes, FalTypes
    <3>3. QED
      BY <1>0, <3>1, <3>2 DEF Types
  <2>2. Others(j)
    BY <1>0, <1>1, <1>3
       DEF FalInv, Types, StageTypes, CountTypes, FalTypes, SharedTypes, Others, Goes
  <2>3. JobInv(j)'
    <3>1. pc'[j] = "cancelled" /\ cause'[j] = why /\ attempt[j] = 0
      BY <1>3 DEF FalInv, Types, StageTypes, CountTypes, FalTypes, SharedTypes,
             JobInv, CountInv, Loop, Goes
    <3>2. why = "cancelled" => stop[j]
      BY <1>3 DEF FalInv, JobInv, StrayInv
    <3>3. QED
      BY <1>1, <1>3, <3>1, <3>2 DEF JobInv, CountInv, StrayInv, FaultInv, Loop
  <2>4. QED
    BY <2>1, <2>2, <2>3, OneJob
<1>4. QED
  BY <1>2, <1>3 DEF Cancel

(* fal accepts, finishes or stops a render.                                *)
LEMMA FalStep ==
  ASSUME FalInv, NEW j \in Jobs, FalAccepts(j) \/ FalWorks(j)
  PROVE  FalInv'
<1>1. Types'
  <2>1. StageTypes'
    BY DEF FalInv, Types, StageTypes, jobVars, Stages, Causes, Loop, Ended,
       FalAccepts, FalWorks
  <2>2. CountTypes'
    BY DEF FalInv, Types, CountTypes, jobVars,
       FalAccepts, FalWorks
  <2>3. FalTypes'
    BY DEF FalInv, Types, FalTypes, jobVars, falVars,
       FalAccepts, FalWorks
  <2>4. SharedTypes'
    BY DEF FalInv, Types, SharedTypes, schemaVars,
       FalAccepts, FalWorks
  <2>5. QED
    BY <2>1, <2>2, <2>3, <2>4 DEF Types
<1>2. Others(j)
  BY DEF FalInv, Types, StageTypes, CountTypes, FalTypes, SharedTypes, Others,
         jobVars, falVars, schemaVars, FalAccepts, FalWorks
<1>3. JobInv(j)'
  BY FalAssumption
     DEF FalInv, Types, StageTypes, CountTypes, FalTypes, SharedTypes,
         JobInv, CountInv, StrayInv, FaultInv, jobVars, falVars, schemaVars, Loop, Ended,
         FalAccepts, FalWorks
<1>4. QED
  BY <1>1, <1>2, <1>3, OneJob

(* The process dies: every job that had begun is over, or as it was.       *)
LEMMA DieStep ==
  ASSUME FalInv, Die
  PROVE  FalInv'
<1> DEFINE dying == {j \in Jobs : pc[j] \notin Ended \cup {"idle"}}
<1>1. Types'
  <2>1. StageTypes'
    BY DEF FalInv, Types, StageTypes, Stages, Ended, Causes, Die
  <2>2. CountTypes'
    <3>1. asks' \in [Jobs -> 0 .. 1] /\ faults' \in [Jobs -> 0 .. 3]
      BY DEF FalInv, Types, CountTypes, Die
    <3>2. attempt' \in [Jobs -> Nat] /\ late' \in [Jobs -> BOOLEAN]
      BY DEF FalInv, Types, CountTypes, Die
    <3>3. QED
      BY <3>1, <3>2 DEF CountTypes
  <2>3. FalTypes' /\ SharedTypes'
    BY DEF FalInv, Types, FalTypes, SharedTypes, Die, falVars
  <2>4. QED
    BY <2>1, <2>2, <2>3 DEF Types
<1>2. ASSUME NEW j \in dying PROVE JobInv(j)'
  <2>1. pc'[j] = "died" /\ attempt'[j] = 0 /\ cause'[j] = "none" /\ faults'[j] = 0
    BY <1>2 DEF Die
  <2>2. QED
    BY <2>1 DEF JobInv, CountInv, StrayInv, FaultInv, Loop
<1>3. ASSUME NEW j \in Jobs \ dying PROVE JobInv(j)'
  <2>1. /\ pc'[j] = pc[j] /\ attempt'[j] = attempt[j] /\ cause'[j] = cause[j]
        /\ faults'[j] = faults[j] /\ UNCHANGED <<fal, stop>>
    BY <1>3 DEF Die, falVars
  <2>2. QED
    BY <2>1 DEF FalInv, JobInv, CountInv, StrayInv, FaultInv
<1>4. QED
  BY <1>1, <1>2, <1>3 DEF FalInv

(* The cooldown ends, or nothing happens.                                  *)
LEMMA OtherSteps ==
  ASSUME FalInv, CooldownEnds \/ UNCHANGED vars
  PROVE  FalInv'
<1>1. /\ UNCHANGED <<pc, asks, attempt, late, cause, faults, fal, stop, named>>
      /\ SharedTypes'
  BY DEF FalInv, Types, SharedTypes, CooldownEnds, vars, jobVars, falVars, schemaVars
<1>2. QED
  BY <1>1 DEF FalInv, Types, StageTypes, CountTypes, FalTypes,
              JobInv, CountInv, StrayInv, FaultInv

-----------------------------------------------------------------------------
(* Whatever fal answers, whoever cancels and whenever the process dies,    *)
(* the invariant holds.                                                    *)
THEOREM FalCorrect == Spec => []FalInv
<1>1. FalInv /\ [Next]_vars => FalInv'
  <2> SUFFICES ASSUME FalInv, [Next]_vars PROVE FalInv'
    OBVIOUS
  <2>1. ASSUME NEW j \in Jobs, JobStep(j) PROVE FalInv'
    BY <2>1, SettingsStep, SubmittedStep, SavedStep, PollStep, FetchStep, StoppedStep
       DEF JobStep
  <2>2. ASSUME NEW j \in Jobs, Ask(j) \/ DeadlinePasses(j) \/ Cancel(j) PROVE FalInv'
    BY <2>2, SettingsStep, LateStep, CancelStep
  <2>3. ASSUME NEW j \in Jobs, FalAccepts(j) \/ FalWorks(j) PROVE FalInv'
    BY <2>3, FalStep
  <2>4. CASE Die
    BY <2>4, DieStep
  <2>5. CASE CooldownEnds \/ UNCHANGED vars
    BY <2>5, OtherSteps
  <2>6. QED
    BY <2>1, <2>2, <2>3, <2>4, <2>5 DEF Next
<1>2. QED
  BY InitFal, <1>1, PTL DEF Spec

(* The types, and the limits of the retries.                               *)
THEOREM TypeCorrect == Spec => []TypeOK
<1>1. FalInv => TypeOK
  BY DEF FalInv, Types, StageTypes, CountTypes, FalTypes, SharedTypes, TypeOK,
         JobInv, CountInv
<1>2. QED
  BY <1>1, FalCorrect, PTL

(* A render that goes on after its job was given up has been asked to      *)
(* stop, unless the job was left before the poll loop.                     *)
THEOREM Stray == Spec => []NoStrayRender
<1>1. FalInv => NoStrayRender
  BY DEF FalInv, JobInv, StrayInv, NoStrayRender
<1>2. QED
  BY <1>1, FalCorrect, PTL

(* However the transient failures of a job fall on its loops, two of them  *)
(* never exhaust the retries of any.                                       *)
THEOREM TwoHiccups == Spec => []TwoHiccupsLoseNothing
<1>1. FalInv => TwoHiccupsLoseNothing
  BY DEF FalInv, JobInv, FaultInv, TwoHiccupsLoseNothing
<1>2. QED
  BY <1>1, FalCorrect, PTL
=============================================================================
