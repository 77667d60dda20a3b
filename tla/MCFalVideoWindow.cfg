CONSTANTS
  j1 = j1
  j2 = j2
  Nobody = Nobody
  Jobs <- OneJob
  Replies <- OneReplyOfEachKind
  Bodies <- BodiesAround2
  AssetCap = 2
  MaxPollErrors = 2
  ResultAttempts = 3
  AssetAttempts = 3
SPECIFICATION Spec
INVARIANTS
  AbandonedIsCancelled
CHECK_DEADLOCK FALSE
