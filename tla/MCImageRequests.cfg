CONSTANTS
  NoMeta = NoMeta
  Unreadable = Unreadable
  NoNode = NoNode
  MaxImages = 2
  MissThreshold = 2
  MaxCancels = 2
  MaxBytes = 2
  MaxUploads = 2
  MaxSide = 8
  Files <- SomeFiles
  Edited <- SomeEdited
  Requests <- SomeRequests
  Providers <- SomeProviders
  Replies <- SomeReplies
SPECIFICATION Spec
INVARIANTS
  AnswerIsTrue
  NothingLeftBehind
PROPERTIES
  EveryRequestEnds
CHECK_DEADLOCK FALSE
