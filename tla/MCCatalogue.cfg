CONSTANTS
  l1 = l1
  l2 = l2
  e1 = e1
  t1 = t1
  t2 = t2
  Nobody = Nobody
  NoValue = NoValue
  AuthCooldown = 2
  MaxChanges = 1
  Listings <- TwoListings
  Edits <- OneEdit
  Tasks <- TwoTasks
  Providers <- AllProviders
  Settings <- SomeSettings
  Catalogues <- ThreeCatalogues
  Configured <- OneConfigured
SPECIFICATION Spec
INVARIANTS
  TypeOK
  NothingIsLost
  PaysOnce
  NothingAfterClose
  SeesChanges
PROPERTIES
  SlowIsNotKilled
  EveryCallEnds
CHECK_DEADLOCK FALSE
