CONSTANTS
  e1 = e1
  e2 = e2
  t1 = t1
  None = None
  Writes <- MCWrites
  Blocks <- MCBlocks
  Stmts <- MCStmts
SPECIFICATION Spec
INVARIANTS
  TypeOK
  WholeWrites
  OneWriteOpen
  HonestOutcome
PROPERTIES
  EveryCallEnds
  ImplementsAtomicWrites
