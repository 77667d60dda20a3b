CONSTANTS
  f1 = f1
  f2 = f2
  r1 = r1
  NoFile = NoFile
  Files <- MCFiles
  Readers <- MCReaders
  Size <- MCSize
  MaxBytes = 1
  ScanChunk = 1
  DeleteChunk = 1
SPECIFICATION Spec
INVARIANTS
  DiscardedHaveNoRow
