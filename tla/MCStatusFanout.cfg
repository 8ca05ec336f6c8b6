\* Two concurrent requests, fan-outs or single words, one edit of each file.
SPECIFICATION Spec
CONSTANTS
  r1 = r1
  r2 = r2
  None = None
  Failed = Failed
  Requests <- Two
  WireWords = {"kubernetes", "local", "pod"}
  MaxEdits = 1
SYMMETRY Symmetry
INVARIANTS
  TypeOK
  OneResolution
  OneEnrichment
  WordIsolation
PROPERTY ImplementsView
CHECK_DEADLOCK FALSE
