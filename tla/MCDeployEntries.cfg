\* Three keys, two of which name one container; two edits while the request runs.
SPECIFICATION MCSpec
CONSTANTS
  None = None
  Failed = Failed
  Parts <- MCParts
  Keys <- MCKeys
  Kinds <- MCKinds
  Domains <- MCDomains
  Containers <- MCContainers
  Units <- MCUnits
  Sanitized <- MCSanitized
  MaxEdits = 2
INVARIANTS
  TypeOK
  OneRowPerEntry
  NotNewerThanRow
  OneContainerPerEntry
  NeverAGuess
  KubevirtEnriched
CHECK_DEADLOCK FALSE
