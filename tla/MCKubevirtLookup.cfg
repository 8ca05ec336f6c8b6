\* kubevirt entries, one of which names the image it runs.
SPECIFICATION Spec
CONSTANTS
  None = None
  Failed = Failed
  Parts <- MCParts
  Keys <- MCKeys
  Kinds <- MCKubevirts
  Domains <- MCDomains
  Containers <- MCContainers
  Units <- MCUnits
  Sanitized <- MCSanitized
  MaxEdits = 0
INVARIANT KubevirtEnriched
CHECK_DEADLOCK FALSE
