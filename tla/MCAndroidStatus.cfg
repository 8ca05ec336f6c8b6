\* Two devices, three places, two moves of the host while the request runs.
SPECIFICATION Spec
CONSTANTS
  phone = phone
  tablet = tablet
  pod = pod
  box = box
  None = None
  Devices <- MCDevices
  Nested = {phone}
  Root <- MCRoot
  Places <- MCPlaces
  Host <- MCHost
  Nodes <- MCNodes
  RunEngine = "podman"
  MaxMoves = 2
INVARIANTS
  TypeOK
  RowPerDevice
  SteadyIsRunning
PROPERTY RunningSincePort
CHECK_DEADLOCK FALSE
