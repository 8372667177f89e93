\* A retry while InitializeCluster runs.
SPECIFICATION Spec
CONSTANTS
  Contexts = {c1}
  Home = c1
  Namespaces = {n1}
  FirstScope = n1
  Reqs = {r1}
  Jobs = {"retry"}
  Confirmers = {}
  Markers = {}
  Readers = {}
  Worker = worker
  Boot = boot
  BootInit = bootinit
  InCluster = FALSE
  StaticCreds = FALSE
  OverlapBoot = TRUE
  Failures = {"auth", "other"}
  MaxEnv = 1
  MaxFaults = 0
  MaxAttempts = 0
  None = None
INVARIANTS
  ConnectedIsServed
\* Requests end and nobody has to send another.
CHECK_DEADLOCK FALSE
