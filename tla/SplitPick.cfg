\* A switch and a rescope; nothing fails.
SPECIFICATION Spec
CONSTANTS
  Contexts = {c1, c2}
  Home = c1
  Namespaces = {n1, n2}
  FirstScope = n1
  Reqs = {r1, r2}
  Jobs = {"switch", "rescope"}
  Confirmers = {}
  Markers = {}
  Readers = {}
  Worker = worker
  Boot = boot
  BootInit = bootinit
  InCluster = FALSE
  StaticCreds = FALSE
  OverlapBoot = FALSE
  Failures = {"auth", "other"}
  MaxEnv = 0
  MaxFaults = 0
  MaxAttempts = 0
  None = None
SYMMETRY ReqSymmetry
INVARIANTS
  PickIsLive
\* Requests end and nobody has to send another.
CHECK_DEADLOCK FALSE
