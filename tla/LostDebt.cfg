\* Two switches; one target rejects the credentials.
SPECIFICATION Spec
CONSTANTS
  Contexts = {c1, c2}
  Home = c1
  Namespaces = {n1}
  FirstScope = n1
  Reqs = {r1, r2}
  Jobs = {"switch"}
  Confirmers = {}
  Markers = {}
  Readers = {}
  Worker = worker
  Boot = boot
  BootInit = bootinit
  InCluster = FALSE
  StaticCreds = FALSE
  OverlapBoot = FALSE
  Failures = {"auth", "other"}
  MaxEnv = 1
  MaxFaults = 0
  MaxAttempts = 0
  None = None
SYMMETRY ReqSymmetry
INVARIANTS
  AuthLossIsOwed
\* Requests end and nobody has to send another.
CHECK_DEADLOCK FALSE
