\* A user switches away while the worker wakes up.
SPECIFICATION Spec
CONSTANTS
  Contexts = {c1, c2}
  Home = c1
  Namespaces = {n1}
  FirstScope = n1
  Reqs = {r1}
  Jobs = {"switch"}
  Confirmers = {f1}
  Markers = {}
  Readers = {}
  Worker = worker
  Boot = boot
  BootInit = bootinit
  InCluster = FALSE
  StaticCreds = FALSE
  OverlapBoot = FALSE
  Failures = {"auth", "other"}
  MaxEnv = 2
  MaxFaults = 0
  MaxAttempts = 0
  None = None
PROPERTIES
  ReconnectSparesLiveSession
\* Requests end and nobody has to send another.
CHECK_DEADLOCK FALSE
