\* A pod of the cluster it watches: two requests retry beside the recovery worker.
SPECIFICATION FairSpec
CONSTANTS
  Contexts = {c1}
  Home = c1
  Namespaces = {n1}
  FirstScope = n1
  Reqs = {r1, r2}
  Jobs = {"retry"}
  Confirmers = {}
  Markers = {}
  Readers = {}
  Worker = worker
  Boot = boot
  BootInit = bootinit
  InCluster = TRUE
  StaticCreds = FALSE
  OverlapBoot = FALSE
  Failures = {"auth", "other"}
  MaxEnv = 2
  MaxFaults = 2
  MaxAttempts = 0
  None = None
INVARIANTS
  DebtHasWorker
PROPERTIES
  OutageEnds
\* Requests end and nobody has to send another.
CHECK_DEADLOCK FALSE
