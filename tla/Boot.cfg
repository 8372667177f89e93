\* A switch or a rescope, a demotion and failures at any point of InitializeCluster
\* and after it.
SPECIFICATION Spec
CONSTANTS
  Contexts = {c1, c2}
  Home = c1
  Namespaces = {n1, n2}
  FirstScope = n1
  Reqs = {r1}
  Jobs = {"switch", "rescope"}
  Confirmers = {f1}
  Markers = {}
  Readers = {}
  Worker = worker
  Boot = boot
  BootInit = bootinit
  InCluster = FALSE
  StaticCreds = FALSE
  OverlapBoot = TRUE
  Failures = {"auth", "other"}
  MaxEnv = 2
  MaxFaults = 0
  MaxAttempts = 0
  None = None
INVARIANTS
  OneOperationAtATime
  DemotionOwnsSession
  DebtHasWorker

  
\* Requests end and nobody has to send another.
CHECK_DEADLOCK FALSE
