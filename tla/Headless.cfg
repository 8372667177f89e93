\* Nobody touches the process: credentials are lost and restored, twice over, and a
\* Helm call reports an unreachable cluster.
SPECIFICATION FairSpec
CONSTANTS
  Contexts = {c1, c2}
  Home = c1
  Namespaces = {n1}
  FirstScope = n1
  Reqs = {}
  Jobs = {}
  Confirmers = {f1, f2}
  Markers = {m1}
  Readers = {}
  Worker = worker
  Boot = boot
  BootInit = bootinit
  InCluster = FALSE
  StaticCreds = TRUE
  OverlapBoot = FALSE
  Failures = {"auth", "other"}
  MaxEnv = 3
  MaxFaults = 1
  MaxAttempts = 1
  None = None
INVARIANTS
  AuthLossIsOwed
  ConnectedIsServed
PROPERTIES
  RecoverySettles
\* Requests end and nobody has to send another.
CHECK_DEADLOCK FALSE
