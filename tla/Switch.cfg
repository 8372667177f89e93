\* A local session: two requests that switch, retry, move the namespace scope or
\* restart traffic while a profile capture reads; the network fails, credentials do not.
SPECIFICATION FairSpec
CONSTANTS
  Contexts = {c1, c2}
  Home = c1
  Namespaces = {n1, n2}
  FirstScope = n1
  Reqs = {r1, r2}
  Jobs = {"switch", "retry", "rescope", "traffic"}
  Confirmers = {}
  Markers = {}
  Readers = {d1}
  Worker = worker
  Boot = boot
  BootInit = bootinit
  InCluster = FALSE
  StaticCreds = FALSE
  OverlapBoot = FALSE
  Failures = {"other"}
  MaxEnv = 1
  MaxFaults = 2
  MaxAttempts = 0
  None = None
INVARIANTS
  TypeOK
  CacheServesClient
  ConnectedIsServed
  CaptureConsistent
  HolderIsCurrent
PROPERTIES
  
  RequestsEnd
\* Requests end and nobody has to send another.
CHECK_DEADLOCK FALSE
