\* Two containers and two ranges; two actions of the user or changes of the
\* pod's phase; three lines over windows of two, so that lines are evicted
\* under a reader and some go missing.
SPECIFICATION ViewerSpec
CONSTANTS
  MaxBuffer = 2
  Raw <- Lines
  NoSource = NoSource
  NoSelection = NoSelection
  Containers = {a, b}
  Home = a
  Ranges = {r1, r2}
  FirstRange = r1
  AutoAtMount = TRUE
  MaxLines = 3
  MaxActs = 2
INVARIANTS
  ViewerTypeOK
  PaneShowsContainer
  SelectionServed
  NoFalseFailure
  StreamGapless
  RetainedAccounting
  ExportMatchesCount
  PendingHasFrame
PROPERTIES
  WindowKept
  SpinnerEnds
\* The user need not act again and the containers need not write.
CHECK_DEADLOCK FALSE
