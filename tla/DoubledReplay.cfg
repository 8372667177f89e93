\* A pane mounted with auto-stream on, whose pod becomes terminal while the
\* stream is still opening; the user does nothing.
SPECIFICATION ViewerSpec
CONSTANTS
  MaxBuffer = 2
  Raw <- Lines
  NoSource = NoSource
  NoSelection = NoSelection
  Containers = {a}
  Home = a
  Ranges = {r1}
  FirstRange = r1
  AutoAtMount = TRUE
  MaxLines = 1
  MaxActs = 1
INVARIANTS
  NoDuplicateLines
CHECK_DEADLOCK FALSE
