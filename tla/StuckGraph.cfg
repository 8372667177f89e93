\* Two clusters and three streams: the view changes while a graph is held
\* back, and the next stream's graphs are held back for good.
SPECIFICATION Spec
CONSTANTS
  Clusters = {c1, c2}
  NoGraph = NoGraph
  MaxStreams = 3
INVARIANTS
  QueuedGraphScheduled
CHECK_DEADLOCK FALSE
