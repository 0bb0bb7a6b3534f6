CONSTANTS
  Envelopes <- MCShortFeed
  EventIds = {1, 2, 3}
  NoNative = NoNative
  EmptyNative = EmptyNative
  NoGroup = NoGroup
  ClusterWindow = 2
  Workers = {w1, w2, w3}
  Nobody = Nobody
  LeaseEnforced = TRUE
  LeaseMayDrop = FALSE
SYMMETRY Symmetry
SPECIFICATION Spec
INVARIANTS
  OneActiveWorker
