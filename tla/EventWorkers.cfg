CONSTANTS
  Envelopes <- MCEnvelopes
  EventIds = {1, 2, 3}
  NoNative = NoNative
  EmptyNative = EmptyNative
  NoGroup = NoGroup
  ClusterWindow = 2
  Workers = {w1, w2}
  Nobody = Nobody
  LeaseEnforced = TRUE
  LeaseMayDrop = TRUE
SYMMETRY Symmetry
SPECIFICATION Spec
INVARIANTS
  TypeOK
  ItemsStoredOnce
  VersionsExplained
PROPERTIES
  FreshWorkerAppends
