CONSTANTS
  Envelopes <- MCEnvelopes
  EventIds = {1, 2}
  NoNative = NoNative
  EmptyNative = EmptyNative
  NoGroup = NoGroup
  ClusterWindow = 2
  Requests = {r1, r2}
  MaxVersion = 2
  None = None
SYMMETRY Symmetry
SPECIFICATION Spec
INVARIANTS
  RefreshObservesCommits
