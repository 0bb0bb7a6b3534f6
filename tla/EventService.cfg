CONSTANTS
  Envelopes <- MCEnvelopes
  EventIds = {1, 2, 3, 4}
  NoNative = NoNative
  EmptyNative = EmptyNative
  NoGroup = NoGroup
  ClusterWindow = 2
  Down = Down
  Idle = Idle
SPECIFICATION Spec
INVARIANTS
  TypeOK
  MemoryIsDurable
  ConflictOnlyOnEmptyIds
  IngestDecides
  TablesConsistent
  LineageReconstructs
  ClustersCohere
PROPERTIES
  AppendOnly
  ImplementsHistory
  ImplementsEventLog
