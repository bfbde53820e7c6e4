\* A second store type for the default store and the providers, and two WAL kinds.
CONSTANTS
  NONE = NONE
  FILE = File
  StoreTypes = {File, S3}
  WalKinds = {RaftEngine, Kafka}
SPECIFICATION Spec
\* build_with returns the started instance or panics: the fixture ends there.
CHECK_DEADLOCK FALSE
INVARIANT DdlAfterManagersStarted
