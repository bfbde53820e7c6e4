\* Two contexts and two tables, two builders at a time, one label per call, one label value.
CONSTANTS
  ts = ts  val = val  t0 = t0  t1 = t1  bad = bad  lossy = lossy
  v0 = v0  v1 = v1  s0 = s0  s1 = s1  null = null  none = none
  db1 = db1  cpu = cpu  mem = mem
  GREPTIME_TIMESTAMP <- ts
  GREPTIME_VALUE <- val
  TagNames <- MC_TagNames
  NameBytes <- MC_NameBytes
  ValueBytes <- MC_OneValue
  INVALID_UTF8 <- bad
  LOSSY_STRING <- lossy
  Samples <- MC_OneSample
  NULL <- null
  NONE <- none
  PromCtxs <- MC_PromCtxs
  TableNames <- MC_TableNames
  MaxLabels = 1
  MaxSamples = 1
  MaxRows = 1
  MaxBuilders = 2
SPECIFICATION Spec
INVARIANT UniqueTablePerDestination
PROPERTY ImplementsAbstract
