\* One table builder written with up to two labels and two samples per call.
CONSTANTS
  ts = ts  val = val  t0 = t0  t1 = t1  bad = bad  lossy = lossy
  v0 = v0  v1 = v1  s0 = s0  s1 = s1  null = null  none = none
  db1 = db1  cpu = cpu  mem = mem
  GREPTIME_TIMESTAMP <- ts
  GREPTIME_VALUE <- val
  TagNames <- MC_TagNames
  NameBytes <- MC_NameBytes
  ValueBytes <- MC_ValueBytes
  INVALID_UTF8 <- bad
  LOSSY_STRING <- lossy
  Samples <- MC_OneSample
  NULL <- null
  NONE <- none
  PromCtxs <- MC_OneCtx
  TableNames <- MC_OneTable
  MaxLabels = 2
  MaxSamples = 2
  MaxRows = 2
  MaxBuilders = 1
SPECIFICATION Spec
INVARIANT TypeOK
INVARIANT RequestsAligned
PROPERTY ImplementsAbstract
