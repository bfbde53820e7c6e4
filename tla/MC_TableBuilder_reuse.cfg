\* A builder converted with as_row_insert_request and then written again.
CONSTANTS
  ts = ts  val = val  t0 = t0  t1 = t1  bad = bad  lossy = lossy
  v0 = v0  v1 = v1  s0 = s0  s1 = s1  null = null  tbl = tbl
  GREPTIME_TIMESTAMP <- ts
  GREPTIME_VALUE <- val
  TagNames <- MC_TagNames
  NameBytes <- MC_NameBytes
  ValueBytes <- MC_ValueBytes
  INVALID_UTF8 <- bad
  LOSSY_STRING <- lossy
  Samples <- MC_Samples
  NULL <- null
  TableName <- tbl
  MaxLabels = 1
  MaxSamples = 1
  MaxRows = 2
  MaxRequests = 2
SPECIFICATION Spec
INVARIANT ConvertedRequestsWellFormed
