\* One vCPU, a window of 2 records, a ring of 3 slots (10000 in the code)
\* for the 3 distinct markers, one 0xa0 write and one loadvm.
CONSTANTS
  c1 = c1
  Cpus = {c1}
  Prog <- MarkedRegion
  WARMUP_THRESHOLD_1 = 0
  WARMUP_THRESHOLD_2 = 2
  MaxToggles = 1
  MaxLoads = 1
  MAX_UDATA_BUF_SIZE = 3
SPECIFICATION CacheSpec
INVARIANT CacheTypeOK
INVARIANT SegmentIcountsConsecutive
INVARIANT SegmentWithinBudget
\* the guest program is a finite prefix of an execution
CHECK_DEADLOCK FALSE
