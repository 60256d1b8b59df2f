\* One vCPU thread (single-threaded TCG), a window of 2 records, up to 3
\* writes of 0xa0 and one loadvm.
CONSTANTS
  c1 = c1
  c2 = c2
  Cpus = {c1}
  Prog <- OneCpu
  WARMUP_THRESHOLD_1 = 0
  WARMUP_THRESHOLD_2 = 2
  MaxToggles = 3
  MaxLoads = 1
  MAX_UDATA_BUF_SIZE = 2
SPECIFICATION Spec
INVARIANT TypeOK
INVARIANT SegmentIcountsConsecutive
INVARIANT SegmentWithinBudget
\* the guest program is a finite prefix of an execution
CHECK_DEADLOCK FALSE
