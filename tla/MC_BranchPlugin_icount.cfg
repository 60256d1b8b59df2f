\* Two vCPU threads (multi-threaded TCG) running two instructions each,
\* with the trace switched on once.
CONSTANTS
  c1 = c1
  c2 = c2
  Cpus = {c1, c2}
  Prog <- TwoCpus
  WARMUP_THRESHOLD_1 = 0
  WARMUP_THRESHOLD_2 = 4
  MaxToggles = 1
  MaxLoads = 0
  MAX_UDATA_BUF_SIZE = 2
SPECIFICATION Spec
INVARIANT SegmentIcountsConsecutive
CHECK_DEADLOCK FALSE
