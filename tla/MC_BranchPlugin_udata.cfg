\* One vCPU looping over three instrumented functions, a ring of 2 slots
\* (10000 in the code) and the trace switched off.
CONSTANTS
  c1 = c1
  c2 = c2
  Cpus = {c1}
  Prog <- ThreeFunctions
  WARMUP_THRESHOLD_1 = 0
  WARMUP_THRESHOLD_2 = 2
  MaxToggles = 0
  MaxLoads = 0
  MAX_UDATA_BUF_SIZE = 2
SPECIFICATION Spec
INVARIANT LoggedIdIsOwn
CHECK_DEADLOCK FALSE
