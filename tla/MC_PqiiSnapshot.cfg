\* The factorial worker with operands 3 and 13, up to 3 guest writes and
\* two savevm/loadvm commands; the DMA engine is not exercised.
CONSTANTS
  Msi = FALSE
  FactVals = {3, 13}
  IrqVals = {}
  DmaAddrVals = {}
  DmaCntVals = {}
  CmdVals = {}
  MaxWrites = 3
  MaxVmOps = 2
SPECIFICATION VmSpec
INVARIANT GuestReadsFactorial
CHECK_DEADLOCK FALSE
