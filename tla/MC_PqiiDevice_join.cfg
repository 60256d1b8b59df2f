\* A factorial with IRQFACT enabled racing device removal.
CONSTANTS
  Msi = FALSE
  FactVals = {3}
  IrqVals <- MCIrqs
  DmaAddrVals = {}
  DmaCntVals = {}
  CmdVals = {}
  MaxWrites = 3
SPECIFICATION Spec
PROPERTY UninitCompletes
\* removing the device ends every behaviour
CHECK_DEADLOCK FALSE
