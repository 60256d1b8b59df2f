\* The factorial worker (operands 3 and 13; 13! wraps 32 bits) and the DMA
\* engine (1- and 2-byte transfers at the buffer's first and last byte, both
\* directions, with and without DMA_IRQ) against up to 6 guest writes,
\* INTx raise/lower and device removal.
CONSTANTS
  Msi = FALSE
  FactVals = {3, 13}
  IrqVals <- MCIrqs
  DmaAddrVals <- MCDmaAddrs
  DmaCntVals = {1, 2}
  CmdVals <- MCCmds
  MaxWrites = 6
SPECIFICATION Spec
INVARIANT TypeOK
INVARIANT GuestReadsFactorial
INVARIANT IrqLineMatchesStatus
INVARIANT DmaUsesProgrammedRange
INVARIANT DmaWithinBuffer
PROPERTY ComputationCompletes
\* removing the device ends every behaviour
CHECK_DEADLOCK FALSE
