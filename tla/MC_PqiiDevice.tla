---------------------------- MODULE MC_PqiiDevice ----------------------------
EXTENDS PqiiDevice

(* DMA addresses: the first and last byte of the buffer, one past it. *)
MCDmaAddrs == {DMA_START, DMA_START + DMA_SIZE - 1}
MCDmaAddrsEdge == {DMA_START, DMA_START + DMA_SIZE}
(* cmd values: RUN from the device, RUN to the device with DMA_IRQ. *)
MCCmds == {{PQII_DMA_RUN}, {PQII_DMA_RUN, PQII_DMA_DIR, PQII_DMA_IRQ}}
MCIrqs == {{FACT_IRQ}, {DMA_IRQ}}
=============================================================================
