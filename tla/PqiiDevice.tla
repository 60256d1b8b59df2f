----------------------------- MODULE PqiiDevice -----------------------------
(***************************************************************************)
(* The pqii PCI device (src/qemu/hw/misc/pqii.c): MMIO registers written  *)
(* by the guest, a worker thread that computes factorials, a DMA engine    *)
(* driven by a virtual-clock timer, the interrupt status and line, and     *)
(* the teardown that stops and joins the worker.                           *)
(*                                                                         *)
(* Threads: MMIO handlers, the DMA timer and pci_pqii_uninit run under the *)
(* iothread mutex (BQL); the worker runs on its own thread and takes the   *)
(* BQL only to raise the interrupt.  Every thr_mutex critical section is   *)
(* one step (none blocks inside), so thr_mutex needs no variable; the BQL  *)
(* is held across steps only by uninit, which holds it while it joins.     *)
(* A 32-bit mask is modelled as the set of its bits, each bit named by its *)
(* mask value.  The 0xa0 switch and pqii_post_load act on g_pqii_data and  *)
(* are modelled with the plugin in BranchPlugin.                           *)
(***************************************************************************)
EXTENDS Integers, Sequences, FiniteSets

CONSTANTS
  Msi,           \* msi_enabled(&pdev)
  FactVals,      \* values the guest writes to 0x08
  IrqVals,       \* masks the guest writes to 0x60 / 0x64
  DmaAddrVals,   \* values the guest writes to 0x80 / 0x88
  DmaCntVals,    \* values the guest writes to 0x90
  CmdVals,       \* values the guest writes to 0x98
  MaxWrites      \* bound on guest MMIO writes

FACT_IRQ == 1
DMA_IRQ == 256
DMA_START == 262144     \* 0x40000
DMA_SIZE == 4096
PQII_STATUS_COMPUTING == 1
PQII_STATUS_IRQFACT == 128
PQII_DMA_RUN == 1
PQII_DMA_DIR == 2       \* the bit PQII_DMA_DIR(cmd) extracts; set = TO_PCI
PQII_DMA_IRQ == 4

VARIABLES
  status,      \* pqii->status
  fact,        \* pqii->fact
  irq_status,  \* pqii->irq_status
  line,        \* level of the INTx pin (pci_set_irq)
  dma,         \* pqii->dma: [src, dst, cnt, cmd]
  armed,       \* pqii->dma_timer is pending
  stopping,    \* pqii->stopping
  tpc,         \* worker thread: "top", "wait", "compute", "clear", "irqcheck", "irq", "exit"
  tval,        \* worker's local val
  dev,         \* "running", "joining" (uninit holds the BQL in join), "gone", "hw_error"
  submitted,   \* history: the last value written to 0x08 that was accepted
  latched,     \* history: the DMA registers when RUN was written
  xfers,       \* history: the transfers the timer performed
  writes       \* number of guest MMIO writes

vars == <<status, fact, irq_status, line, dma, armed, stopping, tpc, tval, dev,
          submitted, latched, xfers, writes>>

NONE == -1

BQLFree == dev # "joining"

(* A uint32_t is kept as two 16-bit digits [hi, lo]: TLC's integers are *)
(* 32-bit signed, and the product wraps at 2^32.                          *)
DIGIT == 2^16
U32(n) == [hi |-> 0, lo |-> n]

(* Mutant: the product kept without the 32-bit wrap. *)
RECURSIVE FactLoopNoWrap(_, _, _)
FactLoopNoWrap(val, hi, lo) ==
  IF val > 0
  THEN FactLoopNoWrap(val - 1, hi * val + (lo * val) \div DIGIT, (lo * val) % DIGIT)
  ELSE [hi |-> hi, lo |-> lo]

(* The worker's loop: while (val > 0) ret *= val--; with ret a uint32_t *)
(* held as its digits hi, lo (val < 2^15, so no digit product overflows).  *)
RECURSIVE FactLoop(_, _, _)
FactLoop(val, hi, lo) ==
  IF val > 0
  THEN FactLoop(val - 1, (hi * val + (lo * val) \div DIGIT) % DIGIT, (lo * val) % DIGIT)
  ELSE [hi |-> hi, lo |-> lo]

-----------------------------------------------------------------------------
(* pqii_raise_irq *)
RaiseIrq(val) ==
  /\ irq_status' = irq_status \cup val
  /\ line' = IF irq_status' # {} /\ ~Msi THEN TRUE ELSE line

(* Mutant: the line is dropped whatever other bits are still pending. *)
LowerIrqAlways(val) ==
  /\ irq_status' = irq_status \ val
  /\ line' = IF ~Msi THEN FALSE ELSE line

(* pqii_lower_irq *)
LowerIrq(val) ==
  /\ irq_status' = irq_status \ val
  /\ line' = IF irq_status' = {} /\ ~Msi THEN FALSE ELSE line

(* within(addr, start, end) *)
Within(addr, start, end) == start <= addr /\ addr < end

(* Mutant: the end of the range is not checked. *)
CheckRangeNoEnd(addr, size1, start, size2) ==
  LET end2 == start + size2
  IN  Within(addr, start, end2) /\ addr + size1 > addr

(* pqii_check_range: FALSE where the code calls hw_error. *)
CheckRange(addr, size1, start, size2) ==
  LET end1 == addr + size1
      end2 == start + size2
  IN  Within(addr, start, end2) /\ end1 > addr /\ Within(end1, start, end2)

(* Mutant: a register write goes through while a transfer is pending. *)
DmaRwNoGuard(reg, val) == [dma EXCEPT ![reg] = val]

(* dma_rw, write direction: ignored while PQII_DMA_RUN is set. *)
DmaRw(reg, val) == IF PQII_DMA_RUN \in dma.cmd THEN dma ELSE [dma EXCEPT ![reg] = val]

(* pqii_mmio_read for the registers a guest polls. *)
MmioRead(addr) ==
  CASE addr = 8  -> fact
    [] addr = 32 -> status

GuestWrite == dev = "running" /\ writes < MaxWrites /\ writes' = writes + 1
-----------------------------------------------------------------------------
Init ==
  /\ status = {}
  /\ fact = U32(0)
  /\ irq_status = {}
  /\ line = FALSE
  /\ dma = [src |-> 0, dst |-> 0, cnt |-> 0, cmd |-> {}]
  /\ armed = FALSE
  /\ stopping = FALSE
  /\ tpc = "top"
  /\ tval = 0
  /\ dev = "running"
  /\ submitted = NONE
  /\ latched = dma
  /\ xfers = <<>>
  /\ writes = 0

(* Mutant: the busy check is dropped. *)
WriteFactNoBusyCheck(v) ==
  /\ GuestWrite
  /\ fact' = U32(v)
  /\ status' = status \cup {PQII_STATUS_COMPUTING}
  /\ tpc' = IF tpc = "wait" THEN "top" ELSE tpc
  /\ submitted' = v
  /\ UNCHANGED <<irq_status, line, dma, armed, stopping, tval, dev, latched, xfers>>

(* Mutant: qemu_cond_signal is left out. *)
WriteFactNoSignal(v) ==
  /\ GuestWrite
  /\ PQII_STATUS_COMPUTING \notin status
  /\ fact' = U32(v)
  /\ status' = status \cup {PQII_STATUS_COMPUTING}
  /\ submitted' = v
  /\ UNCHANGED <<irq_status, line, dma, armed, stopping, tpc, tval, dev, latched, xfers>>

(* mmio write 0x08: ignored while computing; otherwise, under thr_mutex,  *)
(* store the operand, set COMPUTING and signal the worker.                *)
WriteFact(v) ==
  /\ GuestWrite
  /\ PQII_STATUS_COMPUTING \notin status
  /\ fact' = U32(v)
  /\ status' = status \cup {PQII_STATUS_COMPUTING}
  /\ tpc' = IF tpc = "wait" THEN "top" ELSE tpc
  /\ submitted' = v
  /\ UNCHANGED <<irq_status, line, dma, armed, stopping, tval, dev, latched, xfers>>

(* mmio write 0x20: only the IRQFACT bit of the value counts. *)
WriteStatus(v) ==
  /\ GuestWrite
  /\ status' = IF PQII_STATUS_IRQFACT \in v THEN status \cup {PQII_STATUS_IRQFACT}
               ELSE status \ {PQII_STATUS_IRQFACT}
  /\ UNCHANGED <<fact, irq_status, line, dma, armed, stopping, tpc, tval, dev,
                 submitted, latched, xfers>>

(* mmio write 0x60 / 0x64 *)
WriteRaise(v) ==
  /\ GuestWrite
  /\ RaiseIrq(v)
  /\ UNCHANGED <<status, fact, dma, armed, stopping, tpc, tval, dev, submitted, latched, xfers>>

WriteLower(v) ==
  /\ GuestWrite
  /\ LowerIrq(v)
  /\ UNCHANGED <<status, fact, dma, armed, stopping, tpc, tval, dev, submitted, latched, xfers>>

(* mmio write 0x80 / 0x88 / 0x90: dma_rw(..., false) *)
WriteDmaReg(reg, v) ==
  /\ GuestWrite
  /\ dma' = DmaRw(reg, v)
  /\ UNCHANGED <<status, fact, irq_status, line, armed, stopping, tpc, tval, dev,
                 submitted, latched, xfers>>

(* mmio write 0x98: a value without RUN is ignored; otherwise dma_rw      *)
(* stores it and arms the timer, unless a transfer is already pending.     *)
WriteCmd(v) ==
  /\ GuestWrite
  /\ PQII_DMA_RUN \in v
  /\ dma' = DmaRw("cmd", v)
  /\ armed' = (armed \/ PQII_DMA_RUN \notin dma.cmd)
  /\ latched' = IF PQII_DMA_RUN \in dma.cmd THEN latched ELSE dma'
  /\ UNCHANGED <<status, fact, irq_status, line, stopping, tpc, tval, dev, submitted, xfers>>

-----------------------------------------------------------------------------
(* Worker, top of the loop: lock thr_mutex; wait while neither COMPUTING  *)
(* nor stopping; on stopping unlock and leave; otherwise take the operand *)
(* and unlock.                                                             *)
FactTop ==
  /\ tpc = "top"
  /\ \/ /\ stopping
        /\ tpc' = "exit"
        /\ UNCHANGED tval
     \/ /\ ~stopping
        /\ PQII_STATUS_COMPUTING \in status
        /\ tval' = fact.lo
        /\ tpc' = "compute"
     \/ /\ ~stopping
        /\ PQII_STATUS_COMPUTING \notin status
        /\ tpc' = "wait"
        /\ UNCHANGED tval
  /\ UNCHANGED <<status, fact, irq_status, line, dma, armed, stopping, dev,
                 submitted, latched, xfers, writes>>

(* qemu_cond_wait may return without a signal. *)
SpuriousWakeup ==
  /\ tpc = "wait"
  /\ tpc' = "top"
  /\ UNCHANGED <<status, fact, irq_status, line, dma, armed, stopping, tval, dev,
                 submitted, latched, xfers, writes>>

(* The product loop, then fact = ret under thr_mutex. *)
FactCompute ==
  /\ tpc = "compute"
  /\ fact' = FactLoop(tval, 0, 1)
  /\ tpc' = "clear"
  /\ UNCHANGED <<status, irq_status, line, dma, armed, stopping, tval, dev,
                 submitted, latched, xfers, writes>>

(* atomic_and(&status, ~COMPUTING) *)
FactClear ==
  /\ tpc = "clear"
  /\ status' = status \ {PQII_STATUS_COMPUTING}
  /\ tpc' = "irqcheck"
  /\ UNCHANGED <<fact, irq_status, line, dma, armed, stopping, tval, dev,
                 submitted, latched, xfers, writes>>

(* if (atomic_read(&status) & IRQFACT) *)
FactIrqCheck ==
  /\ tpc = "irqcheck"
  /\ tpc' = IF PQII_STATUS_IRQFACT \in status THEN "irq" ELSE "top"
  /\ UNCHANGED <<status, fact, irq_status, line, dma, armed, stopping, tval, dev,
                 submitted, latched, xfers, writes>>

(* qemu_mutex_lock_iothread(); pqii_raise_irq(FACT_IRQ); unlock. *)
FactIrq ==
  /\ tpc = "irq"
  /\ BQLFree
  /\ RaiseIrq({FACT_IRQ})
  /\ tpc' = "top"
  /\ UNCHANGED <<status, fact, dma, armed, stopping, tval, dev,
                 submitted, latched, xfers, writes>>

FactThread == FactTop \/ FactCompute \/ FactClear \/ FactIrqCheck \/ FactIrq

(* pqii_dma_timer: nothing unless RUN; the range is checked (hw_error     *)
(* stops the machine), the buffer copied, RUN cleared and, if asked for,  *)
(* DMA_IRQ raised.                                                         *)
DmaTimer ==
  /\ armed
  /\ dev = "running"
  /\ armed' = FALSE
  /\ IF PQII_DMA_RUN \notin dma.cmd
     THEN UNCHANGED <<irq_status, line, dma, dev, xfers>>
     ELSE LET toPci == PQII_DMA_DIR \in dma.cmd
              bufAddr == IF toPci THEN dma.src ELSE dma.dst
          IN  IF ~CheckRange(bufAddr, dma.cnt, DMA_START, DMA_SIZE)
              THEN /\ dev' = "hw_error"
                   /\ UNCHANGED <<irq_status, line, dma, xfers>>
              ELSE /\ xfers' = Append(xfers, [src |-> dma.src, dst |-> dma.dst,
                                              cnt |-> dma.cnt, toPci |-> toPci,
                                              programmed |-> latched])
                   /\ dma' = [dma EXCEPT !.cmd = @ \ {PQII_DMA_RUN}]
                   /\ IF PQII_DMA_IRQ \in dma.cmd
                      THEN RaiseIrq({DMA_IRQ})
                      ELSE UNCHANGED <<irq_status, line>>
                   /\ UNCHANGED dev
  /\ UNCHANGED <<status, fact, stopping, tpc, tval, submitted, latched, writes>>

(* pci_pqii_uninit, up to the join: set stopping under thr_mutex and      *)
(* signal; the caller holds the BQL from here until the join returns.      *)
UninitStop ==
  /\ dev = "running"
  /\ stopping' = TRUE
  /\ tpc' = IF tpc = "wait" THEN "top" ELSE tpc
  /\ dev' = "joining"
  /\ UNCHANGED <<status, fact, irq_status, line, dma, armed, tval,
                 submitted, latched, xfers, writes>>

(* qemu_thread_join returns once the worker left its loop; timer_del. *)
UninitJoin ==
  /\ dev = "joining"
  /\ tpc = "exit"
  /\ dev' = "gone"
  /\ armed' = FALSE
  /\ UNCHANGED <<status, fact, irq_status, line, dma, stopping, tpc, tval,
                 submitted, latched, xfers, writes>>

Guest ==
  \/ \E v \in FactVals : WriteFact(v)
  \/ \E v \in {{}, {PQII_STATUS_IRQFACT}} : WriteStatus(v)
  \/ \E v \in IrqVals : WriteRaise(v) \/ WriteLower(v)
  \/ \E v \in DmaAddrVals : WriteDmaReg("src", v) \/ WriteDmaReg("dst", v)
  \/ \E v \in DmaCntVals : WriteDmaReg("cnt", v)
  \/ \E v \in CmdVals : WriteCmd(v)

Next == Guest \/ FactThread \/ SpuriousWakeup \/ DmaTimer \/ UninitStop \/ UninitJoin

(* The worker is a host thread the OS keeps scheduling; the main loop     *)
(* returns from the join once the worker has exited.  Guest writes, the    *)
(* timer and device removal are not assumed to happen.                     *)
Spec == Init /\ [][Next]_vars /\ WF_vars(FactThread) /\ WF_vars(UninitJoin)

-----------------------------------------------------------------------------
TypeOK ==
  /\ status \subseteq {PQII_STATUS_COMPUTING, PQII_STATUS_IRQFACT}
  /\ DOMAIN fact = {"hi", "lo"} /\ fact.hi \in 0..DIGIT - 1 /\ fact.lo \in 0..DIGIT - 1
  /\ line \in BOOLEAN
  /\ armed \in BOOLEAN
  /\ tpc \in {"top", "wait", "compute", "clear", "irqcheck", "irq", "exit"}
  /\ dev \in {"running", "joining", "gone", "hw_error"}
  /\ writes \in 0..MaxWrites

(* Reference: n! as an unbounded number in base 2^16 (least significant  *)
(* digit first), then cut to its two low digits.                           *)
RECURSIVE BigMul(_, _, _)
BigMul(d, m, carry) ==
  IF d = <<>> THEN (IF carry = 0 THEN <<>> ELSE <<carry % DIGIT>> \o BigMul(<<>>, m, carry \div DIGIT))
  ELSE LET p == Head(d) * m + carry
       IN  <<p % DIGIT>> \o BigMul(Tail(d), m, p \div DIGIT)

RECURSIVE BigFactorial(_)
BigFactorial(n) == IF n = 0 THEN <<1>> ELSE BigMul(BigFactorial(n - 1), n, 0)

Digit(d, i) == IF i <= Len(d) THEN d[i] ELSE 0
FactorialU32(n) == [hi |-> Digit(BigFactorial(n), 2), lo |-> Digit(BigFactorial(n), 1)]

(* A guest that polls 0x20 until COMPUTING is clear and then reads 0x08   *)
(* gets the factorial (mod 2^32) of the last value it wrote to 0x08: the  *)
(* busy check, the worker's store of the result under thr_mutex and the   *)
(* later clear of COMPUTING keep operand and result apart.                 *)
GuestReadsFactorial ==
  (submitted # NONE /\ PQII_STATUS_COMPUTING \notin MmioRead(32))
     => MmioRead(8) = FactorialU32(submitted)

(* With INTx (no MSI) the pin is high exactly while some bit of           *)
(* irq_status is set, whichever of guest, worker and timer raised or      *)
(* lowered last.                                                           *)
IrqLineMatchesStatus == ~Msi => (line <=> irq_status # {})

(* Every transfer the timer performs uses the source, destination and     *)
(* count the guest had programmed when it wrote RUN to 0x98.               *)
DmaUsesProgrammedRange ==
  \A k \in 1..Len(xfers) :
     LET x == xfers[k]
     IN  x.src = x.programmed.src /\ x.dst = x.programmed.dst /\ x.cnt = x.programmed.cnt

(* A factorial the guest started is finished, unless the device is being  *)
(* removed: the 0x08 write signals the worker under thr_mutex.             *)
ComputationCompletes ==
  (PQII_STATUS_COMPUTING \in status /\ ~stopping)
     ~> (PQII_STATUS_COMPUTING \notin status \/ stopping)

(* Removing the device always finishes: the join in pci_pqii_uninit      *)
(* returns.                                                                *)
UninitCompletes == dev = "joining" ~> dev = "gone"

(* The timer copies only inside dma_buf: every transfer it performs, in  *)
(* either direction, reads or writes [DMA_START, DMA_START + DMA_SIZE),    *)
(* whatever addresses and count the guest programmed and however it       *)
(* rewrote them while the timer was pending.                               *)
DmaWithinBuffer ==
  \A k \in 1..Len(xfers) :
     LET x == xfers[k]
         a == IF x.toPci THEN x.src ELSE x.dst
     IN  DMA_START <= a /\ a + x.cnt <= DMA_START + DMA_SIZE
=============================================================================
