# TLA+ models of MindPalace

MindPalace traces a guest program running under QEMU and replays the trace in
ChampSim. The parts are:

1. **The pqii PCI device** (`src/qemu/hw/misc/pqii.c`), modelled on QEMU's
   `edu` device. The guest driver uses it for four things:
   - it switches tracing on and off with register `0xa0`, which writes the
     global `g_pqii_data` declared in `src/qemu/include/hw/pqii.h`;
   - it has a factorial computed on a worker thread;
   - it runs DMA on a timer;
   - it raises INTx or MSI interrupts.
2. **The TCG plugin** (`src/qemu/tests/plugin/branch_test.c`). At translation
   it registers callbacks for each instruction. When `g_pqii_data.status` is
   set, the callbacks count instructions in `g_pqii_data.icount` and emit one
   record per instruction inside a warm-up window. Each record holds the
   instruction's addresses, its branch kind and its target.
   `cache_test.c` and `trace_test.c` are older variants of the plugin. In
   `cache_test.c` the guest's marker nops (`0f 1f 84 be` begin,
   `0f 1f 84 ed` end) also switch `status`, and the callbacks turn `status`
   off themselves once the window of `WARMUP_THRESHOLD_2` instructions is
   used up.
3. **The ChampSim trace readers** (`src/champsim/src/tracereader.cc`, with
   `inc/instruction.h` and `inc/qemutrace.h`). They turn a trace into a stream
   of `ooo_model_instr`. There are two kinds:
   - the QEMU-event reader (`qemu_tracereader`) parses QEMU's simple-trace
     event log, where an instruction header comes ahead of its payload and
     memory events come after it;
   - the fixed-record readers (`input_tracereader`, `cloudsuite_tracereader`)
     replay a gzip/xz trace forever through a close/reopen loop.

   `get_tracereader` and the `tracereader` constructor choose the reader
   class and the decompressor from the character after the last `.` of the
   file name.

The device and the plugin interact through `g_pqii_data`. A guest store to
`0xa0` flips `status` and clears `icount` while vCPU threads are running the
plugin's callbacks. The reader consumes what the trace back-end writes.

## Modules

| Module | Models | State | Actions |
|---|---|---|---|
| `QemuTraceReader` | `qemu_tracereader` and `tracereader::open`/`get` for `.trace` files | the event file, the read position, `last_instr`, `initialized`, the returned stream, the phase (open, reading, exited, aborted) | `Open` checks the preamble (the first event must be a begin marker, `0xbe`). `Get` is one whole `get()`: `ReadSingleInstr` skips to an instruction header, reads its payload and the memory events after it, then `Resolve` sets the branch registers and the taken bit from the next instruction. |
| `ReaderFactory` | `get_tracereader`, `tracereader::tracereader` and its first `open()` | the file name (a sequence over a small alphabet), the `is_cloudsuite` knob, `decomp_program`, the class built (or `fatal`) | `Construct` is the whole construction: `find_last_of('.')`, the reader class from `last_dot[1]`, the existence check and the `open()` outcome as nondeterministic I/O results, and every path that ends the process. |
| `ChampsimTraceReader` | `input_tracereader`, `cloudsuite_tracereader`, `read_single_instr<T>`; EXTENDS `ReaderFactory` | the trace, records consumed since the pipe opened, `last_instr`, `initialized`, the returned stream, `pc`, and the factory's state | `Build` is the factory's `Construct`; nothing is read before it. `Call` is the consumer calling `get()`. `Reopen` is a failed `fread` followed by close and open. `Read` reads a whole record and returns the delayed instruction. |
| `LookaheadStream` | the abstract promise of a reader's `get()` | a fixed stream of addresses, the `[ip, target]` pairs returned, `busy` | `Call`; `Return` appends the next element with the following element's address as its target. |
| `BranchPlugin` | `vcpu_tb_trans` and the `vcpu_insn_*` callbacks of `branch_test.c`; the `0xa0` write and `pqii_post_load` | `status`, `icount`, `tmp_vaddr`, `tmp_paddr`, the position of each vCPU in its callback sequence, the `icount` value each vCPU has loaded, the emitted records; the `udata_buf` ring, `idx_udata_buf`, the translation cache (magic-nop physical address to ring slot) and the function-id log | `TranslateMagic` is `vcpu_tb_trans` for a magic nop not yet in the translation cache: it writes the id into the next ring slot. `ExecBefore` logs the id in the slot its cached translation points to. `GetVaddr` and `GetPaddr` are one action each. `ExecEnter` reads `status` and loads `icount`. `ExecStore` stores `icount+1` and emits. `Toggle` and `PostLoad` are the device side. |
| `CachePlugin` | `cache_test.c`; EXTENDS `BranchPlugin` for the globals, the programs, `get_vaddr`/`get_paddr`, `ExecEnter` and the device side | the `BranchPlugin` state; `udata_buf` holds each marker's fourth byte, and `fnlog` is the byte each marker callback read | `CacheTranslateMagic` puts a begin, end or function-id marker into the ring. `CacheExecBefore` sets `status` to 1 for `0xbe` and to 0 for `0xed`. `CacheExecStore` stores `icount+1`, emits a record inside the window, and stores `false` into `status` past it. |
| `PqiiDevice` | `pqii.c`: MMIO read and write, the fact thread, the DMA timer, the IRQ helpers, uninit | `status`, `fact` (uint32 as two 16-bit digits), `irq_status`, the INTx line, the DMA registers, the timer, the worker's pc, `stopping`, the device life-cycle | Each guest write is one action (`WriteFact`, `WriteStatus`, `WriteRaise`, `WriteLower`, `WriteDmaReg`, `WriteCmd`). The worker's steps are separate, each between a lock and an unlock (`FactTop`, `FactCompute`, `FactClear`, `FactIrqCheck`, `FactIrq`); `SpuriousWakeup` is a wakeup of the condition variable. The other actions are `DmaTimer`, `UninitStop` and `UninitJoin`. |

| `PqiiSnapshot` | savevm and loadvm of a machine with `pqii` (`vmstate_pqii`, `pqii_post_load`); EXTENDS `PqiiDevice` | the `PqiiDevice` state, the guest's operand as saved in the snapshot, a count of vm commands | `Save` records the guest's view. `Load` restores guest RAM (what the guest last wrote to `0x08`) and leaves every device register and the worker as they are: `vmstate_pqii` lists only `VMSTATE_PCI_DEVICE`, and the class has no reset handler. |

Each `MC_*.tla` module instantiates its module with small inputs:

- `MC_QemuTraceReader` builds every event file from a small alphabet. Its
  parts are:
  - a preamble marker;
  - instructions whose target either hits the next instruction's address or
    misses;
  - a load, a store, a marker, and an event kind outside the format;
  - optionally, a last event cut in its payload.
- `MC_ChampsimTraceReader` uses traces of 0 to 3 records, with or without a
  partial record at the end, and file names `a.gz`, `a.xz`, `a.trace` and
  `a` (`MCNames`). `EdgeNames` adds `a.tgz`, `d.x/a` and `a.` for the suffix
  run.
- `MC_BranchPlugin` has one vCPU program that contains every callback kind,
  a two-vCPU program, and `ThreeFunctions`: one vCPU running four magic nops
  of three functions at three physical addresses, then the first again.
- `MC_CachePlugin` has one program, `MarkedRegion`: a begin marker, three
  instructions around a function-id nop (the third past the window), an end
  marker, an untraced instruction, and the same begin marker again with one
  more instruction.
- `MC_PqiiDevice` fixes the DMA addresses at the edges of `dma_buf`.
- `MC_PqiiSnapshot` runs the factorial worker alone (no DMA or IRQ
  writes) with two savevm/loadvm commands.

The pure parts are operators, checked against reference definitions:

- `PqiiDevice!FactLoop` is the uint32 loop of `pqii_fact_thread`, with its
  wrap-around. It is checked against `FactorialU32`, an exact big-number
  factorial reduced mod 2^32.
- `QemuTraceReader!Resolve` and `SkipToInsn` are checked against `RefView`,
  which is built from the event file by a different route (spec.md 4.1).

## Refinement

`ChampsimTraceReader` implements `LookaheadStream` (`ImplementsLookaheadStream`,
checked as a PROPERTY in the `champsim_reader` run). The mapping:

- `stream <- DeliveredStream`: record 1, then the endless replay of the
  trace's records. The first element is record 1 twice, because the first
  `get()` fills the delay buffer and returns the record it read with itself
  as lookahead. The mapping states that behaviour, which disagrees with
  spec.md §4.3 (see the observed list under Runs).
- `out` is the returned stream projected to `ip` and `target`.
- `busy <- (pc = "reading")`.

The abstract spec has `WF_vars(Return)`, so the refinement includes the
liveness promise that a call returns whenever the trace has a whole record.
Together, it says that the reopen loop, restarts across the end of file and
the delay buffer hide nothing from the consumer: each returned instruction
is the next of the replay, and its target is the address of the one after.

## Runs

There are five pass runs:

| Run | What it shows |
|---|---|
| `qemu_reader` | `get()` returns, for every instruction but the last two, the instruction the format defines: its branch kind, its taken bit and its memory operand (`OutputMatchesReference`). The files come from two families: core files with every event kind, and short files with every branch tag 0..8. The reader aborts only on a malformed file (`AbortOnlyOnMalformed`). It emits all instructions but the last two (`EmitsAllButLastTwo`). |
| `champsim_reader` | The factory composed with the fixed-record reader. A QEMU reader is always given a `.trace` file to `fopen`, and a fixed-record reader always a gzip or xz pipe (`DecompressorMatchesReader`). The reader implements `LookaheadStream` (see Refinement). |
| `plugin_single` | With one vCPU thread: since the last `0xa0` write, icounts number the traced instructions 1, 2, 3, … without gaps or repeats. A segment emits at most `WARMUP_THRESHOLD_2` records. |
| `cache_plugin` | The icounts since the last `0xa0` write still number records 1, 2, 3, … when markers switch `status` between writes. A segment stays within `WARMUP_THRESHOLD_2` records even after a begin marker reopens `status` that the budget had closed. |
| `pqii_device` | A guest that sees `COMPUTING` clear reads the 32-bit factorial of the last operand it wrote (13! wraps 2^32). The INTx line equals `irq_status ≠ 0`. A transfer the timer performs uses the range latched when RUN was written. Every transfer stays inside `dma_buf`, whatever the guest programmed (`DmaWithinBuffer`). A started computation finishes (`ComputationCompletes`). |

The seven violation runs each record a finding in `PROJECT.json`:

| Run | Finding |
|---|---|
| `qemu_reader_lastwins` | The `trace_data` declared inside the loop (line 249) shadows the outer local declared at line 232, which line 269 passes on, so the **first** memory event after an instruction is kept. spec.md §9 documents last-wins. |
| `champsim_reader_suffix` | The factory looks only at the first character after the last dot. `a.tgz` gets a QEMU reader that `fopen`s a gzip file, `d.x/a` gets an xz pipe; the suffix check refuses neither (a real gzip file named `a.tgz` is then stopped by `open()`'s preamble asserts, after `fopen`). spec.md §7 and §8 say that only `.gz`, `.xz` and `.trace` are accepted. |
| `plugin_udata` | `vcpu_tb_trans` writes each magic nop's function id into the 10000-slot `udata_buf` ring and gives the callback a pointer into it. A translation that stays cached while the ring wraps then logs the id of a later function. Scaled to 2 slots, TLC finds it with three functions. |
| `plugin_mttcg_addr` | Under multi-threaded TCG, the shared `tmp_vaddr`/`tmp_paddr` are overwritten by another vCPU's callbacks, so a record carries another instruction's addresses. |
| `plugin_mttcg_icount` | The non-atomic `icount++` loses an increment, and two records share one icount. |
| `pqii_loadvm` | `vmstate_pqii` saves only the PCI config. After savevm, a second factorial and loadvm, the guest is back to having written 3 but reads 13! from `0x08`: guest RAM and device registers come from different times. |
| `pqii_join` | `pci_pqii_uninit` holds the BQL while it joins the worker. The worker waits for the BQL to raise `FACT_IRQ`. Removing the device during a factorial with IRQFACT set deadlocks. |

TLC also showed these disagreements; they are not kept as runs:

- At an end of file that falls on an event boundary, the QEMU reader calls
  `exit(1)`. spec.md §9 already says so.
- Indirect branches read source register 50, not a register spec.md names.
- On a trace without a whole record, `get()` of the fixed-record readers
  spins forever in its reopen loop.
- The first `get()` of a fixed-record reader returns record 1 with itself
  as lookahead, and the second call returns record 1 again. spec.md §4.3
  says each record is returned once per pass. The refinement mapping
  (`DeliveredStream`) states the code's behaviour.
- A partial record at the end of a trace is dropped by a silent restart.
  spec.md §9 calls a partial read fatal. `ImplementsLookaheadStream` checks
  that the partial record's bytes never reach the consumer.
- `pqii_check_range` compares the exclusive end strictly, so a transfer that
  ends at the last byte of `dma_buf` is refused with `hw_error`. The
  `pqii_device` run reaches that refusal. A unit test shows it as well, so
  the run checks the safety side, `DmaWithinBuffer`.
- The `0xa0` write flips `status`. `cache_test.c` clears `status` itself
  when the window is used up, and the end marker and `pqii_post_load` clear
  it too. A guest that writes `0xa0` to stop tracing after the window closed
  turns tracing back on, with `icount` reset, and another window is
  recorded. No comment or document says what `0xa0` must do, so this is
  listed as a hazard, not a finding.
- `cloudsuite_tracereader` copies the asid with
  `std::copy(begin(asid), begin(asid), …)`, which copies nothing, so every
  instruction keeps asid `255,255`. A unit test would show it; the model
  keeps the conversion and `TypeOK` checks its shape.

Every property of a pass run has a mutant in `PROJECT.json`: a plausible bug in
the mapped definition, which TLC must then report. Examples are a dropped
`RUN` guard in `pqii_dma_rw`, a missing `qemu_cond_signal`, a restart that
skips a record, and the `0xa0` write setting `status` to `~status`.

## Bounds

- **QEMU reader:** bodies of up to 4 events after the preamble. That is
  enough for an instruction followed by a load and a store, two instructions
  with a cut last event, and a marker between instructions. Two short
  families of bodies with 2 events are in the same run: one has every branch
  tag 0..8, and the other has every event kind in the preamble's second
  place and a wrong first marker byte.
- **Fixed-record readers:** up to 3 records and 7 calls. That is two full
  passes plus the start of a third, so the restart happens twice and the
  delay buffer is carried across it. The names cover each class, a name
  without a dot, and, in the suffix run, names where the first character
  after the dot agrees but the extension does not.
- **Plugin:** the window is `WARMUP_THRESHOLD_1 = 0` and
  `WARMUP_THRESHOLD_2 = 2`, scaled down from 10^8. With one vCPU and 5
  instructions, the window both fills and overflows. Three toggles and one
  loadvm reach on, off, on and a reload mid-segment. The two-vCPU runs use 2
  instructions per vCPU, which is the least that exhibits each race. The
  `udata_buf` ring has `MAX_UDATA_BUF_SIZE = 2` slots instead of 10000.
  Three distinct magic nops are then the least that wrap the ring under a
  cached translation. The ring's behaviour depends only on the number of
  distinct translations relative to its size.
- **Cache plugin:** one vCPU, a window of 2, a ring of 3 slots for the 3
  distinct markers, one `0xa0` write and one loadvm anywhere. The program
  overflows the window, passes an end marker, and re-executes the begin
  marker from its cached translation after two other markers were
  translated. The ring is sized to hold every marker, so the run checks
  the icount and budget properties, not the wrap (see `plugin_udata`).
- **Device:** factorial operands are 3 and 13. 13! is the first factorial
  past 2^32, so the wrap-around is exercised. DMA uses 1- and 2-byte transfers at
  the first and last byte of the buffer, in both directions, with and without
  `DMA_IRQ`, against up to 6 guest writes. Six writes suffice to write an
  operand, reprogram DMA while it runs, and remove the device.
- **Snapshot:** 3 guest writes and 2 vm commands: write, savevm, a second
  write after the first result, loadvm is the shortest scenario.

## Fairness

- `ChampsimTraceReader` assumes `WF_vars(ReadStep)`: once `get()` is called,
  the read loop runs on the simulator's own thread. `LookaheadStream`'s
  `WF_vars(Return)` is what the refinement then checks.
- `PqiiDevice` assumes `WF_vars(FactThread)`: the worker is a thread
  (`qemu_thread_create`) that runs whenever it can take its mutex.
- `PqiiDevice` also assumes `WF_vars(UninitJoin)`: `qemu_thread_join` returns
  once the worker exits.
- No fairness is assumed for the guest, the DMA timer or the plugin, whose
  properties are safety only.

## Not modelled

- **Reader construction I/O:** whether the file exists (`ifstream`,
  `wget --spider`) and whether `fopen` succeeds are nondeterministic outcomes
  in `ReaderFactory`; the `popen` pipe is the trace contents.
- **`trace_test.c`:** its callbacks are a subset of `branch_test.c`'s (no
  `tmp_paddr`, one exec kind). Its `qemu_plugin_get_cpuinfo` call takes three
  arguments where the other two variants pass five, so it does not build
  against the same QEMU core. That core is not in this repository.
- **`qemu_plugin_nop`**, which `cache_test.c`'s marker callback calls, is
  part of that QEMU core.
- **Plugin setup:** `qemu_plugin_install` parses arguments and sets flags
  that only `vcpu_haddr` reads, and `vcpu_haddr` changes no state.
  `plugin_init` and `plugin_exit` are empty.
- **The headers** `plugin.h`, `plugin-gen.h` and `trace/simple.h` are QEMU
  infrastructure: declarations and inline stubs whose implementations (the
  translator, the trace writer) are not in this repository.
- **pqii address clamp:** `pqii_clamp_addr` masks the guest-side DMA address
  with `dma_mask`. It computes a value that no checked property reads.
- **What else a snapshot restores:** guest RAM is only the guest's last
  operand; the PCI config space that `vmstate_pqii` does restore holds no
  state the device's handlers read.
- **Pooled `qemu_plugin_insn`:** `qemu_plugin_tb_insn_get` (`plugin.h`)
  does not reset `is_br_jmp` and `target_vaddr` on reuse. Whether that
  shows depends on the translator, which is not in this repository; it is
  listed as a hazard.
- **pqii MSI delivery and PCI config** are modelled only through the `Msi`
  constant.

## Plan for later sittings

- Add runs with MSI enabled for `pqii`.
- Run `CachePlugin` with two vCPUs. A marker's `status` store races the
  budget's `status = false` and the `icount` increment.
