---------------------------- MODULE BranchPlugin ----------------------------
(***************************************************************************)
(* The QEMU TCG plugin that produces the instruction trace                *)
(* (src/qemu/tests/plugin/branch_test.c), with the global switch          *)
(* g_pqii_data it shares with the pqii device (src/qemu/include/hw/pqii.h, *)
(* written by pqii_mmio_write at 0xa0 and pqii_post_load).                 *)
(*                                                                         *)
(* At translation, vcpu_tb_trans registers per instruction either the     *)
(* logging callback (a "magic" 0f 1f 84 ac nop) or three callbacks run in *)
(* order before the instruction: get_vaddr and get_paddr store the        *)
(* instruction's addresses in the globals tmp_vaddr and tmp_paddr, and    *)
(* vcpu_insn_exec_<kind> increments g_pqii_data.icount and, inside the    *)
(* warm-up window, emits a record with qemu_plugin_get_cpuinfo.           *)
(*                                                                         *)
(* Every vCPU thread runs its own callbacks; with multi-threaded TCG the  *)
(* threads interleave on the unsynchronised globals.  A step of the model *)
(* is one access to shared state: the read of status with the load of     *)
(* icount (ExecEnter) and the store of icount with the emission           *)
(* (ExecStore) are separate steps, as the non-atomic icount++ is.          *)
(*                                                                         *)
(* Translation is kept only where it has state: a magic nop's function-id *)
(* bytes are copied into the next slot of the ring udata_buf and its      *)
(* callback gets a pointer to that slot.  Translations are cached by the  *)
(* instruction's physical address, so an instruction executed again runs  *)
(* its cached callbacks and reads its slot as it is then.                  *)
(***************************************************************************)
EXTENDS Integers, Sequences

CONSTANTS
  Cpus,                \* vCPU threads
  Prog,                \* Prog[c]: the instructions vCPU c executes, in order
  WARMUP_THRESHOLD_1,  \* 000000000 in the code (octal zero)
  WARMUP_THRESHOLD_2,  \* 100000000 in the code, scaled down
  MaxToggles,          \* bound on guest writes to the 0xa0 register
  MaxLoads,            \* bound on loadvm
  MAX_UDATA_BUF_SIZE   \* 10000 in the code, scaled down

VARIABLES
  status,     \* g_pqii_data.status, a uint8_t
  icount,     \* g_pqii_data.icount
  tmp_vaddr,  \* tmp_vaddr
  tmp_paddr,  \* tmp_paddr
  pc,         \* pc[c] = [i: instruction index, s: next callback]
  loc,        \* loc[c]: icount as loaded by c's non-atomic increment
  trace,      \* the records qemu_plugin_get_cpuinfo has emitted
  since,      \* icounts emitted since the last 0xa0 write
  toggles,    \* number of 0xa0 writes so far
  loads,      \* number of loadvm so far
  udata_buf,      \* udata_buf[k]: the function id in slot k
  idx_udata_buf,  \* idx_udata_buf, the next slot
  slot,           \* slot[paddr]: the slot of a translated magic nop, or NONE
  fnlog           \* the function ids vcpu_insn_exec_before has logged

ringVars == <<udata_buf, idx_udata_buf, slot, fnlog>>
vars == <<status, icount, tmp_vaddr, tmp_paddr, pc, loc, trace, since, toggles, loads, ringVars>>

NONE == -1

(* The physical addresses of the magic nops of the programs. *)
MagicAddrs == UNION {{Prog[c][i].paddr : i \in {j \in DOMAIN Prog[c] : Prog[c][j].magic}} : c \in Cpus}

Insn(c) == Prog[c][pc[c].i]

(* The instruction bytes 0f 1f 84 ac mark a function-id nop. *)
IsMagic(insn) == insn.magic

(* vcpu_tb_trans: the first callback registered for an instruction. *)
TbTrans(insn) == IF IsMagic(insn) THEN "before" ELSE "vaddr"

(* The switch on is_br_jmp: kinds 1..7 get vcpu_insn_exec_<kind> with     *)
(* the target as udata; any other value gets vcpu_insn_exec_normal, which *)
(* passes kind 0 and target 0.                                             *)
ExecKind(insn)   == IF insn.br \in 1..7 THEN insn.br ELSE 0
ExecTarget(insn) == IF insn.br \in 1..7 THEN insn.tgt ELSE 0

(* Mutant: the window admits one instruction past the threshold. *)
InWindowPastThreshold(n) == n > WARMUP_THRESHOLD_1 /\ n <= WARMUP_THRESHOLD_2 + 1

(* (icount > WARMUP_THRESHOLD_1) && (icount <= WARMUP_THRESHOLD_2) *)
InWindow(n) == n > WARMUP_THRESHOLD_1 /\ n <= WARMUP_THRESHOLD_2

(* Move vCPU c to its next instruction. *)
Advance(c) ==
  pc' = [pc EXCEPT ![c] =
           IF pc[c].i < Len(Prog[c])
           THEN [i |-> pc[c].i + 1, s |-> TbTrans(Prog[c][pc[c].i + 1])]
           ELSE [i |-> pc[c].i + 1, s |-> "done"]]

AtBoundary(c) == pc[c].s \in {"vaddr", "before", "done"}

-----------------------------------------------------------------------------
Init ==
  /\ status = 0
  /\ icount = 0
  /\ tmp_vaddr = 0
  /\ tmp_paddr = 0
  /\ pc = [c \in Cpus |-> IF Prog[c] = <<>> THEN [i |-> 1, s |-> "done"]
                          ELSE [i |-> 1, s |-> TbTrans(Prog[c][1])]]
  /\ loc = [c \in Cpus |-> 0]
  /\ trace = <<>>
  /\ since = <<>>
  /\ toggles = 0
  /\ loads = 0
  /\ udata_buf = [k \in 0..MAX_UDATA_BUF_SIZE - 1 |-> 0]
  /\ idx_udata_buf = 0
  /\ slot = [a \in MagicAddrs |-> NONE]
  /\ fnlog = <<>>

(* vcpu_tb_trans, for a magic nop not in the translation cache: its id   *)
(* bytes go into slot idx_udata_buf, which its callback will point to, and *)
(* the index moves on, back to 0 at the end of the ring.                   *)
TranslateMagic(c) ==
  /\ pc[c].s = "before"
  /\ slot[Insn(c).paddr] = NONE
  /\ udata_buf' = [udata_buf EXCEPT ![idx_udata_buf] = Insn(c).id]
  /\ slot' = [slot EXCEPT ![Insn(c).paddr] = idx_udata_buf]
  /\ idx_udata_buf' = IF idx_udata_buf + 1 >= MAX_UDATA_BUF_SIZE THEN 0 ELSE idx_udata_buf + 1
  /\ UNCHANGED <<status, icount, tmp_vaddr, tmp_paddr, pc, loc, trace, since, toggles, loads, fnlog>>

(* vcpu_insn_exec_before: logs the two id bytes its udata points to,      *)
(* whatever the trace switch says.                                         *)
ExecBefore(c) ==
  /\ pc[c].s = "before"
  /\ slot[Insn(c).paddr] # NONE
  /\ fnlog' = Append(fnlog, [cpu |-> c, idx |-> pc[c].i, id |-> udata_buf[slot[Insn(c).paddr]]])
  /\ Advance(c)
  /\ UNCHANGED <<status, icount, tmp_vaddr, tmp_paddr, loc, trace, since, toggles, loads,
                 udata_buf, idx_udata_buf, slot>>

(* vcpu_insn_get_vaddr *)
GetVaddr(c) ==
  /\ pc[c].s = "vaddr"
  /\ tmp_vaddr' = Insn(c).vaddr
  /\ pc' = [pc EXCEPT ![c].s = "paddr"]
  /\ UNCHANGED <<status, icount, tmp_paddr, loc, trace, since, toggles, loads, ringVars>>

(* vcpu_insn_get_paddr *)
GetPaddr(c) ==
  /\ pc[c].s = "paddr"
  /\ tmp_paddr' = Insn(c).paddr
  /\ pc' = [pc EXCEPT ![c].s = "exec"]
  /\ UNCHANGED <<status, icount, tmp_vaddr, loc, trace, since, toggles, loads, ringVars>>

(* vcpu_insn_exec_<kind>, first half: if (g_pqii_data.status) and the     *)
(* load of icount for icount++; a disabled trace ends the callback.        *)
ExecEnter(c) ==
  /\ pc[c].s = "exec"
  /\ IF status # 0
     THEN /\ loc' = [loc EXCEPT ![c] = icount]
          /\ pc' = [pc EXCEPT ![c].s = "store"]
     ELSE /\ Advance(c)
          /\ UNCHANGED loc
  /\ UNCHANGED <<status, icount, tmp_vaddr, tmp_paddr, trace, since, toggles, loads, ringVars>>

(* Second half: the store of icount + 1 and, in the window, the call      *)
(* qemu_plugin_get_cpuinfo(tmp_vaddr, tmp_paddr, kind, udata, icount)     *)
(* with the incremented value still in the register.                      *)
ExecStore(c) ==
  /\ pc[c].s = "store"
  /\ LET n == loc[c] + 1
         rec == [vaddr |-> tmp_vaddr, paddr |-> tmp_paddr,
                 kind |-> ExecKind(Insn(c)), target |-> ExecTarget(Insn(c)),
                 icount |-> n, cpu |-> c, idx |-> pc[c].i]
     IN /\ icount' = n
        /\ IF InWindow(n)
           THEN /\ trace' = Append(trace, rec)
                /\ since' = Append(since, n)
           ELSE UNCHANGED <<trace, since>>
  /\ Advance(c)
  /\ UNCHANGED <<status, tmp_vaddr, tmp_paddr, loc, toggles, loads, ringVars>>

(* Mutant: the 0xa0 write does not clear icount. *)
ToggleNoReset(c) ==
  /\ AtBoundary(c)
  /\ toggles < MaxToggles
  /\ status' = IF status = 0 THEN 1 ELSE 0
  /\ since' = <<>>
  /\ toggles' = toggles + 1
  /\ UNCHANGED <<icount, tmp_vaddr, tmp_paddr, pc, loc, trace, loads, ringVars>>

(* Mutant: the switch flipped with ~ instead of !. *)
ToggleComplement(c) ==
  /\ AtBoundary(c)
  /\ toggles < MaxToggles
  /\ status' = 255 - status
  /\ icount' = 0
  /\ since' = <<>>
  /\ toggles' = toggles + 1
  /\ UNCHANGED <<tmp_vaddr, tmp_paddr, pc, loc, trace, loads, ringVars>>

(* pqii_mmio_write, case 0xa0: a store of vCPU c to the device, between    *)
(* two of its instructions, flips the trace switch and clears icount.      *)
Toggle(c) ==
  /\ AtBoundary(c)
  /\ toggles < MaxToggles
  /\ status' = IF status = 0 THEN 1 ELSE 0
  /\ icount' = 0
  /\ since' = <<>>
  /\ toggles' = toggles + 1
  /\ UNCHANGED <<tmp_vaddr, tmp_paddr, pc, loc, trace, loads, ringVars>>

(* pqii_post_load: loadvm runs with every vCPU stopped between            *)
(* instructions and always turns the trace off; icount is kept.            *)
PostLoad ==
  /\ \A c \in Cpus : AtBoundary(c)
  /\ loads < MaxLoads
  /\ status' = 0
  /\ loads' = loads + 1
  /\ UNCHANGED <<icount, tmp_vaddr, tmp_paddr, pc, loc, trace, since, toggles, ringVars>>

Next ==
  \/ \E c \in Cpus : TranslateMagic(c) \/ ExecBefore(c) \/ GetVaddr(c) \/ GetPaddr(c)
                     \/ ExecEnter(c) \/ ExecStore(c) \/ Toggle(c)
  \/ PostLoad

Spec == Init /\ [][Next]_vars

-----------------------------------------------------------------------------
Steps == {"before", "vaddr", "paddr", "exec", "store", "done"}

TypeOK ==
  /\ status \in {0, 1}
  /\ icount \in Nat
  /\ pc \in [Cpus -> [i: Nat, s: Steps]]
  /\ loc \in [Cpus -> Nat]
  /\ since \in Seq(Nat)
  /\ toggles \in 0..MaxToggles
  /\ loads \in 0..MaxLoads
  /\ idx_udata_buf \in 0..MAX_UDATA_BUF_SIZE - 1

(* Every record qemu_plugin_get_cpuinfo emits carries the addresses of    *)
(* the instruction whose exec callback emitted it (tmp_vaddr and          *)
(* tmp_paddr were set by that instruction's own get_vaddr/get_paddr).      *)
RecordMatchesInsn ==
  \A k \in 1..Len(trace) :
    LET insn == Prog[trace[k].cpu][trace[k].idx]
    IN  trace[k].vaddr = insn.vaddr /\ trace[k].paddr = insn.paddr

(* Since the guest last wrote 0xa0, the emitted icounts are 1, 2, 3, ...: *)
(* the reset and the increment of g_pqii_data.icount number the traced    *)
(* instructions without gaps or repeats.                                   *)
SegmentIcountsConsecutive == \A k \in 1..Len(since) : since[k] = k

(* At most WARMUP_THRESHOLD_2 records are emitted per enabled segment. *)
SegmentWithinBudget == Len(since) <= WARMUP_THRESHOLD_2

(* Every function id vcpu_insn_exec_before logs is the id encoded in the  *)
(* magic nop being executed, also when its translation was cached while   *)
(* later translations went round the udata_buf ring.                       *)
LoggedIdIsOwn ==
  \A k \in 1..Len(fnlog) : fnlog[k].id = Prog[fnlog[k].cpu][fnlog[k].idx].id
=============================================================================
