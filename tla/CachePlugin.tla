----------------------------- MODULE CachePlugin -----------------------------
(***************************************************************************)
(* The cache_test.c variant of the trace plugin                            *)
(* (src/qemu/tests/plugin/cache_test.c), over the same guest programs,    *)
(* globals and device side as BranchPlugin.                                *)
(*                                                                         *)
(* It differs from branch_test.c in two places.  Three nops are magic:    *)
(* 0f 1f 84 be (begin), 0f 1f 84 ed (end) and 0f 1f 84 ac (function id).  *)
(* vcpu_tb_trans copies the fourth byte into the udata_buf ring, and       *)
(* vcpu_insn_exec_before switches g_pqii_data.status on for a begin byte   *)
(* and off for an end byte.  vcpu_insn_exec_<kind> also turns status off   *)
(* itself when the incremented icount passes WARMUP_THRESHOLD_2.           *)
(*                                                                         *)
(* An instruction's mark field is its fourth byte, 0 for other code.       *)
(* qemu_plugin_nop, which gets the slot, is outside this repository and    *)
(* is left out.  fnlog keeps the byte each callback read.                  *)
(***************************************************************************)
EXTENDS BranchPlugin

BEGIN_MARK == 190  \* 0xbe
END_MARK   == 237  \* 0xed
FUNC_MARK  == 172  \* 0xac

(* vcpu_tb_trans, for a magic nop not in the translation cache: the      *)
(* marker byte goes into slot idx_udata_buf, and the index moves on; it   *)
(* goes back to 0 once idx_udata_buf + 1 reaches size.                    *)
RingInsert(c, size) ==
  /\ pc[c].s = "before"
  /\ slot[Insn(c).paddr] = NONE
  /\ udata_buf' = [udata_buf EXCEPT ![idx_udata_buf] = Insn(c).mark]
  /\ slot' = [slot EXCEPT ![Insn(c).paddr] = idx_udata_buf]
  /\ idx_udata_buf' = IF idx_udata_buf + 1 >= size THEN 0 ELSE idx_udata_buf + 1
  /\ UNCHANGED <<status, icount, tmp_vaddr, tmp_paddr, pc, loc, trace, since, toggles, loads, fnlog>>

(* Mutant: the ring wraps one slot late. *)
CacheTranslateMagicLateWrap(c) == RingInsert(c, MAX_UDATA_BUF_SIZE + 1)

CacheTranslateMagic(c) == RingInsert(c, MAX_UDATA_BUF_SIZE)

(* vcpu_insn_exec_before: nop_data[0] == 0xbe sets status to 1, 0xed to  *)
(* 0; any other byte leaves it.                                            *)
CacheExecBefore(c) ==
  /\ pc[c].s = "before"
  /\ slot[Insn(c).paddr] # NONE
  /\ LET b == udata_buf[slot[Insn(c).paddr]]
     IN  /\ status' = CASE b = BEGIN_MARK -> 1 [] b = END_MARK -> 0 [] OTHER -> status
         /\ fnlog' = Append(fnlog, [cpu |-> c, idx |-> pc[c].i, id |-> b])
  /\ Advance(c)
  /\ UNCHANGED <<icount, tmp_vaddr, tmp_paddr, loc, trace, since, toggles, loads,
                 udata_buf, idx_udata_buf, slot>>

(* vcpu_insn_exec_<kind>, second half: store icount + 1; up to limit      *)
(* emit, past WARMUP_THRESHOLD_1, the record with icount + 1 - lag;       *)
(* beyond limit store false into status.                                   *)
StoreWithin(c, limit, lag) ==
  /\ pc[c].s = "store"
  /\ LET n == loc[c] + 1
         rec == [vaddr |-> tmp_vaddr, paddr |-> tmp_paddr,
                 kind |-> ExecKind(Insn(c)), target |-> ExecTarget(Insn(c)),
                 icount |-> n - lag, cpu |-> c, idx |-> pc[c].i]
     IN /\ icount' = n
        /\ IF n <= limit
           THEN /\ IF n > WARMUP_THRESHOLD_1
                   THEN trace' = Append(trace, rec) /\ since' = Append(since, n - lag)
                   ELSE UNCHANGED <<trace, since>>
                /\ UNCHANGED status
           ELSE /\ status' = 0
                /\ UNCHANGED <<trace, since>>
  /\ Advance(c)
  /\ UNCHANGED <<tmp_vaddr, tmp_paddr, loc, toggles, loads, ringVars>>

(* Mutants: the record carries icount before the increment; the budget   *)
(* test admits one instruction too many.                                   *)
CacheExecStoreOldCount(c)   == StoreWithin(c, WARMUP_THRESHOLD_2, 1)
CacheExecStorePastBudget(c) == StoreWithin(c, WARMUP_THRESHOLD_2 + 1, 0)

CacheExecStore(c) == StoreWithin(c, WARMUP_THRESHOLD_2, 0)

CacheNext ==
  \/ \E c \in Cpus : CacheTranslateMagic(c) \/ CacheExecBefore(c) \/ GetVaddr(c)
                     \/ GetPaddr(c) \/ ExecEnter(c) \/ CacheExecStore(c) \/ Toggle(c)
  \/ PostLoad

CacheSpec == Init /\ [][CacheNext]_vars

-----------------------------------------------------------------------------
CacheTypeOK ==
  /\ TypeOK
  /\ udata_buf \in [0..MAX_UDATA_BUF_SIZE - 1 -> {0, BEGIN_MARK, END_MARK, FUNC_MARK}]
=============================================================================
