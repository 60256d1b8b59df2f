--------------------------- MODULE QemuTraceReader ---------------------------
(***************************************************************************)
(* ChampSim's reader of the QEMU "simple" trace backend format             *)
(* (src/champsim/src/tracereader.cc, class qemu_tracereader, and the       *)
(* QEMU branch of tracereader::open).                                      *)
(*                                                                         *)
(* The trace is a sequence of events, each a header followed by a payload. *)
(* A header carries the event kind (instruction 63, memory 64, marker 65). *)
(* The reader consumes the header of the NEXT instruction event at the end *)
(* of each decode, so between calls the "header consumed, payload pending" *)
(* position is state (pos).  get() keeps a one-record delay buffer (last) *)
(* to decide taken/not-taken from the following instruction's address.    *)
(*                                                                         *)
(* Data abstraction: an event keeps only the fields the reader acts on;   *)
(* cr3 and segment state (asid, is_kernel) are left out, and the register *)
(* and memory operands keep slot 0..3 and slot 0.  Truncation of the file *)
(* is the flag cut on the last event: its header is present, its payload  *)
(* is not (fread returns 0 for a partial record).                          *)
(***************************************************************************)
EXTENDS Integers, Sequences, SequencesExt, TLC

CONSTANT Files   \* the trace files (event sequences after the skipped mapping table)

VARIABLES
  file,         \* the trace being read; fixed after Init
  pos,          \* index of the event whose header has been read, payload not yet
  last,         \* qemu_tracereader::last_instr, the delay buffer
  initialized,  \* qemu_tracereader::initialized
  out,          \* history: the instructions get() has returned, in order
  phase         \* "opening", "ready", "exited" (exit(1)), "aborted" (assert)

vars == <<file, pos, last, initialized, out, phase>>

-----------------------------------------------------------------------------
(* Constants of qemutrace.h and instruction.h.                             *)

EVENT_ID_INSN == 63
EVENT_ID_DATA == 64
EVENT_ID_NOP  == 65
BEGIN_MARKER  == 190   \* 0xbe, first byte of the begin marker payload

REG_STACK_POINTER       == 6
REG_FLAGS               == 25
REG_INSTRUCTION_POINTER == 26
REG_INDIRECT_SOURCE     == 50   \* the literal 50 written for indirect sources

NOT_BRANCH           == 0
BRANCH_DIRECT_JUMP   == 1
BRANCH_INDIRECT      == 2
BRANCH_CONDITIONAL   == 3
BRANCH_DIRECT_CALL   == 4
BRANCH_INDIRECT_CALL == 5
BRANCH_RETURN        == 6
BRANCH_OTHER         == 7

Slots == 0..3          \* NUM_INSTR_SOURCES = NUM_INSTR_DESTINATIONS_SPARC = 4
(* Mutant: register arrays one slot short. *)
NoRegsShort == [s \in 0..2 |-> 0]

NoRegs == [s \in Slots |-> 0]

(* A trace event: its header's kind and the payload fields the reader uses. *)
Event == [kind: Nat, ip: Nat, br: Nat, tgt: Nat, ls: Nat, addr: Nat,
          byte0: Nat, cut: BOOLEAN]

(* ooo_model_instr as far as the reader writes it. *)
Instr == [ip: Nat, is_branch: BOOLEAN, taken: BOOLEAN, type: Nat, target: Nat,
          src: [Slots -> Nat], dst: [Slots -> Nat], srcMem: Nat, dstMem: Nat]

(* A default-constructed ooo_model_instr (the initial last_instr). *)
NoInstr == [ip |-> 0, is_branch |-> FALSE, taken |-> FALSE, type |-> 0,
            target |-> 0, src |-> NoRegs, dst |-> NoRegs, srcMem |-> 0, dstMem |-> 0]

-----------------------------------------------------------------------------
(* Reading the file.  A header of event j can be read iff the file has j   *)
(* events; its payload iff, in addition, the event is not cut.             *)

HeaderOk(f, j)  == j \in 1..Len(f)
PayloadOk(f, j) == HeaderOk(f, j) /\ ~f[j].cut

(* What fread leaves in an uninitialised local when it fails: any value.   *)
HeaderRead(f, j) == IF HeaderOk(f, j) THEN {f[j].kind}
                    ELSE {EVENT_ID_INSN, EVENT_ID_DATA, EVENT_ID_NOP, 0}
MarkerRead(f, j) == IF PayloadOk(f, j) THEN {f[j].byte0} ELSE {BEGIN_MARKER, 0}

(* ooo_model_instr(cpu, QEMU_trace_insn): branch_type is a uint8_t.       *)
MkInstr(e) == [NoInstr EXCEPT !.ip = e.ip, !.is_branch = (e.br > 0),
                              !.type = e.br % 256, !.target = e.tgt]

(* Mutant: the load/store test inverted. *)
MkInstrDataInverted(e, d) == IF d.ls = 0 THEN [MkInstr(e) EXCEPT !.dstMem = d.addr]
                                         ELSE [MkInstr(e) EXCEPT !.srcMem = d.addr]

(* ooo_model_instr(cpu, QEMU_trace_insn, QEMU_trace_data): a store goes to *)
(* destination_memory[0], a load to source_memory[0].                     *)
MkInstrData(e, d) == IF d.ls # 0 THEN [MkInstr(e) EXCEPT !.dstMem = d.addr]
                                 ELSE [MkInstr(e) EXCEPT !.srcMem = d.addr]

Exit  == [res |-> "exit",  instr |-> NoInstr, next |-> 0]
Abort == [res |-> "abort", instr |-> NoInstr, next |-> 0]
Ok(i, n) == [res |-> "ok", instr |-> i, next |-> n]

(* Mutant: the loop without its marker arm. *)
RECURSIVE SkipToInsnNoMarker(_, _)
SkipToInsnNoMarker(f, j) ==
  IF ~HeaderOk(f, j) THEN Exit
  ELSE CASE f[j].kind = EVENT_ID_INSN -> Ok(NoInstr, j)
         [] f[j].kind = EVENT_ID_DATA ->
              IF PayloadOk(f, j) THEN SkipToInsnNoMarker(f, j + 1) ELSE Exit
         [] OTHER -> Abort

(* Mutant: a marker inside the loop taken for the end of the trace. *)
RECURSIVE SkipToInsnMarkerEnds(_, _)
SkipToInsnMarkerEnds(f, j) ==
  IF ~HeaderOk(f, j) THEN Exit
  ELSE CASE f[j].kind = EVENT_ID_INSN -> Ok(NoInstr, j)
         [] f[j].kind = EVENT_ID_DATA ->
              IF PayloadOk(f, j) THEN SkipToInsnMarkerEnds(f, j + 1) ELSE Exit
         [] f[j].kind = EVENT_ID_NOP -> Exit
         [] OTHER -> Abort

(* The "read until next instruction" loop: consume memory and marker      *)
(* events until an instruction header; any other kind trips assert(0).    *)
RECURSIVE SkipToInsn(_, _)
SkipToInsn(f, j) ==
  IF ~HeaderOk(f, j) THEN Exit
  ELSE CASE f[j].kind = EVENT_ID_INSN -> Ok(NoInstr, j)
         [] f[j].kind \in {EVENT_ID_DATA, EVENT_ID_NOP} ->
              IF PayloadOk(f, j) THEN SkipToInsn(f, j + 1) ELSE Exit
         [] OTHER -> Abort

(* read_single_instr_qemutrace: the header of event p is already consumed. *)
(* Returns the decoded instruction and the index of the next instruction  *)
(* event, whose header it has consumed.                                    *)
ReadSingleInstr(f, p) ==
  IF ~PayloadOk(f, p) \/ ~HeaderOk(f, p + 1) THEN Exit
  ELSE CASE f[p + 1].kind = EVENT_ID_DATA ->
              IF ~PayloadOk(f, p + 1) THEN Exit
              ELSE LET r == SkipToInsn(f, p + 2)
                   IN IF r.res = "ok" THEN Ok(MkInstrData(f[p], f[p + 1]), r.next)
                                      ELSE r
         [] f[p + 1].kind = EVENT_ID_NOP ->
              IF ~PayloadOk(f, p + 1) \/ ~HeaderOk(f, p + 2) THEN Exit
              ELSE IF f[p + 2].kind = EVENT_ID_INSN THEN Ok(MkInstr(f[p]), p + 2)
                   ELSE Abort
         [] OTHER ->
              IF f[p + 1].kind = EVENT_ID_INSN THEN Ok(MkInstr(f[p]), p + 1)
              ELSE Abort

-----------------------------------------------------------------------------
(* The branch translation switch of qemu_tracereader::get: per QEMU       *)
(* branch tag, the ChampSim branch type, whether taken is decided by      *)
(* comparing the target with the next instruction's address, and the     *)
(* register slots written.  Tags outside the table take the default arm.  *)

IP == REG_INSTRUCTION_POINTER
SP == REG_STACK_POINTER

BranchRow ==
     (1 :> [kind |-> BRANCH_CONDITIONAL, cmp |-> TRUE,
            dst |-> (0 :> IP), src |-> (0 :> IP) @@ (1 :> REG_FLAGS)])
  @@ (2 :> [kind |-> BRANCH_DIRECT_JUMP, cmp |-> FALSE,
            dst |-> (0 :> IP), src |-> <<>>])
  @@ (3 :> [kind |-> BRANCH_INDIRECT, cmp |-> FALSE,
            dst |-> (0 :> IP), src |-> (0 :> REG_INDIRECT_SOURCE)])
  @@ (4 :> [kind |-> BRANCH_DIRECT_CALL, cmp |-> FALSE,
            dst |-> (0 :> IP) @@ (1 :> SP), src |-> (0 :> IP) @@ (1 :> SP)])
  @@ (5 :> [kind |-> BRANCH_INDIRECT_CALL, cmp |-> FALSE,
            dst |-> (0 :> IP) @@ (1 :> SP),
            src |-> (0 :> IP) @@ (1 :> SP) @@ (2 :> REG_INDIRECT_SOURCE)])
  @@ (6 :> [kind |-> BRANCH_RETURN, cmp |-> FALSE,
            dst |-> (0 :> IP) @@ (1 :> SP), src |-> (0 :> SP)])
  @@ (7 :> [kind |-> BRANCH_OTHER, cmp |-> TRUE,
            dst |-> (0 :> IP), src |-> <<>>])

(* Resolve the pending instruction l once the next one, at nextIp, is known. *)
Resolve(l, nextIp) ==
  IF l.type \in DOMAIN BranchRow
  THEN LET r == BranchRow[l.type]
       IN [l EXCEPT !.is_branch = TRUE,
                    !.taken = IF r.cmp THEN l.target = nextIp ELSE TRUE,
                    !.type = r.kind,
                    !.dst = r.dst @@ l.dst,
                    !.src = r.src @@ l.src]
  ELSE [l EXCEPT !.is_branch = FALSE, !.taken = FALSE,
                 !.type = NOT_BRANCH, !.target = 0]

-----------------------------------------------------------------------------
Init ==
  /\ file \in Files
  /\ pos = 1
  /\ last = NoInstr
  /\ initialized = FALSE
  /\ out = <<>>
  /\ phase = "opening"

(* tracereader::open for the "trace" format: after the file header and    *)
(* the mapping table, the first event must be a begin marker and the next *)
(* header an instruction header, which stays consumed.  Unchecked freads  *)
(* that fail leave the locals uninitialised.                               *)
Open ==
  /\ phase = "opening"
  /\ \E k1 \in HeaderRead(file, 1), b \in MarkerRead(file, 1),
        k2 \in HeaderRead(file, 2) :
       phase' = IF k1 = EVENT_ID_NOP /\ b = BEGIN_MARKER /\ k2 = EVENT_ID_INSN
                THEN "ready" ELSE "aborted"
  /\ pos' = 2
  /\ UNCHANGED <<file, last, initialized, out>>

(* The process ends: exit(1) on a failed read, abort on a failed assert.   *)
Stop(r) ==
  /\ phase' = IF r.res = "exit" THEN "exited" ELSE "aborted"
  /\ UNCHANGED <<file, pos, last, initialized, out>>

(* qemu_tracereader::get.  On the first call the first record becomes the  *)
(* pending one and a second record is read to resolve it.                  *)
Get ==
  /\ phase = "ready"
  /\ LET r1 == ReadSingleInstr(file, pos)
         r2 == ReadSingleInstr(file, r1.next)
     IN IF r1.res # "ok" THEN Stop(r1)
        ELSE IF ~initialized /\ r2.res # "ok" THEN Stop(r2)
        ELSE LET pend == IF initialized THEN last ELSE r1.instr
                 cur  == IF initialized THEN r1 ELSE r2
             IN /\ out' = Append(out, Resolve(pend, cur.instr.ip))
                /\ last' = cur.instr
                /\ pos' = cur.next
                /\ initialized' = TRUE
                /\ UNCHANGED <<file, phase>>

Next == Open \/ Get

Spec == Init /\ [][Next]_vars

-----------------------------------------------------------------------------
(* Reference definitions, written from the format description (spec.md    *)
(* 4.4, 7) over the whole file rather than by stepping the reader.          *)

(* Positions of instruction events after the preamble's marker, in order.  *)
InsnPositions(f) ==
  SelectSeq([j \in 1..Len(f) |-> j], LAMBDA j : j >= 2 /\ f[j].kind = EVENT_ID_INSN)

NumInsns(f) == Len(InsnPositions(f))

(* The preamble is not a whole begin marker followed by an instruction.   *)
PreambleBad(f) ==
  \/ Len(f) < 2
  \/ f[1].kind # EVENT_ID_NOP \/ f[1].cut \/ f[1].byte0 # BEGIN_MARKER
  \/ f[2].kind # EVENT_ID_INSN

(* The file violates the format: bad preamble, an unknown event kind, or a *)
(* marker right after an instruction that is not followed by one.          *)
Malformed(f) ==
  \/ PreambleBad(f)
  \/ \E j \in 1..Len(f) : f[j].kind \notin {EVENT_ID_INSN, EVENT_ID_DATA, EVENT_ID_NOP}
  \/ \E j \in 2..Len(f) - 1 : /\ f[j].kind = EVENT_ID_NOP
                              /\ f[j - 1].kind = EVENT_ID_INSN
                              /\ f[j + 1].kind # EVENT_ID_INSN

(* The canonical branch kind and taken rule of the classification table.   *)
SpecKind(tag) == CASE tag = 1 -> BRANCH_CONDITIONAL [] tag = 2 -> BRANCH_DIRECT_JUMP
                   [] tag = 3 -> BRANCH_INDIRECT    [] tag = 4 -> BRANCH_DIRECT_CALL
                   [] tag = 5 -> BRANCH_INDIRECT_CALL [] tag = 6 -> BRANCH_RETURN
                   [] tag = 7 -> BRANCH_OTHER       [] OTHER -> NOT_BRANCH
SpecTaken(tag, tgt, nextIp) ==
  CASE tag \in {1, 7} -> tgt = nextIp [] tag \in 2..6 -> TRUE [] OTHER -> FALSE

(* The memory event attached to the instruction at position p: the first  *)
(* (First = TRUE) or the last of the run of memory and marker events that *)
(* follows it, provided the run starts with a memory event.                *)
DataRunEnd(f, p) ==
  LET q == SelectInSubSeq(f, p + 1, Len(f), LAMBDA e : e.kind = EVENT_ID_INSN)
  IN IF q = 0 THEN Len(f) ELSE q - 1
AttachedData(f, p, First) ==
  IF p + 1 > Len(f) \/ f[p + 1].kind # EVENT_ID_DATA THEN 0
  ELSE IF First THEN p + 1
  ELSE SelectLastInSubSeq(f, p + 1, DataRunEnd(f, p), LAMBDA e : e.kind = EVENT_ID_DATA)

(* The fields of the k-th canonical instruction that the format fixes.     *)
RefView(f, k, First) ==
  LET p   == InsnPositions(f)[k]
      e   == f[p]
      nip == f[InsnPositions(f)[k + 1]].ip
      d   == AttachedData(f, p, First)
      br  == SpecKind(e.br) # NOT_BRANCH
  IN [ip |-> e.ip, is_branch |-> br, taken |-> SpecTaken(e.br, e.tgt, nip),
      type |-> SpecKind(e.br), target |-> IF br THEN e.tgt ELSE 0,
      srcMem |-> IF d # 0 /\ f[d].ls = 0 THEN f[d].addr ELSE 0,
      dstMem |-> IF d # 0 /\ f[d].ls # 0 THEN f[d].addr ELSE 0]

View(i) == [ip |-> i.ip, is_branch |-> i.is_branch, taken |-> i.taken,
            type |-> i.type, target |-> IF i.is_branch THEN i.target ELSE 0,
            srcMem |-> i.srcMem, dstMem |-> i.dstMem]

StreamMatches(First) ==
  /\ Len(out) < NumInsns(file) \/ out = <<>>
  /\ \A k \in 1..Len(out) : View(out[k]) = RefView(file, k, First)

-----------------------------------------------------------------------------
(* Properties.                                                             *)

TypeOK ==
  /\ file \in Seq(Event)
  /\ pos \in Nat
  /\ last \in Instr
  /\ initialized \in BOOLEAN
  /\ out \in Seq(Instr)
  /\ phase \in {"opening", "ready", "exited", "aborted"}

(* The k-th instruction get() returns is the k-th instruction event of the *)
(* file, with the memory event that directly follows it (the first one of *)
(* the run: the loop of read_single_instr_qemutrace discards the others)  *)
(* and with taken decided against the instruction event that follows it   *)
(* in the file: the header-ahead position and the delay buffer stay in    *)
(* step with the file across calls.                                        *)
OutputMatchesReference == StreamMatches(TRUE)

(* The reader aborts only on a file that violates the format: memory and  *)
(* marker events may follow an instruction in any mix, except a marker    *)
(* directly after an instruction, which must precede an instruction.      *)
AbortOnlyOnMalformed == phase = "aborted" => Malformed(file)

(* On a well-formed file the reader exits at the end of the trace having  *)
(* returned every instruction event except the last two: the last one is  *)
(* never decoded (no header follows it) and the one before it stays in    *)
(* the delay buffer.                                                       *)
EmitsAllButLastTwo ==
  phase = "exited" /\ ~Malformed(file) => Len(out) = Max({NumInsns(file) - 2, 0})

(* The memory operand of an instruction is the last memory event before   *)
(* the next instruction ("last-wins", spec.md 9).                          *)
MemOperandLastWins == StreamMatches(FALSE)
=============================================================================
