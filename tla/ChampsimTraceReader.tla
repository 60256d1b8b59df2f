------------------------- MODULE ChampsimTraceReader -------------------------
(***************************************************************************)
(* ChampSim's readers of its own fixed-record trace formats               *)
(* (src/champsim/src/tracereader.cc: input_tracereader,                   *)
(* cloudsuite_tracereader and tracereader::read_single_instr<T>).          *)
(*                                                                         *)
(* A trace is read through a pipe from gzip or xz.  When fread cannot     *)
(* fill a whole record the pipe is closed and reopened and the read is    *)
(* retried, so the trace replays forever.  get() keeps a one-record       *)
(* delay buffer and sets each returned instruction's branch target to the *)
(* address of the record read after it.                                    *)
(*                                                                         *)
(* The reader is built by ReaderFactory; the fixed-record reader runs     *)
(* when construction chose input_tracereader or cloudsuite_tracereader.    *)
(* A call of get() is the step Call (the consumer asks), then Reopen for  *)
(* every failed read of the loop, then Read, which ends the call.          *)
(* Data abstraction: a record keeps its address and (CloudSuite) its      *)
(* address-space ids; operand arrays are copied verbatim and left out.    *)
(***************************************************************************)
EXTENDS Integers, Sequences, ReaderFactory

CONSTANTS
  Files,         \* traces: [recs: Seq(record), partial: BOOLEAN]
  Cpu,           \* the cpu the reader is built for
  MaxOut         \* number of get() calls the consumer makes

VARIABLES
  file,          \* the decompressed trace; fixed after Init
  pos,           \* whole records consumed since the pipe was (re)opened
  last,          \* last_instr, the delay buffer
  initialized,   \* initialized
  out,           \* history: the instructions get() has returned
  pc             \* "idle" between calls, "reading" inside get()

readerVars == <<file, pos, last, initialized, out, pc>>
vars == <<readerVars, factoryVars>>

UINT8_MAX == 255

Instr == [ip: Nat, target: Nat, asid: Seq(Nat)]
NoInstr == [ip |-> 0, target |-> 0, asid |-> <<UINT8_MAX, UINT8_MAX>>]

N == Len(file.recs)

(* ooo_model_instr(cpu, input_instr): both asids are the cpu.             *)
(* ooo_model_instr(cpu, cloudsuite_instr): the asid copy is the empty     *)
(* range [begin, begin), so the default asids stay.                        *)
MkInstr(r) ==
  IF reader = "input"
  THEN [NoInstr EXCEPT !.ip = r.ip, !.asid = <<Cpu, Cpu>>]
  ELSE [NoInstr EXCEPT !.ip = r.ip]

-----------------------------------------------------------------------------
Init ==
  /\ FactoryInit
  /\ file \in Files
  /\ pos = 0
  /\ last = NoInstr
  /\ initialized = FALSE
  /\ out = <<>>
  /\ pc = "idle"

(* The consumer calls get(). *)
Call ==
  /\ reader \in {"input", "cloudsuite"}
  /\ pc = "idle"
  /\ Len(out) < MaxOut
  /\ pc' = "reading"
  /\ UNCHANGED <<file, pos, last, initialized, out, factoryVars>>

(* fread returns 0 (end of pipe, or only part of a record left): close()  *)
(* and open() start the decompressor again from the beginning.             *)
Reopen ==
  /\ pc = "reading"
  /\ pos >= N
  /\ pos' = 0
  /\ UNCHANGED <<file, last, initialized, out, pc, factoryVars>>

(* Mutant: the delay buffer is not refilled. *)
ReadNoRefill ==
  /\ pc = "reading"
  /\ pos < N
  /\ LET cur  == MkInstr(file.recs[pos + 1])
         pend == IF initialized THEN last ELSE cur
     IN /\ out' = Append(out, [pend EXCEPT !.target = cur.ip])
        /\ last' = pend
  /\ pos' = pos + 1
  /\ initialized' = TRUE
  /\ pc' = "idle"
  /\ UNCHANGED <<file, factoryVars>>

(* Mutant: the first call reads two records without checking the second. *)
ReadLookaheadUnchecked ==
  /\ pc = "reading"
  /\ pos < N
  /\ LET cur  == MkInstr(file.recs[pos + 1])
         nxt  == IF pos + 2 <= N THEN MkInstr(file.recs[pos + 2]) ELSE NoInstr
         pend == IF initialized THEN last ELSE cur
         new  == IF initialized THEN cur ELSE nxt
     IN /\ out' = Append(out, [pend EXCEPT !.target = new.ip])
        /\ last' = new
        /\ pos' = IF initialized THEN pos + 1 ELSE pos + 2
  /\ initialized' = TRUE
  /\ pc' = "idle"
  /\ UNCHANGED <<file, factoryVars>>

(* A whole record is read; get() returns the pending instruction with its *)
(* target set to the new record's address and keeps the new one pending.  *)
(* On the first call the new record is also the pending one.               *)
Read ==
  /\ pc = "reading"
  /\ pos < N
  /\ LET cur  == MkInstr(file.recs[pos + 1])
         pend == IF initialized THEN last ELSE cur
     IN /\ out' = Append(out, [pend EXCEPT !.target = cur.ip])
        /\ last' = cur
  /\ pos' = pos + 1
  /\ initialized' = TRUE
  /\ pc' = "idle"
  /\ UNCHANGED <<file, factoryVars>>

ReadStep == Reopen \/ Read

(* The reader is constructed before the simulation calls get(). *)
Build == Construct /\ UNCHANGED readerVars

Next == Build \/ Call \/ ReadStep

(* The reading loop runs on the simulator's own thread: once get() is      *)
(* called, its steps are taken.  The consumer's calls are not assumed.     *)
Spec == Init /\ [][Next]_vars /\ WF_vars(ReadStep)

-----------------------------------------------------------------------------
(* Record k of the endless replay of the trace. *)
Replay(k) == file.recs[((k - 1) % N) + 1]

TypeOK ==
  /\ pos \in 0..N
  /\ last \in Instr
  /\ initialized \in BOOLEAN
  /\ out \in Seq(Instr)
  /\ pc \in {"idle", "reading"}

(* The stream get() delivers: record 1, then the trace replayed from     *)
(* record 1 (the first call uses the record it reads as both the pending  *)
(* instruction and the lookahead).                                         *)
DeliveredStream ==
  IF N = 0 THEN <<>>
  ELSE [k \in 1..MaxOut + 1 |-> IF k = 1 THEN Replay(1).ip ELSE Replay(k - 1).ip]

Abstract == INSTANCE LookaheadStream
              WITH stream <- DeliveredStream,
                   out    <- [k \in DOMAIN out |-> [ip |-> out[k].ip, target |-> out[k].target]],
                   busy   <- (pc = "reading")

(* The reader, with its reopen loop, delay buffer and restarts, implements *)
(* the atomic lookahead stream: every call returns the next element with   *)
(* the next element's address as its target, across restarts too, and a    *)
(* call on a trace with a whole record always returns.                     *)
ImplementsLookaheadStream == Abstract!Spec

=============================================================================
