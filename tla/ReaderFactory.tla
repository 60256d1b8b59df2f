---------------------------- MODULE ReaderFactory ----------------------------
(***************************************************************************)
(* Construction of a ChampSim trace reader (src/champsim/src/tracereader.cc:*)
(* get_tracereader, tracereader::tracereader and the first open()).        *)
(*                                                                         *)
(* get_tracereader picks the reader class from the character after the    *)
(* last '.' of the file name; the constructor checks that the trace exists *)
(* (wget --spider for http names, an ifstream otherwise) and picks the     *)
(* decompressor from the same character; open() starts the decompressor,  *)
(* or fopen()s a QEMU trace.  A file name is a sequence of characters      *)
(* from a small alphabet.  Whether the file exists, and is still there at  *)
(* open(), is an outcome of I/O and chosen nondeterministically.           *)
(***************************************************************************)
EXTENDS Integers, Sequences

CONSTANTS
  Names          \* the trace file names the simulator may be given

VARIABLES
  name,            \* the trace file name
  cloudsuite,      \* the is_cloudsuite argument (knob)
  decomp_program,  \* decomp_program; "" until the constructor sets it
  reader           \* "none" before construction, then the class built,
                   \* or "fatal" when construction ends the process

factoryVars == <<name, cloudsuite, decomp_program, reader>>

(* find_last_of("."): the position of the last dot, 0 for npos. *)
LastDotPos(s) ==
  LET dots == {i \in 1..Len(s) : s[i] = "."}
  IN  IF dots = {} THEN 0 ELSE CHOOSE i \in dots : \A j \in dots : j <= i

(* last_dot[1]: the character after the dot, '\0' when the dot ends the   *)
(* name (operator[] at size() yields the terminator).                      *)
SuffixChar(s) == IF LastDotPos(s) < Len(s) THEN s[LastDotPos(s) + 1] ELSE "NUL"

(* The decompressor chosen from last_dot[1]; "" is the assert(0) branch. *)
Decomp(c) == CASE c = "g" -> "gzip"
               [] c = "x" -> "xz"
               [] c = "t" -> "trace"
               [] OTHER  -> ""

(* Mutant: get_tracereader tests is_cloudsuite before the suffix. *)
ReaderClassCloudsuiteFirst(s, cs) ==
  IF cs THEN "cloudsuite" ELSE IF SuffixChar(s) = "t" THEN "qemu" ELSE "input"

(* get_tracereader: the class to construct. *)
ReaderClass(s, cs) ==
  IF SuffixChar(s) = "t" THEN "qemu" ELSE IF cs THEN "cloudsuite" ELSE "input"

FactoryInit ==
  /\ name \in Names
  /\ cloudsuite \in BOOLEAN
  /\ decomp_program = ""
  /\ reader = "none"

(* get_tracereader followed by the constructor and its open().  The      *)
(* process ends (uncaught out_of_range, or a failed assert) when the name *)
(* has no dot, the file is not found, the suffix is not recognised, or    *)
(* the trace cannot be opened; a decompressor that fails later is seen    *)
(* only by read_single_instr.                                              *)
Construct ==
  /\ reader = "none"
  /\ \E found \in BOOLEAN, opened \in BOOLEAN :
       LET d == Decomp(SuffixChar(name))
           \* popen succeeds whatever the decompressor later does
           openOk == IF d = "trace" THEN opened ELSE TRUE
       IN  /\ decomp_program' = IF LastDotPos(name) = 0 THEN "" ELSE d
           /\ reader' = IF LastDotPos(name) = 0 \/ ~found \/ d = "" \/ ~openOk
                        THEN "fatal"
                        ELSE ReaderClass(name, cloudsuite)
  /\ UNCHANGED <<name, cloudsuite>>

-----------------------------------------------------------------------------
(* The extension: the characters after the last dot. *)
Ext(s) == SubSeq(s, LastDotPos(s) + 1, Len(s))

(* get_tracereader and the constructor decide the format independently,  *)
(* from the same character: a QEMU reader always reads its file with      *)
(* fopen, and a fixed-record reader always through gzip or xz.             *)
DecompressorMatchesReader ==
  /\ reader = "qemu" => decomp_program = "trace"
  /\ reader \in {"input", "cloudsuite"} => decomp_program \in {"gzip", "xz"}

(* spec.md 7 and 8: a trace whose suffix is not one of the supported      *)
(* ones (gz, xz, trace) fails construction, and the QEMU reader is built  *)
(* exactly for the .trace suffix.                                          *)
SuffixSelectsReader ==
  reader \in {"qemu", "input", "cloudsuite"} =>
    /\ Ext(name) \in {<<"g", "z">>, <<"x", "z">>, <<"t", "r", "a", "c", "e">>}
    /\ (reader = "qemu") = (Ext(name) = <<"t", "r", "a", "c", "e">>)
=============================================================================
