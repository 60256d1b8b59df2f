--------------------------- MODULE MC_BranchPlugin ---------------------------
(***************************************************************************)
(* Small guest programs.  vaddr and paddr differ for every instruction,   *)
(* so a record that mixes two instructions' addresses is visible.  An     *)
(* instruction that appears twice in a program is the same code executed  *)
(* again (a loop).                                                         *)
(***************************************************************************)
EXTENDS BranchPlugin

CONSTANTS c1, c2

I(v, br) == [vaddr |-> v, paddr |-> v + 100, br |-> br, tgt |-> v + 1, magic |-> FALSE, id |-> 0]

(* A magic nop at vaddr v carrying function id fid. *)
Magic(v, fid) == [vaddr |-> v, paddr |-> v + 100, br |-> 0, tgt |-> 0, magic |-> TRUE, id |-> fid]

(* One vCPU: a conditional branch, a function-id nop, a plain instruction, *)
(* an unknown kind (8, treated as normal) and a return.                    *)
OneCpu == [c \in {c1} |-> <<I(1, 1), Magic(9, 1), I(2, 0), I(3, 8), I(4, 6)>>]

(* Two vCPUs, two instructions each. *)
TwoCpus == [c \in {c1, c2} |-> IF c = c1 THEN <<I(1, 0), I(2, 2)>> ELSE <<I(5, 0), I(6, 4)>>]

(* A loop over three instrumented functions, entered twice: the first    *)
(* function's marker is executed again after the two others were         *)
(* translated.                                                            *)
ThreeFunctions == [c \in {c1} |-> <<Magic(1, 1), I(2, 0), Magic(3, 2), Magic(4, 3), I(5, 1), Magic(1, 1)>>]
=============================================================================
