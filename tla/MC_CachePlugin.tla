---------------------------- MODULE MC_CachePlugin ----------------------------
(***************************************************************************)
(* A guest program for the cache_test.c plugin.  vaddr and paddr differ   *)
(* for every instruction; a marker that appears twice is the same code    *)
(* executed again, so its translation is cached.                          *)
(***************************************************************************)
EXTENDS CachePlugin

CONSTANTS c1

I(v, br) == [vaddr |-> v, paddr |-> v + 100, br |-> br, tgt |-> v + 1, magic |-> FALSE, mark |-> 0, id |-> 0]

(* A magic nop 0f 1f 84 <mark> at vaddr v. *)
Marker(v, mark) == [vaddr |-> v, paddr |-> v + 100, br |-> 0, tgt |-> 0, magic |-> TRUE, mark |-> mark, id |-> 0]

(* Begin, three instructions (the third past a window of 2) around a      *)
(* function-id nop, end, an untraced instruction, the same begin marker   *)
(* again and one more instruction.                                         *)
MarkedRegion ==
  [c \in {c1} |-> <<Marker(1, BEGIN_MARK), I(2, 1), I(3, 0), Marker(4, FUNC_MARK), I(5, 6),
                    Marker(6, END_MARK), I(7, 0), Marker(1, BEGIN_MARK), I(8, 0)>>]
=============================================================================
