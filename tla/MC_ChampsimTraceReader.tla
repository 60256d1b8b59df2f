----------------------- MODULE MC_ChampsimTraceReader -----------------------
(***************************************************************************)
(* Traces of 0..MaxRecs whole records, with or without a trailing partial *)
(* record.  Record i has address i, so a returned instruction names its   *)
(* record; every CloudSuite record carries the address-space ids 7, 42.   *)
(* File names are built from a few characters: supported and unsupported  *)
(* suffixes, a name without a dot, and a dot in a directory name.          *)
(***************************************************************************)
EXTENDS ChampsimTraceReader

CONSTANTS MinRecs, MaxRecs

MCFiles ==
  { [recs |-> [i \in 1..n |-> [ip |-> i, asid |-> <<7, 42>>]], partial |-> p] :
      n \in MinRecs..MaxRecs, p \in BOOLEAN }

GZ    == <<"a", ".", "g", "z">>          \* a.gz
XZ    == <<"a", ".", "x", "z">>          \* a.xz
TRACE == <<"a", ".", "t", "r", "a", "c", "e">>   \* a.trace
ZIP   == <<"a", ".", "z", "i", "p">>     \* a.zip
NODOT == <<"a">>                         \* a
DOTEND == <<"a", ".">>                   \* a.
TGZ   == <<"a", ".", "t", "g", "z">>     \* a.tgz
DIRX  == <<"d", ".", "x", "/", "a">>     \* d.x/a

MCNames   == {GZ, XZ, TRACE, ZIP, NODOT, DOTEND}
EdgeNames == {GZ, TGZ, DIRX}
=============================================================================
