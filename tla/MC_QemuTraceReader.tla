------------------------- MODULE MC_QemuTraceReader -------------------------
(***************************************************************************)
(* Instantiates QemuTraceReader with every trace built from a small       *)
(* alphabet of events.  An instruction event's address is its position in *)
(* the file, so that each returned instruction names its event; its       *)
(* recorded target either hits the next instruction's address or misses.  *)
(***************************************************************************)
EXTENDS QemuTraceReader

CONSTANTS
  InsnShapes,   \* set of [br, hit]: branch tags and whether the target hits
  DataShapes,   \* set of [ls, addr] memory event payloads
  HeadMarkers,  \* first-byte values of the first (preamble) marker
  HeadKinds,    \* event kinds allowed in position 2
  OtherKinds,   \* event kinds outside the format that may appear in the body
  MaxTail,      \* events after the second one
  CutLast       \* whether the last event may lose its payload

MissTarget == 1000

(* Instruction shapes: a plain op, conditional branches that hit and miss *)
(* their target, an indirect call, and (AllInsns) every tag and one       *)
(* outside the table, hitting, and missing for the two tags (1 and 7)     *)
(* whose taken bit compares the target.                                    *)
CoreInsns == {[br |-> 0, hit |-> FALSE], [br |-> 1, hit |-> TRUE],
              [br |-> 1, hit |-> FALSE], [br |-> 5, hit |-> FALSE]}
AllInsns  == {[br |-> t, hit |-> TRUE] : t \in 0..8} \cup {[br |-> t, hit |-> FALSE] : t \in {1, 7}}

(* A load of address 1 and a store of address 2. *)
LoadStore == {[ls |-> 0, addr |-> 1], [ls |-> 1, addr |-> 2]}

Blank == [kind |-> 0, ip |-> 0, br |-> 0, tgt |-> 0, ls |-> 0, addr |-> 0,
          byte0 |-> 0, cut |-> FALSE]

InsnShape(shapes) ==
  {[Blank EXCEPT !.kind = EVENT_ID_INSN, !.br = s.br, !.tgt = IF s.hit THEN 1 ELSE 0] : s \in shapes}
DataShape  == {[Blank EXCEPT !.kind = EVENT_ID_DATA, !.ls = d.ls, !.addr = d.addr] : d \in DataShapes}
MarkerShape(b) == [Blank EXCEPT !.kind = EVENT_ID_NOP, !.byte0 = b]
OtherShape == {[Blank EXCEPT !.kind = k] : k \in OtherKinds}

BodyShapes(shapes) == InsnShape(shapes) \cup DataShape \cup {MarkerShape(172)} \cup OtherShape
SecondShapes(shapes, kinds) == {e \in BodyShapes(shapes) : e.kind \in kinds}

(* Give instruction j the address j and turn "hit" into the address of the *)
(* next instruction event.                                                 *)
Place(f) ==
  [j \in 1..Len(f) |->
     IF f[j].kind # EVENT_ID_INSN THEN f[j]
     ELSE LET n == SelectInSubSeq(f, j + 1, Len(f), LAMBDA e : e.kind = EVENT_ID_INSN)
          IN [f[j] EXCEPT !.ip = j,
                          !.tgt = IF f[j].tgt = 1 /\ n # 0 THEN n ELSE MissTarget]]

CutEnd(f, c) == IF c /\ f # <<>> THEN [f EXCEPT ![Len(f)].cut = TRUE] ELSE f

(* The files of one family: a first marker from markers, a second event  *)
(* of a kind in kinds, up to maxTail more events.                          *)
Family(shapes, markers, kinds, maxTail) ==
  { CutEnd(Place(<<MarkerShape(b), s>> \o t), c) :
      b \in markers, s \in SecondShapes(shapes, kinds),
      t \in SeqOf(BodyShapes(shapes), maxTail), c \in CutLast }

MCFiles == Family(InsnShapes, HeadMarkers, HeadKinds, MaxTail)

(* Long bodies over the core shapes; short ones over every tag; short     *)
(* ones with every kind of event in the preamble's place.                  *)
CoreAndTagFiles ==
  Family(CoreInsns, {BEGIN_MARKER}, {EVENT_ID_INSN}, MaxTail)
    \cup Family(AllInsns, {BEGIN_MARKER}, {EVENT_ID_INSN}, 2)
    \cup Family(CoreInsns, {BEGIN_MARKER, 172}, {EVENT_ID_INSN, EVENT_ID_DATA, EVENT_ID_NOP, 66}, 2)
=============================================================================
