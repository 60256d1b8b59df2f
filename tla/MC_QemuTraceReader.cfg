\* Well-formed preambles with bodies of up to 4 more events (conditional
\* branches that hit and miss, an indirect call, a plain op; loads, stores,
\* markers and an unknown event kind), well-formed preambles with bodies
\* of up to 2 events over every branch tag 0..8, and preambles of every
\* kind with bodies of up to 2 events; the last event possibly cut.
CONSTANTS
  InsnShapes <- CoreInsns
  DataShapes <- LoadStore
  HeadMarkers = {190}
  HeadKinds = {63}
  OtherKinds = {66}
  MaxTail = 4
  CutLast = {FALSE, TRUE}
  Files <- CoreAndTagFiles
SPECIFICATION Spec
INVARIANT TypeOK
INVARIANT OutputMatchesReference
INVARIANT AbortOnlyOnMalformed
INVARIANT EmitsAllButLastTwo
\* the reader process ends at exit(1) or abort
CHECK_DEADLOCK FALSE
