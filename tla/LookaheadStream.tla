--------------------------- MODULE LookaheadStream ---------------------------
(***************************************************************************)
(* What a ChampSim reader's get() promises its consumer, with the reading  *)
(* loop, the restarts and the delay buffer hidden: each call returns, in   *)
(* one step, the next element of an endless instruction stream, with its   *)
(* branch target set to the address of the element after it; a call       *)
(* returns whenever the stream has elements.                               *)
(*                                                                         *)
(* stream is a finite prefix of the stream, long enough for the calls      *)
(* made; it does not change.                                               *)
(***************************************************************************)
EXTENDS Naturals, Sequences

VARIABLES
  stream,   \* the addresses of the stream's elements, in order
  out,      \* the [ip, target] pairs returned so far
  busy      \* a call is in progress

vars == <<stream, out, busy>>

Init ==
  /\ stream \in Seq(Nat)
  /\ out = <<>>
  /\ busy = FALSE

Call ==
  /\ ~busy
  /\ busy' = TRUE
  /\ UNCHANGED <<stream, out>>

Return ==
  /\ busy
  /\ Len(out) + 1 < Len(stream)
  /\ LET k == Len(out) + 1
     IN  out' = Append(out, [ip |-> stream[k], target |-> stream[k + 1]])
  /\ busy' = FALSE
  /\ UNCHANGED stream

Next == Call \/ Return

Spec == Init /\ [][Next]_vars /\ WF_vars(Return)
=============================================================================
