---------------------------- MODULE BoundedFifo ----------------------------
(***************************************************************************)
(* What the audio bridge promises its producers and its consumer: a queue  *)
(* of samples of bounded capacity.  A producer appends as much of what it  *)
(* offers as there is room for, a consumer takes the oldest samples, and   *)
(* opening or closing the queue empties it.                                *)
(***************************************************************************)
EXTENDS Integers, Sequences

CONSTANTS Capacity, Sample, Inputs

VARIABLES contents, on

vars == <<contents, on>>

Least(a, b) == IF a <= b THEN a ELSE b

Init == contents = <<>> /\ on = FALSE

Open  == contents' = <<>> /\ on' = TRUE
Close == contents' = <<>> /\ on' = FALSE

Put ==
  /\ on
  /\ \E data \in Inputs :
       contents' = contents \o SubSeq(data, 1, Least(Len(data), Capacity - Len(contents)))
  /\ UNCHANGED on

Take ==
  /\ \E n \in 1 .. Len(contents) : contents' = SubSeq(contents, n + 1, Len(contents))
  /\ UNCHANGED on

Next == Open \/ Close \/ Put \/ Take

Spec == Init /\ [][Next]_vars
=============================================================================
