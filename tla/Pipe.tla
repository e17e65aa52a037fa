-------------------------------- MODULE Pipe --------------------------------
(***************************************************************************)
(* What a byte stream queue promises: the bytes that come out are the      *)
(* bytes that went in, in order, and no more than Capacity are inside.     *)
(***************************************************************************)
EXTENDS Naturals, Sequences

CONSTANTS Byte,     \* the bytes
          Capacity  \* how many it can hold

VARIABLES in,   \* all bytes that have gone in
          out   \* all bytes that have come out

Init == in = <<>> /\ out = <<>>

Put ==
  /\ in' \in Seq(Byte) /\ Len(in') > Len(in)
  /\ SubSeq(in', 1, Len(in)) = in
  /\ Len(in') <= Len(out) + Capacity
  /\ UNCHANGED out

Take ==
  /\ Len(out') > Len(out) /\ Len(out') <= Len(in)
  /\ out' = SubSeq(in, 1, Len(out'))
  /\ UNCHANGED in

Next == Put \/ Take

Spec == Init /\ [][Next]_<<in, out>>

=============================================================================
