----------------------------- MODULE StreamRing -----------------------------
(***************************************************************************)
(* The indices of the ring buffer of src/src/util/bytestream_queue.cc.  It *)
(* is read into up to its end or up to one byte before the next to be      *)
(* popped, and written from up to its end or up to the next to be pushed.  *)
(***************************************************************************)
EXTENDS Integers, Sequences

CONSTANTS Byte,  \* the bytes
          Zero,  \* what the buffer is filled with
          Size   \* the size of the buffer

ASSUME SizeAssumption == Size \in Nat /\ Size > 1
ASSUME ByteAssumption == Zero \in Byte

\* buffer_, next_byte_to_push and next_byte_to_pop.
Ring == [buffer : [0..(Size - 1) -> Byte],
         push : 0..(Size - 1), pop : 0..(Size - 1)]

NewRing == [buffer |-> [i \in 0..(Size - 1) |-> Zero], push |-> 0, pop |-> 0]

\* size_t wraps below zero; the sums do not.
available_to_pop(r) == r.push - r.pop + (IF r.pop > r.push THEN Size ELSE 0)

\* A slip: no byte is kept free, and a full ring looks empty.
AvailableToPushAll(r) == r.pop - r.push + (IF r.pop > r.push THEN 0 ELSE Size)

available_to_push(r) ==
  r.pop - r.push - 1 + (IF r.pop > r.push THEN 0 ELSE Size)

space_available(r) == available_to_push(r) > 0
non_empty(r) == available_to_pop(r) > 0

contiguous_space_to_push(r) ==
  IF r.push + available_to_push(r) >= Size THEN Size - r.push
  ELSE available_to_push(r)

contiguous_space_to_pop(r) ==
  IF r.pop + available_to_pop(r) >= Size THEN Size - r.pop
  ELSE available_to_pop(r)

Wrapped(i) == IF i = Size THEN 0 ELSE i

=============================================================================
