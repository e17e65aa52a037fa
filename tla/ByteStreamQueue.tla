-------------------------- MODULE ByteStreamQueue --------------------------
(***************************************************************************)
(* The byte stream queue of src/src/util/bytestream_queue.cc: a ring, read *)
(* into from one descriptor and written to another.                        *)
(***************************************************************************)
EXTENDS StreamRing

VARIABLES ring,  \* the queue
          in,    \* history: the bytes that have been pushed
          out    \* history: the bytes that have been popped

TypeOK == ring \in Ring /\ in \in Seq(Byte) /\ out \in Seq(Byte)

Init == ring = NewRing /\ in = <<>> /\ out = <<>>
-----------------------------------------------------------------------------
\* push, of a read that was not empty.
push(chunk) ==
  /\ space_available(ring)
  /\ Len(chunk) \in 1..contiguous_space_to_push(ring)
  /\ ring' = [buffer |-> [i \in 0..(Size - 1) |->
                            IF i \in ring.push..(ring.push + Len(chunk) - 1)
                            THEN chunk[i - ring.push + 1] ELSE ring.buffer[i]],
              push |-> Wrapped(ring.push + Len(chunk)), pop |-> ring.pop]
  /\ in' = in \o chunk
  /\ UNCHANGED out

\* pop, of a write that took n bytes.
pop(n) ==
  /\ non_empty(ring)
  /\ n \in 1..contiguous_space_to_pop(ring)
  /\ out' = out \o [i \in 1..n |-> ring.buffer[ring.pop + i - 1]]
  /\ ring' = [ring EXCEPT !.pop = Wrapped(ring.pop + n)]
  /\ UNCHANGED in

Next == (\E chunk \in Seq(Byte) : push(chunk)) \/ (\E n \in 1..Size : pop(n))

Spec == Init /\ [][Next]_<<ring, in, out>>
-----------------------------------------------------------------------------
P == INSTANCE Pipe WITH Capacity <- Size - 1

\* The ring is a pipe of one byte less than its buffer
\* (bytestream_queue.cc:20-30): what is popped is what was pushed, in order,
\* across every wrap of either index.
IsPipe == P!Spec

\* Where the k-th byte still to be popped is.
Slot(k) ==
  IF ring.pop + k - 1 < Size THEN ring.pop + k - 1
  ELSE ring.pop + k - 1 - Size

\* The bytes between the two indices are those that went in and have not come
\* out.
Holds ==
  /\ Len(in) - Len(out) = available_to_pop(ring)
  /\ \A k \in 1..Len(out) : out[k] = in[k]
  /\ \A k \in 1..available_to_pop(ring) :
       ring.buffer[Slot(k)] = in[Len(out) + k]

=============================================================================
