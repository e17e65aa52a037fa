---------------------------- MODULE PacketQueue ----------------------------
(***************************************************************************)
(* The packet queues a link can be given (src/src/packet): infinite, drop  *)
(* tail, drop head and CoDel.  A packet keeps what the queues look at: its *)
(* size, its time of arrival, and a number that tells it from the others.  *)
(***************************************************************************)
EXTENDS Integers, Sequences, SequencesExt

CONSTANTS PacketSize,  \* PACKET_SIZE, 1504 in link_queue.hh and codel_...hh
          Target,      \* CoDel's target_ and interval_
          Interval

ASSUME PacketSizeAssumption == PacketSize \in Nat \ {0}
ASSUME CodelAssumption == Target \in Nat \ {0} /\ Interval \in Nat \ {0}

VARIABLES discipline,  \* the queue chosen at start, with its limits (0: none)
          queue,       \* internal_queue_
          codel        \* CoDel's state

Kinds == {"infinite", "droptail", "drophead", "codel"}
Discipline == [kind : Kinds, packets : Nat, bytes : Nat]

Packet == [id : Nat \ {0}, size : 1..PacketSize, arrival : Nat]

CodelInit == [first_above_time |-> 0, drop_next |-> 0, count |-> 0,
              lastcount |-> 0, dropping |-> FALSE]

AddBytes(sum, p) == sum + p.size
size_bytes(q) == FoldLeft(AddBytes, 0, q)

\* good(): within the limits that were given.
good(q) ==
  /\ discipline.bytes # 0 => size_bytes(q) <= discipline.bytes
  /\ discipline.packets # 0 => Len(q) <= discipline.packets

\* The dequeue of a DroppingPacketQueue, which the drop head queue uses to
\* make room, asserts good() when it has taken one packet out; so does the
\* end of every enqueue.
assert_good(q) == discipline.kind # "infinite" => good(q)

\* A slip: a drop head queue that refuses the new packet.
AfterEnqueueAtTail(p) ==
  LET longer == Append(queue, p)
  IN  IF discipline.kind = "infinite" \/ good(longer) THEN longer ELSE queue

\* What enqueue leaves in the queue.  A drop head queue takes packets from
\* its head until the rest is good; the assertion lets it take one.
AfterEnqueue(p) ==
  LET longer == Append(queue, p)
  IN  IF discipline.kind = "infinite" \/ good(longer) THEN longer
      ELSE IF discipline.kind = "drophead" THEN Tail(longer)
      ELSE queue
-----------------------------------------------------------------------------
(* CoDel decides at dequeueing.                                            *)

\* A slip: not looking at the bytes left in the queue.
dodequeueAnySize(c, p, rest, t) ==
  LET low == rest = << >> \/ (p.arrival <= t /\ t - p.arrival < Target)
      above == c.first_above_time
  IN  [c  |-> [c EXCEPT !.first_above_time =
                 IF low THEN 0 ELSE IF above = 0 THEN t + Interval ELSE above],
       ok |-> ~low /\ above # 0 /\ t >= above]

\* What dodequeue does once p is out and rest is left, at time t: the new
\* state and ok_to_drop.  Sojourn times are unsigned: a clock set back makes
\* them large.
dodequeue(c, p, rest, t) ==
  LET low == \/ rest = << >>
             \/ p.arrival <= t /\ t - p.arrival < Target
             \/ size_bytes(rest) <= PacketSize
      above == c.first_above_time
  IN  [c  |-> [c EXCEPT !.first_above_time =
                 IF low THEN 0 ELSE IF above = 0 THEN t + Interval ELSE above],
       ok |-> ~low /\ above # 0 /\ t >= above]

\* t + interval / sqrt(count), rounded down.
control_law(t, count) ==
  t + (CHOOSE d \in 0..Interval :
         /\ d * d * count <= Interval * Interval
         /\ (d + 1) * (d + 1) * count > Interval * Interval)

\* An iteration of the loop that drops while dropping_.
DropNext(c, p, rest, t) ==
  LET r == dodequeue(c, p, rest, t)
      n == c.count + 1
  IN  [r.c EXCEPT !.count = n, !.dropping = r.ok,
         !.drop_next = IF r.ok THEN control_law(@, n) ELSE @]

\* Entering the dropping state, one packet after the one judged.
StartDropping(c, t) ==
  LET delta == c.count - c.lastcount
      recent == c.drop_next <= t /\ t - c.drop_next < 16 * Interval
      n == IF delta > 1 /\ recent THEN delta ELSE 1
  IN  [c EXCEPT !.dropping = TRUE, !.count = n, !.lastcount = n,
                !.drop_next = control_law(t, n)]

\* CODELPacketQueue::dequeue at time t takes k packets out of the queue.  It
\* returns the first of them; the inner r of its two other calls of dodequeue
\* is a variable of its own, so the packets these return are lost.
CodelTakes(k, t) ==
  LET Rest(i) == SubSeq(queue, i + 1, Len(queue))
      first == dodequeue(codel, queue[1], Rest(1), t)
      loop[n \in 1..Len(queue)] ==
        IF n = 1 THEN [first.c EXCEPT !.dropping = first.ok]
        ELSE DropNext(loop[n - 1], queue[n], Rest(n), t)
      Continues(n) == loop[n].dropping /\ t >= loop[n].drop_next
  IN  IF codel.dropping
      THEN /\ ~Continues(k) /\ \A n \in 1..(k - 1) : Continues(n)
           /\ codel' = loop[k]
      ELSE IF first.ok
      THEN k = 2 /\ codel' = StartDropping(
                               dodequeue(first.c, queue[2], Rest(2), t).c, t)
      ELSE k = 1 /\ codel' = first.c

\* dequeue, at time t, of a queue that is not empty: the first packet leaves,
\* with CoDel some of the next may be lost.
Takes(k, t) == IF discipline.kind = "codel" THEN CodelTakes(k, t)
               ELSE k = 1 /\ UNCHANGED codel
=============================================================================
