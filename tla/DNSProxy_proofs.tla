-------------------------- MODULE DNSProxy_proofs --------------------------
(***************************************************************************)
(* The relay of src/src/util/dns_proxy.cc, for every size of its buffers,  *)
(* of the kernel's and of what the two sides send.  What a push and a pop  *)
(* do to a ring is proved once, of a ring before and after it, and used    *)
(* for the two rings of a connection; that the ring by itself implements a *)
(* bounded pipe follows from the same lemmas.                              *)
(***************************************************************************)
EXTENDS DNSProxy, SequenceTheorems, TLAPS

ClientRing == <<from_client, client_read, server_written>>
ServerRing == <<from_server, server_read, client_written>>
-----------------------------------------------------------------------------
(* The inductive invariant.                                                *)

\* The rings hold what has been read and not yet written.
ClientRingOK == FromClient!TypeOK /\ FromClient!Holds
ServerRingOK == FromServer!TypeOK /\ FromServer!Holds

\* The types that matter.
Typed ==
  /\ turn \in 1..4 /\ revents \subseteq 1..4
  /\ sent \in [Sides -> Nat] /\ \A s \in Sides : sent[s] <= Bytes(s)
  /\ fin \in [Sides -> BOOLEAN] /\ reset \in [Sides -> BOOLEAN]
  /\ eof \in [Sides -> BOOLEAN]

\* What poll found is still wanted, during a write as well.
StillWanted ==
  relay \in {"serving", "writing"} =>
    \A i \in revents : i >= turn => Interested(Actions[i])

\* A write is begun by an output.
WritingIsOut == relay = "writing" => turn \in {3, 4}

\* A side that poll found reset stays so.
HupIsReset == \A s \in hup : s \in Sides /\ reset[s]

\* A side whose end of file was read has nothing more to be read.
ReadToEnd == \A s \in Sides : eof[s] => fin[s] /\ Len(Read(s)) = sent[s]

\* Nothing is read before the server is connected.
Unconnected ==
  relay \in {"none", "accepted"} => client_read = <<>> /\ server_read = <<>>

IInv ==
  /\ ClientRingOK /\ ServerRingOK /\ Typed /\ StillWanted /\ WritingIsOut
  /\ HupIsReset /\ ReadToEnd /\ Unconnected /\ DrainedAtExit
-----------------------------------------------------------------------------
(* A ring, before and after a push or a pop: g and h are the ring, p what  *)
(* has been pushed and o what has been popped.                             *)

\* Slot, Holds, push and pop of ByteStreamQueue.
SlotOf(g, k) ==
  IF g.pop + k - 1 < Size THEN g.pop + k - 1 ELSE g.pop + k - 1 - Size

HoldsOf(g, p, o) ==
  /\ Len(p) - Len(o) = available_to_pop(g)
  /\ \A k \in 1..Len(o) : o[k] = p[k]
  /\ \A k \in 1..available_to_pop(g) :
       g.buffer[SlotOf(g, k)] = p[Len(o) + k]

Pushed(g, p, chunk, h, p2) ==
  /\ Len(chunk) \in 1..contiguous_space_to_push(g)
  /\ h = [buffer |-> [i \in 0..(Size - 1) |->
                        IF i \in g.push..(g.push + Len(chunk) - 1)
                        THEN chunk[i - g.push + 1] ELSE g.buffer[i]],
          push |-> Wrapped(g.push + Len(chunk)), pop |-> g.pop]
  /\ p2 = p \o chunk

Popped(g, o, n, h, o2) ==
  /\ n \in 1..contiguous_space_to_pop(g)
  /\ o2 = o \o [i \in 1..n |-> g.buffer[g.pop + i - 1]]
  /\ h = [g EXCEPT !.pop = Wrapped(g.pop + n)]

\* available_to_pop and available_to_push (bytestream_queue.cc:20-30) add up to
\* all but one byte of the buffer, and neither is negative.
LEMMA Availability ==
  ASSUME NEW r \in Ring
  PROVE  /\ available_to_pop(r) \in 0..(Size - 1)
         /\ available_to_push(r) = Size - 1 - available_to_pop(r)
  BY SizeAssumption
  DEF Ring, available_to_pop, available_to_push

\* What push reads at once (bytestream_queue.cc:38-41) is free, and does not go
\* beyond the end of the buffer.
LEMMA ContiguousPush ==
  ASSUME NEW r \in Ring
  PROVE  /\ contiguous_space_to_push(r) \in Nat
         /\ contiguous_space_to_push(r) <= available_to_push(r)
         /\ r.push + contiguous_space_to_push(r) <= Size
  <1>1. r.push \in 0..(Size - 1)
    BY DEF Ring
  <1>2. available_to_push(r) \in 0..(Size - 1)
    BY Availability, SizeAssumption
  <1> QED
    BY <1>1, <1>2, SizeAssumption DEF contiguous_space_to_push

\* The same of pop (bytestream_queue.cc:70-73).
LEMMA ContiguousPop ==
  ASSUME NEW r \in Ring
  PROVE  /\ contiguous_space_to_pop(r) \in Nat
         /\ contiguous_space_to_pop(r) <= available_to_pop(r)
         /\ r.pop + contiguous_space_to_pop(r) <= Size
  <1>1. r.pop \in 0..(Size - 1)
    BY DEF Ring
  <1>2. available_to_pop(r) \in 0..(Size - 1)
    BY Availability
  <1> QED
    BY <1>1, <1>2, SizeAssumption DEF contiguous_space_to_pop

\* The indices' arithmetic, over plain numbers: w is the push index and r the
\* pop index of a ring (bytestream_queue.cc:20-87), a what it holds.

\* An index goes back to 0 at the end of the buffer (bytestream_queue.cc:56).
LEMMA WrappedIndex ==
  ASSUME NEW i \in Nat, i <= Size
  PROVE  Wrapped(i) \in 0..(Size - 1)
  BY SizeAssumption DEF Wrapped

\* What a ring holds once l bytes have been pushed (bytestream_queue.cc:54).
LEMMA HeldAfterPush ==
  ASSUME NEW w \in 0..(Size - 1), NEW r \in 0..(Size - 1), NEW a \in Nat,
         NEW l \in Nat, l >= 1, w + l <= Size, l <= Size - 1 - a,
         a = w - r + (IF r > w THEN Size ELSE 0)
  PROVE  Wrapped(w + l) - r + (IF r > Wrapped(w + l) THEN Size ELSE 0) = a + l
  BY SizeAssumption DEF Wrapped

\* A byte that waits is not where the next l are pushed.
LEMMA WaitingNotOverwritten ==
  ASSUME NEW w \in 0..(Size - 1), NEW r \in 0..(Size - 1), NEW a \in Nat,
         NEW l \in Nat, l >= 1, w + l <= Size, l <= Size - 1 - a,
         a = w - r + (IF r > w THEN Size ELSE 0), NEW k \in 1..a,
         NEW s, s = IF r + k - 1 < Size THEN r + k - 1 ELSE r + k - 1 - Size
  PROVE  s \in 0..(Size - 1) /\ s \notin w..(w + l - 1)
  BY SizeAssumption

\* What a ring holds once n bytes have been popped (bytestream_queue.cc:82).
LEMMA HeldAfterPop ==
  ASSUME NEW w \in 0..(Size - 1), NEW r \in 0..(Size - 1), NEW a \in Nat,
         NEW n \in Nat, n >= 1, r + n <= Size, n <= a,
         a = w - r + (IF r > w THEN Size ELSE 0)
  PROVE  w - Wrapped(r + n) + (IF Wrapped(r + n) > w THEN Size ELSE 0) = a - n
  BY SizeAssumption DEF Wrapped

\* A push (bytestream_queue.cc:32) puts its chunk behind the bytes that are
\* waiting, and changes none of them.
LEMMA RingPush ==
  ASSUME NEW g \in Ring, NEW p \in Seq(Byte), NEW o \in Seq(Byte),
         HoldsOf(g, p, o), NEW chunk \in Seq(Byte), NEW h, NEW p2,
         Pushed(g, p, chunk, h, p2)
  PROVE  /\ h \in Ring /\ p2 \in Seq(Byte) /\ HoldsOf(h, p2, o)
         /\ SubSeq(p2, 1, Len(p)) = p /\ Len(p2) > Len(p)
         /\ Len(p2) <= Len(o) + (Size - 1)
  <1> DEFINE L == Len(chunk)
             a == available_to_pop(g)
  <1>1. /\ L \in Nat /\ L >= 1 /\ L <= contiguous_space_to_push(g)
        /\ p2 = p \o chunk
    BY LenProperties, ContiguousPush DEF Pushed
  <1>2. /\ g \in Ring /\ g.push \in 0..(Size - 1)
        /\ g.pop \in 0..(Size - 1)
        /\ g.buffer \in [0..(Size - 1) -> Byte]
        /\ a \in 0..(Size - 1)
        /\ p \in Seq(Byte) /\ o \in Seq(Byte)
        /\ Len(p) \in Nat /\ Len(o) \in Nat
    BY Availability, LenProperties DEF Ring
  <1>3. L <= Size - 1 - a /\ g.push + L <= Size
    BY <1>1, <1>2, Availability, ContiguousPush, SizeAssumption
  <1>4. /\ h.push = Wrapped(g.push + L) /\ h.pop = g.pop
        /\ h.buffer = [i \in 0..(Size - 1) |->
                             IF i \in g.push..(g.push + L - 1)
                             THEN chunk[i - g.push + 1]
                             ELSE g.buffer[i]]
    BY DEF Pushed
  <1>5. /\ \A i \in 1..L : chunk[i] \in Byte
        /\ p2 \in Seq(Byte) /\ Len(p2) = Len(p) + L
        /\ \A i \in 1..Len(p) : p2[i] = p[i]
        /\ \A i \in 1..L : p2[Len(p) + i] = chunk[i]
    BY <1>1, <1>2, ConcatProperties, ElementOfSeq
  <1>6. Len(p) - Len(o) = a /\ \A k \in 1..Len(o) : o[k] = p[k]
    BY DEF HoldsOf
  <1>7. a = g.push - g.pop + (IF g.pop > g.push THEN Size ELSE 0)
    BY DEF available_to_pop
  <1>8. \A k \in 1..a : g.buffer[SlotOf(g, k)] = p[Len(o) + k]
    BY DEF HoldsOf
  <1>9. Size \in Nat /\ Size > 1
    BY SizeAssumption
  <1> HIDE DEF L, a
  <1>10. Wrapped(g.push + L) \in 0..(Size - 1)
    <2>1. g.push + L \in Nat
      BY <1>1, <1>2, <1>9
    <2> QED
      BY ONLY <1>3, <2>1, WrappedIndex
  <1>11. h.buffer \in [0..(Size - 1) -> Byte]
    <2>1. \A i \in 0..(Size - 1) : i \in g.push..(g.push + L - 1) =>
            i - g.push + 1 \in 1..L
      BY <1>1, <1>2, <1>9
    <2> QED
      BY <1>2, <1>4, <1>5, <2>1
  <1>12. h \in Ring
    <2>1. h = [buffer |-> h.buffer, push |-> h.push, pop |-> h.pop]
      BY <1>4 DEF Pushed
    <2> QED
      BY <1>2, <1>4, <1>10, <1>11, <2>1 DEF Ring
  <1>14. available_to_pop(h) = a + L
    <2>1. available_to_pop(h)
            = Wrapped(g.push + L) - g.pop
              + (IF g.pop > Wrapped(g.push + L) THEN Size ELSE 0)
      BY <1>4 DEF available_to_pop
    <2>2. a \in Nat
      BY <1>2
    <2> QED
      <3>1. L \in Nat /\ L >= 1
        BY <1>1
      <3>2. g.push \in 0..(Size - 1) /\ g.pop \in 0..(Size - 1)
        BY <1>2
      <3>3. Wrapped(g.push + L) - g.pop
              + (IF g.pop > Wrapped(g.push + L) THEN Size ELSE 0)
            = a + L
        BY ONLY <1>3, <1>7, <2>2, <3>1, <3>2, HeldAfterPush
      <3> QED
        BY ONLY <2>1, <3>3
  <1>15. Len(p2) - Len(o) = available_to_pop(h)
    <2> DEFINE x == Len(p)
               x2 == Len(p2)
               y == Len(o)
               v == available_to_pop(h)
    <2>1. /\ x \in Nat /\ y \in Nat /\ a \in Nat /\ L \in Nat
          /\ x2 = x + L /\ x - y = a /\ v = a + L
      BY <1>1, <1>2, <1>5, <1>6, <1>14
    <2> HIDE DEF x, x2, y, v
    <2>2. x2 - y = v
      BY ONLY <2>1
    <2> QED
      BY <2>2 DEF x2, y, v
  <1>16. \A k \in 1..Len(o) : o[k] = p2[k]
    <2>1. Len(o) <= Len(p)
      BY <1>2, <1>6
    <2>2. \A k \in 1..Len(o) : k \in 1..Len(p)
      BY <1>2, <2>1
    <2> QED
      BY <1>1, <1>5, <1>6, <2>2
  <1>17. ASSUME NEW k \in 1..a
         PROVE  h.buffer[SlotOf(h, k)] = p2[Len(o) + k]
    <2>1. SlotOf(h, k) = SlotOf(g, k)
      BY <1>4 DEF SlotOf
    <2>2. /\ SlotOf(g, k) \in 0..(Size - 1)
          /\ SlotOf(g, k) \notin g.push..(g.push + L - 1)
      <3>1. a \in Nat
        BY <1>2
      <3> QED
        BY ONLY <1>1, <1>2, <1>3, <1>7, <3>1, k \in 1..a,
           WaitingNotOverwritten DEF SlotOf
    <2>3. h.buffer[SlotOf(g, k)] = g.buffer[SlotOf(g, k)]
      BY <1>4, <2>2
    <2>4. p2[Len(o) + k] = p[Len(o) + k]
      <3>1. Len(o) + k \in 1..Len(p)
        BY <1>2, <1>6
      <3> QED
        BY <1>1, <1>5, <3>1
    <2> QED
      BY <1>8, <2>1, <2>3, <2>4
  <1>18. ASSUME NEW k \in (a + 1)..(a + L)
         PROVE  h.buffer[SlotOf(h, k)] = p2[Len(o) + k]
    <2>1. SlotOf(h, k) = SlotOf(g, k)
      BY <1>4 DEF SlotOf
    <2>2. SlotOf(g, k) = g.push + (k - a) - 1
      <3> DEFINE w == g.push
                 r == g.pop
      <3>1. /\ w \in 0..(Size - 1) /\ r \in 0..(Size - 1) /\ a \in Nat
            /\ L \in Nat /\ L >= 1 /\ w + L <= Size /\ L <= Size - 1 - a
            /\ a = w - r + (IF r > w THEN Size ELSE 0)
        BY <1>1, <1>2, <1>3, <1>7
      <3>2. SlotOf(g, k)
              = IF r + k - 1 < Size THEN r + k - 1 ELSE r + k - 1 - Size
        BY DEF SlotOf
      <3> HIDE DEF w, r
      <3>3. k \in Int /\ k > a /\ k <= a + L
        BY <3>1
      <3>4. SlotOf(g, k) = w + (k - a) - 1
        BY ONLY <1>9, <3>1, <3>2, <3>3
      <3> QED
        BY <3>4 DEF w
    <2>3. k - a \in 1..L
      BY <1>1, <1>2
    <2>4. /\ SlotOf(g, k) \in 0..(Size - 1)
          /\ SlotOf(g, k) \in g.push..(g.push + L - 1)
          /\ SlotOf(g, k) - g.push + 1 = k - a
      BY <1>1, <1>2, <1>3, <1>9, <2>2, <2>3
    <2>5. h.buffer[SlotOf(g, k)] = chunk[k - a]
      BY <1>4, <2>4
    <2>6. Len(o) + k = Len(p) + (k - a)
      <3>1. k \in Int /\ a \in Int /\ Len(p) \in Int /\ Len(o) \in Int
        BY <1>1, <1>2
      <3>2. Len(p) - Len(o) = a
        BY <1>6
      <3>3. Len(o) + k = Len(p) + (k - a)
        BY ONLY <3>1, <3>2
      <3> QED
        BY <1>1, <3>3
    <2> QED
      BY <1>5, <2>1, <2>3, <2>5, <2>6
  <1>19. \A k \in 1..available_to_pop(h) :
           h.buffer[SlotOf(h, k)] = p2[Len(o) + k]
    <2> TAKE k \in 1..available_to_pop(h)
    <2>1. k \in 1..a \/ k \in (a + 1)..(a + L)
      BY <1>1, <1>2, <1>14
    <2> QED
      BY <2>1, <1>17, <1>18
  <1>20. HoldsOf(h, p2, o)
    BY <1>15, <1>16, <1>19 DEF HoldsOf
  <1>21. SubSeq(p2, 1, Len(p)) = p
    <2>1. \A i \in 1..Len(p) : p2[i] \in Byte
      BY <1>2, <1>5, ElementOfSeq
    <2>2. /\ SubSeq(p2, 1, Len(p)) \in Seq(Byte)
          /\ Len(SubSeq(p2, 1, Len(p))) = Len(p)
          /\ \A i \in 1..Len(p) : SubSeq(p2, 1, Len(p))[i] = p2[i]
      BY <1>2, <2>1, SubSeqProperties
    <2> QED
      BY <1>2, <1>5, <2>2, SeqEqual
  <1>22. Len(p2) > Len(p) /\ Len(p2) <= Len(o) + (Size - 1)
    BY <1>1, <1>2, <1>3, <1>5, <1>6, <1>9
  <1> QED
    BY <1>5, <1>12, <1>20, <1>21, <1>22

\* A pop (bytestream_queue.cc:64) takes the bytes that have waited longest.
LEMMA RingPop ==
  ASSUME NEW g \in Ring, NEW p \in Seq(Byte), NEW o \in Seq(Byte),
         HoldsOf(g, p, o), NEW n, NEW h, NEW o2, Popped(g, o, n, h, o2)
  PROVE  /\ h \in Ring /\ o2 \in Seq(Byte) /\ HoldsOf(h, p, o2)
         /\ Len(o2) > Len(o) /\ Len(o2) <= Len(p)
         /\ o2 = SubSeq(p, 1, Len(o2))
  <1> DEFINE a == available_to_pop(g)
             popped == [i \in 1..n |-> g.buffer[g.pop + i - 1]]
  <1>1. Size \in Nat /\ Size > 1
    BY SizeAssumption
  <1>2. /\ g \in Ring /\ g.push \in 0..(Size - 1)
        /\ g.pop \in 0..(Size - 1)
        /\ g.buffer \in [0..(Size - 1) -> Byte]
        /\ a \in Nat
        /\ p \in Seq(Byte) /\ o \in Seq(Byte)
        /\ Len(p) \in Nat /\ Len(o) \in Nat
    BY <1>1, Availability, LenProperties DEF Ring
  <1>3. n \in Nat /\ n >= 1 /\ n <= contiguous_space_to_pop(g)
    BY <1>1, <1>2, ContiguousPop DEF Popped
  <1>4. n <= a /\ g.pop + n <= Size
    BY <1>1, <1>2, <1>3, ContiguousPop
  <1>5. /\ h.pop = Wrapped(g.pop + n) /\ h.push = g.push
        /\ h.buffer = g.buffer
        /\ o2 = o \o popped
    BY <1>2 DEF Popped, Ring
  <1>6. a = g.push - g.pop + (IF g.pop > g.push THEN Size ELSE 0)
    BY DEF available_to_pop
  <1>7. Len(p) - Len(o) = a /\ \A k \in 1..Len(o) : o[k] = p[k]
    BY DEF HoldsOf
  <1>8. \A k \in 1..a : g.buffer[SlotOf(g, k)] = p[Len(o) + k]
    BY DEF HoldsOf
  <1>9. \A i \in 1..n : g.pop + i - 1 \in 0..(Size - 1)
    BY <1>1, <1>2, <1>3, <1>4
  <1>10. popped \in Seq(Byte) /\ Len(popped) = n
    <2>1. \A i \in 1..n : g.buffer[g.pop + i - 1] \in Byte
      BY <1>2, <1>9
    <2> QED
      BY <1>3, <2>1
  <1>11. \A i \in 1..n : popped[i] = p[Len(o) + i]
    <2> TAKE i \in 1..n
    <2>1. i \in 1..a
      BY <1>2, <1>3, <1>4
    <2>2. SlotOf(g, i) = g.pop + i - 1
      BY <1>1, <1>9 DEF SlotOf
    <2> QED
      BY <1>8, <2>1, <2>2
  <1> HIDE DEF a, popped
  <1>12. /\ o2 \in Seq(Byte) /\ Len(o2) = Len(o) + n
         /\ \A i \in 1..Len(o) : o2[i] = o[i]
         /\ \A i \in 1..n : o2[Len(o) + i] = popped[i]
    <2>1. /\ o \o popped \in Seq(Byte)
          /\ Len(o \o popped) = Len(o) + Len(popped)
          /\ \A i \in 1..(Len(o) + Len(popped)) :
               (o \o popped)[i] = IF i <= Len(o) THEN o[i]
                                  ELSE popped[i - Len(o)]
      BY <1>2, <1>10, ConcatProperties
    <2> QED
      BY <1>2, <1>3, <1>5, <1>10, <2>1
  <1>13. Wrapped(g.pop + n) \in 0..(Size - 1)
    <2>1. g.pop + n \in Nat
      BY <1>1, <1>2, <1>3
    <2> QED
      BY ONLY <1>4, <2>1, WrappedIndex
  <1>14. h \in Ring
    <2>1. h = [g EXCEPT !.pop = Wrapped(g.pop + n)]
      BY DEF Popped
    <2> QED
      BY <1>2, <1>13, <2>1 DEF Ring
  <1>16. available_to_pop(h) = a - n
    <2>1. available_to_pop(h)
            = g.push - Wrapped(g.pop + n)
              + (IF Wrapped(g.pop + n) > g.push THEN Size ELSE 0)
      BY <1>5 DEF available_to_pop
    <2>2. g.push \in 0..(Size - 1) /\ g.pop \in 0..(Size - 1) /\ a \in Nat
      BY <1>2
    <2>3. g.push - Wrapped(g.pop + n)
            + (IF Wrapped(g.pop + n) > g.push THEN Size ELSE 0) = a - n
      BY ONLY <1>3, <1>4, <1>6, <2>2, HeldAfterPop
    <2> QED
      BY ONLY <2>1, <2>3
  <1>17. Len(p) - Len(o2) = available_to_pop(h)
    BY <1>2, <1>3, <1>5, <1>7, <1>12, <1>16
  <1>18. \A k \in 1..Len(o2) : o2[k] = p[k]
    <2> TAKE k \in 1..Len(o2)
    <2>1. k \in Int /\ Len(o2) = Len(o) + n /\ 1 <= k /\ k <= Len(o2)
      BY <1>2, <1>3, <1>12
    <2>2. CASE k <= Len(o)
      BY <1>2, <1>7, <1>12, <2>1, <2>2
    <2>3. CASE k > Len(o)
      <3>1. k - Len(o) \in 1..n /\ Len(o) + (k - Len(o)) = k
        BY <1>2, <1>3, <2>1, <2>3
      <3> QED
        BY <1>11, <1>12, <3>1
    <2> QED
      BY <1>2, <2>1, <2>2, <2>3
  <1>19. \A k \in 1..available_to_pop(h) :
           h.buffer[SlotOf(h, k)] = p[Len(o2) + k]
    <2> TAKE k \in 1..available_to_pop(h)
    <2>1. k \in Int /\ 1 <= k /\ k <= a - n
      BY <1>2, <1>3, <1>16
    <2>2. SlotOf(h, k) = SlotOf(g, n + k)
      <3> DEFINE w == g.push
                 r == g.pop
      <3>1. /\ w \in 0..(Size - 1) /\ r \in 0..(Size - 1) /\ a \in Nat
            /\ n \in Nat /\ n >= 1 /\ r + n <= Size
            /\ a = w - r + (IF r > w THEN Size ELSE 0)
        BY <1>2, <1>3, <1>4, <1>6
      <3>2. SlotOf(g, n + k) = IF r + (n + k) - 1 < Size THEN r + (n + k) - 1
                          ELSE r + (n + k) - 1 - Size
        BY DEF SlotOf
      <3>3. SlotOf(h, k) = IF Wrapped(r + n) + k - 1 < Size
                       THEN Wrapped(r + n) + k - 1
                       ELSE Wrapped(r + n) + k - 1 - Size
        BY <1>5 DEF SlotOf
      <3> HIDE DEF w, r
      <3> QED
        BY ONLY <1>1, <2>1, <3>1, <3>2, <3>3 DEF Wrapped
    <2>3. n + k \in 1..a /\ Len(o2) + k = Len(o) + (n + k)
      BY <1>2, <1>3, <1>12, <2>1
    <2> QED
      BY <1>5, <1>8, <2>2, <2>3
  <1>20. HoldsOf(h, p, o2)
    BY <1>5, <1>17, <1>18, <1>19 DEF HoldsOf
  <1>21. Len(o2) > Len(o) /\ Len(o2) <= Len(p)
    BY <1>2, <1>3, <1>4, <1>7, <1>12
  <1>22. o2 = SubSeq(p, 1, Len(o2))
    <2>1. \A i \in 1..Len(o2) : p[i] \in Byte
      BY <1>2, <1>12, <1>21, ElementOfSeq
    <2>2. /\ SubSeq(p, 1, Len(o2)) \in Seq(Byte)
          /\ Len(SubSeq(p, 1, Len(o2))) = Len(o2)
          /\ \A i \in 1..Len(o2) : SubSeq(p, 1, Len(o2))[i] = p[i]
      BY <1>2, <1>3, <1>12, <2>1, SubSeqProperties
    <2> QED
      BY <1>12, <1>18, <2>2, SeqEqual
  <1> QED
    BY <1>12, <1>14, <1>20, <1>21, <1>22

-----------------------------------------------------------------------------
(* The two rings of a connection.                                          *)

\* The operators of the two instances of ByteStreamQueue are those of
\* StreamRing (bytestream_queue.cc:20-73), of their own variables.
LEMMA SameRing ==
  /\ FromClient!Ring = Ring /\ FromServer!Ring = Ring
  /\ \A r : /\ FromClient!available_to_pop(r) = available_to_pop(r)
            /\ FromServer!available_to_pop(r) = available_to_pop(r)
            /\ FromClient!contiguous_space_to_push(r)
                 = contiguous_space_to_push(r)
            /\ FromServer!contiguous_space_to_push(r)
                 = contiguous_space_to_push(r)
            /\ FromClient!contiguous_space_to_pop(r)
                 = contiguous_space_to_pop(r)
            /\ FromServer!contiguous_space_to_pop(r)
                 = contiguous_space_to_pop(r)
            /\ FromClient!Wrapped(r) = Wrapped(r)
            /\ FromServer!Wrapped(r) = Wrapped(r)
  BY DEF FromClient!Ring, FromServer!Ring, Ring,
         FromClient!available_to_pop, FromServer!available_to_pop,
         available_to_pop,
         FromClient!available_to_push, FromServer!available_to_push,
         available_to_push,
         FromClient!contiguous_space_to_push,
         FromServer!contiguous_space_to_push, contiguous_space_to_push,
         FromClient!contiguous_space_to_pop,
         FromServer!contiguous_space_to_pop, contiguous_space_to_pop,
         FromClient!Wrapped, FromServer!Wrapped, Wrapped

\* What the two rings hold, in the terms of the lemmas above.
LEMMA SameHolds ==
  /\ ClientRingOK <=>
       /\ from_client \in Ring
       /\ client_read \in Seq(Byte) /\ server_written \in Seq(Byte)
       /\ HoldsOf(from_client, client_read, server_written)
  /\ ServerRingOK <=>
       /\ from_server \in Ring
       /\ server_read \in Seq(Byte) /\ client_written \in Seq(Byte)
       /\ HoldsOf(from_server, server_read, client_written)
  BY SameRing
  DEF ClientRingOK, FromClient!TypeOK, FromClient!Holds, FromClient!Slot,
      ServerRingOK, FromServer!TypeOK, FromServer!Holds, FromServer!Slot,
      HoldsOf, SlotOf

\* A queue is made empty (bytestream_queue.cc:10).
LEMMA RingsStartEmpty ==
  /\ FromClient!Init => ClientRingOK /\ FromClient!P!Init
  /\ FromServer!Init => ServerRingOK /\ FromServer!P!Init
  <1>1. ASSUME FromClient!Init PROVE ClientRingOK /\ FromClient!P!Init
    <2>1. FromClient!TypeOK
      BY <1>1, SizeAssumption, ByteAssumption
      DEF FromClient!Init, FromClient!TypeOK, FromClient!NewRing,
          FromClient!Ring
    <2>2. FromClient!available_to_pop(from_client) = 0
      BY <1>1 DEF FromClient!Init, FromClient!NewRing,
                  FromClient!available_to_pop
    <2> QED
      BY <1>1, <2>1, <2>2 DEF FromClient!Init, FromClient!Holds, ClientRingOK,
                              FromClient!P!Init
  <1>2. ASSUME FromServer!Init PROVE ServerRingOK /\ FromServer!P!Init
    <2>1. FromServer!TypeOK
      BY <1>2, SizeAssumption, ByteAssumption
      DEF FromServer!Init, FromServer!TypeOK, FromServer!NewRing,
          FromServer!Ring
    <2>2. FromServer!available_to_pop(from_server) = 0
      BY <1>2 DEF FromServer!Init, FromServer!NewRing,
                  FromServer!available_to_pop
    <2> QED
      BY <1>2, <2>1, <2>2 DEF FromServer!Init, FromServer!Holds, ServerRingOK,
                              FromServer!P!Init
  <1> QED
    BY <1>1, <1>2

\* A push into the client's ring (bytestream_queue.cc:32).
LEMMA ClientPush ==
  ASSUME ClientRingOK, NEW chunk \in Seq(Byte), FromClient!push(chunk)
  PROVE  ClientRingOK' /\ FromClient!P!Put
  <1>1. /\ from_client \in Ring
        /\ client_read \in Seq(Byte) /\ server_written \in Seq(Byte)
        /\ HoldsOf(from_client, client_read, server_written)
    BY SameHolds
  <1>2. /\ Pushed(from_client, client_read, chunk, from_client', client_read')
        /\ server_written' = server_written
    BY SameRing DEF FromClient!push, Pushed
  <1>3. /\ from_client' \in Ring /\ client_read' \in Seq(Byte)
        /\ HoldsOf(from_client', client_read', server_written)
        /\ SubSeq(client_read', 1, Len(client_read)) = client_read
        /\ Len(client_read') > Len(client_read)
        /\ Len(client_read') <= Len(server_written) + (Size - 1)
    BY ONLY <1>1, <1>2, chunk \in Seq(Byte), RingPush
  <1>4. ClientRingOK'
    BY <1>1, <1>2, <1>3, SameRing
    DEF ClientRingOK, FromClient!TypeOK, FromClient!Holds, FromClient!Slot, HoldsOf,
        SlotOf
  <1>5. FromClient!P!Put
    BY <1>2, <1>3 DEF FromClient!P!Put
  <1> QED
    BY <1>4, <1>5

\* A push into the server's ring (bytestream_queue.cc:32).
LEMMA ServerPush ==
  ASSUME ServerRingOK, NEW chunk \in Seq(Byte), FromServer!push(chunk)
  PROVE  ServerRingOK' /\ FromServer!P!Put
  <1>1. /\ from_server \in Ring
        /\ server_read \in Seq(Byte) /\ client_written \in Seq(Byte)
        /\ HoldsOf(from_server, server_read, client_written)
    BY SameHolds
  <1>2. /\ Pushed(from_server, server_read, chunk, from_server', server_read')
        /\ client_written' = client_written
    BY SameRing DEF FromServer!push, Pushed
  <1>3. /\ from_server' \in Ring /\ server_read' \in Seq(Byte)
        /\ HoldsOf(from_server', server_read', client_written)
        /\ SubSeq(server_read', 1, Len(server_read)) = server_read
        /\ Len(server_read') > Len(server_read)
        /\ Len(server_read') <= Len(client_written) + (Size - 1)
    BY ONLY <1>1, <1>2, chunk \in Seq(Byte), RingPush
  <1>4. ServerRingOK'
    BY <1>1, <1>2, <1>3, SameRing
    DEF ServerRingOK, FromServer!TypeOK, FromServer!Holds, FromServer!Slot, HoldsOf,
        SlotOf
  <1>5. FromServer!P!Put
    BY <1>2, <1>3 DEF FromServer!P!Put
  <1> QED
    BY <1>4, <1>5

\* A pop from the client's ring (bytestream_queue.cc:64).
LEMMA ClientPop ==
  ASSUME ClientRingOK, NEW n, FromClient!pop(n)
  PROVE  ClientRingOK' /\ FromClient!P!Take
  <1>1. /\ from_client \in Ring
        /\ client_read \in Seq(Byte) /\ server_written \in Seq(Byte)
        /\ HoldsOf(from_client, client_read, server_written)
    BY SameHolds
  <1>2. /\ Popped(from_client, server_written, n, from_client', server_written')
        /\ client_read' = client_read
    BY SameRing DEF FromClient!pop, Popped
  <1>3. /\ from_client' \in Ring /\ server_written' \in Seq(Byte)
        /\ HoldsOf(from_client', client_read, server_written')
        /\ Len(server_written') > Len(server_written)
        /\ Len(server_written') <= Len(client_read)
        /\ server_written' = SubSeq(client_read, 1, Len(server_written'))
    BY ONLY <1>1, <1>2, RingPop
  <1>4. ClientRingOK'
    BY <1>1, <1>2, <1>3, SameRing
    DEF ClientRingOK, FromClient!TypeOK, FromClient!Holds, FromClient!Slot, HoldsOf,
        SlotOf
  <1>5. FromClient!P!Take
    BY <1>2, <1>3 DEF FromClient!P!Take
  <1> QED
    BY <1>4, <1>5

\* A pop from the server's ring (bytestream_queue.cc:64).
LEMMA ServerPop ==
  ASSUME ServerRingOK, NEW n, FromServer!pop(n)
  PROVE  ServerRingOK' /\ FromServer!P!Take
  <1>1. /\ from_server \in Ring
        /\ server_read \in Seq(Byte) /\ client_written \in Seq(Byte)
        /\ HoldsOf(from_server, server_read, client_written)
    BY SameHolds
  <1>2. /\ Popped(from_server, client_written, n, from_server', client_written')
        /\ server_read' = server_read
    BY SameRing DEF FromServer!pop, Popped
  <1>3. /\ from_server' \in Ring /\ client_written' \in Seq(Byte)
        /\ HoldsOf(from_server', server_read, client_written')
        /\ Len(client_written') > Len(client_written)
        /\ Len(client_written') <= Len(server_read)
        /\ client_written' = SubSeq(server_read, 1, Len(client_written'))
    BY ONLY <1>1, <1>2, RingPop
  <1>4. ServerRingOK'
    BY <1>1, <1>2, <1>3, SameRing
    DEF ServerRingOK, FromServer!TypeOK, FromServer!Holds, FromServer!Slot, HoldsOf,
        SlotOf
  <1>5. FromServer!P!Take
    BY <1>2, <1>3 DEF FromServer!P!Take
  <1> QED
    BY <1>4, <1>5

\* A ring that is left alone stays as it is.
LEMMA RingsStay ==
  /\ ClientRingOK /\ UNCHANGED ClientRing => ClientRingOK'
  /\ ServerRingOK /\ UNCHANGED ServerRing => ServerRingOK'
  BY DEF ClientRingOK, ServerRingOK, ClientRing, ServerRing,
         FromClient!TypeOK, FromClient!Holds, FromClient!Slot,
         FromServer!TypeOK, FromServer!Holds, FromServer!Slot

-----------------------------------------------------------------------------
(* The ring by itself.                                                     *)

\* A step of one queue keeps what it holds, and is a step of a pipe.
LEMMA RingStep ==
  ASSUME ClientRingOK, [FromClient!Next]_ClientRing
  PROVE  /\ ClientRingOK'
         /\ [FromClient!P!Next]_<<client_read, server_written>>
  <1>1. CASE FromClient!Next
    BY <1>1, ClientPush, ClientPop DEF FromClient!Next, FromClient!P!Next
  <1>2. CASE UNCHANGED ClientRing
    BY <1>2, RingsStay DEF ClientRing
  <1> QED
    BY <1>1, <1>2

\* For every size of the buffer: the bytes between the two indices of a ring
\* (bytestream_queue.cc:20-30) are, in order, those that were pushed and have
\* not been popped, whatever the sizes of the reads and of the writes.  The
\* ring is any one: here the client's, with nothing of the relay around it.
THEOREM RingHolds ==
  FromClient!Spec => [](FromClient!TypeOK /\ FromClient!Holds)
  <1>1. ClientRingOK => FromClient!TypeOK /\ FromClient!Holds
    BY DEF ClientRingOK
  <1> QED
    BY <1>1, RingsStartEmpty, RingStep, PTL DEF FromClient!Spec, ClientRing

\* For every size of the buffer the ring implements a pipe that holds one byte
\* less: each push is a Put and each pop a Take (bytestream_queue.cc:32, 64).
THEOREM RingImplementsPipe == FromClient!Spec => FromClient!IsPipe
  <1> QED
    BY RingsStartEmpty, RingStep, PTL
    DEF FromClient!Spec, FromClient!IsPipe, FromClient!P!Spec, ClientRing

-----------------------------------------------------------------------------
(* The relay.                                                              *)

\* What a ring holds, by what went in and came out.
LEMMA HeldByLengths ==
  /\ ClientRingOK =>
       /\ from_client \in Ring
       /\ client_read \in Seq(Byte) /\ server_written \in Seq(Byte)
       /\ Len(client_read) \in Nat /\ Len(server_written) \in Nat
       /\ available_to_pop(from_client) = Len(client_read) - Len(server_written)
  /\ ServerRingOK =>
       /\ from_server \in Ring
       /\ server_read \in Seq(Byte) /\ client_written \in Seq(Byte)
       /\ Len(server_read) \in Nat /\ Len(client_written) \in Nat
       /\ available_to_pop(from_server) = Len(server_read) - Len(client_written)
  BY LenProperties, SameRing
  DEF ClientRingOK, ServerRingOK, FromClient!TypeOK, FromClient!Holds,
      FromServer!TypeOK, FromServer!Holds

\* A ring from which nothing waits has all been written, and can be read into.
LEMMA EmptyRing ==
  /\ ClientRingOK /\ ~non_empty(from_client) =>
       server_written = client_read /\ space_available(from_client)
  /\ ServerRingOK /\ ~non_empty(from_server) =>
       client_written = server_read /\ space_available(from_server)
  <1>1. ASSUME ClientRingOK, ~non_empty(from_client)
        PROVE  server_written = client_read /\ space_available(from_client)
    <2>1. /\ available_to_pop(from_client) \in 0..(Size - 1)
          /\ available_to_push(from_client)
               = Size - 1 - available_to_pop(from_client)
      BY ONLY <1>1, HeldByLengths, SizeAssumption
         DEF Ring, available_to_pop, available_to_push
    <2>2. available_to_pop(from_client) = 0
      BY <1>1, <2>1, SizeAssumption DEF non_empty
    <2>3. Len(server_written) = Len(client_read)
      BY <1>1, <2>2, HeldByLengths
    <2>4. \A k \in 1..Len(server_written) : server_written[k] = client_read[k]
      BY <1>1 DEF ClientRingOK, FromClient!Holds
    <2>5. server_written = client_read
      BY <1>1, <2>3, <2>4, HeldByLengths, SeqEqual
    <2> QED
      BY <2>1, <2>2, <2>5, SizeAssumption DEF space_available
  <1>2. ASSUME ServerRingOK, ~non_empty(from_server)
        PROVE  client_written = server_read /\ space_available(from_server)
    <2>1. /\ available_to_pop(from_server) \in 0..(Size - 1)
          /\ available_to_push(from_server)
               = Size - 1 - available_to_pop(from_server)
      BY ONLY <1>2, HeldByLengths, SizeAssumption
         DEF Ring, available_to_pop, available_to_push
    <2>2. available_to_pop(from_server) = 0
      BY <1>2, <2>1, SizeAssumption DEF non_empty
    <2>3. Len(client_written) = Len(server_read)
      BY <1>2, <2>2, HeldByLengths
    <2>4. \A k \in 1..Len(client_written) : client_written[k] = server_read[k]
      BY <1>2 DEF ServerRingOK, FromServer!Holds
    <2>5. client_written = server_read
      BY <1>2, <2>3, <2>4, HeldByLengths, SeqEqual
    <2> QED
      BY <2>1, <2>2, <2>5, SizeAssumption DEF space_available
  <1> QED
    BY <1>1, <1>2

\* The four actions of handle_tcp (dns_proxy.cc:95-109).
LEMMA FourActions ==
  /\ Actions[1].side = "server" /\ Actions[1].direction = "In"
  /\ Actions[2].side = "client" /\ Actions[2].direction = "In"
  /\ Actions[3].side = "server" /\ Actions[3].direction = "Out"
  /\ Actions[4].side = "client" /\ Actions[4].direction = "Out"
  BY DEF Actions
-----------------------------------------------------------------------------
(* One lemma per action.                                                   *)

\* A relay starts with empty rings and nothing read (dns_proxy.cc:81-93).
LEMMA InitOK == Init => IInv
  <1> SUFFICES ASSUME Init
               PROVE  IInv
    OBVIOUS
  <1>1. ClientRingOK
    BY RingsStartEmpty DEF Init
  <1>2. ServerRingOK
    BY RingsStartEmpty DEF Init
  <1>3. Typed
    <2>1. \A s \in Sides : 0 <= Bytes(s)
      BY BoundsAssumption DEF Sides, Bytes
    <2> QED
      BY <2>1 DEF Init, Typed
  <1>4. StillWanted /\ WritingIsOut /\ HupIsReset /\ ReadToEnd
    BY DEF Init, StillWanted, WritingIsOut, HupIsReset, ReadToEnd
  <1>5. Unconnected
    BY DEF Init, Unconnected, FromClient!Init, FromServer!Init
  <1>6. DrainedAtExit
    BY DEF Init, DrainedAtExit
  <1> QED
    BY <1>1, <1>2, <1>3, <1>4, <1>5, <1>6 DEF IInv

\* What a side does (it sends, closes, resets or reads) leaves the thread and
\* its rings alone; a side that has closed sends nothing more.
LEMMA PeersKeep ==
  ASSUME IInv, NEW s \in Sides,
         PeerSends(s) \/ PeerCloses(s) \/ PeerResets(s) \/ PeerReads(s)
  PROVE  IInv'
  <1> USE DEF PeerSends, PeerCloses, PeerResets, PeerReads, thread, rings, udp
  <1>1. UNCHANGED <<relay, turn, revents, hup, eof, rings>>
    OBVIOUS
  <1>2. ClientRingOK' /\ ServerRingOK'
    BY RingsStay DEF IInv, ClientRing, ServerRing
  <1>3. Typed'
    <2>1. \A t \in Sides : Bytes(t) \in Nat /\ Bytes(t)' = Bytes(t)
      BY BoundsAssumption DEF Bytes, Sides
    <2>2. sent' \in [Sides -> Nat] /\ \A t \in Sides : sent'[t] <= Bytes(t)
      <3>1. CASE PeerSends(s)
        <4>1. sent[s] + 1 \in Nat /\ sent[s] + 1 <= Bytes(s)
          BY <2>1, <3>1 DEF IInv, Typed
        <4> QED
          BY <3>1, <4>1 DEF IInv, Typed
      <3>2. CASE sent' = sent
        BY <3>2 DEF IInv, Typed
      <3> QED
        BY <3>1, <3>2
    <2>3. /\ fin' \in [Sides -> BOOLEAN] /\ reset' \in [Sides -> BOOLEAN]
          /\ eof' \in [Sides -> BOOLEAN]
      BY DEF IInv, Typed
    <2> QED
      BY <1>1, <2>1, <2>2, <2>3 DEF IInv, Typed
  <1>4. StillWanted' /\ WritingIsOut'
    BY <1>1 DEF IInv, StillWanted, WritingIsOut, Interested, From
  <1>5. \A t \in Sides : (reset[t] => reset'[t]) /\ (fin[t] => fin'[t])
    BY DEF IInv, Typed
  <1>6. HupIsReset'
    BY <1>1, <1>5 DEF IInv, HupIsReset
  <1>7. \A t \in Sides : fin[t] => sent'[t] = sent[t]
    BY DEF IInv, Typed
  <1>8. ReadToEnd'
    BY <1>1, <1>5, <1>7 DEF IInv, ReadToEnd, Read
  <1>9. Unconnected'
    BY <1>1 DEF IInv, Unconnected
  <1>10. DrainedAtExit'
    BY <1>1, <1>5, <1>7 DEF IInv, DrainedAtExit, Read, Written
  <1> QED
    BY <1>2, <1>3, <1>4, <1>6, <1>8, <1>9, <1>10 DEF IInv

\* The threads of the UDP queries (dns_proxy.cc:44-77) share nothing with it.
LEMMA OthersKeep ==
  ASSUME IInv, UNCHANGED <<thread, rings, peers>>
  PROVE  IInv'
  <1> USE DEF thread, rings, peers
  <1>1. ClientRingOK' /\ ServerRingOK'
    BY RingsStay DEF IInv, ClientRing, ServerRing
  <1>2. Typed' /\ HupIsReset' /\ ReadToEnd' /\ Unconnected'
    BY DEF IInv, Typed, HupIsReset, ReadToEnd, Unconnected, Bytes, Read
  <1>3. StillWanted' /\ WritingIsOut' /\ DrainedAtExit'
    BY DEF IInv, StillWanted, WritingIsOut, Interested, From, DrainedAtExit,
           Read, Written
  <1> QED
    BY <1>1, <1>2, <1>3 DEF IInv

\* The thread connects (dns_proxy.cc:88), polls (poller.cc:22-47), meets a
\* reset (poller.cc:50), passes an action that is not ready or begins a write:
\* neither the rings nor the sides change.
LEMMA ThreadKeeps ==
  ASSUME IInv,
         Connect \/ Poll \/ Hangup \/ NotReady \/ PopBegins \/ WriteMoves
           \/ WriteFails
  PROVE  IInv'
  <1>1. UNCHANGED <<eof, rings, peers>>
    BY DEF Connect, Poll, Hangup, NotReady, PopBegins, WriteMoves, WriteFails
  <1>2. ClientRingOK' /\ ServerRingOK'
    BY <1>1, RingsStay DEF IInv, ClientRing, ServerRing, rings
  <1>3. Typed'
    <2>1. turn' \in 1..4
      BY DEF IInv, Typed, Connect, Poll, Hangup, NotReady, PopBegins,
             WriteMoves, WriteFails, Advance
    <2>2. revents' \subseteq 1..4
      BY DEF IInv, Typed, Connect, Poll, Hangup, NotReady, PopBegins,
             WriteMoves, WriteFails, Revents, Wanted
    <2> QED
      BY <1>1, <2>1, <2>2 DEF IInv, Typed, peers, Bytes
  <1>4. \A i : Interested(Actions[i])' = Interested(Actions[i])
    BY <1>1 DEF Interested, From, rings
  <1>5. StillWanted'
    <2>1. CASE Connect \/ Hangup \/ WriteFails
      BY <2>1 DEF StillWanted, Connect, Hangup, WriteFails
    <2>2. CASE Poll
      BY <1>4, <2>2 DEF StillWanted, Poll, Revents, Wanted
    <2>3. CASE PopBegins \/ WriteMoves
      BY <1>4, <2>3 DEF IInv, StillWanted, PopBegins, WriteMoves, Serving
    <2>4. CASE NotReady
      <3>1. \A i \in revents : i >= turn + 1 => i >= turn
        BY DEF IInv, Typed
      <3> QED
        BY <1>4, <2>4, <3>1 DEF IInv, StillWanted, NotReady, Advance
    <2> QED
      BY <2>1, <2>2, <2>3, <2>4
  <1>6. HupIsReset'
    <2>1. CASE Poll
      BY <1>1, <2>1 DEF IInv, HupIsReset, Poll, peers
    <2>2. CASE hup' = hup
      BY <1>1, <2>2 DEF IInv, HupIsReset, peers
    <2> QED
      BY <2>1, <2>2 DEF Connect, Poll, Hangup, NotReady, PopBegins,
                        WriteMoves, WriteFails
  <1>7. ReadToEnd'
    BY <1>1 DEF IInv, ReadToEnd, Read, rings, peers
  <1>8. Unconnected'
    BY <1>1 DEF IInv, Unconnected, rings, Connect, Poll, Hangup, NotReady,
                PopBegins, WriteMoves, WriteFails, Advance
  <1>9. DrainedAtExit'
    <2>1. CASE Connect
      <3>1. client_read' \o server_read' = <<>>
        BY <1>1, <2>1 DEF IInv, Unconnected, Connect, rings
      <3> QED
        BY <2>1, <3>1 DEF DrainedAtExit, Connect
    <2>2. CASE Poll
      <3>1. CASE Wanted = {}
        <4>1. \A i \in 1..4 : ~Interested(Actions[i])
          BY <3>1 DEF Wanted
        <4>2. ~non_empty(from_client) /\ ~non_empty(from_server)
          BY <4>1, FourActions DEF Interested, From, Other
        <4>3. eof["client"] /\ eof["server"]
          BY <4>1, <4>2, EmptyRing, FourActions DEF IInv, Interested, From
        <4>4. \A s \in Sides :
                /\ fin[s] /\ Len(Read(s)) = sent[s]
                /\ Written(Other(s)) = Read(s)
          BY <4>2, <4>3, EmptyRing
          DEF IInv, ReadToEnd, Sides, Other, Read, Written
        <4>5. relay' = "done"
          BY <2>2, <3>1 DEF Poll
        <4> QED
          BY <1>1, <4>4, <4>5
          DEF DrainedAtExit, Read, Written, rings, peers, Sides, Other
      <3>2. CASE Wanted # {}
        BY <2>2, <3>2 DEF Poll, DrainedAtExit
      <3> QED
        BY <3>1, <3>2
    <2>3. CASE Hangup
      <3>1. Actions[turn].side \in Sides /\ reset[Actions[turn].side]
        BY <2>3 DEF IInv, HupIsReset, Hangup
      <3> QED
        BY <1>1, <2>3, <3>1 DEF DrainedAtExit, Hangup, peers
    <2>4. CASE WriteFails
      <3>1. Actions[turn].side \in Sides
        BY FourActions DEF IInv, Typed, Sides
      <3> QED
        BY <1>1, <2>4, <3>1 DEF DrainedAtExit, WriteFails, peers
    <2>5. CASE NotReady \/ PopBegins \/ WriteMoves
      BY <2>5 DEF DrainedAtExit, NotReady, PopBegins, WriteMoves, Advance
    <2> QED
      BY <2>1, <2>2, <2>3, <2>4, <2>5
  <1>10. WritingIsOut'
    <2>1. CASE PopBegins
      BY <2>1, FourActions DEF IInv, Typed, WritingIsOut, PopBegins, Serving
    <2>2. CASE WriteMoves
      BY <2>2 DEF IInv, WritingIsOut, WriteMoves
    <2>3. CASE Connect \/ Poll \/ Hangup \/ NotReady \/ WriteFails
      BY <2>3 DEF WritingIsOut, Connect, Poll, Hangup, NotReady, WriteFails,
                  Advance
    <2> QED
      BY <2>1, <2>2, <2>3
  <1> QED
    BY <1>2, <1>3, <1>5, <1>6, <1>7, <1>8, <1>9, <1>10 DEF IInv

\* What a side has sent and is read next are bytes.
LEMMA UnreadBytes ==
  ASSUME IInv, NEW s \in Sides, NEW n \in 1..Size,
         Len(Read(s)) + n <= sent[s]
  PROVE  Unread(s, n) \in Seq(Byte)
  <1>1. Len(Read(s)) \in Nat /\ sent[s] \in Nat /\ sent[s] <= Bytes(s)
    BY HeldByLengths DEF IInv, Typed, Read, Sides
  <1>2. Bytes(s) \in Nat /\ 1..Bytes(s) \subseteq Byte
    BY BoundsAssumption DEF Bytes
  <1>3. n \in Nat
    BY SizeAssumption
  <1>4. \A i \in 1..n : Len(Read(s)) + i \in Byte
    <2> TAKE i \in 1..n
    <2>1. Len(Read(s)) + i \in 1..Bytes(s)
      BY <1>1, <1>2, <1>3
    <2> QED
      BY <1>2, <2>1
  <1> QED
    BY <1>3, <1>4 DEF Unread

\* A push (dns_proxy.cc:95-101): the side's own input is not looked at again in
\* this round, and an output only finds more to write.
LEMMA PushKeeps ==
  ASSUME IInv, Push
  PROVE  /\ IInv'
         /\ \/ FromClient!P!Put /\ UNCHANGED ServerRing
            \/ FromServer!P!Put /\ UNCHANGED ClientRing
  <1> DEFINE s == Actions[turn].side
  <1>1. PICK n \in 1..Size :
          /\ Len(Read(s)) + n <= sent[s]
          /\ \/ /\ s = "client" /\ FromClient!push(Unread(s, n))
                /\ UNCHANGED <<from_server, server_read, client_written>>
             \/ /\ s = "server" /\ FromServer!push(Unread(s, n))
                /\ UNCHANGED <<from_client, client_read, server_written>>
    BY DEF Push
  <1>2. /\ relay = "serving" /\ turn \in revents
        /\ Actions[turn].direction = "In"
        /\ Advance /\ UNCHANGED <<revents, hup, moved, eof, peers, udp>>
    BY DEF Push, Serving
  <1>3. s \in Sides /\ turn \in {1, 2}
    BY <1>2, FourActions DEF IInv, Typed, Sides
  <1>4. Unread(s, n) \in Seq(Byte)
    BY <1>1, <1>3, UnreadBytes
  <1>5. ~eof[s]
    <2>1. Interested(Actions[turn])
      BY <1>2 DEF IInv, StillWanted, Typed
    <2> QED
      BY <1>2, <2>1 DEF Interested
  <1>6. Typed'
    BY <1>2, <1>3 DEF IInv, Typed, Advance, peers, Bytes
  <1>7. HupIsReset'
    BY <1>2 DEF IInv, HupIsReset, peers
  <1>8. Unconnected' /\ DrainedAtExit' /\ WritingIsOut'
    BY <1>2 DEF Unconnected, DrainedAtExit, WritingIsOut, Advance
  <1>9. CASE s = "client"
    <2>1. FromClient!push(Unread(s, n)) /\ UNCHANGED ServerRing
      BY <1>1, <1>9 DEF ServerRing
    <2>2. ClientRingOK' /\ FromClient!P!Put
      BY <1>4, <2>1, ClientPush DEF IInv
    <2>3. ServerRingOK'
      BY <2>1, RingsStay DEF IInv
    <2>4. ReadToEnd'
      BY <1>2, <1>5, <1>9, <2>1
      DEF IInv, ReadToEnd, Read, peers, ServerRing, Sides
    <2>5. non_empty(from_client)'
      <3>1. /\ Len(client_read) \in Nat /\ Len(server_written) \in Nat
            /\ Len(server_written) <= Len(client_read)
        <4>1. /\ from_client \in Ring
              /\ Len(client_read) \in Nat /\ Len(server_written) \in Nat
              /\ available_to_pop(from_client)
                   = Len(client_read) - Len(server_written)
          BY HeldByLengths DEF IInv
        <4>2. available_to_pop(from_client) >= 0
          BY <4>1, SizeAssumption DEF Ring, available_to_pop
        <4> QED
          BY <4>1, <4>2
      <3>2. /\ Len(client_read') > Len(client_read)
            /\ server_written' = server_written
        BY <2>2 DEF FromClient!P!Put
      <3>3. /\ Len(client_read') \in Nat
            /\ available_to_pop(from_client')
                 = Len(client_read') - Len(server_written')
        <4>1. FromClient!available_to_pop(from_client')
                = Len(client_read') - Len(server_written')
          BY <2>2 DEF ClientRingOK, FromClient!Holds
        <4>2. client_read' \in Seq(Byte)
          BY <2>2 DEF FromClient!P!Put
        <4> QED
          BY <4>1, <4>2, SameRing, LenProperties
      <3> QED
        BY <3>1, <3>2, <3>3, SizeAssumption DEF non_empty
    <2>6. StillWanted'
      <3>1. turn = 2
        BY <1>3, <1>9, FourActions
      <3>2. relay' = "serving" /\ turn' = 3 /\ revents' = revents
        BY <1>2, <3>1 DEF Advance
      <3>3. \A i \in revents : i >= 3 => i \in {3, 4} /\ Interested(Actions[i])
        <4>1. \A i \in revents : i \in 1..4
          BY DEF IInv, Typed
        <4>2. \A i \in revents : i >= 2 => Interested(Actions[i])
          BY <1>2, <3>1 DEF IInv, StillWanted
        <4> QED
          BY <4>1, <4>2
      <3>4. Interested(Actions[3])'
        BY <2>5, FourActions DEF Interested, From, Other
      <3>5. Interested(Actions[4]) => Interested(Actions[4])'
        BY <2>1, FourActions DEF Interested, From, Other, ServerRing
      <3> QED
        BY <3>2, <3>3, <3>4, <3>5 DEF StillWanted
    <2> QED
      BY <1>6, <1>7, <1>8, <2>1, <2>2, <2>3, <2>4, <2>6 DEF IInv
  <1>10. CASE s = "server"
    <2>1. FromServer!push(Unread(s, n)) /\ UNCHANGED ClientRing
      BY <1>1, <1>10 DEF ClientRing
    <2>2. ServerRingOK' /\ FromServer!P!Put
      BY <1>4, <2>1, ServerPush DEF IInv
    <2>3. ClientRingOK'
      BY <2>1, RingsStay DEF IInv
    <2>4. ReadToEnd'
      BY <1>2, <1>5, <1>10, <2>1
      DEF IInv, ReadToEnd, Read, peers, ClientRing, Sides
    <2>5. non_empty(from_server)'
      <3>1. /\ Len(server_read) \in Nat /\ Len(client_written) \in Nat
            /\ Len(client_written) <= Len(server_read)
        <4>1. /\ from_server \in Ring
              /\ Len(server_read) \in Nat /\ Len(client_written) \in Nat
              /\ available_to_pop(from_server)
                   = Len(server_read) - Len(client_written)
          BY HeldByLengths DEF IInv
        <4>2. available_to_pop(from_server) >= 0
          BY <4>1, SizeAssumption DEF Ring, available_to_pop
        <4> QED
          BY <4>1, <4>2
      <3>2. /\ Len(server_read') > Len(server_read)
            /\ client_written' = client_written
        BY <2>2 DEF FromServer!P!Put
      <3>3. /\ Len(server_read') \in Nat
            /\ available_to_pop(from_server')
                 = Len(server_read') - Len(client_written')
        <4>1. FromServer!available_to_pop(from_server')
                = Len(server_read') - Len(client_written')
          BY <2>2 DEF ServerRingOK, FromServer!Holds
        <4>2. server_read' \in Seq(Byte)
          BY <2>2 DEF FromServer!P!Put
        <4> QED
          BY <4>1, <4>2, SameRing, LenProperties
      <3> QED
        BY <3>1, <3>2, <3>3, SizeAssumption DEF non_empty
    <2>6. StillWanted'
      <3>1. turn = 1
        BY <1>3, <1>10, FourActions
      <3>2. relay' = "serving" /\ turn' = 2 /\ revents' = revents
        BY <1>2, <3>1 DEF Advance
      <3>3. \A i \in revents :
              i >= 2 => i \in {2, 3, 4} /\ Interested(Actions[i])
        <4>1. \A i \in revents : i \in 1..4
          BY DEF IInv, Typed
        <4>2. \A i \in revents : i >= 1 => Interested(Actions[i])
          BY <1>2, <3>1 DEF IInv, StillWanted
        <4> QED
          BY <4>1, <4>2
      <3>4. Interested(Actions[4])'
        BY <2>5, FourActions DEF Interested, From, Other
      <3>5. \A i \in {2, 3} : Interested(Actions[i]) => Interested(Actions[i])'
        BY <1>2, <2>1, FourActions DEF Interested, From, Other, ClientRing
      <3> QED
        BY <3>2, <3>3, <3>4, <3>5 DEF StillWanted
    <2> QED
      BY <1>6, <1>7, <1>8, <2>1, <2>2, <2>3, <2>4, <2>6 DEF IInv
  <1> QED
    BY <1>1, <1>9, <1>10

\* A push that reads the end of the file, or meets a reset (poller.cc:64).
LEMMA PushNothingKeeps ==
  ASSUME IInv, PushNothing
  PROVE  IInv'
  <1> DEFINE s == Actions[turn].side
  <1>1. /\ relay = "serving" /\ turn \in revents
        /\ Actions[turn].direction = "In"
        /\ Len(Read(s)) = sent[s]
        /\ \/ fin[s] /\ eof' = [eof EXCEPT ![s] = TRUE] /\ Advance
           \/ ~fin[s] /\ reset[s] /\ relay' = "cut" /\ UNCHANGED <<turn, eof>>
        /\ UNCHANGED <<revents, hup, moved, rings, peers, udp>>
    BY DEF PushNothing, Serving, EndOfFile
  <1>2. s \in Sides /\ turn \in {1, 2}
    BY <1>1, FourActions DEF IInv, Typed, Sides
  <1>3. ClientRingOK' /\ ServerRingOK'
    BY <1>1, RingsStay DEF IInv, ClientRing, ServerRing, rings
  <1>4. Typed'
    <2>1. turn' \in 1..4
      BY <1>1, <1>2 DEF Advance
    <2>2. eof' \in [Sides -> BOOLEAN]
      BY <1>1 DEF IInv, Typed
    <2> QED
      BY <1>1, <2>1, <2>2 DEF IInv, Typed, peers, Bytes
  <1>5. HupIsReset'
    BY <1>1 DEF IInv, HupIsReset, peers
  <1>6. ReadToEnd'
    <2>1. \A t \in Sides : eof'[t] => eof[t] \/ (t = s /\ fin[s])
      BY <1>1, <1>2 DEF IInv, Typed
    <2> QED
      BY <1>1, <2>1 DEF IInv, ReadToEnd, Read, rings, peers
  <1>7. Unconnected' /\ DrainedAtExit' /\ WritingIsOut'
    BY <1>1, <1>2 DEF Unconnected, DrainedAtExit, WritingIsOut, Advance, peers
  <1>8. StillWanted'
    <2>1. CASE relay' = "cut"
      BY <2>1 DEF StillWanted
    <2>2. CASE Advance /\ eof' = [eof EXCEPT ![s] = TRUE]
      <3>1. \A i \in revents : i >= turn + 1 =>
              i \in 2..4 /\ i > turn /\ Interested(Actions[i])
        <4>1. \A i \in revents : i \in 1..4
          BY DEF IInv, Typed
        <4>2. \A i \in revents : i >= turn => Interested(Actions[i])
          BY <1>1 DEF IInv, StillWanted
        <4> QED
          BY <1>2, <4>1, <4>2
      <3>2. \A i \in 2..4 : i > turn /\ Interested(Actions[i]) =>
              Interested(Actions[i])'
        <4> TAKE i \in 2..4
        <4>1. i = 2 => turn = 1 \/ ~(i > turn)
          BY <1>2
        <4>2. i = 2 \/ i = 3 \/ i = 4
          OBVIOUS
        <4> QED
          BY <1>1, <2>2, <4>1, <4>2, FourActions
          DEF IInv, Typed, Sides, Interested, From, Other, rings
      <3> QED
        BY <1>1, <1>2, <2>2, <3>1, <3>2 DEF StillWanted, Advance
    <2> QED
      BY <1>1, <2>1, <2>2
  <1> QED
    BY <1>3, <1>4, <1>5, <1>6, <1>7, <1>8 DEF IInv

\* A write comes back (dns_proxy.cc:103-109): the other side's output is looked
\* at after it at most, and has a ring of its own.
LEMMA PopKeeps ==
  ASSUME IInv, PopEnds
  PROVE  /\ IInv'
         /\ \/ FromClient!P!Take /\ UNCHANGED ServerRing
            \/ FromServer!P!Take /\ UNCHANGED ClientRing
  <1>1. /\ relay = "writing" /\ turn \in {3, 4}
        /\ Advance /\ UNCHANGED <<revents, hup, eof, peers, udp>>
    BY DEF PopEnds, IInv, WritingIsOut
  <1>2. Typed'
    BY <1>1 DEF IInv, Typed, Advance, peers, Bytes
  <1>3. HupIsReset' /\ Unconnected' /\ DrainedAtExit' /\ WritingIsOut'
    BY <1>1 DEF IInv, HupIsReset, Unconnected, DrainedAtExit, WritingIsOut,
                Advance, peers
  <1>4. CASE turn = 3
    <2>1. FromClient!pop(moved) /\ UNCHANGED ServerRing
      BY <1>4, FourActions DEF PopEnds, ServerRing
    <2>2. client_read' = client_read /\ server_read' = server_read
      BY <2>1 DEF FromClient!pop, ServerRing
    <2>3. ClientRingOK' /\ FromClient!P!Take
      BY <2>1, ClientPop DEF IInv
    <2>4. ServerRingOK'
      BY <2>1, RingsStay DEF IInv
    <2>5. ReadToEnd'
      BY <1>1, <2>2 DEF IInv, ReadToEnd, Read, peers
    <2>6. StillWanted'
      <3>1. relay' = "serving" /\ turn' = 4 /\ revents' = revents
        BY <1>1, <1>4 DEF Advance
      <3>2. \A i \in revents : i >= 4 => i = 4 /\ Interested(Actions[i])
        <4>1. \A i \in revents : i \in 1..4
          BY DEF IInv, Typed
        <4>2. \A i \in revents : i >= 3 => Interested(Actions[i])
          BY <1>1, <1>4 DEF IInv, StillWanted
        <4> QED
          BY <4>1, <4>2
      <3>3. Interested(Actions[4]) => Interested(Actions[4])'
        BY <2>1, FourActions DEF Interested, From, Other, ServerRing
      <3> QED
        BY <3>1, <3>2, <3>3 DEF StillWanted
    <2> QED
      BY <1>2, <1>3, <2>1, <2>3, <2>4, <2>5, <2>6 DEF IInv
  <1>5. CASE turn = 4
    <2>1. FromServer!pop(moved) /\ UNCHANGED ClientRing
      BY <1>5, FourActions DEF PopEnds, ClientRing
    <2>2. client_read' = client_read /\ server_read' = server_read
      BY <2>1 DEF FromServer!pop, ClientRing
    <2>3. ServerRingOK' /\ FromServer!P!Take
      BY <2>1, ServerPop DEF IInv
    <2>4. ClientRingOK'
      BY <2>1, RingsStay DEF IInv
    <2>5. ReadToEnd'
      BY <1>1, <2>2 DEF IInv, ReadToEnd, Read, peers
    <2>6. StillWanted'
      BY <1>1, <1>5 DEF StillWanted, Advance
    <2> QED
      BY <1>2, <1>3, <2>1, <2>3, <2>4, <2>5, <2>6 DEF IInv
  <1> QED
    BY <1>1, <1>4, <1>5

\* Every step keeps the invariant and is, of each ring, a step of a pipe.
LEMMA StepKeeps ==
  ASSUME IInv, [Next]_vars
  PROVE  /\ IInv'
         /\ [FromClient!P!Next]_<<client_read, server_written>>
         /\ [FromServer!P!Next]_<<server_read, client_written>>
  <1>1. CASE UNCHANGED rings /\ IInv'
    BY <1>1 DEF rings
  <1>2. CASE Push
    BY <1>2, PushKeeps DEF FromClient!P!Next, FromServer!P!Next, ClientRing,
                           ServerRing
  <1>3. CASE PopEnds
    BY <1>3, PopKeeps DEF FromClient!P!Next, FromServer!P!Next, ClientRing,
                          ServerRing
  <1>4. CASE PushNothing
    BY <1>1, <1>4, PushNothingKeeps DEF PushNothing
  <1>5. CASE Connect \/ Poll \/ Hangup \/ NotReady \/ PopBegins \/ WriteMoves
               \/ WriteFails
    BY <1>1, <1>5, ThreadKeeps
    DEF Connect, Poll, Hangup, NotReady, PopBegins, WriteMoves, WriteFails
  <1>6. ASSUME NEW s \in Sides,
               PeerSends(s) \/ PeerCloses(s) \/ PeerResets(s) \/ PeerReads(s)
        PROVE  UNCHANGED rings /\ IInv'
    BY <1>6, PeersKeep DEF PeerSends, PeerCloses, PeerResets, PeerReads
  <1>7. ASSUME NEW q \in Queries,
               handle_udp(q) \/ Replies(q) \/ Answer(q) \/ GiveUp(q)
        PROVE  UNCHANGED rings /\ IInv'
    BY <1>7, OthersKeep DEF handle_udp, Replies, Answer, GiveUp
  <1>8. CASE UNCHANGED vars
    BY <1>1, <1>8, OthersKeep DEF vars
  <1> QED
    BY <1>1, <1>2, <1>3, <1>4, <1>5, <1>6, <1>7, <1>8 DEF Next, handle_tcp
-----------------------------------------------------------------------------
\* The invariant of the relay holds of every behaviour.
LEMMA Invariance == Spec => []IInv
  BY InitOK, StepKeeps, PTL DEF Spec

\* For every size of the buffers: what poll asked of the queues before the
\* callbacks is still so when each callback is called, so the assertions of push
\* and pop (bytestream_queue.cc:36, 68) never fail.
THEOREM CallbacksStillWanted == Spec => []StillInterested
  <1>1. IInv => StillInterested
    BY DEF IInv, StillWanted, StillInterested
  <1> QED
    BY <1>1, Invariance, PTL

\* The relay ends by itself (poller.cc:40) only when everything each side sent
\* has been written to the other, and breaks off only for a reset or before it
\* is connected.
THEOREM Drained == Spec => []DrainedAtExit
  <1>1. IInv => DrainedAtExit
    BY DEF IInv
  <1> QED
    BY <1>1, Invariance, PTL

\* Both directions of the relay implement a bounded pipe
\* (bytestream_queue.cc, dns_proxy.cc:95-109): no byte is lost, doubled or put
\* out of order on its way, whatever the two sides do and when.
THEOREM RelayImplementsPipes == Spec => RelayIsPipe
  <1>1. Init => FromClient!P!Init /\ FromServer!P!Init
    BY DEF Init, FromClient!Init, FromServer!Init, FromClient!P!Init,
           FromServer!P!Init
  <1> QED
    BY <1>1, StepKeeps, Invariance, PTL
    DEF Spec, RelayIsPipe, FromClient!IsPipe, FromServer!IsPipe,
        FromClient!P!Spec, FromServer!P!Spec

=============================================================================
