-------------------------- MODULE LinkQueue_proofs --------------------------
(***************************************************************************)
(* Proofs about LinkQueue, for every trace, every queue and traffic, and   *)
(* every movement of the clock: the assertions of rationalize hold, the    *)
(* loop ends with nothing left to write, packets leave in order and none   *)
(* that was accepted is lost but by the queue's own choice, what leaves    *)
(* keeps to the trace and uses all of it, and CoDel leaves one packet.     *)
(***************************************************************************)
EXTENDS LinkQueue, SequenceTheorems, FiniteSetTheorems, TLAPS

\* Induction over the fold that size_bytes is.
Bytes == INSTANCE FoldFacts WITH Op <- AddBytes

\* A pass of CoDel's dequeue over packet x.p of the queue at time x.t: the
\* first only judges it, the others count it as dropped.
CodelPass(c, x) ==
  LET r == dodequeue(c, x.p, x.rest, x.t)
  IN  IF x.first THEN [r.c EXCEPT !.dropping = r.ok]
      ELSE DropNext(c, x.p, x.rest, x.t)

\* Induction over these passes.
Passes == INSTANCE FoldFacts WITH Op <- CodelPass

\* No packet that waits has arrived after time b.
NoneAfter(b) ==
  /\ \A i \in 1..Len(queue) : queue[i].arrival <= b
  /\ left > 0 => transit.arrival <= b

\* The packet in transit is one, with no more bytes left than it has.
TransitFits == left > 0 => transit \in Packet /\ left <= transit.size

\* What waits can use the next opportunity, and the one being used.
Timely ==
  /\ pc = "send" => NoneAfter(dtime)
  /\ pc # "send" /\ ~finished => NoneAfter(NextTime)
  /\ pc = "send" /\ ~finished => dtime <= NextTime

\* A packet just read arrives now.
ArrivesNow ==
  incoming # NoPacket =>
    /\ incoming \in Packet /\ incoming.arrival = now
    /\ pc \in {"rationalize", "send"}

\* When poll has seen the end, what is left to write is written first.
Draining ==
  "finish" \in todo =>
    /\ finished /\ pc \notin {"send", "wait"}
    /\ output = << >> \/ ("sibling" \in todo /\ pc \notin {"finish", "exited"})

\* A packet is only read when there is one.
Reading == pc = "tun" /\ "tun" \in todo => traffic # << >>

IInv ==
  /\ TypeOK
  /\ TransitFits
  /\ Timely
  /\ ArrivesNow
  /\ Reading
  /\ Draining
  /\ ExitDrained

-----------------------------------------------------------------------------
(* The data.                                                               *)

\* A trace that the constructor accepts has times, and they do not decrease.
LEMMA ScheduleFacts ==
  /\ Len(Schedule) \in Nat \ {0}
  /\ \A i \in 1..Len(Schedule) : Schedule[i] \in Nat
  /\ \A i, j \in 1..Len(Schedule) : i <= j => Schedule[i] <= Schedule[j]
BY ScheduleAssumption, LenProperties, ElementOfSeq

\* What an enqueue leaves comes from the queue and the new packet.
LEMMA EnqueueKeeps ==
  ASSUME queue \in Seq(Packet), NEW p \in Packet
  PROVE  /\ AfterEnqueue(p) \in Seq(Packet)
         /\ \A i \in 1..Len(AfterEnqueue(p)) :
              \/ AfterEnqueue(p)[i] = p
              \/ \E j \in 1..Len(queue) : AfterEnqueue(p)[i] = queue[j]
<1> DEFINE longer == Append(queue, p)
<1>1. /\ longer \in Seq(Packet) /\ longer # << >>
      /\ Len(longer) = Len(queue) + 1 /\ Len(queue) \in Nat
      /\ \A i \in 1..Len(queue) : longer[i] = queue[i]
      /\ longer[Len(queue) + 1] = p
  BY AppendProperties, LenProperties
<1>2. /\ Tail(longer) \in Seq(Packet)
      /\ Len(Tail(longer)) = Len(longer) - 1
      /\ \A i \in 1..Len(Tail(longer)) : Tail(longer)[i] = longer[i + 1]
  BY <1>1, HeadTailProperties
<1>3. \A i \in 1..Len(longer) :
        longer[i] = p \/ \E j \in 1..Len(queue) : longer[i] = queue[j]
  BY <1>1
<1>4. \A i \in 1..Len(Tail(longer)) :
        \/ Tail(longer)[i] = p
        \/ \E j \in 1..Len(queue) : Tail(longer)[i] = queue[j]
  BY <1>1, <1>2, <1>3
<1>5. AfterEnqueue(p) \in {longer, Tail(longer), queue}
  BY DEF AfterEnqueue
<1> HIDE DEF longer
<1>6. CASE AfterEnqueue(p) = longer
  BY <1>1, <1>3, <1>6
<1>7. CASE AfterEnqueue(p) = Tail(longer)
  BY <1>2, <1>4, <1>7
<1>8. CASE AfterEnqueue(p) = queue
  BY <1>8
<1>9. QED
  BY <1>5, <1>6, <1>7, <1>8

\* So does what a dequeue leaves.
LEMMA DequeueKeeps ==
  ASSUME queue \in Seq(Packet), NEW k \in 1..Len(queue)
  PROVE  LET rest == SubSeq(queue, k + 1, Len(queue))
         IN  /\ rest \in Seq(Packet)
             /\ \A i \in 1..Len(rest) :
                  \E j \in 1..Len(queue) : rest[i] = queue[j]
<1> DEFINE n == Len(queue)
           rest == SubSeq(queue, k + 1, n)
<1>1. n \in Nat /\ \A i \in 1..n : queue[i] \in Packet
  BY LenProperties, ElementOfSeq
<1>2. \A i \in (k + 1)..n : queue[i] \in Packet
  BY <1>1
<1>3. /\ rest \in Seq(Packet)
      /\ Len(rest) = IF k + 1 <= n THEN n - (k + 1) + 1 ELSE 0
      /\ \A i \in 1..(n - (k + 1) + 1) : rest[i] = queue[(k + 1) + i - 1]
  <2>1. k + 1 \in Int /\ n \in Int
    BY <1>1
  <2> HIDE DEF n
  <2>2. QED
    BY <1>2, <2>1, SubSeqProperties
<1>4. \A i \in 1..Len(rest) :
        i \in 1..(n - (k + 1) + 1) /\ (k + 1) + i - 1 \in 1..n
  BY <1>1, <1>3
<1>5. QED
  BY <1>3, <1>4
-----------------------------------------------------------------------------
(* The steps.                                                              *)

\* A link starts with nothing queued, in transit or read.
LEMMA InitIInv == Init => IInv
<1> SUFFICES ASSUME Init PROVE IInv
  OBVIOUS
<1>1. PICK l \in Links : discipline = l.discipline /\ traffic = l.traffic
  BY DEF Init
<1>2. discipline \in Discipline /\ traffic \in Seq(1..PacketSize)
  BY <1>1, LinkAssumption
<1>3. repeat \in BOOLEAN
  BY LinkAssumption DEF Init
<1>4. /\ << >> \in Seq(Packet) /\ << >> \in Seq(Contents) /\ Len(<< >>) = 0
      /\ << >> \in Seq(Nat)
  BY EmptySeq
<1>5. TypeOK
  <2>1. /\ next \in 1..Len(Schedule)
        /\ budget \in 0..PacketSize /\ left \in 0..PacketSize
    BY ScheduleFacts, PacketSizeAssumption DEF Init
  <2>2. todo \subseteq {"tun", "sibling", "finish"}
    BY DEF Init
  <2>3. QED
    BY <1>2, <1>3, <1>4, <2>1, <2>2 DEF Init, TypeOK
<1>6. Timely
  BY <1>4 DEF Init, Timely, NoneAfter
<1>7. QED
  BY <1>5, <1>6
  DEF Init, IInv, TransitFits, ArrivesNow, Reading, Draining, ExitDrained

\* The steps that change neither the queue nor what is being delivered.
LEMMA IdleSteps ==
  ASSUME IInv, Tick \/ OpportunityOver \/ Wait \/ Poll \/ NoPacketToRead
               \/ WritePackets \/ Finish
  PROVE  IInv'
<1> USE DEF IInv, queueVars, deliveryVars, historyVars
<1>1. CASE Tick
  <2>1. PICK t \in 0..MaxTime :
          clock' = t /\ adjusted' = (adjusted \/ t < clock)
    BY <1>1 DEF Tick
  <2>2. clock' \in Nat
    BY <2>1, LinkAssumption
  <2>3. adjusted' \in BOOLEAN
    BY <2>1
  <2>4. QED
    BY <1>1, <2>2, <2>3
    DEF Tick, TypeOK, TransitFits, Timely, NoneAfter, NextTime,
        ArrivesNow, Reading, Draining, ExitDrained
<1>2. CASE OpportunityOver
  <2>1. /\ pc = "send" /\ pc' = "rationalize"
        /\ UNCHANGED <<discipline, queue, codel, clock, traffic, repeat, now,
                       incoming, next, base, finished, dtime, budget, transit,
                       left, output, todo, arrived, written, before, adjusted>>
    BY <1>2 DEF OpportunityOver
  <2>2. (TypeOK /\ TransitFits /\ ArrivesNow /\ Reading /\ Draining /\ ExitDrained)'
    BY <2>1 DEF TypeOK, TransitFits, ArrivesNow, Reading, Draining, ExitDrained
  <2>3. ~finished => NoneAfter(NextTime)'
    <3>1. /\ NextTime \in Nat /\ dtime \in Nat /\ left \in Nat
          /\ \A i \in 1..Len(queue) : queue[i].arrival \in Nat
          /\ left > 0 => transit.arrival \in Nat
      <4>1. NextTime \in Nat
        BY ScheduleFacts DEF TypeOK, NextTime
      <4>2. \A i \in 1..Len(queue) : queue[i] \in Packet
        BY ElementOfSeq DEF TypeOK
      <4>3. dtime \in Nat /\ left \in Nat /\ (left > 0 => transit \in Packet)
        BY PacketSizeAssumption DEF TypeOK, TransitFits
      <4>4. QED
        BY <4>1, <4>2, <4>3 DEF Packet
    <3>2. ~finished => dtime <= NextTime /\ NoneAfter(dtime)
      BY <2>1 DEF Timely
    <3>3. ~finished => NoneAfter(NextTime)
      BY <3>1, <3>2 DEF NoneAfter
    <3>4. QED
      BY <2>1, <3>3 DEF NoneAfter, NextTime
  <2>4. QED
    BY <2>1, <2>2, <2>3 DEF Timely
<1>3. CASE Wait
  BY <1>3
  DEF Wait, TypeOK, TransitFits, Timely, NoneAfter, NextTime,
      ArrivesNow, Reading, Draining, ExitDrained
<1>4. CASE Poll
  <2>1. /\ todo' \subseteq {"tun", "sibling", "finish"}
        /\ "finish" \in todo' <=> finished
        /\ "sibling" \in todo' <=> output # << >>
        /\ "tun" \in todo' => traffic # << >>
    BY <1>4 DEF Poll
  <2>2. /\ pc = "poll" /\ pc' = "tun" /\ now' = 0
        /\ UNCHANGED <<discipline, queue, codel, clock, traffic, repeat,
                       incoming, next, base, finished, dtime, budget, transit, left,
                       output, arrived, written, before, adjusted>>
    BY <1>4 DEF Poll
  <2>3. QED
    BY <2>1, <2>2
    DEF TypeOK, TransitFits, Timely, NoneAfter, NextTime,
        ArrivesNow, Reading, Draining, ExitDrained
<1>5. CASE NoPacketToRead
  BY <1>5
  DEF NoPacketToRead, TypeOK, TransitFits, Timely, NoneAfter, NextTime,
      ArrivesNow, Reading, Draining, ExitDrained
<1>6. CASE WritePackets
  <2>1. written' \in Seq(Contents) /\ output' \in Seq(Contents)
    <3>1. /\ written \in Seq(Contents) /\ output \in Seq(Contents)
          /\ << >> \in Seq(Contents)
      BY EmptySeq DEF TypeOK
    <3>2. written \o output \in Seq(Contents)
      BY <3>1, ConcatProperties
    <3>3. QED
      BY <1>6, <3>1, <3>2 DEF WritePackets
  <2>2. /\ pc = "sibling" /\ pc' = "finish"
        /\ "sibling" \in todo => output' = << >>
        /\ "sibling" \notin todo => output' = output
        /\ UNCHANGED <<discipline, queue, codel, clock, traffic, repeat, now,
                       incoming, next, base, finished, dtime, budget, transit,
                       left, todo, arrived, before, adjusted>>
    BY <1>6 DEF WritePackets
  <2>3. QED
    BY <2>1, <2>2
    DEF TypeOK, TransitFits, Timely, NoneAfter, NextTime,
        ArrivesNow, Reading, Draining, ExitDrained
<1>7. CASE Finish
  BY <1>7
  DEF Finish, TypeOK, TransitFits, Timely, NoneAfter, NextTime,
      ArrivesNow, Reading, Draining, ExitDrained
<1>8. QED
  BY <1>1, <1>2, <1>3, <1>4, <1>5, <1>6, <1>7

\* An opportunity is used: the next is no earlier.
LEMMA BurnStep == ASSUME IInv, Burn PROVE IInv'
<1> USE DEF IInv, queueVars, historyVars
<1>1. /\ next \in 1..Len(Schedule) /\ base \in Nat
      /\ Len(Schedule) \in Nat \ {0}
      /\ pc' = "send" /\ dtime' = NextTime /\ budget' = PacketSize /\ ~finished
      /\ repeat \in BOOLEAN
  BY ScheduleFacts DEF Burn, Due, TypeOK
<1>2. /\ next' \in 1..Len(Schedule) /\ base' \in Nat /\ finished' \in BOOLEAN
      /\ dtime' \in Nat
      /\ ~finished' => dtime' <= NextTime'
  <2>1. CASE next < Len(Schedule)
    <3>1. next' = next + 1 /\ base' = base /\ finished' = finished
      BY <2>1 DEF Burn
    <3>2. next + 1 \in 1..Len(Schedule) /\ next <= next + 1
      BY <1>1, <2>1
    <3>3. /\ Schedule[next] \in Nat /\ Schedule[next + 1] \in Nat
          /\ Schedule[next] <= Schedule[next + 1]
      BY <1>1, <3>2, ScheduleFacts
    <3>4. NextTime' = Schedule[next + 1] + base
      BY <3>1 DEF NextTime
    <3>5. dtime' = Schedule[next] + base
      BY <1>1 DEF NextTime
    <3>6. dtime' \in Nat /\ dtime' <= NextTime'
      BY <1>1, <3>3, <3>4, <3>5
    <3>7. finished' \in BOOLEAN
      BY <3>1 DEF TypeOK
    <3>8. QED
      BY <1>1, <3>1, <3>2, <3>6, <3>7
  <2>2. CASE ~(next < Len(Schedule))
    <3>1. /\ next' = 1 /\ finished' = ~repeat
          /\ base' = IF repeat THEN base + Schedule[Len(Schedule)] ELSE base
      BY <2>2 DEF Burn
    <3>2. next = Len(Schedule) /\ 1 \in 1..Len(Schedule)
      BY <1>1, <2>2
    <3>3. Schedule[1] \in Nat /\ Schedule[Len(Schedule)] \in Nat
      BY <1>1, <3>2, ScheduleFacts
    <3>4. NextTime' = Schedule[1] + base'
      BY <3>1 DEF NextTime
    <3>5. dtime' = Schedule[Len(Schedule)] + base
      BY <1>1, <3>2 DEF NextTime
    <3>6. dtime' \in Nat /\ base' \in Nat
      BY <1>1, <3>1, <3>3, <3>5
    <3>7. repeat => dtime' <= NextTime'
      BY <1>1, <3>1, <3>3, <3>4, <3>5
    <3>8. finished' \in BOOLEAN /\ next' \in 1..Len(Schedule)
      BY <1>1, <3>1, <3>2
    <3>9. QED
      BY <1>1, <3>1, <3>6, <3>7, <3>8
  <2>3. QED
    BY <2>1, <2>2
<1>3. /\ pc = "rationalize"
      /\ UNCHANGED <<discipline, queue, codel, clock, traffic, repeat, now,
                     incoming, transit, left, output, todo, arrived, written,
                     before, adjusted>>
  BY DEF Burn
<1>4. TypeOK'
  <2>1. budget' \in 0..PacketSize
    BY <1>1, PacketSizeAssumption
  <2>2. QED
    BY <1>1, <1>2, <1>3, <2>1 DEF TypeOK
<1>5. Timely'
  BY <1>1, <1>2, <1>3 DEF Timely, NoneAfter
<1>6. (TransitFits /\ ArrivesNow /\ Reading /\ Draining /\ ExitDrained)'
  BY <1>1, <1>3 DEF TransitFits, ArrivesNow, Reading, Draining, ExitDrained
<1>7. QED
  BY <1>4, <1>5, <1>6

\* What SendBytes leaves in transit and puts out.
LEMMA SendBytesKeeps ==
  ASSUME NEW p \in Packet, NEW n \in 1..PacketSize, n <= p.size,
         budget \in 1..PacketSize, output \in Seq(Contents), SendBytes(p, n)
  PROVE  /\ budget' \in 0..PacketSize /\ left' \in 0..PacketSize
         /\ output' \in Seq(Contents)
         /\ transit' \in Packet \cup {NoPacket}
         /\ left' > 0 => transit' = p /\ left' <= p.size
<1>1. PICK amount \in 1..PacketSize :
        /\ amount <= n /\ amount <= budget
        /\ transit' = IF n = amount THEN NoPacket ELSE p
        /\ left' = n - amount /\ budget' = budget - amount
        /\ output' = IF n = amount THEN Append(output, contents(p)) ELSE output
  <2>1. Least(budget, n) \in 1..PacketSize
        /\ Least(budget, n) <= n /\ Least(budget, n) <= budget
    BY PacketSizeAssumption DEF Least
  <2>2. QED
    BY <2>1 DEF SendBytes
<1>2. contents(p) \in Contents
  BY DEF contents, Contents, Packet
<1>3. output' \in Seq(Contents)
  BY <1>1, <1>2, AppendProperties
<1>4. QED
  BY <1>1, <1>3, PacketSizeAssumption DEF Packet

\* Another part of the packet in transit leaves.
LEMMA SendMoreStep == ASSUME IInv, SendMore PROVE IInv'
<1> USE DEF IInv, queueVars, historyVars
<1>1. /\ transit \in Packet /\ left \in 1..PacketSize /\ left <= transit.size
      /\ budget \in 1..PacketSize
  BY PacketSizeAssumption DEF SendMore, TypeOK, TransitFits
<1>2. /\ budget' \in 0..PacketSize /\ left' \in 0..PacketSize
      /\ output' \in Seq(Contents)
      /\ transit' \in Packet \cup {NoPacket}
      /\ left' > 0 => transit' = transit /\ left' <= transit.size
  BY <1>1, SendBytesKeeps DEF SendMore, TypeOK
<1>3. TypeOK'
  BY <1>2 DEF SendMore, TypeOK
<1>4. TransitFits' /\ Timely'
  BY <1>1, <1>2
  DEF SendMore, TransitFits, Timely, NoneAfter, NextTime
<1>5. (ArrivesNow /\ Reading /\ Draining /\ ExitDrained)'
  BY DEF SendMore, ArrivesNow, Reading, Draining, ExitDrained
<1>6. QED
  BY <1>3, <1>4, <1>5

\* A packet is taken from the queue: what it leaves was waiting before.
LEMMA SendNextStep == ASSUME IInv, SendNext PROVE IInv'
<1> USE DEF IInv, historyVars
<1>1. PICK k \in 1..Len(queue) : queue' = SubSeq(queue, k + 1, Len(queue))
  BY DEF SendNext
<1>2. /\ queue' \in Seq(Packet)
      /\ \A i \in 1..Len(queue') :
           \E j \in 1..Len(queue) : queue'[i] = queue[j]
  BY <1>1, DequeueKeeps DEF TypeOK
<1>3. /\ 1 \in 1..Len(queue) /\ queue[1] \in Packet
      /\ queue[1].size \in 1..PacketSize /\ budget \in 1..PacketSize
  <2>1. 1 \in 1..Len(queue) /\ queue[1] \in Packet
    BY <1>1, LenProperties, ElementOfSeq DEF TypeOK
  <2>2. queue[1].size \in 1..PacketSize
    BY <2>1 DEF Packet
  <2>3. budget \in 1..PacketSize
    BY PacketSizeAssumption DEF SendNext, TypeOK
  <2>4. QED
    BY <2>1, <2>2, <2>3
<1>4. /\ budget' \in 0..PacketSize /\ left' \in 0..PacketSize
      /\ output' \in Seq(Contents)
      /\ transit' \in Packet \cup {NoPacket}
      /\ left' > 0 => transit' = queue[1] /\ left' <= queue[1].size
  BY <1>3, SendBytesKeeps DEF SendNext, TypeOK
<1>5. TypeOK'
  BY <1>2, <1>4 DEF SendNext, TypeOK
<1>6. TransitFits'
  BY <1>3, <1>4 DEF TransitFits
<1>7. NoneAfter(dtime)'
  BY <1>2, <1>3, <1>4 DEF SendNext, Timely, NoneAfter
<1>8. Timely'
  BY <1>7 DEF SendNext, Timely, NextTime
<1>9. (ArrivesNow /\ Reading /\ Draining /\ ExitDrained)'
  BY DEF SendNext, ArrivesNow, Reading, Draining, ExitDrained
<1>10. QED
  BY <1>5, <1>6, <1>8, <1>9

\* What has left the link.
Out == written \o output

\* What has left, when a packet does.
LEMMA OutTypes ==
  ASSUME IInv
  PROVE  /\ Out \in Seq(Contents) /\ written \in Seq(Contents)
         /\ output \in Seq(Contents)
         /\ Len(Out) \in Nat /\ Len(queue) \in Nat /\ queue \in Seq(Packet)
         /\ \A x \in Contents : x.id \in Nat
         /\ \A x \in Packet : x.id \in Nat
         /\ \A i \in 1..Len(queue) : queue[i] \in Packet
         /\ \A i \in 1..Len(Out) : Out[i] \in Contents
         /\ left \in Nat /\ arrived \in Nat
         /\ left > 0 => transit \in Packet
<1>1. /\ written \in Seq(Contents) /\ output \in Seq(Contents)
      /\ queue \in Seq(Packet) /\ left \in 0..PacketSize /\ arrived \in Nat
      /\ left > 0 => transit \in Packet
  BY DEF IInv, TypeOK, TransitFits
<1>2. Out \in Seq(Contents)
  BY <1>1, ConcatProperties DEF Out
<1>3. /\ \A i \in 1..Len(queue) : queue[i] \in Packet
      /\ \A i \in 1..Len(Out) : Out[i] \in Contents
      /\ Len(Out) \in Nat /\ Len(queue) \in Nat
  BY <1>1, <1>2, ElementOfSeq, LenProperties
<1>4. /\ \A x \in Contents : x.id \in Nat
      /\ \A x \in Packet : x.id \in Nat
  BY DEF Contents, Packet
<1>5. left \in Nat
  BY <1>1, PacketSizeAssumption
<1> QED BY <1>1, <1>2, <1>3, <1>4, <1>5

\* Sizes add up to a natural.
LEMMA SizeType == ASSUME NEW s \in Seq(Contents) PROVE size_bytes(s) \in Nat
<1> DEFINE n == Len(s)
           Good == Nat \X Nat
<1>1. n \in Nat /\ DOMAIN s = 1..n
  BY LenProperties
<1>2. <<0, 0>> \in Good
  OBVIOUS
<1>3. ASSUME NEW i \in 1..n, NEW st, <<i - 1, st>> \in Good
      PROVE  <<i, AddBytes(st, s[i])>> \in Good
  <2>1. s[i] \in Contents
    BY ElementOfSeq
  <2>2. s[i].size \in Nat /\ st \in Nat /\ i \in Nat
    <3>1. s[i].size \in 1..PacketSize
      BY <2>1 DEF Contents
    <3> QED BY <1>1, <1>3, <3>1, PacketSizeAssumption
  <2> QED BY <2>2 DEF AddBytes
<1> HIDE DEF Good, n
<1>4. <<n, Bytes!Fold(0, s)>> \in Good
  BY <1>1, <1>2, <1>3, Bytes!FoldLeftInduction
<1>5. size_bytes(s) = Bytes!Fold(0, s)
  BY DEF size_bytes, Bytes!Fold, FoldLeft, MapThenFoldSet, Bytes!FoldLeft,
         Bytes!MapThenFoldSet, Max, Bytes!Max
<1> QED BY <1>4, <1>5 DEF Good

\* The bytes sent are a number: a packet has at least those that are left.
LEMMA BytesType == IInv => BytesSent \in Nat
<1> SUFFICES ASSUME IInv PROVE BytesSent \in Nat
  OBVIOUS
<1>1. size_bytes(Out) \in Nat
  BY OutTypes, SizeType
<1>2. left > 0 => transit.size - left \in Nat
  <2> SUFFICES ASSUME left > 0 PROVE transit.size - left \in Nat
    OBVIOUS
  <2> DEFINE z == transit.size
  <2>1. z \in 1..PacketSize /\ left \in 0..PacketSize /\ left <= z
    BY DEF IInv, TypeOK, TransitFits, Packet
  <2> HIDE DEF z
  <2>2. z - left \in Nat
    BY <2>1, PacketSizeAssumption
  <2> QED BY <2>2 DEF z
<1> QED BY <1>1, <1>2 DEF BytesSent, Out

\* rationalize has caught up with now: the next opportunity is later, so a
\* packet that arrives now can use it.
LEMMA RationalizedStep == ASSUME IInv, Rationalized PROVE IInv'
<1> USE DEF IInv, deliveryVars, historyVars
<1>1. /\ pc = "rationalize" /\ ~Due /\ incoming' = NoPacket
      /\ UNCHANGED <<discipline, codel, clock, traffic, repeat, next, base,
                     finished, dtime, budget, transit, left, output, todo,
                     arrived, written, adjusted>>
  BY DEF Rationalized
<1>2. /\ NextTime \in Nat /\ now \in Nat /\ NextTime' = NextTime
      /\ ~finished => NextTime > now
  <2>1. NextTime \in Nat
    BY ScheduleFacts DEF TypeOK, NextTime
  <2>2. NextTime' = NextTime
    BY <1>1 DEF NextTime
  <2>3. QED
    BY <1>1, <2>1, <2>2 DEF Due, TypeOK
<1>3. CASE incoming = NoPacket
  <2>1. pc' = "poll" /\ queue' = queue /\ now' = now /\ before' = before
    BY <1>3 DEF Rationalized
  <2>2. TypeOK'
    BY <1>1, <2>1 DEF TypeOK
  <2>3. Timely'
    BY <1>1, <1>2, <2>1 DEF Timely, NoneAfter
  <2>4. (TransitFits /\ ArrivesNow /\ Reading /\ Draining /\ ExitDrained)'
    BY <1>1, <2>1 DEF TransitFits, ArrivesNow, Reading, Draining, ExitDrained
  <2>5. QED
    BY <2>2, <2>3, <2>4
<1>4. CASE incoming # NoPacket
  <2>1. /\ queue' = AfterEnqueue(incoming) /\ now' = 0
        /\ pc' \in {"sibling", "aborted"}
    BY <1>4 DEF Rationalized
  <2>2. incoming \in Packet /\ incoming.arrival = now
    BY <1>4 DEF ArrivesNow
  <2>3. /\ queue' \in Seq(Packet)
        /\ \A i \in 1..Len(queue') :
             \/ queue'[i] = incoming
             \/ \E j \in 1..Len(queue) : queue'[i] = queue[j]
    <3>1. queue \in Seq(Packet)
      BY DEF TypeOK
    <3>2. QED
      BY <2>1, <2>2, <3>1, EnqueueKeeps
  <2>4. TypeOK'
    <3>1. before' = Append(before, BytesSent) /\ BytesSent \in Nat
      BY <1>4, BytesType DEF Rationalized
    <3>2. before' \in Seq(Nat)
      BY <3>1, AppendProperties DEF TypeOK
    <3>3. QED
      BY <1>1, <2>1, <2>3, <3>2 DEF TypeOK
  <2>5. ~finished => NoneAfter(NextTime)'
    <3>1. ~finished => NoneAfter(NextTime) /\ incoming.arrival <= NextTime
      BY <1>1, <1>2, <2>2 DEF Timely
    <3>2. QED
      BY <1>1, <1>2, <2>3, <3>1 DEF NoneAfter
  <2>6. Timely'
    BY <1>1, <2>1, <2>5 DEF Timely
  <2>7. (TransitFits /\ ArrivesNow /\ Reading /\ Draining /\ ExitDrained)'
    BY <1>1, <2>1 DEF TransitFits, ArrivesNow, Reading, Draining, ExitDrained
  <2>8. QED
    BY <2>4, <2>6, <2>7
<1>5. QED
  BY <1>3, <1>4

\* A packet that is read arrives at the time of the clock, which an
\* opportunity still to come cannot be before.
LEMMA ReadPacketStep == ASSUME IInv, ReadPacket PROVE IInv'
<1> USE DEF IInv, queueVars, deliveryVars
<1>1. /\ pc = "tun" /\ "tun" \in todo /\ pc' = "rationalize"
      /\ arrived' = arrived + 1 /\ now' = clock
      /\ traffic' = Tail(traffic)
      /\ incoming' =
           [id |-> arrived + 1, size |-> Head(traffic), arrival |-> clock]
      /\ UNCHANGED <<discipline, queue, codel, clock, repeat, next, base,
                     finished, dtime, budget, transit, left, output, todo,
                     written, before, adjusted>>
  BY DEF ReadPacket
<1>2. Tail(traffic) \in Seq(1..PacketSize) /\ Head(traffic) \in 1..PacketSize
  <2>1. traffic \in Seq(1..PacketSize) /\ traffic # << >>
    BY <1>1 DEF TypeOK, Reading
  <2>2. QED
    BY <2>1, HeadTailProperties
<1>3. clock \in Nat /\ arrived + 1 \in Nat \ {0}
  BY DEF TypeOK
<1>4. incoming' \in Packet /\ incoming'.arrival = clock
  BY <1>1, <1>2, <1>3 DEF Packet
<1>5. TypeOK'
  BY <1>1, <1>2, <1>3, <1>4 DEF TypeOK
<1>6. Timely'
  BY <1>1 DEF Timely, NoneAfter, NextTime
<1>7. (TransitFits /\ ArrivesNow /\ Reading /\ Draining /\ ExitDrained)'
  BY <1>1, <1>4 DEF TransitFits, ArrivesNow, Reading, Draining, ExitDrained
<1>8. QED
  BY <1>5, <1>6, <1>7

\* No step of the ferry's loop breaks the invariant.
LEMMA NextIInv == IInv /\ [Next]_vars => IInv'
<1> SUFFICES ASSUME IInv, [Next]_vars PROVE IInv'
  OBVIOUS
<1>1. CASE Tick \/ OpportunityOver \/ Wait \/ Poll \/ NoPacketToRead
           \/ WritePackets \/ Finish
  BY <1>1, IdleSteps
<1>2. CASE Burn
  BY <1>2, BurnStep
<1>3. CASE SendMore
  BY <1>3, SendMoreStep
<1>4. CASE SendNext
  BY <1>4, SendNextStep
<1>5. CASE Rationalized
  BY <1>5, RationalizedStep
<1>6. CASE ReadPacket
  BY <1>6, ReadPacketStep
<1>7. CASE UNCHANGED vars
  <2>1. UNCHANGED <<discipline, queue, codel, clock, pc, traffic, repeat, now,
                    incoming, next, base, finished, dtime, budget, transit,
                    left, output, todo, arrived, written, before, adjusted>>
    BY <1>7 DEF vars, queueVars, deliveryVars, historyVars
  <2>2. TypeOK' /\ Timely'
    BY <2>1 DEF IInv, TypeOK, Timely, NoneAfter, NextTime
  <2>3. (TransitFits /\ ArrivesNow /\ Reading /\ Draining /\ ExitDrained)'
    BY <2>1
    DEF IInv, TransitFits, ArrivesNow, Reading, Draining, ExitDrained
  <2>4. QED
    BY <2>2, <2>3 DEF IInv
<1>8. QED
  BY <1>1, <1>2, <1>3, <1>4, <1>5, <1>6, <1>7 DEF Next

\* The invariant holds in every state of the link.
LEMMA InvariantHolds == Spec => []IInv
BY InitIInv, NextIInv, PTL DEF Spec
-----------------------------------------------------------------------------
(* The theorems.                                                           *)

\* The link's state stays of its types, for every trace and traffic.
THEOREM TypeCorrect == Spec => []TypeOK
<1>1. IInv => TypeOK
  BY DEF IInv
<1>2. QED
  BY <1>1, InvariantHolds, PTL

\* link_queue.cc:210-213: none of the four assertions of rationalize fails,
\* for every trace, every queue, every traffic, and a clock that is set back
\* at any time.
THEOREM SendsNoneBeforeArrival == Spec => []AssertionsHold
<1>1. IInv => AssertionsHold
  <2> SUFFICES ASSUME IInv, pc = "send" PROVE AssertionsHold
    BY DEF AssertionsHold
  <2> USE DEF IInv
  <2>1. NoneAfter(dtime) /\ left \in 0..PacketSize
    BY DEF Timely, TypeOK
  <2>2. left > 0 => Sendable(transit, left)
    <3>1. left > 0 => left <= transit.size /\ transit.arrival <= dtime
      BY <2>1 DEF TransitFits, NoneAfter
    <3>2. left <= PacketSize
      BY <2>1, PacketSizeAssumption
    <3>3. QED
      BY <3>1, <3>2 DEF Sendable
  <2>3. queue # << >> => Sendable(queue[1], queue[1].size)
    <3> SUFFICES ASSUME queue # << >> PROVE Sendable(queue[1], queue[1].size)
      OBVIOUS
    <3>1. 1 \in 1..Len(queue) /\ queue[1] \in Packet
      BY EmptySeq, LenProperties, ElementOfSeq DEF TypeOK
    <3>2. queue[1].size \in 1..PacketSize /\ queue[1].arrival <= dtime
      BY <2>1, <3>1 DEF Packet, NoneAfter
    <3>3. QED
      BY <3>2, PacketSizeAssumption DEF Sendable
  <2>4. QED
    BY <2>2, <2>3 DEF AssertionsHold
<1>2. QED
  BY <1>1, InvariantHolds, PTL

\* link_queue.cc:183-185 with packetshell.cc:168-195: with --once the loop ends
\* only after the last opportunity of the trace, and with every packet that
\* left the link written.
THEOREM EndsDrained == Spec => []ExitDrained
<1>1. IInv => ExitDrained
  BY DEF IInv
<1>2. QED
  BY <1>1, InvariantHolds, PTL
-----------------------------------------------------------------------------
(* The order of the packets.                                               *)

\* The numbers of the packets of s: increasing, below n, above n.
Sorted(s) == \A i, j \in 1..Len(s) : i < j => s[i].id < s[j].id
Below(s, n) == \A i \in 1..Len(s) : s[i].id < n
Above(s, n) == \A i \in 1..Len(s) : n < s[i].id

\* The number of the first packet that the queue has not been offered.
Fresh == IF incoming = NoPacket THEN arrived + 1 ELSE arrived

\* What has left is older than what is in transit, that than what is queued,
\* and that than what may come.
OrderInv ==
  /\ Sorted(Out) /\ Sorted(queue)
  /\ \A i \in 1..Len(queue) : Below(Out, queue[i].id)
  /\ left > 0 => Below(Out, transit.id) /\ Above(queue, transit.id)
  /\ Below(Out, Fresh) /\ Below(queue, Fresh)
  /\ left > 0 => transit.id < Fresh
  /\ incoming # NoPacket => incoming.id = arrived

\* An element appended to the second of two sequences is appended to both.
LEMMA ConcatAppend ==
  ASSUME NEW S, NEW s \in Seq(S), NEW t \in Seq(S), NEW x \in S
  PROVE  s \o Append(t, x) = Append(s \o t, x)
<1>1. /\ Append(t, x) = t \o <<x>> /\ <<x>> \in Seq(S)
  BY AppendIsConcat
<1>2. s \o t \in Seq(S)
  BY ConcatProperties
<1>3. Append(s \o t, x) = (s \o t) \o <<x>>
  BY <1>2, AppendIsConcat
<1>4. (s \o t) \o <<x>> = s \o (t \o <<x>>)
  BY <1>1, ConcatAssociative
<1> QED BY <1>1, <1>3, <1>4

\* Appending a packet with a larger number.
LEMMA AppendSorted ==
  ASSUME NEW S, NEW s \in Seq(S), NEW x \in S, \A y \in S : y.id \in Nat,
         Sorted(s), Below(s, x.id)
  PROVE  /\ Sorted(Append(s, x))
         /\ \A n \in Nat : Below(s, n) /\ x.id < n => Below(Append(s, x), n)
<1> DEFINE z == Append(s, x)
           k == Len(s)
<1>1. /\ k \in Nat /\ Len(z) = k + 1
      /\ \A i \in 1..k : z[i] = s[i]
      /\ z[k + 1] = x
  BY AppendProperties, LenProperties
<1>2. \A i \in 1..k : s[i].id \in Nat /\ s[i].id < x.id
  BY ElementOfSeq DEF Below
<1>3. \A i, j \in 1..k : i < j => s[i].id < s[j].id
  BY DEF Sorted
<1> HIDE DEF z, k
<1>4. ASSUME NEW i \in 1..Len(z), NEW j \in 1..Len(z), i < j
      PROVE  z[i].id < z[j].id
  <2>1. i \in 1..k
    BY <1>1, <1>4
  <2>2. CASE j \in 1..k
    BY <1>1, <1>3, <1>4, <2>1, <2>2
  <2>3. CASE j = k + 1
    BY <1>1, <1>2, <2>1, <2>3
  <2> QED BY <1>1, <2>2, <2>3
<1>5. ASSUME NEW n \in Nat, Below(s, n), x.id < n, NEW i \in 1..Len(z)
      PROVE  z[i].id < n
  <2>1. CASE i \in 1..k
    BY <1>1, <1>5, <2>1 DEF Below, k
  <2>2. CASE i = k + 1
    BY <1>1, <1>5, <2>2
  <2> QED BY <1>1, <2>1, <2>2
<1>6. Sorted(z)
  BY <1>4 DEF Sorted
<1>7. \A n \in Nat : Below(s, n) /\ x.id < n => Below(z, n)
  BY <1>5 DEF Below
<1> QED BY <1>6, <1>7 DEF z

\* A packet that is sent to its end has left; another is in transit.
LEMMA OutAfterSend ==
  ASSUME IInv, NEW p \in Packet, NEW n \in 1..PacketSize,
         budget \in 1..PacketSize, SendBytes(p, n), written' = written
  PROVE  \/ left' = 0 /\ Out' = Append(Out, contents(p))
         \/ left' > 0 /\ transit' = p /\ Out' = Out
<1>1. PICK amount \in 1..PacketSize :
        /\ amount <= n
        /\ transit' = IF n = amount THEN NoPacket ELSE p
        /\ left' = n - amount
        /\ output' = IF n = amount THEN Append(output, contents(p)) ELSE output
  <2>1. Least(budget, n) \in 1..PacketSize /\ Least(budget, n) <= n
    BY PacketSizeAssumption DEF Least
  <2>2. QED
    BY <2>1 DEF SendBytes
<1>2. contents(p) \in Contents
  BY DEF contents, Contents, Packet
<1>3. CASE n = amount
  <2>1. left' = 0 /\ output' = Append(output, contents(p))
    BY <1>1, <1>3, PacketSizeAssumption
  <2>2. written \o Append(output, contents(p)) = Append(Out, contents(p))
    <3>1. written \in Seq(Contents) /\ output \in Seq(Contents)
      BY OutTypes
    <3> QED BY <1>2, <3>1, ConcatAppend DEF Out
  <2>3. Out' = written \o Append(output, contents(p))
    BY <2>1 DEF Out
  <2> QED BY <2>1, <2>2, <2>3
<1>4. CASE n # amount
  BY <1>1, <1>4, PacketSizeAssumption DEF Out
<1> QED BY <1>3, <1>4

\* Sending a packet newer than what has left and older than what is queued.
LEMMA SentInOrder ==
  ASSUME IInv, OrderInv, NEW p \in Packet, NEW n \in 1..PacketSize,
         budget \in 1..PacketSize, SendBytes(p, n),
         UNCHANGED <<written, incoming, arrived>>,
         queue' \in Seq(Packet), Sorted(queue'), Above(queue', p.id),
         Below(queue', Fresh), \A i \in 1..Len(queue') : Below(Out, queue'[i].id),
         Below(Out, p.id), p.id < Fresh
  PROVE  OrderInv'
<1>1. /\ Out \in Seq(Contents) /\ contents(p) \in Contents
      /\ contents(p).id = p.id /\ p.id \in Nat /\ arrived \in Nat
      /\ \A x \in Contents : x.id \in Nat
      /\ \A i \in 1..Len(queue') : queue'[i].id \in Nat
  <2>1. contents(p) \in Contents /\ contents(p).id = p.id /\ p.id \in Nat
    BY DEF contents, Contents, Packet
  <2>2. \A i \in 1..Len(queue') : queue'[i] \in Packet
    BY ElementOfSeq
  <2>3. \A i \in 1..Len(queue') : queue'[i].id \in Nat
    BY <2>2 DEF Packet
  <2> QED BY <2>1, <2>3, OutTypes
<1>2. Fresh' = Fresh /\ Fresh \in Nat
  BY <1>1 DEF Fresh
<1>3. /\ incoming' # NoPacket => incoming'.id = arrived'
      /\ Sorted(Out) /\ Below(Out, Fresh)
  BY DEF OrderInv
<1>4. CASE left' = 0 /\ Out' = Append(Out, contents(p))
  <2>1. Sorted(Out')
    BY <1>1, <1>3, <1>4, AppendSorted
  <2>2. Below(Out', Fresh)
    BY <1>1, <1>2, <1>3, <1>4, AppendSorted
  <2>3. \A i \in 1..Len(queue') : Below(Out', queue'[i].id)
    BY <1>1, <1>3, <1>4, AppendSorted DEF Above
  <2>4. ~(left' > 0)
    BY <1>4
  <2> QED BY <1>2, <1>3, <2>1, <2>2, <2>3, <2>4 DEF OrderInv, Sorted, Below
<1>5. CASE left' > 0 /\ transit' = p /\ Out' = Out
  BY <1>2, <1>3, <1>5 DEF OrderInv, Sorted, Below, Above
<1> QED BY <1>4, <1>5, OutAfterSend

\* The number of what is dequeued, and of what is left.
LEMMA DequeueInOrder ==
  ASSUME IInv, OrderInv, NEW k \in 1..Len(queue),
         queue' = SubSeq(queue, k + 1, Len(queue))
  PROVE  /\ queue' \in Seq(Packet) /\ Sorted(queue')
         /\ Above(queue', queue[1].id) /\ Below(queue', Fresh)
         /\ \A i \in 1..Len(queue') : Below(Out, queue'[i].id)
         /\ Below(Out, queue[1].id) /\ queue[1].id < Fresh
<1> DEFINE n == Len(queue)
<1>1. n \in Nat /\ \A i \in 1..n : queue[i] \in Packet
  BY OutTypes
<1>2. \A i \in (k + 1)..n : queue[i] \in Packet
  BY <1>1
<1>3. /\ queue' \in Seq(Packet)
      /\ Len(queue') = IF k + 1 <= n THEN n - (k + 1) + 1 ELSE 0
      /\ \A i \in 1..(n - (k + 1) + 1) : queue'[i] = queue[(k + 1) + i - 1]
  <2>1. k + 1 \in Int /\ n \in Int /\ queue' = SubSeq(queue, k + 1, n)
    BY <1>1
  <2> HIDE DEF n
  <2>2. QED
    BY <1>2, <2>1, SubSeqProperties
<1>4. /\ \A i \in 1..Len(queue') : k + i \in 1..n /\ queue'[i] = queue[k + i]
      /\ 1 \in 1..n /\ \A i \in 1..Len(queue') : 1 < k + i
  <2>1. \A i \in 1..Len(queue') :
          i \in 1..(n - (k + 1) + 1) /\ (k + 1) + i - 1 = k + i
    BY <1>1, <1>3
  <2> QED BY <1>1, <1>3, <2>1
<1>5. /\ \A i, j \in 1..n : i < j => queue[i].id < queue[j].id
      /\ \A i \in 1..n : queue[i].id < Fresh /\ Below(Out, queue[i].id)
  BY DEF OrderInv, Sorted, Below
<1>6. Len(queue') \in Nat
  BY <1>3, LenProperties
<1> HIDE DEF n
<1>7. Sorted(queue')
  <2> SUFFICES ASSUME NEW i \in 1..Len(queue'), NEW j \in 1..Len(queue'),
                      i < j
               PROVE  queue'[i].id < queue'[j].id
    BY DEF Sorted
  <2>1. k + i < k + j
    BY <1>6
  <2> QED BY <1>4, <1>5, <2>1
<1>8. Above(queue', queue[1].id) /\ Below(queue', Fresh)
  BY <1>4, <1>5 DEF Above, Below
<1>9. /\ \A i \in 1..Len(queue') : Below(Out, queue'[i].id)
      /\ Below(Out, queue[1].id) /\ queue[1].id < Fresh
  BY <1>4, <1>5
<1> QED BY <1>3, <1>7, <1>8, <1>9

\* The new packet has the largest number; dropping keeps the order.
LEMMA EnqueueInOrder ==
  ASSUME IInv, OrderInv, incoming # NoPacket, incoming \in Packet
  PROVE  LET q == AfterEnqueue(incoming)
         IN  /\ Sorted(q) /\ Below(q, arrived + 1)
             /\ \A i \in 1..Len(q) :
                  \/ q[i] = incoming
                  \/ \E j \in 1..Len(queue) : q[i] = queue[j]
<1> DEFINE longer == Append(queue, incoming)
           q == AfterEnqueue(incoming)
<1>1. /\ queue \in Seq(Packet) /\ \A x \in Packet : x.id \in Nat
      /\ arrived \in Nat
  BY OutTypes
<1>2. Sorted(queue) /\ Below(queue, arrived) /\ incoming.id = arrived
  BY DEF OrderInv, Fresh
<1>3. Below(queue, incoming.id) /\ Below(queue, arrived + 1)
  <2>1. \A i \in 1..Len(queue) : queue[i].id \in Nat
    BY OutTypes
  <2> QED BY <1>1, <1>2, <2>1 DEF Below
<1>4. Sorted(longer) /\ Below(longer, arrived + 1)
  <2>1. arrived + 1 \in Nat /\ incoming.id < arrived + 1
    BY <1>1, <1>2
  <2> QED BY <1>1, <1>2, <1>3, <2>1, AppendSorted
<1>5. /\ longer \in Seq(Packet) /\ longer # << >> /\ Len(longer) \in Nat
  BY <1>1, AppendProperties, LenProperties
<1> HIDE DEF longer
<1>6. /\ Len(Tail(longer)) = Len(longer) - 1
      /\ \A i \in 1..Len(Tail(longer)) : Tail(longer)[i] = longer[i + 1]
  BY <1>5, HeadTailProperties
<1>7. Sorted(Tail(longer)) /\ Below(Tail(longer), arrived + 1)
  <2>1. \A i \in 1..Len(Tail(longer)) : i + 1 \in 1..Len(longer)
    BY <1>5, <1>6
  <2>2. \A i, j \in 1..Len(Tail(longer)) : i < j => i + 1 < j + 1
    BY <1>5, <1>6
  <2>3. Sorted(Tail(longer))
    BY <1>4, <1>6, <2>1, <2>2 DEF Sorted
  <2>4. Below(Tail(longer), arrived + 1)
    BY <1>4, <1>6, <2>1 DEF Below
  <2> QED BY <2>3, <2>4
<1>8. AfterEnqueue(incoming) \in {longer, Tail(longer), queue}
  BY DEF AfterEnqueue, longer
<1>9. Sorted(q) /\ Below(q, arrived + 1)
  BY <1>2, <1>3, <1>4, <1>7, <1>8
<1>10. \A i \in 1..Len(q) :
         \/ q[i] = incoming
         \/ \E j \in 1..Len(queue) : q[i] = queue[j]
  BY <1>1, EnqueueKeeps
<1> QED BY <1>9, <1>10

\* Writing moves packets within what has left.
LEMMA WriteKeepsOut == ASSUME IInv, WritePackets PROVE Out' = Out
<1>1. CASE "sibling" \in todo
  <2>1. written' = written \o output /\ output' = << >>
    BY <1>1 DEF WritePackets
  <2>2. (written \o output) \o << >> = written \o output
    BY OutTypes, ConcatEmptySeq DEF Out
  <2> QED BY <2>1, <2>2 DEF Out
<1>2. CASE "sibling" \notin todo
  BY <1>2 DEF WritePackets, Out
<1> QED BY <1>1, <1>2

\* Packets leave in the order in which they arrived.
LEMMA InitOrder == Init => OrderInv
<1> SUFFICES ASSUME Init PROVE OrderInv
  OBVIOUS
<1>1. /\ queue = << >> /\ written = << >> /\ output = << >> /\ left = 0
      /\ incoming = NoPacket
  BY DEF Init
<1>2. Len(<< >>) = 0 /\ << >> \o << >> = << >>
  BY EmptySeq, ConcatEmptySeq
<1>3. Out = << >>
  BY <1>1, <1>2 DEF Out
<1> QED BY <1>1, <1>2, <1>3 DEF OrderInv, Sorted, Below, Above

\* No step of the ferry's loop brings packets out of order.
LEMMA NextOrder == IInv /\ OrderInv /\ [Next]_vars => OrderInv'
<1> SUFFICES ASSUME IInv, OrderInv, [Next]_vars PROVE OrderInv'
  OBVIOUS
<1>1. ASSUME UNCHANGED <<queue, incoming, left, transit, arrived, Out>>
      PROVE  OrderInv'
  BY <1>1 DEF OrderInv, Sorted, Below, Above, Fresh
<1>2. CASE Tick \/ OpportunityOver \/ Wait \/ Poll \/ NoPacketToRead \/ Finish
           \/ Burn \/ UNCHANGED vars
  <2>1. UNCHANGED <<queue, incoming, left, transit, arrived, written, output>>
    BY <1>2 DEF Tick, OpportunityOver, Wait, Poll, NoPacketToRead, Finish,
                Burn, vars, queueVars, deliveryVars, historyVars
  <2> QED BY <1>1, <2>1 DEF Out
<1>3. CASE WritePackets
  <2>1. UNCHANGED <<queue, incoming, left, transit, arrived>>
    BY <1>3 DEF WritePackets, queueVars, deliveryVars
  <2>2. Out' = Out
    BY <1>3, WriteKeepsOut
  <2> QED BY <1>1, <2>1, <2>2
<1>4. CASE SendMore
  <2>1. /\ transit \in Packet /\ left \in 1..PacketSize
        /\ budget \in 1..PacketSize /\ left > 0
    BY <1>4, PacketSizeAssumption DEF SendMore, IInv, TypeOK, TransitFits
  <2>2. /\ SendBytes(transit, left) /\ UNCHANGED <<written, incoming, arrived>>
        /\ queue' = queue /\ queue \in Seq(Packet)
    BY <1>4, OutTypes DEF SendMore, queueVars, historyVars
  <2>3. /\ Sorted(queue') /\ Above(queue', transit.id) /\ Below(queue', Fresh)
        /\ \A i \in 1..Len(queue') : Below(Out, queue'[i].id)
        /\ Below(Out, transit.id) /\ transit.id < Fresh
    BY <2>1, <2>2 DEF OrderInv
  <2> QED BY <2>1, <2>2, <2>3, SentInOrder
<1>5. CASE SendNext
  <2>1. PICK k \in 1..Len(queue) : queue' = SubSeq(queue, k + 1, Len(queue))
    BY <1>5 DEF SendNext
  <2>2. /\ queue[1] \in Packet /\ queue[1].size \in 1..PacketSize
        /\ budget \in 1..PacketSize
    <3>1. 1 \in 1..Len(queue)
      BY <2>1, OutTypes
    <3>2. queue[1] \in Packet
      BY <3>1, OutTypes
    <3>3. queue[1].size \in 1..PacketSize
      BY <3>2 DEF Packet
    <3>4. budget \in 1..PacketSize
      BY <1>5, PacketSizeAssumption DEF SendNext, IInv, TypeOK
    <3> QED BY <3>2, <3>3, <3>4
  <2>3. /\ SendBytes(queue[1], queue[1].size)
        /\ UNCHANGED <<written, incoming, arrived>>
    BY <1>5 DEF SendNext, historyVars
  <2> QED BY <2>1, <2>2, <2>3, DequeueInOrder, SentInOrder
<1>6. CASE Rationalized
  <2>1. UNCHANGED <<left, transit, arrived, written, output>>
    BY <1>6 DEF Rationalized, deliveryVars, historyVars
  <2>2. Out' = Out
    BY <2>1 DEF Out
  <2>3. CASE incoming = NoPacket
    <3>1. queue' = queue /\ incoming' = incoming
      BY <1>6, <2>3 DEF Rationalized
    <3> QED BY <1>1, <2>1, <2>2, <3>1
  <2>4. CASE incoming # NoPacket
    <3>1. queue' = AfterEnqueue(incoming) /\ incoming' = NoPacket
      BY <1>6, <2>4 DEF Rationalized
    <3>2. incoming \in Packet /\ incoming.id = arrived
      BY <2>4 DEF IInv, ArrivesNow, OrderInv
    <3>3. /\ Sorted(queue') /\ Below(queue', arrived + 1)
          /\ \A i \in 1..Len(queue') :
               \/ queue'[i] = incoming
               \/ \E j \in 1..Len(queue) : queue'[i] = queue[j]
      BY <2>4, <3>1, <3>2, EnqueueInOrder
    <3>4. /\ Sorted(Out) /\ Below(Out, arrived)
          /\ \A i \in 1..Len(queue) : Below(Out, queue[i].id)
          /\ left > 0 => /\ Below(Out, transit.id) /\ Above(queue, transit.id)
                         /\ transit.id < arrived
      BY <2>4 DEF OrderInv, Fresh
    <3>5. \A i \in 1..Len(queue') : Below(Out, queue'[i].id)
      BY <3>2, <3>3, <3>4
    <3>6. left > 0 => Above(queue', transit.id)
      BY <3>2, <3>3, <3>4 DEF Above
    <3>7. Below(Out, arrived + 1) /\ (left > 0 => transit.id < arrived + 1)
      <4>1. /\ \A i \in 1..Len(Out) : Out[i].id \in Nat
            /\ left > 0 => transit.id \in Nat
            /\ arrived \in Nat
        BY OutTypes
      <4> QED BY <3>4, <4>1 DEF Below
    <3>8. Fresh' = arrived + 1
      BY <2>1, <3>1 DEF Fresh
    <3> QED BY <2>1, <2>2, <3>1, <3>3, <3>4, <3>5, <3>6, <3>7, <3>8
            DEF OrderInv
  <2> QED BY <2>3, <2>4
<1>7. CASE ReadPacket
  <2>1. /\ UNCHANGED <<queue, left, transit, written, output>>
        /\ arrived' = arrived + 1
        /\ incoming' =
             [id |-> arrived + 1, size |-> Head(traffic), arrival |-> clock]
    BY <1>7 DEF ReadPacket, queueVars, deliveryVars
  <2>2. arrived + 1 # 0 /\ incoming = NoPacket
    <3>1. pc = "tun" /\ arrived \in Nat
      BY <1>7, OutTypes DEF ReadPacket
    <3> QED BY <3>1 DEF IInv, ArrivesNow
  <2>3. incoming' # NoPacket /\ incoming'.id = arrived'
    BY <2>1, <2>2 DEF NoPacket
  <2>4. Fresh' = Fresh
    BY <2>1, <2>2, <2>3 DEF Fresh
  <2>5. Out' = Out
    BY <2>1 DEF Out
  <2> QED BY <2>1, <2>3, <2>4, <2>5 DEF OrderInv, Sorted, Below, Above
<1> QED BY <1>2, <1>3, <1>4, <1>5, <1>6, <1>7 DEF Next

\* What left, what waits and what was read are in order in every state.
LEMMA OrderHolds == Spec => [](IInv /\ OrderInv)
<1>1. Init => IInv /\ OrderInv
  BY InitIInv, InitOrder
<1>2. IInv /\ OrderInv /\ [Next]_vars => (IInv /\ OrderInv)'
  BY NextIInv, NextOrder
<1> QED BY <1>1, <1>2, PTL DEF Spec

\* What waits: the packet in transit, then the queue.
LEMMA WaitingParts ==
  ASSUME IInv
  PROVE  /\ Waiting \in Seq(Packet)
         /\ left = 0 => Waiting = queue
         /\ left > 0 =>
              /\ Len(Waiting) = Len(queue) + 1 /\ Waiting[1] = transit
              /\ \A i \in 2..(Len(queue) + 1) : Waiting[i] = queue[i - 1]
<1>1. /\ queue \in Seq(Packet) /\ left \in Nat /\ Len(queue) \in Nat
      /\ left > 0 => transit \in Packet
  BY OutTypes
<1>2. CASE left = 0
  BY <1>1, <1>2 DEF Waiting
<1>3. CASE left > 0
  <2> DEFINE one == <<transit>>
  <2>1. one \in Seq(Packet) /\ Len(one) = 1 /\ one[1] = transit
    BY <1>1, <1>3
  <2>2. Waiting = one \o queue
    BY <1>3 DEF Waiting
  <2> HIDE DEF one
  <2>3. /\ one \o queue \in Seq(Packet)
        /\ Len(one \o queue) = 1 + Len(queue)
        /\ \A i \in 1..(1 + Len(queue)) : (one \o queue)[i] =
             IF i <= 1 THEN one[i] ELSE queue[i - 1]
    <3>1. /\ one \o queue \in Seq(Packet)
          /\ Len(one \o queue) = Len(one) + Len(queue)
          /\ \A i \in 1..(Len(one) + Len(queue)) : (one \o queue)[i] =
               IF i <= Len(one) THEN one[i] ELSE queue[i - Len(one)]
      BY <1>1, <2>1, ConcatProperties
    <3> QED BY <2>1, <3>1
  <2>4. /\ (one \o queue)[1] = transit
        /\ \A i \in 2..(Len(queue) + 1) : (one \o queue)[i] = queue[i - 1]
    BY <1>1, <2>1, <2>3
  <2> QED BY <1>1, <1>3, <2>2, <2>3, <2>4
<1> QED BY <1>1, <1>2, <1>3

\* The packets on their way: those that have left, then those that wait.
LEMMA PipelineParts ==
  ASSUME IInv
  PROVE  /\ Len(Pipeline) = Len(Out) + Len(Waiting)
         /\ Len(Out) \in Nat /\ Len(Waiting) \in Nat
         /\ DOMAIN Pipeline = 1..Len(Pipeline)
         /\ \A i \in 1..Len(Out) : Pipeline[i] = Out[i]
         /\ \A i \in 1..Len(Waiting) :
              Pipeline[Len(Out) + i] = contents(Waiting[i])
<1> DEFINE m == [i \in DOMAIN Waiting |-> contents(Waiting[i])]
           w == Len(Waiting)
<1>1. /\ Out \in Seq(Contents) /\ Len(Out) \in Nat
      /\ Waiting \in Seq(Packet) /\ w \in Nat /\ DOMAIN Waiting = 1..w
      /\ \A i \in 1..w : Waiting[i] \in Packet
  BY OutTypes, WaitingParts, LenProperties, ElementOfSeq
<1>2. \A i \in 1..w : contents(Waiting[i]) \in Contents
  BY <1>1 DEF contents, Contents, Packet
<1>3. m \in Seq(Contents) /\ Len(m) = w
  <2>1. m \in [1..w -> Contents]
    BY <1>1, <1>2
  <2> QED BY <1>1, <2>1, SeqDef, LenProperties
<1>4. \A i \in 1..w : m[i] = contents(Waiting[i])
  BY <1>1
<1>5. Pipeline = Out \o m
  BY DEF Pipeline, Out
<1> HIDE DEF m, w
<1>6. /\ Out \o m \in Seq(Contents) /\ Len(Out \o m) = Len(Out) + w
      /\ \A i \in 1..(Len(Out) + w) : (Out \o m)[i] =
           IF i <= Len(Out) THEN Out[i] ELSE m[i - Len(Out)]
  BY <1>1, <1>3, ConcatProperties
<1>7. \A i \in 1..Len(Out) : (Out \o m)[i] = Out[i]
  BY <1>1, <1>6
<1>8. \A i \in 1..w : (Out \o m)[Len(Out) + i] = m[i]
  <2>1. \A i \in 1..w : /\ Len(Out) + i \in 1..(Len(Out) + w)
                        /\ ~(Len(Out) + i <= Len(Out))
                        /\ Len(Out) + i - Len(Out) = i
    BY <1>1
  <2> QED BY <1>6, <2>1
<1>9. DOMAIN (Out \o m) = 1..Len(Out \o m)
  BY <1>6, LenProperties
<1> QED BY <1>1, <1>4, <1>5, <1>6, <1>7, <1>8, <1>9 DEF w

\* link_queue.cc:171-230: for every queue, trace and traffic, packets leave in
\* the order in which they arrived and none leaves twice, whatever the queue
\* drops and however many opportunities a packet takes.
THEOREM LeavesInOrder == Spec => []InOrder
<1>1. IInv /\ OrderInv => InOrder
  <2> SUFFICES ASSUME IInv, OrderInv,
                      NEW i \in DOMAIN Pipeline, NEW j \in DOMAIN Pipeline,
                      i < j
               PROVE  Pipeline[i].id < Pipeline[j].id
    BY DEF InOrder
  <2> DEFINE n == Len(Out)
             w == Len(Waiting)
  <2>1. /\ n \in Nat /\ w \in Nat /\ DOMAIN Pipeline = 1..(n + w)
        /\ \A k \in 1..n : Pipeline[k] = Out[k]
        /\ \A k \in 1..w : Pipeline[n + k] = contents(Waiting[k])
    BY PipelineParts
  <2>2. Sorted(Waiting) /\ \A k \in 1..w : Below(Out, Waiting[k].id)
    <3>1. left \in Nat /\ Len(queue) \in Nat
      BY OutTypes
    <3>2. CASE left = 0
      BY <3>2, WaitingParts DEF OrderInv
    <3>3. CASE left > 0
      <4>1. /\ w = Len(queue) + 1 /\ Waiting[1] = transit
            /\ \A k \in 2..(Len(queue) + 1) : Waiting[k] = queue[k - 1]
        BY <3>3, WaitingParts
      <4>2. /\ Sorted(queue) /\ Above(queue, transit.id)
            /\ Below(Out, transit.id)
            /\ \A k \in 1..Len(queue) : Below(Out, queue[k].id)
        BY <3>3 DEF OrderInv
      <4> HIDE DEF w
      <4>3. \A k \in 1..w : k = 1 \/ (k \in 2..w /\ k - 1 \in 1..Len(queue))
        BY <3>1, <4>1
      <4>4. \A k \in 1..w : Below(Out, Waiting[k].id)
        BY <4>1, <4>2, <4>3
      <4>5. ASSUME NEW k \in 1..w, NEW l \in 1..w, k < l
            PROVE  Waiting[k].id < Waiting[l].id
        <5>1. l \in 2..w /\ l - 1 \in 1..Len(queue) /\ Waiting[l] = queue[l - 1]
          BY <3>1, <4>1, <4>3, <4>5
        <5>2. CASE k = 1
          BY <4>1, <4>2, <5>1, <5>2 DEF Above
        <5>3. CASE k # 1
          <6>1. /\ k - 1 \in 1..Len(queue) /\ Waiting[k] = queue[k - 1]
                /\ k - 1 < l - 1
            BY <3>1, <4>1, <4>3, <4>5, <5>3
          <6> QED BY <4>2, <5>1, <6>1 DEF Sorted
        <5> QED BY <5>2, <5>3
      <4> QED BY <4>4, <4>5 DEF Sorted, w
    <3> QED BY <3>1, <3>2, <3>3
  <2>3. Sorted(Out)
    BY DEF OrderInv
  <2>4. \A k \in 1..w : contents(Waiting[k]).id = Waiting[k].id
    BY DEF contents
  <2> HIDE DEF n, w
  <2>5. CASE i \in 1..n /\ j \in 1..n
    BY <2>1, <2>3, <2>5 DEF Sorted, n
  <2>6. CASE i \in 1..n /\ ~(j \in 1..n)
    <3>1. j - n \in 1..w /\ n + (j - n) = j
      BY <2>1, <2>6
    <3>2. Pipeline[j].id = Waiting[j - n].id
      BY <2>1, <2>4, <3>1
    <3> QED BY <2>1, <2>2, <2>6, <3>1, <3>2 DEF Below, n
  <2>7. CASE ~(i \in 1..n)
    <3>1. /\ i - n \in 1..w /\ n + (i - n) = i
          /\ j - n \in 1..w /\ n + (j - n) = j
          /\ i - n < j - n
      BY <2>1, <2>7
    <3>2. /\ Pipeline[i].id = Waiting[i - n].id
          /\ Pipeline[j].id = Waiting[j - n].id
      BY <2>1, <2>4, <3>1
    <3> QED BY <2>2, <3>1, <3>2 DEF Sorted, w
  <2> QED BY <2>5, <2>6, <2>7
<1> QED BY <1>1, OrderHolds, PTL
-----------------------------------------------------------------------------
(* What is on its way.                                                     *)

\* The contents of what has left, is in transit, or is queued.
OnTheWay ==
  {Out[i] : i \in 1..Len(Out)}
    \cup (IF left > 0 THEN {contents(transit)} ELSE {})
    \cup {contents(queue[i]) : i \in 1..Len(queue)}

\* The packets on the way are those that have left, the one in transit and
\* those in the queue.
LEMMA PipelineSet == IInv => ToSet(Pipeline) = OnTheWay
<1> SUFFICES ASSUME IInv PROVE ToSet(Pipeline) = OnTheWay
  OBVIOUS
<1> DEFINE n == Len(Out)
           w == Len(Waiting)
<1>1. /\ n \in Nat /\ w \in Nat /\ DOMAIN Pipeline = 1..(n + w)
      /\ \A k \in 1..n : Pipeline[k] = Out[k]
      /\ \A k \in 1..w : Pipeline[n + k] = contents(Waiting[k])
  BY PipelineParts
<1>2. left \in Nat /\ Len(queue) \in Nat
  BY OutTypes
<1> HIDE DEF n, w
<1>3. ToSet(Pipeline) = {Pipeline[i] : i \in 1..n}
                          \cup {Pipeline[n + i] : i \in 1..w}
  <2>1. \A i \in 1..(n + w) :
          i \in 1..n \/ (i - n \in 1..w /\ i = n + (i - n))
    BY <1>1
  <2>2. /\ \A i \in 1..n : i \in 1..(n + w)
        /\ \A i \in 1..w : n + i \in 1..(n + w)
    BY <1>1
  <2>3. ToSet(Pipeline) = {Pipeline[i] : i \in 1..(n + w)}
    BY <1>1 DEF ToSet
  <2> QED BY <2>1, <2>2, <2>3
<1>4. {Pipeline[i] : i \in 1..n} = {Out[i] : i \in 1..n}
  BY <1>1
<1>5. {Pipeline[n + i] : i \in 1..w} = {contents(Waiting[i]) : i \in 1..w}
  BY <1>1
<1> DEFINE W == {contents(Waiting[i]) : i \in 1..w}
           T == IF left > 0 THEN {contents(transit)} ELSE {}
           Q == {contents(queue[i]) : i \in 1..Len(queue)}
<1>6. W = T \cup Q
  <2>0. left = 0 \/ left > 0
    BY <1>2
  <2>1. CASE left = 0
    <3>1. Waiting = queue /\ T = {}
      BY <2>1, WaitingParts
    <3> QED BY <3>1 DEF w
  <2>2. CASE left > 0
    <3>1. /\ w = Len(queue) + 1 /\ Waiting[1] = transit
          /\ \A k \in 2..(Len(queue) + 1) : Waiting[k] = queue[k - 1]
      BY <2>2, WaitingParts DEF w
    <3>2. /\ 1 \in 1..w
          /\ \A k \in 1..w : k = 1 \/ (k \in 2..w /\ k - 1 \in 1..Len(queue))
          /\ \A k \in 1..Len(queue) : k + 1 \in 2..w /\ k + 1 \in 1..w
                                      /\ k + 1 - 1 = k
      BY <1>2, <3>1
    <3>3. \A k \in 1..w : \/ Waiting[k] = transit
                          \/ \E i \in 1..Len(queue) : Waiting[k] = queue[i]
      BY <3>1, <3>2
    <3>4. \A i \in 1..Len(queue) : \E k \in 1..w : Waiting[k] = queue[i]
      <4> SUFFICES ASSUME NEW i \in 1..Len(queue)
                   PROVE  \E k \in 1..w : Waiting[k] = queue[i]
        OBVIOUS
      <4>1. i + 1 \in 1..w /\ Waiting[i + 1] = queue[i]
        BY <3>1, <3>2
      <4> QED BY <4>1
    <3>5. T = {contents(transit)}
      BY <2>2
    <3> HIDE DEF T
    <3>6. W \subseteq T \cup Q
      BY <3>3, <3>5
    <3>7. Q \subseteq W
      BY <3>4
    <3>8. T \subseteq W
      BY <3>1, <3>2, <3>5
    <3> QED BY <3>6, <3>7, <3>8
  <2> QED BY <2>0, <2>1, <2>2
<1> HIDE DEF W, T, Q
<1>7. ToSet(Pipeline) = {Out[i] : i \in 1..n} \cup W
  BY <1>3, <1>4, <1>5 DEF W
<1>8. OnTheWay = {Out[i] : i \in 1..n} \cup T \cup Q
  BY DEF OnTheWay, n, T, Q
<1> QED BY <1>6, <1>7, <1>8

\* Sending a packet keeps what has left, and the packet.
LEMMA SentStays ==
  ASSUME IInv, NEW p \in Packet, NEW n \in 1..PacketSize,
         budget \in 1..PacketSize, SendBytes(p, n), written' = written
  PROVE  /\ {Out[i] : i \in 1..Len(Out)} \subseteq OnTheWay'
         /\ contents(p) \in OnTheWay'
<1>1. /\ Out \in Seq(Contents) /\ Len(Out) \in Nat
      /\ contents(p) \in Contents
  BY OutTypes DEF contents, Contents, Packet
<1>2. CASE left' = 0 /\ Out' = Append(Out, contents(p))
  <2>1. /\ Len(Out') = Len(Out) + 1
        /\ \A i \in 1..Len(Out) : Out'[i] = Out[i]
        /\ Out'[Len(Out) + 1] = contents(p)
    BY <1>1, <1>2, AppendProperties
  <2>2. /\ Len(Out) + 1 \in 1..(Len(Out) + 1)
        /\ \A i \in 1..Len(Out) : i \in 1..(Len(Out) + 1)
    BY <1>1
  <2> QED BY <2>1, <2>2 DEF OnTheWay
<1>3. CASE left' > 0 /\ transit' = p /\ Out' = Out
  <2>1. contents(p) \in OnTheWay'
    BY <1>3 DEF OnTheWay, contents
  <2> QED BY <1>3, <2>1 DEF OnTheWay
<1> QED BY <1>2, <1>3, OutAfterSend

\* No step but an enqueue, and with CoDel a dequeue, loses a packet.
LEMMA StepKeeps ==
  ASSUME IInv, [Next]_vars, discipline.kind # "codel",
         ~(Rationalized /\ incoming # NoPacket)
  PROVE  OnTheWay \subseteq OnTheWay'
<1>1. CASE UNCHANGED <<queue, left, transit, Out>>
  BY <1>1 DEF OnTheWay, contents
<1>2. CASE Tick \/ OpportunityOver \/ Wait \/ Poll \/ NoPacketToRead \/ Finish
           \/ Burn \/ ReadPacket \/ UNCHANGED vars
  <2>1. UNCHANGED <<queue, left, transit, written, output>>
    BY <1>2 DEF Tick, OpportunityOver, Wait, Poll, NoPacketToRead, Finish,
                Burn, ReadPacket, vars, queueVars, deliveryVars, historyVars
  <2> QED BY <1>1, <2>1 DEF Out
<1>3. CASE WritePackets
  <2>1. UNCHANGED <<queue, left, transit>>
    BY <1>3 DEF WritePackets, queueVars, deliveryVars
  <2>2. Out' = Out
    BY <1>3, WriteKeepsOut
  <2> QED BY <1>1, <2>1, <2>2
<1>4. CASE SendMore
  <2>1. /\ transit \in Packet /\ left \in 1..PacketSize
        /\ budget \in 1..PacketSize /\ left > 0
    BY <1>4, PacketSizeAssumption DEF SendMore, IInv, TypeOK, TransitFits
  <2>2. /\ SendBytes(transit, left) /\ UNCHANGED <<written, queue>>
    BY <1>4 DEF SendMore, queueVars, historyVars
  <2>3. /\ {Out[i] : i \in 1..Len(Out)} \subseteq OnTheWay'
        /\ contents(transit) \in OnTheWay'
    BY <2>1, <2>2, SentStays
  <2>4. {contents(queue[i]) : i \in 1..Len(queue)} \subseteq OnTheWay'
    BY <2>2 DEF OnTheWay, contents
  <2> QED BY <2>3, <2>4 DEF OnTheWay
<1>5. CASE SendNext
  <2>1. /\ queue' = SubSeq(queue, 2, Len(queue)) /\ left = 0
        /\ SendBytes(queue[1], queue[1].size) /\ UNCHANGED written
        /\ 1 \in 1..Len(queue)
    <3>1. PICK k \in 1..Len(queue) :
            Takes(k, clock) /\ queue' = SubSeq(queue, k + 1, Len(queue))
      BY <1>5 DEF SendNext
    <3>2. k = 1
      BY <3>1 DEF Takes
    <3> QED BY <1>5, <3>1, <3>2 DEF SendNext, historyVars
  <2>2. /\ queue[1] \in Packet /\ queue[1].size \in 1..PacketSize
        /\ budget \in 1..PacketSize
    <3>1. queue[1] \in Packet
      BY <2>1, OutTypes
    <3>2. queue[1].size \in 1..PacketSize
      BY <3>1 DEF Packet
    <3>3. budget \in 1..PacketSize
      BY <1>5, PacketSizeAssumption DEF SendNext, IInv, TypeOK
    <3> QED BY <3>1, <3>2, <3>3
  <2>3. /\ {Out[i] : i \in 1..Len(Out)} \subseteq OnTheWay'
        /\ contents(queue[1]) \in OnTheWay'
    BY <2>1, <2>2, SentStays
  <2>4. \A i \in 2..Len(queue) : /\ i - 1 \in 1..Len(queue')
                                 /\ queue'[i - 1] = queue[i]
    <3> DEFINE n == Len(queue)
    <3>1. n \in Nat /\ \A i \in 2..n : queue[i] \in Packet
      BY OutTypes
    <3> HIDE DEF n
    <3>2. queue' = SubSeq(queue, 2, n)
      BY <2>1 DEF n
    <3>3. /\ Len(queue') = IF 2 <= n THEN n - 2 + 1 ELSE 0
          /\ \A i \in 1..(n - 2 + 1) : queue'[i] = queue[2 + i - 1]
      BY <3>1, <3>2, SubSeqProperties
    <3>4. ASSUME NEW i \in 2..n
          PROVE  i - 1 \in 1..Len(queue') /\ queue'[i - 1] = queue[i]
      <4>1. i - 1 \in 1..(n - 2 + 1) /\ 2 + (i - 1) - 1 = i
        BY <3>1
      <4>2. i - 1 \in 1..Len(queue')
        BY <3>1, <3>3
      <4> QED BY <3>3, <4>1, <4>2
    <3> QED BY <3>4 DEF n
  <2>5. \A i \in 1..Len(queue) : contents(queue[i]) \in OnTheWay'
    <3> SUFFICES ASSUME NEW i \in 1..Len(queue), i # 1
                 PROVE  contents(queue[i]) \in OnTheWay'
      BY <2>3
    <3>1. i \in 2..Len(queue)
      BY OutTypes
    <3>2. contents(queue'[i - 1]) \in OnTheWay'
      BY <2>4, <3>1 DEF OnTheWay, contents
    <3> QED BY <2>4, <3>1, <3>2
  <2>6. ~(left > 0)
    BY <2>1
  <2> QED BY <2>3, <2>5, <2>6 DEF OnTheWay
<1>6. CASE Rationalized
  <2>1. UNCHANGED <<queue, left, transit, written, output>>
    BY <1>6 DEF Rationalized, deliveryVars, historyVars
  <2> QED BY <1>1, <2>1 DEF Out
<1> QED BY <1>2, <1>3, <1>4, <1>5, <1>6 DEF Next

\* The bytes of no packet, and of one packet more.
LEMMA SizeSteps ==
  /\ size_bytes(<< >>) = 0
  /\ \A S, s, x : s \in Seq(S) /\ x \in S =>
       size_bytes(Append(s, x)) = size_bytes(s) + x.size
<1>0. ASSUME NEW s PROVE size_bytes(s) = Bytes!Fold(0, s)
  BY DEF size_bytes, Bytes!Fold, FoldLeft, MapThenFoldSet, Bytes!FoldLeft,
         Bytes!MapThenFoldSet, Max, Bytes!Max
<1>1. size_bytes(<< >>) = 0
  <2>1. 0 \in Nat /\ DOMAIN << >> = 1..0
    OBVIOUS
  <2>2. \E acc : acc[0] = 0 /\ Bytes!Fold(0, << >>) = acc[0]
    BY <2>1, Bytes!FoldLeftSteps
  <2> QED BY <1>0, <2>2
<1>2. ASSUME NEW S, NEW s \in Seq(S), NEW x \in S
      PROVE  size_bytes(Append(s, x)) = size_bytes(s) + x.size
  <2> DEFINE n == Len(s)
             z == Append(s, x)
  <2>1. /\ n \in Nat /\ DOMAIN s = 1..n
        /\ z \in Seq(S) /\ Len(z) = n + 1
        /\ \A i \in 1..n : z[i] = s[i]
        /\ z[n + 1] = x
    BY AppendProperties, LenProperties
  <2>2. DOMAIN z = 1..(n + 1)
    BY <2>1, LenProperties
  <2> HIDE DEF n, z
  <2>3. Bytes!Fold(0, z) = AddBytes(Bytes!Fold(0, s), z[n + 1])
    BY <2>1, <2>2, Bytes!FoldLeftAppend
  <2> QED BY <1>0, <2>1, <2>3 DEF AddBytes, z
<1> QED BY <1>1, <1>2

\* link_queue.cc:201-230 over infinite_packet_queue.hh and
\* drop_tail_packet_queue.hh: a packet one of these queues has accepted stays
\* on its way, for every trace and traffic.
THEOREM LosesNoneAccepted == Spec => KeepsAccepted
<1>1. IInv /\ IInv' /\ [Next]_vars =>
        [discipline.kind \in {"infinite", "droptail"} =>
           ToSet(Pipeline) \subseteq ToSet(Pipeline')]_vars
  <2> SUFFICES ASSUME IInv, IInv', [Next]_vars,
                      discipline.kind \in {"infinite", "droptail"}
               PROVE  ToSet(Pipeline) \subseteq ToSet(Pipeline')
    OBVIOUS
  <2>1. ToSet(Pipeline) = OnTheWay
    BY PipelineSet
  <2>2. (IInv => ToSet(Pipeline) = OnTheWay)'
    BY PipelineSet, PTL
  <2>3. ToSet(Pipeline)' = OnTheWay'
    BY <2>2
  <2>4. ToSet(Pipeline') = ToSet(Pipeline)'
    BY DEF ToSet
  <2>5. CASE ~(Rationalized /\ incoming # NoPacket)
    BY <2>1, <2>3, <2>4, <2>5, StepKeeps
  <2>6. CASE Rationalized /\ incoming # NoPacket
    <3>1. /\ UNCHANGED <<left, transit, written, output>>
          /\ queue' = AfterEnqueue(incoming)
      BY <2>6 DEF Rationalized, deliveryVars, historyVars
    <3>2. queue' \in {Append(queue, incoming), queue}
      BY <3>1 DEF AfterEnqueue
    <3>3. \A i \in 1..Len(queue) : i \in 1..Len(queue') /\ queue'[i] = queue[i]
      <4>1. incoming \in Packet /\ queue \in Seq(Packet) /\ Len(queue) \in Nat
        BY <2>6, OutTypes DEF IInv, ArrivesNow
      <4> QED BY <3>2, <4>1, AppendProperties
    <3>4. {contents(queue[i]) : i \in 1..Len(queue)} \subseteq OnTheWay'
      BY <3>3 DEF OnTheWay, contents
    <3>5. Out' = Out
      BY <3>1 DEF Out
    <3>6. OnTheWay \subseteq OnTheWay'
      BY <3>1, <3>4, <3>5 DEF OnTheWay, contents
    <3> QED BY <2>1, <2>3, <2>4, <3>6
  <2> QED BY <2>5, <2>6
<1>2. Spec => [][IInv /\ IInv' /\ [Next]_vars]_vars
  BY InvariantHolds, PTL DEF Spec
<1> QED BY <1>1, <1>2, InvariantHolds, PTL DEF Spec, KeepsAccepted

\* A drop head queue limited in bytes has room for one packet of any size.
\* (Otherwise it drops the only packet it has, the new one.)
RoomForOne(d) ==
  d.kind = "drophead" => d.bytes = 0 \/ d.bytes >= PacketSize

\* Then an enqueue keeps the new packet.
LEMMA EnqueueTakesNewest ==
  ASSUME IInv, NEW p \in Packet, RoomForOne(discipline),
         discipline.kind \in {"infinite", "drophead"}
  PROVE  \E i \in 1..Len(AfterEnqueue(p)) : AfterEnqueue(p)[i] = p
<1> DEFINE longer == Append(queue, p)
           n == Len(queue)
<1>1. queue \in Seq(Packet) /\ n \in Nat
  BY OutTypes
<1>2. /\ longer \in Seq(Packet) /\ Len(longer) = n + 1 /\ longer[n + 1] = p
      /\ longer # << >>
  BY <1>1, AppendProperties
<1>3. CASE AfterEnqueue(p) = longer
  <2>1. n + 1 \in 1..Len(longer)
    BY <1>1, <1>2
  <2> QED BY <1>2, <1>3, <2>1
<1>4. CASE AfterEnqueue(p) # longer
  <2>1. ~good(longer) /\ discipline.kind = "drophead"
        /\ AfterEnqueue(p) = Tail(longer)
    BY <1>4 DEF AfterEnqueue
  <2>2. n # 0
    <3> SUFFICES ASSUME n = 0 PROVE FALSE
      OBVIOUS
    <3>1. queue = << >>
      BY <1>1, EmptySeq
    <3>2. size_bytes(longer) = 0 + p.size /\ p.size \in 1..PacketSize
      <4>1. size_bytes(longer) = size_bytes(queue) + p.size
        BY <1>1, SizeSteps
      <4>2. size_bytes(queue) = 0
        BY <3>1, SizeSteps
      <4> QED BY <4>1, <4>2 DEF Packet
    <3>3. discipline.bytes \in Nat /\ discipline.packets \in Nat
      BY DEF IInv, TypeOK, Discipline
    <3>4. discipline.bytes = 0 \/ discipline.bytes >= PacketSize
      BY <2>1 DEF RoomForOne
    <3> HIDE DEF longer, n
    <3>5. discipline.bytes # 0 => size_bytes(longer) <= discipline.bytes
      <4> DEFINE b == discipline.bytes
                 x == p.size
      <4>1. b \in Nat /\ x \in 1..PacketSize /\ (b = 0 \/ b >= PacketSize)
            /\ size_bytes(longer) = 0 + x
        BY <3>2, <3>3, <3>4
      <4> HIDE DEF b, x
      <4>2. b # 0 => size_bytes(longer) <= b
        BY <4>1, PacketSizeAssumption
      <4> QED BY <4>2 DEF b
    <3>6. discipline.packets # 0 => Len(longer) <= discipline.packets
      <4> DEFINE k == discipline.packets
      <4>1. k \in Nat /\ Len(longer) = 1
        BY <1>2, <3>3
      <4> HIDE DEF k
      <4>2. k # 0 => Len(longer) <= k
        BY <4>1
      <4> QED BY <4>2 DEF k
    <3> QED BY <2>1, <3>5, <3>6 DEF good
  <2> HIDE DEF longer
  <2>3. /\ Len(Tail(longer)) = n
        /\ \A i \in 1..Len(Tail(longer)) : Tail(longer)[i] = longer[i + 1]
    <3>1. /\ Len(Tail(longer)) = Len(longer) - 1
          /\ \A i \in 1..Len(Tail(longer)) : Tail(longer)[i] = longer[i + 1]
      BY <1>2, HeadTailProperties
    <3> QED BY <1>1, <1>2, <3>1
  <2>4. n \in 1..Len(Tail(longer)) /\ Tail(longer)[n] = p
    BY <1>1, <1>2, <2>2, <2>3
  <2> QED BY <2>1, <2>4
<1> QED BY <1>3, <1>4

\* The newest packet stays on its way until the next arrives.
LEMMA NextNewest ==
  IInv /\ IInv' /\ OrderInv /\ RoomForOne(discipline) /\ NewestKept
    /\ [Next]_vars
  => NewestKept' /\ RoomForOne(discipline')
<1> SUFFICES ASSUME IInv, IInv', OrderInv, RoomForOne(discipline), NewestKept,
                    [Next]_vars
             PROVE  NewestKept' /\ RoomForOne(discipline')
  OBVIOUS
<1>1. discipline' = discipline
  BY DEF Next, Tick, OpportunityOver, Wait, Poll, NoPacketToRead, Finish,
         Burn, ReadPacket, WritePackets, SendMore, SendNext, Rationalized,
         vars, queueVars
<1>2. ToSet(Pipeline) = OnTheWay /\ (ToSet(Pipeline))' = OnTheWay'
  <2>1. (IInv => ToSet(Pipeline) = OnTheWay)'
    BY PipelineSet, PTL
  <2> QED BY <2>1, PipelineSet
<1>3. SUFFICES ASSUME discipline.kind \in {"infinite", "drophead"},
                      incoming' = NoPacket, arrived' > 0
               PROVE  \E p \in OnTheWay' : p.id = arrived'
  BY <1>1, <1>2 DEF NewestKept
<1>4. CASE Rationalized /\ incoming # NoPacket
  <2>1. /\ incoming \in Packet /\ incoming.id = arrived
        /\ queue' = AfterEnqueue(incoming) /\ arrived' = arrived
    BY <1>4 DEF IInv, ArrivesNow, OrderInv, Rationalized, historyVars
  <2>2. PICK i \in 1..Len(queue') : queue'[i] = incoming
    BY <1>3, <2>1, EnqueueTakesNewest
  <2>3. contents(incoming) \in OnTheWay'
    BY <2>2 DEF OnTheWay, contents
  <2>4. contents(incoming).id = arrived'
    BY <2>1 DEF contents
  <2> QED BY <2>3, <2>4
<1>5. CASE ~(Rationalized /\ incoming # NoPacket)
  <2>1. OnTheWay \subseteq OnTheWay'
    BY <1>3, <1>5, StepKeeps
  <2>2. incoming = NoPacket /\ arrived' = arrived
    <3>1. CASE ReadPacket
      <4>1. /\ arrived \in Nat
            /\ incoming' =
                 [id |-> arrived + 1, size |-> Head(traffic), arrival |-> clock]
        BY <3>1, OutTypes DEF ReadPacket
      <4>2. arrived + 1 # 0
        BY <4>1
      <4> QED BY <1>3, <4>1, <4>2 DEF NoPacket
    <3>2. CASE Rationalized
      BY <1>5, <3>2 DEF Rationalized, historyVars
    <3>3. CASE UNCHANGED vars
      BY <1>3, <3>3 DEF vars, historyVars
    <3>4. CASE Tick \/ OpportunityOver \/ Wait \/ Poll \/ NoPacketToRead
               \/ Finish \/ Burn \/ WritePackets \/ SendMore \/ SendNext
      BY <1>3, <3>4
      DEF Tick, OpportunityOver, Wait, Poll, NoPacketToRead, Finish, Burn,
          WritePackets, SendMore, SendNext, historyVars
    <3> QED BY <3>1, <3>2, <3>3, <3>4 DEF Next
  <2>3. \E p \in OnTheWay : p.id = arrived
    BY <1>2, <1>3, <2>2 DEF NewestKept
  <2> QED BY <2>1, <2>2, <2>3
<1> QED BY <1>4, <1>5

\* infinite_packet_queue.hh and drop_head_packet_queue.hh:20-29: the newest
\* packet that has been enqueued is always on its way, and so it is when the
\* enqueue has dropped one packet for it and has to abort instead of dropping
\* another, when a limit in bytes is at least PACKET_SIZE.
THEOREM TakesNewest ==
  ASSUME \A l \in Links : RoomForOne(l.discipline)
  PROVE  Spec => []NewestKept
<1> DEFINE Inv == IInv /\ OrderInv /\ RoomForOne(discipline) /\ NewestKept
<1>1. Init => Inv
  <2> SUFFICES ASSUME Init PROVE RoomForOne(discipline) /\ NewestKept
    BY InitIInv, InitOrder
  <2>1. PICK l \in Links : discipline = l.discipline
    BY DEF Init
  <2>2. arrived = 0
    BY DEF Init
  <2> QED BY <2>1, <2>2 DEF NewestKept
<1>2. Inv /\ [Next]_vars => Inv'
  BY NextIInv, NextOrder, NextNewest
<1>3. Spec => []Inv
  BY <1>1, <1>2, PTL DEF Spec
<1> QED BY <1>3, PTL

\* A queue limited in packets only is within its limit, and has not failed.
WithinPackets ==
  /\ discipline.bytes = 0 /\ pc # "aborted"
  /\ discipline.kind # "infinite" /\ discipline.packets # 0
       => Len(queue) <= discipline.packets

\* An enqueue leaves such a queue good: a drop head queue with one packet too
\* many is good again when it has dropped one.
LEMMA EnqueueFits ==
  ASSUME IInv, WithinPackets, NEW p \in Packet
  PROVE  LET q == AfterEnqueue(p)
         IN  /\ assert_good(q)
             /\ discipline.kind # "infinite" /\ discipline.packets # 0
                  => Len(q) <= discipline.packets
<1> DEFINE longer == Append(queue, p)
           n == Len(queue)
           q == AfterEnqueue(p)
           k == discipline.packets
<1>1. /\ n \in Nat /\ k \in Nat /\ Len(longer) = n + 1
      /\ longer # << >> /\ longer \in Seq(Packet)
  <2>1. queue \in Seq(Packet) /\ n \in Nat /\ k \in Nat
    BY OutTypes DEF IInv, TypeOK, Discipline
  <2> QED BY <2>1, AppendProperties
<1>2. Len(Tail(longer)) = n
  <2>1. Len(Tail(longer)) = Len(longer) - 1
    BY <1>1, HeadTailProperties
  <2> HIDE DEF longer, n
  <2> QED BY <1>1, <2>1
<1>3. \A s : good(s) <=> (k # 0 => Len(s) <= k)
  BY DEF good, WithinPackets
<1>4. \/ discipline.kind = "infinite"
      \/ q = longer /\ good(longer)
      \/ q = Tail(longer) \/ q = queue
  BY DEF AfterEnqueue
<1>5. discipline.kind # "infinite" /\ k # 0 => n <= k
  BY DEF WithinPackets
<1>6. discipline.kind # "infinite" => good(q)
  <2> HIDE DEF q, longer
  <2>1. CASE q = longer /\ good(longer)
    BY <2>1
  <2>2. CASE q = Tail(longer)
    BY <1>2, <1>3, <1>5, <2>2
  <2>3. CASE q = queue
    BY <1>3, <1>5, <2>3
  <2> QED BY <1>4, <2>1, <2>2, <2>3
<1>7. discipline.kind # "infinite" /\ k # 0 => Len(q) <= k
  BY <1>3, <1>6
<1> QED BY <1>6, <1>7 DEF assert_good

\* What a dequeue leaves is no longer than what there was.
LEMMA DequeueShortens ==
  ASSUME IInv, NEW k \in 1..Len(queue)
  PROVE  Len(SubSeq(queue, k + 1, Len(queue))) <= Len(queue)
<1> DEFINE n == Len(queue)
<1>1. n \in Nat /\ \A i \in 1..n : queue[i] \in Packet
  BY OutTypes
<1> HIDE DEF n
<1>2. \A i \in (k + 1)..n : queue[i] \in Packet
  BY <1>1
<1>3. Len(SubSeq(queue, k + 1, n)) =
        IF k + 1 <= n THEN n - (k + 1) + 1 ELSE 0
  <2>1. k + 1 \in Int /\ n \in Int
    BY <1>1 DEF n
  <2> QED BY <1>2, <2>1, SubSeqProperties
<1>4. k \in 1..n
  BY DEF n
<1>5. Len(SubSeq(queue, k + 1, n)) <= n
  BY <1>1, <1>3, <1>4
<1> QED BY <1>5 DEF n

\* dropping_packet_queue.cc:30, drop_tail_packet_queue.hh:27: the assertions
\* that a queue is good, which a drop head queue meets while it makes room,
\* never fail when queues are limited in packets only: one packet makes room
\* for one.  (A drop head queue limited in bytes does fail: one large packet
\* may need the room of several small ones.)
THEOREM PacketsMakeRoom ==
  ASSUME \A l \in Links : l.discipline.bytes = 0
  PROVE  Spec => []NeverAborts
<1>1. Init => WithinPackets
  <2> SUFFICES ASSUME Init PROVE WithinPackets
    OBVIOUS
  <2>1. PICK l \in Links : discipline = l.discipline
    BY DEF Init
  <2>2. discipline.bytes = 0 /\ pc # "aborted"
    BY <2>1 DEF Init
  <2>3. discipline.packets \in Nat /\ Len(queue) = 0
    BY InitIInv DEF Init, IInv, TypeOK, Discipline
  <2>4. discipline.packets # 0 => Len(queue) <= discipline.packets
    BY <2>3
  <2> QED BY <2>2, <2>4 DEF WithinPackets
<1>2. IInv /\ WithinPackets /\ [Next]_vars => WithinPackets'
  <2> SUFFICES ASSUME IInv, WithinPackets, [Next]_vars PROVE WithinPackets'
    OBVIOUS
  <2>1. CASE Rationalized /\ incoming # NoPacket
    <3>1. /\ incoming \in Packet /\ queue' = AfterEnqueue(incoming)
          /\ discipline' = discipline
          /\ pc' = IF assert_good(queue') THEN "sibling" ELSE "aborted"
      BY <2>1 DEF Rationalized, IInv, ArrivesNow
    <3>2. /\ assert_good(queue')
          /\ discipline.kind # "infinite" /\ discipline.packets # 0
               => Len(queue') <= discipline.packets
      BY <3>1, EnqueueFits
    <3>3. pc' # "aborted"
      BY <3>1, <3>2
    <3>4. discipline'.bytes = 0
      BY <3>1 DEF WithinPackets
    <3> QED BY <3>1, <3>2, <3>3, <3>4 DEF WithinPackets
  <2>2. CASE SendNext
    <3>1. PICK k \in 1..Len(queue) : queue' = SubSeq(queue, k + 1, Len(queue))
      BY <2>2 DEF SendNext
    <3>2. Len(queue') <= Len(queue)
      BY <3>1, DequeueShortens
    <3>3. Len(queue') \in Nat /\ Len(queue) \in Nat
      <4>1. queue' \in Seq(Packet)
        BY <3>1, OutTypes, DequeueKeeps
      <4> QED BY <4>1, OutTypes, LenProperties
    <3>4. discipline' = discipline /\ pc' = pc
      BY <2>2 DEF SendNext
    <3>5. discipline.packets \in Nat
      BY DEF IInv, TypeOK, Discipline
    <3>6. \A a, b, c \in Nat : a <= b /\ b <= c => a <= c
      OBVIOUS
    <3> QED BY <3>2, <3>3, <3>4, <3>5, <3>6 DEF WithinPackets
  <2>3. CASE ~(Rationalized /\ incoming # NoPacket) /\ ~SendNext
    <3>1. CASE Rationalized
      BY <2>3, <3>1 DEF Rationalized, WithinPackets
    <3>2. CASE SendMore
      BY <3>2 DEF SendMore, WithinPackets, queueVars
    <3>3. CASE UNCHANGED vars
      BY <3>3 DEF vars, queueVars, WithinPackets
    <3>4. CASE Tick \/ OpportunityOver \/ Wait \/ Poll \/ NoPacketToRead
               \/ Finish \/ Burn \/ ReadPacket \/ WritePackets
      BY <3>4
      DEF Tick, OpportunityOver, Wait, Poll, NoPacketToRead, Finish, Burn,
          ReadPacket, WritePackets, queueVars, WithinPackets
    <3> QED BY <2>3, <3>1, <3>2, <3>3, <3>4 DEF Next
  <2> QED BY <2>1, <2>2, <2>3
<1>3. WithinPackets => NeverAborts
  BY DEF WithinPackets, NeverAborts
<1> QED BY <1>1, <1>2, <1>3, InvariantHolds, PTL DEF Spec
-----------------------------------------------------------------------------
(* The opportunities: x is the x[2]-th of the trace in the round x[1].     *)

Period == Schedule[Len(Schedule)]
Time(x) == x[1] * Period + Schedule[x[2]]

\* The opportunities up to time t, with rep of all rounds.
UpTo(rep, t) ==
  {x \in (IF rep THEN 0..t ELSE {0}) \X (1..Len(Schedule)) : Time(x) <= t}

\* Those used when the n-th of round r is the next, or all are (all).
UsedUp(r, n, all) ==
  {x \in (0..r) \X (1..Len(Schedule)) : x[1] < r \/ x[2] < n \/ all}

\* A round of the trace takes some time, and no opportunity comes after its
\* end.
LEMMA PeriodFacts ==
  /\ Period \in Nat \ {0}
  /\ \A i \in 1..Len(Schedule) : Schedule[i] \in Nat /\ Schedule[i] <= Period
<1>1. /\ Len(Schedule) \in Nat \ {0} /\ Schedule[Len(Schedule)] > 0
      /\ Len(Schedule) \in 1..Len(Schedule)
  BY ScheduleFacts, ScheduleAssumption
<1>2. Period \in Nat \ {0}
  BY <1>1, ScheduleFacts DEF Period
<1>3. \A i \in 1..Len(Schedule) : i <= Len(Schedule)
  BY <1>1
<1> QED BY <1>1, <1>2, <1>3, ScheduleFacts DEF Period

\* Rounds are at least as long as their number.
LEMMA RoundTimes ==
  ASSUME NEW a \in Nat, NEW r \in Nat
  PROVE  /\ a * Period \in Nat /\ a <= a * Period
         /\ (a + 1) * Period = a * Period + Period
         /\ r < a => (r * Period) + Period <= a * Period
<1> DEFINE P == Period
<1>1. P \in Nat /\ P >= 1
  BY PeriodFacts
<1> HIDE DEF P
<1>2. a * P \in Nat /\ (a + 1) * P = a * P + P /\ a <= a * P
  BY <1>1
<1>3. r < a => (r * P) + P <= a * P
  <2> SUFFICES ASSUME r < a PROVE (r * P) + P <= a * P
    OBVIOUS
  <2>1. a - r - 1 \in Nat
    OBVIOUS
  <2>2. (a - r - 1) * P >= 0
    BY <1>1, <2>1
  <2>3. (a - r - 1) * P = a * P - r * P - P
    BY <1>1
  <2> QED BY <1>1, <2>2, <2>3
<1> QED BY <1>2, <1>3 DEF P

\* The time of opportunity i in round a.
LEMMA TimeType ==
  ASSUME NEW a \in Nat, NEW i \in 1..Len(Schedule)
  PROVE  Time(<<a, i>>) \in Nat /\ Time(<<a, i>>) = a * Period + Schedule[i]
<1>1. a * Period \in Nat /\ Schedule[i] \in Nat
  BY RoundTimes, PeriodFacts
<1> QED BY <1>1 DEF Time

\* Used opportunities can be counted.
LEMMA UsedUpFinite ==
  ASSUME NEW r \in Nat, NEW n, NEW all
  PROVE  /\ IsFiniteSet(UsedUp(r, n, all))
         /\ Cardinality(UsedUp(r, n, all)) \in Nat
<1>1. IsFiniteSet(0..r) /\ IsFiniteSet(1..Len(Schedule))
  BY ScheduleFacts, FS_Interval
<1>2. IsFiniteSet((0..r) \X (1..Len(Schedule)))
  BY <1>1, FS_Product
<1>3. IsFiniteSet(UsedUp(r, n, all))
  BY <1>2, FS_Subset DEF UsedUp
<1> QED BY <1>3, FS_CardinalityType

\* The opportunities up to a time can be counted.
LEMMA UpToFinite ==
  ASSUME NEW t \in Nat, NEW rep \in BOOLEAN
  PROVE  /\ IsFiniteSet(UpTo(rep, t)) /\ Cardinality(UpTo(rep, t)) \in Nat
<1> DEFINE A == IF rep THEN 0..t ELSE {0}
<1>1. IsFiniteSet(A) /\ IsFiniteSet(1..Len(Schedule))
  <2>1. 0 \in Int /\ t \in Int /\ 1 \in Int /\ Len(Schedule) \in Int
    BY ScheduleFacts
  <2>2. IsFiniteSet(0..t) /\ IsFiniteSet(1..Len(Schedule))
    BY <2>1, FS_Interval
  <2>3. IsFiniteSet({0})
    BY FS_Singleton
  <2> QED BY <2>2, <2>3
<1> HIDE DEF A
<1>2. IsFiniteSet(A \X (1..Len(Schedule)))
  BY <1>1, FS_Product
<1>3. UpTo(rep, t) \subseteq A \X (1..Len(Schedule))
  BY DEF UpTo, A
<1>4. IsFiniteSet(UpTo(rep, t))
  BY <1>2, <1>3, FS_Subset
<1> QED BY <1>4, FS_CardinalityType

\* Using an opportunity uses one more.
LEMMA UseOneMore ==
  ASSUME NEW r \in Nat, NEW n \in 1..Len(Schedule)
  PROVE  /\ n < Len(Schedule) =>
              UsedUp(r, n + 1, FALSE) = UsedUp(r, n, FALSE) \cup {<<r, n>>}
         /\ n = Len(Schedule) =>
              UsedUp(r + 1, 1, FALSE) = UsedUp(r, n, FALSE) \cup {<<r, n>>}
         /\ n = Len(Schedule) /\ r = 0 =>
              UsedUp(r, 1, TRUE) = UsedUp(r, n, FALSE) \cup {<<r, n>>}
         /\ Cardinality(UsedUp(r, n, FALSE) \cup {<<r, n>>})
              = Cardinality(UsedUp(r, n, FALSE)) + 1
<1> DEFINE L == Len(Schedule)
<1>1. L \in Nat \ {0} /\ n \in 1..L
  BY ScheduleFacts
<1> HIDE DEF L
<1>2. \A m, b, s : UsedUp(s, m, b) =
        {x \in (0..s) \X (1..L) : x[1] < s \/ x[2] < m \/ b}
  BY DEF UsedUp, L
<1>3. ASSUME n < L
      PROVE  UsedUp(r, n + 1, FALSE) = UsedUp(r, n, FALSE) \cup {<<r, n>>}
  <2>1. \A x \in (0..r) \X (1..L) :
          (x[1] < r \/ x[2] < n + 1) <=> (x[1] < r \/ x[2] < n \/ x = <<r, n>>)
    BY <1>1
  <2>2. <<r, n>> \in (0..r) \X (1..L)
    BY <1>1
  <2> QED BY <1>2, <2>1, <2>2
<1>4. ASSUME n = L
      PROVE  UsedUp(r + 1, 1, FALSE) = UsedUp(r, n, FALSE) \cup {<<r, n>>}
  <2>1. \A x \in (0..(r + 1)) \X (1..L) :
          (x[1] < r + 1 \/ x[2] < 1)
          <=> x \in (0..r) \X (1..L) /\ (x[1] < r \/ x[2] < n \/ x = <<r, n>>)
    BY <1>1, <1>4
  <2>2. /\ <<r, n>> \in (0..r) \X (1..L)
        /\ \A x \in (0..r) \X (1..L) : x \in (0..(r + 1)) \X (1..L)
    BY <1>1
  <2> QED BY <1>2, <2>1, <2>2
<1>5. ASSUME n = L, r = 0
      PROVE  UsedUp(r, 1, TRUE) = UsedUp(r, n, FALSE) \cup {<<r, n>>}
  <2>1. \A x \in (0..r) \X (1..L) :
          x[1] < r \/ x[2] < n \/ x = <<r, n>>
    BY <1>1, <1>5
  <2>2. <<r, n>> \in (0..r) \X (1..L)
    BY <1>1
  <2> QED BY <1>2, <2>1, <2>2
<1>6. <<r, n>> \notin UsedUp(r, n, FALSE)
  <2>1. ~(r < r \/ n < n \/ FALSE)
    BY <1>1
  <2>2. <<r, n>>[1] = r /\ <<r, n>>[2] = n
    OBVIOUS
  <2> QED BY <2>1, <2>2 DEF UsedUp
<1>7. Cardinality(UsedUp(r, n, FALSE) \cup {<<r, n>>})
        = Cardinality(UsedUp(r, n, FALSE)) + 1
  BY <1>6, UsedUpFinite, FS_AddElement
<1> QED BY <1>3, <1>4, <1>5, <1>7 DEF L

\* What was used at times up to t is among the opportunities up to t.
LEMMA UsedInTime ==
  ASSUME NEW r \in Nat, NEW n, NEW all, NEW rep \in BOOLEAN, NEW t \in Nat,
         ~rep => r = 0, \A x \in UsedUp(r, n, all) : Time(x) <= t
  PROVE  Cardinality(UsedUp(r, n, all)) <= Cardinality(UpTo(rep, t))
<1>1. ASSUME NEW x \in UsedUp(r, n, all) PROVE x \in UpTo(rep, t)
  <2>1. PICK a \in 0..r, i \in 1..Len(Schedule) : x = <<a, i>>
    BY DEF UsedUp
  <2>2. a \in Nat /\ Time(x) <= t
    BY <1>1
  <2>3. a * Period \in Nat /\ a <= a * Period /\ Schedule[i] \in Nat
    BY <2>2, RoundTimes, PeriodFacts
  <2>4. Time(x) = a * Period + Schedule[i]
    BY <2>1, <2>2, TimeType
  <2>5. a \in 0..t
    BY <2>2, <2>3, <2>4
  <2>6. ~rep => a = 0
    OBVIOUS
  <2> QED BY <2>1, <2>2, <2>5, <2>6 DEF UpTo
<1>2. UsedUp(r, n, all) \subseteq UpTo(rep, t)
  BY <1>1
<1> QED BY <1>2, UpToFinite, FS_Subset

\* When the next opportunity is later than t, those up to t have been used.
LEMMA NoneMissed ==
  ASSUME NEW r \in Nat, NEW n \in 1..Len(Schedule), NEW all \in BOOLEAN,
         NEW rep \in BOOLEAN, NEW t \in Nat,
         ~rep => r = 0, all => ~rep, ~all => t < r * Period + Schedule[n]
  PROVE  Cardinality(UpTo(rep, t)) <= Cardinality(UsedUp(r, n, all))
<1>1. ASSUME NEW x \in UpTo(rep, t) PROVE x \in UsedUp(r, n, all)
  <2>1. PICK a \in Nat, i \in 1..Len(Schedule) :
          x = <<a, i>> /\ (~rep => a = 0)
    BY <1>1 DEF UpTo
  <2>2. Time(x) <= t /\ Time(x) = a * Period + Schedule[i]
    BY <1>1, <2>1, TimeType DEF UpTo
  <2>3. CASE all
    BY <2>1, <2>3 DEF UsedUp
  <2>4. CASE ~all
    <3> DEFINE A == a * Period
               R == r * Period
               s == Schedule[i]
               u == Schedule[n]
    <3>1. /\ A \in Nat /\ R \in Nat /\ s \in Nat /\ u \in Nat /\ u <= Period
          /\ Period \in Nat /\ (r < a => R + Period <= A)
      BY RoundTimes, PeriodFacts
    <3>2. A + s < R + u
      <4>1. A + s <= t /\ t < R + u
        BY <2>2, <2>4
      <4> HIDE DEF A, R, s, u
      <4> QED BY <3>1, <4>1
    <3>3. ~(r < a)
      <4> HIDE DEF A, R, s, u
      <4> QED BY <3>1, <3>2
    <3>4. a = r => s < u
      <4>1. a = r => A = R
        OBVIOUS
      <4> HIDE DEF A, R, s, u
      <4> QED BY <3>1, <3>2, <4>1
    <3>5. a = r => i < n
      <4> SUFFICES ASSUME a = r, ~(i < n) PROVE FALSE
        OBVIOUS
      <4>1. n <= i
        BY ScheduleFacts
      <4>2. u <= s
        BY <4>1, ScheduleFacts
      <4> QED BY <3>1, <3>4, <4>2
    <3>6. a \in 0..r /\ (a < r \/ i < n)
      BY <3>3, <3>5
    <3> QED BY <2>1, <3>6 DEF UsedUp
  <2> QED BY <2>3, <2>4
<1>2. UpTo(rep, t) \subseteq UsedUp(r, n, all)
  BY <1>1
<1> QED BY <1>2, UsedUpFinite, FS_Subset

\* What is sent comes out of the budget.
LEMMA SendBytesCounts ==
  ASSUME IInv, NEW p \in Packet, NEW n \in 1..PacketSize, n <= p.size,
         budget \in 1..PacketSize, SendBytes(p, n), written' = written,
         left > 0 => p = transit /\ n = left, left = 0 => n = p.size
  PROVE  BytesSent' + budget' = BytesSent + budget
<1> DEFINE z == p.size
           o == size_bytes(Out)
<1>1. /\ z \in 1..PacketSize /\ n <= z /\ o \in Nat /\ left \in Nat
  <2>1. z \in 1..PacketSize
    BY DEF Packet
  <2> QED BY <2>1, OutTypes, SizeType
<1>2. BytesSent = o + (z - n)
  <2>1. CASE left = 0
    <3>1. BytesSent = o + 0 /\ n = z
      BY <2>1 DEF BytesSent, Out
    <3> HIDE DEF o, z
    <3> QED BY <1>1, <3>1
  <2>2. CASE left > 0
    <3>1. BytesSent = o + (transit.size - left) /\ p = transit /\ n = left
      BY <2>2 DEF BytesSent, Out
    <3> QED BY <3>1
  <2> QED BY <1>1, <2>1, <2>2
<1>3. PICK amount \in 1..PacketSize :
        /\ amount <= n
        /\ transit' = IF n = amount THEN NoPacket ELSE p
        /\ left' = n - amount /\ budget' = budget - amount
        /\ output' = IF n = amount THEN Append(output, contents(p)) ELSE output
  <2>1. Least(budget, n) \in 1..PacketSize /\ Least(budget, n) <= n
    BY PacketSizeAssumption DEF Least
  <2>2. QED
    BY <2>1 DEF SendBytes
<1>4. BytesSent' = o + (z - n) + amount
  <2>1. CASE n = amount
    <3>1. left' = 0 /\ output' = Append(output, contents(p))
      BY <1>3, <2>1, PacketSizeAssumption
    <3>2. /\ contents(p) \in Contents /\ contents(p).size = z
          /\ written \in Seq(Contents) /\ output \in Seq(Contents)
          /\ Out \in Seq(Contents)
      BY OutTypes DEF contents, Contents, Packet
    <3>3. written \o Append(output, contents(p)) = Append(Out, contents(p))
      BY <3>2, ConcatAppend DEF Out
    <3>4. size_bytes(Append(Out, contents(p))) = o + z
      BY <3>2, SizeSteps
    <3>5. BytesSent' = size_bytes(written \o Append(output, contents(p))) + 0
      BY <3>1 DEF BytesSent
    <3> HIDE DEF o, z
    <3>6. BytesSent' = (o + z) + 0
      BY <3>3, <3>4, <3>5
    <3> QED BY <1>1, <2>1, <3>6
  <2>2. CASE n # amount
    <3>1. left' = n - amount /\ n - amount > 0 /\ transit' = p
          /\ output' = output
      BY <1>3, <2>2, PacketSizeAssumption
    <3>2. Out' = Out
      BY <3>1 DEF Out
    <3>3. BytesSent' = o + (z - (n - amount))
      BY <3>1, <3>2 DEF BytesSent, Out
    <3> HIDE DEF o, z
    <3> QED BY <1>1, <3>3, PacketSizeAssumption
  <2> QED BY <2>1, <2>2
<1> HIDE DEF o, z
<1> QED BY <1>1, <1>2, <1>3, <1>4, PacketSizeAssumption
-----------------------------------------------------------------------------
(* What the opportunities that were used account for.                      *)

Used(r) == Cardinality(UsedUp(r, next, finished))

\* In round r of the trace, everything up to dtime has been used, and no more
\* bytes have left, or may still, than that allows.
TraceInv(r) ==
  /\ base = r * Period
  /\ ~repeat => r = 0
  /\ finished => ~repeat
  /\ \A x \in UsedUp(r, next, finished) : Time(x) <= dtime
  /\ ~finished => dtime <= NextTime
  /\ BytesSent + budget <= PacketSize * Used(r)

\* What waits.
WaitSet == {queue[i] : i \in 1..Len(queue)} \cup
           (IF left > 0 THEN {transit} ELSE {})

\* The bytes that have left, or will by this opportunity if enough wait,
\* beyond (if negative, short of) those of all opportunities that were used.
Slack(r) ==
  BytesSent + (IF pc = "send" THEN budget ELSE 0) - PacketSize * Used(r)

\* Without the bytes that left before p was queued, it falls short at most by
\* the opportunities before p arrived.
Owed(r, p) == Slack(r) - before[p.id]
Covered(r) ==
  \A p \in WaitSet :
    Owed(r, p) + PacketSize * Cardinality(UpTo(repeat, p.arrival)) >= 0

\* Unless the clock is set back, opportunities are used after their time, and
\* all that are due when rationalize is over.
WorkInv(r) ==
  /\ dtime <= clock
  /\ pc \in {"rationalize", "send", "poll"} => dtime <= now /\ now <= clock
  /\ pc = "poll" => ~Due
  /\ Covered(r)

\* The numbers of the account are numbers.
LEMMA TraceTypes ==
  ASSUME IInv, NEW r \in Nat
  PROVE  /\ Used(r) \in Nat /\ BytesSent \in Nat /\ PacketSize \in Nat
         /\ budget \in Nat /\ Slack(r) \in Int
         /\ PacketSize * Used(r) \in Nat
         /\ dtime \in Nat /\ now \in Nat /\ clock \in Nat
         /\ repeat \in BOOLEAN /\ finished \in BOOLEAN
         /\ next \in 1..Len(Schedule) /\ NextTime \in Nat
         /\ WaitSet \subseteq Packet
<1>1. /\ Used(r) \in Nat /\ BytesSent \in Nat /\ PacketSize \in Nat
  BY UsedUpFinite, BytesType, PacketSizeAssumption DEF Used
<1>2. /\ budget \in 0..PacketSize
      /\ dtime \in Nat /\ now \in Nat /\ clock \in Nat
      /\ repeat \in BOOLEAN /\ finished \in BOOLEAN
      /\ next \in 1..Len(Schedule) /\ base \in Nat
  BY DEF IInv, TypeOK
<1>3. budget \in Nat /\ PacketSize * Used(r) \in Nat
  BY <1>1, <1>2
<1>4. Slack(r) \in Int
  <2> DEFINE u == PacketSize * Used(r)
             b == IF pc = "send" THEN budget ELSE 0
  <2>1. u \in Nat /\ b \in Nat
    BY <1>3
  <2>2. Slack(r) = BytesSent + b - u
    BY DEF Slack
  <2> HIDE DEF u, b
  <2> QED BY <1>1, <2>1, <2>2
<1>5. NextTime \in Nat
  BY <1>2, ScheduleFacts DEF NextTime
<1>6. WaitSet \subseteq Packet
  BY OutTypes DEF WaitSet
<1> QED BY <1>1, <1>2, <1>3, <1>4, <1>5, <1>6

\* Each packet that the queue has been offered has its entry.
Entered == Len(before) = Fresh - 1

\* Each packet is entered when it is queued.
LEMMA NextEntered ==
  ASSUME IInv, OrderInv, Entered, [Next]_vars PROVE Entered'
<1>1. before \in Seq(Nat) /\ arrived \in Nat
  BY DEF IInv, TypeOK
<1>2. CASE Rationalized /\ incoming # NoPacket
  <2>1. /\ before' = Append(before, BytesSent) /\ incoming' = NoPacket
        /\ arrived' = arrived
    BY <1>2 DEF Rationalized
  <2>2. Len(before') = Len(before) + 1
    BY <1>1, <2>1, BytesType, AppendProperties
  <2> QED BY <1>1, <1>2, <2>1, <2>2 DEF Entered, Fresh
<1>3. CASE ReadPacket
  <2>1. /\ before' = before /\ arrived' = arrived + 1
        /\ incoming' =
             [id |-> arrived + 1, size |-> Head(traffic), arrival |-> clock]
        /\ pc = "tun"
    BY <1>3 DEF ReadPacket
  <2>2. incoming = NoPacket
    BY <2>1 DEF IInv, ArrivesNow
  <2>3. incoming' # NoPacket
    BY <1>1, <2>1 DEF NoPacket
  <2> QED BY <1>1, <2>1, <2>2, <2>3 DEF Entered, Fresh
<1>4. CASE ~(Rationalized /\ incoming # NoPacket) /\ ~ReadPacket
  <2>1. before' = before /\ incoming' = incoming /\ arrived' = arrived
    BY <1>4 DEF Next, Tick, Burn, SendMore, SendNext, OpportunityOver,
                Rationalized, Wait, Poll, NoPacketToRead, WritePackets, Finish,
                vars, historyVars
  <2> QED BY <2>1 DEF Entered, Fresh
<1> QED BY <1>2, <1>3, <1>4

\* What waits has its entry.
LEMMA WaitingEntered ==
  ASSUME IInv, OrderInv, Entered
  PROVE  /\ before \in Seq(Nat) /\ Len(before) \in Nat
         /\ \A p \in WaitSet : p.id \in 1..Len(before) /\ before[p.id] \in Nat
<1>1. before \in Seq(Nat) /\ Len(before) \in Nat /\ arrived \in Nat
  BY LenProperties DEF IInv, TypeOK
<1>2. Fresh \in Nat /\ Len(before) = Fresh - 1
  <2>1. Fresh \in Nat
    BY <1>1 DEF Fresh
  <2> QED BY <2>1 DEF Entered
<1>3. ASSUME NEW p \in WaitSet PROVE p.id \in 1..Len(before)
  <2>1. p.id < Fresh
    BY <1>3 DEF WaitSet, OrderInv, Below
  <2>2. p.id \in Nat \ {0}
    BY <1>3, TraceTypes DEF Packet
  <2> QED BY <1>1, <1>2, <2>1, <2>2
<1>4. \A i \in 1..Len(before) : before[i] \in Nat
  BY <1>1, ElementOfSeq
<1> QED BY <1>1, <1>3, <1>4

\* The balance is a number.
LEMMA SlackType == IInv => \A i \in Nat : Slack(i) \in Int
BY TraceTypes

\* Fewer packets wait, and no more is owed to them.
LEMMA StaysCovered ==
  ASSUME IInv, IInv', OrderInv, Entered, NEW r \in Nat, NEW s \in Nat,
         Covered(r), repeat' = repeat, before' = before,
         WaitSet' \subseteq WaitSet, Slack(s)' >= Slack(r)
  PROVE  Covered(s)'
<1> SUFFICES ASSUME NEW p \in WaitSet'
             PROVE  Slack(s)' - before[p.id]
                      + PacketSize * Cardinality(UpTo(repeat, p.arrival)) >= 0
  BY DEF Covered, Owed
<1>1. p \in WaitSet /\ p \in Packet /\ p.arrival \in Nat
  BY TraceTypes DEF Packet
<1> DEFINE a == p.arrival
           c == PacketSize * Cardinality(UpTo(repeat, a))
           b == before[p.id]
<1>2. a \in Nat /\ b \in Nat
  BY <1>1, WaitingEntered
<1>3. c \in Nat
  <2>1. repeat \in BOOLEAN /\ PacketSize \in Nat
    BY TraceTypes
  <2> HIDE DEF a
  <2>2. Cardinality(UpTo(repeat, a)) \in Nat
    BY <1>2, <2>1, UpToFinite
  <2> QED BY <2>1, <2>2
<1>4. Slack(r) - b + c >= 0
  BY <1>1 DEF Covered, Owed
<1>5. Slack(r) \in Int /\ Slack(s)' \in Int
  <2>1. (IInv => \A i \in Nat : Slack(i) \in Int)'
    BY SlackType, PTL
  <2> QED BY <2>1, SlackType
<1> HIDE DEF b, c
<1>6. Slack(s)' - b + c >= 0
  BY <1>2, <1>3, <1>4, <1>5
<1> QED BY <1>6 DEF b, c

\* A step that sends nothing, or within the budget, and uses no opportunity.
LEMMA TraceStays ==
  ASSUME NEW r \in Nat, TraceInv(r),
         UNCHANGED <<base, repeat, finished, next, dtime>>,
         BytesSent' + budget' = BytesSent + budget
  PROVE  TraceInv(r)'
<1>1. NextTime' = NextTime /\ Used(r)' = Used(r)
  BY DEF NextTime, Used
<1> QED BY <1>1 DEF TraceInv

\* Burning uses one opportunity more, the last before the next.
LEMMA BurnUses ==
  ASSUME IInv, NEW r \in Nat, TraceInv(r), Burn
  PROVE  \E s \in Nat : TraceInv(s)' /\ Used(s)' = Used(r) + 1
<1> DEFINE old == UsedUp(r, next, FALSE)
<1>1. /\ ~finished /\ dtime' = NextTime /\ budget' = PacketSize
      /\ UNCHANGED <<repeat, written, output, left, transit>>
      /\ BytesSent' = BytesSent
  BY DEF Burn, Due, queueVars, historyVars, BytesSent
<1>2. /\ next \in 1..Len(Schedule) /\ Used(r) \in Nat /\ BytesSent \in Nat
      /\ PacketSize \in Nat /\ budget \in Nat
      /\ PacketSize * Used(r) \in Nat
      /\ dtime \in Nat /\ NextTime \in Nat /\ repeat \in BOOLEAN
  BY TraceTypes
<1>3. /\ base = r * Period /\ (~repeat => r = 0) /\ dtime <= NextTime
      /\ \A x \in old : Time(x) <= dtime
      /\ BytesSent + budget <= PacketSize * Used(r)
      /\ Used(r) = Cardinality(old)
  <2>1. finished = FALSE
    BY <1>1 DEF IInv, TypeOK
  <2>2. UsedUp(r, next, finished) = old
    BY <2>1
  <2> HIDE DEF old
  <2> QED BY <1>1, <2>2 DEF TraceInv, Used
<1>4. NextTime = r * Period + Schedule[next] /\ Time(<<r, next>>) = NextTime
  <2>1. Schedule[next] \in Nat /\ r * Period \in Nat
    BY <1>2, PeriodFacts, RoundTimes
  <2>2. NextTime = Schedule[next] + r * Period
    BY <1>3 DEF NextTime
  <2>3. Time(<<r, next>>) = r * Period + Schedule[next]
    BY <1>2, TimeType
  <2> QED BY <2>1, <2>2, <2>3
<1>5. \A x \in old : Time(x) \in Nat
  <2> SUFFICES ASSUME NEW x \in old PROVE Time(x) \in Nat
    OBVIOUS
  <2>1. PICK a \in 0..r, i \in 1..Len(Schedule) : x = <<a, i>>
    BY DEF UsedUp
  <2>2. a \in Nat
    OBVIOUS
  <2> QED BY <2>1, <2>2, TimeType
<1>6. \A x \in old \cup {<<r, next>>} : Time(x) <= dtime'
  <2> HIDE DEF old
  <2>1. \A x \in old : Time(x) <= NextTime
    BY <1>2, <1>3, <1>5
  <2>2. Time(<<r, next>>) <= NextTime
    BY <1>2, <1>4
  <2> QED BY <1>1, <2>1, <2>2
<1>7. Cardinality(old \cup {<<r, next>>}) = Used(r) + 1
  BY <1>2, <1>3, UseOneMore
<1>8. BytesSent' + budget' <= PacketSize * (Used(r) + 1)
  <2> DEFINE u == Used(r)
  <2>1. u \in Nat /\ BytesSent + budget <= PacketSize * u
    BY <1>2, <1>3
  <2> HIDE DEF u
  <2>2. PacketSize * (u + 1) = PacketSize * u + PacketSize
        /\ PacketSize * u \in Nat
    BY <1>2, <2>1
  <2>3. BytesSent + PacketSize <= PacketSize * (u + 1)
    BY <1>2, <2>1, <2>2
  <2> QED BY <1>1, <2>3 DEF u
<1>9. ASSUME NEW s \in Nat,
             UsedUp(s, next', finished') = old \cup {<<r, next>>},
             base' = s * Period, ~repeat => s = 0, finished' => ~repeat,
             ~finished' => dtime' <= NextTime'
      PROVE  TraceInv(s)' /\ Used(s)' = Used(r) + 1
  <2>1. Used(s)' = Used(r) + 1
    BY <1>7, <1>9 DEF Used
  <2> QED BY <1>1, <1>6, <1>8, <1>9, <2>1 DEF TraceInv
<1>10. ~finished' => dtime' <= NextTime'
  BY BurnStep DEF IInv, Timely, Burn
<1> HIDE DEF old
<1>11. CASE next < Len(Schedule)
  <2>1. next' = next + 1 /\ base' = base /\ finished' = FALSE
    BY <1>1, <1>11 DEF Burn, IInv, TypeOK
  <2>2. UsedUp(r, next + 1, FALSE) = old \cup {<<r, next>>}
    BY <1>2, <1>11, UseOneMore DEF old
  <2>3. UsedUp(r, next', finished') = old \cup {<<r, next>>}
    BY <2>1, <2>2
  <2> QED BY <1>3, <1>9, <1>10, <2>1, <2>3
<1>12. CASE ~(next < Len(Schedule)) /\ repeat
  <2>1. next' = 1 /\ base' = base + Period /\ finished' = FALSE
    BY <1>12 DEF Burn, Period
  <2>2. next = Len(Schedule)
    BY <1>2, <1>12, ScheduleFacts
  <2>3. UsedUp(r + 1, 1, FALSE) = old \cup {<<r, next>>}
    BY <1>2, <2>2, UseOneMore DEF old
  <2>4. UsedUp(r + 1, next', finished') = old \cup {<<r, next>>}
    BY <2>1, <2>3
  <2>5. base' = (r + 1) * Period /\ r + 1 \in Nat
    BY <1>3, <2>1, RoundTimes
  <2> QED BY <1>9, <1>10, <1>12, <2>1, <2>4, <2>5
<1>13. CASE ~(next < Len(Schedule)) /\ ~repeat
  <2>1. next' = 1 /\ base' = base /\ finished' = TRUE
    BY <1>13 DEF Burn
  <2>2. next = Len(Schedule) /\ r = 0
    BY <1>2, <1>3, <1>13, ScheduleFacts
  <2>3. UsedUp(r, 1, TRUE) = old \cup {<<r, next>>}
    BY <1>2, <2>2, UseOneMore DEF old
  <2>4. UsedUp(r, next', finished') = old \cup {<<r, next>>}
    BY <2>1, <2>3
  <2> QED BY <1>3, <1>9, <1>10, <1>13, <2>1, <2>4
<1> QED BY <1>11, <1>12, <1>13

\* The link keeps its accounts, in some round; those of the waiting packets
\* unless the clock has been set back.
AccountInv == \E r \in Nat : TraceInv(r) /\ (~adjusted => WorkInv(r))

\* The steps between opportunities that leave the queue as it is.
LEMMA IdleAccount ==
  ASSUME IInv, IInv', OrderInv, Entered, NEW r \in Nat, TraceInv(r),
         ~adjusted => WorkInv(r),
         \/ Tick \/ Wait \/ Poll \/ NoPacketToRead \/ WritePackets \/ Finish
         \/ ReadPacket \/ (Rationalized /\ incoming = NoPacket)
         \/ UNCHANGED vars
  PROVE  TraceInv(r)' /\ (~adjusted' => WorkInv(r)')
<1>1. /\ UNCHANGED <<base, repeat, finished, next, dtime, budget, left,
                     transit, queue, before>>
      /\ pc' = pc \/ (pc # "send" /\ pc' # "send")
  BY DEF Tick, Wait, Poll, NoPacketToRead, WritePackets, Finish, ReadPacket,
         Rationalized, vars, queueVars, deliveryVars, historyVars
<1>2. Out' = Out
  <2>1. CASE WritePackets
    BY <2>1, WriteKeepsOut
  <2>2. CASE ~WritePackets
    <3>1. written' = written /\ output' = output
      BY <2>2 DEF Tick, Wait, Poll, NoPacketToRead, Finish, ReadPacket,
                  Rationalized, vars, deliveryVars, historyVars
    <3> QED BY <3>1 DEF Out
  <2> QED BY <2>1, <2>2
<1>3. BytesSent' = BytesSent
  BY <1>1, <1>2 DEF BytesSent, Out
<1>4. TraceInv(r)'
  BY <1>1, <1>3, TraceStays
<1>5. WaitSet' = WaitSet /\ Slack(r)' = Slack(r) /\ NextTime' = NextTime
  <2>1. Used(r)' = Used(r)
    BY <1>1 DEF Used
  <2> QED BY <1>1, <1>3, <2>1 DEF WaitSet, Slack, NextTime
<1>6. ASSUME ~adjusted' PROVE WorkInv(r)'
  <2>1. /\ dtime \in Nat /\ now \in Nat /\ clock \in Nat
    BY TraceTypes
  <2>2. /\ ~adjusted /\ clock' \in Nat /\ clock <= clock'
    <3>1. CASE Tick
      <4>1. PICK t \in 0..MaxTime :
              /\ t = clock + 1 \/ (ClockSteps /\ ~adjusted /\ t < clock)
              /\ clock' = t
              /\ adjusted' = (adjusted \/ t < clock)
        BY <3>1 DEF Tick
      <4>2. ~adjusted /\ ~(t < clock)
        BY <1>6, <4>1
      <4> QED BY <2>1, <4>1, <4>2
    <3>2. CASE ~Tick
      <4>1. adjusted' = adjusted /\ clock' = clock
        BY <3>2 DEF Wait, Poll, NoPacketToRead, WritePackets, Finish,
                    ReadPacket, Rationalized, vars, historyVars
      <4> QED BY <1>6, <2>1, <4>1
    <3> QED BY <3>1, <3>2
  <2>3. WorkInv(r)
    BY <2>2
  <2>4. Covered(r)'
    <3>1. Slack(r) \in Int
      BY TraceTypes
    <3>2. Slack(r)' >= Slack(r) /\ WaitSet' \subseteq WaitSet
      BY <1>5, <3>1
    <3> QED BY <1>1, <2>3, <3>2, StaysCovered DEF WorkInv
  <2>5. dtime' <= clock'
    BY <1>1, <2>1, <2>2, <2>3 DEF WorkInv
  <2>6. pc' \in {"rationalize", "send", "poll"} =>
          dtime' <= now' /\ now' <= clock'
    <3>1. CASE Tick \/ UNCHANGED vars
      <4>1. pc' = pc /\ now' = now
        BY <3>1 DEF Tick, vars
      <4> QED BY <1>1, <2>1, <2>2, <2>3, <4>1 DEF WorkInv
    <3>2. CASE Wait \/ ReadPacket
      <4>1. now' = clock
        BY <3>2 DEF Wait, ReadPacket
      <4> QED BY <1>1, <2>1, <2>2, <2>3, <4>1 DEF WorkInv
    <3>3. CASE Poll \/ NoPacketToRead \/ WritePackets \/ Finish
      BY <3>3 DEF Poll, NoPacketToRead, WritePackets, Finish
    <3>4. CASE Rationalized /\ incoming = NoPacket
      <4>1. now' = now /\ pc = "rationalize"
        BY <3>4 DEF Rationalized
      <4> QED BY <1>1, <2>1, <2>2, <2>3, <4>1 DEF WorkInv
    <3> QED BY <3>1, <3>2, <3>3, <3>4
  <2>7. pc' = "poll" => ~Due'
    <3>1. CASE Tick \/ UNCHANGED vars
      <4>1. pc' = pc /\ now' = now
        BY <3>1 DEF Tick, vars
      <4> QED BY <1>1, <1>5, <2>3, <4>1 DEF WorkInv, Due
    <3>2. CASE Rationalized /\ incoming = NoPacket
      <4>1. now' = now /\ ~Due
        BY <3>2 DEF Rationalized
      <4> QED BY <1>1, <1>5, <4>1 DEF Due
    <3>3. CASE Poll \/ NoPacketToRead \/ WritePackets \/ Finish \/ Wait
               \/ ReadPacket
      BY <3>3 DEF Poll, NoPacketToRead, WritePackets, Finish, Wait, ReadPacket
    <3> QED BY <3>1, <3>2, <3>3
  <2> QED BY <2>4, <2>5, <2>6, <2>7 DEF WorkInv
<1> QED BY <1>4, <1>6

\* An opportunity is used after its time and adds to what may leave.
LEMMA BurnAccount ==
  ASSUME IInv, IInv', OrderInv, Entered, NEW r \in Nat, TraceInv(r),
         ~adjusted => WorkInv(r), Burn
  PROVE  \E s \in Nat : TraceInv(s)' /\ (~adjusted' => WorkInv(s)')
<1>1. PICK s \in Nat : TraceInv(s)' /\ Used(s)' = Used(r) + 1
  BY BurnUses
<1>2. /\ pc = "rationalize" /\ pc' = "send" /\ Due
      /\ dtime' = NextTime /\ budget' = PacketSize
      /\ UNCHANGED <<repeat, written, output, left, transit, queue, now, clock,
                     before, adjusted>>
  BY DEF Burn, queueVars, historyVars
<1>3. BytesSent' = BytesSent /\ WaitSet' = WaitSet
  BY <1>2 DEF BytesSent, WaitSet
<1>4. ASSUME ~adjusted' PROVE WorkInv(s)'
  <2>1. WorkInv(r)
    BY <1>2, <1>4
  <2>2. /\ NextTime \in Nat /\ now \in Nat /\ clock \in Nat
        /\ NextTime <= now
    BY <1>2, TraceTypes DEF Due
  <2>3. Slack(s)' = Slack(r) /\ Slack(r) \in Int
    <3> DEFINE u == Used(r)
    <3>1. u \in Nat /\ PacketSize \in Nat /\ BytesSent \in Nat
      BY TraceTypes
    <3>2. /\ Slack(r) = BytesSent + 0 - PacketSize * u
          /\ Slack(s)' = BytesSent + PacketSize - PacketSize * (u + 1)
      BY <1>1, <1>2, <1>3 DEF Slack
    <3> HIDE DEF u
    <3> QED BY <3>1, <3>2
  <2>4. Covered(s)'
    <3>1. Slack(s)' >= Slack(r) /\ WaitSet' \subseteq WaitSet
      BY <1>3, <2>3
    <3> QED BY <1>2, <2>1, <3>1, StaysCovered DEF WorkInv
  <2> QED BY <1>2, <2>1, <2>2, <2>4 DEF WorkInv
<1> QED BY <1>1, <1>4

\* Sending moves bytes from the budget to what has left.
LEMMA SendAccount ==
  ASSUME IInv, IInv', OrderInv, Entered, NEW r \in Nat, TraceInv(r),
         ~adjusted => WorkInv(r),
         SendMore \/ SendNext
  PROVE  TraceInv(r)' /\ (~adjusted' => WorkInv(r)')
<1>1. /\ pc = "send" /\ pc' = "send"
      /\ UNCHANGED <<base, repeat, finished, next, dtime, clock, now, written,
                     before, adjusted>>
  BY DEF SendMore, SendNext, historyVars
<1>2. /\ BytesSent' + budget' = BytesSent + budget
      /\ WaitSet' \subseteq WaitSet
  <2>1. CASE SendMore
    <3>1. /\ transit \in Packet /\ left \in 1..PacketSize
          /\ budget \in 1..PacketSize /\ left > 0 /\ left <= transit.size
      BY <2>1, PacketSizeAssumption DEF SendMore, IInv, TypeOK, TransitFits
    <3>2. SendBytes(transit, left) /\ queue' = queue
      BY <2>1 DEF SendMore, queueVars
    <3>3. left = 0 => left = transit.size
      BY <3>1
    <3>4. BytesSent' + budget' = BytesSent + budget
      BY <1>1, <3>1, <3>2, <3>3, SendBytesCounts
    <3>5. left' > 0 => transit' = transit
      BY <1>1, <3>1, <3>2, OutAfterSend
    <3> QED BY <3>1, <3>2, <3>4, <3>5 DEF WaitSet
  <2>2. CASE SendNext
    <3>1. PICK k \in 1..Len(queue) : queue' = SubSeq(queue, k + 1, Len(queue))
      BY <2>2 DEF SendNext
    <3>2. /\ 1 \in 1..Len(queue) /\ queue[1] \in Packet
      <4>1. 1 \in 1..Len(queue)
        BY <3>1, OutTypes
      <4> QED BY <4>1, OutTypes
    <3>3. /\ queue[1].size \in 1..PacketSize
          /\ budget \in 1..PacketSize
      <4>1. queue[1].size \in 1..PacketSize
        BY <3>2 DEF Packet
      <4>2. budget \in 1..PacketSize
        BY <2>2, PacketSizeAssumption DEF SendNext, IInv, TypeOK
      <4> QED BY <4>1, <4>2
    <3>4. SendBytes(queue[1], queue[1].size) /\ left = 0
      BY <2>2 DEF SendNext
    <3>5. BytesSent' + budget' = BytesSent + budget
      <4>1. queue[1].size <= queue[1].size /\ ~(left > 0)
        BY <3>3, <3>4, PacketSizeAssumption
      <4> QED BY <1>1, <3>2, <3>3, <3>4, <4>1, SendBytesCounts
    <3>6. left' > 0 => transit' = queue[1]
      BY <1>1, <3>2, <3>3, <3>4, OutAfterSend
    <3>7. \A i \in 1..Len(queue') : \E j \in 1..Len(queue) : queue'[i] = queue[j]
      BY <3>1, OutTypes, DequeueKeeps
    <3>8. WaitSet' \subseteq {queue[i] : i \in 1..Len(queue)}
      BY <3>2, <3>6, <3>7 DEF WaitSet
    <3> QED BY <3>5, <3>8 DEF WaitSet
  <2> QED BY <2>1, <2>2
<1>3. TraceInv(r)'
  BY <1>1, <1>2, TraceStays
<1>4. ASSUME ~adjusted' PROVE WorkInv(r)'
  <2>1. WorkInv(r)
    BY <1>1, <1>4
  <2>2. Slack(r)' = Slack(r) /\ Slack(r) \in Int
    <3>1. Used(r)' = Used(r)
      BY <1>1 DEF Used
    <3>2. /\ Slack(r)' = BytesSent' + budget' - PacketSize * Used(r)
          /\ Slack(r) = BytesSent + budget - PacketSize * Used(r)
      BY <1>1, <3>1 DEF Slack
    <3>3. Slack(r) \in Int
      BY TraceTypes
    <3>4. /\ PacketSize * Used(r) \in Nat /\ BytesSent \in Nat
          /\ BytesSent' \in Nat /\ budget \in Nat /\ budget' \in Nat
      <4>1. (IInv => BytesSent \in Nat)'
        BY BytesType, PTL
      <4>2. budget' \in Nat
        BY PacketSizeAssumption DEF IInv, TypeOK
      <4> QED BY <4>1, <4>2, TraceTypes
    <3> DEFINE d == PacketSize * Used(r)
    <3>5. /\ Slack(r)' = BytesSent' + budget' - d
          /\ Slack(r) = BytesSent + budget - d
          /\ d \in Nat
      BY <3>2, <3>4
    <3> HIDE DEF d
    <3>6. PICK a \in Nat, b \in Nat, c \in Nat, e \in Nat, x \in Nat :
            a = BytesSent' /\ b = budget' /\ c = BytesSent /\ e = budget /\ x = d
      BY <3>4, <3>5
    <3>7. a + b = c + e
      BY <1>2, <3>6
    <3>8. a + b - x = c + e - x
      BY ONLY <3>7, a \in Nat, b \in Nat, c \in Nat, e \in Nat, x \in Nat
    <3>9. Slack(r)' = a + b - x /\ Slack(r) = c + e - x
      BY <3>5, <3>6
    <3> QED BY <3>3, <3>8, <3>9
  <2>3. Slack(r)' >= Slack(r)
    BY <2>2
  <2>4. Covered(r)'
    BY <1>1, <1>2, <2>1, <2>3, StaysCovered DEF WorkInv
  <2> QED BY <1>1, <2>1, <2>4 DEF WorkInv
<1> QED BY <1>3, <1>4

\* An opportunity is over when it is used in full or nothing waits.
LEMMA OverAccount ==
  ASSUME IInv, IInv', OrderInv, Entered, NEW r \in Nat, TraceInv(r),
         ~adjusted => WorkInv(r),
         OpportunityOver
  PROVE  TraceInv(r)' /\ (~adjusted' => WorkInv(r)')
<1>1. /\ pc = "send" /\ pc' = "rationalize"
      /\ budget = 0 \/ (left = 0 /\ queue = << >>)
      /\ UNCHANGED <<base, repeat, finished, next, dtime, budget, left, transit,
                     queue, clock, now, written, output, before, adjusted>>
  BY DEF OpportunityOver, queueVars, deliveryVars, historyVars
<1>2. BytesSent' = BytesSent /\ WaitSet' = WaitSet /\ Used(r)' = Used(r)
  BY <1>1 DEF BytesSent, WaitSet, Used
<1>3. TraceInv(r)'
  BY <1>1, <1>2, TraceStays
<1>4. ASSUME ~adjusted' PROVE WorkInv(r)'
  <2>1. WorkInv(r)
    BY <1>1, <1>4
  <2>2. Covered(r)'
    <3>1. CASE budget = 0
      <4>1. /\ Slack(r)' = BytesSent + 0 - PacketSize * Used(r)
            /\ Slack(r) = BytesSent + 0 - PacketSize * Used(r)
        BY <1>1, <1>2, <3>1 DEF Slack
      <4>2. Slack(r) \in Int
        BY TraceTypes
      <4>3. Slack(r)' >= Slack(r) /\ WaitSet' \subseteq WaitSet
        BY <1>2, <4>1, <4>2
      <4> QED BY <1>1, <2>1, <4>3, StaysCovered DEF WorkInv
    <3>2. CASE left = 0 /\ queue = << >>
      <4>1. Len(queue) = 0
        BY <3>2, EmptySeq
      <4>2. WaitSet' = {}
        BY <1>2, <3>2, <4>1 DEF WaitSet
      <4> QED BY <4>2 DEF Covered
    <3> QED BY <1>1, <3>1, <3>2
  <2> QED BY <1>1, <2>1, <2>2 DEF WorkInv
<1> QED BY <1>3, <1>4

\* A packet that is enqueued is owed nothing yet: the opportunities used so
\* far are no later than its arrival, the bytes sent so far are its entry.
LEMMA EnqueueAccount ==
  ASSUME IInv, IInv', OrderInv, Entered, NEW r \in Nat, TraceInv(r),
         ~adjusted => WorkInv(r),
         Rationalized, incoming # NoPacket
  PROVE  TraceInv(r)' /\ (~adjusted' => WorkInv(r)')
<1>1. /\ pc = "rationalize" /\ pc' \in {"sibling", "aborted"}
      /\ queue' = AfterEnqueue(incoming)
      /\ before' = Append(before, BytesSent)
      /\ UNCHANGED <<base, repeat, finished, next, dtime, budget, left, transit,
                     clock, written, output, adjusted>>
  BY DEF Rationalized, deliveryVars, historyVars
<1>2. incoming \in Packet /\ incoming.arrival = now
  BY DEF IInv, ArrivesNow
<1>3. BytesSent' = BytesSent /\ Used(r)' = Used(r)
  BY <1>1 DEF BytesSent, Used
<1>4. TraceInv(r)'
  BY <1>1, <1>3, TraceStays
<1>5. ASSUME ~adjusted' PROVE WorkInv(r)'
  <2>1. WorkInv(r)
    BY <1>1, <1>5
  <2>2. Slack(r)' = Slack(r) /\ Slack(r) = BytesSent + 0 - PacketSize * Used(r)
    BY <1>1, <1>3 DEF Slack
  <2>3. WaitSet' \subseteq WaitSet \cup {incoming}
    <3>1. \A i \in 1..Len(queue') :
            \/ queue'[i] = incoming
            \/ \E j \in 1..Len(queue) : queue'[i] = queue[j]
      BY <1>1, <1>2, OutTypes, EnqueueKeeps
    <3> QED BY <1>1, <3>1 DEF WaitSet
  <2>4. Slack(r) - BytesSent + PacketSize * Cardinality(UpTo(repeat, now)) >= 0
    <3>1. /\ dtime \in Nat /\ now \in Nat /\ repeat \in BOOLEAN
          /\ dtime <= now /\ (~repeat => r = 0)
          /\ \A x \in UsedUp(r, next, finished) : Time(x) <= dtime
      BY <1>1, <2>1, TraceTypes DEF WorkInv, TraceInv
    <3> DEFINE u == Used(r)
               c == Cardinality(UpTo(repeat, dtime))
               d == Cardinality(UpTo(repeat, now))
    <3>2. u <= c
      BY <3>1, UsedInTime DEF Used
    <3>3. c <= d
      <4>1. UpTo(repeat, dtime) \subseteq UpTo(repeat, now)
        <5> SUFFICES ASSUME NEW x \in UpTo(repeat, dtime)
                     PROVE  x \in UpTo(repeat, now)
          OBVIOUS
        <5>1. PICK a \in Nat, i \in 1..Len(Schedule) :
                /\ x = <<a, i>> /\ (repeat => a \in 0..dtime)
                /\ (~repeat => a = 0)
          BY <3>1 DEF UpTo
        <5>2. Time(x) \in Nat /\ Time(x) <= dtime
          BY <5>1, TimeType DEF UpTo
        <5>3. Time(x) <= now /\ (repeat => a \in 0..now)
          BY <3>1, <5>1, <5>2
        <5> QED BY <3>1, <5>1, <5>3 DEF UpTo
      <4> QED BY <3>1, <4>1, UpToFinite, FS_Subset
    <3>4. u \in Nat /\ c \in Nat /\ d \in Nat /\ BytesSent \in Nat
          /\ PacketSize \in Nat
      BY <3>1, TraceTypes, UpToFinite
    <3>5. Slack(r) = BytesSent + 0 - PacketSize * u
      BY <2>2
    <3> HIDE DEF u, c, d
    <3>6. d - u \in Nat
      BY <3>2, <3>3, <3>4
    <3>7. PacketSize * (d - u) \in Nat
      BY <3>4, <3>6
    <3>8. PacketSize * (d - u) = PacketSize * d - PacketSize * u
      BY <3>4
    <3>9. Slack(r) - BytesSent + PacketSize * d >= 0
      <4> DEFINE A == PacketSize * d
                 B == PacketSize * u
      <4>1. A \in Nat /\ B \in Nat /\ A - B \in Nat
        BY <3>4, <3>7, <3>8
      <4>2. Slack(r) = BytesSent + 0 - B
        BY <3>5
      <4> HIDE DEF A, B
      <4>3. Slack(r) - BytesSent + A >= 0
        BY <3>4, <4>1, <4>2
      <4> QED BY <4>3 DEF A
    <3> QED BY <3>9 DEF d
  <2>5. Covered(r)'
    <3> SUFFICES ASSUME NEW p \in WaitSet'
                 PROVE  Slack(r)' - before'[p.id] +
                          PacketSize * Cardinality(UpTo(repeat, p.arrival)) >= 0
      BY <1>1 DEF Covered, Owed
    <3>1. CASE p \in WaitSet
      <4>1. before'[p.id] = before[p.id]
        BY <1>1, <3>1, WaitingEntered, BytesType, AppendProperties
      <4> QED BY <2>1, <2>2, <3>1, <4>1 DEF WorkInv, Covered, Owed
    <3>2. CASE p = incoming
      <4>1. arrived \in Nat /\ before \in Seq(Nat)
        BY DEF IInv, TypeOK
      <4>2. incoming.id = Len(before) + 1
        BY <4>1 DEF OrderInv, Entered, Fresh
      <4>3. before'[incoming.id] = BytesSent
        BY <1>1, <4>1, <4>2, BytesType, AppendProperties
      <4> QED BY <1>2, <2>2, <2>4, <3>2, <4>3
    <3> QED BY <2>3, <3>1, <3>2
  <2> QED BY <1>1, <2>1, <2>5 DEF WorkInv
<1> QED BY <1>4, <1>5

\* At the start nothing is used and nothing is owed.
LEMMA InitAccount == Init => AccountInv
<1> SUFFICES ASSUME Init PROVE AccountInv
  OBVIOUS
<1>1. IInv
  BY InitIInv
<1>2. /\ next = 1 /\ base = 0 /\ finished = FALSE /\ dtime = 0 /\ budget = 0
      /\ left = 0 /\ queue = << >> /\ written = << >> /\ output = << >>
      /\ clock = 0 /\ pc = "wait"
  BY DEF Init
<1>3. 0 \in Nat /\ 0 * Period = 0 /\ NextTime \in Nat
  BY <1>1, PeriodFacts, TraceTypes
<1>4. UsedUp(0, 1, FALSE) = {}
  <2>1. \A x \in (0..0) \X (1..Len(Schedule)) : ~(x[1] < 0) /\ ~(x[2] < 1)
    BY ScheduleFacts
  <2> QED BY <2>1 DEF UsedUp
<1>5. Used(0) = 0
  BY <1>2, <1>4, FS_EmptySet DEF Used
<1>6. BytesSent = 0
  <2>1. << >> \o << >> = << >>
    BY ConcatEmptySeq, EmptySeq
  <2>2. BytesSent = size_bytes(<< >>) + 0
    BY <1>2, <2>1 DEF BytesSent
  <2> QED BY <2>2, SizeSteps
<1>7. TraceInv(0)
  <2>1. PacketSize * Used(0) = 0
    BY <1>5, PacketSizeAssumption
  <2>2. BytesSent + budget <= PacketSize * Used(0)
    BY <1>2, <1>6, <2>1
  <2>3. UsedUp(0, next, finished) = {}
    BY <1>2, <1>4
  <2>4. 0 <= NextTime
    BY <1>3
  <2> QED BY <1>2, <1>3, <2>2, <2>3, <2>4 DEF TraceInv
<1>8. WorkInv(0)
  <2>1. WaitSet = {}
    BY <1>2, EmptySeq DEF WaitSet
  <2> QED BY <1>2, <2>1 DEF WorkInv, Covered
<1> QED BY <1>3, <1>7, <1>8 DEF AccountInv

\* No step of the ferry's loop unbalances the account.
LEMMA NextAccount ==
  IInv /\ IInv' /\ OrderInv /\ Entered /\ AccountInv /\ [Next]_vars
    => AccountInv'
<1> SUFFICES ASSUME IInv, IInv', OrderInv, Entered, AccountInv, [Next]_vars
             PROVE  \E s \in Nat : TraceInv(s)' /\ (~adjusted' => WorkInv(s)')
  BY DEF AccountInv
<1>1. PICK r \in Nat : TraceInv(r) /\ (~adjusted => WorkInv(r))
  BY DEF AccountInv
<1>2. CASE \/ Tick \/ Wait \/ Poll \/ NoPacketToRead \/ WritePackets \/ Finish
           \/ ReadPacket \/ (Rationalized /\ incoming = NoPacket)
           \/ UNCHANGED vars
  BY <1>1, <1>2, IdleAccount
<1>3. CASE Burn
  BY <1>1, <1>3, BurnAccount
<1>4. CASE SendMore \/ SendNext
  BY <1>1, <1>4, SendAccount
<1>5. CASE OpportunityOver
  BY <1>1, <1>5, OverAccount
<1>6. CASE Rationalized /\ incoming # NoPacket
  BY <1>1, <1>6, EnqueueAccount
<1> QED BY <1>2, <1>3, <1>4, <1>5, <1>6 DEF Next

\* The account is balanced in every state.
LEMMA AccountHolds == Spec => [](IInv /\ OrderInv /\ Entered /\ AccountInv)
<1> DEFINE Inv == IInv /\ OrderInv /\ Entered /\ AccountInv
<1>1. Init => Inv
  <2>1. Init => Entered
    BY EmptySeq DEF Init, Entered, Fresh
  <2> QED BY <2>1, InitIInv, InitOrder, InitAccount
<1>2. Inv /\ [Next]_vars => Inv'
  <2> SUFFICES ASSUME Inv, [Next]_vars PROVE Inv'
    OBVIOUS
  <2>1. IInv' /\ OrderInv' /\ Entered'
    BY NextIInv, NextOrder, NextEntered
  <2> QED BY <2>1, NextAccount
<1> QED BY <1>1, <1>2, PTL DEF Spec

\* The opportunities up to t, in the property's words.
LEMMA OpportunitiesAre ==
  ASSUME NEW t PROVE Opportunities(t) = Cardinality(UpTo(repeat, t))
BY DEF Opportunities, UpTo, Time, Period

\* link_queue.cc:141-169 with 201-230: for every trace, used once or again and
\* again, every queue, every traffic and a clock that is set back at any time,
\* never have more bytes left than the trace allows up to the last opportunity
\* used.
THEOREM BoundedByTrace == Spec => []FollowsTrace
<1>1. IInv /\ AccountInv => FollowsTrace
  <2> SUFFICES ASSUME IInv, AccountInv PROVE FollowsTrace
    OBVIOUS
  <2>1. PICK r \in Nat : TraceInv(r)
    BY DEF AccountInv
  <2>2. /\ dtime \in Nat /\ repeat \in BOOLEAN /\ Used(r) \in Nat
        /\ BytesSent \in Nat /\ budget \in Nat /\ PacketSize \in Nat
    BY TraceTypes
  <2> DEFINE u == Used(r)
             c == Opportunities(dtime)
  <2>3. u <= c /\ c \in Nat
    <3>1. /\ ~repeat => r = 0
          /\ \A x \in UsedUp(r, next, finished) : Time(x) <= dtime
      BY <2>1 DEF TraceInv
    <3>2. Cardinality(UsedUp(r, next, finished))
            <= Cardinality(UpTo(repeat, dtime))
      BY <2>2, <3>1, UsedInTime
    <3>3. Cardinality(UpTo(repeat, dtime)) \in Nat
      BY <2>2, UpToFinite
    <3> QED BY <3>2, <3>3, OpportunitiesAre DEF Used
  <2>4. BytesSent + budget <= PacketSize * u
    BY <2>1 DEF TraceInv
  <2>5. FollowsTrace <=> BytesSent <= PacketSize * c
    BY DEF FollowsTrace
  <2>6. u \in Nat
    BY <2>2
  <2> HIDE DEF u, c
  <2>7. PacketSize * u <= PacketSize * c /\ PacketSize * u \in Nat
        /\ PacketSize * c \in Nat
    <3>1. c - u \in Nat
      BY <2>3, <2>6
    <3>2. PacketSize * (c - u) \in Nat
      BY <2>2, <3>1
    <3>3. PacketSize * (c - u) = PacketSize * c - PacketSize * u
      BY <2>2, <2>3, <2>6
    <3> QED BY <2>2, <2>3, <2>6, <3>2, <3>3
  <2> DEFINE A == PacketSize * u
             B == PacketSize * c
  <2>8. A \in Nat /\ B \in Nat /\ A <= B /\ BytesSent + budget <= A
    BY <2>4, <2>7
  <2> HIDE DEF A, B
  <2>9. BytesSent <= B
    BY <2>2, <2>8
  <2> QED BY <2>5, <2>9 DEF B
<1> QED BY <1>1, AccountHolds, PTL

\* link_queue.cc:171-234: for every trace, queue and traffic, when the loop
\* goes to sleep every opportunity since the arrival of a packet that still
\* waits has been used in full, by bytes that left after it was queued, as
\* long as the clock is not set back.
THEOREM WastesNothing == Spec => []WorkConserving
<1>1. IInv /\ OrderInv /\ Entered /\ AccountInv => WorkConserving
  <2> SUFFICES ASSUME IInv, OrderInv, Entered, AccountInv, pc = "poll",
                      ~adjusted, NEW p \in ToSet(Waiting)
               PROVE  BytesSent - before[p.id] >= PacketSize *
                        (Opportunities(now) - Opportunities(p.arrival))
    BY DEF WorkConserving
  <2>1. PICK r \in Nat : TraceInv(r) /\ WorkInv(r)
    BY DEF AccountInv
  <2>2. /\ now \in Nat /\ repeat \in BOOLEAN /\ finished \in BOOLEAN
        /\ Used(r) \in Nat /\ BytesSent \in Nat /\ PacketSize \in Nat
        /\ next \in 1..Len(Schedule) /\ NextTime \in Nat
    BY TraceTypes
  <2>3. p \in WaitSet
    <3>1. DOMAIN Waiting = 1..Len(Waiting) /\ left \in Nat /\ Len(queue) \in Nat
      BY WaitingParts, OutTypes, LenProperties
    <3>2. PICK i \in 1..Len(Waiting) : p = Waiting[i]
      BY <3>1 DEF ToSet
    <3>3. CASE left = 0
      BY <3>2, <3>3, WaitingParts DEF WaitSet
    <3>4. CASE left > 0
      <4>1. /\ Len(Waiting) = Len(queue) + 1 /\ Waiting[1] = transit
            /\ \A k \in 2..(Len(queue) + 1) : Waiting[k] = queue[k - 1]
        BY <3>4, WaitingParts
      <4>2. i = 1 \/ (i \in 2..(Len(queue) + 1) /\ i - 1 \in 1..Len(queue))
        BY <3>1, <4>1
      <4> QED BY <3>2, <3>4, <4>1, <4>2 DEF WaitSet
    <3> QED BY <3>1, <3>3, <3>4
  <2>4. p.arrival \in Nat
    BY <2>3, TraceTypes DEF Packet
  <2> DEFINE u == Used(r)
             n == Opportunities(now)
             a == Opportunities(p.arrival)
             b == before[p.id]
  <2>5. n <= u /\ n \in Nat
    <3>1. /\ (~repeat => r = 0) /\ (finished => ~repeat)
          /\ base = r * Period /\ ~Due
      BY <2>1 DEF TraceInv, WorkInv
    <3>2. ~finished => now < r * Period + Schedule[next]
      <4>1. ~finished => ~(NextTime <= now)
        BY <3>1 DEF Due
      <4>2. NextTime = Schedule[next] + r * Period
        BY <3>1 DEF NextTime
      <4>3. Schedule[next] \in Nat /\ r * Period \in Nat
        BY <2>2, PeriodFacts, RoundTimes
      <4> QED BY <2>2, <4>1, <4>2, <4>3
    <3>3. Cardinality(UpTo(repeat, now))
            <= Cardinality(UsedUp(r, next, finished))
      BY <2>2, <3>1, <3>2, NoneMissed
    <3>4. Cardinality(UpTo(repeat, now)) \in Nat
      BY <2>2, UpToFinite
    <3> QED BY <3>3, <3>4, OpportunitiesAre DEF Used
  <2>6. a \in Nat /\ a = Cardinality(UpTo(repeat, p.arrival))
    <3> DEFINE t == p.arrival
    <3>1. t \in Nat
      BY <2>4
    <3> HIDE DEF t
    <3>2. /\ Cardinality(UpTo(repeat, t)) \in Nat
          /\ Opportunities(t) = Cardinality(UpTo(repeat, t))
      BY <2>2, <3>1, UpToFinite, OpportunitiesAre
    <3> QED BY <3>2 DEF t
  <2>7. /\ Slack(r) - b + PacketSize * a >= 0
        /\ Slack(r) = BytesSent + 0 - PacketSize * u
    <3>1. Slack(r) - b + PacketSize * a >= 0
      BY <2>1, <2>3, <2>6 DEF WorkInv, Covered, Owed
    <3>2. Slack(r) = BytesSent + 0 - PacketSize * u
      BY DEF Slack
    <3> QED BY <3>1, <3>2
  <2>8. u \in Nat /\ b \in Nat
    BY <2>2, <2>3, WaitingEntered
  <2> HIDE DEF u, n, a, b
  <2>9. PacketSize * n <= PacketSize * u
    <3>1. u - n \in Nat
      BY <2>5, <2>8
    <3>2. PacketSize * (u - n) \in Nat
      BY <2>2, <3>1
    <3>3. PacketSize * (u - n) = PacketSize * u - PacketSize * n
      BY <2>2, <2>5, <2>8
    <3> QED BY <2>2, <2>5, <2>8, <3>2, <3>3
  <2> DEFINE A == PacketSize * a
             U == PacketSize * u
             N == PacketSize * n
  <2>10. /\ A \in Nat /\ U \in Nat /\ N \in Nat /\ N <= U
         /\ Slack(r) - b + A >= 0 /\ Slack(r) = BytesSent + 0 - U
    BY <2>2, <2>5, <2>6, <2>7, <2>8, <2>9
  <2>11. PacketSize * (n - a) = N - A
    BY <2>2, <2>5, <2>6
  <2> HIDE DEF A, U, N
  <2>12. BytesSent - b >= N - A
    BY <2>2, <2>8, <2>10
  <2> QED BY <2>11, <2>12 DEF n, a, b
<1> QED BY <1>1, AccountHolds, PTL
-----------------------------------------------------------------------------
(* CoDel's drops.                                                          *)

\* CoDel's state is a record: it has the field dropping.
CodelState(c) == "dropping" \in DOMAIN c

\* What CoDel computes is its state again.
LEMMA CodelFields ==
  ASSUME NEW c, CodelState(c), NEW p, NEW rest, NEW t
  PROVE  /\ CodelState(dodequeue(c, p, rest, t).c)
         /\ CodelState(StartDropping(c, t))
BY DEF dodequeue, StartDropping, CodelState

\* Entering or leaving the dropping state leaves CoDel's other fields.
LEMMA DroppingSet ==
  ASSUME NEW c, CodelState(c), NEW v
  PROVE  /\ CodelState([c EXCEPT !.dropping = v])
         /\ [c EXCEPT !.dropping = v].dropping = v
BY DEF CodelState

\* A pass goes on dropping if the packet it took was judged to be dropped.
LEMMA DropNextFields ==
  ASSUME NEW c, CodelState(c), NEW p, NEW rest, NEW t
  PROVE  /\ CodelState(DropNext(c, p, rest, t))
         /\ DropNext(c, p, rest, t).dropping = dodequeue(c, p, rest, t).ok
<1> DEFINE r == dodequeue(c, p, rest, t)
           n == c.count + 1
<1>1. DropNext(c, p, rest, t) =
        [r.c EXCEPT !.count = n, !.dropping = r.ok,
           !.drop_next = IF r.ok THEN control_law(@, n) ELSE @]
  BY DEF DropNext
<1>2. CodelState(r.c)
  BY CodelFields
<1> HIDE DEF r, n
<1>3. /\ CodelState(DropNext(c, p, rest, t))
      /\ DropNext(c, p, rest, t).dropping = r.ok
  BY <1>1, <1>2 DEF CodelState
<1> QED BY <1>3 DEF r

\* Judged to be dropped, a packet has more than one packet's bytes behind it.
LEMMA DropNeedsBytes ==
  ASSUME queue \in Seq(Packet), NEW i \in 1..Len(queue), NEW c, NEW t,
         dodequeue(c, queue[i], SubSeq(queue, i + 1, Len(queue)), t).ok
  PROVE  i + 1 < Len(queue)
<1> DEFINE n == Len(queue)
           rest == SubSeq(queue, i + 1, n)
<1>1. n \in Nat /\ \A j \in 1..n : queue[j] \in Packet
  BY LenProperties, ElementOfSeq
<1>2. rest # << >> /\ ~(size_bytes(rest) <= PacketSize)
  BY DEF dodequeue
<1> SUFFICES ASSUME ~(i + 1 < n) PROVE FALSE
  OBVIOUS
<1> HIDE DEF n
<1>3. /\ \A j \in (i + 1)..n : queue[j] \in Packet
      /\ i + 1 \in Int /\ n \in Int
  BY <1>1 DEF n
<1>4. /\ rest \in Seq(Packet)
      /\ Len(rest) = IF i + 1 <= n THEN n - (i + 1) + 1 ELSE 0
      /\ \A j \in 1..(n - (i + 1) + 1) : rest[j] = queue[(i + 1) + j - 1]
  BY <1>3, SubSeqProperties
<1> HIDE DEF rest
<1>5. i + 1 = n
  <2>1. Len(rest) # 0
    BY <1>2, <1>4, EmptySeq
  <2> QED BY <1>1, <1>4, <2>1 DEF n
<1>6. Len(rest) = 1 /\ rest[1] = queue[n] /\ queue[n] \in Packet
  BY <1>1, <1>3, <1>4, <1>5
<1>7. rest = Append(<< >>, queue[n])
  <2>1. /\ << >> \in Seq(Packet) /\ Len(<< >>) = 0
    BY EmptySeq
  <2>2. /\ Append(<< >>, queue[n]) \in Seq(Packet)
        /\ Len(Append(<< >>, queue[n])) = 1
        /\ Append(<< >>, queue[n])[1] = queue[n]
    BY <1>6, <2>1, AppendProperties
  <2> QED BY <1>4, <1>6, <2>2, SeqEqual
<1>8. size_bytes(rest) = 0 + queue[n].size
  <2>1. PICK e \in Seq(Packet) : e = << >>
    BY EmptySeq
  <2>2. size_bytes(Append(e, queue[n])) = size_bytes(e) + queue[n].size
    BY <1>6, SizeSteps
  <2>3. size_bytes(e) = 0 /\ rest = Append(e, queue[n])
    BY <1>7, <2>1, SizeSteps
  <2> QED BY <2>2, <2>3
<1>9. queue[n].size \in 1..PacketSize
  BY <1>6 DEF Packet
<1> DEFINE z == queue[n].size
<1>10. z \in 1..PacketSize /\ size_bytes(rest) = 0 + z
  BY <1>8, <1>9
<1> HIDE DEF z
<1>11. size_bytes(rest) <= PacketSize
  BY <1>10, PacketSizeAssumption
<1> QED BY <1>2, <1>11

\* CoDel takes out more than the first packet only if one is left behind
\* those it takes.
LEMMA CodelLeavesLast ==
  ASSUME queue \in Seq(Packet), CodelState(codel), NEW k \in 1..Len(queue),
         NEW t, CodelTakes(k, t)
  PROVE  /\ k # 1 => k < Len(queue)
         /\ CodelState(codel')
<1> DEFINE n == Len(queue)
           Rest(i) == SubSeq(queue, i + 1, Len(queue))
           first == dodequeue(codel, queue[1], Rest(1), t)
           Unfold(f) ==
             [i \in 1..Len(queue) |->
                IF i = 1 THEN [first.c EXCEPT !.dropping = first.ok]
                ELSE DropNext(f[i - 1], queue[i], Rest(i), t)]
           loop == CHOOSE f : f = Unfold(f)
           Continues(i) == loop[i].dropping /\ t >= loop[i].drop_next
<1>1. IF codel.dropping
      THEN /\ ~Continues(k) /\ \A i \in 1..(k - 1) : Continues(i)
           /\ codel' = loop[k]
      ELSE IF first.ok
      THEN k = 2 /\ codel' = StartDropping(
                               dodequeue(first.c, queue[2], Rest(2), t).c, t)
      ELSE k = 1 /\ codel' = first.c
  BY DEF CodelTakes
<1>2. n \in Nat /\ k \in 1..n /\ 1 \in 1..n
  BY LenProperties
<1>3. loop = Unfold(loop)
  <2> DEFINE seq == [i \in 1..n |-> [p |-> queue[i], rest |-> Rest(i), t |-> t,
                                     first |-> i = 1]]
  <2>1. DOMAIN seq = 1..n
    OBVIOUS
  <2>2. PICK acc : /\ acc[0] = codel
                   /\ \A i \in 1..n : acc[i] = CodelPass(acc[i - 1], seq[i])
    <3> HIDE DEF seq, n
    <3>1. \E acc : /\ acc[0] = codel
                   /\ \A i \in 1..n : acc[i] = CodelPass(acc[i - 1], seq[i])
                   /\ Passes!Fold(codel, seq) = acc[n]
      BY <1>2, <2>1, Passes!FoldLeftSteps
    <3> QED BY <3>1
  <2>3. \A i \in 1..n : /\ seq[i].p = queue[i] /\ seq[i].rest = Rest(i)
                        /\ seq[i].t = t /\ seq[i].first = (i = 1)
    OBVIOUS
  <2>4. \A i \in 1..n : acc[i] =
          IF i = 1 THEN [first.c EXCEPT !.dropping = first.ok]
          ELSE DropNext(acc[i - 1], queue[i], Rest(i), t)
    <3> SUFFICES ASSUME NEW i \in 1..n
                 PROVE  acc[i] =
                          IF i = 1 THEN [first.c EXCEPT !.dropping = first.ok]
                          ELSE DropNext(acc[i - 1], queue[i], Rest(i), t)
      OBVIOUS
    <3>1. acc[i] = CodelPass(acc[i - 1], seq[i])
      BY <2>2
    <3> HIDE DEF seq, Rest
    <3>2. CASE i = 1
      <4>1. /\ acc[i - 1] = codel /\ seq[i].first /\ seq[i].p = queue[1]
            /\ seq[i].rest = Rest(1) /\ seq[i].t = t
        <5>1. i - 1 = 0
          BY <3>2
        <5> QED BY <2>2, <2>3, <3>2, <5>1
      <4> QED BY <3>1, <3>2, <4>1 DEF CodelPass
    <3>3. CASE i # 1
      <4>1. /\ ~seq[i].first /\ seq[i].p = queue[i]
            /\ seq[i].rest = Rest(i) /\ seq[i].t = t
        BY <2>3, <3>3
      <4> QED BY <3>1, <3>3, <4>1 DEF CodelPass
    <3> QED BY <3>2, <3>3
  <2> DEFINE f == [i \in 1..n |-> acc[i]]
  <2>5. f = Unfold(f)
    <3> HIDE DEF Rest, first
    <3>1. \A i \in 1..n : i # 1 => i - 1 \in 1..n
      BY <1>2
    <3>2. \A i \in 1..n : f[i] =
            IF i = 1 THEN [first.c EXCEPT !.dropping = first.ok]
            ELSE DropNext(f[i - 1], queue[i], Rest(i), t)
      BY <2>4, <3>1
    <3> HIDE DEF f
    <3>3. f = [i \in 1..n |-> f[i]]
      BY DEF f
    <3> QED BY <3>2, <3>3
  <2> HIDE DEF f, Unfold
  <2>6. \E g : g = Unfold(g)
    BY <2>5
  <2> QED BY <2>6
<1> HIDE DEF loop
<1>4. \A i \in 1..n : loop[i] =
        IF i = 1 THEN [first.c EXCEPT !.dropping = first.ok]
        ELSE DropNext(loop[i - 1], queue[i], Rest(i), t)
  BY <1>3
<1> HIDE DEF Unfold
<1>5. /\ CodelState(first.c)
      /\ CodelState([first.c EXCEPT !.dropping = first.ok])
      /\ [first.c EXCEPT !.dropping = first.ok].dropping = first.ok
  <2>1. CodelState(first.c)
    BY CodelFields
  <2> HIDE DEF first
  <2> QED BY <2>1, DroppingSet
<1>6. \A i \in 1..n : CodelState(loop[i])
  <2> DEFINE Bad == {i \in 1..n : ~CodelState(loop[i])}
  <2> SUFFICES ASSUME Bad # {} PROVE FALSE
    OBVIOUS
  <2>1. PICK m \in Bad : \A y \in Bad : m <= y
    <3>1. Bad \in SUBSET Nat
      OBVIOUS
    <3> HIDE DEF Bad
    <3> QED BY <3>1, Bytes!LeastNat
  <2>2. m \in 1..n /\ ~CodelState(loop[m])
    BY <2>1
  <2> HIDE DEF first, Rest
  <2>3. m # 1
    BY <1>4, <1>5, <2>2
  <2>4. m - 1 \in 1..n /\ ~(m <= m - 1)
    BY <1>2, <2>2, <2>3
  <2>5. CodelState(loop[m - 1])
    BY <2>1, <2>4
  <2>6. CodelState(DropNext(loop[m - 1], queue[m], Rest(m), t))
    BY <2>5, DropNextFields
  <2> QED BY <1>4, <2>2, <2>3, <2>6
<1>7. \A i \in 1..n : loop[i].dropping => i + 1 < n
  <2> SUFFICES ASSUME NEW i \in 1..n, loop[i].dropping PROVE i + 1 < n
    OBVIOUS
  <2>1. \E c : dodequeue(c, queue[i], Rest(i), t).ok
    <3>1. CASE i = 1
      <4>1. loop[1].dropping = first.ok
        <5> HIDE DEF first, Rest
        <5> QED BY <1>4, <1>5, <1>2
      <4> QED BY <3>1, <4>1
    <3>2. CASE i # 1
      <4> HIDE DEF first, Rest
      <4>1. i - 1 \in 1..n /\ loop[i] = DropNext(loop[i - 1], queue[i], Rest(i), t)
        BY <1>2, <1>4, <3>2
      <4>2. DropNext(loop[i - 1], queue[i], Rest(i), t).dropping
              = dodequeue(loop[i - 1], queue[i], Rest(i), t).ok
        <5>1. CodelState(loop[i - 1])
          BY <1>6, <4>1
        <5> QED BY <5>1, DropNextFields
      <4>3. loop[i].dropping = dodequeue(loop[i - 1], queue[i], Rest(i), t).ok
        BY <4>1, <4>2
      <4> QED BY <4>3
    <3> QED BY <3>1, <3>2
  <2> QED BY <2>1, DropNeedsBytes
<1>8. first.ok => 1 + 1 < n
  BY <1>2, DropNeedsBytes
<1> HIDE DEF first, Rest, n
<1>9. CASE codel.dropping
  <2>1. k # 1 => k - 1 \in 1..n /\ k - 1 \in 1..(k - 1) /\ k - 1 + 1 = k
    BY <1>2
  <2>2. k # 1 => loop[k - 1].dropping
    BY <1>1, <1>9, <2>1
  <2>3. k # 1 => k < n
    BY <1>7, <2>1, <2>2
  <2> QED BY <1>1, <1>2, <1>6, <1>9, <2>3 DEF n
<1>10. CASE ~codel.dropping /\ first.ok
  <2>1. k = 2 /\ codel' = StartDropping(
                            dodequeue(first.c, queue[2], Rest(2), t).c, t)
    BY <1>1, <1>10
  <2>2. CodelState(codel')
    <3>1. CodelState(dodequeue(first.c, queue[2], Rest(2), t).c)
      BY <1>5, CodelFields
    <3> QED BY <2>1, <3>1, CodelFields
  <2> QED BY <1>2, <1>8, <1>10, <2>1, <2>2 DEF n
<1>11. CASE ~codel.dropping /\ ~first.ok
  BY <1>1, <1>5, <1>11
<1> QED BY <1>9, <1>10, <1>11

\* The state CoDel keeps is a state of CoDel, in every state of the link.
LEMMA CodelHolds == Spec => [](IInv /\ CodelState(codel))
<1>1. Init => CodelState(codel)
  BY DEF Init, CodelInit, CodelState
<1>2. IInv /\ CodelState(codel) /\ [Next]_vars => CodelState(codel')
  <2> SUFFICES ASSUME IInv, CodelState(codel), [Next]_vars
               PROVE  CodelState(codel')
    OBVIOUS
  <2>1. CASE SendNext
    <3>1. PICK k \in 1..Len(queue) : Takes(k, clock)
      BY <2>1 DEF SendNext
    <3>2. queue \in Seq(Packet)
      BY OutTypes
    <3>3. CASE discipline.kind = "codel"
      <4>1. CodelTakes(k, clock)
        BY <3>1, <3>3 DEF Takes
      <4> QED BY <3>2, <4>1, CodelLeavesLast
    <3>4. CASE discipline.kind # "codel"
      BY <3>1, <3>4 DEF Takes
    <3> QED BY <3>3, <3>4
  <2>2. CASE ~SendNext
    <3>1. codel' = codel
      BY <2>2 DEF Next, Tick, OpportunityOver, Wait, Poll, NoPacketToRead,
                  Finish, Burn, ReadPacket, WritePackets, SendMore,
                  Rationalized, vars, queueVars
    <3> QED BY <3>1
  <2> QED BY <2>1, <2>2
<1>3. IInv /\ CodelState(codel) /\ [Next]_vars => (IInv /\ CodelState(codel))'
  BY <1>2, NextIInv
<1>4. Init => IInv /\ CodelState(codel)
  BY <1>1, InitIInv
<1> QED BY <1>3, <1>4, PTL DEF Spec

\* codel_packet_queue.cc:23-54 and 62-94: for every target, interval, trace and
\* traffic, a dequeue of any queue keeps the last packet on its way, however
\* many CoDel drops in one call.
THEOREM KeepsLast == Spec => LastNotDropped
<1>1. IInv /\ CodelState(codel) /\ IInv' /\ [Next]_vars =>
        [pc = "send" /\ queue # << >> =>
           contents(Last(queue)) \in ToSet(Pipeline')]_vars
  <2> SUFFICES ASSUME IInv, CodelState(codel), IInv', Next,
                      pc = "send", queue # << >>
               PROVE  contents(Last(queue)) \in ToSet(Pipeline')
    OBVIOUS
  <2> DEFINE n == Len(queue)
  <2>1. /\ queue \in Seq(Packet) /\ n \in Nat \ {0}
        /\ \A i \in 1..n : queue[i] \in Packet
    BY OutTypes, EmptySeq
  <2>2. n \in 1..n /\ 1 \in 1..n /\ Last(queue) = queue[n]
    BY <2>1 DEF Last
  <2>3. ToSet(Pipeline') = OnTheWay'
    <3>1. (IInv => ToSet(Pipeline) = OnTheWay)'
      BY PipelineSet, PTL
    <3>2. ToSet(Pipeline') = ToSet(Pipeline)'
      BY DEF ToSet
    <3> QED BY <3>1, <3>2
  <2> SUFFICES contents(queue[n]) \in OnTheWay'
    BY <2>2, <2>3
  <2>4. CASE queue' = queue
    <3>1. contents(queue'[n]) \in OnTheWay'
      BY <2>2, <2>4 DEF OnTheWay, contents
    <3> QED BY <2>4, <3>1
  <2>5. CASE SendNext
    <3>1. PICK k \in 1..n : /\ Takes(k, clock)
                            /\ queue' = SubSeq(queue, k + 1, n)
      BY <2>5 DEF SendNext
    <3>2. k = 1 \/ k < n
      <4>1. CASE discipline.kind = "codel"
        <5>1. CodelTakes(k, clock)
          BY <3>1, <4>1 DEF Takes
        <5> QED BY <2>1, <5>1, CodelLeavesLast
      <4>2. CASE discipline.kind # "codel"
        BY <3>1, <4>2 DEF Takes
      <4> QED BY <4>1, <4>2
    <3>3. CASE k = n
      <4>1. n = 1
        BY <2>1, <3>2, <3>3
      <4>2. /\ queue[1] \in Packet /\ queue[1].size \in 1..PacketSize
            /\ budget \in 1..PacketSize
        <5>1. queue[1] \in Packet
          BY <2>1, <2>2
        <5>2. queue[1].size \in 1..PacketSize
          BY <5>1 DEF Packet
        <5>3. budget \in 1..PacketSize
          BY <2>5, PacketSizeAssumption DEF SendNext, IInv, TypeOK
        <5> QED BY <5>1, <5>2, <5>3
      <4>3. SendBytes(queue[1], queue[1].size) /\ written' = written
        BY <2>5 DEF SendNext, historyVars
      <4>4. contents(queue[1]) \in OnTheWay'
        BY <4>2, <4>3, SentStays
      <4> QED BY <4>1, <4>4
    <3>4. CASE k # n
      <4>1. /\ \A i \in (k + 1)..n : queue[i] \in Packet
            /\ k + 1 \in Int /\ n \in Int
        BY <2>1
      <4> HIDE DEF n
      <4>2. /\ Len(queue') = IF k + 1 <= n THEN n - (k + 1) + 1 ELSE 0
            /\ \A i \in 1..(n - (k + 1) + 1) : queue'[i] = queue[(k + 1) + i - 1]
        BY <3>1, <4>1, SubSeqProperties
      <4>3. /\ n - k \in 1..(n - (k + 1) + 1) /\ (k + 1) + (n - k) - 1 = n
            /\ n - k \in 1..Len(queue')
        BY <2>1, <3>1, <3>4, <4>2
      <4>4. queue'[n - k] = queue[n]
        BY <4>2, <4>3
      <4>5. contents(queue'[n - k]) \in OnTheWay'
        BY <4>3 DEF OnTheWay, contents
      <4> QED BY <4>4, <4>5
    <3> QED BY <3>3, <3>4
  <2>6. SendNext \/ queue' = queue
    BY DEF Next, Tick, OpportunityOver, Wait, Poll, NoPacketToRead, Finish,
           Burn, ReadPacket, WritePackets, SendMore, Rationalized, queueVars
  <2> QED BY <2>4, <2>5, <2>6
<1> QED BY <1>1, CodelHolds, InvariantHolds, PTL DEF Spec, LastNotDropped
=============================================================================
