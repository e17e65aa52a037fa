----------------------------- MODULE LinkQueue -----------------------------
(***************************************************************************)
(* The link emulator of mm-link: LinkQueue (src/src/frontend/link_queue.cc) *)
(* over one of the packet queues, driven by the Ferry's event loop         *)
(* (PacketShell::Ferry::loop in src/src/packet/packetshell.cc).  The trace *)
(* is a schedule of times at each of which up to PacketSize bytes may      *)
(* leave.                                                                  *)
(*                                                                         *)
(* The process is one thread: a step is an iteration of one of its loops.  *)
(* The clock is CLOCK_REALTIME and moves at any time, back as well (once)  *)
(* when it is set.                                                         *)
(***************************************************************************)
EXTENDS PacketQueue

CONSTANTS Schedule,     \* schedule_: the trace's times
          Links,        \* the queues the link may be given, each with the
                        \* sizes of the packets that may arrive
          Repeats,      \* values of repeat_: FALSE is --once
          ClockSteps,   \* can the clock be set back?
          MaxTime       \* bound: the clock

\* What the constructor demands of a trace.
ASSUME ScheduleAssumption ==
  /\ Schedule \in Seq(Nat) /\ Len(Schedule) > 0
  /\ \A i, j \in 1..Len(Schedule) : i <= j => Schedule[i] <= Schedule[j]
  /\ Schedule[Len(Schedule)] > 0
ASSUME LinkAssumption ==
  /\ \A l \in Links : /\ l.discipline \in Discipline
                      /\ l.traffic \in Seq(1..PacketSize)
  /\ Repeats \subseteq BOOLEAN /\ ClockSteps \in BOOLEAN /\ MaxTime \in Nat

VARIABLES clock,      \* what timestamp() returns
          pc,         \* where the loop is
          traffic,    \* sizes of the packets that have not arrived yet
          repeat,     \* repeat_
          now,        \* the time rationalize was called with, 0 outside it
          incoming,   \* the packet read_packet will enqueue, if any
          next,       \* next_delivery_, from 1
          base,       \* base_timestamp_
          finished,   \* finished_
          dtime,      \* this_delivery_time
          budget,     \* bytes_left_in_this_delivery, 0 between deliveries
          transit,    \* packet_in_transit_
          left,       \* packet_in_transit_bytes_left_
          output,     \* output_queue_, of contents
          todo,       \* the actions poll found ready
          arrived,    \* history: packets that have arrived
          written,    \* history: packets written to the sibling, in order
          before,     \* history: by packet, the bytes sent when it was queued
          adjusted    \* history: the clock has been set back

queueVars == <<discipline, queue, codel>>
deliveryVars == <<next, base, finished, dtime, budget, transit, left>>
historyVars == <<arrived, written, before, adjusted>>
vars == <<queueVars, clock, pc, traffic, repeat, now, incoming, deliveryVars,
          output, todo, historyVars>>

NoPacket == [id |-> 0, size |-> 0, arrival |-> 0]

\* What leaves the link, without the time of arrival.
Contents == [id : Nat \ {0}, size : 1..PacketSize]
contents(p) == [id |-> p.id, size |-> p.size]

TypeOK ==
  /\ discipline \in Discipline /\ queue \in Seq(Packet)
  /\ clock \in Nat /\ now \in Nat /\ dtime \in Nat /\ base \in Nat
  /\ pc \in {"wait", "rationalize", "send", "poll", "tun", "sibling", "finish",
             "exited", "aborted"}
  /\ traffic \in Seq(1..PacketSize)
  /\ repeat \in BOOLEAN /\ finished \in BOOLEAN
  /\ incoming \in Packet \cup {NoPacket} /\ transit \in Packet \cup {NoPacket}
  /\ next \in 1..Len(Schedule)
  /\ budget \in 0..PacketSize /\ left \in 0..PacketSize
  /\ output \in Seq(Contents) /\ written \in Seq(Contents)
  /\ todo \subseteq {"tun", "sibling", "finish"}
  /\ arrived \in Nat /\ before \in Seq(Nat) /\ adjusted \in BOOLEAN

Init ==
  /\ \E l \in Links : discipline = l.discipline /\ traffic = l.traffic
  /\ queue = << >> /\ codel = CodelInit
  /\ clock = 0 /\ pc = "wait" /\ repeat \in Repeats
  /\ now = 0 /\ incoming = NoPacket
  /\ next = 1 /\ base = 0 /\ finished = FALSE
  /\ dtime = 0 /\ budget = 0 /\ transit = NoPacket /\ left = 0
  /\ output = << >> /\ todo = {}
  /\ arrived = 0 /\ written = << >> /\ before = << >> /\ adjusted = FALSE

Tick ==
  /\ \E t \in 0..MaxTime :
       /\ t = clock + 1 \/ (ClockSteps /\ ~adjusted /\ t < clock)
       /\ clock' = t
       /\ adjusted' = (adjusted \/ t < clock)
  /\ UNCHANGED <<queueVars, pc, traffic, repeat, now, incoming, deliveryVars,
                 output, todo, arrived, written, before>>
-----------------------------------------------------------------------------
(* rationalize: emulate the link up to now.                                *)

NextTime == Schedule[next] + base

\* next_delivery_time() <= now; it is the largest integer once finished.
Due == ~finished /\ NextTime <= now

\* A slip: the wraparound does not move the base.
BurnSameRound ==
  /\ pc = "rationalize" /\ Due
  /\ dtime' = NextTime /\ budget' = PacketSize
  /\ next' = IF next < Len(Schedule) THEN next + 1 ELSE 1
  /\ finished' = (next = Len(Schedule) /\ ~repeat)
  /\ pc' = "send"
  /\ UNCHANGED <<queueVars, clock, traffic, repeat, now, incoming, base,
                 transit, left, output, todo, historyVars>>

\* use_a_delivery_opportunity.
Burn ==
  /\ pc = "rationalize" /\ Due
  /\ dtime' = NextTime
  /\ budget' = PacketSize
  /\ IF next < Len(Schedule)
     THEN next' = next + 1 /\ UNCHANGED <<base, finished>>
     ELSE /\ next' = 1
          /\ base' = IF repeat THEN base + Schedule[Len(Schedule)] ELSE base
          /\ finished' = ~repeat
  /\ pc' = "send"
  /\ UNCHANGED <<queueVars, clock, traffic, repeat, now, incoming, transit,
                 left, output, todo, historyVars>>

Least(m, n) == IF m < n THEN m ELSE n

\* A slip: ending the opportunity with a packet.
SendOnePacket(p, n) ==
  LET amount == Least(budget, n)
  IN  /\ transit' = IF n = amount THEN NoPacket ELSE p
      /\ left' = n - amount
      /\ budget' = 0
      /\ output' = IF n = amount THEN Append(output, contents(p)) ELSE output

\* Send what fits of packet p, of which n bytes are left.
SendBytes(p, n) ==
  LET amount == Least(budget, n)
  IN  /\ transit' = IF n = amount THEN NoPacket ELSE p
      /\ left' = n - amount
      /\ budget' = budget - amount
      /\ output' = IF n = amount THEN Append(output, contents(p)) ELSE output

\* Go on with the packet in transit.
SendMore ==
  /\ pc = "send" /\ budget > 0 /\ left > 0
  /\ SendBytes(transit, left)
  /\ UNCHANGED <<queueVars, clock, pc, traffic, repeat, now, incoming, next,
                 base, finished, dtime, todo, historyVars>>

\* A slip: not looking whether a packet is in transit.
SendNextAlways ==
  /\ pc = "send" /\ budget > 0 /\ queue # << >>
  /\ \E k \in 1..Len(queue) :
       /\ Takes(k, clock)
       /\ queue' = SubSeq(queue, k + 1, Len(queue))
  /\ SendBytes(queue[1], queue[1].size)
  /\ UNCHANGED <<discipline, clock, pc, traffic, repeat, now, incoming, next,
                 base, finished, dtime, todo, historyVars>>

\* Take the next packet from the queue.
SendNext ==
  /\ pc = "send" /\ budget > 0 /\ left = 0 /\ queue # << >>
  /\ \E k \in 1..Len(queue) :
       /\ Takes(k, clock)
       /\ queue' = SubSeq(queue, k + 1, Len(queue))
  /\ SendBytes(queue[1], queue[1].size)
  /\ UNCHANGED <<discipline, clock, pc, traffic, repeat, now, incoming, next,
                 base, finished, dtime, todo, historyVars>>

OpportunityOver ==
  /\ pc = "send"
  /\ budget = 0 \/ (left = 0 /\ queue = << >>)
  /\ pc' = "rationalize"
  /\ UNCHANGED <<queueVars, clock, traffic, repeat, now, incoming,
                 deliveryVars, output, todo, historyVars>>

\* All bytes that have left the link.
BytesSent ==
  size_bytes(written \o output) + (IF left > 0 THEN transit.size - left ELSE 0)

\* rationalize returns: to wait_time, or to read_packet, which enqueues.  A
\* failed assertion of the queue aborts the process.
Rationalized ==
  /\ pc = "rationalize" /\ ~Due
  /\ IF incoming = NoPacket THEN pc' = "poll" /\ UNCHANGED <<queue, before>>
     ELSE /\ queue' = AfterEnqueue(incoming)
          /\ before' = Append(before, BytesSent)
          /\ pc' = IF assert_good(queue') THEN "sibling" ELSE "aborted"
  /\ incoming' = NoPacket
  /\ now' = IF incoming = NoPacket THEN now ELSE 0
  /\ UNCHANGED <<discipline, codel, clock, traffic, repeat, deliveryVars,
                 output, todo, arrived, written, adjusted>>
-----------------------------------------------------------------------------
(* The Ferry: internal_loop's wait_time, poll, and the three actions in    *)
(* the order they were added.                                              *)

Wait ==
  /\ pc = "wait"
  /\ now' = clock
  /\ pc' = "rationalize"
  /\ UNCHANGED <<queueVars, clock, traffic, repeat, incoming, deliveryVars,
                 output, todo, historyVars>>

\* The tun device may or may not have a packet; the sibling can be written.
\* poll returns when something is ready or the wait is over, which may be
\* later than asked, or earlier by a clock that has been set back.
Poll ==
  /\ pc = "poll"
  /\ \E tun \in {{}, IF traffic = << >> THEN {} ELSE {"tun"}} :
       todo' = tun \cup (IF output # << >> THEN {"sibling"} ELSE {})
                   \cup (IF finished THEN {"finish"} ELSE {})
  /\ todo' # {} \/ (~finished /\ (NextTime <= clock \/ adjusted))
  /\ pc' = "tun" /\ now' = 0
  /\ UNCHANGED <<queueVars, clock, traffic, repeat, incoming, deliveryVars,
                 output, historyVars>>

\* A slip: read_packet enqueues before it rationalizes.
ReadPacketFirst ==
  /\ pc = "tun" /\ "tun" \in todo
  /\ arrived' = arrived + 1
  /\ now' = clock
  /\ queue' = AfterEnqueue([id |-> arrived + 1, size |-> Head(traffic),
                            arrival |-> clock])
  /\ traffic' = Tail(traffic)
  /\ pc' = "rationalize"
  /\ UNCHANGED <<discipline, codel, clock, repeat, incoming, deliveryVars,
                 output, todo, written, before, adjusted>>

ReadPacket ==
  /\ pc = "tun" /\ "tun" \in todo
  /\ arrived' = arrived + 1
  /\ now' = clock
  /\ incoming' =
       [id |-> arrived + 1, size |-> Head(traffic), arrival |-> clock]
  /\ traffic' = Tail(traffic)
  /\ pc' = "rationalize"
  /\ UNCHANGED <<queueVars, clock, repeat, deliveryVars, output, todo,
                 written, before, adjusted>>

NoPacketToRead ==
  /\ pc = "tun" /\ "tun" \notin todo
  /\ pc' = "sibling"
  /\ UNCHANGED <<queueVars, clock, traffic, repeat, now, incoming,
                 deliveryVars, output, todo, historyVars>>

\* A slip: the packets written are not popped.
WritePacketsNoPop ==
  /\ pc = "sibling"
  /\ written' = IF "sibling" \in todo THEN written \o output ELSE written
  /\ pc' = "finish"
  /\ UNCHANGED <<queueVars, clock, traffic, repeat, now, incoming,
                 deliveryVars, output, todo, arrived, before, adjusted>>

\* write_packets, when poll was told that output was pending.
WritePackets ==
  /\ pc = "sibling"
  /\ IF "sibling" \in todo
     THEN written' = written \o output /\ output' = << >>
     ELSE UNCHANGED <<written, output>>
  /\ pc' = "finish"
  /\ UNCHANGED <<queueVars, clock, traffic, repeat, now, incoming,
                 deliveryVars, todo, arrived, before, adjusted>>

\* A slip: asking finished() in the callback.
FinishAtOnce ==
  /\ pc = "finish"
  /\ pc' = IF finished THEN "exited" ELSE "wait"
  /\ UNCHANGED <<queueVars, clock, traffic, repeat, now, incoming,
                 deliveryVars, output, todo, historyVars>>

\* The third action leaves the loop with status 77.
Finish ==
  /\ pc = "finish"
  /\ pc' = IF "finish" \in todo THEN "exited" ELSE "wait"
  /\ UNCHANGED <<queueVars, clock, traffic, repeat, now, incoming,
                 deliveryVars, output, todo, historyVars>>

Next ==
  \/ Tick
  \/ Burn \/ SendMore \/ SendNext \/ OpportunityOver \/ Rationalized
  \/ Wait \/ Poll \/ ReadPacket \/ NoPacketToRead \/ WritePackets \/ Finish

Spec == Init /\ [][Next]_vars
-----------------------------------------------------------------------------
\* link_queue.cc:210-213: the four assertions of rationalize, at the packet
\* that is sent next.  A packet never leaves by an opportunity older than its
\* arrival, whatever the clock does.
Sendable(p, n) ==
  /\ p.arrival <= dtime
  /\ n > 0 /\ n <= PacketSize /\ n <= p.size

AssertionsHold ==
  pc = "send" /\ budget > 0 =>
    /\ left > 0 => Sendable(transit, left)
    /\ left = 0 /\ queue # << >> => Sendable(queue[1], queue[1].size)

\* The packets that have not left the link yet, and all that are on their way,
\* oldest first.
Waiting == IF left > 0 THEN <<transit>> \o queue ELSE queue
Pipeline ==
  written \o output \o [i \in DOMAIN Waiting |-> contents(Waiting[i])]

\* The link neither reorders nor repeats packets, whatever the queue drops.
InOrder ==
  \A i, j \in DOMAIN Pipeline : i < j => Pipeline[i].id < Pipeline[j].id

\* Neither the infinite nor the drop tail queue, nor the link behind it, loses
\* a packet that was accepted, not even one sent in parts by several
\* opportunities (link_queue.cc:201-230).
KeepsAccepted ==
  [][discipline.kind \in {"infinite", "droptail"} =>
       ToSet(Pipeline) \subseteq ToSet(Pipeline')]_vars

\* infinite_packet_queue.hh:26, drop_head_packet_queue.hh:20-31: the infinite
\* queue and the drop head queue always take the newest packet, also the one
\* whose enqueue fails the assertion because it would drop two for it (a drop
\* head queue whose limit in bytes is less than one packet excepted).
NewestKept ==
  /\ discipline.kind \in {"infinite", "drophead"}
  /\ incoming = NoPacket /\ arrived > 0
  => \E p \in ToSet(Pipeline) : p.id = arrived

\* The opportunities of the trace up to time t: with repeat, the trace starts
\* again, each time later by its last time.
Opportunities(t) ==
  LET period == Schedule[Len(Schedule)]
      rounds == IF repeat THEN 0..t ELSE {0}
  IN  Cardinality({x \in rounds \X (1..Len(Schedule)) :
                     x[1] * period + Schedule[x[2]] <= t})

\* The trace bounds the link: never have more bytes left than the
\* opportunities up to the last one used allow.
FollowsTrace == BytesSent <= PacketSize * Opportunities(dtime)

\* The link wastes nothing: when the loop goes to sleep, every opportunity
\* since the arrival of a packet that still waits has been used in full, by
\* bytes that left after the packet was queued.  (A clock set back makes
\* packets arrive before opportunities already used.)
WorkConserving ==
  pc = "poll" /\ ~adjusted =>
    \A p \in ToSet(Waiting) :
      BytesSent - before[p.id] >=
        PacketSize * (Opportunities(now) - Opportunities(p.arrival))

\* With --once the loop ends after the last opportunity, but never with
\* packets that have left the link and are not written.
ExitDrained == pc = "exited" => finished /\ output = << >>

\* codel_packet_queue.cc:24-25: "we ignore the drop decision if the current
\* packet is the only one in the queue".  However many packets CoDel drops, a
\* dequeue never loses the last one: the queue judged too long held more than
\* a packet's worth of bytes behind each.
LastNotDropped ==
  [][pc = "send" /\ queue # << >> =>
       contents(Last(queue)) \in ToSet(Pipeline')]_vars

\* codel_packet_queue.hh:18-21: "(CoDel) AQM Implementation based on IETF
\* draft-ietf-aqm-codel-04": a packet that is dropped is older than the one
\* dequeue returns, which is the last it took out of the queue.
DropsFromHead ==
  [][\A k \in 1..Len(queue) :
       /\ pc = "send" /\ Len(queue') = Len(queue) - k
       => contents(queue[k]) \in ToSet(Pipeline')]_vars

\* drop_head_packet_queue.hh:26 "do we need to drop from the head?": dropping
\* until the queue is good satisfies the assertions on the way.
NeverAborts == pc # "aborted"
=============================================================================
