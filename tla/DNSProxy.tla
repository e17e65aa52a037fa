------------------------------ MODULE DNSProxy ------------------------------
(***************************************************************************)
(* The DNS proxy (src/src/util/dns_proxy.cc).  A thread relays one TCP     *)
(* connection: two byte stream queues between the client and the DNS       *)
(* server, and the Poller's loop over four actions.  Another relays one    *)
(* UDP query and waits for its answer in one poll.                         *)
(*                                                                         *)
(* The sockets are blocking: a write comes back when all of it is in the   *)
(* kernel's buffer.  The bytes a side sends are numbered.                  *)
(*                                                                         *)
(* accept and recvfrom run before a thread, on the event loop's: when they *)
(* throw there is no thread, and the loop that owns the proxy ends.        *)
(***************************************************************************)
EXTENDS StreamRing

CONSTANTS ClientBytes, ServerBytes,  \* bound: the bytes a side sends
          Room,        \* the kernel's buffer towards a side
          Queries,     \* UDP queries
          MaxReplies   \* bound: replies the server sends to one of them

ASSUME BoundsAssumption ==
  /\ ClientBytes \in Nat /\ 1..ClientBytes \subseteq Byte
  /\ ServerBytes \in Nat /\ 1..ServerBytes \subseteq Byte
  /\ Room \in Nat \ {0} /\ MaxReplies \in Nat

VARIABLES
  relay,       \* where the thread of the connection is
  turn,        \* the action that is looked at after poll
  revents,     \* the actions poll found ready
  hup,         \* the sides poll found reset
  moved,       \* how much of a write is in the kernel
  eof,         \* which sides have been read to the end (and are cancelled)
  from_client, from_server,           \* the rings
  client_read, server_read,        \* history: what has been read from a side
  client_written, server_written,     \* history: what has been written to one
  sent, fin, reset, got,              \* of each side: what it does
  query,       \* of each UDP query: where its thread is
  replies,     \* replies the server has sent to it
  answers      \* answers passed on to the client

rings == <<from_client, from_server, client_read, server_read,
           client_written, server_written>>
peers == <<sent, fin, reset, got>>
thread == <<relay, turn, revents, hup, moved, eof>>
udp == <<query, replies, answers>>
vars == <<thread, rings, peers, udp>>

Sides == {"client", "server"}
Other(s) == IF s = "client" THEN "server" ELSE "client"

FromClient == INSTANCE ByteStreamQueue
  WITH ring <- from_client, in <- client_read, out <- server_written
FromServer == INSTANCE ByteStreamQueue
  WITH ring <- from_server, in <- server_read, out <- client_written

Bytes(s) == IF s = "client" THEN ClientBytes ELSE ServerBytes
From(s) == IF s = "client" THEN from_client ELSE from_server
Read(s) == IF s = "client" THEN client_read ELSE server_read
Written(s) == IF s = "client" THEN client_written ELSE server_written

\* The actions of handle_tcp, in the order they are added.
Actions == << [side |-> "server", direction |-> "In"],
              [side |-> "client", direction |-> "In"],
              [side |-> "server", direction |-> "Out"],
              [side |-> "client", direction |-> "Out"] >>

TypeOK ==
  /\ relay \in {"none", "accepted", "polling", "serving", "writing", "done",
                "cut", "killed"}
  /\ turn \in 1..4 /\ revents \subseteq 1..4 /\ hup \subseteq Sides
  /\ moved \in 0..Size /\ eof \in [Sides -> BOOLEAN]
  /\ FromClient!TypeOK /\ FromServer!TypeOK
  /\ \A s \in Sides :
       sent[s] \in 0..Bytes(s) /\ got[s] \in 0..Bytes(Other(s))
  /\ fin \in [Sides -> BOOLEAN] /\ reset \in [Sides -> BOOLEAN]
  /\ query \in [Queries -> {"none", "asked", "ended"}]
  /\ replies \in [Queries -> 0..MaxReplies]
  /\ answers \in [Queries -> 0..MaxReplies]

\* A connection, or queries: the threads share nothing but the listeners.
Init ==
  /\ relay \in {"none", "accepted"} /\ turn = 1 /\ revents = {}
  /\ hup = {} /\ moved = 0
  /\ eof = [s \in Sides |-> FALSE]
  /\ FromClient!Init /\ FromServer!Init
  /\ sent = [s \in Sides |-> 0] /\ got = [s \in Sides |-> 0]
  /\ fin = [s \in Sides |-> FALSE] /\ reset = [s \in Sides |-> FALSE]
  /\ query = [q \in Queries |-> "none"]
  /\ replies = [q \in Queries |-> 0] /\ answers = [q \in Queries |-> 0]
-----------------------------------------------------------------------------
(* The two ends of the connection.                                         *)

\* What the kernel holds for a side.
InKernel(s) ==
  Len(Written(s)) - got[s]
    + (IF relay = "writing" /\ Actions[turn].side = s THEN moved ELSE 0)

PeerSends(s) ==
  /\ relay # "none" /\ ~fin[s] /\ ~reset[s] /\ sent[s] < Bytes(s)
  /\ sent' = [sent EXCEPT ![s] = @ + 1]
  /\ UNCHANGED <<thread, rings, fin, reset, got, udp>>

PeerCloses(s) ==
  /\ relay # "none" /\ ~fin[s] /\ ~reset[s]
  /\ fin' = [fin EXCEPT ![s] = TRUE]
  /\ UNCHANGED <<thread, rings, sent, reset, got, udp>>

PeerResets(s) ==
  /\ relay # "none" /\ ~reset[s]
  /\ reset' = [reset EXCEPT ![s] = TRUE]
  /\ UNCHANGED <<thread, rings, sent, fin, got, udp>>

PeerReads(s) ==
  /\ ~reset[s] /\ InKernel(s) > 0
  /\ got' = [got EXCEPT ![s] = @ + 1]
  /\ UNCHANGED <<thread, rings, sent, fin, reset, udp>>
-----------------------------------------------------------------------------
(* The thread of handle_tcp.                                               *)

\* connect, which may throw.
Connect ==
  /\ relay = "accepted"
  /\ relay' \in {"polling", "cut"}
  /\ UNCHANGED <<turn, revents, hup, moved, eof, rings, peers, udp>>

\* A slip: a side is polled although it has been read to its end.
InterestedAfterEof(a) ==
  \/ a.direction = "In" /\ space_available(From(a.side))
  \/ a.direction = "Out" /\ non_empty(From(Other(a.side)))

\* Poller::poll: an action is active and interested, and its descriptor has not
\* had its end of file.
Interested(a) ==
  \/ /\ a.direction = "In" /\ ~eof[a.side]
     /\ space_available(From(a.side))
  \/ a.direction = "Out" /\ non_empty(From(Other(a.side)))

Ready(a) ==
  \/ a.direction = "In" /\ (sent[a.side] > Len(Read(a.side)) \/ fin[a.side])
  \/ a.direction = "Out" /\ InKernel(a.side) < Room

Wanted == {i \in 1..4 : Interested(Actions[i])}

\* A slip: what is ready is served, whether it was asked for or not.
ReventsUnasked == {i \in 1..4 : Ready(Actions[i])}

Revents == {i \in Wanted : Ready(Actions[i])}

\* poll finds something to do; a timeout only polls again.
Poll ==
  /\ relay = "polling"
  /\ \/ Wanted = {} /\ relay' = "done" /\ UNCHANGED <<revents, hup>>
     \/ /\ Wanted # {}
        /\ revents' = Revents
        /\ hup' = {s \in Sides : reset[s]}
        /\ revents' # {} \/ hup' # {}
        /\ relay' = "serving"
  /\ turn' = 1
  /\ UNCHANGED <<moved, eof, rings, peers, udp>>

\* The next action, or the next poll.
Advance ==
  IF turn = 4 THEN relay' = "polling" /\ turn' = 1
  ELSE relay' = "serving" /\ turn' = turn + 1

Serving(direction) ==
  /\ relay = "serving" /\ turn \in revents
  /\ Actions[turn].side \notin hup /\ Actions[turn].direction = direction

\* poll returns Exit for a descriptor with POLLERR or POLLHUP.
Hangup ==
  /\ relay = "serving" /\ Actions[turn].side \in hup
  /\ relay' = "cut"
  /\ UNCHANGED <<turn, revents, hup, moved, eof, rings, peers, udp>>

NotReady ==
  /\ relay = "serving" /\ turn \notin revents
  /\ Actions[turn].side \notin hup
  /\ Advance
  /\ UNCHANGED <<revents, hup, moved, eof, rings, peers, udp>>

\* The bytes a side has sent and that have not been read, up to n.
Unread(s, n) == [i \in 1..n |-> Len(Read(s)) + i]

\* The callback of an input: a push that reads something.
Push ==
  /\ Serving("In")
  /\ \E n \in 1..Size :
       LET s == Actions[turn].side
       IN  /\ Len(Read(s)) + n <= sent[s]
           /\ \/ /\ s = "client" /\ FromClient!push(Unread(s, n))
                 /\ UNCHANGED <<from_server, server_read, client_written>>
              \/ /\ s = "server" /\ FromServer!push(Unread(s, n))
                 /\ UNCHANGED <<from_client, client_read, server_written>>
  /\ Advance
  /\ UNCHANGED <<revents, hup, moved, eof, peers, udp>>

\* A slip: the end of one side's stream ends the relay.
EndOfFileExits ==
  /\ relay' = "done" /\ UNCHANGED turn

\* Cancel.
EndOfFile == Advance

\* A push that reads the end of the file, or throws.
PushNothing ==
  /\ Serving("In")
  /\ LET s == Actions[turn].side
     IN  /\ Len(Read(s)) = sent[s]
         /\ \/ /\ fin[s] /\ eof' = [eof EXCEPT ![s] = TRUE] /\ EndOfFile
            \/ ~fin[s] /\ reset[s] /\ relay' = "cut" /\ UNCHANGED <<turn, eof>>
  /\ UNCHANGED <<revents, hup, moved, rings, peers, udp>>

\* The callback of an output: a pop begins to write.
PopBegins ==
  /\ Serving("Out")
  /\ relay' = "writing" /\ moved' = 0
  /\ UNCHANGED <<turn, revents, hup, eof, rings, peers, udp>>

\* How much the write is given.
Given == contiguous_space_to_pop(From(Other(Actions[turn].side)))

\* A part of it goes into the kernel's buffer.
WriteMoves ==
  /\ relay = "writing"
  /\ LET s == Actions[turn].side
     IN  /\ ~reset[s] /\ moved < Given /\ InKernel(s) < Room
  /\ moved' = moved + 1
  /\ UNCHANGED <<relay, turn, revents, hup, eof, rings, peers, udp>>

\* The write comes back with all of it, or with what went before a reset.
PopEnds ==
  /\ relay = "writing" /\ moved > 0
  /\ moved = Given \/ reset[Actions[turn].side]
  /\ \/ /\ Actions[turn].side = "server" /\ FromClient!pop(moved)
        /\ UNCHANGED <<from_server, server_read, client_written>>
     \/ /\ Actions[turn].side = "client" /\ FromServer!pop(moved)
        /\ UNCHANGED <<from_client, client_read, server_written>>
  /\ Advance /\ moved' = 0
  /\ UNCHANGED <<revents, hup, eof, peers, udp>>

\* A write to a side that has been reset throws; if it had closed before, it
\* raises a SIGPIPE, which nothing ignores.
WriteFails ==
  /\ relay = "writing" /\ moved = 0 /\ reset[Actions[turn].side]
  /\ relay' = IF fin[Actions[turn].side] THEN "killed" ELSE "cut"
  /\ UNCHANGED <<turn, revents, hup, moved, eof, rings, peers, udp>>

handle_tcp ==
  \/ Connect \/ Poll \/ Hangup \/ NotReady \/ Push \/ PushNothing
  \/ PopBegins \/ WriteMoves \/ PopEnds \/ WriteFails
-----------------------------------------------------------------------------
(* The thread of handle_udp.                                               *)

\* A query has been received; its thread sends it on, which may throw.
handle_udp(q) ==
  /\ relay = "none" /\ query[q] = "none"
  /\ \E to \in {"asked", "ended"} : query' = [query EXCEPT ![q] = to]
  /\ UNCHANGED <<thread, rings, peers, replies, answers>>

\* The server answers, perhaps twice, perhaps after the thread has gone.
Replies(q) ==
  /\ query[q] # "none" /\ replies[q] < MaxReplies
  /\ replies' = [replies EXCEPT ![q] = @ + 1]
  /\ UNCHANGED <<thread, rings, peers, query, answers>>

\* The one poll finds a reply, which is read and passed on.
Answer(q) ==
  /\ query[q] = "asked" /\ answers[q] < replies[q]
  /\ answers' = [answers EXCEPT ![q] = @ + 1]
  /\ query' = [query EXCEPT ![q] = "ended"]
  /\ UNCHANGED <<thread, rings, peers, replies>>

\* The poll times out after 60 s, or finds an error.
GiveUp(q) ==
  /\ query[q] = "asked"
  /\ query' = [query EXCEPT ![q] = "ended"]
  /\ UNCHANGED <<thread, rings, peers, replies, answers>>
-----------------------------------------------------------------------------
Next ==
  \/ handle_tcp
  \/ \E s \in Sides :
       PeerSends(s) \/ PeerCloses(s) \/ PeerResets(s) \/ PeerReads(s)
  \/ \E q \in Queries : handle_udp(q) \/ Replies(q) \/ Answer(q) \/ GiveUp(q)

Spec == Init /\ [][Next]_vars

\* The threads go on; the poll of a query times out; each side reads what it is
\* sent, and closes in the end: the code has no timeout for a side that does
\* not.
FairSpec ==
  /\ Spec /\ WF_vars(handle_tcp)
  /\ \A s \in Sides : WF_vars(PeerReads(s)) /\ WF_vars(PeerCloses(s))
  /\ \A q \in Queries : WF_vars(GiveUp(q))
-----------------------------------------------------------------------------
\* Each direction is a pipe (bytestream_queue.cc, dns_proxy.cc:95-109): what is
\* written to one side is a prefix of what the other has sent, and the relay
\* holds no more than its buffers.
RelayIsPipe == FromClient!IsPipe /\ FromServer!IsPipe

\* What Poller::poll asked before the callbacks is still so at each callback:
\* the assertions of push and pop hold (bytestream_queue.cc:36, 68).
StillInterested ==
  relay = "serving" =>
    \A i \in revents : i >= turn => Interested(Actions[i])

\* The relay ends by itself (poller.cc:40) only when both sides have sent their
\* end of file and everything they sent has been written to the other side; it
\* breaks off, losing what it holds, only if it was reset or not connected.
DrainedAtExit ==
  /\ relay = "done" =>
       \A s \in Sides :
         fin[s] /\ Len(Read(s)) = sent[s] /\ Written(Other(s)) = Read(s)
  /\ relay \in {"cut", "killed"} =>
       (\E s \in Sides : reset[s]) \/ client_read \o server_read = <<>>

\* The threads end once both sides close: what is left is passed on, and the
\* loop of dns_proxy.cc:111 stops; the thread of a query ends with its poll.
ThreadsEnd ==
  /\ <>(relay \in {"none", "done", "cut", "killed"})
  /\ \A q \in Queries : query[q] = "asked" ~> query[q] = "ended"

=============================================================================
