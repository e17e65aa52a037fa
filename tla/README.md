# v2proxy in TLA+

v2proxy is mahimahi with limits on cloud resources: a recorder whose HTTP
proxy filters what an application asks of its cloud, in one suite with the
shells that emulate links, delays and loss.  This directory models its core
logic in TLA+, checks it with TLC on small instances, and proves the most
important properties with TLAPS for every instance.

Paths below are relative to `src/src/`.  In `PROJECT.json`, `map` gives the
lines each definition stands for, `hazards` the places that are hard to test,
`mutants` a slip for every property that makes TLC report it.

## The system

| Component | State it keeps | Operations | Interacts with |
|---|---|---|---|
| Cloud resource list (`cloud/`) | a static map of two vectors, invoked and blocked | invoke one, invoke many, assign an id, print, terminate | every connection thread; a mutex in `invoke_resource` only |
| V2 filters (`http/v2filter_*.hh`) | none | look for keywords in a buffer, take resources, rewrite or block; look for instance ids | the list |
| HTTP proxy (`httpserver/http_proxy.cc`) | per connection: two parsers, two sockets | four poll actions: read and write each side | filters, parsers, poller, store; a detached thread per connection |
| Poller (`util/poller.cc`) | actions with interests, one pollfd each | `poll`: interests, system call, callbacks in order | whoever registers actions |
| HTTP parsers (`http/`) | unparsed bytes, message in progress, complete messages; requests that await a response | `parse`, `front`, `pop`, `new_request_arrived` | the proxy |
| Backing store (`http/backing_store.cc`) | a folder, a mutex | `save` | every connection thread |
| Event loop and children (`util/event_loop.cc`, `child_process.cc`) | children with their records, a signal descriptor | one signal at a time; search, suspend, resume, end; destructors | the kernel; every shell and ferry |
| Link emulation (`frontend/link_queue.cc`) | trace position, packet in transit, output queue | `rationalize`, `read_packet`, `write_packets`, `wait_time` | a packet queue, the ferry's loop, the clock |
| Packet queues (`packet/`) | a queue and its limits; CoDel and PIE also when to drop | `enqueue`, `dequeue` | the link |
| Packet shell and ferry (`packet/packetshell.cc`) | two processes with a tun device each | start the two links, pass a descriptor, ferry | event loop, link, network set-up |
| Delay, loss, on/off and meter (`frontend/`) | queues of packets with times | as the link | ferry |
| Byte stream ring, DNS proxy (`util/`) | a ring buffer; two sockets | push, pop; relay UDP and TCP | poller |
| Recording and replay (`frontend/record*`, `replay*`, `web_server.cc`) | a container, a recorder, one Apache per recorded address; recorded pairs | set up, run the user's command, take down; match a request with the best recorded one | event loop, network set-up, Apache |
| Network set-up (`util/nat.cc`, `netdevice.cc`, `util.cc`, ...) | devices, rules, daemons, files; privileges, environment | made by constructors, removed by destructors | kernel, every shell |
| Live graphs (`graphing/`) | bins, a window | add, draw | link (output only) |

What makes them correct, and is hard:

* **List and filters.** The limit holds whatever the number of threads, and
  nobody is refused below it; what is forwarded was granted; ids are not lost.
  Threads interleave between the locked steps and inside the unlocked ones.
* **Proxy.** Responses are matched to requests only by order, in five queues,
  while reads split messages anywhere, a 405 of the proxy's own is put between
  the server's, sockets fail and close, and interests are used after the state
  they were computed from has changed.
* **Event loop.** Signals merge, children stop, are continued and die at any
  point of a search; the process stops itself; destructors wait.
* **Shells.** They start as root and run the user's command as the user; what
  they set up outside of themselves is there while it is used and removed at
  the end, whichever of up to five processes ends first, and whichever
  operation of a constructor fails.
* **Parsers.** The messages handed on are those that were sent, however reads
  cut them, for every way a body may end, up to the last one a closed stream
  leaves behind.
* **Ring and DNS relay.** Bytes come out as they went in, across every wrap;
  poll's answers are used after other callbacks have run; a half close loses
  nothing, and the thread ends.
* **Link.** Packets leave by the trace: none before its arrival, none out of
  order, no opportunity wasted or used twice, though the loop wakes late, the
  clock can be set back, and opportunities carry parts of packets.

## Modules

| Module | Models | A step is |
|---|---|---|
| `ResourceQuota` | what the list promises: an exact quota | a grant or a refusal |
| `CloudResourceList` | the list and its functions, as operators | (no behaviour of its own) |
| `V2Filter` | the threads that run the filters over the list | what lies between two points where another thread matters: one locked invocation, the search of `assign_resource_id`, its write |
| `HTTPProxy` | one connection: loop, poller, parsers' queues, filter, store, peers; the other connections through `ResourceQuota` | one system call of `poll`, one callback, one fragment of a peer |
| `PacketQueue` | infinite, drop tail, drop head and CoDel queues, as operators | (none) |
| `LinkQueue` | the link over a packet queue, in the ferry's loop | one iteration of one of the code's loops |
| `EventLoop` | signals, the search of the children, destructors; kernel and children external | one signal, one child looked at, one round of a destructor |
| `Shells` | the life of recordshell, replayshell, linkshell and delayshell: all their processes, from setuid root to the last exit | one operation of a process's script, one destructor, one signal |
| `HTTPMessages` | the framing of requests and responses by lines, lengths, chunks, trailers and the end of the stream | one piece of the stream read and parsed to where the parser waits |
| `Pipe` | what a byte stream queue promises: a bounded pipe | bytes put or taken |
| `StreamRing` | the indices of the ring, as operators | (none) |
| `ByteStreamQueue` | the ring: a push and a pop of any length | one of them |
| `DNSProxy` | a TCP relay over two rings, with the Poller and both peers; the UDP relay | one poll, one callback, one byte of a blocking write |
| `FoldFacts` | induction over the folds of sequences and over sums, as lemmas | |
| `V2Filter_proofs`, `HTTPProxy_proofs`, `EventLoop_proofs`, `LinkQueue_proofs`, `Shells_proofs`, `HTTPMessages_proofs`, `DNSProxy_proofs` | theorems | |
| `MCV2Filter`, `MCHTTPProxy`, `MCLinkQueue`, `MCHTTPMessages` | instances for TLC | |

`V2Filter` and `HTTPProxy` fit together by `ResourceQuota`: `V2Filter` is
proved to implement it, and `HTTPProxy` uses it where the filter invokes a
resource, with `OtherConnection` for the grants of all other threads (also for
the second and later grants of one request for several instances).  Two
invocations in one read are one to the filter, in both modules.

`HTTPProxy` takes for granted that messages come out of the parsers whole;
`HTTPMessages` shows that they do.  `EventLoop` has the signals between one
process and its children in full; `Shells` composes all processes of a tool and
lets an event loop end for one death or signal at a time.  `DNSProxy` pushes
and pops by two instances of `ByteStreamQueue`, which implements `Pipe`.

A definition whose comment begins with "A slip" is not the code: it is a
plausible mistake in the definition after it, used by the mutants.

### What is abstracted

* Buffers are records: which keywords, how many instances, whether a fragment
  ends a message or holds an id.
* The rewrite of `MaxCount` replaces `sizeof(std::string)` characters of the
  read by the number granted, not the digits that were there
  (`v2filter_client.hh:69-71`).  Of what that does to the text the models keep
  two things.  In `V2Filter`, a digit that comes next (`behind`) is read by the
  cloud as part of the number (`Ec2Asked`).  In `HTTPProxy`, a request with
  text after the number in the same read gets shorter than its
  `Content-Length` (`Intact`, `lacking`): it is not complete with its last
  byte, and takes in what comes after it.  When that is another request, the
  stream is out of step and the model stops.  A number that ends its read
  (`count`) is taken to keep its length.
* A fragment has the keywords or it has not: keywords cut by two reads, which
  the filter does not find, are none.  A request of `HTTPProxy` asks for one
  instance; those that ask for several take theirs as `OtherConnection`.
* Writes of the proxy are whole messages into a socket with room
  (`FileDescriptor::write` loops on a blocking socket).  A callback may throw
  in runs with `Faults`, and whenever its socket has been reset.
* After an undefined access (`crashed`) or a reply out of step (`garbled`) the
  proxy's model stops; `V2Filter` loses a write to a moved vector.
* A packet is its size, its arrival and a number.  CoDel's arithmetic is exact
  over small integers with the unsigned sojourn time kept; square roots are
  rounded down.  The clock may be set back, but not to before the start of the
  process, where `timestamp()` would wrap around.
* `Shells`: a process is a script, the calls of its source in order; a throw
  destroys in reverse what has been built.  Commands (`ip`, `iptables`,
  `apache2`, `dnsmasq`) are what they leave behind.  The shells in
  `frontend/` that are packet shells differ from linkshell and delayshell in
  their arguments and queues only.
* `HTTPMessages`: a byte string is a sequence of tokens, the words and
  separators the parser tells apart; each token of a body is one byte.  Sizes
  keep the code's width, cut down to `Word`.
* `DNSProxy`: the bytes a side sends are numbered, so that any loss, doubling
  or exchange shows.  A time limit of 60 s that only polls again is no step.
* The kernel keeps the last change of a child and one pending instance of each
  signal.  That resuming a child that has already exited changes nothing is
  the kernel's doing as well.

## Runs

All runs use two workers and finish in about two minutes or less.

| Run | Specification | Shows |
|---|---|---|
| `v2filter` | two threads, two ids, limit 2, three listed resources, six kinds of reads, two of them with a second request | `AdmissionOrder`, `QuotaIsExact` (refinement of `ResourceQuota`), `DeliveredWithinQuota`, `BlockedCostsNothing`, `ReportedIdsKept` |
| `v2filter_throw` | one thread | the exception of `assign_resource_id` is raised also when there are not too many ids (finding) |
| `httpproxy` | four requests: two plain, one lambda, one RunInstances in two parts; a client that pipelines what it likes; one fault at most | `PipelineInOrder`, `AnswersMatch`, `BlockedAloneNotForwarded`, `SavedAsSent`, `CrashesOnlyUncompleted`, `AllAnswered`, `LoopEnds` |
| `httpproxy_blocked` | an invocation pipelined behind a plain request | the wrong request is blocked (finding) |
| `httpproxy_crash` | an invocation with its head and its body in two reads | the 405 is given to the front of an empty queue (finding) |
| `linkqueue` | five queues with traffic of three to six packets, a trace of two opportunities, used once or repeated, a clock to 4 | `AssertionsHold`, `InOrder`, `NewestKept`, `FollowsTrace`, `WorkConserving`, `ExitDrained`, `KeepsAccepted`, `LastNotDropped` |
| `linkqueue_drophead` | drop head with a byte limit | the process aborts (finding) |
| `linkqueue_codel` | CoDel with four packets | the packet judged is delivered, later ones are lost (finding) |
| `eventloop` | two children, any of them special, two stops, two SIGCONTs | `LeavesNoneBehind`, `EndsForAReason`, `NoChildOutlives`, `OrdinaryExitEnds`, `DestructorsEnd` |
| `shells` | four tools, one fault: an operation that throws, a crash or an interrupt, at any point | `UserCodeUnprivileged`, `InPlaceWhileUsed`, `LeavesNothing`, `StartsUp`, `ToolEnds` |
| `httpmessages` | scripts of up to three messages of every kind, cut and broken off anywhere | `FramedAsSent`, `EndedAsSent`, `AssertionsHold` |
| `dnsproxy` | a relay with rings of three bytes, or two UDP queries | `StillInterested`, `DrainedAtExit`, `RelayIsPipe` (refinement of `Pipe`), `ThreadsEnd` |

### Why the bounds are enough

* `v2filter`: the limit is the code's.  Three resources pass it, two threads
  give every overlap of two steps, and two ids can be assigned, repeated and
  lost; a vector moves at the first, second and third resource.
* `httpproxy`: four requests, all of which a client may pipeline, fill every
  queue with two messages at once; each invocation can be granted or refused
  (`Limit` 2, with the other connections), alone in a read, together with
  others, or in pieces, so that a read is blocked that completes no request;
  the RunInstances is rewritten whole, with text after the number, and in
  pieces.  Replies come in pieces, with an id, and delimited by the end of the
  stream.  `Faults` is one: a reset, an early close, or a call that throws
  meets every state; the safety properties are proved for every number.  With
  a window of two messages writes
  have to wait, and two requests are outstanding at the server at once (with
  one they never are, unless the client has closed: the server's socket is
  read in the same round of poll).
* `linkqueue`: packets of one and two bytes against opportunities of two leave
  several at once, exactly, or in parts over two.  Limits are reached in
  packets and in bytes.  The clock runs past the end of the trace twice.
  CoDel's queue is long enough for the dropping state to be entered, held and
  left.  `MaxTime` stops the clock only, so `CHECK_DEADLOCK FALSE`.
* `eventloop`: with two children one SIGCHLD can stand for two changes, in
  both orders.
* `shells`: a single fault in any of the processes meets every state of the
  others; a second would be one in the destructors of the first, where the
  code prints and goes on, or terminates.  The four invariants are proved for
  every number of faults.
* `httpmessages`: a chunk with the line end inside it, with an extension, a
  trailer, and the longest that can be counted; bodies by length, by the end of
  the stream, and none (HEAD, 304); the answer to the next request follows in
  the same piece.  Cuts are at every token, so in the middle of a CRLF too.
* `dnsproxy`: four bytes through a ring that holds two wrap both indices; with
  room for one byte in the kernel a write comes back late, or after a reset
  with a part.

`CHECK_DEADLOCK FALSE` is set where processes end or a bound is reached.

### Pipelining and requests in pieces

The client of `HTTPProxy` may write its next request before the last is
answered, and any request in pieces.  What the code then does to an invocation
that is refused, it does to the oldest complete request:

* With an older request in the queue, that one gets the 405 and the invocation
  goes to the server (`httpproxy_blocked`).  `pipelined` records that an
  invocation has been unanswered together with another request; up to there
  `AnswersMatch` and `BlockedAloneNotForwarded` hold, for every client.
* With none, the queue is empty and its front is taken all the same
  (`httpproxy_crash`).  No pipelining is needed: it is enough that the head
  and the body of the invocation come in two reads.  `uncompleted` records
  that a buffer was blocked that completes no request;
  `CrashesOnlyUncompleted` says that there is no other way to an empty queue,
  in particular not by `poll` asking before the client is read.

### Fairness

* `HTTPProxy`'s `FairSpec` runs the loop's thread whenever it can run, and
  lets the client send and receive and the server reply; the kernel of a
  server that has closed resets the connection when it is written to.  Nobody
  has to close, and nothing is assumed of other connections or faults; a proxy
  cannot answer for a server that does not.  `AllAnswered` is about
  connections without a fault, and goes up to the request the rewrite has
  taken text from, if there is one: it and all after it are never answered.
* `EventLoop`'s `FairSpec` runs the process when it is not suspended, and a
  child that runs and has been sent its SIGHUP dies of it some time.  A child
  that ignores SIGHUP keeps the destructor, and so the process, for ever
  (`child_process.cc:153`); the code has nothing against it.
* `Shells`' `FairSpec` schedules every process; that includes that a program
  ends some time and dies of the SIGHUP its parent's destructor sends.
* `DNSProxy`'s `FairSpec` runs the threads, lets the poll of a UDP query time
  out, and has each side of a connection read what it is sent and close in the
  end.  Without the last the relay stays: `dns_proxy.cc:112` polls again when
  its 60 s are over.

## Proofs

All are proved by TLAPS (SMT, Zenon, LS4), from the assumptions on the
constants named in the modules, which TLC checks on every run.  Every
invariant below was first checked by TLC on the instances of the runs.

* `FoldFacts`.  `FoldLeft` and sums over sets are defined by `CHOOSE` of a
  recursive function; the library has no theorem on them that these provers
  can use.  The module proves, by least counterexample, that the function
  exists, and from that an induction over folds (`FoldLeftInduction`, stated
  with a set of good partial results instead of an operator), what a fold does
  with one element more, and how a sum changes with one of its terms.  It is
  instantiated with the operator that is folded.
* `V2Filter_proofs`, for every number of threads, limit and set of buffers.
  The invariant is `TypeOK /\ AdmissionOrder /\ IdsPending`: a counter is the
  number of resources listed before it, so the list is in order of admission;
  `IdsPending` (a thread inside `assign_resource_id` has an id in hand) is
  needed for the types only.  `TypeCorrect`, `AdmissionInOrder`, and
  `ImplementsQuota`: every step is a grant, a refusal or a stutter of
  `ResourceQuota`.
  `WithinQuota` compares a sum over the threads with the list: it needs to know
  at every place in a thread's calls what it has been granted
  (`CallsAccounted`), of which `BlockedTakesNone` is a consequence.  It holds
  as long as no read was forwarded that asks for more than the filter has
  counted (`misread`): a second request, or digits the rewrite runs into.
  `KeepsReportedIds` needs that no two threads are about to write to the same
  resource, nor to one that has an id (`StoresApart`), as long as no unlocked
  access has overlapped another.  `ThreadsAssumption` (a process has finitely
  many threads) is there for the sum.
* `HTTPProxy_proofs`, for every script of requests and replies, every cut into
  reads, every fault, limit and number of other connections.  No theorem has
  a hypothesis on the client.  Three invariants carry them:
  `IInv`: each request has the number of its place in one of the five queues
  (`Numbered`), the fragments in the two sockets go on where the parsers are
  (`Coming`, `Run`, `Replying`), and a response that poll has seen is still
  there (`Offered`): `TypeCorrect`, `QueuesInOrder`, `StoreAsWritten`.
  `KInv`, as long as nothing was pipelined (`~pipelined => KInv`): a request
  with keywords is alone from its first byte to its answer (`Alone`), what is
  on its way was written by the client (`PartsBegun`), a server poll has found
  readable is so when it is read (`Readable`), the parser of responses and the
  server are at the same request (`RepliesInLine`), and a verdict fits the
  request it was given for (`VerdictsKept`):
  `AnswersRequests`, `BlockedStays`.
  `CInv`: where poll has seen a request for the server, one is there until it
  is written (`Asked`), unless a buffer was blocked that completes none; a
  blocked buffer that does leaves the queue no shorter: `CrashesExplained`.
* `EventLoop_proofs`, for every number of children and every bound.
  `LeavesNoneBehind` is not inductive.  `NewsAgrees` ties what waitid reports
  to what a child does; `WillBeFound` says that an unreported change has its
  SIGCHLD pending or lies ahead of the search; `WillBeResumed` that a child
  left stopped has suspended the process or has a SIGCONT coming; `Destroyed`
  how far the destructors are.  `TypeCorrect`, `NoneLeftBehind`,
  `LoopEndsForAReason`, `ChildrenDieFirst`.
* `LinkQueue_proofs`, for every trace the constructor accepts, every queue,
  traffic, and movement of the clock.  The four assertions of `rationalize`
  need `Timely`: what waits arrived no later than the next opportunity,
  because `rationalize` has caught up with the arrival before a packet is
  enqueued, and the trace does not decrease, also across its end.
  `ArrivesNow`, `TransitFits` and `Reading` carry a packet from the read to
  the queue and through its parts; `Draining` carries what poll has seen to
  the exit.  `TypeCorrect`, `SendsNoneBeforeArrival`, `EndsDrained`.
  `LeavesInOrder` needs the order of all places a packet can be in, including
  the one that is being read (`OrderInv`); `LosesNoneAccepted` and `KeepsLast`
  are action properties, the second by induction over the packets that CoDel
  takes in one dequeue.  `TakesNewest` has the hypothesis `RoomForOne`: a drop
  head queue with a limit in bytes has room for one packet (with less, it
  drops the newest one too); it holds, too, where the enqueue aborts, as
  `linkqueue_drophead` shows.  `PacketsMakeRoom` says that it does not abort
  when queues are limited in packets only.
  `BoundedByTrace` and `WastesNothing` share an account (`AccountInv`): the
  trace, repeated or not, has been used up to a place that is a number of
  whole rounds and an index, every byte sent was allowed by an opportunity
  before that place, and as long as something waits, none since its arrival
  went unused: what was sent then is told from what was sent earlier by
  `before`, the bytes sent when a packet was queued.
* `Shells_proofs`, for every set of tools and every number of operations that
  throw, crashes and interrupts.  The scripts are looked at operation by
  operation once: each finds the privileges and the environment it needs and
  leaves those of the next place (`Lawful`, `Provided`), main's scopes nest
  (`Nested`), children are forked once and with what their script begins with
  (`Forking`), and what processes do for each other is where it should be
  (`Meeting`).  The invariant then ties each process to its place
  (`Rightful`), a child to its parent's place (`Families`), the children to
  main's event loop (`LoopOutlives`), the kernel to what main has acquired
  (`Holding`), and the container's device to the go signal (`Going`); `Healthy`
  is what goes right as long as nothing fails.  `UserUnprivileged`,
  `StaysInPlace`, `CleansUp`, `StartsWithoutFailure`, `TypeCorrect`.
* `HTTPMessages_proofs`, for every script of any number of messages, of any
  length, that `ScriptsAssumption` allows, every cut into reads, and every
  place where the stream ends.  None of the three invariants says what the
  parser is about to do with the bytes it has, so `IInv` says, at every moment
  and not only at rest, which message is due and how far it has come: nothing of
  it taken (`Between`), its first line and n headers (`InHead`), n bytes of its
  body (`InBody`), all of it (`AtEnd`), cut short by the end of the stream
  (`AtEof`, `AfterEof`), or refused (`Thrown`).  Each has the message in
  progress equal to what was sent up to there, and the buffer equal to the
  bytes of the wire from there to what has been read (`Unread`).  Within a body
  in chunks, `AtHeader`, `AtChunk` and `AtTrailer` give the place of the item
  that is next, what the parser keeps of it, and the counters of what was
  parsed and acknowledged; the assertions on them follow.  The lemmas before it
  are about text: how `FlattenSeq` joins messages and headers and where each
  comes to lie (`JoinedAt`, `MessageLayout`, `HeaderLayout`), what `find` says
  of a part of a stream when the separator is wholly, partly, or not yet
  there (`LineFound`), and that headers written out are read back
  as they were.  `MessagesInvariant`, `Framing`, `Ending`, `Assertions`.
  The assumption is on what a peer writes: lines have no line end inside, a
  header has its colon, chunks are laid out by their sizes, which with the line
  end after them fit in a word, and a body is as long as
  `calculate_expected_body_size` takes it to be.  So that rule (`Body`) is
  given, and not judged, by the proofs; the instance judges it, for the ends
  of its messages are written by hand and TLC evaluates the assumption on them.
  A script also has the messages the parser refuses, for each of its reasons.
* `DNSProxy_proofs`, for every size of rings above one byte and of kernel
  buffers, and whatever the sides send.  What a push and a pop do to a ring is
  proved of a ring before and after it (`RingPush`, `RingPop`) and used for
  both directions: `HoldsOf` says where the k-th waiting byte lies and which it
  is, and the lemmas on the indices (`HeldAfterPush`, `WaitingNotOverwritten`,
  `HeldAfterPop`) are stated over plain numbers.  Of a queue by itself follow
  `RingHolds`, and `RingImplementsPipe`: a push is a `Put`, a pop a `Take`, of
  a pipe that holds one byte less than the buffer.  Of the relay,
  `StillInterested` is not inductive: it has to hold during a write, too
  (`StillWanted`), and a write has to be an output's (`WritingIsOut`).
  `DrainedAtExit` needs that a side whose end was read has nothing left
  (`ReadToEnd`), and `StillWanted` again, for a push past that end would break
  it.  `CallbacksStillWanted`, `Drained`, `RelayImplementsPipes`.

That the states of `V2Filter`, `LinkQueue`, `EventLoop` and `Shells` stay of
their types is left to the proofs (`TypeCorrect`) and not repeated in the runs.

Only model-checked is liveness, which is outside the prover's reach:
`AllAnswered`, `LoopEnds`, `OrdinaryExitEnds`, `DestructorsEnd`, `ToolEnds`,
`ThreadsEnd`.  Every invariant and every safety property of the passing runs is
stated by a theorem.

## What is not modelled

* The delay queue, the loss, on/off and meter links: timed queues without a
  trace, and random choices.  Their shells run the script of delayshell.
* PIE: random drops with probabilities in floating point
  (`pie_packet_queue.cc:126` mixes them with 32 bit arithmetic).
* Replay's choice of the best recorded answer and the Apache module.
* TLS and certificates, protobufs, addresses and their free choice, the texts
  of commands and configurations, log files, command lines, live graphs: a
  library's, the kernel's, or output only.
* Malformed HTTP beyond the messages the scripts have the parser refuse.
* The language under `language/` is described, not implemented.

`PROJECT.json` lists each part with its status.

What the models leave at the edge, noticed in the source:

* `event_loop.cc:72`: the search goes no further than a special child that has
  left, as `LeavesNoneBehind` says by leaving that case out.
* `cloud_resource.cc:44`: an instance whose id has not come back at shutdown
  is listed under its counter and not terminated.
* `v2filter_client.hh:69`: the rewrite replaces as many characters as a
  `std::string` object has bytes, so that a RunInstances request granted with
  text after its `MaxCount` is not answered (`AllAnswered` excepts it), and
  digits there change what it asks for (`DeliveredWithinQuota` excepts it).
* `v2filter_client.hh:90`: two requests in one read are one invocation;
  `DeliveredWithinQuota` ends with the first.
* `http_proxy.cc:156`: detached threads hold references to the store and the
  list; the end of the process is not in `HTTPProxy`.
* `interfaces.cc:129`: two shells that start together may choose the same free
  address; `Shells` has one tool at a time.
* `chunked_parser.cc:61`: the size of a chunk and its two bytes of line end are
  added in 32 bits.  `HTTPMessages` goes to the largest size that fits.  A
  `Trailer` header that announces a trailer which then does not come is
  outside of its scripts too.
* `dns_proxy.cc:47` and `:121`: `recvfrom` and `accept` run on the thread of the
  event loop, outside the `try`; if one throws, the loop ends.  `DNSProxy`
  begins with a query or a connection that has come.
* A signal before the event loop is made finds no handler: rules and devices
  made until then stay.  `LeavesNothing` excludes that case.
* A reset connection loses what the relay's rings hold; `DrainedAtExit` says so.

## Plan

In this order, most important first; all but step 9 are done.

1. `CloudResourceList`, `ResourceQuota`, `V2Filter`: admission under threads.
2. `HTTPProxy`: one connection.
3. `EventLoop`: children and signals.
4. `PacketQueue`, `LinkQueue`: the link.
5. Proofs of the above: types, quota, the search, the link's assertions.
6. `Pipe`, `StreamRing`, `ByteStreamQueue`, `DNSProxy`: ring and relay, their
   refinement, and its proof.
7. `HTTPMessages`: parsing.
8. `Shells`: start, privileges and end of the tools.
9. The delay queue beside `LinkQueue`; replay's choice of the best match as an
   operator with its reference definition.
10. Proofs of the safety properties of `V2Filter`, `HTTPProxy`, `LinkQueue`
    and `Shells`, and of the framing of `HTTPMessages`.
