----------------------------- MODULE HTTPProxy -----------------------------
(***************************************************************************)
(* One connection of the HTTP proxy: HTTPProxy::loop                       *)
(* (src/src/httpserver/http_proxy.cc), the four poll actions it registers, *)
(* the Poller that runs them (src/src/util/poller.cc), the request and     *)
(* response parsers they feed (src/src/http/http_message_sequence.hh,      *)
(* http_response_parser.cc), the client filter, and the backing store.     *)
(*                                                                         *)
(* A message travels as fragments, the pieces a peer writes; a read of the *)
(* proxy takes any non-empty prefix of what has arrived.  Fragments keep   *)
(* what the code tells apart: where a message ends, whether the bytes hold *)
(* a resource's keywords, whether they end with the number of instances a  *)
(* RunInstances asks for, whether they hold an instance id.                *)
(*                                                                         *)
(* The resource list appears as the quota that V2Filter implements (the    *)
(* theorem ImplementsQuota); granted and refused also move for the other   *)
(* connections.                                                            *)
(***************************************************************************)
EXTENDS ResourceQuota, Sequences, SequencesExt

CONSTANTS Script,      \* the requests the client sends, in order: fragments
          Replies,     \* the server's reply to each: fragments
          Faults,      \* bound: resets, early closes, and calls that fail
          Window       \* bound: messages in a socket before it is full

\* A request fragment: the keywords of a resource are in its bytes; they are
\* those of RunInstances, and the bytes run from the request's first line to
\* the number after MaxCount=, which keeps its length when it is rewritten.
\* A reply fragment: it holds an instance id; the body runs to the end of
\* the stream (Rule5BodyParser).
RequestPart == [key : BOOLEAN, count : BOOLEAN]
ReplyPart == [ids : BOOLEAN, toEof : BOOLEAN]

ASSUME ScriptAssumption ==
  /\ Script \in Seq(Seq(RequestPart) \ {<< >>})
  /\ \A r \in DOMAIN Script : \A k \in DOMAIN Script[r] :
       Script[r][k].count => Script[r][k].key /\ k = 1
  /\ Replies \in Seq(Seq(ReplyPart) \ {<< >>})
  /\ Len(Script) = Len(Replies)
ASSUME FaultsAssumption == Faults \in Nat
ASSUME WindowAssumption == Window \in Nat \ {0}
ASSUME LimitAssumption == Limit \in Nat

Requests == DOMAIN Script
Canned == 0      \* the source of the proxy's own 405
NoMessage == [req |-> 0, src |-> 0, toEof |-> FALSE]

VARIABLES
  pc,         \* where the loop is: in poll, or before one of the callbacks
  todo,       \* the actions whose revents answered their events
  errs,       \* the sockets poll reported POLLERR or POLLHUP for
  eofs,       \* the sockets a read of which has returned ""
  toProxy,    \* bytes from the client: fragments [req, key, count, end]
  sentParts,  \* fragments of the current request the client has written
  sent,       \* requests the client has written whole
  requests,   \* request_parser.complete_messages_
  partial,    \* request_parser.message_in_progress_ has begun
  lacking,    \* the request the rewrite has taken text from; 0 for none
  toServer,   \* requests in the server's socket
  replied,    \* fragments of its current reply the server has written
  fromServer, \* bytes from the server: fragments [src, ids, toEof, end]
  pending,    \* response_parser.requests_
  current,    \* response_parser.message_in_progress_: [req, src]
  responses,  \* response_parser.complete_messages_
  toClient,   \* responses in the client's socket
  answered,   \* the responses the client has received
  closed,     \* the peers that have closed their side
  reset,      \* the peers whose connection has been reset
  forwarded,  \* history: requests written to the server
  blocked,    \* history: requests whose buffer the filter blocked
  saved,      \* what the backing store holds
  uncompleted, \* history: a buffer that completes no request was blocked
  pipelined,  \* history: the client has pipelined an invocation
  faults      \* history: what peers and calls have failed to do

loopVars == <<pc, todo, errs, eofs>>
clientVars == <<toProxy, sentParts, sent, answered>>
requestVars == <<requests, partial, lacking>>
serverVars == <<toServer, replied, fromServer>>
responseVars == <<pending, current, responses>>
peerVars == <<closed, reset>>
quotaVars == <<granted, refused>>
recordVars == <<forwarded, blocked, saved, uncompleted>>
historyVars == <<recordVars, pipelined, faults>>
vars == <<loopVars, clientVars, requestVars, serverVars, responseVars,
          toClient, peerVars, quotaVars, historyVars>>

Response == [req : Requests, src : Requests \cup {Canned}]

TypeOK ==
  /\ pc \in {"poll", "serverIn", "clientIn", "serverOut", "clientOut",
             "exited", "dead", "killed", "crashed", "garbled"}
  /\ todo \subseteq {"serverIn", "clientIn", "serverOut", "clientOut"}
  /\ errs \subseteq {"client", "server"} /\ eofs \subseteq {"client", "server"}
  /\ toProxy \in Seq([req : Requests, key : BOOLEAN, count : BOOLEAN,
                      end : BOOLEAN])
  /\ sent \in 0..Len(Script) /\ sentParts \in Nat
  /\ requests \in Seq(Requests) /\ partial \in BOOLEAN
  /\ lacking \in 0..Len(Script)
  /\ toServer \in Seq(Requests) /\ replied \in Nat
  /\ fromServer \in Seq([src : Requests, ids : BOOLEAN, toEof : BOOLEAN,
                         end : BOOLEAN])
  /\ pending \in Seq(Requests)
  /\ current \in [req : Requests, src : Requests, toEof : BOOLEAN]
                  \cup {NoMessage}
  /\ responses \in Seq(Response) /\ toClient \in Seq(Response)
  /\ answered \in Seq(Response) /\ saved \in Seq(Response)
  /\ closed \subseteq {"client", "server"}
  /\ reset \subseteq {"client", "server"}
  /\ granted \in 0..Limit /\ refused \in Nat
  /\ forwarded \in Seq(Requests) /\ blocked \subseteq Requests
  /\ uncompleted \in BOOLEAN /\ pipelined \in BOOLEAN /\ faults \in Nat

Init ==
  /\ QuotaInit
  /\ pc = "poll" /\ todo = {} /\ errs = {} /\ eofs = {}
  /\ toProxy = << >> /\ sentParts = 0 /\ sent = 0
  /\ requests = << >> /\ partial = FALSE /\ lacking = 0
  /\ toServer = << >> /\ replied = 0 /\ fromServer = << >>
  /\ pending = << >> /\ current = NoMessage /\ responses = << >>
  /\ toClient = << >> /\ answered = << >>
  /\ closed = {} /\ reset = {}
  /\ forwarded = << >> /\ blocked = {} /\ saved = << >>
  /\ uncompleted = FALSE /\ pipelined = FALSE /\ faults = 0
-----------------------------------------------------------------------------
(* The client, the server and the other connections: what the proxy meets. *)

HasKey(r) == \E k \in DOMAIN Script[r] : Script[r][k].key

\* Would request r be unanswered together with others, an invocation among
\* them?
Crowds(r) ==
  Len(answered) # r - 1 /\ \E q \in Len(answered)+1..r : HasKey(q)

\* The client writes the next fragment of a request, whatever is unanswered.
ClientSend ==
  /\ sent < Len(Script) /\ "client" \notin closed \cup reset
  /\ pipelined' = (pipelined \/ (sentParts = 0 /\ Crowds(sent + 1)))
  /\ LET r == sent + 1
         k == sentParts + 1
         part == Script[r][k]
         end == k = Len(Script[r])
     IN  /\ toProxy' = Append(toProxy, [req |-> r, key |-> part.key,
                                        count |-> part.count, end |-> end])
         /\ sentParts' = IF end THEN 0 ELSE k
         /\ sent' = IF end THEN r ELSE sent
  /\ UNCHANGED <<loopVars, answered, requestVars, serverVars, responseVars,
                 toClient, peerVars, quotaVars, recordVars, faults>>

ClientReceive ==
  /\ toClient # << >> /\ "client" \notin reset
  /\ answered' = Append(answered, Head(toClient))
  /\ toClient' = Tail(toClient)
  /\ UNCHANGED <<loopVars, toProxy, sentParts, sent, requestVars, serverVars,
                 responseVars, peerVars, quotaVars, historyVars>>

\* The server answers its requests in order, a fragment at a time.
ServerReply ==
  /\ toServer # << >> /\ "server" \notin closed \cup reset
  /\ LET r == Head(toServer)
         k == replied + 1
         part == Replies[r][k]
         end == k = Len(Replies[r])
     IN  /\ fromServer' = Append(fromServer,
                            [src |-> r, ids |-> part.ids, toEof |-> part.toEof,
                             end |-> end /\ ~part.toEof])
         /\ replied' = IF end THEN 0 ELSE k
         /\ toServer' = IF end THEN Tail(toServer) ELSE toServer
         /\ closed' = IF end /\ part.toEof THEN closed \cup {"server"}
                       ELSE closed
  /\ UNCHANGED <<loopVars, clientVars, requestVars, responseVars, toClient,
                 reset, quotaVars, historyVars>>

Done == Len(answered) = Len(Script)

\* A peer closes its side, when all is answered or, by a fault, at any time.
Close(peer) ==
  /\ Done \/ faults < Faults
  /\ peer \notin closed
  /\ closed' = closed \cup {peer}
  /\ faults' = IF Done THEN faults ELSE faults + 1
  /\ UNCHANGED <<loopVars, clientVars, requestVars, serverVars, responseVars,
                 toClient, reset, quotaVars, recordVars, pipelined>>

\* A connection is reset by a fault.
Reset(peer) ==
  /\ faults < Faults /\ peer \notin reset
  /\ reset' = reset \cup {peer}
  /\ faults' = faults + 1
  /\ UNCHANGED <<loopVars, clientVars, requestVars, serverVars, responseVars,
                 toClient, closed, quotaVars, recordVars, pipelined>>

\* A server that has closed answers what is written to it by a reset.
RefuseRequests ==
  /\ "server" \in closed \ reset /\ toServer # << >>
  /\ reset' = reset \cup {"server"}
  /\ UNCHANGED <<loopVars, clientVars, requestVars, serverVars, responseVars,
                 toClient, closed, quotaVars, historyVars>>

\* Another connection's filter takes a resource.
OtherConnection ==
  /\ Grant
  /\ UNCHANGED <<loopVars, clientVars, requestVars, serverVars, responseVars,
                 toClient, peerVars, historyVars>>
-----------------------------------------------------------------------------
(* Poller::poll.                                                           *)

\* Slips: responses wait once the server has closed; a socket is read again
\* after its EOF.
InterestedWhileOpen ==
  {a \in {"serverIn", "clientIn"} : eofs = {}} \cup
  (IF requests # << >> THEN {"serverOut"} ELSE {}) \cup
  (IF responses # << >> /\ "server" \notin eofs THEN {"clientOut"} ELSE {})
InterestedAfterEof ==
  (IF "client" \notin eofs THEN {"serverIn"} ELSE {}) \cup
  (IF "server" \notin eofs THEN {"clientIn"} ELSE {}) \cup
  (IF requests # << >> THEN {"serverOut"} ELSE {}) \cup
  (IF responses # << >> THEN {"clientOut"} ELSE {})

\* when_interested of the four actions; poll adds that a socket that has had
\* its EOF is not read.
Interested ==
  {a \in {"serverIn", "clientIn"} : eofs = {}} \cup
  (IF requests # << >> THEN {"serverOut"} ELSE {}) \cup
  (IF responses # << >> THEN {"clientOut"} ELSE {})

Ready ==
  (IF fromServer # << >> \/ "server" \in closed THEN {"serverIn"} ELSE {}) \cup
  (IF toProxy # << >> \/ "client" \in closed THEN {"clientIn"} ELSE {}) \cup
  (IF Len(toServer) < Window THEN {"serverOut"} ELSE {}) \cup
  (IF Len(toClient) < Window THEN {"clientOut"} ELSE {})

\* The interest is computed before the system call and used after it; the
\* callbacks in between see what the earlier ones have changed.
Poll ==
  /\ pc = "poll"
  /\ IF Interested = {} THEN pc' = "exited" /\ UNCHANGED <<todo, errs>>
     ELSE /\ Interested \cap Ready # {} \/ reset # {}
          /\ todo' = Interested \cap Ready
          /\ errs' = reset
          /\ pc' = "serverIn"
  /\ UNCHANGED <<eofs, clientVars, requestVars, serverVars, responseVars,
                 toClient, peerVars, quotaVars, historyVars>>

After(a) == CASE a = "serverIn"  -> "clientIn"
              [] a = "clientIn"  -> "serverOut"
              [] a = "serverOut" -> "clientOut"
              [] a = "clientOut" -> "poll"

Socket(a) == IF a \in {"serverIn", "serverOut"} THEN "server" ELSE "client"

\* An error or hangup on the socket ends the loop; an action poll has no
\* event for is passed over.
PassOver(a) ==
  /\ pc = a
  /\ \/ Socket(a) \in errs /\ pc' = "exited"
     \/ Socket(a) \notin errs /\ a \notin todo /\ pc' = After(a)
  /\ UNCHANGED <<todo, errs, eofs, clientVars, requestVars, serverVars,
                 responseVars, toClient, peerVars, quotaVars, historyVars>>

Runs(a) == pc = a /\ a \in todo /\ Socket(a) \notin errs
-----------------------------------------------------------------------------
(* The parsers.                                                            *)

\* HTTPResponseParser: the first line of a response takes the oldest request
\* that awaits one, and throws when there is none.
ResponseState == [pending |-> pending, current |-> current,
                  done |-> responses, threw |-> FALSE]

ParsePart(st, f) ==
  IF st.threw \/ (st.current = NoMessage /\ st.pending = << >>)
  THEN [st EXCEPT !.threw = TRUE]
  ELSE LET starts == st.current = NoMessage
           now == IF starts THEN [req |-> Head(st.pending), src |-> f.src,
                                  toEof |-> f.toEof]
                            ELSE [st.current EXCEPT !.toEof = f.toEof]
           left == IF starts THEN Tail(st.pending) ELSE st.pending
       IN  IF f.end
           THEN [st EXCEPT !.pending = left, !.current = NoMessage,
                   !.done = Append(@, [req |-> now.req, src |-> now.src])]
           ELSE [st EXCEPT !.pending = left, !.current = now]

SetResponses(st) ==
  pending' = st.pending /\ current' = st.current /\ responses' = st.done

ParseResponses(buffer) == FoldLeft(ParsePart, ResponseState, buffer)

\* HTTPRequestParser: a request is queued when its last part is parsed.
ParseRequestPart(queue, f) == IF f.end THEN Append(queue, f.req) ELSE queue
ParseRequests(buffer) == FoldLeft(ParseRequestPart, requests, buffer)

CannedPart == [src |-> Canned, ids |-> FALSE, toEof |-> FALSE, end |-> TRUE]
-----------------------------------------------------------------------------
(* The four callbacks.                                                     *)

\* server, In: v2filter_server, then response_parser.parse.  An instance id
\* that finds no resource to go to throws (V2Filter's AssignThrow).
ServerRead ==
  /\ Runs("serverIn") /\ fromServer # << >>
  /\ \E n \in 1..Len(fromServer) :
       LET buffer == SubSeq(fromServer, 1, n)
           st == ParseResponses(buffer)
       IN  /\ fromServer' = SubSeq(fromServer, n + 1, Len(fromServer))
           /\ \/ /\ \E i \in 1..n : buffer[i].ids
                 /\ pc' = "dead" /\ faults' = faults + 1
                 /\ UNCHANGED responseVars
              \/ /\ pc' = IF st.threw THEN "dead" ELSE "clientIn"
                 /\ SetResponses(st) /\ UNCHANGED faults
  /\ UNCHANGED <<todo, errs, eofs, clientVars, requestVars, toServer, replied,
                 toClient, peerVars, quotaVars, recordVars, pipelined>>

\* server, In, at the end of its stream: a body delimited by it is complete,
\* any other message in progress is an exception.
ServerEof ==
  /\ Runs("serverIn") /\ fromServer = << >>
  /\ eofs' = eofs \cup {"server"}
  /\ IF current = NoMessage THEN pc' = "clientIn" /\ UNCHANGED responseVars
     ELSE IF current.toEof
     THEN /\ pc' = "clientIn"
          /\ responses' = Append(responses, [req |-> current.req,
                                             src |-> current.src])
          /\ current' = NoMessage
          /\ UNCHANGED pending
     ELSE pc' = "dead" /\ UNCHANGED responseVars
  /\ UNCHANGED <<todo, errs, clientVars, requestVars, serverVars, toClient,
                 peerVars, quotaVars, historyVars>>

\* A slip: no limit.
FilterUnlimited(buffer, verdict) ==
  /\ verdict = "pass"
  /\ IF \E i \in DOMAIN buffer : buffer[i].key
     THEN granted' = granted + 1 /\ UNCHANGED refused
     ELSE UNCHANGED quotaVars

\* v2filter_client on one buffer: one invocation however many requests the
\* buffer holds.
Filter(buffer, verdict) ==
  IF \E i \in DOMAIN buffer : buffer[i].key
  THEN \/ Grant /\ verdict = "pass"
       \/ Refuse /\ verdict = "BLOCKED"
  ELSE verdict = "pass" /\ UNCHANGED quotaVars

\* The first MaxCount= of the buffer is in fragment k.
FirstCount(buffer, k) ==
  buffer[k].count /\ \A i \in 1..k-1 : ~buffer[i].count

\* The rewrite replaces sizeof(std::string) characters after MaxCount= by the
\* number granted.  When text follows the number in the buffer, some of it is
\* lost: its request stays shorter than its Content-Length says.
Intact(buffer) ==
  LET cut == {k \in 1..Len(buffer)-1 : FirstCount(buffer, k)}
  IN  IF cut = {} THEN buffer
      ELSE SubSeq(buffer, 1, (CHOOSE k \in cut : TRUE) - 1)

\* What request_parser makes of bytes that are as the client wrote them.  A
\* request that lacks text takes in what comes after it; when that is another
\* request, the stream is out of step from there on, where the model stops.
Text(intact) == IF lacking = 0 THEN intact ELSE << >>
Strays(buffer) ==
  lacking' # 0 /\ \E i \in DOMAIN buffer : buffer[i].req > lacking'

\* client, In, when the filter lets the buffer pass, rewritten or not.
ClientPass(buffer) ==
  /\ Filter(buffer, "pass")
  /\ LET text == Text(Intact(buffer))
     IN  /\ requests' = ParseRequests(text)
         /\ lacking' = IF lacking = 0 /\ Len(text) < Len(buffer)
                       THEN buffer[Len(text) + 1].req ELSE lacking
  /\ pc' = IF Strays(buffer) THEN "garbled" ELSE "serverOut"
  /\ UNCHANGED <<responseVars, blocked, uncompleted>>

Completes(buffer) == lacking = 0 /\ \E i \in DOMAIN buffer : buffer[i].end

\* What a blocked buffer leaves behind in every case.
Block(buffer) ==
  /\ Filter(buffer, "BLOCKED")
  /\ blocked' = blocked \cup
       {buffer[i].req : i \in {j \in DOMAIN buffer : buffer[j].key}}
  /\ uncompleted' = (uncompleted \/ ~Completes(buffer))
  /\ UNCHANGED lacking

\* Slips: the blocked request is not popped; it is not parsed first.
ClientBlockedNoPop(buffer) ==
  /\ Block(buffer)
  /\ requests' = ParseRequests(Text(buffer)) /\ requests' # << >>
  /\ SetResponses(ParsePart([ResponseState EXCEPT
                               !.pending = Append(@, Head(requests'))],
                            CannedPart))
  /\ pc' = "serverOut"
ClientBlockedUnparsed(buffer) ==
  /\ Block(buffer)
  /\ requests = << >> /\ pc' = "crashed"
  /\ UNCHANGED <<requests, responseVars>>

\* client, In, when the filter blocks it: the buffer is parsed after all, the
\* oldest complete request is taken out and answered with a 405, fed to the
\* response parser like bytes from the server.  With no complete request,
\* front() and pop() are undefined: the process is lost.  In the middle of a
\* reply, the 405 is taken as a part of that reply's body and the stream is
\* out of step.
ClientBlocked(buffer) ==
  /\ Block(buffer)
  /\ LET queue == ParseRequests(Text(buffer))
     IN  IF Strays(buffer) THEN
              pc' = "garbled" /\ UNCHANGED <<requests, responseVars>>
         ELSE IF queue = << >> THEN
              pc' = "crashed" /\ UNCHANGED <<requests, responseVars>>
         ELSE /\ requests' = Tail(queue)
              /\ IF current # NoMessage
                 THEN pc' = "garbled" /\ UNCHANGED responseVars
                 ELSE /\ SetResponses(
                           ParsePart([ResponseState EXCEPT
                                        !.pending = Append(@, Head(queue))],
                                     CannedPart))
                      /\ pc' = "serverOut"

ClientRead ==
  /\ Runs("clientIn") /\ toProxy # << >>
  /\ \E n \in 1..Len(toProxy) :
       LET buffer == SubSeq(toProxy, 1, n)
       IN  /\ toProxy' = SubSeq(toProxy, n + 1, Len(toProxy))
           /\ ClientPass(buffer) \/ ClientBlocked(buffer)
           /\ partial' = (~buffer[n].end \/ lacking' # 0)
  /\ UNCHANGED <<todo, errs, eofs, sentParts, sent, answered, serverVars,
                 toClient, peerVars, forwarded, saved, pipelined, faults>>

\* client, In, at the end of its stream.
ClientEof ==
  /\ Runs("clientIn") /\ toProxy = << >>
  /\ eofs' = eofs \cup {"client"}
  /\ pc' = IF partial THEN "dead" ELSE "serverOut"
  /\ UNCHANGED <<todo, errs, clientVars, requestVars, serverVars,
                 responseVars, toClient, peerVars, quotaVars, historyVars>>

\* A slip: the newest request is the first to be answered.
ServerWriteNewestFirst ==
  /\ Runs("serverOut") /\ requests # << >>
  /\ toServer' = Append(toServer, Head(requests))
  /\ pending' = <<Head(requests)>> \o pending
  /\ requests' = Tail(requests)
  /\ forwarded' = Append(forwarded, Head(requests))
  /\ pc' = "clientOut"
  /\ UNCHANGED <<todo, errs, eofs, clientVars, partial, lacking, replied,
                 fromServer, current, responses, toClient, peerVars, quotaVars,
                 blocked, saved, uncompleted, pipelined, faults>>

\* server, Out: the queue may have been emptied since poll asked.
ServerWrite ==
  /\ Runs("serverOut")
  /\ IF requests = << >>
     THEN /\ pc' = "crashed"
          /\ UNCHANGED <<requests, toServer, pending, forwarded>>
     ELSE /\ toServer' = Append(toServer, Head(requests))
          /\ pending' = Append(pending, Head(requests))
          /\ requests' = Tail(requests)
          /\ forwarded' = Append(forwarded, Head(requests))
          /\ pc' = "clientOut"
  /\ UNCHANGED <<todo, errs, eofs, clientVars, partial, lacking, replied,
                 fromServer, current, responses, toClient, peerVars, quotaVars,
                 blocked, saved, uncompleted, pipelined, faults>>

\* A slip: a failed save goes unnoticed.
ClientWriteCarriesOn ==
  /\ Runs("clientOut")
  /\ toClient' = Append(toClient, Head(responses))
  /\ responses' = Tail(responses)
  /\ \/ saved' = Append(saved, Head(responses))
     \/ faults < Faults /\ UNCHANGED saved
  /\ pc' = "poll"
  /\ UNCHANGED <<todo, errs, eofs, clientVars, requestVars, serverVars,
                 pending, current, peerVars, quotaVars, forwarded, blocked,
                 uncompleted, pipelined, faults>>

\* client, Out: the client has the response before the store does; a save
\* that fails throws.
ClientWrite ==
  /\ Runs("clientOut")
  /\ toClient' = Append(toClient, Head(responses))
  /\ \/ /\ saved' = Append(saved, Head(responses))
        /\ responses' = Tail(responses)
        /\ pc' = "poll" /\ UNCHANGED faults
     \/ /\ faults < Faults /\ pc' = "dead" /\ faults' = faults + 1
        /\ UNCHANGED <<saved, responses>>
  /\ UNCHANGED <<todo, errs, eofs, clientVars, requestVars, serverVars,
                 pending, current, peerVars, quotaVars, forwarded, blocked,
                 uncompleted, pipelined>>

\* A callback that throws ends the thread: a read or write fails, or the
\* filter or a parser is given what it cannot handle.  Writing to a socket
\* that was closed and then reset raises a SIGPIPE, which nothing ignores.
Throws(a) ==
  /\ Runs(a) /\ (faults < Faults \/ Socket(a) \in reset)
  /\ pc' = IF /\ a \in {"serverOut", "clientOut"}
              /\ Socket(a) \in reset \cap closed
           THEN "killed" ELSE "dead"
  /\ faults' = faults + 1
  /\ UNCHANGED <<todo, errs, eofs, clientVars, requestVars, serverVars,
                 responseVars, toClient, peerVars, quotaVars, recordVars,
                 pipelined>>

Loop == Poll \/ (\E a \in {"serverIn", "clientIn", "serverOut", "clientOut"} :
                   PassOver(a) \/ Throws(a))
        \/ ServerRead \/ ServerEof \/ ClientRead \/ ClientEof
        \/ ServerWrite \/ ClientWrite

Peers == ClientSend \/ ClientReceive \/ ServerReply \/ RefuseRequests
         \/ (\E p \in {"client", "server"} : Close(p) \/ Reset(p))

Next == Loop \/ Peers \/ OtherConnection

Spec == Init /\ [][Next]_vars

\* The loop's thread runs whenever it can.  The peers play their part: the
\* client sends and receives, the server replies, and its kernel resets a
\* connection that it has closed.  Nobody has to close or to fail.
FairSpec ==
  /\ Spec
  /\ WF_vars(Loop)
  /\ WF_vars(ClientSend) /\ WF_vars(ClientReceive) /\ WF_vars(ServerReply)
  /\ WF_vars(RefuseRequests)
-----------------------------------------------------------------------------
\* Every response the parser has completed, oldest first.
Output == answered \o toClient \o responses

ReqsOf(rs) == [i \in DOMAIN rs |-> rs[i].req]
InProgress == IF current = NoMessage THEN << >> ELSE <<current.req>>

\* The loop's queues: a request the parser has completed is in exactly one of
\* them, in the order the client wrote it, on its way from request_parser
\* through response_parser to the client.
PipelineInOrder ==
  pc \notin {"dead", "crashed", "garbled"} =>
    LET pipeline == ReqsOf(Output) \o InProgress \o pending \o requests
    IN  pipeline = [i \in 1..Len(pipeline) |-> i]

\* new_request_arrived and the canned 405: as long as the client has pipelined
\* no invocation, the response matched to a request is the server's reply to
\* that request, or the 405 if it was blocked.
AnswersMatch ==
  ~pipelined => \A i \in DOMAIN Output :
    \/ Output[i].src = Output[i].req
    \/ Output[i].src = Canned /\ Output[i].req \in blocked

\* v2filter_client.hh:96 "never deliver original request": a request whose
\* buffer was blocked is not written to the server.
BlockedNotForwarded == blocked \cap Range(forwarded) = {}

\* It is not as long as the client has pipelined no invocation.
BlockedAloneNotForwarded == ~pipelined => BlockedNotForwarded

\* client.write before backing_store.save: the store holds the responses
\* written to the client, in that order; it misses at most the last one, and
\* only when the save has thrown.
SavedAsSent ==
  LET written == answered \o toClient
  IN  /\ IsPrefix(saved, written)
      /\ Len(written) - Len(saved) <= (IF pc = "dead" THEN 1 ELSE 0)

\* http_proxy.cc:81 "morph message into HTTP_Request": a queue is never empty
\* where its front is taken, nor a reply in progress where the 405 is parsed.
NeverLost == pc \notin {"crashed", "garbled"}

\* The front of an empty queue is taken only after a buffer was blocked that
\* completes no request.  Blocking one that does never takes away the request
\* server, Out was called for, although poll asked before the client was read.
CrashesOnlyUncompleted == pc = "crashed" => uncompleted

\* The interests of the four actions never leave a message waiting: every
\* request is answered, up to the one the rewrite of MaxCount has taken text
\* from, unless a peer, a read, a write or a save fails, the process is lost or
\* the stream is out of step.
AllAnswered ==
  <>(\/ Len(answered) = IF lacking = 0 THEN Len(Script) ELSE lacking - 1
     \/ faults > 0 \/ ~NeverLost)

\* When a peer closes, or its connection is reset, the loop ends, so that its
\* thread and sockets are freed.
Ended == pc \in {"exited", "dead", "killed", "crashed", "garbled"}
LoopEnds == closed \cup reset # {} ~> Ended
=============================================================================
