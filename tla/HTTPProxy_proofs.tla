-------------------------- MODULE HTTPProxy_proofs --------------------------
(***************************************************************************)
(* Proofs about one connection of the HTTP proxy, for every script of      *)
(* requests and replies, every way to cut them into reads, and any faults. *)
(***************************************************************************)
EXTENDS HTTPProxy, SequenceTheorems, FiniteSetTheorems, TLAPS

\* The facts about the folds that parse a buffer.
RequestFold == INSTANCE FoldFacts WITH Op <- ParseRequestPart
ResponseFold == INSTANCE FoldFacts WITH Op <- ParsePart

\* The loop has neither thrown nor lost its way.
Alive == pc \notin {"dead", "crashed", "garbled"}

\* How many requests have a complete response, have left request_parser, and
\* have been parsed.
Finished == Len(answered) + Len(toClient) + Len(responses)
Busy == IF current = NoMessage THEN 0 ELSE 1
Passed == Finished + Busy + Len(pending)
Parsed == Passed + Len(requests)

\* A sequence of requests, and of responses, numbered from k + 1.
From(s, k) == \A i \in 1..Len(s) : s[i] = k + i
ReqsFrom(s, k) == \A i \in 1..Len(s) : s[i].req = k + i

\* Each queue goes on where the one behind it ends.
Numbered ==
  /\ ReqsFrom(answered, 0)
  /\ ReqsFrom(toClient, Len(answered))
  /\ ReqsFrom(responses, Len(answered) + Len(toClient))
  /\ current # NoMessage => current.req = Finished + 1
  /\ From(pending, Finished + Busy)
  /\ From(requests, Passed)

\* The parts that travel from the client and from the server, and the request
\* each belongs to.
ClientPart == [req : Requests, key : BOOLEAN, count : BOOLEAN,
               end : BOOLEAN]
ServerPart == [src : Requests, ids : BOOLEAN, toEof : BOOLEAN, end : BOOLEAN]
ReqNo == [f \in ClientPart |-> f.req]
SrcNo == [f \in ServerPart |-> f.src]

\* Parts s of messages, from a part of message first to the last before a
\* part of message next: a part follows one of the same message, or the last
\* of the message before.
Inc(f) == IF f.end THEN 1 ELSE 0
At(no, s, next, i) == IF i <= Len(s) THEN no[s[i]] ELSE next
Run(no, s, first, next) ==
  /\ At(no, s, next, 1) = first
  /\ \A i \in 1..Len(s) : At(no, s, next, i + 1) = no[s[i]] + Inc(s[i])
  /\ \A i, j \in 1..(Len(s) + 1) :
       i <= j => At(no, s, next, i) <= At(no, s, next, j)

\* What the peers have begun to write can be gone on with.
Sending ==
  sentParts > 0 => sent < Len(Script) /\ sentParts < Len(Script[sent + 1])
Replying ==
  IF toServer = << >> THEN replied = 0
                      ELSE replied < Len(Replies[Head(toServer)])

InCallbacks == pc \in {"serverIn", "clientIn", "serverOut", "clientOut"}

\* When poll asked for the client, a response was there, and still is.
Offered == InCallbacks /\ "clientOut" \in todo => responses # << >>

\* What comes from the client is a run of parts, behind the requests parsed:
\* it goes on where they end as long as no request lacks text.
Coming ==
  \E first \in Int :
    /\ Parsed + 1 <= first /\ (lacking = 0 => first = Parsed + 1)
    /\ Run(ReqNo, toProxy, first, sent + 1)

InLine == Alive => Numbered /\ Coming

IInv ==
  /\ TypeOK /\ Sending /\ Replying /\ Offered
  /\ InLine
  /\ SavedAsSent
-----------------------------------------------------------------------------
(* As long as the client has pipelined no request with a resource's keywords. *)

\* The client has written a part of request r.
Begun(r) == r <= sent \/ (r = sent + 1 /\ sentParts > 0)

\* While such a request is not answered, there is no other.
Alone ==
  \A r \in Requests :
    HasKey(r) /\ Begun(r) /\ r > Len(answered) =>
      /\ Len(answered) = r - 1
      /\ \A q \in Requests : Begun(q) => q <= r

\* What is on its way from the client has been begun.
PartsBegun ==
  \A i \in 1..Len(toProxy) :
    /\ Begun(toProxy[i].req)
    /\ toProxy[i].key => HasKey(toProxy[i].req)

\* The server's side: every part belongs to a request that was passed on, and
\* the next one to the oldest that is not finished.
RepliesInLine ==
  /\ \A i \in 1..Len(fromServer) : fromServer[i].src <= Passed
  /\ current # NoMessage => current.src = current.req
  /\ \E next \in Nat :
       /\ Run(SrcNo, fromServer, Finished + 1, next)
       /\ "server" \notin closed =>
            /\ next = Passed - Len(toServer) + 1
            /\ From(toServer, Passed - Len(toServer))

\* A blocked request is finished, and one that was written has been passed.
VerdictsKept ==
  /\ \A r \in blocked : r <= Finished
  /\ \A i \in 1..Len(forwarded) : forwarded[i] <= Passed

\* A socket that poll found ready to be read still is when its turn comes.
Readable ==
  pc = "serverIn" /\ "serverIn" \in todo =>
    fromServer # << >> \/ "server" \in closed

\* Every response is the right one.
Right(x, b) == x.src = x.req \/ (x.src = Canned /\ x.req \in b)
AllRight(s, b) == \A i \in 1..Len(s) : Right(s[i], b)
AnswersRight ==
  /\ AllRight(answered, blocked) /\ AllRight(toClient, blocked)
  /\ AllRight(responses, blocked)

KInv ==
  /\ Alone /\ Readable
  /\ Alive => PartsBegun /\ RepliesInLine /\ VerdictsKept
  /\ AnswersRight /\ BlockedNotForwarded
-----------------------------------------------------------------------------
(* Sequences of numbers and runs of parts.                                 *)

\* A request joins a numbered queue at its end.
LEMMA FromAppend ==
  ASSUME NEW S, NEW s \in Seq(S), NEW x \in S, NEW k \in Int, From(s, k),
         x = k + Len(s) + 1
  PROVE  /\ Append(s, x) \in Seq(S) /\ Len(Append(s, x)) = Len(s) + 1
         /\ From(Append(s, x), k)
<1>1. /\ Len(s) \in Nat /\ Append(s, x) \in Seq(S)
      /\ Len(Append(s, x)) = Len(s) + 1
      /\ \A i \in 1..Len(s) : Append(s, x)[i] = s[i]
      /\ Append(s, x)[Len(s) + 1] = x
  BY AppendProperties, LenProperties
<1>2. From(Append(s, x), k)
  <2> SUFFICES ASSUME NEW i \in 1..(Len(s) + 1)
               PROVE  Append(s, x)[i] = k + i
    BY <1>1 DEF From
  <2>1. CASE i \in 1..Len(s)
    BY <1>1, <2>1 DEF From
  <2>2. CASE i = Len(s) + 1
    BY <1>1, <2>2
  <2> QED BY <1>1, <2>1, <2>2
<1> QED BY <1>1, <1>2

\* The first of a numbered queue, and what is left without it.
LEMMA FromTail ==
  ASSUME NEW S, NEW s \in Seq(S), s # << >>, NEW k \in Int, From(s, k)
  PROVE  /\ Head(s) \in S /\ Head(s) = k + 1
         /\ Tail(s) \in Seq(S) /\ Len(Tail(s)) = Len(s) - 1
         /\ From(Tail(s), k + 1)
<1>1. /\ Len(s) \in Nat \ {0} /\ Head(s) \in S /\ Head(s) = s[1]
      /\ Tail(s) \in Seq(S) /\ Len(Tail(s)) = Len(s) - 1
      /\ \A i \in 1..Len(Tail(s)) : Tail(s)[i] = s[i + 1]
  BY HeadTailProperties, LenProperties, EmptySeq
<1>2. Head(s) = k + 1
  BY <1>1 DEF From
<1>3. From(Tail(s), k + 1)
  <2> SUFFICES ASSUME NEW i \in 1..Len(Tail(s)) PROVE Tail(s)[i] = k + 1 + i
    BY DEF From
  <2>1. i + 1 \in 1..Len(s) /\ Tail(s)[i] = s[i + 1]
    BY <1>1
  <2>2. s[i + 1] = k + (i + 1)
    BY <2>1 DEF From
  <2> QED BY <2>1, <2>2
<1> QED BY <1>1, <1>2, <1>3

\* The same of responses.
LEMMA ReqsAppend ==
  ASSUME NEW S, NEW s \in Seq(S), NEW x \in S, NEW k \in Int, ReqsFrom(s, k),
         x.req = k + Len(s) + 1
  PROVE  /\ Append(s, x) \in Seq(S) /\ Len(Append(s, x)) = Len(s) + 1
         /\ ReqsFrom(Append(s, x), k)
<1>1. /\ Len(s) \in Nat /\ Append(s, x) \in Seq(S)
      /\ Len(Append(s, x)) = Len(s) + 1
      /\ \A i \in 1..Len(s) : Append(s, x)[i] = s[i]
      /\ Append(s, x)[Len(s) + 1] = x
  BY AppendProperties, LenProperties
<1>2. ReqsFrom(Append(s, x), k)
  <2> SUFFICES ASSUME NEW i \in 1..(Len(s) + 1)
               PROVE  Append(s, x)[i].req = k + i
    BY <1>1 DEF ReqsFrom
  <2>1. CASE i \in 1..Len(s)
    BY <1>1, <2>1 DEF ReqsFrom
  <2>2. CASE i = Len(s) + 1
    BY <1>1, <2>2
  <2> QED BY <1>1, <2>1, <2>2
<1> QED BY <1>1, <1>2

\* The first of a numbered queue of responses, and what is left without it.
LEMMA ReqsTail ==
  ASSUME NEW S, NEW s \in Seq(S), s # << >>, NEW k \in Int, ReqsFrom(s, k)
  PROVE  /\ Head(s) \in S /\ Head(s).req = k + 1
         /\ Tail(s) \in Seq(S) /\ Len(Tail(s)) = Len(s) - 1
         /\ ReqsFrom(Tail(s), k + 1)
<1>1. /\ Len(s) \in Nat \ {0} /\ Head(s) \in S /\ Head(s) = s[1]
      /\ Tail(s) \in Seq(S) /\ Len(Tail(s)) = Len(s) - 1
      /\ \A i \in 1..Len(Tail(s)) : Tail(s)[i] = s[i + 1]
  BY HeadTailProperties, LenProperties, EmptySeq
<1>2. Head(s).req = k + 1
  BY <1>1 DEF ReqsFrom
<1>3. ReqsFrom(Tail(s), k + 1)
  <2> SUFFICES ASSUME NEW i \in 1..Len(Tail(s)) PROVE Tail(s)[i].req = k + 1 + i
    BY DEF ReqsFrom
  <2>1. i + 1 \in 1..Len(s) /\ Tail(s)[i] = s[i + 1]
    BY <1>1
  <2>2. s[i + 1].req = k + (i + 1)
    BY <2>1 DEF ReqsFrom
  <2> QED BY <2>1, <2>2
<1> QED BY <1>1, <1>2, <1>3

\* What is left of a sequence behind its first n elements.
LEMMA DropFirst ==
  ASSUME NEW S, NEW s \in Seq(S), NEW n \in 1..Len(s)
  PROVE  LET buffer == SubSeq(s, 1, n)
             rest == SubSeq(s, n + 1, Len(s))
         IN  /\ Len(s) \in Nat
             /\ buffer \in Seq(S) /\ Len(buffer) = n /\ DOMAIN buffer = 1..n
             /\ \A i \in 1..n : buffer[i] = s[i]
             /\ rest \in Seq(S) /\ Len(rest) = Len(s) - n
             /\ \A i \in 1..(Len(s) - n) : rest[i] = s[n + i]
<1> DEFINE l == Len(s)
           buffer == SubSeq(s, 1, n)
           rest == SubSeq(s, n + 1, l)
<1>1. l \in Nat /\ \A i \in 1..l : s[i] \in S
  BY LenProperties, ElementOfSeq
<1>2. n \in Nat /\ 1 <= n /\ n <= l
  BY <1>1
<1> HIDE DEF l
<1>3. /\ buffer \in Seq(S) /\ Len(buffer) = n
      /\ \A i \in 1..n : buffer[i] = s[i]
  <2>1. \A i \in 1..n : s[i] \in S
    BY <1>1, <1>2
  <2>2. /\ buffer \in Seq(S) /\ Len(buffer) = IF 1 <= n THEN n - 1 + 1 ELSE 0
        /\ \A i \in 1..(n - 1 + 1) : buffer[i] = s[1 + i - 1]
    BY <2>1, <1>2, SubSeqProperties
  <2> QED BY <2>2, <1>2
<1>4. /\ rest \in Seq(S) /\ Len(rest) = l - n
      /\ \A i \in 1..(l - n) : rest[i] = s[n + i]
  <2>1. \A i \in (n + 1)..l : s[i] \in S
    BY <1>1, <1>2
  <2>2. n + 1 \in Int /\ l \in Int
    BY <1>1, <1>2
  <2>3. /\ rest \in Seq(S)
        /\ Len(rest) = IF n + 1 <= l THEN l - (n + 1) + 1 ELSE 0
        /\ \A i \in 1..(l - (n + 1) + 1) : rest[i] = s[(n + 1) + i - 1]
    BY <2>1, <2>2, SubSeqProperties
  <2>4. Len(rest) = l - n
    BY <2>3, <1>1, <1>2
  <2>5. ASSUME NEW i \in 1..(l - n) PROVE rest[i] = s[n + i]
    <3>1. i \in 1..(l - (n + 1) + 1) /\ (n + 1) + i - 1 = n + i
      BY <1>1, <1>2
    <3> QED BY <2>3, <3>1
  <2> QED BY <2>3, <2>4, <2>5
<1>5. DOMAIN buffer = 1..n
  BY <1>3, LenProperties
<1> QED BY <1>1, <1>3, <1>4, <1>5 DEF l

\* Of parts in a run, what is left behind the first n goes on where they end.
LEMMA RunDrop ==
  ASSUME NEW S, NEW s \in Seq(S), NEW no \in [S -> Int], NEW n \in 1..Len(s),
         NEW first \in Int, NEW next \in Int, Run(no, s, first, next)
  PROVE  /\ Run(no, SubSeq(s, n + 1, Len(s)), At(no, s, next, n + 1), next)
         /\ At(no, s, next, n + 1) \in Int
<1> DEFINE rest == SubSeq(s, n + 1, Len(s))
<1>1. /\ Len(s) \in Nat /\ rest \in Seq(S) /\ Len(rest) = Len(s) - n
      /\ \A i \in 1..(Len(s) - n) : rest[i] = s[n + i]
  BY DropFirst
<1>2. /\ Len(s) \in Nat /\ n \in Nat /\ 1 <= n /\ n <= Len(s)
      /\ \A i \in 1..Len(s) : s[i] \in S
  BY <1>1, ElementOfSeq
<1> HIDE DEF rest
<1>3. ASSUME NEW i \in 1..(Len(rest) + 1)
      PROVE  At(no, rest, next, i) = At(no, s, next, n + i)
  <2>1. CASE i <= Len(rest)
    <3>1. i \in 1..(Len(s) - n) /\ n + i <= Len(s)
      BY <1>1, <1>2, <2>1
    <3> QED BY <1>1, <2>1, <3>1 DEF At
  <2>2. CASE ~(i <= Len(rest))
    BY <1>1, <1>2, <2>2 DEF At
  <2> QED BY <2>1, <2>2
<1>4. At(no, rest, next, 1) = At(no, s, next, n + 1)
  BY <1>1, <1>2, <1>3
<1>5. ASSUME NEW i \in 1..Len(rest)
      PROVE  At(no, rest, next, i + 1) = no[rest[i]] + Inc(rest[i])
  <2>a. Len(rest) = Len(s) - n /\ Len(rest) \in Int
    BY <1>1, <1>2
  <2>b. i \in 1..(Len(s) - n)
    BY <2>a
  <2>0. i \in 1..(Len(s) - n) /\ i + 1 \in 1..(Len(rest) + 1)
    BY <2>a, <2>b
  <2>1. n + i \in 1..Len(s) /\ rest[i] = s[n + i] /\ (n + i) + 1 = n + (i + 1)
    BY <2>0, <1>1, <1>2
  <2>2. At(no, s, next, (n + i) + 1) = no[s[n + i]] + Inc(s[n + i])
    BY <2>1 DEF Run
  <2> QED BY <2>0, <2>1, <2>2, <1>3
<1>6. ASSUME NEW i \in 1..(Len(rest) + 1), NEW j \in 1..(Len(rest) + 1), i <= j
      PROVE  At(no, rest, next, i) <= At(no, rest, next, j)
  <2>1. /\ n + i \in 1..(Len(s) + 1) /\ n + j \in 1..(Len(s) + 1)
        /\ n + i <= n + j
    BY <1>1, <1>2, <1>6
  <2>2. At(no, s, next, n + i) <= At(no, s, next, n + j)
    BY <2>1 DEF Run
  <2> QED BY <2>2, <1>3
<1>7. At(no, s, next, n + 1) \in Int
  BY <1>2 DEF At
<1> QED BY <1>4, <1>5, <1>6, <1>7 DEF Run, rest

\* A part of the next message joins a run.
LEMMA RunAppend ==
  ASSUME NEW S, NEW s \in Seq(S), NEW no \in [S -> Int], NEW x \in S,
         NEW first \in Int, Run(no, s, first, no[x])
  PROVE  Run(no, Append(s, x), first, no[x] + Inc(x))
<1> DEFINE t == Append(s, x)
           next == no[x] + Inc(x)
<1>1. /\ Len(s) \in Nat /\ t \in Seq(S) /\ Len(t) = Len(s) + 1
      /\ \A i \in 1..Len(s) : t[i] = s[i] /\ s[i] \in S
      /\ t[Len(s) + 1] = x
  BY AppendProperties, LenProperties, ElementOfSeq
<1>2. next \in Int /\ no[x] \in Int /\ no[x] <= next
  BY DEF Inc
<1> HIDE DEF t, next
<1>3. ASSUME NEW i \in 1..(Len(s) + 1)
      PROVE  At(no, t, next, i) = At(no, s, no[x], i)
  BY <1>1 DEF At
<1>4. At(no, t, next, 1) = first
  BY <1>1, <1>3 DEF Run
<1>5. ASSUME NEW i \in 1..Len(t)
      PROVE  At(no, t, next, i + 1) = no[t[i]] + Inc(t[i])
  <2>1. CASE i \in 1..Len(s)
    <3>1. At(no, s, no[x], i + 1) = no[s[i]] + Inc(s[i])
      BY <2>1 DEF Run
    <3>2. i + 1 \in 1..(Len(s) + 1)
      BY <1>1, <2>1
    <3> QED BY <1>1, <1>3, <2>1, <3>1, <3>2
  <2>2. CASE i = Len(s) + 1
    BY <1>1, <2>2 DEF At, next
  <2> QED BY <1>1, <2>1, <2>2
<1>6. ASSUME NEW i \in 1..(Len(t) + 1), NEW j \in 1..(Len(t) + 1), i <= j
      PROVE  At(no, t, next, i) <= At(no, t, next, j)
  <2>1. CASE j <= Len(s) + 1
    <3>1. i \in 1..(Len(s) + 1) /\ j \in 1..(Len(s) + 1)
      BY <1>1, <1>6, <2>1
    <3>2. At(no, s, no[x], i) <= At(no, s, no[x], j)
      BY <1>6, <3>1 DEF Run
    <3> QED BY <1>3, <3>1, <3>2
  <2>2. CASE j = Len(s) + 2 /\ i = j
    BY <1>1, <1>2, <2>2 DEF At
  <2>3. CASE j = Len(s) + 2 /\ i <= Len(s) + 1
    <3>1. i \in 1..(Len(s) + 1) /\ Len(s) + 1 \in 1..(Len(s) + 1)
      BY <1>1, <2>3
    <3>2. At(no, s, no[x], i) <= At(no, s, no[x], Len(s) + 1)
      BY <3>1 DEF Run
    <3>3. At(no, s, no[x], Len(s) + 1) = no[x] /\ At(no, t, next, j) = next
      BY <1>1, <2>3 DEF At
    <3>4. At(no, s, no[x], i) \in Int
      BY <1>1, <1>2, <3>1 DEF At
    <3>5. At(no, t, next, i) = At(no, s, no[x], i)
      BY <1>3, <3>1
    <3> HIDE DEF next
    <3> QED BY <1>2, <3>2, <3>3, <3>4, <3>5
  <2> QED BY <1>1, <1>6, <2>1, <2>2, <2>3
<1> QED BY <1>4, <1>5, <1>6 DEF Run, t, next
-----------------------------------------------------------------------------
(* The parsers.                                                            *)

\* The requests are the numbers from 1, so that NoMessage is none of them.
LEMMA RequestNumbers ==
  /\ Len(Script) \in Nat /\ Requests = 1..Len(Script) /\ Requests \subseteq Int
  /\ ReqNo \in [ClientPart -> Int] /\ SrcNo \in [ServerPart -> Int]
<1>1. Script \in Seq(Seq(RequestPart))
  BY ScriptAssumption, SeqDef
<1>2. Len(Script) \in Nat /\ Requests = 1..Len(Script)
  BY <1>1, LenProperties DEF Requests
<1>3. Requests \subseteq Int
  BY <1>2
<1> QED BY <1>2, <1>3 DEF ReqNo, SrcNo, ClientPart, ServerPart

\* A sequence s begins with those of buffer.
Begins(buffer, s) ==
  Len(buffer) <= Len(s) /\ \A i \in 1..Len(buffer) : buffer[i] = s[i]

\* The queue behind request_parser once it has parsed the buffer.
QueueOf(queue, buffer) == FoldLeft(ParseRequestPart, queue, buffer)

\* HTTPRequestParser::parse on the first parts of a run: the requests they
\* complete join the queue in order, and the next part belongs to the request
\* behind the last of them (src/src/http/http_message_sequence.hh:140).
LEMMA RequestsParsed ==
  ASSUME NEW s \in Seq(ClientPart), NEW buffer \in Seq(ClientPart),
         Begins(buffer, s),
         NEW queue \in Seq(Requests), NEW k \in Int, From(queue, k),
         NEW next \in Int, NEW first \in Int, first = k + Len(queue) + 1,
         Run(ReqNo, s, first, next)
  PROVE  LET q == QueueOf(queue, buffer)
         IN  /\ q \in Seq(Requests) /\ From(q, k) /\ Len(queue) <= Len(q)
             /\ At(ReqNo, s, next, Len(buffer) + 1) = k + Len(q) + 1
<1> DEFINE n == Len(buffer)
           Good == {p \in (0..n) \X Seq(Requests) :
                      /\ From(p[2], k) /\ Len(queue) <= Len(p[2])
                      /\ At(ReqNo, s, next, p[1] + 1) = k + Len(p[2]) + 1}
<1>1. /\ Len(s) \in Nat /\ n \in Nat
      /\ DOMAIN buffer = 1..n /\ \A i \in 1..n : buffer[i] = s[i]
  BY LenProperties DEF Begins
<1> HIDE DEF n
<1>2. n \in Nat /\ n <= Len(s) /\ Len(queue) \in Nat
  BY <1>1, LenProperties DEF n, Begins
<1>3. <<0, queue>> \in Good
  BY <1>1, <1>2 DEF Run
<1>4. ASSUME NEW i \in 1..n, NEW q, <<i - 1, q>> \in Good
      PROVE  <<i, ParseRequestPart(q, buffer[i])>> \in Good
  <2> DEFINE f == buffer[i]
  <2>1. /\ q \in Seq(Requests) /\ From(q, k) /\ Len(queue) <= Len(q)
        /\ At(ReqNo, s, next, (i - 1) + 1) = k + Len(q) + 1
    BY <1>4
  <2>2. f = s[i] /\ f \in ClientPart /\ i \in 1..Len(s) /\ (i - 1) + 1 = i
    BY <1>1, <1>2, ElementOfSeq
  <2>3. f.req \in Requests /\ f.end \in BOOLEAN /\ ReqNo[f] = f.req
    BY <2>2 DEF ClientPart, ReqNo
  <2>4. f.req = k + Len(q) + 1
    BY <2>1, <2>2, <2>3, <1>1, <1>2 DEF At
  <2>5. At(ReqNo, s, next, i + 1) = f.req + Inc(f)
    BY <2>2, <2>3 DEF Run
  <2>6. Len(q) \in Nat
    BY <2>1, LenProperties
  <2>7. CASE f.end
    <3>1. /\ Append(q, f.req) \in Seq(Requests) /\ From(Append(q, f.req), k)
          /\ Len(Append(q, f.req)) = Len(q) + 1
      BY <2>1, <2>3, <2>4, FromAppend
    <3>2. At(ReqNo, s, next, i + 1) = k + Len(Append(q, f.req)) + 1
      BY <2>4, <2>5, <2>6, <2>7, <3>1 DEF Inc
    <3>3. Len(queue) <= Len(Append(q, f.req)) /\ i \in 0..n
      BY <2>1, <2>6, <3>1, <1>2
    <3>4. ParseRequestPart(q, f) = Append(q, f.req)
      BY <2>7 DEF ParseRequestPart
    <3> QED BY <3>1, <3>2, <3>3, <3>4
  <2>8. CASE ~f.end
    <3>1. ParseRequestPart(q, f) = q /\ i \in 0..n
      BY <2>8, <1>2 DEF ParseRequestPart
    <3>2. At(ReqNo, s, next, i + 1) = k + Len(q) + 1
      BY <2>4, <2>5, <2>6, <2>8 DEF Inc
    <3> QED BY <2>1, <3>1, <3>2
  <2> QED BY <2>7, <2>8
<1> DEFINE q == QueueOf(queue, buffer)
<1>5. <<n, q>> \in Good
  <2> HIDE DEF Good
  <2>1. <<n, RequestFold!Fold(queue, buffer)>> \in Good
    BY <1>1, <1>2, <1>3, <1>4, RequestFold!FoldLeftInduction
  <2>2. RequestFold!Fold(queue, buffer) = q
    BY DEF QueueOf, RequestFold!Fold, FoldLeft, MapThenFoldSet,
           RequestFold!FoldLeft, RequestFold!MapThenFoldSet, Max,
           RequestFold!Max
  <2> QED BY <2>1, <2>2
<1> HIDE DEF q
<1>6. /\ q \in Seq(Requests) /\ From(q, k) /\ Len(queue) <= Len(q)
      /\ At(ReqNo, s, next, n + 1) = k + Len(q) + 1
  BY <1>5
<1> QED BY <1>6 DEF q, n

\* Nothing is parsed of nothing.
LEMMA NothingParsed == ParseRequests(<< >>) = requests
<1> DEFINE Good == {<<0, requests>>}
<1>1. DOMAIN << >> = 1..0 /\ 0 \in Nat
  BY EmptySeq, LenProperties
<1>2. <<0, requests>> \in Good
  OBVIOUS
<1>3. \A i \in 1..0 : \A st : <<i - 1, st>> \in Good =>
        <<i, ParseRequestPart(st, << >>[i])>> \in Good
  OBVIOUS
<1> HIDE DEF Good
<1>4. <<0, RequestFold!Fold(requests, << >>)>> \in Good
  BY <1>1, <1>2, <1>3, RequestFold!FoldLeftInduction
<1>5. RequestFold!Fold(requests, << >>) = ParseRequests(<< >>)
  BY DEF ParseRequests, RequestFold!Fold, FoldLeft, MapThenFoldSet,
         RequestFold!FoldLeft, RequestFold!MapThenFoldSet, Max, RequestFold!Max
<1> QED BY <1>4, <1>5 DEF Good

\* The state of HTTPResponseParser, and its queues numbered behind the a
\* responses that have left it, total being the last request it knows.
InReply == [req : Requests, src : Requests, toEof : BOOLEAN] \cup {NoMessage}
ParseState == [pending : Seq(Requests), current : InReply,
               done : Seq(Response), threw : BOOLEAN]
Started(st) == IF st.current = NoMessage THEN 0 ELSE 1
StateNumbered(st, a, total) ==
  /\ ReqsFrom(st.done, a)
  /\ st.current # NoMessage => st.current.req = a + Len(st.done) + 1
  /\ From(st.pending, a + Len(st.done) + Started(st))
  /\ a + Len(st.done) + Started(st) + Len(st.pending) = total

\* The message a part belongs to.
SrcOf(st, f) == IF st.current = NoMessage THEN f.src ELSE st.current.src

\* HTTPResponseParser on one part (src/src/http/http_response_parser.cc:9):
\* the queues stay numbered; a last part completes the next response, any
\* other leaves it in progress.
LEMMA PartParsed ==
  ASSUME NEW st \in ParseState, NEW f \in ServerPart \cup {CannedPart},
         f.end \/ f \in ServerPart,
         NEW a \in Nat, NEW total \in Int, ~st.threw,
         StateNumbered(st, a, total)
  PROVE  LET new == ParsePart(st, f)
         IN  /\ new \in ParseState
             /\ st.pending # << >> => ~new.threw
             /\ new.threw => /\ new.done = st.done /\ new.current = st.current
             /\ ~new.threw => StateNumbered(new, a, total)
             /\ ~new.threw /\ f.end =>
                  /\ new.done = Append(st.done, [req |-> a + Len(st.done) + 1,
                                                 src |-> SrcOf(st, f)])
                  /\ new.current = NoMessage
             /\ ~new.threw /\ ~f.end =>
                  /\ new.done = st.done
                  /\ new.current # NoMessage /\ new.current.src = SrcOf(st, f)
<1> DEFINE new == ParsePart(st, f)
<1>1. /\ st.pending \in Seq(Requests) /\ st.current \in InReply
      /\ st.done \in Seq(Response) /\ st.threw = FALSE
      /\ st = [pending |-> st.pending, current |-> st.current,
               done |-> st.done, threw |-> FALSE]
  BY DEF ParseState
<1>2. f.end \in BOOLEAN /\ f.src \in Requests \cup {Canned}
      /\ (f \in ServerPart => f.src \in Requests /\ f.toEof \in BOOLEAN)
  <2>1. CASE f \in ServerPart
    BY <2>1 DEF ServerPart
  <2>2. CASE f = CannedPart /\ f \notin ServerPart
    BY <2>2 DEF CannedPart
  <2> QED BY <2>1, <2>2
<1>3. Len(st.done) \in Nat /\ Len(st.pending) \in Nat 
  BY <1>1, LenProperties
<1> DEFINE ld == Len(st.done)
           lp == Len(st.pending)
<1>a. ld \in Nat /\ lp \in Nat
  BY <1>3
<1> HIDE DEF ld, lp
<1>4. CASE st.current = NoMessage /\ st.pending = << >>
  <2>1. new = [pending |-> st.pending, current |-> st.current,
               done |-> st.done, threw |-> TRUE]
    BY <1>1, <1>4 DEF ParsePart
  <2> QED BY <1>1, <1>4, <2>1 DEF ParseState
<1>5. CASE st.current = NoMessage /\ st.pending # << >>
  <2> DEFINE h == Head(st.pending)
             left == Tail(st.pending)
             now == [req |-> h, src |-> f.src, toEof |-> f.toEof]
             r == [req |-> h, src |-> f.src]
  <2>1. /\ h \in Requests /\ h = a + Len(st.done) + 1
        /\ left \in Seq(Requests) /\ Len(left) = Len(st.pending) - 1
        /\ From(left, a + Len(st.done) + 1)
    <3>1. From(st.pending, a + Len(st.done)) /\ a + Len(st.done) \in Int
      BY <1>3, <1>5 DEF StateNumbered, Started
    <3> QED BY <1>1, <1>5, <3>1, FromTail
  <2>2. a + ld + lp = total
    <3>1. a + ld + 0 + lp = total
      BY <1>5 DEF StateNumbered, Started, ld, lp
    <3> QED BY <3>1, <1>a
  <2>3. SrcOf(st, f) = f.src /\ ReqsFrom(st.done, a)
    BY <1>5 DEF SrcOf, StateNumbered
  <2>4. CASE f.end
    <3>1. new = [pending |-> left, current |-> NoMessage,
                 done |-> Append(st.done, r), threw |-> FALSE]
      BY <1>1, <1>5, <2>4 DEF ParsePart
    <3>2. r \in Response /\ r.req = a + Len(st.done) + 1
      BY <1>2, <2>1 DEF Response
    <3>3. /\ Append(st.done, r) \in Seq(Response)
          /\ Len(Append(st.done, r)) = Len(st.done) + 1
          /\ ReqsFrom(Append(st.done, r), a)
      <4> HIDE DEF r
      <4> QED BY <1>1, <3>2, <2>3, ReqsAppend
    <3>4. new \in ParseState
      BY <2>1, <3>1, <3>3 DEF ParseState, InReply
    <3>5. StateNumbered(new, a, total)
      <4> HIDE DEF h, left, r, new
      <4>1. /\ new.done = Append(st.done, r) /\ new.current = NoMessage
            /\ new.pending = left
        BY <3>1
      <4>2. Started(new) = 0
        BY <4>1 DEF Started
      <4>3. a + Len(new.done) + Started(new) = a + Len(st.done) + 1
        BY <4>1, <4>2, <3>3, <1>3
      <4>4. a + ld + 1 + (lp - 1) = total
        BY <2>2, <1>a
      <4> QED BY <4>1, <4>3, <4>4, <2>1, <3>3 DEF StateNumbered, ld, lp
    <3>6. r = [req |-> a + Len(st.done) + 1, src |-> SrcOf(st, f)]
      BY <2>1, <2>3
    <3> HIDE DEF h, left
    <3> QED BY <2>4, <3>1, <3>4, <3>5, <3>6
  <2>5. CASE ~f.end
    <3>1. new = [pending |-> left, current |-> now,
                 done |-> st.done, threw |-> FALSE]
      BY <1>1, <1>5, <2>5 DEF ParsePart
    <3>2. /\ now \in [req : Requests, src : Requests, toEof : BOOLEAN]
          /\ now # NoMessage
      <4>1. f \in ServerPart
        BY <2>5
      <4>2. now.req # 0
        BY <2>1, RequestNumbers
      <4> QED BY <1>2, <2>1, <4>1, <4>2 DEF NoMessage
    <3>3. new \in ParseState
      BY <1>1, <2>1, <3>1, <3>2 DEF ParseState, InReply
    <3>4. StateNumbered(new, a, total)
      <4>0. now.req = h
        OBVIOUS
      <4> HIDE DEF h, left, now, new
      <4>1. /\ new.done = st.done /\ new.current = now
            /\ new.pending = left
        BY <3>1
      <4>2. Started(new) = 1
        BY <4>1, <3>2 DEF Started
      <4>3. a + Len(new.done) + Started(new) = a + Len(st.done) + 1
        BY <4>1, <4>2, <1>3
      <4>4. a + ld + 1 + (lp - 1) = total
        BY <2>2, <1>a
      <4> QED BY <4>0, <4>1, <4>3, <4>4, <2>1, <2>3
           DEF StateNumbered, ld, lp
    <3>5. now.src = SrcOf(st, f)
      BY <2>3
    <3> HIDE DEF h, left, now
    <3> QED BY <2>5, <3>1, <3>2, <3>3, <3>4, <3>5
  <2> QED BY <1>2, <2>4, <2>5
<1>6. CASE st.current # NoMessage
  <2> DEFINE now == [st.current EXCEPT !.toEof = f.toEof]
             r == [req |-> now.req, src |-> now.src]
  <2>1. /\ st.current \in [req : Requests, src : Requests, toEof : BOOLEAN]
        /\ st.current.req = a + Len(st.done) + 1
        /\ From(st.pending, a + Len(st.done) + 1)
        /\ a + Len(st.done) + 1 + Len(st.pending) = total
        /\ SrcOf(st, f) = st.current.src /\ ReqsFrom(st.done, a)
    BY <1>1, <1>6 DEF InReply, StateNumbered, Started, SrcOf
  <2>2. now.req = st.current.req /\ now.src = st.current.src
    BY <2>1
  <2>3. r \in Response /\ r.req = a + Len(st.done) + 1
    BY <2>1, <2>2 DEF Response
  <2>4. CASE f.end
    <3>1. new = [pending |-> st.pending, current |-> NoMessage,
                 done |-> Append(st.done, r), threw |-> FALSE]
      BY <1>1, <1>6, <2>4 DEF ParsePart
    <3>2. /\ Append(st.done, r) \in Seq(Response)
          /\ Len(Append(st.done, r)) = Len(st.done) + 1
          /\ ReqsFrom(Append(st.done, r), a)
      <4> HIDE DEF r
      <4> QED BY <1>1, <2>1, <2>3, ReqsAppend
    <3>3. new \in ParseState
      BY <1>1, <3>1, <3>2 DEF ParseState, InReply
    <3>4. StateNumbered(new, a, total)
      <4> HIDE DEF r, new
      <4>1. /\ new.done = Append(st.done, r) /\ new.current = NoMessage
            /\ new.pending = st.pending
        BY <3>1
      <4>2. Started(new) = 0
        BY <4>1 DEF Started
      <4>3. a + Len(new.done) + Started(new) = a + Len(st.done) + 1
        BY <4>1, <4>2, <3>2, <1>3
      <4> QED BY <4>1, <4>3, <2>1, <3>2 DEF StateNumbered
    <3>5. r = [req |-> a + Len(st.done) + 1, src |-> SrcOf(st, f)]
      BY <2>1, <2>2
    <3> QED BY <2>4, <3>1, <3>3, <3>4, <3>5
  <2>5. CASE ~f.end
    <3>1. new = [pending |-> st.pending, current |-> now,
                 done |-> st.done, threw |-> FALSE]
      BY <1>1, <1>6, <2>5 DEF ParsePart
    <3>2. /\ now \in [req : Requests, src : Requests, toEof : BOOLEAN]
          /\ now # NoMessage
      <4>1. f \in ServerPart
        BY <2>5
      <4>2. now.req # 0
        BY <2>1, <2>2, RequestNumbers
      <4> QED BY <1>2, <2>1, <4>1, <4>2 DEF NoMessage
    <3>3. new \in ParseState
      BY <1>1, <3>1, <3>2 DEF ParseState, InReply
    <3>4. StateNumbered(new, a, total)
      <4> HIDE DEF now, new
      <4>1. /\ new.done = st.done /\ new.current = now
            /\ new.pending = st.pending
        BY <3>1
      <4>2. Started(new) = 1
        BY <4>1, <3>2 DEF Started
      <4>3. a + Len(new.done) + Started(new) = a + Len(st.done) + 1
        BY <4>1, <4>2, <1>3
      <4> QED BY <4>1, <4>3, <2>1, <2>2 DEF StateNumbered
    <3> HIDE DEF now
    <3> QED BY <2>1, <2>2, <2>5, <3>1, <3>2, <3>3, <3>4
  <2> QED BY <1>2, <2>4, <2>5
<1> QED BY <1>4, <1>5, <1>6

\* What completed responses are kept, and what parts in a run of replies do:
\* each belongs to the response that is next.
Kept(st, done) ==
  /\ Len(done) <= Len(st.done) /\ \A j \in 1..Len(done) : st.done[j] = done[j]
Matched(m) == m # NoMessage => m.src = m.req
InStep(st, done, a, nextSrc) ==
  /\ Matched(st.current)
  /\ \A j \in (Len(done) + 1)..Len(st.done) : st.done[j].src = st.done[j].req
  /\ ~st.threw => nextSrc = a + Len(st.done) + 1

\* One part: what is kept stays so, and parts that belong to the response that
\* is next go on doing so.
LEMMA PartInStep ==
  ASSUME NEW st \in ParseState, NEW f \in ServerPart, NEW done \in Seq(Response),
         NEW a \in Nat, NEW total \in Int,
         ~st.threw => StateNumbered(st, a, total), Kept(st, done)
  PROVE  LET new == ParsePart(st, f)
         IN  /\ new \in ParseState /\ Kept(new, done)
             /\ ~new.threw => StateNumbered(new, a, total)
             /\ InStep(st, done, a, f.src) =>
                  InStep(new, done, a, f.src + Inc(f))
<1> DEFINE new == ParsePart(st, f)
<1>1. /\ st.done \in Seq(Response) /\ st.current \in InReply
      /\ st.threw \in BOOLEAN
      /\ st = [pending |-> st.pending, current |-> st.current,
               done |-> st.done, threw |-> st.threw]
  BY DEF ParseState
<1>2. f.end \in BOOLEAN /\ f.src \in Requests /\ f.src \in Int
  BY RequestNumbers DEF ServerPart
<1> DEFINE l == Len(done)
           ls == Len(st.done)
<1>3. l \in Nat /\ ls \in Nat
  BY <1>1, LenProperties
<1>4. CASE st.threw
  <2>1. new = st
    BY <1>1, <1>4 DEF ParsePart
  <2>2. InStep(st, done, a, f.src) => InStep(new, done, a, f.src + Inc(f))
    BY <1>4, <2>1 DEF InStep
  <2> QED BY <1>4, <2>1, <2>2
<1>5. CASE ~st.threw
  <2>1. /\ new \in ParseState
        /\ new.threw => new.done = st.done /\ new.current = st.current
        /\ ~new.threw => StateNumbered(new, a, total)
        /\ ~new.threw /\ f.end =>
             /\ new.done = Append(st.done, [req |-> a + Len(st.done) + 1,
                                            src |-> SrcOf(st, f)])
             /\ new.current = NoMessage
        /\ ~new.threw /\ ~f.end =>
             /\ new.done = st.done
             /\ new.current # NoMessage /\ new.current.src = SrcOf(st, f)
    BY <1>5, PartParsed
  <2> HIDE DEF new
  <2>2. CASE new.threw
    <3>1. Kept(new, done)
      BY <2>1, <2>2 DEF Kept
    <3>2. InStep(st, done, a, f.src) => InStep(new, done, a, f.src + Inc(f))
      BY <2>1, <2>2 DEF InStep
    <3> QED BY <2>1, <2>2, <3>1, <3>2 DEF new
  <2>3. CASE ~new.threw /\ f.end
    <3> DEFINE r == [req |-> a + Len(st.done) + 1, src |-> SrcOf(st, f)]
    <3>1. new.done = Append(st.done, r) /\ new.current = NoMessage
      BY <2>1, <2>3
    <3>2. /\ r.req = a + ls + 1 /\ r.src = SrcOf(st, f)
      OBVIOUS
    <3> HIDE DEF r
    <3>3. /\ Len(new.done) = ls + 1 /\ new.done[ls + 1] = r
          /\ \A j \in 1..ls : new.done[j] = st.done[j]
      <4>1. new.done \in Seq(Response)
        BY <2>1 DEF ParseState
      <4>2. /\ Len(Append(st.done, r)) = Len(st.done) + 1
            /\ \A j \in 1..Len(st.done) : Append(st.done, r)[j] = st.done[j]
            /\ Append(st.done, r)[Len(st.done) + 1] = r
        BY <1>1, AppendProperties
      <4> QED BY <3>1, <4>2
    <3>4. l <= ls /\ \A j \in 1..l : st.done[j] = done[j]
      BY DEF Kept
    <3> HIDE DEF l, ls
    <3>5. Kept(new, done)
      <4>1. l <= Len(new.done) /\ \A j \in 1..l : j \in 1..ls
        BY <3>3, <3>4, <1>3
      <4> QED BY <3>3, <3>4, <4>1 DEF Kept, l
    <3>6. ASSUME InStep(st, done, a, f.src)
          PROVE  InStep(new, done, a, f.src + Inc(f))
      <4>1. f.src = a + ls + 1
        BY <1>5, <3>6 DEF InStep, ls
      <4>2. SrcOf(st, f) = a + ls + 1
        <5>1. CASE st.current = NoMessage
          BY <4>1, <5>1 DEF SrcOf
        <5>2. CASE st.current # NoMessage
          BY <1>5, <3>6, <5>2 DEF SrcOf, InStep, Matched, StateNumbered, ls
        <5> QED BY <5>1, <5>2
      <4>3. ASSUME NEW j \in (l + 1)..(ls + 1)
            PROVE  new.done[j].src = new.done[j].req
        <5>1. CASE j \in (l + 1)..ls
          <6>1. st.done[j].src = st.done[j].req
            BY <3>6, <5>1 DEF InStep, l, ls
          <6>2. j \in 1..ls
            BY <5>1, <1>3
          <6> QED BY <3>3, <6>1, <6>2
        <5>2. CASE j = ls + 1
          BY <3>2, <3>3, <4>2, <5>2
        <5> QED BY <5>1, <5>2, <1>3
      <4>4. f.src + Inc(f) = a + Len(new.done) + 1
        <5>1. f.src + Inc(f) = a + ls + 1 + 1
          BY <4>1, <2>3 DEF Inc
        <5>2. a + Len(new.done) + 1 = a + (ls + 1) + 1
          BY <3>3
        <5> QED BY <5>1, <5>2, <1>3
      <4> QED BY <3>1, <3>3, <4>3, <4>4 DEF InStep, Matched, l
    <3> QED BY <2>1, <2>3, <3>5, <3>6 DEF new
  <2>4. CASE ~new.threw /\ ~f.end
    <3>1. new.done = st.done
      BY <2>1, <2>4
    <3>2. Kept(new, done)
      BY <3>1 DEF Kept
    <3>3. ASSUME InStep(st, done, a, f.src)
          PROVE  InStep(new, done, a, f.src + Inc(f))
      <4> HIDE DEF ls
      <4>1. f.src = a + ls + 1
        BY <1>5, <3>3 DEF InStep, ls
      <4>2. SrcOf(st, f) = a + ls + 1
        <5>1. CASE st.current = NoMessage
          BY <4>1, <5>1 DEF SrcOf
        <5>2. CASE st.current # NoMessage
          BY <1>5, <3>3, <5>2 DEF SrcOf, InStep, Matched, StateNumbered, ls
        <5> QED BY <5>1, <5>2
      <4>3. new.current.req = a + ls + 1
        BY <2>1, <2>4, <3>1 DEF StateNumbered, ls
      <4>4. Matched(new.current)
        BY <2>1, <2>4, <4>2, <4>3 DEF Matched
      <4>5. f.src + Inc(f) = a + Len(new.done) + 1
        <5>1. f.src + Inc(f) = a + ls + 1 + 0
          BY <4>1, <2>4 DEF Inc
        <5>2. a + Len(new.done) + 1 = a + ls + 1
          BY <3>1 DEF ls
        <5> QED BY <5>1, <5>2, <1>3
      <4> QED BY <3>1, <3>3, <4>4, <4>5 DEF InStep
    <3> QED BY <2>1, <2>4, <3>2, <3>3 DEF new
  <2> QED BY <1>2, <2>2, <2>3, <2>4
<1> QED BY <1>1, <1>4, <1>5

\* HTTPResponseParser::parse on the first n parts in the server's socket
\* (src/src/http/http_message_sequence.hh:140).
LEMMA ResponsesParsed ==
  ASSUME NEW s \in Seq(ServerPart), NEW n \in 1..Len(s),
         NEW st \in ParseState, ~st.threw, NEW a \in Nat, NEW total \in Int,
         StateNumbered(st, a, total), NEW next \in Int
  PROVE  LET new == FoldLeft(ParsePart, st, SubSeq(s, 1, n))
         IN  /\ new \in ParseState /\ Kept(new, st.done)
             /\ ~new.threw => StateNumbered(new, a, total)
             /\ Matched(st.current)
                  /\ Run(SrcNo, s, a + Len(st.done) + 1, next) =>
                  InStep(new, st.done, a, At(SrcNo, s, next, n + 1))
<1> DEFINE buffer == SubSeq(s, 1, n)
           Aligned == /\ Matched(st.current)
                      /\ Run(SrcNo, s, a + Len(st.done) + 1, next)
           Fine(i, x) ==
             /\ Kept(x, st.done)
             /\ ~x.threw => StateNumbered(x, a, total)
             /\ Aligned => InStep(x, st.done, a, At(SrcNo, s, next, i + 1))
           Good == {p \in (0..n) \X ParseState : Fine(p[1], p[2])}
<1>1. /\ Len(s) \in Nat /\ buffer \in Seq(ServerPart) /\ Len(buffer) = n
      /\ DOMAIN buffer = 1..n /\ \A i \in 1..n : buffer[i] = s[i]
  BY DropFirst
<1>2. /\ n \in Nat /\ 1 <= n /\ n <= Len(s)
      /\ st.done \in Seq(Response) /\ Len(st.done) \in Nat
  BY <1>1, LenProperties DEF ParseState
<1>3. <<0, st>> \in Good
  <2>1. Kept(st, st.done)
    BY <1>2 DEF Kept
  <2>2. ASSUME Aligned
        PROVE  InStep(st, st.done, a, At(SrcNo, s, next, 0 + 1))
    <3>1. At(SrcNo, s, next, 0 + 1) = a + Len(st.done) + 1
      BY <2>2 DEF Run
    <3>2. ~ \E j \in (Len(st.done) + 1)..Len(st.done) : TRUE
      BY <1>2
    <3> QED BY <2>2, <3>1, <3>2 DEF InStep
  <2>3. Fine(0, st)
    BY <2>1, <2>2
  <2> HIDE DEF Fine
  <2> QED BY <2>3, <1>2
<1>4. ASSUME NEW i \in 1..n, NEW x, <<i - 1, x>> \in Good
      PROVE  <<i, ParsePart(x, buffer[i])>> \in Good
  <2> DEFINE f == buffer[i]
             new == ParsePart(x, f)
  <2>1. x \in ParseState /\ Fine(i - 1, x)
    <3> HIDE DEF Fine
    <3> QED BY <1>4
  <2>2. f = s[i] /\ f \in ServerPart /\ i \in 1..Len(s) /\ (i - 1) + 1 = i
    BY <1>1, <1>2, ElementOfSeq
  <2>3. f.src \in Requests /\ SrcNo[f] = f.src
    BY <2>2 DEF ServerPart, SrcNo
  <2>4. /\ new \in ParseState /\ Kept(new, st.done)
        /\ ~new.threw => StateNumbered(new, a, total)
        /\ InStep(x, st.done, a, f.src) =>
             InStep(new, st.done, a, f.src + Inc(f))
    <3> HIDE DEF f, Aligned
    <3> QED BY <2>1, <2>2, <1>2, PartInStep
  <2> HIDE DEF new, f
  <2>5. ASSUME Aligned
        PROVE  InStep(new, st.done, a, At(SrcNo, s, next, i + 1))
    <3>1. At(SrcNo, s, next, (i - 1) + 1) = f.src
      BY <2>2, <2>3, <1>1 DEF At
    <3>2. At(SrcNo, s, next, i + 1) = f.src + Inc(f)
      BY <2>2, <2>3, <2>5 DEF Run
    <3> QED BY <2>1, <2>4, <2>5, <3>1, <3>2
  <2>6. Fine(i, new)
    BY <2>4, <2>5
  <2> HIDE DEF Fine
  <2>7. i \in 0..n
    BY <1>2
  <2> QED BY <2>4, <2>6, <2>7 DEF new, f
<1> DEFINE new == FoldLeft(ParsePart, st, buffer)
<1>5. <<n, new>> \in Good
  <2> HIDE DEF Good, buffer
  <2>1. <<n, ResponseFold!Fold(st, buffer)>> \in Good
    BY <1>1, <1>2, <1>3, <1>4, ResponseFold!FoldLeftInduction
  <2>2. ResponseFold!Fold(st, buffer) = new
    BY DEF ResponseFold!Fold, FoldLeft, MapThenFoldSet, ResponseFold!FoldLeft,
           ResponseFold!MapThenFoldSet, Max, ResponseFold!Max
  <2> QED BY <2>1, <2>2
<1> HIDE DEF new
<1>6. new \in ParseState /\ Fine(n, new)
  <2> HIDE DEF Fine
  <2> QED BY <1>5
<1> QED BY <1>6 DEF new
-----------------------------------------------------------------------------
(* What holds of every client.                                             *)

\* A connection begins with nothing read, held or written.
LEMMA InitIInv == Init => IInv
<1> SUFFICES ASSUME Init PROVE IInv
  OBVIOUS
<1> USE DEF Init, QuotaInit
<1>0. /\ Len(<< >>) = 0 /\ \A S : << >> \in Seq(S)
  BY EmptySeq
<1>1. TypeOK
  <2>1. sent \in 0..Len(Script) /\ granted \in 0..Limit /\ refused \in Nat
        /\ sentParts \in Nat /\ replied \in Nat /\ lacking \in 0..Len(Script)
        /\ faults \in Nat /\ uncompleted \in BOOLEAN /\ pipelined \in BOOLEAN
    <3>1. Len(Script) \in Nat /\ Limit \in Nat
      BY RequestNumbers, LimitAssumption
    <3>2. /\ sent = 0 /\ granted = 0 /\ refused = 0 /\ sentParts = 0
          /\ replied = 0 /\ lacking = 0 /\ faults = 0
      OBVIOUS
    <3>3. uncompleted \in BOOLEAN /\ pipelined \in BOOLEAN
      OBVIOUS
    <3>4. /\ sent \in 0..Len(Script) /\ granted \in 0..Limit /\ refused \in Nat
          /\ sentParts \in Nat /\ replied \in Nat
          /\ lacking \in 0..Len(Script) /\ faults \in Nat
      BY ONLY <3>1, <3>2
    <3> QED BY ONLY <3>3, <3>4
  <2>2. /\ toProxy \in Seq([req : Requests, key : BOOLEAN, count : BOOLEAN,
                            end : BOOLEAN])
        /\ fromServer \in Seq([src : Requests, ids : BOOLEAN, toEof : BOOLEAN,
                               end : BOOLEAN])
        /\ requests \in Seq(Requests) /\ toServer \in Seq(Requests)
        /\ pending \in Seq(Requests) /\ forwarded \in Seq(Requests)
        /\ responses \in Seq(Response) /\ toClient \in Seq(Response)
        /\ answered \in Seq(Response) /\ saved \in Seq(Response)
    BY <1>0
  <2>3. /\ pc \in {"poll"} /\ todo = {} /\ errs = {} /\ eofs = {}
        /\ partial \in BOOLEAN /\ closed = {} /\ reset = {} /\ blocked = {}
        /\ current \in {NoMessage}
    OBVIOUS
  <2> QED BY ONLY <2>1, <2>2, <2>3 DEF TypeOK
<1>2. Sending /\ Replying /\ Offered
  BY DEF Sending, Replying, Offered, InCallbacks
<1>3. InLine
  <2>1. /\ Finished = 0 /\ Busy = 0 /\ Passed = 0 /\ Parsed = 0
    BY <1>0 DEF Finished, Busy, Passed, Parsed
  <2>2. \A i \in 1..0 : FALSE
    OBVIOUS
  <2>3. Numbered
    BY <1>0, <2>2 DEF Numbered, ReqsFrom, From
  <2>4. Run(ReqNo, << >>, 0 + 1, 0 + 1)
    BY <1>0, <2>2 DEF Run, At
  <2>5. Coming
    BY <2>1, <2>4 DEF Coming
  <2> QED BY <2>3, <2>5 DEF InLine
<1>4. SavedAsSent
  <2>1. << >> \o << >> = << >>
    BY ConcatEmptySeq, EmptySeq
  <2> QED BY <1>0, <2>1 DEF SavedAsSent, IsPrefix
<1> QED BY <1>1, <1>2, <1>3, <1>4 DEF IInv

\* The queues are in line as long as they and what leads to them are the same.
lineVars == <<answered, toClient, responseVars, requests, lacking, toProxy,
              sent>>

\* ... as a step that touches none of them shows.
LEMMA LineStays ==
  ASSUME InLine, Alive' => Alive, UNCHANGED lineVars
  PROVE  InLine'
BY DEF InLine, Coming, lineVars, responseVars, Numbered, Parsed, Passed,
       Finished, Busy

\* The store is right as long as nothing is written or saved.
LEMMA StoreStays ==
  ASSUME SavedAsSent, TypeOK, pc = "dead" => pc' = "dead",
         UNCHANGED <<answered, toClient, saved>>
  PROVE  SavedAsSent'
<1> DEFINE l == Len(answered \o toClient)
           m == Len(saved)
<1>1. l \in Nat /\ m \in Nat
  BY ConcatProperties, LenProperties DEF TypeOK
<1>2. l - m <= (IF pc = "dead" THEN 1 ELSE 0)
  BY DEF SavedAsSent
<1> HIDE DEF l, m
<1>3. l - m <= (IF pc' = "dead" THEN 1 ELSE 0)
  BY <1>1, <1>2
<1>4. l' = l /\ m' = m
  BY DEF l, m
<1> QED BY <1>3, <1>4 DEF SavedAsSent, l, m

\* What the loop does between two callbacks.
LEMMA PollIInv ==
  ASSUME IInv, Poll
  PROVE  IInv'
<1> USE DEF IInv
<1>1. /\ UNCHANGED <<eofs, clientVars, requestVars, serverVars, responseVars,
                     toClient, peerVars, quotaVars, historyVars>>
      /\ pc = "poll" /\ pc' \in {"exited", "serverIn"}
      /\ errs' \in {errs, reset}
      /\ todo' \in {todo, Interested \cap Ready}
      /\ pc' = "exited" => Interested = {}
      /\ pc' = "serverIn" => todo' = Interested \cap Ready
  BY DEF Poll
<1>2. Interested \subseteq {"serverIn", "clientIn", "serverOut", "clientOut"}
  BY DEF Interested
<1>3. TypeOK'
  BY <1>1, <1>2 DEF TypeOK, clientVars, requestVars, serverVars, responseVars,
     peerVars, quotaVars, historyVars, recordVars
<1>4. Sending' /\ Replying'
  BY <1>1 DEF Sending, Replying, clientVars, serverVars
<1>5. "clientOut" \in Interested => responses # << >>
  BY DEF Interested
<1>6. Offered'
  BY <1>1, <1>5 DEF Offered, InCallbacks, responseVars
<1>7. InLine'
  BY <1>1, LineStays DEF Alive, lineVars, clientVars, requestVars
<1>8. SavedAsSent'
  BY <1>1, StoreStays DEF clientVars, historyVars, recordVars
<1> QED BY <1>3, <1>4, <1>6, <1>7, <1>8

\* The names of the callbacks.
Callbacks == {"serverIn", "clientIn", "serverOut", "clientOut"}

\* poller.cc:62: an action without an event, an error, and a callback
\* that throws leave the queues as they are.
LEMMA SkipIInv ==
  ASSUME IInv, NEW a \in Callbacks, PassOver(a) \/ Throws(a)
  PROVE  IInv'
<1> USE DEF IInv
<1>1. /\ UNCHANGED <<todo, errs, eofs, clientVars, requestVars, serverVars,
                     responseVars, toClient, peerVars, quotaVars, recordVars,
                     pipelined>>
      /\ pc = a /\ pc' \in {"exited", "dead", "killed", After(a)}
      /\ faults' \in Nat
  <2>1. faults \in Nat
    BY DEF TypeOK
  <2> QED BY <2>1 DEF PassOver, Throws, Runs, historyVars
<1>2. /\ After(a) \in {"clientIn", "serverOut", "clientOut", "poll"}
      /\ pc \in Callbacks
  BY <1>1 DEF After, Callbacks
<1>3. TypeOK'
  BY <1>1, <1>2 DEF TypeOK, clientVars, requestVars, serverVars, responseVars,
     peerVars, quotaVars, historyVars, recordVars
<1>4. Sending' /\ Replying'
  BY <1>1 DEF Sending, Replying, clientVars, serverVars
<1>5. Offered'
  BY <1>1, <1>2 DEF Offered, InCallbacks, responseVars, Callbacks
<1>6. InLine'
  BY <1>1, <1>2, LineStays DEF Alive, lineVars, clientVars, requestVars,
     Callbacks
<1>7. SavedAsSent'
  BY <1>1, <1>2, StoreStays DEF clientVars, historyVars, recordVars, Callbacks
<1> QED BY <1>3, <1>4, <1>5, <1>6, <1>7

\* The end of the client's stream.
LEMMA ClientEofIInv ==
  ASSUME IInv, ClientEof
  PROVE  IInv'
<1> USE DEF IInv
<1>1. /\ UNCHANGED <<todo, errs, clientVars, requestVars, serverVars,
                     responseVars, toClient, peerVars, quotaVars, historyVars>>
      /\ pc = "clientIn" /\ pc' \in {"dead", "serverOut"}
      /\ eofs' = eofs \cup {"client"}
  BY DEF ClientEof, Runs
<1>2. TypeOK'
  BY <1>1 DEF TypeOK, clientVars, requestVars, serverVars, responseVars,
     peerVars, quotaVars, historyVars, recordVars
<1>3. Sending' /\ Replying'
  BY <1>1 DEF Sending, Replying, clientVars, serverVars
<1>4. Offered'
  BY <1>1 DEF Offered, InCallbacks, responseVars
<1>5. InLine'
  BY <1>1, LineStays DEF Alive, lineVars, clientVars, requestVars
<1>6. SavedAsSent'
  BY <1>1, StoreStays DEF clientVars, historyVars, recordVars
<1> QED BY <1>2, <1>3, <1>4, <1>5, <1>6

\* The peers' ends of the connections, and the other connections.
LEMMA AroundIInv ==
  ASSUME IInv,
         \/ \E p \in {"client", "server"} : Close(p) \/ Reset(p)
         \/ RefuseRequests \/ OtherConnection
  PROVE  IInv'
<1> USE DEF IInv
<1>1. /\ UNCHANGED <<loopVars, clientVars, requestVars, serverVars,
                     responseVars, toClient, recordVars, pipelined>>
      /\ closed' \in SUBSET {"client", "server"}
      /\ reset' \in SUBSET {"client", "server"}
      /\ granted' \in 0..Limit /\ refused' \in Nat /\ faults' \in Nat
  <2>1. closed \in SUBSET {"client", "server"} /\ refused \in Nat
        /\ reset \in SUBSET {"client", "server"} /\ granted \in 0..Limit
        /\ faults \in Nat
    BY DEF TypeOK
  <2>2. ASSUME NEW p \in {"client", "server"}, Close(p) \/ Reset(p)
        PROVE  <1>1!:
    <3>1. CASE Close(p)
      <4>1. /\ closed' = closed \cup {p} /\ faults' \in {faults, faults + 1}
            /\ UNCHANGED <<loopVars, clientVars, requestVars, serverVars,
                           responseVars, toClient, reset, granted, refused,
                           recordVars, pipelined>>
        BY <3>1 DEF Close, quotaVars
      <4> QED BY ONLY <2>1, <4>1
    <3>2. CASE Reset(p)
      <4>1. /\ reset' = reset \cup {p} /\ faults' = faults + 1
            /\ UNCHANGED <<loopVars, clientVars, requestVars, serverVars,
                           responseVars, toClient, closed, granted, refused,
                           recordVars, pipelined>>
        BY <3>2 DEF Reset, quotaVars
      <4> QED BY ONLY <2>1, <4>1
    <3> QED BY <2>2, <3>1, <3>2
  <2>3. CASE RefuseRequests
    BY <2>1, <2>3 DEF RefuseRequests, quotaVars, historyVars
  <2>4. CASE OtherConnection
    BY <2>1, <2>4, LimitAssumption DEF OtherConnection, Grant, peerVars,
       historyVars
  <2> QED BY <2>2, <2>3, <2>4
<1>2. TypeOK'
  BY <1>1 DEF TypeOK, loopVars, clientVars, requestVars, serverVars,
     responseVars, historyVars, recordVars
<1>3. Sending' /\ Replying'
  BY <1>1 DEF Sending, Replying, clientVars, serverVars
<1>4. Offered'
  BY <1>1 DEF Offered, InCallbacks, responseVars, requestVars,
     loopVars
<1>5. InLine'
  BY <1>1, LineStays DEF Alive, lineVars, clientVars, requestVars, loopVars
<1>6. SavedAsSent'
  BY <1>1, StoreStays DEF clientVars, historyVars, recordVars, loopVars
<1> QED BY <1>2, <1>3, <1>4, <1>5, <1>6

\* What a request and a reply are made of.
LEMMA PartsOf ==
  ASSUME NEW r \in Requests
  PROVE  /\ Script[r] \in Seq(RequestPart) /\ Len(Script[r]) \in Nat \ {0}
         /\ \A k \in 1..Len(Script[r]) : Script[r][k] \in RequestPart
         /\ Replies[r] \in Seq(ReplyPart) /\ Len(Replies[r]) \in Nat \ {0}
         /\ \A k \in 1..Len(Replies[r]) : Replies[r][k] \in ReplyPart
<1>1. Script[r] \in Seq(RequestPart) \ {<< >>}
  BY ScriptAssumption, RequestNumbers, ElementOfSeq
<1>2. Replies[r] \in Seq(ReplyPart) \ {<< >>}
  BY ScriptAssumption, RequestNumbers, ElementOfSeq
<1>3. ASSUME NEW k \in 1..Len(Script[r]) PROVE Script[r][k] \in RequestPart
  BY <1>1, ElementOfSeq
<1>4. ASSUME NEW k \in 1..Len(Replies[r]) PROVE Replies[r][k] \in ReplyPart
  BY <1>2, ElementOfSeq
<1>5. Len(Script[r]) \in Nat \ {0} /\ Len(Replies[r]) \in Nat \ {0}
  BY <1>1, <1>2, EmptySeq
<1> QED BY <1>1, <1>2, <1>3, <1>4, <1>5

\* The server writes a part of its reply to the oldest request.
LEMMA ServerReplyIInv ==
  ASSUME IInv, ServerReply
  PROVE  IInv'
<1> USE DEF IInv
<1> DEFINE r == Head(toServer)
           k == replied + 1
           part == Replies[r][k]
           end == k = Len(Replies[r])
           f == [src |-> r, ids |-> part.ids, toEof |-> part.toEof,
                 end |-> end /\ ~part.toEof]
<1>1. /\ UNCHANGED <<loopVars, clientVars, requestVars, responseVars, toClient,
                     reset, quotaVars, historyVars>>
      /\ toServer # << >>
      /\ fromServer' = Append(fromServer, f)
      /\ replied' = IF end THEN 0 ELSE k
      /\ toServer' = IF end THEN Tail(toServer) ELSE toServer
      /\ closed' \in {closed, closed \cup {"server"}}
  BY DEF ServerReply
<1>2. /\ toServer \in Seq(Requests) /\ fromServer \in Seq(ServerPart)
      /\ replied \in Nat /\ closed \in SUBSET {"client", "server"}
  BY DEF TypeOK, ServerPart
<1>3. r \in Requests /\ Tail(toServer) \in Seq(Requests)
  BY <1>1, <1>2, HeadTailProperties
<1>4. /\ replied < Len(Replies[r]) /\ Len(Replies[r]) \in Nat
      /\ k \in 1..Len(Replies[r])
  <2>1. replied < Len(Replies[r])
    BY <1>1 DEF Replying
  <2> HIDE DEF r
  <2> QED BY <1>2, <1>3, <2>1, PartsOf
<1>5. f \in ServerPart
  <2>1. part \in ReplyPart
    BY <1>3, <1>4, PartsOf
  <2> HIDE DEF part, end, r
  <2> QED BY <1>3, <2>1 DEF ServerPart, ReplyPart
<1>6. /\ fromServer' \in Seq(ServerPart) /\ toServer' \in Seq(Requests)
      /\ replied' \in Nat /\ closed' \in SUBSET {"client", "server"}
  <2>1. Append(fromServer, f) \in Seq(ServerPart)
    <3> HIDE DEF f
    <3> QED BY <1>2, <1>5, AppendProperties
  <2> HIDE DEF f, end, r
  <2> QED BY <1>1, <1>2, <1>3, <2>1
<1>7. TypeOK'
  <2> HIDE DEF f, end, r
  <2> QED BY <1>1, <1>6 DEF TypeOK, ServerPart, loopVars, clientVars,
          requestVars, responseVars, quotaVars, historyVars, recordVars
<1>8. Replying'
  <2>1. CASE ~end
    <3>1. toServer' = toServer /\ replied' = k
      BY <1>1, <2>1
    <3>2. Len(Replies[r]) \in Nat /\ k < Len(Replies[r])
      BY <1>4, <2>1
    <3> QED BY <1>1, <3>1, <3>2 DEF Replying
  <2>2. CASE end
    <3>1. toServer' = Tail(toServer) /\ replied' = 0
      BY <1>1, <2>2
    <3>2. CASE Tail(toServer) = << >>
      BY <3>1, <3>2 DEF Replying
    <3>3. CASE Tail(toServer) # << >>
      <4>1. Head(Tail(toServer)) \in Requests
        BY <1>3, <3>3, HeadTailProperties
      <4>2. Len(Replies[Head(Tail(toServer))]) \in Nat \ {0}
        BY <4>1, PartsOf
      <4> QED BY <3>1, <3>3, <4>2 DEF Replying
    <3> QED BY <3>2, <3>3
  <2> QED BY <2>1, <2>2
<1>9. Sending'
  BY <1>1 DEF Sending, clientVars
<1>10. Offered'
  BY <1>1 DEF Offered, InCallbacks, responseVars, requestVars,
     loopVars
<1>11. InLine'
  BY <1>1, LineStays DEF Alive, lineVars, clientVars, requestVars, loopVars
<1>12. SavedAsSent'
  BY <1>1, StoreStays DEF clientVars, historyVars, recordVars, loopVars
<1> QED BY <1>7, <1>8, <1>9, <1>10, <1>11, <1>12

\* The part the client writes next.
LEMMA ClientSends ==
  ASSUME TypeOK, Sending, ClientSend
  PROVE  \E f \in ClientPart :
           /\ f.req = sent + 1 /\ f.end \in BOOLEAN
           /\ f.key = Script[sent + 1][sentParts + 1].key
           /\ f.end <=> (sentParts + 1 = Len(Script[sent + 1]))
           /\ sent + 1 \in Requests /\ sentParts + 1 \in 1..Len(Script[sent + 1])
           /\ toProxy' = Append(toProxy, f)
           /\ sentParts' = IF f.end THEN 0 ELSE sentParts + 1
           /\ sent' = sent + Inc(f)
<1> DEFINE r == sent + 1
           k == sentParts + 1
           f == [req |-> r, key |-> Script[r][k].key,
                 count |-> Script[r][k].count, end |-> k = Len(Script[r])]
<1>1. /\ sent < Len(Script)
      /\ toProxy' = Append(toProxy, f)
      /\ sentParts' = IF f.end THEN 0 ELSE k
      /\ sent' = IF f.end THEN r ELSE sent
  BY DEF ClientSend
<1>2. r \in Requests /\ sent \in Nat /\ sentParts \in Nat
  BY <1>1, RequestNumbers DEF TypeOK
<1>3. k \in 1..Len(Script[r])
  <2>1. Len(Script[r]) \in Nat \ {0}
    BY <1>2, PartsOf
  <2>2. CASE sentParts = 0
    BY <2>1, <2>2
  <2>3. CASE sentParts > 0
    BY <1>2, <2>1, <2>3 DEF Sending
  <2> QED BY <1>2, <2>2, <2>3
<1>4. f \in ClientPart
  <2>1. Script[r][k] \in RequestPart
    BY <1>2, <1>3, PartsOf
  <2> HIDE DEF r, k
  <2> QED BY <1>2, <2>1 DEF ClientPart, RequestPart
<1>5. sent' = sent + Inc(f)
  <2> HIDE DEF f
  <2> QED BY <1>1, <1>2 DEF Inc
<1>6. /\ f.req = r /\ f.key = Script[r][k].key /\ f.end \in BOOLEAN
      /\ f.end <=> (k = Len(Script[r]))
  OBVIOUS
<1> HIDE DEF f
<1> QED BY <1>1, <1>2, <1>3, <1>4, <1>5, <1>6

\* The client writes a part of a request: it goes on with the run.
LEMMA ClientSendIInv ==
  ASSUME IInv, ClientSend
  PROVE  IInv'
<1> USE DEF IInv
<1>1. PICK f \in ClientPart :
        /\ f.req = sent + 1 /\ f.end \in BOOLEAN
        /\ f.key = Script[sent + 1][sentParts + 1].key
        /\ f.end <=> (sentParts + 1 = Len(Script[sent + 1]))
        /\ sent + 1 \in Requests /\ sentParts + 1 \in 1..Len(Script[sent + 1])
        /\ toProxy' = Append(toProxy, f)
        /\ sentParts' = IF f.end THEN 0 ELSE sentParts + 1
        /\ sent' = sent + Inc(f)
  BY ClientSends
<1>2. UNCHANGED <<loopVars, answered, requestVars, serverVars, responseVars,
                  toClient, peerVars, quotaVars, recordVars, faults>>
  BY DEF ClientSend
<1>3. /\ sent \in Nat /\ sentParts \in Nat /\ toProxy \in Seq(ClientPart)
      /\ f.req = sent + 1 /\ f.end \in BOOLEAN
      /\ f.end <=> (sentParts + 1 = Len(Script[sent + 1]))
  BY <1>1, RequestNumbers DEF TypeOK, ClientPart
<1>4. Append(toProxy, f) \in Seq(ClientPart)
  BY <1>3, AppendProperties
<1>5. sent' \in 0..Len(Script) /\ sentParts' \in Nat
  BY <1>1, <1>3, RequestNumbers DEF Inc
<1>6. TypeOK'
  <2>1. toProxy' \in Seq([req : Requests, key : BOOLEAN, count : BOOLEAN,
                          end : BOOLEAN])
    BY <1>1, <1>4 DEF ClientPart
  <2>2. pipelined' \in BOOLEAN
    BY DEF ClientSend, TypeOK
  <2> QED BY <1>2, <1>5, <2>1, <2>2 DEF TypeOK, loopVars, requestVars,
          serverVars, responseVars, peerVars, quotaVars, recordVars
<1>7. Sending'
  <2>1. CASE f.end
    BY <1>1, <2>1 DEF Sending
  <2>2. CASE ~f.end
    <3>1. sent' = sent /\ sentParts' = sentParts + 1
      BY <1>1, <1>3, <2>2 DEF Inc
    <3>2. sent < Len(Script) /\ sentParts + 1 < Len(Script[sent + 1])
      <4>1. Len(Script[sent + 1]) \in Nat
        BY <1>1, PartsOf
      <4>2. sentParts + 1 # Len(Script[sent + 1])
        BY <1>3, <2>2
      <4>3. sent < Len(Script)
        BY <1>1, <1>3, RequestNumbers
      <4> QED BY <1>1, <1>3, <4>1, <4>2, <4>3
    <3> QED BY <3>1, <3>2 DEF Sending
  <2> QED BY <2>1, <2>2
<1>8. Replying' /\ Offered'
  BY <1>2 DEF Replying, Offered, InCallbacks, responseVars,
     requestVars, serverVars, loopVars
<1>9. InLine'
  <2> SUFFICES ASSUME Alive'
               PROVE  Numbered' /\ Coming'
    BY DEF InLine
  <2>1. Alive /\ Parsed' = Parsed
    BY <1>2 DEF Alive, Parsed, Passed, Finished, Busy, loopVars, requestVars,
       responseVars
  <2>2. PICK first \in Int :
          /\ Parsed + 1 <= first /\ (lacking = 0 => first = Parsed + 1)
          /\ Run(ReqNo, toProxy, first, sent + 1)
    BY <2>1 DEF InLine, Coming
  <2>3. Numbered'
    BY <1>2, <2>1 DEF InLine, Numbered, Passed, Finished, Busy, requestVars,
       responseVars
  <2>4. ReqNo[f] = sent + 1
    BY <1>3 DEF ReqNo
  <2>5. Run(ReqNo, Append(toProxy, f), first, ReqNo[f] + Inc(f))
    BY <1>3, <2>2, <2>4, RunAppend, RequestNumbers
  <2>6. ReqNo[f] + Inc(f) = sent' + 1
    BY <1>1, <1>3, <2>4 DEF Inc
  <2>7. Coming'
    BY <1>1, <1>2, <2>1, <2>2, <2>5, <2>6 DEF Coming, requestVars
  <2> QED BY <2>3, <2>7
<1>10. SavedAsSent'
  BY <1>2, StoreStays DEF recordVars, loopVars
<1> QED BY <1>6, <1>7, <1>8, <1>9, <1>10

\* The numbers the queues are counted with.
LEMMA Lengths ==
  ASSUME TypeOK
  PROVE  /\ Len(answered) \in Nat /\ Len(toClient) \in Nat
         /\ Len(responses) \in Nat /\ Len(pending) \in Nat
         /\ Len(requests) \in Nat /\ Busy \in {0, 1}
         /\ Finished \in Nat /\ Passed \in Nat /\ Parsed \in Nat
<1>1. /\ Len(answered) \in Nat /\ Len(toClient) \in Nat
      /\ Len(responses) \in Nat /\ Len(pending) \in Nat
      /\ Len(requests) \in Nat /\ Busy \in {0, 1}
  BY LenProperties DEF TypeOK, Busy
<1> QED BY <1>1 DEF Finished, Passed, Parsed

\* The response parser's own queues, as numbered as the others.
LEMMA StateOf ==
  ASSUME TypeOK, Numbered
  PROVE  /\ ResponseState \in ParseState /\ ~ResponseState.threw
         /\ ResponseState.pending = pending /\ ResponseState.current = current
         /\ ResponseState.done = responses
         /\ Len(answered) + Len(toClient) \in Nat /\ Passed \in Int
         /\ StateNumbered(ResponseState, Len(answered) + Len(toClient), Passed)
<1>1. /\ ResponseState \in ParseState /\ ~ResponseState.threw
      /\ ResponseState.pending = pending /\ ResponseState.current = current
      /\ ResponseState.done = responses
  BY DEF TypeOK, ResponseState, ParseState, InReply
<1>2. Started(ResponseState) = Busy
  BY <1>1 DEF Started, Busy
<1>3. StateNumbered(ResponseState, Len(answered) + Len(toClient), Passed)
  BY <1>1, <1>2, Lengths DEF StateNumbered, Numbered, Finished, Passed
<1> QED BY <1>1, <1>3, Lengths

\* ... and back.
LEMMA NumberedNext ==
  ASSUME NEW st \in ParseState, NEW total \in Int,
         pending' = st.pending, current' = st.current, responses' = st.done,
         ReqsFrom(answered', 0), ReqsFrom(toClient', Len(answered')),
         StateNumbered(st, Len(answered') + Len(toClient'), total),
         From(requests', total)
  PROVE  Numbered' /\ Passed' = total
<1>1. Started(st) = Busy'
  BY DEF Started, Busy
<1>2. Passed' = total
  BY <1>1 DEF StateNumbered, Passed, Finished
<1> QED BY <1>1, <1>2 DEF StateNumbered, Numbered, Finished

\* The first of one queue becomes the last of the other: together they hold
\* what they held.
LEMMA HandOver ==
  ASSUME NEW S, NEW s \in Seq(S), NEW t \in Seq(S), t # << >>
  PROVE  Append(s, Head(t)) \o Tail(t) = s \o t
<1> DEFINE u == Append(s, Head(t))
<1>1. /\ Len(t) \in Nat \ {0} /\ Head(t) \in S /\ Head(t) = t[1]
      /\ Tail(t) \in Seq(S) /\ Len(Tail(t)) = Len(t) - 1
      /\ \A i \in 1..Len(Tail(t)) : Tail(t)[i] = t[i + 1]
  BY HeadTailProperties, LenProperties, EmptySeq
<1>2. /\ Len(s) \in Nat /\ u \in Seq(S) /\ Len(u) = Len(s) + 1
      /\ \A i \in 1..Len(s) : u[i] = s[i]
      /\ u[Len(s) + 1] = Head(t)
  BY <1>1, AppendProperties, LenProperties
<1> HIDE DEF u
<1>3. /\ u \o Tail(t) \in Seq(S) /\ Len(u \o Tail(t)) = Len(u) + Len(Tail(t))
      /\ \A i \in 1..(Len(u) + Len(Tail(t))) : (u \o Tail(t))[i] =
           IF i <= Len(u) THEN u[i] ELSE Tail(t)[i - Len(u)]
  BY <1>1, <1>2, ConcatProperties
<1>4. /\ s \o t \in Seq(S) /\ Len(s \o t) = Len(s) + Len(t)
      /\ \A i \in 1..(Len(s) + Len(t)) : (s \o t)[i] =
           IF i <= Len(s) THEN s[i] ELSE t[i - Len(s)]
  BY ConcatProperties
<1>5. Len(u \o Tail(t)) = Len(s \o t) /\ Len(u) + Len(Tail(t)) = Len(s) + Len(t)
  BY <1>1, <1>2, <1>3, <1>4
<1>6. ASSUME NEW i \in 1..(Len(s) + Len(t))
      PROVE  (u \o Tail(t))[i] = (s \o t)[i]
  <2>1. CASE i <= Len(s)
    <3>1. i \in 1..Len(s) /\ i <= Len(u)
      BY <1>1, <1>2, <2>1
    <3> QED BY <1>2, <1>3, <1>4, <1>5, <2>1, <3>1
  <2>2. CASE i = Len(s) + 1
    <3>1. i <= Len(u) /\ ~(i <= Len(s)) /\ i - Len(s) = 1
      BY <1>1, <1>2, <2>2
    <3> QED BY <1>1, <1>2, <1>3, <1>4, <1>5, <2>2, <3>1
  <2>3. CASE i > Len(s) + 1
    <3>1. /\ ~(i <= Len(u)) /\ ~(i <= Len(s))
          /\ i - Len(u) \in 1..Len(Tail(t)) /\ (i - Len(u)) + 1 = i - Len(s)
      BY <1>1, <1>2, <2>3
    <3>2. Tail(t)[i - Len(u)] = t[i - Len(s)]
      BY <1>1, <3>1
    <3> QED BY <1>3, <1>4, <1>5, <3>1, <3>2
  <2> QED BY <1>1, <1>2, <2>1, <2>2, <2>3
<1>7. u \o Tail(t) = s \o t
  BY <1>3, <1>4, <1>5, <1>6, SeqEqual
<1> QED BY <1>7 DEF u

\* What is written to the second of two queues is at the end of both.
LEMMA ConcatAppend ==
  ASSUME NEW S, NEW s \in Seq(S), NEW t \in Seq(S), NEW x \in S
  PROVE  s \o Append(t, x) = Append(s \o t, x)
<1> DEFINE u == Append(t, x)
           w == s \o t
           z == Append(w, x)
<1>1. /\ Len(t) \in Nat /\ Len(s) \in Nat /\ u \in Seq(S)
      /\ Len(u) = Len(t) + 1
      /\ \A i \in 1..Len(t) : u[i] = t[i]
      /\ u[Len(t) + 1] = x
  BY AppendProperties, LenProperties
<1>2. /\ w \in Seq(S) /\ Len(w) = Len(s) + Len(t)
      /\ \A i \in 1..(Len(s) + Len(t)) : w[i] =
           IF i <= Len(s) THEN s[i] ELSE t[i - Len(s)]
  BY ConcatProperties
<1>3. /\ z \in Seq(S) /\ Len(z) = Len(w) + 1
      /\ \A i \in 1..Len(w) : z[i] = w[i]
      /\ z[Len(w) + 1] = x
  BY <1>2, AppendProperties
<1> HIDE DEF u, w, z
<1>4. /\ s \o u \in Seq(S) /\ Len(s \o u) = Len(s) + Len(u)
      /\ \A i \in 1..(Len(s) + Len(u)) : (s \o u)[i] =
           IF i <= Len(s) THEN s[i] ELSE u[i - Len(s)]
  BY <1>1, ConcatProperties
<1>5. ASSUME NEW i \in 1..(Len(s) + Len(u)) PROVE (s \o u)[i] = z[i]
  <2>1. CASE i <= Len(s)
    <3>1. i \in 1..Len(w) /\ i \in 1..(Len(s) + Len(t))
      BY <1>1, <1>2, <2>1
    <3> QED BY <1>2, <1>3, <1>4, <2>1, <3>1
  <2>2. CASE i > Len(s) /\ i <= Len(s) + Len(t)
    <3>1. /\ i \in 1..Len(w) /\ i \in 1..(Len(s) + Len(t)) /\ ~(i <= Len(s))
          /\ i - Len(s) \in 1..Len(t)
      BY <1>1, <1>2, <2>2
    <3> QED BY <1>1, <1>2, <1>3, <1>4, <3>1
  <2>3. CASE i = Len(s) + Len(t) + 1
    <3>1. ~(i <= Len(s)) /\ i - Len(s) = Len(t) + 1 /\ i = Len(w) + 1
      BY <1>1, <1>2, <2>3
    <3> QED BY <1>1, <1>3, <1>4, <3>1
  <2>4. i \in 1..(Len(s) + (Len(t) + 1))
    BY <1>1
  <2>5. i <= Len(s) \/ (i > Len(s) /\ i <= Len(s) + Len(t))
        \/ i = Len(s) + Len(t) + 1
    BY <1>1, <2>4
  <2> QED BY <2>1, <2>2, <2>3, <2>5
<1>6. Len(s \o u) = Len(z)
  BY <1>1, <1>2, <1>3, <1>4
<1>7. s \o u = z
  BY <1>3, <1>4, <1>5, <1>6, SeqEqual
<1> QED BY <1>7 DEF u, w, z

\* A prefix that misses nothing is the whole.
LEMMA PrefixWhole ==
  ASSUME NEW S, NEW s \in Seq(S), NEW t \in Seq(S), IsPrefix(s, t),
         Len(t) - Len(s) <= 0
  PROVE  s = t
<1>1. Len(s) \in Nat /\ Len(t) \in Nat
  BY LenProperties
<1>2. SubSeq(s, 1, Len(s)) = s /\ SubSeq(t, 1, Len(t)) = t
  BY SubSeqFull
<1> QED BY <1>1, <1>2 DEF IsPrefix

\* A sequence is a prefix of itself and of itself with one more.
LEMMA PrefixOfMore ==
  ASSUME NEW S, NEW s \in Seq(S), NEW x \in S
  PROVE  IsPrefix(s, s) /\ IsPrefix(s, Append(s, x))
<1> DEFINE u == Append(s, x)
           v == SubSeq(u, 1, Len(s))
<1>0. Len(s) \in Nat /\ SubSeq(s, 1, Len(s)) = s
  BY LenProperties, SubSeqFull
<1>1. /\ u \in Seq(S) /\ Len(u) = Len(s) + 1
      /\ \A i \in 1..Len(s) : u[i] = s[i] /\ s[i] \in S
  BY AppendProperties, ElementOfSeq
<1> HIDE DEF u
<1>2. /\ v \in Seq(S)
      /\ Len(v) = IF 1 <= Len(s) THEN Len(s) - 1 + 1 ELSE 0
      /\ \A i \in 1..(Len(s) - 1 + 1) : v[i] = u[1 + i - 1]
  <2>1. \A i \in 1..Len(s) : u[i] \in S
    BY <1>1
  <2> QED BY <1>0, <2>1, SubSeqProperties
<1> HIDE DEF v
<1>3. Len(v) = Len(s)
  BY <1>0, <1>2
<1>4. ASSUME NEW i \in 1..Len(v) PROVE v[i] = s[i]
  <2>1. i \in 1..(Len(s) - 1 + 1) /\ 1 + i - 1 = i /\ i \in 1..Len(s)
    BY <1>0, <1>3
  <2> QED BY <1>1, <1>2, <2>1
<1>5. v = s
  BY <1>2, <1>3, <1>4, SeqEqual
<1>6. IsPrefix(s, s)
  BY <1>0 DEF IsPrefix
<1>7. IsPrefix(s, u)
  BY <1>0, <1>1, <1>5 DEF IsPrefix, v
<1> QED BY <1>6, <1>7 DEF u

\* A response moves from the client's socket to the client.
LEMMA ClientReceiveIInv ==
  ASSUME IInv, ClientReceive
  PROVE  IInv'
<1> USE DEF IInv
<1> DEFINE h == Head(toClient)
<1>1. /\ UNCHANGED <<loopVars, toProxy, sentParts, sent, requestVars, serverVars,
                     responseVars, peerVars, quotaVars, historyVars>>
      /\ toClient # << >>
      /\ answered' = Append(answered, h) /\ toClient' = Tail(toClient)
  BY DEF ClientReceive
<1>2. answered \in Seq(Response) /\ toClient \in Seq(Response)
  BY DEF TypeOK
<1>3. h \in Response /\ Tail(toClient) \in Seq(Response)
      /\ Len(Tail(toClient)) = Len(toClient) - 1
  BY <1>1, <1>2, HeadTailProperties
<1> HIDE DEF h
<1>4. /\ Append(answered, h) \in Seq(Response)
      /\ Len(Append(answered, h)) = Len(answered) + 1
  BY <1>2, <1>3, AppendProperties
<1>5. TypeOK'
  BY <1>1, <1>3, <1>4 DEF TypeOK, loopVars, requestVars, serverVars,
     responseVars, peerVars, quotaVars, historyVars, recordVars
<1>6. Sending' /\ Replying' /\ Offered'
  BY <1>1 DEF Sending, Replying, Offered, InCallbacks,
     responseVars, requestVars, serverVars, loopVars
<1>7. InLine'
  <2> SUFFICES ASSUME Alive'
               PROVE  Numbered' /\ Coming'
    BY DEF InLine
  <2>1. Alive
    BY <1>1 DEF Alive, loopVars
  <2>2. Numbered /\ Coming
    BY <2>1 DEF InLine
  <2>3. /\ h.req = Len(answered) + 1
        /\ ReqsFrom(toClient', Len(answered'))
    <3>1. ReqsFrom(toClient, Len(answered)) /\ Len(answered) \in Int
      BY <2>2, Lengths DEF Numbered
    <3> QED BY <1>1, <1>2, <1>4, <3>1, ReqsTail DEF h
  <2>4. ReqsFrom(answered', 0)
    <3>1. ReqsFrom(answered, 0) /\ h.req = 0 + Len(answered) + 1
      BY <2>2, <2>3, Lengths DEF Numbered
    <3> QED BY <1>1, <1>2, <1>3, <3>1, ReqsAppend
  <2>5. Len(answered') + Len(toClient') = Len(answered) + Len(toClient)
    BY <1>1, <1>3, <1>4, Lengths
  <2>6. StateNumbered(ResponseState, Len(answered') + Len(toClient'), Passed)
        /\ ResponseState \in ParseState
    BY <2>2, <2>5, StateOf
  <2>7. /\ pending' = ResponseState.pending /\ current' = ResponseState.current
        /\ responses' = ResponseState.done /\ From(requests', Passed)
    BY <1>1, <2>2, StateOf DEF responseVars, requestVars, Numbered
  <2>8. Numbered' /\ Passed' = Passed
    BY <2>3, <2>4, <2>6, <2>7, NumberedNext, Lengths
  <2>9. Coming'
    BY <1>1, <2>2, <2>8 DEF Coming, Parsed, requestVars
  <2> QED BY <2>8, <2>9
<1>8. SavedAsSent'
  <2>1. (answered \o toClient)' = answered \o toClient
    BY <1>1, <1>2, HandOver DEF h
  <2> QED BY <1>1, <2>1 DEF SavedAsSent, loopVars, historyVars, recordVars
<1> QED BY <1>5, <1>6, <1>7, <1>8

\* The end of the server's stream may complete the reply in progress.
LEMMA ServerEofIInv ==
  ASSUME IInv, ServerEof
  PROVE  IInv'
<1> USE DEF IInv
<1> DEFINE m == [req |-> current.req, src |-> current.src]
<1>1. /\ UNCHANGED <<todo, errs, clientVars, requestVars, serverVars, toClient,
                     peerVars, quotaVars, historyVars, pending>>
      /\ pc = "serverIn" /\ pc' \in {"clientIn", "dead"}
      /\ eofs' = eofs \cup {"server"}
      /\ \/ current' = current /\ responses' = responses
         \/ /\ current # NoMessage /\ current' = NoMessage
            /\ responses' = Append(responses, m)
  BY DEF ServerEof, Runs, responseVars
<1>2. current \in InReply /\ responses \in Seq(Response)
  BY DEF TypeOK, InReply
<1>3. current # NoMessage => m \in Response
  BY <1>2 DEF InReply, Response
<1> HIDE DEF m
<1>4. current # NoMessage => /\ Append(responses, m) \in Seq(Response)
                             /\ Len(Append(responses, m)) = Len(responses) + 1
  BY <1>2, <1>3, AppendProperties
<1>5. current' \in InReply /\ responses' \in Seq(Response)
  BY <1>1, <1>2, <1>4 DEF InReply
<1>6. TypeOK'
  BY <1>1, <1>5 DEF TypeOK, InReply, clientVars, requestVars, serverVars,
     peerVars, quotaVars, historyVars, recordVars
<1>7. Sending' /\ Replying'
  BY <1>1 DEF Sending, Replying, clientVars, serverVars
<1>8. Offered'
  <2>1. responses # << >> => responses' # << >>
    BY <1>1, <1>2, <1>4, EmptySeq, LenProperties
  <2> QED BY <1>1, <2>1 DEF Offered, InCallbacks
<1>9. InLine'
  <2>1. CASE current' = current /\ responses' = responses
    BY <1>1, <2>1, LineStays DEF Alive, lineVars, responseVars, clientVars,
       requestVars
  <2>2. CASE /\ current # NoMessage /\ current' = NoMessage
             /\ responses' = Append(responses, m)
    <3>1. Numbered /\ Coming
      BY <1>1 DEF Alive, InLine
    <3> DEFINE a == Len(answered) + Len(toClient)
               st == [pending |-> pending, current |-> NoMessage,
                      done |-> Append(responses, m), threw |-> FALSE]
    <3>2. /\ a \in Nat /\ ReqsFrom(responses, a)
          /\ current.req = a + Len(responses) + 1
          /\ From(pending, a + Len(responses) + 1)
          /\ Passed = a + Len(responses) + 1 + Len(pending)
      BY <2>2, <3>1, Lengths DEF Numbered, Finished, Busy, Passed
    <3>3. m.req = a + Len(responses) + 1
      BY <3>2 DEF m
    <3>4. ReqsFrom(Append(responses, m), a)
      <4> HIDE DEF a
      <4> QED BY <1>2, <1>3, <2>2, <3>2, <3>3, ReqsAppend
    <3>5. st \in ParseState
      BY <1>4, <2>2 DEF TypeOK, ParseState, InReply
    <3>6. /\ st.pending = pending /\ st.current = NoMessage
          /\ st.done = Append(responses, m)
      OBVIOUS
    <3> HIDE DEF a, st
    <3>7. StateNumbered(st, a, Passed)
      <4>1. Started(st) = 0
        BY <3>6 DEF Started
      <4>2. /\ a + Len(st.done) + Started(st) = a + Len(responses) + 1
        BY <1>4, <2>2, <3>2, <3>6, <4>1, Lengths
      <4> QED BY <3>2, <3>4, <3>6, <4>2 DEF StateNumbered
    <3>8. /\ ReqsFrom(answered', 0) /\ ReqsFrom(toClient', Len(answered'))
          /\ Len(answered') + Len(toClient') = a /\ From(requests', Passed)
      BY <1>1, <3>1 DEF Numbered, clientVars, requestVars, a
    <3>9. Numbered' /\ Passed' = Passed
      BY <1>1, <2>2, <3>5, <3>6, <3>7, <3>8, NumberedNext, Lengths
    <3> QED BY <1>1, <3>1, <3>9
         DEF InLine, Coming, Parsed, requestVars, clientVars
  <2> QED BY <1>1, <2>1, <2>2
<1>10. SavedAsSent'
  BY <1>1, StoreStays DEF clientVars, historyVars, recordVars
<1> QED BY <1>6, <1>7, <1>8, <1>9, <1>10

\* response_parser.parse hands requests on from pending to responses.
LEMMA ServerReadIInv ==
  ASSUME IInv, ServerRead
  PROVE  IInv'
<1> USE DEF IInv
<1>1. PICK n \in 1..Len(fromServer) :
        /\ fromServer' = SubSeq(fromServer, n + 1, Len(fromServer))
        /\ \/ /\ pc' = "dead" /\ UNCHANGED responseVars
              /\ faults' = faults + 1
           \/ LET st == ParseResponses(SubSeq(fromServer, 1, n))
              IN  /\ pc' = IF st.threw THEN "dead" ELSE "clientIn"
                  /\ SetResponses(st) /\ UNCHANGED faults
  BY DEF ServerRead
<1> DEFINE st == ParseResponses(SubSeq(fromServer, 1, n))
<1>2. /\ UNCHANGED <<todo, errs, eofs, clientVars, requestVars, toServer,
                     replied, toClient, peerVars, quotaVars, recordVars,
                     pipelined>>
      /\ pc = "serverIn" /\ pc' \in {"dead", "clientIn"}
      /\ faults' \in Nat
  <2>1. faults \in Nat
    BY DEF TypeOK
  <2> QED BY <1>1, <2>1 DEF ServerRead, Runs
<1>3. fromServer \in Seq(ServerPart) /\ fromServer' \in Seq(ServerPart)
  <2>1. fromServer \in Seq(ServerPart)
    BY DEF TypeOK, ServerPart
  <2> QED BY <1>1, <2>1, DropFirst
<1>4. Numbered /\ Coming
  BY <1>2 DEF Alive, InLine
<1> DEFINE a == Len(answered) + Len(toClient)
<1>5. /\ st \in ParseState /\ Kept(st, responses)
      /\ ~st.threw => StateNumbered(st, a, Passed)
  <2>1. /\ ResponseState \in ParseState /\ ~ResponseState.threw
        /\ ResponseState.done = responses
        /\ a \in Nat /\ Passed \in Int
        /\ StateNumbered(ResponseState, a, Passed)
    BY <1>4, StateOf
  <2> HIDE DEF a
  <2>2. 0 \in Int
    OBVIOUS
  <2> QED BY <1>3, <2>1, <2>2, ResponsesParsed DEF ParseResponses
<1> HIDE DEF st, a
<1>6. /\ pending' \in Seq(Requests) /\ current' \in InReply
      /\ responses' \in Seq(Response) /\ Len(responses) <= Len(responses')
  <2>1. CASE UNCHANGED responseVars
    BY <2>1, Lengths DEF responseVars, TypeOK, InReply
  <2>2. CASE SetResponses(st)
    BY <1>5, <2>2 DEF SetResponses, ParseState, Kept
  <2> QED BY <1>1, <2>1, <2>2 DEF st
<1>7. TypeOK'
  BY <1>2, <1>3, <1>6 DEF TypeOK, InReply, ServerPart, clientVars, requestVars,
     peerVars, quotaVars, historyVars, recordVars
<1>8. Sending' /\ Replying'
  BY <1>2 DEF Sending, Replying, clientVars
<1>9. Offered'
  <2>1. responses # << >> => responses' # << >>
    <3>1. responses \in Seq(Response)
      BY DEF TypeOK
    <3>2. responses # << >> => Len(responses) \in Nat \ {0}
      BY <3>1, EmptySeq
    <3>3. Len(<< >>) = 0
      BY EmptySeq
    <3> QED BY <1>6, <3>2, <3>3
  <2> QED BY <1>2, <2>1 DEF Offered, InCallbacks
<1>10. InLine'
  <2> SUFFICES ASSUME Alive'
               PROVE  Numbered' /\ Coming'
    BY DEF InLine
  <2>1. SetResponses(st) /\ ~st.threw
    BY <1>1 DEF Alive, st
  <2>2. /\ pending' = st.pending /\ current' = st.current
        /\ responses' = st.done
    BY <2>1 DEF SetResponses
  <2>3. /\ ReqsFrom(answered', 0) /\ ReqsFrom(toClient', Len(answered'))
        /\ Len(answered') + Len(toClient') = a /\ From(requests', Passed)
    BY <1>2, <1>4 DEF Numbered, clientVars, requestVars, a
  <2>4. Numbered' /\ Passed' = Passed
    BY <1>5, <2>1, <2>2, <2>3, NumberedNext, Lengths
  <2> QED BY <1>2, <1>4, <2>4 DEF Coming, Parsed, requestVars, clientVars
<1>11. SavedAsSent'
  BY <1>2, StoreStays DEF clientVars, historyVars, recordVars
<1> QED BY <1>7, <1>8, <1>9, <1>10, <1>11

\* The oldest request moves from request_parser to response_parser.
LEMMA ServerWriteIInv ==
  ASSUME IInv, ServerWrite
  PROVE  IInv'
<1> USE DEF IInv
<1> DEFINE h == Head(requests)
<1>1. /\ UNCHANGED <<todo, errs, eofs, clientVars, partial, lacking, replied,
                     fromServer, current, responses, toClient, peerVars,
                     quotaVars, blocked, saved, uncompleted, pipelined, faults>>
      /\ pc = "serverOut"
  BY DEF ServerWrite, Runs
<1>2. /\ requests \in Seq(Requests) /\ pending \in Seq(Requests)
      /\ toServer \in Seq(Requests) /\ forwarded \in Seq(Requests)
  BY DEF TypeOK
<1>3. SavedAsSent'
  BY <1>1, StoreStays DEF clientVars
<1>4. Sending'
  BY <1>1 DEF Sending, clientVars
<1>5. CASE requests = << >>
  <2>1. pc' = "crashed" /\ UNCHANGED <<requests, toServer, pending, forwarded>>
    BY <1>5 DEF ServerWrite
  <2>2. TypeOK'
    BY <1>1, <2>1 DEF TypeOK, clientVars, peerVars, quotaVars
  <2>3. Replying' /\ Offered'  /\ InLine'
    BY <1>1, <2>1 DEF Replying, Offered, InCallbacks, InLine, Alive
  <2> QED BY <1>3, <1>4, <2>2, <2>3
<1>6. CASE requests # << >>
  <2>1. /\ toServer' = Append(toServer, h) /\ pending' = Append(pending, h)
        /\ requests' = Tail(requests) /\ forwarded' = Append(forwarded, h)
        /\ pc' = "clientOut"
    BY <1>6 DEF ServerWrite
  <2>2. /\ h \in Requests /\ Tail(requests) \in Seq(Requests)
        /\ Len(Tail(requests)) = Len(requests) - 1
    BY <1>2, <1>6, HeadTailProperties
  <2>3. Numbered /\ Coming
    BY <1>1 DEF InLine, Alive
  <2>4. h = Passed + 1 /\ From(Tail(requests), Passed + 1)
    <3>1. From(requests, Passed) /\ Passed \in Int
      BY <2>3, Lengths DEF Numbered
    <3> QED BY <1>2, <1>6, <3>1, FromTail
  <2> HIDE DEF h
  <2>5. /\ Append(toServer, h) \in Seq(Requests)
        /\ Append(pending, h) \in Seq(Requests)
        /\ Append(forwarded, h) \in Seq(Requests)
        /\ Len(Append(pending, h)) = Len(pending) + 1
        /\ Len(Append(toServer, h)) = Len(toServer) + 1
    BY <1>2, <2>2, AppendProperties
  <2>6. TypeOK'
    BY <1>1, <2>1, <2>2, <2>5 DEF TypeOK, clientVars, peerVars, quotaVars
  <2>7. Replying'
    <3>1. CASE toServer = << >>
      <4>1. /\ Append(toServer, h) # << >> /\ Head(Append(toServer, h)) = h
        <5>1. Len(Append(toServer, h)) = 1 /\ Append(toServer, h)[1] = h
              /\ Len(<< >>) = 0
          BY <1>2, <2>2, <3>1, AppendProperties, EmptySeq
        <5> DEFINE t == Append(toServer, h)
        <5>a. t \in Seq(Requests) /\ Len(t) = 1
          BY <2>5, <5>1
        <5> HIDE DEF t
        <5>2. t \in Seq(Requests) /\ t # << >>
          BY <5>a, <5>1
        <5>3. Head(t) = t[1]
          BY <5>2, HeadTailProperties, LenProperties, EmptySeq
        <5> QED BY <5>1, <5>2, <5>3 DEF t
      <4>2. replied = 0 /\ Len(Replies[h]) \in Nat \ {0}
        BY <2>2, <3>1, PartsOf DEF Replying
      <4> QED BY <1>1, <2>1, <4>1, <4>2 DEF Replying
    <3>2. CASE toServer # << >>
      <4>1. Len(toServer) \in Nat \ {0} /\ Len(<< >>) = 0
        BY <1>2, <3>2, EmptySeq
      <4>2. Append(toServer, h)[1] = toServer[1]
        BY <1>2, <2>2, <4>1, AppendProperties
      <4>3. /\ Append(toServer, h) # << >>
            /\ Head(Append(toServer, h)) = Head(toServer)
        BY <1>2, <2>5, <4>1, <4>2
      <4> QED BY <1>1, <2>1, <3>2, <4>3 DEF Replying
    <3> QED BY <3>1, <3>2
  <2>8. Offered'
    BY <1>1, <2>1 DEF Offered, InCallbacks
  <2>9. /\ From(Append(pending, h), Finished + Busy)
    <3>1. /\ From(pending, Finished + Busy) /\ Finished + Busy \in Int
          /\ h = Finished + Busy + Len(pending) + 1
      BY <2>3, <2>4, Lengths DEF Numbered, Passed
    <3> QED BY <1>2, <2>2, <3>1, FromAppend
  <2>10. Finished' = Finished /\ Busy' = Busy
    BY <1>1 DEF Finished, Busy, clientVars
  <2>11. Passed' = Passed + 1 /\ Parsed' = Parsed
    <3>1. Passed' = Finished + Busy + (Len(pending) + 1)
      BY <2>1, <2>5, <2>10 DEF Passed
    <3>2. Passed' = Passed + 1
      BY <3>1, Lengths DEF Passed
    <3>3. Parsed' = Passed' + (Len(requests) - 1)
      BY <2>1, <2>2 DEF Parsed
    <3> QED BY <3>2, <3>3, Lengths DEF Parsed
  <2>12. Numbered'
    BY <1>1, <2>1, <2>3, <2>4, <2>9, <2>10, <2>11 DEF Numbered, clientVars
  <2>13. InLine'
    BY <1>1, <2>3, <2>11, <2>12 DEF InLine, Coming, clientVars
  <2> QED BY <1>3, <1>4, <2>6, <2>7, <2>8, <2>13
<1> QED BY <1>5, <1>6

\* The oldest response moves to the client's socket, then to the store.
LEMMA ClientWriteIInv ==
  ASSUME IInv, ClientWrite
  PROVE  IInv'
<1> USE DEF IInv
<1> DEFINE h == Head(responses)
           written == answered \o toClient
<1>1. /\ UNCHANGED <<todo, errs, eofs, clientVars, requestVars, serverVars,
                     pending, current, peerVars, quotaVars, forwarded, blocked,
                     uncompleted, pipelined>>
      /\ pc = "clientOut" /\ toClient' = Append(toClient, h)
      /\ faults' \in Nat
      /\ \/ /\ saved' = Append(saved, h)
            /\ responses' = Tail(responses)
            /\ pc' = "poll"
         \/ pc' = "dead" /\ UNCHANGED <<saved, responses>>
      /\ responses # << >>
  <2>1. responses # << >>
    BY DEF ClientWrite, Runs, Offered, InCallbacks
  <2>2. faults' \in Nat
    <3>1. faults \in Nat /\ faults' \in {faults, faults + 1}
      BY DEF ClientWrite, TypeOK
    <3> QED BY ONLY <3>1
  <2> QED BY <2>1, <2>2 DEF ClientWrite, Runs
<1>2. /\ responses \in Seq(Response) /\ toClient \in Seq(Response)
      /\ answered \in Seq(Response) /\ saved \in Seq(Response)
  BY DEF TypeOK
<1>3. /\ h \in Response /\ Tail(responses) \in Seq(Response)
      /\ Len(Tail(responses)) = Len(responses) - 1
  BY <1>1, <1>2, HeadTailProperties
<1>4. Numbered /\ Coming
  BY <1>1 DEF InLine, Alive
<1> DEFINE a == Len(answered) + Len(toClient)
<1>5. h.req = a + 1 /\ ReqsFrom(Tail(responses), a + 1) /\ a \in Nat
  <2>1. ReqsFrom(responses, a) /\ a \in Nat
    BY <1>4, Lengths DEF Numbered
  <2> HIDE DEF a
  <2> QED BY <1>1, <1>2, <2>1, ReqsTail
<1> HIDE DEF h, a
<1>6. /\ Append(toClient, h) \in Seq(Response)
      /\ Len(Append(toClient, h)) = Len(toClient) + 1
      /\ Append(saved, h) \in Seq(Response)
      /\ Len(Append(saved, h)) = Len(saved) + 1
  BY <1>2, <1>3, AppendProperties
<1>7. TypeOK'
  BY <1>1, <1>2, <1>3, <1>6 DEF TypeOK, clientVars, requestVars, serverVars,
     peerVars, quotaVars
<1>8. Sending' /\ Replying' /\ Offered'
  BY <1>1 DEF Sending, Replying, Offered, InCallbacks,
     clientVars, serverVars
<1>9. InLine'
  <2> SUFFICES ASSUME Alive' PROVE InLine'
    BY DEF InLine
  <2>1. responses' = Tail(responses)
    BY <1>1 DEF Alive
  <2>2. ReqsFrom(Append(toClient, h), Len(answered))
    <3>1. ReqsFrom(toClient, Len(answered)) /\ Len(answered) \in Int
          /\ h.req = Len(answered) + Len(toClient) + 1
      BY <1>4, <1>5, Lengths DEF Numbered, a
    <3> QED BY <1>2, <1>3, <3>1, ReqsAppend
  <2>3. /\ answered' = answered /\ Len(toClient') = Len(toClient) + 1
        /\ Len(responses') = Len(responses) - 1 /\ current' = current
        /\ pending' = pending /\ requests' = requests /\ toProxy' = toProxy
        /\ sent' = sent /\ lacking' = lacking
    BY <1>1, <1>3, <1>6, <2>1 DEF clientVars, requestVars
  <2>4. Finished' = Finished /\ Busy' = Busy
    BY <2>3, Lengths DEF Finished, Busy
  <2>5. Passed' = Passed /\ Parsed' = Parsed
    BY <2>3, <2>4 DEF Passed, Parsed
  <2>6. Len(answered') + Len(toClient') = a + 1
    BY <2>3, Lengths DEF a
  <2>7. Numbered'
    BY <1>1, <1>4, <1>5, <2>1, <2>2, <2>3, <2>4, <2>5, <2>6 DEF Numbered
  <2> QED BY <1>4, <2>3, <2>5, <2>7 DEF InLine, Coming
<1>10. SavedAsSent'
  <2>1. written \in Seq(Response) /\ IsPrefix(saved, written)
        /\ Len(written) - Len(saved) <= 0
    BY <1>1, <1>2, ConcatProperties DEF SavedAsSent
  <2>2. saved = written
    <3> HIDE DEF written
    <3> QED BY <1>2, <2>1, PrefixWhole
  <2>3. written' = Append(saved, h)
    BY <1>1, <1>2, <1>3, <2>2, ConcatAppend DEF clientVars
  <2>4. /\ IsPrefix(saved, Append(saved, h))
        /\ IsPrefix(Append(saved, h), Append(saved, h))
    BY <1>2, <1>3, <1>6, PrefixOfMore
  <2>5. Len(saved) \in Nat
    BY <1>2, LenProperties
  <2>6. CASE saved' = Append(saved, h)
    <3>1. Len(written') - Len(saved') <= 0
      BY <1>6, <2>3, <2>5, <2>6
    <3>2. IsPrefix(saved', written')
      BY <2>3, <2>4, <2>6
    <3>3. 0 <= (IF pc' = "dead" THEN 1 ELSE 0)
      OBVIOUS
    <3>4. Len(written') - Len(saved') \in Int
      BY <1>6, <2>3, <2>5, <2>6
    <3>5. Len(written') - Len(saved') <= (IF pc' = "dead" THEN 1 ELSE 0)
      BY <3>1, <3>3, <3>4
    <3> QED BY <3>2, <3>5 DEF SavedAsSent
  <2>7. CASE pc' = "dead" /\ saved' = saved
    <3>1. Len(written') - Len(saved') <= 1
      BY <1>6, <2>3, <2>5, <2>7
    <3> QED BY <2>3, <2>4, <2>7, <3>1 DEF SavedAsSent
  <2> QED BY <1>1, <2>6, <2>7
<1> QED BY <1>7, <1>8, <1>9, <1>10

\* The part of a buffer that request_parser takes as the client wrote it.
LEMMA TextOfBuffer ==
  ASSUME TypeOK, NEW n \in 1..Len(toProxy), NEW buffer,
         buffer = SubSeq(toProxy, 1, n), NEW text,
         text \in {Text(buffer), Text(Intact(buffer))}
  PROVE  /\ text \in Seq(ClientPart) /\ Len(text) \in 0..n
         /\ \A i \in 1..Len(text) : text[i] = toProxy[i]
         /\ lacking # 0 => text = << >>
<1>1. /\ toProxy \in Seq(ClientPart) /\ buffer \in Seq(ClientPart)
      /\ Len(buffer) = n /\ n \in Nat
      /\ \A i \in 1..n : buffer[i] = toProxy[i] /\ buffer[i] \in ClientPart
  <2>1. toProxy \in Seq(ClientPart)
    BY DEF TypeOK, ClientPart
  <2>2. /\ buffer \in Seq(ClientPart) /\ Len(buffer) = n
        /\ \A i \in 1..n : buffer[i] = toProxy[i]
    BY <2>1, DropFirst
  <2> QED BY <2>1, <2>2, ElementOfSeq
<1>2. << >> \in Seq(ClientPart) /\ Len(<< >>) = 0
  BY EmptySeq
<1> DEFINE intact == Intact(buffer)
<1>3. /\ intact \in Seq(ClientPart) /\ Len(intact) \in 0..n
      /\ \A i \in 1..Len(intact) : intact[i] = toProxy[i]
  <2> DEFINE cut == {k \in 1..Len(buffer)-1 : FirstCount(buffer, k)}
             c == CHOOSE k \in cut : TRUE
             t == SubSeq(buffer, 1, c - 1)
  <2>1. CASE cut = {}
    BY <1>1, <2>1 DEF Intact
  <2>2. CASE cut # {}
    <3>1. c \in cut
      BY <2>2
    <3>2. c \in 1..n-1 /\ intact = t
      BY <1>1, <2>2, <3>1 DEF Intact
    <3> HIDE DEF c, cut
    <3> DEFINE m == c - 1
    <3>3. m \in Nat /\ m < n
      BY <1>1, <3>2
    <3> HIDE DEF m
    <3>4. /\ t \in Seq(ClientPart) /\ Len(t) = IF 1 <= m THEN m - 1 + 1 ELSE 0
          /\ \A i \in 1..(m - 1 + 1) : t[i] = buffer[1 + i - 1]
      <4>1. \A i \in 1..m : buffer[i] \in ClientPart
        BY <1>1, <3>3
      <4>2. t = SubSeq(buffer, 1, m)
        BY DEF m
      <4> HIDE DEF t
      <4> QED BY <3>3, <4>1, <4>2, SubSeqProperties
    <3> HIDE DEF t
    <3>5. Len(t) = m
      BY <3>3, <3>4
    <3>6. ASSUME NEW i \in 1..m PROVE t[i] = toProxy[i]
      <4>1. i \in 1..(m - 1 + 1) /\ 1 + i - 1 = i /\ i \in 1..n
        BY <1>1, <3>3
      <4> QED BY <1>1, <3>4, <4>1
    <3> QED BY <1>1, <3>2, <3>3, <3>4, <3>5, <3>6
  <2> QED BY <2>1, <2>2
<1> HIDE DEF intact
<1>4. CASE lacking = 0
  <2>1. text = buffer \/ text = intact
    BY <1>4 DEF Text, intact
  <2>2. n \in 0..n
    BY <1>1
  <2>3. CASE text = buffer
    BY <1>1, <1>4, <2>2, <2>3
  <2>4. CASE text = intact
    BY <1>3, <1>4, <2>4
  <2> QED BY <2>1, <2>3, <2>4
<1>5. CASE lacking # 0
  <2>1. text = << >>
    BY <1>5 DEF Text
  <2> QED BY <1>1, <1>2, <2>1
<1> QED BY <1>4, <1>5

\* What is left to read behind n parts of which text is parsed.
LEMMA ClientParses ==
  ASSUME TypeOK, InLine, Alive, NEW n \in 1..Len(toProxy),
         NEW text \in Seq(ClientPart), Len(text) \in 0..n,
         \A i \in 1..Len(text) : text[i] = toProxy[i],
         lacking # 0 => text = << >>
  PROVE  LET queue == ParseRequests(text)
             rest == SubSeq(toProxy, n + 1, Len(toProxy))
         IN  /\ queue \in Seq(Requests) /\ From(queue, Passed)
             /\ Len(requests) <= Len(queue) /\ rest \in Seq(ClientPart)
             /\ \E first \in Int :
                  /\ Passed + Len(queue) + 1 <= first
                  /\ lacking = 0 /\ Len(text) = n =>
                       first = Passed + Len(queue) + 1
                  /\ Run(ReqNo, rest, first, sent + 1)
             /\ lacking = 0 =>
                  At(ReqNo, toProxy, sent + 1, Len(text) + 1)
                    = Passed + Len(queue) + 1
<1> DEFINE queue == ParseRequests(text)
           rest == SubSeq(toProxy, n + 1, Len(toProxy))
           m == Len(text)
           first == At(ReqNo, toProxy, sent + 1, n + 1)
<1>1. /\ toProxy \in Seq(ClientPart) /\ requests \in Seq(Requests)
      /\ Passed \in Int /\ Len(requests) \in Nat /\ sent + 1 \in Int
      /\ From(requests, Passed) /\ Parsed = Passed + Len(requests)
  <2>1. From(requests, Passed)
    BY DEF InLine, Numbered
  <2>2. sent + 1 \in Int
    BY RequestNumbers DEF TypeOK
  <2> QED BY <2>1, <2>2, Lengths DEF TypeOK, ClientPart, Parsed
<1>2. PICK f0 \in Int :
        /\ Parsed + 1 <= f0 /\ (lacking = 0 => f0 = Parsed + 1)
        /\ Run(ReqNo, toProxy, f0, sent + 1)
  BY DEF InLine, Coming
<1>3. rest \in Seq(ClientPart) /\ Len(toProxy) \in Nat
  BY <1>1, DropFirst
<1>4. Run(ReqNo, rest, first, sent + 1) /\ first \in Int
  <2> HIDE DEF rest, first
  <2> QED BY <1>1, <1>2, RunDrop, RequestNumbers DEF rest, first
<1>5. CASE lacking = 0
  <2>0. Run(ReqNo, toProxy, Passed + Len(requests) + 1, sent + 1)
    BY <1>1, <1>2, <1>5
  <2>1. /\ queue \in Seq(Requests) /\ From(queue, Passed)
        /\ Len(requests) <= Len(queue)
        /\ At(ReqNo, toProxy, sent + 1, m + 1) = Passed + Len(queue) + 1
    <3>1. Len(text) <= Len(toProxy)
      BY <1>3
    <3> DEFINE q0 == requests
               k0 == Passed
               s0 == toProxy
               next0 == sent + 1
               first0 == Passed + Len(requests) + 1
    <3>3. /\ s0 \in Seq(ClientPart) /\ q0 \in Seq(Requests) /\ k0 \in Int
          /\ next0 \in Int /\ From(q0, k0)
          /\ first0 \in Int /\ first0 = k0 + Len(q0) + 1
          /\ Run(ReqNo, s0, first0, next0)
          /\ Begins(text, s0) /\ text \in Seq(ClientPart)
      BY <1>1, <2>0, <3>1 DEF Begins
    <3>4. queue = QueueOf(q0, text)
      BY DEF ParseRequests, QueueOf
    <3> HIDE DEF q0, k0, s0, next0, first0, queue
    <3>5. /\ queue \in Seq(Requests) /\ From(queue, k0) /\ Len(q0) <= Len(queue)
          /\ At(ReqNo, s0, next0, Len(text) + 1) = k0 + Len(queue) + 1
      <4>1. \A s \in Seq(ClientPart) : \A b \in Seq(ClientPart) :
              \A q \in Seq(Requests) : \A k, next, f \in Int :
                Begins(b, s) /\ From(q, k) /\ f = k + Len(q) + 1
                  /\ Run(ReqNo, s, f, next) =>
                    /\ QueueOf(q, b) \in Seq(Requests) /\ From(QueueOf(q, b), k)
                    /\ Len(q) <= Len(QueueOf(q, b))
                    /\ At(ReqNo, s, next, Len(b) + 1) = k + Len(QueueOf(q, b)) + 1
        BY ONLY RequestsParsed
      <4>2. /\ QueueOf(q0, text) \in Seq(Requests) /\ From(QueueOf(q0, text), k0)
            /\ Len(q0) <= Len(QueueOf(q0, text))
            /\ At(ReqNo, s0, next0, Len(text) + 1)
                 = k0 + Len(QueueOf(q0, text)) + 1
        BY ONLY <3>3, <4>1
      <4> QED BY ONLY <3>4, <4>2
    <3> QED BY <3>5 DEF q0, k0, s0, next0
  <2>2. At(ReqNo, toProxy, sent + 1, m + 1) <= first
    <3>1. /\ m + 1 \in 1..(Len(toProxy) + 1) /\ n + 1 \in 1..(Len(toProxy) + 1)
          /\ m + 1 <= n + 1
      BY <1>3
    <3> QED BY <2>0, <3>1 DEF Run
  <2>3. Len(text) = n => first = At(ReqNo, toProxy, sent + 1, m + 1)
    OBVIOUS
  <2> HIDE DEF queue, rest, first
  <2> QED BY <1>3, <1>4, <1>5, <2>1, <2>2, <2>3 DEF queue, rest
<1>6. CASE lacking # 0
  <2>1. queue = requests
    BY <1>6, NothingParsed
  <2>2. At(ReqNo, toProxy, sent + 1, 1) = f0
    BY <1>2 DEF Run
  <2>3. At(ReqNo, toProxy, sent + 1, 1) <= first
    <3>1. /\ 1 \in 1..(Len(toProxy) + 1) /\ n + 1 \in 1..(Len(toProxy) + 1)
          /\ 1 <= n + 1
      BY <1>3
    <3> QED BY <1>2, <3>1 DEF Run
  <2> HIDE DEF queue, rest, first
  <2>4. Passed + Len(queue) + 1 <= first
    BY <1>1, <1>2, <1>4, <2>1, <2>2, <2>3
  <2>5. Len(requests) <= Len(queue)
    BY <1>1, <2>1
  <2> QED BY <1>1, <1>3, <1>4, <1>6, <2>1, <2>4, <2>5 DEF queue, rest
<1> QED BY <1>5, <1>6

\* A buffer that passes: its requests join the queue.
LEMMA ClientPassIInv ==
  ASSUME IInv, ClientRead, NEW n \in 1..Len(toProxy),
         toProxy' = SubSeq(toProxy, n + 1, Len(toProxy)),
         partial' \in BOOLEAN, ClientPass(SubSeq(toProxy, 1, n))
  PROVE  IInv'
<1> USE DEF IInv
<1> DEFINE buffer == SubSeq(toProxy, 1, n)
           text == Text(Intact(buffer))
           queue == ParseRequests(text)
<1>1. /\ UNCHANGED <<todo, errs, eofs, sentParts, sent, answered, serverVars,
                     toClient, peerVars, forwarded, saved, responseVars, blocked,
                     uncompleted, pipelined, faults>>
      /\ pc = "clientIn" /\ pc' \in {"serverOut", "garbled"}
      /\ requests' = queue
      /\ granted' \in 0..Limit /\ refused' = refused
      /\ lacking' = IF lacking = 0 /\ Len(text) < Len(buffer)
                    THEN buffer[Len(text) + 1].req ELSE lacking
  <2>1. granted \in 0..Limit /\ Limit \in Nat
    BY LimitAssumption DEF TypeOK
  <2>2. granted' \in 0..Limit /\ refused' = refused
    BY <2>1 DEF ClientPass, Filter, Grant, quotaVars
  <2> QED BY <2>2 DEF ClientRead, ClientPass, Runs
<1>2. /\ text \in Seq(ClientPart) /\ Len(text) \in 0..n
      /\ \A i \in 1..Len(text) : text[i] = toProxy[i]
      /\ lacking # 0 => text = << >>
  BY TextOfBuffer
<1>3. /\ lacking' \in 0..Len(Script)
      /\ lacking' = 0 => lacking = 0 /\ Len(text) = n
  <2>0. toProxy \in Seq(ClientPart)
    BY DEF TypeOK, ClientPart
  <2>1. /\ Len(buffer) = n /\ buffer \in Seq(ClientPart) /\ n \in Nat
    BY <2>0, DropFirst
  <2>2. ASSUME NEW i \in 1..n PROVE buffer[i].req \in Requests
    <3>1. buffer[i] \in ClientPart
      BY <2>1, ElementOfSeq
    <3> QED BY <3>1 DEF ClientPart
  <2>3. CASE lacking = 0 /\ Len(text) < n
    <3>1. Len(text) + 1 \in 1..n
      BY <1>2, <2>1, <2>3
    <3>2. lacking' \in Requests
      BY <1>1, <2>1, <2>2, <2>3, <3>1
    <3> QED BY <3>2, RequestNumbers
  <2>4. CASE ~(lacking = 0 /\ Len(text) < n)
    <3>1. lacking' = lacking
      BY <1>1, <2>1, <2>4
    <3> HIDE DEF text
    <3> QED BY <1>2, <2>1, <2>4, <3>1 DEF TypeOK
  <2> QED BY <2>3, <2>4
<1> HIDE DEF text
<1>4. /\ queue \in Seq(Requests) /\ From(queue, Passed)
      /\ toProxy' \in Seq(ClientPart)
      /\ \E first \in Int :
           /\ Passed + Len(queue) + 1 <= first
           /\ lacking = 0 /\ Len(text) = n =>
                first = Passed + Len(queue) + 1
           /\ Run(ReqNo, toProxy', first, sent + 1)
  BY <1>1, <1>2, ClientParses DEF Alive
<1> HIDE DEF queue, buffer
<1>5. TypeOK'
  BY <1>1, <1>3, <1>4 DEF TypeOK, ClientPart, serverVars, peerVars, responseVars
<1>6. Sending' /\ Replying' /\ Offered'
  BY <1>1 DEF Sending, Replying, Offered, InCallbacks,
     serverVars, responseVars
<1>7. InLine'
  <2>1. Numbered
    BY <1>1 DEF InLine, Alive
  <2>2. Finished' = Finished /\ Busy' = Busy /\ Passed' = Passed
    BY <1>1 DEF Finished, Busy, Passed, responseVars
  <2>3. Parsed' = Passed + Len(queue)
    BY <1>1, <2>2 DEF Parsed
  <2>4. Numbered'
    BY <1>1, <1>4, <2>1, <2>2 DEF Numbered, responseVars
  <2>5. Coming'
    BY <1>1, <1>3, <1>4, <2>3 DEF Coming
  <2> QED BY <2>4, <2>5 DEF InLine
<1>8. SavedAsSent'
  BY <1>1, StoreStays
<1> QED BY <1>5, <1>6, <1>7, <1>8

\* The 405: the oldest complete request is answered in the place that its
\* response would have had (src/src/httpserver/http_proxy.cc:81).
LEMMA CannedParsed ==
  ASSUME TypeOK, Numbered, current = NoMessage, NEW r \in Requests,
         r = Passed + 1
  PROVE  LET st == ParsePart([ResponseState EXCEPT !.pending = Append(@, r)],
                             CannedPart)
         IN  /\ st \in ParseState
             /\ StateNumbered(st, Len(answered) + Len(toClient), Passed + 1)
             /\ st.current = NoMessage
             /\ st.done = Append(responses, [req |-> Finished + 1,
                                             src |-> Canned])
<1> DEFINE a == Len(answered) + Len(toClient)
           st0 == [ResponseState EXCEPT !.pending = Append(@, r)]
           st == ParsePart(st0, CannedPart)
<1>1. /\ a \in Nat /\ Passed \in Int /\ Len(responses) \in Nat
      /\ Len(pending) \in Nat
      /\ pending \in Seq(Requests)
      /\ ReqsFrom(responses, a)
      /\ From(pending, a + Len(responses))
      /\ Passed = a + Len(responses) + Len(pending)
      /\ Finished = a + Len(responses)
  <2>1. Busy = 0
    BY DEF Busy
  <2>2. Finished = a + Len(responses)
    BY Lengths DEF Finished
  <2>3. /\ a \in Nat /\ Passed \in Int /\ Len(responses) \in Nat
        /\ Len(pending) \in Nat /\ pending \in Seq(Requests)
        /\ ReqsFrom(responses, a)
    BY Lengths DEF TypeOK, Numbered
  <2>4. Finished + Busy = a + Len(responses)
    BY <2>1, <2>2, <2>3
  <2>5. From(pending, a + Len(responses))
    BY <2>4 DEF Numbered
  <2>6. Passed = a + Len(responses) + Len(pending)
    BY <2>4 DEF Passed
  <2> QED BY <2>2, <2>3, <2>5, <2>6
<1>2. /\ Append(pending, r) \in Seq(Requests)
      /\ Len(Append(pending, r)) = Len(pending) + 1
      /\ From(Append(pending, r), a + Len(responses))
  <2>1. r = a + Len(responses) + Len(pending) + 1 /\ a + Len(responses) \in Int
    BY <1>1
  <2> HIDE DEF a
  <2> QED BY <1>1, <2>1, FromAppend
<1>3. /\ st0 \in ParseState /\ ~st0.threw
      /\ st0.pending = Append(pending, r) /\ st0.current = NoMessage
      /\ st0.done = responses
  BY <1>2 DEF ResponseState, ParseState, InReply, TypeOK
<1> HIDE DEF st0, a
<1>4. StateNumbered(st0, a, Passed + 1)
  <2>1. Started(st0) = 0
    BY <1>3 DEF Started
  <2>2. /\ a + Len(st0.done) + Started(st0) = a + Len(responses)
        /\ a + Len(responses) + (Len(pending) + 1) = Passed + 1
    BY <1>1, <1>3, <2>1
  <2> QED BY <1>1, <1>2, <1>3, <2>2 DEF StateNumbered
<1>5. st0.pending # << >>
  <2> DEFINE t == Append(pending, r)
  <2>1. Len(t) # 0 /\ Len(<< >>) = 0
    BY <1>1, <1>2, EmptySeq
  <2> HIDE DEF t
  <2>2. t # << >>
    BY <2>1
  <2> QED BY <1>3, <2>2 DEF t
<1>6. CannedPart.end /\ CannedPart.src = Canned
  BY DEF CannedPart
<1>7. Passed + 1 \in Int
  BY <1>1
<1>8. /\ st \in ParseState /\ StateNumbered(st, a, Passed + 1)
      /\ st.current = NoMessage
      /\ st.done = Append(st0.done, [req |-> a + Len(st0.done) + 1,
                                     src |-> SrcOf(st0, CannedPart)])
  BY <1>1, <1>3, <1>4, <1>5, <1>6, <1>7, PartParsed
<1>9. SrcOf(st0, CannedPart) = Canned /\ a + Len(st0.done) + 1 = Finished + 1
  BY <1>1, <1>3, <1>6 DEF SrcOf
<1> QED BY <1>3, <1>8, <1>9 DEF st0, a

\* A buffer that is blocked: its first request is answered in place.
LEMMA ClientBlockedIInv ==
  ASSUME IInv, ClientRead, NEW n \in 1..Len(toProxy),
         toProxy' = SubSeq(toProxy, n + 1, Len(toProxy)),
         partial' \in BOOLEAN, ClientBlocked(SubSeq(toProxy, 1, n))
  PROVE  IInv'
<1> USE DEF IInv
<1> DEFINE buffer == SubSeq(toProxy, 1, n)
           text == Text(buffer)
           queue == ParseRequests(text)
           st == ParsePart([ResponseState EXCEPT
                              !.pending = Append(@, Head(queue))], CannedPart)
<1>1. /\ UNCHANGED <<todo, errs, eofs, sentParts, sent, answered, serverVars,
                     toClient, peerVars, forwarded, saved, lacking, pipelined,
                     faults>>
      /\ pc = "clientIn" /\ uncompleted' \in BOOLEAN
      /\ blocked' \subseteq Requests
      /\ granted' = granted /\ refused' \in Nat
  <2>1. buffer \in Seq(ClientPart)
    BY DropFirst DEF TypeOK, ClientPart
  <2>2. ASSUME NEW i \in DOMAIN buffer PROVE buffer[i].req \in Requests
    <3>1. buffer[i] \in ClientPart
      BY <2>1, LenProperties, ElementOfSeq
    <3> QED BY <3>1 DEF ClientPart
  <2>3. blocked' \subseteq Requests
    <3> HIDE DEF buffer
    <3>1. blocked' = blocked \cup
            {buffer[i].req : i \in {j \in DOMAIN buffer : buffer[j].key}}
      BY DEF ClientBlocked, Block, buffer
    <3> QED BY <2>2, <3>1 DEF TypeOK
  <2>4. granted' = granted /\ refused' \in Nat
    <3>1. Filter(buffer, "BLOCKED")
      BY DEF ClientBlocked, Block
    <3>2. Refuse
      <4> HIDE DEF buffer
      <4> QED BY <3>1 DEF Filter
    <3> QED BY <3>2 DEF Refuse, TypeOK
  <2>5. uncompleted' \in BOOLEAN /\ lacking' = lacking
    BY DEF ClientBlocked, Block, Completes, TypeOK
  <2> QED BY <2>3, <2>4, <2>5 DEF ClientRead, Runs
<1>a. /\ text \in Seq(ClientPart) /\ Len(text) \in 0..n
      /\ \A i \in 1..Len(text) : text[i] = toProxy[i]
      /\ lacking # 0 => text = << >>
      /\ lacking = 0 => Len(text) = n
  <2>1. lacking = 0 => text = buffer
    BY DEF Text
  <2>2. Len(buffer) = n
    BY DropFirst DEF TypeOK, ClientPart
  <2> QED BY <2>1, <2>2, TextOfBuffer
<1> HIDE DEF text
<1>2. /\ queue \in Seq(Requests) /\ From(queue, Passed)
      /\ toProxy' \in Seq(ClientPart)
      /\ Len(requests) <= Len(queue)
      /\ \E first \in Int :
           /\ Passed + Len(queue) + 1 <= first
           /\ lacking = 0 => first = Passed + Len(queue) + 1
           /\ Run(ReqNo, toProxy', first, sent + 1)
  <2>1. /\ queue \in Seq(Requests) /\ From(queue, Passed)
        /\ toProxy' \in Seq(ClientPart)
        /\ Len(requests) <= Len(queue)
        /\ \E first \in Int :
             /\ Passed + Len(queue) + 1 <= first
             /\ lacking = 0 /\ Len(text) = n =>
                  first = Passed + Len(queue) + 1
             /\ Run(ReqNo, toProxy', first, sent + 1)
    BY <1>1, <1>a, ClientParses DEF Alive
  <2> QED BY <1>a, <2>1
<1>3. \/ pc' = "garbled" /\ UNCHANGED <<requests, responseVars>>
      \/ /\ queue = << >> /\ pc' = "crashed"
         /\ UNCHANGED <<requests, responseVars>>
      \/ /\ queue # << >> /\ current # NoMessage /\ pc' = "garbled"
         /\ requests' = Tail(queue) /\ UNCHANGED responseVars
      \/ /\ queue # << >> /\ current = NoMessage /\ pc' = "serverOut"
         /\ requests' = Tail(queue) /\ SetResponses(st)
  BY DEF ClientBlocked, text
<1>4. queue # << >> => /\ Head(queue) \in Requests
                       /\ Head(queue) = Passed + 1
                       /\ Tail(queue) \in Seq(Requests)
                       /\ Len(Tail(queue)) = Len(queue) - 1
                       /\ From(Tail(queue), Passed + 1)
  <2> HIDE DEF queue
  <2>1. Passed \in Int
    BY Lengths
  <2> QED BY <1>2, <2>1, FromTail
<1>5. Numbered
  BY <1>1 DEF InLine, Alive
<1>6. Sending' /\ Replying'
  BY <1>1, <1>3 DEF Sending, Replying, serverVars
<1>7. SavedAsSent'
  BY <1>1, StoreStays
<1>8. CASE pc' \in {"crashed", "garbled"}
  <2> HIDE DEF queue
  <2>1. requests' \in Seq(Requests) /\ UNCHANGED responseVars
    BY <1>3, <1>4, <1>8 DEF TypeOK
  <2>2. TypeOK'
    BY <1>1, <1>2, <1>8, <2>1 DEF TypeOK, ClientPart, responseVars, serverVars,
       peerVars
  <2>3. Offered' /\ InLine'
    BY <1>8 DEF Offered, InCallbacks, InLine, Alive
  <2> QED BY <1>6, <1>7, <2>2, <2>3
<1>9. CASE pc' = "serverOut"
  <2>1. /\ queue # << >> /\ current = NoMessage
        /\ requests' = Tail(queue) /\ SetResponses(st)
    BY <1>3, <1>9
  <2> DEFINE a == Len(answered) + Len(toClient)
             r == [req |-> Finished + 1, src |-> Canned]
  <2>2. /\ st \in ParseState /\ StateNumbered(st, a, Passed + 1)
        /\ st.current = NoMessage /\ st.done = Append(responses, r)
    BY <1>4, <1>5, <2>1, CannedParsed
  <2> HIDE DEF st, queue
  <2>3. /\ pending' = st.pending /\ current' = st.current
        /\ responses' = st.done
    BY <2>1 DEF SetResponses
  <2>4. /\ pending' \in Seq(Requests) /\ current' = NoMessage
        /\ responses' \in Seq(Response)
    BY <2>2, <2>3 DEF ParseState
  <2>5. TypeOK'
    BY <1>1, <1>2, <1>4, <1>9, <2>1, <2>4 DEF TypeOK, ClientPart, serverVars,
       peerVars
  <2>6. responses' # << >>
    <3>1. responses' \in Seq(Response) /\ responses' = Append(responses, r)
          /\ responses \in Seq(Response)
      BY <2>2, <2>3, <2>4 DEF TypeOK
    <3> HIDE DEF r
    <3>2. Len(responses') = Len(responses) + 1 /\ Len(responses) \in Nat
      BY <3>1, LenProperties
    <3> QED BY <3>2, EmptySeq
  <2>7. Offered'
    BY <2>6 DEF Offered
  <2>8. /\ ReqsFrom(answered', 0) /\ ReqsFrom(toClient', Len(answered'))
        /\ Len(answered') + Len(toClient') = a /\ From(requests', Passed + 1)
        /\ Passed + 1 \in Int
    BY <1>1, <1>4, <1>5, <2>1, Lengths DEF Numbered
  <2>9. Numbered' /\ Passed' = Passed + 1
    <3> HIDE DEF a
    <3> QED BY <2>2, <2>3, <2>8, NumberedNext
  <2>10. Parsed' + 1 = Passed + Len(queue) + 1
    <3>1. Parsed' = Passed + 1 + (Len(queue) - 1)
      BY <1>4, <2>1, <2>9 DEF Parsed
    <3>2. Len(queue) \in Nat
      BY <1>2, LenProperties
    <3> QED BY <3>1, <3>2, Lengths
  <2>11. InLine'
    <3>1. Coming'
      BY <1>1, <1>2, <2>10 DEF Coming
    <3> QED BY <2>9, <3>1 DEF InLine
  <2> QED BY <1>6, <1>7, <2>5, <2>7, <2>11
<1> QED BY <1>3, <1>8, <1>9

\* The client's callback, whatever the filter's verdict.
LEMMA ClientReadIInv ==
  ASSUME IInv, ClientRead
  PROVE  IInv'
<1>1. PICK n \in 1..Len(toProxy) :
        /\ toProxy' = SubSeq(toProxy, n + 1, Len(toProxy))
        /\ partial' = (~SubSeq(toProxy, 1, n)[n].end \/ lacking' # 0)
        /\ \/ ClientPass(SubSeq(toProxy, 1, n))
           \/ ClientBlocked(SubSeq(toProxy, 1, n))
  BY DEF ClientRead
<1>2. partial' \in BOOLEAN
  BY <1>1
<1> QED BY <1>1, <1>2, ClientPassIInv, ClientBlockedIInv

\* Every step keeps what holds of every client.
LEMMA NextIInv == IInv /\ [Next]_vars => IInv'
<1> SUFFICES ASSUME IInv, [Next]_vars PROVE IInv'
  OBVIOUS
<1>1. CASE UNCHANGED vars
  <2> USE <1>1 DEF vars, loopVars, clientVars, requestVars, serverVars,
               responseVars, peerVars, quotaVars, historyVars, recordVars, IInv
  <2>1. TypeOK'
    BY DEF TypeOK
  <2>2. Sending' /\ Replying' /\ Offered'
    BY DEF Sending, Replying, Offered, InCallbacks
  <2>3. InLine'
    BY LineStays DEF Alive, lineVars
  <2>4. SavedAsSent'
    BY StoreStays
  <2> QED BY <2>1, <2>2, <2>3, <2>4
<1>2. CASE Loop
  <2>1. CASE \E a \in Callbacks : PassOver(a) \/ Throws(a)
    BY <2>1, SkipIInv
  <2> QED BY <1>2, <2>1, PollIInv, ServerReadIInv, ServerEofIInv, ClientReadIInv,
             ClientEofIInv, ServerWriteIInv, ClientWriteIInv DEF Loop, Callbacks
<1>3. CASE Peers \/ OtherConnection
  BY <1>3, ClientSendIInv, ClientReceiveIInv, ServerReplyIInv, AroundIInv
     DEF Peers
<1> QED BY <1>1, <1>2, <1>3 DEF Next

\* Two numbered queues, one behind the other.
LEMMA FromConcat ==
  ASSUME NEW S, NEW s \in Seq(S), NEW t \in Seq(S), NEW k \in Int,
         From(s, k), From(t, k + Len(s))
  PROVE  /\ s \o t \in Seq(S) /\ Len(s \o t) = Len(s) + Len(t)
         /\ From(s \o t, k)
<1>1. /\ s \o t \in Seq(S) /\ Len(s \o t) = Len(s) + Len(t)
      /\ \A i \in 1..(Len(s) + Len(t)) : (s \o t)[i] =
           IF i <= Len(s) THEN s[i] ELSE t[i - Len(s)]
      /\ Len(s) \in Nat /\ Len(t) \in Nat
  BY ConcatProperties, LenProperties
<1>2. ASSUME NEW i \in 1..(Len(s) + Len(t)) PROVE (s \o t)[i] = k + i
  <2>1. CASE i <= Len(s)
    <3>1. i \in 1..Len(s)
      BY <1>1, <2>1
    <3> QED BY <1>1, <2>1, <3>1 DEF From
  <2>2. CASE ~(i <= Len(s))
    <3>1. i - Len(s) \in 1..Len(t)
      BY <1>1, <2>2
    <3>2. t[i - Len(s)] = (k + Len(s)) + (i - Len(s))
      BY <3>1 DEF From
    <3> QED BY <1>1, <2>2, <3>2
  <2> QED BY <2>1, <2>2
<1> QED BY <1>1, <1>2 DEF From

\* The same of responses.
LEMMA ReqsConcat ==
  ASSUME NEW S, NEW s \in Seq(S), NEW t \in Seq(S), NEW k \in Int,
         ReqsFrom(s, k), ReqsFrom(t, k + Len(s))
  PROVE  /\ s \o t \in Seq(S) /\ Len(s \o t) = Len(s) + Len(t)
         /\ ReqsFrom(s \o t, k)
<1>1. /\ s \o t \in Seq(S) /\ Len(s \o t) = Len(s) + Len(t)
      /\ \A i \in 1..(Len(s) + Len(t)) : (s \o t)[i] =
           IF i <= Len(s) THEN s[i] ELSE t[i - Len(s)]
      /\ Len(s) \in Nat /\ Len(t) \in Nat
  BY ConcatProperties, LenProperties
<1>2. ASSUME NEW i \in 1..(Len(s) + Len(t)) PROVE (s \o t)[i].req = k + i
  <2>1. CASE i <= Len(s)
    <3>1. i \in 1..Len(s)
      BY <1>1, <2>1
    <3> QED BY <1>1, <2>1, <3>1 DEF ReqsFrom
  <2>2. CASE ~(i <= Len(s))
    <3>1. i - Len(s) \in 1..Len(t)
      BY <1>1, <2>2
    <3>2. t[i - Len(s)].req = (k + Len(s)) + (i - Len(s))
      BY <3>1 DEF ReqsFrom
    <3> QED BY <1>1, <2>2, <3>2
  <2> QED BY <2>1, <2>2
<1> QED BY <1>1, <1>2 DEF ReqsFrom

\* Queues that go on where the one behind ends are one sequence of numbers.
LEMMA InLineInOrder ==
  ASSUME TypeOK, InLine
  PROVE  PipelineInOrder
<1> SUFFICES ASSUME Alive, Numbered
             PROVE  LET pipeline == ReqsOf(Output) \o InProgress \o pending
                                      \o requests
                    IN  pipeline = [i \in 1..Len(pipeline) |-> i]
  BY DEF PipelineInOrder, Alive, InLine
<1> DEFINE reqs == ReqsOf(Output)
<1>1. /\ Output \in Seq(Response) /\ Len(Output) = Finished
      /\ ReqsFrom(Output, 0)
  <2> DEFINE w == answered \o toClient
  <2>1. answered \in Seq(Response) /\ toClient \in Seq(Response)
        /\ responses \in Seq(Response)
    BY DEF TypeOK
  <2>2. /\ ReqsFrom(answered, 0) /\ ReqsFrom(toClient, 0 + Len(answered))
        /\ ReqsFrom(responses, Len(answered) + Len(toClient))
    BY Lengths DEF Numbered
  <2>3. /\ w \in Seq(Response) /\ Len(w) = Len(answered) + Len(toClient)
        /\ ReqsFrom(w, 0)
    BY <2>1, <2>2, ReqsConcat
  <2>4. ReqsFrom(responses, 0 + Len(w))
    BY <2>2, <2>3, Lengths
  <2> HIDE DEF w
  <2>5. /\ w \o responses \in Seq(Response) /\ ReqsFrom(w \o responses, 0)
        /\ Len(w \o responses) = Len(w) + Len(responses)
    <3>1. responses \in Seq(Response) /\ w \in Seq(Response) /\ 0 \in Int
          /\ ReqsFrom(w, 0)
      BY <2>1, <2>3
    <3> QED BY ONLY <3>1, <2>4, ReqsConcat
  <2> QED BY <2>3, <2>5 DEF Output, Finished, w
<1>2. /\ reqs \in Seq(Requests) /\ Len(reqs) = Finished /\ From(reqs, 0)
  <2>1. DOMAIN Output = 1..Finished /\ Finished \in Nat
    BY <1>1, LenProperties
  <2>2. \A i \in 1..Finished : Output[i].req \in Requests
    <3> SUFFICES ASSUME NEW i \in 1..Finished PROVE Output[i].req \in Requests
      OBVIOUS
    <3>1. Output[i] \in Response
      BY <1>1, ElementOfSeq
    <3> QED BY <3>1 DEF Response
  <2>3. reqs = [i \in 1..Finished |-> Output[i].req]
    BY <2>1 DEF ReqsOf
  <2>4. reqs \in [1..Finished -> Requests]
    BY <2>2, <2>3
  <2>5. reqs \in Seq(Requests)
    BY <2>1, <2>4, SeqDef
  <2>6. Len(reqs) = Finished
    <3>1. DOMAIN reqs = 1..Len(reqs) /\ Len(reqs) \in Nat
      BY <2>5, LenProperties
    <3>2. 1..Len(reqs) = 1..Finished
      BY <2>3, <3>1
    <3> DEFINE l == Len(reqs)
    <3> HIDE DEF l, reqs
    <3>3. l \in Nat /\ Finished \in Nat /\ 1..l = 1..Finished
      BY <2>1, <3>1, <3>2 DEF l
    <3>4. l \in 1..l \/ l = 0
      BY <3>3
    <3>5. Finished \in 1..Finished \/ Finished = 0
      BY <3>3
    <3>6. l <= Finished
      BY <3>3, <3>4
    <3>7. Finished <= l
      BY <3>3, <3>5
    <3>8. l = Finished
      BY <3>3, <3>6, <3>7
    <3> QED BY <3>8 DEF l
  <2>7. \A i \in 1..Finished : reqs[i] = 0 + i
    BY <1>1, <2>3 DEF ReqsFrom
  <2> QED BY <2>5, <2>6, <2>7 DEF From
<1> HIDE DEF reqs
<1>3. /\ InProgress \in Seq(Requests) /\ Len(InProgress) = Busy
      /\ From(InProgress, 0 + Finished)
  <2>1. CASE current = NoMessage
    <3>1. InProgress = << >> /\ Busy = 0
      BY <2>1 DEF InProgress, Busy
    <3>2. << >> \in Seq(Requests) /\ Len(<< >>) = 0
      BY EmptySeq
    <3>3. From(<< >>, 0 + Finished)
      BY <3>2 DEF From
    <3> QED BY <3>1, <3>2, <3>3
  <2>2. CASE current # NoMessage
    <3>1. InProgress = <<current.req>> /\ Busy = 1
      BY <2>2 DEF InProgress, Busy
    <3>2. current.req \in Requests /\ current.req = Finished + 1
      BY <2>2 DEF TypeOK, Numbered
    <3>3. /\ InProgress \in Seq(Requests) /\ Len(InProgress) = 1
          /\ InProgress[1] = Finished + 1
      BY <3>1, <3>2
    <3>4. \A i \in 1..1 : InProgress[i] = 0 + Finished + i
      BY <3>3, Lengths
    <3> QED BY <3>1, <3>3, <3>4 DEF From
  <2> QED BY <2>1, <2>2
<1> DEFINE p1 == reqs \o InProgress
           p2 == p1 \o pending
           p3 == p2 \o requests
<1>4. p1 \in Seq(Requests) /\ Len(p1) = Finished + Busy /\ From(p1, 0)
  BY <1>2, <1>3, FromConcat
<1> HIDE DEF p1
<1>5. p2 \in Seq(Requests) /\ Len(p2) = Passed /\ From(p2, 0)
  <2>1. pending \in Seq(Requests) /\ From(pending, 0 + Len(p1))
    BY <1>4, Lengths DEF TypeOK, Numbered
  <2>2. /\ p2 \in Seq(Requests) /\ Len(p2) = Len(p1) + Len(pending)
        /\ From(p2, 0)
    BY <1>4, <2>1, FromConcat
  <2> QED BY <1>4, <2>2 DEF Passed
<1> HIDE DEF p2
<1>6. p3 \in Seq(Requests) /\ From(p3, 0)
  <2>1. requests \in Seq(Requests) /\ From(requests, 0 + Len(p2))
    BY <1>5, Lengths DEF TypeOK, Numbered
  <2> QED BY <1>5, <2>1, FromConcat
<1> HIDE DEF p3
<1>7. Len(p3) \in Nat /\ DOMAIN p3 = 1..Len(p3)
      /\ p3 = [i \in 1..Len(p3) |-> p3[i]]
  BY <1>6, LenProperties
<1>8. \A i \in 1..Len(p3) : p3[i] = i
  BY <1>6, <1>7 DEF From
<1>9. p3 = [i \in 1..Len(p3) |-> i]
  BY <1>7, <1>8
<1> QED BY <1>9 DEF p1, p2, p3, reqs

\* HTTPProxy::loop keeps every value in its type, whatever the client asks and
\* however the peers fail (src/src/httpserver/http_proxy.cc:40).
THEOREM TypeCorrect == Spec => []TypeOK
<1>1. IInv => TypeOK
  BY DEF IInv
<1> QED BY InitIInv, NextIInv, <1>1, PTL DEF Spec

\* The requests and the responses to them go through the loop's queues in the
\* order the client wrote them, none lost and none doubled, for every script,
\* every way to cut it into reads and any pipelining
\* (src/src/httpserver/http_proxy.cc:67, src/src/http/http_response_parser.cc:9).
THEOREM QueuesInOrder == Spec => []PipelineInOrder
<1>1. IInv => PipelineInOrder
  BY InLineInOrder DEF IInv
<1> QED BY InitIInv, NextIInv, <1>1, PTL DEF Spec

\* The backing store has what was written to the client, but for the last
\* response when its save has thrown (src/src/httpserver/http_proxy.cc:113).
THEOREM StoreAsWritten == Spec => []SavedAsSent
<1>1. IInv => SavedAsSent
  BY DEF IInv
<1> QED BY InitIInv, NextIInv, <1>1, PTL DEF Spec
-----------------------------------------------------------------------------
(* A client that pipelines no request with a resource's keywords.          *)

\* Only requests are begun.
LEMMA BegunRequests ==
  ASSUME TypeOK, Sending, NEW r \in Nat \ {0}, Begun(r)
  PROVE  r \in Requests
BY RequestNumbers DEF TypeOK, Sending, Begun

\* How far each queue reaches.
LEMMA Bounds ==
  ASSUME TypeOK, InLine, Alive
  PROVE  /\ Parsed <= sent /\ sent \in Nat
         /\ Len(answered) <= Finished /\ Finished <= Passed
         /\ Finished + Busy <= Passed
         /\ Passed <= Parsed
         /\ \A i \in 1..Len(toProxy) :
              /\ toProxy[i].req \in Requests
              /\ Parsed + 1 <= toProxy[i].req /\ toProxy[i].req <= sent + 1
<1>1. /\ Len(answered) <= Finished /\ Finished <= Passed /\ Passed <= Parsed
      /\ Finished + Busy <= Passed
  <2>1. /\ Len(answered) \in Nat /\ Len(toClient) \in Nat
        /\ Len(responses) \in Nat /\ Len(pending) \in Nat
        /\ Len(requests) \in Nat /\ Busy \in Nat
    BY Lengths
  <2>2. /\ Finished = Len(answered) + Len(toClient) + Len(responses)
        /\ Passed = Finished + Busy + Len(pending)
        /\ Parsed = Passed + Len(requests)
    BY DEF Finished, Passed, Parsed
  <2> QED BY ONLY <2>1, <2>2
<1>2. /\ toProxy \in Seq(ClientPart) /\ Len(toProxy) \in Nat
      /\ sent \in Nat /\ Parsed \in Nat
  BY Lengths, LenProperties, RequestNumbers DEF TypeOK, ClientPart
<1>6. PICK first \in Int :
        Parsed + 1 <= first /\ Run(ReqNo, toProxy, first, sent + 1)
  BY DEF InLine, Coming
<1> DEFINE at(i) == At(ReqNo, toProxy, sent + 1, i)
<1>3. /\ at(1) = first /\ at(Len(toProxy) + 1) = sent + 1
      /\ \A i, j \in 1..(Len(toProxy) + 1) : i <= j => at(i) <= at(j)
  BY <1>2, <1>6 DEF Run, At
<1> HIDE DEF at
<1>4. Parsed <= sent
  <2>1. 1 \in 1..(Len(toProxy) + 1) /\ Len(toProxy) + 1 \in 1..(Len(toProxy) + 1)
        /\ 1 <= Len(toProxy) + 1
    BY <1>2
  <2>2. Parsed + 1 <= first /\ first <= sent + 1
    BY <1>3, <1>6, <2>1
  <2> QED BY <1>2, <2>2
<1>5. ASSUME NEW i \in 1..Len(toProxy)
      PROVE  /\ toProxy[i].req \in Requests
             /\ Parsed + 1 <= toProxy[i].req /\ toProxy[i].req <= sent + 1
  <2>1. toProxy[i] \in ClientPart
    BY <1>2, ElementOfSeq
  <2>2. toProxy[i].req \in Requests /\ at(i) = toProxy[i].req
    BY <1>2, <2>1 DEF ClientPart, ReqNo, At, at
  <2>3. /\ 1 \in 1..(Len(toProxy) + 1) /\ i \in 1..(Len(toProxy) + 1)
        /\ Len(toProxy) + 1 \in 1..(Len(toProxy) + 1)
        /\ 1 <= i /\ i <= Len(toProxy) + 1
    BY <1>2
  <2>4. at(1) <= at(i) /\ at(i) <= at(Len(toProxy) + 1)
    BY <1>3, <2>3
  <2>5. /\ Parsed + 1 <= first /\ first <= toProxy[i].req
        /\ toProxy[i].req <= sent + 1 /\ toProxy[i].req \in Nat
    BY <1>3, <1>6, <2>2, <2>4, RequestNumbers
  <2> HIDE DEF at
  <2> QED BY <1>2, <2>2, <2>5
<1> QED BY <1>1, <1>2, <1>4, <1>5

\* A request with keywords that is not parsed is next, all others are answered,
\* and none is begun behind it.
LEMMA KeyAlone ==
  ASSUME TypeOK, Sending, InLine, Alive, Alone,
         NEW r \in Requests, HasKey(r), Begun(r), r > Parsed
  PROVE  /\ r = Parsed + 1 /\ Len(answered) = Parsed
         /\ Finished = Parsed /\ Passed = Parsed /\ Busy = 0
         /\ Len(toClient) = 0 /\ Len(responses) = 0 /\ Len(pending) = 0
         /\ Len(requests) = 0
         /\ sent <= r /\ ~Begun(r + 1)
         /\ \A q \in Requests : Begun(q) => q <= r
<1>1. /\ Len(answered) \in Nat /\ Parsed \in Nat /\ r \in Nat /\ sent \in Nat
      /\ Len(answered) <= Finished /\ Finished <= Passed /\ Passed <= Parsed
      /\ Finished \in Nat /\ Passed \in Nat
  BY Lengths, Bounds, RequestNumbers
<1>2. r > Len(answered)
  BY <1>1
<1>3. Len(answered) = r - 1 /\ \A q \in Requests : Begun(q) => q <= r
  BY <1>2 DEF Alone
<1>4. r = Parsed + 1 /\ Len(answered) = Parsed
      /\ Finished = Parsed /\ Passed = Parsed
  BY <1>1, <1>3
<1>5. sent <= r
  <2>1. sent = 0 \/ sent \in Requests
    BY RequestNumbers DEF TypeOK
  <2>2. sent \in Requests => Begun(sent)
    BY <1>1 DEF Begun
  <2> QED BY <1>1, <1>3, <2>1, <2>2
<1>6. ~Begun(r + 1)
  <2>1. r + 1 \in Nat \ {0} /\ ~(r + 1 <= r)
    BY <1>1
  <2> QED BY <1>3, <2>1, BegunRequests
<1>7. /\ Busy = 0 /\ Len(toClient) = 0 /\ Len(responses) = 0
      /\ Len(pending) = 0 /\ Len(requests) = 0
  <2>1. /\ Len(answered) \in Nat /\ Len(toClient) \in Nat
        /\ Len(responses) \in Nat /\ Len(pending) \in Nat
        /\ Len(requests) \in Nat /\ Busy \in Nat
    BY Lengths
  <2>2. /\ Finished = Len(answered) + Len(toClient) + Len(responses)
        /\ Passed = Finished + Busy + Len(pending)
        /\ Parsed = Passed + Len(requests)
    BY DEF Finished, Passed, Parsed
  <2> QED BY ONLY <1>1, <1>4, <2>1, <2>2
<1> QED BY <1>3, <1>4, <1>5, <1>6, <1>7

\* The requests written to the server come from the script.
LEMMA ForwardedRequests ==
  ASSUME TypeOK
  PROVE  /\ Range(forwarded) = {forwarded[i] : i \in 1..Len(forwarded)}
         /\ Range(forwarded) \subseteq Requests
<1>1. forwarded \in Seq(Requests) /\ DOMAIN forwarded = 1..Len(forwarded)
  BY LenProperties DEF TypeOK
<1>2. Range(forwarded) = {forwarded[i] : i \in 1..Len(forwarded)}
  BY <1>1 DEF Range
<1>3. Range(forwarded) \subseteq Requests
  BY <1>1, <1>2, ElementOfSeq
<1> QED BY <1>2, <1>3

\* What the client has written, and the verdicts, when no queue moves.
LEMMA KStays ==
  ASSUME TypeOK, KInv, Alive' => Alive, Readable',
         UNCHANGED <<lineVars, sentParts, fromServer, toServer, forwarded,
                     blocked>>,
         closed \subseteq closed'
  PROVE  KInv'
<1> USE DEF lineVars, responseVars
<1>1. Finished' = Finished /\ Passed' = Passed /\ Parsed' = Parsed
  BY DEF Finished, Passed, Parsed, Busy
<1>2. Alone'
  BY DEF KInv, Alone, Begun
<1>3. AnswersRight' /\ BlockedNotForwarded'
  BY DEF KInv, AnswersRight, BlockedNotForwarded
<1>5. ASSUME Alive' PROVE (PartsBegun /\ RepliesInLine /\ VerdictsKept)'
  <2>1. PartsBegun /\ RepliesInLine /\ VerdictsKept
    BY <1>5 DEF KInv
  <2>2. PartsBegun'
    BY <2>1 DEF PartsBegun, Begun
  <2>5. RepliesInLine'
    BY <1>1, <2>1 DEF RepliesInLine
  <2>6. VerdictsKept'
    BY <1>1, <2>1 DEF VerdictsKept
  <2> QED BY <2>2, <2>5, <2>6
<1> QED BY <1>2, <1>3, <1>5 DEF KInv

\* The steps between two callbacks, and around the connection.
LEMMA AroundKInv ==
  ASSUME IInv, KInv,
         \/ Poll \/ \E a \in Callbacks : PassOver(a) \/ Throws(a)
         \/ ClientEof
         \/ \E p \in {"client", "server"} : Close(p) \/ Reset(p)
         \/ RefuseRequests \/ OtherConnection
  PROVE  KInv'
<1>1. TypeOK
  BY DEF IInv
<1>2. /\ Alive' => Alive
      /\ UNCHANGED <<lineVars, sentParts, fromServer, toServer, forwarded,
                     blocked>>
      /\ closed \subseteq closed'
      /\ pc' = "serverIn" =>
           UNCHANGED <<pc, todo>> \/ todo' = Interested \cap Ready
  <2> USE DEF lineVars, clientVars, requestVars, serverVars, responseVars,
              peerVars, recordVars, historyVars, loopVars
  <2>1. CASE Poll
    BY <2>1 DEF Poll, Alive
  <2>2. ASSUME NEW a \in Callbacks, PassOver(a) \/ Throws(a)
        PROVE  <1>2!:
    BY <2>2 DEF PassOver, Throws, Runs, Alive, After, Callbacks
  <2>3. CASE ClientEof
    BY <2>3 DEF ClientEof, Runs, Alive
  <2>4. ASSUME NEW p \in {"client", "server"}, Close(p) \/ Reset(p)
        PROVE  <1>2!:
    BY <2>4 DEF Close, Reset, Alive
  <2>5. CASE OtherConnection
    BY <2>5 DEF OtherConnection, Alive
  <2>6. CASE RefuseRequests
    BY <2>6 DEF RefuseRequests, Alive
  <2> QED BY <2>1, <2>2, <2>3, <2>4, <2>5, <2>6
<1>3. Readable'
  <2>1. "serverIn" \in Ready => fromServer # << >> \/ "server" \in closed
    BY DEF Ready
  <2> QED BY <1>2, <2>1 DEF KInv, Readable
<1> QED BY <1>1, <1>2, <1>3, KStays

\* A socket does not cease to be readable by itself.
LEMMA ReadableStays ==
  ASSUME Readable, UNCHANGED <<pc, todo, fromServer, closed>> \/ pc' # "serverIn"
  PROVE  Readable'
BY DEF Readable

\* Right responses stay so from queue to queue, and when more are blocked.
LEMMA RightAppend ==
  ASSUME NEW S, NEW s \in Seq(S), NEW x \in S, NEW b, NEW c, b \subseteq c,
         AllRight(s, b), Right(x, c)
  PROVE  AllRight(Append(s, x), c)
<1>1. /\ Len(s) \in Nat /\ Len(Append(s, x)) = Len(s) + 1
      /\ \A i \in 1..Len(s) : Append(s, x)[i] = s[i]
      /\ Append(s, x)[Len(s) + 1] = x
  BY AppendProperties, LenProperties
<1>2. \A i \in 1..Len(s) : Right(s[i], c)
  BY DEF AllRight, Right
<1>3. \A i \in 1..(Len(s) + 1) : i \in 1..Len(s) \/ i = Len(s) + 1
  BY <1>1
<1> QED BY <1>1, <1>2, <1>3 DEF AllRight

\* The first of them, and the rest.
LEMMA RightTail ==
  ASSUME NEW S, NEW s \in Seq(S), s # << >>, NEW b, AllRight(s, b)
  PROVE  Right(Head(s), b) /\ AllRight(Tail(s), b)
<1>1. /\ Len(s) \in Nat \ {0} /\ Head(s) = s[1]
      /\ Len(Tail(s)) = Len(s) - 1
      /\ \A i \in 1..Len(Tail(s)) : Tail(s)[i] = s[i + 1]
  BY HeadTailProperties, LenProperties, EmptySeq
<1>2. \A i \in 1..(Len(s) - 1) : i + 1 \in 1..Len(s)
  BY <1>1
<1> QED BY <1>1, <1>2 DEF AllRight

\* What is on its way from the client is not touched by the other three
\* callbacks.
LEMMA ClientSideStays ==
  ASSUME PartsBegun, UNCHANGED <<toProxy, sent, sentParts>>
  PROVE  PartsBegun'
BY DEF PartsBegun, Begun

\* A response that arrives may leave a request with keywords to be sent.
LEMMA ClientReceiveKInv ==
  ASSUME IInv, KInv, ClientReceive
  PROVE  KInv'
<1> DEFINE h == Head(toClient)
<1>1. /\ UNCHANGED <<loopVars, toProxy, sentParts, sent, requestVars, serverVars,
                     responseVars, peerVars, quotaVars, historyVars>>
      /\ toClient # << >>
      /\ answered' = Append(answered, h) /\ toClient' = Tail(toClient)
  BY DEF ClientReceive
<1>2. /\ answered \in Seq(Response) /\ toClient \in Seq(Response) /\ TypeOK
      /\ Len(answered) \in Nat /\ Len(toClient) \in Nat
      /\ Len(responses) \in Nat
  BY Lengths DEF IInv, TypeOK
<1>3. h \in Response /\ Len(Tail(toClient)) = Len(toClient) - 1
  BY <1>1, <1>2, HeadTailProperties
<1>4. AnswersRight'
  <2>1. Right(h, blocked) /\ AllRight(Tail(toClient), blocked)
    BY <1>1, <1>2, RightTail DEF KInv, AnswersRight
  <2>2. AllRight(Append(answered, h), blocked)
    <3> HIDE DEF h
    <3> QED BY <1>2, <1>3, <2>1, RightAppend DEF KInv, AnswersRight
  <2> QED BY <1>1, <2>1, <2>2 DEF KInv, AnswersRight, historyVars, recordVars,
        responseVars
<1> HIDE DEF h
<1>5. Len(answered') = Len(answered) + 1 /\ Len(toClient') = Len(toClient) - 1
  BY <1>1, <1>2, <1>3, AppendProperties
<1>6. Finished' = Finished
  BY <1>1, <1>2, <1>5 DEF Finished, responseVars
<1>7. Passed' = Passed /\ Parsed' = Parsed
  BY <1>1, <1>6 DEF Passed, Parsed, Busy, responseVars, requestVars
<1>8. Alone'
  <2> SUFFICES ASSUME NEW r \in Requests, HasKey(r), Begun(r)',
                      r > Len(answered')
               PROVE  FALSE
    BY DEF Alone
  <2>1. Begun(r) /\ r \in Nat
    BY <1>1, RequestNumbers DEF Begun
  <2>2. r > Len(answered)
    BY <1>2, <1>5, <2>1
  <2>3. Len(answered) = r - 1
    BY <2>1, <2>2 DEF KInv, Alone
  <2> QED BY <1>2, <1>5, <2>1, <2>3
<1>9. Readable'
  BY <1>1, ReadableStays DEF KInv, loopVars, serverVars, peerVars
<1>10. BlockedNotForwarded'
  BY <1>1 DEF KInv, BlockedNotForwarded, historyVars, recordVars
<1>11. ASSUME Alive' PROVE (PartsBegun /\ RepliesInLine /\ VerdictsKept)'
  <2>1. PartsBegun /\ RepliesInLine /\ VerdictsKept
    BY <1>1, <1>11 DEF KInv, Alive, loopVars
  <2> USE <1>1, <1>6, <1>7 DEF serverVars, responseVars, peerVars, quotaVars,
      historyVars, recordVars
  <2>2. PartsBegun'
    BY <2>1, ClientSideStays
  <2>3. RepliesInLine'
    BY <2>1 DEF RepliesInLine
  <2>4. VerdictsKept'
    BY <2>1 DEF VerdictsKept
  <2> QED BY <2>2, <2>3, <2>4
<1> QED BY <1>4, <1>8, <1>9, <1>10, <1>11 DEF KInv

\* The server answers in the order the requests were written to it.
LEMMA ServerReplyKInv ==
  ASSUME IInv, KInv, ServerReply
  PROVE  KInv'
<1> DEFINE r == Head(toServer)
           k == replied + 1
           part == Replies[r][k]
           end == k = Len(Replies[r])
           f == [src |-> r, ids |-> part.ids, toEof |-> part.toEof,
                 end |-> end /\ ~part.toEof]
<1>1. /\ UNCHANGED <<loopVars, clientVars, requestVars, responseVars, toClient,
                     reset, quotaVars, historyVars>>
      /\ toServer # << >> /\ "server" \notin closed
      /\ fromServer' = Append(fromServer, f)
      /\ toServer' = IF end THEN Tail(toServer) ELSE toServer
      /\ closed' = IF end /\ part.toEof THEN closed \cup {"server"} ELSE closed
  BY DEF ServerReply
<1>2. /\ TypeOK /\ toServer \in Seq(Requests) /\ fromServer \in Seq(ServerPart)
      /\ replied \in Nat /\ Len(toServer) \in Nat /\ Passed \in Nat
      /\ Len(fromServer) \in Nat /\ Finished \in Nat
  BY Lengths, LenProperties DEF IInv, TypeOK, ServerPart
<1>3. /\ r \in Requests /\ Tail(toServer) \in Seq(Requests)
      /\ Len(Tail(toServer)) = Len(toServer) - 1 /\ r \in Nat
  BY <1>1, <1>2, HeadTailProperties, RequestNumbers
<1>4. f \in ServerPart /\ f.src = r /\ f.end = (end /\ ~part.toEof)
  <2>1. replied < Len(Replies[r])
    BY <1>1 DEF IInv, Replying
  <2> HIDE DEF r
  <2>2. k \in 1..Len(Replies[r])
    BY <1>2, <1>3, <2>1, PartsOf
  <2>3. part \in ReplyPart
    BY <1>3, <2>2, PartsOf
  <2> HIDE DEF part, end
  <2> QED BY <1>3, <2>3 DEF ServerPart, ReplyPart
<1>5. UNCHANGED <<lineVars, sentParts, forwarded, blocked, granted>>
  BY <1>1 DEF lineVars, clientVars, requestVars, responseVars, historyVars,
     recordVars,
     quotaVars
<1>6. Finished' = Finished /\ Passed' = Passed /\ Parsed' = Parsed
  BY <1>5 DEF Finished, Passed, Parsed, Busy, lineVars, responseVars
<1>7. Alone' /\ AnswersRight' /\ BlockedNotForwarded'
  BY <1>5 DEF KInv, Alone, Begun, AnswersRight, BlockedNotForwarded, lineVars,
     responseVars
<1> HIDE DEF f, r, part, end
<1>8. Readable'
  <2>1. Append(fromServer, f) # << >>
    <3> DEFINE t == Append(fromServer, f)
    <3>1. Len(t) = Len(fromServer) + 1 /\ Len(<< >>) = 0
      BY <1>2, <1>4, AppendProperties, EmptySeq
    <3> HIDE DEF t
    <3>2. t # << >>
      BY <1>2, <3>1
    <3> QED BY <3>2 DEF t
  <2> QED BY <1>1, <2>1 DEF Readable
<1>9. ASSUME Alive' PROVE (PartsBegun /\ RepliesInLine /\ VerdictsKept)'
  <2>1. PartsBegun /\ RepliesInLine /\ VerdictsKept
    BY <1>1, <1>9 DEF KInv, Alive, loopVars
  <2>2. PartsBegun'
    BY <1>5, <1>6, <2>1, ClientSideStays DEF lineVars
  <2>3. VerdictsKept'
    BY <1>5, <1>6, <2>1 DEF VerdictsKept
  <2>4. RepliesInLine'
    <3> DEFINE b == Passed - Len(toServer)
    <3>1. /\ Run(SrcNo, fromServer, Finished + 1, b + 1) /\ From(toServer, b)
          /\ \A i \in 1..Len(fromServer) : fromServer[i].src <= Passed
          /\ Matched(current)
      BY <1>1, <2>1 DEF RepliesInLine, Matched
    <3>2. b \in Int /\ Finished + 1 \in Int
      BY <1>2
    <3> HIDE DEF b
    <3>3. r = b + 1 /\ From(Tail(toServer), b + 1)
      BY <1>1, <1>2, <3>1, <3>2, FromTail DEF r
    <3>4. SrcNo[f] = b + 1
      BY <1>4, <3>3 DEF SrcNo
    <3>5. Run(SrcNo, Append(fromServer, f), Finished + 1, b + 1 + Inc(f))
      <4>1. Run(SrcNo, fromServer, Finished + 1, SrcNo[f])
        BY <3>1, <3>4
      <4>2. Run(SrcNo, Append(fromServer, f), Finished + 1, SrcNo[f] + Inc(f))
        BY <1>2, <1>4, <3>2, <4>1, RunAppend, RequestNumbers
      <4> QED BY <3>4, <4>2
    <3>6. ASSUME NEW i \in 1..Len(fromServer') PROVE fromServer'[i].src <= Passed
      <4>1. /\ Len(fromServer') = Len(fromServer) + 1
            /\ \A j \in 1..Len(fromServer) : fromServer'[j] = fromServer[j]
            /\ fromServer'[Len(fromServer) + 1] = f
        BY <1>1, <1>2, <1>4, AppendProperties
      <4>2. f.src <= Passed
        <5>1. Len(toServer) \in Nat \ {0}
          BY <1>1, <1>2, EmptySeq
        <5> QED BY <1>2, <1>4, <3>3, <5>1 DEF b
      <4>3. i \in 1..Len(fromServer) \/ i = Len(fromServer) + 1
        BY <1>2, <4>1
      <4> QED BY <3>1, <4>1, <4>2, <4>3
    <3> DEFINE next == b + 1 + Inc(f)
    <3>7. next \in Nat
      <4>1. b + 1 \in Nat
        BY <1>3, <3>3
      <4>2. Inc(f) \in Nat
        BY DEF Inc
      <4> QED BY <4>1, <4>2
    <3>8. ASSUME "server" \notin closed'
          PROVE  /\ next = Passed - Len(toServer') + 1
                 /\ From(toServer', Passed - Len(toServer'))
      <4>1. CASE end
        <5>1. f.end /\ toServer' = Tail(toServer)
          BY <1>1, <1>4, <3>8, <4>1
        <5>2. Passed - Len(toServer') = b + 1
          BY <1>2, <1>3, <5>1 DEF b
        <5>3. next = b + 1 + 1
          BY <5>1 DEF Inc
        <5> HIDE DEF next
        <5> QED BY <3>3, <5>1, <5>2, <5>3
      <4>2. CASE ~end
        <5>1. ~f.end /\ toServer' = toServer
          BY <1>1, <1>4, <4>2
        <5>2. Passed - Len(toServer') = b
          BY <5>1 DEF b
        <5>3. next = b + 1
          BY <3>2, <5>1 DEF Inc
        <5> HIDE DEF next
        <5> QED BY <3>1, <5>1, <5>2, <5>3
      <4> QED BY <4>1, <4>2
    <3>9. Matched(current')
      BY <1>5, <3>1 DEF lineVars, responseVars
    <3> HIDE DEF next
    <3>10. Run(SrcNo, fromServer', Finished' + 1, next)
      BY <1>1, <1>6, <3>5 DEF next
    <3> QED BY <1>6, <3>6, <3>7, <3>8, <3>9, <3>10 DEF RepliesInLine, Matched
  <2> QED BY <2>2, <2>3, <2>4
<1> QED BY <1>7, <1>8, <1>9 DEF KInv

\* A request that leaves request_parser was let pass, and not blocked.
LEMMA ServerWriteKInv ==
  ASSUME IInv, KInv, ServerWrite
  PROVE  KInv'
<1> DEFINE h == Head(requests)
<1>1. /\ UNCHANGED <<todo, errs, eofs, clientVars, partial, lacking, replied,
                     fromServer, current, responses, toClient, peerVars,
                     quotaVars, blocked, saved>>
      /\ pc = "serverOut" /\ pc' \in {"crashed", "clientOut"}
  BY DEF ServerWrite, Runs
<1>2. TypeOK /\ Alive /\ InLine /\ TypeOK'
  BY <1>1, ServerWriteIInv DEF IInv, Alive
<1>3. PartsBegun /\ RepliesInLine /\ VerdictsKept
  BY <1>2 DEF KInv
<1>4. Readable'
  BY <1>1, ReadableStays DEF KInv
<1>5. Alone' /\ AnswersRight'
  BY <1>1 DEF KInv, Alone, Begun, AnswersRight, clientVars
<1>6. CASE requests = << >>
  <2>1. pc' = "crashed" /\ forwarded' = forwarded
    BY <1>6 DEF ServerWrite
  <2>2. BlockedNotForwarded' /\ ~Alive'
    BY <1>1, <2>1 DEF KInv, BlockedNotForwarded,
       quotaVars, Alive
  <2> QED BY <1>4, <1>5, <2>2 DEF KInv
<1>7. CASE requests # << >>
  <2>1. /\ toServer' = Append(toServer, h) /\ pending' = Append(pending, h)
        /\ requests' = Tail(requests) /\ forwarded' = Append(forwarded, h)
    BY <1>7 DEF ServerWrite
  <2>2. /\ requests \in Seq(Requests) /\ pending \in Seq(Requests)
        /\ toServer \in Seq(Requests) /\ forwarded \in Seq(Requests)
        /\ Passed \in Nat /\ Finished \in Nat /\ Finished <= Passed
        /\ Len(pending) \in Nat /\ Len(requests) \in Nat /\ Busy \in {0, 1}
        /\ Len(toServer) \in Nat /\ Len(forwarded) \in Nat
    BY <1>2, Lengths, Bounds, LenProperties DEF TypeOK
  <2>3. /\ h \in Requests /\ Len(Tail(requests)) = Len(requests) - 1
        /\ h = Passed + 1
    <3>1. From(requests, Passed)
      BY <1>2 DEF InLine, Numbered
    <3> QED BY <1>7, <2>2, <3>1, FromTail
  <2> HIDE DEF h
  <2>4. /\ Len(pending') = Len(pending) + 1
        /\ Len(toServer') = Len(toServer) + 1
        /\ Len(forwarded') = Len(forwarded) + 1
        /\ \A i \in 1..Len(forwarded) : forwarded'[i] = forwarded[i]
        /\ forwarded'[Len(forwarded) + 1] = h
    BY <2>1, <2>2, <2>3, AppendProperties
  <2>5. Finished' = Finished /\ Busy' = Busy
    BY <1>1 DEF Finished, Busy, clientVars
  <2>6. Passed' = Passed + 1 /\ Parsed' = Parsed
    <3>1. Passed' = Finished + Busy + (Len(pending) + 1)
      BY <2>4, <2>5 DEF Passed
    <3>2. Passed' = Passed + 1
      BY <2>2, <3>1 DEF Passed
    <3>3. Parsed' = Passed' + (Len(requests) - 1)
      BY <2>1, <2>3 DEF Parsed
    <3>4. Parsed = Passed + Len(requests)
      BY DEF Parsed
    <3> QED BY ONLY <2>2, <3>2, <3>3, <3>4
  <2>7. PartsBegun'
    BY <1>1, <1>3, <2>6, ClientSideStays DEF clientVars, quotaVars
  <2>8. VerdictsKept'
    <3>1. \A r \in blocked' : r <= Finished'
      BY <1>1, <1>3, <2>5 DEF VerdictsKept
    <3>2. ASSUME NEW i \in 1..Len(forwarded') PROVE forwarded'[i] <= Passed'
      <4>1. CASE i \in 1..Len(forwarded)
        <5>1. forwarded[i] <= Passed /\ forwarded[i] \in Nat
          BY <1>3, <2>2, <4>1, ElementOfSeq, RequestNumbers DEF VerdictsKept
        <5> QED BY <2>2, <2>4, <2>6, <4>1, <5>1
      <4>2. CASE i = Len(forwarded) + 1
        BY <2>2, <2>3, <2>4, <2>6, <4>2
      <4> QED BY <2>2, <2>4, <4>1, <4>2
    <3> QED BY <3>1, <3>2 DEF VerdictsKept
  <2>9. RepliesInLine'
    <3>1. PICK next \in Nat :
            /\ Run(SrcNo, fromServer, Finished + 1, next)
            /\ "server" \notin closed =>
                 /\ next = Passed - Len(toServer) + 1
                 /\ From(toServer, Passed - Len(toServer))
      BY <1>3 DEF RepliesInLine
    <3>2. Passed' - Len(toServer') = Passed - Len(toServer)
      BY <2>2, <2>4, <2>6
    <3>3. "server" \notin closed' =>
            /\ next = Passed' - Len(toServer') + 1
            /\ From(toServer', Passed' - Len(toServer'))
      <4>1. SUFFICES ASSUME "server" \notin closed
                     PROVE  From(Append(toServer, h), Passed - Len(toServer))
        BY <1>1, <2>1, <3>1, <3>2 DEF peerVars
      <4> DEFINE b == Passed - Len(toServer)
      <4>2. b \in Int /\ h = b + Len(toServer) + 1
        BY <2>2, <2>3
      <4>3. From(toServer, b)
        BY <3>1, <4>1
      <4> HIDE DEF b
      <4>4. From(Append(toServer, h), b)
        BY <2>2, <2>3, <4>2, <4>3, FromAppend
      <4> QED BY <4>4 DEF b
    <3>4. \A i \in 1..Len(fromServer') : fromServer'[i].src <= Passed'
      <4> SUFFICES ASSUME NEW i \in 1..Len(fromServer)
                   PROVE  fromServer[i].src <= Passed + 1
        BY <1>1, <2>6
      <4>1. fromServer \in Seq(ServerPart)
        BY <1>2 DEF TypeOK, ServerPart
      <4>2. fromServer[i] \in ServerPart
        BY <4>1, ElementOfSeq
      <4>3. fromServer[i].src \in Nat
        BY <4>2, RequestNumbers DEF ServerPart
      <4>4. fromServer[i].src <= Passed
        BY <1>3 DEF RepliesInLine
      <4> DEFINE x == fromServer[i].src
      <4> HIDE DEF x
      <4>5. x \in Nat /\ x <= Passed
        BY <4>3, <4>4 DEF x
      <4>6. x <= Passed + 1
        BY <2>2, <4>5
      <4> QED BY <4>6 DEF x
    <3>5. Run(SrcNo, fromServer', Finished' + 1, next)
      BY <1>1, <2>5, <3>1
    <3>6. Matched(current')
      BY <1>1, <1>3 DEF RepliesInLine, Matched
    <3> QED BY <3>3, <3>4, <3>5, <3>6 DEF RepliesInLine, Matched
  <2>10. BlockedNotForwarded'
    <3>1. DOMAIN forwarded' = 1..(Len(forwarded) + 1)
      <4>1. forwarded' \in Seq(Requests)
        BY <1>2 DEF TypeOK
      <4> QED BY <2>4, <4>1, LenProperties
    <3>2. ASSUME NEW i \in 1..(Len(forwarded) + 1)
          PROVE  forwarded'[i] \notin blocked
      <4>1. CASE i \in 1..Len(forwarded)
        BY <1>2, <2>4, <4>1, ForwardedRequests DEF KInv, BlockedNotForwarded
      <4>2. CASE i = Len(forwarded) + 1
        <5>1. forwarded'[i] = Passed + 1
          BY <2>3, <2>4, <4>2
        <5>2. Passed + 1 \in blocked => Passed + 1 <= Finished
          BY <1>3 DEF VerdictsKept
        <5> QED BY <2>2, <5>1, <5>2
      <4> QED BY <2>2, <4>1, <4>2
    <3> QED BY <1>1, <3>1, <3>2 DEF BlockedNotForwarded, Range
  <2> QED BY <1>4, <1>5, <2>7, <2>8, <2>9, <2>10 DEF KInv
<1> QED BY <1>6, <1>7

\* A right response goes to the client.
LEMMA ClientWriteKInv ==
  ASSUME IInv, KInv, ClientWrite
  PROVE  KInv'
<1> DEFINE h == Head(responses)
<1>1. /\ UNCHANGED <<todo, errs, eofs, clientVars, requestVars, serverVars,
                     pending, current, peerVars, quotaVars, forwarded, blocked>>
      /\ pc = "clientOut" /\ toClient' = Append(toClient, h)
      /\ pc' \in {"poll", "dead"}
      /\ pc' = "poll" => responses' = Tail(responses)
      /\ pc' = "dead" => responses' = responses
      /\ responses # << >>
  <2>1. responses # << >>
    BY DEF ClientWrite, Runs, IInv, Offered, InCallbacks
  <2> QED BY <2>1 DEF ClientWrite, Runs
<1>2. /\ TypeOK /\ Alive /\ responses \in Seq(Response)
      /\ toClient \in Seq(Response)
      /\ Len(answered) \in Nat /\ Len(toClient) \in Nat
      /\ Len(responses) \in Nat
  BY <1>1, Lengths DEF IInv, TypeOK, Alive
<1>3. PartsBegun /\ RepliesInLine /\ VerdictsKept
  BY <1>2 DEF KInv
<1>4. Readable'
  BY <1>1, ReadableStays DEF KInv
<1>5. Alone' /\ BlockedNotForwarded'
  BY <1>1 DEF KInv, Alone, Begun, BlockedNotForwarded,
     clientVars, quotaVars
<1>6. h \in Response /\ Len(Tail(responses)) = Len(responses) - 1
  BY <1>1, <1>2, HeadTailProperties
<1>7. AnswersRight'
  <2>1. Right(h, blocked) /\ AllRight(Tail(responses), blocked)
    BY <1>1, <1>2, RightTail DEF KInv, AnswersRight
  <2>2. AllRight(Append(toClient, h), blocked)
    <3> HIDE DEF h
    <3> QED BY <1>2, <1>6, <2>1, RightAppend DEF KInv, AnswersRight
  <2> QED BY <1>1, <2>1, <2>2 DEF KInv, AnswersRight, clientVars
<1> HIDE DEF h
<1>8. ASSUME Alive' PROVE (PartsBegun /\ RepliesInLine /\ VerdictsKept)'
  <2>1. /\ Len(toClient') = Len(toClient) + 1
        /\ Len(responses') = Len(responses) - 1
    BY <1>1, <1>2, <1>6, <1>8, AppendProperties DEF Alive
  <2>2. Finished' = Finished
    BY <1>1, <1>2, <2>1 DEF Finished, clientVars
  <2>3. Passed' = Passed /\ Parsed' = Parsed
    BY <1>1, <2>2 DEF Passed, Parsed, Busy, requestVars
  <2>4. PartsBegun'
    BY <1>1, <1>3, <2>3, ClientSideStays DEF clientVars, quotaVars
  <2>5. RepliesInLine'
    BY <1>1, <1>3, <2>2, <2>3 DEF RepliesInLine, serverVars, peerVars
  <2>6. VerdictsKept'
    BY <1>1, <1>3, <2>2, <2>3 DEF VerdictsKept
  <2> QED BY <2>4, <2>5, <2>6
<1> QED BY <1>4, <1>5, <1>7, <1>8 DEF KInv

\* A reply that the end of the stream completes is the right one.
LEMMA ServerEofKInv ==
  ASSUME IInv, KInv, ServerEof
  PROVE  KInv'
<1> DEFINE m == [req |-> current.req, src |-> current.src]
<1>1. /\ UNCHANGED <<todo, errs, clientVars, requestVars, serverVars, toClient,
                     peerVars, quotaVars, historyVars, pending>>
      /\ pc = "serverIn" /\ pc' \in {"clientIn", "dead"}
      /\ fromServer = << >> /\ "serverIn" \in todo
      /\ \/ current' = current /\ responses' = responses
         \/ /\ current # NoMessage /\ current' = NoMessage
            /\ responses' = Append(responses, m)
  BY DEF ServerEof, Runs, responseVars
<1>2. /\ TypeOK /\ Alive /\ responses \in Seq(Response) /\ Finished \in Nat
      /\ Len(answered) \in Nat /\ Len(toClient) \in Nat
      /\ Len(responses) \in Nat /\ Len(pending) \in Nat /\ Passed \in Nat
  BY <1>1, Lengths DEF IInv, TypeOK, Alive
<1>3. PartsBegun /\ RepliesInLine /\ VerdictsKept
  BY <1>2 DEF KInv
<1>4. Readable'
  BY <1>1, ReadableStays DEF KInv
<1>5. Alone' /\ BlockedNotForwarded'
  BY <1>1 DEF KInv, Alone, Begun, BlockedNotForwarded,
     clientVars, quotaVars, historyVars, recordVars
<1>6. CASE current' = current /\ responses' = responses
  <2>1. UNCHANGED <<lineVars, sentParts, fromServer, toServer, forwarded,
                    blocked>>
    BY <1>1, <1>6 DEF lineVars, clientVars, requestVars, responseVars,
       serverVars, historyVars, recordVars
  <2>2. closed \subseteq closed' /\ granted' = granted
    BY <1>1 DEF peerVars, quotaVars
  <2>3. granted \in Nat /\ granted <= granted
    BY <1>2, LimitAssumption DEF TypeOK
  <2>4. Alive' => Alive
    BY <1>2
  <2> QED BY <1>2, <1>4, <2>1, <2>2, <2>3, <2>4, KStays
<1>7. CASE /\ current # NoMessage /\ current' = NoMessage
           /\ responses' = Append(responses, m)
  <2>1. /\ m \in Response /\ Right(m, blocked)
    <3>1. current.src = current.req
      BY <1>3, <1>7 DEF RepliesInLine
    <3>2. current \in InReply
      BY <1>2 DEF TypeOK, InReply
    <3> QED BY <1>7, <3>1, <3>2 DEF InReply, Response, Right
  <2> HIDE DEF m
  <2>2. AnswersRight'
    <3>1. AllRight(Append(responses, m), blocked)
      BY <1>2, <2>1, RightAppend DEF KInv, AnswersRight
    <3> QED BY <1>1, <1>7, <3>1 DEF KInv, AnswersRight, clientVars,
          historyVars, recordVars
  <2>3. Len(responses') = Len(responses) + 1
    BY <1>2, <1>7, <2>1, AppendProperties
  <2>4. Finished' = Finished + 1
    BY <1>1, <1>2, <2>3 DEF Finished, clientVars
  <2>5. Passed' = Passed /\ Parsed' = Parsed
    <3>1. Busy = 1 /\ Busy' = 0
      BY <1>7 DEF Busy
    <3>2. Passed' = Passed
      BY <1>1, <1>2, <2>4, <3>1 DEF Passed
    <3> QED BY <1>1, <3>2 DEF Parsed, requestVars
  <2>6. PartsBegun'
    BY <1>1, <1>3, <2>5, ClientSideStays DEF clientVars, quotaVars,
       historyVars, recordVars
  <2>7. VerdictsKept'
    <3>1. ASSUME NEW r \in blocked PROVE r <= Finished + 1
      <4>1. r \in Requests /\ r <= Finished
        BY <1>2, <1>3 DEF TypeOK, VerdictsKept
      <4> QED BY <1>2, <4>1, RequestNumbers
    <3> QED BY <1>1, <1>3, <2>4, <2>5, <3>1 DEF VerdictsKept, historyVars,
          recordVars
  <2>8. RepliesInLine'
    <3>1. "server" \in closed'
      BY <1>1 DEF KInv, Readable, peerVars
    <3>2. fromServer' = << >> /\ Len(<< >>) = 0
      BY <1>1, EmptySeq DEF serverVars
    <3>3. Finished' + 1 \in Nat
      BY <1>2, <2>4
    <3>4. Run(SrcNo, << >>, Finished' + 1, Finished' + 1)
      <4> DEFINE x == Finished' + 1
      <4>1. x \in Nat
        BY <3>3
      <4> HIDE DEF x
      <4>2. Run(SrcNo, << >>, x, x)
        BY <3>2, <4>1 DEF Run, At
      <4> QED BY <4>2 DEF x
    <3> QED BY <1>7, <3>1, <3>2, <3>3, <3>4 DEF RepliesInLine
  <2> QED BY <1>4, <1>5, <2>2, <2>6, <2>7, <2>8 DEF KInv
<1> QED BY <1>1, <1>6, <1>7

\* Replies that a buffer completes are matched to their requests.
LEMMA ServerReadKInv ==
  ASSUME IInv, KInv, ServerRead
  PROVE  KInv'
<1>1. PICK n \in 1..Len(fromServer) :
        /\ fromServer' = SubSeq(fromServer, n + 1, Len(fromServer))
        /\ \/ /\ pc' = "dead" /\ UNCHANGED responseVars
              /\ faults' = faults + 1
           \/ LET st == ParseResponses(SubSeq(fromServer, 1, n))
              IN  /\ pc' = IF st.threw THEN "dead" ELSE "clientIn"
                  /\ SetResponses(st) /\ UNCHANGED faults
  BY DEF ServerRead
<1> DEFINE st == ParseResponses(SubSeq(fromServer, 1, n))
           rest == SubSeq(fromServer, n + 1, Len(fromServer))
<1>2. /\ UNCHANGED <<todo, errs, eofs, clientVars, requestVars, toServer,
                     replied, toClient, peerVars, quotaVars, recordVars,
                     pipelined>>
      /\ pc = "serverIn" /\ pc' \in {"dead", "clientIn"}
  BY <1>1 DEF ServerRead, Runs
<1>3. /\ TypeOK /\ Alive /\ responses \in Seq(Response) /\ Finished \in Nat
      /\ Len(answered) \in Nat /\ Len(toClient) \in Nat
      /\ Len(responses) \in Nat /\ Len(pending) \in Nat /\ Passed \in Nat
      /\ fromServer \in Seq(ServerPart) /\ Numbered
  BY <1>2, Lengths DEF IInv, TypeOK, Alive, ServerPart, InLine
<1>4. PartsBegun /\ RepliesInLine /\ VerdictsKept
  BY <1>3 DEF KInv
<1>5. Readable'
  BY <1>2, ReadableStays DEF KInv
<1>6. Alone' /\ BlockedNotForwarded'
  BY <1>2 DEF KInv, Alone, Begun, BlockedNotForwarded,
     clientVars, quotaVars, historyVars, recordVars
<1>7. PICK next \in Nat :
        /\ Run(SrcNo, fromServer, Finished + 1, next)
        /\ "server" \notin closed =>
             /\ next = Passed - Len(toServer) + 1
             /\ From(toServer, Passed - Len(toServer))
  BY <1>4 DEF RepliesInLine
<1> DEFINE a == Len(answered) + Len(toClient)
           atn == At(SrcNo, fromServer, next, n + 1)
<1>8. /\ st \in ParseState /\ Kept(st, responses)
      /\ ~st.threw => StateNumbered(st, a, Passed)
      /\ InStep(st, responses, a, atn)
  <2>1. /\ ResponseState \in ParseState /\ ~ResponseState.threw
        /\ ResponseState.done = responses /\ ResponseState.current = current
        /\ a \in Nat /\ Passed \in Int
        /\ StateNumbered(ResponseState, a, Passed)
    BY <1>3, StateOf
  <2>2. Matched(current) /\ Run(SrcNo, fromServer, a + Len(responses) + 1, next)
    BY <1>4, <1>7 DEF RepliesInLine, Matched, Finished
  <2> DEFINE st0 == ResponseState
  <2> HIDE DEF a, st0
  <2>3. st = FoldLeft(ParsePart, st0, SubSeq(fromServer, 1, n)) /\ next \in Int
    BY <1>7 DEF ParseResponses, st0
  <2> HIDE DEF st
  <2>4. /\ st \in ParseState /\ Kept(st, st0.done)
        /\ ~st.threw => StateNumbered(st, a, Passed)
        /\ Matched(st0.current)
             /\ Run(SrcNo, fromServer, a + Len(st0.done) + 1, next) =>
             InStep(st, st0.done, a, At(SrcNo, fromServer, next, n + 1))
    <3>1. st0 \in ParseState /\ ~st0.threw /\ StateNumbered(st0, a, Passed)
      BY <2>1 DEF st0
    <3>2. a \in Nat /\ Passed \in Int
      BY <2>1
    <3> QED BY ONLY <1>3, <2>3, <3>1, <3>2, n \in 1..Len(fromServer),
               ResponsesParsed
  <2> QED BY <2>1, <2>2, <2>4 DEF st0
<1>9. AllRight(st.done, blocked) /\ st.done \in Seq(Response)
  <2>1. st.done \in Seq(Response)
    BY <1>8 DEF ParseState
  <2> DEFINE l == Len(responses)
             m == Len(st.done)
  <2>2. /\ l \in Nat /\ m \in Nat
        /\ \A j \in 1..l : st.done[j] = responses[j] /\ Right(responses[j], blocked)
        /\ \A j \in (l + 1)..m : st.done[j].src = st.done[j].req
    BY <1>3, <1>8, <2>1, LenProperties DEF Kept, InStep, KInv, AnswersRight,
       AllRight
  <2> HIDE DEF l, m, st
  <2>3. ASSUME NEW j \in 1..m PROVE Right(st.done[j], blocked)
    <3>1. j \in 1..l \/ j \in (l + 1)..m
      BY <2>2
    <3>2. CASE j \in 1..l
      BY <2>2, <3>2
    <3>3. CASE j \in (l + 1)..m
      BY <2>2, <3>3 DEF Right
    <3> QED BY <3>1, <3>2, <3>3
  <2> QED BY <2>1, <2>3 DEF AllRight, m
<1>10. AnswersRight'
  <2> HIDE DEF st
  <2>1. responses' = responses \/ responses' = st.done
    BY <1>1 DEF st, responseVars, SetResponses
  <2> QED BY <1>2, <1>9, <2>1 DEF KInv, AnswersRight, clientVars, historyVars,
        recordVars
<1>11. ASSUME Alive' PROVE (PartsBegun /\ RepliesInLine /\ VerdictsKept)'
  <2>1. SetResponses(st) /\ ~st.threw
    BY <1>1, <1>11 DEF Alive
  <2>2. IInv'
    BY ServerReadIInv
  <2> HIDE DEF st
  <2>3. /\ pending' = st.pending /\ current' = st.current
        /\ responses' = st.done
    BY <2>1 DEF SetResponses
  <2>4. Finished' = a + Len(st.done)
    BY <1>2, <2>3 DEF Finished, clientVars
  <2>5. Finished <= Finished' /\ Finished' \in Nat
    <3>1. Len(responses) <= Len(st.done) /\ Len(st.done) \in Nat
      BY <1>8, <1>9, LenProperties DEF Kept
    <3> DEFINE x == Len(st.done)
    <3> HIDE DEF x
    <3>2. x \in Nat /\ Len(responses) <= x /\ Finished' = a + x
      BY <2>4, <3>1 DEF x
    <3>3. Finished = a + Len(responses) /\ a \in Nat
      BY <1>3 DEF Finished
    <3> HIDE DEF a
    <3> QED BY <1>3, <3>2, <3>3
  <2>6. Passed' = Passed
    <3>1. Started(st) = Busy'
      BY <2>3 DEF Started, Busy
    <3> QED BY <1>8, <2>1, <2>3, <2>4, <3>1 DEF StateNumbered, Passed
  <2>7. Parsed' = Parsed
    BY <1>2, <2>6 DEF Parsed, requestVars
  <2>8. PartsBegun'
    BY <1>2, <1>4, <2>7, ClientSideStays DEF clientVars, quotaVars,
       historyVars, recordVars
  <2>9. VerdictsKept'
    <3>1. ASSUME NEW r \in blocked PROVE r <= Finished'
      <4>1. r \in Requests /\ r <= Finished
        BY <1>3, <1>4 DEF TypeOK, VerdictsKept
      <4>2. r \in Nat
        BY <4>1, RequestNumbers
      <4> QED BY <1>3, <2>5, <4>1, <4>2
    <3> QED BY <1>2, <1>4, <2>6, <3>1 DEF VerdictsKept, historyVars, recordVars
  <2>10. RepliesInLine'
    <3>1. Matched(current') /\ atn = Finished' + 1
      BY <1>8, <2>1, <2>3, <2>4 DEF InStep
    <3>2. Run(SrcNo, rest, atn, next)
      <4>1. Finished + 1 \in Int /\ next \in Int
        BY <1>3, <1>7
      <4> QED BY <1>3, <1>7, <4>1, RunDrop, RequestNumbers
    <3>3. /\ Len(rest) = Len(fromServer) - n
          /\ \A i \in 1..(Len(fromServer) - n) : rest[i] = fromServer[n + i]
          /\ Len(fromServer) \in Nat
      BY <1>3, DropFirst
    <3> HIDE DEF rest, atn
    <3>4. ASSUME NEW i \in 1..Len(rest) PROVE rest[i].src <= Passed
      <4>1. i \in 1..(Len(fromServer) - n) /\ n + i \in 1..Len(fromServer)
        BY <3>3
      <4>2. fromServer[n + i].src <= Passed
        BY <1>4, <4>1 DEF RepliesInLine
      <4> QED BY <3>3, <4>1, <4>2
    <3>5. fromServer' = rest /\ toServer' = toServer /\ closed' = closed
      BY <1>1, <1>2 DEF rest, peerVars
    <3>6. Run(SrcNo, fromServer', Finished' + 1, next)
      BY <3>1, <3>2, <3>5
    <3>7. \A i \in 1..Len(fromServer') : fromServer'[i].src <= Passed'
      BY <2>6, <3>4, <3>5
    <3> QED BY <1>7, <2>6, <3>1, <3>5, <3>6, <3>7 DEF RepliesInLine, Matched
  <2> QED BY <2>8, <2>9, <2>10
<1> QED BY <1>5, <1>6, <1>10, <1>11 DEF KInv

\* A part more of the request that is being written, or of the next.
LEMMA PartsNext ==
  ASSUME TypeOK, Sending, ClientSend, NEW q \in Nat
  PROVE  Begun(q)' <=> (Begun(q) \/ q = sent + 1)
<1>1. PICK f \in ClientPart :
        /\ f.end \in BOOLEAN
        /\ sentParts' = IF f.end THEN 0 ELSE sentParts + 1
        /\ sent' = sent + Inc(f)
  BY ClientSends
<1>2. sent \in Nat /\ sentParts \in Nat
  BY RequestNumbers DEF TypeOK
<1>3. CASE f.end
  <2>1. sent' = sent + 1 /\ sentParts' = 0
    BY <1>1, <1>2, <1>3 DEF Inc
  <2> QED BY <1>2, <2>1 DEF Begun
<1>4. CASE ~f.end
  <2>1. sent' = sent /\ sentParts' = sentParts + 1
    BY <1>1, <1>2, <1>4 DEF Inc
  <2> QED BY <1>2, <2>1 DEF Begun
<1> QED BY <1>3, <1>4

\* A request with keywords is sent alone, or the client has pipelined one.
LEMMA ClientSendAlone ==
  ASSUME TypeOK, Sending, Alone, ClientSend, ~pipelined'
  PROVE  Alone'
<1>1. /\ sent \in Nat /\ sentParts \in Nat /\ answered' = answered
      /\ Len(answered) \in Nat /\ sent + 1 \in Requests
      /\ \/ sentParts > 0
         \/ Len(answered) = sent
         \/ \A q \in (Len(answered) + 1)..(sent + 1) : ~HasKey(q)
  <2>1. sent + 1 \in Requests
    BY ClientSends
  <2>2. sent \in Nat /\ sentParts \in Nat /\ Len(answered) \in Nat
    BY Lengths, RequestNumbers DEF TypeOK
  <2>3. answered' = answered /\ ~(sentParts = 0 /\ Crowds(sent + 1))
    BY DEF ClientSend
  <2>4. sent + 1 - 1 = sent
    BY <2>2
  <2>5. ~Crowds(sent + 1) =>
          \/ Len(answered) = sent
          \/ \A q \in (Len(answered) + 1)..(sent + 1) : ~HasKey(q)
    <3> SUFFICES ASSUME Len(answered) # sent,
                        NEW q \in (Len(answered) + 1)..(sent + 1), HasKey(q)
                 PROVE  Crowds(sent + 1)
      OBVIOUS
    <3>1. /\ Len(answered) # sent /\ HasKey(q)
          /\ q \in (Len(answered) + 1)..(sent + 1)
      OBVIOUS
    <3> QED BY ONLY <2>2, <2>4, <3>1 DEF Crowds
  <2>6. sentParts # 0 => sentParts > 0
    BY <2>2
  <2> QED BY <2>1, <2>2, <2>3, <2>5, <2>6
<1> SUFFICES ASSUME NEW r \in Requests, HasKey(r), Begun(r)',
                    r > Len(answered)
             PROVE  /\ Len(answered) = r - 1
                    /\ \A q \in Requests : Begun(q)' => q <= r
  BY <1>1 DEF Alone
<1>2. r \in Nat /\ \A q \in Requests : q \in Nat
  BY RequestNumbers
<1>3. \A q \in Requests : Begun(q)' <=> (Begun(q) \/ q = sent + 1)
  BY <1>2, PartsNext
<1>4. \A q \in Requests : Begun(q) => q <= sent + 1
  BY <1>1, <1>2 DEF Begun
<1>5. CASE r = sent + 1
  <2>1. r \in (Len(answered) + 1)..(sent + 1)
    BY <1>1, <1>2, <1>5
  <2>2. CASE sentParts > 0
    <3>1. Begun(r)
      BY <1>5, <2>2 DEF Begun
    <3>2. Len(answered) = r - 1
      BY <3>1 DEF Alone
    <3> QED BY <1>3, <1>4, <1>5, <3>2
  <2>3. CASE Len(answered) = sent
    BY <1>1, <1>3, <1>4, <1>5, <2>3
  <2> QED BY <1>1, <2>1, <2>2, <2>3
<1>6. CASE r # sent + 1
  <2>1. Begun(r)
    BY <1>3, <1>6
  <2>2. Len(answered) = r - 1 /\ \A q \in Requests : Begun(q) => q <= r
    BY <2>1 DEF Alone
  <2>3. r <= sent
    BY <1>2, <1>6, <2>1 DEF Begun
  <2>4. ~(sentParts > 0)
    <3>1. sentParts > 0 => Begun(sent + 1)
      BY DEF Begun
    <3> QED BY <1>1, <1>2, <2>2, <2>3, <3>1
  <2>5. Len(answered) # sent
    BY <1>1, <1>2, <2>2, <2>3
  <2>6. r \in (Len(answered) + 1)..(sent + 1)
    BY <1>1, <1>2, <2>2, <2>3
  <2> QED BY <1>1, <2>4, <2>5, <2>6
<1> QED BY <1>5, <1>6

\* A part more from the client, of a request with keywords or not.
LEMMA ClientSendKInv ==
  ASSUME IInv, KInv, ClientSend, ~pipelined'
  PROVE  KInv'
<1>1. PICK f \in ClientPart :
        /\ f.req = sent + 1 /\ f.end \in BOOLEAN
        /\ f.key = Script[sent + 1][sentParts + 1].key
        /\ f.end <=> (sentParts + 1 = Len(Script[sent + 1]))
        /\ sent + 1 \in Requests /\ sentParts + 1 \in 1..Len(Script[sent + 1])
        /\ toProxy' = Append(toProxy, f)
        /\ sentParts' = IF f.end THEN 0 ELSE sentParts + 1
        /\ sent' = sent + Inc(f)
  BY ClientSends DEF IInv
<1>2. UNCHANGED <<loopVars, answered, requestVars, serverVars, responseVars,
                  toClient, peerVars, quotaVars, recordVars, faults>>
  BY DEF ClientSend
<1>3. /\ sent \in Nat /\ sentParts \in Nat /\ toProxy \in Seq(ClientPart)
      /\ Len(toProxy) \in Nat /\ TypeOK /\ Sending
  <2>1. TypeOK /\ Sending
    BY DEF IInv
  <2> QED BY <2>1, RequestNumbers, LenProperties DEF TypeOK, ClientPart
<1>4. Readable'
  BY <1>2, ReadableStays DEF KInv, loopVars, serverVars, peerVars
<1>5. AnswersRight' /\ BlockedNotForwarded'
  BY <1>2 DEF KInv, AnswersRight, BlockedNotForwarded, responseVars, recordVars
<1>6. Finished' = Finished /\ Passed' = Passed /\ Parsed' = Parsed
  BY <1>2 DEF Finished, Passed, Parsed, Busy, responseVars, requestVars
<1>7. /\ Len(toProxy') = Len(toProxy) + 1
      /\ \A i \in 1..Len(toProxy) : toProxy'[i] = toProxy[i]
      /\ toProxy'[Len(toProxy) + 1] = f
  BY <1>1, <1>3, AppendProperties
<1>8. PICK s \in Requests : s = sent + 1
  BY <1>1
<1>9. ASSUME NEW q \in Requests
      PROVE  q \in Nat /\ (Begun(q)' <=> (Begun(q) \/ q = s))
  BY <1>3, <1>8, RequestNumbers, PartsNext
<1>10. Alone'
  BY <1>3, ClientSendAlone DEF KInv
<1>11. ASSUME Alive' PROVE (PartsBegun /\ RepliesInLine /\ VerdictsKept)'
  <2>1. /\ Alive /\ InLine
        /\ PartsBegun /\ RepliesInLine /\ VerdictsKept
    BY <1>2, <1>11 DEF KInv, IInv, Alive, loopVars
  <2>2. \A i \in 1..Len(toProxy) : toProxy[i].req \in Requests
    BY <1>3, <2>1, Bounds
  <2>3. PartsBegun'
    <3> SUFFICES ASSUME NEW i \in 1..Len(toProxy')
                 PROVE  (/\ Begun(toProxy[i].req)
                         /\ toProxy[i].key => HasKey(toProxy[i].req))'
      BY DEF PartsBegun
    <3>1. CASE i \in 1..Len(toProxy)
      <4>1. PICK q \in Requests : q = toProxy[i].req
        BY <2>2, <3>1
      <4>2. toProxy'[i] = toProxy[i] /\ Begun(q) /\ (toProxy[i].key => HasKey(q))
        BY <1>7, <2>1, <3>1, <4>1 DEF PartsBegun
      <4>3. Begun(q)'
        BY <1>9, <4>2
      <4>4. toProxy'[i].req = q /\ (toProxy'[i].key => HasKey(q))
        BY <4>1, <4>2
      <4> QED BY <4>3, <4>4 DEF Begun
    <3>2. CASE i = Len(toProxy) + 1
      <4>1. HasKey(s) \/ ~f.key
        <5>1. DOMAIN Script[s] = 1..Len(Script[s])
          BY PartsOf, LenProperties
        <5> QED BY <1>1, <1>8, <5>1 DEF HasKey
      <4>2. toProxy'[i] = f /\ Begun(s)' /\ f.req = s
        BY <1>1, <1>7, <1>8, <1>9, <3>2
      <4> QED BY <4>1, <4>2 DEF Begun
    <3> QED BY <1>3, <1>7, <3>1, <3>2
  <2>4. RepliesInLine' /\ VerdictsKept'
    BY <1>2, <1>6, <2>1 DEF RepliesInLine, VerdictsKept, serverVars,
       responseVars, peerVars, recordVars
  <2> QED BY <2>3, <2>4
<1> QED BY <1>4, <1>5, <1>10, <1>11 DEF KInv

\* What is left behind a read has been begun.
LEMMA PartsLeft ==
  ASSUME TypeOK, PartsBegun, NEW n \in 1..Len(toProxy),
         toProxy' = SubSeq(toProxy, n + 1, Len(toProxy)),
         UNCHANGED <<sent, sentParts>>
  PROVE  PartsBegun'
<1>1. /\ toProxy \in Seq(ClientPart) /\ Len(toProxy) \in Nat /\ n \in Nat
  BY LenProperties DEF TypeOK, ClientPart
<1>2. /\ Len(toProxy') = Len(toProxy) - n
      /\ \A i \in 1..(Len(toProxy) - n) : toProxy'[i] = toProxy[n + i]
  BY <1>1, DropFirst
<1> SUFFICES ASSUME NEW i \in 1..Len(toProxy')
             PROVE  (/\ Begun(toProxy[i].req)
                     /\ toProxy[i].key => HasKey(toProxy[i].req))'
  BY DEF PartsBegun
<1>3. n + i \in 1..Len(toProxy) /\ toProxy'[i] = toProxy[n + i]
  BY <1>1, <1>2
<1> QED BY <1>3 DEF PartsBegun, Begun

\* A part with a keyword is one of the next request, and all others are
\* answered.
LEMMA KeyNext ==
  ASSUME TypeOK, Sending, InLine, Alive, Alone, PartsBegun,
         NEW i \in 1..Len(toProxy), toProxy[i].key
  PROVE  \E r \in Requests :
           /\ r = Parsed + 1 /\ r \in Nat /\ HasKey(r) /\ sent <= r
           /\ Len(answered) = Parsed /\ Finished = Parsed /\ Passed = Parsed
           /\ Busy = 0 /\ Len(requests) = 0
           /\ \A j \in 1..Len(toProxy) : toProxy[j].req = r
<1>1. \A j \in 1..Len(toProxy) :
         /\ toProxy[j].req \in Requests /\ Parsed + 1 <= toProxy[j].req
         /\ Begun(toProxy[j].req)
  BY Bounds DEF PartsBegun
<1>2. PICK r \in Requests :
        r = toProxy[i].req /\ Begun(r) /\ HasKey(r) /\ Parsed + 1 <= r
  BY <1>1 DEF PartsBegun
<1>3. Parsed \in Nat /\ r \in Nat
  BY Lengths, RequestNumbers
<1>4. r > Parsed
  BY <1>2, <1>3
<1>5. /\ r = Parsed + 1 /\ Len(answered) = Parsed /\ Finished = Parsed
      /\ Passed = Parsed /\ Busy = 0 /\ Len(requests) = 0 /\ sent <= r
      /\ \A q \in Requests : Begun(q) => q <= r
  BY <1>2, <1>4, KeyAlone
<1>6. ASSUME NEW j \in 1..Len(toProxy) PROVE toProxy[j].req = r
  <2>1. PICK q \in Requests : q = toProxy[j].req /\ Begun(q) /\ Parsed + 1 <= q
    BY <1>1
  <2>2. q \in Nat /\ q <= r
    BY <1>5, <2>1, RequestNumbers
  <2> QED BY <1>3, <1>5, <2>1, <2>2
<1> QED BY <1>2, <1>3, <1>5, <1>6

\* A buffer that the filter lets pass (src/src/http/v2filter_client.hh:72).
LEMMA ClientPassKInv ==
  ASSUME IInv, KInv, ClientRead, NEW n \in 1..Len(toProxy),
         toProxy' = SubSeq(toProxy, n + 1, Len(toProxy)),
         ClientPass(SubSeq(toProxy, 1, n))
  PROVE  KInv'
<1>1. /\ UNCHANGED <<todo, sentParts, sent, answered, serverVars, toClient,
                     peerVars, forwarded, saved, responseVars, blocked>>
      /\ pc = "clientIn" /\ pc' \in {"serverOut", "garbled"}
  BY DEF ClientRead, ClientPass, Runs
<1>2. TypeOK /\ PartsBegun /\ RepliesInLine /\ VerdictsKept /\ Alone
  BY <1>1 DEF IInv, KInv, Alive
<1>3. Finished' = Finished /\ Passed' = Passed
  BY <1>1 DEF Finished, Passed, Busy, responseVars
<1>4. PartsBegun'
  BY <1>1, <1>2, PartsLeft
<1>5. Alone' /\ Readable'
  BY <1>1, <1>2 DEF Alone, Begun, Readable
<1>6. AnswersRight' /\ BlockedNotForwarded'
  BY <1>1 DEF KInv, AnswersRight, BlockedNotForwarded, responseVars
<1>7. RepliesInLine' /\ VerdictsKept'
  BY <1>1, <1>2, <1>3 DEF RepliesInLine, VerdictsKept, serverVars,
     responseVars, peerVars
<1> QED BY <1>4, <1>5, <1>6, <1>7 DEF KInv

\* A buffer that the filter blocks: the request whose keyword it holds is the
\* next one, all others are answered, and its 405 takes the place of its
\* response, if it is complete (src/src/httpserver/http_proxy.cc:81).
LEMMA ClientBlockedKInv ==
  ASSUME IInv, KInv, ClientRead, NEW n \in 1..Len(toProxy),
         toProxy' = SubSeq(toProxy, n + 1, Len(toProxy)),
         ClientBlocked(SubSeq(toProxy, 1, n))
  PROVE  KInv'
<1> DEFINE buffer == SubSeq(toProxy, 1, n)
           text == Text(buffer)
           queue == ParseRequests(text)
           st == ParsePart([ResponseState EXCEPT
                              !.pending = Append(@, Head(queue))], CannedPart)
<1>1. /\ UNCHANGED <<todo, sentParts, sent, answered, serverVars, toClient,
                     peerVars, forwarded, saved>>
      /\ pc = "clientIn"
      /\ \/ /\ pc' \in {"crashed", "garbled"} /\ UNCHANGED responseVars
         \/ /\ queue # << >> /\ current = NoMessage /\ pc' = "serverOut"
            /\ requests' = Tail(queue) /\ SetResponses(st)
  BY DEF ClientRead, ClientBlocked, Runs
<1>2. /\ TypeOK /\ Sending /\ InLine /\ Alive /\ Alone /\ Numbered
      /\ PartsBegun /\ RepliesInLine /\ VerdictsKept
  BY <1>1 DEF IInv, KInv, Alive, InLine
<1>3. /\ DOMAIN buffer = 1..n /\ \A i \in 1..n : buffer[i] = toProxy[i]
      /\ Len(toProxy) \in Nat /\ Len(buffer) = n
  BY <1>2, DropFirst DEF TypeOK, ClientPart
<1>4. /\ Filter(buffer, "BLOCKED")
      /\ blocked' = blocked \cup
           {buffer[i].req : i \in {j \in DOMAIN buffer : buffer[j].key}}
  BY DEF ClientBlocked, Block
<1>5. /\ text \in Seq(ClientPart) /\ Len(text) \in 0..n
      /\ \A i \in 1..Len(text) : text[i] = toProxy[i]
      /\ lacking # 0 => text = << >>
      /\ lacking = 0 => text = buffer
  <2>1. lacking = 0 => text = buffer
    BY DEF Text
  <2> QED BY <1>2, <2>1, TextOfBuffer
<1> HIDE DEF text
<1>6. /\ queue \in Seq(Requests) /\ Len(requests) <= Len(queue)
      /\ From(queue, Passed)
      /\ lacking = 0 =>
           At(ReqNo, toProxy, sent + 1, n + 1) = Passed + Len(queue) + 1
      /\ lacking # 0 => queue = requests
  <2>1. /\ queue \in Seq(Requests) /\ Len(requests) <= Len(queue)
        /\ From(queue, Passed)
        /\ lacking = 0 => At(ReqNo, toProxy, sent + 1, Len(text) + 1)
                            = Passed + Len(queue) + 1
    BY <1>2, <1>5, ClientParses
  <2>2. lacking # 0 => queue = requests
    BY <1>5, NothingParsed
  <2> QED BY <1>3, <1>5, <2>1, <2>2
<1>7. PICK k \in 1..n : toProxy[k].key
  BY <1>3, <1>4 DEF Filter
<1>8. k \in 1..Len(toProxy)
  BY <1>3
<1> HIDE DEF buffer, queue, st
<1>9. PICK r \in Requests :
        /\ r = Parsed + 1 /\ r \in Nat /\ HasKey(r) /\ sent <= r
        /\ Len(answered) = Parsed /\ Finished = Parsed /\ Passed = Parsed
        /\ Busy = 0 /\ Len(requests) = 0
        /\ \A j \in 1..Len(toProxy) : toProxy[j].req = r
  BY <1>2, <1>7, <1>8, KeyNext
<1>10. /\ Parsed \in Nat /\ Passed \in Nat /\ Len(queue) \in Nat
       /\ sent \in Nat
  <2>1. Parsed \in Nat /\ Passed \in Nat
    BY <1>2, Lengths
  <2>2. Len(queue) \in Nat
    BY <1>6, LenProperties
  <2> QED BY <1>2, <2>1, <2>2, RequestNumbers DEF TypeOK
<1>11. blocked' = blocked \cup {r}
  <2>1. \A i \in 1..n : buffer[i].req = r
    BY <1>3, <1>9
  <2>2. buffer[k].key
    BY <1>3, <1>7
  <2>3. {buffer[i].req : i \in {j \in 1..n : buffer[j].key}} = {r}
    BY <2>1, <2>2
  <2> QED BY <1>3, <1>4, <2>3
<1>12. Alone'
  BY <1>1, <1>2 DEF Alone, Begun
<1>13. Readable'
  BY <1>1 DEF Readable
<1>14. BlockedNotForwarded'
  <2>1. r \notin Range(forwarded)
    <3>1. \A i \in 1..Len(forwarded) : forwarded[i] <= Passed
      BY <1>2 DEF VerdictsKept
    <3>2. Range(forwarded) = {forwarded[i] : i \in 1..Len(forwarded)}
      BY <1>2, ForwardedRequests
    <3> QED BY <1>9, <1>10, <3>1, <3>2
  <2> QED BY <1>1, <1>11, <2>1 DEF KInv, BlockedNotForwarded
<1>15. current = NoMessage
  BY <1>9 DEF Busy
<1>16. CASE pc' \in {"crashed", "garbled"}
  <2>1. AnswersRight'
    <3>1. UNCHANGED responseVars
      BY <1>1, <1>16
    <3> QED BY <1>1, <1>11, <3>1 DEF KInv, AnswersRight, AllRight, Right,
            responseVars
  <2> QED BY <1>12, <1>13, <1>14, <1>16, <2>1 DEF KInv, Alive
<1>17. CASE pc' = "serverOut"
  <2>1. /\ queue # << >> /\ requests' = Tail(queue) /\ SetResponses(st)
    BY <1>1, <1>17
  <2>2. Len(queue) = 1
    <3>1. Len(queue) # 0
      BY <1>6, <2>1, EmptySeq
    <3>2. lacking = 0
      <4>1. lacking # 0 => Len(queue) = Len(requests)
        BY <1>6
      <4> QED BY <1>9, <3>1, <4>1
    <3>3. At(ReqNo, toProxy, sent + 1, n + 1) <= sent + 1
      <4>1. PICK first \in Int : Run(ReqNo, toProxy, first, sent + 1)
        BY <1>2 DEF InLine, Coming
      <4>2. /\ n + 1 \in 1..(Len(toProxy) + 1)
            /\ Len(toProxy) + 1 \in 1..(Len(toProxy) + 1)
            /\ n + 1 <= Len(toProxy) + 1
            /\ ~(Len(toProxy) + 1 <= Len(toProxy))
        BY <1>3
      <4>3. At(ReqNo, toProxy, sent + 1, n + 1)
              <= At(ReqNo, toProxy, sent + 1, Len(toProxy) + 1)
        BY <4>1, <4>2 DEF Run
      <4>4. At(ReqNo, toProxy, sent + 1, Len(toProxy) + 1) = sent + 1
        BY <4>2 DEF At
      <4> QED BY <4>3, <4>4
    <3>4. Passed + Len(queue) + 1 <= sent + 1
      BY <1>6, <3>2, <3>3
    <3> DEFINE l == Len(queue)
               p == Passed
    <3>5. /\ l \in Nat /\ p \in Nat /\ l # 0 /\ p + l + 1 <= sent + 1
          /\ sent \in Nat /\ r \in Nat /\ sent <= r /\ r = p + 1
      BY <1>9, <1>10, <3>1, <3>4
    <3> HIDE DEF l, p
    <3>6. l = 1
      BY <3>5
    <3> QED BY <3>6 DEF l
  <2>3. /\ Head(queue) = Passed + 1 /\ Head(queue) \in Requests
        /\ Len(Tail(queue)) = 0
    <3>1. /\ Head(queue) \in Requests /\ Head(queue) = Passed + 1
          /\ Len(Tail(queue)) = Len(queue) - 1
      BY <1>6, <1>10, <2>1, FromTail
    <3> QED BY <2>2, <3>1
  <2> DEFINE a == Len(answered) + Len(toClient)
             x == [req |-> Finished + 1, src |-> Canned]
  <2>4. /\ st \in ParseState /\ StateNumbered(st, a, Passed + 1)
        /\ st.current = NoMessage /\ st.done = Append(responses, x)
    BY <1>2, <1>15, <2>3, CannedParsed DEF st
  <2>5. /\ pending' = st.pending /\ current' = NoMessage
        /\ responses' = Append(responses, x)
    BY <2>1, <2>4 DEF SetResponses
  <2>6. Right(x, blocked')
    BY <1>9, <1>11 DEF Right
  <2>7. AnswersRight'
    <3>1. /\ responses \in Seq(Response) /\ x \in Response
          /\ AllRight(responses, blocked)
      BY <1>2, <1>9 DEF TypeOK, Response, KInv, AnswersRight
    <3>2. blocked \subseteq blocked'
      BY <1>11
    <3> HIDE DEF x
    <3>3. AllRight(responses', blocked')
      BY <2>5, <2>6, <3>1, <3>2, RightAppend
    <3> QED BY <1>1, <1>11, <3>3 DEF KInv, AnswersRight, AllRight, Right
  <2>8. /\ Finished' = r /\ Passed' = r
    <3>1. Len(responses') = Len(responses) + 1
      <4>1. responses \in Seq(Response) /\ x \in Response
        BY <1>2, <1>9 DEF TypeOK, Response
      <4> HIDE DEF x
      <4> QED BY <2>5, <4>1, AppendProperties
    <3>2. /\ Finished' = Len(answered) + Len(toClient) + Len(responses')
          /\ Finished = Len(answered) + Len(toClient) + Len(responses)
          /\ Len(answered) \in Nat /\ Len(toClient) \in Nat
          /\ Len(responses) \in Nat
      BY <1>1, <1>2, Lengths DEF Finished
    <3>3. Finished' = r
      BY ONLY <3>1, <3>2, <1>9, <1>10
    <3>4. Passed' = Passed + 1
      <4>1. /\ ReqsFrom(answered', 0) /\ ReqsFrom(toClient', Len(answered'))
            /\ Len(answered') + Len(toClient') = a /\ Passed + 1 \in Int
        BY <1>1, <1>2, <1>10 DEF Numbered
      <4>2. From(requests', Passed + 1)
        <5>1. Len(requests') = 0
          BY <2>1, <2>3
        <5> QED BY <5>1 DEF From
      <4>3. pending' = st.pending /\ current' = st.current /\ responses' = st.done
        BY <2>1 DEF SetResponses
      <4> HIDE DEF a
      <4> QED BY <2>4, <4>1, <4>2, <4>3, NumberedNext
    <3>5. Passed' = r
      BY <1>9, <1>10, <3>4
    <3> QED BY <3>3, <3>5
  <2>9. PartsBegun'
    BY <1>1, <1>2, PartsLeft
  <2>10. RepliesInLine'
    <3>1. PICK next \in Nat :
            /\ Run(SrcNo, fromServer, Finished + 1, next)
            /\ "server" \notin closed => next = Passed - Len(toServer) + 1
      BY <1>2 DEF RepliesInLine
    <3>2. fromServer \in Seq(ServerPart) /\ Len(fromServer) \in Nat
          /\ toServer \in Seq(Requests) /\ Len(toServer) \in Nat
      BY <1>2, LenProperties DEF TypeOK, ServerPart
    <3>3. Len(fromServer) = 0
      <4> SUFFICES ASSUME 1 \in 1..Len(fromServer) PROVE FALSE
        BY <3>2
      <4>1. fromServer[1].src <= Passed
        BY <1>2 DEF RepliesInLine
      <4>2. SrcNo[fromServer[1]] = Finished + 1
        BY <3>1, <3>2 DEF Run, At
      <4>3. fromServer[1].src = Finished + 1
        BY <3>2, <4>2, ElementOfSeq DEF SrcNo
      <4> QED BY <1>9, <1>10, <4>1, <4>3
    <3>4. next = Finished + 1
      BY <3>1, <3>3 DEF Run, At
    <3>5. "server" \notin closed => Len(toServer) = 0
      BY <1>9, <1>10, <3>1, <3>2, <3>4
    <3>6. /\ fromServer' = fromServer /\ toServer' = toServer /\ closed' = closed
      BY <1>1 DEF serverVars, peerVars
    <3>7. Run(SrcNo, fromServer', Finished' + 1, r + 1)
      <4>1. Finished' + 1 \in Int /\ Finished' + 1 = r + 1
        BY <1>9, <2>8
      <4> QED BY <3>3, <3>6, <4>1 DEF Run, At
    <3>8. "server" \notin closed' =>
            /\ r + 1 = Passed' - Len(toServer') + 1
            /\ From(toServer', Passed' - Len(toServer'))
      BY <1>9, <2>8, <3>5, <3>6 DEF From
    <3>9. r + 1 \in Nat /\ \A i \in 1..Len(fromServer') : fromServer'[i].src <= Passed'
      BY <1>9, <3>3, <3>6
    <3> QED BY <2>5, <3>7, <3>8, <3>9 DEF RepliesInLine
  <2>11. VerdictsKept'
    <3>1. \A q \in blocked' : q <= Finished'
      <4>1. \A q \in blocked : q <= Finished /\ q \in Nat
        BY <1>2, RequestNumbers DEF VerdictsKept, TypeOK
      <4> QED BY <1>9, <1>10, <1>11, <2>8, <4>1
    <3>2. \A i \in 1..Len(forwarded') : forwarded'[i] <= Passed'
      <4>1. \A i \in 1..Len(forwarded) : forwarded[i] <= Passed /\ forwarded[i] \in Nat
        <5>1. forwarded \in Seq(Requests)
          BY <1>2 DEF TypeOK
        <5>2. \A i \in 1..Len(forwarded) : forwarded[i] \in Requests
          BY <5>1, ElementOfSeq
        <5> QED BY <1>2, <5>2, RequestNumbers DEF VerdictsKept
      <4>2. Passed' = Passed + 1 /\ forwarded' = forwarded
        BY <1>1, <1>9, <2>8
      <4> QED BY <1>10, <4>1, <4>2
    <3> QED BY <3>1, <3>2 DEF VerdictsKept
  <2> QED BY <1>12, <1>13, <1>14, <2>7, <2>9, <2>10, <2>11 DEF KInv
<1> QED BY <1>1, <1>16, <1>17

\* The client's callback, whatever the filter's verdict.
LEMMA ClientReadKInv ==
  ASSUME IInv, KInv, ClientRead
  PROVE  KInv'
<1>1. PICK n \in 1..Len(toProxy) :
        /\ toProxy' = SubSeq(toProxy, n + 1, Len(toProxy))
        /\ \/ ClientPass(SubSeq(toProxy, 1, n))
           \/ ClientBlocked(SubSeq(toProxy, 1, n))
  BY DEF ClientRead
<1> QED BY <1>1, ClientPassKInv, ClientBlockedKInv

\* A connection begins with nothing asked, granted or blocked.
LEMMA InitKInv == Init => KInv
<1> SUFFICES ASSUME Init PROVE KInv
  OBVIOUS
<1>0. TypeOK /\ Len(<< >>) = 0 /\ \A i \in 1..0 : FALSE
  BY InitIInv, EmptySeq DEF IInv
<1>1. /\ sent = 0 /\ sentParts = 0 /\ toProxy = << >> /\ fromServer = << >>
      /\ toServer = << >> /\ blocked = {} /\ forwarded = << >>
      /\ current = NoMessage /\ granted = 0 /\ todo = {}
      /\ answered = << >> /\ toClient = << >> /\ responses = << >>
      /\ pending = << >> /\ requests = << >>
  BY DEF Init, QuotaInit
<1>2. Finished = 0 /\ Passed = 0 /\ Parsed = 0
  BY <1>0, <1>1 DEF Finished, Busy, Passed, Parsed
<1>3. \A r \in Requests : ~Begun(r)
  BY <1>1, RequestNumbers DEF Begun
<1>4. Alone /\ Readable
  BY <1>1, <1>3 DEF Alone, Readable
<1>5. PartsBegun /\ VerdictsKept /\ AnswersRight
  BY <1>0, <1>1 DEF PartsBegun, VerdictsKept, AnswersRight, AllRight
<1>7. RepliesInLine
  <2>1. Run(SrcNo, << >>, 0 + 1, 1)
    BY <1>0 DEF Run, At
  <2>2. From(<< >>, 0 - 0) /\ 1 = 0 - 0 + 1
    BY <1>0 DEF From
  <2> QED BY <1>0, <1>1, <1>2, <2>1, <2>2 DEF RepliesInLine
<1>8. BlockedNotForwarded
  <2>1. Range(forwarded) = {}
    BY <1>0, <1>1, ForwardedRequests
  <2> QED BY <2>1 DEF BlockedNotForwarded
<1> QED BY <1>4, <1>5, <1>7, <1>8 DEF KInv

\* Every step keeps what holds of such a client, or it is the step with which
\* the client pipelines such a request.
KIf == ~pipelined => KInv
LEMMA NextKInv ==
  ASSUME IInv, KIf, [Next]_vars
  PROVE  KIf'
<1>1. CASE ClientSend
  <2>1. ~pipelined' => ~pipelined
    BY <1>1 DEF ClientSend, IInv, TypeOK
  <2> QED BY <1>1, <2>1, ClientSendKInv DEF KIf
<1>2. CASE ~ClientSend
  <2>1. pipelined' = pipelined
    <3> USE DEF historyVars
    <3>1. CASE Poll \/ ServerEof \/ ClientEof \/ OtherConnection
      BY <3>1 DEF Poll, ServerEof, ClientEof, OtherConnection
    <3>2. CASE \E a \in Callbacks : PassOver(a) \/ Throws(a)
      BY <3>2 DEF PassOver, Throws
    <3>3. CASE ServerRead \/ ClientRead \/ ServerWrite \/ ClientWrite
      BY <3>3 DEF ServerRead, ClientRead, ServerWrite, ClientWrite
    <3>4. CASE ClientReceive \/ ServerReply \/ RefuseRequests
               \/ \E p \in {"client", "server"} : Close(p) \/ Reset(p)
      BY <3>4 DEF ClientReceive, ServerReply, RefuseRequests, Close, Reset
    <3>5. CASE UNCHANGED vars
      BY <3>5 DEF vars
    <3> QED BY <1>2, <3>1, <3>2, <3>3, <3>4, <3>5
            DEF Next, Loop, Peers, Callbacks
  <2> SUFFICES ASSUME KInv PROVE KInv'
    BY <2>1 DEF KIf
  <2>2. CASE UNCHANGED vars
    <3>1. TypeOK
      BY DEF IInv
    <3>2. UNCHANGED <<pc, todo, lineVars, sentParts, fromServer, toServer,
                      forwarded, blocked, closed>>
      BY <2>2 DEF vars, lineVars, loopVars, clientVars, requestVars, serverVars,
         responseVars, peerVars, historyVars, recordVars
    <3>3. Readable' /\ (Alive' => Alive)
      BY <3>2, ReadableStays DEF KInv, Alive
    <3> QED BY <3>1, <3>2, <3>3, KStays
  <2>3. CASE Loop
    BY <2>3, AroundKInv, ServerReadKInv, ServerEofKInv, ClientReadKInv,
       ServerWriteKInv, ClientWriteKInv DEF Loop, Callbacks
  <2>4. CASE Peers \/ OtherConnection
    BY <1>2, <2>4, ClientReceiveKInv, ServerReplyKInv, AroundKInv DEF Peers
  <2> QED BY <2>2, <2>3, <2>4 DEF Next
<1> QED BY <1>1, <1>2

\* Right responses, one queue behind another.
LEMMA RightConcat ==
  ASSUME NEW S, NEW s \in Seq(S), NEW t \in Seq(S), NEW b,
         AllRight(s, b), AllRight(t, b)
  PROVE  s \o t \in Seq(S) /\ AllRight(s \o t, b)
<1>1. /\ s \o t \in Seq(S) /\ Len(s \o t) = Len(s) + Len(t)
      /\ \A i \in 1..(Len(s) + Len(t)) : (s \o t)[i] =
           IF i <= Len(s) THEN s[i] ELSE t[i - Len(s)]
      /\ Len(s) \in Nat /\ Len(t) \in Nat
  BY ConcatProperties, LenProperties
<1>2. ASSUME NEW i \in 1..(Len(s) + Len(t)) PROVE Right((s \o t)[i], b)
  <2>1. CASE i <= Len(s)
    <3>1. i \in 1..Len(s) /\ (s \o t)[i] = s[i]
      BY <1>1, <2>1
    <3> QED BY <3>1 DEF AllRight
  <2>2. CASE ~(i <= Len(s))
    <3>1. i - Len(s) \in 1..Len(t) /\ (s \o t)[i] = t[i - Len(s)]
      BY <1>1, <2>2
    <3> QED BY <3>1 DEF AllRight
  <2> QED BY <2>1, <2>2
<1> QED BY <1>1, <1>2 DEF AllRight

\* The queues together are what the client gets, oldest first.
LEMMA RightMatch ==
  ASSUME TypeOK, AnswersRight
  PROVE  AnswersMatch
<1>1. /\ answered \in Seq(Response) /\ toClient \in Seq(Response)
      /\ responses \in Seq(Response)
  BY DEF TypeOK
<1>2. answered \o toClient \in Seq(Response)
      /\ AllRight(answered \o toClient, blocked)
  BY <1>1, RightConcat DEF AnswersRight
<1>3. Output \in Seq(Response) /\ AllRight(Output, blocked)
  BY <1>1, <1>2, RightConcat DEF AnswersRight, Output
<1>4. DOMAIN Output = 1..Len(Output)
  BY <1>3, LenProperties
<1> QED BY <1>3, <1>4 DEF AnswersMatch, AllRight, Right

\* As long as the client has pipelined no request with a resource's keywords,
\* it gets, to each of its requests, the server's reply to that request, or the
\* 405 if it was blocked: response_parser.new_request_arrived matches them
\* (src/src/http/http_response_parser.cc:55).
THEOREM AnswersRequests == Spec => []AnswersMatch
<1>1. Init => KIf
  BY InitKInv DEF KIf
<1>2. IInv /\ KIf => AnswersMatch
  <2>1. CASE ~pipelined
    BY <2>1, RightMatch DEF IInv, KInv, KIf
  <2>2. CASE pipelined
    BY <2>2 DEF AnswersMatch
  <2> QED BY <2>1, <2>2
<1>3. IInv /\ KIf /\ [Next]_vars => KIf'
  BY NextKInv
<1> QED BY InitIInv, NextIInv, <1>1, <1>2, <1>3, PTL DEF Spec

\* Nor is a request that the filter blocked written to the server
\* (src/src/http/v2filter_client.hh:96).
THEOREM BlockedStays == Spec => []BlockedAloneNotForwarded
<1>1. Init => KIf
  BY InitKInv DEF KIf
<1>2. KIf => BlockedAloneNotForwarded
  BY DEF KIf, KInv, BlockedAloneNotForwarded
<1>3. IInv /\ KIf /\ [Next]_vars => KIf'
  BY NextKInv
<1> QED BY InitIInv, NextIInv, <1>1, <1>2, <1>3, PTL DEF Spec
-----------------------------------------------------------------------------
(* The front of request_parser's queue.                                    *)

\* When poll asked for the server, a request was there, and it is there still
\* unless a buffer was blocked that completes none.
Asked ==
  pc \in {"serverIn", "clientIn", "serverOut"} /\ "serverOut" \in todo =>
    uncompleted \/ requests # << >>
CInv == CrashesOnlyUncompleted /\ Asked

\* A blocked buffer that completes a request leaves the queue no shorter than
\* it was: what is taken from its front is made good at its end
\* (src/src/httpserver/http_proxy.cc:81).
LEMMA ClientBlockedCInv ==
  ASSUME IInv, CInv, ClientRead, NEW n \in 1..Len(toProxy),
         ClientBlocked(SubSeq(toProxy, 1, n))
  PROVE  CInv'
<1> DEFINE buffer == SubSeq(toProxy, 1, n)
           queue == ParseRequests(Text(buffer))
<1>1. /\ pc = "clientIn" /\ todo' = todo
      /\ uncompleted' = (uncompleted \/ ~Completes(buffer))
      /\ \/ pc' = "garbled"
         \/ queue = << >> /\ pc' = "crashed"
         \/ queue # << >> /\ pc' = "serverOut" /\ requests' = Tail(queue)
  BY DEF ClientRead, ClientBlocked, Block, Runs
<1>2. CASE uncompleted'
  BY <1>1, <1>2 DEF CInv, CrashesOnlyUncompleted, Asked
<1>3. CASE ~uncompleted'
  <2>1. TypeOK /\ InLine /\ Alive
    BY <1>1 DEF IInv, Alive
  <2>2. /\ DOMAIN buffer = 1..n /\ \A i \in 1..n : buffer[i] = toProxy[i]
        /\ Len(toProxy) \in Nat /\ Len(buffer) = n
        /\ toProxy \in Seq(ClientPart)
    BY <2>1, DropFirst DEF TypeOK, ClientPart
  <2>3. lacking = 0 /\ Text(buffer) = buffer /\ \E i \in 1..n : toProxy[i].end
    BY <1>1, <1>3, <2>2 DEF Completes, Text
  <2>4. /\ queue \in Seq(Requests) /\ Len(requests) <= Len(queue)
        /\ At(ReqNo, toProxy, sent + 1, n + 1) = Passed + Len(queue) + 1
    <3> DEFINE text == Text(buffer)
    <3>1. /\ text \in Seq(ClientPart) /\ Len(text) \in 0..n
          /\ \A i \in 1..Len(text) : text[i] = toProxy[i]
          /\ lacking # 0 => text = << >>
      BY <2>1, TextOfBuffer
    <3>2. Len(text) = n
      BY <2>2, <2>3
    <3> HIDE DEF text, buffer
    <3> QED BY <2>1, <2>3, <3>1, <3>2, ClientParses DEF text
  <2> HIDE DEF queue, buffer
  <2>5. Len(requests) < Len(queue)
    <3>1. PICK first \in Int :
            /\ first = Parsed + 1 /\ Run(ReqNo, toProxy, first, sent + 1)
      BY <2>1, <2>3 DEF InLine, Coming
    <3>2. PICK i \in 1..n : toProxy[i].end
      BY <2>3
    <3>3. /\ i \in 1..Len(toProxy) /\ 1 \in 1..(Len(toProxy) + 1)
          /\ i \in 1..(Len(toProxy) + 1) /\ i + 1 \in 1..(Len(toProxy) + 1)
          /\ n + 1 \in 1..(Len(toProxy) + 1)
          /\ 1 <= i /\ i + 1 <= n + 1 /\ i <= Len(toProxy)
      BY <2>2
    <3> DEFINE at(j) == At(ReqNo, toProxy, sent + 1, j)
    <3>4. /\ at(1) = first /\ at(i) = ReqNo[toProxy[i]]
          /\ at(i + 1) = ReqNo[toProxy[i]] + 1
          /\ at(1) <= at(i) /\ at(i + 1) <= at(n + 1)
      <4>1. Inc(toProxy[i]) = 1
        BY <3>2 DEF Inc
      <4>2. at(i) = ReqNo[toProxy[i]]
        BY <3>3 DEF At
      <4> QED BY <3>1, <3>3, <4>1, <4>2 DEF Run
    <3>5. ReqNo[toProxy[i]] \in Nat
      <4>1. toProxy[i] \in ClientPart
        BY <2>2, <3>3, ElementOfSeq
      <4> QED BY <4>1, RequestNumbers DEF ReqNo, ClientPart
    <3> HIDE DEF at
    <3>6. at(n + 1) = Passed + Len(queue) + 1
      BY <2>4 DEF at
    <3>7. /\ Parsed = Passed + Len(requests) /\ Passed \in Nat
          /\ Len(requests) \in Nat /\ Len(queue) \in Nat
      BY <2>1, <2>4, Lengths, LenProperties DEF Parsed
    <3> DEFINE r == ReqNo[toProxy[i]]
               l == Len(queue)
               k == Len(requests)
               p == Passed
    <3>8. /\ r \in Nat /\ l \in Nat /\ k \in Nat /\ p \in Nat
          /\ p + k + 1 <= r /\ r + 1 <= p + l + 1
      BY <3>1, <3>4, <3>5, <3>6, <3>7
    <3> HIDE DEF r, l, k, p
    <3>9. k < l
      BY <3>8
    <3> QED BY <3>9 DEF k, l
  <2>6. /\ requests \in Seq(Requests) /\ Len(requests) \in Nat
        /\ Len(queue) \in Nat /\ Len(<< >>) = 0
        /\ Len(requests) = 0 => requests = << >>
    BY <2>1, <2>4, EmptySeq, LenProperties DEF TypeOK
  <2>7. queue # << >>
    BY <2>5, <2>6
  <2>8. requests # << >> => Tail(queue) # << >>
    <3>1. Len(Tail(queue)) = Len(queue) - 1
      BY <2>4, <2>7, HeadTailProperties
    <3> DEFINE t == Tail(queue)
    <3>2. Len(t) = Len(queue) - 1
      BY <3>1
    <3> HIDE DEF t
    <3>3. requests # << >> => t # << >>
      BY <2>5, <2>6, <3>2
    <3> QED BY <3>3 DEF t
  <2> QED BY <1>1, <1>3, <2>7, <2>8 DEF CInv, CrashesOnlyUncompleted, Asked
<1> QED BY <1>2, <1>3

\* The other steps.
LEMMA NextCInv ==
  ASSUME IInv, CInv, [Next]_vars
  PROVE  CInv'
<1> USE DEF CInv, CrashesOnlyUncompleted, Asked
<1>1. CASE UNCHANGED <<pc, todo, requests, uncompleted>>
  BY <1>1
<1>2. CASE Poll
  BY <1>2 DEF Poll, Interested, requestVars, historyVars, recordVars
<1>3. ASSUME NEW a \in Callbacks, PassOver(a) \/ Throws(a) PROVE CInv'
  BY <1>3 DEF PassOver, Throws, Runs, After, Callbacks, requestVars,
     historyVars, recordVars
<1>4. CASE ServerRead
  <2>1. pc = "serverIn" /\ pc' \in {"dead", "clientIn"}
        /\ UNCHANGED <<todo, requests, uncompleted>>
    BY <1>4 DEF ServerRead, Runs, requestVars, recordVars
  <2> QED BY <2>1
<1>5. CASE ServerEof
  <2>1. pc = "serverIn" /\ pc' \in {"dead", "clientIn"}
        /\ UNCHANGED <<todo, requests, uncompleted>>
    BY <1>5 DEF ServerEof, Runs, requestVars, historyVars, recordVars
  <2> QED BY <2>1
<1>6. CASE ClientEof
  <2>1. pc = "clientIn" /\ pc' \in {"dead", "serverOut"}
        /\ UNCHANGED <<todo, requests, uncompleted>>
    BY <1>6 DEF ClientEof, Runs, requestVars, historyVars, recordVars
  <2> QED BY <2>1
<1>7. CASE ServerWrite
  <2>1. /\ pc = "serverOut" /\ "serverOut" \in todo
        /\ uncompleted' = uncompleted
        /\ pc' = IF requests = << >> THEN "crashed" ELSE "clientOut"
    BY <1>7 DEF ServerWrite, Runs
  <2> QED BY <2>1
<1>8. CASE ClientWrite
  BY <1>8 DEF ClientWrite, Runs
<1>9. CASE ClientRead
  <2>1. PICK n \in 1..Len(toProxy) :
          \/ ClientPass(SubSeq(toProxy, 1, n))
          \/ ClientBlocked(SubSeq(toProxy, 1, n))
    BY <1>9 DEF ClientRead
  <2>2. CASE ClientPass(SubSeq(toProxy, 1, n))
    <3> DEFINE text == Text(Intact(SubSeq(toProxy, 1, n)))
               queue == ParseRequests(text)
    <3>1. /\ pc = "clientIn" /\ pc' \in {"serverOut", "garbled"}
          /\ todo' = todo /\ requests' = queue /\ uncompleted' = uncompleted
      BY <1>9, <2>2 DEF ClientRead, ClientPass, Runs
    <3>2. TypeOK /\ InLine /\ Alive
      BY <3>1 DEF IInv, Alive
    <3>3. /\ text \in Seq(ClientPart) /\ Len(text) \in 0..n
          /\ \A i \in 1..Len(text) : text[i] = toProxy[i]
          /\ lacking # 0 => text = << >>
      BY <3>2, TextOfBuffer
    <3> HIDE DEF text
    <3>4. queue \in Seq(Requests) /\ Len(requests) <= Len(queue)
          /\ requests \in Seq(Requests)
      BY <3>2, <3>3, ClientParses DEF TypeOK
    <3> HIDE DEF queue
    <3>5. requests # << >> => queue # << >>
      <4>1. Len(requests) \in Nat /\ (Len(requests) = 0 => requests = << >>)
            /\ Len(<< >>) = 0
        BY <3>4, EmptySeq, LenProperties
      <4>2. queue = << >> => Len(queue) = 0
        BY <4>1
      <4> QED BY <3>4, <4>1, <4>2
    <3> QED BY <3>1, <3>5
  <2>3. CASE ClientBlocked(SubSeq(toProxy, 1, n))
    BY <1>9, <2>3, ClientBlockedCInv
  <2> QED BY <2>1, <2>2, <2>3
<1>10. CASE Peers \/ OtherConnection
  <2>1. UNCHANGED <<loopVars, requestVars, recordVars>>
    BY <1>10 DEF Peers, OtherConnection, ClientSend, ClientReceive, ServerReply,
       RefuseRequests, Close, Reset, historyVars
  <2> QED BY <1>1, <2>1 DEF loopVars, requestVars, recordVars
<1>11. CASE UNCHANGED vars
  BY <1>1, <1>11 DEF vars, loopVars, requestVars, historyVars, recordVars
<1> HIDE DEF CInv
<1> QED BY <1>2, <1>3, <1>4, <1>5, <1>6, <1>7, <1>8, <1>9, <1>10, <1>11
        DEF Next, Loop, Callbacks

\* Whatever the client pipelines and however its bytes are cut into reads, the
\* loop takes the front of an empty queue only after a buffer was blocked that
\* completes no request (src/src/httpserver/http_proxy.cc:82 and :102).
THEOREM CrashesExplained == Spec => []CrashesOnlyUncompleted
<1>1. Init => CInv
  BY DEF Init, CInv, CrashesOnlyUncompleted, Asked
<1>2. IInv /\ CInv /\ [Next]_vars => CInv'
  BY NextCInv
<1>3. CInv => CrashesOnlyUncompleted
  BY DEF CInv
<1> QED BY InitIInv, NextIInv, <1>1, <1>2, <1>3, PTL DEF Spec
=============================================================================
