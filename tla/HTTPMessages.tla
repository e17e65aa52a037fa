---------------------------- MODULE HTTPMessages ----------------------------
(***************************************************************************)
(* The framing of HTTP messages: HTTPMessageSequence::parse                *)
(* (src/src/http/http_message_sequence.hh) over one direction of one       *)
(* connection, for requests and for responses, with the chunked bodies of  *)
(* chunked_parser.cc.  HTTPProxy takes for granted that the messages come  *)
(* out whole; here the bytes arrive in pieces of any length.               *)
(*                                                                         *)
(* A byte string is a sequence of tokens: words, "CR", "LF", and the       *)
(* separators the code looks for.  A token of a body stands for one byte.  *)
(***************************************************************************)
EXTENDS Integers, Sequences, FiniteSets, SequencesExt, TLC

CONSTANTS Scripts,  \* what the peer may send, see ScriptsAssumption
          Word      \* the range of uint32_t, cut down

ASSUME WordAssumption == Word \in Nat \ {0, 1}

VARIABLES script,    \* what the peer sends
          wire,      \* the same as bytes
          starts,    \* where in them each message starts, and the last ends
          pos,       \* how much of it has been read
          arrived,   \* how many requests have been passed on to the peer
          eof,       \* the peer's end of file has been read
          buffer_,   \* bytes that haven't been parsed yet
          message_,  \* message_in_progress_
          chunk_,    \* its ChunkedBodyParser
          requests_, \* requests not yet matched with a response
          complete_, \* complete_messages_
          pc         \* where parse is

vars == <<script, wire, starts, pos, arrived, eof, buffer_, message_, chunk_,
          requests_, complete_, pc>>

CRLF == <<"CR", "LF">>
-----------------------------------------------------------------------------
(* What the peer sends.                                                    *)

\* HTTPMessage::str: a message on the wire.  sep is the colon, with any space
\* after it.
HeaderLine(h) == h.key \o h.sep \o h.value

str(m) ==
  m.first_line \o CRLF
    \o FlattenSeq([i \in DOMAIN m.headers |-> HeaderLine(m.headers[i]) \o CRLF])
    \o CRLF \o m.body

Wire(s) == FlattenSeq([i \in DOMAIN s.sent |-> str(s.sent[i])])

Starts(s) ==
  [i \in 1..(Len(s.sent) + 1) |->
     Len(FlattenSeq([j \in 1..(i - 1) |-> str(s.sent[j])]))]

LineEnd(i) == starts[i] + Len(script.sent[i].first_line) + 2
HeadEnd(i) == starts[i + 1] - Len(script.sent[i].body)

\* A server answers the requests it has been sent, and may then go on.
Available ==
  IF script.kind = "request" \/ arrived = Len(script.requests) THEN Len(wire)
  ELSE starts[arrived + 1]
-----------------------------------------------------------------------------
(* Strings.                                                                *)

npos == 0

Colon == ":"
Space == " "

\* Where needle begins in s for the first time.
find(s, needle) ==
  LET at == {i \in 1..(Len(s) - Len(needle) + 1) :
               SubSeq(s, i, i + Len(needle) - 1) = needle}
  IN  IF at = {} THEN npos ELSE CHOOSE i \in at : \A j \in at : i <= j

\* split of tokenize.hh: the pieces between the separators.
split(s, separator) ==
  LET cuts == {i \in DOMAIN s : s[i] = separator} \cup {0, Len(s) + 1}
      cut(k) == CHOOSE i \in cuts : Cardinality({j \in cuts : j < i}) = k
  IN  [k \in 1..(Cardinality(cuts) - 1) |->
         SubSeq(s, cut(k - 1) + 1, cut(k) - 1)]

strip_initial_whitespace(s) ==
  LET spaces == {i \in DOMAIN s : \A j \in 1..i : s[j] = Space}
  IN  SubSeq(s, Cardinality(spaces) + 1, Len(s))

\* Words that are written in more than one way.
LowerCase ==
  [w \in {"Content-Length", "CONTENT-LENGTH"} |-> "content-length"]
  @@ [w \in {"Transfer-Encoding", "TRANSFER-ENCODING"} |-> "transfer-encoding"]
  @@ [w \in {"Chunked", "CHUNKED"} |-> "chunked"]

http_to_lower(w) == IF w \in DOMAIN LowerCase THEN LowerCase[w] ELSE w

equivalent_strings(a, b) ==
  \E x \in {strip_initial_whitespace(a)}, y \in {strip_initial_whitespace(b)} :
    /\ Len(x) = Len(y)
    /\ \A i \in DOMAIN x : http_to_lower(x[i]) = http_to_lower(y[i])

Numerals == <<"0", "1", "2", "3", "4", "5">>

\* myatoi throws unless the whole string is a number.
IsInteger(s) == Len(s) = 1 /\ s[1] \in Range(Numerals)
myatoi(s) == (CHOOSE i \in DOMAIN Numerals : Numerals[i] = s[1]) - 1
-----------------------------------------------------------------------------
(* HTTPHeader and the questions asked of the headers.                      *)

HasColon(line) == find(line, <<Colon>>) # npos

HTTPHeader(line) ==
  LET colon == find(line, <<Colon>>)
      value == SubSeq(line, colon + 1, Len(line))
      stripped == strip_initial_whitespace(value)
  IN  [key |-> SubSeq(line, 1, colon - 1),
       value |-> IF stripped = <<>> THEN value ELSE stripped]

Having(m, name) ==
  {i \in DOMAIN m.headers : equivalent_strings(m.headers[i].key, <<name>>)}

has_header(m, name) == Having(m, name) # {}

\* The first of that name.
get_header_value(m, name) ==
  LET at == Having(m, name)
  IN  m.headers[CHOOSE i \in at : \A j \in at : i <= j].value
-----------------------------------------------------------------------------
NewMessage == [state |-> "FIRST_LINE_PENDING", first_line |-> <<>>,
               headers |-> <<>>, body |-> <<>>, known |-> FALSE,
               expected |-> 0, parser |-> "none", request |-> <<>>]

NewChunkedParser(trailers) ==
  [buffer |-> <<>>, size |-> 0, acked |-> 0, parsed |-> 0,
   state |-> "CHUNK_HDR", trailers |-> trailers, input |-> 0]

Init ==
  /\ script \in Scripts /\ wire = Wire(script) /\ starts = Starts(script)
  /\ pos = 0 /\ arrived = 0 /\ eof = FALSE
  /\ buffer_ = <<>> /\ message_ = NewMessage
  /\ chunk_ = NewChunkedParser(FALSE)
  /\ requests_ = <<>> /\ complete_ = <<>> /\ pc = "rest"

Peer == <<script, wire, starts>>
Outside == <<Peer, pos, arrived, eof>>

\* HTTPResponseParser::new_request_arrived, as the proxy passes a request on.
new_request_arrived ==
  /\ pc = "rest" /\ ~eof
  /\ script.kind = "response" /\ arrived < Len(script.requests)
  /\ arrived' = arrived + 1
  /\ requests_' = Append(requests_, script.requests[arrived + 1])
  /\ UNCHANGED <<Peer, pos, eof, buffer_, message_, chunk_, complete_, pc>>

\* parse of a read of n bytes.
parse(n) ==
  /\ pc = "rest" /\ ~eof /\ pos + n <= Available
  /\ pos' = pos + n
  /\ buffer_' = buffer_ \o SubSeq(wire, pos + 1, pos + n)
  /\ pc' = "parse"
  /\ UNCHANGED <<Peer, arrived, eof, message_, chunk_, requests_, complete_>>

\* A slip: the end of file completes every body.
EofInBodyNever == FALSE

\* eof_in_body: a request, and a response without a body parser, throw; both
\* body parsers say that the message is complete.
EofInBodyThrows == script.kind = "request" \/ message_.parser = "none"

\* parse of an empty read, and HTTPMessage::eof.
parse_eof ==
  /\ pc = "rest" /\ ~eof
  /\ eof' = TRUE
  /\ \/ /\ message_.state = "FIRST_LINE_PENDING"
        /\ pc' = "parse" /\ UNCHANGED message_
     \/ /\ message_.state = "HEADERS_PENDING"
        /\ pc' = "thrown" /\ UNCHANGED message_
     \/ /\ message_.state = "BODY_PENDING" /\ EofInBodyThrows
        /\ pc' = "thrown" /\ UNCHANGED message_
     \/ /\ message_.state = "BODY_PENDING" /\ ~EofInBodyThrows
        /\ message_' = [message_ EXCEPT !.state = "COMPLETE"]
        /\ pc' = "parse"
  /\ UNCHANGED <<Peer, pos, arrived, buffer_, chunk_, requests_, complete_>>
-----------------------------------------------------------------------------
(* parsing_step, one action per case.                                      *)

have_complete_line == find(buffer_, CRLF) # npos
Line == SubSeq(buffer_, 1, find(buffer_, CRLF) - 1)

pop_bytes(n) == buffer_' = SubSeq(buffer_, n + 1, Len(buffer_))
get_and_pop_line == pop_bytes(Len(Line) + Len(CRLF))

\* Nothing can be done before more bytes are read.
NoCompleteLine ==
  /\ pc = "parse"
  /\ message_.state \in {"FIRST_LINE_PENDING", "HEADERS_PENDING"}
  /\ ~have_complete_line
  /\ pc' = "rest"
  /\ UNCHANGED <<Outside, buffer_, message_, chunk_, requests_, complete_>>

\* initialize_new_message: a response takes the request it answers, and throws
\* if there is none.
Unmatched == script.kind = "response" /\ requests_ = <<>>

FirstLinePending ==
  /\ pc = "parse" /\ message_.state = "FIRST_LINE_PENDING"
  /\ have_complete_line
  /\ \/ /\ Unmatched
        /\ pc' = "thrown" /\ UNCHANGED <<buffer_, message_, requests_>>
     \/ /\ ~Unmatched
        /\ message_' =
             [message_ EXCEPT
                !.state = "HEADERS_PENDING", !.first_line = Line,
                !.request = IF script.kind = "request" THEN <<>>
                            ELSE Head(requests_)]
        /\ requests_' = IF script.kind = "request" THEN requests_
                        ELSE Tail(requests_)
        /\ get_and_pop_line
        /\ UNCHANGED pc
  /\ UNCHANGED <<Outside, chunk_, complete_>>

add_header ==
  /\ pc = "parse" /\ message_.state = "HEADERS_PENDING"
  /\ have_complete_line /\ Line # <<>>
  /\ get_and_pop_line
  /\ \E line \in {Line} :
       \/ /\ HasColon(line)
          /\ message_' = [message_ EXCEPT
                            !.headers = Append(@, HTTPHeader(line))]
          /\ UNCHANGED pc
       \/ /\ ~HasColon(line)
          /\ pc' = "thrown" /\ UNCHANGED message_
  /\ UNCHANGED <<Outside, chunk_, requests_, complete_>>
-----------------------------------------------------------------------------
(* calculate_expected_body_size: how the body ends, or "throws".           *)

Method(m) == SubSeq(m.first_line, 1, 2)

ByLength(m) ==
  IF IsInteger(get_header_value(m, "Content-Length"))
  THEN [ends |-> "length",
        size |-> myatoi(get_header_value(m, "Content-Length"))]
  ELSE [ends |-> "throws", size |-> 0]

Nothing == [ends |-> "length", size |-> 0]
Throws == [ends |-> "throws", size |-> 0]

\* HTTPRequest's: it has no body, or a length.
RequestBody(m) ==
  CASE Method(m) \in {<<"GET", " ">>, <<"HEAD", " ">>} -> Nothing
    [] Method(m) = <<"POST", " ">> /\ has_header(m, "Content-Length")
         -> ByLength(m)
    [] OTHER -> Throws

Informational == {<<"100">>, <<"101">>}

status_code(m) == split(m.first_line, " ")[2]

IsChunked(m) ==
  /\ has_header(m, "Transfer-Encoding")
  /\ \E codings \in {split(get_header_value(m, "Transfer-Encoding"), ",")} :
       equivalent_strings(Last(codings), <<"chunked">>)

\* MIMEType::type.
IsByteranges(m) ==
  /\ has_header(m, "Content-Type")
  /\ equivalent_strings(split(get_header_value(m, "Content-Type"), ";")[1],
                        <<"multipart/byteranges">>)

\* HTTPResponse's, the rules of RFC 2616, section 4.4.
ResponseBody(m) ==
  IF Len(split(m.first_line, " ")) < 3 THEN Throws
  ELSE IF \/ status_code(m) \in Informational \cup {<<"204">>, <<"304">>}
          \/ SubSeq(m.request, 1, 2) = <<"HEAD", " ">>
       THEN Nothing
  ELSE IF IsChunked(m) THEN [ends |-> "chunked", size |-> 0]
  ELSE IF ~has_header(m, "Transfer-Encoding")
          /\ has_header(m, "Content-Length")
       THEN ByLength(m)
  ELSE IF IsByteranges(m) THEN Throws
  ELSE [ends |-> "close", size |-> 0]

Body(kind, m) == IF kind = "request" THEN RequestBody(m) ELSE ResponseBody(m)

\* set_expected_body_size and the body parser.
done_with_headers ==
  /\ pc = "parse" /\ message_.state = "HEADERS_PENDING"
  /\ have_complete_line /\ Line = <<>>
  /\ get_and_pop_line
  /\ LET b == Body(script.kind, message_)
     IN  /\ message_' =
              [message_ EXCEPT
                 !.state = "BODY_PENDING",
                 !.known = b.ends = "length", !.expected = b.size,
                 !.parser = IF b.ends \in {"chunked", "close"} THEN b.ends
                            ELSE "none"]
         /\ chunk_' = NewChunkedParser(b.ends = "chunked"
                                         /\ has_header(message_, "Trailer"))
         /\ pc' = IF b.ends = "throws" THEN "thrown" ELSE pc
  /\ UNCHANGED <<Outside, requests_, complete_>>
-----------------------------------------------------------------------------
(* read_in_body.                                                           *)

\* The message has taken n bytes of the buffer.  The assertion of parsing_step:
\* it takes all there are unless it is complete.
TakeInBody(n, done) ==
  /\ message_' = [message_ EXCEPT
                    !.body = @ \o SubSeq(buffer_, 1, n),
                    !.state = IF done THEN "COMPLETE" ELSE @]
  /\ pop_bytes(n)
  /\ pc' = IF ~done /\ n # Len(buffer_) THEN "abort"
           ELSE IF done THEN "parse" ELSE "rest"

\* A body whose size is known.
read_in_body ==
  /\ pc = "parse" /\ message_.state = "BODY_PENDING" /\ message_.known
  /\ LET missing == message_.expected - Len(message_.body)
         amount_to_append ==
           IF missing < Len(buffer_) THEN missing ELSE Len(buffer_)
     IN  TakeInBody(amount_to_append, amount_to_append = missing)
  /\ UNCHANGED <<Outside, chunk_, requests_, complete_>>

\* Rule5BodyParser::read: all of it belongs to the body.
Rule5Read ==
  /\ pc = "parse" /\ message_.state = "BODY_PENDING"
  /\ message_.parser = "close"
  /\ TakeInBody(Len(buffer_), FALSE)
  /\ UNCHANGED <<Outside, chunk_, requests_, complete_>>

\* ChunkedBodyParser::read begins: the buffer becomes its input.
ChunkedRead ==
  /\ pc = "parse" /\ message_.state = "BODY_PENDING"
  /\ message_.parser = "chunked"
  /\ chunk_' = [chunk_ EXCEPT !.buffer = @ \o buffer_, !.input = Len(buffer_)]
  /\ pc' = "chunk"
  /\ UNCHANGED <<Outside, buffer_, message_, requests_, complete_>>

\* All of the input is acknowledged, and more is needed.
AckAll ==
  /\ chunk_' = [chunk_ EXCEPT !.acked = @ + chunk_.input]
  /\ TakeInBody(chunk_.input, FALSE)

\* The first n bytes of the parser's buffer are parsed.
Parsed(n, state, size) ==
  /\ chunk_' = [chunk_ EXCEPT
                  !.buffer = SubSeq(@, n + 1, Len(@)), !.parsed = @ + n,
                  !.state = state, !.size = size]
  /\ UNCHANGED <<buffer_, message_>>

\* get_chunk_size: an extension, and what comes after a space, are cut off.
SizeText(header) == split(split(header, ";")[1], " ")[1]

ChunkHeader ==
  /\ pc = "chunk" /\ chunk_.buffer # <<>> /\ chunk_.state = "CHUNK_HDR"
  /\ LET it == find(chunk_.buffer, CRLF)
         text == SizeText(SubSeq(chunk_.buffer, 1, it - 1))
         size == myatoi(text) % Word
     IN  \/ it = npos /\ AckAll
         \/ /\ it # npos /\ IsInteger(text)
            /\ Parsed(it + 1, IF size = 0 THEN "TRAILER" ELSE "CHUNK", size)
            /\ UNCHANGED pc
         \/ /\ it # npos /\ ~IsInteger(text)
            /\ pc' = "thrown" /\ UNCHANGED <<chunk_, buffer_, message_>>
  /\ UNCHANGED <<Outside, requests_, complete_>>

\* A slip: the end of the chunk is looked for before it has been read.
ChunkLengthShort == chunk_.size

\* How much the parser waits for, in uint32_t.
ChunkLength == (chunk_.size + 2) % Word

Chunk ==
  /\ pc = "chunk" /\ chunk_.buffer # <<>> /\ chunk_.state = "CHUNK"
  /\ LET enough == Len(chunk_.buffer) >= ChunkLength
         ended ==
           /\ chunk_.size + 2 <= Len(chunk_.buffer)
           /\ SubSeq(chunk_.buffer, chunk_.size + 1, chunk_.size + 2) = CRLF
     IN  \/ ~enough /\ AckAll
         \/ /\ enough
            /\ Parsed(ChunkLength, "CHUNK_HDR", chunk_.size)
            /\ pc' = IF ended THEN pc ELSE "abort"
  /\ UNCHANGED <<Outside, requests_, complete_>>

\* What ends the trailer, or comes in its place.
TrailerEnd(trailers) == IF trailers THEN CRLF \o CRLF ELSE CRLF

\* A slip: the whole of the input is taken.
AckedAll(parsed) == chunk_.input

\* compute_ack_size: how much of the input belongs to the body.
Acked(parsed) == parsed - chunk_.acked

Trailer ==
  /\ pc = "chunk" /\ chunk_.buffer # <<>> /\ chunk_.state = "TRAILER"
  /\ LET needle == TrailerEnd(chunk_.trailers)
         loc == find(chunk_.buffer, needle)
         parsed == chunk_.parsed + loc - 1 + Len(needle)
     IN  \/ loc = npos /\ AckAll
         \/ /\ loc # npos
            /\ chunk_' = [chunk_ EXCEPT !.parsed = parsed]
            /\ IF parsed > chunk_.acked THEN TakeInBody(Acked(parsed), TRUE)
               ELSE pc' = "abort" /\ UNCHANGED <<buffer_, message_>>
  /\ UNCHANGED <<Outside, requests_, complete_>>

\* All of the parser's buffer is parsed.
ChunkBufferEmpty ==
  /\ pc = "chunk" /\ chunk_.buffer = <<>>
  /\ AckAll
  /\ UNCHANGED <<Outside, requests_, complete_>>

\* The case COMPLETE of parsing_step.
Complete ==
  /\ pc = "parse" /\ message_.state = "COMPLETE"
  /\ complete_' = Append(complete_,
                         [first_line |-> message_.first_line,
                          headers |-> message_.headers,
                          body |-> message_.body,
                          request |-> message_.request])
  /\ message_' = NewMessage /\ chunk_' = NewChunkedParser(FALSE)
  /\ UNCHANGED <<Outside, buffer_, requests_, pc>>
-----------------------------------------------------------------------------
parsing_step ==
  \/ NoCompleteLine \/ FirstLinePending \/ add_header \/ done_with_headers
  \/ read_in_body \/ Rule5Read \/ ChunkedRead
  \/ ChunkHeader \/ Chunk \/ Trailer \/ ChunkBufferEmpty
  \/ Complete

Next ==
  \/ new_request_arrived
  \/ \E n \in 1..Len(wire) : parse(n)
  \/ parse_eof
  \/ parsing_step

Spec == Init /\ [][Next]_vars
-----------------------------------------------------------------------------
(* What may be sent.  A script is what a peer sends: messages, the kind of *)
(* both, and, for responses, the first lines of the requests they answer.  *)
(* Of a message it says how it ends, whether the parser is to refuse it,   *)
(* and where in its body the headers of chunks start.                      *)

Tokens == STRING \cup {"CR", "LF"}
String == Seq(Tokens)

Messages ==
  [first_line : String,
   headers : Seq([key : String, sep : String, value : String]),
   body : String,
   chunks : SUBSET Nat,
   ends : {"length", "chunked", "close", "refused"}]

\* The first line end is the one that follows it.
IsLine(line) == find(line \o CRLF, CRLF) = Len(line) + 1

\* A key and a value, with a colon, and perhaps some space, in between.
IsHeader(h) ==
  /\ \A j \in DOMAIN h.key : h.key[j] # Colon
  /\ h.sep # <<>> /\ h.sep[1] = Colon
  /\ \A j \in 2..Len(h.sep) : h.sep[j] = Space
  /\ \/ h.value # <<>> /\ h.value[1] # Space
     \/ Len(h.sep) = 1 /\ \A j \in DOMAIN h.value : h.value[j] = Space

\* The message in progress when n of the headers of the i-th have been read.
HeadRead(s, i, n) ==
  [state |-> "HEADERS_PENDING", first_line |-> s.sent[i].first_line,
   headers |-> [j \in 1..n |-> [key |-> s.sent[i].headers[j].key,
                               value |-> s.sent[i].headers[j].value]],
   body |-> <<>>, known |-> FALSE, expected |-> 0, parser |-> "none",
   request |-> IF s.kind = "request" THEN <<>> ELSE s.requests[i]]

WholeHead(s, i) == HeadRead(s, i, Len(s.sent[i].headers))

After(bytes, n) == SubSeq(bytes, n + 1, Len(bytes))

\* Of the chunk whose header starts at c: where its header ends, and its size.
SizeEnd(body, c) == c + find(After(body, c), CRLF) + 1
SizeOf(body, c) == SizeText(SubSeq(body, c + 1, SizeEnd(body, c) - 2))

\* What follows the header: the trailer, or so many bytes and a line end.
IsLastChunk(m, c, trailers) ==
  LET rest == After(m.body, SizeEnd(m.body, c))
      end == TrailerEnd(trailers)
  IN  /\ find(rest, end) # npos
      /\ find(rest, end) + Len(end) - 1 = Len(rest)

IsMiddleChunk(m, c) ==
  LET next == SizeEnd(m.body, c) + myatoi(SizeOf(m.body, c)) + 2
  IN  next \in m.chunks /\ SubSeq(m.body, next - 1, next) = CRLF

\* A body in chunks: the last one ends it.  In one that is to be refused, there
\* is a size that isn't a number in place of the last one.
IsChunkedBody(m, trailers) ==
  /\ 0 \in m.chunks
  /\ \A c \in m.chunks :
       /\ c <= Len(m.body) /\ find(After(m.body, c), CRLF) # npos
       /\ IF ~IsInteger(SizeOf(m.body, c)) THEN m.ends = "refused"
          ELSE /\ myatoi(SizeOf(m.body, c)) + 2 < Word
               /\ IF myatoi(SizeOf(m.body, c)) = 0
                  THEN m.ends = "chunked" /\ IsLastChunk(m, c, trailers)
                  ELSE IsMiddleChunk(m, c)

\* The body is what calculate_expected_body_size takes for it.
HasItsBody(s, i) ==
  LET m == s.sent[i]
      b == Body(s.kind, WholeHead(s, i))
      trailers == has_header(WholeHead(s, i), "Trailer")
  IN  /\ m.ends = "length" => b = [ends |-> "length", size |-> Len(m.body)]
      /\ m.ends = "close" => b.ends = "close" /\ i = Len(s.sent)
      /\ m.ends = "chunked" =>
           b.ends = "chunked" /\ IsChunkedBody(m, trailers)
      /\ m.ends = "refused" =>
           \/ b.ends = "throws"
           \/ b.ends = "chunked" /\ IsChunkedBody(m, trailers)

\* A message to refuse answers no request, has a line without a colon among its
\* headers, or has a body that cannot be read; any other has none of these.
IsMessage(s, i) ==
  LET m == s.sent[i]
      answers == s.kind = "response" => i <= Len(s.requests)
      good(n) == \A j \in 1..n : IsHeader(m.headers[j])
  IN  /\ IsLine(m.first_line)
      /\ \A j \in DOMAIN m.headers :
           HeaderLine(m.headers[j]) # <<>> /\ IsLine(HeaderLine(m.headers[j]))
      /\ \/ answers /\ good(Len(m.headers)) /\ HasItsBody(s, i)
         \/ m.ends = "refused" /\ ~answers
         \/ /\ m.ends = "refused"
            /\ \E j \in DOMAIN m.headers :
                 good(j - 1) /\ ~HasColon(HeaderLine(m.headers[j]))

ASSUME ScriptsAssumption ==
  \A s \in Scripts :
    /\ s.kind \in {"request", "response"}
    /\ s.requests \in Seq(String) /\ s.sent \in Seq(Messages)
    /\ s.kind = "response" => Len(s.requests) <= Len(s.sent)
    /\ \A i \in DOMAIN s.sent : IsMessage(s, i)
-----------------------------------------------------------------------------
\* The i-th message as the proxy is to be given it, with its first n bytes of
\* body and the request it answers.
AsSent(i, n) ==
  LET m == script.sent[i]
  IN  [first_line |-> m.first_line,
       headers |-> [j \in DOMAIN m.headers |->
                      [key |-> m.headers[j].key, value |-> m.headers[j].value]],
       body |-> SubSeq(m.body, 1, n),
       request |-> IF script.kind = "request" THEN <<>>
                   ELSE script.requests[i]]

Whole(k) == [i \in 1..k |-> AsSent(i, Len(script.sent[i].body))]

Accepted(i) == script.sent[i].ends # "refused"

\* The messages that have been read to their ends.
Received ==
  Cardinality({i \in DOMAIN script.sent :
                 script.sent[i].ends # "close" /\ starts[i + 1] <= pos})

\* However the bytes are cut into reads (http_message_sequence.hh:140), the
\* parser hands on the messages that have been sent, each as soon as its last
\* byte is there and each with the request it answers; it throws only in one it
\* is to refuse, and hands on none of those.
FramedAsSent ==
  pc \in {"rest", "thrown"} /\ ~eof =>
    /\ complete_ = Whole(Len(complete_))
    /\ \A i \in DOMAIN complete_ : Accepted(i)
    /\ pc = "rest" => Len(complete_) = Received
    /\ pc = "thrown" => ~Accepted(Len(complete_) + 1)

\* The end of file (http_message.cc:68) ends a body that is chunked or has no
\* length, with what there is of it; between messages, and in a first line, it
\* changes nothing; in the headers, or in a body with a length, it throws.
EndedAsSent ==
  pc \in {"rest", "thrown"} /\ eof =>
    LET i == Received + 1
        cut == i <= Len(script.sent) /\ pos >= LineEnd(i)
        ends == cut /\ pos >= HeadEnd(i)
                    /\ script.sent[i].ends \in {"chunked", "close"}
    IN  (i > Len(script.sent) \/ Accepted(i)) =>
        /\ (pc = "thrown") <=> (cut /\ ~ends)
        /\ complete_ = IF ends THEN Append(Whole(i - 1),
                                           AsSent(i, pos - HeadEnd(i)))
                       ELSE Whole(i - 1)

\* The parsers' assertions hold for messages that are well formed: a chunk ends
\* with CRLF (chunked_parser.cc:63), and the parser takes all of its buffer
\* unless the message is complete (http_message_sequence.hh:125).
AssertionsHold == pc # "abort"

=============================================================================
