--------------------------- MODULE MCHTTPMessages ---------------------------
(***************************************************************************)
(* What is sent in the run of HTTPMessages: messages of every kind the     *)
(* rules of calculate_expected_body_size tell apart, pipelined, with       *)
(* bodies that hold the bytes the parser looks for.                        *)
(***************************************************************************)
EXTENDS HTTPMessages

Header(key, pad, value) ==
  [key |-> key, sep |-> <<":">> \o pad, value |-> value]
NoColon == [key |-> <<"no">>, sep |-> <<>>, value |-> <<>>]

Length(n) == Header(<<"Content-Length">>, <<" ">>, <<n>>)
Chunks == Header(<<"TRANSFER-ENCODING">>, <<>>, <<"gzip", ",", " ", "Chunked">>)
Plain == Header(<<"Host">>, <<" ", " ">>, <<"h", ":", "p">>)
Blank == Header(<<"Accept">>, <<>>, <<" ">>)
Announced == Header(<<"Trailer">>, <<" ">>, <<"Expires">>)

Message(first_line, headers, body, ends) ==
  [first_line |-> first_line, headers |-> headers, body |-> body,
   chunks |-> {}, ends |-> ends]
Chunked(message, chunks) == [message EXCEPT !.chunks = chunks]

Get == <<"GET", " ", "/">>
Head_ == <<"HEAD", " ", "/">>
Post == <<"POST", " ", "/">>

Status(code) == <<"HTTP/1.1", " ", code, " ", "reason">>

\* A chunk that holds a line end, an extension, a size followed by a space, and
\* a trailer.
ChunkedBody ==
  <<"3", ";", "x", "CR", "LF", "a", "CR", "LF", "CR", "LF",
    "1", " ", "CR", "LF", "b", "CR", "LF", "0", "CR", "LF">>
Ended == ChunkedBody \o CRLF
Trailers == ChunkedBody \o <<"Expires", ":", "e">> \o CRLF \o CRLF

Ok(headers, body, ends) == Message(Status("200"), headers, body, ends)
Short == Ok(<<Length("3")>>, <<"CR", "LF", "CR">>, "length")

RequestsOf(sent) == [kind |-> "request", sent |-> sent, requests |-> <<>>]
ResponsesTo(requests, sent) ==
  [kind |-> "response", sent |-> sent, requests |-> requests]

MCScripts ==
  { RequestsOf(<<Message(Get, <<Plain, Blank>>, <<>>, "length"),
               Message(Post, <<Header(<<"CONTENT-LENGTH">>, <<>>, <<"4">>)>>,
                       <<"CR", "LF", "CR", "LF">>, "length"),
               Message(Head_, <<>>, <<>>, "length")>>),
    RequestsOf(<<Message(Post, <<Plain>>, <<>>, "refused")>>),
    RequestsOf(<<Message(Get, <<Length("5")>>, <<>>, "length"),
               Message(<<"PUT", " ", "/">>, <<Length("1")>>, <<"a">>,
                       "refused")>>),
    \* with and without trailers, followed by the next answer
    ResponsesTo(<<Get, Get>>,
                <<Chunked(Ok(<<Chunks>>, Ended, "chunked"), {0, 10, 17}),
                  Short>>),
    ResponsesTo(<<Get, Get>>,
              <<Chunked(Ok(<<Chunks, Announced>>, Trailers, "chunked"),
                        {0, 10, 17}),
                Short>>),
    \* the longest chunk whose end can be counted in a Word
    ResponsesTo(<<Get, Get, Get>>,
                <<Chunked(Ok(<<Chunks>>,
                     <<"5", "CR", "LF", "1", "CR", "LF", "0", "CR">> \o CRLF
                       \o <<"0">> \o CRLF \o CRLF, "chunked"), {0, 10}),
                  Chunked(Ok(<<Chunks>>, <<"0">> \o CRLF \o CRLF, "chunked"),
                          {0}),
                  Short>>),
    \* no body, whatever the headers say
    ResponsesTo(<<Head_, Get, Get>>,
              <<Ok(<<Length("3")>>, <<>>, "length"),
                Message(Status("304"), <<Length("2")>>, <<>>, "length"),
                Short>>),
    \* the end of the connection ends the body
    ResponsesTo(<<Get, Get>>,
              <<Short, Ok(<<Plain>>, <<"a", "CR", "LF", "CR", "LF">>,
                          "close")>>),
    \* an encoding that is not chunked; a length that comes with it is ignored
    ResponsesTo(<<Get>>,
              <<Ok(<<Length("1"), Header(<<"Transfer-Encoding">>, <<>>,
                                         <<"chunked", ",", "gzip">>)>>,
                   <<"a", "b">>, "close")>>),
    \* an interim answer takes the request, and the final one is refused
    ResponsesTo(<<Post>>,
              <<Message(Status("100"), <<>>, <<>>, "length"),
                Ok(<<Length("1")>>, <<"a">>, "refused")>>),
    \* what the parser does not support, or cannot read
    ResponsesTo(<<Get>>,
              <<Ok(<<Header(<<"Content-Type">>, <<" ">>,
                            <<"multipart/byteranges", ";", "x">>)>>,
                   <<>>, "refused")>>),
    ResponsesTo(<<Get>>, <<Message(<<"HTTP/1.1", " ", "200">>, <<>>, <<>>,
                                 "refused")>>),
    ResponsesTo(<<Get>>, <<Ok(<<Length("x")>>, <<>>, "refused")>>),
    ResponsesTo(<<Get>>,
                <<Chunked(Ok(<<Chunks>>, <<"x", "CR", "LF">>, "refused"),
                          {0})>>),
    ResponsesTo(<<Get, Get>>,
                <<Chunked(Ok(<<Chunks>>, <<"1", "CR", "LF", "a", "CR", "LF",
                                        "x", "CR", "LF">>, "refused"),
                          {0, 6}),
                  Short>>),
    ResponsesTo(<<Get>>, <<Ok(<<Plain, NoColon>>, <<>>, "refused")>>) }

=============================================================================
