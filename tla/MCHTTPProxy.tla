---------------------------- MODULE MCHTTPProxy ----------------------------
(* Small instances of HTTPProxy: scripts of up to four requests.           *)
EXTENDS HTTPProxy

Plain == [key |-> FALSE, count |-> FALSE]
Lambda == [key |-> TRUE, count |-> FALSE]
RunInstances == [key |-> TRUE, count |-> TRUE]
Part == [ids |-> FALSE, toEof |-> FALSE]
IdPart == [ids |-> TRUE, toEof |-> FALSE]
EofPart == [ids |-> FALSE, toEof |-> TRUE]

\* Plain requests and invocations, one of them in two parts.
MCScript ==
  <<<<Plain>>, <<Plain>>, <<Lambda>>, <<RunInstances, Plain>>>>
MCReplies == <<<<Part, IdPart>>, <<Part>>, <<Part>>, <<Part, EofPart>>>>

\* An invocation behind a plain request.
KeyAfterPlain == <<<<Plain>>, <<Lambda>>>>
TwoReplies == <<<<Part, Part>>, <<Part>>>>

\* An invocation with its keyword in the head, and its body in a part of its
\* own.
HeadAndBody == <<<<Lambda, Plain>>>>
OneReply == <<<<Part>>>>
=============================================================================
