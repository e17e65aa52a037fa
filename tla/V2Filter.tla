------------------------------ MODULE V2Filter ------------------------------
(***************************************************************************)
(* The cloud-resource filters (src/src/http/v2filter_client.hh and         *)
(* v2filter_server.hh), run by the connection threads of the HTTP proxy on *)
(* every buffer they read, over the one shared CloudResourceList.          *)
(*                                                                         *)
(* A step is what a thread does between two points where another thread    *)
(* can matter: one locked invoke_resource, the search of the unlocked      *)
(* assign_resource_id, its write.  The write may meet a vector that a      *)
(* push_back has moved since the search: it is then lost, or the process   *)
(* dies, which is the behaviour that stops there.                          *)
(***************************************************************************)
EXTENDS CloudResourceList, FiniteSetsExt

CONSTANTS Threads,        \* connection threads
          ClientBuffers,  \* what a client may send in one read
          MaxIds,         \* bound: instance ids in one server buffer
          MaxResources    \* bound: no new request once this many are listed

\* What limit_resource looks for in a read: "ec2" with "RunInstances" (with a
\* MaxCount and POST when normal), and "lambda"; and what it does not look at:
\* the digit that may stand sizeof(std::string) characters after the first of
\* the count, the requests after the first of each type.
NoDigit == 10
ClientBuffer == [ec2 : BOOLEAN, normal : BOOLEAN, count : Int,
                 behind : 0..NoDigit,  \* that digit, or NoDigit
                 more : Nat,           \* instances further requests ask for
                 lambdas : Nat]        \* lambda requests

ASSUME ClientBuffersAssumption == ClientBuffers \subseteq ClientBuffer
ASSUME BoundsAssumption == MaxIds \in Nat /\ MaxResources \in Nat
ASSUME ThreadsAssumption == IsFiniteSet(Threads)

VARIABLES pc,        \* where each thread is
          buf,       \* the client buffer it filters
          left,      \* ec2 invocations invoke_many_resources has still to try
          got,       \* successful_invokes
          msg,       \* client_message: original, rewritten or BLOCKED
          taken,     \* quota slots this filter call has used
          ids,       \* instance ids still to assign from a server buffer
          at,        \* the resource the unlocked search found
          stale,     \* the vector has moved since that search
          launched,  \* instances the cloud has started
          delivered, \* resources asked for in the messages forwarded
          reported,  \* ids assign_resource_id has returned for
          misread,   \* a read was forwarded that asks for more than it seems
          raced,     \* an unlocked access has overlapped another thread's
          printed    \* the ids print_resources listed, at shutdown

callVars == <<buf, left, got, msg, taken>>
assignVars == <<ids, at, stale>>
historyVars == <<delivered, misread, reported, raced>>
vars == <<list, pc, callVars, assignVars, launched, historyVars, printed>>

Pcs == {"idle", "invoke_many", "lambda", "deliver", "scan", "store", "dead"}
Messages == {"original", "rewritten", "BLOCKED"}
NotPrinted == {NoId}

TypeOK ==
  /\ ListType
  /\ pc \in [Threads -> Pcs]
  /\ buf \in [Threads -> ClientBuffer]
  /\ left \in [Threads -> Int]
  /\ got \in [Threads -> Nat]
  /\ msg \in [Threads -> Messages]
  /\ taken \in [Threads -> Nat]
  /\ ids \in [Threads -> Seq(InstanceIds)]
  /\ at \in [Threads -> Nat]
  /\ stale \in [Threads -> BOOLEAN]
  /\ launched \subseteq InstanceIds
  /\ delivered \in Int
  /\ reported \subseteq InstanceIds
  /\ misread \in BOOLEAN
  /\ raced \in BOOLEAN
  /\ printed \subseteq InstanceIds \cup {NoId}

NoBuffer == [ec2 |-> FALSE, normal |-> FALSE, count |-> 0,
             behind |-> NoDigit, more |-> 0, lambdas |-> 0]

Init ==
  /\ ListInit
  /\ pc = [t \in Threads |-> "idle"]
  /\ buf = [t \in Threads |-> NoBuffer]
  /\ left = [t \in Threads |-> 0]
  /\ got = [t \in Threads |-> 0]
  /\ msg = [t \in Threads |-> "original"]
  /\ taken = [t \in Threads |-> 0]
  /\ ids = [t \in Threads |-> << >>]
  /\ at = [t \in Threads |-> 0]
  /\ stale = [t \in Threads |-> FALSE]
  /\ launched = {}
  /\ delivered = 0
  /\ reported = {}
  /\ misread = FALSE
  /\ raced = FALSE
  /\ printed = NotPrinted
-----------------------------------------------------------------------------
(* limit_resource.  The map of keywords is searched in order, ec2 first.   *)

AfterEc2(b) == IF b.lambdas > 0 THEN "lambda" ELSE "deliver"

FirstCheck(b) ==
  IF ~b.ec2 THEN AfterEc2(b) ELSE IF b.normal THEN "invoke_many" ELSE "dead"

\* A read from the client.  A RunInstances request without a count is
\* "abnormal": the exception ends the connection's thread.
ClientRead(t) ==
  /\ pc[t] = "idle"
  /\ get_total_resource_count < MaxResources
  /\ \E b \in ClientBuffers :
       /\ buf' = [buf EXCEPT ![t] = b]
       /\ left' = [left EXCEPT ![t] = b.count]
       /\ pc' = [pc EXCEPT ![t] = FirstCheck(b)]
  /\ got' = [got EXCEPT ![t] = 0]
  /\ taken' = [taken EXCEPT ![t] = 0]
  /\ msg' = [msg EXCEPT ![t] = "original"]
  /\ UNCHANGED <<list, assignVars, launched, historyVars, printed>>

Granted == IF HasRoom THEN 1 ELSE 0

\* Threads whose search result points into a vector that is about to move.
Overtaken == IF Reallocates THEN {u \in Threads : pc[u] = "store"} ELSE {}

\* A call of invoke_resource by thread t.
Invoke(t, type) ==
  /\ InvokeResource(type)
  /\ taken' = [taken EXCEPT ![t] = @ + Granted]
  /\ stale' = [u \in Threads |-> stale[u] \/ u \in Overtaken]
  /\ raced' = (raced \/ Overtaken # {})

\* One iteration of invoke_many_resources.
InvokeMany(t) ==
  /\ pc[t] = "invoke_many" /\ left[t] > 0
  /\ Invoke(t, "ec2")
  /\ left' = [left EXCEPT ![t] = @ - 1]
  /\ got' = [got EXCEPT ![t] = @ + Granted]
  /\ UNCHANGED <<pc, buf, msg, ids, at, launched, delivered, misread,
                 reported, printed>>

\* A slip: a request granted in part is blocked.
RewriteOnlyIfAll(t) ==
  /\ pc[t] = "invoke_many" /\ left[t] <= 0
  /\ msg' = [msg EXCEPT ![t] =
                IF got[t] < buf[t].count THEN "BLOCKED" ELSE "rewritten"]
  /\ pc' = [pc EXCEPT ![t] = AfterEc2(buf[t])]
  /\ UNCHANGED <<list, buf, left, got, taken, assignVars, launched,
                 historyVars, printed>>

\* After its last iteration: nothing granted blocks the request, anything
\* else, all of them too, puts the number granted in the request.
Rewrite(t) ==
  /\ pc[t] = "invoke_many" /\ left[t] <= 0
  /\ msg' = [msg EXCEPT ![t] = IF got[t] = 0 THEN "BLOCKED" ELSE "rewritten"]
  /\ pc' = [pc EXCEPT ![t] = AfterEc2(buf[t])]
  /\ UNCHANGED <<list, buf, left, got, taken, assignVars, launched,
                 historyVars, printed>>

InvokeLambda(t) ==
  /\ pc[t] = "lambda"
  /\ Invoke(t, "lambda")
  /\ msg' = [msg EXCEPT ![t] = IF HasRoom THEN @ ELSE "BLOCKED"]
  /\ pc' = [pc EXCEPT ![t] = "deliver"]
  /\ UNCHANGED <<buf, left, got, ids, at, launched, delivered, misread,
                 reported, printed>>

\* A slip: the request goes out with the count it came with.
Ec2AskedFirst(t) ==
  IF buf[t].ec2 THEN buf[t].count + buf[t].more ELSE 0

\* The ec2 instances a client message asks the cloud for.  The number granted
\* takes the place of sizeof(std::string) characters, or of all that are left:
\* digits that come next in the message are read as part of it.
Ec2Asked(t) ==
  LET b == buf[t]
      first == IF msg[t] # "rewritten" THEN b.count
               ELSE IF b.behind = NoDigit THEN got[t]
               ELSE 10 * got[t] + b.behind
  IN  IF b.ec2 THEN first + b.more ELSE 0

\* More than the filter has counted: a second request in the same read, or
\* digits that run into the number granted.
AsksForMore(t) ==
  \/ buf[t].lambdas > 1 \/ buf[t].more > 0
  \/ msg[t] = "rewritten" /\ buf[t].behind # NoDigit

\* The filter returns.  A message that is not BLOCKED goes to the cloud,
\* which starts up to as many instances as it asks for; a BLOCKED one is
\* answered by the proxy.
Deliver(t) ==
  /\ pc[t] = "deliver"
  /\ pc' = [pc EXCEPT ![t] = "idle"]
  /\ taken' = [taken EXCEPT ![t] = 0]
  /\ IF msg[t] = "BLOCKED" THEN UNCHANGED <<launched, delivered, misread>>
     ELSE /\ delivered' = delivered + Ec2Asked(t) + buf[t].lambdas
          /\ misread' = (misread \/ AsksForMore(t))
          /\ \E new \in SUBSET (InstanceIds \ launched) :
               /\ Cardinality(new) <= Ec2Asked(t)
               /\ launched' = launched \cup new
  /\ UNCHANGED <<list, buf, left, got, msg, assignVars, reported, raced,
                 printed>>
-----------------------------------------------------------------------------
(* collect_resource_data.  A server buffer holds the instance ids of a     *)
(* RunInstances response, or of any other response that names instances.   *)

ServerRead(t) ==
  /\ pc[t] = "idle"
  /\ \E n \in 1..MaxIds : \E s \in [1..n -> launched] :
       ids' = [ids EXCEPT ![t] = s]
  /\ pc' = [pc EXCEPT ![t] = "scan"]
  /\ UNCHANGED <<list, callVars, at, stale, launched, historyVars, printed>>

\* The loop of assign_resource_id up to the resource it picks.
AssignScan(t) ==
  /\ pc[t] = "scan"
  /\ \E i \in Unassigned("ec2") :
       /\ IsFirst(i, Unassigned("ec2"))
       /\ at' = [at EXCEPT ![t] = i]
       /\ raced' = (raced \/ \E u \in Threads : pc[u] = "store" /\ at[u] = i)
  /\ stale' = [stale EXCEPT ![t] = FALSE]
  /\ pc' = [pc EXCEPT ![t] = "store"]
  /\ UNCHANGED <<list, callVars, ids, launched, delivered, misread, reported,
                 printed>>

\* set_serial_identifier, through the reference the search found.
AssignStore(t) ==
  /\ pc[t] = "store"
  /\ IF stale[t] THEN UNCHANGED list
                 ELSE set_serial_identifier(at[t], Head(ids[t]))
  /\ reported' = reported \cup {Head(ids[t])}
  /\ ids' = [ids EXCEPT ![t] = Tail(@)]
  /\ pc' = [pc EXCEPT ![t] = IF Len(ids[t]) = 1 THEN "idle" ELSE "scan"]
  /\ UNCHANGED <<callVars, at, stale, launched, delivered, misread, raced,
                 printed>>

\* No resource without an id is left: runtime_error, caught in the lambda of
\* handle_tcp, where the connection's thread ends.
AssignThrow(t) ==
  /\ pc[t] = "scan"
  /\ Unassigned("ec2") = {}
  /\ pc' = [pc EXCEPT ![t] = "dead"]
  /\ UNCHANGED <<list, callVars, assignVars, launched, historyVars, printed>>
-----------------------------------------------------------------------------
\* handle_tcp starts another thread for the next connection.
NewConnection(t) ==
  /\ pc[t] = "dead"
  /\ pc' = [pc EXCEPT ![t] = "idle"]
  /\ UNCHANGED <<list, callVars, assignVars, launched, historyVars, printed>>

\* print_resources, called by the recorder's main thread on a signal while
\* the connection threads run on.
PrintResources ==
  /\ printed = NotPrinted
  /\ printed' = TerminatedIds
  /\ UNCHANGED <<list, pc, callVars, assignVars, launched, historyVars>>

ThreadStep(t) ==
  \/ ClientRead(t) \/ InvokeMany(t) \/ Rewrite(t) \/ InvokeLambda(t)
  \/ Deliver(t)
  \/ ServerRead(t) \/ AssignScan(t) \/ AssignStore(t) \/ AssignThrow(t)
  \/ NewConnection(t)

Next == PrintResources \/ \E t \in Threads : ThreadStep(t)

Spec == Init /\ [][Next]_vars
-----------------------------------------------------------------------------
\* invoke_resource under contention: ids are given out in the order of
\* admission with no gap and no repetition, the limit is never exceeded, and
\* a resource is refused only after the limit was reached.
AdmissionOrder ==
  /\ Len(list["invoked"]) <= InvokeLimit
  /\ \A i \in DOMAIN list["invoked"] : list["invoked"][i].counter = i - 1
  /\ \A i \in DOMAIN list["blocked"] :
       /\ Len(list["invoked"]) = InvokeLimit
       /\ list["blocked"][i].counter = InvokeLimit + i - 1

\* The list implements a quota that is exact for every number of threads.
Quota == INSTANCE ResourceQuota WITH
           Limit <- InvokeLimit,
           granted <- Len(list["invoked"]),
           refused <- Len(list["blocked"])
QuotaIsExact == Quota!QuotaSpec

InCalls == MapThenSumSet(LAMBDA t : taken[t], Threads)

\* limit_resource: the resources asked for in forwarded messages, with those
\* that calls under way hold, never exceed what the list has granted: a
\* request above the quota is blocked or cut down whatever the interleaving.
\* This ends with the first message forwarded that holds a second request, or
\* digits where the rewrite runs the number granted into them
\* (v2filter_client.hh:69-71, :90): the filter does not count these.
DeliveredWithinQuota ==
  ~misread => delivered + InCalls <= Len(list["invoked"])

\* limit_resource: a BLOCKED request has used no slot of the quota, unless
\* its buffer names both types and one was granted before the other was
\* refused.
BlockedCostsNothing ==
  \A t \in Threads :
    pc[t] = "deliver" /\ msg[t] = "BLOCKED" /\ taken[t] > 0 =>
      buf[t].ec2 /\ buf[t].lambdas > 0

\* assign_resource_id: as long as no unlocked access has overlapped another
\* thread's, every id it has returned for is kept on some resource, so that
\* print_resources can list it.
ReportedIdsKept ==
  ~raced =>
    \A id \in reported : \E i \in DOMAIN list["invoked"] :
      list["invoked"][i].type = "ec2" /\ list["invoked"][i].serial = id
-----------------------------------------------------------------------------
(* What a comment of the code says, and the code does not do.              *)

\* cloud_resource_list.cc:100 "more instance ids than allowed cloud
\* resources" is why assign_resource_id throws.
ThrowsOnlyOnExcessIds ==
  \A t \in Threads :
    pc[t] = "scan" /\ Unassigned("ec2") = {} =>
      Cardinality(reported \cup {Head(ids[t])}) >
        Cardinality({i \in DOMAIN list["invoked"] :
                       list["invoked"][i].type = "ec2"})
=============================================================================
