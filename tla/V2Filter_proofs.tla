-------------------------- MODULE V2Filter_proofs --------------------------
(***************************************************************************)
(* Proofs about V2Filter for any number of threads, any limit and any      *)
(* client buffers.                                                         *)
(***************************************************************************)
EXTENDS V2Filter, SequenceTheorems, TLAPS

\* The facts about sums over the threads (and, with an operator that is not
\* used here, about folds of sequences).
Plus(m, n) == m + n
Facts == INSTANCE FoldFacts WITH Op <- Plus

\* The part of the state that only invoke_resource and
\* set_serial_identifier change.
ListInv == ListType /\ AdmissionOrder

\* A locked invoke_resource keeps the list well formed and in admission
\* order: the counter it takes is the number of resources already listed.
LEMMA InvokeKeepsOrder ==
  ASSUME ListInv, NEW type \in ResourceTypes, InvokeResource(type)
  PROVE  ListInv'
<1> DEFINE inv == list["invoked"]
           blk == list["blocked"]
           curr == [type |-> type, counter |-> get_total_resource_count,
                    serial |-> NoId]
<1>0. /\ inv \in Seq(CloudResource) /\ blk \in Seq(CloudResource)
      /\ InvokeLimit \in Nat
      /\ list = [c \in Categories |-> list[c]]
  BY InvokeLimitAssumption DEF ListInv, ListType, Categories
<1>a. /\ Len(inv) \in Nat /\ DOMAIN inv = 1..Len(inv)
      /\ Len(blk) \in Nat /\ DOMAIN blk = 1..Len(blk)
  BY <1>0, LenProperties
<1>1. curr \in CloudResource /\ curr.counter = Len(inv) + Len(blk)
  <2>1. get_total_resource_count = Len(inv) + Len(blk)
    BY DEF get_total_resource_count
  <2>2. get_total_resource_count \in Nat
    <3>1. \A m, n \in Nat : m + n \in Nat
      OBVIOUS
    <3> QED BY <1>a, <3>1, <2>1, Zenon
  <2>3. curr.counter = get_total_resource_count
    OBVIOUS
  <2>4. curr \in CloudResource
    BY <2>2, Zenon DEF CloudResource
  <2> QED BY <2>1, <2>3, <2>4
<1> HIDE DEF curr
<1>2. CASE HasRoom
  <2>1. /\ list'["invoked"] = Append(inv, curr)
        /\ list'["blocked"] = blk
        /\ list' \in [Categories -> Seq(CloudResource)]
    BY <1>0, <1>1, <1>2 DEF InvokeResource, Categories, ListInv, ListType, curr
  <2>2. /\ Len(list'["invoked"]) = Len(inv) + 1
        /\ \A i \in 1..Len(inv) : list'["invoked"][i] = inv[i]
        /\ list'["invoked"][Len(inv) + 1] = curr
    BY <2>1, <1>0, <1>1, AppendProperties
  <2>3. Len(blk) = 0
    <3> SUFFICES ASSUME Len(blk) > 0 PROVE FALSE
      BY <1>a
    <3>1. 1 \in DOMAIN blk
      BY <1>a
    <3>2. Len(inv) = InvokeLimit
      BY <3>1 DEF ListInv, AdmissionOrder
    <3> QED BY <3>2, <1>0, <1>2 DEF HasRoom
  <2>4. DOMAIN list'["invoked"] = 1..(Len(inv) + 1)
    <3>1. list'["invoked"] \in Seq(CloudResource)
      BY <2>1 DEF Categories
    <3> QED BY <3>1, <2>2, LenProperties
  <2>5. \A i \in DOMAIN list'["invoked"] : list'["invoked"][i].counter = i - 1
    <3> SUFFICES ASSUME NEW i \in 1..(Len(inv) + 1)
                 PROVE  list'["invoked"][i].counter = i - 1
      BY <2>4
    <3>1. CASE i = Len(inv) + 1
      BY <3>1, <2>2, <2>3, <1>1, <1>a
    <3>2. CASE i \in 1..Len(inv)
      BY <3>2, <2>2, <1>a DEF ListInv, AdmissionOrder
    <3> QED BY <3>1, <3>2, <1>a
  <2>6. Len(list'["invoked"]) <= InvokeLimit
    BY <2>2, <1>0, <1>2 DEF HasRoom
  <2>7. DOMAIN list'["blocked"] = {}
    BY <2>1, <2>3, LenProperties, <1>0
  <2> QED BY <2>1, <2>5, <2>6, <2>7 DEF ListInv, ListType, AdmissionOrder
<1>3. CASE ~HasRoom
  <2>1. /\ list'["blocked"] = Append(blk, curr)
        /\ list'["invoked"] = inv
        /\ list' \in [Categories -> Seq(CloudResource)]
    BY <1>0, <1>1, <1>3 DEF InvokeResource, Categories, ListInv, ListType, curr
  <2>2. Len(inv) = InvokeLimit
    BY <1>0, <1>3 DEF HasRoom, ListInv, AdmissionOrder
  <2>3. /\ Len(list'["blocked"]) = Len(blk) + 1
        /\ \A i \in 1..Len(blk) : list'["blocked"][i] = blk[i]
        /\ list'["blocked"][Len(blk) + 1] = curr
    BY <2>1, <1>0, <1>1, AppendProperties
  <2>4. DOMAIN list'["blocked"] = 1..(Len(blk) + 1)
    <3>1. list'["blocked"] \in Seq(CloudResource)
      BY <2>1 DEF Categories
    <3> QED BY <3>1, <2>3, LenProperties
  <2>5. \A i \in DOMAIN list'["blocked"] :
          list'["blocked"][i].counter = InvokeLimit + i - 1
    <3> SUFFICES ASSUME NEW i \in 1..(Len(blk) + 1)
                 PROVE  list'["blocked"][i].counter = InvokeLimit + i - 1
      BY <2>4
    <3>1. CASE i = Len(blk) + 1
      BY <3>1, <2>2, <2>3, <1>1, <1>a
    <3>2. CASE i \in 1..Len(blk)
      BY <3>2, <2>3, <1>a DEF ListInv, AdmissionOrder
    <3> QED BY <3>1, <3>2, <1>a
  <2> QED BY <2>1, <2>2, <2>5 DEF ListInv, ListType, AdmissionOrder
<1> QED BY <1>2, <1>3

\* Recording an instance id leaves the order of admission alone, whichever
\* index the unlocked search came up with.
LEMMA SetKeepsOrder ==
  ASSUME ListInv, NEW i \in Nat, NEW id \in InstanceIds,
         set_serial_identifier(i, id)
  PROVE  /\ ListInv'
         /\ Len(list'["invoked"]) = Len(list["invoked"])
         /\ list'["blocked"] = list["blocked"]
<1> DEFINE inv == list["invoked"]
           new == [inv EXCEPT ![i].serial = id]
<1>1. /\ inv \in Seq(CloudResource) /\ list["blocked"] \in Seq(CloudResource)
      /\ Len(inv) \in Nat /\ DOMAIN inv = 1..Len(inv)
  <2>1. inv \in Seq(CloudResource) /\ list["blocked"] \in Seq(CloudResource)
    BY DEF ListInv, ListType, Categories
  <2> QED BY <2>1, LenProperties
<1>2. /\ list'["invoked"] = new
      /\ list'["blocked"] = list["blocked"]
      /\ list' = [list EXCEPT !["invoked"] = new]
  BY DEF set_serial_identifier, ListInv, ListType, Categories
<1>3. /\ new \in Seq(CloudResource)
      /\ Len(new) = Len(inv) /\ DOMAIN new = DOMAIN inv
      /\ \A j \in DOMAIN inv : new[j].counter = inv[j].counter
  <2>1. CASE i \notin DOMAIN inv
    <3>1. new = inv
      BY <2>1, <1>1
    <3> QED BY <3>1, <1>1
  <2>2. CASE i \in DOMAIN inv
    <3> DEFINE r == [inv[i] EXCEPT !.serial = id]
    <3>1. inv[i] \in CloudResource
      BY <2>2, <1>1, ElementOfSeq
    <3>2. r \in CloudResource /\ r.counter = inv[i].counter
      BY <3>1 DEF CloudResource
    <3>3. new = [inv EXCEPT ![i] = r]
      OBVIOUS
    <3> HIDE DEF r, new
    <3>4. /\ new \in Seq(CloudResource) /\ Len(new) = Len(inv)
          /\ \A j \in 1..Len(inv) : new[j] = IF j = i THEN r ELSE inv[j]
      BY <3>2, <3>3, <2>2, <1>1, ExceptSeq
    <3>5. DOMAIN new = DOMAIN inv
      BY <3>4, <1>1, LenProperties
    <3> QED BY <3>2, <3>4, <3>5, <1>1
  <2> QED BY <2>1, <2>2
<1> HIDE DEF new
<1>4. ListType'
  BY <1>2, <1>3 DEF ListInv, ListType, Categories
<1>5. AdmissionOrder'
  BY <1>1, <1>2, <1>3 DEF ListInv, AdmissionOrder
<1> QED BY <1>2, <1>3, <1>4, <1>5 DEF ListInv
-----------------------------------------------------------------------------
\* A thread between reading a server buffer and its last assignment has an
\* instance id in hand.
IdsPending ==
  \A t \in Threads : pc[t] \in {"scan", "store"} => Len(ids[t]) > 0

IInv == TypeOK /\ AdmissionOrder /\ IdsPending

\* The list starts empty, with no thread in a call.
LEMMA InitIInv == Init => IInv
<1> SUFFICES ASSUME Init PROVE IInv
  OBVIOUS
<1> USE DEF Init, ListInit
<1>1. ListType
  BY EmptySeq DEF ListType, Categories
<1>2. AdmissionOrder
  <2>1. list["invoked"] = << >> /\ list["blocked"] = << >>
    BY DEF Categories
  <2> QED BY <2>1, InvokeLimitAssumption DEF AdmissionOrder
<1>3. NoBuffer \in ClientBuffer
  BY DEF NoBuffer, ClientBuffer, NoDigit
<1>4. << >> \in Seq(InstanceIds)
  BY EmptySeq
<1>5. ids \in [Threads -> Seq(InstanceIds)]
  BY <1>4
<1>6. TypeOK
  <2>1. buf \in [Threads -> ClientBuffer]
    BY <1>3
  <2>2. pc \in [Threads -> Pcs] /\ msg \in [Threads -> Messages]
    BY DEF Pcs, Messages
  <2>3. /\ left \in [Threads -> Int] /\ got \in [Threads -> Nat]
        /\ taken \in [Threads -> Nat] /\ at \in [Threads -> Nat]
        /\ stale \in [Threads -> BOOLEAN] /\ delivered \in Int
    OBVIOUS
  <2>4. printed \subseteq InstanceIds \cup {NoId}
    BY DEF NotPrinted
  <2> QED BY <1>1, <1>5, <2>1, <2>2, <2>3, <2>4 DEF TypeOK
<1>7. IdsPending
  BY DEF IdsPending
<1> QED BY <1>2, <1>6, <1>7 DEF IInv

\* The types of what Invoke changes beside the list.
LEMMA InvokeTypes ==
  ASSUME TypeOK, NEW t \in Threads, NEW type \in ResourceTypes,
         Invoke(t, type)
  PROVE  /\ taken' \in [Threads -> Nat]
         /\ stale' \in [Threads -> BOOLEAN]
         /\ raced' \in BOOLEAN
         /\ Granted \in Nat
<1>1. Granted \in Nat
  BY DEF Granted
<1>2. taken' \in [Threads -> Nat]
  BY <1>1 DEF Invoke, TypeOK
<1>3. stale' \in [Threads -> BOOLEAN]
  BY DEF Invoke, TypeOK
<1>4. raced' \in BOOLEAN
  BY DEF Invoke, TypeOK
<1> QED BY <1>1, <1>2, <1>3, <1>4

\* No step of a thread breaks the order of admission.
LEMMA NextIInv == IInv /\ [Next]_vars => IInv'
<1> SUFFICES ASSUME IInv, [Next]_vars PROVE IInv'
  OBVIOUS
<1>a. ListInv /\ TypeOK /\ IdsPending /\ AdmissionOrder
  BY DEF IInv, ListInv, TypeOK
<1>b. ASSUME UNCHANGED list PROVE ListType' /\ AdmissionOrder'
  BY <1>a, <1>b DEF ListType, AdmissionOrder, TypeOK
<1>1. CASE UNCHANGED vars
  BY <1>1, <1>a DEF vars, callVars, assignVars, historyVars, IInv, TypeOK,
                    ListType, AdmissionOrder, IdsPending
<1>2. CASE PrintResources
  <2>1. TerminatedIds \subseteq InstanceIds
    <3>1. list["invoked"] \in Seq(CloudResource)
      BY <1>a DEF ListInv, ListType, Categories
    <3>2. \A j \in DOMAIN list["invoked"] :
            list["invoked"][j].serial \in InstanceIds \cup {NoId}
      <4> SUFFICES ASSUME NEW j \in DOMAIN list["invoked"]
                   PROVE  list["invoked"][j].serial \in InstanceIds \cup {NoId}
        OBVIOUS
      <4>1. list["invoked"][j] \in CloudResource
        BY <3>1, ElementOfSeq, LenProperties
      <4> QED BY <4>1 DEF CloudResource
    <3> QED BY <3>2 DEF TerminatedIds
  <2>2. TypeOK'
    BY <1>2, <1>a, <1>b, <2>1
       DEF PrintResources, TypeOK, callVars, assignVars, historyVars
  <2>3. IdsPending'
    BY <1>2, <1>a DEF PrintResources, IdsPending, assignVars
  <2>4. AdmissionOrder'
    BY <1>2, <1>b DEF PrintResources
  <2> QED BY <2>2, <2>3, <2>4 DEF IInv
<1>3. ASSUME NEW t \in Threads, ClientRead(t) PROVE IInv'
  <2>1. /\ FirstCheck(buf'[t]) \in Pcs \ {"scan", "store"}
        /\ buf' \in [Threads -> ClientBuffer]
        /\ left' \in [Threads -> Int]
        /\ pc' = [pc EXCEPT ![t] = FirstCheck(buf'[t])]
    BY <1>3, <1>a, ClientBuffersAssumption
       DEF ClientRead, FirstCheck, AfterEc2, Pcs, TypeOK, ClientBuffer
  <2>2. TypeOK'
    BY <1>3, <1>a, <1>b, <2>1
       DEF ClientRead, TypeOK, Messages, assignVars, historyVars, Pcs
  <2>3. IdsPending'
    BY <1>3, <1>a, <2>1 DEF ClientRead, IdsPending, assignVars, TypeOK
  <2>4. AdmissionOrder'
    BY <1>3, <1>b DEF ClientRead
  <2> QED BY <2>2, <2>3, <2>4 DEF IInv
<1>4. ASSUME NEW t \in Threads, InvokeMany(t) PROVE IInv'
  <2>1. Invoke(t, "ec2") /\ "ec2" \in ResourceTypes
    BY <1>4 DEF InvokeMany, ResourceTypes
  <2>2. ListInv'
    BY <2>1, <1>a, InvokeKeepsOrder DEF Invoke
  <2>3. TypeOK'
    <3>1. /\ taken' \in [Threads -> Nat]
          /\ stale' \in [Threads -> BOOLEAN]
          /\ raced' \in BOOLEAN
          /\ Granted \in Nat
      BY <2>1, <1>a, InvokeTypes
    <3>2. got' \in [Threads -> Nat] /\ left' \in [Threads -> Int]
      BY <1>4, <1>a, <3>1 DEF InvokeMany, TypeOK
    <3> QED BY <1>4, <1>a, <2>2, <3>1, <3>2 DEF InvokeMany, TypeOK, ListInv
  <2>4. IdsPending'
    BY <1>4, <1>a DEF InvokeMany, IdsPending
  <2> QED BY <2>2, <2>3, <2>4 DEF IInv, ListInv
<1>5. ASSUME NEW t \in Threads, Rewrite(t) PROVE IInv'
  <2>1. AfterEc2(buf[t]) \in Pcs \ {"scan", "store"}
    BY DEF AfterEc2, Pcs
  <2>2. TypeOK'
    BY <1>5, <1>a, <1>b, <2>1
       DEF Rewrite, TypeOK, Messages, assignVars, historyVars
  <2>3. IdsPending'
    BY <1>5, <1>a, <2>1 DEF Rewrite, IdsPending, assignVars, TypeOK
  <2>4. AdmissionOrder'
    BY <1>5, <1>b DEF Rewrite
  <2> QED BY <2>2, <2>3, <2>4 DEF IInv
<1>6. ASSUME NEW t \in Threads, InvokeLambda(t) PROVE IInv'
  <2>1. Invoke(t, "lambda") /\ "lambda" \in ResourceTypes
    BY <1>6 DEF InvokeLambda, ResourceTypes
  <2>2. ListInv'
    BY <2>1, <1>a, InvokeKeepsOrder DEF Invoke
  <2>3. TypeOK'
    BY <1>6, <1>a, <2>1, <2>2, InvokeTypes
       DEF InvokeLambda, TypeOK, ListInv, Messages, Pcs
  <2>4. IdsPending'
    BY <1>6, <1>a DEF InvokeLambda, IdsPending, TypeOK
  <2> QED BY <2>2, <2>3, <2>4 DEF IInv, ListInv
<1>7. ASSUME NEW t \in Threads, Deliver(t) PROVE IInv'
  <2>1. Ec2Asked(t) \in Int /\ buf[t].lambdas \in Int
    <3> DEFINE b == buf[t]
    <3>1. /\ got[t] \in Nat /\ b.count \in Int /\ b.behind \in 0..10
          /\ b.more \in Nat /\ b.lambdas \in Nat
      BY <1>a DEF TypeOK, ClientBuffer, NoDigit
    <3> HIDE DEF b
    <3>2. 10 * got[t] + b.behind \in Int
      BY <3>1
    <3> QED BY <3>1, <3>2 DEF Ec2Asked, b
  <2>2. /\ delivered' \in Int /\ misread' \in BOOLEAN
        /\ launched' \subseteq InstanceIds
    <3>1. CASE msg[t] = "BLOCKED"
      BY <1>7, <1>a, <3>1 DEF Deliver, TypeOK
    <3>2. CASE msg[t] # "BLOCKED"
      <4>1. /\ delivered' = delivered + Ec2Asked(t) + buf[t].lambdas
            /\ misread' = (misread \/ AsksForMore(t))
            /\ launched' \subseteq InstanceIds
        BY <1>7, <1>a, <3>2 DEF Deliver, TypeOK
      <4>2. delivered \in Int /\ misread' \in BOOLEAN
        BY <1>a, <4>1 DEF TypeOK
      <4> QED BY <4>1, <4>2, <2>1
    <3> QED BY <3>1, <3>2
  <2>3. TypeOK'
    BY <1>7, <1>a, <1>b, <2>2 DEF Deliver, TypeOK, Pcs, assignVars
  <2>4. IdsPending'
    BY <1>7, <1>a DEF Deliver, IdsPending, assignVars, TypeOK
  <2>5. AdmissionOrder'
    BY <1>7, <1>b DEF Deliver
  <2> QED BY <2>3, <2>4, <2>5 DEF IInv
<1>8. ASSUME NEW t \in Threads, ServerRead(t) PROVE IInv'
  <2>1. PICK n \in 1..MaxIds : \E s \in [1..n -> launched] :
               ids' = [ids EXCEPT ![t] = s]
    BY <1>8 DEF ServerRead
  <2>2. PICK s \in [1..n -> launched] : ids' = [ids EXCEPT ![t] = s]
    BY <2>1
  <2>3. s \in Seq(InstanceIds) /\ Len(s) > 0
    <3>1. n \in Nat \ {0}
      BY BoundsAssumption
    <3>2. s \in [1..n -> InstanceIds]
      BY <1>a DEF TypeOK
    <3>3. s \in Seq(InstanceIds)
      BY <3>1, <3>2, SeqDef
    <3>4. Len(s) \in Nat /\ DOMAIN s = 1..Len(s)
      BY <3>3, LenProperties
    <3>5. 1 \in DOMAIN s
      BY <3>1, <3>2
    <3> QED BY <3>3, <3>4, <3>5
  <2>4. TypeOK'
    BY <1>8, <1>a, <1>b, <2>2, <2>3 DEF ServerRead, TypeOK, Pcs, callVars,
                                        historyVars
  <2>5. IdsPending'
    BY <1>8, <1>a, <2>2, <2>3 DEF ServerRead, IdsPending, TypeOK
  <2>6. AdmissionOrder'
    BY <1>8, <1>b DEF ServerRead
  <2> QED BY <2>4, <2>5, <2>6 DEF IInv
<1>9. ASSUME NEW t \in Threads, AssignScan(t) PROVE IInv'
  <2>1. PICK i \in Unassigned("ec2") : at' = [at EXCEPT ![t] = i]
    BY <1>9 DEF AssignScan
  <2>2. i \in Nat
    <3>1. list["invoked"] \in Seq(CloudResource)
      BY <1>a DEF ListInv, ListType, Categories
    <3> QED BY <3>1, LenProperties DEF Unassigned
  <2>3. raced' \in BOOLEAN
    BY <1>9, <1>a DEF AssignScan, TypeOK
  <2>4. TypeOK'
    BY <1>9, <1>a, <1>b, <2>1, <2>2, <2>3 DEF AssignScan, TypeOK, Pcs, callVars
  <2>5. IdsPending'
    BY <1>9, <1>a DEF AssignScan, IdsPending, TypeOK
  <2>6. AdmissionOrder'
    BY <1>9, <1>b DEF AssignScan
  <2> QED BY <2>4, <2>5, <2>6 DEF IInv
<1>10. ASSUME NEW t \in Threads, AssignStore(t) PROVE IInv'
  <2>1. /\ ids[t] \in Seq(InstanceIds) /\ ids[t] # << >> /\ Len(ids[t]) > 0
        /\ at[t] \in Nat
    <3>1. ids[t] \in Seq(InstanceIds) /\ Len(ids[t]) > 0 /\ at[t] \in Nat
      BY <1>10, <1>a DEF AssignStore, IdsPending, TypeOK
    <3> QED BY <3>1, EmptySeq
  <2>2. /\ Head(ids[t]) \in InstanceIds
        /\ Tail(ids[t]) \in Seq(InstanceIds)
        /\ Len(Tail(ids[t])) = Len(ids[t]) - 1
    BY <2>1, HeadTailProperties
  <2>3. ListType' /\ AdmissionOrder'
    <3>1. CASE stale[t]
      BY <1>10, <3>1, <1>b DEF AssignStore
    <3>2. CASE ~stale[t]
      BY <1>10, <3>2, <1>a, <2>1, <2>2, SetKeepsOrder DEF AssignStore, ListInv
    <3> QED BY <3>1, <3>2
  <2>4. TypeOK'
    BY <1>10, <1>a, <2>2, <2>3 DEF AssignStore, TypeOK, Pcs, callVars
  <2>5. IdsPending'
    <3> SUFFICES ASSUME NEW u \in Threads, pc'[u] \in {"scan", "store"}
                 PROVE  Len(ids'[u]) > 0
      BY DEF IdsPending
    <3>1. CASE u = t
      <4>1. Len(ids[t]) # 1
        BY <1>10, <1>a, <3>1 DEF AssignStore, TypeOK
      <4>2. Len(ids[t]) \in Nat
        BY <2>1, LenProperties
      <4>3. ids'[u] = Tail(ids[t])
        BY <1>10, <1>a, <3>1 DEF AssignStore, TypeOK
      <4>4. Len(ids'[u]) = Len(ids[t]) - 1
        BY <4>3, <2>2, Zenon
      <4>5. \A m, n \in Int : n > 0 /\ n # 1 /\ m = n - 1 => m > 0
        OBVIOUS
      <4>6. Len(ids[t]) \in Int /\ Len(ids'[u]) \in Int /\ Len(ids[t]) > 0
        BY <4>2, <4>4, <2>1
      <4> QED BY <4>1, <4>4, <4>5, <4>6, Zenon
    <3>2. CASE u # t
      BY <1>10, <1>a, <3>2 DEF AssignStore, TypeOK, IdsPending
    <3> QED BY <3>1, <3>2
  <2> QED BY <2>3, <2>4, <2>5 DEF IInv
<1>11. ASSUME NEW t \in Threads, AssignThrow(t) PROVE IInv'
  <2>1. TypeOK'
    BY <1>11, <1>a, <1>b
    DEF AssignThrow, TypeOK, Pcs, callVars, assignVars, historyVars
  <2>2. IdsPending'
    BY <1>11, <1>a DEF AssignThrow, IdsPending, TypeOK, assignVars
  <2>3. AdmissionOrder'
    BY <1>11, <1>b DEF AssignThrow
  <2> QED BY <2>1, <2>2, <2>3 DEF IInv
<1>12. ASSUME NEW t \in Threads, NewConnection(t) PROVE IInv'
  <2>1. TypeOK'
    BY <1>12, <1>a, <1>b
    DEF NewConnection, TypeOK, Pcs, callVars, assignVars, historyVars
  <2>2. IdsPending'
    BY <1>12, <1>a DEF NewConnection, IdsPending, TypeOK, assignVars
  <2>3. AdmissionOrder'
    BY <1>12, <1>b DEF NewConnection
  <2> QED BY <2>1, <2>2, <2>3 DEF IInv
<1> QED
  BY <1>1, <1>2, <1>3, <1>4, <1>5, <1>6, <1>7, <1>8, <1>9, <1>10, <1>11, <1>12
     DEF Next, ThreadStep
-----------------------------------------------------------------------------
(* What a call of limit_resource has taken from the quota.                 *)

\* What the filter counts a message for: what the first request of each type
\* was granted.
Counted(t) ==
  (IF buf[t].ec2 THEN got[t] ELSE 0) + (IF buf[t].lambdas > 0 THEN 1 ELSE 0)

\* The slots that a call of limit_resource has taken are those that its
\* message will be counted for, or the request is BLOCKED: with none taken, or
\* between a type that was granted and one that was refused.
Accounts(t) ==
  /\ pc[t] = "invoke_many" =>
       buf[t].ec2 /\ msg[t] = "original" /\ taken[t] = got[t]
  /\ pc[t] \in {"lambda", "deliver"} =>
       /\ msg[t] = "original" => ~buf[t].ec2
       /\ msg[t] = "rewritten" => buf[t].ec2
  /\ pc[t] = "lambda" =>
       /\ buf[t].lambdas > 0
       /\ taken[t] = IF buf[t].ec2 THEN got[t] ELSE 0
       /\ msg[t] = "BLOCKED" => buf[t].ec2 /\ taken[t] = 0
  /\ pc[t] = "deliver" =>
       /\ msg[t] # "BLOCKED" => taken[t] = Counted(t)
       /\ msg[t] = "BLOCKED" /\ taken[t] > 0 =>
            buf[t].ec2 /\ buf[t].lambdas > 0

CallsAccounted == \A t \in Threads : Accounts(t)

\* Without a race, every thread that is about to store an id has found a
\* resource that is still without one, and has it for itself.
StoresApart ==
  ~raced =>
    \A t \in Threads : pc[t] = "store" =>
      /\ ~stale[t] /\ at[t] \in Unassigned("ec2")
      /\ \A u \in Threads : pc[u] = "store" /\ u # t => at[u] # at[t]

QInv == CallsAccounted /\ DeliveredWithinQuota
RInv == StoresApart /\ ReportedIdsKept

\* A call of invoke_resource adds a resource to "invoked" when it grants one,
\* and changes none that is there.
LEMMA InvokeAppends ==
  ASSUME ListInv, NEW type \in ResourceTypes, InvokeResource(type)
  PROVE  /\ Granted \in {0, 1} /\ Len(list["invoked"]) \in Nat
         /\ Len(list'["invoked"]) = Len(list["invoked"]) + Granted
         /\ \A i \in DOMAIN list["invoked"] :
              /\ i \in DOMAIN list'["invoked"]
              /\ list'["invoked"][i] = list["invoked"][i]
<1> DEFINE inv == list["invoked"]
           curr == [type |-> type, counter |-> get_total_resource_count,
                    serial |-> NoId]
<1>1. /\ inv \in Seq(CloudResource) /\ Len(inv) \in Nat
      /\ DOMAIN inv = 1..Len(inv)
      /\ list \in [Categories -> Seq(CloudResource)]
  <2>1. /\ inv \in Seq(CloudResource)
        /\ list \in [Categories -> Seq(CloudResource)]
    BY DEF ListInv, ListType, Categories
  <2> QED BY <2>1, LenProperties
<1>2. Append(inv, curr) = inv \o <<curr>>
  OBVIOUS
<1>3. /\ Len(Append(inv, curr)) = Len(inv) + 1
      /\ DOMAIN Append(inv, curr) = 1..(Len(inv) + 1)
      /\ \A i \in 1..Len(inv) : Append(inv, curr)[i] = inv[i]
  BY <1>1
<1> HIDE DEF curr
<1>4. CASE HasRoom
  <2>1. list'["invoked"] = Append(inv, curr)
    BY <1>1, <1>4 DEF InvokeResource, Categories, curr
  <2> QED BY <2>1, <1>1, <1>3, <1>4 DEF Granted
<1>5. CASE ~HasRoom
  <2>1. list'["invoked"] = inv
    BY <1>1, <1>5 DEF InvokeResource, Categories
  <2> QED BY <2>1, <1>1, <1>5 DEF Granted
<1> QED BY <1>4, <1>5

\* set_serial_identifier changes one resource, and in it only the id.
LEMMA SetChangesOne ==
  ASSUME ListInv, NEW i \in DOMAIN list["invoked"], NEW id \in InstanceIds,
         set_serial_identifier(i, id)
  PROVE  /\ DOMAIN list'["invoked"] = DOMAIN list["invoked"]
         /\ list'["invoked"][i].serial = id
         /\ list'["invoked"][i].type = list["invoked"][i].type
         /\ \A j \in DOMAIN list["invoked"] :
              j # i => list'["invoked"][j] = list["invoked"][j]
<1> DEFINE inv == list["invoked"]
           new == [inv EXCEPT ![i].serial = id]
<1>1. /\ inv \in Seq(CloudResource)
      /\ list \in [Categories -> Seq(CloudResource)]
  BY DEF ListInv, ListType, Categories
<1>2. inv[i] \in CloudResource
  BY <1>1, LenProperties, ElementOfSeq
<1>3. list'["invoked"] = new
  BY <1>1 DEF set_serial_identifier, Categories
<1>4. new[i] = [inv[i] EXCEPT !.serial = id]
  OBVIOUS
<1>5. new[i].serial = id /\ new[i].type = inv[i].type
  BY <1>2, <1>4 DEF CloudResource
<1>6. /\ DOMAIN new = DOMAIN inv
      /\ \A j \in DOMAIN inv : j # i => new[j] = inv[j]
  OBVIOUS
<1> QED BY <1>3, <1>5, <1>6

\* Every step of a filter keeps its accounts.
LEMMA NextAccounts ==
  ASSUME IInv, CallsAccounted, [Next]_vars
  PROVE  CallsAccounted'
<1>a. TypeOK /\ \A u \in Threads : Accounts(u)
  BY DEF IInv, CallsAccounted
<1> USE <1>a
\* A step that changes nothing in another thread's call keeps its accounts.
<1>b. ASSUME NEW u \in Threads,
             pc'[u] = pc[u] \/ pc'[u] \in {"idle", "scan", "store", "dead"},
             buf'[u] = buf[u], got'[u] = got[u],
             msg'[u] = msg[u], taken'[u] = taken[u]
      PROVE  Accounts(u)'
  BY <1>b DEF Accounts, Counted
<1> SUFFICES ASSUME NEW u \in Threads PROVE Accounts(u)'
  BY DEF CallsAccounted
<1>1. CASE UNCHANGED vars \/ PrintResources
  BY <1>1, <1>b DEF vars, callVars, PrintResources
<1>2. ASSUME NEW t \in Threads, ClientRead(t) PROVE Accounts(u)'
  <2>1. CASE u # t
    BY <1>2, <2>1, <1>b DEF ClientRead, TypeOK
  <2>2. CASE u = t
    <3>1. PICK b \in ClientBuffers : /\ buf' = [buf EXCEPT ![t] = b]
                                     /\ pc' = [pc EXCEPT ![t] = FirstCheck(b)]
      BY <1>2 DEF ClientRead
    <3>2. /\ buf'[t] = b /\ pc'[t] = FirstCheck(b) /\ got'[t] = 0
          /\ taken'[t] = 0 /\ msg'[t] = "original"
      BY <1>2, <3>1 DEF ClientRead, TypeOK
    <3>3. b \in ClientBuffer
      BY ClientBuffersAssumption
    <3> QED BY <2>2, <3>2, <3>3
            DEF Accounts, FirstCheck, AfterEc2, Counted, ClientBuffer
  <2> QED BY <2>1, <2>2
<1>3. ASSUME NEW t \in Threads, InvokeMany(t) PROVE Accounts(u)'
  <2>1. CASE u # t
    BY <1>3, <2>1, <1>b DEF InvokeMany, Invoke, TypeOK
  <2>2. CASE u = t
    <3>1. /\ pc'[t] = pc[t] /\ pc[t] = "invoke_many" /\ msg'[t] = msg[t]
          /\ buf'[t] = buf[t]
          /\ got'[t] = got[t] + Granted /\ taken'[t] = taken[t] + Granted
      BY <1>3 DEF InvokeMany, Invoke, TypeOK
    <3> QED BY <2>2, <3>1 DEF Accounts
  <2> QED BY <2>1, <2>2
<1>4. ASSUME NEW t \in Threads, Rewrite(t) PROVE Accounts(u)'
  <2>1. CASE u # t
    BY <1>4, <2>1, <1>b DEF Rewrite, TypeOK
  <2>2. CASE u = t
    <3>1. /\ pc[t] = "invoke_many" /\ pc'[t] = AfterEc2(buf[t])
          /\ msg'[t] = IF got[t] = 0 THEN "BLOCKED" ELSE "rewritten"
          /\ buf'[t] = buf[t] /\ got'[t] = got[t] /\ taken'[t] = taken[t]
      BY <1>4 DEF Rewrite, TypeOK
    <3>2. buf[t].ec2 /\ taken[t] = got[t] /\ got[t] \in Nat
      BY <3>1 DEF Accounts, TypeOK
    <3> QED BY <2>2, <3>1, <3>2 DEF Accounts, AfterEc2, Counted
  <2> QED BY <2>1, <2>2
<1>5. ASSUME NEW t \in Threads, InvokeLambda(t) PROVE Accounts(u)'
  <2>1. CASE u # t
    BY <1>5, <2>1, <1>b DEF InvokeLambda, Invoke, TypeOK
  <2>2. CASE u = t
    <3>1. /\ pc[t] = "lambda" /\ pc'[t] = "deliver" /\ buf'[t] = buf[t]
          /\ msg'[t] = (IF HasRoom THEN msg[t] ELSE "BLOCKED")
          /\ got'[t] = got[t] /\ taken'[t] = taken[t] + Granted
      BY <1>5 DEF InvokeLambda, Invoke, TypeOK
    <3>2. /\ buf[t].lambdas > 0 /\ taken[t] = (IF buf[t].ec2 THEN got[t] ELSE 0)
          /\ msg[t] = "original" => ~buf[t].ec2
          /\ msg[t] = "rewritten" => buf[t].ec2
          /\ msg[t] = "BLOCKED" => buf[t].ec2 /\ taken[t] = 0
          /\ got[t] \in Nat /\ msg[t] \in Messages
      BY <3>1 DEF Accounts, TypeOK
    <3>3. CASE HasRoom
      <4>1. msg'[t] = msg[t] /\ taken'[t] = taken[t] + 1
        BY <3>1, <3>3 DEF Granted
      <4> QED BY <2>2, <3>1, <3>2, <4>1 DEF Accounts, Counted, Messages
    <3>4. CASE ~HasRoom
      <4>1. msg'[t] = "BLOCKED" /\ taken'[t] = taken[t]
        BY <3>1, <3>2, <3>4 DEF Granted
      <4> QED BY <2>2, <3>1, <3>2, <4>1 DEF Accounts
    <3> QED BY <3>3, <3>4
  <2> QED BY <2>1, <2>2
<1>6. ASSUME NEW t \in Threads, Deliver(t) PROVE Accounts(u)'
  <2>1. CASE u # t
    BY <1>6, <2>1, <1>b DEF Deliver, TypeOK
  <2>2. CASE u = t
    BY <1>6, <2>2 DEF Deliver, Accounts, TypeOK
  <2> QED BY <2>1, <2>2
<1>7. ASSUME NEW t \in Threads,
             \/ ServerRead(t) \/ AssignScan(t) \/ AssignStore(t)
             \/ AssignThrow(t) \/ NewConnection(t)
      PROVE  Accounts(u)'
  <2>1. /\ UNCHANGED callVars
        /\ pc'[u] = pc[u] \/ pc'[u] \in {"idle", "scan", "store", "dead"}
    BY <1>7 DEF ServerRead, AssignScan, AssignStore, AssignThrow,
                NewConnection, TypeOK
  <2> QED BY <2>1, <1>b DEF callVars
<1> QED BY <1>1, <1>2, <1>3, <1>4, <1>5, <1>6, <1>7 DEF Next, ThreadStep

\* The set of threads is finite for FoldFacts too.
LEMMA FiniteThreads == Facts!IsFiniteSet(Threads)
BY ThreadsAssumption DEF IsFiniteSet, Facts!IsFiniteSet

\* What a thread takes from the quota is counted in the sum over the threads.
LEMMA TakenChange ==
  ASSUME taken \in [Threads -> Nat], NEW t \in Threads, NEW n \in Nat,
         taken' = [taken EXCEPT ![t] = n]
  PROVE  InCalls \in Int /\ InCalls' = InCalls + n - taken[t]
<1>1. taken \in [Threads -> Int] /\ taken' \in [Threads -> Int]
  OBVIOUS
<1>2. \A u \in Threads : u # t => taken'[u] = taken[u]
  OBVIOUS
<1>3. taken'[t] = n
  OBVIOUS
<1>4. /\ Facts!SumOf(taken, Threads) \in Int
      /\ Facts!SumOf(taken', Threads)
           = Facts!SumOf(taken, Threads) + taken'[t] - taken[t]
  BY ONLY <1>1, <1>2, Facts!SumChange, FiniteThreads, t \in Threads, Zenon
<1>5. /\ InCalls = Facts!SumOf(taken, Threads)
      /\ InCalls' = Facts!SumOf(taken', Threads)
  BY DEF InCalls, MapThenSumSet, MapThenFoldSet, Facts!SumOf,
         Facts!MapThenSumSet, Facts!MapThenFoldSet
<1> QED BY <1>3, <1>4, <1>5

\* No step lets more instances pass than the list has taken.
LEMMA NextWithinQuota ==
  ASSUME IInv, CallsAccounted, DeliveredWithinQuota, [Next]_vars
  PROVE  DeliveredWithinQuota'
<1>a. /\ TypeOK /\ ListInv /\ IdsPending /\ taken \in [Threads -> Nat]
      /\ delivered \in Int
      /\ ~misread => delivered + InCalls <= Len(list["invoked"])
  BY DEF IInv, TypeOK, ListInv, DeliveredWithinQuota
<1>b. Len(list["invoked"]) \in Nat
  BY <1>a, LenProperties DEF ListInv, ListType, Categories
<1>1. ASSUME UNCHANGED <<taken, delivered, misread>>,
             Len(list'["invoked"]) = Len(list["invoked"])
      PROVE  DeliveredWithinQuota'
  <2>1. InCalls' = InCalls
    BY <1>1 DEF InCalls, MapThenSumSet, MapThenFoldSet
  <2> QED BY <2>1, <1>1, <1>a DEF DeliveredWithinQuota
<1>2. ASSUME NEW t \in Threads, NEW type \in ResourceTypes, Invoke(t, type),
             UNCHANGED <<delivered, misread>>
      PROVE  DeliveredWithinQuota'
  <2>1. /\ Granted \in {0, 1}
        /\ Len(list'["invoked"]) = Len(list["invoked"]) + Granted
    BY <1>2, <1>a, InvokeAppends DEF Invoke
  <2>2. /\ taken' = [taken EXCEPT ![t] = taken[t] + Granted]
        /\ taken[t] \in Nat /\ taken[t] + Granted \in Nat
    BY <1>2, <1>a, <2>1 DEF Invoke
  <2>3. InCalls \in Int /\ InCalls' = InCalls + (taken[t] + Granted) - taken[t]
    BY <2>2, <1>a, TakenChange
  <2>4. InCalls' = InCalls + Granted
    BY <2>1, <2>2, <2>3
  <2> QED BY <2>1, <2>3, <2>4, <1>2, <1>a, <1>b DEF DeliveredWithinQuota
<1>3. CASE UNCHANGED vars \/ PrintResources
  BY <1>3, <1>1 DEF vars, callVars, historyVars, PrintResources
<1>4. ASSUME NEW t \in Threads, ClientRead(t) PROVE DeliveredWithinQuota'
  <2>1. /\ taken' = [taken EXCEPT ![t] = 0] /\ taken[t] \in Nat
        /\ UNCHANGED <<list, delivered, misread>>
    BY <1>4, <1>a DEF ClientRead, historyVars
  <2>2. InCalls \in Int /\ InCalls' = InCalls + 0 - taken[t]
    BY <2>1, <1>a, TakenChange
  <2> QED BY <2>1, <2>2, <1>a, <1>b DEF DeliveredWithinQuota
<1>5. ASSUME NEW t \in Threads, Deliver(t) PROVE DeliveredWithinQuota'
  <2>1. /\ taken' = [taken EXCEPT ![t] = 0] /\ taken[t] \in Nat
        /\ UNCHANGED list /\ pc[t] = "deliver"
    BY <1>5, <1>a DEF Deliver
  <2>2. InCalls \in Int /\ InCalls' = InCalls + 0 - taken[t]
    BY <2>1, <1>a, TakenChange
  <2>3. CASE msg[t] = "BLOCKED"
    BY <2>1, <2>2, <2>3, <1>5, <1>a, <1>b DEF DeliveredWithinQuota, Deliver
  <2>4. CASE msg[t] # "BLOCKED"
    <3>1. Accounts(t)
      BY DEF CallsAccounted
    <3>2. taken[t] = Counted(t) /\ (msg[t] = "original" => ~buf[t].ec2)
      BY <2>1, <2>4, <3>1 DEF Accounts
    <3>3. /\ delivered' = delivered + Ec2Asked(t) + buf[t].lambdas
          /\ misread' = (misread \/ AsksForMore(t))
      BY <1>5, <2>4 DEF Deliver
    <3>4. /\ buf[t] \in ClientBuffer /\ got[t] \in Nat
          /\ msg[t] \in Messages
      BY <1>a DEF TypeOK
    <3>5. ~AsksForMore(t) => delivered' = delivered + taken[t]
      <4> SUFFICES ASSUME ~AsksForMore(t)
                   PROVE  delivered' = delivered + taken[t]
        OBVIOUS
      <4>1. /\ buf[t].lambdas = 0 \/ buf[t].lambdas = 1
            /\ buf[t].more = 0
            /\ msg[t] = "rewritten" => buf[t].behind = NoDigit
        BY <3>4 DEF AsksForMore, ClientBuffer
      <4>2. Ec2Asked(t) = IF buf[t].ec2 THEN got[t] ELSE 0
        BY <2>4, <3>2, <3>4, <4>1 DEF Ec2Asked, Messages
      <4> QED BY <3>2, <3>3, <3>4, <4>1, <4>2, <1>a DEF Counted
    <3> SUFFICES ASSUME ~misread'
                 PROVE  (delivered + InCalls <= Len(list["invoked"]))'
      BY DEF DeliveredWithinQuota
    <3>6. ~misread /\ delivered' = delivered + taken[t]
      BY <3>3, <3>5
    <3>7. delivered' + InCalls' = delivered + InCalls
      BY <2>1, <2>2, <3>6, <1>a
    <3> QED BY <2>1, <3>6, <3>7, <1>a
  <2> QED BY <2>3, <2>4
<1>6. ASSUME NEW t \in Threads, AssignStore(t) PROVE DeliveredWithinQuota'
  <2>1. Len(list'["invoked"]) = Len(list["invoked"])
    <3>1. CASE stale[t]
      BY <1>6, <3>1 DEF AssignStore
    <3>2. CASE ~stale[t]
      <4>1. ids[t] \in Seq(InstanceIds) /\ Len(ids[t]) > 0 /\ at[t] \in Nat
        BY <1>6, <1>a DEF AssignStore, IdsPending, TypeOK
      <4>2. Head(ids[t]) \in InstanceIds
        BY <4>1, EmptySeq, HeadTailProperties
      <4> QED BY <1>6, <3>2, <4>1, <4>2, <1>a, SetKeepsOrder DEF AssignStore
    <3> QED BY <3>1, <3>2
  <2> QED BY <1>6, <2>1, <1>1 DEF AssignStore, callVars
<1>7. ASSUME NEW t \in Threads, ThreadStep(t) PROVE DeliveredWithinQuota'
  <2>1. CASE InvokeMany(t)
    BY <2>1, <1>2 DEF InvokeMany, ResourceTypes
  <2>2. CASE InvokeLambda(t)
    BY <2>2, <1>2 DEF InvokeLambda, ResourceTypes
  <2>3. CASE \/ Rewrite(t) \/ ServerRead(t) \/ AssignScan(t) \/ AssignThrow(t)
             \/ NewConnection(t)
    BY <2>3, <1>1
       DEF Rewrite, ServerRead, AssignScan, AssignThrow, NewConnection, callVars,
           historyVars
  <2> QED BY <1>7, <1>4, <1>5, <1>6, <2>1, <2>2, <2>3 DEF ThreadStep
<1> QED BY <1>3, <1>7 DEF Next

\* Without a race, an id that assign_resource_id returns for is written to a
\* resource that had none, and stays there.
LEMMA NextReported ==
  ASSUME IInv, StoresApart, ReportedIdsKept, [Next]_vars
  PROVE  StoresApart' /\ ReportedIdsKept'
<1> DEFINE inv == list["invoked"]
<1>a. TypeOK /\ ListInv /\ IdsPending
  BY DEF IInv, TypeOK, ListInv
<1>b. ASSUME NEW u \in Threads, ~raced, pc[u] = "store"
      PROVE  /\ ~stale[u] /\ at[u] \in Unassigned("ec2")
             /\ \A x \in Threads : pc[x] = "store" /\ x # u => at[x] # at[u]
  BY <1>b DEF StoresApart
<1>0. Unassigned("ec2") \subseteq DOMAIN inv
  BY DEF Unassigned
\* The steps that leave the list and the stores under way alone.
<1>1. ASSUME UNCHANGED <<list, reported>>, raced' = raced,
             \A u \in Threads : pc'[u] = "store" =>
               pc[u] = "store" /\ at'[u] = at[u] /\ stale'[u] = stale[u]
      PROVE  StoresApart' /\ ReportedIdsKept'
  <2>1. Unassigned("ec2")' = Unassigned("ec2")
    BY <1>1 DEF Unassigned
  <2>2. StoresApart'
    BY <1>1, <1>b, <2>1 DEF StoresApart
  <2>3. ReportedIdsKept'
    BY <1>1 DEF ReportedIdsKept
  <2> QED BY <2>2, <2>3
<1>2. CASE UNCHANGED vars \/ PrintResources
  BY <1>2, <1>1
  DEF vars, callVars, assignVars, historyVars, PrintResources
<1>3. ASSUME NEW t \in Threads, NEW type \in ResourceTypes, Invoke(t, type),
             UNCHANGED <<at, reported>>,
             \A u \in Threads : pc'[u] = "store" => pc[u] = "store"
      PROVE  StoresApart' /\ ReportedIdsKept'
  <2>1. \A i \in DOMAIN inv :
          i \in DOMAIN list'["invoked"] /\ list'["invoked"][i] = inv[i]
    BY <1>3, <1>a, InvokeAppends DEF Invoke
  <2>2. Unassigned("ec2") \subseteq Unassigned("ec2")'
    BY <2>1 DEF Unassigned
  <2>3. /\ ~raced' => ~raced /\ Overtaken = {}
        /\ stale' = [u \in Threads |-> stale[u] \/ u \in Overtaken]
    BY <1>3 DEF Invoke
  <2>4. StoresApart'
    <3> SUFFICES ASSUME ~raced', NEW u \in Threads, pc'[u] = "store"
                 PROVE  /\ ~stale'[u] /\ at'[u] \in Unassigned("ec2")'
                        /\ \A x \in Threads : pc'[x] = "store" /\ x # u =>
                             at'[x] # at'[u]
      BY DEF StoresApart
    <3>1. ~raced /\ pc[u] = "store" /\ at' = at
      BY <1>3, <2>3
    <3>2. ~stale'[u]
      <4>1. ~stale[u] /\ u \notin Overtaken
        BY <3>1, <1>b, <2>3
      <4> QED BY <4>1, <2>3, Zenon
    <3> QED BY <3>1, <3>2, <1>3, <1>b, <2>2
  <2>5. ReportedIdsKept'
    <3> SUFFICES ASSUME ~raced', NEW id \in reported'
                 PROVE  \E i \in DOMAIN list'["invoked"] :
                          /\ list'["invoked"][i].type = "ec2"
                          /\ list'["invoked"][i].serial = id
      BY DEF ReportedIdsKept
    <3>1. PICK i \in DOMAIN inv : inv[i].type = "ec2" /\ inv[i].serial = id
      BY <1>3, <2>3 DEF ReportedIdsKept
    <3> QED BY <2>1, <3>1
  <2> QED BY <2>4, <2>5
<1>4. ASSUME NEW t \in Threads, AssignScan(t)
      PROVE  StoresApart' /\ ReportedIdsKept'
  <2>1. PICK i \in Unassigned("ec2") :
          /\ at' = [at EXCEPT ![t] = i]
          /\ raced' = (raced \/ \E u \in Threads : pc[u] = "store" /\ at[u] = i)
    BY <1>4 DEF AssignScan
  <2>2. /\ list' = list /\ reported' = reported /\ pc[t] = "scan"
        /\ pc' = [pc EXCEPT ![t] = "store"]
        /\ stale' = [stale EXCEPT ![t] = FALSE]
    BY <1>4 DEF AssignScan
  <2>3. Unassigned("ec2")' = Unassigned("ec2")
    BY <2>2 DEF Unassigned
  <2>4. ~raced' => ~raced /\ \A u \in Threads : pc[u] = "store" => at[u] # i
    BY <2>1
  <2>5. /\ at'[t] = i /\ ~stale'[t]
        /\ \A u \in Threads : u # t => /\ at'[u] = at[u] /\ pc'[u] = pc[u]
                                       /\ stale'[u] = stale[u]
    BY <2>1, <2>2, <1>a DEF TypeOK
  <2>6. StoresApart'
    <3> SUFFICES ASSUME ~raced', NEW u \in Threads, pc'[u] = "store"
                 PROVE  /\ ~stale'[u] /\ at'[u] \in Unassigned("ec2")'
                        /\ \A x \in Threads : pc'[x] = "store" /\ x # u =>
                             at'[x] # at'[u]
      BY DEF StoresApart
    <3>1. CASE u = t
      BY <3>1, <2>1, <2>3, <2>4, <2>5
    <3>2. CASE u # t
      BY <3>2, <1>b, <2>1, <2>3, <2>4, <2>5
    <3> QED BY <3>1, <3>2
  <2>7. ReportedIdsKept'
    BY <2>2, <2>4 DEF ReportedIdsKept
  <2> QED BY <2>6, <2>7
<1>5. ASSUME NEW t \in Threads, AssignStore(t)
      PROVE  StoresApart' /\ ReportedIdsKept'
  <2>1. /\ pc[t] = "store" /\ raced' = raced /\ at' = at /\ stale' = stale
        /\ reported' = reported \cup {Head(ids[t])}
        /\ \A u \in Threads : pc'[u] = "store" => u # t /\ pc[u] = "store"
        /\ ~stale[t] => set_serial_identifier(at[t], Head(ids[t]))
    BY <1>5, <1>a DEF AssignStore, TypeOK
  <2>2. CASE raced
    BY <2>1, <2>2 DEF StoresApart, ReportedIdsKept
  <2>3. CASE ~raced
    <3>1. ids[t] \in Seq(InstanceIds) /\ Len(ids[t]) > 0
      BY <2>1, <1>a DEF IdsPending, TypeOK
    <3>2. Head(ids[t]) \in InstanceIds /\ Head(ids[t]) # NoId
      BY <3>1, EmptySeq, HeadTailProperties, NoIdAssumption
    <3>3. /\ at[t] \in Unassigned("ec2") /\ at[t] \in DOMAIN inv
          /\ set_serial_identifier(at[t], Head(ids[t]))
      BY <1>b, <2>1, <2>3, <1>0
    <3>4. /\ DOMAIN list'["invoked"] = DOMAIN inv
          /\ list'["invoked"][at[t]].serial = Head(ids[t])
          /\ list'["invoked"][at[t]].type = inv[at[t]].type
          /\ \A j \in DOMAIN inv : j # at[t] => list'["invoked"][j] = inv[j]
      BY <3>2, <3>3, <1>a, SetChangesOne
    <3>5. inv[at[t]].type = "ec2" /\ inv[at[t]].serial = NoId
      BY <3>3 DEF Unassigned
    <3>6. \A i \in Unassigned("ec2") : i # at[t] => i \in Unassigned("ec2")'
      BY <3>4 DEF Unassigned
    <3>7. StoresApart'
      <4> SUFFICES ASSUME NEW u \in Threads, pc'[u] = "store"
                   PROVE  /\ ~stale'[u] /\ at'[u] \in Unassigned("ec2")'
                          /\ \A x \in Threads : pc'[x] = "store" /\ x # u =>
                               at'[x] # at'[u]
        BY DEF StoresApart
      <4>1. u # t /\ pc[u] = "store"
        BY <2>1
      <4>2. /\ ~stale[u] /\ at[u] \in Unassigned("ec2") /\ at[u] # at[t]
            /\ \A x \in Threads : pc[x] = "store" /\ x # u => at[x] # at[u]
        BY <4>1, <1>b, <2>1, <2>3
      <4> QED BY <4>2, <3>6, <2>1
    <3>8. ReportedIdsKept'
      <4> SUFFICES ASSUME NEW id \in reported'
                   PROVE  \E i \in DOMAIN list'["invoked"] :
                            /\ list'["invoked"][i].type = "ec2"
                            /\ list'["invoked"][i].serial = id
        BY DEF ReportedIdsKept
      <4>1. CASE id = Head(ids[t])
        BY <4>1, <3>3, <3>4, <3>5
      <4>2. CASE id \in reported
        <5>1. PICK i \in DOMAIN inv : inv[i].type = "ec2" /\ inv[i].serial = id
          BY <4>2, <2>3 DEF ReportedIdsKept
        <5>2. id # NoId
          BY <4>2, <1>a, NoIdAssumption DEF TypeOK
        <5> QED BY <5>1, <5>2, <3>4, <3>5
      <4> QED BY <4>1, <4>2, <2>1
    <3> QED BY <3>7, <3>8
  <2> QED BY <2>2, <2>3
<1>6. ASSUME NEW t \in Threads, ThreadStep(t)
      PROVE  StoresApart' /\ ReportedIdsKept'
  <2>1. CASE InvokeMany(t)
    BY <2>1, <1>3 DEF InvokeMany, ResourceTypes
  <2>2. CASE InvokeLambda(t)
    <3>1. \A u \in Threads : pc'[u] = "store" => pc[u] = "store"
      BY <2>2, <1>a DEF InvokeLambda, TypeOK
    <3> QED BY <2>2, <3>1, <1>3 DEF InvokeLambda, ResourceTypes
  <2>3. CASE \/ ClientRead(t) \/ Rewrite(t) \/ Deliver(t) \/ ServerRead(t)
             \/ AssignThrow(t) \/ NewConnection(t)
    <3>1. \A u \in Threads : pc'[u] = "store" => pc[u] = "store"
      BY <2>3, <1>a DEF ClientRead, FirstCheck, AfterEc2, Rewrite, Deliver,
                        ServerRead, AssignThrow, NewConnection, TypeOK
    <3>2. UNCHANGED <<list, reported, raced, at, stale>>
      BY <2>3 DEF ClientRead, Rewrite, Deliver, ServerRead, AssignThrow,
                  NewConnection, assignVars, historyVars
    <3> QED BY <3>1, <3>2, <1>1
  <2> QED BY <1>4, <1>5, <1>6, <2>1, <2>2, <2>3 DEF ThreadStep
<1> QED BY <1>2, <1>6 DEF Next

\* At the start no call has taken anything.
LEMMA InitQuota == Init => QInv /\ RInv
<1> SUFFICES ASSUME Init PROVE QInv /\ RInv
  OBVIOUS
<1>1. CallsAccounted /\ StoresApart /\ ReportedIdsKept
  BY DEF Init, CallsAccounted, Accounts, StoresApart, ReportedIdsKept
<1>2. InCalls = 0
  <2>1. Facts!SumOf(taken, Threads) = 0
    BY Facts!SumOfZeros, FiniteThreads DEF Init
  <2> QED BY <2>1 DEF InCalls, MapThenSumSet, MapThenFoldSet, Facts!SumOf,
                      Facts!MapThenSumSet, Facts!MapThenFoldSet
<1>3. Len(list["invoked"]) = 0
  BY DEF Init, ListInit, Categories
<1>4. DeliveredWithinQuota
  BY <1>2, <1>3 DEF Init, DeliveredWithinQuota
<1> QED BY <1>1, <1>4 DEF QInv, RInv

\* The list accounts for what calls have taken, in every state.
LEMMA QuotaHolds == Spec => [](IInv /\ QInv /\ RInv)
<1>1. IInv /\ QInv /\ RInv /\ [Next]_vars => (IInv /\ QInv /\ RInv)'
  BY NextIInv, NextAccounts, NextWithinQuota, NextReported DEF QInv, RInv
<1> QED BY InitIInv, InitQuota, <1>1, PTL DEF Spec
-----------------------------------------------------------------------------
\* limit_resource and collect_resource_data keep every variable in its type,
\* and the list's vectors vectors of resources, with any number of threads.
THEOREM TypeCorrect == Spec => []TypeOK
<1>1. IInv => TypeOK
  BY DEF IInv
<1> QED BY InitIInv, NextIInv, <1>1, PTL DEF Spec

\* invoke_resource never exceeds the limit, numbers the resources 0, 1, 2, ...
\* in the order of admission, and refuses one only when the limit is reached,
\* whatever the number of connection threads and however they interleave.
THEOREM AdmissionInOrder == Spec => []AdmissionOrder
<1>1. IInv => AdmissionOrder
  BY DEF IInv
<1> QED BY InitIInv, NextIInv, <1>1, PTL DEF Spec

\* v2filter_client.hh:14-109: whatever the number of threads and however their
\* calls of invoke_resource interleave, the resources in the requests that
\* were forwarded, with those that calls under way hold, are never more than
\* the list has granted, as long as no read was forwarded that holds a second
\* request or has digits where the rewrite of MaxCount ends.
THEOREM WithinQuota == Spec => []DeliveredWithinQuota
<1>1. QInv => DeliveredWithinQuota
  BY DEF QInv
<1> QED BY QuotaHolds, <1>1, PTL

\* v2filter_client.hh:14-109: a request that is BLOCKED has used no slot of the
\* quota unless it names both types and only one was granted.
THEOREM BlockedTakesNone == Spec => []BlockedCostsNothing
<1>1. QInv => BlockedCostsNothing
  BY DEF QInv, CallsAccounted, Accounts, BlockedCostsNothing
<1> QED BY QuotaHolds, <1>1, PTL

\* cloud_resource_list.cc:81-101, v2filter_server.hh: as long as no unlocked
\* access overlapped another thread's, no id that assign_resource_id has
\* returned for is lost, whatever is invoked or assigned afterwards.
THEOREM KeepsReportedIds == Spec => []ReportedIdsKept
<1>1. RInv => ReportedIdsKept
  BY DEF RInv
<1> QED BY QuotaHolds, <1>1, PTL

\* A call of invoke_resource is a grant or a refusal of the abstract quota.
LEMMA InvokeIsQuotaStep ==
  ASSUME ListInv, NEW type \in ResourceTypes, InvokeResource(type)
  PROVE  Quota!Grant \/ Quota!Refuse
<1> DEFINE inv == list["invoked"]
           blk == list["blocked"]
           curr == [type |-> type, counter |-> get_total_resource_count,
                    serial |-> NoId]
<1>1. /\ inv \in Seq(CloudResource) /\ blk \in Seq(CloudResource)
      /\ list \in [Categories -> Seq(CloudResource)]
      /\ Len(inv) \in Nat /\ Len(blk) \in Nat
  <2>1. /\ inv \in Seq(CloudResource) /\ blk \in Seq(CloudResource)
        /\ list \in [Categories -> Seq(CloudResource)]
    BY DEF ListInv, ListType, Categories
  <2> QED BY <2>1, LenProperties
<1>2. /\ Len(Append(inv, curr)) = Len(inv) + 1
      /\ Len(Append(blk, curr)) = Len(blk) + 1
  BY <1>1
<1> HIDE DEF curr
<1>3. CASE HasRoom
  <2>1. list'["invoked"] = Append(inv, curr) /\ list'["blocked"] = blk
    BY <1>1, <1>3 DEF InvokeResource, Categories, curr
  <2> QED BY <2>1, <1>2, <1>3 DEF Quota!Grant, HasRoom
<1>4. CASE ~HasRoom
  <2>1. list'["blocked"] = Append(blk, curr) /\ list'["invoked"] = inv
    BY <1>1, <1>4 DEF InvokeResource, Categories, curr
  <2>2. Len(inv) = InvokeLimit
    BY <1>1, <1>4, InvokeLimitAssumption DEF HasRoom, ListInv, AdmissionOrder
  <2> QED BY <2>1, <2>2, <1>2 DEF Quota!Refuse
<1> QED BY <1>3, <1>4

\* The filters implement an exact quota: counting what they have invoked and
\* blocked, every step grants while there is room, refuses when there is
\* none, or leaves both counts alone.
THEOREM ImplementsQuota == Spec => QuotaIsExact
<1> DEFINE counts == <<Len(list["invoked"]), Len(list["blocked"])>>
<1>1. Init => Quota!QuotaInit
  <2> SUFFICES ASSUME Init PROVE Quota!QuotaInit
    OBVIOUS
  <2>1. list["invoked"] = << >> /\ list["blocked"] = << >>
    BY DEF Init, ListInit, Categories
  <2> QED BY <2>1 DEF Quota!QuotaInit
<1>2. IInv /\ [Next]_vars => [Quota!Grant \/ Quota!Refuse]_counts
  <2> SUFFICES ASSUME IInv, [Next]_vars
               PROVE  [Quota!Grant \/ Quota!Refuse]_counts
    OBVIOUS
  <2>a. ListInv /\ TypeOK /\ IdsPending
    BY DEF IInv, ListInv, TypeOK
  <2>1. CASE UNCHANGED list
    BY <2>1
  <2>2. ASSUME NEW t \in Threads, NEW type \in ResourceTypes, Invoke(t, type)
        PROVE  [Quota!Grant \/ Quota!Refuse]_counts
    BY <2>2, <2>a, InvokeIsQuotaStep DEF Invoke
  <2>3. ASSUME NEW t \in Threads, AssignStore(t), ~stale[t]
        PROVE  UNCHANGED counts
    <3>1. ids[t] \in Seq(InstanceIds) /\ Len(ids[t]) > 0 /\ at[t] \in Nat
      BY <2>3, <2>a DEF AssignStore, IdsPending, TypeOK
    <3>2. Head(ids[t]) \in InstanceIds
      BY <3>1, EmptySeq, HeadTailProperties
    <3> QED BY <2>3, <2>a, <3>1, <3>2, SetKeepsOrder DEF AssignStore
  <2>4. CASE PrintResources
    BY <2>4, <2>1 DEF PrintResources
  <2>5. ASSUME NEW t \in Threads, ThreadStep(t)
        PROVE  [Quota!Grant \/ Quota!Refuse]_counts
    <3>1. CASE InvokeMany(t)
      BY <3>1, <2>2 DEF InvokeMany, ResourceTypes
    <3>2. CASE InvokeLambda(t)
      BY <3>2, <2>2 DEF InvokeLambda, ResourceTypes
    <3>3. CASE AssignStore(t)
      BY <3>3, <2>1, <2>3 DEF AssignStore
    <3>4. CASE \/ ClientRead(t) \/ Rewrite(t) \/ Deliver(t) \/ ServerRead(t)
               \/ AssignScan(t) \/ AssignThrow(t) \/ NewConnection(t)
      BY <3>4, <2>1 DEF ClientRead, Rewrite, Deliver, ServerRead, AssignScan,
                        AssignThrow, NewConnection
    <3> QED BY <2>5, <3>1, <3>2, <3>3, <3>4 DEF ThreadStep
  <2>6. CASE UNCHANGED vars
    BY <2>6, <2>1 DEF vars
  <2> QED BY <2>4, <2>5, <2>6 DEF Next
<1> QED BY InitIInv, NextIInv, <1>1, <1>2, PTL
        DEF Spec, QuotaIsExact, Quota!QuotaSpec
=============================================================================
