------------------------- MODULE CloudResourceList -------------------------
(***************************************************************************)
(* The list of cloud resources an application has asked for                *)
(* (src/src/cloud/cloud_resource_list.{cc,hh}, cloud_resource.cc): one     *)
(* static map from a category to a vector, shared by every connection      *)
(* thread of the HTTP proxy.  invoke_resource holds a mutex; the functions *)
(* that assign ids and print do not.                                       *)
(***************************************************************************)
EXTENDS Integers, Sequences, FiniteSets

CONSTANTS InvokeLimit,   \* INVOKE_LIMIT, one limit for all types together
          InstanceIds,   \* instance ids the cloud may hand out
          NoId           \* the empty serial identifier ""

ASSUME InvokeLimitAssumption == InvokeLimit \in Nat
ASSUME NoIdAssumption == NoId \notin InstanceIds

VARIABLE list   \* cloud_resource_list_

ResourceTypes == {"ec2", "lambda"}
Categories == {"invoked", "blocked"}

\* A CloudResource: resource_type_, id_counter_ and serial_identifier_.
CloudResource == [type : ResourceTypes, counter : Nat,
                  serial : InstanceIds \cup {NoId}]

ListType == list \in [Categories -> Seq(CloudResource)]
ListInit == list = [c \in Categories |-> << >>]

\* Slips the runs must notice: counting from minus one, a limit exceeded by
\* one.
CountOffByOne == Len(list["invoked"]) + Len(list["blocked"]) - 1
HasRoomOffByOne == Len(list["invoked"]) <= InvokeLimit

get_total_resource_count == Len(list["invoked"]) + Len(list["blocked"])

HasRoom == Len(list["invoked"]) < InvokeLimit

\* The whole of invoke_resource, atomic because of the lock_guard.
InvokeResource(type) ==
  LET category == IF HasRoom THEN "invoked" ELSE "blocked"
      curr == [type |-> type, counter |-> get_total_resource_count,
               serial |-> NoId]
  IN  list' = [list EXCEPT ![category] = Append(@, curr)]

\* A push_back onto "invoked" moves the vector when its capacity is used up;
\* the capacity grows 0, 1, 2, 4, ...
Reallocates ==
  LET n == Len(list["invoked"])
  IN  HasRoom /\ (n = 0 \/ \E k \in 0..n : n = 2^k)

\* A slip: the search does not ask whether the resource has an id.
AnyOfType(type) ==
  {i \in DOMAIN list["invoked"] : list["invoked"][i].type = type}

\* The invoked resources of a type that have no serial identifier yet.
Unassigned(type) ==
  {i \in DOMAIN list["invoked"] :
     /\ list["invoked"][i].type = type
     /\ list["invoked"][i].serial = NoId}

IsFirst(i, S) == i \in S /\ \A j \in S : i <= j

set_serial_identifier(i, id) ==
  list' = [list EXCEPT !["invoked"][i].serial = id]

\* What terminate_all_ec2s prints after "aws ec2 terminate-instances
\* --instance-ids": the serial identifier of every invoked ec2, and its
\* id counter where it has none (get_serial_identifier).
TerminatedIds ==
  {list["invoked"][i].serial : i \in
     {j \in DOMAIN list["invoked"] : list["invoked"][j].type = "ec2"}} \ {NoId}
=============================================================================
