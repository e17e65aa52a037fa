---------------------------- MODULE MCLinkQueue ----------------------------
(* Small instances of LinkQueue: packets of one and two bytes.             *)
EXTENDS LinkQueue

MCSchedule == <<1, 2>>

Link(kind, packets, bytes, sizes) ==
  [discipline |-> [kind |-> kind, packets |-> packets, bytes |-> bytes],
   traffic |-> sizes]

\* Every queue, with limits the traffic reaches; packets that take part of an
\* opportunity, or parts of two.  CoDel drops only from a long queue.
MCLinks ==
  {Link("infinite", 0, 0, <<1, 2, 1>>), Link("droptail", 1, 0, <<2, 1, 2>>),
   Link("droptail", 0, 3, <<1, 2, 1>>), Link("drophead", 2, 0, <<2, 1, 1>>),
   Link("codel", 6, 0, <<2, 2, 2, 2, 2, 2>>)}

\* Drop head with a limit in bytes.
DropHeadBytes == {Link("drophead", 0, 2, <<1, 1, 2>>)}

CodelOnly == {Link("codel", 5, 0, <<2, 2, 2, 2>>)}
=============================================================================
