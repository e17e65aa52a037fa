---------------------------- MODULE Shells_proofs ----------------------------
(***************************************************************************)
(* Theorems about Shells, for every set of tools and every number of       *)
(* failures: who has root's privileges and whose environment, what a tool  *)
(* keeps in place while it runs and what it leaves when it ends, and that  *)
(* it starts up when nothing fails.                                        *)
(*                                                                         *)
(* The argument has two parts.  The scripts are looked at once, operation  *)
(* by operation (SoundAt, ScriptsSound): each finds the privileges it      *)
(* needs, scopes nest, children are forked and met where the tables below  *)
(* say.  The steps are then taken one by one with an inductive invariant   *)
(* (IInv) that ties a process to its place in the script, a child to its   *)
(* parent's place, and the kernel's state to main's.                       *)
(***************************************************************************)
EXTENDS Shells, TLAPS

\* For the least element of a set of naturals; the folds are not used here.
F == INSTANCE FoldFacts WITH Op <- LAMBDA a, b : a
-----------------------------------------------------------------------------
(* What is known of a process from its place in its script.                *)

\* The processes of tool t.
Cast(t) ==
  CASE t = "recordshell" -> {"main", "container", "recorder", "command"}
    [] t = "replayshell" -> {"main", "dnsmasq", "command"}
    [] OTHER -> {"main", "uplink", "downlink", "dnsmasq", "command"}

\* The length of a script.
Last(t, p) ==
  CASE p = "main" -> IF t = "replayshell" THEN 15 ELSE 16
    [] p = "container" -> 8
    [] p = "recorder" -> 5
    [] p = "uplink" -> 12
    [] p = "downlink" -> 7
    [] p = "dnsmasq" -> 1
    [] p = "command" -> (CASE t = "recordshell" -> 2
                           [] t = "replayshell" -> 3
                           [] OTHER -> 1)

\* Where p has given up root's privileges for good.
UserSpots(t, p) ==
  CASE p = "container" -> 5..8
    [] p = "recorder" -> 2..5
    [] p = "uplink" -> 7..12
    [] p = "downlink" -> 2..7
    [] p = "command" -> IF t = "replayshell" THEN 2..3 ELSE 1..2
    [] OTHER -> {}

\* Where main has given them up for a while.
LoweredSpots(t) ==
  CASE t = "recordshell" -> {16}
    [] t = "replayshell" -> {4, 5, 15}
    [] OTHER -> {4, 5, 6, 7, 16}

PrivAt(t, p, i) ==
  IF i \in UserSpots(t, p) THEN "user"
  ELSE IF p = "main" /\ i \in LoweredSpots(t) THEN "lowered" ELSE "root"

\* Where p has the user's environment.
EnvironSpots(t, p) ==
  CASE p = "main" -> IF t \in {"linkshell", "delayshell"} THEN {5, 6} ELSE {}
    [] p = "uplink" -> 8..12
    [] p = "downlink" -> 3..7
    [] p = "command" -> (CASE t = "recordshell" -> {2}
                           [] t = "replayshell" -> {3}
                           [] OTHER -> {1})
    [] OTHER -> {}

\* Who forks c, and by which operation.
Parent(t, c) ==
  CASE c = "command" -> (CASE t = "recordshell" -> "container"
                           [] t = "replayshell" -> "main"
                           [] OTHER -> "uplink")
    [] c = "dnsmasq" -> IF t = "replayshell" THEN "main" ELSE "uplink"
    [] OTHER -> "main"

Birth(t, c) ==
  CASE c = "container" -> 11
    [] c = "recorder" -> 14
    [] c = "uplink" -> 13
    [] c = "downlink" -> 14
    [] c = "dnsmasq" -> IF t = "replayshell" THEN 11 ELSE 4
    [] c = "command" -> (CASE t = "recordshell" -> 6
                           [] t = "replayshell" -> 13
                           [] OTHER -> 8)

\* Where main makes its event loop.
MaskSpot(t) ==
  CASE t = "recordshell" -> 10
    [] t = "replayshell" -> 9
    [] OTHER -> 11

\* What script s, of main, has acquired before operation n.
Held(s, n) == {s[i][2] : i \in {j \in 1..(n - 1) : s[j][1] = "acquire"}}
-----------------------------------------------------------------------------
(* The inductive invariant.                                                *)

\* Process q of name p has the privileges and the environment of its place; a
\* main that ends has them at most where its script has; no other process has
\* lowered them for a while only.
Rightful(t, p, q) ==
  /\ q.mode # "none" => p \in Cast(t)
  /\ q.at \in 1..Last(t, p)
  /\ q.mode \in {"script", "program"} =>
       /\ q.priv = PrivAt(t, p, q.at)
       /\ q.environ <=> q.at \in EnvironSpots(t, p)
  /\ q.mode = "program" => p \in {"command", "dnsmasq"}
  /\ p = "command" /\ q.mode = "program" => q.priv = "user"
  /\ p = "main" =>
       /\ q.priv # "user"
       /\ q.priv = "lowered" => q.at \in LoweredSpots(t)
       /\ q.environ => q.priv = "lowered" /\ q.at \in EnvironSpots(t, p)
  /\ p # "main" => q.priv # "lowered" /\ (q.environ => q.priv = "user")
  /\ q.terminated => q.mode = "dead"

\* A child c is there once its parent P has forked it, and is sent a signal
\* only by the destructors of P.
Related(t, c, P, q) ==
  /\ P.mode = "none" => q.mode = "none"
  /\ P.mode = "script" => (q.mode = "none" <=> P.at <= Birth(t, c))
  /\ q.signalled => P.mode \in {"unwinds", "dead"}

Families ==
  \A c \in Cast(tool) \ {"main"} :
    Related(tool, c, proc[Parent(tool, c)], proc[c])

\* Before main has made its event loop, and after that is gone, none of its
\* children is alive; and with a loop it only ends after that.
LoopOutlives ==
  /\ proc["main"].at <= MaskSpot(tool) =>
       \A c \in Cast(tool) \ {"main"} :
         Parent(tool, c) = "main" => proc[c].mode \in {"none", "dead"}
  /\ proc["main"].mode = "dead" /\ proc["main"].masked => proc["main"].at = 1

\* Someone in the container's namespace is alive.
Inhabited == Alive("container") \/ Alive("command")

\* What is there is what main has acquired, and the inhabited container's
\* device; and as long as main does not end, all that it has acquired is there.
Holding ==
  /\ kernel \subseteq Held(Script("main"), proc["main"].at)
                      \cup (IF Inhabited THEN {"ingress"} ELSE {})
  /\ proc["main"].mode = "script" =>
       Held(Script("main"), proc["main"].at) \ {"veth"} \subseteq kernel

\* The container has its device before it goes on.
Going ==
  /\ "go" \in sent =>
       /\ tool = "recordshell"
       /\ proc["main"].mode = "script" => proc["main"].at > 13
  /\ proc["container"].mode = "script" /\ proc["container"].at > 1 =>
       "go" \in sent
  /\ tool = "recordshell" /\ proc["command"].mode # "none" => "go" \in sent
  /\ tool = "recordshell" /\ Inhabited
     /\ \/ "go" \in sent
        \/ proc["main"].mode = "script" /\ proc["main"].at > 12
     => "ingress" \in kernel

\* As long as nothing went wrong, only a process that was told to end fails,
\* and what is waited for is there.
Healthy ==
  faults = 0 =>
    /\ \A p \in Procs : proc[p].status = "failure" =>
                          proc[p].mode = "dead" /\ proc[p].signalled
    /\ ~proc["main"].signalled
    /\ proc["dnsmasq"].mode \in {"none", "script", "program"}
       \/ proc["dnsmasq"].signalled
    /\ \/ proc["container"].mode \in {"none", "script"}
       \/ proc["container"].signalled \/ "go" \in sent

IInv ==
  /\ TypeOK
  /\ \A p \in Procs : Rightful(tool, p, proc[p])
  /\ Families /\ LoopOutlives /\ Holding /\ Going /\ Healthy
-----------------------------------------------------------------------------
(* The scripts.                                                            *)

\* Operation o with argument a, the i-th of p's script, finds the privileges
\* and the environment it needs, and leaves those of the next place.
Lawful(t, p, i, o) ==
  /\ o \notin {"loop", "exec"} => i < Last(t, p)
  /\ i < Last(t, p) =>
       /\ PrivAt(t, p, i + 1) =
            (CASE o = "drop" -> "user"
               [] o \in {"lower", "raise"} /\ PrivAt(t, p, i) = "user" -> "user"
               [] o = "lower" /\ PrivAt(t, p, i) # "user" -> "lowered"
               [] o = "raise" /\ PrivAt(t, p, i) # "user" -> "root"
               [] OTHER -> PrivAt(t, p, i))
       /\ (i + 1 \in EnvironSpots(t, p)) <=>
            \/ o \in {"environ", "lend"}
            \/ o # "unlend" /\ i \in EnvironSpots(t, p)
  /\ i \in EnvironSpots(t, p) => PrivAt(t, p, i) # "root"

\* The assertions in it hold.
Provided(t, p, i, o, a) ==
  /\ o \in {"require", "acquire"} =>
       PrivAt(t, p, i) = "root" /\ i \notin EnvironSpots(t, p)
  /\ o \in {"lend", "cleared"} => i \notin EnvironSpots(t, p)
  /\ o = "unprivileged" => PrivAt(t, p, i) # "root"
  /\ o = "exec" =>
       /\ p \in {"command", "dnsmasq"}
       /\ p = "command" => PrivAt(t, p, i) = "user"
       /\ p = "dnsmasq" => i \notin EnvironSpots(t, p) /\ a # "search"

\* Main's scopes nest, and what it acquires it releases as root.
Nested(t, p, i, o, a) ==
  /\ p = "main" /\ i + 1 \in LoweredSpots(t) /\ o # "lower" =>
       i \in LoweredSpots(t)
  /\ p = "main" /\ i + 1 \in EnvironSpots(t, p) /\ o # "lend" =>
       i \in EnvironSpots(t, p)
  /\ p = "main" /\ o = "lower" => i + 1 \notin EnvironSpots(t, p)
  /\ p = "main" => o # "drop" /\ o # "environ" /\ i \notin UserSpots(t, p)
  /\ p # "main" => o \notin {"lend", "unlend", "raise", "acquire", "give"}
  /\ p # "main" /\ i \in EnvironSpots(t, p) => i \in UserSpots(t, p)
  /\ o = "acquire" =>
       a \in Resources \ {"ingress"} /\ i + 1 \notin LoweredSpots(t)
  /\ p = "main" /\ o = "mask" => i = MaskSpot(t)

\* A child is forked once, as its own script has it.
Forking(t, p, i, o, a) ==
  o = "fork" =>
    /\ p \notin {"command", "dnsmasq"}
    /\ a \in Cast(t) \ {"main"} /\ Parent(t, a) = p /\ Birth(t, a) = i
    /\ PrivAt(t, a, 1) = PrivAt(t, p, i)
    /\ 1 \in EnvironSpots(t, a) <=> i \in EnvironSpots(t, p)

\* What the processes do for each other.
Meeting(t, p, i, o, a) ==
  /\ o = "give" => t = "recordshell" /\ i = 12 /\ a = "container"
  /\ o = "send" => a \in {"go", "fd"}
  /\ o = "send" /\ a = "go" => p = "main" /\ t = "recordshell" /\ i = 13
  /\ t = "recordshell" /\ p = "main" /\ i = 12 => o = "give"
  /\ t = "recordshell" /\ p = "main" /\ i = 13 => o = "send" /\ a = "go"
  /\ p = "container" /\ i = 1 => o = "receive" /\ a = "go"
  /\ o = "bring" => p = "container" /\ i > 1 /\ a = "ingress"
  /\ o = "await" => /\ a = "dnsmasq" /\ p = Parent(t, "dnsmasq")
                    /\ i > Birth(t, "dnsmasq") /\ "dnsmasq" \in Cast(t)
  /\ p = "dnsmasq" => o = "exec"
  /\ p \in {"command", "dnsmasq"} => o # "loop"
-----------------------------------------------------------------------------
(* The scripts are sound.                                                  *)

\* What is to be known of the i-th operation of script s, as p's.
SoundAt(t, p, s, i) ==
  LET o == s[i][1]
      a == s[i][2]
  IN  /\ Lawful(t, p, i, o) /\ Provided(t, p, i, o, a)
      /\ Nested(t, p, i, o, a) /\ Forking(t, p, i, o, a)
      /\ Meeting(t, p, i, o, a)

\* Every operation of p is in its place.
Sound(p) ==
  /\ DOMAIN Script(p) = 1..Last(tool, p)
  /\ \A i \in 1..Last(tool, p) : SoundAt(tool, p, Script(p), i)

\* recordshell.cc: v2proxy's own shell.
LEMMA RecordScripts == tool = "recordshell" => \A p \in Cast(tool) : Sound(p)
<1> USE DEF Do, Last, SoundAt, Lawful, Provided, Nested, Forking, Meeting,
            PrivAt, UserSpots, LoweredSpots, EnvironSpots, MaskSpot, Cast,
            Parent, Birth, Resources, Rules
<1> SUFFICES ASSUME tool = "recordshell", NEW p \in Cast(tool) PROVE Sound(p)
  OBVIOUS
<1>1. CASE p = "main"
  <2>1. Script(p) = RecordMain /\ DOMAIN RecordMain = 1..Last(tool, p)
    BY <1>1 DEF Script, RecordMain
  <2>2. \A i \in 1..Last(tool, p) : SoundAt(tool, p, RecordMain, i)
    BY <1>1 DEF RecordMain
  <2> QED BY <2>1, <2>2 DEF Sound
<1>2. CASE p = "container"
  <2>1. Script(p) = Container /\ DOMAIN Container = 1..Last(tool, p)
    BY <1>2 DEF Script, Container
  <2>2. \A i \in 1..Last(tool, p) : SoundAt(tool, p, Container, i)
    BY <1>2 DEF Container
  <2> QED BY <2>1, <2>2 DEF Sound
<1>3. CASE p = "recorder"
  <2>1. Script(p) = Recorder /\ DOMAIN Recorder = 1..Last(tool, p)
    BY <1>3 DEF Script, Recorder
  <2>2. \A i \in 1..Last(tool, p) : SoundAt(tool, p, Recorder, i)
    BY <1>3 DEF Recorder
  <2> QED BY <2>1, <2>2 DEF Sound
<1>4. CASE p = "command"
  <2>1. Script(p) = Command /\ DOMAIN Command = 1..Last(tool, p)
    BY <1>4 DEF Script, Command
  <2>2. \A i \in 1..Last(tool, p) : SoundAt(tool, p, Command, i)
    BY <1>4 DEF Command
  <2> QED BY <2>1, <2>2 DEF Sound
<1> QED BY <1>1, <1>2, <1>3, <1>4

\* replayshell.cc.
LEMMA ReplayScripts == tool = "replayshell" => \A p \in Cast(tool) : Sound(p)
<1> USE DEF Do, Last, SoundAt, Lawful, Provided, Nested, Forking, Meeting,
            PrivAt, UserSpots, LoweredSpots, EnvironSpots, MaskSpot, Cast,
            Parent, Birth, Resources, Rules
<1> SUFFICES ASSUME tool = "replayshell", NEW p \in Cast(tool) PROVE Sound(p)
  OBVIOUS
<1>1. CASE p = "main"
  <2>1. Script(p) = ReplayMain /\ DOMAIN ReplayMain = 1..Last(tool, p)
    BY <1>1 DEF Script, ReplayMain
  <2>2. \A i \in 1..Last(tool, p) : SoundAt(tool, p, ReplayMain, i)
    BY <1>1 DEF ReplayMain
  <2> QED BY <2>1, <2>2 DEF Sound
<1>2. CASE p = "dnsmasq"
  <2>1. Script(p) = Dnsmasq /\ DOMAIN Dnsmasq = 1..Last(tool, p)
    BY <1>2 DEF Script, Dnsmasq
  <2>2. \A i \in 1..Last(tool, p) : SoundAt(tool, p, Dnsmasq, i)
    BY <1>2 DEF Dnsmasq
  <2> QED BY <2>1, <2>2 DEF Sound
<1>3. CASE p = "command"
  <2>1. Script(p) = Command /\ DOMAIN Command = 1..Last(tool, p)
    BY <1>3 DEF Script, Command
  <2>2. \A i \in 1..Last(tool, p) : SoundAt(tool, p, Command, i)
    BY <1>3 DEF Command
  <2> QED BY <2>1, <2>2 DEF Sound
<1> QED BY <1>1, <1>2, <1>3

\* The packet shells.
Packets == {"linkshell", "delayshell"}

\* linkshell.cc, delayshell.cc, packetshell.cc: all of main but its arguments.
LEMMA PacketMainSound ==
  ASSUME NEW t \in Packets, NEW x
  PROVE  LET s == PacketMain(x)
         IN  /\ DOMAIN s = 1..Last(t, "main")
             /\ \A i \in 1..Last(t, "main") : SoundAt(t, "main", s, i)
<1> USE DEF Do, Last, Lawful, Provided, Nested, Forking, Meeting,
            PrivAt, UserSpots, LoweredSpots, EnvironSpots, MaskSpot, Cast,
            Parent, Birth, Resources, Rules, Packets
<1> DEFINE s == PacketMain(x)
<1>1. DOMAIN s = 1..Last(t, "main")
  BY DEF PacketMain, PacketShell, get_mahimahi_base, wait_for_exit
<1>2. /\ s[1] = Do("require") /\ s[2] = <<"setup", x>>
      /\ s[3] = Do("lower") /\ s[4] = Do("lend") /\ s[5][1] = "setup"
      /\ s[6] = Do("unlend") /\ s[7] = Do("raise") /\ s[8][1] = "setup"
      /\ s[9] = <<"acquire", "nat_pre">> /\ s[10] = <<"acquire", "nat_post">>
      /\ s[11] = Do("mask") /\ s[12] = Do("cleared")
      /\ s[13] = <<"fork", "uplink">> /\ s[14] = <<"fork", "downlink">>
      /\ s[15] = Do("lower") /\ s[16] = Do("loop")
  BY DEF PacketMain, PacketShell, get_mahimahi_base, wait_for_exit
<1> HIDE DEF s
<1>3. \A i \in 1..16 : Lawful(t, "main", i, s[i][1])
  BY <1>2
<1>4. \A i \in 1..16 : Provided(t, "main", i, s[i][1], s[i][2])
  BY <1>2
<1>5. \A i \in 1..16 : Nested(t, "main", i, s[i][1], s[i][2])
  BY <1>2
<1>6. \A i \in 1..16 : Forking(t, "main", i, s[i][1], s[i][2])
  BY <1>2
<1>7. \A i \in 1..16 : Meeting(t, "main", i, s[i][1], s[i][2])
  BY <1>2
<1> HIDE DEF Lawful, Provided, Nested, Forking, Meeting
<1>8. \A i \in 1..16 : SoundAt(t, "main", s, i)
  BY <1>3, <1>4, <1>5, <1>6, <1>7 DEF SoundAt
<1> QED BY <1>1, <1>8 DEF s

\* linkshell.cc, delayshell.cc, packetshell.cc: every process of them.
LEMMA PacketScripts == tool \in Packets => \A p \in Cast(tool) : Sound(p)
<1> USE DEF Do, Last, SoundAt, Lawful, Provided, Nested, Forking, Meeting,
            PrivAt, UserSpots, LoweredSpots, EnvironSpots, MaskSpot, Cast,
            Parent, Birth, Resources, Rules, Packets
<1> SUFFICES ASSUME tool \in Packets, NEW p \in Cast(tool) PROVE Sound(p)
  OBVIOUS
<1>1. CASE p = "main"
  <2> HIDE DEF Last, SoundAt
  <2>1. \E x : Script(p) = PacketMain(x)
    BY <1>1 DEF Script, Linkshell, Delayshell
  <2> QED BY <1>1, <2>1, PacketMainSound DEF Sound
<1>2. CASE p = "dnsmasq"
  <2>1. Script(p) = Dnsmasq /\ DOMAIN Dnsmasq = 1..Last(tool, p)
    BY <1>2 DEF Script, Dnsmasq
  <2>2. \A i \in 1..Last(tool, p) : SoundAt(tool, p, Dnsmasq, i)
    BY <1>2 DEF Dnsmasq
  <2> QED BY <2>1, <2>2 DEF Sound
<1>3. CASE p = "command"
  <2> DEFINE s == <<<<"exec", "search">>>>
  <2>1. Script(p) = s
    BY <1>3 DEF Script, Command
  <2>2. DOMAIN s = 1..Last(tool, p)
    BY <1>3
  <2>3. \A i \in 1..Last(tool, p) : SoundAt(tool, p, s, i)
    BY <1>3
  <2> HIDE DEF s
  <2> QED BY <2>1, <2>2, <2>3 DEF Sound
<1>4. CASE p = "uplink"
  <2>1. Script(p) = Uplink /\ DOMAIN Uplink = 1..Last(tool, p)
    BY <1>4 DEF Script, Uplink
  <2>2. \A i \in 1..Last(tool, p) : SoundAt(tool, p, Uplink, i)
    BY <1>4 DEF Uplink
  <2> QED BY <2>1, <2>2 DEF Sound
<1>5. CASE p = "downlink"
  <2>1. Script(p) = Downlink /\ DOMAIN Downlink = 1..Last(tool, p)
    BY <1>5 DEF Script, Downlink
  <2>2. \A i \in 1..Last(tool, p) : SoundAt(tool, p, Downlink, i)
    BY <1>5 DEF Downlink
  <2> QED BY <2>1, <2>2 DEF Sound
<1> QED BY <1>1, <1>2, <1>3, <1>4, <1>5

\* No operation of a tool's processes is out of its place.
LEMMA ScriptsSound ==
  ASSUME TypeOK, NEW p \in Cast(tool)
  PROVE  Sound(p)
<1>1. tool \in {"recordshell", "replayshell"} \cup Packets
  BY ToolsAssumption DEF TypeOK, AllTools, Packets
<1> QED BY <1>1, RecordScripts, ReplayScripts, PacketScripts
-----------------------------------------------------------------------------
(* What the tables say.                                                    *)

\* Every child has a parent, which forks it once, and if it is main, after its
\* event loop has been made.
LEMMA CastFacts ==
  ASSUME TypeOK
  PROVE  /\ "main" \in Cast(tool) /\ Cast(tool) \subseteq Procs
         /\ \A p \in Procs : Last(tool, p) \in 1..16
         /\ MaskSpot(tool) \in 1..(Last(tool, "main") - 1)
         /\ \A c \in Cast(tool) \ {"main"} :
              /\ Parent(tool, c) \in Cast(tool) \ {c, "command", "dnsmasq"}
              /\ Birth(tool, c) \in 1..Last(tool, Parent(tool, c))
              /\ Parent(tool, c) = "main" => Birth(tool, c) > MaskSpot(tool)
<1>1. tool \in {"recordshell", "replayshell", "linkshell", "delayshell"}
  BY ToolsAssumption DEF TypeOK, AllTools
<1> QED
  BY <1>1 DEF Cast, Procs, Last, MaskSpot, Parent, Birth

\* The scripts have these operations at these places.
LEMMA SpotFacts ==
  ASSUME TypeOK
  PROVE  /\ \A c \in Cast(tool) \ {"main"} :
              Script(Parent(tool, c))[Birth(tool, c)] = <<"fork", c>>
         /\ Script("main")[MaskSpot(tool)][1] = "mask"
         /\ \A n \in 14..Last(tool, "main") :
              Needed \ {"ingress"} \subseteq Held(Script("main"), n) \ {"veth"}
<1> DEFINE s == Script("main")
<1>1. CASE tool = "recordshell"
  <2>1. /\ s = RecordMain /\ Script("container") = Container
        /\ Cast(tool) = {"main", "container", "recorder", "command"}
    BY <1>1 DEF Script, Cast
  <2>2. /\ RecordMain[6] = <<"acquire", "nat_pre">>
        /\ RecordMain[7] = <<"acquire", "nat_post">>
        /\ RecordMain[9] = <<"acquire", "dnat">>
        /\ RecordMain[10] = Do("mask")
        /\ RecordMain[11] = <<"fork", "container">>
        /\ RecordMain[14] = <<"fork", "recorder">>
        /\ Container[6] = <<"fork", "command">>
    BY DEF RecordMain, Container, Do
  <2> HIDE DEF s
  <2>3. \A n \in 14..16 : {"nat_pre", "nat_post", "dnat"} \subseteq Held(s, n)
    BY <2>1, <2>2 DEF Held
  <2>4. Needed \ {"ingress"} \subseteq {"nat_pre", "nat_post", "dnat"}
    BY <1>1 DEF Needed
  <2>5. Last(tool, "main") = 16 /\ s[MaskSpot(tool)][1] = "mask"
    BY <1>1, <2>1, <2>2 DEF Last, MaskSpot, Do
  <2>6. \A c \in Cast(tool) \ {"main"} :
          Script(Parent(tool, c))[Birth(tool, c)] = <<"fork", c>>
    BY <1>1, <2>1, <2>2 DEF Parent, Birth, s
  <2> QED BY <2>3, <2>4, <2>5, <2>6 DEF s
<1>2. CASE tool = "replayshell"
  <2>1. s = ReplayMain /\ Cast(tool) = {"main", "dnsmasq", "command"}
    BY <1>2 DEF Script, Cast
  <2>2. /\ ReplayMain[7] = <<"acquire", "apache">>
        /\ ReplayMain[8] = <<"acquire", "hosts">>
        /\ ReplayMain[9] = Do("mask") /\ ReplayMain[11] = <<"fork", "dnsmasq">>
        /\ ReplayMain[13] = <<"fork", "command">>
    BY DEF ReplayMain, Do
  <2> HIDE DEF s
  <2>3. \A n \in 14..16 : {"apache", "hosts"} \subseteq Held(s, n)
    BY <2>1, <2>2 DEF Held
  <2>4. Needed \ {"ingress"} \subseteq {"apache", "hosts"}
    BY <1>2 DEF Needed
  <2>5. Last(tool, "main") = 15 /\ s[MaskSpot(tool)][1] = "mask"
    BY <1>2, <2>1, <2>2 DEF Last, MaskSpot, Do
  <2>6. \A c \in Cast(tool) \ {"main"} :
          Script(Parent(tool, c))[Birth(tool, c)] = <<"fork", c>>
    BY <1>2, <2>1, <2>2 DEF Parent, Birth, s
  <2> QED BY <2>3, <2>4, <2>5, <2>6 DEF s
<1>3. CASE tool \in Packets
  <2>1. PICK x : s = PacketMain(x)
    BY <1>3 DEF Script, Linkshell, Delayshell, Packets
  <2>2. /\ PacketMain(x)[9] = <<"acquire", "nat_pre">>
        /\ PacketMain(x)[10] = <<"acquire", "nat_post">>
        /\ PacketMain(x)[11] = Do("mask")
        /\ PacketMain(x)[13] = <<"fork", "uplink">>
        /\ PacketMain(x)[14] = <<"fork", "downlink">>
    BY DEF PacketMain, PacketShell, get_mahimahi_base, wait_for_exit, Do
  <2>3. /\ Uplink[4] = <<"fork", "dnsmasq">>
        /\ Uplink[8] = <<"fork", "command">>
    BY DEF Uplink, Do
  <2>4. /\ Cast(tool) = {"main", "uplink", "downlink", "dnsmasq", "command"}
        /\ Script("uplink") = Uplink
    BY <1>3 DEF Script, Cast, Packets
  <2> HIDE DEF s
  <2>5. \A n \in 14..16 : {"nat_pre", "nat_post"} \subseteq Held(s, n)
    BY <2>1, <2>2 DEF Held
  <2>6. Needed \ {"ingress"} \subseteq {"nat_pre", "nat_post"}
    BY <1>3 DEF Needed, Packets
  <2>7. Last(tool, "main") = 16 /\ s[MaskSpot(tool)][1] = "mask"
    BY <1>3, <2>1, <2>2 DEF Last, MaskSpot, Do, Packets
  <2>8. \A c \in Cast(tool) \ {"main"} :
          Script(Parent(tool, c))[Birth(tool, c)] = <<"fork", c>>
    BY <1>3, <2>1, <2>2, <2>3, <2>4 DEF Parent, Birth, s, Packets
  <2> QED BY <2>5, <2>6, <2>7, <2>8 DEF s
<1> QED
  BY <1>1, <1>2, <1>3, ToolsAssumption DEF TypeOK, AllTools, Packets

\* A tool's scripts stay as they are.
LEMMA SameScripts ==
  ASSUME tool' = tool
  PROVE  \A p : Script(p)' = Script(p)
BY DEF Script, Command

\* One operation more, and what it acquires is held.
LEMMA HeldNext ==
  ASSUME NEW s, NEW n \in Nat \ {0}
  PROVE  Held(s, n + 1) =
           Held(s, n) \cup (IF s[n][1] = "acquire" THEN {s[n][2]} ELSE {})
<1>1. \A j \in 1..n : j \in 1..(n - 1) \/ j = n
  OBVIOUS
<1>2. \A j \in 1..(n - 1) : j \in 1..n
  OBVIOUS
<1>3. n + 1 - 1 = n /\ n \in 1..n
  OBVIOUS
<1> QED BY <1>1, <1>2, <1>3 DEF Held

\* At the first operation nothing is held.
LEMMA HeldFirst == \A s : Held(s, 1) = {}
BY DEF Held

\* Where a process is, in a tool of which it is one.
LEMMA Placed ==
  ASSUME IInv, NEW p \in Procs, proc[p].mode # "none"
  PROVE  /\ p \in Cast(tool) /\ Last(tool, p) \in 1..16
         /\ DOMAIN Script(p) = 1..Last(tool, p)
         /\ proc[p].at \in 1..Last(tool, p)
         /\ SoundAt(tool, p, Script(p), proc[p].at)
         /\ proc[p].at > 1 => /\ proc[p].at - 1 \in 1..Last(tool, p)
                              /\ SoundAt(tool, p, Script(p), proc[p].at - 1)
<1>1. p \in Cast(tool) /\ proc[p].at \in 1..Last(tool, p)
  BY DEF IInv, Rightful
<1>2. Last(tool, p) \in 1..16 /\ Sound(p)
  BY <1>1, CastFacts, ScriptsSound DEF IInv
<1> QED BY <1>1, <1>2 DEF Sound
-----------------------------------------------------------------------------
(* The steps.                                                              *)

\* A tool starts with main alone, which has done nothing yet.
LEMMA InitIInv == Init => IInv
<1> SUFFICES ASSUME Init PROVE IInv
  OBVIOUS
<1>1. TypeOK
  BY FaultsAssumption DEF Init, TypeOK, Process, Procs
<1>2. ASSUME NEW p \in Procs PROVE Rightful(tool, p, proc[p])
  <2>1. /\ p = "main" => 1 \notin UserSpots(tool, p)
        /\ 1 \notin LoweredSpots(tool) /\ 1 \notin EnvironSpots(tool, "main")
    BY DEF UserSpots, LoweredSpots, EnvironSpots
  <2>2. 1 \in 1..Last(tool, p)
    BY <1>1, CastFacts
  <2>3. p = "main" => p \in Cast(tool) /\ PrivAt(tool, p, 1) = "root"
    BY <1>1, <2>1, CastFacts DEF PrivAt
  <2> QED BY <2>1, <2>2, <2>3 DEF Init, Rightful
<1>3. Families
  BY <1>1, CastFacts DEF Init, Families, Related
<1>4. LoopOutlives
  BY <1>1, CastFacts DEF Init, LoopOutlives, Procs
<1>5. Holding
  BY HeldFirst DEF Init, Holding, Procs
<1>6. Going /\ Healthy
  BY DEF Init, Going, Healthy, Procs, Inhabited, Alive
<1> QED BY <1>1, <1>2, <1>3, <1>4, <1>5, <1>6 DEF IInv

\* A process goes on to its next operation: it finds there what its script
\* has for it, and its children are where they were.
LEMMA ForwardProcs ==
  ASSUME IInv, tool' = tool, NEW p \in Procs, NEW q \in Process,
         proc[p].mode = "script", Op(p)[1] \notin {"fork", "exec", "loop"},
         proc' = [proc EXCEPT ![p] = q],
         q.mode = "script", q.at = proc[p].at + 1,
         q.signalled = proc[p].signalled, q.terminated = proc[p].terminated,
         q.priv = PrivAt(tool, p, q.at),
         q.environ <=> q.at \in EnvironSpots(tool, p)
  PROVE  /\ proc' \in [Procs -> Process]
         /\ \A r \in Procs : Rightful(tool, r, proc[r])'
         /\ Families' /\ LoopOutlives'
<1> DEFINE n == proc[p].at
<1>1. /\ proc \in [Procs -> Process] /\ TypeOK
      /\ \A r \in Procs : proc'[r] = IF r = p THEN q ELSE proc[r]
  BY DEF IInv, TypeOK
<1>2. /\ p \in Cast(tool) /\ n \in 1..Last(tool, p) /\ Last(tool, p) \in 1..16
      /\ SoundAt(tool, p, Script(p), n)
  BY Placed
<1>3. /\ Lawful(tool, p, n, Op(p)[1])
      /\ Nested(tool, p, n, Op(p)[1], Op(p)[2])
  BY <1>2 DEF SoundAt, Op
<1>4. n < Last(tool, p)
  BY <1>3 DEF Lawful
<1>5. Rightful(tool, p, proc[p])
  BY DEF IInv
<1>6. Rightful(tool, p, q)
  <2>1. q.at \in 1..Last(tool, p) /\ ~q.terminated
    BY <1>2, <1>4, <1>5 DEF Rightful
  <2>2. /\ p = "main" => q.priv # "user"
        /\ q.priv = "lowered" => p = "main" /\ q.at \in LoweredSpots(tool)
    BY <1>3, <1>5 DEF PrivAt, Rightful, Lawful, Nested
  <2>3. q.environ => q.priv # "root"
    <3>1. SoundAt(tool, p, Script(p), q.at)
      BY <1>1, <1>2, <2>1, ScriptsSound DEF Sound
    <3> QED BY <3>1 DEF SoundAt, Lawful
  <2>4. q.priv \in {"root", "lowered", "user"}
    BY DEF PrivAt
  <2> QED BY <1>2, <2>1, <2>2, <2>3, <2>4 DEF Rightful
<1>7. \A r \in Procs : Rightful(tool, r, proc[r])'
  BY <1>1, <1>6 DEF IInv
<1>8. Families'
  <2> SUFFICES ASSUME NEW c \in Cast(tool) \ {"main"}
               PROVE  Related(tool, c, proc'[Parent(tool, c)], proc'[c])
    BY DEF Families
  <2>1. Related(tool, c, proc[Parent(tool, c)], proc[c])
    BY DEF IInv, Families
  <2>2. /\ Parent(tool, c) \in Procs \ {c} /\ c \in Procs
        /\ Birth(tool, c) \in Nat
        /\ Script(Parent(tool, c))[Birth(tool, c)] = <<"fork", c>>
    BY <1>1, CastFacts, SpotFacts
  <2>3. CASE c = p
    BY <1>1, <2>1, <2>2, <2>3 DEF Related
  <2>4. CASE Parent(tool, c) = p
    <3>1. n # Birth(tool, c)
      BY <2>2, <2>4 DEF Op
    <3>2. n <= Birth(tool, c) <=> n + 1 <= Birth(tool, c)
      BY <1>2, <2>2, <3>1
    <3> QED BY <1>1, <2>1, <2>2, <2>4, <3>2 DEF Related
  <2>5. CASE c # p /\ Parent(tool, c) # p
    BY <1>1, <2>1, <2>2, <2>5
  <2> QED BY <2>3, <2>4, <2>5
<1>9. LoopOutlives'
  <2>1. "main" \in Procs /\ MaskSpot(tool) \in Nat /\ LoopOutlives
    BY <1>1, CastFacts DEF IInv
  <2>2. /\ proc'["main"].at <= MaskSpot(tool) =>
             proc["main"].at <= MaskSpot(tool)
        /\ proc'["main"].mode = "dead" =>
             proc["main"].mode = "dead" /\ proc'["main"] = proc["main"]
    BY <1>1, <1>2, <2>1
  <2>3. ASSUME NEW c \in Cast(tool) \ {"main"},
               proc[c].mode \in {"none", "dead"}
        PROVE  proc'[c].mode \in {"none", "dead"}
    BY <1>1, <2>3, CastFacts
  <2> QED BY <2>1, <2>2, <2>3 DEF LoopOutlives
<1> QED BY <1>1, <1>7, <1>8, <1>9

\* What it leaves for the others: it may have waited, acquired, given or sent.
LEMMA ForwardRest ==
  ASSUME IInv, tool' = tool, faults' = faults, NEW p \in Procs,
         NEW q \in Process,
         proc[p].mode = "script", Op(p)[1] \notin {"fork", "exec", "loop"},
         proc' = [proc EXCEPT ![p] = q],
         q.mode = "script", q.at = proc[p].at + 1, q.status = proc[p].status,
         q.signalled = proc[p].signalled,
         Op(p)[1] = "receive" => Op(p)[2] \in sent,
         Op(p)[1] = "give" => Alive("container"),
         kernel' = CASE Op(p)[1] = "acquire" -> kernel \cup {Op(p)[2]}
                     [] Op(p)[1] = "give" ->
                          (kernel \ {"veth"}) \cup {"ingress"}
                     [] OTHER -> kernel,
         sent' = IF Op(p)[1] = "send" THEN sent \cup {Op(p)[2]} ELSE sent
  PROVE  /\ kernel' \subseteq Resources /\ sent' \subseteq {"go", "fd"}
         /\ Holding' /\ Going' /\ Healthy'
<1> DEFINE n == proc[p].at
           o == Op(p)[1]
           a == Op(p)[2]
           m == proc["main"].at
           s == Script("main")
<1>1. /\ proc \in [Procs -> Process] /\ TypeOK
      /\ \A r \in Procs : proc'[r] = IF r = p THEN q ELSE proc[r]
      /\ "main" \in Procs /\ "container" \in Procs /\ "command" \in Procs
      /\ "dnsmasq" \in Procs
  BY DEF IInv, TypeOK, Procs
<1>2. /\ p \in Cast(tool) /\ n \in 1..Last(tool, p) /\ Last(tool, p) \in 1..16
      /\ SoundAt(tool, p, Script(p), n)
  BY Placed
<1>3. Nested(tool, p, n, o, a) /\ Meeting(tool, p, n, o, a)
  BY <1>2 DEF SoundAt, Op
<1>4. kernel' \subseteq Resources /\ sent' \subseteq {"go", "fd"}
  BY <1>1, <1>3 DEF TypeOK, Nested, Meeting, Resources
<1>5. Inhabited' <=> Inhabited
  BY <1>1 DEF Inhabited, Alive
<1>6. Script("main")' = s
  BY SameScripts
<1>7. Holding'
  <2>1. CASE p # "main"
    <3>1. kernel' = kernel /\ proc'["main"] = proc["main"]
      BY <1>1, <1>3, <2>1 DEF Nested
    <3> QED BY <1>5, <1>6, <3>1 DEF IInv, Holding
  <2>2. CASE p = "main"
    <3>1. Held(s, m + 1) =
            Held(s, m) \cup (IF o = "acquire" THEN {a} ELSE {})
      BY <1>2, <2>2, HeldNext DEF Op
    <3>2. /\ kernel \subseteq Held(s, m) \cup
               (IF Inhabited THEN {"ingress"} ELSE {})
          /\ Held(s, m) \ {"veth"} \subseteq kernel
      BY <2>2 DEF IInv, Holding
    <3>3. o = "give" => Inhabited
      BY DEF Inhabited
    <3>4. /\ kernel' \subseteq Held(s, m + 1) \cup
               (IF Inhabited THEN {"ingress"} ELSE {})
          /\ Held(s, m + 1) \ {"veth"} \subseteq kernel'
      BY <3>1, <3>2, <3>3
    <3>5. proc'["main"].at = m + 1
      BY <1>1, <2>2
    <3> QED BY <1>5, <1>6, <3>4, <3>5 DEF Holding
  <2> QED BY <2>1, <2>2
<1>8. Going'
  <2>1. "go" \in sent' =>
          /\ tool = "recordshell"
          /\ proc'["main"].mode = "script" => proc'["main"].at > 13
    BY <1>1, <1>2, <1>3 DEF IInv, Going, Meeting
  <2>2. proc'["container"].mode = "script" /\ proc'["container"].at > 1 =>
          "go" \in sent'
    <3>1. CASE p = "container" /\ n = 1
      BY <1>3, <3>1 DEF Meeting
    <3>2. CASE ~(p = "container" /\ n = 1)
      BY <1>1, <1>2, <3>2 DEF IInv, Going
    <3> QED BY <3>1, <3>2
  <2>3. tool = "recordshell" /\ proc'["command"].mode # "none" =>
          "go" \in sent'
    BY <1>1 DEF IInv, Going
  <2>4. ASSUME tool = "recordshell", Inhabited,
               "go" \in sent' \/ (proc'["main"].mode = "script"
                                  /\ proc'["main"].at > 12)
        PROVE  "ingress" \in kernel'
    <3>1. CASE o = "give"
      BY <3>1
    <3>2. CASE o # "give"
      <4>1. \/ "go" \in sent
            \/ proc["main"].mode = "script" /\ proc["main"].at > 12
        <5>1. CASE p = "main" /\ n = 12
          BY <1>3, <2>4, <3>2, <5>1 DEF Meeting
        <5>2. CASE ~(p = "main" /\ n = 12)
          BY <1>1, <1>2, <1>3, <2>4, <5>2 DEF Meeting
        <5> QED BY <5>1, <5>2
      <4>2. "ingress" \in kernel
        BY <2>4, <4>1 DEF IInv, Going
      <4> QED BY <3>2, <4>2
    <3> QED BY <3>1, <3>2
  <2> QED BY <1>5, <2>1, <2>2, <2>3, <2>4 DEF Going
<1>9. Healthy'
  BY <1>1 DEF IInv, Healthy
<1> QED BY <1>4, <1>7, <1>8, <1>9

\* A process that goes on is a process.
LEMMA AdvancedTyped ==
  ASSUME NEW x \in Process, NEW v \in {"root", "lowered", "user"},
         NEW e \in BOOLEAN, NEW k \in BOOLEAN
  PROVE  [x EXCEPT !.at = @ + 1, !.priv = v, !.environ = e, !.masked = k]
           \in Process
<1>1. x.at + 1 \in Nat \ {0}
  BY DEF Process
<1> QED BY <1>1 DEF Process

\* An operation that has what it needs, and forks or executes nothing.
LEMMA ForwardStep ==
  ASSUME IInv, tool' = tool, faults' = faults, NEW p \in Procs,
         proc[p].mode = "script", Op(p)[1] \notin {"fork", "exec", "loop"},
         NEW v \in {"root", "lowered", "user"}, NEW e \in BOOLEAN,
         NEW k \in BOOLEAN,
         proc' = [proc EXCEPT ![p] = [proc[p] EXCEPT !.at = @ + 1,
                    !.priv = v, !.environ = e, !.masked = k]],
         v = (CASE Op(p)[1] = "drop" -> "user"
                [] Op(p)[1] \in {"lower", "raise"} /\ proc[p].priv = "user"
                     -> "user"
                [] Op(p)[1] = "lower" /\ proc[p].priv # "user" -> "lowered"
                [] Op(p)[1] = "raise" /\ proc[p].priv # "user" -> "root"
                [] OTHER -> proc[p].priv),
         e <=> \/ Op(p)[1] \in {"environ", "lend"}
               \/ Op(p)[1] # "unlend" /\ proc[p].environ,
         Op(p)[1] = "receive" => Op(p)[2] \in sent,
         Op(p)[1] = "give" => Alive("container"),
         kernel' = CASE Op(p)[1] = "acquire" -> kernel \cup {Op(p)[2]}
                     [] Op(p)[1] = "give" ->
                          (kernel \ {"veth"}) \cup {"ingress"}
                     [] OTHER -> kernel,
         sent' = IF Op(p)[1] = "send" THEN sent \cup {Op(p)[2]} ELSE sent
  PROVE  IInv'
<1> DEFINE q == [proc[p] EXCEPT !.at = @ + 1,
                   !.priv = v, !.environ = e, !.masked = k]
           n == proc[p].at
<1>1. proc[p] \in Process
  BY DEF IInv, TypeOK
<1>2. /\ q.mode = "script" /\ q.at = n + 1
      /\ q.status = proc[p].status /\ q.signalled = proc[p].signalled
      /\ q.terminated = proc[p].terminated /\ q.priv = v
      /\ q.environ <=> e
  BY <1>1 DEF Process
<1>10. q \in Process
  BY <1>1, AdvancedTyped
<1>3. n < Last(tool, p) /\ Lawful(tool, p, n, Op(p)[1])
  BY Placed DEF SoundAt, Lawful, Op
<1>4. /\ proc[p].priv = PrivAt(tool, p, n)
      /\ proc[p].environ <=> n \in EnvironSpots(tool, p)
  BY DEF IInv, Rightful
<1>5. v = PrivAt(tool, p, n + 1) /\ (e <=> n + 1 \in EnvironSpots(tool, p))
  BY <1>3, <1>4 DEF Lawful
<1> HIDE DEF q
<1>6. proc' = [proc EXCEPT ![p] = q]
  BY DEF q
<1>7. /\ proc' \in [Procs -> Process]
      /\ \A r \in Procs : Rightful(tool, r, proc[r])'
      /\ Families' /\ LoopOutlives'
  <2>1. /\ q.priv = PrivAt(tool, p, q.at)
        /\ q.environ <=> q.at \in EnvironSpots(tool, p)
    BY <1>2, <1>5
  <2> QED BY <1>2, <1>6, <1>10, <2>1, ForwardProcs
<1>8. /\ kernel' \subseteq Resources /\ sent' \subseteq {"go", "fd"}
      /\ Holding' /\ Going' /\ Healthy'
  BY <1>2, <1>6, <1>10, ForwardRest
<1>9. TypeOK'
  BY <1>7, <1>8 DEF IInv, TypeOK
<1> QED BY <1>7, <1>8, <1>9 DEF IInv

\* What is no operation on privileges or the environment leaves them.
LEMMA PlainStep ==
  ASSUME IInv, tool' = tool, faults' = faults, NEW p \in Procs,
         proc[p].mode = "script",
         Op(p)[1] \notin {"fork", "exec", "loop", "drop", "lower", "raise",
                          "environ", "lend", "unlend", "mask"},
         Goes(p),
         Op(p)[1] = "receive" => Op(p)[2] \in sent,
         Op(p)[1] = "give" => Alive("container"),
         kernel' = CASE Op(p)[1] = "acquire" -> kernel \cup {Op(p)[2]}
                     [] Op(p)[1] = "give" ->
                          (kernel \ {"veth"}) \cup {"ingress"}
                     [] OTHER -> kernel,
         sent' = IF Op(p)[1] = "send" THEN sent \cup {Op(p)[2]} ELSE sent
  PROVE  IInv'
<1> DEFINE x == proc[p]
           v == x.priv
           e == x.environ
           k == x.masked
<1>1. x \in Process
  BY DEF IInv, TypeOK
<1>2. v \in {"root", "lowered", "user"} /\ e \in BOOLEAN /\ k \in BOOLEAN
  BY <1>1 DEF Process
<1>3. proc' = [proc EXCEPT ![p] = [x EXCEPT !.at = @ + 1,
                 !.priv = v, !.environ = e, !.masked = k]]
  BY <1>1 DEF Goes, Becomes, Process
<1> HIDE DEF v, e, k
<1>4. /\ v = (CASE Op(p)[1] = "drop" -> "user"
                [] Op(p)[1] \in {"lower", "raise"} /\ proc[p].priv = "user"
                     -> "user"
                [] Op(p)[1] = "lower" /\ proc[p].priv # "user" -> "lowered"
                [] Op(p)[1] = "raise" /\ proc[p].priv # "user" -> "root"
                [] OTHER -> proc[p].priv)
      /\ e <=> \/ Op(p)[1] \in {"environ", "lend"}
               \/ Op(p)[1] # "unlend" /\ proc[p].environ
  BY DEF v, e
<1> QED BY <1>2, <1>3, <1>4, ForwardStep

\* Setup, recv_fd and start_dnsmasq.
LEMMA PassesStep ==
  ASSUME IInv, NEW p \in Procs, Setup(p) \/ recv_fd(p) \/ start_dnsmasq(p)
  PROVE  IInv'
<1>1. /\ proc[p].mode = "script" /\ Goes(p)
      /\ UNCHANGED <<tool, kernel, sent, faults>>
      /\ Op(p)[1] \in {"require", "cleared", "setup", "unprivileged", "bring",
                       "receive", "await"}
      /\ Op(p)[1] = "receive" => Op(p)[2] \in sent
  BY DEF Setup, recv_fd, start_dnsmasq, Passes
<1> QED BY <1>1, PlainStep

\* Main makes something that outlives it.
LEMMA AcquireStep ==
  ASSUME IInv, NEW p \in Procs,
         VirtualEthernetPair(p) \/ NATRule(p) \/ WebServer(p) \/ TempFile(p)
  PROVE  IInv'
<1>1. /\ proc[p].mode = "script" /\ Goes(p) /\ Op(p)[1] = "acquire"
      /\ kernel' = kernel \cup {Op(p)[2]}
      /\ UNCHANGED <<tool, sent, faults>>
  BY DEF VirtualEthernetPair, NATRule, WebServer, TempFile, Acquire, At
<1> QED BY <1>1, PlainStep

\* Main gives the container its device, or a process tells another something.
LEMMA GiveSendStep ==
  ASSUME IInv, NEW p \in Procs, Give(p) \/ Send(p)
  PROVE  IInv'
<1>1. CASE Give(p)
  <2>1. Op(p)[1] = "give" /\ Op(p)[2] = "container"
    BY <1>1, Placed DEF SoundAt, Meeting, Op, Give, At
  <2>2. /\ proc[p].mode = "script" /\ Goes(p) /\ Alive("container")
        /\ kernel' = (kernel \ {"veth"}) \cup {"ingress"}
        /\ UNCHANGED <<tool, sent, faults>>
    BY <1>1, <2>1 DEF Give, At, Possible
  <2> QED BY <2>1, <2>2, PlainStep
<1>2. CASE Send(p)
  <2>1. /\ proc[p].mode = "script" /\ Goes(p) /\ Op(p)[1] = "send"
        /\ sent' = sent \cup {Op(p)[2]}
        /\ UNCHANGED <<tool, kernel, faults>>
    BY <1>2 DEF Send, At
  <2> QED BY <2>1, PlainStep
<1> QED BY <1>1, <1>2

\* Privileges are given up, or taken back where that is possible.
LEMMA PrivilegeStep ==
  ASSUME IInv, NEW p \in Procs,
         drop_privileges(p) \/ TemporarilyUnprivileged(p)
  PROVE  IInv'
<1> DEFINE x == proc[p]
           v == IF At(p, "drop") THEN "user"
                ELSE IF x.priv = "user" THEN x.priv
                ELSE IF At(p, "lower") THEN "lowered" ELSE "root"
           e == x.environ
           k == x.masked
<1>1. x \in Process
  BY DEF IInv, TypeOK
<1>2. e \in BOOLEAN /\ k \in BOOLEAN /\ v \in {"root", "lowered", "user"}
  BY <1>1 DEF Process
<1>3. proc' = [proc EXCEPT ![p] = [x EXCEPT !.at = @ + 1,
                 !.priv = v, !.environ = e, !.masked = k]]
  <2>1. CASE drop_privileges(p)
    <3>1. v = "user"
      BY <2>1 DEF drop_privileges
    <3> QED BY <1>1, <2>1, <3>1 DEF drop_privileges, Becomes, Process
  <2>2. CASE TemporarilyUnprivileged(p)
    <3>1. v = IF x.priv = "user" THEN x.priv
              ELSE IF At(p, "lower") THEN "lowered" ELSE "root"
      BY <2>2 DEF TemporarilyUnprivileged, At
    <3> HIDE DEF v
    <3> QED BY <1>1, <2>2, <3>1 DEF TemporarilyUnprivileged, Becomes, Process
  <2> QED BY <2>1, <2>2
<1>4. /\ x.mode = "script" /\ Op(p)[1] \in {"drop", "lower", "raise"}
      /\ UNCHANGED <<tool, kernel, sent, faults>>
  BY DEF drop_privileges, TemporarilyUnprivileged, At
<1>5. /\ v = (CASE Op(p)[1] = "drop" -> "user"
                [] Op(p)[1] \in {"lower", "raise"} /\ proc[p].priv = "user"
                     -> "user"
                [] Op(p)[1] = "lower" /\ proc[p].priv # "user" -> "lowered"
                [] Op(p)[1] = "raise" /\ proc[p].priv # "user" -> "root"
                [] OTHER -> proc[p].priv)
      /\ e <=> \/ Op(p)[1] \in {"environ", "lend"}
               \/ Op(p)[1] # "unlend" /\ proc[p].environ
  BY <1>4 DEF At
<1> HIDE DEF v, e, k
<1> QED BY <1>2, <1>3, <1>4, <1>5, ForwardStep

\* The user's environment is taken or put back.
LEMMA EnvironmentStep ==
  ASSUME IInv, NEW p \in Procs, TemporaryEnvironment(p)
  PROVE  IInv'
<1> DEFINE x == proc[p]
           v == x.priv
           e == ~At(p, "unlend")
           k == x.masked
<1>1. x \in Process
  BY DEF IInv, TypeOK
<1>2. e \in BOOLEAN /\ k \in BOOLEAN /\ v \in {"root", "lowered", "user"}
  BY <1>1 DEF Process
<1>3. proc' = [proc EXCEPT ![p] = [x EXCEPT !.at = @ + 1,
                 !.priv = v, !.environ = e, !.masked = k]]
  BY <1>1 DEF TemporaryEnvironment, Becomes, Process
<1>4. /\ x.mode = "script" /\ Op(p)[1] \in {"environ", "lend", "unlend"}
      /\ UNCHANGED <<tool, kernel, sent, faults>>
  BY DEF TemporaryEnvironment, At
<1>5. /\ v = (CASE Op(p)[1] = "drop" -> "user"
                [] Op(p)[1] \in {"lower", "raise"} /\ proc[p].priv = "user"
                     -> "user"
                [] Op(p)[1] = "lower" /\ proc[p].priv # "user" -> "lowered"
                [] Op(p)[1] = "raise" /\ proc[p].priv # "user" -> "root"
                [] OTHER -> proc[p].priv)
      /\ e <=> \/ Op(p)[1] \in {"environ", "lend"}
               \/ Op(p)[1] # "unlend" /\ proc[p].environ
  BY <1>4 DEF At
<1> HIDE DEF v, e, k
<1> QED BY <1>2, <1>3, <1>4, <1>5, ForwardStep

\* The signals are blocked.
LEMMA MaskStep ==
  ASSUME IInv, NEW p \in Procs, Mask(p)
  PROVE  IInv'
<1> DEFINE x == proc[p]
           v == x.priv
           e == x.environ
<1>1. x \in Process
  BY DEF IInv, TypeOK
<1>2. e \in BOOLEAN /\ v \in {"root", "lowered", "user"}
  BY <1>1 DEF Process
<1>3. proc' = [proc EXCEPT ![p] = [x EXCEPT !.at = @ + 1,
                 !.priv = v, !.environ = e, !.masked = TRUE]]
  BY <1>1 DEF Mask, Becomes, Process
<1>4. /\ x.mode = "script" /\ Op(p)[1] = "mask"
      /\ UNCHANGED <<tool, kernel, sent, faults>>
  BY DEF Mask, At
<1>5. /\ v = (CASE Op(p)[1] = "drop" -> "user"
                [] Op(p)[1] \in {"lower", "raise"} /\ proc[p].priv = "user"
                     -> "user"
                [] Op(p)[1] = "lower" /\ proc[p].priv # "user" -> "lowered"
                [] Op(p)[1] = "raise" /\ proc[p].priv # "user" -> "root"
                [] OTHER -> proc[p].priv)
      /\ e <=> \/ Op(p)[1] \in {"environ", "lend"}
               \/ Op(p)[1] # "unlend" /\ proc[p].environ
  BY <1>4
<1> HIDE DEF v, e
<1> QED BY <1>2, <1>3, <1>4, <1>5, ForwardStep
-----------------------------------------------------------------------------
(* The ends.                                                               *)

\* The operations of a process whose privileges and environment are those of
\* its place have what they need, if the others are where they should be.
LEMMA HasWhatItNeeds ==
  ASSUME IInv, NEW p \in Procs, proc[p].mode = "script", faults = 0
  PROVE  Possible(p)
<1> DEFINE n == proc[p].at
           o == Op(p)[1]
           a == Op(p)[2]
<1>1. /\ p \in Cast(tool) /\ n \in 1..Last(tool, p) /\ Last(tool, p) \in 1..16
      /\ SoundAt(tool, p, Script(p), n) /\ TypeOK
  BY Placed DEF IInv
<1>2. Provided(tool, p, n, o, a) /\ Meeting(tool, p, n, o, a)
  BY <1>1 DEF SoundAt, Op
<1>3. /\ proc[p].priv = PrivAt(tool, p, n)
      /\ proc[p].environ <=> n \in EnvironSpots(tool, p)
  BY DEF IInv, Rightful
<1>4. /\ o = "require" => check_requirements(p)
      /\ o = "acquire" => run(p)
      /\ o \in {"lend", "cleared"} => ~proc[p].environ
      /\ o = "unprivileged" => assert_not_root(p)
  BY <1>2, <1>3 DEF Provided, check_requirements, run, ezexec,
                    assert_not_root, IsRoot
<1>5. o = "exec" => ezexec(p, a = "search")
  BY <1>2, <1>3 DEF Provided, ezexec, IsRoot
<1>6. ASSUME o = "give" PROVE Alive(a)
  <2>1. tool = "recordshell" /\ n = 12 /\ a = "container" /\ p = "main"
    BY <1>1, <1>2, <1>6 DEF Meeting, SoundAt, Nested, Op
  <2>2. /\ "container" \in Cast(tool) \ {"main"}
        /\ Parent(tool, "container") = "main" /\ Birth(tool, "container") = 11
    BY <2>1 DEF Cast, Parent, Birth
  <2>3. Related(tool, "container", proc["main"], proc["container"])
    BY <2>2 DEF IInv, Families
  <2>4. proc["container"].mode # "none" /\ ~proc["container"].signalled
    BY <2>1, <2>2, <2>3 DEF Related
  <2>5. "go" \notin sent
    BY <2>1 DEF IInv, Going
  <2> QED BY <2>1, <2>4, <2>5 DEF IInv, Healthy, Alive
<1>7. ASSUME o = "bring" PROVE assign_address(p, a)
  <2>1. p = "container" /\ n > 1 /\ a = "ingress"
    BY <1>2, <1>7 DEF Meeting
  <2>2. "go" \in sent /\ Inhabited
    BY <2>1 DEF IInv, Going, Inhabited, Alive
  <2> QED BY <2>1, <2>2 DEF IInv, Going, assign_address
<1>8. ASSUME o = "await" PROVE Alive(a)
  <2>1. /\ a = "dnsmasq" /\ p = Parent(tool, "dnsmasq")
        /\ n > Birth(tool, "dnsmasq")
        /\ "dnsmasq" \in Cast(tool) \ {"main"} /\ Birth(tool, "dnsmasq") \in Nat
    BY <1>1, <1>2, <1>8, CastFacts DEF Meeting
  <2>2. Related(tool, "dnsmasq", proc[p], proc["dnsmasq"])
    BY <2>1 DEF IInv, Families
  <2>3. proc["dnsmasq"].mode # "none" /\ ~proc["dnsmasq"].signalled
    BY <1>1, <2>1, <2>2 DEF Related
  <2> QED BY <2>1, <2>3 DEF IInv, Healthy, Alive
<1> QED BY <1>4, <1>5, <1>6, <1>7, <1>8 DEF Possible

\* A function that ends lets its destructors run.
LEMMA LeaveStep ==
  ASSUME IInv, NEW p \in Procs, NEW s \in {"ok", "special", "failure"},
         proc[p].mode = "script", Leaves(p, s),
         UNCHANGED <<tool, kernel, sent>>, faults' \in faults..MaxFaults,
         faults' = 0 => /\ s # "failure" /\ p # "dnsmasq"
                        /\ p = "container" =>
                             "go" \in sent \/ proc[p].signalled
  PROVE  IInv'
<1> DEFINE q == [proc[p] EXCEPT !.mode = "unwinds", !.status = s]
           n == proc[p].at
<1>1. /\ proc \in [Procs -> Process] /\ TypeOK /\ proc[p] \in Process
      /\ faults \in Nat
      /\ "main" \in Procs /\ "container" \in Procs /\ "command" \in Procs
      /\ "dnsmasq" \in Procs
  BY DEF IInv, TypeOK, Procs
<1>2. /\ q \in Process /\ q.mode = "unwinds" /\ q.status = s /\ q.at = n
      /\ q.priv = proc[p].priv /\ (q.environ <=> proc[p].environ)
      /\ (q.signalled <=> proc[p].signalled)
      /\ (q.terminated <=> proc[p].terminated)
  BY <1>1 DEF Process
<1>3. \A r \in Procs : proc'[r] = IF r = p THEN q ELSE proc[r]
  BY <1>1 DEF Leaves, Becomes
<1>4. TypeOK'
  BY <1>1, <1>2 DEF TypeOK, Leaves, Becomes
<1> HIDE DEF q
<1>5. p \in Cast(tool) /\ n \in 1..Last(tool, p) /\ Rightful(tool, p, proc[p])
  BY Placed DEF IInv
<1>6. Rightful(tool, p, q)
  BY <1>2, <1>5 DEF Rightful
<1>7. \A r \in Procs : Rightful(tool, r, proc[r])'
  BY <1>3, <1>6 DEF IInv
<1>8. Families'
  <2> SUFFICES ASSUME NEW c \in Cast(tool) \ {"main"}
               PROVE  Related(tool, c, proc'[Parent(tool, c)], proc'[c])
    BY DEF Families
  <2>1. Related(tool, c, proc[Parent(tool, c)], proc[c])
    BY DEF IInv, Families
  <2>2. Parent(tool, c) \in Procs \ {c} /\ c \in Procs
    BY <1>1, CastFacts
  <2> QED BY <1>2, <1>3, <2>1, <2>2 DEF Related
<1>9. LoopOutlives'
  <2>1. LoopOutlives /\ Cast(tool) \subseteq Procs
    BY <1>1, CastFacts DEF IInv
  <2>2. /\ proc'["main"].at = proc["main"].at
        /\ proc'["main"].mode = "dead" => proc'["main"] = proc["main"]
        /\ \A c \in Procs : proc[c].mode \in {"none", "dead"} =>
                              proc'[c] = proc[c]
    BY <1>1, <1>2, <1>3
  <2> QED BY <2>1, <2>2 DEF LoopOutlives
<1>10. Holding'
  <2>1. (Inhabited' <=> Inhabited) /\ Script("main")' = Script("main")
    BY <1>1, <1>2, <1>3, SameScripts DEF Inhabited, Alive
  <2>2. proc'["main"].at = proc["main"].at
        /\ (proc'["main"].mode = "script" => proc["main"].mode = "script")
    BY <1>1, <1>2, <1>3
  <2> QED BY <2>1, <2>2 DEF IInv, Holding
<1>11. Going'
  <2>1. Inhabited' <=> Inhabited
    BY <1>1, <1>2, <1>3 DEF Inhabited, Alive
  <2>2. \A r \in Procs : /\ proc'[r].at = proc[r].at
                         /\ proc'[r].mode = "script" => proc[r].mode = "script"
                         /\ proc'[r].mode = "none" <=> proc[r].mode = "none"
    BY <1>2, <1>3
  <2> QED BY <1>1, <2>1, <2>2 DEF IInv, Going
<1>12. Healthy'
  <2> SUFFICES ASSUME faults' = 0 PROVE Healthy'
    BY DEF Healthy
  <2>1. faults = 0 /\ Healthy
    BY <1>1 DEF IInv
  <2> QED BY <1>1, <1>2, <1>3, <2>1 DEF Healthy
<1> QED BY <1>4, <1>7, <1>8, <1>9, <1>10, <1>11, <1>12 DEF IInv

\* Exceptions, and the ends of event loops.
LEMMA LeavingSteps ==
  ASSUME IInv, NEW p \in Procs,
         Impossible(p) \/ Throws(p) \/ LoopSignalled(p) \/ LoopFinished(p)
  PROVE  IInv'
<1>1. faults \in 0..MaxFaults /\ MaxFaults \in Nat
  BY FaultsAssumption DEF IInv, TypeOK
<1>2. proc[p].mode = "script"
  BY DEF Impossible, Throws, LoopSignalled, LoopFinished, At
<1>3. CASE Impossible(p)
  <2>1. Leaves(p, "failure") /\ UNCHANGED <<tool, kernel, sent, faults>>
        /\ faults # 0
    BY <1>2, <1>3, HasWhatItNeeds DEF Impossible
  <2> QED BY <1>1, <1>2, <2>1, LeaveStep
<1>4. CASE Throws(p)
  <2>1. /\ Leaves(p, "failure") /\ UNCHANGED <<tool, kernel, sent>>
        /\ faults' \in faults..MaxFaults /\ faults' # 0
    BY <1>1, <1>4 DEF Throws
  <2> QED BY <1>2, <2>1, LeaveStep
<1>5. CASE LoopSignalled(p)
  <2>1. /\ Leaves(p, "ok") /\ UNCHANGED <<tool, kernel, sent, faults>>
        /\ proc[p].signalled /\ Op(p)[1] = "loop"
    BY <1>5 DEF LoopSignalled, At
  <2>2. p # "dnsmasq"
    BY <1>2, <2>1, Placed DEF SoundAt, Meeting, Op
  <2> QED BY <1>1, <1>2, <2>1, <2>2, LeaveStep
<1>6. CASE LoopFinished(p)
  <2>1. /\ Leaves(p, "special") /\ UNCHANGED <<tool, kernel, sent, faults>>
        /\ p # "dnsmasq" /\ p # "container"
    BY <1>6 DEF LoopFinished
  <2> QED BY <1>1, <1>2, <2>1, LeaveStep
<1> QED BY <1>3, <1>4, <1>5, <1>6

\* A destructor undoes an operation: it finds the privileges to do so, and
\* leaves at most those of the place before.
LEMMA BackStep ==
  ASSUME IInv, NEW p \in Procs, Unwinds(p),
         Becomes(p, Restored(proc[p], Undone(p)[1])),
         UNCHANGED <<tool, sent, faults>>,
         kernel' = IF Undone(p)[1] = "acquire" /\ IsRoot(p)
                   THEN kernel \ {Undone(p)[2]} ELSE kernel,
         p = "main" /\ Undone(p)[1] = "mask" =>
           \A c \in Cast(tool) \ {"main"} :
             Parent(tool, c) = "main" => proc[c].mode \in {"none", "dead"}
  PROVE  IInv'
<1> DEFINE o == Undone(p)[1]
           a == Undone(p)[2]
           q == Restored(proc[p], o)
           x == proc[p]
           n == x.at - 1
           s == Script("main")
<1>1. /\ proc \in [Procs -> Process] /\ TypeOK /\ x \in Process
      /\ "main" \in Procs /\ "container" \in Procs /\ "command" \in Procs
      /\ "dnsmasq" \in Procs
  BY DEF IInv, TypeOK, Procs
<1>2. /\ p \in Cast(tool) /\ Last(tool, p) \in 1..16
      /\ x.mode = "unwinds" /\ x.at \in 1..Last(tool, p)
      /\ n \in 1..Last(tool, p) /\ SoundAt(tool, p, Script(p), n)
      /\ x.at = n + 1 /\ n \in Nat \ {0} /\ n + 1 - 1 = n
  BY <1>1, Placed DEF Unwinds
<1>3. /\ Lawful(tool, p, n, o) /\ Nested(tool, p, n, o, a)
      /\ Script(p)[n] = Undone(p)
  BY <1>2 DEF SoundAt, Undone
<1>4. /\ q.mode = "unwinds" /\ q.status = x.status /\ q.at = n
      /\ q.signalled <=> x.signalled
      /\ q.terminated <=> x.terminated
      /\ q.masked <=> x.masked
      /\ q.priv = (IF o = "lower" /\ x.priv = "lowered" THEN "root"
                   ELSE x.priv)
      /\ q.environ <=> o # "lend" /\ x.environ
  BY <1>1, <1>2 DEF Process, Restored, Back
<1>5. q \in Process
  <2>1. q = [x EXCEPT !.at = n,
               !.priv = IF o = "lower" /\ x.priv = "lowered" THEN "root"
                        ELSE x.priv,
               !.environ = o # "lend" /\ x.environ]
    BY <1>1 DEF Process, Restored, Back
  <2>2. /\ (IF o = "lower" /\ x.priv = "lowered" THEN "root" ELSE x.priv)
             \in {"root", "lowered", "user"}
        /\ (o # "lend" /\ x.environ) \in BOOLEAN
    BY <1>1 DEF Process
  <2> HIDE DEF n
  <2> QED BY <1>1, <1>2, <2>1, <2>2 DEF Process
<1>6. \A r \in Procs : proc'[r] = IF r = p THEN q ELSE proc[r]
  BY <1>1 DEF Becomes
<1>7. TypeOK'
  BY <1>1, <1>5 DEF TypeOK, Becomes
<1> HIDE DEF q
<1>8. Rightful(tool, p, q)
  <2>1. Rightful(tool, p, x)
    BY DEF IInv
  <2>2. CASE p # "main"
    BY <1>2, <1>3, <1>4, <2>1, <2>2 DEF Rightful
  <2>3. CASE p = "main"
    <3>1. /\ q.priv # "user"
          /\ q.priv = "lowered" => n \in LoweredSpots(tool)
      BY <1>2, <1>3, <1>4, <2>1, <2>3 DEF Rightful, Nested
    <3>2. q.environ => q.priv = "lowered" /\ n \in EnvironSpots(tool, p)
      BY <1>2, <1>3, <1>4, <2>1, <2>3 DEF Rightful, Nested
    <3> QED BY <1>2, <1>4, <2>1, <2>3, <3>1, <3>2 DEF Rightful
  <2> QED BY <2>2, <2>3
<1>9. \A r \in Procs : Rightful(tool, r, proc[r])'
  BY <1>6, <1>8 DEF IInv
<1>10. Families'
  <2> SUFFICES ASSUME NEW c \in Cast(tool) \ {"main"}
               PROVE  Related(tool, c, proc'[Parent(tool, c)], proc'[c])
    BY DEF Families
  <2>1. Related(tool, c, proc[Parent(tool, c)], proc[c])
    BY DEF IInv, Families
  <2>2. Parent(tool, c) \in Procs \ {c} /\ c \in Procs
    BY <1>1, CastFacts
  <2> QED BY <1>2, <1>4, <1>6, <2>1, <2>2 DEF Related
<1>11. LoopOutlives'
  <2>1. /\ LoopOutlives /\ Cast(tool) \subseteq Procs
        /\ MaskSpot(tool) \in Nat
    BY <1>1, CastFacts DEF IInv
  <2>2. /\ proc'["main"].mode = "dead" => proc'["main"] = proc["main"]
        /\ \A c \in Procs : proc[c].mode \in {"none", "dead"} =>
                              proc'[c] = proc[c]
    BY <1>1, <1>2, <1>4, <1>6
  <2>3. ASSUME proc'["main"].at <= MaskSpot(tool)
        PROVE  \A c \in Cast(tool) \ {"main"} :
                 Parent(tool, c) = "main" => proc[c].mode \in {"none", "dead"}
    <3>1. CASE proc["main"].at <= MaskSpot(tool)
      BY <2>1, <3>1 DEF LoopOutlives
    <3>2. CASE ~(proc["main"].at <= MaskSpot(tool))
      <4>1. p = "main"
        BY <1>1, <1>6, <2>3, <3>2
      <4>2. n = MaskSpot(tool)
        BY <1>1, <1>2, <1>4, <1>6, <2>1, <2>3, <3>2, <4>1
      <4>3. o = "mask"
        BY <1>1, <1>3, <4>1, <4>2, SpotFacts
      <4> QED BY <4>1, <4>3
    <3> QED BY <3>1, <3>2
  <2> QED BY <2>1, <2>2, <2>3 DEF LoopOutlives
<1>12. Inhabited' <=> Inhabited
  BY <1>1, <1>2, <1>4, <1>6 DEF Inhabited, Alive
<1>13. Holding'
  <2>1. Script("main")' = s
    BY SameScripts
  <2>2. CASE p # "main"
    <3>1. kernel' = kernel /\ proc'["main"] = proc["main"]
      BY <1>1, <1>3, <1>6, <2>2 DEF Nested
    <3> QED BY <1>12, <2>1, <3>1 DEF IInv, Holding
  <2>3. CASE p = "main"
    <3>1. Held(s, n + 1) =
            Held(s, n) \cup (IF o = "acquire" THEN {a} ELSE {})
      <4>1. n \in Nat \ {0} /\ s[n] = Undone(p)
        BY <1>2, <1>3, <2>3
      <4> HIDE DEF n, s
      <4> QED BY <4>1, HeldNext
    <3>2. kernel \subseteq Held(s, n + 1) \cup
               (IF Inhabited THEN {"ingress"} ELSE {})
      BY <1>2, <2>3 DEF IInv, Holding
    <3>3. o = "acquire" => IsRoot(p)
      <4>1. Rightful(tool, p, x)
        BY DEF IInv
      <4> QED BY <1>1, <1>2, <1>3, <2>3, <4>1
              DEF Rightful, Nested, IsRoot, Process
    <3>4. kernel' \subseteq Held(s, n) \cup
               (IF Inhabited THEN {"ingress"} ELSE {})
      BY <3>1, <3>2, <3>3
    <3>5. proc'["main"].at = n /\ proc'["main"].mode = "unwinds"
      BY <1>1, <1>4, <1>6, <2>3
    <3> QED BY <1>12, <2>1, <3>4, <3>5 DEF Holding
  <2> QED BY <2>2, <2>3
<1>14. Going'
  <2>1. \A r \in Procs :
          /\ proc'[r].mode = "script" => proc'[r] = proc[r]
          /\ proc'[r].mode = "none" <=> proc[r].mode = "none"
    BY <1>2, <1>4, <1>6
  <2>2. "ingress" \in kernel => "ingress" \in kernel'
    BY <1>3 DEF Nested
  <2> QED BY <1>1, <1>12, <2>1, <2>2 DEF IInv, Going
<1>15. Healthy'
  BY <1>1, <1>2, <1>4, <1>6 DEF IInv, Healthy
<1> QED BY <1>7, <1>9, <1>10, <1>11, <1>13, <1>14, <1>15 DEF IInv

\* A process dies, and with the last one in it the container's device goes.
LEMMA DieStep ==
  ASSUME IInv, NEW p \in Procs, NEW s \in {"ok", "special", "failure"},
         Alive(p), Dies(p, s), UNCHANGED <<tool, sent>>,
         faults' \in faults..MaxFaults,
         p = "main" => proc[p].at = 1 \/ ~proc[p].masked,
         faults' = 0 =>
           /\ s = "failure" => proc[p].signalled
           /\ p = "dnsmasq" => proc[p].signalled
           /\ p = "container" => proc[p].signalled \/ "go" \in sent
  PROVE  IInv'
<1> DEFINE q == [proc[p] EXCEPT !.mode = "dead", !.status = s]
           x == proc[p]
<1>1. /\ proc \in [Procs -> Process] /\ TypeOK /\ x \in Process
      /\ faults \in Nat
      /\ "main" \in Procs /\ "container" \in Procs /\ "command" \in Procs
      /\ "dnsmasq" \in Procs
  BY DEF IInv, TypeOK, Procs
<1>2. /\ q \in Process /\ q.mode = "dead" /\ q.status = s /\ q.at = x.at
      /\ q.priv = x.priv /\ (q.environ <=> x.environ)
      /\ (q.signalled <=> x.signalled) /\ (q.masked <=> x.masked)
  BY <1>1 DEF Process
<1>3. \A r \in Procs : proc'[r] = IF r = p THEN q ELSE proc[r]
  BY <1>1 DEF Dies, Becomes
<1>4. TypeOK'
  BY <1>1, <1>2 DEF TypeOK, Dies, Becomes
<1> HIDE DEF q
<1>5. /\ x.mode \in {"script", "program", "unwinds"}
      /\ p \in Cast(tool) /\ x.at \in 1..Last(tool, p)
      /\ SoundAt(tool, p, Script(p), x.at)
      /\ Rightful(tool, p, x)
  BY Placed DEF IInv, Alive
<1>6. Rightful(tool, p, q)
  <2>1. p = "main" /\ x.mode # "program" =>
          /\ x.priv # "user"
          /\ x.priv = "lowered" => x.at \in LoweredSpots(tool)
          /\ x.environ => x.priv = "lowered" /\ x.at \in EnvironSpots(tool, p)
    BY <1>5 DEF Rightful
  <2>2. p = "main" => x.mode # "program"
    BY <1>5 DEF Rightful
  <2> QED BY <1>2, <1>5, <2>1, <2>2 DEF Rightful
<1>7. \A r \in Procs : Rightful(tool, r, proc[r])'
  BY <1>3, <1>6 DEF IInv
<1>8. Families'
  <2> SUFFICES ASSUME NEW c \in Cast(tool) \ {"main"}
               PROVE  Related(tool, c, proc'[Parent(tool, c)], proc'[c])
    BY DEF Families
  <2>1. Related(tool, c, proc[Parent(tool, c)], proc[c])
    BY DEF IInv, Families
  <2>2. Parent(tool, c) \in Procs \ {c} /\ c \in Procs
    BY <1>1, CastFacts
  <2> QED BY <1>2, <1>3, <1>5, <2>1, <2>2 DEF Related
<1>9. LoopOutlives'
  <2>1. LoopOutlives /\ Cast(tool) \subseteq Procs
    BY <1>1, CastFacts DEF IInv
  <2>2. /\ proc'["main"].at = proc["main"].at
        /\ proc'["main"].mode = "dead" /\ proc'["main"].masked =>
             \/ proc'["main"].at = 1
             \/ proc'["main"] = proc["main"]
        /\ \A c \in Procs : proc[c].mode \in {"none", "dead"} =>
                              proc'[c].mode \in {"none", "dead"}
    BY <1>1, <1>2, <1>3
  <2> QED BY <2>1, <2>2 DEF LoopOutlives
<1>10. /\ Inhabited' => Inhabited /\ kernel' = kernel
       /\ ~Inhabited' => kernel' = kernel \ {"ingress"}
  BY <1>1, <1>2, <1>3, <1>5 DEF Inhabited, Alive, Dies
<1>11. Holding'
  <2>1. Script("main")' = Script("main")
    BY SameScripts
  <2>2. proc'["main"].at = proc["main"].at
        /\ (proc'["main"].mode = "script" => proc["main"].mode = "script")
    BY <1>1, <1>2, <1>3
  <2>3. "ingress" \notin Held(Script("main"), proc["main"].at)
    <3>1. TypeOK /\ "main" \in Cast(tool) /\ "main" \in Procs
      BY <1>1, CastFacts
    <3>2. /\ proc["main"].at \in 1..Last(tool, "main")
          /\ Last(tool, "main") \in 1..16
      BY <1>1, CastFacts DEF IInv, Rightful
    <3>3. Sound("main")
      BY <3>1, ScriptsSound
    <3>4. ASSUME NEW j \in 1..(proc["main"].at - 1),
                 Script("main")[j][1] = "acquire"
          PROVE  Script("main")[j][2] # "ingress"
      <4>1. j \in 1..Last(tool, "main")
        BY <3>2
      <4> QED BY <3>3, <3>4, <4>1 DEF Sound, SoundAt, Nested
    <3> QED BY <3>4 DEF Held
  <2> QED BY <1>10, <2>1, <2>2, <2>3 DEF IInv, Holding
<1>12. Going'
  <2>1. \A r \in Procs : /\ proc'[r].at = proc[r].at
                         /\ proc'[r].mode = "script" => proc[r].mode = "script"
                         /\ proc'[r].mode = "none" <=> proc[r].mode = "none"
    BY <1>2, <1>3, <1>5
  <2> QED BY <1>1, <1>10, <2>1 DEF IInv, Going
<1>13. Healthy'
  <2> SUFFICES ASSUME faults' = 0 PROVE Healthy'
    BY DEF Healthy
  <2>1. faults = 0 /\ Healthy
    BY <1>1 DEF IInv
  <2> QED BY <1>1, <1>2, <1>3, <2>1 DEF Healthy
<1> QED BY <1>4, <1>7, <1>8, <1>9, <1>11, <1>12, <1>13 DEF IInv

\* A process that starts is a process.
LEMMA StartedTyped ==
  ASSUME NEW x \in Process
  PROVE  [x EXCEPT !.mode = "script", !.at = 1, !.masked = FALSE,
                   !.signalled = FALSE] \in Process
<1>1. ASSUME NEW m \in {"script", "unwinds"}, NEW i \in Nat \ {0},
             NEW b \in BOOLEAN, NEW d \in BOOLEAN
      PROVE  [x EXCEPT !.mode = m, !.at = i, !.masked = b, !.signalled = d]
               \in Process
  BY DEF Process
<1>2. 1 \in Nat \ {0} /\ FALSE \in BOOLEAN
  OBVIOUS
<1> QED BY <1>1, <1>2

\* A fork: the child starts its script where its parent was, as its parent.
LEMMA ForkStep ==
  ASSUME IInv, NEW p \in Procs, Fork(p)
  PROVE  IInv'
<1> DEFINE x == proc[p]
           n == x.at
           c == Op(p)[2]
           y == [x EXCEPT !.at = @ + 1]
           z == [x EXCEPT !.mode = "script", !.at = 1, !.masked = FALSE,
                          !.signalled = FALSE]
           s == Script("main")
<1>1. /\ proc \in [Procs -> Process] /\ TypeOK /\ x \in Process
      /\ "main" \in Procs /\ "container" \in Procs /\ "command" \in Procs
      /\ "dnsmasq" \in Procs
  BY DEF IInv, TypeOK, Procs
<1>2. /\ x.mode = "script" /\ Op(p)[1] = "fork"
      /\ UNCHANGED <<tool, kernel, sent, faults>>
  BY DEF Fork, At
<1>3. /\ p \in Cast(tool) /\ n \in 1..Last(tool, p) /\ Last(tool, p) \in 1..16
      /\ SoundAt(tool, p, Script(p), n) /\ Rightful(tool, p, x)
  BY <1>2, Placed DEF IInv
<1>4. /\ Lawful(tool, p, n, "fork") /\ Nested(tool, p, n, "fork", c)
      /\ Forking(tool, p, n, "fork", c)
  BY <1>2, <1>3 DEF SoundAt, Op
<1>5. /\ c \in Cast(tool) \ {"main"} /\ c \in Procs /\ c # p
      /\ Parent(tool, c) = p /\ Birth(tool, c) = n
      /\ p \notin {"command", "dnsmasq"}
  BY <1>1, <1>4, CastFacts DEF Forking
<1>6. /\ y.mode = "script" /\ y.at = n + 1 /\ y.status = x.status
      /\ y.priv = x.priv /\ (y.environ <=> x.environ)
      /\ (y.signalled <=> x.signalled) /\ (y.terminated <=> x.terminated)
      /\ y \in Process
  <2>1. x.at + 1 \in Nat \ {0}
    BY <1>1 DEF Process
  <2>2. y \in Process
    BY <1>1, <2>1 DEF Process
  <2>3. y.mode = "script" /\ y.at = n + 1
    BY <1>1, <1>2 DEF Process
  <2>4. y.status = x.status /\ y.priv = x.priv
    BY <1>1 DEF Process
  <2>5. y.environ <=> x.environ
    BY <1>1 DEF Process
  <2>6. (y.signalled <=> x.signalled) /\ (y.terminated <=> x.terminated)
    BY <1>1 DEF Process
  <2> HIDE DEF y
  <2> QED BY <2>2, <2>3, <2>4, <2>5, <2>6
<1>7. /\ z.mode = "script" /\ z.at = 1 /\ z.status = x.status
      /\ z.priv = x.priv /\ (z.environ <=> x.environ)
      /\ ~z.signalled /\ (z.terminated <=> x.terminated)
      /\ z \in Process
  <2>1. z \in Process
    BY <1>1, StartedTyped
  <2>2. z.mode = "script" /\ z.at = 1
    BY <1>1 DEF Process
  <2>3. z.status = x.status /\ z.priv = x.priv
    BY <1>1 DEF Process
  <2>4. z.environ <=> x.environ
    BY <1>1 DEF Process
  <2>5. ~z.signalled /\ (z.terminated <=> x.terminated)
    BY <1>1 DEF Process
  <2> HIDE DEF z
  <2> QED BY <2>1, <2>2, <2>3, <2>4, <2>5
<1>8. /\ \A r \in Procs : proc'[r] = IF r = p THEN y
                                     ELSE IF r = c THEN z ELSE proc[r]
      /\ proc' \in [Procs -> Process]
  <2>1. proc' = [proc EXCEPT ![p].at = @ + 1, ![c] = z]
    BY DEF Fork
  <2>2. proc' = [proc EXCEPT ![p] = y, ![c] = z]
    BY <1>1, <2>1
  <2> HIDE DEF y, z, c
  <2> QED BY <1>1, <1>5, <1>6, <1>7, <2>2
<1>9. TypeOK'
  BY <1>1, <1>2, <1>8 DEF TypeOK
<1> HIDE DEF y, z, c
<1>10. Related(tool, c, x, proc[c]) /\ proc[c].mode = "none"
  <2>1. Related(tool, c, x, proc[c])
    BY <1>5 DEF IInv, Families
  <2> QED BY <1>2, <1>3, <1>5, <2>1 DEF Related
<1>11. Rightful(tool, p, y)
  <2>1. /\ n < Last(tool, p)
        /\ PrivAt(tool, p, n + 1) = PrivAt(tool, p, n)
        /\ n + 1 \in EnvironSpots(tool, p) <=> n \in EnvironSpots(tool, p)
    BY <1>4 DEF Lawful
  <2>2. /\ y.priv = PrivAt(tool, p, n + 1)
        /\ y.environ <=> n + 1 \in EnvironSpots(tool, p)
    BY <1>2, <1>3, <1>6, <2>1 DEF Rightful
  <2>3. p = "main" => (y.priv = "lowered" => n + 1 \in LoweredSpots(tool))
    BY <2>2 DEF PrivAt
  <2>4. p = "main" =>
          /\ y.priv # "user"
          /\ y.environ => y.priv = "lowered" /\ n + 1 \in EnvironSpots(tool, p)
    BY <1>3, <1>6, <2>2 DEF Rightful
  <2> QED BY <1>2, <1>3, <1>6, <2>1, <2>2, <2>3, <2>4 DEF Rightful
<1>12. Rightful(tool, c, z)
  <2>1. /\ z.priv = PrivAt(tool, c, 1)
        /\ z.environ <=> 1 \in EnvironSpots(tool, c)
    BY <1>2, <1>3, <1>4, <1>7 DEF Rightful, Forking
  <2>2. 1 \in 1..Last(tool, c)
    BY <1>1, <1>5, CastFacts
  <2>3. 1 \in EnvironSpots(tool, c) => PrivAt(tool, c, 1) # "root"
    <3>1. Sound(c)
      BY <1>1, <1>5, ScriptsSound
    <3> QED BY <2>2, <3>1 DEF Sound, SoundAt, Lawful
  <2>4. z.priv \in {"root", "user"}
    BY <1>5, <2>1 DEF PrivAt
  <2>5. ~z.terminated
    BY <1>2, <1>3, <1>7 DEF Rightful
  <2> QED BY <1>5, <1>7, <2>1, <2>2, <2>3, <2>4, <2>5 DEF Rightful
<1>13. \A r \in Procs : Rightful(tool, r, proc[r])'
  BY <1>2, <1>8, <1>11, <1>12 DEF IInv
<1>14. Families'
  <2> SUFFICES ASSUME NEW d \in Cast(tool) \ {"main"}
               PROVE  Related(tool, d, proc'[Parent(tool, d)], proc'[d])
    BY <1>2 DEF Families
  <2>1. Related(tool, d, proc[Parent(tool, d)], proc[d])
    BY DEF IInv, Families
  <2>2. /\ Parent(tool, d) \in Procs \ {d} /\ d \in Procs
        /\ Birth(tool, d) \in Nat \ {0}
        /\ Script(Parent(tool, d))[Birth(tool, d)] = <<"fork", d>>
    BY <1>1, CastFacts, SpotFacts
  <2>3. CASE d = c
    <3>1. n + 1 > n
      BY <1>3
    <3> QED BY <1>3, <1>5, <1>6, <1>7, <1>8, <2>3 DEF Related
  <2>4. CASE d # c /\ Parent(tool, d) = p
    <3>1. n # Birth(tool, d)
      BY <2>2, <2>4 DEF Op, c
    <3>2. n <= Birth(tool, d) <=> n + 1 <= Birth(tool, d)
      BY <1>3, <2>2, <3>1
    <3>3. d # p
      BY <2>2, <2>4
    <3> QED BY <1>2, <1>6, <1>8, <2>1, <2>2, <2>4, <3>2, <3>3 DEF Related
  <2>5. CASE d # c /\ Parent(tool, d) = c
    <3>1. proc[d].mode = "none" /\ ~proc[d].signalled
      BY <1>10, <2>1, <2>5 DEF Related
    <3>2. d # p
      BY <1>2, <3>1
    <3> QED BY <1>5, <1>7, <1>8, <2>2, <2>5, <3>1, <3>2 DEF Related
  <2>6. CASE d # c /\ Parent(tool, d) \notin {p, c}
    BY <1>2, <1>6, <1>8, <2>1, <2>2, <2>6 DEF Related
  <2> QED BY <2>3, <2>4, <2>5, <2>6
<1>15. LoopOutlives'
  <2>1. /\ LoopOutlives /\ Cast(tool) \subseteq Procs
        /\ MaskSpot(tool) \in Nat
        /\ p = "main" => n > MaskSpot(tool)
    BY <1>1, <1>5, CastFacts DEF IInv
  <2>2. CASE p = "main"
    BY <1>2, <1>3, <1>6, <1>8, <2>1, <2>2 DEF LoopOutlives
  <2>3. CASE p # "main"
    <3>1. proc'["main"] = proc["main"]
      BY <1>1, <1>5, <1>8, <2>3
    <3>2. \A d \in Cast(tool) \ {"main"} :
            Parent(tool, d) = "main" /\ proc[d].mode \in {"none", "dead"} =>
              proc'[d] = proc[d]
      BY <1>2, <1>5, <1>8, <2>1, <2>3
    <3> QED BY <1>2, <2>1, <3>1, <3>2 DEF LoopOutlives
  <2> QED BY <2>2, <2>3
<1>16. Inhabited => Inhabited'
  BY <1>1, <1>6, <1>7, <1>8 DEF Inhabited, Alive
<1>17. Holding'
  <2>1. Script("main")' = s
    BY <1>2, SameScripts
  <2>2. CASE p # "main"
    <3>1. proc'["main"] = proc["main"]
      BY <1>1, <1>5, <1>8, <2>2
    <3> QED BY <1>2, <1>16, <2>1, <3>1 DEF IInv, Holding
  <2>3. CASE p = "main"
    <3>1. Held(s, n + 1) = Held(s, n)
      <4>1. n \in Nat \ {0} /\ s[n][1] = "fork"
        BY <1>2, <1>3, <2>3 DEF Op
      <4> HIDE DEF n, s
      <4> QED BY <4>1, HeldNext
    <3>2. proc'["main"].at = n + 1
      BY <1>6, <1>8, <2>3
    <3> QED BY <1>2, <1>16, <2>1, <2>3, <3>1, <3>2 DEF IInv, Holding
  <2> QED BY <2>2, <2>3
<1>18. Going'
  <2>1. "go" \in sent => /\ tool = "recordshell"
                         /\ proc'["main"].mode = "script" =>
                              proc'["main"].at > 13
    BY <1>1, <1>2, <1>3, <1>5, <1>6, <1>8 DEF IInv, Going
  <2>2. proc'["container"].mode = "script" /\ proc'["container"].at > 1 =>
          "go" \in sent
    <3>1. CASE p = "container"
      <4>1. tool = "recordshell"
        BY <1>3, <3>1 DEF Cast
      <4>2. n = 6
        BY <1>5, <3>1, <4>1 DEF Cast, Parent, Birth
      <4> QED BY <1>2, <3>1, <4>2 DEF IInv, Going
    <3>2. CASE p # "container"
      BY <1>1, <1>7, <1>8, <3>2 DEF IInv, Going
    <3> QED BY <3>1, <3>2
  <2>3. tool = "recordshell" /\ c = "command" =>
          p = "container" /\ n = 6 /\ "go" \in sent
    <3> SUFFICES ASSUME tool = "recordshell", c = "command"
                 PROVE  p = "container" /\ n = 6 /\ "go" \in sent
      OBVIOUS
    <3>1. p = "container" /\ n = 6
      BY <1>5 DEF Parent, Birth
    <3> QED BY <1>2, <3>1 DEF IInv, Going
  <2>4. tool = "recordshell" /\ proc'["command"].mode # "none" =>
          "go" \in sent
    BY <1>1, <1>2, <1>5, <1>8, <2>3 DEF IInv, Going
  <2>5. ASSUME tool = "recordshell", Inhabited',
               \/ "go" \in sent
               \/ proc'["main"].mode = "script" /\ proc'["main"].at > 12
        PROVE  "ingress" \in kernel
    <3>1. CASE c = "container"
      <4>1. p = "main" /\ n = 11
        BY <1>5, <3>1, <2>5 DEF Parent, Birth
      <4> QED BY <1>1, <1>2, <1>6, <1>8, <2>1, <2>5, <4>1
    <3>2. CASE c # "container"
      <4>1. Inhabited
        <5>1. CASE c = "command"
          BY <1>2, <2>3, <2>5, <5>1 DEF Inhabited, Alive
        <5>2. CASE c # "command"
          BY <1>1, <1>2, <1>8, <2>5, <3>2, <5>2 DEF Inhabited, Alive
        <5> QED BY <5>1, <5>2
      <4>2. \/ "go" \in sent
            \/ proc["main"].mode = "script" /\ proc["main"].at > 12
        <5>1. CASE p = "main" /\ n = 12
          <6>1. SoundAt(tool, "main", Script("main"), 12)
            BY <1>3, <5>1
          <6> QED BY <1>2, <2>5, <5>1, <6>1 DEF SoundAt, Meeting, Op
        <5>2. CASE ~(p = "main" /\ n = 12)
          BY <1>1, <1>2, <1>3, <1>5, <1>6, <1>8, <2>5, <5>2
        <5> QED BY <5>1, <5>2
      <4> QED BY <2>5, <4>1, <4>2 DEF IInv, Going
    <3> QED BY <3>1, <3>2
  <2> QED BY <1>2, <2>1, <2>2, <2>4, <2>5 DEF Going
<1>19. Healthy'
  BY <1>1, <1>2, <1>5, <1>6, <1>7, <1>8 DEF IInv, Healthy
<1> QED BY <1>9, <1>13, <1>14, <1>15, <1>17, <1>18, <1>19 DEF IInv

\* A program takes the place of the process.
LEMMA ExecStep ==
  ASSUME IInv, NEW p \in Procs, Exec(p)
  PROVE  IInv'
<1> DEFINE x == proc[p]
           q == [x EXCEPT !.mode = "program"]
<1>1. /\ proc \in [Procs -> Process] /\ TypeOK /\ x \in Process
      /\ "main" \in Procs /\ "container" \in Procs /\ "command" \in Procs
      /\ "dnsmasq" \in Procs
  BY DEF IInv, TypeOK, Procs
<1>2. /\ x.mode = "script" /\ Op(p)[1] = "exec"
      /\ UNCHANGED <<tool, kernel, sent, faults>>
  BY DEF Exec, At
<1>3. /\ p \in Cast(tool) /\ x.at \in 1..Last(tool, p)
      /\ Provided(tool, p, x.at, "exec", Op(p)[2]) /\ Rightful(tool, p, x)
  BY <1>2, Placed DEF IInv, SoundAt, Op
<1>4. q \in Process
  BY <1>1 DEF Process
<1>5. /\ q.mode = "program" /\ q.at = x.at /\ q.status = x.status
      /\ q.priv = x.priv /\ (q.environ <=> x.environ)
      /\ (q.signalled <=> x.signalled) /\ (q.terminated <=> x.terminated)
  BY <1>1 DEF Process
<1>6. \A r \in Procs : proc'[r] = IF r = p THEN q ELSE proc[r]
  BY <1>1 DEF Exec, Becomes
<1>7. TypeOK'
  BY <1>1, <1>2, <1>4 DEF TypeOK, Exec, Becomes
<1> HIDE DEF q
<1>8. /\ p \in {"command", "dnsmasq"}
      /\ p = "command" => x.priv = "user"
  BY <1>2, <1>3 DEF Provided, Rightful
<1>9. Rightful(tool, p, q)
  BY <1>2, <1>3, <1>5, <1>8 DEF Rightful
<1>10. \A r \in Procs : Rightful(tool, r, proc[r])'
  BY <1>2, <1>6, <1>9 DEF IInv
<1>11. Families'
  <2> SUFFICES ASSUME NEW c \in Cast(tool) \ {"main"}
               PROVE  Related(tool, c, proc'[Parent(tool, c)], proc'[c])
    BY <1>2 DEF Families
  <2>1. Related(tool, c, proc[Parent(tool, c)], proc[c])
    BY DEF IInv, Families
  <2>2. Parent(tool, c) \in Procs \ {p} /\ c \in Procs
    BY <1>1, <1>8, CastFacts
  <2> QED BY <1>2, <1>5, <1>6, <2>1, <2>2 DEF Related
<1>12. LoopOutlives'
  <2>1. LoopOutlives /\ Cast(tool) \subseteq Procs
    BY <1>1, CastFacts DEF IInv
  <2>2. /\ proc'["main"] = proc["main"]
        /\ \A c \in Procs : proc[c].mode \in {"none", "dead"} =>
                              proc'[c] = proc[c]
    BY <1>1, <1>2, <1>6, <1>8
  <2> QED BY <1>2, <2>1, <2>2 DEF LoopOutlives
<1>13. Inhabited' <=> Inhabited
  BY <1>1, <1>2, <1>5, <1>6 DEF Inhabited, Alive
<1>14. proc'["main"] = proc["main"] /\ proc'["container"] = proc["container"]
  BY <1>1, <1>6, <1>8
<1>15. Holding'
  <2>1. Script("main")' = Script("main")
    BY <1>2, SameScripts
  <2> QED BY <1>2, <1>13, <1>14, <2>1 DEF IInv, Holding
<1>16. Going'
  <2>1. proc["command"].mode = "none" <=> proc'["command"].mode = "none"
    BY <1>1, <1>2, <1>5, <1>6
  <2> QED BY <1>2, <1>13, <1>14, <2>1 DEF IInv, Going
<1>17. Healthy'
  <2> SUFFICES ASSUME faults' = 0 PROVE Healthy'
    BY DEF Healthy
  <2>1. faults = 0 /\ Healthy
    BY <1>2 DEF IInv
  <2>2. x.status # "failure"
    BY <1>2, <2>1 DEF Healthy
  <2>3. /\ \A r \in Procs : proc'[r].status = "failure" =>
             proc'[r].mode = "dead" /\ proc'[r].signalled
        /\ ~proc'["main"].signalled
    BY <1>1, <1>5, <1>6, <1>14, <2>1, <2>2 DEF Healthy
  <2>4. \/ proc'["dnsmasq"].mode \in {"none", "script", "program"}
        \/ proc'["dnsmasq"].signalled
    BY <1>1, <1>5, <1>6, <2>1 DEF Healthy
  <2>5. \/ proc'["container"].mode \in {"none", "script"}
        \/ proc'["container"].signalled \/ "go" \in sent'
    BY <1>2, <1>14, <2>1 DEF Healthy
  <2> QED BY <2>3, <2>4, <2>5 DEF Healthy
<1> QED BY <1>7, <1>10, <1>11, <1>12, <1>15, <1>16, <1>17 DEF IInv

\* The user's signal.
LEMMA InterruptStep ==
  ASSUME IInv, Interrupt
  PROVE  IInv'
<1> DEFINE q == [proc["main"] EXCEPT !.signalled = TRUE]
<1>1. /\ proc \in [Procs -> Process] /\ TypeOK /\ proc["main"] \in Process
      /\ "main" \in Procs /\ "container" \in Procs /\ "command" \in Procs
      /\ UNCHANGED <<tool, kernel, sent>>
  BY DEF IInv, TypeOK, Procs, Interrupt
<1>2. faults' \in 0..MaxFaults /\ faults' # 0
  BY FaultsAssumption DEF Interrupt, IInv, TypeOK
<1>3. q \in Process
  BY <1>1 DEF Process
<1>4. /\ q.mode = proc["main"].mode /\ q.at = proc["main"].at
      /\ q.priv = proc["main"].priv /\ (q.environ <=> proc["main"].environ)
      /\ (q.masked <=> proc["main"].masked)
      /\ (q.terminated <=> proc["main"].terminated)
  BY <1>1 DEF Process
<1>5. \A r \in Procs : proc'[r] = IF r = "main" THEN q ELSE proc[r]
  BY <1>1 DEF Interrupt
<1>6. TypeOK'
  BY <1>1, <1>2, <1>3, <1>5 DEF TypeOK, Interrupt
<1> HIDE DEF q
<1>7. \A r \in Procs : Rightful(tool, r, proc[r])'
  BY <1>1, <1>4, <1>5 DEF IInv, Rightful
<1>8. Families'
  <2> SUFFICES ASSUME NEW c \in Cast(tool) \ {"main"}
               PROVE  Related(tool, c, proc'[Parent(tool, c)], proc'[c])
    BY <1>1 DEF Families
  <2>1. Related(tool, c, proc[Parent(tool, c)], proc[c])
    BY DEF IInv, Families
  <2>2. Parent(tool, c) \in Procs /\ c \in Procs \ {"main"}
    BY <1>1, CastFacts
  <2> QED BY <1>4, <1>5, <2>1, <2>2 DEF Related
<1>9. LoopOutlives'
  BY <1>1, <1>4, <1>5, CastFacts DEF IInv, LoopOutlives
<1>10. Inhabited' <=> Inhabited
  BY <1>1, <1>5 DEF Inhabited, Alive
<1>11. Holding' /\ Going'
  <2>1. Script("main")' = Script("main")
    BY <1>1, SameScripts
  <2> QED BY <1>1, <1>4, <1>5, <1>10, <2>1 DEF IInv, Holding, Going
<1>12. Healthy'
  BY <1>2 DEF Healthy
<1> QED BY <1>6, <1>7, <1>8, <1>9, <1>11, <1>12 DEF IInv

\* The first of the children that have not been waited for is one of them.
LEMMA FirstIsUnwaited ==
  ASSUME IInv, NEW p \in Procs, proc[p].mode # "none", Unwaited(p) # {}
  PROVE  /\ FirstUnwaited(p) \in Unwaited(p)
         /\ Unwaited(p) \subseteq 1..Last(tool, p)
<1>1. DOMAIN Script(p) = 1..Last(tool, p) /\ Last(tool, p) \in Nat
  BY Placed
<1>2. Unwaited(p) \subseteq 1..Last(tool, p)
  BY <1>1 DEF Unwaited, Forks
<1>3. Unwaited(p) \in SUBSET Nat
  BY <1>1, <1>2
<1> HIDE DEF Unwaited
<1>4. \E i \in Unwaited(p) : \A j \in Unwaited(p) : i <= j
  BY <1>3, F!LeastNat
<1> QED BY <1>2, <1>4 DEF FirstUnwaited

\* A child that has not been waited for was forked by its parent.
LEMMA UnwaitedChild ==
  ASSUME IInv, NEW p \in Procs, proc[p].mode # "none", NEW i \in Unwaited(p)
  PROVE  /\ Child(p, i) \in Cast(tool) \ {"main"}
         /\ Child(p, i) \in Procs \ {p}
         /\ Parent(tool, Child(p, i)) = p
         /\ proc[Child(p, i)].mode # "none"
<1>1. /\ p \in Cast(tool) /\ DOMAIN Script(p) = 1..Last(tool, p)
      /\ Sound(p)
  BY Placed, ScriptsSound DEF IInv
<1>2. /\ i \in 1..Last(tool, p) /\ Script(p)[i][1] = "fork"
      /\ proc[Child(p, i)].mode # "none"
  BY <1>1 DEF Unwaited, Forks
<1>3. Forking(tool, p, i, "fork", Child(p, i))
  BY <1>1, <1>2 DEF Sound, SoundAt, Child
<1>4. Child(p, i) \in Cast(tool) \ {"main"} /\ Parent(tool, Child(p, i)) = p
  BY <1>3 DEF Forking
<1>5. Child(p, i) \in Procs \ {p}
  BY <1>4, CastFacts DEF IInv
<1> QED BY <1>2, <1>4, <1>5

\* A child that has died is waited for, or one whose parent ends is sent a
\* signal: nothing else changes.
LEMMA MarkStep ==
  ASSUME IInv, NEW c \in Cast(tool) \ {"main"}, NEW y \in Process,
         proc' = [proc EXCEPT ![c] = y],
         UNCHANGED <<tool, kernel, sent, faults>>,
         y.mode = proc[c].mode, y.at = proc[c].at, y.priv = proc[c].priv,
         y.environ <=> proc[c].environ, y.status = proc[c].status,
         y.terminated => proc[c].mode = "dead",
         proc[c].signalled => y.signalled,
         y.signalled => \/ proc[c].signalled
                        \/ proc[Parent(tool, c)].mode \in {"unwinds", "dead"}
  PROVE  IInv'
<1>1. /\ proc \in [Procs -> Process] /\ TypeOK /\ c \in Procs \ {"main"}
      /\ "main" \in Procs /\ "container" \in Procs /\ "command" \in Procs
      /\ "dnsmasq" \in Procs
  BY CastFacts DEF IInv, TypeOK, Procs
<1>2. \A r \in Procs : proc'[r] = IF r = c THEN y ELSE proc[r]
  BY <1>1
<1>3. TypeOK'
  BY <1>1 DEF TypeOK
<1>4. \A r \in Procs : Rightful(tool, r, proc[r])'
  <2>1. Rightful(tool, c, proc[c])
    BY <1>1 DEF IInv
  <2>2. Rightful(tool, c, y)
    BY <1>1, <2>1 DEF Rightful
  <2> QED BY <1>2, <2>2 DEF IInv
<1>5. Families'
  <2> SUFFICES ASSUME NEW d \in Cast(tool) \ {"main"}
               PROVE  Related(tool, d, proc'[Parent(tool, d)], proc'[d])
    BY DEF Families
  <2>1. Related(tool, d, proc[Parent(tool, d)], proc[d])
    BY DEF IInv, Families
  <2>2. Parent(tool, d) \in Procs \ {d} /\ d \in Procs
    BY <1>1, CastFacts
  <2>3. /\ proc'[Parent(tool, d)].mode = proc[Parent(tool, d)].mode
        /\ proc'[Parent(tool, d)].at = proc[Parent(tool, d)].at
        /\ proc'[d].mode = proc[d].mode
    BY <1>2, <2>2
  <2>4. proc'[d].signalled => proc[Parent(tool, d)].mode \in {"unwinds", "dead"}
    BY <1>2, <2>1, <2>2 DEF Related
  <2> QED BY <2>1, <2>3, <2>4 DEF Related
<1>6. \A r \in Procs : /\ proc'[r].mode = proc[r].mode
                       /\ proc'[r].at = proc[r].at
                       /\ proc'[r].status = proc[r].status
                       /\ proc[r].signalled => proc'[r].signalled
  BY <1>2
<1>7. proc'["main"] = proc["main"]
  BY <1>1, <1>2
<1>8. LoopOutlives'
  BY <1>1, <1>6, <1>7, CastFacts DEF IInv, LoopOutlives
<1>9. Inhabited' <=> Inhabited
  BY <1>1, <1>6 DEF Inhabited, Alive
<1>10. Holding'
  <2>1. Script("main")' = Script("main")
    BY SameScripts
  <2> QED BY <1>7, <1>9, <2>1 DEF IInv, Holding
<1>11. Going'
  BY <1>1, <1>6, <1>7, <1>9 DEF IInv, Going
<1>12. Healthy'
  BY <1>1, <1>6, <1>7 DEF IInv, Healthy
<1> QED BY <1>3, <1>4, <1>5, <1>8, <1>10, <1>11, <1>12 DEF IInv

\* A process that is waited for or sent a signal is still one.
LEMMA MarkedTyped ==
  ASSUME NEW x \in Process, NEW y,
         y \in {[x EXCEPT !.terminated = TRUE], [x EXCEPT !.signalled = TRUE]}
  PROVE  /\ y \in Process
         /\ y.mode = x.mode /\ y.at = x.at /\ y.priv = x.priv
         /\ y.environ <=> x.environ
         /\ y.status = x.status
BY DEF Process

\* The destructors of a process, other than its event loop's.
LEMMA UndoSteps ==
  ASSUME IInv, NEW p \in Procs,
         \/ Restore(p) \/ EndVirtualEthernetPair(p) \/ EndNATRule(p)
         \/ EndWebServer(p) \/ EndTempFile(p)
  PROVE  IInv'
<1>1. CASE Restore(p)
  BY <1>1, BackStep DEF Restore
<1>2. CASE ~Restore(p)
  <2>1. /\ Unwinds(p) /\ Undone(p)[1] = "acquire"
        /\ kernel' = IF IsRoot(p) THEN kernel \ {Undone(p)[2]} ELSE kernel
        /\ Becomes(p, Back(proc[p]))
        /\ UNCHANGED <<tool, sent, faults>>
    BY <1>2 DEF EndVirtualEthernetPair, EndNATRule, EndWebServer, EndTempFile,
                Release
  <2>2. Restored(proc[p], "acquire") = Back(proc[p])
    <3>1. proc[p] \in Process
      BY DEF IInv, TypeOK
    <3> QED BY <3>1 DEF Restored, Back, Process
  <2> QED BY <2>1, <2>2, BackStep
<1> QED BY <1>1, <1>2

\* The destructor of the event loop: it ends the children, and is through
\* when all of them are dead.
LEMMA EndChildStep ==
  ASSUME IInv, NEW p \in Procs, EndChild(p)
  PROVE  IInv'
<1>1. /\ Unwinds(p) /\ Undone(p)[1] = "mask" /\ proc[p].mode = "unwinds"
      /\ UNCHANGED <<tool, kernel, sent, faults>>
      /\ proc \in [Procs -> Process]
  BY DEF EndChild, Unwinds, IInv, TypeOK
<1>2. CASE Unwaited(p) = {}
  <2>1. Becomes(p, Back(proc[p]))
    BY <1>2 DEF EndChild
  <2>2. Restored(proc[p], "mask") = Back(proc[p])
    BY <1>1 DEF Restored, Back, Process
  <2>3. ASSUME p = "main", NEW c \in Cast(tool) \ {"main"},
               Parent(tool, c) = "main"
        PROVE  proc[c].mode \in {"none", "dead"}
    <3> SUFFICES ASSUME proc[c].mode # "none" PROVE proc[c].mode = "dead"
      BY DEF Process
    <3>1. /\ c \in Procs /\ Birth(tool, c) \in 1..Last(tool, "main")
          /\ Script("main")[Birth(tool, c)] = <<"fork", c>>
      BY <2>3, CastFacts, SpotFacts DEF IInv
    <3>2. DOMAIN Script("main") = 1..Last(tool, "main")
      BY <1>1, <2>3, Placed
    <3>3. Child("main", Birth(tool, c)) = c
      BY <3>1 DEF Child
    <3>4. Birth(tool, c) \in Forks("main")
      <4>1. Script("main")[Birth(tool, c)][1] = "fork"
        BY <3>1
      <4>2. proc[Child("main", Birth(tool, c))].mode # "none"
        BY <3>3
      <4> QED BY <3>1, <3>2, <4>1, <4>2 DEF Forks
    <3>5. proc[c].terminated
      BY <1>2, <2>3, <3>3, <3>4 DEF Unwaited
    <3> QED BY <3>1, <3>5 DEF IInv, Rightful
  <2> QED BY <1>1, <2>1, <2>2, <2>3, BackStep
<1>3. CASE Unwaited(p) # {}
  <2> DEFINE c == Child(p, FirstUnwaited(p))
  <2>1. /\ c \in Cast(tool) \ {"main"} /\ c \in Procs \ {p}
        /\ Parent(tool, c) = p
    BY <1>1, <1>3, FirstIsUnwaited, UnwaitedChild
  <2>2. \/ /\ proc[c].mode = "dead"
           /\ proc' = [proc EXCEPT ![c].terminated = TRUE]
        \/ proc' = [proc EXCEPT ![c].signalled = TRUE]
    BY <1>3 DEF EndChild
  <2> HIDE DEF c
  <2>3. CASE /\ proc[c].mode = "dead"
             /\ proc' = [proc EXCEPT ![c].terminated = TRUE]
    <3> DEFINE y == [proc[c] EXCEPT !.terminated = TRUE]
    <3>1. proc' = [proc EXCEPT ![c] = y] /\ proc[c] \in Process
      BY <1>1, <2>1, <2>3
    <3>2. /\ y \in Process
          /\ y.mode = proc[c].mode /\ y.at = proc[c].at
          /\ y.priv = proc[c].priv /\ (y.environ <=> proc[c].environ)
          /\ y.status = proc[c].status
      BY <3>1, MarkedTyped
    <3>3. y.signalled <=> proc[c].signalled
      BY <3>1 DEF Process
    <3> HIDE DEF y
    <3> QED BY <1>1, <2>1, <2>3, <3>1, <3>2, <3>3, MarkStep
  <2>4. CASE proc' = [proc EXCEPT ![c].signalled = TRUE]
    <3> DEFINE y == [proc[c] EXCEPT !.signalled = TRUE]
    <3>1. proc' = [proc EXCEPT ![c] = y] /\ proc[c] \in Process
      BY <1>1, <2>1, <2>4
    <3>2. /\ y \in Process
          /\ y.mode = proc[c].mode /\ y.at = proc[c].at
          /\ y.priv = proc[c].priv /\ (y.environ <=> proc[c].environ)
          /\ y.status = proc[c].status
      BY <3>1, MarkedTyped
    <3>3. y.signalled /\ (y.terminated <=> proc[c].terminated)
      BY <3>1 DEF Process
    <3>4. proc[c].terminated => proc[c].mode = "dead"
      BY <2>1 DEF IInv, Rightful
    <3> HIDE DEF y
    <3> QED BY <1>1, <2>1, <3>1, <3>2, <3>3, <3>4, MarkStep
  <2> QED BY <2>2, <2>3, <2>4
<1> QED BY <1>2, <1>3

\* The ways to die: the end of the function, a signal, the end of the user's
\* command, and a crash.
LEMMA DyingSteps ==
  ASSUME IInv, NEW p \in Procs, Ends(p) \/ KilledBySignal(p) \/ Crash(p)
  PROVE  IInv'
<1>1. /\ faults \in 0..MaxFaults /\ MaxFaults \in Nat
      /\ proc[p].status \in {"ok", "special", "failure"}
  BY FaultsAssumption DEF IInv, TypeOK, Process
<1>2. CASE Ends(p)
  <2>1. /\ proc[p].mode = "unwinds" /\ proc[p].at = 1
        /\ Dies(p, proc[p].status) /\ UNCHANGED <<tool, sent, faults>>
        /\ Alive(p)
    BY <1>2 DEF Ends, Alive
  <2>2. faults = 0 =>
          /\ proc[p].status = "failure" => proc[p].signalled
          /\ p = "dnsmasq" => proc[p].signalled
          /\ p = "container" => proc[p].signalled \/ "go" \in sent
    BY <2>1 DEF IInv, Healthy
  <2>3. faults' \in faults..MaxFaults
    BY <1>1, <2>1
  <2> QED BY <1>1, <2>1, <2>2, <2>3, DieStep
<1>3. CASE KilledBySignal(p)
  <2>1. /\ Alive(p) /\ proc[p].signalled /\ ~proc[p].masked
        /\ Dies(p, "failure") /\ UNCHANGED <<tool, sent, faults>>
    BY <1>3 DEF KilledBySignal
  <2>2. faults' \in faults..MaxFaults
    BY <1>1, <2>1
  <2> QED BY <2>1, <2>2, DieStep
<1>4. CASE Crash(p)
  <2>1. /\ Alive(p) /\ p # "main" /\ faults < MaxFaults
        /\ Dies(p, "failure") /\ UNCHANGED <<tool, sent>>
        /\ faults' = faults + 1
    BY <1>4 DEF Crash
  <2>2. faults' \in faults..MaxFaults /\ faults' # 0
    BY <1>1, <2>1
  <2> QED BY <2>1, <2>2, DieStep
<1> QED BY <1>2, <1>3, <1>4

\* The end of the user's command.
LEMMA CommandStep ==
  ASSUME IInv, CommandExits
  PROVE  IInv'
<1>1. /\ "command" \in Procs /\ Alive("command") /\ Dies("command", "ok")
      /\ UNCHANGED <<tool, sent, faults>>
  BY DEF CommandExits, Procs, Alive
<1>2. faults' \in faults..MaxFaults
  BY <1>1, FaultsAssumption DEF IInv, TypeOK
<1> QED BY <1>1, <1>2, DieStep

\* An event loop waits for a child that has died, and may end by that.
LEMMA LoopChildStep ==
  ASSUME IInv, NEW p \in Procs, NEW c \in Procs, LoopChild(p, c)
  PROVE  IInv'
<1> DEFINE x == proc[p]
           y == [proc[c] EXCEPT !.terminated = TRUE]
           s == IF proc[c].status = "failure" THEN "failure" ELSE "ok"
           self == [x EXCEPT !.mode = "unwinds", !.status = s]
           q == IF /\ c \in {"uplink", "downlink"}
                   /\ proc[c].status = "special"
                   /\ Cardinality(Unwaited(p)) > 1
                THEN x ELSE self
<1>1. /\ proc \in [Procs -> Process] /\ TypeOK
      /\ "main" \in Procs /\ "container" \in Procs /\ "command" \in Procs
      /\ "dnsmasq" \in Procs
  BY DEF IInv, TypeOK, Procs
<1>2. /\ x.mode = "script" /\ Op(p)[1] = "loop" /\ proc[c].mode = "dead"
      /\ UNCHANGED <<tool, kernel, sent, faults>>
  BY DEF LoopChild, At
<1>3. /\ c \in Cast(tool) \ {"main"} /\ c # p /\ Parent(tool, c) = p
  BY <1>2, UnwaitedChild DEF LoopChild
<1>4. /\ p \in Cast(tool) /\ Last(tool, p) \in 1..16
      /\ x.at \in 1..Last(tool, p)
      /\ SoundAt(tool, p, Script(p), x.at)
  BY <1>2, Placed
<1>5. p # "dnsmasq" /\ (p = "container" => x.at # 1)
  BY <1>2, <1>4 DEF SoundAt, Meeting, Op
<1>6. proc' = [proc EXCEPT ![c] = y, ![p] = q]
  BY <1>1, <1>3 DEF LoopChild
<1>7. /\ y \in Process /\ y.mode = "dead" /\ y.at = proc[c].at
      /\ y.priv = proc[c].priv /\ (y.environ <=> proc[c].environ)
      /\ y.status = proc[c].status
      /\ (y.signalled <=> proc[c].signalled)
      /\ (y.masked <=> proc[c].masked)
  <2>1. proc[c] \in Process
    BY <1>1
  <2>2. (y.signalled <=> proc[c].signalled) /\ (y.masked <=> proc[c].masked)
    BY <2>1 DEF Process
  <2> QED BY <1>2, <2>1, <2>2, MarkedTyped
<1>8. /\ self \in Process /\ self.mode = "unwinds" /\ self.status = s
      /\ self.at = x.at /\ self.priv = x.priv
      /\ (self.environ <=> x.environ)
      /\ (self.signalled <=> x.signalled)
      /\ (self.masked <=> x.masked)
      /\ (self.terminated <=> x.terminated)
  <2>1. x \in Process /\ s \in {"ok", "failure"}
    BY <1>1
  <2> HIDE DEF s
  <2> QED BY <2>1 DEF Process
<1>9. /\ q \in Process /\ q.mode \in {"script", "unwinds"}
      /\ q.mode = "script" => q = x
      /\ q.at = x.at /\ q.priv = x.priv
      /\ (q.environ <=> x.environ) /\ (q.signalled <=> x.signalled)
      /\ (q.terminated <=> x.terminated)
      /\ q.status \in {x.status, s}
  <2>1. x \in Process
    BY <1>1
  <2> HIDE DEF self
  <2> QED BY <1>2, <1>8, <2>1
<1> HIDE DEF y, q, s
<1>10. \A r \in Procs : proc'[r] = IF r = c THEN y
                                   ELSE IF r = p THEN q ELSE proc[r]
  BY <1>1, <1>3, <1>6
<1>11. TypeOK'
  BY <1>1, <1>2, <1>6, <1>7, <1>9 DEF TypeOK
<1>12. \A r \in Procs : Rightful(tool, r, proc[r])'
  <2>1. Rightful(tool, c, proc[c]) /\ Rightful(tool, p, x)
    BY <1>1 DEF IInv
  <2>2. Rightful(tool, c, y)
    BY <1>2, <1>7, <2>1 DEF Rightful
  <2>3. ASSUME p = "main"
        PROVE  /\ x.priv # "user"
               /\ x.priv = "lowered" => x.at \in LoweredSpots(tool)
               /\ x.environ =>
                    x.priv = "lowered" /\ x.at \in EnvironSpots(tool, p)
    BY <2>1, <2>3 DEF Rightful
  <2>4. Rightful(tool, p, q)
    BY <1>2, <1>4, <1>9, <2>1, <2>3 DEF Rightful
  <2> QED BY <1>2, <1>10, <2>2, <2>4 DEF IInv
<1>13. Families'
  <2> SUFFICES ASSUME NEW d \in Cast(tool) \ {"main"}
               PROVE  Related(tool, d, proc'[Parent(tool, d)], proc'[d])
    BY <1>2 DEF Families
  <2>1. Related(tool, d, proc[Parent(tool, d)], proc[d])
    BY DEF IInv, Families
  <2>2. Parent(tool, d) \in Procs \ {d} /\ d \in Procs
    BY <1>1, CastFacts
  <2> DEFINE P == Parent(tool, d)
  <2>3. /\ proc'[P].at = proc[P].at
        /\ proc'[P].mode = proc[P].mode
           \/ (proc[P].mode = "script" /\ proc'[P].mode = "unwinds")
    BY <1>2, <1>7, <1>9, <1>10, <2>2
  <2>4. /\ proc'[d].mode = "none" <=> proc[d].mode = "none"
        /\ proc'[d].signalled <=> proc[d].signalled
    BY <1>2, <1>7, <1>9, <1>10, <2>2
  <2> HIDE DEF P
  <2>5. Related(tool, d, proc'[P], proc'[d])
    BY <2>1, <2>3, <2>4 DEF Related, P
  <2> QED BY <2>5 DEF P
<1>14. LoopOutlives'
  <2>1. LoopOutlives /\ Cast(tool) \subseteq Procs
    BY <1>1, CastFacts DEF IInv
  <2>2. /\ proc'["main"].at = proc["main"].at
        /\ proc'["main"].mode = "dead" => proc'["main"] = proc["main"]
        /\ \A r \in Procs : proc[r].mode \in {"none", "dead"} =>
                              proc'[r].mode \in {"none", "dead"}
    BY <1>1, <1>2, <1>3, <1>7, <1>9, <1>10
  <2> QED BY <1>2, <2>1, <2>2 DEF LoopOutlives
<1>15. Inhabited' <=> Inhabited
  BY <1>1, <1>2, <1>7, <1>9, <1>10 DEF Inhabited, Alive
<1>16. \A r \in Procs : /\ proc'[r].at = proc[r].at
                        /\ proc'[r].mode = "script" => proc[r].mode = "script"
                        /\ proc'[r].mode = "none" <=> proc[r].mode = "none"
  BY <1>2, <1>7, <1>9, <1>10
<1>17. Holding'
  <2>1. Script("main")' = Script("main")
    BY <1>2, SameScripts
  <2> QED BY <1>1, <1>2, <1>15, <1>16, <2>1 DEF IInv, Holding
<1>18. Going'
  BY <1>1, <1>2, <1>15, <1>16 DEF IInv, Going
<1>19. Healthy'
  <2> SUFFICES ASSUME faults' = 0 PROVE Healthy'
    BY DEF Healthy
  <2>1. faults = 0 /\ Healthy
    BY <1>2 DEF IInv
  <2>2. Related(tool, c, x, proc[c])
    BY <1>3 DEF IInv, Families
  <2>3. proc[c].status # "failure"
    BY <1>2, <2>1, <2>2 DEF Related, Healthy
  <2>4. q.status # "failure"
    BY <1>2, <1>9, <2>1, <2>3 DEF Healthy, s
  <2>5. /\ \A r \in Procs : proc'[r].status = "failure" =>
             proc'[r].mode = "dead" /\ proc'[r].signalled
        /\ ~proc'["main"].signalled
    BY <1>1, <1>3, <1>7, <1>9, <1>10, <2>1, <2>3, <2>4 DEF Healthy
  <2>6. \/ proc'["dnsmasq"].mode \in {"none", "script", "program"}
        \/ proc'["dnsmasq"].signalled
    BY <1>1, <1>2, <1>5, <1>7, <1>10, <2>1 DEF Healthy
  <2>7. \/ proc'["container"].mode \in {"none", "script"}
        \/ proc'["container"].signalled \/ "go" \in sent'
    <3>1. p = "container" => "go" \in sent
      <4>1. p = "container" => x.at > 1
        BY <1>4, <1>5
      <4> QED BY <1>2, <4>1 DEF IInv, Going
    <3> QED BY <1>1, <1>2, <1>7, <1>9, <1>10, <2>1, <3>1 DEF Healthy
  <2> QED BY <2>5, <2>6, <2>7 DEF Healthy
<1> QED BY <1>11, <1>12, <1>13, <1>14, <1>17, <1>18, <1>19 DEF IInv

\* Nothing happens.
LEMMA StutterStep ==
  ASSUME IInv, UNCHANGED vars
  PROVE  IInv'
<1>1. Script("main")' = Script("main")
  BY SameScripts DEF vars
<1> QED BY <1>1 DEF IInv, TypeOK, Families, LoopOutlives, Holding, Inhabited,
                    Alive, Going, Healthy, vars

\* Every step keeps the invariant.
LEMMA NextIInv == IInv /\ [Next]_vars => IInv'
<1> SUFFICES ASSUME IInv, [Next]_vars PROVE IInv'
  OBVIOUS
<1>1. CASE UNCHANGED vars
  BY <1>1, StutterStep
<1>2. CASE Environment
  <2>1. CASE \E p \in Procs : Throws(p) \/ LoopFinished(p) \/ Crash(p)
    BY <2>1, LeavingSteps, DyingSteps
  <2>2. CASE CommandExits
    BY <2>2, CommandStep
  <2>3. CASE Interrupt
    BY <2>3, InterruptStep
  <2> QED BY <1>2, <2>1, <2>2, <2>3 DEF Environment
<1>3. ASSUME NEW p \in Procs, Run(p) PROVE IInv'
  <2>1. CASE Setup(p) \/ recv_fd(p) \/ start_dnsmasq(p)
    BY <2>1, PassesStep
  <2>2. CASE drop_privileges(p) \/ TemporarilyUnprivileged(p)
    BY <2>2, PrivilegeStep
  <2>3. CASE TemporaryEnvironment(p)
    BY <2>3, EnvironmentStep
  <2>4. CASE \/ VirtualEthernetPair(p) \/ NATRule(p) \/ WebServer(p)
             \/ TempFile(p)
    BY <2>4, AcquireStep
  <2>5. CASE Mask(p)
    BY <2>5, MaskStep
  <2>6. CASE Fork(p)
    BY <2>6, ForkStep
  <2>7. CASE Give(p) \/ Send(p)
    BY <2>7, GiveSendStep
  <2>8. CASE Exec(p)
    BY <2>8, ExecStep
  <2>9. CASE Impossible(p) \/ LoopSignalled(p)
    BY <2>9, LeavingSteps
  <2>10. CASE \E c \in Procs : LoopChild(p, c)
    BY <2>10, LoopChildStep
  <2>11. CASE \/ Restore(p) \/ EndVirtualEthernetPair(p) \/ EndNATRule(p)
              \/ EndWebServer(p) \/ EndTempFile(p)
    BY <2>11, UndoSteps
  <2>12. CASE EndChild(p)
    BY <2>12, EndChildStep
  <2>13. CASE Ends(p) \/ KilledBySignal(p)
    BY <2>13, DyingSteps
  <2> QED BY <1>3, <2>1, <2>2, <2>3, <2>4, <2>5, <2>6, <2>7, <2>8, <2>9,
             <2>10, <2>11, <2>12, <2>13 DEF Run
<1> QED BY <1>1, <1>2, <1>3 DEF Next

\* The invariant holds in every state the tool can reach.
LEMMA InvariantHolds == Spec => []IInv
BY InitIInv, NextIInv, PTL DEF Spec
-----------------------------------------------------------------------------
\* The variables of the model always have their types (the tools' processes
\* and what they leave in the kernel).
THEOREM TypeCorrect == Spec => []TypeOK
<1>1. IInv => TypeOK
  BY DEF IInv
<1> QED BY <1>1, InvariantHolds, PTL

\* util.cc:164-169, packetshell.cc:205-212, recordshell.cc:121-132: whatever
\* fails and in whichever order the processes run, none of them has the user's
\* environment while it has root's privileges, and the user's command is only
\* run where they have been given up for good.
THEOREM UserUnprivileged == Spec => []UserCodeUnprivileged
<1>1. ASSUME IInv PROVE UserCodeUnprivileged
  <2>1. ASSUME NEW p \in Procs, Alive(p), proc[p].environ PROVE ~IsRoot(p)
    <3>1. /\ Rightful(tool, p, proc[p])
          /\ proc[p].mode \in {"script", "program", "unwinds"}
      BY <1>1, <2>1 DEF IInv, Alive
    <3>2. CASE proc[p].mode \in {"script", "program"}
      <4>1. SoundAt(tool, p, Script(p), proc[p].at)
        BY <1>1, <3>2, Placed
      <4>2. proc[p].at \in EnvironSpots(tool, p)
        BY <2>1, <3>1, <3>2 DEF Rightful
      <4>3. PrivAt(tool, p, proc[p].at) # "root"
        BY <4>1, <4>2 DEF SoundAt, Lawful
      <4> QED BY <3>1, <3>2, <4>3 DEF Rightful, IsRoot
    <3>3. CASE proc[p].mode = "unwinds"
      BY <2>1, <3>1, <3>3 DEF Rightful, IsRoot
    <3> QED BY <3>1, <3>2, <3>3
  <2>2. proc["command"].mode = "program" => proc["command"].priv = "user"
    BY <1>1 DEF IInv, Rightful, Procs
  <2> QED BY <2>1, <2>2 DEF UserCodeUnprivileged
<1> QED BY <1>1, InvariantHolds, PTL

\* Main is past the operations that build what the user's command relies on
\* once that is there.
LEMMA CommandIsLate ==
  ASSUME IInv, proc["command"].mode # "none", proc["main"].mode = "script"
  PROVE  proc["main"].at \in 14..Last(tool, "main")
<1>1. /\ "command" \in Cast(tool) \ {"main"}
      /\ proc["main"].at \in 1..Last(tool, "main")
      /\ Last(tool, "main") \in 1..16
  BY Placed DEF Procs
<1>2. Related(tool, "command", proc[Parent(tool, "command")], proc["command"])
  BY <1>1 DEF IInv, Families
<1>3. CASE tool = "recordshell"
  <2>1. proc["main"].at > 13
    BY <1>3 DEF IInv, Going
  <2> QED BY <1>1, <2>1
<1>4. CASE tool = "replayshell"
  <2>1. Parent(tool, "command") = "main" /\ Birth(tool, "command") = 13
    BY <1>4 DEF Parent, Birth
  <2> QED BY <1>1, <1>2, <2>1 DEF Related
<1>5. CASE tool \notin {"recordshell", "replayshell"}
  <2>1. /\ Parent(tool, "command") = "uplink"
        /\ "uplink" \in Cast(tool) \ {"main"}
        /\ Parent(tool, "uplink") = "main" /\ Birth(tool, "uplink") = 13
    BY <1>5 DEF Parent, Birth, Cast
  <2>2. proc["uplink"].mode # "none"
    BY <1>2, <2>1 DEF Related
  <2>3. Related(tool, "uplink", proc["main"], proc["uplink"])
    BY <2>1 DEF IInv, Families
  <2> QED BY <1>1, <2>1, <2>2, <2>3 DEF Related
<1> QED BY <1>3, <1>4, <1>5

\* child_process.cc:54-57, nat.cc:25, recordshell.cc:96-97: as long as the tool
\* has not begun to end, the rules, the device, the web server and the name
\* file that the user's command relies on are there: no child that ends, and
\* however it ends, takes one with it.
THEOREM StaysInPlace == Spec => []InPlaceWhileUsed
<1>1. ASSUME IInv, Alive("command"), proc["main"].mode = "script"
      PROVE  Needed \subseteq kernel
  <2>1. proc["command"].mode # "none" /\ TypeOK
    BY <1>1 DEF Alive, IInv
  <2>2. Needed \ {"ingress"} \subseteq kernel
    <3>1. proc["main"].at \in 14..Last(tool, "main")
      BY <1>1, <2>1, CommandIsLate
    <3>2. Needed \ {"ingress"} \subseteq
            Held(Script("main"), proc["main"].at) \ {"veth"}
      BY <2>1, <3>1, SpotFacts
    <3> QED BY <1>1, <3>2 DEF IInv, Holding
  <2>3. "ingress" \in Needed => "ingress" \in kernel
    <3>1. "ingress" \in Needed => tool = "recordshell"
      BY DEF Needed
    <3> QED BY <1>1, <2>1, <3>1 DEF IInv, Going, Inhabited
  <2> QED BY <2>2, <2>3
<1>2. IInv => InPlaceWhileUsed
  BY <1>1 DEF InPlaceWhileUsed
<1> QED BY <1>2, InvariantHolds, PTL

\* nat.cc:25-34, netdevice.cc:94-106, event_loop.cc:99: however many operations
\* throw and processes crash, a tool that has ended by itself, or on a signal
\* once its event loop blocks those, has left no rule, no device, no daemon
\* and no child of its own.
THEOREM CleansUp == Spec => []LeavesNothing
<1> DEFINE m == proc["main"]
<1>1. ASSUME IInv, m.mode = "dead", m.masked \/ m.at = 1
      PROVE  /\ kernel \subseteq
                  (IF Alive("command") THEN {"ingress"} ELSE {})
             /\ \A p \in {"container", "recorder", "uplink", "downlink"} :
                  ~Alive(p)
  <2>1. TypeOK /\ m.at = 1
    BY <1>1 DEF IInv, LoopOutlives
  <2>2. ASSUME NEW p \in {"container", "recorder", "uplink", "downlink"}
        PROVE  ~Alive(p)
    <3>1. CASE p \in Cast(tool)
      <4>1. Parent(tool, p) = "main" /\ p # "main"
        BY DEF Parent
      <4>2. m.at <= MaskSpot(tool)
        BY <2>1, CastFacts
      <4>3. proc[p].mode \in {"none", "dead"}
        BY <1>1, <3>1, <4>1, <4>2 DEF IInv, LoopOutlives
      <4> QED BY <4>3 DEF Alive
    <3>2. CASE p \notin Cast(tool)
      <4>1. p \in Procs
        BY DEF Procs
      <4> QED BY <1>1, <3>2, <4>1 DEF IInv, Rightful, Alive
    <3> QED BY <3>1, <3>2
  <2>3. kernel \subseteq Held(Script("main"), m.at) \cup
                         (IF Inhabited THEN {"ingress"} ELSE {})
    BY <1>1 DEF IInv, Holding
  <2>4. Held(Script("main"), m.at) = {}
    BY <2>1, HeldFirst
  <2>5. Inhabited => Alive("command")
    BY <2>2 DEF Inhabited
  <2> QED BY <2>2, <2>3, <2>4, <2>5
<1>2. IInv => LeavesNothing
  BY <1>1 DEF LeavesNothing
<1> QED BY <1>2, InvariantHolds, PTL

\* recordshell.cc:96-97, 142-147; packetshell.cc:119-120, 150: as long as
\* nothing fails and nobody interrupts the tool, every process finds what the
\* others have to do for it first, in every order in which they can run.
THEOREM StartsWithoutFailure == Spec => []StartsUp
<1>1. IInv => StartsUp
  BY DEF IInv, Healthy, StartsUp
<1> QED BY <1>1, InvariantHolds, PTL
=============================================================================
