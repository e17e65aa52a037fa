------------------------------- MODULE Shells -------------------------------
(***************************************************************************)
(* The life of the tools: v2proxy's own shell (src/src/frontend/           *)
(* recordshell.cc), the packet shells (src/src/packet/packetshell.cc) and  *)
(* the replay shell (src/src/frontend/replayshell.cc), from their start as *)
(* setuid root to the end of the last process they started.                *)
(*                                                                         *)
(* What a process does is a script of operations, taken from its source in *)
(* order.  Any operation that can throw may do so; what has been built is  *)
(* then destroyed in the reverse order, as when the event loop ends.  The  *)
(* event loop itself is modelled by EventLoop; here it ends for one        *)
(* child's death, or a signal, at a time.                                  *)
(***************************************************************************)
EXTENDS Integers, Sequences, FiniteSets

CONSTANTS Tools,     \* the tools that are run, of AllTools
          MaxFaults  \* bound: operations that throw, crashes and interrupts

AllTools == {"recordshell", "replayshell", "delayshell", "linkshell"}

ASSUME ToolsAssumption == Tools \subseteq AllTools /\ Tools # {}
ASSUME FaultsAssumption == MaxFaults \in Nat

VARIABLES tool,     \* which tool this is
          proc,     \* its processes
          kernel,   \* what outlives a process unless it is removed
          sent,     \* what has been sent over a socket pair
          faults    \* bound counter

vars == <<tool, proc, kernel, sent, faults>>

Procs == {"main", "container", "recorder", "uplink", "downlink", "dnsmasq",
          "command"}

\* A process: whether it runs its script, a program it has exec'd, or its
\* destructors; the next operation; its effective privileges (root, root given
\* up for a while, or given up for good); whether environ is the user's; the
\* status it will leave; whether it blocks the signals of an event loop; a
\* termination signal it has been sent; whether its parent has waited for it.
Process ==
  [mode : {"none", "script", "program", "unwinds", "dead"}, at : Nat \ {0},
   priv : {"root", "lowered", "user"}, environ : BOOLEAN,
   status : {"ok", "special", "failure"}, masked : BOOLEAN,
   signalled : BOOLEAN, terminated : BOOLEAN]

Rules == {"nat_pre", "nat_post", "dnat"}
Resources == {"veth", "ingress", "apache", "hosts"} \cup Rules

TypeOK ==
  /\ tool \in Tools
  /\ proc \in [Procs -> Process]
  /\ kernel \subseteq Resources /\ sent \subseteq {"go", "fd"}
  /\ faults \in 0..MaxFaults
-----------------------------------------------------------------------------
(* The scripts.  setup: calls that change nothing another process sees, or *)
(* only what goes away with this process; acquire: what has to be removed; *)
(* lower, lend: a scope with lowered privileges, or the user's environment.*)

\* An operation without an argument.
Do(operation) == <<operation, "none">>

RecordMain ==
  <<Do("require"), <<"setup", "arguments">>, <<"setup", "addresses">>,
    <<"acquire", "veth">>, <<"setup", "egress_DNS_proxy">>,
    <<"acquire", "nat_pre">>, <<"acquire", "nat_post">>,
    <<"setup", "HTTP_proxy">>, <<"acquire", "dnat">>,
    Do("mask"), <<"fork", "container">>, <<"give", "container">>,
    <<"send", "go">>, <<"fork", "recorder">>, Do("lower"),
    Do("loop")>>

\* A slip: not waiting for the go signal.
ContainerAtOnce ==
  <<<<"bring", "ingress">>, <<"setup", "route_DNS_proxy">>, Do("drop"),
    Do("mask"), <<"fork", "command">>, Do("lower"), Do("loop")>>

Container ==
  <<<<"receive", "go">>, <<"bring", "ingress">>,
    <<"setup", "route_DNS_proxy">>, Do("drop"),
    Do("mask"), <<"fork", "command">>, Do("lower"), Do("loop")>>

Recorder ==
  <<Do("drop"), <<"unprivileged", "directory">>, Do("mask"),
    Do("lower"), Do("loop")>>

\* The environment is looked at for MAHIMAHI_BASE.
get_mahimahi_base ==
  <<Do("lower"), Do("lend"), <<"setup", "MAHIMAHI_BASE">>,
    Do("unlend"), Do("raise")>>

PacketShell ==
  get_mahimahi_base
  \o <<<<"setup", "addresses_TUN_device_DNS_proxy">>,
       <<"acquire", "nat_pre">>, <<"acquire", "nat_post">>, Do("mask"),
       Do("cleared")>>

wait_for_exit == <<Do("lower"), Do("loop")>>

\* main of a packet shell, by what it asks for.
PacketMain(arguments) ==
  <<Do("require"), <<"setup", arguments>>>> \o PacketShell
  \o <<<<"fork", "uplink">>, <<"fork", "downlink">>>>
  \o wait_for_exit

Linkshell == PacketMain("options_traces_queues")
Delayshell == PacketMain("delay")

Uplink ==
  <<<<"setup", "TUN_device_route">>, Do("mask"),
    <<"setup", "DNS_proxy">>, <<"fork", "dnsmasq">>, <<"await", "dnsmasq">>,
    Do("drop"), Do("environ"), <<"fork", "command">>,
    <<"send", "fd">>, <<"unprivileged", "queue">>, Do("lower"),
    Do("loop")>>

\* A slip: the user's environment before the privileges are dropped.
DownlinkEnvironFirst ==
  <<Do("environ"), Do("drop"), <<"receive", "fd">>, Do("mask"),
    <<"unprivileged", "queue">>, Do("lower"), Do("loop")>>

\* A slip: the ferry, which blocks the signals, before the descriptor.
DownlinkFerryFirst ==
  <<Do("drop"), Do("environ"), Do("mask"), <<"receive", "fd">>,
    <<"unprivileged", "queue">>, Do("lower"), Do("loop")>>

Downlink ==
  <<Do("drop"), Do("environ"), <<"receive", "fd">>, Do("mask"),
    <<"unprivileged", "queue">>, Do("lower"), Do("loop")>>

ReplayMain ==
  <<Do("require"), <<"setup", "arguments_namespace">>,
    Do("lower"), <<"setup", "recording">>, Do("raise"),
    <<"setup", "interfaces">>, <<"acquire", "apache">>,
    <<"acquire", "hosts">>, Do("mask"), <<"setup", "nameservers">>,
    <<"fork", "dnsmasq">>, <<"await", "dnsmasq">>, <<"fork", "command">>,
    Do("lower"), Do("loop")>>

\* The user's command is looked for in PATH.
Command ==
  CASE tool = "recordshell" -> <<Do("environ"), <<"exec", "search">>>>
    [] tool = "replayshell" -> <<Do("drop"), Do("environ"),
                                 <<"exec", "search">>>>
    [] OTHER -> <<<<"exec", "search">>>>

Dnsmasq == <<Do("exec")>>

Script(p) ==
  CASE p = "main" -> (CASE tool = "recordshell" -> RecordMain
                        [] tool = "replayshell" -> ReplayMain
                        [] tool = "linkshell" -> Linkshell
                        [] tool = "delayshell" -> Delayshell)
    [] p = "container" -> Container
    [] p = "recorder" -> Recorder
    [] p = "uplink" -> Uplink
    [] p = "downlink" -> Downlink
    [] p = "dnsmasq" -> Dnsmasq
    [] p = "command" -> Command
-----------------------------------------------------------------------------
\* main has cleared its environment; the rest has not been forked.
Init ==
  /\ tool \in Tools
  /\ proc = [p \in Procs |->
       [mode |-> IF p = "main" THEN "script" ELSE "none", at |-> 1,
        priv |-> "root", environ |-> FALSE, status |-> "ok",
        masked |-> FALSE, signalled |-> FALSE, terminated |-> FALSE]]
  /\ kernel = {} /\ sent = {} /\ faults = 0

Op(p) == Script(p)[proc[p].at]
At(p, o) == proc[p].mode = "script" /\ Op(p)[1] = o
Alive(p) == proc[p].mode \in {"script", "program", "unwinds"}
IsRoot(p) == proc[p].priv = "root"

\* The children p has forked, and the first of them it has not waited for.
Child(p, i) == Script(p)[i][2]
Forks(p) == {i \in DOMAIN Script(p) : /\ Script(p)[i][1] = "fork"
                                      /\ proc[Child(p, i)].mode # "none"}
Unwaited(p) == {i \in Forks(p) : ~proc[Child(p, i)].terminated}
FirstUnwaited(p) ==
  CHOOSE i \in Unwaited(p) : \A j \in Unwaited(p) : i <= j

Becomes(p, q) == proc' = [proc EXCEPT ![p] = q]
Goes(p) == Becomes(p, [proc[p] EXCEPT !.at = @ + 1])

\* The function ends, by return or by an exception: destructors run.
Leaves(p, s) ==
  Becomes(p, [proc[p] EXCEPT !.mode = "unwinds", !.status = s])

\* Dies: and with the last process of its namespace go the devices there.
Dies(p, s) ==
  /\ Becomes(p, [proc[p] EXCEPT !.mode = "dead", !.status = s])
  /\ kernel' = IF \A q \in {"container", "command"} \ {p} : ~Alive(q)
               THEN kernel \ {"ingress"} ELSE kernel
-----------------------------------------------------------------------------
(* The operations.                                                         *)

\* Setuid root, with a cleared environment.
check_requirements(p) == ~proc[p].environ /\ IsRoot(p)

assert_not_root(p) == ~IsRoot(p)

\* ezexec: as root, only with a cleared environment, and no search in PATH.
ezexec(p, search) == IsRoot(p) => ~proc[p].environ /\ ~search

\* run: a command of root's.
run(p) == IsRoot(p) /\ ezexec(p, FALSE)

\* An address is given to a device that is there.
assign_address(p, device) == device \in kernel

\* What an operation needs; without it, it throws.
Possible(p) ==
  LET o == Op(p)[1]
      arg == Op(p)[2]
  IN  /\ o = "require" => check_requirements(p)
      /\ o = "acquire" /\ arg # "hosts" => run(p)
      /\ o \in {"lend", "cleared"} => ~proc[p].environ
      /\ o = "unprivileged" => assert_not_root(p)
      /\ o = "exec" => ezexec(p, arg = "search")
      /\ o = "give" => Alive(arg)
      /\ o = "bring" => assign_address(p, arg)
      /\ o = "await" => Alive(arg)

Passes(p, operations) ==
  /\ proc[p].mode = "script" /\ Op(p)[1] \in operations
  /\ Possible(p)
  /\ Goes(p)
  /\ UNCHANGED <<tool, kernel, sent, faults>>

Setup(p) ==
  Passes(p, {"require", "cleared", "setup", "unprivileged", "bring"})

\* A read from the socket pair blocks.
recv_fd(p) == Passes(p, {"receive"}) /\ Op(p)[2] \in sent

\* The wait for dnsmasq to answer.
start_dnsmasq(p) == Passes(p, {"await"}) /\ proc[Op(p)[2]].mode # "script"

\* A process gives its privileges up for good.
drop_privileges(p) ==
  /\ At(p, "drop")
  /\ Becomes(p, [proc[p] EXCEPT !.at = @ + 1, !.priv = "user"])
  /\ UNCHANGED <<tool, kernel, sent, faults>>

\* For a while, if it has them: the scope ends with raise.
TemporarilyUnprivileged(p) ==
  /\ At(p, "lower") \/ At(p, "raise")
  /\ Becomes(p, [proc[p] EXCEPT !.at = @ + 1,
       !.priv = IF @ = "user" THEN @
                ELSE IF At(p, "lower") THEN "lowered" ELSE "root"])
  /\ UNCHANGED <<tool, kernel, sent, faults>>

\* The user's environment, for good or for a scope that ends with unlend.
TemporaryEnvironment(p) ==
  /\ At(p, "environ") \/ At(p, "lend") \/ At(p, "unlend")
  /\ Possible(p)
  /\ Becomes(p, [proc[p] EXCEPT !.at = @ + 1, !.environ = ~At(p, "unlend")])
  /\ UNCHANGED <<tool, kernel, sent, faults>>

Acquire(p, what) ==
  /\ At(p, "acquire") /\ Op(p)[2] \in what /\ Possible(p)
  /\ kernel' = kernel \cup {Op(p)[2]}
  /\ Goes(p)
  /\ UNCHANGED <<tool, sent, faults>>

\* A device pair, a rule of iptables, a daemon, a file in /tmp.
VirtualEthernetPair(p) == Acquire(p, {"veth"})
NATRule(p) == Acquire(p, Rules)
WebServer(p) == Acquire(p, {"apache"})
TempFile(p) == Acquire(p, {"hosts"})

\* The constructor of an EventLoop blocks its signals.
Mask(p) ==
  /\ At(p, "mask")
  /\ Becomes(p, [proc[p] EXCEPT !.at = @ + 1, !.masked = TRUE])
  /\ UNCHANGED <<tool, kernel, sent, faults>>

\* A child starts as its parent is, but with no signal blocked.
Fork(p) ==
  /\ At(p, "fork")
  /\ proc' = [proc EXCEPT ![p].at = @ + 1,
       ![Op(p)[2]] = [proc[p] EXCEPT !.mode = "script", !.at = 1,
                                     !.masked = FALSE, !.signalled = FALSE]]
  /\ UNCHANGED <<tool, kernel, sent, faults>>

\* The inner device goes to the container's namespace, and the kernel will
\* destroy the pair with it.
Give(p) ==
  /\ At(p, "give") /\ Possible(p)
  /\ kernel' = (kernel \ {"veth"}) \cup {"ingress"}
  /\ Goes(p)
  /\ UNCHANGED <<tool, sent, faults>>

Send(p) ==
  /\ At(p, "send")
  /\ sent' = sent \cup {Op(p)[2]}
  /\ Goes(p)
  /\ UNCHANGED <<tool, kernel, faults>>

Exec(p) ==
  /\ At(p, "exec") /\ Possible(p)
  /\ Becomes(p, [proc[p] EXCEPT !.mode = "program"])
  /\ UNCHANGED <<tool, kernel, sent, faults>>

\* An operation that does not find what it needs.
Impossible(p) ==
  /\ proc[p].mode = "script" /\ ~Possible(p)
  /\ Leaves(p, "failure")
  /\ UNCHANGED <<tool, kernel, sent, faults>>

\* Any other reason for an exception.
Throws(p) ==
  /\ proc[p].mode = "script" /\ faults < MaxFaults
  /\ Op(p)[1] \notin {"mask", "lower", "raise", "environ", "unlend"}
  /\ Leaves(p, "failure")
  /\ faults' = faults + 1
  /\ UNCHANGED <<tool, kernel, sent>>
-----------------------------------------------------------------------------
(* The event loops.                                                        *)

LoopSignalled(p) ==
  /\ At(p, "loop") /\ proc[p].signalled
  /\ Leaves(p, "ok")
  /\ UNCHANGED <<tool, kernel, sent, faults>>

\* The ferries are special children: status 77 lets the loop go on.
LoopChild(p, c) ==
  /\ At(p, "loop") /\ \E i \in Unwaited(p) : Child(p, i) = c
  /\ proc[c].mode = "dead"
  /\ LET planned == c \in {"uplink", "downlink"}
                    /\ proc[c].status = "special"
         self == [proc[p] EXCEPT !.mode = "unwinds",
                    !.status = IF proc[c].status = "failure" THEN "failure"
                               ELSE "ok"]
     IN  proc' = [proc EXCEPT ![c].terminated = TRUE,
                    ![p] = IF planned /\ Cardinality(Unwaited(p)) > 1
                           THEN @ ELSE self]
  /\ UNCHANGED <<tool, kernel, sent, faults>>

\* A link with --once has come to the end of its trace.
LoopFinished(p) ==
  /\ tool = "linkshell" /\ p \in {"uplink", "downlink"} /\ At(p, "loop")
  /\ Leaves(p, "special")
  /\ UNCHANGED <<tool, kernel, sent, faults>>
-----------------------------------------------------------------------------
(* The destructors, from the last operation done to the first.             *)

Undone(p) == Script(p)[proc[p].at - 1]
Unwinds(p) == proc[p].mode = "unwinds" /\ proc[p].at > 1
Back(q) == [q EXCEPT !.at = @ - 1]

\* A slip: TemporarilyUnprivileged without its destructor.
RestoredNot(q, o) ==
  [Back(q) EXCEPT !.environ = IF o = "lend" THEN FALSE ELSE @]

\* TemporarilyUnprivileged and TemporaryEnvironment restore what they found.
Restored(q, o) ==
  [Back(q) EXCEPT
     !.priv = IF o = "lower" /\ @ = "lowered" THEN "root" ELSE @,
     !.environ = IF o = "lend" THEN FALSE ELSE @]

\* The end of a scope, or of what only this process had.
Restore(p) ==
  /\ Unwinds(p) /\ Undone(p)[1] \notin {"mask", "acquire"}
  /\ Becomes(p, Restored(proc[p], Undone(p)[1]))
  /\ UNCHANGED <<tool, kernel, sent, faults>>

\* Removing something fails without root; the failure is only printed.
Release(p, what) ==
  /\ Unwinds(p) /\ Undone(p)[1] = "acquire" /\ Undone(p)[2] \in what
  /\ kernel' = IF IsRoot(p) THEN kernel \ {Undone(p)[2]} ELSE kernel
  /\ Becomes(p, Back(proc[p]))
  /\ UNCHANGED <<tool, sent, faults>>

\* Nothing is left to do for a pair that was given to a container.
EndVirtualEthernetPair(p) == Release(p, {"veth"})
EndNATRule(p) == Release(p, Rules)
EndWebServer(p) == Release(p, {"apache"})
EndTempFile(p) == Release(p, {"hosts"})

\* ~EventLoop: ~ChildProcess of each child in turn.
EndChild(p) ==
  /\ Unwinds(p) /\ Undone(p)[1] = "mask"
  /\ IF Unwaited(p) = {} THEN Becomes(p, Back(proc[p]))
     ELSE LET c == Child(p, FirstUnwaited(p))
          IN  IF proc[c].mode = "dead"
              THEN proc' = [proc EXCEPT ![c].terminated = TRUE]
              ELSE /\ ~proc[c].signalled
                   /\ proc' = [proc EXCEPT ![c].signalled = TRUE]
  /\ UNCHANGED <<tool, kernel, sent, faults>>

\* A slip: a child that ends as its parent would, with the destructors of
\* all it has a copy of.
EndsWithAll(p) ==
  /\ proc[p].mode = "unwinds" /\ proc[p].at = 1
  /\ Becomes(p, [proc[p] EXCEPT !.mode = "dead"])
  /\ kernel' = {}
  /\ UNCHANGED <<tool, sent, faults>>

\* main returns; a child calls _exit, so that nothing but the variables of
\* its own function is destroyed.
Ends(p) ==
  /\ proc[p].mode = "unwinds" /\ proc[p].at = 1
  /\ Dies(p, proc[p].status)
  /\ UNCHANGED <<tool, sent, faults>>
-----------------------------------------------------------------------------
(* Signals and programs.                                                   *)

\* A termination signal that is not blocked kills.
KilledBySignal(p) ==
  /\ Alive(p) /\ proc[p].signalled /\ ~proc[p].masked
  /\ Dies(p, "failure")
  /\ UNCHANGED <<tool, sent, faults>>

CommandExits ==
  /\ proc["command"].mode = "program"
  /\ Dies("command", "ok")
  /\ UNCHANGED <<tool, sent, faults>>

\* A program fails, or a process is killed (SIGPIPE, out of memory).
Crash(p) ==
  /\ Alive(p) /\ p # "main" /\ faults < MaxFaults
  /\ Dies(p, "failure")
  /\ faults' = faults + 1
  /\ UNCHANGED <<tool, sent>>

\* The user interrupts the tool.
Interrupt ==
  /\ Alive("main") /\ ~proc["main"].signalled /\ faults < MaxFaults
  /\ proc' = [proc EXCEPT !["main"].signalled = TRUE]
  /\ faults' = faults + 1
  /\ UNCHANGED <<tool, kernel, sent>>
-----------------------------------------------------------------------------
Run(p) ==
  \/ Setup(p) \/ recv_fd(p) \/ start_dnsmasq(p) \/ drop_privileges(p)
  \/ TemporarilyUnprivileged(p) \/ TemporaryEnvironment(p)
  \/ VirtualEthernetPair(p) \/ NATRule(p) \/ WebServer(p) \/ TempFile(p)
  \/ Mask(p) \/ Fork(p) \/ Give(p) \/ Send(p) \/ Exec(p) \/ Impossible(p)
  \/ LoopSignalled(p) \/ \E c \in Procs : LoopChild(p, c)
  \/ Restore(p) \/ EndVirtualEthernetPair(p) \/ EndNATRule(p)
  \/ EndWebServer(p) \/ EndTempFile(p) \/ EndChild(p) \/ Ends(p)
  \/ KilledBySignal(p)

Environment ==
  \/ \E p \in Procs : Throws(p) \/ LoopFinished(p) \/ Crash(p)
  \/ CommandExits \/ Interrupt

Next == Environment \/ \E p \in Procs : Run(p)

Spec == Init /\ [][Next]_vars

\* Every process is scheduled, and a signal is delivered: programs do not
\* ignore it.
FairSpec == Spec /\ \A p \in Procs : WF_vars(Run(p))
-----------------------------------------------------------------------------
\* packetshell.cc:62, 205-212; util.cc:164-169; recordshell.cc:121-132: the
\* user's environment is in place only in a process without root's privileges,
\* and the user's command runs only where they cannot be had back.
UserCodeUnprivileged ==
  /\ \A p \in Procs : Alive(p) /\ proc[p].environ => ~IsRoot(p)
  /\ proc["command"].mode = "program" => proc["command"].priv = "user"

\* What the processes in the container rely on.
Needed == CASE tool = "recordshell" -> {"ingress", "nat_pre", "nat_post",
                                        "dnat"}
            [] tool = "replayshell" -> {"apache", "hosts"}
            [] OTHER -> {"nat_pre", "nat_post"}

\* child_process.cc:54-57 (_exit), nat.cc:25: as long as the tool has not
\* begun to end, what the user's command relies on is there, whichever other
\* process ends and how.
InPlaceWhileUsed ==
  Alive("command") /\ proc["main"].mode = "script" => Needed \subseteq kernel

\* nat.cc:25-34, netdevice.cc:94-106, event_loop.cc:99: a tool that ends by
\* itself, or that is signalled once it blocks the signals, leaves no rule, no
\* device and no daemon, and none of its children, whatever failed.  The
\* device of a container that was killed stays until its command ends.
LeavesNothing ==
  LET m == proc["main"]
  IN  m.mode = "dead" /\ (m.masked \/ m.at = 1) =>
        /\ kernel \subseteq (IF Alive("command") THEN {"ingress"} ELSE {})
        /\ \A p \in {"container", "recorder", "uplink", "downlink"} : ~Alive(p)

\* recordshell.cc:96-97, 142-147; packetshell.cc:119-120, 150: the processes
\* find what the others have to do for them first: unless something fails or
\* is interrupted from outside, none of them throws.
StartsUp ==
  faults = 0 =>
    \A p \in Procs : ~(proc[p].mode = "unwinds" /\ proc[p].status = "failure")

\* event_loop.cc:61-72, packetshell.cc:150, child_process.cc:148-161: once a
\* process of the tool has ended, for whatever reason, the tool ends too; a
\* ferry at the end of its trace excepted.
ToolEnds ==
  (\E p \in Procs : proc[p].mode = "dead")
  ~> \/ proc["main"].mode = "dead"
     \/ \E p \in Procs : proc[p].status = "special"
=============================================================================
