----------------------------- MODULE EventLoop -----------------------------
(***************************************************************************)
(* The event loop's management of child processes: EventLoop               *)
(* (src/src/util/event_loop.cc) and ChildProcess                           *)
(* (src/src/util/child_process.cc), as every shell, ferry and DNS server   *)
(* of the system uses them.  The kernel around it is external: a standard  *)
(* signal is pending or not however often it is sent, and the last change  *)
(* of a child's state is what waitid reports.                              *)
(*                                                                         *)
(* A step is what the process does between two points where a child or a   *)
(* signal can matter: reading one signal, looking at one child, one round  *)
(* of a destructor.                                                        *)
(***************************************************************************)
EXTENDS Integers, FiniteSets

CONSTANTS N,         \* child_processes_ holds children 1..N, in this order
          MaxStops,  \* bound: stops of children
          MaxConts   \* bound: SIGCONTs sent to this process

ASSUME NAssumption == N \in Nat \ {0}
ASSUME BoundsAssumption == MaxStops \in Nat /\ MaxConts \in Nat

VARIABLES special,    \* children added with add_special_child_process
          state,      \* kernel: what each child is doing
          status,     \* kernel: the status a dead child left
          change,     \* kernel: the change waitid has still to report
          hup,        \* kernel: the child has been sent its SIGHUP
          pending,    \* kernel: signals signalfd has for this process
          suspended,  \* kernel: this process is stopped
          pc,         \* where this process is
          at,         \* the child it looks at
          running,    \* running_ of each child
          terminated, \* terminated_ of each child
          outcome,    \* how internal_loop ended
          asked,      \* history: a termination signal ended the loop
          stops,      \* bound counters
          conts

kernelVars == <<state, status, change, hup, pending, suspended>>
recordVars == <<running, terminated>>
vars == <<special, kernelVars, pc, at, recordVars, outcome, asked, stops,
          conts>>

Children == 1..N
\* An exit status: 0, the status a special child may leave with (77), or any
\* other, or death on a signal.
Statuses == {"zero", "special", "failure"}

TypeOK ==
  /\ special \subseteq Children
  /\ state \in [Children -> {"running", "stopped", "dead"}]
  /\ status \in [Children -> Statuses]
  /\ change \in [Children -> {"none", "stopped", "continued", "dead"}]
  /\ hup \in [Children -> BOOLEAN]
  /\ pending \subseteq {"TERM", "CHLD", "CONT"} /\ suspended \in BOOLEAN
  /\ pc \in {"poll", "search", "destroy", "wait", "gone"} /\ at \in Children
  /\ running \in [Children -> BOOLEAN] /\ terminated \in [Children -> BOOLEAN]
  /\ outcome \in {"none", "exit", "throw"} /\ asked \in BOOLEAN
  /\ stops \in 0..MaxStops /\ conts \in 0..MaxConts
  /\ pc \in {"poll", "search"} <=> outcome = "none"

Init ==
  /\ special \in SUBSET Children
  /\ state = [c \in Children |-> "running"]
  /\ status = [c \in Children |-> "zero"]
  /\ change = [c \in Children |-> "none"]
  /\ hup = [c \in Children |-> FALSE]
  /\ pending = {} /\ suspended = FALSE
  /\ pc = "poll" /\ at = 1
  /\ running = [c \in Children |-> TRUE]
  /\ terminated = [c \in Children |-> FALSE]
  /\ outcome = "none" /\ asked = FALSE
  /\ stops = 0 /\ conts = 0
-----------------------------------------------------------------------------
(* The children, and whoever sends signals.                                *)

\* The children in S change to state s; waitid reports news.
Becomes(S, s, news) ==
  /\ state' = [c \in Children |-> IF c \in S THEN s ELSE state[c]]
  /\ change' = [c \in Children |-> IF c \in S THEN news ELSE change[c]]

\* A child exits, or dies on a signal.
ChildDies(c, s) ==
  /\ state[c] = "running" \/ (state[c] = "stopped" /\ s = "failure")
  /\ Becomes({c}, "dead", "dead")
  /\ status' = [status EXCEPT ![c] = s]
  /\ pending' = pending \cup {"CHLD"}
  /\ UNCHANGED <<special, hup, suspended, pc, at, recordVars, outcome, asked,
                 stops, conts>>

ChildStops(c) ==
  /\ state[c] = "running" /\ stops < MaxStops
  /\ Becomes({c}, "stopped", "stopped")
  /\ pending' = pending \cup {"CHLD"}
  /\ stops' = stops + 1
  /\ UNCHANGED <<special, status, hup, suspended, pc, at, recordVars, outcome,
                 asked, conts>>

\* Somebody else continues a child.
ChildContinues(c) ==
  /\ state[c] = "stopped"
  /\ Becomes({c}, "running", "continued")
  /\ pending' = pending \cup {"CHLD"}
  /\ UNCHANGED <<special, status, hup, suspended, pc, at, recordVars, outcome,
                 asked, stops, conts>>

\* SIGHUP, SIGTERM, SIGQUIT or SIGINT.
SendTerm ==
  /\ pending' = pending \cup {"TERM"}
  /\ UNCHANGED <<special, state, status, change, hup, suspended, pc, at,
                 recordVars, outcome, asked, stops, conts>>

\* SIGCONT continues the process at once and is pending as well.
SendCont ==
  /\ conts < MaxConts
  /\ conts' = conts + 1
  /\ pending' = pending \cup {"CONT"}
  /\ suspended' = FALSE
  /\ UNCHANGED <<special, state, status, change, hup, pc, at, recordVars,
                 outcome, asked, stops>>
-----------------------------------------------------------------------------
(* handle_signal.                                                          *)

Polls == pc = "poll" /\ ~suspended

\* signalfd gives the pending signal with the lowest number.
HandleTerm ==
  /\ Polls /\ "TERM" \in pending
  /\ pending' = pending \ {"TERM"}
  /\ outcome' = "exit" /\ asked' = TRUE
  /\ pc' = "destroy" /\ at' = 1
  /\ UNCHANGED <<special, state, status, change, hup, suspended, recordVars,
                 stops, conts>>

HandleChld ==
  /\ Polls /\ "CHLD" \in pending /\ "TERM" \notin pending
  /\ pending' = pending \ {"CHLD"}
  /\ pc' = "search" /\ at' = 1
  /\ UNCHANGED <<special, state, status, change, hup, suspended, recordVars,
                 outcome, asked, stops, conts>>

\* The children resume() sends a SIGCONT to.
Resumed == {c \in Children : ~running[c] /\ ~terminated[c]}

HandleCont ==
  /\ Polls /\ pending = {"CONT"}
  /\ LET woken == {c \in Resumed : state[c] = "stopped"}
     IN  /\ Becomes(woken, "running", "continued")
         /\ pending' = IF woken = {} THEN {} ELSE {"CHLD"}
  /\ UNCHANGED <<special, status, hup, suspended, pc, at, recordVars, outcome,
                 asked, stops, conts>>

\* wait: the child's record takes the change, which is reported no more.
Waits(c) ==
  /\ change' = [change EXCEPT ![c] = "none"]
  /\ running' = [running EXCEPT ![c] = CASE change[c] = "stopped" -> FALSE
                                         [] change[c] = "continued" -> TRUE
                                         [] OTHER -> @]
  /\ terminated' = [terminated EXCEPT ![c] = change[c] = "dead"]

Searches == pc = "search" /\ ~suspended
Waitable(c) == ~terminated[c] /\ change[c] # "none"
NextChild == IF at < N THEN pc' = "search" /\ at' = at + 1
                       ELSE pc' = "poll" /\ at' = 1

SearchPasses ==
  /\ Searches /\ ~Waitable(at)
  /\ NextChild
  /\ UNCHANGED <<special, kernelVars, recordVars, outcome, asked, stops,
                 conts>>

\* A slip: one SIGCHLD is taken for one change.
SearchStoppedOnce ==
  /\ Searches /\ Waitable(at) /\ change[at] # "dead"
  /\ Waits(at)
  /\ IF running'[at] THEN UNCHANGED <<pending, suspended>>
     ELSE pending' = pending \ {"CONT"} /\ suspended' = TRUE
  /\ pc' = "poll" /\ at' = 1
  /\ UNCHANGED <<special, state, status, hup, outcome, asked, stops, conts>>

\* A child that has stopped suspends this process too; the kernel drops a
\* pending SIGCONT then.  The search goes on when the process is continued.
SearchStopped ==
  /\ Searches /\ Waitable(at) /\ change[at] # "dead"
  /\ Waits(at)
  /\ IF running'[at] THEN UNCHANGED <<pending, suspended>>
     ELSE pending' = pending \ {"CONT"} /\ suspended' = TRUE
  /\ NextChild
  /\ UNCHANGED <<special, state, status, hup, outcome, asked, stops, conts>>

\* A slip: any success ends the loop.
SearchTerminatedExits ==
  /\ Searches /\ Waitable(at) /\ change[at] = "dead"
  /\ Waits(at)
  /\ outcome' = IF status[at] = "failure" THEN "throw" ELSE "exit"
  /\ pc' = "destroy" /\ at' = 1
  /\ UNCHANGED <<special, state, status, hup, pending, suspended, asked, stops,
                 conts>>

\* A child that has terminated ends the search, whatever is left to find.
SearchTerminated ==
  /\ Searches /\ Waitable(at) /\ change[at] = "dead"
  /\ Waits(at)
  /\ LET planned == status[at] = "special" /\ at \in special
         over == \A c \in Children : terminated'[c]
     IN  IF status[at] # "zero" /\ ~planned
         THEN outcome' = "throw" /\ pc' = "destroy"
         ELSE IF over \/ ~planned
         THEN outcome' = "exit" /\ pc' = "destroy"
         ELSE outcome' = "none" /\ pc' = "poll"
  /\ at' = 1
  /\ UNCHANGED <<special, state, status, hup, pending, suspended, asked, stops,
                 conts>>
-----------------------------------------------------------------------------
(* The destructors of the children, in order.  A round of ~ChildProcess:   *)
(* resume, the graceful termination signal, and a wait for any change.     *)

NextDestroyed == IF at < N THEN pc' = "destroy" /\ at' = at + 1
                           ELSE pc' = "gone" /\ at' = at

DestroyNext ==
  /\ pc = "destroy" /\ terminated[at]
  /\ NextDestroyed
  /\ UNCHANGED <<special, kernelVars, recordVars, outcome, asked, stops,
                 conts>>

\* A slip: a stopped child is not resumed before it is signalled.
DestroySignalOnly ==
  /\ pc = "destroy" /\ ~terminated[at]
  /\ hup' = [hup EXCEPT ![at] = TRUE]
  /\ pc' = "wait"
  /\ UNCHANGED <<special, state, status, change, pending, suspended, at,
                 recordVars, outcome, asked, stops, conts>>

DestroySignal ==
  /\ pc = "destroy" /\ ~terminated[at]
  /\ IF state[at] = "stopped" /\ at \in Resumed
     THEN Becomes({at}, "running", "continued")
          /\ pending' = pending \cup {"CHLD"}
     ELSE UNCHANGED <<state, change, pending>>
  /\ hup' = [hup EXCEPT ![at] = TRUE]
  /\ pc' = "wait"
  /\ UNCHANGED <<special, status, suspended, at, recordVars, outcome, asked,
                 stops, conts>>

\* A slip: one round is taken to be enough.
DestroyWaitOnce ==
  /\ pc = "wait" /\ change[at] # "none"
  /\ Waits(at)
  /\ NextDestroyed
  /\ UNCHANGED <<special, state, status, hup, pending, suspended, outcome,
                 asked, stops, conts>>

DestroyWait ==
  /\ pc = "wait" /\ change[at] # "none"
  /\ Waits(at)
  /\ pc' = "destroy"
  /\ UNCHANGED <<special, state, status, hup, pending, suspended, at, outcome,
                 asked, stops, conts>>
-----------------------------------------------------------------------------
Process ==
  \/ HandleTerm \/ HandleChld \/ HandleCont
  \/ SearchPasses \/ SearchStopped \/ SearchTerminated
  \/ DestroyNext \/ DestroySignal \/ DestroyWait

Environment ==
  \/ SendTerm \/ SendCont
  \/ \E c \in Children : \/ \E s \in Statuses : ChildDies(c, s)
                         \/ ChildStops(c) \/ ChildContinues(c)

Next == Process \/ Environment

Spec == Init /\ [][Next]_vars

\* The process runs when it can.  A child that runs and has been sent its
\* SIGHUP dies of it: it does not ignore the signal.
DiesOfHup(c) == hup[c] /\ state[c] = "running" /\ ChildDies(c, "failure")

FairSpec ==
  Spec /\ WF_vars(Process) /\ \A c \in Children : WF_vars(DiesOfHup(c))
-----------------------------------------------------------------------------
\* The search that the comment at event_loop.cc:51 describes, as long as no
\* child has left by its special status: when the loop sleeps, no change of a
\* child is unreported, and no child is left stopped, however the signals came
\* together.
LeavesNoneBehind ==
  pc = "poll" /\ pending = {} /\ ~suspended
  /\ (\A c \in special : ~terminated[c])
  => \A c \in Children : change[c] = "none" /\ state[c] # "stopped"

\* event_loop.cc:62-72: the loop ends (and no destructor has done anything yet)
\* only because it was asked to, because a child has ended with anything but
\* its special status, or because the last one has.
EndsForAReason ==
  outcome # "none" /\ (\A c \in Children : ~hup[c]) =>
    \/ asked
    \/ \E c \in Children :
         terminated[c] /\ ~(c \in special /\ status[c] = "special")
    \/ \A c \in Children : terminated[c]

\* child_process.cc:148-161: the process does not go before its children are
\* dead and waited for.
NoChildOutlives ==
  pc = "gone" =>
    \A c \in Children : state[c] = "dead" /\ terminated[c]

\* event_loop.cc:62-72: a child that leaves with anything but its special
\* status ends the loop, unless the process is suspended first, or a special
\* child has left.
OrdinaryExitEnds ==
  (\E c \in Children : state[c] = "dead"
                       /\ ~(c \in special /\ status[c] = "special"))
  ~> (outcome # "none" \/ suspended \/ \E c \in special : terminated[c])

\* child_process.cc:152-157: the destructors end, whether a child was stopped
\* before, between or after its signals.
DestructorsEnd == (outcome # "none") ~> (pc = "gone")
=============================================================================
