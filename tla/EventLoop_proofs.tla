-------------------------- MODULE EventLoop_proofs --------------------------
(***************************************************************************)
(* Proofs about EventLoop, for any number of children, any of them         *)
(* special, and any bounds: the search leaves nothing behind, the loop     *)
(* ends for a reason, and no child outlives the process.                   *)
(***************************************************************************)
EXTENDS EventLoop, TLAPS

\* What waitid reports agrees with what the child does, and the record of a
\* child left stopped says so.
NewsAgrees ==
  \A c \in Children :
    /\ terminated[c] => state[c] = "dead" /\ change[c] = "none"
    /\ change[c] = "dead" => state[c] = "dead"
    /\ state[c] = "stopped" =>
         change[c] = "stopped" \/ (change[c] = "none" /\ ~running[c])

\* The loop has not ended and no special child has.
AllSearched == outcome = "none" /\ \A c \in special : ~terminated[c]

\* A change that is not reported yet has its SIGCHLD to come, or the search
\* under way comes to it.
WillBeFound ==
  AllSearched =>
    \A c \in Children :
      change[c] # "none" => "CHLD" \in pending \/ (pc = "search" /\ at <= c)

\* A child left stopped has suspended the process, or will be resumed.
WillBeResumed ==
  AllSearched =>
    \A c \in Children :
      state[c] = "stopped" /\ change[c] = "none" =>
        suspended \/ "CONT" \in pending

\* The destructors have done with the children before the one they are at.
Destroyed ==
  /\ pc \in {"destroy", "wait"} => \A c \in Children : c < at => terminated[c]
  /\ pc = "wait" => ~terminated[at] /\ hup[at]
  /\ pc = "gone" => \A c \in Children : terminated[c]

IInv ==
  /\ TypeOK
  /\ NewsAgrees
  /\ WillBeFound
  /\ WillBeResumed
  /\ Destroyed
  /\ EndsForAReason

\* A loop starts with its children running and nothing to report.
LEMMA InitIInv == Init => IInv
<1> SUFFICES ASSUME Init PROVE IInv
  OBVIOUS
<1> USE NAssumption, BoundsAssumption DEF Init, Children
<1>1. TypeOK
  <2>1. pending \subseteq {"TERM", "CHLD", "CONT"}
    OBVIOUS
  <2>2. stops \in 0..MaxStops /\ conts \in 0..MaxConts /\ at \in Children
    OBVIOUS
  <2>3. QED
    BY <2>1, <2>2 DEF TypeOK, Statuses
<1>2. NewsAgrees
  BY DEF NewsAgrees
<1>3. WillBeFound
  BY DEF WillBeFound, AllSearched
<1>4. WillBeResumed
  BY DEF WillBeResumed, AllSearched
<1>5. Destroyed
  BY DEF Destroyed
<1>6. EndsForAReason
  BY DEF EndsForAReason
<1>7. QED
  BY <1>1, <1>2, <1>3, <1>4, <1>5, <1>6 DEF IInv

\* A step of the environment: a child changes, or a signal is sent.
LEMMA EnvironmentIInv == IInv /\ Environment => IInv'
<1> SUFFICES ASSUME IInv, Environment PROVE IInv'
  OBVIOUS
<1> USE NAssumption, BoundsAssumption
<1>1. CASE SendTerm
  <2>1. TypeOK'
    BY <1>1
    DEF SendTerm, recordVars, IInv, TypeOK, Children, Statuses
  <2>2. NewsAgrees'
    BY <1>1
    DEF SendTerm, recordVars, IInv, NewsAgrees, TypeOK, Children, Statuses
  <2>3. WillBeFound'
    BY <1>1
    DEF SendTerm, recordVars, IInv, WillBeFound, AllSearched, TypeOK,
        Children, Statuses
  <2>4. WillBeResumed'
    BY <1>1
    DEF SendTerm, recordVars, IInv, WillBeResumed, AllSearched, TypeOK,
        NewsAgrees, WillBeFound, Children, Statuses
  <2>5. Destroyed'
    BY <1>1
    DEF SendTerm, recordVars, IInv, Destroyed, TypeOK, NewsAgrees, Children,
        Statuses
  <2>6. EndsForAReason'
    BY <1>1
    DEF SendTerm, recordVars, IInv, EndsForAReason, TypeOK, NewsAgrees,
        Destroyed, Children, Statuses
  <2>7. QED
    BY <2>1, <2>2, <2>3, <2>4, <2>5, <2>6 DEF IInv
<1>2. CASE SendCont
  <2>1. TypeOK'
    <3>1. pending' \subseteq {"TERM", "CHLD", "CONT"}
      BY <1>2 DEF SendCont, recordVars, IInv, TypeOK
    <3>2. stops' \in 0..MaxStops /\ conts' \in 0..MaxConts /\ at' \in Children
      BY <1>2 DEF SendCont, recordVars, IInv,
             TypeOK, Children
    <3>3. QED
      BY <1>2, <3>1, <3>2 DEF SendCont, recordVars, IInv, TypeOK
<2>2. NewsAgrees'
    BY <1>2
    DEF SendCont, recordVars, IInv, NewsAgrees, TypeOK, Children, Statuses
  <2>3. WillBeFound'
    BY <1>2
    DEF SendCont, recordVars, IInv, WillBeFound, AllSearched, TypeOK,
        Children, Statuses
  <2>4. WillBeResumed'
    BY <1>2
    DEF SendCont, recordVars, IInv, WillBeResumed, AllSearched, TypeOK,
        NewsAgrees, WillBeFound, Children, Statuses
  <2>5. Destroyed'
    BY <1>2
    DEF SendCont, recordVars, IInv, Destroyed, TypeOK, NewsAgrees, Children,
        Statuses
  <2>6. EndsForAReason'
    BY <1>2
    DEF SendCont, recordVars, IInv, EndsForAReason, TypeOK, NewsAgrees,
        Destroyed, Children, Statuses
  <2>7. QED
    BY <2>1, <2>2, <2>3, <2>4, <2>5, <2>6 DEF IInv
<1>3. ASSUME NEW c \in Children, NEW s \in Statuses, ChildDies(c, s)
      PROVE  IInv'
  BY <1>3
  DEF ChildDies, Becomes, recordVars, IInv, TypeOK, NewsAgrees, WillBeFound,
      WillBeResumed, AllSearched, Destroyed, EndsForAReason, Children, Statuses
<1>4. ASSUME NEW c \in Children, ChildStops(c)
      PROVE  IInv'
  BY <1>4
  DEF ChildStops, Becomes, recordVars, IInv, TypeOK, NewsAgrees, WillBeFound,
      WillBeResumed, AllSearched, Destroyed, EndsForAReason, Children, Statuses
<1>5. ASSUME NEW c \in Children, ChildContinues(c)
      PROVE  IInv'
  BY <1>5
  DEF ChildContinues, Becomes, recordVars, IInv, TypeOK, NewsAgrees,
      WillBeFound, WillBeResumed, AllSearched, Destroyed, EndsForAReason,
      Children, Statuses
<1>6. QED
  BY <1>1, <1>2, <1>3, <1>4, <1>5 DEF Environment

\* A step of the process.
LEMMA ProcessIInv == IInv /\ Process => IInv'
<1> SUFFICES ASSUME IInv, Process PROVE IInv'
  OBVIOUS
<1> USE NAssumption, BoundsAssumption
<1>1. CASE HandleTerm
  BY <1>1
  DEF HandleTerm, Polls, recordVars, IInv, TypeOK, NewsAgrees, WillBeFound,
      WillBeResumed, AllSearched, Destroyed, EndsForAReason, Children, Statuses
<1>2. CASE HandleChld
  BY <1>2
  DEF HandleChld, Polls, recordVars, IInv, TypeOK, NewsAgrees, WillBeFound,
      WillBeResumed, AllSearched, Destroyed, EndsForAReason, Children, Statuses
<1>3. CASE HandleCont
  BY <1>3
  DEF HandleCont, Polls, Resumed, Becomes, recordVars, IInv, TypeOK,
      NewsAgrees, WillBeFound, WillBeResumed, AllSearched, Destroyed,
      EndsForAReason, Children, Statuses
<1>4. CASE SearchPasses
  BY <1>4
  DEF SearchPasses, Searches, Waitable, NextChild, kernelVars,
      recordVars, IInv, TypeOK, NewsAgrees, WillBeFound, WillBeResumed,
      AllSearched, Destroyed, EndsForAReason, Children, Statuses
<1>5. CASE SearchStopped
  <2>1. TypeOK'
    <3>1. pending' \subseteq {"TERM", "CHLD", "CONT"}
      BY <1>5 DEF SearchStopped, Searches, Waitable, Waits,
             NextChild, IInv, TypeOK
    <3>2. stops' \in 0..MaxStops /\ conts' \in 0..MaxConts /\ at' \in Children
      BY <1>5 DEF SearchStopped, Searches, Waitable, Waits,
             NextChild, IInv, TypeOK, Children
    <3>3. QED
      BY <1>5, <3>1, <3>2 DEF SearchStopped, Searches, Waitable, Waits,
             NextChild, IInv, TypeOK
<2>2. NewsAgrees'
    BY <1>5
    DEF SearchStopped, Searches, Waitable, Waits, NextChild, IInv, NewsAgrees,
        TypeOK, Children, Statuses
  <2>3. WillBeFound'
    BY <1>5
    DEF SearchStopped, Searches, Waitable, Waits, NextChild, IInv,
        WillBeFound, AllSearched, TypeOK, Children, Statuses
  <2>4. WillBeResumed'
    BY <1>5
    DEF SearchStopped, Searches, Waitable, Waits, NextChild, IInv,
        WillBeResumed, AllSearched, TypeOK, NewsAgrees, WillBeFound, Children,
        Statuses
  <2>5. Destroyed'
    BY <1>5
    DEF SearchStopped, Searches, Waitable, Waits, NextChild, IInv, Destroyed,
        TypeOK, NewsAgrees, Children, Statuses
  <2>6. EndsForAReason'
    BY <1>5
    DEF SearchStopped, Searches, Waitable, Waits, NextChild, IInv,
        EndsForAReason, TypeOK, NewsAgrees, Destroyed, Children, Statuses
  <2>7. QED
    BY <2>1, <2>2, <2>3, <2>4, <2>5, <2>6 DEF IInv
<1>6. CASE SearchTerminated
  <2>1. TypeOK'
    BY <1>6
    DEF SearchTerminated, Searches, Waitable, Waits, IInv, TypeOK, Children,
        Statuses
  <2>2. NewsAgrees'
    BY <1>6
    DEF SearchTerminated, Searches, Waitable, Waits, IInv, NewsAgrees, TypeOK,
        Children, Statuses
  <2>3. WillBeFound'
    BY <1>6
    DEF SearchTerminated, Searches, Waitable, Waits, IInv, WillBeFound,
        AllSearched, TypeOK, Children, Statuses
  <2>4. WillBeResumed'
    BY <1>6
    DEF SearchTerminated, Searches, Waitable, Waits, IInv, WillBeResumed,
        AllSearched, TypeOK, NewsAgrees, WillBeFound, Children, Statuses
  <2>5. Destroyed'
    BY <1>6
    DEF SearchTerminated, Searches, Waitable, Waits, IInv, Destroyed, TypeOK,
        NewsAgrees, Children, Statuses
  <2>6. EndsForAReason'
    BY <1>6
    DEF SearchTerminated, Searches, Waitable, Waits, IInv, EndsForAReason,
        TypeOK, NewsAgrees, Destroyed, Children, Statuses
  <2>7. QED
    BY <2>1, <2>2, <2>3, <2>4, <2>5, <2>6 DEF IInv
<1>7. CASE DestroyNext
  BY <1>7
  DEF DestroyNext, NextDestroyed, kernelVars, recordVars, IInv, TypeOK,
      NewsAgrees, WillBeFound, WillBeResumed, AllSearched, Destroyed,
      EndsForAReason, Children, Statuses
<1>8. CASE DestroySignal
  <2>1. TypeOK'
    <3>1. pending' \subseteq {"TERM", "CHLD", "CONT"}
      BY <1>8 DEF DestroySignal, Resumed, Becomes, recordVars, IInv, TypeOK
    <3>2. stops' \in 0..MaxStops /\ conts' \in 0..MaxConts /\ at' \in Children
      BY <1>8 DEF DestroySignal, Resumed, Becomes, recordVars, IInv,
             TypeOK, Children
    <3>3. QED
      BY <1>8, <3>1, <3>2 DEF DestroySignal, Resumed, Becomes, recordVars,
             IInv, TypeOK
<2>2. NewsAgrees'
    BY <1>8
    DEF DestroySignal, Resumed, Becomes, recordVars, IInv, NewsAgrees, TypeOK,
        Children, Statuses
  <2>3. WillBeFound'
    BY <1>8
    DEF DestroySignal, Resumed, Becomes, recordVars, IInv, WillBeFound,
        AllSearched, TypeOK, Children, Statuses
  <2>4. WillBeResumed'
    BY <1>8
    DEF DestroySignal, Resumed, Becomes, recordVars, IInv, WillBeResumed,
        AllSearched, TypeOK, NewsAgrees, WillBeFound, Children, Statuses
  <2>5. Destroyed'
    BY <1>8
    DEF DestroySignal, Resumed, Becomes, recordVars, IInv, Destroyed, TypeOK,
        NewsAgrees, Children, Statuses
  <2>6. EndsForAReason'
    BY <1>8
    DEF DestroySignal, Resumed, Becomes, recordVars, IInv, EndsForAReason,
        TypeOK, NewsAgrees, Destroyed, Children, Statuses
  <2>7. QED
    BY <2>1, <2>2, <2>3, <2>4, <2>5, <2>6 DEF IInv
<1>9. CASE DestroyWait
  BY <1>9
  DEF DestroyWait, Waits, IInv, TypeOK, NewsAgrees, WillBeFound, WillBeResumed,
      AllSearched, Destroyed, EndsForAReason, Children, Statuses
<1>10. QED
  BY <1>1, <1>2, <1>3, <1>4, <1>5, <1>6, <1>7, <1>8, <1>9 DEF Process

\* No step of the process, its children or the kernel breaks the invariant.
LEMMA NextIInv == IInv /\ [Next]_vars => IInv'
<1> SUFFICES ASSUME IInv, [Next]_vars PROVE IInv'
  OBVIOUS
<1>1. CASE UNCHANGED vars
  BY <1>1
  DEF vars, kernelVars, recordVars, IInv, TypeOK, NewsAgrees, WillBeFound,
      WillBeResumed, AllSearched, Destroyed, EndsForAReason
<1>2. QED
  BY <1>1, EnvironmentIInv, ProcessIInv DEF Next

\* The invariant holds in every state of the loop.
LEMMA InvariantHolds == Spec => []IInv
BY InitIInv, NextIInv, PTL DEF Spec

\* Every reachable state is well typed.
THEOREM TypeCorrect == Spec => []TypeOK
<1>1. IInv => TypeOK
  BY DEF IInv
<1>2. QED
  BY <1>1, InvariantHolds, PTL

\* The search of handle_signal misses no change, and leaves no child stopped,
\* as long as no special child has left (event_loop.cc:44-79).
THEOREM NoneLeftBehind == Spec => []LeavesNoneBehind
<1>1. IInv => LeavesNoneBehind
  BY DEF IInv, TypeOK, NewsAgrees, WillBeFound, WillBeResumed, AllSearched,
         LeavesNoneBehind
<1>2. QED
  BY <1>1, InvariantHolds, PTL

\* The loop ends for one of the reasons of event_loop.cc:62-72 and 81-88.
THEOREM LoopEndsForAReason == Spec => []EndsForAReason
<1>1. IInv => EndsForAReason
  BY DEF IInv
<1>2. QED
  BY <1>1, InvariantHolds, PTL

\* The destructors leave no child behind (child_process.cc:148-161).
THEOREM ChildrenDieFirst == Spec => []NoChildOutlives
<1>1. IInv => NoChildOutlives
  BY DEF IInv, NewsAgrees, Destroyed, NoChildOutlives
<1>2. QED
  BY <1>1, InvariantHolds, PTL
=============================================================================
