---------------------------- MODULE ApiWaitProofs ----------------------------
(***************************************************************************)
(* Theorems about Coordinator.wait(), for any number of waits beside any   *)
(* number of sessions and shutdown() calls.                                *)
(***************************************************************************)
EXTENDS ApiWait, SessionOrderProofs

-----------------------------------------------------------------------------
(* The waits see the service that SessionService describes.                *)

\* A wait takes no part in the service.
LEMMA ServiceMoves == WaitNext => [Next]_vars
BY DEF WaitNext, ServiceStep, WaitSteps, BeginWait, LookAgain, Poll,
       WaitRaises

\* So whatever holds of the service holds beside its waits.
LEMMA ServiceBesideWaits == WaitSpec => Spec
<1>1. [WaitNext]_allVars => [Next]_vars
  BY ServiceMoves DEF allVars
<1> QED  BY <1>1, PTL DEF WaitSpec, Spec

-----------------------------------------------------------------------------
(* The invariant of the waits: a wait under way watches a session that      *)
(* exists, for a turn that was asked for, and sleeps only while it is live. *)

Underway(w) == wait[w] \in {"asleep", "awake"}

WatchesSession ==
    \A w \in Waiters :
        Underway(w) => /\ asked[w].thread \in Threads
                       /\ state[asked[w].thread] # "none"
                       /\ asked[w].turn \in Turns
                       /\ asked[w].turn <= attempt[asked[w].thread]

\* A thread has a session once it has asked for a turn.
HasAsked == \A t \in Threads : (state[t] = "none") <=> (attempt[t] = 0)

WaitInv ==
    /\ AllTypeOK
    /\ Registering
    /\ HasAsked
    /\ WatchesSession
    /\ NoWaitSleeps

\* A session stays, and its attempts only grow.
LEMMA SessionsStay ==
    ASSUME TypeOK, Registering, HasAsked, [Next]_vars, NEW t \in Threads
    PROVE  /\ attempt'[t] >= attempt[t]
           /\ state[t] # "none" => state'[t] # "none"
           /\ (state'[t] = "none") <=> (attempt'[t] = 0)
<1>1. /\ attempt[t] \in Nat /\ attempt'[t] \in Nat
      /\ (state[t] = "none") <=> (attempt[t] = 0)
  BY TypePreserved DEF TypeOK, HasAsked
<1>2. CASE RegisterSession(t)
  <2>1. state[t] = "none"  BY <1>2 DEF RegisterSession, Registering
  <2>2. attempt'[t] = 1 /\ state'[t] = "active"
    BY <1>2 DEF RegisterSession, TypeOK
  <2> QED  BY <1>1, <2>1, <2>2
<1>3. CASE FollowUp(t)
  BY <1>1, <1>3 DEF FollowUp, Resumable, TypeOK
<1>4. CASE ~RegisterSession(t) /\ ~FollowUp(t)
  BY <1>1, <1>4, AttemptsMove, SessionsMove
<1> QED  BY <1>2, <1>3, <1>4

\* A step that ends the life of a session emits an event.
LEMMA OutcomesEmit ==
    ASSUME TypeOK, Registering, [Next]_vars, ~Emits, NEW t \in Threads,
           state[t] \in Live
    PROVE  state'[t] \in Live
<1>1. CASE Quiet \/ EvidenceSaved
  BY <1>1 DEF Quiet, EvidenceSaved, session
<1>2. ASSUME NEW u \in Threads, RegisterSession(u) \/ FollowUp(u)
      PROVE  state'[t] \in Live
  BY <1>2 DEF RegisterSession, FollowUp, TypeOK, Live
<1>3. ~CompletionAccepted /\ ~ConnectionLost
  BY DEF Emits
<1>4. \A u \in Threads :
        /\ ~CancelSession(u)
        /\ \A n \in Turns : /\ ~TurnStarted(u, n) /\ ~TurnStartFailed(u, n)
                            /\ ~CancelUnconfirmed(u, n)
  BY DEF Emits, EmitsOf
<1>5. \A x \in Stoppers : /\ ~FinishIdleShutdown(x) /\ ~FinishShutdown(x)
                          /\ ~ShutdownTimesOut(x)
  BY DEF Emits
<1> QED  BY <1>1, <1>2, <1>3, <1>4, <1>5, LoudSteps

\* A look puts a wait to sleep only over a live session.
LEMMA LookSleeps ==
    ASSUME TypeOK, NEW w \in Waiters, NEW t \in Threads, state[t] # "none",
           wait \in [Waiters -> {"idle", "asleep", "awake", "told"}],
           Look(w, t)
    PROVE  /\ wait'[w] \in {"told", "asleep"}
           /\ wait'[w] = "asleep" => state[t] \in Live
           /\ wait' \in [Waiters -> {"idle", "asleep", "awake", "told"}]
           /\ \A v \in Waiters \ {w} : wait'[v] = wait[v]
BY DEF Look, TypeOK, States, Open, Live, Recognised, TERMINAL

\* What a step of the service leaves of the invariant.
LEMMA ServiceKeepsWaits ==
    ASSUME WaitInv, ServiceStep
    PROVE  WaitInv'
<1>1. Next /\ [Next]_vars /\ TypeOK /\ Registering /\ HasAsked
  BY DEF WaitInv, ServiceStep, AllTypeOK
<1>2. TypeOK'  BY <1>1, TypePreserved
<1>3. asked' = asked
  BY DEF ServiceStep
<1>4. \A w \in Waiters :
        wait'[w] = IF wait[w] = "asleep" /\ Emits THEN "awake" ELSE wait[w]
  BY DEF ServiceStep
<1>5. AllTypeOK'
  BY <1>2, <1>3 DEF ServiceStep, WaitInv, AllTypeOK
<1>6. Registering'  BY <1>1, RegisteringPreserved
<1>7. HasAsked'  BY <1>1, SessionsStay DEF HasAsked
<1>8. ASSUME NEW w \in Waiters, Underway(w)'
      PROVE  /\ asked'[w].thread \in Threads
             /\ state'[asked'[w].thread] # "none"
             /\ asked'[w].turn \in Turns
             /\ asked'[w].turn <= attempt'[asked'[w].thread]
  <2>1. Underway(w)  BY <1>4, <1>8 DEF Underway
  <2>2. /\ asked[w].thread \in Threads
        /\ state[asked[w].thread] # "none"
        /\ asked[w].turn \in Turns
        /\ asked[w].turn <= attempt[asked[w].thread]
    BY <2>1 DEF WaitInv, WatchesSession
  <2>3. /\ attempt'[asked[w].thread] >= attempt[asked[w].thread]
        /\ state'[asked[w].thread] # "none"
    BY <1>1, <2>2, SessionsStay
  <2>4. /\ attempt[asked[w].thread] \in Nat
        /\ attempt'[asked[w].thread] \in Nat
        /\ asked[w].turn \in Nat
    BY <1>1, <1>2, <2>2 DEF TypeOK, Turns
  <2> QED  BY <1>3, <2>2, <2>3, <2>4
<1>9. ASSUME NEW w \in Waiters, wait'[w] = "asleep"
      PROVE  state'[asked'[w].thread] \in Live
  <2>1. wait[w] = "asleep" /\ ~Emits  BY <1>4, <1>9
  <2>2. asked[w].thread \in Threads /\ state[asked[w].thread] \in Live
    BY <2>1 DEF WaitInv, WatchesSession, NoWaitSleeps, Underway
  <2> QED  BY <1>1, <1>3, <2>1, <2>2, OutcomesEmit
<1> QED
  BY <1>5, <1>6, <1>7, <1>8, <1>9
     DEF WaitInv, WatchesSession, NoWaitSleeps

\* What a step of a wait leaves of the invariant.
LEMMA WaitsKeepWaits ==
    ASSUME WaitInv, NEW w \in Waiters, WaitSteps(w)
    PROVE  WaitInv'
<1>1. /\ TypeOK /\ Registering /\ HasAsked
      /\ wait \in [Waiters -> {"idle", "asleep", "awake", "told"}]
      /\ asked \in [Waiters -> [thread: Threads, turn: Turns]
                               \cup {NobodyAsked}]
  BY DEF WaitInv, AllTypeOK
<1>2. UNCHANGED vars
  BY DEF WaitSteps, BeginWait, LookAgain, Poll, WaitRaises
<1>3. /\ state' = state /\ attempt' = attempt
      /\ TypeOK' /\ Registering' /\ HasAsked'
  <2>1. state' = state /\ attempt' = attempt  BY <1>2 DEF vars, session
  <2>2. TypeOK' /\ Registering'
    BY <1>1, <1>2, TypePreserved, RegisteringPreserved
  <2> QED  BY <1>1, <2>1, <2>2 DEF HasAsked
<1> DEFINE Good(v) ==
      /\ Underway(v) => /\ asked[v].thread \in Threads
                        /\ state[asked[v].thread] # "none"
                        /\ asked[v].turn \in Turns
                        /\ asked[v].turn <= attempt[asked[v].thread]
      /\ wait[v] = "asleep" => state[asked[v].thread] \in Live
<1>4. \A v \in Waiters : Good(v)
  BY DEF WaitInv, WatchesSession, NoWaitSleeps
<1>5. SUFFICES /\ wait' \in [Waiters -> {"idle", "asleep", "awake", "told"}]
               /\ asked' \in [Waiters -> [thread: Threads, turn: Turns]
                                         \cup {NobodyAsked}]
               /\ \A v \in Waiters : Good(v)'
  BY <1>3 DEF WaitInv, WatchesSession, NoWaitSleeps, AllTypeOK
<1>6. CASE BeginWait(w)
  <2>1. PICK t \in Registered :
          /\ Look(w, t)
          /\ asked' = [asked EXCEPT ![w] = [thread |-> t,
                                            turn |-> attempt[t]]]
    BY <1>6 DEF BeginWait
  <2>2. t \in Threads /\ state[t] # "none"  BY DEF Registered
  <2>3. attempt[t] \in Turns
    BY <1>1, <2>2 DEF HasAsked, TypeOK, Turns
  <2>4. [thread |-> t, turn |-> attempt[t]] \in [thread: Threads, turn: Turns]
    BY <2>2, <2>3
  <2>5. asked' \in [Waiters -> [thread: Threads, turn: Turns]
                               \cup {NobodyAsked}]
    BY <1>1, <2>1, <2>4
  <2>6. /\ wait'[w] = "asleep" => state[t] \in Live
        /\ wait' \in [Waiters -> {"idle", "asleep", "awake", "told"}]
        /\ \A v \in Waiters \ {w} : wait'[v] = wait[v]
    BY <1>1, <2>1, <2>2, LookSleeps
  <2>7. /\ asked'[w].thread = t /\ asked'[w].turn = attempt[t]
        /\ \A v \in Waiters \ {w} : asked'[v] = asked[v]
    BY <1>1, <2>1
  <2>8. attempt[t] <= attempt[t]  BY <2>3 DEF Turns
  <2>9. Good(w)'  BY <1>3, <2>2, <2>3, <2>6, <2>7, <2>8
  <2>10. \A v \in Waiters \ {w} : Good(v)'
    BY <1>3, <1>4, <2>6, <2>7 DEF Underway
  <2> QED  BY <2>5, <2>6, <2>9, <2>10
<1>7. CASE LookAgain(w)
  <2> DEFINE t == asked[w].thread
  <2>1. Look(w, t) /\ asked' = asked /\ Underway(w)
    BY <1>7 DEF LookAgain, Underway
  <2>2. t \in Threads /\ state[t] # "none"  BY <1>4, <2>1
  <2>3. /\ wait'[w] = "asleep" => state[t] \in Live
        /\ wait' \in [Waiters -> {"idle", "asleep", "awake", "told"}]
        /\ \A v \in Waiters \ {w} : wait'[v] = wait[v]
    BY <1>1, <2>1, <2>2, LookSleeps
  <2>4. Good(w)'  BY <1>3, <1>4, <2>1, <2>3
  <2>5. \A v \in Waiters \ {w} : Good(v)'
    BY <1>3, <1>4, <2>1, <2>3 DEF Underway
  <2> QED  BY <1>1, <2>1, <2>3, <2>4, <2>5
<1>8. CASE Poll(w)
  <2>1. /\ wait[w] = "asleep" /\ asked' = asked
        /\ wait' = [wait EXCEPT ![w] = "awake"]
    BY <1>8 DEF Poll
  <2> QED  BY <1>1, <1>3, <1>4, <2>1 DEF Underway
<1>9. CASE WaitRaises(w)
  <2>1. /\ wait' = [wait EXCEPT ![w] = "idle"]
        /\ asked' = [asked EXCEPT ![w] = NobodyAsked]
    BY <1>9 DEF WaitRaises
  <2> QED  BY <1>1, <1>3, <1>4, <2>1 DEF Underway
<1> QED  BY <1>6, <1>7, <1>8, <1>9 DEF WaitSteps

\* The waits keep watching live sessions.
LEMMA WaitInvHolds == WaitSpec => []WaitInv
<1>1. Init /\ WaitInit => WaitInv
  <2> SUFFICES ASSUME Init, WaitInit PROVE WaitInv  OBVIOUS
  <2>1. \A t \in Threads, n \in Turns : TurnStart(t, n) \in Calls
    BY CallTypes
  <2>2. Registering /\ HasAsked  BY <2>1 DEF Init, Registering, HasAsked
  <2> QED
    BY <2>2, TypeInitially DEF WaitInit, WaitInv, AllTypeOK, WatchesSession,
       NoWaitSleeps, Underway
<1>2. WaitInv /\ [WaitNext]_allVars => WaitInv'
  <2> SUFFICES ASSUME WaitInv, [WaitNext]_allVars PROVE WaitInv'  OBVIOUS
  <2>1. CASE WaitNext
    BY <2>1, ServiceKeepsWaits, WaitsKeepWaits DEF WaitNext
  <2>2. CASE UNCHANGED allVars
    <3>1. UNCHANGED <<vars, wait, asked>>
      BY <2>2 DEF allVars, waits
    <3>2. TypeOK' /\ Registering'
      BY <3>1, TypePreserved, RegisteringPreserved DEF WaitInv, AllTypeOK
    <3> QED
      BY <3>1, <3>2 DEF vars, session, WaitInv, AllTypeOK, HasAsked,
         WatchesSession, NoWaitSleeps, Underway
  <2> QED  BY <2>1, <2>2
<1> QED  BY <1>1, <1>2, PTL DEF WaitSpec

-----------------------------------------------------------------------------
\* The variables of the service and of its waits have their types.
THEOREM AllTypesCorrect == WaitSpec => []AllTypeOK
<1>1. WaitInv => AllTypeOK  BY DEF WaitInv
<1> QED  BY <1>1, WaitInvHolds, PTL

\* No wait sleeps over a session that has an outcome, however many sessions
\* and waits there are and whatever ends the session.
THEOREM WaitsAreWoken == WaitSpec => []NoWaitSleeps
<1>1. WaitInv => NoWaitSleeps  BY DEF WaitInv
<1> QED  BY <1>1, WaitInvHolds, PTL

\* A wait that returns completed or interrupted tells of a turn that has
\* ended, and of none older than the one it was called for.
THEOREM WaitsTellTheTruth ==
    ASSUME FewRepeats
    PROVE  WaitSpec => WaitTellsOutcome
<1> DEFINE Told(w) == LET t == asked'[w].thread
                      IN  wait[w] # wait'[w] /\ wait'[w] = "told"
                            /\ state[t] \in {"completed", "interrupted"}
                          => \E n \in Turns : /\ n = attempt[t]
                                              /\ n >= asked'[w].turn
                                              /\ turnStatus[t][n] = "ended"
           A == \A w \in Waiters : Told(w)
<1>1. OrderInv /\ WaitInv /\ [WaitNext]_allVars => [A]_allVars
  <2> SUFFICES ASSUME OrderInv, WaitInv, WaitNext, NEW w \in Waiters,
                      wait[w] # wait'[w], wait'[w] = "told",
                      state[asked'[w].thread] \in {"completed", "interrupted"}
               PROVE  \E n \in Turns :
                         /\ n = attempt[asked'[w].thread]
                         /\ n >= asked'[w].turn
                         /\ turnStatus[asked'[w].thread][n] = "ended"
    OBVIOUS
  <2> DEFINE t == asked'[w].thread
  <2>1. /\ TypeOK /\ HasAsked
        /\ wait \in [Waiters -> {"idle", "asleep", "awake", "told"}]
        /\ asked \in [Waiters -> [thread: Threads, turn: Turns]
                                 \cup {NobodyAsked}]
    BY DEF WaitInv, AllTypeOK
  <2>2. ~ServiceStep
    BY DEF ServiceStep
  <2>3. PICK v \in Waiters : WaitSteps(v)
    BY <2>2 DEF WaitNext
  <2>4. /\ t \in Threads
        /\ asked'[w].turn \in Nat
        /\ asked'[w].turn <= attempt[t]
    <3>1. CASE BeginWait(v)
      <4>1. PICK u \in Registered :
              /\ Look(v, u)
              /\ asked' = [asked EXCEPT ![v] = [thread |-> u,
                                                turn |-> attempt[u]]]
        BY <3>1 DEF BeginWait
      <4>2. v = w  BY <2>1, <4>1 DEF Look
      <4>3. asked'[w] = [thread |-> u, turn |-> attempt[u]]
        BY <2>1, <4>1, <4>2
      <4>4. u \in Threads /\ attempt[u] \in Nat
        BY <2>1 DEF Registered, TypeOK
      <4> QED  BY <4>3, <4>4
    <3>2. CASE LookAgain(v)
      <4>1. v = w  BY <2>1, <3>2 DEF LookAgain, Look
      <4>2. asked' = asked /\ wait[w] = "awake"
        BY <3>2, <4>1 DEF LookAgain
      <4>3. asked[w] \in [thread: Threads, turn: Turns]
        BY <2>1, <4>2 DEF WaitInv, WatchesSession, Underway, NobodyAsked
      <4> QED  BY <4>2, <4>3 DEF WaitInv, WatchesSession, Underway, Turns
    <3>3. CASE Poll(v)  BY <2>1, <3>3 DEF Poll
    <3>4. CASE WaitRaises(v)  BY <2>1, <3>4 DEF WaitRaises
    <3> QED  BY <2>3, <3>1, <3>2, <3>3, <3>4 DEF WaitSteps
  <2>5. attempt[t] \in Turns
    BY <2>1, <2>4 DEF HasAsked, TypeOK, Turns
  <2>6. turnStatus[t][attempt[t]] = "ended"
    BY <2>4 DEF OrderInv, LastDoneInOrder
  <2> HIDE DEF t
  <2> QED  BY <2>4, <2>5, <2>6 DEF t
<1> QED
  BY <1>1, WaitInvHolds, ServiceBesideWaits, OrderInvHolds, PTL
     DEF WaitSpec, WaitTellsOutcome
=============================================================================
