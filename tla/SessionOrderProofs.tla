-------------------------- MODULE SessionOrderProofs --------------------------
(***************************************************************************)
(* Theorems about the order of a session's turns, their completions and    *)
(* their outcomes, and that SessionService implements Lifecycle.  Those    *)
(* about the order assume FewRepeats of the app-server.                    *)
(***************************************************************************)
EXTENDS SessionServiceProofs

-----------------------------------------------------------------------------
(* The invariant of the starts.  If clients are patient, the turn/start     *)
(* calls of a thread are made one after another, each once the last has     *)
(* returned, so that only the newest is ever open and only its id is ever   *)
(* recorded.                                                               *)

OpenCall == {"waiting", "ok", "error"}

StartsInOrder ==
    \A t \in Threads, n \in Turns :
        /\ n < attempt[t] => future[TurnStart(t, n)] = "done"
        /\ n > attempt[t] => future[TurnStart(t, n)] = "idle"

\* The newest turn/start of t has returned.
Begun(t) == \A n \in Turns : n = attempt[t] => future[TurnStart(t, n)] = "done"

TurnIsNewest ==
    \A t \in Threads :
        /\ turn[t] \in {NoTurn, attempt[t]}
        /\ turn[t] # NoTurn \/ state[t] \in {"cancelling", "cancelled"}
              => Begun(t)

\* A session, and no thread without one, has asked for a turn.
SessionsAsk == \A t \in Threads : (state[t] = "none") <=> (attempt[t] = 0)

\* The approvals close with the loss of the connection or the stop.
OpenWhileServing == connected /\ ~stopping => ~closed

LifeInv ==
    /\ TypeOK
    /\ Registering
    /\ Phases
    /\ OpenWhileServing
    /\ SessionsAsk
    /\ ~Impatient => StartsInOrder /\ TurnIsNewest

-----------------------------------------------------------------------------
(* How the starts move.                                                    *)

\* The steps that move a turn/start from idle, or to done.
StartMoves(t, n) ==
    \/ future'[TurnStart(t, n)] = future[TurnStart(t, n)]
    \/ /\ future[TurnStart(t, n)] \in OpenCall
       /\ future'[TurnStart(t, n)] \in OpenCall
    \/ RegisterSession(t) /\ n = 1
    \/ FollowUp(t) /\ n = attempt[t] + 1
    \/ TurnStarted(t, n)
    \/ TurnStartFailed(t, n)

\* The handlers of one session leave the turn/start calls of the others alone.
LEMMA HandlersMoveStarts ==
    ASSUME TypeOK, NEW t \in Threads, NEW n \in Turns, NEW u \in Threads,
           Handlers(u) \/ Continuations(u)
    PROVE  StartMoves(t, n)
<1>0. TurnStart(t, n) \in Calls  BY CallTypes
<1>1. CASE BeginStart(u)
  BY <1>0, <1>1, CallsDiffer DEF BeginStart, Issue, StartMoves
<1>2. CASE FollowUp(u)
  <2>1. attempt[u] + 1 \in Turns
    BY <1>2, MaxTurnsAssumption DEF FollowUp, TypeOK, Turns
  <2>2. \/ TurnStart(t, n) # TurnStart(u, attempt[u] + 1)
        \/ t = u /\ n = attempt[t] + 1
    BY <2>1, CallsDiffer
  <2> QED  BY <1>0, <1>2, <2>2 DEF FollowUp, Issue, StartMoves
<1>3. CASE CancelSession(u)
  <2>1. turn[u] \in Turns  BY <1>3 DEF CancelSession, TypeOK
  <2>2. TurnStart(t, n) # Interrupt(u, turn[u], "client")
    BY <2>1, CallsDiffer
  <2> QED  BY <1>0, <1>3, <2>2 DEF CancelSession, Issue, StartMoves
<1>4. CASE RegisterSession(u)
  <2>1. 1 \in Turns  BY MaxTurnsAssumption DEF Turns
  <2>2. TurnStart(t, n) # TurnStart(u, 1) \/ (t = u /\ n = 1)
    BY <2>1, CallsDiffer
  <2>3. TurnStart(t, n) # ThreadStart(u)  BY CallsDiffer
  <2> QED
    BY <1>0, <1>4, <2>2, <2>3 DEF RegisterSession, StartMoves, TypeOK
<1>5. CASE StartRejected(u)
  <2>1. TurnStart(t, n) # ThreadStart(u)  BY CallsDiffer
  <2> QED  BY <1>0, <1>5, <2>1 DEF StartRejected, Return, StartMoves, TypeOK
<1>6. ASSUME NEW m \in Turns, TurnStarted(u, m) \/ TurnStartFailed(u, m)
      PROVE  StartMoves(t, n)
  <2>1. TurnStart(t, n) # TurnStart(u, m) \/ (t = u /\ n = m)
    BY CallsDiffer
  <2> QED
    BY <1>0, <1>6, <2>1 DEF TurnStarted, TurnStartFailed, Return, StartMoves,
                            TypeOK
<1>7. ASSUME NEW m \in Turns, CancelConfirmed(u, m) \/ CancelUnconfirmed(u, m)
      PROVE  StartMoves(t, n)
  <2>1. TurnStart(t, n) # Interrupt(u, m, "client")  BY CallsDiffer
  <2> QED
    BY <1>0, <1>7, <2>1 DEF CancelConfirmed, CancelUnconfirmed, Return,
                            StartMoves, TypeOK
<1> QED
  BY <1>1, <1>2, <1>3, <1>4, <1>5, <1>6, <1>7 DEF Handlers, Continuations

\* What shutdown(), the reader and the app-server do to a turn/start in
\* progress leaves it in progress.
LEMMA OthersMoveStarts ==
    ASSUME TypeOK, [Next]_vars, NEW t \in Threads, NEW n \in Turns,
           \A u \in Threads : ~Handlers(u) /\ ~Continuations(u)
    PROVE  \/ future'[TurnStart(t, n)] = future[TurnStart(t, n)]
           \/ /\ future[TurnStart(t, n)] \in OpenCall
              /\ future'[TurnStart(t, n)] \in OpenCall
<1> DEFINE Kept == \/ future'[TurnStart(t, n)] = future[TurnStart(t, n)]
                   \/ /\ future[TurnStart(t, n)] \in OpenCall
                      /\ future'[TurnStart(t, n)] \in OpenCall
<1>0. TurnStart(t, n) \in Calls  BY CallTypes
<1>1. ASSUME NEW x \in Stoppers, AnnounceShutdown(x) \/ ShutdownProceeds(x)
      PROVE  Kept
  <2>1. CASE InterruptActive(x)
    BY <1>0, <2>1, CallsDiffer
       DEF InterruptActive, Issue, Interruptible, TypeOK
  <2>2. CASE \/ FinishIdleShutdown(x) \/ FinishShutdown(x)
             \/ ShutdownTimesOut(x)
    BY <1>0, <2>2 DEF FinishIdleShutdown, FinishShutdown, ShutdownTimesOut,
                      Settle, TurnStart, Call
  <2>3. CASE AnnounceShutdown(x) \/ StopNewWork(x)
    BY <2>3 DEF AnnounceShutdown, StopNewWork, wire
  <2> QED  BY <1>1, <2>1, <2>2, <2>3 DEF ShutdownProceeds
<1>2. CASE DispatchResponse
  <2>1. Head(inbox) \in Responses
    BY <1>2, InboxTypes DEF DispatchResponse, TypeOK, Completions, Responses
  <2>2. Head(inbox).result \in {"ok", "error"}
    BY <2>1 DEF Responses
  <2> QED  BY <1>0, <1>2, <2>2 DEF DispatchResponse, TypeOK, OpenCall
<1>3. CASE CompletionIgnored \/ CompletionAccepted
  BY <1>3 DEF CompletionIgnored, CompletionAccepted
<1>4. CASE ConnectionLost \/ ClientClosed
  BY <1>0, <1>4 DEF ConnectionLost, ClientClosed, Sever, OpenCall
<1>5. ASSUME NEW c \in Calls, CallFails(c) \/ ServerRejects(c)
      PROVE  Kept
  BY <1>0, <1>5 DEF CallFails, ServerRejects, Answer, TypeOK, OpenCall
<1>6. ASSUME NEW u \in Threads, ServerTurns(u)
      PROVE  Kept
  BY <1>6 DEF ServerTurns, ServerStartsThread, ServerStartsTurn,
              ServerInterrupts, Answer, TurnEnds, Redeliver
<1>7. CASE EvidenceSaved \/ UNCHANGED vars
  BY <1>7 DEF EvidenceSaved, vars, wire
<1> QED
  BY <1>1, <1>2, <1>3, <1>4, <1>5, <1>6, <1>7 DEF Next, Dispatch

\* So no other step moves a turn/start from idle, or to done.
LEMMA StartsMoveInOrder ==
    ASSUME TypeOK, [Next]_vars, NEW t \in Threads, NEW n \in Turns
    PROVE  StartMoves(t, n)
<1>1. CASE \E u \in Threads : Handlers(u) \/ Continuations(u)
  BY <1>1, HandlersMoveStarts
<1>2. CASE \A u \in Threads : ~Handlers(u) /\ ~Continuations(u)
  BY <1>2, OthersMoveStarts DEF StartMoves
<1> QED  BY <1>1, <1>2

\* A session's attempt moves with its registration and its follow-ups only.
LEMMA AttemptsMove ==
    ASSUME TypeOK, [Next]_vars, NEW t \in Threads
    PROVE  \/ attempt'[t] = attempt[t]
           \/ RegisterSession(t) \/ FollowUp(t)
<1>1. CASE Quiet \/ EvidenceSaved
  BY <1>1 DEF Quiet, EvidenceSaved, session
<1>2. CASE ConnectionLost \/ CompletionAccepted
  BY <1>2 DEF ConnectionLost, CompletionAccepted
<1>3. ASSUME NEW u \in Threads,
             RegisterSession(u) \/ FollowUp(u) \/ CancelSession(u)
      PROVE  \/ attempt'[t] = attempt[t]
             \/ RegisterSession(t) \/ FollowUp(t)
  BY <1>3 DEF RegisterSession, FollowUp, CancelSession, TypeOK
<1>4. ASSUME NEW u \in Threads, NEW n \in Turns,
             \/ TurnStarted(u, n) \/ TurnStartFailed(u, n)
             \/ CancelUnconfirmed(u, n)
      PROVE  attempt' = attempt
  BY <1>4 DEF TurnStarted, TurnStartFailed, CancelUnconfirmed
<1>5. ASSUME NEW x \in Stoppers,
             \/ FinishIdleShutdown(x) \/ FinishShutdown(x)
             \/ ShutdownTimesOut(x)
      PROVE  attempt' = attempt
  BY <1>5 DEF FinishIdleShutdown, FinishShutdown, ShutdownTimesOut, Settle
<1> QED  BY <1>1, <1>2, <1>3, <1>4, <1>5, LoudSteps
-----------------------------------------------------------------------------
(* The invariant of the starts is one.                                     *)

\* A registration makes the first attempt of a thread that had no session.
LEMMA RegistersFirst ==
    ASSUME LifeInv, NEW t \in Threads, RegisterSession(t)
    PROVE  /\ state[t] = "none" /\ attempt[t] = 0 /\ turn[t] = NoTurn
           /\ state'[t] = "active" /\ attempt'[t] = 1 /\ turn'[t] = NoTurn
           /\ 1 \in Turns
           /\ \A n \in Turns : /\ future[TurnStart(t, n)] = "idle"
                               /\ n # 1 => future'[TurnStart(t, n)] = "idle"
           /\ future'[TurnStart(t, 1)] = "waiting"
<1>1. 1 \in Turns  BY MaxTurnsAssumption DEF Turns
<1>2. state[t] = "none"
  BY DEF RegisterSession, LifeInv, Registering
<1>3. /\ attempt[t] = 0
      /\ turn[t] = NoTurn
      /\ \A n \in Turns : future[TurnStart(t, n)] = "idle"
  BY <1>2 DEF LifeInv, SessionsAsk, Registering
<1>4. /\ state'[t] = "active" /\ attempt'[t] = 1 /\ turn'[t] = NoTurn
  BY <1>3 DEF RegisterSession, LifeInv, TypeOK
<1>5. /\ \A n \in Turns : n # 1 => future'[TurnStart(t, n)]
                                     = future[TurnStart(t, n)]
      /\ future'[TurnStart(t, 1)] = "waiting"
  BY <1>1, CallTypes, CallsDiffer DEF RegisterSession, LifeInv, TypeOK
<1> QED  BY <1>1, <1>2, <1>3, <1>4, <1>5

\* A follow-up makes the next attempt, a patient one once the starts are over.
LEMMA FollowsNewest ==
    ASSUME LifeInv, NEW t \in Threads, FollowUp(t)
    PROVE  /\ state[t] = "completed" /\ attempt[t] \in Turns
           /\ state'[t] = "active" /\ attempt'[t] = attempt[t] + 1
           /\ turn'[t] = NoTurn
           /\ attempt[t] + 1 \in Turns
           /\ Impatient \/ future[TurnStart(t, attempt[t])] = "done"
           /\ \A n \in Turns : n # attempt[t] + 1 =>
                future'[TurnStart(t, n)] = future[TurnStart(t, n)]
           /\ future'[TurnStart(t, attempt[t] + 1)] \in OpenCall
<1>1. state[t] = "completed" /\ attempt[t] < MaxTurns
  BY DEF FollowUp, Resumable
<1>2. attempt[t] \in Turns /\ attempt[t] + 1 \in Turns
  BY <1>1, MaxTurnsAssumption DEF LifeInv, SessionsAsk, TypeOK, Turns
<1>3. /\ state'[t] = "active" /\ attempt'[t] = attempt[t] + 1
      /\ turn'[t] = NoTurn
      /\ Impatient \/ future[TurnStart(t, attempt[t])] = "done"
  BY DEF FollowUp, LifeInv, TypeOK
<1>4. Issue({TurnStart(t, attempt[t] + 1)})  BY DEF FollowUp
<1>5. \A n \in Turns : n # attempt[t] + 1 =>
        future'[TurnStart(t, n)] = future[TurnStart(t, n)]
  BY <1>2, <1>4, CallTypes, CallsDiffer DEF Issue
<1>6. future'[TurnStart(t, attempt[t] + 1)] \in OpenCall
  BY <1>2, <1>4, CallTypes DEF Issue, OpenCall
<1> QED  BY <1>1, <1>2, <1>3, <1>5, <1>6

\* A turn/start that returns is the newest of its thread, if none is impatient.
LEMMA NewestReturns ==
    ASSUME ~Impatient, LifeInv, NEW t \in Threads, NEW n \in Turns,
           TurnStarted(t, n) \/ TurnStartFailed(t, n)
    PROVE  /\ n = attempt[t]
           /\ future[TurnStart(t, n)] \in OpenCall
           /\ future'[TurnStart(t, n)] = "done"
<1>1. future[TurnStart(t, n)] \in {"ok", "error"}
  BY DEF TurnStarted, TurnStartFailed
<1>2. n = attempt[t]
  <2>1. n \in Nat /\ attempt[t] \in Nat  BY DEF LifeInv, TypeOK, Turns
  <2>2. ~(n < attempt[t]) /\ ~(n > attempt[t])
    BY <1>1 DEF LifeInv, StartsInOrder
  <2> QED  BY <2>1, <2>2
<1>3. future'[TurnStart(t, n)] = "done"
  BY CallTypes DEF TurnStarted, TurnStartFailed, Return, LifeInv, TypeOK
<1> QED  BY <1>1, <1>2, <1>3 DEF OpenCall

\* The starts of a thread are made in order.
LEMMA OrderOfStarts ==
    ASSUME ~Impatient, LifeInv, [Next]_vars
    PROVE  StartsInOrder'
<1> SUFFICES ASSUME NEW t \in Threads, NEW n \in Turns
             PROVE  /\ n < attempt'[t] => future'[TurnStart(t, n)] = "done"
                    /\ n > attempt'[t] => future'[TurnStart(t, n)] = "idle"
  BY DEF StartsInOrder, TurnStart, Call
<1>1. /\ attempt[t] \in 0..MaxTurns
      /\ n < attempt[t] => future[TurnStart(t, n)] = "done"
      /\ n > attempt[t] => future[TurnStart(t, n)] = "idle"
  BY DEF LifeInv, StartsInOrder, TypeOK
<1>2. CASE RegisterSession(t)
  BY <1>2, RegistersFirst DEF Turns
<1>3. CASE FollowUp(t)
  BY <1>1, <1>3, FollowsNewest DEF Turns
<1>4. CASE TurnStarted(t, n) \/ TurnStartFailed(t, n)
  <2>1. attempt'[t] = attempt[t] /\ n = attempt[t]
    BY <1>4, NewestReturns DEF TurnStarted, TurnStartFailed
  <2> QED  BY <2>1 DEF Turns
<1>5. CASE /\ ~RegisterSession(t) /\ ~FollowUp(t)
           /\ ~TurnStarted(t, n) /\ ~TurnStartFailed(t, n)
  <2>1. attempt'[t] = attempt[t]
    BY <1>5, AttemptsMove DEF LifeInv
  <2>2. \/ future'[TurnStart(t, n)] = future[TurnStart(t, n)]
        \/ future[TurnStart(t, n)] \in OpenCall
    BY <1>5, StartsMoveInOrder DEF LifeInv, StartMoves
  <2> QED  BY <1>1, <2>1, <2>2 DEF OpenCall
<1> QED  BY <1>2, <1>3, <1>4, <1>5

\* A start that has returned stays so until the next attempt.
LEMMA BegunStays ==
    ASSUME ~Impatient, LifeInv, [Next]_vars, NEW t \in Threads, Begun(t),
           attempt'[t] = attempt[t]
    PROVE  Begun(t)'
<1> SUFFICES ASSUME NEW n \in Turns, n = attempt[t]
             PROVE  future'[TurnStart(t, n)] = "done"
  BY DEF Begun, TurnStart, Call
<1>1. future[TurnStart(t, n)] = "done"  BY DEF Begun
<1>2. ~RegisterSession(t)
  BY RegistersFirst DEF Turns
<1>3. n # attempt[t] + 1  BY DEF Turns
<1>4. CASE TurnStarted(t, n) \/ TurnStartFailed(t, n)
  BY <1>4, NewestReturns
<1>5. CASE ~TurnStarted(t, n) /\ ~TurnStartFailed(t, n)
  <2>1. \/ future'[TurnStart(t, n)] = future[TurnStart(t, n)]
        \/ future[TurnStart(t, n)] \in OpenCall
    BY <1>2, <1>3, <1>5, StartsMoveInOrder DEF LifeInv, StartMoves
  <2> QED  BY <1>1, <2>1 DEF OpenCall
<1> QED  BY <1>4, <1>5

\* The newest start is the one whose id the session may have.
LEMMA TurnStaysNewest ==
    ASSUME ~Impatient, LifeInv, [Next]_vars
    PROVE  TurnIsNewest'
<1> DEFINE Newest(t) ==
             /\ turn[t] \in {NoTurn, attempt[t]}
             /\ turn[t] # NoTurn \/ state[t] \in {"cancelling", "cancelled"}
                  => Begun(t)
<1> SUFFICES ASSUME NEW t \in Threads PROVE Newest(t)'
  BY DEF TurnIsNewest
<1>0. Newest(t) /\ TypeOK  BY DEF LifeInv, TurnIsNewest
<1>1. CASE RegisterSession(t)
  BY <1>1, RegistersFirst
<1>2. CASE FollowUp(t)
  BY <1>2, FollowsNewest DEF Turns
<1>3. ASSUME attempt'[t] = attempt[t],
             turn'[t] \in {NoTurn, turn[t]},
             state'[t] \in {"cancelling", "cancelled"} =>
               turn[t] # NoTurn \/ state[t] \in {"cancelling", "cancelled"}
      PROVE  Newest(t)'
  BY <1>0, <1>3, BegunStays
<1>4. CASE ~RegisterSession(t) /\ ~FollowUp(t)
  <2>1. attempt'[t] = attempt[t]  BY <1>0, <1>4, AttemptsMove
  <2>3. CASE Quiet \/ EvidenceSaved
    BY <1>3, <2>1, <2>3 DEF Quiet, EvidenceSaved, session
  <2>4. CASE ConnectionLost
    <3>1. turn' = turn  BY <2>4 DEF ConnectionLost
    <3>2. state'[t] \in {state[t], "connection_lost"}
      BY <2>4 DEF ConnectionLost
    <3> QED  BY <1>3, <2>1, <3>1, <3>2
  <2>5. CASE CompletionAccepted
    <3>1. Verdict(Head(inbox).turn, Head(inbox).status)
            \notin {"cancelling", "cancelled"}
      BY DEF Verdict, Recognised
    <3>2. \/ state'[t] = state[t]
          \/ state'[t] \notin {"cancelling", "cancelled"}
      BY <1>0, <2>5, <3>1 DEF CompletionAccepted, TypeOK
    <3>3. turn'[t] \in {NoTurn, turn[t]}
      BY <1>0, <2>5 DEF CompletionAccepted, TypeOK
    <3> QED  BY <1>3, <2>1, <3>2, <3>3
  <2>6. ASSUME NEW u \in Threads, \/ CancelSession(u)
                                  \/ (RegisterSession(u) \/ FollowUp(u)) /\ u # t
        PROVE  Newest(t)'
    <3>1. turn'[t] = turn[t]
      BY <1>0, <2>6 DEF CancelSession, RegisterSession, FollowUp, TypeOK
    <3>2. state'[t] = state[t] \/ turn[t] # NoTurn
      BY <1>0, <2>6 DEF CancelSession, RegisterSession, FollowUp, TypeOK
    <3> QED  BY <1>3, <2>1, <3>1, <3>2
  <2>7. ASSUME NEW u \in Threads, NEW n \in Turns,
               \/ TurnStartFailed(u, n) \/ CancelUnconfirmed(u, n)
        PROVE  Newest(t)'
    <3>1. turn'[t] = turn[t]
      BY <2>7 DEF TurnStartFailed, CancelUnconfirmed
    <3>2. state'[t] \in {state[t], "failed", "cancel_unknown"}
      BY <1>0, <2>7 DEF TurnStartFailed, CancelUnconfirmed, TypeOK
    <3> QED  BY <1>3, <2>1, <3>1, <3>2
  <2>8. ASSUME NEW u \in Threads, NEW n \in Turns, TurnStarted(u, n)
        PROVE  Newest(t)'
    <3>1. state' = state  BY <2>8 DEF TurnStarted
    <3>2. CASE turn'[t] = turn[t]  BY <1>3, <2>1, <3>1, <3>2
    <3>3. CASE turn'[t] # turn[t]
      <4>1. u = t /\ turn'[t] = n
        BY <1>0, <2>8, <3>3 DEF TurnStarted, TypeOK
      <4>2. n = attempt[t] /\ future'[TurnStart(t, n)] = "done"
        BY <2>8, <4>1, NewestReturns
      <4>3. Begun(t)'  BY <2>1, <4>2 DEF Begun, TurnStart, Call
      <4> QED  BY <1>0, <2>1, <3>1, <4>1, <4>2, <4>3
    <3> QED  BY <3>2, <3>3
  <2>9. ASSUME NEW x \in Stoppers, NEW failed, Settle(x, failed)
        PROVE  Newest(t)'
    <3>1. turn' = turn  BY <2>9 DEF Settle
    <3>2. \/ state'[t] \notin {"cancelling", "cancelled"}
          \/ state'[t] = state[t]
          \/ turn[t] # NoTurn
      BY <2>9 DEF Settle, Doubtful, Unaddressed, Live
    <3> QED  BY <1>3, <2>1, <3>1, <3>2
  <2> QED
    BY <1>4, <2>3, <2>4, <2>5, <2>6, <2>7, <2>8, <2>9, LoudSteps
       DEF FinishIdleShutdown, FinishShutdown, ShutdownTimesOut
<1> QED  BY <1>1, <1>2, <1>4

\* While the connection is up and nobody has asked for a stop, work is taken.
LEMMA OpenUntilEnd ==
    ASSUME TypeOK, OpenWhileServing, [Next]_vars
    PROVE  OpenWhileServing'
<1>1. connected' => connected
  <2>1. ASSUME NEW x \in Stoppers, AnnounceShutdown(x) \/ ShutdownProceeds(x)
        PROVE  connected' = connected
    BY <2>1 DEF AnnounceShutdown, ShutdownProceeds, StopNewWork, Settle,
         InterruptActive, FinishIdleShutdown, FinishShutdown, ShutdownTimesOut
  <2>2. CASE ConnectionLost \/ ClientClosed
    BY <2>2 DEF ConnectionLost, ClientClosed, Sever
  <2> QED  BY <2>1, <2>2, ControlSteps
<1>2. CASE UNCHANGED <<closed, stopping, stop>>
  BY <1>1, <1>2 DEF OpenWhileServing
<1>3. CASE ConnectionLost \/ ClientClosed
  BY <1>3 DEF ConnectionLost, ClientClosed, Sever, OpenWhileServing
<1>4. ASSUME NEW x \in Stoppers, AnnounceShutdown(x) \/ ShutdownProceeds(x)
      PROVE  OpenWhileServing'
  BY <1>1, <1>4 DEF AnnounceShutdown, ShutdownProceeds, StopNewWork, Settle,
       InterruptActive, FinishIdleShutdown, FinishShutdown, ShutdownTimesOut,
       OpenWhileServing
<1> QED  BY <1>2, <1>3, <1>4, ControlSteps

\* A step that registers a session makes its first attempt.
LEMMA SessionsKeepAsking ==
    ASSUME LifeInv, [Next]_vars
    PROVE  SessionsAsk'
<1> SUFFICES ASSUME NEW t \in Threads
             PROVE  (state'[t] = "none") <=> (attempt'[t] = 0)
  BY DEF SessionsAsk
<1>0. TypeOK  BY DEF LifeInv
<1>1. CASE RegisterSession(t)
  BY <1>1, RegistersFirst
<1>2. CASE FollowUp(t)
  BY <1>2, FollowsNewest DEF Turns
<1>3. CASE ~RegisterSession(t) /\ ~FollowUp(t)
  <2>1. attempt'[t] = attempt[t]  BY <1>0, <1>3, AttemptsMove
  <2>2. (state'[t] = "none") <=> (state[t] = "none")
    BY <1>0, <1>3, SessionsMove DEF LifeInv
  <2> QED  BY <2>1, <2>2 DEF LifeInv, SessionsAsk
<1> QED  BY <1>1, <1>2, <1>3

\* Before anything is asked for LifeInv holds.
LEMMA LifeInvInitially == Init => LifeInv
<1> SUFFICES ASSUME Init PROVE LifeInv  OBVIOUS
<1>1. \A t \in Threads, n \in Turns : TurnStart(t, n) \in Calls
  BY CallTypes
<1>2. TypeOK  BY TypeInitially
<1>3. Registering /\ StartsInOrder
  BY <1>1 DEF Init, Registering, StartsInOrder, Turns
<1>4. TurnIsNewest /\ SessionsAsk  BY DEF Init, TurnIsNewest, SessionsAsk
<1>5. Phases /\ OpenWhileServing  BY DEF Init, Phases, OpenWhileServing
<1> QED  BY <1>2, <1>3, <1>4, <1>5 DEF LifeInv

\* Every step keeps LifeInv.
LEMMA LifeInvPreserved ==
    ASSUME LifeInv, [Next]_vars
    PROVE  LifeInv'
<1>1. TypeOK' /\ Registering' /\ Phases' /\ OpenWhileServing'
  BY TypePreserved, RegisteringPreserved, PhasesPreserved, OpenUntilEnd
     DEF LifeInv
<1>2. SessionsAsk'  BY SessionsKeepAsking
<1>3. ~Impatient => StartsInOrder' /\ TurnIsNewest'
  BY OrderOfStarts, TurnStaysNewest
<1> QED  BY <1>1, <1>2, <1>3 DEF LifeInv
-----------------------------------------------------------------------------
(* SessionService implements Lifecycle.                                    *)

\* A turn is in Unreturned while its call is open.
LEMMA UnreturnedIs ==
    /\ Unreturned \subseteq Threads \X Turns
    /\ Unreturned' \subseteq Threads \X Turns
    /\ \A t \in Threads, n \in Turns :
         /\ <<t, n>> \in Unreturned <=> future[TurnStart(t, n)] \in OpenCall
         /\ <<t, n>> \in Unreturned' <=> future'[TurnStart(t, n)] \in OpenCall
BY DEF Unreturned, OpenCall, TurnStart, Call

\* What becomes of one turn/start alone, becomes of that turn in Unreturned.
LEMMA OneTurnMoves ==
    ASSUME NEW t \in Threads, NEW n \in Turns,
           \A u \in Threads, m \in Turns :
              <<u, m>> # <<t, n>> =>
                 future'[TurnStart(u, m)] = future[TurnStart(u, m)]
    PROVE  /\ future'[TurnStart(t, n)] \in OpenCall
                => Unreturned' = Unreturned \cup {<<t, n>>}
           /\ future'[TurnStart(t, n)] \notin OpenCall
                => Unreturned' = Unreturned \ {<<t, n>>}
<1>1. ASSUME NEW u \in Threads, NEW m \in Turns, <<u, m>> # <<t, n>>
      PROVE  <<u, m>> \in Unreturned' <=> <<u, m>> \in Unreturned
  BY <1>1, UnreturnedIs
<1> QED  BY <1>1, UnreturnedIs

\* A registration or a follow-up opens one turn/start.
LEMMA UnreturnedGrows ==
    ASSUME TypeOK, NEW t \in Threads, NEW n \in Turns,
           \/ RegisterSession(t) /\ n = 1
           \/ FollowUp(t) /\ n = attempt[t] + 1
    PROVE  Unreturned' = Unreturned \cup {<<t, n>>}
<1>1. \A u \in Threads, m \in Turns : <<u, m>> # <<t, n>> =>
         /\ TurnStart(u, m) # TurnStart(t, n)
         /\ TurnStart(u, m) # ThreadStart(t)
  BY CallsDiffer
<1>2. CASE RegisterSession(t) /\ n = 1
  <2>1. /\ future'[TurnStart(t, n)] = "waiting"
        /\ \A c \in Calls : c # ThreadStart(t) /\ c # TurnStart(t, n) =>
              future'[c] = future[c]
    BY <1>2, CallTypes, CallsDiffer DEF RegisterSession, TypeOK
  <2> QED  BY <1>1, <2>1, CallTypes, OneTurnMoves DEF OpenCall
<1>3. CASE FollowUp(t) /\ n = attempt[t] + 1
  <2>1. /\ future'[TurnStart(t, n)] \in OpenCall
        /\ \A c \in Calls : c # TurnStart(t, n) => future'[c] = future[c]
    BY <1>3, CallTypes DEF FollowUp, Issue, OpenCall
  <2> QED  BY <1>1, <2>1, CallTypes, OneTurnMoves
<1> QED  BY <1>2, <1>3

\* A start that returns is no longer open.
LEMMA UnreturnedShrinks ==
    ASSUME TypeOK, NEW t \in Threads, NEW n \in Turns,
           TurnStarted(t, n) \/ TurnStartFailed(t, n)
    PROVE  /\ <<t, n>> \in Unreturned
           /\ Unreturned' = Unreturned \ {<<t, n>>}
<1>1. \A u \in Threads, m \in Turns : <<u, m>> # <<t, n>> =>
         TurnStart(u, m) # TurnStart(t, n)
  BY CallsDiffer
<1>2. /\ future[TurnStart(t, n)] \in OpenCall
      /\ future'[TurnStart(t, n)] = "done"
      /\ \A c \in Calls : c # TurnStart(t, n) => future'[c] = future[c]
  BY CallTypes DEF TurnStarted, TurnStartFailed, Return, TypeOK, OpenCall
<1>3. future'[TurnStart(t, n)] \notin OpenCall  BY <1>2 DEF OpenCall
<1> QED  BY <1>1, <1>2, <1>3, CallTypes, OneTurnMoves, UnreturnedIs

\* Nothing but the registration of a session, a follow-up and the return of a
\* start changes Unreturned.
LEMMA UnreturnedStays ==
    ASSUME TypeOK, [Next]_vars,
           \A t \in Threads :
             /\ ~RegisterSession(t) /\ ~FollowUp(t)
             /\ \A n \in Turns : ~TurnStarted(t, n) /\ ~TurnStartFailed(t, n)
    PROVE  Unreturned' = Unreturned
<1>1. \A t \in Threads, n \in Turns :
         (future'[TurnStart(t, n)] \in OpenCall)
           <=> (future[TurnStart(t, n)] \in OpenCall)
  BY StartsMoveInOrder DEF StartMoves
<1>2. \A t \in Threads, n \in Turns :
         <<t, n>> \in Unreturned' <=> <<t, n>> \in Unreturned
  BY <1>1, UnreturnedIs
<1> QED  BY <1>2, UnreturnedIs

\* The steps that begin a turn, or learn whether it began.
LEMMA LifeOfStarts ==
    ASSUME LifeInv, NEW t \in Threads,
           \/ RegisterSession(t) \/ FollowUp(t)
           \/ \E n \in Turns : TurnStarted(t, n) \/ TurnStartFailed(t, n)
    PROVE  Life!Next
<1> TypeOK  BY DEF LifeInv
<1>1. CASE RegisterSession(t)
  <2>1. ~closed  BY <1>1 DEF RegisterSession, Registrable
  <2>2. closed' = closed  BY <1>1 DEF RegisterSession, control
  <2>3. state[t] = "none" /\ attempt[t] = 0 /\ turn[t] = NoTurn
    BY <1>1 DEF RegisterSession, LifeInv, Registering, SessionsAsk
  <2>4. 1 \in Turns  BY MaxTurnsAssumption DEF Turns
  <2>5. Unreturned' = Unreturned \cup {<<t, attempt[t] + 1>>}
    BY <1>1, <2>3, <2>4, UnreturnedGrows
  <2>6. /\ state' = [state EXCEPT ![t] = "active"]
        /\ attempt' = [attempt EXCEPT ![t] = @ + 1]
    BY <1>1, <2>3 DEF RegisterSession, TypeOK
  <2>7. attempt[t] < MaxTurns  BY <2>3, MaxTurnsAssumption
  <2>8. Known' = Known \ {t}
    BY <1>1, <2>3 DEF RegisterSession, Known
  <2>9. Life!Ask(t)
    BY <2>1, <2>2, <2>3, <2>5, <2>6, <2>7, <2>8
       DEF Life!Ask, Life!Move
  <2> QED  BY <2>9 DEF Life!Next
<1>2. CASE FollowUp(t)
  <2>1. /\ ~closed /\ closed' = closed
        /\ state[t] = "completed" /\ attempt[t] < MaxTurns
    BY <1>2 DEF FollowUp, Accepting, Resumable, control
  <2>2. attempt[t] + 1 \in Turns
    BY <2>1, MaxTurnsAssumption DEF TypeOK, Turns
  <2>3. Unreturned' = Unreturned \cup {<<t, attempt[t] + 1>>}
    BY <1>2, <2>2, UnreturnedGrows
  <2>4. Impatient \/ <<t, attempt[t]>> \notin Unreturned
    <3>1. CASE attempt[t] \in Turns
      BY <1>2, <3>1, UnreturnedIs DEF FollowUp, OpenCall
    <3>2. CASE attempt[t] \notin Turns
      BY <3>2, UnreturnedIs
    <3> QED  BY <3>1, <3>2
  <2>5. Known' = Known \ {t}
    BY <1>2 DEF FollowUp, Known, TypeOK
  <2>6. Life!Ask(t)
    BY <1>2, <2>1, <2>3, <2>4, <2>5
       DEF FollowUp, Life!Ask, Life!Move
  <2> QED  BY <2>6 DEF Life!Next
<1>3. ASSUME NEW n \in Turns, TurnStarted(t, n) \/ TurnStartFailed(t, n)
      PROVE  Life!Next
  <2>1. Impatient \/ n = attempt[t]
    BY <1>3, NewestReturns, ImpatientAssumption DEF LifeInv
  <2>2. /\ <<t, n>> \in Unreturned
        /\ Unreturned' = Unreturned \ {<<t, n>>}
    BY <1>3, UnreturnedShrinks
  <2>3. Life!Returns(t, n)
    BY <1>3, <2>1, <2>2
       DEF TurnStarted, TurnStartFailed, control, Life!Returns
  <2>4. n \in 1..MaxTurns  BY DEF Turns
  <2>5. CASE TurnStarted(t, n)
    <3>1. n # NoTurn  BY DEF Turns, NoTurn
    <3>2. Known' = IF state[t] = "active" THEN Known \cup {t} ELSE Known
      BY <2>5, <3>1 DEF TurnStarted, Known, TypeOK
    <3>3. Life!Begun(t, n)
      BY <2>3, <2>5, <3>2 DEF TurnStarted, Life!Begun
    <3> QED  BY <2>4, <3>3 DEF Life!Next
  <2>6. CASE TurnStartFailed(t, n)
    <3>1. Known' = Known  BY <2>6 DEF TurnStartFailed, Known
    <3>2. Life!NotBegun(t, n)
      BY <2>3, <2>6, <3>1 DEF TurnStartFailed, Life!NotBegun, Life!Move
    <3> QED  BY <2>4, <3>2 DEF Life!Next
  <2> QED  BY <1>3, <2>5, <2>6
<1> QED  BY <1>1, <1>2, <1>3

\* A marking pass calls cancelled only active sessions that know their turn.
LEMMA LifeOfSettle ==
    ASSUME Phases, Unreturned' = Unreturned,
           NEW x \in Stoppers, NEW failed, Settle(x, failed),
           stop[x] \notin {"idle", "announced"}
    PROVE  Life!Settle
<1> DEFINE interrupted == {t \in Threads : /\ state[t] \in Live
                                           /\ state'[t] = "cancelled"}
<1>1. closed /\ closed' = closed
  BY DEF Phases, Settle
<1>2. ASSUME NEW t \in interrupted
      PROVE  t \in Known /\ state[t] = "active"
  BY <1>2 DEF Settle, Doubtful, Live, Unaddressed, Known
<1>3. interrupted \in SUBSET {t \in Known : state[t] = "active"}  BY <1>2
<1>4. state' = [t \in Threads |->
                  IF state[t] \notin {"active", "cancelling"} THEN state[t]
                  ELSE IF t \in interrupted THEN "cancelled"
                  ELSE "shutdown_unknown"]
  BY DEF Settle, Live
<1>5. attempt' = attempt /\ Known' = Known  BY DEF Settle, Known
<1> HIDE DEF interrupted
<1> QED
  BY <1>1, <1>3, <1>4, <1>5 DEF Life!Settle, Life!Ongoing

\* Every step of the service is a step of the life cycle or a stutter.
LEMMA LifeStep ==
    ASSUME LifeInv, [Next]_vars
    PROVE  [Life!Next]_Life!lifecycle
<1> DEFINE Starts == \E t \in Threads :
                       \/ RegisterSession(t) \/ FollowUp(t)
                       \/ \E n \in Turns : \/ TurnStarted(t, n)
                                           \/ TurnStartFailed(t, n)
<1>1. CASE Starts  BY <1>1, LifeOfStarts
<1>2. CASE ~Starts
  <2>0. TypeOK /\ Phases /\ OpenWhileServing
    BY DEF LifeInv
  <2>1. Unreturned' = Unreturned  BY <1>2, <2>0, UnreturnedStays
  <2>2. ASSUME UNCHANGED <<state, turn, attempt, closed>>
        PROVE  UNCHANGED Life!lifecycle
    <3>1. Known' = Known  BY <2>2 DEF Known
    <3> QED  BY <2>1, <2>2, <3>1 DEF Life!lifecycle
  <2>3. CASE UNCHANGED <<closed, stopping, stop>>
    <3>1. CASE Quiet \/ EvidenceSaved
      BY <2>2, <2>3, <3>1 DEF Quiet, EvidenceSaved, session
    <3>2. CASE CompletionAccepted
      <4>1. Head(inbox) \in Completions
        BY <2>0, <3>2, InboxTypes
           DEF CompletionAccepted, TypeOK, Completions, Responses
      <4>2. PICK t \in Threads : t = Head(inbox).thread
        BY <4>1 DEF Completions
      <4>3. PICK s \in Life!Outcomes :
                s = Verdict(Head(inbox).turn, Head(inbox).status)
        BY DEF Verdict, Recognised, Life!Outcomes
      <4>4. state[t] \in Open /\ state' = [state EXCEPT ![t] = s]
        BY <3>2, <4>2, <4>3 DEF CompletionAccepted
      <4>5. attempt' = attempt /\ turn' = [turn EXCEPT ![t] = NoTurn]
        BY <3>2, <4>2 DEF CompletionAccepted
      <4>6. Known' = Known \ {t}
        BY <2>0, <4>5 DEF Known, TypeOK
      <4>7. Life!Finish(t)
        <5>1. state[t] \in Life!Ongoing \cup {"cancel_unknown"}
          BY <4>4 DEF Life!Ongoing, Open
        <5>2. \E r \in Life!Outcomes : Life!Move(t, r)
          BY <4>3, <4>4 DEF Life!Move
        <5>3. closed' = closed  BY <2>3
        <5> QED
          BY <2>1, <4>5, <4>6, <5>1, <5>2, <5>3 DEF Life!Finish
      <4> QED  BY <4>7 DEF Life!Next
    <3>3. ASSUME NEW t \in Threads, CancelSession(t)
          PROVE  Life!Next
      <4>1. ~closed /\ state[t] = "active" /\ turn[t] # NoTurn
        BY <3>3 DEF CancelSession, Accepting
      <4>2. t \in Known /\ Known' = Known
        BY <3>3, <4>1 DEF CancelSession, Known
      <4>3. Life!Cancel(t)
        BY <2>1, <2>3, <3>3, <4>1, <4>2
           DEF CancelSession, Life!Cancel, Life!Move
      <4> QED  BY <4>3 DEF Life!Next
    <3>4. ASSUME NEW t \in Threads, NEW n \in Turns, CancelUnconfirmed(t, n)
          PROVE  [Life!Next]_Life!lifecycle
      <4>1. CASE state[t] = "cancelling"
        <5>1. Known' = Known  BY <3>4 DEF CancelUnconfirmed, Known
        <5>2. Life!Doubt(t)
          BY <2>1, <2>3, <3>4, <4>1, <5>1
             DEF CancelUnconfirmed, Life!Doubt, Life!Move
        <5> QED  BY <5>2 DEF Life!Next
      <4>2. CASE state[t] # "cancelling"
        BY <2>2, <2>3, <3>4, <4>2 DEF CancelUnconfirmed
      <4> QED  BY <4>1, <4>2
    <3>5. ASSUME NEW x \in Stoppers, \/ FinishIdleShutdown(x)
                                     \/ FinishShutdown(x)
                                     \/ ShutdownTimesOut(x)
          PROVE  Life!Next
      <4>1. Life!Settle
        BY <2>0, <2>1, <3>5, LifeOfSettle
           DEF FinishIdleShutdown, FinishShutdown, ShutdownTimesOut
      <4> QED  BY <4>1 DEF Life!Next
    <3>6. CASE ConnectionLost
      BY <2>0, <2>3, <3>6 DEF ConnectionLost, Sever, OpenWhileServing
    <3> QED
      BY <1>2, <3>1, <3>2, <3>3, <3>4, <3>5, <3>6, LoudSteps
  <2>4. CASE ConnectionLost
    <3>1. ~closed  BY <2>0, <2>4 DEF ConnectionLost, Sever, OpenWhileServing
    <3>2. Known' = Known  BY <2>4 DEF ConnectionLost, Known
    <3>3. Life!Lose
      BY <2>1, <2>4, <3>1, <3>2
         DEF ConnectionLost, Life!Lose, Life!Ongoing, Live
    <3> QED  BY <3>3 DEF Life!Next
  <2>5. CASE ClientClosed
    BY <2>2, <2>5 DEF ClientClosed, session
  <2>6. ASSUME NEW x \in Stoppers, AnnounceShutdown(x) \/ ShutdownProceeds(x)
        PROVE  [Life!Next]_Life!lifecycle
    <3>1. CASE StopNewWork(x)
      <4>1. UNCHANGED <<state, turn, attempt>> /\ closed' = TRUE
        BY <3>1 DEF StopNewWork, session
      <4>2. CASE closed  BY <2>2, <4>1, <4>2 DEF TypeOK
      <4>3. CASE ~closed
        <5>1. Known' = Known  BY <4>1 DEF Known
        <5>2. Life!Stop  BY <2>1, <4>1, <4>3, <5>1 DEF Life!Stop
        <5> QED  BY <5>2 DEF Life!Next
      <4> QED  BY <4>2, <4>3
    <3>2. CASE AnnounceShutdown(x) \/ InterruptActive(x)
      BY <2>2, <3>2 DEF AnnounceShutdown, InterruptActive, session
    <3>3. CASE \/ FinishIdleShutdown(x) \/ FinishShutdown(x)
               \/ ShutdownTimesOut(x)
      <4>1. Life!Settle
        BY <2>0, <2>1, <3>3, LifeOfSettle
           DEF FinishIdleShutdown, FinishShutdown, ShutdownTimesOut
      <4> QED  BY <4>1 DEF Life!Next
    <3> QED  BY <2>6, <3>1, <3>2, <3>3 DEF ShutdownProceeds
  <2> QED  BY <2>3, <2>4, <2>5, <2>6, ControlSteps
<1> QED  BY <1>1, <1>2

\* SessionService implements the life cycle for any number of sessions, turns
\* and shutdown() calls, for patient clients and others, and however often
\* completions are repeated.
THEOREM ImplementsLifecycle == Spec => LifecycleHolds
<1>1. Init => Life!Init
  <2> SUFFICES ASSUME Init PROVE Life!Init  OBVIOUS
  <2>1. \A t \in Threads, n \in Turns : TurnStart(t, n) \in Calls
    BY CallTypes
  <2>2. Unreturned = {} /\ Known = {}
    BY <2>1 DEF Init, Unreturned, Known
  <2> QED  BY <2>2 DEF Init, Life!Init
<1>2. LifeInv /\ [Next]_vars => LifeInv'  BY LifeInvPreserved
<1>3. LifeInv /\ [Next]_vars => [Life!Next]_Life!lifecycle
  BY LifeStep
<1> QED
  BY <1>1, <1>2, <1>3, LifeInvInitially, PTL
     DEF Spec, LifecycleHolds, Life!Spec

-----------------------------------------------------------------------------
(* How turns, requests, messages and outcomes move.                        *)

\* The app-server alone moves a turn, and starts only what was requested.
LEMMA TurnsMove ==
    ASSUME TypeOK, [Next]_vars, NEW t \in Threads, NEW n \in Turns
    PROVE  \/ turnStatus'[t][n] = turnStatus[t][n]
           \/ ServerStartsTurn(t, n)
           \/ /\ turnStatus[t][n] = "running"
              /\ turnStatus'[t][n] = "interrupting"
           \/ /\ turnStatus[t][n] \in {"running", "interrupting"}
              /\ turnStatus'[t][n] = "ended"
<1> DEFINE Moves == \/ turnStatus'[t][n] = turnStatus[t][n]
                    \/ ServerStartsTurn(t, n)
                    \/ /\ turnStatus[t][n] = "running"
                       /\ turnStatus'[t][n] = "interrupting"
                    \/ /\ turnStatus[t][n] \in {"running", "interrupting"}
                       /\ turnStatus'[t][n] = "ended"
<1>1. ASSUME NEW u \in Threads, NEW m \in Turns, ServerStartsTurn(u, m)
      PROVE  Moves
  BY <1>1 DEF ServerStartsTurn, TypeOK
<1>2. ASSUME NEW u \in Threads, NEW m \in Turns,
             NEW x \in Stoppers \cup {"client"}, ServerInterrupts(u, m, x)
      PROVE  Moves
  BY <1>2 DEF ServerInterrupts, TypeOK
<1>3. ASSUME NEW u \in Threads, NEW m \in Turns, TurnEnds(u, m)
      PROVE  Moves
  BY <1>3 DEF TurnEnds, TypeOK
<1>4. ASSUME NEW u \in Threads,
             \/ ServerStartsThread(u)
             \/ \E m \in Turns : Redeliver(u, m)
      PROVE  turnStatus' = turnStatus
  BY <1>4 DEF ServerStartsThread, Redeliver
<1>5. ASSUME NEW u \in Threads, Handlers(u) \/ Continuations(u)
      PROVE  turnStatus' = turnStatus
  BY <1>5 DEF Handlers, Continuations, BeginStart, FollowUp, CancelSession,
       RegisterSession, StartRejected, TurnStarted, TurnStartFailed,
       CancelConfirmed, CancelUnconfirmed
<1>6. ASSUME NEW x \in Stoppers, AnnounceShutdown(x) \/ ShutdownProceeds(x)
      PROVE  turnStatus' = turnStatus
  BY <1>6 DEF AnnounceShutdown, ShutdownProceeds, StopNewWork, Settle,
       InterruptActive, FinishIdleShutdown, FinishShutdown, ShutdownTimesOut
<1>7. ASSUME NEW c \in Calls, CallFails(c) \/ ServerRejects(c)
      PROVE  turnStatus' = turnStatus
  BY <1>7 DEF CallFails, ServerRejects
<1>8. CASE Dispatch \/ EvidenceSaved \/ ConnectionLost \/ ClientClosed
  BY <1>8 DEF Dispatch, DispatchResponse, CompletionIgnored, Sever,
       CompletionAccepted, EvidenceSaved, ConnectionLost, ClientClosed
<1>9. CASE UNCHANGED vars  BY <1>9 DEF vars
<1> QED
  BY <1>1, <1>2, <1>3, <1>4, <1>5, <1>6, <1>7, <1>8, <1>9
     DEF Next, ServerTurns

\* A turn/start is requested by a registration or a follow-up, once.
LEMMA RequestsMove ==
    ASSUME TypeOK, [Next]_vars, NEW t \in Threads, NEW n \in Turns,
           TurnStart(t, n) \in requests'
    PROVE  \/ TurnStart(t, n) \in requests /\ ~ServerStartsTurn(t, n)
           \/ RegisterSession(t) /\ n = 1
           \/ FollowUp(t) /\ n = attempt[t] + 1
<1> DEFINE c == TurnStart(t, n)
<1>1. ASSUME NEW u \in Threads, BeginStart(u)
      PROVE  c \in requests
  BY <1>1, CallsDiffer DEF BeginStart, Issue
<1>2. ASSUME NEW u \in Threads, FollowUp(u)
      PROVE  c \in requests \/ (FollowUp(t) /\ n = attempt[t] + 1)
  <2>1. attempt[u] + 1 \in Turns
    BY <1>2, MaxTurnsAssumption DEF FollowUp, TypeOK, Turns
  <2>2. \/ c # TurnStart(u, attempt[u] + 1)
        \/ (u = t /\ n = attempt[t] + 1)
    BY <2>1, CallsDiffer
  <2> QED  BY <1>2, <2>2 DEF FollowUp, Issue
<1>3. ASSUME NEW u \in Threads, CancelSession(u)
      PROVE  c \in requests
  <2>1. turn[u] \in Turns  BY <1>3 DEF CancelSession, TypeOK
  <2>2. c # Interrupt(u, turn[u], "client")  BY <2>1, CallsDiffer
  <2> QED  BY <1>3, <2>2 DEF CancelSession, Issue
<1>4. ASSUME NEW u \in Threads, Continuations(u)
      PROVE  c \in requests \/ (RegisterSession(t) /\ n = 1)
  <2>1. 1 \in Turns  BY MaxTurnsAssumption DEF Turns
  <2>2. CASE RegisterSession(u)
    <3>1. c # TurnStart(u, 1) \/ (u = t /\ n = 1)
      BY <2>1, CallsDiffer
    <3> QED  BY <2>2, <3>1 DEF RegisterSession
  <2>3. CASE ~RegisterSession(u)
    BY <1>4, <2>3 DEF Continuations, StartRejected, TurnStarted,
         TurnStartFailed, CancelConfirmed, CancelUnconfirmed
  <2> QED  BY <2>2, <2>3
<1>5. ASSUME NEW x \in Stoppers, AnnounceShutdown(x) \/ ShutdownProceeds(x)
      PROVE  c \in requests
  <2>1. CASE InterruptActive(x)
    BY <2>1, CallsDiffer DEF InterruptActive, Issue, Interruptible, TypeOK
  <2>2. CASE ~InterruptActive(x)
    BY <1>5, <2>2 DEF AnnounceShutdown, ShutdownProceeds, StopNewWork, wire,
         FinishIdleShutdown, FinishShutdown, ShutdownTimesOut, Settle
  <2> QED  BY <2>1, <2>2
<1>6. ASSUME NEW u \in Threads, ServerTurns(u)
      PROVE  c \in requests
  BY <1>6 DEF ServerTurns, TurnEnds, Redeliver, ServerStartsThread,
       ServerStartsTurn, ServerInterrupts, Answer
<1>7. ASSUME NEW d \in Calls, CallFails(d) \/ ServerRejects(d)
      PROVE  c \in requests
  BY <1>7 DEF CallFails, ServerRejects, Answer
<1>8. ASSUME \/ Dispatch \/ EvidenceSaved \/ ConnectionLost \/ ClientClosed
             \/ UNCHANGED vars
      PROVE  c \in requests
  BY <1>8 DEF Dispatch, DispatchResponse, CompletionIgnored, Sever, wire,
       CompletionAccepted, EvidenceSaved, ConnectionLost, ClientClosed, vars
<1>9. ~ServerStartsTurn(t, n)
  BY DEF ServerStartsTurn, Answer
<1> QED
  BY <1>1, <1>2, <1>3, <1>4, <1>5, <1>6, <1>7, <1>8, <1>9
     DEF Next, Handlers

\* The app-server says ok to an interrupt when it has handled it.
Answers(c, r) ==
    \/ c.op # "turn/interrupt" \/ r # "ok"
    \/ \E t \in Threads, n \in Turns, x \in Stoppers \cup {"client"} :
          c = Interrupt(t, n, x) /\ ServerInterrupts(t, n, x)

\* The inbox loses its head, or all, or gains one message.
LEMMA InboxMoves ==
    ASSUME [Next]_vars
    PROVE  \/ inbox' = inbox
           \/ inbox # <<>> /\ inbox' = Tail(inbox)
           \/ inbox' = <<>>
           \/ \E c, r :
                /\ inbox' = Append(inbox,
                     [kind |-> "response", call |-> c, result |-> r])
                /\ Answers(c, r)
           \/ \E t \in Threads, n \in Turns, s \in EndStatuses :
                /\ TurnEnds(t, n) \/ Redeliver(t, n)
                /\ inbox' = Append(inbox, Completion(t, n, s))
<1> DEFINE Responds ==
             \E c, r :
                /\ inbox' = Append(inbox,
                     [kind |-> "response", call |-> c, result |-> r])
                /\ Answers(c, r)
           Completes ==
             \E t \in Threads, n \in Turns, s \in EndStatuses :
                /\ TurnEnds(t, n) \/ Redeliver(t, n)
                /\ inbox' = Append(inbox, Completion(t, n, s))
<1>1. ASSUME NEW u \in Threads, Handlers(u) \/ Continuations(u)
      PROVE  inbox' = inbox
  BY <1>1 DEF Handlers, Continuations, BeginStart, FollowUp, CancelSession,
       RegisterSession, StartRejected, TurnStarted, TurnStartFailed,
       CancelConfirmed, CancelUnconfirmed
<1>2. ASSUME NEW x \in Stoppers, AnnounceShutdown(x) \/ ShutdownProceeds(x)
      PROVE  inbox' = inbox
  BY <1>2 DEF AnnounceShutdown, ShutdownProceeds, StopNewWork, Settle, wire,
       InterruptActive, FinishIdleShutdown, FinishShutdown, ShutdownTimesOut
<1>3. ASSUME Dispatch
      PROVE  inbox # <<>> /\ inbox' = Tail(inbox)
  BY <1>3 DEF Dispatch, DispatchResponse, CompletionIgnored,
              CompletionAccepted
<1>4. ASSUME ConnectionLost \/ ClientClosed
      PROVE  inbox' = <<>>
  BY <1>4 DEF ConnectionLost, ClientClosed, Sever
<1>5. ASSUME NEW c \in Calls, CallFails(c)
      PROVE  inbox' = inbox
  BY <1>5 DEF CallFails
<1>6. ASSUME NEW c, NEW r, Answer(c, r), Answers(c, r)
      PROVE  Responds
  BY <1>6 DEF Answer
<1>7. ASSUME NEW u \in Threads, NEW n \in Turns,
             TurnEnds(u, n) \/ Redeliver(u, n)
      PROVE  Completes
  <2>1. PICK s \in EndStatuses : inbox' = Append(inbox, Completion(u, n, s))
    BY <1>7 DEF TurnEnds, Redeliver
  <2> QED  BY <1>7, <2>1
<1>8. ASSUME EvidenceSaved \/ UNCHANGED vars
      PROVE  inbox' = inbox
  BY <1>8 DEF EvidenceSaved, vars, wire
<1>9. ASSUME NEW u \in Threads, ServerTurns(u)
      PROVE  Responds \/ Completes
  <2>1. CASE ServerStartsThread(u)
    <3>1. Answer(ThreadStart(u), "ok")  BY <2>1 DEF ServerStartsThread
    <3>2. Answers(ThreadStart(u), "ok")  BY DEF Answers, ThreadStart, Call
    <3> HIDE DEF Responds
    <3> QED  BY <1>6, <3>1, <3>2
  <2>2. ASSUME NEW n \in Turns, ServerStartsTurn(u, n)
        PROVE  Responds
    <3>1. Answer(TurnStart(u, n), "ok")  BY <2>2 DEF ServerStartsTurn
    <3>2. Answers(TurnStart(u, n), "ok")  BY DEF Answers, TurnStart, Call
    <3> HIDE DEF Responds
    <3> QED  BY <1>6, <3>1, <3>2
  <2>3. ASSUME NEW n \in Turns, NEW x \in Stoppers \cup {"client"},
               ServerInterrupts(u, n, x)
        PROVE  Responds
    <3>1. Answer(Interrupt(u, n, x), "ok")  BY <2>3 DEF ServerInterrupts
    <3>2. Answers(Interrupt(u, n, x), "ok")  BY <2>3 DEF Answers
    <3> HIDE DEF Responds
    <3> QED  BY <1>6, <3>1, <3>2
  <2> HIDE DEF Responds, Completes
  <2> QED  BY <1>7, <1>9, <2>1, <2>2, <2>3 DEF ServerTurns
<1>10. ASSUME NEW c \in Calls, ServerRejects(c)
       PROVE  Responds
  <2>1. Answer(c, "error") /\ Answers(c, "error")
    BY <1>10 DEF ServerRejects, Answers
  <2> HIDE DEF Responds
  <2> QED  BY <1>6, <2>1
<1> HIDE DEF Responds, Completes
<1>11. \/ inbox' = inbox
       \/ inbox # <<>> /\ inbox' = Tail(inbox)
       \/ inbox' = <<>>
       \/ Responds \/ Completes
  BY <1>1, <1>2, <1>3, <1>4, <1>5, <1>8, <1>9, <1>10 DEF Next
<1> QED  BY <1>11 DEF Responds, Completes

\* A session is opened by a registration or a follow-up, and finished by a
\* completion of its own; no other step does either, or moves lastDone.
LEMMA OutcomesMove ==
    ASSUME LifeInv, [Next]_vars, NEW t \in Threads
    PROVE  \/ RegisterSession(t) \/ FollowUp(t)
           \/ CompletionAccepted /\ Head(inbox).thread = t
           \/ /\ lastDone'[t] = lastDone[t]
              /\ attempt'[t] = attempt[t]
              /\ state'[t] \in Open => state[t] \in Open
              /\ state'[t] \in {"completed", "interrupted"}
                   => state'[t] = state[t]
              /\ state'[t] = "none" => state[t] = "none"
<1> DEFINE Kept == /\ lastDone'[t] = lastDone[t]
                   /\ state'[t] \in Open => state[t] \in Open
                   /\ state'[t] \in {"completed", "interrupted"}
                        => state'[t] = state[t]
<1> SUFFICES ASSUME ~RegisterSession(t), ~FollowUp(t),
                    ~(CompletionAccepted /\ Head(inbox).thread = t)
             PROVE  /\ Kept
                    /\ attempt'[t] = attempt[t]
                    /\ state'[t] = "none" => state[t] = "none"
  OBVIOUS
<1>0. TypeOK  BY DEF LifeInv
<1>1. attempt'[t] = attempt[t]  BY <1>0, AttemptsMove
<1>2. state'[t] = "none" => state[t] = "none"
  BY <1>0, SessionsMove DEF LifeInv
<1>3. CASE Quiet \/ EvidenceSaved
  BY <1>3 DEF Quiet, EvidenceSaved, session
<1>4. CASE ConnectionLost
  BY <1>0, <1>4 DEF ConnectionLost, Open
<1>5. CASE CompletionAccepted
  BY <1>0, <1>5 DEF CompletionAccepted, TypeOK
<1>6. ASSUME NEW u \in Threads, \/ CancelSession(u)
                                \/ (RegisterSession(u) \/ FollowUp(u)) /\ u # t
      PROVE  Kept
  BY <1>0, <1>6 DEF CancelSession, RegisterSession, FollowUp, Open, TypeOK
<1>7. ASSUME NEW u \in Threads, NEW n \in Turns,
             \/ TurnStarted(u, n) \/ TurnStartFailed(u, n)
             \/ CancelUnconfirmed(u, n)
      PROVE  Kept
  BY <1>0, <1>7 DEF TurnStarted, TurnStartFailed, CancelUnconfirmed, Open,
                    TypeOK
<1>8. ASSUME NEW x \in Stoppers, NEW failed, Settle(x, failed)
      PROVE  Kept
  BY <1>0, <1>8 DEF Settle, Open
<1>9. Kept
  BY <1>3, <1>4, <1>5, <1>6, <1>7, <1>8, LoudSteps
     DEF FinishIdleShutdown, FinishShutdown, ShutdownTimesOut
<1> QED  BY <1>1, <1>2, <1>9

-----------------------------------------------------------------------------
(* The invariant of the turns: each ends before the next is asked for, the  *)
(* completions in the inbox are of the newest turn or the one before, in    *)
(* this order, and lastDone tells which of the two have been dispatched.    *)
(* An impatient client may have an older turn recorded as the newest, and   *)
(* the test of notification() lets completions of that one through: then    *)
(* no completion may come twice, and those in the inbox are all awaited.    *)

TurnsInOrder ==
    \A t \in Threads, n \in Turns :
        /\ n < attempt[t] => turnStatus[t][n] = "ended"
        /\ n > attempt[t] => turnStatus[t][n] = "none"
        /\ TurnStart(t, n) \in requests =>
             n = attempt[t] /\ turnStatus[t][n] = "none"

LastDoneInOrder ==
    \A t \in Threads :
        /\ state[t] = "none" => lastDone[t] = NoTurn
        /\ lastDone[t] # NoTurn => turnStatus[t][lastDone[t]] = "ended"
        /\ state[t] \in Open => lastDone[t] + 1 = attempt[t]
        /\ state[t] \in {"completed", "interrupted"} =>
             /\ lastDone[t] = attempt[t]
             /\ turnStatus[t][attempt[t]] = "ended"

\* Is the i-th message of the inbox a completion that names a turn of t?
Names(i, t) ==
    /\ inbox[i].kind = "turn/completed"
    /\ inbox[i].thread = t
    /\ inbox[i].turn # NoTurn

InboxInOrder ==
    \A t \in Threads, i \in 1..Len(inbox) : Names(i, t) =>
        /\ inbox[i].turn <= attempt[t]
        /\ attempt[t] <= inbox[i].turn + 1
        /\ turnStatus[t][inbox[i].turn] = "ended"
        /\ lastDone[t] = attempt[t] => inbox[i].turn = attempt[t]
        /\ \A j \in 1..Len(inbox) :
             i < j /\ Names(j, t) => inbox[i].turn <= inbox[j].turn

\* Nothing in the inbox is a repeat, or of a turn already over.
InboxAwaited ==
    \A t \in Threads, i \in 1..Len(inbox) : Names(i, t) =>
        /\ inbox[i].turn = attempt[t]
        /\ lastDone[t] # attempt[t]
        /\ \A j \in 1..Len(inbox) : Names(j, t) => j = i

OrderInv ==
    /\ LifeInv /\ TurnsInOrder /\ LastDoneInOrder /\ InboxInOrder
    /\ Impatient => InboxAwaited

\* What is assumed: a completion is repeated for the newest turn only, and not
\* at all if a client may be impatient.
FewRepeats == StrayAge <= 1 /\ (Impatient => StrayAge = 0)

\* A completion that names a turn names one.
LEMMA NamesTurns ==
    ASSUME TypeOK, NEW t \in Threads, NEW i \in 1..Len(inbox), Names(i, t)
    PROVE  inbox[i].turn \in Turns
<1>1. inbox[i] \in Responses \cup Completions  BY DEF TypeOK
<1>2. inbox[i] \in Completions
  BY <1>1 DEF Names, Responses, Completions
<1> QED  BY <1>2 DEF Completions, Names

\* A completion that is accepted, and names a turn, names the newest one, and
\* the app-server has ended it.
LEMMA AcceptedIsNewest ==
    ASSUME OrderInv, CompletionAccepted, NEW t, t = Head(inbox).thread,
           Head(inbox).turn # NoTurn
    PROVE  /\ t \in Threads
           /\ Head(inbox).turn = attempt[t]
           /\ attempt[t] \in Turns
           /\ turnStatus[t][attempt[t]] = "ended"
           /\ \A j \in 1..Len(inbox) :
                Names(j, t) => inbox[j].turn = attempt[t]
<1> DEFINE n == Head(inbox).turn
<1>0. TypeOK  BY DEF OrderInv, LifeInv
<1>1. Head(inbox) \in Completions
  BY <1>0, InboxTypes DEF CompletionAccepted, TypeOK, Completions, Responses
<1>2. t \in Threads /\ n \in Turns  BY <1>1 DEF Completions
<1>3. 1 \in 1..Len(inbox) /\ inbox[1] = Head(inbox)
  BY <1>0 DEF CompletionAccepted, TypeOK
<1>4. Names(1, t)  BY <1>3 DEF Names, CompletionAccepted
<1>5. /\ n <= attempt[t] /\ attempt[t] <= n + 1
      /\ turnStatus[t][n] = "ended"
      /\ \A j \in 1..Len(inbox) :
           /\ 1 < j /\ Names(j, t) => n <= inbox[j].turn
           /\ Names(j, t) => inbox[j].turn <= attempt[t]
  BY <1>2, <1>3, <1>4 DEF OrderInv, InboxInOrder
<1>6. attempt[t] \in Nat /\ lastDone[t] \in Nat /\ n \in Nat
  <2>1. \A m \in Turns \cup {NoTurn} : m \in Nat  BY DEF Turns, NoTurn
  <2>2. attempt[t] \in Nat  BY <1>0, <1>2 DEF TypeOK
  <2>3. lastDone[t] \in Turns \cup {NoTurn}  BY <1>0, <1>2 DEF TypeOK
  <2> QED  BY <1>2, <2>1, <2>2, <2>3
<1>7. state[t] \in Open /\ ~IsStale(t, n)
  BY DEF CompletionAccepted
<1>8. lastDone[t] + 1 = attempt[t]
  BY <1>2, <1>7 DEF OrderInv, LastDoneInOrder
<1>9. n = turn[t] \/ n # lastDone[t]
  BY <1>7 DEF IsStale
<1>10. Impatient \/ turn[t] \in {NoTurn, attempt[t]}
  BY <1>2 DEF OrderInv, LifeInv, TurnIsNewest
<1>11. n = attempt[t]
  <2>1. CASE Impatient
    BY <1>2, <1>3, <1>4, <2>1 DEF OrderInv, InboxAwaited
  <2>2. CASE ~Impatient
    BY <1>5, <1>6, <1>8, <1>9, <1>10, <2>2
  <2> QED  BY <2>1, <2>2
<1>12. ASSUME NEW j \in 1..Len(inbox), Names(j, t)
       PROVE  inbox[j].turn = attempt[t]
  <2>1. CASE j = 1  BY <1>3, <1>11, <2>1
  <2>2. CASE j # 1
    <3>1. 1 < j  BY <2>2, <1>0 DEF TypeOK
    <3>2. inbox[j].turn \in Nat  BY <1>0, <1>2, <1>12, NamesTurns DEF Turns
    <3> QED  BY <1>5, <1>6, <1>11, <1>12, <3>1, <3>2
  <2> QED  BY <2>1, <2>2
<1> QED  BY <1>2, <1>5, <1>11, <1>12

\* A turn that has ended has ended for good.
LEMMA EndedIsFinal ==
    ASSUME OrderInv, [Next]_vars, NEW t \in Threads, NEW n \in Turns,
           turnStatus[t][n] = "ended"
    PROVE  turnStatus'[t][n] = "ended"
<1>1. ~ServerStartsTurn(t, n)
  BY DEF ServerStartsTurn, Answer, OrderInv, TurnsInOrder
<1> QED  BY <1>1, TurnsMove DEF OrderInv, LifeInv

\* Turns are asked for, and run, one after another.
LEMMA OrderOfTurns ==
    ASSUME OrderInv, [Next]_vars
    PROVE  TurnsInOrder'
<1> SUFFICES ASSUME NEW t \in Threads, NEW n \in Turns
             PROVE  /\ n < attempt'[t] => turnStatus'[t][n] = "ended"
                    /\ n > attempt'[t] => turnStatus'[t][n] = "none"
                    /\ TurnStart(t, n) \in requests' =>
                         n = attempt'[t] /\ turnStatus'[t][n] = "none"
  BY DEF TurnsInOrder, TurnStart, Call
<1>0. LifeInv /\ TypeOK  BY DEF OrderInv, LifeInv
<1>1. /\ n < attempt[t] => turnStatus[t][n] = "ended"
      /\ n > attempt[t] => turnStatus[t][n] = "none"
      /\ TurnStart(t, n) \in requests =>
           n = attempt[t] /\ turnStatus[t][n] = "none"
  BY DEF OrderInv, TurnsInOrder
<1>2. n \in Nat /\ attempt[t] \in Nat  BY <1>0 DEF TypeOK, Turns
<1>3. CASE RegisterSession(t)
  <2>1. attempt[t] = 0 /\ attempt'[t] = 1
    BY <1>0, <1>3, RegistersFirst
  <2>2. n > 0 BY DEF Turns
  <2>3. turnStatus'[t][n] = turnStatus[t][n]
    BY <1>3 DEF RegisterSession
  <2>4. TurnStart(t, n) \in requests' => n = 1
    <3>1. TurnStart(t, n) \notin requests  BY <1>1, <2>1, <2>2
    <3> QED  BY <1>0, <2>1, <3>1, RequestsMove
  <2> QED  BY <1>1, <1>2, <2>1, <2>2, <2>3, <2>4
<1>4. CASE FollowUp(t)
  <2>1. /\ state[t] = "completed" /\ attempt'[t] = attempt[t] + 1
        /\ attempt[t] \in Turns
    BY <1>0, <1>4, FollowsNewest
  <2>2. turnStatus[t][attempt[t]] = "ended"
    BY <2>1 DEF OrderInv, LastDoneInOrder
  <2>3. turnStatus'[t][n] = turnStatus[t][n]  BY <1>4 DEF FollowUp
  <2>4. n < attempt[t] + 1 => n < attempt[t] \/ n = attempt[t]  BY <1>2
  <2>5. TurnStart(t, n) \in requests' => n = attempt[t] + 1
    <3>1. TurnStart(t, n) \notin requests  BY <1>1, <2>2
    <3>2. ~RegisterSession(t)
      BY <1>0, <2>1, RegistersFirst
    <3> QED  BY <1>0, <3>1, <3>2, RequestsMove
  <2> QED  BY <1>1, <1>2, <2>1, <2>2, <2>3, <2>4, <2>5
<1>5. CASE ~RegisterSession(t) /\ ~FollowUp(t)
  <2>1. attempt'[t] = attempt[t]  BY <1>0, <1>5, AttemptsMove
  <2>2. turnStatus[t][n] = "ended" => turnStatus'[t][n] = "ended"
    BY EndedIsFinal
  <2>3. n > attempt[t] => turnStatus'[t][n] = "none"
    <3>1. ServerStartsTurn(t, n) => TurnStart(t, n) \in requests
      BY DEF ServerStartsTurn, Answer
    <3> QED  BY <1>0, <1>1, <1>2, <3>1, TurnsMove
  <2>4. ASSUME TurnStart(t, n) \in requests'
        PROVE  n = attempt[t] /\ turnStatus'[t][n] = "none"
    <3>1. TurnStart(t, n) \in requests /\ ~ServerStartsTurn(t, n)
      BY <1>0, <1>5, <2>4, RequestsMove
    <3> QED  BY <1>0, <1>1, <3>1, TurnsMove
  <2> QED  BY <1>1, <2>1, <2>2, <2>3, <2>4
<1> QED  BY <1>3, <1>4, <1>5

\* lastDone keeps up with the outcomes.
LEMMA OrderOfOutcomes ==
    ASSUME OrderInv, [Next]_vars
    PROVE  LastDoneInOrder'
<1> DEFINE Kept(t) ==
             /\ state[t] = "none" => lastDone[t] = NoTurn
             /\ lastDone[t] # NoTurn => turnStatus[t][lastDone[t]] = "ended"
             /\ state[t] \in Open => lastDone[t] + 1 = attempt[t]
             /\ state[t] \in {"completed", "interrupted"} =>
                  /\ lastDone[t] = attempt[t]
                  /\ turnStatus[t][attempt[t]] = "ended"
<1> SUFFICES ASSUME NEW t \in Threads PROVE Kept(t)'
  BY DEF LastDoneInOrder
<1>0. LifeInv /\ TypeOK  BY DEF OrderInv, LifeInv
<1>1. Kept(t)  BY DEF OrderInv, LastDoneInOrder
<1>2. CASE RegisterSession(t)
  <2>1. /\ state[t] = "none" /\ attempt'[t] = 1 /\ state'[t] = "active"
    BY <1>0, <1>2, RegistersFirst
  <2>2. lastDone'[t] = NoTurn /\ NoTurn = 0
    BY <1>1, <1>2, <2>1 DEF RegisterSession, NoTurn
  <2> QED  BY <2>1, <2>2
<1>3. CASE FollowUp(t)
  <2>1. /\ state[t] = "completed" /\ attempt'[t] = attempt[t] + 1
        /\ state'[t] = "active"
    BY <1>0, <1>3, FollowsNewest
  <2>2. /\ lastDone'[t] = lastDone[t] /\ lastDone[t] = attempt[t]
        /\ turnStatus' = turnStatus
    BY <1>1, <1>3, <2>1 DEF FollowUp
  <2> QED  BY <1>1, <2>1, <2>2
<1>4. CASE CompletionAccepted /\ Head(inbox).thread = t
  <2> DEFINE n == Head(inbox).turn
             s == Head(inbox).status
  <2>1. /\ state'[t] = Verdict(n, s)
        /\ lastDone'[t] = IF n # NoTurn THEN n ELSE lastDone[t]
        /\ attempt' = attempt /\ turnStatus' = turnStatus
    BY <1>0, <1>4 DEF CompletionAccepted, TypeOK
  <2>2. /\ Verdict(n, s) \notin Open \cup {"none"}
        /\ Verdict(n, s) \in {"completed", "interrupted"} => n # NoTurn
    BY DEF Verdict, Recognised, Open
  <2>3. n # NoTurn => /\ n = attempt[t]
                      /\ turnStatus[t][attempt[t]] = "ended"
    BY <1>4, AcceptedIsNewest
  <2> QED  BY <1>1, <2>1, <2>2, <2>3
<1>5. ASSUME lastDone'[t] = lastDone[t],
             attempt'[t] = attempt[t],
             state'[t] \in Open => state[t] \in Open,
             state'[t] \in {"completed", "interrupted"}
               => state'[t] = state[t],
             state'[t] = "none" => state[t] = "none"
      PROVE  Kept(t)'
  <2>1. state'[t] \in {"completed", "interrupted"} =>
          turnStatus'[t][attempt[t]] = "ended"
    <3> SUFFICES ASSUME state[t] \in {"completed", "interrupted"}
                 PROVE  turnStatus'[t][attempt[t]] = "ended"
      BY <1>5
    <3>1. attempt[t] \in Turns
      BY <1>0 DEF LifeInv, SessionsAsk, TypeOK, Turns
    <3> QED  BY <1>1, <3>1, EndedIsFinal
  <2>2. lastDone[t] # NoTurn => turnStatus'[t][lastDone[t]] = "ended"
    BY <1>0, <1>1, EndedIsFinal DEF TypeOK
  <2> QED  BY <1>1, <1>5, <2>1, <2>2
<1> QED  BY <1>0, <1>2, <1>3, <1>4, <1>5, OutcomesMove

\* The completions in the inbox fit the turns as they are after the step.
LEMMA MessagesFit ==
    ASSUME OrderInv, [Next]_vars, NEW t \in Threads,
           NEW i \in 1..Len(inbox), Names(i, t)
    PROVE  /\ inbox[i].turn <= attempt'[t]
           /\ attempt'[t] <= inbox[i].turn + 1
           /\ turnStatus'[t][inbox[i].turn] = "ended"
           /\ lastDone'[t] = attempt'[t] => inbox[i].turn = attempt'[t]
<1> DEFINE n == inbox[i].turn
<1>0. LifeInv /\ TypeOK  BY DEF OrderInv, LifeInv
<1>1. n \in Turns  BY <1>0, NamesTurns
<1>2. /\ n <= attempt[t] /\ attempt[t] <= n + 1
      /\ turnStatus[t][n] = "ended"
      /\ lastDone[t] = attempt[t] => n = attempt[t]
  BY DEF OrderInv, InboxInOrder
<1>3. turnStatus'[t][n] = "ended"  BY <1>1, <1>2, EndedIsFinal
<1>4. CASE RegisterSession(t)
  <2>1. attempt[t] = 0  BY <1>0, <1>4, RegistersFirst
  <2> QED  BY <1>1, <1>2, <2>1 DEF Turns
<1>5. CASE FollowUp(t)
  <2>1. state[t] = "completed" /\ attempt'[t] = attempt[t] + 1
    BY <1>0, <1>5, FollowsNewest
  <2>2. lastDone'[t] = lastDone[t] /\ lastDone[t] = attempt[t]
    BY <1>5, <2>1 DEF FollowUp, OrderInv, LastDoneInOrder
  <2>3. attempt[t] \in Nat  BY <1>0 DEF TypeOK
  <2> QED  BY <1>2, <1>3, <2>1, <2>2, <2>3
<1>6. CASE CompletionAccepted /\ Head(inbox).thread = t
  <2>1. attempt' = attempt  BY <1>6 DEF CompletionAccepted
  <2>2. CASE Head(inbox).turn # NoTurn
    BY <1>2, <1>3, <1>6, <2>1, <2>2, AcceptedIsNewest
  <2>3. CASE Head(inbox).turn = NoTurn
    <3>1. lastDone'[t] = lastDone[t]
      BY <1>0, <1>6, <2>3 DEF CompletionAccepted, TypeOK
    <3> QED  BY <1>2, <1>3, <2>1, <3>1
  <2> QED  BY <2>2, <2>3
<1>7. CASE lastDone'[t] = lastDone[t] /\ attempt'[t] = attempt[t]
  BY <1>2, <1>3, <1>7
<1> QED  BY <1>0, <1>4, <1>5, <1>6, <1>7, OutcomesMove

\* A completion that joins the inbox is of the newest turn.
LEMMA NewestIsSent ==
    ASSUME StrayAge <= 1, OrderInv, NEW t \in Threads, NEW n \in Turns,
           TurnEnds(t, n) \/ Redeliver(t, n)
    PROVE  /\ n = attempt[t]
           /\ turnStatus'[t][n] = "ended"
           /\ attempt' = attempt
<1>0. TypeOK  BY DEF OrderInv, LifeInv
<1>1. n \in Nat /\ attempt[t] \in Nat  BY <1>0 DEF TypeOK, Turns
<1>2. /\ n < attempt[t] => turnStatus[t][n] = "ended"
      /\ n > attempt[t] => turnStatus[t][n] = "none"
  BY DEF OrderInv, TurnsInOrder
<1>3. CASE TurnEnds(t, n)
  BY <1>0, <1>1, <1>2, <1>3 DEF TurnEnds, TypeOK, session
<1>4. CASE Redeliver(t, n)
  <2>1. attempt[t] < n + StrayAge /\ turnStatus[t][n] = "ended"
    BY <1>4 DEF Redeliver
  <2>2. n = attempt[t]
    BY <1>1, <1>2, <2>1, StrayAgeAssumption
  <2> QED  BY <1>4, <2>1, <2>2 DEF Redeliver, session
<1> QED  BY <1>3, <1>4

\* Messages are dispatched in the order in which they were sent.
LEMMA OrderOfMessages ==
    ASSUME StrayAge <= 1, OrderInv, [Next]_vars
    PROVE  InboxInOrder'
<1> SUFFICES ASSUME NEW t \in Threads, NEW i \in 1..Len(inbox'), Names(i, t)'
             PROVE  /\ inbox'[i].turn <= attempt'[t]
                    /\ attempt'[t] <= inbox'[i].turn + 1
                    /\ turnStatus'[t][inbox'[i].turn] = "ended"
                    /\ lastDone'[t] = attempt'[t]
                         => inbox'[i].turn = attempt'[t]
                    /\ \A j \in 1..Len(inbox') :
                         i < j /\ Names(j, t)'
                           => inbox'[i].turn <= inbox'[j].turn
  BY DEF InboxInOrder
<1>0. TypeOK  BY DEF OrderInv, LifeInv
<1>1. \A k \in 1..Len(inbox) : Names(k, t) =>
        /\ inbox[k].turn <= attempt'[t]
        /\ attempt'[t] <= inbox[k].turn + 1
        /\ turnStatus'[t][inbox[k].turn] = "ended"
        /\ lastDone'[t] = attempt'[t] => inbox[k].turn = attempt'[t]
  BY MessagesFit
<1>2. \A k, j \in 1..Len(inbox) :
        k < j /\ Names(k, t) /\ Names(j, t) => inbox[k].turn <= inbox[j].turn
  BY DEF OrderInv, InboxInOrder
<1>3. CASE inbox' = inbox
  BY <1>1, <1>2, <1>3 DEF Names
<1>4. CASE inbox # <<>> /\ inbox' = Tail(inbox)
  <2>1. \A k \in 1..Len(inbox') : /\ k + 1 \in 1..Len(inbox)
                                  /\ inbox'[k] = inbox[k + 1]
    BY <1>0, <1>4 DEF TypeOK
  <2>2. \A k \in 1..Len(inbox') : Names(k, t)' => Names(k + 1, t)
    BY <2>1 DEF Names
  <2>3. Names(i + 1, t) /\ inbox'[i] = inbox[i + 1]  BY <2>1, <2>2
  <2>4. ASSUME NEW j \in 1..Len(inbox'), i < j, Names(j, t)'
        PROVE  inbox'[i].turn <= inbox'[j].turn
    <3>1. i + 1 < j + 1  BY <2>4
    <3> QED  BY <1>2, <2>1, <2>2, <2>3, <2>4, <3>1
  <2> QED  BY <1>1, <2>1, <2>3, <2>4
<1>5. CASE inbox' = <<>>
  BY <1>5
<1>6. ASSUME NEW m, inbox' = Append(inbox, m),
             ~(/\ m.kind = "turn/completed"
               /\ m.thread = t
               /\ m.turn # NoTurn)
      PROVE  /\ inbox'[i].turn <= attempt'[t]
             /\ attempt'[t] <= inbox'[i].turn + 1
             /\ turnStatus'[t][inbox'[i].turn] = "ended"
             /\ lastDone'[t] = attempt'[t]
                  => inbox'[i].turn = attempt'[t]
             /\ \A j \in 1..Len(inbox') :
                  i < j /\ Names(j, t)'
                    => inbox'[i].turn <= inbox'[j].turn
  <2>1. /\ Len(inbox') = Len(inbox) + 1
        /\ inbox'[Len(inbox) + 1] = m
        /\ \A k \in 1..Len(inbox) : inbox'[k] = inbox[k]
        /\ Len(inbox) \in Nat
    BY <1>0, <1>6 DEF TypeOK
  <2>2. \A k \in 1..Len(inbox') : Names(k, t)' =>
          k \in 1..Len(inbox) /\ Names(k, t)
    BY <1>6, <2>1 DEF Names
  <2> QED  BY <1>1, <1>2, <2>1, <2>2
<1>7. ASSUME NEW u \in Threads, NEW n \in Turns, NEW s \in EndStatuses,
             TurnEnds(u, n) \/ Redeliver(u, n),
             inbox' = Append(inbox, Completion(u, n, s))
      PROVE  /\ inbox'[i].turn <= attempt'[t]
             /\ attempt'[t] <= inbox'[i].turn + 1
             /\ turnStatus'[t][inbox'[i].turn] = "ended"
             /\ lastDone'[t] = attempt'[t]
                  => inbox'[i].turn = attempt'[t]
             /\ \A j \in 1..Len(inbox') :
                  i < j /\ Names(j, t)'
                    => inbox'[i].turn <= inbox'[j].turn
  <2> DEFINE m == Completion(u, n, s)
  <2>1. /\ m.kind = "turn/completed"
        /\ m.thread = u
        /\ m.turn # NoTurn => m.turn = n
    BY DEF Completion
  <2>2. CASE u # t \/ m.turn = NoTurn
    BY <1>6, <1>7, <2>1, <2>2
  <2>3. CASE u = t /\ m.turn # NoTurn
    <3>1. /\ m.turn = attempt'[t]
          /\ turnStatus'[t][m.turn] = "ended"
          /\ m.turn \in Nat
      BY <1>7, <2>1, <2>3, NewestIsSent DEF Turns
    <3> HIDE DEF m
    <3>2. /\ Len(inbox') = Len(inbox) + 1
          /\ inbox'[Len(inbox) + 1] = m
          /\ \A k \in 1..Len(inbox) : inbox'[k] = inbox[k]
          /\ Len(inbox) \in Nat
      BY <1>0, <1>7 DEF TypeOK, m
    <3>3. \A k \in 1..Len(inbox') : Names(k, t)' =>
            \/ k \in 1..Len(inbox) /\ Names(k, t)
            \/ k = Len(inbox) + 1 /\ inbox'[k] = m
      BY <3>2 DEF Names
    <3>4. CASE i = Len(inbox) + 1
      BY <3>1, <3>2, <3>4
    <3>5. CASE i \in 1..Len(inbox) /\ Names(i, t)
      BY <1>1, <1>2, <3>1, <3>2, <3>3, <3>5
    <3> QED  BY <3>3, <3>4, <3>5
  <2> QED  BY <2>2, <2>3
<1>8. ASSUME NEW c, NEW r, inbox' = Append(inbox,
                [kind |-> "response", call |-> c, result |-> r])
      PROVE  /\ inbox'[i].turn <= attempt'[t]
             /\ attempt'[t] <= inbox'[i].turn + 1
             /\ turnStatus'[t][inbox'[i].turn] = "ended"
             /\ lastDone'[t] = attempt'[t]
                  => inbox'[i].turn = attempt'[t]
             /\ \A j \in 1..Len(inbox') :
                  i < j /\ Names(j, t)'
                    => inbox'[i].turn <= inbox'[j].turn
  BY <1>6, <1>8
<1> QED  BY <1>3, <1>4, <1>5, <1>7, <1>8, InboxMoves

\* If nothing is repeated, what is in the inbox is awaited.
LEMMA MessagesAwaited ==
    ASSUME Impatient, StrayAge = 0, OrderInv, [Next]_vars
    PROVE  InboxAwaited'
<1> SUFFICES ASSUME NEW t \in Threads, NEW i \in 1..Len(inbox'), Names(i, t)'
             PROVE  /\ inbox'[i].turn = attempt'[t]
                    /\ lastDone'[t] # attempt'[t]
                    /\ \A j \in 1..Len(inbox') : Names(j, t)' => j = i
  BY DEF InboxAwaited
<1>0. LifeInv /\ TypeOK /\ StrayAge <= 1  BY DEF OrderInv, LifeInv
<1>1. \A k \in 1..Len(inbox) : Names(k, t) =>
        /\ inbox[k].turn = attempt[t]
        /\ lastDone[t] # attempt[t]
        /\ \A j \in 1..Len(inbox) : Names(j, t) => j = k
  BY DEF OrderInv, InboxAwaited
<1>2. ASSUME inbox # <<>>, inbox' = Tail(inbox)
      PROVE  /\ \A k \in 1..Len(inbox') : Names(k, t)' =>
                   /\ k + 1 \in 2..Len(inbox) /\ Names(k + 1, t)
                   /\ inbox'[k] = inbox[k + 1]
             /\ 1 \in 1..Len(inbox) /\ Head(inbox) = inbox[1]
  BY <1>0, <1>2 DEF TypeOK, Names
<1>3. CASE RegisterSession(t) \/ FollowUp(t)
  <2>1. Names(i, t) /\ i \in 1..Len(inbox)
    BY <1>3 DEF RegisterSession, FollowUp, Names
  <2>2. inbox[i].turn \in Turns  BY <1>0, <2>1, NamesTurns
  <2>3. CASE RegisterSession(t)
    BY <1>0, <1>1, <2>1, <2>2, <2>3, RegistersFirst DEF Turns
  <2>4. CASE FollowUp(t)
    BY <1>0, <1>1, <2>1, <2>4, FollowsNewest DEF OrderInv, LastDoneInOrder
  <2> QED  BY <1>3, <2>3, <2>4
<1>4. CASE CompletionAccepted /\ Head(inbox).thread = t
  <2>1. inbox # <<>> /\ inbox' = Tail(inbox) /\ attempt' = attempt
    BY <1>4 DEF CompletionAccepted
  <2>2. Head(inbox).turn = NoTurn
    <3>1. Head(inbox).turn # NoTurn => Names(1, t)
      BY <1>2, <1>4, <2>1 DEF CompletionAccepted, Names
    <3>2. i + 1 # 1  BY <1>0 DEF TypeOK
    <3> QED  BY <1>1, <1>2, <2>1, <3>1, <3>2
  <2>3. lastDone'[t] = lastDone[t]
    BY <1>0, <1>4, <2>2 DEF CompletionAccepted, TypeOK
  <2> QED  BY <1>1, <1>2, <2>1, <2>3
<1>5. ASSUME lastDone'[t] = lastDone[t], attempt'[t] = attempt[t]
      PROVE  /\ inbox'[i].turn = attempt'[t]
             /\ lastDone'[t] # attempt'[t]
             /\ \A j \in 1..Len(inbox') : Names(j, t)' => j = i
  <2>1. CASE inbox' = inbox
    BY <1>1, <1>5, <2>1 DEF Names
  <2>2. CASE inbox # <<>> /\ inbox' = Tail(inbox)
    BY <1>1, <1>2, <1>5, <2>2
  <2>3. CASE inbox' = <<>>
    BY <2>3
  <2>4. ASSUME NEW m, inbox' = Append(inbox, m)
        PROVE  /\ \A k \in 1..Len(inbox') : Names(k, t)' =>
                     \/ k \in 1..Len(inbox) /\ Names(k, t)
                     \/ /\ k = Len(inbox) + 1
                        /\ m.kind = "turn/completed"
                        /\ m.thread = t
                        /\ m.turn # NoTurn
               /\ \A k \in 1..Len(inbox) : inbox'[k] = inbox[k]
               /\ inbox'[Len(inbox) + 1] = m
    BY <1>0, <2>4 DEF TypeOK, Names
  <2>5. ASSUME NEW m, inbox' = Append(inbox, m),
               ~(/\ m.kind = "turn/completed"
                 /\ m.thread = t
                 /\ m.turn # NoTurn)
        PROVE  /\ inbox'[i].turn = attempt'[t]
               /\ lastDone'[t] # attempt'[t]
               /\ \A j \in 1..Len(inbox') : Names(j, t)' => j = i
    BY <1>1, <1>5, <2>4, <2>5
  <2>6. ASSUME NEW u \in Threads, NEW n \in Turns, NEW s \in EndStatuses,
               TurnEnds(u, n) \/ Redeliver(u, n),
               inbox' = Append(inbox, Completion(u, n, s))
        PROVE  /\ inbox'[i].turn = attempt'[t]
               /\ lastDone'[t] # attempt'[t]
               /\ \A j \in 1..Len(inbox') : Names(j, t)' => j = i
    <3> DEFINE m == Completion(u, n, s)
    <3>1. /\ m.kind = "turn/completed"
          /\ m.thread = u
          /\ m.turn # NoTurn => m.turn = n
      BY DEF Completion
    <3>2. n = attempt[u]
      BY <1>0, <2>6, NewestIsSent DEF TurnEnds, Redeliver, session
    <3>3. turnStatus[u][n] # "ended"
      <4>1. CASE TurnEnds(u, n)  BY <4>1 DEF TurnEnds
      <4>2. CASE Redeliver(u, n)
        BY <1>0, <3>2, <4>2 DEF Redeliver, TypeOK
      <4> QED  BY <2>6, <4>1, <4>2
    <3>4. lastDone[u] # n
      BY <3>3 DEF OrderInv, LastDoneInOrder, Turns, NoTurn
    <3>5. \A k \in 1..Len(inbox) : ~Names(k, u)
      BY <1>0, <3>2, <3>3 DEF OrderInv, InboxInOrder, InboxAwaited
    <3> HIDE DEF m
    <3>6. inbox' = Append(inbox, m)  BY <2>6 DEF m
    <3>7. CASE u # t \/ m.turn = NoTurn
      BY <2>5, <3>1, <3>6, <3>7
    <3>8. CASE u = t /\ m.turn # NoTurn
      <4>1. \A k \in 1..Len(inbox') : Names(k, t)' => k = Len(inbox) + 1
        BY <2>4, <3>5, <3>6, <3>8
      <4> QED  BY <1>5, <2>4, <3>1, <3>2, <3>4, <3>6, <3>8, <4>1
    <3> QED  BY <3>7, <3>8
  <2>7. ASSUME NEW c, NEW r, inbox' = Append(inbox,
                  [kind |-> "response", call |-> c, result |-> r])
        PROVE  /\ inbox'[i].turn = attempt'[t]
               /\ lastDone'[t] # attempt'[t]
               /\ \A j \in 1..Len(inbox') : Names(j, t)' => j = i
    BY <2>5, <2>7
  <2> QED  BY <2>1, <2>2, <2>3, <2>6, <2>7, InboxMoves
<1> QED  BY <1>0, <1>3, <1>4, <1>5, OutcomesMove

\* At first there is nothing to be out of order.
LEMMA OrderInvInitially == Init => OrderInv
<1> SUFFICES ASSUME Init PROVE OrderInv  OBVIOUS
<1>1. LifeInv  BY LifeInvInitially
<1>2. TurnsInOrder /\ LastDoneInOrder
  BY DEF Init, TurnsInOrder, LastDoneInOrder, Turns, Open
<1>3. InboxInOrder /\ InboxAwaited
  BY DEF Init, InboxInOrder, InboxAwaited
<1> QED  BY <1>1, <1>2, <1>3 DEF OrderInv

\* Every step keeps the order.
LEMMA OrderInvPreserved ==
    ASSUME FewRepeats, OrderInv, [Next]_vars
    PROVE  OrderInv'
<1>1. LifeInv'  BY LifeInvPreserved DEF OrderInv
<1>2. InboxInOrder'  BY OrderOfMessages DEF FewRepeats
<1>3. Impatient => InboxAwaited'  BY MessagesAwaited DEF FewRepeats
<1> QED
  BY <1>1, <1>2, <1>3, OrderOfTurns, OrderOfOutcomes DEF OrderInv

-----------------------------------------------------------------------------
\* The order always holds.
LEMMA OrderInvHolds ==
    ASSUME FewRepeats
    PROVE  Spec => []OrderInv
<1>1. OrderInv /\ [Next]_vars => OrderInv'  BY OrderInvPreserved
<1> QED  BY <1>1, OrderInvInitially, PTL DEF Spec

\* The service never has two turns of one thread running.
THEOREM TurnsRunOneByOne ==
    ASSUME FewRepeats
    PROVE  Spec => []OneTurnAtATime
<1>1. OrderInv => OneTurnAtATime
  BY DEF OrderInv, TurnsInOrder, OneTurnAtATime
<1> QED  BY <1>1, OrderInvHolds, PTL

\* A session is called completed or interrupted only when its newest turn has
\* ended.
THEOREM OutcomesAreOfNewestTurn ==
    ASSUME FewRepeats
    PROVE  Spec => []OutcomeIsOfNewestTurn
<1>1. OrderInv => OutcomeIsOfNewestTurn
  BY DEF OrderInv, LastDoneInOrder, OutcomeIsOfNewestTurn
<1> QED  BY <1>1, OrderInvHolds, PTL

\* A late or repeated completion of an older turn finishes nothing.
THEOREM StaleCompletionsAreHarmless ==
    ASSUME FewRepeats
    PROVE  Spec => StaleCompletionHarmless
<1> DEFINE A == \A t \in Threads :
                  \/ lastDone'[t] # lastDone[t]
                  \/ /\ state'[t] # state[t]
                     /\ state'[t] \in {"completed", "interrupted"}
                  => lastDone'[t] = attempt[t]
<1>1. OrderInv /\ [Next]_vars => A
  <2> SUFFICES ASSUME OrderInv, [Next]_vars, NEW t \in Threads,
                      \/ lastDone'[t] # lastDone[t]
                      \/ /\ state'[t] # state[t]
                         /\ state'[t] \in {"completed", "interrupted"}
               PROVE  lastDone'[t] = attempt[t]
    OBVIOUS
  <2>1. LifeInv /\ TypeOK  BY DEF OrderInv, LifeInv
  <2>2. ~RegisterSession(t)
    BY <2>1, RegistersFirst DEF RegisterSession
  <2>3. ~FollowUp(t)
    BY <2>1, FollowsNewest DEF FollowUp
  <2>4. CompletionAccepted /\ Head(inbox).thread = t
    BY <2>1, <2>2, <2>3, OutcomesMove
  <2> DEFINE n == Head(inbox).turn
             s == Head(inbox).status
  <2>5. /\ state'[t] = Verdict(n, s)
        /\ lastDone'[t] = IF n # NoTurn THEN n ELSE lastDone[t]
    BY <2>1, <2>4 DEF CompletionAccepted, TypeOK
  <2>6. Verdict(n, s) \in {"completed", "interrupted"} => n # NoTurn
    BY DEF Verdict
  <2>7. n # NoTurn  BY <2>5, <2>6
  <2> QED  BY <2>4, <2>5, <2>7, AcceptedIsNewest
<1>2. OrderInv /\ [Next]_vars => [A]_vars  BY <1>1
<1> QED  BY <1>2, OrderInvHolds, PTL DEF Spec, StaleCompletionHarmless

-----------------------------------------------------------------------------
(* What shutdown() calls cancelled, of the sessions it interrupted.  The    *)
(* answer to an interrupt has been on record since the app-server gave it,  *)
(* and a turn that was told to stop, or has ended, never runs again.        *)

\* The app-server was told to interrupt the turn, or has ended it.
Stopped(t, n) == turnStatus[t][n] \in {"interrupting", "ended"}

\* A turn is started once, and only when it was asked for.
StartedOnce ==
    \A t \in Threads, n \in Turns :
        /\ n > attempt[t] => turnStatus[t][n] = "none"
        /\ TurnStart(t, n) \in requests =>
             n <= attempt[t] /\ turnStatus[t][n] = "none"

\* The message says that the interrupt c was handled.
Confirms(m, c) == m.kind = "response" /\ m.call = c /\ m.result = "ok"

\* Only what has stopped is confirmed, on the way or on record.
ConfirmedIsStopped ==
    \A t \in Threads, n \in Turns, x \in Stoppers :
        \/ future[Interrupt(t, n, x)] = "ok"
        \/ \E i \in 1..Len(inbox) : Confirms(inbox[i], Interrupt(t, n, x))
        => Stopped(t, n)

StopInv == LifeInv /\ StartedOnce /\ ConfirmedIsStopped

\* A registration finds a thread nothing was asked of.
LEMMA AttemptsGrow ==
    ASSUME LifeInv, [Next]_vars, NEW t \in Threads
    PROVE  /\ attempt[t] \in Nat /\ attempt'[t] \in Nat
           /\ attempt[t] <= attempt'[t]
           /\ RegisterSession(t) => attempt[t] = 0 /\ attempt'[t] = 1
           /\ FollowUp(t) => attempt'[t] = attempt[t] + 1
<1>1. attempt[t] \in Nat  BY DEF LifeInv, TypeOK
<1>2. ASSUME RegisterSession(t)
      PROVE  attempt[t] = 0 /\ attempt'[t] = 1
  BY <1>2 DEF RegisterSession, LifeInv, Registering, SessionsAsk, TypeOK
<1>3. ASSUME FollowUp(t)
      PROVE  attempt'[t] = attempt[t] + 1
  BY <1>3 DEF FollowUp, LifeInv, TypeOK
<1> QED  BY <1>1, <1>2, <1>3, AttemptsMove DEF LifeInv

\* A turn that was not started, nor asked for, is asked for before it starts.
LEMMA TurnsStartOnce ==
    ASSUME LifeInv, StartedOnce, [Next]_vars
    PROVE  StartedOnce'
<1> SUFFICES ASSUME NEW t \in Threads, NEW n \in Turns
             PROVE  /\ n > attempt'[t] => turnStatus'[t][n] = "none"
                    /\ TurnStart(t, n) \in requests' =>
                         n <= attempt'[t] /\ turnStatus'[t][n] = "none"
  BY DEF StartedOnce, TurnStart, Call
<1>1. TypeOK /\ n \in Nat  BY DEF LifeInv, Turns
<1>2. /\ attempt[t] \in Nat /\ attempt'[t] \in Nat
      /\ attempt[t] <= attempt'[t]
  BY AttemptsGrow
<1>3. /\ n > attempt[t] => turnStatus[t][n] = "none"
      /\ TurnStart(t, n) \in requests =>
           n <= attempt[t] /\ turnStatus[t][n] = "none"
  BY DEF StartedOnce
<1>4. ServerStartsTurn(t, n) => TurnStart(t, n) \in requests
  BY DEF ServerStartsTurn, Answer
<1>5. turnStatus[t][n] = "none" /\ ~ServerStartsTurn(t, n)
         => turnStatus'[t][n] = "none"
  BY <1>1, TurnsMove
<1>6. n > attempt'[t] => turnStatus'[t][n] = "none"
  BY <1>1, <1>2, <1>3, <1>4, <1>5
<1>7. ASSUME TurnStart(t, n) \in requests'
      PROVE  n <= attempt'[t] /\ turnStatus'[t][n] = "none"
  <2>1. CASE TurnStart(t, n) \in requests /\ ~ServerStartsTurn(t, n)
    BY <1>1, <1>2, <1>3, <1>5, <2>1
  <2>2. ASSUME \/ RegisterSession(t) /\ n = 1
               \/ FollowUp(t) /\ n = attempt[t] + 1
        PROVE  n <= attempt'[t] /\ turnStatus'[t][n] = "none"
    <3>1. n = attempt'[t] /\ n > attempt[t]
      BY <1>1, <1>2, <2>2, AttemptsGrow
    <3>2. turnStatus' = turnStatus
      BY <2>2 DEF RegisterSession, FollowUp
    <3> QED  BY <1>2, <1>3, <3>1, <3>2
  <2> QED  BY <1>1, <1>7, <2>1, <2>2, RequestsMove
<1> QED  BY <1>6, <1>7

\* A turn that was told to stop is not started again.
LEMMA StoppedStays ==
    ASSUME TypeOK, StartedOnce, [Next]_vars,
           NEW t \in Threads, NEW n \in Turns, Stopped(t, n)
    PROVE  Stopped(t, n)'
<1>1. ~ServerStartsTurn(t, n)
  BY DEF ServerStartsTurn, Answer, StartedOnce, Stopped
<1> QED  BY <1>1, TurnsMove DEF Stopped

\* A call succeeds when the reader dispatches its answer, and only then.
LEMMA CallsSucceed ==
    ASSUME TypeOK, [Next]_vars, NEW c \in Calls,
           future'[c] = "ok", future[c] # "ok"
    PROVE  inbox # <<>> /\ Confirms(Head(inbox), c)
<1>1. ASSUME NEW cs, Issue(cs)
      PROVE  FALSE
  BY <1>1 DEF Issue
<1>2. ASSUME NEW d, Return(d)
      PROVE  FALSE
  BY <1>2 DEF Return, TypeOK
<1>3. ASSUME NEW u \in Threads, Handlers(u) \/ Continuations(u)
      PROVE  FALSE
  <2>1. CASE RegisterSession(u)
    BY <2>1 DEF RegisterSession, TypeOK
  <2> QED
    BY <1>1, <1>2, <1>3, <2>1 DEF Handlers, Continuations, BeginStart, FollowUp,
       CancelSession, StartRejected, TurnStarted, TurnStartFailed,
       CancelConfirmed, CancelUnconfirmed
<1>4. ASSUME NEW x \in Stoppers, AnnounceShutdown(x) \/ ShutdownProceeds(x)
      PROVE  FALSE
  BY <1>1, <1>4 DEF AnnounceShutdown, ShutdownProceeds, StopNewWork, Settle,
       wire, InterruptActive, FinishIdleShutdown, FinishShutdown,
       ShutdownTimesOut
<1>5. ASSUME NEW u \in Threads, ServerTurns(u)
      PROVE  FALSE
  BY <1>5 DEF ServerTurns, TurnEnds, Redeliver, ServerStartsThread,
       ServerStartsTurn, ServerInterrupts, Answer
<1>6. ASSUME NEW d \in Calls, CallFails(d) \/ ServerRejects(d)
      PROVE  FALSE
  BY <1>6 DEF CallFails, ServerRejects, Answer, TypeOK
<1>7. ASSUME DispatchResponse
      PROVE  inbox # <<>> /\ Confirms(Head(inbox), c)
  BY <1>7 DEF DispatchResponse, Confirms, TypeOK
<1>8. ASSUME \/ CompletionIgnored \/ CompletionAccepted \/ EvidenceSaved
             \/ ConnectionLost \/ ClientClosed \/ UNCHANGED vars
      PROVE  FALSE
  BY <1>8 DEF CompletionIgnored, CompletionAccepted, EvidenceSaved, Sever,
       ConnectionLost, ClientClosed, vars, wire
<1> QED
  BY <1>3, <1>4, <1>5, <1>6, <1>7, <1>8 DEF Next, Dispatch

\* A confirmation was under way before, or the app-server has just given it.
LEMMA ConfirmationsMove ==
    ASSUME TypeOK, [Next]_vars, NEW t \in Threads, NEW n \in Turns,
           NEW x \in Stoppers, NEW i \in 1..Len(inbox'),
           Confirms(inbox'[i], Interrupt(t, n, x))
    PROVE  \/ \E j \in 1..Len(inbox) : Confirms(inbox[j], Interrupt(t, n, x))
           \/ ServerInterrupts(t, n, x)
<1> DEFINE k == Interrupt(t, n, x)
           Before == \E j \in 1..Len(inbox) : Confirms(inbox[j], k)
<1>1. CASE inbox' = inbox  BY <1>1
<1>2. CASE inbox # <<>> /\ inbox' = Tail(inbox)
  <2>1. i + 1 \in 1..Len(inbox) /\ inbox'[i] = inbox[i + 1]
    BY <1>2 DEF TypeOK
  <2> QED  BY <2>1
<1>3. inbox' # <<>>  OBVIOUS
<1>4. ASSUME NEW m, inbox' = Append(inbox, m), ~Before
      PROVE  Confirms(m, k)
  BY <1>4 DEF TypeOK
<1>5. ASSUME NEW c, NEW r, Answers(c, r),
             inbox' = Append(inbox,
                        [kind |-> "response", call |-> c, result |-> r])
      PROVE  Before \/ ServerInterrupts(t, n, x)
  <2> SUFFICES ASSUME ~Before PROVE ServerInterrupts(t, n, x)  OBVIOUS
  <2>1. c = k /\ r = "ok"  BY <1>4, <1>5 DEF Confirms
  <2>2. c.op = "turn/interrupt"  BY <2>1 DEF Interrupt, Call
  <2>3. PICK u \in Threads, m \in Turns, y \in Stoppers \cup {"client"} :
           c = Interrupt(u, m, y) /\ ServerInterrupts(u, m, y)
    BY <1>5, <2>1, <2>2 DEF Answers
  <2>4. t = u /\ n = m /\ x = y  BY <2>1, <2>3 DEF Interrupt, Call
  <2> QED  BY <2>3, <2>4
<1>6. ASSUME NEW u \in Threads, NEW m \in Turns, NEW s \in EndStatuses,
             inbox' = Append(inbox, Completion(u, m, s))
      PROVE  Before
  BY <1>4, <1>6 DEF Confirms, Completion
<1> QED  BY <1>1, <1>2, <1>3, <1>5, <1>6, InboxMoves

\* Every confirmation stays true.
LEMMA ConfirmationsStay ==
    ASSUME LifeInv, StartedOnce, ConfirmedIsStopped, [Next]_vars
    PROVE  ConfirmedIsStopped'
<1> SUFFICES ASSUME NEW t \in Threads, NEW n \in Turns, NEW x \in Stoppers,
                    \/ future'[Interrupt(t, n, x)] = "ok"
                    \/ \E i \in 1..Len(inbox') :
                          Confirms(inbox'[i], Interrupt(t, n, x))
             PROVE  Stopped(t, n)'
  BY DEF ConfirmedIsStopped, Interrupt, Call, Confirms
<1>0. TypeOK  BY DEF LifeInv
<1>1. Interrupt(t, n, x) \in Calls  BY CallTypes
<1>2. CASE \/ future[Interrupt(t, n, x)] = "ok"
           \/ \E i \in 1..Len(inbox) : Confirms(inbox[i], Interrupt(t, n, x))
  <2>1. Stopped(t, n)  BY <1>2 DEF ConfirmedIsStopped
  <2> QED  BY <1>0, <2>1, StoppedStays
<1>3. CASE ServerInterrupts(t, n, x)
  <2>1. turnStatus[t][n] \in {"running", "interrupting", "ended"}
    BY <1>0, <1>3 DEF ServerInterrupts, TypeOK
  <2> QED  BY <1>0, <1>3, <2>1 DEF ServerInterrupts, Stopped, TypeOK
<1>4. ASSUME future'[Interrupt(t, n, x)] = "ok",
             future[Interrupt(t, n, x)] # "ok"
      PROVE  \E i \in 1..Len(inbox) : Confirms(inbox[i], Interrupt(t, n, x))
  <2>1. inbox # <<>> /\ Confirms(Head(inbox), Interrupt(t, n, x))
    BY <1>0, <1>1, <1>4, CallsSucceed
  <2>2. 1 \in 1..Len(inbox) /\ Head(inbox) = inbox[1]
    BY <1>0, <2>1 DEF TypeOK
  <2> QED  BY <2>1, <2>2
<1> QED  BY <1>0, <1>2, <1>3, <1>4, ConfirmationsMove

\* What is confirmed has stopped, in every state.
LEMMA StopInvHolds == Spec => []StopInv
<1>1. Init => StopInv
  <2> SUFFICES ASSUME Init PROVE StopInv  OBVIOUS
  <2>1. \A t \in Threads, n \in Turns, x \in Stoppers :
           future[Interrupt(t, n, x)] = "idle"
    BY CallTypes DEF Init
  <2>2. StartedOnce  BY DEF Init, StartedOnce
  <2>3. ConfirmedIsStopped  BY <2>1 DEF Init, ConfirmedIsStopped
  <2> QED  BY <2>2, <2>3, LifeInvInitially DEF StopInv
<1>2. StopInv /\ [Next]_vars => StopInv'
  BY LifeInvPreserved, TurnsStartOnce, ConfirmationsStay DEF StopInv
<1> QED  BY <1>1, <1>2, PTL DEF Spec

\* Of the sessions whose turn it interrupts shutdown() calls only those
\* cancelled whose interrupt the app-server has handled.
THEOREM CancellationsAreConfirmed == Spec => CancelledOnConfirmation
<1> DEFINE A == \A x \in Stoppers, t \in Threads, n \in Turns :
                  /\ stop'[x] # stop[x]
                  /\ <<t, n>> \in Targets(x)
                  /\ state'[t] # state[t]
                  /\ state'[t] = "cancelled"
                  => turnStatus[t][n] \in {"interrupting", "ended"}
<1>1. StopInv /\ [Next]_vars => A
  <2> SUFFICES ASSUME StopInv, [Next]_vars, NEW x \in Stoppers,
                      NEW t \in Threads, NEW n \in Turns,
                      stop'[x] # stop[x], <<t, n>> \in Targets(x),
                      state'[t] # state[t], state'[t] = "cancelled"
               PROVE  Stopped(t, n)
    BY DEF Stopped
  <2>0. TypeOK  BY DEF StopInv, LifeInv
  <2>1. PICK y \in Stoppers : AnnounceShutdown(y) \/ ShutdownProceeds(y)
    BY ControlSteps DEF StopInv, LifeInv, ConnectionLost, ClientClosed, Sever
  <2>2. ~AnnounceShutdown(y) /\ ~StopNewWork(y) /\ ~InterruptActive(y)
    BY DEF AnnounceShutdown, StopNewWork, InterruptActive, session
  <2>3. \/ FinishIdleShutdown(y) \/ FinishShutdown(y) \/ ShutdownTimesOut(y)
    BY <2>1, <2>2 DEF ShutdownProceeds
  <2>4. x = y
    BY <2>0, <2>3 DEF FinishIdleShutdown, FinishShutdown, ShutdownTimesOut,
                      Settle, TypeOK
  <2>5. ASSUME NEW failed, Settle(y, failed)
        PROVE  state[t] = "active" /\ turn[t] # NoTurn /\ t \notin failed
    BY <2>5 DEF Settle, Doubtful, Unaddressed, Live
  <2>6. ~FinishIdleShutdown(y)
    BY <2>5 DEF FinishIdleShutdown, Interruptible
  <2>7. ~ShutdownTimesOut(y)
    BY <2>4, <2>5 DEF ShutdownTimesOut
  <2>8. CASE FinishShutdown(y)
    <3>1. future[Interrupt(t, n, x)] \in {"ok", "error"}
      BY <2>4, <2>8 DEF FinishShutdown, Answered
    <3>2. future[Interrupt(t, n, x)] # "error"
      BY <2>4, <2>5, <2>8 DEF FinishShutdown
    <3> QED  BY <3>1, <3>2 DEF StopInv, ConfirmedIsStopped
  <2> QED  BY <2>3, <2>6, <2>7, <2>8
<1>2. StopInv /\ [Next]_vars => [A]_vars  BY <1>1
<1> QED  BY <1>2, StopInvHolds, PTL DEF Spec, CancelledOnConfirmation
=============================================================================
