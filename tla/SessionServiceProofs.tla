----------------------- MODULE SessionServiceProofs -----------------------
(***************************************************************************)
(* Theorems about SessionService, for any set of threads and shutdown()    *)
(* calls and any bounds.                                                   *)
(***************************************************************************)
EXTENDS SessionService, TLAPS

-----------------------------------------------------------------------------
(* What the building blocks of the handlers preserve.                      *)

\* The calls handlers make are calls.
LEMMA CallTypes ==
    ASSUME NEW t \in Threads
    PROVE  /\ ThreadStart(t) \in Calls
           /\ \A n \in Turns : TurnStart(t, n) \in Calls
           /\ \A n \in Turns, x \in Stoppers \cup {"client"} :
                 Interrupt(t, n, x) \in Calls
BY DEF Calls

\* Saving keeps the state file well-formed.
LEMMA PersistTypes ==
    ASSUME state' \in [Threads -> States],
           turn' \in [Threads -> Turns \cup {NoTurn}],
           Persist
    PROVE  disk' \in [Threads -> Snapshots]
BY DEF Persist, SnapshotAfter, Snapshots

\* Publishing keeps the events well-formed.
LEMMA PublishTypes ==
    ASSUME state' \in [Threads -> States],
           turn' \in [Threads -> Turns \cup {NoTurn}],
           published \in [Threads -> Snapshots],
           NEW ts, Publish(ts)
    PROVE  published' \in [Threads -> Snapshots]
BY DEF Publish, SnapshotAfter, Snapshots

\* Issuing calls keeps futures and requests well-formed.
LEMMA IssueTypes ==
    ASSUME TypeOK, NEW cs \in SUBSET Calls, Issue(cs)
    PROVE  /\ future' \in [Calls -> {"idle", "waiting", "ok", "error", "done"}]
           /\ requests' \in SUBSET Calls
BY DEF Issue, TypeOK

\* Reading a message leaves messages in the inbox.
LEMMA InboxTypes ==
    ASSUME inbox \in Seq(Responses \cup Completions), inbox # <<>>
    PROVE  /\ Head(inbox) \in Responses \cup Completions
           /\ Tail(inbox) \in Seq(Responses \cup Completions)
OBVIOUS

\* So does losing them all.
LEMMA EmptyInbox == <<>> \in Seq(Responses \cup Completions)
OBVIOUS

-----------------------------------------------------------------------------
\* Handlers and their continuations.

\* The handlers up to their first await keep the types.
LEMMA HandlersTypes ==
    ASSUME TypeOK, NEW t \in Threads, Handlers(t)
    PROVE  TypeOK'
<1> USE DEF session, wire, control
<1>1. CASE BeginStart(t)
  <2>1. Issue({ThreadStart(t)})  BY <1>1 DEF BeginStart
  <2>2. {ThreadStart(t)} \in SUBSET Calls  BY CallTypes
  <2> QED  BY <1>1, <2>1, <2>2, IssueTypes DEF BeginStart, TypeOK
<1>2. CASE FollowUp(t)
  <2>1. attempt[t] + 1 \in Turns
    BY <1>2, MaxTurnsAssumption DEF FollowUp, TypeOK, Turns
  <2>2. {TurnStart(t, attempt[t] + 1)} \in SUBSET Calls
    BY <2>1, CallTypes
  <2>3. Issue({TurnStart(t, attempt[t] + 1)})  BY <1>2 DEF FollowUp
  <2>4. /\ state' \in [Threads -> States]
        /\ turn' \in [Threads -> Turns \cup {NoTurn}]
    BY <1>2 DEF FollowUp, TypeOK, States, Open
  <2>5. attempt' \in [Threads -> 0..MaxTurns]
    BY <1>2, <2>1 DEF FollowUp, TypeOK, Turns
  <2> QED  BY <1>2, <2>2, <2>3, <2>4, <2>5, IssueTypes DEF FollowUp, TypeOK
<1>3. CASE CancelSession(t)
  <2>1. {Interrupt(t, turn[t], "client")} \in SUBSET Calls
    BY <1>3, CallTypes DEF CancelSession, TypeOK
  <2>2. Issue({Interrupt(t, turn[t], "client")})  BY <1>3 DEF CancelSession
  <2>3. /\ state' \in [Threads -> States]
        /\ turn' \in [Threads -> Turns \cup {NoTurn}]
    BY <1>3 DEF CancelSession, TypeOK, States, Open
  <2>4. /\ disk' \in [Threads -> Snapshots]
        /\ published' \in [Threads -> Snapshots]
    BY <1>3, <2>3, PersistTypes, PublishTypes DEF CancelSession, TypeOK
  <2> QED  BY <1>3, <2>1, <2>2, <2>3, <2>4, IssueTypes DEF CancelSession, TypeOK
<1> QED  BY <1>1, <1>2, <1>3 DEF Handlers

\* What follows the await of a start, follow-up or cancel keeps the types.
LEMMA ContinuationsTypes ==
    ASSUME TypeOK, NEW t \in Threads, Continuations(t)
    PROVE  TypeOK'
<1> USE DEF session, wire, control
<1>1. CASE RegisterSession(t)
  <2>1. 1 \in Turns /\ 1 \in 0..MaxTurns  BY MaxTurnsAssumption DEF Turns
  <2>2. TurnStart(t, 1) \in Calls  BY <2>1, CallTypes
  <2>3. /\ state' \in [Threads -> States]
        /\ turn' \in [Threads -> Turns \cup {NoTurn}]
        /\ attempt' \in [Threads -> 0..MaxTurns]
    BY <1>1, <2>1 DEF RegisterSession, TypeOK, States, Open
  <2>4. disk' \in [Threads -> Snapshots]
    BY <1>1, <2>3, PersistTypes DEF RegisterSession
  <2> QED  BY <1>1, <2>2, <2>3, <2>4 DEF RegisterSession, TypeOK
<1>2. CASE StartRejected(t)
  BY <1>2 DEF StartRejected, Return, TypeOK
<1>3. ASSUME NEW n \in Turns, TurnStarted(t, n)
      PROVE  TypeOK'
  <2>1. /\ state' \in [Threads -> States]
        /\ turn' \in [Threads -> Turns \cup {NoTurn}]
    BY <1>3 DEF TurnStarted, TypeOK
  <2>2. /\ disk' \in [Threads -> Snapshots]
        /\ published' \in [Threads -> Snapshots]
    BY <1>3, <2>1, PersistTypes, PublishTypes DEF TurnStarted, TypeOK
  <2> QED  BY <1>3, <2>1, <2>2 DEF TurnStarted, Return, TypeOK
<1>4. ASSUME NEW n \in Turns, TurnStartFailed(t, n)
      PROVE  TypeOK'
  <2>1. /\ state' \in [Threads -> States]
        /\ turn' \in [Threads -> Turns \cup {NoTurn}]
    BY <1>4 DEF TurnStartFailed, TypeOK, States, Recognised
  <2>2. published' \in [Threads -> Snapshots]
    BY <1>4, <2>1, PublishTypes DEF TurnStartFailed, TypeOK
  <2> QED  BY <1>4, <2>1, <2>2 DEF TurnStartFailed, Return, TypeOK
<1>5. ASSUME NEW n \in Turns, CancelConfirmed(t, n)
      PROVE  TypeOK'
  BY <1>5 DEF CancelConfirmed, Return, TypeOK
<1>6. ASSUME NEW n \in Turns, CancelUnconfirmed(t, n)
      PROVE  TypeOK'
  <2>1. /\ state' \in [Threads -> States]
        /\ turn' \in [Threads -> Turns \cup {NoTurn}]
    BY <1>6 DEF CancelUnconfirmed, TypeOK, States, Open
  <2>2. /\ disk' \in [Threads -> Snapshots]
        /\ published' \in [Threads -> Snapshots]
    BY <1>6, <2>1, PersistTypes, PublishTypes DEF CancelUnconfirmed, TypeOK
  <2> QED  BY <1>6, <2>1, <2>2 DEF CancelUnconfirmed, Return, TypeOK
<1> QED  BY <1>1, <1>2, <1>3, <1>4, <1>5, <1>6 DEF Continuations

\* The reader, the loss of the connection, and calls that give up.
LEMMA ReaderTypes ==
    ASSUME TypeOK,
           \/ Dispatch \/ ConnectionLost \/ ClientClosed \/ EvidenceSaved
           \/ \E c \in Calls : CallFails(c)
    PROVE  TypeOK'
<1> USE DEF session, wire, control
<1>1. CASE DispatchResponse
  <2>1. Head(inbox) \in Responses
    BY <1>1, InboxTypes DEF DispatchResponse, TypeOK, Completions, Responses
  <2>2. /\ Head(inbox).call \in Calls
        /\ Head(inbox).result \in {"ok", "error"}
    BY <2>1 DEF Responses
  <2>3. inbox' \in Seq(Responses \cup Completions)
    BY <1>1, InboxTypes DEF DispatchResponse, TypeOK
  <2> QED  BY <1>1, <2>2, <2>3 DEF DispatchResponse, TypeOK
<1>2. CASE CompletionIgnored
  <2>1. inbox' \in Seq(Responses \cup Completions)
    BY <1>2, InboxTypes DEF CompletionIgnored, TypeOK
  <2> QED  BY <1>2, <2>1 DEF CompletionIgnored, TypeOK
<1>3. CASE CompletionAccepted
  <2>1. Head(inbox) \in Completions
    BY <1>3, InboxTypes DEF CompletionAccepted, TypeOK, Completions, Responses
  <2> DEFINE t == Head(inbox).thread
             n == Head(inbox).turn
             s == Head(inbox).status
  <2>2. t \in Threads /\ n \in Turns \cup {NoTurn}
    BY <2>1 DEF Completions
  <2>3. Verdict(n, s) \in States
    BY DEF Verdict, States
  <2>4. /\ state' = [state EXCEPT ![t] = Verdict(n, s)]
        /\ lastDone' = [lastDone EXCEPT ![t] = IF n # NoTurn THEN n ELSE @]
        /\ turn' = [turn EXCEPT ![t] = NoTurn]
        /\ Publish({t})
    BY <1>3 DEF CompletionAccepted
  <2>5. /\ state' \in [Threads -> States]
        /\ turn' \in [Threads -> Turns \cup {NoTurn}]
        /\ lastDone' \in [Threads -> Turns \cup {NoTurn}]
    BY <2>2, <2>3, <2>4 DEF TypeOK
  <2>6. /\ disk' \in [Threads -> Snapshots]
        /\ published' \in [Threads -> Snapshots]
    BY <1>3, <2>4, <2>5, PersistTypes, PublishTypes
       DEF CompletionAccepted, TypeOK
  <2>7. inbox' \in Seq(Responses \cup Completions)
    BY <1>3, InboxTypes DEF CompletionAccepted, TypeOK
  <2> QED  BY <1>3, <2>5, <2>6, <2>7 DEF CompletionAccepted, TypeOK
<1>4. CASE ConnectionLost
  <2>1. /\ state' \in [Threads -> States]
        /\ turn' \in [Threads -> Turns \cup {NoTurn}]
    BY <1>4 DEF ConnectionLost, TypeOK, States
  <2>2. /\ disk' \in [Threads -> Snapshots]
        /\ published' \in [Threads -> Snapshots]
    BY <1>4, <2>1, PersistTypes, PublishTypes DEF ConnectionLost, TypeOK
  <2>3. inbox' \in Seq(Responses \cup Completions)
    BY <1>4, EmptyInbox DEF ConnectionLost, Sever
  <2> QED  BY <1>4, <2>1, <2>2, <2>3 DEF ConnectionLost, Sever, TypeOK
<1>5. CASE ClientClosed
  <2>1. inbox' \in Seq(Responses \cup Completions)
    BY <1>5, EmptyInbox DEF ClientClosed, Sever
  <2> QED  BY <1>5, <2>1 DEF ClientClosed, Sever, TypeOK
<1>6. CASE EvidenceSaved
  <2>1. disk' \in [Threads -> Snapshots]
    BY <1>6, PersistTypes DEF EvidenceSaved, TypeOK
  <2> QED  BY <1>6, <2>1 DEF EvidenceSaved, TypeOK
<1>7. ASSUME NEW c \in Calls, CallFails(c)
      PROVE  TypeOK'
  BY <1>7 DEF CallFails, TypeOK
<1> QED  BY <1>1, <1>2, <1>3, <1>4, <1>5, <1>6, <1>7 DEF Dispatch

\* The marking pass of shutdown().
LEMMA SettleTypes ==
    ASSUME TypeOK, NEW x \in Stoppers, NEW failed, Settle(x, failed),
           UNCHANGED <<inbox, turnStatus>>
    PROVE  TypeOK'
<1>1. /\ state' \in [Threads -> States]
      /\ turn' \in [Threads -> Turns \cup {NoTurn}]
  BY DEF Settle, TypeOK, States
<1>2. /\ disk' \in [Threads -> Snapshots]
      /\ published' \in [Threads -> Snapshots]
  BY <1>1, PersistTypes, PublishTypes DEF Settle, TypeOK
<1>3. future' \in [Calls -> {"idle", "waiting", "ok", "error", "done"}]
  BY DEF Settle, TypeOK
<1> QED  BY <1>1, <1>2, <1>3 DEF Settle, TypeOK

\* The stages of shutdown() keep the types.
LEMMA ShutdownTypes ==
    ASSUME TypeOK, NEW x \in Stoppers,
           AnnounceShutdown(x) \/ ShutdownProceeds(x)
    PROVE  TypeOK'
<1> USE DEF session, wire, control
<1>1. CASE AnnounceShutdown(x)  BY <1>1 DEF AnnounceShutdown, TypeOK
<1>2. CASE StopNewWork(x)  BY <1>2 DEF StopNewWork, TypeOK
<1>3. CASE InterruptActive(x)
  <2>1. {Interrupt(t, turn[t], x): t \in Interruptible} \in SUBSET Calls
    BY CallTypes DEF Interruptible, TypeOK
  <2> QED  BY <1>3, <2>1, IssueTypes DEF InterruptActive, TypeOK
<1>4. CASE FinishIdleShutdown(x)
  BY <1>4, SettleTypes DEF FinishIdleShutdown, Settle
<1>5. CASE FinishShutdown(x)
  BY <1>5, SettleTypes DEF FinishShutdown, Settle
<1>6. CASE ShutdownTimesOut(x)
  BY <1>6, SettleTypes DEF ShutdownTimesOut, Settle
<1> QED  BY <1>1, <1>2, <1>3, <1>4, <1>5, <1>6 DEF ShutdownProceeds

\* The app-server answers, ends a turn, or repeats a completion.
LEMMA AnswerTypes ==
    ASSUME TypeOK, NEW c \in Calls, NEW r \in {"ok", "error"}, Answer(c, r),
           turnStatus' \in
             [Threads -> [Turns -> {"none", "running", "interrupting", "ended"}]]
    PROVE  TypeOK'
<1>1. [kind |-> "response", call |-> c, result |-> r] \in Responses
  BY DEF Responses
<1>2. inbox' \in Seq(Responses \cup Completions)
  BY <1>1 DEF Answer, TypeOK
<1> QED  BY <1>2 DEF Answer, TypeOK, session, control

\* A completion message is one.
LEMMA CompletionTypes ==
    ASSUME NEW t \in Threads, NEW n \in Turns, NEW s \in EndStatuses
    PROVE  Completion(t, n, s) \in Completions
BY DEF Completion, Completions

\* What the app-server does keeps the types.
LEMMA ServerTypes ==
    ASSUME TypeOK,
           \/ \E t \in Threads : ServerTurns(t)
           \/ \E c \in Calls : ServerRejects(c)
    PROVE  TypeOK'
<1>1. ASSUME NEW t \in Threads, ServerStartsThread(t)
      PROVE  TypeOK'
  BY <1>1, CallTypes, AnswerTypes DEF ServerStartsThread, TypeOK
<1>2. ASSUME NEW t \in Threads, NEW n \in Turns, ServerStartsTurn(t, n)
      PROVE  TypeOK'
  <2>1. turnStatus' \in
         [Threads -> [Turns -> {"none", "running", "interrupting", "ended"}]]
    BY <1>2 DEF ServerStartsTurn, TypeOK
  <2> QED  BY <1>2, <2>1, CallTypes, AnswerTypes DEF ServerStartsTurn
<1>3. ASSUME NEW t \in Threads, NEW n \in Turns,
             NEW x \in Stoppers \cup {"client"}, ServerInterrupts(t, n, x)
      PROVE  TypeOK'
  <2>1. turnStatus' \in
         [Threads -> [Turns -> {"none", "running", "interrupting", "ended"}]]
    BY <1>3 DEF ServerInterrupts, TypeOK
  <2> QED  BY <1>3, <2>1, CallTypes, AnswerTypes DEF ServerInterrupts
<1>4. ASSUME NEW t \in Threads, NEW n \in Turns, TurnEnds(t, n)
      PROVE  TypeOK'
  <2>1. turnStatus' \in
         [Threads -> [Turns -> {"none", "running", "interrupting", "ended"}]]
    BY <1>4 DEF TurnEnds, TypeOK
  <2>2. inbox' \in Seq(Responses \cup Completions)
    BY <1>4, CompletionTypes DEF TurnEnds, TypeOK
  <2> QED  BY <1>4, <2>1, <2>2 DEF TurnEnds, TypeOK, session, control
<1>5. ASSUME NEW t \in Threads, NEW n \in Turns, Redeliver(t, n)
      PROVE  TypeOK'
  <2>1. inbox' \in Seq(Responses \cup Completions)
    BY <1>5, CompletionTypes DEF Redeliver, TypeOK
  <2> QED  BY <1>5, <2>1 DEF Redeliver, TypeOK, session, control
<1>6. ASSUME NEW c \in Calls, ServerRejects(c)
      PROVE  TypeOK'
  BY <1>6, AnswerTypes DEF ServerRejects, TypeOK
<1> QED  BY <1>1, <1>2, <1>3, <1>4, <1>5, <1>6 DEF ServerTurns

\* Before the first request the types hold.
LEMMA TypeInitially == Init => TypeOK
<1> SUFFICES ASSUME Init PROVE TypeOK  OBVIOUS
<1>1. [state |-> "none", turn |-> NoTurn] \in Snapshots
  BY DEF Snapshots, States
<1>2. 0 \in 0..MaxTurns  BY MaxTurnsAssumption
<1>3. inbox \in Seq(Responses \cup Completions)  BY EmptyInbox DEF Init
<1> QED  BY <1>1, <1>2, <1>3 DEF Init, TypeOK, States

\* Every step keeps the types.
LEMMA TypePreserved == TypeOK /\ [Next]_vars => TypeOK'
<1> SUFFICES ASSUME TypeOK, [Next]_vars PROVE TypeOK'  OBVIOUS
<1>1. CASE UNCHANGED vars
  BY <1>1 DEF vars, session, wire, control, TypeOK
<1>2. CASE Next
  BY <1>2, HandlersTypes, ContinuationsTypes, ReaderTypes, ShutdownTypes,
     ServerTypes DEF Next
<1> QED  BY <1>1, <1>2

\* The variables hold what their comments say in every reachable state.
THEOREM TypeCorrect == Spec => []TypeOK
BY TypeInitially, TypePreserved, PTL DEF Spec

-----------------------------------------------------------------------------
(* Most steps leave the sessions and their records alone.                  *)

Quiet == UNCHANGED <<session, disk, published>>

\* The steps that change a session, the file or the newest event.
LEMMA LoudSteps ==
    ASSUME [Next]_vars
    PROVE  \/ Quiet
           \/ EvidenceSaved
           \/ ConnectionLost
           \/ CompletionAccepted
           \/ \E t \in Threads :
                \/ RegisterSession(t) \/ FollowUp(t) \/ CancelSession(t)
                \/ \E n \in Turns : \/ TurnStarted(t, n)
                                    \/ TurnStartFailed(t, n)
                                    \/ CancelUnconfirmed(t, n)
           \/ \E x \in Stoppers : \/ FinishIdleShutdown(x)
                                 \/ FinishShutdown(x)
                                 \/ ShutdownTimesOut(x)
<1>1. CASE UNCHANGED vars  BY <1>1 DEF vars, Quiet
<1>2. CASE DispatchResponse \/ CompletionIgnored \/ ClientClosed
           \/ \E c \in Calls : CallFails(c)
  BY <1>2 DEF DispatchResponse, CompletionIgnored, ClientClosed,
              CallFails, Quiet
<1>3. ASSUME NEW t \in Threads, Handlers(t) \/ Continuations(t)
      PROVE  \/ Quiet
             \/ RegisterSession(t) \/ FollowUp(t) \/ CancelSession(t)
             \/ \E n \in Turns : \/ TurnStarted(t, n)
                                 \/ TurnStartFailed(t, n)
                                 \/ CancelUnconfirmed(t, n)
  BY <1>3 DEF Handlers, Continuations, BeginStart, StartRejected,
              CancelConfirmed, Quiet
<1>4. ASSUME NEW x \in Stoppers, AnnounceShutdown(x) \/ ShutdownProceeds(x)
      PROVE  \/ Quiet
             \/ FinishIdleShutdown(x) \/ FinishShutdown(x)
             \/ ShutdownTimesOut(x)
  BY <1>4 DEF ShutdownProceeds, AnnounceShutdown, StopNewWork,
              InterruptActive, Quiet
<1>5. ASSUME NEW c, NEW r, Answer(c, r) PROVE Quiet
  BY <1>5 DEF Answer, Quiet
<1>6. ASSUME NEW t \in Threads, ServerTurns(t) PROVE Quiet
  <2>1. ASSUME NEW n \in Turns, TurnEnds(t, n) \/ Redeliver(t, n) PROVE Quiet
    BY <2>1 DEF TurnEnds, Redeliver, Quiet
  <2> QED BY <1>5, <1>6, <2>1 DEF ServerTurns, ServerStartsThread,
                                  ServerStartsTurn, ServerInterrupts
<1>7. ASSUME NEW c \in Calls, ServerRejects(c) PROVE Quiet
  BY <1>5, <1>7 DEF ServerRejects
<1> QED  BY <1>1, <1>2, <1>3, <1>4, <1>6, <1>7 DEF Next, Dispatch

-----------------------------------------------------------------------------
(* The state file.                                                         *)

\* _persist_sessions saves every session, not only the one that changed.
LEMMA PersistSavesAll ==
    ASSUME Persist
    PROVE  \A t \in Threads : Saved(t)'
BY DEF Persist, SnapshotAfter, Saved

\* Every outcome but a failed start is in the state file: each step either
\* saves the whole registry or leaves outcomes and file as they are.
THEOREM OutcomesAreDurable == Spec => []DurableOutcome
<1>1. Init => DurableOutcome
  BY DEF Init, DurableOutcome, Saved
<1>2. TypeOK /\ DurableOutcome /\ [Next]_vars => DurableOutcome'
  <2> SUFFICES ASSUME TypeOK, DurableOutcome, [Next]_vars
               PROVE  DurableOutcome'
    OBVIOUS
  <2>1. CASE Persist  BY <2>1, PersistSavesAll DEF DurableOutcome
  <2>2. CASE Quiet  BY <2>2 DEF Quiet, session, DurableOutcome, Saved
  <2>3. ASSUME NEW t \in Threads, FollowUp(t)
        PROVE  DurableOutcome'
    BY <2>3 DEF FollowUp, DurableOutcome, Saved, TypeOK
  <2>4. ASSUME NEW t \in Threads, NEW n \in Turns, TurnStartFailed(t, n)
        PROVE  DurableOutcome'
    BY <2>4 DEF TurnStartFailed, DurableOutcome, Saved, TypeOK
  <2>5. ASSUME NEW t \in Threads, NEW n \in Turns, CancelUnconfirmed(t, n)
        PROVE  DurableOutcome'
    BY <2>5, PersistSavesAll DEF CancelUnconfirmed, DurableOutcome, Saved
  <2> QED
    BY <2>1, <2>2, <2>3, <2>4, <2>5, LoudSteps
       DEF EvidenceSaved, ConnectionLost, CompletionAccepted, RegisterSession,
           CancelSession, TurnStarted, FinishIdleShutdown, FinishShutdown,
           ShutdownTimesOut, Settle
<1> QED  BY <1>1, <1>2, TypeCorrect, PTL DEF Spec

-----------------------------------------------------------------------------
(* The end of the service.  SettledAfterShutdown and SettledAfterLoss are   *)
(* inductive only together with the phases shutdown() goes through: once    *)
(* closed is set nothing registers, resumes or starts a session, so no      *)
(* session becomes live again after a marking pass.                         *)

Phases ==
    /\ stopping => closed
    /\ \A x \in Stoppers : stop[x] \notin {"idle", "announced"} => stopping

EndInv == TypeOK /\ Phases /\ SettledAfterShutdown /\ SettledAfterLoss

\* No session becomes live once closed is set.
LEMMA ClosedStaysQuiet ==
    ASSUME TypeOK, closed, [Next]_vars, NEW t \in Threads,
           state[t] \notin {"active", "cancelling"}
    PROVE  state'[t] \notin {"active", "cancelling"}
<1>1. CASE Quiet \/ EvidenceSaved
  BY <1>1 DEF Quiet, EvidenceSaved, session
<1>2. CASE ConnectionLost  BY <1>2 DEF ConnectionLost, Live
<1>3. CASE CompletionAccepted
  <2>1. Verdict(Head(inbox).turn, Head(inbox).status)
          \notin {"active", "cancelling"}
    BY DEF Verdict, Recognised
  <2> QED  BY <1>3, <2>1 DEF CompletionAccepted, TypeOK
<1>4. ASSUME NEW u \in Threads,
             \/ RegisterSession(u) \/ FollowUp(u) \/ CancelSession(u)
      PROVE  FALSE
  BY <1>4 DEF RegisterSession, Registrable, FollowUp, CancelSession, Accepting
<1>5. ASSUME NEW u \in Threads, NEW n \in Turns,
             \/ TurnStarted(u, n) \/ TurnStartFailed(u, n)
             \/ CancelUnconfirmed(u, n)
      PROVE  state'[t] \notin {"active", "cancelling"}
  BY <1>5 DEF TurnStarted, TurnStartFailed, CancelUnconfirmed, TypeOK
<1>6. ASSUME NEW x \in Stoppers,
             \/ FinishIdleShutdown(x) \/ FinishShutdown(x)
             \/ ShutdownTimesOut(x)
      PROVE  state'[t] \notin {"active", "cancelling"}
  BY <1>6 DEF FinishIdleShutdown, FinishShutdown, ShutdownTimesOut, Settle, Live
<1> QED  BY <1>1, <1>2, <1>3, <1>4, <1>5, <1>6, LoudSteps

\* Only the loss of the connection and shutdown() move the control variables.
LEMMA ControlSteps ==
    ASSUME [Next]_vars
    PROVE  \/ UNCHANGED <<connected, closed, stopping, stop>>
           \/ ConnectionLost
           \/ ClientClosed
           \/ \E x \in Stoppers : AnnounceShutdown(x) \/ ShutdownProceeds(x)
<1>1. CASE UNCHANGED vars  BY <1>1 DEF vars, control
<1>2. ASSUME NEW t \in Threads, Handlers(t) \/ Continuations(t)
      PROVE  UNCHANGED <<connected, closed, stopping, stop>>
  BY <1>2 DEF Handlers, Continuations, control, BeginStart, FollowUp,
       CancelSession, RegisterSession, StartRejected, TurnStarted,
       TurnStartFailed, CancelConfirmed, CancelUnconfirmed
<1>3. ASSUME NEW t \in Threads, ServerTurns(t)
      PROVE  UNCHANGED <<connected, closed, stopping, stop>>
  BY <1>3 DEF ServerTurns, control, TurnEnds, Redeliver, ServerStartsThread,
       ServerStartsTurn, ServerInterrupts, Answer
<1>4. ASSUME Dispatch \/ EvidenceSaved
      PROVE  UNCHANGED <<connected, closed, stopping, stop>>
  BY <1>4 DEF Dispatch, DispatchResponse, CompletionIgnored,
       CompletionAccepted, EvidenceSaved, control
<1>5. ASSUME NEW c \in Calls, CallFails(c) \/ ServerRejects(c)
      PROVE  UNCHANGED <<connected, closed, stopping, stop>>
  BY <1>5 DEF CallFails, ServerRejects, Answer, control
<1> QED  BY <1>1, <1>2, <1>3, <1>4, <1>5 DEF Next

\* stopping and closed are never taken back, and a shutdown() past its start
\* has set both.
LEMMA PhasesPreserved ==
    ASSUME TypeOK, Phases, [Next]_vars
    PROVE  Phases' /\ (stopping => stopping') /\ (closed => closed')
<1>1. ASSUME NEW x \in Stoppers, AnnounceShutdown(x) \/ ShutdownProceeds(x)
      PROVE  Phases' /\ (stopping => stopping') /\ (closed => closed')
  <2>1. CASE AnnounceShutdown(x)
    BY <2>1 DEF AnnounceShutdown, Phases, TypeOK
  <2>2. CASE StopNewWork(x)  BY <2>2 DEF StopNewWork, Phases, TypeOK
  <2>3. CASE InterruptActive(x)  BY <2>3 DEF InterruptActive, Phases, TypeOK
  <2>4. CASE \/ FinishIdleShutdown(x) \/ FinishShutdown(x)
             \/ ShutdownTimesOut(x)
    BY <2>4 DEF FinishIdleShutdown, FinishShutdown, ShutdownTimesOut, Settle,
                Phases, TypeOK
  <2> QED  BY <1>1, <2>1, <2>2, <2>3, <2>4 DEF ShutdownProceeds
<1>2. CASE ConnectionLost  BY <1>2 DEF ConnectionLost, Sever, Phases
<1>3. CASE ClientClosed  BY <1>3 DEF ClientClosed, Sever, Phases
<1>4. CASE UNCHANGED <<closed, stopping, stop>>  BY <1>4 DEF Phases
<1> QED  BY <1>1, <1>2, <1>3, <1>4, ControlSteps

\* A marking pass leaves no session live.
LEMMA SettleSettles ==
    ASSUME NEW x \in Stoppers, NEW failed, Settle(x, failed)
    PROVE  \A t \in Threads : state'[t] \notin {"active", "cancelling"}
BY DEF Settle, Live

\* After a shutdown() or a loss nothing makes a session active again.
LEMMA EndInvPreserved == EndInv /\ [Next]_vars => EndInv'
<1> SUFFICES ASSUME EndInv, [Next]_vars, TypeOK'
             PROVE  Phases' /\ SettledAfterShutdown' /\ SettledAfterLoss'
  BY TypePreserved DEF EndInv
<1>1. /\ Phases'
      /\ stopping => stopping'
      /\ closed => closed'
  BY PhasesPreserved DEF EndInv
<1>2. SettledAfterShutdown'
  <2>1. CASE \E x \in Stoppers : \/ FinishIdleShutdown(x) \/ FinishShutdown(x)
                                 \/ ShutdownTimesOut(x)
    BY <2>1, SettleSettles
       DEF FinishIdleShutdown, FinishShutdown, ShutdownTimesOut,
           SettledAfterShutdown
  <2>2. CASE \A x \in Stoppers : stop'[x] = "done" => stop[x] = "done"
    BY <2>2, ClosedStaysQuiet DEF EndInv, Phases, SettledAfterShutdown
  <2>3. ASSUME NEW x \in Stoppers, \/ AnnounceShutdown(x) \/ StopNewWork(x)
                                   \/ InterruptActive(x)
        PROVE  \A y \in Stoppers : stop'[y] = "done" => stop[y] = "done"
    BY <2>3 DEF AnnounceShutdown, StopNewWork, InterruptActive, EndInv, TypeOK
  <2>4. \/ UNCHANGED stop
        \/ \E x \in Stoppers : AnnounceShutdown(x) \/ ShutdownProceeds(x)
    BY ControlSteps DEF ConnectionLost, ClientClosed, Sever
  <2> QED  BY <2>1, <2>2, <2>3, <2>4 DEF ShutdownProceeds
<1>3. SettledAfterLoss'
  <2>1. CASE ConnectionLost
    BY <2>1 DEF ConnectionLost, SettledAfterLoss, Live
  <2>2. CASE closed
    BY <1>1, <2>2, ClosedStaysQuiet DEF EndInv, SettledAfterLoss
  <2>3. CASE closed = closed'
    BY <2>2, <2>3 DEF SettledAfterLoss
  <2>4. CASE stopping'  BY <2>4 DEF SettledAfterLoss
  <2>5. ASSUME NEW x \in Stoppers, AnnounceShutdown(x) \/ ShutdownProceeds(x)
        PROVE  closed = closed' \/ stopping'
    BY <2>5 DEF AnnounceShutdown, ShutdownProceeds, StopNewWork,
         InterruptActive, FinishIdleShutdown, FinishShutdown,
         ShutdownTimesOut, Settle
  <2> QED
    BY <2>1, <2>2, <2>3, <2>4, <2>5, ControlSteps DEF ClientClosed, Sever
<1> QED  BY <1>1, <1>2, <1>3

\* At first nothing has ended.
LEMMA EndInvInitially == Init => EndInv
BY TypeInitially DEF Init, EndInv, Phases, SettledAfterShutdown,
   SettledAfterLoss

\* No session outlives a shutdown() or a connection loss unsettled.
LEMMA EndInvHolds == Spec => []EndInv
BY EndInvInitially, EndInvPreserved, PTL DEF Spec

\* When a shutdown() has returned, or the connection was lost, every session
\* has been given an outcome, and none becomes live again: not even one whose
\* start was in flight.
THEOREM EndSettles == Spec => []SettledAtEnd
<1>1. EndInv => SettledAtEnd  BY DEF EndInv, SettledAtEnd
<1> QED  BY <1>1, EndInvHolds, PTL

\* A step of one shutdown() is seen in its stage alone.
LEMMA StageMoves ==
    ASSUME TypeOK, NEW x \in Stoppers, NEW to, stop' = [stop EXCEPT ![x] = to]
    PROVE  Stages' = [Stages EXCEPT ![x] = Stage(to)]
BY DEF TypeOK, Stages

\* Who has not begun to stop the service is seen so.
LEMMA StageIs ==
    ASSUME TypeOK, NEW x \in Stoppers
    PROVE  /\ Stages[x] = Stage(stop[x])
           /\ Stages[x] = "no" <=> stop[x] = "idle"
           /\ stop[x] = "announced" => Stages[x] = "announced"
           /\ stop[x] \in {"draining", "interrupting"} => Stages[x] = "settling"
BY DEF TypeOK, Stages, Stage

\* Every step is one of Shutdown's, or leaves it unchanged.
LEMMA EndingStep ==
    ASSUME EndInv, [Next]_vars
    PROVE  [Ending!Next]_Ending!ending
<1>0. TypeOK /\ Phases  BY DEF EndInv
<1>1. AllSettled => AllSettled'
  BY <1>0, ClosedStaysQuiet, PhasesPreserved DEF AllSettled, Live
<1>2. closed /\ ~stopping => AllSettled
  BY DEF EndInv, SettledAfterLoss, AllSettled, Live
<1>3. CASE UNCHANGED <<connected, closed, stopping, stop>>
  <2>1. Stages' = Stages  BY <1>3 DEF Stages
  <2>2. CASE AllSettled' = AllSettled
    BY <1>3, <2>1, <2>2 DEF Ending!ending
  <2>3. CASE AllSettled' # AllSettled
    <3>1. AllSettled' /\ ~AllSettled /\ stopping
      BY <1>1, <1>2, <1>3, <2>3 DEF AllSettled
    <3>2. Ending!Subside  BY <1>3, <2>1, <3>1 DEF Ending!Subside
    <3> QED  BY <3>2 DEF Ending!Next
  <2> QED  BY <2>2, <2>3
<1>4. CASE ConnectionLost \/ ClientClosed
  <2>1. Stages' = Stages /\ stopping' = stopping /\ connected /\ ~connected'
    BY <1>4 DEF ConnectionLost, ClientClosed, Sever, Stages
  <2>2. AllSettled' = (AllSettled \/ ~stopping)
    BY <1>4 DEF ConnectionLost, ClientClosed, session, AllSettled, Live
  <2>3. Ending!Lose  BY <2>1, <2>2 DEF Ending!Lose
  <2> QED  BY <2>3 DEF Ending!Next
<1>5. ASSUME NEW x \in Stoppers, AnnounceShutdown(x)
      PROVE  Ending!Next
  <2>1. Stages' = [Stages EXCEPT ![x] = "announced"]
    BY <1>0, <1>5, StageMoves DEF AnnounceShutdown, Stage
  <2>2. \A y \in Stoppers : Stages[y] = "no"
    BY <1>0, <1>5, StageIs DEF AnnounceShutdown
  <2>3. UNCHANGED <<stopping, AllSettled, connected>>
    BY <1>5 DEF AnnounceShutdown, session, AllSettled
  <2>4. Ending!Announce(x)
    BY <2>1, <2>2, <2>3 DEF Ending!Announce, Ending!Announced, Ending!Move
  <2> QED  BY <2>4 DEF Ending!Next
<1>6. ASSUME NEW x \in Stoppers, StopNewWork(x)
      PROVE  Ending!Next
  <2>1. Stages' = [Stages EXCEPT ![x] = "settling"]
    BY <1>0, <1>6, StageMoves DEF StopNewWork, Stage
  <2>2. \/ Stages[x] = "announced"
        \/ Stages[x] = "no" /\ \E y \in Stoppers : Stages[y] # "no"
    BY <1>0, <1>6, StageIs DEF StopNewWork
  <2>3. AllSettled' \in {AllSettled, TRUE}
    BY <1>1 DEF AllSettled
  <2>4. stopping' = TRUE /\ connected' = connected
    BY <1>6 DEF StopNewWork
  <2>5. Ending!Stop(x)
    BY <2>1, <2>2, <2>3, <2>4 DEF Ending!Stop, Ending!Announced, Ending!Move
  <2> QED  BY <2>5 DEF Ending!Next
<1>7. ASSUME NEW x \in Stoppers, InterruptActive(x)
      PROVE  UNCHANGED Ending!ending
  <2>1. Stages' = [Stages EXCEPT ![x] = "settling"]
    BY <1>0, <1>7, StageMoves DEF InterruptActive, Stage
  <2>2. Stages[x] = "settling"
    BY <1>0, <1>7, StageIs DEF InterruptActive
  <2>3. Stages' = Stages  BY <2>1, <2>2 DEF Stages
  <2>4. UNCHANGED <<stopping, AllSettled, connected>>
    BY <1>7 DEF InterruptActive, session, AllSettled
  <2> QED  BY <2>3, <2>4 DEF Ending!ending
<1>8. ASSUME NEW x \in Stoppers, \/ FinishIdleShutdown(x) \/ FinishShutdown(x)
                                 \/ ShutdownTimesOut(x)
      PROVE  Ending!Next
  <2>1. PICK failed : Settle(x, failed)
    BY <1>8 DEF FinishIdleShutdown, FinishShutdown, ShutdownTimesOut
  <2>2. Stages' = [Stages EXCEPT ![x] = "done"]
    BY <1>0, <2>1, StageMoves DEF Settle, Stage
  <2>3. stop[x] \in {"draining", "interrupting"}
    BY <1>8 DEF FinishIdleShutdown, FinishShutdown, ShutdownTimesOut
  <2>4. Stages[x] = "settling"  BY <1>0, <2>3, StageIs
  <2>5. AllSettled' /\ UNCHANGED <<stopping, connected>>
    BY <1>0, <2>1, <2>3, SettleSettles DEF Settle, AllSettled, Live, Phases
  <2>6. Ending!Finish(x)
    BY <2>2, <2>4, <2>5 DEF Ending!Finish, Ending!Move
  <2> QED  BY <2>6 DEF Ending!Next
<1> QED
  BY <1>3, <1>4, <1>5, <1>6, <1>7, <1>8, ControlSteps DEF ShutdownProceeds

\* To its callers a shutdown() of SessionService is one of Shutdown, for any
\* number of sessions and of callers: what is in flight when it begins, and
\* the loss of the connection before or during it, do not show.
THEOREM ImplementsShutdown == Spec => ShutdownHolds
<1>1. Init => Ending!Init
  <2> SUFFICES ASSUME Init PROVE Ending!Init  OBVIOUS
  <2>1. Stages = [x \in Stoppers |-> "no"]  BY DEF Init, Stages, Stage
  <2> QED  BY <2>1 DEF Init, AllSettled, Ending!Init
<1>2. EndInv /\ [Next]_vars => [Ending!Next]_Ending!ending
  BY EndingStep
<1> QED
  BY <1>1, <1>2, EndInvHolds, PTL DEF Spec, ShutdownHolds, Ending!Spec

\* After stopping is set the service sends nothing but interrupts.
THEOREM ShutdownStopsNewWork == Spec => StoppingStartsNothing
<1> DEFINE A == stopping => \A c \in requests' \ requests :
                               c.op = "turn/interrupt"
<1>1. EndInv /\ [Next]_vars => A
  <2> SUFFICES ASSUME EndInv, [Next]_vars, stopping
               PROVE  \A c \in requests' \ requests : c.op = "turn/interrupt"
    OBVIOUS
  <2>1. closed  BY DEF EndInv, Phases
  <2>2. ASSUME NEW t \in Threads, Handlers(t)
        PROVE  FALSE
    BY <2>1, <2>2 DEF Handlers, BeginStart, FollowUp, CancelSession, Accepting
  <2>3. ASSUME NEW t \in Threads, Continuations(t)
        PROVE  requests' = requests
    BY <2>1, <2>3 DEF Continuations, RegisterSession, Registrable,
         StartRejected, TurnStarted, TurnStartFailed, CancelConfirmed,
         CancelUnconfirmed
  <2>4. ASSUME NEW x \in Stoppers, InterruptActive(x)
        PROVE  \A c \in requests' \ requests : c.op = "turn/interrupt"
    BY <2>4 DEF InterruptActive, Issue, Interrupt, Call
  <2>5. ASSUME NEW x \in Stoppers, AnnounceShutdown(x) \/ ShutdownProceeds(x),
               ~InterruptActive(x)
        PROVE  requests' = requests
    BY <2>5 DEF AnnounceShutdown, ShutdownProceeds, StopNewWork, wire,
         FinishIdleShutdown, FinishShutdown, ShutdownTimesOut, Settle
  <2>6. ASSUME NEW t \in Threads, ServerTurns(t)
        PROVE  requests' \subseteq requests
    BY <2>6 DEF ServerTurns, TurnEnds, Redeliver, ServerStartsThread,
         ServerStartsTurn, ServerInterrupts, Answer
  <2>7. ASSUME NEW c \in Calls, CallFails(c) \/ ServerRejects(c)
        PROVE  requests' \subseteq requests
    BY <2>7 DEF CallFails, ServerRejects, Answer
  <2>8. CASE Dispatch \/ EvidenceSaved \/ ConnectionLost \/ ClientClosed
    BY <2>8 DEF Dispatch, DispatchResponse, CompletionIgnored, Sever,
         CompletionAccepted, EvidenceSaved, ConnectionLost, ClientClosed, wire
  <2>9. CASE UNCHANGED vars  BY <2>9 DEF vars, wire
  <2> QED
    BY <2>2, <2>3, <2>4, <2>5, <2>6, <2>7, <2>8, <2>9 DEF Next
<1>2. EndInv /\ [Next]_vars => [A]_vars  BY <1>1
<1> QED  BY <1>2, EndInvHolds, PTL DEF Spec, StoppingStartsNothing

-----------------------------------------------------------------------------
(* The events.  Registration publishes nothing, so EventsTellState needs to *)
(* know that a session registers without a turn: what has happened to a     *)
(* thread's first two calls says whether it has a session.                  *)

Registering ==
    \A t \in Threads :
        /\ future[ThreadStart(t)] # "done" => state[t] = "none"
        /\ state[t] = "none" =>
             /\ turn[t] = NoTurn
             /\ \A n \in Turns : future[TurnStart(t, n)] = "idle"

\* Requests for different threads, methods or turns are different.
LEMMA CallsDiffer ==
    ASSUME NEW t \in Threads, NEW u \in Threads
    PROVE  /\ ThreadStart(t) = ThreadStart(u) => t = u
           /\ \A n \in Turns : ThreadStart(t) # TurnStart(u, n)
           /\ \A m, n \in Turns :
                 TurnStart(t, m) = TurnStart(u, n) => t = u /\ m = n
           /\ \A n \in Turns, x \in Stoppers \cup {"client"} :
                 ThreadStart(t) # Interrupt(u, n, x)
           /\ \A m, n \in Turns, x \in Stoppers \cup {"client"} :
                 TurnStart(t, m) # Interrupt(u, n, x)
BY DEF ThreadStart, TurnStart, Interrupt, Call

\* Handlers and shutdown() only issue interrupts beside the three calls the
\* handlers of a thread issue in turn.
LEMMA StartsMove ==
    ASSUME TypeOK, [Next]_vars, NEW t \in Threads
    PROVE  /\ future[ThreadStart(t)] = "done"
                => future'[ThreadStart(t)] = "done"
           /\ \/ RegisterSession(t)
              \/ FollowUp(t)
              \/ \A n \in Turns : future[TurnStart(t, n)] = "idle"
                                    => future'[TurnStart(t, n)] = "idle"
<1> DEFINE Kept == /\ future[ThreadStart(t)] = "done"
                        => future'[ThreadStart(t)] = "done"
                   /\ \A n \in Turns : future[TurnStart(t, n)] = "idle"
                                         => future'[TurnStart(t, n)] = "idle"
<1>0. /\ ThreadStart(t) \in Calls
      /\ \A n \in Turns : TurnStart(t, n) \in Calls
  BY CallTypes
<1>1. ASSUME NEW u \in Threads, Handlers(u) \/ Continuations(u)
      PROVE  \/ Kept
             \/ /\ FollowUp(t) \/ RegisterSession(t)
                /\ future[ThreadStart(t)] = "done"
                     => future'[ThreadStart(t)] = "done"
  <2>1. CASE BeginStart(u)
    BY <1>0, <2>1, CallsDiffer DEF BeginStart, Issue
  <2>2. CASE FollowUp(u)
    <3>1. attempt[u] + 1 \in Turns
      BY <2>2, MaxTurnsAssumption DEF FollowUp, TypeOK, Turns
    <3>2. \A n \in Turns : u # t =>
             TurnStart(t, n) # TurnStart(u, attempt[u] + 1)
      BY <3>1, CallsDiffer
    <3>3. ThreadStart(t) # TurnStart(u, attempt[u] + 1)
      BY <3>1, CallsDiffer
    <3>4. CASE u = t  BY <1>0, <2>2, <3>3, <3>4 DEF FollowUp, Issue
    <3>5. CASE u # t  BY <1>0, <2>2, <3>2, <3>3, <3>5 DEF FollowUp, Issue
    <3> QED  BY <3>4, <3>5
  <2>3. CASE CancelSession(u)
    <3>1. turn[u] \in Turns  BY <2>3 DEF CancelSession, TypeOK
    <3> QED  BY <1>0, <2>3, <3>1, CallsDiffer DEF CancelSession, Issue
  <2>4. CASE RegisterSession(u)
    <3>1. 1 \in Turns  BY MaxTurnsAssumption DEF Turns
    <3>2. \A n \in Turns : u # t => TurnStart(t, n) # TurnStart(u, 1)
      BY <3>1, CallsDiffer
    <3>3. \A n \in Turns : TurnStart(t, n) # ThreadStart(u)
      BY CallsDiffer
    <3>4. ThreadStart(t) # TurnStart(u, 1)  BY <3>1, CallsDiffer
    <3>5. CASE u = t
      BY <1>0, <2>4, <3>4, <3>5 DEF RegisterSession, TypeOK
    <3>6. CASE u # t
      BY <1>0, <2>4, <3>2, <3>3, <3>4, <3>6 DEF RegisterSession, TypeOK
    <3> QED  BY <3>5, <3>6
  <2>5. CASE StartRejected(u)
    BY <1>0, <2>5, CallsDiffer DEF StartRejected, Return, TypeOK
  <2>6. ASSUME NEW n \in Turns, TurnStarted(u, n) \/ TurnStartFailed(u, n)
        PROVE  Kept
    BY <1>0, <2>6, CallsDiffer DEF TurnStarted, TurnStartFailed, Return, TypeOK
  <2>7. ASSUME NEW n \in Turns, CancelConfirmed(u, n) \/ CancelUnconfirmed(u, n)
        PROVE  Kept
    BY <1>0, <2>7, CallsDiffer
       DEF CancelConfirmed, CancelUnconfirmed, Return, TypeOK
  <2> QED
    BY <1>1, <2>1, <2>2, <2>3, <2>4, <2>5, <2>6, <2>7
       DEF Handlers, Continuations
<1>2. ASSUME NEW x \in Stoppers, AnnounceShutdown(x) \/ ShutdownProceeds(x)
      PROVE  Kept
  <2>1. CASE InterruptActive(x)
    BY <1>0, <2>1, CallsDiffer
       DEF InterruptActive, Issue, Interruptible, TypeOK
  <2>2. CASE \/ FinishIdleShutdown(x) \/ FinishShutdown(x)
             \/ ShutdownTimesOut(x)
    BY <1>0, <2>2 DEF FinishIdleShutdown, FinishShutdown, ShutdownTimesOut,
                      Settle, ThreadStart, TurnStart, Call
  <2>3. CASE AnnounceShutdown(x) \/ StopNewWork(x)
    BY <2>3 DEF AnnounceShutdown, StopNewWork, wire
  <2> QED  BY <1>2, <2>1, <2>2, <2>3 DEF ShutdownProceeds
<1>3. CASE Dispatch
  BY <1>0, <1>3 DEF Dispatch, DispatchResponse, CompletionIgnored,
                    CompletionAccepted, TypeOK
<1>4. CASE ConnectionLost \/ ClientClosed
  BY <1>0, <1>4 DEF ConnectionLost, ClientClosed, Sever
<1>5. ASSUME NEW c \in Calls, CallFails(c) \/ ServerRejects(c)
      PROVE  Kept
  BY <1>0, <1>5 DEF CallFails, ServerRejects, Answer, TypeOK
<1>6. ASSUME NEW u \in Threads, ServerTurns(u)
      PROVE  Kept
  BY <1>6 DEF ServerTurns, ServerStartsThread, ServerStartsTurn,
              ServerInterrupts, Answer, TurnEnds, Redeliver
<1>7. CASE EvidenceSaved \/ UNCHANGED vars
  BY <1>7 DEF EvidenceSaved, vars, wire
<1> QED  BY <1>1, <1>2, <1>3, <1>4, <1>5, <1>6, <1>7 DEF Next

\* The steps that make a session active or give it another turn.
LEMMA SessionsMove ==
    ASSUME TypeOK, Registering, [Next]_vars, NEW t \in Threads
    PROVE  \/ RegisterSession(t)
           \/ FollowUp(t)
           \/ state'[t] = state[t] /\ turn'[t] = turn[t]
           \/ state[t] # "none" /\ state'[t] # "none"
<1>1. CASE Quiet \/ EvidenceSaved
  BY <1>1 DEF Quiet, EvidenceSaved, session
<1>2. CASE ConnectionLost  BY <1>2 DEF ConnectionLost, Live
<1>3. CASE CompletionAccepted
  <2>1. Verdict(Head(inbox).turn, Head(inbox).status) # "none"
    BY DEF Verdict, Recognised
  <2> QED  BY <1>3, <2>1 DEF CompletionAccepted, Open, TypeOK
<1>4. ASSUME NEW u \in Threads,
             RegisterSession(u) \/ FollowUp(u) \/ CancelSession(u)
      PROVE  \/ RegisterSession(t) \/ FollowUp(t)
             \/ state'[t] = state[t] /\ turn'[t] = turn[t]
             \/ state[t] # "none" /\ state'[t] # "none"
  BY <1>4 DEF RegisterSession, FollowUp, CancelSession, TypeOK
<1>5. ASSUME NEW u \in Threads, NEW n \in Turns,
             \/ TurnStarted(u, n) \/ TurnStartFailed(u, n)
             \/ CancelUnconfirmed(u, n)
      PROVE  \/ state'[t] = state[t] /\ turn'[t] = turn[t]
             \/ state[t] # "none" /\ state'[t] # "none"
  BY <1>5 DEF TurnStarted, TurnStartFailed, CancelUnconfirmed, Registering,
              TypeOK
<1>6. ASSUME NEW x \in Stoppers,
             \/ FinishIdleShutdown(x) \/ FinishShutdown(x)
             \/ ShutdownTimesOut(x)
      PROVE  \/ state'[t] = state[t] /\ turn'[t] = turn[t]
             \/ state[t] # "none" /\ state'[t] # "none"
  BY <1>6 DEF FinishIdleShutdown, FinishShutdown, ShutdownTimesOut, Settle, Live
<1> QED  BY <1>1, <1>2, <1>3, <1>4, <1>5, <1>6, LoudSteps

\* A session is registered after its thread/start was answered, and only then
\* is a turn/start of it sent.
LEMMA RegisteringPreserved ==
    ASSUME TypeOK, Registering, [Next]_vars
    PROVE  Registering'
<1> SUFFICES ASSUME NEW t \in Threads
             PROVE  /\ future'[ThreadStart(t)] # "done" => state'[t] = "none"
                    /\ state'[t] = "none" =>
                         /\ turn'[t] = NoTurn
                         /\ \A n \in Turns : future'[TurnStart(t, n)] = "idle"
  BY DEF Registering, ThreadStart, TurnStart, Call
<1>1. CASE RegisterSession(t)
  <2>1. 1 \in Turns  BY MaxTurnsAssumption DEF Turns
  <2> QED  BY <1>1, <2>1, CallTypes, CallsDiffer DEF RegisterSession, TypeOK
<1>2. CASE FollowUp(t)
  BY <1>2, StartsMove DEF FollowUp, Registering, Resumable, TypeOK
<1>3. CASE ~RegisterSession(t) /\ ~FollowUp(t)
  BY <1>3, StartsMove, SessionsMove DEF Registering
<1> QED  BY <1>1, <1>2, <1>3

\* Every change of a session that clients can see is announced.
LEMMA EventsPreserved ==
    ASSUME TypeOK, Registering, EventsTellState, [Next]_vars
    PROVE  EventsTellState'
<1> DEFINE Told(t) == \/ state[t] = "none"
                      \/ state[t] = "active" /\ turn[t] = NoTurn
                      \/ published[t] = [state |-> state[t], turn |-> turn[t]]
<1> SUFFICES ASSUME NEW t \in Threads PROVE Told(t)'
  BY DEF EventsTellState
<1>0. Told(t)  BY DEF EventsTellState
<1>1. ASSUME NEW ts, Publish(ts),
             t \notin ts => state'[t] = state[t] /\ turn'[t] = turn[t]
      PROVE  Told(t)'
  BY <1>0, <1>1 DEF Publish, SnapshotAfter
<1>2. CASE Quiet \/ EvidenceSaved
  BY <1>0, <1>2 DEF Quiet, EvidenceSaved, session
<1>3. CASE ConnectionLost
  BY <1>1, <1>3 DEF ConnectionLost
<1>4. CASE CompletionAccepted
  BY <1>1, <1>4 DEF CompletionAccepted, TypeOK
<1>5. ASSUME NEW u \in Threads, RegisterSession(u)
      PROVE  Told(t)'
  <2>1. turn[u] = NoTurn  BY <1>5 DEF RegisterSession, Registering
  <2> QED  BY <1>0, <1>5, <2>1 DEF RegisterSession, TypeOK
<1>6. ASSUME NEW u \in Threads, FollowUp(u)
      PROVE  Told(t)'
  BY <1>0, <1>6 DEF FollowUp, TypeOK
<1>7. ASSUME NEW u \in Threads, CancelSession(u)
      PROVE  Told(t)'
  BY <1>1, <1>7 DEF CancelSession, TypeOK
<1>8. ASSUME NEW u \in Threads, NEW n \in Turns,
             TurnStarted(u, n) \/ TurnStartFailed(u, n)
      PROVE  Told(t)'
  BY <1>1, <1>8 DEF TurnStarted, TurnStartFailed, TypeOK
<1>9. ASSUME NEW u \in Threads, NEW n \in Turns, CancelUnconfirmed(u, n)
      PROVE  Told(t)'
  BY <1>0, <1>1, <1>9 DEF CancelUnconfirmed, TypeOK
<1>10. ASSUME NEW x \in Stoppers, NEW failed, Settle(x, failed)
       PROVE  Told(t)'
  BY <1>1, <1>10 DEF Settle
<1> QED
  BY <1>2, <1>3, <1>4, <1>5, <1>6, <1>7, <1>8, <1>9, <1>10, LoudSteps
     DEF FinishIdleShutdown, FinishShutdown, ShutdownTimesOut

\* The newest event about a session tells the state it has.
THEOREM EventsAreCurrent == Spec => []EventsTellState
<1>1. Init => Registering /\ EventsTellState
  <2> SUFFICES ASSUME Init PROVE Registering /\ EventsTellState  OBVIOUS
  <2>1. \A t \in Threads, n \in Turns : TurnStart(t, n) \in Calls
    BY CallTypes
  <2> QED  BY <2>1 DEF Init, Registering, EventsTellState
<1>2. TypeOK /\ Registering /\ EventsTellState /\ [Next]_vars
        => (Registering /\ EventsTellState)'
  BY RegisteringPreserved, EventsPreserved
<1> QED  BY <1>1, <1>2, TypeCorrect, PTL DEF Spec
===========================================================================
