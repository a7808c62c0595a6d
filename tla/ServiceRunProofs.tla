-------------------------- MODULE ServiceRunProofs --------------------------
(***************************************************************************)
(* Proofs about ServiceRun, for any number of threads, turns and starts.   *)
(***************************************************************************)
EXTENDS ServiceRun, TLAPS

\* While the recovery runs, the sessions registered and the records still to
\* come make up the records read, nothing else is in the file, and a turn
\* listed as ended has ended so.
RecoveryInv ==
    /\ phase # "recovering" => resuming = NoThread
    /\ resuming = NoThread => listed = NotListed
    /\ phase \in {"down", "connecting"} => sessions = Empty
    /\ phase = "recovering" =>
          /\ In(disk) \subseteq In(records)
          /\ remaining \subseteq In(records)
          /\ In(sessions) = In(records) \ remaining
          /\ In(sessions) \subseteq configured
          /\ resuming # NoThread => resuming \in remaining \cap configured
    /\ resuming # NoThread =>
          \A n \in Turns : listed[n] \in Recognised =>
                              turnStatus[resuming][n] = listed[n]

\* Only a service that got through its recovery has handlers.
HandlersInv ==
    /\ phase \in {"down", "connecting", "recovering"} =>
          starting = {} /\ cancelling = {}
    /\ \A t \in Threads, n \in Turns : <<t, n>> \in starting =>
          sessions[t] # NoSession

\* A completion is of a turn that has ended.
InboxInv ==
    \A t \in Threads, n \in Turns :
        <<t, n>> \in inbox => turnStatus[t][n] \in Recognised

\* A thread nothing was asked of is nowhere recorded.
StartedInv ==
    \A t \in Threads : attempt[t] = 0 =>
        /\ sessions[t] = NoSession
        /\ records[t] = NoSession
        /\ disk[t] = NoSession

\* What the registry has of an outcome in the file is what a save may put in
\* its place: all saves write the whole registry.  What it does not have yet
\* is in the records.
OutcomeInv ==
    \A t \in Threads : disk[t].state \in Outcomes =>
        /\ MayReplace(t, sessions[t])
        /\ phase = "recovering" /\ sessions[t] = NoSession =>
              records[t] = disk[t]

RegistryInv == RecoveryInv /\ HandlersInv /\ ServingIsComplete /\ FileFollowsRegistry
ServiceInv == TypeOK /\ InboxInv /\ RegistryInv /\ StartedInv /\ OutcomeInv

\* What there is to know of session records.
LEMMA SessionFacts ==
    /\ NoSession \in Sessions /\ NoSession.state = "none"
    /\ \A s \in States, n \in Turns \cup {NoTurn} :
          /\ [state |-> s, turn |-> n] \in Sessions
          /\ [state |-> s, turn |-> n] # NoSession
    /\ \A r \in Sessions : r.turn \in Turns \cup {NoTurn}
    /\ \A r \in Sessions : r # NoSession => r.state \in States
    /\ \A r \in Sessions : r # NoSession => r = [state |-> r.state, turn |-> r.turn]
<1>1. NoSession \in Sessions /\ NoSession.state = "none" /\ NoSession.turn = NoTurn
  BY DEF NoSession, Sessions
<1>2. ASSUME NEW s \in States, NEW n \in Turns \cup {NoTurn}
      PROVE  /\ [state |-> s, turn |-> n] \in Sessions
             /\ [state |-> s, turn |-> n] # NoSession
  <2>1. [state |-> s, turn |-> n].state # "none"
    BY DEF States, Open, Live, Outcomes, Recognised
  <2> QED BY <2>1, <1>1 DEF Sessions
<1>3. ASSUME NEW r \in Sessions, r # NoSession
      PROVE  /\ r.state \in States /\ r.turn \in Turns \cup {NoTurn}
             /\ r = [state |-> r.state, turn |-> r.turn]
  BY <1>3 DEF Sessions
<1> QED BY <1>1, <1>2, <1>3

\* Which states there are, and of which kind.
LEMMA StateFacts ==
    /\ Live \subseteq Open /\ Open \subseteq States /\ Outcomes \subseteq States
    /\ Recognised \subseteq Outcomes /\ Open \cap Outcomes = {}
    /\ "none" \notin States
    /\ "active" \in Live /\ "cancelling" \in Live /\ "cancel_unknown" \in Open
    /\ {"protocol_unknown", "connection_lost", "cancelled",
        "shutdown_unknown"} \subseteq Outcomes
    /\ "completed" \in Recognised /\ "failed" \in Recognised
    /\ "none" \notin Recognised /\ "running" \notin Recognised
BY DEF Live, Open, States, Outcomes, Recognised

\* What an operation on one session does to the registry.
LEMMA BecomesFacts ==
    ASSUME TypeOK, NEW t \in Threads, NEW s \in States,
           NEW n \in Turns \cup {NoTurn}, Becomes(t, s, n)
    PROVE  /\ sessions' \in [Threads -> Sessions]
           /\ sessions'[t] = [state |-> s, turn |-> n]
           /\ sessions'[t] # NoSession /\ sessions'[t].state = s
           /\ \A u \in Threads \ {t} : sessions'[u] = sessions[u]
           /\ In(sessions)' = In(sessions) \cup {t}
<1>1. [state |-> s, turn |-> n] \in Sessions /\ [state |-> s, turn |-> n] # NoSession
  BY SessionFacts
<1>2. sessions' = [sessions EXCEPT ![t] = [state |-> s, turn |-> n]]
  BY DEF Becomes
<1> QED BY <1>1, <1>2 DEF TypeOK, In

\* What a marking pass does: live sessions end, the others stay.
MarksLive ==
    /\ sessions' \in [Threads -> Sessions]
    /\ \A t \in Threads :
          IF sessions[t].state \in Live
          THEN sessions'[t] # NoSession /\ sessions'[t].state \in Outcomes
          ELSE sessions'[t] = sessions[t]
    /\ In(sessions)' = In(sessions)

LEMMA MarkedFacts ==
    ASSUME TypeOK, NEW t \in Threads, NEW x \in Outcomes
    PROVE  /\ Marked(t, x) \in Sessions
           /\ Marked(t, x) # NoSession
           /\ Marked(t, x).state = x
BY SessionFacts, StateFacts DEF TypeOK, Marked

LEMMA LiveIsSession ==
    ASSUME TypeOK, NEW t \in Threads, sessions[t].state \in States
    PROVE  sessions[t] # NoSession
BY SessionFacts, StateFacts DEF TypeOK

\* connection_lost() and shutdown() are such passes.
LEMMA LossMarks ==
    ASSUME TypeOK, ConnectionLost, phase \notin {"stopping", "settled"}
    PROVE  MarksLive
<1>1. sessions' = [t \in Threads |-> IF sessions[t].state \in Live
                                     THEN Marked(t, "connection_lost")
                                     ELSE sessions[t]]
  BY DEF ConnectionLost
<1>2. \A t \in Threads : /\ Marked(t, "connection_lost") \in Sessions
                         /\ Marked(t, "connection_lost") # NoSession
                         /\ Marked(t, "connection_lost").state \in Outcomes
  BY MarkedFacts, StateFacts
<1>3. \A t \in Threads : sessions[t].state \in Live => sessions[t] # NoSession
  BY LiveIsSession, StateFacts
<1> QED BY <1>1, <1>2, <1>3 DEF MarksLive, TypeOK, In

LEMMA SettleMarks ==
    ASSUME TypeOK, NEW ts, Settle(ts)
    PROVE  MarksLive
<1>1. sessions' = [t \in Threads |->
                     IF sessions[t].state \notin Live THEN sessions[t]
                     ELSE Marked(t, IF t \in ts THEN "cancelled"
                                    ELSE "shutdown_unknown")]
  BY DEF Settle
<1>2. \A t \in Threads :
         /\ Marked(t, "cancelled") \in Sessions
         /\ Marked(t, "cancelled") # NoSession
         /\ Marked(t, "cancelled").state \in Outcomes
         /\ Marked(t, "shutdown_unknown") \in Sessions
         /\ Marked(t, "shutdown_unknown") # NoSession
         /\ Marked(t, "shutdown_unknown").state \in Outcomes
  BY MarkedFacts, StateFacts
<1>3. \A t \in Threads : sessions[t].state \in Live => sessions[t] # NoSession
  BY LiveIsSession, StateFacts
<1> QED BY <1>1, <1>2, <1>3 DEF MarksLive, TypeOK, In

\* turn/completed ends the session, and saves it, or does nothing.
LEMMA CompletionFacts ==
    ASSUME TypeOK, InboxInv, NEW t \in Threads, NEW n \in Turns,
           NEW named \in BOOLEAN, CompletionArrives(t, n, named)
    PROVE  /\ sessions' \in [Threads -> Sessions]
           /\ In(sessions)' = In(sessions)
           /\ \A u \in Threads : sessions[u].state \notin Open => sessions'[u] = sessions[u]
           /\ Persist \/ UNCHANGED <<sessions, disk>>
<1>1. CASE Settles(t, n, named)
  <2>1. PICK s \in States : Becomes(t, s, NoTurn) /\ Persist
    BY <1>1, StateFacts DEF CompletionArrives, InboxInv
  <2>2. t \in In(sessions)
    BY <1>1, LiveIsSession, StateFacts DEF Settles, In
  <2>3. /\ sessions' \in [Threads -> Sessions]
        /\ \A u \in Threads \ {t} : sessions'[u] = sessions[u]
        /\ In(sessions)' = In(sessions) \cup {t}
    BY <2>1, BecomesFacts
  <2>4. In(sessions) \cup {t} = In(sessions)
    BY <2>2
  <2> QED BY <1>1, <2>1, <2>3, <2>4 DEF Settles
<1>2. CASE ~Settles(t, n, named)
  BY <1>2 DEF CompletionArrives, TypeOK, In
<1> QED BY <1>1, <1>2

\* What recovery makes of a record: the record, or the listed end of its turn.
LEMMA ResumedFacts ==
    ASSUME TypeOK, NEW record \in Sessions
    PROVE  /\ Resumed(record) \in Sessions
           /\ record # NoSession => Resumed(record) # NoSession
           /\ \/ Resumed(record) = record
              \/ /\ record.turn \in Turns
                 /\ listed[record.turn] \in Recognised
                 /\ Resumed(record) = [state |-> listed[record.turn], turn |-> NoTurn]
BY SessionFacts, StateFacts DEF Resumed, TypeOK

\* The first n is always a turn that may be asked for next.
LEMMA IssueFacts ==
    ASSUME TypeOK, NEW t \in Threads, IssueTurn(t)
    PROVE  /\ attempt' \in [Threads -> 0..MaxTurns]
           /\ attempt'[t] # 0
           /\ \A u \in Threads \ {t} : attempt'[u] = attempt[u]
           /\ attempt[t] + 1 \in Turns
           /\ starting' = starting \cup {<<t, attempt[t] + 1>>}
           /\ starting' \subseteq Threads \X Turns
BY MaxTurnsAssumption DEF IssueTurn, TypeOK, Turns

\* Before the first start the registry, the file and the records are empty.
LEMMA InitHolds == Init => ServiceInv
<1> SUFFICES ASSUME Init PROVE ServiceInv
  OBVIOUS
<1>1. Empty \in [Threads -> Sessions] /\ In(Empty) = {}
  BY SessionFacts DEF Empty, In
<1>2. TypeOK
  <2>1. 0 \in 0..MaxTurns /\ 0 \in 0..MaxStarts
    BY MaxTurnsAssumption, MaxStartsAssumption
  <2>2. /\ NotListed \in [Turns -> TurnStatuses]
        /\ turnStatus \in [Threads -> [Turns -> TurnStatuses]]
    BY DEF Init, NotListed, TurnStatuses
  <2> QED BY <1>1, <2>1, <2>2 DEF Init, TypeOK
<1>3. RegistryInv
  BY DEF Init, RegistryInv, RecoveryInv, HandlersInv, ServingIsComplete,
         FileFollowsRegistry
<1>4. InboxInv /\ StartedInv /\ OutcomeInv
  BY SessionFacts, StateFacts DEF Init, InboxInv, StartedInv, OutcomeInv, Empty
<1> QED BY <1>2, <1>3, <1>4 DEF ServiceInv

\* Every operation keeps the types.
LEMMA TypeStep == ASSUME TypeOK, InboxInv, [Next]_vars PROVE TypeOK'
<1>0. Empty \in [Threads -> Sessions] /\ NotListed \in [Turns -> TurnStatuses]
  BY SessionFacts DEF Empty, NotListed, TurnStatuses
<1> USE DEF TypeOK, registry, recovery, server, Persist
<1>1. CASE Start
  <2>1. starts' \in 0..MaxStarts
    BY <1>1, MaxStartsAssumption DEF Start
  <2> QED BY <1>1, <2>1 DEF Start
<1>2. CASE ReadState
  BY <1>2 DEF ReadState, In
<1>3. ASSUME NEW t \in Threads, ResumeThread(t) PROVE TypeOK'
  BY <1>3 DEF ResumeThread
<1>4. CASE SessionRecovered
  <2>1. resuming \in Threads /\ Resumed(records[resuming]) \in Sessions
    BY <1>4, ResumedFacts DEF SessionRecovered
  <2>2. sessions' \in [Threads -> Sessions]
    BY <2>1, <1>4 DEF SessionRecovered
  <2> QED BY <2>2, <1>0, <1>4 DEF SessionRecovered
<1>5. CASE StartupFails
  BY <1>0, <1>5 DEF StartupFails, EndRecovery
<1>6. CASE ServerResumes
  BY <1>6 DEF ServerResumes
<1>7. ASSUME NEW t \in Threads, StartSession(t) PROVE TypeOK'
  <2>1. sessions' \in [Threads -> Sessions]
    BY <1>7, BecomesFacts, StateFacts DEF StartSession
  <2>2. attempt' \in [Threads -> 0..MaxTurns] /\ starting' \subseteq Threads \X Turns
    BY <1>7, IssueFacts DEF StartSession
  <2> QED BY <2>1, <2>2, <1>7 DEF StartSession, IssueTurn
<1>8. ASSUME NEW t \in Threads, FollowUp(t) PROVE TypeOK'
  <2>1. sessions' \in [Threads -> Sessions]
    BY <1>8, BecomesFacts, StateFacts DEF FollowUp
  <2>2. attempt' \in [Threads -> 0..MaxTurns] /\ starting' \subseteq Threads \X Turns
    BY <1>8, IssueFacts DEF FollowUp
  <2> QED BY <2>1, <2>2, <1>8 DEF FollowUp, IssueTurn
<1>9. ASSUME NEW t \in Threads, NEW n \in Turns, TurnStarted(t, n) PROVE TypeOK'
  <2>1. sessions' \in [Threads -> Sessions]
    BY <1>9, BecomesFacts, StateFacts DEF TurnStarted
  <2> QED BY <2>1, <1>9 DEF TurnStarted
<1>10. ASSUME NEW t \in Threads, NEW n \in Turns, TurnStartFailed(t, n) PROVE TypeOK'
  <2>1. sessions' \in [Threads -> Sessions]
    BY <1>10, BecomesFacts, StateFacts, SessionFacts DEF TurnStartFailed
  <2> QED BY <2>1, <1>10 DEF TurnStartFailed
<1>11. ASSUME NEW t \in Threads, CancelSession(t) PROVE TypeOK'
  <2>1. sessions[t].turn \in Turns
    BY <1>11, SessionFacts DEF CancelSession
  <2>2. sessions' \in [Threads -> Sessions]
    BY <2>1, <1>11, BecomesFacts, StateFacts DEF CancelSession
  <2> QED BY <2>1, <2>2, <1>11 DEF CancelSession
<1>12. ASSUME NEW t \in Threads, NEW n \in Turns, CancelUnconfirmed(t, n) PROVE TypeOK'
  <2>1. sessions' \in [Threads -> Sessions]
    BY <1>12, BecomesFacts, StateFacts, SessionFacts DEF CancelUnconfirmed
  <2> QED BY <2>1, <1>12 DEF CancelUnconfirmed
<1>13. ASSUME NEW t \in Threads, NEW n \in Turns, TurnBegins(t, n) PROVE TypeOK'
  BY <1>13 DEF TurnBegins, TurnStatuses
<1>14. ASSUME NEW t \in Threads, NEW n \in Turns, TurnEnds(t, n) PROVE TypeOK'
  <2>1. turnStatus' \in [Threads -> [Turns -> TurnStatuses]]
    BY <1>14, EndingsAssumption DEF TurnEnds, TurnStatuses
  <2> QED BY <2>1, <1>14 DEF TurnEnds
<1>15. ASSUME NEW t \in Threads, NEW n \in Turns, NEW named \in BOOLEAN,
              CompletionArrives(t, n, named)
       PROVE TypeOK'
  <2>1. sessions' \in [Threads -> Sessions]
    BY <1>15, CompletionFacts DEF CompletionArrives
  <2> QED BY <2>1, <1>15 DEF CompletionArrives
<1>16. CASE EvidenceSaved
  BY <1>16 DEF EvidenceSaved
<1>17. CASE ConnectionLost
  BY <1>17, LossMarks DEF ConnectionLost, MarksLive
<1>18. CASE Stop
  BY <1>18 DEF Stop
<1>19. ASSUME NEW ts \in SUBSET Cancellable, Settle(ts) PROVE TypeOK'
  BY <1>19, SettleMarks DEF Settle, MarksLive
<1>20. CASE Exit
  BY <1>0, <1>20 DEF Exit, EndRecovery
<1>21. CASE UNCHANGED vars
  BY <1>21 DEF vars
<1> QED BY <1>1, <1>2, <1>3, <1>4, <1>5, <1>6, <1>7, <1>8, <1>9, <1>10,
           <1>11, <1>12, <1>13, <1>14, <1>15, <1>16, <1>17, <1>18, <1>19,
           <1>20, <1>21 DEF Next, Startup, Handlers, ServerTurns

\* A completion enters the inbox when its turn has ended, which is for good.
LEMMA InboxStep == ASSUME ServiceInv, [Next]_vars PROVE InboxInv'
<1> USE DEF ServiceInv, TypeOK, InboxInv, registry, recovery, server
<1>1. ASSUME NEW t \in Threads, NEW n \in Turns, TurnBegins(t, n) PROVE InboxInv'
  BY <1>1, StateFacts DEF TurnBegins
<1>2. ASSUME NEW t \in Threads, NEW n \in Turns, TurnEnds(t, n) PROVE InboxInv'
  BY <1>2, EndingsAssumption, StateFacts DEF TurnEnds
<1>3. CASE UNCHANGED turnStatus /\ inbox' \subseteq inbox
  BY <1>3
<1> QED
  BY <1>1, <1>2, <1>3
     DEF Next, Startup, Handlers, ServerTurns, Start, ReadState, ResumeThread,
         SessionRecovered, StartupFails, ServerResumes, StartSession, FollowUp,
         TurnStarted, TurnStartFailed, CancelSession, CancelUnconfirmed,
         CompletionArrives, EvidenceSaved, ConnectionLost, Stop, Settle, Exit,
         vars

\* An ended turn stays ended as it is.
LEMMA EndedStays ==
    ASSUME ServiceInv, [Next]_vars
    PROVE  \A t \in Threads, n \in Turns :
              turnStatus[t][n] \in Recognised => turnStatus'[t][n] = turnStatus[t][n]
<1> USE DEF ServiceInv, TypeOK, registry, recovery, server
<1>1. ASSUME NEW t \in Threads, NEW n \in Turns, TurnBegins(t, n) \/ TurnEnds(t, n)
      PROVE  \A u \in Threads, m \in Turns : turnStatus[u][m] \in Recognised =>
                                               turnStatus'[u][m] = turnStatus[u][m]
  BY <1>1, StateFacts DEF TurnBegins, TurnEnds
<1>2. CASE UNCHANGED turnStatus
  BY <1>2
<1> QED
  BY <1>1, <1>2
     DEF Next, Startup, Handlers, ServerTurns, Start, ReadState, ResumeThread,
         SessionRecovered, StartupFails, ServerResumes, StartSession, FollowUp,
         TurnStarted, TurnStartFailed, CancelSession, CancelUnconfirmed,
         CompletionArrives, EvidenceSaved, ConnectionLost, Stop, Settle, Exit,
         vars

\* The handlers run only in a service that got through its recovery.
Served == phase \in {"serving", "stopping", "settled"}

LEMMA HandlersAreServed ==
    ASSUME ServiceInv, Handlers
    PROVE  /\ Served /\ UNCHANGED <<phase, starts, recovery, connected, inbox, turnStatus>>
           /\ attached \subseteq attached'
<1> USE DEF ServiceInv, TypeOK, RegistryInv, HandlersInv, Served, recovery, server
<1>1. ASSUME NEW t \in Threads, StartSession(t) \/ FollowUp(t) \/ CancelSession(t)
      PROVE  /\ Served /\ UNCHANGED <<phase, starts, recovery, connected, inbox, turnStatus>>
             /\ attached \subseteq attached'
  BY <1>1 DEF StartSession, FollowUp, CancelSession, Accepting
<1>2. ASSUME NEW t \in Threads, NEW n \in Turns,
             TurnStarted(t, n) \/ TurnStartFailed(t, n) \/ CancelUnconfirmed(t, n)
      PROVE  /\ Served /\ UNCHANGED <<phase, starts, recovery, connected, inbox, turnStatus>>
             /\ attached \subseteq attached'
  BY <1>2 DEF TurnStarted, TurnStartFailed, CancelUnconfirmed
<1> QED BY <1>1, <1>2 DEF Handlers

\* What a handler does to the registry: one session gets another record.
LEMMA HandlerFacts ==
    ASSUME ServiceInv, Handlers
    PROVE  /\ In(sessions) \subseteq In(sessions)'
           /\ \A t \in Threads, n \in Turns :
                 <<t, n>> \in starting' => sessions'[t] # NoSession
           /\ \A t \in Threads : attempt'[t] = 0 =>
                 attempt[t] = 0 /\ sessions'[t] = sessions[t]
           /\ Persist \/ UNCHANGED disk
<1> DEFINE Claim ==
        /\ In(sessions) \subseteq In(sessions)'
        /\ \A t \in Threads, n \in Turns :
              <<t, n>> \in starting' => sessions'[t] # NoSession
        /\ \A t \in Threads : attempt'[t] = 0 =>
              attempt[t] = 0 /\ sessions'[t] = sessions[t]
        /\ Persist \/ UNCHANGED disk
<1>0. TypeOK /\ HandlersInv /\ StartedInv
  BY DEF ServiceInv, RegistryInv
<1>1. ASSUME NEW t \in Threads, StartSession(t) \/ FollowUp(t) PROVE Claim
  <2>1. IssueTurn(t) /\ Becomes(t, "active", NoTurn) /\ (Persist \/ UNCHANGED disk)
    BY <1>1 DEF StartSession, FollowUp
  <2>2. /\ sessions'[t] # NoSession
        /\ \A u \in Threads \ {t} : sessions'[u] = sessions[u]
        /\ In(sessions)' = In(sessions) \cup {t}
    BY <1>0, <2>1, BecomesFacts, StateFacts
  <2>3. /\ attempt'[t] # 0
        /\ \A u \in Threads \ {t} : attempt'[u] = attempt[u]
        /\ starting' = starting \cup {<<t, attempt[t] + 1>>}
    BY <1>0, <2>1, IssueFacts
  <2>4. \A u \in Threads, n \in Turns : <<u, n>> \in starting' => sessions'[u] # NoSession
    BY <1>0, <2>2, <2>3 DEF HandlersInv
  <2> QED BY <2>1, <2>2, <2>3, <2>4
<1>2. ASSUME NEW t \in Threads, sessions[t] # NoSession, NEW s \in States,
             NEW n \in Turns \cup {NoTurn}, Becomes(t, s, n) \/ UNCHANGED sessions,
             starting' \subseteq starting, attempt' = attempt,
             Persist \/ UNCHANGED disk
      PROVE  Claim
  <2>0. attempt[t] # 0
    BY <1>0, <1>2 DEF StartedInv
  <2>1. CASE Becomes(t, s, n)
    <3>1. /\ sessions'[t] # NoSession
          /\ \A u \in Threads \ {t} : sessions'[u] = sessions[u]
          /\ In(sessions)' = In(sessions) \cup {t}
      BY <1>0, <2>1, BecomesFacts
    <3> QED BY <1>0, <1>2, <2>0, <3>1 DEF HandlersInv
  <2>2. CASE UNCHANGED sessions
    BY <1>0, <1>2, <2>2 DEF HandlersInv, In
  <2> QED BY <1>2, <2>1, <2>2
<1> HIDE DEF Claim
<1>3. ASSUME NEW t \in Threads, NEW n \in Turns, TurnStarted(t, n) PROVE Claim
  <2>1. sessions[t] # NoSession
    BY <1>0, <1>3 DEF HandlersInv, TurnStarted
  <2>2. Becomes(t, "active", n) \/ UNCHANGED sessions
    BY <1>3 DEF TurnStarted
  <2> QED BY <1>2, <1>3, <2>1, <2>2, StateFacts DEF TurnStarted
<1>4. ASSUME NEW t \in Threads, NEW n \in Turns, TurnStartFailed(t, n) PROVE Claim
  <2>1. sessions[t] # NoSession
    BY <1>0, <1>4 DEF HandlersInv, TurnStartFailed
  <2>2. sessions[t].turn \in Turns \cup {NoTurn}
    BY <1>0, SessionFacts DEF TypeOK
  <2> QED BY <1>2, <1>4, <2>1, <2>2, StateFacts DEF TurnStartFailed
<1>5. ASSUME NEW t \in Threads, CancelSession(t) PROVE Claim
  <2>1. sessions[t] # NoSession
    BY <1>0, <1>5, LiveIsSession, StateFacts DEF CancelSession
  <2>2. sessions[t].turn \in Turns \cup {NoTurn}
    BY <1>0, SessionFacts DEF TypeOK
  <2> QED BY <1>2, <1>5, <2>1, <2>2, StateFacts DEF CancelSession
<1>6. ASSUME NEW t \in Threads, NEW n \in Turns, CancelUnconfirmed(t, n) PROVE Claim
  <2>1. CASE sessions[t].state = "cancelling"
    <3>1. sessions[t] # NoSession
      BY <1>0, <2>1, LiveIsSession, StateFacts
    <3>2. sessions[t].turn \in Turns \cup {NoTurn}
      BY <1>0, SessionFacts DEF TypeOK
    <3> QED BY <1>2, <1>6, <2>1, <3>1, <3>2, StateFacts DEF CancelUnconfirmed
  <2>2. CASE sessions[t].state # "cancelling"
    BY <1>0, <1>6, <2>2 DEF CancelUnconfirmed, Claim, HandlersInv, In
  <2> QED BY <2>1, <2>2
<1>7. Claim
  BY <1>1, <1>3, <1>4, <1>5, <1>6 DEF Handlers
<1> QED BY <1>7 DEF Claim

\* The recovery's own bookkeeping.
LEMMA RecoveryStep == ASSUME ServiceInv, [Next]_vars PROVE RecoveryInv'
<1>0. TypeOK /\ InboxInv /\ RecoveryInv /\ HandlersInv
  BY DEF ServiceInv, RegistryInv
<1>e. In(Empty) = {}
  BY DEF In, Empty
<1> USE DEF TypeOK, RecoveryInv, registry, recovery, server
<1>1. CASE Start
  BY <1>0, <1>1 DEF Start
<1>2. CASE ReadState
  <2>1. sessions = Empty /\ sessions' = Empty /\ disk' = disk
    BY <1>0, <1>2 DEF ReadState
  <2>2. /\ phase' \in {"serving", "recovering"}
        /\ In(disk)' = In(disk) /\ In(sessions)' = {}
        /\ In(records)' = In(disk) /\ remaining' = In(disk)
        /\ resuming = NoThread /\ resuming' = NoThread /\ listed' = listed
    BY <1>0, <1>e, <2>1, <1>2 DEF ReadState, In
  <2> QED BY <1>0, <2>2
<1>3. ASSUME NEW t \in Threads, ResumeThread(t) PROVE RecoveryInv'
  <2>1. \A n \in Turns : listed'[n] \notin Recognised
    BY <1>0, <1>3, StateFacts DEF ResumeThread, NotListed
  <2>2. t # NoThread
    BY ThreadsAssumption
  <2> QED BY <1>0, <1>3, <2>1, <2>2 DEF ResumeThread, In
<1>4. CASE SessionRecovered
  <2>1. /\ resuming \in Threads /\ resuming \in remaining
        /\ resuming \in configured
        /\ Resumed(records[resuming]) # NoSession
    BY <1>0, <1>4, ResumedFacts DEF SessionRecovered, In
  <2>2. sessions' = [sessions EXCEPT ![resuming] = Resumed(records[resuming])]
    BY <1>4 DEF SessionRecovered
  <2>3. In(sessions)' = In(sessions) \cup {resuming}
    BY <1>0, <2>1, <2>2 DEF In
  <2>4. In(records)' = In(records)
    BY <1>4 DEF SessionRecovered, In
  <2>5. CASE remaining' = {}
    BY <1>0, <2>5, <1>4 DEF SessionRecovered, AllRecovered
  <2>6. CASE remaining' # {}
    <3>1. disk' = disk /\ In(disk)' = In(disk) /\ phase' = "recovering"
      BY <2>6, <1>4 DEF SessionRecovered, AllRecovered, In
    <3> QED BY <1>0, <2>1, <2>3, <2>4, <3>1, <1>4 DEF SessionRecovered
  <2> QED BY <2>5, <2>6
<1>5. CASE StartupFails
  BY <1>0, <1>5 DEF StartupFails, EndRecovery
<1>6. CASE ServerResumes
  <2>1. resuming' = resuming /\ phase' = phase /\ turnStatus' = turnStatus
    BY <1>6 DEF ServerResumes
  <2>2. listed' = turnStatus[resuming] \/ listed' = listed
    BY <1>6 DEF ServerResumes
  <2>3. UNCHANGED <<sessions, disk, records, remaining, configured>>
    BY <1>6 DEF ServerResumes
  <2> QED BY <1>0, <2>1, <2>2, <2>3, <1>6 DEF ServerResumes, In
<1>7. CASE Handlers
  BY <1>0, <1>7, HandlersAreServed DEF Served, ServiceInv, RegistryInv
<1>8. ASSUME UNCHANGED <<phase, recovery>>, In(sessions)' = In(sessions),
             Persist \/ UNCHANGED disk,
             phase \in {"down", "connecting"} => sessions' = sessions
      PROVE  RecoveryInv'
  <2>1. In(records)' = In(records)
    BY <1>8 DEF In
  <2>2. In(disk)' = In(disk) \/ In(disk)' = In(sessions)'
    BY <1>8 DEF Persist, In
  <2>3. resuming # NoThread => \A n \in Turns :
           listed[n] \in Recognised => turnStatus'[resuming][n] = listed[n]
    BY <1>0, EndedStays
  <2> QED BY <1>0, <1>8, <2>1, <2>2, <2>3
<1>9. ASSUME NEW t \in Threads, NEW n \in Turns, TurnBegins(t, n) \/ TurnEnds(t, n)
      PROVE  RecoveryInv'
  BY <1>8, <1>9 DEF TurnBegins, TurnEnds, In
<1>10. ASSUME NEW t \in Threads, NEW n \in Turns, NEW named \in BOOLEAN,
              CompletionArrives(t, n, named)
       PROVE RecoveryInv'
  <2>1. /\ In(sessions)' = In(sessions)
        /\ \A u \in Threads : sessions[u].state \notin Open => sessions'[u] = sessions[u]
        /\ Persist \/ UNCHANGED <<sessions, disk>>
        /\ sessions' \in [Threads -> Sessions]
    BY <1>0, <1>10, CompletionFacts
  <2>2. UNCHANGED <<phase, recovery>>
    BY <1>10 DEF CompletionArrives
  <2>3. sessions = Empty => sessions' = sessions
    BY <1>0, <2>1, SessionFacts, StateFacts DEF Empty
  <2> QED BY <1>0, <1>8, <2>1, <2>2, <2>3
<1>11. CASE EvidenceSaved
  BY <1>8, <1>11 DEF EvidenceSaved, In
<1>12. CASE ConnectionLost
  <2>1. CASE phase \in {"stopping", "settled"}
    BY <1>8, <2>1, <1>12 DEF ConnectionLost, In
  <2>2. CASE phase = "serving"
    BY <1>0, <2>2, <1>12 DEF ConnectionLost
  <2>3. CASE phase \notin {"stopping", "settled", "serving"}
    <3>1. In(sessions)' = In(sessions) /\ sessions' \in [Threads -> Sessions]
          /\ \A t \in Threads : sessions[t].state \notin Live => sessions'[t] = sessions[t]
      BY <1>0, <2>3, <1>12, LossMarks DEF MarksLive
    <3>2. sessions = Empty => sessions' = sessions
      BY <1>0, <3>1, SessionFacts, StateFacts DEF Empty
    <3> QED BY <1>0, <1>8, <3>1, <3>2, <2>3, <1>12 DEF ConnectionLost
  <2> QED BY <2>1, <2>2, <2>3
<1>13. CASE Stop
  BY <1>0, <1>13 DEF Stop
<1>14. ASSUME NEW ts \in SUBSET Cancellable, Settle(ts) PROVE RecoveryInv'
  BY <1>0, <1>14 DEF Settle
<1>15. CASE Exit
  BY <1>0, <1>15 DEF Exit, EndRecovery
<1>16. CASE UNCHANGED vars
  BY <1>8, <1>16 DEF vars, In
<1> QED BY <1>1, <1>2, <1>3, <1>4, <1>5, <1>6, <1>7, <1>9, <1>10, <1>11,
           <1>12, <1>13, <1>14, <1>15, <1>16 DEF Next, Startup, ServerTurns

\* Handlers appear with a start or a follow-up, and go with the process.
LEMMA HandlersStep == ASSUME ServiceInv, [Next]_vars PROVE HandlersInv'
<1>0. TypeOK /\ InboxInv /\ RecoveryInv /\ HandlersInv
  BY DEF ServiceInv, RegistryInv
<1> USE DEF HandlersInv, registry, recovery, server
<1>1. ASSUME UNCHANGED <<starting, cancelling>>,
             phase' \in {"down", "connecting", "recovering"} =>
                phase \in {"down", "connecting", "recovering"},
             In(sessions) \subseteq In(sessions)'
      PROVE  HandlersInv'
  BY <1>0, <1>1 DEF In
<1>2. CASE Start
  BY <1>0, <1>2 DEF Start
<1>3. CASE Startup
  <2>1. UNCHANGED <<starting, cancelling>> /\ starting = {} /\ cancelling = {}
    BY <1>0, <1>3 DEF Startup, ReadState, ResumeThread, SessionRecovered, StartupFails
  <2> QED BY <2>1
<1>4. CASE ServerResumes
  BY <1>0, <1>4 DEF ServerResumes
<1>5. CASE Handlers
  BY <1>5, HandlersAreServed, HandlerFacts DEF Served
<1>6. ASSUME NEW t \in Threads, NEW n \in Turns, TurnBegins(t, n) \/ TurnEnds(t, n)
      PROVE  HandlersInv'
  BY <1>0, <1>6 DEF TurnBegins, TurnEnds
<1>7. ASSUME NEW t \in Threads, NEW n \in Turns, NEW named \in BOOLEAN,
             CompletionArrives(t, n, named)
      PROVE HandlersInv'
  <2>1. In(sessions)' = In(sessions)
    BY <1>0, <1>7, CompletionFacts
  <2> QED BY <1>1, <1>7, <2>1 DEF CompletionArrives
<1>8. CASE EvidenceSaved
  BY <1>0, <1>8 DEF EvidenceSaved
<1>9. CASE ConnectionLost
  <2>1. In(sessions)' = In(sessions)
    BY <1>0, <1>9, LossMarks DEF ConnectionLost, MarksLive, In
  <2> QED BY <1>1, <1>9, <2>1 DEF ConnectionLost
<1>10. CASE Stop
  BY <1>0, <1>10 DEF Stop
<1>11. ASSUME NEW ts \in SUBSET Cancellable, Settle(ts) PROVE HandlersInv'
  <2>1. In(sessions)' = In(sessions)
    BY <1>0, <1>11, SettleMarks DEF MarksLive
  <2> QED BY <1>1, <1>11, <2>1 DEF Settle
<1>12. CASE Exit
  BY <1>12 DEF Exit
<1>13. CASE UNCHANGED vars
  BY <1>0, <1>13 DEF vars
<1> QED BY <1>2, <1>3, <1>4, <1>5, <1>6, <1>7, <1>8, <1>9, <1>10, <1>11,
           <1>12, <1>13 DEF Next, ServerTurns

\* The listener waits for the end of the recovery.
LEMMA ServingStep == ASSUME ServiceInv, [Next]_vars PROVE ServingIsComplete'
<1>0. TypeOK /\ InboxInv /\ RecoveryInv /\ ServingIsComplete
  BY DEF ServiceInv, RegistryInv
<1> USE DEF ServingIsComplete, registry, recovery, server
<1>1. ASSUME UNCHANGED <<phase, records, configured>>, In(sessions) \subseteq In(sessions)'
      PROVE  ServingIsComplete'
  BY <1>0, <1>1 DEF In
<1>2. CASE phase' # "serving"
  BY <1>2
<1>3. CASE ReadState /\ phase' = "serving"
  BY <1>3 DEF ReadState, In
<1>4. CASE SessionRecovered /\ phase' = "serving"
  <2>1. /\ resuming \in Threads /\ resuming \in remaining
        /\ Resumed(records[resuming]) # NoSession
    BY <1>0, <1>4, ResumedFacts DEF SessionRecovered, RecoveryInv, In, TypeOK
  <2>2. sessions' = [sessions EXCEPT ![resuming] = Resumed(records[resuming])]
    BY <1>4 DEF SessionRecovered
  <2>3. In(sessions)' = In(sessions) \cup {resuming}
    BY <1>0, <2>1, <2>2 DEF In, TypeOK
  <2>4. remaining \subseteq {resuming} /\ phase = "recovering"
    BY <1>4 DEF SessionRecovered, AllRecovered
  <2>5. In(records)' = In(records) /\ configured' = configured
    BY <1>4 DEF SessionRecovered, In
  <2>6. In(sessions) = In(records) \ remaining /\ In(sessions) \subseteq configured
        /\ resuming \in configured
    BY <1>0, <1>4, <2>4 DEF RecoveryInv, SessionRecovered
  <2> QED BY <2>1, <2>3, <2>4, <2>5, <2>6
<1>5. CASE Handlers
  BY <1>1, <1>5, HandlersAreServed, HandlerFacts
<1>6. ASSUME NEW t \in Threads, NEW n \in Turns, NEW named \in BOOLEAN,
             CompletionArrives(t, n, named)
      PROVE ServingIsComplete'
  <2>1. In(sessions)' = In(sessions)
    BY <1>0, <1>6, CompletionFacts
  <2> QED BY <1>1, <1>6, <2>1 DEF CompletionArrives
<1>7. CASE UNCHANGED <<phase, records, configured, sessions>>
  BY <1>1, <1>7 DEF In
<1> QED
  BY <1>2, <1>3, <1>4, <1>5, <1>6, <1>7
     DEF Next, Startup, ServerTurns, Start, ResumeThread, StartupFails,
         ServerResumes, TurnBegins, TurnEnds, EvidenceSaved, ConnectionLost,
         Stop, Settle, Exit, vars

\* A follow-up that is not saved leaves the completed turn before in the file.
LEMMA FollowUpLags ==
    ASSUME ServiceInv, NEW t \in Threads, FollowUp(t)
    PROVE  FileFollowsRegistry'
<1>1. /\ IssueTurn(t) /\ Becomes(t, "active", NoTurn) /\ UNCHANGED <<phase, disk>>
      /\ phase = "serving" /\ sessions[t].state = "completed"
      /\ TypeOK /\ FileFollowsRegistry
  BY DEF FollowUp, Accepting, ServiceInv, RegistryInv
<1>2. /\ sessions'[t] = [state |-> "active", turn |-> NoTurn]
      /\ \A u \in Threads \ {t} : sessions'[u] = sessions[u]
      /\ In(sessions)' = In(sessions) \cup {t}
  BY <1>1, BecomesFacts, StateFacts
<1>3. t \in In(sessions)
  BY <1>1, LiveIsSession, StateFacts DEF In
<1>4. /\ attempt[t] + 1 \in Turns
      /\ starting' = starting \cup {<<t, attempt[t] + 1>>}
  BY <1>1, IssueFacts
<1>5. disk[t].state = "completed"
  BY <1>1 DEF FileFollowsRegistry, FileLags
<1>6. In(disk)' = In(disk)
  BY <1>1 DEF In
<1>7. FileLags(t)'
  BY <1>1, <1>2, <1>4, <1>5 DEF FileLags
<1>8. \A u \in Threads \ {t} : FileLags(u) => FileLags(u)'
  BY <1>1, <1>2, <1>4 DEF FileLags
<1> QED BY <1>1, <1>2, <1>3, <1>6, <1>7, <1>8 DEF FileFollowsRegistry

\* Nor does the file know of a turn/start that has failed.
LEMMA FailureLags ==
    ASSUME ServiceInv, NEW t \in Threads, NEW n \in Turns, TurnStartFailed(t, n)
    PROVE  FileFollowsRegistry'
<1>1. /\ Becomes(t, "failed", sessions[t].turn)
      /\ starting' = starting \ {<<t, n>>}
      /\ UNCHANGED <<phase, disk, connected>>
      /\ TypeOK /\ FileFollowsRegistry /\ sessions[t] # NoSession
  BY DEF TurnStartFailed, ServiceInv, RegistryInv, HandlersInv, server
<1>2. /\ sessions'[t].state = "failed"
      /\ \A u \in Threads \ {t} : sessions'[u] = sessions[u]
      /\ In(sessions)' = In(sessions) \cup {t}
  <2>1. sessions[t].turn \in Turns \cup {NoTurn}
    BY <1>1, SessionFacts DEF TypeOK
  <2> QED BY <1>1, <2>1, BecomesFacts, StateFacts
<1>3. In(sessions)' = In(sessions) /\ In(disk)' = In(disk)
  BY <1>1, <1>2 DEF In
<1>4. FileLags(t)'
  BY <1>2 DEF FileLags
<1>5. \A u \in Threads \ {t} : FileLags(u) => FileLags(u)'
  BY <1>1, <1>2 DEF FileLags
<1> QED BY <1>1, <1>2, <1>3, <1>4, <1>5 DEF FileFollowsRegistry

\* Whatever else changes a session saves.
LEMMA FileStep == ASSUME ServiceInv, [Next]_vars PROVE FileFollowsRegistry'
<1>0. TypeOK /\ RecoveryInv /\ HandlersInv /\ FileFollowsRegistry
  BY DEF ServiceInv, RegistryInv
<1> USE DEF registry, recovery, server
<1>1. ASSUME Persist PROVE FileFollowsRegistry'
  BY <1>1 DEF FileFollowsRegistry, Persist, In
<1>2. ASSUME UNCHANGED <<phase, sessions, disk, starting>>,
             connected' => connected
      PROVE  FileFollowsRegistry'
  BY <1>0, <1>2 DEF FileFollowsRegistry, FileLags, In
<1>3. CASE phase' \notin {"serving", "settled"}
  BY <1>3 DEF FileFollowsRegistry
<1>4. CASE ReadState /\ phase' = "serving"
  <2>1. sessions' = Empty /\ disk' = disk /\ In(disk) = {}
    BY <1>0, <1>4 DEF ReadState, RecoveryInv
  <2>2. disk' = Empty
    BY <1>0, <2>1 DEF Empty, In, TypeOK
  <2> QED BY <2>1, <2>2 DEF FileFollowsRegistry, In
<1>5. CASE SessionRecovered
  BY <1>1, <1>3, <1>5 DEF SessionRecovered
<1>6. ASSUME NEW t \in Threads, StartSession(t) \/ CancelSession(t)
      PROVE  FileFollowsRegistry'
  BY <1>1, <1>6 DEF StartSession, CancelSession
<1>7. ASSUME NEW t \in Threads, NEW n \in Turns, TurnStarted(t, n)
      PROVE  FileFollowsRegistry'
  BY <1>1, <1>7 DEF TurnStarted
<1>8. ASSUME NEW t \in Threads, NEW n \in Turns, CancelUnconfirmed(t, n)
      PROVE  FileFollowsRegistry'
  BY <1>1, <1>2, <1>8 DEF CancelUnconfirmed
<1>9. CASE Handlers
  BY <1>6, <1>7, <1>8, <1>9, FollowUpLags, FailureLags DEF Handlers
<1>10. ASSUME NEW t \in Threads, NEW n \in Turns, NEW named \in BOOLEAN,
              CompletionArrives(t, n, named)
       PROVE FileFollowsRegistry'
  BY <1>1, <1>2, <1>10 DEF CompletionArrives
<1>11. CASE ConnectionLost
  <2>1. CASE phase \in {"stopping", "settled"}
    BY <1>2, <2>1, <1>11 DEF ConnectionLost
  <2>2. CASE phase \notin {"stopping", "settled"}
    BY <1>1, <2>2, <1>11 DEF ConnectionLost
  <2> QED BY <2>1, <2>2
<1>12. ASSUME NEW ts \in SUBSET Cancellable, Settle(ts)
       PROVE  FileFollowsRegistry'
  BY <1>1, <1>12 DEF Settle
<1>13. CASE EvidenceSaved
  BY <1>1, <1>13 DEF EvidenceSaved
<1>14. CASE UNCHANGED <<phase, sessions, disk, starting, connected>>
  BY <1>2, <1>14
<1> QED
  BY <1>3, <1>4, <1>5, <1>9, <1>10, <1>11, <1>12, <1>13, <1>14
     DEF Next, Startup, ServerTurns, Start, ReadState, ResumeThread,
         StartupFails, ServerResumes, TurnBegins, TurnEnds, Stop, Exit, vars

\* Only start_session enters a new thread, and it asks for a turn; all else
\* copies or marks.
LEMMA StartedStep == ASSUME ServiceInv, [Next]_vars PROVE StartedInv'
<1>0. TypeOK /\ InboxInv /\ RecoveryInv /\ StartedInv
  BY DEF ServiceInv, RegistryInv
<1>n. \A t \in Threads : sessions[t] = NoSession => sessions[t].state \notin Open
  BY SessionFacts, StateFacts
<1> USE DEF StartedInv, registry, recovery, server, Persist
<1>1. ASSUME \A t \in Threads : attempt'[t] = 0 =>
                attempt[t] = 0 /\ sessions'[t] = sessions[t],
             Persist \/ UNCHANGED disk, UNCHANGED records
      PROVE  StartedInv'
  BY <1>0, <1>1
<1>2. CASE Start
  BY <1>0, <1>2 DEF Start
<1>3. CASE ReadState
  BY <1>0, <1>3 DEF ReadState
<1>4. CASE SessionRecovered
  <2>1. attempt[resuming] # 0 /\ resuming \in Threads
    BY <1>0, <1>4 DEF SessionRecovered, RecoveryInv, In, TypeOK
  <2> QED BY <1>0, <2>1, <1>4 DEF SessionRecovered, TypeOK
<1>5. CASE StartupFails
  BY <1>0, <1>5 DEF StartupFails, EndRecovery, Empty
<1>6. CASE Handlers
  BY <1>1, <1>6, HandlersAreServed, HandlerFacts
<1>7. ASSUME NEW t \in Threads, NEW n \in Turns, NEW named \in BOOLEAN,
             CompletionArrives(t, n, named)
      PROVE StartedInv'
  <2>1. /\ \A u \in Threads : sessions[u].state \notin Open => sessions'[u] = sessions[u]
        /\ Persist \/ UNCHANGED <<sessions, disk>>
    BY <1>0, <1>7, CompletionFacts
  <2>2. UNCHANGED <<attempt, records>>
    BY <1>7 DEF CompletionArrives
  <2> QED BY <1>0, <1>n, <2>1, <2>2
<1>8. CASE ConnectionLost
  <2>1. UNCHANGED <<attempt, records>>
    BY <1>8 DEF ConnectionLost
  <2>2. CASE phase \in {"stopping", "settled"}
    BY <1>0, <2>1, <2>2, <1>8 DEF ConnectionLost
  <2>3. CASE phase \notin {"stopping", "settled"}
    <3>1. MarksLive /\ Persist
      BY <1>0, <1>8, <2>3, LossMarks DEF ConnectionLost
    <3> QED BY <1>0, <1>n, <2>1, <3>1, StateFacts DEF MarksLive
  <2> QED BY <2>2, <2>3
<1>9. ASSUME NEW ts \in SUBSET Cancellable, Settle(ts) PROVE StartedInv'
  <2>1. MarksLive /\ Persist /\ UNCHANGED <<attempt, records>>
    BY <1>0, <1>9, SettleMarks DEF Settle
  <2> QED BY <1>0, <1>n, <2>1, StateFacts DEF MarksLive
<1>10. CASE Exit
  BY <1>0, <1>10 DEF Exit, EndRecovery, Empty
<1>11. CASE UNCHANGED <<attempt, sessions, records>> /\ (Persist \/ UNCHANGED disk)
  BY <1>1, <1>11
<1> QED
  BY <1>2, <1>3, <1>4, <1>5, <1>6, <1>7, <1>8, <1>9, <1>10, <1>11
     DEF Next, Startup, ServerTurns, ResumeThread, ServerResumes, TurnBegins,
         TurnEnds, EvidenceSaved, Stop, vars

\* An outcome in the file whose session is open is the completed turn before
\* a follow-up under way.
LEMMA OpenIsFollowUp ==
    ASSUME ServiceInv, NEW t \in Threads, disk[t].state \in Outcomes,
           sessions[t].state \in Open
    PROVE  disk[t].state = "completed" /\ \E n \in Turns : <<t, n>> \in starting
<1>1. MayReplace(t, sessions[t])
  BY DEF ServiceInv, OutcomeInv
<1>2. sessions[t] # disk[t] /\ sessions[t] # NoSession /\ sessions[t].state # "failed"
  BY SessionFacts, StateFacts
<1>3. ASSUME disk[t].turn \in Turns
      PROVE  sessions[t] # [state |-> turnStatus[t][disk[t].turn], turn |-> NoTurn]
  <2>1. turnStatus[t][disk[t].turn] \in TurnStatuses
    BY <1>3 DEF ServiceInv, TypeOK
  <2>2. turnStatus[t][disk[t].turn] \notin Open
    BY <2>1 DEF TurnStatuses, Recognised, Open, Live
  <2> QED BY <2>2
<1> QED BY <1>1, <1>2, <1>3 DEF MayReplace

\* What a step may make of an outcome in the file.
OutcomesKept ==
    \A t \in Threads : disk[t].state \in Outcomes => MayReplace(t, disk'[t])

\* A save puts the new registry in place of the file.
LEMMA SaveKeeps ==
    ASSUME ServiceInv, Persist,
           \A t \in Threads : disk[t].state \in Outcomes => MayReplace(t, sessions'[t])
    PROVE  OutcomeInv' /\ OutcomesKept
<1>1. disk' = sessions'
  BY DEF Persist
<1>2. OutcomesKept
  BY <1>1 DEF OutcomesKept
<1>3. \A t \in Threads : MayReplace(t, sessions[t])'
  BY <1>1 DEF MayReplace
<1>4. \A t \in Threads : disk'[t].state \in Outcomes => sessions'[t] # NoSession
  BY <1>1, SessionFacts, StateFacts
<1> QED BY <1>2, <1>3, <1>4 DEF OutcomeInv

\* So does a step that changes open sessions only.
LEMMA OpenStepKeeps ==
    ASSUME ServiceInv, Persist,
           \A t \in Threads : sessions[t].state \notin Open => sessions'[t] = sessions[t]
    PROVE  OutcomeInv' /\ OutcomesKept
<1>1. ASSUME NEW t \in Threads, disk[t].state \in Outcomes
      PROVE  MayReplace(t, sessions'[t])
  <2>1. CASE sessions[t].state \in Open
    BY <1>1, <2>1, OpenIsFollowUp DEF MayReplace
  <2>2. CASE sessions[t].state \notin Open
    BY <1>1, <2>2 DEF ServiceInv, OutcomeInv
  <2> QED BY <2>1, <2>2
<1> QED BY <1>1, SaveKeeps

\* A step that leaves the registry and the file alone, and the handlers too.
LEMMA IdleStepKeeps ==
    ASSUME ServiceInv, [Next]_vars, UNCHANGED <<disk, sessions, starting>>,
           phase \in {"serving", "stopping", "settled"} =>
              phase' \in {"serving", "stopping", "settled"},
           phase' = "recovering" => phase = "recovering" /\ UNCHANGED records
    PROVE  OutcomeInv' /\ OutcomesKept
<1>1. ASSUME NEW t \in Threads, disk[t].state \in Outcomes
      PROVE  MayReplace(t, disk'[t]) /\ MayReplace(t, sessions[t])'
  <2>1. MayReplace(t, sessions[t])
    BY <1>1 DEF ServiceInv, OutcomeInv
  <2>2. ASSUME disk[t].turn \in Turns,
               sessions[t] = [state |-> turnStatus[t][disk[t].turn], turn |-> NoTurn]
        PROVE  sessions[t] = NoSession \/
               sessions[t] = [state |-> turnStatus'[t][disk[t].turn], turn |-> NoTurn]
    <3>1. turnStatus[t][disk[t].turn] \in TurnStatuses /\ sessions[t] \in Sessions
      BY <2>2 DEF ServiceInv, TypeOK
    <3>2. CASE turnStatus[t][disk[t].turn] \in Recognised
      BY <2>2, <3>2, EndedStays
    <3>3. CASE turnStatus[t][disk[t].turn] \notin Recognised
      <4>1. sessions[t].state \in {"none", "running"}
        BY <2>2, <3>1, <3>3 DEF TurnStatuses
      <4>2. "running" \notin States
        BY DEF States, Open, Live, Outcomes, Recognised
      <4> QED BY <3>1, <4>1, <4>2, SessionFacts, StateFacts
    <3> QED BY <3>2, <3>3
  <2> QED BY <2>1, <2>2 DEF MayReplace
<1> QED BY <1>1 DEF OutcomeInv, OutcomesKept, ServiceInv

\* A step keeps the outcomes of the file, and what makes the next do so.
LEMMA OutcomeStep ==
    ASSUME ServiceInv, [Next]_vars PROVE OutcomeInv' /\ OutcomesKept
<1>0. TypeOK /\ InboxInv /\ RecoveryInv /\ HandlersInv /\ StartedInv
      /\ OutcomeInv /\ FileFollowsRegistry
  BY DEF ServiceInv, RegistryInv
<1> USE DEF registry, recovery, server
<1>1. CASE Start \/ (\E t \in Threads : ResumeThread(t)) \/ StartupFails
           \/ ServerResumes \/ Stop \/ UNCHANGED vars
  BY <1>1, IdleStepKeeps
     DEF Start, ResumeThread, StartupFails, ServerResumes, Stop, vars
<1>2. CASE ReadState
  <2>1. sessions' = Empty /\ disk' = disk /\ records' = disk
    BY <1>0, <1>2 DEF ReadState, RecoveryInv
  <2> QED BY <2>1 DEF OutcomeInv, OutcomesKept, MayReplace, Empty
<1>3. CASE SessionRecovered
  <2>1. /\ resuming \in Threads /\ resuming # NoThread
        /\ resuming \in remaining /\ sessions[resuming] = NoSession
        /\ phase = "recovering" /\ records' = records
        /\ UNCHANGED <<starting, turnStatus>>
    BY <1>0, <1>3 DEF SessionRecovered, RecoveryInv, TypeOK, In
  <2>2. sessions' = [sessions EXCEPT ![resuming] = Resumed(records[resuming])]
    BY <1>3 DEF SessionRecovered
  <2>3. ASSUME NEW t \in Threads, disk[t].state \in Outcomes
        PROVE  MayReplace(t, sessions'[t])
    <3>1. CASE t = resuming
      <4>1. records[t] = disk[t] /\ sessions'[t] = Resumed(disk[t]) /\ disk[t] \in Sessions
        BY <1>0, <2>1, <2>2, <2>3, <3>1 DEF OutcomeInv, TypeOK
      <4>2. \/ sessions'[t] = disk[t]
            \/ /\ disk[t].turn \in Turns
               /\ listed[disk[t].turn] \in Recognised
               /\ sessions'[t] = [state |-> listed[disk[t].turn], turn |-> NoTurn]
        BY <1>0, <4>1, ResumedFacts
      <4> QED BY <1>0, <2>1, <3>1, <4>2 DEF MayReplace, RecoveryInv
    <3>2. CASE t # resuming
      BY <1>0, <2>2, <2>3, <3>2 DEF OutcomeInv, TypeOK
    <3> QED BY <3>1, <3>2
  <2>4. CASE Persist
    BY <2>3, <2>4, SaveKeeps
  <2>5. CASE UNCHANGED <<disk, phase>>
    <3>1. \A t \in Threads : disk[t].state \in Outcomes => MayReplace(t, sessions[t])'
      BY <2>1, <2>3, <2>5 DEF MayReplace
    <3>2. \A t \in Threads : disk[t].state \in Outcomes /\ sessions'[t] = NoSession =>
             records'[t] = disk[t]
      <4>1. Resumed(records[resuming]) # NoSession
        BY <1>0, <2>1, ResumedFacts DEF RecoveryInv, TypeOK, In
      <4> QED BY <1>0, <2>1, <2>2, <4>1 DEF OutcomeInv, TypeOK
    <3> QED BY <2>5, <3>1, <3>2 DEF OutcomeInv, OutcomesKept, MayReplace
  <2> QED BY <2>4, <2>5, <1>3 DEF SessionRecovered
<1>4. ASSUME NEW t \in Threads, StartSession(t) PROVE OutcomeInv' /\ OutcomesKept
  <2>1. Persist /\ \A u \in Threads \ {t} : sessions'[u] = sessions[u]
    BY <1>0, <1>4, BecomesFacts, StateFacts DEF StartSession
  <2>2. disk[t] = NoSession
    BY <1>0, <1>4 DEF StartSession, StartedInv
  <2>3. disk[t].state \notin Outcomes
    BY <2>2, SessionFacts, StateFacts
  <2> QED BY <1>0, <2>1, <2>3, SaveKeeps DEF OutcomeInv
<1>5. ASSUME NEW t \in Threads, FollowUp(t) PROVE OutcomeInv' /\ OutcomesKept
  <2>1. /\ IssueTurn(t) /\ Becomes(t, "active", NoTurn)
        /\ UNCHANGED <<phase, disk, records, turnStatus>> /\ phase = "serving"
        /\ sessions[t].state = "completed"
    BY <1>5 DEF FollowUp, Accepting
  <2>2. /\ attempt[t] + 1 \in Turns
        /\ starting' = starting \cup {<<t, attempt[t] + 1>>}
        /\ \A u \in Threads \ {t} : sessions'[u] = sessions[u]
    BY <1>0, <2>1, IssueFacts, BecomesFacts, StateFacts
  <2>3. disk[t].state = "completed"
    BY <1>0, <2>1 DEF FileFollowsRegistry, FileLags
  <2>4. MayReplace(t, sessions[t])'
    BY <2>1, <2>2, <2>3 DEF MayReplace
  <2>5. \A u \in Threads \ {t} : MayReplace(u, sessions[u]) => MayReplace(u, sessions[u])'
    BY <2>1, <2>2 DEF MayReplace
  <2> QED BY <1>0, <2>1, <2>4, <2>5 DEF OutcomeInv, OutcomesKept, MayReplace
<1>6. ASSUME NEW t \in Threads, NEW n \in Turns, TurnStarted(t, n)
      PROVE  OutcomeInv' /\ OutcomesKept
  <2>1. Persist /\ (sessions[t].state = "active" \/ UNCHANGED sessions)
    BY <1>6 DEF TurnStarted
  <2>2. \A u \in Threads \ {t} : sessions'[u] = sessions[u]
    BY <1>0, <1>6, BecomesFacts, StateFacts DEF TurnStarted
  <2> QED BY <2>1, <2>2, OpenStepKeeps, StateFacts
<1>7. ASSUME NEW t \in Threads, NEW n \in Turns, TurnStartFailed(t, n)
      PROVE  OutcomeInv' /\ OutcomesKept
  <2>1. /\ Becomes(t, "failed", sessions[t].turn)
        /\ starting' = starting \ {<<t, n>>}
        /\ UNCHANGED <<phase, disk, records, turnStatus>>
    BY <1>7 DEF TurnStartFailed
  <2>2. phase \in {"serving", "stopping", "settled"}
    BY <1>0, <1>7 DEF TurnStartFailed, HandlersInv, TypeOK
  <2>3. sessions[t].turn \in Turns \cup {NoTurn}
    BY <1>0, SessionFacts DEF TypeOK
  <2>4. /\ sessions'[t].state = "failed"
        /\ \A u \in Threads \ {t} : sessions'[u] = sessions[u]
    BY <1>0, <2>1, <2>3, BecomesFacts, StateFacts
  <2>5. MayReplace(t, sessions[t])'
    BY <2>1, <2>2, <2>4 DEF MayReplace
  <2>6. \A u \in Threads \ {t} : MayReplace(u, sessions[u]) => MayReplace(u, sessions[u])'
    BY <2>1, <2>4 DEF MayReplace
  <2> QED BY <1>0, <2>1, <2>2, <2>5, <2>6 DEF OutcomeInv, OutcomesKept, MayReplace
<1>8. ASSUME NEW t \in Threads, CancelSession(t) PROVE OutcomeInv' /\ OutcomesKept
  <2>1. Persist /\ sessions[t].state = "active" /\ sessions[t].turn \in Turns \cup {NoTurn}
    BY <1>0, <1>8, SessionFacts DEF CancelSession, TypeOK
  <2>2. \A u \in Threads \ {t} : sessions'[u] = sessions[u]
    BY <1>0, <1>8, <2>1, BecomesFacts, StateFacts DEF CancelSession
  <2> QED BY <2>1, <2>2, OpenStepKeeps, StateFacts
<1>9. ASSUME NEW t \in Threads, NEW n \in Turns, CancelUnconfirmed(t, n)
      PROVE  OutcomeInv' /\ OutcomesKept
  <2>1. CASE sessions[t].state = "cancelling"
    <3>1. Persist /\ sessions[t].turn \in Turns \cup {NoTurn}
      BY <1>0, <1>9, <2>1, SessionFacts DEF CancelUnconfirmed, TypeOK
    <3>2. \A u \in Threads \ {t} : sessions'[u] = sessions[u]
      BY <1>0, <1>9, <2>1, <3>1, BecomesFacts, StateFacts DEF CancelUnconfirmed
    <3> QED BY <2>1, <3>1, <3>2, OpenStepKeeps, StateFacts
  <2>2. CASE sessions[t].state # "cancelling"
    BY <1>9, <2>2, IdleStepKeeps DEF CancelUnconfirmed
  <2> QED BY <2>1, <2>2
<1>10. ASSUME NEW t \in Threads, NEW n \in Turns, TurnBegins(t, n) \/ TurnEnds(t, n)
       PROVE  OutcomeInv' /\ OutcomesKept
  BY <1>10, IdleStepKeeps DEF TurnBegins, TurnEnds
<1>11. ASSUME NEW t \in Threads, NEW n \in Turns, NEW named \in BOOLEAN,
              CompletionArrives(t, n, named)
       PROVE OutcomeInv' /\ OutcomesKept
  <2>1. /\ \A u \in Threads : sessions[u].state \notin Open => sessions'[u] = sessions[u]
        /\ Persist \/ UNCHANGED <<sessions, disk>>
    BY <1>0, <1>11, CompletionFacts
  <2> QED BY <1>11, <2>1, OpenStepKeeps, IdleStepKeeps DEF CompletionArrives
<1>12. CASE EvidenceSaved
  BY <1>12, OpenStepKeeps DEF EvidenceSaved
<1>13. CASE ConnectionLost
  <2>1. CASE phase \in {"stopping", "settled"}
    BY <1>13, <2>1, IdleStepKeeps DEF ConnectionLost
  <2>2. CASE phase \notin {"stopping", "settled"}
    BY <1>0, <1>13, <2>2, LossMarks, OpenStepKeeps, StateFacts
       DEF ConnectionLost, MarksLive
  <2> QED BY <2>1, <2>2
<1>14. ASSUME NEW ts \in SUBSET Cancellable, Settle(ts)
       PROVE  OutcomeInv' /\ OutcomesKept
  BY <1>0, <1>14, SettleMarks, OpenStepKeeps, StateFacts DEF Settle, MarksLive
<1>15. CASE Exit
  <2>1. sessions' = Empty /\ disk' = disk /\ phase' = "down"
    BY <1>15 DEF Exit
  <2> QED BY <2>1 DEF OutcomeInv, OutcomesKept, MayReplace, Empty
<1> QED BY <1>1, <1>2, <1>3, <1>4, <1>5, <1>6, <1>7, <1>8, <1>9, <1>10,
           <1>11, <1>12, <1>13, <1>14, <1>15
        DEF Next, Startup, Handlers, ServerTurns

\* A step that ends in service drops no record.
LEMMA RecordStep ==
    ASSUME ServiceInv, ServiceInv', [Next]_vars, phase' = "serving"
    PROVE  In(disk) \subseteq In(disk')
<1>0. TypeOK /\ InboxInv /\ RecoveryInv /\ FileFollowsRegistry
  BY DEF ServiceInv, RegistryInv
<1>1. In(disk') = In(sessions') /\ In(records') \subseteq In(sessions')
  BY DEF ServiceInv, RegistryInv, FileFollowsRegistry, ServingIsComplete, In
<1> USE DEF registry, recovery, server
<1>2. CASE phase = "recovering" /\ records' = records
  BY <1>0, <1>1, <1>2 DEF RecoveryInv, In
<1>3. CASE phase = "serving" /\ In(sessions) \subseteq In(sessions')
  BY <1>0, <1>1, <1>3 DEF FileFollowsRegistry
<1>4. CASE UNCHANGED disk
  BY <1>4
<1>5. CASE Handlers
  <2>1. phase = "serving" /\ In(sessions) \subseteq In(sessions')
    BY <1>5, HandlersAreServed, HandlerFacts DEF In
  <2> QED BY <1>3, <2>1
<1>6. CASE SessionRecovered
  BY <1>2, <1>6 DEF SessionRecovered
<1>7. ASSUME NEW t \in Threads, NEW n \in Turns, NEW named \in BOOLEAN,
             CompletionArrives(t, n, named)
      PROVE In(disk) \subseteq In(disk')
  <2>1. phase = "serving" /\ In(sessions) \subseteq In(sessions')
    BY <1>0, <1>7, CompletionFacts DEF CompletionArrives, In
  <2> QED BY <1>3, <2>1
<1>8. CASE EvidenceSaved
  BY <1>3, <1>8 DEF EvidenceSaved, In
<1>9. CASE ConnectionLost
  BY <1>9 DEF ConnectionLost
<1>10. CASE \E ts \in SUBSET Cancellable : Settle(ts)
  BY <1>10 DEF Settle
<1> QED
  BY <1>4, <1>5, <1>6, <1>7, <1>8, <1>9, <1>10
     DEF Next, Startup, ServerTurns, Start, ReadState, ResumeThread,
         StartupFails, ServerResumes, TurnBegins, TurnEnds, Stop, Exit, vars

-----------------------------------------------------------------------------
\* The inductive invariant holds at every moment of every life of the service.
THEOREM Invariance == Spec => []ServiceInv
<1>1. Init => ServiceInv
  BY InitHolds
<1>2. ServiceInv /\ [Next]_vars => ServiceInv'
  <2> SUFFICES ASSUME ServiceInv, [Next]_vars PROVE ServiceInv'
    OBVIOUS
  <2>1. TypeOK'
    BY TypeStep DEF ServiceInv
  <2>2. RegistryInv'
    BY RecoveryStep, HandlersStep, ServingStep, FileStep DEF RegistryInv
  <2> QED BY <2>1, <2>2, InboxStep, StartedStep, OutcomeStep DEF ServiceInv
<1> QED BY <1>1, <1>2, PTL DEF Spec

\* The variables keep their types, however often the service is started.
THEOREM TypeCorrect == Spec => []TypeOK
BY Invariance, PTL DEF ServiceInv

\* recover_sessions restores every session of the state file, each with its
\* project configured, before run() lets the listener serve.
THEOREM RecoveryIsComplete == Spec => []ServingIsComplete
<1>1. ServiceInv => ServingIsComplete
  BY DEF ServiceInv, RegistryInv
<1> QED BY <1>1, Invariance, PTL

\* While the service serves, and after a shutdown has settled it, the state
\* file has the registered sessions and no others, and lags behind clients in
\* nothing but a failed turn/start and a follow-up whose turn/start is under
\* way.
THEOREM FileLagsByStartsOnly == Spec => []FileFollowsRegistry
<1>1. ServiceInv => FileFollowsRegistry
  BY DEF ServiceInv, RegistryInv
<1> QED BY <1>1, Invariance, PTL

\* Neither a recovery, a connection loss, shutdown() nor a save made for
\* another session rewrites an outcome in the state file, except that a record
\* with a turn id gets the app-server's word on that turn; only the session's
\* own turn/start does, by failing or by being a follow-up.
THEOREM OutcomesSurvive == Spec => OutcomesAreKept
<1>1. ServiceInv /\ [Next]_vars => [OutcomesKept]_vars
  BY OutcomeStep
<1> QED BY <1>1, Invariance, PTL DEF Spec, OutcomesAreKept, OutcomesKept

\* A start that gets as far as serving, and the service after it, drops no
\* session from the state file.
THEOREM RecordsSurviveStart == Spec => ServiceKeepsRecords
<1>1. ServiceInv /\ ServiceInv' /\ [Next]_vars =>
         [phase' = "serving" => In(disk) \subseteq In(disk')]_vars
  BY RecordStep
<1> QED BY <1>1, Invariance, PTL DEF Spec, ServiceKeepsRecords
=============================================================================
