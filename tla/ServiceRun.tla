----------------------------- MODULE ServiceRun -----------------------------
(***************************************************************************)
(* The life of the service process (run() in service.py) around its state  *)
(* file: it connects, recovers the sessions of the file one thread/resume  *)
(* at a time, serves, stops or crashes, and is started again.              *)
(*                                                                         *)
(* A session is its thread, its state and its recorded turn id; the n-th   *)
(* turn/start of a thread yields turn n.  Starts and follow-ups may fail,  *)
(* before and after the app-server has begun the turn, and cancellations   *)
(* may.  Each completion comes once, so that last_completed_turn_id, which *)
(* is not saved, has nothing to tell apart here; that a limit refuses a    *)
(* start, and the await of thread/start, are in SessionService.            *)
(* Of evidence only that it is saved is modelled; the order of the records *)
(* in the file is any.  _persist_sessions replaces the file in one step (a *)
(* temporary file renamed), so a crash never leaves half of it.            *)
(***************************************************************************)
EXTENDS Naturals, FiniteSets

CONSTANTS
    Threads,    \* threads, one session each
    MaxTurns,   \* bound: turn/start calls made for one thread
    MaxStarts,  \* bound: number of times the process is started
    Endings     \* how a turn may end

Recognised == {"completed", "failed", "interrupted"}

ASSUME MaxTurnsAssumption == MaxTurns \in Nat \ {0}
ASSUME MaxStartsAssumption == MaxStarts \in Nat \ {0}
ASSUME EndingsAssumption == Endings \subseteq Recognised

NoTurn == 0                 \* turn_id = None
Turns == 1..MaxTurns

\* The states connection_lost() and shutdown() end.
Live == {"active", "cancelling"}
\* The states a turn/completed may still move.
Open == Live \cup {"cancel_unknown"}
\* The states nothing but a follow-up, a late failure or a recovery leaves.
Outcomes == Recognised \cup {"protocol_unknown", "connection_lost",
                             "cancelled", "shutdown_unknown"}
States == Open \cup Outcomes

NoSession == [state |-> "none", turn |-> NoTurn]
Sessions == [state: States, turn: Turns \cup {NoTurn}] \cup {NoSession}
TurnStatuses == Recognised \cup {"none", "running"}
NoThread == "none"
ASSUME ThreadsAssumption == NoThread \notin Threads

VARIABLES
    phase,         \* where run() is
    starts,        \* how often it was started
    configured,    \* threads whose project is configured as it was
    sessions,      \* CoordinatorService.sessions
    attempt,       \* number of the newest turn/start issued for the thread
    starting,      \* the turns whose turn/start has not returned
    cancelling,    \* the turns whose turn/interrupt has not returned
    records,       \* what recover_sessions read from the state file
    remaining,     \* records it has not come to yet
    resuming,      \* the thread it has asked to resume
    answer,        \* whether thread/resume was answered,
    listed,        \* and what it says of that thread's turns
    connected,     \* does the connection work?
    attached,      \* threads whose notifications come over this connection
    inbox,         \* turns whose turn/completed has not been dispatched
    disk,          \* the state file
    turnStatus     \* the app-server's view of each turn

registry == <<sessions, attempt, starting, cancelling>>
recovery == <<configured, records, remaining, resuming, answer, listed>>
server   == <<connected, attached, inbox, turnStatus>>
vars == <<phase, starts, recovery, registry, server, disk>>

NotListed == [n \in Turns |-> "none"]

TypeOK ==
    /\ phase \in {"down", "connecting", "recovering", "serving", "stopping",
                  "settled"}
    /\ starts \in 0..MaxStarts
    /\ configured \subseteq Threads
    /\ sessions \in [Threads -> Sessions]
    /\ attempt \in [Threads -> 0..MaxTurns]
    /\ starting \subseteq Threads \X Turns
    /\ cancelling \subseteq Threads \X Turns
    /\ records \in [Threads -> Sessions]
    /\ remaining \subseteq Threads
    /\ resuming \in Threads \cup {NoThread}
    /\ answer \in {"none", "resumed", "refused"}
    /\ listed \in [Turns -> TurnStatuses]
    /\ connected \in BOOLEAN
    /\ attached \subseteq Threads
    /\ inbox \subseteq Threads \X Turns
    /\ disk \in [Threads -> Sessions]
    /\ turnStatus \in [Threads -> [Turns -> TurnStatuses]]

Empty == [t \in Threads |-> NoSession]
In(file) == {t \in Threads : file[t] # NoSession}

Init ==
    /\ phase = "down"
    /\ starts = 0
    /\ configured = {}
    /\ sessions = Empty
    /\ attempt = [t \in Threads |-> 0]
    /\ starting = {}
    /\ cancelling = {}
    /\ records = Empty
    /\ remaining = {}
    /\ resuming = NoThread
    /\ answer = "none"
    /\ listed = NotListed
    /\ connected = FALSE
    /\ attached = {}
    /\ inbox = {}
    /\ disk = Empty
    /\ turnStatus = [t \in Threads |-> [n \in Turns |-> "none"]]

-----------------------------------------------------------------------------
\* Mutant of Persist: the file is written before the change.
PersistBefore == disk' = sessions
\* _persist_sessions: the registry as it is now replaces the file.
Persist == disk' = sessions'

\* The registry with thread t's session in state s, its turn id n.
Becomes(t, s, n) == sessions' = [sessions EXCEPT ![t] = [state |-> s, turn |-> n]]

\* A session that ends in state s; its turn id stays.
Marked(t, s) == [state |-> s, turn |-> sessions[t].turn]

\* The guard of every mutating handler: not stopping, the approvals open.
Accepting == phase = "serving" /\ connected

-----------------------------------------------------------------------------
(* Start and recovery.                                                     *)

\* The process is started, and the operator may have changed the projects.
Start ==
    /\ phase = "down"
    /\ starts < MaxStarts
    /\ starts' = starts + 1
    /\ configured' \in SUBSET Threads
    /\ phase' = "connecting"
    /\ connected' = TRUE
    /\ UNCHANGED <<registry, records, remaining, resuming, answer, listed,
                   attached, inbox, disk, turnStatus>>

\* Initialized: recover_sessions reads the file.  Without sessions the
\* listener comes up at once.
ReadState ==
    /\ phase = "connecting"
    /\ connected
    /\ records' = disk
    /\ remaining' = In(disk)
    /\ phase' = IF In(disk) = {} THEN "serving" ELSE "recovering"
    /\ UNCHANGED <<starts, configured, registry, resuming, answer, listed,
                   server, disk>>

ResumeThread(t) ==
    /\ phase = "recovering"
    /\ connected
    /\ resuming = NoThread
    /\ t \in remaining \cap configured
    /\ resuming' = t
    /\ UNCHANGED <<phase, starts, configured, registry, records, remaining,
                   answer, listed, server, disk>>

\* The app-server attaches the thread and lists its turns, or refuses, or its
\* thread is another or elsewhere.
ServerResumes ==
    /\ connected
    /\ resuming # NoThread
    /\ answer = "none"
    /\ \/ /\ answer' = "resumed"
          /\ listed' = turnStatus[resuming]
          /\ attached' = attached \cup {resuming}
       \/ answer' = "refused" /\ UNCHANGED <<listed, attached>>
    /\ UNCHANGED <<phase, starts, configured, registry, records, remaining,
                   resuming, connected, inbox, turnStatus, disk>>

\* Mutant of Resumed: whatever the app-server says of the turn is the state.
ResumedAsListed(record) ==
    IF record.turn = NoTurn THEN record
    ELSE [state |-> listed[record.turn], turn |-> NoTurn]
\* Mutant of Resumed: without a turn id, the thread's newest turn is taken.
ResumedByNewest(record) ==
    LET begun == {n \in Turns : listed[n] # "none"}
        n == IF record.turn \in Turns \/ begun = {} THEN record.turn
             ELSE CHOOSE m \in begun : \A k \in begun : k <= m
    IN  IF n \in Turns /\ listed[n] \in Recognised
        THEN [state |-> listed[n], turn |-> NoTurn] ELSE record
\* The record, with the outcome of its recorded turn if that has ended.
Resumed(record) ==
    IF record.turn \in Turns /\ listed[record.turn] \in Recognised
    THEN [state |-> listed[record.turn], turn |-> NoTurn] ELSE record

\* Mutant of AllRecovered: the listener does not wait for the others.
OneIsEnough(rest) == TRUE
AllRecovered(rest) == rest = {}

\* thread/resume answered as the record says: the session is registered, and
\* after the last one the file is saved and the listener comes up.  A loss in
\* between has closed the approvals, and registering with them raises.
SessionRecovered ==
    /\ phase = "recovering"
    /\ connected
    /\ resuming # NoThread
    /\ answer = "resumed"
    /\ sessions' = [sessions EXCEPT ![resuming] = Resumed(records[resuming])]
    /\ remaining' = remaining \ {resuming}
    /\ resuming' = NoThread
    /\ answer' = "none"
    /\ listed' = NotListed
    /\ IF AllRecovered(remaining') THEN Persist /\ phase' = "serving"
       ELSE UNCHANGED <<disk, phase>>
    /\ UNCHANGED <<starts, configured, attempt, starting, cancelling, records,
                   server>>

\* What recover_sessions had read and asked is forgotten.
EndRecovery ==
    /\ records' = Empty
    /\ remaining' = {}
    /\ resuming' = NoThread
    /\ answer' = "none"
    /\ listed' = NotListed

\* initialize or recover_sessions raises: a call failed, a project is no
\* longer configured, the resumed thread does not match.  With the connection
\* up, run()'s finally clause shuts the service down (without it: Exit).
StartupFails ==
    /\ phase \in {"connecting", "recovering"}
    /\ connected
    /\ phase' = "stopping"
    /\ EndRecovery
    /\ UNCHANGED <<starts, configured, registry, server, disk>>

-----------------------------------------------------------------------------
(* Starts, follow-ups and cancels.                                         *)

\* turn/start is issued for the thread's next turn.
IssueTurn(t) ==
    /\ attempt[t] < MaxTurns
    /\ attempt' = [attempt EXCEPT ![t] = @ + 1]
    /\ starting' = starting \cup {<<t, attempt[t] + 1>>}
    /\ UNCHANGED cancelling

\* start_session, once thread/start has made a thread: the session is
\* registered and saved, then turn/start is issued.
StartSession(t) ==
    /\ Accepting
    /\ t \in configured
    /\ attempt[t] = 0
    /\ Becomes(t, "active", NoTurn)
    /\ Persist
    /\ IssueTurn(t)
    /\ attached' = attached \cup {t}
    /\ UNCHANGED <<phase, starts, recovery, connected, inbox, turnStatus>>

\* send_message: active again, which is not saved, then turn/start is issued.
FollowUp(t) ==
    /\ Accepting
    /\ sessions[t].state = "completed"
    /\ Becomes(t, "active", NoTurn)
    /\ IssueTurn(t)
    /\ UNCHANGED <<phase, starts, recovery, server, disk>>

\* turn/start answered: the turn id is recorded if the session is still (or
\* again) active.  The answer may have been read just before the connection
\* went or the shutdown settled the session.
TurnStarted(t, n) ==
    /\ <<t, n>> \in starting
    /\ turnStatus[t][n] # "none"
    /\ starting' = starting \ {<<t, n>>}
    /\ IF sessions[t].state = "active" THEN Becomes(t, "active", n)
       ELSE UNCHANGED sessions
    /\ Persist
    /\ UNCHANGED <<phase, starts, attempt, cancelling, recovery, server>>

\* turn/start raises: an error, its time-out, the loss.  Whatever the session
\* has become meanwhile, it is failed now, and this is not saved.
TurnStartFailed(t, n) ==
    /\ <<t, n>> \in starting
    /\ starting' = starting \ {<<t, n>>}
    /\ Becomes(t, "failed", sessions[t].turn)
    /\ UNCHANGED <<phase, starts, attempt, cancelling, recovery, server, disk>>

CancelSession(t) ==
    /\ Accepting
    /\ sessions[t].state = "active"
    /\ sessions[t].turn # NoTurn
    /\ Becomes(t, "cancelling", sessions[t].turn)
    /\ Persist
    /\ cancelling' = cancelling \cup {<<t, sessions[t].turn>>}
    /\ UNCHANGED <<phase, starts, attempt, starting, recovery, server>>

\* turn/interrupt raises.  (Confirmed, it changes nothing.)
CancelUnconfirmed(t, n) ==
    /\ <<t, n>> \in cancelling
    /\ cancelling' = cancelling \ {<<t, n>>}
    /\ IF sessions[t].state = "cancelling"
       THEN Becomes(t, "cancel_unknown", sessions[t].turn) /\ Persist
       ELSE UNCHANGED <<sessions, disk>>
    /\ UNCHANGED <<phase, starts, attempt, starting, recovery, server>>

-----------------------------------------------------------------------------
(* The app-server's turns, and what is heard of them.                      *)

\* The app-server comes to a turn/start, however late.
TurnBegins(t, n) ==
    /\ n <= attempt[t]
    /\ turnStatus[t][n] = "none"
    /\ turnStatus' = [turnStatus EXCEPT ![t][n] = "running"]
    /\ UNCHANGED <<phase, starts, recovery, registry, connected, attached,
                   inbox, disk>>

TurnEnds(t, n) ==
    /\ turnStatus[t][n] = "running"
    /\ \E s \in Endings : turnStatus' = [turnStatus EXCEPT ![t][n] = s]
    /\ inbox' = IF connected /\ t \in attached THEN inbox \cup {<<t, n>>}
                ELSE inbox
    /\ UNCHANGED <<phase, starts, recovery, registry, connected, attached, disk>>

\* A message that names its turn settles that turn's session, and one that
\* names none (and is then malformed) any.
Settles(t, n, named) ==
    /\ sessions[t].state \in Open
    /\ named => sessions[t].turn \in {NoTurn, n}

\* turn/completed: a thread that is not registered (yet) is not known.
CompletionArrives(t, n, named) ==
    /\ <<t, n>> \in inbox
    /\ inbox' = inbox \ {<<t, n>>}
    /\ IF Settles(t, n, named)
       THEN /\ Becomes(t, IF named THEN turnStatus[t][n]
                          ELSE "protocol_unknown", NoTurn)
            /\ Persist
       ELSE UNCHANGED <<sessions, disk>>
    /\ UNCHANGED <<phase, starts, attempt, starting, cancelling, recovery,
                   connected, attached, turnStatus>>

\* A child message or an approval of a registered session: its evidence is
\* saved, with the registry as it is.
EvidenceSaved ==
    /\ connected
    /\ In(sessions) # {}
    /\ UNCHANGED <<phase, starts, recovery, registry, server>>
    /\ Persist

\* The reader ends: connection_lost() marks, saves, and run() comes to its
\* end; once stopping is set it does nothing.
ConnectionLost ==
    /\ connected
    /\ connected' = FALSE
    /\ attached' = {}
    /\ inbox' = {}
    /\ UNCHANGED <<starts, recovery, attempt, starting, cancelling, turnStatus>>
    /\ IF phase \in {"stopping", "settled"}
       THEN UNCHANGED <<phase, sessions, disk>>
       ELSE /\ sessions' = [t \in Threads |->
                  IF sessions[t].state \in Live
                  THEN Marked(t, "connection_lost")
                  ELSE sessions[t]]
            /\ Persist
            /\ phase' = IF phase = "serving" THEN "settled" ELSE phase

-----------------------------------------------------------------------------
(* The end.                                                                *)

\* A signal or POST /shutdown; another one may come after the loss or after
\* the first.
Stop ==
    /\ phase \in {"serving", "settled"}
    /\ phase' = "stopping"
    /\ UNCHANGED <<starts, recovery, registry, server, disk>>

\* The active sessions shutdown() may call cancelled: their interrupt was
\* confirmed, or their turn id came after it had listed what to interrupt.
Cancellable ==
    {t \in Threads : sessions[t].state = "active" /\ sessions[t].turn # NoTurn}

\* The marking pass of shutdown(); all it could not confirm is uncertain.
Settle(cancelled) ==
    /\ phase = "stopping"
    /\ phase' = "settled"
    /\ sessions' = [t \in Threads |->
          IF sessions[t].state \notin Live THEN sessions[t]
          ELSE Marked(t, IF t \in cancelled THEN "cancelled"
                         ELSE "shutdown_unknown")]
    /\ Persist
    /\ UNCHANGED <<starts, attempt, starting, cancelling, recovery, server>>

\* The process ends, and with it all but the file.  run() does not wait for a
\* shutdown() that a signal has started, and a crash waits for nothing: this
\* may happen in any phase.
Exit ==
    /\ phase # "down"
    /\ phase' = "down"
    /\ configured' = {}
    /\ EndRecovery
    /\ sessions' = Empty
    /\ starting' = {}
    /\ cancelling' = {}
    /\ connected' = FALSE
    /\ attached' = {}
    /\ inbox' = {}
    /\ UNCHANGED <<starts, attempt, turnStatus, disk>>

-----------------------------------------------------------------------------
Startup ==
    \/ ReadState
    \/ \E t \in Threads : ResumeThread(t)
    \/ SessionRecovered
    \/ StartupFails

Handlers ==
    \E t \in Threads :
        \/ StartSession(t) \/ FollowUp(t) \/ CancelSession(t)
        \/ \E n \in Turns : \/ TurnStarted(t, n) \/ TurnStartFailed(t, n)
                            \/ CancelUnconfirmed(t, n)

ServerTurns ==
    \E t \in Threads, n \in Turns :
        \/ TurnBegins(t, n)
        \/ TurnEnds(t, n)
        \/ \E named \in BOOLEAN : CompletionArrives(t, n, named)

Next ==
    \/ Start \/ Startup \/ ServerResumes \/ Handlers \/ ServerTurns
    \/ EvidenceSaved \/ ConnectionLost
    \/ Stop \/ (\E ts \in SUBSET Cancellable : Settle(ts)) \/ Exit

Spec == Init /\ [][Next]_vars

-----------------------------------------------------------------------------
(* Properties.                                                             *)

\* The listener is up only when every session of the state file is back, as a
\* session of a thread whose project is still configured
\* (docs/lifecycle.md:8-10, "A mismatch ... fails startup visibly").
ServingIsComplete ==
    phase = "serving" => /\ In(records) \subseteq In(sessions)
                         /\ In(records) \subseteq configured

\* What the file may not know yet: that a turn/start failed, and that a
\* follow-up is under way, of which it has the completed turn before.
FileLags(t) ==
    \/ sessions[t].state = "failed"
    \/ /\ sessions[t] = [state |-> "active", turn |-> NoTurn]
       /\ disk[t].state = "completed"
       /\ \E n \in Turns : <<t, n>> \in starting

\* While it serves, and when a shutdown has settled everything, the state file
\* has exactly the registered sessions, each as clients know it but for what
\* is named above (_persist_sessions, service.py:346-358).
FileFollowsRegistry ==
    phase = "serving" \/ (phase = "settled" /\ connected) =>
        /\ In(disk) = In(sessions)
        /\ \A t \in Threads : disk[t] = sessions[t] \/ FileLags(t)

\* What may stand in the file for thread t in place of an outcome: the
\* app-server's word on the very turn it was recorded with; the failure of a
\* turn/start of the serving process; and anything, if it says completed and a
\* turn/start for the session is under way.
MayReplace(t, record) ==
    \/ record \in {disk[t], NoSession}
    \/ /\ disk[t].turn \in Turns
       /\ record = [state |-> turnStatus[t][disk[t].turn], turn |-> NoTurn]
    \/ record.state = "failed" /\ phase \in {"serving", "stopping", "settled"}
    \/ /\ disk[t].state = "completed"
       /\ \E n \in Turns : <<t, n>> \in starting

\* No recovery, resume, mark, evidence or save of another session changes an
\* outcome in the state file but in these ways, in the life of the service
\* that wrote it or a later one (recover_sessions, service.py:400-434; the
\* saves at 495, 514, 552, 589, 633, 720).  That the session may be dropped is
\* the matter of ServiceKeepsRecords.
OutcomesAreKept ==
    [][\A t \in Threads :
         disk[t].state \in Outcomes => MayReplace(t, disk'[t])]_vars

\* A start that succeeds, and the service after it, takes no session out of
\* the state file, whatever was saved while the recovery was under way.
ServiceKeepsRecords ==
    [][phase' = "serving" => In(disk) \subseteq In(disk')]_vars

\* Every session whose turn was asked for is in the state file
\* (docs/architecture.md:38-39, "atomically records managed session/thread
\* identities").
SessionsAreOnFile == \A t \in Threads : attempt[t] # 0 => t \in In(disk)
=============================================================================
