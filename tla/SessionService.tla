--------------------------- MODULE SessionService ---------------------------
(***************************************************************************)
(* The session state machine of CoordinatorService (service.py).           *)
(*                                                                         *)
(* The service runs on one asyncio loop.  Between two awaits a handler is  *)
(* atomic, so every action below is the code from one await to the next:   *)
(* an HTTP or API handler up to the call it awaits, the continuation of    *)
(* that call, the dispatch of one app-server message by the single reader  *)
(* task, or one stretch of shutdown().  Any number of handlers may be      *)
(* suspended at once; what they read before an await may be stale after.   *)
(*                                                                         *)
(* A session is identified with its app-server thread (the two maps        *)
(* sessions and thread_sessions are always extended together).  The n-th   *)
(* turn/start of a thread yields turn id n; attempt[t] is the newest n.    *)
(* Prompts, models, efforts, evidence and approvals' content are left out. *)
(* The app-server is external: it answers calls, ends turns, and may send  *)
(* a completion again.  What it does once the connection is gone is not    *)
(* modelled.                                                               *)
(***************************************************************************)
EXTENDS Naturals, Sequences, FiniteSets

CONSTANTS
    Threads,       \* threads thread/start may create, one session each
    MaxTurns,      \* bound: turn/start calls made for one thread
    SessionLimit,  \* the 1024 of start_session
    Stoppers,      \* concurrent shutdown() calls: HTTP, a signal, api.close
    StrayAge,      \* bound: only the newest StrayAge turns are re-announced
    EndStatuses,   \* what a turn/completed may say of its turn
    Impatient      \* may a client follow up before the last start returned?

Recognised == {"completed", "failed", "interrupted"}

ASSUME MaxTurnsAssumption == MaxTurns \in Nat \ {0}
ASSUME SessionLimitAssumption == SessionLimit \in Nat
ASSUME StoppersAssumption == "client" \notin Stoppers
ASSUME StrayAgeAssumption == StrayAge \in Nat
ASSUME EndStatusesAssumption ==
    EndStatuses \subseteq Recognised \cup {"garbled", "unnamed"}
ASSUME ImpatientAssumption == Impatient \in BOOLEAN

NoTurn == 0                      \* turn_id = None
Turns == 1..MaxTurns

Live == {"active", "cancelling"}

\* Mutant of Open: a failed start still waits for its turn.
OpenToFailed == {"active", "cancelling", "cancel_unknown", "failed"}
\* The states a turn/completed may still move.
Open == {"active", "cancelling", "cancel_unknown"}

States == Open \cup Recognised
       \cup {"none",             \* no such session yet
             "connection_lost", "protocol_unknown",
             "cancelled", "shutdown_unknown"}

Snapshots == [state: States, turn: Turns \cup {NoTurn}]

Call(op, t, n, x) == [op |-> op, thread |-> t, turn |-> n, by |-> x]
ThreadStart(t)     == Call("thread/start", t, NoTurn, "client")
TurnStart(t, n)    == Call("turn/start", t, n, "client")
Interrupt(t, n, x) == Call("turn/interrupt", t, n, x)

Calls == {ThreadStart(t): t \in Threads}
    \cup {TurnStart(t, n): t \in Threads, n \in Turns}
    \cup {Interrupt(t, n, x): t \in Threads, n \in Turns,
                              x \in Stoppers \cup {"client"}}

Responses == [kind: {"response"}, call: Calls, result: {"ok", "error"}]
Completions == [kind: {"turn/completed"}, thread: Threads,
                turn: Turns \cup {NoTurn}, status: EndStatuses]

VARIABLES
    state,       \* Session.state
    turn,        \* Session.turn_id
    lastDone,    \* Session.last_completed_turn_id
    attempt,     \* number of the newest turn/start issued for the thread
    disk,        \* the session's record in the state file
    published,   \* the session snapshot of the last event that carried one
    future,      \* what became of each ProtocolClient.call
    requests,    \* calls on their way to the app-server
    inbox,       \* messages on their way from the app-server
    turnStatus,  \* the app-server's view of every turn
    connected,   \* is the client's reader running?
    closed,      \* AutomaticApprovalHandler.closed
    stopping,    \* CoordinatorService.stopping
    stop         \* where each shutdown() call is

session == <<state, turn, lastDone, attempt>>
wire    == <<future, requests, inbox>>
control == <<connected, closed, stopping, stop>>
vars == <<session, disk, published, wire, turnStatus, control>>

TypeOK ==
    /\ state \in [Threads -> States]
    /\ turn \in [Threads -> Turns \cup {NoTurn}]
    /\ lastDone \in [Threads -> Turns \cup {NoTurn}]
    /\ attempt \in [Threads -> 0..MaxTurns]
    /\ disk \in [Threads -> Snapshots]
    /\ published \in [Threads -> Snapshots]
    /\ future \in [Calls -> {"idle", "waiting", "ok", "error", "done"}]
    /\ requests \in SUBSET Calls
    /\ inbox \in Seq(Responses \cup Completions)
    /\ turnStatus \in
         [Threads -> [Turns -> {"none", "running", "interrupting", "ended"}]]
    /\ connected \in BOOLEAN
    /\ closed \in BOOLEAN
    /\ stopping \in BOOLEAN
    /\ stop \in [Stoppers ->
         {"idle", "announced", "draining", "interrupting", "done"}]

Init ==
    /\ state = [t \in Threads |-> "none"]
    /\ turn = [t \in Threads |-> NoTurn]
    /\ lastDone = [t \in Threads |-> NoTurn]
    /\ attempt = [t \in Threads |-> 0]
    /\ disk = [t \in Threads |-> [state |-> "none", turn |-> NoTurn]]
    /\ published = [t \in Threads |-> [state |-> "none", turn |-> NoTurn]]
    /\ future = [c \in Calls |-> "idle"]
    /\ requests = {}
    /\ inbox = <<>>
    /\ turnStatus = [t \in Threads |-> [n \in Turns |-> "none"]]
    /\ connected = TRUE
    /\ closed = FALSE
    /\ stopping = FALSE
    /\ stop = [x \in Stoppers |-> "idle"]

-----------------------------------------------------------------------------
(* Building blocks shared by the handlers.                                 *)

Registered == {t \in Threads : state[t] # "none"}

\* The guard every mutating handler starts with.
Accepting == ~stopping /\ ~closed

\* Session.json() after the step.
SnapshotAfter(t) == [state |-> state'[t], turn |-> turn'[t]]

\* Mutant of Persist: saved before the assignments.
PersistBefore ==
    disk' = [t \in Threads |-> [state |-> state[t], turn |-> turn[t]]]
\* _persist_sessions: the whole registry replaces the state file.
Persist == disk' = [t \in Threads |-> SnapshotAfter(t)]

\* Mutant of Publish: emitted before the assignments.
PublishBefore(ts) ==
    published' = [t \in Threads |->
                    IF t \in ts THEN [state |-> state[t], turn |-> turn[t]]
                    ELSE published[t]]
\* EventLog.emit(..., session=session.json()) for the sessions in ts.
Publish(ts) ==
    published' = [t \in Threads |->
                    IF t \in ts THEN SnapshotAfter(t) ELSE published[t]]

\* ProtocolClient.call up to its await, for all calls of cs at once.
\* A dead transport refuses the send.
Issue(cs) ==
    /\ future' = [c \in Calls |->
                    IF c \notin cs THEN future[c]
                    ELSE IF connected THEN "waiting" ELSE "error"]
    /\ requests' = IF connected THEN requests \cup cs ELSE requests

\* The suspended caller of c resumes.
Return(c) == future' = [future EXCEPT ![c] = "done"]

-----------------------------------------------------------------------------
(* start_session, send_message, cancel_session.                            *)

\* start_session up to thread/start.  The limit is checked here, before the
\* await; the session joins the registry after it.
BeginStart(t) ==
    /\ Accepting
    /\ Cardinality(Registered) < SessionLimit
    /\ future[ThreadStart(t)] = "idle"
    /\ Issue({ThreadStart(t)})
    /\ UNCHANGED <<session, disk, published, inbox, turnStatus, control>>

\* Mutant of Registrable: the handler registers though it is closed.
RegistrableAlways == TRUE
\* approvals.register refuses once the handler is closed.
Registrable == ~closed

\* thread/start answered: register, save, and issue the first turn/start.
RegisterSession(t) ==
    /\ future[ThreadStart(t)] = "ok"
    /\ Registrable
    /\ state' = [state EXCEPT ![t] = "active"]
    /\ attempt' = [attempt EXCEPT ![t] = 1]
    /\ UNCHANGED <<turn, lastDone, published, inbox, turnStatus, control>>
    /\ Persist
    /\ future' = [future EXCEPT ![ThreadStart(t)] = "done",
                                ![TurnStart(t, 1)] = "waiting"]
    /\ requests' = requests \cup {TurnStart(t, 1)}

\* thread/start failed, or approvals.register found the handler closed.
StartRejected(t) ==
    /\ \/ future[ThreadStart(t)] = "error"
       \/ future[ThreadStart(t)] = "ok" /\ ~Registrable
    /\ Return(ThreadStart(t))
    /\ UNCHANGED <<session, disk, published, requests, inbox, turnStatus,
                   control>>

\* turn/start answered.  The id is recorded only if the session is active,
\* but the event and the save happen whatever state it is in by now.
TurnStarted(t, n) ==
    /\ future[TurnStart(t, n)] = "ok"
    /\ Return(TurnStart(t, n))
    /\ turn' = [turn EXCEPT ![t] = IF state[t] = "active" THEN n ELSE @]
    /\ UNCHANGED <<state, lastDone, attempt, requests, inbox, turnStatus,
                   control>>
    /\ Publish({t})
    /\ Persist

\* turn/start raised: the session fails and says so, but nothing is saved.
TurnStartFailed(t, n) ==
    /\ future[TurnStart(t, n)] = "error"
    /\ Return(TurnStart(t, n))
    /\ state' = [state EXCEPT ![t] = "failed"]
    /\ UNCHANGED <<turn, lastDone, attempt, disk, requests, inbox,
                   turnStatus, control>>
    /\ Publish({t})

\* Mutant of Resumable: any session that is not active takes a follow-up.
ResumableIfIdle(t) == state[t] \notin {"none", "active"}
\* send_message's test of the session.
Resumable(t) == state[t] = "completed"

\* send_message up to turn/start: neither saved nor announced yet.
FollowUp(t) ==
    /\ Accepting
    /\ Resumable(t)
    /\ attempt[t] < MaxTurns
    /\ Impatient \/ future[TurnStart(t, attempt[t])] = "done"
    /\ state' = [state EXCEPT ![t] = "active"]
    /\ turn' = [turn EXCEPT ![t] = NoTurn]
    /\ attempt' = [attempt EXCEPT ![t] = @ + 1]
    /\ Issue({TurnStart(t, attempt[t] + 1)})
    /\ UNCHANGED <<lastDone, disk, published, inbox, turnStatus, control>>

\* cancel_session up to turn/interrupt.
CancelSession(t) ==
    /\ Accepting
    /\ state[t] = "active"
    /\ turn[t] # NoTurn
    /\ future[Interrupt(t, turn[t], "client")] = "idle"
    /\ state' = [state EXCEPT ![t] = "cancelling"]
    /\ UNCHANGED <<turn, lastDone, attempt, inbox, turnStatus, control>>
    /\ Publish({t})
    /\ Persist
    /\ Issue({Interrupt(t, turn[t], "client")})

\* The interrupt was answered: the turn's own completion will settle it.
CancelConfirmed(t, n) ==
    /\ future[Interrupt(t, n, "client")] = "ok"
    /\ Return(Interrupt(t, n, "client"))
    /\ UNCHANGED <<session, disk, published, requests, inbox, turnStatus,
                   control>>

\* The interrupt failed; by now the session may have moved on.
CancelUnconfirmed(t, n) ==
    /\ future[Interrupt(t, n, "client")] = "error"
    /\ Return(Interrupt(t, n, "client"))
    /\ UNCHANGED <<turn, lastDone, attempt, requests, inbox, turnStatus,
                   control>>
    /\ IF state[t] = "cancelling"
       THEN /\ state' = [state EXCEPT ![t] = "cancel_unknown"]
            /\ Publish({t})
            /\ Persist
       ELSE UNCHANGED <<state, published, disk>>

\* An approval, a protocol error or a child message of some session changed
\* its evidence, and the registry is saved with it.
EvidenceSaved ==
    /\ connected
    /\ Registered # {}
    /\ UNCHANGED <<session, published, wire, turnStatus, control>>
    /\ Persist

-----------------------------------------------------------------------------
(* The reader task: one message at a time.                                 *)

\* A response resolves its future unless the call has given up on it.
DispatchResponse ==
    /\ inbox # <<>>
    /\ Head(inbox).kind = "response"
    /\ inbox' = Tail(inbox)
    /\ future' = [future EXCEPT ![Head(inbox).call] =
                    IF @ = "waiting" THEN Head(inbox).result ELSE @]
    /\ UNCHANGED <<session, disk, published, requests, turnStatus, control>>

\* Mutant of IsStale: no memory of the last completed turn.
IsStaleForgetful(t, n) == n # NoTurn /\ n # turn[t] /\ turn[t] # NoTurn
\* Mutant of IsStale: any turn but the recorded one.
IsStaleUnlessRecorded(t, n) == n # NoTurn /\ n # turn[t]
\* The stale-completion test of notification().
IsStale(t, n) ==
    /\ n # NoTurn
    /\ n # turn[t]
    /\ turn[t] # NoTurn \/ n = lastDone[t]

\* turn/completed for a session no completion can move, or for an old turn.
CompletionIgnored ==
    /\ inbox # <<>>
    /\ Head(inbox).kind = "turn/completed"
    /\ LET t == Head(inbox).thread
       IN  state[t] \notin Open \/ IsStale(t, Head(inbox).turn)
    /\ inbox' = Tail(inbox)
    /\ UNCHANGED <<session, disk, published, future, requests, turnStatus,
                   control>>

\* Mutant of Verdict: the status is taken as it came.
VerdictAsSent(n, s) == s
\* The state a completion of turn n with status s leads to.
Verdict(n, s) ==
    IF n # NoTurn /\ s \in Recognised THEN s ELSE "protocol_unknown"

\* turn/completed accepted as the outcome of the session's current turn.
CompletionAccepted ==
    /\ inbox # <<>>
    /\ Head(inbox).kind = "turn/completed"
    /\ LET t == Head(inbox).thread
           n == Head(inbox).turn
           s == Head(inbox).status
       IN  /\ state[t] \in Open
           /\ ~IsStale(t, n)
           /\ state' = [state EXCEPT ![t] = Verdict(n, s)]
           /\ lastDone' = [lastDone EXCEPT ![t] =
                             IF n # NoTurn THEN n ELSE @]
           /\ turn' = [turn EXCEPT ![t] = NoTurn]
           /\ Publish({t})
    /\ Persist
    /\ inbox' = Tail(inbox)
    /\ UNCHANGED <<attempt, future, requests, turnStatus, control>>

\* Every pending call fails and nothing more arrives.
Sever ==
    /\ connected
    /\ connected' = FALSE
    /\ future' = [c \in Calls |->
                    IF future[c] = "waiting" THEN "error" ELSE future[c]]
    /\ requests' = {}
    /\ inbox' = <<>>
    /\ UNCHANGED <<turnStatus, stopping, stop>>

\* The reader ends while the service is in use: connection_lost.
ConnectionLost ==
    /\ ~stopping
    /\ Sever
    /\ closed' = TRUE
    /\ state' = [t \in Threads |->
                   IF state[t] \in Live THEN "connection_lost" ELSE state[t]]
    /\ UNCHANGED <<turn, lastDone, attempt>>
    /\ Publish({t \in Threads : state[t] \in Live})
    /\ Persist

\* The reader ends, or run() closes the client, once stopping is set.
ClientClosed ==
    /\ stopping
    /\ Sever
    /\ UNCHANGED <<session, disk, published, closed>>

\* Mutant of CallFails: call(..., timeout=None).
CallFailsOnlyIfSevered(c) ==
    /\ ~connected
    /\ future[c] = "waiting"
    /\ future' = [future EXCEPT ![c] = "error"]
    /\ UNCHANGED <<session, disk, published, requests, inbox, turnStatus,
                   control>>
\* A call gives up: its 30 s passed, or the transport refused the send.
CallFails(c) ==
    /\ future[c] = "waiting"
    /\ future' = [future EXCEPT ![c] = "error"]
    /\ UNCHANGED <<session, disk, published, requests, inbox, turnStatus,
                   control>>

-----------------------------------------------------------------------------
(* shutdown().                                                             *)

\* The first call announces the shutdown and yields to the loop once.
AnnounceShutdown(x) ==
    /\ \A y \in Stoppers : stop[y] = "idle"
    /\ stop' = [stop EXCEPT ![x] = "announced"]
    /\ UNCHANGED <<session, disk, published, wire, turnStatus, connected,
                   closed, stopping>>

\* Set stopping, close the approvals, and wait for the server requests in
\* flight.  A later call gets here without announcing anything.
StopNewWork(x) ==
    /\ \/ stop[x] = "announced"
       \/ stop[x] = "idle" /\ \E y \in Stoppers : stop[y] # "idle"
    /\ stop' = [stop EXCEPT ![x] = "draining"]
    /\ stopping' = TRUE
    /\ closed' = TRUE
    /\ UNCHANGED <<session, disk, published, wire, turnStatus, connected>>

Interruptible == {t \in Threads : state[t] = "active" /\ turn[t] # NoTurn}

\* Drained with turns to interrupt: issue the interrupts and gather them.
InterruptActive(x) ==
    /\ stop[x] = "draining"
    /\ Interruptible # {}
    /\ stop' = [stop EXCEPT ![x] = "interrupting"]
    /\ Issue({Interrupt(t, turn[t], x): t \in Interruptible})
    /\ UNCHANGED <<session, disk, published, inbox, turnStatus, connected,
                   closed, stopping>>

\* The interrupts x waits for, by thread and turn.
Targets(x) ==
    {p \in Threads \X Turns : future[Interrupt(p[1], p[2], x)] # "idle"}

\* Sessions no interrupt can vouch for: still cancelling, or active with no
\* turn id to interrupt.
Unaddressed ==
    {t \in Threads : \/ state[t] = "cancelling"
                     \/ state[t] = "active" /\ turn[t] = NoTurn}

\* Mutant of Doubtful: the result of an interrupt is not looked at.
DoubtfulUnaddressed(failed) == Unaddressed
\* The sessions of which shutdown() cannot tell that their turn is stopped.
Doubtful(failed) == failed \cup Unaddressed

\* The marking pass that ends shutdown(): failed says whose interrupt did
\* not succeed.
Settle(x, failed) ==
    /\ stop' = [stop EXCEPT ![x] = "done"]
    /\ state' = [t \in Threads |->
                   IF state[t] \notin Live THEN state[t]
                   ELSE IF t \in Doubtful(failed)
                   THEN "shutdown_unknown" ELSE "cancelled"]
    /\ future' = [c \in Calls |->
                    IF c.op = "turn/interrupt" /\ c.by = x /\ future[c] # "idle"
                    THEN "done" ELSE future[c]]
    /\ UNCHANGED <<turn, lastDone, attempt, requests, inbox, turnStatus,
                   connected, closed, stopping>>
    /\ Publish({t \in Threads : state[t] \in Live})
    /\ Persist

\* Drained with no turn to interrupt: the marking pass follows at once.
FinishIdleShutdown(x) ==
    /\ stop[x] = "draining"
    /\ Interruptible = {}
    /\ Settle(x, {})

\* Mutant of Answered: a failed interrupt is waited for (gather without
\* return_exceptions).
AnsweredWell(c) == future[c] = "ok"
\* The gathered call has a result, good or bad.
Answered(c) == future[c] \in {"ok", "error"}

\* Every interrupt was answered, well or badly.
FinishShutdown(x) ==
    /\ stop[x] = "interrupting"
    /\ \A p \in Targets(x) : Answered(Interrupt(p[1], p[2], x))
    /\ Settle(x, {p[1]: p \in {q \in Targets(x) :
                    future[Interrupt(q[1], q[2], x)] = "error"}})

\* The 3 s for the gather passed: no result counts, answered or not.
ShutdownTimesOut(x) ==
    /\ stop[x] = "interrupting"
    /\ \E p \in Targets(x) : future[Interrupt(p[1], p[2], x)] = "waiting"
    /\ Settle(x, {p[1]: p \in Targets(x)})

-----------------------------------------------------------------------------
(* The app-server, as far as the service depends on it.                    *)

Answer(c, result) ==
    /\ connected
    /\ c \in requests
    /\ requests' = requests \ {c}
    /\ inbox' = Append(inbox,
                  [kind |-> "response", call |-> c, result |-> result])
    /\ UNCHANGED <<session, disk, published, future, control>>

ServerStartsThread(t) ==
    /\ Answer(ThreadStart(t), "ok")
    /\ UNCHANGED turnStatus

ServerStartsTurn(t, n) ==
    /\ Answer(TurnStart(t, n), "ok")
    /\ turnStatus' = [turnStatus EXCEPT ![t][n] = "running"]

\* An interrupt reaches a running turn, which then ends in its own time.
ServerInterrupts(t, n, x) ==
    /\ turnStatus[t][n] # "none"
    /\ Answer(Interrupt(t, n, x), "ok")
    /\ turnStatus' = [turnStatus EXCEPT ![t][n] =
                        IF @ = "running" THEN "interrupting" ELSE @]

ServerRejects(c) ==
    /\ Answer(c, "error")
    /\ UNCHANGED turnStatus

\* A completion with status "unnamed" carries no turn id.
Completion(t, n, s) ==
    [kind |-> "turn/completed", thread |-> t,
     turn |-> IF s = "unnamed" THEN NoTurn ELSE n, status |-> s]

TurnEnds(t, n) ==
    /\ connected
    /\ turnStatus[t][n] \in {"running", "interrupting"}
    /\ turnStatus' = [turnStatus EXCEPT ![t][n] = "ended"]
    /\ \E s \in EndStatuses : inbox' = Append(inbox, Completion(t, n, s))
    /\ UNCHANGED <<session, disk, published, future, requests, control>>

\* A completion arrives once more, for a turn among the newest StrayAge.
\* Bound: one message in flight at a time may be a repetition.
Redeliver(t, n) ==
    /\ connected
    /\ turnStatus[t][n] = "ended"
    /\ attempt[t] < n + StrayAge
    /\ \A i \in 1..Len(inbox) : inbox[i].kind # "turn/completed"
    /\ \E s \in EndStatuses \cap Recognised :
         inbox' = Append(inbox, Completion(t, n, s))
    /\ UNCHANGED <<session, disk, published, future, requests, turnStatus,
                   control>>

-----------------------------------------------------------------------------
Handlers(t) ==
    \/ BeginStart(t) \/ FollowUp(t) \/ CancelSession(t)

Continuations(t) ==
    \/ RegisterSession(t) \/ StartRejected(t)
    \/ \E n \in Turns : \/ TurnStarted(t, n) \/ TurnStartFailed(t, n)
                        \/ CancelConfirmed(t, n) \/ CancelUnconfirmed(t, n)

Dispatch == DispatchResponse \/ CompletionIgnored \/ CompletionAccepted

\* What shutdown() does once it has been called.
ShutdownProceeds(x) ==
    \/ StopNewWork(x) \/ InterruptActive(x) \/ FinishIdleShutdown(x)
    \/ FinishShutdown(x) \/ ShutdownTimesOut(x)

ServerTurns(t) ==
    \/ ServerStartsThread(t)
    \/ \E n \in Turns : \/ ServerStartsTurn(t, n)
                        \/ TurnEnds(t, n)
                        \/ Redeliver(t, n)
                        \/ \E x \in Stoppers \cup {"client"} :
                              ServerInterrupts(t, n, x)

Next ==
    \/ \E t \in Threads : Handlers(t) \/ Continuations(t) \/ ServerTurns(t)
    \/ \E c \in Calls : CallFails(c) \/ ServerRejects(c)
    \/ \E x \in Stoppers : AnnounceShutdown(x) \/ ShutdownProceeds(x)
    \/ Dispatch
    \/ EvidenceSaved
    \/ ConnectionLost
    \/ ClientClosed

Spec == Init /\ [][Next]_vars

\* What the asyncio loop and the timeouts guarantee: the reader reads on,
\* ready tasks run, calls time out, shutdown() goes through.
LoopIsFair ==
    /\ WF_vars(Dispatch)
    /\ \A t \in Threads : WF_vars(Continuations(t))
    /\ \A c \in Calls : WF_vars(CallFails(c))
    /\ \A x \in Stoppers : WF_vars(ShutdownProceeds(x))

\* What is assumed of the app-server: a turn it runs ends one day.
TurnsAreFinite == \A t \in Threads, n \in Turns : WF_vars(TurnEnds(t, n))

FairSpec == Spec /\ LoopIsFair

ServedSpec == FairSpec /\ TurnsAreFinite

-----------------------------------------------------------------------------
(* Safety.                                                                 *)

Saved(t) == disk[t] = [state |-> state[t], turn |-> turn[t]]

\* An outcome the service reports is in the state file, whatever handlers of
\* other sessions saved in between (docs/lifecycle.md:5).  A failed start is
\* the exception: see FailureIsDurable.
DurableOutcome ==
    \A t \in Threads : state[t] \notin {"active", "failed"} => Saved(t)

\* The failed state of a turn/start that did not succeed is in the state file
\* too (docs/lifecycle.md:5, "every lifecycle/evidence transition").
FailureIsDurable == \A t \in Threads : state[t] = "failed" => Saved(t)

\* The newest event about a session shows the state and turn the session has,
\* unless its turn/start is still unanswered: a client that follows the event
\* log is not left with an older story (docs/lifecycle.md:17-20).
EventsTellState ==
    \A t \in Threads :
        \/ state[t] = "none"
        \/ state[t] = "active" /\ turn[t] = NoTurn
        \/ published[t] = [state |-> state[t], turn |-> turn[t]]

\* Once a shutdown() has returned no session is left active or cancelling,
\* not even one whose thread/start or turn/start was in flight when it began
\* (docs/lifecycle.md:43-45).
SettledAfterShutdown ==
    (\E x \in Stoppers : stop[x] = "done") =>
        \A t \in Threads : state[t] \notin {"active", "cancelling"}

\* After a connection loss no session is left active or cancelling: the one
\* whose thread/start was answered just before is refused registration
\* (docs/lifecycle.md:13).
SettledAfterLoss ==
    (closed /\ ~stopping) =>
        \A t \in Threads : state[t] \notin {"active", "cancelling"}

\* However the service stops, it leaves no session behind unsettled.
SettledAtEnd == SettledAfterShutdown /\ SettledAfterLoss

\* A session is called completed or interrupted only when the app-server has
\* ended its newest turn: the state is never that of an older turn
\* (docs/lifecycle.md:13).
OutcomeIsOfNewestTurn ==
    \A t \in Threads, n \in Turns :
        state[t] \in {"completed", "interrupted"} /\ n = attempt[t]
            => turnStatus[t][n] = "ended"

\* The service never has two turns of one thread running at the app-server:
\* every turn before the newest has ended.
OneTurnAtATime ==
    \A t \in Threads, n \in Turns :
        n < attempt[t] => turnStatus[t][n] = "ended"

\* cancelled is said only of a session whose turn the app-server has been
\* told to interrupt, or has ended; a doubtful outcome must be marked
\* shutdown_unknown (docs/lifecycle.md:43-45).
CancelledMeansInterrupted ==
    \A t \in Threads, n \in Turns :
        state[t] = "cancelled" /\ n = attempt[t]
            => turnStatus[t][n] \in {"interrupting", "ended"}

\* There are never more sessions than the limit (service.py:457-458), which
\* recover_sessions relies on when it reads them back (service.py:370-371).
SessionLimitHolds == Cardinality(Registered) <= SessionLimit

-----------------------------------------------------------------------------
(* Action properties.                                                      *)

\* A completion that finishes a session, or is remembered as its last, names
\* the newest turn: a repeated or late completion of an older turn finishes
\* nothing (docs/lifecycle.md:13).
StaleCompletionHarmless ==
    [][\A t \in Threads :
         \/ lastDone'[t] # lastDone[t]
         \/ /\ state'[t] # state[t]
            /\ state'[t] \in {"completed", "interrupted"}
         => lastDone'[t] = attempt[t]]_vars

\* From the moment stopping is set the service asks the app-server for
\* interrupts only, though handlers are still suspended in a thread/start
\* (docs/lifecycle.md:43, "Shutdown stops new work").
StoppingStartsNothing ==
    [][stopping => \A c \in requests' \ requests :
                      c.op = "turn/interrupt"]_vars

\* When shutdown() calls a session cancelled whose turn it had listed to be
\* interrupted, the app-server did receive that interrupt, or the turn was
\* over: one refused, lost with the connection or unanswered after 3 s never
\* passes for a cancellation (docs/lifecycle.md:43-45).
CancelledOnConfirmation ==
    [][\A x \in Stoppers, t \in Threads, n \in Turns :
         /\ stop'[x] # stop[x]
         /\ <<t, n>> \in Targets(x)
         /\ state'[t] # state[t]
         /\ state'[t] = "cancelled"
         => turnStatus[t][n] \in {"interrupting", "ended"}]_vars

-----------------------------------------------------------------------------
(* Implementation of the abstract life cycle.                              *)

\* Turns whose turn/start has not returned to its handler.
Unreturned ==
    {p \in Threads \X Turns :
        future[TurnStart(p[1], p[2])] \in {"waiting", "ok", "error"}}

\* Sessions with a turn id to interrupt.
Known == {t \in Threads : turn[t] # NoTurn}

Life == INSTANCE Lifecycle WITH
            pending <- Unreturned, known <- Known, accepting <- ~closed

\* Every step of the service is a step of Lifecycle or leaves it unchanged:
\* outcomes are final but for the exceptions named there, nothing begins
\* after a loss or a stop, and cancelled is said only of an active session
\* whose turn id had been recorded (docs/lifecycle.md).
LifecycleHolds == Life!Spec

\* A shutdown() as its callers see it: draining and interrupting alike.
Stage(place) ==
    CASE place = "idle" -> "no"
      [] place \in {"draining", "interrupting"} -> "settling"
      [] OTHER -> place
Stages == [x \in Stoppers |-> Stage(stop[x])]

\* Nothing is live, and nothing can be registered or resumed.
AllSettled == closed /\ \A t \in Threads : state[t] \notin Live

Ending == INSTANCE Shutdown WITH
              Callers <- Stoppers, shut <- Stages,
              settled <- AllSettled, lost <- ~connected

\* Every step of the service is a step of Shutdown or leaves it unchanged: a
\* shutdown() returns, and a loss in service happens, with every session given
\* its outcome, and none is live again after that, though starts, follow-ups
\* and cancels were suspended when it began (docs/lifecycle.md:13, 43-45).
ShutdownHolds == Ending!Spec

-----------------------------------------------------------------------------
(* Liveness.                                                               *)

\* Every handler suspended in a call to the app-server gets to go on, even if
\* the app-server never answers.  (A call is made once, and there are finitely
\* many, so this is the same as: each one that waits is one day done.)
HandlersReturn == <>[](\A c \in Calls : future[c] \in {"idle", "done"})

\* Every shutdown() returns, whatever becomes of its interrupts and of the
\* connection meanwhile.
ShutdownCompletes ==
    \A x \in Stoppers : stop[x] # "idle" ~> stop[x] = "done"

\* If turns end, no session stays active or cancelling for ever, even when its
\* completion is dispatched before the turn/start that began it resumes.
TurnsSettle ==
    \A t \in Threads :
        state[t] \in {"active", "cancelling"}
            ~> state[t] \notin {"active", "cancelling"}
=============================================================================
