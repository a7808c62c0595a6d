# A TLA+ model of codex-coordinator

codex-coordinator is one asyncio process between HTTP clients and a Codex
app-server. Over a single WebSocket it starts threads and turns on the
app-server, follows them through notifications, answers the app-server's
approval requests, and tells its clients what happened through snapshots, an
event log and a state file that survives it. This directory models the parts of
it that are hard to test, checks them with TLC on small instances, and proves
the safety properties that matter most with TLAPS for instances of any size.

All references such as `service.py:591` are to
`src/src/codex_coordinator/`; `docs/...` and `tests/...` are under `src/`.

## 1. The system

| part | state it keeps | operations | modelled in |
|---|---|---|---|
| `CoordinatorService` (service.py:314-735) | `sessions`, `stopping`, `_connection_lost`, the state file | `start_session`, `send_message`, `cancel_session`, `notification`, `connection_lost`, `shutdown`, `_persist_sessions` | `SessionService`, promises in `Lifecycle` and `Shutdown` |
| the same and `run()` across restarts (346-443, 1174-1236) | the state file, the records read, how far the recovery is | `recover_sessions`, start, stop, exit | `ServiceRun` |
| `ProtocolClient` (protocol.py) | `next_id`, `_pending`, `_send_lock`, `_request_tasks`, the reader task | `call`, `send`, `dispatch`, `drain_requests`, `close` | `ProtocolClient`, promise in `CallService` |
| `AutomaticApprovalHandler` (192-311) | `registrations`, `closed`, evidence | `__call__`, `response_sent`, `register`, `close` | `ProtocolClient`; its saves in `SessionService`, `ServiceRun` |
| `EventLog` (29-158), `GET /events` (900-942), `Coordinator.events()` and `close()` (api.py) | the window, `next_sequence`, its condition; each reader's cursor and waiter | `emit`, `after`, `wait_after`; poll, disconnect; iterate, close | `EventLog`, promise in `Feed` |
| `POST /sessions`, `/sessions/batch` (954-1016) | what the request has created so far | the starts in turn, the response | `BatchHandoff` |
| `HttpControlServer.handle`, `drain` (751-850), the teardown of `run()` (1203-1236) | in-flight counter, idle event; each connection, each `shutdown()` call | accept, refuse at the limit, respond, hang up, drain; stop the listener, close the client, exit | `HttpControl` |
| `Coordinator.wait()` (api.py:170-194) | a cursor | wait for one session | `ApiWait` |
| config.py, daemon.py, preflight.py, compatibility.py, live_e2e.py, installed_smoke.py | none of their own | parse, inspect, drive | no: sequential I/O |

How they interact. Everything runs on one event loop, so a stretch of code
between two `await`s is atomic and everything may happen at an `await`. HTTP
handlers call `CoordinatorService`, which calls `ProtocolClient.call` and
suspends; the reader task sets the futures of those calls, and runs
`notification` itself. `notification`, the handlers' continuations, the
approvals, `connection_lost` and `shutdown` all change the same sessions, emit
to the same log and rewrite the same file.

What is hard: a handler reads a session, awaits the app-server, and writes the
session when anything may have happened to it (a completion, a loss, a
follow-up, another shutdown); completions may overtake the answer to the
`turn/start` they belong to, or come again; every save writes all sessions; the
connection may go at any await; a shutdown gathers interrupts while starts are
still being answered; log readers suspend while the log evicts; recovery
registers sessions one by one while notifications already arrive and saves
happen.

What makes each part correct:

- sessions: an outcome is the newest turn's, is announced, saved, and final; no
  session is left unsettled by a shutdown or a loss; nothing new starts after
  one; everything suspended comes back;
- the file and its recovery: the listener is up only with every session back,
  the file lags behind the registry by failed and unanswered starts only, and
  an outcome in it gives way to a later turn, a late failure or the app-server's
  word on its own turn, to nothing else;
- HTTP: no way out of a handler leaks a slot or frees one twice, a blocked poll
  does not hold up a stop, an orderly end cuts nobody off, and it comes;
- `wait()`: it is woken for every outcome, and tells one of the turn it was
  called for or a later one;
- protocol client: an answer reaches the call it belongs to and no other, the
  bookkeeping is exact, tasks are bounded, every request is answered, no
  approval is sent off the record or after the approvals close, a loss ends
  every call;
- event log: a reader is handed every event or told that it missed some, is
  never left asleep on an event, and can always be stopped;
- batches: the response names every session it made, and snapshot and cursor
  together lose no outcome.

## 2. Modules

```
SessionService   -- INSTANCE --> Lifecycle, Shutdown
  |              <- MCSessionService, SessionServiceProofs <- SessionOrderProofs
ApiWait          <- MCApiWait;  ApiWaitProofs EXTENDS it and SessionOrderProofs
ServiceRun       <- MCServiceRun, ServiceRunProofs
ProtocolClient   -- INSTANCE --> CallService
                 <- MCProtocolClient, ProtocolClientProofs
EventLog         -- INSTANCE --> Feed
                 <- MCEventLog, EventLogProofs
BatchHandoff     <- MCBatchHandoff, BatchHandoffProofs
HttpControl      -- INSTANCE --> Shutdown
                 <- MCHttpControl, HttpControlProofs
```

`A <- B` reads B extends A; `ApiWait` extends `SessionService`.

In every module an action is one stretch of one task between two awaits, named
after what it does; the guards are the code's early returns. What the code does
at the end of a stretch (`_persist_sessions`, `emit`) is inside the action. The
definitions called *mutants* in comments are deliberate errors next to the
definition they spoil: the properties are tried against them, and each property
fails for at least one.

**SessionService** (service.py:446-735). Per thread: `state`, `turn`
(`turn_id`, 0 for None), `lastDone` (`last_completed_turn_id`), `attempt` (turns
asked for); `disk`, the file; `published`, the newest event about a session;
`future`, every call and how far it is; `requests` and `inbox`, the two
directions of the socket, the second a FIFO dispatched one message at a time;
`turnStatus`, the app-server's own view; `connected`, `closed`, `stopping`,
`stop` (the stage of each concurrent `shutdown()`).
A start is `BeginStart`, (`RegisterSession` | `StartRejected`), (`TurnStarted` |
`TurnStartFailed`); a follow-up `FollowUp` and the same last two; a cancel
`CancelSession`, (`CancelConfirmed` | `CancelUnconfirmed`). The reader is
`DispatchResponse`, `CompletionAccepted`, `CompletionIgnored`. `shutdown()` is
`AnnounceShutdown`, `StopNewWork`, `InterruptActive` or `FinishIdleShutdown`,
then `FinishShutdown` or `ShutdownTimesOut`. A call may fail at any time
(`CallFails`: its time-out, or the loss). The app-server may answer or reject
any request in any order, ends turns with any status of `EndStatuses` (with
another turn's id, without one, malformed), and may repeat a completion
(`StrayAge`).

**Lifecycle** is what clients of `SessionService` may rely on: turns begin one
after another, each gets at most one outcome, an outcome is final but for the
three exceptions its comment names, the service stops accepting work once, and
a loss or a shutdown settles what is left. `LifecycleHolds` is the refinement:
`pending` is the turns whose `turn/start` has not returned, `known` the sessions
with a turn id, and `accepting` that the approvals are not closed, which a loss
and a stop both do first. It holds for clients that follow up before their start
has returned (`Impatient`) as well; for them alone it lets a start that is not
the newest return.

**Shutdown** is the end of the service with the sessions as one flag: the first
`shutdown()` announces and then stops new work, later ones stop at once, each
returns only with every session settled, and a loss settles them in that very
step unless a shutdown is under way to do it. Settled is settled for good:
`AllSettled` says that nothing is live and that the closed approvals let nothing
be registered or resumed. `SessionService` implements it with all its calls and
sessions, and `HttpControl` with the connections that called (`ShutdownHolds` in
each): the flag of the one is what the other works for.

**ApiWait** (api.py:170-194) puts callers of `Coordinator.wait()` beside the
whole of `SessionService`. A caller looks and falls asleep in one step; every
step of the service that emits (`Emits`) wakes it; other tasks may run before it
looks again. The 0.5 s poll, the caller's time-out and the expiry of its cursor
are steps that may be taken at any time.

**HttpControl** (service.py:751-850, 900-942, 1203-1236). A connection is
refused, or takes a slot and is `reading`, `routing`, `polling`, `woken`,
`shutting` or `writing`; every way out goes through `Release`. A `shutdown()` is
called by connections and by a signal, and is followed as far as connections can
see it. `run()` goes through `StartDrain`, `CloseListener` or `DrainTimesOut`,
`CloseClient`, `Exit`. Whether `Server.wait_closed` waits for open connections
depends on the Python version (3.12.1), so `awaits` is chosen at the start.

**ServiceRun** (run, recover_sessions and what they need of the rest). A session
is its state and its recorded turn id (`turnId` in the file); the n-th
`turn/start` of a thread makes turn n. The process goes through `Start`,
`ReadState`, then per record `ResumeThread`, `ServerResumes`, `SessionRecovered`
(or `StartupFails`), serves, and ends by `Stop`, `Settle`, `Exit`. While it
serves: `StartSession` or `FollowUp`, then `TurnStarted` or `TurnStartFailed`,
the second whatever the session has become meanwhile and without a save;
`CancelSession` and `CancelUnconfirmed`; `CompletionArrives`, `EvidenceSaved`,
`ConnectionLost`. The app-server may come to a `turn/start` before or after it
has failed (`TurnBegins`), keeps its turns while the process is away and may end
them then; the operator may change the projects between two starts. `Exit` in
any phase stands for a crash and for the ends `run()` does not wait for.
Coarser than `SessionService`: the await of `thread/start` and the session limit
are left out; a completion comes once, so that `last_completed_turn_id`, which
is not saved, has nothing to tell apart; a confirmed cancellation changes
nothing; `shutdown()` stops in one step and marks in another, and may call any
session `Cancellable` then cancelled.

**ProtocolClient** (protocol.py and the decision of the approvals). `ahead`
gives each sender at the lock those that came before it: the holder has nobody
ahead. `future` is `_pending`. The peer's answers are dispatched late, in any
order, and more than once. A thread is registered with the approvals at any
time (`Register`), so that a request may come before its session does and is then
refused. Cancelling a sender in the middle of its write may or
may not have sent the message. Two properties say what `asyncio.Lock` gives
here: `LockIsHeld` (somebody who still has something to write holds it while
anybody queues) and `NobodyOvertakes`.

**CallService** is what a caller of `call()` is promised: sent at most once, told
its own answer or a failure, once. `CallsHold` is the refinement: `open` are the
calls with an entry in `_pending`, `sent` those on the wire.

**EventLog** and **Feed**. `EventLog` has the window with count and byte limits,
truncation of large events, pollers (request, wait, wake, time-out, disconnect,
410 and resumption) and `events()` iterators, and `close()`. `Feed` is what a
reader is promised: its cursor moves only past events it was handed or told it
had missed. `FeedHolds` is the refinement.

**BatchHandoff**. Clients post batches or single starts; the starts of a batch
follow one another, each `thread/start` then `turn/start`; turns may complete
at once; the connection may go. The response has the handles made, snapshots as
old as their own start, and a cursor read at the end. `NewestHandoffComplete`
leaves out the sessions the request itself started earlier, and nothing else;
with them it is `HandoffComplete`, which does not hold (section 6).

The modules meet at these points. `SessionService` takes of the client what
`CallService` promises, and that a loss ends every call (`LossEndsCalls`). It
publishes to a log that keeps what `Feed` promises. `ApiWait` is composed with
it state by state. `ServiceRun` keeps of a session's life what
reaches the file; `SessionService` has the details. `SessionService` and
`HttpControl` meet in `Shutdown`, which both implement. The others are not composed into one state space: each would
multiply the other's by thousands for interactions that pass only through these
promises.

## 3. Runs

| run | what it asks |
|---|---|
| `two_sessions` | 2 threads with 1 turn each, or 1 with follow-ups and repeated completions; 2 concurrent `shutdown()`, clients that do not wait for their start: `DurableOutcome`, `StoppingStartsNothing`, `CancelledOnConfirmation`, `ShutdownHolds` |
| `one_session` | 1 thread, 2 turns, 1 `shutdown()`, 1 caller of `wait()`, completions without a turn id and repeated ones, fairness: `AllTypeOK`, `EventsTellState`, `OutcomeIsOfNewestTurn`, `OneTurnAtATime`, `NoWaitSleeps`, `StaleCompletionHarmless`, `LifecycleHolds`, `WaitTellsOutcome`, `HandlersReturn`, `ShutdownCompletes`, `TurnsSettle`, `WaitsEnd` |
| `event_log` | 1 poller, 1 iterator, window of 3 of 5 events, fairness: `TypeOK`, `WindowIsNewest`, `NoLostWakeup`, `FeedHolds`, `FollowersEnd`, `PollersHear` |
| `batch_handoff` | a batch of 2 beside a single start: `TypeOK`, `NewestHandoffComplete`, `NoHandleLost` |
| `protocol_client` | 2 calls, 2 requests (one of a thread that may be registered), limit 1, fairness: `TypeOK`, `RepliesOnRecord`, `CallsHold`, `LossEndsCalls`, `RequestsAnswered` |
| `service_run` | 2 threads, one with a follow-up, 3 starts: `TypeOK`, `ServingIsComplete`, `FileFollowsRegistry`, `OutcomesAreKept`, `ServiceKeepsRecords` |
| `http_control` | 3 connections for 2 slots, a signal, a loss, fairness: `TypeOK`, `SlotsAreExact`, `NoPollOutlivesStop`, `OrderlyEnd`, `RunEnds` |
| `failure_not_saved`, `cancelled_running`, `session_limit`, `batch_cursor`, `records_lost` | violated: section 6 |

Deadlock is not checked: every behaviour ends at a bound (turns, events, starts,
calls) or when the service has stopped, which is what it is meant to do.

Bounds, and why they are enough. Two threads are what it takes for one session's
save, shutdown pass or loss to touch another's; two turns what it takes for a
repeated or late completion to meet a follow-up; in `two_sessions` the
constraint `OneTurnEach` lets only a session that is alone have its second turn;
two stoppers for a signal to meet `POST /shutdown`. A window of three with five
events lets a reader be behind by more than the window while it is suspended;
sizes 1 and 5 against limits of 4 and 5 reach truncation, and two truncated
events do not fit together, so that an emit evicts by bytes as well as by count.
One poller and one iterator suffice since readers meet only in the log. A batch
of two is the smallest with a session older than the response. Two calls and two
requests queue for one lock and exceed a limit of one. Two records let the
recovery be half-way, with one session back and one to come, and let one
session's save write another's late failure; three turns asked for (`MaxAsked`,
the constraint `FewTurns`) give one of the two a follow-up beside the other's
start; a turn ends completed or interrupted (`Endings`), one of which a follow-up
may continue; three starts let a file left by a failed start be recovered by the
next. Three connections are one more than the slots, so that one is refused
while the other two poll, respond or shut the service down. `MaxTurns`,
`MaxAsked`, `MaxSequence`, `MaxStarts`, `StrayAge`, `Conns` and the single signal
are bounds of the model; `SessionLimit`,
`Capacity`, `MaxBytes`, `MaxEventBytes`, `Limit`, `Size` are parameters of the
code (1024, 2048, 8 MiB, ..., 128, 32), `Limit` also the 64 slots of
`HttpControl`.

`StrayAge <= 1` in the passing runs, and `Impatient = FALSE` in `one_session`,
restrict what the app-server and the clients do; section 6 says what happens
without them, and section 4 which theorems need them.

Fairness. `LoopIsFair`: the loop runs every task that can run (`Continuations`,
`ShutdownProceeds`), the reader dispatches what has arrived (`Dispatch`), and
every call ends, since `call()` has a time-out of 30 s and `shutdown()` one of 3
s (`CallFails`, `ShutdownTimesOut`). No answer of the app-server is assumed.
`TurnsAreFinite`, used only for `TurnsSettle`, adds that the app-server ends
turns. `FairWaitSpec` is both, and that a woken `wait()` runs: neither its 0.5 s
poll nor its caller's time-out is counted on, so `WaitsEnd` says that events
alone wake it. `EventLog` assumes that woken tasks run and that a client that
polls keeps polling (`PollersHear`); time-outs are never counted on.
`ProtocolClient` assumes that tasks which can go on do and that a write to a
live connection is finished; no time-out is assumed, so `LossEndsCalls` and
`RequestsAnswered` hold without any. `HttpControl` assumes that handlers go on
(reads and writes have time-outs, the wait of a poll ends), that a `shutdown()`
does, and that `run()` does; no client is assumed to send, read or hang up.

## 4. Proofs

TLAPS proves these for all values of the constants, under the `ASSUME`s of the
modules (sizes are positive naturals, names of different kinds differ), which
TLC evaluates in every run. Four theorems about the order of turns also assume
`FewRepeats`: the app-server repeats a completion of the newest ended turn only
(`StrayAge <= 1`), and none if a client may follow up before its start has
returned (`Impatient => StrayAge = 0`). Either way is possible in the code, and
section 6 says what goes wrong without.

| module | theorem | argument |
|---|---|---|
| `SessionServiceProofs` | `TypeCorrect` | one lemma per group of actions |
| | `OutcomesAreDurable`: `[]DurableOutcome` | `LoudSteps` lists the steps that touch a session; each saves (`PersistSavesAll`) or moves to a state the property exempts |
| | `EndSettles`: `[]SettledAtEnd` | `EndInv`: `stopping` and `closed` are never taken back, a shutdown past its start has set both, and after the marking pass or the loss nothing can register or resume (the closed approvals refuse it) |
| | `ImplementsShutdown`: `Spec => ShutdownHolds` | `EndInv` again: `ControlSteps` says which steps move the flags and how, `StageMoves` how a `shutdown()` goes on, and whatever settled stays settled |
| | `ShutdownStopsNewWork` | the same flags, step by step |
| | `EventsAreCurrent`: `[]EventsTellState` | `Registering`: a session is registered only after its `thread/start` is over and its turn ids come only from its own `turn/start`; every other change publishes |
| `EventLogProofs` | `WakeupsAreKept`, `NothingIsSkipped` | `EventInv`: the window is contiguous and ends at the newest event (`Contiguous`), a waiting reader's cursor is the newest sequence |
| | `WindowIsKept`: `[]WindowIsNewest` | `Contiguous`, and `EvictionStops`: one event alone is within both limits since `emit` has truncated it, so that the eviction, which keeps the longest suffix that fits, never empties the window |
| | `ImplementsFeed`: `Spec => FeedHolds` | every step is a step of `Feed` or a stutter |
| `BatchHandoffProofs` | `NoHandleIsLost`, `NewestHandoffIsComplete` | `BatchInv`: where each request is, what it has created and what it found, and that the log's numbers only grow; `Collected`: while a request is served, what it has collected are the sessions before the one it is at |
| `ServiceRunProofs` | `RecoveryIsComplete`, `FileLagsByStartsOnly`: `[]FileFollowsRegistry`, `OutcomesSurvive`: `OutcomesAreKept`, `RecordsSurviveStart` | `ServiceInv`: during recovery the sessions registered and the records to come are exactly the records read; a thread never started is nowhere recorded; since every save writes the whole registry, what the registry has of an outcome in the file is at any time what may replace it (`MayReplace`), and what it does not have yet is in the records. An outcome whose session is open again is therefore the completed turn before a follow-up under way (`OpenIsFollowUp`), so that a loss, a shutdown or a completion meets no other |
| `ProtocolClientProofs` | `AnswersReachTheirCalls`, `PendingIsExact` | `CallInv`: ids of calls that were made differ and lie below `next_id`; every message sent, and every answer recorded, names the call that took its id; the callers in the line at the lock are those still sending |
| | `RepliesAreOnRecord` | `ReplyInv`: a request in hand has no reply, one about to be accepted is on record, the line holds the tasks with a decision and the reader while it refuses |
| | `TasksStayBounded` | a task is made below the limit only |
| | `LockIsNeverLeft`, `NobodyIsOvertaken` | `LockInv`: of any senders in the line one was before the others (`FirstOfAny`, kept by joining and leaving), two are never level, and a reader that queues has a request to refuse |
| | `ImplementsCallService`: `Spec => CallsHold` | `CallInv` with `WireInv`: a caller has got nothing until it returns, has nothing on the wire until its message is written, and who is answered was sent |
| `SessionOrderProofs` | `ImplementsLifecycle` | `LifeInv`: the approvals are open exactly while the service accepts work, and a thread without a session has asked for nothing; for patient clients also that the `turn/start` calls of a thread follow one another, only the newest is ever open, and only its id is recorded |
| | `CancellationsAreConfirmed` | `StopInv`: an interrupt that succeeded, or whose good answer is in the inbox, is of a turn the app-server has been told to stop or has ended, and a turn starts once (`StartedOnce`), so that it stays so |
| | `TurnsRunOneByOne`, `OutcomesAreOfNewestTurn`, `StaleCompletionsAreHarmless`, if `FewRepeats` | `OrderInv`: the completions in the inbox are of the newest turn or the one before, in this order, and `lastDone` tells which of them have been dispatched; for impatient clients, whose session may have recorded an older id, they are instead all of the newest turn, one at most, and still awaited (`InboxAwaited`) |
| `ApiWaitProofs` | `WaitsAreWoken` | `WaitInv`: a wait under way watches a session that exists and asks for no later turn than it has; no step that leaves `Live` is without an event |
| | `WaitsTellTheTruth`, if `FewRepeats` | `OrderInv` besides, and that `attempt` only grows |
| `HttpControlProofs` | `ImplementsShutdown`: `Spec => ShutdownHolds` | step by step, from the types alone |
| | `SlotsCounted`, `PollsEndAtStop`, `EndIsOrderly` | `HttpInv`: the counter against the cardinality of the set of slots; once `drain()` saw the server idle only late connections hold slots (`TeardownInv`); a connection whose `shutdown()` is under way waits for it, and one that is done has settled (`CallersInv`) |
| several | `TypeCorrect`, `AllTypesCorrect` | part of the same invariants |

Each inductive invariant was tried with TLC before it was proved. The
strengthenings are needed because the properties alone are not inductive:
`SettledAtEnd`, for one, says nothing of a start whose answer is still under way,
`CancelledOnConfirmation` nothing of a good answer not yet dispatched,
`ServiceKeepsRecords` nothing of a half-way recovery, `OutcomesAreKept` nothing
of what the registry holds between two saves, and
`OutcomeIsOfNewestTurn` nothing of a completion still in the inbox.

Only model-checked: everything that rests on fairness (`HandlersReturn`,
`ShutdownCompletes`, `TurnsSettle`, `WaitsEnd`, `FollowersEnd`, `PollersHear`,
`LossEndsCalls`, `RequestsAnswered`, `RunEnds`), which TLAPS cannot do.
`LockIsNeverLeft` and `NobodyIsOvertaken` are what the two of `ProtocolClient`
need besides fairness. That the line has a first sender is stated for any set of
senders (`FirstOfAny`) because induction over a finite set is out of reach; the
byte count of the log, a fold over the window, is reasoned about through what it
is for no event, for one, and through the definition of the eviction.

## 5. Left out

Message texts, prompts, models and efforts, field validation, redaction, the
debug feed (a second `EventLog`), file permissions, sockets and signals as such.
A save that raises (full disk) is left out everywhere: in the code it ends the
reader when `notification` saves, and fails the request when a handler does.
`ProtocolClient` takes the peer to read its socket as long as the connection is
up. `Coordinator.connect()` opens a transport, and `start`, `send` and `cancel`
of the Python API pass through. Of an approval's evidence only that it is saved
is modelled, not its content. In `ServiceRun` the file is replaced in one step,
which `rename` gives.

Not modelled at all, because each is a sequential piece of parsing, inspection
or driving with no state that outlives a call and nothing running beside it:
config.py, compatibility.py, preflight.py, daemon.py, live_e2e.py,
installed_smoke.py, the examples, scripts and packaging.

## 6. Where the code and its documents differ

Each is a run that ends in a violation.

- `failure_not_saved`: docs/lifecycle.md:5-6 says every lifecycle transition is
  persisted. A failed `turn/start` sets the session failed and emits it
  (service.py:504-507, 541-544) but does not save: the file keeps the session
  active until something else saves, and `FileFollowsRegistry` has to except it.
- `cancelled_running`: docs/lifecycle.md:43-45 says shutdown marks uncertain
  outcomes. It lists the turns to interrupt before its await (603-606) and marks
  after it (625-631): a session whose `turn/start` was answered in between is
  called cancelled though nobody interrupted its turn. Of the turns it did list
that cannot happen (`CancelledOnConfirmation`, proved).
- `session_limit`: the limit is tested before `thread/start` is awaited (457) and
  used up after it: concurrent starts exceed it, and `recover_sessions` (370-371)
  then refuses the file.
- `batch_cursor`: docs/architecture.md:24-26 calls cursor and snapshots of a
  batch a handoff. The cursor is read after the last start (1012), the snapshots
  are each as old as their own: a session that ends in between is reported
  active, and its terminal event is not after the cursor.
- `records_lost`: docs/architecture.md:38-39 says the file records session
  identities, docs/lifecycle.md:8-9 that a mismatch fails startup. When
  `initialize()` or `recover_sessions()` raises with the connection up, for
  instance because a project is no longer configured, `run()` calls `shutdown()`
  (1233-1234), which saves what has been recovered so far over the file; so does
  `connection_lost()` (589) during recovery. The other sessions are lost.

Observed while modelling, and most of it bounded away in the passing runs:

- with `StrayAge = 2`, a repeated completion two turns old finishes a follow-up
  whose turn id is not known yet: only one old id is remembered (696);
- with `Impatient = TRUE`, a client that sends a follow-up before its start was
  answered lets the start's continuation record its own, finished turn id (509),
  after which the follow-up's completion is ignored as stale and the session
  stays active; no wrong outcome comes of it, unless a completion of the old
  turn is repeated, which is then accepted as the follow-up's;
- a `turn/start` that fails late makes its session failed whatever it has
  become (505, 542): connection_lost, if it was pending at the loss, or
  completed, if the completion came before the time-out. The file says completed
  until another save (evidence, another session, the shutdown at 633) writes
  failed over it: `OutcomesAreKept` names this as one of three ways in which an
  outcome in the file changes;
- a follow-up is active in memory only (530) until its `turn/start` has returned
  (551) or another save comes: a crash in between leaves the completed turn
  before it in the file, and one after that other save an active session without
  a turn id;
- connection_lost, cancelled and shutdown_unknown are not final across a restart:
  a record with a turn id takes the outcome the app-server lists for that turn
  (425-434);
- `latestSequence` (929) is read after the awaits of `GET /events` and may be
  ahead of the events returned with it; a client that goes on from it skips
  events. It is not modelled: the readers of `EventLog` go on from what they
  were given;
- after a failed start of a batch the response also names sessions other clients
  registered since that start began (1002-1003);
- a completion between `thread/resume` and the registration of its session is
  ignored, and that session stays active (388-437); so does a record saved before
  its turn id was known whose turn ended while the service was down (425);
- the `shutdown()` a signal starts is not awaited by `run()` (1203, 1220-1236):
  the process may end before the sessions are settled and saved, which
  `OrderlyEnd` therefore promises only for a `shutdown()` a connection asked for;
- `POST /shutdown` is refused with 503 while polls hold all 64 slots (758);
- a poll whose client hangs up is cancelled inside `asyncio.wait`, which leaves
  its two tasks until the next event and the stop (791, 908), although
  docs/lifecycle.md:39-40 says the disconnect cancels its waiter;
- the time-out of `call()` does not cover its wait for the send lock (96);
- `Coordinator.wait()` does not handle an expired cursor (api.py:185).

## 7. Plan

In the order of work, the most important behaviour first; all of it is done.

1. `SessionService`: the sessions, their file and events; proofs.
2. `EventLog` and `Feed`; proofs and refinement.
3. `BatchHandoff`; proofs.
4. `ServiceRun`: recovery and the state file; proofs.
5. `ProtocolClient` with the approvals; proofs.
6. `HttpControl`: the slots, `drain()`, and the teardown of `run()`; proofs.
7. `ApiWait`: `Coordinator.wait()` beside `SessionService`; proofs.
8. `Lifecycle`, and the invariant on the order of the inbox; proofs.
9. Approvals before registration, in `ProtocolClient`.
10. `CallService`; refinement proof.
11. `Shutdown`, implemented by `SessionService` and `HttpControl`; refinement
    proofs. `Lifecycle` for impatient clients.
12. The send lock, the window of the log, confirmed cancellations; proofs.
13. The order of turns for impatient clients; proofs.
14. Failed and late starts, follow-ups and cancels in `ServiceRun`; proofs.

Worth proving next: that the session steps of `ServiceRun` are those of
`SessionService`, and the safety halves of more liveness properties.
Worth modelling next: a save that raises in the middle of a handler (every
`_persist_sessions` as a step that may fail, with the reader's end and the
half-changed sessions that follow), and `HttpControl` over `EventLog` with the
leaked tasks of section 6 counted.
