----------------------------- MODULE HttpControl -----------------------------
(***************************************************************************)
(* The HTTP control plane (HttpControlServer, service.py) and the end of   *)
(* run(): connections and their slots, POST /shutdown, blocking GET        *)
(* /events, a signal, the loss of the app-server, and the teardown that    *)
(* waits for the connections in flight and then leaves.                    *)
(*                                                                         *)
(* What a request asks of the sessions is SessionService's subject: here a *)
(* request is plain (answered in its own time), a blocking poll, or the    *)
(* shutdown, and all sessions are one flag, settled.  Parsing is its       *)
(* outcome: a request of some kind, or one of the error responses.  Time   *)
(* is left out, so a time-out may strike whenever its wait is unfinished,  *)
(* except that a task that can run does so within drain()'s 3 s.           *)
(***************************************************************************)
EXTENDS Naturals, FiniteSets

CONSTANTS
    Conns,   \* bound: connections made in one run of the service
    Limit    \* the 64 of handle()

ASSUME ConnsAssumption == IsFiniteSet(Conns) /\ "signal" \notin Conns
ASSUME LimitAssumption == Limit \in Nat \ {0}

\* Whoever calls shutdown(): a connection, or the task of a signal.
Callers == Conns \cup {"signal"}

VARIABLES
    conn,        \* where each connection is
    inflight,    \* HttpControlServer._inflight
    idle,        \* HttpControlServer._idle
    shut,        \* where each shutdown() call is
    stopping,    \* CoordinatorService.stopping
    settled,     \* no session is left active
    disconnected,\* ProtocolClient.disconnected
    phase,       \* where run() is
    idleSeen,    \* has drain()'s wait for idle been resolved?
    hurried,     \* did drain() time out?
    late,        \* connections accepted after idleSeen
    awaits       \* does Server.wait_closed wait for connections (>= 3.12.1)?

server  == <<conn, inflight, idle, late>>
service == <<shut, stopping, settled, disconnected>>
teardown == <<phase, idleSeen, hurried, awaits>>
vars == <<server, service, teardown>>

\* A connection whose handler holds a slot.
Slotted == {"reading", "routing", "polling", "woken", "shutting", "writing"}
InSlot == {c \in Conns : conn[c] \in Slotted}
Ended == {"answered", "refused", "dropped", "cut"}

TypeOK ==
    /\ conn \in [Conns -> {"none"} \cup Slotted \cup Ended]
    /\ inflight \in Nat
    /\ idle \in BOOLEAN
    /\ shut \in [Callers -> {"no", "announced", "settling", "done"}]
    /\ stopping \in BOOLEAN /\ settled \in BOOLEAN
    /\ disconnected \in BOOLEAN
    /\ phase \in {"serving", "draining", "unlistening", "closed", "exited"}
    /\ idleSeen \in BOOLEAN /\ hurried \in BOOLEAN
    /\ late \in SUBSET Conns
    /\ awaits \in BOOLEAN

Init ==
    /\ conn = [c \in Conns |-> "none"]
    /\ inflight = 0
    /\ idle = TRUE
    /\ shut = [x \in Callers |-> "no"]
    /\ stopping = FALSE
    /\ settled = FALSE
    /\ disconnected = FALSE
    /\ phase = "serving"
    /\ idleSeen = FALSE
    /\ hurried = FALSE
    /\ late = {}
    /\ awaits \in BOOLEAN

Running == phase # "exited"
Listening == phase \in {"serving", "draining"}
Go(c, from, to) == conn[c] = from /\ conn' = [conn EXCEPT ![c] = to]

-----------------------------------------------------------------------------
(* handle(): a slot, the request, the response, and the slot again.        *)

\* Mutant of Refuse: the early return runs through the finally.
RefuseAndFree(c) ==
    /\ Listening
    /\ inflight >= Limit
    /\ Go(c, "none", "refused")
    /\ inflight' = inflight - 1
    /\ UNCHANGED <<idle, late, service, teardown>>
\* Saturated: 503 without a slot.
Refuse(c) ==
    /\ Listening
    /\ inflight >= Limit
    /\ Go(c, "none", "refused")
    /\ UNCHANGED <<inflight, idle, late, service, teardown>>

Accept(c) ==
    /\ Listening
    /\ inflight < Limit
    /\ Go(c, "none", "reading")
    /\ inflight' = inflight + 1
    /\ idle' = FALSE
    /\ late' = IF idleSeen THEN late \cup {c} ELSE late
    /\ UNCHANGED <<service, teardown>>

\* Mutant of Idle: the last one out is not looked for.
IdleAlways(n) == TRUE
Idle(n) == n = 0

\* The finally of handle(): the slot is freed, and an idle server resolves
\* the wait of drain().
Release(c, from, to) ==
    /\ Running
    /\ Go(c, from, to)
    /\ inflight' = inflight - 1
    /\ idle' = (idle \/ Idle(inflight - 1))
    /\ idleSeen' = (idleSeen \/ (phase = "draining" /\ idle'))
    /\ UNCHANGED <<late, service, phase, hurried, awaits>>

\* Within a slot.
Proceed(c, from, to) ==
    /\ Running
    /\ Go(c, from, to)
    /\ UNCHANGED <<inflight, idle, late, service, teardown>>

\* Mutant of ReadEnds: it reads on without READ_TIMEOUT.
ReadWaits(c) == Proceed(c, "reading", "reading")
\* READ_TIMEOUT passes, or the request is malformed or too large: an error
\* response.
ReadEnds(c) == Proceed(c, "reading", "writing")

ReadPlain(c) == Proceed(c, "reading", "routing")
Routed(c)    == Proceed(c, "routing", "writing")

\* Mutant of PollState: _events_response waits for events only.
PollStateEventsOnly == "polling"
\* A poll with nothing to report sleeps, unless the service is stopping.
PollState == IF stopping THEN "woken" ELSE "polling"

\* GET /events?wait= : answered from the log, or put to sleep.
ReadPoll(c) ==
    \/ Proceed(c, "reading", PollState)
    \/ Proceed(c, "reading", "writing")

\* An event is emitted, or the wait the client asked for has passed.
PollWakes(c) == Proceed(c, "polling", "woken")

PollAnswers(c) == Proceed(c, "woken", "writing")

\* The client hangs up first: the poll is cancelled, without a response.
HangUp(c) ==
    \E s \in {"polling", "woken"} : Release(c, s, "dropped")

\* The response is handed over, or WRITE_TIMEOUT passes.
Respond(c) == Release(c, "writing", "answered")

-----------------------------------------------------------------------------
(* shutdown(), as the connections see it.                                  *)

\* stopping is set: every blocked poll wakes.
Woken(f) == [c \in Conns |-> IF f[c] = "polling" THEN "woken" ELSE f[c]]

Announced == \E x \in Callers : shut[x] # "no"

\* The first caller announces the shutdown, whose event wakes the polls, and
\* yields once; a later one goes on to set stopping.
Call(x, f) ==
    /\ shut[x] = "no"
    /\ shut' = [shut EXCEPT ![x] = IF Announced THEN "settling" ELSE "announced"]
    /\ stopping' = (stopping \/ Announced)
    /\ conn' = Woken(f)
    /\ UNCHANGED <<inflight, idle, late, settled, disconnected, teardown>>

PostShutdown(c) ==
    /\ Running
    /\ conn[c] = "reading"
    /\ Call(c, [conn EXCEPT ![c] = "shutting"])

\* SIGINT or SIGTERM: shutdown() in a task nobody waits for.  Bound: one.
Signal ==
    /\ phase \in {"serving", "draining", "unlistening"}
    /\ Call("signal", conn)

SetStopping(x) ==
    /\ Running
    /\ shut[x] = "announced"
    /\ shut' = [shut EXCEPT ![x] = "settling"]
    /\ stopping' = TRUE
    /\ conn' = Woken(conn)
    /\ UNCHANGED <<inflight, idle, late, settled, disconnected, teardown>>

\* The app-server requests are drained, the turns interrupted, the sessions
\* marked; a connection goes on to respond.
SettleSessions(x) ==
    /\ Running
    /\ shut[x] = "settling"
    /\ shut' = [shut EXCEPT ![x] = "done"]
    /\ settled' = TRUE
    /\ conn' = IF x \in Conns THEN [conn EXCEPT ![x] = "writing"] ELSE conn
    /\ UNCHANGED <<inflight, idle, late, stopping, disconnected, teardown>>

\* The reader ends.  connection_lost settles the sessions and its event wakes
\* the polls, unless a shutdown has taken over.
Disconnect ==
    /\ disconnected' = TRUE
    /\ settled' = (settled \/ ~stopping)
    /\ conn' = IF stopping THEN conn ELSE Woken(conn)
    /\ UNCHANGED <<inflight, idle, late, shut, stopping>>

Lose ==
    /\ Running
    /\ ~disconnected
    /\ Disconnect
    /\ UNCHANGED teardown

-----------------------------------------------------------------------------
(* run(), from the wait for a reason to stop to the end of the process.    *)

\* Woken by stopping or by the disconnect, run() calls drain().
StartDrain ==
    /\ phase = "serving"
    /\ stopping \/ disconnected
    /\ phase' = "draining"
    /\ idleSeen' = idle
    /\ UNCHANGED <<server, service, hurried, awaits>>

\* drain() returns and the listener is closed.
CloseListener ==
    /\ phase = "draining"
    /\ idleSeen
    /\ phase' = "unlistening"
    /\ UNCHANGED <<server, service, idleSeen, hurried, awaits>>

\* The 3 s pass, for a handler that waits for more than the loop.
DrainTimesOut ==
    /\ phase = "draining"
    /\ ~idleSeen
    /\ \E c \in InSlot : conn[c] # "woken"
    /\ phase' = "unlistening"
    /\ hurried' = TRUE
    /\ UNCHANGED <<server, service, idleSeen, awaits>>

\* wait_closed returns, and approvals and client are closed.
CloseClient ==
    /\ phase = "unlistening"
    /\ awaits => InSlot = {}
    /\ phase' = "closed"
    /\ IF disconnected THEN UNCHANGED <<server, service>> ELSE Disconnect
    /\ UNCHANGED <<idleSeen, hurried, awaits>>

\* The web socket is closed and asyncio.run cancels whatever still runs.
Exit ==
    /\ phase = "closed"
    /\ phase' = "exited"
    /\ conn' = [c \in Conns |-> IF c \in InSlot THEN "cut" ELSE conn[c]]
    /\ UNCHANGED <<inflight, idle, late, service, idleSeen, hurried, awaits>>

-----------------------------------------------------------------------------
\* What the loop and the time-outs of handle() see to.
HandlerGoesOn(c) ==
    \/ ReadEnds(c) \/ Routed(c) \/ PollWakes(c) \/ PollAnswers(c) \/ Respond(c)

ShutdownGoesOn(x) == SetStopping(x) \/ SettleSessions(x)

RunGoesOn ==
    StartDrain \/ CloseListener \/ DrainTimesOut \/ CloseClient \/ Exit

Next ==
    \/ \E c \in Conns :
         \/ Accept(c) \/ Refuse(c) \/ HandlerGoesOn(c)
         \/ ReadPlain(c) \/ ReadPoll(c) \/ PostShutdown(c) \/ HangUp(c)
    \/ \E x \in Callers : ShutdownGoesOn(x)
    \/ Signal
    \/ Lose
    \/ RunGoesOn

Spec == Init /\ [][Next]_vars

\* Fairness of the loop, of the time-outs and of the calls a handler awaits;
\* clients need not send, read or hang up.
FairSpec ==
    /\ Spec
    /\ \A c \in Conns : WF_vars(HandlerGoesOn(c))
    /\ \A x \in Callers : WF_vars(ShutdownGoesOn(x))
    /\ WF_vars(RunGoesOn)

-----------------------------------------------------------------------------
\* As long as the service runs, the counter is the number of handlers in a
\* slot, never above the limit, and the idle event is set exactly when there
\* are none: no path out of handle() leaks a slot or frees one twice
\* (service.py:758-774, 842-845).
SlotsAreExact ==
    Running =>
        /\ inflight = Cardinality(InSlot)
        /\ inflight <= Limit
        /\ idle <=> InSlot = {}

\* No poll sleeps once stopping is set, nor starts to: a stop waits for the
\* loop only, not for the 30 s a client may have asked for
\* (docs/lifecycle.md:34-39).
NoPollOutlivesStop == stopping => \A c \in Conns : conn[c] # "polling"

\* Unless drain() gave up, the process does not leave a connection without
\* its response that was accepted before drain() saw the server idle, and the
\* sessions are settled if one of those asked for the shutdown; where
\* wait_closed waits for connections no response is lost at all
\* (docs/live-compatibility.md:117-123).
OrderlyEnd ==
    phase = "exited" =>
        /\ \A c \in Conns :
             conn[c] = "cut" => ~awaits /\ (hurried \/ c \in late)
        /\ (\E c \in Conns \ late : shut[c] # "no") /\ ~hurried => settled

\* The service that was told to stop, or lost its app-server, ends, whatever
\* its clients do.
RunEnds == stopping \/ disconnected ~> phase = "exited"

-----------------------------------------------------------------------------
Ending == INSTANCE Shutdown WITH lost <- disconnected

\* What connections and run() see of a shutdown() is what SessionService does:
\* both implement Shutdown (service.py:591-633).
ShutdownHolds == Ending!Spec
=============================================================================
