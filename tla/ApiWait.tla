------------------------------- MODULE ApiWait -------------------------------
(***************************************************************************)
(* Coordinator.wait() of the Python API (api.py) beside the session state  *)
(* machine it watches.                                                     *)
(*                                                                         *)
(* A wait looks at its session; unless the state is one of TERMINAL it     *)
(* sleeps in EventLog.wait_after until an event is emitted, then looks     *)
(* again.  Looking and falling asleep are one step of the loop, so only    *)
(* the emission of an event, or the 0.5 s poll, wakes the wait, and some   *)
(* other handler may run between the wake-up and the next look.  The event *)
(* log itself is modelled in EventLog; here an event is any step that      *)
(* emits one.  The connection check inside the loop changes nothing: the   *)
(* reader task has called connection_lost before any wait can see it.      *)
(***************************************************************************)
EXTENDS SessionService

CONSTANTS Waiters   \* callers of wait()

VARIABLES
    wait,    \* where each wait() is
    asked    \* the session it watches and its newest turn when it was called

NobodyAsked == [thread |-> "none", turn |-> NoTurn]

waits == <<wait, asked>>
allVars == <<vars, waits>>

\* Mutant of TERMINAL: an outcome of the service is missing.
TerminalForgets == Recognised \cup {"cancelled", "cancel_unknown",
                                   "connection_lost", "protocol_unknown"}
\* Coordinator.TERMINAL.
TERMINAL == Recognised \cup {"cancelled", "cancel_unknown", "connection_lost",
                            "protocol_unknown", "shutdown_unknown"}

WaitInit ==
    /\ wait = [w \in Waiters |-> "idle"]
    /\ asked = [w \in Waiters |-> NobodyAsked]

\* One look of w at session t: its result is returned, or w sleeps.
Look(w, t) ==
    wait' = [wait EXCEPT ![w] = IF state[t] \in TERMINAL THEN "told"
                                ELSE "asleep"]

\* wait() up to its first await.  The same caller may wait again later.
BeginWait(w) ==
    /\ wait[w] \in {"idle", "told"}
    /\ \E t \in Registered :
         /\ Look(w, t)
         /\ asked' = [asked EXCEPT ![w] = [thread |-> t, turn |-> attempt[t]]]
    /\ UNCHANGED vars

\* A woken wait goes round its loop.
LookAgain(w) ==
    /\ wait[w] = "awake"
    /\ Look(w, asked[w].thread)
    /\ UNCHANGED <<asked, vars>>

\* The 0.5 s poll, or an event of something SessionService leaves out.
Poll(w) ==
    /\ wait[w] = "asleep"
    /\ wait' = [wait EXCEPT ![w] = "awake"]
    /\ UNCHANGED <<asked, vars>>

\* The caller's time-out passes, or the log has dropped events the wait has
\* not seen: wait() raises.
WaitRaises(w) ==
    /\ wait[w] \in {"asleep", "awake"}
    /\ wait' = [wait EXCEPT ![w] = "idle"]
    /\ asked' = [asked EXCEPT ![w] = NobodyAsked]
    /\ UNCHANGED vars

-----------------------------------------------------------------------------
\* Mutant of EmitsOf: a start that failed is not announced.
EmitsUnlessFailed(t) ==
    \/ CancelSession(t)
    \/ \E n \in Turns : TurnStarted(t, n) \/ CancelUnconfirmed(t, n)
\* Handlers and continuations that emit an event about session t.
EmitsOf(t) ==
    \/ CancelSession(t)
    \/ \E n \in Turns : \/ TurnStarted(t, n) \/ TurnStartFailed(t, n)
                        \/ CancelUnconfirmed(t, n)

\* The steps of the service that emit an event.
Emits ==
    \/ \E t \in Threads : EmitsOf(t)
    \/ CompletionAccepted
    \/ CompletionIgnored /\ state[Head(inbox).thread] \in Open
    \/ EvidenceSaved
    \/ ConnectionLost
    \/ \E x \in Stoppers : \/ AnnounceShutdown(x) \/ FinishIdleShutdown(x)
                           \/ FinishShutdown(x) \/ ShutdownTimesOut(x)

\* Everybody asleep wakes with the event.
ServiceStep ==
    /\ Next
    /\ wait' = [w \in Waiters |->
                  IF wait[w] = "asleep" /\ Emits THEN "awake" ELSE wait[w]]
    /\ UNCHANGED asked

WaitSteps(w) == BeginWait(w) \/ LookAgain(w) \/ Poll(w) \/ WaitRaises(w)

WaitNext == ServiceStep \/ \E w \in Waiters : WaitSteps(w)

WaitSpec == Init /\ WaitInit /\ [][WaitNext]_allVars

\* The loop resumes a woken wait.  Neither the 0.5 s poll nor the caller's
\* time-out is counted on.
FairWaitSpec ==
    /\ WaitSpec
    /\ LoopIsFair /\ TurnsAreFinite
    /\ \A w \in Waiters : WF_allVars(LookAgain(w))

-----------------------------------------------------------------------------
\* Every variable, of the service and of the waits, has its type.
AllTypeOK ==
    /\ TypeOK
    /\ wait \in [Waiters -> {"idle", "asleep", "awake", "told"}]
    /\ asked \in [Waiters -> [thread: Threads, turn: Turns]
                             \cup {NobodyAsked}]

\* No wait sleeps while its session has an outcome: every outcome is in
\* TERMINAL, and every step that reaches one emits an event after the state
\* was changed (api.py:73 against the states of service.py).
NoWaitSleeps ==
    \A w \in Waiters :
        wait[w] = "asleep" => state[asked[w].thread] \in Live

\* A wait that returns completed or interrupted tells of the turn that was
\* the newest when it was called, or of a later one, and that turn is over at
\* the app-server: never the outcome of an earlier turn
\* (docs/lifecycle.md:13).
WaitTellsOutcome ==
    [][\A w \in Waiters :
         LET t == asked'[w].thread
         IN  wait[w] # wait'[w] /\ wait'[w] = "told"
               /\ state[t] \in {"completed", "interrupted"}
             => \E n \in Turns : /\ n = attempt[t]
                                 /\ n >= asked'[w].turn
                                 /\ turnStatus[t][n] = "ended"]_allVars

\* Every wait returns, if turns end, without its poll and without a time-out.
WaitsEnd ==
    \A w \in Waiters : wait[w] = "asleep" ~> wait[w] \in {"idle", "told"}
=============================================================================
