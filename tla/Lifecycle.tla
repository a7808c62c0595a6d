------------------------------ MODULE Lifecycle ------------------------------
(***************************************************************************)
(* What docs/lifecycle.md promises of managed sessions, without calls,     *)
(* messages or handlers.  SessionService implements it.                    *)
(*                                                                         *)
(* A session asks for turns one after another, and each turn gets at most  *)
(* one outcome.  An outcome is final, with three exceptions: completed     *)
(* admits a follow-up, cancel_unknown may still be resolved, and a start   *)
(* that turns out to have failed makes the session failed, an older one    *)
(* than the newest only if the client followed up before it returned.  The *)
(* service stops accepting work once and for good; a lost connection       *)
(* settles all live sessions in that very step, and a shutdown some time   *)
(* later.                                                                  *)
(***************************************************************************)
EXTENDS Naturals

CONSTANTS
    Threads,    \* one session each
    MaxTurns,   \* bound: turns asked for in one session
    Impatient   \* may a client follow up before the last start returned?

VARIABLES
    state,      \* what the service says of the session
    attempt,    \* how many turns it has asked for
    pending,    \* turns, by session and number, whose start has not returned
    known,      \* sessions that know the id of the turn they are in
    accepting   \* may sessions and turns still begin?

lifecycle == <<state, attempt, pending, known, accepting>>

Ongoing == {"active", "cancelling"}
Outcomes == {"completed", "failed", "interrupted", "protocol_unknown"}

Init ==
    /\ state = [t \in Threads |-> "none"]
    /\ attempt = [t \in Threads |-> 0]
    /\ pending = {}
    /\ known = {}
    /\ accepting = TRUE

Move(t, s) == state' = [state EXCEPT ![t] = s]

\* A session begins with its first turn, or asks for one more.
Ask(t) ==
    /\ accepting
    /\ \/ state[t] = "none" /\ attempt[t] = 0
       \/ /\ state[t] = "completed"
          /\ Impatient \/ <<t, attempt[t]>> \notin pending
    /\ attempt[t] < MaxTurns
    /\ Move(t, "active")
    /\ attempt' = [attempt EXCEPT ![t] = @ + 1]
    /\ pending' = pending \cup {<<t, attempt[t] + 1>>}
    /\ known' = known \ {t}
    /\ UNCHANGED accepting

\* The start of turn n returns, the newest unless the client was impatient.
Returns(t, n) ==
    /\ <<t, n>> \in pending
    /\ Impatient \/ n = attempt[t]
    /\ pending' = pending \ {<<t, n>>}
    /\ UNCHANGED <<attempt, accepting>>

Begun(t, n) ==
    /\ Returns(t, n)
    /\ known' = IF state[t] = "active" THEN known \cup {t} ELSE known
    /\ UNCHANGED state

NotBegun(t, n) ==
    /\ Returns(t, n)
    /\ Move(t, "failed")
    /\ UNCHANGED known

\* The turn ends.
Finish(t) ==
    /\ state[t] \in Ongoing \cup {"cancel_unknown"}
    /\ \E s \in Outcomes : Move(t, s)
    /\ known' = known \ {t}
    /\ UNCHANGED <<attempt, pending, accepting>>

\* The cancellation of a known turn is asked for, and may get no good answer.
Cancel(t) ==
    /\ accepting
    /\ state[t] = "active"
    /\ t \in known
    /\ Move(t, "cancelling")
    /\ UNCHANGED <<attempt, pending, known, accepting>>

Doubt(t) ==
    /\ state[t] = "cancelling"
    /\ Move(t, "cancel_unknown")
    /\ UNCHANGED <<attempt, pending, known, accepting>>

\* The connection is lost while the service accepts work.
Lose ==
    /\ accepting
    /\ accepting' = FALSE
    /\ state' = [t \in Threads |->
                   IF state[t] \in Ongoing THEN "connection_lost" ELSE state[t]]
    /\ UNCHANGED <<attempt, pending, known>>

\* A shutdown ends the acceptance of work, and settles what is left: only an
\* active session whose turn is known may be called cancelled.
Stop ==
    /\ accepting
    /\ accepting' = FALSE
    /\ UNCHANGED <<state, attempt, pending, known>>

Settle ==
    /\ ~accepting
    /\ \E interrupted \in SUBSET {t \in known : state[t] = "active"} :
         state' = [t \in Threads |->
                     IF state[t] \notin Ongoing THEN state[t]
                     ELSE IF t \in interrupted THEN "cancelled"
                     ELSE "shutdown_unknown"]
    /\ UNCHANGED <<attempt, pending, known, accepting>>

Next ==
    \/ \E t \in Threads : \/ Ask(t) \/ Finish(t) \/ Cancel(t) \/ Doubt(t)
                          \/ \E n \in 1..MaxTurns : Begun(t, n) \/ NotBegun(t, n)
    \/ Lose \/ Stop \/ Settle

Spec == Init /\ [][Next]_lifecycle
=============================================================================
