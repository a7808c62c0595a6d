---------------------------- MODULE BatchHandoff ----------------------------
(***************************************************************************)
(* POST /sessions and POST /sessions/batch (HttpControlServer.route): what *)
(* the response hands to whoever will monitor the sessions, namely their   *)
(* identities, a snapshot of each, and the cursor to read events from.     *)
(*                                                                         *)
(* A batch starts its sessions one after the other, with two awaits each,  *)
(* while turns end and other clients' requests run.  Of a session only the *)
(* coarse state is kept (SessionService has the rest); an event is its     *)
(* number.                                                                 *)
(***************************************************************************)
EXTENDS Naturals, FiniteSets

CONSTANTS
    Batches,   \* clients, each posting one batch
    Singles,   \* clients, each posting one session
    Size       \* number of sessions a client asks for

Clients == Batches \cup Singles

ASSUME ClientsAssumption == Batches \cap Singles = {}
ASSUME SizeAssumption ==
    /\ Size \in [Clients -> Nat \ {0}]
    /\ \A c \in Singles : Size[c] = 1

\* The i-th session client c asks for.
Sessions == UNION {{<<c, i>> : i \in 1..Size[c]} : c \in Clients}

States == {"none", "active", "completed", "failed", "connection_lost"}

VARIABLES
    state,     \* Session.state
    told,      \* number of the newest event that says so
    next,      \* EventLog.next_sequence
    lost,      \* has the app-server connection been lost?
    phase,     \* what each request waits for
    index,     \* the session it is at
    before,    \* the sessions registered when it got there
    created,   \* the handles it collects
    cursor     \* eventCursor of its response

vars == <<state, told, next, lost, phase, index, before, created, cursor>>
request == <<phase, index, before, created, cursor>>

TypeOK ==
    /\ state \in [Sessions -> States]
    /\ told \in [Sessions -> 0..next - 1]
    /\ next \in Nat \ {0}
    /\ lost \in BOOLEAN
    /\ phase \in [Clients -> {"idle", "thread/start", "turn/start", "answered"}]
    /\ index \in [Clients -> Nat]
    /\ \A c \in Clients : index[c] <= Size[c]
    /\ before \in [Clients -> SUBSET Sessions]
    /\ created \in [Clients -> SUBSET [session: Sessions, state: States]]
    /\ cursor \in [Clients -> 0..next - 1]

Init ==
    /\ state = [s \in Sessions |-> "none"]
    /\ told = [s \in Sessions |-> 0]
    /\ next = 1
    /\ lost = FALSE
    /\ phase = [c \in Clients |-> "idle"]
    /\ index = [c \in Clients |-> 0]
    /\ before = [c \in Clients |-> {}]
    /\ created = [c \in Clients |-> {}]
    /\ cursor = [c \in Clients |-> 0]

-----------------------------------------------------------------------------
Registered == {s \in Sessions : state[s] # "none"}

Current(c) == <<c, index[c]>>

\* An event with the snapshot of s is emitted.
Announce(s) ==
    /\ told' = [told EXCEPT ![s] = next]
    /\ next' = next + 1

\* Mutant of Handle: the session as start_session made it.
HandleAsMade(s) == [session |-> s, state |-> "active"]
\* Session.json() after the step.
Handle(s) == [session |-> s, state |-> state'[s]]

\* Mutant of EventCursor: the number the next event will have.
EventCursorNext == next'
EventCursor == next' - 1

\* The response: the handles, and the cursor as it is now.
Respond(c, handles) ==
    /\ created' = [created EXCEPT ![c] = handles]
    /\ cursor' = [cursor EXCEPT ![c] = EventCursor]
    /\ phase' = [phase EXCEPT ![c] = "answered"]
    /\ UNCHANGED <<index, before>>

\* start_session for the next session, up to thread/start.
BeginStart(c, handles) ==
    /\ created' = [created EXCEPT ![c] = handles]
    /\ index' = [index EXCEPT ![c] = @ + 1]
    /\ before' = [before EXCEPT ![c] = {s \in Sessions : state'[s] # "none"}]
    /\ phase' = [phase EXCEPT ![c] = "thread/start"]
    /\ UNCHANGED cursor

\* Mutant of Leftovers: only sessions whose start returned are handed over.
NoLeftovers(c) == {}
\* What the except clause finds: a failed start may have registered a session.
Leftovers(c) ==
    IF c \in Singles THEN {}
    ELSE {Handle(s) : s \in {x \in Sessions : state'[x] # "none"} \ before[c]}

-----------------------------------------------------------------------------
Post(c) ==
    /\ phase[c] = "idle"
    /\ ~lost
    /\ UNCHANGED <<state, told, next, lost>>
    /\ BeginStart(c, {})

\* thread/start answered and the session registered.
ThreadStarted(c) ==
    /\ phase[c] = "thread/start"
    /\ ~lost
    /\ state' = [state EXCEPT ![Current(c)] = "active"]
    /\ phase' = [phase EXCEPT ![c] = "turn/start"]
    /\ UNCHANGED <<told, next, lost, index, before, created, cursor>>

\* turn/start answered: session.started is emitted, and in the same stretch
\* the next start begins, or is refused, or the response is made up.
TurnStarted(c) ==
    /\ phase[c] = "turn/start"
    /\ Announce(Current(c))
    /\ UNCHANGED <<state, lost>>
    /\ LET handles == created[c] \cup {Handle(Current(c))}
       IN  IF index[c] < Size[c] /\ ~lost THEN BeginStart(c, handles)
           ELSE Respond(c, handles)

\* thread/start failed, or registration was refused.
ThreadFailed(c) ==
    /\ phase[c] = "thread/start"
    /\ UNCHANGED <<state, told, next, lost>>
    /\ Respond(c, created[c] \cup Leftovers(c))

\* turn/start failed: the session is there, as failed, and announced.
TurnFailed(c) ==
    /\ phase[c] = "turn/start"
    /\ state' = [state EXCEPT ![Current(c)] = "failed"]
    /\ Announce(Current(c))
    /\ UNCHANGED lost
    /\ Respond(c, created[c] \cup Leftovers(c))

\* turn/completed for a session, possibly before its turn/start returns.
TurnCompleted(s) ==
    /\ ~lost
    /\ state[s] = "active"
    /\ state' = [state EXCEPT ![s] = "completed"]
    /\ Announce(s)
    /\ UNCHANGED <<lost, request>>

\* connection_lost: one event per active session, numbered here as one.
ConnectionLost ==
    /\ ~lost
    /\ lost' = TRUE
    /\ state' = [s \in Sessions |->
                   IF state[s] = "active" THEN "connection_lost" ELSE state[s]]
    /\ told' = [s \in Sessions |->
                  IF state[s] = "active" THEN next ELSE told[s]]
    /\ next' = next + 1
    /\ UNCHANGED request

Next ==
    \/ \E c \in Clients : \/ Post(c) \/ ThreadStarted(c) \/ TurnStarted(c)
                          \/ ThreadFailed(c) \/ TurnFailed(c)
    \/ \E s \in Sessions : TurnCompleted(s)
    \/ ConnectionLost

Spec == Init /\ [][Next]_vars

-----------------------------------------------------------------------------
\* What c was handed in h, with the events after its cursor alone, tells how
\* the session of h ends.
Tells(c, h) ==
    phase[c] = "answered" /\ state[h.session] # h.state
        => told[h.session] > cursor[c]

\* Whoever gets a response can monitor its sessions from the snapshots and the
\* cursor in it (docs/architecture.md:24-26, "post-creation event cursor, and
\* session snapshots are a compact initial monitor handoff").
HandoffComplete == \A c \in Clients : \A h \in created[c] : Tells(c, h)

\* The sessions c started before the one it came to last.
Earlier(c) == {<<c, i>> : i \in 1..index[c] - 1}

\* The same for every handle whose snapshot is not older than the last start
\* of the request: for a single session, the last one of a batch, and what the
\* except clause adds after a failure, whatever other requests do meanwhile.
NewestHandoffComplete ==
    \A c \in Clients : \A h \in created[c] :
        h.session \notin Earlier(c) => Tells(c, h)

\* A batch's response names every session the batch has registered, also the
\* one whose start failed half-way (service.py:1000-1001, "Return every handle
\* so callers never retry into duplicates").
NoHandleLost ==
    \A c \in Batches : \A i \in 1..Size[c] :
        phase[c] = "answered" /\ <<c, i>> \in Registered
            => \E h \in created[c] : h.session = <<c, i>>
=============================================================================
