------------------------------ MODULE EventLog ------------------------------
(***************************************************************************)
(* The bounded event log (EventLog in service.py) and those who read it:   *)
(* HTTP clients that poll GET /events?after=N&wait=S (_events_response)    *)
(* and API consumers iterating Coordinator.events().                       *)
(*                                                                         *)
(* An event is its sequence number and its encoded size; what else it says *)
(* is left out.  Each action is one uninterrupted stretch of the event     *)
(* loop: a blocking poll is answered by its handler some steps after its   *)
(* waiter task has fetched the events, and others may emit in between.     *)
(***************************************************************************)
EXTENDS Naturals, Sequences, SequencesExt

CONSTANTS
    Pollers,         \* HTTP clients
    Followers,       \* Coordinator.events() iterators
    Capacity,        \* EventLog.capacity
    MaxBytes,        \* EventLog.max_bytes
    MaxEventBytes,   \* EventLog.max_event_bytes
    Sizes,           \* encoded sizes an event may come with
    TruncatedSize,   \* size of an event reduced to its short identifiers
    MinimalSize,     \* size of an event.truncated record
    MaxSequence      \* bound: number of events emitted

ASSUME ReadersAssumption == Pollers \cap Followers = {}
ASSUME CapacityAssumption == Capacity \in Nat \ {0}
ASSUME SizesAssumption ==
    /\ Sizes \subseteq Nat \ {0}
    /\ {MaxBytes, MaxEventBytes, TruncatedSize, MinimalSize} \subseteq Nat \ {0}
ASSUME MinimalFits == MinimalSize <= MaxBytes /\ MinimalSize <= MaxEventBytes
ASSUME MaxSequenceAssumption == MaxSequence \in Nat

Readers == Pollers \cup Followers

VARIABLES
    log,      \* EventLog.events, each with its size
    next,     \* EventLog.next_sequence
    stage,    \* how far Coordinator.close() has come
    cursor,   \* the after=N each reader asks with next
    phase,    \* where each reader's request is
    fetched,  \* events a waiter task has fetched for its handler
    seen,     \* events each reader was handed
    told      \* events an expired cursor made each reader give up

vars == <<log, next, stage, cursor, phase, fetched, seen, told>>
readers == <<cursor, phase, fetched, seen, told>>

SequenceNumbers == 1..MaxSequence

TypeOK ==
    /\ log \in Seq([sequence: SequenceNumbers, size: 1..MaxEventBytes])
    /\ next \in 1..MaxSequence + 1
    /\ stage \in {"open", "closing", "closed"}
    /\ cursor \in [Readers -> 0..MaxSequence]
    /\ phase \in [Readers -> {"idle", "arming", "waiting", "woken", "fetched",
                              "silent", "expired", "done"}]
    /\ fetched \in [Readers -> SUBSET SequenceNumbers]
    /\ seen \in [Readers -> SUBSET SequenceNumbers]
    /\ told \in [Readers -> SUBSET SequenceNumbers]

Init ==
    /\ log = <<>>
    /\ next = 1
    /\ stage = "open"
    /\ cursor = [r \in Readers |-> 0]
    /\ phase = [r \in Readers |-> "idle"]
    /\ fetched = [r \in Readers |-> {}]
    /\ seen = [r \in Readers |-> {}]
    /\ told = [r \in Readers |-> {}]

-----------------------------------------------------------------------------
(* emit.                                                                   *)

Fits(size) == size <= MaxEventBytes /\ size <= MaxBytes

\* Mutant of StoredSize: a large event is kept as it is.
StoredAsIs(size) == size
\* An event too large is reduced to its identifiers, or to nothing but its
\* number.
StoredSize(size) ==
    IF Fits(size) THEN size
    ELSE IF Fits(TruncatedSize) THEN TruncatedSize ELSE MinimalSize

\* _retained_bytes.
Bytes(s) == FoldLeft(LAMBDA b, e : b + e.size, 0, s)

\* Mutant of Retainable: the byte limit is not looked at.
RetainableByCount(s) == Len(s) <= Capacity
Retainable(s) == Len(s) <= Capacity /\ Bytes(s) <= MaxBytes

\* Mutant of Evictions: the newest event goes first.
EvictionsFromBack(s) ==
    {SubSeq(s, 1, Len(s) - k) : k \in {k \in 0..Len(s) :
        /\ Retainable(SubSeq(s, 1, Len(s) - k))
        /\ \A j \in 0..k-1 : ~Retainable(SubSeq(s, 1, Len(s) - j))}}
\* What the eviction loop leaves of s, the one element of this set: it pops
\* from the front until the rest can be retained.
Evictions(s) ==
    {SubSeq(s, k + 1, Len(s)) : k \in {k \in 0..Len(s) :
        /\ Retainable(SubSeq(s, k + 1, Len(s)))
        /\ \A j \in 0..k-1 : ~Retainable(SubSeq(s, j + 1, Len(s)))}}

\* Mutants of Wake: not everyone is woken.
WakePollers(r) == r \in Pollers /\ phase[r] = "waiting"
WakeFollowers(r) == r \in Followers /\ phase[r] = "waiting"
\* _changed.set() reaches whoever waits on the event it replaces.
Wake(r) == phase[r] = "waiting"

EmitSized(size) ==
    /\ next <= MaxSequence
    /\ log' \in Evictions(Append(log,
                  [sequence |-> next, size |-> StoredSize(size)]))
    /\ next' = next + 1
    /\ phase' = [r \in Readers |-> IF Wake(r) THEN "woken" ELSE phase[r]]
    /\ UNCHANGED <<cursor, fetched, seen, told>>

Emit ==
    /\ \E size \in Sizes : EmitSized(size)
    /\ UNCHANGED stage

-----------------------------------------------------------------------------
(* after.                                                                  *)

Latest == next - 1
Oldest == IF log = <<>> THEN next ELSE log[1].sequence

\* Mutant of Expired: the oldest retained event may be missed.
ExpiredLate(c) == c < Oldest - 2
Expired(c) == c < Oldest - 1

After(c) ==
    {log[i].sequence : i \in {j \in DOMAIN log : log[j].sequence > c}}

-----------------------------------------------------------------------------
(* GET /events.                                                            *)

Newest(got) == CHOOSE n \in got : \A m \in got : m <= n

\* The client goes on from the last event it was handed.
NextCursor(c, got) == IF got = {} THEN c ELSE Newest(got)

\* The response hands over the events got.
Answer(p, got) ==
    /\ seen' = [seen EXCEPT ![p] = @ \cup got]
    /\ cursor' = [cursor EXCEPT ![p] = NextCursor(@, got)]
    /\ fetched' = [fetched EXCEPT ![p] = {}]
    /\ phase' = [phase EXCEPT ![p] = "idle"]
    /\ UNCHANGED <<log, next, stage, told>>

\* 410: the client reconciles with GET /sessions and resumes after
\* recovery.resumeAfter, the latest sequence.
AnswerExpired(p) ==
    /\ told' = [told EXCEPT ![p] = @ \cup (cursor[p] + 1 .. Latest)]
    /\ cursor' = [cursor EXCEPT ![p] = Latest]
    /\ fetched' = [fetched EXCEPT ![p] = {}]
    /\ phase' = [phase EXCEPT ![p] = "idle"]
    /\ UNCHANGED <<log, next, stage, seen>>

\* Events are there, or the client does not wait: answered at once.
PollAnswered(p) ==
    /\ phase[p] = "idle"
    /\ ~Expired(cursor[p])
    /\ Answer(p, After(cursor[p]))

\* Nothing new and wait > 0: the waiter task is created.
PollBlocks(p) ==
    /\ phase[p] = "idle"
    /\ ~Expired(cursor[p])
    /\ After(cursor[p]) = {}
    /\ phase' = [phase EXCEPT ![p] = "arming"]
    /\ UNCHANGED <<log, next, stage, cursor, fetched, seen, told>>

\* The cursor is behind the window, when asked or when the waiter looked.
PollExpired(p) ==
    /\ phase[p] = "expired" \/ (phase[p] = "idle" /\ Expired(cursor[p]))
    /\ AnswerExpired(p)

\* wait_after looks at the log: when its task first runs, and when an emit
\* has woken it.
WaiterLooks(p) ==
    /\ phase[p] \in {"arming", "woken"}
    /\ IF Expired(cursor[p])
       THEN /\ phase' = [phase EXCEPT ![p] = "expired"]
            /\ UNCHANGED fetched
       ELSE /\ fetched' = [fetched EXCEPT ![p] = After(cursor[p])]
            /\ phase' = [phase EXCEPT ![p] =
                           IF After(cursor[p]) = {} THEN "waiting"
                           ELSE "fetched"]
    /\ UNCHANGED <<log, next, stage, cursor, seen, told>>

\* The wait time passed, or stopping was set, before the waiter was done: it
\* is cancelled, also when an emit has just woken it, and the response will
\* carry no events.
WaiterCancelled(p) ==
    /\ phase[p] \in {"waiting", "woken"}
    /\ phase' = [phase EXCEPT ![p] = "silent"]
    /\ UNCHANGED <<log, next, stage, cursor, fetched, seen, told>>

\* The handler goes on after gathering the cancelled tasks.
HandlerAnswers(p) ==
    /\ phase[p] \in {"fetched", "silent"}
    /\ Answer(p, fetched[p])

\* The client goes away: only its own waiter is cancelled.
Disconnect(p) ==
    /\ phase[p] # "idle"
    /\ phase' = [phase EXCEPT ![p] = "idle"]
    /\ fetched' = [fetched EXCEPT ![p] = {}]
    /\ UNCHANGED <<log, next, stage, cursor, seen, told>>

-----------------------------------------------------------------------------
(* Coordinator.events() and close().                                       *)

Closed == stage # "open"

\* wait_after looks at the log for f: as it is called, or woken.
Looks(f) == phase[f] = "woken" \/ (phase[f] = "idle" /\ ~Closed)

\* wait_after found events, at once or when woken: they are yielded.
FollowerYields(f) ==
    /\ Looks(f)
    /\ ~Expired(cursor[f])
    /\ After(cursor[f]) # {}
    /\ seen' = [seen EXCEPT ![f] = @ \cup After(cursor[f])]
    /\ cursor' = [cursor EXCEPT ![f] = Latest]
    /\ phase' = [phase EXCEPT ![f] = "idle"]
    /\ UNCHANGED <<log, next, stage, fetched, told>>

FollowerWaits(f) ==
    /\ phase[f] = "idle"
    /\ ~Closed
    /\ ~Expired(cursor[f])
    /\ After(cursor[f]) = {}
    /\ phase' = [phase EXCEPT ![f] = "waiting"]
    /\ UNCHANGED <<log, next, stage, cursor, fetched, seen, told>>

\* EventCursorExpired leaves the iterator, which ends it.
FollowerExpires(f) ==
    /\ Looks(f)
    /\ Expired(cursor[f])
    /\ told' = [told EXCEPT ![f] = @ \cup (cursor[f] + 1 .. Latest)]
    /\ cursor' = [cursor EXCEPT ![f] = Latest]
    /\ phase' = [phase EXCEPT ![f] = "done"]
    /\ UNCHANGED <<log, next, stage, fetched, seen>>

FollowerEnds(f) ==
    /\ phase[f] = "idle"
    /\ Closed
    /\ phase' = [phase EXCEPT ![f] = "done"]
    /\ UNCHANGED <<log, next, stage, cursor, fetched, seen, told>>

\* close(): _closed is set, and shutdown() announces itself in the same
\* stretch.
BeginClose ==
    /\ stage = "open"
    /\ stage' = "closing"
    /\ \E size \in Sizes : EmitSized(size)

\* shutdown() has returned.
AnnounceClosed ==
    /\ stage = "closing"
    /\ stage' = "closed"
    /\ \E size \in Sizes : EmitSized(size)

-----------------------------------------------------------------------------
Poll(p) == PollAnswered(p) \/ PollBlocks(p) \/ PollExpired(p)

Serve(p) == WaiterLooks(p) \/ HandlerAnswers(p)

Follow(f) ==
    \/ FollowerYields(f)
    \/ FollowerWaits(f)
    \/ FollowerExpires(f)
    \/ FollowerEnds(f)

Next ==
    \/ Emit \/ BeginClose \/ AnnounceClosed
    \/ \E p \in Pollers :
          Poll(p) \/ Serve(p) \/ WaiterCancelled(p) \/ Disconnect(p)
    \/ \E f \in Followers : Follow(f)

Spec == Init /\ [][Next]_vars

\* The event loop runs what is ready, consumers come back for more, and
\* close() goes through.  That a wait times out, or a client disconnects, is
\* not counted on.
FairSpec ==
    /\ Spec
    /\ WF_vars(AnnounceClosed)
    /\ \A p \in Pollers : WF_vars(Poll(p)) /\ WF_vars(Serve(p))
    /\ \A f \in Followers : WF_vars(Follow(f))

-----------------------------------------------------------------------------
(* Properties.                                                             *)

\* The log holds the newest events, an unbroken run of them, within both its
\* limits (emit's eviction loop): what after() calls expired is exactly what
\* is gone.
WindowIsNewest ==
    /\ Len(log) <= Capacity /\ Bytes(log) <= MaxBytes
    /\ next > 1 => log # <<>>
    /\ \A i \in DOMAIN log : log[i].sequence = next - 1 - Len(log) + i

\* No wakeup is lost (wait_after takes _changed before it looks, emit
\* replaces it): whoever waits has been handed, or told about, everything.
NoLostWakeup == \A r \in Readers : phase[r] = "waiting" => cursor[r] = Latest

\* The log implements the promise made to its readers.
F == INSTANCE Feed WITH
        published <- next - 1,
        position <- cursor,
        received <- seen,
        missed <- told

\* No reader's cursor passes an event it was neither handed nor told that it
\* missed, however polls, wakeups, time-outs and evictions interleave.
NothingSkipped == F!NothingSkipped

\* Every change of what a reader has, and of where it stands, is one the
\* promise allows: what it is handed starts right after its position.
FeedHolds == F!FeedSpec

\* An iterator of Coordinator.events() ends after close(), also when nothing
\* ever happens again: close()'s own events wake it.
FollowersEnd ==
    \A f \in Followers : stage # "open" ~> phase[f] = "done"

\* An event reaches a client that keeps polling (or the client learns that it
\* is gone), without any wait having to time out.
PollersHear ==
    \A p \in Pollers : \A n \in SequenceNumbers :
        Latest >= n ~> cursor[p] >= n
=============================================================================
