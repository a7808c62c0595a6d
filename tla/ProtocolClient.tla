--------------------------- MODULE ProtocolClient ---------------------------
(***************************************************************************)
(* The multiplexed connection to the app-server (protocol.py), with the    *)
(* automatic approvals that answer the app-server's own requests           *)
(* (AutomaticApprovalHandler in service.py).                               *)
(*                                                                         *)
(* One reader task dispatches what arrives.  Calls, the tasks that answer  *)
(* server requests and the reader itself send under one FIFO lock, which   *)
(* is held by the sender with nobody ahead.  Each action is a stretch of   *)
(* one task between two awaits.  What the app-server has not sent yet and  *)
(* what the reader has not read yet are not told apart: a response arrives *)
(* when it is dispatched, late or more than once.  Methods, parameters,    *)
(* results and notifications are left out, except that a message nobody    *)
(* can handle ends the reader.                                             *)
(***************************************************************************)
EXTENDS Naturals, FiniteSets, Functions

CONSTANTS
    Callers,      \* uses of call(), one each
    Requests,     \* requests the app-server makes
    Approvable,   \* those well formed and supported, each of its own thread
    Limit         \* max_concurrent_server_requests

ASSUME SendersAssumption ==
    /\ Callers \cap Requests = {}
    /\ "reader" \notin Callers \cup Requests
    /\ {"unset", "lost", "none"} \cap Callers = {}
ASSUME ApprovableAssumption == Approvable \subseteq Requests
ASSUME LimitAssumption == Limit \in Nat \ {0}

Senders == Callers \cup Requests \cup {"reader"}

VARIABLES
    nextId,     \* ProtocolClient.next_id
    call,       \* where each call is
    id,         \* its request id
    future,     \* _pending: by id, unset, lost, or whose answer it got
    got,        \* whose answer the caller was given
    ahead,      \* of each sender at _send_lock, those that came before it
    up,         \* does the transport still carry messages?
    reader,     \* the reader task
    request,    \* where each server request is
    tasks,      \* _request_tasks
    managed,    \* Approvable requests whose thread is in registrations
    granted,    \* requests approved on record (approval.auto_approved)
    audited,    \* replies on record as sent (approval.wire_sent)
    wire,       \* calls the app-server has been sent
    replies,    \* replies the app-server has been sent
    closed,     \* AutomaticApprovalHandler.closed
    draining    \* tasks drain_requests waits for

calls    == <<nextId, call, id, future, got>>
records  == <<managed, granted, audited>>
serving  == <<request, tasks, records, replies>>
link     == <<up, reader, closed, draining>>
vars == <<calls, serving, link, ahead, wire>>

Verdicts == {"result", "error"}

TypeOK ==
    /\ nextId \in Nat
    /\ call \in [Callers -> {"idle", "sending", "waiting", "returned"}]
    /\ id \in [Callers -> Nat]
    /\ DOMAIN future \subseteq Nat
    /\ \A i \in DOMAIN future : future[i] \in {"unset", "lost"} \cup Callers
    /\ got \in [Callers -> {"none", "lost"} \cup Callers]
    /\ DOMAIN ahead \subseteq Senders
    /\ \A x \in DOMAIN ahead : ahead[x] \subseteq DOMAIN ahead
    /\ up \in BOOLEAN
    /\ reader \in {"reading", "refusing", "ended"}
    /\ request \in [Requests ->
         {"none", "refusing", "created", "result", "error", "over",
          "cancelled"}]
    /\ tasks \subseteq Requests
    /\ managed \subseteq Approvable
    /\ granted \subseteq managed
    /\ audited \subseteq Requests
    /\ wire \subseteq [id: Nat, by: Callers]
    /\ replies \subseteq Requests \X Verdicts
    /\ closed \in BOOLEAN
    /\ draining \subseteq Requests

Init ==
    /\ nextId = 1
    /\ call = [c \in Callers |-> "idle"]
    /\ id = [c \in Callers |-> 0]
    /\ future = <<>>
    /\ got = [c \in Callers |-> "none"]
    /\ ahead = <<>>
    /\ up = TRUE
    /\ reader = "reading"
    /\ request = [r \in Requests |-> "none"]
    /\ tasks = {}
    /\ managed = {}
    /\ granted = {}
    /\ audited = {}
    /\ wire = {}
    /\ replies = {}
    /\ closed = FALSE
    /\ draining = {}

-----------------------------------------------------------------------------
(* Building blocks.                                                        *)

\* x holds the send lock.
Sends(x) == x \in DOMAIN ahead /\ ahead[x] = {}

\* The line at the lock when x has joined it, and when those of xs have left.
With(x) == [y \in DOMAIN ahead \cup {x} |->
              IF y = x THEN DOMAIN ahead ELSE ahead[y]]
Without(xs) == [y \in DOMAIN ahead \ xs |-> ahead[y] \ xs]

\* Every future still unset is failed (reader's except clause, and close()).
FailPending ==
    future' = [i \in DOMAIN future |->
                 IF future[i] = "unset" THEN "lost" ELSE future[i]]

\* The finally clause of call(): whatever happened, the id is forgotten.
Forget(c) == future' = Restrict(future, DOMAIN future \ {id[c]})

\* The requests the tasks of xs, or the reader if it is in xs, work at.
InHand(xs) ==
    {r \in xs \cap Requests : request[r] \in {"created", "result", "error"}}
      \cup {r \in Requests : "reader" \in xs /\ request[r] = "refusing"}

\* The request whose reply is being written.
Writing(r) == Sends(r) \/ (Sends("reader") /\ request[r] = "refusing")

Reply(r) == <<r, IF request[r] = "result" THEN "result" ELSE "error">>

\* The tasks, or the reader, of xs are cancelled.  What was just being written
\* may have gone out all the same.
Cancel(xs) ==
    /\ request' = [r \in Requests |->
                     IF r \in InHand(xs) THEN "cancelled" ELSE request[r]]
    /\ ahead' = Without(xs)
    /\ replies' \in {replies} \cup
         {replies \cup {Reply(r)} : r \in {x \in InHand(xs) : up /\ Writing(x)}}

-----------------------------------------------------------------------------
(* call().                                                                 *)

\* Mutant of RequestId: the smallest number no pending call has.
LowestFree == CHOOSE n \in 1..nextId :
    n \notin DOMAIN future /\ \A m \in 1..n-1 : m \in DOMAIN future
RequestId == nextId

\* A request id is taken, a future registered, and the lock asked for.
BeginCall(c) ==
    /\ call[c] = "idle"
    /\ nextId' = nextId + 1
    /\ id' = [id EXCEPT ![c] = RequestId]
    /\ future' = [i \in DOMAIN future \cup {RequestId} |->
                    IF i = RequestId THEN "unset" ELSE future[i]]
    /\ call' = [call EXCEPT ![c] = "sending"]
    /\ ahead' = With(c)
    /\ UNCHANGED <<got, serving, link, wire>>

\* The message is written and the lock released.
CallSent(c) ==
    /\ Sends(c)
    /\ up
    /\ ahead' = Without({c})
    /\ wire' = wire \cup {[id |-> id[c], by |-> c]}
    /\ call' = [call EXCEPT ![c] = "waiting"]
    /\ UNCHANGED <<nextId, id, future, got, serving, link>>

\* Mutant of Unlocked: the lock is not released when a write fails.
StillLocked(x) == ahead
Unlocked(x) == Without({x})

\* The write raises, and so does call().
CallSendFails(c) ==
    /\ Sends(c)
    /\ ~up
    /\ ahead' = Unlocked(c)
    /\ call' = [call EXCEPT ![c] = "returned"]
    /\ Forget(c)
    /\ UNCHANGED <<nextId, id, got, serving, link, wire>>

\* The future was set: its result is returned, or its exception raised.
CallReturns(c) ==
    /\ call[c] = "waiting"
    /\ future[id[c]] # "unset"
    /\ got' = [got EXCEPT ![c] = future[id[c]]]
    /\ call' = [call EXCEPT ![c] = "returned"]
    /\ Forget(c)
    /\ UNCHANGED <<nextId, id, serving, link, ahead, wire>>

\* The call is cancelled (as shutdown() cancels its interrupts), or its
\* timeout passes, which counts the wait for the answer only.  If it was just
\* writing, the message may have gone out.
CallAbandoned(c) ==
    /\ \/ call[c] = "sending"
       \/ call[c] = "waiting" /\ future[id[c]] = "unset"
    /\ wire' \in {wire} \cup {wire \cup {[id |-> i, by |-> c]} :
                                i \in {x \in {id[c]} : up /\ Sends(c)}}
    /\ ahead' = Without({c})
    /\ call' = [call EXCEPT ![c] = "returned"]
    /\ Forget(c)
    /\ UNCHANGED <<nextId, id, got, serving, link>>

-----------------------------------------------------------------------------
(* The reader task.                                                        *)

\* A response: the future it names is set, unless it is set or gone.
ResponseArrives(m) ==
    /\ up
    /\ reader = "reading"
    /\ m \in wire
    /\ m.id \in DOMAIN future
    /\ future[m.id] = "unset"
    /\ future' = [future EXCEPT ![m.id] = m.by]
    /\ UNCHANGED <<nextId, call, id, got, serving, link, ahead, wire>>

Full == Cardinality(tasks) >= Limit

\* A request from the app-server becomes a task of its own.
RequestArrives(r) ==
    /\ up
    /\ reader = "reading"
    /\ request[r] = "none"
    /\ ~Full
    /\ request' = [request EXCEPT ![r] = "created"]
    /\ tasks' = tasks \cup {r}
    /\ UNCHANGED <<calls, records, replies, link, ahead, wire>>

\* At the limit the reader refuses it, and reads on when that is sent.
RequestRefused(r) ==
    /\ up
    /\ reader = "reading"
    /\ request[r] = "none"
    /\ Full
    /\ request' = [request EXCEPT ![r] = "refusing"]
    /\ reader' = "refusing"
    /\ ahead' = With("reader")
    /\ UNCHANGED <<calls, tasks, records, replies, up, closed, draining, wire>>

RefusalSent(r) ==
    /\ Sends("reader")
    /\ up
    /\ request[r] = "refusing"
    /\ ahead' = Without({"reader"})
    /\ replies' = replies \cup {<<r, "error">>}
    /\ request' = [request EXCEPT ![r] = "over"]
    /\ reader' = "reading"
    /\ UNCHANGED <<calls, tasks, records, up, closed, draining, wire>>

\* recv raises, a refusal cannot be written, or a message cannot be decoded
\* or handled: the loop ends, and connection_lost() closes the approvals.
ReaderEnds ==
    /\ \/ reader = "reading"
       \/ Sends("reader") /\ ~up
    /\ reader' = "ended"
    /\ closed' = TRUE
    /\ FailPending
    /\ Cancel({"reader"})
    /\ UNCHANGED <<nextId, call, id, got, tasks, records, up, draining, wire>>

-----------------------------------------------------------------------------
(* The tasks that answer server requests.                                  *)

\* register(), when a start or the recovery has learnt of the thread: a request
\* may come before it.  Nothing takes a registration back.
Register(r) ==
    /\ ~closed
    /\ managed' = managed \cup {r}
    /\ UNCHANGED <<calls, request, tasks, granted, audited, replies, link,
                   ahead, wire>>

\* Mutant of Approves: whose thread it is is not looked at.
ApprovesAnyThread(r) == r \in Approvable /\ ~closed
Approves(r) == r \in managed /\ ~closed

\* Mutant of Replies: an exception of the handler is not replied.
RepliesIfApproved(r) == IF Approves(r) THEN With(r) ELSE ahead
Replies(r) == With(r)

\* The approval handler runs to its end: it approves and puts that on record,
\* or raises.
Decide(r) ==
    /\ request[r] = "created"
    /\ request' = [request EXCEPT ![r] =
                     IF Approves(r) THEN "result" ELSE "error"]
    /\ granted' = granted \cup {x \in {r} : Approves(x)}
    /\ ahead' = Replies(r)
    /\ UNCHANGED <<calls, tasks, managed, audited, replies, link, wire>>

\* Mutant of SentOnRecord: errors are recorded as sent approvals too.
AnySentOnRecord(r) == {r}
\* response_sent() records the reply, unless it was an error.
SentOnRecord(r) == IF request[r] = "result" THEN {r} ELSE {}

ReplySent(r) ==
    /\ Sends(r)
    /\ up
    /\ ahead' = Without({r})
    /\ replies' = replies \cup {<<r, request[r]>>}
    /\ audited' = audited \cup SentOnRecord(r)
    /\ request' = [request EXCEPT ![r] = "over"]
    /\ UNCHANGED <<calls, tasks, managed, granted, link, wire>>

\* The write raises: the task ends without a reply.
ReplyFails(r) ==
    /\ Sends(r)
    /\ ~up
    /\ ahead' = Unlocked(r)
    /\ request' = [request EXCEPT ![r] = "over"]
    /\ UNCHANGED <<calls, tasks, records, replies, link, wire>>

\* The done callback runs some time after the task has ended.
Discard(r) ==
    /\ r \in tasks
    /\ request[r] \in {"over", "cancelled"}
    /\ tasks' = tasks \ {r}
    /\ UNCHANGED <<calls, request, records, replies, link, ahead, wire>>

-----------------------------------------------------------------------------
(* drain_requests(), close(), and the transport.                           *)

\* shutdown() closes the approvals and waits for the tasks there are.
\* Bound: one drain at a time.
BeginDrain ==
    /\ draining = {}
    /\ closed' = TRUE
    /\ draining' = tasks
    /\ UNCHANGED <<calls, serving, up, reader, ahead, wire>>

DrainEnds ==
    /\ draining # {}
    /\ InHand(draining) = {}
    /\ draining' = {}
    /\ UNCHANGED <<calls, serving, up, reader, closed, ahead, wire>>

\* The time is up: the gather is cancelled, and its tasks with it.
DrainTimesOut ==
    /\ InHand(draining) # {}
    /\ Cancel(draining)
    /\ draining' = {}
    /\ UNCHANGED <<calls, tasks, records, up, reader, closed, wire>>

\* close(): every future fails, the reader and every task are cancelled.  The
\* approvals are closed before it.
CloseClient ==
    /\ reader # "ended"
    /\ closed' = TRUE
    /\ FailPending
    /\ reader' = "ended"
    /\ Cancel(tasks \cup {"reader"})
    /\ UNCHANGED <<nextId, call, id, got, tasks, records, up, draining, wire>>

\* The app-server goes away, or the socket is closed.
TransportLost ==
    /\ up
    /\ up' = FALSE
    /\ UNCHANGED <<calls, serving, reader, closed, draining, ahead, wire>>

-----------------------------------------------------------------------------
\* What call() does without being abandoned.
Calling(c) ==
    CallSent(c) \/ CallSendFails(c) \/ CallReturns(c)

Answering(r) == Decide(r) \/ ReplySent(r) \/ ReplyFails(r) \/ Discard(r)

Next ==
    \/ \E c \in Callers : \/ BeginCall(c) \/ Calling(c)
                          \/ CallAbandoned(c)
    \/ \E m \in wire : ResponseArrives(m)
    \/ \E r \in Requests : \/ RequestArrives(r) \/ RequestRefused(r)
                           \/ RefusalSent(r) \/ Answering(r)
    \/ \E r \in Approvable : Register(r)
    \/ ReaderEnds
    \/ BeginDrain \/ DrainEnds \/ DrainTimesOut \/ CloseClient
    \/ TransportLost

Spec == Init /\ [][Next]_vars

\* Tasks that can go on do, and a write to a live transport is finished: the
\* app-server reads its socket.  That a timeout passes is not counted on.
FairSpec ==
    /\ Spec
    /\ \A c \in Callers : WF_vars(Calling(c))
    /\ \A r \in Requests : WF_vars(Answering(r)) /\ WF_vars(RefusalSent(r))
    /\ WF_vars(ReaderEnds /\ ~up)

-----------------------------------------------------------------------------
(* Properties.                                                             *)

\* A caller is given the answer to its own request, or an error: never what
\* the app-server says, however late, to a call that gave up before
\* (protocol.py:33, "Multiplexed"; docs/architecture.md:5, "correlates
\* concurrent calls and server requests").
AnswersMatch == \A c \in Callers : got[c] \in {"none", "lost", c}

\* _pending holds exactly the calls somebody still waits for: none is dropped
\* while its caller waits, and none stays behind it.
PendingIsAwaited ==
    DOMAIN future = {id[c] : c \in {x \in Callers :
                                call[x] \in {"sending", "waiting"}}}

\* What call() has told its caller: nothing yet, an answer, or a failure.
Told(c) ==
    IF call[c] # "returned" THEN "nothing"
    ELSE IF got[c] \in {"none", "lost"} THEN "failure" ELSE got[c]

Service == INSTANCE CallService WITH
    open <- {c \in Callers : call[c] # "idle" /\ id[c] \in DOMAIN future},
    sent <- {m.by : m \in wire},
    told <- [c \in Callers |-> Told(c)]

\* Every step of the connection is a step of CallService or leaves it
\* unchanged: however calls, answers, time-outs, cancellations and a loss
\* interleave, a call has its entry in _pending as long as somebody waits for
\* it and no longer, and is told the answer to its own request or a failure,
\* once (protocol.py:33, "Multiplexed"; docs/architecture.md:5, "correlates
\* concurrent calls and server requests").
CallsHold == Service!Spec

\* The app-server gets at most one reply to a request, and an acceptance only
\* after the approval was put on record; what is on record as sent was sent
\* (service.py:297, "Record only successfully sent managed responses").
RepliesOnRecord ==
    /\ \A r \in Requests : <<r, "result">> \in replies =>
          r \in granted /\ <<r, "error">> \notin replies
    /\ \A r \in audited : <<r, "result">> \in replies

\* However tasks end and refusals are written, never more than the limit of
\* them exist (tests/test_protocol.py:41,
\* "limit_fails_closed_without_unbounded_tasks").
TasksAreBounded == Cardinality(tasks) <= Limit

\* What x writes under the lock is still wanted by somebody.
AtWork(x) ==
    \/ x \in Callers /\ call[x] = "sending"
    \/ x \in Requests /\ request[x] \in Verdicts
    \/ x = "reader" /\ \E r \in Requests : request[r] = "refusing"

\* The send lock is never left behind by a sender that failed, gave up or was
\* cancelled: while anybody queues, exactly one sender holds it, and that one
\* has something to write (protocol.py:84, "async with self._send_lock").
LockIsHeld ==
    DOMAIN ahead # {} =>
        \E x \in DOMAIN ahead :
            /\ \A y \in DOMAIN ahead : Sends(y) <=> y = x
            /\ AtWork(x)

\* Whoever queues is passed by nobody: a flood of calls cannot keep the reader
\* or an approval from its turn (protocol.py:84).
NobodyOvertakes ==
    [][\A x \in DOMAIN ahead \cap DOMAIN ahead' :
          ahead'[x] \subseteq ahead[x]]_vars

\* The end of the reader is enough to end every call begun before it: no
\* timeout has to pass, whatever the call was doing.
LossEndsCalls ==
    \A c \in Callers :
        call[c] \in {"sending", "waiting"} /\ reader # "ended"
            ~> call[c] = "returned" \/ [](reader # "ended")

\* Every request the reader takes is answered, unless the connection goes or
\* a shutdown cancels it: also after the approvals are closed (protocol.py:74,
\* "fail-closed replies"), and whatever else wants to send.
RequestsAnswered ==
    \A r \in Requests :
        request[r] # "none" ~>
            \/ ~up
            \/ request[r] = "cancelled"
            \/ \E v \in Verdicts : <<r, v>> \in replies
=============================================================================
