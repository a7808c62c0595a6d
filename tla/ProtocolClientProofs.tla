------------------------ MODULE ProtocolClientProofs ------------------------
(***************************************************************************)
(* Proofs about ProtocolClient, for any number of calls and of requests    *)
(* from the app-server, and any limit.                                     *)
(***************************************************************************)
EXTENDS ProtocolClient, FiniteSetTheorems, TLAPS

\* Ids of calls are taken one after the other; what the app-server has been
\* sent, and what it answered, names the call that took the id.
CallInv ==
    /\ \A c \in Callers : c \in DOMAIN ahead <=> call[c] = "sending"
    /\ \A c \in Callers : call[c] # "idle" => id[c] < nextId
    /\ \A c, d \in Callers :
          c # d /\ call[c] # "idle" /\ call[d] # "idle" => id[c] # id[d]
    /\ \A m \in wire : call[m.by] # "idle" /\ m.id = id[m.by]
    /\ \A i \in DOMAIN future : future[i] \in Callers =>
          call[future[i]] # "idle" /\ id[future[i]] = i
    /\ PendingIsAwaited
    /\ AnswersMatch

\* A request that is still in hand has no reply; one that waits to be accepted
\* is on record.
ReplyInv ==
    /\ \A r \in Requests :
          /\ r \in DOMAIN ahead <=> request[r] \in {"result", "error"}
          /\ request[r] \in {"none", "refusing", "created", "result", "error"} =>
                \A v \in Verdicts : <<r, v>> \notin replies
          /\ request[r] = "result" => r \in granted
          /\ request[r] = "refusing" => reader = "refusing"
          /\ \A s \in Requests :
                request[r] = "refusing" /\ request[s] = "refusing" => r = s
    /\ "reader" \in DOMAIN ahead <=> reader = "refusing"
    /\ RepliesOnRecord

TasksInv == IsFiniteSet(tasks) /\ TasksAreBounded

ClientInv == TypeOK /\ CallInv /\ ReplyInv /\ TasksInv

-----------------------------------------------------------------------------
(* The helpers.                                                            *)

\* The line at the lock: senders, each with others in the line ahead of it.
Line(line) ==
    /\ DOMAIN line \subseteq Senders
    /\ \A x \in DOMAIN line : line[x] \subseteq DOMAIN line

\* Who is in the line when somebody has joined it, or some have left.
LEMMA LineFacts ==
    /\ \A y : DOMAIN With(y) = DOMAIN ahead \cup {y}
    /\ \A xs : DOMAIN Without(xs) = DOMAIN ahead \ xs
BY DEF With, Without

\* A sender that joins finds a line and leaves one behind.
LEMMA LineGrows ==
    ASSUME Line(ahead), NEW y \in Senders
    PROVE  Line(With(y))
<1>1. \A x \in DOMAIN With(y) :
         With(y)[x] = IF x = y THEN DOMAIN ahead ELSE ahead[x]
  BY DEF With
<1>2. DOMAIN With(y) = DOMAIN ahead \cup {y}
  BY LineFacts
<1>3. \A x \in DOMAIN With(y) : With(y)[x] \subseteq DOMAIN ahead
  BY <1>1, <1>2 DEF Line
<1> QED BY <1>2, <1>3 DEF Line

\* So do those that go.
LEMMA LineShrinks ==
    ASSUME Line(ahead), NEW xs
    PROVE  Line(Without(xs))
<1>1. \A x \in DOMAIN Without(xs) : Without(xs)[x] = ahead[x] \ xs
  BY DEF Without
<1> QED BY <1>1, LineFacts DEF Line

\* A failing of all pending futures settles the unset ones only.
LEMMA FailFacts ==
    ASSUME FailPending
    PROVE  /\ DOMAIN future' = DOMAIN future
           /\ \A i \in DOMAIN future :
                 future'[i] = IF future[i] = "unset" THEN "lost" ELSE future[i]
BY DEF FailPending

\* Forgetting a call leaves the other entries as they are.
LEMMA ForgetFacts ==
    ASSUME NEW c, Forget(c)
    PROVE  /\ DOMAIN future' = DOMAIN future \ {id[c]}
           /\ \A i \in DOMAIN future' : future'[i] = future[i]
BY DEF Forget, Restrict

\* Cancelled requests are the ones in hand, and only of one that was just being
\* written a reply may have gone out.
LEMMA CancelFacts ==
    ASSUME TypeOK, NEW xs, Cancel(xs)
    PROVE  /\ InHand(xs) \subseteq Requests
           /\ request' \in [Requests ->
                {"none", "refusing", "created", "result", "error", "over",
                 "cancelled"}]
           /\ \A r \in Requests :
                 request'[r] = IF r \in InHand(xs) THEN "cancelled" ELSE request[r]
           /\ replies \subseteq replies'
           /\ replies' \subseteq Requests \X Verdicts
           /\ \A r \in Requests, v \in Verdicts :
                 <<r, v>> \in replies' /\ <<r, v>> \notin replies =>
                    /\ r \in InHand(xs)
                    /\ Writing(r)
                    /\ v = IF request[r] = "result" THEN "result" ELSE "error"
<1>1. InHand(xs) \subseteq Requests
  BY DEF InHand
<1>2. /\ request' = [r \in Requests |->
                       IF r \in InHand(xs) THEN "cancelled" ELSE request[r]]
      /\ \/ replies' = replies
         \/ \E r \in InHand(xs) : Writing(r) /\ replies' = replies \cup {Reply(r)}
  BY DEF Cancel
<1>3. \A r \in Requests : Reply(r) \in Requests \X Verdicts
  BY DEF Reply, Verdicts
<1>4. replies \subseteq Requests \X Verdicts
  BY DEF TypeOK
<1>5. \A r \in Requests :
         request'[r] = IF r \in InHand(xs) THEN "cancelled" ELSE request[r]
  BY <1>2
<1>6. request' \in [Requests ->
         {"none", "refusing", "created", "result", "error", "over",
          "cancelled"}]
  BY <1>2 DEF TypeOK
<1>7. replies \subseteq replies' /\ replies' \subseteq Requests \X Verdicts
  BY <1>1, <1>2, <1>3, <1>4
<1>8. ASSUME NEW r \in Requests, NEW v \in Verdicts,
             <<r, v>> \in replies', <<r, v>> \notin replies
      PROVE  /\ r \in InHand(xs)
             /\ Writing(r)
             /\ v = IF request[r] = "result" THEN "result" ELSE "error"
  <2>1. PICK s \in InHand(xs) : Writing(s) /\ <<r, v>> = Reply(s)
    BY <1>2, <1>8
  <2> QED BY <2>1 DEF Reply
<1> QED BY <1>1, <1>5, <1>6, <1>7, <1>8

-----------------------------------------------------------------------------
(* Types.                                                                  *)

\* Before the connection is used the types hold.
LEMMA TypeInitially == Init => TypeOK
<1> SUFFICES ASSUME Init PROVE TypeOK
  OBVIOUS
<1>1. DOMAIN future = {} /\ DOMAIN ahead = {}
  BY DEF Init
<1>2. /\ call \in [Callers -> {"idle", "sending", "waiting", "returned"}]
      /\ id \in [Callers -> Nat]
      /\ got \in [Callers -> {"none", "lost"} \cup Callers]
      /\ request \in [Requests ->
           {"none", "refusing", "created", "result", "error", "over",
            "cancelled"}]
  BY DEF Init
<1>3. /\ nextId \in Nat /\ up \in BOOLEAN /\ closed \in BOOLEAN
      /\ reader \in {"reading", "refusing", "ended"}
      /\ tasks = {} /\ managed = {} /\ granted = {} /\ audited = {}
      /\ wire = {}
      /\ replies = {} /\ draining = {}
  BY DEF Init
<1> QED BY <1>1, <1>2, <1>3 DEF TypeOK

\* The steps of call() keep the types.
LEMMA CallTypes ==
    ASSUME TypeOK, PendingIsAwaited, NEW c \in Callers,
           BeginCall(c) \/ Calling(c) \/ CallAbandoned(c)
    PROVE  TypeOK'
<1> USE DEF TypeOK, Line, records, serving, link
<1>0. c \in Senders
  BY DEF Senders
<1>1. CASE BeginCall(c)
  <2>1. Line(ahead')
    BY <1>0, <1>1, LineGrows DEF BeginCall
  <2>2. /\ DOMAIN future' \subseteq Nat
        /\ \A i \in DOMAIN future' : future'[i] \in {"unset", "lost"} \cup Callers
    BY <1>1 DEF BeginCall, RequestId
  <2> HIDE DEF TypeOK
  <2>3. /\ nextId' \in Nat /\ id' \in [Callers -> Nat]
        /\ call' \in [Callers -> {"idle", "sending", "waiting", "returned"}]
    BY <1>1 DEF BeginCall, RequestId, TypeOK
  <2> QED BY <1>1, <2>1, <2>2, <2>3 DEF BeginCall, TypeOK
<1>2. CASE CallSent(c)
  <2>1. Line(ahead')
    BY <1>2, LineShrinks DEF CallSent
  <2>2. wire' \subseteq [id: Nat, by: Callers]
    BY <1>2 DEF CallSent
  <2> QED BY <1>2, <2>1, <2>2 DEF CallSent
<1>3. CASE CallSendFails(c)
  <2>1. Line(ahead')
    BY <1>3, LineShrinks DEF CallSendFails, Unlocked
  <2>2. /\ DOMAIN future' \subseteq Nat
        /\ \A i \in DOMAIN future' : future'[i] \in {"unset", "lost"} \cup Callers
    BY <1>3, ForgetFacts DEF CallSendFails
  <2> QED BY <1>3, <2>1, <2>2 DEF CallSendFails
<1>4. CASE CallReturns(c)
  <2>0. id[c] \in DOMAIN future
    BY <1>4 DEF CallReturns, PendingIsAwaited
  <2>1. /\ DOMAIN future' \subseteq Nat
        /\ \A i \in DOMAIN future' : future'[i] \in {"unset", "lost"} \cup Callers
    BY <1>4, ForgetFacts DEF CallReturns
  <2>2. got' \in [Callers -> {"none", "lost"} \cup Callers]
    BY <1>4, <2>0 DEF CallReturns
  <2> QED BY <1>4, <2>1, <2>2 DEF CallReturns
<1>5. CASE CallAbandoned(c)
  <2>1. Line(ahead')
    BY <1>5, LineShrinks DEF CallAbandoned
  <2>2. /\ DOMAIN future' \subseteq Nat
        /\ \A i \in DOMAIN future' : future'[i] \in {"unset", "lost"} \cup Callers
    BY <1>5, ForgetFacts DEF CallAbandoned
  <2>3. wire' \subseteq [id: Nat, by: Callers]
    BY <1>5 DEF CallAbandoned
  <2> QED BY <1>5, <2>1, <2>2, <2>3 DEF CallAbandoned
<1> QED BY <1>1, <1>2, <1>3, <1>4, <1>5 DEF Calling

\* The steps of the reader keep the types.
LEMMA ReaderTypes ==
    ASSUME TypeOK,
           \/ \E m \in wire : ResponseArrives(m)
           \/ \E r \in Requests : RequestArrives(r) \/ RequestRefused(r)
                                 \/ RefusalSent(r)
           \/ ReaderEnds
    PROVE  TypeOK'
<1> USE DEF TypeOK, Line, calls, records, serving, link
<1>0. "reader" \in Senders
  BY DEF Senders
<1>1. ASSUME NEW m \in wire, ResponseArrives(m) PROVE TypeOK'
  <2>1. /\ DOMAIN future' \subseteq Nat
        /\ \A i \in DOMAIN future' : future'[i] \in {"unset", "lost"} \cup Callers
    BY <1>1 DEF ResponseArrives
  <2> QED BY <1>1, <2>1 DEF ResponseArrives
<1>2. ASSUME NEW r \in Requests, RequestArrives(r) PROVE TypeOK'
  BY <1>2 DEF RequestArrives
<1>3. ASSUME NEW r \in Requests, RequestRefused(r) PROVE TypeOK'
  <2>1. Line(ahead')
    BY <1>0, <1>3, LineGrows DEF RequestRefused
  <2> QED BY <1>3, <2>1 DEF RequestRefused
<1>4. ASSUME NEW r \in Requests, RefusalSent(r) PROVE TypeOK'
  <2>1. Line(ahead')
    BY <1>4, LineShrinks DEF RefusalSent
  <2>2. replies' \subseteq Requests \X Verdicts
    BY <1>4 DEF RefusalSent, Verdicts
  <2> QED BY <1>4, <2>1, <2>2 DEF RefusalSent
<1>5. CASE ReaderEnds
  <2>1. Line(ahead')
    BY <1>5, LineShrinks DEF ReaderEnds, Cancel
  <2>2. /\ DOMAIN future' \subseteq Nat
        /\ \A i \in DOMAIN future' : future'[i] \in {"unset", "lost"} \cup Callers
    BY <1>5, FailFacts DEF ReaderEnds
  <2>3. /\ replies' \subseteq Requests \X Verdicts
        /\ request' \in [Requests ->
             {"none", "refusing", "created", "result", "error", "over",
              "cancelled"}]
    BY <1>5, CancelFacts DEF ReaderEnds
  <2> QED BY <1>5, <2>1, <2>2, <2>3 DEF ReaderEnds
<1> QED BY <1>1, <1>2, <1>3, <1>4, <1>5

\* The steps of the tasks that answer keep the types.
LEMMA AnsweringTypes ==
    ASSUME TypeOK, ReplyInv, NEW r \in Requests, Answering(r)
    PROVE  TypeOK'
<1> USE DEF TypeOK, Line, calls, records, serving, link
<1>0. r \in Senders
  BY DEF Senders
<1>1. CASE Decide(r)
  <2>1. Line(ahead')
    BY <1>0, <1>1, LineGrows DEF Decide, Replies
  <2>2. granted' \subseteq managed
    BY <1>1 DEF Decide, Approves
  <2> QED BY <1>1, <2>1, <2>2 DEF Decide
<1>2. CASE ReplySent(r)
  <2>0. request[r] \in Verdicts
    BY <1>2 DEF ReplySent, Sends, ReplyInv, Verdicts
  <2>1. Line(ahead')
    BY <1>2, LineShrinks DEF ReplySent
  <2>2. replies' \subseteq Requests \X Verdicts /\ audited' \subseteq Requests
    BY <1>2, <2>0 DEF ReplySent, SentOnRecord
  <2> QED BY <1>2, <2>1, <2>2 DEF ReplySent
<1>3. CASE ReplyFails(r)
  <2>1. Line(ahead')
    BY <1>3, LineShrinks DEF ReplyFails, Unlocked
  <2> QED BY <1>3, <2>1 DEF ReplyFails
<1>4. CASE Discard(r)
  BY <1>4 DEF Discard
<1> QED BY <1>1, <1>2, <1>3, <1>4 DEF Answering

\* Registering, draining, closing and losing the transport keep the types.
LEMMA ControlTypes ==
    ASSUME TypeOK,
           \/ \E r \in Approvable : Register(r)
           \/ BeginDrain \/ DrainEnds \/ DrainTimesOut \/ CloseClient
           \/ TransportLost
    PROVE  TypeOK'
<1> USE DEF TypeOK, Line, calls, records, serving, link
<1>1. CASE BeginDrain \/ DrainEnds \/ TransportLost
  BY <1>1 DEF BeginDrain, DrainEnds, TransportLost
<1>2. CASE DrainTimesOut
  <2>1. Line(ahead')
    BY <1>2, LineShrinks DEF DrainTimesOut, Cancel
  <2>2. /\ replies' \subseteq Requests \X Verdicts
        /\ request' \in [Requests ->
             {"none", "refusing", "created", "result", "error", "over",
              "cancelled"}]
    BY <1>2, CancelFacts DEF DrainTimesOut
  <2> QED BY <1>2, <2>1, <2>2 DEF DrainTimesOut
<1>3. CASE CloseClient
  <2>1. Line(ahead')
    BY <1>3, LineShrinks DEF CloseClient, Cancel
  <2>2. /\ DOMAIN future' \subseteq Nat
        /\ \A i \in DOMAIN future' : future'[i] \in {"unset", "lost"} \cup Callers
    BY <1>3, FailFacts DEF CloseClient
  <2>3. /\ replies' \subseteq Requests \X Verdicts
        /\ request' \in [Requests ->
             {"none", "refusing", "created", "result", "error", "over",
              "cancelled"}]
    BY <1>3, CancelFacts DEF CloseClient
  <2> QED BY <1>3, <2>1, <2>2, <2>3 DEF CloseClient
<1>4. ASSUME NEW r \in Approvable, Register(r) PROVE TypeOK'
  BY <1>4 DEF Register
<1> QED BY <1>1, <1>2, <1>3, <1>4
-----------------------------------------------------------------------------
(* Calls.                                                                  *)

\* Senders of different kinds are different.
LEMMA SendersDiffer ==
    /\ \A c \in Callers : c \notin Requests /\ c # "reader"
    /\ \A c \in Callers : c # "unset" /\ c # "lost" /\ c # "none"
    /\ "reader" \notin Requests
BY SendersAssumption

\* Before the connection is used there is no call and no request.
LEMMA InvInitially == Init => CallInv /\ ReplyInv /\ TasksInv
<1> SUFFICES ASSUME Init PROVE CallInv /\ ReplyInv /\ TasksInv
  OBVIOUS
<1>1. DOMAIN future = {} /\ DOMAIN ahead = {}
  BY DEF Init
<1>2. CallInv
  BY <1>1 DEF Init, CallInv, PendingIsAwaited, AnswersMatch
<1>3. ReplyInv
  BY <1>1 DEF Init, ReplyInv, RepliesOnRecord
<1>4. TasksInv
  BY FS_EmptySet, LimitAssumption DEF Init, TasksInv, TasksAreBounded
<1> QED BY <1>2, <1>3, <1>4

\* What leaves the calls alone, and moves no caller in the line, keeps CallInv.
LEMMA OthersKeepCalls ==
    ASSUME TypeOK, CallInv, UNCHANGED <<nextId, call, id, got, wire>>,
           UNCHANGED future \/ FailPending,
           \A c \in Callers : c \in DOMAIN ahead' <=> c \in DOMAIN ahead
    PROVE  CallInv'
<1>1. /\ DOMAIN future' = DOMAIN future
      /\ \A i \in DOMAIN future : future'[i] \in {future[i], "lost"}
  BY FailFacts
<1>2. PendingIsAwaited' /\ AnswersMatch'
  BY <1>1 DEF CallInv, PendingIsAwaited, AnswersMatch
<1>3. \A i \in DOMAIN future' : future'[i] \in Callers =>
         call'[future'[i]] # "idle" /\ id'[future'[i]] = i
  BY <1>1, SendersDiffer DEF CallInv
<1> QED BY <1>2, <1>3 DEF CallInv

\* The steps of call() keep CallInv.
LEMMA CallsKeepCalls ==
    ASSUME TypeOK, CallInv, NEW c \in Callers,
           BeginCall(c) \/ Calling(c) \/ CallAbandoned(c)
    PROVE  CallInv'
<1> USE DEF TypeOK, serving, link
<1>1. CASE BeginCall(c)
  <2>1. \A d \in Callers : d \in DOMAIN ahead' <=> d \in DOMAIN ahead \/ d = c
    BY <1>1 DEF BeginCall, With
  <2>2. /\ call[c] = "idle" /\ id'[c] = nextId /\ nextId' = nextId + 1
        /\ call'[c] = "sending" /\ got' = got /\ wire' = wire
        /\ \A d \in Callers \ {c} : call'[d] = call[d] /\ id'[d] = id[d]
    BY <1>1 DEF BeginCall, RequestId
  <2>3. /\ DOMAIN future' = DOMAIN future \cup {nextId}
        /\ \A i \in DOMAIN future' :
              future'[i] = IF i = nextId THEN "unset" ELSE future[i]
    BY <1>1 DEF BeginCall, RequestId
  <2>4. \A d \in Callers : d \in DOMAIN ahead' <=> call'[d] = "sending"
    BY <2>1, <2>2 DEF CallInv
  <2>5. \A d \in Callers : call'[d] # "idle" => id'[d] < nextId'
    BY <2>2 DEF CallInv
  <2>6. \A d, e \in Callers :
           d # e /\ call'[d] # "idle" /\ call'[e] # "idle" => id'[d] # id'[e]
    BY <2>2 DEF CallInv
  <2>7. \A m \in wire' : call'[m.by] # "idle" /\ m.id = id'[m.by]
    BY <2>2 DEF CallInv
  <2>8. \A i \in DOMAIN future' : future'[i] \in Callers =>
           call'[future'[i]] # "idle" /\ id'[future'[i]] = i
    BY <2>2, <2>3, SendersDiffer DEF CallInv
  <2>9. PendingIsAwaited'
    BY <2>2, <2>3 DEF CallInv, PendingIsAwaited
  <2>10. AnswersMatch'
    BY <2>2 DEF CallInv, AnswersMatch
  <2> QED BY <2>4, <2>5, <2>6, <2>7, <2>8, <2>9, <2>10 DEF CallInv
<1>2. CASE CallSent(c)
  <2>1. \A d \in Callers : d \in DOMAIN ahead' <=> d \in DOMAIN ahead /\ d # c
    BY <1>2 DEF CallSent, Without
  <2>2. call[c] = "sending"
    BY <1>2 DEF CallSent, Sends, CallInv
  <2>3. /\ call'[c] = "waiting"
        /\ \A d \in Callers \ {c} : call'[d] = call[d]
        /\ wire' = wire \cup {[id |-> id[c], by |-> c]}
        /\ UNCHANGED <<nextId, id, future, got>>
    BY <1>2 DEF CallSent
  <2>4. \A d \in Callers : d \in DOMAIN ahead' <=> call'[d] = "sending"
    BY <2>1, <2>2, <2>3 DEF CallInv
  <2>5. PendingIsAwaited' /\ AnswersMatch'
    BY <2>2, <2>3 DEF CallInv, PendingIsAwaited, AnswersMatch
  <2>6. \A m \in wire' : call'[m.by] # "idle" /\ m.id = id'[m.by]
    BY <2>2, <2>3 DEF CallInv
  <2> QED BY <2>2, <2>3, <2>4, <2>5, <2>6 DEF CallInv
<1>3. ASSUME call[c] \in {"sending", "waiting"}, call' = [call EXCEPT ![c] = "returned"],
             Forget(c), UNCHANGED <<nextId, id>>,
             \A d \in Callers : d \in DOMAIN ahead' <=> d \in DOMAIN ahead /\ d # c,
             \A m \in wire' : m \in wire \/ m = [id |-> id[c], by |-> c],
             got'[c] \in {"none", "lost", c},
             \A d \in Callers \ {c} : got'[d] = got[d]
      PROVE  CallInv'
  <2>1. /\ call'[c] = "returned"
        /\ \A d \in Callers \ {c} : call'[d] = call[d]
    BY <1>3
  <2>2. /\ DOMAIN future' = DOMAIN future \ {id[c]}
        /\ \A i \in DOMAIN future' : future'[i] = future[i]
    BY <1>3, ForgetFacts
  <2>3. \A d \in Callers : d \in DOMAIN ahead' <=> call'[d] = "sending"
    BY <1>3, <2>1 DEF CallInv
  <2>4. PendingIsAwaited'
    BY <1>3, <2>1, <2>2 DEF CallInv, PendingIsAwaited
  <2>5. AnswersMatch'
    BY <1>3 DEF CallInv, AnswersMatch
  <2>6. \A m \in wire' : call'[m.by] # "idle" /\ m.id = id'[m.by]
    BY <1>3, <2>1 DEF CallInv
  <2>7. \A i \in DOMAIN future' : future'[i] \in Callers =>
           call'[future'[i]] # "idle" /\ id'[future'[i]] = i
    BY <1>3, <2>1, <2>2 DEF CallInv
  <2>8. /\ \A d \in Callers : call'[d] # "idle" => id'[d] < nextId'
        /\ \A d, e \in Callers :
              d # e /\ call'[d] # "idle" /\ call'[e] # "idle" => id'[d] # id'[e]
    BY <1>3, <2>1 DEF CallInv
  <2> QED BY <2>3, <2>4, <2>5, <2>6, <2>7, <2>8 DEF CallInv
<1>4. got[c] \in {"none", "lost", c}
  BY DEF CallInv, AnswersMatch
<1>5. CASE CallSendFails(c)
  <2>1. call[c] = "sending"
    BY <1>5 DEF CallSendFails, Sends, CallInv
  <2>2. \A d \in Callers : d \in DOMAIN ahead' <=> d \in DOMAIN ahead /\ d # c
    BY <1>5 DEF CallSendFails, Unlocked, Without
  <2> QED BY <1>3, <1>4, <1>5, <2>1, <2>2 DEF CallSendFails
<1>6. CASE CallReturns(c)
  <2>1. /\ call[c] = "waiting" /\ future[id[c]] # "unset"
        /\ got' = [got EXCEPT ![c] = future[id[c]]]
    BY <1>6 DEF CallReturns
  <2>2. id[c] \in DOMAIN future
    BY <2>1 DEF CallInv, PendingIsAwaited
  <2>3. future[id[c]] \in {"lost", c}
    BY <2>1, <2>2 DEF CallInv
  <2>4. c \notin DOMAIN ahead
    BY <2>1 DEF CallInv
  <2>5. \A d \in Callers : d \in DOMAIN ahead' <=> d \in DOMAIN ahead /\ d # c
    BY <1>6, <2>4 DEF CallReturns
  <2>6. got'[c] \in {"none", "lost", c} /\ \A d \in Callers \ {c} : got'[d] = got[d]
    BY <2>1, <2>3
  <2> QED BY <1>3, <1>6, <2>1, <2>5, <2>6 DEF CallReturns
<1>7. CASE CallAbandoned(c)
  <2>1. \A d \in Callers : d \in DOMAIN ahead' <=> d \in DOMAIN ahead /\ d # c
    BY <1>7 DEF CallAbandoned, Without
  <2>2. \A m \in wire' : m \in wire \/ m = [id |-> id[c], by |-> c]
    BY <1>7 DEF CallAbandoned
  <2> QED BY <1>3, <1>4, <1>7, <2>1, <2>2 DEF CallAbandoned
<1> QED BY <1>1, <1>2, <1>5, <1>6, <1>7 DEF Calling

\* An answer that arrives sets the future of the call it answers.
LEMMA AnswerKeepsCalls ==
    ASSUME TypeOK, CallInv, NEW m \in wire, ResponseArrives(m)
    PROVE  CallInv'
<1> USE DEF TypeOK, serving, link
<1>1. /\ m.id \in DOMAIN future /\ m.by \in Callers
      /\ future' = [future EXCEPT ![m.id] = m.by]
      /\ UNCHANGED <<nextId, call, id, got, wire, ahead>>
  BY DEF ResponseArrives
<1>2. \A i \in DOMAIN future' : future'[i] \in Callers =>
         call'[future'[i]] # "idle" /\ id'[future'[i]] = i
  BY <1>1 DEF CallInv
<1>3. PendingIsAwaited' /\ AnswersMatch'
  BY <1>1 DEF CallInv, PendingIsAwaited, AnswersMatch
<1> QED BY <1>1, <1>2, <1>3 DEF CallInv

\* Every step keeps CallInv.
LEMMA CallStep == ASSUME ClientInv, [Next]_vars PROVE CallInv'
<1> USE DEF ClientInv
<1>1. ASSUME NEW c \in Callers, BeginCall(c) \/ Calling(c) \/ CallAbandoned(c)
      PROVE  CallInv'
  BY <1>1, CallsKeepCalls
<1>2. ASSUME NEW m \in wire, ResponseArrives(m) PROVE CallInv'
  BY <1>2, AnswerKeepsCalls
<1>3. ASSUME NEW r \in Requests,
             RequestArrives(r) \/ RequestRefused(r) \/ RefusalSent(r) \/ Answering(r)
      PROVE  CallInv'
  <2>1. /\ UNCHANGED <<nextId, call, id, got, wire, future>>
        /\ \/ ahead' = ahead
           \/ \E y \in {r, "reader"} : ahead' = With(y) \/ ahead' = Without({y})
    BY <1>3 DEF RequestArrives, RequestRefused, RefusalSent, Answering, Decide,
                Replies, ReplySent, ReplyFails, Unlocked, Discard, calls
  <2>2. \A c \in Callers : c \in DOMAIN ahead' <=> c \in DOMAIN ahead
    BY <2>1, LineFacts, SendersDiffer
  <2> QED BY <2>1, <2>2, OthersKeepCalls
<1>4. ASSUME ReaderEnds \/ DrainTimesOut \/ CloseClient PROVE CallInv'
  <2>1. /\ UNCHANGED <<nextId, call, id, got, wire>>
        /\ UNCHANGED future \/ FailPending
        /\ \E xs \in SUBSET (Requests \cup {"reader"}) : ahead' = Without(xs)
    BY <1>4 DEF ReaderEnds, DrainTimesOut, CloseClient, Cancel, calls, TypeOK
  <2>2. \A c \in Callers : c \in DOMAIN ahead' <=> c \in DOMAIN ahead
    BY <2>1, LineFacts, SendersDiffer
  <2> QED BY <2>1, <2>2, OthersKeepCalls
<1>5. CASE BeginDrain \/ DrainEnds \/ TransportLost \/ UNCHANGED vars
  BY <1>5, OthersKeepCalls DEF BeginDrain, DrainEnds, TransportLost, vars, calls
<1>6. ASSUME NEW r \in Approvable, Register(r) PROVE CallInv'
  BY <1>6, OthersKeepCalls DEF Register, calls
<1> QED BY <1>1, <1>2, <1>3, <1>4, <1>5, <1>6 DEF Next
-----------------------------------------------------------------------------
(* Replies.                                                                *)

\* What leaves the replies alone, and moves no task in the line, keeps ReplyInv.
LEMMA OthersKeepReplies ==
    ASSUME TypeOK, ReplyInv, UNCHANGED <<request, granted, audited, replies, reader>>,
           \A x \in Requests \cup {"reader"} :
              x \in DOMAIN ahead' <=> x \in DOMAIN ahead
    PROVE  ReplyInv'
BY DEF ReplyInv, RepliesOnRecord

\* Cancelling tasks, with or without a last reply, keeps ReplyInv.
LEMMA CancelKeepsReplies ==
    ASSUME TypeOK, ReplyInv, NEW xs \in SUBSET (Requests \cup {"reader"}), Cancel(xs),
           UNCHANGED <<granted, audited>>,
           IF "reader" \in xs THEN reader' = "ended" ELSE reader' = reader
    PROVE  ReplyInv'
<1> DEFINE hand == InHand(xs)
<1>1. /\ \A r \in Requests :
            request'[r] = IF r \in hand THEN "cancelled" ELSE request[r]
      /\ \A r \in Requests, v \in Verdicts :
            <<r, v>> \in replies' /\ <<r, v>> \notin replies =>
               /\ r \in hand
               /\ Writing(r)
               /\ v = IF request[r] = "result" THEN "result" ELSE "error"
      /\ replies \subseteq replies'
  BY CancelFacts
<1>2. DOMAIN ahead' = DOMAIN ahead \ xs
  BY DEF Cancel, Without
<1>3. ASSUME NEW r \in Requests
      PROVE  r \in hand <=>
               \/ r \in xs /\ request[r] \in {"created", "result", "error"}
               \/ "reader" \in xs /\ request[r] = "refusing"
  BY DEF InHand
<1>4. ASSUME NEW r \in Requests
      PROVE  /\ r \in DOMAIN ahead' <=> request'[r] \in {"result", "error"}
             /\ request'[r] = "result" => r \in granted'
             /\ request'[r] = "refusing" => reader' = "refusing"
             /\ \A s \in Requests :
                   request'[r] = "refusing" /\ request'[s] = "refusing" => r = s
  <2>1. request'[r] # request[r] => r \in hand /\ request'[r] = "cancelled"
    BY <1>1
  <2>2. r \in DOMAIN ahead' <=> request'[r] \in {"result", "error"}
    <3>1. r \in DOMAIN ahead <=> request[r] \in {"result", "error"}
      BY DEF ReplyInv
    <3>2. CASE r \in xs
      <4>1. r \notin DOMAIN ahead'
        BY <1>2, <3>2
      <4>2. request[r] \in {"result", "error"} => r \in hand
        BY <1>3, <3>2
      <4> QED BY <1>1, <4>1, <4>2
    <3>3. CASE r \notin xs
      BY <1>1, <1>2, <1>3, <3>1, <3>3
    <3> QED BY <3>2, <3>3
  <2>3. request'[r] = "result" => r \in granted'
    BY <2>1 DEF ReplyInv
  <2>4. request'[r] = "refusing" => reader' = "refusing"
    BY <1>1, <1>3 DEF ReplyInv
  <2>5. \A s \in Requests :
           request'[r] = "refusing" /\ request'[s] = "refusing" => r = s
    BY <1>1 DEF ReplyInv
  <2> QED BY <2>2, <2>3, <2>4, <2>5
<1>5. ASSUME NEW r \in Requests,
             request'[r] \in {"none", "refusing", "created", "result", "error"}
      PROVE  \A v \in Verdicts : <<r, v>> \notin replies'
  <2>1. r \notin hand /\ request[r] = request'[r]
    BY <1>1, <1>5
  <2> QED BY <2>1, <1>1, <1>5 DEF ReplyInv
<1>6. "reader" \in DOMAIN ahead' <=> reader' = "refusing"
  BY <1>2 DEF ReplyInv
<1>7. ASSUME NEW r \in Requests, <<r, "result">> \in replies'
      PROVE  r \in granted' /\ <<r, "error">> \notin replies'
  <2>0. {"result", "error"} = Verdicts
    BY DEF Verdicts
  <2>1. CASE <<r, "result">> \in replies
    <3>1. r \in granted /\ <<r, "error">> \notin replies
      BY <2>1 DEF ReplyInv, RepliesOnRecord
    <3>2. r \notin hand
      BY <2>0, <2>1, <1>3 DEF ReplyInv
    <3> QED BY <2>0, <3>1, <3>2, <1>1
  <2>2. CASE <<r, "result">> \notin replies
    <3>1. r \in hand /\ request[r] = "result"
      BY <2>0, <2>2, <1>1, <1>7
    <3>2. <<r, "error">> \notin replies /\ r \in granted
      BY <2>0, <3>1 DEF ReplyInv
    <3>3. <<r, "error">> \notin replies'
      BY <2>0, <3>1, <3>2, <1>1
    <3> QED BY <3>2, <3>3
  <2> QED BY <2>1, <2>2
<1>8. \A r \in audited' : <<r, "result">> \in replies'
  BY <1>1 DEF ReplyInv, RepliesOnRecord
<1> QED BY <1>4, <1>5, <1>6, <1>7, <1>8 DEF ReplyInv, RepliesOnRecord

\* A request's own steps keep ReplyInv.
LEMMA RequestKeepsReplies ==
    ASSUME TypeOK, ReplyInv, NEW r \in Requests,
           RequestArrives(r) \/ RequestRefused(r) \/ RefusalSent(r) \/ Answering(r)
    PROVE  ReplyInv'
<1> USE SendersDiffer DEF TypeOK, calls, records, serving, link
<1>1. CASE RequestArrives(r)
  BY <1>1 DEF RequestArrives, ReplyInv, RepliesOnRecord
<1>2. CASE RequestRefused(r)
  <2>1. DOMAIN ahead' = DOMAIN ahead \cup {"reader"}
    BY <1>2 DEF RequestRefused, With
  <2> QED BY <1>2, <2>1 DEF RequestRefused, ReplyInv, RepliesOnRecord
<1>3. CASE RefusalSent(r)
  <2>1. DOMAIN ahead' = DOMAIN ahead \ {"reader"}
    BY <1>3 DEF RefusalSent, Without
  <2> QED BY <1>3, <2>1 DEF RefusalSent, ReplyInv, RepliesOnRecord, Verdicts
<1>4. CASE Decide(r)
  <2>1. DOMAIN ahead' = DOMAIN ahead \cup {r}
    BY <1>4 DEF Decide, Replies, With
  <2> QED BY <1>4, <2>1 DEF Decide, ReplyInv, RepliesOnRecord
<1>5. CASE ReplySent(r)
  <2>1. DOMAIN ahead' = DOMAIN ahead \ {r}
    BY <1>5 DEF ReplySent, Without
  <2>2. request[r] \in {"result", "error"}
    BY <1>5 DEF ReplySent, Sends, ReplyInv
  <2> QED BY <1>5, <2>1, <2>2
          DEF ReplySent, SentOnRecord, ReplyInv, RepliesOnRecord, Verdicts
<1>6. CASE ReplyFails(r)
  <2>1. DOMAIN ahead' = DOMAIN ahead \ {r}
    BY <1>6 DEF ReplyFails, Unlocked, Without
  <2> QED BY <1>6, <2>1 DEF ReplyFails, ReplyInv, RepliesOnRecord
<1>7. CASE Discard(r)
  BY <1>7 DEF Discard, ReplyInv, RepliesOnRecord
<1> QED BY <1>1, <1>2, <1>3, <1>4, <1>5, <1>6, <1>7 DEF Answering

\* Every step keeps ReplyInv.
LEMMA ReplyStep == ASSUME ClientInv, [Next]_vars PROVE ReplyInv'
<1> USE DEF ClientInv
<1>1. ASSUME NEW c \in Callers, BeginCall(c) \/ Calling(c) \/ CallAbandoned(c)
      PROVE  ReplyInv'
  <2>1. UNCHANGED <<request, granted, audited, replies, reader>>
    BY <1>1 DEF BeginCall, Calling, CallSent, CallSendFails, CallReturns,
                CallAbandoned, serving, records, link
  <2>2. ahead' = ahead \/ ahead' = With(c) \/ ahead' = Without({c})
    BY <1>1 DEF BeginCall, Calling, CallSent, CallSendFails, CallReturns,
                CallAbandoned, Unlocked
  <2>3. \A x \in Requests \cup {"reader"} :
           x \in DOMAIN ahead' <=> x \in DOMAIN ahead
    BY <2>2, SendersDiffer DEF With, Without
  <2> QED BY <2>1, <2>3, OthersKeepReplies
<1>2. ASSUME NEW m \in wire, ResponseArrives(m) PROVE ReplyInv'
  BY <1>2, OthersKeepReplies DEF ResponseArrives, serving, records, link
<1>3. ASSUME NEW r \in Requests,
             RequestArrives(r) \/ RequestRefused(r) \/ RefusalSent(r) \/ Answering(r)
      PROVE  ReplyInv'
  BY <1>3, RequestKeepsReplies
<1>4. CASE ReaderEnds \/ CloseClient
  <2>1. tasks \subseteq Requests
    BY DEF TypeOK
  <2>2. PICK xs \in SUBSET (Requests \cup {"reader"}) : "reader" \in xs /\ Cancel(xs)
    BY <1>4, <2>1 DEF ReaderEnds, CloseClient
  <2>3. UNCHANGED <<granted, audited>> /\ reader' = "ended"
    BY <1>4 DEF ReaderEnds, CloseClient, records
  <2> QED BY <2>2, <2>3, CancelKeepsReplies
<1>5. CASE DrainTimesOut
  <2>1. draining \subseteq Requests /\ "reader" \notin draining
    BY SendersDiffer DEF TypeOK
  <2>2. Cancel(draining) /\ UNCHANGED <<granted, audited, reader>>
    BY <1>5 DEF DrainTimesOut, records
  <2> QED BY <2>1, <2>2, CancelKeepsReplies
<1>6. CASE BeginDrain \/ DrainEnds \/ TransportLost \/ UNCHANGED vars
  BY <1>6, OthersKeepReplies
     DEF BeginDrain, DrainEnds, TransportLost, vars, serving, records, link
<1>7. ASSUME NEW r \in Approvable, Register(r) PROVE ReplyInv'
  BY <1>7, OthersKeepReplies DEF Register, link
<1> QED BY <1>1, <1>2, <1>3, <1>4, <1>5, <1>6, <1>7 DEF Next

-----------------------------------------------------------------------------
(* Tasks.                                                                  *)

\* A task is made only below the limit.
LEMMA TasksStep == ASSUME TasksInv, [Next]_vars PROVE TasksInv'
<1>1. \/ tasks' = tasks
      \/ \E r \in Requests : ~Full /\ tasks' = tasks \cup {r}
      \/ \E r \in Requests : tasks' = tasks \ {r}
  <2> USE DEF serving
  <2>1. ASSUME NEW c \in Callers, BeginCall(c) \/ Calling(c) \/ CallAbandoned(c)
        PROVE  tasks' = tasks
    BY <2>1 DEF BeginCall, Calling, CallSent, CallSendFails, CallReturns, CallAbandoned
  <2>2. ASSUME NEW m \in wire, ResponseArrives(m) PROVE tasks' = tasks
    BY <2>2 DEF ResponseArrives
  <2>3. ASSUME NEW r \in Requests, RequestRefused(r) \/ RefusalSent(r) \/ Decide(r)
                                    \/ ReplySent(r) \/ ReplyFails(r)
        PROVE  tasks' = tasks
    BY <2>3 DEF RequestRefused, RefusalSent, Decide, ReplySent, ReplyFails
  <2>4. CASE ReaderEnds \/ BeginDrain \/ DrainEnds \/ DrainTimesOut
             \/ CloseClient \/ TransportLost \/ UNCHANGED vars
    BY <2>4 DEF ReaderEnds, BeginDrain, DrainEnds, DrainTimesOut, CloseClient,
                TransportLost, vars
  <2>5. ASSUME NEW r \in Requests, RequestArrives(r)
        PROVE  ~Full /\ tasks' = tasks \cup {r}
    BY <2>5 DEF RequestArrives
  <2>6. ASSUME NEW r \in Requests, Discard(r) PROVE tasks' = tasks \ {r}
    BY <2>6 DEF Discard
  <2>7. ASSUME NEW r \in Approvable, Register(r) PROVE tasks' = tasks
    BY <2>7 DEF Register
  <2> QED BY <2>1, <2>2, <2>3, <2>4, <2>5, <2>6, <2>7 DEF Next, Answering
<1>2. IsFiniteSet(tasks) /\ Cardinality(tasks) \in Nat /\ Cardinality(tasks) <= Limit
  BY FS_CardinalityType DEF TasksInv, TasksAreBounded
<1>3. ASSUME NEW r \in Requests, ~Full, tasks' = tasks \cup {r} PROVE TasksInv'
  <2>1. Cardinality(tasks) < Limit
    BY <1>2, <1>3, LimitAssumption DEF Full
  <2>2. IsFiniteSet(tasks') /\ Cardinality(tasks') <= Cardinality(tasks) + 1
    BY <1>2, <1>3, FS_AddElement
  <2>3. Cardinality(tasks') \in Nat
    BY <2>2, FS_CardinalityType
  <2> QED BY <1>2, <2>1, <2>2, <2>3, LimitAssumption DEF TasksInv, TasksAreBounded
<1>4. ASSUME NEW r \in Requests, tasks' = tasks \ {r} PROVE TasksInv'
  <2>1. IsFiniteSet(tasks') /\ Cardinality(tasks') <= Cardinality(tasks)
    BY <1>2, <1>4, FS_RemoveElement
  <2>2. Cardinality(tasks') \in Nat
    BY <2>1, FS_CardinalityType
  <2> QED BY <1>2, <2>1, <2>2, LimitAssumption DEF TasksInv, TasksAreBounded
<1> QED BY <1>1, <1>3, <1>4 DEF TasksInv, TasksAreBounded

-----------------------------------------------------------------------------
\* The inductive invariant of the connection always holds.
THEOREM Invariance == Spec => []ClientInv
<1>1. Init => ClientInv
  BY TypeInitially, InvInitially DEF ClientInv
<1>2. ClientInv /\ [Next]_vars => ClientInv'
  <2> SUFFICES ASSUME ClientInv, [Next]_vars PROVE ClientInv'
    OBVIOUS
  <2>1. TypeOK'
    <3>1. TypeOK /\ ReplyInv /\ PendingIsAwaited
      BY DEF ClientInv, CallInv
    <3>2. CASE UNCHANGED vars
      BY <3>1, <3>2 DEF TypeOK, vars, calls, serving, records, link
    <3> QED BY <3>1, <3>2, CallTypes, ReaderTypes, AnsweringTypes, ControlTypes
            DEF Next
  <2> QED BY <2>1, CallStep, ReplyStep, TasksStep DEF ClientInv
<1> QED BY <1>1, <1>2, PTL DEF Spec

\* The variables of the connection keep their types.
THEOREM TypeCorrect == Spec => []TypeOK
BY Invariance, PTL DEF ClientInv

\* dispatch() hands an answer to the call that asked, and to no other: ids are
\* not used twice, and a call that gave up has taken its id with it.
THEOREM AnswersReachTheirCalls == Spec => []AnswersMatch
<1>1. ClientInv => AnswersMatch
  BY DEF ClientInv, CallInv
<1> QED BY <1>1, Invariance, PTL

\* call() leaves nothing in _pending, and nothing else takes from it.
THEOREM PendingIsExact == Spec => []PendingIsAwaited
<1>1. ClientInv => PendingIsAwaited
  BY DEF ClientInv, CallInv
<1> QED BY <1>1, Invariance, PTL

\* One reply per request, an acceptance only after its record, and on record
\* as sent only what was sent.
THEOREM RepliesAreOnRecord == Spec => []RepliesOnRecord
<1>1. ClientInv => RepliesOnRecord
  BY DEF ClientInv, ReplyInv
<1> QED BY <1>1, Invariance, PTL

\* dispatch() never has more tasks than max_concurrent_server_requests.
THEOREM TasksStayBounded == Spec => []TasksAreBounded
<1>1. ClientInv => TasksAreBounded
  BY DEF ClientInv, TasksInv
<1> QED BY <1>1, Invariance, PTL

-----------------------------------------------------------------------------
(* CallService.                                                            *)

\* Until it returns a caller has got nothing, and until its message is written
\* the app-server was not sent it; who is answered was sent.
WireInv ==
    /\ \A c \in Callers : call[c] # "returned" => got[c] = "none"
    /\ \A c \in Callers : call[c] = "sending" => \A m \in wire : m.by # c
    /\ \A i \in DOMAIN future :
          future[i] \in Callers => \E m \in wire : m.by = future[i]

\* The calls that are open, and that were sent, as CallService has them.
Open == {c \in Callers : call[c] # "idle" /\ id[c] \in DOMAIN future}
Sent == {m.by : m \in wire}

\* A call is open from its beginning to its return.
LEMMA OpenIsAwaited ==
    ASSUME TypeOK, CallInv
    PROVE  Open = {c \in Callers : call[c] \in {"sending", "waiting"}}
BY DEF TypeOK, CallInv, PendingIsAwaited, Open

\* What leaves the calls alone, except that they may fail, keeps WireInv.
LEMMA OthersKeepWire ==
    ASSUME TypeOK, WireInv, UNCHANGED <<call, got, wire>>,
           UNCHANGED future \/ FailPending
    PROVE  WireInv'
BY FailFacts, SendersDiffer DEF WireInv

\* What the callers were told, as CallService has it.
AllTold == [c \in Callers |-> Told(c)]

\* A step that moves one call tells at most its caller something.
LEMMA TellsOne ==
    ASSUME TypeOK, NEW c \in Callers,
           \A d \in Callers \ {c} : call'[d] = call[d] /\ got'[d] = got[d]
    PROVE  AllTold' = [AllTold EXCEPT ![c] = Told(c)']
BY DEF AllTold, Told

\* Each step of call() keeps WireInv and is a step of CallService.
LEMMA CallsImplement ==
    ASSUME TypeOK, CallInv, TypeOK', CallInv', WireInv, NEW c \in Callers,
           BeginCall(c) \/ Calling(c) \/ CallAbandoned(c)
    PROVE  WireInv' /\ Service!Next
<1> USE DEF serving, link
<1>1. Open = {d \in Callers : call[d] \in {"sending", "waiting"}}
  BY OpenIsAwaited
<1>2. Open' = {d \in Callers : call'[d] \in {"sending", "waiting"}}
  BY DEF TypeOK, CallInv, PendingIsAwaited, Open
<1>3. /\ \A d \in Callers : d \in Sent => call[d] # "idle"
      /\ Sent \subseteq Callers
  BY DEF CallInv, Sent, TypeOK
<1>4. CASE BeginCall(c)
  <2>1. /\ call[c] = "idle" /\ call' = [call EXCEPT ![c] = "sending"]
        /\ UNCHANGED <<got, wire>>
    BY <1>4 DEF BeginCall
  <2>2. /\ DOMAIN future' = DOMAIN future \cup {nextId}
        /\ \A i \in DOMAIN future' :
              future'[i] = IF i = nextId THEN "unset" ELSE future[i]
    BY <1>4 DEF BeginCall, RequestId
  <2>3. WireInv'
    BY <2>1, <2>2, <1>3, SendersDiffer DEF WireInv, Sent, TypeOK
  <2>4. Open' = Open \cup {c} /\ c \notin Open \cup Sent
    BY <1>1, <1>2, <1>3, <2>1 DEF TypeOK
  <2>5. Sent' = Sent /\ AllTold' = AllTold /\ AllTold[c] = "nothing"
    BY <2>1 DEF Sent, AllTold, Told, TypeOK
  <2>6. Service!Ask(c)
    BY <2>4, <2>5 DEF Service!Ask, Open, Sent, AllTold
  <2> QED  BY <2>3, <2>6 DEF Service!Next
<1>5. CASE CallSent(c)
  <2>1. call[c] = "sending"
    BY <1>5 DEF CallSent, Sends, CallInv
  <2>2. /\ call' = [call EXCEPT ![c] = "waiting"]
        /\ wire' = wire \cup {[id |-> id[c], by |-> c]}
        /\ UNCHANGED <<got, future>>
    BY <1>5 DEF CallSent
  <2>3. WireInv'
    <3>1. \A m \in wire' : m \in wire \/ m.by = c
      BY <2>2
    <3>2. \A d \in Callers : call'[d] = IF d = c THEN "waiting" ELSE call[d]
      BY <2>2 DEF TypeOK
    <3> QED  BY <2>1, <2>2, <3>1, <3>2 DEF WireInv
  <2>4. Open' = Open /\ c \in Open \ Sent
    BY <1>1, <1>2, <2>1, <2>2 DEF TypeOK, Sent, WireInv
  <2>5. Sent' = Sent \cup {c}
    <3> DEFINE new == [id |-> id[c], by |-> c]
    <3>1. new.by = c /\ wire' = wire \cup {new}
      BY <2>2
    <3> HIDE DEF new
    <3> QED  BY <3>1 DEF Sent
  <2>6. AllTold' = AllTold
    BY <2>1, <2>2 DEF AllTold, Told, TypeOK
  <2>7. Service!Send(c)
    BY <2>4, <2>5, <2>6 DEF Service!Send, Open, Sent, AllTold
  <2> QED  BY <2>3, <2>7 DEF Service!Next
<1>6. ASSUME call[c] \in {"sending", "waiting"},
             call' = [call EXCEPT ![c] = "returned"], Forget(c),
             Sent' \in {Sent, Sent \cup {c}}, wire \subseteq wire',
             \A m \in wire' : m \in wire \/ m.by = c,
             \A d \in Callers \ {c} : got'[d] = got[d]
      PROVE  /\ WireInv'
             /\ c \in Open
             /\ Open' = Open \ {c}
             /\ AllTold' = [AllTold EXCEPT ![c] = Told(c)']
             /\ Told(c)' = IF got'[c] \in {"none", "lost"} THEN "failure"
                           ELSE got'[c]
  <2>1. \A d \in Callers : call'[d] = IF d = c THEN "returned" ELSE call[d]
    BY <1>6 DEF TypeOK
  <2>2. /\ DOMAIN future' \subseteq DOMAIN future
        /\ \A i \in DOMAIN future' : future'[i] = future[i]
    BY <1>6, ForgetFacts
  <2>3. WireInv'
    <3>1. \A d \in Callers : call'[d] # "returned" => got'[d] = "none"
      BY <1>6, <2>1 DEF WireInv
    <3>2. \A d \in Callers : call'[d] = "sending" => \A m \in wire' : m.by # d
      BY <1>6, <2>1 DEF WireInv
    <3>3. \A i \in DOMAIN future' :
             future'[i] \in Callers => \E m \in wire' : m.by = future'[i]
      BY <1>6, <2>2 DEF WireInv
    <3> QED  BY <3>1, <3>2, <3>3 DEF WireInv
  <2>4. c \in Open /\ Open' = Open \ {c}
    BY <1>1, <1>2, <1>6, <2>1
  <2>5. AllTold' = [AllTold EXCEPT ![c] = Told(c)']
    BY <1>6, <2>1, TellsOne
  <2>6. Told(c)' = IF got'[c] \in {"none", "lost"} THEN "failure" ELSE got'[c]
    BY <2>1 DEF Told
  <2> QED  BY <2>3, <2>4, <2>5, <2>6
<1>7. CASE CallSendFails(c)
  <2>1. call[c] = "sending"
    BY <1>7 DEF CallSendFails, Sends, CallInv
  <2>2. /\ call' = [call EXCEPT ![c] = "returned"] /\ Forget(c)
        /\ UNCHANGED <<got, wire>> /\ Sent' = Sent
    BY <1>7 DEF CallSendFails, Sent
  <2>3. got'[c] = "none"
    BY <2>1, <2>2 DEF WireInv
  <2>4. Service!Fail(c) /\ WireInv'
    BY <1>6, <2>1, <2>2, <2>3
       DEF Service!Fail, Service!Tell, Open, Sent, AllTold
  <2> QED  BY <2>4 DEF Service!Next
<1>8. CASE CallReturns(c)
  <2>1. /\ call[c] = "waiting" /\ future[id[c]] # "unset"
        /\ got' = [got EXCEPT ![c] = future[id[c]]]
        /\ call' = [call EXCEPT ![c] = "returned"] /\ Forget(c)
        /\ wire' = wire /\ Sent' = Sent
    BY <1>8 DEF CallReturns, Sent
  <2>2. id[c] \in DOMAIN future
    BY <2>1 DEF CallInv, PendingIsAwaited
  <2>3. future[id[c]] \in {"lost", c}
    BY <2>1, <2>2 DEF CallInv, TypeOK
  <2>4. got'[c] = future[id[c]] /\ \A d \in Callers \ {c} : got'[d] = got[d]
    BY <2>1 DEF TypeOK
  <2>5. /\ WireInv' /\ c \in Open /\ Open' = Open \ {c}
        /\ AllTold' = [AllTold EXCEPT ![c] = Told(c)']
        /\ Told(c)' = IF got'[c] \in {"none", "lost"} THEN "failure"
                      ELSE got'[c]
    BY <1>6, <2>1, <2>4
  <2>6. CASE future[id[c]] = "lost"
    <3>1. Service!Fail(c)
      BY <2>1, <2>4, <2>5, <2>6
         DEF Service!Fail, Service!Tell, Open, Sent, AllTold
    <3> QED  BY <2>5, <3>1 DEF Service!Next
  <2>7. CASE future[id[c]] = c
    <3>1. c \in Sent
      BY <2>2, <2>7 DEF WireInv, Sent
    <3>2. Told(c)' = c
      BY <2>4, <2>5, <2>7, SendersDiffer
    <3>3. Service!Answer(c)
      BY <2>1, <2>5, <3>1, <3>2
         DEF Service!Answer, Service!Tell, Open, Sent, AllTold
    <3> QED  BY <2>5, <3>3 DEF Service!Next
  <2> QED  BY <2>3, <2>6, <2>7
<1>9. CASE CallAbandoned(c)
  <2>1. /\ call[c] \in {"sending", "waiting"}
        /\ call' = [call EXCEPT ![c] = "returned"] /\ Forget(c)
        /\ got' = got
    BY <1>9 DEF CallAbandoned
  <2>2. wire' = wire \/ wire' = wire \cup {[id |-> id[c], by |-> c]}
    BY <1>9 DEF CallAbandoned
  <2>3. /\ Sent' \in {Sent, Sent \cup {c}} /\ wire \subseteq wire'
        /\ \A m \in wire' : m \in wire \/ m.by = c
    BY <2>2 DEF Sent
  <2>4. got'[c] = "none"
    BY <2>1 DEF WireInv
  <2>5. Service!Fail(c) /\ WireInv'
    BY <1>6, <2>1, <2>3, <2>4
       DEF Service!Fail, Service!Tell, Open, Sent, AllTold
  <2> QED  BY <2>5 DEF Service!Next
<1> QED  BY <1>4, <1>5, <1>7, <1>8, <1>9 DEF Calling

\* Everything else, the answers that arrive and the end of the reader
\* included, changes nothing CallService knows of.
LEMMA OthersStutter ==
    ASSUME ClientInv, WireInv, [Next]_vars,
           \A c \in Callers :
              ~(BeginCall(c) \/ Calling(c) \/ CallAbandoned(c))
    PROVE  WireInv' /\ UNCHANGED <<Open, Sent, AllTold>>
<1> USE DEF ClientInv
<1>1. ASSUME UNCHANGED <<call, id, got, wire>>, DOMAIN future' = DOMAIN future
      PROVE  UNCHANGED <<Open, Sent, AllTold>>
  BY <1>1 DEF Open, Sent, AllTold, Told
<1>2. ASSUME NEW m \in wire, ResponseArrives(m)
      PROVE  WireInv' /\ UNCHANGED <<Open, Sent, AllTold>>
  <2>1. /\ UNCHANGED <<call, id, got, wire>>
        /\ DOMAIN future' = DOMAIN future
        /\ \A i \in DOMAIN future : future'[i] \in {future[i], m.by}
    BY <1>2 DEF ResponseArrives
  <2> QED  BY <1>1, <2>1 DEF WireInv
<1>3. ASSUME UNCHANGED <<call, id, got, wire>>, UNCHANGED future \/ FailPending
      PROVE  WireInv' /\ UNCHANGED <<Open, Sent, AllTold>>
  <2>1. DOMAIN future' = DOMAIN future
    BY <1>3, FailFacts
  <2> QED  BY <1>1, <1>3, <2>1, OthersKeepWire
<1>4. ASSUME NEW r \in Requests,
             RequestArrives(r) \/ RequestRefused(r) \/ RefusalSent(r)
               \/ Answering(r)
      PROVE  UNCHANGED <<call, id, got, wire, future>>
  BY <1>4 DEF RequestArrives, RequestRefused, RefusalSent, Answering, Decide,
              ReplySent, ReplyFails, Discard, calls
<1>5. ASSUME ReaderEnds \/ DrainTimesOut \/ CloseClient
      PROVE  /\ UNCHANGED <<call, id, got, wire>>
             /\ UNCHANGED future \/ FailPending
  BY <1>5 DEF ReaderEnds, DrainTimesOut, CloseClient, calls
<1>6. ASSUME \/ BeginDrain \/ DrainEnds \/ TransportLost \/ UNCHANGED vars
             \/ \E r \in Approvable : Register(r)
      PROVE  UNCHANGED <<call, id, got, wire, future>>
  BY <1>6 DEF BeginDrain, DrainEnds, TransportLost, Register, vars, calls
<1> QED  BY <1>2, <1>3, <1>4, <1>5, <1>6 DEF Next

\* ProtocolClient is CallService to its callers, for any number of calls: the
\* ids, the future by id, the lock, the reader and the time-out that call()
\* is made of hand each caller one answer, its own, or one failure.
THEOREM ImplementsCallService == Spec => CallsHold
<1>1. Init => WireInv /\ Service!Init
  <2> SUFFICES ASSUME Init PROVE WireInv /\ Service!Init
    OBVIOUS
  <2>1. DOMAIN future = {} /\ wire = {}
        /\ \A c \in Callers : call[c] = "idle" /\ got[c] = "none"
    BY DEF Init
  <2> QED  BY <2>1 DEF WireInv, Service!Init, Told
<1>2. ClientInv /\ ClientInv' /\ WireInv /\ [Next]_vars
        => WireInv' /\ [Service!Next]_(Service!callVars)
  <2> SUFFICES ASSUME ClientInv, ClientInv', WireInv, [Next]_vars
               PROVE  WireInv' /\ [Service!Next]_(Service!callVars)
    OBVIOUS
  <2>1. CASE \E c \in Callers : BeginCall(c) \/ Calling(c) \/ CallAbandoned(c)
    BY <2>1, CallsImplement DEF ClientInv
  <2>2. CASE \A c \in Callers :
               ~(BeginCall(c) \/ Calling(c) \/ CallAbandoned(c))
    BY <2>2, OthersStutter DEF Service!callVars, Open, Sent, AllTold
  <2> QED  BY <2>1, <2>2
<1> QED  BY <1>1, <1>2, Invariance, PTL DEF Spec, CallsHold, Service!Spec

-----------------------------------------------------------------------------
(* The lock.  That some sender holds it needs more than that one did: when   *)
(* any of the queue are cancelled, somebody must be first among the rest.   *)

\* Among any senders that queue one is ahead of the others.
FirstOfAny ==
    \A xs \in SUBSET (DOMAIN ahead) :
        xs # {} => \E x \in xs : ahead[x] \cap xs = {}

\* Of two senders that queue one is ahead of the other.
OneBeforeOther ==
    \A x, y \in DOMAIN ahead : x # y => x \in ahead[y] \/ y \in ahead[x]

\* The reader that waits to refuse has a request to refuse.
RefusesOne == reader = "refusing" => \E r \in Requests : request[r] = "refusing"

LockInv == FirstOfAny /\ OneBeforeOther /\ RefusesOne

\* Somebody joins the queue who was not in it, or some leave, or nobody moves.
LEMMA QueueMoves ==
    ASSUME TypeOK, CallInv, ReplyInv, [Next]_vars
    PROVE  \/ UNCHANGED ahead
           \/ \E y \in Senders \ DOMAIN ahead : ahead' = With(y)
           \/ \E xs : ahead' = Without(xs)
<1>1. ASSUME NEW c \in Callers, BeginCall(c)
      PROVE  c \in Senders \ DOMAIN ahead /\ ahead' = With(c)
  BY <1>1 DEF BeginCall, CallInv, Senders
<1>2. ASSUME NEW r \in Requests, RequestRefused(r)
      PROVE  "reader" \in Senders \ DOMAIN ahead /\ ahead' = With("reader")
  BY <1>2 DEF RequestRefused, ReplyInv, Senders
<1>3. ASSUME NEW r \in Requests, Decide(r)
      PROVE  r \in Senders \ DOMAIN ahead /\ ahead' = With(r)
  BY <1>3 DEF Decide, Replies, ReplyInv, Senders
<1>4. ASSUME NEW c \in Callers,
             CallSent(c) \/ CallSendFails(c) \/ CallAbandoned(c)
      PROVE  \E xs : ahead' = Without(xs)
  BY <1>4 DEF CallSent, CallSendFails, CallAbandoned, Unlocked
<1>5. ASSUME NEW r \in Requests,
             RefusalSent(r) \/ ReplySent(r) \/ ReplyFails(r)
      PROVE  \E xs : ahead' = Without(xs)
  BY <1>5 DEF RefusalSent, ReplySent, ReplyFails, Unlocked
<1>6. ASSUME ReaderEnds \/ DrainTimesOut \/ CloseClient
      PROVE  \E xs : ahead' = Without(xs)
  BY <1>6 DEF ReaderEnds, DrainTimesOut, CloseClient, Cancel
<1>7. ASSUME \/ \E c \in Callers : CallReturns(c)
             \/ \E m \in wire : ResponseArrives(m)
             \/ \E r \in Requests : RequestArrives(r) \/ Discard(r)
             \/ \E r \in Approvable : Register(r)
             \/ BeginDrain \/ DrainEnds \/ TransportLost \/ UNCHANGED vars
      PROVE  UNCHANGED ahead
  BY <1>7 DEF CallReturns, ResponseArrives, RequestArrives, Discard, Register,
              BeginDrain, DrainEnds, TransportLost, vars
<1> QED
  BY <1>1, <1>2, <1>3, <1>4, <1>5, <1>6, <1>7 DEF Next, Calling, Answering

\* Whoever joins is behind all, so the first among any stays first.
LEMMA JoiningKeepsOrder ==
    ASSUME TypeOK, FirstOfAny, OneBeforeOther,
           NEW y \in Senders \ DOMAIN ahead, ahead' = With(y)
    PROVE  /\ FirstOfAny' /\ OneBeforeOther'
           /\ \A x \in DOMAIN ahead : ahead'[x] = ahead[x]
<1>1. /\ DOMAIN ahead' = DOMAIN ahead \cup {y}
      /\ \A x \in DOMAIN ahead' :
            ahead'[x] = IF x = y THEN DOMAIN ahead ELSE ahead[x]
  BY DEF With
<1>2. y \notin DOMAIN ahead /\ \A x \in DOMAIN ahead : y \notin ahead[x]
  BY DEF TypeOK
<1>3. ASSUME NEW xs \in SUBSET (DOMAIN ahead'), xs # {}
      PROVE  \E x \in xs : ahead'[x] \cap xs = {}
  <2>1. CASE xs = {y}  BY <1>1, <1>2, <2>1
  <2>2. CASE xs # {y}
    <3>1. xs \ {y} # {} /\ xs \ {y} \in SUBSET (DOMAIN ahead)
      BY <1>1, <1>3, <2>2
    <3>2. PICK x \in xs \ {y} : ahead[x] \cap (xs \ {y}) = {}
      BY <3>1 DEF FirstOfAny
    <3>3. ahead'[x] = ahead[x] /\ y \notin ahead[x]
      BY <1>1, <1>2, <3>1, <3>2
    <3> QED  BY <3>2, <3>3
  <2> QED  BY <2>1, <2>2
<1>4. FirstOfAny'  BY <1>3 DEF FirstOfAny
<1>5. OneBeforeOther'  BY <1>1, <1>2 DEF OneBeforeOther
<1> QED  BY <1>1, <1>2, <1>4, <1>5

\* Whoever leaves, the others keep their order.
LEMMA LeavingKeepsOrder ==
    ASSUME FirstOfAny, OneBeforeOther, NEW xs, ahead' = Without(xs)
    PROVE  /\ FirstOfAny' /\ OneBeforeOther'
           /\ \A x \in DOMAIN ahead' : ahead'[x] \subseteq ahead[x]
<1>1. /\ DOMAIN ahead' = DOMAIN ahead \ xs
      /\ \A x \in DOMAIN ahead' : ahead'[x] = ahead[x] \ xs
  BY DEF Without
<1>2. FirstOfAny'
  <2> SUFFICES ASSUME NEW ys \in SUBSET (DOMAIN ahead'), ys # {}
               PROVE  \E x \in ys : ahead'[x] \cap ys = {}
    BY DEF FirstOfAny
  <2>1. PICK x \in ys : ahead[x] \cap ys = {}
    BY <1>1 DEF FirstOfAny
  <2> QED  BY <1>1, <2>1
<1>3. OneBeforeOther'  BY <1>1 DEF OneBeforeOther
<1> QED  BY <1>1, <1>2, <1>3

\* A reader that waits to refuse keeps its request until it has refused it.
LEMMA RefusalKept ==
    ASSUME TypeOK, ReplyInv, RefusesOne, [Next]_vars
    PROVE  RefusesOne'
<1> SUFFICES ASSUME reader' = "refusing"
             PROVE  \E r \in Requests : request'[r] = "refusing"
  BY DEF RefusesOne
<1>1. ASSUME NEW r \in Requests, RequestRefused(r)
      PROVE  request'[r] = "refusing"
  BY <1>1 DEF RequestRefused, TypeOK
<1>2. ASSUME NEW r \in Requests, RefusalSent(r)
      PROVE  FALSE
  BY <1>2 DEF RefusalSent
<1>3. ASSUME ReaderEnds \/ CloseClient
      PROVE  FALSE
  BY <1>3 DEF ReaderEnds, CloseClient
<1>4. ASSUME reader' = reader,
             \A s \in Requests :
                request[s] = "refusing" => request'[s] = "refusing"
      PROVE  \E s \in Requests : request'[s] = "refusing"
  BY <1>4 DEF RefusesOne
<1>5. ASSUME NEW r \in Requests, RequestArrives(r) \/ Answering(r)
      PROVE  /\ reader' = reader
             /\ \A s \in Requests :
                  request[s] = "refusing" => request'[s] = "refusing"
  BY <1>5, SendersDiffer
     DEF RequestArrives, Answering, Decide, ReplySent, ReplyFails, Discard, link,
         Sends, TypeOK, ReplyInv
<1>6. CASE DrainTimesOut
  <2>1. reader' = reader /\ "reader" \notin draining
    BY <1>6, SendersDiffer DEF DrainTimesOut, TypeOK
  <2>2. \A s \in Requests :
           request[s] = "refusing" => request'[s] = "refusing"
    BY <1>6, <2>1 DEF DrainTimesOut, Cancel, InHand
  <2> QED  BY <2>1, <2>2 DEF RefusesOne
<1>7. ASSUME \/ \E c \in Callers :
                   BeginCall(c) \/ Calling(c) \/ CallAbandoned(c)
             \/ \E m \in wire : ResponseArrives(m)
             \/ \E r \in Approvable : Register(r)
             \/ BeginDrain \/ DrainEnds \/ TransportLost \/ UNCHANGED vars
      PROVE  reader' = reader /\ request' = request
  BY <1>7 DEF BeginCall, Calling, CallSent, CallSendFails, CallReturns,
              CallAbandoned, ResponseArrives, Register, BeginDrain, DrainEnds,
              TransportLost, vars, serving, link
<1> QED
  BY <1>1, <1>2, <1>3, <1>4, <1>5, <1>6, <1>7 DEF Next, RefusesOne

\* The order of the queue, in every state.
LEMMA LockInvHolds == Spec => []LockInv
<1>1. Init => LockInv
  BY DEF Init, LockInv, FirstOfAny, OneBeforeOther, RefusesOne
<1>2. ClientInv /\ LockInv /\ [Next]_vars => LockInv'
  <2> SUFFICES ASSUME ClientInv, LockInv, [Next]_vars
               PROVE  LockInv'
    OBVIOUS
  <2>1. UNCHANGED ahead => FirstOfAny' /\ OneBeforeOther'
    BY DEF LockInv, FirstOfAny, OneBeforeOther
  <2>2. FirstOfAny' /\ OneBeforeOther'
    BY <2>1, QueueMoves, JoiningKeepsOrder, LeavingKeepsOrder
       DEF ClientInv, LockInv
  <2> QED  BY <2>2, RefusalKept DEF ClientInv, LockInv
<1> QED  BY <1>1, <1>2, Invariance, PTL DEF Spec

\* While anybody queues at the send lock one sender holds it, and has
\* something to write: no failure, time-out or cancellation leaves it locked.
THEOREM LockIsNeverLeft == Spec => []LockIsHeld
<1>1. ClientInv /\ LockInv => LockIsHeld
  <2> SUFFICES ASSUME ClientInv, LockInv, DOMAIN ahead # {}
               PROVE  \E x \in DOMAIN ahead :
                         /\ \A y \in DOMAIN ahead : Sends(y) <=> y = x
                         /\ AtWork(x)
    BY DEF LockIsHeld
  <2>1. PICK x \in DOMAIN ahead : ahead[x] \cap DOMAIN ahead = {}
    BY DEF LockInv, FirstOfAny
  <2>2. ahead[x] = {}
    BY <2>1 DEF ClientInv, TypeOK
  <2>3. \A y \in DOMAIN ahead : y # x => ahead[y] # {}
    BY <2>2 DEF LockInv, OneBeforeOther
  <2>4. \A y \in DOMAIN ahead : Sends(y) <=> y = x
    BY <2>2, <2>3 DEF Sends
  <2>5. x \in Callers \cup Requests \cup {"reader"}
    BY DEF ClientInv, TypeOK, Senders
  <2>6. AtWork(x)
    BY <2>5 DEF AtWork, ClientInv, CallInv, ReplyInv, Verdicts, LockInv,
                RefusesOne
  <2> QED  BY <2>4, <2>6
<1> QED  BY <1>1, Invariance, LockInvHolds, PTL

\* The send lock is first come, first served.
THEOREM NobodyIsOvertaken == Spec => NobodyOvertakes
<1> DEFINE A == \A x \in DOMAIN ahead \cap DOMAIN ahead' :
                   ahead'[x] \subseteq ahead[x]
<1>1. ClientInv /\ LockInv /\ [Next]_vars => A
  BY QueueMoves, JoiningKeepsOrder, LeavingKeepsOrder DEF ClientInv, LockInv
<1>2. ClientInv /\ LockInv /\ [Next]_vars => [A]_vars  BY <1>1
<1> QED  BY <1>2, Invariance, LockInvHolds, PTL DEF Spec, NobodyOvertakes
=============================================================================
