-------------------------- MODULE HttpControlProofs --------------------------
(***************************************************************************)
(* Proofs about HttpControl, for any finite set of connections and any     *)
(* limit: the slots are counted right, no poll outlives a stop, and the    *)
(* service ends in order.                                                  *)
(***************************************************************************)
EXTENDS HttpControl, FiniteSetTheorems, TLAPS

\* Once drain() has seen the server idle only late connections hold slots;
\* run() goes past drain() for one of two reasons; and where wait_closed
\* waits, nobody holds a slot behind it.
TeardownInv ==
    /\ idleSeen => InSlot \subseteq late
    /\ phase \notin {"serving", "draining"} => idleSeen \/ hurried
    /\ awaits /\ phase \in {"closed", "exited"} => InSlot = {}
    /\ \A c \in Conns :
         conn[c] = "cut" =>
            phase = "exited" /\ ~awaits /\ (hurried \/ c \in late)

\* A connection whose shutdown() is under way waits for it; one whose
\* shutdown() is over has settled the sessions.
CallersInv ==
    /\ \A c \in Conns :
         shut[c] \in {"announced", "settling"} => conn[c] \in {"shutting", "cut"}
    /\ \A x \in Callers : shut[x] = "done" => settled

HttpInv ==
    /\ TypeOK
    /\ SlotsAreExact
    /\ NoPollOutlivesStop
    /\ TeardownInv
    /\ CallersInv

-----------------------------------------------------------------------------
\* The slots are a finite set: the connections are.
LEMMA SlotsFinite == IsFiniteSet(InSlot)
BY ConnsAssumption, FS_Subset DEF InSlot

\* The counter before and after a slot is taken or freed.
LEMMA SlotTaken ==
    ASSUME NEW c \in Conns, c \notin InSlot,
           inflight = Cardinality(InSlot), inflight < Limit
    PROVE  /\ inflight + 1 = Cardinality(InSlot \cup {c})
           /\ inflight + 1 <= Limit
<1>1. Cardinality(InSlot) \in Nat
  BY SlotsFinite, FS_CardinalityType
<1>2. Cardinality(InSlot \cup {c}) = Cardinality(InSlot) + 1
  BY SlotsFinite, FS_AddElement
<1> QED  BY <1>1, <1>2, LimitAssumption

\* Taking a connection out of its slot leaves room for one more, and no slot
\* is taken when it was the only one.
LEMMA SlotFreed ==
    ASSUME NEW c \in InSlot,
           inflight = Cardinality(InSlot), inflight <= Limit
    PROVE  /\ inflight - 1 = Cardinality(InSlot \ {c})
           /\ inflight - 1 <= Limit
           /\ inflight - 1 \in Nat
           /\ inflight - 1 = 0 <=> InSlot \ {c} = {}
<1>1. Cardinality(InSlot) \in Nat /\ Cardinality(InSlot \ {c}) \in Nat
  BY SlotsFinite, FS_CardinalityType, FS_RemoveElement
<1>2. Cardinality(InSlot \ {c}) = Cardinality(InSlot) - 1
  BY SlotsFinite, FS_RemoveElement
<1>3. Cardinality(InSlot \ {c}) = 0 <=> InSlot \ {c} = {}
  BY SlotsFinite, FS_EmptySet, FS_RemoveElement
<1> QED  BY <1>1, <1>2, <1>3, LimitAssumption

-----------------------------------------------------------------------------
(* Steps of the same shape.                                                *)

\* A connection takes a slot.
LEMMA AcceptKeeps ==
    ASSUME HttpInv, NEW c \in Conns, Accept(c)
    PROVE  HttpInv'
<1> USE DEF HttpInv
<1>1. conn[c] = "none" /\ conn' = [conn EXCEPT ![c] = "reading"]
  BY DEF Accept, Go
<1>2. InSlot' = InSlot \cup {c} /\ c \notin InSlot
  BY <1>1 DEF TypeOK, InSlot, Slotted
<1>3. Running /\ phase' = phase /\ phase \in {"serving", "draining"}
  BY DEF Accept, Listening, Running, teardown
<1>4. TypeOK'
  <2>1. conn' \in [Conns -> {"none"} \cup Slotted \cup Ended]
    BY <1>1 DEF TypeOK, Slotted
  <2>2. inflight' \in Nat
    BY DEF Accept, TypeOK
  <2>3. late' \in SUBSET Conns
    BY DEF Accept, TypeOK
  <2> QED  BY <2>1, <2>2, <2>3 DEF Accept, TypeOK, service, teardown
<1>5. SlotsAreExact'
  <2>1. inflight = Cardinality(InSlot) /\ inflight < Limit
    BY <1>3 DEF SlotsAreExact, Accept
  <2>2. inflight' = inflight + 1 /\ ~idle'
    BY DEF Accept
  <2> QED  BY <1>2, <2>1, <2>2, SlotTaken DEF SlotsAreExact
<1>6. NoPollOutlivesStop'
  BY <1>1 DEF NoPollOutlivesStop, Accept, service, TypeOK
<1>7. TeardownInv'
  BY <1>1, <1>2, <1>3 DEF TeardownInv, Accept, TypeOK, teardown
<1>8. CallersInv'
  BY <1>1 DEF CallersInv, Accept, service, TypeOK
<1> QED  BY <1>4, <1>5, <1>6, <1>7, <1>8

\* A connection gives its slot back.
LEMMA ReleaseKeeps ==
    ASSUME HttpInv, NEW c \in Conns,
           NEW from \in {"polling", "woken", "writing"},
           NEW to \in {"answered", "dropped"},
           Release(c, from, to)
    PROVE  HttpInv'
<1> USE DEF HttpInv
<1>1. conn[c] = from /\ conn' = [conn EXCEPT ![c] = to]
  BY DEF Release, Go
<1>2. InSlot' = InSlot \ {c} /\ c \in InSlot
  BY <1>1 DEF TypeOK, InSlot, Slotted
<1>3. Running /\ phase' = phase
  BY DEF Release
<1>4. inflight = Cardinality(InSlot) /\ inflight <= Limit /\ ~idle
  BY <1>2, <1>3 DEF SlotsAreExact
<1>5. /\ inflight' = Cardinality(InSlot') /\ inflight' <= Limit
      /\ inflight' \in Nat
      /\ idle' <=> InSlot' = {}
  BY <1>2, <1>4, SlotFreed DEF Release, Idle
<1>6. TypeOK'
  BY <1>1, <1>5 DEF Release, TypeOK, Slotted, Ended, service
<1>7. NoPollOutlivesStop'
  BY <1>1 DEF NoPollOutlivesStop, Release, service, TypeOK
<1>8. TeardownInv'
  BY <1>1, <1>2, <1>3, <1>5 DEF TeardownInv, Release, TypeOK
<1>9. CallersInv'
  BY <1>1 DEF CallersInv, Release, service, TypeOK
<1> QED  BY <1>5, <1>6, <1>7, <1>8, <1>9 DEF SlotsAreExact

\* A handler goes on within its slot.
LEMMA ProceedKeeps ==
    ASSUME HttpInv, NEW c \in Conns,
           NEW from \in {"reading", "routing", "polling", "woken"},
           NEW to \in {"routing", "polling", "woken", "writing"},
           to = "polling" => ~stopping,
           Proceed(c, from, to)
    PROVE  HttpInv'
<1> USE DEF HttpInv
<1>1. conn[c] = from /\ conn' = [conn EXCEPT ![c] = to]
  BY DEF Proceed, Go
<1>2. InSlot' = InSlot
  BY <1>1 DEF TypeOK, InSlot, Slotted
<1>3. UNCHANGED <<inflight, idle, late, service, teardown>>
  BY DEF Proceed
<1>4. TypeOK'
  BY <1>1, <1>3 DEF TypeOK, Slotted, service, teardown
<1>5. SlotsAreExact'
  BY <1>2, <1>3 DEF SlotsAreExact, Running, teardown
<1>6. NoPollOutlivesStop'
  BY <1>1, <1>3 DEF NoPollOutlivesStop, service, TypeOK
<1>7. TeardownInv'
  BY <1>1, <1>2, <1>3 DEF TeardownInv, TypeOK, teardown
<1>8. CallersInv'
  BY <1>1, <1>3 DEF CallersInv, service, TypeOK
<1> QED  BY <1>4, <1>5, <1>6, <1>7, <1>8

\* Waking the polls moves nobody in or out of a slot.
LEMMA WokenFacts ==
    ASSUME TypeOK, NEW f \in [Conns -> {"none"} \cup Slotted \cup Ended],
           conn' = Woken(f)
    PROVE  /\ conn' \in [Conns -> {"none"} \cup Slotted \cup Ended]
           /\ InSlot' = {c \in Conns : f[c] \in Slotted}
           /\ \A c \in Conns : /\ conn'[c] # "polling"
                               /\ f[c] # "polling" => conn'[c] = f[c]
                               /\ f[c] = "polling" => conn'[c] = "woken"
BY DEF Woken, InSlot, Slotted, Ended

\* shutdown() is called by a connection or by a signal.
LEMMA CallKeeps ==
    ASSUME HttpInv, NEW x \in Callers, Call(x, conn), x = "signal",
           phase # "exited"
    PROVE  HttpInv'
<1> USE DEF HttpInv
<1>1. /\ conn' = Woken(conn)
      /\ shut' = [shut EXCEPT ![x] = IF Announced THEN "settling"
                                     ELSE "announced"]
      /\ stopping' = (stopping \/ Announced)
      /\ UNCHANGED <<inflight, idle, late, settled, disconnected, teardown>>
  BY DEF Call
<1>2. /\ conn' \in [Conns -> {"none"} \cup Slotted \cup Ended]
      /\ InSlot' = InSlot
      /\ \A c \in Conns : /\ conn'[c] # "polling"
                          /\ conn[c] # "polling" => conn'[c] = conn[c]
                          /\ conn[c] = "polling" => conn'[c] = "woken"
  BY <1>1, WokenFacts DEF TypeOK, InSlot
<1>3. TypeOK'
  BY <1>1, <1>2 DEF TypeOK, teardown, Announced
<1>4. SlotsAreExact'
  BY <1>1, <1>2 DEF SlotsAreExact, Running, teardown
<1>5. NoPollOutlivesStop'
  BY <1>2 DEF NoPollOutlivesStop
<1>6. TeardownInv'
  BY <1>1, <1>2 DEF TeardownInv, teardown
<1>7. CallersInv'
  <2>1. \A c \in Conns : shut'[c] = shut[c]
    BY <1>1, ConnsAssumption DEF TypeOK, Callers
  <2>2. \A y \in Callers : shut'[y] = "done" => shut[y] = "done"
    BY <1>1 DEF TypeOK, Callers
  <2> QED  BY <1>1, <1>2, <2>1, <2>2 DEF CallersInv
<1> QED  BY <1>3, <1>4, <1>5, <1>6, <1>7

\* A connection that asks for the shutdown keeps its slot, and wakes the polls.
LEMMA PostShutdownKeeps ==
    ASSUME HttpInv, NEW c \in Conns, PostShutdown(c)
    PROVE  HttpInv'
<1> USE DEF HttpInv
<1> DEFINE f == [conn EXCEPT ![c] = "shutting"]
<1>1. /\ conn[c] = "reading" /\ Running
      /\ conn' = Woken(f)
      /\ shut' = [shut EXCEPT ![c] = IF Announced THEN "settling"
                                     ELSE "announced"]
      /\ stopping' = (stopping \/ Announced)
      /\ UNCHANGED <<inflight, idle, late, settled, disconnected, teardown>>
  BY DEF PostShutdown, Call
<1>2. /\ f \in [Conns -> {"none"} \cup Slotted \cup Ended]
      /\ \A d \in Conns : f[d] = IF d = c THEN "shutting" ELSE conn[d]
      /\ {d \in Conns : f[d] \in Slotted} = InSlot
  BY <1>1 DEF TypeOK, InSlot, Slotted
<1> HIDE DEF f
<1>3. /\ conn' \in [Conns -> {"none"} \cup Slotted \cup Ended]
      /\ InSlot' = InSlot
      /\ conn'[c] = "shutting"
      /\ \A d \in Conns : /\ conn'[d] # "polling"
                          /\ conn'[d] = "cut" => conn[d] = "cut"
                          /\ d # c /\ conn[d] # "polling" => conn'[d] = conn[d]
  BY <1>1, <1>2, WokenFacts DEF TypeOK
<1>4. TypeOK'
  BY <1>1, <1>3 DEF TypeOK, teardown, Announced, Callers
<1>5. SlotsAreExact'
  BY <1>1, <1>3 DEF SlotsAreExact, Running, teardown
<1>6. NoPollOutlivesStop'
  BY <1>3 DEF NoPollOutlivesStop
<1>7. TeardownInv'
  BY <1>1, <1>3 DEF TeardownInv, teardown
<1>8. CallersInv'
  <2>1. c \in Callers
    BY DEF Callers
  <2>2. \A y \in Callers : y # c => shut'[y] = shut[y]
    BY <1>1 DEF TypeOK
  <2>3. shut'[c] # "done"
    BY <1>1, <2>1 DEF TypeOK
  <2>4. \A d \in Conns : d # c /\ shut[d] \in {"announced", "settling"}
                           => conn'[d] = conn[d]
    BY <1>3 DEF CallersInv
  <2> QED  BY <1>1, <1>3, <2>2, <2>3, <2>4 DEF CallersInv, Callers
<1> QED  BY <1>4, <1>5, <1>6, <1>7, <1>8

\* Setting stopping wakes every poll.
LEMMA SetStoppingKeeps ==
    ASSUME HttpInv, NEW x \in Callers, SetStopping(x)
    PROVE  HttpInv'
<1> USE DEF HttpInv
<1>1. /\ conn' = Woken(conn)
      /\ shut[x] = "announced" /\ shut' = [shut EXCEPT ![x] = "settling"]
      /\ stopping'
      /\ UNCHANGED <<inflight, idle, late, settled, disconnected, teardown>>
  BY DEF SetStopping
<1>2. /\ conn' \in [Conns -> {"none"} \cup Slotted \cup Ended]
      /\ InSlot' = InSlot
      /\ \A c \in Conns : /\ conn'[c] # "polling"
                          /\ conn[c] # "polling" => conn'[c] = conn[c]
                          /\ conn[c] = "polling" => conn'[c] = "woken"
  BY <1>1, WokenFacts DEF TypeOK, InSlot
<1>3. TypeOK'
  BY <1>1, <1>2 DEF TypeOK, teardown, SetStopping
<1>4. SlotsAreExact'
  BY <1>1, <1>2 DEF SlotsAreExact, Running, teardown
<1>5. NoPollOutlivesStop'
  BY <1>2 DEF NoPollOutlivesStop
<1>6. TeardownInv'
  BY <1>1, <1>2 DEF TeardownInv, teardown
<1>7. CallersInv'
  <2>1. \A c \in Conns : shut'[c] \in {"announced", "settling"} =>
            shut[c] \in {"announced", "settling"}
    BY <1>1 DEF TypeOK, Callers
  <2>2. \A y \in Callers : shut'[y] = "done" => shut[y] = "done"
    BY <1>1 DEF TypeOK
  <2> QED  BY <1>1, <1>2, <2>1, <2>2 DEF CallersInv
<1> QED  BY <1>3, <1>4, <1>5, <1>6, <1>7

\* A shutdown() that has settled the sessions hands its connection on.
LEMMA SettleSessionsKeeps ==
    ASSUME HttpInv, NEW x \in Callers, SettleSessions(x)
    PROVE  HttpInv'
<1> USE DEF HttpInv
<1>1. /\ Running
      /\ shut[x] = "settling" /\ shut' = [shut EXCEPT ![x] = "done"]
      /\ settled'
      /\ conn' = IF x \in Conns THEN [conn EXCEPT ![x] = "writing"] ELSE conn
      /\ UNCHANGED <<inflight, idle, late, stopping, disconnected, teardown>>
  BY DEF SettleSessions
<1>2. x \in Conns => conn[x] = "shutting"
  BY <1>1 DEF CallersInv, TeardownInv, Running
<1>3. /\ conn' \in [Conns -> {"none"} \cup Slotted \cup Ended]
      /\ InSlot' = InSlot
      /\ \A c \in Conns : /\ c # x => conn'[c] = conn[c]
                          /\ c = x => conn'[c] = "writing"
  BY <1>1, <1>2 DEF TypeOK, InSlot, Slotted
<1>4. TypeOK'
  BY <1>1, <1>3 DEF TypeOK, teardown, SettleSessions
<1>5. SlotsAreExact'
  BY <1>1, <1>3 DEF SlotsAreExact, Running, teardown
<1>6. NoPollOutlivesStop'
  BY <1>1, <1>3 DEF NoPollOutlivesStop
<1>7. TeardownInv'
  BY <1>1, <1>3 DEF TeardownInv, teardown
<1>8. CallersInv'
  <2>1. \A c \in Conns : shut'[c] = IF c = x THEN "done" ELSE shut[c]
    BY <1>1 DEF TypeOK, Callers
  <2> QED  BY <1>1, <1>3, <2>1 DEF CallersInv
<1> QED  BY <1>4, <1>5, <1>6, <1>7, <1>8

\* The client is gone: what both the loss and the teardown do.
LEMMA DisconnectFacts ==
    ASSUME HttpInv, Disconnect
    PROVE  /\ conn' \in [Conns -> {"none"} \cup Slotted \cup Ended]
           /\ InSlot' = InSlot
           /\ \A c \in Conns : /\ conn'[c] = "polling" => conn[c] = "polling"
                               /\ conn[c] # "polling" => conn'[c] = conn[c]
                               /\ conn'[c] = "cut" => conn[c] = "cut"
           /\ settled => settled'
           /\ settled' \in BOOLEAN /\ disconnected'
           /\ UNCHANGED <<inflight, idle, late, shut, stopping>>
<1> USE DEF HttpInv
<1>1. CASE stopping
  BY <1>1 DEF Disconnect, TypeOK, InSlot
<1>2. CASE ~stopping
  <2>1. conn' = Woken(conn)
    BY <1>2 DEF Disconnect
  <2>2. /\ conn' \in [Conns -> {"none"} \cup Slotted \cup Ended]
        /\ InSlot' = InSlot
        /\ \A c \in Conns : /\ conn'[c] # "polling"
                            /\ conn[c] # "polling" => conn'[c] = conn[c]
                            /\ conn[c] = "polling" => conn'[c] = "woken"
    BY <2>1, WokenFacts DEF TypeOK, InSlot
  <2> QED  BY <1>2, <2>2 DEF Disconnect, TypeOK
<1> QED  BY <1>1, <1>2

\* The steps of run(), and the loss of the app-server, keep HttpInv.
LEMMA RunKeeps ==
    ASSUME HttpInv, RunGoesOn \/ Lose
    PROVE  HttpInv'
<1> USE DEF HttpInv
<1>1. CASE StartDrain
  <2>1. /\ phase = "serving" /\ phase' = "draining" /\ idleSeen' = idle
        /\ UNCHANGED <<server, service, hurried, awaits>>
    BY <1>1 DEF StartDrain
  <2>2. InSlot' = InSlot
    BY <2>1 DEF server, InSlot
  <2>3. idle <=> InSlot = {}
    BY <2>1 DEF SlotsAreExact, Running
  <2> QED
    BY <2>1, <2>2, <2>3 DEF TypeOK, SlotsAreExact, Running, TeardownInv,
       NoPollOutlivesStop, CallersInv, server, service
<1>2. CASE CloseListener \/ DrainTimesOut
  <2>1. /\ phase = "draining" /\ phase' = "unlistening"
        /\ idleSeen \/ hurried'
        /\ hurried => hurried'
        /\ hurried' \in BOOLEAN
        /\ UNCHANGED <<server, service, idleSeen, awaits>>
    BY <1>2 DEF CloseListener, DrainTimesOut, TypeOK
  <2>2. InSlot' = InSlot
    BY <2>1 DEF server, InSlot
  <2> QED
    BY <2>1, <2>2 DEF TypeOK, SlotsAreExact, Running, TeardownInv,
       NoPollOutlivesStop, CallersInv, server, service
<1>3. CASE CloseClient
  <2>1. /\ phase = "unlistening" /\ phase' = "closed"
        /\ awaits => InSlot = {}
        /\ UNCHANGED <<idleSeen, hurried, awaits>>
    BY <1>3 DEF CloseClient
  <2>2. /\ conn' \in [Conns -> {"none"} \cup Slotted \cup Ended]
        /\ InSlot' = InSlot
        /\ \A c \in Conns : /\ conn'[c] = "polling" => conn[c] = "polling"
                            /\ conn[c] # "polling" => conn'[c] = conn[c]
                            /\ conn'[c] = "cut" => conn[c] = "cut"
        /\ settled => settled'
        /\ settled' \in BOOLEAN /\ disconnected' \in BOOLEAN
        /\ UNCHANGED <<inflight, idle, late, shut, stopping>>
    <3>1. CASE disconnected
      BY <1>3, <3>1 DEF CloseClient, server, service, InSlot, TypeOK
    <3>2. CASE ~disconnected
      BY <1>3, <3>2, DisconnectFacts DEF CloseClient
    <3> QED  BY <3>1, <3>2
  <2>3. TypeOK'
    BY <2>1, <2>2 DEF TypeOK
  <2>4. SlotsAreExact'
    BY <2>1, <2>2 DEF SlotsAreExact, Running
  <2>5. NoPollOutlivesStop'
    BY <2>2 DEF NoPollOutlivesStop
  <2>6. TeardownInv'
    BY <2>1, <2>2 DEF TeardownInv
  <2>7. CallersInv'
    BY <2>2 DEF CallersInv
  <2> QED  BY <2>3, <2>4, <2>5, <2>6, <2>7
<1>4. CASE Exit
  <2>1. /\ phase = "closed" /\ phase' = "exited"
        /\ conn' = [c \in Conns |-> IF c \in InSlot THEN "cut" ELSE conn[c]]
        /\ UNCHANGED <<inflight, idle, late, service, idleSeen, hurried, awaits>>
    BY <1>4 DEF Exit
  <2>2. InSlot' = {}
    BY <2>1 DEF InSlot, Slotted, TypeOK
  <2>3. TypeOK'
    BY <2>1 DEF TypeOK, Ended, service
  <2>4. SlotsAreExact'
    BY <2>1 DEF SlotsAreExact, Running
  <2>5. NoPollOutlivesStop'
    BY <2>1 DEF NoPollOutlivesStop, InSlot, Slotted, service
  <2>6. TeardownInv'
    BY <2>1, <2>2 DEF TeardownInv, TypeOK
  <2>7. CallersInv'
    BY <2>1 DEF CallersInv, service, InSlot, Slotted
  <2> QED  BY <2>3, <2>4, <2>5, <2>6, <2>7
<1>5. CASE Lose
  <2>1. UNCHANGED teardown /\ Disconnect
    BY <1>5 DEF Lose
  <2>2. TypeOK'
    BY <2>1, DisconnectFacts DEF TypeOK, teardown
  <2>3. SlotsAreExact'
    BY <2>1, DisconnectFacts DEF SlotsAreExact, Running, teardown
  <2>4. NoPollOutlivesStop'
    BY DisconnectFacts, <2>1 DEF NoPollOutlivesStop
  <2>5. TeardownInv'
    BY <2>1, DisconnectFacts DEF TeardownInv, teardown
  <2>6. CallersInv'
    BY <2>1, DisconnectFacts DEF CallersInv
  <2> QED  BY <2>2, <2>3, <2>4, <2>5, <2>6
<1> QED  BY <1>1, <1>2, <1>3, <1>4, <1>5 DEF RunGoesOn

-----------------------------------------------------------------------------
\* Before the first connection HttpInv holds.
LEMMA HttpInvInit == Init => HttpInv
<1> SUFFICES ASSUME Init PROVE HttpInv
  OBVIOUS
<1>1. InSlot = {}
  BY DEF Init, InSlot, Slotted
<1>2. SlotsAreExact
  BY <1>1, FS_EmptySet, LimitAssumption DEF Init, SlotsAreExact
<1> QED
  BY <1>1, <1>2 DEF Init, HttpInv, TypeOK, NoPollOutlivesStop, TeardownInv,
     CallersInv, Callers

\* Every step keeps HttpInv.
LEMMA HttpInvStep == HttpInv /\ [Next]_vars => HttpInv'
<1> SUFFICES ASSUME HttpInv, [Next]_vars PROVE HttpInv'
  OBVIOUS
<1>1. ASSUME NEW c \in Conns, Accept(c) PROVE HttpInv'
  BY <1>1, AcceptKeeps
<1>2. ASSUME NEW c \in Conns, Refuse(c) PROVE HttpInv'
  <2>1. /\ conn[c] = "none" /\ conn' = [conn EXCEPT ![c] = "refused"]
        /\ UNCHANGED <<inflight, idle, late, service, teardown>>
    BY <1>2 DEF Refuse, Go
  <2>2. InSlot' = InSlot
    BY <2>1 DEF HttpInv, TypeOK, InSlot, Slotted
  <2>3. TypeOK'
    BY <2>1 DEF HttpInv, TypeOK, Ended, service, teardown
  <2>4. SlotsAreExact' /\ TeardownInv'
    BY <2>1, <2>2 DEF HttpInv, TypeOK, SlotsAreExact, Running, TeardownInv,
       teardown
  <2>5. NoPollOutlivesStop' /\ CallersInv'
    BY <2>1 DEF HttpInv, TypeOK, NoPollOutlivesStop, CallersInv, service
  <2> QED  BY <2>3, <2>4, <2>5 DEF HttpInv
<1>3. ASSUME NEW c \in Conns, HandlerGoesOn(c) \/ ReadPlain(c) PROVE HttpInv'
  <2>1. CASE Respond(c)
    BY <2>1, ReleaseKeeps DEF Respond
  <2>2. CASE PollWakes(c)
    BY <2>2, ProceedKeeps DEF PollWakes
  <2>3. CASE ReadEnds(c) \/ Routed(c) \/ PollAnswers(c) \/ ReadPlain(c)
    BY <2>3, ProceedKeeps DEF ReadEnds, Routed, PollAnswers, ReadPlain
  <2> QED  BY <1>3, <2>1, <2>2, <2>3 DEF HandlerGoesOn
<1>4. ASSUME NEW c \in Conns, ReadPoll(c) PROVE HttpInv'
  <2>1. CASE Proceed(c, "reading", PollState)
    <3>1. PollState \in {"polling", "woken"}
      BY DEF PollState
    <3>2. PollState = "polling" => ~stopping
      BY DEF PollState
    <3> QED  BY <2>1, <3>1, <3>2, ProceedKeeps
  <2>2. CASE Proceed(c, "reading", "writing")
    BY <2>2, ProceedKeeps
  <2> QED  BY <1>4, <2>1, <2>2 DEF ReadPoll
<1>5. ASSUME NEW c \in Conns, PostShutdown(c) PROVE HttpInv'
  BY <1>5, PostShutdownKeeps
<1>6. ASSUME NEW c \in Conns, HangUp(c) PROVE HttpInv'
  BY <1>6, ReleaseKeeps DEF HangUp
<1>7. ASSUME NEW x \in Callers, ShutdownGoesOn(x) PROVE HttpInv'
  BY <1>7, SetStoppingKeeps, SettleSessionsKeeps DEF ShutdownGoesOn
<1>8. CASE Signal
  BY <1>8, CallKeeps DEF Signal, Callers
<1>9. CASE Lose \/ RunGoesOn
  BY <1>9, RunKeeps
<1>10. CASE UNCHANGED vars
  BY <1>10 DEF vars, server, service, teardown, HttpInv, TypeOK, Running,
     SlotsAreExact, NoPollOutlivesStop, TeardownInv, CallersInv, InSlot
<1> QED
  BY <1>1, <1>2, <1>3, <1>4, <1>5, <1>6, <1>7, <1>8, <1>9, <1>10 DEF Next

\* The inductive invariant of the HTTP control plane.
THEOREM HttpInvariant == Spec => []HttpInv
BY HttpInvInit, HttpInvStep, PTL DEF Spec

\* Every variable has its type.
THEOREM TypeCorrect == Spec => []TypeOK
<1>1. HttpInv => TypeOK
  BY DEF HttpInv
<1> QED  BY <1>1, HttpInvariant, PTL

\* The in-flight counter and the idle event tell exactly which handlers hold
\* a slot (service.py:758-774, 842-845).
THEOREM SlotsCounted == Spec => []SlotsAreExact
<1>1. HttpInv => SlotsAreExact
  BY DEF HttpInv
<1> QED  BY <1>1, HttpInvariant, PTL

\* A stop wakes every poll, and none sleeps after it (service.py:908-927).
THEOREM PollsEndAtStop == Spec => []NoPollOutlivesStop
<1>1. HttpInv => NoPollOutlivesStop
  BY DEF HttpInv
<1> QED  BY <1>1, HttpInvariant, PTL

\* No early connection is left without its response by a drain() that did not
\* give up, and a shutdown it asked for is complete (service.py:1203-1236).
THEOREM EndIsOrderly == Spec => []OrderlyEnd
<1>1. HttpInv => OrderlyEnd
  <2> SUFFICES ASSUME HttpInv, phase = "exited" PROVE OrderlyEnd
    BY DEF OrderlyEnd
  <2>1. \A c \in Conns :
          conn[c] = "cut" => ~awaits /\ (hurried \/ c \in late)
    BY DEF HttpInv, TeardownInv
  <2>2. ASSUME NEW c \in Conns \ late, shut[c] # "no", ~hurried
        PROVE  settled
    <3>1. CASE shut[c] = "done"
      BY <3>1 DEF HttpInv, CallersInv, Callers
    <3>2. CASE shut[c] \in {"announced", "settling"}
      <4>1. conn[c] \in {"shutting", "cut"}
        BY <3>2 DEF HttpInv, CallersInv
      <4>2. conn[c] # "cut"
        BY <2>1, <2>2
      <4>3. c \in InSlot
        BY <4>1, <4>2 DEF InSlot, Slotted
      <4>4. idleSeen
        BY <2>2 DEF HttpInv, TeardownInv
      <4> QED  BY <2>2, <4>3, <4>4 DEF HttpInv, TeardownInv
    <3> QED  BY <2>2, <3>1, <3>2 DEF HttpInv, TypeOK, Callers
  <2> QED  BY <2>1, <2>2 DEF OrderlyEnd
<1> QED  BY <1>1, HttpInvariant, PTL

-----------------------------------------------------------------------------
(* Shutdown.                                                               *)

\* Every step is one of Shutdown's, or leaves it unchanged.
LEMMA EndingStep ==
    ASSUME TypeOK, [Next]_vars
    PROVE  [Ending!Next]_Ending!ending
<1>1. ASSUME NEW x \in Callers, NEW f, Call(x, f)
      PROVE  Ending!Next
  <2>1. CASE Announced
    <3>1. stopping' = TRUE  BY <1>1, <2>1 DEF Call
    <3>2. Ending!Stop(x)
      BY <1>1, <2>1, <3>1
         DEF Call, Announced, Ending!Stop, Ending!Announced, Ending!Move
    <3> QED  BY <3>2 DEF Ending!Next
  <2>2. CASE ~Announced
    <3>1. stopping' = stopping  BY <1>1, <2>2 DEF Call, TypeOK
    <3>2. Ending!Announce(x)
      BY <1>1, <2>2, <3>1
         DEF Call, Announced, Ending!Announce, Ending!Announced, Ending!Move
    <3> QED  BY <3>2 DEF Ending!Next
  <2> QED  BY <2>1, <2>2
<1>2. \A c \in Conns : PostShutdown(c) => Ending!Next
  BY <1>1 DEF PostShutdown, Callers
<1>3. Signal => Ending!Next
  BY <1>1 DEF Signal, Callers
<1>4. ASSUME NEW x \in Callers, SetStopping(x)
      PROVE  Ending!Next
  <2>1. Ending!Stop(x)
    BY <1>4 DEF SetStopping, Ending!Stop, Ending!Move
  <2> QED  BY <2>1 DEF Ending!Next
<1>5. ASSUME NEW x \in Callers, SettleSessions(x)
      PROVE  Ending!Next
  <2>1. Ending!Finish(x)
    BY <1>5 DEF SettleSessions, Ending!Finish, Ending!Move
  <2> QED  BY <2>1 DEF Ending!Next
<1>6. ASSUME ~disconnected, Disconnect
      PROVE  Ending!Next
  <2>1. Ending!Lose  BY <1>6 DEF Disconnect, Ending!Lose
  <2> QED  BY <2>1 DEF Ending!Next
<1>7. Lose \/ CloseClient => Ending!Next \/ UNCHANGED Ending!ending
  BY <1>6 DEF Lose, CloseClient, service, Ending!ending
<1>8. ASSUME NEW c \in Conns,
             \/ Accept(c) \/ Refuse(c) \/ HandlerGoesOn(c)
             \/ ReadPlain(c) \/ ReadPoll(c) \/ HangUp(c)
      PROVE  UNCHANGED Ending!ending
  BY <1>8 DEF Accept, Refuse, HandlerGoesOn, ReadEnds, Routed, PollWakes,
              PollAnswers, Respond, ReadPlain, ReadPoll, HangUp, Proceed,
              Release, service, Ending!ending
<1>9. ASSUME \/ StartDrain \/ CloseListener \/ DrainTimesOut \/ Exit
             \/ UNCHANGED vars
      PROVE  UNCHANGED Ending!ending
  BY <1>9 DEF StartDrain, CloseListener, DrainTimesOut, Exit, vars, service,
              Ending!ending
<1> QED
  BY <1>2, <1>3, <1>4, <1>5, <1>7, <1>8, <1>9
     DEF Next, ShutdownGoesOn, RunGoesOn

\* The shutdown() that connections, the signal and run() see is the one
\* SessionService implements.
THEOREM ImplementsShutdown == Spec => ShutdownHolds
<1>1. Init => Ending!Init
  BY DEF Init, Ending!Init
<1>2. TypeOK /\ [Next]_vars => [Ending!Next]_Ending!ending
  BY EndingStep
<1> QED
  BY <1>1, <1>2, TypeCorrect, PTL DEF Spec, ShutdownHolds, Ending!Spec
=============================================================================
