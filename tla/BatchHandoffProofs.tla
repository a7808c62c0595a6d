------------------------ MODULE BatchHandoffProofs ------------------------
(***************************************************************************)
(* Proofs about BatchHandoff for every number of clients and batch size:   *)
(* no handle is lost, and the handoff is complete but for the sessions a   *)
(* batch started before its last one.                                      *)
(***************************************************************************)
EXTENDS BatchHandoff, TLAPS

\* Where a request is in its list, and what that says of its current session.
Position ==
    \A c \in Clients :
        /\ phase[c] = "idle" => index[c] = 0
        /\ phase[c] # "idle" => index[c] \in 1..Size[c]
        /\ phase[c] = "thread/start" => state[Current(c)] = "none"
        /\ phase[c] \in {"thread/start", "turn/start"} =>
              Current(c) \notin before[c]

\* What lies ahead does not exist yet; what lies behind has its handle.
Progress ==
    \A c \in Clients : \A i \in 1..Size[c] :
        /\ i > index[c] => state[<<c, i>>] = "none"
        /\ i < index[c] /\ state[<<c, i>>] # "none" =>
              \E h \in created[c] : h.session = <<c, i>>

\* A handle is of a session that exists; the first one is collected when the
\* first start is over.
Handles ==
    \A c \in Clients :
        /\ \A h \in created[c] : state[h.session] # "none"
        /\ index[c] <= 1 /\ phase[c] # "answered" => created[c] = {}

\* Between its two awaits a start has a registered session.
Active ==
    \A c \in Clients :
        phase[c] = "turn/start" => state[Current(c)] # "none"

\* The inductive invariant.
BatchInv ==
    /\ TypeOK /\ Position /\ Progress /\ Handles /\ Active /\ NoHandleLost

USE SizeAssumption, ClientsAssumption

\* A longer run of positions has the shorter one in it.
LEMMA RangeGrows ==
    ASSUME NEW m \in Nat, NEW n \in Nat, m <= n
    PROVE  0..m - 1 \subseteq 0..n - 1
OBVIOUS

\* Every position of a batch is a session.
LEMMA SessionsAre ==
    ASSUME NEW c \in Clients
    PROVE  /\ Size[c] \in Nat \ {0}
           /\ \A i \in 1..Size[c] : <<c, i>> \in Sessions
BY DEF Sessions

\* Before the first request the invariant holds.
LEMMA InitHolds == Init => BatchInv
<1> SUFFICES ASSUME Init PROVE BatchInv
  OBVIOUS
<1>1. TypeOK
  <2>1. \A c \in Clients : index[c] <= Size[c]
    BY SessionsAre DEF Init
  <2>2. /\ told \in [Sessions -> 0..next - 1]
        /\ cursor \in [Clients -> 0..next - 1]
        /\ state \in [Sessions -> States]
    BY DEF Init, States
  <2>3. /\ before \in [Clients -> SUBSET Sessions]
        /\ created \in [Clients -> SUBSET [session: Sessions, state: States]]
    BY DEF Init
  <2>4. /\ phase \in
             [Clients -> {"idle", "thread/start", "turn/start", "answered"}]
        /\ index \in [Clients -> Nat]
    BY DEF Init
  <2>5. next \in Nat \ {0}
    BY DEF Init
  <2>6. lost \in BOOLEAN
    BY DEF Init
  <2> QED BY <2>1, <2>2, <2>3, <2>4, <2>5, <2>6 DEF TypeOK
<1>2. Position /\ Handles /\ Active /\ NoHandleLost
  BY DEF Init, Position, Handles, Active, NoHandleLost, Clients
<1>3. Progress
  BY SessionsAre DEF Init, Progress
<1> QED BY <1>1, <1>2, <1>3 DEF BatchInv

\* While a request is served, the session it is at is one of its own.
LEMMA CurrentIs ==
    ASSUME BatchInv, NEW c \in Clients, phase[c] # "idle"
    PROVE  /\ index[c] \in 1..Size[c]
           /\ Current(c) = <<c, index[c]>>
           /\ Current(c) \in Sessions
BY SessionsAre DEF BatchInv, Position, Current

\* A new request keeps the invariant.
LEMMA PostPreserves ==
    ASSUME BatchInv, NEW c \in Clients, Post(c)
    PROVE  BatchInv'
<1> USE DEF Post, BeginStart
<1>1. index[c] = 0 /\ Size[c] \in Nat \ {0} /\ index'[c] = 1
  BY SessionsAre DEF BatchInv, Position, TypeOK
<1>2. TypeOK'
  <2>1. index' \in [Clients -> Nat] /\ \A d \in Clients : index'[d] <= Size[d]
    BY <1>1 DEF BatchInv, TypeOK
  <2> QED BY <2>1 DEF BatchInv, TypeOK
<1>3. state'[<<c, 1>>] = "none"
  BY <1>1 DEF BatchInv, Progress
<1>4. Position'
  BY <1>1, <1>3 DEF BatchInv, Position, TypeOK, Current
<1>5. Progress'
  <2> SUFFICES ASSUME NEW d \in Clients, NEW i \in 1..Size[d]
               PROVE  /\ i > index'[d] => state[<<d, i>>] = "none"
                      /\ i < index'[d] /\ state[<<d, i>>] # "none" =>
                           \E h \in created'[d] : h.session = <<d, i>>
    BY DEF Progress
  <2>1. CASE d = c
    BY <2>1, <1>1, SessionsAre DEF BatchInv, Progress
  <2>2. CASE d # c
    BY <2>2 DEF BatchInv, Progress, TypeOK
  <2> QED BY <2>1, <2>2
<1>6. Handles'
  BY <1>1 DEF BatchInv, Handles, TypeOK
<1>7. NoHandleLost'
  BY DEF BatchInv, NoHandleLost, Registered, TypeOK, Clients
<1>8. Active'
  BY DEF BatchInv, Active, Current, TypeOK
<1> QED BY <1>2, <1>4, <1>5, <1>6, <1>7, <1>8 DEF BatchInv

\* Registering a session keeps the invariant.
LEMMA ThreadStartedPreserves ==
    ASSUME BatchInv, NEW c \in Clients, ThreadStarted(c)
    PROVE  BatchInv'
<1> USE DEF ThreadStarted
<1>1. /\ index[c] \in 1..Size[c]
      /\ Current(c) = <<c, index[c]>>
      /\ Current(c) \in Sessions
      /\ state[Current(c)] = "none"
  BY CurrentIs DEF BatchInv, Position
<1>2. TypeOK'
  BY DEF BatchInv, TypeOK, States
<1>3. \A d \in Clients : Current(d)' = Current(d)
  BY DEF Current
<1>4. Position'
  <2> SUFFICES ASSUME NEW d \in Clients
               PROVE  /\ phase'[d] = "idle" => index[d] = 0
                      /\ phase'[d] # "idle" => index[d] \in 1..Size[d]
                      /\ phase'[d] = "thread/start" => state'[Current(d)] = "none"
                      /\ phase'[d] \in {"thread/start", "turn/start"} =>
                            Current(d) \notin before[d]
    BY <1>3 DEF Position
  <2>1. CASE d = c
    BY <2>1, <1>1 DEF BatchInv, TypeOK, Position
  <2>2. CASE d # c
    <3>1. Current(d) # Current(c)
      BY <2>2 DEF Current
    <3> QED BY <2>2, <3>1 DEF BatchInv, TypeOK, Position
  <2> QED BY <2>1, <2>2
<1>5. \A s \in Sessions : s # Current(c) => state'[s] = state[s]
  BY DEF BatchInv, TypeOK
<1>6. Progress'
  <2> SUFFICES ASSUME NEW d \in Clients, NEW i \in 1..Size[d]
               PROVE  /\ i > index[d] => state'[<<d, i>>] = "none"
                      /\ i < index[d] /\ state'[<<d, i>>] # "none" =>
                           \E h \in created[d] : h.session = <<d, i>>
    BY DEF Progress
  <2>1. i # index[d] => <<d, i>> # Current(c)
    BY <1>1
  <2>2. i # index[d] => state'[<<d, i>>] = state[<<d, i>>]
    BY <2>1, <1>5, SessionsAre
  <2>3. i \in Nat /\ index[d] \in Nat
    BY DEF BatchInv, TypeOK
  <2>4. /\ i > index[d] => state[<<d, i>>] = "none"
        /\ i < index[d] /\ state[<<d, i>>] # "none" =>
             \E h \in created[d] : h.session = <<d, i>>
    BY DEF BatchInv, Progress
  <2> QED BY <2>2, <2>3, <2>4
<1>7. Handles'
  BY <1>1 DEF BatchInv, Handles, TypeOK
<1>8. NoHandleLost'
  <2> SUFFICES ASSUME NEW d \in Batches, NEW i \in 1..Size[d],
                      phase'[d] = "answered", <<d, i>> \in Registered'
               PROVE  \E h \in created[d] : h.session = <<d, i>>
    BY DEF NoHandleLost
  <2>1. d \in Clients /\ d # c /\ phase[d] = "answered"
    BY DEF Clients, BatchInv, TypeOK
  <2>2. <<d, i>> \in Registered
    BY <2>1, <1>1, <1>5, SessionsAre DEF Registered
  <2> QED BY <2>1, <2>2 DEF BatchInv, NoHandleLost
<1>9. Active'
  BY <1>1, <1>3 DEF BatchInv, Active, TypeOK
<1> QED BY <1>2, <1>4, <1>6, <1>7, <1>8, <1>9 DEF BatchInv

\* What the event of a step does to the numbering.
Numbered ==
    /\ told' \in [Sessions -> 0..next' - 1]
    /\ next' \in {next, next + 1}
    /\ state' \in [Sessions -> States]
    /\ lost' \in BOOLEAN

\* A response keeps the invariant if it adds the current session, should that
\* exist, to the handles collected so far.
LEMMA RespondPreserves ==
    ASSUME BatchInv, NEW c \in Clients, phase[c] \in {"thread/start", "turn/start"},
           NEW handles \in SUBSET [session: Sessions, state: States],
           Respond(c, handles), Numbered,
           created[c] \subseteq handles,
           \A s \in Sessions : s # Current(c) => state'[s] = state[s],
           \A h \in handles : state'[h.session] # "none",
           c \in Batches /\ state'[Current(c)] # "none" =>
              \E h \in handles : h.session = Current(c),
           state[Current(c)] # "none" => state'[Current(c)] # "none"
    PROVE  BatchInv'
<1> USE DEF Respond, EventCursor
<1>1. /\ index[c] \in 1..Size[c]
      /\ Current(c) = <<c, index[c]>>
      /\ Current(c) \in Sessions
  BY CurrentIs
<1>2. TypeOK'
  <2>1. next \in Nat \ {0} /\ next' \in Nat \ {0} /\ next <= next'
    BY DEF BatchInv, TypeOK, Numbered
  <2>2. cursor' \in [Clients -> 0..next' - 1]
    <3>1. 0..next - 1 \subseteq 0..next' - 1
      BY <2>1, RangeGrows
    <3>2. cursor \in [Clients -> 0..next' - 1]
      BY <3>1 DEF BatchInv, TypeOK
    <3>3. next' - 1 \in 0..next' - 1
      BY <2>1
    <3> QED BY <3>2, <3>3
  <2>3. created' \in [Clients -> SUBSET [session: Sessions, state: States]]
    BY DEF BatchInv, TypeOK
  <2>4. phase' \in [Clients -> {"idle", "thread/start", "turn/start", "answered"}]
    BY DEF BatchInv, TypeOK
  <2> QED BY <2>1, <2>2, <2>3, <2>4 DEF BatchInv, TypeOK, Numbered
<1>3. Position'
  <2> SUFFICES ASSUME NEW d \in Clients
               PROVE  /\ phase'[d] = "idle" => index[d] = 0
                      /\ phase'[d] # "idle" => index[d] \in 1..Size[d]
                      /\ phase'[d] = "thread/start" => state'[Current(d)] = "none"
                      /\ phase'[d] \in {"thread/start", "turn/start"} =>
                            Current(d) \notin before[d]
    BY DEF Position, Current
  <2>1. CASE d = c
    BY <2>1, <1>1 DEF BatchInv, TypeOK
  <2>2. CASE d # c /\ phase[d] = "idle"
    BY <2>2 DEF BatchInv, TypeOK, Position
  <2>3. CASE d # c /\ phase[d] # "idle"
    <3>1. Current(d) # Current(c) /\ Current(d) \in Sessions
      BY <2>3, CurrentIs DEF Current
    <3> QED BY <2>3, <3>1 DEF BatchInv, TypeOK, Position
  <2> QED BY <2>1, <2>2, <2>3
<1>4. Progress'
  <2> SUFFICES ASSUME NEW d \in Clients, NEW i \in 1..Size[d]
               PROVE  /\ i > index[d] => state'[<<d, i>>] = "none"
                      /\ i < index[d] /\ state'[<<d, i>>] # "none" =>
                           \E h \in created'[d] : h.session = <<d, i>>
    BY DEF Progress
  <2>1. i # index[d] => state'[<<d, i>>] = state[<<d, i>>]
    BY <1>1, SessionsAre
  <2>2. i \in Nat /\ index[d] \in Nat
    BY DEF BatchInv, TypeOK
  <2>3. /\ i > index[d] => state[<<d, i>>] = "none"
        /\ i < index[d] /\ state[<<d, i>>] # "none" =>
             \E h \in created[d] : h.session = <<d, i>>
    BY DEF BatchInv, Progress
  <2>4. created[d] \subseteq created'[d]
    BY DEF BatchInv, TypeOK
  <2> QED BY <2>1, <2>2, <2>3, <2>4
<1>5. Handles'
  <2> SUFFICES ASSUME NEW d \in Clients
               PROVE  /\ \A h \in created'[d] : state'[h.session] # "none"
                      /\ index[d] <= 1 /\ phase'[d] # "answered" =>
                            created'[d] = {}
    BY DEF Handles
  <2>1. CASE d = c
    BY <2>1 DEF BatchInv, TypeOK
  <2>2. CASE d # c
    <3>1. created'[d] = created[d] /\ phase'[d] = phase[d]
      BY <2>2 DEF BatchInv, TypeOK
    <3>2. \A h \in created[d] : h.session \in Sessions
      BY DEF BatchInv, TypeOK
    <3> QED BY <3>1, <3>2 DEF BatchInv, Handles
  <2> QED BY <2>1, <2>2
<1>6. NoHandleLost'
  <2> SUFFICES ASSUME NEW d \in Batches, NEW i \in 1..Size[d],
                      phase'[d] = "answered", <<d, i>> \in Registered'
               PROVE  \E h \in created'[d] : h.session = <<d, i>>
    BY DEF NoHandleLost
  <2>1. d \in Clients /\ i \in Nat
    BY DEF Clients
  <2>2. state'[<<d, i>>] # "none"
    BY DEF Registered
  <2>3. CASE d = c
    <3>1. CASE i = index[c]
      BY <2>2, <2>3, <3>1, <1>1 DEF BatchInv, TypeOK
    <3>2. CASE i # index[c]
      <4>1. state[<<c, i>>] # "none"
        BY <2>1, <2>2, <2>3, <3>2, <1>1, SessionsAre
      <4>2. i < index[c]
        BY <2>1, <2>3, <3>2, <4>1, <1>1 DEF BatchInv, Progress
      <4>3. \E h \in created[c] : h.session = <<c, i>>
        BY <2>1, <2>3, <4>1, <4>2 DEF BatchInv, Progress
      <4> QED BY <2>3, <4>3 DEF BatchInv, TypeOK
    <3> QED BY <3>1, <3>2
  <2>4. CASE d # c
    <3>1. state[<<d, i>>] # "none" /\ phase[d] = "answered"
      BY <2>1, <2>2, <2>4, <1>1, SessionsAre DEF BatchInv, TypeOK
    <3>2. <<d, i>> \in Registered
      BY <2>1, <3>1, SessionsAre DEF Registered
    <3> QED BY <2>1, <2>4, <3>1, <3>2 DEF BatchInv, NoHandleLost, TypeOK
  <2> QED BY <2>3, <2>4
<1>7. Active'
  <2> SUFFICES ASSUME NEW d \in Clients, phase'[d] = "turn/start"
               PROVE  state'[Current(d)] # "none"
    BY DEF Active, Current
  <2>1. d # c /\ phase[d] = "turn/start"
    BY DEF BatchInv, TypeOK
  <2>2. Current(d) \in Sessions /\ Current(d) # Current(c)
    BY <2>1, CurrentIs DEF Current
  <2> QED BY <2>1, <2>2 DEF BatchInv, Active
<1> QED BY <1>2, <1>3, <1>4, <1>5, <1>6, <1>7 DEF BatchInv

\* The event of a step with one announcement, or none.
LEMMA Numbering ==
    ASSUME BatchInv, state' \in [Sessions -> States], lost' \in BOOLEAN,
           \/ UNCHANGED <<told, next>>
           \/ \E s \in Sessions : Announce(s)
           \/ /\ next' = next + 1
              /\ \A s \in Sessions : told'[s] \in {told[s], next}
              /\ told' \in [Sessions -> Nat]
    PROVE  Numbered
<1>1. next \in Nat \ {0}
  BY DEF BatchInv, TypeOK
<1>2. told \in [Sessions -> 0..next - 1]
  BY DEF BatchInv, TypeOK
<1>3. next' \in {next, next + 1}
  BY DEF Announce
<1>4. 0..next - 1 \subseteq 0..next' - 1
  <2>1. next' \in Nat /\ next <= next'
    BY <1>1, <1>3
  <2> QED BY <1>1, <2>1, RangeGrows
<1>5. told' \in [Sessions -> 0..next' - 1]
  <2>1. CASE UNCHANGED <<told, next>>
    BY <2>1, <1>2
  <2>2. ASSUME NEW s \in Sessions, Announce(s)
        PROVE  told' \in [Sessions -> 0..next' - 1]
    <3>1. next \in 0..next' - 1
      BY <2>2, <1>1 DEF Announce
    <3>2. told \in [Sessions -> 0..next' - 1]
      BY <1>2, <1>4
    <3> QED BY <2>2, <3>1, <3>2 DEF Announce
  <2>3. ASSUME next' = next + 1,
               \A s \in Sessions : told'[s] \in {told[s], next},
               told' \in [Sessions -> Nat]
        PROVE  told' \in [Sessions -> 0..next' - 1]
    <3>1. \A s \in Sessions : told'[s] \in 0..next' - 1
      BY <2>3, <1>1, <1>2
    <3> QED BY <2>3, <3>1
  <2> QED BY <2>1, <2>2, <2>3
<1> QED BY <1>3, <1>5 DEF Numbered

\* Steps in which sessions that exist change, and no request moves.
LEMMA SettlePreserves ==
    ASSUME BatchInv, Numbered, UNCHANGED request,
           \A s \in Sessions : state'[s] = "none" <=> state[s] = "none"
    PROVE  BatchInv'
<1> USE DEF request
<1>1. TypeOK'
  <2>1. next \in Nat \ {0} /\ next' \in Nat \ {0} /\ next <= next'
    BY DEF BatchInv, TypeOK, Numbered
  <2>2. 0..next - 1 \subseteq 0..next' - 1
    BY <2>1, RangeGrows
  <2>3. cursor' \in [Clients -> 0..next' - 1]
    BY <2>2 DEF BatchInv, TypeOK
  <2> QED BY <2>1, <2>3 DEF BatchInv, TypeOK, Numbered
<1>2. Position'
  BY CurrentIs DEF BatchInv, Position, Current
<1>3. Progress'
  BY SessionsAre DEF BatchInv, Progress
<1>4. Handles'
  BY DEF BatchInv, Handles, TypeOK
<1>5. NoHandleLost'
  BY SessionsAre DEF BatchInv, NoHandleLost, Registered, Clients
<1>6. Active'
  BY CurrentIs DEF BatchInv, Active, Current
<1> QED BY <1>1, <1>2, <1>3, <1>4, <1>5, <1>6 DEF BatchInv

\* A failed thread/start, and the response it leads to, keep the invariant.
LEMMA ThreadFailedPreserves ==
    ASSUME BatchInv, NEW c \in Clients, ThreadFailed(c)
    PROVE  BatchInv'
<1> DEFINE handles == created[c] \cup Leftovers(c)
<1>1. Numbered
  BY Numbering DEF ThreadFailed, BatchInv, TypeOK
<1>2. state[Current(c)] = "none" /\ state' = state
  BY DEF ThreadFailed, BatchInv, Position
<1>3. handles \in SUBSET [session: Sessions, state: States]
  BY <1>2 DEF Leftovers, Handle, BatchInv, TypeOK
<1>4. \A h \in handles : state'[h.session] # "none"
  BY <1>2 DEF Leftovers, Handle, BatchInv, Handles
<1>5. phase[c] \in {"thread/start", "turn/start"} /\ Respond(c, handles)
  BY DEF ThreadFailed
<1> HIDE DEF handles
<1>6. created[c] \subseteq handles
  BY DEF handles
<1> QED BY <1>1, <1>2, <1>3, <1>4, <1>5, <1>6, RespondPreserves

\* A failed turn/start, and the response it leads to, keep the invariant.
LEMMA TurnFailedPreserves ==
    ASSUME BatchInv, NEW c \in Clients, TurnFailed(c)
    PROVE  BatchInv'
<1> DEFINE handles == created[c] \cup Leftovers(c)
<1>1. /\ Current(c) \in Sessions
      /\ Current(c) \notin before[c]
  BY CurrentIs DEF TurnFailed, BatchInv, Position
<1>2. /\ state' = [state EXCEPT ![Current(c)] = "failed"]
      /\ state' \in [Sessions -> States]
  BY DEF TurnFailed, BatchInv, TypeOK, States
<1>3. Numbered
  <2>1. lost' \in BOOLEAN
    BY DEF TurnFailed, BatchInv, TypeOK
  <2> QED BY <1>1, <1>2, <2>1, Numbering DEF TurnFailed
<1>4. state'[Current(c)] = "failed" /\
      \A s \in Sessions : s # Current(c) => state'[s] = state[s]
  BY <1>1, <1>2 DEF BatchInv, TypeOK
<1>5. handles \in SUBSET [session: Sessions, state: States]
  BY <1>2 DEF Leftovers, Handle, BatchInv, TypeOK
<1>6. \A h \in handles : state'[h.session] # "none"
  BY <1>4 DEF Leftovers, Handle, BatchInv, Handles, TypeOK
<1>7. phase[c] \in {"thread/start", "turn/start"} /\ Respond(c, handles)
  BY DEF TurnFailed
<1>8. c \in Batches => \E h \in handles : h.session = Current(c)
  <2> SUFFICES ASSUME c \in Batches
               PROVE  Handle(Current(c)) \in Leftovers(c)
    BY DEF Handle
  <2>1. c \notin Singles
    OBVIOUS
  <2> QED BY <2>1, <1>1, <1>4 DEF Leftovers
<1> HIDE DEF handles
<1>9. created[c] \subseteq handles
  BY DEF handles
<1> QED BY <1>3, <1>4, <1>5, <1>6, <1>7, <1>8, <1>9, RespondPreserves

\* The next start of the batch, or its response, keep the invariant.
LEMMA TurnStartedPreserves ==
    ASSUME BatchInv, NEW c \in Clients, TurnStarted(c)
    PROVE  BatchInv'
<1> DEFINE handles == created[c] \cup {Handle(Current(c))}
<1>1. /\ index[c] \in 1..Size[c]
      /\ Current(c) = <<c, index[c]>>
      /\ Current(c) \in Sessions
      /\ Size[c] \in Nat
  BY CurrentIs, SessionsAre DEF TurnStarted
<1>2. state' = state /\ phase[c] = "turn/start" /\ lost' = lost
  BY DEF TurnStarted
<1>3. Numbered
  BY <1>1, <1>2, Numbering DEF TurnStarted, BatchInv, TypeOK
<1>4. handles \in SUBSET [session: Sessions, state: States]
  BY <1>1, <1>2 DEF Handle, BatchInv, TypeOK
<1>5. state[Current(c)] # "none"
  BY <1>2 DEF BatchInv, Active
<1>6. \A h \in handles : state'[h.session] # "none"
  BY <1>2, <1>5 DEF Handle, BatchInv, Handles
<1>7. created[c] \subseteq handles /\ \E h \in handles : h.session = Current(c)
  <2>1. Handle(Current(c)).session = Current(c)
    BY DEF Handle
  <2> QED BY <2>1
<1>8. \/ Respond(c, handles)
      \/ index[c] < Size[c] /\ BeginStart(c, handles)
  BY DEF TurnStarted
<1> HIDE DEF handles
<1>9. CASE Respond(c, handles)
  BY <1>2, <1>3, <1>4, <1>5, <1>6, <1>7, <1>9, RespondPreserves
<1>10. CASE index[c] < Size[c] /\ BeginStart(c, handles)
  <2> USE DEF BeginStart
  <2>1. /\ index'[c] = index[c] + 1 /\ index'[c] \in 1..Size[c]
        /\ index[c] \in Nat
    BY <1>1, <1>10 DEF BatchInv, TypeOK
  <2>2. state[<<c, index'[c]>>] = "none"
    BY <2>1, <1>10 DEF BatchInv, Progress
  <2>3. TypeOK'
    <3>1. next \in Nat \ {0} /\ next' \in Nat \ {0} /\ next <= next'
      BY <1>3 DEF BatchInv, TypeOK, Numbered
    <3>2. 0..next - 1 \subseteq 0..next' - 1
      BY <3>1, RangeGrows
    <3>3. cursor' \in [Clients -> 0..next' - 1]
      BY <3>2, <1>10 DEF BatchInv, TypeOK
    <3>4. index' \in [Clients -> Nat] /\ \A d \in Clients : index'[d] <= Size[d]
      BY <2>1, <1>10 DEF BatchInv, TypeOK
    <3>5. /\ created' \in [Clients -> SUBSET [session: Sessions, state: States]]
          /\ before' \in [Clients -> SUBSET Sessions]
          /\ phase' \in
               [Clients -> {"idle", "thread/start", "turn/start", "answered"}]
      BY <1>4, <1>10 DEF BatchInv, TypeOK
    <3> QED BY <3>1, <3>3, <3>4, <3>5, <1>3 DEF Numbered, TypeOK
  <2>4. Position'
    BY <2>1, <2>2, <1>2, <1>10 DEF BatchInv, Position, TypeOK, Current
  <2>5. Progress'
    <3> SUFFICES ASSUME NEW d \in Clients, NEW i \in 1..Size[d]
                 PROVE  /\ i > index'[d] => state[<<d, i>>] = "none"
                        /\ i < index'[d] /\ state[<<d, i>>] # "none" =>
                             \E h \in created'[d] : h.session = <<d, i>>
      BY <1>2 DEF Progress
    <3>1. CASE d # c
      BY <3>1, <1>10 DEF BatchInv, Progress, TypeOK
    <3>2. CASE d = c
      <4>1. i > index'[c] => i > index[c]
        BY <2>1, <3>2
      <4>2. i < index'[c] => i < index[c] \/ i = index[c]
        BY <2>1, <3>2
      <4>3. created'[c] = handles
        BY <1>10 DEF BatchInv, TypeOK
      <4> QED BY <3>2, <4>1, <4>2, <4>3, <1>1, <1>7 DEF BatchInv, Progress
    <3> QED BY <3>1, <3>2
  <2>6. Handles'
    <3> SUFFICES ASSUME NEW d \in Clients
                 PROVE  /\ \A h \in created'[d] : state[h.session] # "none"
                        /\ index'[d] <= 1 /\ phase'[d] # "answered" =>
                              created'[d] = {}
      BY <1>2 DEF Handles
    <3>1. CASE d = c
      BY <3>1, <2>1, <1>1, <1>2, <1>6, <1>10 DEF BatchInv, TypeOK
    <3>2. CASE d # c
      BY <3>2, <1>10 DEF BatchInv, Handles, TypeOK
    <3> QED BY <3>1, <3>2
  <2>7. NoHandleLost'
    BY <1>2, <1>10 DEF BatchInv, NoHandleLost, Registered, TypeOK, Clients
  <2>8. Active'
    BY <1>2, <1>10 DEF BatchInv, Active, Current, TypeOK
  <2> QED BY <2>3, <2>4, <2>5, <2>6, <2>7, <2>8 DEF BatchInv
<1> QED BY <1>8, <1>9, <1>10

\* The inductive invariant of the batches always holds.
LEMMA InvariantHolds == Spec => []BatchInv
<1>1. ASSUME BatchInv, [Next]_vars PROVE BatchInv'
  <2>1. ASSUME NEW s \in Sessions, TurnCompleted(s) PROVE BatchInv'
    <3>1. state' \in [Sessions -> States]
      BY <1>1, <2>1 DEF TurnCompleted, BatchInv, TypeOK, States
    <3>2. Numbered
      BY <1>1, <2>1, <3>1, Numbering DEF TurnCompleted, BatchInv, TypeOK
    <3>3. \A r \in Sessions : state'[r] = "none" <=> state[r] = "none"
      BY <1>1, <2>1 DEF TurnCompleted, BatchInv, TypeOK
    <3> QED BY <1>1, <2>1, <3>2, <3>3, SettlePreserves DEF TurnCompleted
  <2>2. CASE ConnectionLost
    <3>1. state' \in [Sessions -> States] /\ lost' \in BOOLEAN
      BY <1>1, <2>2 DEF ConnectionLost, BatchInv, TypeOK, States
    <3>2. /\ \A s \in Sessions : told'[s] \in {told[s], next}
          /\ told' \in [Sessions -> Nat]
      BY <1>1, <2>2 DEF ConnectionLost, BatchInv, TypeOK
    <3>3. Numbered
      BY <1>1, <2>2, <3>1, <3>2, Numbering DEF ConnectionLost
    <3>4. \A r \in Sessions : state'[r] = "none" <=> state[r] = "none"
      BY <1>1, <2>2 DEF ConnectionLost, BatchInv, TypeOK
    <3> QED BY <1>1, <2>2, <3>3, <3>4, SettlePreserves DEF ConnectionLost
  <2>3. CASE UNCHANGED vars
    <3>1. Numbered
      BY <1>1, <2>3, Numbering DEF vars, BatchInv, TypeOK
    <3> QED BY <1>1, <2>3, <3>1, SettlePreserves DEF vars, request
  <2> QED BY <1>1, <2>1, <2>2, <2>3, PostPreserves, ThreadStartedPreserves,
             TurnStartedPreserves, ThreadFailedPreserves, TurnFailedPreserves
          DEF Next
<1> QED BY InitHolds, <1>1, PTL DEF Spec

\* Types, for any number of clients and any batch sizes.
THEOREM TypeCorrect == Spec => []TypeOK
BY InvariantHolds, PTL DEF BatchInv

\* A batch's response names every session the batch registered, however its
\* starts fail and other requests run in between.
THEOREM NoHandleIsLost == Spec => []NoHandleLost
BY InvariantHolds, PTL DEF BatchInv

\* While a request is served, what it has collected are the sessions before
\* the one it is at.
Collected ==
    \A c \in Clients : phase[c] \in {"thread/start", "turn/start"} =>
        \A h \in created[c] : h.session \in Earlier(c)

\* Every step keeps that.
LEMMA StepKeepsCollected ==
    ASSUME BatchInv, Collected, [Next]_vars PROVE Collected'
<1> SUFFICES ASSUME NEW d \in Clients,
                    phase'[d] \in {"thread/start", "turn/start"}
             PROVE  \A h \in created'[d] : h.session \in Earlier(d)'
  BY DEF Collected
<1>1. CASE /\ phase[d] \in {"thread/start", "turn/start"}
           /\ created'[d] = created[d] /\ index'[d] = index[d]
  BY <1>1 DEF Collected, Earlier
<1>2. CASE Post(d)
  BY <1>2 DEF Post, BeginStart, BatchInv, TypeOK
<1>3. CASE TurnStarted(d)
  <2>1. phase[d] = "turn/start" /\ index[d] \in Nat \ {0}
    BY <1>3, CurrentIs DEF TurnStarted, BatchInv, TypeOK
  <2>2. /\ created'[d] = created[d] \cup {Handle(Current(d))}
        /\ index'[d] = index[d] + 1
    BY <1>3 DEF TurnStarted, BeginStart, Respond, BatchInv, TypeOK
  <2>3. Earlier(d) \cup {<<d, index[d]>>} \subseteq Earlier(d)'
    BY <2>1, <2>2 DEF Earlier
  <2> QED BY <2>1, <2>2, <2>3 DEF Collected, Handle, Current
<1>4. \/ /\ phase[d] \in {"thread/start", "turn/start"}
         /\ created'[d] = created[d] /\ index'[d] = index[d]
      \/ Post(d)
      \/ TurnStarted(d)
  <2>1. ASSUME NEW c \in Clients, c # d,
               \/ Post(c) \/ ThreadStarted(c) \/ TurnStarted(c)
               \/ ThreadFailed(c) \/ TurnFailed(c)
        PROVE  /\ phase'[d] = phase[d]
               /\ created'[d] = created[d] /\ index'[d] = index[d]
    BY <2>1 DEF Post, ThreadStarted, TurnStarted, ThreadFailed, TurnFailed,
                BeginStart, Respond, BatchInv, TypeOK
  <2>2. CASE ThreadStarted(d)
    BY <2>2 DEF ThreadStarted
  <2>3. CASE ThreadFailed(d) \/ TurnFailed(d)
    BY <2>3 DEF ThreadFailed, TurnFailed, Respond, BatchInv, TypeOK
  <2>4. CASE \/ \E s \in Sessions : TurnCompleted(s)
             \/ ConnectionLost \/ UNCHANGED vars
    BY <2>4 DEF TurnCompleted, ConnectionLost, vars, request
  <2> QED BY <2>1, <2>2, <2>3, <2>4 DEF Next
<1> QED BY <1>1, <1>2, <1>3, <1>4

\* Whoever had a response keeps what it tells if every session that changes,
\* or is announced, is announced now.
LEMMA OthersStayComplete ==
    ASSUME BatchInv, NewestHandoffComplete,
           NEW d \in Clients, phase[d] = "answered",
           created'[d] = created[d], cursor'[d] = cursor[d],
           index'[d] = index[d],
           \A s \in Sessions :
              \/ state[s] = "none"
              \/ state'[s] = state[s] /\ told'[s] = told[s]
              \/ told'[s] = next
    PROVE  \A h \in created'[d] : h.session \notin Earlier(d)' => Tells(d, h)'
<1> SUFFICES ASSUME NEW h \in created[d], h.session \notin Earlier(d),
                    state'[h.session] # h.state
             PROVE  told'[h.session] > cursor[d]
  BY DEF Tells, Earlier
<1>1. /\ h.session \in Sessions /\ state[h.session] # "none"
      /\ cursor[d] \in 0..next - 1 /\ next \in Nat
  BY DEF BatchInv, TypeOK, Handles
<1>2. CASE state'[h.session] = state[h.session] /\ told'[h.session] = told[h.session]
  BY <1>2 DEF NewestHandoffComplete, Tells
<1>3. CASE told'[h.session] = next
  BY <1>1, <1>3
<1> QED BY <1>1, <1>2, <1>3

\* A step keeps what the newest snapshots tell.
LEMMA StepKeepsHandoff ==
    ASSUME BatchInv, Collected, NewestHandoffComplete, [Next]_vars
    PROVE  NewestHandoffComplete'
<1> DEFINE Complete(d) ==
        \A h \in created'[d] : h.session \notin Earlier(d)' => Tells(d, h)'
<1> SUFFICES ASSUME NEW d \in Clients PROVE Complete(d)
  BY DEF NewestHandoffComplete
<1>1. CASE phase'[d] # "answered"
  BY <1>1 DEF Tells
<1>2. CASE /\ phase[d] = "answered"
           /\ created'[d] = created[d] /\ cursor'[d] = cursor[d]
           /\ index'[d] = index[d]
  <2>1. \A s \in Sessions : \/ state[s] = "none"
                            \/ state'[s] = state[s] /\ told'[s] = told[s]
                            \/ told'[s] = next
    <3>1. CASE \E c \in Clients : Post(c) \/ ThreadStarted(c)
      BY <3>1 DEF Post, ThreadStarted, BatchInv, Position, TypeOK
    <3>2. CASE \E c \in Clients :
                  TurnStarted(c) \/ ThreadFailed(c) \/ TurnFailed(c)
      BY <3>2 DEF TurnStarted, ThreadFailed, TurnFailed, Announce, BatchInv,
                  TypeOK
    <3>3. CASE \/ \E s \in Sessions : TurnCompleted(s)
               \/ ConnectionLost \/ UNCHANGED vars
      BY <3>3 DEF TurnCompleted, Announce, ConnectionLost, vars, BatchInv, TypeOK
    <3> QED BY <3>1, <3>2, <3>3 DEF Next
  <2> QED BY <1>2, <2>1, OthersStayComplete
<1>3. ASSUME NEW handles, Respond(d, handles),
             phase[d] \in {"thread/start", "turn/start"},
             \A h \in handles \ created[d] : state'[h.session] = h.state
      PROVE  Complete(d)
  <2>1. created'[d] = handles /\ Earlier(d)' = Earlier(d)
    BY <1>3 DEF Respond, Earlier, BatchInv, TypeOK
  <2>2. \A h \in created[d] : h.session \in Earlier(d)
    BY <1>3 DEF Collected
  <2> QED BY <1>3, <2>1, <2>2 DEF Tells
<1>4. CASE TurnStarted(d) /\ phase'[d] = "answered"
  <2>1. Respond(d, created[d] \cup {Handle(Current(d))})
    BY <1>4 DEF TurnStarted, BeginStart, BatchInv, TypeOK
  <2>2. phase[d] = "turn/start"
    BY <1>4 DEF TurnStarted
  <2>3. state'[Handle(Current(d)).session] = Handle(Current(d)).state
    BY DEF Handle
  <2> HIDE DEF Complete
  <2> QED BY <2>1, <2>2, <2>3, <1>3
<1>5. CASE ThreadFailed(d) \/ TurnFailed(d)
  <2>1. Respond(d, created[d] \cup Leftovers(d))
    BY <1>5 DEF ThreadFailed, TurnFailed
  <2>2. phase[d] \in {"thread/start", "turn/start"}
    BY <1>5 DEF ThreadFailed, TurnFailed
  <2>3. \A h \in Leftovers(d) : state'[h.session] = h.state
    BY DEF Leftovers, Handle
  <2> HIDE DEF Complete
  <2> QED BY <2>1, <2>2, <2>3, <1>3
<1>6. \/ phase'[d] # "answered"
      \/ /\ phase[d] = "answered"
         /\ created'[d] = created[d] /\ cursor'[d] = cursor[d]
         /\ index'[d] = index[d]
      \/ TurnStarted(d) \/ ThreadFailed(d) \/ TurnFailed(d)
  <2>1. ASSUME NEW c \in Clients, c # d,
               \/ Post(c) \/ ThreadStarted(c) \/ TurnStarted(c)
               \/ ThreadFailed(c) \/ TurnFailed(c)
        PROVE  /\ phase'[d] = phase[d]
               /\ created'[d] = created[d] /\ cursor'[d] = cursor[d]
               /\ index'[d] = index[d]
    BY <2>1 DEF Post, ThreadStarted, TurnStarted, ThreadFailed, TurnFailed,
                BeginStart, Respond, BatchInv, TypeOK
  <2>2. CASE Post(d) \/ ThreadStarted(d)
    BY <2>2 DEF Post, BeginStart, ThreadStarted, BatchInv, TypeOK
  <2>3. CASE \/ \E s \in Sessions : TurnCompleted(s)
             \/ ConnectionLost \/ UNCHANGED vars
    BY <2>3 DEF TurnCompleted, ConnectionLost, vars, request
  <2> QED BY <2>1, <2>2, <2>3 DEF Next
<1> HIDE DEF Complete
<1> QED BY <1>1, <1>2, <1>4, <1>5, <1>6

\* Whoever asks for one session, or looks at the last one of a batch or at one
\* that a failed start left behind, can follow it to its end from its snapshot
\* and the events after the response's cursor, whatever other requests do
\* meanwhile, for any number of clients and any batch sizes.  (The sessions a
\* batch started before do not have this: run batch_cursor.)
THEOREM NewestHandoffIsComplete == Spec => []NewestHandoffComplete
<1>1. Init => Collected /\ NewestHandoffComplete
  BY DEF Init, Collected, NewestHandoffComplete
<1>2. BatchInv /\ Collected /\ NewestHandoffComplete /\ [Next]_vars
         => Collected' /\ NewestHandoffComplete'
  BY StepKeepsCollected, StepKeepsHandoff
<1> QED BY <1>1, <1>2, InvariantHolds, PTL DEF Spec
===========================================================================
