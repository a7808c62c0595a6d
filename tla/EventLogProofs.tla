--------------------------- MODULE EventLogProofs ---------------------------
(***************************************************************************)
(* Proofs about EventLog for every number of readers, capacity and size:   *)
(* no wakeup is lost, no event is skipped, and the log implements Feed.    *)
(***************************************************************************)
EXTENDS EventLog, SequenceTheorems, TLAPS

\* Sequence numbers run without a gap up to the latest.
Contiguous ==
    \A i \in DOMAIN log : log[i].sequence = next - 1 - Len(log) + i

\* Between its waiter's look at the log and its answer, a poll holds some of
\* the events right after its cursor.
FetchedIsNext ==
    \A r \in Readers :
        /\ phase[r] = "fetched" =>
              \E n \in cursor[r] + 1 .. Latest : fetched[r] = cursor[r] + 1 .. n
        /\ phase[r] # "fetched" => fetched[r] = {}

CursorBound == \A r \in Readers : cursor[r] <= Latest

\* A poll found behind the window has events to be told of.
ExpiredBehind == \A r \in Readers : phase[r] = "expired" => cursor[r] < Latest

Accounted == \A r \in Readers : seen[r] \cup told[r] = 1..cursor[r]

\* The inductive invariant.
EventInv ==
    /\ TypeOK
    /\ Contiguous
    /\ CursorBound
    /\ NoLostWakeup
    /\ Accounted
    /\ FetchedIsNext
    /\ ExpiredBehind

USE CapacityAssumption, SizesAssumption, MaxSequenceAssumption

\* What is not expired is still in the log, all of it.
LEMMA AfterIsTheRest ==
    ASSUME TypeOK, Contiguous, NEW c \in 0..Latest, ~Expired(c)
    PROVE  After(c) = c + 1 .. Latest
<1> DEFINE n == Len(log)
<1>1. /\ n \in Nat /\ DOMAIN log = 1..n /\ next \in Nat \ {0}
      /\ \A i \in 1..n : log[i].sequence = next - 1 - n + i
  BY DEF TypeOK, Contiguous
<1>2. c >= next - 1 - n
  <2>1. CASE log = <<>>
    BY <2>1, <1>1 DEF Expired, Oldest, Latest
  <2>2. CASE log # <<>>
    <3>1. n >= 1
      BY <2>2, <1>1 DEF TypeOK
    <3>2. Oldest = next - n
      BY <2>2, <3>1, <1>1 DEF Oldest
    <3> QED BY <3>2, <1>1 DEF Expired, Latest
  <2> QED BY <2>1, <2>2
<1>3. ASSUME NEW x \in After(c) PROVE x \in c + 1 .. Latest
  BY <1>1, <1>3 DEF After, Latest
<1>4. ASSUME NEW x \in c + 1 .. Latest PROVE x \in After(c)
  <2> DEFINE i == x - (next - 1 - n)
  <2>1. i \in 1..n
    BY <1>1, <1>2, <1>4 DEF Latest
  <2>2. log[i].sequence = x
    BY <2>1, <1>1, <1>4 DEF Latest
  <2>3. i \in DOMAIN log /\ log[i].sequence > c
    BY <2>1, <2>2, <1>1, <1>4 DEF Latest
  <2> HIDE DEF i
  <2> QED BY <2>2, <2>3 DEF After
<1> QED BY <1>3, <1>4

\* The size an event is stored with.
LEMMA StoredSizeFits ==
    ASSUME NEW size \in Sizes PROVE StoredSize(size) \in 1..MaxEventBytes
BY MinimalFits DEF StoredSize, Fits

\* Dropping the front of a sequence keeps its tail.
LEMMA TailOfLog ==
    ASSUME NEW S, NEW s \in Seq(S), NEW k \in 0..Len(s)
    PROVE  LET t == SubSeq(s, k + 1, Len(s))
           IN  /\ t \in Seq(S)
               /\ Len(t) = Len(s) - k
               /\ \A i \in 1..Len(t) : t[i] = s[k + i]
BY SubSeqProperties

\* An emit keeps the window contiguous and its entries well-formed.
LEMMA EmitKeepsWindow ==
    ASSUME TypeOK, Contiguous, NEW size \in Sizes, EmitSized(size)
    PROVE  /\ log' \in Seq([sequence: SequenceNumbers, size: 1..MaxEventBytes])
           /\ Contiguous'
<1> DEFINE Entry == [sequence: SequenceNumbers, size: 1..MaxEventBytes]
           new == [sequence |-> next, size |-> StoredSize(size)]
           all == Append(log, new)
<1>1. new \in Entry
  BY StoredSizeFits DEF TypeOK, EmitSized, SequenceNumbers
<1>2. /\ all \in Seq(Entry)
      /\ Len(all) = Len(log) + 1
      /\ Len(log) \in Nat
      /\ \A i \in 1..Len(log) : all[i] = log[i]
      /\ all[Len(log) + 1] = new
  BY <1>1 DEF TypeOK
<1>3. \A i \in 1..Len(all) : all[i].sequence = next - Len(all) + i
  BY <1>2 DEF TypeOK, Contiguous
<1>4. PICK k \in 0..Len(all) : log' = SubSeq(all, k + 1, Len(all))
  BY DEF EmitSized, Evictions
<1> HIDE DEF all, new, Entry
<1>5. /\ log' \in Seq(Entry)
      /\ Len(log') = Len(all) - k
      /\ \A i \in 1..Len(log') : log'[i] = all[k + i]
  BY <1>2, <1>4, TailOfLog
<1>6. next' = next + 1 /\ next \in Nat
  BY DEF EmitSized, TypeOK
<1>7. ASSUME NEW i \in DOMAIN log'
      PROVE  log'[i].sequence = next' - 1 - Len(log') + i
  <2>1. i \in 1..Len(log') /\ k + i \in 1..Len(all)
    BY <1>2, <1>5, <1>7
  <2>2. log'[i].sequence = next - Len(all) + (k + i)
    BY <2>1, <1>3, <1>5
  <2> QED BY <2>1, <2>2, <1>2, <1>5, <1>6
<1> QED BY <1>5, <1>7 DEF Contiguous, Entry

\* The fold behind Bytes, on no event and on one.  Its recursive function is
\* chosen, so a function that satisfies the equation has to be given.
LEMMA BytesOfNone == Bytes(<<>>) = 0
<1> DEFINE Sums(f) == f = [s \in SUBSET {} |->
                             IF s = {} THEN 0
                             ELSE LET x == Max(s)
                                  IN  f[s \ {x}] + <<>>[x].size]
           g == [s \in SUBSET {} |-> 0]
<1>1. Bytes(<<>>) = (CHOOSE f : Sums(f))[{}]
  BY DOMAIN <<>> = {} DEF Bytes, FoldLeft, MapThenFoldSet
<1>2. Sums(g)
  BY Zenon
<1>3. Sums(CHOOSE f : Sums(f))
  <2> HIDE DEF Sums, g
  <2> QED BY <1>2
<1>4. ASSUME NEW f, Sums(f) PROVE f[{}] = 0
  BY <1>4
<1> HIDE DEF Sums
<1> QED BY <1>1, <1>3, <1>4

LEMMA BytesOfOne ==
    ASSUME NEW e, e.size \in Nat PROVE Bytes(<<e>>) = e.size
<1> DEFINE Sums(f) == f = [s \in SUBSET {1} |->
                             IF s = {} THEN 0
                             ELSE LET x == Max(s)
                                  IN  f[s \ {x}] + <<e>>[x].size]
           g == [s \in SUBSET {1} |-> IF s = {} THEN 0 ELSE e.size]
<1>1. Bytes(<<e>>) = (CHOOSE f : Sums(f))[{1}]
  <2>1. DOMAIN <<e>> = {1}
    OBVIOUS
  <2> QED BY <2>1, Zenon DEF Bytes, FoldLeft, MapThenFoldSet
<1>2. Max({1}) = 1 /\ {1} \ {1} = {} /\ <<e>>[1] = e
  BY DEF Max
<1>3. Sums(g)
  <2>1. ASSUME NEW s \in SUBSET {1}
        PROVE  g[s] = IF s = {} THEN 0
                      ELSE LET x == Max(s)
                           IN  g[s \ {x}] + <<e>>[x].size
    <3>1. g[{}] = 0 /\ g[{1}] = e.size
      OBVIOUS
    <3>2. CASE s = {}
      BY <3>1, <3>2
    <3>3. CASE s = {1}
      <4>1. g[{1} \ {1}] + <<e>>[1].size = e.size
        BY <1>2, <3>1
      <4> HIDE DEF g
      <4> QED BY <1>2, <3>1, <3>3, <4>1
    <3> QED BY <3>2, <3>3
  <2> QED BY <2>1, Zenon
<1>4. Sums(CHOOSE f : Sums(f))
  <2> HIDE DEF Sums, g
  <2> QED BY <1>3
<1>5. ASSUME NEW f, Sums(f) PROVE f[{1}] = e.size
  <2>1. f[{}] = 0
    BY <1>5
  <2>2. f[{1}] = f[{1} \ {1}] + <<e>>[1].size
    BY <1>5, <1>2
  <2> QED BY <2>1, <2>2, <1>2
<1> HIDE DEF Sums
<1> QED BY <1>1, <1>4, <1>5

\* However large it came, the newest event alone is within the limits.
LEMMA NewestIsRetainable ==
    ASSUME NEW size \in Sizes, NEW n
    PROVE  Retainable(<<[sequence |-> n, size |-> StoredSize(size)]>>)
<1>1. StoredSize(size) \in Nat /\ StoredSize(size) <= MaxBytes
  BY MinimalFits DEF StoredSize, Fits
<1> QED BY <1>1, BytesOfOne DEF Retainable

\* The eviction loop stops within the limits, and before the newest event.
LEMMA EvictionStops ==
    ASSUME TypeOK, NEW size \in Sizes, EmitSized(size)
    PROVE  Retainable(log') /\ log' # <<>>
<1> DEFINE Entry == [sequence: SequenceNumbers, size: 1..MaxEventBytes]
           new == [sequence |-> next, size |-> StoredSize(size)]
           all == Append(log, new)
<1>1. new \in Entry
  <2>1. StoredSize(size) \in 1..MaxEventBytes
    BY StoredSizeFits
  <2>2. next \in SequenceNumbers
    BY DEF TypeOK, EmitSized, SequenceNumbers
  <2> QED BY <2>1, <2>2
<1>2. /\ all \in Seq(Entry) /\ Len(all) = Len(log) + 1 /\ Len(log) \in Nat
      /\ all[Len(all)] = new
  BY <1>1 DEF TypeOK
<1> HIDE DEF new
<1>3. PICK k \in 0..Len(all) :
         /\ log' = SubSeq(all, k + 1, Len(all))
         /\ Retainable(SubSeq(all, k + 1, Len(all)))
         /\ \A j \in 0..k-1 : ~Retainable(SubSeq(all, j + 1, Len(all)))
  <2>1. log' \in Evictions(all)
    BY DEF EmitSized, new
  <2> HIDE DEF all
  <2> QED BY <2>1, Zenon DEF Evictions
<1>4. SubSeq(all, Len(all), Len(all)) = <<new>>
  <2> DEFINE s == SubSeq(all, Len(all), Len(all))
  <2> HIDE DEF all, Entry
  <2>1. s \in Seq(Entry) /\ Len(s) = 1 /\ s[1] = new
    BY <1>2, SubSeqProperties
  <2> HIDE DEF s
  <2>2. s = <<s[1]>>
    BY <2>1
  <2> QED BY <2>1, <2>2 DEF s
<1>5. Retainable(SubSeq(all, Len(all), Len(all)))
  BY <1>4, NewestIsRetainable DEF new
<1> HIDE DEF all, new, Entry
<1>6. k # Len(all)
  <2>1. CASE k = Len(all)
    <3>1. Len(all) - 1 \in 0..k-1 /\ (Len(all) - 1) + 1 = Len(all)
      BY <2>1, <1>2
    <3> QED BY <3>1, <1>3, <1>5
  <2> QED BY <2>1
<1>7. Len(log') = Len(all) - k
  BY <1>2, <1>3, TailOfLog
<1>8. Len(log') # 0
  BY <1>2, <1>6, <1>7
<1> QED BY <1>3, <1>8

\* The empty log, with no reader waiting, satisfies the invariant.
LEMMA InitHolds == Init => EventInv
<1> SUFFICES ASSUME Init PROVE EventInv
  OBVIOUS
<1>1. TypeOK
  BY DEF Init, TypeOK
<1>2. Contiguous
  BY DEF Init, Contiguous
<1>3. CursorBound /\ NoLostWakeup /\ Accounted /\ FetchedIsNext
      /\ ExpiredBehind
  BY DEF Init, CursorBound, NoLostWakeup, Accounted, FetchedIsNext,
         ExpiredBehind, Latest
<1> QED BY <1>1, <1>2, <1>3 DEF EventInv

\* Emits, those of close() included.
LEMMA EmitPreserves ==
    ASSUME EventInv, NEW size \in Sizes, EmitSized(size),
           stage' \in {"open", "closing", "closed"}
    PROVE  EventInv' /\ F!FeedNext
<1> USE DEF EventInv
<1>1. /\ log' \in Seq([sequence: SequenceNumbers, size: 1..MaxEventBytes])
      /\ Contiguous'
  BY EmitKeepsWindow
<1>2. /\ next \in Nat /\ next' = next + 1 /\ next' \in 1..MaxSequence + 1
      /\ Latest' = Latest + 1
  BY DEF TypeOK, EmitSized, Latest
<1>3. phase' \in [Readers -> {"idle", "arming", "waiting", "woken", "fetched",
                              "silent", "expired", "done"}]
  BY DEF TypeOK, EmitSized
<1>4. TypeOK'
  BY <1>1, <1>2, <1>3 DEF TypeOK, EmitSized
<1>5. NoLostWakeup'
  BY <1>2 DEF TypeOK, EmitSized, Wake, NoLostWakeup
<1>6. CursorBound' /\ Accounted'
  <2>1. Latest \in Nat /\ \A r \in Readers : cursor[r] \in Nat
    BY DEF TypeOK, Latest
  <2> QED BY <1>2, <2>1 DEF EmitSized, CursorBound, Accounted
<1>7. FetchedIsNext'
  <2>1. ASSUME NEW r \in Readers
        PROVE  phase'[r] = "fetched" <=> phase[r] = "fetched"
    BY <2>1 DEF EmitSized, TypeOK, Wake
  <2>2. Latest \in Nat /\ \A r \in Readers : cursor[r] \in Nat
    BY DEF TypeOK, Latest
  <2> QED BY <1>2, <2>1, <2>2 DEF EmitSized, FetchedIsNext
<1>8. ExpiredBehind'
  <2>1. Latest \in Nat /\ \A r \in Readers : cursor[r] \in Nat
    BY DEF TypeOK, Latest
  <2>2. \A r \in Readers : phase'[r] = "expired" => phase[r] = "expired"
    BY DEF EmitSized, TypeOK, Wake
  <2> QED BY <1>2, <2>1, <2>2 DEF EmitSized, ExpiredBehind
<1>9. F!FeedNext
  BY <1>2 DEF EmitSized, F!FeedNext, F!PublishEvent
<1> QED BY <1>1, <1>4, <1>5, <1>6, <1>7, <1>8, <1>9

\* A reader is handed what follows its cursor, up to n.
LEMMA HandPreserves ==
    ASSUME EventInv, NEW r \in Readers, NEW n \in cursor[r] + 1 .. Latest,
           seen' = [seen EXCEPT ![r] = @ \cup (cursor[r] + 1 .. n)],
           cursor' = [cursor EXCEPT ![r] = n],
           phase' = [phase EXCEPT ![r] = "idle"],
           fetched' = [fetched EXCEPT ![r] = {}],
           UNCHANGED <<log, next, stage, told>>
    PROVE  EventInv' /\ F!FeedNext
<1> USE DEF EventInv
<1>1. /\ Latest \in 0..MaxSequence /\ Latest' = Latest
      /\ cursor[r] \in Nat /\ n \in Nat /\ n <= Latest
      /\ cursor \in [Readers -> 0..MaxSequence]
      /\ cursor[r] + 1 .. n \subseteq SequenceNumbers
  BY DEF TypeOK, Latest, SequenceNumbers
<1>2. TypeOK'
  <2>1. seen' \in [Readers -> SUBSET SequenceNumbers]
    BY <1>1 DEF TypeOK
  <2>2. cursor' \in [Readers -> 0..MaxSequence]
    BY <1>1
  <2> QED BY <2>1, <2>2 DEF TypeOK
<1>3. Contiguous'
  BY DEF Contiguous
<1>4. CursorBound'
  BY <1>1 DEF CursorBound
<1>5. NoLostWakeup'
  BY <1>1 DEF NoLostWakeup, TypeOK
<1>6. Accounted'
  <2>1. seen'[r] \cup told'[r] = 1..n
    <3>1. seen'[r] = seen[r] \cup (cursor[r] + 1 .. n)
      BY DEF TypeOK
    <3>2. seen[r] \cup told[r] = 1..cursor[r]
      BY DEF Accounted
    <3>3. (1..cursor[r]) \cup (cursor[r] + 1 .. n) = 1..n
      BY <1>1
    <3> QED BY <3>1, <3>2, <3>3
  <2> QED BY <1>1, <2>1 DEF Accounted, TypeOK
<1>7. FetchedIsNext'
  BY <1>1 DEF FetchedIsNext, TypeOK
<1>8. ExpiredBehind'
  BY <1>1 DEF ExpiredBehind, TypeOK
<1>9. F!Hand(r)
  BY <1>1 DEF F!Hand, Latest
<1> QED BY <1>2, <1>3, <1>4, <1>5, <1>6, <1>7, <1>8, <1>9 DEF F!FeedNext

\* Only a cursor with events after it can have expired.
LEMMA ExpiredIsBehind ==
    ASSUME TypeOK, Contiguous, NEW c \in Nat, Expired(c)
    PROVE  c < Latest
<1>1. CASE log = <<>>
  BY <1>1 DEF Expired, Oldest, Latest, TypeOK
<1>2. CASE log # <<>>
  <2>1. Len(log) \in Nat \ {0} /\ 1 \in DOMAIN log
    BY <1>2 DEF TypeOK
  <2>2. Oldest = next - Len(log)
    BY <1>2, <2>1 DEF Oldest, Contiguous, TypeOK
  <2> QED BY <2>1, <2>2 DEF Expired, Latest, TypeOK
<1> QED BY <1>1, <1>2

\* A reader is told that its cursor has expired, and resumes at the end.
LEMMA ExpirePreserves ==
    ASSUME EventInv, NEW r \in Readers, cursor[r] < Latest,
           told' = [told EXCEPT ![r] = @ \cup (cursor[r] + 1 .. Latest)],
           cursor' = [cursor EXCEPT ![r] = Latest],
           phase' \in {[phase EXCEPT ![r] = "idle"],
                       [phase EXCEPT ![r] = "done"]},
           fetched' = [fetched EXCEPT ![r] = {}],
           UNCHANGED <<log, next, stage, seen>>
    PROVE  EventInv' /\ F!FeedNext
<1> USE DEF EventInv
<1>1. /\ Latest \in 0..MaxSequence /\ Latest' = Latest
      /\ cursor[r] \in Nat
      /\ cursor \in [Readers -> 0..MaxSequence]
      /\ cursor[r] + 1 .. Latest \subseteq SequenceNumbers
  BY DEF TypeOK, Latest, SequenceNumbers
<1>2. TypeOK'
  <2>1. told' \in [Readers -> SUBSET SequenceNumbers]
    BY <1>1 DEF TypeOK
  <2>2. cursor' \in [Readers -> 0..MaxSequence]
    BY <1>1
  <2> QED BY <2>1, <2>2 DEF TypeOK
<1>3. Contiguous'
  BY DEF Contiguous
<1>4. CursorBound'
  BY <1>1 DEF CursorBound
<1>5. NoLostWakeup'
  BY <1>1 DEF NoLostWakeup, TypeOK
<1>6. Accounted'
  <2>1. seen'[r] \cup told'[r] = 1..Latest
    <3>1. told'[r] = told[r] \cup (cursor[r] + 1 .. Latest)
      BY DEF TypeOK
    <3>2. seen[r] \cup told[r] = 1..cursor[r]
      BY DEF Accounted
    <3>3. (1..cursor[r]) \cup (cursor[r] + 1 .. Latest) = 1..Latest
      BY <1>1
    <3> QED BY <3>1, <3>2, <3>3
  <2> QED BY <1>1, <2>1 DEF Accounted, TypeOK
<1>7. FetchedIsNext'
  BY <1>1 DEF FetchedIsNext, TypeOK
<1>8. ExpiredBehind'
  BY <1>1 DEF ExpiredBehind, TypeOK
<1>9. F!Expire(r)
  BY <1>1 DEF F!Expire, Latest
<1> QED BY <1>2, <1>3, <1>4, <1>5, <1>6, <1>7, <1>8, <1>9 DEF F!FeedNext

\* A reader's request moves on, and nobody's cursor does.
LEMMA MovePreserves ==
    ASSUME EventInv, NEW r \in Readers,
           NEW q \in {"idle", "arming", "waiting", "woken", "fetched",
                      "silent", "expired", "done"},
           NEW g,
           phase' = [phase EXCEPT ![r] = q],
           fetched' = [fetched EXCEPT ![r] = g],
           UNCHANGED <<log, next, stage, cursor, seen, told>>,
           q = "waiting" => cursor[r] = Latest,
           q = "expired" => cursor[r] < Latest,
           IF q = "fetched"
             THEN \E n \in cursor[r] + 1 .. Latest : g = cursor[r] + 1 .. n
             ELSE g = {}
    PROVE  EventInv' /\ UNCHANGED F!feedVars
<1> USE DEF EventInv
<1>1. /\ Latest \in 0..MaxSequence /\ Latest' = Latest
      /\ cursor[r] \in Nat
  BY DEF TypeOK, Latest
<1>2. TypeOK'
  <2>1. g \in SUBSET SequenceNumbers
    BY <1>1 DEF SequenceNumbers
  <2> QED BY <2>1 DEF TypeOK
<1>3. Contiguous'
  BY DEF Contiguous
<1>4. CursorBound' /\ Accounted'
  BY <1>1 DEF CursorBound, Accounted
<1>5. NoLostWakeup'
  BY <1>1 DEF NoLostWakeup, TypeOK
<1>6. FetchedIsNext'
  BY <1>1 DEF FetchedIsNext, TypeOK
<1>7. ExpiredBehind'
  BY <1>1 DEF ExpiredBehind, TypeOK
<1>8. UNCHANGED F!feedVars
  BY DEF F!feedVars
<1> QED BY <1>2, <1>3, <1>4, <1>5, <1>6, <1>7, <1>8

\* The greatest of a run of sequence numbers is its last.
LEMMA NewestOfRange ==
    ASSUME NEW c \in Nat, NEW n \in Nat, c < n
    PROVE  Newest(c + 1 .. n) = n
<1> DEFINE P(m) == m \in c + 1 .. n /\ \A k \in c + 1 .. n : k <= m
<1>1. P(n)
  OBVIOUS
<1>2. ASSUME NEW m, P(m) PROVE m = n
  BY <1>2
<1>3. Newest(c + 1 .. n) = CHOOSE m : P(m)
  BY DEF Newest
<1> HIDE DEF P
<1> QED BY <1>1, <1>2, <1>3

\* A response hands over nothing, or what follows the cursor up to some event.
LEMMA AnswerPreserves ==
    ASSUME EventInv, NEW p \in Pollers, NEW got, Answer(p, got),
           \/ got = {}
           \/ \E n \in cursor[p] + 1 .. Latest : got = cursor[p] + 1 .. n
    PROVE  EventInv' /\ [F!FeedNext]_F!feedVars
<1> p \in Readers
  BY DEF Readers
<1>1. CASE got = {}
  <2>1. cursor' = cursor /\ seen' = seen
    BY <1>1 DEF Answer, NextCursor, EventInv, TypeOK
  <2> QED BY <2>1, MovePreserves DEF Answer
<1>2. ASSUME NEW n \in cursor[p] + 1 .. Latest, got = cursor[p] + 1 .. n
      PROVE  EventInv' /\ F!FeedNext
  <2>1. cursor[p] \in Nat /\ n \in Nat /\ cursor[p] < n
    BY DEF EventInv, TypeOK, Latest
  <2>2. got # {} /\ Newest(got) = n
    BY <2>1, <1>2, NewestOfRange
  <2>3. cursor' = [cursor EXCEPT ![p] = n]
    BY <2>2 DEF Answer, NextCursor
  <2> QED BY <1>2, <2>3, HandPreserves DEF Answer
<1> QED BY <1>1, <1>2

\* What follows a live cursor, as a range.
LEMMA RestOfReader ==
    ASSUME EventInv, NEW r \in Readers, ~Expired(cursor[r])
    PROVE  /\ After(cursor[r]) = cursor[r] + 1 .. Latest
           /\ cursor[r] <= Latest
           /\ After(cursor[r]) = {} => cursor[r] = Latest
           /\ After(cursor[r]) # {} => Latest \in cursor[r] + 1 .. Latest
<1>1. cursor[r] \in 0..Latest /\ Latest \in Nat
  BY DEF EventInv, TypeOK, CursorBound, Latest
<1>2. After(cursor[r]) = cursor[r] + 1 .. Latest
  BY <1>1, AfterIsTheRest DEF EventInv
<1> QED BY <1>1, <1>2

\* Every step keeps the invariant and is a step of the promise, or none.
LEMMA StepHolds ==
    ASSUME EventInv, [Next]_vars
    PROVE  EventInv' /\ [F!FeedNext]_F!feedVars
<1>1. CASE Emit
  <2>1. PICK size \in Sizes : EmitSized(size)
    BY <1>1 DEF Emit
  <2>2. stage' \in {"open", "closing", "closed"}
    BY <1>1 DEF Emit, EventInv, TypeOK
  <2> QED BY <2>1, <2>2, EmitPreserves
<1>2. CASE BeginClose
  BY <1>2, EmitPreserves DEF BeginClose
<1>3. CASE AnnounceClosed
  BY <1>3, EmitPreserves DEF AnnounceClosed
<1>4. ASSUME NEW p \in Pollers,
             Poll(p) \/ Serve(p) \/ WaiterCancelled(p) \/ Disconnect(p)
      PROVE  EventInv' /\ [F!FeedNext]_F!feedVars
  <2> p \in Readers
    BY DEF Readers
  <2>1. CASE PollAnswered(p)
    <3>1. \/ After(cursor[p]) = {}
          \/ \E n \in cursor[p] + 1 .. Latest :
                After(cursor[p]) = cursor[p] + 1 .. n
      BY <2>1, RestOfReader DEF PollAnswered
    <3> QED BY <2>1, <3>1, AnswerPreserves DEF PollAnswered
  <2>2. CASE PollBlocks(p)
    <3>1. fetched[p] = {} /\ fetched' = [fetched EXCEPT ![p] = {}]
      BY <2>2 DEF PollBlocks, EventInv, FetchedIsNext, TypeOK
    <3> QED BY <2>2, <3>1, MovePreserves DEF PollBlocks
  <2>3. CASE PollExpired(p)
    <3>1. cursor[p] < Latest
      BY <2>3, ExpiredIsBehind DEF PollExpired, ExpiredBehind, EventInv, TypeOK
    <3> QED BY <2>3, <3>1, ExpirePreserves DEF PollExpired, AnswerExpired
  <2>4. CASE WaiterLooks(p)
    <3>1. fetched[p] = {} /\ fetched = [fetched EXCEPT ![p] = {}]
      BY <2>4 DEF WaiterLooks, EventInv, FetchedIsNext, TypeOK
    <3>2. CASE Expired(cursor[p])
      <4>1. cursor[p] < Latest
        BY <3>2, ExpiredIsBehind DEF EventInv, TypeOK
      <4> QED BY <2>4, <3>1, <3>2, <4>1, MovePreserves DEF WaiterLooks
    <3>3. CASE ~Expired(cursor[p]) /\ After(cursor[p]) = {}
      <4>1. cursor[p] = Latest
        BY <3>3, RestOfReader
      <4> QED BY <2>4, <3>3, <4>1, MovePreserves DEF WaiterLooks
    <3>4. CASE ~Expired(cursor[p]) /\ After(cursor[p]) # {}
      <4>1. \E n \in cursor[p] + 1 .. Latest :
               After(cursor[p]) = cursor[p] + 1 .. n
        BY <3>4, RestOfReader
      <4>2. /\ phase' = [phase EXCEPT ![p] = "fetched"]
            /\ fetched' = [fetched EXCEPT ![p] = After(cursor[p])]
            /\ UNCHANGED <<log, next, stage, cursor, seen, told>>
        BY <2>4, <3>4 DEF WaiterLooks
      <4> QED BY <4>1, <4>2, MovePreserves
    <3> QED BY <3>2, <3>3, <3>4
  <2>5. CASE HandlerAnswers(p)
    <3>1. \/ fetched[p] = {}
          \/ \E n \in cursor[p] + 1 .. Latest : fetched[p] = cursor[p] + 1 .. n
      BY <2>5 DEF HandlerAnswers, EventInv, FetchedIsNext
    <3> QED BY <2>5, <3>1, AnswerPreserves DEF HandlerAnswers
  <2>6. CASE WaiterCancelled(p)
    <3>1. fetched' = [fetched EXCEPT ![p] = {}]
      BY <2>6 DEF WaiterCancelled, EventInv, FetchedIsNext, TypeOK
    <3> QED BY <2>6, <3>1, MovePreserves DEF WaiterCancelled
  <2>7. CASE Disconnect(p)
    BY <2>7, MovePreserves DEF Disconnect
  <2> QED BY <1>4, <2>1, <2>2, <2>3, <2>4, <2>5, <2>6, <2>7 DEF Poll, Serve
<1>5. ASSUME NEW f \in Followers, Follow(f)
      PROVE  EventInv' /\ [F!FeedNext]_F!feedVars
  <2> f \in Readers
    BY DEF Readers
  <2>1. ASSUME phase[f] \in {"idle", "woken"}
        PROVE  fetched = [fetched EXCEPT ![f] = {}]
    BY <2>1 DEF EventInv, FetchedIsNext, TypeOK
  <2>2. CASE FollowerYields(f)
    <3>1. /\ After(cursor[f]) = cursor[f] + 1 .. Latest
          /\ Latest \in cursor[f] + 1 .. Latest
      BY <2>2, RestOfReader DEF FollowerYields
    <3> QED BY <2>1, <2>2, <3>1, HandPreserves DEF FollowerYields, Looks
  <2>3. CASE FollowerWaits(f)
    <3>1. cursor[f] = Latest
      BY <2>3, RestOfReader DEF FollowerWaits
    <3> QED BY <2>1, <2>3, <3>1, MovePreserves DEF FollowerWaits
  <2>4. CASE FollowerExpires(f)
    <3>1. cursor[f] < Latest
      BY <2>4, ExpiredIsBehind DEF FollowerExpires, EventInv, TypeOK
    <3> QED BY <2>1, <2>4, <3>1, ExpirePreserves DEF FollowerExpires, Looks
  <2>5. CASE FollowerEnds(f)
    BY <2>1, <2>5, MovePreserves DEF FollowerEnds
  <2> QED BY <1>5, <2>2, <2>3, <2>4, <2>5 DEF Follow
<1>6. CASE UNCHANGED vars
  BY <1>6 DEF vars, EventInv, TypeOK, Contiguous, CursorBound, NoLostWakeup,
              Accounted, FetchedIsNext, ExpiredBehind, Latest, F!feedVars
<1> QED BY <1>1, <1>2, <1>3, <1>4, <1>5, <1>6 DEF Next

-----------------------------------------------------------------------------
\* The inductive invariant of the log and its readers always holds.
LEMMA InvariantHolds == Spec => []EventInv
<1>1. EventInv /\ [Next]_vars => EventInv'
  BY StepHolds
<1> QED BY InitHolds, <1>1, PTL DEF Spec

\* Types, for every instance.
THEOREM TypeCorrect == Spec => []TypeOK
BY InvariantHolds, PTL DEF EventInv

\* No reader waits for an event that was already emitted: between the look at
\* the log and the wait nothing is lost, for any number of readers.
THEOREM WakeupsAreKept == Spec => []NoLostWakeup
BY InvariantHolds, PTL DEF EventInv

\* What is in the log is the newest run of events within both limits, for
\* every capacity, byte limit and sizes of events, and the newest event is
\* always there: emit's eviction loop never empties the log.
THEOREM WindowIsKept == Spec => []WindowIsNewest
<1> DEFINE Limits == Retainable(log) /\ (next > 1 => log # <<>>)
<1>1. Init => Limits
  BY BytesOfNone DEF Init, Retainable
<1>2. EventInv /\ Limits /\ [Next]_vars => Limits'
  <2> SUFFICES ASSUME EventInv, Limits, [Next]_vars PROVE Limits'
    OBVIOUS
  <2>1. ASSUME NEW size \in Sizes, EmitSized(size) PROVE Limits'
    BY <2>1, EvictionStops DEF EventInv, Retainable
  <2>2. CASE UNCHANGED <<log, next>>
    BY <2>2 DEF Retainable
  <2>3. \/ \E size \in Sizes : EmitSized(size)
        \/ UNCHANGED <<log, next>>
    BY DEF Next, vars, Emit, BeginClose, AnnounceClosed, Poll, Serve, Follow,
           PollAnswered, PollBlocks, PollExpired, AnswerExpired, Answer,
           WaiterLooks, HandlerAnswers, WaiterCancelled, Disconnect,
           FollowerYields, FollowerWaits, FollowerExpires, FollowerEnds
  <2> QED BY <2>1, <2>2, <2>3
<1>3. EventInv /\ Limits => WindowIsNewest
  BY DEF EventInv, Contiguous, WindowIsNewest, Retainable
<1> HIDE DEF Limits
<1> QED BY <1>1, <1>2, <1>3, InvariantHolds, PTL DEF Spec

\* Whatever a reader's cursor has passed it was handed, or was told it missed,
\* for every capacity, byte limit and size of event.
THEOREM NothingIsSkipped == Spec => []NothingSkipped
<1>1. EventInv => NothingSkipped
  BY DEF EventInv, Accounted, NothingSkipped, F!NothingSkipped
<1> QED BY InvariantHolds, <1>1, PTL

\* The log, with its eviction, waiter tasks, time-outs and disconnects,
\* implements Feed.
THEOREM ImplementsFeed == Spec => FeedHolds
<1>1. Init => F!FeedInit
  BY DEF Init, F!FeedInit
<1>2. EventInv /\ [Next]_vars => [F!FeedNext]_F!feedVars
  BY StepHolds
<1> QED BY <1>1, <1>2, InvariantHolds, PTL DEF Spec, FeedHolds, F!FeedSpec
===========================================================================
