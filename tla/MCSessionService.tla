------------------------- MODULE MCSessionService -------------------------
(* Small instances of SessionService for TLC.                               *)
EXTENDS SessionService, TLC

CONSTANTS t1, t2, x1, x2

OneThread  == {t1}
TwoThreads == {t1, t2}
NoStopper   == {}
OneStopper  == {x1}
TwoStoppers == {x1, x2}

SomeStatuses == {"completed", "unnamed"}
PlainStatuses == {"completed"}

\* Bound of two_sessions: a session that is alone has its follow-ups and
\* repeated completions; with both, each has one turn that ends once.
Alone == \E t \in Threads : future[ThreadStart(t)] = "idle"
EndsOnce(t) == \A n \in 1..lastDone[t], s \in EndStatuses :
                   \A i \in DOMAIN inbox : inbox[i] # Completion(t, n, s)
OneTurnEach == Alone \/ \A t \in Threads : attempt[t] <= 1 /\ EndsOnce(t)

\* Threads, and shutdown() calls, are interchangeable.
Symmetry == Permutations(Threads) \cup Permutations(Stoppers)
===========================================================================
