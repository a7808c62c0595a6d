------------------------------ MODULE Shutdown ------------------------------
(***************************************************************************)
(* How the service comes to its end, as its parts may count on: shutdown() *)
(* may be called more than once, the connection may be lost before, during *)
(* or after, and the sessions are one flag.  HttpControl, which sees no    *)
(* more of the sessions, and SessionService, which has them all, both      *)
(* implement it.                                                           *)
(***************************************************************************)
CONSTANT Callers    \* of shutdown(): connections, a signal, the Python API

VARIABLES
    shut,      \* where each call is
    stopping,  \* has one of them stopped new work?
    settled,   \* is no session live, and none ever again?
    lost       \* is the connection to the app-server gone?

ending == <<shut, stopping, settled, lost>>

Init ==
    /\ shut = [x \in Callers |-> "no"]
    /\ stopping = FALSE
    /\ settled = FALSE
    /\ lost = FALSE

Announced == \E x \in Callers : shut[x] # "no"
Move(x, to) == shut' = [shut EXCEPT ![x] = to]

\* The first call announces the shutdown.
Announce(x) ==
    /\ ~Announced
    /\ Move(x, "announced")
    /\ UNCHANGED <<stopping, settled, lost>>

\* New work is stopped: by the first call after that, by a later one at once.
Stop(x) ==
    /\ shut[x] = "announced" \/ (shut[x] = "no" /\ Announced)
    /\ Move(x, "settling")
    /\ stopping' = TRUE
    /\ settled' \in {settled, TRUE}
    /\ UNCHANGED lost

\* A call returns when every session has its outcome, not before.
Finish(x) ==
    /\ shut[x] = "settling"
    /\ Move(x, "done")
    /\ settled' = TRUE
    /\ UNCHANGED <<stopping, lost>>

\* A loss settles the sessions at once, unless a shutdown is to do so.
Lose ==
    /\ ~lost
    /\ lost' = TRUE
    /\ settled' = (settled \/ ~stopping)
    /\ UNCHANGED <<shut, stopping>>

\* The last live session gets its outcome while a shutdown waits for it.
Subside ==
    /\ stopping
    /\ settled' = TRUE
    /\ UNCHANGED <<shut, stopping, lost>>

Next ==
    \/ \E x \in Callers : Announce(x) \/ Stop(x) \/ Finish(x)
    \/ Lose \/ Subside

Spec == Init /\ [][Next]_ending
=============================================================================
