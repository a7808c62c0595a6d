--------------------------- MODULE MCServiceRun ---------------------------
(* A small instance of ServiceRun. *)
EXTENDS ServiceRun, TLC

CONSTANTS t1, t2, MaxAsked

\* Bound: turns asked for, of whatever thread.
FewTurns == attempt[t1] + attempt[t2] <= MaxAsked

Symmetry == Permutations(Threads)
===========================================================================
