-------------------------- MODULE MCBatchHandoff --------------------------
(* Small instances of BatchHandoff. *)
EXTENDS BatchHandoff, TLC

CONSTANTS c1, d1

OneBatch == {c1}
OneSingle == {d1}

\* Two sessions for the first batch, one for everybody else.
Mixed == [c \in Clients |-> IF c = c1 THEN 2 ELSE 1]
============================================================================
