---------------------------- MODULE MCEventLog ----------------------------
(* Small instances of EventLog. *)
EXTENDS EventLog, TLC

CONSTANTS p1, f1

OnePoller == {p1}
OneFollower == {f1}

\* An event that fits, and one too large for the log's event limit.
SmallOrLarge == {1, 5}

=============================================================================
