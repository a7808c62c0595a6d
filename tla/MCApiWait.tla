----------------------------- MODULE MCApiWait -----------------------------
(* A small instance of ApiWait for TLC: one session, one shutdown() call,   *)
(* one caller of wait().                                                    *)
EXTENDS ApiWait

CONSTANTS t1, x1, w1

OneThread  == {t1}
OneStopper == {x1}
OneWaiter  == {w1}

SomeStatuses == {"completed", "unnamed"}
============================================================================
