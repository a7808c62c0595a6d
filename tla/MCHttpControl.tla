--------------------------- MODULE MCHttpControl ---------------------------
(* A small instance of HttpControl for TLC: more connections than slots.    *)
EXTENDS HttpControl

CONSTANTS c1, c2, c3

ThreeConns == {c1, c2, c3}
============================================================================
