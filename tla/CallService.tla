----------------------------- MODULE CallService -----------------------------
(***************************************************************************)
(* What ProtocolClient.call promises to those that use it, without a       *)
(* socket, ids, a lock or a reader: a call is open until it is told the    *)
(* answer to its own request, or a failure, once; the app-server is sent   *)
(* it at most once and only while it is open, and answers only what it     *)
(* was sent.  ProtocolClient implements this; SessionService takes it for  *)
(* granted.                                                                *)
(***************************************************************************)
CONSTANTS Callers   \* uses of call(), one each

VARIABLES
    open,    \* calls made that have not returned
    sent,    \* calls the app-server was sent
    told     \* what each call returned: its answer is named after it

callVars == <<open, sent, told>>

Init ==
    /\ open = {}
    /\ sent = {}
    /\ told = [c \in Callers |-> "nothing"]

Ask(c) ==
    /\ c \notin open \cup sent
    /\ told[c] = "nothing"
    /\ open' = open \cup {c}
    /\ UNCHANGED <<sent, told>>

Send(c) ==
    /\ c \in open \ sent
    /\ sent' = sent \cup {c}
    /\ UNCHANGED <<open, told>>

Tell(c, what) ==
    /\ open' = open \ {c}
    /\ told' = [told EXCEPT ![c] = what]

Answer(c) ==
    /\ c \in open \cap sent
    /\ Tell(c, c)
    /\ UNCHANGED sent

\* A call that fails while it is being sent may have gone out.
Fail(c) ==
    /\ c \in open
    /\ Tell(c, "failure")
    /\ sent' \in {sent, sent \cup {c}}

Next == \E c \in Callers : Ask(c) \/ Send(c) \/ Answer(c) \/ Fail(c)

Spec == Init /\ [][Next]_callVars
=============================================================================
