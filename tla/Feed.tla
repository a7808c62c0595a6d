-------------------------------- MODULE Feed --------------------------------
(***************************************************************************)
(* What the event log promises each of its readers (docs/lifecycle.md:     *)
(* 17-33), with no buffer and no waiting: events are numbered 1, 2, ...; a *)
(* reader is handed exactly the events that follow its position, or is     *)
(* told that it missed some and resumes at the end.                        *)
(***************************************************************************)
EXTENDS Naturals

CONSTANT Readers

VARIABLES
    published,   \* number of events so far
    position,    \* last event each reader has accounted for
    received,    \* events each reader was handed
    missed       \* events each reader was told it missed

feedVars == <<published, position, received, missed>>

FeedInit ==
    /\ published = 0
    /\ position = [r \in Readers |-> 0]
    /\ received = [r \in Readers |-> {}]
    /\ missed = [r \in Readers |-> {}]

PublishEvent ==
    /\ published' = published + 1
    /\ UNCHANGED <<position, received, missed>>

\* r is handed what follows its position, up to some event n.
Hand(r) ==
    \E n \in position[r] + 1 .. published :
        /\ received' = [received EXCEPT ![r] = @ \cup (position[r] + 1 .. n)]
        /\ position' = [position EXCEPT ![r] = n]
        /\ UNCHANGED <<published, missed>>

\* r is told that its position has expired and resumes at the end.
Expire(r) ==
    /\ position[r] < published
    /\ missed' = [missed EXCEPT ![r] = @ \cup (position[r] + 1 .. published)]
    /\ position' = [position EXCEPT ![r] = published]
    /\ UNCHANGED <<published, received>>

FeedNext == PublishEvent \/ \E r \in Readers : Hand(r) \/ Expire(r)

FeedSpec == FeedInit /\ [][FeedNext]_feedVars

\* Everything up to its position a reader has either received or knows it
\* missed.
NothingSkipped ==
    \A r \in Readers : received[r] \cup missed[r] = 1..position[r]
=============================================================================
