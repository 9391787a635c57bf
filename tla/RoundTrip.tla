------------------------------- MODULE RoundTrip -------------------------------
(***************************************************************************)
(* What the write-back of requirements promises the people who watch a     *)
(* goal (docs/specs/cast-requirements-roundtrip.collab.md, US5): a change  *)
(* and its alert come into being together, and every alert is shown, once, *)
(* on the round-trip descriptor.                                           *)
(***************************************************************************)
CONSTANT Requests

VARIABLES
    applied,    \* change requests that have been applied
    owed,       \* those whose alert is still to be shown
    surfaced    \* those the descriptor shows

vars == <<applied, owed, surfaced>>

Init == applied = {} /\ owed = {} /\ surfaced = {}

Apply(c) ==
    /\ c \notin applied
    /\ applied' = applied \cup {c}
    /\ owed' = owed \cup {c}
    /\ UNCHANGED surfaced

Surface(c) ==
    /\ c \in owed
    /\ owed' = owed \ {c}
    /\ surfaced' = surfaced \cup {c}
    /\ UNCHANGED applied

Next == \E c \in Requests : Apply(c) \/ Surface(c)

Spec == Init /\ [][Next]_vars

FairSpec == Spec /\ \A c \in Requests : WF_vars(Surface(c))

===============================================================================
