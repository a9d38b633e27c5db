----------------------------- MODULE Succession -----------------------------
(***************************************************************************)
(* What retirement promises to the owner of an application: every version  *)
(* has the route at most once; a version is drained only after it lost the *)
(* route, and only a drained one is reported to have stopped; and retired  *)
(* is said only of a version that was drained and reported, and is never   *)
(* taken back.  Whether the process did stop is not promised: the report   *)
(* is the supervisor's word.                                               *)
(***************************************************************************)
CONSTANTS Versions, None

VARIABLES
    route,     \* the version that has the route, or None
    had,       \* the versions that have it or had it
    drained,   \* the versions that have to end
    answered,  \* the versions that were reported to have stopped
    retired    \* the versions of which the owner is told so

Replaced == had \ {route}

Init == route = None /\ had = {} /\ drained = {} /\ answered = {} /\ retired = {}

(* The version that loses the route is drained with the change, or later. *)
Advance(v) ==
    /\ v \notin had
    /\ route' = v /\ had' = had \cup {v}
    /\ drained' \in {drained, drained \cup (had \cap {route})}
    /\ UNCHANGED <<answered, retired>>

Drain(v) ==
    /\ v \in Replaced
    /\ drained' = drained \cup {v}
    /\ UNCHANGED <<route, had, answered, retired>>

Answer(v) ==
    /\ v \in drained
    /\ answered' = answered \cup {v}
    /\ UNCHANGED <<route, had, drained, retired>>

Retire(v) ==
    /\ v \in drained \cap answered
    /\ retired' = retired \cup {v}
    /\ UNCHANGED <<route, had, drained, answered>>

Next == \E v \in Versions : Advance(v) \/ Drain(v) \/ Answer(v) \/ Retire(v)

Spec == Init /\ [][Next]_<<route, had, drained, answered, retired>>
=============================================================================
