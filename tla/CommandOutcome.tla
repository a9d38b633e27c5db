--------------------------- MODULE CommandOutcome ---------------------------
(***************************************************************************)
(* What the delivery of commands promises to the owner, whatever is lost,  *)
(* repeated or restarted: a command is decided once, and only afterwards   *)
(* is the owner told; the fence of a version opens for ever, and only when *)
(* the owner has been told that its Start was applied.                     *)
(***************************************************************************)
CONSTANTS Commands, Versions

VARIABLES
    starts,     \* the commands that start a version
    decided,    \* none, open, applied or rejected, by command
    told,       \* commands whose outcome the owner can read
    open        \* versions whose fence is open

Init ==
    /\ starts = [v \in Versions |-> {}]
    /\ decided = [c \in Commands |-> "none"]
    /\ told = {}
    /\ open = {}

Authorize(c) ==
    /\ decided[c] = "none"
    /\ decided' = [decided EXCEPT ![c] = "open"]
    /\ \/ UNCHANGED starts
       \/ \E v \in Versions :
            starts[v] = {} /\ starts' = [starts EXCEPT ![v] = {c}]
    /\ UNCHANGED <<told, open>>

Decide(c) ==
    /\ decided[c] = "open"
    /\ \E o \in {"applied", "rejected"} : decided' = [decided EXCEPT ![c] = o]
    /\ UNCHANGED <<starts, told, open>>

Tell(c) ==
    /\ decided[c] \in {"applied", "rejected"} /\ c \notin told
    /\ told' = told \cup {c}
    /\ UNCHANGED <<starts, decided, open>>

OpenFence(v) ==
    /\ \E c \in starts[v] : c \in told /\ decided[c] = "applied"
    /\ open' = open \cup {v}
    /\ UNCHANGED <<starts, decided, told>>

Next ==
    \/ \E c \in Commands : Authorize(c) \/ Decide(c) \/ Tell(c)
    \/ \E v \in Versions : OpenFence(v)

Spec == Init /\ [][Next]_<<starts, decided, told, open>>
=============================================================================
