--------------------------- MODULE VersionLedger ---------------------------
(***************************************************************************)
(* What the admission transaction promises to the readers of a version and *)
(* to the caller who submitted it, whatever the stores do in between.      *)
(*                                                                         *)
(* A version is hidden, then readable, then withdrawn, never back; its     *)
(* transaction has one outcome, never revised; "visible" is only ever the  *)
(* outcome of a version that readers have been given.  A transaction that  *)
(* ends "failed" may have been readable before: an object damaged between  *)
(* the flip and the last journal row makes a later drive fail the row.     *)
(***************************************************************************)
CONSTANT Versions

VARIABLES reader, outcome

Readers  == {"hidden", "readable", "withdrawn"}
Outcomes == {"none", "open", "visible", "failed"}

Init ==
    /\ reader = [v \in Versions |-> "hidden"]
    /\ outcome = [v \in Versions |-> "none"]

Open(v) ==
    /\ outcome[v] = "none"
    /\ outcome' = [outcome EXCEPT ![v] = "open"]
    /\ UNCHANGED reader

(* The version is readable, or withdrawn at once when an object of its was
   damaged after the last verification. *)
Publish(v) ==
    /\ outcome[v] = "open" /\ reader[v] = "hidden"
    /\ \E seen \in {"readable", "withdrawn"} : reader' = [reader EXCEPT ![v] = seen]
    /\ UNCHANGED outcome

Confirm(v) ==
    /\ outcome[v] = "open" /\ reader[v] # "hidden"
    /\ outcome' = [outcome EXCEPT ![v] = "visible"]
    /\ UNCHANGED reader

Reject(v) ==
    /\ outcome[v] = "open"
    /\ outcome' = [outcome EXCEPT ![v] = "failed"]
    /\ reader' = [reader EXCEPT ![v] = IF @ = "hidden" THEN "withdrawn" ELSE @]

Withdraw(v) ==
    /\ reader[v] = "readable"
    /\ reader' = [reader EXCEPT ![v] = "withdrawn"]
    /\ UNCHANGED outcome

Next == \E v \in Versions : Open(v) \/ Publish(v) \/ Confirm(v) \/ Reject(v) \/ Withdraw(v)

Spec == Init /\ [][Next]_<<reader, outcome>>
============================================================================
