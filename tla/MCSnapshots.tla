---------------------------- MODULE MCSnapshots ----------------------------
(* The two protocols around the snapshots of an application, the handoff and the
   rotation.  They share no state: a behaviour is one of either, and the other
   rests in its initial state. *)
EXTENDS SnapshotHandoff, SecretRotation

VARIABLE part

(* A Prepare and the Start that reuses its snapshots and their expiry. *)
MCCommands == {"prepare", "start"}
MCStarts == {"start"}
MCConfigured == {"start"}
MCExpiry == [c \in MCCommands |-> 2]

MCInit == part \in {"handoff", "rotation"} /\ Init /\ RotationInit

InHandoff == part = "handoff" /\ Next /\ UNCHANGED <<part, rotationVars>>
InRotation == part = "rotation" /\ RotationNext /\ UNCHANGED <<part, vars>>

(* The fairness of each, asked of its own behaviours. *)
MCFairness ==
    /\ \A c \in Commands : /\ SF_vars(part = "handoff" /\ BeginRound(c))
                           /\ SF_vars(part = "handoff" /\ ProjectCompleted(c))
                           /\ WF_vars(part = "handoff" /\ Advance(c))
                           /\ WF_vars(part = "handoff" /\ Proceed(c))
                           /\ WF_vars(part = "handoff" /\ Serve(c))
    /\ WF_vars(part = "handoff" /\ Unreachable) /\ WF_vars(part = "handoff" /\ PlaneStart)
    /\ WF_vars(part = "handoff" /\ HandleFrame)
    /\ WF_rotationVars(part = "rotation" /\ down /\ Recover)

MCSpec == MCInit /\ [][InHandoff \/ InRotation]_<<part, vars, rotationVars>> /\ MCFairness

(* SettlesInTime, of the behaviours of the handoff. *)
HandoffSettlesInTime == part = "handoff" => SettlesInTime
=============================================================================
