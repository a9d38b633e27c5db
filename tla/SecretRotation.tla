---------------------------- MODULE SecretRotation ----------------------------
(***************************************************************************)
(* Rotation of the secrets of one application (wasm_secrets.rs).  A        *)
(* rotation commits the next secret revision and an outbox row in one CAS, *)
(* persists an invalidation command into that row, and delivers it to the  *)
(* supervisor's journal, which stops every candidate that was prepared     *)
(* from an older revision; the active execution keeps its snapshot until   *)
(* the next activation.  A crash may fall between any two of these steps,  *)
(* and recovery brings the residue to the one outcome.                     *)
(*                                                                         *)
(* A revision stands for its command: the caller mints a new command ID    *)
(* for every rotation, and a conflicting one commits nothing.  Allowlists  *)
(* and values never leave the store row and are left out.  Preparing and   *)
(* activating a candidate belongs to the callers of this library; it is    *)
(* modelled from the fences the library gives them.                        *)
(***************************************************************************)
EXTENDS Integers, Sequences, FiniteSetsExt

CONSTANTS
    Candidates,     \* identity fences (sandboxId, versionId, P, E)
    U53Max,         \* WASM_U53_MAX, small here
    MaxCrashes      \* bound on the crashes of a behaviour

ASSUME RotationAssumption ==
    /\ Candidates # {} /\ U53Max \in Nat \ {0} /\ MaxCrashes \in Nat

VARIABLES
    revision,       \* store.secret_revision, the greatest committed one
    outbox,         \* outbox[r]: the row committed together with revision r
    lock_step,      \* of the kernel state; only rest positions are visible
    active,         \* active_snapshot.secret_revision
    entered,        \* revisions with a received and a completed entry
    fence,          \* invalidation_fence_revision
    candidates,     \* the supervisor's candidates
    down,           \* a crash happened and recovery has not run yet
    crashes

kernelVars == <<revision, outbox, lock_step, active>>
supervisorVars == <<entered, fence, candidates>>
rotationVars == <<kernelVars, supervisorVars, down, crashes>>

Revisions == 0..U53Max
DeliveryStates == {"pending", "sent", "acknowledged"}
LockSteps == {"idle", "app-fence-acquired"}
Row == [command : BOOLEAN, state : DeliveryStates]
CandidateStates == {"absent", "preparing", "ready", "stopped"}
Candidate == [revision : Revisions, state : CandidateStates, is_active : BOOLEAN]
\* The journal knows committed revisions only, and one candidate per fence.
Entered == SUBSET (1..revision)
Fleets == [Candidates -> Candidate]

\* Every variable stays within its type, and each committed revision has
\* exactly its own outbox row (run_secret_rotation commits both in one CAS).
RotationTypeOK ==
    /\ revision \in Revisions
    /\ outbox \in Seq(Row) /\ Len(outbox) = revision
    /\ lock_step \in LockSteps
    /\ active \in Revisions
    /\ entered \in Entered
    /\ fence \in Revisions
    /\ candidates \in Fleets
    /\ down \in BOOLEAN /\ crashes \in 0..MaxCrashes

RotationInit ==
    /\ revision = 0 /\ outbox = <<>> /\ lock_step = "idle" /\ active = 0
    /\ entered = {} /\ fence = 0
    /\ candidates =
         [c \in Candidates |-> [revision |-> 0, state |-> "absent", is_active |-> FALSE]]
    /\ down = FALSE /\ crashes = 0

-----------------------------------------------------------------------------
(* The supervisor's journal.                                               *)

Running(c) == candidates[c].state \in {"preparing", "ready"}

\* stop_stale_candidates: stops what is neither active nor at the revision.
Bug_StopStale(committed) ==
    [c \in Candidates |->
        IF Running(c) /\ ~candidates[c].is_active
             /\ candidates[c].revision = committed - 1
        THEN [candidates[c] EXCEPT !.state = "stopped"] ELSE candidates[c]]
StopStale(committed) ==
    [c \in Candidates |->
        IF Running(c) /\ ~candidates[c].is_active
             /\ candidates[c].revision < committed
        THEN [candidates[c] EXCEPT !.state = "stopped"] ELSE candidates[c]]

\* apply_invalidation_to_journal, for a set of commands in commit order: a
\* command the journal knows changes nothing; the others are entered, stop
\* what is older, and may only raise the fence.
Apply(commands) ==
    LET new == commands \ entered IN
    /\ entered' = entered \cup new
    /\ candidates' = IF new = {} THEN candidates ELSE StopStale(Max(new))
    /\ fence' = Max(new \cup {fence})

-----------------------------------------------------------------------------
(* run_secret_rotation, cut at each of its crash points.                   *)

\* The preconditions: the mutation fence is free and the previous command is
\* persisted.
BeginsPreparing == lock_step = "idle" /\ \A r \in 1..revision : outbox[r].command

\* The CAS: the next revision and its outbox row.
Commits(command, state) ==
    /\ BeginsPreparing
    /\ revision < U53Max
    /\ revision' = revision + 1
    /\ outbox' = Append(outbox, [command |-> command, state |-> state])
    /\ UNCHANGED <<lock_step, active>>

Crash == down' = TRUE /\ crashes < MaxCrashes /\ crashes' = crashes + 1

\* All five steps of the lock order, the delivery and the projection.
Rotate ==
    /\ Commits(TRUE, "acknowledged")
    /\ Apply({revision + 1})
    /\ UNCHANGED <<down, crashes>>

\* AfterCommitBeforeInvalidation: the row has no command yet.
CrashBeforeCommand ==
    /\ Commits(FALSE, "pending") /\ Crash
    /\ UNCHANGED supervisorVars

\* AfterCommandBeforeJournal: the command is persisted, the delivery lost.
CrashBeforeJournal ==
    /\ Commits(TRUE, "pending") /\ Crash
    /\ UNCHANGED supervisorVars

\* AfterJournalAckLost: delivered, but not projected.
CrashBeforeAck ==
    /\ Commits(TRUE, "sent") /\ Crash
    /\ Apply({revision + 1})

\* SECRET_REVISION_EXHAUSTED: next_secret_revision fails after the mutation
\* fence was taken, and the error path does not put it back.
Exhausted ==
    /\ BeginsPreparing /\ revision = U53Max
    /\ lock_step' = "app-fence-acquired"
    /\ UNCHANGED <<revision, outbox, active, supervisorVars, down, crashes>>

-----------------------------------------------------------------------------
(* recover_rotation.                                                       *)

Unacknowledged == {r \in 1..revision : outbox[r].state # "acknowledged"}

\* rebuild_invalidation_command: from the row alone, which was committed with
\* the reference of the new snapshot.
Rebuilt(row) == [row EXCEPT !.command = TRUE]

\* project_invalidation_acknowledgement: the row and its journal entry carry
\* the same revision and reference, as both came from the row.
Projected(row) == [row EXCEPT !.state = "acknowledged"]

\* Rebuilds missing commands, delivers every unacknowledged one in commit
\* order, and projects the acknowledgements.
Bug_Recover ==
    /\ lock_step' = "idle"
    /\ outbox' = [r \in 1..revision |-> Rebuilt(outbox[r])]
    /\ Apply({r \in Unacknowledged : outbox[r].command})
    /\ down' = FALSE
    /\ UNCHANGED <<revision, active, crashes>>
Recover ==
    /\ lock_step' = "idle"
    /\ outbox' = [r \in 1..revision |-> Projected(Rebuilt(outbox[r]))]
    /\ Apply(Unacknowledged)
    /\ down' = FALSE
    /\ UNCHANGED <<revision, active, crashes>>

\* A persisted command may reach the supervisor at any later time, again or
\* out of order: its sender is gone, so nothing is projected.
Redeliver(r) ==
    /\ outbox[r].command
    /\ Apply({r})
    /\ UNCHANGED <<kernelVars, down, crashes>>

-----------------------------------------------------------------------------
(* The callers: preparation and activation.                                *)

\* check_reprepare_revision_fence: a preparation may only take the snapshot
\* of the greatest committed revision.
PrepareAt(r) == r = revision

Prepare(c) ==
    /\ candidates[c].state = "absent"
    /\ \E r \in Revisions :
         /\ PrepareAt(r)
         /\ candidates' = [candidates EXCEPT ![c] =
                [revision |-> r, state |-> "preparing", is_active |-> FALSE]]
    /\ UNCHANGED <<kernelVars, entered, fence, down, crashes>>

BecomesReady(c) ==
    /\ candidates[c].state = "preparing"
    /\ candidates' = [candidates EXCEPT ![c].state = "ready"]
    /\ UNCHANGED <<kernelVars, entered, fence, down, crashes>>

\* matches_secret_revision_fence in the activation CAS, then
\* adopt_active_snapshot; the execution that was active is retired.
Adopts(c) == candidates[c].revision = revision

Activate(c) ==
    /\ candidates[c].state = "ready" /\ ~candidates[c].is_active
    /\ Adopts(c)
    /\ active' = candidates[c].revision
    /\ candidates' = [d \in Candidates |->
         IF d = c THEN [candidates[c] EXCEPT !.is_active = TRUE]
         ELSE IF candidates[d].is_active
              THEN [candidates[d] EXCEPT !.is_active = FALSE, !.state = "stopped"]
              ELSE candidates[d]]
    /\ UNCHANGED <<revision, outbox, lock_step, entered, fence, down, crashes>>

RotationNext ==
    \/ Rotate \/ CrashBeforeCommand \/ CrashBeforeJournal \/ CrashBeforeAck
    \/ Exhausted
    \/ Recover
    \/ \E r \in 1..revision : Redeliver(r)
    \/ \E c \in Candidates : Prepare(c) \/ BecomesReady(c) \/ Activate(c)

RotationSpec == RotationInit /\ [][RotationNext]_rotationVars

\* A Kernel that crashed restarts and recovers; nothing else is owed.
FairRotation == RotationSpec /\ WF_rotationVars(down /\ Recover)

-----------------------------------------------------------------------------
\* No candidate prepared from a revision the supervisor was told to fence is
\* left running, whatever the order the invalidations arrived in; the active
\* execution alone keeps its snapshot (stop_stale_candidates and the
\* re-preparation fence together).
StaleAreStopped ==
    \A c \in Candidates :
        Running(c) /\ ~candidates[c].is_active => candidates[c].revision >= fence

\* Every committed revision fences the supervisor in the end, at whichever
\* step its rotation crashed.
EveryCommitFences == \A r \in 1..U53Max : (revision >= r) ~> (fence >= r)
=============================================================================
