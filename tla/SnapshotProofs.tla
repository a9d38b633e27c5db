--------------------------- MODULE SnapshotProofs ---------------------------
(***************************************************************************)
(* Proofs about the rotation of secrets, for any set of candidates and     *)
(* any width of the revision counter.  That no candidate outlives a fence  *)
(* is inductive only together with the fence never being ahead of the      *)
(* committed revision: a preparation is held to the latter, not to what    *)
(* the supervisor was told.                                                *)
(*                                                                         *)
(* From the mark "The handoff of snapshots" on, about the handoff, for     *)
(* any commands, expiries and faults.  That a command is spawned once and  *)
(* with all its snapshots is inductive only together with what the         *)
(* executor remembers (RememberedInv: who waits, or the outcome that       *)
(* answers replays) and with the handoff staying complete while its spawn  *)
(* request is queued (SpawnInv).  It implements CommandOutcome because     *)
(* what is executed is not completed, and what is acknowledged is what the *)
(* journal says (OutcomeInv).                                              *)
(*                                                                         *)
(* From the mark "The processes of an application" on, about the pidfile,  *)
(* for any sandboxes, pids and amounts of memory.                          *)
(***************************************************************************)
EXTENDS SecretRotation, SnapshotHandoff, SandboxRuntime, FiniteSetTheorems, WellFoundedInduction, TLAPS

FenceNotAhead == fence <= revision

IInv == RotationTypeOK /\ FenceNotAhead /\ StaleAreStopped

-----------------------------------------------------------------------------
(* The greatest of some bounded numbers.                                   *)
LEMMA MaxOf ==
    ASSUME NEW S \in SUBSET Nat, S # {}, NEW n \in Nat, \A x \in S : x <= n
    PROVE  Max(S) \in S /\ \A y \in S : Max(S) >= y
<1> DEFINE T == {n - x : x \in S}
<1>1. T \subseteq Nat /\ T # {}
  <2>1. \A x \in S : n - x \in Nat
    OBVIOUS
  <2>2. PICK x \in S : TRUE
    OBVIOUS
  <2>3. n - x \in T
    BY <2>2
  <2> QED
    BY <2>1, <2>3
<1>2. PICK t \in T : \A u \in T : ~(<<u, t>> \in OpToRel(<, Nat))
  <2> HIDE DEF T
  <2> QED
    BY <1>1, NatLessThanWellFounded, WFMin
<1>3. \A u \in T : t <= u
  <2> HIDE DEF T
  <2> SUFFICES ASSUME NEW u \in T, u < t PROVE FALSE
    BY <1>1
  <2>1. <<u, t>> \in OpToRel(<, Nat)
    BY <1>1 DEF OpToRel
  <2> QED
    BY <1>2, <2>1
<1>4. PICK x \in S : t = n - x
  OBVIOUS
<1>5. \A y \in S : x >= y
  <2> SUFFICES ASSUME NEW y \in S PROVE x >= y
    OBVIOUS
  <2>1. t <= n - y
    BY <1>3
  <2> QED
    BY <1>4, <2>1
<1> QED
  BY <1>5 DEF Max

-----------------------------------------------------------------------------
(* Stopping what is older than a revision keeps the fleet typed, makes     *)
(* nothing active and moves nothing to another revision.                   *)
LEMMA StopStaleFacts ==
    ASSUME RotationTypeOK, NEW committed \in Nat
    PROVE  /\ StopStale(committed) \in Fleets
           /\ \A c \in Candidates :
                /\ StopStale(committed)[c].revision = candidates[c].revision
                /\ StopStale(committed)[c].is_active = candidates[c].is_active
                /\ \/ StopStale(committed)[c].state = "stopped"
                   \/ /\ StopStale(committed)[c].state = candidates[c].state
                      /\ Running(c) /\ ~candidates[c].is_active =>
                           candidates[c].revision >= committed
<1> SUFFICES ASSUME NEW c \in Candidates
             PROVE  /\ StopStale(committed)[c] \in Candidate
                    /\ StopStale(committed)[c].revision = candidates[c].revision
                    /\ StopStale(committed)[c].is_active = candidates[c].is_active
                    /\ \/ StopStale(committed)[c].state = "stopped"
                       \/ /\ StopStale(committed)[c].state = candidates[c].state
                          /\ Running(c) /\ ~candidates[c].is_active =>
                               candidates[c].revision >= committed
  BY DEF Fleets, StopStale
<1>1. candidates[c] \in Candidate
  BY DEF RotationTypeOK, Fleets
<1>2. candidates[c].revision \in Nat
  BY <1>1, RotationAssumption DEF Candidate, Revisions
<1>3. CASE Running(c) /\ ~candidates[c].is_active /\ candidates[c].revision < committed
  <2>1. StopStale(committed)[c] = [candidates[c] EXCEPT !.state = "stopped"]
    BY <1>3 DEF StopStale
  <2> QED
    BY <1>1, <2>1 DEF Candidate, CandidateStates
<1>4. CASE ~(Running(c) /\ ~candidates[c].is_active /\ candidates[c].revision < committed)
  <2>1. StopStale(committed)[c] = candidates[c]
    BY <1>4 DEF StopStale
  <2> QED
    BY <1>1, <1>2, <1>4, <2>1
<1> QED
  BY <1>3, <1>4

(* What the supervisor makes of invalidations, in whatever order they come: *)
(* its fence ends at a committed revision and nothing older runs on.        *)
LEMMA ApplyKeeps ==
    ASSUME IInv, NEW commands, Apply(commands),
           revision' \in Revisions, revision <= revision', commands \subseteq 1..revision'
    PROVE  /\ entered' \in Entered'
           /\ fence' \in Revisions /\ FenceNotAhead'
           /\ candidates' \in Fleets
           /\ StaleAreStopped'
<1> DEFINE new == commands \ entered
<1>0. /\ revision \in Nat /\ revision' \in Nat /\ fence \in Nat /\ U53Max \in Nat
      /\ fence <= revision /\ revision' <= U53Max
  BY RotationAssumption DEF IInv, RotationTypeOK, FenceNotAhead, Revisions
<1>1. entered' \in Entered'
  BY <1>0 DEF Apply, IInv, RotationTypeOK, Entered
<1>2. \A x \in new \cup {fence} : x \in Nat /\ x <= revision'
  BY <1>0
<1>3. fence' = Max(new \cup {fence}) /\ fence' \in new \cup {fence}
      /\ \A x \in new \cup {fence} : fence' >= x
  <2> DEFINE S == new \cup {fence}
  <2>1. S \in SUBSET Nat /\ S # {} /\ \A x \in S : x <= revision'
    BY <1>2
  <2>2. Max(S) \in S /\ \A x \in S : Max(S) >= x
    <3> HIDE DEF S
    <3> QED
      BY <1>0, <2>1, MaxOf
  <2> QED
    BY <2>2 DEF Apply
<1>4. fence' \in Revisions /\ FenceNotAhead'
  BY <1>0, <1>2, <1>3 DEF Revisions, FenceNotAhead
<1>5. CASE new = {}
  <2>1. candidates' = candidates /\ fence' = fence
    BY <1>3, <1>5 DEF Apply
  <2> QED
    BY <1>1, <1>4, <2>1 DEF IInv, RotationTypeOK, StaleAreStopped, Running
<1>6. CASE new # {}
  <2>1. Max(new) \in new /\ \A x \in new : Max(new) >= x
    <3>1. new \in SUBSET Nat /\ \A x \in new : x <= revision'
      BY <1>2
    <3> HIDE DEF new
    <3> QED
      BY <1>0, <1>6, <3>1, MaxOf
  <2>2. Max(new) \in Nat
    BY <1>2, <2>1
  <2>3. candidates' = StopStale(Max(new))
    BY <1>6 DEF Apply
  <2>4. candidates' \in Fleets
    BY <2>2, <2>3, StopStaleFacts DEF IInv
  <2>5. StaleAreStopped'
    <3> SUFFICES ASSUME NEW c \in Candidates, Running(c)', ~candidates'[c].is_active
                 PROVE  candidates'[c].revision >= fence'
      BY DEF StaleAreStopped
    <3> HIDE DEF new
    <3>1. /\ candidates'[c].revision = candidates[c].revision
          /\ candidates'[c].is_active = candidates[c].is_active
          /\ \/ candidates'[c].state = "stopped"
             \/ /\ candidates'[c].state = candidates[c].state
                /\ Running(c) /\ ~candidates[c].is_active =>
                     candidates[c].revision >= Max(new)
      BY <2>2, <2>3, StopStaleFacts DEF IInv
    <3>2. Running(c) /\ ~candidates[c].is_active
      BY <3>1 DEF Running
    <3>3. candidates[c].revision >= fence
      BY <3>2 DEF IInv, StaleAreStopped
    <3>4. candidates[c].revision >= Max(new)
      BY <3>1 DEF Running
    <3>5. fence' = fence \/ fence' \in new
      BY <1>3
    <3>6. candidates[c].revision \in Nat
      BY RotationAssumption DEF IInv, RotationTypeOK, Fleets, Candidate, Revisions
    <3>7. CASE fence' \in new
      <4>1. fence' \in Nat /\ Max(new) >= fence'
        BY <1>2, <2>1, <3>7
      <4> QED
        BY <2>2, <3>1, <3>4, <3>6, <4>1
    <3> QED
      BY <3>1, <3>3, <3>5, <3>7
  <2> QED
    BY <1>1, <1>4, <2>4, <2>5
<1> QED
  BY <1>5, <1>6

-----------------------------------------------------------------------------
(* A commit appends one typed row.                                         *)
LEMMA CommitKeeps ==
    ASSUME IInv, NEW command \in BOOLEAN, NEW state \in DeliveryStates,
           Commits(command, state)
    PROVE  /\ revision' \in Revisions /\ revision' = revision + 1
           /\ outbox' \in Seq(Row) /\ Len(outbox') = revision'
           /\ lock_step' = lock_step /\ active' = active
<1>1. [command |-> command, state |-> state] \in Row
  BY DEF Row
<1>2. revision \in Nat /\ revision + 1 <= U53Max
  BY RotationAssumption DEF Commits, IInv, RotationTypeOK, Revisions
<1> QED
  BY <1>1, <1>2, RotationAssumption DEF Commits, IInv, RotationTypeOK, Revisions

(* The three ends of a commit that reach the supervisor or do not.         *)
LEMMA RotationKeeps ==
    ASSUME IInv, Rotate \/ CrashBeforeCommand \/ CrashBeforeJournal \/ CrashBeforeAck
    PROVE  IInv'
<1>1. PICK command \in BOOLEAN, state \in DeliveryStates : Commits(command, state)
  BY DEF Rotate, CrashBeforeCommand, CrashBeforeJournal, CrashBeforeAck, DeliveryStates
<1>2. /\ revision' \in Revisions /\ revision' = revision + 1
      /\ outbox' \in Seq(Row) /\ Len(outbox') = revision'
      /\ lock_step' = lock_step /\ active' = active
  BY <1>1, CommitKeeps
<1>3. revision \in Nat
  BY RotationAssumption DEF IInv, RotationTypeOK, Revisions
<1>4. down' \in BOOLEAN /\ crashes' \in 0..MaxCrashes
  <2>1. Crash \/ UNCHANGED <<down, crashes>>
    BY DEF Rotate, CrashBeforeCommand, CrashBeforeJournal, CrashBeforeAck
  <2>2. MaxCrashes \in Nat /\ down \in BOOLEAN /\ crashes \in 0..MaxCrashes
    BY RotationAssumption DEF IInv, RotationTypeOK
  <2>3. CASE Crash
    BY <2>2, <2>3 DEF Crash
  <2> QED
    BY <2>1, <2>2, <2>3
<1>5. CASE UNCHANGED supervisorVars
  <2>1. entered' \in Entered' /\ FenceNotAhead'
    BY <1>2, <1>3, <1>5, RotationAssumption
       DEF supervisorVars, IInv, RotationTypeOK, Entered, FenceNotAhead, Revisions
  <2> QED
    BY <1>2, <1>4, <1>5, <2>1 DEF supervisorVars, IInv, RotationTypeOK, StaleAreStopped, Running
<1>6. CASE Apply({revision + 1})
  <2>1. {revision + 1} \subseteq 1..revision' /\ revision <= revision'
    BY <1>2, <1>3
  <2>2. /\ entered' \in Entered' /\ fence' \in Revisions /\ FenceNotAhead'
        /\ candidates' \in Fleets /\ StaleAreStopped'
    BY <1>2, <1>6, <2>1, ApplyKeeps
  <2> QED
    BY <1>2, <1>4, <2>2 DEF IInv, RotationTypeOK
<1> QED
  BY <1>5, <1>6 DEF Rotate, CrashBeforeCommand, CrashBeforeJournal, CrashBeforeAck

LEMMA RecoverKeeps == ASSUME IInv, Recover PROVE IInv'
<1>1. revision \in Nat /\ revision' = revision /\ revision' \in Revisions
  BY RotationAssumption DEF Recover, IInv, RotationTypeOK, Revisions
<1>2. outbox' \in Seq(Row) /\ Len(outbox') = revision'
  <2>1. \A r \in 1..revision : outbox[r] \in Row
    BY <1>1 DEF IInv, RotationTypeOK
  <2>2. \A r \in 1..revision : Projected(Rebuilt(outbox[r])) \in Row
    BY <2>1 DEF Projected, Rebuilt, Row, DeliveryStates
  <2>3. outbox' = [r \in 1..revision |-> Projected(Rebuilt(outbox[r]))]
    BY DEF Recover
  <2>4. outbox' \in [1..revision -> Row]
    BY <2>2, <2>3
  <2> QED
    BY <1>1, <2>4
<1>3. /\ Apply(Unacknowledged) /\ Unacknowledged \subseteq 1..revision'
      /\ revision <= revision'
  BY <1>1 DEF Unacknowledged, Recover
<1>4. /\ entered' \in Entered' /\ fence' \in Revisions /\ FenceNotAhead'
      /\ candidates' \in Fleets /\ StaleAreStopped'
  BY <1>1, <1>3, ApplyKeeps, Zenon
<1> QED
  BY <1>1, <1>2, <1>4 DEF Recover, IInv, RotationTypeOK, LockSteps

LEMMA RedeliverKeeps == ASSUME IInv, NEW r \in 1..revision, Redeliver(r) PROVE IInv'
<1>1. revision \in Nat /\ revision' = revision /\ revision' \in Revisions
  BY RotationAssumption DEF Redeliver, kernelVars, IInv, RotationTypeOK, Revisions
<1>2. /\ entered' \in Entered' /\ fence' \in Revisions /\ FenceNotAhead'
      /\ candidates' \in Fleets /\ StaleAreStopped'
  <2>1. Apply({r}) /\ {r} \subseteq 1..revision' /\ revision <= revision'
    BY <1>1 DEF Redeliver
  <2> QED
    BY <1>1, <2>1, ApplyKeeps
<1> QED
  BY <1>1, <1>2 DEF Redeliver, kernelVars, IInv, RotationTypeOK

(* A preparation is held to the greatest committed revision, which no      *)
(* fence is ahead of.                                                      *)
LEMMA PrepareKeeps == ASSUME IInv, NEW c \in Candidates, Prepare(c) PROVE IInv'
<1>1. PICK r \in Revisions :
        /\ r = revision
        /\ candidates' = [candidates EXCEPT ![c] =
             [revision |-> r, state |-> "preparing", is_active |-> FALSE]]
  BY DEF Prepare, PrepareAt
<1>2. [revision |-> r, state |-> "preparing", is_active |-> FALSE] \in Candidate
  BY DEF Candidate, CandidateStates
<1>3. candidates' \in Fleets
  BY <1>1, <1>2 DEF IInv, RotationTypeOK, Fleets
<1>4. UNCHANGED <<revision, outbox, lock_step, active, entered, fence, down, crashes>>
  BY DEF Prepare, kernelVars
<1>5. StaleAreStopped'
  <2> SUFFICES ASSUME NEW d \in Candidates, Running(d)', ~candidates'[d].is_active
               PROVE  candidates'[d].revision >= fence'
    BY DEF StaleAreStopped
  <2>1. CASE d = c
    BY <1>1, <1>4, <2>1, RotationAssumption DEF IInv, RotationTypeOK, Fleets, FenceNotAhead, Revisions
  <2>2. CASE d # c
    <3>1. candidates'[d] = candidates[d]
      BY <1>1, <2>2 DEF IInv, RotationTypeOK, Fleets
    <3> QED
      BY <1>4, <3>1 DEF IInv, StaleAreStopped, Running
  <2> QED
    BY <2>1, <2>2
<1> QED
  BY <1>3, <1>4, <1>5 DEF IInv, RotationTypeOK, FenceNotAhead, Entered

LEMMA ReadyKeeps == ASSUME IInv, NEW c \in Candidates, BecomesReady(c) PROVE IInv'
<1>1. UNCHANGED <<revision, outbox, lock_step, active, entered, fence, down, crashes>>
  BY DEF BecomesReady, kernelVars
<1>2. candidates[c] \in Candidate /\ candidates[c].state = "preparing"
      /\ candidates' = [candidates EXCEPT ![c] = [candidates[c] EXCEPT !.state = "ready"]]
  BY DEF BecomesReady, IInv, RotationTypeOK, Fleets
<1>3. candidates' \in Fleets
  BY <1>2 DEF IInv, RotationTypeOK, Fleets, Candidate, CandidateStates
<1>4. \A d \in Candidates : /\ candidates'[d].revision = candidates[d].revision
                            /\ candidates'[d].is_active = candidates[d].is_active
                            /\ Running(d)' => Running(d)
  BY <1>2 DEF IInv, RotationTypeOK, Fleets, Candidate, Running
<1>5. StaleAreStopped'
  BY <1>1, <1>4 DEF IInv, StaleAreStopped
<1> QED
  BY <1>1, <1>3, <1>5 DEF IInv, RotationTypeOK, FenceNotAhead, Entered

(* The execution that loses the route is stopped with it.                  *)
LEMMA ActivateKeeps == ASSUME IInv, NEW c \in Candidates, Activate(c) PROVE IInv'
<1>1. UNCHANGED <<revision, outbox, lock_step, entered, fence, down, crashes>>
  BY DEF Activate
<1>2. \A d \in Candidates : candidates[d] \in Candidate
  BY DEF IInv, RotationTypeOK, Fleets
<1>3. active' \in Revisions
  BY <1>2 DEF Activate, Candidate
<1>4. candidates' = [d \in Candidates |->
         IF d = c THEN [candidates[c] EXCEPT !.is_active = TRUE]
         ELSE IF candidates[d].is_active
              THEN [candidates[d] EXCEPT !.is_active = FALSE, !.state = "stopped"]
              ELSE candidates[d]]
  BY DEF Activate
<1>5. candidates' \in Fleets
  BY <1>2, <1>4 DEF Fleets, Candidate, CandidateStates
<1>6. StaleAreStopped'
  <2> SUFFICES ASSUME NEW d \in Candidates, Running(d)', ~candidates'[d].is_active
               PROVE  candidates'[d].revision >= fence'
    BY DEF StaleAreStopped
  <2>1. d # c
    BY <1>2, <1>4 DEF Candidate
  <2>2. ~candidates[d].is_active
    BY <1>2, <1>4, <2>1 DEF Candidate, Running
  <2>3. candidates'[d] = candidates[d]
    BY <1>4, <2>1, <2>2
  <2> QED
    BY <1>1, <2>2, <2>3 DEF IInv, StaleAreStopped, Running
<1> QED
  BY <1>1, <1>3, <1>5, <1>6 DEF IInv, RotationTypeOK, FenceNotAhead, Entered

LEMMA Invariance == RotationSpec => []IInv
<1>1. RotationInit => IInv
  <2> SUFFICES ASSUME RotationInit PROVE IInv
    OBVIOUS
  <2>1. candidates \in Fleets
    BY RotationAssumption DEF RotationInit, Fleets, Candidate, CandidateStates, Revisions
  <2>2. RotationTypeOK
    <3>1. revision \in Revisions /\ active \in Revisions /\ fence \in Revisions
          /\ crashes \in 0..MaxCrashes
      BY RotationAssumption DEF RotationInit, Revisions
    <3>2. outbox \in Seq(Row) /\ Len(outbox) = revision
      BY DEF RotationInit
    <3>3. lock_step \in LockSteps /\ entered \in Entered /\ down \in BOOLEAN
      BY DEF RotationInit, LockSteps, Entered
    <3> QED
      BY <2>1, <3>1, <3>2, <3>3 DEF RotationTypeOK
  <2> QED
    BY <2>2 DEF RotationInit, IInv, FenceNotAhead, StaleAreStopped, Running
<1>2. IInv /\ [RotationNext]_rotationVars => IInv'
  <2> SUFFICES ASSUME IInv, [RotationNext]_rotationVars PROVE IInv'
    OBVIOUS
  <2>1. CASE Exhausted
    BY <2>1 DEF Exhausted, supervisorVars, IInv, RotationTypeOK, FenceNotAhead, StaleAreStopped,
       Running, LockSteps, Entered
  <2>2. CASE UNCHANGED rotationVars
    BY <2>2 DEF rotationVars, kernelVars, supervisorVars, IInv, RotationTypeOK, FenceNotAhead,
       StaleAreStopped, Running, Entered
  <2> QED
    BY <2>1, <2>2, RotationKeeps, RecoverKeeps, RedeliverKeeps, PrepareKeeps, ReadyKeeps,
       ActivateKeeps DEF RotationNext
<1> QED
  BY <1>1, <1>2, PTL DEF RotationSpec

(* Each committed revision has exactly its outbox row, at any crash.       *)
THEOREM RotationTyped == RotationSpec => []RotationTypeOK
<1>1. IInv => RotationTypeOK
  BY DEF IInv
<1> QED
  BY <1>1, Invariance, PTL

(* The supervisor never learns of a revision before it is committed.       *)
THEOREM FenceIsCommitted == RotationSpec => []FenceNotAhead
<1>1. IInv => FenceNotAhead
  BY DEF IInv
<1> QED
  BY <1>1, Invariance, PTL

(* No candidate from a fenced revision is left running, whatever the order *)
(* of the invalidations and wherever the rotation crashed.                 *)
THEOREM StaleAreStoppedHolds == RotationSpec => []StaleAreStopped
<1>1. IInv => StaleAreStopped
  BY DEF IInv
<1> QED
  BY <1>1, Invariance, PTL

-----------------------------------------------------------------------------
(* The handoff of snapshots.                                               *)

(* A frame, a round: only of snapshots that its command names. *)
WantedFrames == {f \in Frames : f.kind \in Wanted(f.cmd)}
WantedRounds == {r \in Rounds : r.step \in Kinds => r.step \in Wanted(r.cmd)}

SnapshotsInv ==
    /\ wire \in Seq(WantedFrames) /\ round \in WantedRounds \cup {None}
    /\ \A c \in Commands : held[c] \subseteq Wanted(c)
    /\ ChildHasItsSnapshots

(* No request of a command is under way, and every process of it, but perhaps p,
   is one whose ingress did not start. *)
Alone(c, p) ==
    /\ \A t \in threads : t.cmd # c
    /\ \A q \in DOMAIN children : q # p /\ children[q].cmd = c => children[q].unserved

(* A command has a request under way, or a process that may serve. *)
Spawned(c) ==
    \/ \E t \in threads : t.cmd = c
    \/ \E p \in DOMAIN children : children[p].cmd = c /\ ~children[p].unserved

(* What was spawned is remembered, unless its ingress did not start: the executor
   waits for it, or its outcome answers every replay. *)
RememberedInv ==
    \A c \in Commands :
      /\ exec[c] # None => /\ exec[c].at = "lookup" => c \in Starts /\ outcome[c] = None
                           /\ exec[c].at = "done" => outcome[c] # None
                           /\ exec[c].at = "settle" => Alone(c, exec[c].pid)
      /\ Spawned(c) => \/ outcome[c] # None
                       \/ exec[c] # None /\ exec[c].at \in {"spawn", "settle"}

(* A request that waits in the relay: its handoff is complete. *)
QueuedInv(t) ==
    IF t.at = "queued"
    THEN /\ Wanted(t.cmd) \subseteq held[t.cmd]
         /\ \A p \in DOMAIN children : children[p].cmd = t.cmd => children[p].unserved
    ELSE /\ t.pid \in DOMAIN children
         /\ \A p \in DOMAIN children : p # t.pid /\ children[p].cmd = t.cmd => children[p].unserved

(* One request for a command, and one process that may serve, the last one. *)
SpawnInv ==
    /\ \A t, u \in threads : t.cmd = u.cmd => t = u
    /\ RespawnsOnlyUnserved
    /\ \A t \in threads : QueuedInv(t)

DownInv == ~up => threads = {} /\ wire = <<>> /\ children = <<>>

HandoffInv == TypeOK /\ SnapshotsInv /\ RememberedInv /\ SpawnInv /\ DownInv

-----------------------------------------------------------------------------
(* The values. *)

LEMMA NoneApart ==
    /\ None \notin Results /\ None \notin Executions /\ None \notin Pids
BY NoneAssumption, BoundsAssumption DEF Pids

LEMMA ExecutionMoves ==
    ASSUME NEW e \in Executions, NEW step \in {"lookup", "spawn", "settle", "done"}
    PROVE  /\ [e EXCEPT !.at = step] \in Executions /\ [e EXCEPT !.at = step] # None
           /\ [e EXCEPT !.at = step].at = step /\ [e EXCEPT !.at = step].pid = e.pid
<1>1. [e EXCEPT !.at = step] \in Executions
  BY DEF Executions
<1> QED BY <1>1, NoneApart DEF Executions

LEMMA RoundMoves ==
    ASSUME NEW r \in WantedRounds, NEW step \in {"ack", "http", "reply"} \cup Wanted(r.cmd)
    PROVE  [r EXCEPT !.step = step] \in WantedRounds
<1>1. r \in Rounds /\ step \in Kinds \cup {"ack", "http", "reply"}
  BY DEF WantedRounds, Wanted, Kinds
<1>2. [r EXCEPT !.step = step] \in Rounds /\ [r EXCEPT !.step = step].step = step
      /\ [r EXCEPT !.step = step].cmd = r.cmd
  BY <1>1 DEF Rounds
<1>3. step \in Kinds => step \in Wanted(r.cmd)
  BY DEF Kinds
<1> QED BY <1>2, <1>3 DEF WantedRounds

LEMMA WantedKinds ==
    \A c : /\ Wanted(c) \subseteq Kinds /\ "secret" \in Wanted(c)
           /\ \A kind \in Kinds : NextStep(c, kind) \in {"http"} \cup Wanted(c)
           /\ {"secret"} \subseteq Wanted(c)
BY DEF Wanted, Kinds, NextStep

LEMMA ResultNames ==
    /\ \A r \in {"applied", "missing", "expired", "failed"} : r \in Results
    /\ "received" \notin Results /\ "none" \notin Results
BY DEF Results, Failures

(* The executor of a command that has one concludes. *)
LEMMA ConcludeStep ==
    ASSUME HandoffInv, NEW c \in Commands, exec[c] # None, NEW result \in Results, Conclude(c, result)
    PROVE  /\ exec' \in [Commands -> Executions \cup {None}]
           /\ outcome' \in [Commands -> Results \cup {None}]
           /\ exec'[c] # None /\ exec'[c].at = "done" /\ outcome'[c] # None
           /\ \A d \in Commands : d # c => exec'[d] = exec[d] /\ outcome'[d] = outcome[d]
<1>1. exec \in [Commands -> Executions \cup {None}] /\ outcome \in [Commands -> Results \cup {None}]
  BY DEF HandoffInv, TypeOK
<1>2. PICK r : r = [exec[c] EXCEPT !.at = "done"]
  OBVIOUS
<1>3. r \in Executions /\ r # None /\ r.at = "done"
  BY <1>1, <1>2, ExecutionMoves
<1>4. exec' = [exec EXCEPT ![c] = r] /\ outcome' = [outcome EXCEPT ![c] = result]
  BY <1>2 DEF Conclude
<1> QED BY <1>1, <1>3, <1>4, NoneApart

(* A step spawns nothing for a command. *)
KeepsSpawned(c) == (Spawned(c)' => Spawned(c)) /\ \A p : Alone(c, p) => Alone(c, p)'

(* Enough for the steps of the executor that spawn nothing: what is spawned
   stays or goes, and what concludes has an outcome. *)
LEMMA ConcludeRemembers ==
    ASSUME HandoffInv, NEW c \in Commands, exec[c] # None, NEW result \in Results, Conclude(c, result),
           \A d \in Commands : KeepsSpawned(d)
    PROVE  RememberedInv'
<1>1. /\ exec'[c] # None /\ exec'[c].at = "done" /\ outcome'[c] # None
      /\ \A d \in Commands : d # c => exec'[d] = exec[d] /\ outcome'[d] = outcome[d]
  BY ConcludeStep
<1> QED BY <1>1 DEF HandoffInv, RememberedInv, KeepsSpawned

-----------------------------------------------------------------------------
(* The Kernel. *)

LEMMA InitHandoff ==
    ASSUME Init
    PROVE  HandoffInv
<1>1. TypeOK
  <2>1. \A c \in Commands : held[c] = {} /\ exec[c] = None
    BY DEF Init, EmptyTable
  <2>2. 0 \in 0..MaxTime /\ 0 \in 0..MaxFaults /\ 0 <= MaxPids
    BY BoundsAssumption
  <2>3. held \in [Commands -> SUBSET Kinds]
    BY DEF Init, EmptyTable
  <2>4. wire \in Seq(Frames) /\ children \in Seq(Children) /\ Len(children) <= MaxPids
    BY <2>2 DEF Init
  <2> QED BY <2>1, <2>2, <2>3, <2>4 DEF Init, TypeOK, Executing
<1>2. SnapshotsInv
  BY DEF Init, SnapshotsInv, EmptyTable, ChildHasItsSnapshots
<1>3. RememberedInv /\ SpawnInv /\ DownInv
  BY DEF Init, RememberedInv, SpawnInv, DownInv, Spawned, RespawnsOnlyUnserved
<1> QED BY <1>1, <1>2, <1>3 DEF HandoffInv

(* The plane and the journal stay, and the plane does not go down. *)
LEMMA PlaneStays ==
    ASSUME HandoffInv, UNCHANGED <<plane, journal>>,
           acked' \in [Commands -> Results \cup {None}], round' \in WantedRounds \cup {None},
           life' \in Nat, up' \in BOOLEAN, up => up', now' \in 0..MaxTime, faults' \in 0..MaxFaults
    PROVE  HandoffInv'
<1>1. TypeOK'
  <2>1. round' \in Rounds \cup {None}
    BY DEF WantedRounds
  <2>2. \A c \in Commands : Executing(c, "settle")' => exec[c].pid \in DOMAIN children
    BY DEF HandoffInv, TypeOK, Executing, plane, supervisor
  <2> QED BY <2>1, <2>2 DEF HandoffInv, TypeOK, plane, supervisor, relay
<1>2. SnapshotsInv'
  BY DEF HandoffInv, SnapshotsInv, ChildHasItsSnapshots, plane, supervisor, relay
<1>3. RememberedInv' /\ SpawnInv' /\ DownInv'
  BY DEF HandoffInv, RememberedInv, SpawnInv, DownInv, Spawned, Alone, QueuedInv, RespawnsOnlyUnserved, plane, supervisor, relay
<1> QED BY <1>1, <1>2, <1>3 DEF HandoffInv

LEMMA FaultTyped ==
    ASSUME HandoffInv, Fault
    PROVE  faults' \in 0..MaxFaults
BY BoundsAssumption DEF HandoffInv, TypeOK, Fault

LEMMA KernelInv ==
    ASSUME HandoffInv, NEW c,
           \/ c \in Commands /\ (BeginRound(c) \/ ProjectCompleted(c) \/ ReceiveReply(c) \/ GiveUp(c))
           \/ Unreachable \/ RoundLost \/ PlaneStart \/ Tick
    PROVE  HandoffInv'
<1>0. /\ acked \in [Commands -> Results \cup {None}] /\ round \in WantedRounds \cup {None}
      /\ life \in Nat /\ up \in BOOLEAN /\ now \in 0..MaxTime /\ faults \in 0..MaxFaults
  BY DEF HandoffInv, TypeOK, SnapshotsInv
<1>1. CASE c \in Commands /\ BeginRound(c)
  <2>1. round' \in WantedRounds
    BY <1>0, <1>1, WantedKinds DEF BeginRound, WantedRounds, Rounds, Kinds
  <2> QED BY <1>0, <1>1, <2>1, PlaneStays DEF BeginRound, KernelRest
<1>2. CASE c \in Commands /\ ProjectCompleted(c)
  BY <1>0, <1>2, PlaneStays DEF ProjectCompleted, Settled, KernelRest
<1>3. CASE c \in Commands /\ ReceiveReply(c)
  BY <1>0, <1>3, PlaneStays DEF ReceiveReply, Settled, KernelRest
<1>4. CASE c \in Commands /\ GiveUp(c)
  BY <1>0, <1>4, PlaneStays DEF GiveUp, KernelRest
<1>5. CASE Unreachable
  BY <1>0, <1>5, PlaneStays DEF Unreachable, KernelRest
<1>6. CASE RoundLost
  BY <1>0, <1>6, PlaneStays, FaultTyped DEF RoundLost, KernelRest
<1>7. CASE PlaneStart
  BY <1>0, <1>7, PlaneStays DEF PlaneStart
<1>8. CASE Tick
  <2>1. now' \in 0..MaxTime
    BY <1>0, <1>8, BoundsAssumption DEF Tick
  <2> QED BY <1>0, <1>8, <2>1, PlaneStays DEF Tick
<1> QED BY <1>1, <1>2, <1>3, <1>4, <1>5, <1>6, <1>7, <1>8

LEMMA SendFrameInv ==
    ASSUME HandoffInv, NEW c \in Commands, NEW kind \in Kinds, SendFrame(c, kind)
    PROVE  HandoffInv'
<1>1. /\ UNCHANGED <<acked, journal, exec, outcome, addressed, held, threads, reported, children, life, up, now, faults>>
      /\ up /\ round # None /\ round.cmd = c /\ round.step = kind /\ round \in WantedRounds
  BY DEF SendFrame, supervisor, AtStep, HandoffInv, SnapshotsInv
<1>2. PICK r \in WantedRounds : r = round
  BY <1>1
<1>3. round' = [r EXCEPT !.step = "ack"] /\ round' \in WantedRounds /\ round' \in Rounds
  BY <1>2, RoundMoves DEF SendFrame, WantedRounds
<1>4. [cmd |-> c, kind |-> kind] \in WantedFrames
  BY <1>1 DEF WantedFrames, Frames, WantedRounds
<1>5. wire' \in Seq(WantedFrames) /\ wire' \in Seq(Frames)
  <2>1. wire \in Seq(WantedFrames) /\ wire \in Seq(Frames) /\ wire' = Append(wire, [cmd |-> c, kind |-> kind])
    BY DEF HandoffInv, TypeOK, SnapshotsInv, SendFrame
  <2> QED BY <1>4, <2>1 DEF WantedFrames
<1>6. TypeOK'
  BY <1>1, <1>3, <1>5 DEF HandoffInv, TypeOK, Executing
<1>7. SnapshotsInv'
  BY <1>1, <1>3, <1>5 DEF HandoffInv, SnapshotsInv, ChildHasItsSnapshots
<1>8. RememberedInv' /\ SpawnInv' /\ DownInv'
  BY <1>1 DEF HandoffInv, RememberedInv, SpawnInv, DownInv, Spawned, Alone, QueuedInv, RespawnsOnlyUnserved
<1> QED BY <1>6, <1>7, <1>8 DEF HandoffInv

(* Both answers to a frame: the relay keeps more for the command, or the same. *)
LEMMA AckedTyped ==
    ASSUME HandoffInv, NEW f \in WantedFrames, NEW ok \in BOOLEAN
    PROVE  Acked(f, ok) \in WantedRounds \cup {None}
<1>1. CASE AtStep(f.cmd, "ack") /\ ok
  <2>1. PICK r \in WantedRounds : r = round
    BY <1>1 DEF AtStep, HandoffInv, SnapshotsInv
  <2>2. r.cmd = f.cmd /\ f.kind \in Kinds
    BY <1>1, <2>1 DEF AtStep, WantedFrames, Frames
  <2>3. [r EXCEPT !.step = NextStep(f.cmd, f.kind)] \in WantedRounds
    BY <2>2, RoundMoves, WantedKinds
  <2> QED BY <2>1, <2>3 DEF Acked
<1>2. CASE ~(AtStep(f.cmd, "ack") /\ ok)
  BY <1>2 DEF Acked, HandoffInv, SnapshotsInv
<1> QED BY <1>1, <1>2

LEMMA FrameInv ==
    ASSUME HandoffInv, HandleFrame \/ RefuseFrame
    PROVE  HandoffInv'
<1>1. /\ UNCHANGED <<acked, journal, exec, outcome, addressed, threads, reported, children, life, up, now>>
      /\ up /\ wire # <<>> /\ wire' = Tail(wire)
  BY DEF HandleFrame, RefuseFrame, supervisor
<1>2. faults' \in 0..MaxFaults
  BY FaultTyped DEF HandleFrame, RefuseFrame, HandoffInv, TypeOK
<1>3. wire \in Seq(WantedFrames) /\ wire \in Seq(Frames)
  BY DEF HandoffInv, TypeOK, SnapshotsInv
<1>4. Received \in WantedFrames /\ wire' \in Seq(WantedFrames) /\ wire' \in Seq(Frames)
  BY <1>1, <1>3 DEF Received
<1>5. round' \in WantedRounds \cup {None}
  <2>1. PICK ok \in BOOLEAN : round' = Acked(Received, ok)
    <3>1. Accepts(Received.cmd, Received.kind) \in BOOLEAN
      BY DEF Accepts
    <3> QED BY <3>1 DEF HandleFrame, RefuseFrame
  <2> QED BY <1>4, <2>1, AckedTyped
<1>6. /\ held' \in [Commands -> SUBSET Kinds] /\ \A c \in Commands : held[c] \subseteq held'[c]
      /\ \A c \in Commands : held'[c] \subseteq Wanted(c)
  <2>0. PICK f \in WantedFrames : f = Received
    BY <1>4
  <2>1. f.cmd \in Commands /\ f.kind \in Kinds /\ f.kind \in Wanted(f.cmd)
    BY DEF WantedFrames, Frames
  <2>2. held' = held \/ held' = [held EXCEPT ![f.cmd] = @ \cup {f.kind}]
    BY <2>0 DEF HandleFrame, RefuseFrame
  <2>3. held \in [Commands -> SUBSET Kinds] /\ \A c \in Commands : held[c] \subseteq Wanted(c)
    BY DEF HandoffInv, TypeOK, SnapshotsInv
  <2>4. CASE held' = held
    BY <2>3, <2>4
  <2>5. CASE held' = [held EXCEPT ![f.cmd] = @ \cup {f.kind}]
    <3>1. held'[f.cmd] = held[f.cmd] \cup {f.kind} /\ \A c \in Commands : c # f.cmd => held'[c] = held[c]
      BY <2>1, <2>3, <2>5
    <3>2. held' \in [Commands -> SUBSET Kinds]
      BY <2>1, <2>3, <2>5
    <3> QED BY <2>1, <2>3, <3>1, <3>2
  <2> QED BY <2>2, <2>4, <2>5
<1>7. TypeOK'
  BY <1>1, <1>2, <1>4, <1>5, <1>6 DEF HandoffInv, TypeOK, Executing, WantedRounds
<1>8. SnapshotsInv'
  BY <1>1, <1>4, <1>5, <1>6 DEF HandoffInv, SnapshotsInv, ChildHasItsSnapshots
<1>9. RememberedInv' /\ DownInv'
  BY <1>1 DEF HandoffInv, RememberedInv, DownInv, Spawned, Alone
<1>10. SpawnInv'
  <2>1. \A t \in threads : t.cmd \in Commands
    BY CommandsAssumption DEF HandoffInv, TypeOK, Threads
  <2> QED BY <1>1, <1>6, <2>1 DEF HandoffInv, SpawnInv, QueuedInv, RespawnsOnlyUnserved
<1> QED BY <1>7, <1>8, <1>9, <1>10 DEF HandoffInv

LEMMA DeliverInv ==
    ASSUME HandoffInv, NEW c \in Commands, Deliver(c)
    PROVE  HandoffInv'
<1>1. /\ UNCHANGED <<acked, addressed, wire, held, threads, reported, children, life, up, now, faults>>
      /\ up /\ round # None /\ round \in WantedRounds
  BY DEF Deliver, relay, AtStep, HandoffInv, SnapshotsInv
<1>2. PICK r \in WantedRounds : r = round
  BY <1>1
<1>3. round' = [r EXCEPT !.step = "reply"] /\ round' \in WantedRounds /\ round' \in Rounds
  BY <1>2, RoundMoves DEF Deliver, WantedRounds
<1>4. journal' \in [Commands -> Results \cup {"none", "received"}]
  BY DEF Deliver, HandoffInv, TypeOK
<1>5. outcome' \in [Commands -> Results \cup {None}]
      /\ \A d \in Commands : outcome'[d] = outcome[d] \/ (d = c /\ c \notin Starts /\ outcome'[d] # None)
  <2>1. "applied" \in Results /\ "applied" # None
    BY ResultNames, NoneApart
  <2>2. outcome \in [Commands -> Results \cup {None}]
    BY DEF HandoffInv, TypeOK
  <2>3. outcome' = outcome \/ (c \notin Starts /\ outcome' = [outcome EXCEPT ![c] = "applied"])
    BY DEF Deliver
  <2> QED BY <2>1, <2>2, <2>3
<1>6. CASE exec' = exec
  <2>1. TypeOK'
    BY <1>1, <1>3, <1>4, <1>5, <1>6 DEF HandoffInv, TypeOK, Executing
  <2>2. SnapshotsInv'
    BY <1>1, <1>3 DEF HandoffInv, SnapshotsInv, ChildHasItsSnapshots
  <2>3. RememberedInv'
    BY <1>1, <1>5, <1>6 DEF HandoffInv, RememberedInv, Spawned, Alone
  <2>4. SpawnInv' /\ DownInv'
    BY <1>1 DEF HandoffInv, SpawnInv, DownInv, QueuedInv, RespawnsOnlyUnserved
  <2> QED BY <2>1, <2>2, <2>3, <2>4 DEF HandoffInv
<1>7. CASE ~(exec' = exec)
  <2>0. ~Settled(c) /\ exec[c] = None
        /\ exec' = [exec EXCEPT ![c] = IF Executes(c) THEN Begins(c) ELSE [Begins(c) EXCEPT !.at = "done"]]
    BY <1>7 DEF Deliver
  <2>1. PICK e : e = IF Executes(c) THEN Begins(c) ELSE [Begins(c) EXCEPT !.at = "done"]
    OBVIOUS
  <2>2. /\ e \in Executions /\ e # None
        /\ e.at = IF Executes(c) /\ c \in Starts THEN "lookup" ELSE "done"
    <3>1. r.life \in Nat
      BY DEF WantedRounds, Rounds
    <3>2. Begins(c) \in Executions /\ Begins(c).at = IF c \in Starts THEN "lookup" ELSE "done"
      BY <1>2, <3>1 DEF Begins, Executions
    <3>3. "done" \in {"lookup", "spawn", "settle", "done"}
      OBVIOUS
    <3> QED BY <2>1, <3>2, <3>3, ExecutionMoves, NoneApart
  <2>3. exec' = [exec EXCEPT ![c] = e]
    BY <2>0, <2>1
  <2>4. exec' \in [Commands -> Executions \cup {None}] /\ exec'[c] = e
        /\ \A d \in Commands : d # c => exec'[d] = exec[d]
    BY <2>2, <2>3 DEF HandoffInv, TypeOK
  <2>5. e.at = "lookup" => c \in Starts /\ outcome[c] = None /\ outcome'[c] = None /\ ~Spawned(c)
    BY <1>5, <2>0, <2>2 DEF Executes, HandoffInv, RememberedInv
  <2>6. e.at = "done" => outcome'[c] # None
    <3>1. ASSUME c \notin Starts PROVE outcome'[c] # None
      <4>1. outcome' = [outcome EXCEPT ![c] = "applied"]
        BY <2>0, <3>1 DEF Deliver
      <4> QED BY <4>1, ResultNames, NoneApart DEF HandoffInv, TypeOK
    <3>2. ASSUME c \in Starts, ~Executes(c) PROVE outcome'[c] # None
      BY <1>5, <2>0, <3>2 DEF Executes
    <3> QED BY <2>2, <3>1, <3>2
  <2>7. TypeOK'
    <3>1. \A d \in Commands : Executing(d, "settle")' => exec'[d].pid \in DOMAIN children'
      BY <1>1, <2>2, <2>4 DEF HandoffInv, TypeOK, Executing
    <3> QED BY <1>1, <1>3, <1>4, <1>5, <2>4, <3>1 DEF HandoffInv, TypeOK
  <2>8. SnapshotsInv'
    BY <1>1, <1>3 DEF HandoffInv, SnapshotsInv, ChildHasItsSnapshots
  <2>9. RememberedInv'
    <3>1. \A d \in Commands : (Spawned(d)' <=> Spawned(d)) /\ \A p : Alone(d, p) => Alone(d, p)'
      BY <1>1 DEF Spawned, Alone
    <3>2. e.at = "lookup" \/ e.at = "done"
      BY <2>2
    <3>3. e.at = "done" => "done" # "lookup" /\ e.at # "lookup"
      OBVIOUS
    <3> QED BY <1>5, <2>0, <2>2, <2>4, <2>5, <2>6, <3>1, <3>2 DEF HandoffInv, RememberedInv
  <2>10. SpawnInv' /\ DownInv'
    BY <1>1 DEF HandoffInv, SpawnInv, DownInv, QueuedInv, RespawnsOnlyUnserved
  <2> QED BY <2>7, <2>8, <2>9, <2>10 DEF HandoffInv
<1> QED BY <1>6, <1>7

-----------------------------------------------------------------------------
(* The executor. *)

(* A process is the same but for its state, or its ingress does not start. *)
SameChild(p) ==
    /\ children'[p].cmd = children[p].cmd /\ children'[p].fds = children[p].fds
    /\ children[p].unserved => children'[p].unserved

(* A step that leaves requests, handoffs and rounds alone, and forks nothing. *)
LEMMA ExecutorStays ==
    ASSUME HandoffInv, UNCHANGED <<acked, round, wire, held, threads, life, up, now>>,
           DOMAIN children' = DOMAIN children, \A p \in DOMAIN children : SameChild(p),
           children' \in Seq(Children), Len(children') <= MaxPids,
           ~up => children' = children
    PROVE  /\ SnapshotsInv' /\ SpawnInv' /\ DownInv'
           /\ \A d \in Commands : KeepsSpawned(d)
<1>1. SnapshotsInv'
  BY DEF HandoffInv, SnapshotsInv, ChildHasItsSnapshots, SameChild
<1>2. SpawnInv'
  BY DEF HandoffInv, SpawnInv, QueuedInv, RespawnsOnlyUnserved, SameChild
<1>3. DownInv'
  BY DEF HandoffInv, DownInv
<1>4. \A d \in Commands : Spawned(d)' => Spawned(d)
  BY DEF Spawned, SameChild
<1>5. \A d \in Commands : \A p : Alone(d, p) => Alone(d, p)'
  BY DEF Alone, SameChild
<1> QED BY <1>1, <1>2, <1>3, <1>4, <1>5 DEF KeepsSpawned

LEMMA RelayTimeoutInv ==
    ASSUME HandoffInv, NEW c \in Commands, RelayTimeout(c) \/ Settle(c) \/ SettleFails(c)
    PROVE  HandoffInv'
<1>1. /\ UNCHANGED <<acked, round, journal, wire, held, threads, reported, children, life, up, now>>
      /\ up /\ exec[c] # None
  BY DEF RelayTimeout, Settle, SettleFails, ExecutorRest, Executing
<1>2. PICK result \in Results : Conclude(c, result)
  BY ResultNames DEF RelayTimeout, Settle, SettleFails
<1>3. faults' \in 0..MaxFaults
  BY FaultTyped DEF RelayTimeout, Settle, SettleFails, HandoffInv, TypeOK
<1>4. addressed' \in [Commands -> Pids \cup {None}]
  <2>1. exec[c] \in Executions /\ exec[c].pid \in Pids \cup {None}
    BY <1>1 DEF HandoffInv, TypeOK, Executions
  <2> QED BY <2>1 DEF RelayTimeout, Settle, SettleFails, HandoffInv, TypeOK
<1>5. /\ exec' \in [Commands -> Executions \cup {None}]
      /\ outcome' \in [Commands -> Results \cup {None}]
      /\ exec'[c].at = "done"
      /\ \A d \in Commands : d # c => exec'[d] = exec[d] /\ outcome'[d] = outcome[d]
  BY <1>1, <1>2, ConcludeStep
<1>6. TypeOK'
  BY <1>1, <1>3, <1>4, <1>5 DEF HandoffInv, TypeOK, Executing
<1>7. SnapshotsInv' /\ SpawnInv' /\ DownInv' /\ \A d \in Commands : KeepsSpawned(d)
  BY <1>1, ExecutorStays DEF HandoffInv, TypeOK, SameChild
<1>8. RememberedInv'
  BY <1>1, <1>2, <1>7, ConcludeRemembers
<1> QED BY <1>6, <1>7, <1>8 DEF HandoffInv

LEMMA IngressInv ==
    ASSUME HandoffInv, NEW c \in Commands, IngressFails(c)
    PROVE  HandoffInv'
<1>1. /\ UNCHANGED <<acked, round, journal, outcome, wire, held, threads, reported, life, up, now>>
      /\ up /\ exec[c] # None /\ exec[c].at = "settle" /\ exec[c].pid \in DOMAIN children
      /\ exec' = [exec EXCEPT ![c] = None] /\ addressed' = [addressed EXCEPT ![c] = exec[c].pid]
  BY DEF IngressFails, ExecutorRest, Executing, HandoffInv, TypeOK
<1>2. PICK p \in DOMAIN children : p = exec[c].pid
  BY <1>1
<1>3. PICK r : r = [children[p] EXCEPT !.unserved = TRUE]
  OBVIOUS
<1>4. children' = [children EXCEPT ![p] = r]
  BY <1>2, <1>3 DEF IngressFails
<1>5. /\ r \in Children /\ r.cmd = children[p].cmd /\ r.fds = children[p].fds /\ r.unserved
  <2>1. children[p] \in Children
    BY DEF HandoffInv, TypeOK
  <2> QED BY <1>3, <2>1 DEF Children
<1>6. /\ children' \in Seq(Children) /\ Len(children') <= MaxPids /\ DOMAIN children' = DOMAIN children
      /\ children'[p].unserved /\ \A q \in DOMAIN children : SameChild(q)
  BY <1>4, <1>5 DEF HandoffInv, TypeOK, SameChild
<1>7. SnapshotsInv' /\ SpawnInv' /\ DownInv' /\ \A d \in Commands : KeepsSpawned(d)
  BY <1>1, <1>6, ExecutorStays
<1>8. /\ exec' \in [Commands -> Executions \cup {None}] /\ exec'[c] = None
      /\ \A d \in Commands : d # c => exec'[d] = exec[d]
  BY <1>1 DEF HandoffInv, TypeOK
<1>9. TypeOK'
  <2>1. faults' \in 0..MaxFaults
    BY FaultTyped DEF IngressFails
  <2>2. addressed' \in [Commands -> Pids \cup {None}]
    <3>1. exec[c] \in Executions /\ exec[c].pid \in Pids \cup {None}
      BY <1>1 DEF HandoffInv, TypeOK, Executions
    <3> QED BY <1>1, <3>1 DEF HandoffInv, TypeOK
  <2> QED BY <1>1, <1>6, <1>8, <2>1, <2>2 DEF HandoffInv, TypeOK, Executing
<1>10. ~Spawned(c)'
  <2>1. Alone(c, p)
    BY <1>1, <1>2 DEF HandoffInv, RememberedInv
  <2> QED BY <1>1, <1>6, <2>1 DEF Alone, Spawned, SameChild
<1>11. RememberedInv'
  BY <1>1, <1>7, <1>8, <1>10 DEF HandoffInv, RememberedInv, KeepsSpawned
<1> QED BY <1>7, <1>9, <1>11 DEF HandoffInv

LEMMA CompleteInv ==
    ASSUME HandoffInv, NEW c \in Commands, Complete(c) \/ CompleteFails(c)
    PROVE  HandoffInv'
<1>1. /\ UNCHANGED <<acked, round, outcome, addressed, wire, held, threads, reported, children, life, up, now>>
      /\ up /\ exec[c] # None /\ exec[c].at = "done" /\ exec' = [exec EXCEPT ![c] = None]
  BY DEF Complete, CompleteFails, relay, Executing
<1>2. faults' \in 0..MaxFaults
  BY FaultTyped DEF Complete, CompleteFails, HandoffInv, TypeOK
<1>3. outcome[c] \in Results
  BY <1>1 DEF HandoffInv, TypeOK, RememberedInv
<1>4. journal' \in [Commands -> Results \cup {"none", "received"}]
  BY <1>3 DEF Complete, CompleteFails, HandoffInv, TypeOK
<1>5. /\ exec' \in [Commands -> Executions \cup {None}] /\ exec'[c] = None
      /\ \A d \in Commands : d # c => exec'[d] = exec[d]
  BY <1>1 DEF HandoffInv, TypeOK
<1>6. TypeOK'
  BY <1>1, <1>2, <1>4, <1>5 DEF HandoffInv, TypeOK, Executing
<1>7. SnapshotsInv' /\ SpawnInv' /\ DownInv' /\ \A d \in Commands : KeepsSpawned(d)
  BY <1>1, ExecutorStays DEF HandoffInv, TypeOK, SameChild
<1>8. RememberedInv'
  BY <1>1, <1>3, <1>5, <1>7, NoneApart DEF HandoffInv, RememberedInv, KeepsSpawned
<1> QED BY <1>6, <1>7, <1>8 DEF HandoffInv

LEMMA LookupInv ==
    ASSUME HandoffInv, NEW c \in Commands, Lookup(c)
    PROVE  HandoffInv'
<1>1. /\ UNCHANGED <<acked, round, journal, addressed, wire, held, reported, children, life, up, now, faults>>
      /\ up /\ exec[c] # None /\ exec[c].at = "lookup" /\ c \in Starts /\ ~Spawned(c)
  <2>1. up /\ exec[c] # None /\ exec[c].at = "lookup"
    BY DEF Lookup, Executing
  <2>2. c \in Starts /\ ~Spawned(c)
    BY <2>1 DEF HandoffInv, RememberedInv
  <2> QED BY <2>1, <2>2 DEF Lookup, ExecutorRest
<1>2. CASE Verdict(c) = "spawn"
  <2>0. /\ exec' = [exec EXCEPT ![c].at = "spawn"] /\ UNCHANGED outcome
        /\ threads' = threads \cup {[cmd |-> c, at |-> "queued", pid |-> None]}
    BY <1>2 DEF Lookup
  <2>1. PICK e : e = [exec[c] EXCEPT !.at = "spawn"]
    OBVIOUS
  <2>2. e \in Executions /\ e # None /\ e.at = "spawn"
    BY <1>1, <2>1, ExecutionMoves DEF HandoffInv, TypeOK
  <2>3. /\ exec' \in [Commands -> Executions \cup {None}] /\ exec'[c] = e
        /\ \A d \in Commands : d # c => exec'[d] = exec[d]
    <3>1. exec' = [exec EXCEPT ![c] = e]
      BY <2>0, <2>1
    <3> QED BY <2>2, <3>1 DEF HandoffInv, TypeOK
  <2>4. PICK t : t = [cmd |-> c, at |-> "queued", pid |-> None]
    OBVIOUS
  <2>5. t \in Threads /\ t.cmd = c /\ t.at = "queued" /\ threads' = threads \cup {t}
    BY <1>1, <2>0, <2>4 DEF Threads
  <2>6. Wanted(c) \subseteq held[c]
    BY <1>2 DEF Verdict, Shown
  <2>7. TypeOK'
    <3>1. \A d \in Commands : Executing(d, "settle")' => exec'[d].pid \in DOMAIN children'
      BY <1>1, <2>2, <2>3 DEF HandoffInv, TypeOK, Executing
    <3> QED BY <1>1, <2>0, <2>3, <2>5, <3>1 DEF HandoffInv, TypeOK
  <2>8. SnapshotsInv'
    BY <1>1 DEF HandoffInv, SnapshotsInv, ChildHasItsSnapshots
  <2>9. RememberedInv'
    <3>1. \A d \in Commands : d # c => KeepsSpawned(d)
      BY <1>1, <2>5 DEF Spawned, Alone, KeepsSpawned
    <3> QED BY <2>0, <2>2, <2>3, <3>1 DEF HandoffInv, RememberedInv, KeepsSpawned
  <2>10. SpawnInv'
    <3>1. \A u \in threads : u.cmd # c
      BY <1>1 DEF Spawned
    <3>2. \A p \in DOMAIN children : children[p].cmd = c => children[p].unserved
      BY <1>1 DEF Spawned
    <3>3. QueuedInv(t)' /\ \A u \in threads : QueuedInv(u) => QueuedInv(u)'
      BY <1>1, <2>5, <2>6, <3>2 DEF QueuedInv
    <3> QED BY <1>1, <2>5, <3>1, <3>3 DEF HandoffInv, SpawnInv, RespawnsOnlyUnserved
  <2>11. DownInv'
    BY <1>1 DEF DownInv
  <2> QED BY <2>7, <2>8, <2>9, <2>10, <2>11 DEF HandoffInv
<1>3. CASE ~(Verdict(c) = "spawn")
  <2>1. Conclude(c, Verdict(c)) /\ UNCHANGED threads
    BY <1>3 DEF Lookup
  <2>2. Verdict(c) \in Results
    BY <1>3, ResultNames DEF Verdict
  <2>3. PICK result \in Results : result = Verdict(c)
    BY <2>2
  <2>4. Conclude(c, result)
    BY <2>1, <2>3 DEF Conclude
  <2>5. /\ exec' \in [Commands -> Executions \cup {None}]
        /\ outcome' \in [Commands -> Results \cup {None}]
        /\ exec'[c].at = "done"
        /\ \A d \in Commands : d # c => exec'[d] = exec[d] /\ outcome'[d] = outcome[d]
    BY <1>1, <2>4, ConcludeStep
  <2>6. TypeOK'
    BY <1>1, <2>1, <2>5 DEF HandoffInv, TypeOK, Executing
  <2>7. SnapshotsInv' /\ SpawnInv' /\ DownInv' /\ \A d \in Commands : KeepsSpawned(d)
    BY <1>1, <2>1, ExecutorStays DEF HandoffInv, TypeOK, SameChild
  <2>8. RememberedInv'
    BY <1>1, <2>4, <2>7, ConcludeRemembers
  <2> QED BY <2>6, <2>7, <2>8 DEF HandoffInv
<1> QED BY <1>2, <1>3

(* The state of one process changes, and nothing else about it. *)
LEMMA ChildMoves ==
    ASSUME HandoffInv, NEW p, NEW s \in {"running", "zombie", "reaped"},
           children' = [children EXCEPT ![p].state = s]
    PROVE  /\ children' \in Seq(Children) /\ Len(children') <= MaxPids /\ DOMAIN children' = DOMAIN children
           /\ \A q \in DOMAIN children : SameChild(q)
<1>1. children \in Seq(Children) /\ Len(children) <= MaxPids
  BY DEF HandoffInv, TypeOK
<1>2. PICK r : r = [children[p] EXCEPT !.state = s]
  OBVIOUS
<1>3. children' = [children EXCEPT ![p] = r]
  BY <1>2
<1>4. CASE p \in DOMAIN children
  <2>1. children[p] \in Children
    BY <1>1, <1>4
  <2>2. /\ r \in Children /\ r.cmd = children[p].cmd /\ r.fds = children[p].fds
        /\ r.unserved = children[p].unserved
    BY <1>2, <2>1 DEF Children
  <2> QED BY <1>1, <1>3, <1>4, <2>2 DEF SameChild
<1>5. CASE p \notin DOMAIN children
  <2>1. children' = children
    BY <1>1, <1>3, <1>5
  <2> QED BY <1>1, <2>1 DEF SameChild
<1> QED BY <1>4, <1>5

LEMMA DrainInv ==
    ASSUME HandoffInv, NEW c \in Commands, Drain(c)
    PROVE  HandoffInv'
<1>1. /\ UNCHANGED <<acked, round, journal, exec, outcome, wire, held, threads, reported, life, up, now, faults>>
      /\ up /\ addressed' = [addressed EXCEPT ![c] = None] /\ addressed[c] \in Pids
  BY DEF Drain, relay, HandoffInv, TypeOK
<1>2. PICK p : p = addressed[c]
  OBVIOUS
<1>3. PICK s \in {"running", "zombie", "reaped"} \cup {children[p].state} :
        children' = [children EXCEPT ![p].state = s]
  BY <1>2 DEF Drain
<1>4. /\ children' \in Seq(Children) /\ Len(children') <= MaxPids /\ DOMAIN children' = DOMAIN children
      /\ \A q \in DOMAIN children : SameChild(q)
  <2>1. children \in Seq(Children) /\ Len(children) <= MaxPids
    BY DEF HandoffInv, TypeOK
  <2>2. CASE p \in DOMAIN children
    <3>1. children[p] \in Children
      BY <2>1, <2>2
    <3>2. s \in {"running", "zombie", "reaped"}
      BY <3>1 DEF Children
    <3> QED BY <1>3, <3>2, ChildMoves
  <2>3. CASE p \notin DOMAIN children
    <3>1. children' = children
      BY <1>3, <2>1, <2>3
    <3> QED BY <2>1, <3>1 DEF SameChild
  <2> QED BY <2>2, <2>3
<1>5. addressed' \in [Commands -> Pids \cup {None}]
  BY <1>1 DEF HandoffInv, TypeOK
<1>6. TypeOK'
  BY <1>1, <1>4, <1>5 DEF HandoffInv, TypeOK, Executing
<1>7. SnapshotsInv' /\ SpawnInv' /\ DownInv' /\ \A d \in Commands : KeepsSpawned(d)
  BY <1>1, <1>4, ExecutorStays
<1>8. RememberedInv'
  BY <1>1, <1>7 DEF HandoffInv, RememberedInv, KeepsSpawned
<1> QED BY <1>6, <1>7, <1>8 DEF HandoffInv

-----------------------------------------------------------------------------
(* The relay. *)

LEMMA ReaperInv ==
    ASSUME HandoffInv, NEW p \in DOMAIN children, ChildExits(p) \/ Reap(p)
    PROVE  HandoffInv'
<1>1. /\ UNCHANGED <<acked, round, journal, exec, outcome, addressed, wire, held, threads, life, up, now>> /\ up
  BY DEF ChildExits, Reap, supervisor, relay, RelayRest
<1>2. PICK s \in {"running", "zombie", "reaped"} : children' = [children EXCEPT ![p].state = s]
  BY DEF ChildExits, Reap
<1>3. /\ children' \in Seq(Children) /\ Len(children') <= MaxPids /\ DOMAIN children' = DOMAIN children
      /\ \A q \in DOMAIN children : SameChild(q)
  BY <1>2, ChildMoves
<1>4. faults' \in 0..MaxFaults
  BY FaultTyped DEF ChildExits, Reap, HandoffInv, TypeOK
<1>5. reported' \in [Commands -> Statuses \cup {None}]
  <2>1. CASE reported' = reported
    BY <2>1 DEF HandoffInv, TypeOK
  <2>2. CASE Reap(p)
    <3>1. \A c \in Commands : reported[c] # None => [reported[c] EXCEPT !.exited = TRUE] \in Statuses
      <4> SUFFICES ASSUME NEW c \in Commands, reported[c] # None
                   PROVE  [reported[c] EXCEPT !.exited = TRUE] \in Statuses
        OBVIOUS
      <4>1. reported[c] \in Statuses
        BY DEF HandoffInv, TypeOK
      <4> QED BY <4>1 DEF Statuses
    <3> QED BY <2>2, <3>1 DEF Reap, HandoffInv, TypeOK
  <2> QED BY <2>1, <2>2 DEF ChildExits, relay
<1>6. TypeOK'
  BY <1>1, <1>3, <1>4, <1>5 DEF HandoffInv, TypeOK, Executing
<1>7. SnapshotsInv' /\ SpawnInv' /\ DownInv' /\ \A d \in Commands : KeepsSpawned(d)
  BY <1>1, <1>3, ExecutorStays
<1>8. RememberedInv'
  BY <1>1, <1>7 DEF HandoffInv, RememberedInv, KeepsSpawned
<1> QED BY <1>6, <1>7, <1>8 DEF HandoffInv

LEMMA ThreadTyped ==
    ASSUME HandoffInv, NEW t \in threads
    PROVE  t \in Threads /\ t.cmd \in Starts /\ t.cmd \in Commands /\ t.pid \in Pids \cup {None} /\ up
BY CommandsAssumption DEF HandoffInv, TypeOK, Threads, DownInv

LEMMA ForkInv ==
    ASSUME HandoffInv, NEW t \in threads, Fork(t)
    PROVE  HandoffInv'
<1>1. /\ UNCHANGED <<acked, round, journal, exec, outcome, addressed, wire, held, reported, life, up, now, faults>>
      /\ t.at = "queued" /\ Len(children) < MaxPids
  BY DEF Fork, RelayRest
<1>2. PICK ch : ch = [cmd |-> t.cmd, fds |-> Descriptors(t), state |-> "running", unserved |-> FALSE]
  OBVIOUS
<1>3. ch \in Children /\ ch.cmd = t.cmd /\ ch.fds = Wanted(t.cmd)
  <2>1. held[t.cmd] = Wanted(t.cmd)
    BY <1>1, ThreadTyped DEF HandoffInv, SnapshotsInv, SpawnInv, QueuedInv
  <2> QED BY <1>2, <2>1, ThreadTyped, WantedKinds DEF Children, Descriptors
<1>4. PICK n : n = Len(children) + 1
  OBVIOUS
<1>5. /\ children' \in Seq(Children) /\ Len(children') = n /\ DOMAIN children' = DOMAIN children \cup {n}
      /\ \A p \in DOMAIN children : children'[p] = children[p] /\ p # n
      /\ children'[n] = ch /\ n \in Pids /\ Len(children') <= MaxPids
  <2>1. /\ children \in Seq(Children) /\ children' = Append(children, ch) /\ Len(children) \in Nat
        /\ MaxPids \in Nat
    BY <1>2, BoundsAssumption DEF HandoffInv, TypeOK, Fork
  <2>2. children' \in Seq(Children) /\ Len(children') = n /\ children'[n] = ch
    BY <1>3, <1>4, <2>1
  <2>3. DOMAIN children = 1..Len(children) /\ DOMAIN children' = 1..n
    BY <2>1, <2>2
  <2>4. \A p \in 1..Len(children) : children'[p] = children[p] /\ p # n
    BY <1>3, <1>4, <2>1
  <2> QED BY <1>1, <1>4, <2>1, <2>2, <2>3, <2>4 DEF Pids
<1>6. PICK u : u = [[t EXCEPT !.at = "forked"] EXCEPT !.pid = n]
  OBVIOUS
<1>7. u \in Threads /\ u.cmd = t.cmd /\ u.at = "forked" /\ u.pid = n
  BY <1>5, <1>6, ThreadTyped DEF Threads
<1>8. threads' = (threads \ {t}) \cup {u}
  BY <1>5, <1>6 DEF Fork
<1>9. \A p \in DOMAIN children : children[p].cmd = t.cmd => children[p].unserved
  BY <1>1 DEF HandoffInv, SpawnInv, QueuedInv
<1>10. TypeOK'
  <2>1. \A d \in Commands : Executing(d, "settle")' => exec'[d].pid \in DOMAIN children'
    BY <1>1, <1>5 DEF HandoffInv, TypeOK, Executing
  <2>2. threads' \subseteq Threads
    BY <1>7, <1>8 DEF HandoffInv, TypeOK
  <2> QED BY <1>1, <1>5, <2>1, <2>2 DEF HandoffInv, TypeOK
<1>11. SnapshotsInv'
  <2>1. ChildHasItsSnapshots'
    BY <1>3, <1>5 DEF HandoffInv, SnapshotsInv, ChildHasItsSnapshots
  <2> QED BY <1>1, <2>1 DEF HandoffInv, SnapshotsInv
<1>12. RememberedInv'
  <2>1. \A d \in Commands : Spawned(d)' => Spawned(d)
    BY <1>3, <1>5, <1>7, <1>8 DEF Spawned
  <2>2. \A d \in Commands : \A p : Alone(d, p) => Alone(d, p)'
    BY <1>3, <1>5, <1>7, <1>8 DEF Alone
  <2> QED BY <1>1, <2>1, <2>2 DEF HandoffInv, RememberedInv
<1>13. SpawnInv'
  <2>1. \A v, w \in threads' : v.cmd = w.cmd => v = w
    BY <1>7, <1>8 DEF HandoffInv, SpawnInv
  <2>2. RespawnsOnlyUnserved'
    <3> SUFFICES ASSUME NEW p \in DOMAIN children', NEW q \in DOMAIN children',
                        p < q, children'[p].cmd = children'[q].cmd
                 PROVE  children'[p].unserved
      BY DEF RespawnsOnlyUnserved
    <3>1. p \in DOMAIN children
      BY <1>4, <1>5 DEF HandoffInv, TypeOK
    <3>2. CASE q = n
      BY <3>1, <3>2, <1>3, <1>5, <1>9
    <3>3. CASE q # n
      BY <3>1, <3>3, <1>5 DEF HandoffInv, SpawnInv, RespawnsOnlyUnserved
    <3> QED BY <3>2, <3>3
  <2>3. ASSUME NEW v \in threads' PROVE QueuedInv(v)'
    <3>1. CASE v = u
      BY <3>1, <1>5, <1>7, <1>9 DEF QueuedInv
    <3>2. CASE v \in threads /\ v # t
      <4>1. v.cmd # t.cmd /\ QueuedInv(v)
        BY <3>2 DEF HandoffInv, SpawnInv
      <4> QED BY <4>1, <1>1, <1>3, <1>5 DEF QueuedInv
    <3> QED BY <1>8, <3>1, <3>2
  <2> QED BY <2>1, <2>2, <2>3 DEF SpawnInv
<1>14. DownInv'
  BY <1>1, ThreadTyped DEF DownInv
<1> QED BY <1>10, <1>11, <1>12, <1>13, <1>14 DEF HandoffInv

LEMMA ForkFailsInv ==
    ASSUME HandoffInv, NEW t \in threads, ForkFails(t)
    PROVE  HandoffInv'
<1>1. /\ UNCHANGED <<acked, round, journal, addressed, wire, held, reported, children, life, up, now>>
      /\ threads' = threads \ {t} /\ t.cmd \in Commands /\ up
  BY ThreadTyped DEF ForkFails
<1>2. faults' \in 0..MaxFaults
  BY FaultTyped DEF ForkFails, HandoffInv, TypeOK
<1>3. \A d \in Commands : KeepsSpawned(d)
  BY <1>1 DEF Spawned, Alone, KeepsSpawned
<1>4. SnapshotsInv' /\ DownInv'
  BY <1>1 DEF HandoffInv, SnapshotsInv, ChildHasItsSnapshots, DownInv
<1>5. SpawnInv'
  BY <1>1 DEF HandoffInv, SpawnInv, QueuedInv, RespawnsOnlyUnserved
<1>6. CASE UNCHANGED <<exec, outcome>>
  <2>1. TypeOK'
    BY <1>1, <1>2, <1>6 DEF HandoffInv, TypeOK, Executing
  <2>2. RememberedInv'
    BY <1>3, <1>6 DEF HandoffInv, RememberedInv, KeepsSpawned
  <2> QED BY <2>1, <2>2, <1>4, <1>5 DEF HandoffInv
<1>7. CASE exec[t.cmd] # None /\ Conclude(t.cmd, "failed")
  <2>1. PICK c \in Commands, result \in Results : c = t.cmd /\ result = "failed"
    BY <1>1, ResultNames
  <2>2. exec[c] # None /\ Conclude(c, result)
    BY <1>7, <2>1
  <2>3. /\ exec' \in [Commands -> Executions \cup {None}]
        /\ outcome' \in [Commands -> Results \cup {None}]
        /\ exec'[c].at = "done"
        /\ \A d \in Commands : d # c => exec'[d] = exec[d] /\ outcome'[d] = outcome[d]
    BY <2>2, ConcludeStep
  <2>4. TypeOK'
    BY <1>1, <1>2, <2>3 DEF HandoffInv, TypeOK, Executing
  <2>5. RememberedInv'
    BY <1>3, <2>2, ConcludeRemembers
  <2> QED BY <2>4, <2>5, <1>4, <1>5 DEF HandoffInv
<1> QED BY <1>6, <1>7 DEF ForkFails

LEMMA ConsumeInv ==
    ASSUME HandoffInv, NEW t \in threads, Consume(t)
    PROVE  HandoffInv'
<1>1. /\ UNCHANGED <<acked, round, journal, exec, outcome, addressed, wire, reported, children, life, up, now, faults>>
      /\ t.at = "forked" /\ up
  BY ThreadTyped DEF Consume, RelayRest
<1>2. PICK u : u = [t EXCEPT !.at = "consumed"]
  OBVIOUS
<1>3. u \in Threads /\ u.cmd = t.cmd /\ u.at = "consumed" /\ u.pid = t.pid
  BY <1>2, ThreadTyped DEF Threads
<1>4. threads' = (threads \ {t}) \cup {u} /\ held' = [held EXCEPT ![t.cmd] = {}]
  BY <1>2 DEF Consume, Become
<1>5. /\ held' \in [Commands -> SUBSET Kinds]
      /\ \A c \in Commands : held'[c] = IF c = t.cmd THEN {} ELSE held[c]
  BY <1>4 DEF HandoffInv, TypeOK
<1>6. TypeOK'
  BY <1>1, <1>3, <1>4, <1>5 DEF HandoffInv, TypeOK, Executing
<1>7. SnapshotsInv'
  BY <1>1, <1>5 DEF HandoffInv, SnapshotsInv, ChildHasItsSnapshots
<1>8. RememberedInv'
  <2>1. \A d \in Commands : KeepsSpawned(d)
    BY <1>1, <1>3, <1>4 DEF Spawned, Alone, KeepsSpawned
  <2> QED BY <1>1, <2>1 DEF HandoffInv, RememberedInv, KeepsSpawned
<1>9. SpawnInv'
  <2>1. \A v, w \in threads' : v.cmd = w.cmd => v = w
    BY <1>3, <1>4 DEF HandoffInv, SpawnInv
  <2>2. ASSUME NEW v \in threads' PROVE QueuedInv(v)'
    <3>1. CASE v = u
      <4>1. QueuedInv(t)
        BY DEF HandoffInv, SpawnInv
      <4> QED BY <3>1, <4>1, <1>1, <1>3 DEF QueuedInv
    <3>2. CASE v \in threads /\ v # t
      <4>1. v.cmd # t.cmd /\ v.cmd \in Commands /\ QueuedInv(v)
        BY <3>2, ThreadTyped DEF HandoffInv, SpawnInv
      <4> QED BY <4>1, <1>1, <1>5 DEF QueuedInv
    <3> QED BY <1>4, <3>1, <3>2
  <2> QED BY <1>1, <2>1, <2>2 DEF HandoffInv, SpawnInv, RespawnsOnlyUnserved
<1>10. DownInv'
  BY <1>1 DEF DownInv
<1> QED BY <1>6, <1>7, <1>8, <1>9, <1>10 DEF HandoffInv

LEMMA RegisterInv ==
    ASSUME HandoffInv, NEW t \in threads, Register(t)
    PROVE  HandoffInv'
<1>1. /\ UNCHANGED <<acked, round, journal, outcome, addressed, wire, held, children, life, up, now, faults>>
      /\ threads' = threads \ {t} /\ t.at = "consumed" /\ t.cmd \in Commands /\ up
  BY ThreadTyped DEF Register, RelayRest
<1>2. t.pid \in DOMAIN children /\ t.pid \in Pids
  <2>1. t.pid \in DOMAIN children
    BY <1>1 DEF HandoffInv, SpawnInv, QueuedInv
  <2>2. DOMAIN children = 1..Len(children) /\ Len(children) \in Nat /\ Len(children) <= MaxPids /\ MaxPids \in Nat
    BY BoundsAssumption DEF HandoffInv, TypeOK
  <2> QED BY <2>1, <2>2 DEF Pids
<1>3. reported' \in [Commands -> Statuses \cup {None}]
  <2>1. PICK s : s = [pid |-> t.pid, exited |-> FALSE]
    OBVIOUS
  <2>2. s \in Statuses
    BY <1>2, <2>1 DEF Statuses
  <2>3. reported' = reported \/ reported' = [reported EXCEPT ![t.cmd] = s]
    BY <2>1 DEF Register
  <2> QED BY <2>2, <2>3 DEF HandoffInv, TypeOK
<1>4. (\A d \in Commands : KeepsSpawned(d)) /\ Alone(t.cmd, t.pid)'
  <2>1. \A d \in Commands : KeepsSpawned(d)
    BY <1>1 DEF Spawned, Alone, KeepsSpawned
  <2>2. Alone(t.cmd, t.pid)'
    BY <1>1 DEF Alone, HandoffInv, SpawnInv, QueuedInv
  <2> QED BY <2>1, <2>2
<1>5. SnapshotsInv' /\ DownInv'
  BY <1>1 DEF HandoffInv, SnapshotsInv, ChildHasItsSnapshots, DownInv
<1>6. SpawnInv'
  BY <1>1 DEF HandoffInv, SpawnInv, QueuedInv, RespawnsOnlyUnserved
<1>7. CASE exec' = exec
  <2>1. TypeOK'
    BY <1>1, <1>3, <1>7 DEF HandoffInv, TypeOK, Executing
  <2>2. RememberedInv'
    BY <1>1, <1>4, <1>7 DEF HandoffInv, RememberedInv, KeepsSpawned
  <2> QED BY <2>1, <2>2, <1>5, <1>6 DEF HandoffInv
<1>8. CASE /\ exec[t.cmd] # None /\ exec[t.cmd].at = "spawn"
           /\ exec' = [exec EXCEPT ![t.cmd].at = "settle", ![t.cmd].pid = t.pid]
  <2>1. PICK c \in Commands : c = t.cmd
    BY <1>1
  <2>2. exec[c] \in Executions
    BY <1>8, <2>1 DEF HandoffInv, TypeOK
  <2>3. PICK half : half = [exec[c] EXCEPT !.at = "settle"]
    OBVIOUS
  <2>4. PICK e : e = [half EXCEPT !.pid = t.pid]
    OBVIOUS
  <2>5. half \in Executions /\ e \in Executions /\ e # None /\ e.at = "settle" /\ e.pid = t.pid
    <3>1. half \in Executions /\ half.at = "settle"
      BY <2>2, <2>3, ExecutionMoves
    <3>2. e \in Executions /\ e.at = "settle" /\ e.pid = t.pid
      BY <1>2, <2>4, <3>1 DEF Executions
    <3> QED BY <3>1, <3>2, NoneApart
  <2>6. exec' = [exec EXCEPT ![c] = e]
    <3>1. [exec EXCEPT ![c].at = "settle"] = [exec EXCEPT ![c] = half]
      BY <2>3
    <3>2. exec' = [[exec EXCEPT ![c] = half] EXCEPT ![c].pid = t.pid]
      BY <1>8, <2>1, <3>1
    <3>3. [exec EXCEPT ![c] = half][c] = half
      BY DEF HandoffInv, TypeOK
    <3> QED BY <2>4, <3>2, <3>3 DEF HandoffInv, TypeOK
  <2>7. /\ exec' \in [Commands -> Executions \cup {None}] /\ exec'[c] = e
        /\ \A d \in Commands : d # c => exec'[d] = exec[d]
    BY <2>5, <2>6 DEF HandoffInv, TypeOK
  <2>8. TypeOK'
    <3>1. \A d \in Commands : Executing(d, "settle")' => exec'[d].pid \in DOMAIN children'
      BY <1>1, <1>2, <2>5, <2>7 DEF HandoffInv, TypeOK, Executing
    <3> QED BY <1>1, <1>3, <2>7, <3>1 DEF HandoffInv, TypeOK
  <2>9. RememberedInv'
    <3>1. Alone(c, e.pid)'
      BY <1>4, <2>1, <2>5
    <3> QED BY <1>1, <1>4, <2>5, <2>7, <3>1 DEF HandoffInv, RememberedInv, KeepsSpawned
  <2> QED BY <2>8, <2>9, <1>5, <1>6 DEF HandoffInv
<1> QED BY <1>7, <1>8 DEF Register

LEMMA PlaneCrashInv ==
    ASSUME HandoffInv, PlaneCrash
    PROVE  HandoffInv'
<1>1. /\ up' = FALSE /\ UNCHANGED <<acked, round, journal, life, now>>
      /\ exec' = [c \in Commands |-> None] /\ addressed' = exec' /\ reported' = exec'
      /\ wire' = <<>> /\ held' = EmptyTable /\ threads' = {} /\ children' = <<>>
  BY DEF PlaneCrash
<1>2. outcome' \in [Commands -> Results \cup {None}]
  BY DEF PlaneCrash, Settled
<1>3. faults' \in 0..MaxFaults
  BY FaultTyped DEF PlaneCrash
<1>4. /\ held' \in [Commands -> SUBSET Kinds] /\ \A c \in Commands : held'[c] = {} /\ exec'[c] = None
  BY <1>1 DEF EmptyTable
<1>5. TypeOK'
  <2>1. children' \in Seq(Children) /\ Len(children') <= MaxPids /\ wire' \in Seq(Frames)
    BY <1>1, BoundsAssumption
  <2> QED BY <1>1, <1>2, <1>3, <1>4, <2>1 DEF HandoffInv, TypeOK, Executing
<1>6. SnapshotsInv'
  BY <1>1, <1>4 DEF HandoffInv, SnapshotsInv, ChildHasItsSnapshots
<1>7. RememberedInv'
  BY <1>1, <1>4 DEF RememberedInv, Spawned
<1>8. SpawnInv' /\ DownInv'
  BY <1>1 DEF SpawnInv, DownInv, RespawnsOnlyUnserved
<1> QED BY <1>5, <1>6, <1>7, <1>8 DEF HandoffInv

LEMMA HandoffNext ==
    ASSUME HandoffInv, [Next]_vars
    PROVE  HandoffInv'
<1>1. CASE UNCHANGED vars
  BY <1>1 DEF vars, plane, supervisor, relay, HandoffInv, TypeOK, SnapshotsInv, ChildHasItsSnapshots,
     RememberedInv, SpawnInv, DownInv, Spawned, Alone, QueuedInv, RespawnsOnlyUnserved, Executing
<1>2. ASSUME NEW c \in Commands, KernelStep(c) PROVE HandoffInv'
  BY <1>2, KernelInv, SendFrameInv, DeliverInv DEF KernelStep
<1>3. ASSUME NEW c \in Commands, ExecutorStep(c) PROVE HandoffInv'
  BY <1>3, LookupInv, RelayTimeoutInv, IngressInv, CompleteInv, DrainInv DEF ExecutorStep
<1>4. CASE RelayStep
  BY <1>4, FrameInv, ForkInv, ForkFailsInv, ConsumeInv, RegisterInv, ReaperInv DEF RelayStep
<1>5. CASE Unreachable \/ RoundLost \/ PlaneStart \/ Tick
  BY <1>5, KernelInv
<1>6. CASE PlaneCrash
  BY <1>6, PlaneCrashInv
<1> QED BY <1>1, <1>2, <1>3, <1>4, <1>5, <1>6 DEF Next

(* Types; frames, rounds and held descriptors are of snapshots that their command
   names; what was spawned is remembered, unless its ingress did not start; and
   nothing outlives a crash of the plane. *)
THEOREM HandoffInvariance == Spec => []HandoffInv
<1>1. Init => HandoffInv
  BY InitHandoff
<1> QED BY <1>1, HandoffNext, PTL DEF Spec

(* A process that the relay forks has the descriptors of all the snapshots its
   command names and of no other, for any order of frames, replays and crashes
   (HandoffTable::consume). *)
THEOREM EveryChildHasItsSnapshots == Spec => []ChildHasItsSnapshots
<1>1. HandoffInv => ChildHasItsSnapshots
  BY DEF HandoffInv, SnapshotsInv
<1> QED BY <1>1, HandoffInvariance, PTL

(* A Start that is replayed forks a second process only after its ingress did not
   start: otherwise the executor that waits for the first, or the remembered
   outcome, answers the replay (applyCommand, effectStart). *)
THEOREM StartsRespawnOnlyUnserved == Spec => []RespawnsOnlyUnserved
<1>1. HandoffInv => RespawnsOnlyUnserved
  BY DEF HandoffInv, SpawnInv
<1> QED BY <1>1, HandoffInvariance, PTL

-----------------------------------------------------------------------------
(* The handoff implements CommandOutcome.                                  *)
(* What is executed is not completed, and the Kernel knows what the journal says. *)
OutcomeInv == \A c \in Commands :
    /\ exec[c] # None => journal[c] = "received"
    /\ acked[c] # None => acked[c] = journal[c]

LEMMA ResultForms ==
    ASSUME NEW r \in Results
    PROVE  r # "none" /\ r # "received" /\ r # None /\ (r \in Failures \/ r = "applied") /\ "applied" \notin Failures
BY NoneAssumption DEF Results, Failures

(* The journal and what is acknowledged stay; an execution may end, none begins. *)
LEMMA QuietOutcome ==
    ASSUME OutcomeInv, UNCHANGED <<journal, acked>>, \A c \in Commands : exec'[c] # None => exec[c] # None
    PROVE  OutcomeInv'
BY DEF OutcomeInv

Life(c) ==
    IF journal[c] = "received" THEN "open" ELSE IF journal[c] \in Failures THEN "rejected" ELSE journal[c]
OwnerSees == <<[c \in Starts |-> IF journal[c] = "none" THEN {} ELSE {c}],
               [c \in Commands |-> Life(c)], {c \in Commands : acked[c] # None}, {}>>

LEMMA QuietSeen ==
    ASSUME UNCHANGED <<journal, acked>>
    PROVE  UNCHANGED OwnerSees
BY DEF OwnerSees, Life

LEMMA TellStep ==
    ASSUME HandoffInv, OutcomeInv, NEW c \in Commands, Settled(c), acked' = [acked EXCEPT ![c] = journal[c]],
           UNCHANGED <<journal, exec>>
    PROVE  OutcomeInv' /\ [Promise!Next]_OwnerSees
<1>1. acked \in [Commands -> Results \cup {None}] /\ journal[c] \in Results
  BY DEF HandoffInv, TypeOK, Settled
<1>2. acked'[c] = journal[c] /\ acked'[c] # None /\ \A d \in Commands \ {c} : acked'[d] = acked[d]
  BY <1>1, ResultForms
<1>3. OutcomeInv'
  BY <1>2 DEF OutcomeInv
<1>4. {d \in Commands : acked[d] # None}' = {d \in Commands : acked[d] # None} \cup {c}
  BY <1>2
<1>5. [d \in Commands |-> Life(d)][c] \in {"applied", "rejected"}
  BY <1>1, ResultForms DEF Life
<1>6. /\ UNCHANGED [d \in Commands |-> Life(d)]
      /\ UNCHANGED [d \in Starts |-> IF journal[d] = "none" THEN {} ELSE {d}]
  BY DEF Life
<1>7. CASE acked[c] # None
  <2>1. UNCHANGED {d \in Commands : acked[d] # None}
    BY <1>4, <1>7
  <2> QED BY <1>3, <1>6, <2>1 DEF OwnerSees
<1>8. CASE acked[c] = None
  <2>1. Promise!Tell(c)
    BY <1>4, <1>5, <1>6, <1>8 DEF Promise!Tell, Life
  <2> QED BY <1>3, <2>1 DEF Promise!Next
<1> QED BY <1>3, <1>7, <1>8

LEMMA DeliverStep ==
    ASSUME HandoffInv, OutcomeInv, NEW c \in Commands, Deliver(c)
    PROVE  OutcomeInv' /\ [Promise!Next]_OwnerSees
<1>1. /\ journal \in [Commands -> Results \cup {"none", "received"}]
      /\ exec \in [Commands -> Executions \cup {None}]
  BY DEF HandoffInv, TypeOK
<1>2. /\ acked' = acked
      /\ journal' = [journal EXCEPT ![c] = IF @ = "none" THEN "received" ELSE @]
      /\ \A d \in Commands : exec'[d] # exec[d] => d = c /\ ~Settled(c)
  BY <1>1 DEF Deliver
<1>3. \A d \in Commands \ {c} : journal'[d] = journal[d]
  BY <1>1, <1>2
<1>4. journal'[c] = IF journal[c] = "none" THEN "received" ELSE journal[c]
  BY <1>1, <1>2
<1>5. OutcomeInv'
  <2>1. ~Settled(c) => journal'[c] = "received"
    BY <1>1, <1>4 DEF Settled
  <2>2. acked[c] # None => acked[c] # "none"
    <3>1. acked[c] \in Results \cup {None}
      BY DEF HandoffInv, TypeOK
    <3> QED BY <3>1, ResultForms
  <2> QED BY <1>2, <1>3, <1>4, <2>1, <2>2 DEF OutcomeInv
<1>6. CASE journal[c] # "none"
  <2>1. journal' = journal
    BY <1>1, <1>2, <1>6
  <2> QED BY <1>2, <1>5, <2>1, QuietSeen
<1>7. CASE journal[c] = "none"
  <2>1. /\ [d \in Commands |-> Life(d)][c] = "none"
        /\ [d \in Commands |-> Life(d)]' = [[d \in Commands |-> Life(d)] EXCEPT ![c] = "open"]
    BY <1>3, <1>4, <1>7 DEF Life, Failures
  <2>2. /\ c \in Starts => [d \in Starts |-> IF journal[d] = "none" THEN {} ELSE {d}][c] = {}
        /\ [d \in Starts |-> IF journal[d] = "none" THEN {} ELSE {d}]'
             = [[d \in Starts |-> IF journal[d] = "none" THEN {} ELSE {d}] EXCEPT ![c] = {c}]
    BY <1>3, <1>4, <1>7, CommandsAssumption
  <2>3. c \notin Starts => UNCHANGED [d \in Starts |-> IF journal[d] = "none" THEN {} ELSE {d}]
    BY <1>3, CommandsAssumption
  <2>4. Promise!Authorize(c)
    <3>1. CASE c \in Starts
      BY <1>2, <2>1, <2>2, <3>1 DEF Promise!Authorize, Life
    <3>2. CASE c \notin Starts
      BY <1>2, <2>1, <2>3, <3>2 DEF Promise!Authorize, Life
    <3> QED BY <3>1, <3>2
  <2> QED BY <1>5, <2>4 DEF Promise!Next
<1> QED BY <1>6, <1>7

LEMMA CompleteStep ==
    ASSUME HandoffInv, OutcomeInv, NEW c \in Commands, Complete(c)
    PROVE  OutcomeInv' /\ [Promise!Next]_OwnerSees
<1>1. /\ journal \in [Commands -> Results \cup {"none", "received"}] /\ acked \in [Commands -> Results \cup {None}]
      /\ exec \in [Commands -> Executions \cup {None}] /\ outcome \in [Commands -> Results \cup {None}]
      /\ exec[c] # None /\ exec[c].at = "done" /\ outcome[c] # None
  BY DEF HandoffInv, TypeOK, RememberedInv, Complete, Executing
<1>2. /\ journal[c] = "received" /\ acked[c] = None /\ outcome[c] \in Results
  BY <1>1, ResultForms DEF OutcomeInv
<1>3. /\ journal'[c] = outcome[c] /\ exec'[c] = None /\ acked' = acked
      /\ \A d \in Commands \ {c} : journal'[d] = journal[d] /\ exec'[d] = exec[d]
  BY <1>1 DEF Complete
<1>4. OutcomeInv'
  BY <1>2, <1>3 DEF OutcomeInv
<1>5. PICK o : o = IF outcome[c] \in Failures THEN "rejected" ELSE "applied"
  OBVIOUS
<1>6. /\ [d \in Commands |-> Life(d)][c] = "open"
      /\ [d \in Commands |-> Life(d)]' = [[d \in Commands |-> Life(d)] EXCEPT ![c] = o]
  BY <1>2, <1>3, <1>5, ResultForms DEF Life
<1>7. UNCHANGED [d \in Starts |-> IF journal[d] = "none" THEN {} ELSE {d}]
  BY <1>2, <1>3, ResultForms, CommandsAssumption
<1>8. Promise!Decide(c)
  BY <1>3, <1>5, <1>6, <1>7 DEF Promise!Decide, Life
<1> QED BY <1>4, <1>8 DEF Promise!Next

LEMMA EveryOutcomeStep ==
    ASSUME HandoffInv, OutcomeInv, [Next]_vars
    PROVE  OutcomeInv' /\ [Promise!Next]_OwnerSees
<1> USE DEF Executing
<1>0. /\ exec \in [Commands -> Executions \cup {None}] /\ None \notin Executions
      /\ \A t \in threads : t.cmd \in Commands
  BY NoneApart, CommandsAssumption DEF HandoffInv, TypeOK, Threads
<1>1. ASSUME NEW c \in Commands, ProjectCompleted(c) \/ ReceiveReply(c) PROVE OutcomeInv' /\ [Promise!Next]_OwnerSees
  BY <1>1, TellStep DEF ProjectCompleted, ReceiveReply, KernelRest, plane, supervisor
<1>2. ASSUME NEW c \in Commands, Deliver(c) PROVE OutcomeInv' /\ [Promise!Next]_OwnerSees
  BY <1>2, DeliverStep
<1>3. ASSUME NEW c \in Commands, Complete(c) PROVE OutcomeInv' /\ [Promise!Next]_OwnerSees
  BY <1>3, CompleteStep
<1>4. ASSUME UNCHANGED <<journal, acked>>, \A d \in Commands : exec'[d] # None => exec[d] # None
      PROVE  OutcomeInv' /\ [Promise!Next]_OwnerSees
  BY <1>4, QuietOutcome, QuietSeen
<1>5. ASSUME NEW c \in Commands, NEW kind \in Kinds, BeginRound(c) \/ SendFrame(c, kind) \/ GiveUp(c)
      PROVE OutcomeInv' /\ [Promise!Next]_OwnerSees
  BY <1>4, <1>5 DEF BeginRound, SendFrame, GiveUp, KernelRest, plane, supervisor
<1>6. ASSUME NEW c \in Commands, Lookup(c) \/ RelayTimeout(c) \/ Settle(c) \/ SettleFails(c) \/ IngressFails(c) \/ CompleteFails(c) \/ Drain(c)
      PROVE OutcomeInv' /\ [Promise!Next]_OwnerSees
  <2>1. UNCHANGED <<journal, acked>>
    BY <1>6 DEF Lookup, RelayTimeout, Settle, SettleFails, IngressFails, CompleteFails, Drain, ExecutorRest
  <2>2. \A d \in Commands : exec'[d] # None => exec[d] # None
    BY <1>0, <1>6 DEF Lookup, RelayTimeout, Settle, SettleFails, IngressFails, CompleteFails, Drain, Conclude
  <2> QED BY <1>4, <2>1, <2>2
<1>7. ASSUME NEW t \in threads, Fork(t) \/ ForkFails(t) \/ Consume(t) \/ Register(t)
      PROVE OutcomeInv' /\ [Promise!Next]_OwnerSees
  <2>1. UNCHANGED <<journal, acked>>
    BY <1>7 DEF Fork, ForkFails, Consume, Register, RelayRest
  <2>2. \A d \in Commands : exec'[d] # None => exec[d] # None
    BY <1>0, <1>7 DEF Fork, ForkFails, Consume, Register, Conclude
  <2> QED BY <1>4, <2>1, <2>2
<1>8. ASSUME HandleFrame \/ RefuseFrame \/ \E p \in DOMAIN children : ChildExits(p) \/ Reap(p)
      PROVE OutcomeInv' /\ [Promise!Next]_OwnerSees
  BY <1>4, <1>8 DEF HandleFrame, RefuseFrame, ChildExits, Reap, RelayRest, supervisor
<1>9. CASE Unreachable \/ RoundLost \/ PlaneStart \/ Tick \/ UNCHANGED vars
  BY <1>4, <1>9 DEF Unreachable, RoundLost, PlaneStart, Tick, KernelRest, vars, plane, supervisor
<1>10. CASE PlaneCrash
  BY <1>4, <1>10 DEF PlaneCrash
<1>11. Kinds # {}
  BY DEF Kinds
<1> QED BY <1>1, <1>2, <1>3, <1>5, <1>6, <1>7, <1>8, <1>9, <1>10, <1>11
        DEF Next, KernelStep, ExecutorStep, RelayStep

(* Whatever is lost, repeated, timed out or restarted between a command and its
   process, the owner sees one life of it: applyCommand writes a result to the
   journal once, and run_outbox_delivery acknowledges the one that was written,
   also when the answer is to a replay. *)
THEOREM RefinesPromise == Spec => ImplementsPromise
<1>1. Init => OutcomeInv /\ Promise!Init
  <2>1. ASSUME Init
        PROVE  /\ \A c \in Commands : journal[c] = "none" /\ acked[c] = None /\ exec[c] = None
               /\ "none" \notin Failures
    BY <2>1 DEF Init, Failures
  <2>2. ASSUME Init PROVE OutcomeInv
    BY <2>1, <2>2 DEF OutcomeInv
  <2>3. ASSUME Init PROVE Promise!Init
    BY <2>1, <2>3, CommandsAssumption DEF Promise!Init
  <2> QED BY <2>2, <2>3
<1>2. HandoffInv /\ OutcomeInv /\ [Next]_vars => OutcomeInv' /\ [Promise!Next]_OwnerSees
  BY EveryOutcomeStep
<1> QED BY <1>1, <1>2, HandoffInvariance, PTL DEF Spec, ImplementsPromise, Promise!Spec, OwnerSees, Life

-----------------------------------------------------------------------------
(* The processes of an application.                                        *)

(* Who answers for the pidfile: a spawn in its pause, or else what is tracked;
   what is tracked does not while the sandbox is being spawned again. *)
Accounts(s) ==
    \/ settling[s] # Nobody /\ Reported(s) = pidfile
    \/ settling[s] = Nobody /\ executions[s] # Nobody /\ PidOf(s) = pidfile

RuntimeInv == RuntimeTypeOK /\ (pidfile = Nobody \/ \E s \in Sandboxes : Accounts(s))

(* ProcRecords are only added. *)
LEMMA BeginFacts ==
    ASSUME RuntimeTypeOK, NEW p \in ProcPids, NEW s \in Sandboxes \cup {Nobody}, Begin(p, s)
    PROVE  /\ procs' \in Seq(ProcRecords) /\ Len(procs') <= MaxProcs
           /\ vsize' \in Seq(VSizes) /\ Len(vsize') = Len(procs') /\ moves' \in 0..MaxMoves
           /\ alive' \subseteq DOMAIN procs'
           /\ \A i, j \in alive' : procs'[i].pid = procs'[j].pid => i = j
           /\ DOMAIN procs \subseteq DOMAIN procs' /\ \A i \in DOMAIN procs : procs'[i] = procs[i]
           /\ Len(procs) + 1 \in DOMAIN procs' /\ procs'[Len(procs) + 1].pid = p
           /\ Len(procs) + 1 # Nobody
<1>1. PICK r : r = [pid |-> p, box |-> s]
  OBVIOUS
<1>2. r \in ProcRecords /\ r.pid = p
  BY <1>1 DEF ProcRecords
<1>3. /\ procs \in Seq(ProcRecords) /\ Len(procs) \in Nat /\ vsize \in Seq(VSizes) /\ Len(vsize) = Len(procs)
      /\ DOMAIN procs = 1..Len(procs) /\ MaxProcs \in Nat /\ Len(procs) < MaxProcs
  BY RuntimeBounds DEF RuntimeTypeOK, Begin
<1>4. procs' = Append(procs, r) /\ alive' = alive \cup {Len(procs) + 1} /\ moves' = moves
  BY <1>1 DEF Begin
<1>5. PICK v \in VSizes : vsize' = Append(vsize, v)
  BY DEF Begin
<1>6. /\ procs' \in Seq(ProcRecords) /\ Len(procs') = Len(procs) + 1 /\ DOMAIN procs' = 1..(Len(procs) + 1)
      /\ \A i \in 1..Len(procs) : procs'[i] = procs[i]
      /\ procs'[Len(procs) + 1] = r
  BY <1>2, <1>3, <1>4
<1>7. vsize' \in Seq(VSizes) /\ Len(vsize') = Len(vsize) + 1
  BY <1>3, <1>5
<1>8. \A i \in alive : procs[i].pid # p
  BY DEF Begin, Holder
<1>9. \A i, j \in alive' : procs'[i].pid = procs'[j].pid => i = j
  BY <1>2, <1>3, <1>4, <1>6, <1>8 DEF RuntimeTypeOK
<1>10. /\ DOMAIN procs \subseteq DOMAIN procs' /\ Len(procs) + 1 \in DOMAIN procs' /\ Len(procs') <= MaxProcs
  BY <1>3, <1>6
<1>12. Len(procs) + 1 \in ProcIds
  BY <1>3 DEF ProcIds
<1>13. Len(procs) + 1 # Nobody
  BY <1>12, RuntimeNobody
<1>11. alive' \subseteq DOMAIN procs'
  BY <1>4, <1>10 DEF RuntimeTypeOK
<1> QED BY <1>2, <1>3, <1>4, <1>6, <1>7, <1>9, <1>10, <1>11, <1>13 DEF RuntimeTypeOK

(* Whoever accounts still does when processes are added and the sandbox is left
   alone. *)
LEMMA StaysAccounted ==
    ASSUME RuntimeTypeOK, NEW s \in Sandboxes, Accounts(s), UNCHANGED pidfile,
           \A i \in DOMAIN procs : procs'[i] = procs[i],
           settling'[s] = settling[s],
           settling[s] = Nobody => executions'[s] # Nobody /\ executions'[s].proc = executions[s].proc
    PROVE  Accounts(s)'
BY DEF Accounts, Reported, PidOf, RuntimeTypeOK

(* A stop takes the pidfile with it if the sandbox was the one to account for it. *)
LEMMA ForgetInv ==
    ASSUME RuntimeInv, NEW s \in Sandboxes, executions[s] # Nobody, Forget(s),
           alive' \subseteq alive, UNCHANGED <<procs, vsize, moves>>
    PROVE  RuntimeInv'
<1>1. /\ executions' = [executions EXCEPT ![s] = Nobody] /\ UNCHANGED settling
      /\ pidfile' = IF pidfile = PidOf(s) THEN Nobody ELSE pidfile
  BY DEF Forget
<1>2. RuntimeTypeOK'
  BY <1>1 DEF RuntimeInv, RuntimeTypeOK
<1>3. ASSUME pidfile' # Nobody PROVE \E t \in Sandboxes : Accounts(t)'
  <2>1. UNCHANGED pidfile /\ pidfile # PidOf(s)
    BY <1>1, <1>3
  <2>2. PICK t \in Sandboxes : Accounts(t)
    BY <1>3, <2>1 DEF RuntimeInv
  <2>3. settling[t] = Nobody => t # s
    BY <2>1, <2>2 DEF Accounts
  <2>4. settling[t] = Nobody => executions'[t] # Nobody /\ executions'[t].proc = executions[t].proc
    BY <1>1, <2>2, <2>3 DEF Accounts, RuntimeInv, RuntimeTypeOK
  <2>5. Accounts(t)'
    BY <1>1, <2>1, <2>2, <2>4, StaysAccounted DEF RuntimeInv
  <2> QED BY <2>5
<1> QED BY <1>2, <1>3 DEF RuntimeInv

LEMMA SendInv ==
    ASSUME RuntimeInv, NEW s \in Sandboxes, executions[s] # Nobody,
           NEW signal \in {"none", "term", "kill"}, Send(s, signal),
           alive' \subseteq alive, UNCHANGED <<procs, vsize, moves, pidfile, settling>>
    PROVE  RuntimeInv'
<1>1. executions' = [executions EXCEPT ![s].sent = signal] /\ executions[s] \in Tracked
  BY DEF Send, RuntimeInv, RuntimeTypeOK
<1>2. PICK e : e = [executions[s] EXCEPT !.sent = signal]
  OBVIOUS
<1>3. e \in Tracked /\ e.proc = executions[s].proc /\ executions' = [executions EXCEPT ![s] = e]
  BY <1>1, <1>2 DEF Tracked
<1>4. e # Nobody
  BY <1>3, RuntimeNobody
<1>5. RuntimeTypeOK'
  BY <1>1, <1>3 DEF RuntimeInv, RuntimeTypeOK, Tracked
<1>6. ASSUME pidfile' # Nobody PROVE \E t \in Sandboxes : Accounts(t)'
  <2>1. PICK t \in Sandboxes : Accounts(t)
    BY <1>6 DEF RuntimeInv
  <2>2. settling[t] = Nobody => executions'[t] # Nobody /\ executions'[t].proc = executions[t].proc
    BY <1>1, <1>3, <1>4, <2>1 DEF Accounts, RuntimeInv, RuntimeTypeOK
  <2>3. Accounts(t)'
    BY <2>1, <2>2, StaysAccounted DEF RuntimeInv
  <2> QED BY <2>3
<1> QED BY <1>5, <1>6 DEF RuntimeInv

LEMMA EndsFacts ==
    ASSUME NEW is, Ends(is) \/ UNCHANGED node
    PROVE  alive' \subseteq alive /\ UNCHANGED <<procs, vsize, moves>>
BY DEF Ends, node

LEMMA StopsInv ==
    ASSUME RuntimeInv, NEW s \in Sandboxes, Stops(s)
    PROVE  RuntimeInv'
<1>1. executions[s] # Nobody
  BY DEF Stops, Disowned, Terminate, ForceKill, Exited, Survives, Sent
<1>2. CASE Disowned(s) \/ Exited(s) \/ (Survives(s) /\ Forget(s))
  <2>1. Forget(s) /\ UNCHANGED node
    BY <1>2 DEF Disowned, Exited, Forget
  <2> QED BY <1>1, <2>1, ForgetInv DEF node
<1>3. CASE Terminate(s)
  BY <1>1, <1>3, EndsFacts, SendInv DEF Terminate
<1>4. CASE ForceKill(s)
  BY <1>1, <1>4, EndsFacts, SendInv DEF ForceKill
<1>5. CASE Survives(s) /\ ~Forget(s)
  BY <1>1, <1>5, EndsFacts, SendInv DEF Survives
<1> QED BY <1>2, <1>3, <1>4, <1>5 DEF Stops

LEMMA ProcessSpawnInv ==
    ASSUME RuntimeInv, NEW s \in Sandboxes, NEW p \in ProcPids, Spawn(s, p)
    PROVE  RuntimeInv'
<1>1. PICK n : n = Len(procs) + 1
  OBVIOUS
<1>2. Begin(p, s) /\ UNCHANGED executions
  BY DEF Spawn
<1>3. /\ n \in DOMAIN procs' /\ procs'[n].pid = p /\ n # Nobody
      /\ DOMAIN procs \subseteq DOMAIN procs' /\ \A i \in DOMAIN procs : procs'[i] = procs[i]
  BY <1>1, <1>2, BeginFacts DEF RuntimeInv
<1>4. RuntimeTypeOK'
  <2>1. /\ settling' \in [Sandboxes -> DOMAIN procs' \cup {Nobody}] /\ pidfile' \in ProcPids \cup {Nobody}
    BY <1>1, <1>3 DEF Spawn, RuntimeInv, RuntimeTypeOK
  <2> QED BY <1>2, <1>3, <2>1, BeginFacts DEF RuntimeInv, RuntimeTypeOK
<1>5. CASE pidfile' = p /\ settling' = [settling EXCEPT ![s] = Len(procs) + 1]
  <2>1. settling'[s] = n
    BY <1>1, <1>5 DEF RuntimeInv, RuntimeTypeOK
  <2>2. Accounts(s)'
    BY <1>3, <1>5, <2>1 DEF Accounts, Reported
  <2> QED BY <1>4, <2>2 DEF RuntimeInv
<1>6. CASE UNCHANGED <<pidfile, settling>>
  <2>1. ASSUME NEW t \in Sandboxes, Accounts(t) PROVE Accounts(t)'
    BY <1>2, <1>3, <1>6, <2>1, StaysAccounted DEF Accounts, RuntimeInv
  <2> QED BY <1>4, <1>6, <2>1 DEF RuntimeInv
<1> QED BY <1>5, <1>6 DEF Spawn

LEMMA TrackInv ==
    ASSUME RuntimeInv, NEW s \in Sandboxes, Track(s)
    PROVE  RuntimeInv'
<1>1. PICK t \in VSizes \cup {Nobody} :
        executions' = [executions EXCEPT ![s] = [proc |-> settling[s], ticks |-> t, sent |-> "none"]]
  <2>1. \A p : StartTicks(p) \subseteq VSizes
    BY DEF StartTicks, Holder, RuntimeInv, RuntimeTypeOK
  <2> QED BY <2>1 DEF Track
<1>2. PICK e : e = [proc |-> settling[s], ticks |-> t, sent |-> "none"]
  OBVIOUS
<1>3. /\ settling[s] # Nobody /\ settling[s] \in DOMAIN procs /\ settling' = [settling EXCEPT ![s] = Nobody]
      /\ UNCHANGED <<procs, alive, vsize, moves, pidfile>>
  BY DEF Track, node, RuntimeInv, RuntimeTypeOK
<1>4. settling[s] \in ProcIds
  BY <1>3, RuntimeBounds DEF RuntimeInv, RuntimeTypeOK, ProcIds
<1>5. e \in Tracked /\ e # Nobody /\ e.proc = settling[s]
  BY <1>2, <1>4, RuntimeNobody DEF Tracked
<1>6. executions' = [executions EXCEPT ![s] = e]
  BY <1>1, <1>2
<1>7. RuntimeTypeOK'
  BY <1>3, <1>5, <1>6 DEF RuntimeInv, RuntimeTypeOK
<1>8. ASSUME NEW u \in Sandboxes, Accounts(u) PROVE Accounts(u)'
  <2>1. CASE u = s
    BY <1>3, <1>5, <1>6, <1>8, <2>1 DEF Accounts, Reported, PidOf, RuntimeInv, RuntimeTypeOK
  <2>2. CASE u # s
    <3>1. settling'[u] = settling[u] /\ executions'[u] = executions[u]
      BY <1>3, <1>6, <2>2 DEF RuntimeInv, RuntimeTypeOK
    <3> QED BY <1>3, <1>8, <3>1 DEF Accounts, Reported, PidOf
  <2> QED BY <2>1, <2>2
<1> QED BY <1>3, <1>7, <1>8 DEF RuntimeInv

LEMMA OtherInv ==
    ASSUME RuntimeInv, NEW t, UNCHANGED <<pidfile, settling, executions>>,
           \/ t \in ProcPids /\ Stranger(t)
           \/ t \in alive /\ (Exit(t) \/ Remap(t))
           \/ UNCHANGED runtimeVars
    PROVE  RuntimeInv'
<1>1. RuntimeTypeOK' /\ \A i \in DOMAIN procs : procs'[i] = procs[i]
  <2>1. CASE t \in ProcPids /\ Stranger(t)
    <3>1. Begin(t, Nobody)
      BY <2>1 DEF Stranger
    <3> QED BY <2>1, <3>1, BeginFacts DEF RuntimeInv, RuntimeTypeOK
  <2>2. CASE t \in alive /\ Exit(t)
    BY <2>2, EndsFacts DEF Exit, RuntimeInv, RuntimeTypeOK
  <2>3. CASE t \in alive /\ Remap(t)
    <3>1. PICK v \in VSizes : vsize' = [vsize EXCEPT ![t] = v]
      BY <2>3 DEF Remap
    <3>2. vsize' \in Seq(VSizes) /\ Len(vsize') = Len(vsize)
      <4>1. vsize \in Seq(VSizes) /\ t \in 1..Len(vsize)
        BY <2>3 DEF RuntimeInv, RuntimeTypeOK
      <4> QED BY <3>1, <4>1
    <3>3. moves' \in 0..MaxMoves
      BY <2>3, RuntimeBounds DEF Remap, RuntimeInv, RuntimeTypeOK
    <3> QED BY <2>3, <3>2, <3>3 DEF Remap, RuntimeInv, RuntimeTypeOK
  <2>4. CASE UNCHANGED runtimeVars
    BY <2>4 DEF runtimeVars, node, RuntimeInv, RuntimeTypeOK
  <2> QED BY <2>1, <2>2, <2>3, <2>4
<1>2. ASSUME NEW s \in Sandboxes, Accounts(s) PROVE Accounts(s)'
  BY <1>1, <1>2, StaysAccounted DEF Accounts, RuntimeInv
<1> QED BY <1>1, <1>2 DEF RuntimeInv

(* The pidfile of an application names only a pid that the supervisor answers for,
   in whatever order executions are spawned, spawned again, fail in the pause, end
   and are stopped, and whoever takes a pid (createProcessWasmSandboxRuntime):
   Kernel's watchdog is not led to a pid that was given back. *)
THEOREM PidfileStaysAccounted == RuntimeSpec => [](RuntimeTypeOK /\ PidfileIsAccounted)
<1>1. RuntimeInit => RuntimeInv
  BY RuntimeBounds DEF RuntimeInit, RuntimeInv, RuntimeTypeOK
<1>2. RuntimeInv /\ [RuntimeNext]_runtimeVars => RuntimeInv'
  <2> SUFFICES ASSUME RuntimeInv, [RuntimeNext]_runtimeVars
               PROVE  RuntimeInv'
    OBVIOUS
  <2>1. ASSUME NEW s \in Sandboxes, SpawnFails(s) PROVE RuntimeInv'
    BY <2>1 DEF SpawnFails, node, RuntimeInv, RuntimeTypeOK
  <2>2. ASSUME NEW p \in ProcPids, Stranger(p) PROVE RuntimeInv'
    BY <2>2, OtherInv DEF Stranger
  <2>3. ASSUME NEW i \in alive, Exit(i) \/ Remap(i) PROVE RuntimeInv'
    BY <2>3, OtherInv DEF Exit, Remap
  <2>4. CASE UNCHANGED runtimeVars
    BY <2>4, OtherInv DEF runtimeVars
  <2> QED BY <2>1, <2>2, <2>3, <2>4, ProcessSpawnInv, TrackInv, StopsInv DEF RuntimeNext
<1>3. RuntimeInv => RuntimeTypeOK /\ PidfileIsAccounted
  BY DEF RuntimeInv, Accounts, PidfileIsAccounted
<1> QED BY <1>1, <1>2, <1>3, PTL DEF RuntimeSpec

=============================================================================
