----------------------------- MODULE OwnerKeys -----------------------------
(***************************************************************************)
(* The store of delegated owner keys, keys.rs: every create and every ban  *)
(* is a transaction over three files of one directory,                     *)
(*                                                                         *)
(*   keys.pending   the intent, with the digest of the snapshot before     *)
(*                  and after,                                             *)
(*   keys.json      the snapshot, replaced as a whole,                     *)
(*   audit.log      an append-only log of lines,                           *)
(*                                                                         *)
(* under a writer mutex, with a copy of the snapshot in memory that        *)
(* answers authentication.  A start reads the snapshot and settles an      *)
(* intent it finds.                                                        *)
(*                                                                         *)
(* A call is named by its number; a created key has the number of its      *)
(* call, and a ban writes a time stamp of its own, here its number.  Not   *)
(* modelled: expiry, labels, secrets, the rotation of audit segments and   *)
(* the two phases of an intent, which no reader tells apart.               *)
(***************************************************************************)
EXTENDS Naturals, Sequences

CONSTANTS
    MaxCalls,      \* mutations ever asked for (bound of the model)
    MaxErrors,     \* I/O errors and power losses (bound of the model)
    Nil

ASSUME BoundsAssumption == MaxCalls \in Nat /\ MaxErrors \in Nat

VARIABLES
    disk,      \* the directory as a reader sees it: keys.pending and keys.json
    loss,      \* the directories a power loss may leave
    audit,     \* the lines of audit.log, all segments
    torn,      \* whether audit.log ends in a line without its newline
    memory,    \* Inner.keys
    damaged,   \* Inner.damaged
    mode,      \* where a start stands, or serving
    txn,       \* the commit that holds the writer mutex
    calls,     \* what became of every call
    blind,     \* whether a start has ever missed a snapshot that is there (history)
    faults

files == <<disk, loss, audit, torn>>
inner == <<memory, damaged, mode, txn>>
keysVars == <<files, inner, calls, blind, faults>>

Calls == 1..MaxCalls
Keys == Calls
Snapshots == [issued : SUBSET Keys, bannedBy : [Keys -> 0..MaxCalls]]
Intents == [call : Calls, before : Snapshots, after : Snapshots]
Directories == [pending : Intents \cup {Nil}, snapshot : Snapshots]
Stages == {"intent", "snapshot", "phase2", "audit", "remove", "publish",
           "rollback", "aborted", "discard"}
Events == {"create", "ban"}
Lines == [call : Calls, kind : Events \cup {"aborted"}, whole : BOOLEAN]
Commits == [call : Calls, at : Stages, before : Snapshots, after : Snapshots]

ASSUME NoneAssumption == Nil \notin Intents \cup Commits

NoKeys == [issued |-> {}, bannedBy |-> [k \in Keys |-> 0]]

KeysInit ==
    /\ disk = [pending |-> Nil, snapshot |-> NoKeys]
    /\ loss = {disk}
    /\ audit = <<>> /\ torn = FALSE
    /\ memory = NoKeys /\ damaged = FALSE /\ mode = "serving" /\ txn = Nil
    /\ calls = [c \in Calls |-> [op |-> "create", key |-> c, state |-> "unborn"]]
    /\ blind = FALSE /\ faults = 0

Fault == faults < MaxErrors /\ faults' = faults + 1

-----------------------------------------------------------------------------
(* The files. *)

(* A file is replaced through a temporary file, a rename and an fsync of the
   directory; an error leaves the old file, or the new one not yet safe from
   a power loss. *)
Replaced(directory) == disk' = directory /\ loss' = {directory}
NotReplaced(directory) ==
    /\ Fault
    /\ \/ UNCHANGED <<disk, loss>>
       \/ disk' = directory /\ loss' = loss \cup {directory}

Pending(intent) == [disk EXCEPT !.pending = intent]
Snapshot(keys) == [disk EXCEPT !.snapshot = keys]

(* remove_file is followed by no fsync of the directory. *)
Removed == disk' = Pending(Nil) /\ loss' = loss \cup {disk'}

(* append_audit_locked_with_txn: a torn line misses part of its JSON, and what
   is appended to it cannot be parsed.  Success ends with an fsync of the
   directory. *)
Line(call, kind) == [call |-> call, kind |-> kind, whole |-> ~torn]
Appended(call, kind) ==
    /\ audit' = Append(audit, Line(call, kind)) /\ torn' = FALSE
    /\ loss' = {disk}

(* An error before, in the middle of and after the line. *)
NotAppended(call, kind) ==
    /\ Fault
    /\ \/ UNCHANGED <<audit, torn>>
       \/ torn' = TRUE /\ UNCHANGED audit
       \/ audit' = Append(audit, Line(call, kind)) /\ torn' = FALSE
    /\ UNCHANGED loss

HasLine(call, kinds) ==
    \E i \in DOMAIN audit : audit[i].call = call /\ audit[i].kind \in kinds /\ audit[i].whole

-----------------------------------------------------------------------------
(* A mutation: create and ban up to the writer mutex, then commit. *)

Become(c, state) == [calls EXCEPT ![c].state = state]

(* The check of the damaged flag comes before the mutex. *)
Begin(c, op, key) ==
    /\ mode = "serving" /\ ~damaged
    /\ calls[c].state = "unborn" /\ \A d \in 1..(c - 1) : calls[d].state # "unborn"
    /\ IF op = "create" THEN key = c ELSE key < c /\ calls[key].op = "create"
    /\ calls' = [calls EXCEPT ![c] = [op |-> op, key |-> key, state |-> "waiting"]]
    /\ UNCHANGED <<files, inner, blind, faults>>

Mutated(c) ==
    IF calls[c].op = "create" THEN [memory EXCEPT !.issued = @ \cup {c}]
    ELSE [memory EXCEPT !.bannedBy[calls[c].key] = IF @ = 0 THEN c ELSE @]

Waiting(c) == mode = "serving" /\ calls[c].state = "waiting"

TakeMutex(c) ==
    /\ Waiting(c) /\ txn = Nil
    /\ calls[c].op = "ban" => calls[c].key \in memory.issued
    /\ txn' = [call |-> c, at |-> "intent", before |-> memory, after |-> Mutated(c)]
    /\ calls' = Become(c, "writing")
    /\ UNCHANGED <<files, memory, damaged, mode, blind, faults>>

(* UNKNOWN_KEY. *)
RefuseUnknown(c) ==
    /\ Waiting(c) /\ txn = Nil
    /\ calls[c].op = "ban" /\ calls[c].key \notin memory.issued
    /\ calls' = Become(c, "refused")
    /\ UNCHANGED <<files, inner, blind, faults>>

At(stage) == txn # Nil /\ txn.at = stage
Goto(stage) == txn' = [txn EXCEPT !.at = stage] /\ UNCHANGED <<damaged, calls>>
Intent == [call |-> txn.call, before |-> txn.before, after |-> txn.after]
Rest == UNCHANGED <<memory, mode, blind>>

(* The call is answered 503 and the mutex released. *)
Fail == txn' = Nil /\ calls' = Become(txn.call, "failed")
FailDamaged == Fail /\ damaged' = TRUE

WriteIntent ==
    /\ At("intent") \/ At("phase2")
    /\ Replaced(Pending(Intent))
    /\ Goto(IF txn.at = "intent" THEN "snapshot" ELSE "audit")
    /\ UNCHANGED <<audit, torn, faults>> /\ Rest

WriteSnapshot ==
    /\ At("snapshot")
    /\ Replaced(Snapshot(txn.after))
    /\ Goto("phase2")
    /\ UNCHANGED <<audit, torn, faults>> /\ Rest

Bug_GoesOnUndamaged ==
    /\ \/ (At("intent") \/ At("phase2")) /\ NotReplaced(Pending(Intent))
       \/ At("snapshot") /\ NotReplaced(Snapshot(txn.after))
    /\ Fail
    /\ UNCHANGED <<audit, torn, damaged>> /\ Rest

(* An error of any of the three writes. *)
WriteError ==
    /\ \/ (At("intent") \/ At("phase2")) /\ NotReplaced(Pending(Intent))
       \/ At("snapshot") /\ NotReplaced(Snapshot(txn.after))
    /\ FailDamaged
    /\ UNCHANGED <<audit, torn>> /\ Rest

AppendEvent ==
    /\ At("audit")
    /\ \/ Appended(txn.call, calls[txn.call].op) /\ Goto("remove") /\ UNCHANGED faults
       \/ NotAppended(txn.call, calls[txn.call].op) /\ Goto("rollback")
    /\ UNCHANGED disk /\ Rest

(* The event could not be logged: back to the snapshot before. *)
Rollback ==
    /\ At("rollback")
    /\ \/ Replaced(Snapshot(txn.before)) /\ Goto("aborted") /\ UNCHANGED faults
       \/ NotReplaced(Snapshot(txn.before)) /\ FailDamaged
    /\ UNCHANGED <<audit, torn>> /\ Rest

AppendAborted ==
    /\ At("aborted")
    /\ \/ Appended(txn.call, "aborted") /\ Goto("discard") /\ UNCHANGED faults
       \/ NotAppended(txn.call, "aborted") /\ FailDamaged
    /\ UNCHANGED disk /\ Rest

DiscardIntent ==
    /\ At("discard")
    /\ \/ Removed /\ Fail /\ UNCHANGED <<damaged, faults>>
       \/ Fault /\ FailDamaged /\ UNCHANGED <<disk, loss>>
    /\ UNCHANGED <<audit, torn>> /\ Rest

(* The mutation is committed, whether or not its intent can be removed. *)
RemoveIntent ==
    /\ At("remove")
    /\ txn' = [txn EXCEPT !.at = "publish"]
    /\ \/ Removed /\ UNCHANGED <<damaged, faults>>
       \/ Fault /\ damaged' = TRUE /\ UNCHANGED <<disk, loss>>
    /\ UNCHANGED <<audit, torn, calls>> /\ Rest

Bug_MemoryForgotten ==
    /\ At("publish")
    /\ txn' = Nil
    /\ calls' = Become(txn.call, "ok")
    /\ UNCHANGED <<files, memory, damaged, mode, blind, faults>>

(* The new keys answer authentication; the call is answered. *)
Publish ==
    /\ At("publish")
    /\ memory' = txn.after /\ txn' = Nil
    /\ calls' = Become(txn.call, "ok")
    /\ UNCHANGED <<files, damaged, mode, blind, faults>>

(* record_request logs any control request, in a damaged store too; its own
   line is of no interest here, only how it leaves the end of the log. *)
RecordRequest ==
    /\ mode = "serving" /\ txn = Nil
    /\ \/ torn' = FALSE /\ loss' = {disk} /\ UNCHANGED faults
       \/ torn' = TRUE /\ Fault /\ UNCHANGED loss
    /\ UNCHANGED <<disk, audit, inner, calls, blind>>

-----------------------------------------------------------------------------
(* Crash and start. *)

Die ==
    /\ mode # "down" /\ mode' = "down"
    /\ txn' = Nil /\ memory' = NoKeys /\ damaged' = FALSE
    /\ calls' = [c \in Calls |-> IF calls[c].state \in {"waiting", "writing"}
                                 THEN [calls[c] EXCEPT !.state = "lost"] ELSE calls[c]]
    /\ UNCHANGED <<audit, blind>>

(* The process dies, or is restarted; a line being appended may stay torn. *)
Appending == At("audit") \/ At("aborted") \/ mode \in {"audit", "aborted"}
KeysCrash ==
    /\ Die
    /\ \/ UNCHANGED <<torn, faults>>
       \/ Appending /\ torn' = TRUE /\ Fault
    /\ UNCHANGED <<disk, loss>>

PowerLoss ==
    /\ Die /\ Fault
    /\ \E directory \in loss : Replaced(directory)
    /\ torn' \in {torn, torn \/ Appending}

(* reconcile_pending: which line the intent still needs, if any; it is compared
   with what the start has read of the snapshot. *)
Bug_AppliedIsDone(intent, snapshot) ==
    IF snapshot = intent.after THEN "remove"
    ELSE IF snapshot = intent.before
         THEN IF HasLine(intent.call, {"aborted"}) THEN "remove" ELSE "aborted"
    ELSE "unmatched"

Verdict(intent, snapshot) ==
    IF snapshot = intent.after
    THEN IF HasLine(intent.call, Events \cup {"aborted"}) THEN "remove" ELSE "audit"
    ELSE IF snapshot = intent.before
         THEN IF HasLine(intent.call, {"aborted"}) THEN "remove" ELSE "aborted"
    ELSE "unmatched"

Start(snapshot) ==
    /\ mode = "down"
    /\ memory' = snapshot
    /\ LET verdict == IF disk.pending = Nil THEN "serving" ELSE Verdict(disk.pending, snapshot)
       IN /\ mode' = IF verdict = "unmatched" THEN "serving" ELSE verdict
          /\ damaged' = (verdict = "unmatched")
    /\ UNCHANGED <<files, txn, calls>>

LoadKeys == Start(disk.snapshot) /\ UNCHANGED <<blind, faults>>

(* The snapshot cannot be read, or not even be asked for (path.exists), and is
   taken for one that does not exist yet: an empty store, and not a damaged one. *)
LoadBlind == Start(NoKeys) /\ blind' = TRUE /\ Fault

(* A snapshot that can neither be read the second time, an intent or a segment
   that cannot be read. *)
LoadError ==
    /\ mode = "down" /\ Fault
    /\ memory' \in {NoKeys, disk.snapshot}
    /\ mode' = "serving" /\ damaged' = TRUE
    /\ UNCHANGED <<files, txn, calls, blind>>

SettleLine ==
    /\ mode \in {"audit", "aborted"}
    /\ LET call == disk.pending.call
           kind == IF mode = "audit" THEN calls[call].op ELSE "aborted"
       IN \/ Appended(call, kind) /\ mode' = "remove" /\ UNCHANGED <<damaged, faults>>
          \/ NotAppended(call, kind) /\ mode' = "serving" /\ damaged' = TRUE
    /\ UNCHANGED <<disk, memory, txn, calls, blind>>

SettleIntent ==
    /\ mode = "remove" /\ mode' = "serving"
    /\ \/ Removed /\ UNCHANGED <<damaged, faults>>
       \/ Fault /\ damaged' = TRUE /\ UNCHANGED <<disk, loss>>
    /\ UNCHANGED <<audit, torn, memory, txn, calls, blind>>

-----------------------------------------------------------------------------
CommitStep ==
    \/ WriteIntent \/ WriteSnapshot \/ WriteError
    \/ AppendEvent \/ RemoveIntent \/ Publish
    \/ Rollback \/ AppendAborted \/ DiscardIntent

KeysNext ==
    \/ \E c, k \in Calls, op \in Events : Begin(c, op, k)
    \/ \E c \in Calls : TakeMutex(c) \/ RefuseUnknown(c)
    \/ CommitStep
    \/ RecordRequest
    \/ KeysCrash \/ PowerLoss
    \/ LoadKeys \/ LoadBlind \/ LoadError \/ SettleLine \/ SettleIntent

KeysSpec == KeysInit /\ [][KeysNext]_keysVars

-----------------------------------------------------------------------------
(* Properties. *)

(* Types, and one commit at a time: the call being written is the one that
   holds the mutex, and only in a process that serves. *)
KeysTypeOK ==
    /\ disk \in Directories /\ disk \in loss /\ \A d \in loss : d \in Directories
    /\ audit \in Seq(Lines) /\ torn \in BOOLEAN
    /\ memory \in Snapshots /\ damaged \in BOOLEAN
    /\ mode \in {"down", "audit", "aborted", "remove", "serving"}
    /\ txn \in Commits \cup {Nil}
    /\ calls \in [Calls -> [op : Events, key : Keys,
                            state : {"unborn", "waiting", "writing", "ok", "failed",
                                     "refused", "lost"}]]
    /\ \A c \in Calls : calls[c].state = "writing"
                        => mode = "serving" /\ txn # Nil /\ txn.call = c
    /\ blind \in BOOLEAN /\ faults \in 0..MaxErrors

Effective(snapshot, c) ==
    IF calls[c].op = "create" THEN c \in snapshot.issued
    ELSE snapshot.bannedBy[calls[c].key] # 0

(* A damaged store knows the bootstrap token only. *)
Serving == mode = "serving" /\ ~damaged
Authenticates(k) == Serving /\ k \in memory.issued /\ memory.bannedBy[k] = 0

(* No lost update, and revocation is final: the effect of a call that was
   answered with success is in the snapshot, whatever a power loss leaves of
   it; a banned key is never authenticated again, and a created one is by any
   healthy store, until it is banned.  A store that a start takes for an empty
   one is written anew by the next create. *)
AcknowledgedHolds ==
    ~blind => \A c \in Calls : calls[c].state = "ok" =>
        /\ \A d \in loss : Effective(d.snapshot, c)
        /\ IF calls[c].op = "ban" THEN ~Authenticates(calls[c].key)
           ELSE Serving => Authenticates(c) \/ memory.bannedBy[c] # 0

(* The log has a line of the call, be it appended to a torn one. *)
Told(c) == \E i \in DOMAIN audit : audit[i].call = c

(* A healthy store authenticates with no key, and refuses none, of which the
   audit log was not told, if no start has missed the snapshot: a restart does not authorise a half-written record.
   The line may be the one that says "aborted": after a rollback that was not
   synced, a power loss can bring the call back behind it. *)
ServedIsAudited ==
    ~blind /\ Serving =>
        /\ \A k \in memory.issued : Told(k)
        /\ \A k \in Keys : memory.bannedBy[k] # 0 => Told(memory.bannedBy[k])

(* At every step of a commit of a healthy store, a start after a crash can
   tell whether the intent it finds was applied, if no start has missed the
   snapshot. *)
TellsApart ==
    ~blind /\ Serving /\ disk.pending # Nil
    => disk.snapshot \in {disk.pending.before, disk.pending.after}

-----------------------------------------------------------------------------
(* Claims the code does not keep. *)

(* "startup reconciliation leaves either the prior state or the fully
   committed state": the intent a start finds matches the snapshot, even if no
   start has ever missed it. *)
RecoveryTellsApart ==
    ~blind /\ mode = "down" /\ disk.pending # Nil
    => disk.snapshot \in {disk.pending.before, disk.pending.after}
=============================================================================
