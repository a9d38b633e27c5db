----------------------------- MODULE Admission -----------------------------
(***************************************************************************)
(* The Kernel's wasm admission transaction (wasm_admission.rs) on its four *)
(* file stores (wasm_runtime.rs): the journal, the object prefix of each   *)
(* version, the control database and the materializer receipts.  Each      *)
(* store is written by a separate system call, so a process crash or an    *)
(* I/O error can fall between any two of them; a later submission that     *)
(* joins the journal row, or the recovery at start-up, resumes from what   *)
(* is on disk.                                                             *)
(*                                                                         *)
(* One application is modelled: rows of different applications share the   *)
(* files and nothing else.  A version is named by its sequence number.     *)
(* Submissions are serialised by the runtime's mutex (http.rs), hence one  *)
(* transaction at a time; its `now` is read once, when it begins.          *)
(***************************************************************************)
EXTENDS Naturals, FiniteSets

CONSTANTS Contents,     \* version digests a caller may submit
          Bindings,     \* the caller-derivable facts pinned beside the digest
          Blobs,        \* content-addressed blobs
          Requests,     \* the submissions that callers make
          MaxSeq,       \* bound: sequences the allocator hands out
          MaxTime,      \* bound: last clock reading
          TTL,          \* stagingTtlSeconds, in clock units
          MaxFaults,    \* bound: crashes, I/O errors and damaged prefixes
          OwnerOps,     \* library operations the deployment calls
          None          \* "no row", "no proof", "no transaction"

Seqs == 1..MaxSeq
Time == 0..MaxTime

(* parse_admission_submit: there is at least one blob, and none twice. *)
Request == [content : Contents, binding : Bindings,
            blobs : (SUBSET Blobs) \ {{}}, resequence : BOOLEAN]

ASSUME RequestsAssumption == Requests \subseteq Request
ASSUME BoundsAssumption ==
    MaxSeq \in Nat /\ MaxTime \in Nat /\ TTL \in Nat \ {0} /\ MaxFaults \in Nat
ASSUME OwnerOpsAssumption == OwnerOps \subseteq {"collect", "extend"}

VARIABLES
    journal,    \* journal rows on disk, by sequence
    objects,    \* object prefix of each version
    db,         \* control database rows
    receipts,   \* materializer receipts
    tx,         \* the transaction in progress, in the memory of the process
    mode,       \* what the process is doing
    recovering, \* keys the recovery has still to visit
    clock,      \* wall clock
    acked,      \* versions a caller has been told are visible
    faults      \* faults so far

vars == <<journal, objects, db, receipts, tx, mode, recovering, clock, acked, faults>>
stores == <<objects, db, receipts>>

-----------------------------------------------------------------------------
(* Journal states and rows. *)

Advancing == {"staging", "validated", "object-complete", "db-hidden",
              "materializer-acknowledged"}
Terminal  == {"visible", "failed", "collected"}
States    == Advancing \cup Terminal

(* verify_admission_proof holds of every proof: a submission whose manifest,
   imports, egress rules or binding are not well formed makes no row. *)
Proofs == [seq : Seqs, content : Contents, binding : Bindings]
Rows   == [proof : Proofs, state : States, lease : Time \cup {None}]
DbRows == [proof : Proofs, visibility : {"hidden", "visible"}]

(* The journal file holds the last row of every version, the receipt file one
   proof for each version that was handed to the materializer. *)
Journals     == [Seqs -> Rows \cup {None}]
ReceiptFiles == [Seqs -> Proofs \cup {None}]

(* The transaction in memory: `todo` are the blobs of the request still to
   write, `temp` the temporary file being written, `pc` the next durable
   write.  A recovery carries no request. *)
TxPcs == {"validate", "blobs", "object-complete", "verify", "insert", "db-hidden",
          "handoff", "acknowledge", "flip", "visible", "remove-prefix",
          "remove-row", "remove-receipt", "collected"}
Txs == [seq : Seqs, request : BOOLEAN, todo : SUBSET Blobs, temp : Blobs \cup {None},
        now : Time, pc : TxPcs]

ASSUME NoneAssumption ==
    None \notin Rows \cup DbRows \cup Proofs \cup Txs \cup Blobs \cup Time

Nonterminal(s) == journal[s] # None /\ journal[s].state \notin Terminal

(* AdmissionState::transition_allowed. *)
TransitionAllowed(from, to) ==
    \/ <<from, to>> \in { <<"staging", "validated">>, <<"validated", "object-complete">>,
                          <<"object-complete", "db-hidden">>,
                          <<"db-hidden", "materializer-acknowledged">>,
                          <<"materializer-acknowledged", "visible">> }
    \/ from \in Advancing /\ to = "failed"
    \/ from = "failed" /\ to = "collected"

Bug_ExpiredOneLate(row, now) == row.lease # None /\ row.lease < now

(* lease_expired: the lease is the first instant that is too late. *)
Expired(row, now) == row.lease # None /\ row.lease <= now

Bug_NoExitOnceExpired(s, to, now) ==
    TransitionAllowed(journal[s].state, to) /\ ~Expired(journal[s], now)

Bug_TerminalKeepsLease(s, to) == [journal EXCEPT ![s].state = to]

(* The guard and the effect of AdmissionJournal::transition. *)
CanMove(s, to, now) ==
    /\ TransitionAllowed(journal[s].state, to)
    /\ to \notin Terminal => ~Expired(journal[s], now)
Moved(s, to) ==
    [journal EXCEPT ![s] = [proof |-> @.proof, state |-> to,
                            lease |-> IF to \in Terminal THEN None ELSE @.lease]]

(* find_join_candidate: the row in flight, else the last one of the content. *)
Candidates(c) == {s \in Seqs : journal[s] # None /\ journal[s].proof.content = c}
InFlight(c)   == {s \in Candidates(c) : Nonterminal(s)}
JoinCandidates(c) ==
    IF InFlight(c) # {} THEN InFlight(c)
    ELSE {s \in Candidates(c) : \A t \in Candidates(c) : t <= s}

Bug_SequenceFromLength(s) ==
    s = 1 + Cardinality({t \in Seqs : journal[t] # None /\ journal[t].state # "collected"})

(* The allocator is rebuilt from the journal at every open: s is one more than
   the largest sequence of any row, never a length. *)
NextSequence(s) ==
    /\ \A t \in Seqs : journal[t] # None => t < s
    /\ s > 1 => journal[s - 1] # None

-----------------------------------------------------------------------------
(* The witnesses of one version. *)

EmptyPrefix == [blobs |-> {}, residue |-> FALSE, marker |-> None, damaged |-> FALSE]

(* FileAdmissionObjects::verify_prefix: the marker is there, there is a blob,
   no temporary file was left behind and every blob hashes to its name. *)
PrefixVerifies(s) ==
    /\ objects[s].marker # None
    /\ objects[s].blobs # {}
    /\ ~objects[s].residue
    /\ ~objects[s].damaged

RowVisible(s) == db[s] # None /\ db[s].visibility = "visible"

(* admitted_visible, the only predicate readers use. *)
AdmittedVisible(s) ==
    /\ RowVisible(s)
    /\ objects[s].marker = db[s].proof
    /\ PrefixVerifies(s)
    /\ receipts[s] = db[s].proof

-----------------------------------------------------------------------------
Init ==
    /\ journal = [s \in Seqs |-> None]
    /\ objects = [s \in Seqs |-> EmptyPrefix]
    /\ db = [s \in Seqs |-> None]
    /\ receipts = [s \in Seqs |-> None]
    /\ tx = None
    /\ mode = "serving"
    /\ recovering = {}
    /\ clock = 0
    /\ acked = {}
    /\ faults = 0

Idle == mode = "serving" /\ tx = None

(* The transaction of drive_to_visible on version s. *)
ResumeAt == [st \in Advancing |->
               CASE st = "staging"   -> "validate"
                 [] st = "validated" -> "blobs"
                 [] OTHER            -> "verify"]
Drive(s, request, todo, now) ==
    [seq |-> s, request |-> request, todo |-> todo, temp |-> None, now |-> now,
     pc |-> ResumeAt[journal[s].state]]

(* The prologue of drive_to_visible on a row that exists. *)
DriveExisting(s, request, todo) ==
    \/ /\ journal[s] # None /\ journal[s].state = "visible"
       /\ acked' = IF request THEN acked \cup {s} ELSE acked
       /\ UNCHANGED <<journal, tx>>
    \/ /\ Nonterminal(s) /\ Expired(journal[s], clock)
       /\ CanMove(s, "failed", clock)
       /\ journal' = Moved(s, "failed")
       /\ UNCHANGED <<tx, acked>>
    \/ /\ Nonterminal(s) /\ ~Expired(journal[s], clock)
       /\ tx' = Drive(s, request, todo, clock)
       /\ UNCHANGED <<journal, acked>>

(* A submission that joins: the caller's facts must equal the persisted proof. *)
SubmitJoin(r) ==
    /\ Idle
    /\ Candidates(r.content) # {}
    /\ ~r.resequence
    /\ Cardinality(InFlight(r.content)) <= 1
    /\ \E s \in JoinCandidates(r.content) :
         /\ journal[s].proof.binding = r.binding
         /\ DriveExisting(s, TRUE, r.blobs)
    /\ UNCHANGED <<stores, mode, recovering, clock, faults>>

Bug_ResequenceWhileInFlight(r) ==
    /\ Idle
    /\ Candidates(r.content) = {} \/ r.resequence
    /\ clock + TTL \in Time
    /\ \E s \in Seqs :
         /\ NextSequence(s)
         /\ journal' = [journal EXCEPT ![s] =
              [proof |-> [seq |-> s, content |-> r.content, binding |-> r.binding],
               state |-> "staging", lease |-> clock + TTL]]
         /\ tx' = [seq |-> s, request |-> TRUE, todo |-> r.blobs, temp |-> None,
                   now |-> clock, pc |-> "validate"]
    /\ UNCHANGED <<stores, mode, recovering, clock, acked, faults>>

(* A submission that creates: the first of its content, or an explicit
   re-admission once no earlier one is in flight. *)
SubmitCreate(r) ==
    /\ Idle
    /\ \/ Candidates(r.content) = {}
       \/ r.resequence /\ InFlight(r.content) = {}
    /\ clock + TTL \in Time
    /\ \E s \in Seqs :
         /\ NextSequence(s)
         /\ journal' = [journal EXCEPT ![s] =
              [proof |-> [seq |-> s, content |-> r.content, binding |-> r.binding],
               state |-> "staging", lease |-> clock + TTL]]
         /\ tx' = [seq |-> s, request |-> TRUE, todo |-> r.blobs, temp |-> None,
                   now |-> clock, pc |-> "validate"]
    /\ UNCHANGED <<stores, mode, recovering, clock, acked, faults>>

-----------------------------------------------------------------------------
(* One durable write of the transaction at a time. *)

At(pc) == tx # None /\ tx.pc = pc
Goto(pc) == tx' = [tx EXCEPT !.pc = pc]

(* fail_row on an integrity failure: the row becomes failed, the call ends. *)
FailRow ==
    /\ journal' = IF CanMove(tx.seq, "failed", tx.now)
                  THEN Moved(tx.seq, "failed") ELSE journal
    /\ tx' = None

Rest == UNCHANGED <<mode, recovering, clock, acked, faults>>

(* A journal transition on the path of drive_to_visible. *)
Record(pc, to, nextpc) ==
    /\ At(pc)
    /\ CanMove(tx.seq, to, tx.now)
    /\ journal' = Moved(tx.seq, to)
    /\ Goto(nextpc)
    /\ UNCHANGED stores
    /\ Rest

RecordValidated == Record("validate", "validated", "blobs")

(* write_blob is a temporary file renamed to its digest. *)
WriteTemporary ==
    /\ At("blobs") /\ tx.request /\ tx.temp = None
    /\ \E b \in tx.todo : tx' = [tx EXCEPT !.temp = b]
    /\ UNCHANGED <<journal, stores>>
    /\ Rest

RenameBlob ==
    /\ At("blobs") /\ tx.temp # None
    /\ objects' = [objects EXCEPT ![tx.seq].blobs = @ \cup {tx.temp}]
    /\ tx' = [tx EXCEPT !.temp = None, !.todo = @ \ {tx.temp}]
    /\ UNCHANGED <<journal, db, receipts>>
    /\ Rest

WriteMarker ==
    /\ At("blobs") /\ tx.request /\ tx.todo = {}
    /\ objects' = [objects EXCEPT ![tx.seq].marker = journal[tx.seq].proof]
    /\ Goto("object-complete")
    /\ UNCHANGED <<journal, db, receipts>>
    /\ Rest

(* RESUME_NEEDS_REQUEST: a recovery has no bytes to write; the row waits. *)
ResumeNeedsRequest ==
    /\ At("blobs") /\ ~tx.request
    /\ tx' = None
    /\ UNCHANGED <<journal, stores>>
    /\ Rest

RecordObjectComplete ==
    /\ At("object-complete")
    /\ \/ /\ PrefixVerifies(tx.seq)
          /\ CanMove(tx.seq, "object-complete", tx.now)
          /\ journal' = Moved(tx.seq, "object-complete")
          /\ Goto("verify")
       \/ ~PrefixVerifies(tx.seq) /\ FailRow
    /\ UNCHANGED stores
    /\ Rest

Bug_JournalBeforeRow ==
    /\ At("verify")
    /\ PrefixVerifies(tx.seq)
    /\ Goto(CASE journal[tx.seq].state = "object-complete" -> "db-hidden"
              [] journal[tx.seq].state = "db-hidden"       -> "handoff"
              [] OTHER                                     -> "flip")
    /\ UNCHANGED <<journal, stores>>
    /\ Rest

(* The prefix is verified again before every later step of a drive. *)
VerifyPrefix ==
    /\ At("verify")
    /\ \/ /\ PrefixVerifies(tx.seq)
          /\ Goto(CASE journal[tx.seq].state = "object-complete" -> "insert"
                    [] journal[tx.seq].state = "db-hidden"       -> "handoff"
                    [] OTHER                                     -> "flip")
          /\ UNCHANGED journal
       \/ ~PrefixVerifies(tx.seq) /\ FailRow
    /\ UNCHANGED stores
    /\ Rest

Bug_InsertVisibleRow ==
    /\ At("insert")
    /\ db' = [db EXCEPT ![tx.seq] =
                [proof |-> journal[tx.seq].proof, visibility |-> "visible"]]
    /\ Goto("db-hidden")
    /\ UNCHANGED <<journal, objects, receipts>>
    /\ Rest

(* FileAdmissionDb::insert_hidden_row: an equal row is accepted, any other
   row of the same key (also an equal proof already visible) is a conflict. *)
InsertHiddenRow ==
    /\ At("insert")
    /\ LET row == [proof |-> journal[tx.seq].proof, visibility |-> "hidden"] IN
         \/ /\ db[tx.seq] \in {None, row}
            /\ db' = [db EXCEPT ![tx.seq] = row]
            /\ Goto("db-hidden")
            /\ UNCHANGED journal
         \/ db[tx.seq] \notin {None, row} /\ FailRow /\ UNCHANGED db
    /\ UNCHANGED <<objects, receipts>>
    /\ Rest

RecordDbHidden == Record("db-hidden", "db-hidden", "handoff")

(* FileAdmissionMaterializer::handoff. *)
Handoff ==
    /\ At("handoff")
    /\ LET proof == journal[tx.seq].proof IN
         \/ /\ receipts[tx.seq] \in {None, proof}
            /\ receipts' = [receipts EXCEPT ![tx.seq] = proof]
            /\ Goto("acknowledge")
            /\ UNCHANGED journal
         \/ receipts[tx.seq] \notin {None, proof} /\ FailRow /\ UNCHANGED receipts
    /\ UNCHANGED <<objects, db>>
    /\ Rest

RecordAcknowledged == Record("acknowledge", "materializer-acknowledged", "flip")

Bug_ConfirmWithoutFlip ==
    /\ At("flip")
    /\ Goto("visible")
    /\ UNCHANGED <<journal, stores>>
    /\ Rest

(* verify_receipt_durable: the receipt carries the proof, byte for byte. *)
ReceiptDurable(s) == receipts[s] = journal[s].proof

(* The hidden -> visible CAS of the row. *)
FlipVisible ==
    /\ At("flip")
    /\ LET proof == journal[tx.seq].proof
           good  == /\ ReceiptDurable(tx.seq)
                    /\ db[tx.seq] # None /\ db[tx.seq].proof = proof IN
         \/ /\ good
            /\ db' = [db EXCEPT ![tx.seq].visibility = "visible"]
            /\ Goto("visible")
            /\ UNCHANGED journal
         \/ ~good /\ FailRow /\ UNCHANGED db
    /\ UNCHANGED <<objects, receipts>>
    /\ Rest

(* The last write; a submission is then answered with the outcome. *)
RecordVisible ==
    /\ At("visible")
    /\ CanMove(tx.seq, "visible", tx.now)
    /\ journal' = Moved(tx.seq, "visible")
    /\ acked' = IF tx.request THEN acked \cup {tx.seq} ELSE acked
    /\ tx' = None
    /\ UNCHANGED <<stores, mode, recovering, clock, faults>>

DriveStep ==
    \/ RecordValidated \/ WriteTemporary \/ RenameBlob \/ WriteMarker
    \/ ResumeNeedsRequest \/ RecordObjectComplete \/ VerifyPrefix
    \/ InsertHiddenRow \/ RecordDbHidden \/ Handoff \/ RecordAcknowledged
    \/ FlipVisible \/ RecordVisible

-----------------------------------------------------------------------------
(* collect_failed_admission and extend_lease.  Nothing in the runtime calls
   them at this commit; OwnerOps says which a deployment does call. *)

Bug_CollectTerminal(s) ==
    /\ Idle /\ "collect" \in OwnerOps
    /\ journal[s] # None /\ journal[s].state \in Terminal
    /\ tx' = [seq |-> s, request |-> FALSE, todo |-> {}, temp |-> None,
              now |-> clock, pc |-> "remove-prefix"]
    /\ UNCHANGED <<journal, stores, mode, recovering, clock, acked, faults>>

BeginCollect(s) ==
    /\ Idle /\ "collect" \in OwnerOps
    /\ journal[s] # None /\ journal[s].state = "failed"
    /\ tx' = [seq |-> s, request |-> FALSE, todo |-> {}, temp |-> None,
              now |-> clock, pc |-> "remove-prefix"]
    /\ UNCHANGED <<journal, stores, mode, recovering, clock, acked, faults>>

RemovePrefix ==
    /\ At("remove-prefix")
    /\ objects' = [objects EXCEPT ![tx.seq] = EmptyPrefix]
    /\ Goto("remove-row")
    /\ UNCHANGED <<journal, db, receipts>>
    /\ Rest

RemoveRow ==
    /\ At("remove-row")
    /\ db' = [db EXCEPT ![tx.seq] = None]
    /\ Goto("remove-receipt")
    /\ UNCHANGED <<journal, objects, receipts>>
    /\ Rest

RemoveReceipt ==
    /\ At("remove-receipt")
    /\ receipts' = [receipts EXCEPT ![tx.seq] = None]
    /\ Goto("collected")
    /\ UNCHANGED <<journal, objects, db>>
    /\ Rest

RecordCollected ==
    /\ At("collected")
    /\ CanMove(tx.seq, "collected", tx.now)
    /\ journal' = Moved(tx.seq, "collected")
    /\ tx' = None
    /\ UNCHANGED stores
    /\ Rest

CollectStep == RemovePrefix \/ RemoveRow \/ RemoveReceipt \/ RecordCollected

ExtendLease(s) ==
    /\ Idle /\ "extend" \in OwnerOps
    /\ Nonterminal(s) /\ ~Expired(journal[s], clock)
    /\ clock + TTL \in Time
    /\ journal' = [journal EXCEPT ![s].lease = clock + TTL]
    /\ UNCHANGED <<stores, tx, mode, recovering, clock, acked, faults>>

-----------------------------------------------------------------------------
(* Start-up: recover_wasm_admission visits every key, then every visible row
   must satisfy the predicate or the wasm control plane stays fenced. *)

RecoverKey(s) ==
    /\ mode = "recovering" /\ tx = None
    /\ s \in recovering
    /\ recovering' = recovering \ {s}
    /\ DriveExisting(s, FALSE, {})
    /\ UNCHANGED <<stores, mode, clock, faults>>

(* load_admitted_visible_proofs fails on the first row that breaks. *)
FinishRecovery ==
    /\ mode = "recovering" /\ tx = None /\ recovering = {}
    /\ mode' = IF \A s \in Seqs : RowVisible(s) => AdmittedVisible(s)
               THEN "serving" ELSE "fenced"
    /\ UNCHANGED <<journal, stores, tx, recovering, clock, acked, faults>>

Start ==
    /\ mode = "down"
    /\ mode' = "recovering"
    /\ recovering' = {s \in Seqs : Nonterminal(s)}
    /\ UNCHANGED <<journal, stores, tx, clock, acked, faults>>

(* A planned restart falls between transactions. *)
Stop ==
    /\ mode \in {"serving", "fenced"} /\ tx = None
    /\ mode' = "down"
    /\ UNCHANGED <<journal, stores, tx, recovering, clock, acked, faults>>

-----------------------------------------------------------------------------
(* Faults.  A temporary file that was not renamed stays in the prefix: its
   name carries the milliseconds of the write, no later write removes it. *)

LeaveResidue ==
    objects' = IF tx # None /\ tx.temp # None
               THEN [objects EXCEPT ![tx.seq].residue = TRUE] ELSE objects

Crash ==
    /\ faults < MaxFaults
    /\ mode # "down"
    /\ LeaveResidue
    /\ tx' = None
    /\ mode' = "down"
    /\ recovering' = {}
    /\ faults' = faults + 1
    /\ UNCHANGED <<journal, db, receipts, clock, acked>>

(* An I/O error ends the call; at start-up it fences the control plane. *)
IOError ==
    /\ faults < MaxFaults
    /\ tx # None
    /\ LeaveResidue
    /\ tx' = None
    /\ mode' = IF mode = "recovering" THEN "fenced" ELSE mode
    /\ recovering' = IF mode = "recovering" THEN {} ELSE recovering
    /\ faults' = faults + 1
    /\ UNCHANGED <<journal, db, receipts, clock, acked>>

(* A blob on disk stops hashing to its name. *)
Damage(s) ==
    /\ faults < MaxFaults
    /\ objects[s].blobs # {} /\ ~objects[s].damaged
    /\ objects' = [objects EXCEPT ![s].damaged = TRUE]
    /\ faults' = faults + 1
    /\ UNCHANGED <<journal, db, receipts, tx, mode, recovering, clock, acked>>

Tick ==
    /\ clock < MaxTime
    /\ clock' = clock + 1
    /\ UNCHANGED <<journal, stores, tx, mode, recovering, acked, faults>>

-----------------------------------------------------------------------------
Next ==
    \/ \E r \in Requests : SubmitJoin(r) \/ SubmitCreate(r)
    \/ DriveStep
    \/ \E s \in Seqs : BeginCollect(s) \/ ExtendLease(s) \/ RecoverKey(s) \/ Damage(s)
    \/ CollectStep
    \/ FinishRecovery \/ Start \/ Stop
    \/ Crash \/ IOError \/ Tick

Spec == Init /\ [][Next]_vars

(* The process runs its calls to their end, start-up is followed by recovery,
   time passes, and the node is restarted again and again (no background task
   settles a row: only a retry or a start-up does). *)
Fairness ==
    /\ WF_vars(DriveStep) /\ WF_vars(CollectStep)
    /\ WF_vars(\E s \in Seqs : RecoverKey(s)) /\ WF_vars(FinishRecovery)
    /\ WF_vars(Start) /\ WF_vars(Stop) /\ WF_vars(Tick)

FairSpec == Spec /\ Fairness

-----------------------------------------------------------------------------
(* Properties. *)

(* Every variable has its type; a journal row names its own version and
   carries a lease exactly as long as it is not terminal. *)
TypeOK ==
    /\ journal \in Journals
    /\ \A s \in Seqs : journal[s] # None =>
         /\ journal[s].proof.seq = s
         /\ (journal[s].lease = None) <=> (journal[s].state \in Terminal)
    /\ objects \in [Seqs -> [blobs : SUBSET Blobs, residue : BOOLEAN,
                             marker : Proofs \cup {None}, damaged : BOOLEAN]]
    /\ db \in [Seqs -> DbRows \cup {None}]
    /\ receipts \in ReceiptFiles
    /\ tx \in Txs \cup {None}
    /\ mode \in {"serving", "recovering", "down", "fenced"}
    /\ recovering \in SUBSET Seqs
    /\ clock \in Time
    /\ acked \in SUBSET Seqs
    /\ faults \in 0..MaxFaults

(* The journal is never ahead of the stores: whatever a resumed drive skips
   because of the state it reads is on disk, under the row's own proof. *)
JournalNeverAhead ==
    \A s \in Seqs : journal[s] # None =>
        LET state == journal[s].state IN
        /\ state \in {"object-complete", "db-hidden", "materializer-acknowledged", "visible"} =>
             /\ objects[s].marker = journal[s].proof
             /\ objects[s].blobs # {} /\ ~objects[s].residue
        /\ state \in {"db-hidden", "materializer-acknowledged", "visible"} =>
             db[s] # None /\ db[s].proof = journal[s].proof
        /\ state \in {"materializer-acknowledged", "visible"} =>
             receipts[s] = journal[s].proof
        /\ state = "visible" => RowVisible(s)

(* A row that readers may act on carries all three witnesses of one proof,
   the journal's; only damage to an object can break the predicate.  (Rows
   whose transaction failed after the flip stay visible in the database.) *)
VisibleHasWitnesses ==
    \A s \in Seqs : RowVisible(s) /\ journal[s].state # "failed" =>
        /\ journal[s].state \in {"materializer-acknowledged", "visible"}
        /\ db[s].proof = journal[s].proof
        /\ objects[s].damaged \/ AdmittedVisible(s)

(* A caller who was told "visible" can rely on it through every later crash,
   retry, re-admission and collection. *)
AckedStaysVisible ==
    \A s \in acked : journal[s] # None /\ journal[s].state = "visible" /\ RowVisible(s)

(* Concurrent or repeated submissions of one content share one transaction:
   the "multiple nonterminal admissions" refusal is unreachable. *)
OneInFlight == \A c \in Contents : Cardinality(InFlight(c)) <= 1

(* A version is made readable only by a transaction that began before the
   lease of the row ended. *)
NoLatePublication ==
    [][\A s \in Seqs : ~RowVisible(s) /\ RowVisible(s)' =>
          tx # None /\ tx.seq = s /\ tx.now < journal[s].lease]_vars

(* A sequence is handed out once: the row of a version keeps its proof for
   ever, also after it failed and was collected. *)
SequenceNeverReused ==
    [][\A s \in Seqs : journal[s] # None =>
          journal'[s] # None /\ journal'[s].proof = journal[s].proof]_vars

(* Every admission settles, given that the node is restarted now and then. *)
Settles == \A s \in Seqs : Nonterminal(s) ~> ~Nonterminal(s)

(* Readers and callers see the ledger. *)
Reader(s) ==
    IF AdmittedVisible(s) THEN "readable"
    ELSE IF RowVisible(s) \/ (journal[s] # None /\ journal[s].state \in {"failed", "collected"})
         THEN "withdrawn" ELSE "hidden"
Outcome(s) ==
    IF journal[s] = None THEN "none"
    ELSE IF journal[s].state \in Advancing THEN "open"
         ELSE IF journal[s].state = "visible" THEN "visible" ELSE "failed"

Ledger == INSTANCE VersionLedger WITH
            Versions <- Seqs,
            reader   <- [s \in Seqs |-> Reader(s)],
            outcome  <- [s \in Seqs |-> Outcome(s)]
ImplementsLedger == Ledger!Spec

============================================================================
