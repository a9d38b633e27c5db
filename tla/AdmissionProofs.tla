-------------------------- MODULE AdmissionProofs --------------------------
(***************************************************************************)
(* Proofs about the admission transaction, for any set of contents,        *)
(* requests and blobs and any bounds.  The inductive invariant adds to     *)
(* the checked invariants what a transaction in memory knows about the     *)
(* stores (TxAgrees) and that no store ever names another proof than the   *)
(* journal (StoresAgree).  On it rests the refinement at the end: every    *)
(* step, seen through Reader and Outcome, is a step of one version of      *)
(* VersionLedger or none; without it a version might become readable, or   *)
(* be withdrawn, in a state the ledger does not know.                      *)
(***************************************************************************)
EXTENDS Admission, FiniteSetTheorems, TLAPS

USE DEF Journals, ReceiptFiles

Removing == {"remove-prefix", "remove-row", "remove-receipt", "collected"}

(* The journal state in which a drive stands at a program counter. *)
StandsAt(pc, state) ==
    /\ pc = "validate" => state = "staging"
    /\ pc \in {"blobs", "object-complete"} => state = "validated"
    /\ pc = "verify" => state \in {"object-complete", "db-hidden", "materializer-acknowledged"}
    /\ pc \in {"insert", "db-hidden"} => state = "object-complete"
    /\ pc \in {"handoff", "acknowledge"} => state = "db-hidden"
    /\ pc \in {"flip", "visible"} => state = "materializer-acknowledged"
    /\ pc \in Removing => state = "failed"

TxAgrees ==
    tx # None =>
        /\ journal[tx.seq] # None
        /\ StandsAt(tx.pc, journal[tx.seq].state)
        /\ tx.pc \notin Removing => tx.now < journal[tx.seq].lease
        /\ tx.temp # None => tx.pc = "blobs" /\ tx.temp \in tx.todo
        /\ tx.pc = "db-hidden" => db[tx.seq] # None
        /\ tx.pc = "acknowledge" => receipts[tx.seq] # None
        /\ tx.pc = "visible" => RowVisible(tx.seq)
        /\ tx.pc \in {"remove-receipt", "collected"} => db[tx.seq] = None

StoresAgree ==
    \A s \in Seqs :
        /\ objects[s].marker # None =>
             journal[s] # None /\ objects[s].marker = journal[s].proof
        /\ db[s] # None => journal[s] # None /\ db[s].proof = journal[s].proof
        /\ receipts[s] # None => journal[s] # None /\ receipts[s] = journal[s].proof
        /\ RowVisible(s) =>
             journal[s].state \in {"materializer-acknowledged", "visible", "failed"}

SameInFlight ==
    \A s, t \in Seqs :
        Nonterminal(s) /\ Nonterminal(t)
        /\ journal[s].proof.content = journal[t].proof.content => s = t

IInv ==
    /\ TypeOK
    /\ TxAgrees
    /\ StoresAgree
    /\ JournalNeverAhead
    /\ SameInFlight
    /\ AckedStaysVisible

-----------------------------------------------------------------------------
(* Lemmas about one journal write. *)

LEMMA RowTyped ==
    ASSUME TypeOK, NEW s \in Seqs, journal[s] # None
    PROVE  /\ journal[s] \in Rows
           /\ journal[s] = [proof |-> journal[s].proof, state |-> journal[s].state,
                            lease |-> journal[s].lease]
BY DEF TypeOK, Rows

(* A transition keeps the proof of its row and touches no other row. *)
LEMMA MovedRow ==
    ASSUME TypeOK, NEW s \in Seqs, journal[s] # None, NEW to \in States
    PROVE  /\ Moved(s, to) \in [Seqs -> Rows \cup {None}]
           /\ Moved(s, to)[s] # None
           /\ Moved(s, to)[s].proof = journal[s].proof
           /\ Moved(s, to)[s].state = to
           /\ Moved(s, to)[s].lease = IF to \in Terminal THEN None ELSE journal[s].lease
           /\ \A t \in Seqs \ {s} : Moved(s, to)[t] = journal[t]
<1>1. journal[s] \in Rows
  BY DEF TypeOK
<1> DEFINE row == [proof |-> journal[s].proof, state |-> to,
                   lease |-> IF to \in Terminal THEN None ELSE journal[s].lease]
<1>2. row \in Rows
  BY <1>1 DEF Rows
<1>3. Moved(s, to) = [journal EXCEPT ![s] = row]
  BY <1>1 DEF Moved, Rows, TypeOK
<1>4. QED
  BY <1>1, <1>2, <1>3, NoneAssumption DEF TypeOK

(* The two guards of a transition, on a row of the journal. *)
LEMMA CanMoveFacts ==
    ASSUME TypeOK, NEW s \in Seqs, journal[s] # None, NEW to, NEW now \in Time,
           CanMove(s, to, now)
    PROVE  to \in States /\ journal[s].state \notin {"visible", "collected"}
BY DEF CanMove, TransitionAllowed, States, Advancing, Terminal

-----------------------------------------------------------------------------
LEMMA InitIInv == Init => IInv
<1> SUFFICES ASSUME Init PROVE IInv
  OBVIOUS
<1> USE DEF Init
<1>1. TypeOK
  BY BoundsAssumption, NoneAssumption DEF TypeOK, EmptyPrefix, Time
<1>2. TxAgrees
  BY DEF TxAgrees
<1>3. StoresAgree /\ JournalNeverAhead /\ SameInFlight /\ AckedStaysVisible
  BY DEF StoresAgree, JournalNeverAhead, SameInFlight, AckedStaysVisible, EmptyPrefix,
         RowVisible, Nonterminal
<1>4. QED
  BY <1>1, <1>2, <1>3 DEF IInv

-----------------------------------------------------------------------------
(* The steps of a drive preserve the invariant.  What a step leaves alone is
   dispatched in StoresOnlyStep and JournalOnlyStep. *)

(* A transaction in memory, taken apart. *)
LEMMA TxTyped ==
    ASSUME TypeOK, tx # None
    PROVE  tx \in Txs /\ tx.seq \in Seqs /\ tx.now \in Time
BY DEF TypeOK, Txs

(* Moving to another program counter keeps the rest of the transaction. *)
LEMMA GotoTx ==
    ASSUME TypeOK, tx # None, NEW pc \in TxPcs, Goto(pc)
    PROVE  /\ tx' \in Txs /\ tx' # None
           /\ tx'.seq = tx.seq /\ tx'.now = tx.now /\ tx'.pc = pc /\ tx'.temp = tx.temp
           /\ tx'.request = tx.request /\ tx'.todo = tx.todo
BY TxTyped, NoneAssumption DEF Goto, Txs

(* One journal transition of the transaction, whatever it does next. *)
LEMMA RecordStep ==
    ASSUME IInv, NEW pc \in TxPcs, NEW to \in Advancing, NEW nextpc \in TxPcs,
           Record(pc, to, nextpc), StandsAt(nextpc, to), nextpc \notin Removing,
           nextpc \notin {"db-hidden", "acknowledge", "visible"}, pc # "blobs",
           pc \notin Removing,
           to = "object-complete" =>
               objects[tx.seq].marker # None /\ objects[tx.seq].blobs # {}
                   /\ ~objects[tx.seq].residue,
           to = "db-hidden" => pc = "db-hidden",
           to = "materializer-acknowledged" => pc = "acknowledge"
    PROVE  IInv'
<1> DEFINE s == tx.seq
<1>1. /\ tx \in Txs /\ tx # None /\ s \in Seqs /\ tx.pc = pc
      /\ journal[s] # None /\ to \in States
      /\ CanMove(s, to, tx.now) /\ journal' = Moved(s, to)
  BY TxTyped DEF IInv, TxAgrees, Record, At, States
<1>2. /\ journal' \in [Seqs -> Rows \cup {None}]
      /\ journal'[s] # None
      /\ journal'[s].proof = journal[s].proof
      /\ journal'[s].state = to
      /\ journal'[s].lease = journal[s].lease
      /\ \A t \in Seqs \ {s} : journal'[t] = journal[t]
  BY <1>1, MovedRow DEF IInv, Advancing, Terminal
<1>3. /\ tx' \in Txs /\ tx' # None
      /\ tx'.seq = s /\ tx'.now = tx.now /\ tx'.pc = nextpc /\ tx'.temp = tx.temp
  BY <1>1, GotoTx DEF IInv, Record
<1>4. /\ UNCHANGED <<objects, db, receipts, mode, recovering, clock, acked, faults>>
      /\ journal[s].state \notin {"visible", "failed", "collected"}
  BY <1>1 DEF Record, Rest, stores, CanMove, TransitionAllowed, Advancing
<1>5. TypeOK'
  BY <1>1, <1>2, <1>3, <1>4 DEF IInv, TypeOK, Advancing, Terminal
<1>6. TxAgrees'
  <2>1. tx.temp = None /\ tx.now < journal[s].lease
    BY <1>1 DEF IInv, TxAgrees
  <2>2. StandsAt(tx'.pc, journal'[tx'.seq].state)
    BY <1>2, <1>3
  <2>3. QED
    BY <1>2, <1>3, <2>1, <2>2 DEF TxAgrees, Removing
<1>7. StoresAgree' /\ JournalNeverAhead'
  BY <1>1, <1>2, <1>4 DEF IInv, TxAgrees, StoresAgree, JournalNeverAhead, CanMove, TransitionAllowed, Advancing, RowVisible
<1>8. SameInFlight'
  BY <1>1, <1>2, <1>4 DEF IInv, SameInFlight, Nonterminal, Terminal
<1>9. AckedStaysVisible'
  BY <1>1, <1>2, <1>4 DEF IInv, AckedStaysVisible, RowVisible, TypeOK
<1>10. QED
  BY <1>5, <1>6, <1>7, <1>8, <1>9 DEF IInv

(* fail_row ends the transaction and leaves the stores as they are. *)
LEMMA FailStep ==
    ASSUME IInv, tx # None, tx.pc \notin Removing, FailRow, UNCHANGED stores, Rest
    PROVE  IInv'
<1> DEFINE s == tx.seq
<1>1. tx \in Txs /\ s \in Seqs /\ journal[s] # None
  BY TxTyped DEF IInv, TxAgrees
<1>2. journal[s].state \in Advancing
  BY <1>1 DEF IInv, TxAgrees, StandsAt, Txs, TxPcs, Removing, Advancing
<1>3. journal' = Moved(s, "failed") /\ tx' = None
  BY <1>2 DEF FailRow, CanMove, TransitionAllowed, Terminal
<1>4. /\ journal' \in [Seqs -> Rows \cup {None}]
      /\ journal'[s] # None
      /\ journal'[s].proof = journal[s].proof
      /\ journal'[s].state = "failed" /\ journal'[s].lease = None
      /\ \A t \in Seqs \ {s} : journal'[t] = journal[t]
  BY <1>1, <1>3, MovedRow DEF IInv, States, Terminal
<1>5. UNCHANGED <<objects, db, receipts, mode, recovering, clock, acked, faults>>
  BY DEF Rest, stores
<1>6. TypeOK'
  BY <1>1, <1>3, <1>4, <1>5 DEF IInv, TypeOK, Terminal
<1>7. TxAgrees'
  BY <1>3 DEF TxAgrees
<1>8. StoresAgree' /\ JournalNeverAhead'
  BY <1>1, <1>4, <1>5 DEF IInv, StoresAgree, JournalNeverAhead, RowVisible
<1>9. SameInFlight'
  BY <1>1, <1>4, <1>5 DEF IInv, SameInFlight, Nonterminal, Terminal
<1>10. AckedStaysVisible'
  BY <1>1, <1>2, <1>4, <1>5 DEF IInv, AckedStaysVisible, RowVisible, TypeOK, Advancing
<1>11. QED
  BY <1>6, <1>7, <1>8, <1>9, <1>10 DEF IInv

(* A step that leaves the journal and the other stores' agreement to prove. *)
LEMMA SameJournal ==
    ASSUME IInv, UNCHANGED <<journal, acked>>, TypeOK', TxAgrees', StoresAgree',
           JournalNeverAhead',
           \A s \in Seqs : RowVisible(s) /\ journal[s].state = "visible" => RowVisible(s)'
    PROVE  IInv'
<1>1. SameInFlight'
  BY DEF IInv, SameInFlight, Nonterminal
<1>2. AckedStaysVisible'
  BY DEF IInv, AckedStaysVisible, TypeOK
<1>3. QED
  BY <1>1, <1>2 DEF IInv

LEMMA TemporaryStep == IInv /\ WriteTemporary => IInv'
<1> SUFFICES ASSUME IInv, WriteTemporary PROVE IInv'
  OBVIOUS
<1> USE DEF WriteTemporary, At, Rest, stores
<1>1. PICK b \in tx.todo : tx' = [tx EXCEPT !.temp = b]
  OBVIOUS
<1>2. tx \in Txs /\ b \in Blobs
  BY <1>1, TxTyped DEF IInv, Txs
<1>3. tx' \in Txs /\ tx' # None /\ tx'.seq = tx.seq /\ tx'.now = tx.now /\ tx'.pc = "blobs"
  BY <1>1, <1>2, NoneAssumption DEF Txs
<1>4. TypeOK'
  BY <1>3 DEF IInv, TypeOK
<1>5. TxAgrees'
  BY <1>3 DEF IInv, TxAgrees, Removing
<1>6. StoresAgree' /\ JournalNeverAhead'
  BY DEF IInv, StoresAgree, JournalNeverAhead, RowVisible
<1>7. QED
  BY <1>4, <1>5, <1>6, SameJournal DEF RowVisible

LEMMA RenameStep == IInv /\ RenameBlob => IInv'
<1> SUFFICES ASSUME IInv, RenameBlob PROVE IInv'
  OBVIOUS
<1> USE DEF RenameBlob, At, Rest, stores
<1>1. tx \in Txs /\ tx # None /\ tx.seq \in Seqs /\ tx.temp \in Blobs
  BY TxTyped DEF IInv, Txs
<1>2. tx' \in Txs /\ tx' # None /\ tx'.seq = tx.seq /\ tx'.now = tx.now /\ tx'.pc = "blobs"
      /\ tx'.temp = None
  <2>1. tx' = [tx EXCEPT !.temp = None, !.todo = tx.todo \ {tx.temp}] /\ tx.pc = "blobs"
    OBVIOUS
  <2>2. tx.todo \ {tx.temp} \in SUBSET Blobs
    BY <1>1 DEF Txs
  <2>3. tx' \in Txs
    BY <1>1, <2>1, <2>2 DEF Txs
  <2>4. tx'.seq = tx.seq /\ tx'.now = tx.now /\ tx'.pc = "blobs" /\ tx'.temp = None
    BY <1>1, <2>1 DEF Txs
  <2>5. QED
    BY <2>3, <2>4, NoneAssumption
<1>3. /\ objects' \in [Seqs -> [blobs : SUBSET Blobs, residue : BOOLEAN,
                                marker : Proofs \cup {None}, damaged : BOOLEAN]]
      /\ \A s \in Seqs : /\ objects'[s].marker = objects[s].marker
                         /\ objects'[s].residue = objects[s].residue
                         /\ objects[s].blobs # {} => objects'[s].blobs # {}
  BY <1>1 DEF IInv, TypeOK
<1>4. TypeOK'
  BY <1>2, <1>3 DEF IInv, TypeOK
<1>5. TxAgrees'
  BY <1>2 DEF IInv, TxAgrees, Removing
<1>6. StoresAgree' /\ JournalNeverAhead'
  BY <1>3 DEF IInv, StoresAgree, JournalNeverAhead, RowVisible
<1>7. QED
  BY <1>4, <1>5, <1>6, SameJournal DEF RowVisible

LEMMA MarkerStep == IInv /\ WriteMarker => IInv'
<1> SUFFICES ASSUME IInv, WriteMarker PROVE IInv'
  OBVIOUS
<1> USE DEF WriteMarker, At, Rest, stores
<1> DEFINE s == tx.seq
<1>1. tx \in Txs /\ tx # None /\ s \in Seqs /\ journal[s] \in Rows
      /\ journal[s].state = "validated"
  BY TxTyped, RowTyped DEF IInv, TxAgrees, StandsAt
<1>2. /\ tx' \in Txs /\ tx' # None /\ tx'.seq = s /\ tx'.now = tx.now
      /\ tx'.pc = "object-complete" /\ tx'.temp = tx.temp
  BY <1>1, GotoTx DEF IInv, TxPcs
<1>3. journal[s].proof \in Proofs /\ objects[s] \in [blobs : SUBSET Blobs, residue : BOOLEAN,
                                marker : Proofs \cup {None}, damaged : BOOLEAN]
  BY <1>1 DEF IInv, TypeOK, Rows
<1>4. /\ objects' \in [Seqs -> [blobs : SUBSET Blobs, residue : BOOLEAN,
                                marker : Proofs \cup {None}, damaged : BOOLEAN]]
      /\ objects'[s].marker = journal[s].proof
      /\ \A t \in Seqs \ {s} : objects'[t] = objects[t]
  BY <1>1, <1>3 DEF IInv, TypeOK
<1>5. TypeOK'
  BY <1>2, <1>4 DEF IInv, TypeOK
<1>6. TxAgrees'
  BY <1>1, <1>2 DEF IInv, TxAgrees, Removing, StandsAt
<1>7. StoresAgree' /\ JournalNeverAhead'
  <2>1. journal[s] # None /\ journal' = journal /\ db' = db /\ receipts' = receipts
    BY DEF IInv, TxAgrees
  <2>2. StoresAgree'
    BY <1>4, <2>1 DEF IInv, StoresAgree, RowVisible
  <2>3. JournalNeverAhead'
    BY <1>1, <1>4, <2>1 DEF IInv, JournalNeverAhead, RowVisible
  <2>4. QED
    BY <2>2, <2>3
<1>8. QED
  BY <1>5, <1>6, <1>7, SameJournal DEF RowVisible

LEMMA NeedsRequestStep == IInv /\ ResumeNeedsRequest => IInv'
<1> SUFFICES ASSUME IInv, ResumeNeedsRequest PROVE IInv'
  OBVIOUS
<1> USE DEF ResumeNeedsRequest, Rest, stores
<1>1. TypeOK' /\ TxAgrees'
  BY DEF IInv, TypeOK, TxAgrees
<1>2. StoresAgree' /\ JournalNeverAhead'
  BY DEF IInv, StoresAgree, JournalNeverAhead, RowVisible
<1>3. QED
  BY <1>1, <1>2, SameJournal DEF RowVisible

LEMMA ObjectCompleteStep == IInv /\ RecordObjectComplete => IInv'
<1> SUFFICES ASSUME IInv, RecordObjectComplete PROVE IInv'
  OBVIOUS
<1>1. /\ tx # None /\ tx.pc = "object-complete" /\ tx.pc \notin Removing
      /\ UNCHANGED stores /\ Rest
  BY DEF RecordObjectComplete, At, Removing
<1>2. CASE ~PrefixVerifies(tx.seq)
  BY <1>1, <1>2, FailStep DEF RecordObjectComplete
<1>3. CASE PrefixVerifies(tx.seq)
  <2>1. Record("object-complete", "object-complete", "verify")
    BY <1>1, <1>3 DEF RecordObjectComplete, Record, At
  <2>2. /\ objects[tx.seq].marker # None /\ objects[tx.seq].blobs # {}
        /\ ~objects[tx.seq].residue
    BY <1>3 DEF PrefixVerifies
  <2>3. QED
    BY <2>1, <2>2, RecordStep DEF StandsAt, Removing, Advancing, TxPcs
<1>4. QED
  BY <1>2, <1>3

LEMMA VerifyStep == IInv /\ VerifyPrefix => IInv'
<1> SUFFICES ASSUME IInv, VerifyPrefix PROVE IInv'
  OBVIOUS
<1>1. /\ tx # None /\ tx.pc = "verify" /\ tx.pc \notin Removing
      /\ UNCHANGED stores /\ Rest
  BY DEF VerifyPrefix, At, Removing
<1>2. CASE ~PrefixVerifies(tx.seq)
  BY <1>1, <1>2, FailStep DEF VerifyPrefix
<1>3. CASE PrefixVerifies(tx.seq)
  <2>1. PICK pc \in {"insert", "handoff", "flip"} :
          Goto(pc) /\ StandsAt(pc, journal[tx.seq].state)
    BY <1>1, <1>3 DEF VerifyPrefix, IInv, TxAgrees, StandsAt, Removing
  <2>2. /\ tx' \in Txs /\ tx' # None /\ tx'.seq = tx.seq /\ tx'.now = tx.now
        /\ tx'.pc = pc /\ tx'.temp = tx.temp
    BY <1>1, <2>1, GotoTx DEF IInv, TxPcs
  <2>3. journal' = journal /\ UNCHANGED <<objects, db, receipts, mode, recovering, clock, acked, faults>>
    BY <1>1, <1>3 DEF VerifyPrefix, stores, Rest
  <2>4. TypeOK'
    BY <2>2, <2>3 DEF IInv, TypeOK
  <2>5. TxAgrees'
    BY <1>1, <2>1, <2>2, <2>3 DEF IInv, TxAgrees, Removing
  <2>6. StoresAgree' /\ JournalNeverAhead'
    BY <2>3 DEF IInv, StoresAgree, JournalNeverAhead, RowVisible
  <2>7. QED
    BY <2>3, <2>4, <2>5, <2>6, SameJournal DEF RowVisible
<1>4. QED
  BY <1>2, <1>3

LEMMA InsertStep == IInv /\ InsertHiddenRow => IInv'
<1> SUFFICES ASSUME IInv, InsertHiddenRow PROVE IInv'
  OBVIOUS
<1> DEFINE s == tx.seq
           row == [proof |-> journal[s].proof, visibility |-> "hidden"]
<1>1. /\ tx # None /\ tx.pc = "insert" /\ tx.pc \notin Removing /\ s \in Seqs /\ Rest
      /\ UNCHANGED <<objects, receipts>> /\ journal[s] \in Rows
      /\ journal[s].state = "object-complete"
  BY TxTyped, RowTyped DEF InsertHiddenRow, At, Removing, IInv, TxAgrees, StandsAt
<1>2. CASE db[s] \notin {None, row} /\ FailRow /\ UNCHANGED db
  BY <1>1, <1>2, FailStep DEF stores
<1>3. CASE /\ db[s] \in {None, row} /\ db' = [db EXCEPT ![s] = row]
           /\ Goto("db-hidden") /\ UNCHANGED journal
  <2>1. /\ tx' \in Txs /\ tx' # None /\ tx'.seq = s /\ tx'.now = tx.now
        /\ tx'.pc = "db-hidden" /\ tx'.temp = tx.temp
    BY <1>1, <1>3, GotoTx DEF IInv, TxPcs
  <2>2. row \in DbRows /\ row # None
    BY <1>1, NoneAssumption DEF Rows, DbRows
  <2>3. /\ db' \in [Seqs -> DbRows \cup {None}] /\ db'[s] = row
        /\ \A t \in Seqs \ {s} : db'[t] = db[t]
    BY <1>1, <1>3, <2>2 DEF IInv, TypeOK
  <2>4. TypeOK'
    BY <1>1, <1>3, <2>1, <2>3 DEF IInv, TypeOK, Rest
  <2>5. TxAgrees'
    BY <1>1, <1>3, <2>1, <2>2, <2>3 DEF IInv, TxAgrees, Removing, StandsAt
  <2>6. StoresAgree'
    BY <1>1, <1>3, <2>2, <2>3 DEF IInv, TxAgrees, StoresAgree, RowVisible
  <2>7. JournalNeverAhead'
    BY <1>1, <1>3, <2>2, <2>3 DEF IInv, JournalNeverAhead, RowVisible
  <2>8. QED
    BY <1>1, <1>3, <2>3, <2>4, <2>5, <2>6, <2>7, SameJournal DEF RowVisible, Rest
<1>4. QED
  BY <1>2, <1>3 DEF InsertHiddenRow

LEMMA HandoffStep == IInv /\ Handoff => IInv'
<1> SUFFICES ASSUME IInv, Handoff PROVE IInv'
  OBVIOUS
<1> DEFINE s == tx.seq
           proof == journal[s].proof
<1>1. /\ tx # None /\ tx.pc = "handoff" /\ tx.pc \notin Removing /\ s \in Seqs /\ Rest
      /\ UNCHANGED <<objects, db>> /\ journal[s] \in Rows /\ journal[s] # None
      /\ journal[s].state = "db-hidden"
  BY TxTyped, RowTyped DEF Handoff, At, Removing, IInv, TxAgrees, StandsAt
<1>2. CASE receipts[s] \notin {None, proof} /\ FailRow /\ UNCHANGED receipts
  BY <1>1, <1>2, FailStep DEF stores
<1>3. CASE /\ receipts' = [receipts EXCEPT ![s] = proof]
           /\ Goto("acknowledge") /\ UNCHANGED journal
  <2>1. /\ tx' \in Txs /\ tx' # None /\ tx'.seq = s /\ tx'.now = tx.now
        /\ tx'.pc = "acknowledge" /\ tx'.temp = tx.temp
    BY <1>1, <1>3, GotoTx DEF IInv, TxPcs
  <2>2. proof \in Proofs /\ proof # None
    BY <1>1, NoneAssumption DEF Rows
  <2>3. /\ receipts' \in [Seqs -> Proofs \cup {None}] /\ receipts'[s] = proof
        /\ \A t \in Seqs \ {s} : receipts'[t] = receipts[t]
    BY <1>1, <1>3, <2>2 DEF IInv, TypeOK
  <2>4. TypeOK'
    BY <1>1, <1>3, <2>1, <2>3 DEF IInv, TypeOK, Rest
  <2>5. TxAgrees'
    BY <1>1, <1>3, <2>1, <2>2, <2>3 DEF IInv, TxAgrees, Removing, StandsAt
  <2>6. StoresAgree' /\ JournalNeverAhead'
    BY <1>1, <1>3, <2>2, <2>3 DEF IInv, StoresAgree, JournalNeverAhead, RowVisible
  <2>7. QED
    BY <1>1, <1>3, <2>4, <2>5, <2>6, SameJournal DEF RowVisible, Rest
<1>4. QED
  BY <1>2, <1>3 DEF Handoff

LEMMA FlipStep == IInv /\ FlipVisible => IInv'
<1> SUFFICES ASSUME IInv, FlipVisible PROVE IInv'
  OBVIOUS
<1> DEFINE s == tx.seq
           good == receipts[s] = journal[s].proof /\ db[s] # None
                     /\ db[s].proof = journal[s].proof
<1>1. /\ tx # None /\ tx.pc = "flip" /\ tx.pc \notin Removing /\ s \in Seqs /\ Rest
      /\ UNCHANGED <<objects, receipts>> /\ journal[s] \in Rows /\ journal[s] # None
      /\ journal[s].state = "materializer-acknowledged"
  BY TxTyped, RowTyped DEF FlipVisible, At, Removing, IInv, TxAgrees, StandsAt
<1>2. CASE ~good /\ FailRow /\ UNCHANGED db
  BY <1>1, <1>2, FailStep DEF stores
<1>3. CASE /\ good /\ db' = [db EXCEPT ![s].visibility = "visible"]
           /\ Goto("visible") /\ UNCHANGED journal
  <2>1. /\ tx' \in Txs /\ tx' # None /\ tx'.seq = s /\ tx'.now = tx.now
        /\ tx'.pc = "visible" /\ tx'.temp = tx.temp
    BY <1>1, <1>3, GotoTx DEF IInv, TxPcs
  <2>2. db[s] \in DbRows
    BY <1>1, <1>3 DEF IInv, TypeOK
  <2>3. /\ db' \in [Seqs -> DbRows \cup {None}] /\ db'[s] \in DbRows /\ db'[s] # None
        /\ db'[s].proof = db[s].proof /\ db'[s].visibility = "visible"
        /\ \A t \in Seqs \ {s} : db'[t] = db[t]
    BY <1>1, <1>3, <2>2, NoneAssumption DEF IInv, TypeOK, DbRows
  <2>4. TypeOK'
    BY <1>1, <1>3, <2>1, <2>3 DEF IInv, TypeOK, Rest
  <2>5. TxAgrees'
    BY <1>1, <1>3, <2>1, <2>3 DEF IInv, TxAgrees, Removing, StandsAt, RowVisible
  <2>6. StoresAgree' /\ JournalNeverAhead'
    BY <1>1, <1>3, <2>3 DEF IInv, StoresAgree, JournalNeverAhead, RowVisible
  <2>7. QED
    BY <1>1, <1>3, <2>3, <2>4, <2>5, <2>6, SameJournal DEF RowVisible, Rest
<1>4. QED
  BY <1>2, <1>3 DEF FlipVisible, ReceiptDurable

LEMMA VisibleStep == IInv /\ RecordVisible => IInv'
<1> SUFFICES ASSUME IInv, RecordVisible PROVE IInv'
  OBVIOUS
<1> DEFINE s == tx.seq
<1>1. /\ tx # None /\ tx.pc = "visible" /\ s \in Seqs /\ journal[s] # None
      /\ journal[s].state = "materializer-acknowledged" /\ RowVisible(s)
      /\ UNCHANGED <<objects, db, receipts, mode, recovering, clock, faults>>
      /\ tx' = None /\ journal' = Moved(s, "visible")
  BY TxTyped DEF RecordVisible, At, IInv, TxAgrees, StandsAt, stores
<1>2. /\ journal' \in [Seqs -> Rows \cup {None}]
      /\ journal'[s] # None /\ journal'[s].proof = journal[s].proof
      /\ journal'[s].state = "visible" /\ journal'[s].lease = None
      /\ \A t \in Seqs \ {s} : journal'[t] = journal[t]
  BY <1>1, MovedRow DEF IInv, States, Terminal
<1>3. acked' \in SUBSET Seqs /\ acked' \subseteq acked \cup {s}
  BY <1>1 DEF RecordVisible, IInv, TypeOK
<1>4. TypeOK'
  BY <1>1, <1>2, <1>3 DEF IInv, TypeOK, Terminal
<1>5. TxAgrees'
  BY <1>1 DEF TxAgrees
<1>6. StoresAgree' /\ JournalNeverAhead'
  BY <1>1, <1>2 DEF IInv, StoresAgree, JournalNeverAhead, RowVisible
<1>7. SameInFlight'
  BY <1>1, <1>2 DEF IInv, SameInFlight, Nonterminal, Terminal
<1>8. AckedStaysVisible'
  BY <1>1, <1>2, <1>3 DEF IInv, AckedStaysVisible, RowVisible, TypeOK
<1>9. QED
  BY <1>4, <1>5, <1>6, <1>7, <1>8 DEF IInv

LEMMA DriveStepInv == IInv /\ DriveStep => IInv'
<1> SUFFICES ASSUME IInv, DriveStep PROVE IInv'
  OBVIOUS
<1>1. CASE RecordValidated
  BY <1>1, RecordStep DEF RecordValidated, StandsAt, Removing, Advancing, TxPcs
<1>2. CASE RecordDbHidden
  BY <1>2, RecordStep DEF RecordDbHidden, StandsAt, Removing, Advancing, TxPcs
<1>3. CASE RecordAcknowledged
  BY <1>3, RecordStep DEF RecordAcknowledged, StandsAt, Removing, Advancing, TxPcs
<1>4. QED
  BY <1>1, <1>2, <1>3, TemporaryStep, RenameStep, MarkerStep, NeedsRequestStep,
     ObjectCompleteStep, VerifyStep, InsertStep, HandoffStep, FlipStep, VisibleStep
     DEF DriveStep

-----------------------------------------------------------------------------
(* Collection. *)

LEMMA CollectStepInv == IInv /\ CollectStep => IInv'
<1> SUFFICES ASSUME IInv, CollectStep PROVE IInv'
  OBVIOUS
<1> DEFINE s == tx.seq
<1>1. /\ tx \in Txs /\ tx # None /\ s \in Seqs /\ tx.pc \in Removing
      /\ journal[s] # None /\ journal[s].state = "failed" /\ tx.temp = None
      /\ UNCHANGED <<mode, recovering, clock, acked, faults>>
  BY TxTyped DEF CollectStep, RemovePrefix, RemoveRow, RemoveReceipt, RecordCollected,
                 At, Removing, IInv, TxAgrees, StandsAt, Rest
<1>2. CASE RemovePrefix
  <2>1. /\ objects' = [objects EXCEPT ![s] = EmptyPrefix] /\ Goto("remove-row")
        /\ UNCHANGED <<journal, db, receipts>>
    BY <1>2 DEF RemovePrefix
  <2>2. /\ tx' \in Txs /\ tx' # None /\ tx'.seq = s /\ tx'.pc = "remove-row"
        /\ tx'.temp = None
    BY <1>1, <2>1, GotoTx DEF IInv, TxPcs
  <2>3. /\ objects' \in [Seqs -> [blobs : SUBSET Blobs, residue : BOOLEAN,
                                  marker : Proofs \cup {None}, damaged : BOOLEAN]]
        /\ objects'[s].marker = None /\ \A t \in Seqs \ {s} : objects'[t] = objects[t]
    BY <1>1, <2>1 DEF IInv, TypeOK, EmptyPrefix
  <2>4. TypeOK' /\ TxAgrees'
    BY <1>1, <2>1, <2>2, <2>3 DEF IInv, TypeOK, TxAgrees, StandsAt, Removing
  <2>5. StoresAgree' /\ JournalNeverAhead'
    BY <1>1, <2>1, <2>3 DEF IInv, StoresAgree, JournalNeverAhead, RowVisible
  <2>6. QED
    BY <1>1, <2>1, <2>4, <2>5, SameJournal DEF RowVisible
<1>3. CASE RemoveRow
  <2>1. /\ db' = [db EXCEPT ![s] = None] /\ Goto("remove-receipt")
        /\ UNCHANGED <<journal, objects, receipts>>
    BY <1>3 DEF RemoveRow
  <2>2. /\ tx' \in Txs /\ tx' # None /\ tx'.seq = s /\ tx'.pc = "remove-receipt"
        /\ tx'.temp = None
    BY <1>1, <2>1, GotoTx DEF IInv, TxPcs
  <2>3. /\ db' \in [Seqs -> DbRows \cup {None}] /\ db'[s] = None
        /\ \A t \in Seqs \ {s} : db'[t] = db[t]
    BY <1>1, <2>1 DEF IInv, TypeOK
  <2>4. TypeOK' /\ TxAgrees'
    BY <1>1, <2>1, <2>2, <2>3 DEF IInv, TypeOK, TxAgrees, StandsAt, Removing
  <2>5. StoresAgree' /\ JournalNeverAhead'
    BY <1>1, <2>1, <2>3 DEF IInv, StoresAgree, JournalNeverAhead, RowVisible
  <2>6. QED
    BY <1>1, <2>1, <2>3, <2>4, <2>5, SameJournal DEF RowVisible
<1>4. CASE RemoveReceipt
  <2>1. /\ receipts' = [receipts EXCEPT ![s] = None] /\ Goto("collected")
        /\ UNCHANGED <<journal, objects, db>> /\ db[s] = None
    BY <1>4 DEF RemoveReceipt, IInv, TxAgrees, At
  <2>2. /\ tx' \in Txs /\ tx' # None /\ tx'.seq = s /\ tx'.pc = "collected"
        /\ tx'.temp = None
    BY <1>1, <2>1, GotoTx DEF IInv, TxPcs
  <2>3. /\ receipts' \in [Seqs -> Proofs \cup {None}] /\ receipts'[s] = None
        /\ \A t \in Seqs \ {s} : receipts'[t] = receipts[t]
    BY <1>1, <2>1 DEF IInv, TypeOK
  <2>4. TypeOK' /\ TxAgrees'
    BY <1>1, <2>1, <2>2, <2>3 DEF IInv, TypeOK, TxAgrees, StandsAt, Removing
  <2>5. StoresAgree' /\ JournalNeverAhead'
    BY <1>1, <2>1, <2>3 DEF IInv, StoresAgree, JournalNeverAhead, RowVisible
  <2>6. QED
    BY <1>1, <2>1, <2>4, <2>5, SameJournal DEF RowVisible
<1>5. CASE RecordCollected
  <2>1. /\ journal' = Moved(s, "collected") /\ tx' = None /\ db[s] = None
        /\ UNCHANGED <<objects, db, receipts>>
    BY <1>5 DEF RecordCollected, IInv, TxAgrees, At, stores
  <2>2. /\ journal' \in [Seqs -> Rows \cup {None}]
        /\ journal'[s] # None /\ journal'[s].proof = journal[s].proof
        /\ journal'[s].state = "collected" /\ journal'[s].lease = None
        /\ \A t \in Seqs \ {s} : journal'[t] = journal[t]
    BY <1>1, <2>1, MovedRow DEF IInv, States, Terminal
  <2>3. TypeOK' /\ TxAgrees'
    BY <1>1, <2>1, <2>2 DEF IInv, TypeOK, TxAgrees, Terminal
  <2>4. StoresAgree' /\ JournalNeverAhead'
    BY <1>1, <2>1, <2>2 DEF IInv, StoresAgree, JournalNeverAhead, RowVisible
  <2>5. SameInFlight'
    BY <1>1, <2>1, <2>2 DEF IInv, SameInFlight, Nonterminal, Terminal
  <2>6. AckedStaysVisible'
    BY <1>1, <2>1, <2>2 DEF IInv, AckedStaysVisible, RowVisible, TypeOK
  <2>7. QED
    BY <2>3, <2>4, <2>5, <2>6 DEF IInv
<1>6. QED
  BY <1>2, <1>3, <1>4, <1>5 DEF CollectStep

-----------------------------------------------------------------------------
(* Submissions, lease extension and recovery. *)

LEMMA ResumeAtStands ==
    ASSUME NEW state \in Advancing
    PROVE  ResumeAt[state] \in {"validate", "blobs", "verify"} /\ StandsAt(ResumeAt[state], state)
BY DEF ResumeAt, Advancing, StandsAt, Removing

LEMMA DriveExistingInv ==
    ASSUME IInv, tx = None, NEW s \in Seqs, journal[s] # None, NEW request \in BOOLEAN,
           NEW todo \in SUBSET Blobs, DriveExisting(s, request, todo),
           UNCHANGED <<objects, db, receipts, mode, clock, faults>>,
           recovering' \in SUBSET Seqs
    PROVE  IInv'
<1>0. journal[s] \in Rows /\ clock \in Time
  BY RowTyped DEF IInv, TypeOK
<1>1. CASE /\ journal[s].state = "visible" /\ acked' \subseteq acked \cup {s}
           /\ UNCHANGED <<journal, tx>>
  <2>1. TypeOK' /\ TxAgrees'
    BY <1>1 DEF IInv, TypeOK, TxAgrees
  <2>2. StoresAgree' /\ JournalNeverAhead' /\ SameInFlight'
    BY <1>1 DEF IInv, StoresAgree, JournalNeverAhead, SameInFlight, RowVisible, Nonterminal
  <2>3. AckedStaysVisible'
    BY <1>1 DEF IInv, AckedStaysVisible, JournalNeverAhead, RowVisible, TypeOK
  <2>4. QED
    BY <2>1, <2>2, <2>3 DEF IInv
<1>2. CASE /\ Nonterminal(s) /\ journal' = Moved(s, "failed") /\ UNCHANGED <<tx, acked>>
  <2>1. /\ journal' \in [Seqs -> Rows \cup {None}]
        /\ journal'[s] # None /\ journal'[s].proof = journal[s].proof
        /\ journal'[s].state = "failed" /\ journal'[s].lease = None
        /\ \A t \in Seqs \ {s} : journal'[t] = journal[t]
    BY <1>2, MovedRow DEF IInv, States, Terminal
  <2>2. TypeOK' /\ TxAgrees'
    BY <1>2, <2>1 DEF IInv, TypeOK, TxAgrees, Terminal
  <2>3. StoresAgree' /\ JournalNeverAhead'
    BY <1>2, <2>1 DEF IInv, StoresAgree, JournalNeverAhead, RowVisible
  <2>4. SameInFlight'
    BY <1>2, <2>1 DEF IInv, SameInFlight, Nonterminal, Terminal
  <2>5. AckedStaysVisible'
    BY <1>2, <2>1 DEF IInv, AckedStaysVisible, RowVisible, TypeOK, Nonterminal, Terminal
  <2>6. QED
    BY <2>2, <2>3, <2>4, <2>5 DEF IInv
<1>3. CASE /\ Nonterminal(s) /\ ~Expired(journal[s], clock)
           /\ tx' = Drive(s, request, todo, clock) /\ UNCHANGED <<journal, acked>>
  <2>1. journal[s].state \in Advancing /\ journal[s].lease \in Time /\ clock < journal[s].lease
    BY <1>0, <1>3, BoundsAssumption
       DEF Nonterminal, Expired, IInv, TypeOK, Rows, States, Terminal, Advancing, Time
  <2>2. /\ tx' \in Txs /\ tx' # None /\ tx'.seq = s /\ tx'.now = clock /\ tx'.temp = None
        /\ tx'.pc = ResumeAt[journal[s].state]
    <3>1. ResumeAt[journal[s].state] \in TxPcs
      BY <2>1, ResumeAtStands DEF TxPcs
    <3>2. tx' \in Txs
      BY <1>0, <1>3, <3>1 DEF Drive, Txs
    <3>3. tx' # None
      BY <3>2, NoneAssumption
    <3>4. QED
      BY <1>3, <3>2, <3>3 DEF Drive
  <2>3. TypeOK'
    BY <1>3, <2>2 DEF IInv, TypeOK
  <2>4. TxAgrees'
    BY <1>3, <2>1, <2>2, ResumeAtStands DEF TxAgrees, Removing
  <2>5. StoresAgree' /\ JournalNeverAhead'
    BY <1>3 DEF IInv, StoresAgree, JournalNeverAhead, RowVisible
  <2>6. QED
    BY <1>3, <2>3, <2>4, <2>5, SameJournal DEF RowVisible
<1>4. QED
  BY <1>1, <1>2, <1>3 DEF DriveExisting

LEMMA JoinInv == ASSUME IInv, NEW r \in Requests, SubmitJoin(r) PROVE IInv'
<1>1. PICK s \in JoinCandidates(r.content) : DriveExisting(s, TRUE, r.blobs)
  BY DEF SubmitJoin
<1>2. s \in Seqs /\ journal[s] # None
  BY <1>1 DEF JoinCandidates, InFlight, Candidates
<1>3. r.blobs \in SUBSET Blobs
  BY RequestsAssumption DEF Request
<1>4. /\ tx = None /\ recovering' \in SUBSET Seqs
      /\ UNCHANGED <<objects, db, receipts, mode, clock, faults>>
  BY DEF SubmitJoin, Idle, stores, IInv, TypeOK
<1>5. QED
  BY <1>1, <1>2, <1>3, <1>4, DriveExistingInv

LEMMA CreateInv == ASSUME IInv, NEW r \in Requests, SubmitCreate(r) PROVE IInv'
<1> DEFINE row(s) == [proof |-> [seq |-> s, content |-> r.content, binding |-> r.binding],
                      state |-> "staging", lease |-> clock + TTL]
<1>1. PICK s \in Seqs :
        /\ NextSequence(s)
        /\ journal' = [journal EXCEPT ![s] = row(s)]
        /\ tx' = [seq |-> s, request |-> TRUE, todo |-> r.blobs, temp |-> None,
                  now |-> clock, pc |-> "validate"]
  BY DEF SubmitCreate
<1>2. /\ clock \in Time /\ clock + TTL \in Time /\ clock < clock + TTL
      /\ UNCHANGED <<objects, db, receipts, mode, recovering, clock, acked, faults>>
      /\ InFlight(r.content) = {}
  BY BoundsAssumption
     DEF SubmitCreate, stores, InFlight, IInv, TypeOK, Time
<1>3. r \in Request
  BY RequestsAssumption
<1>4. row(s) \in Rows /\ row(s) # None
  BY <1>2, <1>3, NoneAssumption DEF Rows, Proofs, Request, States, Advancing
<1>5. journal[s] = None
  BY <1>1 DEF NextSequence, Seqs
<1>6. /\ journal' \in [Seqs -> Rows \cup {None}] /\ journal'[s] = row(s)
      /\ \A t \in Seqs \ {s} : journal'[t] = journal[t]
  BY <1>1, <1>4 DEF IInv, TypeOK
<1>7. /\ tx' \in Txs /\ tx' # None /\ tx'.seq = s /\ tx'.now = clock /\ tx'.temp = None
      /\ tx'.pc = "validate"
  <2>1. TRUE \in BOOLEAN /\ r.blobs \in SUBSET Blobs
    BY <1>3 DEF Request
  <2>2. tx' \in Txs
    BY <1>1, <1>2, <2>1 DEF Txs, TxPcs
  <2>3. QED
    BY <1>1, <2>2, NoneAssumption
<1>8. TypeOK'
  BY <1>2, <1>4, <1>6, <1>7, NoneAssumption DEF IInv, TypeOK, Terminal
<1>9. TxAgrees'
  BY <1>2, <1>4, <1>6, <1>7 DEF TxAgrees, StandsAt, Removing
<1>10. StoresAgree' /\ JournalNeverAhead'
  BY <1>2, <1>4, <1>5, <1>6 DEF IInv, StoresAgree, JournalNeverAhead, RowVisible
<1>11. SameInFlight'
  <2>1. row(s).proof.content = r.content
    OBVIOUS
  <2>2. \A t \in Seqs : Nonterminal(t) => journal[t].proof.content # r.content
    BY <1>2 DEF InFlight, Candidates, Nonterminal
  <2>3. QED
    BY <1>2, <1>6, <2>1, <2>2 DEF IInv, SameInFlight, Nonterminal
<1>12. AckedStaysVisible'
  BY <1>2, <1>4, <1>5, <1>6 DEF IInv, AckedStaysVisible, RowVisible, TypeOK
<1>13. QED
  BY <1>8, <1>9, <1>10, <1>11, <1>12 DEF IInv

LEMMA ExtendInv == ASSUME IInv, NEW s \in Seqs, ExtendLease(s) PROVE IInv'
<1>1. /\ tx = None /\ Nonterminal(s) /\ clock + TTL \in Time
      /\ journal' = [journal EXCEPT ![s].lease = clock + TTL]
      /\ UNCHANGED <<objects, db, receipts, tx, mode, recovering, clock, acked, faults>>
  BY DEF ExtendLease, Idle, stores
<1>2. journal[s] \in Rows /\ journal[s] # None /\ journal[s].state \notin Terminal
  BY <1>1, RowTyped DEF IInv, Nonterminal
<1>3. /\ journal' \in [Seqs -> Rows \cup {None}]
      /\ journal'[s] # None /\ journal'[s].proof = journal[s].proof
      /\ journal'[s].state = journal[s].state /\ journal'[s].lease = clock + TTL
      /\ \A t \in Seqs \ {s} : journal'[t] = journal[t]
  BY <1>1, <1>2, NoneAssumption DEF IInv, TypeOK, Rows
<1>4. TypeOK' /\ TxAgrees'
  BY <1>1, <1>2, <1>3, NoneAssumption DEF IInv, TypeOK, TxAgrees
<1>5. StoresAgree' /\ JournalNeverAhead'
  BY <1>1, <1>2, <1>3 DEF IInv, StoresAgree, JournalNeverAhead, RowVisible
<1>6. SameInFlight' /\ AckedStaysVisible'
  BY <1>1, <1>2, <1>3 DEF IInv, SameInFlight, AckedStaysVisible, Nonterminal, RowVisible, TypeOK
<1>7. QED
  BY <1>4, <1>5, <1>6 DEF IInv

LEMMA StartupInv ==
    IInv /\ ((\E s \in Seqs : RecoverKey(s)) \/ FinishRecovery \/ Start \/ Stop) => IInv'
<1> SUFFICES ASSUME IInv, (\E s \in Seqs : RecoverKey(s)) \/ FinishRecovery \/ Start \/ Stop
             PROVE  IInv'
  OBVIOUS
<1>1. CASE \E s \in Seqs : RecoverKey(s)
  <2>1. PICK s \in Seqs : RecoverKey(s)
    BY <1>1
  <2>2. /\ tx = None /\ DriveExisting(s, FALSE, {}) /\ recovering' \in SUBSET Seqs
        /\ UNCHANGED <<objects, db, receipts, mode, clock, faults>>
    BY <2>1 DEF RecoverKey, IInv, TypeOK, stores
  <2>3. journal[s] # None
    BY <2>2 DEF DriveExisting, Nonterminal
  <2>4. QED
    BY <2>2, <2>3, DriveExistingInv
<1>2. CASE FinishRecovery \/ Start \/ Stop
  <2>1. /\ UNCHANGED <<journal, objects, db, receipts, tx, clock, acked, faults>>
        /\ mode' \in {"serving", "recovering", "down", "fenced"}
        /\ recovering' \in SUBSET Seqs
    BY <1>2 DEF FinishRecovery, Start, Stop, stores, IInv, TypeOK
  <2>2. TypeOK' /\ TxAgrees'
    BY <2>1 DEF IInv, TypeOK, TxAgrees, RowVisible
  <2>3. StoresAgree' /\ JournalNeverAhead'
    BY <2>1 DEF IInv, StoresAgree, JournalNeverAhead, RowVisible
  <2>4. QED
    BY <2>1, <2>2, <2>3, SameJournal DEF RowVisible
<1>3. QED
  BY <1>1, <1>2

LEMMA BeginCollectInv == ASSUME IInv, NEW s \in Seqs, BeginCollect(s) PROVE IInv'
<1>1. /\ journal[s] # None /\ journal[s].state = "failed" /\ clock \in Time
      /\ tx' = [seq |-> s, request |-> FALSE, todo |-> {}, temp |-> None,
                now |-> clock, pc |-> "remove-prefix"]
      /\ UNCHANGED <<journal, objects, db, receipts, mode, recovering, clock, acked, faults>>
  BY DEF BeginCollect, stores, IInv, TypeOK
<1>2. tx' \in Txs /\ tx' # None
  <2>1. {} \in SUBSET Blobs /\ FALSE \in BOOLEAN
    OBVIOUS
  <2>2. tx' \in Txs
    BY <1>1, <2>1 DEF Txs, TxPcs
  <2>3. QED
    BY <2>2, NoneAssumption
<1>3. TypeOK' /\ TxAgrees'
  BY <1>1, <1>2 DEF IInv, TypeOK, TxAgrees, StandsAt, Removing
<1>4. StoresAgree' /\ JournalNeverAhead'
  BY <1>1 DEF IInv, StoresAgree, JournalNeverAhead, RowVisible
<1>5. QED
  BY <1>1, <1>3, <1>4, SameJournal DEF RowVisible

-----------------------------------------------------------------------------
(* Faults: residue is only ever left behind in a prefix that is not complete. *)

LEMMA FaultInv ==
    IInv /\ (Crash \/ IOError \/ Tick \/ \E s \in Seqs : Damage(s)) => IInv'
<1> SUFFICES ASSUME IInv, Crash \/ IOError \/ Tick \/ \E s \in Seqs : Damage(s)
             PROVE  IInv'
  OBVIOUS
<1>1. CASE Crash \/ IOError
  <2>1. /\ UNCHANGED <<journal, db, receipts, clock, acked>> /\ tx' = None
        /\ mode' \in {"serving", "recovering", "down", "fenced"}
        /\ recovering' \in SUBSET Seqs /\ faults' \in 0..MaxFaults /\ LeaveResidue
    BY <1>1, BoundsAssumption DEF Crash, IOError, IInv, TypeOK
  <2>2. /\ objects' \in [Seqs -> [blobs : SUBSET Blobs, residue : BOOLEAN,
                                  marker : Proofs \cup {None}, damaged : BOOLEAN]]
        /\ \A s \in Seqs :
             /\ objects'[s].marker = objects[s].marker
             /\ objects'[s].blobs = objects[s].blobs
             /\ (tx = None \/ tx.temp = None \/ s # tx.seq) => objects'[s] = objects[s]
    <3>1. CASE tx # None /\ tx.temp # None
      <4>1. tx.seq \in Seqs /\ objects' = [objects EXCEPT ![tx.seq].residue = TRUE]
        BY <2>1, <3>1, TxTyped DEF LeaveResidue, IInv
      <4>2. TRUE \in BOOLEAN
        OBVIOUS
      <4>3. objects[tx.seq] \in [blobs : SUBSET Blobs, residue : BOOLEAN,
                                marker : Proofs \cup {None}, damaged : BOOLEAN]
        BY <4>1 DEF IInv, TypeOK
      <4>4. QED
        BY <3>1, <4>1, <4>2, <4>3 DEF IInv, TypeOK
    <3>2. CASE ~(tx # None /\ tx.temp # None)
      BY <2>1, <3>2 DEF LeaveResidue, IInv, TypeOK
    <3>3. QED
      BY <3>1, <3>2
  <2>3. TypeOK' /\ TxAgrees'
    BY <2>1, <2>2 DEF IInv, TypeOK, TxAgrees
  <2>4. StoresAgree' /\ JournalNeverAhead'
    BY <2>1, <2>2 DEF IInv, TxAgrees, StandsAt, StoresAgree, JournalNeverAhead, RowVisible
  <2>5. QED
    BY <2>1, <2>3, <2>4, SameJournal DEF RowVisible
<1>2. CASE Tick
  <2>1. /\ UNCHANGED <<journal, objects, db, receipts, tx, mode, recovering, acked, faults>>
        /\ clock' \in Time
    BY <1>2, BoundsAssumption DEF Tick, stores, IInv, TypeOK, Time
  <2>2. TypeOK' /\ TxAgrees'
    BY <2>1 DEF IInv, TypeOK, TxAgrees, RowVisible
  <2>3. StoresAgree' /\ JournalNeverAhead'
    BY <2>1 DEF IInv, StoresAgree, JournalNeverAhead, RowVisible
  <2>4. QED
    BY <2>1, <2>2, <2>3, SameJournal DEF RowVisible
<1>3. CASE \E s \in Seqs : Damage(s)
  <2>1. PICK s \in Seqs : Damage(s)
    BY <1>3
  <2>2. /\ UNCHANGED <<journal, db, receipts, tx, mode, recovering, clock, acked>>
        /\ faults' \in 0..MaxFaults
        /\ objects' = [objects EXCEPT ![s].damaged = TRUE]
    BY <2>1, BoundsAssumption DEF Damage, IInv, TypeOK
  <2>3. /\ objects' \in [Seqs -> [blobs : SUBSET Blobs, residue : BOOLEAN,
                                  marker : Proofs \cup {None}, damaged : BOOLEAN]]
        /\ \A t \in Seqs : /\ objects'[t].marker = objects[t].marker
                           /\ objects'[t].blobs = objects[t].blobs
                           /\ objects'[t].residue = objects[t].residue
    <3> DEFINE Object == [blobs : SUBSET Blobs, residue : BOOLEAN,
                          marker : Proofs \cup {None}, damaged : BOOLEAN]
    <3>1. objects \in [Seqs -> Object]
      BY DEF IInv, TypeOK
    <3>2. objects' = [objects EXCEPT ![s].damaged = TRUE]
      BY <2>2
    <3>3. [objects[s] EXCEPT !.damaged = TRUE] \in Object
      BY <3>1
    <3>4. objects' \in [Seqs -> Object]
      BY <3>1, <3>2, <3>3
    <3>5. ASSUME NEW t \in Seqs
          PROVE  /\ objects'[t].marker = objects[t].marker
                 /\ objects'[t].blobs = objects[t].blobs
                 /\ objects'[t].residue = objects[t].residue
      BY <3>1, <3>2
    <3>6. QED
      BY <3>4, <3>5
  <2>4. TypeOK' /\ TxAgrees'
    BY <2>2, <2>3 DEF IInv, TypeOK, TxAgrees, RowVisible
  <2>5. StoresAgree' /\ JournalNeverAhead'
    BY <2>2, <2>3 DEF IInv, StoresAgree, JournalNeverAhead, RowVisible
  <2>6. QED
    BY <2>2, <2>4, <2>5, SameJournal DEF RowVisible
<1>4. QED
  BY <1>1, <1>2, <1>3

-----------------------------------------------------------------------------
(* The invariant is inductive. *)
LEMMA NextIInv == IInv /\ [Next]_vars => IInv'
<1> SUFFICES ASSUME IInv, [Next]_vars PROVE IInv'
  OBVIOUS
<1>1. CASE \E r \in Requests : SubmitJoin(r) \/ SubmitCreate(r)
  BY <1>1, JoinInv, CreateInv
<1>2. CASE \E s \in Seqs : BeginCollect(s) \/ ExtendLease(s) \/ RecoverKey(s) \/ Damage(s)
  BY <1>2, BeginCollectInv, ExtendInv, StartupInv, FaultInv
<1>3. CASE UNCHANGED vars
  <2>1. TypeOK' /\ TxAgrees'
    BY <1>3 DEF vars, IInv, TypeOK, TxAgrees, RowVisible
  <2>2. StoresAgree' /\ JournalNeverAhead'
    BY <1>3 DEF vars, IInv, StoresAgree, JournalNeverAhead, RowVisible
  <2>3. QED
    BY <1>3, <2>1, <2>2, SameJournal DEF vars, RowVisible
<1>4. QED
  BY <1>1, <1>2, <1>3, DriveStepInv, CollectStepInv, StartupInv, FaultInv DEF Next

(* The inductive invariant holds in every state of every behaviour. *)
LEMMA Invariance == Spec => []IInv
BY InitIInv, NextIInv, PTL DEF Spec

-----------------------------------------------------------------------------
(* Theorems. *)

(* Type correctness of journal, stores and transaction. *)
THEOREM TypeCorrect == Spec => []TypeOK
BY Invariance, PTL DEF IInv

(* Whatever the journal state lets a resumed drive skip is on disk. *)
THEOREM JournalNeverAheadHolds == Spec => []JournalNeverAhead
BY Invariance, PTL DEF IInv

(* A caller who was told "visible" can rely on it for ever. *)
THEOREM AckedStaysVisibleHolds == Spec => []AckedStaysVisible
BY Invariance, PTL DEF IInv

(* A readable row of a transaction that did not fail has its three witnesses. *)
THEOREM VisibleHasWitnessesHolds == Spec => []VisibleHasWitnesses
<1>1. IInv => VisibleHasWitnesses
  <2> SUFFICES ASSUME IInv, NEW s \in Seqs, RowVisible(s), journal[s].state # "failed"
               PROVE  /\ journal[s].state \in {"materializer-acknowledged", "visible"}
                      /\ db[s].proof = journal[s].proof
                      /\ objects[s].damaged \/ AdmittedVisible(s)
    BY DEF VisibleHasWitnesses
  <2>1. /\ journal[s] # None /\ db[s].proof = journal[s].proof
        /\ journal[s].state \in {"materializer-acknowledged", "visible"}
    BY DEF IInv, StoresAgree, RowVisible
  <2>2. /\ objects[s].marker = journal[s].proof /\ receipts[s] = journal[s].proof
        /\ objects[s].blobs # {} /\ ~objects[s].residue
    BY <2>1 DEF IInv, JournalNeverAhead
  <2>3. journal[s].proof # None
    BY <2>1, NoneAssumption DEF IInv, TypeOK, Rows
  <2>4. QED
    BY <2>1, <2>2, <2>3 DEF AdmittedVisible, PrefixVerifies
<1>2. QED
  BY <1>1, Invariance, PTL

(* At most one transaction of a content is in flight. *)
THEOREM OneInFlightHolds == Spec => []OneInFlight
<1>1. IInv => OneInFlight
  <2> SUFFICES ASSUME IInv, NEW c \in Contents PROVE Cardinality(InFlight(c)) <= 1
    BY DEF OneInFlight
  <2>1. CASE InFlight(c) = {}
    BY <2>1, FS_EmptySet
  <2>2. CASE InFlight(c) # {}
    <3>1. PICK s \in InFlight(c) : TRUE
      BY <2>2
    <3>2. InFlight(c) = {s}
      BY <3>1 DEF IInv, SameInFlight, InFlight, Candidates
    <3>3. QED
      BY <3>2, FS_Singleton
  <2>3. QED
    BY <2>1, <2>2
<1>2. QED
  BY <1>1, Invariance, PTL

(* A version becomes readable only within the lease its transaction began in. *)
THEOREM NoLatePublicationHolds == Spec => NoLatePublication
<1>1. IInv /\ [Next]_vars =>
        [\A s \in Seqs : ~RowVisible(s) /\ RowVisible(s)' =>
            tx # None /\ tx.seq = s /\ tx.now < journal[s].lease]_vars
  <2> SUFFICES ASSUME IInv, Next, NEW s \in Seqs, ~RowVisible(s), RowVisible(s)'
               PROVE  tx # None /\ tx.seq = s /\ tx.now < journal[s].lease
    BY DEF vars, RowVisible
  <2>1. db'[s] # db[s] /\ db'[s] # None /\ db'[s].visibility = "visible"
    BY DEF RowVisible
  <2>2. InsertHiddenRow \/ FlipVisible \/ RemoveRow
    BY <2>1 DEF Next, SubmitJoin, SubmitCreate, DriveStep, RecordValidated, WriteTemporary,
       RenameBlob, WriteMarker, ResumeNeedsRequest, RecordObjectComplete, VerifyPrefix,
       RecordDbHidden, Handoff, RecordAcknowledged, RecordVisible, Record, BeginCollect,
       ExtendLease, RecoverKey, Damage, CollectStep, RemovePrefix, RemoveReceipt,
       RecordCollected, FinishRecovery, Start, Stop, Crash, IOError, Tick, stores
  <2>3. tx # None /\ tx.seq \in Seqs
    BY <2>2, TxTyped DEF InsertHiddenRow, FlipVisible, RemoveRow, At, IInv
  <2>4. ~InsertHiddenRow /\ ~RemoveRow
    BY <2>1, <2>3 DEF InsertHiddenRow, RemoveRow, IInv, TypeOK
  <2>5. FlipVisible /\ tx.pc \notin Removing
    BY <2>2, <2>4 DEF FlipVisible, At, Removing
  <2>6. tx.seq = s
    BY <2>1, <2>3, <2>5 DEF FlipVisible, IInv, TypeOK
  <2>7. QED
    BY <2>3, <2>5, <2>6 DEF IInv, TxAgrees
<1>2. QED
  BY <1>1, Invariance, PTL DEF Spec, NoLatePublication

(* A journal row keeps its proof for ever: the next sequence is fresh. *)
LEMMA RowKept ==
    ASSUME IInv, Next, NEW s \in Seqs, journal[s] # None
    PROVE  journal'[s] # None /\ journal'[s].proof = journal[s].proof
<1>1. \A t \in Seqs, to \in States : journal[t] # None /\ journal' = Moved(t, to) =>
        journal'[s] # None /\ journal'[s].proof = journal[s].proof
  BY MovedRow DEF IInv
<1>2. ASSUME NEW t \in Seqs, NEW request, NEW todo, DriveExisting(t, request, todo)
      PROVE  journal'[s] # None /\ journal'[s].proof = journal[s].proof
  BY <1>1, <1>2 DEF DriveExisting, Nonterminal, States, Terminal
<1>3. CASE \E r \in Requests : SubmitJoin(r)
  BY <1>2, <1>3 DEF SubmitJoin, JoinCandidates, InFlight, Candidates
<1>4. CASE \E r \in Requests : SubmitCreate(r)
  <2>1. PICK r \in Requests, t \in Seqs :
          /\ NextSequence(t)
          /\ journal' = [journal EXCEPT ![t] =
               [proof |-> [seq |-> t, content |-> r.content, binding |-> r.binding],
                state |-> "staging", lease |-> clock + TTL]]
    BY <1>4 DEF SubmitCreate
  <2>2. s # t
    BY <2>1 DEF NextSequence, Seqs
  <2>3. QED
    BY <2>1, <2>2 DEF IInv, TypeOK
<1>5. CASE \E t \in Seqs : ExtendLease(t)
  <2>1. PICK t \in Seqs : journal[t] # None
                          /\ journal' = [journal EXCEPT ![t].lease = clock + TTL]
    BY <1>5 DEF ExtendLease, Nonterminal
  <2>2. journal[t] \in Rows
    BY <2>1 DEF IInv, TypeOK
  <2>3. CASE s = t
    <3>1. journal'[s].proof = journal[s].proof /\ journal'[s].state = journal[s].state
          /\ journal'[s].lease = clock + TTL
      BY <2>1, <2>2, <2>3 DEF IInv, TypeOK, Rows
    <3>2. clock + TTL \in Time
      BY <1>5 DEF ExtendLease
    <3>3. journal'[s] \in Rows
      BY <2>1, <2>2, <2>3, <3>2 DEF IInv, TypeOK, Rows
    <3>4. QED
      BY <3>1, <3>3, NoneAssumption
  <2>4. CASE s # t
    BY <2>1, <2>4 DEF IInv, TypeOK
  <2>5. QED
    BY <2>3, <2>4
<1>6. CASE \E t \in Seqs : RecoverKey(t)
  BY <1>2, <1>6 DEF RecoverKey
<1>7. CASE DriveStep \/ CollectStep
  <2>1. journal' = journal \/ \E to \in States : journal[tx.seq] # None /\ tx.seq \in Seqs
                                                  /\ journal' = Moved(tx.seq, to)
    BY <1>7, TxTyped DEF DriveStep, RecordValidated, WriteTemporary,
       RenameBlob, WriteMarker, ResumeNeedsRequest, RecordObjectComplete, VerifyPrefix,
       InsertHiddenRow, RecordDbHidden, Handoff, RecordAcknowledged, FlipVisible,
       RecordVisible, Record, CollectStep, RemovePrefix, RemoveRow, RemoveReceipt,
       RecordCollected, FailRow, At, IInv, TxAgrees, States, Advancing, Terminal
  <2>2. QED
    BY <1>1, <2>1
<1>8. CASE journal' = journal
  BY <1>8
<1>9. QED
  BY <1>3, <1>4, <1>5, <1>6, <1>7, <1>8 DEF Next, BeginCollect, Damage, FinishRecovery,
     Start, Stop, Crash, IOError, Tick

(* A version keeps its proof also after it failed and was collected. *)
THEOREM SequenceNeverReusedHolds == Spec => SequenceNeverReused
<1>1. IInv /\ [Next]_vars =>
        [\A s \in Seqs : journal[s] # None =>
            journal'[s] # None /\ journal'[s].proof = journal[s].proof]_vars
  BY RowKept
<1>2. QED
  BY <1>1, Invariance, PTL DEF Spec, SequenceNeverReused

-----------------------------------------------------------------------------
(* The transaction implements the version ledger.                          *)

(* What a step makes of one version, in the words of the ledger. *)
Stays(s)     == Reader(s)' = Reader(s) /\ Outcome(s)' = Outcome(s)
Opened(s)    == Outcome(s) = "none" /\ Outcome(s)' = "open" /\ Reader(s)' = Reader(s)
Published(s) == /\ Outcome(s) = "open" /\ Outcome(s)' = "open"
                /\ Reader(s) = "hidden" /\ Reader(s)' \in {"readable", "withdrawn"}
Confirmed(s) == /\ Outcome(s) = "open" /\ Outcome(s)' = "visible"
                /\ Reader(s) # "hidden" /\ Reader(s)' = Reader(s)
Rejected(s)  == /\ Outcome(s) = "open" /\ Outcome(s)' = "failed"
                /\ Reader(s)' = IF Reader(s) = "hidden" THEN "withdrawn" ELSE Reader(s)
Withdrawn(s) == /\ Outcome(s)' = Outcome(s)
                /\ Reader(s) = "readable" /\ Reader(s)' = "withdrawn"
Changes(s)   == Stays(s) \/ Opened(s) \/ Published(s) \/ Confirmed(s) \/ Rejected(s)
                \/ Withdrawn(s)

(* A step in which one version changes so, and no other, is a step of the
   ledger. *)
LEMMA OneVersion ==
    ASSUME NEW s \in Seqs, Changes(s), \A t \in Seqs \ {s} : Stays(t)
    PROVE  [Ledger!Next]_<<[t \in Seqs |-> Reader(t)], [t \in Seqs |-> Outcome(t)]>>
<1> DEFINE reader == [t \in Seqs |-> Reader(t)]
           outcome == [t \in Seqs |-> Outcome(t)]
<1>1. CASE Stays(s)
  <2>1. \A t \in Seqs : Reader(t)' = Reader(t) /\ Outcome(t)' = Outcome(t)
    BY <1>1 DEF Stays
  <2>2. reader' = reader /\ outcome' = outcome
    BY <2>1
  <2>3. QED
    BY <2>2
<1>2. \A t \in Seqs \ {s} : Reader(t)' = Reader(t) /\ Outcome(t)' = Outcome(t)
  BY DEF Stays
<1>3. /\ reader' = [reader EXCEPT ![s] = Reader(s)']
      /\ outcome' = [outcome EXCEPT ![s] = Outcome(s)']
  BY <1>2
<1>4. /\ Reader(s)' = Reader(s) => reader' = reader
      /\ Outcome(s)' = Outcome(s) => outcome' = outcome
  BY <1>3
<1>5. CASE Opened(s)
  <2>1. Ledger!Open(s)
    BY <1>3, <1>4, <1>5 DEF Opened, Ledger!Open
  <2>2. QED
    BY <2>1 DEF Ledger!Next
<1>6. CASE Published(s)
  <2>1. Ledger!Publish(s)
    BY <1>3, <1>4, <1>6 DEF Published, Ledger!Publish
  <2>2. QED
    BY <2>1 DEF Ledger!Next
<1>7. CASE Confirmed(s)
  <2>1. Ledger!Confirm(s)
    BY <1>3, <1>4, <1>7 DEF Confirmed, Ledger!Confirm
  <2>2. QED
    BY <2>1 DEF Ledger!Next
<1>8. CASE Rejected(s)
  <2>1. Ledger!Reject(s)
    BY <1>3, <1>4, <1>8 DEF Rejected, Ledger!Reject
  <2>2. QED
    BY <2>1 DEF Ledger!Next
<1>9. CASE Withdrawn(s)
  <2>1. Ledger!Withdraw(s)
    BY <1>3, <1>4, <1>9 DEF Withdrawn, Ledger!Withdraw
  <2>2. QED
    BY <2>1 DEF Ledger!Next
<1>10. QED
  BY <1>1, <1>5, <1>6, <1>7, <1>8, <1>9 DEF Changes

-----------------------------------------------------------------------------
(* The words of the ledger depend on the stores of their own version only. *)

LEMMA Untouched ==
    ASSUME NEW s \in Seqs,
           journal'[s] = journal[s], objects'[s] = objects[s],
           db'[s] = db[s], receipts'[s] = receipts[s]
    PROVE  Stays(s)
BY DEF Stays, Reader, Outcome, AdmittedVisible, RowVisible, PrefixVerifies

(* A row that is not visible hides what the other stores hold. *)
LEMMA Unseen ==
    ASSUME NEW s \in Seqs, journal[s] # None, journal'[s] # None,
           journal[s].state \in Advancing, journal'[s].state \in Advancing,
           ~RowVisible(s), ~RowVisible(s)'
    PROVE  Stays(s)
BY DEF Stays, Reader, Outcome, AdmittedVisible, Advancing

(* A transition of the journal row between states that the ledger calls open. *)
LEMMA OpenMoves ==
    ASSUME NEW s \in Seqs, journal[s] # None, journal'[s] # None,
           journal[s].state \in Advancing, journal'[s].state \in Advancing,
           objects'[s] = objects[s], db'[s] = db[s], receipts'[s] = receipts[s]
    PROVE  Stays(s)
BY DEF Stays, Reader, Outcome, AdmittedVisible, RowVisible, PrefixVerifies, Advancing

(* A row that fails. *)
LEMMA Fails ==
    ASSUME IInv, NEW s \in Seqs, journal[s] # None, journal[s].state \in Advancing,
           journal' = Moved(s, "failed"), UNCHANGED stores
    PROVE  Rejected(s) /\ \A t \in Seqs \ {s} : Stays(t)
<1>1. /\ journal'[s] # None /\ journal'[s].state = "failed"
      /\ \A t \in Seqs \ {s} : journal'[t] = journal[t]
  BY MovedRow DEF IInv, States, Terminal
<1>2. Rejected(s)
  BY <1>1 DEF Rejected, Reader, Outcome, AdmittedVisible, RowVisible, PrefixVerifies, stores,
              Advancing
<1>3. QED
  BY <1>1, <1>2, Untouched DEF stores

-----------------------------------------------------------------------------
(* The steps of a drive. *)

(* At most one version changes, and it changes as the ledger allows. *)
MovesOne == \/ \A t \in Seqs : Stays(t)
            \/ \E s \in Seqs : Changes(s) /\ \A t \in Seqs \ {s} : Stays(t)

(* A transaction in memory before it removes anything: its row is in flight. *)
LEMMA Driving ==
    ASSUME IInv, tx # None, tx.pc \notin Removing
    PROVE  /\ tx.seq \in Seqs /\ journal[tx.seq] # None
           /\ journal[tx.seq].state \in Advancing
BY TxTyped DEF IInv, TxAgrees, StandsAt, Txs, TxPcs, Removing, Advancing

LEMMA RecordStays ==
    ASSUME IInv, NEW pc \in TxPcs \ Removing, NEW to \in Advancing, NEW nextpc,
           Record(pc, to, nextpc)
    PROVE  \A t \in Seqs : Stays(t)
<1>0. PICK s \in Seqs : s = tx.seq
  BY TxTyped DEF Record, At, IInv
<1>1. /\ s = tx.seq /\ journal[s] # None /\ journal[s].state \in Advancing
      /\ journal' = Moved(s, to) /\ UNCHANGED stores
  BY <1>0, Driving DEF Record, At
<1>2. /\ journal'[s] # None /\ journal'[s].state = to
      /\ \A t \in Seqs \ {s} : journal'[t] = journal[t]
  BY <1>1, MovedRow DEF IInv, States
<1>3. Stays(s)
  BY <1>1, <1>2, OpenMoves DEF stores
<1>4. QED
  BY <1>1, <1>2, <1>3, Untouched DEF stores

(* FailRow of a drive. *)
LEMMA FailRowMoves ==
    ASSUME IInv, tx # None, tx.pc \notin Removing, FailRow, UNCHANGED stores
    PROVE  MovesOne
<1>0. PICK s \in Seqs : s = tx.seq
  BY Driving
<1>1. journal[s] # None /\ journal[s].state \in Advancing
  BY <1>0, Driving
<1>2. journal' = Moved(s, "failed")
  BY <1>0, <1>1 DEF FailRow, CanMove, TransitionAllowed, Terminal
<1>3. QED
  BY <1>1, <1>2, Fails DEF MovesOne, Changes

(* A step that leaves the journal alone, on a version whose row is in flight
   and was not and is not visible. *)
LEMMA HiddenMoves ==
    ASSUME NEW s \in Seqs, journal[s] # None, journal[s].state \in Advancing,
           journal' = journal, ~RowVisible(s), ~RowVisible(s)',
           \A t \in Seqs \ {s} : objects'[t] = objects[t] /\ db'[t] = db[t]
                                    /\ receipts'[t] = receipts[t]
    PROVE  \A t \in Seqs : Stays(t)
<1>1. Stays(s)
  BY Unseen
<1>2. QED
  BY <1>1, Untouched

(* Only a transaction at "flip" or later may find its row visible. *)
LEMMA NotYetVisible ==
    ASSUME IInv, tx # None,
           tx.pc \in {"validate", "blobs", "object-complete", "insert", "db-hidden", "handoff",
                      "acknowledge"}
    PROVE  ~RowVisible(tx.seq)
BY TxTyped DEF IInv, TxAgrees, StandsAt, StoresAgree

LEMMA BlobStepsStay ==
    ASSUME IInv, RenameBlob \/ WriteMarker
    PROVE  \A t \in Seqs : Stays(t)
<1>0. PICK s \in Seqs : s = tx.seq
  BY TxTyped DEF RenameBlob, WriteMarker, At, IInv
<1>1. /\ tx # None /\ tx.pc = "blobs" /\ s = tx.seq /\ UNCHANGED <<journal, db, receipts>>
      /\ journal[s] # None /\ journal[s].state \in Advancing
  BY <1>0, Driving DEF RenameBlob, WriteMarker, At, Removing
<1>2. ~RowVisible(s) /\ ~RowVisible(s)'
  BY <1>1, NotYetVisible DEF RowVisible
<1>3. \A t \in Seqs \ {s} : objects'[t] = objects[t]
  BY <1>1 DEF RenameBlob, WriteMarker, IInv, TypeOK
<1>4. QED
  BY <1>1, <1>2, <1>3, HiddenMoves

LEMMA InsertMoves == ASSUME IInv, InsertHiddenRow PROVE MovesOne
<1>0. PICK s \in Seqs : s = tx.seq
  BY TxTyped DEF InsertHiddenRow, At, IInv
<1> DEFINE row == [proof |-> journal[s].proof, visibility |-> "hidden"]
<1>1. /\ tx # None /\ tx.pc = "insert" /\ tx.pc \notin Removing /\ s = tx.seq
      /\ UNCHANGED <<objects, receipts>>
      /\ journal[s] # None /\ journal[s].state \in Advancing
  BY <1>0, Driving DEF InsertHiddenRow, At, Removing
<1>2. CASE FailRow /\ UNCHANGED db
  BY <1>1, <1>2, FailRowMoves DEF stores
<1>3. CASE db' = [db EXCEPT ![s] = row] /\ UNCHANGED journal
  <2>1. ~RowVisible(s)
    BY <1>1, NotYetVisible
  <2>2. db'[s].visibility = "hidden" /\ \A t \in Seqs \ {s} : db'[t] = db[t]
    BY <1>1, <1>3 DEF IInv, TypeOK
  <2>3. QED
    BY <1>1, <1>3, <2>1, <2>2, HiddenMoves DEF RowVisible, MovesOne
<1>4. QED
  BY <1>0, <1>2, <1>3 DEF InsertHiddenRow

LEMMA HandoffMoves == ASSUME IInv, Handoff PROVE MovesOne
<1>0. PICK s \in Seqs : s = tx.seq
  BY TxTyped DEF Handoff, At, IInv
<1>1. /\ tx # None /\ tx.pc = "handoff" /\ tx.pc \notin Removing /\ s = tx.seq
      /\ UNCHANGED <<objects, db>>
      /\ journal[s] # None /\ journal[s].state \in Advancing
  BY <1>0, Driving DEF Handoff, At, Removing
<1>2. CASE FailRow /\ UNCHANGED receipts
  BY <1>1, <1>2, FailRowMoves DEF stores
<1>3. CASE receipts' = [receipts EXCEPT ![s] = journal[s].proof] /\ UNCHANGED journal
  <2>1. ~RowVisible(s) /\ ~RowVisible(s)'
    BY <1>1, NotYetVisible DEF RowVisible
  <2>2. \A t \in Seqs \ {s} : receipts'[t] = receipts[t]
    BY <1>1, <1>3 DEF IInv, TypeOK
  <2>3. QED
    BY <1>1, <1>3, <2>1, <2>2, HiddenMoves DEF MovesOne
<1>4. QED
  BY <1>0, <1>2, <1>3 DEF Handoff

(* The flip publishes the version, or finds it published by an earlier drive. *)
LEMMA FlipMoves == ASSUME IInv, FlipVisible PROVE MovesOne
<1>0. PICK s \in Seqs : s = tx.seq
  BY TxTyped DEF FlipVisible, At, IInv
<1>1. /\ tx # None /\ tx.pc = "flip" /\ tx.pc \notin Removing /\ s = tx.seq
      /\ UNCHANGED <<objects, receipts>>
      /\ journal[s] # None /\ journal[s].state \in Advancing
  BY <1>0, Driving DEF FlipVisible, At, Removing
<1>2. CASE FailRow /\ UNCHANGED db
  BY <1>1, <1>2, FailRowMoves DEF stores
<1>3. CASE /\ db[s] # None
           /\ db' = [db EXCEPT ![s].visibility = "visible"] /\ UNCHANGED journal
  <2>1. db[s] \in DbRows
    BY <1>1, <1>3 DEF IInv, TypeOK
  <2>2. /\ db'[s].visibility = "visible" /\ db'[s].proof = db[s].proof
        /\ \A t \in Seqs \ {s} : db'[t] = db[t]
    BY <1>1, <1>3, <2>1 DEF IInv, TypeOK, DbRows
  <2>3. db'[s] # None
    BY <1>1, <1>3, <2>1, NoneAssumption DEF IInv, TypeOK, DbRows
  <2>4. \A t \in Seqs \ {s} : Stays(t)
    BY <1>1, <1>3, <2>2, Untouched
  <2>5. Outcome(s) = "open" /\ Outcome(s)' = "open"
    BY <1>1, <1>3 DEF Outcome
  <2>6. CASE RowVisible(s)
    <3>1. Stays(s)
      BY <1>1, <1>3, <2>2, <2>3, <2>6 DEF Stays, Reader, Outcome, AdmittedVisible, RowVisible,
                                          PrefixVerifies
    <3>2. QED
      BY <2>4, <3>1 DEF MovesOne
  <2>7. CASE ~RowVisible(s)
    <3>1. Reader(s) = "hidden"
      BY <1>1, <2>7 DEF Reader, AdmittedVisible, Advancing
    <3>2. Reader(s)' \in {"readable", "withdrawn"}
      BY <2>2, <2>3 DEF Reader, RowVisible
    <3>3. Published(s)
      BY <2>5, <3>1, <3>2 DEF Published
    <3>4. QED
      BY <2>4, <3>3, <1>1 DEF MovesOne, Changes
  <2>8. QED
    BY <2>6, <2>7
<1>4. QED
  BY <1>0, <1>2, <1>3 DEF FlipVisible

(* The last journal row confirms a version that readers have been given. *)
LEMMA ConfirmMoves == ASSUME IInv, RecordVisible PROVE MovesOne
<1>0. PICK s \in Seqs : s = tx.seq
  BY TxTyped DEF RecordVisible, At, IInv
<1>1. /\ tx # None /\ tx.pc = "visible" /\ s = tx.seq /\ UNCHANGED stores
      /\ journal[s] # None /\ journal[s].state \in Advancing
      /\ journal' = Moved(s, "visible") /\ RowVisible(s)
  BY <1>0, Driving DEF RecordVisible, At, Removing, IInv, TxAgrees
<1>2. /\ journal'[s] # None /\ journal'[s].state = "visible"
      /\ \A t \in Seqs \ {s} : journal'[t] = journal[t]
  BY <1>1, MovedRow DEF IInv, States, Terminal
<1>3. Outcome(s) = "open" /\ Outcome(s)' = "visible"
  BY <1>1, <1>2 DEF Outcome, Advancing
<1>4. Reader(s)' = Reader(s) /\ Reader(s) # "hidden"
  BY <1>1, <1>2 DEF Reader, AdmittedVisible, RowVisible, PrefixVerifies, stores, Advancing
<1>5. QED
  BY <1>1, <1>2, <1>3, <1>4, Untouched DEF MovesOne, Changes, Confirmed, stores

LEMMA DriveMoves == ASSUME IInv, DriveStep PROVE MovesOne
<1>1. CASE RecordValidated \/ RecordDbHidden \/ RecordAcknowledged
  <2>1. \A t \in Seqs : Stays(t)
    BY <1>1, RecordStays DEF RecordValidated, RecordDbHidden, RecordAcknowledged, TxPcs,
                             Removing, Advancing
  <2>2. QED
    BY <2>1 DEF MovesOne
<1>2. CASE UNCHANGED <<journal, stores>>
  BY <1>2, Untouched DEF MovesOne, stores
<1>3. CASE RenameBlob \/ WriteMarker
  BY <1>3, BlobStepsStay DEF MovesOne
<1>4. CASE RecordObjectComplete
  <2>1. tx # None /\ tx.pc = "object-complete" /\ tx.pc \notin Removing /\ UNCHANGED stores
    BY <1>4 DEF RecordObjectComplete, At, Removing
  <2>2. CASE FailRow
    BY <2>1, <2>2, FailRowMoves
  <2>3. CASE ~FailRow
    <3>1. Record("object-complete", "object-complete", "verify")
      BY <1>4, <2>1, <2>3 DEF RecordObjectComplete, Record, At
    <3>2. \A t \in Seqs : Stays(t)
      BY <3>1, RecordStays DEF TxPcs, Removing, Advancing
    <3>3. QED
      BY <3>2 DEF MovesOne
  <2>4. QED
    BY <2>2, <2>3
<1>5. CASE VerifyPrefix
  <2>1. tx # None /\ tx.pc = "verify" /\ tx.pc \notin Removing /\ UNCHANGED stores
    BY <1>5 DEF VerifyPrefix, At, Removing
  <2>2. CASE FailRow
    BY <2>1, <2>2, FailRowMoves
  <2>3. CASE ~FailRow
    BY <1>2, <1>5, <2>1, <2>3 DEF VerifyPrefix
  <2>4. QED
    BY <2>2, <2>3
<1>6. QED
  BY <1>1, <1>2, <1>3, <1>4, <1>5, InsertMoves, HandoffMoves, FlipMoves, ConfirmMoves
     DEF DriveStep, WriteTemporary, ResumeNeedsRequest

-----------------------------------------------------------------------------
(* The other steps. *)

(* A collection only removes what a failed row leaves behind: its version was
   withdrawn when the row failed, or is withdrawn with its objects. *)
LEMMA CollectMoves == ASSUME IInv, CollectStep PROVE MovesOne
<1>0. PICK s \in Seqs : s = tx.seq
  BY TxTyped DEF CollectStep, RemovePrefix, RemoveRow, RemoveReceipt, RecordCollected, At, IInv
<1>1. tx # None /\ tx.pc \in Removing /\ journal[s] # None /\ journal[s].state = "failed"
  BY <1>0 DEF CollectStep, RemovePrefix, RemoveRow, RemoveReceipt, RecordCollected, At, IInv,
              TxAgrees, StandsAt, Removing
<1>2. Outcome(s) = "failed" /\ Reader(s) # "hidden"
  BY <1>1 DEF Outcome, Reader, Advancing
<1>3. CASE RemovePrefix \/ RemoveRow \/ RemoveReceipt
  <2>1. /\ journal' = journal
        /\ \A t \in Seqs \ {s} : objects'[t] = objects[t] /\ db'[t] = db[t]
                                 /\ receipts'[t] = receipts[t]
        /\ RemovePrefix => objects'[s].marker = None
        /\ RemoveRow => db'[s] = None
        /\ RemoveReceipt => db'[s] = db[s]
    <3>1. CASE RemovePrefix
      BY <1>0, <3>1 DEF RemovePrefix, RemoveRow, RemoveReceipt, At, EmptyPrefix, IInv, TypeOK
    <3>2. CASE RemoveRow
      BY <1>0, <3>2 DEF RemovePrefix, RemoveRow, RemoveReceipt, At, IInv, TypeOK
    <3>3. CASE RemoveReceipt
      BY <1>0, <3>3 DEF RemovePrefix, RemoveRow, RemoveReceipt, At, IInv, TypeOK
    <3>4. QED
      BY <1>3, <3>1, <3>2, <3>3
  <2>2. ~AdmittedVisible(s)'
    <3>1. RemoveReceipt => db[s] = None
      BY <1>0 DEF RemoveReceipt, At, IInv, StoresAgree, TxAgrees, RowVisible
    <3>2. QED
      BY <1>3, <2>1, <3>1 DEF AdmittedVisible, RowVisible, PrefixVerifies
  <2>3. Outcome(s)' = Outcome(s) /\ Reader(s)' = "withdrawn"
    BY <1>1, <2>1, <2>2 DEF Outcome, Reader
  <2>4. \A t \in Seqs \ {s} : Stays(t)
    BY <2>1, Untouched
  <2>5. Reader(s) \in {"readable", "withdrawn"}
    BY <1>2 DEF Reader
  <2>6. QED
    BY <2>3, <2>4, <2>5 DEF MovesOne, Changes, Stays, Withdrawn
<1>4. CASE RecordCollected
  <2>1. /\ journal' = Moved(s, "collected") /\ UNCHANGED stores
        /\ tx.pc = "collected"
    BY <1>0, <1>4 DEF RecordCollected, At
  <2>2. /\ journal'[s] # None /\ journal'[s].state = "collected"
        /\ \A t \in Seqs \ {s} : journal'[t] = journal[t]
    BY <1>1, <2>1, MovedRow DEF IInv, States, Terminal
  <2>3. db[s] = None /\ db'[s] = None
    BY <1>0, <1>1, <2>1 DEF IInv, TxAgrees, stores
  <2>4. Stays(s)
    BY <1>1, <2>2, <2>3 DEF Stays, Reader, Outcome, AdmittedVisible, RowVisible, Advancing
  <2>5. QED
    BY <2>1, <2>2, <2>4, Untouched DEF MovesOne, stores
<1>5. QED
  BY <1>3, <1>4 DEF CollectStep

LEMMA ExtendMoves == ASSUME IInv, NEW s \in Seqs, ExtendLease(s) PROVE MovesOne
<1>1. /\ journal[s] # None /\ journal[s].state \in Advancing /\ journal[s] \in Rows
      /\ journal' = [journal EXCEPT ![s].lease = clock + TTL] /\ UNCHANGED stores
      /\ clock + TTL \in Time
  BY RowTyped DEF ExtendLease, Nonterminal, IInv, Rows, States
<1>2. /\ journal'[s] \in Rows /\ journal'[s].state = journal[s].state
      /\ \A t \in Seqs \ {s} : journal'[t] = journal[t]
  BY <1>1 DEF IInv, TypeOK, Rows
<1>3. Stays(s)
  BY <1>1, <1>2, OpenMoves, NoneAssumption DEF stores
<1>4. QED
  BY <1>1, <1>2, <1>3, Untouched DEF MovesOne, stores

(* A new row is of a version that no store has heard of. *)
LEMMA CreateMoves == ASSUME IInv, NEW r \in Requests, SubmitCreate(r) PROVE MovesOne
<1>1. PICK s \in Seqs :
        /\ NextSequence(s)
        /\ journal' = [journal EXCEPT ![s] =
             [proof |-> [seq |-> s, content |-> r.content, binding |-> r.binding],
              state |-> "staging", lease |-> clock + TTL]]
  BY DEF SubmitCreate
<1>2. UNCHANGED stores /\ clock + TTL \in Time
  BY DEF SubmitCreate
<1>3. journal[s] = None
  BY <1>1 DEF NextSequence, Seqs
<1>4. db[s] = None
  BY <1>3 DEF IInv, StoresAgree
<1>5. /\ journal'[s] \in Rows /\ journal'[s].state = "staging"
      /\ \A t \in Seqs \ {s} : journal'[t] = journal[t]
  <2>1. r.content \in Contents /\ r.binding \in Bindings
    BY RequestsAssumption DEF Request
  <2> DEFINE row == [proof |-> [seq |-> s, content |-> r.content, binding |-> r.binding],
                     state |-> "staging", lease |-> clock + TTL]
  <2>2. row \in Rows
    BY <1>2, <2>1 DEF Rows, Proofs, States, Advancing
  <2>3. journal' = [journal EXCEPT ![s] = row]
    BY <1>1
  <2>4. row.state = "staging"
    OBVIOUS
  <2> HIDE DEF row
  <2>5. journal'[s] = row /\ \A t \in Seqs \ {s} : journal'[t] = journal[t]
    <3>1. DOMAIN journal = Seqs
      BY DEF IInv, TypeOK, Journals
    <3>2. QED
      BY <2>3, <3>1
  <2>6. QED
    BY <2>2, <2>4, <2>5
<1>6. Opened(s)
  BY <1>2, <1>3, <1>4, <1>5, NoneAssumption
     DEF Opened, Reader, Outcome, AdmittedVisible, RowVisible, Advancing, stores
<1>7. QED
  BY <1>2, <1>5, <1>6, Untouched DEF MovesOne, Changes, stores

(* A drive that finds its row expired rejects it. *)
LEMMA DriveExistingMoves ==
    ASSUME IInv, NEW s \in Seqs, NEW request, NEW todo, DriveExisting(s, request, todo),
           UNCHANGED stores
    PROVE  MovesOne
<1>1. CASE UNCHANGED journal
  BY <1>1, Untouched DEF MovesOne, stores
<1>2. CASE Nonterminal(s) /\ journal' = Moved(s, "failed")
  <2>1. journal[s] # None /\ journal[s].state \in Advancing
    BY <1>2, RowTyped DEF Nonterminal, IInv, Rows, States
  <2>2. QED
    BY <1>2, <2>1, Fails DEF MovesOne, Changes
<1>3. QED
  BY <1>1, <1>2 DEF DriveExisting

(* A blob that rots withdraws a readable version. *)
LEMMA DamageMoves == ASSUME IInv, NEW s \in Seqs, Damage(s) PROVE MovesOne
<1>1. /\ UNCHANGED <<journal, db, receipts>>
      /\ objects' = [objects EXCEPT ![s].damaged = TRUE]
  BY DEF Damage
<1>2. /\ objects'[s].damaged
      /\ \A t \in Seqs \ {s} : objects'[t] = objects[t]
  <2> DEFINE Object == [blobs : SUBSET Blobs, residue : BOOLEAN,
                        marker : Proofs \cup {None}, damaged : BOOLEAN]
  <2>1. objects \in [Seqs -> Object]
    BY DEF IInv, TypeOK
  <2>2. QED
    BY <1>1, <2>1
<1>3. Outcome(s)' = Outcome(s) /\ ~AdmittedVisible(s)'
  BY <1>1, <1>2 DEF Outcome, AdmittedVisible, PrefixVerifies
<1>4. CASE AdmittedVisible(s)
  <2>1. RowVisible(s) /\ RowVisible(s)'
    BY <1>1, <1>4 DEF AdmittedVisible, RowVisible
  <2>2. Withdrawn(s)
    BY <1>3, <1>4, <2>1 DEF Withdrawn, Reader
  <2>3. QED
    BY <1>1, <1>2, <2>2, Untouched DEF MovesOne, Changes
<1>5. CASE ~AdmittedVisible(s)
  <2>1. Stays(s)
    BY <1>1, <1>3, <1>5 DEF Stays, Reader, RowVisible
  <2>2. QED
    BY <1>1, <1>2, <2>1, Untouched DEF MovesOne
<1>6. QED
  BY <1>4, <1>5

(* What a call leaves behind when it dies is in a prefix nobody reads yet. *)
LEMMA FaultMoves == ASSUME IInv, Crash \/ IOError PROVE MovesOne
<1>1. UNCHANGED <<journal, db, receipts>> /\ LeaveResidue
  BY DEF Crash, IOError
<1>2. CASE UNCHANGED objects
  BY <1>1, <1>2, Untouched DEF MovesOne
<1>3. CASE tx # None /\ tx.temp # None
  <2>0. PICK s \in Seqs : s = tx.seq
    BY <1>3, TxTyped DEF IInv
  <2>1. tx.pc = "blobs" /\ journal[s] # None /\ journal[s].state \in Advancing
    BY <1>3, <2>0, Driving DEF IInv, TxAgrees, Removing
  <2>2. ~RowVisible(s) /\ ~RowVisible(s)'
    BY <1>1, <1>3, <2>0, <2>1, NotYetVisible DEF RowVisible
  <2>3. \A t \in Seqs \ {s} : objects'[t] = objects[t]
    BY <1>1, <1>3, <2>0 DEF LeaveResidue, IInv, TypeOK
  <2>4. QED
    BY <1>1, <2>1, <2>2, <2>3, HiddenMoves DEF MovesOne
<1>4. QED
  BY <1>1, <1>2, <1>3 DEF LeaveResidue

LEMMA NextMoves == ASSUME IInv, [Next]_vars PROVE MovesOne
<1>1. CASE UNCHANGED <<journal, stores>>
  BY <1>1, Untouched DEF MovesOne, stores
<1>2. CASE \E r \in Requests : SubmitJoin(r)
  <2>1. PICK r \in Requests, s \in Seqs : DriveExisting(s, TRUE, r.blobs) /\ UNCHANGED stores
    BY <1>2 DEF SubmitJoin, JoinCandidates, InFlight, Candidates
  <2>2. QED
    BY <2>1, DriveExistingMoves
<1>3. CASE \E s \in Seqs : RecoverKey(s)
  BY <1>3, DriveExistingMoves DEF RecoverKey
<1>4. QED
  BY <1>1, <1>2, <1>3, CreateMoves, DriveMoves, ExtendMoves, DamageMoves, CollectMoves,
     FaultMoves DEF Next, BeginCollect, FinishRecovery, Start, Stop, Tick, vars, stores

-----------------------------------------------------------------------------
(* Every behaviour of the admission transaction, crashes, retries and
   collections included, is one that the ledger promises: a version is hidden,
   then readable, then withdrawn, and the caller's outcome is never revised. *)
THEOREM RefinesLedger == Spec => ImplementsLedger
<1>1. Init => Ledger!Init
  <2> SUFFICES ASSUME Init PROVE Ledger!Init
    OBVIOUS
  <2>1. \A s \in Seqs : Reader(s) = "hidden" /\ Outcome(s) = "none"
    BY DEF Init, Reader, Outcome, AdmittedVisible, RowVisible
  <2>2. QED
    BY <2>1 DEF Ledger!Init
<1>2. IInv /\ [Next]_vars =>
        [Ledger!Next]_<<[s \in Seqs |-> Reader(s)], [s \in Seqs |-> Outcome(s)]>>
  <2> SUFFICES ASSUME IInv, [Next]_vars
      PROVE [Ledger!Next]_<<[s \in Seqs |-> Reader(s)], [s \in Seqs |-> Outcome(s)]>>
    OBVIOUS
  <2>1. MovesOne
    BY NextMoves
  <2>2. CASE \A t \in Seqs : Stays(t)
    BY <2>2 DEF Stays
  <2>3. QED
    BY <2>1, <2>2, OneVersion DEF MovesOne
<1>3. Spec => Ledger!Init /\ [][Ledger!Next]_<<[s \in Seqs |-> Reader(s)], [s \in Seqs |-> Outcome(s)]>>
  BY <1>1, <1>2, Invariance, PTL DEF Spec
<1>4. QED
  BY <1>3, PTL DEF ImplementsLedger, Ledger!Spec

=============================================================================
