------------------------------ MODULE KeysProofs ------------------------------
(***************************************************************************)
(* Proofs about the store of owner keys, for any number of calls, I/O      *)
(* errors and power losses.  A start never changes the snapshot it reads,  *)
(* so what matters is which directories a power loss may leave: each shows *)
(* every acknowledged call, and shows nothing the log was not told of      *)
(* unless the intent that says so is beside it (DirectoriesInv).           *)
(***************************************************************************)
EXTENDS OwnerKeys, TLAPS

(* The calls a snapshot shows the effect of. *)
Named(snapshot) ==
    snapshot.issued \cup {snapshot.bannedBy[k] : k \in {k \in Keys : snapshot.bannedBy[k] # 0}}

(* Every acknowledged call is in the snapshot. *)
Holds(snapshot) == \A c \in Calls : calls[c].state = "ok" => Effective(snapshot, c)

(* The log was told of everything the snapshot shows, but for some calls. *)
ToldBut(snapshot, exempt) == \A c \in Named(snapshot) : Told(c) \/ c \in exempt

IntentKnown(intent) ==
    ToldBut(intent.before, {}) /\ ToldBut(intent.after, {intent.call})

(* Whatever a power loss leaves: no acknowledged call is missing, and what
   the log was not told of has an intent beside it. *)
DirectoriesInv ==
    \A d \in loss :
        /\ Holds(d.snapshot)
        /\ IF d.pending = Nil THEN ToldBut(d.snapshot, {}) ELSE IntentKnown(d.pending)

(* What the holder of the writer mutex works with. *)
HolderInv ==
    /\ mode = "serving" /\ calls[txn.call].state = "writing"
    /\ memory = txn.before
    /\ Holds(txn.before) /\ Holds(txn.after) /\ Effective(txn.after, txn.call)
    /\ IntentKnown(txn)

(* What it knows about its files at each of its stages; the damaged flag may
   have been set since it began. *)
StageInv ==
    /\ txn.at \notin {"intent", "publish"} => disk.pending = Intent
    /\ txn.at \in {"phase2", "audit", "remove", "publish", "rollback"} =>
         \A d \in loss : d.snapshot = txn.after
    /\ txn.at \in {"aborted", "discard"} => \A d \in loss : d.snapshot = txn.before
    /\ txn.at \in {"remove", "publish"} => Told(txn.call)
    /\ ~damaged => /\ txn.at \in {"intent", "snapshot"} => disk.snapshot = txn.before
                   /\ txn.at \in {"intent", "publish"} => disk.pending = Nil

CommitInv == txn # Nil => HolderInv /\ StageInv

(* A healthy store between two commits. *)
RestInv ==
    Serving /\ txn = Nil => disk.pending = Nil /\ disk.snapshot = memory

(* A start that settles an intent has read what it matches. *)
StartInv ==
    mode \in {"audit", "aborted", "remove"} =>
        /\ ~damaged /\ disk.pending # Nil /\ memory = disk.snapshot
        /\ disk.snapshot \in {disk.pending.before, disk.pending.after}
        /\ mode = "remove" => Told(disk.pending.call)

IInv == KeysTypeOK /\ DirectoriesInv /\ CommitInv /\ RestInv /\ StartInv

(* The memory a call may compute its snapshot from: that of a healthy store,
   or of one that was damaged while the call waited for the mutex. *)
MemoryInv ==
    /\ \A c \in Calls : calls[c].state = "waiting" => mode = "serving"
    /\ mode = "serving" /\ (~damaged \/ \E c \in Calls : calls[c].state = "waiting") =>
         Holds(memory) /\ ToldBut(memory, {})

-----------------------------------------------------------------------------
(* What a step does to knowledge about snapshots that it does not touch.   *)

(* No call is acknowledged, and an acknowledged one stays what it is. *)
NoneAcknowledged ==
    \A c \in Calls : calls'[c].state = "ok" =>
        /\ calls[c].state = "ok"
        /\ calls'[c].op = calls[c].op /\ calls'[c].key = calls[c].key

LogKept == \A c \in Calls : Told(c) => Told(c)'

LEMMA NamedAreCalls == \A s \in Snapshots : Named(s) \subseteq Calls
<1> SUFFICES ASSUME NEW s \in Snapshots PROVE Named(s) \subseteq Calls
  OBVIOUS
<1>1. s.issued \subseteq Calls /\ s.bannedBy \in [Keys -> 0..MaxCalls]
  BY DEF Snapshots, Keys
<1>2. \A k \in Keys : s.bannedBy[k] # 0 => s.bannedBy[k] \in Calls
  BY <1>1, BoundsAssumption DEF Calls
<1> QED
  BY <1>1, <1>2 DEF Named

LEMMA LogGrows ==
    ASSUME KeysTypeOK, NEW call \in Calls, NEW kind \in Events \cup {"aborted"},
           audit' = Append(audit, Line(call, kind))
    PROVE  audit' \in Seq(Lines) /\ LogKept /\ Told(call)'
<1>1. Line(call, kind) \in Lines /\ Line(call, kind).call = call /\ audit \in Seq(Lines)
  BY DEF Line, Lines, KeysTypeOK
<1>2. audit' \in Seq(Lines) /\ Len(audit') = Len(audit) + 1 /\ audit'[Len(audit) + 1] = Line(call, kind)
      /\ \A i \in 1..Len(audit) : audit'[i] = audit[i]
  BY <1>1
<1>3. DOMAIN audit = 1..Len(audit) /\ DOMAIN audit' = 1..Len(audit') /\ Len(audit) \in Nat
  BY <1>1, <1>2
<1>4. Told(call)'
  <2>1. Len(audit) + 1 \in DOMAIN audit'
    BY <1>2, <1>3
  <2> QED
    BY <1>1, <1>2, <2>1 DEF Told
<1>5. LogKept
  <2> SUFFICES ASSUME NEW c \in Calls, Told(c) PROVE Told(c)'
    BY DEF LogKept
  <2>1. PICK i \in DOMAIN audit : audit[i].call = c
    BY DEF Told
  <2>2. i \in DOMAIN audit' /\ audit'[i] = audit[i]
    BY <1>2, <1>3
  <2> QED
    BY <2>1, <2>2 DEF Told
<1> QED
  BY <1>2, <1>4, <1>5

LEMMA LogSame == ASSUME audit' = audit PROVE LogKept
BY DEF LogKept, Told

LEMMA Kept ==
    ASSUME NoneAcknowledged, LogKept
    PROVE  /\ \A s : Holds(s) => Holds(s)'
           /\ \A s \in Snapshots : \A e : ToldBut(s, e) => ToldBut(s, e)'
           /\ \A i \in Intents \cup Commits : IntentKnown(i) => IntentKnown(i)'
<1>1. ASSUME NEW s, Holds(s) PROVE Holds(s)'
  BY <1>1 DEF Holds, Effective, NoneAcknowledged
<1>2. ASSUME NEW s \in Snapshots, NEW e, ToldBut(s, e) PROVE ToldBut(s, e)'
  BY <1>2, NamedAreCalls DEF ToldBut, LogKept
<1>3. ASSUME NEW i \in Intents \cup Commits, IntentKnown(i) PROVE IntentKnown(i)'
  <2>1. i.before \in Snapshots /\ i.after \in Snapshots
    BY DEF Intents, Commits
  <2> QED
    BY <1>2, <1>3, <2>1 DEF IntentKnown
<1> QED
  BY <1>1, <1>2, <1>3

(* The directories a step leaves behind are old ones or known to be good.  *)
GoodDirectory(d) ==
    /\ Holds(d.snapshot)
    /\ IF d.pending = Nil THEN ToldBut(d.snapshot, {}) ELSE IntentKnown(d.pending)

LEMMA DirectoriesKept ==
    ASSUME IInv, NoneAcknowledged, LogKept,
           \A d \in loss' : d \in loss \/ GoodDirectory(d)'
    PROVE  DirectoriesInv'
<1> SUFFICES ASSUME NEW d \in loss' PROVE GoodDirectory(d)'
  BY DEF DirectoriesInv, GoodDirectory
<1>1. CASE d \in loss
  <2>1. d \in Directories
    BY <1>1 DEF IInv, KeysTypeOK
  <2>2. d.snapshot \in Snapshots /\ d.pending \in Intents \cup {Nil}
    BY <2>1 DEF Directories
  <2>3. GoodDirectory(d)
    BY <1>1 DEF IInv, DirectoriesInv, GoodDirectory
  <2>4. Holds(d.snapshot)'
    BY <2>3, Kept DEF GoodDirectory
  <2>5. CASE d.pending = Nil
    BY <2>2, <2>3, <2>4, <2>5, Kept DEF GoodDirectory
  <2>6. CASE d.pending # Nil
    BY <2>2, <2>3, <2>4, <2>6, Kept DEF GoodDirectory
  <2> QED
    BY <2>5, <2>6
<1> QED
  BY <1>1

LEMMA CommitTyped ==
    ASSUME KeysTypeOK, txn # Nil
    PROVE  /\ txn \in Commits /\ txn.call \in Calls /\ txn.at \in Stages
           /\ txn.before \in Snapshots /\ txn.after \in Snapshots
           /\ Intent \in Intents /\ Intent # Nil
           /\ \A at \in Stages :
                /\ [txn EXCEPT !.at = at] \in Commits /\ [txn EXCEPT !.at = at] # Nil
                /\ [txn EXCEPT !.at = at].call = txn.call
                /\ [txn EXCEPT !.at = at].before = txn.before
                /\ [txn EXCEPT !.at = at].after = txn.after
                /\ [txn EXCEPT !.at = at].at = at
<1>1. txn \in Commits
  BY DEF KeysTypeOK
<1>2. Intent \in Intents
  BY <1>1 DEF Intent, Intents, Commits
<1>3. ASSUME NEW at \in Stages
      PROVE  [txn EXCEPT !.at = at] \in Commits
  BY <1>1 DEF Commits
<1> QED
  BY <1>1, <1>2, <1>3, NoneAssumption DEF Commits

LEMMA HolderKept ==
    ASSUME IInv, txn # Nil, NoneAcknowledged, LogKept,
           memory' = memory, mode' = mode, calls'[txn.call] = calls[txn.call],
           txn' = txn \/ \E at \in Stages : txn' = [txn EXCEPT !.at = at]
    PROVE  HolderInv'
<1>0. HolderInv /\ KeysTypeOK
  BY DEF IInv, CommitInv
<1>1. /\ txn'.call = txn.call /\ txn'.before = txn.before /\ txn'.after = txn.after
      /\ txn.call \in Calls /\ txn.before \in Snapshots /\ txn.after \in Snapshots
  BY <1>0, CommitTyped
<1>2. PICK c \in Calls, b \in Snapshots, a \in Snapshots :
        c = txn.call /\ b = txn.before /\ a = txn.after
  BY <1>1
<1>3. Holds(b)' /\ Holds(a)'
  BY <1>0, <1>2, Kept DEF HolderInv
<1>4. ToldBut(b, {})' /\ ToldBut(a, {c})'
  BY <1>0, <1>2, Kept DEF HolderInv, IntentKnown
<1>5. Effective(a, c)'
  BY <1>0, <1>2 DEF HolderInv, Effective
<1>6. c = txn'.call /\ b = txn'.before /\ a = txn'.after
  BY <1>1, <1>2
<1>7. Holds(txn.before)' /\ Holds(txn.after)' /\ Effective(txn.after, txn.call)'
  BY <1>3, <1>5, <1>6 DEF Holds, Effective
<1>8. IntentKnown(txn)'
  BY <1>4, <1>6 DEF IntentKnown, ToldBut, Told
<1>9. (mode = "serving" /\ calls[txn.call].state = "writing" /\ memory = txn.before)'
  BY <1>0, <1>1 DEF HolderInv
<1> QED
  BY <1>7, <1>8, <1>9 DEF HolderInv

-----------------------------------------------------------------------------
(* The files.                                                              *)

FilesTyped ==
    /\ disk \in Directories /\ disk \in loss /\ \A d \in loss : d \in Directories
    /\ audit \in Seq(Lines) /\ torn \in BOOLEAN

LEMMA DirectoryOf ==
    ASSUME KeysTypeOK
    PROVE  /\ \A i \in Intents \cup {Nil} :
                /\ Pending(i) \in Directories
                /\ Pending(i).pending = i /\ Pending(i).snapshot = disk.snapshot
           /\ \A s \in Snapshots :
                /\ Snapshot(s) \in Directories
                /\ Snapshot(s).snapshot = s /\ Snapshot(s).pending = disk.pending
BY DEF KeysTypeOK, Directories, Pending, Snapshot

LEMMA FaultTyped == ASSUME KeysTypeOK, Fault PROVE faults' \in 0..MaxErrors
BY BoundsAssumption DEF KeysTypeOK, Fault

LEMMA BecomeFacts ==
    ASSUME KeysTypeOK, NEW c \in Calls,
           NEW state \in {"unborn", "waiting", "writing", "ok", "failed", "refused", "lost"},
           calls' = Become(c, state)
    PROVE  /\ calls' \in [Calls -> [op : Events, key : Keys,
                                    state : {"unborn", "waiting", "writing", "ok", "failed",
                                             "refused", "lost"}]]
           /\ calls'[c].state = state
           /\ \A d \in Calls : calls'[d].op = calls[d].op /\ calls'[d].key = calls[d].key
           /\ \A d \in Calls \ {c} : calls'[d] = calls[d]
BY DEF KeysTypeOK, Become

(* The end of a call that was not acknowledged.                            *)
LEMMA FailFacts ==
    ASSUME KeysTypeOK, txn # Nil, Fail
    PROVE  /\ calls' \in [Calls -> [op : Events, key : Keys,
                                    state : {"unborn", "waiting", "writing", "ok", "failed",
                                             "refused", "lost"}]]
           /\ txn' = Nil /\ NoneAcknowledged
           /\ \A c \in Calls : calls'[c].state # "writing"
<1>1. txn.call \in Calls /\ calls' = Become(txn.call, "failed") /\ txn' = Nil
  BY CommitTyped DEF Fail
<1>2. \A c \in Calls \ {txn.call} : calls[c].state # "writing"
  BY DEF KeysTypeOK
<1> QED
  BY <1>1, <1>2, BecomeFacts DEF NoneAcknowledged

LEMMA AppendKeeps ==
    ASSUME KeysTypeOK, NEW call \in Calls, NEW kind \in Events \cup {"aborted"}, disk' = disk,
           Appended(call, kind) \/ NotAppended(call, kind)
    PROVE  /\ FilesTyped' /\ LogKept
           /\ loss' = loss \/ loss' = {disk}
           /\ Appended(call, kind) => loss' = {disk} /\ Told(call)'
           /\ NotAppended(call, kind) => loss' = loss /\ faults' \in 0..MaxErrors
<1>1. audit' = audit \/ audit' = Append(audit, Line(call, kind))
  BY DEF Appended, NotAppended
<1>2. audit' \in Seq(Lines) /\ LogKept
  BY <1>1, LogGrows, LogSame DEF KeysTypeOK
<1>3. Appended(call, kind) => Told(call)'
  BY LogGrows DEF Appended
<1>4. torn' \in BOOLEAN /\ (loss' = loss \/ loss' = {disk})
  BY DEF Appended, NotAppended, KeysTypeOK
<1>5. /\ Appended(call, kind) => loss' = {disk}
      /\ NotAppended(call, kind) => loss' = loss /\ faults' \in 0..MaxErrors
  BY FaultTyped DEF Appended, NotAppended
<1> QED
  BY <1>2, <1>3, <1>4, <1>5 DEF FilesTyped, KeysTypeOK

-----------------------------------------------------------------------------
(* The steps of a commit.                                                  *)

LEMMA WriteIntentKeeps == ASSUME IInv, WriteIntent PROVE IInv'
<1>1. /\ txn # Nil /\ KeysTypeOK /\ HolderInv /\ StageInv
      /\ txn.at \in {"intent", "phase2"}
  BY DEF WriteIntent, At, IInv, CommitInv
<1>2. PICK at \in {"snapshot", "audit"} :
        /\ txn' = [txn EXCEPT !.at = at]
        /\ at = IF txn.at = "intent" THEN "snapshot" ELSE "audit"
  BY DEF WriteIntent, Goto
<1>3. /\ disk' = Pending(Intent) /\ loss' = {disk'}
      /\ UNCHANGED <<audit, torn, faults, memory, mode, damaged, calls, blind>>
  BY DEF WriteIntent, Goto, Rest, Replaced
<1>4. /\ txn' \in Commits /\ txn' # Nil /\ txn'.at = at
      /\ txn'.call = txn.call /\ txn'.before = txn.before /\ txn'.after = txn.after
      /\ Intent \in Intents /\ Intent # Nil
  BY <1>1, <1>2, CommitTyped DEF Stages
<1>5. disk' \in Directories /\ disk'.pending = Intent /\ disk'.snapshot = disk.snapshot
  BY <1>1, <1>3, <1>4, DirectoryOf
<1>6. KeysTypeOK'
  BY <1>1, <1>3, <1>4, <1>5 DEF KeysTypeOK
<1>7. NoneAcknowledged /\ LogKept
  BY <1>3, LogSame DEF NoneAcknowledged
<1>8. GoodDirectory(disk)'
  <2>1. IntentKnown(Intent)
    BY <1>1 DEF HolderInv, IntentKnown, Intent
  <2>2. Holds(disk.snapshot)
    BY <1>1 DEF IInv, DirectoriesInv, KeysTypeOK
  <2>3. PICK i \in Intents, k \in {disk.snapshot} : i = Intent /\ IntentKnown(i)' /\ Holds(k)'
    BY <1>4, <1>7, <2>1, <2>2, Kept
  <2> QED
    BY <1>4, <1>5, <2>3 DEF GoodDirectory, IntentKnown, ToldBut, Told, Holds, Effective
<1>9. DirectoriesInv'
  BY <1>3, <1>7, <1>8, DirectoriesKept DEF GoodDirectory, DirectoriesInv
<1>10. HolderInv'
  BY <1>1, <1>2, <1>3, <1>7, HolderKept DEF Stages
<1>11. StageInv'
  <2>1. disk'.pending = Intent'
    BY <1>4, <1>5 DEF Intent
  <2>2. disk \in loss
    BY <1>1 DEF KeysTypeOK
  <2> QED
    BY <1>1, <1>2, <1>3, <1>4, <1>5, <2>1, <2>2 DEF StageInv
<1> QED
  BY <1>1, <1>3, <1>4, <1>6, <1>9, <1>10, <1>11
     DEF IInv, CommitInv, RestInv, StartInv, HolderInv

(* A snapshot of the commit, put into place with the intent still there. *)
LEMMA SnapshotGood ==
    ASSUME IInv, txn # Nil, HolderInv, NoneAcknowledged, LogKept,
           disk.pending = Intent, NEW s \in {txn.before, txn.after},
           NEW d, d = Snapshot(s)
    PROVE  /\ d \in Directories /\ d.pending = Intent /\ d.snapshot = s
           /\ GoodDirectory(d)'
<1>1. /\ KeysTypeOK /\ s \in Snapshots /\ Intent \in Intents /\ Intent # Nil
  BY CommitTyped DEF IInv
<1>2. d \in Directories /\ d.pending = Intent /\ d.snapshot = s
  BY <1>1, DirectoryOf
<1>3. Holds(s) /\ IntentKnown(Intent)
  BY DEF HolderInv, IntentKnown, Intent
<1>4. Holds(d.snapshot)'
  BY <1>2, <1>3, Kept
<1>5. IntentKnown(d.pending)'
  BY <1>1, <1>2, <1>3, Kept
<1> QED
  BY <1>1, <1>2, <1>4, <1>5 DEF GoodDirectory

LEMMA WriteSnapshotKeeps == ASSUME IInv, WriteSnapshot PROVE IInv'
<1>1. txn # Nil /\ KeysTypeOK /\ HolderInv /\ StageInv /\ txn.at = "snapshot"
  BY DEF WriteSnapshot, At, IInv, CommitInv
<1>2. /\ txn' = [txn EXCEPT !.at = "phase2"]
      /\ disk' = Snapshot(txn.after) /\ loss' = {disk'}
      /\ UNCHANGED <<audit, torn, faults, memory, mode, damaged, calls, blind>>
  BY DEF WriteSnapshot, Goto, Rest, Replaced
<1>3. /\ txn' \in Commits /\ txn' # Nil /\ txn'.at = "phase2"
      /\ txn'.call = txn.call /\ txn'.before = txn.before /\ txn'.after = txn.after
  BY <1>1, <1>2, CommitTyped DEF Stages
<1>4. NoneAcknowledged /\ LogKept
  BY <1>2, LogSame DEF NoneAcknowledged
<1>5. PICK d : d = disk'
  OBVIOUS
<1>6. d \in Directories /\ d.pending = Intent /\ d.snapshot = txn.after /\ GoodDirectory(d)'
  BY <1>1, <1>2, <1>4, <1>5, SnapshotGood DEF StageInv
<1>7. KeysTypeOK'
  BY <1>1, <1>2, <1>3, <1>5, <1>6 DEF KeysTypeOK
<1>8. DirectoriesInv'
  BY <1>2, <1>4, <1>5, <1>6, DirectoriesKept
<1>9. HolderInv'
  BY <1>1, <1>2, <1>4, HolderKept DEF Stages
<1>10. StageInv'
  BY <1>2, <1>3, <1>5, <1>6 DEF StageInv, Intent
<1> QED
  BY <1>1, <1>2, <1>3, <1>7, <1>8, <1>9, <1>10
     DEF IInv, CommitInv, RestInv, StartInv, HolderInv

(* A commit that ends with the damaged flag leaves nothing to be right but *)
(* the directories.                                                        *)
LEMMA DamagedEnd ==
    ASSUME IInv, txn # Nil, Fail, damaged' = TRUE, UNCHANGED <<memory, mode, blind>>,
           faults' \in 0..MaxErrors, FilesTyped', DirectoriesInv'
    PROVE  IInv'
<1>1. mode = "serving"
  BY DEF IInv, CommitInv, HolderInv
<1>2. KeysTypeOK'
  BY FailFacts DEF IInv, KeysTypeOK, FilesTyped
<1> QED
  BY <1>1, <1>2, FailFacts DEF IInv, CommitInv, RestInv, StartInv, Serving

LEMMA NotReplacedKeeps ==
    ASSUME IInv, NoneAcknowledged, LogKept, audit' = audit, torn' = torn,
           NEW d \in Directories, GoodDirectory(d)', NotReplaced(d)
    PROVE  FilesTyped' /\ DirectoriesInv' /\ faults' \in 0..MaxErrors
<1>1. (disk' = disk /\ loss' = loss) \/ (disk' = d /\ loss' = loss \cup {d})
  BY DEF NotReplaced
<1>2. FilesTyped'
  BY <1>1 DEF IInv, KeysTypeOK, FilesTyped
<1>3. DirectoriesInv'
  BY <1>1, DirectoriesKept
<1>4. Fault
  BY DEF NotReplaced
<1> QED
  BY <1>2, <1>3, <1>4, FaultTyped DEF IInv

LEMMA WriteErrorKeeps == ASSUME IInv, WriteError PROVE IInv'
<1>1. txn # Nil /\ KeysTypeOK /\ HolderInv /\ StageInv
  BY DEF WriteError, At, IInv, CommitInv
<1>2. /\ Fail /\ damaged' = TRUE /\ UNCHANGED <<audit, torn, memory, mode, blind>>
  BY DEF WriteError, FailDamaged, Rest
<1>3. NoneAcknowledged /\ LogKept
  BY <1>1, <1>2, FailFacts, LogSame
<1>4. CASE NotReplaced(Pending(Intent))
  <2>1. PICK d : d = Pending(Intent)
    OBVIOUS
  <2>2. Intent \in Intents /\ Intent # Nil
    BY <1>1, CommitTyped
  <2>3. d \in Directories /\ d.pending = Intent /\ d.snapshot = disk.snapshot
    BY <1>1, <2>1, <2>2, DirectoryOf
  <2>4. IntentKnown(Intent) /\ Holds(disk.snapshot)
    BY <1>1 DEF HolderInv, IntentKnown, Intent, IInv, DirectoriesInv, KeysTypeOK
  <2>5. IntentKnown(d.pending)' /\ Holds(d.snapshot)'
    BY <1>3, <2>2, <2>3, <2>4, Kept
  <2>6. GoodDirectory(d)'
    BY <2>2, <2>3, <2>5 DEF GoodDirectory
  <2>7. NotReplaced(d)
    BY <1>4, <2>1
  <2> QED
    BY <1>1, <1>2, <1>3, <2>3, <2>6, <2>7, NotReplacedKeeps, DamagedEnd
<1>5. CASE At("snapshot") /\ NotReplaced(Snapshot(txn.after))
  <2>1. PICK d : d = Snapshot(txn.after)
    OBVIOUS
  <2>2. disk.pending = Intent
    BY <1>1, <1>5 DEF At, StageInv
  <2>3. d \in Directories /\ GoodDirectory(d)'
    BY <1>1, <1>3, <2>1, <2>2, SnapshotGood
  <2>4. NotReplaced(d)
    BY <1>5, <2>1
  <2> QED
    BY <1>1, <1>2, <1>3, <2>3, <2>4, NotReplacedKeeps, DamagedEnd
<1> QED
  BY <1>4, <1>5 DEF WriteError

LEMMA AppendEventKeeps == ASSUME IInv, AppendEvent PROVE IInv'
<1>1. txn # Nil /\ KeysTypeOK /\ HolderInv /\ StageInv /\ txn.at = "audit"
  BY DEF AppendEvent, At, IInv, CommitInv
<1>2. txn.call \in Calls /\ calls[txn.call].op \in Events
  BY <1>1, CommitTyped DEF KeysTypeOK
<1>3. UNCHANGED <<disk, memory, mode, damaged, calls, blind>>
  BY DEF AppendEvent, Goto, Rest
<1>4. \/ Appended(txn.call, calls[txn.call].op) /\ txn' = [txn EXCEPT !.at = "remove"]
         /\ faults' = faults
      \/ NotAppended(txn.call, calls[txn.call].op) /\ txn' = [txn EXCEPT !.at = "rollback"]
  BY DEF AppendEvent, Goto
<1>5. PICK call \in Calls, kind \in Events \cup {"aborted"} :
        call = txn.call /\ kind = calls[txn.call].op
  BY <1>2
<1>6. /\ FilesTyped' /\ LogKept /\ loss' \subseteq loss
      /\ faults' \in 0..MaxErrors
      /\ txn' = [txn EXCEPT !.at = "remove"] => Told(call)'
  <2>1. CASE Appended(call, kind) /\ faults' = faults
    BY <1>1, <1>3, <2>1, AppendKeeps DEF KeysTypeOK
  <2>2. CASE NotAppended(call, kind) /\ txn' = [txn EXCEPT !.at = "rollback"]
    <3>1. FilesTyped' /\ LogKept /\ loss' = loss /\ faults' \in 0..MaxErrors
      BY <1>1, <1>3, <2>2, AppendKeeps
    <3>2. txn' # [txn EXCEPT !.at = "remove"]
      BY <1>1, <2>2, CommitTyped DEF Stages
    <3> QED
      BY <3>1, <3>2
  <2> QED
    BY <1>4, <1>5, <2>1, <2>2
<1>7. PICK at \in {"remove", "rollback"} : txn' = [txn EXCEPT !.at = at]
  BY <1>4
<1>8. /\ txn' \in Commits /\ txn' # Nil /\ txn'.at = at
      /\ txn'.call = txn.call /\ txn'.before = txn.before /\ txn'.after = txn.after
  BY <1>1, <1>7, CommitTyped DEF Stages
<1>9. NoneAcknowledged
  BY <1>3 DEF NoneAcknowledged
<1>10. KeysTypeOK'
  BY <1>1, <1>3, <1>6, <1>8 DEF KeysTypeOK, FilesTyped
<1>11. DirectoriesInv'
  BY <1>6, <1>9, DirectoriesKept
<1>12. HolderInv'
  BY <1>1, <1>3, <1>6, <1>7, <1>9, HolderKept DEF Stages
<1>13. StageInv'
  <2>1. at = "remove" => Told(txn.call)'
    BY <1>5, <1>6, <1>7, <1>8 DEF Told
  <2> QED
    BY <1>1, <1>3, <1>6, <1>8, <2>1 DEF StageInv, Intent, Told
<1> QED
  BY <1>1, <1>3, <1>8, <1>10, <1>11, <1>12, <1>13
     DEF IInv, CommitInv, RestInv, StartInv, HolderInv

LEMMA RollbackKeeps == ASSUME IInv, Rollback PROVE IInv'
<1>1. txn # Nil /\ KeysTypeOK /\ HolderInv /\ StageInv /\ txn.at = "rollback"
  BY DEF Rollback, At, IInv, CommitInv
<1>2. UNCHANGED <<audit, torn, memory, mode, blind>>
  BY DEF Rollback, Rest
<1>3. PICK d : d = Snapshot(txn.before)
  OBVIOUS
<1>4. disk.pending = Intent
  BY <1>1 DEF StageInv
<1>5. CASE Replaced(d) /\ Goto("aborted") /\ faults' = faults
  <2>1. /\ txn' = [txn EXCEPT !.at = "aborted"] /\ disk' = d /\ loss' = {d}
        /\ UNCHANGED <<damaged, calls, faults>>
    BY <1>5 DEF Replaced, Goto
  <2>2. /\ txn' \in Commits /\ txn' # Nil /\ txn'.at = "aborted"
        /\ txn'.call = txn.call /\ txn'.before = txn.before /\ txn'.after = txn.after
    BY <1>1, <2>1, CommitTyped DEF Stages
  <2>3. NoneAcknowledged /\ LogKept
    BY <1>2, <2>1, LogSame DEF NoneAcknowledged
  <2>4. d \in Directories /\ d.pending = Intent /\ d.snapshot = txn.before /\ GoodDirectory(d)'
    BY <1>1, <1>3, <1>4, <2>3, SnapshotGood
  <2>5. KeysTypeOK'
    BY <1>1, <1>2, <2>1, <2>2, <2>4 DEF KeysTypeOK
  <2>6. DirectoriesInv'
    BY <2>1, <2>3, <2>4, DirectoriesKept
  <2>7. HolderInv'
    BY <1>1, <1>2, <2>1, <2>3, HolderKept DEF Stages
  <2>8. StageInv'
    BY <2>1, <2>2, <2>4 DEF StageInv, Intent
  <2> QED
    BY <1>1, <1>2, <2>2, <2>5, <2>6, <2>7, <2>8
       DEF IInv, CommitInv, RestInv, StartInv, HolderInv
<1>6. CASE NotReplaced(d) /\ FailDamaged
  <2>1. Fail /\ damaged' = TRUE
    BY <1>6 DEF FailDamaged
  <2>2. NoneAcknowledged /\ LogKept
    BY <1>1, <1>2, <2>1, FailFacts, LogSame
  <2>3. d \in Directories /\ GoodDirectory(d)'
    BY <1>1, <1>3, <1>4, <2>2, SnapshotGood
  <2> QED
    BY <1>1, <1>2, <1>6, <2>1, <2>2, <2>3, NotReplacedKeeps, DamagedEnd
<1> QED
  BY <1>3, <1>5, <1>6 DEF Rollback

LEMMA AppendAbortedKeeps == ASSUME IInv, AppendAborted PROVE IInv'
<1>1. txn # Nil /\ KeysTypeOK /\ HolderInv /\ StageInv /\ txn.at = "aborted"
  BY DEF AppendAborted, At, IInv, CommitInv
<1>2. UNCHANGED <<disk, memory, mode, blind>>
  BY DEF AppendAborted, Rest
<1>3. txn.call \in Calls
  BY <1>1, CommitTyped
<1>4. CASE Appended(txn.call, "aborted") /\ Goto("discard") /\ faults' = faults
  <2>1. txn' = [txn EXCEPT !.at = "discard"] /\ UNCHANGED <<damaged, calls, faults>>
    BY <1>4 DEF Goto
  <2>2. /\ txn' \in Commits /\ txn' # Nil /\ txn'.at = "discard"
        /\ txn'.call = txn.call /\ txn'.before = txn.before /\ txn'.after = txn.after
    BY <1>1, <2>1, CommitTyped DEF Stages
  <2>3. FilesTyped' /\ LogKept /\ loss' = {disk}
    BY <1>1, <1>2, <1>3, <1>4, AppendKeeps
  <2>4. NoneAcknowledged /\ disk \in loss
    BY <1>1, <2>1 DEF NoneAcknowledged, KeysTypeOK
  <2>5. KeysTypeOK'
    BY <1>1, <1>2, <2>1, <2>2, <2>3 DEF KeysTypeOK, FilesTyped
  <2>6. DirectoriesInv'
    BY <2>3, <2>4, DirectoriesKept
  <2>7. HolderInv'
    BY <1>1, <1>2, <2>1, <2>3, <2>4, HolderKept DEF Stages
  <2>8. StageInv'
    BY <1>1, <1>2, <2>1, <2>2, <2>3, <2>4 DEF StageInv, Intent
  <2> QED
    BY <1>1, <1>2, <2>2, <2>5, <2>6, <2>7, <2>8
       DEF IInv, CommitInv, RestInv, StartInv, HolderInv
<1>5. CASE NotAppended(txn.call, "aborted") /\ FailDamaged
  <2>1. Fail /\ damaged' = TRUE
    BY <1>5 DEF FailDamaged
  <2>2. FilesTyped' /\ LogKept /\ loss' = loss /\ faults' \in 0..MaxErrors
    BY <1>1, <1>2, <1>3, <1>5, AppendKeeps
  <2>3. DirectoriesInv'
    BY <1>1, <2>1, <2>2, FailFacts, DirectoriesKept
  <2> QED
    BY <1>1, <1>2, <2>1, <2>2, <2>3, DamagedEnd
<1> QED
  BY <1>4, <1>5 DEF AppendAborted

(* Removing the intent beside a snapshot that the log was told of. *)
LEMMA RemovedKeeps ==
    ASSUME IInv, Removed, NoneAcknowledged, LogKept, audit' = audit, torn' = torn,
           ToldBut(disk.snapshot, {})
    PROVE  /\ FilesTyped' /\ DirectoriesInv'
           /\ disk'.pending = Nil /\ disk'.snapshot = disk.snapshot
           /\ loss' = loss \cup {disk'}
<1>1. PICK d : d = Pending(Nil)
  OBVIOUS
<1>2. d \in Directories /\ d.pending = Nil /\ d.snapshot = disk.snapshot
  BY <1>1, DirectoryOf DEF IInv
<1>3. disk' = d /\ loss' = loss \cup {d}
  BY <1>1 DEF Removed
<1>4. Holds(disk.snapshot) /\ disk.snapshot \in Snapshots
  BY DEF IInv, DirectoriesInv, KeysTypeOK, Directories
<1>5. Holds(d.snapshot)' /\ ToldBut(d.snapshot, {})'
  BY <1>2, <1>4, Kept
<1>6. GoodDirectory(d)'
  BY <1>2, <1>5 DEF GoodDirectory
<1>7. DirectoriesInv'
  BY <1>3, <1>6, DirectoriesKept
<1> QED
  BY <1>2, <1>3, <1>7 DEF FilesTyped, IInv, KeysTypeOK

LEMMA DiscardIntentKeeps == ASSUME IInv, DiscardIntent PROVE IInv'
<1>1. txn # Nil /\ KeysTypeOK /\ HolderInv /\ StageInv /\ txn.at = "discard"
  BY DEF DiscardIntent, At, IInv, CommitInv
<1>2. UNCHANGED <<audit, torn, memory, mode, blind>> /\ Fail
  BY DEF DiscardIntent, Rest, FailDamaged
<1>3. txn' = Nil /\ NoneAcknowledged /\ LogKept
  BY <1>1, <1>2, FailFacts, LogSame
<1>4. disk.snapshot = txn.before /\ ToldBut(disk.snapshot, {})
  BY <1>1 DEF StageInv, KeysTypeOK, HolderInv, IntentKnown
<1>5. CASE Removed /\ UNCHANGED <<damaged, faults>>
  <2>1. /\ FilesTyped' /\ DirectoriesInv'
        /\ disk'.pending = Nil /\ disk'.snapshot = disk.snapshot
    BY <1>2, <1>3, <1>4, <1>5, RemovedKeeps
  <2>2. KeysTypeOK'
    BY <1>1, <1>2, <1>5, <2>1, FailFacts DEF KeysTypeOK, FilesTyped
  <2>3. RestInv'
    BY <1>1, <1>2, <1>4, <2>1 DEF RestInv, HolderInv
  <2> QED
    BY <1>1, <1>2, <1>3, <2>1, <2>2, <2>3 DEF IInv, CommitInv, StartInv, HolderInv
<1>6. CASE Fault /\ FailDamaged /\ UNCHANGED <<disk, loss>>
  <2>1. FilesTyped'
    BY <1>1, <1>2, <1>6 DEF FilesTyped, KeysTypeOK
  <2>2. DirectoriesInv'
    BY <1>3, <1>6, DirectoriesKept
  <2> QED
    BY <1>1, <1>2, <1>6, <2>1, <2>2, FaultTyped, DamagedEnd DEF FailDamaged
<1> QED
  BY <1>5, <1>6 DEF DiscardIntent

LEMMA RemoveIntentKeeps == ASSUME IInv, RemoveIntent PROVE IInv'
<1>1. txn # Nil /\ KeysTypeOK /\ HolderInv /\ StageInv /\ txn.at = "remove"
  BY DEF RemoveIntent, At, IInv, CommitInv
<1>2. UNCHANGED <<audit, torn, calls, memory, mode, blind>> /\ txn' = [txn EXCEPT !.at = "publish"]
  BY DEF RemoveIntent, Rest
<1>3. NoneAcknowledged /\ LogKept
  BY <1>2, LogSame DEF NoneAcknowledged
<1>4. /\ txn' \in Commits /\ txn' # Nil /\ txn'.at = "publish"
      /\ txn'.call = txn.call /\ txn'.before = txn.before /\ txn'.after = txn.after
  BY <1>1, <1>2, CommitTyped DEF Stages
<1>5. disk.snapshot = txn.after /\ Told(txn.call) /\ \A d \in loss : d.snapshot = txn.after
  BY <1>1 DEF StageInv, KeysTypeOK
<1>6. ToldBut(disk.snapshot, {})
  BY <1>1, <1>5 DEF HolderInv, IntentKnown, ToldBut
<1>7. /\ FilesTyped' /\ DirectoriesInv' /\ faults' \in 0..MaxErrors /\ damaged' \in BOOLEAN
      /\ \A d \in loss' : d.snapshot = txn.after
      /\ ~damaged' => disk'.pending = Nil
  <2>1. CASE Removed /\ UNCHANGED <<damaged, faults>>
    BY <1>1, <1>2, <1>3, <1>5, <1>6, <2>1, RemovedKeeps DEF KeysTypeOK
  <2>2. CASE Fault /\ damaged' = TRUE /\ UNCHANGED <<disk, loss>>
    <3>1. FilesTyped'
      BY <1>1, <1>2, <2>2 DEF FilesTyped, KeysTypeOK
    <3>2. DirectoriesInv'
      BY <1>3, <2>2, DirectoriesKept
    <3> QED
      BY <1>1, <1>5, <2>2, <3>1, <3>2, FaultTyped
  <2> QED
    BY <2>1, <2>2 DEF RemoveIntent
<1>8. KeysTypeOK'
  BY <1>1, <1>2, <1>4, <1>7 DEF KeysTypeOK, FilesTyped
<1>9. HolderInv'
  BY <1>1, <1>2, <1>3, HolderKept DEF Stages
<1>10. StageInv'
  <2>1. Told(txn.call)'
    BY <1>2, <1>4, <1>5 DEF Told
  <2> QED
    BY <1>4, <1>7, <2>1 DEF StageInv
<1> QED
  BY <1>1, <1>2, <1>4, <1>7, <1>8, <1>9, <1>10
     DEF IInv, CommitInv, RestInv, StartInv, HolderInv

(* The one step that acknowledges a call: everything a power loss may      *)
(* leave shows it already.                                                 *)
LEMMA PublishKeeps == ASSUME IInv, Publish PROVE IInv'
<1>1. txn # Nil /\ KeysTypeOK /\ HolderInv /\ StageInv /\ txn.at = "publish"
  BY DEF Publish, At, IInv, CommitInv
<1>2. /\ UNCHANGED <<disk, loss, audit, torn, damaged, mode, blind, faults>>
      /\ memory' = txn.after /\ txn' = Nil /\ calls' = Become(txn.call, "ok")
  BY DEF Publish, files
<1>3. PICK call \in Calls : call = txn.call
  BY <1>1, CommitTyped
<1>4. /\ calls' \in [Calls -> [op : Events, key : Keys,
                               state : {"unborn", "waiting", "writing", "ok", "failed",
                                        "refused", "lost"}]]
      /\ calls'[call].state = "ok"
      /\ \A d \in Calls : calls'[d].op = calls[d].op /\ calls'[d].key = calls[d].key
      /\ \A d \in Calls \ {call} : calls'[d] = calls[d]
  BY <1>1, <1>2, <1>3, BecomeFacts
<1>5. KeysTypeOK'
  <2>1. \A c \in Calls : calls'[c].state # "writing"
    BY <1>1, <1>3, <1>4 DEF KeysTypeOK
  <2>2. memory' \in Snapshots
    BY <1>1, <1>2, CommitTyped
  <2> QED
    BY <1>1, <1>2, <1>4, <2>1, <2>2 DEF KeysTypeOK
<1>6. LogKept
  BY <1>2, LogSame
<1>7. DirectoriesInv'
  <2> SUFFICES ASSUME NEW d \in loss PROVE GoodDirectory(d)'
    BY <1>2 DEF DirectoriesInv, GoodDirectory
  <2>1. d.snapshot = txn.after /\ d \in Directories
    BY <1>1 DEF StageInv, KeysTypeOK
  <2>2. GoodDirectory(d)
    BY DEF IInv, DirectoriesInv, GoodDirectory
  <2>3. Effective(d.snapshot, call)
    BY <1>1, <1>3, <2>1 DEF HolderInv
  <2>4. Holds(d.snapshot)'
    BY <1>4, <2>2, <2>3 DEF GoodDirectory, Holds, Effective
  <2>5. (IF d.pending = Nil THEN ToldBut(d.snapshot, {}) ELSE IntentKnown(d.pending))'
    BY <1>2, <2>2 DEF GoodDirectory, ToldBut, IntentKnown, Told
  <2> QED
    BY <2>4, <2>5 DEF GoodDirectory
<1>8. RestInv'
  <2>1. disk.snapshot = txn.after
    BY <1>1 DEF StageInv, KeysTypeOK
  <2> QED
    BY <1>1, <1>2, <2>1 DEF RestInv, Serving, StageInv
<1> QED
  BY <1>1, <1>2, <1>5, <1>7, <1>8 DEF IInv, CommitInv, StartInv, HolderInv

-----------------------------------------------------------------------------
(* The calls.                                                              *)

LEMMA BeginKeeps ==
    ASSUME IInv, NEW c \in Calls, NEW key \in Calls, NEW op \in Events, Begin(c, op, key)
    PROVE  IInv'
<1>1. /\ UNCHANGED <<disk, loss, audit, torn, memory, damaged, mode, txn, blind, faults>>
      /\ calls' = [calls EXCEPT ![c] = [op |-> op, key |-> key, state |-> "waiting"]]
      /\ calls[c].state = "unborn" /\ KeysTypeOK
  BY DEF Begin, files, inner, IInv
<1>2. /\ calls' \in [Calls -> [op : Events, key : Keys,
                               state : {"unborn", "waiting", "writing", "ok", "failed",
                                        "refused", "lost"}]]
      /\ calls'[c].state = "waiting"
      /\ \A d \in Calls \ {c} : calls'[d] = calls[d]
  BY <1>1 DEF KeysTypeOK, Keys
<1>3. KeysTypeOK'
  <2>1. \A d \in Calls : calls'[d].state = "writing" => calls[d].state = "writing"
    BY <1>2
  <2> QED
    BY <1>1, <1>2, <2>1 DEF KeysTypeOK
<1>4. NoneAcknowledged /\ LogKept
  <2>1. \A d \in Calls : calls'[d].state = "ok" => d # c
    BY <1>2
  <2> QED
    BY <1>1, <1>2, <2>1, LogSame DEF NoneAcknowledged
<1>5. DirectoriesInv'
  BY <1>1, <1>4, DirectoriesKept
<1>6. CommitInv'
  <2>1. SUFFICES ASSUME txn # Nil PROVE HolderInv' /\ StageInv'
    BY <1>1 DEF CommitInv
  <2>2. txn.call # c /\ txn.call \in Calls /\ StageInv
    BY <1>1, <2>1, CommitTyped DEF IInv, CommitInv, HolderInv
  <2>3. HolderInv'
    BY <1>1, <1>2, <1>4, <2>1, <2>2, HolderKept
  <2> QED
    BY <1>1, <2>2, <2>3 DEF StageInv, Intent, Told
<1> QED
  BY <1>1, <1>3, <1>5, <1>6 DEF IInv, RestInv, Serving, StartInv, Told

(* A mutation adds its own call to a snapshot, and hides no other.         *)
LEMMA MutatedFacts ==
    ASSUME KeysTypeOK, NEW c \in Calls
    PROVE  /\ Mutated(c) \in Snapshots
           /\ Named(Mutated(c)) \subseteq Named(memory) \cup {c}
           /\ (calls[c].op = "ban" => calls[c].key \in memory.issued) =>
                Effective(Mutated(c), c)
           /\ Holds(memory) => Holds(Mutated(c))
<1>1. /\ memory \in Snapshots /\ calls[c].op \in Events /\ calls[c].key \in Keys
      /\ memory.issued \subseteq Keys /\ memory.bannedBy \in [Keys -> 0..MaxCalls]
      /\ c \in Keys /\ c \in 0..MaxCalls /\ c # 0
  <2>1. memory \in Snapshots /\ calls[c].op \in Events /\ calls[c].key \in Keys
    BY DEF KeysTypeOK
  <2>2. c \in Keys /\ c \in 0..MaxCalls /\ c # 0
    BY BoundsAssumption DEF Keys, Calls
  <2> QED
    BY <2>1, <2>2 DEF Snapshots
<1>2. CASE calls[c].op = "create"
  <2>1. Mutated(c) = [memory EXCEPT !.issued = memory.issued \cup {c}]
    BY <1>2 DEF Mutated
  <2>2. /\ Mutated(c) \in Snapshots /\ Mutated(c).issued = memory.issued \cup {c}
        /\ Mutated(c).bannedBy = memory.bannedBy
    BY <1>1, <2>1 DEF Snapshots
  <2> QED
    BY <1>2, <2>2 DEF Named, Effective, Holds
<1>3. CASE calls[c].op # "create"
  <2> DEFINE k == calls[c].key
             b == IF memory.bannedBy[k] = 0 THEN c ELSE memory.bannedBy[k]
  <2>1. Mutated(c) = [memory EXCEPT !.bannedBy = [memory.bannedBy EXCEPT ![k] = b]]
    BY <1>1, <1>3 DEF Mutated, Snapshots
  <2>2. b \in 0..MaxCalls /\ b # 0
    BY <1>1
  <2>3. /\ Mutated(c) \in Snapshots /\ Mutated(c).issued = memory.issued
        /\ Mutated(c).bannedBy = [memory.bannedBy EXCEPT ![k] = b]
    BY <1>1, <2>1, <2>2 DEF Snapshots
  <2>4. \A j \in Keys : Mutated(c).bannedBy[j] = IF j = k THEN b ELSE memory.bannedBy[j]
    BY <1>1, <2>3
  <2>5. Named(Mutated(c)) \subseteq Named(memory) \cup {c}
    BY <1>1, <2>3, <2>4 DEF Named
  <2>6. Effective(Mutated(c), c)
    BY <1>1, <1>3, <2>2, <2>4 DEF Effective
  <2>7. Holds(memory) => Holds(Mutated(c))
    <3> SUFFICES ASSUME Holds(memory), NEW d \in Calls, calls[d].state = "ok"
                 PROVE  Effective(Mutated(c), d)
      BY DEF Holds
    <3>1. Effective(memory, d) /\ calls[d].key \in Keys
      BY DEF Holds, KeysTypeOK
    <3> QED
      BY <2>2, <2>3, <2>4, <3>1 DEF Effective
  <2> QED
    BY <2>3, <2>5, <2>6, <2>7
<1> QED
  BY <1>2, <1>3

(* A call computes its snapshot from a memory that shows every acknowledged *)
(* call, also in a store that was damaged while it waited.                 *)
LEMMA TakeMutexKeeps ==
    ASSUME IInv, MemoryInv, NEW c \in Calls, TakeMutex(c)
    PROVE  IInv'
<1>1. /\ KeysTypeOK /\ txn = Nil /\ mode = "serving" /\ calls[c].state = "waiting"
      /\ (calls[c].op = "ban" => calls[c].key \in memory.issued)
      /\ txn' = [call |-> c, at |-> "intent", before |-> memory, after |-> Mutated(c)]
      /\ calls' = Become(c, "writing")
      /\ UNCHANGED <<disk, loss, audit, torn, memory, damaged, mode, blind, faults>>
  BY DEF TakeMutex, Waiting, files, IInv
<1>2. /\ Holds(memory) /\ ToldBut(memory, {}) /\ memory \in Snapshots
  BY <1>1 DEF MemoryInv, KeysTypeOK
<1>3. PICK b \in Snapshots, a \in Snapshots : b = memory /\ a = Mutated(c)
  BY <1>1, <1>2, MutatedFacts
<1>4. /\ Holds(a) /\ Effective(a, c) /\ Named(a) \subseteq Named(b) \cup {c}
  BY <1>1, <1>2, <1>3, MutatedFacts
<1>5. ToldBut(b, {}) /\ ToldBut(a, {c})
  BY <1>2, <1>3, <1>4 DEF ToldBut
<1>6. /\ calls' \in [Calls -> [op : Events, key : Keys,
                               state : {"unborn", "waiting", "writing", "ok", "failed",
                                        "refused", "lost"}]]
      /\ calls'[c].state = "writing"
      /\ \A d \in Calls : calls'[d].op = calls[d].op /\ calls'[d].key = calls[d].key
      /\ \A d \in Calls \ {c} : calls'[d] = calls[d]
  BY <1>1, BecomeFacts
<1>7. NoneAcknowledged /\ LogKept
  BY <1>1, <1>6, LogSame DEF NoneAcknowledged
<1>8. txn' = [call |-> c, at |-> "intent", before |-> b, after |-> a]
  BY <1>1, <1>3
<1>9. txn' \in Commits /\ txn' # Nil
  BY <1>8, NoneAssumption DEF Commits, Stages
<1>10. KeysTypeOK'
  <2>1. \A d \in Calls : calls'[d].state = "writing" => d = c
    BY <1>1, <1>6 DEF KeysTypeOK
  <2> QED
    BY <1>1, <1>6, <1>8, <1>9, <2>1 DEF KeysTypeOK
<1>11. DirectoriesInv'
  BY <1>1, <1>7, DirectoriesKept
<1>12. HolderInv'
  <2>1. Holds(b)' /\ Holds(a)' /\ ToldBut(b, {})' /\ ToldBut(a, {c})'
    BY <1>2, <1>3, <1>4, <1>5, <1>7, Kept
  <2>2. Effective(a, c)'
    BY <1>4, <1>6 DEF Effective
  <2>3. txn'.call = c /\ txn'.before = b /\ txn'.after = a
    BY <1>8
  <2>4. Holds(txn.before)' /\ Holds(txn.after)' /\ Effective(txn.after, txn.call)'
    BY <2>1, <2>2, <2>3 DEF Holds, Effective
  <2>5. IntentKnown(txn)'
    BY <2>1, <2>3 DEF IntentKnown, ToldBut, Told
  <2> QED
    BY <1>1, <1>3, <1>6, <2>3, <2>4, <2>5 DEF HolderInv
<1>13. StageInv'
  <2>1. ~damaged => disk.pending = Nil /\ disk.snapshot = memory
    BY <1>1 DEF IInv, RestInv, Serving
  <2> QED
    BY <1>1, <1>3, <1>8, <2>1 DEF StageInv
<1> QED
  BY <1>1, <1>9, <1>10, <1>11, <1>12, <1>13 DEF IInv, CommitInv, RestInv, StartInv

LEMMA RefuseUnknownKeeps == ASSUME IInv, NEW c \in Calls, RefuseUnknown(c) PROVE IInv'
<1>1. /\ KeysTypeOK /\ txn = Nil /\ mode = "serving" /\ calls[c].state = "waiting"
      /\ calls' = Become(c, "refused")
      /\ UNCHANGED <<disk, loss, audit, torn, memory, damaged, mode, txn, blind, faults>>
  BY DEF RefuseUnknown, Waiting, files, inner, IInv
<1>2. /\ calls' \in [Calls -> [op : Events, key : Keys,
                               state : {"unborn", "waiting", "writing", "ok", "failed",
                                        "refused", "lost"}]]
      /\ calls'[c].state = "refused"
      /\ \A d \in Calls : calls'[d].op = calls[d].op /\ calls'[d].key = calls[d].key
      /\ \A d \in Calls \ {c} : calls'[d] = calls[d]
  BY <1>1, BecomeFacts
<1>3. NoneAcknowledged /\ LogKept
  BY <1>1, <1>2, LogSame DEF NoneAcknowledged
<1>4. KeysTypeOK'
  <2>1. \A d \in Calls : calls'[d].state = "writing" => calls[d].state = "writing"
    BY <1>2
  <2> QED
    BY <1>1, <1>2, <2>1 DEF KeysTypeOK
<1>5. DirectoriesInv'
  BY <1>1, <1>3, DirectoriesKept
<1> QED
  BY <1>1, <1>4, <1>5 DEF IInv, CommitInv, RestInv, Serving, StartInv

LEMMA RecordRequestKeeps == ASSUME IInv, RecordRequest PROVE IInv'
<1>1. /\ KeysTypeOK /\ txn = Nil /\ mode = "serving" /\ torn' \in BOOLEAN
      /\ loss' = loss \/ loss' = {disk}
      /\ UNCHANGED <<disk, audit, memory, damaged, mode, txn, calls, blind>>
  BY DEF RecordRequest, inner, IInv
<1>2. faults' \in 0..MaxErrors
  BY <1>1, FaultTyped DEF RecordRequest, KeysTypeOK
<1>3. NoneAcknowledged /\ LogKept /\ loss' \subseteq loss
  BY <1>1, LogSame DEF NoneAcknowledged, KeysTypeOK
<1>4. KeysTypeOK'
  BY <1>1, <1>2 DEF KeysTypeOK
<1>5. DirectoriesInv'
  BY <1>3, DirectoriesKept
<1> QED
  BY <1>1, <1>4, <1>5 DEF IInv, CommitInv, RestInv, Serving, StartInv

-----------------------------------------------------------------------------
(* Crash and start. *)

LEMMA DieFacts ==
    ASSUME KeysTypeOK, Die
    PROVE  /\ calls' \in [Calls -> [op : Events, key : Keys,
                                    state : {"unborn", "waiting", "writing", "ok", "failed",
                                             "refused", "lost"}]]
           /\ NoneAcknowledged /\ LogKept
           /\ \A c \in Calls : calls'[c].state \notin {"waiting", "writing"}
           /\ memory' \in Snapshots /\ mode' = "down" /\ txn' = Nil /\ damaged' = FALSE
           /\ UNCHANGED <<audit, blind>>
<1>1. calls' = [c \in Calls |-> IF calls[c].state \in {"waiting", "writing"}
                                THEN [calls[c] EXCEPT !.state = "lost"] ELSE calls[c]]
  BY DEF Die
<1>2. \A c \in Calls : /\ calls'[c] \in [op : Events, key : Keys,
                                state : {"unborn", "waiting", "writing", "ok", "failed",
                                         "refused", "lost"}]
                       /\ calls'[c].state \notin {"waiting", "writing"}
                       /\ calls'[c].state = "ok" => calls'[c] = calls[c]
  BY <1>1 DEF KeysTypeOK
<1>3. NoKeys \in Snapshots
  BY BoundsAssumption DEF NoKeys, Snapshots
<1> QED
  BY <1>1, <1>2, <1>3, LogSame DEF Die, NoneAcknowledged

LEMMA DownKeeps ==
    ASSUME IInv, Die, FilesTyped', faults' \in 0..MaxErrors, loss' \subseteq loss
    PROVE  IInv'
<1>1. KeysTypeOK'
  BY DieFacts DEF IInv, KeysTypeOK, FilesTyped
<1>2. DirectoriesInv'
  BY DieFacts, DirectoriesKept DEF IInv
<1> QED
  BY <1>1, <1>2, DieFacts DEF IInv, CommitInv, RestInv, Serving, StartInv

LEMMA CrashKeeps == ASSUME IInv, KeysCrash PROVE IInv'
<1>1. Die /\ UNCHANGED <<disk, loss, audit>> /\ torn' \in BOOLEAN /\ faults' \in 0..MaxErrors
  BY FaultTyped, DieFacts DEF KeysCrash, IInv, KeysTypeOK
<1>2. FilesTyped'
  BY <1>1 DEF FilesTyped, IInv, KeysTypeOK
<1> QED
  BY <1>1, <1>2, DownKeeps

LEMMA PowerLossKeeps == ASSUME IInv, PowerLoss PROVE IInv'
<1>1. PICK d \in loss : Replaced(d)
  BY DEF PowerLoss
<1>2. disk' = d /\ loss' = {d}
  BY <1>1 DEF Replaced
<1>3. (torn \/ Appending) \in BOOLEAN
  BY DEF IInv, KeysTypeOK, Appending, At
<1>4. torn' \in BOOLEAN /\ Die /\ audit' = audit /\ faults' \in 0..MaxErrors
  BY <1>3, FaultTyped, DieFacts DEF PowerLoss, IInv, KeysTypeOK
<1>5. FilesTyped'
  BY <1>2, <1>4 DEF FilesTyped, IInv, KeysTypeOK
<1> QED
  BY <1>2, <1>4, <1>5, DownKeeps

LEMMA DownFacts ==
    ASSUME IInv, mode # "serving"
    PROVE  /\ txn = Nil /\ KeysTypeOK
           /\ \A c \in Calls : calls[c].state # "writing"
BY DEF IInv, CommitInv, HolderInv, KeysTypeOK

LEMMA LoadKeeps == ASSUME IInv, LoadKeys PROVE IInv'
<1>1. mode = "down" /\ memory' = disk.snapshot
      /\ UNCHANGED <<disk, loss, audit, torn, txn, calls, blind, faults>>
  BY DEF LoadKeys, Start, files
<1>2. /\ txn = Nil /\ KeysTypeOK /\ disk \in Directories /\ disk \in loss
      /\ \A c \in Calls : calls[c].state # "writing"
  BY <1>1, DownFacts DEF KeysTypeOK
<1>3. NoneAcknowledged /\ LogKept
  BY <1>1, LogSame DEF NoneAcknowledged
<1>4. DirectoriesInv'
  BY <1>1, <1>3, DirectoriesKept
<1>5. CASE disk.pending = Nil
  <2>1. mode' = "serving" /\ damaged' = FALSE
    BY <1>5 DEF LoadKeys, Start
  <2>2. KeysTypeOK'
    BY <1>1, <1>2, <2>1 DEF KeysTypeOK, Directories
  <2> QED
    BY <1>1, <1>2, <1>4, <1>5, <2>1, <2>2 DEF IInv, CommitInv, RestInv, StartInv
<1>6. CASE disk.pending # Nil
  <2> DEFINE intent == disk.pending
             verdict == Verdict(intent, disk.snapshot)
  <2>1. /\ mode' = IF verdict = "unmatched" THEN "serving" ELSE verdict
        /\ damaged' = (verdict = "unmatched")
    BY <1>6 DEF LoadKeys, Start
  <2>2. /\ verdict \in {"remove", "audit", "aborted", "unmatched"}
        /\ verdict # "unmatched" => disk.snapshot \in {intent.before, intent.after}
        /\ verdict = "remove" => Told(intent.call)
    BY DEF Verdict, HasLine, Told
  <2>3. KeysTypeOK'
    BY <1>1, <1>2, <2>1, <2>2 DEF KeysTypeOK, Directories
  <2>4. StartInv'
    <3>1. verdict = "remove" => Told(disk.pending.call)'
      BY <1>1, <2>2 DEF Told
    <3> QED
      BY <1>1, <1>6, <2>1, <2>2, <3>1 DEF StartInv
  <2>5. RestInv'
    BY <2>1, <2>2 DEF RestInv, Serving
  <2> QED
    BY <1>1, <1>2, <1>4, <2>3, <2>4, <2>5 DEF IInv, CommitInv
<1> QED
  BY <1>5, <1>6

LEMMA LoadErrorKeeps == ASSUME IInv, LoadError PROVE IInv'
<1>1. /\ mode = "down" /\ mode' = "serving" /\ damaged' = TRUE
      /\ memory' \in {NoKeys, disk.snapshot}
      /\ UNCHANGED <<disk, loss, audit, torn, txn, calls, blind>>
  BY DEF LoadError, files
<1>2. /\ txn = Nil /\ KeysTypeOK /\ disk \in Directories
      /\ \A c \in Calls : calls[c].state # "writing"
  BY <1>1, DownFacts DEF KeysTypeOK
<1>3. NoneAcknowledged /\ LogKept
  BY <1>1, LogSame DEF NoneAcknowledged
<1>4. DirectoriesInv'
  BY <1>1, <1>3, DirectoriesKept
<1>5. NoKeys \in Snapshots /\ disk.snapshot \in Snapshots
  BY <1>2, BoundsAssumption DEF NoKeys, Snapshots, Directories
<1>6. faults' \in 0..MaxErrors
  BY <1>2, FaultTyped DEF LoadError
<1>7. KeysTypeOK'
  BY <1>1, <1>2, <1>5, <1>6 DEF KeysTypeOK
<1> QED
  BY <1>1, <1>2, <1>4, <1>7 DEF IInv, CommitInv, RestInv, Serving, StartInv

LEMMA SettleLineKeeps == ASSUME IInv, SettleLine PROVE IInv'
<1>1. /\ mode \in {"audit", "aborted"} /\ UNCHANGED <<disk, memory, txn, calls, blind>>
  BY DEF SettleLine
<1>2. /\ txn = Nil /\ KeysTypeOK /\ disk \in Directories /\ disk \in loss
      /\ \A c \in Calls : calls[c].state # "writing"
      /\ ~damaged /\ disk.pending # Nil /\ memory = disk.snapshot
      /\ disk.snapshot \in {disk.pending.before, disk.pending.after}
  BY <1>1, DownFacts DEF KeysTypeOK, IInv, StartInv
<1>3. PICK call \in Calls, kind \in Events \cup {"aborted"} :
        /\ call = disk.pending.call
        /\ \/ Appended(call, kind) /\ mode' = "remove" /\ UNCHANGED <<damaged, faults>>
           \/ NotAppended(call, kind) /\ mode' = "serving" /\ damaged' = TRUE
  <2>1. disk.pending \in Intents
    BY <1>2 DEF Directories
  <2>2. disk.pending.call \in Calls /\ calls[disk.pending.call].op \in Events
    BY <1>2, <2>1 DEF Intents, KeysTypeOK
  <2> QED
    BY <2>2 DEF SettleLine
<1>4. /\ FilesTyped' /\ LogKept
      /\ Appended(call, kind) => Told(call)'
      /\ NotAppended(call, kind) => faults' \in 0..MaxErrors
  BY <1>1, <1>2, <1>3, AppendKeeps
<1>5. FilesTyped' /\ LogKept /\ loss' \subseteq loss
  BY <1>1, <1>2, <1>3, AppendKeeps
<1>6. NoneAcknowledged
  BY <1>1 DEF NoneAcknowledged
<1>7. DirectoriesInv'
  BY <1>5, <1>6, DirectoriesKept
<1>8. KeysTypeOK'
  BY <1>1, <1>2, <1>3, <1>4, <1>5 DEF KeysTypeOK, FilesTyped
<1>9. StartInv'
  <2>1. CASE mode' = "serving"
    BY <2>1 DEF StartInv
  <2>2. CASE mode' = "remove"
    <3>1. Told(call)' /\ damaged' = damaged
      BY <1>3, <1>4, <2>2
    <3>2. Told(disk.pending.call)'
      BY <1>1, <1>3, <3>1 DEF Told
    <3> QED
      BY <1>1, <1>2, <2>2, <3>1, <3>2 DEF StartInv
  <2> QED
    BY <1>3, <2>1, <2>2
<1>10. RestInv'
  BY <1>3 DEF RestInv, Serving
<1> QED
  BY <1>1, <1>2, <1>7, <1>8, <1>9, <1>10 DEF IInv, CommitInv

LEMMA SettleIntentKeeps == ASSUME IInv, SettleIntent PROVE IInv'
<1>1. /\ mode = "remove" /\ mode' = "serving"
      /\ UNCHANGED <<audit, torn, memory, txn, calls, blind>>
  BY DEF SettleIntent
<1>2. /\ txn = Nil /\ KeysTypeOK /\ disk \in Directories /\ disk \in loss
      /\ \A c \in Calls : calls[c].state # "writing"
      /\ ~damaged /\ disk.pending # Nil /\ memory = disk.snapshot
      /\ disk.snapshot \in {disk.pending.before, disk.pending.after}
      /\ Told(disk.pending.call)
  BY <1>1, DownFacts DEF KeysTypeOK, IInv, StartInv
<1>3. NoneAcknowledged /\ LogKept
  BY <1>1, LogSame DEF NoneAcknowledged
<1>4. ToldBut(disk.snapshot, {})
  <2>1. IntentKnown(disk.pending)
    BY <1>2 DEF IInv, DirectoriesInv
  <2> QED
    BY <1>2, <2>1 DEF IntentKnown, ToldBut
<1>5. CASE Removed /\ UNCHANGED <<damaged, faults>>
  <2>1. /\ FilesTyped' /\ DirectoriesInv'
        /\ disk'.pending = Nil /\ disk'.snapshot = disk.snapshot
    BY <1>1, <1>3, <1>4, <1>5, RemovedKeeps
  <2>2. KeysTypeOK'
    BY <1>1, <1>2, <1>5, <2>1 DEF KeysTypeOK, FilesTyped
  <2> QED
    BY <1>1, <1>2, <2>1, <2>2 DEF IInv, CommitInv, RestInv, StartInv
<1>6. CASE Fault /\ damaged' = TRUE /\ UNCHANGED <<disk, loss>>
  <2>1. DirectoriesInv'
    BY <1>3, <1>6, DirectoriesKept
  <2>2. KeysTypeOK'
    BY <1>1, <1>2, <1>6, FaultTyped DEF KeysTypeOK
  <2> QED
    BY <1>1, <1>2, <1>6, <2>1, <2>2 DEF IInv, CommitInv, RestInv, Serving, StartInv
<1> QED
  BY <1>5, <1>6 DEF SettleIntent

-----------------------------------------------------------------------------
(* The memory.                                                             *)

NoneWaits == \A c \in Calls : calls[c].state # "waiting"

LEMMA MemorySame ==
    ASSUME IInv, MemoryInv, NoneAcknowledged, LogKept, UNCHANGED <<memory, mode>>,
           ~damaged' => ~damaged,
           \A c \in Calls : calls'[c].state = "waiting" =>
                calls[c].state = "waiting" \/ (mode = "serving" /\ ~damaged)
    PROVE  MemoryInv'
<1>1. PICK s \in Snapshots : s = memory
  BY DEF IInv, KeysTypeOK
<1>2. ASSUME Holds(s), ToldBut(s, {}) PROVE Holds(memory)' /\ ToldBut(memory, {})'
  <2>1. Holds(s)' /\ ToldBut(s, {})'
    BY <1>2, Kept
  <2> QED
    BY <1>1, <2>1 DEF Holds, Effective, ToldBut, Told
<1>3. ASSUME mode = "serving", ~damaged \/ \E c \in Calls : calls[c].state = "waiting"
      PROVE  Holds(s) /\ ToldBut(s, {})
  BY <1>1, <1>3 DEF MemoryInv
<1>4. \A c \in Calls : calls'[c].state = "waiting" => mode' = "serving"
  BY DEF MemoryInv
<1>5. ASSUME mode' = "serving", ~damaged' \/ \E c \in Calls : calls'[c].state = "waiting"
      PROVE  mode = "serving" /\ (~damaged \/ \E c \in Calls : calls[c].state = "waiting")
  BY <1>5
<1> QED
  BY <1>2, <1>3, <1>4, <1>5 DEF MemoryInv

(* A process that does not serve yet, or serves damaged from its start.    *)
LEMMA MemoryOfStart ==
    ASSUME NoneWaits', mode' = "serving" /\ ~damaged' => (Holds(memory) /\ ToldBut(memory, {}))'
    PROVE  MemoryInv'
BY DEF NoneWaits, MemoryInv

LEMMA CommitStepFacts ==
    ASSUME IInv, CommitStep, ~Publish
    PROVE  /\ UNCHANGED <<memory, mode>> /\ (~damaged' => ~damaged)
           /\ LogKept /\ (calls' = calls \/ Fail) /\ txn # Nil
<1>1. txn # Nil /\ KeysTypeOK /\ mode = "serving"
  BY DEF CommitStep, WriteIntent, WriteSnapshot, WriteError, AppendEvent, RemoveIntent,
         Rollback, AppendAborted, DiscardIntent, At, IInv, CommitInv, HolderInv
<1>2. PICK call \in Calls, event \in Events : call = txn.call /\ event = calls[txn.call].op
  BY <1>1, CommitTyped DEF KeysTypeOK
<1>3. CASE WriteIntent
  BY <1>1, <1>3, LogSame DEF WriteIntent, Goto, Rest
<1>4. CASE WriteSnapshot
  BY <1>1, <1>4, LogSame DEF WriteSnapshot, Goto, Rest
<1>5. CASE WriteError
  BY <1>1, <1>5, LogSame DEF WriteError, FailDamaged, Rest
<1>6. CASE AppendEvent
  <2>1. disk' = disk /\ (Appended(call, event) \/ NotAppended(call, event))
    BY <1>2, <1>6 DEF AppendEvent
  <2>2. LogKept
    BY <1>1, <2>1, AppendKeeps
  <2> QED
    BY <1>1, <1>6, <2>2 DEF AppendEvent, Goto, Rest
<1>7. CASE RemoveIntent
  BY <1>1, <1>7, LogSame DEF RemoveIntent, Rest
<1>8. CASE Rollback
  BY <1>1, <1>8, LogSame DEF Rollback, Goto, FailDamaged, Rest
<1>9. CASE AppendAborted
  <2>1. disk' = disk /\ (Appended(call, "aborted") \/ NotAppended(call, "aborted"))
    BY <1>2, <1>9 DEF AppendAborted
  <2>2. LogKept
    BY <1>1, <2>1, AppendKeeps
  <2> QED
    BY <1>1, <1>9, <2>2 DEF AppendAborted, Goto, FailDamaged, Rest
<1>10. CASE DiscardIntent
  BY <1>1, <1>10, LogSame DEF DiscardIntent, FailDamaged, Rest
<1> QED
  BY <1>3, <1>4, <1>5, <1>6, <1>7, <1>8, <1>9, <1>10 DEF CommitStep

LEMMA MemoryOfCommit == ASSUME IInv, MemoryInv, CommitStep, ~Publish PROVE MemoryInv'
<1>1. /\ UNCHANGED <<memory, mode>> /\ (~damaged' => ~damaged)
      /\ LogKept /\ (calls' = calls \/ Fail) /\ txn # Nil
  BY CommitStepFacts
<1>2. CASE calls' = calls
  BY <1>1, <1>2, MemorySame DEF NoneAcknowledged
<1>3. CASE Fail
  <2>1. NoneAcknowledged
    BY <1>1, <1>3, FailFacts DEF IInv
  <2>2. PICK call \in Calls : call = txn.call
    BY <1>1, CommitTyped DEF IInv
  <2>3. \A c \in Calls : calls'[c].state = "waiting" => calls[c].state = "waiting"
    <3>1. calls' = Become(call, "failed")
      BY <1>3, <2>2 DEF Fail
    <3>2. calls'[call].state = "failed" /\ \A c \in Calls \ {call} : calls'[c] = calls[c]
      BY <3>1, BecomeFacts DEF IInv
    <3> QED
      BY <3>2
  <2> QED
    BY <1>1, <2>1, <2>3, MemorySame
<1> QED
  BY <1>1, <1>2, <1>3

LEMMA MemoryOfPublish == ASSUME IInv, MemoryInv, Publish PROVE MemoryInv'
<1>1. txn # Nil /\ KeysTypeOK /\ HolderInv /\ Told(txn.call)
  BY DEF Publish, At, IInv, CommitInv, StageInv
<1>2. PICK call \in Calls, a \in Snapshots : call = txn.call /\ a = txn.after
  BY <1>1, CommitTyped
<1>3. /\ UNCHANGED <<audit, damaged, mode>> /\ memory' = a /\ calls' = Become(call, "ok")
  BY <1>2 DEF Publish, files
<1>4. /\ calls'[call].state = "ok"
      /\ \A d \in Calls : calls'[d].op = calls[d].op /\ calls'[d].key = calls[d].key
      /\ \A d \in Calls \ {call} : calls'[d] = calls[d]
  BY <1>1, <1>3, BecomeFacts
<1>5. Holds(a) /\ Effective(a, call)
  BY <1>1, <1>2 DEF HolderInv
<1>6. ToldBut(a, {})
  BY <1>1, <1>2 DEF HolderInv, IntentKnown, ToldBut
<1>7. Holds(a)'
  BY <1>4, <1>5 DEF Holds, Effective
<1>8. ToldBut(a, {})'
  BY <1>3, <1>6 DEF ToldBut, Told
<1>9. Holds(memory)' /\ ToldBut(memory, {})'
  BY <1>3, <1>7, <1>8 DEF Holds, Effective, ToldBut, Told
<1>10. \A c \in Calls : calls'[c].state = "waiting" => mode' = "serving"
  BY <1>3, <1>4 DEF MemoryInv
<1> QED
  BY <1>9, <1>10 DEF MemoryInv

LEMMA MemoryOfCalls ==
    ASSUME IInv, MemoryInv, NEW c \in Calls, NEW key \in Calls, NEW op \in Events,
           Begin(c, op, key) \/ TakeMutex(c) \/ RefuseUnknown(c)
    PROVE  MemoryInv'
<1>1. KeysTypeOK
  BY DEF IInv
<1>2. UNCHANGED <<audit, memory, mode, damaged>>
  BY DEF Begin, TakeMutex, RefuseUnknown, files, inner
<1>0. LogKept
  BY <1>2, LogSame
<1>3. CASE Begin(c, op, key)
  <2>1. /\ calls' = [calls EXCEPT ![c] = [op |-> op, key |-> key, state |-> "waiting"]]
        /\ calls[c].state = "unborn" /\ mode = "serving" /\ ~damaged
    BY <1>3 DEF Begin
  <2>2. calls'[c].state = "waiting" /\ \A d \in Calls \ {c} : calls'[d] = calls[d]
    BY <1>1, <2>1 DEF KeysTypeOK
  <2>3. NoneAcknowledged
    <3>1. \A d \in Calls : calls'[d].state = "ok" => d # c
      BY <2>2
    <3> QED
      BY <2>2, <3>1 DEF NoneAcknowledged
  <2> QED
    <3>1. \A d \in Calls : calls'[d].state = "waiting" =>
            calls[d].state = "waiting" \/ (mode = "serving" /\ ~damaged)
      BY <2>1
    <3> QED
      BY <1>0, <1>2, <2>3, <3>1, MemorySame
<1>4. CASE TakeMutex(c) \/ RefuseUnknown(c)
  <2>1. PICK state \in {"writing", "refused"} : calls' = Become(c, state)
    BY <1>4 DEF TakeMutex, RefuseUnknown
  <2>2. /\ calls'[c].state = state
        /\ \A d \in Calls \ {c} : calls'[d] = calls[d]
    BY <1>1, <2>1, BecomeFacts
  <2>3. \A d \in Calls : calls'[d].state \in {"ok", "waiting"} => d # c
    BY <2>2
  <2>4. NoneAcknowledged
    BY <2>2, <2>3 DEF NoneAcknowledged
  <2>5. \A d \in Calls : calls'[d].state = "waiting" =>
            calls[d].state = "waiting" \/ (mode = "serving" /\ ~damaged)
    BY <2>2, <2>3
  <2> QED
    BY <1>0, <1>2, <2>4, <2>5, MemorySame
<1> QED
  BY <1>3, <1>4

LEMMA MemoryOfDie == ASSUME IInv, Die PROVE MemoryInv'
BY DieFacts DEF IInv, MemoryInv

LEMMA MemoryOfLoad == ASSUME IInv, MemoryInv, LoadKeys \/ LoadError PROVE MemoryInv'
<1>1. mode = "down" /\ UNCHANGED <<disk, audit, calls>>
  BY DEF LoadKeys, Start, LoadError, files
<1>2. NoneWaits'
  BY <1>1 DEF MemoryInv, NoneWaits
<1>3. ASSUME mode' = "serving", ~damaged' PROVE (Holds(memory) /\ ToldBut(memory, {}))'
  <2>1. LoadKeys /\ memory' = disk.snapshot
    BY <1>3 DEF LoadKeys, Start, LoadError
  <2>2. disk.pending = Nil
    BY <1>3, <2>1 DEF LoadKeys, Start, Verdict
  <2>3. Holds(disk.snapshot) /\ ToldBut(disk.snapshot, {})
    BY <2>2 DEF IInv, KeysTypeOK, DirectoriesInv
  <2> QED
    BY <1>1, <2>1, <2>3 DEF Holds, Effective, ToldBut, Told
<1> QED
  BY <1>2, <1>3, MemoryOfStart

LEMMA MemoryOfSettle == ASSUME IInv, MemoryInv, SettleLine \/ SettleIntent PROVE MemoryInv'
<1>1. mode \in {"audit", "aborted", "remove"} /\ UNCHANGED <<memory, calls>>
  BY DEF SettleLine, SettleIntent
<1>2. NoneWaits'
  BY <1>1 DEF MemoryInv, NoneWaits
<1>3. ASSUME mode' = "serving", ~damaged' PROVE (Holds(memory) /\ ToldBut(memory, {}))'
  <2>1. SettleIntent /\ audit' = audit /\ mode = "remove"
    BY <1>3 DEF SettleLine, SettleIntent
  <2>2. /\ disk.pending # Nil /\ memory = disk.snapshot /\ Told(disk.pending.call)
        /\ disk.snapshot \in {disk.pending.before, disk.pending.after}
    BY <2>1 DEF IInv, StartInv
  <2>3. Holds(memory) /\ IntentKnown(disk.pending)
    BY <2>2 DEF IInv, KeysTypeOK, DirectoriesInv
  <2>4. ToldBut(memory, {})
    BY <2>2, <2>3 DEF IntentKnown, ToldBut
  <2> QED
    BY <1>1, <2>1, <2>3, <2>4 DEF Holds, Effective, ToldBut, Told
<1> QED
  BY <1>2, <1>3, MemoryOfStart

LEMMA MemoryOfRequest == ASSUME IInv, MemoryInv, RecordRequest PROVE MemoryInv'
<1>1. UNCHANGED <<audit, memory, mode, damaged, calls>>
  BY DEF RecordRequest, inner
<1>2. NoneAcknowledged
  BY <1>1 DEF NoneAcknowledged
<1> QED
  BY <1>1, <1>2, LogSame, MemorySame

-----------------------------------------------------------------------------
(* Types hold whatever a start has read.                                   *)
Settling == mode \in {"audit", "aborted", "remove"}
Typed == KeysTypeOK /\ (Settling => disk.pending # Nil) /\ (txn # Nil => mode = "serving")

LEMMA WrittenTyped ==
    ASSUME KeysTypeOK, NEW d \in Directories, Replaced(d) \/ NotReplaced(d), UNCHANGED <<audit, torn>>
    PROVE  FilesTyped' /\ (NotReplaced(d) => faults' \in 0..MaxErrors)
<1>1. \/ disk' = d /\ loss' = {d}
      \/ disk' = disk /\ loss' = loss
      \/ disk' = d /\ loss' = loss \cup {d}
  BY DEF Replaced, NotReplaced
<1> QED
  BY <1>1, FaultTyped DEF NotReplaced, FilesTyped, KeysTypeOK

LEMMA RemovedTyped ==
    ASSUME KeysTypeOK, UNCHANGED <<audit, torn>>,
           \/ Removed /\ UNCHANGED faults
           \/ Fault /\ UNCHANGED <<disk, loss>>
    PROVE  FilesTyped' /\ faults' \in 0..MaxErrors
<1>1. PICK d : d = Pending(Nil)
  OBVIOUS
<1>2. d \in Directories
  BY <1>1, DirectoryOf
<1>3. CASE Removed /\ UNCHANGED faults
  BY <1>1, <1>2, <1>3 DEF Removed, FilesTyped, KeysTypeOK
<1>4. CASE Fault /\ UNCHANGED <<disk, loss>>
  BY <1>4, FaultTyped DEF FilesTyped, KeysTypeOK
<1> QED
  BY <1>3, <1>4

LEMMA CommitKeepsTypes == ASSUME Typed, CommitStep PROVE Typed'
<1>1. KeysTypeOK /\ txn # Nil /\ mode = "serving" /\ UNCHANGED <<mode, blind>>
  BY DEF Typed, CommitStep, WriteIntent, WriteSnapshot, WriteError, AppendEvent, RemoveIntent, Publish,
         Rollback, AppendAborted, DiscardIntent, At, Rest
<1>2. /\ txn.call \in Calls /\ txn.before \in Snapshots /\ txn.after \in Snapshots
      /\ Pending(Intent) \in Directories /\ Snapshot(txn.before) \in Directories
      /\ Snapshot(txn.after) \in Directories
      /\ calls[txn.call].op \in Events \cup {"aborted"}
      /\ "aborted" \in Events \cup {"aborted"}
  BY <1>1, CommitTyped, DirectoryOf DEF KeysTypeOK
<1>3. FilesTyped' /\ faults' \in 0..MaxErrors
  <2>1. CASE WriteIntent
    BY <1>1, <1>2, <2>1, WrittenTyped DEF WriteIntent, KeysTypeOK
  <2>2. CASE WriteSnapshot
    BY <1>1, <1>2, <2>2, WrittenTyped DEF WriteSnapshot, KeysTypeOK
  <2>3. CASE WriteError
    BY <1>1, <1>2, <2>3, WrittenTyped DEF WriteError
  <2>4. CASE AppendEvent
    BY <1>1, <1>2, <2>4, AppendKeeps DEF AppendEvent, KeysTypeOK
  <2>5. CASE Rollback
    BY <1>1, <1>2, <2>5, WrittenTyped DEF Rollback, KeysTypeOK
  <2>6. CASE AppendAborted
    BY <1>1, <1>2, <2>6, AppendKeeps DEF AppendAborted, KeysTypeOK
  <2>7. CASE DiscardIntent \/ RemoveIntent
    BY <1>1, <2>7, RemovedTyped DEF DiscardIntent, RemoveIntent
  <2>8. CASE Publish
    BY <1>1, <2>8 DEF Publish, files, FilesTyped, KeysTypeOK
  <2> QED
    BY <2>1, <2>2, <2>3, <2>4, <2>5, <2>6, <2>7, <2>8 DEF CommitStep
<1>4. damaged' \in BOOLEAN /\ memory' \in Snapshots
  <2>1. damaged' = damaged \/ damaged' = TRUE
    BY DEF CommitStep, WriteIntent, WriteSnapshot, WriteError, AppendEvent, RemoveIntent, Publish,
           Rollback, AppendAborted, DiscardIntent, Goto, FailDamaged
  <2>2. memory' = memory \/ memory' = txn.after
    BY DEF CommitStep, WriteIntent, WriteSnapshot, WriteError, AppendEvent, RemoveIntent, Publish,
           Rollback, AppendAborted, DiscardIntent, Rest
  <2> QED
    BY <1>1, <1>2, <2>1, <2>2 DEF KeysTypeOK
<1>5. \/ calls' = calls /\ \E at \in Stages : txn' = [txn EXCEPT !.at = at]
      \/ txn' = Nil /\ \E state \in {"ok", "failed"} : calls' = Become(txn.call, state)
  BY DEF CommitStep, WriteIntent, WriteSnapshot, WriteError, AppendEvent, RemoveIntent, Publish,
         Rollback, AppendAborted, DiscardIntent, Goto, Fail, FailDamaged, Stages
<1>6. KeysTypeOK'
  <2>1. CASE calls' = calls /\ \E at \in Stages : txn' = [txn EXCEPT !.at = at]
    <3>1. txn' \in Commits /\ txn' # Nil /\ txn'.call = txn.call
      BY <1>1, <2>1, CommitTyped
    <3> QED
      BY <1>1, <1>3, <1>4, <2>1, <3>1 DEF KeysTypeOK, FilesTyped
  <2>2. CASE txn' = Nil /\ \E state \in {"ok", "failed"} : calls' = Become(txn.call, state)
    <3>1. PICK state \in {"ok", "failed"} : calls' = Become(txn.call, state)
      BY <2>2
    <3>2. /\ calls' \in [Calls -> [op : Events, key : Keys,
                                   state : {"unborn", "waiting", "writing", "ok", "failed",
                                            "refused", "lost"}]]
          /\ calls'[txn.call].state = state
          /\ \A d \in Calls \ {txn.call} : calls'[d] = calls[d]
      BY <1>1, <1>2, <3>1, BecomeFacts
    <3>3. \A c \in Calls : calls'[c].state # "writing"
      BY <1>1, <3>2 DEF KeysTypeOK
    <3> QED
      BY <1>1, <1>3, <1>4, <2>2, <3>2, <3>3 DEF KeysTypeOK, FilesTyped
  <2> QED
    BY <1>5, <2>1, <2>2
<1> QED
  BY <1>1, <1>6 DEF Typed, Settling

LEMMA StartKeepsTypes ==
    ASSUME Typed, NEW snapshot \in Snapshots, Start(snapshot), blind' \in BOOLEAN, faults' \in 0..MaxErrors
    PROVE  Typed'
<1>1. /\ KeysTypeOK /\ mode = "down" /\ txn = Nil /\ memory' = snapshot
      /\ UNCHANGED <<disk, loss, audit, torn, txn, calls>>
  BY DEF Typed, Start, files
<1>2. \A c \in Calls : calls[c].state # "writing"
  BY <1>1 DEF KeysTypeOK
<1>3. CASE disk.pending = Nil
  <2>1. mode' = "serving" /\ damaged' = FALSE
    BY <1>3 DEF Start
  <2> QED
    BY <1>1, <1>2, <2>1 DEF Typed, Settling, KeysTypeOK
<1>4. CASE disk.pending # Nil
  <2> DEFINE verdict == Verdict(disk.pending, snapshot)
  <2>1. /\ mode' = IF verdict = "unmatched" THEN "serving" ELSE verdict
        /\ damaged' = (verdict = "unmatched")
    BY <1>4 DEF Start
  <2>2. verdict \in {"remove", "audit", "aborted", "unmatched"}
    BY DEF Verdict
  <2> HIDE DEF verdict
  <2>3. mode' \in {"remove", "audit", "aborted", "serving"} /\ damaged' \in BOOLEAN
    BY <2>1, <2>2
  <2> QED
    BY <1>1, <1>2, <1>4, <2>3 DEF Typed, Settling, KeysTypeOK
<1> QED
  BY <1>3, <1>4

LEMMA SettleKeepsTypes == ASSUME Typed, SettleLine \/ SettleIntent PROVE Typed'
<1>1. /\ KeysTypeOK /\ Settling /\ disk.pending # Nil /\ txn = Nil /\ UNCHANGED <<memory, txn, calls, blind>>
  BY DEF Typed, SettleLine, SettleIntent, Settling
<1>2. \A c \in Calls : calls[c].state # "writing"
  BY <1>1 DEF KeysTypeOK
<1>3. CASE SettleLine
  <2>1. disk.pending.call \in Calls /\ calls[disk.pending.call].op \in Events
    <3>1. disk.pending \in Intents
      BY <1>1 DEF KeysTypeOK, Directories
    <3> QED
      BY <1>1, <3>1 DEF Intents, KeysTypeOK
  <2>2. PICK call \in Calls, kind \in Events \cup {"aborted"} :
          \/ Appended(call, kind) /\ mode' = "remove" /\ UNCHANGED <<damaged, faults>>
          \/ NotAppended(call, kind) /\ mode' = "serving" /\ damaged' = TRUE
    BY <1>3, <2>1 DEF SettleLine
  <2>3. disk' = disk
    BY <1>3 DEF SettleLine
  <2>4. FilesTyped' /\ faults' \in 0..MaxErrors
    BY <1>1, <2>2, <2>3, AppendKeeps DEF KeysTypeOK
  <2> QED
    BY <1>1, <1>2, <2>2, <2>3, <2>4 DEF Typed, Settling, KeysTypeOK, FilesTyped
<1>4. CASE SettleIntent
  <2>1. FilesTyped' /\ faults' \in 0..MaxErrors
    BY <1>1, <1>4, RemovedTyped DEF SettleIntent
  <2>2. mode' = "serving" /\ damaged' \in BOOLEAN
    BY <1>1, <1>4 DEF SettleIntent, KeysTypeOK
  <2> QED
    BY <1>1, <1>2, <2>1, <2>2 DEF Typed, Settling, KeysTypeOK, FilesTyped
<1> QED
  BY <1>3, <1>4

LEMMA CallKeepsTypes ==
    ASSUME Typed, NEW c \in Calls, NEW k \in Calls, NEW op \in Events,
           Begin(c, op, k) \/ TakeMutex(c) \/ RefuseUnknown(c)
    PROVE  Typed'
<1>1. KeysTypeOK /\ mode = "serving" /\ UNCHANGED <<disk, loss, audit, torn, memory, damaged, mode, blind, faults>>
  BY DEF Typed, Begin, TakeMutex, RefuseUnknown, Waiting, files, inner
<1>2. CASE Begin(c, op, k)
  <2>1. /\ calls' = [calls EXCEPT ![c] = [op |-> op, key |-> k, state |-> "waiting"]] /\ txn' = txn
    BY <1>2 DEF Begin, inner
  <2>2. /\ calls' \in [Calls -> [op : Events, key : Keys,
                                 state : {"unborn", "waiting", "writing", "ok", "failed",
                                          "refused", "lost"}]]
        /\ \A d \in Calls : calls'[d].state = "writing" => calls[d].state = "writing"
    BY <1>1, <2>1 DEF KeysTypeOK, Keys
  <2> QED
    BY <1>1, <2>1, <2>2 DEF Typed, Settling, KeysTypeOK
<1>3. CASE TakeMutex(c)
  <2>1. /\ txn = Nil /\ calls' = Become(c, "writing")
        /\ txn' = [call |-> c, at |-> "intent", before |-> memory, after |-> Mutated(c)]
    BY <1>3 DEF TakeMutex
  <2>2. PICK b \in Snapshots, a \in Snapshots : b = memory /\ a = Mutated(c)
    BY <1>1, MutatedFacts DEF KeysTypeOK
  <2>3. txn' = [call |-> c, at |-> "intent", before |-> b, after |-> a]
    BY <2>1, <2>2
  <2>4. txn' \in Commits /\ txn' # Nil /\ txn'.call = c
    BY <2>3, NoneAssumption DEF Commits, Stages
  <2>5. /\ calls' \in [Calls -> [op : Events, key : Keys,
                                 state : {"unborn", "waiting", "writing", "ok", "failed",
                                          "refused", "lost"}]]
        /\ \A d \in Calls \ {c} : calls'[d] = calls[d]
    BY <1>1, <2>1, BecomeFacts
  <2>6. \A d \in Calls : calls'[d].state = "writing" => d = c
    BY <1>1, <2>1, <2>5 DEF KeysTypeOK
  <2> QED
    BY <1>1, <2>4, <2>5, <2>6 DEF Typed, Settling, KeysTypeOK
<1>4. CASE RefuseUnknown(c)
  <2>1. txn' = txn /\ calls' = Become(c, "refused")
    BY <1>4 DEF RefuseUnknown, inner
  <2>2. /\ calls' \in [Calls -> [op : Events, key : Keys,
                                 state : {"unborn", "waiting", "writing", "ok", "failed",
                                          "refused", "lost"}]]
        /\ calls'[c].state = "refused"
        /\ \A d \in Calls \ {c} : calls'[d] = calls[d]
    BY <1>1, <2>1, BecomeFacts
  <2> QED
    BY <1>1, <2>1, <2>2 DEF Typed, Settling, KeysTypeOK
<1> QED
  BY <1>2, <1>3, <1>4

LEMMA DieKeepsTypes == ASSUME Typed, KeysCrash \/ PowerLoss PROVE Typed'
<1>1. KeysTypeOK /\ Die /\ torn' \in BOOLEAN /\ faults' \in 0..MaxErrors /\ UNCHANGED <<audit, blind>>
  BY FaultTyped, DieFacts DEF Typed, KeysCrash, PowerLoss, KeysTypeOK
<1>2. disk' \in Directories /\ disk' \in loss' /\ loss' \subseteq loss
  BY <1>1 DEF KeysCrash, PowerLoss, Replaced, KeysTypeOK
<1> QED
  BY <1>1, <1>2, DieFacts DEF Typed, Settling, KeysTypeOK

LEMMA TypedStep == ASSUME Typed, [KeysNext]_keysVars PROVE Typed'
<1>1. "create" \in Events
  BY DEF Events
<1>2. ASSUME NEW c \in Calls, NEW k \in Calls, NEW op \in Events, Begin(c, op, k) PROVE Typed'
  BY <1>2, CallKeepsTypes
<1>3. ASSUME NEW c \in Calls, TakeMutex(c) \/ RefuseUnknown(c) PROVE Typed'
  BY <1>1, <1>3, CallKeepsTypes
<1>4. CASE CommitStep
  BY <1>4, CommitKeepsTypes
<1>5. CASE RecordRequest
  <2>1. /\ KeysTypeOK /\ UNCHANGED <<disk, audit, memory, damaged, mode, txn, calls, blind>>
        /\ torn' \in BOOLEAN /\ (loss' = loss \/ loss' = {disk}) /\ faults' \in 0..MaxErrors
    BY <1>5, FaultTyped DEF Typed, RecordRequest, inner, KeysTypeOK
  <2> QED
    BY <2>1 DEF Typed, Settling, KeysTypeOK
<1>6. CASE KeysCrash \/ PowerLoss
  BY <1>6, DieKeepsTypes
<1>7. NoKeys \in Snapshots /\ disk.snapshot \in Snapshots
  BY BoundsAssumption DEF NoKeys, Snapshots, Typed, KeysTypeOK, Directories
<1>8. CASE LoadKeys \/ LoadBlind
  BY <1>7, <1>8, FaultTyped, StartKeepsTypes DEF Typed, KeysTypeOK, LoadKeys, LoadBlind
<1>9. CASE LoadError
  <2>1. /\ KeysTypeOK /\ txn = Nil /\ mode' = "serving" /\ damaged' = TRUE /\ memory' \in Snapshots
        /\ UNCHANGED <<disk, loss, audit, torn, txn, calls, blind>> /\ faults' \in 0..MaxErrors
    BY <1>7, <1>9, FaultTyped DEF Typed, LoadError, files
  <2>2. \A c \in Calls : calls[c].state # "writing"
    BY <2>1 DEF KeysTypeOK
  <2> QED
    BY <2>1, <2>2 DEF Typed, Settling, KeysTypeOK
<1>10. CASE SettleLine \/ SettleIntent
  BY <1>10, SettleKeepsTypes
<1>11. CASE UNCHANGED keysVars
  BY <1>11 DEF keysVars, files, inner, Typed, Settling, KeysTypeOK
<1> QED
  BY <1>2, <1>3, <1>4, <1>5, <1>6, <1>8, <1>9, <1>10, <1>11 DEF KeysNext

LEMMA BlindStays == ASSUME blind, [KeysNext]_keysVars PROVE blind'
BY DEF KeysNext, Begin, TakeMutex, RefuseUnknown, CommitStep, WriteIntent, WriteSnapshot, WriteError, AppendEvent,
       RemoveIntent, Publish, Rollback, AppendAborted, DiscardIntent, Rest, RecordRequest, KeysCrash, PowerLoss, Die,
       LoadKeys, LoadBlind, LoadError, SettleLine, SettleIntent, keysVars

-----------------------------------------------------------------------------
Inv == IInv /\ MemoryInv

LEMMA InvInit == ASSUME KeysInit PROVE Inv
<1>1. NoKeys \in Snapshots /\ Named(NoKeys) = {}
  BY BoundsAssumption DEF NoKeys, Snapshots, Named
<1>2. KeysTypeOK
  <2>1. calls \in [Calls -> [op : Events, key : Keys,
                             state : {"unborn", "waiting", "writing", "ok", "failed",
                                      "refused", "lost"}]]
    BY DEF KeysInit, Events, Keys
  <2>2. \A c \in Calls : calls[c].state = "unborn"
    BY DEF KeysInit
  <2>3. disk \in Directories /\ disk \in loss /\ \A d \in loss : d \in Directories
    BY <1>1 DEF KeysInit, Directories
  <2>4. audit \in Seq(Lines) /\ faults \in 0..MaxErrors
    BY BoundsAssumption DEF KeysInit
  <2>5. /\ torn \in BOOLEAN /\ blind \in BOOLEAN /\ memory \in Snapshots /\ damaged \in BOOLEAN
        /\ mode \in {"down", "audit", "aborted", "remove", "serving"}
        /\ txn \in Commits \cup {Nil}
    BY <1>1 DEF KeysInit
  <2> QED
    BY <2>1, <2>2, <2>3, <2>4, <2>5 DEF KeysTypeOK
<1>3. \A c \in Calls : calls[c].state = "unborn"
  BY DEF KeysInit
<1>4. Holds(NoKeys) /\ ToldBut(NoKeys, {})
  BY <1>1, <1>3 DEF Holds, ToldBut
<1>5. DirectoriesInv
  BY <1>4 DEF KeysInit, DirectoriesInv
<1>6. CommitInv /\ RestInv /\ StartInv
  BY DEF KeysInit, CommitInv, RestInv, StartInv
<1>7. MemoryInv
  BY <1>3, <1>4 DEF KeysInit, MemoryInv
<1> QED
  BY <1>2, <1>5, <1>6, <1>7 DEF Inv, IInv

LEMMA InvStutter == ASSUME Inv, UNCHANGED keysVars PROVE Inv'
<1>1. UNCHANGED <<disk, loss, audit, torn, memory, damaged, mode, txn, calls, blind, faults>>
  BY DEF keysVars, files, inner
<1>2. NoneAcknowledged /\ LogKept
  BY <1>1, LogSame DEF NoneAcknowledged
<1>3. KeysTypeOK'
  BY <1>1 DEF Inv, IInv, KeysTypeOK
<1>4. DirectoriesInv'
  BY <1>1, <1>2, DirectoriesKept DEF Inv
<1>5. CommitInv'
  <2> SUFFICES ASSUME txn # Nil PROVE HolderInv' /\ StageInv'
    BY <1>1 DEF CommitInv
  <2>1. HolderInv'
    BY <1>1, <1>2, HolderKept DEF Inv
  <2>2. StageInv
    BY DEF Inv, IInv, CommitInv
  <2> QED
    BY <1>1, <2>1, <2>2 DEF StageInv, Intent, Told
<1>6. RestInv' /\ StartInv'
  BY <1>1 DEF Inv, IInv, RestInv, Serving, StartInv, Told
<1>7. MemoryInv'
  BY <1>1, <1>2, MemorySame DEF Inv
<1> QED
  BY <1>3, <1>4, <1>5, <1>6, <1>7 DEF Inv, IInv

LEMMA InvStep == ASSUME Inv, [KeysNext]_keysVars, ~blind' PROVE Inv'
<1>1. ASSUME NEW c \in Calls, NEW k \in Calls, NEW op \in Events, Begin(c, op, k) PROVE Inv'
  BY <1>1, BeginKeeps, MemoryOfCalls DEF Inv
<1>2. ASSUME NEW c \in Calls, TakeMutex(c) PROVE Inv'
  <2>1. "create" \in Events
    BY DEF Events
  <2> QED
    BY <1>2, <2>1, TakeMutexKeeps, MemoryOfCalls DEF Inv
<1>3. ASSUME NEW c \in Calls, RefuseUnknown(c) PROVE Inv'
  <2>1. "create" \in Events
    BY DEF Events
  <2> QED
    BY <1>3, <2>1, RefuseUnknownKeeps, MemoryOfCalls DEF Inv
<1>4. CASE CommitStep
  <2>1. IInv'
    BY <1>4, WriteIntentKeeps, WriteSnapshotKeeps, WriteErrorKeeps, AppendEventKeeps,
       RemoveIntentKeeps, PublishKeeps, RollbackKeeps, AppendAbortedKeeps, DiscardIntentKeeps
       DEF CommitStep, Inv
  <2>2. MemoryInv'
    BY <1>4, MemoryOfCommit, MemoryOfPublish DEF Inv
  <2> QED
    BY <2>1, <2>2 DEF Inv
<1>5. CASE RecordRequest
  BY <1>5, RecordRequestKeeps, MemoryOfRequest DEF Inv
<1>6. CASE KeysCrash
  BY <1>6, CrashKeeps, MemoryOfDie DEF Inv, KeysCrash
<1>7. CASE PowerLoss
  BY <1>7, PowerLossKeeps, MemoryOfDie DEF Inv, PowerLoss
<1>8. CASE LoadKeys \/ LoadError
  BY <1>8, LoadKeeps, LoadErrorKeeps, MemoryOfLoad DEF Inv
<1>9. CASE SettleLine \/ SettleIntent
  BY <1>9, SettleLineKeeps, SettleIntentKeeps, MemoryOfSettle DEF Inv
<1>10. CASE UNCHANGED keysVars
  BY <1>10, InvStutter
<1>11. ~LoadBlind
  BY DEF LoadBlind
<1> QED
  BY <1>1, <1>2, <1>3, <1>4, <1>5, <1>6, <1>7, <1>8, <1>9, <1>10, <1>11 DEF KeysNext

(* What a start that misses the snapshot makes of the store is no business   *)
(* of the invariant.                                                       *)
LEMMA Invariance == KeysSpec => [](~blind => Inv)
<1>1. KeysInit => Inv
  BY InvInit
<1>2. blind /\ [KeysNext]_keysVars => blind'
  BY BlindStays
<1>3. Inv /\ [KeysNext]_keysVars => blind' \/ Inv'
  BY InvStep
<1> QED
  BY <1>1, <1>2, <1>3, PTL DEF KeysSpec

-----------------------------------------------------------------------------
(* Types, and one commit at a time: the writer mutex of keys.rs is held by *)
(* the one call that is being written, in a process that serves.           *)
THEOREM KeysTyped == KeysSpec => []KeysTypeOK
<1>1. KeysInit => Typed
  BY InvInit DEF KeysInit, Inv, IInv, Typed, Settling
<1>2. Typed /\ [KeysNext]_keysVars => Typed'
  BY TypedStep
<1>3. Typed => KeysTypeOK
  BY DEF Typed
<1> QED
  BY <1>1, <1>2, <1>3, PTL DEF KeysSpec

(* No lost update, and revocation is final: what create and ban answered   *)
(* with success is in every directory a power loss may leave; a banned key *)
(* is never authenticated again, whatever errors and restarts came between,*)
(* unless a start missed the snapshot.                                     *)
THEOREM AcknowledgedHoldsAlways == KeysSpec => []AcknowledgedHolds
<1>1. ASSUME Inv PROVE AcknowledgedHolds
  <2> SUFFICES ASSUME NEW c \in Calls, calls[c].state = "ok"
               PROVE  /\ \A d \in loss : Effective(d.snapshot, c)
                      /\ IF calls[c].op = "ban" THEN ~Authenticates(calls[c].key)
                         ELSE Serving => Authenticates(c) \/ memory.bannedBy[c] # 0
    BY DEF AcknowledgedHolds
  <2>1. \A d \in loss : Effective(d.snapshot, c)
    BY <1>1 DEF Inv, IInv, DirectoriesInv, Holds
  <2>2. Serving => Effective(memory, c)
    BY <1>1 DEF Inv, MemoryInv, Holds, Serving
  <2>3. calls[c].op \in Events
    BY <1>1 DEF Inv, IInv, KeysTypeOK
  <2> QED
    BY <2>1, <2>2, <2>3 DEF Effective, Authenticates, Events
<1>2. (~blind => Inv) => AcknowledgedHolds
  BY <1>1 DEF AcknowledgedHolds
<1> QED
  BY <1>2, Invariance, PTL

(* A healthy store, also one that settled an intent at its start, serves no *)
(* key and refuses none of which append_audit_locked left no line, unless a  *)
(* start missed the snapshot.                                               *)
THEOREM ServedIsAuditedHolds == KeysSpec => []ServedIsAudited
<1>1. ASSUME Inv, Serving PROVE /\ \A k \in memory.issued : Told(k)
                                /\ \A k \in Keys : memory.bannedBy[k] # 0 => Told(memory.bannedBy[k])
  <2>1. ToldBut(memory, {})
    BY <1>1 DEF Inv, MemoryInv, Serving
  <2> QED
    BY <2>1 DEF ToldBut, Named
<1>2. (~blind => Inv) => ServedIsAudited
  BY <1>1 DEF ServedIsAudited
<1> QED
  BY <1>2, Invariance, PTL

(* At every step of a commit in a healthy store the snapshot is the one    *)
(* before or the one after, so that reconcile_pending can tell which, if   *)
(* no start has missed the snapshot.                                       *)
THEOREM TellsApartHolds == KeysSpec => []TellsApart
<1>1. ASSUME Inv, Serving, disk.pending # Nil
      PROVE  disk.snapshot \in {disk.pending.before, disk.pending.after}
  <2>1. txn # Nil /\ HolderInv /\ StageInv /\ KeysTypeOK
    BY <1>1 DEF Inv, IInv, RestInv, CommitInv
  <2>2. txn.at \in Stages /\ disk \in loss
    BY <2>1, CommitTyped DEF KeysTypeOK
  <2>3. txn.at \notin {"intent", "publish"} /\ disk.pending = Intent
    BY <1>1, <2>1 DEF StageInv, Serving
  <2>4. disk.snapshot \in {txn.before, txn.after}
    BY <1>1, <2>1, <2>2, <2>3 DEF StageInv, Serving, Stages
  <2> QED
    BY <2>3, <2>4 DEF Intent
<1>2. (~blind => Inv) => TellsApart
  BY <1>1 DEF TellsApart
<1> QED
  BY <1>2, Invariance, PTL
=============================================================================
