----------------------------- MODULE PlaneProofs -----------------------------
(***************************************************************************)
(* Proofs about the admission plane, for any applications, requests,       *)
(* policies and bounds.  Two arguments are kept apart.  That nothing is of *)
(* both kinds rests on the startup: it looks at the seed after everything  *)
(* visible is known, and a submission looks at it again (Unseeded).  That  *)
(* the stores never run ahead of each other rests on every writer knowing  *)
(* what the earlier stores hold (SubmitKnows, Converged), and on the index *)
(* being written as it was read (IndexIsLoaded); a read of the index that  *)
(* fails would drop claims, so these theorems exclude it.                  *)
(***************************************************************************)
EXTENDS AdmissionPlane, TLAPS

(* The claims a writer starts from are those of the file. *)
IndexIsLoaded == registry = index

(* A half-written claim is of an application that has none, and the one of
   a submission is its own. *)
HalfIsNew ==
    half # None =>
        /\ index[half] = None /\ binding[half] \in Kinds
        /\ submit.pc = "claim" => half = submit.request.app /\ binding[half] = "wasm"

(* What a submission has already written. *)
SubmitKnows ==
    /\ submit.pc \in {"claim", "proof", "control"} => witness[submit.request] = "visible"
    /\ submit.pc \in {"proof", "control"} => index[submit.request.app] = "wasm"
    /\ submit.pc = "control" => submit.request \in proofs

(* A startup that has converged has a row for every visible version. *)
Converged == phase \in {"check", "project"} => Visible \subseteq proofs

(* Nothing the seed routes to celld is visible once it was looked for. *)
Unseeded ==
    /\ phase \in {"project", "up"} => \A r \in Visible : r.app \notin seed
    /\ submit # NoSubmit => submit.request.app \notin seed

KindsInv == TypeOK /\ Unseeded
StoresInv == IndexIsLoaded /\ HalfIsNew /\ SubmitKnows /\ Converged /\ Projected

-----------------------------------------------------------------------------
(* Types.                                                                  *)

LEMMA NamesApart ==
    /\ \A a \in Apps : a # None
    /\ "wasm" # None /\ "celld" # None /\ "wasm" \in Kinds /\ "celld" \in Kinds
    /\ \A r \in Requests : r.app \in Apps
BY PlaneAssumption DEF Kinds, Request

LEMMA SubmitTyped ==
    ASSUME TypeOK, submit # NoSubmit
    PROVE  /\ phase = "up" /\ submit.request \in Requests
           /\ submit.request.app \in Apps
           /\ submit.pc \in {"gated", "claim", "proof", "control"}
           /\ \A pc \in {"gated", "claim", "proof", "control"} :
                /\ [submit EXCEPT !.pc = pc] \in Submit
                /\ [submit EXCEPT !.pc = pc] # NoSubmit
                /\ [submit EXCEPT !.pc = pc].pc = pc
                /\ [submit EXCEPT !.pc = pc].request = submit.request
<1>1. submit \in [pc : {"gated", "claim", "proof", "control"}, request : Requests]
      /\ phase = "up"
  BY DEF TypeOK, Submit
<1>2. submit.request.app \in Apps
  BY <1>1, NamesApart
<1>3. SUFFICES ASSUME NEW pc \in {"gated", "claim", "proof", "control"}
               PROVE  /\ [submit EXCEPT !.pc = pc] \in Submit
                      /\ [submit EXCEPT !.pc = pc] # NoSubmit
                      /\ [submit EXCEPT !.pc = pc].pc = pc
                      /\ [submit EXCEPT !.pc = pc].request = submit.request
  BY <1>1, <1>2
<1>4. [submit EXCEPT !.pc = pc] \in [pc : {"gated", "claim", "proof", "control"},
                                     request : Requests]
  BY <1>1
<1>5. [submit EXCEPT !.pc = pc].pc = pc /\ pc # "none"
  BY <1>1
<1> QED
  BY <1>1, <1>4, <1>5 DEF Submit, NoSubmit

LEMMA AtStep ==
    ASSUME TypeOK, submit.pc # "none"
    PROVE  submit # NoSubmit
BY DEF NoSubmit

Counts == [reseeds : 0..MaxReseeds, installs : 0..MaxInstalls, faults : 0..MaxFaults]

LEMMA CountsTyped ==
    ASSUME TypeOK
    PROVE  /\ counts.faults < MaxFaults => [counts EXCEPT !.faults = @ + 1] \in Counts
           /\ counts.reseeds < MaxReseeds => [counts EXCEPT !.reseeds = @ + 1] \in Counts
           /\ counts.installs < MaxInstalls => [counts EXCEPT !.installs = @ + 1] \in Counts
BY PlaneAssumption DEF TypeOK, Counts

LEMMA GateTyped ==
    ASSUME TypeOK
    PROVE  Gate \in [enabled : BOOLEAN, record : Record \cup {None}]
<1> DEFINE matches == record # None /\ identity # None /\ record.pin = identity
<1>1. (switch /\ matches) \in BOOLEAN
  OBVIOUS
<1>2. (IF matches THEN record ELSE None) \in Record \cup {None}
  BY DEF TypeOK
<1> HIDE DEF matches
<1>3. [enabled |-> switch /\ matches, record |-> IF matches THEN record ELSE None]
         \in [enabled : BOOLEAN, record : Record \cup {None}]
  BY <1>1, <1>2
<1> QED
  BY <1>3 DEF Gate, matches

LEMMA LoadTyped ==
    ASSUME TypeOK, LoadRegistry
    PROVE  registry' \in Claims /\ counts' \in Counts
BY CountsTyped DEF LoadRegistry, TypeOK, Counts, NoClaims, Claims

LEMMA WriteBindingTyped ==
    ASSUME TypeOK, NEW a \in Apps, NEW kind \in Kinds, WriteBinding(a, kind)
    PROVE  /\ binding' \in Claims /\ index' \in Claims /\ registry' \in Claims
           /\ half' \in Apps
BY DEF WriteBinding, TypeOK, Claims

LEMMA WriteIndexTyped ==
    ASSUME TypeOK, WriteIndex
    PROVE  /\ binding' \in Claims /\ index' \in Claims /\ registry' \in Claims
           /\ half' = None
<1>1. half \in Apps /\ binding[half] \in Kinds \cup {None}
  BY DEF WriteIndex, TypeOK, Claims
<1> QED
  BY <1>1 DEF WriteIndex, TypeOK, Claims

LEMMA FenceTyped == ASSUME TypeOK, Fence, submit = NoSubmit PROVE TypeOK'
BY DEF Fence, nodeFiles, stores, TypeOK

LEMMA StartupTyped ==
    ASSUME TypeOK, Boot \/ Recover \/ Merge \/ Converge \/ Check \/ Project
    PROVE  TypeOK'
<1>1. submit = NoSubmit /\ submit' = NoSubmit
  <2>1. phase # "up"
    BY DEF Boot, Recover, Merge, Converge, Check, Project
  <2>2. submit = NoSubmit
    BY <2>1 DEF TypeOK
  <2> QED
    BY <2>2 DEF Boot, Recover, Merge, Converge, Check, Project, Fence
<1>2. submit.pc = "none"
  BY <1>1 DEF NoSubmit
<1>3. CASE Boot
  <2>1. half = None
    BY <1>2, <1>3 DEF Boot, TypeOK
  <2> QED
    BY <1>1, <1>3, <2>1, GateTyped DEF Boot, nodeFiles, stores, TypeOK, StartupPhases
<1>4. CASE Recover
  <2>1. witness' \in [Requests -> {"none", "pending", "visible"}]
    BY <1>4 DEF Recover, TypeOK
  <2>2. registry' \in Claims /\ counts' \in Counts
    BY <1>4, LoadTyped DEF Recover
  <2>3. half = None
    BY <1>2, <1>4 DEF Recover, TypeOK
  <2> QED
    BY <1>1, <1>4, <2>1, <2>2, <2>3 DEF Recover, nodeFiles, TypeOK, StartupPhases, Counts
<1>5. CASE Merge \/ Converge
  <2>1. /\ binding' \in Claims /\ index' \in Claims /\ registry' \in Claims
        /\ half' \in Apps \cup {None}
        /\ half' # None => phase' \in {"merge", "converge"}
        /\ phase' \in StartupPhases
    <3>1. CASE \E a \in Apps, kind \in Kinds : WriteBinding(a, kind) /\ phase' = phase
      BY <1>5, <3>1, WriteBindingTyped DEF Merge, Converge, StartupPhases
    <3>2. CASE WriteIndex /\ phase' = phase
      BY <1>5, <3>2, WriteIndexTyped DEF Merge, Converge, StartupPhases
    <3>3. CASE /\ half = None /\ phase' \in {"converge", "check"}
               /\ UNCHANGED <<binding, index, registry, half>>
      BY <3>3 DEF TypeOK, StartupPhases
    <3>4. \A r \in Visible : r.app \in Apps
      BY NamesApart DEF Visible
    <3> QED
      BY <1>5, <3>1, <3>2, <3>3, <3>4, NamesApart DEF Merge, Converge
  <2>2. proofs' \subseteq Requests
    BY <1>5 DEF Merge, Converge, WithAdmitted, Visible, TypeOK
  <2>3. UNCHANGED <<seed, record, identity, switch, witness, control, gate, submit,
                    acknowledged, replaced, counts>>
    BY <1>5 DEF Merge, Converge, nodeFiles
  <2> QED
    BY <1>1, <2>1, <2>2, <2>3 DEF TypeOK
<1>6. CASE Check
  <2>1. CASE SplitBrain
    BY <1>1, <1>6, <2>1, FenceTyped DEF Check
  <2>2. CASE ~SplitBrain
    <3>1. binding' \in Claims
      BY <1>6, <2>2 DEF Check, TypeOK, Claims
    <3>2. half = None
      BY <1>2, <1>6 DEF Check, TypeOK
    <3> QED
      BY <1>1, <1>6, <2>2, <3>1, <3>2 DEF Check, nodeFiles, TypeOK, StartupPhases
  <2> QED
    BY <2>1, <2>2
<1>7. CASE Project
  <2>1. half = None
    BY <1>2, <1>7 DEF Project, TypeOK
  <2> QED
    BY <1>1, <1>7, <2>1 DEF Project, nodeFiles, TypeOK, WithAdmitted, Visible
<1> QED
  BY <1>3, <1>4, <1>5, <1>6, <1>7

LEMMA SubmissionTyped ==
    ASSUME TypeOK, (\E r \in Requests : Accept(r)) \/ Commit \/ Register \/ SaveProof
                   \/ SaveControl \/ SubmitFails
    PROVE  TypeOK'
<1>1. NoSubmit \in Submit /\ NoSubmit.pc = "none"
  BY DEF Submit, NoSubmit
<1>2. CASE \E r \in Requests : Accept(r)
  <2>1. PICK r \in Requests : Accept(r)
    BY <1>2
  <2>2. submit' \in Submit /\ phase' = "up" /\ submit.pc = "none"
    BY <1>1, <2>1 DEF Accept, Submit
  <2>3. half = None
    BY <2>1, <2>2 DEF Accept, TypeOK
  <2>4. registry' \in Claims /\ counts' \in Counts
    BY <2>1, LoadTyped DEF Accept
  <2> QED
    BY <2>1, <2>2, <2>3, <2>4 DEF Accept, nodeFiles, stores, TypeOK, Counts
<1>3. CASE Commit
  <2>1. submit # NoSubmit
    BY <1>3, AtStep DEF Commit
  <2>2. submit' \in Submit /\ phase' = "up"
    BY <1>1, <1>3, <2>1, SubmitTyped DEF Commit
  <2>3. half = None
    BY <1>3, <2>1, SubmitTyped DEF Commit, TypeOK
  <2>4. witness' \in [Requests -> {"none", "pending", "visible"}]
    BY <1>3 DEF Commit, TypeOK
  <2> QED
    BY <1>3, <2>2, <2>3, <2>4 DEF Commit, nodeFiles, TypeOK
<1>4. CASE Register
  <2>1. submit # NoSubmit /\ phase' = "up"
    BY <1>4, AtStep, SubmitTyped DEF Register
  <2>2. /\ binding' \in Claims /\ index' \in Claims /\ registry' \in Claims
        /\ half' \in Apps \cup {None} /\ submit' \in Submit
        /\ half' # None => submit'.pc = "claim"
    <3>1. CASE WriteBinding(submit.request.app, "wasm") /\ UNCHANGED submit
      BY <1>4, <2>1, <3>1, SubmitTyped, NamesApart, WriteBindingTyped DEF Register, TypeOK
    <3>2. CASE WriteIndex /\ submit' = [submit EXCEPT !.pc = "proof"]
      BY <2>1, <3>2, SubmitTyped, WriteIndexTyped
    <3>3. CASE /\ half = None /\ submit' = [submit EXCEPT !.pc = "proof"]
               /\ UNCHANGED <<binding, index, registry, half>>
      BY <2>1, <3>3, SubmitTyped DEF TypeOK
    <3> QED
      BY <1>4, <3>1, <3>2, <3>3 DEF Register
  <2> QED
    BY <1>4, <2>1, <2>2 DEF Register, nodeFiles, TypeOK
<1>5. CASE SaveProof
  <2>1. submit # NoSubmit
    BY <1>5, AtStep DEF SaveProof
  <2>2. half = None /\ phase' = "up"
    BY <1>5, <2>1, SubmitTyped DEF SaveProof, TypeOK
  <2>3. submit' \in Submit /\ proofs' \subseteq Requests
    BY <1>5, <2>1, SubmitTyped DEF SaveProof, WithAdmitted, TypeOK
  <2> QED
    BY <1>5, <2>2, <2>3 DEF SaveProof, nodeFiles, TypeOK
<1>6. CASE SaveControl
  <2>1. submit # NoSubmit
    BY <1>6, AtStep DEF SaveControl
  <2>2. half = None /\ phase' = "up"
    BY <1>6, <2>1, SubmitTyped DEF SaveControl, TypeOK
  <2>3. control' \subseteq Requests /\ acknowledged' \subseteq Requests
    BY <1>6, <2>1, SubmitTyped DEF SaveControl, WithAdmitted, TypeOK
  <2> QED
    BY <1>1, <1>6, <2>2, <2>3 DEF SaveControl, nodeFiles, TypeOK
<1>7. CASE SubmitFails
  BY <1>1, <1>7, CountsTyped DEF SubmitFails, nodeFiles, stores, TypeOK, Counts
<1> QED
  BY <1>2, <1>3, <1>4, <1>5, <1>6, <1>7

LEMMA NodeTyped ==
    ASSUME TypeOK, MergeSplits \/ ConvergeConflicts \/ StartupFails \/ Stop \/ Crash \/ Install
                   \/ (\E a \in Apps : LoseBinding(a)) \/ (\E apps \in SUBSET Apps : Reseed(apps))
    PROVE  TypeOK'
<1>1. NoSubmit \in Submit /\ NoSubmit.pc = "none"
  BY DEF Submit, NoSubmit
<1>2. CASE MergeSplits \/ ConvergeConflicts
  <2>1. submit = NoSubmit
    BY <1>2 DEF MergeSplits, ConvergeConflicts, TypeOK
  <2> QED
    BY <1>2, <2>1, FenceTyped DEF MergeSplits, ConvergeConflicts
<1>3. CASE StartupFails
  BY <1>1, <1>3, CountsTyped DEF StartupFails, StartupPhases, nodeFiles, stores, TypeOK, Counts
<1>4. Closed \in [enabled : BOOLEAN, record : Record \cup {None}]
  BY DEF Closed
<1>5. CASE Stop
  <2>1. half = None
    BY <1>1, <1>5 DEF Stop, TypeOK
  <2> QED
    BY <1>4, <1>5, <2>1 DEF Stop, nodeFiles, stores, TypeOK
<1>6. CASE Crash
  <2>1. witness' \in [Requests -> {"none", "pending", "visible"}]
    BY <1>6 DEF Crash, TypeOK
  <2> QED
    BY <1>1, <1>4, <1>6, <2>1, CountsTyped DEF Crash, nodeFiles, TypeOK, Counts
<1>7. CASE Install
  <2>1. /\ identity' \in Identities /\ record' \in Record \cup {None} /\ switch' \in BOOLEAN
        /\ replaced' \in BOOLEAN /\ counts' \in Counts
    BY <1>7, CountsTyped DEF Install, TypeOK
  <2> QED
    BY <1>7, <2>1 DEF Install, stores, process, TypeOK, Counts
<1>8. CASE \E a \in Apps : LoseBinding(a)
  <2>1. binding' \in Claims /\ counts' \in Counts
    BY <1>8, CountsTyped DEF LoseBinding, TypeOK, Claims
  <2> QED
    BY <1>8, <2>1 DEF LoseBinding, nodeFiles, process, TypeOK, Counts
<1>9. CASE \E apps \in SUBSET Apps : Reseed(apps)
  <2>1. seed' \subseteq Apps /\ counts' \in Counts
    BY <1>9, CountsTyped DEF Reseed, TypeOK
  <2> QED
    BY <1>9, <2>1 DEF Reseed, stores, process, TypeOK, Counts
<1> QED
  BY <1>2, <1>3, <1>5, <1>6, <1>7, <1>8, <1>9

LEMMA InitTyped == Init => TypeOK
<1> SUFFICES ASSUME Init PROVE TypeOK
  OBVIOUS
<1>1. /\ NoClaims \in Claims /\ NoSubmit \in Submit /\ NoSubmit.pc = "none"
      /\ Closed \in [enabled : BOOLEAN, record : Record \cup {None}]
  BY DEF NoClaims, Claims, NoSubmit, Submit, Closed
<1>2. counts \in Counts
  BY PlaneAssumption DEF Init, Counts
<1> QED
  BY <1>1, <1>2 DEF Init, TypeOK, Counts

(* Every variable stays in its type, a process that does not serve has no  *)
(* submission in work, and a claim is half written only while it is made.  *)
THEOREM PlaneTyped == Spec => []TypeOK
<1>1. TypeOK /\ [Next]_vars => TypeOK'
  <2> SUFFICES ASSUME TypeOK, [Next]_vars PROVE TypeOK'
    OBVIOUS
  <2>1. CASE UNCHANGED vars
    BY <2>1 DEF vars, nodeFiles, stores, process, TypeOK
  <2> QED
    BY <2>1, StartupTyped, SubmissionTyped, NodeTyped DEF Next
<1> QED
  BY <1>1, InitTyped, PTL DEF Spec

-----------------------------------------------------------------------------
(* Kinds.                                                                  *)

LEMMA UnseededKept == ASSUME KindsInv, [Next]_vars PROVE Unseeded'
<1>1. CASE (\E r \in Requests : Accept(r)) \/ Commit \/ Register \/ SaveProof \/ SaveControl
           \/ SubmitFails
  <2>1. phase = "up"
    BY <1>1, AtStep, SubmitTyped
       DEF Accept, Commit, Register, SaveProof, SaveControl, SubmitFails, KindsInv
  <2>2. phase' = "up" /\ seed' = seed
    BY <1>1, <2>1 DEF Accept, Commit, Register, SaveProof, SaveControl, SubmitFails, nodeFiles
  <2>3. \A r \in Visible : r.app \notin seed
    BY <2>1 DEF KindsInv, Unseeded
  <2>4. CASE \E r \in Requests : Accept(r)
    <3>1. PICK r \in Requests : Accept(r)
      BY <2>4
    <3>2. submit'.request = r /\ r.app \notin seed /\ witness' = witness
      BY <3>1 DEF Accept, CelldByRoute, stores
    <3> QED
      BY <2>2, <2>3, <3>2 DEF Unseeded, Visible
  <2>5. CASE Commit
    <3>1. submit # NoSubmit /\ submit.request.app \notin seed /\ submit.request \in Requests
      BY <2>5, AtStep, SubmitTyped DEF Commit, KindsInv, Unseeded
    <3>2. \A r \in Requests : witness'[r] = "visible" =>
            witness[r] = "visible" \/ r = submit.request
      BY <2>5 DEF Commit, KindsInv, TypeOK
    <3>3. submit' # NoSubmit => submit'.request = submit.request
      BY <2>5, <3>1, SubmitTyped DEF Commit, KindsInv
    <3> QED
      BY <2>2, <2>3, <3>1, <3>2, <3>3 DEF Unseeded, Visible
  <2>6. CASE Register \/ SaveProof \/ SaveControl \/ SubmitFails
    <3>1. witness' = witness
      BY <2>6 DEF Register, SaveProof, SaveControl, SubmitFails, stores
    <3>2. submit' # NoSubmit => submit # NoSubmit /\ submit'.request = submit.request
      <4>1. submit # NoSubmit
        BY <2>6, AtStep DEF Register, SaveProof, SaveControl, SubmitFails, KindsInv
      <4>2. \/ submit' = NoSubmit \/ submit' = submit
            \/ \E pc \in {"proof", "control"} : submit' = [submit EXCEPT !.pc = pc]
        BY <2>6 DEF Register, SaveProof, SaveControl, SubmitFails
      <4> QED
        BY <4>1, <4>2, SubmitTyped DEF KindsInv
    <3> QED
      BY <2>2, <2>3, <3>1, <3>2 DEF KindsInv, Unseeded, Visible
  <2> QED
    BY <1>1, <2>4, <2>5, <2>6
<1>2. CASE Check
  <2>1. submit' = NoSubmit
    BY <1>2 DEF Check, Fence, KindsInv, TypeOK
  <2>2. phase' = "project" => ~SplitBrain /\ witness' = witness /\ seed' = seed
    BY <1>2 DEF Check, Fence, nodeFiles
  <2>3. phase' # "up"
    BY <1>2 DEF Check, Fence
  <2>4. ~SplitBrain => \A r \in Visible : r.app \notin seed
    BY NamesApart DEF SplitBrain, CelldByRoute, Visible
  <2> QED
    BY <2>1, <2>2, <2>3, <2>4 DEF Unseeded, Visible
<1>3. CASE Project
  <2>1. witness' = witness /\ seed' = seed /\ phase = "project" /\ submit' = NoSubmit
    BY <1>3 DEF Project, nodeFiles, KindsInv, TypeOK
  <2> QED
    BY <2>1 DEF KindsInv, Unseeded, Visible
<1>4. CASE Boot \/ Recover \/ Merge \/ MergeSplits \/ Converge \/ ConvergeConflicts
           \/ StartupFails \/ Stop \/ Crash
  <2>1. phase' \notin {"project", "up"}
    BY <1>4 DEF Boot, Recover, Merge, MergeSplits, Converge, ConvergeConflicts, StartupFails,
       Stop, Crash, Fence
  <2>2. submit' = NoSubmit
    BY <1>4 DEF Boot, Recover, Merge, MergeSplits, Converge, ConvergeConflicts, StartupFails,
       Stop, Crash, Fence, StartupPhases, KindsInv, TypeOK
  <2> QED
    BY <2>1, <2>2 DEF Unseeded
<1>5. CASE Install \/ UNCHANGED vars \/ \E a \in Apps : LoseBinding(a)
  <2>1. UNCHANGED <<seed, witness, phase, submit>>
    BY <1>5 DEF Install, LoseBinding, vars, nodeFiles, stores, process
  <2> QED
    BY <2>1 DEF KindsInv, Unseeded, Visible
<1>6. CASE \E apps \in SUBSET Apps : Reseed(apps)
  <2>1. phase' = "down" /\ submit' = NoSubmit
    BY <1>6 DEF Reseed, process, KindsInv, TypeOK
  <2> QED
    BY <2>1 DEF Unseeded
<1> QED
  BY <1>1, <1>2, <1>3, <1>4, <1>5, <1>6 DEF Next

LEMMA KindsInvariance == Spec => []KindsInv
<1>1. Init => Unseeded
  BY DEF Init, Unseeded
<1>2. KindsInv /\ [Next]_vars => Unseeded'
  BY UnseededKept
<1>3. TypeOK /\ Unseeded <=> KindsInv
  BY DEF KindsInv
<1> QED
  BY <1>1, <1>2, <1>3, PlaneTyped, PTL DEF Spec

(* A plane that serves has no application of both kinds, also if reads of  *)
(* the index fail.                                                         *)
THEOREM NeverBothKindsHolds == Spec => []NeverBothKinds
<1>1. KindsInv => NeverBothKinds
  BY DEF KindsInv, Unseeded, NeverBothKinds
<1> QED
  BY <1>1, KindsInvariance, PTL

-----------------------------------------------------------------------------
(* The order of the stores.                                                *)

IInv == TypeOK /\ StoresInv

(* Claims are only added, and by a write of the index to both.             *)
LEMMA WriteIndexAdds ==
    ASSUME IInv, WriteIndex
    PROVE  /\ half \in Apps /\ index'[half] = binding[half]
           /\ registry' = index' /\ half' = None
           /\ \A a \in Apps : index[a] # None => index'[a] = index[a]
<1>1. half \in Apps /\ half # None /\ index[half] = None /\ registry = index
  BY DEF WriteIndex, IInv, StoresInv, HalfIsNew, IndexIsLoaded, TypeOK
<1> QED
  BY <1>1 DEF WriteIndex, IInv, TypeOK, Claims

LEMMA WriteBindingAdds ==
    ASSUME IInv, NEW a \in Apps, NEW kind \in Kinds, WriteBinding(a, kind)
    PROVE  /\ half' = a /\ binding'[a] = kind /\ index'[a] = None
           /\ index' = index /\ registry' = registry
BY DEF WriteBinding, IInv, StoresInv, IndexIsLoaded, TypeOK, Claims

(* What a step may do to the stores and still keep their order.            *)
Grows ==
    /\ \A r \in Requests : witness[r] = "visible" => witness'[r] = "visible"
    /\ \A a \in Apps : index[a] # None => index'[a] = index[a]
    /\ proofs \subseteq proofs'

LEMMA SubmitKnowsKept ==
    ASSUME IInv, Grows, submit' # NoSubmit => submit' = submit
    PROVE  SubmitKnows'
<1>1. CASE submit' = NoSubmit
  BY <1>1 DEF NoSubmit, SubmitKnows
<1>2. CASE submit' = submit /\ submit # NoSubmit
  <2>1. submit.request \in Requests /\ submit.request.app \in Apps
    BY <1>2, SubmitTyped DEF IInv
  <2> QED
    BY <1>2, <2>1, NamesApart DEF IInv, StoresInv, SubmitKnows, Grows
<1> QED
  BY <1>1, <1>2

LEMMA ProjectedKept ==
    ASSUME IInv, Grows, proofs' = proofs, control' = control, acknowledged' = acknowledged
    PROVE  Projected'
<1>1. \A r \in proofs : r \in Requests /\ r.app \in Apps
  BY NamesApart DEF IInv, TypeOK
<1> QED
  BY <1>1, NamesApart DEF IInv, StoresInv, Projected, Grows

LEMMA StartupKeeps ==
    ASSUME IInv, ~ReadFaults,
           Boot \/ Recover \/ Merge \/ MergeSplits \/ Converge \/ ConvergeConflicts
           \/ Check \/ Project \/ StartupFails
    PROVE  StoresInv'
<1>1. submit = NoSubmit /\ submit' = NoSubmit
  <2>1. phase # "up"
    BY DEF Boot, Recover, Merge, MergeSplits, Converge, ConvergeConflicts, Check, Project,
       StartupFails, StartupPhases
  <2>2. submit = NoSubmit
    BY <2>1 DEF IInv, TypeOK
  <2> QED
    BY <2>2 DEF Boot, Recover, Merge, MergeSplits, Converge, ConvergeConflicts, Check, Project,
       StartupFails, Fence
<1>2. submit'.pc = "none" /\ submit.pc = "none"
  BY <1>1 DEF NoSubmit
<1>3. SubmitKnows'
  BY <1>2 DEF SubmitKnows
<1>4. CASE Boot \/ MergeSplits \/ ConvergeConflicts \/ StartupFails \/ (Check /\ SplitBrain)
  <2>1. /\ UNCHANGED <<stores, registry, acknowledged>>
        /\ half' = half \/ half' = None
        /\ phase' \notin {"check", "project"}
    BY <1>4 DEF Boot, MergeSplits, ConvergeConflicts, StartupFails, Check, Fence
  <2>2. Grows
    BY <2>1 DEF Grows, stores
  <2>3. Projected'
    BY <2>1, <2>2, ProjectedKept DEF stores
  <2>4. HalfIsNew' /\ IndexIsLoaded' /\ Converged'
    BY <1>2, <2>1 DEF stores, IInv, StoresInv, HalfIsNew, IndexIsLoaded, Converged
  <2> QED
    BY <1>3, <2>3, <2>4 DEF StoresInv
<1>5. CASE Recover
  <2>1. /\ registry' = index /\ UNCHANGED <<binding, index, proofs, control, half, acknowledged>>
        /\ phase' = "merge"
    BY <1>5 DEF Recover, LoadRegistry
  <2>2. \A r \in Requests : witness[r] = "visible" => witness'[r] = "visible"
    BY <1>5 DEF Recover
  <2>3. Grows
    BY <2>1, <2>2 DEF Grows
  <2>4. Projected'
    BY <2>1, <2>3, ProjectedKept
  <2>5. HalfIsNew' /\ IndexIsLoaded' /\ Converged'
    BY <1>2, <2>1 DEF IInv, StoresInv, HalfIsNew, IndexIsLoaded, Converged
  <2> QED
    BY <1>3, <2>4, <2>5 DEF StoresInv
<1>6. CASE Merge \/ Converge
  <2>1. /\ UNCHANGED <<witness, control, acknowledged>>
        /\ Visible' = Visible
    BY <1>6 DEF Merge, Converge, Visible
  <2>2. \A r \in Visible : r \in Requests /\ r.app \in Apps /\ witness[r] = "visible"
    BY NamesApart DEF Visible
  <2>3. CASE \E a \in Apps, kind \in Kinds : WriteBinding(a, kind) /\ UNCHANGED <<phase, proofs>>
    <3>1. PICK a \in Apps, kind \in Kinds : WriteBinding(a, kind) /\ UNCHANGED <<phase, proofs>>
      BY <2>3
    <3>2. /\ half' = a /\ binding'[a] = kind /\ index'[a] = None
          /\ index' = index /\ registry' = registry
      BY <3>1, WriteBindingAdds
    <3>3. Projected'
      BY <2>1, <3>1, <3>2, ProjectedKept DEF Grows
    <3>4. HalfIsNew' /\ IndexIsLoaded' /\ Converged'
      BY <1>2, <2>1, <3>1, <3>2 DEF IInv, StoresInv, HalfIsNew, IndexIsLoaded, Converged
    <3> QED
      BY <1>3, <3>3, <3>4 DEF StoresInv
  <2>4. CASE WriteIndex /\ UNCHANGED <<phase, proofs>>
    <3>1. /\ registry' = index' /\ half' = None
          /\ \A a \in Apps : index[a] # None => index'[a] = index[a]
      BY <2>4, WriteIndexAdds
    <3>2. Projected'
      BY <2>1, <2>4, <3>1, ProjectedKept DEF Grows
    <3>3. HalfIsNew' /\ IndexIsLoaded' /\ Converged'
      BY <2>1, <2>4, <3>1 DEF IInv, StoresInv, HalfIsNew, IndexIsLoaded, Converged
    <3> QED
      BY <1>3, <3>2, <3>3 DEF StoresInv
  <2>5. CASE Merge /\ phase' = "converge" /\ UNCHANGED <<binding, index, registry, half>>
    <3>1. proofs' = proofs
      BY <2>5 DEF Merge
    <3>2. Projected'
      BY <2>1, <2>5, <3>1, ProjectedKept DEF Grows
    <3>3. HalfIsNew' /\ IndexIsLoaded' /\ Converged'
      BY <1>2, <2>5 DEF IInv, StoresInv, HalfIsNew, IndexIsLoaded, Converged
    <3> QED
      BY <1>3, <3>2, <3>3 DEF StoresInv
  <2>6. CASE /\ Converge /\ \A r \in Visible : registry[r.app] = "wasm"
             /\ proofs' = WithAdmitted(proofs, Visible)
             /\ UNCHANGED <<binding, index, registry, half>>
    <3>1. \A r \in Visible : index[r.app] = "wasm"
      BY <2>6 DEF IInv, StoresInv, IndexIsLoaded
    <3>2. proofs' = proofs \cup Visible
      BY <2>6 DEF WithAdmitted
    <3>3. Projected'
      BY <2>1, <2>2, <2>6, <3>1, <3>2 DEF IInv, StoresInv, Projected
    <3>4. HalfIsNew' /\ IndexIsLoaded' /\ Converged'
      BY <1>2, <2>1, <2>6, <3>2 DEF IInv, StoresInv, HalfIsNew, IndexIsLoaded, Converged
    <3> QED
      BY <1>3, <3>3, <3>4 DEF StoresInv
  <2> QED
    BY <1>6, <2>2, <2>3, <2>4, <2>5, <2>6, NamesApart DEF Merge, Converge
<1>7. CASE Check /\ ~SplitBrain
  <2>1. /\ UNCHANGED <<witness, index, proofs, control, registry, half, acknowledged>>
        /\ phase = "check" /\ phase' = "project"
        /\ binding' = [a \in Apps |-> IF binding[a] = None THEN registry[a] ELSE binding[a]]
    BY <1>7 DEF Check
  <2>2. half = None
    BY <1>2, <2>1 DEF IInv, TypeOK
  <2>3. Projected'
    BY <2>1, ProjectedKept DEF Grows
  <2>4. HalfIsNew' /\ IndexIsLoaded' /\ Converged'
    BY <2>1, <2>2 DEF IInv, StoresInv, HalfIsNew, IndexIsLoaded, Converged, Visible
  <2> QED
    BY <1>3, <2>3, <2>4 DEF StoresInv
<1>8. CASE Project
  <2>1. /\ UNCHANGED <<witness, binding, index, proofs, registry, half, acknowledged>>
        /\ phase = "project" /\ phase' = "up" /\ control' = control \cup Visible
    BY <1>8 DEF Project, WithAdmitted
  <2>2. Visible \subseteq proofs
    BY <2>1 DEF IInv, StoresInv, Converged
  <2>3. Projected'
    BY <2>1, <2>2 DEF IInv, StoresInv, Projected
  <2>4. HalfIsNew' /\ IndexIsLoaded' /\ Converged'
    BY <1>2, <2>1 DEF IInv, StoresInv, HalfIsNew, IndexIsLoaded, Converged
  <2> QED
    BY <1>3, <2>3, <2>4 DEF StoresInv
<1> QED
  BY <1>4, <1>5, <1>6, <1>7, <1>8

LEMMA SubmissionKeeps ==
    ASSUME IInv, ~ReadFaults,
           (\E r \in Requests : Accept(r)) \/ Commit \/ Register \/ SaveProof \/ SaveControl
           \/ SubmitFails
    PROVE  StoresInv'
<1>1. phase = "up" /\ phase' = "up"
  BY AtStep, SubmitTyped
     DEF Accept, Commit, Register, SaveProof, SaveControl, SubmitFails, IInv
<1>2. Converged'
  BY <1>1 DEF Converged
<1>3. CASE \E r \in Requests : Accept(r)
  <2>1. /\ registry' = index /\ UNCHANGED <<stores, half, acknowledged>>
        /\ submit = NoSubmit /\ submit'.pc = "gated"
    BY <1>3 DEF Accept, LoadRegistry
  <2>2. Projected'
    BY <2>1, ProjectedKept DEF Grows, stores
  <2>3. HalfIsNew' /\ IndexIsLoaded' /\ SubmitKnows'
    BY <2>1 DEF stores, NoSubmit, IInv, StoresInv, HalfIsNew, IndexIsLoaded, SubmitKnows
  <2> QED
    BY <1>2, <2>2, <2>3 DEF StoresInv
<1>4. submit # NoSubmit => /\ submit.request \in Requests /\ submit.request.app \in Apps
                           /\ submit.pc \in {"gated", "claim", "proof", "control"}
  BY SubmitTyped DEF IInv
<1>5. CASE Commit
  <2>1. /\ UNCHANGED <<binding, index, proofs, control, registry, half, acknowledged>>
        /\ submit # NoSubmit /\ submit.pc = "gated" /\ submit.request \in Requests
    BY <1>4, <1>5, AtStep DEF Commit, IInv
  <2>2. half = None
    BY <1>1, <2>1 DEF IInv, TypeOK
  <2>3. Grows
    BY <1>5, <2>1 DEF Commit, Grows, IInv, TypeOK
  <2>4. Projected'
    BY <2>1, <2>3, ProjectedKept
  <2>5. SubmitKnows'
    <3>1. CASE witness' = [witness EXCEPT ![submit.request] = "visible"]
               /\ submit' = [submit EXCEPT !.pc = "claim"]
      <4>1. submit'.pc = "claim" /\ submit'.request = submit.request
        BY <2>1, <3>1, SubmitTyped DEF IInv
      <4>2. witness'[submit.request] = "visible"
        BY <2>1, <3>1 DEF IInv, TypeOK
      <4> QED
        BY <4>1, <4>2 DEF SubmitKnows
    <3>2. CASE submit' = NoSubmit
      BY <3>2 DEF SubmitKnows, NoSubmit
    <3> QED
      BY <1>5, <3>1, <3>2 DEF Commit
  <2>6. HalfIsNew' /\ IndexIsLoaded'
    BY <2>1, <2>2 DEF IInv, StoresInv, HalfIsNew, IndexIsLoaded
  <2> QED
    BY <1>2, <2>4, <2>5, <2>6 DEF StoresInv
<1>6. CASE Register
  <2>1. /\ UNCHANGED <<witness, proofs, control, acknowledged>>
        /\ submit # NoSubmit /\ submit.pc = "claim"
    BY <1>6, AtStep DEF Register, IInv
  <2>2. /\ witness[submit.request] = "visible"
        /\ [submit EXCEPT !.pc = "proof"].pc = "proof"
        /\ [submit EXCEPT !.pc = "proof"].request = submit.request
    BY <2>1, SubmitTyped DEF IInv, StoresInv, SubmitKnows
  <2>3. CASE WriteBinding(submit.request.app, "wasm") /\ UNCHANGED submit
    <3>1. /\ half' = submit.request.app /\ binding'[half'] = "wasm" /\ index'[half'] = None
          /\ index' = index /\ registry' = registry
      BY <1>4, <2>1, <2>3, NamesApart, WriteBindingAdds
    <3>2. Grows
      BY <2>1, <3>1 DEF Grows
    <3>3. Projected' /\ SubmitKnows'
      BY <2>1, <2>3, <3>2, ProjectedKept, SubmitKnowsKept
    <3>4. HalfIsNew' /\ IndexIsLoaded'
      BY <2>3, <3>1, NamesApart DEF IInv, StoresInv, HalfIsNew, IndexIsLoaded
    <3> QED
      BY <1>2, <3>3, <3>4 DEF StoresInv
  <2>4. CASE WriteIndex /\ submit' = [submit EXCEPT !.pc = "proof"]
    <3>1. /\ index'[half] = binding[half] /\ registry' = index' /\ half' = None
          /\ \A a \in Apps : index[a] # None => index'[a] = index[a]
      BY <2>4, WriteIndexAdds
    <3>2. half = submit.request.app /\ binding[half] = "wasm"
      BY <2>1, <2>4 DEF WriteIndex, IInv, StoresInv, HalfIsNew
    <3>3. Projected'
      BY <2>1, <3>1, ProjectedKept DEF Grows
    <3>4. SubmitKnows'
      BY <2>1, <2>2, <2>4, <3>1, <3>2 DEF SubmitKnows
    <3>5. HalfIsNew' /\ IndexIsLoaded'
      BY <3>1 DEF HalfIsNew, IndexIsLoaded
    <3> QED
      BY <1>2, <3>3, <3>4, <3>5 DEF StoresInv
  <2>5. CASE /\ half = None /\ registry[submit.request.app] = "wasm"
             /\ submit' = [submit EXCEPT !.pc = "proof"]
             /\ UNCHANGED <<binding, index, registry, half>>
    <3>1. index[submit.request.app] = "wasm"
      BY <2>5 DEF IInv, StoresInv, IndexIsLoaded
    <3>2. Projected'
      BY <2>1, <2>5, ProjectedKept DEF Grows
    <3>3. SubmitKnows'
      BY <2>1, <2>2, <2>5, <3>1 DEF SubmitKnows
    <3>4. HalfIsNew' /\ IndexIsLoaded'
      BY <2>5 DEF IInv, StoresInv, HalfIsNew, IndexIsLoaded
    <3> QED
      BY <1>2, <3>2, <3>3, <3>4 DEF StoresInv
  <2> QED
    BY <1>6, <2>3, <2>4, <2>5 DEF Register
<1>7. CASE SaveProof
  <2>1. /\ UNCHANGED <<witness, binding, index, control, registry, half, acknowledged>>
        /\ submit # NoSubmit /\ submit.pc = "proof"
        /\ proofs' = proofs \cup {submit.request}
        /\ submit' = [submit EXCEPT !.pc = "control"]
    BY <1>7, AtStep DEF SaveProof, WithAdmitted, IInv
  <2>2. /\ witness[submit.request] = "visible" /\ index[submit.request.app] = "wasm"
        /\ submit'.pc = "control" /\ submit'.request = submit.request
    BY <2>1, SubmitTyped DEF IInv, StoresInv, SubmitKnows
  <2>3. half = None
    BY <1>1, <2>1 DEF IInv, TypeOK
  <2>4. Projected'
    BY <2>1, <2>2 DEF IInv, StoresInv, Projected
  <2>5. SubmitKnows' /\ HalfIsNew' /\ IndexIsLoaded'
    BY <2>1, <2>2, <2>3 DEF IInv, StoresInv, SubmitKnows, HalfIsNew, IndexIsLoaded
  <2> QED
    BY <1>2, <2>4, <2>5 DEF StoresInv
<1>8. CASE SaveControl
  <2>1. /\ UNCHANGED <<witness, binding, index, proofs, registry, half>>
        /\ submit # NoSubmit /\ submit.pc = "control" /\ submit' = NoSubmit
        /\ control' = control \cup {submit.request}
        /\ acknowledged' = acknowledged \cup {submit.request}
    BY <1>8, AtStep DEF SaveControl, WithAdmitted, IInv
  <2>2. submit.request \in proofs
    BY <2>1 DEF IInv, StoresInv, SubmitKnows
  <2>3. half = None
    BY <1>1, <2>1 DEF IInv, TypeOK
  <2>4. Projected'
    BY <2>1, <2>2 DEF IInv, StoresInv, Projected
  <2>5. SubmitKnows' /\ HalfIsNew' /\ IndexIsLoaded'
    BY <2>1, <2>3 DEF NoSubmit, IInv, StoresInv, SubmitKnows, HalfIsNew, IndexIsLoaded
  <2> QED
    BY <1>2, <2>4, <2>5 DEF StoresInv
<1>9. CASE SubmitFails
  <2>1. UNCHANGED <<stores, registry, acknowledged>> /\ half' = None /\ submit' = NoSubmit
    BY <1>9 DEF SubmitFails
  <2>2. Projected'
    BY <2>1, ProjectedKept DEF Grows, stores
  <2>3. SubmitKnows' /\ HalfIsNew' /\ IndexIsLoaded'
    BY <2>1 DEF stores, NoSubmit, IInv, StoresInv, SubmitKnows, HalfIsNew, IndexIsLoaded
  <2> QED
    BY <1>2, <2>2, <2>3 DEF StoresInv
<1> QED
  BY <1>3, <1>5, <1>6, <1>7, <1>8, <1>9

LEMMA NodeKeeps ==
    ASSUME IInv, Stop \/ Crash \/ Install \/ (\E a \in Apps : LoseBinding(a))
                 \/ (\E apps \in SUBSET Apps : Reseed(apps)) \/ UNCHANGED vars
    PROVE  StoresInv'
<1>1. /\ UNCHANGED <<index, proofs, control, registry, acknowledged>>
      /\ submit' = submit \/ submit' = NoSubmit
      /\ half' = None \/ half' = half
  BY DEF Stop, Crash, Install, LoseBinding, Reseed, vars, nodeFiles, stores, process
<1>2. /\ \A r \in Requests : witness[r] = "visible" => witness'[r] = "visible"
      /\ phase' \in {"check", "project"} => phase' = phase /\ witness' = witness
  BY DEF Stop, Crash, Install, LoseBinding, Reseed, vars, nodeFiles, stores, process, IInv,
     TypeOK
<1>3. Grows
  BY <1>1, <1>2 DEF Grows
<1>4. Projected' /\ SubmitKnows'
  BY <1>1, <1>3, ProjectedKept, SubmitKnowsKept
<1>5. HalfIsNew'
  <2>1. CASE half' = None
    BY <2>1 DEF HalfIsNew
  <2>2. CASE half' # None
    <3>1. phase # "down"
      BY <1>1, <2>2, AtStep, SubmitTyped DEF IInv, TypeOK
    <3>2. binding' = binding /\ submit' = submit
      BY <2>2, <3>1 DEF Stop, Crash, Install, LoseBinding, Reseed, vars, stores, process
    <3> QED
      BY <1>1, <2>2, <3>2 DEF IInv, StoresInv, HalfIsNew
  <2> QED
    BY <2>1, <2>2
<1>6. IndexIsLoaded' /\ Converged'
  BY <1>1, <1>2 DEF IInv, StoresInv, IndexIsLoaded, Converged, Visible
<1> QED
  BY <1>4, <1>5, <1>6 DEF StoresInv

LEMMA StoresInvariance == ASSUME ~ReadFaults PROVE Spec => []StoresInv
<1>1. Init => StoresInv
  BY DEF Init, StoresInv, IndexIsLoaded, HalfIsNew, SubmitKnows, Converged, Projected, NoSubmit
<1>2. TypeOK /\ StoresInv /\ [Next]_vars => StoresInv'
  BY StartupKeeps, SubmissionKeeps, NodeKeeps DEF Next, IInv
<1> QED
  BY <1>1, <1>2, PlaneTyped, PTL DEF Spec

(* A row of the route registry has a visible witness and a wasm claim, a   *)
(* row of the control state one of the registry, and an acknowledged       *)
(* admission all of them, if no read of the index fails.                   *)
THEOREM ProjectedHolds == ASSUME ~ReadFaults PROVE Spec => []Projected
<1>1. StoresInv => Projected
  BY DEF StoresInv
<1> QED
  BY <1>1, StoresInvariance, PTL

-----------------------------------------------------------------------------
(* What a startup leaves, and what a submission was admitted under.        *)

(* Once a startup looked for a split brain, claims and bindings agree.     *)
BindingsAgree == phase = "project" => \A a \in Apps : index[a] \in {None, binding[a]}

LEMMA BindingsAgreeKept ==
    ASSUME IInv, BindingsAgree, [Next]_vars PROVE BindingsAgree'
<1>1. CASE Check /\ ~SplitBrain
  <2>1. /\ binding' = [a \in Apps |-> IF binding[a] = None THEN registry[a] ELSE binding[a]]
        /\ index' = index /\ registry = index
    BY <1>1 DEF Check, IInv, StoresInv, IndexIsLoaded
  <2>2. \A a \in Apps : registry[a] # None => binding[a] \in {None, registry[a]}
    BY <1>1 DEF SplitBrain
  <2> QED
    BY <2>1, <2>2 DEF BindingsAgree
<1>2. CASE \/ Boot \/ Recover \/ Merge \/ MergeSplits \/ Converge \/ ConvergeConflicts
           \/ (Check /\ SplitBrain) \/ Project \/ StartupFails
           \/ \E r \in Requests : Accept(r)
           \/ Commit \/ Register \/ SaveProof \/ SaveControl \/ SubmitFails
           \/ Stop \/ Crash \/ (\E a \in Apps : LoseBinding(a))
           \/ \E apps \in SUBSET Apps : Reseed(apps)
  <2>1. phase' # "project"
    BY <1>2, AtStep, SubmitTyped
       DEF Boot, Recover, Merge, MergeSplits, Converge, ConvergeConflicts, Check, Project,
           StartupFails, Fence, Accept, Commit, Register, SaveProof, SaveControl, SubmitFails,
           Stop, Crash, LoseBinding, Reseed, process, IInv
  <2> QED
    BY <2>1 DEF BindingsAgree
<1>3. CASE Install \/ UNCHANGED vars
  BY <1>3 DEF Install, vars, stores, process, BindingsAgree
<1> QED
  BY <1>1, <1>2, <1>3 DEF Next

(* A startup that succeeds leaves no residue, if no read of the index      *)
(* fails.                                                                  *)
THEOREM StartupConvergesHolds == ASSUME ~ReadFaults PROVE Spec => StartupConverges
<1>1. Init => BindingsAgree
  BY DEF Init, BindingsAgree
<1>2. TypeOK /\ StoresInv /\ BindingsAgree /\ [Next]_vars => BindingsAgree'
  BY BindingsAgreeKept DEF IInv
<1>3. TypeOK /\ StoresInv /\ BindingsAgree /\ [Next]_vars =>
        [phase # "up" /\ phase' = "up" =>
           /\ Visible' \subseteq control' \cap proofs'
           /\ \A a \in Apps : index'[a] \in {None, binding'[a]}]_vars
  <2> SUFFICES ASSUME TypeOK, StoresInv, BindingsAgree, Next, phase # "up", phase' = "up"
               PROVE  /\ Visible' \subseteq control' \cap proofs'
                      /\ \A a \in Apps : index'[a] \in {None, binding'[a]}
    OBVIOUS
  <2>1. Project
    BY AtStep, SubmitTyped
       DEF Next, Boot, Recover, Merge, MergeSplits, Converge, ConvergeConflicts, Check,
           StartupFails, Fence, Accept, Commit, Register, SaveProof, SaveControl, SubmitFails,
           Stop, Crash, Install, LoseBinding, Reseed, process
  <2>2. /\ UNCHANGED <<witness, binding, index, proofs>>
        /\ phase = "project" /\ control' = control \cup Visible /\ Visible' = Visible
    BY <2>1 DEF Project, WithAdmitted, Visible
  <2> QED
    BY <2>2 DEF StoresInv, Converged, BindingsAgree
<1>4. Spec => [](TypeOK /\ StoresInv)
  BY StoresInvariance, PlaneTyped, PTL
<1> QED
  BY <1>1, <1>2, <1>3, <1>4, PTL DEF Spec, StartupConverges

(* The record a gate carries names the identity it was evaluated with.     *)
GateNamesIdentity == gate.record # None /\ ~replaced => gate.record.pin = identity

(* What the submission in work was let in under.                           *)
Passed ==
    LET r == submit.request IN
    submit.pc = "gated" =>
        /\ gate.enabled
        /\ r.pin = gate.record.pin \/ (r.policy = None /\ replaced)
        /\ r.policy \in {None, gate.record.policy}

LEMMA PassedKept ==
    ASSUME TypeOK, GateNamesIdentity, Passed, [Next]_vars
    PROVE  GateNamesIdentity' /\ Passed'
<1>1. NoSubmit.pc = "none" /\ Closed.record = None
  BY DEF NoSubmit, Closed
<1>2. CASE Boot
  <2>1. submit' = NoSubmit /\ gate' = Gate /\ identity' = identity
    BY <1>2 DEF Boot, nodeFiles, TypeOK
  <2>2. Gate.record # None => Gate.record.pin = identity
    BY DEF Gate
  <2> QED
    BY <1>1, <2>1, <2>2 DEF GateNamesIdentity, Passed
<1>3. CASE Stop \/ Crash
  <2>1. submit' = NoSubmit /\ gate' = Closed
    BY <1>3 DEF Stop, Crash
  <2> QED
    BY <1>1, <2>1 DEF GateNamesIdentity, Passed
<1>4. CASE \E r \in Requests : Accept(r)
  <2>1. PICK r \in Requests : Accept(r)
    BY <1>4
  <2>2. UNCHANGED <<gate, identity, replaced>>
    BY <2>1 DEF Accept, nodeFiles
  <2>3. /\ submit'.request = r /\ gate.enabled /\ gate.record # None
        /\ r.pin = identity
        /\ r.policy # None => gate.record.policy = r.policy /\ gate.record.pin = r.pin
    BY <2>1 DEF Accept, PassesGate, PassesIdentity, GateOpen
  <2> QED
    BY <2>2, <2>3 DEF GateNamesIdentity, Passed
<1>5. CASE Commit \/ Register \/ SaveProof \/ SaveControl
  <2>1. submit # NoSubmit /\ UNCHANGED <<gate, identity, replaced>>
    BY <1>5, AtStep DEF Commit, Register, SaveProof, SaveControl, nodeFiles
  <2>2. \/ submit' = NoSubmit \/ submit' = submit
        \/ \E pc \in {"claim", "proof", "control"} : submit' = [submit EXCEPT !.pc = pc]
    BY <1>5 DEF Commit, Register, SaveProof, SaveControl
  <2>3. submit'.pc = "gated" => submit' = submit
    BY <1>1, <2>1, <2>2, SubmitTyped
  <2> QED
    BY <2>1, <2>3 DEF GateNamesIdentity, Passed
<1>6. CASE \/ Recover \/ Merge \/ MergeSplits \/ Converge \/ ConvergeConflicts
           \/ Check \/ Project \/ StartupFails \/ SubmitFails
           \/ (\E a \in Apps : LoseBinding(a)) \/ (\E apps \in SUBSET Apps : Reseed(apps))
           \/ UNCHANGED vars
  <2>1. /\ UNCHANGED <<gate, identity, replaced>>
        /\ submit' = NoSubmit \/ submit' = submit
    BY <1>6 DEF Recover, Merge, MergeSplits, Converge, ConvergeConflicts, Check, Project,
       StartupFails, SubmitFails, LoseBinding, Reseed, Fence, vars, nodeFiles, process
  <2> QED
    BY <1>1, <2>1 DEF GateNamesIdentity, Passed
<1>7. CASE Install
  <2>1. /\ UNCHANGED <<gate, submit>>
        /\ replaced' = TRUE \/ UNCHANGED <<identity, replaced>>
    BY <1>7 DEF Install, process
  <2> QED
    BY <2>1 DEF GateNamesIdentity, Passed
<1> QED
  BY <1>2, <1>3, <1>4, <1>5, <1>6, <1>7 DEF Next

(* What becomes visible while the node serves is what its gate accepted,   *)
(* also if reads of the index fail.                                        *)
THEOREM AdmittedIsAcceptedHolds == Spec => AdmittedIsAccepted
<1>1. Init => GateNamesIdentity /\ Passed
  BY DEF Init, GateNamesIdentity, Passed, Closed, NoSubmit
<1>2. TypeOK /\ GateNamesIdentity /\ Passed /\ [Next]_vars => GateNamesIdentity' /\ Passed'
  BY PassedKept
<1>3. TypeOK /\ Passed /\ [Next]_vars =>
        [\A r \in Visible' \ Visible : phase = "up" =>
           /\ gate.enabled
           /\ r.pin = gate.record.pin \/ (r.policy = None /\ replaced)
           /\ r.policy \in {None, gate.record.policy}]_vars
  <2> SUFFICES ASSUME TypeOK, Passed, Next, NEW r \in Visible' \ Visible, phase = "up"
               PROVE  /\ gate.enabled
                      /\ r.pin = gate.record.pin \/ (r.policy = None /\ replaced)
                      /\ r.policy \in {None, gate.record.policy}
    OBVIOUS
  <2>1. witness' # witness
    BY DEF Visible
  <2>2. Commit \/ Crash
    BY <2>1 DEF Next, Boot, Recover, Merge, MergeSplits, Converge, ConvergeConflicts, Check,
       Project, StartupFails, Fence, Accept, Register, SaveProof, SaveControl, SubmitFails,
       Stop, Install, LoseBinding, Reseed, stores
  <2>3. r \in Requests /\ witness[r] # "visible" /\ witness'[r] = "visible"
    BY DEF Visible
  <2>4. Commit
    BY <2>2, <2>3 DEF Crash, TypeOK
  <2>5. r = submit.request
    BY <2>3, <2>4 DEF Commit, TypeOK
  <2> QED
    BY <2>4, <2>5 DEF Commit, Passed
<1> QED
  BY <1>1, <1>2, <1>3, PlaneTyped, PTL DEF Spec, AdmittedIsAccepted
=============================================================================
