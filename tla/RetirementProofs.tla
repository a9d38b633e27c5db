-------------------------- MODULE RetirementProofs --------------------------
(***************************************************************************)
(* Proofs about the retirement of replaced executions, for any versions,   *)
(* grants, deadlines, clocks and faults: the route is never drained, and   *)
(* what is shown as retired has its receipt; and, from the mark "The       *)
(* watchdog" on, about the resource watchdog, for any processes, pids and  *)
(* limits.                                                                 *)
(*                                                                         *)
(* A mutation is saved to three files one after the other.  The inductive  *)
(* invariant says what each file may hold of it (SavingInv): the control   *)
(* state and its records agree before they are written, and a file that    *)
(* is still the old one has a shorter outbox of the same drains            *)
(* (Extends).  A command id stands for one drain because an event is       *)
(* planned once, and once more for every fault that lost its record        *)
(* (Planned).                                                              *)
(*                                                                         *)
(* That retirement implements Succession needs the control file to         *)
(* remember who had the route: leases are held by exactly the versions     *)
(* that had it (HistoryInv), and a mutation on its way is one of four      *)
(* changes (Moves).                                                        *)
(***************************************************************************)
EXTENDS Retirement, Watchdog, Integers, TLAPS

Effects == [cmd : Ids, phase : {"stopping", "stopped"}, forcedAt : Time \cup {None}]

(* The event that c projects has left an execution without a record in rs. *)
Owed(c, rs) ==
    LET v == Current(c.generation - 1) IN
    v # None /\ v # Current(c.generation) /\ ~Tracked(rs, v) /\ Deadlines[v] # None

(* Every drain is planned once for its event, and once more for each fault that
   lost the record of the last one: the bound of the command ids. *)
Spent(c, rs)   == IF Owed(c, rs) THEN Len(c.outbox) + 1 ELSE Len(c.outbox)
Earned(c)      == IF c.generation = 0 THEN 0 ELSE c.generation - 1
Planned(c, rs) == Spent(c, rs) <= Earned(c) + faults

(* The route, and every execution that is drained, was activated and so holds a
   lease; the one with the route is not drained. *)
ControlInv(c) ==
    /\ c \in ControlStates
    /\ c.generation <= Len(grants) /\ c.route = Current(c.generation) /\ Valid(c)
    /\ \A i \in 1..c.generation : grants[i] \in c.leased
    /\ \A i \in DOMAIN c.outbox : c.outbox[i].version \in c.leased /\ c.outbox[i].version # c.route
    /\ \A v \in Versions : c.lifecycle[v] = "retired" => v \in Answered

(* A record is of a drain in the outbox of c; its receipt was written. *)
OfOutbox(rs, c) == \A r \in rs : r.cmd \in DOMAIN c.outbox /\ c.outbox[r.cmd].version = r.version
RegistryInv(rs, c) ==
    /\ rs \in Registries /\ OfOutbox(rs, c)
    /\ \A q, r \in rs : q.version = r.version \/ q.cmd = r.cmd => q = r
    /\ \A r \in rs : r.receipt # None =>
         /\ r.receipt \in receipts /\ r.receipt.cmd = r.cmd /\ r.receipt.version = r.version
         /\ r.receipt.forcedAt # None => r.receipt.forcedAt >= r.deadline

(* No drain changes its place or its execution. *)
Extends(c, d) ==
    /\ DOMAIN d.outbox \subseteq DOMAIN c.outbox
    /\ \A i \in DOMAIN d.outbox : c.outbox[i].version = d.outbox[i].version

(* A mutation on its way: what is written agrees with what was saved, and the
   rest extends it. *)
SavingInv ==
    saving # None =>
      /\ saving \in Savings /\ mode = "up"
      /\ ControlInv(saving.control) /\ RegistryInv(saving.records, saving.control)
      /\ Planned(saving.control, saving.records)
      /\ IF saving.step = "control" THEN Extends(saving.control, control) ELSE saving.control = control
      /\ saving.step = "ledger" => saving.records = records

FilesInv ==
    /\ grants \in Seq(Versions) /\ Len(grants) <= MaxGrants
    /\ ControlInv(control) /\ RegistryInv(records, control)
    /\ ledger \in Registries /\ OfOutbox(ledger, control)
    /\ (saving = None \/ saving.step # "registry") => Planned(control, records)

(* A drain under way was accepted with its record and is not in the journal yet;
   a receipt is in the journal as applied, and is of a drain in the outbox; what
   was killed has ended. *)
SupervisorInv ==
    /\ known \in Registries /\ OfOutbox(known, control)
    /\ ~serving => effect = {}
    /\ effect \subseteq Effects
    /\ \A e \in effect :
         /\ e.cmd \in Commands /\ Held(e.cmd, known) /\ journal[e.cmd] = "received"
         /\ e.forcedAt # None => process[Version(e.cmd)] = "ended"
    /\ \A d, e \in effect : d.cmd = e.cmd => d = e
    /\ receipts \subseteq Receipts
    /\ \A p \in receipts : Proof(p, p.version)

RestInv ==
    /\ mode \in {"up", "down", "fenced"} /\ task \in {None, "startup", "activation"}
    /\ mode # "up" => task = None /\ saving = None
    /\ clock \in Time /\ faults \in 0..MaxFaults
    /\ substate \in [Versions -> {"running", "retiring", "stopped"}]
    /\ process \in [Versions -> {"running", "ended"}]
    /\ journal \in [Ids -> {"none", "received", "applied", "rejected"}]

RetirementInv == FilesInv /\ SavingInv /\ SupervisorInv /\ RestInv

-----------------------------------------------------------------------------
(* The values. *)

LEMMA AppendFacts ==
    ASSUME NEW S, NEW s \in Seq(S), NEW e \in S
    PROVE  /\ Append(s, e) \in Seq(S) /\ Len(s) \in Nat /\ Len(Append(s, e)) = Len(s) + 1
           /\ DOMAIN s = 1..Len(s) /\ DOMAIN Append(s, e) = 1..(Len(s) + 1)
           /\ \A i \in 1..Len(s) : Append(s, e)[i] = s[i]
           /\ Append(s, e)[Len(s) + 1] = e
OBVIOUS

LEMMA ControlForms ==
    ASSUME NEW c \in ControlStates
    PROVE  /\ c.outbox \in Seq(Entries) /\ Len(c.outbox) \in Nat /\ DOMAIN c.outbox = 1..Len(c.outbox)
           /\ c.generation \in Nat /\ c.leased \subseteq Versions /\ c.route \in Versions \cup {None}
           /\ c.lifecycle \in [Versions -> Lifecycles]
           /\ \A i \in DOMAIN c.outbox : c.outbox[i] \in Entries /\ c.outbox[i].version \in Versions
<1>1. c.outbox \in Seq(Entries) /\ c.generation \in Nat /\ c.leased \subseteq Versions
      /\ c.route \in Versions \cup {None} /\ c.lifecycle \in [Versions -> Lifecycles]
  BY DEF ControlStates
<1>2. \A i \in DOMAIN c.outbox : c.outbox[i] \in Entries
  BY <1>1
<1> QED BY <1>1, <1>2 DEF Entries

LEMMA SpentForms ==
    ASSUME NEW c \in ControlStates, NEW rs
    PROVE  /\ Spent(c, rs) \in Nat /\ Len(c.outbox) \in Nat /\ Earned(c) \in Nat
           /\ Spent(c, rs) <= Len(c.outbox) + 1 /\ Len(c.outbox) <= Spent(c, rs)
           /\ ~Owed(c, rs) => Spent(c, rs) = Len(c.outbox)
           /\ Owed(c, rs) => Spent(c, rs) = Len(c.outbox) + 1
<1>1. Len(c.outbox) \in Nat /\ c.generation \in Nat
  BY ControlForms
<1>2. Earned(c) \in Nat
  BY <1>1 DEF Earned
<1>3. CASE Owed(c, rs)
  BY <1>1, <1>2, <1>3 DEF Spent
<1>4. CASE ~Owed(c, rs)
  BY <1>1, <1>2, <1>4 DEF Spent
<1> QED BY <1>3, <1>4

(* One more fault never breaks a plan. *)
LEMMA MoreFaults ==
    ASSUME NEW n \in Nat, NEW m \in Nat, NEW f \in Nat, NEW k \in Nat, f <= k, n <= m + f
    PROVE  n <= m + k
OBVIOUS

LEMMA RecordForms ==
    ASSUME NEW rs \in Registries, NEW r \in rs
    PROVE  /\ r \in Records /\ r.cmd \in Ids /\ r.version \in Versions /\ r.generation \in Nat
           /\ r.deadline \in Time /\ r.receipt \in Receipts \cup {None}
BY DEF Registries, Records

LEMMA CurrentForms ==
    ASSUME grants \in Seq(Versions)
    PROVE  /\ Len(grants) \in Nat /\ DOMAIN grants = 1..Len(grants)
           /\ \A g \in 1..Len(grants) : Current(g) = grants[g] /\ grants[g] \in Versions
           /\ Current(0) = None /\ Current(0 - 1) = None
           /\ \A v \in Versions : v # None
<1>1. Len(grants) \in Nat /\ DOMAIN grants = 1..Len(grants) /\ \A g \in 1..Len(grants) : grants[g] \in Versions
  OBVIOUS
<1>2. 0 \notin DOMAIN grants /\ 0 - 1 \notin DOMAIN grants
  BY <1>1
<1> QED BY <1>1, <1>2, NoneAssumption DEF Current

LEMMA OutboxBound ==
    ASSUME RetirementInv
    PROVE  /\ Commands \subseteq Ids /\ control \in ControlStates
           /\ \A c \in Commands : Version(c) \in Versions
<1>0. control \in ControlStates
  BY DEF RetirementInv, FilesInv, ControlInv
<1>1. /\ control.generation \in Nat /\ Len(control.outbox) \in Nat /\ DOMAIN control.outbox = 1..Len(control.outbox)
      /\ control.generation <= Len(grants) /\ Len(grants) <= MaxGrants /\ Len(grants) \in Nat
      /\ faults \in Nat /\ faults <= MaxFaults /\ MaxGrants \in Nat /\ MaxFaults \in Nat
  BY <1>0, ControlForms, CurrentForms, BoundsAssumption DEF RetirementInv, FilesInv, ControlInv, RestInv
<1>2. Len(control.outbox) <= Earned(control) + faults
  <2>1. CASE saving = None \/ saving.step # "registry"
    <3>1. Spent(control, records) <= Earned(control) + faults
      BY <2>1 DEF RetirementInv, FilesInv, Planned
    <3> QED BY <1>0, <1>1, <3>1, SpentForms
  <2>2. CASE saving # None /\ saving.step = "registry"
    <3>1. PICK rs : rs = saving.records
      OBVIOUS
    <3>2. Spent(control, rs) <= Earned(control) + faults
      BY <2>2, <3>1 DEF RetirementInv, SavingInv, Planned
    <3> QED BY <1>0, <1>1, <3>2, SpentForms
  <2> QED BY <2>1, <2>2
<1>3. Len(control.outbox) <= MaxGrants + MaxFaults
  <2>1. Earned(control) <= MaxGrants /\ Earned(control) \in Nat
    BY <1>1 DEF Earned
  <2> QED BY <1>1, <1>2, <2>1
<1>4. Commands \subseteq Ids
  BY <1>1, <1>3 DEF Commands, Ids
<1> QED BY <1>0, <1>4, ControlForms DEF Commands, Version

LEMMA RetirementInit ==
    ASSUME Init
    PROVE  RetirementInv
<1>1. control \in ControlStates /\ control.generation = 0 /\ control.route = None /\ control.outbox = <<>>
      /\ control.leased = {} /\ \A v \in Versions : control.lifecycle[v] = "preparing"
  BY DEF Init, ControlStates, Lifecycles
<1>2. grants = <<>> /\ grants \in Seq(Versions) /\ Len(grants) = 0 /\ Len(grants) <= MaxGrants
  BY BoundsAssumption DEF Init
<1>3. Current(0) = None /\ Current(0 - 1) = None
  BY <1>2, CurrentForms
<1>4. ControlInv(control)
  BY <1>1, <1>2, <1>3 DEF ControlInv, Valid
<1>5. Planned(control, records)
  <2>1. ~Owed(control, records)
    BY <1>1, <1>3 DEF Owed
  <2> QED BY <1>1, <2>1 DEF Planned, Spent, Earned, Init
<1>6. FilesInv
  BY <1>2, <1>4, <1>5 DEF FilesInv, Init, RegistryInv, OfOutbox, Registries
<1>7. SavingInv
  BY DEF SavingInv, Init
<1>8. SupervisorInv
  BY DEF SupervisorInv, Init, OfOutbox, Registries
<1>9. RestInv
  BY BoundsAssumption DEF RestInv, Init, Time
<1> QED BY <1>6, <1>7, <1>8, <1>9 DEF RetirementInv

-----------------------------------------------------------------------------
(* What the steps of one side leave of the other. *)

LEMMA ExtendsSelf == ASSUME NEW c PROVE Extends(c, c)
BY DEF Extends

(* An outbox that grew still has the drain of every record. *)
LEMMA OfOutboxGrows ==
    ASSUME NEW c, NEW d, NEW rs, Extends(c, d), OfOutbox(rs, d)
    PROVE  OfOutbox(rs, c)
BY DEF Extends, OfOutbox

(* A receipt in the journal stays a proof of its drain. *)
LEMMA ProofStays ==
    ASSUME NEW p, NEW v, Proof(p, v), p \in receipts', journal'[p.cmd] = "applied",
           Extends(control', control), process[v] = "ended" => process'[v] = "ended"
    PROVE  Proof(p, v)'
BY DEF Proof, Extends, Commands, Version

LEMMA SupervisorStays ==
    ASSUME RetirementInv, UNCHANGED supervisor, Extends(control', control)
    PROVE  SupervisorInv'
<1>1. UNCHANGED <<serving, known, process, effect, journal, receipts>>
  BY DEF supervisor
<1>2. \A c \in Commands : c \in Commands' /\ Version(c)' = Version(c)
  BY DEF Extends, Commands, Version
<1>3. OfOutbox(known', control')
  BY <1>1, OfOutboxGrows DEF RetirementInv, SupervisorInv
<1>4. \A p \in receipts' : Proof(p, p.version)'
  <2>1. \A p \in receipts : Proof(p, p.version) /\ journal[p.cmd] = "applied"
    BY DEF RetirementInv, SupervisorInv, Proof
  <2> QED BY <1>1, <2>1, ProofStays
<1> QED BY <1>1, <1>2, <1>3, <1>4 DEF RetirementInv, SupervisorInv, Held

LEMMA KernelStays ==
    ASSUME RetirementInv, KernelSide, receipts \subseteq receipts',
           process' \in [Versions -> {"running", "ended"}],
           \A v \in Versions : process[v] = "ended" => process'[v] = "ended",
           faults' \in 0..MaxFaults, faults' >= faults,
           substate' \in [Versions -> {"running", "retiring", "stopped"}],
           journal' \in [Ids -> {"none", "received", "applied", "rejected"}]
    PROVE  FilesInv' /\ SavingInv' /\ RestInv'
<1>1. UNCHANGED <<grants, control, records, ledger, mode, task, saving, clock>>
  BY DEF KernelSide, files, kernel
<1>2. faults \in Nat /\ faults' \in Nat
  BY BoundsAssumption DEF RetirementInv, RestInv
<1>4. FilesInv'
  <2>1. ControlInv(control)'
    BY <1>1 DEF RetirementInv, FilesInv, ControlInv, Current, Valid, Answered
  <2>2. RegistryInv(records, control)'
    BY <1>1 DEF RetirementInv, FilesInv, RegistryInv, OfOutbox
  <2>3. ASSUME Planned(control, records) PROVE Planned(control, records)'
    <3>1. control \in ControlStates
      BY DEF RetirementInv, FilesInv, ControlInv
    <3>2. Owed(control, records)' = Owed(control, records)
      BY <1>1 DEF Owed, Current, Tracked
    <3>3. Spent(control, records)' = Spent(control, records) /\ Earned(control)' = Earned(control)
      BY <1>1, <3>2 DEF Spent, Earned
    <3>4. Spent(control, records) <= Earned(control) + faults'
      BY <1>2, <2>3, <3>1, SpentForms, MoreFaults DEF Planned
    <3> QED BY <3>3, <3>4 DEF Planned
  <2>4. OfOutbox(ledger, control)'
    BY <1>1 DEF RetirementInv, FilesInv, OfOutbox
  <2> QED BY <1>1, <2>1, <2>2, <2>3, <2>4 DEF RetirementInv, FilesInv
<1>5. SavingInv'
  <2> SUFFICES ASSUME saving # None
               PROVE  /\ ControlInv(saving.control)' /\ RegistryInv(saving.records, saving.control)'
                      /\ Planned(saving.control, saving.records)'
    BY <1>1 DEF RetirementInv, SavingInv, Extends
  <2>1. ControlInv(saving.control)'
    BY <1>1 DEF RetirementInv, SavingInv, ControlInv, Current, Valid, Answered
  <2>2. RegistryInv(saving.records, saving.control)'
    BY <1>1 DEF RetirementInv, SavingInv, RegistryInv, OfOutbox
  <2>3. Planned(saving.control, saving.records)'
    <3>0. PICK c, rs : c = saving.control /\ rs = saving.records
      OBVIOUS
    <3>1. c \in ControlStates /\ Planned(c, rs)
      BY <3>0 DEF RetirementInv, SavingInv, ControlInv
    <3>2. Owed(c, rs)' = Owed(c, rs)
      BY <1>1 DEF Owed, Current, Tracked
    <3>3. Spent(c, rs)' = Spent(c, rs) /\ Earned(c)' = Earned(c)
      BY <1>1, <3>2 DEF Spent, Earned
    <3>4. Spent(c, rs) <= Earned(c) + faults'
      BY <1>2, <3>1, SpentForms, MoreFaults DEF Planned
    <3>5. Planned(c, rs)'
      BY <3>3, <3>4 DEF Planned
    <3>6. c = saving'.control /\ rs = saving'.records
      BY <1>1, <3>0
    <3> QED BY <3>5, <3>6 DEF Planned, Spent, Earned, Owed, Tracked, Current
  <2> QED BY <2>1, <2>2, <2>3
<1>6. RestInv'
  BY <1>1 DEF RetirementInv, RestInv
<1> QED BY <1>4, <1>5, <1>6

LEMMA StaysPlanned ==
    ASSUME RetirementInv, NEW c \in ControlStates, NEW rs, Planned(c, rs),
           UNCHANGED grants, faults' \in 0..MaxFaults, faults' >= faults
    PROVE  Planned(c, rs)'
<1>1. Owed(c, rs)' = Owed(c, rs)
  BY DEF Owed, Current, Tracked
<1>2. Spent(c, rs)' = Spent(c, rs) /\ Earned(c)' = Earned(c)
  BY <1>1 DEF Spent, Earned
<1>3. faults \in Nat /\ faults' \in Nat
  BY BoundsAssumption DEF RetirementInv, RestInv
<1>4. Spent(c, rs) <= Earned(c) + faults'
  BY <1>3, SpentForms, MoreFaults DEF Planned
<1> QED BY <1>2, <1>4 DEF Planned

-----------------------------------------------------------------------------
(* Mutations. *)

LEMMA SaveInv ==
    ASSUME RetirementInv, Free, NEW c, NEW rs,
           saving' = [control |-> c, records |-> rs, step |-> "control"],
           UNCHANGED <<files, mode, clock, supervisor>>, task' \in {None, "startup", "activation"},
           faults' \in 0..MaxFaults, faults' >= faults,
           ControlInv(c), RegistryInv(rs, c), Planned(c, rs), Extends(c, control)
    PROVE  RetirementInv'
<1>1. /\ UNCHANGED <<grants, control, records, ledger, serving, known, substate, process, effect, journal, receipts>>
      /\ mode = "up" /\ saving = None /\ c \in ControlStates /\ control \in ControlStates /\ rs \in Registries
  BY DEF files, supervisor, Free, ControlInv, RegistryInv, RetirementInv, FilesInv
<1>2. saving' \in Savings /\ saving'.control = c /\ saving'.records = rs /\ saving'.step = "control"
  BY <1>1 DEF Savings
<1>3. Planned(c, rs)' /\ Planned(control, records)'
  <2>1. Planned(control, records)
    BY <1>1 DEF RetirementInv, FilesInv
  <2>2. PICK d, ds : d = control /\ ds = records
    OBVIOUS
  <2>3. Planned(c, rs)' /\ Planned(d, ds)'
    BY <1>1, <2>1, <2>2, StaysPlanned
  <2>4. d = control' /\ ds = records'
    BY <1>1, <2>2
  <2> QED BY <2>3, <2>4 DEF Planned, Spent, Earned, Owed, Tracked, Current
<1>4. FilesInv'
  BY <1>1, <1>3 DEF RetirementInv, FilesInv, ControlInv, RegistryInv, OfOutbox, Current, Valid, Answered
<1>5. SavingInv'
  <2>1. ControlInv(saving.control)'
    BY <1>1, <1>2 DEF ControlInv, Current, Valid, Answered
  <2>2. RegistryInv(saving.records, saving.control)'
    BY <1>1, <1>2 DEF RegistryInv, OfOutbox
  <2>3. Planned(saving.control, saving.records)'
    BY <1>2, <1>3 DEF Planned, Spent, Earned, Owed, Tracked, Current
  <2>4. Extends(saving.control, control)'
    BY <1>1, <1>2 DEF Extends
  <2> QED BY <1>1, <1>2, <2>1, <2>2, <2>3, <2>4 DEF SavingInv
<1>6. SupervisorInv'
  BY <1>1, ExtendsSelf, SupervisorStays DEF Extends
<1>7. RestInv'
  BY <1>1 DEF RetirementInv, RestInv
<1> QED BY <1>4, <1>5, <1>6, <1>7 DEF RetirementInv

(* Event g on top of c0: the plan of its drain, if there is one to make. *)
LEMMA ProjectInv ==
    ASSUME RetirementInv, Free, NEW c0, NEW g \in 1..Len(grants), Project(c0, g), UNCHANGED supervisor,
           Valid(c0) => ControlInv(c0), c0 \in ControlStates, c0.outbox = control.outbox, c0.generation = g,
           Current(g - 1) \in c0.leased \cup {None},
           MustRetire(g) => Len(control.outbox) + 1 <= g - 1 + faults,
           ~MustRetire(g) => Len(control.outbox) <= g - 1 + faults
    PROVE  RetirementInv'
<1>1. /\ grants \in Seq(Versions) /\ control \in ControlStates /\ RegistryInv(records, control)
      /\ faults \in 0..MaxFaults /\ faults \in Nat /\ Len(grants) <= MaxGrants
  BY BoundsAssumption DEF RetirementInv, FilesInv, ControlInv, RestInv
<1>2. /\ Len(grants) \in Nat /\ g \in Nat /\ g - 1 \in Nat /\ Len(control.outbox) \in Nat
      /\ Earned(c0) = g - 1 /\ DOMAIN control.outbox = 1..Len(control.outbox)
  BY <1>1, CurrentForms, ControlForms DEF Earned
<1>3. UNCHANGED <<files, mode, task, clock, faults>>
  BY DEF Project, Save
<1>4. task' \in {None, "startup", "activation"} /\ faults' \in 0..MaxFaults /\ faults' >= faults
  BY <1>1, <1>3 DEF RetirementInv, RestInv
<1>5. CASE ~MustRetire(g)
  <2>1. Valid(c0) /\ saving' = [control |-> c0, records |-> records, step |-> "control"]
    BY <1>5 DEF Project, Save
  <2>2. PICK rs : rs = records
    OBVIOUS
  <2>3. ~Owed(c0, records)
    BY <1>5 DEF Owed, MustRetire
  <2>4. Planned(c0, records)
    BY <1>2, <1>5, <2>3 DEF Planned, Spent
  <2>5. RegistryInv(records, c0)
    BY <1>1 DEF RegistryInv, OfOutbox
  <2>6. Extends(c0, control)
    BY DEF Extends
  <2>7. ControlInv(c0) /\ RegistryInv(rs, c0) /\ Planned(c0, rs)
    BY <2>1, <2>2, <2>4, <2>5
  <2> QED BY <1>3, <1>4, <2>1, <2>2, <2>6, <2>7, SaveInv
<1>6. CASE MustRetire(g)
  <2>1. PICK v : v = Current(g - 1)
    OBVIOUS
  <2>2. /\ v # None /\ v # Current(g) /\ ~Tracked(records, v) /\ Deadlines[v] # None
        /\ v \in c0.leased /\ v \in Versions
    BY <1>6, <2>1, ControlForms DEF MustRetire
  <2>3. PICK entry : entry = [version |-> v, state |-> "pending"]
    OBVIOUS
  <2>4. entry \in Entries /\ entry.version = v
    BY <2>2, <2>3 DEF Entries
  <2>5. PICK c : c = [c0 EXCEPT !.outbox = Append(@, entry)]
    OBVIOUS
  <2>6. PICK n : n = Len(control.outbox) + 1
    OBVIOUS
  <2>7. /\ Append(c0.outbox, entry) \in Seq(Entries) /\ Len(Append(c0.outbox, entry)) = n
        /\ DOMAIN Append(c0.outbox, entry) = DOMAIN control.outbox \cup {n} /\ n \notin DOMAIN control.outbox
        /\ Append(c0.outbox, entry)[n] = entry
        /\ \A i \in DOMAIN control.outbox : Append(c0.outbox, entry)[i] = control.outbox[i]
    <3>1. c0.outbox \in Seq(Entries) /\ control.outbox \in Seq(Entries)
      BY <1>1, ControlForms
    <3>2. /\ Append(c0.outbox, entry) \in Seq(Entries) /\ Len(Append(c0.outbox, entry)) = n
          /\ DOMAIN Append(c0.outbox, entry) = 1..n /\ Append(c0.outbox, entry)[n] = entry
          /\ \A i \in 1..Len(c0.outbox) : Append(c0.outbox, entry)[i] = c0.outbox[i]
      BY <2>4, <2>6, <3>1, AppendFacts
    <3> QED BY <1>2, <2>6, <3>2
  <2>8. /\ c \in ControlStates /\ c.outbox = Append(c0.outbox, entry) /\ c.route = c0.route /\ c.leased = c0.leased
        /\ c.generation = g /\ c.lifecycle = c0.lifecycle
    BY <2>5, <2>7 DEF ControlStates
  <2>9. PICK r : r = [cmd |-> n, version |-> v, generation |-> g - 1, deadline |-> Deadlines[v],
                      flip |-> clock, receipt |-> None]
    OBVIOUS
  <2>10. /\ r \in Records /\ r.cmd = n /\ r.version = v /\ r.receipt = None
    <3>1. n \in Ids
      <4>1. n <= g - 1 + faults /\ g - 1 <= MaxGrants /\ faults <= MaxFaults /\ MaxGrants \in Nat /\ MaxFaults \in Nat
        BY <1>1, <1>2, <1>6, <2>6, BoundsAssumption
      <4>2. n <= MaxGrants + MaxFaults /\ n \in Nat /\ n >= 1
        BY <1>1, <1>2, <2>6, <4>1
      <4> QED BY <4>2, BoundsAssumption DEF Ids
    <3>2. Deadlines[v] \in Time /\ clock \in Time
      BY <2>2, DeadlinesAssumption DEF RetirementInv, RestInv
    <3> QED BY <1>2, <2>2, <2>9, <3>1, <3>2 DEF Records
  <2>11. PICK rs : rs = records \cup {r}
    OBVIOUS
  <2>12. Valid(c) /\ saving' = [control |-> c, records |-> rs, step |-> "control"]
    <3>1. c = Drain(c0, g) /\ r = Record(g)
      BY <2>1, <2>3, <2>5, <2>6, <2>9 DEF Drain, Record
    <3> QED BY <1>6, <2>11, <3>1 DEF Project, Save
  <2>13. ControlInv(c0)
    BY <2>8, <2>12 DEF Valid
  <2>14. ControlInv(c)
    <3>1. v # c0.route
      BY <2>2, <2>13 DEF ControlInv
    <3>2. \A i \in DOMAIN c.outbox : c.outbox[i].version \in c.leased /\ c.outbox[i].version # c.route
      BY <2>2, <2>4, <2>7, <2>8, <2>13, <3>1 DEF ControlInv
    <3> QED BY <2>8, <2>12, <2>13, <3>2 DEF ControlInv
  <2>15. RegistryInv(rs, c)
    <3>1. \A q \in records : q.cmd \in DOMAIN control.outbox /\ control.outbox[q.cmd].version = q.version
      BY <1>1 DEF RegistryInv, OfOutbox
    <3>2. OfOutbox(rs, c)
      BY <2>4, <2>7, <2>8, <2>10, <2>11, <3>1 DEF OfOutbox
    <3>3. rs \in Registries
      BY <1>1, <2>10, <2>11 DEF RegistryInv, Registries
    <3>4. \A q \in records : q.version # r.version /\ q.cmd # r.cmd
      BY <2>2, <2>7, <2>10, <3>1 DEF Tracked
    <3> QED BY <1>1, <2>10, <2>11, <3>2, <3>3, <3>4 DEF RegistryInv
  <2>16. Planned(c, rs)
    <3>1. ~Owed(c, rs)
      BY <2>1, <2>8, <2>10, <2>11 DEF Owed, Tracked
    <3>2. Earned(c) = g - 1 /\ Len(c.outbox) = n
      BY <1>2, <2>7, <2>8 DEF Earned
    <3> QED BY <1>6, <2>6, <3>1, <3>2 DEF Planned, Spent
  <2>17. Extends(c, control)
    BY <2>7, <2>8 DEF Extends
  <2> QED BY <1>3, <1>4, <2>12, <2>14, <2>15, <2>16, <2>17, SaveInv
<1> QED BY <1>5, <1>6

LEMMA FlipInv ==
    ASSUME RetirementInv, Flip
    PROVE  RetirementInv'
<1>1. /\ grants \in Seq(Versions) /\ control \in ControlStates /\ ControlInv(control)
      /\ Planned(control, records) /\ faults \in Nat
  BY BoundsAssumption DEF RetirementInv, FilesInv, ControlInv, RestInv, Flip, Syncing, Free
<1>2. /\ Len(grants) \in Nat /\ control.generation \in Nat /\ Len(control.outbox) \in Nat
      /\ Next1 \in 1..Len(grants) /\ Next1 - 1 = control.generation /\ Next1 = control.generation + 1
  BY <1>1, CurrentForms, ControlForms DEF Flip, HasNext, Next1
<1>3. PICK v : v = grants[Next1]
  OBVIOUS
<1>4. v \in Versions /\ v \notin control.leased /\ v = Current(Next1)
  BY <1>1, <1>2, <1>3, CurrentForms DEF Flip
<1>5. PICK half : half = [control EXCEPT !.route = v, !.generation = Next1, !.leased = @ \cup {v}]
  OBVIOUS
<1>6. PICK c0 : c0 = [control EXCEPT !.route = v, !.generation = Next1,
                        !.lifecycle[v] = "active", !.leased = @ \cup {v}]
  OBVIOUS
<1>7. /\ c0 \in ControlStates /\ c0.route = v /\ c0.generation = Next1 /\ c0.leased = control.leased \cup {v}
      /\ c0.outbox = control.outbox /\ c0.lifecycle = [control.lifecycle EXCEPT ![v] = "active"]
  <2>1. /\ control.lifecycle \in [Versions -> Lifecycles] /\ control.outbox \in Seq(Entries)
        /\ control.leased \cup {v} \in SUBSET Versions /\ Next1 \in Nat
    BY <1>1, <1>2, <1>4, ControlForms
  <2>2. [control.lifecycle EXCEPT ![v] = "active"] \in [Versions -> Lifecycles]
    BY <2>1 DEF Lifecycles
  <2>3. c0 = [route |-> v, generation |-> Next1, leased |-> control.leased \cup {v}, outbox |-> control.outbox,
              lifecycle |-> [control.lifecycle EXCEPT ![v] = "active"]]
    BY <1>1, <1>6 DEF ControlStates
  <2> QED BY <1>4, <2>1, <2>2, <2>3 DEF ControlStates
<1>8. ASSUME Valid(c0) PROVE ControlInv(c0)
  <2>1. \A i \in 1..c0.generation : grants[i] \in c0.leased
    <3>1. \A i \in 1..control.generation : grants[i] \in control.leased
      BY <1>1 DEF ControlInv
    <3>2. \A i \in 1..Next1 : i = Next1 \/ i \in 1..control.generation
      BY <1>2
    <3> QED BY <1>3, <1>7, <3>1, <3>2
  <2>2. \A i \in DOMAIN c0.outbox : c0.outbox[i].version \in c0.leased /\ c0.outbox[i].version # c0.route
    BY <1>1, <1>4, <1>7 DEF ControlInv
  <2>3. \A w \in Versions : c0.lifecycle[w] = "retired" => w \in Answered
    <3>1. \A w \in Versions : c0.lifecycle[w] = IF w = v THEN "active" ELSE control.lifecycle[w]
      BY <1>1, <1>7, ControlForms
    <3> QED BY <1>1, <3>1 DEF ControlInv
  <2>4. c0.generation <= Len(grants)
    BY <1>2, <1>7
  <2> QED BY <1>4, <1>7, <1>8, <2>1, <2>2, <2>3, <2>4 DEF ControlInv
<1>9. Current(Next1 - 1) \in c0.leased \cup {None}
  <2>1. CASE control.generation = 0
    BY <1>1, <1>2, <2>1, CurrentForms
  <2>2. CASE control.generation # 0
    <3>1. control.generation \in 1..Len(grants) /\ control.generation \in 1..control.generation
      BY <1>2, <2>2
    <3>2. grants[control.generation] \in control.leased
      BY <1>1, <3>1 DEF ControlInv
    <3> QED BY <1>1, <1>2, <1>7, <3>1, <3>2, CurrentForms
  <2> QED BY <2>1, <2>2
<1>10. Len(control.outbox) <= Earned(control) + faults /\ Earned(control) \in Nat
  BY <1>1, <1>2, SpentForms DEF Planned
<1>11. MustRetire(Next1) => Len(control.outbox) + 1 <= Next1 - 1 + faults
  <2>1. CASE control.generation = 0
    BY <1>1, <1>2, <2>1, CurrentForms DEF MustRetire
  <2>2. CASE control.generation # 0
    <3>1. Earned(control) = control.generation - 1
      BY <1>2, <2>2 DEF Earned
    <3>2. control.generation \in Nat /\ Len(control.outbox) \in Nat /\ faults \in Nat
      BY <1>1, <1>2
    <3>3. Len(control.outbox) <= control.generation - 1 + faults
      BY <1>10, <3>1
    <3>4. Len(control.outbox) + 1 <= control.generation + faults
      BY <3>2, <3>3
    <3> QED BY <1>2, <3>4
  <2> QED BY <2>1, <2>2
<1>12. Len(control.outbox) <= Next1 - 1 + faults
  <2>1. Earned(control) <= control.generation
    BY <1>2 DEF Earned
  <2> QED BY <1>1, <1>2, <1>10, <2>1
<1>13. Project(c0, Next1) /\ UNCHANGED supervisor /\ Free
  BY <1>3, <1>6 DEF Flip, Syncing
<1>14. PICK g \in 1..Len(grants) : g = Next1
  BY <1>2
<1> QED BY <1>7, <1>8, <1>9, <1>11, <1>12, <1>13, <1>14, ProjectInv

LEMMA RetraceInv ==
    ASSUME RetirementInv, Retrace
    PROVE  RetirementInv'
<1>1. /\ grants \in Seq(Versions) /\ control \in ControlStates /\ ControlInv(control)
      /\ Planned(control, records) /\ faults \in Nat
  BY BoundsAssumption DEF RetirementInv, FilesInv, ControlInv, RestInv, Retrace, Syncing, Free
<1>2. PICK g : g = control.generation
  OBVIOUS
<1>3. PICK c0 : c0 = control
  OBVIOUS
<1>4. /\ Len(grants) \in Nat /\ g \in Nat /\ Len(control.outbox) \in Nat /\ g \in 1..Len(grants) /\ g # 0
  BY <1>1, <1>2, CurrentForms, ControlForms DEF Retrace, ControlInv
<1>5. Current(g - 1) \in c0.leased \cup {None}
  <2>1. CASE g - 1 = 0
    BY <1>1, <2>1, CurrentForms
  <2>2. CASE g - 1 # 0
    <3>1. g - 1 \in 1..Len(grants) /\ g - 1 \in 1..control.generation
      BY <1>2, <1>4, <2>2
    <3>2. grants[g - 1] \in control.leased
      BY <1>1, <3>1 DEF ControlInv
    <3> QED BY <1>1, <1>3, <3>1, <3>2, CurrentForms
  <2> QED BY <2>1, <2>2
<1>6. Owed(control, records) /\ MustRetire(g)
  BY <1>2 DEF Retrace, MustRetire, Owed
<1>7. Len(control.outbox) + 1 <= g - 1 + faults
  <2>1. Spent(control, records) <= Earned(control) + faults /\ Spent(control, records) = Len(control.outbox) + 1
    BY <1>1, <1>6, SpentForms DEF Planned
  <2>2. Earned(control) = g - 1
    BY <1>2, <1>4 DEF Earned
  <2> QED BY <2>1, <2>2
<1>8. Project(c0, g) /\ UNCHANGED supervisor /\ Free
  BY <1>2, <1>3 DEF Retrace, Syncing
<1> QED BY <1>1, <1>2, <1>3, <1>4, <1>5, <1>6, <1>7, <1>8, ProjectInv

LEMMA AttemptInv ==
    ASSUME RetirementInv, RecordAttempt
    PROVE  RetirementInv'
<1>1. /\ ControlInv(control) /\ RegistryInv(records, control) /\ Planned(control, records)
      /\ faults \in 0..MaxFaults /\ Free
  BY DEF RetirementInv, FilesInv, RestInv, RecordAttempt, Idle, Free
<1>2. PICK c, rs : c = control /\ rs = records
  OBVIOUS
<1>3. /\ saving' = [control |-> c, records |-> rs, step |-> "control"]
      /\ UNCHANGED <<files, mode, task, clock, supervisor>>
  BY <1>2 DEF RecordAttempt
<1>4. faults' \in 0..MaxFaults /\ faults' >= faults
  BY <1>1, BoundsAssumption DEF RecordAttempt, Fault
<1>5. task' \in {None, "startup", "activation"}
  BY <1>3 DEF RetirementInv, RestInv
<1>6. ControlInv(c) /\ RegistryInv(rs, c) /\ Planned(c, rs) /\ Extends(c, control)
  BY <1>1, <1>2, ExtendsSelf
<1> QED BY <1>1, <1>3, <1>4, <1>5, <1>6, SaveInv

(* A mutation that changes no route and no drain: the plan stays. *)
LEMMA SavePlan ==
    ASSUME RetirementInv, Free, NEW c \in ControlStates, NEW rs,
           c.generation = control.generation, Len(c.outbox) = Len(control.outbox),
           \A r \in records : Tracked(rs, r.version)
    PROVE  Planned(c, rs)
<1>1. control \in ControlStates /\ Planned(control, records) /\ faults \in Nat
  BY BoundsAssumption DEF RetirementInv, FilesInv, ControlInv, RestInv, Free
<1>2. Owed(c, rs) => Owed(control, records)
  BY DEF Owed, Tracked
<1>3. Spent(c, rs) <= Spent(control, records) /\ Earned(c) = Earned(control)
  <2>1. Earned(c) = Earned(control)
    BY DEF Earned
  <2>2. CASE Owed(c, rs)
    <3>1. Spent(c, rs) = Len(c.outbox) + 1 /\ Spent(control, records) = Len(control.outbox) + 1
      BY <1>2, <2>2 DEF Spent
    <3> QED BY <1>1, <2>1, <3>1, SpentForms
  <2>3. CASE ~Owed(c, rs)
    <3>1. Spent(c, rs) = Len(control.outbox)
      BY <2>3 DEF Spent
    <3>2. Len(control.outbox) <= Spent(control, records)
      BY <1>1, SpentForms
    <3> QED BY <2>1, <3>1, <3>2
  <2> QED BY <2>1, <2>2, <2>3
<1> QED
  <2>1. Spent(c, rs) \in Nat /\ Spent(control, records) \in Nat /\ Earned(control) \in Nat
    BY <1>1, SpentForms
  <2> QED BY <1>1, <1>3, <2>1 DEF Planned

LEMMA AcknowledgeInv ==
    ASSUME RetirementInv, NEW i \in Commands, Acknowledge(i)
    PROVE  RetirementInv'
<1>1. /\ ControlInv(control) /\ RegistryInv(records, control) /\ faults \in 0..MaxFaults /\ faults \in Nat
      /\ Free /\ control \in ControlStates /\ i \in DOMAIN control.outbox
  BY BoundsAssumption DEF RetirementInv, FilesInv, ControlInv, RestInv, Acknowledge, Idle, Free, Commands
<1>2. PICK c, rs : c = [control EXCEPT !.outbox[i].state = "acknowledged"] /\ rs = records
  OBVIOUS
<1>3. PICK e : e = [control.outbox[i] EXCEPT !.state = "acknowledged"]
  OBVIOUS
<1>4. e \in Entries /\ e.version = control.outbox[i].version
  <2>1. control.outbox[i] \in Entries
    BY <1>1, ControlForms
  <2> QED BY <1>3, <2>1 DEF Entries
<1>5. PICK box : box = [control.outbox EXCEPT ![i] = e]
  OBVIOUS
<1>6. /\ box \in Seq(Entries) /\ DOMAIN box = DOMAIN control.outbox /\ Len(box) = Len(control.outbox)
      /\ \A j \in DOMAIN box : box[j].version = control.outbox[j].version
  <2>1. control.outbox \in Seq(Entries)
    BY <1>1, ControlForms
  <2> QED BY <1>1, <1>4, <1>5, <2>1
<1>7. /\ c \in ControlStates /\ c.route = control.route /\ c.generation = control.generation
      /\ c.leased = control.leased /\ c.lifecycle = control.lifecycle /\ c.outbox = box
  BY <1>1, <1>2, <1>3, <1>5, <1>6 DEF ControlStates
<1>8. Valid(c) /\ ControlInv(c)
  BY <1>1, <1>6, <1>7 DEF ControlInv, Valid
<1>9. RegistryInv(rs, c) /\ Extends(c, control)
  BY <1>1, <1>2, <1>6, <1>7 DEF RegistryInv, OfOutbox, Extends
<1>10. Planned(c, rs)
  <2>1. \A r \in records : Tracked(rs, r.version)
    BY <1>2 DEF Tracked
  <2> QED BY <1>1, <1>6, <1>7, <2>1, SavePlan
<1>11. /\ saving' = [control |-> c, records |-> rs, step |-> "control"]
       /\ UNCHANGED <<files, mode, task, clock, faults, supervisor>>
  BY <1>2 DEF Acknowledge, Save
<1>12. task' \in {None, "startup", "activation"} /\ faults' \in 0..MaxFaults /\ faults' >= faults
  BY <1>1, <1>11 DEF RetirementInv, RestInv
<1> QED BY <1>1, <1>8, <1>9, <1>10, <1>11, <1>12, SaveInv

(* The receipt that the record agrees with was written, so the version is retired
   in both files. *)
LEMMA ReceiptInv ==
    ASSUME RetirementInv, NEW p \in receipts, ProjectReceipt(p)
    PROVE  RetirementInv'
<1>1. /\ ControlInv(control) /\ RegistryInv(records, control) /\ faults \in 0..MaxFaults /\ faults \in Nat
      /\ Free /\ control \in ControlStates /\ p \in Receipts
      /\ p.version \in Answered
  BY BoundsAssumption DEF RetirementInv, FilesInv, ControlInv, RestInv, SupervisorInv, ProjectReceipt, Idle, Free, Answered
<1>2. PICK r \in records : /\ Matches(r, p) /\ r.receipt \in {None, p}
                           /\ Save(Retires(r, p), (records \ {r}) \cup {[r EXCEPT !.receipt = p]})
  BY DEF ProjectReceipt
<1>3. /\ r \in Records /\ p.cmd = r.cmd /\ p.version = r.version /\ p.version \in Versions
      /\ p.forcedAt # None => p.forcedAt >= r.deadline
  BY <1>1, <1>2 DEF Matches, RegistryInv, Registries, Receipts
<1>4. PICK life : life = IF r.receipt = None THEN "retired" ELSE control.lifecycle[p.version]
  OBVIOUS
<1>5. PICK c : c = [control EXCEPT !.lifecycle[p.version] = life]
  OBVIOUS
<1>6. PICK q : q = [r EXCEPT !.receipt = p]
  OBVIOUS
<1>7. PICK rs : rs = (records \ {r}) \cup {q}
  OBVIOUS
<1>8. /\ c \in ControlStates /\ c.route = control.route /\ c.generation = control.generation
      /\ c.leased = control.leased /\ c.outbox = control.outbox
      /\ \A v \in Versions : c.lifecycle[v] = IF v = p.version THEN life ELSE control.lifecycle[v]
  <2>1. control.lifecycle \in [Versions -> Lifecycles]
    BY <1>1, ControlForms
  <2>2. life \in Lifecycles
    BY <1>3, <1>4, <2>1 DEF Lifecycles
  <2>3. c = [control EXCEPT !.lifecycle = [@ EXCEPT ![p.version] = life]]
    BY <1>5
  <2>4. c.lifecycle = [control.lifecycle EXCEPT ![p.version] = life] /\ c.lifecycle \in [Versions -> Lifecycles]
    BY <1>1, <2>1, <2>2, <2>3 DEF ControlStates
  <2> QED BY <1>1, <1>3, <2>1, <2>3, <2>4 DEF ControlStates
<1>9. /\ q \in Records /\ q.cmd = r.cmd /\ q.version = r.version /\ q.receipt = p /\ q.deadline = r.deadline
  BY <1>1, <1>3, <1>6 DEF Records
<1>10. saving' = [control |-> c, records |-> rs, step |-> "control"] /\ Valid(c)
  <2>1. c = Retires(r, p)
    BY <1>4, <1>5 DEF Retires
  <2> QED BY <1>2, <1>6, <1>7, <2>1 DEF Save
<1>11. ControlInv(c)
  <2>1. \A v \in Versions : c.lifecycle[v] = "retired" => v \in Answered
    BY <1>1, <1>8 DEF ControlInv
  <2> QED BY <1>1, <1>8, <1>10, <2>1 DEF ControlInv
<1>12. RegistryInv(rs, c)
  <2>1. \A x \in rs : x = q \/ (x \in records /\ x # r)
    BY <1>7
  <2>2. rs \in Registries
    BY <1>1, <1>7, <1>9 DEF RegistryInv, Registries
  <2>3. OfOutbox(rs, c)
    BY <1>1, <1>8, <1>9, <2>1 DEF RegistryInv, OfOutbox
  <2>4. \A x \in records : x.version = r.version \/ x.cmd = r.cmd => x = r
    BY <1>1 DEF RegistryInv
  <2>5. \A x, y \in rs : x.version = y.version \/ x.cmd = y.cmd => x = y
    BY <1>1, <1>9, <2>1, <2>4 DEF RegistryInv
  <2>6. \A x \in rs : x.receipt # None =>
          /\ x.receipt \in receipts /\ x.receipt.cmd = x.cmd /\ x.receipt.version = x.version
          /\ x.receipt.forcedAt # None => x.receipt.forcedAt >= x.deadline
    BY <1>1, <1>3, <1>9, <2>1 DEF RegistryInv
  <2> QED BY <2>2, <2>3, <2>5, <2>6 DEF RegistryInv
<1>13. Planned(c, rs)
  <2>1. \A x \in records : Tracked(rs, x.version)
    <3>1. \A x \in records : x = r \/ x \in rs
      BY <1>7
    <3>2. q \in rs
      BY <1>7
    <3> QED BY <1>9, <3>1, <3>2 DEF Tracked
  <2> QED BY <1>1, <1>8, <2>1, SavePlan
<1>14. UNCHANGED <<files, mode, task, clock, faults, supervisor>>
  BY <1>2 DEF ProjectReceipt, Save
<1>15. task' \in {None, "startup", "activation"} /\ faults' \in 0..MaxFaults /\ faults' >= faults
  BY <1>1, <1>14 DEF RetirementInv, RestInv
<1>16. Extends(c, control)
  BY <1>8 DEF Extends
<1> QED BY <1>1, <1>10, <1>11, <1>12, <1>13, <1>14, <1>15, <1>16, SaveInv

-----------------------------------------------------------------------------
(* The three writes, and the ways one of them does not come about. *)

LEMMA WriteControlInv ==
    ASSUME RetirementInv, WriteControl
    PROVE  RetirementInv'
<1>1. PICK c, rs : c = saving.control /\ rs = saving.records
  OBVIOUS
<1>2. /\ UNCHANGED <<grants, records, ledger, mode, task, serving, known, substate, process, effect, journal,
                     receipts, clock, faults>>
      /\ control' = c /\ saving # None /\ saving \in Savings /\ saving.step = "control" /\ mode = "up"
  BY <1>1 DEF WriteControl, supervisor, RetirementInv, SavingInv
<1>3. ControlInv(c) /\ RegistryInv(rs, c) /\ Planned(c, rs) /\ Extends(c, control) /\ c \in ControlStates
  BY <1>1, <1>2 DEF RetirementInv, SavingInv, ControlInv
<1>4. /\ saving' \in Savings /\ saving'.control = c /\ saving'.records = rs /\ saving'.step = "registry"
      /\ saving' # None
  <2>1. saving' = [control |-> c, records |-> rs, step |-> "registry"]
    BY <1>1, <1>2 DEF WriteControl, Savings
  <2>2. saving' \in Savings
    BY <1>1, <1>2, <2>1 DEF Savings
  <2>3. saving' # None
    BY <2>2, NoneAssumption
  <2> QED BY <2>1, <2>2, <2>3
<1>5. OfOutbox(records, c) /\ OfOutbox(ledger, c)
  BY <1>3, OfOutboxGrows DEF RetirementInv, FilesInv, RegistryInv
<1>6. FilesInv'
  <2>1. ControlInv(control)'
    BY <1>2, <1>3 DEF ControlInv, Current, Valid, Answered
  <2>2. RegistryInv(records, control)'
    BY <1>2, <1>5 DEF RetirementInv, FilesInv, RegistryInv, OfOutbox
  <2>3. OfOutbox(ledger, control)'
    BY <1>2, <1>5 DEF OfOutbox
  <2> QED BY <1>2, <1>4, <2>1, <2>2, <2>3 DEF RetirementInv, FilesInv
<1>7. SavingInv'
  <2>1. ControlInv(saving.control)'
    BY <1>2, <1>3, <1>4 DEF ControlInv, Current, Valid, Answered
  <2>2. RegistryInv(saving.records, saving.control)'
    BY <1>2, <1>3, <1>4 DEF RegistryInv, OfOutbox
  <2>3. Planned(saving.control, saving.records)'
    BY <1>2, <1>3, <1>4 DEF Planned, Spent, Earned, Owed, Tracked, Current
  <2> QED BY <1>2, <1>4, <2>1, <2>2, <2>3 DEF SavingInv
<1>8. SupervisorInv'
  BY <1>2, <1>3, SupervisorStays DEF supervisor
<1>9. RestInv'
  BY <1>2 DEF RetirementInv, RestInv
<1> QED BY <1>6, <1>7, <1>8, <1>9 DEF RetirementInv

LEMMA WriteRegistryInv ==
    ASSUME RetirementInv, WriteRegistry
    PROVE  RetirementInv'
<1>1. PICK c, rs : c = control /\ rs = saving.records
  OBVIOUS
<1>2. /\ UNCHANGED <<grants, control, ledger, mode, task, serving, known, substate, process, effect, journal,
                     receipts, clock, faults>>
      /\ records' = rs /\ saving # None /\ saving \in Savings /\ saving.step = "registry" /\ mode = "up"
      /\ saving.control = c
  BY <1>1 DEF WriteRegistry, supervisor, RetirementInv, SavingInv
<1>3. ControlInv(c) /\ RegistryInv(rs, c) /\ Planned(c, rs) /\ c \in ControlStates
  BY <1>1, <1>2 DEF RetirementInv, SavingInv, ControlInv
<1>4. /\ saving' \in Savings /\ saving'.control = c /\ saving'.records = rs /\ saving'.step = "ledger"
      /\ saving' # None
  <2>1. saving' = [control |-> c, records |-> rs, step |-> "ledger"]
    BY <1>1, <1>2 DEF WriteRegistry, Savings
  <2>2. saving' \in Savings
    BY <1>1, <1>2, <2>1 DEF Savings
  <2>3. saving' # None
    BY <2>2, NoneAssumption
  <2> QED BY <2>1, <2>2, <2>3
<1>5. FilesInv'
  <2>1. ControlInv(control)'
    BY <1>1, <1>2, <1>3 DEF ControlInv, Current, Valid, Answered
  <2>2. RegistryInv(records, control)'
    BY <1>1, <1>2, <1>3 DEF RegistryInv, OfOutbox
  <2>3. Planned(control, records)'
    BY <1>1, <1>2, <1>3 DEF Planned, Spent, Earned, Owed, Tracked, Current
  <2> QED BY <1>2, <2>1, <2>2, <2>3 DEF RetirementInv, FilesInv, OfOutbox
<1>6. SavingInv'
  <2>1. ControlInv(saving.control)'
    BY <1>2, <1>3, <1>4 DEF ControlInv, Current, Valid, Answered
  <2>2. RegistryInv(saving.records, saving.control)'
    BY <1>2, <1>3, <1>4 DEF RegistryInv, OfOutbox
  <2>3. Planned(saving.control, saving.records)'
    BY <1>2, <1>3, <1>4 DEF Planned, Spent, Earned, Owed, Tracked, Current
  <2> QED BY <1>1, <1>2, <1>4, <2>1, <2>2, <2>3 DEF SavingInv
<1>7. SupervisorInv'
  BY <1>2, SupervisorStays DEF supervisor, Extends
<1>8. RestInv'
  BY <1>2 DEF RetirementInv, RestInv
<1> QED BY <1>5, <1>6, <1>7, <1>8 DEF RetirementInv

LEMMA WriteLedgerInv ==
    ASSUME RetirementInv, WriteLedger
    PROVE  RetirementInv'
<1>1. /\ UNCHANGED <<grants, control, records, mode, task, serving, known, substate, process, effect, journal,
                     receipts, clock, faults>>
      /\ ledger' = records /\ saving' = None /\ saving # None /\ saving.step = "ledger" /\ mode = "up"
  BY DEF WriteLedger, supervisor, RetirementInv, SavingInv
<1>2. ControlInv(control) /\ RegistryInv(records, control) /\ Planned(control, records)
  BY <1>1 DEF RetirementInv, FilesInv
<1>3. FilesInv'
  <2>1. ControlInv(control)'
    BY <1>1, <1>2 DEF ControlInv, Current, Valid, Answered
  <2>2. RegistryInv(records, control)'
    BY <1>1, <1>2 DEF RegistryInv, OfOutbox
  <2>3. Planned(control, records)'
    BY <1>1, <1>2 DEF Planned, Spent, Earned, Owed, Tracked, Current
  <2>4. ledger' \in Registries /\ OfOutbox(ledger, control)'
    BY <1>1, <1>2 DEF RegistryInv, OfOutbox
  <2> QED BY <1>1, <2>1, <2>2, <2>3, <2>4 DEF RetirementInv, FilesInv
<1>4. SavingInv'
  BY <1>1 DEF SavingInv
<1>5. SupervisorInv'
  BY <1>1, SupervisorStays DEF supervisor, Extends
<1>6. RestInv'
  BY <1>1 DEF RetirementInv, RestInv
<1> QED BY <1>3, <1>4, <1>5, <1>6 DEF RetirementInv

(* A mutation is given up after any of its writes: the record that may be lost is
   paid for by the fault. *)
LEMMA AbandonInv ==
    ASSUME RetirementInv, Fault, saving' = None, UNCHANGED <<files, supervisor, clock>>,
           mode' \in {"up", "down", "fenced"}, task' = None
    PROVE  RetirementInv'
<1>1. /\ UNCHANGED <<grants, control, records, ledger, serving, known, substate, process, effect, journal,
                     receipts, clock>>
      /\ faults \in Nat /\ faults' = faults + 1 /\ faults' \in 0..MaxFaults /\ control \in ControlStates
  BY BoundsAssumption DEF files, supervisor, Fault, RetirementInv, RestInv, FilesInv, ControlInv
<1>2. Spent(control, records) <= Earned(control) + faults + 1
  <2>0. Spent(control, records) \in Nat /\ Earned(control) \in Nat
    BY <1>1, SpentForms
  <2>1. CASE saving = None \/ saving.step # "registry"
    <3>1. Spent(control, records) <= Earned(control) + faults
      BY <2>1 DEF RetirementInv, FilesInv, Planned
    <3> QED BY <1>1, <2>0, <3>1
  <2>2. CASE saving # None /\ saving.step = "registry"
    <3>1. PICK rs : rs = saving.records
      OBVIOUS
    <3>2. Spent(control, rs) <= Earned(control) + faults
      BY <2>2, <3>1 DEF RetirementInv, SavingInv, Planned
    <3>3. Len(control.outbox) <= Spent(control, rs) /\ Spent(control, rs) \in Nat /\ Len(control.outbox) \in Nat
      BY <1>1, SpentForms
    <3>4. Spent(control, records) <= Len(control.outbox) + 1
      BY <1>1, SpentForms
    <3> QED BY <1>1, <2>0, <3>2, <3>3, <3>4
  <2> QED BY <2>1, <2>2
<1>3. FilesInv'
  <2>1. ControlInv(control)'
    BY <1>1 DEF RetirementInv, FilesInv, ControlInv, Current, Valid, Answered
  <2>2. RegistryInv(records, control)'
    BY <1>1 DEF RetirementInv, FilesInv, RegistryInv, OfOutbox
  <2>3. Planned(control, records)'
    <3>1. Spent(control, records)' = Spent(control, records) /\ Earned(control)' = Earned(control)
      BY <1>1 DEF Spent, Earned, Owed, Tracked, Current
    <3>2. Spent(control, records) <= Earned(control) + faults'
      BY <1>1, <1>2, SpentForms
    <3> QED BY <3>1, <3>2 DEF Planned
  <2> QED BY <1>1, <2>1, <2>2, <2>3 DEF RetirementInv, FilesInv, OfOutbox
<1>4. SavingInv'
  BY DEF SavingInv
<1>5. SupervisorInv'
  BY <1>1, SupervisorStays DEF supervisor, Extends
<1>6. RestInv'
  BY <1>1 DEF RetirementInv, RestInv
<1> QED BY <1>3, <1>4, <1>5, <1>6 DEF RetirementInv

(* Steps that only begin or end a task, or let time pass. *)
LEMMA QuietInv ==
    ASSUME RetirementInv, UNCHANGED <<files, saving, supervisor, faults>>, clock' \in Time,
           mode' \in {"up", "down", "fenced"}, task' \in {None, "startup", "activation"},
           mode' # "up" => task' = None /\ saving = None
    PROVE  RetirementInv'
<1>1. UNCHANGED <<grants, control, records, ledger, saving, serving, known, substate, process, effect, journal,
                  receipts, faults>>
  BY DEF files, supervisor
<1>2. FilesInv'
  <2>1. ControlInv(control)'
    BY <1>1 DEF RetirementInv, FilesInv, ControlInv, Current, Valid, Answered
  <2>2. RegistryInv(records, control)'
    BY <1>1 DEF RetirementInv, FilesInv, RegistryInv, OfOutbox
  <2>3. Planned(control, records)' = Planned(control, records)
    BY <1>1 DEF Planned, Spent, Earned, Owed, Tracked, Current
  <2> QED BY <1>1, <2>1, <2>2, <2>3 DEF RetirementInv, FilesInv, OfOutbox
<1>3. SavingInv'
  <2> SUFFICES ASSUME saving # None
               PROVE  /\ mode' = "up" /\ ControlInv(saving.control)' /\ RegistryInv(saving.records, saving.control)'
                      /\ Planned(saving.control, saving.records)'
    BY <1>1 DEF RetirementInv, SavingInv, Extends
  <2>1. ControlInv(saving.control)'
    BY <1>1 DEF RetirementInv, SavingInv, ControlInv, Current, Valid, Answered
  <2>2. RegistryInv(saving.records, saving.control)'
    BY <1>1 DEF RetirementInv, SavingInv, RegistryInv, OfOutbox
  <2>3. Planned(saving.control, saving.records)'
    BY <1>1 DEF RetirementInv, SavingInv, Planned, Spent, Earned, Owed, Tracked, Current
  <2> QED BY <2>1, <2>2, <2>3
<1>4. SupervisorInv'
  BY <1>1, SupervisorStays DEF supervisor, Extends
<1>5. RestInv'
  BY <1>1 DEF RetirementInv, RestInv
<1> QED BY <1>2, <1>3, <1>4, <1>5 DEF RetirementInv

(* A new activation leaves the events before it as they are. *)
LEMMA GrantInv ==
    ASSUME RetirementInv, NEW v \in Versions, Grant(v)
    PROVE  RetirementInv'
<1>1. /\ UNCHANGED <<control, records, ledger, mode, task, saving, serving, known, substate, process, effect,
                     journal, receipts, clock, faults>>
      /\ saving = None /\ grants' = Append(grants, v) /\ Len(grants) < MaxGrants /\ grants \in Seq(Versions)
  BY DEF Grant, kernel, supervisor, Syncing, Free, RetirementInv, FilesInv
<1>2. ControlInv(control) /\ control \in ControlStates /\ control.generation \in Nat /\ Len(grants) \in Nat
      /\ control.generation <= Len(grants) /\ Planned(control, records)
  BY <1>1, ControlForms, CurrentForms DEF RetirementInv, FilesInv, ControlInv
<1>3. /\ grants' \in Seq(Versions) /\ Len(grants') = Len(grants) + 1
      /\ DOMAIN grants = 1..Len(grants) /\ DOMAIN grants' = 1..(Len(grants) + 1)
      /\ \A i \in 1..Len(grants) : grants'[i] = grants[i]
  BY <1>1, AppendFacts
<1>4. /\ Current(control.generation)' = Current(control.generation)
      /\ Current(control.generation - 1)' = Current(control.generation - 1)
  <2>1. \A g \in Int : g <= Len(grants) => (g \in DOMAIN grants <=> g \in DOMAIN grants')
    BY <1>2, <1>3
  <2>2. control.generation \in Int /\ control.generation - 1 \in Int /\ control.generation - 1 <= Len(grants)
    BY <1>2
  <2> QED BY <1>1, <1>2, <1>3, <2>1, <2>2 DEF Current
<1>5. FilesInv'
  <2>1. \A i \in 1..control.generation : grants'[i] \in control.leased
    BY <1>2, <1>3 DEF ControlInv
  <2>2. control.generation <= Len(grants') /\ Len(grants') <= MaxGrants
    BY <1>1, <1>2, <1>3, BoundsAssumption
  <2>3. ControlInv(control)'
    BY <1>1, <1>2, <1>4, <2>1, <2>2 DEF ControlInv, Valid, Answered
  <2>4. RegistryInv(records, control)'
    BY <1>1 DEF RetirementInv, FilesInv, RegistryInv, OfOutbox
  <2>5. Planned(control, records)'
    BY <1>1, <1>2, <1>4 DEF Planned, Spent, Earned, Owed, Tracked
  <2> QED BY <1>1, <1>3, <2>2, <2>3, <2>4, <2>5 DEF RetirementInv, FilesInv, OfOutbox
<1>6. SavingInv'
  BY <1>1 DEF SavingInv
<1>7. SupervisorInv'
  BY <1>1, SupervisorStays DEF supervisor, Extends
<1>8. RestInv'
  BY <1>1 DEF RetirementInv, RestInv
<1> QED BY <1>5, <1>6, <1>7, <1>8 DEF RetirementInv

-----------------------------------------------------------------------------
(* The supervisor. *)

LEMMA TakenForms ==
    ASSUME RetirementInv
    PROVE  Taken \in Registries /\ OfOutbox(Taken, control)
BY DEF RetirementInv, FilesInv, SupervisorInv, Taken, Registries, OfOutbox

(* The drain of c moves in the journal before its effect, or without one. *)
LEMMA ReachedInv ==
    ASSUME RetirementInv, NEW c \in Commands, Reaches(c), KernelSide,
           NEW word \in {"received", "rejected"}, journal' = [journal EXCEPT ![c] = word],
           known' \in {known, Taken}, UNCHANGED <<serving, process, receipts, faults>>,
           substate' \in [Versions -> {"running", "retiring", "stopped"}],
           \/ effect' = effect /\ known \subseteq known'
           \/ /\ effect' = effect \cup {[cmd |-> c, phase |-> "stopping", forcedAt |-> None]}
              /\ word = "received" /\ Held(c, known') /\ known \subseteq known'
    PROVE  RetirementInv'
<1>1. /\ UNCHANGED <<grants, control, records, ledger, mode, task, saving, clock>>
      /\ serving /\ c \notin Executing /\ journal[c] \in {"none", "received"}
  BY DEF KernelSide, files, kernel, Reaches
<1>2. /\ c \in Ids /\ Commands' = Commands /\ \A i \in Commands : Version(i)' = Version(i)
      /\ journal \in [Ids -> {"none", "received", "applied", "rejected"}]
  BY <1>1, OutboxBound DEF RetirementInv, RestInv, Commands, Version
<1>3. /\ journal' \in [Ids -> {"none", "received", "applied", "rejected"}]
      /\ journal'[c] = word /\ \A i \in Ids : i # c => journal'[i] = journal[i]
  BY <1>2
<1>4. FilesInv' /\ SavingInv' /\ RestInv'
  <2>1. faults' \in 0..MaxFaults /\ faults' >= faults /\ process' \in [Versions -> {"running", "ended"}]
    BY BoundsAssumption DEF RetirementInv, RestInv
  <2> QED BY <1>3, <2>1, KernelStays
<1>5. PICK e : e = [cmd |-> c, phase |-> "stopping", forcedAt |-> None]
  OBVIOUS
<1>6. e \in Effects /\ e.cmd = c /\ e.forcedAt = None
  BY <1>2, <1>5 DEF Effects
<1>7. \A d \in effect : d.cmd # c /\ d.cmd \in Ids
  BY <1>1 DEF Executing, RetirementInv, SupervisorInv, Effects
<1>8. \A p \in receipts : p.cmd # c /\ p.cmd \in Ids
  BY <1>1 DEF RetirementInv, SupervisorInv, Receipts, Proof
<1>9. known' \in Registries /\ OfOutbox(known, control)'
  BY <1>1, TakenForms DEF RetirementInv, SupervisorInv, OfOutbox
<1>10. \A d \in effect' : d \in effect \/ (d = e /\ word = "received" /\ Held(c, known'))
  BY <1>5
<1>11. \A d \in effect :
         /\ d.cmd \in Commands' /\ Held(d.cmd, known') /\ journal'[d.cmd] = "received"
         /\ d.forcedAt # None => process'[Version(d.cmd)'] = "ended"
  BY <1>2, <1>3, <1>7 DEF RetirementInv, SupervisorInv, Held
<1>12. SupervisorInv'
  <2>1. effect' \subseteq Effects
    BY <1>6, <1>10 DEF RetirementInv, SupervisorInv
  <2>2. \A d \in effect' :
          /\ d.cmd \in Commands' /\ Held(d.cmd, known') /\ journal'[d.cmd] = "received"
          /\ d.forcedAt # None => process'[Version(d.cmd)'] = "ended"
    BY <1>2, <1>3, <1>6, <1>10, <1>11
  <2>3. \A d, f \in effect' : d.cmd = f.cmd => d = f
    BY <1>6, <1>7, <1>10 DEF RetirementInv, SupervisorInv
  <2>4. \A p \in receipts' : Proof(p, p.version)'
    BY <1>2, <1>3, <1>8 DEF RetirementInv, SupervisorInv, Proof, Commands, Version
  <2>5. ~serving' => effect' = {}
    BY <1>1
  <2>6. receipts' \subseteq Receipts
    BY DEF RetirementInv, SupervisorInv
  <2>7. \A d \in effect' : (d.forcedAt # None => process[Version(d.cmd)] = "ended")'
    BY <2>2 DEF Version
  <2> QED BY <1>9, <2>1, <2>2, <2>3, <2>4, <2>5, <2>6, <2>7 DEF SupervisorInv, Held, Version
<1> QED BY <1>4, <1>12 DEF RetirementInv

LEMMA HandleInv ==
    ASSUME RetirementInv, NEW c \in Commands, Accept(c) \/ Reject(c) \/ Unreadable(c)
    PROVE  RetirementInv'
<1>1. known \subseteq Taken /\ substate \in [Versions -> {"running", "retiring", "stopped"}]
      /\ Version(c) \in Versions
  BY OutboxBound DEF Taken, RetirementInv, RestInv
<1>2. CASE Accept(c)
  <2>1. substate' \in [Versions -> {"running", "retiring", "stopped"}] /\ known' \in {known, Taken}
        /\ known \subseteq known' /\ Held(c, known')
    BY <1>1, <1>2 DEF Accept
  <2>2. PICK word : word = "received"
    OBVIOUS
  <2> QED BY <1>2, <2>1, <2>2, ReachedInv DEF Accept
<1>3. CASE Reject(c)
  <2>1. substate' \in [Versions -> {"running", "retiring", "stopped"}] /\ known' \in {known, Taken}
        /\ known \subseteq known'
    BY <1>1, <1>3 DEF Reject
  <2>2. PICK word : word = "rejected"
    OBVIOUS
  <2> QED BY <1>3, <2>1, <2>2, ReachedInv DEF Reject
<1>4. CASE Unreadable(c)
  <2>1. substate' \in [Versions -> {"running", "retiring", "stopped"}] /\ known' \in {known, Taken}
        /\ known \subseteq known'
    BY <1>1, <1>4 DEF Unreadable
  <2>2. PICK word : word = "received"
    OBVIOUS
  <2> QED BY <1>4, <2>1, <2>2, ReachedInv DEF Unreadable
<1> QED BY <1>2, <1>3, <1>4

LEMMA StopInv ==
    ASSUME RetirementInv, NEW e \in effect, Stop(e)
    PROVE  RetirementInv'
<1>1. /\ UNCHANGED <<grants, control, records, ledger, mode, task, saving, clock>> /\ KernelSide
      /\ UNCHANGED <<serving, known, journal, receipts, faults>> /\ serving
  BY DEF Stop, KernelSide, files, kernel
<1>2. /\ e \in Effects /\ e.cmd \in Commands /\ Version(e.cmd) \in Versions /\ clock \in Time
      /\ process \in [Versions -> {"running", "ended"}]
      /\ substate \in [Versions -> {"running", "retiring", "stopped"}]
  BY OutboxBound DEF RetirementInv, RestInv, SupervisorInv
<1>4. /\ process' \in [Versions -> {"running", "ended"}]
      /\ \A v \in Versions : process[v] = "ended" => process'[v] = "ended"
      /\ substate' \in [Versions -> {"running", "retiring", "stopped"}]
  BY <1>2 DEF Stop, Ending
<1>5. \E d \in Effects : /\ d.cmd = e.cmd /\ effect' = (effect \ {e}) \cup {d}
                         /\ d.forcedAt # None => process'[Version(e.cmd)] = "ended"
  <2>0. e.forcedAt # None => process[Version(e.cmd)] = "ended"
    BY DEF RetirementInv, SupervisorInv
  <2>1. CASE effect' = (effect \ {e}) \cup {[e EXCEPT !.phase = "stopped"]}
    <3>1. PICK d : d = [e EXCEPT !.phase = "stopped"]
      OBVIOUS
    <3>2. d \in Effects /\ d.cmd = e.cmd /\ d.forcedAt = e.forcedAt
      BY <1>2, <3>1 DEF Effects
    <3> QED BY <1>2, <1>4, <2>0, <2>1, <3>1, <3>2
  <2>2. CASE process' = Ending(e) /\ effect' = (effect \ {e}) \cup {[e EXCEPT !.phase = "stopped", !.forcedAt = clock]}
    BY <1>2, <2>2 DEF Effects, Ending
  <2> QED BY <2>1, <2>2 DEF Stop
<1>6. PICK d \in Effects : /\ d.cmd = e.cmd /\ effect' = (effect \ {e}) \cup {d}
                           /\ d.forcedAt # None => process'[Version(e.cmd)] = "ended"
  BY <1>5
<1>7. FilesInv' /\ SavingInv' /\ RestInv'
  <2>1. faults' \in 0..MaxFaults /\ faults' >= faults
        /\ journal' \in [Ids -> {"none", "received", "applied", "rejected"}]
    BY <1>1, BoundsAssumption DEF RetirementInv, RestInv
  <2> QED BY <1>1, <1>4, <2>1, KernelStays
<1>8. SupervisorInv'
  <2>1. \A i \in Commands : i \in Commands' /\ Version(i)' = Version(i) /\ Version(i) \in Versions
    BY <1>1, OutboxBound DEF Commands, Version
  <2>2. \A f \in effect' : f = d \/ (f \in effect /\ f # e)
    BY <1>6
  <2>3. \A f \in effect' :
          /\ f.cmd \in Commands' /\ Held(f.cmd, known') /\ journal'[f.cmd] = "received"
          /\ f.forcedAt # None => process'[Version(f.cmd)'] = "ended"
    BY <1>1, <1>2, <1>4, <1>6, <2>1, <2>2 DEF RetirementInv, SupervisorInv
  <2>4. \A f, g \in effect' : f.cmd = g.cmd => f = g
    BY <1>6, <2>2 DEF RetirementInv, SupervisorInv
  <2>5. \A p \in receipts' : Proof(p, p.version)'
    <3>1. \A p \in receipts : Proof(p, p.version) /\ journal[p.cmd] = "applied" /\ p.version \in Versions
      BY DEF RetirementInv, SupervisorInv, Proof, Receipts
    <3> QED BY <1>1, <1>4, <3>1, ExtendsSelf, ProofStays
  <2>6. known' \in Registries /\ OfOutbox(known, control)' /\ effect' \subseteq Effects /\ receipts' \subseteq Receipts
    BY <1>1, <1>6 DEF RetirementInv, SupervisorInv, OfOutbox
  <2>7. \A f \in effect' : (f.forcedAt # None => process[Version(f.cmd)] = "ended")'
    BY <2>3 DEF Version
  <2> QED BY <1>1, <2>3, <2>4, <2>5, <2>6, <2>7 DEF SupervisorInv, Held, Version
<1> QED BY <1>7, <1>8 DEF RetirementInv

LEMMA SurvivesInv ==
    ASSUME RetirementInv, NEW e \in effect, Survives(e)
    PROVE  RetirementInv'
<1>1. /\ UNCHANGED <<grants, control, records, ledger, mode, task, saving, clock>> /\ KernelSide
      /\ UNCHANGED <<serving, known, process, receipts>> /\ serving /\ effect' = effect \ {e}
  BY DEF Survives, KernelSide, files, kernel
<1>2. /\ e \in Effects /\ e.cmd \in Ids /\ e.cmd \in Commands /\ Version(e.cmd) \in Versions
      /\ journal[e.cmd] = "received" /\ journal \in [Ids -> {"none", "received", "applied", "rejected"}]
      /\ substate \in [Versions -> {"running", "retiring", "stopped"}]
  BY OutboxBound DEF RetirementInv, RestInv, SupervisorInv
<1>3. /\ substate' \in [Versions -> {"running", "retiring", "stopped"}]
      /\ journal' \in [Ids -> {"none", "received", "applied", "rejected"}]
      /\ \A i \in Ids : i # e.cmd => journal'[i] = journal[i]
  BY <1>2 DEF Survives
<1>4. FilesInv' /\ SavingInv' /\ RestInv'
  <2>1. faults' \in 0..MaxFaults /\ faults' >= faults /\ process' \in [Versions -> {"running", "ended"}]
    BY <1>1, BoundsAssumption DEF RetirementInv, RestInv, Survives, Fault
  <2> QED BY <1>1, <1>3, <2>1, KernelStays
<1>5. SupervisorInv'
  <2>1. \A i \in Commands : i \in Commands' /\ Version(i)' = Version(i)
    BY <1>1 DEF Commands, Version
  <2>2. \A f \in effect' : f.cmd # e.cmd /\ f.cmd \in Ids
    BY <1>1 DEF RetirementInv, SupervisorInv, Effects
  <2>3. \A f \in effect' :
          /\ f.cmd \in Commands' /\ Held(f.cmd, known') /\ journal'[f.cmd] = "received"
          /\ f.forcedAt # None => process'[Version(f.cmd)'] = "ended"
    BY <1>1, <1>3, <2>1, <2>2 DEF RetirementInv, SupervisorInv
  <2>4. \A p \in receipts' : Proof(p, p.version)'
    <3>1. \A p \in receipts : Proof(p, p.version) /\ journal[p.cmd] = "applied" /\ p.cmd \in Ids /\ p.cmd # e.cmd
      BY <1>2 DEF RetirementInv, SupervisorInv, Proof, Receipts
    <3> QED BY <1>1, <1>3, <3>1, ExtendsSelf, ProofStays
  <2>5. known' \in Registries /\ OfOutbox(known, control)' /\ effect' \subseteq Effects /\ receipts' \subseteq Receipts
        /\ \A f, g \in effect' : f.cmd = g.cmd => f = g
    BY <1>1 DEF RetirementInv, SupervisorInv, OfOutbox
  <2>6. \A f \in effect' : (f.forcedAt # None => process[Version(f.cmd)] = "ended")'
    BY <2>3 DEF Version
  <2> QED BY <1>1, <2>3, <2>4, <2>5, <2>6 DEF SupervisorInv, Held, Version
<1> QED BY <1>4, <1>5 DEF RetirementInv

LEMMA CompleteInv ==
    ASSUME RetirementInv, NEW e \in effect, Complete(e)
    PROVE  RetirementInv'
<1>1. /\ UNCHANGED <<grants, control, records, ledger, mode, task, saving, clock>> /\ KernelSide
      /\ UNCHANGED <<serving, known, substate, process, faults>> /\ serving /\ effect' = effect \ {e}
      /\ e.phase = "stopped"
  BY DEF Complete, KernelSide, files, kernel
<1>2. /\ e \in Effects /\ e.cmd \in Ids /\ e.cmd \in Commands /\ Held(e.cmd, known)
      /\ e.forcedAt # None => process[Version(e.cmd)] = "ended"
      /\ journal \in [Ids -> {"none", "received", "applied", "rejected"}]
  BY <1>1, OutboxBound DEF RetirementInv, RestInv, SupervisorInv
<1>3. PICK r : r = RecordOf(e.cmd)
  OBVIOUS
<1>4. /\ r \in known /\ r.cmd = e.cmd /\ r.version = Version(e.cmd) /\ r.version \in Versions
      /\ r.generation \in Nat /\ r.deadline \in Time
  <2>1. r \in known /\ r.cmd = e.cmd
    BY <1>2, <1>3 DEF Held, RecordOf
  <2> QED BY <2>1, RecordForms DEF RetirementInv, SupervisorInv, OfOutbox, Version
<1>5. PICK p : p = [cmd |-> e.cmd, version |-> r.version, generation |-> r.generation,
                    deadline |-> r.deadline, forcedAt |-> e.forcedAt]
  OBVIOUS
<1>6. /\ p \in Receipts /\ p.cmd = e.cmd /\ p.version = Version(e.cmd) /\ receipts' = receipts \cup {p}
      /\ p.forcedAt = e.forcedAt
  <2>1. e.forcedAt \in Time \cup {None}
    BY <1>2 DEF Effects
  <2>2. p \in Receipts
    BY <1>2, <1>4, <1>5, <2>1 DEF Receipts
  <2> QED BY <1>3, <1>4, <1>5, <2>2 DEF Complete
<1>7. /\ journal' \in [Ids -> {"none", "received", "applied", "rejected"}] /\ journal'[e.cmd] = "applied"
      /\ \A i \in Ids : i # e.cmd => journal'[i] = journal[i]
  BY <1>2 DEF Complete
<1>8. FilesInv' /\ SavingInv' /\ RestInv'
  <2>1. faults' \in 0..MaxFaults /\ faults' >= faults /\ process' \in [Versions -> {"running", "ended"}]
        /\ substate' \in [Versions -> {"running", "retiring", "stopped"}]
    BY <1>1, BoundsAssumption DEF RetirementInv, RestInv
  <2> QED BY <1>1, <1>6, <1>7, <2>1, KernelStays
<1>9. SupervisorInv'
  <2>1. \A i \in Commands : i \in Commands' /\ Version(i)' = Version(i)
    BY <1>1 DEF Commands, Version
  <2>2. \A f \in effect' : f.cmd # e.cmd /\ f.cmd \in Ids
    BY <1>1 DEF RetirementInv, SupervisorInv, Effects
  <2>3. \A f \in effect' :
          /\ f.cmd \in Commands' /\ Held(f.cmd, known') /\ journal'[f.cmd] = "received"
          /\ f.forcedAt # None => process'[Version(f.cmd)'] = "ended"
    BY <1>1, <1>7, <2>1, <2>2 DEF RetirementInv, SupervisorInv
  <2>4. \A q \in receipts' : Proof(q, q.version)'
    <3>1. \A q \in receipts : q.cmd \in Ids /\ journal'[q.cmd] = "applied" /\ Proof(q, q.version) /\ q \in receipts'
      BY <1>6, <1>7 DEF RetirementInv, SupervisorInv, Receipts, Proof
    <3>2. Proof(p, p.version)'
      BY <1>1, <1>2, <1>4, <1>6, <1>7, <2>1 DEF Proof
    <3>3. \A q \in receipts : Proof(q, q.version)'
      BY <1>1, <3>1, ExtendsSelf, ProofStays
    <3> QED BY <1>6, <3>2, <3>3
  <2>5. known' \in Registries /\ OfOutbox(known, control)' /\ effect' \subseteq Effects /\ receipts' \subseteq Receipts
        /\ \A f, g \in effect' : f.cmd = g.cmd => f = g
    BY <1>1, <1>6 DEF RetirementInv, SupervisorInv, OfOutbox
  <2>6. \A f \in effect' : (f.forcedAt # None => process[Version(f.cmd)] = "ended")'
    BY <2>3 DEF Version
  <2> QED BY <1>1, <2>3, <2>4, <2>5, <2>6 DEF SupervisorInv, Held, Version
<1> QED BY <1>8, <1>9 DEF RetirementInv

LEMMA SupervisorCrashInv ==
    ASSUME RetirementInv, SupervisorCrash
    PROVE  RetirementInv'
<1>1. KernelSide /\ UNCHANGED <<substate, journal, receipts>> /\ serving' = FALSE /\ known' = {} /\ effect' = {}
      /\ process' = [v \in Versions |-> "ended"] /\ control' = control
  BY DEF SupervisorCrash, KernelSide, files
<1>2. FilesInv' /\ SavingInv' /\ RestInv'
  <2>1. /\ faults' \in 0..MaxFaults /\ faults' >= faults /\ process' \in [Versions -> {"running", "ended"}]
        /\ \A v \in Versions : process'[v] = "ended"
        /\ substate' \in [Versions -> {"running", "retiring", "stopped"}]
        /\ journal' \in [Ids -> {"none", "received", "applied", "rejected"}]
    BY <1>1, BoundsAssumption DEF RetirementInv, RestInv, SupervisorCrash, Fault
  <2> QED BY <1>1, <2>1, KernelStays
<1>3. SupervisorInv'
  <2>1. \A p \in receipts' : Proof(p, p.version)'
    BY <1>1 DEF RetirementInv, SupervisorInv, Receipts, Proof, Commands, Version
  <2> QED BY <1>1, <2>1 DEF RetirementInv, SupervisorInv, Registries, OfOutbox
<1> QED BY <1>2, <1>3 DEF RetirementInv

LEMMA SupervisorStartInv ==
    ASSUME RetirementInv, SupervisorStart
    PROVE  RetirementInv'
<1>1. KernelSide /\ UNCHANGED <<process, effect, journal, receipts, faults>> /\ serving' /\ known' = ledger
      /\ control' = control /\ effect = {}
  BY DEF SupervisorStart, KernelSide, files, RetirementInv, SupervisorInv
<1>2. substate' \in [Versions -> {"running", "retiring", "stopped"}]
  BY DEF SupervisorStart
<1>3. FilesInv' /\ SavingInv' /\ RestInv'
  <2>1. faults' \in 0..MaxFaults /\ faults' >= faults /\ process' \in [Versions -> {"running", "ended"}]
        /\ journal' \in [Ids -> {"none", "received", "applied", "rejected"}]
    BY <1>1, BoundsAssumption DEF RetirementInv, RestInv
  <2> QED BY <1>1, <1>2, <2>1, KernelStays
<1>4. SupervisorInv'
  BY <1>1 DEF RetirementInv, FilesInv, SupervisorInv, OfOutbox, Proof, Commands, Version
<1> QED BY <1>3, <1>4 DEF RetirementInv

-----------------------------------------------------------------------------

LEMMA RetirementStep ==
    ASSUME RetirementInv, [Next]_vars
    PROVE  RetirementInv'
<1>1. /\ clock \in Time /\ clock \in Nat /\ MaxTime \in Nat /\ mode \in {"up", "down", "fenced"}
      /\ task \in {None, "startup", "activation"} /\ (mode # "up" => task = None /\ saving = None)
  BY BoundsAssumption DEF RetirementInv, RestInv, Time
<1>2. CASE WriteControl
  BY <1>2, WriteControlInv
<1>3. CASE WriteRegistry
  BY <1>3, WriteRegistryInv
<1>4. CASE WriteLedger
  BY <1>4, WriteLedgerInv
<1>5. CASE Flip
  BY <1>5, FlipInv
<1>6. CASE Retrace
  BY <1>6, RetraceInv
<1>7. CASE SyncFails
  <2>1. UNCHANGED <<files, saving, supervisor, faults, clock>> /\ task' = None /\ mode' \in {"up", "fenced"} /\ saving = None
    BY <1>7 DEF SyncFails, Syncing, Free
  <2> QED BY <1>1, <2>1, QuietInv
<1>8. CASE EndTask
  <2>1. UNCHANGED <<files, saving, supervisor, faults, clock, mode>> /\ task' = None /\ saving = None
    BY <1>8 DEF EndTask, Syncing, Free
  <2> QED BY <1>1, <2>1, QuietInv
<1>9. CASE Start
  <2>1. UNCHANGED <<files, saving, supervisor, faults, clock>> /\ task' = "startup" /\ mode' = "up"
    BY <1>9 DEF Start
  <2> QED BY <1>1, <2>1, QuietInv
<1>10. CASE BeginActivation
  <2>1. UNCHANGED <<files, saving, supervisor, faults, clock, mode>> /\ task' = "activation" /\ mode = "up"
    BY <1>10 DEF BeginActivation, Idle, Free
  <2> QED BY <1>1, <2>1, QuietInv
<1>11. CASE Tick
  <2>1. UNCHANGED <<files, saving, supervisor, faults, mode, task>> /\ clock' \in Time
    BY <1>1, <1>11 DEF Tick, kernel, Time
  <2> QED BY <1>1, <2>1, QuietInv
<1>12. ASSUME NEW v \in Versions, Grant(v) PROVE RetirementInv'
  BY <1>12, GrantInv
<1>13. CASE Handle
  BY <1>13, HandleInv DEF Handle
<1>14. CASE Finish
  BY <1>14, StopInv, CompleteInv DEF Finish
<1>15. CASE Settle
  BY <1>15, AcknowledgeInv DEF Settle
<1>16. ASSUME NEW p \in receipts, ProjectReceipt(p) PROVE RetirementInv'
  BY <1>16, ReceiptInv
<1>17. CASE SupervisorStart
  BY <1>17, SupervisorStartInv
<1>18. CASE RecordAttempt
  BY <1>18, AttemptInv
<1>19. CASE WriteError
  <2>1. Fault /\ saving' = None /\ UNCHANGED <<files, supervisor, clock>> /\ mode' \in {"up", "down", "fenced"} /\ task' = None
    BY <1>19 DEF WriteError
  <2> QED BY <2>1, AbandonInv
<1>20. CASE Crash
  <2>1. Fault /\ saving' = None /\ UNCHANGED <<files, supervisor, clock>> /\ mode' \in {"up", "down", "fenced"} /\ task' = None
    BY <1>20 DEF Crash
  <2> QED BY <2>1, AbandonInv
<1>21. CASE SupervisorCrash
  BY <1>21, SupervisorCrashInv
<1>22. ASSUME NEW e \in effect, Survives(e) PROVE RetirementInv'
  BY <1>22, SurvivesInv
<1>23. CASE UNCHANGED vars
  <2>1. UNCHANGED <<files, saving, supervisor, faults, clock, mode, task>>
    BY <1>23 DEF vars, kernel
  <2> QED BY <1>1, <2>1, QuietInv
<1> QED BY <1>2, <1>3, <1>4, <1>5, <1>6, <1>7, <1>8, <1>9, <1>10, <1>11, <1>12, <1>13, <1>14, <1>15, <1>16,
           <1>17, <1>18, <1>19, <1>20, <1>21, <1>22, <1>23 DEF Next, KernelStep

(* The control file, the records, the receipts and the processes agree in every
   reachable state, between any two writes of save_control_state and after any
   crash. *)
THEOREM RetirementInvariance == Spec => []RetirementInv
<1>1. Init => RetirementInv
  BY RetirementInit
<1>2. RetirementInv /\ [Next]_vars => RetirementInv'
  BY RetirementStep
<1> QED BY <1>1, <1>2, PTL DEF Spec

(* Every variable keeps its type, and a version or a command id has one record:
   the ids suffice for every drain of authorize_drain_with_retirement. *)
THEOREM RetirementIsTyped == Spec => []TypeOK
<1>1. RetirementInv => TypeOK
  <2> SUFFICES ASSUME RetirementInv
               PROVE  TypeOK
    OBVIOUS
  <2>1. Executing \subseteq Commands
    BY DEF Executing, RetirementInv, SupervisorInv
  <2>2. saving \in Savings \cup {None}
    BY DEF RetirementInv, SavingInv
  <2>3. Commands \subseteq Ids
    BY OutboxBound
  <2> QED BY <2>1, <2>2, <2>3 DEF RetirementInv, FilesInv, SupervisorInv, RestInv, ControlInv, RegistryInv, TypeOK
<1> QED BY <1>1, RetirementInvariance, PTL

(* The route points at no execution that is being drained, however many
   activations and catch-ups of sync_lifecycle_after_activation there were:
   a drained execution was granted before, and a grant is never repeated. *)
THEOREM RoutesAreNotDrained == Spec => []RouteIsNotDrained
<1>1. RetirementInv => RouteIsNotDrained
  BY DEF RetirementInv, FilesInv, ControlInv, RouteIsNotDrained, Commands
<1> QED BY <1>1, RetirementInvariance, PTL

(* A version that the control file shows as retired, and a record with a receipt,
   have a receipt that the supervisor wrote for a drain of that version, applied in
   its journal; a forced one is of a process that has ended, past the deadline: the
   Kernel takes a receipt only for the record of its own command
   (project_drain_receipt). *)
THEOREM RetiredVersionsHaveProof == Spec => []RetiredHasProof
<1>1. RetirementInv => RetiredHasProof
  <2> SUFFICES ASSUME RetirementInv
               PROVE  RetiredHasProof
    OBVIOUS
  <2>1. \A p \in receipts : Proof(p, p.version)
    BY DEF RetirementInv, SupervisorInv
  <2>2. \A v \in Versions : control.lifecycle[v] = "retired" => v \in Answered
    BY DEF RetirementInv, FilesInv, ControlInv
  <2>3. \A r \in records : r.receipt # None =>
         /\ r.receipt \in receipts /\ r.receipt.cmd = r.cmd /\ r.receipt.version = r.version
         /\ r.receipt.forcedAt # None => r.receipt.forcedAt >= r.deadline
    BY DEF RetirementInv, FilesInv, RegistryInv
  <2>4. \A v \in Answered : \E p \in receipts : p.version = v
    BY DEF Answered
  <2> QED BY <2>1, <2>2, <2>3, <2>4 DEF RetiredHasProof
<1> QED BY <1>1, RetirementInvariance, PTL

-----------------------------------------------------------------------------
(* The refinement of Succession.                                           *)

(* What a control state says of the past: the versions that had the route hold a
   lease, and only they are retired. *)
History(c) == c.leased = Had(c.generation) /\ RetiredIn(c) \subseteq c.leased

(* What one mutation makes of the control state c: the route advances, a drain
   that was missing is planned, or a version is shown as retired. *)
Advances(c, d) ==
    /\ d.generation = c.generation + 1 /\ grants[d.generation] \notin c.leased
    /\ RetiredIn(d) = RetiredIn(c)
    /\ DrainedIn(d) \in {DrainedIn(c), DrainedIn(c) \cup (c.leased \cap {c.route})}
Plans(c, d) ==
    /\ d.generation = c.generation /\ RetiredIn(d) = RetiredIn(c)
    /\ \E v \in c.leased \ {c.route} : DrainedIn(d) = DrainedIn(c) \cup {v}
Shows(c, d) ==
    /\ d.generation = c.generation /\ DrainedIn(d) = DrainedIn(c)
    /\ \E v \in DrainedIn(c) : RetiredIn(d) = RetiredIn(c) \cup {v}
Keeps(c, d) ==
    d.generation = c.generation /\ RetiredIn(d) = RetiredIn(c) /\ DrainedIn(d) = DrainedIn(c)
Moves(c, d) == Advances(c, d) \/ Plans(c, d) \/ Shows(c, d) \/ Keeps(c, d)

HistoryInv ==
    /\ History(control)
    /\ saving # None => /\ History(saving.control)
                        /\ saving.step = "control" => Moves(control, saving.control)

LEMMA SaveHistory ==
    ASSUME HistoryInv, NEW c, NEW rs, saving' = [control |-> c, records |-> rs, step |-> "control"],
           UNCHANGED <<grants, control>>, History(c), Moves(control, c)
    PROVE  HistoryInv'
<1>1. saving'.control = c
  OBVIOUS
<1>2. History(control)' /\ History(saving.control)'
  BY <1>1 DEF HistoryInv, History, Had, RetiredIn
<1>3. /\ RetiredIn(control)' = RetiredIn(control) /\ DrainedIn(control)' = DrainedIn(control)
      /\ RetiredIn(saving.control)' = RetiredIn(c) /\ DrainedIn(saving.control)' = DrainedIn(c)
  BY <1>1 DEF RetiredIn, DrainedIn
<1>4. Moves(control, saving.control)'
  BY <1>1, <1>3 DEF Moves, Advances, Plans, Shows, Keeps
<1> QED BY <1>2, <1>4 DEF HistoryInv

(* Nothing is saved and nothing is written. *)
LEMMA QuietHistory ==
    ASSUME HistoryInv, UNCHANGED <<grants, control>>, saving' \in {saving, None}
    PROVE  HistoryInv'
<1>1. History(control)'
  BY DEF HistoryInv, History, Had, RetiredIn
<1>2. CASE saving' = None
  BY <1>1, <1>2 DEF HistoryInv
<1>3. CASE saving' = saving
  <2>1. /\ RetiredIn(control)' = RetiredIn(control) /\ DrainedIn(control)' = DrainedIn(control)
        /\ RetiredIn(saving.control)' = RetiredIn(saving.control)
        /\ DrainedIn(saving.control)' = DrainedIn(saving.control)
    BY <1>3 DEF RetiredIn, DrainedIn
  <2>2. saving # None => History(saving.control)'
    BY <1>3 DEF HistoryInv, History, Had, RetiredIn
  <2>3. saving # None /\ saving.step = "control" => Moves(control, saving.control)'
    BY <1>3, <2>1 DEF HistoryInv, Moves, Advances, Plans, Shows, Keeps
  <2> QED BY <1>1, <1>3, <2>2, <2>3 DEF HistoryInv
<1> QED BY <1>2, <1>3

LEMMA HadForms ==
    ASSUME NEW g \in Nat
    PROVE  Had(g + 1) = Had(g) \cup {grants[g + 1]}
<1>1. 1..(g + 1) = 1..g \cup {g + 1}
  OBVIOUS
<1> QED BY <1>1 DEF Had

(* The planning of a drain adds the replaced version to the outbox, and nothing
   else. *)
LEMMA DrainForms ==
    ASSUME NEW c \in ControlStates, NEW g, Current(g - 1) \in Versions
    PROVE  /\ Drain(c, g).generation = c.generation /\ Drain(c, g).leased = c.leased
           /\ RetiredIn(Drain(c, g)) = RetiredIn(c)
           /\ DrainedIn(Drain(c, g)) = DrainedIn(c) \cup {Current(g - 1)}
<1>1. PICK e : e = [version |-> Current(g - 1), state |-> "pending"]
  OBVIOUS
<1>2. e \in Entries /\ e.version = Current(g - 1)
  BY <1>1 DEF Entries
<1>3. c.outbox \in Seq(Entries)
  BY ControlForms
<1>4. PICK box : box = Append(c.outbox, e)
  OBVIOUS
<1>5. /\ Drain(c, g).generation = c.generation /\ Drain(c, g).leased = c.leased
      /\ Drain(c, g).lifecycle = c.lifecycle /\ Drain(c, g).outbox = box
  BY <1>1, <1>4 DEF Drain, ControlStates
<1>6. /\ DOMAIN box = DOMAIN c.outbox \cup {Len(c.outbox) + 1}
      /\ \A i \in DOMAIN c.outbox : box[i] = c.outbox[i]
      /\ box[Len(c.outbox) + 1] = e
  BY <1>2, <1>3, <1>4, AppendFacts
<1>7. {box[i].version : i \in DOMAIN box} = DrainedIn(c) \cup {e.version}
  BY <1>6 DEF DrainedIn
<1> QED BY <1>2, <1>5, <1>7 DEF RetiredIn, DrainedIn

(* A version that must be retired had the route before. *)
LEMMA RetiresPast ==
    ASSUME RetirementInv, HistoryInv, NEW g, MustRetire(g)
    PROVE  /\ Current(g - 1) \in Versions
           /\ g = control.generation + 1 => Current(g - 1) \in control.leased \cap {control.route}
           /\ g = control.generation => Current(g - 1) \in control.leased \ {control.route}
<1>1. /\ control.generation \in Nat /\ control.route = Current(control.generation)
      /\ grants \in Seq(Versions) /\ control.leased = Had(control.generation)
  BY ControlForms DEF RetirementInv, FilesInv, ControlInv, HistoryInv, History
<1>2. /\ g - 1 \in DOMAIN grants /\ Current(g - 1) = grants[g - 1] /\ Current(g - 1) # Current(g)
  BY DEF MustRetire, Current
<1>3. g - 1 \in 1..Len(grants) /\ grants[g - 1] \in Versions
  BY <1>1, <1>2
<1>4. ASSUME g \in {control.generation, control.generation + 1} PROVE g - 1 \in 1..control.generation
  BY <1>1, <1>3, <1>4
<1>5. g \in {control.generation, control.generation + 1} => Current(g - 1) \in control.leased
  BY <1>1, <1>2, <1>4 DEF Had
<1>6. g = control.generation + 1 => g - 1 = control.generation
  BY <1>1
<1> QED BY <1>1, <1>2, <1>3, <1>5, <1>6

(* A change of the route, or none, with the drain that goes with it. *)
LEMMA ProjectHistory ==
    ASSUME RetirementInv, HistoryInv, NEW c \in ControlStates, c.outbox = control.outbox,
           Project(c, c.generation), History(c), Advances(control, c) \/ Keeps(control, c)
    PROVE  HistoryInv'
<1>1. UNCHANGED <<grants, control>>
  BY DEF Project, Save, files
<1>2. CASE MustRetire(c.generation)
  <2>1. PICK d, rs : d = Drain(c, c.generation) /\ rs = records \cup {Record(c.generation)}
    OBVIOUS
  <2>2. PICK v : v = Current(c.generation - 1)
    OBVIOUS
  <2>3. /\ d.generation = c.generation /\ RetiredIn(d) = RetiredIn(c) /\ d.leased = c.leased
        /\ DrainedIn(d) = DrainedIn(control) \cup {v}
    BY <1>2, <2>1, <2>2, RetiresPast, DrainForms DEF DrainedIn
  <2>4. History(d)
    BY <2>3 DEF History
  <2>5. ASSUME Advances(control, c) PROVE Moves(control, d)
    <3>1. v \in control.leased \cap {control.route}
      BY <1>2, <2>2, <2>5, RetiresPast DEF Advances
    <3>2. DrainedIn(d) = DrainedIn(control) \cup (control.leased \cap {control.route})
      BY <2>3, <3>1
    <3> QED BY <2>3, <2>5, <3>2 DEF Advances, Moves
  <2>6. ASSUME Keeps(control, c) PROVE Moves(control, d)
    <3>1. v \in control.leased \ {control.route}
      BY <1>2, <2>2, <2>6, RetiresPast DEF Keeps
    <3> QED BY <2>3, <2>6, <3>1 DEF Keeps, Plans, Moves
  <2>7. saving' = [control |-> d, records |-> rs, step |-> "control"]
    BY <1>2, <2>1 DEF Project, Save
  <2> QED BY <1>1, <2>4, <2>5, <2>6, <2>7, SaveHistory
<1>3. CASE ~MustRetire(c.generation)
  <2>1. saving' = [control |-> c, records |-> records, step |-> "control"]
    BY <1>3 DEF Project, Save
  <2> QED BY <1>1, <2>1, SaveHistory DEF Moves
<1> QED BY <1>2, <1>3

LEMMA FlipHistory ==
    ASSUME RetirementInv, HistoryInv, Flip
    PROVE  HistoryInv'
<1>1. control \in ControlStates /\ control.generation \in Nat /\ control.leased \subseteq Versions
      /\ control.lifecycle \in [Versions -> Lifecycles] /\ grants \in Seq(Versions)
  BY ControlForms DEF RetirementInv, FilesInv, ControlInv
<1>2. PICK v : v = grants[Next1]
  OBVIOUS
<1>3. v \in Versions /\ v \notin control.leased /\ Next1 = control.generation + 1 /\ Next1 \in Nat
  BY <1>1, <1>2 DEF Flip, HasNext, Next1
<1>4. PICK c : c = [control EXCEPT !.route = v, !.generation = Next1, !.lifecycle[v] = "active",
                                   !.leased = @ \cup {v}]
  OBVIOUS
<1>5. Project(c, Next1)
  BY <1>2, <1>4 DEF Flip
<1>6. /\ c \in ControlStates /\ c.generation = Next1 /\ c.outbox = control.outbox /\ c.leased = control.leased \cup {v}
      /\ c.lifecycle = [control.lifecycle EXCEPT ![v] = "active"]
  BY <1>1, <1>3, <1>4 DEF ControlStates, Lifecycles
<1>7. RetiredIn(c) = RetiredIn(control)
  <2>1. v \notin RetiredIn(control)
    BY <1>3 DEF HistoryInv, History
  <2> QED BY <1>1, <1>3, <1>6, <2>1 DEF RetiredIn
<1>8. History(c)
  BY <1>1, <1>2, <1>3, <1>6, <1>7, HadForms DEF HistoryInv, History
<1>9. Advances(control, c)
  BY <1>2, <1>3, <1>6, <1>7 DEF Advances, DrainedIn
<1> QED BY <1>5, <1>6, <1>8, <1>9, ProjectHistory

LEMMA ReceiptHistory ==
    ASSUME RetirementInv, HistoryInv, NEW p \in receipts, ProjectReceipt(p)
    PROVE  HistoryInv'
<1>1. /\ control \in ControlStates /\ control.generation \in Nat /\ p \in Receipts
      /\ control.lifecycle \in [Versions -> Lifecycles] /\ records \in Registries
  BY ControlForms DEF RetirementInv, FilesInv, ControlInv, RegistryInv, SupervisorInv
<1>2. PICK r \in records : /\ Matches(r, p)
                           /\ Save(Retires(r, p), (records \ {r}) \cup {[r EXCEPT !.receipt = p]})
  BY DEF ProjectReceipt
<1>3. p.version \in Versions /\ p.version \in control.leased /\ p.version \in DrainedIn(control)
  <2>1. OfOutbox(records, control)
    BY DEF RetirementInv, FilesInv, RegistryInv
  <2>2. r.cmd \in DOMAIN control.outbox /\ control.outbox[r.cmd].version = p.version
    BY <1>2, <2>1 DEF OfOutbox, Matches
  <2> QED BY <1>1, <2>2 DEF RetirementInv, FilesInv, ControlInv, Receipts, DrainedIn
<1>4. PICK life : life = IF r.receipt = None THEN "retired" ELSE control.lifecycle[p.version]
  OBVIOUS
<1>5. PICK c, rs : /\ c = [control EXCEPT !.lifecycle[p.version] = life]
                   /\ rs = (records \ {r}) \cup {[r EXCEPT !.receipt = p]}
  OBVIOUS
<1>6. /\ c.generation = control.generation /\ c.leased = control.leased /\ c.outbox = control.outbox
      /\ c.lifecycle = [control.lifecycle EXCEPT ![p.version] = life]
  BY <1>1, <1>5 DEF ControlStates
<1>7. RetiredIn(c) = RetiredIn(control) \/ RetiredIn(c) = RetiredIn(control) \cup {p.version}
  BY <1>1, <1>3, <1>4, <1>6 DEF RetiredIn
<1>8. History(c) /\ Moves(control, c)
  <2>1. RetiredIn(c) \subseteq control.leased
    BY <1>3, <1>7 DEF HistoryInv, History
  <2> QED BY <1>3, <1>6, <1>7, <2>1 DEF HistoryInv, History, Moves, Shows, Keeps, DrainedIn
<1>9. saving' = [control |-> c, records |-> rs, step |-> "control"] /\ UNCHANGED <<grants, control>>
  <2>1. c = Retires(r, p)
    BY <1>4, <1>5 DEF Retires
  <2> QED BY <1>2, <1>5, <2>1 DEF Save, files
<1> QED BY <1>8, <1>9, SaveHistory

LEMMA GrantHistory ==
    ASSUME RetirementInv, HistoryInv, NEW v \in Versions, Grant(v)
    PROVE  HistoryInv' /\ Had(control.generation)' = Had(control.generation)
<1>1. /\ grants \in Seq(Versions) /\ control.generation \in Nat /\ control.generation <= Len(grants)
      /\ grants' = Append(grants, v) /\ control' = control /\ saving = None /\ saving' = None
  BY ControlForms DEF RetirementInv, FilesInv, ControlInv, Grant, Syncing, Free, kernel
<1>2. \A i \in 1..control.generation : grants'[i] = grants[i]
  BY <1>1, AppendFacts
<1>3. Had(control.generation)' = Had(control.generation)
  BY <1>1, <1>2 DEF Had
<1> QED BY <1>1, <1>3 DEF HistoryInv, History, RetiredIn

LEMMA HistoryNext ==
    ASSUME RetirementInv, HistoryInv, [Next]_vars
    PROVE  HistoryInv'
<1>1. CASE WriteControl \/ WriteRegistry
  <2>1. saving \in Savings /\ saving # None /\ UNCHANGED grants
    BY <1>1 DEF RetirementInv, SavingInv, WriteControl, WriteRegistry
  <2>2. saving'.control = saving.control /\ saving'.step # "control" /\ control' \in {control, saving.control}
    BY <1>1, <2>1 DEF WriteControl, WriteRegistry, Savings
  <2> QED BY <2>1, <2>2 DEF HistoryInv, History, Had, RetiredIn
<1>2. CASE Flip
  BY <1>2, FlipHistory
<1>3. CASE Retrace
  <2>1. control \in ControlStates /\ Project(control, control.generation)
    BY <1>3 DEF RetirementInv, FilesInv, ControlInv, Retrace
  <2>2. History(control) /\ Keeps(control, control)
    BY DEF HistoryInv, Keeps
  <2> QED BY <2>1, <2>2, ProjectHistory
<1>4. CASE RecordAttempt
  <2>1. History(control) /\ Moves(control, control)
    BY DEF HistoryInv, Moves, Keeps
  <2> QED BY <1>4, <2>1, SaveHistory DEF RecordAttempt, files
<1>5. ASSUME NEW i \in Commands, Acknowledge(i) PROVE HistoryInv'
  <2>1. control \in ControlStates /\ control.outbox \in Seq(Entries) /\ i \in DOMAIN control.outbox
    BY ControlForms DEF RetirementInv, FilesInv, ControlInv, Commands
  <2>2. PICK c : c = [control EXCEPT !.outbox[i].state = "acknowledged"]
    OBVIOUS
  <2>3. PICK e : e = [control.outbox[i] EXCEPT !.state = "acknowledged"]
    OBVIOUS
  <2>4. e.version = control.outbox[i].version
    BY <2>1, <2>3 DEF Entries
  <2>5. /\ c.generation = control.generation /\ c.leased = control.leased /\ c.lifecycle = control.lifecycle
        /\ c.outbox = [control.outbox EXCEPT ![i] = e]
    BY <2>1, <2>2, <2>3 DEF ControlStates
  <2>6. RetiredIn(c) = RetiredIn(control) /\ DrainedIn(c) = DrainedIn(control)
    BY <2>1, <2>4, <2>5 DEF RetiredIn, DrainedIn
  <2>7. History(c) /\ Moves(control, c)
    BY <2>5, <2>6 DEF HistoryInv, History, Moves, Keeps
  <2> QED BY <1>5, <2>2, <2>7, SaveHistory DEF Acknowledge, Save, files
<1>6. ASSUME NEW p \in receipts, ProjectReceipt(p) PROVE HistoryInv'
  BY <1>6, ReceiptHistory
<1>7. ASSUME NEW v \in Versions, Grant(v) PROVE HistoryInv'
  BY <1>7, GrantHistory
<1>8. CASE WriteLedger \/ SyncFails \/ EndTask \/ Start \/ BeginActivation \/ Tick \/ WriteError \/ Crash
  BY <1>8, QuietHistory DEF WriteLedger, SyncFails, EndTask, Start, BeginActivation, Tick, WriteError, Crash,
     files, kernel
<1>9. CASE Handle \/ Finish \/ SupervisorStart \/ SupervisorCrash \/ (\E e \in effect : Survives(e)) \/ UNCHANGED vars
  BY <1>9, QuietHistory DEF Handle, Accept, Reject, Unreadable, Finish, Stop, Complete, SupervisorStart,
     SupervisorCrash, Survives, KernelSide, files, kernel, vars
<1> QED BY <1>1, <1>2, <1>3, <1>4, <1>5, <1>6, <1>7, <1>8, <1>9 DEF Next, KernelStep, Settle

-----------------------------------------------------------------------------
(* Every step is one of Succession, or none.                                *)

(* Along every behaviour the control file says what happened: who had the route
   holds a lease, and a mutation on its way moves it by one of four changes. *)
THEOREM HistoryInvariance == Spec => [](RetirementInv /\ HistoryInv)
<1>1. Init => HistoryInv
  <2>1. ASSUME Init PROVE HistoryInv
    <3>1. Had(0) = {}
      BY DEF Had
    <3>2. RetiredIn(control) = {}
      BY <2>1 DEF Init, RetiredIn
    <3> QED BY <2>1, <3>1, <3>2 DEF Init, HistoryInv, History
  <2> QED BY <2>1
<1>2. RetirementInv /\ HistoryInv /\ [Next]_vars => HistoryInv'
  BY HistoryNext
<1> QED BY <1>1, <1>2, RetirementInvariance, PTL DEF Spec

Seen == <<control.route, Had(control.generation), DrainedIn(control), Answered, RetiredIn(control)>>

LEMMA SeenStays ==
    ASSUME UNCHANGED <<control, receipts>>, Had(control.generation)' = Had(control.generation)
    PROVE  UNCHANGED Seen
BY DEF Seen, Answered, DrainedIn, RetiredIn

LEMMA WriteSeen ==
    ASSUME RetirementInv, HistoryInv, WriteControl
    PROVE  [Owner!Next]_Seen
<1>1. PICK c : c = saving.control
  OBVIOUS
<1>2. /\ saving # None /\ control' = c /\ UNCHANGED <<grants, receipts>>
      /\ ControlInv(control) /\ ControlInv(c) /\ History(control) /\ Moves(control, c)
  BY <1>1 DEF RetirementInv, FilesInv, SavingInv, HistoryInv, WriteControl, supervisor
<1>3. /\ control \in ControlStates /\ control.generation \in Nat /\ c.route = Current(c.generation)
      /\ control.route = Current(control.generation) /\ c.generation <= Len(grants) /\ grants \in Seq(Versions)
      /\ control.leased = Had(control.generation) /\ control.leased \subseteq Versions
      /\ DrainedIn(control) \subseteq Versions
  BY <1>2, ControlForms DEF ControlInv, RetirementInv, FilesInv, History, DrainedIn
<1>4. /\ Answered' = Answered /\ Had(control.generation)' = Had(c.generation) /\ control'.route = c.route
      /\ RetiredIn(control)' = RetiredIn(c) /\ DrainedIn(control)' = DrainedIn(c)
  BY <1>2 DEF Answered, Had, RetiredIn, DrainedIn
<1>5. CASE Advances(control, c)
  <2>1. PICK v : v = grants[c.generation]
    OBVIOUS
  <2>2. v \in Versions /\ v \notin Had(control.generation) /\ c.route = v
    BY <1>3, <1>5, <2>1 DEF Advances, Current
  <2>3. Had(c.generation) = Had(control.generation) \cup {v}
    BY <1>3, <1>5, <2>1, HadForms DEF Advances
  <2>4. Owner!Advance(v)
    BY <1>3, <1>4, <1>5, <2>2, <2>3 DEF Owner!Advance, Advances
  <2> QED BY <2>2, <2>4 DEF Owner!Next
<1>6. ASSUME c.generation = control.generation
      PROVE  c.route = control.route /\ Had(c.generation) = Had(control.generation)
  BY <1>3, <1>6
<1>7. CASE Plans(control, c)
  <2>1. PICK v \in control.leased \ {control.route} : DrainedIn(c) = DrainedIn(control) \cup {v}
    BY <1>7 DEF Plans
  <2>2. Owner!Drain(v) /\ v \in Versions
    BY <1>3, <1>4, <1>6, <1>7, <2>1 DEF Plans, Owner!Drain, Owner!Replaced
  <2> QED BY <2>2 DEF Owner!Next
<1>8. CASE Shows(control, c)
  <2>1. PICK v \in DrainedIn(control) : RetiredIn(c) = RetiredIn(control) \cup {v}
    BY <1>8 DEF Shows
  <2>2. v \in Versions /\ c.lifecycle[v] = "retired"
    BY <1>3, <2>1 DEF RetiredIn
  <2>3. v \in Answered
    BY <1>2, <2>2 DEF ControlInv
  <2>4. Owner!Retire(v)
    BY <1>4, <1>6, <1>8, <2>1, <2>3 DEF Shows, Owner!Retire
  <2> QED BY <2>2, <2>4 DEF Owner!Next
<1>9. CASE Keeps(control, c)
  BY <1>4, <1>6, <1>9 DEF Keeps, Seen
<1> QED BY <1>2, <1>5, <1>7, <1>8, <1>9 DEF Moves

LEMMA CompleteSeen ==
    ASSUME RetirementInv, HistoryInv, NEW e \in effect, Complete(e)
    PROVE  [Owner!Next]_Seen
<1>1. PICK v : v = Version(e.cmd)
  OBVIOUS
<1>2. v \in DrainedIn(control) /\ v \in Versions
  BY <1>1, ControlForms DEF RetirementInv, SupervisorInv, FilesInv, ControlInv, Commands, Version, DrainedIn
<1>3. RecordOf(e.cmd).version = v
  BY <1>1 DEF RetirementInv, SupervisorInv, Held, RecordOf, OfOutbox, Version
<1>4. \E p : receipts' = receipts \cup {p} /\ p.version = v
  <2>1. PICK r : r = RecordOf(e.cmd)
    OBVIOUS
  <2>2. PICK p : p = [cmd |-> e.cmd, version |-> r.version, generation |-> r.generation,
                      deadline |-> r.deadline, forcedAt |-> e.forcedAt]
    OBVIOUS
  <2>3. receipts' = receipts \cup {p}
    BY <2>1, <2>2 DEF Complete
  <2> QED BY <1>3, <2>1, <2>2, <2>3
<1>5. Answered' = Answered \cup {v} /\ UNCHANGED <<grants, control>>
  BY <1>4 DEF Complete, KernelSide, files, Answered
<1>6. Owner!Answer(v)
  BY <1>2, <1>5 DEF Owner!Answer, Had, DrainedIn, RetiredIn
<1> QED BY <1>2, <1>6 DEF Owner!Next

LEMMA EverySeen ==
    ASSUME RetirementInv, HistoryInv, [Next]_vars
    PROVE  [Owner!Next]_Seen
<1>1. CASE WriteControl
  BY <1>1, WriteSeen
<1>2. ASSUME NEW e \in effect, Complete(e) PROVE [Owner!Next]_Seen
  BY <1>2, CompleteSeen
<1>3. ASSUME NEW v \in Versions, Grant(v) PROVE [Owner!Next]_Seen
  <2>1. Had(control.generation)' = Had(control.generation)
    BY <1>3, GrantHistory
  <2> QED BY <1>3, <2>1, SeenStays DEF Grant, supervisor
<1>5. ASSUME UNCHANGED <<grants, control, receipts>> PROVE [Owner!Next]_Seen
  BY <1>5, SeenStays DEF Had
<1>6. CASE WriteRegistry \/ WriteLedger \/ Flip \/ Retrace \/ SyncFails \/ EndTask \/ Start \/ BeginActivation
           \/ Tick \/ RecordAttempt \/ WriteError \/ Crash \/ UNCHANGED vars
  BY <1>5, <1>6 DEF WriteRegistry, WriteLedger, Flip, Retrace, Project, Save, SyncFails, EndTask, Start,
     BeginActivation, Tick, RecordAttempt, WriteError, Crash, vars, files, supervisor
<1>7. CASE Settle \/ \E p \in receipts : ProjectReceipt(p)
  BY <1>5, <1>7 DEF Settle, Acknowledge, ProjectReceipt, Save, files, supervisor
<1>8. CASE Handle \/ SupervisorStart \/ SupervisorCrash \/ \E e \in effect : Stop(e) \/ Survives(e)
  BY <1>5, <1>8 DEF Handle, Accept, Reject, Unreadable, SupervisorStart, SupervisorCrash, Stop, Survives,
     KernelSide, files
<1> QED BY <1>1, <1>2, <1>3, <1>6, <1>7, <1>8 DEF Next, KernelStep, Finish

(* Retirement implements its promise: through crashes and failed writes between
   any two files, each version has the route at most once, only a version that
   lost it is drained, only a drained one is reported to have stopped, and only one
   that was drained and reported is shown as retired, for good
   (project_activation_event_into_v2, performDrainWithRuntime,
   project_drain_receipt). *)
THEOREM RefinesSuccession == Spec => ImplementsSuccession
<1>1. Init => Owner!Init
  <2>1. 1..0 = {}
    OBVIOUS
  <2> QED BY <2>1 DEF Init, Owner!Init, Answered, Had, DrainedIn, RetiredIn
<1>2. RetirementInv /\ HistoryInv /\ [Next]_vars => [Owner!Next]_Seen
  BY EverySeen
<1> QED BY <1>1, <1>2, HistoryInvariance, PTL DEF Spec, ImplementsSuccession, Owner!Spec, Seen

-----------------------------------------------------------------------------
(* The watchdog.                                                           *)

VisitSteps == {"status", "stat", "cmdline", "start", "kill"}
Visiting == [app : Apps, step : VisitSteps, pid : Pids, size : Sizes, who : ProcIds \cup {Nobody}]

(* Nobody but process i has pid p, nor has had it since it was freed in this pass. *)
StillItsPid(p, i) == Holder(p) \subseteq {i} /\ (Holder(p) # {} \/ freed[p] = pass)

(* A visit belongs to its stage, and a sample that is judged is not replaced. *)
VisitInv ==
    at # Nobody =>
      /\ at \in Visiting
      /\ at.step \in {"status", "stat"} => Reading
      /\ at.step = "stat" => at.who # Nobody
      /\ at.step \in {"cmdline", "start", "kill"} => Enforcing /\ samples[at.app] # Nobody

(* A sample is of one process; between the two reads of a sample, and between the
   check of the start time and the kill, nobody else can have taken the pid. *)
MeasuredInv ==
    /\ \A a \in Apps : samples[a] # Nobody => samples[a].who = samples[a].start
    /\ Step("stat") => StillItsPid(at.pid, at.who)
    /\ Step("kill") => StillItsPid(at.pid, samples[at.app].start)

WatchdogInv == WatchdogTypeOK /\ VisitInv

LEMMA StageNames ==
    /\ DOMAIN Stages = 1..6
    /\ Stages[1] = "load" /\ Stages[2] = "refresh celld" /\ Stages[3] = "enforce celld"
    /\ Stages[4] = "refresh wasmd" /\ Stages[5] = "enforce wasmd" /\ Stages[6] = "sleep"
BY DEF Stages

LEMMA StageFacts ==
    ASSUME stage \in DOMAIN Stages
    PROVE  /\ ~(Reading /\ Enforcing)
           /\ Reading \/ Enforcing => Stages[stage] # "load" /\ Stages[stage] # "sleep"
           /\ Stages[stage] # "sleep" => stage + 1 \in DOMAIN Stages
           /\ stage \in Nat
<1>0. DOMAIN Stages = 1..6
  BY StageNames
<1>1. stage \in 1..6
  BY <1>0
<1>2. stage = 1 \/ stage = 2 \/ stage = 3 \/ stage = 4 \/ stage = 5 \/ stage = 6
  BY <1>1
<1>3. Stages[stage] # "sleep" => stage # 6
  BY StageNames
<1>4. stage # 6 => stage + 1 \in 1..6
  BY <1>1
<1>5. Reading <=> stage = 2 \/ stage = 4
  BY <1>2, StageNames DEF Reading
<1>6. Enforcing <=> stage = 3 \/ stage = 5
  BY <1>2, StageNames DEF Enforcing
<1>7. ~(Reading /\ Enforcing)
  BY <1>2, <1>5, <1>6
<1>8. Reading \/ Enforcing => Stages[stage] # "load" /\ Stages[stage] # "sleep"
  BY <1>2, <1>5, <1>6, StageNames
<1>9. stage \in Nat
  BY <1>2
<1>10. Stages[stage] # "sleep" => stage + 1 \in DOMAIN Stages
  BY <1>0, <1>3, <1>4
<1> QED BY <1>7, <1>8, <1>9, <1>10

LEMMA VisitsTyped == \A s : Visits(s) \subseteq Apps
BY DEF Visits, Apps

(* The type invariant, action by action of each actor. *)
LEMMA HolderOne ==
    ASSUME WatchdogTypeOK, NEW p \in Pids
    PROVE  /\ Holder(p) \subseteq ProcIds
           /\ \A i \in Holder(p) : Holder(p) = {i} /\ procs[i] \in Processes
<1>1. procs \in Seq(Processes) /\ Len(procs) \in Nat /\ Len(procs) <= MaxProcs /\ alive \subseteq 1..Len(procs)
  BY DEF WatchdogTypeOK
<1> QED
  BY <1>1, WatchdogBounds DEF WatchdogTypeOK, Holder, ProcIds

LEMMA ProcTyped ==
    ASSUME WatchdogTypeOK, NEW i \in DOMAIN procs
    PROVE  procs[i] \in Processes /\ procs[i].pid \in Pids
<1>1. procs \in Seq(Processes)
  BY DEF WatchdogTypeOK
<1>2. procs[i] \in Processes
  BY <1>1
<1> QED BY <1>2 DEF Processes

LEMMA ForkKeeps ==
    ASSUME WatchdogTypeOK, NEW p \in Pids, NEW a \in Apps \cup {Nobody}, Fork(p, a)
    PROVE  /\ procs' \in Seq(Processes) /\ Len(procs') <= MaxProcs
           /\ Len(procs) + 1 \in DOMAIN procs' /\ procs'[Len(procs) + 1].app = a
           /\ procs'[Len(procs) + 1].pid = p
           /\ DOMAIN procs \subseteq DOMAIN procs' /\ Len(procs) + 1 \notin DOMAIN procs
           /\ \A i \in DOMAIN procs : procs'[i] = procs[i]
           /\ alive' \subseteq DOMAIN procs'
           /\ \A i, j \in alive' : procs'[i].pid = procs'[j].pid => i = j
           /\ freed' \in [Pids -> Passes \cup {Nobody}] /\ UNCHANGED size
           /\ \A q \in Pids : q # p => Holder(q)' = Holder(q) /\ freed'[q] = freed[q]
<1>1. /\ procs \in Seq(Processes) /\ Len(procs) \in Nat /\ Len(procs) < MaxProcs
      /\ alive \subseteq 1..Len(procs) /\ DOMAIN procs = 1..Len(procs)
      /\ \A i, j \in alive : procs[i].pid = procs[j].pid => i = j
      /\ freed \in [Pids -> Passes \cup {Nobody}]
  BY DEF WatchdogTypeOK, Fork
<1>2. PICK r : r = [pid |-> p, app |-> a]
  OBVIOUS
<1>3. r \in Processes /\ r.pid = p /\ r.app = a
  BY <1>2 DEF Processes
<1>4. PICK n : n = Len(procs) + 1
  OBVIOUS
<1>5. /\ procs' = Append(procs, r) /\ alive' = alive \cup {n} /\ freed' = [freed EXCEPT ![p] = Nobody]
      /\ UNCHANGED size
  BY <1>2, <1>4 DEF Fork
<1>6. /\ procs' \in Seq(Processes) /\ Len(procs') = n /\ DOMAIN procs' = 1..n
      /\ \A i \in 1..Len(procs) : procs'[i] = procs[i]
      /\ procs'[n] = r
  BY <1>1, <1>3, <1>4, <1>5, AppendFacts
<1>7. \A i \in alive : procs[i].pid # p
  BY DEF Fork, IsFree, Holder
<1>8. \A i, j \in alive' : procs'[i].pid = procs'[j].pid => i = j
  BY <1>1, <1>3, <1>5, <1>6, <1>7
<1>9. \A q \in Pids : q # p => Holder(q)' = Holder(q)
  BY <1>1, <1>3, <1>4, <1>5, <1>6 DEF Holder
<1>10. MaxProcs \in Nat
  BY WatchdogBounds
<1>11. /\ Len(procs') <= MaxProcs /\ n \in DOMAIN procs' /\ n \notin DOMAIN procs
       /\ DOMAIN procs \subseteq DOMAIN procs' /\ alive' \subseteq DOMAIN procs'
  <2>1. Len(procs') <= MaxProcs
    BY <1>1, <1>4, <1>6, <1>10
  <2>2. n \in DOMAIN procs' /\ DOMAIN procs \subseteq DOMAIN procs' /\ n \notin DOMAIN procs
    BY <1>1, <1>4, <1>6
  <2>3. alive' \subseteq DOMAIN procs'
    BY <1>1, <1>5, <2>2
  <2> QED BY <2>1, <2>2, <2>3
<1>12. freed' \in [Pids -> Passes \cup {Nobody}] /\ \A q \in Pids : q # p => freed'[q] = freed[q]
  BY <1>1, <1>5
<1> QED
  BY <1>1, <1>3, <1>4, <1>5, <1>6, <1>8, <1>9, <1>11, <1>12

LEMMA EndsKeepsProcs ==
    ASSUME WatchdogTypeOK, NEW is, Ends(is)
    PROVE  /\ alive' \subseteq alive /\ UNCHANGED <<procs, size>>
           /\ freed' \in [Pids -> Passes \cup {Nobody}]
           /\ \A p \in Pids : Holder(p)' = Holder(p) \ is
           /\ \A p \in Pids : freed'[p] = pass \/ freed'[p] = freed[p]
           /\ \A p \in Pids : Holder(p)' # Holder(p) => freed'[p] = pass
<1>1. /\ alive' = alive \ is /\ UNCHANGED <<procs, size>>
      /\ freed' = [p \in Pids |-> IF \E i \in is : procs[i].pid = p THEN pass ELSE freed[p]]
  BY DEF Ends
<1>2. \A p \in Pids : Holder(p)' = Holder(p) \ is
  BY <1>1 DEF Holder
<1>3. \A p \in Pids : Holder(p)' # Holder(p) => \E i \in is : procs[i].pid = p
  BY <1>2 DEF Holder
<1> QED BY <1>1, <1>2, <1>3 DEF WatchdogTypeOK

NodeTypeOK ==
    /\ procs \in Seq(Processes) /\ Len(procs) <= MaxProcs
    /\ alive \subseteq DOMAIN procs
    /\ \A i, j \in alive : procs[i].pid = procs[j].pid => i = j
    /\ freed \in [Pids -> Passes \cup {Nobody}] /\ size \in [ProcIds -> Sizes]

LEMMA NodeStep ==
    ASSUME WatchdogTypeOK, Node
    PROVE  NodeTypeOK' /\ DOMAIN procs \subseteq DOMAIN procs'
           /\ \A i \in DOMAIN procs : procs'[i] = procs[i]
<1>1. ASSUME NEW i \in alive, Grow(i)
      PROVE  NodeTypeOK' /\ UNCHANGED procs
  <2>1. i \in ProcIds
    BY WatchdogBounds DEF WatchdogTypeOK, ProcIds
  <2>2. size' \in [ProcIds -> Sizes]
    BY <1>1, <2>1 DEF Grow, WatchdogTypeOK, Sizes
  <2> QED BY <1>1, <2>2 DEF Grow, WatchdogTypeOK, NodeTypeOK
<1>2. ASSUME NEW i \in alive, Exit(i)
      PROVE  NodeTypeOK' /\ UNCHANGED procs
  <2>1. Ends({i})
    BY <1>2 DEF Exit
  <2> QED BY <2>1, EndsKeepsProcs DEF WatchdogTypeOK, NodeTypeOK
<1>3. ASSUME NEW p \in Pids, Stranger(p)
      PROVE  NodeTypeOK' /\ DOMAIN procs \subseteq DOMAIN procs' /\ \A i \in DOMAIN procs : procs'[i] = procs[i]
  <2>1. Fork(p, Nobody)
    BY <1>3 DEF Stranger
  <2> QED BY <2>1, ForkKeeps DEF WatchdogTypeOK, NodeTypeOK
<1> QED BY <1>1, <1>2, <1>3 DEF Node

OwnersTypeOK == pidfile \in [Apps -> Pids \cup {Nobody}]

ThreadTypeOK ==
    /\ limit \in Limits
    /\ samples \in [Apps -> Samples \cup {Nobody}]
    /\ events \in Seq(Events) /\ Len(events) <= RingMax
    /\ pass \in Passes /\ stage \in DOMAIN Stages /\ todo \subseteq Apps
    /\ at # Nobody => at.app \in Apps /\ at.pid \in Pids /\ at.who \in ProcIds \cup {Nobody}

LEMMA OwnersStep ==
    ASSUME WatchdogTypeOK, Owners
    PROVE  NodeTypeOK' /\ OwnersTypeOK' /\ UNCHANGED threadVars
<1>1. ASSUME NEW a \in Apps, NEW p \in Pids, RunCelld(a, p)
      PROVE  NodeTypeOK' /\ OwnersTypeOK' /\ UNCHANGED threadVars
  BY <1>1, ForkKeeps DEF RunCelld, WatchdogTypeOK, NodeTypeOK, OwnersTypeOK
<1>2. ASSUME NEW a \in Apps, NEW p \in Pids, Spawn(a, p)
      PROVE  NodeTypeOK' /\ OwnersTypeOK' /\ UNCHANGED threadVars
  BY <1>2, ForkKeeps DEF Spawn, WatchdogTypeOK, NodeTypeOK, OwnersTypeOK
<1>3. ASSUME NEW a \in Apps, RemovePidfile(a)
      PROVE  NodeTypeOK' /\ OwnersTypeOK' /\ UNCHANGED threadVars
  BY <1>3 DEF RemovePidfile, nodeVars, WatchdogTypeOK, NodeTypeOK, OwnersTypeOK
<1> QED BY <1>1, <1>2, <1>3 DEF Owners

LEMMA PushTyped ==
    ASSUME events \in Seq(Events), Len(events) <= RingMax, NEW e \in Events, Push(e)
    PROVE  events' \in Seq(Events) /\ Len(events') <= RingMax
<1>1. RingMax \in Nat \ {0}
  BY WatchdogBounds
<1> QED BY <1>1 DEF Push

LEMMA VisitTyped ==
    ASSUME WatchdogTypeOK, NEW a \in Apps, pidfile[a] # Nobody,
           NEW step \in VisitSteps, NEW s \in Sizes, NEW w \in ProcIds \cup {Nobody}
    PROVE  /\ Visit(a, step, s, w) \in Visiting
           /\ Visit(a, step, s, w).step = step /\ Visit(a, step, s, w).app = a
<1>1. pidfile[a] \in Pids
  BY DEF WatchdogTypeOK
<1> QED BY <1>1 DEF Visit, Visiting

LEMMA StepNames == \A s \in {"status", "stat", "cmdline", "start", "kill"} : s \in VisitSteps
BY DEF VisitSteps

LEMMA VisitingTyped ==
    ASSUME NEW v \in Visiting
    PROVE  /\ v.app \in Apps /\ v.pid \in Pids /\ v.who \in ProcIds \cup {Nobody}
           /\ v.step \in VisitSteps /\ v.size \in Sizes
           /\ \A s \in VisitSteps : [v EXCEPT !.step = s] \in Visiting
           /\ \A s \in VisitSteps : [v EXCEPT !.step = s].step = s
           /\ \A s \in VisitSteps : [v EXCEPT !.step = s].app = v.app
           /\ \A s \in VisitSteps : [v EXCEPT !.step = s].pid = v.pid
           /\ \A s \in VisitSteps : [v EXCEPT !.step = s].who = v.who
BY DEF Visiting

LEMMA ThreadStep ==
    ASSUME WatchdogInv, Thread
    PROVE  NodeTypeOK' /\ OwnersTypeOK' /\ ThreadTypeOK' /\ VisitInv'
<1> USE DEF WatchdogInv
<1>0. Stages[stage] # "sleep" => stage + 1 \in DOMAIN Stages
  BY StageFacts DEF WatchdogTypeOK
<1>1. CASE Load
  <2>1. at = Nobody
    BY <1>1, StageFacts DEF Load, VisitInv, Visiting, VisitSteps, WatchdogTypeOK
  <2> QED
    BY <1>1, <1>0, <2>1, VisitsTyped
      DEF Load, nodeVars, WatchdogTypeOK, NodeTypeOK, OwnersTypeOK, ThreadTypeOK, VisitInv
<1>2. CASE NextStage
  BY <1>2, <1>0, VisitsTyped DEF NextStage, Others, nodeVars,
     WatchdogTypeOK, NodeTypeOK, OwnersTypeOK, ThreadTypeOK, VisitInv
<1>3. CASE Sleep
  <2>1. at = Nobody
    BY <1>3, StageFacts DEF Sleep, VisitInv, Visiting, VisitSteps, WatchdogTypeOK
  <2>2. pass' \in Passes /\ stage' \in DOMAIN Stages
    <3>1. pass' \in Passes
      BY <1>3, WatchdogBounds DEF Sleep, Passes, WatchdogTypeOK
    <3>2. 1 \in DOMAIN Stages
      <4>1. DOMAIN Stages = 1..6
        BY StageNames
      <4> QED BY <4>1
    <3> QED BY <1>3, <3>1, <3>2 DEF Sleep
  <2> QED
    BY <1>3, <2>1, <2>2
      DEF Sleep, nodeVars, WatchdogTypeOK, NodeTypeOK, OwnersTypeOK, ThreadTypeOK, VisitInv
<1>4. ASSUME NEW a \in Apps, ReadPid(a)
      PROVE  NodeTypeOK' /\ OwnersTypeOK' /\ ThreadTypeOK' /\ VisitInv'
  <2>1. /\ Reading' /\ UNCHANGED <<nodeVars, pidfile, limit, pass, events, stage>> /\ todo' \subseteq Apps
    BY <1>4 DEF ReadPid, Others, Reading, WatchdogTypeOK
  <2>2. /\ samples' \in [Apps -> Samples \cup {Nobody}]
        /\ at' # Nobody => at' \in Visiting /\ at'.step = "status"
    <3>1. CASE pidfile[a] = Nobody
      BY <1>4, <3>1 DEF ReadPid, Done, WatchdogTypeOK
    <3>2. CASE pidfile[a] # Nobody
      <4>1. at' = Visit(a, "status", 0, Nobody) /\ UNCHANGED samples
        BY <1>4, <3>2 DEF ReadPid
      <4>2. "status" \in VisitSteps /\ 0 \in Sizes /\ Nobody \in ProcIds \cup {Nobody}
        BY DEF VisitSteps, Sizes
      <4>3. Visit(a, "status", 0, Nobody) \in Visiting /\ Visit(a, "status", 0, Nobody).step = "status"
        BY <3>2, <4>2, VisitTyped
      <4> QED BY <4>1, <4>3 DEF WatchdogTypeOK
    <3> QED BY <3>1, <3>2
  <2>3. at' # Nobody => at'.app \in Apps /\ at'.pid \in Pids /\ at'.who \in ProcIds \cup {Nobody}
    BY <2>2, VisitingTyped
  <2> QED
    BY <2>1, <2>2, <2>3 DEF nodeVars,
       WatchdogTypeOK, NodeTypeOK, OwnersTypeOK, ThreadTypeOK, VisitInv
<1>5. ASSUME NEW a \in Apps, Judge(a)
      PROVE  NodeTypeOK' /\ OwnersTypeOK' /\ ThreadTypeOK' /\ VisitInv'
  <2>1. /\ Enforcing' /\ UNCHANGED <<nodeVars, pidfile, limit, pass, samples, events, stage>>
        /\ todo' \subseteq Apps
    BY <1>5 DEF Judge, Others, Enforcing, WatchdogTypeOK
  <2>2. at' # Nobody => at' \in Visiting /\ at'.step = "cmdline" /\ samples'[at'.app] # Nobody
    <3>1. CASE samples[a] # Nobody /\ samples[a].size > limit /\ pidfile[a] # Nobody
      <4>1. at' = Visit(a, "cmdline", samples[a].size, samples[a].who)
        BY <1>5, <3>1 DEF Judge
      <4>2. "cmdline" \in VisitSteps /\ samples[a].size \in Sizes /\ samples[a].who \in ProcIds
        BY <3>1 DEF VisitSteps, WatchdogTypeOK, Samples
      <4>3. /\ Visit(a, "cmdline", samples[a].size, samples[a].who) \in Visiting
            /\ Visit(a, "cmdline", samples[a].size, samples[a].who).step = "cmdline"
            /\ Visit(a, "cmdline", samples[a].size, samples[a].who).app = a
        BY <3>1, <4>2, VisitTyped
      <4> QED BY <2>1, <3>1, <4>1, <4>3
    <3>2. CASE ~(samples[a] # Nobody /\ samples[a].size > limit /\ pidfile[a] # Nobody)
      BY <1>5, <3>2 DEF Judge
    <3> QED BY <3>1, <3>2
  <2>3. at' # Nobody => at'.app \in Apps /\ at'.pid \in Pids /\ at'.who \in ProcIds \cup {Nobody}
    BY <2>2, VisitingTyped
  <2> QED
    BY <2>1, <2>2, <2>3 DEF nodeVars,
       WatchdogTypeOK, NodeTypeOK, OwnersTypeOK, ThreadTypeOK, VisitInv
<1>6. CASE ReadStatus
  <2>1. /\ Reading /\ Reading' /\ UNCHANGED <<nodeVars, pidfile, limit, pass, events, stage, todo>>
        /\ at \in Visiting
    BY <1>6 DEF ReadStatus, Step, Others, Reading, VisitInv
  <2>2. CASE Holder(at.pid) = {} /\ Unmeasured
    BY <2>1, <2>2, VisitingTyped DEF Unmeasured, Done, nodeVars,
       WatchdogTypeOK, NodeTypeOK, OwnersTypeOK, ThreadTypeOK, VisitInv
  <2>3. ASSUME NEW i \in Holder(at.pid),
               at' = [at EXCEPT !.step = "stat", !.size = size[i], !.who = i], UNCHANGED samples
        PROVE  NodeTypeOK' /\ OwnersTypeOK' /\ ThreadTypeOK' /\ VisitInv'
    <3>1. i \in ProcIds /\ size[i] \in Sizes
      BY <2>1, VisitingTyped, HolderOne DEF WatchdogTypeOK
    <3>2. at' \in Visiting /\ at'.step = "stat" /\ at'.who # Nobody
      <4>1. i # Nobody
        BY <3>1, NobodyAssumption DEF ProcIds
      <4>2. PICK v \in Visiting : v = at
        BY <2>1
      <4>3. at' = [[[v EXCEPT !.step = "stat"] EXCEPT !.size = size[i]] EXCEPT !.who = i]
        BY <2>3, <4>2
      <4> QED BY <3>1, <4>1, <4>3 DEF Visiting, VisitSteps
    <3> QED BY <2>1, <2>3, <3>2, VisitingTyped DEF nodeVars,
       WatchdogTypeOK, NodeTypeOK, OwnersTypeOK, ThreadTypeOK, VisitInv
  <2> QED BY <1>6, <2>2, <2>3 DEF ReadStatus
<1>7. CASE ReadStat
  <2>1. /\ UNCHANGED <<nodeVars, pidfile, limit, pass, events, stage, todo>>
        /\ at \in Visiting /\ at' = Nobody
    BY <1>7 DEF ReadStat, Step, Others, VisitInv, Unmeasured, Done
  <2>2. samples' \in [Apps -> Samples \cup {Nobody}]
    <3>1. CASE Unmeasured
      BY <3>1, <2>1, VisitingTyped DEF Unmeasured, WatchdogTypeOK
    <3>2. ASSUME NEW i \in Holder(at.pid),
                 samples' = [samples EXCEPT ![at.app] = [size |-> at.size, start |-> i, who |-> at.who]]
          PROVE  samples' \in [Apps -> Samples \cup {Nobody}]
      <4>1. i \in ProcIds /\ at.size \in Sizes /\ at.who \in ProcIds
        BY <1>7, <2>1, VisitingTyped, HolderOne DEF ReadStat, VisitInv, Step
      <4> QED BY <4>1, <3>2 DEF WatchdogTypeOK, Samples
    <3> QED BY <1>7, <3>1, <3>2 DEF ReadStat
  <2> QED BY <2>1, <2>2 DEF nodeVars,
       WatchdogTypeOK, NodeTypeOK, OwnersTypeOK, ThreadTypeOK, VisitInv
<1>8. CASE CheckCmdline
  <2>1. /\ UNCHANGED <<nodeVars, pidfile, limit, pass, samples, events, stage, todo>>
        /\ at \in Visiting /\ at.step = "cmdline" /\ Enforcing /\ samples[at.app] # Nobody
    BY <1>8 DEF CheckCmdline, Step, Others, VisitInv
  <2>2. at' # Nobody => at' \in Visiting /\ at'.step = "start" /\ at'.app = at.app
    <3>1. PICK v \in Visiting : v = at
      BY <1>8, <2>1
    <3>2. "start" \in VisitSteps
      BY StepNames
    <3>3. [v EXCEPT !.step = "start"] \in Visiting /\ [v EXCEPT !.step = "start"].step = "start" /\ [v EXCEPT !.step = "start"].app = v.app
      BY <3>2, VisitingTyped
    <3> QED BY <1>8, <2>1, <3>1, <3>3 DEF CheckCmdline, Done
  <2> QED BY <2>1, <2>2, VisitingTyped DEF nodeVars, Enforcing,
       WatchdogTypeOK, NodeTypeOK, OwnersTypeOK, ThreadTypeOK, VisitInv
<1>9. CASE CheckStart
  <2>1. /\ UNCHANGED <<nodeVars, pidfile, limit, pass, samples, stage, todo>>
        /\ at \in Visiting /\ at.step = "start" /\ Enforcing /\ samples[at.app] # Nobody
    BY <1>9 DEF CheckStart, Step, Others, VisitInv
  <2>2. at' # Nobody => at' \in Visiting /\ at'.step = "kill" /\ at'.app = at.app
    <3>1. PICK v \in Visiting : v = at
      BY <1>9, <2>1
    <3>2. "kill" \in VisitSteps
      BY StepNames
    <3>3. [v EXCEPT !.step = "kill"] \in Visiting /\ [v EXCEPT !.step = "kill"].step = "kill" /\ [v EXCEPT !.step = "kill"].app = v.app
      BY <3>2, VisitingTyped
    <3> QED BY <1>9, <2>1, <3>1, <3>3 DEF CheckStart, Done
  <2>3. Event("pid-reuse-refused") \in Events
    BY <2>1, VisitingTyped DEF Event, Events
  <2>4. events' \in Seq(Events) /\ Len(events') <= RingMax
    BY <1>9, <2>3, PushTyped DEF CheckStart, WatchdogTypeOK
  <2> QED BY <2>1, <2>2, <2>4, VisitingTyped DEF nodeVars, Enforcing,
       WatchdogTypeOK, NodeTypeOK, OwnersTypeOK, ThreadTypeOK, VisitInv
<1>10. CASE Kill
  <2>1. /\ UNCHANGED <<pidfile, limit, pass, samples, stage, todo>>
        /\ at \in Visiting /\ at' = Nobody /\ Ends(Holder(at.pid))
    BY <1>10 DEF Kill, Step, Others, Done, VisitInv
  <2>2. Event("killed") \in Events
    BY <2>1, VisitingTyped DEF Event, Events
  <2>3. events' \in Seq(Events) /\ Len(events') <= RingMax
    BY <1>10, <2>2, PushTyped DEF Kill, WatchdogTypeOK
  <2>4. NodeTypeOK' /\ UNCHANGED procs
    BY <2>1, EndsKeepsProcs DEF WatchdogTypeOK, NodeTypeOK
  <2> QED BY <2>1, <2>3, <2>4 DEF WatchdogTypeOK, OwnersTypeOK, ThreadTypeOK, VisitInv
<1> QED
  BY <1>1, <1>2, <1>3, <1>4, <1>5, <1>6, <1>7, <1>8, <1>9, <1>10 DEF Thread

LEMMA WatchdogInitInv ==
    ASSUME WatchdogInit
    PROVE  WatchdogInv /\ MeasuredInv
<1>1. 1 \in DOMAIN Stages
  <2>1. DOMAIN Stages = 1..6
    BY StageNames
  <2> QED BY <2>1
<1>2. WatchdogTypeOK
  BY <1>1, WatchdogBounds DEF WatchdogInit, WatchdogTypeOK, Sizes, Limits, Passes
<1> QED
  BY <1>2 DEF WatchdogInit, WatchdogInv, VisitInv, MeasuredInv, Step

LEMMA WatchdogNextInv ==
    ASSUME WatchdogInv, [WatchdogNext]_watchdogVars
    PROVE  WatchdogInv'
<1>1. CASE UNCHANGED watchdogVars
  BY <1>1 DEF watchdogVars, nodeVars, threadVars, WatchdogInv, WatchdogTypeOK, VisitInv,
     Reading, Enforcing
<1>2. CASE Thread
  <2>1. WatchdogTypeOK'
    BY <1>2, ThreadStep DEF WatchdogTypeOK, NodeTypeOK, OwnersTypeOK, ThreadTypeOK
  <2> QED BY <1>2, <2>1, ThreadStep DEF WatchdogInv
<1>3. CASE Owners
  <2>1. ThreadTypeOK' /\ VisitInv'
    BY <1>3, OwnersStep DEF WatchdogInv, threadVars, WatchdogTypeOK, ThreadTypeOK, VisitInv, Reading, Enforcing
  <2>2. WatchdogTypeOK'
    BY <1>3, <2>1, OwnersStep DEF WatchdogInv, WatchdogTypeOK, NodeTypeOK, OwnersTypeOK, ThreadTypeOK
  <2> QED BY <2>1, <2>2 DEF WatchdogInv
<1>4. CASE Node
  <2>1. UNCHANGED <<pidfile, threadVars>>
    BY <1>4 DEF Node, Grow, Exit, Stranger
  <2>2. OwnersTypeOK'
    BY <1>4, <2>1, NodeStep DEF WatchdogInv, WatchdogTypeOK, OwnersTypeOK
  <2>3. ThreadTypeOK' /\ VisitInv'
    BY <2>1 DEF WatchdogInv, threadVars, WatchdogTypeOK, ThreadTypeOK, VisitInv, Reading, Enforcing
  <2>4. WatchdogTypeOK'
    BY <1>4, <2>2, <2>3, NodeStep DEF WatchdogInv, WatchdogTypeOK, NodeTypeOK, OwnersTypeOK, ThreadTypeOK
  <2> QED BY <2>3, <2>4 DEF WatchdogInv
<1> QED BY <1>1, <1>2, <1>3, <1>4 DEF WatchdogNext

(* Types, and a visit of the watchdog belongs to the stage of its loop: no sample
   is refreshed while enforce judges it. *)
THEOREM WatchdogInvariance == WatchdogSpec => []WatchdogInv
<1>1. WatchdogInit => WatchdogInv
  BY WatchdogInitInv
<1> QED BY <1>1, WatchdogNextInv, PTL DEF WatchdogSpec

-----------------------------------------------------------------------------
(* Who is ended. *)

(* While the pass lasts, a pid that was its process's stays so or is free. *)
LEMMA ForkKeepsPid ==
    ASSUME WatchdogTypeOK, ~QuickReuse, NEW q \in Pids, NEW a \in Apps \cup {Nobody}, Fork(q, a), UNCHANGED pass,
           NEW p \in Pids, NEW i, StillItsPid(p, i)
    PROVE  StillItsPid(p, i)'
<1>1. pass # Nobody
  BY NobodyAssumption DEF WatchdogTypeOK, Passes
<1>2. ~(pass < pass)
  BY WatchdogBounds DEF WatchdogTypeOK, Passes
<1>3. Holder(q) = {} /\ freed[q] # pass
  BY <1>1, <1>2 DEF Fork, IsFree
<1>4. p # q
  BY <1>3 DEF StillItsPid
<1> QED BY <1>4, ForkKeeps DEF StillItsPid

LEMMA EndsKeepsPid ==
    ASSUME WatchdogTypeOK, NEW is, Ends(is), UNCHANGED pass, NEW p \in Pids, NEW i, StillItsPid(p, i)
    PROVE  StillItsPid(p, i)'
<1>1. Holder(p)' \subseteq Holder(p) /\ (freed'[p] = pass \/ freed'[p] = freed[p])
  BY EndsKeepsProcs
<1>2. Holder(p)' # Holder(p) => freed'[p] = pass
  BY EndsKeepsProcs
<1> QED BY <1>1, <1>2 DEF StillItsPid

LEMMA StepKeepsPid ==
    ASSUME WatchdogInv, ~QuickReuse, [WatchdogNext]_watchdogVars, UNCHANGED pass, NEW p \in Pids, NEW i, StillItsPid(p, i)
    PROVE  StillItsPid(p, i)'
<1> USE DEF WatchdogInv
<1>1. CASE UNCHANGED nodeVars
  BY <1>1 DEF nodeVars, StillItsPid, Holder
<1>2. CASE Thread
  <2>1. CASE Kill
    BY <2>1, EndsKeepsPid DEF Kill
  <2>2. CASE ~Kill
    BY <1>1, <1>2, <2>2 DEF Thread, Load, NextStage, Sleep, ReadPid, Judge, ReadStatus,
       ReadStat, CheckCmdline, CheckStart
  <2> QED BY <2>1, <2>2
<1>3. CASE Owners
  <2>1. ASSUME NEW a \in Apps, NEW q \in Pids, RunCelld(a, q) \/ Spawn(a, q) PROVE StillItsPid(p, i)'
    BY <2>1, ForkKeepsPid DEF RunCelld, Spawn
  <2>2. ASSUME NEW a \in Apps, RemovePidfile(a) PROVE StillItsPid(p, i)'
    BY <1>1, <2>2 DEF RemovePidfile
  <2> QED BY <1>3, <2>1, <2>2 DEF Owners
<1>4. CASE Node
  <2>1. ASSUME NEW j \in alive, Grow(j) PROVE StillItsPid(p, i)'
    BY <2>1 DEF Grow, StillItsPid, Holder
  <2>2. ASSUME NEW j \in alive, Exit(j) PROVE StillItsPid(p, i)'
    BY <2>2, EndsKeepsPid DEF Exit
  <2>3. ASSUME NEW q \in Pids, Stranger(q) PROVE StillItsPid(p, i)'
    BY <2>3, ForkKeepsPid DEF Stranger
  <2> QED BY <1>4, <2>1, <2>2, <2>3 DEF Node
<1> QED BY <1>1, <1>2, <1>3, <1>4 DEF WatchdogNext, watchdogVars

LEMMA MeasuredNext ==
    ASSUME WatchdogInv, MeasuredInv, ~QuickReuse, [WatchdogNext]_watchdogVars
    PROVE  MeasuredInv'
<1> USE DEF WatchdogInv
<1>1. CASE UNCHANGED <<samples, at, pass>>
  <2>1. at # Nobody => at.app \in Apps /\ at.pid \in Pids
    BY DEF WatchdogTypeOK
  <2>2. ASSUME Step("stat")' PROVE StillItsPid(at.pid, at.who)'
    <3>1. StillItsPid(at.pid, at.who) /\ at.pid \in Pids
      BY <1>1, <2>1, <2>2 DEF MeasuredInv, Step
    <3>2. PICK p, i : p = at.pid /\ i = at.who
      BY <3>1
    <3>3. StillItsPid(p, i)'
      BY <1>1, <3>1, <3>2, StepKeepsPid
    <3> QED BY <1>1, <3>2, <3>3
  <2>3. ASSUME Step("kill")' PROVE StillItsPid(at.pid, samples[at.app].start)'
    <3>1. StillItsPid(at.pid, samples[at.app].start) /\ at.pid \in Pids
      BY <1>1, <2>1, <2>3 DEF MeasuredInv, Step
    <3>2. PICK p, i : p = at.pid /\ i = samples[at.app].start
      BY <3>1
    <3>3. StillItsPid(p, i)'
      BY <1>1, <3>1, <3>2, StepKeepsPid
    <3> QED BY <1>1, <3>2, <3>3
  <2> QED BY <1>1, <2>2, <2>3 DEF MeasuredInv, Step
<1>2. CASE Thread
  <2>0. ASSUME UNCHANGED samples, at' # Nobody => at'.step \notin {"stat", "kill"}
        PROVE  MeasuredInv'
    BY <2>0 DEF MeasuredInv, Step
  <2>1. CASE Load
    BY <1>1, <2>1 DEF Load
  <2>2. CASE NextStage
    BY <1>1, <2>2 DEF NextStage, Others
  <2>3. CASE Sleep
    <3>1. at = Nobody
      BY <2>3, StageFacts DEF Sleep, VisitInv, Visiting, VisitSteps, WatchdogTypeOK
    <3> QED BY <2>3, <3>1 DEF Sleep, MeasuredInv, Step
  <2>4. ASSUME NEW a \in Apps, ReadPid(a) PROVE MeasuredInv'
    <3>1. at' = Nobody \/ (UNCHANGED samples /\ at'.step = "status")
      BY <2>4 DEF ReadPid, Done, Visit
    <3>2. samples' = samples \/ samples' = [samples EXCEPT ![a] = Nobody]
      BY <2>4 DEF ReadPid
    <3> QED BY <3>1, <3>2 DEF MeasuredInv, Step, WatchdogTypeOK
  <2>5. ASSUME NEW a \in Apps, Judge(a) PROVE MeasuredInv'
    BY <2>0, <2>5 DEF Judge, Visit
  <2>6. CASE ReadStatus
    <3>1. at \in Visiting /\ UNCHANGED <<nodeVars, pass>> /\ at.app \in Apps /\ at.pid \in Pids
      BY <2>6, VisitingTyped DEF ReadStatus, Step, VisitInv, Others
    <3>2. CASE Holder(at.pid) = {} /\ Unmeasured
      BY <3>1, <3>2 DEF Unmeasured, Done, MeasuredInv, Step, WatchdogTypeOK
    <3>3. ASSUME NEW i \in Holder(at.pid),
               at' = [at EXCEPT !.step = "stat", !.size = size[i], !.who = i], UNCHANGED samples
          PROVE  MeasuredInv'
      <4>1. at'.pid = at.pid /\ at'.who = i /\ at'.step = "stat"
        BY <3>1, <3>3 DEF Visiting
      <4>2. Holder(at.pid) = {i}
        BY <3>1, HolderOne
      <4>3. \A p : Holder(p)' = Holder(p)
        BY <3>1 DEF nodeVars, Holder
      <4>4. StillItsPid(at.pid, i)
        BY <4>2 DEF StillItsPid
      <4>5. StillItsPid(at.pid, at.who)'
        BY <3>1, <4>1, <4>3, <4>4 DEF StillItsPid, Holder, nodeVars
      <4> QED BY <3>3, <4>1, <4>5 DEF MeasuredInv, Step
    <3> QED BY <2>6, <3>2, <3>3 DEF ReadStatus
  <2>7. CASE ReadStat
    <3>1. at \in Visiting /\ at.app \in Apps /\ at.pid \in Pids /\ at' = Nobody /\ Step("stat")
      BY <2>7, VisitingTyped DEF ReadStat, Step, VisitInv, Unmeasured, Done
    <3>2. CASE Unmeasured
      BY <3>1, <3>2 DEF Unmeasured, MeasuredInv, Step, WatchdogTypeOK
    <3>3. ASSUME NEW i \in Holder(at.pid),
                 samples' = [samples EXCEPT ![at.app] = [size |-> at.size, start |-> i, who |-> at.who]]
          PROVE  MeasuredInv'
      <4>1. i = at.who
        BY <3>1 DEF MeasuredInv, StillItsPid
      <4> QED BY <3>1, <3>3, <4>1 DEF MeasuredInv, Step, WatchdogTypeOK
    <3> QED BY <2>7, <3>2, <3>3 DEF ReadStat
  <2>8. CASE CheckCmdline
    <3>1. at \in Visiting
      BY <2>8 DEF CheckCmdline, Step, VisitInv
    <3>2. at' # Nobody => at'.step = "start"
      <4>1. PICK v \in Visiting : v = at
        BY <2>8, <3>1
      <4>2. "start" \in VisitSteps
        BY StepNames
      <4>3. [v EXCEPT !.step = "start"] \in Visiting /\ [v EXCEPT !.step = "start"].step = "start" /\ [v EXCEPT !.step = "start"].app = v.app
        BY <4>2, VisitingTyped
      <4> QED BY <2>8, <3>1, <4>1, <4>3 DEF CheckCmdline, Done
    <3> QED BY <2>0, <2>8, <3>2 DEF CheckCmdline
  <2>9. CASE CheckStart
    <3>1. at \in Visiting /\ at.pid \in Pids /\ UNCHANGED <<nodeVars, pass, samples>>
      BY <2>9, VisitingTyped DEF CheckStart, Step, VisitInv, Others
    <3>2. CASE samples[at.app].start \in Holder(at.pid) /\ at' = [at EXCEPT !.step = "kill"]
      <4>1. at'.pid = at.pid /\ at'.app = at.app /\ at'.step = "kill"
        BY <3>1, <3>2, VisitingTyped DEF VisitSteps
      <4>2. Holder(at.pid) = {samples[at.app].start}
        BY <3>1, <3>2, HolderOne
      <4>3. StillItsPid(at.pid, samples[at.app].start)'
        BY <3>1, <4>1, <4>2 DEF StillItsPid, Holder, nodeVars
      <4> QED BY <3>1, <4>1, <4>3 DEF MeasuredInv, Step
    <3>3. CASE Done
      BY <2>0, <3>1, <3>3 DEF Done
    <3> QED BY <2>9, <3>2, <3>3 DEF CheckStart
  <2>10. CASE Kill
    BY <2>0, <2>10 DEF Kill, Done
  <2> QED BY <1>2, <2>1, <2>2, <2>3, <2>4, <2>5, <2>6, <2>7, <2>8, <2>9, <2>10 DEF Thread
<1>3. CASE Owners
  BY <1>1, <1>3, OwnersStep DEF threadVars
<1>4. CASE Node
  BY <1>1, <1>4 DEF Node, Grow, Exit, Stranger, threadVars
<1>5. CASE UNCHANGED watchdogVars
  BY <1>1, <1>5 DEF watchdogVars, threadVars
<1> QED BY <1>2, <1>3, <1>4, <1>5 DEF WatchdogNext

LEMMA MeasuredStep ==
    ASSUME WatchdogInv, MeasuredInv
    PROVE  /\ Kill => alive \ alive' \subseteq {samples[at.app].who}
           /\ (CheckStart /\ events' # events) => samples[at.app].who \notin Holder(at.pid)
<1>1. at # Nobody /\ at.step \in {"start", "kill"} => samples[at.app].who = samples[at.app].start
  BY DEF WatchdogInv, WatchdogTypeOK, VisitInv, MeasuredInv
<1>2. ASSUME Kill PROVE alive \ alive' \subseteq {samples[at.app].who}
  BY <1>1, <1>2 DEF Kill, Step, Ends, MeasuredInv, StillItsPid
<1>3. ASSUME CheckStart, events' # events PROVE samples[at.app].who \notin Holder(at.pid)
  BY <1>1, <1>3 DEF CheckStart, Step
<1> QED BY <1>2, <1>3

(* As long as a pid that was freed in a pass is not taken again in it, the
   watchdog kills the process whose memory it measured and no other, and reports
   a reuse of the pid only if there was one (enforce_one). *)
THEOREM WatchdogEndsTheMeasured == ~QuickReuse => (WatchdogSpec => EndsTheMeasured)
<1> SUFFICES ASSUME ~QuickReuse PROVE WatchdogSpec => EndsTheMeasured
  OBVIOUS
<1>1. WatchdogInit => MeasuredInv
  BY WatchdogInitInv
<1>2. WatchdogInv /\ MeasuredInv /\ [WatchdogNext]_watchdogVars => MeasuredInv'
  BY MeasuredNext
<1>3. WatchdogInv /\ MeasuredInv =>
        /\ Kill => alive \ alive' \subseteq {samples[at.app].who}
        /\ (CheckStart /\ events' # events) => samples[at.app].who \notin Holder(at.pid)
  BY MeasuredStep
<1> QED BY <1>1, <1>2, <1>3, WatchdogInvariance, PTL DEF EndsTheMeasured, WatchdogSpec

=============================================================================
