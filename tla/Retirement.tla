----------------------------- MODULE Retirement -----------------------------
(***************************************************************************)
(* How an execution that lost its route is drained and retired.  When an   *)
(* activation replaces the active version, the Kernel authorizes a drain   *)
(* command and records what the drain must prove (wasm_commands.rs); the   *)
(* supervisor stops the process by the deadline of that record and writes  *)
(* a receipt (wasm-executor.ts); the receipt is the only way to `retired`. *)
(* A receipt without a forced kill is the supervisor's word: a stop may be *)
(* answered without a signal, with the process running (SandboxRuntime).   *)
(*                                                                         *)
(* One mutation of the Kernel is one call of save_control_state, and that  *)
(* writes three files: the control state, with the route and the outbox,   *)
(* then the route registry, with the records, then the ledger that the     *)
(* supervisor reads.  A crash or an I/O error may fall between any two.    *)
(* How a command reaches the supervisor is module CommandDelivery, how an  *)
(* activation is granted module Route.                                     *)
(*                                                                         *)
(* A version stands for its execution: sandbox, version and generations.   *)
(***************************************************************************)
EXTENDS Naturals, Sequences, FiniteSets

CONSTANTS Versions,   \* versions of one application, all of them started
          Deadlines,  \* the drain deadline in the fence of each version, or None
          MaxTime,    \* bound: the clock
          MaxGrants,  \* bound: activations
          MaxFaults,  \* bound: crashes, I/O errors, processes that survive
          None        \* no version, no deadline, no receipt, no save

Time == 0..MaxTime
ASSUME BoundsAssumption == MaxTime \in Nat /\ MaxGrants \in Nat /\ MaxFaults \in Nat
ASSUME DeadlinesAssumption == Deadlines \in [Versions -> Time \cup {None}]

(* A drain command is named by its place among the drains of the outbox. *)
Ids     == 1..(MaxGrants + MaxFaults)
Entries == [version : Versions, state : {"pending", "acknowledged"}]

(* What a receipt says, and what the Kernel recorded to judge it by. *)
Receipts == [cmd : Ids, version : Versions, generation : Nat, deadline : Time,
             forcedAt : Time \cup {None}]
Records  == [cmd : Ids, version : Versions, generation : Nat, deadline : Time,
             flip : Time, receipt : Receipts \cup {None}]

(* The two files of the Kernel that a mutation rewrites as a whole. *)
Lifecycles    == {"preparing", "ready", "active", "retiring", "retired"}
ControlStates == [route : Versions \cup {None}, generation : Nat, leased : SUBSET Versions,
                  outbox : Seq(Entries), lifecycle : [Versions -> Lifecycles]]
Registries    == SUBSET Records

(* A mutation on its way, and the file it writes next. *)
Savings == [control : ControlStates, records : Registries, step : {"control", "registry", "ledger"}]
ASSUME NoneAssumption == None \notin Versions \cup Time /\ None \notin Savings

VARIABLES
    grants,    \* activation file: the versions activated, in order
    control,   \* control-state file: route, generation, lifecycle, leased, outbox
    records,   \* route-registry file: the retiring executions
    ledger,    \* retirements.json, what the supervisor may read
    mode,      \* the Kernel: up, down, or fenced by a failed start-up
    task,      \* a start-up or an activation that holds the runtime, or None
    saving,    \* a mutation on its way to the three files, or None
    clock,     \* wall clock
    serving,   \* the supervisor runs
    known,     \* its ledger in memory
    substate,  \* its execution fences: running, retiring or stopped
    process,   \* the processes: running or ended
    effect,    \* drains whose side effect runs or ended, not yet in the journal
    journal,   \* execution journal: none, received, applied or rejected
    receipts,  \* receipts that were written
    faults     \* faults so far

files      == <<grants, control, records, ledger>>
kernel     == <<mode, task, saving>>
supervisor == <<serving, known, substate, process, effect, journal, receipts>>
vars       == <<files, kernel, supervisor, clock, faults>>

Commands == DOMAIN control.outbox
Pending  == {c \in Commands : control.outbox[c].state = "pending"}
Fault    == faults < MaxFaults /\ faults' = faults + 1

Init ==
    /\ grants = <<>>
    /\ control = [route |-> None, generation |-> 0, leased |-> {}, outbox |-> <<>>,
                  lifecycle |-> [v \in Versions |-> "preparing"]]
    /\ records = {} /\ ledger = {}
    /\ mode = "up" /\ task = None /\ saving = None
    /\ clock = 0
    /\ serving = TRUE /\ known = {}
    /\ substate = [v \in Versions |-> "running"]
    /\ process = [v \in Versions |-> "running"]
    /\ effect = {}
    /\ journal = [c \in Ids |-> "none"]
    /\ receipts = {}
    /\ faults = 0

Tick ==
    /\ clock < MaxTime
    /\ clock' = clock + 1
    /\ UNCHANGED <<files, kernel, supervisor, faults>>

-----------------------------------------------------------------------------
(* save_control_state: three files, one after the other.  The caller's state is
   judged as a whole before the first. *)

Free == mode = "up" /\ saving = None
Idle == Free /\ task = None

(* validate: a version that is ready or active carries a readiness lease, the
   pointer names one of the versions, command ids do not repeat. *)
Valid(c) ==
    /\ c.route \in Versions \cup {None}
    /\ \A v \in Versions : c.lifecycle[v] \in {"ready", "active"} => v \in c.leased

Save(c, rs) ==
    /\ Valid(c)
    /\ saving' = [control |-> c, records |-> rs, step |-> "control"]
    /\ UNCHANGED <<files, mode, task, clock, faults>>

WriteControl ==
    /\ mode = "up" /\ saving # None /\ saving.step = "control"
    /\ control' = saving.control
    /\ saving' = [saving EXCEPT !.step = "registry"]
    /\ UNCHANGED <<grants, records, ledger, mode, task, supervisor, clock, faults>>

WriteRegistry ==
    /\ mode = "up" /\ saving # None /\ saving.step = "registry"
    /\ records' = saving.records
    /\ saving' = [saving EXCEPT !.step = "ledger"]
    /\ UNCHANGED <<grants, control, ledger, mode, task, supervisor, clock, faults>>

WriteLedger ==
    /\ mode = "up" /\ saving # None /\ saving.step = "ledger"
    /\ ledger' = saving.records
    /\ saving' = None
    /\ UNCHANGED <<grants, control, records, mode, task, supervisor, clock, faults>>

(* A file cannot be written: the call ends, a start-up fences the runtime. *)
WriteError ==
    /\ mode = "up" /\ saving # None /\ Fault
    /\ saving' = None /\ task' = None
    /\ mode' = IF task = "startup" THEN "fenced" ELSE "up"
    /\ UNCHANGED <<files, supervisor, clock>>

-----------------------------------------------------------------------------
(* The projection of activations: sync_lifecycle_after_activation. *)

Current(g)  == IF g \in DOMAIN grants THEN grants[g] ELSE None
Tracked(rs, v) == \E r \in rs : r.version = v

(* authorize_drain_with_retirement: the outbox entry and the record of the
   execution that event g replaces, unless there is a record already, or the
   fence of that execution has no deadline. *)
MustRetire(g) ==
    LET v == Current(g - 1) IN
    v # None /\ v # Current(g) /\ ~Tracked(records, v) /\ Deadlines[v] # None

Late(g) == MustRetire(g) /\ Deadlines[Current(g - 1)] < clock

Bug_Drain(c, g) ==
    [c EXCEPT !.outbox = Append(@, [version |-> c.route, state |-> "pending"])]
Drain(c, g) ==
    [c EXCEPT !.outbox = Append(@, [version |-> Current(g - 1), state |-> "pending"])]
Record(g) ==
    [cmd |-> Len(control.outbox) + 1, version |-> Current(g - 1), generation |-> g - 1,
     deadline |-> Deadlines[Current(g - 1)], flip |-> clock, receipt |-> None]

(* The mutation of event g on top of c: with or without a retirement. *)
Project(c, g) ==
    IF MustRetire(g) THEN Save(Drain(c, g), records \cup {Record(g)}) ELSE Save(c, records)

Syncing == Free /\ task # None
Next1   == control.generation + 1
HasNext == Next1 <= Len(grants)

(* The next event flips the route.  A version that was activated before, by
   another lease, is refused. *)
Flip ==
    /\ Syncing /\ HasNext /\ ~Late(Next1)
    /\ grants[Next1] \notin control.leased
    /\ LET v == grants[Next1] IN
         Project([control EXCEPT !.route = v, !.generation = Next1,
                    !.lifecycle[v] = "active", !.leased = @ \cup {v}], Next1)
    /\ UNCHANGED supervisor

(* The current event once more: what a crash kept from the registry is planned
   again, under a command of its own. *)
Retrace ==
    /\ Syncing /\ ~HasNext /\ control.generation > 0
    /\ MustRetire(control.generation) /\ ~Late(control.generation)
    /\ Len(control.outbox) < Cardinality(Ids)
    /\ Project(control, control.generation)
    /\ UNCHANGED supervisor

(* A deadline that precedes the flip, or a version whose lease is another. *)
SyncFails ==
    /\ Syncing
    /\ \/ HasNext /\ (Late(Next1) \/ grants[Next1] \in control.leased)
       \/ ~HasNext /\ control.generation > 0 /\ Late(control.generation)
    /\ task' = None
    /\ mode' = IF task = "startup" THEN "fenced" ELSE "up"
    /\ UNCHANGED <<files, saving, supervisor, clock, faults>>

Bug_Synced == ~HasNext
Synced == ~HasNext /\ (control.generation = 0 \/ ~MustRetire(control.generation))

EndTask ==
    /\ Syncing /\ Synced
    /\ task' = None
    /\ UNCHANGED <<files, mode, saving, supervisor, clock, faults>>

BeginActivation ==
    /\ Idle
    /\ task' = "activation"
    /\ UNCHANGED <<files, mode, saving, supervisor, clock, faults>>

(* The grant of module Route: one write of the activation file. *)
Grant(v) ==
    /\ Syncing /\ Synced /\ task = "activation"
    /\ Len(grants) < MaxGrants
    /\ grants' = Append(grants, v)
    /\ UNCHANGED <<control, records, ledger, kernel, supervisor, clock, faults>>

-----------------------------------------------------------------------------
(* Rounds of delivery and receipts, at the Kernel. *)

(* An attempt that brought no acknowledgement is recorded: the three files are
   written again as they are. *)
RecordAttempt ==
    /\ Idle /\ Pending # {}
    /\ control.route # None /\ Fault
    /\ saving' = [control |-> control, records |-> records, step |-> "control"]
    /\ UNCHANGED <<files, mode, task, supervisor, clock>>

(* decide_reconciliation and project_acknowledgement: an outcome in the journal,
   applied or rejected, ends the delivery. *)
Acknowledge(c) ==
    /\ Idle /\ serving /\ c \in Pending
    /\ journal[c] \in {"applied", "rejected"}
    /\ Save([control EXCEPT !.outbox[c].state = "acknowledged"], records)
    /\ UNCHANGED supervisor

(* correlate_drain_receipt, and the record the receipt has to agree with. *)
Matches(r, p) ==
    /\ p.cmd = r.cmd /\ p.version = r.version
    /\ p.generation = r.generation /\ p.deadline = r.deadline
    /\ p.forcedAt # None => p.forcedAt >= r.deadline

(* A version's lifecycle says retired from its first receipt on. *)
Retires(r, p) ==
    [control EXCEPT !.lifecycle[p.version] = IF r.receipt = None THEN "retired" ELSE @]

(* project_drain_receipt, of any receipt, any number of times: the first one is
   accepted, the same one again changes nothing, another one is refused. *)
ProjectReceipt(p) ==
    /\ Idle /\ p \in receipts
    /\ \E r \in records :
         /\ Matches(r, p) /\ r.receipt \in {None, p}
         /\ control.outbox[p.cmd].version = p.version
         /\ Save(Retires(r, p), (records \ {r}) \cup {[r EXCEPT !.receipt = p]})
    /\ UNCHANGED supervisor

-----------------------------------------------------------------------------
(* The Kernel process stops and is started again. *)

Crash ==
    /\ mode # "down" /\ Fault
    /\ mode' = "down" /\ task' = None /\ saving' = None
    /\ UNCHANGED <<files, supervisor, clock>>

Start ==
    /\ mode # "up"
    /\ mode' = "up" /\ task' = "startup"
    /\ UNCHANGED <<files, saving, supervisor, clock, faults>>

-----------------------------------------------------------------------------
(* The supervisor. *)

KernelSide == UNCHANGED <<files, kernel, clock>>

(* loadFromFile: one record that is already retired makes the whole file
   invalid; the records before it were taken in. *)
Readable   == \A r \in ledger : r.receipt = None
Taken      == known \cup {r \in ledger : \A q \in ledger : q.cmd <= r.cmd => q.receipt = None}
Held(c, k) == \E r \in k : r.cmd = c
RecordOf(c) == CHOOSE r \in known : r.cmd = c
Version(c) == control.outbox[c].version

Executing == {e.cmd : e \in effect}

(* A delivery, or a replay of what was received; rounds come one at a time. *)
Reaches(c) ==
    /\ Idle /\ serving /\ c \in Pending /\ c \notin Executing
    /\ journal[c] \in {"none", "received"}

(* drainPreflight: the fence is not stopped and the ledger holds the command. *)
Accept(c) ==
    /\ Reaches(c)
    /\ substate[Version(c)] # "stopped"
    /\ Held(c, known) \/ (Readable /\ Held(c, Taken))
    /\ known' = IF Held(c, known) THEN known ELSE Taken
    /\ journal' = [journal EXCEPT ![c] = "received"]
    /\ effect' = effect \cup {[cmd |-> c, phase |-> "stopping", forcedAt |-> None]}
    /\ UNCHANGED <<serving, substate, process, receipts, faults>>
    /\ KernelSide

(* WASM_EXECUTION_FENCE_STALE and EXECUTION_DRAIN_RECEIPT_UNAVAILABLE. *)
Reject(c) ==
    /\ Reaches(c)
    /\ \/ substate[Version(c)] = "stopped" /\ UNCHANGED <<known, substate>>
       \/ /\ substate[Version(c)] # "stopped"
          /\ ~Held(c, known) /\ Readable /\ ~Held(c, Taken)
          /\ known' = Taken
          /\ substate' = [substate EXCEPT ![Version(c)] = "retiring"]
    /\ journal' = [journal EXCEPT ![c] = "rejected"]
    /\ UNCHANGED <<serving, process, effect, receipts, faults>>
    /\ KernelSide

(* The ledger cannot be read: the command stays received. *)
Unreadable(c) ==
    /\ Reaches(c)
    /\ substate[Version(c)] # "stopped" /\ ~Held(c, known) /\ ~Readable
    /\ known' = Taken
    /\ journal' = [journal EXCEPT ![c] = "received"]
    /\ UNCHANGED <<serving, substate, process, effect, receipts, faults>>
    /\ KernelSide

Ending(e) == [process EXCEPT ![Version(e.cmd)] = "ended"]

Bug_Stop(e) ==
    /\ serving /\ e \in effect /\ e.phase = "stopping"
    /\ \/ /\ effect' = (effect \ {e}) \cup {[e EXCEPT !.phase = "stopped"]}
          /\ substate' = [substate EXCEPT ![Version(e.cmd)] = "retiring"]
       \/ /\ clock >= RecordOf(e.cmd).deadline
          /\ effect' = (effect \ {e}) \cup {[e EXCEPT !.phase = "stopped", !.forcedAt = clock]}
          /\ substate' = [substate EXCEPT ![Version(e.cmd)] = "stopped"]
    /\ UNCHANGED <<serving, known, process, journal, receipts, faults>>
    /\ KernelSide

(* stopExecution answers "stopped": the process has ended after SIGTERM, or what
   was read of it is not what was recorded, and then there is no signal and it may
   run on.  "forced-kill", once the budget to the deadline is used up: SIGKILL,
   and nobody has the pid any more. *)
Stop(e) ==
    /\ serving /\ e \in effect /\ e.phase = "stopping"
    /\ \/ /\ process' \in {process, Ending(e)}
          /\ effect' = (effect \ {e}) \cup {[e EXCEPT !.phase = "stopped"]}
          /\ substate' = [substate EXCEPT ![Version(e.cmd)] = "retiring"]
       \/ /\ clock >= RecordOf(e.cmd).deadline
          /\ process' = Ending(e)
          /\ effect' = (effect \ {e}) \cup {[e EXCEPT !.phase = "stopped", !.forcedAt = clock]}
          /\ substate' = [substate EXCEPT ![Version(e.cmd)] = "stopped"]
    /\ UNCHANGED <<serving, known, journal, receipts, faults>>
    /\ KernelSide

(* WASM_PROCESS_LOST: the process survived a forced kill. *)
Survives(e) ==
    /\ serving /\ e \in effect /\ e.phase = "stopping" /\ Fault
    /\ clock >= RecordOf(e.cmd).deadline
    /\ effect' = effect \ {e}
    /\ substate' = [substate EXCEPT ![Version(e.cmd)] = "retiring"]
    /\ journal' = [journal EXCEPT ![e.cmd] = "rejected"]
    /\ UNCHANGED <<serving, known, process, receipts>>
    /\ KernelSide

Bug_Complete(e) ==
    /\ serving /\ e \in effect /\ e.phase = "stopped"
    /\ effect' = effect \ {e}
    /\ LET r == RecordOf(e.cmd) IN
       receipts' = receipts \cup {[cmd |-> e.cmd, version |-> r.version,
           generation |-> r.generation, deadline |-> r.deadline, forcedAt |-> e.forcedAt]}
    /\ UNCHANGED <<serving, journal, known, substate, process, faults>>
    /\ KernelSide

(* The completion, and with it the receipt. *)
Complete(e) ==
    /\ serving /\ e \in effect /\ e.phase = "stopped"
    /\ effect' = effect \ {e}
    /\ journal' = [journal EXCEPT ![e.cmd] = "applied"]
    /\ LET r == RecordOf(e.cmd) IN
       receipts' = receipts \cup {[cmd |-> e.cmd, version |-> r.version,
           generation |-> r.generation, deadline |-> r.deadline, forcedAt |-> e.forcedAt]}
    /\ UNCHANGED <<serving, known, substate, process, faults>>
    /\ KernelSide

(* The entrypoint ends what the supervisor left before it starts another. *)
SupervisorCrash ==
    /\ serving /\ Fault
    /\ serving' = FALSE
    /\ known' = {} /\ effect' = {}
    /\ process' = [v \in Versions |-> "ended"]
    /\ UNCHANGED <<substate, journal, receipts>>
    /\ KernelSide

(* The fences are rebuilt: every received drain goes through the pure decision
   again, by the clock of now; an unreadable ledger keeps the supervisor down. *)
SupervisorStart ==
    /\ ~serving /\ Readable
    /\ serving' = TRUE
    /\ known' = ledger
    /\ substate' = [v \in Versions |->
         LET drains == {c \in Commands : Version(c) = v /\ journal[c] \in {"received", "applied"}} IN
         IF \E r \in ledger : r.cmd \in drains /\ clock > r.deadline THEN "stopped"
         ELSE IF \E c \in Commands : Version(c) = v /\ journal[c] # "none" THEN "retiring"
         ELSE "running"]
    /\ UNCHANGED <<process, effect, journal, receipts, faults>>
    /\ KernelSide

-----------------------------------------------------------------------------
KernelStep ==
    \/ WriteControl \/ WriteRegistry \/ WriteLedger
    \/ Flip \/ Retrace \/ SyncFails \/ EndTask

Handle == \E c \in Commands : Accept(c) \/ Reject(c) \/ Unreadable(c)
Finish == \E e \in effect : Stop(e) \/ Complete(e)
Settle == \E c \in Commands : Acknowledge(c)

Next ==
    \/ KernelStep \/ Start \/ BeginActivation \/ Tick
    \/ \E v \in Versions : Grant(v)
    \/ Handle \/ Finish \/ Settle
    \/ \E p \in receipts : ProjectReceipt(p)
    \/ SupervisorStart
    \/ RecordAttempt \/ WriteError \/ Crash \/ SupervisorCrash
    \/ \E e \in effect : Survives(e)

Spec == Init /\ [][Next]_vars

(* A call under the mutex runs to its end; processes that stopped are started
   again; the delivery round comes back every ten seconds however often an
   activation or a receipt takes the mutex first (strong fairness), and with it
   the round asks for every pending command. *)
Fairness ==
    /\ WF_vars(KernelStep) /\ WF_vars(Start) /\ WF_vars(SupervisorStart)
    /\ WF_vars(Finish)
    /\ SF_vars(Settle)
    /\ \A c \in Ids : SF_vars(c \in Commands /\ (Accept(c) \/ Reject(c)))

FairSpec == Spec /\ Fairness
-----------------------------------------------------------------------------
(* Properties. *)

(* Every variable has its type, each execution has at most one record, and the
   control state is one that its own reader accepts. *)
TypeOK ==
    /\ grants \in Seq(Versions) /\ Len(grants) <= MaxGrants
    /\ control \in ControlStates /\ Commands \subseteq Ids
    /\ control.generation <= Len(grants) /\ control.route = Current(control.generation)
    /\ Valid(control)
    /\ records \in Registries /\ ledger \in Registries /\ known \in Registries
    /\ \A q, r \in records : q.version = r.version \/ q.cmd = r.cmd => q = r
    /\ mode \in {"up", "down", "fenced"} /\ task \in {None, "startup", "activation"}
    /\ saving \in Savings \cup {None} /\ (mode # "up" => task = None /\ saving = None)
    /\ clock \in Time /\ faults \in 0..MaxFaults
    /\ substate \in [Versions -> {"running", "retiring", "stopped"}]
    /\ process \in [Versions -> {"running", "ended"}]
    /\ journal \in [Ids -> {"none", "received", "applied", "rejected"}]
    /\ Executing \subseteq Commands
    /\ receipts \subseteq Receipts

(* The route never points at an execution that is being drained, however many
   activations, catch-ups after a crash and repeated plans there were. *)
RouteIsNotDrained ==
    \A c \in Commands : control.outbox[c].version # control.route

(* Retired means proved: a version that the Kernel shows as retired has a receipt
   that the supervisor wrote for a drain of it and has in its journal as applied,
   and the record holds such a receipt too, of its own drain; one that says the
   process was killed says so of a process that is gone, after its deadline. *)
Proof(p, v) ==
    /\ p \in receipts /\ p.version = v /\ journal[p.cmd] = "applied"
    /\ p.cmd \in Commands /\ Version(p.cmd) = v
    /\ p.forcedAt # None => process[v] = "ended"
RetiredHasProof ==
    /\ \A v \in Versions : control.lifecycle[v] = "retired" => \E p \in receipts : Proof(p, v)
    /\ \A r \in records : r.receipt # None =>
         /\ Proof(r.receipt, r.version) /\ r.receipt.cmd = r.cmd
         /\ r.receipt.forcedAt # None => r.receipt.forcedAt >= r.deadline

(* Routes, drains, receipts and retirements as the owner sees them: each version
   has the route at most once, and what the Kernel drains, a receipt answers and
   the Kernel shows as retired, in this order, is what the route has left for
   good. *)
DrainedIn(c) == {c.outbox[i].version : i \in DOMAIN c.outbox}
Answered     == {p.version : p \in receipts}
RetiredIn(c) == {v \in Versions : c.lifecycle[v] = "retired"}
Had(g)       == {grants[i] : i \in 1..g}
Owner == INSTANCE Succession WITH
    route    <- control.route,
    had      <- Had(control.generation),
    drained  <- DrainedIn(control),
    answered <- Answered,
    retired  <- RetiredIn(control)
ImplementsSuccession == Owner!Spec

(* A route that was flipped while its record was lost is made good by the next
   start-up: in the end the replaced execution has its record, unless its
   deadline is over by then. *)
Untracked == MustRetire(control.generation)
TrackedAfterRestart ==
    (mode = "down" /\ Untracked) ~> (~Untracked \/ Late(control.generation))

(* Every drain is answered in the end, if the supervisor can read the ledger and
   the Kernel can start. *)
DrainsSettle == []<>(Pending = {} \/ ~Readable \/ mode = "fenced")

=============================================================================
