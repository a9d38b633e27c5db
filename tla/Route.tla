------------------------------- MODULE Route -------------------------------
(***************************************************************************)
(* Activation: how a version gets the public route of its application.     *)
(*                                                                         *)
(* The owner sends an activation command over /v1/wasm/activation-rpc      *)
(* (wasm_activation.rs).  The Kernel judges it against the fences, the     *)
(* readiness lease and the route generation, writes the verdict to the     *)
(* activation file, and projects an activated event into the control file  *)
(* v2, which alone routes traffic (wasm_runtime.rs).  The two files are    *)
(* written one after the other: the process may stop, or a write fail,     *)
(* between them; every later call and every start-up projects again.       *)
(*                                                                         *)
(* One application.  Its versions are numbered as they are admitted; each  *)
(* is prepared and started once, so generations, secret and config         *)
(* revisions of a version never change and the comparisons of them always  *)
(* agree; all versions are bound to the node's one catalog entry.  Calls   *)
(* are serialised by the runtime's mutex.                                  *)
(***************************************************************************)
EXTENDS Naturals, Sequences

CONSTANTS Commands,     \* the activation commands that owners send
          Ids,          \* activation ids
          Nonces,       \* lease nonces
          MaxVersions,  \* bound: versions admitted
          MaxTime,      \* bound: last clock reading
          Lifespan,     \* of a readiness lease, in clock units
          MaxFaults,    \* bound: crashes and failed writes
          None          \* "no version", "no lease", "no record", "no call"

Versions == 1..MaxVersions
Time == 0..MaxTime

Command == [id : Ids, op : {"activate", "rollback"}, version : Versions,
            nonce : Nonces, expected : Nat]

ASSUME CommandsAssumption == Commands \subseteq Command
ASSUME BoundsAssumption ==
    MaxVersions \in Nat /\ MaxTime \in Nat /\ Lifespan \in Nat \ {0} /\ MaxFaults \in Nat

(* A lease, an event and a command count only when they pass their validate
   function, digests included; what an invalid one is answered has no effect.
   An event is activated: the verdict on a rejected one is in `records`. *)
Leases   == [version : Versions, expires : Nat]
Pointers == [version : Versions \cup {None}, generation : Nat]
Events   == [cmd : Commands, previous : Pointers, generation : Nat, at : Time]
Verdicts == [cmd : Commands, generation : Nat]

ASSUME NoneAssumption ==
    None \notin Versions \cup Leases \cup Verdicts \cup Nonces \cup Commands

VARIABLES
    visible,    \* versions 1..visible are admitted
    current,    \* fences file: the application's currentVersionId
    fence,      \* fences file: none, preparing or alive, by version
    active,     \* activation file: the pointer of the activation state
    events,     \* activation file: the events that activated a version
    records,    \* activation file: the verdict of each activation id
    consumed,   \* activation file: the lease each consumed nonce stood for
    route,      \* control file v2: the active pointer with its generation
    leaseOf,    \* control file v2: the lease a version was activated by
    leases,     \* readiness leases file, by nonce
    mode,       \* of the process: up, down, or fenced by a failed start-up
    task,       \* the call, or the start-up, that holds the runtime
    told,       \* generations an owner was told are activated
    clock,      \* wall clock
    faults      \* faults so far

(* Each file is read whole, checked, and written whole. *)
fencesFile     == <<current, fence>>
activationFile == <<active, events, records, consumed>>
controlFile    == <<visible, route, leaseOf>>
vars == <<fencesFile, activationFile, controlFile, leases, mode, task, told, clock, faults>>

Kinds == {"startup", "submit", "command", "query", "replay"}
(* "sync" and "project" are sync_lifecycle_after_activation before and after
   the verdict; `now` is the clock as the call read it when it began, `grant` the
   generation its answer will name, 0 for none. *)
Steps == {"materialize", "sync", "verdict", "project"}
Tasks == [kind : Kinds, step : Steps, cmd : Commands \cup {None},
          now : Time, grant : Nat]

Task(kind, step, cmd) ==
    [kind |-> kind, step |-> step, cmd |-> cmd, now |-> clock, grant |-> 0]
Idle == mode = "up" /\ task = None
Doing(step) == mode = "up" /\ task # None /\ task.step = step
Fault == faults < MaxFaults /\ faults' = faults + 1

Unavailable == [version |-> None, generation |-> 0]
PointerTo(e) == [version |-> e.cmd.version, generation |-> e.generation]

Init ==
    /\ visible = 0
    /\ current = None
    /\ fence = [v \in Versions |-> "none"]
    /\ active = Unavailable
    /\ events = <<>>
    /\ records = [i \in Ids |-> None]
    /\ consumed = [n \in Nonces |-> None]
    /\ route = Unavailable
    /\ leaseOf = [v \in Versions |-> None]
    /\ leases = [n \in Nonces |-> None]
    /\ mode = "up"
    /\ task = None
    /\ told = {}
    /\ clock = 0
    /\ faults = 0

-----------------------------------------------------------------------------
(* Versions are admitted, fenced and started. *)

(* A submission whose version became visible: its row is in v2. *)
Admit ==
    /\ Idle /\ visible < MaxVersions
    /\ visible' = visible + 1
    /\ task' = Task("submit", "materialize", None)
    /\ UNCHANGED <<fencesFile, activationFile, route, leaseOf, leases, mode, told,
                   clock, faults>>

Unfenced == {v \in 1..visible : fence[v] = "none"}

(* reconcile_visible_execution_state: every version without a fence record gets
   one, and the last of them, in the order of their digests, is the current. *)
Materialize ==
    /\ Doing("materialize")
    /\ \/ Unfenced = {} /\ UNCHANGED fencesFile
       \/ \E last \in Unfenced :
            /\ current' = last
            /\ fence' = [v \in Versions |-> IF v \in Unfenced THEN "preparing" ELSE fence[v]]
    /\ task' = IF task.kind = "startup" THEN Task("startup", "sync", None) ELSE None
    /\ UNCHANGED <<activationFile, controlFile, leases, mode, told, clock, faults>>

(* A delivery round opens the fence of a version whose Start was applied (see
   CommandDelivery); a Start may as well never be. *)
OpenFence(v) ==
    /\ Idle /\ fence[v] = "preparing"
    /\ fence' = [fence EXCEPT ![v] = "alive"]
    /\ UNCHANGED <<current, activationFile, controlFile, leases, mode, task, told,
                   clock, faults>>

(* A readiness probe leaves a lease for a running version (not in src/: the
   Kernel only reads the file). *)
IssueLease(n, v) ==
    /\ fence[v] # "none" /\ leases[n] = None
    /\ leases' = [leases EXCEPT ![n] = [version |-> v, expires |-> clock + Lifespan]]
    /\ UNCHANGED <<fencesFile, activationFile, controlFile, mode, task, told, clock, faults>>

Tick ==
    /\ clock < MaxTime
    /\ clock' = clock + 1
    /\ UNCHANGED <<fencesFile, activationFile, controlFile, leases, mode, task, told, faults>>

-----------------------------------------------------------------------------
(* The projection of activated events into v2: sync_lifecycle_after_activation. *)

Syncing == Doing("sync") \/ Doing("project")

IsNext(e)    == e.cmd.expected = route.generation /\ e.previous = route
IsCurrent(e) == PointerTo(e) = route

(* project_activation_event_into_v2: the fence of the version is alive, and the
   version was not activated by another lease before. *)
Projectable(e) ==
    /\ fence[e.cmd.version] = "alive"
    /\ leaseOf[e.cmd.version] \in {None, e.cmd.nonce}

HasNext    == \E i \in DOMAIN events : IsNext(events[i])
HasCurrent == \E i \in DOMAIN events : IsCurrent(events[i])

Projected(e) ==
    /\ route' = PointerTo(e)
    /\ leaseOf' = [leaseOf EXCEPT ![e.cmd.version] = e.cmd.nonce]

(* One turn of the loop: the pointer, its generation and the lease in one write. *)
ProjectNext ==
    /\ Syncing
    /\ \E i \in DOMAIN events :
         IsNext(events[i]) /\ Projectable(events[i]) /\ Projected(events[i])
    /\ UNCHANGED <<fencesFile, activationFile, visible, leases, mode, task, told,
                   clock, faults>>

(* The loop stops with an error. *)
Stuck ==
    \/ \E i \in DOMAIN events :
         /\ IF HasNext THEN IsNext(events[i]) ELSE IsCurrent(events[i])
         /\ ~Projectable(events[i])
    \/ ~HasNext /\ ~HasCurrent /\ active.generation > route.generation

Settled == ~HasNext /\ ~Stuck

(* A call ends with 503; a start-up fences the whole runtime. *)
GiveUp ==
    /\ task' = None
    /\ mode' = IF task.kind = "startup" THEN "fenced" ELSE mode

SyncFails ==
    /\ Syncing /\ Stuck
    /\ GiveUp
    /\ UNCHANGED <<fencesFile, activationFile, controlFile, leases, told, clock, faults>>

SyncedStartup ==
    /\ Doing("sync") /\ Settled /\ task.kind = "startup"
    /\ task' = None
    /\ UNCHANGED <<fencesFile, activationFile, controlFile, leases, mode, told,
                   clock, faults>>

SyncedCall ==
    /\ Doing("sync") /\ Settled /\ task.kind # "startup"
    /\ task' = [task EXCEPT !.step = "verdict"]
    /\ UNCHANGED <<fencesFile, activationFile, controlFile, leases, mode, told,
                   clock, faults>>

(* The answer 200: a grant is told to the owner. *)
Answer ==
    /\ Doing("project") /\ Settled
    /\ told' = IF task.grant = 0 THEN told ELSE told \cup {task.grant}
    /\ task' = None
    /\ UNCHANGED <<fencesFile, activationFile, controlFile, leases, mode, clock, faults>>

-----------------------------------------------------------------------------
(* The activation call. *)

Bug_VerdictWithoutSync(kind, cmd) ==
    /\ Idle
    /\ task' = Task(kind, "verdict", cmd)
    /\ UNCHANGED <<fencesFile, activationFile, controlFile, leases, mode, told,
                   clock, faults>>

(* handle_activation_rpc: what is committed is projected before anything new. *)
BeginCall(kind, cmd) ==
    /\ Idle
    /\ task' = Task(kind, "sync", cmd)
    /\ UNCHANGED <<fencesFile, activationFile, controlFile, leases, mode, told,
                   clock, faults>>

asked == task.cmd
Known == records[asked.id] # None
NamesSame == records[asked.id].cmd = asked

(* The verdict stands; it is answered after it is projected. *)
Conclude(generation) ==
    /\ task' = [task EXCEPT !.step = "project", !.grant = generation]
    /\ UNCHANGED told

(* commit_activation: a verdict is one write of the activation file, of which
   nothing uncertain is left behind, and of no other file. *)
AroundVerdict == UNCHANGED <<fencesFile, controlFile, leases, mode, clock, faults>>

(* The recorded event of a known id is the answer; an unknown id is "missing". *)
AnswerRecorded ==
    /\ Doing("verdict")
    /\ \/ Known /\ (task.kind = "query" \/ NamesSame) /\ Conclude(records[asked.id].generation)
       \/ ~Known /\ task.kind = "query" /\ Conclude(0)
    /\ UNCHANGED activationFile
    /\ AroundVerdict

(* ACTIVATION_ID_CONFLICT, and a replay of what was never sent. *)
Decline ==
    /\ Doing("verdict")
    /\ \/ Known /\ task.kind # "query" /\ ~NamesSame
       \/ ~Known /\ task.kind = "replay"
    /\ task' = None
    /\ UNCHANGED <<activationFile, told>>
    /\ AroundVerdict

Bug_JudgeEveryTime == Doing("verdict") /\ task.kind = "command"

Judging == Doing("verdict") /\ task.kind = "command" /\ ~Known

Retained == SelectSeq(events, LAMBDA e : e.cmd.op = "rollback")

(* Steps 2 and 3 of evaluate_activation_cas.  The facts are those of the current
   version, whatever version the command names: activation_facts. *)
CandidateReady ==
    /\ current # None /\ fence[current] = "alive"
    /\ asked.op = "rollback" => /\ Retained # <<>>
                              /\ Head(Retained).cmd.version = asked.version

(* correlate_readiness_lease: secret, config, binding and generations of the
   lease are those of its version. *)
LeaseMatches == leases[asked.nonce].version = asked.version

(* Steps 1 to 4: the generation, the candidate, and a lease for it. *)
Eligible ==
    /\ asked.expected = active.generation
    /\ CandidateReady
    /\ LeaseMatches

(* Step 6: the lease is over at the instant it expires, by the clock the call
   read before it projected what was pending. *)
Fresh == task.now < leases[asked.nonce].expires

Unspent == consumed[asked.nonce] = None
Spent == consumed[asked.nonce] = leases[asked.nonce]

Recorded(generation) ==
    records' = [records EXCEPT ![asked.id] = [cmd |-> asked, generation |-> generation]]

(* rejected_event: the pointer stays and the nonce is not consumed. *)
Rejected ==
    /\ Recorded(0)
    /\ Conclude(0)
    /\ UNCHANGED <<active, events, consumed>>
    /\ AroundVerdict

HasLease == leases[asked.nonce] # None

RefuseWithoutLease == Judging /\ ~HasLease /\ Rejected

Refuse ==
    /\ Judging /\ HasLease
    /\ ~(Eligible /\ (Spent \/ (Unspent /\ Fresh)))
    /\ Rejected

(* A nonce that was used answers with the event that used it; the new id is not
   recorded. *)
AlreadyConsumed ==
    /\ Judging /\ HasLease
    /\ Eligible /\ ~Unspent /\ Spent
    /\ \E i \in DOMAIN events :
         events[i].cmd.nonce = asked.nonce /\ Conclude(events[i].generation)
    /\ UNCHANGED activationFile
    /\ AroundVerdict

(* The linearization point: one write of the activation file. *)
Grant ==
    /\ Judging /\ HasLease
    /\ Eligible /\ Unspent /\ Fresh
    /\ LET event == [cmd |-> asked, previous |-> active,
                     generation |-> asked.expected + 1, at |-> task.now] IN
         /\ active' = PointerTo(event)
         /\ events' = Append(events, event)
         /\ consumed' = [consumed EXCEPT ![asked.nonce] = leases[asked.nonce]]
         /\ Recorded(event.generation)
         /\ Conclude(event.generation)
    /\ AroundVerdict

-----------------------------------------------------------------------------
(* Faults. *)

(* A file cannot be written; for v2 the error may come after the write. *)
WriteError ==
    /\ task # None /\ mode = "up" /\ Fault
    /\ GiveUp
    /\ \/ UNCHANGED controlFile
       \/ /\ Syncing
          /\ \E i \in DOMAIN events :
               IsNext(events[i]) /\ Projectable(events[i]) /\ Projected(events[i])
          /\ UNCHANGED visible
    /\ UNCHANGED <<fencesFile, activationFile, leases, told, clock>>

Crash ==
    /\ mode # "down" /\ Fault
    /\ mode' = "down" /\ task' = None
    /\ UNCHANGED <<fencesFile, activationFile, controlFile, leases, told, clock>>

Bug_StartWithoutSync ==
    /\ mode # "up"
    /\ mode' = "up"
    /\ task' = Task("submit", "materialize", None)
    /\ UNCHANGED <<fencesFile, activationFile, controlFile, leases, told, clock, faults>>

(* A stopped process is started, a fenced one restarted. *)
Start ==
    /\ mode # "up"
    /\ mode' = "up"
    /\ task' = Task("startup", "materialize", None)
    /\ UNCHANGED <<fencesFile, activationFile, controlFile, leases, told, clock, faults>>

-----------------------------------------------------------------------------
TaskStep ==
    \/ Materialize \/ ProjectNext \/ SyncFails \/ SyncedStartup \/ SyncedCall \/ Answer
    \/ AnswerRecorded \/ Decline \/ RefuseWithoutLease \/ Refuse \/ AlreadyConsumed \/ Grant

Next ==
    \/ TaskStep
    \/ Admit \/ Start \/ Tick
    \/ \E v \in Versions : OpenFence(v)
    \/ \E v \in Versions, n \in Nonces : IssueLease(n, v)
    \/ \E c \in Commands : BeginCall("command", c) \/ BeginCall("replay", c) \/ BeginCall("query", c)
    \/ WriteError \/ Crash

Spec == Init /\ [][Next]_vars

(* A call under the mutex runs to its end and a process that stopped, or that
   fenced itself, is started again.  Faults are finite: MaxFaults bounds them. *)
Fairness == WF_vars(TaskStep) /\ WF_vars(Start)

FairSpec == Spec /\ Fairness

-----------------------------------------------------------------------------
(* Properties. *)

(* Every variable has its type, an application with fences names a version that
   has one, and the process holds a call only while it is up. *)
TypeOK ==
    /\ visible \in 0..MaxVersions
    /\ fence \in [Versions -> {"none", "preparing", "alive"}]
    /\ current \in Versions \cup {None}
    /\ current = None <=> \A v \in Versions : fence[v] = "none"
    /\ current # None => fence[current] # "none"
    /\ active \in Pointers /\ route \in Pointers
    /\ events \in Seq(Events)
    /\ records \in [Ids -> Verdicts \cup {None}]
    /\ consumed \in [Nonces -> Leases \cup {None}]
    /\ leaseOf \in [Versions -> Nonces \cup {None}]
    /\ leases \in [Nonces -> Leases \cup {None}]
    /\ mode \in {"up", "down", "fenced"}
    /\ task \in Tasks \cup {None}
    /\ task # None => mode = "up" /\ (task.step = "verdict" => task.cmd # None)
    /\ told \subseteq Nat
    /\ clock \in Time
    /\ faults \in 0..MaxFaults

(* The pointer an event of the line of activations left behind. *)
PointerAfter(i) == IF i = 0 THEN Unavailable ELSE PointerTo(events[i])

(* resolve_active_ingress: a process that is down or fenced routes nothing, and
   the pointer of v2 selects an execution only with its lease and its fence. *)
Resolves == mode = "up"
Selected(v) ==
    /\ v # None
    /\ leaseOf[v] # None
    /\ current = v
    /\ fence[v] = "alive"

(* Where ingress_router sends a public request of the application; 502 if nowhere. *)
Ingress == IF Resolves /\ Selected(route.version) THEN route ELSE Unavailable

(* v2 routes what the journal of activations granted, and is at most one grant
   behind it, wherever a crash or a failed write fell; once an owner was told of
   a grant, no public request reaches an execution that was active before it. *)
OneGrantAhead ==
    /\ route.generation \in {Len(events), Len(events) - 1}
    /\ route = PointerAfter(route.generation)
    /\ Ingress # Unavailable => \A g \in told : g <= Ingress.generation

(* Activation as the owner sees it. *)
Authority == INSTANCE RouteAuthority WITH
    grants    <- [i \in DOMAIN events |->
                    [version |-> events[i].cmd.version, nonce |-> events[i].cmd.nonce]],
    verdicts  <- [i \in Ids |-> IF records[i] = None THEN None
                                ELSE [grant |-> records[i].generation]],
    published <- route.generation
ImplementsAuthority == Authority!Spec

(* What was granted and can be projected is published once the process has
   been started again. *)
Publishable(g) ==
    /\ g <= Len(events)
    /\ \A i \in 1..g : fence[events[i].cmd.version] = "alive"
    /\ \A i, j \in 1..g : events[i].cmd.version = events[j].cmd.version => i = j
PublishedAfterRestart ==
    \A g \in 1..MaxVersions :
        (mode # "up" /\ Publishable(g)) ~> (route.generation >= g)

=============================================================================
