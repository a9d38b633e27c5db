----------------------------- MODULE RouteProofs -----------------------------
(***************************************************************************)
(* Proofs about activation, for any commands, versions, leases and         *)
(* faults: the route follows one line of grants and is at most one behind  *)
(* it, and what owners see of it is a behaviour of RouteAuthority.  The    *)
(* argument rests on the verdict being reached only when the projection    *)
(* before it was settled (TaskInv): a second grant never waits behind a    *)
(* first.                                                                  *)
(*                                                                         *)
(* From the mark "The registry of user routes" on, about the handlers      *)
(* that edit that registry, for any hosts, applications and handlers.      *)
(* Handlers overwrite each other, so what is inductive is that every       *)
(* whole registry in an inode or in the hands of a handler is lawful       *)
(* (LawfulInv), and, for a handler that met no other, that file and        *)
(* temporary file are its own (AloneInv).                                  *)
(***************************************************************************)
EXTENDS Route, UserRoutes, FiniteSetTheorems, TLAPS

(* The events are one line: each says of which pointer it is the successor. *)
LineInv ==
    /\ \A i \in DOMAIN events :
         /\ events[i].generation = i /\ events[i].cmd.expected = i - 1
         /\ events[i].previous = PointerAfter(i - 1)
         /\ consumed[events[i].cmd.nonce] # None
    /\ active = PointerAfter(Len(events))

(* v2 follows the line, and has reached what owners were told. *)
RouteInv ==
    /\ route.generation \in {Len(events), Len(events) - 1}
    /\ route = PointerAfter(route.generation)
    /\ \A g \in told : g <= route.generation

(* What the holder of the runtime knows. *)
TaskInv ==
    task # None =>
        /\ task.now \in Time /\ task.grant <= Len(events)
        /\ task.step # "materialize" => task.kind = "startup" \/ task.cmd \in Commands
        /\ task.step = "verdict" => task.cmd \in Commands /\ route.generation = Len(events)

(* A verdict names a grant of the line, or none. *)
RecordsInv == \A i \in Ids : records[i] # None => records[i].generation <= Len(events)

IInv == TypeOK /\ LineInv /\ RouteInv /\ TaskInv /\ RecordsInv

-----------------------------------------------------------------------------
(* The line.                                                               *)

LEMMA EventTyped ==
    ASSUME TypeOK, NEW i \in DOMAIN events
    PROVE  /\ i \in 1..Len(events) /\ Len(events) \in Nat /\ events[i] \in Events
           /\ events[i].cmd \in Commands /\ events[i].cmd \in Command
           /\ events[i].generation \in Nat /\ PointerTo(events[i]) \in Pointers
<1>1. events \in Seq(Events)
  BY DEF TypeOK
<1>2. i \in 1..Len(events) /\ Len(events) \in Nat /\ events[i] \in Events
  BY <1>1
<1>3. events[i].cmd \in Commands /\ events[i].generation \in Nat
  BY <1>2 DEF Events
<1>4. events[i].cmd \in Command
  BY <1>3, CommandsAssumption
<1>5. PointerTo(events[i]) \in Pointers
  BY <1>3, <1>4 DEF PointerTo, Pointers, Command
<1> QED
  BY <1>2, <1>3, <1>4, <1>5

LEMMA LineFacts ==
    ASSUME IInv
    PROVE  /\ Len(events) \in Nat /\ DOMAIN events = 1..Len(events)
           /\ \A i \in 0..Len(events) : PointerAfter(i).generation = i
           /\ route.generation \in Nat /\ route.generation \in 0..Len(events)
           /\ active.generation = Len(events)
<1>1. events \in Seq(Events) /\ route \in Pointers
  BY DEF IInv, TypeOK
<1>2. Len(events) \in Nat /\ DOMAIN events = 1..Len(events)
  BY <1>1
<1>3. ASSUME NEW i \in 0..Len(events) PROVE PointerAfter(i).generation = i
  <2>1. CASE i = 0
    BY <2>1 DEF PointerAfter, Unavailable
  <2>2. CASE i # 0
    <3>1. i \in DOMAIN events
      BY <1>2, <2>2
    <3>2. events[i].generation = i
      BY <3>1 DEF IInv, LineInv
    <3> QED
      BY <2>2, <3>2 DEF PointerAfter, PointerTo
  <2> QED
    BY <2>1, <2>2
<1>4. route.generation \in Nat
  BY <1>1 DEF Pointers
<1>5. route.generation \in 0..Len(events)
  BY <1>2, <1>4 DEF IInv, RouteInv
<1>6. active.generation = Len(events)
  BY <1>2, <1>3 DEF IInv, LineInv
<1> QED
  BY <1>2, <1>3, <1>4, <1>5, <1>6

(* The event that comes next is the last of the line. *)
LEMMA NextIsLast ==
    ASSUME IInv, NEW i \in DOMAIN events, IsNext(events[i])
    PROVE  i = route.generation + 1 /\ i = Len(events)
<1>1. events[i].cmd.expected = i - 1 /\ events[i].cmd.expected = route.generation
  BY DEF IsNext, IInv, LineInv
<1>2. i \in 1..Len(events) /\ Len(events) \in Nat
  BY EventTyped DEF IInv
<1> QED
  BY <1>1, <1>2, LineFacts DEF IInv, RouteInv

(* Where none comes next, v2 has reached the end of the line. *)
LEMMA SettledIsPublished == ASSUME IInv, ~HasNext PROVE route.generation = Len(events)
<1> SUFFICES ASSUME route.generation = Len(events) - 1 PROVE FALSE
  BY DEF IInv, RouteInv
<1>1. Len(events) \in DOMAIN events
  BY LineFacts
<1>2. PICK i \in DOMAIN events : i = Len(events)
  BY <1>1
<1>3. events[i].cmd.expected = i - 1 /\ events[i].previous = PointerAfter(i - 1)
  BY DEF IInv, LineInv
<1>4. route = PointerAfter(i - 1)
  BY <1>2 DEF IInv, RouteInv
<1> QED
  BY <1>2, <1>3, <1>4 DEF HasNext, IsNext

(* The projection of an event. *)
LEMMA ProjectedKeeps ==
    ASSUME IInv, NEW i \in DOMAIN events, IsNext(events[i]), Projected(events[i]),
           UNCHANGED <<active, events, consumed, told>>
    PROVE  /\ route'.generation = route.generation + 1 /\ route'.generation = Len(events)
           /\ route' \in Pointers /\ leaseOf' \in [Versions -> Nonces \cup {None}]
           /\ LineInv' /\ RouteInv'
<1>1. i = route.generation + 1 /\ i = Len(events)
  BY NextIsLast
<1>2. route' = PointerTo(events[i]) /\ events[i].generation = i
  BY DEF Projected, IInv, LineInv
<1>3. route'.generation = i /\ route' \in Pointers
  BY <1>2, EventTyped DEF PointerTo, IInv
<1>4. leaseOf' \in [Versions -> Nonces \cup {None}]
  BY EventTyped DEF Projected, IInv, TypeOK, Command
<1>5. LineInv'
  BY DEF IInv, LineInv, PointerAfter
<1>6. RouteInv'
  <2>1. i # 0
    BY EventTyped DEF IInv
  <2>2. route' = PointerAfter(i)'
    BY <1>2, <2>1 DEF PointerAfter
  <2>3. \A g \in told : g \in Nat /\ g <= route.generation
    BY DEF IInv, TypeOK, RouteInv
  <2>4. \A g \in told : g <= i
    BY <1>1, <2>3, LineFacts
  <2> QED
    BY <1>1, <1>3, <2>2, <2>4 DEF RouteInv, PointerAfter
<1> QED
  BY <1>1, <1>3, <1>4, <1>5, <1>6

-----------------------------------------------------------------------------
(* What a step keeps that it does not touch.                               *)

LEMMA LineKept == ASSUME IInv, UNCHANGED <<active, events, consumed>> PROVE LineInv'
BY DEF IInv, LineInv, PointerAfter

LEMMA RouteKept == ASSUME IInv, UNCHANGED <<events, route, told>> PROVE RouteInv'
BY DEF IInv, RouteInv, PointerAfter

LEMMA RecordsKept == ASSUME IInv, UNCHANGED <<events, records>> PROVE RecordsInv'
BY DEF IInv, RecordsInv

LEMMA TaskTyped ==
    ASSUME TypeOK, NEW kind \in Kinds, NEW step \in Steps, NEW cmd \in Commands \cup {None}
    PROVE  /\ Task(kind, step, cmd) \in Tasks
           /\ Task(kind, step, cmd).kind = kind /\ Task(kind, step, cmd).step = step
           /\ Task(kind, step, cmd).cmd = cmd /\ Task(kind, step, cmd).now = clock
           /\ Task(kind, step, cmd).grant = 0 /\ clock \in Time /\ clock \in Nat
<1>1. clock \in Time /\ clock \in Nat
  BY BoundsAssumption DEF TypeOK, Time
<1> QED
  BY <1>1 DEF Task, Tasks

LEMMA HeldTask ==
    ASSUME TypeOK, task # None
    PROVE  /\ task \in Tasks /\ mode = "up" /\ task.kind \in Kinds /\ task.step \in Steps
           /\ \A step \in Steps :
                /\ [task EXCEPT !.step = step] \in Tasks
                /\ [task EXCEPT !.step = step].step = step
                /\ [task EXCEPT !.step = step].kind = task.kind
                /\ [task EXCEPT !.step = step].cmd = task.cmd
                /\ [task EXCEPT !.step = step].now = task.now
                /\ [task EXCEPT !.step = step].grant = task.grant
           /\ \A grant \in Nat :
                /\ [task EXCEPT !.step = "project", !.grant = grant] \in Tasks
                /\ [task EXCEPT !.step = "project", !.grant = grant].step = "project"
                /\ [task EXCEPT !.step = "project", !.grant = grant].kind = task.kind
                /\ [task EXCEPT !.step = "project", !.grant = grant].cmd = task.cmd
                /\ [task EXCEPT !.step = "project", !.grant = grant].now = task.now
                /\ [task EXCEPT !.step = "project", !.grant = grant].grant = grant
BY DEF TypeOK, Tasks, Steps

(* A step that leaves all files alone but the fences, and ends the call or *)
(* gives it a new start.                                                   *)
LEMMA NewTask ==
    ASSUME IInv, TypeOK', UNCHANGED <<activationFile, route, told>>,
           NEW kind \in Kinds, NEW step \in {"materialize", "sync"},
           NEW cmd \in Commands \cup {None},
           task' = None \/ task' = Task(kind, step, cmd),
           step = "materialize" \/ kind = "startup" \/ cmd \in Commands
    PROVE  IInv'
<1>1. LineInv' /\ RouteInv' /\ RecordsInv' /\ events' = events
  BY LineKept, RouteKept, RecordsKept DEF activationFile
<1>2. TaskInv'
  <2>1. CASE task' = None
    BY <2>1 DEF TaskInv
  <2>2. CASE task' = Task(kind, step, cmd)
    BY <1>1, <2>2, TaskTyped, LineFacts DEF TaskInv, IInv, Steps
  <2> QED
    BY <2>1, <2>2
<1> QED
  BY <1>1, <1>2 DEF IInv

(* A step that leaves the task alone, and all files but the fences.        *)
LEMMA SameTask ==
    ASSUME IInv, TypeOK', UNCHANGED <<activationFile, route, told, task>>
    PROVE  IInv'
<1>1. LineInv' /\ RouteInv' /\ RecordsInv' /\ UNCHANGED <<events, route, task>>
  BY LineKept, RouteKept, RecordsKept DEF activationFile
<1>2. TaskInv'
  BY <1>1 DEF IInv, TaskInv
<1> QED
  BY <1>1, <1>2 DEF IInv

-----------------------------------------------------------------------------
(* Versions, leases and the clock.                                         *)

LEMMA AdmitKeeps == ASSUME IInv, Admit PROVE IInv'
<1>1. Task("submit", "materialize", None) \in Tasks /\ "submit" \in Kinds
  BY TaskTyped DEF IInv, Kinds, Steps
<1>2. TypeOK'
  BY <1>1, BoundsAssumption DEF Admit, Idle, IInv, TypeOK, Task, fencesFile, activationFile
<1> QED
  BY <1>1, <1>2, NewTask DEF Admit

LEMMA MaterializeKeeps == ASSUME IInv, Materialize PROVE IInv'
<1>1. /\ Task("startup", "sync", None) \in Tasks /\ "startup" \in Kinds
      /\ Task("startup", "sync", None).step = "sync" /\ mode = "up"
  BY TaskTyped DEF IInv, Kinds, Steps, Materialize, Doing
<1>2. task' \in {None, Task("startup", "sync", None)}
  BY DEF Materialize
<1>3. UNCHANGED <<activationFile, visible, route, leaseOf, leases, mode, told, clock, faults>>
  BY DEF Materialize, controlFile
<1>4. /\ fence' \in [Versions -> {"none", "preparing", "alive"}]
      /\ current' \in Versions \cup {None}
      /\ current' = None <=> \A v \in Versions : fence'[v] = "none"
      /\ current' # None => fence'[current'] # "none"
  <2>1. CASE UNCHANGED fencesFile
    BY <2>1 DEF fencesFile, IInv, TypeOK
  <2>2. CASE \E last \in Unfenced :
               /\ current' = last
               /\ fence' = [v \in Versions |-> IF v \in Unfenced THEN "preparing" ELSE fence[v]]
    <3>1. PICK last \in Unfenced :
               /\ current' = last
               /\ fence' = [v \in Versions |-> IF v \in Unfenced THEN "preparing" ELSE fence[v]]
      BY <2>2
    <3>2. last \in Versions /\ last # None
      BY NoneAssumption, BoundsAssumption DEF Unfenced, IInv, TypeOK, Versions
    <3>3. fence'[last] = "preparing"
      BY <3>1, <3>2
    <3> QED
      BY <3>1, <3>2, <3>3 DEF IInv, TypeOK
  <2> QED
    BY <2>1, <2>2 DEF Materialize
<1>5. task' \in Tasks \cup {None} /\ (task' # None => task'.step # "verdict")
  BY <1>1, <1>2
<1>6. TypeOK'
  BY <1>1, <1>3, <1>4, <1>5 DEF IInv, TypeOK, activationFile
<1> QED
  BY <1>1, <1>2, <1>3, <1>6, NewTask

LEMMA OpenFenceKeeps == ASSUME IInv, NEW v \in Versions, OpenFence(v) PROVE IInv'
<1>1. /\ fence' = [fence EXCEPT ![v] = "alive"] /\ fence[v] = "preparing"
      /\ UNCHANGED <<current, activationFile, controlFile, leases, mode, task, told,
                     clock, faults>>
  BY DEF OpenFence
<1>2. /\ fence' \in [Versions -> {"none", "preparing", "alive"}]
      /\ \A w \in Versions : fence'[w] = "none" <=> fence[w] = "none"
  BY <1>1 DEF IInv, TypeOK
<1>3. TypeOK'
  BY <1>1, <1>2 DEF IInv, TypeOK, activationFile, controlFile
<1> QED
  BY <1>1, <1>3, SameTask DEF controlFile

LEMMA IssueLeaseKeeps ==
    ASSUME IInv, NEW v \in Versions, NEW n \in Nonces, IssueLease(n, v)
    PROVE  IInv'
<1>1. [version |-> v, expires |-> clock + Lifespan] \in Leases
  BY BoundsAssumption DEF Leases, IInv, TypeOK, Time
<1>2. TypeOK'
  BY <1>1 DEF IssueLease, IInv, TypeOK, fencesFile, activationFile, controlFile
<1> QED
  BY <1>2, SameTask DEF IssueLease, controlFile

LEMMA TickKeeps == ASSUME IInv, Tick PROVE IInv'
<1>1. clock' \in Time
  BY BoundsAssumption DEF Tick, IInv, TypeOK, Time
<1>2. TypeOK'
  BY <1>1 DEF Tick, IInv, TypeOK, fencesFile, activationFile, controlFile
<1> QED
  BY <1>2, SameTask DEF Tick, controlFile

-----------------------------------------------------------------------------
(* The projection.                                                         *)

LEMMA ProjectNextKeeps == ASSUME IInv, ProjectNext PROVE IInv'
<1>1. PICK i \in DOMAIN events : IsNext(events[i]) /\ Projected(events[i])
  BY DEF ProjectNext
<1>2. /\ UNCHANGED <<fencesFile, activationFile, visible, leases, mode, task, told,
                     clock, faults>>
      /\ task # None /\ task.step \in {"sync", "project"}
  BY DEF ProjectNext, Syncing, Doing
<1>3. /\ route' \in Pointers /\ leaseOf' \in [Versions -> Nonces \cup {None}]
      /\ LineInv' /\ RouteInv'
  BY <1>1, <1>2, ProjectedKeeps DEF activationFile
<1>4. TypeOK'
  BY <1>2, <1>3 DEF IInv, TypeOK, fencesFile, activationFile
<1>5. RecordsInv'
  BY <1>2, RecordsKept DEF activationFile
<1>6. TaskInv'
  BY <1>2 DEF IInv, TaskInv, activationFile
<1> QED
  BY <1>3, <1>4, <1>5, <1>6 DEF IInv

(* The end of a call that told nothing.                                    *)
LEMMA EndKeeps ==
    ASSUME IInv, task' = None, mode' \in {"up", "down", "fenced"}, faults' \in 0..MaxFaults,
           UNCHANGED <<fencesFile, activationFile, controlFile, leases, told, clock>>
    PROVE  IInv'
<1>1. TypeOK'
  BY DEF IInv, TypeOK, fencesFile, activationFile, controlFile
<1>2. LineInv' /\ RouteInv' /\ RecordsInv'
  BY LineKept, RouteKept, RecordsKept DEF activationFile, controlFile
<1> QED
  BY <1>1, <1>2 DEF IInv, TaskInv

LEMMA SyncFailsKeeps == ASSUME IInv, SyncFails PROVE IInv'
<1>1. mode' \in {"up", "down", "fenced"} /\ faults' \in 0..MaxFaults
  BY DEF SyncFails, GiveUp, IInv, TypeOK
<1> QED
  BY <1>1, EndKeeps DEF SyncFails, GiveUp

LEMMA SyncedStartupKeeps == ASSUME IInv, SyncedStartup PROVE IInv'
<1>1. mode' \in {"up", "down", "fenced"} /\ faults' \in 0..MaxFaults
  BY DEF SyncedStartup, IInv, TypeOK
<1> QED
  BY <1>1, EndKeeps DEF SyncedStartup

LEMMA SyncedCallKeeps == ASSUME IInv, SyncedCall PROVE IInv'
<1>1. /\ task # None /\ mode = "up" /\ task.step = "sync" /\ task.kind # "startup"
      /\ ~HasNext /\ task' = [task EXCEPT !.step = "verdict"]
      /\ UNCHANGED <<fencesFile, activationFile, controlFile, leases, mode, told,
                     clock, faults>>
  BY DEF SyncedCall, Doing, Settled
<1>2. task.cmd \in Commands /\ route.generation = Len(events)
  BY <1>1, SettledIsPublished DEF IInv, TaskInv
<1>3. /\ task' \in Tasks /\ task'.step = "verdict" /\ task'.kind = task.kind
      /\ task'.cmd = task.cmd /\ task'.now = task.now /\ task'.grant = task.grant
  BY <1>1, HeldTask DEF IInv, Steps
<1>4. task.cmd # None
  BY <1>2, NoneAssumption
<1>5. TypeOK'
  BY <1>1, <1>3, <1>4 DEF IInv, TypeOK, fencesFile, activationFile, controlFile
<1>6. LineInv' /\ RouteInv' /\ RecordsInv'
  BY <1>1, LineKept, RouteKept, RecordsKept DEF activationFile, controlFile
<1>7. TaskInv'
  BY <1>1, <1>2, <1>3 DEF IInv, TaskInv, activationFile, controlFile
<1> QED
  BY <1>5, <1>6, <1>7 DEF IInv

LEMMA AnswerKeeps == ASSUME IInv, Answer PROVE IInv'
<1>1. /\ task # None /\ ~HasNext /\ task' = None
      /\ told' = IF task.grant = 0 THEN told ELSE told \cup {task.grant}
      /\ UNCHANGED <<fencesFile, activationFile, controlFile, leases, mode, clock, faults>>
  BY DEF Answer, Doing, Settled
<1>2. task.grant \in Nat /\ task.grant <= route.generation
  BY <1>1, SettledIsPublished, HeldTask DEF IInv, TaskInv, Tasks
<1>3. TypeOK'
  BY <1>1, <1>2 DEF IInv, TypeOK, fencesFile, activationFile, controlFile
<1>4. LineInv' /\ RecordsInv'
  BY <1>1, LineKept, RecordsKept DEF activationFile
<1>5. RouteInv'
  BY <1>1, <1>2 DEF IInv, RouteInv, PointerAfter, activationFile, controlFile
<1> QED
  BY <1>1, <1>3, <1>4, <1>5 DEF IInv, TaskInv

-----------------------------------------------------------------------------
(* The call.                                                               *)

LEMMA BeginCallKeeps ==
    ASSUME IInv, NEW c \in Commands, NEW kind \in {"command", "replay", "query"},
           BeginCall(kind, c)
    PROVE  IInv'
<1>1. /\ Task(kind, "sync", c) \in Tasks /\ kind \in Kinds
      /\ Task(kind, "sync", c).step = "sync" /\ task' = Task(kind, "sync", c) /\ mode = "up"
  BY TaskTyped DEF IInv, Kinds, Steps, BeginCall, Idle
<1>2. TypeOK'
  BY <1>1 DEF BeginCall, IInv, TypeOK, fencesFile, activationFile, controlFile
<1> QED
  BY <1>1, <1>2, NewTask DEF BeginCall, controlFile

LEMMA VerdictFacts ==
    ASSUME IInv, Doing("verdict")
    PROVE  /\ TypeOK /\ task # None /\ mode = "up" /\ asked \in Commands /\ asked \in Command
           /\ asked.id \in Ids /\ asked.nonce \in Nonces /\ asked.version \in Versions
           /\ asked.expected \in Nat /\ task.now \in Time
           /\ route.generation = Len(events)
<1>1. /\ task # None /\ mode = "up" /\ asked \in Commands /\ task.now \in Time
      /\ route.generation = Len(events) /\ TypeOK
  BY DEF Doing, IInv, TaskInv, asked
<1>2. asked \in Command
  BY <1>1, CommandsAssumption
<1> QED
  BY <1>1, <1>2 DEF Command

LEMMA ConcludeFacts ==
    ASSUME IInv, Doing("verdict"), NEW grant \in Nat, Conclude(grant), grant <= Len(events'),
           mode' = mode
    PROVE  /\ TaskInv' /\ task' \in Tasks /\ told' = told
           /\ (task' # None => mode' = "up" /\ (task'.step = "verdict" => task'.cmd # None))
<1>1. task # None /\ mode = "up" /\ asked \in Commands /\ task.now \in Time
  BY VerdictFacts
<1>2. /\ task' \in Tasks /\ task'.step = "project" /\ task'.cmd = asked
      /\ task'.now = task.now /\ task'.grant = grant /\ told' = told
  BY <1>1, HeldTask DEF Conclude, IInv, asked
<1> QED
  BY <1>1, <1>2 DEF TaskInv

(* An answer that writes nothing.                                          *)
LEMMA AnswerOld ==
    ASSUME IInv, Doing("verdict"), NEW grant \in Nat, Conclude(grant), grant <= Len(events),
           UNCHANGED activationFile, AroundVerdict
    PROVE  IInv'
<1>1. /\ TaskInv' /\ task' \in Tasks /\ told' = told
      /\ (task' # None => mode' = "up" /\ (task'.step = "verdict" => task'.cmd # None))
  BY ConcludeFacts DEF activationFile, AroundVerdict
<1>2. TypeOK'
  BY <1>1 DEF IInv, TypeOK, AroundVerdict, fencesFile, activationFile, controlFile
<1>3. LineInv' /\ RouteInv' /\ RecordsInv'
  BY <1>1, LineKept, RouteKept, RecordsKept DEF AroundVerdict, activationFile, controlFile
<1> QED
  BY <1>1, <1>2, <1>3 DEF IInv

LEMMA AnswerRecordedKeeps == ASSUME IInv, AnswerRecorded PROVE IInv'
<1>1. /\ Doing("verdict") /\ UNCHANGED activationFile /\ AroundVerdict
      /\ \/ Known /\ Conclude(records[asked.id].generation)
         \/ Conclude(0)
  BY DEF AnswerRecorded
<1>2. Known => records[asked.id].generation \in Nat /\ records[asked.id].generation <= Len(events)
  BY <1>1, VerdictFacts DEF IInv, RecordsInv, TypeOK, Verdicts, Known
<1>3. 0 <= Len(events)
  BY LineFacts
<1> QED
  BY <1>1, <1>2, <1>3, AnswerOld

LEMMA DeclineKeeps == ASSUME IInv, Decline PROVE IInv'
<1>1. mode' \in {"up", "down", "fenced"} /\ faults' \in 0..MaxFaults
  BY DEF Decline, AroundVerdict, IInv, TypeOK
<1> QED
  BY <1>1, EndKeeps DEF Decline, AroundVerdict

LEMMA RecordedTyped ==
    ASSUME IInv, Doing("verdict"), NEW grant \in Nat, Recorded(grant)
    PROVE  /\ records' \in [Ids -> Verdicts \cup {None}]
           /\ records'[asked.id].generation = grant
           /\ records'[asked.id] # None
           /\ \A i \in Ids \ {asked.id} : records'[i] = records[i]
<1>1. asked.id \in Ids /\ asked \in Commands /\ TypeOK
  BY VerdictFacts
<1>2. [cmd |-> asked, generation |-> grant] \in Verdicts
  BY <1>1 DEF Verdicts
<1> QED
  BY <1>1, <1>2, NoneAssumption DEF Recorded, TypeOK

LEMMA RejectedKeeps == ASSUME IInv, Doing("verdict"), Rejected PROVE IInv'
<1>1. /\ Recorded(0) /\ Conclude(0) /\ UNCHANGED <<active, events, consumed>> /\ AroundVerdict
  BY DEF Rejected
<1>2. 0 <= Len(events) /\ events' = events
  BY <1>1, LineFacts
<1>3. /\ TaskInv' /\ task' \in Tasks /\ told' = told
      /\ (task' # None => mode' = "up" /\ (task'.step = "verdict" => task'.cmd # None))
  BY <1>1, <1>2, ConcludeFacts DEF AroundVerdict
<1>4. /\ records' \in [Ids -> Verdicts \cup {None}]
      /\ records'[asked.id].generation = 0
      /\ \A i \in Ids \ {asked.id} : records'[i] = records[i]
  BY <1>1, RecordedTyped
<1>5. TypeOK'
  BY <1>1, <1>3, <1>4 DEF IInv, TypeOK, AroundVerdict, fencesFile, controlFile
<1>6. LineInv' /\ RouteInv'
  BY <1>1, <1>3, LineKept, RouteKept DEF AroundVerdict, controlFile
<1>7. RecordsInv'
  BY <1>2, <1>4 DEF IInv, RecordsInv
<1> QED
  BY <1>3, <1>5, <1>6, <1>7 DEF IInv

LEMMA AlreadyConsumedKeeps == ASSUME IInv, AlreadyConsumed PROVE IInv'
<1>1. PICK i \in DOMAIN events : Conclude(events[i].generation)
  BY DEF AlreadyConsumed
<1>2. i \in 1..Len(events) /\ events[i].generation = i
  BY EventTyped DEF IInv, LineInv
<1>3. PICK grant \in Nat : grant = events[i].generation /\ grant <= Len(events)
  BY <1>2
<1> QED
  BY <1>1, <1>3, AnswerOld DEF AlreadyConsumed, Judging

(* The linearization point: the line grows by one, and v2 is at its end    *)
(* until then.                                                             *)
LEMMA GrantFacts ==
    ASSUME IInv, Grant
    PROVE  \E event \in Events :
             /\ event.cmd = asked /\ event.previous = active
             /\ event.generation = Len(events) + 1 /\ asked.expected = Len(events)
             /\ active' = PointerTo(event) /\ events' = Append(events, event)
             /\ consumed' = [consumed EXCEPT ![asked.nonce] = leases[asked.nonce]]
             /\ leases[asked.nonce] \in Leases /\ consumed[asked.nonce] = None
             /\ Recorded(Len(events) + 1) /\ Conclude(Len(events) + 1)
<1>1. /\ Doing("verdict") /\ HasLease /\ Eligible /\ Unspent
  BY DEF Grant, Judging
<1>2. /\ asked \in Commands /\ asked.nonce \in Nonces /\ asked.expected \in Nat
      /\ task.now \in Time /\ TypeOK
  BY <1>1, VerdictFacts
<1>3. asked.expected = Len(events)
  BY <1>1, LineFacts DEF Eligible
<1>4. PICK event : event = [cmd |-> asked, previous |-> active,
                            generation |-> asked.expected + 1, at |-> task.now]
  OBVIOUS
<1>5. event \in Events
  BY <1>2, <1>4 DEF Events, TypeOK
<1>6. leases[asked.nonce] \in Leases /\ consumed[asked.nonce] = None
  BY <1>1, <1>2 DEF HasLease, Unspent, TypeOK
<1>7. /\ event.cmd = asked /\ event.previous = active /\ event.generation = Len(events) + 1
  BY <1>3, <1>4
<1>8. /\ active' = PointerTo(event) /\ events' = Append(events, event)
      /\ consumed' = [consumed EXCEPT ![asked.nonce] = leases[asked.nonce]]
      /\ Recorded(event.generation) /\ Conclude(event.generation)
  BY <1>4 DEF Grant
<1> QED
  BY <1>3, <1>5, <1>6, <1>7, <1>8

LEMMA GrantKeeps == ASSUME IInv, Grant PROVE IInv'
<1>1. Doing("verdict") /\ AroundVerdict
  BY DEF Grant, Judging
<1>2. /\ asked \in Commands /\ asked.nonce \in Nonces /\ asked.version \in Versions
      /\ TypeOK /\ route.generation = Len(events)
  BY <1>1, VerdictFacts
<1>3. PICK event \in Events :
        /\ event.cmd = asked /\ event.previous = active
        /\ event.generation = Len(events) + 1 /\ asked.expected = Len(events)
        /\ active' = PointerTo(event) /\ events' = Append(events, event)
        /\ consumed' = [consumed EXCEPT ![asked.nonce] = leases[asked.nonce]]
        /\ leases[asked.nonce] \in Leases /\ consumed[asked.nonce] = None
        /\ Recorded(Len(events) + 1) /\ Conclude(Len(events) + 1)
  BY GrantFacts
<1>4. PICK n \in Nat : n = Len(events)
  BY LineFacts
<1>5. /\ events' \in Seq(Events) /\ Len(events') = n + 1 /\ DOMAIN events' = 1..(n + 1)
      /\ DOMAIN events = 1..n
      /\ events'[n + 1] = event /\ \A i \in 1..n : events'[i] = events[i]
  BY <1>2, <1>3, <1>4 DEF TypeOK
<1>6. /\ TaskInv' /\ task' \in Tasks /\ told' = told
      /\ (task' # None => mode' = "up" /\ (task'.step = "verdict" => task'.cmd # None))
  BY <1>1, <1>3, <1>4, <1>5, ConcludeFacts DEF AroundVerdict
<1>7. /\ records' \in [Ids -> Verdicts \cup {None}]
      /\ records'[asked.id].generation = n + 1
      /\ \A i \in Ids \ {asked.id} : records'[i] = records[i]
  BY <1>1, <1>3, <1>4, RecordedTyped
<1>8. active' \in Pointers
  BY <1>2, <1>3, <1>4 DEF PointerTo, Pointers
<1>9. consumed' \in [Nonces -> Leases \cup {None}]
      /\ consumed'[asked.nonce] # None
      /\ \A m \in Nonces : consumed[m] # None => consumed'[m] # None
  BY <1>2, <1>3, NoneAssumption DEF TypeOK
<1>10. TypeOK'
  BY <1>1, <1>2, <1>5, <1>6, <1>7, <1>8, <1>9
     DEF TypeOK, AroundVerdict, fencesFile, controlFile
<1>11. \A i \in 0..n : PointerAfter(i)' = PointerAfter(i)
  BY <1>5 DEF PointerAfter
<1>12. active' = PointerAfter(n + 1)'
  BY <1>3, <1>5 DEF PointerAfter
<1>13. LineInv'
  <2>1. ASSUME NEW i \in 1..(n + 1)
        PROVE  /\ events'[i].generation = i /\ events'[i].cmd.expected = i - 1
               /\ events'[i].previous = PointerAfter(i - 1)'
               /\ consumed'[events'[i].cmd.nonce] # None
    <3>1. CASE i \in 1..n
      <4>1. /\ events[i].generation = i /\ events[i].cmd.expected = i - 1
            /\ events[i].previous = PointerAfter(i - 1)
            /\ consumed[events[i].cmd.nonce] # None
        BY <1>5, <3>1 DEF IInv, LineInv
      <4>2. events[i].cmd.nonce \in Nonces
        BY <1>2, <1>5, <3>1, EventTyped DEF Command
      <4> QED
        BY <1>5, <1>9, <1>11, <3>1, <4>1, <4>2
    <3>2. CASE i = n + 1
      <4>1. active = PointerAfter(n)
        BY <1>4 DEF IInv, LineInv
      <4> QED
        BY <1>3, <1>4, <1>5, <1>9, <1>11, <3>2, <4>1
    <3> QED
      BY <3>1, <3>2
  <2> QED
    BY <1>5, <1>12, <2>1 DEF LineInv
<1>14. RouteInv'
  <2>1. route' = route
    BY <1>1 DEF AroundVerdict, controlFile
  <2>2. route = PointerAfter(n) /\ \A g \in told : g <= route.generation
    BY <1>2, <1>4 DEF IInv, RouteInv
  <2>3. route' = PointerAfter(n)' /\ route'.generation = n
    BY <1>2, <1>4, <1>11, <2>1, <2>2
  <2>4. route'.generation \in {Len(events'), Len(events') - 1}
    BY <1>4, <1>5, <2>3
  <2> QED
    BY <1>2, <1>6, <2>1, <2>2, <2>3, <2>4 DEF RouteInv, PointerAfter
<1>15. RecordsInv'
  <2>1. \A i \in Ids : records[i] # None => records[i] \in Verdicts
    BY <1>2 DEF TypeOK
  <2>2. \A i \in Ids : records[i] # None =>
          records[i].generation \in Nat /\ records[i].generation <= n
    BY <1>4, <2>1 DEF IInv, RecordsInv, Verdicts
  <2> QED
    BY <1>4, <1>5, <1>7, <2>2 DEF RecordsInv
<1> QED
  BY <1>6, <1>10, <1>13, <1>14, <1>15 DEF IInv

-----------------------------------------------------------------------------
(* Faults.                                                                 *)

LEMMA WriteErrorKeeps == ASSUME IInv, WriteError PROVE IInv'
<1>1. /\ task' = None /\ mode' \in {"up", "down", "fenced"} /\ faults' \in 0..MaxFaults
      /\ UNCHANGED <<fencesFile, activationFile, leases, told, clock>>
  BY BoundsAssumption DEF WriteError, GiveUp, Fault, IInv, TypeOK
<1>2. CASE UNCHANGED controlFile
  BY <1>1, <1>2, EndKeeps
<1>3. CASE /\ \E i \in DOMAIN events :
                IsNext(events[i]) /\ Projectable(events[i]) /\ Projected(events[i])
           /\ UNCHANGED visible
  <2>1. PICK i \in DOMAIN events : IsNext(events[i]) /\ Projected(events[i])
    BY <1>3
  <2>2. /\ route' \in Pointers /\ leaseOf' \in [Versions -> Nonces \cup {None}]
        /\ LineInv' /\ RouteInv'
    BY <1>1, <2>1, ProjectedKeeps DEF activationFile
  <2>3. TypeOK'
    BY <1>1, <1>3, <2>2 DEF IInv, TypeOK, fencesFile, activationFile
  <2>4. RecordsInv'
    BY <1>1, RecordsKept DEF activationFile
  <2> QED
    BY <1>1, <2>2, <2>3, <2>4 DEF IInv, TaskInv
<1> QED
  BY <1>2, <1>3 DEF WriteError

LEMMA CrashKeeps == ASSUME IInv, Crash PROVE IInv'
<1>1. faults' \in 0..MaxFaults
  BY BoundsAssumption DEF Crash, Fault, IInv, TypeOK
<1> QED
  BY <1>1, EndKeeps DEF Crash

LEMMA StartKeeps == ASSUME IInv, Start PROVE IInv'
<1>1. /\ Task("startup", "materialize", None) \in Tasks /\ "startup" \in Kinds
      /\ Task("startup", "materialize", None).step = "materialize"
  BY TaskTyped DEF IInv, Kinds, Steps
<1>2. TypeOK'
  BY <1>1 DEF Start, IInv, TypeOK, fencesFile, activationFile, controlFile
<1> QED
  BY <1>1, <1>2, NewTask DEF Start, controlFile

-----------------------------------------------------------------------------
LEMMA InitHolds == ASSUME Init PROVE IInv
<1>1. DOMAIN events = {} /\ Len(events) = 0 /\ events \in Seq(Events)
  BY DEF Init
<1>2. Unavailable \in Pointers /\ Unavailable.generation = 0
  BY DEF Unavailable, Pointers
<1>3. TypeOK
  BY <1>1, <1>2, BoundsAssumption DEF Init, TypeOK, Time
<1>4. LineInv /\ RouteInv
  BY <1>1, <1>2 DEF Init, LineInv, RouteInv, PointerAfter
<1> QED
  BY <1>3, <1>4 DEF Init, IInv, TaskInv, RecordsInv

LEMMA StutterKeeps == ASSUME IInv, UNCHANGED vars PROVE IInv'
<1>1. TypeOK'
  BY DEF IInv, TypeOK, vars, fencesFile, activationFile, controlFile
<1> QED
  BY <1>1, SameTask DEF vars, controlFile

LEMMA NextKeeps == ASSUME IInv, [Next]_vars PROVE IInv'
<1>1. CASE TaskStep
  BY <1>1, MaterializeKeeps, ProjectNextKeeps, SyncFailsKeeps, SyncedStartupKeeps,
     SyncedCallKeeps, AnswerKeeps, AnswerRecordedKeeps, DeclineKeeps, RejectedKeeps,
     AlreadyConsumedKeeps, GrantKeeps
     DEF TaskStep, RefuseWithoutLease, Refuse, Judging
<1>2. CASE Admit \/ Start \/ Tick \/ WriteError \/ Crash
  BY <1>2, AdmitKeeps, StartKeeps, TickKeeps, WriteErrorKeeps, CrashKeeps
<1>3. CASE \/ \E v \in Versions : OpenFence(v)
           \/ \E v \in Versions, n \in Nonces : IssueLease(n, v)
  BY <1>3, OpenFenceKeeps, IssueLeaseKeeps
<1>4. CASE \E c \in Commands :
             BeginCall("command", c) \/ BeginCall("replay", c) \/ BeginCall("query", c)
  BY <1>4, BeginCallKeeps
<1>5. CASE UNCHANGED vars
  BY <1>5, StutterKeeps
<1> QED
  BY <1>1, <1>2, <1>3, <1>4, <1>5 DEF Next

LEMMA Invariance == Spec => []IInv
<1>1. Init => IInv
  BY InitHolds
<1>2. IInv /\ [Next]_vars => IInv'
  BY NextKeeps
<1> QED
  BY <1>1, <1>2, PTL DEF Spec

(* Types, and the call that handle_activation_rpc serves exists only in a  *)
(* process that is up, with a command once it comes to its verdict.        *)
THEOREM RouteTyped == Spec => []TypeOK
<1>1. IInv => TypeOK
  BY DEF IInv
<1> QED
  BY <1>1, Invariance, PTL

(* v2 routes what the activation file granted and is at most one grant     *)
(* behind it, and once an owner was told of a grant no request reaches an  *)
(* execution that was active before: sync_lifecycle_after_activation.      *)
THEOREM OneGrantAheadHolds == Spec => []OneGrantAhead
<1>1. ASSUME IInv PROVE OneGrantAhead
  BY <1>1 DEF IInv, RouteInv, OneGrantAhead, Ingress
<1>2. IInv => OneGrantAhead
  BY <1>1
<1> QED
  BY <1>2, Invariance, PTL

-----------------------------------------------------------------------------
(* The refinement of RouteAuthority.                                       *)

Grants == [i \in DOMAIN events |->
             [version |-> events[i].cmd.version, nonce |-> events[i].cmd.nonce]]
Seen == [i \in Ids |-> IF records[i] = None THEN None ELSE [grant |-> records[i].generation]]

AuthorityStep == [Authority!Next]_<<Grants, Seen, route.generation>>

LEMMA GrantsLength ==
    ASSUME TypeOK PROVE Len(Grants) = Len(events) /\ DOMAIN Grants = DOMAIN events
<1>1. events \in Seq(Events)
  BY DEF TypeOK
<1>2. DOMAIN events = 1..Len(events) /\ Len(events) \in Nat
  BY <1>1
<1>3. Grants \in Seq([version : {events[i].cmd.version : i \in DOMAIN events},
                      nonce : {events[i].cmd.nonce : i \in DOMAIN events}])
  BY <1>2 DEF Grants
<1> QED
  BY <1>2, <1>3 DEF Grants

(* A step that leaves the activation file and the route is a stutter.      *)
LEMMA Unseen == ASSUME UNCHANGED <<events, records, route>> PROVE AuthorityStep
<1>1. UNCHANGED <<Grants, Seen, route.generation>>
  BY DEF Grants, Seen
<1> QED
  BY <1>1 DEF AuthorityStep

LEMMA PublishStep ==
    ASSUME IInv, NEW i \in DOMAIN events, IsNext(events[i]), Projected(events[i]),
           UNCHANGED activationFile, UNCHANGED told
    PROVE  AuthorityStep
<1>1. /\ route'.generation = route.generation + 1 /\ route.generation < Len(events)
  <2>1. i = route.generation + 1 /\ i = Len(events)
    BY NextIsLast
  <2> QED
    BY <2>1, LineFacts, ProjectedKeeps DEF activationFile
<1>2. UNCHANGED <<Grants, Seen>>
  BY DEF Grants, Seen, activationFile
<1>3. Authority!Publish
  BY <1>1, <1>2, GrantsLength DEF Authority!Publish, Grants, Seen, IInv
<1> QED
  BY <1>3 DEF AuthorityStep, Authority!Next

(* What a verdict adds to those that owners saw.                           *)
LEMMA SeenGrows ==
    ASSUME IInv, Doing("verdict"), ~Known, NEW grant \in Nat, Recorded(grant)
    PROVE  Seen[asked.id] = None /\ Seen' = [Seen EXCEPT ![asked.id] = [grant |-> grant]]
<1>1. asked.id \in Ids
  BY VerdictFacts
<1>2. /\ records'[asked.id].generation = grant /\ records'[asked.id] # None
      /\ \A i \in Ids \ {asked.id} : records'[i] = records[i]
  BY RecordedTyped
<1>3. PICK id \in Ids : id = asked.id
  BY <1>1
<1>4. Seen[id] = None
  BY <1>3 DEF Seen, Known
<1>5. \A i \in Ids : Seen'[i] = IF i = id THEN [grant |-> grant] ELSE Seen[i]
  BY <1>2, <1>3 DEF Seen
<1>6. Seen' = [i \in Ids |-> Seen'[i]] /\ Seen = [i \in Ids |-> Seen[i]]
  BY DEF Seen
<1> QED
  BY <1>3, <1>4, <1>5, <1>6

LEMMA RefuseStep == ASSUME IInv, Judging, Rejected PROVE AuthorityStep
<1>1. Doing("verdict") /\ ~Known /\ Recorded(0) /\ UNCHANGED <<events, route>>
  BY DEF Judging, Rejected, AroundVerdict, controlFile
<1>2. PICK id \in Ids : id = asked.id
  BY <1>1, VerdictFacts
<1>3. Seen[id] = None /\ Seen' = [Seen EXCEPT ![id] = [grant |-> 0]]
  BY <1>1, <1>2, SeenGrows
<1>4. UNCHANGED <<Grants, route.generation>>
  BY <1>1 DEF Grants
<1>5. Authority!Refuse(id)
  BY <1>3, <1>4 DEF Authority!Refuse, Grants, Seen
<1> QED
  BY <1>5 DEF AuthorityStep, Authority!Next

LEMMA GrantStep == ASSUME IInv, Grant PROVE AuthorityStep
<1>1. Doing("verdict") /\ ~Known /\ route' = route
  BY DEF Grant, Judging, AroundVerdict, controlFile
<1>2. /\ TypeOK /\ route.generation = Len(events)
      /\ asked.nonce \in Nonces /\ asked.version \in Versions
  BY <1>1, VerdictFacts
<1>3. PICK event \in Events :
        /\ event.cmd = asked /\ events' = Append(events, event)
        /\ consumed[asked.nonce] = None /\ Recorded(Len(events) + 1)
  BY GrantFacts
<1>4. PICK id \in Ids, v \in Versions, n \in Nonces :
        id = asked.id /\ v = asked.version /\ n = asked.nonce
  BY <1>1, VerdictFacts
<1>5. Len(events) + 1 \in Nat /\ Len(events) \in Nat
  BY LineFacts
<1>6. Seen[id] = None /\ Seen' = [Seen EXCEPT ![id] = [grant |-> Len(events) + 1]]
  BY <1>1, <1>3, <1>4, <1>5, SeenGrows
<1>7. Len(Grants) = Len(events) /\ DOMAIN Grants = DOMAIN events /\ DOMAIN events = 1..Len(events)
  BY <1>2, GrantsLength, LineFacts
<1>8. \A k \in DOMAIN Grants : Grants[k].nonce # n
  <2> SUFFICES ASSUME NEW k \in DOMAIN events PROVE events[k].cmd.nonce # n
    BY <1>7 DEF Grants
  <2> QED
    BY <1>3, <1>4 DEF IInv, LineInv
<1>9. Grants' = Append(Grants, [version |-> v, nonce |-> n])
  <2>1. /\ DOMAIN events' = 1..(Len(events) + 1)
        /\ events'[Len(events) + 1] = event
        /\ \A k \in DOMAIN events : events'[k] = events[k]
    BY <1>2, <1>3, <1>7 DEF TypeOK
  <2>2. Grants' = [k \in 1..(Len(events) + 1) |->
                     IF k = Len(events) + 1 THEN [version |-> v, nonce |-> n] ELSE Grants[k]]
    <3>1. \A k \in 1..(Len(events) + 1) : k # Len(events) + 1 => k \in DOMAIN events
      BY <1>5, <1>7
    <3>2. \A k \in 1..(Len(events) + 1) :
            [version |-> events'[k].cmd.version, nonce |-> events'[k].cmd.nonce]
            = IF k = Len(events) + 1 THEN [version |-> v, nonce |-> n] ELSE Grants[k]
      BY <1>3, <1>4, <2>1, <3>1 DEF Grants
    <3> QED
      BY <2>1, <3>2 DEF Grants
  <2> QED
    BY <1>7, <2>2
<1>10. Authority!Grant(id)
  BY <1>1, <1>2, <1>4, <1>6, <1>7, <1>8, <1>9 DEF Authority!Grant, Grants, Seen
<1> QED
  BY <1>10 DEF AuthorityStep, Authority!Next

LEMMA EveryStep == ASSUME IInv, [Next]_vars PROVE AuthorityStep
<1>1. CASE ProjectNext
  BY <1>1, PublishStep DEF ProjectNext
<1>2. CASE RefuseWithoutLease \/ Refuse
  BY <1>2, RefuseStep DEF RefuseWithoutLease, Refuse
<1>3. CASE Grant
  BY <1>3, GrantStep
<1>4. CASE WriteError
  <2>1. CASE UNCHANGED controlFile
    BY <1>4, <2>1, Unseen DEF WriteError, activationFile, controlFile
  <2>2. CASE ~UNCHANGED controlFile
    BY <1>4, <2>2, PublishStep DEF WriteError
  <2> QED
    BY <2>1, <2>2
<1>5. CASE \/ Materialize \/ SyncFails \/ SyncedStartup \/ SyncedCall \/ Answer
           \/ AnswerRecorded \/ Decline \/ AlreadyConsumed
  <2>1. UNCHANGED <<activationFile, controlFile>>
    BY <1>5 DEF Materialize, SyncFails, SyncedStartup, SyncedCall, Answer,
       AnswerRecorded, Decline, AlreadyConsumed, AroundVerdict
  <2> QED
    BY <2>1, Unseen DEF activationFile, controlFile
<1>6. CASE \/ Admit \/ Start \/ Tick \/ Crash
           \/ \E v \in Versions : OpenFence(v)
           \/ \E v \in Versions, n \in Nonces : IssueLease(n, v)
           \/ \E c \in Commands :
                BeginCall("command", c) \/ BeginCall("replay", c) \/ BeginCall("query", c)
           \/ UNCHANGED vars
  <2>1. UNCHANGED <<activationFile, route>>
    BY <1>6 DEF Admit, Start, Tick, Crash, OpenFence, IssueLease, BeginCall, controlFile, vars
  <2> QED
    BY <2>1, Unseen DEF activationFile
<1> QED
  BY <1>1, <1>2, <1>3, <1>4, <1>5, <1>6 DEF Next, TaskStep

(* Activation implements its authority: one line of grants, each by a      *)
(* lease nobody used before and none while the one before it waits for its *)
(* projection; one final verdict per activation id; and a route that       *)
(* follows the line one grant at a time, through crashes and failed writes.*)
THEOREM RefinesAuthority == Spec => ImplementsAuthority
<1>1. Init => Authority!Init
  <2> SUFFICES ASSUME Init PROVE Authority!Init
    OBVIOUS
  <2>1. events = <<>> /\ DOMAIN events = {} /\ (\A i \in Ids : records[i] = None)
        /\ route.generation = 0
    BY DEF Init, Unavailable
  <2>2. Grants = <<>>
    BY <2>1 DEF Grants
  <2>3. Seen = [i \in Ids |-> None]
    BY <2>1 DEF Seen
  <2> QED
    BY <2>1, <2>2, <2>3 DEF Authority!Init, Grants, Seen
<1>2. IInv /\ [Next]_vars => [Authority!Next]_<<Grants, Seen, route.generation>>
  BY EveryStep DEF AuthorityStep
<1>3. Spec => Authority!Init /\ [][Authority!Next]_<<Grants, Seen, route.generation>>
  BY <1>1, <1>2, Invariance, PTL DEF Spec
<1> QED
  BY <1>3, PTL DEF ImplementsAuthority, Authority!Spec, Grants, Seen

-----------------------------------------------------------------------------
(* The registry of user routes.                                            *)

(* A registry that no handler has to be ashamed of: the system routes of the
   seed, and user routes to admitted applications. *)
LawfulRoutes(s, names) ==
    \A x \in Hosts : IF x \in SystemHosts THEN s[x] = Celld ELSE s[x] \in names \cup {Nothing}

(* Every complete registry on the disk is lawful, and so is every copy in the
   hands of a handler, with the change it is about to make. *)
LawfulInv ==
    /\ \A i \in Inodes : inode[i].form = "whole" => LawfulRoutes(inode[i].routes, admitted)
    /\ \A g \in Handlers : Busy(g) =>
         /\ LawfulRoutes(handler[g].store, admitted)
         /\ handler[g].op.host \notin SystemHosts
         /\ handler[g].pc # "checking" => handler[g].op.target \in admitted \cup {Nothing}

(* The only handler at work finds the file as it loaded it, and routes.tmp is
   its own from its open to its rename. *)
AloneInv ==
    \A g \in alone :
      /\ Busy(g) /\ \A k \in Handlers : Busy(k) => k = g
      /\ inode[file] = Whole(handler[g].store)
      /\ handler[g].pc = "opened" => tmp = handler[g].fd /\ inode[tmp] = Empty
      /\ handler[g].pc = "written" => tmp = handler[g].fd /\ inode[tmp] = Whole(Changed(g))

RoutesInv == RoutesTypeOK /\ LawfulInv /\ AloneInv

Bodies == {Whole(r) : r \in Registry} \cup {Empty, Mixed}

LEMMA BodyForms ==
    /\ Empty \in Bodies /\ Mixed \in Bodies
    /\ Empty.form # "whole" /\ Mixed.form # "whole" /\ Empty # Mixed
    /\ \A r : Whole(r).form = "whole" /\ Whole(r).routes = r
    /\ \A r \in Registry : Whole(r) \in Bodies
    /\ \A b \in Bodies : b.form = "whole" => b.routes \in Registry /\ b = Whole(b.routes)
BY DEF Bodies, Empty, Mixed, Whole

LEMMA HandlerForms ==
    ASSUME RoutesTypeOK, NEW h \in Handlers
    PROVE  /\ handler[h] \in Handler
           /\ Busy(h) <=> handler[h] # IdleHandler
           /\ Busy(h) <=> handler[h].pc \in HandlerSteps
           /\ Busy(h) => handler[h] \in
                [pc : HandlerSteps, op : Change, store : Registry, fd : Inodes \cup {Nothing}]
           /\ Busy(h) => /\ handler[h].op \in Change /\ handler[h].store \in Registry
                         /\ handler[h].fd \in Inodes \cup {Nothing}
<1>1. handler[h] \in Handler
  BY DEF RoutesTypeOK
<1>2. CASE handler[h] = IdleHandler
  BY <1>1, <1>2 DEF Busy, IdleHandler, HandlerSteps
<1>3. CASE handler[h] # IdleHandler
  <2>1. handler[h] \in [pc : HandlerSteps, op : Change, store : Registry, fd : Inodes \cup {Nothing}]
    BY <1>1, <1>3 DEF Handler
  <2>2. Busy(h)
    BY <2>1 DEF Busy, HandlerSteps
  <2>3. /\ handler[h].pc \in HandlerSteps /\ handler[h].op \in Change
        /\ handler[h].store \in Registry /\ handler[h].fd \in Inodes \cup {Nothing}
    BY <2>1
  <2> QED BY <1>1, <2>1, <2>2, <2>3, <1>3
<1> QED BY <1>2, <1>3

(* Changes keep the type of a registry: record and delete. *)
LEMMA ChangedTyped ==
    ASSUME RoutesTypeOK, NEW h \in Handlers, Busy(h)
    PROVE  /\ Changed(h) \in Registry
           /\ \A x \in Hosts : Changed(h)[x] =
                IF x = handler[h].op.host THEN handler[h].op.target ELSE handler[h].store[x]
<1>1. /\ handler[h].op.host \in Hosts /\ handler[h].op.target \in Applications \cup {Nothing}
      /\ handler[h].store \in [Hosts -> Applications \cup {Celld, Nothing}]
  BY HandlerForms DEF Change, Registry
<1> QED
  BY <1>1 DEF Changed, Registry

(* There are more inodes than names and handlers: an open that finds no
   routes.tmp makes one. *)
LEMMA FreeInode ==
    ASSUME RoutesTypeOK, tmp = Nothing
    PROVE  \E i \in FreeInodes : TRUE
<1> DEFINE Working == {g \in Handlers : Busy(g)}
           Held == {handler[g].fd : g \in Working}
           f == [g \in Working |-> handler[g].fd]
<1>1. IsFiniteSet(Working) /\ Cardinality(Working) <= Cardinality(Handlers)
  BY FS_Subset, RoutesAssumption
<1>2. f \in Surjection(Working, Held)
  BY DEF Surjection
<1>3. IsFiniteSet(Held) /\ Cardinality(Held) <= Cardinality(Working)
  BY <1>1, <1>2, FS_Surjection
<1> DEFINE Taken == Held \cup {file}
<1>4. /\ IsFiniteSet(Taken) /\ Cardinality(Taken) <= Cardinality(Held) + 1
      /\ Cardinality(Taken) \in Nat /\ Cardinality(Held) \in Nat
  <2>1. IsFiniteSet(Taken) /\ Cardinality(Taken) = IF file \in Held THEN Cardinality(Held) ELSE Cardinality(Held) + 1
    BY <1>3, FS_AddElement
  <2>2. Cardinality(Taken) \in Nat /\ Cardinality(Held) \in Nat
    BY <2>1, <1>3, FS_CardinalityType
  <2> QED BY <2>1, <2>2
<1>5. /\ Cardinality(Handlers) \in Nat /\ Cardinality(Working) \in Nat
      /\ Cardinality(Inodes) = Cardinality(Handlers) + 2
  <2>1. Cardinality(Handlers) \in Nat /\ Cardinality(Working) \in Nat
    BY RoutesAssumption, <1>1, FS_CardinalityType
  <2>2. Cardinality(Inodes) = Cardinality(Handlers) + 2
    BY <2>1, FS_Interval, 1 \in Int, Cardinality(Handlers) + 2 \in Int DEF Inodes
  <2> QED BY <2>1, <2>2
<1>6. ~ (Inodes \subseteq Taken)
  <2>1. SUFFICES ASSUME Inodes \subseteq Taken PROVE FALSE
    OBVIOUS
  <2>2. Cardinality(Inodes) <= Cardinality(Taken)
    BY <2>1, <1>4, FS_Subset
  <2> QED BY <2>2, <1>1, <1>3, <1>4, <1>5
<1>7. Nothing \notin Inodes
  BY RoutesAssumption, <1>5 DEF Inodes
<1> QED
  BY <1>6, <1>7 DEF FreeInodes

LEMMA OpenedInode ==
    ASSUME RoutesTypeOK, NEW h \in Handlers, Open(h)
    PROVE  tmp' \in Inodes /\ tmp' # file
<1>1. CASE tmp # Nothing
  BY <1>1 DEF RoutesTypeOK, Open
<1>2. CASE tmp = Nothing
  <2>1. tmp' \in FreeInodes
    BY <1>2, FreeInode DEF Open
  <2> QED BY <2>1 DEF FreeInodes
<1> QED BY <1>1, <1>2

LEMMA RoutesInitInv == RoutesInit => RoutesInv
<1> SUFFICES ASSUME RoutesInit PROVE RoutesInv
  OBVIOUS
<1>1. Seed \in Registry
  BY RoutesAssumption DEF Seed, Registry
<1>2. Cardinality(Handlers) \in Nat /\ 1 \in Inodes /\ Nothing \notin Inodes
  <2>1. Cardinality(Handlers) \in Nat
    BY RoutesAssumption, FS_CardinalityType
  <2> QED BY <2>1, RoutesAssumption DEF Inodes
<1>3. RoutesTypeOK
  <2>1. inode \in [Inodes -> Bodies]
    BY <1>1, BodyForms DEF RoutesInit
  <2>2. handler \in [Handlers -> Handler] /\ \A h \in Handlers : handler[h].pc = "idle"
    BY DEF RoutesInit, Handler, IdleHandler
  <2> QED BY <1>2, <2>1, <2>2 DEF RoutesInit, RoutesTypeOK, Bodies
<1>4. LawfulInv
  <2>1. LawfulRoutes(Seed, admitted)
    BY DEF LawfulRoutes, Seed
  <2>2. \A h \in Handlers : ~Busy(h)
    BY DEF RoutesInit, Busy, IdleHandler
  <2> QED BY <2>1, <2>2, BodyForms DEF RoutesInit, LawfulInv
<1>5. AloneInv
  BY DEF AloneInv, RoutesInit
<1> QED BY <1>3, <1>4, <1>5 DEF RoutesInv

-----------------------------------------------------------------------------
(* The steps, one by one. *)

(* A handler that ends, whatever else happens, disturbs no other one. *)
LEMMA EndsKeeps ==
    ASSUME RoutesInv, NEW h \in Handlers, Busy(h), Ends(h)
    PROVE  /\ handler' \in [Handlers -> Handler] /\ ~Busy(h)'
           /\ \A g \in Handlers : g # h => handler'[g] = handler[g]
           /\ alone' = {}
<1>1. handler' = [handler EXCEPT ![h] = IdleHandler] /\ handler \in [Handlers -> Handler]
  BY DEF Ends, RoutesInv, RoutesTypeOK
<1>2. ~Busy(h)'
  BY <1>1 DEF Busy, IdleHandler
<1>3. alone \subseteq {h}
  BY DEF RoutesInv, RoutesTypeOK, AloneInv
<1> QED
  BY <1>1, <1>2, <1>3 DEF Ends, Handler

(* A step that ends a handler, or fails it, keeps the invariant when the file
   system stays. *)
LEMMA EndsInv ==
    ASSUME RoutesInv, NEW h \in Handlers, Busy(h), Ends(h), UNCHANGED <<admitted, fileVars>>
    PROVE  RoutesInv'
<1>1. RoutesTypeOK'
  BY EndsKeeps, HandlerForms DEF RoutesInv, RoutesTypeOK, fileVars, Busy, HandlerSteps
<1>2. LawfulInv'
  <2>1. \A g \in Handlers : Busy(g)' => g # h /\ handler'[g] = handler[g] /\ Busy(g)
    BY EndsKeeps DEF Busy
  <2> QED BY <2>1 DEF RoutesInv, LawfulInv, LawfulRoutes, fileVars
<1>3. AloneInv'
  BY EndsKeeps DEF AloneInv
<1> QED BY <1>1, <1>2, <1>3 DEF RoutesInv

LEMMA AdmitInv ==
    ASSUME RoutesInv, NEW a \in Applications, AdmitApplication(a)
    PROVE  RoutesInv'
<1>1. RoutesTypeOK'
  BY DEF RoutesInv, RoutesTypeOK, AdmitApplication, fileVars
<1>2. \A s : LawfulRoutes(s, admitted) => LawfulRoutes(s, admitted')
  BY DEF LawfulRoutes, AdmitApplication
<1>3. LawfulInv'
  BY <1>2 DEF RoutesInv, LawfulInv, AdmitApplication, fileVars, Busy
<1>4. AloneInv'
  BY DEF RoutesInv, AloneInv, AdmitApplication, fileVars, Busy, Changed
<1> QED BY <1>1, <1>3, <1>4 DEF RoutesInv

LEMMA LoadInv ==
    ASSUME RoutesInv, NEW h \in Handlers, NEW op \in Change, NEW step \in {"checking", "changed"},
           Readable, Load(h, op, step), op.host \notin SystemHosts,
           step = "checking" \/ op.target = Nothing
    PROVE  RoutesInv'
<1>1. file \in Inodes /\ Published \in Registry /\ inode[file] = Whole(Published)
  BY BodyForms DEF RoutesInv, RoutesTypeOK, Readable, Published, Bodies
<1> DEFINE new == [pc |-> step, op |-> op, store |-> Published, fd |-> Nothing]
<1>2. new \in Handler /\ new.pc = step /\ new.op = op /\ new.store = Published
  BY <1>1 DEF Handler, HandlerSteps
<1>3. /\ handler' = [handler EXCEPT ![h] = new] /\ UNCHANGED <<admitted, file, tmp, inode>>
      /\ alone' = IF \E g \in Handlers : Busy(g) THEN {} ELSE {h}
  BY DEF Load, fileVars
<1>4. /\ handler' \in [Handlers -> Handler] /\ handler'[h] = new
      /\ \A g \in Handlers : g # h => handler'[g] = handler[g]
  BY <1>2, <1>3 DEF RoutesInv, RoutesTypeOK
<1>5. RoutesTypeOK'
  BY <1>2, <1>3, <1>4 DEF RoutesInv, RoutesTypeOK
<1>6. LawfulInv'
  <2>1. LawfulRoutes(Published, admitted)
    BY <1>1 DEF RoutesInv, LawfulInv, Readable, Published
  <2>2. \A s : LawfulRoutes(s, admitted) => LawfulRoutes(s, admitted')
    BY <1>3 DEF LawfulRoutes
  <2>3. \A g \in Handlers : g # h => (Busy(g)' <=> Busy(g))
    BY <1>4 DEF Busy
  <2>4. \A i \in Inodes : inode'[i].form = "whole" => LawfulRoutes(inode'[i].routes, admitted')
    BY <1>3, <2>2 DEF RoutesInv, LawfulInv
  <2>5. LawfulRoutes(handler'[h].store, admitted')
    BY <1>2, <1>4, <2>1, <2>2
  <2> QED BY <1>2, <1>3, <1>4, <2>2, <2>3, <2>4, <2>5 DEF RoutesInv, LawfulInv
<1>7. AloneInv'
  <2> SUFFICES ASSUME NEW g \in alone'
               PROVE  /\ Busy(g)' /\ \A k \in Handlers : Busy(k)' => k = g
                      /\ inode'[file'] = Whole(handler'[g].store)
                      /\ handler'[g].pc \notin {"opened", "written"}
    BY DEF AloneInv
  <2>1. g = h /\ \A k \in Handlers : ~Busy(k)
    BY <1>3
  <2>2. Busy(h)' /\ \A k \in Handlers : Busy(k)' => k = h
    BY <1>2, <1>4, <2>1 DEF Busy
  <2> QED BY <1>1, <1>2, <1>3, <1>4, <2>1, <2>2
<1> QED BY <1>5, <1>6, <1>7 DEF RoutesInv

(* A handler moves on: its change, its copy and the files stay. *)
LEMMA CheckInv ==
    ASSUME RoutesInv, NEW h \in Handlers, CheckAdmitted(h)
    PROVE  RoutesInv'
<1>0. Busy(h) /\ handler[h].pc = "checking"
  BY DEF CheckAdmitted, Busy
<1>1. CASE Ends(h)
  BY <1>0, <1>1, EndsInv DEF CheckAdmitted
<1>2. CASE handler[h].op.target \in admitted /\ handler' = [handler EXCEPT ![h].pc = "changed"] /\ alone' = alone
  <2>1. UNCHANGED <<admitted, file, tmp, inode, alone>>
    BY <1>2 DEF CheckAdmitted, fileVars
  <2>2. PICK r : r = [handler[h] EXCEPT !.pc = "changed"]
    OBVIOUS
  <2>3. /\ r \in Handler /\ r.pc = "changed" /\ r.op = handler[h].op
        /\ r.store = handler[h].store /\ r.fd = handler[h].fd
    BY <1>0, <2>2, HandlerForms DEF RoutesInv, Handler, HandlerSteps
  <2>4. handler' = [handler EXCEPT ![h] = r]
    BY <1>2, <2>2 DEF RoutesInv, RoutesTypeOK
  <2>5. /\ handler' \in [Handlers -> Handler] /\ handler'[h] = r
        /\ \A g \in Handlers : g # h => handler'[g] = handler[g]
    BY <2>3, <2>4 DEF RoutesInv, RoutesTypeOK
  <2>6. RoutesTypeOK'
    BY <2>1, <2>3, <2>5 DEF RoutesInv, RoutesTypeOK
  <2>7. \A g \in Handlers : Busy(g)' <=> Busy(g)
    BY <1>0, <2>3, <2>5 DEF Busy
  <2>8. LawfulInv'
    BY <1>0, <1>2, <2>1, <2>3, <2>5, <2>7 DEF RoutesInv, LawfulInv, LawfulRoutes
  <2>9. AloneInv'
    <3> SUFFICES ASSUME NEW g \in alone'
                 PROVE  /\ Busy(g)' /\ \A k \in Handlers : Busy(k)' => k = g
                        /\ inode'[file'] = Whole(handler'[g].store)
                        /\ handler'[g].pc \notin {"opened", "written"}
      BY DEF AloneInv
    <3>1. g \in alone /\ g = h
      BY <1>0, <2>1 DEF RoutesInv, AloneInv
    <3> QED BY <3>1, <2>1, <2>3, <2>5, <2>7 DEF RoutesInv, AloneInv
  <2> QED BY <2>6, <2>8, <2>9 DEF RoutesInv
<1> QED BY <1>1, <1>2 DEF CheckAdmitted

LEMMA OpenInv ==
    ASSUME RoutesInv, NEW h \in Handlers, Open(h)
    PROVE  RoutesInv'
<1>0. Busy(h) /\ handler[h].pc = "changed" /\ tmp' \in Inodes /\ tmp' # file
  BY OpenedInode DEF Open, Busy, RoutesInv
<1>1. UNCHANGED <<admitted, file, alone>> /\ inode' = [inode EXCEPT ![tmp'] = Empty]
  BY DEF Open
<1>2. PICK i : i = tmp'
  OBVIOUS
<1>3. PICK r : r = [[handler[h] EXCEPT !.pc = "opened"] EXCEPT !.fd = i]
  OBVIOUS
<1>4. /\ r \in Handler /\ r.pc = "opened" /\ r.op = handler[h].op
      /\ r.store = handler[h].store /\ r.fd = i
  BY <1>0, <1>2, <1>3, HandlerForms DEF RoutesInv, Handler, HandlerSteps
<1>5. handler' = [handler EXCEPT ![h] = r]
  <2>1. handler' = [handler EXCEPT ![h].pc = "opened", ![h].fd = i]
    BY <1>2 DEF Open
  <2>2. PICK half : half = [handler[h] EXCEPT !.pc = "opened"]
    OBVIOUS
  <2>3. [handler EXCEPT ![h].pc = "opened"] = [handler EXCEPT ![h] = half]
    BY <2>2
  <2>4. handler' = [[handler EXCEPT ![h] = half] EXCEPT ![h].fd = i]
    BY <2>1, <2>3
  <2>5. [handler EXCEPT ![h] = half][h] = half /\ r = [half EXCEPT !.fd = i]
    BY <1>3, <2>2 DEF RoutesInv, RoutesTypeOK
  <2> QED BY <2>4, <2>5 DEF RoutesInv, RoutesTypeOK
<1>6. /\ handler' \in [Handlers -> Handler] /\ handler'[h] = r
      /\ \A g \in Handlers : g # h => handler'[g] = handler[g]
  BY <1>4, <1>5 DEF RoutesInv, RoutesTypeOK
<1>7. /\ inode' \in [Inodes -> Bodies] /\ inode'[i] = Empty
      /\ \A j \in Inodes : j # i => inode'[j] = inode[j]
  BY <1>0, <1>1, <1>2, BodyForms DEF RoutesInv, RoutesTypeOK, Bodies
<1>8. i # Nothing
  BY <1>0, <1>2, RoutesAssumption, FS_CardinalityType DEF Inodes
<1>9. RoutesTypeOK'
  BY <1>0, <1>1, <1>2, <1>4, <1>6, <1>7, <1>8 DEF RoutesInv, RoutesTypeOK, Bodies
<1>10. \A g \in Handlers : Busy(g)' <=> Busy(g)
  BY <1>0, <1>4, <1>6 DEF Busy
<1>11. LawfulInv'
  <2>1. \A j \in Inodes : inode'[j].form = "whole" => j # i
    BY <1>7, BodyForms
  <2> QED
    BY <2>1, <1>0, <1>1, <1>4, <1>6, <1>7, <1>10 DEF RoutesInv, LawfulInv, LawfulRoutes
<1>12. AloneInv'
  <2> SUFFICES ASSUME NEW g \in alone'
               PROVE  /\ Busy(g)' /\ \A k \in Handlers : Busy(k)' => k = g
                      /\ inode'[file'] = Whole(handler'[g].store)
                      /\ handler'[g].pc = "opened" /\ tmp' = handler'[g].fd /\ inode'[tmp'] = Empty
    BY DEF AloneInv
  <2>1. g \in alone /\ g = h
    BY <1>0, <1>1 DEF RoutesInv, AloneInv
  <2>2. inode'[file'] = inode[file]
    BY <1>0, <1>1, <1>2, <1>7 DEF RoutesInv, RoutesTypeOK
  <2> QED BY <2>1, <2>2, <1>1, <1>2, <1>4, <1>6, <1>7, <1>10 DEF RoutesInv, AloneInv
<1> QED BY <1>9, <1>11, <1>12 DEF RoutesInv

LEMMA WriteInv ==
    ASSUME RoutesInv, NEW h \in Handlers, Write(h)
    PROVE  RoutesInv'
<1>0. /\ Busy(h) /\ handler[h].pc = "opened" /\ handler[h].fd \in Inodes
      /\ UNCHANGED <<admitted, file, tmp, alone>>
  BY HandlerForms DEF Write, Busy, RoutesInv, RoutesTypeOK, HandlerSteps
<1>1. PICK i : i = handler[h].fd
  OBVIOUS
<1>2. PICK body \in {Whole(Changed(h)), Mixed} :
        /\ inode' = [inode EXCEPT ![i] = body]
        /\ body = Whole(Changed(h)) \/ LeavesTail(inode[i], Changed(h))
  BY <1>1 DEF Write
<1>3. /\ body \in Bodies /\ inode' \in [Inodes -> Bodies] /\ inode'[i] = body
      /\ \A j \in Inodes : j # i => inode'[j] = inode[j]
  BY <1>0, <1>1, <1>2, BodyForms, ChangedTyped DEF RoutesInv, RoutesTypeOK, Bodies
<1>4. PICK r : r = [handler[h] EXCEPT !.pc = "written"]
  OBVIOUS
<1>5. /\ r \in Handler /\ r.pc = "written" /\ r.op = handler[h].op
      /\ r.store = handler[h].store /\ r.fd = handler[h].fd
  BY <1>0, <1>4, HandlerForms DEF RoutesInv, Handler, HandlerSteps
<1>6. handler' = [handler EXCEPT ![h] = r]
  BY <1>4 DEF Write, RoutesInv, RoutesTypeOK
<1>7. /\ handler' \in [Handlers -> Handler] /\ handler'[h] = r
      /\ \A g \in Handlers : g # h => handler'[g] = handler[g]
  BY <1>5, <1>6 DEF RoutesInv, RoutesTypeOK
<1>8. i # Nothing
  BY <1>0, <1>1, RoutesAssumption, FS_CardinalityType DEF Inodes
<1>9. RoutesTypeOK'
  BY <1>0, <1>1, <1>3, <1>5, <1>7, <1>8 DEF RoutesInv, RoutesTypeOK, Bodies
<1>10. \A g \in Handlers : Busy(g)' <=> Busy(g)
  BY <1>0, <1>5, <1>7 DEF Busy
<1>11. LawfulInv'
  <2>1. LawfulRoutes(handler[h].store, admitted) /\ handler[h].op.host \notin SystemHosts
        /\ handler[h].op.target \in admitted \cup {Nothing}
    BY <1>0 DEF RoutesInv, LawfulInv
  <2>2. LawfulRoutes(Changed(h), admitted)
    BY <1>0, <2>1, ChangedTyped DEF RoutesInv, LawfulRoutes
  <2>3. \A s : LawfulRoutes(s, admitted) <=> LawfulRoutes(s, admitted')
    BY <1>0 DEF LawfulRoutes
  <2>4. body.form = "whole" => LawfulRoutes(body.routes, admitted)
    BY <1>2, <2>2, BodyForms
  <2>5. \A j \in Inodes : inode'[j].form = "whole" => LawfulRoutes(inode'[j].routes, admitted')
    BY <1>3, <2>3, <2>4 DEF RoutesInv, LawfulInv
  <2> QED BY <1>0, <1>5, <1>7, <1>10, <2>3, <2>5 DEF RoutesInv, LawfulInv
<1>12. AloneInv'
  <2> SUFFICES ASSUME NEW g \in alone'
               PROVE  /\ Busy(g)' /\ \A k \in Handlers : Busy(k)' => k = g
                      /\ inode'[file'] = Whole(handler'[g].store)
                      /\ handler'[g].pc = "written" /\ tmp' = handler'[g].fd
                      /\ inode'[tmp'] = Whole(Changed(g)')
    BY DEF AloneInv
  <2>1. /\ g \in alone /\ g = h /\ \A k \in Handlers : Busy(k) => k = g
        /\ tmp = i /\ inode[i] = Empty /\ inode[file] = Whole(handler[h].store)
    BY <1>0, <1>1 DEF RoutesInv, AloneInv
  <2>2. ~LeavesTail(inode[i], Changed(h))
    BY <2>1, BodyForms DEF LeavesTail
  <2>3. inode'[file'] = inode[file] /\ inode'[tmp'] = Whole(Changed(h))
    BY <1>0, <1>2, <1>3, <2>1, <2>2 DEF RoutesInv, RoutesTypeOK
  <2>4. Changed(h)' = Changed(h)
    BY <1>5, <1>7 DEF Changed
  <2> QED BY <2>1, <2>3, <2>4, <1>0, <1>1, <1>5, <1>7, <1>10
<1> QED BY <1>9, <1>11, <1>12 DEF RoutesInv

LEMMA RenameInv ==
    ASSUME RoutesInv, NEW h \in Handlers, Rename(h)
    PROVE  RoutesInv'
<1>1. /\ Busy(h) /\ tmp \in Inodes /\ file \in Inodes /\ file' = tmp /\ tmp' = Nothing
      /\ inode' = [inode EXCEPT ![file] = Empty] /\ Ends(h) /\ admitted' = admitted
  BY DEF Rename, Busy, RoutesInv, RoutesTypeOK
<1>2. inode' \in [Inodes -> Bodies] /\ inode'[file] = Empty
      /\ \A j \in Inodes : j # file => inode'[j] = inode[j]
  BY <1>1, BodyForms DEF RoutesInv, RoutesTypeOK, Bodies
<1>3. Nothing \notin Inodes
  BY RoutesAssumption, FS_CardinalityType DEF Inodes
<1>4. /\ handler' \in [Handlers -> Handler] /\ ~Busy(h)' /\ alone' = {}
      /\ \A g \in Handlers : g # h => handler'[g] = handler[g]
  BY <1>1, EndsKeeps
<1>5. RoutesTypeOK'
  <2>1. \A g \in Handlers : handler'[g].pc \in {"opened", "written"} => handler'[g].fd # Nothing
    BY <1>4 DEF Busy, RoutesInv, RoutesTypeOK
  <2> QED BY <1>1, <1>2, <1>3, <1>4, <2>1 DEF RoutesInv, RoutesTypeOK, Bodies
<1>6. LawfulInv'
  <2>1. \A g \in Handlers : Busy(g)' => handler'[g] = handler[g] /\ Busy(g)
    BY <1>4 DEF Busy
  <2>2. \A j \in Inodes : inode'[j].form = "whole" => j # file
    BY <1>2, BodyForms
  <2> QED BY <1>1, <1>2, <2>1, <2>2 DEF RoutesInv, LawfulInv, LawfulRoutes
<1>7. AloneInv'
  BY <1>4 DEF AloneInv
<1> QED BY <1>5, <1>6, <1>7 DEF RoutesInv

LEMMA RestartInv ==
    ASSUME RoutesInv, Restart
    PROVE  RoutesInv'
<1>1. /\ UNCHANGED <<admitted, file, tmp>> /\ alone' = {}
      /\ inode' = [inode EXCEPT ![file] = Whole(Seed)]
      /\ handler' = [h \in Handlers |-> IdleHandler]
  BY DEF Restart
<1>2. Seed \in Registry /\ LawfulRoutes(Seed, admitted)
  BY RoutesAssumption DEF Seed, Registry, LawfulRoutes
<1>3. /\ file \in Inodes /\ inode' \in [Inodes -> Bodies] /\ inode'[file] = Whole(Seed)
      /\ \A j \in Inodes : j # file => inode'[j] = inode[j]
  BY <1>1, <1>2, BodyForms DEF RoutesInv, RoutesTypeOK, Bodies
<1>4. /\ handler' \in [Handlers -> Handler]
      /\ \A h \in Handlers : handler'[h].pc = "idle"
  BY <1>1 DEF Handler, IdleHandler
<1>5. RoutesTypeOK'
  BY <1>1, <1>3, <1>4 DEF RoutesInv, RoutesTypeOK, Bodies
<1>6. LawfulInv'
  <2>1. \A s : LawfulRoutes(s, admitted) <=> LawfulRoutes(s, admitted')
    BY <1>1 DEF LawfulRoutes
  <2> QED BY <1>2, <1>3, <1>4, <2>1, BodyForms DEF RoutesInv, LawfulInv, Busy
<1>7. AloneInv'
  BY <1>1 DEF AloneInv
<1> QED BY <1>5, <1>6, <1>7 DEF RoutesInv

LEMMA RoutesNextInv ==
    ASSUME RoutesInv, [RoutesNext]_routesVars
    PROVE  RoutesInv'
<1>1. CASE UNCHANGED routesVars
  BY <1>1 DEF routesVars, fileVars, RoutesInv, RoutesTypeOK, LawfulInv, LawfulRoutes, AloneInv, Busy,
       Changed
<1>2. CASE \E a \in Applications : AdmitApplication(a)
  BY <1>2, AdmitInv
<1>3. ASSUME NEW h \in Handlers, NEW op \in Change, Create(h, op)
      PROVE  RoutesInv'
  <2>1. Readable /\ Published[op.host] # Celld /\ Load(h, op, "checking") /\ op.host \in Hosts
    BY <1>3 DEF Create, Change
  <2>2. op.host \notin SystemHosts
    BY <2>1 DEF RoutesInv, RoutesTypeOK, LawfulInv, LawfulRoutes, Readable, Published
  <2> QED BY <2>1, <2>2, LoadInv
<1>4. ASSUME NEW h \in Handlers, NEW op \in Change, Delete(h, op)
      PROVE  RoutesInv'
  <2>1. /\ Readable /\ Published[op.host] # Celld /\ Load(h, op, "changed") /\ op.host \in Hosts
        /\ op.target = Nothing
    BY <1>4 DEF Delete, Change
  <2>2. op.host \notin SystemHosts
    BY <2>1 DEF RoutesInv, RoutesTypeOK, LawfulInv, LawfulRoutes, Readable, Published
  <2> QED BY <2>1, <2>2, LoadInv
<1>5. ASSUME NEW h \in Handlers, WriteFails(h) \/ RenameFails(h)
      PROVE  RoutesInv'
  BY <1>5, EndsInv DEF WriteFails, RenameFails, Busy
<1>6. CASE Restart
  BY <1>6, RestartInv
<1> QED
  BY <1>1, <1>2, <1>3, <1>4, <1>5, <1>6, CheckInv, OpenInv, WriteInv, RenameInv DEF RoutesNext

(* Every registry on the disk or held by a handler is lawful, whatever renames
   and failed writes came between, and a lone handler finds its own files. *)
THEOREM RoutesInvariance == RoutesSpec => []RoutesInv
<1> QED BY RoutesInitInv, RoutesNextInv, PTL DEF RoutesSpec

(* A registry that can be read has the system routes of the seed, and its user
   routes name admitted applications, however the handlers of routes_create and
   routes_delete overwrite each other. *)
THEOREM RegistryStaysLawful == RoutesSpec => []RegistryIsLawful
<1>1. RoutesInv => RegistryIsLawful
  BY DEF RoutesInv, RoutesTypeOK, LawfulInv, LawfulRoutes, RegistryIsLawful, Readable, Published
<1> QED BY <1>1, RoutesInvariance, PTL

LEMMA LoneStep ==
    ASSUME RoutesInv, NEW h \in alone, Rename(h)
    PROVE  inode'[file'] = Whole([Published EXCEPT ![handler[h].op.host] = handler[h].op.target])
<1>1. /\ handler[h].pc = "written" /\ file' = tmp /\ tmp \in Inodes /\ tmp # file
      /\ inode' = [inode EXCEPT ![file] = Empty]
  BY DEF Rename, RoutesInv, RoutesTypeOK
<1>2. inode[tmp] = Whole(Changed(h)) /\ inode[file] = Whole(handler[h].store)
  BY <1>1 DEF RoutesInv, AloneInv
<1>3. inode'[file'] = inode[tmp]
  BY <1>1 DEF RoutesInv, RoutesTypeOK
<1>4. Published = handler[h].store
  BY <1>2, BodyForms DEF Published
<1> QED BY <1>2, <1>3, <1>4 DEF Changed

(* A handler that overlapped with no other publishes the registry it found with
   exactly its change, also over a routes.tmp that a failed call left behind. *)
THEOREM LoneChangesAreExact == RoutesSpec => LoneChangeIsExact
<1>1. RoutesInv => \A h \in alone : Rename(h) => inode'[file'] =
        Whole([Published EXCEPT ![handler[h].op.host] = handler[h].op.target])
  BY LoneStep
<1> QED BY <1>1, RoutesInvariance, PTL DEF LoneChangeIsExact, RoutesSpec

=============================================================================
