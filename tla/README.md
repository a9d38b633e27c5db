# TLA+ verification of the iweb node kernel

iweb is a personal application node.  A Rust process, the *Kernel*
(`src/kernel-rs/iweb-kernel`), owns the control state; an unprivileged TypeScript
process, the *supervisor* (`src/supervisor`), runs applications by starting one
*wasmd* process (`src/kernel-rs/wasmd`) per wasm application.  Between a package
that an owner uploads and a public request that reaches it lie three protocols,
each over several files that are written one after the other and without a
transaction around them: **admission**, **delivery** of execution commands and
**activation** of the route.  These are the core of this project.  Around them stand
the **plane** an admission enters (gate, runtime kinds, control state), the **handoff**
of secret and configuration snapshots through the relay to the process that needs
them, the **retirement** of a version that lost the route, the **rotation** of secrets,
the **owner keys**, the **user routes**, the **host calls** an application makes to its
data, the **runtime** that starts and stops its processes, and the **watchdog** over them.

All Kernel operations on wasm state run under one mutex (`http.rs:42`), so calls do
not interleave with each other.  They do interleave with the supervisor, with
requests the Kernel has stopped waiting for, with the clock, and with crashes and
failed writes between any two durable steps.  Routes, keys, the watchdog, the relay and
wasmd do not take that mutex at all.  That is where the models look.

## Inventory

| Component | Source | State | Operations | Hard behaviour | What makes it correct | Module |
|---|---|---|---|---|---|---|
| Admission | `wasm_admission.rs`, file stores in `wasm_runtime.rs` | journal (JSONL), object prefixes, control database, materializer receipts | submit (create or join), drive to visible, recover, collect, extend lease | crash or I/O error between six writes on four stores; retries; leases that run out | journal never ahead of the stores; acknowledged versions stay; no late publication; sequence never reused | `Admission` |
| Admission plane | `wasm_publication.rs`, `wasm_kind_registry.rs`, start-up and submission in `wasm_runtime.rs` | acceptance record, identity file, switch; claim index, bindings; proofs, control state v2 | start-up (gate, recovery, convergence, projection), submit, quarantine | gate evaluated once, identity read each time; five stores written one after the other | an application has one kind for ever; an admitted version reaches every store at the next start | `AdmissionPlane` |
| Planning and delivery | `wasm_runtime.rs`, `wasm_commands.rs`, tick in `http.rs` | control file v2 (outbox), route registry (journal hint), fences file | plan Prepare/Start, query, handoff, command/replay, acknowledge, open and heal fences | timeouts, abandoned requests, stale revision hints, dual writes | executed once; belief only in what the journal says; fences heal | `CommandDelivery` |
| Snapshot handoff | `wasm_snapshot_fd.rs`, `snapshot-fd-relay`, `snapshot-fd.ts`, `wasm-runtime.ts` | frames on the socket, descriptors held by the relay, children | hand off, acknowledge, look up, fork, consume, reap | expiry between check and use; lost acknowledgements; repeated Starts | a second process only for an ingress that failed; the snapshots the command names | `SnapshotHandoff` |
| Supervisor control journal | `wasm-control.ts`, `wasm-executor.ts` | execution journal, execution fences, cached outcomes, in-flight deliveries | accept by CAS, execute, complete, replay, resume after restart | concurrent deliveries of one command, restart between received and completed | executed by one delivery at a time, one outcome per command | `CommandDelivery`, `Retirement` |
| Activation and route | `wasm_activation.rs`, projection and ingress in `wasm_runtime.rs` | activation file, control file v2, fences, readiness leases | command, query, replay, projection, ingress resolution | verdict and route in two files; races for a generation; leases expire and are replayed | one line of grants; v2 at most one behind; owners told only what is routed | `Route` |
| Retirement | `wasm_commands.rs`, `wasm_runtime.rs`, `wasm-executor.ts`, `wasm-serve.ts` | records in the registry, Drain in the outbox, ledger file of the supervisor | record and plan at the flip, deliver, preflight, stop, receipt | three files per save; deadline; restart of either process | the routed version is not drained; retired has its receipt; every Drain ends | `Retirement` |
| Secret rotation | `wasm_secrets.rs` | secret store, outbox, supervisor invalidation journal | rotate, deliver invalidation, recover | a crash after each of five steps; two rotations | candidates of an older revision never run on | `SecretRotation` |
| Owner keys | `keys.rs` | `keys.json`, `keys.pending`, `audit.log` | create, ban, authenticate, reconcile | six-step commit with a crash, a failed or a half-done write at each; calls that queue while one fails | an acknowledged revocation stays; nothing served unaudited | `OwnerKeys` |
| User routes | `routes.rs`, handlers in `http.rs` | `routes.json`, its temporary file | create, delete, load, seed at restart | handlers without a mutex over one file and one temporary name | a readable registry is lawful; a lone change is exact | `UserRoutes` |
| wasmd host services | `host_services/*.rs` | quota ledger with replay rows, key-value and SQL databases, log ring | claim, reserve, commit, finalise, complete, recover | three transactions over two databases; requests sent again; generations side by side | mutates once, answers truly, accounts every byte, unless overtaken | `HostCalls` |
| Sandbox runtime | `wasm-runtime.ts` | tracked executions, pidfile of the application | spawn, settle, track, stop, remove | pids taken again between two signals; executions that share a pidfile | the pidfile names what the runtime answers for | `SandboxRuntime` |
| Watchdog | `sampling.rs`, pid files of `wasm-runtime.ts` and the entrypoint | samples, policy, event ring, pid files | sample, judge, check, kill | pids and pid files change hands between two reads | ends what it measured; nothing over its limit stays | `Watchdog` |
| Catalog store | `wasm-catalog-store.ts` | revisions, derived index, receipts, audits | append, revoke, release, collect | index behind the files after a crash | an append-only history | - |
| Backup and logging projection | `wasm-host-backup.ts`, `wasm-host-logging.ts` | plans, no state of their own | quiesce, capture, restore, drain | quiesce races with writes | a set is captured only while quiet | - |
| Proxy, monitor, metrics | `proxy.rs`, `monitor.rs`, `metrics.rs` | counters, feeds | resolve, count, project | none | - | - |
| Contracts, workers, console, website, scripts | `packages`, `apps`, `scripts` | none shared with the Kernel's protocols | validators, interfaces, tools | none | - | - |

How they interact: a submission passes the gate and ends in a *visible* version
(`AdmissionPlane`, with the transaction itself in `Admission`).  In the same call the
Kernel adds the version to the control file v2, plans its Prepare and Start and later
delivers them (`CommandDelivery`), each after its snapshots (`SnapshotHandoff`, whose
revisions `SecretRotation` commits and fences); an applied Start opens the version's
fence, and its process is started and stopped by the runtime (`SandboxRuntime`), watched
(`Watchdog`) and served its data (`HostCalls`).  A
readiness probe leaves a lease; an activation command presents it and is granted the
route (`Route`), the version that had it is drained (`Retirement`), and a public request
follows the route only while v2, the current version and the fence agree.

## Modules

| Module | Models | Role |
|---|---|---|
| `Admission` | admission transaction on its four stores | detailed specification |
| `VersionLedger` | what readers and submitters of a version see | abstract specification |
| `AdmissionProofs` | | TLAPS proofs about `Admission`, and that it implements `VersionLedger` |
| `AdmissionPlane` | gate, kinds, proofs and control state around admissions, with start-up | composition, with the transaction as one step |
| `PlaneProofs` | | TLAPS proofs about `AdmissionPlane` |
| `CommandDelivery` | Kernel outbox, delivery rounds, supervisor journal and executor | detailed specification |
| `CommandOutcome` | what the owner sees of commands and fences | abstract specification, of `CommandDelivery` and `SnapshotHandoff` |
| `DeliveryProofs` | | TLAPS proofs about `CommandDelivery` |
| `SnapshotHandoff` | Kernel rounds, relay, executor and children around snapshots | composition of three processes |
| `Route` | activation file, projection into v2, ingress | detailed specification |
| `RouteAuthority` | one line of grants and its publication | abstract specification |
| `RouteProofs` | | TLAPS proofs about `Route` and `UserRoutes` |
| `Retirement` | flip, Drain, ledger, stop and receipt | composition of Kernel and supervisor |
| `Succession` | who has the route, is drained, is answered for, is retired | abstract specification |
| `SecretRotation` | rotation and its recovery over two journals | specification |
| `SnapshotProofs` | | TLAPS proofs about `SecretRotation`, `SandboxRuntime` and `SnapshotHandoff`, and that the last implements `CommandOutcome` |
| `OwnerKeys` | `keys.json`, `keys.pending`, `audit.log` and the writer mutex | specification |
| `KeysProofs` | | TLAPS proofs about `OwnerKeys` |
| `UserRoutes` | `routes.json` and the handlers over it | specification |
| `HostCalls` | replay, quota ledger and backends of one application | specification |
| `HostCallsProofs` | | TLAPS proofs about `HostCalls` |
| `SandboxRuntime` | how the supervisor starts, addresses and stops processes | specification |
| `Watchdog` | sampling loop, processes and pids | specification |
| `RetirementProofs` | | TLAPS proofs about `Retirement` and `Watchdog` |
| `MCAdmission`, `MCRoute`, `MCRetirement`, `MCHostCalls` | the requests, commands and deadlines of small instances | model checking |
| `MCRegistries`, `MCSnapshots`, `MCExecution` | components that share no state, side by side in one run, with their small instances | model checking |

### Admission

One application; its versions are named by their sequence.  `journal`, `objects`, `db`
and `receipts` are the four stores on disk; `tx` is the transaction in the memory of the
process, with its program counter `pc` naming the next durable write and `now` the clock
as read when it began.  `SubmitJoin`/`SubmitCreate` are `create_or_join` with
`find_join_candidate`; every step of `drive_to_visible` is an action of its own, because
a crash can fall before and after each (`WriteTemporary`, `RenameBlob`, `WriteMarker`,
`RecordObjectComplete`, `VerifyPrefix`, `InsertHiddenRow`, `Handoff`, `FlipVisible`,
`RecordVisible`).  `RecoverKey` and `FinishRecovery` are `recover_wasm_admission`,
`BeginCollect`/`CollectStep` are `collect_failed_admission`, `ExtendLease` is
`extend_lease` (the last two are library operations without a caller in the running
Kernel: `OwnerOps` switches them).  `Crash`, `IOError` and `Damage` are faults.

### CommandDelivery

Versions are numbered in the order of their admission; commands are named by their place
in the outbox; the revision of a journal entry is its place in the journal.  `outbox`,
`hint` and `fences` are three files of the Kernel, `round` the delivery round in its
memory, `requests` what is at the supervisor, including requests the Kernel abandoned
(`late`), `journal` the supervisor's execution journal, `adopted` and `cached` the
executor's memory.  Planning (`PlanPrepare`, `PlanStart`, `AdoptStart`, `FinishPlanning`) is
`reconcile_visible_execution_state`, one durable write at a time; a round is
`run_outbox_delivery` followed by `heal_acknowledged_start_fences`; the handling of a
request is `wasm-control.ts` with `perform`/`decide` of `wasm-executor.ts`.

### Route

One application with its versions in order of admission; generations, secret and
configuration revisions of a version never change in the present code, so the comparisons
of them always agree and are left out.  `active`, `events`, `records` and `consumed` are
the activation file, which one write replaces (`Grant`, `Refuse`); `route` and `leaseOf`
are the control file v2; `current` and `fence` the fences file.  `task` is the call or the
start-up that holds the mutex: `BeginCall` starts with the projection of what is pending
(`sync_lifecycle_after_activation`: `ProjectNext`, `SyncFails`, `SyncedCall`), then comes
the verdict (`AnswerRecorded`, `Decline`, `Refuse`, `AlreadyConsumed`, `Grant`) and a second
projection before the answer (`Answer`).  `Start` is the start-up: fences of versions
without one (`Materialize`), then the same projection, and a fenced process if it fails.
Readiness leases are written by a probe outside `src/`; the Kernel only reads the file.

### OwnerKeys

A call is named by its number, and the key it creates with it.  `disk` is the directory as
a reader sees it, `loss` the directories a power loss may leave: a rename followed by a
successful sync of the directory leaves one, a rename without it two, and the removal of
`keys.pending` is never synced by the code.  `audit` is the log over all its segments;
`torn` says that it ends in a line cut short, so that the next line cannot be parsed
(`whole = FALSE`).  `memory` and `damaged` are `Inner.keys` and `Inner.damaged`, `txn` the
commit that holds the writer mutex.  `Begin` is the check of the damaged flag, which the
code makes before the mutex (`TakeMutex`); from there every durable step of `commit` is an
action (`WriteIntent`, `WriteSnapshot`, `WriteIntent` again, `AppendEvent`, `RemoveIntent`,
`Publish`, and the way back: `Rollback`, `AppendAborted`, `DiscardIntent`).  `LoadKeys`,
`SettleLine` and `SettleIntent` are `load` with `reconcile_pending`.  A snapshot that cannot
be read is taken for one that does not exist: `LoadBlind` starts an empty store that is not
damaged, and `blind` remembers that a start missed the snapshot (history, for the
properties).  `LoadError` is an error that the code does notice.  `RecordRequest` is the
line every control request leaves.

### AdmissionPlane

What surrounds an admission, with the transaction itself as one step (`Commit`; the steps
inside it are `Admission`).  `seed`, `record`, `identity` and `switch` are files and
environment that an operator or an image changes (`Reseed`, `Install`); `witness`,
`binding`, `index`, `proofs` and `control` are the stores, in the order in which a
submission writes them.  `phase` walks through start-up as `WasmRuntime::startup` does:
`Boot` evaluates the gate once (`Gate` is `evaluate_wasm_publication_gate`), then `Recover`,
`Merge`/`MergeSplits` (claims derived from routes), `Converge`, `SplitBrain` or `Check`,
`Project`; whatever fails leaves the process fenced (`Fence`, `StartupFails`).  A
submission is `Accept` (`PassesGate`, `PassesIdentity`), `Commit`, `Register`,
`SaveProof`, `SaveControl`, and `claim_runtime_kind` inside them is two writes with a crash
between (`WriteBinding`, `WriteIndex`; `half`).  Quarantine is in memory only, and one
split-brain application fences the whole wasm plane.

### SnapshotHandoff

The Kernel's rounds, the relay and the executor around the two descriptors of a command.
`NextStep` and `SendFrame` are `deliver_snapshots_before_execution_with_transport`; a frame
waits in `wire`, which the relay serves one connection at a time (`HandleFrame`, or
`RefuseFrame` when a check before the table fails); `Accepts` is `HandoffTable::accept`.
The Kernel reads the acknowledgement later (`Acked`), or the round is lost
(`Unreachable`, `RoundLost`, `GiveUp`) while what it sent is still handled.  `exec` is the
executor with its checks (`Lookup`, `Verdict`), `threads` the relay's control requests,
which run concurrently: `Fork`, `Consume`, `Register` are three steps, and `children` has
what each child really inherited (`Descriptors`, `ChildExits`).  A Start fails for good when the
process dies in the pause or its pidfile cannot be written (`Settle`, `SettleFails`: the
outcome is remembered); an ingress that does not start is an error that is thrown on, so
that nothing is remembered and the command stays received (`IngressFails`; `unserved`
marks the process that is left).  Two processes of one command are told the same listen
address, and one of them gives up (`Contended`).  Death of the relay ends the
supervisor, so `PlaneCrash` takes both, with every table, and the entrypoint starts them
again (`PlaneStart`).

### Retirement

The version that loses the route.  `Flip` is `project_activation_event_into_v2`: it moves the
route and, if the old version has a deadline, plans a Drain and records the retirement;
a save is three files in order, each with a possible error (`WriteControl`,
`WriteRegistry`, `WriteLedger`, `WriteError`), and `Start` reads them back.  The supervisor's
side is preflight (`Accept`, `Reject`, `Unreadable`), `Stop`, a process that survives its
signals (`Survives`), and the receipt (`Complete`), which the Kernel judges against its own
record (`Matches`, `ProjectReceipt`).  A stop may be answered as `stopped` while the process
runs on, as `stopExecution` does when its fence misjudges the process (`SandboxRuntime` has
the reason), and the rest of the protocol cannot tell.  Planning of a version's Prepare and
Start is left to `CommandDelivery`: every version starts out running, and a Start that a
restarted supervisor replays does not start its process again here.

### SecretRotation

`revision` and `outbox` change in one step (`Commits`), and the four crash points of
`RotationCrashPoint` cut `run_secret_rotation` behind it; `Rotate` is the uninterrupted run.
`journal`, `fence` and `candidates` are the supervisor's side (`Apply`).  `Redeliver` is a
command that arrives again, late or out of order; `Recover` is `recover_rotation`;
`PrepareAt`, `Adopts` and `Activate` are the fences that callers get.

### UserRoutes

`file` and `tmp` are the names `routes.json` and `routes.tmp`, bound to inodes; `inode` has
what each holds, which may be a mixture when two handlers write one inode (`Write`,
`LeavesTail`).  Each handler is a load, a check, a change in memory and a persist in three
system calls (`Open`, `Write`, `Rename`), all of which interleave with those of the others;
`Restart` seeds the file again, as the entrypoint does.

### HostCalls

Operations are numbered by their claim; `ops` holds what the ledger and the marker tables say
of each: replay row, reservation, bytes, marker.  `Claim`/`Replay` are `claim_replay`,
`Reserve`, `Commit`, `Abort`, `Measure`, `Finalize`, `CannotFinalize` the two-phase mutation
of `kv.rs` and `sql.rs`, `Complete` and `Answer` the end of `dispatch_frame`, with a crash
possible before each.  `Open` and the three passes `RecoverReservation`, `ReadMarkers`,
`RecoverClaim` (with `ValidateTerminal`) are `HostServicesProvider::open`, one durable step
each.  Two processes may have the files open at once, as an active and a candidate
execution do: nothing in the code keeps the second from recovering what the first works on.
`overtaken` has the operations whose claim a recovery released while their call was running
and `outrun` those whose reservation it settled, or whose file another process wrote between
measurement and finalisation (history, for the properties).  Request identifiers that come
back are those of `dispatch_frame`; the component's own imports draw a fresh one for each
call and never repeat it.

### SandboxRuntime

The processes of one application, addressed by sandbox, as `createProcessWasmSandboxRuntime`
handles them.  `Spawn` is the fork and the pidfile (which may not be written), `Track` and
`SpawnFails` what follows the pause of a quarter of a second, when the start ticks are read.
A stop is cut at its waits: `Terminate`, `ForceKill`, `Exited`, `Survives`, and `Disowned`
before each signal, where `stillOwnsPid` says that the pid is another's.  What
`readStartTicks` takes for the start time is field 23 of `/proc/<pid>/stat`, the virtual
memory; so `vsize` is what `StartTicks` and `StillOwns` compare, a process changes it as it
runs (`Remap`) and two processes may have the same.  Strangers are processes of anybody else.

### Watchdog

`procs` is the history of processes in order of their start, `alive` those that run, and
`pidfile` the number that each application's file names; pids are reused.  The thread is cut
at every read of `/proc` and of a pidfile (`ReadPid`, `ReadStatus`, `ReadStat`), and between
the checks and the signal (`Judge`, `CheckCmdline`, `CheckStart`, `Kill`).  Of
`wasm-runtime.ts` it has what the watchdog can see: a pidfile that is written with a new
process (`Spawn`), a pidfile that goes (`RemovePidfile`) and a process that ends, in any
order.  `RunCelld` is the restart loop of the entrypoint; growth, exits and strangers are
external.  The watchdog's own start time is the right field (`parse_stat_start_ticks`).

## Runs

Passing runs, with what they show in their bounds:

| Run | Properties | Shows |
|---|---|---|
| `admission` | `TypeOK`, `JournalNeverAhead`, `VisibleHasWitnesses`, `AckedStaysVisible`, `OneInFlight`, `NoLatePublication`, `SequenceNeverReused`, `ImplementsLedger`, `Settles` | two versions, four kinds of submission, two faults at any durable write, collection and lease extension |
| `delivery` | `ExecutedOnce`, `ImplementsOutcome`, `Settles`, `FenceHeals` | two versions, four commands, two faults among crashes of either process, timeouts, failed handoffs, failed writes and effects that throw |
| `route` | `OneGrantAhead`, `ImplementsAuthority`, `PublishedAfterRestart` | two versions, four commands that race, repeat and contradict each other, queries, replays, expiring leases, one crash or failed write |
| `registries`, plane | `Projected`, `NeverBothKinds`, `StartupConverges`, `AdmittedIsAccepted` | two applications, three versions, one reseed and one exchange of identity or record, two faults in any start-up or submission |
| `registries`, routes | `RegistryIsLawful`, `LoneChangeIsExact` | two handlers over three hosts and two applications, with failed writes and renames and restarts |
| `registries`, keys | `AcknowledgedHolds`, `ServedIsAudited`, `TellsApart` | three creates and bans that overlap, three failed, half-done or torn writes, power losses or blind starts, a crash or restart anywhere |
| `execution`, runtime | `PidfileIsAccounted` | two sandboxes over two pids, three processes or strangers, two amounts of virtual memory, a stop or removal cut at every wait |
| `execution`, calls | `OnceUnlessOvertaken`, `AnswersAreTrue`, `Accounted` | two concurrent calls of four requests under two ids, two processes of the same or the next generation that may run side by side, one I/O error, crashes, expiry |
| `snapshots`, handoff | `RespawnsOnlyUnserved`, `ChildHasItsSnapshots`, `HandoffSettlesInTime` | a Prepare and the Start that shares its expiry, frames still on the wire, two faults among lost answers, unreachable relay, failed forks, failed ingress and crashes |
| `snapshots`, rotation | `StaleAreStopped`, `EveryCommitFences` | rotations up to revision 3, each cut at any of its crash points, two candidates, repeated and reordered deliveries |
| `retirement` | `RetiredHasProof`, `ImplementsSuccession`, `TrackedAfterRestart`, `DrainsSettle` | three versions with a deadline ahead, one that passes and none, three activations, one crash of either process, write error or surviving process, and stops answered with the process running |
| `watchdog` | `EndsTheMeasured`, `OverLimitEnds` | one application of each tier, two pids, processes that end, are replaced and lose their pid to a stranger between any two reads |

Three runs hold components that share no state.  There, `part` is chosen in the initial
state, one component takes the steps and the others rest in one of their initial states, so
that the run has exactly the behaviours of each; a property of one part says nothing of the
behaviours of another.  `HandoffSettlesInTime` is `SettlesInTime` of the behaviours of the
handoff.

Four violation runs are disagreements between what the repository says of the program and
what its code does; the entries under `findings` in PROJECT.json quote both.

| Run | Property | What the trace shows |
|---|---|---|
| `keys_overtaken` | `RecoveryTellsApart` | a create that waits for the mutex while another one fails overwrites what the failed one left, and the intent then matches no snapshot |
| `handoff_spawned_once` | `SpawnedOnce` | a Start whose ingress does not start is forgotten with its process running, and its replay forks a second one |
| `runtime_stops_its_own` | `StopsItsOwn` | the fence before a signal compares virtual memory: a stop is answered with the process running, and a stranger of equal size is signalled |
| `host_calls_at_most_once` | `AtMostOnce` | a second process opens the files, releases the claim of a call that is running, and the request is claimed and committed twice |

What the code does keep in the last three is what the passing runs promise in their place:
`RespawnsOnlyUnserved`, `PidfileIsAccounted` and `OnceUnlessOvertaken`.

`TypeOK` stands in every module; the run of `Admission` checks it as the part of an
inductive invariant, and the theorems below prove it where they are listed.  The runs of
the other modules spend their properties on what a type cannot say.

### Bounds, and why they are enough

* *Versions 2* (`MaxSeq`, `MaxVersions`; three in `Retirement`, where a version can
  have and lose the route and be granted it again while a third has it): the protocols relate a
  version to the one before it (join, re-admission, revision expectations, current and
  active version).  One admission allocates, fails, is collected and is admitted again
  within two.
* *Faults* (`MaxFaults`, `MaxErrors`, `MaxCrashes`, 1 to 3): one fault reaches every
  half-written state, a second meets the repair of the first.  Route and Retirement repair by
  repeating one idempotent projection.  `OwnerKeys` has three; the longest story of its files
  (see the observations) needs four, and its properties are proved for any number.
* *Calls of OwnerKeys 3*: a key is created, banned, and a third call overlaps with both.
* *Clock* (`MaxTime`, `TTL`, `Lifespan`, `Ttl`, `Retention`, `Expiry`, `Deadlines`): readings
  before, at and after the end of a lease, a snapshot, a replay row or a deadline.
* *Blobs 2*: an upload cut between blobs, and a retry that brings other blobs.
* *Commands of Route*: a first activation, a later version, the first lease once more under
  a new id, and a rollback that reuses an id with other content.
* *Requests of HostCalls*: two bodies that fight for each of two ids; `MaxOps` 2 claims, an
  `Envelope` in which two mutations of the greatest growth just fit.
* *Processes of SandboxRuntime* (`MaxProcs` 3, two pids, two sandboxes): an execution, one
  that takes its place, and a stranger or a third that takes a pid of either; `MaxMoves` 1 is
  the one change of virtual memory that makes a fence misjudge.  What is proved holds for any.
* *Candidates of SecretRotation 2*: one active and one prepared; `U53Max` 3 is where revisions
  are exhausted, with two rotations before.
* *Handlers of UserRoutes 2*: both are between any two system calls of each other; a third
  meets the same shared inode.
* *Watchdog*: `MaxPass` 1 counts passes modulo "this one or an earlier one", which is what a
  reuse is judged by; `MaxProcs` 2 with two pids lets a successor take the pid of the
  process that was measured; `RingMax` 1 drops events.  `QuickReuse = FALSE` says that a pid
  is not taken again in the pass, of some milliseconds, in which it was freed; with `TRUE`
  the last check and the signal can be split, and `EndsTheMeasured` fails as in
  any program that kills by number.
* *AdmissionPlane*: two applications, one with two versions, so that a route can claim
  one for the other kind; `ReadFaults = FALSE`, see the observations.

Symmetry is used where the elements are interchangeable and no liveness is checked: threads
and processes of `HostCalls`, handlers and applications of `UserRoutes`.

### Fairness

* Admission: calls run to their end, recovery runs at start-up, time passes, and the node is
  stopped and started again and again, because nothing else settles a nonterminal row.
* Delivery: work under the mutex runs to its end, the tick comes every ten seconds
  (`http.rs:241`), the supervisor serves what it was sent, stopped processes are started.
* SnapshotHandoff: a command that is pending again and again gets a round again and again
  (the tick walks the whole outbox), a round, the executor and the relay's threads go on
  (`WF`), the relay answers a frame, and the plane is started after it died (the entrypoint).
* Route: a call runs to its end and a stopped or fenced process is started.
* Retirement: both processes go on with what they hold, are started after a crash, and time
  passes.
* SecretRotation: a Kernel that crashed recovers; nothing else is owed.
* Watchdog: the thread goes on; nothing is assumed of the processes it watches.

In the run `snapshots` each fairness condition is asked of its own part only.

Faults are never fair, and finitely many.  No fairness is assumed of owners, of the
probe that issues leases, or of a Start being applied.  `CHECK_DEADLOCK FALSE` is
set where the bounded system really stops: `delivery` (every version is planned and
nothing is pending), `execution` with the violation runs of its two parts (claims used up;
processes used up and all stopped), `snapshots` with its violation run (every command
settled, processes used up) and `retirement` (activations used up, drains settled).

### Observations

Behaviour that the models have because the code has it, met while modelling; no passing
property contradicts it, and each can be reproduced by stating the quoted promise as a
property of the module named.

* `Admission`: recovery looks at the lease before the control database and fails a row that
  is visible already (`wasm_admission.rs:1370`; the admission spec has failed rows
  unreadable, `spec.md:304`).  The temporary file of an interrupted upload makes every
  retry under the same prefix fail verification (`wasm_runtime.rs:456`, `spec.md:299`).
* `CommandDelivery`: a command planned from a stale journal hint is rejected for ever
  (`wasm_runtime.rs:2553`, `2597`, `4370`; `tests/wasm_execution_delivery.rs:1246` expects an
  answer).  A Start runs after its Prepare was rejected, because the fence decision is
  adopted before the effect (`wasm-executor.ts:686`, comment at `:970`).  A failed write of
  the fences file after planning leaves a started version that no periodic round opens
  (`wasm_runtime.rs:2691`).
* `Route`: re-activating a routed version by a fresh lease is granted and can never be
  projected (`wasm_runtime.rs:3691`, comment at `:3451`).  Admitting a version takes the active
  one off the public route until the new one is started (`wasm_runtime.rs:2663`, `spec.md:878`).
  A lease is judged by a clock read before the projection and a delivery round (`:3399`).
* `OwnerKeys`: the event of an acknowledged create can be glued to a torn line and lost
  (`keys.rs:568`, owner-key-management `spec.md:57`).  An aborted call can be served: the
  event cannot be logged, the rollback is renamed but not synced, after a restart the aborted
  line is written but its sync fails, and then the power goes; the snapshot of the call is
  back, and start-up takes its aborted line for its event, because `audit_txn_lookup` looks
  at the transaction and not at the action.  `ServedIsAudited` therefore asks for a line of
  the call and not for its event.  A `keys.json` that cannot be read when the store is opened,
  or whose existence cannot be asked, is an empty store that is not damaged (`keys.rs:247`,
  `:267`), although the comment at `:242` has a missing or damaged file refuse everything: the
  next create writes a snapshot without the earlier keys and bans.  The properties of the keys
  are promised where no start was blind in this way.
* `AdmissionPlane`: a read error of the index file is taken for an absent index, and the
  claims are lost (`wasm_kind_registry.rs:315`, against `:362`); with `ReadFaults = TRUE`,
  `Projected` and `StartupConverges` fail.
  The identity is read again at each submission though the gate was evaluated once
  (`wasm_runtime.rs:3105`).  The revision a submission compares is the one it has just read.
  A binding has to pin host ABI 1.0.0 (`wasm_admission.rs:786`), a record of the third version
  and its identity 1.1.0 (`wasm_publication.rs:463`), and a submission compares the two
  (`wasm_runtime.rs:3150`): under such a record the code admits nothing.  The model has one
  value for all pins of an identity and admits there too, so that its safety properties say
  more than the code needs.
* `SnapshotHandoff`: only a spawn consumes a handoff, so the descriptors of every Prepare and
  of every failed Start stay in the relay (`handoff.rs:104`).  An expired snapshot keeps its
  command pending for ever (`wasm_runtime.rs:2727`).  A spawn whose answer times out leaves
  a child that nobody addresses (`wasm-runtime.ts:169`, `:206`).  The Kernel waits for a
  frame's acknowledgement without a timeout (`wasm_snapshot_fd.rs:818`).  A Start whose
  ingress failed leaves its process running and is executed again (violation run
  `handoff_spawned_once`).  A child that exits
  before `Register` stays listed as running (`spawn.rs:202`).
* `Retirement`: the drain deadline is always null today (`wasm_runtime.rs:2418`), so the running
  node plans no Drain; `project_drain_receipt` (`:3901`) is called by tests only.  Once it
  has run, the ledger file says `retired: true`, which the supervisor's own validator
  rejects (`wasm-executor.ts:412`), so later drains are rejected and the supervisor does not
  start.  A version is shown as retired on the word of `stopExecution`, which may be `stopped`
  with the process running (`wasm-runtime.ts:230`, `wasm-executor.ts:902`).  A Drain that is
  delivered between the second and the third file of a save is rejected for ever.  A deadline
  that passed before a restart fences the start-up.
* `SecretRotation`: a rotation at the last revision leaves the mutation fence taken until
  the next recovery (`wasm_secrets.rs:157`).
* `UserRoutes`: two handlers over one temporary file can publish a mixture that no reader
  parses until the next restart (`routes.rs:184`, comment "atomic write" at `:183`); two
  overlapping changes can lose one; and a restart replaces the file by its seed.
* `HostCalls`: an SQL mutation that committed is answered with an error if it cannot be
  measured or finalised; one row left claimed by a failed `complete_replay` makes the next
  recovery quarantine a key that was written since; the next generation of an application
  cannot open files with completed replay rows of the last (`mod.rs:603`, against
  `design.md:156`).  Two processes of an application share the databases without a lock: the
  recovery of one releases claims and reservations that calls of the other hold
  (`mod.rs:562`, `:315`; violation run `host_calls_at_most_once`), and a file may be written
  between the measurement and the finalisation of the other (`quota.rs:490`).
* `SandboxRuntime`: `readStartTicks` takes the virtual memory for the start time
  (`wasm-runtime.ts:108`, violation run `runtime_stops_its_own`).  A process whose pidfile
  cannot be written is neither stopped nor tracked (`:212`).  A spawn that fails after its pause
  removes the pidfile whosever pid it has by then (`:221`).
* `Watchdog`: an older execution of an application, whose pidfile was overwritten, is never
  measured; samples of applications whose pidfile vanished are kept.

## Proofs

The theorems hold for every value of the constants that meets the assumptions named in the
modules (bounds are natural numbers, requests are well formed, there are finitely many
handlers, `None`, `Nothing` and `Nobody` are no values), where TLC looks at the small
instances above.  Every safety property that a run checks is the statement of a theorem.
Each module has one lemma per action, and an `Invariance` or its like that puts them
together; an action property follows from the invariant in the state where the step begins.

| Theorem | States |
|---|---|
| `AdmissionProofs`: `TypeCorrect`, `JournalNeverAheadHolds`, `AckedStaysVisibleHolds`, `VisibleHasWitnessesHolds`, `OneInFlightHolds` | `Spec => []P` for the property in the name |
| `AdmissionProofs`: `NoLatePublicationHolds`, `SequenceNeverReusedHolds` | the action properties, `Spec => P` |
| `AdmissionProofs`: `RefinesLedger` | `Spec => ImplementsLedger` |
| `PlaneProofs`: `PlaneTyped`, `NeverBothKindsHolds`, `AdmittedIsAcceptedHolds` | types, `[]NeverBothKinds`, `AdmittedIsAccepted`, also if reads of the index fail |
| `PlaneProofs`: `ProjectedHolds`, `StartupConvergesHolds` | `[]Projected`, `StartupConverges`, assuming `~ReadFaults` |
| `SnapshotProofs`: `RotationTyped`, `FenceIsCommitted`, `StaleAreStoppedHolds` | types, `fence <= revision`, `[]StaleAreStopped` |
| `SnapshotProofs`: `HandoffInvariance`, `EveryChildHasItsSnapshots`, `StartsRespawnOnlyUnserved` | the inductive invariant, `[]ChildHasItsSnapshots`, `[]RespawnsOnlyUnserved` |
| `SnapshotProofs`: `RefinesPromise` | `Spec => ImplementsPromise` |
| `SnapshotProofs`: `PidfileStaysAccounted` | `RuntimeSpec => [](RuntimeTypeOK /\ PidfileIsAccounted)` |
| `KeysProofs`: `KeysTyped`, `AcknowledgedHoldsAlways`, `ServedIsAuditedHolds`, `TellsApartHolds` | `KeysSpec => []P` for types and each property of the keys |
| `RouteProofs`: `RouteTyped`, `OneGrantAheadHolds`, `RefinesAuthority` | types, `[]OneGrantAhead`, `Spec => ImplementsAuthority` |
| `RouteProofs`: `RegistryStaysLawful`, `LoneChangesAreExact` | `RoutesSpec => []RegistryIsLawful`, `RoutesSpec => LoneChangeIsExact` |
| `RetirementProofs`: `RetirementIsTyped`, `RoutesAreNotDrained`, `RetiredVersionsHaveProof` | types, `[]RouteIsNotDrained`, `[]RetiredHasProof` |
| `RetirementProofs`: `RefinesSuccession` | `Spec => ImplementsSuccession` |
| `RetirementProofs`: `WatchdogEndsTheMeasured` | `EndsTheMeasured` assuming `~QuickReuse` |
| `DeliveryProofs`: `DeliveryTyped`, `ExecutedOnceHolds`, `RefinesOutcome` | types, `[]ExecutedOnce`, `Spec => ImplementsOutcome` |
| `HostCallsProofs`: `HostTyped` | types |
| `HostCallsProofs`: `OnceUnlessOvertakenHolds`, `AccountedHolds`, `AnswersAreTrueHolds` | `[]OnceUnlessOvertaken`, `[]Accounted`, `[]AnswersAreTrue` |

**Admission.**  The inductive invariant `IInv` is `TypeOK /\ TxAgrees /\ StoresAgree
/\ JournalNeverAhead /\ SameInFlight /\ AckedStaysVisible`.  `JournalNeverAhead` alone is
not inductive: a step that records "object complete" relies on the transaction having
written the marker, which only `TxAgrees` (what the program counter of the transaction in
memory implies about the stores) says; a handoff repeated after a crash relies on whatever
the stores hold carrying the proof of the journal row, which is `StoresAgree`; and a
re-admission relies on there being one row in flight, `SameInFlight`, from which
`OneInFlight` follows by a lemma on finite cardinalities.

**Refinement of the ledger.**  No step of the admission touches more than one version, as a
reader sees it.  The proof therefore names what a step can make of one version
(`Opened`, `Published`, `Confirmed`, `Rejected`, `Withdrawn`, or nothing), shows once that
such a step is one of the ledger or a stutter (`OneVersion`), and shows for each action
which of them it is.  `IInv` is needed to know the state a version changes from.

**Admission plane.**  Two arguments are kept apart.  That nothing is of both kinds rests on
the start-up looking at the seed once everything visible is known, and on each submission
looking again (`Unseeded`).  That the stores never run ahead of each other rests on every
writer knowing what the earlier stores hold (`SubmitKnows`, `HalfIsNew`, `Converged`) and on
the index being written back as it was read (`IndexIsLoaded`), which is where a failed read
is excluded.  `AdmittedIsAccepted` needs that the gate names the identity of the boot unless
it was replaced (`GateNamesIdentity`) and that a submission in work passed it (`Passed`).

**Secret rotation.**  `StaleAreStopped` is inductive only with the fence not being ahead of
the committed revision: a candidate is prepared at the committed one, so a fence ahead of it
would find it stale at birth.

**Owner keys.**  Start-up never changes the snapshot it reads, so everything rests on which
directories a power loss may leave: each shows the effect of every acknowledged call, and
nothing the log was not told of unless the intent that says so lies beside it
(`DirectoriesInv`).  A commit keeps that because of what its holder knows (`HolderInv`,
`StageInv`: from the second intent on every such directory has the new snapshot, and the
intent is removed only after the line).  A call that queued while another one failed starts
from the memory of a damaged store, and `MemoryInv` says why that is harmless: that memory
still shows every acknowledged call.  All this ends with a start that missed the snapshot:
the three properties and the invariant behind them are of stores that are not `blind`, and
only the types are proved beyond.

**Route.**  That the granted events are one line (`LineInv`: the i-th has generation i,
expects i - 1 and names the pointer before it, by a lease it consumed) needs that a verdict
is given only when everything granted is projected (`TaskInv`), which the code gets by
projecting before it judges, under the mutex; that the route is at the end of the line or
one behind (`RouteInv`) is what a crash between the two files leaves.  Only a projection, a
grant and a refusal are steps of `RouteAuthority`; `EveryStep` shows that the rest stutter.

**Delivery.**  Three facts carry both results.  The outbox is filled in one order, also
across a pass that a crash or an I/O error cut short, so that version v has commands 2v - 1
and 2v and no others (`ShapeInv`; `NextCommand` is the step that needs it).  Whatever is at
the supervisor in execution is alone there for its command, between its journal entries, and
what is answered is completed (`ExecutionInv`).  And what a round is about to write was true
when it was read and stays true until it is written (`RoundInv`): the journal only grows,
and an abandoned request cannot touch what the Kernel holds.  Planning is then `Authorize`,
the end of an execution `Decide`, an acknowledgement `Tell`, a fence that opens, in a round
or by healing, `OpenFence`; the rest stutters.

**Host calls.**  That a request has one row (`RowsInv`) is kept by every step; that this
means one mutation needs that a row with a marker is never released.  A recovery releases a
claim only where it finds no marker, and that is not final, because the call it belongs to
may still be running in another process and commit.  `SharedInv` says what is left then:
an operation with a marker has its row or was overtaken, the ledger is behind a file only
where a reservation is open or the operation was outrun, and what a call relies on (its
claim, its reservation, the size it measured) is as it left it or the operation is in one of
the two sets.  `CallInv` has the locks that a process holds from reservation to finalisation.
`AnswersAreTrue` needs one thing more, that whatever is said of an operation stays said
(`TrueInv`): a completed row is never rewritten, a call that completes or answers says what
the row and the marker say, and every answer given has its row; a call whose claim was
released finds no row to complete and answers nothing.  No theorem assumes that executions
do not overlap.

**Snapshot handoff.**  That a process has the descriptors of its command follows from where
descriptors come from: frames and rounds are only of kinds that the command names
(`SnapshotsInv`), and a spawn request is queued only when the handoff is complete, which it
stays until the fork, because a frame only adds to it and what takes from it (the consumption
after a spawn, a crash) leaves no queued request (`SpawnInv`).  That a
Start is spawned again only after its ingress failed rests on memory: whoever has a request
or a process that is not `unserved` is remembered by the executor that waits for it, or by
an outcome (`RememberedInv`), and an execution begins only where there is neither.
`CommandDelivery` decides a command in one step; here the command passes the relay and a
child, with everything that can fail between them, and the owner is still promised the same
(`ImplementsPromise`, fences left out): what is in execution has no result in the journal, so
a result is written once, and what the Kernel acknowledged is that result (`OutcomeInv`).

**User routes.**  Handlers overwrite each other's registries, so no single one of them is
right; what is inductive is that each is lawful, in an inode as in the hands of a handler, and
that a change is checked before it is opened for writing (`LawfulInv`).  A body that two
handlers mixed cannot be read, and a half-written one neither.  For the second property, a
handler that met no other finds `routes.json` as it loaded it and `routes.tmp` as it left it
(`AloneInv`).  An open that finds no temporary file needs a free inode, which there is because
there are more inodes than names and handlers.

**Retirement.**  A mutation is saved in three writes, and a crash or a failed write may leave
any prefix of them.  `SavingInv` says what that means: what is about to be written agrees with
itself, and the file that is still the old one has a shorter outbox of the same drains
(`Extends`), so that a record never names a drain that the outbox lacks.  The route is not
drained because a drain is of an earlier grant, which holds a lease that is not granted again
(`ControlInv`).  Retired means proved because the supervisor writes a receipt after the stop
was answered (`SupervisorInv`) and the Kernel projects only a receipt of its own command; that
the process has ended follows only for a receipt that says so by force.  That the bounded
command ids suffice for all this is part of the invariant (`Planned`): an event is planned
once, and once more for every fault that lost its record.  The refinement of `Succession`
adds what the control file remembers: leases are held by exactly the versions that had the
route (`HistoryInv`), and a mutation on its way is one of four changes (`Moves`), so that its
first write is a step of `Succession` or none and the other two are stutters.

**Sandbox runtime.**  `PidfileIsAccounted` is inductive with the types: the pidfile is written
with a process that is then settling, becomes tracked under the same pid, and is forgotten
only together with a pidfile that names it.  It owes nothing to what the fence compares.

**Watchdog.**  For `EndsTheMeasured` the invariant says that between the two reads of a
sample, and between the check of the start time and the kill, nobody else can have the pid
(`StillItsPid`); that is where a quick reuse of a freed pid is excluded, against which the
code has no defence and which the bounds name.

Only model-checked: liveness (`Settles` of `Admission` and of `CommandDelivery`, `FenceHeals`,
`PublishedAfterRestart`, `HandoffSettlesInTime`, `EveryCommitFences`, `TrackedAfterRestart`,
`DrainsSettle`, `OverLimitEnds`), because fairness and ENABLED are beyond the prover.

## Not modelled

* Loss of power in the wasm stores: `atomic_write` does not sync, and the models keep whatever
  was renamed.  Only `OwnerKeys` loses what was not synced.  `LoseBinding` of `AdmissionPlane`
  is a binding that is missing, whatever took it, because recovery looks for exactly that
  (`wasm_kind_registry.rs:535`); an index that is lost with it is not modelled.
* In `OwnerKeys`: expiry, secrets and their comparison, collisions of key names, the dropping
  of the oldest audit segment, a line that was cut exactly before its newline, audit
  lines that a power loss takes back, and the monitor sessions that a ban closes.
* The torn last line of the admission journal, and several applications in one journal.
* `pending` intents of the activation state: the running code passes no crash point, and the
  file is replaced by one write, so `repair_uncertain_activation` never finds one.
* Rollback succeeds only after a rollback has succeeded (retention is read before it is ever
  written); `Route` keeps the guard, and no run reaches a successful rollback.
* Stop commands, which nothing in the Kernel plans, and the idle handling of the executor.
* In `HostCalls`: reads, cursors and lists, the content of the log ring, values and digests.
* The end of a wasmd process in `Route` and `CommandDelivery`: nothing tells the Kernel of it
  (`wasm_runtime.rs:2446` is the only writer of a fence's `alive`, and it writes `true`).
* CPU windows of the watchdog (`sampling.rs:170`), monitor feed, metrics, proxying of bytes.
* Catalog store, host backup and logging projection of the supervisor: not part of the running
  node; the catalog store is the next component of the plan.
* Canonical JSON, digests, grammars and signatures: records are compared as values, and a
  malformed record is one that fails its check.
* Components marked `not_modelled` in PROJECT.json, with the reason there.

## Plan

1. `Node`: composition of admission, delivery and activation for two versions, with the
   control file v2 shared by all three, and one abstract life of a version.
2. `CatalogStore`; `AdmissionJournalFile`, the journal as lines with a torn tail, refining the
   rows of `Admission`.

## Running

    while read cfg spec; do
      tlc -workers 2 -config $cfg.cfg $spec
    done <<'END'
    MCAdmission MCAdmission
    CommandDelivery CommandDelivery
    MCRoute MCRoute
    Registries MCRegistries
    Execution MCExecution
    Snapshots MCSnapshots
    Retirement MCRetirement
    Watchdog Watchdog
    KeysRecoveryTellsApart OwnerKeys
    HandoffSpawnedOnce MCSnapshots
    RuntimeStopsItsOwn SandboxRuntime
    HostCallsAtMostOnce MCHostCalls
    END
    for m in AdmissionProofs PlaneProofs SnapshotProofs KeysProofs RouteProofs \
             DeliveryProofs HostCallsProofs RetirementProofs; do
      tlapm $m.tla
    done
