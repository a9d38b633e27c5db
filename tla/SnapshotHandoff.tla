-------------------------- MODULE SnapshotHandoff --------------------------
(***************************************************************************)
(* How a command's secret and config get into the process that runs the    *)
(* application.                                                            *)
(*                                                                         *)
(* Before the Kernel sends a Prepare or a Start over HTTP, it passes an    *)
(* open, read-only descriptor of each snapshot to the relay, one framed    *)
(* packet each, and waits for an acknowledgement                           *)
(* (wasm_snapshot_fd.rs).  The relay, a child of the supervisor, keeps     *)
(* them by command id in memory.  The executor of a Start looks at what    *)
(* the relay keeps, and has the relay fork wasmd with the descriptors in   *)
(* slots 3 and 4; only the relay can wait for that process, and only the   *)
(* supervisor knows which pid belongs to which execution.                  *)
(*                                                                         *)
(* A snapshot has an expiry, fixed when its Prepare is planned.  The relay *)
(* and the supervisor fail together: the entrypoint then kills what is     *)
(* left of the execution plane and starts it again, and only the           *)
(* supervisor's journal survives.                                          *)
(*                                                                         *)
(* The contents of a snapshot are named by its command, so the digest      *)
(* checks of three processes are one check of who holds what; a frame      *)
(* that fails one is a fault.  Today's planner writes config revision 0 in *)
(* every command; the code below it, and this module, serve both cases.    *)
(* Whether a command is stale is judged in CommandDelivery.                *)
(***************************************************************************)
EXTENDS Naturals, Sequences, FiniteSets

CONSTANTS
    Commands,     \* commands in the Kernel's outbox
    Starts,       \* those that are Starts; the others are Prepares
    Configured,   \* those with a config revision above 0
    Expiry,       \* when the snapshots of a command expire
    MaxTime,      \* the clock (bound of the model)
    MaxPids,      \* processes ever forked (bound of the model)
    MaxFaults,    \* crashes, lost answers and I/O errors (bound of the model)
    None

(* The expiry of a snapshot is part of its reference: fixed when the command is
   planned, and never renewed. *)
Expiries == [Commands -> Nat]

ASSUME CommandsAssumption ==
    /\ Starts \subseteq Commands /\ Configured \subseteq Commands
    /\ Expiry \in Expiries
ASSUME BoundsAssumption == {MaxTime, MaxPids, MaxFaults} \subseteq Nat

VARIABLES
    acked,      \* control state: the result acknowledged to the Kernel, by command
    round,      \* the command the Kernel is delivering, if any
    journal,    \* supervisor journal: none, received, or the result, by command
    exec,       \* supervisor: the execution in flight of a command
    outcome,    \* supervisor: findAppliedOutcome
    addressed,  \* supervisor: the pid an execution is addressed by
    wire,       \* the frames at the relay's fd socket, served one at a time
    held,       \* relay: the descriptors kept for a command
    threads,    \* relay: spawn requests being served
    reported,   \* relay: ChildTable
    children,   \* wasmd processes forked since the plane started, and what they got
    life,       \* starts of the execution plane
    up,         \* whether it runs
    now,
    faults

supervisor == <<exec, outcome, addressed>>
relay == <<wire, held, threads, reported>>
plane == <<supervisor, relay, children>>
vars == <<acked, round, journal, plane, life, up, now, faults>>

Kinds == {"secret", "config"}
Wanted(c) == {"secret"} \cup IF c \in Configured THEN {"config"} ELSE {}

Failures == {"missing", "expired", "failed"}
Results == {"applied"} \cup Failures
Pids == 1..MaxPids
Frames == [cmd : Commands, kind : Kinds]
Rounds == [cmd : Commands, step : Kinds \cup {"ack", "http", "reply"}, life : Nat]
Executions == [at : {"lookup", "spawn", "settle", "done"}, pid : Pids \cup {None}, life : Nat]
Threads == [cmd : Starts, at : {"queued", "forked", "consumed"}, pid : Pids \cup {None}]
Children == [cmd : Starts, fds : SUBSET Kinds, state : {"running", "zombie", "reaped"},
             unserved : BOOLEAN]   \* whether the ingress in front of it failed to start
Statuses == [pid : Pids, exited : BOOLEAN]

ASSUME NoneAssumption == None \notin Results \cup Executions \cup Nat

(* A relay starts with an empty table of handoffs. *)
EmptyTable == [c \in Commands |-> {}]

Init ==
    /\ acked = [c \in Commands |-> None] /\ round = None
    /\ journal = [c \in Commands |-> "none"]
    /\ exec = [c \in Commands |-> None] /\ outcome = exec /\ addressed = exec
    /\ wire = <<>> /\ held = EmptyTable /\ threads = {} /\ reported = exec
    /\ children = <<>>
    /\ life = 1 /\ up = TRUE /\ now = 0 /\ faults = 0

Fault == faults < MaxFaults /\ faults' = faults + 1

-----------------------------------------------------------------------------
(* The Kernel: deliver_snapshots_before_execution, then the HTTP command.  A
   round queries the journal first and judges expiry by the clock it read. *)

KernelRest == UNCHANGED <<journal, plane, life, up, now>>
AtStep(c, step) == round # None /\ round.cmd = c /\ round.step = step
Settled(c) == journal[c] \in Results

BeginRound(c) ==
    /\ round = None /\ acked[c] = None /\ up /\ ~Settled(c)
    /\ now < Expiry[c]
    /\ round' = [cmd |-> c, step |-> "secret", life |-> life]
    /\ UNCHANGED <<acked, faults>> /\ KernelRest

(* The query finds the command completed: nothing is sent, also after expiry. *)
ProjectCompleted(c) ==
    /\ round = None /\ acked[c] = None /\ up /\ Settled(c)
    /\ acked' = [acked EXCEPT ![c] = journal[c]]
    /\ UNCHANGED <<round, faults>> /\ KernelRest

NextStep(c, kind) == IF kind = "secret" /\ c \in Configured THEN "config" ELSE "http"

SendFrame(c, kind) ==
    /\ AtStep(c, kind) /\ up
    /\ wire' = Append(wire, [cmd |-> c, kind |-> kind])
    /\ round' = [round EXCEPT !.step = "ack"]
    /\ UNCHANGED <<acked, journal, supervisor, held, threads, reported, children, life, up, now, faults>>

(* HandoffTable::accept.  The same handoff again gets the stored
   acknowledgement; it does not change what is held. *)
Bug_RefusesAgain(c, kind) == kind \notin held[c] /\ now < Expiry[c]
Accepts(c, kind) == now < Expiry[c]

(* The packet that the relay reads next. *)
Received == Head(wire)

(* The acknowledgement of the last frame is for the round that waits; an older
   one is of a round that was lost, and so is its connection. *)
Acked(f, ok) ==
    IF AtStep(f.cmd, "ack") /\ Len(wire) = 1
    THEN IF ok THEN [round EXCEPT !.step = NextStep(f.cmd, f.kind)] ELSE None
    ELSE round

(* The relay serves its fd socket: one connection, one frame, one answer. *)
HandleFrame ==
    /\ up /\ wire # <<>>
    /\ LET f == Received ok == Accepts(f.cmd, f.kind) IN
       /\ held' = IF ok THEN [held EXCEPT ![f.cmd] = @ \cup {f.kind}] ELSE held
       /\ round' = Acked(f, ok)
    /\ wire' = Tail(wire)
    /\ UNCHANGED <<acked, journal, supervisor, threads, reported, children, life, up, now, faults>>

(* A frame is refused for its form or for its descriptor. *)
RefuseFrame ==
    /\ up /\ wire # <<>> /\ Fault
    /\ round' = Acked(Received, FALSE)
    /\ wire' = Tail(wire)
    /\ UNCHANGED <<acked, journal, supervisor, held, threads, reported, children, life, up, now>>

(* The command arrives: received once, executed unless it is being executed. *)
Begins(c) ==
    [at |-> IF c \in Starts THEN "lookup" ELSE "done", pid |-> None, life |-> round.life]

Bug_ForgetsOutcome(c) == exec[c] = None
Executes(c) == exec[c] = None /\ outcome[c] = None

Deliver(c) ==
    /\ AtStep(c, "http") /\ up
    /\ journal' = [journal EXCEPT ![c] = IF @ = "none" THEN "received" ELSE @]
    /\ exec' = IF ~Settled(c) /\ exec[c] = None
               THEN [exec EXCEPT ![c] = IF Executes(c) THEN Begins(c) ELSE [Begins(c) EXCEPT !.at = "done"]]
               ELSE exec
    /\ outcome' = IF c \notin Starts /\ ~Settled(c) THEN [outcome EXCEPT ![c] = "applied"] ELSE outcome
    /\ round' = [round EXCEPT !.step = "reply"]
    /\ UNCHANGED <<acked, addressed, relay, children, life, up, now, faults>>

ReceiveReply(c) ==
    /\ AtStep(c, "reply") /\ Settled(c)
    /\ acked' = [acked EXCEPT ![c] = journal[c]]
    /\ round' = None
    /\ UNCHANGED faults /\ KernelRest

(* The wait for the answer ends: a timeout, the connection, or an error that
   left the command received. *)
GiveUp(c) ==
    /\ AtStep(c, "reply") /\ exec[c] = None /\ ~Settled(c)
    /\ round' = None
    /\ UNCHANGED <<acked, faults>> /\ KernelRest

(* No connection, with the plane down, or none any more. *)
Unreachable ==
    /\ round # None
    /\ ~up \/ (round.step = "ack" /\ wire = <<>>)
    /\ round' = None
    /\ UNCHANGED <<acked, faults>> /\ KernelRest

(* The Kernel waited too long, or restarts. *)
RoundLost ==
    /\ round # None /\ up /\ Fault
    /\ round' = None
    /\ UNCHANGED acked /\ KernelRest

-----------------------------------------------------------------------------
(* The executor of a Start, effectStart.  A failure is a result like another:
   it is remembered under the command and written to the journal. *)

Executing(c, at) == up /\ exec[c] # None /\ exec[c].at = at
Conclude(c, result) ==
    /\ exec' = [exec EXCEPT ![c].at = "done"]
    /\ outcome' = [outcome EXCEPT ![c] = result]
ExecutorRest == UNCHANGED <<acked, round, journal, wire, held, life, up, now>>

(* What the relay answers to a lookup decides. *)
Shown(c) == held[c]
Verdict(c) ==
    IF ~(Wanted(c) \subseteq Shown(c)) THEN "missing"
    ELSE IF now >= Expiry[c] THEN "expired" ELSE "spawn"

Lookup(c) ==
    /\ Executing(c, "lookup")
    /\ IF Verdict(c) = "spawn"
       THEN /\ exec' = [exec EXCEPT ![c].at = "spawn"]
            /\ threads' = threads \cup {[cmd |-> c, at |-> "queued", pid |-> None]}
            /\ UNCHANGED outcome
       ELSE Conclude(c, Verdict(c)) /\ UNCHANGED threads
    /\ UNCHANGED <<addressed, reported, children, faults>> /\ ExecutorRest

(* The relay does not answer the lookup or the spawn request in time; a thread
   of the relay that serves the request goes on. *)
RelayTimeout(c) ==
    /\ Executing(c, "lookup") \/ Executing(c, "spawn")
    /\ Fault /\ Conclude(c, "failed")
    /\ UNCHANGED <<addressed, threads, reported, children>> /\ ExecutorRest

(* spawnExecution after the answer: pidfile, a pause, and the process is either
   alive, and then addressed by this sandbox from now on, or was lost. *)
Settle(c) ==
    /\ Executing(c, "settle")
    /\ LET lives == children[exec[c].pid].state = "running" IN
       /\ addressed' = IF lives THEN [addressed EXCEPT ![c] = exec[c].pid] ELSE addressed
       /\ Conclude(c, IF lives THEN "applied" ELSE "failed")
    /\ UNCHANGED <<threads, reported, children, faults>> /\ ExecutorRest

(* The pidfile cannot be written: the Start is rejected, and the process stays
   without an address. *)
SettleFails(c) ==
    /\ Executing(c, "settle") /\ Fault /\ Conclude(c, "failed")
    /\ UNCHANGED <<addressed, threads, reported, children>> /\ ExecutorRest

(* The process is alive and has its address, and the ingress in front of it does
   not start.  This error is no RuntimeFailure: it is thrown again, nothing is
   remembered, and the command stays received, for a replay to execute. *)
IngressFails(c) ==
    /\ Executing(c, "settle") /\ children[exec[c].pid].state = "running" /\ Fault
    /\ addressed' = [addressed EXCEPT ![c] = exec[c].pid]
    /\ children' = [children EXCEPT ![exec[c].pid].unserved = TRUE]
    /\ exec' = [exec EXCEPT ![c] = None]
    /\ UNCHANGED <<outcome, threads, reported>> /\ ExecutorRest

Complete(c) ==
    /\ Executing(c, "done")
    /\ journal' = [journal EXCEPT ![c] = outcome[c]]
    /\ exec' = [exec EXCEPT ![c] = None]
    /\ UNCHANGED <<acked, round, outcome, addressed, relay, children, life, up, now, faults>>

(* The journal cannot be written: the command stays received. *)
CompleteFails(c) ==
    /\ Executing(c, "done") /\ Fault
    /\ exec' = [exec EXCEPT ![c] = None]
    /\ UNCHANGED <<acked, round, journal, outcome, addressed, relay, children, life, up, now>>

(* A Drain of the execution, once its Start was applied: the process addressed
   by the sandbox is stopped, within a deadline or by force. *)
Drain(c) ==
    /\ up /\ c \in Starts /\ journal[c] = "applied" /\ addressed[c] # None
    /\ children' = [children EXCEPT ![addressed[c]].state = IF @ = "running" THEN "zombie" ELSE @]
    /\ addressed' = [addressed EXCEPT ![c] = None]
    /\ UNCHANGED <<acked, round, journal, exec, outcome, relay, life, up, now, faults>>

-----------------------------------------------------------------------------
(* The relay: one thread per control connection, and the reaper. *)

RelayRest == UNCHANGED <<acked, round, journal, outcome, addressed, wire, life, up, now>>
Become(t, at) == threads' = (threads \ {t}) \cup {[t EXCEPT !.at = at]}

(* fork under the lock of the table: the child has what is held. *)
Bug_ForgetsConfig(t) == {"secret"}
Descriptors(t) == held[t.cmd]

Fork(t) ==
    /\ t.at = "queued" /\ "secret" \in held[t.cmd] /\ Len(children) < MaxPids
    /\ children' = Append(children, [cmd |-> t.cmd, fds |-> Descriptors(t),
                                    state |-> "running", unserved |-> FALSE])
    /\ threads' = (threads \ {t}) \cup {[t EXCEPT !.at = "forked", !.pid = Len(children')]}
    /\ UNCHANGED <<exec, held, reported, faults>> /\ RelayRest

(* The program is not executable, the fork fails, or nothing is held: an error
   is the answer. *)
ForkFails(t) ==
    /\ t.at = "queued"
    /\ IF "secret" \in held[t.cmd] THEN Fault ELSE UNCHANGED faults
    /\ threads' = threads \ {t}
    /\ IF exec[t.cmd] # None /\ exec[t.cmd].at = "spawn"
       THEN Conclude(t.cmd, "failed") ELSE UNCHANGED <<exec, outcome>>
    /\ UNCHANGED <<acked, round, journal, addressed, wire, held, reported, children, life, up, now>>

Consume(t) ==
    /\ t.at = "forked"
    /\ held' = [held EXCEPT ![t.cmd] = {}]
    /\ Become(t, "consumed")
    /\ UNCHANGED <<exec, reported, children, faults>> /\ RelayRest

(* ChildTable::register, and the answer, if the executor still waits for it. *)
Register(t) ==
    /\ t.at = "consumed"
    /\ reported' =
         IF reported[t.cmd] # None /\ reported[t.cmd].exited THEN reported
         ELSE [reported EXCEPT ![t.cmd] = [pid |-> t.pid, exited |-> FALSE]]
    /\ threads' = threads \ {t}
    /\ exec' = IF exec[t.cmd] # None /\ exec[t.cmd].at = "spawn"
               THEN [exec EXCEPT ![t.cmd].at = "settle", ![t.cmd].pid = t.pid] ELSE exec
    /\ UNCHANGED <<held, children, faults>> /\ RelayRest

(* A process ends: by a fault, or because another one of its command has the
   address that it was told to listen at. *)
Contended(p) ==
    \E q \in DOMAIN children \ {p} :
        children[q].cmd = children[p].cmd /\ children[q].state = "running"

ChildExits(p) ==
    /\ up /\ children[p].state = "running"
    /\ IF Contended(p) THEN UNCHANGED faults ELSE Fault
    /\ children' = [children EXCEPT ![p].state = "zombie"]
    /\ UNCHANGED <<acked, round, journal, supervisor, relay, life, up, now>>

(* waitpid and record_exit: an exit is recorded where its pid is registered. *)
Reap(p) ==
    /\ up /\ children[p].state = "zombie"
    /\ children' = [children EXCEPT ![p].state = "reaped"]
    /\ reported' = [c \in Commands |->
           IF reported[c] # None /\ reported[c].pid = p THEN [reported[c] EXCEPT !.exited = TRUE]
           ELSE reported[c]]
    /\ UNCHANGED <<exec, held, threads, faults>> /\ RelayRest

-----------------------------------------------------------------------------
(* The execution plane goes as one, and its processes with it. *)

PlaneCrash ==
    /\ up /\ Fault /\ up' = FALSE
    /\ exec' = [c \in Commands |-> None] /\ addressed' = exec' /\ reported' = exec'
    /\ outcome' = [c \in Commands |-> IF Settled(c) THEN journal[c] ELSE None]
    /\ wire' = <<>> /\ held' = EmptyTable /\ threads' = {} /\ children' = <<>>
    /\ UNCHANGED <<acked, round, journal, life, now>>

PlaneStart ==
    /\ ~up /\ up' = TRUE /\ life' = life + 1
    /\ UNCHANGED <<acked, round, journal, plane, now, faults>>

Tick ==
    /\ now < MaxTime /\ now' = now + 1
    /\ UNCHANGED <<acked, round, journal, plane, life, up, faults>>

KernelStep(c) ==
    \/ BeginRound(c) \/ ProjectCompleted(c)
    \/ \E kind \in Kinds : SendFrame(c, kind)
    \/ Deliver(c) \/ ReceiveReply(c) \/ GiveUp(c)
ExecutorStep(c) ==
    \/ Lookup(c) \/ RelayTimeout(c) \/ Settle(c) \/ SettleFails(c)
    \/ IngressFails(c)
    \/ Complete(c) \/ CompleteFails(c) \/ Drain(c)
RelayStep ==
    \/ HandleFrame \/ RefuseFrame
    \/ \E t \in threads : Fork(t) \/ ForkFails(t) \/ Consume(t) \/ Register(t)
    \/ \E p \in DOMAIN children : ChildExits(p) \/ Reap(p)

Next ==
    \/ \E c \in Commands : KernelStep(c) \/ ExecutorStep(c)
    \/ Unreachable \/ RoundLost \/ RelayStep \/ PlaneCrash \/ PlaneStart \/ Tick

Spec == Init /\ [][Next]_vars

(* The Kernel's ticker starts a round for every pending command again and again
   and a round does not stop by itself; the executor, the relay's threads and
   the entrypoint do not either.  The clock and the faults are not fair. *)
Advance(c) ==
    \/ BeginRound(c) \/ ProjectCompleted(c) \/ Deliver(c) \/ ReceiveReply(c) \/ GiveUp(c)
    \/ \E kind \in Kinds : SendFrame(c, kind)
Proceed(c) == Lookup(c) \/ Settle(c) \/ Complete(c)
Serve(c) == \E t \in threads : t.cmd = c /\ (Fork(t) \/ Consume(t) \/ Register(t))
Fairness ==
    /\ \A c \in Commands : /\ SF_vars(BeginRound(c)) /\ SF_vars(ProjectCompleted(c))
                           /\ WF_vars(Advance(c)) /\ WF_vars(Proceed(c)) /\ WF_vars(Serve(c))
    /\ WF_vars(Unreachable) /\ WF_vars(PlaneStart) /\ WF_vars(HandleFrame)
FairSpec == Spec /\ Fairness

-----------------------------------------------------------------------------
(* Properties. *)

(* The state of the handoff: an executor waits for a pid only where a thread
   or an answer can give it one, and nothing is kept by a plane that is down. *)
TypeOK ==
    /\ acked \in [Commands -> Results \cup {None}]
    /\ round \in Rounds \cup {None}
    /\ journal \in [Commands -> Results \cup {"none", "received"}]
    /\ exec \in [Commands -> Executions \cup {None}]
    /\ outcome \in [Commands -> Results \cup {None}]
    /\ addressed \in [Commands -> Pids \cup {None}]
    /\ wire \in Seq(Frames)
    /\ held \in [Commands -> SUBSET Kinds] /\ threads \subseteq Threads
    /\ reported \in [Commands -> Statuses \cup {None}]
    /\ children \in Seq(Children) /\ Len(children) <= MaxPids
    /\ life \in Nat /\ up \in BOOLEAN /\ now \in 0..MaxTime /\ faults \in 0..MaxFaults
    /\ \A c \in Commands : Executing(c, "settle") => exec[c].pid \in DOMAIN children
    /\ ~up => \A c \in Commands : exec[c] = None /\ held[c] = {}

(* A Start that is replayed, because its completion could not be written or its
   answer was lost, forks no second process: the re-sent snapshots find the
   remembered outcome, not a new execution.  The one exception is a process whose
   ingress did not start: every earlier process of a command is one of these. *)
RespawnsOnlyUnserved ==
    \A p, q \in DOMAIN children :
        p < q /\ children[p].cmd = children[q].cmd => children[p].unserved

(* What the comments at wasm-executor.ts:722 and :799 say, and the code does not
   do: whatever fails in a Start, its replay forks no second process. *)
SpawnedOnce ==
    \A c \in Starts : Cardinality({p \in DOMAIN children : children[p].cmd = c}) <= 1

(* Every process has the descriptors of the snapshots its command names, all of
   them and no other: slot 4 is closed if and only if there is no config. *)
ChildHasItsSnapshots ==
    \A p \in DOMAIN children : children[p].fds = Wanted(children[p].cmd)

(* The life of a command as the Kernel's owner sees it, here with every failure of
   the relay and of the child between its steps; fences are in CommandDelivery. *)
Promise == INSTANCE CommandOutcome WITH
    Versions <- Starts,
    starts   <- [c \in Starts |-> IF journal[c] = "none" THEN {} ELSE {c}],
    decided  <- [c \in Commands |->
                   IF journal[c] = "received" THEN "open"
                   ELSE IF journal[c] \in Failures THEN "rejected" ELSE journal[c]],
    told     <- {c \in Commands : acked[c] # None},
    open     <- {}
ImplementsPromise == Promise!Spec

(* A command is acknowledged, applied or rejected, unless its snapshots expire
   first: a frame whose acknowledgement was lost can be sent again, and a
   restart of the plane only costs the handoff. *)
SettlesInTime ==
    \A c \in Commands : (acked[c] = None) ~> (acked[c] # None \/ now >= Expiry[c])

=============================================================================
