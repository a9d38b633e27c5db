-------------------------- MODULE CommandDelivery --------------------------
(***************************************************************************)
(* How the Kernel gets a visible version executed.  It plans a Prepare and *)
(* a Start command into its outbox (wasm_runtime.rs), delivers them to the *)
(* supervisor over an RPC that may time out, and turns a Start that was    *)
(* applied into an alive fence.  The supervisor (wasm-control.ts) accepts  *)
(* a command by a compare-and-swap on the revision of its journal, runs it *)
(* (wasm-executor.ts) and records the outcome before it answers.           *)
(*                                                                         *)
(* The Kernel does everything under one mutex (http.rs): planning and      *)
(* rounds of delivery never interleave with each other, only with the      *)
(* supervisor, with requests the Kernel no longer waits for, and with      *)
(* crashes of either process.  Versions are numbered in the order of their *)
(* admission; a command is named by its place in the outbox; the revision  *)
(* of a journal entry is its place in the journal.                         *)
(***************************************************************************)
EXTENDS Naturals, Sequences, FiniteSets

CONSTANTS MaxVersions,  \* bound: versions that are admitted
          MaxFaults,    \* bound: crashes, timeouts, I/O errors and throws
          None          \* "no round"

ASSUME DeliveryBounds == MaxVersions \in Nat /\ MaxFaults \in Nat

Versions   == 1..MaxVersions
Operations == {"prepare", "start"}
Outcomes   == {"applied", "rejected"}

Entries == [version : Versions, op : Operations, expected : Nat,
            state : {"pending", "sent", "acknowledged"}]
Records == [kind : {"received"}, cmd : Nat]
             \cup [kind : {"completed"}, cmd : Nat, result : Outcomes]

(* One round of delivery, in the memory of the Kernel: `todo` are the commands
   not done with, `seen` the journal revision learnt so far, `kind` the RPC the
   current command calls for, `opens` whether its acknowledgement opens a
   fence, `heal` the fences the round has still to look at. *)
Steps  == {"query", "handoff", "await", "save-hint", "open-fence", "heal"}
Rounds == [todo : SUBSET Nat, step : Steps, seen : Nat, kind : {"command", "replay"},
           opens : BOOLEAN, heal : SUBSET Versions]

ASSUME NoRoundAssumption == None \notin Rounds

(* A request at the supervisor.  `late` is 0 while the Kernel waits for the
   answer, else the number of the fault after which it stopped waiting. *)
Phases   == {"queued", "joined", "effect", "applied", "rejected", "refused", "answered"}
Requests == [cmd : Nat, kind : {"command", "replay"}, late : 0..MaxFaults, phase : Phases]

VARIABLES
    visible,    \* how many versions are admitted and visible
    outbox,     \* control-state file: the commands, in the order of planning
    hint,       \* route-registry file: journal_head_hint
    fences,     \* fences file: none, preparing or alive, by version
    mode,       \* the Kernel process: down, starting, submitting or serving
    failed,     \* state_failure: owner mutations are refused until a restart
    planned,    \* fences planned in memory, not yet saved
    round,      \* the round of delivery in progress
    requests,   \* requests at the supervisor, and answers to the Kernel
    journal,    \* execution journal of the supervisor
    up,         \* the supervisor runs
    adopted,    \* its execution fences: none, prepared or running, by version
    cached,     \* its outcomes by command, applied, rejected or none
    faults      \* faults so far

kernelFiles == <<visible, outbox, hint, fences>>
kernel      == <<kernelFiles, mode, failed, planned, round>>
supervisor  == <<journal, up, adopted, cached>>
vars        == <<kernel, requests, supervisor, faults>>

Commands == DOMAIN outbox

-----------------------------------------------------------------------------
(* The journal as its readers see it. *)

Revision == Len(journal)
ReceivedAt(c)  == {i \in DOMAIN journal : journal[i].cmd = c /\ journal[i].kind = "received"}
CompletedAt(c) == {i \in DOMAIN journal : journal[i].cmd = c /\ journal[i].kind = "completed"}
Received(c)    == ReceivedAt(c) # {}
Completed(c)   == CompletedAt(c) # {}
Decided(c, r)  == \E i \in CompletedAt(c) : journal[i].result = r

(* The greatest of m and the revisions S: how the hint follows what it sees. *)
Latest(m, S) == CHOOSE n \in S \cup {m} : \A k \in S \cup {m} : k <= n

Planned(v, op) == {c \in Commands : outbox[c].version = v /\ outbox[c].op = op}
Pending        == {c \in Commands : outbox[c].state # "acknowledged"}
Applies(c)     == outbox[c].op = "start" /\ Decided(c, "applied")

Healable == {v \in Versions : /\ fences[v] = "preparing"
                              /\ \E c \in Planned(v, "start") : outbox[c].state = "acknowledged"}

-----------------------------------------------------------------------------
Init ==
    /\ visible = 0
    /\ outbox = <<>>
    /\ hint = 0
    /\ fences = [v \in Versions |-> "none"]
    /\ mode = "serving"
    /\ failed = FALSE
    /\ planned = {}
    /\ round = None
    /\ requests = {}
    /\ journal = <<>>
    /\ up = TRUE
    /\ adopted = [v \in Versions |-> "none"]
    /\ cached = [c \in 1..(2 * MaxVersions) |-> "none"]
    /\ faults = 0

Fault == faults < MaxFaults /\ faults' = faults + 1

-----------------------------------------------------------------------------
(* Planning: reconcile_visible_execution_state, one durable write at a time.
   The hint is read once, when the pass begins, and nothing changes it. *)

(* A submission makes one more version visible (module Admission), then plans. *)
Submit ==
    /\ mode = "serving" /\ round = None /\ ~failed
    /\ visible < MaxVersions
    /\ visible' = visible + 1
    /\ mode' = "submitting"
    /\ UNCHANGED <<outbox, hint, fences, failed, planned, round, requests, supervisor, faults>>

Planning == mode \in {"starting", "submitting"}
Unplanned == {v \in 1..visible : fences[v] = "none" /\ v \notin planned}
IsNext(v) == v \in Unplanned /\ \A w \in Unplanned : v <= w

Plan(v, op, expected) ==
    outbox' = Append(outbox, [version |-> v, op |-> op, expected |-> expected,
                              state |-> "pending"])

(* The first write of a version: its Prepare, expected at the hint. *)
PlanPrepare(v) ==
    /\ Planning /\ IsNext(v)
    /\ Planned(v, "start") = {} /\ Planned(v, "prepare") = {}
    /\ Plan(v, "prepare", hint)
    /\ UNCHANGED <<visible, hint, fences, mode, failed, planned, round,
                   requests, supervisor, faults>>

(* The second: its Start, where the journal will stand once the Prepare is
   received and completed, counted from the hint of this pass. *)
PlanStart(v) ==
    /\ Planning /\ IsNext(v)
    /\ Planned(v, "start") = {} /\ Planned(v, "prepare") # {}
    /\ Plan(v, "start", hint + 2)
    /\ planned' = planned \cup {v}
    /\ UNCHANGED <<visible, hint, fences, mode, failed, round, requests, supervisor, faults>>

(* A Start that an earlier pass wrote: only its fence is missing. *)
AdoptStart(v) ==
    /\ Planning /\ IsNext(v)
    /\ Planned(v, "start") # {}
    /\ planned' = planned \cup {v}
    /\ UNCHANGED <<kernelFiles, mode, failed, round, requests, supervisor, faults>>

Bug_SkipsSent ==
    [todo |-> {c \in Commands : outbox[c].state = "pending"}, step |-> "query",
     seen |-> hint, kind |-> "command", opens |-> FALSE, heal |-> {}]

NewRound == [todo |-> Pending, step |-> "query", seen |-> hint, kind |-> "command",
             opens |-> FALSE, heal |-> {}]

(* The fences are saved once, at the end; a submission and a start-up then
   both run a round of delivery before they release the mutex. *)
FinishPlanning ==
    /\ Planning /\ Unplanned = {}
    /\ fences' = [v \in Versions |-> IF v \in planned THEN "preparing" ELSE fences[v]]
    /\ planned' = {}
    /\ mode' = "serving"
    /\ round' = NewRound
    /\ UNCHANGED <<visible, outbox, hint, failed, requests, supervisor, faults>>

(* An I/O error ends the pass.  At start-up it is kept as the state failure; a
   submission only answers 503, and nothing plans again before the next one. *)
PlanningError ==
    /\ Planning /\ Fault
    /\ mode' = "serving"
    /\ planned' = {}
    /\ failed' = (mode = "starting")
    /\ UNCHANGED <<kernelFiles, round, requests, supervisor>>

-----------------------------------------------------------------------------
(* A round of delivery: run_outbox_delivery. *)

(* The convergence tick of http.rs; it asks for no state failure. *)
BeginRound ==
    /\ mode = "serving" /\ round = None
    /\ Pending # {} \/ Healable # {}
    /\ round' = NewRound
    /\ UNCHANGED <<kernelFiles, mode, failed, planned, requests, supervisor, faults>>

(* The commands are visited in the order of the outbox. *)
Current == CHOOSE c \in round.todo : \A d \in round.todo : c <= d

InStep(step) == round # None /\ round.step = step
Visiting(step) == InStep(step) /\ round.todo # {}

(* record_delivery_attempt: the command stays, and its entry says "sent". *)
RecordAttempt(seen) ==
    /\ outbox' = [outbox EXCEPT ![Current].state = "sent"]
    /\ round' = [round EXCEPT !.step = "save-hint", !.seen = seen, !.opens = FALSE]

(* project_acknowledgement; one that is too low for the command's own received
   entry is refused (EXECUTION_ACK_STALE) and the round goes on. *)
ProjectAcknowledgement(seen) ==
    IF \A i \in CompletedAt(Current) : i >= outbox[Current].expected + 2
    THEN /\ outbox' = [outbox EXCEPT ![Current].state = "acknowledged"]
         /\ round' = [round EXCEPT !.step = "save-hint", !.seen = seen,
                                   !.opens = Applies(Current)]
    ELSE /\ round' = [round EXCEPT !.step = "query", !.seen = seen, !.todo = @ \ {Current}]
         /\ UNCHANGED outbox

KernelRest == UNCHANGED <<visible, hint, fences, mode, failed, planned>>

(* The connector asks that the socket of the supervisor, its directory and the
   peer behind it belong to the right user, before and after it connects: in
   what the model tells apart, that the supervisor runs. *)
Reachable == up

(* journal_observation_from_query and decide_reconciliation. *)
Query ==
    /\ Visiting("query") /\ Reachable
    /\ LET seen == Latest(round.seen, ReceivedAt(Current) \cup CompletedAt(Current)) IN
         \/ Completed(Current) /\ ProjectAcknowledgement(seen)
         \/ /\ ~Completed(Current)
            /\ round' = [round EXCEPT !.step = "handoff", !.seen = seen,
                           !.kind = IF Received(Current) THEN "replay" ELSE "command"]
            /\ UNCHANGED outbox
    /\ KernelRest
    /\ UNCHANGED <<requests, supervisor, faults>>

(* No supervisor, or no answer in time, or a snapshot the relay did not take:
   an attempt is recorded and nothing is sent. *)
Unreachable ==
    /\ Visiting("query") \/ Visiting("handoff")
    /\ \/ ~Reachable /\ UNCHANGED faults
       \/ Reachable /\ Fault
    /\ RecordAttempt(round.seen)
    /\ KernelRest
    /\ UNCHANGED <<requests, supervisor>>

Send ==
    /\ Visiting("handoff") /\ Reachable
    /\ requests' = requests \cup
         {[cmd |-> Current, kind |-> round.kind, late |-> 0, phase |-> "queued"]}
    /\ round' = [round EXCEPT !.step = "await"]
    /\ UNCHANGED outbox
    /\ KernelRest
    /\ UNCHANGED <<supervisor, faults>>

(* One connection carries one request: the answer on it is to that request. *)
Awaited == {q \in requests : q.late = 0}

(* An answer moves the command only if its envelope echoes the request and its
   acknowledgement every field of the command; that of an error is HTTP 409 or
   500, with no acknowledgement in it. *)
Echoes(q)       == q.cmd = Current
Acknowledges(q) == q.phase = "answered" /\ Echoes(q)
Uncertain(q)    == q.phase = "refused"

Bug_AnyAnswerIsAnAcknowledgement ==
    /\ Visiting("await")
    /\ \E q \in Awaited :
         /\ q.phase \in {"answered", "refused"}
         /\ ProjectAcknowledgement(Latest(round.seen, CompletedAt(Current)))
         /\ requests' = requests \ {q}
    /\ KernelRest
    /\ UNCHANGED <<supervisor, faults>>

(* An acknowledgement is projected; any other status is one more attempt, also
   JOURNAL_REVISION_CONFLICT: the revision it names is not read. *)
ReceiveAnswer ==
    /\ Visiting("await")
    /\ \E q \in Awaited :
         /\ \/ /\ Acknowledges(q)
               /\ ProjectAcknowledgement(Latest(round.seen, CompletedAt(Current)))
            \/ Uncertain(q) /\ RecordAttempt(round.seen)
         /\ requests' = requests \ {q}
    /\ KernelRest
    /\ UNCHANGED <<supervisor, faults>>

(* The supervisor died with the request. *)
ConnectionLost ==
    /\ Visiting("await") /\ Awaited = {}
    /\ RecordAttempt(round.seen)
    /\ KernelRest
    /\ UNCHANGED <<requests, supervisor, faults>>

(* The request the Kernel waited for goes on without it, unless its answer was
   on the way and is lost. *)
Abandoned == {q \in requests : q.phase \notin {"answered", "refused"}}
Abandon   == requests' = {[q EXCEPT !.late = IF @ = 0 THEN faults' ELSE @] : q \in Abandoned}

(* execution-rpc timeout: the outcome is uncertain. *)
Timeout ==
    /\ Visiting("await") /\ Awaited # {} /\ Fault
    /\ Abandon
    /\ RecordAttempt(round.seen)
    /\ KernelRest
    /\ UNCHANGED supervisor

(* save_control_state writes the outbox first, then the route registry. *)
SaveHint ==
    /\ InStep("save-hint")
    /\ hint' = round.seen
    /\ round' = [round EXCEPT !.step = IF round.opens THEN "open-fence" ELSE "query",
                              !.todo = IF round.opens THEN @ ELSE @ \ {Current}]
    /\ UNCHANGED <<visible, outbox, fences, mode, failed, planned, requests,
                   supervisor, faults>>

(* project_start_fence_alive: only a preparing fence is opened. *)
Opened(v) == [fences EXCEPT ![v] = IF @ = "preparing" THEN "alive" ELSE @]

OpenFence ==
    /\ InStep("open-fence")
    /\ fences' = Opened(outbox[Current].version)
    /\ round' = [round EXCEPT !.step = "query", !.todo = @ \ {Current}]
    /\ UNCHANGED <<visible, outbox, hint, mode, failed, planned, requests,
                   supervisor, faults>>

(* The end of the list: the hint is saved once more, then every acknowledged
   Start whose fence did not open is queried again. *)
BeginHealing ==
    /\ InStep("query") /\ round.todo = {}
    /\ hint' = round.seen
    /\ round' = [round EXCEPT !.step = "heal", !.heal = Healable]
    /\ UNCHANGED <<visible, outbox, fences, mode, failed, planned, requests,
                   supervisor, faults>>

Bug_NeverHeals(v) ==
    /\ InStep("heal") /\ v \in round.heal
    /\ round' = [round EXCEPT !.heal = @ \ {v}]
    /\ UNCHANGED <<kernelFiles, mode, failed, planned, requests, supervisor, faults>>

(* heal_acknowledged_start_fences, one version. *)
Heal(v) ==
    /\ InStep("heal") /\ v \in round.heal
    /\ round' = [round EXCEPT !.heal = @ \ {v}]
    /\ fences' = IF Reachable /\ \E c \in Planned(v, "start") : Applies(c)
                 THEN Opened(v) ELSE fences
    /\ UNCHANGED <<visible, outbox, hint, mode, failed, planned, requests,
                   supervisor, faults>>

EndRound ==
    /\ InStep("heal") /\ round.heal = {}
    /\ round' = None
    /\ UNCHANGED <<kernelFiles, mode, failed, planned, requests, supervisor, faults>>

(* The query of a heal is not answered, or the fences cannot be written. *)
HealError(v) ==
    /\ InStep("heal") /\ v \in round.heal /\ Fault
    /\ round' = [round EXCEPT !.heal = @ \ {v}]
    /\ UNCHANGED <<kernelFiles, mode, failed, planned, requests, supervisor>>

(* The fence after an acknowledgement cannot be written: it is left to heal. *)
FenceError ==
    /\ InStep("open-fence") /\ Fault
    /\ round' = [round EXCEPT !.step = "query", !.todo = @ \ {Current}]
    /\ UNCHANGED <<kernelFiles, mode, failed, planned, requests, supervisor>>

(* The control state or the route registry cannot be written: the round ends,
   and with it what it learnt of the journal. *)
RoundError ==
    /\ \/ InStep("query") \/ InStep("save-hint")
       \/ InStep("await") /\ Awaited \cap Abandoned = {}
    /\ Fault
    /\ round' = None
    /\ Abandon
    /\ UNCHANGED <<kernelFiles, mode, failed, planned, supervisor>>

-----------------------------------------------------------------------------
(* The Kernel process stops between any two steps and is started again. *)

KernelCrash ==
    /\ mode # "down" /\ Fault
    /\ mode' = "down"
    /\ planned' = {}
    /\ round' = None
    /\ Abandon
    /\ UNCHANGED <<kernelFiles, failed, supervisor>>

KernelStart ==
    /\ mode = "down"
    /\ mode' = "starting"
    /\ failed' = FALSE
    /\ UNCHANGED <<kernelFiles, planned, round, requests, supervisor, faults>>

-----------------------------------------------------------------------------
(* The supervisor handles requests concurrently, one journal entry at a time. *)

Executing(c) == {q \in requests : q.cmd = c /\ q.phase \in {"effect", "applied", "rejected"}}
Become(q, phase) == requests' = (requests \ {q}) \cup {[q EXCEPT !.phase = phase]}

(* The answer to a request and to those that joined it, as far as the Kernel
   still waits. *)
Group(q) == {q} \cup {r \in requests : r.cmd = q.cmd /\ r.phase = "joined"}
Respond(q, phase) ==
    requests' = (requests \ Group(q))
                  \cup {[r EXCEPT !.phase = phase] : r \in {g \in Group(q) : g.late = 0}}

(* decide: a Prepare is stale once its version runs, a Start needs a fence. *)
Accepts(c) == IF outbox[c].op = "prepare" THEN adopted[outbox[c].version] # "running"
                                          ELSE adopted[outbox[c].version] # "none"
Adopted(c) == [adopted EXCEPT ![outbox[c].version] =
                 IF outbox[c].op = "prepare" THEN "prepared" ELSE "running"]

(* executor.execute up to its first await: the outcome cache, then decide. *)
Execute(q) ==
    LET c == q.cmd IN
    IF cached[c] # "none" THEN Become(q, cached[c]) /\ UNCHANGED <<adopted, cached>>
    ELSE IF Accepts(c)
         THEN Become(q, "effect") /\ adopted' = Adopted(c) /\ UNCHANGED cached
         ELSE /\ Become(q, "rejected")
              /\ cached' = [cached EXCEPT ![c] = "rejected"]
              /\ UNCHANGED adopted

Queued(q) == up /\ q \in requests /\ q.phase = "queued"

SupervisorRest == UNCHANGED <<kernel, up, faults>>

(* deliver: a delivery of a command in flight waits for the one running. *)
Join(q) ==
    /\ Queued(q) /\ Executing(q.cmd) # {}
    /\ Become(q, "joined")
    /\ UNCHANGED <<journal, adopted, cached>>
    /\ SupervisorRest

(* A completed command is answered from the journal. *)
AnswerCompleted(q) ==
    /\ Queued(q) /\ Executing(q.cmd) = {}
    /\ Completed(q.cmd)
    /\ Respond(q, "answered")
    /\ UNCHANGED <<journal, adopted, cached>>
    /\ SupervisorRest

Bug_ResumeWithoutJoining(q) ==
    /\ Queued(q)
    /\ Received(q.cmd) /\ ~Completed(q.cmd)
    /\ Execute(q)
    /\ UNCHANGED journal
    /\ SupervisorRest

(* One that was received and not completed runs again. *)
Resume(q) ==
    /\ Queued(q) /\ Executing(q.cmd) = {}
    /\ Received(q.cmd) /\ ~Completed(q.cmd)
    /\ Execute(q)
    /\ UNCHANGED journal
    /\ SupervisorRest

(* appendReceived: the compare-and-swap on the revision of the journal. *)
Accept(q) ==
    /\ Queued(q) /\ Executing(q.cmd) = {}
    /\ ~Received(q.cmd)
    /\ q.kind = "command" /\ outbox[q.cmd].expected = Revision
    /\ journal' = Append(journal, [kind |-> "received", cmd |-> q.cmd])
    /\ Execute(q)
    /\ SupervisorRest

(* EXECUTION_COMMAND_UNKNOWN and JOURNAL_REVISION_CONFLICT. *)
Refuse(q) ==
    /\ Queued(q) /\ Executing(q.cmd) = {}
    /\ ~Received(q.cmd)
    /\ q.kind = "replay" \/ outbox[q.cmd].expected # Revision
    /\ Respond(q, "refused")
    /\ UNCHANGED <<journal, adopted, cached>>
    /\ SupervisorRest

(* The end of an execution: the side effect went well or was refused, the
   outcome is appended at whatever revision the journal has reached, once. *)
OutcomesOf(q) == IF q.phase = "effect" THEN Outcomes ELSE {q.phase}

Complete(q) ==
    /\ up /\ q \in Executing(q.cmd)
    /\ \E o \in OutcomesOf(q) :
         /\ journal' = IF Completed(q.cmd) THEN journal
                       ELSE Append(journal, [kind |-> "completed", cmd |-> q.cmd, result |-> o])
         /\ cached' = [cached EXCEPT ![q.cmd] = o]
    /\ Respond(q, "answered")
    /\ UNCHANGED adopted
    /\ SupervisorRest

(* The side effect throws, or the journal cannot be written after it: the
   command stays received; in the second case its outcome is remembered. *)
Throw(q) ==
    /\ up /\ q \in Executing(q.cmd) /\ Fault
    /\ \/ q.phase = "effect" /\ UNCHANGED cached
       \/ \E o \in OutcomesOf(q) : cached' = [cached EXCEPT ![q.cmd] = o]
    /\ Respond(q, "refused")
    /\ UNCHANGED <<kernel, journal, up, adopted>>

SupervisorCrash ==
    /\ up /\ Fault
    /\ up' = FALSE
    /\ requests' = {}
    /\ adopted' = [v \in Versions |-> "none"]
    /\ cached' = [c \in DOMAIN cached |-> "none"]
    /\ UNCHANGED <<kernel, journal>>

(* The executor is rebuilt from the journal: received entries go through decide
   again, completed ones restore the outcomes. *)
ReceivedStart(v, after) ==
    \E c \in Planned(v, "start") : \E j \in ReceivedAt(c) : after < j
SupervisorStart ==
    /\ ~up
    /\ up' = TRUE
    /\ adopted' = [v \in Versions |->
         LET prepares == UNION {ReceivedAt(c) : c \in Planned(v, "prepare")} IN
         IF prepares = {} THEN "none"
         ELSE IF \E i \in prepares : ReceivedStart(v, i) THEN "running" ELSE "prepared"]
    /\ cached' = [c \in DOMAIN cached |->
         IF Decided(c, "applied") THEN "applied"
         ELSE IF Decided(c, "rejected") THEN "rejected" ELSE "none"]
    /\ UNCHANGED <<kernel, requests, journal, faults>>

-----------------------------------------------------------------------------
PlanStep ==
    \/ \E v \in Versions : PlanPrepare(v) \/ PlanStart(v) \/ AdoptStart(v)
    \/ FinishPlanning

RoundStep ==
    \/ BeginRound \/ Query \/ (~Reachable /\ Unreachable) \/ Send \/ ReceiveAnswer
    \/ ConnectionLost \/ SaveHint \/ OpenFence \/ BeginHealing
    \/ (\E v \in Versions : Heal(v)) \/ EndRound

HandleStep == \E q \in requests :
    Join(q) \/ AnswerCompleted(q) \/ Resume(q) \/ Accept(q) \/ Refuse(q) \/ Complete(q)

Next ==
    \/ Submit \/ PlanStep \/ RoundStep \/ HandleStep
    \/ KernelStart \/ SupervisorStart
    \/ PlanningError \/ Unreachable \/ Timeout \/ FenceError \/ RoundError
    \/ \E v \in Versions : HealError(v)
    \/ \E q \in requests : Throw(q)
    \/ KernelCrash \/ SupervisorCrash

Spec == Init /\ [][Next]_vars

(* Calls under the mutex run to their end, the convergence tick comes every ten
   seconds, the supervisor serves what it was sent, and a process that stopped
   is started again.  Faults are finite: MaxFaults bounds them. *)
Fairness ==
    /\ WF_vars(PlanStep) /\ WF_vars(RoundStep) /\ WF_vars(HandleStep)
    /\ WF_vars(KernelStart) /\ WF_vars(SupervisorStart)

FairSpec == Spec /\ Fairness

-----------------------------------------------------------------------------
(* Properties. *)

(* Every variable has its type, and the memory of a process is that of its
   mode: nothing is planned outside a pass, no round runs outside serving, and
   the Kernel awaits one request, for the current command of its round. *)
TypeOK ==
    /\ visible \in 0..MaxVersions
    /\ outbox \in Seq(Entries)
    /\ hint \in Nat
    /\ fences \in [Versions -> {"none", "preparing", "alive"}]
    /\ mode \in {"down", "starting", "submitting", "serving"}
    /\ failed \in BOOLEAN
    /\ planned \subseteq 1..visible
    /\ ~Planning => planned = {}
    /\ round \in {None} \cup [todo : SUBSET Commands, step : Steps, seen : Nat,
                              kind : {"command", "replay"}, opens : BOOLEAN,
                              heal : SUBSET Versions]
    /\ round # None => mode = "serving"
    /\ requests \subseteq [cmd : Commands, kind : {"command", "replay"},
                           late : 0..faults, phase : Phases]
    /\ \A q \in Awaited : Visiting("await") /\ q.cmd = Current
    /\ journal \in Seq(Records)
    /\ \A i \in DOMAIN journal : journal[i].cmd \in Commands
    /\ up \in BOOLEAN
    /\ adopted \in [Versions -> {"none", "prepared", "running"}]
    /\ cached \in [1..(2 * MaxVersions) -> {"none", "applied", "rejected"}]
    /\ faults \in 0..MaxFaults

(* A command is received once and has one outcome, and at most one delivery of
   it drives the side effect, only between the two entries, however many
   requests, replays and abandoned requests reach the supervisor. *)
ExecutedOnce ==
    \A c \in Commands :
        /\ Cardinality(ReceivedAt(c)) <= 1 /\ Cardinality(CompletedAt(c)) <= 1
        /\ Cardinality(Executing(c)) <= 1
        /\ Executing(c) # {} => Received(c) /\ ~Completed(c)

(* The life of a command and of a fence as the owner sees it. *)
Outcome == INSTANCE CommandOutcome WITH
             Commands <- 1..(2 * MaxVersions),
             starts   <- [v \in Versions |-> Planned(v, "start")],
             decided  <- [c \in 1..(2 * MaxVersions) |->
                            IF c \notin Commands THEN "none"
                            ELSE IF Decided(c, "applied") THEN "applied"
                            ELSE IF Decided(c, "rejected") THEN "rejected" ELSE "open"],
             told     <- Commands \ Pending,
             open     <- {v \in Versions : fences[v] = "alive"}
ImplementsOutcome == Outcome!Spec

(* A command that is at the head of the journal, or in it, is acknowledged, if
   another command does not take its place first. *)
Settles ==
    \A c \in 1..(2 * MaxVersions) :
        (c \in Commands /\ (Received(c) \/ outbox[c].expected = Revision))
          ~> (c \notin Pending \/ (~Received(c) /\ Revision > outbox[c].expected))

(* A fence whose Start was acknowledged as applied opens in the end, also when
   the process stopped between the two writes. *)
StartedFor(v) == \E c \in Planned(v, "start") : c \notin Pending /\ Applies(c)
FenceHeals ==
    \A v \in Versions : (fences[v] = "preparing" /\ StartedFor(v)) ~> (fences[v] = "alive")

=============================================================================
