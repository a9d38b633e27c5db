------------------------------ MODULE HostCalls ------------------------------
(***************************************************************************)
(* The data plane of one application inside wasmd: host calls of the       *)
(* component on the services kv, sql and logging, host_services/.  Every   *)
(* execution process of the application opens the same three SQLite files, *)
(*                                                                         *)
(*   quota.sqlite3  the committed bytes of both back ends, one reservation *)
(*                  per mutation, and one replay row per (execution        *)
(*                  identity, request id),                                 *)
(*   kv.sqlite3, sql.sqlite3   the data, with a marker per operation       *)
(*                  written in the transaction of the mutation.            *)
(*                                                                         *)
(* A mutating call claims its replay row, reserves bytes, commits its      *)
(* marker, measures the file and finalizes the reservation, and completes  *)
(* the row with the response; a process that opens the files settles what  *)
(* it finds there, in three passes.                                        *)
(*                                                                         *)
(* An operation is named by the number of its claim, and everything the    *)
(* files say of it is one record of ops.  Not modelled: reads, cursors,    *)
(* values, digests and the shapes of frames; one key stands for the key    *)
(* space.                                                                  *)
(***************************************************************************)
EXTENDS Naturals, FiniteSets, FiniteSetsExt

CONSTANTS
    Processes,     \* wasmd processes
    Threads,       \* host calls served at a time, in all processes
    Requests,      \* bodies: [id, service, method, expected]
    Enabled,       \* the services the host-service policy has a member for
    Generations,   \* execution generations, the identity of a process
    Envelope,      \* storageBytes
    KvDelta,       \* the bytes reserved for one kv mutation
    Growths,       \* by how much one mutation may grow its file
    Ttl,           \* HOST_CALL_REPLAY_TTL_MS
    Retention,     \* the age at which a tombstone is collected
    MaxOps,        \* claims ever made (bound of the model)
    MaxTime,       \* the clock (bound of the model)
    MaxFaults,     \* crashes and I/O errors (bound of the model)
    None

Backends == {"kv", "sql"}
Services == Backends \cup {"logging"}

ASSUME RequestsAssumption ==
    \A r \in Requests :
        /\ r.service \in Services /\ r.expected \in Nat \cup {None}
        /\ r.method \in {"set", "delete", "execute", "write"}

ASSUME BoundsAssumption ==
    /\ Enabled \subseteq Services /\ Growths \subseteq Nat
    /\ Generations \subseteq Nat /\ Generations # {}
    /\ {Envelope, KvDelta, Ttl, Retention, MaxOps, MaxTime, MaxFaults} \subseteq Nat

VARIABLES
    ops,       \* replay row, reservation and marker of every operation
    usage,     \* ledger_usage: the committed bytes of each back end
    file,      \* page_count * page_size of each back end
    entry,     \* the kv entry: its version, 0 if there is no row, and its tombstone
    proc,      \* HostServicesProvider of every process
    call,      \* the host call on every thread
    answers,   \* the final answers callers have got
    overtaken, \* the operations whose claim was released under a running call
    outrun,    \* those whose reservation or measurement was, see Overtaking
    now,
    faults

files == <<ops, usage, file, entry>>
overlaps == <<overtaken, outrun>>
vars == <<files, proc, call, answers, overlaps, now, faults>>

Ops == 1..MaxOps
Rows == {"none", "claimed", "ok", "error"}
Operations == [gen : Generations, request : Requests, row : Rows, answer : Nat, expires : Nat,
               reservation : {"none", "reserved", "committed", "released"},
               delta : Nat, charged : Nat, marker : Nat]
(* The kv entry: its version, 0 if there is no row, and when it was deleted. *)
Entries == [version : Nat, tombstone : BOOLEAN, deletedAt : Nat]
Modes == {"down", "refused", "reservations", "markers", "claims", "serving"}
Providers == [mode : Modes, gen : Generations, quarantined : SUBSET Backends,
              todo : SUBSET (Ops \X (Rows \cup {"reserved"})), known : SUBSET Ops]
Calls == [proc : Processes, op : Ops, at : {"work", "commit", "measure", "finalize", "complete", "answer"},
          outcome : {"ok", "error"}, answer : Nat, measured : Nat]

ASSUME NoneAssumption == None \notin Operations /\ None \notin Calls

Init ==
    /\ ops = [n \in Ops |-> None]
    /\ usage = [b \in Backends |-> 0] /\ file = usage
    /\ entry = [version |-> 0, tombstone |-> FALSE, deletedAt |-> 0]
    /\ proc = [p \in Processes |->
                  [mode |-> "down", gen |-> Min(Generations), quarantined |-> {}, todo |-> {}, known |-> {}]]
    /\ call = [t \in Threads |-> None]
    /\ answers = {} /\ overtaken = {} /\ outrun = {} /\ now = 0 /\ faults = 0

Fault == faults < MaxFaults /\ faults' = faults + 1

-----------------------------------------------------------------------------
(* What the files say. *)

Used == {n \in Ops : ops[n] # None}
Backend(n) == ops[n].request.service
Marked(b) == {n \in Used : ops[n].marker > 0 /\ Backend(n) = b}
Reserved == {n \in Used : ops[n].reservation = "reserved"}

SumOver(S, f(_)) == MapThenSumSet(f, S)
Delta(n) == ops[n].delta

(* An expired reservation is not charged any more. *)
Outstanding(S) == SumOver({n \in Reserved : n \in S /\ ops[n].charged > now}, Delta)
Committed == usage["kv"] + usage["sql"]

(* reserve, with the remaining bytes for an sql mutation: reserve_remaining.
   No bytes at all are refused, and more than the envelope never fit. *)
Remaining == IF Committed + Outstanding(Ops) < Envelope THEN Envelope - Committed - Outstanding(Ops) ELSE 0
DeltaOf(b) == IF b = "kv" THEN KvDelta ELSE Remaining
Fits(b) ==
    /\ DeltaOf(b) \in 1..Envelope
    /\ Committed + Outstanding(Ops) + DeltaOf(b) <= Envelope
    /\ usage[b] + Outstanding({n \in Used : Backend(n) = b}) + DeltaOf(b) <= Envelope

(* finalize answers an error for a reservation that was released. *)
CanFinalize(n) == ops[n].reservation \in {"reserved", "committed"}
Bug_ChargeReserved(n, bytes) ==
    /\ ops' = [ops EXCEPT ![n].reservation = "committed"]
    /\ usage' = [usage EXCEPT ![Backend(n)] = @ + ops[n].delta]
Finalized(n, bytes) ==
    /\ ops' = [ops EXCEPT ![n].reservation = "committed"]
    /\ usage' = IF ops[n].reservation = "reserved" THEN [usage EXCEPT ![Backend(n)] = bytes] ELSE usage
Released(n) == [ops EXCEPT ![n].reservation = IF @ = "reserved" THEN "released" ELSE @]

-----------------------------------------------------------------------------
(* A host call. *)

Serving(p) == proc[p].mode = "serving"
At(t, step) == call[t] # None /\ call[t].at = step
Op(t) == call[t].op
Quarantined(t) == proc[call[t].proc].quarantined
Goto(t, step) == call' = [call EXCEPT ![t].at = step]
Respond(t, outcome) == call' = [call EXCEPT ![t].at = "complete", ![t].outcome = outcome]
Return(t) == call' = [call EXCEPT ![t] = None]

(* A mutation holds the locks of its back end and of the ledger throughout;
   claim and completion take the ledger's. *)
Unlocked(p) == \A t \in Threads :
    ~(call[t] # None /\ call[t].proc = p /\ call[t].at \in {"commit", "measure", "finalize"})

(* Overtaking: what the processes of two executions do to each other through
   the files.  A recovery that finds no marker releases the claim and the
   reservation of an operation that a call of another process still works on;
   and a call may finalize with the size of a file that another process has
   written since.  History, for the properties. *)
Running(n) == \E t \in Threads : call[t] # None /\ call[t].op = n
Outgrown(t, b) == {Op(u) : u \in {w \in Threads \ {t} : At(w, "finalize") /\ Backend(Op(w)) = b}}
Overtakes(n) ==
    overtaken' = IF Running(n) /\ ops[n].row = "claimed" THEN overtaken \cup {n} ELSE overtaken
Outruns(n) ==
    outrun' = IF Running(n) /\ ops[n].reservation = "reserved" THEN outrun \cup {n} ELSE outrun

(* The rows claim_replay compares a request with. *)
SameRequest(n, gen, r) == ops[n].row # "none" /\ ops[n].gen = gen /\ ops[n].request.id = r.id
Bug_ExpiredExisting(gen, r) == {n \in Used : SameRequest(n, gen, r) /\ now < ops[n].expires}
Existing(gen, r) == {n \in Used : SameRequest(n, gen, r)}

Fresh(n) == n \notin Used /\ \A m \in 1..(n - 1) : m \in Used

NewOp(gen, r) ==
    [gen |-> gen, request |-> r, row |-> "claimed", answer |-> 0, expires |-> now + Ttl,
     reservation |-> "none", delta |-> 0, charged |-> 0, marker |-> 0]

Claim(t, p, r, n) ==
    /\ call[t] = None /\ Serving(p) /\ Unlocked(p) /\ r.service \in Enabled
    /\ Existing(proc[p].gen, r) = {} /\ Fresh(n)
    /\ ops' = [ops EXCEPT ![n] = NewOp(proc[p].gen, r)]
    /\ call' = [call EXCEPT ![t] =
                   [proc |-> p, op |-> n, at |-> "work", outcome |-> "ok", answer |-> 0, measured |-> 0]]
    /\ UNCHANGED <<usage, file, entry, proc, answers, overlaps, now, faults>>

AnswerOf(n, outcome, answer) ==
    [gen |-> ops[n].gen, request |-> ops[n].request, outcome |-> outcome, answer |-> answer]

(* The stored response of a completed row; a conflict, an expired row and one
   in flight are refused without a trace. *)
Replay(p, r, n) ==
    /\ Serving(p) /\ Unlocked(p) /\ n \in Existing(proc[p].gen, r)
    /\ ops[n].request = r /\ now < ops[n].expires /\ ops[n].row \in {"ok", "error"}
    /\ answers' = answers \cup {AnswerOf(n, ops[n].row, ops[n].answer)}
    /\ UNCHANGED <<files, proc, call, overlaps, now, faults>>

(* A full ring drops the event and says so; either way the call is answered. *)
WriteLog(t) ==
    /\ At(t, "work") /\ Backend(Op(t)) = "logging"
    /\ Respond(t, "ok")
    /\ UNCHANGED <<files, proc, answers, overlaps, now, faults>>

(* The deadline is over, the back end is quarantined or the envelope closed:
   nothing has been touched. *)
Refuse(t) ==
    /\ At(t, "work") /\ Backend(Op(t)) # "logging"
    /\ Respond(t, "error")
    /\ UNCHANGED <<files, proc, answers, overlaps, now, faults>>

Reserve(t) ==
    LET n == Op(t) b == Backend(n) IN
    /\ At(t, "work") /\ b # "logging" /\ Unlocked(call[t].proc)
    /\ b \notin Quarantined(t) /\ Fits(b)
    /\ ops' = [ops EXCEPT ![n].reservation = "reserved", ![n].delta = DeltaOf(b), ![n].charged = now + Ttl]
    /\ Goto(t, "commit")
    /\ UNCHANGED <<usage, file, entry, proc, answers, overlaps, now, faults>>

Conflicting(n) == Backend(n) = "kv" /\ ops[n].request.expected \notin {None, entry.version}

(* One transaction: the mutation and its marker.  The transaction leaves the
   files as they were when the version is not the expected one, at the deadline
   and for an error of SQLite; the error of the release is ignored then. *)
Mutated(n) ==
    IF Backend(n) = "sql" THEN entry
    ELSE [version |-> entry.version + 1, tombstone |-> ops[n].request.method = "delete",
          deletedAt |-> IF ops[n].request.method = "delete" THEN now ELSE 0]

Commit(t, growth) ==
    LET n == Op(t) IN
    /\ At(t, "commit") /\ ~Conflicting(n)
    /\ entry' = Mutated(n)
    /\ ops' = [ops EXCEPT ![n].marker = IF Backend(n) = "kv" THEN entry'.version ELSE 1]
    /\ file' = [file EXCEPT ![Backend(n)] = @ + growth]
    /\ outrun' = outrun \cup Outgrown(t, Backend(n))
    /\ Goto(t, "measure")
    /\ UNCHANGED <<usage, proc, answers, overtaken, now, faults>>

Abort(t) ==
    /\ At(t, "commit")
    /\ \/ ops' = Released(Op(t)) /\ UNCHANGED faults
       \/ UNCHANGED ops /\ Fault
    /\ Respond(t, "error")
    /\ UNCHANGED <<usage, file, entry, proc, answers, overlaps, now>>

Answered(t, outcome) ==
    call' = [call EXCEPT ![t].at = "complete", ![t].outcome = outcome,
                         ![t].answer = IF outcome = "ok" THEN ops[Op(t)].marker ELSE 0]

(* An sql call answers an error if it cannot measure or finalize, though its
   transaction is committed; a kv call does not.  Only a kv call that cannot
   measure quarantines its back end. *)
Quarantine(p, bs) == proc' = [proc EXCEPT ![p].quarantined = @ \cup bs]
Bug_Unsettled(t) == Answered(t, "error")
Unsettled(t) == Answered(t, IF Backend(Op(t)) = "sql" THEN "error" ELSE "ok")

Measure(t) ==
    /\ At(t, "measure")
    /\ \/ /\ call' = [call EXCEPT ![t].at = "finalize", ![t].measured = file[Backend(Op(t))]]
          /\ UNCHANGED <<proc, faults>>
       \/ /\ Fault /\ Unsettled(t)
          /\ Quarantine(call[t].proc, {Backend(Op(t))} \ {"sql"})
    /\ UNCHANGED <<files, answers, overlaps, now>>

Finalize(t) ==
    LET n == Op(t) IN
    /\ At(t, "finalize") /\ CanFinalize(n)
    /\ Finalized(n, call[t].measured) /\ Answered(t, "ok")
    /\ UNCHANGED <<file, entry, proc, answers, overlaps, now, faults>>

CannotFinalize(t) ==
    /\ At(t, "finalize")
    /\ IF CanFinalize(Op(t)) THEN Fault ELSE UNCHANGED faults
    /\ Quarantine(call[t].proc, {Backend(Op(t))}) /\ Unsettled(t)
    /\ UNCHANGED <<files, answers, overlaps, now>>

(* complete_replay turns a claim into the response and accepts the response it
   already has; else the caller is told UNAVAILABLE, which is no final answer. *)
CanComplete(n, outcome, answer) ==
    \/ ops[n].row = "claimed"
    \/ ops[n].row = outcome /\ ops[n].answer = answer
Completed(n, outcome, answer) == [ops EXCEPT ![n].row = outcome, ![n].answer = answer]

Complete(t) ==
    LET c == call[t] IN
    /\ At(t, "complete") /\ Unlocked(c.proc)
    /\ \/ /\ CanComplete(c.op, c.outcome, c.answer)
          /\ ops' = Completed(c.op, c.outcome, c.answer)
          /\ Goto(t, "answer") /\ UNCHANGED faults
       \/ /\ ~CanComplete(c.op, c.outcome, c.answer)
          /\ Return(t) /\ UNCHANGED <<ops, faults>>
       \/ /\ Fault /\ Return(t) /\ UNCHANGED ops
    /\ UNCHANGED <<usage, file, entry, proc, answers, overlaps, now>>

Answer(t) ==
    /\ At(t, "answer")
    /\ answers' = answers \cup {AnswerOf(Op(t), call[t].outcome, call[t].answer)}
    /\ Return(t)
    /\ UNCHANGED <<files, proc, overlaps, now, faults>>

-----------------------------------------------------------------------------
(* Opening the files: open and recover. *)

Gone(p) == proc[p].mode \in {"down", "refused"}

(* The generation of an execution is never older than one before it, and two
   executions that run have not the same identity: they are the active version
   and a candidate. *)
Newer(gen) ==
    \A q \in Processes : IF Gone(q) THEN proc[q].gen <= gen ELSE proc[q].gen < gen

Collected(e) ==
    IF e.tombstone /\ now - e.deletedAt >= Retention
    THEN [version |-> 0, tombstone |-> FALSE, deletedAt |-> 0] ELSE e

Open(p, gen) ==
    /\ Gone(p) /\ Newer(gen)
    /\ entry' = IF "kv" \in Enabled THEN Collected(entry) ELSE entry
    /\ proc' = [proc EXCEPT ![p] = [mode |-> "reservations", gen |-> gen, quarantined |-> {},
                                    todo |-> {<<n, "reserved">> : n \in Reserved}, known |-> {}]]
    /\ UNCHANGED <<ops, usage, file, call, answers, overlaps, now, faults>>

Pass(p, mode) == proc[p].mode = mode
Todo(p) == {i[1] : i \in proc[p].todo}
First(p) == CHOOSE i \in proc[p].todo : i[1] = Min(Todo(p))
Settled(p, i, bs) == [proc EXCEPT ![p].todo = @ \ {i}, ![p].quarantined = @ \cup bs]
Refused(p) == [proc EXCEPT ![p].mode = "refused", ![p].todo = {}, ![p].known = {}, ![p].quarantined = {}]

(* An open reservation: finalized if its marker is there, released if it is
   not and the reservation expired, left for its call otherwise.  Without the
   back end in the policy the marker cannot be read.  No lock covers the read
   of the marker and the write of the ledger: an operation that another process
   commits in between is one that it commits after both. *)
RecoverReservation(p, i) ==
    LET n == i[1] IN
    /\ Pass(p, "reservations") /\ i \in proc[p].todo
    /\ CASE Backend(n) \notin Enabled -> proc' = Refused(p) /\ UNCHANGED <<ops, usage, outrun>>
         [] Backend(n) \in Enabled /\ ops[n].marker > 0 /\ CanFinalize(n) ->
              Finalized(n, file[Backend(n)]) /\ proc' = Settled(p, i, {}) /\ UNCHANGED outrun
         [] Backend(n) \in Enabled /\ ops[n].marker > 0 /\ ~CanFinalize(n) ->
              proc' = Settled(p, i, {Backend(n)}) /\ UNCHANGED <<ops, usage, outrun>>
         [] Backend(n) \in Enabled /\ ops[n].marker = 0 ->
              /\ IF now >= ops[n].charged
                 THEN ops' = Released(n) /\ Outruns(n) ELSE UNCHANGED <<ops, outrun>>
              /\ proc' = Settled(p, i, {}) /\ UNCHANGED usage
    /\ UNCHANGED <<file, entry, call, answers, overtaken, now, faults>>

(* The ledger is read once; the markers of the enabled back ends are compared
   with what it said, and with their reservations. *)
ReadLedger(p) ==
    /\ Pass(p, "reservations") /\ proc[p].todo = {}
    /\ proc' = [proc EXCEPT ![p].mode = "markers",
                            ![p].known = {n \in Used : ops[n].reservation \in {"reserved", "committed"}},
                            ![p].todo = {<<n, ops[n].row>> : n \in {m \in Used : ops[m].row # "none"}}]
    /\ UNCHANGED <<files, call, answers, overlaps, now, faults>>

Proven(p, n) == n \in proc[p].known /\ CanFinalize(n)

ReadMarkers(p) ==
    /\ Pass(p, "markers")
    /\ proc' = [proc EXCEPT ![p].mode = "claims", ![p].known = {},
                   ![p].quarantined = @ \cup {b \in Backends \cap Enabled : \E n \in Marked(b) : ~Proven(p, n)}]
    /\ UNCHANGED <<files, call, answers, overlaps, now, faults>>

(* The response of an interrupted call, from the request and the marker, for
   the very same execution identity; the kv entry must still be what the
   operation made it. *)
Rebuildable(p, n) ==
    /\ ops[n].gen = proc[p].gen
    /\ Backend(n) = "kv" =>
          /\ entry.version = ops[n].marker
          /\ entry.tombstone = (ops[n].request.method = "delete")

(* A claim of logging, and one without a marker, is released. *)
ReleaseClaim(n) ==
    /\ ops' = [ops EXCEPT ![n].row = IF @ = "claimed" THEN "none" ELSE @,
                          ![n].reservation = IF @ = "reserved" THEN "released" ELSE @]
    /\ Overtakes(n) /\ Outruns(n)

Unmarked(n) == ops[n].marker = 0

(* With its marker the claim gets the answer the call would have got. *)
Settlement(n) ==
    IF ops[n].reservation = "reserved"
    THEN [usage EXCEPT ![Backend(n)] = file[Backend(n)]] ELSE usage

RecoverMarked(p, i) ==
    LET n == i[1]
        finalized == [ops EXCEPT ![n].reservation = "committed"] IN
    CASE ~CanFinalize(n) -> proc' = Settled(p, i, {Backend(n)}) /\ UNCHANGED <<ops, usage>>
      [] CanFinalize(n) /\ ~Rebuildable(p, n) ->
           ops' = finalized /\ usage' = Settlement(n) /\ proc' = Settled(p, i, {Backend(n)})
      [] CanFinalize(n) /\ Rebuildable(p, n) ->
           /\ usage' = Settlement(n)
           /\ IF CanComplete(n, "ok", ops[n].marker)
              THEN /\ ops' = [finalized EXCEPT ![n].row = "ok", ![n].answer = ops[n].marker]
                   /\ proc' = Settled(p, i, {})
              ELSE ops' = finalized /\ proc' = Refused(p)

RecoverClaim(p) ==
    LET i == First(p) n == i[1] b == Backend(n) IN
    /\ Pass(p, "claims") /\ proc[p].todo # {} /\ i[2] = "claimed"
    /\ CASE b = "logging" -> ReleaseClaim(n) /\ proc' = Settled(p, i, {}) /\ UNCHANGED usage
         [] b # "logging" /\ ~(Backends \subseteq Enabled) -> proc' = Refused(p) /\ UNCHANGED <<ops, usage, overlaps>>
         [] b # "logging" /\ Backends \subseteq Enabled /\ Unmarked(n) ->
              IF ops[n].reservation = "committed"
              THEN proc' = Settled(p, i, {b}) /\ UNCHANGED <<ops, usage, overlaps>>
              ELSE ReleaseClaim(n) /\ proc' = Settled(p, i, {}) /\ UNCHANGED usage
         [] b # "logging" /\ Backends \subseteq Enabled /\ ~Unmarked(n) ->
              RecoverMarked(p, i) /\ UNCHANGED overlaps
    /\ UNCHANGED <<file, entry, call, answers, now, faults>>

(* A completed row must carry the identity of the process that opens. *)
ValidTerminal(p, n) == ops[n].gen = proc[p].gen

ValidateTerminal(p) ==
    LET i == First(p) IN
    /\ Pass(p, "claims") /\ proc[p].todo # {} /\ i[2] \in {"ok", "error"}
    /\ proc' = IF ValidTerminal(p, i[1]) THEN Settled(p, i, {}) ELSE Refused(p)
    /\ UNCHANGED <<files, call, answers, overlaps, now, faults>>

Serve(p) ==
    /\ Pass(p, "claims") /\ proc[p].todo = {}
    /\ proc' = [proc EXCEPT ![p].mode = "serving"]
    /\ UNCHANGED <<files, call, answers, overlaps, now, faults>>

(* A process dies, or is stopped, at any point; an error of an open is one. *)
Crash(p) ==
    /\ ~Gone(p) /\ Fault
    /\ proc' = [proc EXCEPT ![p].mode = "down", ![p].quarantined = {}, ![p].todo = {}, ![p].known = {}]
    /\ call' = [t \in Threads |-> IF call[t] # None /\ call[t].proc = p THEN None ELSE call[t]]
    /\ UNCHANGED <<files, answers, overlaps, now>>

Tick == now < MaxTime /\ now' = now + 1 /\ UNCHANGED <<files, proc, call, answers, overlaps, faults>>

Start(t) == \E p \in Processes, r \in Requests, n \in Ops : Claim(t, p, r, n)
Again == \E p \in Processes, r \in Requests, n \in Ops : Replay(p, r, n)
Execute(t) == WriteLog(t) \/ Refuse(t) \/ Reserve(t) \/ (\E g \in Growths : Commit(t, g)) \/ Abort(t)
Settle(t) == Measure(t) \/ Finalize(t) \/ CannotFinalize(t) \/ Complete(t) \/ Answer(t)
Recover(p) ==
    \/ \E i \in proc[p].todo : RecoverReservation(p, i)
    \/ ReadLedger(p) \/ ReadMarkers(p) \/ RecoverClaim(p) \/ ValidateTerminal(p) \/ Serve(p)

Next ==
    \/ Again \/ Tick
    \/ \E t \in Threads : Start(t) \/ Execute(t) \/ Settle(t)
    \/ \E p \in Processes : Recover(p) \/ Crash(p) \/ \E gen \in Generations : Open(p, gen)

Spec == Init /\ [][Next]_vars

-----------------------------------------------------------------------------
(* Every variable has its type: an operation is one row of each table, and a
   process that recovers has only the rows it read still to do (open). *)
TypeOK ==
    /\ ops \in [Ops -> Operations \cup {None}]
    /\ usage \in [Backends -> Nat] /\ file \in [Backends -> Nat]
    /\ entry \in Entries
    /\ proc \in [Processes -> Providers]
    /\ call \in [Threads -> Calls \cup {None}]
    /\ answers \subseteq [gen : Generations, request : Requests, outcome : {"ok", "error"}, answer : Nat]
    /\ overtaken \subseteq Ops /\ outrun \subseteq Ops
    /\ now \in 0..MaxTime /\ faults \in 0..MaxFaults

(* A mutating request is at most once for its execution identity and request
   id (mod.rs:6).  It is not: see OnceUnlessOvertaken. *)
SameIdentity(m, n) == ops[m].gen = ops[n].gen /\ ops[m].request.id = ops[n].request.id
AtMostOnce ==
    \A m, n \in Marked("kv") \cup Marked("sql") : SameIdentity(m, n) => m = n

(* A request changes the data at most once, however often it is sent, whether
   its process dies between any two steps, and whatever a recovery makes of
   what it finds (claim_replay, recover_claimed_replay), unless the process of
   another execution released its claim while the call was running. *)
OnceUnlessOvertaken ==
    \A m, n \in (Marked("kv") \cup Marked("sql")) \ overtaken : SameIdentity(m, n) => m = n

(* Two final answers to a request are the same answer, be it the first one, a
   stored one or one rebuilt by a recovery; a success is a mutation that is in
   the files under the version answered, and a failure of kv is none, but by a
   call whose claim was released while it was running (dispatch_frame,
   complete_replay, rebuild_replay_response). *)
AnswersAreTrue ==
    /\ \A a, b \in answers : a.gen = b.gen /\ a.request.id = b.request.id => a = b
    /\ \A a \in answers :
          LET done == {n \in Used : ops[n].gen = a.gen /\ ops[n].request = a.request /\ ops[n].marker > 0} IN
          /\ a.outcome = "ok" /\ a.request.service # "logging" => \E n \in done : ops[n].marker = a.answer
          /\ a.outcome = "error" /\ a.request.service = "kv" => done \subseteq overtaken

(* The ledger is never behind a file without an open reservation from which a
   recovery can tell: no byte of a committed mutation is forgotten by a crash,
   a failed measurement or a failed finalize (finalize, release, recover), but
   where the process of another execution took the reservation of a running
   call, or wrote the file between its measurement and its finalize. *)
Accounted ==
    \A b \in Backends : usage[b] # file[b] =>
        \E n \in Marked(b) : ops[n].reservation = "reserved" \/ n \in outrun

=============================================================================
