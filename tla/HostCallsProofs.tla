--------------------------- MODULE HostCallsProofs ---------------------------
(***************************************************************************)
(* Proofs about host calls, for any requests, processes, clocks and        *)
(* faults, whether or not executions overlap: every reachable state has    *)
(* its types, and where no execution has overtaken another a request       *)
(* mutates at most once and every byte of a committed mutation is          *)
(* accounted for.  An operation is the business of one call while its      *)
(* process serves (CallInv), an execution has one row for a request        *)
(* (RowsInv), and a call finds its operation as it left it unless the      *)
(* process of another execution overtook it (SharedInv).  The answers are  *)
(* true: rows, calls about to answer and answers say the same of an        *)
(* operation, and a completed row is never revised (TrueInv).              *)
(***************************************************************************)
EXTENDS HostCalls, WellFoundedInduction, TLAPS

Critical == {"commit", "measure", "finalize"}

(* Only the back ends reserve bytes and write markers.                     *)
Kinded(r) == r.reservation # "none" \/ r.marker > 0 => r.request.service \in Backends
KindInv == \A n \in Used : Kinded(ops[n])

(* One row for a request of an execution.                                  *)
RowsInv == \A m, n \in Used :
    ops[m].row # "none" /\ ops[n].row # "none" /\ SameIdentity(m, n) => m = n

(* A call belongs to a process that serves, alone with its operation, and   *)
(* holds the locks of its process through the mutation.                    *)
Busy == {t \in Threads : call[t] # None}
CallInv ==
    /\ \A t \in Busy : /\ Serving(call[t].proc) /\ Op(t) \in Used
                       /\ call[t].at \in Critical => Backend(Op(t)) \in Backends
    /\ \A t, u \in Busy : Op(t) = Op(u) => t = u
    /\ \A t, u \in Busy : call[t].at \in Critical /\ call[u].at \in Critical
                          /\ call[t].proc = call[u].proc => t = u

(* What a call knows of its operation and of the file it measured, if the   *)
(* operation is in neither of two sets: those whose claim was released, and *)
(* those whose reservation or measurement was taken from them.             *)
Knows(c, r, bytes, os, us) ==
    /\ c.at \in {"work", "commit"} => r.marker = 0
    /\ c.at \in {"work", "commit"} => r.row = "claimed" \/ (r.row = "none" /\ c.op \in os)
    /\ c.at = "commit" => r.reservation = "reserved" \/ c.op \in us
    /\ c.at \in {"measure", "finalize"} => r.marker > 0
    /\ c.at = "finalize" => c.measured = bytes[r.request.service] \/ c.op \in us

(* Calls find their operations as they left them, the row of a mutation is   *)
(* there, and its bytes are accounted for, but for what was overtaken.     *)
HasRow(r, n, os) == r.marker > 0 => r.row # "none" \/ n \in os
SharedInv ==
    /\ \A t \in Busy : Knows(call[t], ops[Op(t)], file, overtaken, outrun)
    /\ \A n \in Used : HasRow(ops[n], n, overtaken)
    /\ Accounted

(* A recovery settles operations that are there.                           *)
TodoInv == \A p \in Processes : Todo(p) \subseteq Used

IInv == TypeOK /\ KindInv /\ RowsInv /\ CallInv /\ TodoInv /\ SharedInv

-----------------------------------------------------------------------------
(* The least of some numbers.                                              *)

LEMMA MinOf ==
    ASSUME NEW S \in SUBSET Nat, S # {}
    PROVE  Min(S) \in S
<1>1. PICK c \in S : \A d \in S : ~(<<d, c>> \in OpToRel(<, Nat))
  BY NatLessThanWellFounded, WFMin
<1>2. \A d \in S : c <= d
  <2> SUFFICES ASSUME NEW d \in S, d < c PROVE FALSE
    OBVIOUS
  <2>1. <<d, c>> \in OpToRel(<, Nat)
    BY DEF OpToRel
  <2> QED
    BY <1>1, <2>1
<1> QED
  BY <1>2 DEF Min

-----------------------------------------------------------------------------
(* Types.                                                                  *)

LEMMA Bounds ==
    /\ Envelope \in Nat /\ KvDelta \in Nat /\ Ttl \in Nat /\ Retention \in Nat
    /\ MaxOps \in Nat /\ MaxTime \in Nat /\ MaxFaults \in Nat /\ Ops \subseteq Nat
    /\ \A r \in Requests : r.service \in Services
BY BoundsAssumption, RequestsAssumption DEF Ops

LEMMA UsedTyped ==
    ASSUME TypeOK, NEW n \in Used
    PROVE  /\ n \in Ops /\ ops[n] \in Operations /\ ops[n].request \in Requests
           /\ ops[n].gen \in Generations /\ ops[n].row \in Rows
           /\ ops[n].marker \in Nat /\ ops[n].answer \in Nat /\ ops[n].delta \in Nat
           /\ ops[n].charged \in Nat /\ Backend(n) \in Services
<1>1. n \in Ops /\ ops[n] \in Operations
  BY DEF Used, TypeOK
<1> QED
  BY <1>1, Bounds DEF Operations, Backend

LEMMA BusyTyped ==
    ASSUME TypeOK, NEW t \in Busy
    PROVE  /\ t \in Threads /\ call[t] \in Calls /\ Op(t) \in Ops /\ call[t].proc \in Processes
           /\ call[t].measured \in Nat /\ call[t].answer \in Nat
           /\ call[t].outcome \in {"ok", "error"}
           /\ call[t].at \in {"work", "commit", "measure", "finalize", "complete", "answer"}
<1>1. t \in Threads /\ call[t] \in Calls
  BY DEF Busy, TypeOK
<1> QED
  BY <1>1 DEF Calls, Op

(* An operation is changed by replacing its record.                        *)
Touched(n, r) ==
    /\ n \in Used /\ r \in Operations /\ r.gen = ops[n].gen /\ r.request = ops[n].request
    /\ r.row # "none" => ops[n].row # "none"
    /\ Kinded(r)
    /\ ops' = [ops EXCEPT ![n] = r]

LEMMA TouchedFacts ==
    ASSUME TypeOK, KindInv, RowsInv, NEW n, NEW r, Touched(n, r)
    PROVE  /\ ops' \in [Ops -> Operations \cup {None}] /\ Used' = Used
           /\ ops'[n] = r /\ \A m \in Ops \ {n} : ops'[m] = ops[m]
           /\ KindInv' /\ RowsInv'
<1>1. n \in Ops /\ r \in Operations /\ r # None /\ ops \in [Ops -> Operations \cup {None}]
      /\ ops' = [ops EXCEPT ![n] = r] /\ n \in Used
  BY NoneAssumption, UsedTyped DEF Touched, TypeOK
<1>2. /\ ops' \in [Ops -> Operations \cup {None}] /\ ops'[n] = r
      /\ \A m \in Ops \ {n} : ops'[m] = ops[m]
  BY <1>1
<1>3. Used' = Used
  BY <1>1, <1>2 DEF Used
<1>4. Used \subseteq Ops
  BY DEF Used
<1>5. KindInv'
  <2>1. \A m \in Used : Kinded(ops'[m])
    BY <1>2, <1>4 DEF Touched, KindInv
  <2> QED
    BY <1>3, <2>1 DEF KindInv, Kinded
<1>6. \A m \in Used : /\ ops'[m].gen = ops[m].gen /\ ops'[m].request = ops[m].request
                      /\ ops'[m].row # "none" => ops[m].row # "none"
  BY <1>2, <1>4 DEF Touched
<1>7. RowsInv'
  BY <1>3, <1>6 DEF RowsInv, SameIdentity
<1> QED
  BY <1>2, <1>3, <1>5, <1>7

LEMMA UntouchedFacts ==
    ASSUME TypeOK, KindInv, RowsInv, ops' = ops
    PROVE  /\ ops' \in [Ops -> Operations \cup {None}] /\ Used' = Used
           /\ \A m \in Ops : ops'[m] = ops[m]
           /\ KindInv' /\ RowsInv'
BY DEF TypeOK, Used, KindInv, Kinded, RowsInv, SameIdentity

(* The record of an operation, field by field.                             *)
LEMMA OpParts ==
    ASSUME NEW r \in Operations
    PROVE  r = [gen |-> r.gen, request |-> r.request, row |-> r.row, answer |-> r.answer,
                expires |-> r.expires, reservation |-> r.reservation, delta |-> r.delta,
                charged |-> r.charged, marker |-> r.marker]
BY DEF Operations

-----------------------------------------------------------------------------
(* The step of a thread: it may change its own call and its own operation.  *)

ProcSame == /\ proc' \in [Processes -> Providers]
            /\ \A p \in Processes : proc'[p].mode = proc[p].mode /\ proc'[p].todo = proc[p].todo

LEMMA ThreadStep ==
    ASSUME IInv, NEW t \in Busy, NEW c \in Calls \cup {None}, call' = [call EXCEPT ![t] = c],
           c # None => c.proc = call[t].proc /\ c.op = Op(t),
           NEW r, Touched(Op(t), r), ProcSame,
           usage' \in [Backends -> Nat], file' \in [Backends -> Nat], entry' \in Entries,
           answers' \subseteq [gen : Generations, request : Requests, outcome : {"ok", "error"}, answer : Nat],
           now' \in 0..MaxTime, faults' \in 0..MaxFaults,
           c # None /\ c.at \in Critical =>
              r.request.service \in Backends /\ (call[t].at \in Critical \/ Unlocked(call[t].proc)),
           \A u \in Busy \ {t} : call[u].at = "finalize" =>
              file'[Backend(Op(u))] = file[Backend(Op(u))] \/ Op(u) \in outrun',
           overtaken' = overtaken, outrun \subseteq outrun', outrun' \subseteq Ops,
           c # None => Knows(c, r, file', overtaken, outrun'), HasRow(r, Op(t), overtaken), Accounted'
    PROVE  IInv'
<1> DEFINE n == Op(t)
<1>1. /\ TypeOK /\ KindInv /\ RowsInv /\ CallInv /\ t \in Threads /\ call[t] \in Calls
      /\ n \in Ops /\ call[t].proc \in Processes
  BY BusyTyped DEF IInv
<1>2. /\ ops' \in [Ops -> Operations \cup {None}] /\ Used' = Used
      /\ ops'[n] = r /\ \A m \in Ops \ {n} : ops'[m] = ops[m]
      /\ KindInv' /\ RowsInv' /\ r.request = ops[n].request
  BY <1>1, TouchedFacts DEF Touched
<1> HIDE DEF n
<1>3. /\ call' \in [Threads -> Calls \cup {None}] /\ call'[t] = c
      /\ \A u \in Threads \ {t} : call'[u] = call[u]
  BY <1>1 DEF TypeOK
<1>4. TypeOK'
  BY <1>1, <1>2, <1>3 DEF TypeOK, ProcSame
<1>5. Busy' = IF c = None THEN Busy \ {t} ELSE Busy
  BY <1>3 DEF Busy
<1>6. /\ \A u \in Busy : u \in Threads /\ call[u].proc \in Processes /\ Op(u) \in Ops
      /\ \A u \in Busy \ {t} : call'[u] = call[u] /\ Op(u)' = Op(u) /\ Op(u) # n
                               /\ ops'[Op(u)] = ops[Op(u)]
      /\ c # None => call'[t] = c /\ Op(t)' = n /\ c.proc = call[t].proc
  <2>1. \A u \in Busy : u \in Threads /\ call[u].proc \in Processes /\ Op(u) \in Ops
    BY <1>1, BusyTyped
  <2>2. \A u \in Busy \ {t} : call'[u] = call[u] /\ Op(u) # n
    BY <1>1, <1>3, <2>1 DEF CallInv, n
  <2>3. \A u \in Busy \ {t} : Op(u)' = Op(u) /\ ops'[Op(u)] = ops[Op(u)]
    BY <1>2, <2>1, <2>2 DEF Op
  <2>4. c # None => call'[t] = c /\ Op(t)' = n /\ c.proc = call[t].proc
    BY <1>3 DEF Op, n
  <2> QED
    BY <2>1, <2>2, <2>3, <2>4
<1>7. \A u \in Busy' : u \in Busy /\ call'[u].proc = call[u].proc /\ Op(u)' = Op(u)
  BY <1>5, <1>6 DEF n
<1>8. \A u \in Busy' \ {t} : call'[u] = call[u]
  BY <1>6, <1>7
<1>9. CallInv'
  <2>1. \A u \in Busy' : Serving(call[u].proc) /\ proc'[call[u].proc].mode = "serving"
                         /\ Op(u) \in Used
    BY <1>1, <1>6, <1>7 DEF CallInv, Serving, ProcSame
  <2>2. \A u \in Busy' : call'[u].at \in Critical => ops'[Op(u)].request.service \in Backends
    <3>1. \A u \in Busy : call[u].at \in Critical => ops[Op(u)].request.service \in Backends
      BY <1>1 DEF CallInv, Backend
    <3>2. \A u \in Busy' \ {t} : call'[u].at \in Critical => ops'[Op(u)].request.service \in Backends
      BY <1>6, <1>7, <3>1
    <3>3. t \in Busy' => (call'[t].at \in Critical => ops'[Op(t)].request.service \in Backends)
      BY <1>2, <1>3, <1>5 DEF n
    <3> QED
      BY <3>2, <3>3
  <2>3. \A u, w \in Busy' : Op(u) = Op(w) => u = w
    BY <1>1, <1>7 DEF CallInv
  <2>4. \A u, w \in Busy' : call'[u].at \in Critical /\ call'[w].at \in Critical
                            /\ call[u].proc = call[w].proc => u = w
    <3>1. \A u, w \in Busy' \ {t} : call'[u].at \in Critical /\ call'[w].at \in Critical
                                    /\ call[u].proc = call[w].proc => u = w
      BY <1>1, <1>7, <1>8 DEF CallInv
    <3>2. ASSUME NEW u \in Busy' \ {t}, t \in Busy', call'[u].at \in Critical,
                 call'[t].at \in Critical, call[u].proc = call[t].proc
          PROVE  FALSE
      <4>1. c # None /\ c.at \in Critical /\ call[u].at \in Critical /\ u \in Busy
            /\ call[u] # None /\ u \in Threads
        BY <1>3, <1>5, <1>6, <1>7, <1>8, <3>2 DEF Busy
      <4>2. CASE call[t].at \in Critical
        BY <1>1, <3>2, <4>1, <4>2 DEF CallInv
      <4>3. CASE Unlocked(call[t].proc)
        BY <3>2, <4>1, <4>3 DEF Unlocked, Critical
      <4> QED
        BY <4>1, <4>2, <4>3
    <3> QED
      BY <3>1, <3>2
  <2> QED
    BY <1>2, <1>7, <2>1, <2>2, <2>3, <2>4 DEF CallInv, Serving, Backend
<1>10. SharedInv'
  <2>1. SharedInv
    BY DEF IInv
  <2>2. \A u \in Busy' : Knows(call'[u], ops'[Op(u)], file', overtaken', outrun')
    <3>1. ASSUME NEW u \in Busy' \ {t} PROVE Knows(call'[u], ops'[Op(u)], file', overtaken', outrun')
      <4>1. u \in Busy \ {t} /\ call'[u] = call[u] /\ ops'[Op(u)] = ops[Op(u)] /\ call[u].op = Op(u)
        BY <1>6, <1>7 DEF Op
      <4>2. Knows(call[u], ops[Op(u)], file, overtaken, outrun)
        BY <2>1, <4>1 DEF SharedInv
      <4>3. call[u].at = "finalize" =>
              file'[ops[Op(u)].request.service] = file[ops[Op(u)].request.service] \/ Op(u) \in outrun'
        BY <4>1 DEF Backend
      <4> QED
        BY <4>1, <4>2, <4>3 DEF Knows
    <3>2. t \in Busy' => Knows(call'[t], ops'[Op(t)], file', overtaken', outrun')
      BY <1>2, <1>3, <1>5 DEF n
    <3> QED
      BY <3>1, <3>2
  <2>3. \A m \in Used' : HasRow(ops'[m], m, overtaken')
    <3>1. Used \subseteq Ops
      BY DEF Used
    <3> QED
      BY <1>2, <2>1, <3>1 DEF SharedInv, n
  <2>4. (\A u \in Busy : Knows(call[u], ops[Op(u)], file, overtaken, outrun))'
    BY <1>7, <2>2 DEF Knows
  <2>5. (\A m \in Used : HasRow(ops[m], m, overtaken))'
    BY <2>3 DEF HasRow
  <2> QED
    BY <2>4, <2>5 DEF SharedInv
<1>11. TodoInv'
  <2>1. TodoInv
    BY DEF IInv
  <2> QED
    BY <1>2, <2>1 DEF TodoInv, Todo, ProcSame
<1> QED
  BY <1>2, <1>4, <1>9, <1>10, <1>11 DEF IInv

(* The operation of a call, and what is known of it.                       *)
LEMMA CallFacts ==
    ASSUME IInv, NEW t \in Busy
    PROVE  /\ t \in Threads /\ call[t] \in Calls /\ Op(t) \in Used /\ call[t].op = Op(t)
           /\ ops[Op(t)] \in Operations /\ Kinded(ops[Op(t)])
           /\ Serving(call[t].proc)
           /\ call[t].at \in Critical => Backend(Op(t)) \in Backends
           /\ Knows(call[t], ops[Op(t)], file, overtaken, outrun)
           /\ HasRow(ops[Op(t)], Op(t), overtaken) /\ Accounted
           /\ Backend(Op(t)) \in Services
<1>1. TypeOK /\ KindInv /\ CallInv /\ Op(t) \in Used
  BY DEF IInv, CallInv
<1> QED
  BY <1>1, BusyTyped, UsedTyped DEF IInv, CallInv, KindInv, SharedInv, Op

LEMMA StaysTouched == ASSUME IInv, NEW n \in Used, ops' = ops PROVE Touched(n, ops[n])
<1>1. /\ ops[n] \in Operations /\ n \in Ops /\ ops \in [Ops -> Operations \cup {None}]
      /\ Kinded(ops[n])
  BY UsedTyped DEF IInv, KindInv, TypeOK
<1> QED
  BY <1>1 DEF Touched

LEMMA AccountedKept ==
    ASSUME IInv, NEW n, NEW r, Touched(n, r), UNCHANGED <<usage, file>>, outrun \subseteq outrun',
           ops[n].marker > 0 => r.marker > 0,
           ops[n].marker > 0 /\ ops[n].reservation = "reserved" => r.reservation = "reserved"
    PROVE  Accounted'
<1>1. /\ Used' = Used /\ ops'[n] = r /\ (\A m \in Ops \ {n} : ops'[m] = ops[m])
      /\ r.request = ops[n].request /\ n \in Used /\ Used \subseteq Ops
  BY TouchedFacts DEF IInv, Touched, Used
<1>2. \A m \in Used : ops[m].marker > 0 =>
        /\ ops'[m].marker > 0 /\ ops'[m].request = ops[m].request
        /\ ops[m].reservation = "reserved" => ops'[m].reservation = "reserved"
  BY <1>1
<1>3. Accounted
  BY DEF IInv, SharedInv
<1> QED
  BY <1>1, <1>2, <1>3 DEF Accounted, Marked, Backend

LEMMA ProcStays == ASSUME IInv, UNCHANGED proc PROVE ProcSame
BY DEF IInv, TypeOK, ProcSame

AnswersTyped == [gen : Generations, request : Requests, outcome : {"ok", "error"}, answer : Nat]

(* A thread goes on without touching a file.                               *)
LEMMA QuietThread ==
    ASSUME IInv, NEW t \in Busy, NEW c \in Calls \cup {None}, call' = [call EXCEPT ![t] = c],
           c # None => c.proc = call[t].proc /\ c.op = Op(t),
           UNCHANGED <<files, overlaps, now>>, ProcSame, answers' \subseteq AnswersTyped, faults' \in 0..MaxFaults,
           c # None => c.at \notin Critical \/ call[t].at \in Critical,
           c # None => Knows(c, ops[Op(t)], file, overtaken, outrun)
    PROVE  IInv'
<1>1. UNCHANGED <<ops, usage, file, entry, overtaken, outrun, now>>
  BY DEF files, overlaps
<1>2. Op(t) \in Used
  BY CallFacts
<1>3. Touched(Op(t), ops[Op(t)])
  BY <1>1, <1>2, StaysTouched
<1>4. /\ usage' \in [Backends -> Nat] /\ file' \in [Backends -> Nat] /\ entry' \in Entries
      /\ now' \in 0..MaxTime /\ outrun' \subseteq Ops
  BY <1>1 DEF IInv, TypeOK
<1>5. c # None /\ c.at \in Critical =>
        ops[Op(t)].request.service \in Backends /\ call[t].at \in Critical
  BY CallFacts DEF Backend
<1>6. /\ c # None => Knows(c, ops[Op(t)], file', overtaken, outrun')
      /\ HasRow(ops[Op(t)], Op(t), overtaken) /\ Accounted'
  BY <1>1, <1>3, AccountedKept, CallFacts
<1> QED
  BY <1>1, <1>3, <1>4, <1>5, <1>6, ThreadStep DEF AnswersTyped

LEMMA BusyAt == ASSUME NEW t \in Threads, NEW step, At(t, step) PROVE t \in Busy /\ call[t].at = step
BY DEF At, Busy

LEMMA RespondTyped ==
    ASSUME IInv, NEW t \in Busy, NEW outcome \in {"ok", "error"}, NEW answer \in Nat
    PROVE  LET c == [call[t] EXCEPT !.at = "complete", !.outcome = outcome, !.answer = answer] IN
           /\ c \in Calls /\ c.proc = call[t].proc /\ c.op = Op(t) /\ c.at = "complete"
<1>1. call[t] \in Calls
  BY CallFacts
<1> QED
  BY <1>1 DEF Calls, Op

(* A call that is over with its mutation knows nothing any more.           *)
LEMMA KnowsNothing ==
    ASSUME NEW c, NEW r, NEW bytes, NEW os, NEW us, c.at \in {"complete", "answer"}
    PROVE  Knows(c, r, bytes, os, us) /\ c.at \notin Critical
BY DEF Knows, Critical

LEMMA RespondKeeps ==
    ASSUME IInv, NEW t \in Busy, NEW outcome \in {"ok", "error"}, Respond(t, outcome),
           UNCHANGED <<files, overlaps, now>>, ProcSame, answers' \subseteq AnswersTyped, faults' \in 0..MaxFaults
    PROVE  IInv'
<1>1. call[t] \in Calls /\ t \in Threads /\ call[t].answer \in Nat
  BY CallFacts, BusyTyped DEF IInv
<1>2. PICK c : c = [call[t] EXCEPT !.at = "complete", !.outcome = outcome]
  OBVIOUS
<1>3. c \in Calls /\ c.proc = call[t].proc /\ c.op = Op(t) /\ c.at = "complete"
  BY <1>1, <1>2 DEF Calls, Op
<1>4. call' = [call EXCEPT ![t] = c]
  BY <1>2 DEF Respond
<1>5. c \in Calls \cup {None} /\ c.at \notin Critical /\ Knows(c, ops[Op(t)], file, overtaken, outrun)
  BY <1>3, KnowsNothing
<1> QED
  BY <1>3, <1>4, <1>5, QuietThread

LEMMA AnsweredKeeps ==
    ASSUME IInv, NEW t \in Busy, NEW outcome \in {"ok", "error"}, Answered(t, outcome),
           UNCHANGED <<files, overlaps, now>>, ProcSame, answers' \subseteq AnswersTyped, faults' \in 0..MaxFaults
    PROVE  IInv'
<1>1. PICK answer \in Nat : answer = IF outcome = "ok" THEN ops[Op(t)].marker ELSE 0
  <2>1. ops[Op(t)].marker \in Nat
    BY CallFacts, UsedTyped DEF IInv
  <2> QED
    BY <2>1
<1>2. PICK c : c = [call[t] EXCEPT !.at = "complete", !.outcome = outcome, !.answer = answer]
  OBVIOUS
<1>3. c \in Calls /\ c.proc = call[t].proc /\ c.op = Op(t) /\ c.at = "complete"
  BY <1>2, RespondTyped
<1>4. call' = [call EXCEPT ![t] = c]
  BY <1>1, <1>2 DEF Answered
<1>5. c \in Calls \cup {None} /\ c.at \notin Critical /\ Knows(c, ops[Op(t)], file, overtaken, outrun)
  BY <1>3, KnowsNothing
<1> QED
  BY <1>3, <1>4, <1>5, QuietThread

LEMMA RestTyped ==
    ASSUME IInv
    PROVE  /\ answers \subseteq AnswersTyped /\ faults \in 0..MaxFaults
           /\ usage \in [Backends -> Nat] /\ file \in [Backends -> Nat] /\ entry \in Entries
           /\ now \in 0..MaxTime /\ now \in Nat /\ overtaken \subseteq Ops /\ outrun \subseteq Ops
           /\ Fault => faults' \in 0..MaxFaults
BY Bounds DEF IInv, TypeOK, AnswersTyped, Fault

LEMMA WriteLogKeeps == ASSUME IInv, NEW t \in Threads, WriteLog(t) PROVE IInv'
<1>1. t \in Busy /\ Respond(t, "ok") /\ UNCHANGED <<files, proc, answers, overlaps, now, faults>>
  BY DEF WriteLog, At, Busy
<1> QED
  BY <1>1, RespondKeeps, ProcStays, RestTyped

LEMMA RefuseKeeps == ASSUME IInv, NEW t \in Threads, Refuse(t) PROVE IInv'
<1>1. t \in Busy /\ Respond(t, "error") /\ UNCHANGED <<files, proc, answers, overlaps, now, faults>>
  BY DEF Refuse, At, Busy
<1> QED
  BY <1>1, RespondKeeps, ProcStays, RestTyped

LEMMA QuarantineFacts ==
    ASSUME IInv, NEW p \in Processes, NEW bs \in SUBSET Backends, Quarantine(p, bs)
    PROVE  ProcSame
<1>1. proc \in [Processes -> Providers]
  BY DEF IInv, TypeOK
<1>2. PICK x : x = [proc[p] EXCEPT !.quarantined = @ \cup bs]
  OBVIOUS
<1>3. x \in Providers /\ x.mode = proc[p].mode /\ x.todo = proc[p].todo
  BY <1>1, <1>2 DEF Providers
<1>4. proc' = [proc EXCEPT ![p] = x]
  BY <1>2 DEF Quarantine
<1> QED
  BY <1>1, <1>3, <1>4 DEF ProcSame

LEMMA MeasureKeeps == ASSUME IInv, NEW t \in Threads, Measure(t) PROVE IInv'
<1>1. t \in Busy /\ call[t].at = "measure" /\ UNCHANGED <<files, answers, overlaps, now>>
  BY DEF Measure, At, Busy
<1>2. /\ call[t] \in Calls /\ Backend(Op(t)) \in Backends /\ call[t].proc \in Processes
      /\ file[Backend(Op(t))] \in Nat
  BY <1>1, CallFacts, BusyTyped, RestTyped DEF Critical, IInv
<1>3. CASE /\ call' = [call EXCEPT ![t].at = "finalize", ![t].measured = file[Backend(Op(t))]]
           /\ UNCHANGED <<proc, faults>>
  <2>1. PICK c : c = [call[t] EXCEPT !.at = "finalize", !.measured = file[Backend(Op(t))]]
    OBVIOUS
  <2>2. /\ c \in Calls /\ c.proc = call[t].proc /\ c.op = Op(t) /\ c.at = "finalize"
        /\ c.measured = file[Backend(Op(t))]
    BY <1>2, <2>1 DEF Calls, Op
  <2>3. call' = [call EXCEPT ![t] = c]
    BY <1>3, <2>1
  <2>4. Knows(c, ops[Op(t)], file, overtaken, outrun)
    BY <1>1, <2>2, CallFacts DEF Knows, Critical, Backend
  <2> QED
    BY <1>1, <1>3, <2>2, <2>3, <2>4, ProcStays, RestTyped, QuietThread DEF Critical
<1>4. CASE /\ Fault /\ Unsettled(t)
           /\ Quarantine(call[t].proc, {Backend(Op(t))} \ {"sql"})
  <2>1. PICK outcome \in {"ok", "error"} : Answered(t, outcome)
    BY <1>4 DEF Unsettled
  <2>2. ProcSame
    BY <1>2, <1>4, QuarantineFacts
  <2> QED
    BY <1>1, <1>4, <2>1, <2>2, RestTyped, AnsweredKeeps
<1> QED
  BY <1>3, <1>4 DEF Measure

LEMMA CannotFinalizeKeeps == ASSUME IInv, NEW t \in Threads, CannotFinalize(t) PROVE IInv'
<1>1. /\ t \in Busy /\ call[t].at = "finalize" /\ UNCHANGED <<files, answers, overlaps, now>>
      /\ Fault \/ faults' = faults
      /\ Quarantine(call[t].proc, {Backend(Op(t))}) /\ Unsettled(t)
  BY DEF CannotFinalize, At, Busy
<1>2. Backend(Op(t)) \in Backends /\ call[t].proc \in Processes
  BY <1>1, CallFacts, BusyTyped DEF Critical, IInv
<1>3. PICK outcome \in {"ok", "error"} : Answered(t, outcome)
  BY <1>1 DEF Unsettled
<1>4. ProcSame
  BY <1>1, <1>2, QuarantineFacts
<1> QED
  BY <1>1, <1>3, <1>4, RestTyped, AnsweredKeeps

LEMMA ReserveKeeps == ASSUME IInv, NEW t \in Threads, Reserve(t) PROVE IInv'
<1> DEFINE n == Op(t)
<1>1. /\ t \in Busy /\ call[t].at = "work" /\ Backend(n) # "logging" /\ Unlocked(call[t].proc)
      /\ DeltaOf(Backend(n)) \in 1..Envelope
      /\ ops' = [ops EXCEPT ![n].reservation = "reserved", ![n].delta = DeltaOf(Backend(n)),
                            ![n].charged = now + Ttl]
      /\ Goto(t, "commit")
      /\ UNCHANGED <<usage, file, entry, proc, answers, overtaken, outrun, now, faults>>
  BY DEF Reserve, At, Busy, Fits, overlaps
<1>2. /\ call[t] \in Calls /\ n \in Used /\ n \in Ops /\ ops[n] \in Operations
      /\ Backend(n) \in Backends
  BY <1>1, CallFacts, UsedTyped DEF IInv, Services
<1>3. PICK delta : delta = DeltaOf(Backend(n))
  OBVIOUS
<1>4. delta \in Nat /\ now + Ttl \in Nat
  BY <1>1, <1>3, Bounds, RestTyped
<1>5. PICK r : r = [ops[n] EXCEPT !.reservation = "reserved", !.delta = delta, !.charged = now + Ttl]
  OBVIOUS
<1>6. /\ r \in Operations /\ r.gen = ops[n].gen /\ r.request = ops[n].request /\ r.row = ops[n].row
      /\ r.marker = ops[n].marker /\ r.reservation = "reserved"
  BY <1>2, <1>4, <1>5 DEF Operations
<1>7. ops' = [ops EXCEPT ![n] = r]
  BY <1>1, <1>3, <1>5
<1>8. Touched(n, r)
  BY <1>2, <1>6, <1>7 DEF Touched, Kinded, Backend
<1>9. PICK c : c = [call[t] EXCEPT !.at = "commit"]
  OBVIOUS
<1>10. c \in Calls /\ c.proc = call[t].proc /\ c.op = n /\ c.at = "commit"
  BY <1>2, <1>9 DEF Calls, Op
<1>11. call' = [call EXCEPT ![t] = c]
  BY <1>1, <1>9 DEF Goto
<1>12. Knows(c, r, file', overtaken, outrun') /\ HasRow(r, n, overtaken) /\ Accounted'
  <2>1. /\ ops[n].marker = 0
        /\ ops[n].row = "claimed" \/ (ops[n].row = "none" /\ n \in overtaken)
    BY <1>1, CallFacts DEF Knows
  <2>2. Accounted'
    BY <1>1, <1>6, <1>8, <2>1, AccountedKept
  <2> QED
    BY <1>6, <1>10, <2>1, <2>2 DEF Knows, HasRow
<1>13. /\ usage' \in [Backends -> Nat] /\ file' \in [Backends -> Nat] /\ entry' \in Entries
       /\ now' \in 0..MaxTime /\ faults' \in 0..MaxFaults /\ file' = file /\ ProcSame /\ outrun' \subseteq Ops
       /\ answers' \subseteq [gen : Generations, request : Requests, outcome : {"ok", "error"}, answer : Nat]
  BY <1>1, RestTyped, ProcStays DEF AnswersTyped
<1>14. r.request.service \in Backends
  BY <1>2, <1>6 DEF Backend
<1> HIDE DEF n
<1> QED
  BY <1>1, <1>8, <1>10, <1>11, <1>12, <1>13, <1>14, ThreadStep DEF n

LEMMA MutatedTyped == ASSUME IInv, NEW n \in Used PROVE Mutated(n) \in Entries /\ Mutated(n).version \in Nat
<1>1. entry \in [version : Nat, tombstone : BOOLEAN, deletedAt : Nat] /\ now \in Nat
  BY RestTyped DEF Entries
<1>2. Mutated(n) \in [version : Nat, tombstone : BOOLEAN, deletedAt : Nat]
  BY <1>1 DEF Mutated
<1> QED
  BY <1>2 DEF Entries

LEMMA CommitKeeps == ASSUME IInv, NEW t \in Threads, NEW growth \in Growths, Commit(t, growth) PROVE IInv'
<1> DEFINE n == Op(t)
           b == Backend(n)
<1>1. /\ t \in Busy /\ call[t].at = "commit" /\ entry' = Mutated(n)
      /\ ops' = [ops EXCEPT ![n].marker = IF b = "kv" THEN entry'.version ELSE 1]
      /\ file' = [file EXCEPT ![b] = @ + growth] /\ Goto(t, "measure")
      /\ outrun' = outrun \cup Outgrown(t, b)
      /\ UNCHANGED <<usage, proc, answers, overtaken, now, faults>>
  BY DEF Commit, At, Busy
<1>2. /\ call[t] \in Calls /\ n \in Used /\ n \in Ops /\ ops[n] \in Operations
      /\ b \in Backends /\ Kinded(ops[n]) /\ ops \in [Ops -> Operations \cup {None}]
  BY <1>1, CallFacts, UsedTyped DEF IInv, Critical, TypeOK
<1>3. growth \in Nat /\ file \in [Backends -> Nat]
  BY BoundsAssumption, RestTyped
<1>4. PICK marker : marker = IF b = "kv" THEN Mutated(n).version ELSE 1
  OBVIOUS
<1>5. marker \in Nat /\ marker > 0 /\ entry' \in Entries
  <2>1. b = "kv" => Mutated(n).version = entry.version + 1 /\ entry.version \in Nat
    BY RestTyped DEF Mutated, Entries
  <2> QED
    BY <1>1, <1>2, <1>4, <2>1, MutatedTyped
<1>6. PICK r : r = [ops[n] EXCEPT !.marker = marker]
  OBVIOUS
<1>7. /\ r \in Operations /\ r.gen = ops[n].gen /\ r.request = ops[n].request /\ r.row = ops[n].row
      /\ r.marker = marker /\ r.reservation = ops[n].reservation
  BY <1>2, <1>5, <1>6 DEF Operations
<1>8. ops' = [ops EXCEPT ![n] = r]
  BY <1>1, <1>4, <1>6
<1>9. Touched(n, r) /\ r.request.service \in Backends
  BY <1>2, <1>7, <1>8 DEF Touched, Kinded, Backend
<1>10. PICK c : c = [call[t] EXCEPT !.at = "measure"]
  OBVIOUS
<1>11. c \in Calls /\ c.proc = call[t].proc /\ c.op = n /\ c.at = "measure"
  BY <1>2, <1>10 DEF Calls, Op
<1>12. call' = [call EXCEPT ![t] = c]
  BY <1>1, <1>10 DEF Goto
<1>13. Knows(c, r, file', overtaken, outrun') /\ HasRow(r, n, overtaken) /\ Accounted'
  <2>1. /\ ops[n].row = "claimed" \/ (ops[n].row = "none" /\ n \in overtaken)
        /\ ops[n].reservation = "reserved" \/ n \in outrun
        /\ call[t].op = n /\ Accounted
    BY <1>1, CallFacts DEF Knows
  <2>2. /\ Used' = Used /\ ops'[n] = r /\ (\A m \in Ops \ {n} : ops'[m] = ops[m]) /\ Used \subseteq Ops
    BY <1>9, TouchedFacts DEF IInv, Used
  <2>3. \A d \in Backends \ {b} : file'[d] = file[d]
    BY <1>1, <1>2, <1>3
  <2>4. ASSUME NEW d \in Backends, usage'[d] # file'[d]
        PROVE  \E m \in Used : /\ ops'[m].marker > 0 /\ ops'[m].request.service = d
                               /\ ops'[m].reservation = "reserved" \/ m \in outrun'
    <3>1. CASE d = b
      BY <1>1, <1>2, <1>5, <1>7, <2>1, <2>2, <3>1 DEF Backend
    <3>2. CASE d # b
      <4>1. PICK m \in Marked(d) : ops[m].reservation = "reserved" \/ m \in outrun
        BY <1>1, <2>1, <2>3, <2>4, <3>2 DEF Accounted
      <4>2. m \in Used /\ ops[m].marker > 0 /\ ops[m].request.service = d /\ m # n
        BY <3>2, <4>1 DEF Marked, Backend
      <4> QED
        BY <1>1, <2>2, <4>1, <4>2
    <3> QED
      BY <3>1, <3>2
  <2>5. Accounted'
    BY <2>2, <2>4 DEF Accounted, Marked, Backend
  <2> QED
    BY <1>5, <1>7, <1>11, <2>1, <2>5 DEF Knows, HasRow
<1>14. /\ usage' \in [Backends -> Nat] /\ file' \in [Backends -> Nat]
       /\ now' \in 0..MaxTime /\ faults' \in 0..MaxFaults /\ ProcSame
       /\ answers' \subseteq [gen : Generations, request : Requests, outcome : {"ok", "error"}, answer : Nat]
  BY <1>1, <1>2, <1>3, RestTyped, ProcStays DEF AnswersTyped
<1>15. /\ \A u \in Busy \ {t} : call[u].at = "finalize" =>
             file'[Backend(Op(u))] = file[Backend(Op(u))] \/ Op(u) \in outrun'
       /\ outrun' \subseteq Ops
  <2>1. ASSUME NEW u \in Busy \ {t}, call[u].at = "finalize"
        PROVE  file'[Backend(Op(u))] = file[Backend(Op(u))] \/ Op(u) \in outrun'
    <3>1. Backend(Op(u)) \in Backends /\ u \in Threads /\ call[u] # None
      BY <2>1, CallFacts DEF Critical, Busy
    <3>2. CASE Backend(Op(u)) = b
      BY <1>1, <2>1, <3>1, <3>2 DEF Outgrown, At
    <3>3. CASE Backend(Op(u)) # b
      BY <1>1, <1>2, <1>3, <3>1, <3>3
    <3> QED
      BY <3>2, <3>3
  <2>2. Outgrown(t, b) \subseteq Ops
    BY BusyTyped DEF IInv, Outgrown, At, Busy
  <2>3. outrun \subseteq Ops
    BY DEF IInv, TypeOK
  <2> QED
    BY <1>1, <2>1, <2>2, <2>3
<1> HIDE DEF n, b
<1> QED
  BY <1>1, <1>5, <1>9, <1>11, <1>12, <1>13, <1>14, <1>15, ThreadStep DEF n, Critical

LEMMA AbortKeeps == ASSUME IInv, NEW t \in Threads, Abort(t) PROVE IInv'
<1> DEFINE n == Op(t)
<1>1. /\ t \in Busy /\ call[t].at = "commit" /\ Respond(t, "error")
      /\ UNCHANGED <<usage, file, entry, proc, answers, overtaken, outrun, now>>
  BY DEF Abort, At, Busy, overlaps
<1>2. CASE ops' = Released(n) /\ UNCHANGED faults
  <2>1. /\ call[t] \in Calls /\ n \in Used /\ n \in Ops /\ ops[n] \in Operations
        /\ Kinded(ops[n])
    BY CallFacts, UsedTyped, <1>1 DEF IInv
  <2>2. PICK r : r = [ops[n] EXCEPT !.reservation = IF @ = "reserved" THEN "released" ELSE @]
    OBVIOUS
  <2>3. /\ r \in Operations /\ r.gen = ops[n].gen /\ r.request = ops[n].request /\ r.row = ops[n].row
        /\ r.marker = ops[n].marker /\ (r.reservation # "none" => ops[n].reservation # "none")
    BY <2>1, <2>2 DEF Operations
  <2>4. ops' = [ops EXCEPT ![n] = r]
    BY <1>2, <2>2 DEF Released
  <2>5. Touched(n, r)
    BY <2>1, <2>3, <2>4 DEF Touched, Kinded
  <2>6. PICK c : c = [call[t] EXCEPT !.at = "complete", !.outcome = "error"]
    OBVIOUS
  <2>7. c \in Calls /\ c.proc = call[t].proc /\ c.op = n /\ c.at = "complete"
    BY <2>1, <2>6 DEF Calls, Op
  <2>8. call' = [call EXCEPT ![t] = c]
    BY <1>1, <2>6 DEF Respond
  <2>9. Knows(c, r, file', overtaken, outrun') /\ HasRow(r, n, overtaken) /\ Accounted'
    <3>1. ops[n].marker = 0
      BY <1>1, CallFacts DEF Knows
    <3>2. Accounted'
      BY <1>1, <2>5, <3>1, AccountedKept
    <3> QED
      BY <2>3, <2>7, <3>1, <3>2, KnowsNothing DEF HasRow
  <2>10. /\ usage' \in [Backends -> Nat] /\ file' \in [Backends -> Nat] /\ entry' \in Entries
         /\ now' \in 0..MaxTime /\ faults' \in 0..MaxFaults /\ file' = file /\ ProcSame /\ outrun' \subseteq Ops
         /\ answers' \subseteq [gen : Generations, request : Requests, outcome : {"ok", "error"}, answer : Nat]
         /\ c.at \notin Critical
    BY <1>1, <1>2, <2>7, RestTyped, ProcStays DEF AnswersTyped, Critical
  <2> HIDE DEF n
  <2> QED
    BY <1>1, <2>5, <2>7, <2>8, <2>9, <2>10, ThreadStep DEF n
<1>3. CASE UNCHANGED ops /\ Fault
  <2>1. UNCHANGED <<files, overlaps, now>>
    BY <1>1, <1>3 DEF files, overlaps
  <2> QED
    BY <1>1, <1>3, <2>1, RespondKeeps, ProcStays, RestTyped
<1> QED
  BY <1>2, <1>3 DEF Abort

(* A reservation that is finalized leaves no byte behind.                  *)
LEMMA AccountedSettled ==
    ASSUME IInv, NEW n, NEW r, Touched(n, r), file' = file, outrun' = outrun, Backend(n) \in Backends,
           ops[n].marker > 0, r.marker > 0, NEW bytes, bytes = file[Backend(n)] \/ n \in outrun,
           usage' = IF ops[n].reservation = "reserved" THEN [usage EXCEPT ![Backend(n)] = bytes] ELSE usage
    PROVE  Accounted'
<1> DEFINE b == Backend(n)
<1>1. /\ Used' = Used /\ ops'[n] = r /\ (\A m \in Ops \ {n} : ops'[m] = ops[m])
      /\ n \in Used /\ Used \subseteq Ops /\ r.request.service = b
  BY TouchedFacts DEF IInv, Touched, Used, Backend
<1>2. usage \in [Backends -> Nat] /\ file \in [Backends -> Nat] /\ Accounted
  BY RestTyped DEF IInv, SharedInv
<1>3. ASSUME NEW d \in Backends, usage'[d] # file'[d]
      PROVE  \E m \in Used : /\ ops'[m].marker > 0 /\ ops'[m].request.service = d
                             /\ ops'[m].reservation = "reserved" \/ m \in outrun'
  <2>1. CASE d = b /\ n \in outrun
    BY <1>1, <2>1
  <2>2. CASE ~(d = b /\ n \in outrun)
    <3>1. usage[d] # file[d] /\ (ops[n].reservation = "reserved" => d # b)
      <4>1. CASE ops[n].reservation = "reserved"
        BY <1>2, <1>3, <2>2, <4>1
      <4>2. CASE ops[n].reservation # "reserved"
        BY <1>3, <4>2
      <4> QED
        BY <4>1, <4>2
    <3>2. PICK m \in Marked(d) : ops[m].reservation = "reserved" \/ m \in outrun
      BY <1>2, <3>1 DEF Accounted
    <3>3. m \in Used /\ ops[m].marker > 0 /\ ops[m].request.service = d /\ m # n
      BY <2>2, <3>1, <3>2 DEF Marked, Backend
    <3> QED
      BY <1>1, <3>2, <3>3
  <2> QED
    BY <2>1, <2>2
<1> QED
  BY <1>1, <1>3 DEF Accounted, Marked, Backend

LEMMA FinalizeKeeps == ASSUME IInv, NEW t \in Threads, Finalize(t) PROVE IInv'
<1> DEFINE n == Op(t)
           b == Backend(n)
<1>1. /\ t \in Busy /\ call[t].at = "finalize" /\ Answered(t, "ok")
      /\ ops' = [ops EXCEPT ![n].reservation = "committed"]
      /\ usage' = IF ops[n].reservation = "reserved" THEN [usage EXCEPT ![b] = call[t].measured] ELSE usage
      /\ UNCHANGED <<file, entry, proc, answers, overtaken, outrun, now, faults>>
  BY DEF Finalize, Finalized, At, Busy, overlaps
<1>2. /\ call[t] \in Calls /\ n \in Used /\ n \in Ops /\ ops[n] \in Operations
      /\ b \in Backends /\ call[t].measured \in Nat /\ ops[n].marker \in Nat
  BY <1>1, CallFacts, UsedTyped, BusyTyped DEF IInv, Critical
<1>3. PICK r : r = [ops[n] EXCEPT !.reservation = "committed"]
  OBVIOUS
<1>4. /\ r \in Operations /\ r.gen = ops[n].gen /\ r.request = ops[n].request /\ r.row = ops[n].row
      /\ r.marker = ops[n].marker
  BY <1>2, <1>3 DEF Operations
<1>5. ops' = [ops EXCEPT ![n] = r]
  BY <1>1, <1>3
<1>6. Touched(n, r)
  BY <1>2, <1>4, <1>5 DEF Touched, Kinded, Backend
<1>7. PICK c : c = [call[t] EXCEPT !.at = "complete", !.outcome = "ok", !.answer = ops[n].marker]
  OBVIOUS
<1>8. c \in Calls /\ c.proc = call[t].proc /\ c.op = n /\ c.at = "complete"
  BY <1>1, <1>2, <1>7, RespondTyped
<1>9. call' = [call EXCEPT ![t] = c]
  BY <1>1, <1>7 DEF Answered
<1>10. Knows(c, r, file', overtaken, outrun') /\ HasRow(r, n, overtaken) /\ Accounted'
  <2>1. /\ call[t].measured = file[b] \/ n \in outrun
        /\ ops[n].marker > 0 /\ HasRow(ops[n], n, overtaken)
    BY <1>1, CallFacts DEF Knows, Backend
  <2>2. PICK bytes : bytes = call[t].measured
    OBVIOUS
  <2>3. usage' = IF ops[n].reservation = "reserved" THEN [usage EXCEPT ![b] = bytes] ELSE usage
    BY <1>1, <2>2
  <2>4. Accounted'
    BY <1>1, <1>2, <1>4, <1>6, <2>1, <2>2, <2>3, AccountedSettled
  <2> QED
    BY <1>4, <1>8, <2>1, <2>4, KnowsNothing DEF HasRow
<1>11. /\ usage' \in [Backends -> Nat] /\ file' \in [Backends -> Nat] /\ entry' \in Entries
       /\ now' \in 0..MaxTime /\ faults' \in 0..MaxFaults /\ file' = file /\ ProcSame /\ outrun' \subseteq Ops
       /\ answers' \subseteq [gen : Generations, request : Requests, outcome : {"ok", "error"}, answer : Nat]
       /\ c.at \notin Critical
  <2>1. usage' \in [Backends -> Nat]
    BY <1>1, <1>2, RestTyped
  <2> QED
    BY <1>1, <1>8, <2>1, RestTyped, ProcStays DEF AnswersTyped, Critical
<1> HIDE DEF n, b
<1> QED
  BY <1>1, <1>6, <1>8, <1>9, <1>10, <1>11, ThreadStep DEF n

LEMMA ReturnKeeps ==
    ASSUME IInv, NEW t \in Busy, Return(t), UNCHANGED <<files, overlaps, now>>, ProcSame,
           answers' \subseteq AnswersTyped, faults' \in 0..MaxFaults
    PROVE  IInv'
<1>1. PICK c : c = None
  OBVIOUS
<1>2. c \in Calls \cup {None} /\ call' = [call EXCEPT ![t] = c]
  BY <1>1 DEF Return
<1> QED
  BY <1>1, <1>2, QuietThread

LEMMA CompleteKeeps == ASSUME IInv, NEW t \in Threads, Complete(t) PROVE IInv'
<1> DEFINE n == Op(t)
<1>1. /\ t \in Busy /\ call[t].at = "complete" /\ UNCHANGED <<usage, file, entry, proc, answers, overtaken, outrun, now>>
      /\ call[t].op = n
  BY DEF Complete, At, Busy, Op, overlaps
<1>2. CASE /\ CanComplete(n, call[t].outcome, call[t].answer)
           /\ ops' = Completed(n, call[t].outcome, call[t].answer)
           /\ Goto(t, "answer") /\ UNCHANGED faults
  <2>1. /\ call[t] \in Calls /\ n \in Used /\ n \in Ops /\ ops[n] \in Operations
        /\ call[t].outcome \in {"ok", "error"} /\ call[t].answer \in Nat /\ Kinded(ops[n])
    BY <1>1, CallFacts, UsedTyped, BusyTyped DEF IInv
  <2>2. PICK r : r = [ops[n] EXCEPT !.row = call[t].outcome, !.answer = call[t].answer]
    OBVIOUS
  <2>3. /\ r \in Operations /\ r.gen = ops[n].gen /\ r.request = ops[n].request
        /\ r.row = call[t].outcome /\ r.row # "none"
        /\ r.marker = ops[n].marker /\ r.reservation = ops[n].reservation
    BY <2>1, <2>2 DEF Operations, Rows
  <2>4. ops' = [ops EXCEPT ![n] = r]
    BY <1>2, <2>2 DEF Completed
  <2>5. ops[n].row # "none"
    BY <1>2, <2>1 DEF CanComplete
  <2>6. Touched(n, r)
    BY <2>1, <2>3, <2>4, <2>5 DEF Touched, Kinded
  <2>7. PICK c : c = [call[t] EXCEPT !.at = "answer"]
    OBVIOUS
  <2>8. c \in Calls /\ c.proc = call[t].proc /\ c.op = n /\ c.at = "answer"
    BY <2>1, <2>7 DEF Calls, Op
  <2>9. call' = [call EXCEPT ![t] = c]
    BY <1>2, <2>7 DEF Goto
  <2>10. Knows(c, r, file', overtaken, outrun') /\ HasRow(r, n, overtaken) /\ Accounted'
    <3>1. Accounted'
      BY <1>1, <2>3, <2>6, AccountedKept
    <3> QED
      BY <2>3, <2>8, <3>1, KnowsNothing DEF HasRow
  <2>11. /\ usage' \in [Backends -> Nat] /\ file' \in [Backends -> Nat] /\ entry' \in Entries
         /\ now' \in 0..MaxTime /\ faults' \in 0..MaxFaults /\ file' = file /\ ProcSame /\ outrun' \subseteq Ops
         /\ answers' \subseteq [gen : Generations, request : Requests, outcome : {"ok", "error"}, answer : Nat]
         /\ c.at \notin Critical
    BY <1>1, <1>2, <2>8, RestTyped, ProcStays DEF AnswersTyped, Critical
  <2> HIDE DEF n
  <2> QED
    BY <1>1, <2>6, <2>8, <2>9, <2>10, <2>11, ThreadStep DEF n
<1>3. CASE Return(t) /\ UNCHANGED ops /\ (UNCHANGED faults \/ Fault)
  <2>1. UNCHANGED <<files, overlaps, now>>
    BY <1>1, <1>3 DEF files, overlaps
  <2> QED
    BY <1>1, <1>3, <2>1, ReturnKeeps, ProcStays, RestTyped
<1> QED
  BY <1>1, <1>2, <1>3 DEF Complete

LEMMA AnswerTyped ==
    ASSUME IInv, NEW n \in Used, NEW outcome \in {"ok", "error"}, NEW answer \in Nat
    PROVE  AnswerOf(n, outcome, answer) \in AnswersTyped
BY UsedTyped DEF IInv, AnswerOf, AnswersTyped

LEMMA AnswerKeeps == ASSUME IInv, NEW t \in Threads, Answer(t) PROVE IInv'
<1>1. /\ t \in Busy /\ Return(t) /\ UNCHANGED <<files, proc, overlaps, now, faults>>
      /\ answers' = answers \cup {AnswerOf(Op(t), call[t].outcome, call[t].answer)}
  BY DEF Answer, At, Busy
<1>2. Op(t) \in Used /\ call[t].outcome \in {"ok", "error"} /\ call[t].answer \in Nat
  BY <1>1, CallFacts, BusyTyped DEF IInv
<1>3. answers' \subseteq AnswersTyped
  BY <1>1, <1>2, AnswerTyped, RestTyped
<1> QED
  BY <1>1, <1>3, ReturnKeeps, ProcStays, RestTyped

(* Steps that leave the files, the processes and the calls alone.          *)
LEMMA QuietKeeps ==
    ASSUME IInv, UNCHANGED <<files, proc, call, overlaps>>, answers' \subseteq AnswersTyped,
           now' \in 0..MaxTime, faults' \in 0..MaxFaults
    PROVE  IInv'
<1>1. UNCHANGED <<ops, usage, file, entry, proc, call, overtaken, outrun>>
  BY DEF files, overlaps
<1>2. /\ Used' = Used /\ Busy' = Busy /\ (\A p \in Processes : Gone(p)' = Gone(p) /\ Todo(p)' = Todo(p)
                                                               /\ Serving(p)' = Serving(p))
      /\ (\A b \in Backends : Marked(b)' = Marked(b)) /\ (\A t \in Threads : Op(t)' = Op(t))
  BY <1>1 DEF Used, Busy, Gone, Todo, Serving, Marked, Backend, Op
<1>3. TypeOK'
  BY <1>1 DEF IInv, TypeOK, AnswersTyped
<1>4. KindInv' /\ RowsInv' /\ CallInv' /\ TodoInv'
  BY <1>1, <1>2 DEF IInv, KindInv, Kinded, RowsInv, SameIdentity, CallInv, TodoInv, Busy, Serving,
                    Op, Backend, Todo
<1>5. SharedInv'
  BY <1>1 DEF IInv, SharedInv, Busy, Op, Knows, HasRow, Used, Accounted, Marked, Backend
<1> QED
  BY <1>3, <1>4, <1>5 DEF IInv

LEMMA ReplayKeeps ==
    ASSUME IInv, NEW p \in Processes, NEW r \in Requests, NEW n \in Ops, Replay(p, r, n) PROVE IInv'
<1>1. /\ n \in Used /\ ops[n].row \in {"ok", "error"} /\ UNCHANGED <<files, proc, call, overlaps, now, faults>>
      /\ answers' = answers \cup {AnswerOf(n, ops[n].row, ops[n].answer)}
  BY DEF Replay, Existing
<1>2. ops[n].answer \in Nat
  BY <1>1, UsedTyped DEF IInv
<1>3. answers' \subseteq AnswersTyped
  BY <1>1, <1>2, AnswerTyped, RestTyped
<1> QED
  BY <1>1, <1>3, QuietKeeps, RestTyped

LEMMA TickKeeps == ASSUME IInv, Tick PROVE IInv'
<1>1. now' \in 0..MaxTime
  BY RestTyped, Bounds DEF Tick
<1> QED
  BY <1>1, QuietKeeps, RestTyped DEF Tick

LEMMA ClaimKeeps ==
    ASSUME IInv, NEW t \in Threads, NEW p \in Processes, NEW req \in Requests, NEW n \in Ops,
           Claim(t, p, req, n)
    PROVE  IInv'
<1> DEFINE c == [proc |-> p, op |-> n, at |-> "work", outcome |-> "ok", answer |-> 0, measured |-> 0]
           g == proc[p].gen
<1>1. /\ call[t] = None /\ Serving(p) /\ Existing(g, req) = {} /\ n \notin Used
      /\ ops' = [ops EXCEPT ![n] = NewOp(g, req)] /\ call' = [call EXCEPT ![t] = c]
      /\ UNCHANGED <<usage, file, entry, proc, answers, overtaken, outrun, now, faults>>
  BY DEF Claim, Fresh, overlaps
<1>2. TypeOK /\ KindInv /\ RowsInv /\ CallInv /\ TodoInv /\ SharedInv
  BY DEF IInv
<1>3. PICK r : r = NewOp(g, req)
  OBVIOUS
<1>4. /\ r \in Operations /\ r # None /\ r.gen = g /\ r.request = req /\ r.row = "claimed"
      /\ r.reservation = "none" /\ r.marker = 0
  <2>1. g \in Generations /\ now + Ttl \in Nat
    BY <1>2, Bounds, RestTyped DEF TypeOK, Providers
  <2>2. r \in Operations
    BY <1>3, <2>1 DEF NewOp, Operations, Rows
  <2> QED
    BY <1>3, <2>2, NoneAssumption DEF NewOp
<1>5. /\ ops' \in [Ops -> Operations \cup {None}] /\ ops'[n] = r
      /\ \A m \in Ops \ {n} : ops'[m] = ops[m]
  BY <1>1, <1>2, <1>3, <1>4 DEF TypeOK
<1>6. Used \subseteq Ops /\ Used' = Used \cup {n} /\ \A m \in Used : ops'[m] = ops[m] /\ m # n
  BY <1>1, <1>4, <1>5 DEF Used
<1>7. c \in Calls /\ c # None
  BY NoneAssumption DEF Calls
<1>8. /\ call' \in [Threads -> Calls \cup {None}] /\ call'[t] = c
      /\ \A u \in Threads \ {t} : call'[u] = call[u]
  BY <1>1, <1>2, <1>7 DEF TypeOK
<1>9. Busy' = Busy \cup {t} /\ t \notin Busy /\ \A u \in Busy : call'[u] = call[u]
  BY <1>1, <1>7, <1>8 DEF Busy
<1>10. TypeOK'
  BY <1>1, <1>2, <1>5, <1>8 DEF TypeOK
<1>11. KindInv'
  BY <1>2, <1>4, <1>5, <1>6 DEF KindInv, Kinded
<1>12. RowsInv'
  <2>1. \A m \in Used : ~(ops[m].row # "none" /\ ops[m].gen = g /\ ops[m].request.id = req.id)
    BY <1>1 DEF Existing, SameRequest
  <2> QED
    BY <1>2, <1>4, <1>5, <1>6, <2>1 DEF RowsInv, SameIdentity
<1>13. \A u \in Busy : Op(u) \in Used /\ Op(u) \in Ops /\ Op(u)' = Op(u)
  BY <1>2, <1>6, <1>9 DEF CallInv, Op
<1>14. Op(t)' = n /\ call'[t].at \notin Critical /\ call'[t].at = "work" /\ call'[t].proc = p
  BY <1>8 DEF Op, Critical
<1> HIDE DEF c, g
<1>15. CallInv'
  <2>1. \A u \in Busy' : /\ proc'[call'[u].proc].mode = "serving" /\ Op(u)' \in Used'
                         /\ call'[u].at \in Critical => ops'[Op(u)'].request.service \in Backends
    BY <1>1, <1>2, <1>6, <1>9, <1>13, <1>14 DEF CallInv, Serving, Backend
  <2>2. \A u, w \in Busy : Op(u)' = Op(w)' => u = w
    BY <1>2, <1>13 DEF CallInv
  <2>3. \A u \in Busy : Op(u)' # n
    BY <1>1, <1>13
  <2>4. \A u, w \in Busy : call'[u].at \in Critical /\ call'[w].at \in Critical
                           /\ call'[u].proc = call'[w].proc => u = w
    BY <1>2, <1>9 DEF CallInv
  <2>5. \A u, w \in Busy' : call'[u].at \in Critical /\ call'[w].at \in Critical
                            /\ call'[u].proc = call'[w].proc => u = w
    BY <1>9, <1>14, <2>4
  <2>6. \A u, w \in Busy' : Op(u)' = Op(w)' => u = w
    <3> SUFFICES ASSUME NEW u \in Busy', NEW w \in Busy', Op(u)' = Op(w)' PROVE u = w
      OBVIOUS
    <3>1. CASE u = t \/ w = t
      BY <1>9, <1>14, <2>3, <3>1
    <3>2. CASE u # t /\ w # t
      BY <1>9, <2>2, <3>2
    <3> QED
      BY <3>1, <3>2
  <2> QED
    BY <2>1, <2>5, <2>6 DEF CallInv, Serving, Backend
<1>16. TodoInv'
  BY <1>1, <1>2, <1>6 DEF TodoInv, Todo
<1>17. SharedInv'
  <2>1. \A u \in Busy' : Knows(call'[u], ops'[Op(u)'], file', overtaken', outrun')
    <3>1. \A u \in Busy : Knows(call'[u], ops'[Op(u)'], file', overtaken', outrun')
      BY <1>1, <1>2, <1>6, <1>9, <1>13 DEF SharedInv
    <3>2. Knows(call'[t], ops'[Op(t)'], file', overtaken', outrun')
      BY <1>4, <1>5, <1>14 DEF Knows, Critical
    <3> QED
      BY <1>9, <3>1, <3>2
  <2>2. (\A m \in Used : HasRow(ops[m], m, overtaken))'
    BY <1>1, <1>2, <1>4, <1>5, <1>6 DEF SharedInv, HasRow
  <2>3. Accounted'
    <3>1. ASSUME NEW d \in Backends, usage'[d] # file'[d]
          PROVE  \E m \in Used' : /\ ops'[m].marker > 0 /\ ops'[m].request.service = d
                                  /\ ops'[m].reservation = "reserved" \/ m \in outrun'
      <4>1. PICK m \in Marked(d) : ops[m].reservation = "reserved" \/ m \in outrun
        BY <1>1, <1>2, <3>1 DEF SharedInv, Accounted
      <4> QED
        BY <1>1, <1>6, <4>1 DEF Marked, Backend
    <3> QED
      BY <3>1 DEF Accounted, Marked, Backend
  <2>4. (\A u \in Busy : Knows(call[u], ops[Op(u)], file, overtaken, outrun))'
    BY <2>1 DEF Knows, Op
  <2> QED
    BY <2>2, <2>3, <2>4 DEF SharedInv
<1> QED
  BY <1>10, <1>11, <1>12, <1>15, <1>16, <1>17 DEF IInv

-----------------------------------------------------------------------------
(* The step of a process that does not serve: it may settle one operation. *)

(* What was overtaken stays so, and whoever works on the operation still    *)
(* knows of it what a call knows.                                          *)
Grown == /\ overtaken \subseteq overtaken' /\ overtaken' \subseteq Ops
         /\ outrun \subseteq outrun' /\ outrun' \subseteq Ops
Agreed(n, r) ==
    /\ \A u \in Busy : Op(u) = n => Knows(call[u], r, file, overtaken', outrun')
    /\ HasRow(r, n, overtaken')

LEMMA ProcStep ==
    ASSUME IInv, NEW p \in Processes, ~Serving(p), NEW x \in Providers, proc' = [proc EXCEPT ![p] = x],
           {i[1] : i \in x.todo} \subseteq Used,
           NEW n, NEW r, (ops' = ops) \/ Touched(n, r),
           UNCHANGED <<file, call, answers, now, faults>>, Grown,
           usage' \in [Backends -> Nat], entry' \in Entries, Accounted',
           ops' # ops => Agreed(n, r)
    PROVE  IInv'
<1>1. TypeOK /\ KindInv /\ RowsInv /\ CallInv /\ TodoInv /\ SharedInv
  BY DEF IInv
<1>2. /\ ops' \in [Ops -> Operations \cup {None}] /\ Used' = Used
      /\ KindInv' /\ RowsInv' /\ Used \subseteq Ops
      /\ \A m \in Used : ops'[m].request = ops[m].request
  <2>1. CASE ops' = ops
    BY <1>1, <2>1, UntouchedFacts DEF Used
  <2>2. CASE Touched(n, r)
    <3>1. /\ ops' \in [Ops -> Operations \cup {None}] /\ Used' = Used
          /\ ops'[n] = r /\ (\A m \in Ops \ {n} : ops'[m] = ops[m])
          /\ KindInv' /\ RowsInv' /\ Used \subseteq Ops
      BY <1>1, <2>2, TouchedFacts DEF Used
    <3> QED
      BY <2>2, <3>1 DEF Touched
  <2> QED
    BY <2>1, <2>2
<1>3. /\ proc' \in [Processes -> Providers] /\ proc'[p] = x
      /\ \A q \in Processes \ {p} : proc'[q] = proc[q]
  BY <1>1 DEF TypeOK
<1>4. TypeOK'
  BY <1>1, <1>2, <1>3 DEF TypeOK, Grown
<1>5. Busy' = Busy /\ \A u \in Busy : Op(u)' = Op(u) /\ call[u].proc \in Processes /\ call'[u] = call[u]
  BY <1>1, BusyTyped DEF Busy, Op
<1>6. \A u \in Busy : Op(u) \in Used /\ Serving(call[u].proc) /\ proc'[call[u].proc].mode = "serving"
  BY <1>1, <1>3, <1>5 DEF CallInv, Serving
<1>7. CallInv'
  <2>1. \A u \in Busy : call[u].at \in Critical => ops'[Op(u)].request.service \in Backends
    BY <1>1, <1>2, <1>6 DEF CallInv, Backend
  <2>2. (\A u, w \in Busy : Op(u) = Op(w) => u = w)
        /\ (\A u, w \in Busy : call[u].at \in Critical /\ call[w].at \in Critical
                               /\ call[u].proc = call[w].proc => u = w)
    BY <1>1 DEF CallInv
  <2> QED
    BY <1>2, <1>5, <1>6, <2>1, <2>2 DEF CallInv, Serving, Backend
<1>8. TodoInv'
  BY <1>1, <1>2, <1>3 DEF TodoInv, Todo
<1>9. SharedInv'
  <2>1. \A m \in Used : ops'[m] = ops[m] \/ (m = n /\ ops'[m] = r /\ Agreed(n, r))
    <3>1. CASE ops' = ops
      BY <3>1
    <3>2. CASE Touched(n, r) /\ ops' # ops
      BY <1>1, <1>2, <3>2, TouchedFacts
    <3> QED
      BY <3>1, <3>2
  <2>2. ASSUME NEW u \in Busy PROVE Knows(call[u], ops'[Op(u)], file, overtaken', outrun')
    <3>1. Knows(call[u], ops[Op(u)], file, overtaken, outrun) /\ Op(u) \in Used
      BY <1>1, <1>6 DEF SharedInv
    <3>2. Knows(call[u], ops[Op(u)], file, overtaken', outrun')
      BY <3>1 DEF Knows, Grown
    <3>3. CASE ops'[Op(u)] = ops[Op(u)]
      BY <3>2, <3>3
    <3>4. CASE Op(u) = n /\ ops'[Op(u)] = r /\ Agreed(n, r)
      BY <3>4 DEF Agreed
    <3> QED
      BY <2>1, <3>1, <3>3, <3>4
  <2>3. \A m \in Used : HasRow(ops'[m], m, overtaken')
    BY <1>1, <2>1 DEF SharedInv, HasRow, Grown, Agreed
  <2>4. (\A u \in Busy : Knows(call[u], ops[Op(u)], file, overtaken, outrun))'
    BY <1>5, <2>2 DEF Knows
  <2>5. (\A m \in Used : HasRow(ops[m], m, overtaken))'
    BY <1>2, <2>3 DEF HasRow
  <2> QED
    BY <2>4, <2>5 DEF SharedInv
<1> QED
  BY <1>2, <1>4, <1>7, <1>8, <1>9 DEF IInv

LEMMA AccountedSame == ASSUME IInv, UNCHANGED <<ops, usage, file, outrun>> PROVE Accounted'
BY DEF IInv, SharedInv, Accounted, Marked, Used, Backend

(* A process goes from pass to pass and leaves the operations alone.       *)
LEMMA ProcQuiet ==
    ASSUME IInv, NEW p \in Processes, ~Serving(p), NEW x \in Providers, proc' = [proc EXCEPT ![p] = x],
           {i[1] : i \in x.todo} \subseteq Used,
           UNCHANGED <<ops, usage, file, call, answers, overtaken, outrun, now, faults>>, entry' \in Entries
    PROVE  IInv'
<1>1. usage' \in [Backends -> Nat] /\ Grown
  BY RestTyped DEF Grown
<1>2. Accounted'
  BY AccountedSame
<1> QED
  BY <1>1, <1>2, ProcStep

LEMMA SettleStep ==
    ASSUME IInv, NEW p \in Processes, ~Serving(p), ~Gone(p), NEW i, NEW bs \in SUBSET Backends,
           proc' = Settled(p, i, bs) \/ proc' = Refused(p),
           NEW n, NEW r, (ops' = ops) \/ Touched(n, r),
           UNCHANGED <<file, entry, call, answers, now, faults>>, Grown,
           usage' \in [Backends -> Nat], Accounted', ops' # ops => Agreed(n, r)
    PROVE  IInv'
<1>1. /\ proc[p] \in Providers /\ {j[1] : j \in proc[p].todo} \subseteq Used
  BY DEF IInv, TypeOK, TodoInv, Todo
<1>2. PICK x \in Providers : /\ proc' = [proc EXCEPT ![p] = x] /\ x.todo \subseteq proc[p].todo
  <2>1. CASE proc' = Settled(p, i, bs)
    <3>1. PICK x : x = [proc[p] EXCEPT !.todo = @ \ {i}, !.quarantined = @ \cup bs]
      OBVIOUS
    <3>2. x \in Providers /\ x.todo \subseteq proc[p].todo
      BY <1>1, <3>1 DEF Providers
    <3>3. proc' = [proc EXCEPT ![p] = x]
      BY <2>1, <3>1 DEF Settled
    <3> QED
      BY <3>2, <3>3
  <2>2. CASE proc' = Refused(p)
    <3>1. PICK x : x = [proc[p] EXCEPT !.mode = "refused", !.todo = {}, !.known = {}, !.quarantined = {}]
      OBVIOUS
    <3>2. x \in Providers /\ x.todo \subseteq proc[p].todo
      BY <1>1, <3>1 DEF Providers, Modes
    <3>3. proc' = [proc EXCEPT ![p] = x]
      BY <2>2, <3>1 DEF Refused
    <3> QED
      BY <3>2, <3>3
  <2> QED
    BY <2>1, <2>2
<1>3. {j[1] : j \in x.todo} \subseteq Used
  BY <1>1, <1>2
<1>4. entry' \in Entries
  BY RestTyped
<1> QED
  BY <1>2, <1>3, <1>4, ProcStep

LEMMA SettleQuiet ==
    ASSUME IInv, NEW p \in Processes, ~Serving(p), ~Gone(p), NEW i, NEW bs \in SUBSET Backends,
           proc' = Settled(p, i, bs) \/ proc' = Refused(p),
           UNCHANGED <<files, call, answers, overlaps, now, faults>>
    PROVE  IInv'
<1>1. UNCHANGED <<ops, usage, file, entry, call, answers, overtaken, outrun, now, faults>>
  BY DEF files, overlaps
<1>2. usage' \in [Backends -> Nat] /\ Grown
  BY <1>1, RestTyped DEF Grown
<1>3. Accounted'
  BY <1>1, AccountedSame
<1> QED
  BY <1>1, <1>2, <1>3, SettleStep

(* An operation without a marker is released.                              *)
LEMMA SettleReleased ==
    ASSUME IInv, NEW p \in Processes, ~Serving(p), ~Gone(p), NEW i, NEW bs \in SUBSET Backends,
           proc' = Settled(p, i, bs) \/ proc' = Refused(p),
           NEW n \in Used, ops[n].marker = 0, NEW row \in {ops[n].row, "none"},
           ops' = [ops EXCEPT ![n].row = row,
                              ![n].reservation = IF @ = "reserved" THEN "released" ELSE @],
           UNCHANGED <<usage, file, entry, call, answers, now, faults>>, Grown,
           row # ops[n].row => ops[n].row = "claimed" /\ (Running(n) => n \in overtaken'),
           Running(n) /\ ops[n].reservation = "reserved" => n \in outrun'
    PROVE  IInv'
<1>1. /\ ops[n] \in Operations /\ Kinded(ops[n]) /\ row \in Rows /\ n \in Ops
  BY UsedTyped DEF IInv, KindInv, Rows
<1>2. PICK r : r = [ops[n] EXCEPT !.row = row, !.reservation = IF @ = "reserved" THEN "released" ELSE @]
  OBVIOUS
<1>3. /\ r \in Operations /\ r.gen = ops[n].gen /\ r.request = ops[n].request /\ r.row = row
      /\ r.marker = 0 /\ (r.reservation # "none" => ops[n].reservation # "none")
  BY <1>1, <1>2 DEF Operations
<1>4. ops' = [ops EXCEPT ![n] = r]
  BY <1>2
<1>5. Touched(n, r)
  BY <1>1, <1>3, <1>4 DEF Touched, Kinded
<1>6. usage' \in [Backends -> Nat]
  BY RestTyped
<1>7. Accounted'
  BY <1>3, <1>5, AccountedKept DEF Grown
<1>8. Agreed(n, r)
  <2>1. ASSUME NEW u \in Busy, Op(u) = n PROVE Knows(call[u], r, file, overtaken', outrun')
    <3>1. Running(n) /\ call[u].op = n /\ Knows(call[u], ops[n], file, overtaken, outrun)
      BY <2>1, CallFacts DEF Running, Busy
    <3>2. CASE call[u].at = "work"
      BY <1>3, <3>1, <3>2 DEF Knows, Grown
    <3>3. CASE call[u].at = "commit"
      BY <1>2, <1>3, <3>1, <3>3 DEF Knows, Grown
    <3>4. CASE call[u].at \notin {"work", "commit"}
      BY <1>3, <3>1, <3>4 DEF Knows, Grown
    <3> QED
      BY <3>2, <3>3, <3>4
  <2> QED
    BY <1>3, <2>1 DEF Agreed, HasRow
<1> QED
  BY <1>5, <1>6, <1>7, <1>8, SettleStep

(* An operation with its marker is finalized, and may be answered.          *)
LEMMA SettleFinalized ==
    ASSUME IInv, NEW p \in Processes, ~Serving(p), ~Gone(p), NEW i, NEW bs \in SUBSET Backends,
           proc' = Settled(p, i, bs) \/ proc' = Refused(p),
           NEW n \in Used, ops[n].marker > 0, NEW r \in Operations, ops' = [ops EXCEPT ![n] = r],
           r.gen = ops[n].gen, r.request = ops[n].request, r.marker = ops[n].marker,
           r.row = ops[n].row \/ (r.row # "none" /\ ops[n].row # "none"),
           usage' = IF ops[n].reservation = "reserved"
                    THEN [usage EXCEPT ![Backend(n)] = file[Backend(n)]] ELSE usage,
           UNCHANGED <<file, entry, call, answers, overtaken, outrun, now, faults>>
    PROVE  IInv'
<1>1. /\ ops[n] \in Operations /\ Kinded(ops[n]) /\ n \in Ops
  BY UsedTyped DEF IInv, KindInv
<1>2. Backend(n) \in Backends
  BY <1>1 DEF Kinded, Backend
<1>3. Touched(n, r)
  BY <1>1, <1>2 DEF Touched, Kinded, Backend
<1>4. usage' \in [Backends -> Nat]
  BY <1>2, RestTyped
<1>5. PICK bytes : bytes = file[Backend(n)]
  OBVIOUS
<1>6. Accounted' /\ Grown
  BY <1>2, <1>3, <1>5, RestTyped, AccountedSettled DEF Grown
<1>7. Agreed(n, r)
  <2>1. ASSUME NEW u \in Busy, Op(u) = n PROVE Knows(call[u], r, file, overtaken', outrun')
    <3>1. Knows(call[u], ops[n], file, overtaken, outrun)
      BY <2>1, CallFacts
    <3> QED
      BY <3>1 DEF Knows
  <2>2. HasRow(ops[n], n, overtaken)
    BY DEF IInv, SharedInv
  <2> QED
    BY <2>1, <2>2 DEF Agreed, HasRow
<1> QED
  BY <1>3, <1>4, <1>6, <1>7, SettleStep

LEMMA RecoverReservationKeeps ==
    ASSUME IInv, NEW p \in Processes, NEW i \in proc[p].todo, RecoverReservation(p, i) PROVE IInv'
<1> DEFINE n == i[1]
           b == Backend(n)
<1>1. /\ ~Serving(p) /\ ~Gone(p) /\ UNCHANGED <<file, entry, call, answers, overtaken, now, faults>>
  BY DEF RecoverReservation, Pass, Serving, Gone
<1>2. n \in Used
  BY DEF IInv, TodoInv, Todo
<1>3. ops[n] \in Operations /\ n \in Ops /\ ops[n].marker \in Nat /\ Kinded(ops[n])
  BY <1>2, UsedTyped DEF IInv, KindInv
<1> DEFINE no == {}
<1>0. no \in SUBSET Backends
  OBVIOUS
<1>4. CASE b \notin Enabled /\ proc' = Refused(p) /\ UNCHANGED <<ops, usage, outrun>>
  BY <1>1, <1>4, SettleQuiet DEF files, overlaps
<1>5. CASE ops[n].marker > 0 /\ Finalized(n, file[b]) /\ proc' = Settled(p, i, {}) /\ UNCHANGED outrun
  <2>1. PICK r : r = [ops[n] EXCEPT !.reservation = "committed"]
    OBVIOUS
  <2>2. /\ r \in Operations /\ r.gen = ops[n].gen /\ r.request = ops[n].request /\ r.row = ops[n].row
        /\ r.marker = ops[n].marker
    BY <1>3, <2>1 DEF Operations
  <2>3. ops' = [ops EXCEPT ![n] = r]
        /\ usage' = IF ops[n].reservation = "reserved" THEN [usage EXCEPT ![b] = file[b]] ELSE usage
    BY <1>5, <2>1 DEF Finalized
  <2>4. /\ proc' = Settled(p, i, no) \/ proc' = Refused(p)
        /\ usage' = IF ops[n].reservation = "reserved"
                    THEN [usage EXCEPT ![Backend(n)] = file[Backend(n)]] ELSE usage
    BY <1>5, <2>3
  <2> HIDE DEF n, b, no
  <2> QED
    BY <1>1, <1>2, <1>5, <1>0, <2>2, <2>3, <2>4, SettleFinalized
<1>6. CASE ops[n].marker > 0 /\ proc' = Settled(p, i, {b}) /\ UNCHANGED <<ops, usage, outrun>>
  <2>1. {b} \in SUBSET Backends
    BY <1>3, <1>6 DEF Kinded, Backend
  <2> QED
    BY <1>1, <1>6, <2>1, SettleQuiet DEF files, overlaps
<1>7. CASE /\ ops[n].marker = 0
           /\ UNCHANGED <<ops, outrun>> \/ (ops' = Released(n) /\ Outruns(n))
           /\ proc' = Settled(p, i, {}) /\ UNCHANGED usage
  <2>1. CASE UNCHANGED <<ops, outrun>>
    BY <1>1, <1>7, <2>1, SettleQuiet DEF files, overlaps
  <2>2. CASE ops' = Released(n) /\ Outruns(n)
    <3>1. PICK row \in {ops[n].row, "none"} : row = ops[n].row
      OBVIOUS
    <3>2. ops' = [ops EXCEPT ![n].row = row, ![n].reservation = IF @ = "reserved" THEN "released" ELSE @]
      <4>1. [ops[n] EXCEPT !.row = row, !.reservation = IF @ = "reserved" THEN "released" ELSE @]
            = [ops[n] EXCEPT !.reservation = IF @ = "reserved" THEN "released" ELSE @]
        BY <1>3, <3>1 DEF Operations
      <4> QED
        BY <2>2, <3>1, <4>1 DEF Released
    <3>3. proc' = Settled(p, i, no) \/ proc' = Refused(p)
      BY <1>7
    <3>4. Grown /\ (Running(n) /\ ops[n].reservation = "reserved" => n \in outrun')
      BY <1>1, <1>3, <2>2, RestTyped DEF Grown, Outruns
    <3> HIDE DEF n, b, no
    <3> QED
      BY <1>1, <1>2, <1>7, <1>0, <3>1, <3>2, <3>3, <3>4, SettleReleased
  <2> QED
    BY <1>7, <2>1, <2>2
<1>8. \/ b \notin Enabled /\ proc' = Refused(p) /\ UNCHANGED <<ops, usage, outrun>>
      \/ ops[n].marker > 0 /\ Finalized(n, file[b]) /\ proc' = Settled(p, i, {}) /\ UNCHANGED outrun
      \/ ops[n].marker > 0 /\ proc' = Settled(p, i, {b}) /\ UNCHANGED <<ops, usage, outrun>>
      \/ /\ ops[n].marker = 0
         /\ UNCHANGED <<ops, outrun>> \/ (ops' = Released(n) /\ Outruns(n))
         /\ proc' = Settled(p, i, {}) /\ UNCHANGED usage
  <2>1. ops[n].marker > 0 \/ ops[n].marker = 0
    BY <1>3
  <2>2. CASE b \notin Enabled
    BY <2>2 DEF RecoverReservation
  <2>3. CASE b \in Enabled /\ ops[n].marker > 0 /\ CanFinalize(n)
    BY <2>3 DEF RecoverReservation
  <2>4. CASE b \in Enabled /\ ops[n].marker > 0 /\ ~CanFinalize(n)
    BY <2>4 DEF RecoverReservation
  <2>5. CASE b \in Enabled /\ ops[n].marker = 0
    BY <2>5 DEF RecoverReservation
  <2> QED
    BY <2>1, <2>2, <2>3, <2>4, <2>5
<1> QED
  BY <1>4, <1>5, <1>6, <1>7, <1>8

LEMMA FirstOf ==
    ASSUME IInv, NEW p \in Processes, proc[p].todo # {}
    PROVE  First(p) \in proc[p].todo /\ First(p)[1] \in Used
<1>1. Todo(p) \subseteq Used /\ Used \subseteq Nat /\ Todo(p) # {}
  BY Bounds DEF IInv, TodoInv, Used, Todo
<1>2. Min(Todo(p)) \in Todo(p)
  BY <1>1, MinOf
<1>3. \E i \in proc[p].todo : i[1] = Min(Todo(p))
  BY <1>2 DEF Todo
<1>4. First(p) \in proc[p].todo
  BY <1>3 DEF First
<1> QED
  BY <1>1, <1>4 DEF Todo

LEMMA RecoverMarkedKeeps ==
    ASSUME IInv, NEW p \in Processes, ~Serving(p), ~Gone(p), NEW i, i[1] \in Used,
           ops[i[1]].marker > 0, RecoverMarked(p, i),
           UNCHANGED <<file, entry, call, answers, overtaken, outrun, now, faults>>
    PROVE  IInv'
<1> DEFINE n == i[1]
           b == Backend(n)
           no == {}
           here == {b}
<1>1. /\ ops[n] \in Operations /\ Kinded(ops[n]) /\ n \in Ops /\ ops[n].marker \in Nat
      /\ ops[n].row \in Rows /\ ops \in [Ops -> Operations \cup {None}]
  BY UsedTyped DEF IInv, KindInv, TypeOK
<1>2. no \in SUBSET Backends /\ here \in SUBSET Backends
  BY <1>1 DEF Kinded, Backend
<1>3. CASE ~CanFinalize(n)
  <2>1. proc' = Settled(p, i, here) /\ UNCHANGED <<ops, usage>>
    BY <1>3 DEF RecoverMarked
  <2> HIDE DEF here, n
  <2> QED
    BY <1>2, <2>1, SettleQuiet DEF files, overlaps
<1>4. CASE CanFinalize(n)
  <2>1. /\ \/ ops' = [ops EXCEPT ![n].reservation = "committed"]
           \/ /\ CanComplete(n, "ok", ops[n].marker)
              /\ ops' = [[ops EXCEPT ![n].reservation = "committed"]
                            EXCEPT ![n].row = "ok", ![n].answer = ops[n].marker]
        /\ proc' = Settled(p, i, here) \/ proc' = Settled(p, i, no) \/ proc' = Refused(p)
        /\ usage' = Settlement(n)
    <3>1. CASE ~Rebuildable(p, n)
      BY <1>4, <3>1 DEF RecoverMarked
    <3>2. CASE Rebuildable(p, n)
      BY <1>4, <3>2 DEF RecoverMarked
    <3> QED
      BY <3>1, <3>2
  <2>2. PICK r \in Operations : /\ ops' = [ops EXCEPT ![n] = r]
                                /\ r.gen = ops[n].gen /\ r.request = ops[n].request
                                /\ r.marker = ops[n].marker
                                /\ r.row = ops[n].row \/ (r.row # "none" /\ ops[n].row # "none")
    <3>1. CASE ops' = [ops EXCEPT ![n].reservation = "committed"]
      <4>1. PICK r : r = [ops[n] EXCEPT !.reservation = "committed"]
        OBVIOUS
      <4>2. /\ r \in Operations /\ r.gen = ops[n].gen /\ r.request = ops[n].request
            /\ r.row = ops[n].row /\ r.marker = ops[n].marker
        BY <1>1, <4>1 DEF Operations
      <4>3. ops' = [ops EXCEPT ![n] = r]
        BY <3>1, <4>1
      <4> QED
        BY <4>2, <4>3
    <3>2. CASE /\ CanComplete(n, "ok", ops[n].marker)
               /\ ops' = [[ops EXCEPT ![n].reservation = "committed"]
                             EXCEPT ![n].row = "ok", ![n].answer = ops[n].marker]
      <4>1. PICK r : r = [ops[n] EXCEPT !.reservation = "committed", !.row = "ok", !.answer = ops[n].marker]
        OBVIOUS
      <4>2. /\ r \in Operations /\ r.gen = ops[n].gen /\ r.request = ops[n].request
            /\ r.row = "ok" /\ r.marker = ops[n].marker
        BY <1>1, <4>1 DEF Operations, Rows
      <4>3. ops' = [ops EXCEPT ![n] = r]
        BY <1>1, <3>2, <4>1
      <4>4. ops[n].row # "none"
        BY <3>2 DEF CanComplete
      <4> QED
        BY <4>2, <4>3, <4>4
    <3> QED
      BY <2>1, <3>1, <3>2
  <2>3. usage' = IF ops[n].reservation = "reserved"
                 THEN [usage EXCEPT ![Backend(n)] = file[Backend(n)]] ELSE usage
    BY <2>1 DEF Settlement
  <2>4. PICK bs \in SUBSET Backends : proc' = Settled(p, i, bs) \/ proc' = Refused(p)
    BY <1>2, <2>1
  <2> HIDE DEF n, b, no, here
  <2>5. n \in Used /\ ops[n].marker > 0
    BY DEF n
  <2> QED
    BY <2>2, <2>3, <2>4, <2>5, SettleFinalized
<1> QED
  BY <1>3, <1>4

LEMMA RecoverClaimKeeps == ASSUME IInv, NEW p \in Processes, RecoverClaim(p) PROVE IInv'
<1>1. PICK i : i = First(p)
  OBVIOUS
<1> DEFINE n == i[1]
           b == Backend(n)
           no == {}
           here == {b}
<1>2. /\ ~Serving(p) /\ ~Gone(p) /\ UNCHANGED <<file, entry, call, answers, now, faults>>
      /\ proc[p].todo # {}
  BY DEF RecoverClaim, Pass, Serving, Gone
<1>3. n \in Used
  BY <1>1, <1>2, FirstOf
<1>4. ops[n] \in Operations /\ n \in Ops /\ ops[n].marker \in Nat /\ Kinded(ops[n]) /\ b \in Services
  BY <1>3, UsedTyped DEF IInv, KindInv
<1>5. no \in SUBSET Backends /\ (b # "logging" => here \in SUBSET Backends)
  BY <1>4 DEF Services
<1>6. \/ ops[n].marker = 0 /\ ReleaseClaim(n) /\ proc' = Settled(p, i, no) /\ UNCHANGED usage
      \/ proc' = Refused(p) /\ UNCHANGED <<ops, usage, overlaps>>
      \/ b # "logging" /\ proc' = Settled(p, i, here) /\ UNCHANGED <<ops, usage, overlaps>>
      \/ ops[n].marker > 0 /\ RecoverMarked(p, i) /\ UNCHANGED overlaps
  <2>1. CASE b = "logging"
    <3>1. ops[n].marker = 0
      BY <1>4, <2>1 DEF Kinded, Backend, Backends
    <3> QED
      BY <1>1, <2>1, <3>1 DEF RecoverClaim
  <2>2. CASE b # "logging" /\ ~(Backends \subseteq Enabled)
    BY <1>1, <2>2 DEF RecoverClaim
  <2>3. CASE b # "logging" /\ Backends \subseteq Enabled /\ Unmarked(n)
    BY <1>1, <2>3 DEF RecoverClaim, Unmarked
  <2>4. CASE b # "logging" /\ Backends \subseteq Enabled /\ ~Unmarked(n)
    <3>1. RecoverMarked(p, i) /\ UNCHANGED overlaps
      BY <1>1, <2>4 DEF RecoverClaim
    <3>2. ops[n].marker > 0
      BY <1>4, <2>4 DEF Unmarked
    <3> QED
      BY <3>1, <3>2
  <2> QED
    BY <2>1, <2>2, <2>3, <2>4
<1>7. CASE ops[n].marker = 0 /\ ReleaseClaim(n) /\ proc' = Settled(p, i, no) /\ UNCHANGED usage
  <2>1. PICK row \in {ops[n].row, "none"} : row = IF ops[n].row = "claimed" THEN "none" ELSE ops[n].row
    OBVIOUS
  <2>2. ops' = [ops EXCEPT ![n].row = row, ![n].reservation = IF @ = "reserved" THEN "released" ELSE @]
    BY <1>7, <2>1 DEF ReleaseClaim
  <2>3. proc' = Settled(p, i, no) \/ proc' = Refused(p)
    BY <1>7
  <2>4. /\ Grown
        /\ row # ops[n].row => ops[n].row = "claimed" /\ (Running(n) => n \in overtaken')
        /\ Running(n) /\ ops[n].reservation = "reserved" => n \in outrun'
    BY <1>4, <1>7, <2>1, RestTyped DEF ReleaseClaim, Grown, Overtakes, Outruns
  <2> HIDE DEF n, b, no, here
  <2> QED
    BY <1>2, <1>3, <1>5, <1>7, <2>2, <2>3, <2>4, SettleReleased
<1>8. CASE \/ proc' = Refused(p) /\ UNCHANGED <<ops, usage, overlaps>>
           \/ b # "logging" /\ proc' = Settled(p, i, here) /\ UNCHANGED <<ops, usage, overlaps>>
  <2>1. UNCHANGED <<files, call, answers, overlaps, now, faults>>
    BY <1>2, <1>8 DEF files, overlaps
  <2>2. PICK bs \in SUBSET Backends : proc' = Settled(p, i, bs) \/ proc' = Refused(p)
    BY <1>5, <1>8
  <2> QED
    BY <1>2, <2>1, <2>2, SettleQuiet
<1>9. CASE ops[n].marker > 0 /\ RecoverMarked(p, i) /\ UNCHANGED overlaps
  BY <1>2, <1>3, <1>9, RecoverMarkedKeeps DEF overlaps
<1> QED
  BY <1>6, <1>7, <1>8, <1>9

LEMMA ValidateTerminalKeeps == ASSUME IInv, NEW p \in Processes, ValidateTerminal(p) PROVE IInv'
<1>1. /\ ~Serving(p) /\ ~Gone(p) /\ UNCHANGED <<files, call, answers, overlaps, now, faults>>
  BY DEF ValidateTerminal, Pass, Serving, Gone
<1>2. PICK bs \in SUBSET Backends : bs = {}
  OBVIOUS
<1>3. PICK i : i = First(p)
  OBVIOUS
<1>4. proc' = Settled(p, i, bs) \/ proc' = Refused(p)
  BY <1>2, <1>3 DEF ValidateTerminal
<1> QED
  BY <1>1, <1>4, SettleQuiet

LEMMA ReadLedgerKeeps == ASSUME IInv, NEW p \in Processes, ReadLedger(p) PROVE IInv'
<1> DEFINE known == {n \in Used : ops[n].reservation \in {"reserved", "committed"}}
           todo == {<<n, ops[n].row>> : n \in {m \in Used : ops[m].row # "none"}}
<1>1. /\ ~Serving(p) /\ ~Gone(p) /\ UNCHANGED <<files, call, answers, overlaps, now, faults>>
      /\ proc' = [proc EXCEPT ![p].mode = "markers", ![p].known = known, ![p].todo = todo]
  BY DEF ReadLedger, Pass, Serving, Gone
<1>2. proc[p] \in Providers /\ Used \subseteq Ops /\ \A n \in Used : ops[n].row \in Rows
  BY UsedTyped DEF IInv, TypeOK, Used
<1>3. PICK x : x = [proc[p] EXCEPT !.mode = "markers", !.known = known, !.todo = todo]
  OBVIOUS
<1>4. known \in SUBSET Ops /\ todo \in SUBSET (Ops \X (Rows \cup {"reserved"}))
      /\ {i[1] : i \in todo} \subseteq Used
  BY <1>2
<1> HIDE DEF known, todo
<1>5. x \in Providers /\ x.todo = todo
  BY <1>2, <1>3, <1>4 DEF Providers, Modes
<1>6. proc' = [proc EXCEPT ![p] = x]
  BY <1>1, <1>3
<1>7. UNCHANGED <<ops, usage, file, call, answers, overtaken, outrun, now, faults>> /\ entry' \in Entries
  BY <1>1, RestTyped DEF files, overlaps
<1> QED
  BY <1>1, <1>4, <1>5, <1>6, <1>7, ProcQuiet

(* A pass that only marks the process.                                     *)
LEMMA MarkKeeps ==
    ASSUME IInv, NEW p \in Processes, ~Serving(p), ~Gone(p), NEW mode \in Modes,
           NEW known \in SUBSET Ops, NEW bs \in SUBSET Backends,
           proc' = [proc EXCEPT ![p].mode = mode, ![p].known = known, ![p].quarantined = bs],
           UNCHANGED <<files, call, answers, overlaps, now, faults>>
    PROVE  IInv'
<1>1. proc[p] \in Providers /\ {i[1] : i \in proc[p].todo} \subseteq Used
  BY DEF IInv, TypeOK, TodoInv, Todo
<1>2. PICK x : x = [proc[p] EXCEPT !.mode = mode, !.known = known, !.quarantined = bs]
  OBVIOUS
<1>3. x \in Providers /\ x.todo = proc[p].todo
  BY <1>1, <1>2 DEF Providers
<1>4. proc' = [proc EXCEPT ![p] = x]
  BY <1>2
<1>5. UNCHANGED <<ops, usage, file, call, answers, overtaken, outrun, now, faults>> /\ entry' \in Entries
  BY RestTyped DEF files, overlaps
<1> QED
  BY <1>1, <1>3, <1>4, <1>5, ProcQuiet

LEMMA ReadMarkersKeeps == ASSUME IInv, NEW p \in Processes, ReadMarkers(p) PROVE IInv'
<1>1. PICK new : new = {b \in Backends \cap Enabled : \E n \in Marked(b) : ~Proven(p, n)}
  OBVIOUS
<1>2. PICK bs : bs = proc[p].quarantined \cup new
  OBVIOUS
<1>3. PICK known : known = {}
  OBVIOUS
<1>4. /\ ~Serving(p) /\ ~Gone(p) /\ UNCHANGED <<files, call, answers, overlaps, now, faults>>
      /\ proc' = [proc EXCEPT ![p].mode = "claims", ![p].known = known, ![p].quarantined = bs]
  BY <1>1, <1>2, <1>3 DEF ReadMarkers, Pass, Serving, Gone
<1>5. proc \in [Processes -> Providers] /\ new \subseteq Backends
  BY <1>1 DEF IInv, TypeOK
<1>6. known \in SUBSET Ops /\ bs \in SUBSET Backends
  BY <1>2, <1>3, <1>5 DEF Providers
<1> QED
  BY <1>4, <1>6, MarkKeeps DEF Modes

LEMMA ServeKeeps == ASSUME IInv, NEW p \in Processes, Serve(p) PROVE IInv'
<1>1. /\ ~Serving(p) /\ ~Gone(p) /\ UNCHANGED <<files, call, answers, overlaps, now, faults>>
      /\ proc' = [proc EXCEPT ![p].mode = "serving"]
  BY DEF Serve, Pass, Serving, Gone
<1>2. proc \in [Processes -> Providers]
  BY DEF IInv, TypeOK
<1>3. PICK bs : bs = proc[p].quarantined
  OBVIOUS
<1>4. PICK known : known = proc[p].known
  OBVIOUS
<1>5. bs \in SUBSET Backends /\ known \in SUBSET Ops
  BY <1>2, <1>3, <1>4 DEF Providers
<1>6. [proc[p] EXCEPT !.mode = "serving"]
      = [proc[p] EXCEPT !.mode = "serving", !.known = known, !.quarantined = bs]
  BY <1>2, <1>3, <1>4 DEF Providers
<1>7. proc' = [proc EXCEPT ![p].mode = "serving", ![p].known = known, ![p].quarantined = bs]
  BY <1>1, <1>6
<1> QED
  BY <1>1, <1>5, <1>7, MarkKeeps DEF Modes

LEMMA OpenKeeps == ASSUME IInv, NEW p \in Processes, NEW gen \in Generations, Open(p, gen) PROVE IInv'
<1>1. PICK x : x = [mode |-> "reservations", gen |-> gen, quarantined |-> {},
                    todo |-> {<<n, "reserved">> : n \in Reserved}, known |-> {}]
  OBVIOUS
<1>2. /\ Gone(p) /\ Newer(gen) /\ proc' = [proc EXCEPT ![p] = x]
      /\ entry' = IF "kv" \in Enabled THEN Collected(entry) ELSE entry
      /\ UNCHANGED <<ops, usage, file, call, answers, overtaken, outrun, now, faults>>
  BY <1>1 DEF Open, overlaps
<1>3. ~Serving(p)
  BY <1>2 DEF Serving, Gone
<1>4. x \in Providers /\ {i[1] : i \in x.todo} \subseteq Used
  BY <1>1 DEF Providers, Modes, Reserved, Used
<1>5. entry' \in Entries
  BY <1>2, RestTyped DEF Collected, Entries
<1> QED
  BY <1>2, <1>3, <1>4, <1>5, ProcQuiet

LEMMA CrashKeeps == ASSUME IInv, NEW p \in Processes, Crash(p) PROVE IInv'
<1>1. PICK x : x = [proc[p] EXCEPT !.mode = "down", !.quarantined = {}, !.todo = {}, !.known = {}]
  OBVIOUS
<1>2. /\ faults' \in 0..MaxFaults /\ proc' = [proc EXCEPT ![p] = x]
      /\ call' = [t \in Threads |-> IF call[t] # None /\ call[t].proc = p THEN None ELSE call[t]]
      /\ UNCHANGED <<ops, usage, file, entry, answers, overtaken, outrun, now>>
  BY <1>1, RestTyped DEF Crash, files, overlaps
<1>3. TypeOK /\ KindInv /\ RowsInv /\ CallInv /\ TodoInv /\ SharedInv
  BY DEF IInv
<1>4. x \in Providers /\ x.todo = {} /\ x.mode = "down"
  BY <1>1, <1>3 DEF TypeOK, Providers, Modes
<1>5. /\ proc' \in [Processes -> Providers] /\ proc'[p] = x
      /\ \A q \in Processes \ {p} : proc'[q] = proc[q]
  BY <1>2, <1>3, <1>4 DEF TypeOK
<1>6. call' \in [Threads -> Calls \cup {None}]
  BY <1>2, <1>3 DEF TypeOK
<1>7. TypeOK'
  BY <1>2, <1>3, <1>5, <1>6 DEF TypeOK
<1>8. Used' = Used /\ (\A b \in Backends : Marked(b)' = Marked(b))
  BY <1>2 DEF Used, Marked, Backend
<1>9. \A t \in Busy' : /\ t \in Busy /\ call'[t] = call[t] /\ Op(t)' = Op(t)
                       /\ call[t].proc \in Processes \ {p}
  <2>1. \A t \in Busy' : t \in Busy /\ call'[t] = call[t] /\ call[t].proc # p
    BY <1>2 DEF Busy
  <2>2. \A t \in Busy : call[t].proc \in Processes
    BY <1>3, BusyTyped
  <2> QED
    BY <2>1, <2>2 DEF Op
<1>10. KindInv' /\ RowsInv'
  BY <1>2, <1>3, <1>8 DEF KindInv, Kinded, RowsInv, SameIdentity
<1>11. CallInv'
  BY <1>2, <1>3, <1>5, <1>8, <1>9 DEF CallInv, Serving, Backend
<1>12. TodoInv'
  BY <1>3, <1>4, <1>5, <1>8 DEF TodoInv, Todo
<1>13. SharedInv'
  <2>1. (\A t \in Busy : Knows(call[t], ops[Op(t)], file, overtaken, outrun))'
    <3>1. \A t \in Busy' : Knows(call'[t], ops'[Op(t)'], file', overtaken', outrun')
      BY <1>2, <1>3, <1>9 DEF SharedInv
    <3> QED
      BY <3>1 DEF Knows, Op
  <2>2. Accounted'
    BY <1>2, AccountedSame
  <2>3. (\A n \in Used : HasRow(ops[n], n, overtaken))'
    BY <1>2, <1>3, <1>8 DEF SharedInv, HasRow
  <2> QED
    BY <2>1, <2>2, <2>3 DEF SharedInv
<1> QED
  BY <1>7, <1>10, <1>11, <1>12, <1>13 DEF IInv

-----------------------------------------------------------------------------
(* Every step, and the theorems.                                           *)

LEMMA Initially == Init => IInv
<1> SUFFICES ASSUME Init PROVE IInv
  OBVIOUS
<1>1. /\ ops = [n \in Ops |-> None] /\ usage = [b \in Backends |-> 0] /\ file = usage
      /\ entry = [version |-> 0, tombstone |-> FALSE, deletedAt |-> 0]
      /\ proc = [p \in Processes |->
             [mode |-> "down", gen |-> Min(Generations), quarantined |-> {}, todo |-> {}, known |-> {}]]
      /\ call = [t \in Threads |-> None] /\ answers = {} /\ overtaken = {} /\ outrun = {} /\ now = 0 /\ faults = 0
  BY DEF Init
<1>2. Min(Generations) \in Generations
  BY BoundsAssumption, MinOf
<1>3. TypeOK
  BY <1>1, <1>2, Bounds DEF TypeOK, Entries, Providers, Modes
<1>4. Used = {} /\ Busy = {} /\ \A p \in Processes : Gone(p) /\ Todo(p) = {}
  BY <1>1 DEF Used, Busy, Gone, Todo
<1>5. KindInv /\ RowsInv /\ CallInv /\ TodoInv
  BY <1>4 DEF KindInv, RowsInv, CallInv, TodoInv
<1>6. SharedInv
  BY <1>1, <1>4 DEF SharedInv, Accounted
<1> QED
  BY <1>3, <1>5, <1>6 DEF IInv

LEMMA Stepwise == IInv /\ [Next]_vars => IInv'
<1> SUFFICES ASSUME IInv, [Next]_vars PROVE IInv'
  OBVIOUS
<1>1. CASE UNCHANGED vars
  <2>1. UNCHANGED <<files, proc, call, answers, overlaps, now, faults>>
    BY <1>1 DEF vars
  <2> QED
    BY <2>1, QuietKeeps, RestTyped
<1>2. CASE Again
  BY <1>2, ReplayKeeps DEF Again
<1>3. CASE Tick
  BY <1>3, TickKeeps
<1>4. ASSUME NEW t \in Threads, Start(t) PROVE IInv'
  BY <1>4, ClaimKeeps DEF Start
<1>5. ASSUME NEW t \in Threads, Execute(t) PROVE IInv'
  BY <1>5, WriteLogKeeps, RefuseKeeps, ReserveKeeps, CommitKeeps, AbortKeeps DEF Execute
<1>6. ASSUME NEW t \in Threads, Settle(t) PROVE IInv'
  BY <1>6, MeasureKeeps, FinalizeKeeps, CannotFinalizeKeeps, CompleteKeeps, AnswerKeeps DEF Settle
<1>7. ASSUME NEW p \in Processes, Recover(p) PROVE IInv'
  BY <1>7, RecoverReservationKeeps, ReadLedgerKeeps, ReadMarkersKeeps, RecoverClaimKeeps,
     ValidateTerminalKeeps, ServeKeeps DEF Recover
<1>8. ASSUME NEW p \in Processes, Crash(p) PROVE IInv'
  BY <1>8, CrashKeeps
<1>9. ASSUME NEW p \in Processes, NEW gen \in Generations, Open(p, gen) PROVE IInv'
  BY <1>9, OpenKeeps
<1> QED
  BY <1>1, <1>2, <1>3, <1>4, <1>5, <1>6, <1>7, <1>8, <1>9 DEF Next

LEMMA Invariance == Spec => []IInv
<1>1. Init => IInv
  BY Initially
<1>2. IInv /\ [Next]_vars => IInv'
  BY Stepwise
<1> QED
  BY <1>1, <1>2, PTL DEF Spec

(* Every variable keeps its type, for any requests, processes and faults,   *)
(* also if executions overlap: a reservation is charged to a back end, and *)
(* a recovery only quarantines back ends (open, reserve).                  *)
THEOREM HostTyped == Spec => []TypeOK
<1>1. IInv => TypeOK
  BY DEF IInv
<1> QED
  BY <1>1, Invariance, PTL

(* A request mutates at most once, with any number of processes of any       *)
(* executions, resends, crashes and I/O errors between any two steps, unless *)
(* a recovery released its claim while a call of another execution was       *)
(* working on it (claim_replay, recover_claimed_replay).                   *)
THEOREM OnceUnlessOvertakenHolds == Spec => []OnceUnlessOvertaken
<1>1. IInv => OnceUnlessOvertaken
  BY DEF IInv, SharedInv, HasRow, RowsInv, OnceUnlessOvertaken, Marked
<1> QED
  BY <1>1, Invariance, PTL

(* No committed byte is forgotten: the usage of a back end is the size of    *)
(* its file, a reservation is open that tells a recovery to measure it, or  *)
(* another execution took the reservation or the measurement from a running *)
(* call (finalize, release, recover).                                      *)
THEOREM AccountedHolds == Spec => []Accounted
<1>1. IInv => Accounted
  BY DEF IInv, SharedInv
<1> QED
  BY <1>1, Invariance, PTL

-----------------------------------------------------------------------------
(* The truth of the answers.                                               *)

(* A success is the marker of the mutation, a failure of kv is none.        *)
True(outcome, answer, r) ==
    /\ outcome = "ok" /\ r.request.service # "logging" => r.marker > 0 /\ answer = r.marker
    /\ outcome = "error" /\ r.request.service = "kv" => r.marker = 0

(* What a row, a call about to complete and an answer say of an operation;  *)
(* a row that is completed keeps what it says.                             *)
Told(r) == True(r.row, r.answer, r)
Says(c, r) ==
    /\ c.at = "complete" => True(c.outcome, c.answer, r)
    /\ c.at = "answer" => r.row = c.outcome /\ r.answer = c.answer
Given(a, r) == r.gen = a.gen /\ r.request = a.request /\ r.row = a.outcome /\ r.answer = a.answer
Final(r, s) ==
    /\ s.gen = r.gen /\ s.request = r.request
    /\ r.row \in {"ok", "error"} => s.row = r.row /\ s.answer = r.answer

TrueInv ==
    /\ \A n \in Used : Told(ops[n])
    /\ \A t \in Busy : Says(call[t], ops[Op(t)])
    /\ \A a \in answers : \E n \in Used : Given(a, ops[n])

(* An operation is rewritten, and what was said of it stays.               *)
Rewritten(n, r) ==
    n \in Used /\ r \in Operations /\ ops' = [ops EXCEPT ![n] = r] /\ Final(ops[n], r) /\ Told(r)

LEMMA RewrittenFacts ==
    ASSUME IInv, TrueInv, NEW n, NEW r, Rewritten(n, r)
    PROVE  /\ Used' = Used /\ Used \subseteq Ops /\ n \in Used /\ ops'[n] = r
           /\ \A m \in Ops \ {n} : ops'[m] = ops[m]
           /\ \A m \in Used : Final(ops[m], ops'[m]) /\ Told(ops'[m])
<1>1. n \in Ops /\ r # None /\ ops \in [Ops -> Operations \cup {None}] /\ n \in Used /\ ops' = [ops EXCEPT ![n] = r]
  BY NoneAssumption DEF Rewritten, IInv, TypeOK, Used
<1>2. ops'[n] = r /\ \A m \in Ops \ {n} : ops'[m] = ops[m]
  BY <1>1
<1>3. Used' = Used /\ Used \subseteq Ops
  BY <1>1, <1>2 DEF Used
<1>4. \A m \in Used : Final(ops[m], ops'[m]) /\ Told(ops'[m])
  <2> SUFFICES ASSUME NEW m \in Used PROVE Final(ops[m], ops'[m]) /\ Told(ops'[m])
    OBVIOUS
  <2>1. CASE m = n
    BY <1>2, <2>1 DEF Rewritten
  <2>2. CASE m # n
    BY <1>2, <1>3, <2>2 DEF TrueInv, Final
  <2> QED
    BY <2>1, <2>2
<1> QED
  BY <1>1, <1>2, <1>3, <1>4

LEMMA GivenStays ==
    ASSUME IInv, TrueInv, Used \subseteq Used', \A m \in Used : Final(ops[m], ops'[m]), NEW a \in answers
    PROVE  \E n \in Used' : Given(a, ops'[n])
<1>1. PICK n \in Used : Given(a, ops[n])
  BY DEF TrueInv
<1>2. a.outcome \in {"ok", "error"}
  BY RestTyped DEF AnswersTyped
<1> QED
  BY <1>1, <1>2 DEF Given, Final

(* The step of a thread.                                                   *)
LEMMA ThreadTold ==
    ASSUME IInv, TrueInv, NEW t \in Busy, NEW c, call' = [call EXCEPT ![t] = c],
           c # None => c.op = Op(t),
           NEW r, Rewritten(Op(t), r), c # None => Says(c, r),
           \A a \in answers' : a \in answers \/ Given(a, r)
    PROVE  TrueInv'
<1> DEFINE n == Op(t)
<1>1. /\ Used' = Used /\ Used \subseteq Ops /\ n \in Used /\ ops'[n] = r
      /\ \A m \in Ops \ {n} : ops'[m] = ops[m]
      /\ \A m \in Used : Final(ops[m], ops'[m]) /\ Told(ops'[m])
  BY RewrittenFacts
<1>2. call'[t] = c /\ \A u \in Threads \ {t} : call'[u] = call[u]
  BY CallFacts DEF IInv, TypeOK
<1>3. \A u \in Busy' \ {t} : u \in Busy /\ call'[u] = call[u] /\ Op(u) \in Used /\ Op(u) # n /\ u \in Threads
  BY <1>2, CallFacts DEF Busy, IInv, CallInv
<1>4. \A u \in Busy' : Says(call'[u], ops'[call'[u].op])
  <2> SUFFICES ASSUME NEW u \in Busy' PROVE Says(call'[u], ops'[call'[u].op])
    OBVIOUS
  <2>1. CASE u = t
    <3>1. c # None
      BY <1>2, <2>1 DEF Busy
    <3> QED
      BY <1>1, <1>2, <2>1, <3>1
  <2>2. CASE u # t
    <3>1. call'[u] = call[u] /\ ops'[Op(u)] = ops[Op(u)] /\ u \in Busy
      BY <1>1, <1>3, <2>2
    <3> QED
      BY <3>1 DEF TrueInv, Op
  <2> QED
    BY <2>1, <2>2
<1>5. \A a \in answers' : \E m \in Used' : Given(a, ops'[m])
  BY <1>1, GivenStays
<1>6. (\A u \in Busy : Says(call[u], ops[Op(u)]))'
  BY <1>4 DEF Op, Says, True
<1> QED
  BY <1>1, <1>5, <1>6 DEF TrueInv, Told, True, Given

LEMMA StaysRewritten == ASSUME IInv, TrueInv, NEW n \in Used, ops' = ops PROVE Rewritten(n, ops[n])
<1>1. ops[n] \in Operations /\ n \in Ops /\ ops \in [Ops -> Operations \cup {None}]
  BY UsedTyped DEF IInv, TypeOK
<1> QED
  BY <1>1 DEF Rewritten, TrueInv, Final

(* A process that recovers leaves the markers as they are, and with them what *)
(* the calls of other processes are about to say.                          *)
Resettled(n, r) == Rewritten(n, r) /\ r.marker = ops[n].marker

LEMMA ProcTold ==
    ASSUME IInv, TrueInv, UNCHANGED <<call, answers>>,
           ops' = ops \/ \E n, r : Resettled(n, r)
    PROVE  TrueInv'
<1>1. /\ Used \subseteq Used' /\ Used' \subseteq Used
      /\ \A m \in Used : /\ Final(ops[m], ops'[m]) /\ Told(ops'[m])
                         /\ ops'[m].marker = ops[m].marker
  <2>1. CASE ops' = ops
    BY <2>1 DEF TrueInv, Final, Used
  <2>2. ASSUME NEW n, NEW r, Resettled(n, r)
        PROVE  /\ Used \subseteq Used' /\ Used' \subseteq Used
               /\ \A m \in Used : /\ Final(ops[m], ops'[m]) /\ Told(ops'[m])
                                  /\ ops'[m].marker = ops[m].marker
    BY <2>2, RewrittenFacts DEF Resettled
  <2> QED
    BY <2>1, <2>2
<1>2. \A t \in Busy' : Says(call'[t], ops'[call'[t].op])
  <2> SUFFICES ASSUME NEW t \in Busy PROVE Says(call[t], ops'[Op(t)])
    BY DEF Busy, Op
  <2>1. /\ Op(t) \in Used /\ call[t].outcome \in {"ok", "error"} /\ Says(call[t], ops[Op(t)])
    BY CallFacts, BusyTyped DEF IInv, TrueInv
  <2> QED
    BY <1>1, <2>1 DEF Says, True, Final
<1>3. \A a \in answers' : \E m \in Used' : Given(a, ops'[m])
  BY <1>1, GivenStays
<1>4. (\A t \in Busy : Says(call[t], ops[Op(t)]))'
  BY <1>2 DEF Op, Says, True
<1> QED
  BY <1>1, <1>3, <1>4 DEF TrueInv, Told, True, Given

LEMMA SameRewritten ==
    ASSUME IInv, TrueInv, NEW n \in Used, NEW r \in Operations, ops' = [ops EXCEPT ![n] = r],
           r.gen = ops[n].gen, r.request = ops[n].request, r.row = ops[n].row,
           r.answer = ops[n].answer, r.marker = ops[n].marker
    PROVE  Rewritten(n, r)
<1>1. Told(ops[n])
  BY DEF TrueInv
<1> QED
  BY <1>1 DEF Rewritten, Final, Told, True

(* The call goes on, and nothing is said of its operation.                 *)
LEMMA SilentThread ==
    ASSUME IInv, TrueInv, NEW t \in Busy, NEW c, call' = [call EXCEPT ![t] = c], UNCHANGED ops,
           c # None => c.op = Op(t) /\ Says(c, ops[Op(t)]),
           \A a \in answers' : a \in answers \/ Given(a, ops[Op(t)])
    PROVE  TrueInv'
<1>1. Op(t) \in Used
  BY CallFacts
<1>2. Rewritten(Op(t), ops[Op(t)])
  BY <1>1, StaysRewritten
<1> QED
  BY <1>2, ThreadTold

LEMMA GotoCall ==
    ASSUME IInv, NEW t \in Busy, NEW step \in {"work", "commit", "measure", "finalize", "complete", "answer"},
           Goto(t, step)
    PROVE  \E c \in Calls : /\ c.op = Op(t) /\ c.at = step /\ call' = [call EXCEPT ![t] = c]
                            /\ c.outcome = call[t].outcome /\ c.answer = call[t].answer
<1>1. call[t] \in Calls
  BY CallFacts
<1>2. PICK c : c = [call[t] EXCEPT !.at = step]
  OBVIOUS
<1>3. c \in Calls /\ c.op = Op(t) /\ c.at = step /\ c.outcome = call[t].outcome /\ c.answer = call[t].answer
  BY <1>1, <1>2 DEF Calls, Op
<1>4. call' = [call EXCEPT ![t] = c]
  BY <1>2 DEF Goto
<1> QED
  BY <1>3, <1>4

LEMMA RespondCall ==
    ASSUME IInv, NEW t \in Busy, NEW outcome \in {"ok", "error"}, Respond(t, outcome)
    PROVE  \E c \in Calls : /\ c.op = Op(t) /\ c.at = "complete" /\ c.outcome = outcome
                            /\ call' = [call EXCEPT ![t] = c]
<1>1. call[t] \in Calls
  BY CallFacts
<1>2. PICK c : c = [call[t] EXCEPT !.at = "complete", !.outcome = outcome]
  OBVIOUS
<1>3. c \in Calls /\ c.op = Op(t) /\ c.at = "complete" /\ c.outcome = outcome
  BY <1>1, <1>2 DEF Calls, Op
<1>4. call' = [call EXCEPT ![t] = c]
  BY <1>2 DEF Respond
<1> QED
  BY <1>3, <1>4

LEMMA AnsweredCall ==
    ASSUME IInv, NEW t \in Busy, NEW outcome \in {"ok", "error"}, Answered(t, outcome)
    PROVE  \E c \in Calls : /\ c.op = Op(t) /\ c.at = "complete" /\ c.outcome = outcome
                            /\ outcome = "ok" => c.answer = ops[Op(t)].marker
                            /\ call' = [call EXCEPT ![t] = c]
<1>1. PICK answer \in Nat : answer = IF outcome = "ok" THEN ops[Op(t)].marker ELSE 0
  <2>1. ops[Op(t)].marker \in Nat
    BY CallFacts, UsedTyped DEF IInv
  <2> QED
    BY <2>1
<1>2. PICK c : c = [call[t] EXCEPT !.at = "complete", !.outcome = outcome, !.answer = answer]
  OBVIOUS
<1>3. call[t] \in Calls
  BY CallFacts
<1>4. c \in Calls /\ c.op = Op(t) /\ c.at = "complete" /\ c.outcome = outcome /\ c.answer = answer
  BY <1>2, <1>3 DEF Calls, Op
<1>5. call' = [call EXCEPT ![t] = c]
  BY <1>1, <1>2 DEF Answered
<1> QED
  BY <1>1, <1>4, <1>5

LEMMA RespondTold ==
    ASSUME IInv, TrueInv, NEW t \in Busy, NEW outcome \in {"ok", "error"}, Respond(t, outcome),
           UNCHANGED <<ops, answers>>, ops[Op(t)].marker = 0, outcome = "ok" => Backend(Op(t)) = "logging"
    PROVE  TrueInv'
<1>1. PICK c \in Calls : c.op = Op(t) /\ c.at = "complete" /\ c.outcome = outcome /\ call' = [call EXCEPT ![t] = c]
  BY RespondCall
<1>2. Says(c, ops[Op(t)])
  BY <1>1 DEF Says, True, Backend
<1> QED
  BY <1>1, <1>2, SilentThread

(* The answer after a mutation: only sql may fail then.                    *)
LEMMA AnsweredTold ==
    ASSUME IInv, TrueInv, NEW t \in Busy, NEW outcome \in {"ok", "error"}, Answered(t, outcome),
           NEW r, Rewritten(Op(t), r), UNCHANGED answers,
           r.marker = ops[Op(t)].marker, r.request = ops[Op(t)].request,
           ops[Op(t)].marker > 0, outcome = "error" => Backend(Op(t)) = "sql"
    PROVE  TrueInv'
<1>1. PICK c \in Calls : /\ c.op = Op(t) /\ c.at = "complete" /\ c.outcome = outcome
                         /\ outcome = "ok" => c.answer = ops[Op(t)].marker
                         /\ call' = [call EXCEPT ![t] = c]
  BY AnsweredCall
<1>2. Says(c, r)
  BY <1>1 DEF Says, True, Backend
<1> QED
  BY <1>1, <1>2, ThreadTold

LEMMA UnsettledTold ==
    ASSUME IInv, TrueInv, NEW t \in Busy, call[t].at \in {"measure", "finalize"}, Unsettled(t),
           UNCHANGED <<ops, answers>>
    PROVE  TrueInv'
<1>1. Op(t) \in Used /\ ops[Op(t)].marker > 0
  BY CallFacts DEF Knows
<1>2. Rewritten(Op(t), ops[Op(t)])
  BY <1>1, StaysRewritten
<1>3. PICK outcome \in {"ok", "error"} : Answered(t, outcome) /\ (outcome = "error" => Backend(Op(t)) = "sql")
  BY DEF Unsettled
<1> QED
  BY <1>1, <1>2, <1>3, AnsweredTold

LEMMA WriteLogTold == ASSUME IInv, TrueInv, NEW t \in Threads, WriteLog(t) PROVE TrueInv'
<1>1. t \in Busy /\ call[t].at = "work" /\ Respond(t, "ok") /\ UNCHANGED <<ops, answers>> /\ Backend(Op(t)) = "logging"
  BY DEF WriteLog, At, Busy, files
<1>2. ops[Op(t)].marker = 0
  BY <1>1, CallFacts DEF Knows
<1> QED
  BY <1>1, <1>2, RespondTold

LEMMA RefuseTold == ASSUME IInv, TrueInv, NEW t \in Threads, Refuse(t) PROVE TrueInv'
<1>1. t \in Busy /\ call[t].at = "work" /\ Respond(t, "error") /\ UNCHANGED <<ops, answers>>
  BY DEF Refuse, At, Busy, files
<1>2. ops[Op(t)].marker = 0
  BY <1>1, CallFacts DEF Knows
<1> QED
  BY <1>1, <1>2, RespondTold

LEMMA ReserveTold == ASSUME IInv, TrueInv, NEW t \in Threads, Reserve(t) PROVE TrueInv'
<1> DEFINE n == Op(t)
<1>1. /\ t \in Busy /\ DeltaOf(Backend(n)) \in 1..Envelope /\ Goto(t, "commit") /\ UNCHANGED answers
      /\ ops' = [ops EXCEPT ![n].reservation = "reserved", ![n].delta = DeltaOf(Backend(n)),
                            ![n].charged = now + Ttl]
  BY DEF Reserve, At, Busy, Fits
<1>2. n \in Used /\ ops[n] \in Operations
  BY <1>1, CallFacts
<1>3. PICK delta : delta = DeltaOf(Backend(n))
  OBVIOUS
<1>4. delta \in Nat /\ now + Ttl \in Nat
  BY <1>1, <1>3, Bounds, RestTyped
<1>5. PICK r : r = [ops[n] EXCEPT !.reservation = "reserved", !.delta = delta, !.charged = now + Ttl]
  OBVIOUS
<1>6. /\ r \in Operations /\ r.gen = ops[n].gen /\ r.request = ops[n].request /\ r.row = ops[n].row
      /\ r.marker = ops[n].marker /\ r.answer = ops[n].answer
  BY <1>2, <1>4, <1>5 DEF Operations
<1>7. ops' = [ops EXCEPT ![n] = r]
  BY <1>1, <1>3, <1>5
<1> HIDE DEF n
<1>8. Rewritten(n, r)
  BY <1>2, <1>6, <1>7, SameRewritten
<1>9. PICK c \in Calls : c.op = n /\ c.at = "commit" /\ call' = [call EXCEPT ![t] = c]
  BY <1>1, GotoCall DEF n
<1>10. Says(c, r)
  BY <1>9 DEF Says
<1> QED
  BY <1>1, <1>8, <1>9, <1>10, ThreadTold DEF n

(* The row of a mutation is not completed when its marker is written.      *)
LEMMA CommitTold == ASSUME IInv, TrueInv, NEW t \in Threads, NEW growth \in Growths, Commit(t, growth) PROVE TrueInv'
<1> DEFINE n == Op(t)
           b == Backend(n)
<1>1. /\ t \in Busy /\ call[t].at = "commit" /\ entry' = Mutated(n) /\ Goto(t, "measure") /\ UNCHANGED answers
      /\ ops' = [ops EXCEPT ![n].marker = IF b = "kv" THEN entry'.version ELSE 1]
  BY DEF Commit, At, Busy
<1>2. n \in Used /\ ops[n] \in Operations /\ ops[n].row \in {"claimed", "none"}
  BY <1>1, CallFacts DEF Knows
<1>4. PICK marker : marker = IF b = "kv" THEN Mutated(n).version ELSE 1
  OBVIOUS
<1>5. marker \in Nat
  BY <1>2, <1>4, MutatedTyped
<1>6. PICK r : r = [ops[n] EXCEPT !.marker = marker]
  OBVIOUS
<1>7. r \in Operations /\ r.gen = ops[n].gen /\ r.request = ops[n].request /\ r.row \in {"claimed", "none"}
  BY <1>2, <1>5, <1>6 DEF Operations
<1>8. ops' = [ops EXCEPT ![n] = r]
  BY <1>1, <1>4, <1>6
<1>9. Rewritten(n, r)
  BY <1>2, <1>7, <1>8 DEF Rewritten, Final, Told, True
<1> HIDE DEF n, b
<1>10. PICK c \in Calls : c.op = n /\ c.at = "measure" /\ call' = [call EXCEPT ![t] = c]
  BY <1>1, GotoCall DEF n
<1>11. Says(c, r)
  BY <1>10 DEF Says
<1> QED
  BY <1>1, <1>9, <1>10, <1>11, ThreadTold DEF n

LEMMA AbortTold == ASSUME IInv, TrueInv, NEW t \in Threads, Abort(t) PROVE TrueInv'
<1> DEFINE n == Op(t)
<1>1. t \in Busy /\ call[t].at = "commit" /\ Respond(t, "error") /\ UNCHANGED answers
  BY DEF Abort, At, Busy
<1>2. n \in Used /\ ops[n] \in Operations /\ ops[n].marker = 0
  BY <1>1, CallFacts DEF Knows
<1>3. CASE ops' = Released(n)
  <2>1. PICK r : r = [ops[n] EXCEPT !.reservation = IF @ = "reserved" THEN "released" ELSE @]
    OBVIOUS
  <2>2. /\ r \in Operations /\ r.gen = ops[n].gen /\ r.request = ops[n].request /\ r.row = ops[n].row
        /\ r.marker = ops[n].marker /\ r.answer = ops[n].answer
    BY <1>2, <2>1 DEF Operations
  <2>3. ops' = [ops EXCEPT ![n] = r]
    BY <1>3, <2>1 DEF Released
  <2>4. Rewritten(n, r)
    BY <1>2, <2>2, <2>3, SameRewritten
  <2>5. PICK c \in Calls : c.op = n /\ c.at = "complete" /\ c.outcome = "error" /\ call' = [call EXCEPT ![t] = c]
    BY <1>1, RespondCall
  <2>6. Says(c, r)
    BY <1>2, <2>2, <2>5 DEF Says, True
  <2> QED
    BY <1>1, <2>4, <2>5, <2>6, ThreadTold
<1>4. CASE UNCHANGED ops
  BY <1>1, <1>2, <1>4, RespondTold
<1> QED
  BY <1>3, <1>4 DEF Abort

LEMMA MeasureTold == ASSUME IInv, TrueInv, NEW t \in Threads, Measure(t) PROVE TrueInv'
<1>1. t \in Busy /\ call[t].at = "measure" /\ UNCHANGED <<ops, answers>>
  BY DEF Measure, At, Busy, files
<1>2. CASE call' = [call EXCEPT ![t].at = "finalize", ![t].measured = file[Backend(Op(t))]]
  <2>1. PICK c : c = [call[t] EXCEPT !.at = "finalize", !.measured = file[Backend(Op(t))]]
    OBVIOUS
  <2>2. call[t] \in Calls
    BY <1>1, CallFacts
  <2>3. c.op = Op(t) /\ c.at = "finalize"
    BY <2>1, <2>2 DEF Calls, Op
  <2>4. call' = [call EXCEPT ![t] = c]
    BY <1>2, <2>1
  <2> QED
    BY <1>1, <2>3, <2>4, SilentThread DEF Says
<1>3. CASE Unsettled(t)
  BY <1>1, <1>3, UnsettledTold
<1> QED
  BY <1>2, <1>3 DEF Measure

LEMMA CannotFinalizeTold == ASSUME IInv, TrueInv, NEW t \in Threads, CannotFinalize(t) PROVE TrueInv'
<1>1. t \in Busy /\ call[t].at = "finalize" /\ UNCHANGED <<ops, answers>> /\ Unsettled(t)
  BY DEF CannotFinalize, At, Busy, files
<1> QED
  BY <1>1, UnsettledTold

LEMMA FinalizeTold == ASSUME IInv, TrueInv, NEW t \in Threads, Finalize(t) PROVE TrueInv'
<1> DEFINE n == Op(t)
<1>1. /\ t \in Busy /\ call[t].at = "finalize" /\ Answered(t, "ok") /\ UNCHANGED answers
      /\ ops' = [ops EXCEPT ![n].reservation = "committed"]
  BY DEF Finalize, Finalized, At, Busy
<1>2. n \in Used /\ ops[n] \in Operations /\ ops[n].marker > 0
  BY <1>1, CallFacts DEF Knows
<1>3. PICK r : r = [ops[n] EXCEPT !.reservation = "committed"]
  OBVIOUS
<1>4. /\ r \in Operations /\ r.gen = ops[n].gen /\ r.request = ops[n].request /\ r.row = ops[n].row
      /\ r.marker = ops[n].marker /\ r.answer = ops[n].answer
  BY <1>2, <1>3 DEF Operations
<1>5. ops' = [ops EXCEPT ![n] = r]
  BY <1>1, <1>3
<1>6. Rewritten(n, r)
  BY <1>2, <1>4, <1>5, SameRewritten
<1>7. PICK outcome \in {"ok", "error"} : outcome = "ok"
  OBVIOUS
<1> QED
  BY <1>1, <1>2, <1>4, <1>6, <1>7, AnsweredTold

LEMMA ReturnTold ==
    ASSUME IInv, TrueInv, NEW t \in Busy, Return(t), UNCHANGED ops,
           \A a \in answers' : a \in answers \/ Given(a, ops[Op(t)])
    PROVE  TrueInv'
<1>1. PICK c : c = None
  OBVIOUS
<1>2. call' = [call EXCEPT ![t] = c]
  BY <1>1 DEF Return
<1> QED
  BY <1>1, <1>2, SilentThread

LEMMA CompleteTold == ASSUME IInv, TrueInv, NEW t \in Threads, Complete(t) PROVE TrueInv'
<1> DEFINE n == Op(t)
<1>1. t \in Busy /\ call[t].at = "complete" /\ UNCHANGED answers /\ call[t].op = n
  BY DEF Complete, At, Busy, Op
<1>2. CASE /\ CanComplete(n, call[t].outcome, call[t].answer)
           /\ ops' = Completed(n, call[t].outcome, call[t].answer)
           /\ Goto(t, "answer")
  <2>1. /\ n \in Used /\ ops[n] \in Operations /\ call[t].outcome \in {"ok", "error"} /\ call[t].answer \in Nat
        /\ True(call[t].outcome, call[t].answer, ops[n])
    BY <1>1, CallFacts, BusyTyped DEF IInv, TrueInv, Says
  <2>2. PICK r : r = [ops[n] EXCEPT !.row = call[t].outcome, !.answer = call[t].answer]
    OBVIOUS
  <2>3. /\ r \in Operations /\ r.gen = ops[n].gen /\ r.request = ops[n].request
        /\ r.row = call[t].outcome /\ r.answer = call[t].answer /\ r.marker = ops[n].marker
    BY <2>1, <2>2 DEF Operations, Rows
  <2>4. ops' = [ops EXCEPT ![n] = r]
    BY <1>2, <2>2 DEF Completed
  <2>5. Final(ops[n], r)
    BY <1>2, <2>3 DEF Final, CanComplete
  <2>6. Rewritten(n, r)
    BY <2>1, <2>3, <2>4, <2>5 DEF Rewritten, Told, True
  <2>7. PICK c \in Calls : /\ c.op = n /\ c.at = "answer" /\ call' = [call EXCEPT ![t] = c]
                           /\ c.outcome = call[t].outcome /\ c.answer = call[t].answer
    BY <1>1, <1>2, GotoCall
  <2>8. Says(c, r)
    BY <2>3, <2>7 DEF Says
  <2> QED
    BY <1>1, <2>6, <2>7, <2>8, ThreadTold
<1>3. CASE Return(t) /\ UNCHANGED ops
  BY <1>1, <1>3, ReturnTold
<1> QED
  BY <1>1, <1>2, <1>3 DEF Complete

LEMMA AnswerTold == ASSUME IInv, TrueInv, NEW t \in Threads, Answer(t) PROVE TrueInv'
<1>1. /\ t \in Busy /\ call[t].at = "answer" /\ Return(t) /\ UNCHANGED ops
      /\ answers' = answers \cup {AnswerOf(Op(t), call[t].outcome, call[t].answer)}
  BY DEF Answer, At, Busy, files
<1>2. ops[Op(t)].row = call[t].outcome /\ ops[Op(t)].answer = call[t].answer
  BY <1>1 DEF TrueInv, Says
<1>3. Given(AnswerOf(Op(t), call[t].outcome, call[t].answer), ops[Op(t)])
  BY <1>2 DEF Given, AnswerOf
<1> QED
  BY <1>1, <1>3, ReturnTold

(* Only answers are added, or nothing at all.                              *)
LEMMA ReplayTold ==
    ASSUME IInv, TrueInv, NEW p \in Processes, NEW r \in Requests, NEW n \in Ops, Replay(p, r, n) PROVE TrueInv'
<1>1. /\ n \in Used /\ UNCHANGED <<ops, call>>
      /\ answers' = answers \cup {AnswerOf(n, ops[n].row, ops[n].answer)}
  BY DEF Replay, Existing, files
<1>2. Given(AnswerOf(n, ops[n].row, ops[n].answer), ops[n])
  BY DEF Given, AnswerOf
<1>3. \A a \in answers' : \E m \in Used : Given(a, ops[m])
  BY <1>1, <1>2 DEF TrueInv
<1> QED
  BY <1>1, <1>3 DEF TrueInv, Used, Busy, Op, Told, Says, Given, True

(* The calls that are left, if any, are as they were.                      *)
LEMMA QuietTold ==
    ASSUME TrueInv, UNCHANGED <<ops, answers>>, \A t \in Busy' : t \in Busy /\ call'[t] = call[t]
    PROVE  TrueInv'
<1>1. \A t \in Busy' : Says(call'[t], ops'[Op(t)'])
  BY DEF TrueInv, Op
<1> QED
  BY <1>1 DEF TrueInv, Used, Op, Told, Says, Given, True

LEMMA ClaimTold ==
    ASSUME IInv, TrueInv, NEW t \in Threads, NEW p \in Processes, NEW req \in Requests, NEW n \in Ops,
           Claim(t, p, req, n)
    PROVE  TrueInv'
<1>1. PICK c : c = [proc |-> p, op |-> n, at |-> "work", outcome |-> "ok", answer |-> 0, measured |-> 0]
  OBVIOUS
<1>2. PICK r : r = NewOp(proc[p].gen, req)
  OBVIOUS
<1>3. /\ n \notin Used /\ ops' = [ops EXCEPT ![n] = r] /\ call' = [call EXCEPT ![t] = c] /\ UNCHANGED answers
      /\ call[t] = None /\ ops \in [Ops -> Operations \cup {None}] /\ call \in [Threads -> Calls \cup {None}]
  BY <1>1, <1>2 DEF Claim, Fresh, IInv, TypeOK
<1>4. r.row = "claimed" /\ c.at = "work" /\ c.op = n
  BY <1>1, <1>2 DEF NewOp
<1>5. Used \subseteq Ops /\ (\A m \in Used : m # n /\ ops'[m] = ops[m]) /\ Used \subseteq Used'
      /\ Used' \subseteq Used \cup {n} /\ ops'[n] = r
  BY <1>3 DEF Used
<1>6. \A m \in Used' : Told(ops'[m])
  BY <1>4, <1>5 DEF TrueInv, Told, True
<1>7. \A u \in Busy' : Says(call'[u], ops'[call'[u].op])
  <2> SUFFICES ASSUME NEW u \in Busy' PROVE Says(call'[u], ops'[call'[u].op])
    OBVIOUS
  <2>1. CASE u = t
    BY <1>3, <1>4, <2>1 DEF Says
  <2>2. CASE u # t
    <3>1. call'[u] = call[u] /\ u \in Busy /\ Op(u) \in Used
      BY <1>3, <2>2, CallFacts DEF Busy
    <3> QED
      BY <1>5, <3>1 DEF TrueInv, Op
  <2> QED
    BY <2>1, <2>2
<1>8. \A a \in answers' : \E m \in Used' : Given(a, ops'[m])
  BY <1>3, <1>5 DEF TrueInv
<1>9. (\A u \in Busy : Says(call[u], ops[Op(u)]))'
  BY <1>7 DEF Op, Says, True
<1> QED
  BY <1>6, <1>8, <1>9 DEF TrueInv, Told, True, Given

(* A reservation is settled and nothing is said of it; a claim is released, *)
(* or completed with the marker.                                           *)
LEMMA FinalizedRewritten ==
    ASSUME IInv, TrueInv, NEW n \in Used, NEW state \in {"none", "reserved", "committed", "released"},
           ops' = [ops EXCEPT ![n].reservation = state]
    PROVE  \E m, r : Resettled(m, r)
<1>1. ops[n] \in Operations
  BY UsedTyped DEF IInv
<1>2. PICK r : r = [ops[n] EXCEPT !.reservation = state]
  OBVIOUS
<1>3. /\ r \in Operations /\ r.gen = ops[n].gen /\ r.request = ops[n].request /\ r.row = ops[n].row
      /\ r.marker = ops[n].marker /\ r.answer = ops[n].answer
  BY <1>1, <1>2 DEF Operations
<1>4. ops' = [ops EXCEPT ![n] = r]
  BY <1>2
<1> QED
  BY <1>3, <1>4, SameRewritten DEF Resettled

LEMMA RecoverReservationTold ==
    ASSUME IInv, TrueInv, NEW p \in Processes, NEW i \in proc[p].todo, RecoverReservation(p, i)
    PROVE  TrueInv'
<1>1. ~Serving(p) /\ ~Gone(p) /\ UNCHANGED <<call, answers>>
  BY DEF RecoverReservation, Pass, Serving, Gone
<1> DEFINE n == i[1]
<1>4. n \in Used /\ ops[n] \in Operations /\ ops[n].marker \in Nat
  BY UsedTyped DEF IInv, TodoInv, Todo
<1>5. PICK state : state = IF ops[n].reservation = "reserved" THEN "released" ELSE ops[n].reservation
  OBVIOUS
<1>6. state \in {"none", "reserved", "committed", "released"}
  BY <1>4, <1>5 DEF Operations
<1>7. ops' = ops \/ Finalized(n, file[Backend(n)]) \/ ops' = Released(n)
  <2>1. ops[n].marker > 0 \/ ops[n].marker = 0
    BY <1>4
  <2>2. CASE Backend(n) \notin Enabled
    BY <2>2 DEF RecoverReservation
  <2>3. CASE Backend(n) \in Enabled /\ ops[n].marker > 0 /\ CanFinalize(n)
    BY <2>3 DEF RecoverReservation
  <2>4. CASE Backend(n) \in Enabled /\ ops[n].marker > 0 /\ ~CanFinalize(n)
    BY <2>4 DEF RecoverReservation
  <2>5. CASE Backend(n) \in Enabled /\ ops[n].marker = 0
    BY <2>5 DEF RecoverReservation
  <2> QED
    BY <2>1, <2>2, <2>3, <2>4, <2>5
<1> HIDE DEF n
<1>8. ops' = ops \/ \E m, r : Resettled(m, r)
  <2>1. PICK committed \in {"none", "reserved", "committed", "released"} : committed = "committed"
    OBVIOUS
  <2>2. CASE Finalized(n, file[Backend(n)])
    <3>1. ops' = [ops EXCEPT ![n].reservation = committed]
      BY <2>1, <2>2 DEF Finalized
    <3> QED
      BY <1>4, <3>1, FinalizedRewritten
  <2>3. CASE ops' = Released(n)
    <3>1. ops' = [ops EXCEPT ![n].reservation = state]
      BY <1>5, <2>3 DEF Released
    <3> QED
      BY <1>4, <1>6, <3>1, FinalizedRewritten
  <2> QED
    BY <1>7, <2>2, <2>3
<1> QED
  BY <1>1, <1>8, ProcTold

LEMMA ReleaseRewritten ==
    ASSUME IInv, TrueInv, NEW n \in Used, ReleaseClaim(n)
    PROVE  Resettled(n, [ops[n] EXCEPT !.row = IF @ = "claimed" THEN "none" ELSE @,
                                       !.reservation = IF @ = "reserved" THEN "released" ELSE @])
<1>1. ops[n] \in Operations
  BY UsedTyped DEF IInv
<1>2. PICK r : r = [ops[n] EXCEPT !.row = IF @ = "claimed" THEN "none" ELSE @,
                                  !.reservation = IF @ = "reserved" THEN "released" ELSE @]
  OBVIOUS
<1>3. /\ r \in Operations /\ r.gen = ops[n].gen /\ r.request = ops[n].request /\ r.marker = ops[n].marker
      /\ r.answer = ops[n].answer /\ r.row = IF ops[n].row = "claimed" THEN "none" ELSE ops[n].row
  BY <1>1, <1>2 DEF Operations, Rows
<1>4. ops' = [ops EXCEPT ![n] = r]
  BY <1>2 DEF ReleaseClaim
<1>5. Told(ops[n])
  BY DEF TrueInv
<1>6. Final(ops[n], r) /\ Told(r)
  <2>1. CASE ops[n].row = "claimed"
    BY <1>3, <2>1 DEF Final, Told, True
  <2>2. CASE ops[n].row # "claimed"
    BY <1>3, <1>5, <2>2 DEF Final, Told, True
  <2> QED
    BY <2>1, <2>2
<1> QED
  BY <1>2, <1>3, <1>4, <1>6 DEF Rewritten, Resettled

LEMMA RecoverMarkedTold ==
    ASSUME IInv, TrueInv, NEW p \in Processes, NEW i, i[1] \in Used, ops[i[1]].marker > 0, RecoverMarked(p, i)
    PROVE  ops' = ops \/ \E m, r : Resettled(m, r)
<1>1. PICK n : n = i[1]
  OBVIOUS
<1>2. n \in Used /\ ops[n] \in Operations /\ ops[n].marker > 0 /\ ops[n].marker \in Nat
  BY <1>1, UsedTyped DEF IInv
<1>3. \/ ops' = ops \/ ops' = [ops EXCEPT ![n].reservation = "committed"]
      \/ /\ CanComplete(n, "ok", ops[n].marker)
         /\ ops' = [[ops EXCEPT ![n].reservation = "committed"]
                       EXCEPT ![n].row = "ok", ![n].answer = ops[n].marker]
  <2>1. CASE ~CanFinalize(n)
    BY <1>1, <2>1 DEF RecoverMarked
  <2>2. CASE CanFinalize(n) /\ ~Rebuildable(p, n)
    BY <1>1, <2>2 DEF RecoverMarked
  <2>3. CASE CanFinalize(n) /\ Rebuildable(p, n)
    BY <1>1, <2>3 DEF RecoverMarked
  <2> QED
    BY <2>1, <2>2, <2>3
<1>4. CASE ops' = [ops EXCEPT ![n].reservation = "committed"]
  <2>1. PICK committed \in {"none", "reserved", "committed", "released"} : committed = "committed"
    OBVIOUS
  <2> QED
    BY <1>2, <1>4, <2>1, FinalizedRewritten
<1>5. CASE /\ CanComplete(n, "ok", ops[n].marker)
           /\ ops' = [[ops EXCEPT ![n].reservation = "committed"]
                         EXCEPT ![n].row = "ok", ![n].answer = ops[n].marker]
  <2>1. PICK r : r = [ops[n] EXCEPT !.reservation = "committed", !.row = "ok", !.answer = ops[n].marker]
    OBVIOUS
  <2>2. /\ r \in Operations /\ r.gen = ops[n].gen /\ r.request = ops[n].request
        /\ r.row = "ok" /\ r.answer = ops[n].marker /\ r.marker = ops[n].marker
    BY <1>2, <2>1 DEF Operations, Rows
  <2>3. ops' = [ops EXCEPT ![n] = r]
    <3>1. n \in Ops /\ ops \in [Ops -> Operations \cup {None}]
      BY <1>2 DEF IInv, TypeOK, Used
    <3> QED
      BY <1>5, <2>1, <3>1
  <2>4. Final(ops[n], r) /\ Told(r)
    BY <1>2, <1>5, <2>2 DEF Final, Told, True, CanComplete
  <2>5. Resettled(n, r)
    BY <1>2, <2>2, <2>3, <2>4 DEF Rewritten, Resettled
  <2> QED
    BY <2>5
<1> QED
  BY <1>3, <1>4, <1>5

LEMMA RecoverClaimTold == ASSUME IInv, TrueInv, NEW p \in Processes, RecoverClaim(p) PROVE TrueInv'
<1>1. ~Serving(p) /\ ~Gone(p) /\ UNCHANGED <<call, answers>> /\ proc[p].todo # {}
  BY DEF RecoverClaim, Pass, Serving, Gone
<1>3. PICK i : i = First(p)
  OBVIOUS
<1>4. PICK n : n = i[1]
  OBVIOUS
<1>5. n \in Used /\ ops[n].marker \in Nat
  BY <1>1, <1>3, <1>4, FirstOf, UsedTyped DEF IInv
<1>6. ops' = ops \/ ReleaseClaim(n) \/ (ops[n].marker > 0 /\ RecoverMarked(p, i))
  <2>1. CASE Backend(n) = "logging"
    BY <1>3, <1>4, <2>1 DEF RecoverClaim
  <2>2. CASE Backend(n) # "logging" /\ ~(Backends \subseteq Enabled)
    BY <1>3, <1>4, <2>2 DEF RecoverClaim
  <2>3. CASE Backend(n) # "logging" /\ Backends \subseteq Enabled /\ Unmarked(n)
    BY <1>3, <1>4, <2>3 DEF RecoverClaim
  <2>4. CASE Backend(n) # "logging" /\ Backends \subseteq Enabled /\ ~Unmarked(n)
    <3>1. RecoverMarked(p, i)
      BY <1>3, <1>4, <2>4 DEF RecoverClaim
    <3>2. ops[n].marker > 0
      BY <1>5, <2>4 DEF Unmarked
    <3> QED
      BY <3>1, <3>2
  <2> QED
    BY <2>1, <2>2, <2>3, <2>4
<1>7. ops' = ops \/ \E m, r : Resettled(m, r)
  <2>1. ASSUME ReleaseClaim(n) PROVE \E m, r : Resettled(m, r)
    BY <1>5, <2>1, ReleaseRewritten
  <2>2. ASSUME ops[n].marker > 0, RecoverMarked(p, i) PROVE ops' = ops \/ \E m, r : Resettled(m, r)
    BY <1>4, <1>5, <2>2, RecoverMarkedTold
  <2> QED
    BY <1>6, <2>1, <2>2
<1> QED
  BY <1>1, <1>7, ProcTold

LEMMA CrashTold == ASSUME IInv, TrueInv, NEW p \in Processes, Crash(p) PROVE TrueInv'
<1>1. /\ UNCHANGED <<ops, answers>>
      /\ call' = [t \in Threads |-> IF call[t] # None /\ call[t].proc = p THEN None ELSE call[t]]
  BY DEF Crash, files
<1>2. \A t \in Busy' : t \in Busy /\ call'[t] = call[t]
  BY <1>1 DEF Busy
<1> QED
  BY <1>1, <1>2, QuietTold

LEMMA Truthfully == IInv /\ TrueInv /\ [Next]_vars => TrueInv'
<1> SUFFICES ASSUME IInv, TrueInv, [Next]_vars PROVE TrueInv'
  OBVIOUS
<1>1. ASSUME UNCHANGED <<ops, call, answers>> PROVE TrueInv'
  BY <1>1, QuietTold DEF Busy
<1>2. CASE UNCHANGED vars
  BY <1>1, <1>2 DEF vars, files
<1>3. CASE Again
  BY <1>3, ReplayTold DEF Again
<1>4. CASE Tick
  BY <1>1, <1>4 DEF Tick, files
<1>5. ASSUME NEW t \in Threads, Start(t) PROVE TrueInv'
  BY <1>5, ClaimTold DEF Start
<1>6. ASSUME NEW t \in Threads, Execute(t) PROVE TrueInv'
  BY <1>6, WriteLogTold, RefuseTold, ReserveTold, CommitTold, AbortTold DEF Execute
<1>7. ASSUME NEW t \in Threads, Settle(t) PROVE TrueInv'
  BY <1>7, MeasureTold, FinalizeTold, CannotFinalizeTold, CompleteTold, AnswerTold DEF Settle
<1>8. ASSUME NEW p \in Processes, Recover(p) PROVE TrueInv'
  <2>1. ReadLedger(p) \/ ReadMarkers(p) \/ ValidateTerminal(p) \/ Serve(p) => UNCHANGED <<ops, call, answers>>
    BY DEF ReadLedger, ReadMarkers, ValidateTerminal, Serve, files
  <2> QED
    BY <1>1, <1>8, <2>1, RecoverReservationTold, RecoverClaimTold DEF Recover
<1>9. ASSUME NEW p \in Processes, Crash(p) PROVE TrueInv'
  BY <1>9, CrashTold
<1>10. ASSUME NEW p \in Processes, NEW gen \in Generations, Open(p, gen) PROVE TrueInv'
  BY <1>1, <1>10 DEF Open
<1> QED
  BY <1>2, <1>3, <1>4, <1>5, <1>6, <1>7, <1>8, <1>9, <1>10 DEF Next

(* All answers to a request are the same, be it the first one, a stored one *)
(* or one rebuilt by a recovery, a success is in the files under the version *)
(* answered, and a failure of kv is not, but by a call whose claim was       *)
(* released while it ran (dispatch_frame, complete_replay,                 *)
(* rebuild_replay_response).                                               *)
THEOREM AnswersAreTrueHolds == Spec => []AnswersAreTrue
<1>1. Init => TrueInv
  BY DEF Init, TrueInv, Used, Busy
<1>2. IInv /\ TrueInv /\ [Next]_vars => TrueInv'
  BY Truthfully
<1>3. IInv /\ TrueInv => AnswersAreTrue
  <2> SUFFICES ASSUME IInv, TrueInv PROVE AnswersAreTrue
    OBVIOUS
  <2>1. RowsInv /\ SharedInv /\ answers \subseteq AnswersTyped
    BY RestTyped DEF IInv
  <2>2. ASSUME NEW a \in answers, NEW b \in answers, a.gen = b.gen, a.request.id = b.request.id PROVE a = b
    <3>1. PICK m \in Used, n \in Used : Given(a, ops[m]) /\ Given(b, ops[n])
      BY DEF TrueInv
    <3>2. a.outcome \in {"ok", "error"} /\ b.outcome \in {"ok", "error"}
      BY <2>1 DEF AnswersTyped
    <3>3. m = n
      BY <2>1, <2>2, <3>1, <3>2 DEF RowsInv, SameIdentity, Given
    <3>4. a.request = b.request /\ a.outcome = b.outcome /\ a.answer = b.answer
      BY <3>1, <3>3 DEF Given
    <3> QED
      BY <2>1, <2>2, <3>4 DEF AnswersTyped
  <2>3. ASSUME NEW a \in answers
        PROVE  LET done == {n \in Used : ops[n].gen = a.gen /\ ops[n].request = a.request /\ ops[n].marker > 0} IN
               /\ a.outcome = "ok" /\ a.request.service # "logging" => \E n \in done : ops[n].marker = a.answer
               /\ a.outcome = "error" /\ a.request.service = "kv" => done \subseteq overtaken
    <3>1. PICK m \in Used : Given(a, ops[m]) /\ Told(ops[m])
      BY DEF TrueInv
    <3>2. a.outcome \in {"ok", "error"} /\ \A n \in Used : ops[n].marker \in Nat
      BY <2>1, UsedTyped DEF AnswersTyped, IInv
    <3>3. ASSUME NEW n \in Used, ops[n].gen = a.gen, ops[n].request = a.request, ops[n].marker > 0
          PROVE  n = m \/ n \in overtaken
      BY <2>1, <3>1, <3>2, <3>3 DEF RowsInv, SharedInv, HasRow, SameIdentity, Given
    <3> QED
      BY <3>1, <3>2, <3>3 DEF Given, Told, True
  <2> QED
    BY <2>2, <2>3 DEF AnswersAreTrue
<1> QED
  BY <1>1, <1>2, <1>3, Invariance, PTL DEF Spec

=============================================================================
