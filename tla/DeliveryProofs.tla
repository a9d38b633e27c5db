--------------------------- MODULE DeliveryProofs ---------------------------
(***************************************************************************)
(* Proofs about the delivery of commands, for any number of versions and   *)
(* faults: a command is received and decided once and driven by one        *)
(* delivery at a time, and what the owner sees of commands and fences is a *)
(* behaviour of CommandOutcome.  Three facts carry it: the outbox is       *)
(* filled in one order, so that a version has one Prepare and one Start    *)
(* (ShapeInv); what is at the supervisor stands between the two journal    *)
(* entries of its command (ExecutionInv); and what a round is about to     *)
(* write was true when it was read and stays so (RoundInv).                *)
(***************************************************************************)
EXTENDS CommandDelivery, FiniteSetTheorems, WellFoundedInduction, TLAPS

(* Version v has command 2v - 1 for its Prepare and 2v for its Start, and   *)
(* fences are of versions that have both.                                   *)
ShapeInv ==
    /\ \A c \in Commands :
         /\ c = IF outbox[c].op = "prepare" THEN 2 * outbox[c].version - 1
                ELSE 2 * outbox[c].version
         /\ outbox[c].version <= visible
    /\ \A v \in Versions : fences[v] # "none" \/ v \in planned => 2 * v \in Commands
    /\ \A v \in planned : fences[v] = "none"

(* One entry of each kind for a command, the second after the first. *)
JournalInv ==
    /\ \A i, j \in DOMAIN journal :
         journal[i].cmd = journal[j].cmd /\ journal[i].kind = journal[j].kind => i = j
    /\ \A i \in DOMAIN journal : \E j \in DOMAIN journal :
         journal[j].cmd = journal[i].cmd /\ journal[j].kind = "received"

InExecution(q) == q.phase \in {"effect", "applied", "rejected"}

(* What is at the supervisor. *)
ExecutionInv ==
    /\ \A q, r \in requests : InExecution(q) /\ InExecution(r) /\ q.cmd = r.cmd => q = r
    /\ \A q \in requests : /\ InExecution(q) => Received(q.cmd) /\ ~Completed(q.cmd)
                           /\ q.phase = "answered" => Completed(q.cmd)
    /\ \A q, r \in requests : q.late = 0 /\ r.late = 0 => q = r

Acknowledged(c) == outbox[c].state = "acknowledged"

(* What a round knows: which of its commands are still pending, that the fence
   it is to open belongs to an applied Start of which the owner was told, and
   that the Starts it heals were acknowledged. *)
RoundInv ==
    round # None =>
        /\ \A c \in round.todo :
             Acknowledged(c) => c = Current /\ round.step \in {"save-hint", "open-fence"}
        /\ round.step = "save-hint" => round.todo # {}
        /\ round.step = "open-fence" \/ (round.step = "save-hint" /\ round.opens) =>
             round.todo # {} /\ Acknowledged(Current) /\ Applies(Current)
        /\ \A v \in round.heal : 2 * v \in Commands /\ Acknowledged(2 * v)

IInv == TypeOK /\ ShapeInv /\ JournalInv /\ ExecutionInv /\ RoundInv

-----------------------------------------------------------------------------
(* The least and the greatest of some numbers.                             *)

First(S) == CHOOSE c \in S : \A d \in S : c <= d

LEMMA FirstOf ==
    ASSUME NEW S \in SUBSET Nat, S # {}
    PROVE  First(S) \in S /\ \A d \in S : First(S) <= d
<1>1. PICK c \in S : \A d \in S : ~(<<d, c>> \in OpToRel(<, Nat))
  BY NatLessThanWellFounded, WFMin
<1>2. \A d \in S : c <= d
  <2> SUFFICES ASSUME NEW d \in S, d < c PROVE FALSE
    OBVIOUS
  <2>1. <<d, c>> \in OpToRel(<, Nat)
    BY DEF OpToRel
  <2> QED
    BY <1>1, <2>1
<1> QED
  BY <1>2 DEF First

LEMMA LatestIsNat ==
    ASSUME NEW m \in Nat, NEW n \in Nat, NEW S \in SUBSET (1..n)
    PROVE  Latest(m, S) \in Nat
<1> DEFINE T == S \cup {m}
           top == m + n
           D == {top - x : x \in T}
<1>1. \A x \in T : x \in Nat /\ x <= top
  OBVIOUS
<1>2. D \in SUBSET Nat /\ D # {}
  <2>1. top - m \in D
    OBVIOUS
  <2> QED
    BY <1>1, <2>1
<1>3. PICK d \in D : \A e \in D : d <= e
  <2> HIDE DEF D
  <2> QED
    BY <1>2, FirstOf
<1>4. PICK x \in T : d = top - x
  OBVIOUS
<1>5. \A y \in T : y <= x
  <2> SUFFICES ASSUME NEW y \in T PROVE y <= x
    OBVIOUS
  <2>1. top - y \in D
    OBVIOUS
  <2>2. d <= top - y
    BY <1>3, <2>1
  <2> QED
    BY <1>1, <1>4, <2>2
<1>6. Latest(m, S) \in T
  BY <1>5 DEF Latest
<1> QED
  BY <1>1, <1>6

-----------------------------------------------------------------------------
(* The journal.                                                            *)

LEMMA JournalTyped ==
    ASSUME TypeOK
    PROVE  /\ Len(journal) \in Nat /\ DOMAIN journal = 1..Len(journal)
           /\ \A c : ReceivedAt(c) \subseteq 1..Len(journal)
           /\ \A c : CompletedAt(c) \subseteq 1..Len(journal)
           /\ \A i \in DOMAIN journal : journal[i] \in Records /\ journal[i].cmd \in Commands
<1>1. journal \in Seq(Records)
  BY DEF TypeOK
<1>2. Len(journal) \in Nat /\ DOMAIN journal = 1..Len(journal)
      /\ \A i \in DOMAIN journal : journal[i] \in Records
  BY <1>1
<1> QED
  BY <1>2 DEF ReceivedAt, CompletedAt, TypeOK

LEMMA JournalSame ==
    ASSUME journal' = journal
    PROVE  /\ \A c : ReceivedAt(c)' = ReceivedAt(c) /\ CompletedAt(c)' = CompletedAt(c)
           /\ \A c : Received(c)' = Received(c) /\ Completed(c)' = Completed(c)
           /\ \A c, r : Decided(c, r)' = Decided(c, r)
BY DEF ReceivedAt, CompletedAt, Received, Completed, Decided

LEMMA JournalGrows ==
    ASSUME TypeOK, NEW e \in Records, e.cmd \in Commands, journal' = Append(journal, e)
    PROVE  /\ journal' \in Seq(Records) /\ Len(journal') = Len(journal) + 1
           /\ DOMAIN journal' = 1..(Len(journal) + 1)
           /\ journal'[Len(journal) + 1] = e
           /\ \A i \in DOMAIN journal : i \in DOMAIN journal' /\ journal'[i] = journal[i]
           /\ \A i \in DOMAIN journal' : i \in DOMAIN journal \/ i = Len(journal) + 1
           /\ \A c : Received(c) => Received(c)'
           /\ \A c : Completed(c) => Completed(c)'
           /\ \A c, r : Decided(c, r) => Decided(c, r)'
<1>1. /\ journal \in Seq(Records) /\ Len(journal) \in Nat /\ DOMAIN journal = 1..Len(journal)
  BY JournalTyped DEF TypeOK
<1>2. /\ journal' \in Seq(Records) /\ Len(journal') = Len(journal) + 1
      /\ DOMAIN journal' = 1..(Len(journal) + 1)
      /\ journal'[Len(journal) + 1] = e
      /\ \A i \in 1..Len(journal) : journal'[i] = journal[i]
  BY <1>1
<1>3. \A i \in DOMAIN journal : i \in DOMAIN journal' /\ journal'[i] = journal[i]
  BY <1>1, <1>2
<1>4. \A i \in DOMAIN journal' : i \in DOMAIN journal \/ i = Len(journal) + 1
  BY <1>1, <1>2
<1>5. \A c : ReceivedAt(c) \subseteq ReceivedAt(c)' /\ CompletedAt(c) \subseteq CompletedAt(c)'
  BY <1>3 DEF ReceivedAt, CompletedAt
<1>6. \A c : (Received(c) => Received(c)') /\ (Completed(c) => Completed(c)')
  BY <1>5 DEF Received, Completed
<1>7. \A c, r : Decided(c, r) => Decided(c, r)'
  <2> SUFFICES ASSUME NEW c, NEW r, Decided(c, r) PROVE Decided(c, r)'
    OBVIOUS
  <2>1. PICK i \in CompletedAt(c) : journal[i].result = r
    BY DEF Decided
  <2>2. i \in DOMAIN journal /\ i \in CompletedAt(c)'
    BY <1>5, <2>1 DEF CompletedAt
  <2>3. journal'[i] = journal[i]
    BY <1>3, <2>2
  <2> QED
    BY <2>1, <2>2, <2>3 DEF Decided
<1> QED
  BY <1>2, <1>3, <1>4, <1>6, <1>7

-----------------------------------------------------------------------------
(* The outbox.                                                             *)

LEMMA OutboxTyped ==
    ASSUME TypeOK
    PROVE  /\ Len(outbox) \in Nat /\ Commands = 1..Len(outbox) /\ Commands \in SUBSET Nat
           /\ \A c \in Commands : /\ outbox[c] \in Entries /\ outbox[c].version \in Versions
                                  /\ outbox[c].op \in Operations /\ outbox[c].expected \in Nat
                                  /\ c \in Nat /\ outbox[c].version \in Nat
           /\ \A v \in Versions : v \in Nat /\ v >= 1
<1>1. outbox \in Seq(Entries)
  BY DEF TypeOK
<1>2. Len(outbox) \in Nat /\ DOMAIN outbox = 1..Len(outbox)
      /\ \A c \in DOMAIN outbox : outbox[c] \in Entries
  BY <1>1
<1>3. \A v \in Versions : v \in Nat /\ v >= 1
  BY DeliveryBounds DEF Versions
<1> QED
  BY <1>2, <1>3 DEF Commands, Entries

(* A version has at most these two commands.                               *)
LEMMA ShapeFacts ==
    ASSUME TypeOK, ShapeInv
    PROVE  /\ Commands \subseteq 1..(2 * MaxVersions)
           /\ \A v \in Versions :
                /\ Planned(v, "start") = IF 2 * v \in Commands THEN {2 * v} ELSE {}
                /\ Planned(v, "prepare") = IF 2 * v - 1 \in Commands THEN {2 * v - 1} ELSE {}
           /\ \A v \in Versions, c \in Commands :
                /\ c = 2 * v => outbox[c].version = v /\ outbox[c].op = "start"
                /\ c = 2 * v - 1 => outbox[c].version = v /\ outbox[c].op = "prepare"
<1>1. ASSUME NEW c \in Commands
      PROVE  /\ c \in Nat /\ c >= 1 /\ outbox[c].version \in Nat
             /\ outbox[c].version >= 1 /\ outbox[c].version <= MaxVersions
             /\ outbox[c].op \in {"prepare", "start"}
             /\ c = IF outbox[c].op = "prepare" THEN 2 * outbox[c].version - 1
                    ELSE 2 * outbox[c].version
  BY OutboxTyped, DeliveryBounds DEF ShapeInv, Versions, Operations
<1>2. \A v \in Versions : v \in Nat /\ v >= 1
  BY OutboxTyped
<1>3. Commands \subseteq 1..(2 * MaxVersions)
  BY <1>1, DeliveryBounds
<1>4. ASSUME NEW v \in Versions, NEW c \in Commands
      PROVE  /\ c = 2 * v => outbox[c].version = v /\ outbox[c].op = "start"
             /\ c = 2 * v - 1 => outbox[c].version = v /\ outbox[c].op = "prepare"
             /\ outbox[c].version = v /\ outbox[c].op = "start" => c = 2 * v
             /\ outbox[c].version = v /\ outbox[c].op = "prepare" => c = 2 * v - 1
  BY <1>1, <1>2
<1>5. ASSUME NEW v \in Versions
      PROVE  /\ Planned(v, "start") = IF 2 * v \in Commands THEN {2 * v} ELSE {}
             /\ Planned(v, "prepare") = IF 2 * v - 1 \in Commands THEN {2 * v - 1} ELSE {}
  BY <1>4 DEF Planned
<1> QED
  BY <1>3, <1>4, <1>5

(* The life of an entry changes nothing else about it.                     *)
LEMMA StateSet ==
    ASSUME TypeOK, NEW c \in Commands, NEW state \in {"pending", "sent", "acknowledged"},
           outbox' = [outbox EXCEPT ![c].state = state]
    PROVE  /\ outbox' \in Seq(Entries) /\ Commands' = Commands
           /\ \A d \in Commands :
                /\ outbox'[d].version = outbox[d].version /\ outbox'[d].op = outbox[d].op
                /\ outbox'[d].expected = outbox[d].expected
                /\ outbox'[d].state = IF d = c THEN state ELSE outbox[d].state
<1>1. outbox \in Seq(Entries) /\ outbox[c] \in Entries
  BY OutboxTyped DEF TypeOK
<1>2. [outbox[c] EXCEPT !.state = state] \in Entries
  BY <1>1 DEF Entries
<1>3. outbox' = [outbox EXCEPT ![c] = [outbox[c] EXCEPT !.state = state]]
  OBVIOUS
<1>4. outbox' \in Seq(Entries) /\ Commands' = Commands
  BY <1>1, <1>2, <1>3 DEF Commands
<1>5. \A d \in Commands : outbox'[d] = IF d = c THEN [outbox[c] EXCEPT !.state = state]
                                       ELSE outbox[d]
  BY <1>1, <1>3 DEF Commands
<1>6. /\ [outbox[c] EXCEPT !.state = state].version = outbox[c].version
      /\ [outbox[c] EXCEPT !.state = state].op = outbox[c].op
      /\ [outbox[c] EXCEPT !.state = state].expected = outbox[c].expected
      /\ [outbox[c] EXCEPT !.state = state].state = state
  BY <1>1 DEF Entries
<1> QED
  BY <1>4, <1>5, <1>6

-----------------------------------------------------------------------------
(* What a step keeps that it does not touch.                               *)

LEMMA ShapeKept ==
    ASSUME IInv, Commands' = Commands, UNCHANGED <<visible, fences, planned>>,
           \A d \in Commands : outbox'[d].version = outbox[d].version
                               /\ outbox'[d].op = outbox[d].op
    PROVE  ShapeInv'
BY DEF IInv, ShapeInv

LEMMA JournalKept == ASSUME IInv, journal' = journal PROVE JournalInv'
BY JournalSame DEF IInv, JournalInv

(* Requests that end, or that the Kernel no longer waits for.              *)
LEMMA ExecutionKept ==
    ASSUME IInv, journal' = journal, NEW late,
           \A q \in requests' : \E r \in requests :
              q = [r EXCEPT !.late = IF @ = 0 THEN late ELSE @]
    PROVE  ExecutionInv'
<1> DEFINE F(r) == [r EXCEPT !.late = IF @ = 0 THEN late ELSE @]
<1>1. \A r \in requests : F(r).cmd = r.cmd /\ F(r).phase = r.phase
  BY DEF IInv, TypeOK
<1>2. ASSUME NEW q \in requests', NEW p \in requests', InExecution(q), InExecution(p), q.cmd = p.cmd
      PROVE  q = p
  <2>1. PICK r \in requests, t \in requests : q = F(r) /\ p = F(t)
    OBVIOUS
  <2>2. r.cmd = t.cmd /\ InExecution(r) /\ InExecution(t)
    BY <1>1, <1>2, <2>1 DEF InExecution
  <2>3. r = t
    BY <2>2 DEF IInv, ExecutionInv
  <2> QED
    BY <2>1, <2>3
<1>3. ASSUME NEW q \in requests'
      PROVE  /\ InExecution(q) => Received(q.cmd)' /\ ~Completed(q.cmd)'
             /\ q.phase = "answered" => Completed(q.cmd)'
  <2>1. PICK r \in requests : q = F(r)
    OBVIOUS
  <2>2. q.cmd = r.cmd /\ q.phase = r.phase
    BY <1>1, <2>1
  <2>3. /\ InExecution(q) => Received(q.cmd) /\ ~Completed(q.cmd)
        /\ q.phase = "answered" => Completed(q.cmd)
    BY <2>2 DEF IInv, ExecutionInv, InExecution
  <2> QED
    BY <2>3, JournalSame
<1>4. ASSUME NEW q \in requests', NEW p \in requests', q.late = 0, p.late = 0
      PROVE  q = p
  <2>1. PICK r \in requests, t \in requests : q = F(r) /\ p = F(t)
    OBVIOUS
  <2>2. r.late = 0 /\ t.late = 0
    BY <1>4, <2>1 DEF IInv, TypeOK
  <2>3. r = t
    BY <2>2 DEF IInv, ExecutionInv
  <2> QED
    BY <2>1, <2>3
<1> QED
  BY <1>2, <1>3, <1>4 DEF ExecutionInv

LEMMA ExecutionSame ==
    ASSUME IInv, journal' = journal, requests' \subseteq requests
    PROVE  ExecutionInv'
<1>1. \A c : Received(c)' = Received(c) /\ Completed(c)' = Completed(c)
  BY JournalSame
<1> QED
  BY <1>1 DEF IInv, ExecutionInv

RoundType == [todo : SUBSET Commands, step : Steps, seen : Nat,
              kind : {"command", "replay"}, opens : BOOLEAN, heal : SUBSET Versions]

LEMMA HeldRound ==
    ASSUME TypeOK, round # None
    PROVE  /\ round \in RoundType /\ mode = "serving" /\ planned = {}
           /\ round.todo \subseteq Commands /\ round.heal \subseteq Versions
           /\ round.seen \in Nat /\ round.step \in Steps
           /\ round.todo # {} => Current \in round.todo /\ Current \in Commands
BY OutboxTyped, FirstOf DEF TypeOK, RoundType, Planning, Current, First

(* A record of the type of a round is one.                                 *)
LEMMA RoundIsSome == ASSUME TypeOK, NEW r \in RoundType PROVE r # None
<1>1. r \in Rounds
  BY OutboxTyped DEF RoundType, Rounds
<1> QED
  BY <1>1, NoRoundAssumption

RequestType == [cmd : Commands, kind : {"command", "replay"}, late : 0..faults, phase : Phases]

(* The types after a step of a round, one conjunct for each thing it may   *)
(* change.                                                                 *)
LEMMA RoundStepTyped ==
    ASSUME TypeOK, round # None, UNCHANGED <<visible, mode, failed, planned, supervisor>>,
           outbox' \in Seq(Entries), Commands' = Commands, hint' \in Nat,
           fences' \in [Versions -> {"none", "preparing", "alive"}],
           round' = None \/ round' \in RoundType,
           requests' \subseteq RequestType', faults' \in 0..MaxFaults,
           \A q \in requests' : q.late = 0 => Visiting("await")' /\ q.cmd = Current'
    PROVE  TypeOK'
<1>1. mode = "serving" /\ planned = {}
  BY HeldRound
<1>2. /\ visible' \in 0..MaxVersions /\ mode' = "serving" /\ failed' \in BOOLEAN
      /\ planned' = {} /\ up' \in BOOLEAN /\ journal' \in Seq(Records)
      /\ adopted' \in [Versions -> {"none", "prepared", "running"}]
      /\ cached' \in [1..(2 * MaxVersions) -> {"none", "applied", "rejected"}]
      /\ \A i \in DOMAIN journal' : journal'[i].cmd \in Commands'
  BY <1>1 DEF TypeOK, supervisor
<1>3. \A q \in Awaited' : Visiting("await")' /\ q.cmd = Current'
  BY DEF Awaited
<1> QED
  BY <1>1, <1>2, <1>3 DEF TypeOK, RoundType, RequestType

(* Nothing is awaited but in that step.                                    *)
LEMMA NoneAwaited ==
    ASSUME TypeOK, ~Visiting("await")
    PROVE  \A q \in requests : q.late # 0
BY DEF TypeOK, Awaited

LEMMA RequestsTyped == ASSUME TypeOK PROVE requests \subseteq RequestType /\ faults \in 0..MaxFaults
BY DEF TypeOK, RequestType

LEMMA CurrentIs == Current = First(round.todo) /\ Current' = First(round'.todo)
BY DEF Current, First

-----------------------------------------------------------------------------
(* A round: the steps that write the outbox.                               *)

Visited == round # None /\ round.todo # {} /\ round.step \in {"query", "handoff", "await"}

(* While a command is visited, nobody else's acknowledgement is in the way. *)
LEMMA VisitedFacts ==
    ASSUME IInv, Visited
    PROVE  /\ Current \in Commands /\ Current \in round.todo
           /\ \A c \in round.todo : ~Acknowledged(c)
           /\ \A v \in round.heal : 2 * v \in Commands /\ Acknowledged(2 * v) /\ 2 * v # Current
<1>1. Current \in Commands /\ Current \in round.todo
  BY HeldRound DEF IInv, Visited
<1>2. \A c \in round.todo : ~Acknowledged(c)
  BY DEF IInv, RoundInv, Visited
<1>3. \A v \in round.heal : 2 * v \in Commands /\ Acknowledged(2 * v)
  BY DEF IInv, RoundInv, Visited
<1> QED
  BY <1>1, <1>2, <1>3

(* An attempt is recorded.                                                 *)
LEMMA AttemptKeeps ==
    ASSUME IInv, Visited, NEW seen \in Nat, RecordAttempt(seen), KernelRest,
           UNCHANGED supervisor, faults' \in 0..MaxFaults, requests' \subseteq RequestType',
           \A q \in requests' : q.late # 0, ExecutionInv'
    PROVE  IInv'
<1>1. PICK c : c = Current
  OBVIOUS
<1>2. c \in Commands /\ c \in round.todo
      /\ \A d \in round.todo : ~Acknowledged(d)
      /\ \A v \in round.heal : 2 * v \in Commands /\ Acknowledged(2 * v) /\ 2 * v # c
  BY <1>1, VisitedFacts
<1>3. outbox' = [outbox EXCEPT ![c].state = "sent"]
  BY <1>1 DEF RecordAttempt
<1>4. /\ outbox' \in Seq(Entries) /\ Commands' = Commands
      /\ \A d \in Commands :
           /\ outbox'[d].version = outbox[d].version /\ outbox'[d].op = outbox[d].op
           /\ outbox'[d].state = IF d = c THEN "sent" ELSE outbox[d].state
  BY <1>2, <1>3, StateSet DEF IInv
<1>5. round \in RoundType /\ round # None
  BY HeldRound DEF IInv, Visited
<1>6. round' = [round EXCEPT !.step = "save-hint", !.seen = seen, !.opens = FALSE]
  BY DEF RecordAttempt
<1>7. /\ round' \in RoundType /\ round'.todo = round.todo /\ round'.heal = round.heal
      /\ round'.step = "save-hint" /\ round'.opens = FALSE
  BY <1>5, <1>6 DEF RoundType, Steps
<1>8. UNCHANGED <<visible, hint, fences, mode, failed, planned>>
  BY DEF KernelRest
<1>9. TypeOK'
  BY <1>4, <1>5, <1>7, <1>8, RoundStepTyped DEF IInv, TypeOK, RoundType
<1>10. ShapeInv'
  BY <1>4, <1>8, ShapeKept
<1>11. JournalInv'
  BY JournalKept DEF supervisor
<1>12. RoundInv'
  <2>1. round.todo \subseteq Commands /\ round.heal \subseteq Versions
    BY <1>5 DEF RoundType
  <2>2. \A d \in Commands : Acknowledged(d)' <=> (d # c /\ Acknowledged(d))
    BY <1>4 DEF Acknowledged
  <2>3. \A d \in round'.todo : ~Acknowledged(d)'
    BY <1>2, <1>7, <2>1, <2>2
  <2>4. \A v \in round'.heal : 2 * v \in Commands' /\ Acknowledged(2 * v)'
    BY <1>2, <1>4, <1>7, <2>2
  <2> QED
    BY <1>2, <1>7, <2>3, <2>4 DEF RoundInv
<1> QED
  BY <1>9, <1>10, <1>11, <1>12 DEF IInv

(* An acknowledgement is projected, or found too low and passed over.      *)
LEMMA AckKeeps ==
    ASSUME IInv, Visited, NEW seen \in Nat, ProjectAcknowledgement(seen), KernelRest,
           UNCHANGED supervisor, faults' \in 0..MaxFaults, requests' \subseteq RequestType',
           \A q \in requests' : q.late # 0, ExecutionInv'
    PROVE  IInv'
<1>1. PICK c : c = Current
  OBVIOUS
<1>2. c \in Commands /\ c \in round.todo
      /\ \A d \in round.todo : ~Acknowledged(d)
      /\ \A v \in round.heal : 2 * v \in Commands /\ Acknowledged(2 * v) /\ 2 * v # c
  BY <1>1, VisitedFacts
<1>3. round \in RoundType /\ round # None /\ round.todo \subseteq Commands
      /\ round.heal \subseteq Versions
  BY HeldRound DEF IInv, Visited
<1>4. UNCHANGED <<visible, hint, fences, mode, failed, planned>> /\ journal' = journal
  BY DEF KernelRest, supervisor
<1>5. JournalInv'
  BY <1>4, JournalKept
<1>6. CASE \A i \in CompletedAt(c) : i >= outbox[c].expected + 2
  <2>1. /\ outbox' = [outbox EXCEPT ![c].state = "acknowledged"]
        /\ round' = [round EXCEPT !.step = "save-hint", !.seen = seen, !.opens = Applies(c)]
    BY <1>1, <1>6 DEF ProjectAcknowledgement
  <2>2. /\ outbox' \in Seq(Entries) /\ Commands' = Commands
        /\ \A d \in Commands :
             /\ outbox'[d].version = outbox[d].version /\ outbox'[d].op = outbox[d].op
             /\ outbox'[d].state = IF d = c THEN "acknowledged" ELSE outbox[d].state
    BY <1>2, <2>1, StateSet DEF IInv
  <2>3. Applies(c) \in BOOLEAN
    BY DEF Applies
  <2>4. /\ round' \in RoundType /\ round'.todo = round.todo /\ round'.heal = round.heal
        /\ round'.step = "save-hint" /\ round'.opens = Applies(c)
    BY <1>3, <2>1, <2>3 DEF RoundType, Steps
  <2>5. TypeOK'
    BY <1>3, <1>4, <2>2, <2>4, RoundStepTyped DEF IInv, TypeOK, RoundType
  <2>6. ShapeInv'
    BY <1>4, <2>2, ShapeKept
  <2>7. Current' = c
    BY <1>1, <2>4, CurrentIs
  <2>8. \A d \in Commands : Acknowledged(d)' <=> (d = c \/ Acknowledged(d))
    BY <2>2 DEF Acknowledged
  <2>9. Applies(c)' <=> Applies(c)
    BY <1>2, <1>4, <2>2, JournalSame DEF Applies
  <2>10. RoundInv'
    <3>1. \A d \in round'.todo : Acknowledged(d)' => d = c
      BY <1>2, <1>3, <2>4, <2>8
    <3>2. \A v \in round'.heal : 2 * v \in Commands' /\ Acknowledged(2 * v)'
      BY <1>2, <2>2, <2>4, <2>8
    <3>3. round'.opens => Acknowledged(c)' /\ Applies(c)'
      BY <1>2, <2>4, <2>8, <2>9
    <3> QED
      BY <1>2, <2>4, <2>7, <3>1, <3>2, <3>3 DEF RoundInv
  <2> QED
    BY <1>5, <2>5, <2>6, <2>10 DEF IInv
<1>7. CASE ~(\A i \in CompletedAt(c) : i >= outbox[c].expected + 2)
  <2>1. /\ outbox' = outbox
        /\ round' = [round EXCEPT !.step = "query", !.seen = seen, !.todo = @ \ {c}]
    BY <1>1, <1>7 DEF ProjectAcknowledgement
  <2>2. /\ round' \in RoundType /\ round'.todo = round.todo \ {c} /\ round'.heal = round.heal
        /\ round'.step = "query"
    BY <1>3, <2>1 DEF RoundType, Steps
  <2>3. Commands' = Commands /\ \A d : Acknowledged(d)' <=> Acknowledged(d)
    BY <2>1 DEF Commands, Acknowledged
  <2>4. TypeOK'
    BY <1>3, <1>4, <2>1, <2>2, <2>3, RoundStepTyped DEF IInv, TypeOK, RoundType
  <2>5. ShapeInv'
    BY <1>4, <2>1, <2>3, ShapeKept
  <2>6. RoundInv'
    BY <1>2, <2>2, <2>3 DEF RoundInv
  <2> QED
    BY <1>5, <2>4, <2>5, <2>6 DEF IInv
<1> QED
  BY <1>6, <1>7

LEMMA LatestTyped ==
    ASSUME TypeOK, round # None
    PROVE  /\ round.seen \in Nat
           /\ \A c : Latest(round.seen, CompletedAt(c)) \in Nat
           /\ \A c : Latest(round.seen, ReceivedAt(c) \cup CompletedAt(c)) \in Nat
<1>1. round.seen \in Nat
  BY HeldRound
<1>2. Len(journal) \in Nat /\ \A c : /\ CompletedAt(c) \in SUBSET (1..Len(journal))
                                     /\ ReceivedAt(c) \cup CompletedAt(c) \in SUBSET (1..Len(journal))
  BY JournalTyped
<1> QED
  BY <1>1, <1>2, LatestIsNat

(* The request the Kernel stops waiting for.                               *)
LEMMA AbandonFacts ==
    ASSUME IInv, faults' = faults + 1, faults' \in 0..MaxFaults, Commands' = Commands, Abandon,
           journal' = journal
    PROVE  /\ requests' \subseteq RequestType' /\ \A q \in requests' : q.late # 0
           /\ ExecutionInv'
<1>1. requests \subseteq RequestType /\ faults \in 0..MaxFaults
  BY RequestsTyped DEF IInv
<1>2. requests' = {[q EXCEPT !.late = IF @ = 0 THEN faults' ELSE @] : q \in Abandoned}
  BY DEF Abandon
<1>3. ASSUME NEW q \in requests
      PROVE  /\ [q EXCEPT !.late = IF @ = 0 THEN faults' ELSE @] \in RequestType'
             /\ [q EXCEPT !.late = IF @ = 0 THEN faults' ELSE @].late # 0
  <2>1. /\ q = [cmd |-> q.cmd, kind |-> q.kind, late |-> q.late, phase |-> q.phase]
        /\ q.cmd \in Commands /\ q.kind \in {"command", "replay"} /\ q.late \in 0..faults
        /\ q.phase \in Phases
    BY <1>1 DEF RequestType
  <2>2. q.late \in 0..faults' /\ faults' \in 0..faults' /\ faults' # 0 /\ q.late \in Nat
    BY <1>1, <2>1
  <2> QED
    BY <2>1, <2>2 DEF RequestType
<1>4. Abandoned \subseteq requests
  BY DEF Abandoned
<1>5. requests' \subseteq RequestType' /\ \A q \in requests' : q.late # 0
  BY <1>2, <1>3, <1>4
<1>6. PICK late : late = faults'
  OBVIOUS
<1>7. \A q \in requests' : \E r \in requests : q = [r EXCEPT !.late = IF @ = 0 THEN late ELSE @]
  BY <1>2, <1>4, <1>6
<1>8. ExecutionInv'
  BY <1>7, ExecutionKept
<1> QED
  BY <1>5, <1>8

LEMMA FaultFacts == ASSUME TypeOK, Fault PROVE faults' = faults + 1 /\ faults' \in 0..MaxFaults
BY DeliveryBounds DEF TypeOK, Fault

(* Commands stay, and requests keep their type, where neither changes.     *)
LEMMA RequestsSame ==
    ASSUME IInv, Commands' = Commands, faults' \in 0..MaxFaults, faults' >= faults,
           requests' \subseteq requests, journal' = journal
    PROVE  requests' \subseteq RequestType' /\ ExecutionInv'
<1>1. requests \subseteq RequestType /\ faults \in 0..MaxFaults
  BY RequestsTyped DEF IInv
<1>2. RequestType \subseteq RequestType'
  BY <1>1 DEF RequestType
<1> QED
  BY <1>1, <1>2, ExecutionSame

LEMMA AttemptOutbox ==
    ASSUME IInv, Visited, NEW seen, RecordAttempt(seen) \/ ProjectAcknowledgement(seen)
    PROVE  Commands' = Commands
<1>1. PICK c : c = Current
  OBVIOUS
<1>2. c \in Commands
  BY <1>1, VisitedFacts
<1>3. \/ outbox' = outbox
      \/ outbox' = [outbox EXCEPT ![c].state = "sent"]
      \/ outbox' = [outbox EXCEPT ![c].state = "acknowledged"]
  BY <1>1 DEF RecordAttempt, ProjectAcknowledgement
<1> QED
  BY <1>2, <1>3, StateSet DEF IInv, Commands

LEMMA QueryKeeps == ASSUME IInv, Query PROVE IInv'
<1>1. /\ Visited /\ round.step = "query" /\ round # None /\ ~Visiting("await")
  BY DEF Query, Visiting, InStep, Visited
<1>2. KernelRest /\ UNCHANGED supervisor /\ requests' = requests /\ faults' = faults
  BY DEF Query
<1>3. faults' \in 0..MaxFaults /\ faults' >= faults
  BY <1>2 DEF IInv, TypeOK
<1>4. journal' = journal
  BY <1>2 DEF supervisor
<1>5. \A q \in requests' : q.late # 0
  BY <1>1, <1>2, NoneAwaited DEF IInv
<1>6. PICK seen : seen = Latest(round.seen, ReceivedAt(Current) \cup CompletedAt(Current))
  OBVIOUS
<1>7. seen \in Nat
  BY <1>1, <1>6, LatestTyped DEF IInv
<1>8. CASE ProjectAcknowledgement(seen)
  <2>1. Commands' = Commands
    BY <1>1, <1>8, AttemptOutbox
  <2>2. requests' \subseteq RequestType' /\ ExecutionInv'
    BY <1>2, <1>3, <1>4, <2>1, RequestsSame
  <2> QED
    BY <1>1, <1>2, <1>3, <1>5, <1>7, <1>8, <2>2, AckKeeps
<1>9. CASE /\ round' = [round EXCEPT !.step = "handoff", !.seen = seen,
                           !.kind = IF Received(Current) THEN "replay" ELSE "command"]
           /\ UNCHANGED outbox
  <2>1. Commands' = Commands /\ \A d : Acknowledged(d)' <=> Acknowledged(d)
    BY <1>9 DEF Commands, Acknowledged
  <2>2. requests' \subseteq RequestType' /\ ExecutionInv'
    BY <1>2, <1>3, <1>4, <2>1, RequestsSame
  <2>3. round \in RoundType
    BY <1>1, HeldRound DEF IInv
  <2>4. /\ round' \in RoundType /\ round'.todo = round.todo /\ round'.heal = round.heal
        /\ round'.step = "handoff"
    BY <1>7, <1>9, <2>3 DEF RoundType, Steps
  <2>5. UNCHANGED <<visible, hint, fences, mode, failed, planned>>
    BY <1>2 DEF KernelRest
  <2>6. TypeOK'
    BY <1>1, <1>2, <1>3, <1>5, <1>9, <2>1, <2>2, <2>4, <2>5, RoundStepTyped DEF IInv, TypeOK, RoundType
  <2>7. ShapeInv'
    BY <1>9, <2>1, <2>5, ShapeKept
  <2>8. JournalInv'
    BY <1>4, JournalKept
  <2>9. RoundInv'
    BY <1>1, <2>1, <2>4, VisitedFacts DEF RoundInv
  <2> QED
    BY <2>2, <2>6, <2>7, <2>8, <2>9 DEF IInv
<1> QED
  BY <1>6, <1>8, <1>9 DEF Query

LEMMA UnreachableKeeps == ASSUME IInv, Unreachable PROVE IInv'
<1>1. Visited /\ round # None /\ ~Visiting("await")
  BY DEF Unreachable, Visiting, InStep, Visited
<1>2. /\ KernelRest /\ UNCHANGED supervisor /\ requests' = requests /\ RecordAttempt(round.seen)
      /\ journal' = journal
  BY DEF Unreachable, supervisor
<1>3. faults' \in 0..MaxFaults /\ faults' >= faults
  <2>1. faults' = faults \/ Fault
    BY DEF Unreachable
  <2> QED
    BY <2>1, FaultFacts DEF IInv, TypeOK
<1>4. \A q \in requests' : q.late # 0
  BY <1>1, <1>2, NoneAwaited DEF IInv
<1>5. requests' \subseteq RequestType' /\ ExecutionInv'
  BY <1>1, <1>2, <1>3, AttemptOutbox, RequestsSame
<1>6. round.seen \in Nat
  BY <1>1, LatestTyped DEF IInv
<1> QED
  BY <1>1, <1>2, <1>3, <1>4, <1>5, <1>6, AttemptKeeps

LEMMA ReceiveAnswerKeeps == ASSUME IInv, ReceiveAnswer PROVE IInv'
<1>1. Visited /\ round # None
  BY DEF ReceiveAnswer, Visiting, InStep, Visited
<1>2. PICK q \in Awaited :
        /\ \/ ProjectAcknowledgement(Latest(round.seen, CompletedAt(Current)))
           \/ RecordAttempt(round.seen)
        /\ requests' = requests \ {q}
  BY DEF ReceiveAnswer
<1>3. KernelRest /\ UNCHANGED supervisor /\ faults' = faults /\ journal' = journal
  BY DEF ReceiveAnswer, supervisor
<1>4. faults' \in 0..MaxFaults /\ faults' >= faults
  BY <1>3 DEF IInv, TypeOK
<1>5. \A p \in requests' : p.late # 0
  BY <1>2 DEF Awaited, IInv, ExecutionInv
<1>6. requests' \subseteq RequestType' /\ ExecutionInv'
  BY <1>1, <1>2, <1>3, <1>4, AttemptOutbox, RequestsSame
<1>7. round.seen \in Nat /\ Latest(round.seen, CompletedAt(Current)) \in Nat
  BY <1>1, LatestTyped DEF IInv
<1> QED
  BY <1>1, <1>2, <1>3, <1>4, <1>5, <1>6, <1>7, AttemptKeeps, AckKeeps

LEMMA ConnectionLostKeeps == ASSUME IInv, ConnectionLost PROVE IInv'
<1>1. Visited /\ round # None
  BY DEF ConnectionLost, Visiting, InStep, Visited
<1>2. /\ KernelRest /\ UNCHANGED supervisor /\ requests' = requests /\ RecordAttempt(round.seen)
      /\ journal' = journal /\ faults' = faults /\ Awaited = {}
  BY DEF ConnectionLost, supervisor
<1>3. faults' \in 0..MaxFaults /\ faults' >= faults
  BY <1>2 DEF IInv, TypeOK
<1>4. \A q \in requests' : q.late # 0
  BY <1>2 DEF Awaited
<1>5. requests' \subseteq RequestType' /\ ExecutionInv'
  BY <1>1, <1>2, <1>3, AttemptOutbox, RequestsSame
<1>6. round.seen \in Nat
  BY <1>1, LatestTyped DEF IInv
<1> QED
  BY <1>1, <1>2, <1>3, <1>4, <1>5, <1>6, AttemptKeeps

LEMMA TimeoutKeeps == ASSUME IInv, Timeout PROVE IInv'
<1>1. Visited /\ round # None
  BY DEF Timeout, Visiting, InStep, Visited
<1>2. /\ KernelRest /\ UNCHANGED supervisor /\ Abandon /\ RecordAttempt(round.seen)
      /\ journal' = journal
  BY DEF Timeout, supervisor
<1>3. faults' = faults + 1 /\ faults' \in 0..MaxFaults
  BY FaultFacts DEF Timeout, IInv
<1>4. requests' \subseteq RequestType' /\ (\A q \in requests' : q.late # 0) /\ ExecutionInv'
  BY <1>1, <1>2, <1>3, AttemptOutbox, AbandonFacts
<1>5. round.seen \in Nat
  BY <1>1, LatestTyped DEF IInv
<1> QED
  BY <1>1, <1>2, <1>3, <1>4, <1>5, AttemptKeeps

-----------------------------------------------------------------------------
(* A round: the steps that leave the outbox alone.                         *)

LEMMA QuietStep ==
    ASSUME IInv, round # None,
           UNCHANGED <<visible, outbox, mode, failed, planned, supervisor>>,
           hint' \in Nat, fences' = fences \/ \E v \in Versions : fences' = Opened(v),
           round' = None \/ round' \in RoundType, RoundInv',
           faults' \in 0..MaxFaults, requests' \subseteq RequestType', ExecutionInv',
           \A q \in requests' : q.late = 0 => Visiting("await")' /\ q.cmd = Current'
    PROVE  IInv'
<1>1. /\ outbox' \in Seq(Entries) /\ Commands' = Commands /\ planned = {}
      /\ fences \in [Versions -> {"none", "preparing", "alive"}]
  BY HeldRound DEF IInv, TypeOK, Commands
<1>2. /\ fences' \in [Versions -> {"none", "preparing", "alive"}]
      /\ \A w \in Versions : fences'[w] = "none" <=> fences[w] = "none"
  BY <1>1 DEF Opened
<1>3. TypeOK'
  BY <1>1, <1>2, RoundStepTyped DEF IInv
<1>4. ShapeInv'
  BY <1>1, <1>2 DEF IInv, ShapeInv
<1>5. JournalInv'
  BY JournalKept DEF supervisor
<1> QED
  BY <1>3, <1>4, <1>5 DEF IInv

(* What the memory of a round says is about the outbox and the journal.    *)
LEMMA KnownSame ==
    ASSUME outbox' = outbox, journal' = journal
    PROVE  /\ Commands' = Commands /\ \A c : Acknowledged(c)' <=> Acknowledged(c)
           /\ \A c : Applies(c)' <=> Applies(c)
<1>1. \A c, r : Decided(c, r)' <=> Decided(c, r)
  BY JournalSame
<1> QED
  BY <1>1 DEF Commands, Acknowledged, Applies

LEMMA SendKeeps == ASSUME IInv, Send PROVE IInv'
<1>1. /\ Visited /\ round # None /\ round.step = "handoff" /\ ~Visiting("await")
      /\ outbox' = outbox
  BY DEF Send, Visiting, InStep, Visited
<1>2. /\ UNCHANGED <<visible, hint, fences, mode, failed, planned, supervisor, faults>>
      /\ journal' = journal
  BY DEF Send, KernelRest, supervisor
<1>3. PICK q : q = [cmd |-> Current, kind |-> round.kind, late |-> 0, phase |-> "queued"]
  OBVIOUS
<1>4. requests' = requests \cup {q} /\ round' = [round EXCEPT !.step = "await"]
  BY <1>3 DEF Send
<1>5. round \in RoundType /\ round.kind \in {"command", "replay"}
  BY <1>1, HeldRound DEF IInv, RoundType
<1>6. /\ round' \in RoundType /\ round'.todo = round.todo /\ round'.heal = round.heal
      /\ round'.step = "await" /\ round'.opens = round.opens
  BY <1>4, <1>5 DEF RoundType, Steps
<1>7. round' # None
  BY <1>1, <1>2, <1>4, <1>5, <1>6, RoundIsSome, KnownSame DEF IInv, RoundType, supervisor
<1>8. Current' = Current
  BY <1>6, CurrentIs
<1>9. \A p \in requests : p.late # 0
  BY <1>1, NoneAwaited DEF IInv
<1>10. faults \in 0..MaxFaults /\ requests \subseteq RequestType /\ Current \in Commands
  BY <1>1, RequestsTyped, VisitedFacts DEF IInv
<1>11. q \in RequestType /\ q.cmd = Current /\ q.late = 0 /\ q.phase = "queued"
  BY <1>3, <1>5, <1>10 DEF RequestType, Phases
<1>12. RequestType' = RequestType /\ \A c : Acknowledged(c)' <=> Acknowledged(c)
  BY <1>1, <1>2, KnownSame DEF RequestType
<1>13. requests' \subseteq RequestType' /\ faults' \in 0..MaxFaults
  BY <1>2, <1>4, <1>10, <1>11, <1>12
<1>14. Visiting("await")'
  BY <1>1, <1>6, <1>7 DEF Visiting, InStep, Visited
<1>15. \A p \in requests' : p.late = 0 => Visiting("await")' /\ p.cmd = Current'
  BY <1>4, <1>8, <1>9, <1>11, <1>14
<1>16. ExecutionInv'
  <2>1. /\ \A c : Received(c)' <=> Received(c)
        /\ \A c : Completed(c)' <=> Completed(c)
    BY <1>2, JournalSame
  <2>2. ~InExecution(q) /\ q.phase # "answered"
    BY <1>11 DEF InExecution
  <2>3. \A p, r \in requests' : InExecution(p) /\ InExecution(r) /\ p.cmd = r.cmd => p = r
    BY <1>4, <2>2 DEF IInv, ExecutionInv
  <2>4. \A p \in requests' : /\ InExecution(p) => Received(p.cmd)' /\ ~Completed(p.cmd)'
                             /\ p.phase = "answered" => Completed(p.cmd)'
    BY <1>4, <2>1, <2>2 DEF IInv, ExecutionInv
  <2>5. \A p, r \in requests' : p.late = 0 /\ r.late = 0 => p = r
    BY <1>4, <1>9
  <2> QED
    BY <2>3, <2>4, <2>5 DEF ExecutionInv
<1>17. RoundInv'
  <2>1. /\ \A c \in round.todo : ~Acknowledged(c)
        /\ \A v \in round.heal : 2 * v \in Commands /\ Acknowledged(2 * v)
    BY <1>1, VisitedFacts
  <2>2. Commands' = Commands
    BY <1>1 DEF Commands
  <2> QED
    BY <1>6, <1>12, <2>1, <2>2 DEF RoundInv
<1>18. hint' \in Nat
  BY <1>2 DEF IInv, TypeOK
<1> QED
  BY <1>1, <1>2, <1>6, <1>13, <1>15, <1>16, <1>17, <1>18, QuietStep

(* The requests are the same, and none is awaited.                         *)
LEMMA QuietRequests ==
    ASSUME IInv, ~Visiting("await"), outbox' = outbox, journal' = journal, requests' = requests,
           faults' \in 0..MaxFaults, faults' >= faults
    PROVE  /\ requests' \subseteq RequestType' /\ ExecutionInv'
           /\ \A q \in requests' : q.late = 0 => Visiting("await")' /\ q.cmd = Current'
<1>1. Commands' = Commands
  BY DEF Commands
<1> QED
  BY <1>1, NoneAwaited, RequestsSame DEF IInv

LEMMA SaveHintKeeps == ASSUME IInv, SaveHint PROVE IInv'
<1>1. /\ round # None /\ round.step = "save-hint" /\ ~Visiting("await")
  BY DEF SaveHint, Visiting, InStep
<1>2. /\ UNCHANGED <<visible, outbox, fences, mode, failed, planned, requests, supervisor, faults>>
      /\ journal' = journal /\ hint' = round.seen
  BY DEF SaveHint, supervisor
<1>3. faults' \in 0..MaxFaults /\ faults' >= faults
  BY <1>2 DEF IInv, TypeOK
<1>4. PICK c : c = Current
  OBVIOUS
<1>5. round' = [round EXCEPT !.step = IF round.opens THEN "open-fence" ELSE "query",
                             !.todo = IF round.opens THEN @ ELSE @ \ {c}]
  BY <1>4 DEF SaveHint
<1>6. round \in RoundType /\ round.seen \in Nat
  BY <1>1, HeldRound DEF IInv
<1>7. /\ round' \in RoundType /\ round'.heal = round.heal /\ round'.opens = round.opens
      /\ round'.step = IF round.opens THEN "open-fence" ELSE "query"
      /\ round'.todo = IF round.opens THEN round.todo ELSE round.todo \ {c}
  BY <1>5, <1>6 DEF RoundType, Steps
<1>8. /\ Commands' = Commands /\ \A d : Acknowledged(d)' <=> Acknowledged(d)
      /\ \A d : Applies(d)' <=> Applies(d)
  BY <1>2, KnownSame
<1>9. /\ \A d \in round.todo : Acknowledged(d) => d = c
      /\ round.todo # {} /\ (round.opens => Acknowledged(c) /\ Applies(c))
      /\ \A v \in round.heal : 2 * v \in Commands /\ Acknowledged(2 * v)
  BY <1>1, <1>4 DEF IInv, RoundInv
<1>10. RoundInv'
  <2>1. \A v \in round'.heal : 2 * v \in Commands' /\ Acknowledged(2 * v)'
    BY <1>7, <1>8, <1>9
  <2>2. CASE round.opens
    <3>1. round'.todo = round.todo /\ round'.step = "open-fence"
      BY <1>7, <2>2
    <3>2. Current' = c
      BY <1>4, <3>1, CurrentIs
    <3> QED
      BY <1>8, <1>9, <2>1, <2>2, <3>1, <3>2 DEF RoundInv
  <2>3. CASE ~round.opens
    <3>1. round'.todo = round.todo \ {c} /\ round'.step = "query"
      BY <1>7, <2>3
    <3>2. \A d \in round'.todo : ~Acknowledged(d)'
      BY <1>8, <1>9, <3>1
    <3> QED
      BY <2>1, <3>1, <3>2 DEF RoundInv
  <2> QED
    BY <2>2, <2>3
<1>11. hint' \in Nat
  BY <1>2, <1>6
<1>12. /\ requests' \subseteq RequestType' /\ ExecutionInv'
       /\ \A q \in requests' : q.late = 0 => Visiting("await")' /\ q.cmd = Current'
  BY <1>1, <1>2, <1>3, QuietRequests
<1> QED
  BY <1>1, <1>2, <1>3, <1>7, <1>10, <1>11, <1>12, QuietStep

(* The fence of the current command is written, or not.                    *)
LEMMA FencedKeeps ==
    ASSUME IInv, InStep("open-fence"),
           UNCHANGED <<visible, outbox, hint, mode, failed, planned, requests, supervisor>>,
           faults' \in 0..MaxFaults, faults' >= faults,
           fences' = fences \/ fences' = Opened(outbox[Current].version),
           round' = [round EXCEPT !.step = "query", !.todo = @ \ {Current}]
    PROVE  IInv'
<1>1. round # None /\ round.step = "open-fence" /\ ~Visiting("await") /\ journal' = journal
  BY DEF Visiting, InStep, supervisor
<1>2. round \in RoundType /\ (round.todo # {} => Current \in Commands)
  BY <1>1, HeldRound DEF IInv
<1>3. /\ round' \in RoundType /\ round'.heal = round.heal
      /\ round'.step = "query" /\ round'.todo = round.todo \ {Current}
  BY <1>2 DEF RoundType, Steps
<1>4. Commands' = Commands /\ \A d : Acknowledged(d)' <=> Acknowledged(d)
  BY <1>1, KnownSame
<1>5. /\ \A d \in round.todo : Acknowledged(d) => d = Current
      /\ round.todo # {}
      /\ \A v \in round.heal : 2 * v \in Commands /\ Acknowledged(2 * v)
  BY <1>1 DEF IInv, RoundInv
<1>6. RoundInv'
  BY <1>3, <1>4, <1>5 DEF RoundInv
<1>7. outbox[Current].version \in Versions
  BY <1>2, <1>5, OutboxTyped DEF IInv
<1>8. hint' \in Nat
  BY DEF IInv, TypeOK
<1>9. /\ requests' \subseteq RequestType' /\ ExecutionInv'
      /\ \A q \in requests' : q.late = 0 => Visiting("await")' /\ q.cmd = Current'
  BY <1>1, QuietRequests
<1> QED
  BY <1>1, <1>3, <1>6, <1>7, <1>8, <1>9, QuietStep

LEMMA OpenFenceKeeps == ASSUME IInv, OpenFence PROVE IInv'
<1>1. faults' \in 0..MaxFaults /\ faults' >= faults
  BY DEF IInv, TypeOK, OpenFence
<1> QED
  BY <1>1, FencedKeeps DEF OpenFence

LEMMA FenceErrorKeeps == ASSUME IInv, FenceError PROVE IInv'
<1>1. faults' \in 0..MaxFaults /\ faults' >= faults
  BY FaultFacts DEF IInv, TypeOK, FenceError
<1> QED
  BY <1>1, FencedKeeps DEF FenceError, kernelFiles

(* The list of fences to heal, or what is left of it.                      *)
LEMMA HealingKeeps ==
    ASSUME IInv, round # None, round.step \in {"query", "heal"}, round.step = "query" => round.todo = {},
           UNCHANGED <<visible, outbox, mode, failed, planned, requests, supervisor>>,
           hint' \in Nat, fences' = fences \/ \E v \in Versions : fences' = Opened(v),
           faults' \in 0..MaxFaults, faults' >= faults,
           NEW heal \in SUBSET Versions,
           \A v \in heal : 2 * v \in Commands /\ Acknowledged(2 * v),
           round' = [round EXCEPT !.step = "heal", !.heal = heal]
    PROVE  IInv'
<1>1. ~Visiting("await") /\ journal' = journal
  BY DEF Visiting, InStep, supervisor
<1>2. round \in RoundType
  BY HeldRound DEF IInv
<1>3. /\ round' \in RoundType /\ round'.heal = heal /\ round'.step = "heal"
      /\ round'.todo = round.todo
  BY <1>2 DEF RoundType, Steps
<1>4. Commands' = Commands /\ \A d : Acknowledged(d)' <=> Acknowledged(d)
  BY <1>1, KnownSame
<1>5. \A d \in round.todo : ~Acknowledged(d)
  BY DEF IInv, RoundInv
<1>6. RoundInv'
  BY <1>3, <1>4, <1>5 DEF RoundInv
<1>7. /\ requests' \subseteq RequestType' /\ ExecutionInv'
      /\ \A q \in requests' : q.late = 0 => Visiting("await")' /\ q.cmd = Current'
  BY <1>1, QuietRequests
<1> QED
  BY <1>3, <1>6, <1>7, QuietStep

LEMMA BeginHealingKeeps == ASSUME IInv, BeginHealing PROVE IInv'
<1>1. round # None /\ round.step = "query" /\ round.todo = {}
  BY DEF BeginHealing, InStep
<1>2. round.seen \in Nat
  BY <1>1, HeldRound DEF IInv
<1>3. PICK heal : heal = Healable
  OBVIOUS
<1>4. heal \in SUBSET Versions
  BY <1>3 DEF Healable
<1>5. ASSUME NEW v \in heal PROVE 2 * v \in Commands /\ Acknowledged(2 * v)
  <2>1. v \in Versions
    BY <1>4
  <2>2. PICK c \in Planned(v, "start") : outbox[c].state = "acknowledged"
    BY <1>3 DEF Healable
  <2>3. Planned(v, "start") = IF 2 * v \in Commands THEN {2 * v} ELSE {}
    BY <2>1, ShapeFacts DEF IInv
  <2> QED
    BY <2>2, <2>3 DEF Acknowledged
<1>6. round' = [round EXCEPT !.step = "heal", !.heal = heal]
  BY <1>3 DEF BeginHealing
<1>7. /\ UNCHANGED <<visible, outbox, fences, mode, failed, planned, requests, supervisor, faults>>
      /\ hint' \in Nat
  BY <1>2 DEF BeginHealing
<1>8. faults' \in 0..MaxFaults /\ faults' >= faults
  BY <1>7 DEF IInv, TypeOK
<1> QED
  BY <1>1, <1>4, <1>5, <1>6, <1>7, <1>8, HealingKeeps

(* A version is taken off that list.                                       *)
LEMMA HealedKeeps ==
    ASSUME IInv, NEW v \in Versions, InStep("heal"), round' = [round EXCEPT !.heal = @ \ {v}],
           UNCHANGED <<visible, outbox, hint, mode, failed, planned, requests, supervisor>>,
           fences' = fences \/ fences' = Opened(v),
           faults' \in 0..MaxFaults, faults' >= faults
    PROVE  IInv'
<1>1. round # None /\ round.step = "heal"
  BY DEF InStep
<1>2. round \in RoundType /\ round.heal \in SUBSET Versions
  BY <1>1, HeldRound DEF IInv
<1>3. PICK heal : heal = round.heal \ {v}
  OBVIOUS
<1>4. round' = [round EXCEPT !.step = "heal", !.heal = heal]
  <2>1. [round EXCEPT !.step = "heal", !.heal = heal] = [round EXCEPT !.heal = heal]
    BY <1>1, <1>2 DEF RoundType
  <2> QED
    BY <1>3, <2>1
<1>5. heal \in SUBSET Versions /\ \A w \in heal : 2 * w \in Commands /\ Acknowledged(2 * w)
  BY <1>1, <1>2, <1>3 DEF IInv, RoundInv
<1>6. hint' \in Nat
  BY DEF IInv, TypeOK
<1> QED
  BY <1>1, <1>4, <1>5, <1>6, HealingKeeps

LEMMA HealKeeps == ASSUME IInv, NEW v \in Versions, Heal(v) PROVE IInv'
<1>1. faults' \in 0..MaxFaults /\ faults' >= faults
  BY DEF IInv, TypeOK, Heal
<1>2. /\ InStep("heal") /\ round' = [round EXCEPT !.heal = @ \ {v}]
      /\ fences' = fences \/ fences' = Opened(v)
      /\ UNCHANGED <<visible, outbox, hint, mode, failed, planned, requests, supervisor>>
  BY DEF Heal
<1> QED
  BY <1>1, <1>2, HealedKeeps

LEMMA HealErrorKeeps == ASSUME IInv, NEW v \in Versions, HealError(v) PROVE IInv'
<1>1. faults' \in 0..MaxFaults /\ faults' >= faults
  BY FaultFacts DEF IInv, TypeOK, HealError
<1> QED
  BY <1>1, HealedKeeps DEF HealError, kernelFiles

LEMMA EndRoundKeeps == ASSUME IInv, EndRound PROVE IInv'
<1>1. /\ round # None /\ round' = None /\ ~Visiting("await")
      /\ UNCHANGED <<visible, outbox, hint, fences, mode, failed, planned, requests, supervisor>>
      /\ faults' = faults /\ journal' = journal
  BY DEF EndRound, InStep, Visiting, kernelFiles, supervisor
<1>2. faults' \in 0..MaxFaults /\ faults' >= faults /\ hint' \in Nat
  BY <1>1 DEF IInv, TypeOK
<1>3. RoundInv'
  BY <1>1 DEF RoundInv
<1>4. /\ requests' \subseteq RequestType' /\ ExecutionInv'
      /\ \A q \in requests' : q.late = 0 => Visiting("await")' /\ q.cmd = Current'
  BY <1>1, <1>2, QuietRequests
<1> QED
  BY <1>1, <1>2, <1>3, <1>4, QuietStep

LEMMA RoundErrorKeeps == ASSUME IInv, RoundError PROVE IInv'
<1>1. /\ round # None /\ round' = None
      /\ UNCHANGED <<visible, outbox, hint, fences, mode, failed, planned, supervisor>>
      /\ journal' = journal /\ Abandon /\ Commands' = Commands
  BY DEF RoundError, InStep, kernelFiles, supervisor, Commands
<1>2. faults' = faults + 1 /\ faults' \in 0..MaxFaults
  BY FaultFacts DEF RoundError, IInv
<1>3. requests' \subseteq RequestType' /\ (\A q \in requests' : q.late # 0) /\ ExecutionInv'
  BY <1>1, <1>2, AbandonFacts
<1>4. RoundInv' /\ hint' \in Nat
  BY <1>1 DEF RoundInv, IInv, TypeOK
<1> QED
  BY <1>1, <1>2, <1>3, <1>4, QuietStep

(* A round begins with what is pending.                                    *)
LEMMA NewRoundFacts ==
    ASSUME IInv
    PROVE  /\ NewRound \in RoundType /\ NewRound # None /\ NewRound.step = "query"
           /\ NewRound.heal = {} /\ \A c \in NewRound.todo : c \in Commands /\ ~Acknowledged(c)
<1>1. hint \in Nat /\ Pending \in SUBSET Commands
  BY DEF IInv, TypeOK, Pending
<1>2. NewRound \in RoundType
  BY <1>1 DEF NewRound, RoundType, Steps
<1>3. NewRound # None
  BY <1>2, RoundIsSome DEF IInv
<1> QED
  BY <1>2, <1>3 DEF NewRound, Pending, Acknowledged

LEMMA BeginRoundKeeps == ASSUME IInv, BeginRound PROVE IInv'
<1>1. /\ round = None /\ mode = "serving" /\ round' = NewRound /\ ~Visiting("await")
      /\ UNCHANGED <<visible, outbox, hint, fences, mode, failed, planned, requests, faults>>
      /\ UNCHANGED <<journal, up, adopted, cached>>
  BY DEF BeginRound, Visiting, InStep, kernelFiles, supervisor
<1>2. faults' \in 0..MaxFaults /\ faults' >= faults
  BY <1>1 DEF IInv, TypeOK
<1>3. /\ requests' \subseteq RequestType' /\ ExecutionInv'
      /\ \A q \in requests' : q.late = 0 => Visiting("await")' /\ q.cmd = Current'
  BY <1>1, <1>2, QuietRequests
<1>4. Commands' = Commands /\ \A d : Acknowledged(d)' <=> Acknowledged(d)
  BY <1>1, KnownSame
<1>5. round' \in RoundType
  BY <1>1, NewRoundFacts
<1>6. TypeOK'
  BY <1>1, <1>3, <1>4, <1>5 DEF IInv, TypeOK, RoundType, RequestType, Awaited, Planning
<1>7. RoundInv'
  BY <1>1, <1>4, NewRoundFacts DEF RoundInv
<1>8. ShapeInv' /\ JournalInv'
  BY <1>1, <1>4, ShapeKept, JournalKept
<1> QED
  BY <1>3, <1>6, <1>7, <1>8 DEF IInv

-----------------------------------------------------------------------------
(* Planning.                                                               *)

LEMMA Roundless ==
    ASSUME TypeOK, mode # "serving" \/ round = None
    PROVE  /\ round = None /\ ~Visiting("await") /\ \A q \in requests : q.late # 0
           /\ visible \in 0..MaxVersions /\ hint \in Nat /\ planned \subseteq 1..visible
BY NoneAwaited DEF TypeOK, Visiting, InStep

LEMMA PlannedKeeps ==
    ASSUME IInv, Planning, UNCHANGED <<visible, hint, fences, mode, failed, round, requests>>,
           UNCHANGED <<supervisor, faults>>, outbox' \in Seq(Entries), Commands \subseteq Commands',
           planned' \subseteq 1..visible, ShapeInv'
    PROVE  IInv'
<1>1. round = None /\ (\A q \in requests : q.late # 0) /\ journal' = journal
  BY Roundless DEF IInv, Planning, supervisor
<1>2. requests \subseteq RequestType'
  BY RequestsTyped DEF IInv, RequestType
<1>3. /\ visible' \in 0..MaxVersions /\ hint' \in Nat /\ mode' = mode /\ failed' \in BOOLEAN
      /\ fences' \in [Versions -> {"none", "preparing", "alive"}]
      /\ up' \in BOOLEAN /\ journal' \in Seq(Records) /\ faults' \in 0..MaxFaults
      /\ adopted' \in [Versions -> {"none", "prepared", "running"}]
      /\ cached' \in [1..(2 * MaxVersions) -> {"none", "applied", "rejected"}]
      /\ \A i \in DOMAIN journal' : journal'[i].cmd \in Commands'
  BY DEF IInv, TypeOK, supervisor
<1>4. Planning' /\ round' = None /\ planned' \subseteq 1..visible' /\ Awaited' = {}
      /\ mode' \in {"down", "starting", "submitting", "serving"}
  BY <1>1 DEF Planning, Awaited
<1>5. TypeOK'
  BY <1>2, <1>3, <1>4 DEF TypeOK, RequestType
<1>6. ExecutionInv' /\ JournalInv' /\ RoundInv'
  BY <1>1, <1>4, ExecutionSame, JournalKept DEF RoundInv
<1> QED
  BY <1>5, <1>6 DEF IInv

LEMMA OutboxGrows ==
    ASSUME IInv, NEW v \in Versions, NEW op \in Operations, NEW expected \in Nat,
           Plan(v, op, expected)
    PROVE  /\ outbox' \in Seq(Entries) /\ Commands' = Commands \cup {Len(outbox) + 1}
           /\ Len(outbox) + 1 \notin Commands
           /\ outbox'[Len(outbox) + 1].version = v /\ outbox'[Len(outbox) + 1].op = op
           /\ outbox'[Len(outbox) + 1].state = "pending"
           /\ \A c \in Commands : outbox'[c] = outbox[c]
<1> DEFINE e == [version |-> v, op |-> op, expected |-> expected, state |-> "pending"]
<1>1. outbox \in Seq(Entries) /\ Len(outbox) \in Nat /\ Commands = 1..Len(outbox)
  BY OutboxTyped DEF IInv, TypeOK
<1>2. e \in Entries /\ outbox' = Append(outbox, e)
  BY DEF Entries, Plan
<1>3. e.version = v /\ e.op = op /\ e.state = "pending"
  OBVIOUS
<1> HIDE DEF e
<1>4. /\ outbox' \in Seq(Entries) /\ Len(outbox') = Len(outbox) + 1
      /\ outbox'[Len(outbox) + 1] = e
      /\ \A c \in 1..Len(outbox) : outbox'[c] = outbox[c]
  BY <1>1, <1>2
<1>5. Commands' = 1..(Len(outbox) + 1)
  BY <1>1, <1>4 DEF Commands
<1> QED
  BY <1>1, <1>3, <1>4, <1>5

(* The versions before the next one have both their commands, so that the  *)
(* next command of the outbox is its.                                      *)
LEMMA NextCommand ==
    ASSUME IInv, NEW v \in Versions, IsNext(v)
    PROVE  /\ v \in 1..visible /\ v \notin planned /\ fences[v] = "none"
           /\ Planned(v, "start") = {} <=> 2 * v \notin Commands
           /\ Planned(v, "start") = {} /\ Planned(v, "prepare") = {} => Len(outbox) = 2 * v - 2
           /\ Planned(v, "start") = {} /\ Planned(v, "prepare") # {} => Len(outbox) = 2 * v - 1
<1>1. /\ Len(outbox) \in Nat /\ Commands = 1..Len(outbox) /\ v \in Nat /\ v >= 1
      /\ visible \in Nat /\ visible <= MaxVersions
  BY OutboxTyped, DeliveryBounds DEF IInv, TypeOK
<1>2. v \in 1..visible /\ v \notin planned /\ fences[v] = "none"
  BY DEF IsNext, Unplanned
<1>3. v = 1 \/ 2 * (v - 1) \in Commands
  <2> SUFFICES ASSUME v # 1 PROVE 2 * (v - 1) \in Commands
    OBVIOUS
  <2>1. v - 1 \in 1..visible /\ v - 1 \in Versions /\ ~(v <= v - 1)
    BY <1>1, <1>2, DeliveryBounds DEF Versions
  <2>2. v - 1 \notin Unplanned
    BY <2>1 DEF IsNext
  <2>3. fences[v - 1] # "none" \/ v - 1 \in planned
    BY <2>1, <2>2 DEF Unplanned
  <2> QED
    BY <2>1, <2>3 DEF IInv, ShapeInv
<1>4. /\ Planned(v, "start") = IF 2 * v \in Commands THEN {2 * v} ELSE {}
      /\ Planned(v, "prepare") = IF 2 * v - 1 \in Commands THEN {2 * v - 1} ELSE {}
  BY ShapeFacts DEF IInv
<1>5. Planned(v, "start") = {} <=> 2 * v \notin Commands
  BY <1>4
<1>6. Planned(v, "prepare") = {} <=> 2 * v - 1 \notin Commands
  BY <1>4
<1> QED
  BY <1>1, <1>2, <1>3, <1>5, <1>6

LEMMA PlanPrepareKeeps == ASSUME IInv, NEW v \in Versions, PlanPrepare(v) PROVE IInv'
<1>1. /\ v \in 1..visible /\ Len(outbox) = 2 * v - 2 /\ v \in Nat /\ Planning
      /\ Commands \in SUBSET Nat
  BY NextCommand, OutboxTyped DEF PlanPrepare, IInv
<1>2. /\ Plan(v, "prepare", hint) /\ hint \in Nat
      /\ UNCHANGED <<visible, hint, fences, mode, failed, planned, round, requests, supervisor, faults>>
  BY DEF PlanPrepare, IInv, TypeOK
<1>3. /\ outbox' \in Seq(Entries) /\ Commands' = Commands \cup {2 * v - 1}
      /\ outbox'[2 * v - 1].version = v /\ outbox'[2 * v - 1].op = "prepare"
      /\ \A c \in Commands : outbox'[c] = outbox[c]
      /\ 2 * v - 1 \notin Commands
  <2>1. Len(outbox) + 1 = 2 * v - 1 /\ "prepare" \in Operations
    BY <1>1 DEF Operations
  <2> QED
    BY <1>2, <2>1, OutboxGrows
<1>4. ShapeInv'
  <2>1. \A c \in Commands' :
           /\ c = IF outbox'[c].op = "prepare" THEN 2 * outbox'[c].version - 1
                  ELSE 2 * outbox'[c].version
           /\ outbox'[c].version <= visible'
    BY <1>1, <1>2, <1>3 DEF IInv, ShapeInv
  <2>2. \A w \in Versions : fences'[w] # "none" \/ w \in planned' => 2 * w \in Commands'
    BY <1>2, <1>3 DEF IInv, ShapeInv
  <2>3. \A w \in planned' : fences'[w] = "none"
    BY <1>2 DEF IInv, ShapeInv
  <2> QED
    BY <2>1, <2>2, <2>3 DEF ShapeInv
<1>5. planned' \subseteq 1..visible
  BY <1>2 DEF IInv, TypeOK
<1> QED
  BY <1>1, <1>2, <1>3, <1>4, <1>5, PlannedKeeps

LEMMA PlanStartKeeps == ASSUME IInv, NEW v \in Versions, PlanStart(v) PROVE IInv'
<1>1. /\ v \in 1..visible /\ Len(outbox) = 2 * v - 1 /\ v \in Nat /\ Planning
      /\ Commands \in SUBSET Nat /\ fences[v] = "none"
  BY NextCommand, OutboxTyped DEF PlanStart, IInv
<1>2. /\ Plan(v, "start", hint + 2) /\ hint + 2 \in Nat /\ planned' = planned \cup {v}
      /\ UNCHANGED <<visible, hint, fences, mode, failed, round, requests, supervisor, faults>>
  BY DEF PlanStart, IInv, TypeOK
<1>3. /\ outbox' \in Seq(Entries) /\ Commands' = Commands \cup {2 * v}
      /\ outbox'[2 * v].version = v /\ outbox'[2 * v].op = "start"
      /\ \A c \in Commands : outbox'[c] = outbox[c]
      /\ 2 * v \notin Commands
  <2>1. Len(outbox) + 1 = 2 * v /\ "start" \in Operations
    BY <1>1 DEF Operations
  <2> QED
    BY <1>2, <2>1, OutboxGrows
<1>4. ShapeInv'
  <2>1. \A c \in Commands' :
           /\ c = IF outbox'[c].op = "prepare" THEN 2 * outbox'[c].version - 1
                  ELSE 2 * outbox'[c].version
           /\ outbox'[c].version <= visible'
    BY <1>1, <1>2, <1>3 DEF IInv, ShapeInv
  <2>2. \A w \in Versions : fences'[w] # "none" \/ w \in planned' => 2 * w \in Commands'
    BY <1>1, <1>2, <1>3 DEF IInv, ShapeInv
  <2>3. \A w \in planned' : fences'[w] = "none"
    BY <1>1, <1>2 DEF IInv, ShapeInv
  <2> QED
    BY <2>1, <2>2, <2>3 DEF ShapeInv
<1>5. planned' \subseteq 1..visible
  BY <1>1, <1>2 DEF IInv, TypeOK
<1> QED
  BY <1>1, <1>2, <1>3, <1>4, <1>5, PlannedKeeps

LEMMA AdoptStartKeeps == ASSUME IInv, NEW v \in Versions, AdoptStart(v) PROVE IInv'
<1>1. v \in 1..visible /\ 2 * v \in Commands /\ fences[v] = "none" /\ Planning
  BY NextCommand DEF AdoptStart
<1>2. /\ planned' = planned \cup {v} /\ outbox' = outbox
      /\ UNCHANGED <<visible, hint, fences, mode, failed, round, requests>>
      /\ UNCHANGED <<supervisor, faults>>
  BY DEF AdoptStart, kernelFiles
<1>3. Commands' = Commands /\ outbox' \in Seq(Entries)
  BY <1>2 DEF Commands, IInv, TypeOK
<1>4. ShapeInv'
  BY <1>1, <1>2, <1>3 DEF IInv, ShapeInv
<1>5. planned' \subseteq 1..visible
  BY <1>1, <1>2 DEF IInv, TypeOK
<1> QED
  BY <1>1, <1>2, <1>3, <1>4, <1>5, PlannedKeeps

LEMMA FinishPlanningKeeps == ASSUME IInv, FinishPlanning PROVE IInv'
<1>1. /\ Planning /\ round' = NewRound /\ mode' = "serving" /\ planned' = {}
      /\ fences' = [v \in Versions |-> IF v \in planned THEN "preparing" ELSE fences[v]]
      /\ UNCHANGED <<visible, outbox, hint, failed, requests, supervisor, faults>>
      /\ UNCHANGED <<journal, up, adopted, cached>>
  BY DEF FinishPlanning, supervisor
<1>2. ~Visiting("await") /\ \A q \in requests : q.late # 0
  BY <1>1, Roundless DEF IInv, Planning
<1>3. faults' \in 0..MaxFaults /\ faults' >= faults
  BY <1>1 DEF IInv, TypeOK
<1>4. /\ requests' \subseteq RequestType' /\ ExecutionInv' /\ Awaited' = {}
  BY <1>1, <1>2, <1>3, QuietRequests DEF Awaited
<1>5. Commands' = Commands /\ \A d : Acknowledged(d)' <=> Acknowledged(d)
  BY <1>1, KnownSame
<1>6. round' \in RoundType
  BY <1>1, NewRoundFacts
<1>7. fences' \in [Versions -> {"none", "preparing", "alive"}]
  BY <1>1 DEF IInv, TypeOK
<1>8. TypeOK'
  BY <1>1, <1>4, <1>5, <1>6, <1>7 DEF IInv, TypeOK, RoundType, RequestType
<1>9. RoundInv'
  BY <1>1, <1>5, NewRoundFacts DEF RoundInv
<1>10. ShapeInv'
  BY <1>1, <1>5 DEF IInv, ShapeInv
<1>11. JournalInv'
  BY <1>1, JournalKept
<1> QED
  BY <1>4, <1>8, <1>9, <1>10, <1>11 DEF IInv

-----------------------------------------------------------------------------
(* The Kernel process between its rounds.                                  *)

LEMMA RoundlessKeeps ==
    ASSUME IInv, round' = None, UNCHANGED <<outbox, hint, fences, supervisor>>,
           visible' \in visible..MaxVersions, mode' \in {"down", "starting", "submitting", "serving"},
           failed' \in BOOLEAN, planned' = {}, faults' \in 0..MaxFaults,
           requests' \subseteq RequestType', \A q \in requests' : q.late # 0, ExecutionInv'
    PROVE  IInv'
<1>1. visible \in 0..MaxVersions /\ visible' \in 0..MaxVersions /\ visible <= visible'
  BY DeliveryBounds DEF IInv, TypeOK
<1>2. Commands' = Commands /\ Awaited' = {} /\ UNCHANGED <<journal, up, adopted, cached>>
  BY DEF Commands, Awaited, supervisor
<1>3. TypeOK'
  BY <1>1, <1>2 DEF IInv, TypeOK, RequestType
<1>4. \A c \in Commands : outbox[c].version \in Nat
  BY OutboxTyped DEF IInv
<1>5. ShapeInv'
  BY <1>1, <1>2, <1>4 DEF IInv, ShapeInv
<1>6. JournalInv' /\ RoundInv'
  BY <1>2, JournalKept DEF RoundInv
<1> QED
  BY <1>3, <1>5, <1>6 DEF IInv

LEMMA SubmitKeeps == ASSUME IInv, Submit PROVE IInv'
<1>1. /\ round = None /\ round' = None /\ mode = "serving" /\ mode' = "submitting"
      /\ visible < MaxVersions /\ visible' = visible + 1 /\ journal' = journal
      /\ UNCHANGED <<outbox, hint, fences, supervisor, failed, planned, requests, faults>>
  BY DEF Submit, supervisor
<1>2. visible' \in visible..MaxVersions /\ planned' = {} /\ failed' \in BOOLEAN
      /\ faults' \in 0..MaxFaults /\ faults' >= faults
  BY <1>1, DeliveryBounds DEF IInv, TypeOK, Planning
<1>3. ~Visiting("await") /\ \A q \in requests' : q.late # 0
  BY <1>1, Roundless DEF IInv
<1>4. requests' \subseteq RequestType' /\ ExecutionInv'
  BY <1>1, <1>2, <1>3, QuietRequests
<1> QED
  BY <1>1, <1>2, <1>3, <1>4, RoundlessKeeps

LEMMA PlanningErrorKeeps == ASSUME IInv, PlanningError PROVE IInv'
<1>1. /\ Planning /\ round' = round /\ mode' = "serving" /\ planned' = {} /\ failed' \in BOOLEAN
      /\ UNCHANGED <<visible, outbox, hint, fences, supervisor, requests>> /\ journal' = journal
  BY DEF PlanningError, kernelFiles, supervisor
<1>2. faults' \in 0..MaxFaults /\ faults' >= faults /\ visible' \in visible..MaxVersions
  BY <1>1, FaultFacts, DeliveryBounds DEF IInv, TypeOK, PlanningError
<1>3. round' = None /\ ~Visiting("await") /\ \A q \in requests' : q.late # 0
  BY <1>1, Roundless DEF IInv, Planning
<1>4. requests' \subseteq RequestType' /\ ExecutionInv'
  BY <1>1, <1>2, <1>3, QuietRequests
<1> QED
  BY <1>1, <1>2, <1>3, <1>4, RoundlessKeeps

LEMMA KernelStartKeeps == ASSUME IInv, KernelStart PROVE IInv'
<1>1. /\ mode = "down" /\ round' = round /\ mode' = "starting" /\ failed' = FALSE
      /\ UNCHANGED <<visible, outbox, hint, fences, supervisor, requests, planned, faults>>
      /\ journal' = journal
  BY DEF KernelStart, kernelFiles, supervisor
<1>2. faults' \in 0..MaxFaults /\ faults' >= faults /\ visible' \in visible..MaxVersions
      /\ planned' = {}
  BY <1>1, DeliveryBounds DEF IInv, TypeOK, Planning
<1>3. round' = None /\ ~Visiting("await") /\ \A q \in requests' : q.late # 0
  BY <1>1, Roundless DEF IInv
<1>4. requests' \subseteq RequestType' /\ ExecutionInv'
  BY <1>1, <1>2, <1>3, QuietRequests
<1> QED
  BY <1>1, <1>2, <1>3, <1>4, RoundlessKeeps

LEMMA KernelCrashKeeps == ASSUME IInv, KernelCrash PROVE IInv'
<1>1. /\ round' = None /\ mode' = "down" /\ planned' = {} /\ Abandon /\ journal' = journal
      /\ UNCHANGED <<visible, outbox, hint, fences, supervisor, failed>> /\ Commands' = Commands
  BY DEF KernelCrash, kernelFiles, supervisor, Commands
<1>2. faults' = faults + 1 /\ faults' \in 0..MaxFaults
  BY FaultFacts DEF KernelCrash, IInv
<1>3. requests' \subseteq RequestType' /\ (\A q \in requests' : q.late # 0) /\ ExecutionInv'
  BY <1>1, <1>2, AbandonFacts
<1>4. visible' \in visible..MaxVersions /\ failed' \in BOOLEAN
  BY <1>1, DeliveryBounds DEF IInv, TypeOK
<1> QED
  BY <1>1, <1>2, <1>3, <1>4, RoundlessKeeps

-----------------------------------------------------------------------------
(* The supervisor.                                                         *)

(* What one more entry makes of the journal.                               *)
LEMMA EntryFacts ==
    ASSUME TypeOK, NEW e \in Records, e.cmd \in Commands, journal' = Append(journal, e)
    PROVE  /\ \A c : Received(c)' <=> (Received(c) \/ (e.kind = "received" /\ e.cmd = c))
           /\ \A c : Completed(c)' <=> (Completed(c) \/ (e.kind = "completed" /\ e.cmd = c))
           /\ \A c, r : Decided(c, r)' <=>
                (Decided(c, r) \/ (e.kind = "completed" /\ e.cmd = c /\ e.result = r))
<1> DEFINE n == Len(journal) + 1
<1>1. /\ n \in DOMAIN journal' /\ journal'[n] = e
      /\ \A i \in DOMAIN journal : i \in DOMAIN journal' /\ journal'[i] = journal[i]
      /\ \A i \in DOMAIN journal' : i \in DOMAIN journal \/ i = n
      /\ n \notin DOMAIN journal
  <2>1. Len(journal) \in Nat /\ DOMAIN journal = 1..Len(journal)
    BY JournalTyped
  <2>2. DOMAIN journal' = 1..(Len(journal) + 1)
    BY JournalGrows
  <2> QED
    BY <2>1, <2>2, JournalGrows
<1> HIDE DEF n
<1>2. \A c : ReceivedAt(c)' = ReceivedAt(c) \cup IF e.kind = "received" /\ e.cmd = c THEN {n} ELSE {}
  BY <1>1 DEF ReceivedAt
<1>3. \A c : CompletedAt(c)' = CompletedAt(c) \cup IF e.kind = "completed" /\ e.cmd = c THEN {n} ELSE {}
  BY <1>1 DEF CompletedAt
<1>4. \A c : Received(c)' <=> (Received(c) \/ (e.kind = "received" /\ e.cmd = c))
  BY <1>2 DEF Received
<1>5. \A c : Completed(c)' <=> (Completed(c) \/ (e.kind = "completed" /\ e.cmd = c))
  BY <1>3 DEF Completed
<1>6. \A c, r : Decided(c, r)' <=>
        (Decided(c, r) \/ (e.kind = "completed" /\ e.cmd = c /\ e.result = r))
  <2>1. \A c : \A i \in CompletedAt(c) : i \in DOMAIN journal
    BY DEF CompletedAt
  <2> QED
    BY <1>1, <1>3, <2>1 DEF Decided
<1> QED
  BY <1>4, <1>5, <1>6

LEMMA EntryKeeps ==
    ASSUME IInv, NEW e \in Records, e.cmd \in Commands, journal' = Append(journal, e),
           \A i \in DOMAIN journal : ~(journal[i].cmd = e.cmd /\ journal[i].kind = e.kind),
           e.kind = "received" \/ Received(e.cmd)
    PROVE  /\ JournalInv' /\ journal' \in Seq(Records)
           /\ \A i \in DOMAIN journal' : journal'[i].cmd \in Commands
<1>1. /\ journal' \in Seq(Records) /\ journal'[Len(journal) + 1] = e
      /\ \A i \in DOMAIN journal : i \in DOMAIN journal' /\ journal'[i] = journal[i]
      /\ \A i \in DOMAIN journal' : i \in DOMAIN journal \/ i = Len(journal) + 1
  BY JournalGrows DEF IInv
<1>2. \A i, j \in DOMAIN journal' :
        journal'[i].cmd = journal'[j].cmd /\ journal'[i].kind = journal'[j].kind => i = j
  <2>1. \A i, j \in DOMAIN journal :
          journal[i].cmd = journal[j].cmd /\ journal[i].kind = journal[j].kind => i = j
    BY DEF IInv, JournalInv
  <2> QED
    BY <1>1, <2>1
<1>3. \A i \in DOMAIN journal' : \E j \in DOMAIN journal' :
        journal'[j].cmd = journal'[i].cmd /\ journal'[j].kind = "received"
  <2>1. Len(journal) + 1 \in DOMAIN journal'
    BY JournalTyped, JournalGrows DEF IInv
  <2>2. \E j \in DOMAIN journal' : journal'[j].cmd = e.cmd /\ journal'[j].kind = "received"
    <3>1. CASE e.kind = "received"
      BY <1>1, <2>1, <3>1
    <3>2. CASE Received(e.cmd)
      BY <1>1, <3>2 DEF Received, ReceivedAt
    <3> QED
      BY <3>1, <3>2
  <2>3. \A i \in DOMAIN journal : \E j \in DOMAIN journal :
          journal[j].cmd = journal[i].cmd /\ journal[j].kind = "received"
    BY DEF IInv, JournalInv
  <2>4. ASSUME NEW i \in DOMAIN journal
        PROVE  \E j \in DOMAIN journal' :
                 journal'[j].cmd = journal'[i].cmd /\ journal'[j].kind = "received"
    <3>1. PICK j \in DOMAIN journal :
            journal[j].cmd = journal[i].cmd /\ journal[j].kind = "received"
      BY <2>3
    <3>2. j \in DOMAIN journal' /\ journal'[j] = journal[j] /\ journal'[i] = journal[i]
      BY <1>1
    <3> QED
      BY <3>1, <3>2
  <2> QED
    BY <1>1, <2>2, <2>4
<1>4. \A i \in DOMAIN journal' : journal'[i].cmd \in Commands
  BY <1>1 DEF IInv, TypeOK
<1> QED
  BY <1>1, <1>2, <1>3, <1>4 DEF JournalInv

SamePlace(q, r) == q.cmd = r.cmd /\ q.kind = r.kind /\ q.late = r.late

LEMMA PhaseSet ==
    ASSUME IInv, NEW q \in requests, NEW phase \in Phases
    PROVE  /\ [q EXCEPT !.phase = phase] \in RequestType
           /\ SamePlace([q EXCEPT !.phase = phase], q)
           /\ [q EXCEPT !.phase = phase].phase = phase
<1>1. /\ q \in RequestType
  BY RequestsTyped DEF IInv
<1> QED
  BY <1>1 DEF RequestType, SamePlace

(* A step of the supervisor leaves the Kernel alone, drops requests or      *)
(* moves them on, and forgets nothing of the journal.                      *)
LEMMA SupervisorKeeps ==
    ASSUME IInv, UNCHANGED kernel, up' \in BOOLEAN,
           adopted' \in [Versions -> {"none", "prepared", "running"}],
           cached' \in [1..(2 * MaxVersions) -> {"none", "applied", "rejected"}],
           faults' \in 0..MaxFaults, faults' >= faults,
           \A q \in requests' : q \in RequestType /\ \E r \in requests : SamePlace(q, r),
           journal' \in Seq(Records), \A i \in DOMAIN journal' : journal'[i].cmd \in Commands,
           \A c, r : Decided(c, r) => Decided(c, r)',
           JournalInv', ExecutionInv'
    PROVE  IInv'
<1>1. UNCHANGED <<visible, outbox, hint, fences, mode, failed, planned, round>>
  BY DEF kernel, kernelFiles
<1>2. Commands' = Commands /\ Current' = Current /\ Planning' = Planning
      /\ Visiting("await")' = Visiting("await")
  BY <1>1 DEF Commands, Current, Planning, Visiting, InStep
<1>3. requests' \subseteq RequestType'
  <2>1. faults \in 0..MaxFaults
    BY RequestsTyped DEF IInv
  <2> QED
    BY <1>2, <2>1 DEF RequestType
<1>4. \A q \in Awaited' : Visiting("await")' /\ q.cmd = Current'
  <2> SUFFICES ASSUME NEW q \in Awaited' PROVE Visiting("await") /\ q.cmd = Current
    BY <1>2
  <2>1. q \in requests' /\ q.late = 0
    BY DEF Awaited
  <2>2. PICK r \in requests : SamePlace(q, r)
    BY <2>1
  <2>3. r \in Awaited /\ q.cmd = r.cmd
    BY <2>1, <2>2 DEF Awaited, SamePlace
  <2> QED
    BY <2>3 DEF IInv, TypeOK
<1>5. TypeOK'
  BY <1>1, <1>2, <1>3, <1>4 DEF IInv, TypeOK, RequestType
<1>6. ShapeInv'
  BY <1>1, <1>2, ShapeKept
<1>7. RoundInv'
  <2>1. \A c : Acknowledged(c)' <=> Acknowledged(c)
    BY <1>1 DEF Acknowledged
  <2>2. \A c : Applies(c) => Applies(c)'
    BY <1>1 DEF Applies
  <2>3. CASE round = None
    BY <1>1, <2>3 DEF RoundInv
  <2>4. CASE round # None
    BY <1>1, <1>2, <2>1, <2>2, <2>4 DEF IInv, RoundInv
  <2> QED
    BY <2>3, <2>4
<1> QED
  BY <1>5, <1>6, <1>7 DEF IInv

LEMMA JournalStays ==
    ASSUME IInv, journal' = journal
    PROVE  /\ journal' \in Seq(Records) /\ JournalInv'
           /\ \A i \in DOMAIN journal' : journal'[i].cmd \in Commands
           /\ \A c, r : Decided(c, r) => Decided(c, r)'
<1>1. journal' \in Seq(Records) /\ \A i \in DOMAIN journal' : journal'[i].cmd \in Commands
  BY DEF IInv, TypeOK
<1> QED
  BY <1>1, JournalKept, JournalSame

(* One request moves on, and does not end.                                 *)
LEMMA BecomeKeeps ==
    ASSUME IInv, NEW q \in requests, NEW phase \in {"joined", "effect", "applied", "rejected"},
           Become(q, phase),
           \A c : Received(c) => Received(c)', \A c : Completed(c)' <=> Completed(c),
           phase # "joined" => Executing(q.cmd) = {} /\ Received(q.cmd)' /\ ~Completed(q.cmd)
    PROVE  /\ ExecutionInv'
           /\ \A p \in requests' : p \in RequestType /\ \E r \in requests : SamePlace(p, r)
<1>1. PICK n : n = [q EXCEPT !.phase = phase]
  OBVIOUS
<1>2. phase \in Phases
  BY DEF Phases
<1>3. n \in RequestType /\ SamePlace(n, q) /\ n.phase = phase
  BY <1>1, <1>2, PhaseSet
<1>4. requests' = (requests \ {q}) \cup {n}
  BY <1>1 DEF Become
<1>5. \A p \in requests' : p \in RequestType /\ \E r \in requests : SamePlace(p, r)
  BY <1>3, <1>4, RequestsTyped DEF SamePlace, IInv
<1>6. InExecution(n) => \A r \in requests : InExecution(r) => r.cmd # n.cmd
  BY <1>3 DEF InExecution, Executing, SamePlace
<1>7. \A p, r \in requests' : InExecution(p) /\ InExecution(r) /\ p.cmd = r.cmd => p = r
  BY <1>4, <1>6 DEF IInv, ExecutionInv
<1>8. \A p \in requests' : /\ InExecution(p) => Received(p.cmd)' /\ ~Completed(p.cmd)'
                           /\ p.phase = "answered" => Completed(p.cmd)'
  <2>1. /\ InExecution(n) => Received(n.cmd)' /\ ~Completed(n.cmd)'
        /\ n.phase # "answered"
    BY <1>3 DEF InExecution, SamePlace
  <2> QED
    BY <1>4, <2>1 DEF IInv, ExecutionInv
<1>9. \A p, r \in requests' : p.late = 0 /\ r.late = 0 => p = r
  BY <1>3, <1>4 DEF IInv, ExecutionInv, SamePlace
<1> QED
  BY <1>5, <1>7, <1>8, <1>9 DEF ExecutionInv

(* One request and those that joined it end, with one answer.              *)
LEMMA RespondKeeps ==
    ASSUME IInv, NEW q \in requests, NEW phase \in {"answered", "refused"}, Respond(q, phase),
           \A c : Received(c) => Received(c)', \A c : Completed(c) => Completed(c)',
           \A r \in requests \ {q} : InExecution(r) => ~Completed(r.cmd)',
           phase = "answered" => Completed(q.cmd)'
    PROVE  /\ ExecutionInv'
           /\ \A p \in requests' : p \in RequestType /\ \E r \in requests : SamePlace(p, r)
<1>1. phase \in Phases
  BY DEF Phases
<1>2. Group(q) \subseteq requests /\ \A r \in Group(q) : r.cmd = q.cmd
  BY DEF Group
<1>3. ASSUME NEW p \in requests', p \notin requests \ Group(q)
      PROVE  \E r \in Group(q) : /\ r.late = 0 /\ p \in RequestType /\ SamePlace(p, r)
                                 /\ p.phase = phase
  <2>1. PICK r \in Group(q) : r.late = 0 /\ p = [r EXCEPT !.phase = phase]
    BY <1>3 DEF Respond
  <2> QED
    BY <1>1, <1>2, <2>1, PhaseSet
<1>4. \A p \in requests' : p \in RequestType /\ \E r \in requests : SamePlace(p, r)
  BY <1>2, <1>3, RequestsTyped DEF SamePlace, IInv
<1>5. \A p \in requests' : InExecution(p) => p \in requests \ {q}
  BY <1>3 DEF InExecution, Group
<1>6. \A p, r \in requests' : InExecution(p) /\ InExecution(r) /\ p.cmd = r.cmd => p = r
  BY <1>5 DEF IInv, ExecutionInv
<1>7. \A p \in requests' : InExecution(p) => Received(p.cmd)' /\ ~Completed(p.cmd)'
  BY <1>5 DEF IInv, ExecutionInv
<1>8. \A p \in requests' : p.phase = "answered" => Completed(p.cmd)'
  BY <1>2, <1>3 DEF IInv, ExecutionInv, SamePlace
<1>9. \A p, r \in requests' : p.late = 0 /\ r.late = 0 => p = r
  <2> SUFFICES ASSUME NEW p \in requests', NEW r \in requests', p.late = 0, r.late = 0
               PROVE  p = r
    OBVIOUS
  <2>1. ASSUME NEW n \in requests'
        PROVE  \E a \in requests : /\ n.late = a.late
                                   /\ \/ n = a /\ a \notin Group(q)
                                      \/ n = [a EXCEPT !.phase = phase] /\ a \in Group(q)
    <3>1. CASE n \in requests \ Group(q)
      BY <3>1
    <3>2. CASE n \notin requests \ Group(q)
      <4>1. PICK a \in Group(q) : a.late = 0 /\ n = [a EXCEPT !.phase = phase]
        BY <3>2 DEF Respond
      <4>2. n.late = a.late
        BY <1>1, <1>2, <4>1, PhaseSet DEF SamePlace
      <4> QED
        BY <1>2, <4>1, <4>2
    <3> QED
      BY <3>1, <3>2
  <2>2. PICK a \in requests : /\ p.late = a.late
                             /\ \/ p = a /\ a \notin Group(q)
                                \/ p = [a EXCEPT !.phase = phase] /\ a \in Group(q)
    BY <2>1
  <2>3. PICK b \in requests : /\ r.late = b.late
                             /\ \/ r = b /\ b \notin Group(q)
                                \/ r = [b EXCEPT !.phase = phase] /\ b \in Group(q)
    BY <2>1
  <2>4. a = b
    BY <2>2, <2>3 DEF IInv, ExecutionInv
  <2> QED
    BY <2>2, <2>3, <2>4
<1> QED
  BY <1>4, <1>6, <1>7, <1>8, <1>9 DEF ExecutionInv

AdoptedType == [Versions -> {"none", "prepared", "running"}]
CachedType  == [1..(2 * MaxVersions) -> {"none", "applied", "rejected"}]

LEMMA RequestFacts ==
    ASSUME IInv, NEW q \in requests
    PROVE  /\ q.cmd \in Commands /\ q.cmd \in 1..(2 * MaxVersions) /\ q.phase \in Phases
           /\ outbox[q.cmd].version \in Versions
           /\ adopted \in AdoptedType /\ cached \in CachedType
           /\ faults \in 0..MaxFaults /\ q \in RequestType
<1>1. q \in RequestType /\ faults \in 0..MaxFaults
  BY RequestsTyped DEF IInv
<1>2. q.cmd \in Commands /\ q.phase \in Phases
  BY <1>1 DEF RequestType
<1> QED
  BY <1>1, <1>2, ShapeFacts, OutboxTyped DEF IInv, TypeOK, AdoptedType, CachedType

LEMMA ExecuteFacts ==
    ASSUME IInv, NEW q \in requests, Execute(q)
    PROVE  /\ \E phase \in {"effect", "applied", "rejected"} : Become(q, phase)
           /\ adopted' \in AdoptedType /\ cached' \in CachedType
<1>1. /\ q.cmd \in 1..(2 * MaxVersions) /\ outbox[q.cmd].version \in Versions
      /\ adopted \in AdoptedType /\ cached \in CachedType
  BY RequestFacts
<1>2. CASE cached[q.cmd] # "none"
  <2>1. Become(q, cached[q.cmd]) /\ adopted' = adopted /\ cached' = cached
    BY <1>2 DEF Execute
  <2>2. cached[q.cmd] \in {"applied", "rejected"}
    BY <1>1, <1>2 DEF CachedType
  <2> QED
    BY <1>1, <2>1, <2>2
<1>3. CASE cached[q.cmd] = "none" /\ Accepts(q.cmd)
  <2>1. Become(q, "effect") /\ adopted' = Adopted(q.cmd) /\ cached' = cached
    BY <1>3 DEF Execute
  <2>2. adopted' \in AdoptedType
    BY <1>1, <2>1 DEF Adopted, AdoptedType
  <2> QED
    BY <1>1, <2>1, <2>2
<1>4. CASE cached[q.cmd] = "none" /\ ~Accepts(q.cmd)
  <2>1. /\ Become(q, "rejected") /\ adopted' = adopted
        /\ cached' = [cached EXCEPT ![q.cmd] = "rejected"]
    BY <1>4 DEF Execute
  <2>2. cached' \in CachedType
    BY <1>1, <2>1 DEF CachedType
  <2> QED
    BY <1>1, <2>1, <2>2
<1> QED
  BY <1>2, <1>3, <1>4

LEMMA RestFacts ==
    ASSUME IInv, SupervisorRest
    PROVE  UNCHANGED kernel /\ up' \in BOOLEAN /\ faults' \in 0..MaxFaults /\ faults' >= faults
BY DEF SupervisorRest, IInv, TypeOK

LEMMA JoinKeeps == ASSUME IInv, NEW q \in requests, Join(q) PROVE IInv'
<1>1. Become(q, "joined") /\ UNCHANGED <<journal, adopted, cached>> /\ SupervisorRest
  BY DEF Join
<1>2. /\ ExecutionInv'
      /\ \A p \in requests' : p \in RequestType /\ \E r \in requests : SamePlace(p, r)
  BY <1>1, BecomeKeeps, JournalSame
<1>3. adopted' \in AdoptedType /\ cached' \in CachedType
  BY <1>1, RequestFacts
<1> QED
  BY <1>1, <1>2, <1>3, RestFacts, JournalStays, SupervisorKeeps DEF AdoptedType, CachedType

LEMMA AnswerCompletedKeeps == ASSUME IInv, NEW q \in requests, AnswerCompleted(q) PROVE IInv'
<1>1. /\ Respond(q, "answered") /\ UNCHANGED <<journal, adopted, cached>> /\ SupervisorRest
      /\ Completed(q.cmd)
  BY DEF AnswerCompleted
<1>2. \A r \in requests \ {q} : InExecution(r) => ~Completed(r.cmd)'
  BY <1>1, JournalSame DEF IInv, ExecutionInv
<1>3. /\ ExecutionInv'
      /\ \A p \in requests' : p \in RequestType /\ \E r \in requests : SamePlace(p, r)
  BY <1>1, <1>2, RespondKeeps, JournalSame
<1>4. adopted' \in AdoptedType /\ cached' \in CachedType
  BY <1>1, RequestFacts
<1> QED
  BY <1>1, <1>3, <1>4, RestFacts, JournalStays, SupervisorKeeps DEF AdoptedType, CachedType

LEMMA RefuseKeeps == ASSUME IInv, NEW q \in requests, Refuse(q) PROVE IInv'
<1>1. Respond(q, "refused") /\ UNCHANGED <<journal, adopted, cached>> /\ SupervisorRest
  BY DEF Refuse
<1>2. \A r \in requests \ {q} : InExecution(r) => ~Completed(r.cmd)'
  BY <1>1, JournalSame DEF IInv, ExecutionInv
<1>3. /\ ExecutionInv'
      /\ \A p \in requests' : p \in RequestType /\ \E r \in requests : SamePlace(p, r)
  BY <1>1, <1>2, RespondKeeps, JournalSame
<1>4. adopted' \in AdoptedType /\ cached' \in CachedType
  BY <1>1, RequestFacts
<1> QED
  BY <1>1, <1>3, <1>4, RestFacts, JournalStays, SupervisorKeeps DEF AdoptedType, CachedType

LEMMA ResumeKeeps == ASSUME IInv, NEW q \in requests, Resume(q) PROVE IInv'
<1>1. /\ Execute(q) /\ journal' = journal /\ SupervisorRest
      /\ Executing(q.cmd) = {} /\ Received(q.cmd) /\ ~Completed(q.cmd)
  BY DEF Resume
<1>2. PICK phase \in {"effect", "applied", "rejected"} : Become(q, phase)
  BY <1>1, ExecuteFacts
<1>3. /\ ExecutionInv'
      /\ \A p \in requests' : p \in RequestType /\ \E r \in requests : SamePlace(p, r)
  BY <1>1, <1>2, BecomeKeeps, JournalSame
<1>4. adopted' \in AdoptedType /\ cached' \in CachedType
  BY <1>1, ExecuteFacts
<1> QED
  BY <1>1, <1>3, <1>4, RestFacts, JournalStays, SupervisorKeeps DEF AdoptedType, CachedType

LEMMA AcceptKeeps == ASSUME IInv, NEW q \in requests, Accept(q) PROVE IInv'
<1>1. PICK e : e = [kind |-> "received", cmd |-> q.cmd]
  OBVIOUS
<1>2. /\ Execute(q) /\ journal' = Append(journal, e) /\ SupervisorRest
      /\ Executing(q.cmd) = {} /\ ~Received(q.cmd)
  BY <1>1 DEF Accept
<1>3. q.cmd \in Commands
  BY RequestFacts
<1>4. e \in Records /\ e.cmd = q.cmd /\ e.kind = "received"
  <2>1. q.cmd \in Nat
    BY <1>3, OutboxTyped DEF IInv
  <2> QED
    BY <1>1, <2>1 DEF Records
<1>5. \A i \in DOMAIN journal : ~(journal[i].cmd = e.cmd /\ journal[i].kind = e.kind)
  BY <1>2, <1>4 DEF Received, ReceivedAt
<1>6. ~Completed(q.cmd)
  BY <1>4, <1>5 DEF Completed, CompletedAt, IInv, JournalInv
<1>7. /\ JournalInv' /\ journal' \in Seq(Records)
      /\ \A i \in DOMAIN journal' : journal'[i].cmd \in Commands
  BY <1>2, <1>3, <1>4, <1>5, EntryKeeps
<1>8. /\ \A c : Received(c) => Received(c)'
      /\ \A c : Completed(c)' <=> Completed(c)
      /\ \A c, r : Decided(c, r) => Decided(c, r)'
      /\ Received(q.cmd)'
  BY <1>2, <1>3, <1>4, EntryFacts DEF IInv
<1>9. PICK phase \in {"effect", "applied", "rejected"} : Become(q, phase)
  BY <1>2, ExecuteFacts
<1>10. /\ ExecutionInv'
       /\ \A p \in requests' : p \in RequestType /\ \E r \in requests : SamePlace(p, r)
  BY <1>2, <1>6, <1>8, <1>9, BecomeKeeps
<1>11. adopted' \in AdoptedType /\ cached' \in CachedType
  BY <1>2, ExecuteFacts
<1> QED
  BY <1>2, <1>7, <1>8, <1>10, <1>11, RestFacts, SupervisorKeeps DEF AdoptedType, CachedType

(* The outcome that an execution ends with.                                *)
LEMMA CompleteFacts ==
    ASSUME IInv, NEW q \in requests, Complete(q)
    PROVE  /\ q.cmd \in Commands /\ InExecution(q) /\ Received(q.cmd) /\ ~Completed(q.cmd)
           /\ \E o \in Outcomes :
                LET e == [kind |-> "completed", cmd |-> q.cmd, result |-> o] IN
                /\ e \in Records /\ journal' = Append(journal, e)
                /\ cached' = [cached EXCEPT ![q.cmd] = o]
<1>1. q.cmd \in Commands /\ q.cmd \in Nat /\ q.phase \in Phases
  BY RequestFacts, OutboxTyped DEF IInv
<1>2. InExecution(q)
  BY DEF Complete, Executing, InExecution
<1>3. Received(q.cmd) /\ ~Completed(q.cmd)
  BY <1>2 DEF IInv, ExecutionInv
<1>4. PICK o \in OutcomesOf(q) :
        /\ journal' = Append(journal, [kind |-> "completed", cmd |-> q.cmd, result |-> o])
        /\ cached' = [cached EXCEPT ![q.cmd] = o]
  BY <1>3 DEF Complete
<1>5. o \in Outcomes
  BY <1>2 DEF OutcomesOf, InExecution, Outcomes
<1>6. [kind |-> "completed", cmd |-> q.cmd, result |-> o] \in Records
  BY <1>1, <1>5 DEF Records
<1> QED
  BY <1>1, <1>2, <1>3, <1>4, <1>5, <1>6

LEMMA CompleteKeeps == ASSUME IInv, NEW q \in requests, Complete(q) PROVE IInv'
<1>1. /\ q.cmd \in Commands /\ InExecution(q) /\ Received(q.cmd) /\ ~Completed(q.cmd)
  BY CompleteFacts
<1>2. PICK o \in Outcomes :
        LET e == [kind |-> "completed", cmd |-> q.cmd, result |-> o] IN
        /\ e \in Records /\ journal' = Append(journal, e)
        /\ cached' = [cached EXCEPT ![q.cmd] = o]
  BY CompleteFacts
<1>3. PICK e \in Records : e = [kind |-> "completed", cmd |-> q.cmd, result |-> o]
  BY <1>2
<1>4. /\ journal' = Append(journal, e) /\ e.cmd = q.cmd /\ e.kind = "completed"
      /\ cached' = [cached EXCEPT ![q.cmd] = o]
  BY <1>2, <1>3
<1>5. Respond(q, "answered") /\ adopted' = adopted /\ SupervisorRest
  BY DEF Complete
<1>6. \A i \in DOMAIN journal : ~(journal[i].cmd = e.cmd /\ journal[i].kind = e.kind)
  BY <1>1, <1>4 DEF Completed, CompletedAt
<1>7. /\ JournalInv' /\ journal' \in Seq(Records)
      /\ \A i \in DOMAIN journal' : journal'[i].cmd \in Commands
  BY <1>1, <1>4, <1>6, EntryKeeps
<1>8. /\ \A c : Received(c) => Received(c)'
      /\ \A c : Completed(c)' <=> (Completed(c) \/ c = q.cmd)
      /\ \A c, r : Decided(c, r) => Decided(c, r)'
  BY <1>1, <1>4, EntryFacts DEF IInv
<1>9. \A r \in requests \ {q} : InExecution(r) => ~Completed(r.cmd)'
  BY <1>1, <1>8 DEF IInv, ExecutionInv
<1>10. /\ ExecutionInv'
       /\ \A p \in requests' : p \in RequestType /\ \E r \in requests : SamePlace(p, r)
  BY <1>5, <1>8, <1>9, RespondKeeps
<1>11. adopted' \in AdoptedType /\ cached' \in CachedType
  BY <1>4, <1>5, RequestFacts DEF CachedType, Outcomes
<1> QED
  BY <1>5, <1>7, <1>8, <1>10, <1>11, RestFacts, SupervisorKeeps DEF AdoptedType, CachedType

LEMMA ThrowKeeps == ASSUME IInv, NEW q \in requests, Throw(q) PROVE IInv'
<1>1. /\ Respond(q, "refused") /\ UNCHANGED <<kernel, journal, up, adopted>> /\ Fault
  BY DEF Throw
<1>2. \A r \in requests \ {q} : InExecution(r) => ~Completed(r.cmd)'
  BY <1>1, JournalSame DEF IInv, ExecutionInv
<1>3. /\ ExecutionInv'
      /\ \A p \in requests' : p \in RequestType /\ \E r \in requests : SamePlace(p, r)
  BY <1>1, <1>2, RespondKeeps, JournalSame
<1>4. cached' \in CachedType /\ adopted' \in AdoptedType
  <2>1. OutcomesOf(q) \subseteq Outcomes
    BY DEF Throw, Executing, OutcomesOf, Outcomes
  <2>2. cached' = cached \/ \E o \in Outcomes : cached' = [cached EXCEPT ![q.cmd] = o]
    BY <2>1 DEF Throw
  <2> QED
    BY <1>1, <2>2, RequestFacts DEF CachedType, Outcomes
<1>5. faults' \in 0..MaxFaults /\ faults' >= faults /\ up' \in BOOLEAN
  BY <1>1, FaultFacts DEF IInv, TypeOK
<1> QED
  BY <1>1, <1>3, <1>4, <1>5, JournalStays, SupervisorKeeps DEF AdoptedType, CachedType

LEMMA SupervisorCrashKeeps == ASSUME IInv, SupervisorCrash PROVE IInv'
<1>1. /\ requests' = {} /\ up' = FALSE /\ UNCHANGED kernel /\ journal' = journal
      /\ adopted' = [v \in Versions |-> "none"]
      /\ cached' = [c \in DOMAIN cached |-> "none"]
  BY DEF SupervisorCrash
<1>2. faults' \in 0..MaxFaults /\ faults' >= faults
  BY FaultFacts DEF IInv, TypeOK, SupervisorCrash
<1>3. adopted' \in AdoptedType /\ cached' \in CachedType
  BY <1>1 DEF AdoptedType, CachedType, IInv, TypeOK
<1>4. ExecutionInv'
  BY <1>1 DEF ExecutionInv
<1> QED
  BY <1>1, <1>2, <1>3, <1>4, JournalStays, SupervisorKeeps DEF AdoptedType, CachedType

LEMMA SupervisorStartKeeps == ASSUME IInv, SupervisorStart PROVE IInv'
<1>1. /\ requests' = requests /\ up' = TRUE /\ UNCHANGED kernel /\ journal' = journal
      /\ faults' = faults
  BY DEF SupervisorStart
<1>2. faults' \in 0..MaxFaults /\ faults' >= faults
  BY <1>1 DEF IInv, TypeOK
<1>3. adopted' \in AdoptedType /\ cached' \in CachedType
  BY DEF SupervisorStart, AdoptedType, CachedType, IInv, TypeOK
<1>4. ExecutionInv'
  BY <1>1, ExecutionSame
<1>5. \A p \in requests' : p \in RequestType /\ \E r \in requests : SamePlace(p, r)
  BY <1>1, RequestsTyped DEF SamePlace, IInv
<1> QED
  BY <1>1, <1>2, <1>3, <1>4, <1>5, JournalStays, SupervisorKeeps DEF AdoptedType, CachedType

-----------------------------------------------------------------------------
(* The invariant, and what it says.                                        *)

LEMMA InitKeeps == ASSUME Init PROVE IInv
<1>1. /\ Len(<<>>) = 0 /\ DOMAIN outbox = {} /\ DOMAIN journal = {}
      /\ outbox \in Seq(Entries) /\ journal \in Seq(Records)
  BY DEF Init
<1>2. TypeOK
  <2>1. /\ visible \in 0..MaxVersions /\ hint \in Nat /\ faults \in 0..MaxFaults
    BY DeliveryBounds DEF Init
  <2>2. /\ planned = {} /\ round = None /\ requests = {} /\ mode = "serving"
        /\ failed \in BOOLEAN /\ up \in BOOLEAN
    BY Zenon DEF Init
  <2>3. /\ fences \in [Versions -> {"none", "preparing", "alive"}]
        /\ adopted \in [Versions -> {"none", "prepared", "running"}]
        /\ cached \in [1..(2 * MaxVersions) -> {"none", "applied", "rejected"}]
    BY DEF Init
  <2>4. Awaited = {}
    BY <2>2 DEF Awaited
  <2> QED
    BY <1>1, <2>1, <2>2, <2>3, <2>4 DEF TypeOK
<1>3. ShapeInv /\ JournalInv /\ ExecutionInv /\ RoundInv
  BY <1>1 DEF Init, ShapeInv, JournalInv, ExecutionInv, RoundInv, Commands
<1> QED
  BY <1>2, <1>3 DEF IInv

LEMMA StutterKeeps == ASSUME IInv, UNCHANGED vars PROVE IInv'
<1>1. UNCHANGED kernel /\ UNCHANGED <<journal, up, adopted, cached, requests, faults>>
  BY DEF vars, supervisor
<1>2. ExecutionInv'
  BY <1>1, ExecutionSame
<1>3. \A p \in requests' : p \in RequestType /\ \E r \in requests : SamePlace(p, r)
  BY <1>1, RequestsTyped DEF SamePlace, IInv
<1>4. /\ faults' \in 0..MaxFaults /\ faults' >= faults /\ up' \in BOOLEAN
      /\ adopted' \in [Versions -> {"none", "prepared", "running"}]
      /\ cached' \in [1..(2 * MaxVersions) -> {"none", "applied", "rejected"}]
  BY <1>1 DEF IInv, TypeOK
<1> QED
  BY <1>1, <1>2, <1>3, <1>4, JournalStays, SupervisorKeeps

LEMMA EveryStepKeeps == ASSUME IInv, [Next]_vars PROVE IInv'
<1>1. CASE Submit
  BY <1>1, SubmitKeeps
<1>2. CASE PlanStep
  BY <1>2, PlanPrepareKeeps, PlanStartKeeps, AdoptStartKeeps, FinishPlanningKeeps DEF PlanStep
<1>3. CASE RoundStep
  BY <1>3, BeginRoundKeeps, QueryKeeps, UnreachableKeeps, SendKeeps, ReceiveAnswerKeeps,
     ConnectionLostKeeps, SaveHintKeeps, OpenFenceKeeps, BeginHealingKeeps, HealKeeps,
     EndRoundKeeps DEF RoundStep
<1>4. CASE HandleStep
  BY <1>4, JoinKeeps, AnswerCompletedKeeps, ResumeKeeps, AcceptKeeps, RefuseKeeps,
     CompleteKeeps DEF HandleStep
<1>5. CASE KernelStart \/ SupervisorStart \/ KernelCrash \/ SupervisorCrash
  BY <1>5, KernelStartKeeps, SupervisorStartKeeps, KernelCrashKeeps, SupervisorCrashKeeps
<1>6. CASE PlanningError \/ Unreachable \/ Timeout \/ FenceError \/ RoundError
  BY <1>6, PlanningErrorKeeps, UnreachableKeeps, TimeoutKeeps, FenceErrorKeeps, RoundErrorKeeps
<1>7. CASE \E v \in Versions : HealError(v)
  BY <1>7, HealErrorKeeps
<1>8. CASE \E q \in requests : Throw(q)
  BY <1>8, ThrowKeeps
<1>9. CASE UNCHANGED vars
  BY <1>9, StutterKeeps
<1> QED
  BY <1>1, <1>2, <1>3, <1>4, <1>5, <1>6, <1>7, <1>8, <1>9 DEF Next

LEMMA Invariance == Spec => []IInv
BY InitKeeps, EveryStepKeeps, PTL DEF Spec

(* Every reachable state has its types: nothing is planned outside a pass,  *)
(* no round runs outside serving, and the Kernel awaits one request, for    *)
(* the current command of its round, for any number of versions and faults. *)
THEOREM DeliveryTyped == Spec => []TypeOK
<1>1. IInv => TypeOK
  BY DEF IInv
<1> QED
  BY <1>1, Invariance, PTL

LEMMA AtMostOne ==
    ASSUME NEW S, \A x, y \in S : x = y
    PROVE  Cardinality(S) <= 1
<1>1. CASE S = {}
  BY <1>1, FS_EmptySet
<1>2. CASE S # {}
  <2>1. PICK x : x \in S
    BY <1>2
  <2>2. S = {x}
    BY <2>1
  <2> QED
    BY <2>2, FS_Singleton
<1> QED
  BY <1>1, <1>2

(* A command is received once and has one outcome, and at most one delivery *)
(* of it drives the side effect, only between the two journal entries,      *)
(* however many replays, abandoned requests and restarts there are.         *)
THEOREM ExecutedOnceHolds == Spec => []ExecutedOnce
<1>1. ASSUME IInv PROVE ExecutedOnce
  <2> SUFFICES ASSUME NEW c \in Commands
               PROVE  /\ Cardinality(ReceivedAt(c)) <= 1 /\ Cardinality(CompletedAt(c)) <= 1
                      /\ Cardinality(Executing(c)) <= 1
                      /\ Executing(c) # {} => Received(c) /\ ~Completed(c)
    BY DEF ExecutedOnce
  <2>1. Cardinality(ReceivedAt(c)) <= 1
    <3>1. \A x, y \in ReceivedAt(c) : x = y
      BY <1>1 DEF ReceivedAt, IInv, JournalInv
    <3> QED
      BY <3>1, AtMostOne
  <2>2. Cardinality(CompletedAt(c)) <= 1
    <3>1. \A x, y \in CompletedAt(c) : x = y
      BY <1>1 DEF CompletedAt, IInv, JournalInv
    <3> QED
      BY <3>1, AtMostOne
  <2>3. \A q \in Executing(c) : q \in requests /\ InExecution(q) /\ q.cmd = c
    BY DEF Executing, InExecution
  <2>4. Cardinality(Executing(c)) <= 1
    <3>1. \A x, y \in Executing(c) : x = y
      BY <1>1, <2>3 DEF IInv, ExecutionInv
    <3> QED
      BY <3>1, AtMostOne
  <2>5. Executing(c) # {} => Received(c) /\ ~Completed(c)
    BY <1>1, <2>3 DEF IInv, ExecutionInv
  <2> QED
    BY <2>1, <2>2, <2>4, <2>5
<1> QED
  BY <1>1, Invariance, PTL

-----------------------------------------------------------------------------
(* What the owner sees is a behaviour of CommandOutcome.                   *)

StartsSeen  == [v \in Versions |-> Planned(v, "start")]
DecidedSeen == [c \in 1..(2 * MaxVersions) |->
                  IF c \notin Commands THEN "none"
                  ELSE IF Decided(c, "applied") THEN "applied"
                  ELSE IF Decided(c, "rejected") THEN "rejected" ELSE "open"]
ToldSeen    == Commands \ Pending
OpenSeen    == {v \in Versions : fences[v] = "alive"}
OutcomeStep == [Outcome!Next]_<<StartsSeen, DecidedSeen, ToldSeen, OpenSeen>>

(* What of the state it depends on.                                        *)
LEMMA CommandsSeen ==
    ASSUME Commands' = Commands, \A c \in Commands : outbox'[c].version = outbox[c].version
                                                     /\ outbox'[c].op = outbox[c].op
    PROVE  StartsSeen' = StartsSeen
<1>1. \A v \in Versions : Planned(v, "start")' = Planned(v, "start")
  BY DEF Planned
<1> QED
  BY <1>1 DEF StartsSeen

LEMMA DecisionsSeen ==
    ASSUME Commands' = Commands, \A c, r : Decided(c, r)' <=> Decided(c, r)
    PROVE  DecidedSeen' = DecidedSeen
<1>1. \A c : /\ Decided(c, "applied")' <=> Decided(c, "applied")
             /\ Decided(c, "rejected")' <=> Decided(c, "rejected")
  OBVIOUS
<1> QED
  BY <1>1 DEF DecidedSeen

LEMMA ToldIs == ToldSeen = {c \in Commands : Acknowledged(c)}
                /\ ToldSeen' = {c \in Commands' : Acknowledged(c)'}
BY DEF ToldSeen, Pending, Acknowledged

(* A step that writes neither the outbox, nor a fence, nor a decision.     *)
LEMMA Unseen ==
    ASSUME outbox' = outbox, fences' = fences, \A c, r : Decided(c, r)' <=> Decided(c, r)
    PROVE  OutcomeStep
<1>1. Commands' = Commands /\ \A c : Acknowledged(c)' <=> Acknowledged(c)
  BY DEF Commands, Acknowledged
<1>2. StartsSeen' = StartsSeen /\ DecidedSeen' = DecidedSeen
  BY <1>1, CommandsSeen, DecisionsSeen
<1>3. ToldSeen' = ToldSeen /\ OpenSeen' = OpenSeen
  BY <1>1, ToldIs DEF OpenSeen
<1> QED
  BY <1>2, <1>3 DEF OutcomeStep

LEMMA UnseenQuiet ==
    ASSUME UNCHANGED <<outbox, fences, journal>>
    PROVE  OutcomeStep
BY JournalSame, Unseen

(* An attempt.                                                             *)
LEMMA AttemptStep ==
    ASSUME IInv, Visited, NEW seen, RecordAttempt(seen), UNCHANGED <<fences, journal>>
    PROVE  OutcomeStep
<1>1. PICK c : c = Current
  OBVIOUS
<1>2. c \in Commands /\ ~Acknowledged(c)
  BY <1>1, VisitedFacts
<1>3. outbox' = [outbox EXCEPT ![c].state = "sent"]
  BY <1>1 DEF RecordAttempt
<1>4. /\ Commands' = Commands
      /\ \A d \in Commands :
           /\ outbox'[d].version = outbox[d].version /\ outbox'[d].op = outbox[d].op
           /\ outbox'[d].state = IF d = c THEN "sent" ELSE outbox[d].state
  BY <1>2, <1>3, StateSet DEF IInv
<1>5. \A d \in Commands : Acknowledged(d)' <=> Acknowledged(d)
  BY <1>2, <1>4 DEF Acknowledged
<1>6. StartsSeen' = StartsSeen /\ DecidedSeen' = DecidedSeen
  BY <1>4, CommandsSeen, DecisionsSeen, JournalSame
<1>7. ToldSeen' = ToldSeen /\ OpenSeen' = OpenSeen
  BY <1>4, <1>5, ToldIs DEF OpenSeen
<1> QED
  BY <1>6, <1>7 DEF OutcomeStep

LEMMA DecisionOf ==
    ASSUME TypeOK, NEW c, Completed(c)
    PROVE  Decided(c, "applied") \/ Decided(c, "rejected")
<1>1. PICK i \in CompletedAt(c) : TRUE
  BY DEF Completed
<1>2. i \in DOMAIN journal /\ journal[i].kind = "completed"
  BY DEF CompletedAt
<1>3. journal[i] \in Records
  BY <1>2, JournalTyped
<1>4. journal[i].result \in Outcomes
  BY <1>2, <1>3 DEF Records
<1> QED
  BY <1>4 DEF Decided, Outcomes

(* An acknowledgement tells the owner an outcome that is decided.          *)
LEMMA AckStep ==
    ASSUME IInv, Visited, NEW seen, ProjectAcknowledgement(seen), Completed(Current),
           UNCHANGED <<fences, journal>>
    PROVE  OutcomeStep
<1>1. PICK c : c = Current
  OBVIOUS
<1>2. c \in Commands /\ ~Acknowledged(c) /\ Completed(c)
  BY <1>1, VisitedFacts
<1>3. CASE outbox' = outbox
  BY <1>3, UnseenQuiet
<1>4. CASE outbox' = [outbox EXCEPT ![c].state = "acknowledged"]
  <2>1. /\ Commands' = Commands
        /\ \A d \in Commands :
             /\ outbox'[d].version = outbox[d].version /\ outbox'[d].op = outbox[d].op
             /\ outbox'[d].state = IF d = c THEN "acknowledged" ELSE outbox[d].state
    BY <1>2, <1>4, StateSet DEF IInv
  <2>2. \A d \in Commands : Acknowledged(d)' <=> (Acknowledged(d) \/ d = c)
    BY <1>2, <2>1 DEF Acknowledged
  <2>3. StartsSeen' = StartsSeen /\ DecidedSeen' = DecidedSeen
    BY <2>1, CommandsSeen, DecisionsSeen, JournalSame
  <2>4. ToldSeen' = ToldSeen \cup {c} /\ c \notin ToldSeen /\ OpenSeen' = OpenSeen
    BY <1>2, <2>1, <2>2, ToldIs DEF OpenSeen
  <2>5. c \in 1..(2 * MaxVersions)
    BY <1>2, ShapeFacts DEF IInv
  <2>6. DecidedSeen[c] \in {"applied", "rejected"}
    BY <1>2, <2>5, DecisionOf DEF DecidedSeen, IInv
  <2>7. Outcome!Tell(c)
    BY <2>3, <2>4, <2>6 DEF Outcome!Tell, StartsSeen, DecidedSeen, ToldSeen, OpenSeen
  <2> QED
    BY <2>5, <2>7 DEF OutcomeStep, Outcome!Next
<1> QED
  BY <1>1, <1>3, <1>4 DEF ProjectAcknowledgement

(* A fence opens for a Start that was applied, and the owner was told.     *)
LEMMA OpenStep ==
    ASSUME IInv, NEW v \in Versions, 2 * v \in Commands, Acknowledged(2 * v), Applies(2 * v),
           fences' = Opened(v), UNCHANGED <<outbox, journal>>
    PROVE  OutcomeStep
<1>1. fences \in [Versions -> {"none", "preparing", "alive"}]
  BY DEF IInv, TypeOK
<1>2. CASE fences[v] # "preparing"
  <2>1. fences' = fences
    BY <1>1, <1>2 DEF Opened
  <2> QED
    BY <2>1, UnseenQuiet
<1>3. CASE fences[v] = "preparing"
  <2>1. OpenSeen' = OpenSeen \cup {v}
    BY <1>1, <1>3 DEF Opened, OpenSeen
  <2>2. Commands' = Commands /\ \A c : Acknowledged(c)' <=> Acknowledged(c)
    BY DEF Commands, Acknowledged
  <2>3. StartsSeen' = StartsSeen /\ DecidedSeen' = DecidedSeen /\ ToldSeen' = ToldSeen
    BY <2>2, CommandsSeen, DecisionsSeen, JournalSame, ToldIs
  <2>4. 2 * v \in StartsSeen[v] /\ 2 * v \in ToldSeen /\ 2 * v \in 1..(2 * MaxVersions)
    BY ShapeFacts, ToldIs DEF StartsSeen, IInv
  <2>5. DecidedSeen[2 * v] = "applied"
    BY <2>4 DEF DecidedSeen, Applies
  <2>6. Outcome!OpenFence(v)
    BY <2>1, <2>3, <2>4, <2>5
       DEF Outcome!OpenFence, StartsSeen, DecidedSeen, ToldSeen, OpenSeen
  <2> QED
    BY <2>6 DEF OutcomeStep, Outcome!Next
<1> QED
  BY <1>2, <1>3

(* A command is planned.                                                   *)
LEMMA PlanSteps ==
    ASSUME IInv, NEW v \in Versions, IsNext(v), NEW op \in Operations, NEW expected \in Nat,
           Plan(v, op, expected), UNCHANGED <<fences, journal>>,
           Len(outbox) = IF op = "prepare" THEN 2 * v - 2 ELSE 2 * v - 1
    PROVE  OutcomeStep
<1>1. PICK c : c = Len(outbox) + 1
  OBVIOUS
<1>2. /\ Commands' = Commands \cup {c} /\ c \notin Commands
      /\ outbox'[c].version = v /\ outbox'[c].op = op /\ outbox'[c].state = "pending"
      /\ \A d \in Commands : outbox'[d] = outbox[d]
  BY <1>1, OutboxGrows
<1>3. c \in 1..(2 * MaxVersions)
  BY <1>1, OutboxTyped, DeliveryBounds DEF IInv, Versions
<1>4. \A d, r : Decided(d, r)' <=> Decided(d, r)
  BY JournalSame
<1>5. \A r : ~Decided(c, r)
  <2>1. \A i \in DOMAIN journal : journal[i].cmd # c
    BY <1>2 DEF IInv, TypeOK
  <2> QED
    BY <2>1 DEF Decided, CompletedAt
<1>6. DecidedSeen[c] = "none"
  BY <1>2, <1>3 DEF DecidedSeen
<1>7. DecidedSeen' = [DecidedSeen EXCEPT ![c] = "open"]
  <2>1. /\ \A d : /\ Decided(d, "applied")' <=> Decided(d, "applied")
                  /\ Decided(d, "rejected")' <=> Decided(d, "rejected")
        /\ ~Decided(c, "applied") /\ ~Decided(c, "rejected")
    BY <1>4, <1>5
  <2> QED
    BY <1>2, <1>3, <2>1 DEF DecidedSeen
<1>8. ToldSeen' = ToldSeen /\ OpenSeen' = OpenSeen
  <2>1. ~Acknowledged(c)' /\ \A d \in Commands : Acknowledged(d)' <=> Acknowledged(d)
    BY <1>2 DEF Acknowledged
  <2> QED
    BY <1>2, <2>1, ToldIs DEF OpenSeen
<1>9. \A w \in Versions : Planned(w, "start")' =
        IF op = "start" /\ w = v THEN Planned(w, "start") \cup {c} ELSE Planned(w, "start")
  BY <1>2 DEF Planned
<1>10. \/ StartsSeen' = StartsSeen
       \/ StartsSeen[v] = {} /\ StartsSeen' = [StartsSeen EXCEPT ![v] = {c}]
  <2>1. CASE op = "prepare"
    <3>1. \A w \in Versions : Planned(w, "start")' = Planned(w, "start")
      BY <1>9, <2>1
    <3> QED
      BY <3>1 DEF StartsSeen
  <2>2. CASE op = "start"
    <3>1. Planned(v, "start") = {}
      <4>1. c = 2 * v
        BY <1>1, <2>2, OutboxTyped DEF IInv
      <4> QED
        BY <1>2, <4>1, ShapeFacts DEF IInv
    <3>2. \A w \in Versions : Planned(w, "start")' = IF w = v THEN {c} ELSE Planned(w, "start")
      BY <1>9, <2>2, <3>1
    <3> QED
      BY <3>1, <3>2 DEF StartsSeen
  <2> QED
    BY <2>1, <2>2 DEF Operations
<1>11. Outcome!Authorize(c)
  BY <1>6, <1>7, <1>8, <1>10
     DEF Outcome!Authorize, StartsSeen, DecidedSeen, ToldSeen, OpenSeen
<1> QED
  BY <1>3, <1>11 DEF OutcomeStep, Outcome!Next

LEMMA PlanningSteps == ASSUME IInv, PlanStep PROVE OutcomeStep
<1>1. hint \in Nat /\ hint + 2 \in Nat /\ "prepare" \in Operations /\ "start" \in Operations
  BY DEF IInv, TypeOK, Operations
<1>2. ASSUME NEW v \in Versions, PlanPrepare(v) PROVE OutcomeStep
  <2>1. /\ IsNext(v) /\ Plan(v, "prepare", hint) /\ UNCHANGED <<fences, journal>>
        /\ Len(outbox) = 2 * v - 2
    BY <1>2, NextCommand DEF PlanPrepare, supervisor
  <2> QED
    BY <1>1, <2>1, PlanSteps
<1>3. ASSUME NEW v \in Versions, PlanStart(v) PROVE OutcomeStep
  <2>1. /\ IsNext(v) /\ Plan(v, "start", hint + 2) /\ UNCHANGED <<fences, journal>>
        /\ Len(outbox) = 2 * v - 1
    BY <1>3, NextCommand DEF PlanStart, supervisor
  <2> QED
    BY <1>1, <2>1, PlanSteps
<1>4. ASSUME NEW v \in Versions, AdoptStart(v) PROVE OutcomeStep
  BY <1>4, UnseenQuiet DEF AdoptStart, kernelFiles, supervisor
<1>5. CASE FinishPlanning
  <2>1. /\ UNCHANGED <<outbox, journal>>
        /\ fences' = [v \in Versions |-> IF v \in planned THEN "preparing" ELSE fences[v]]
    BY <1>5 DEF FinishPlanning, supervisor
  <2>2. OpenSeen' = OpenSeen
    BY <2>1 DEF OpenSeen, IInv, ShapeInv
  <2>3. Commands' = Commands /\ \A c : Acknowledged(c)' <=> Acknowledged(c)
    BY <2>1, KnownSame
  <2>4. StartsSeen' = StartsSeen /\ DecidedSeen' = DecidedSeen /\ ToldSeen' = ToldSeen
    BY <2>1, <2>3, CommandsSeen, DecisionsSeen, JournalSame, ToldIs
  <2> QED
    BY <2>2, <2>4 DEF OutcomeStep
<1> QED
  BY <1>2, <1>3, <1>4, <1>5 DEF PlanStep

(* The supervisor decides a command that was open.                         *)
LEMMA DecideStep == ASSUME IInv, NEW q \in requests, Complete(q) PROVE OutcomeStep
<1>1. q.cmd \in Commands /\ ~Completed(q.cmd) /\ q.cmd \in 1..(2 * MaxVersions)
  BY CompleteFacts, RequestFacts
<1>2. PICK o \in Outcomes :
        LET e == [kind |-> "completed", cmd |-> q.cmd, result |-> o] IN
        e \in Records /\ journal' = Append(journal, e)
  BY CompleteFacts
<1>3. PICK e \in Records : e = [kind |-> "completed", cmd |-> q.cmd, result |-> o]
  BY <1>2
<1>4. PICK c \in 1..(2 * MaxVersions) : c = q.cmd
  BY <1>1
<1>5. /\ journal' = Append(journal, e) /\ e.cmd = c /\ e.kind = "completed" /\ e.result = o
  BY <1>2, <1>3, <1>4
<1>6. \A d, r : Decided(d, r)' <=> (Decided(d, r) \/ (d = c /\ r = o))
  BY <1>1, <1>4, <1>5, EntryFacts DEF IInv
<1>7. \A r : ~Decided(c, r)
  BY <1>1, <1>4 DEF Decided, Completed
<1>8. UNCHANGED <<outbox, fences>> /\ Commands' = Commands
  BY DEF Complete, SupervisorRest, kernel, kernelFiles, Commands
<1>9. DecidedSeen[c] = "open"
  BY <1>1, <1>4, <1>7 DEF DecidedSeen
<1>10. DecidedSeen' = [DecidedSeen EXCEPT ![c] = o]
  <2>1. /\ \A d : d # c => /\ Decided(d, "applied")' <=> Decided(d, "applied")
                           /\ Decided(d, "rejected")' <=> Decided(d, "rejected")
        /\ Decided(c, "applied")' <=> o = "applied"
        /\ Decided(c, "rejected")' <=> o = "rejected"
    BY <1>6, <1>7
  <2>2. o \in {"applied", "rejected"}
    BY DEF Outcomes
  <2> QED
    BY <1>1, <1>4, <1>8, <2>1, <2>2 DEF DecidedSeen
<1>11. StartsSeen' = StartsSeen /\ ToldSeen' = ToldSeen /\ OpenSeen' = OpenSeen
  <2>1. \A d : Acknowledged(d)' <=> Acknowledged(d)
    BY <1>8 DEF Acknowledged
  <2> QED
    BY <1>8, <2>1, CommandsSeen, ToldIs DEF OpenSeen
<1>12. Outcome!Decide(c)
  BY <1>9, <1>10, <1>11
     DEF Outcome!Decide, StartsSeen, DecidedSeen, ToldSeen, OpenSeen, Outcomes
<1> QED
  BY <1>12 DEF OutcomeStep, Outcome!Next

LEMMA HandleSteps == ASSUME IInv, NEW q \in requests PROVE
    /\ Accept(q) => OutcomeStep
    /\ Join(q) \/ AnswerCompleted(q) \/ Resume(q) \/ Refuse(q) \/ Throw(q) => OutcomeStep
<1>1. ASSUME Accept(q) PROVE OutcomeStep
  <2>1. PICK e : e = [kind |-> "received", cmd |-> q.cmd]
    OBVIOUS
  <2>2. journal' = Append(journal, e) /\ UNCHANGED <<outbox, fences>>
    BY <1>1, <2>1 DEF Accept, SupervisorRest, kernel, kernelFiles
  <2>3. e \in Records /\ e.cmd \in Commands /\ e.kind = "received"
    BY <2>1, RequestFacts, OutboxTyped DEF Records, IInv
  <2>4. \A c, r : Decided(c, r)' <=> Decided(c, r)
    BY <2>2, <2>3, EntryFacts DEF IInv
  <2> QED
    BY <2>2, <2>4, Unseen
<1>2. ASSUME Join(q) \/ AnswerCompleted(q) \/ Resume(q) \/ Refuse(q) \/ Throw(q)
      PROVE  OutcomeStep
  <2>1. UNCHANGED <<outbox, fences, journal>>
    BY <1>2 DEF Join, AnswerCompleted, Resume, Refuse, Throw, SupervisorRest, kernel, kernelFiles
  <2> QED
    BY <2>1, UnseenQuiet
<1> QED
  BY <1>1, <1>2

LEMMA VisitingIs ==
    Visiting("query") \/ Visiting("handoff") \/ Visiting("await") => Visited
BY DEF Visiting, InStep, Visited

(* The steps of a round that write the outbox or a fence.                  *)
LEMMA RoundSteps ==
    ASSUME IInv
    PROVE  /\ Query => OutcomeStep
           /\ ReceiveAnswer => OutcomeStep
           /\ Unreachable \/ ConnectionLost \/ Timeout => OutcomeStep
           /\ OpenFence => OutcomeStep
           /\ \A v \in Versions : Heal(v) => OutcomeStep
<1>1. ASSUME Query PROVE OutcomeStep
  <2>1. Visited /\ UNCHANGED <<fences, journal>>
    BY <1>1, VisitingIs DEF Query, KernelRest, supervisor
  <2>2. CASE outbox' = outbox
    BY <2>1, <2>2, UnseenQuiet
  <2>3. CASE outbox' # outbox
    <3>1. /\ Completed(Current)
          /\ ProjectAcknowledgement(Latest(round.seen, ReceivedAt(Current) \cup CompletedAt(Current)))
      BY <1>1, <2>3 DEF Query
    <3> QED
      BY <2>1, <3>1, AckStep
  <2> QED
    BY <2>2, <2>3
<1>2. ASSUME ReceiveAnswer PROVE OutcomeStep
  <2>1. Visited /\ UNCHANGED <<fences, journal>>
    BY <1>2, VisitingIs DEF ReceiveAnswer, KernelRest, supervisor
  <2>2. PICK q \in Awaited :
          \/ /\ Acknowledges(q)
             /\ ProjectAcknowledgement(Latest(round.seen, CompletedAt(Current)))
          \/ RecordAttempt(round.seen)
    BY <1>2 DEF ReceiveAnswer
  <2>3. Acknowledges(q) => Completed(Current)
    <3> SUFFICES ASSUME Acknowledges(q) PROVE Completed(Current)
      OBVIOUS
    <3>1. q \in requests /\ q.phase = "answered" /\ q.cmd = Current
      BY DEF Acknowledges, Echoes, Awaited
    <3>2. Completed(q.cmd)
      BY <3>1 DEF IInv, ExecutionInv
    <3> QED
      BY <3>1, <3>2
  <2> QED
    BY <2>1, <2>2, <2>3, AckStep, AttemptStep
<1>3. ASSUME Unreachable \/ ConnectionLost \/ Timeout PROVE OutcomeStep
  <2>1. Visited /\ UNCHANGED <<fences, journal>> /\ RecordAttempt(round.seen)
    BY <1>3, VisitingIs DEF Unreachable, ConnectionLost, Timeout, KernelRest, supervisor
  <2> QED
    BY <2>1, AttemptStep
<1>4. ASSUME OpenFence PROVE OutcomeStep
  <2>1. PICK c : c = Current
    OBVIOUS
  <2>2. /\ round # None /\ round.todo # {} /\ Acknowledged(c) /\ Applies(c)
    BY <1>4, <2>1 DEF OpenFence, InStep, IInv, RoundInv
  <2>3. c \in Commands /\ outbox[c].op = "start"
    BY <2>1, <2>2, HeldRound DEF IInv, Applies
  <2>4. PICK v \in Versions : v = outbox[c].version
    BY <2>3, OutboxTyped DEF IInv
  <2>5. c = 2 * v
    BY <2>3, <2>4 DEF IInv, ShapeInv
  <2>6. fences' = Opened(v) /\ UNCHANGED <<outbox, journal>>
    BY <1>4, <2>1, <2>4 DEF OpenFence, supervisor
  <2> QED
    BY <2>2, <2>3, <2>5, <2>6, OpenStep
<1>5. ASSUME NEW v \in Versions, Heal(v) PROVE OutcomeStep
  <2>1. UNCHANGED <<outbox, journal>>
    BY <1>5 DEF Heal, supervisor
  <2>2. CASE fences' = fences
    BY <2>1, <2>2, UnseenQuiet
  <2>3. CASE fences' # fences
    <3>1. /\ round # None /\ v \in round.heal /\ fences' = Opened(v)
          /\ \E c \in Planned(v, "start") : Applies(c)
      BY <1>5, <2>3 DEF Heal, InStep
    <3>2. 2 * v \in Commands /\ Acknowledged(2 * v)
      BY <3>1 DEF IInv, RoundInv
    <3>3. Applies(2 * v)
      BY <3>1, <3>2, ShapeFacts DEF IInv
    <3> QED
      BY <2>1, <3>1, <3>2, <3>3, OpenStep
  <2> QED
    BY <2>2, <2>3
<1> QED
  BY <1>1, <1>2, <1>3, <1>4, <1>5

LEMMA EveryStep == ASSUME IInv, [Next]_vars PROVE OutcomeStep
<1>1. CASE PlanStep
  BY <1>1, PlanningSteps
<1>2. CASE RoundStep
  <2>1. CASE \/ BeginRound \/ Send \/ SaveHint \/ BeginHealing \/ EndRound
    <3>1. UNCHANGED <<outbox, fences, journal>>
      BY <2>1 DEF BeginRound, Send, SaveHint, BeginHealing, EndRound, kernelFiles, KernelRest,
         supervisor
    <3> QED
      BY <3>1, UnseenQuiet
  <2> QED
    BY <1>2, <2>1, RoundSteps DEF RoundStep
<1>3. CASE HandleStep
  BY <1>3, HandleSteps, DecideStep DEF HandleStep
<1>4. CASE Unreachable \/ Timeout
  BY <1>4, RoundSteps
<1>5. CASE \E q \in requests : Throw(q)
  BY <1>5, HandleSteps
<1>6. CASE \/ Submit \/ KernelStart \/ SupervisorStart \/ PlanningError \/ FenceError
           \/ RoundError \/ KernelCrash \/ SupervisorCrash \/ \E v \in Versions : HealError(v)
           \/ UNCHANGED vars
  <2>1. UNCHANGED <<outbox, fences, journal>>
    BY <1>6 DEF Submit, KernelStart, SupervisorStart, PlanningError, FenceError, RoundError,
       KernelCrash, SupervisorCrash, HealError, vars, kernel, kernelFiles, supervisor
  <2> QED
    BY <2>1, UnseenQuiet
<1> QED
  BY <1>1, <1>2, <1>3, <1>4, <1>5, <1>6 DEF Next

(* What the owner sees of commands and fences is what CommandOutcome allows *)
(* through every loss, repetition and restart: a command is decided once,   *)
(* the owner is told a decided outcome only, and a fence opens for good and *)
(* only after the owner was told that its Start was applied.                *)
THEOREM RefinesOutcome == Spec => ImplementsOutcome
<1>1. Init => Outcome!Init
  <2> SUFFICES ASSUME Init PROVE Outcome!Init
    OBVIOUS
  <2>1. Commands = {} /\ fences = [v \in Versions |-> "none"]
    BY DEF Init, Commands
  <2>2. StartsSeen = [v \in Versions |-> {}] /\ ToldSeen = {} /\ OpenSeen = {}
    BY <2>1 DEF StartsSeen, ToldSeen, OpenSeen, Planned
  <2>3. DecidedSeen = [c \in 1..(2 * MaxVersions) |-> "none"]
    BY <2>1 DEF DecidedSeen
  <2> QED
    BY <2>2, <2>3 DEF Outcome!Init, StartsSeen, DecidedSeen, ToldSeen, OpenSeen
<1>2. IInv /\ [Next]_vars => [Outcome!Next]_<<StartsSeen, DecidedSeen, ToldSeen, OpenSeen>>
  BY EveryStep DEF OutcomeStep
<1>3. Spec => Outcome!Init /\ [][Outcome!Next]_<<StartsSeen, DecidedSeen, ToldSeen, OpenSeen>>
  BY <1>1, <1>2, Invariance, PTL DEF Spec
<1> QED
  BY <1>3, PTL DEF ImplementsOutcome, Outcome!Spec, StartsSeen, DecidedSeen, ToldSeen, OpenSeen
=============================================================================
