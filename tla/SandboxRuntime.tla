--------------------------- MODULE SandboxRuntime ---------------------------
(***************************************************************************)
(* How the supervisor starts and stops the processes of an application     *)
(* (wasm-runtime.ts).  The relay forks wasmd and reports its pid; the      *)
(* runtime writes the pidfile of the application, waits a quarter of a     *)
(* second, and from then on addresses the sandbox by that pid.  A stop is  *)
(* SIGTERM, a wait for the budget of the drain, and SIGKILL.               *)
(*                                                                         *)
(* The pid may be another's by then, so that before each signal the        *)
(* runtime compares what it recorded after the pause with what             *)
(* /proc/<pid>/stat says.  It means the start time, field 22, but takes    *)
(* index 20 of the fields that follow the name, the first of which is      *)
(* field 3: field 23, the virtual memory.  One process changes it as it    *)
(* runs, and two may have the same.                                        *)
(*                                                                         *)
(* The sandboxes are those of one application; processes of others, and    *)
(* whoever else takes a pid, are strangers.                                *)
(***************************************************************************)
EXTENDS Naturals, Sequences

CONSTANTS Sandboxes,  \* sandboxes of the application, by which executions are addressed
          ProcPids,   \* process numbers of the node
          VSizes,     \* amounts of virtual memory
          MaxProcs,   \* bound: processes ever started
          MaxMoves,   \* bound: changes of a process' virtual memory
          Nobody      \* no process, no pid, no record

ProcIds == 1..MaxProcs
ASSUME RuntimeBounds == MaxProcs \in Nat /\ MaxMoves \in Nat

(* A process: its pid, and the sandbox it was forked for, Nobody for a stranger. *)
ProcRecords == [pid : ProcPids, box : Sandboxes \cup {Nobody}]

(* What the runtime keeps of a sandbox: the process that the relay reported, and
   what was read as its start time.  A stop is under way after one of the signals. *)
Tracked == [proc : ProcIds, ticks : VSizes \cup {Nobody}, sent : {"none", "term", "kill"}]
ASSUME RuntimeNobody == Nobody \notin ProcPids \cup ProcIds /\ Nobody \notin Tracked

VARIABLES
    procs,      \* every process started so far, in order
    alive,      \* those that run
    vsize,      \* the virtual memory of each
    moves,      \* how often one has changed
    pidfile,    \* the pid in the application's pidfile, or Nobody
    settling,   \* spawns in the pause: the process forked for a sandbox, or Nobody
    executions  \* what is tracked of a sandbox, or Nobody

node == <<procs, alive, vsize, moves>>
runtimeVars == <<node, pidfile, settling, executions>>

Holder(p) == {i \in alive : procs[i].pid = p}
PidOf(s) == procs[executions[s].proc].pid

RuntimeInit ==
    /\ procs = <<>> /\ alive = {} /\ vsize = <<>> /\ moves = 0
    /\ pidfile = Nobody
    /\ settling = [s \in Sandboxes |-> Nobody] /\ executions = settling

-----------------------------------------------------------------------------
(* The node. *)

Begin(p, box) ==
    /\ Len(procs) < MaxProcs /\ Holder(p) = {}
    /\ procs' = Append(procs, [pid |-> p, box |-> box])
    /\ \E v \in VSizes : vsize' = Append(vsize, v)
    /\ alive' = alive \cup {Len(procs) + 1}
    /\ UNCHANGED moves

Ends(is) == alive' = alive \ is /\ UNCHANGED <<procs, vsize, moves>>

Stranger(p) == Begin(p, Nobody) /\ UNCHANGED <<pidfile, settling, executions>>

Exit(i) == Ends({i}) /\ UNCHANGED <<pidfile, settling, executions>>

(* A process maps memory, or gives some back. *)
Remap(i) ==
    /\ moves < MaxMoves /\ moves' = moves + 1
    /\ \E v \in VSizes \ {vsize[i]} : vsize' = [vsize EXCEPT ![i] = v]
    /\ UNCHANGED <<procs, alive, pidfile, settling, executions>>

-----------------------------------------------------------------------------
(* spawnExecution.  The sandbox may be tracked already: a Start whose ingress did
   not start is executed again. *)

Idle(s) == settling[s] = Nobody /\ (executions[s] # Nobody => executions[s].sent = "none")

(* The relay forks, and the pidfile is written, unless it cannot be: the process
   then stays, and nobody has its pid. *)
Spawn(s, p) ==
    /\ Idle(s) /\ Begin(p, s)
    /\ \/ pidfile' = p /\ settling' = [settling EXCEPT ![s] = Len(procs) + 1]
       \/ UNCHANGED <<pidfile, settling>>
    /\ UNCHANGED executions

(* isAlive, after the pause: somebody has the pid. *)
Reported(s) == procs[settling[s]].pid

(* readStartTicks, of whoever has the pid. *)
StartTicks(p) == {vsize[i] : i \in Holder(p)}

(* Alive after the pause, and perhaps gone at the next read: nothing is recorded. *)
Track(s) ==
    /\ settling[s] # Nobody
    /\ \E t \in IF Holder(Reported(s)) = {} THEN {Nobody} ELSE StartTicks(Reported(s)) :
         executions' = [executions EXCEPT ![s] = [proc |-> settling[s], ticks |-> t, sent |-> "none"]]
    /\ settling' = [settling EXCEPT ![s] = Nobody]
    /\ UNCHANGED <<node, pidfile>>

(* Nobody has the pid: the pidfile goes, whosoever it names by now. *)
SpawnFails(s) ==
    /\ settling[s] # Nobody /\ Holder(Reported(s)) = {}
    /\ pidfile' = Nobody
    /\ settling' = [settling EXCEPT ![s] = Nobody]
    /\ UNCHANGED <<node, executions>>

-----------------------------------------------------------------------------
(* stopExecution and removeSandbox. *)

Sent(s, signal) == executions[s] # Nobody /\ executions[s].sent = signal
Send(s, signal) == executions' = [executions EXCEPT ![s].sent = signal]

(* stillOwnsPid: somebody has the pid, and the virtual memory of then. *)
StillOwns(s) ==
    /\ Holder(PidOf(s)) # {}
    /\ executions[s].ticks = Nobody \/ executions[s].ticks \in StartTicks(PidOf(s))

Bug_Forget(s) ==
    /\ executions' = [executions EXCEPT ![s] = Nobody]
    /\ UNCHANGED <<node, pidfile, settling>>

(* The stop is answered: the sandbox is forgotten, and the pidfile goes if it has
   its pid. *)
Forget(s) ==
    /\ executions' = [executions EXCEPT ![s] = Nobody]
    /\ pidfile' = IF pidfile = PidOf(s) THEN Nobody ELSE pidfile
    /\ UNCHANGED <<node, settling>>

(* Not the owner, before SIGTERM or before SIGKILL: "stopped", without a signal. *)
Disowned(s) ==
    /\ Sent(s, "none") \/ Sent(s, "term")
    /\ ~StillOwns(s)
    /\ Forget(s)

(* SIGTERM: whoever has the pid ends, now or later or not at all. *)
Terminate(s) ==
    /\ Sent(s, "none") /\ StillOwns(s) /\ Send(s, "term")
    /\ Ends(Holder(PidOf(s))) \/ UNCHANGED node
    /\ UNCHANGED <<pidfile, settling>>

(* SIGKILL: when the budget of a stop is spent, or for a removal at once. *)
ForceKill(s) ==
    /\ Sent(s, "none") \/ Sent(s, "term")
    /\ StillOwns(s) /\ Send(s, "kill")
    /\ Ends(Holder(PidOf(s)))
    /\ UNCHANGED <<pidfile, settling>>

(* waitExited: nobody has the pid. *)
Exited(s) ==
    /\ Sent(s, "term") \/ Sent(s, "kill")
    /\ Holder(PidOf(s)) = {}
    /\ Forget(s)

(* Somebody has it still, or again, after SIGKILL and its wait: a stop reports that
   the process is lost and keeps the sandbox, a removal forgets it. *)
Survives(s) ==
    /\ Sent(s, "kill") /\ Holder(PidOf(s)) # {}
    /\ Forget(s) \/ (Send(s, "none") /\ UNCHANGED <<node, pidfile, settling>>)

Stops(s) == Disowned(s) \/ Terminate(s) \/ ForceKill(s) \/ Exited(s) \/ Survives(s)

RuntimeNext ==
    \/ \E s \in Sandboxes : Track(s) \/ SpawnFails(s) \/ Stops(s) \/ \E p \in ProcPids : Spawn(s, p)
    \/ \E p \in ProcPids : Stranger(p)
    \/ \E i \in alive : Exit(i) \/ Remap(i)

RuntimeSpec == RuntimeInit /\ [][RuntimeNext]_runtimeVars

-----------------------------------------------------------------------------
(* Properties. *)

(* One process to a pid; what is kept of a sandbox is of a process forked for it. *)
RuntimeTypeOK ==
    /\ procs \in Seq(ProcRecords) /\ Len(procs) <= MaxProcs
    /\ vsize \in Seq(VSizes) /\ Len(vsize) = Len(procs) /\ moves \in 0..MaxMoves
    /\ alive \subseteq DOMAIN procs
    /\ \A i, j \in alive : procs[i].pid = procs[j].pid => i = j
    /\ pidfile \in ProcPids \cup {Nobody}
    /\ settling \in [Sandboxes -> DOMAIN procs \cup {Nobody}]
    /\ executions \in [Sandboxes -> Tracked \cup {Nobody}]
    /\ \A s \in Sandboxes : executions[s] # Nobody => executions[s].proc \in DOMAIN procs

(* The pidfile names only pids that the runtime still answers for, so that the
   Kernel's watchdog is never led to a pid that was given back: whatever order the
   executions of the application start, fail, end and are stopped in. *)
PidfileIsAccounted ==
    \/ pidfile = Nobody
    \/ \E s \in Sandboxes : /\ settling[s] # Nobody
                          /\ Reported(s) = pidfile
    \/ \E s \in Sandboxes : /\ executions[s] # Nobody
                          /\ PidOf(s) = pidfile

(* What the comments at wasm-runtime.ts:180 and wasm-executor.ts:890 say, and the
   code does not do: a stop ends nobody but the execution it is for, and once it is
   answered that execution has ended. *)
StopsItsOwn ==
    [][\A s \in Sandboxes : Stops(s) =>
         /\ alive \ alive' \subseteq {executions[s].proc}
         /\ executions'[s] = Nobody => executions[s].proc \notin alive']_runtimeVars

=============================================================================
