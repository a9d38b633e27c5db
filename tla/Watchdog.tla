------------------------------ MODULE Watchdog ------------------------------
(***************************************************************************)
(* The resource watchdog of the Kernel (sampling.rs).  A thread samples    *)
(* every fifteen seconds the processes that the pidfiles address, and ends *)
(* the one whose memory exceeds its soft limit.  The processes belong to   *)
(* others: the entrypoint starts each celld application and starts it      *)
(* again when it is gone, the supervisor starts and stops the executions   *)
(* of a wasm application, and both write the pidfile.  The watchdog reads  *)
(* the pidfile, /proc/<pid>/status and /proc/<pid>/stat one after the      *)
(* other, and pid numbers are used again: who is ended is a matter of what *)
(* happens between the reads.                                              *)
(*                                                                         *)
(* How the supervisor starts and stops an execution, and whom it may end   *)
(* by mistake, is in SandboxRuntime.  To the watchdog a stop is a process  *)
(* that ends, whosever it is, and a pidfile that goes, in any order.       *)
(***************************************************************************)
EXTENDS Naturals, Sequences

CONSTANTS Celld,      \* applications of the celld tier, one process each
          Wasmd,      \* applications of the wasm tier, any number of executions
          Pids,       \* process numbers of the node
          MaxPass,    \* bound: passes of the watchdog that are told apart
          MaxProcs,   \* bound: processes ever started
          RingMax,    \* how many events are kept
          QuickReuse, \* may a pid be taken again in the pass in which it was freed?
          Nobody      \* no process, no pid, no sample

Apps == Celld \cup Wasmd
ProcIds  == 1..MaxProcs
ASSUME WatchdogBounds == MaxPass \in Nat /\ MaxProcs \in Nat /\ RingMax \in Nat \ {0}
ASSUME ReuseAssumption == QuickReuse \in BOOLEAN
ASSUME NobodyAssumption == Nobody \notin Apps \cup Pids \cup Nat

(* Memory: within every limit, above the default limit, above the owner's too. *)
Sizes  == 0..2
Limits == 0..1
Passes == 0..MaxPass

(* A process: its number and its application, Nobody for somebody else's.  Its
   place in the order stands for its start time: a tick is ten milliseconds, and
   no application is started twice within a quarter of a second. *)
Processes == [pid : Pids, app : Apps \cup {Nobody}]

(* What the watchdog keeps of one: `who` is the process whose memory it is. *)
Samples == [size : Sizes, start : ProcIds, who : ProcIds]
Events  == [app : Apps, outcome : {"killed", "pid-reuse-refused"}]

VARIABLES
    procs,    \* every process started so far, in order
    alive,    \* those that run
    freed,    \* for each pid, the pass in which it became free, or Nobody
    size,     \* memory of each process
    pidfile,  \* the pid that each application's pidfile names, or Nobody
    limit,    \* the limit in force: the default, or the owner's
    samples,  \* by application, or Nobody
    events,   \* the ring of events
    pass,     \* passes so far
    stage,    \* what the thread is doing, tier by tier
    todo,     \* applications that the stage has still to visit
    at        \* the visit under way: [app, step, pid, size, who], or Nobody

nodeVars   == <<procs, alive, freed, size>>
threadVars == <<limit, samples, events, pass, stage, todo, at>>
watchdogVars == <<nodeVars, pidfile, threadVars>>

Stages == <<"load", "refresh celld", "enforce celld", "refresh wasmd", "enforce wasmd", "sleep">>

Holder(p) == {i \in alive : procs[i].pid = p}
IsFree(p) == Holder(p) = {} /\ (QuickReuse \/ freed[p] \in {Nobody} \cup {k \in Passes : k < pass})

WatchdogInit ==
    /\ procs = <<>> /\ alive = {} /\ freed = [p \in Pids |-> Nobody]
    /\ size = [i \in ProcIds |-> 0]
    /\ pidfile = [a \in Apps |-> Nobody]
    /\ limit = 0 /\ samples = [a \in Apps |-> Nobody] /\ events = <<>>
    /\ pass = 0 /\ stage = 1 /\ todo = {} /\ at = Nobody

-----------------------------------------------------------------------------
(* The node: processes start, grow and end. *)

Fork(p, a) ==
    /\ Len(procs) < MaxProcs /\ IsFree(p)
    /\ procs' = Append(procs, [pid |-> p, app |-> a])
    /\ alive' = alive \cup {Len(procs) + 1}
    /\ freed' = [freed EXCEPT ![p] = Nobody]
    /\ UNCHANGED size

Ends(is) ==
    /\ alive' = alive \ is
    /\ freed' = [p \in Pids |-> IF \E i \in is : procs[i].pid = p THEN pass ELSE freed[p]]
    /\ UNCHANGED <<procs, size>>

Grow(i) ==
    /\ i \in alive /\ procs[i].app # Nobody /\ size[i] < 2
    /\ \E s \in size[i] + 1 .. 2 : size' = [size EXCEPT ![i] = s]
    /\ UNCHANGED <<procs, alive, freed, pidfile, threadVars>>

Exit(i) ==
    /\ i \in alive
    /\ Ends({i})
    /\ UNCHANGED <<pidfile, threadVars>>

(* Somebody else's process takes the pid. *)
Stranger(p) ==
    /\ Fork(p, Nobody)
    /\ UNCHANGED <<pidfile, threadVars>>

-----------------------------------------------------------------------------
(* The owners of the processes. *)

(* run_celld, at first and whenever kill -0 finds nobody under the pid. *)
RunCelld(a, p) ==
    /\ a \in Celld
    /\ pidfile[a] = Nobody \/ Holder(pidfile[a]) = {}
    /\ Fork(p, a)
    /\ pidfile' = [pidfile EXCEPT ![a] = p]
    /\ UNCHANGED threadVars

(* spawnExecution: a later execution of the application takes the pidfile over. *)
Spawn(a, p) ==
    /\ a \in Wasmd
    /\ Fork(p, a)
    /\ pidfile' = [pidfile EXCEPT ![a] = p]
    /\ UNCHANGED threadVars

(* The supervisor removes a pidfile, for a spawn that failed or after a stop; the
   process that it names may run on. *)
RemovePidfile(a) ==
    /\ a \in Wasmd /\ pidfile[a] # Nobody
    /\ pidfile' = [pidfile EXCEPT ![a] = Nobody]
    /\ UNCHANGED <<nodeVars, threadVars>>

-----------------------------------------------------------------------------
(* The thread of the watchdog. *)

Others    == UNCHANGED <<pidfile, limit, pass>>
Reading   == Stages[stage] \in {"refresh celld", "refresh wasmd"}
Enforcing == Stages[stage] \in {"enforce celld", "enforce wasmd"}

(* What a stage visits: the celld applications of the routes, the pidfiles that
   are in the directory, the wasm applications that have a sample. *)
Visits(s) ==
    IF Stages[s] \in {"refresh celld", "enforce celld"} THEN Celld
    ELSE IF Stages[s] = "refresh wasmd" THEN {a \in Wasmd : pidfile[a] # Nobody}
    ELSE IF Stages[s] = "enforce wasmd" THEN {a \in Wasmd : samples[a] # Nobody}
    ELSE {}

NextStage ==
    /\ Stages[stage] # "load" /\ Stages[stage] # "sleep" /\ todo = {} /\ at = Nobody
    /\ stage' = stage + 1
    /\ todo' = Visits(stage + 1)
    /\ UNCHANGED <<nodeVars, samples, events, at>> /\ Others

(* reload_policy: the owner's file as it is by now; one that cannot be read or
   parsed means the default. *)
Load ==
    /\ Stages[stage] = "load"
    /\ limit' \in Limits
    /\ stage' = stage + 1 /\ todo' = Visits(stage + 1)
    /\ UNCHANGED <<nodeVars, pidfile, samples, events, pass, at>>

Sleep ==
    /\ Stages[stage] = "sleep"
    /\ pass' = IF pass < MaxPass THEN pass + 1 ELSE pass
    /\ stage' = 1
    /\ UNCHANGED <<nodeVars, pidfile, limit, samples, events, todo, at>>

Visit(a, step, size_, who) ==
    [app |-> a, step |-> step, pid |-> pidfile[a], size |-> size_, who |-> who]
Done == at' = Nobody
Step(s) == at # Nobody /\ at.step = s

(* read_process_sample, first the pidfile: without a pid there is no sample. *)
ReadPid(a) ==
    /\ Reading /\ at = Nobody /\ a \in todo
    /\ todo' = todo \ {a}
    /\ IF pidfile[a] = Nobody
         THEN samples' = [samples EXCEPT ![a] = Nobody] /\ Done
         ELSE at' = Visit(a, "status", 0, Nobody) /\ UNCHANGED samples
    /\ UNCHANGED <<nodeVars, events, stage>> /\ Others

Unmeasured == samples' = [samples EXCEPT ![at.app] = Nobody] /\ Done

(* Then the memory of whoever has the pid. *)
ReadStatus ==
    /\ Step("status")
    /\ \/ Holder(at.pid) = {} /\ Unmeasured
       \/ \E i \in Holder(at.pid) :
            at' = [at EXCEPT !.step = "stat", !.size = size[i], !.who = i] /\ UNCHANGED samples
    /\ UNCHANGED <<nodeVars, events, stage, todo>> /\ Others

(* Then the start time. *)
ReadStat ==
    /\ Step("stat")
    /\ \/ Holder(at.pid) = {} /\ Unmeasured
       \/ \E i \in Holder(at.pid) :
            /\ samples' = [samples EXCEPT ![at.app] =
                 [size |-> at.size, start |-> i, who |-> at.who]]
            /\ Done
    /\ UNCHANGED <<nodeVars, events, stage, todo>> /\ Others

Bug_Judge(a) ==
    /\ Enforcing /\ at = Nobody /\ a \in todo
    /\ todo' = todo \ {a}
    /\ IF samples[a] # Nobody /\ samples[a].size > 2 /\ pidfile[a] # Nobody
         THEN at' = Visit(a, "cmdline", samples[a].size, samples[a].who)
         ELSE UNCHANGED at
    /\ UNCHANGED <<nodeVars, samples, events, stage>> /\ Others

(* enforce_one: no sample, or a sample within the limit, or no pidfile. *)
Judge(a) ==
    /\ Enforcing /\ at = Nobody /\ a \in todo
    /\ todo' = todo \ {a}
    /\ IF samples[a] # Nobody /\ samples[a].size > limit /\ pidfile[a] # Nobody
         THEN at' = Visit(a, "cmdline", samples[a].size, samples[a].who)
         ELSE UNCHANGED at
    /\ UNCHANGED <<nodeVars, samples, events, stage>> /\ Others

SameTier(a, b) == b # Nobody /\ (a \in Celld <=> b \in Celld)

(* The command line must be that of the tier. *)
CheckCmdline ==
    /\ Step("cmdline")
    /\ IF \E i \in Holder(at.pid) : SameTier(at.app, procs[i].app)
         THEN at' = [at EXCEPT !.step = "start"]
         ELSE Done
    /\ UNCHANGED <<nodeVars, samples, events, stage, todo>> /\ Others

(* record_event: the ring drops the oldest. *)
Push(e) ==
    events' = Append(IF Len(events) >= RingMax THEN Tail(events) ELSE events, e)

Event(outcome) == [app |-> at.app, outcome |-> outcome]

Bug_CheckStart ==
    /\ Step("start")
    /\ at' = [at EXCEPT !.step = "kill"]
    /\ UNCHANGED <<nodeVars, samples, events, stage, todo>> /\ Others

(* The start time must be that of the sample. *)
CheckStart ==
    /\ Step("start")
    /\ IF samples[at.app].start \in Holder(at.pid)
         THEN at' = [at EXCEPT !.step = "kill"] /\ UNCHANGED events
         ELSE Push(Event("pid-reuse-refused")) /\ Done
    /\ UNCHANGED <<nodeVars, samples, stage, todo>> /\ Others

(* kill(pid, SIGKILL): whoever has the pid now. *)
Kill ==
    /\ Step("kill")
    /\ Ends(Holder(at.pid))
    /\ IF Holder(at.pid) # {} THEN Push(Event("killed")) ELSE UNCHANGED events
    /\ Done
    /\ UNCHANGED <<samples, stage, todo>> /\ Others

Thread ==
    \/ Load \/ NextStage \/ Sleep
    \/ \E a \in Apps : ReadPid(a) \/ Judge(a)
    \/ ReadStatus \/ ReadStat \/ CheckCmdline \/ CheckStart \/ Kill

-----------------------------------------------------------------------------
Owners ==
    \/ \E a \in Apps, p \in Pids : RunCelld(a, p) \/ Spawn(a, p)
    \/ \E a \in Apps : RemovePidfile(a)

Node ==
    \/ \E i \in alive : Grow(i) \/ Exit(i)
    \/ \E p \in Pids : Stranger(p)

WatchdogNext == Thread \/ Owners \/ Node

WatchdogSpec == WatchdogInit /\ [][WatchdogNext]_watchdogVars

(* The thread never ends: sampling waits for nobody. *)
FairWatchdog == WatchdogSpec /\ WF_watchdogVars(Thread)
-----------------------------------------------------------------------------
(* Properties. *)

(* Every variable has its type, a pid belongs to one process that runs, and the
   ring keeps its bound (record_event). *)
WatchdogTypeOK ==
    /\ procs \in Seq(Processes) /\ Len(procs) <= MaxProcs
    /\ alive \subseteq DOMAIN procs
    /\ \A i, j \in alive : procs[i].pid = procs[j].pid => i = j
    /\ freed \in [Pids -> Passes \cup {Nobody}] /\ size \in [ProcIds -> Sizes]
    /\ pidfile \in [Apps -> Pids \cup {Nobody}]
    /\ limit \in Limits
    /\ samples \in [Apps -> Samples \cup {Nobody}]
    /\ events \in Seq(Events) /\ Len(events) <= RingMax
    /\ pass \in Passes /\ stage \in DOMAIN Stages /\ todo \subseteq Apps
    /\ at # Nobody => at.app \in Apps /\ at.pid \in Pids /\ at.who \in ProcIds \cup {Nobody}

(* The watchdog ends the process whose memory it measured and no other, however
   the pidfile changed hands and whoever took the pid since; and it reports a
   reuse only if the measured process is not the one it would have ended. *)
EndsTheMeasured ==
    [][ /\ Kill => alive \ alive' \subseteq {samples[at.app].who}
        /\ (CheckStart /\ events' # events) => samples[at.app].who \notin Holder(at.pid)
      ]_watchdogVars

(* A process that is above every limit and that its pidfile names does not stay:
   it is ended, or it loses the pidfile to another. *)
OverLimitEnds ==
    \A i \in ProcIds :
        []<>~(i \in alive /\ size[i] = 2 /\ procs[i].app # Nobody
                /\ pidfile[procs[i].app] = procs[i].pid)
=============================================================================
