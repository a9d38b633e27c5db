----------------------------- MODULE UserRoutes -----------------------------
(***************************************************************************)
(* The route registry file under concurrent control calls (routes.rs and   *)
(* the /v1/routes handlers of http.rs).  Every handler loads routes.json   *)
(* into a store of its own, changes that copy and persists it: it writes   *)
(* the one fixed name routes.tmp and renames it over routes.json.  No lock *)
(* is held between the load and the rename, and ingress requests load the  *)
(* file at any moment, so the file system is modelled by its inodes: which *)
(* inode each name is bound to and what each inode holds.                  *)
(*                                                                         *)
(* A route is its host and its target application; the enabled flag and    *)
(* the celld ports are left out.  A host stands for one that passes        *)
(* validate_user_route; some of those belong to the image's seed.          *)
(***************************************************************************)
EXTENDS Naturals, FiniteSets, TLC

CONSTANTS
    Handlers,       \* control calls that may be in flight together
    Hosts,          \* hosts a route body may name
    SystemHosts,    \* those the seed registers with system = true
    Applications,   \* application names of the wasm tier
    Celld,          \* the target of a system route
    Nothing         \* no route, no inode

ASSUME RoutesAssumption ==
    /\ SystemHosts \subseteq Hosts /\ IsFiniteSet(Handlers)
    /\ Nothing \notin Applications \cup {Celld} \cup Nat /\ Celld \notin Applications

VARIABLES
    admitted,       \* applications of the wasm control state
    file,           \* the inode routes.json is bound to
    tmp,            \* the inode routes.tmp is bound to, or Nothing
    inode,          \* what each inode holds
    handler,        \* the local state of each handler
    alone           \* handlers that overlapped with no other one so far

fileVars == <<file, tmp, inode>>
routesVars == <<admitted, fileVars, handler, alone>>

Inodes == 1..(Cardinality(Handlers) + 2)
Registry == [Hosts -> Applications \cup {Celld, Nothing}]
Whole(rs) == [form |-> "whole", routes |-> rs]
Empty == [form |-> "empty"]     \* truncated, nothing written yet
Mixed == [form |-> "mixed"]     \* a short body over the tail of a longer one
IdleHandler == [pc |-> "idle"]
Change == [host : Hosts, target : Applications \cup {Nothing}]

HandlerSteps == {"checking", "changed", "opened", "written"}
Handler == {IdleHandler} \cup
    [pc : HandlerSteps, op : Change, store : Registry, fd : Inodes \cup {Nothing}]

\* Every name is bound to an inode, the two names never to the same one, and
\* a handler between open and rename holds an inode (RouteStore::persist).
RoutesTypeOK ==
    /\ admitted \subseteq Applications
    /\ file \in Inodes /\ tmp \in Inodes \cup {Nothing} /\ file # tmp
    /\ inode \in [Inodes -> {Whole(r) : r \in Registry} \cup {Empty, Mixed}]
    /\ handler \in [Handlers -> Handler]
    /\ \A h \in Handlers :
         handler[h].pc \in {"opened", "written"} => handler[h].fd # Nothing
    /\ alone \subseteq Handlers

\* /opt/iweb/kernel/routes.seed.json.
Seed == [h \in Hosts |-> IF h \in SystemHosts THEN Celld ELSE Nothing]

RoutesInit ==
    /\ admitted = {}
    /\ file = 1 /\ tmp = Nothing
    /\ inode = [i \in Inodes |-> IF i = 1 THEN Whole(Seed) ELSE Empty]
    /\ handler = [h \in Handlers |-> IdleHandler]
    /\ alone = {}

Busy(h) == handler[h].pc # "idle"

\* RouteStore::load parses the file or panics; load_routes_store turns the
\* panic into "no store", answered with 503 (an ingress request: 502).
Readable == inode[file].form = "whole"
Published == inode[file].routes

-----------------------------------------------------------------------------
(* The handlers.                                                           *)

\* The wasm runtime admits an application.
AdmitApplication(a) ==
    /\ a \notin admitted
    /\ admitted' = admitted \cup {a}
    /\ UNCHANGED <<fileVars, handler, alone>>

\* Loading the store starts a handler's critical span: from here to its end
\* it works on this copy.
Load(h, op, step) ==
    /\ ~Busy(h)
    /\ handler' = [handler EXCEPT ![h] =
         [pc |-> step, op |-> op, store |-> Published, fd |-> Nothing]]
    /\ alone' = IF \E g \in Handlers : Busy(g) THEN {} ELSE {h}
    /\ UNCHANGED <<admitted, fileVars>>

\* routes_create up to the system check: a system route answers 409.
Create(h, op) ==
    /\ op.target # Nothing
    /\ Readable /\ Published[op.host] # Celld
    /\ Load(h, op, "checking")

\* routes_delete up to the change: no such route answers 404, a system route
\* answers 409.
Delete(h, op) ==
    /\ op.target = Nothing
    /\ Readable /\ Published[op.host] \notin {Nothing, Celld}
    /\ Load(h, op, "changed")

Ends(h) == handler' = [handler EXCEPT ![h] = IdleHandler] /\ alone' = alone \ {h}

\* require_admitted_application under the runtime's lock: an application that
\* is not admitted answers 409, a runtime that has failed 503.
Bug_CheckAdmitted(h) ==
    /\ handler[h].pc = "checking"
    /\ \/ handler' = [handler EXCEPT ![h].pc = "changed"] /\ alone' = alone
       \/ Ends(h)
    /\ UNCHANGED <<admitted, fileVars>>
CheckAdmitted(h) ==
    /\ handler[h].pc = "checking"
    /\ \/ /\ handler[h].op.target \in admitted
          /\ handler' = [handler EXCEPT ![h].pc = "changed"]
          /\ alone' = alone
       \/ Ends(h)
    /\ UNCHANGED <<admitted, fileVars>>

\* RouteStore::record and delete: the change, in the handler's copy.
Bug_Changed(h) ==
    LET s == handler[h].store op == handler[h].op IN
    IF op.target # Nothing /\ s[op.host] # Nothing THEN s
    ELSE [s EXCEPT ![op.host] = op.target]
Changed(h) == [handler[h].store EXCEPT ![handler[h].op.host] = handler[h].op.target]

FreeInodes ==
    Inodes \ ({file, tmp} \cup {handler[h].fd : h \in {g \in Handlers : Busy(g)}})

\* fs::write opens routes.tmp with create and truncate: a tmp another handler
\* left or is still writing is the same inode, and is emptied.
Open(h) ==
    /\ handler[h].pc = "changed"
    /\ tmp' = IF tmp # Nothing THEN tmp ELSE CHOOSE i \in FreeInodes : TRUE
    /\ inode' = [inode EXCEPT ![tmp'] = Empty]
    /\ handler' = [handler EXCEPT ![h].pc = "opened", ![h].fd = tmp']
    /\ UNCHANGED <<admitted, file, alone>>

\* A body written from offset 0 over bytes that another handler has written
\* since: what was longer keeps its tail.  A body is certainly not longer when
\* every route of it is in the new one.
LeavesTail(old, new) ==
    \/ old = Mixed
    \/ old.form = "whole" /\ \E h \in Hosts : old.routes[h] \notin {Nothing, new[h]}
Write(h) ==
    LET old == inode[handler[h].fd] new == Changed(h) IN
    /\ handler[h].pc = "opened"
    /\ \E body \in {Whole(new)} \cup (IF LeavesTail(old, new) THEN {Mixed} ELSE {}) :
         inode' = [inode EXCEPT ![handler[h].fd] = body]
    /\ handler' = [handler EXCEPT ![h].pc = "written"]
    /\ UNCHANGED <<admitted, file, tmp, alone>>

\* The write fails, say on a full disk: the handler panics and the connection
\* ends without an answer.
WriteFails(h) ==
    /\ handler[h].pc = "opened"
    /\ Ends(h)
    /\ UNCHANGED <<admitted, fileVars>>

\* The rename publishes whatever inode routes.tmp is bound to now; the call
\* is acknowledged (201, 204).  The inode it replaced is freed.
Rename(h) ==
    /\ handler[h].pc = "written" /\ tmp # Nothing
    /\ file' = tmp /\ tmp' = Nothing
    /\ inode' = [inode EXCEPT ![file] = Empty]
    /\ Ends(h)
    /\ UNCHANGED admitted

\* Another handler has renamed routes.tmp away: expect("routes rename") panics.
RenameFails(h) ==
    /\ handler[h].pc = "written" /\ tmp = Nothing
    /\ Ends(h)
    /\ UNCHANGED <<admitted, fileVars>>

\* A restart of the node: the entrypoint copies the object that was seeded
\* once over routes.json; no user route survives, the control state does.
Restart ==
    /\ inode' = [inode EXCEPT ![file] = Whole(Seed)]
    /\ handler' = [h \in Handlers |-> IdleHandler]
    /\ alone' = {}
    /\ UNCHANGED <<admitted, file, tmp>>

RoutesNext ==
    \/ \E a \in Applications : AdmitApplication(a)
    \/ \E h \in Handlers :
         \/ \E op \in Change : Create(h, op) \/ Delete(h, op)
         \/ CheckAdmitted(h) \/ Open(h) \/ Write(h) \/ WriteFails(h)
         \/ Rename(h) \/ RenameFails(h)
    \/ Restart

RoutesSpec == RoutesInit /\ [][RoutesNext]_routesVars

\* Handlers and applications are interchangeable for TLC.
Symmetry == Permutations(Handlers) \cup Permutations(Applications)

-----------------------------------------------------------------------------
(* Properties.                                                             *)

\* Whatever the handlers overwrite of each other's work, a registry that can
\* be read holds every system route of the seed, and its user routes name
\* admitted applications only: no mix of stale copies may drop or retarget a
\* system route, or smuggle in a target that was refused (routes_create).
RegistryIsLawful ==
    Readable =>
      \A h \in Hosts :
        IF h \in SystemHosts THEN Published[h] = Celld
        ELSE Published[h] \in admitted \cup {Nothing}

\* A call that overlapped with no other one, however many failed before it
\* and whatever they left in routes.tmp, is acknowledged only when the
\* published registry is the previous one with exactly its change.
LoneChangeIsExact ==
    [][\A h \in alone :
         Rename(h) => inode'[file'] = Whole([Published EXCEPT
                        ![handler[h].op.host] = handler[h].op.target])]_routesVars

=============================================================================
