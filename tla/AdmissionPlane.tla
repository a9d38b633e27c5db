--------------------------- MODULE AdmissionPlane ---------------------------
(***************************************************************************)
(* From the publication gate to the control state: what one admission      *)
(* passes and where it is projected, and how a startup repairs what a      *)
(* crash left in between (wasm_runtime.rs startup and                      *)
(* handle_admission_submit, wasm_kind_registry.rs, wasm_publication.rs).   *)
(*                                                                         *)
(* An admission that has become visible (module Admission) is projected,   *)
(* in this order, into the kind binding of its application, the kind       *)
(* index, the route registry file and the control state.  An application   *)
(* is celld or wasm for life: celld ones are derived from the routes the   *)
(* image seeds, wasm ones from visible admissions.  One mutex serialises   *)
(* all of it, so the hazards are a crash or a failed write between two     *)
(* stores, and files that are replaced while the node runs.                *)
(*                                                                         *)
(* The digests and grammars that make a record, an identity, a policy or a *)
(* request valid are abstracted: an identity pin stands for every field    *)
(* that is compared (architecture, capability record, catalog, entry).     *)
(***************************************************************************)
EXTENDS Naturals

CONSTANTS
    Apps,           \* application IDs
    Requests,       \* well-formed requests: [app, pin, policy], one per version
    Pins,           \* identities of a node
    Policies,       \* host service policies
    None,
    ReadFaults,     \* whether a read of the index may fail
    MaxReseeds,     \* bound on the changes of the seeded routes
    MaxInstalls,    \* bound on the changes of identity, record and switch
    MaxFaults       \* bound on the faults of a behaviour

\* parse_admission_submit: a request may name a host service policy.
ServicePolicies == Policies \cup {None}
Request == [app : Apps, pin : Pins, policy : ServicePolicies]

Kinds == {"celld", "wasm"}

ASSUME PlaneAssumption ==
    /\ Requests \subseteq Request
    /\ None \notin Apps \cup Pins \cup Policies \cup Kinds
    /\ ReadFaults \in BOOLEAN
    /\ MaxReseeds \in Nat /\ MaxInstalls \in Nat /\ MaxFaults \in Nat

VARIABLES
    seed,           \* applications with a celld-app route in routes.json
    record,         \* the acceptance record of the image, or None
    identity,       \* gate-node-identity.json, or None
    switch,         \* the publication switch of the environment
    witness,        \* the admission of each version, as module Admission leaves it
    binding,        \* the kind binding file of each application
    index,          \* the claims of the kind index file
    proofs,         \* versions in the route registry file
    control,        \* versions in wasm-control-state-v2.json
    phase,          \* of the process
    gate,           \* wasm_gate: enabled, and the verified record it carries
    registry,       \* the claims of the index loaded last
    half,           \* the claim whose binding is written and whose index is not
    submit,         \* the submission in work
    acknowledged,   \* versions answered with 201
    replaced,       \* the identity was replaced since the last boot
    counts          \* reseeds, installs and faults so far

nodeFiles == <<seed, record, identity, switch>>
stores == <<witness, binding, index, proofs, control>>
process == <<phase, gate, registry, half, submit>>
vars == <<nodeFiles, stores, process, acknowledged, replaced, counts>>

\* The two generations of an acceptance record; their key sets are disjoint, so
\* no file is both.
RecordV2 == [generation : {"v2"}, pin : Pins, policy : {None}]
RecordV3 == [generation : {"v3"}, pin : Pins, policy : Policies]
Record == RecordV2 \cup RecordV3
\* gate-node-identity.json, which may be missing.
Identities == Pins \cup {None}
\* The claims of the index file, or of the binding files.
Claims == [Apps -> Kinds \cup {None}]
NoClaims == [a \in Apps |-> None]
StartupPhases == {"recover", "merge", "converge", "check", "project"}
NoSubmit == [pc |-> "none"]
Submit == {NoSubmit} \cup [pc : {"gated", "claim", "proof", "control"}, request : Requests]
Closed == [enabled |-> FALSE, record |-> None]

\* Every variable stays within its type; a process that is down or fenced has
\* no submission in work, and a claim is half written only between the two
\* writes of claim_runtime_kind.
TypeOK ==
    /\ seed \subseteq Apps /\ record \in Record \cup {None}
    /\ identity \in Identities /\ switch \in BOOLEAN
    /\ witness \in [Requests -> {"none", "pending", "visible"}]
    /\ binding \in Claims /\ index \in Claims /\ registry \in Claims
    /\ proofs \subseteq Requests /\ control \subseteq Requests
    /\ phase \in {"down", "up", "fenced"} \cup StartupPhases
    /\ gate \in [enabled : BOOLEAN, record : Record \cup {None}]
    /\ half \in Apps \cup {None} /\ submit \in Submit
    /\ phase # "up" => submit = NoSubmit
    /\ half # None => phase \in {"merge", "converge"} \/ submit.pc = "claim"
    /\ acknowledged \subseteq Requests /\ replaced \in BOOLEAN
    /\ counts \in [reseeds : 0..MaxReseeds, installs : 0..MaxInstalls, faults : 0..MaxFaults]

Init ==
    /\ seed \in SUBSET Apps /\ record \in Record \cup {None}
    /\ identity \in Identities /\ switch = TRUE
    /\ witness = [r \in Requests |-> "none"]
    /\ binding = NoClaims /\ index = NoClaims /\ proofs = {} /\ control = {}
    /\ phase = "down" /\ gate = Closed /\ registry = NoClaims /\ half = None
    /\ submit = NoSubmit /\ acknowledged = {} /\ replaced = FALSE
    /\ counts = [reseeds |-> 0, installs |-> 0, faults |-> 0]

Visible == {r \in Requests : witness[r] = "visible"}

-----------------------------------------------------------------------------
(* The publication gate.                                                   *)

\* evaluate_wasm_publication_gate: enabled is the switch, a record that
\* verifies and a node identity it names; the gate carries a record that names
\* the identity whatever the switch.
Bug_Gate ==
    [enabled |-> switch /\ record # None,
     record |-> record]
Gate ==
    LET matches == record # None /\ identity # None /\ record.pin = identity IN
    [enabled |-> switch /\ matches, record |-> IF matches THEN record ELSE None]

\* require_wasm_publication.
GateOpen == gate.enabled /\ gate.record # None

\* require_admission_publication_gate: the gate of this boot is open, and a
\* request with a host service policy is the one a v3 record names.
PassesGate(r) ==
    /\ GateOpen
    /\ r.policy # None =>
         /\ gate.record.generation = "v3"
         /\ gate.record.policy = r.policy /\ gate.record.pin = r.pin

\* verify_admission_node_identity, from the file as it is now.  One pin stands for
\* all that is compared; in the code the host ABI that every binding must name
\* (wasm_admission.rs:786) is not the one of a v3 record and its identity
\* (wasm_publication.rs:463), so that under a v3 record nothing passes.  The model
\* is more permissive: it lets the requests pass whose pin is the identity's.
PassesIdentity(r) == identity # None /\ r.pin = identity

-----------------------------------------------------------------------------
(* Kind claims.                                                            *)

\* derive_celld_claims_from_routes: an application that a seeded celld-app
\* route names is celld.
CelldByRoute(a) == a \in seed

\* WasmKernelRouteRegistryV1::load.  index_bytes maps every failure of the
\* read to an absent index.
LoadRegistry ==
    \/ registry' = index /\ UNCHANGED counts
    \/ /\ ReadFaults /\ counts.faults < MaxFaults
       /\ registry' = NoClaims
       /\ counts' = [counts EXCEPT !.faults = @ + 1]

\* The first write of claim_runtime_kind and of merge_route_derived_claims.
WriteBinding(a, kind) ==
    /\ half = None /\ registry[a] = None
    /\ binding' = [binding EXCEPT ![a] = kind] /\ half' = a
    /\ UNCHANGED <<index, registry>>

\* The second one: the index is the loaded one with the new claim.
WriteIndex ==
    /\ half # None
    /\ registry' = [registry EXCEPT ![half] = binding[half]]
    /\ index' = registry' /\ half' = None
    /\ UNCHANGED binding

\* insert_admitted, upsert_visible_admission: the row of a version is a
\* function of its proof (project_registry_row), and one that is there stays.
WithAdmitted(rows, versions) == rows \cup versions

-----------------------------------------------------------------------------
(* Startup.                                                                *)

Boot ==
    /\ phase = "down"
    /\ phase' = "recover" /\ gate' = Gate
    /\ replaced' = FALSE
    /\ UNCHANGED <<nodeFiles, stores, registry, half, submit, acknowledged, counts>>

Fence ==
    /\ phase' = "fenced" /\ half' = None
    /\ UNCHANGED <<nodeFiles, stores, gate, registry, submit, acknowledged, replaced, counts>>

\* run_admission_recovery brings every pending admission to one of its ends;
\* then the registry is loaded.
Recover ==
    /\ phase = "recover"
    /\ \E done \in SUBSET {r \in Requests : witness[r] = "pending"} :
         witness' = [r \in Requests |->
           IF witness[r] # "pending" THEN witness[r]
           ELSE IF r \in done THEN "visible" ELSE "none"]
    /\ LoadRegistry
    /\ phase' = "merge"
    /\ UNCHANGED <<nodeFiles, binding, index, proofs, control, gate, half, submit, acknowledged, replaced>>

\* merge_route_derived_claims claims every seeded celld application.
Merge ==
    /\ phase = "merge"
    /\ \/ \E a \in Apps : CelldByRoute(a) /\ WriteBinding(a, "celld") /\ UNCHANGED phase
       \/ WriteIndex /\ UNCHANGED phase
       \/ /\ half = None /\ \A a \in Apps : CelldByRoute(a) => registry[a] = "celld"
          /\ phase' = "converge" /\ UNCHANGED <<binding, index, registry, half>>
    /\ UNCHANGED <<nodeFiles, witness, proofs, control, gate, submit, acknowledged, replaced, counts>>

\* A seeded application that is wasm for life fences the whole wasm plane.
MergeSplits ==
    /\ phase = "merge" /\ half = None
    /\ \E a \in Apps : CelldByRoute(a) /\ registry[a] = "wasm"
    /\ Fence

\* converge_route_registry_from_admission: the claim of every visible version,
\* then the missing rows in one write of the file.
Converge ==
    /\ phase = "converge"
    /\ \/ \E r \in Visible : WriteBinding(r.app, "wasm") /\ UNCHANGED <<phase, proofs>>
       \/ WriteIndex /\ UNCHANGED <<phase, proofs>>
       \/ /\ half = None /\ \A r \in Visible : registry[r.app] = "wasm"
          /\ proofs' = WithAdmitted(proofs, Visible)
          /\ phase' = "check" /\ UNCHANGED <<binding, index, registry, half>>
    /\ UNCHANGED <<nodeFiles, witness, control, gate, submit, acknowledged, replaced, counts>>

\* A visible version of an application that is celld for life.
ConvergeConflicts ==
    /\ phase = "converge" /\ half = None
    /\ \E r \in Visible : registry[r.app] = "celld"
    /\ Fence

\* WasmKernelRouteRegistryV1::recover: a binding that is missing is rebuilt
\* from its claim.  Quarantines end with this registry and fence nothing.  What
\* comes before leaves no split brain for it to find unless a read of the index
\* failed.
SplitBrain ==
    \/ \E a \in Apps : CelldByRoute(a)
          /\ (registry[a] = "wasm" \/ \E r \in Visible : r.app = a)
    \/ \E a \in Apps : registry[a] # None /\ binding[a] \notin {None, registry[a]}

Check ==
    /\ phase = "check"
    /\ IF SplitBrain THEN Fence
       ELSE /\ binding' = [a \in Apps |-> IF binding[a] = None THEN registry[a] ELSE binding[a]]
            /\ phase' = "project"
            /\ UNCHANGED <<nodeFiles, witness, index, proofs, control, gate, registry, half,
                           submit, acknowledged, replaced, counts>>

\* materialize_control_state_if_missing and
\* reconcile_visible_admissions_into_control_state.
Bug_Project ==
    /\ phase = "project"
    /\ control' = IF control = {} THEN Visible ELSE control
    /\ phase' = "up"
    /\ UNCHANGED <<nodeFiles, witness, binding, index, proofs, gate, registry, half,
                   submit, acknowledged, replaced, counts>>
Project ==
    /\ phase = "project"
    /\ control' = WithAdmitted(control, Visible)
    /\ phase' = "up"
    /\ UNCHANGED <<nodeFiles, witness, binding, index, proofs, gate, registry, half,
                   submit, acknowledged, replaced, counts>>

\* A store that cannot be read or written fences the plane; a claim may stay
\* half written.
StartupFails ==
    /\ phase \in StartupPhases /\ counts.faults < MaxFaults
    /\ phase' = "fenced" /\ half' = None
    /\ counts' = [counts EXCEPT !.faults = @ + 1]
    /\ UNCHANGED <<nodeFiles, stores, gate, registry, submit, acknowledged, replaced>>

-----------------------------------------------------------------------------
(* handle_admission_submit.                                                *)

\* The gates, the routes of this boot and the claim of the index.  The routes
\* the process derived at startup are those of the seed: a reseed comes with a
\* restart.
Bug_Accept(r) ==
    /\ phase = "up" /\ submit = NoSubmit
    /\ PassesGate(r) /\ PassesIdentity(r)
    /\ LoadRegistry
    /\ submit' = [pc |-> "gated", request |-> r]
    /\ UNCHANGED <<nodeFiles, stores, phase, gate, half, acknowledged, replaced>>
Accept(r) ==
    /\ phase = "up" /\ submit = NoSubmit
    /\ PassesGate(r) /\ PassesIdentity(r) /\ ~CelldByRoute(r.app)
    /\ LoadRegistry
    /\ registry'[r.app] # "celld"
    /\ submit' = [pc |-> "gated", request |-> r]
    /\ UNCHANGED <<nodeFiles, stores, phase, gate, half, acknowledged, replaced>>

\* commit_wasm_admission: visible, or an error that leaves it failed or, for
\* the next recovery, in flight.  A version that is visible is joined.
Bug_Commit ==
    LET r == submit.request IN
    /\ submit.pc = "gated"
    /\ witness' = [witness EXCEPT ![r] = "visible"]
    /\ submit' = [submit EXCEPT !.pc = IF witness[r] = "visible" THEN "proof" ELSE "claim"]
    /\ UNCHANGED <<nodeFiles, binding, index, proofs, control, phase, gate, registry,
                   half, acknowledged, replaced, counts>>
Commit ==
    LET r == submit.request IN
    /\ submit.pc = "gated"
    /\ \/ /\ witness' = [witness EXCEPT ![r] = "visible"]
          /\ submit' = [submit EXCEPT !.pc = "claim"]
       \/ /\ witness[r] # "visible"
          /\ \E end \in {"none", "pending"} : witness' = [witness EXCEPT ![r] = end]
          /\ submit' = NoSubmit
    /\ UNCHANGED <<nodeFiles, binding, index, proofs, control, phase, gate, registry,
                   half, acknowledged, replaced, counts>>

\* register_wasm_admission.
Register ==
    LET r == submit.request IN
    /\ submit.pc = "claim"
    /\ \/ WriteBinding(r.app, "wasm") /\ UNCHANGED submit
       \/ WriteIndex /\ submit' = [submit EXCEPT !.pc = "proof"]
       \/ /\ half = None /\ registry[r.app] = "wasm"
          /\ submit' = [submit EXCEPT !.pc = "proof"]
          /\ UNCHANGED <<binding, index, registry, half>>
    /\ UNCHANGED <<nodeFiles, witness, proofs, control, phase, gate, acknowledged, replaced, counts>>

SaveProof ==
    /\ submit.pc = "proof"
    /\ proofs' = WithAdmitted(proofs, {submit.request})
    /\ submit' = [submit EXCEPT !.pc = "control"]
    /\ UNCHANGED <<nodeFiles, witness, binding, index, control, phase, gate, registry,
                   half, acknowledged, replaced, counts>>

\* upsert_visible_admission and save_control_state, then 201.
SaveControl ==
    /\ submit.pc = "control"
    /\ control' = WithAdmitted(control, {submit.request})
    /\ acknowledged' = acknowledged \cup {submit.request}
    /\ submit' = NoSubmit
    /\ UNCHANGED <<nodeFiles, witness, binding, index, proofs, phase, gate, registry,
                   half, replaced, counts>>

\* Any store of a submission may fail: 503, and the process goes on.
SubmitFails ==
    /\ submit # NoSubmit /\ submit.pc # "gated" /\ counts.faults < MaxFaults
    /\ submit' = NoSubmit /\ half' = None
    /\ counts' = [counts EXCEPT !.faults = @ + 1]
    /\ UNCHANGED <<nodeFiles, stores, phase, gate, registry, acknowledged, replaced>>

-----------------------------------------------------------------------------
(* The node around the process.                                            *)

\* The process ends between two requests.
Stop ==
    /\ phase \in {"up", "fenced"} /\ submit = NoSubmit
    /\ phase' = "down" /\ gate' = Closed
    /\ UNCHANGED <<nodeFiles, stores, registry, half, submit, acknowledged, replaced, counts>>

\* The process dies; a commit under way is left in flight or has not begun.
Crash ==
    /\ phase # "down" /\ counts.faults < MaxFaults
    /\ phase' = "down" /\ half' = None /\ submit' = NoSubmit /\ gate' = Closed
    /\ \/ UNCHANGED witness
       \/ /\ submit.pc = "gated" /\ witness[submit.request] # "visible"
          /\ witness' = [witness EXCEPT ![submit.request] = "pending"]
    /\ counts' = [counts EXCEPT !.faults = @ + 1]
    /\ UNCHANGED <<nodeFiles, binding, index, proofs, control, registry, acknowledged, replaced>>

\* A binding that the index names is missing at the next start, whatever took it;
\* recovery provides for that (wasm_kind_registry.rs:535) and rebuilds it from its
\* claim.  A lost index is not modelled: it is taken for an empty one.
LoseBinding(a) ==
    /\ phase = "down" /\ counts.faults < MaxFaults /\ binding[a] # None
    /\ binding' = [binding EXCEPT ![a] = None]
    /\ counts' = [counts EXCEPT !.faults = @ + 1]
    /\ UNCHANGED <<nodeFiles, witness, index, proofs, control, process, acknowledged, replaced>>

\* Another image seeds other routes.
Reseed(apps) ==
    /\ phase = "down" /\ apps # seed /\ counts.reseeds < MaxReseeds
    /\ seed' = apps
    /\ counts' = [counts EXCEPT !.reseeds = @ + 1]
    /\ UNCHANGED <<record, identity, switch, stores, process, acknowledged, replaced>>

\* The operator replaces the identity, at any time, or the record or the
\* switch, for the next boot.
Install ==
    /\ counts.installs < MaxInstalls
    /\ \/ /\ identity' \in Identities /\ replaced' = TRUE
          /\ UNCHANGED <<record, switch>>
       \/ record' \in Record \cup {None} /\ UNCHANGED <<identity, switch, replaced>>
       \/ switch' \in BOOLEAN /\ UNCHANGED <<identity, record, replaced>>
    /\ counts' = [counts EXCEPT !.installs = @ + 1]
    /\ UNCHANGED <<seed, stores, process, acknowledged>>

Next ==
    \/ Boot \/ Recover \/ Merge \/ MergeSplits \/ Converge \/ ConvergeConflicts
    \/ Check \/ Project \/ StartupFails
    \/ \E r \in Requests : Accept(r)
    \/ Commit \/ Register \/ SaveProof \/ SaveControl \/ SubmitFails
    \/ Stop \/ Crash \/ Install
    \/ \E a \in Apps : LoseBinding(a)
    \/ \E apps \in SUBSET Apps : Reseed(apps)

Spec == Init /\ [][Next]_vars

-----------------------------------------------------------------------------
(* Properties.                                                             *)

\* The stores never run ahead of each other, whatever crashed or failed in
\* between: a row of the route registry has a visible witness and a wasm claim,
\* a row of the control state has a row of the registry, and an acknowledged
\* admission is in all of them (the write order of handle_admission_submit).
Projected ==
    /\ acknowledged \subseteq control
    /\ control \subseteq proofs
    /\ \A r \in proofs : witness[r] = "visible" /\ index[r.app] = "wasm"

\* A plane that serves has no application of both kinds: nothing the seed
\* routes to celld is, or is about to be, admitted to wasm, however the seed
\* changed while the node was down and wherever the last crash fell.
NeverBothKinds ==
    phase = "up" =>
      /\ \A r \in Visible : r.app \notin seed
      /\ submit # NoSubmit => submit.request.app \notin seed

\* A startup that succeeds leaves no residue: every visible admission is in
\* every store, and the claims on disk agree with their bindings.
StartupConverges ==
    [][phase # "up" /\ phase' = "up" =>
         /\ Visible' \subseteq control' \cap proofs'
         /\ \A a \in Apps : index'[a] \in {None, binding'[a]}]_vars

\* What becomes visible is what was accepted: a request that uses host
\* services only as the record of this boot names it, and any other one under
\* the record's identity too, unless the identity file was replaced since.
AdmittedIsAccepted ==
    [][\A r \in Visible' \ Visible : phase = "up" =>
         /\ gate.enabled
         /\ r.pin = gate.record.pin \/ (r.policy = None /\ replaced)
         /\ r.policy \in {None, gate.record.policy}]_vars

=============================================================================
