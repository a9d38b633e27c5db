---------------------------- MODULE MCExecution ----------------------------
(* What an execution lives on: the runtime that starts and stops its processes,
   and the host calls that they make.  The two share no state: a behaviour is
   one of either, and the other rests in its initial state. *)
EXTENDS SandboxRuntime, MCHostCalls

VARIABLE part

MCInit == part \in {"runtime", "calls"} /\ RuntimeInit /\ Init

InRuntime == part = "runtime" /\ RuntimeNext /\ UNCHANGED <<part, vars>>
InCalls == part = "calls" /\ Next /\ UNCHANGED <<part, runtimeVars>>

MCSpec == MCInit /\ [][InRuntime \/ InCalls]_<<part, runtimeVars, vars>>
=============================================================================
