---------------------------- MODULE MCRegistries ----------------------------
(* What the Kernel keeps of applications, routes and owners: the plane that admits
   applications, the user routes and the owner keys.  They share no state: a
   behaviour is one of the three, and the others rest in an initial state. *)
EXTENDS AdmissionPlane, UserRoutes, OwnerKeys

VARIABLE part

CONSTANTS a, b, p, q, services

(* Two versions of one application, one of them with services, and a rival. *)
MCRequests == {[app |-> a, pin |-> p, policy |-> services],
               [app |-> a, pin |-> p, policy |-> None],
               [app |-> b, pin |-> q, policy |-> None]}

MCInit ==
    /\ part \in {"plane", "routes", "keys"}
    /\ Init /\ RoutesInit /\ KeysInit
    /\ part # "plane" => seed = {} /\ record = None /\ identity = None

InPlane == part = "plane" /\ Next /\ UNCHANGED <<part, routesVars, keysVars>>
InRoutes == part = "routes" /\ RoutesNext /\ UNCHANGED <<part, vars, keysVars>>
InKeys == part = "keys" /\ KeysNext /\ UNCHANGED <<part, vars, routesVars>>

MCSpec == MCInit /\ [][InPlane \/ InRoutes \/ InKeys]_<<part, vars, routesVars, keysVars>>
=============================================================================
