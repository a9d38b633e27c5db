--------------------------- MODULE RouteAuthority ---------------------------
(***************************************************************************)
(* What activation promises: one line of grants, each taking the route of  *)
(* an application to a version by a lease nobody used before; one verdict  *)
(* per activation id, final; and a published route that follows the line   *)
(* one grant at a time, never missing one and never going back.            *)
(***************************************************************************)
EXTENDS Naturals, Sequences

CONSTANTS Ids, Versions, Nonces, None

VARIABLES
    grants,     \* the versions that were granted the route, in order
    verdicts,   \* by id: None, or the grant it got, 0 when refused
    published   \* the grant that traffic follows

Init ==
    /\ grants = <<>>
    /\ verdicts = [i \in Ids |-> None]
    /\ published = 0

(* A new grant waits until the one before it is published. *)
Grant(i) ==
    /\ verdicts[i] = None
    /\ published = Len(grants)
    /\ \E v \in Versions, n \in Nonces :
         /\ \A k \in DOMAIN grants : grants[k].nonce # n
         /\ grants' = Append(grants, [version |-> v, nonce |-> n])
    /\ verdicts' = [verdicts EXCEPT ![i] = [grant |-> Len(grants) + 1]]
    /\ UNCHANGED published

Refuse(i) ==
    /\ verdicts[i] = None
    /\ verdicts' = [verdicts EXCEPT ![i] = [grant |-> 0]]
    /\ UNCHANGED <<grants, published>>

Publish ==
    /\ published < Len(grants)
    /\ published' = published + 1
    /\ UNCHANGED <<grants, verdicts>>

Next == Publish \/ \E i \in Ids : Grant(i) \/ Refuse(i)

Spec == Init /\ [][Next]_<<grants, verdicts, published>>
=============================================================================
