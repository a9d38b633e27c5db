------------------------------ MODULE MCRoute ------------------------------
(* Route on small instances: which activation commands owners send. *)
EXTENDS Route

CONSTANTS i1, i2, i3, n1, n2

Cmd(id, op, v, n, g) == [id |-> id, op |-> op, version |-> v, nonce |-> n, expected |-> g]

(* A first activation, the next version, the first lease once more under a new
   id, and a rollback that reuses the first id. *)
MCCommands ==
    { Cmd(i1, "activate", 1, n1, 0), Cmd(i2, "activate", 2, n2, 1),
      Cmd(i3, "activate", 1, n1, 1), Cmd(i1, "rollback", 1, n2, 1) }
============================================================================
