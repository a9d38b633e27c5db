---------------------------- MODULE MCAdmission ----------------------------
(* Admission on small instances: which submissions callers make. *)
EXTENDS Admission

CONSTANTS c1, c2, p1, p2, b1, b2

(* One content submitted with one blob, retried with a larger upload,
   re-admitted, retried under diverging caller facts; a second content. *)
MCRequests ==
    { [content |-> c1, binding |-> p1, blobs |-> {b1},     resequence |-> FALSE],
      [content |-> c1, binding |-> p2, blobs |-> {b1},     resequence |-> FALSE],
      [content |-> c1, binding |-> p1, blobs |-> {b2},     resequence |-> TRUE],
      [content |-> c2, binding |-> p2, blobs |-> {b2},     resequence |-> FALSE] }
============================================================================
