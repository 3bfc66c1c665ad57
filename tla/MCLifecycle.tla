---------------------------- MODULE MCLifecycle ----------------------------
(***************************************************************************)
(* Small instances of Lifecycle for TLC (see MCConfigUpload).              *)
(***************************************************************************)
EXTENDS Lifecycle

CONSTANTS short, long, exact, bad, p1, p2

MCLengths ==
  [f \in Files |-> CASE f = short -> 300 [] f = exact -> 512 [] OTHER -> 700]
=============================================================================
