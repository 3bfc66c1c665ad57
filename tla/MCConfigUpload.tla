--------------------------- MODULE MCConfigUpload ---------------------------
(***************************************************************************)
(* Small instances of ConfigUpload for TLC: a file of two packets, one of  *)
(* three and one whose third packet is empty.                              *)
(***************************************************************************)
EXTENDS ConfigUpload, TLC

CONSTANTS short, long, exact, bad, p1, p2

MCLengths ==
  [f \in Files |-> CASE f = short -> 300 [] f = exact -> 512 [] OTHER -> 700]
Transfers == Permutations(Pcbs)
=============================================================================
