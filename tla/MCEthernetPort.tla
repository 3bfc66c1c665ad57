--------------------------- MODULE MCEthernetPort ---------------------------
(***************************************************************************)
(* A small instance of EthernetPort for TLC: bytes of two bits, a ring of  *)
(* three short frames or two long ones, pointers that wrap in the run.     *)
(***************************************************************************)
EXTENDS EthernetPort

Frame(k, p, n) == [kind |-> k, part |-> p, len |-> n]

TwoLengths ==
  { Frame("request", "whole", 4), Frame("tftp", "whole", 1), Frame("block", "whole", 4),
    Frame("last", "whole", 1), Frame("other", "whole", 1), Frame("last", "some", 1),
    Frame("last", "end", 4) }
=============================================================================
