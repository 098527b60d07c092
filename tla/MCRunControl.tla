---------------------------- MODULE MCRunControl ----------------------------
(* Small instances of RunControl: requests that share a key and requests that *)
(* do not, agents published as the compiler does and as a promotion does.     *)
EXTENDS RunControl, TLC
=============================================================================
