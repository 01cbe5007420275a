---------------------------- MODULE MCRedundancy ----------------------------
(* TLC instances of Redundancy.                                            *)
EXTENDS Redundancy

CONSTANTS s1, s2, s3, a, b

(* The first and the third session come from the same address.             *)
MCAddrOf == [s \in Session |-> IF s = s2 THEN b ELSE a]
=============================================================================
