----------------------------- MODULE MCLink101 -----------------------------
(***************************************************************************)
(* Link101 with small bounds.  AckTimeout is one tick: the line may delay  *)
(* a frame over any number of ticks, so a longer timeout adds no           *)
(* interleaving.                                                           *)
(***************************************************************************)
EXTENDS Link101

MCMaxAsdu == [r \in {"master", "outstation"} |-> IF r = "master" THEN 3 ELSE 1]
MCOneAsdu == [r \in {"master", "outstation"} |-> 1]

=============================================================================
