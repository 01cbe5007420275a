--------------------------- MODULE ReliableStream ---------------------------
(***************************************************************************)
(* What a data link promises its two applications: ASDUs submitted on one  *)
(* side come out on the other, each at most once, in order and without     *)
(* gaps, until the link ends.  ASDUs are numbered in the order of their    *)
(* submission.                                                             *)
(***************************************************************************)
EXTENDS Naturals, Sequences

CONSTANTS Side, Other(_)

VARIABLES submitted, delivered

Init ==
  /\ submitted = [s \in Side |-> 0]
  /\ delivered = [s \in Side |-> << >>]

Submit(s) ==
  /\ submitted' = [submitted EXCEPT ![s] = @ + 1]
  /\ UNCHANGED delivered

Deliver(s) ==
  /\ Len(delivered[s]) < submitted[Other(s)]
  /\ delivered' = [delivered EXCEPT ![s] = Append(@, Len(@) + 1)]
  /\ UNCHANGED submitted

Next == \E s \in Side : Submit(s) \/ Deliver(s)

Spec == Init /\ [][Next]_<<submitted, delivered>>
=============================================================================
