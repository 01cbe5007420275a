----------------------------- MODULE MCLink104 -----------------------------
(* TLC instances of Link104.                                               *)
EXTENDS Link104

(* Three ASDUs one way overfill a window of two; one comes back to carry   *)
(* piggy-backed acknowledgements.                                          *)
MCMaxSubmit == [e \in Role |-> IF e = "Client" THEN 3 ELSE 1]

(* Enough for the numbers modulo 5 to wrap around.                         *)
MCMaxSubmitWrap == [e \in Role |-> IF e = "Client" THEN 5 ELSE 1]
=============================================================================
