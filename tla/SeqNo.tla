------------------------------- MODULE SeqNo -------------------------------
(***************************************************************************)
(* The N(S)/N(R) sequence numbers of IEC 60870-5-104 (frame104/seq.rs).    *)
(* The modulus, 2^15 in the code, is a parameter so that TLC can reach the *)
(* wrap-around; the proofs hold for every modulus.                         *)
(***************************************************************************)
EXTENDS Integers

CONSTANT MODULUS

(* Two numbers at least, so that there is a window of one frame.           *)
ASSUME ModulusAssumption == MODULUS \in Nat /\ MODULUS >= 2

MAX == MODULUS - 1

SeqNos == 0 .. MAX

(* SeqNo::add; the mask with MAX is the remainder by MODULUS.              *)
SeqAdd(s, n) == (s + n) % MODULUS

(* Mutant: the mask is forgotten.                                          *)
SeqNextUnmasked(s) == s + 1

(* SeqNo::next                                                             *)
SeqNext(s) == SeqAdd(s, 1)

(* SeqNo::distance: how far `later` is ahead of s, modulo MODULUS.         *)
Distance(s, later) == (later + MODULUS - s) % MODULUS
=============================================================================
