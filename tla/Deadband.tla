------------------------------ MODULE Deadband ------------------------------
(***************************************************************************)
(* The deadband evaluator of deadband.rs: a policy and a last emitted      *)
(* snapshot per information object, and the rules that decide whether a    *)
(* spontaneous sample is worth an ASDU.                                    *)
(*                                                                         *)
(* A monitored value is its kind and an integer: 0 or 1 for Single, 0..3   *)
(* for Double, the i16 for Scaled, and for Normalized and Float a fixed    *)
(* point number (the comparator uses only sums and products).  Three       *)
(* integers no sample reaches stand for the values that are not finite.    *)
(* A snapshot is a value with its quality; an Option is {} or a singleton. *)
(***************************************************************************)
EXTENDS Integers

CONSTANTS
  Ioas             \* the information objects

ASSUME IoasAssumption == Ioas \subseteq Nat

Inf == 1000000
NegInf == -Inf
NaN == 2000000

IsFinite(n) == n \notin {Inf, NegInf, NaN}

Digital == {"Single", "Double"}
ValueKind == Digital \cup {"Normalized", "Scaled", "Float"}

Value(kind, n) == [kind |-> kind, n |-> n]

Abs(n) == IF n < 0 THEN -n ELSE n

(* DeadbandPolicy: the fields a variant lacks are zero. *)
None == [kind |-> "None", delta |-> 0, pct |-> 0, floor |-> 0]
Absolute(delta) == [None EXCEPT !.kind = "Absolute", !.delta = delta]
Percent(pct, floor) ==
  [None EXCEPT !.kind = "Percent", !.pct = pct, !.floor = floor]

(* The derived PartialEq of MonitoredValue: NaN differs from itself. *)
SameValue(a, b) == a = b /\ a.n # NaN

(* magnitude *)
Magnitude(v) == IF v.kind \in Digital THEN 0 ELSE Abs(v.n)

LargerOf(a, b) == IF a >= b THEN a ELSE b

(* The comparison of dist with the limit of the policy, both finite. *)
BeyondLimit(old, new, policy) ==
  LET dist == Abs(new.n - old.n)
  IN CASE policy.kind = "None"     -> dist > 0
       [] policy.kind = "Absolute" -> dist >= policy.delta
       [] policy.kind = "Percent"  ->
            100 * dist >= policy.pct * LargerOf(Magnitude(old), policy.floor)

(* threshold_crossed, for two values of one kind.  The distance of equal   *)
(* infinities is NaN, which no limit lets through; the distance of opposite *)
(* ones is infinite and so is their magnitude.                              *)
ThresholdCrossed(old, new, policy) ==
  IF old.kind \in Digital THEN old.n # new.n
  ELSE IF IsFinite(old.n) /\ IsFinite(new.n) THEN BeyondLimit(old, new, policy)
  ELSE IF IsFinite(old.n) # IsFinite(new.n) THEN TRUE
  ELSE IF (old.n = NaN) # (new.n = NaN) THEN TRUE
  ELSE /\ old.n # new.n
       /\ policy.kind = "Percent" => policy.pct > 0

-----------------------------------------------------------------------------
(* DeadbandTracker: policies and baselines, keyed by information object.   *)

Snapshot(value, quality) == [value |-> value, quality |-> quality]

NewTracker ==
  [policies |-> [i \in Ioas |-> {}], baselines |-> [i \in Ioas |-> {}]]

SetPolicy(t, ioa, policy) == [t EXCEPT !.policies[ioa] = {policy}]

PolicyOf(t, ioa) ==
  IF t.policies[ioa] = {} THEN None ELSE CHOOSE p \in t.policies[ioa] : TRUE

KindMismatch(t, ioa, value) ==
  \E b \in t.baselines[ioa] : b.value.kind # value.kind

(* observe: an error leaves the baseline as it was. *)
Observe(t, ioa, value, quality) ==
  IF KindMismatch(t, ioa, value) THEN t
  ELSE [t EXCEPT !.baselines[ioa] = {Snapshot(value, quality)}]

(* The decision of evaluate, rules 1 to 5; the caller logs the error of    *)
(* rule 2 and suppresses.                                                   *)
Emits(t, ioa, value, quality) ==
  /\ ~KindMismatch(t, ioa, value)
  /\ \A b \in t.baselines[ioa] :
       \/ b.quality # quality
       \/ IF PolicyOf(t, ioa).kind = "None" THEN ~SameValue(b.value, value)
          ELSE ThresholdCrossed(b.value, value, PolicyOf(t, ioa))

(* evaluate: an emitted sample becomes the baseline. *)
Evaluate(t, ioa, value, quality) ==
  IF Emits(t, ioa, value, quality)
  THEN [t EXCEPT !.baselines[ioa] = {Snapshot(value, quality)}]
  ELSE t

=============================================================================
