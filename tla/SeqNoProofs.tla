---------------------------- MODULE SeqNoProofs ----------------------------
(***************************************************************************)
(* Arithmetic of the sequence numbers, for every modulus.                  *)
(***************************************************************************)
EXTENDS SeqNo, TLAPS

(* A natural number is its quotient times the modulus plus its remainder.  *)
LEMMA DivMod ==
  ASSUME NEW x \in Nat
  PROVE  /\ x \div MODULUS \in Nat
         /\ x % MODULUS \in 0 .. (MODULUS - 1)
         /\ x = MODULUS * (x \div MODULUS) + (x % MODULUS)
  BY ModulusAssumption, SMTT(30)

(* A nonzero multiple of the modulus is at least that far from zero.       *)
LEMMA NonzeroMultiple ==
  ASSUME NEW a \in Int, a # 0
  PROVE  MODULUS * a >= MODULUS \/ MODULUS * a <= -MODULUS
  BY ModulusAssumption, SMTT(30)

LEMMA Distributes ==
  ASSUME NEW a \in Int, NEW b \in Int
  PROVE  MODULUS * (a + b) = MODULUS * a + MODULUS * b
  BY ModulusAssumption, SMTT(30)

(* The remainder is unique.                                                *)
LEMMA RemainderUnique ==
  ASSUME NEW a \in Int, NEW r \in 0 .. (MODULUS - 1),
         NEW b \in Int, NEW s \in 0 .. (MODULUS - 1),
         MODULUS * a + r = MODULUS * b + s
  PROVE  r = s
  <1>1. /\ a - b \in Int
        /\ MODULUS * a \in Int /\ MODULUS * b \in Int
        /\ MODULUS * ((a - b) + b) = MODULUS * (a - b) + MODULUS * b
    BY Distributes, ModulusAssumption
  <1>2. MODULUS * (a - b) \in Int
    BY ModulusAssumption
  <1>3. (a - b) + b = a
    OBVIOUS
  <1>4. MODULUS * (a - b) = s - r
    BY <1>1, <1>2, <1>3, ModulusAssumption
  <1>5. CASE a - b = 0
    BY <1>4, <1>5, ModulusAssumption
  <1>6. CASE a - b # 0
    <2>1. MODULUS * (a - b) >= MODULUS \/ MODULUS * (a - b) <= -MODULUS
      BY <1>1, <1>6, NonzeroMultiple
    <2>2. QED
      BY <1>4, <2>1, ModulusAssumption
  <1>7. QED
    BY <1>5, <1>6

(* Reducing a summand first does not change the remainder of a sum.        *)
LEMMA ModPlus ==
  ASSUME NEW x \in Nat, NEW n \in Nat
  PROVE  ((x % MODULUS) + n) % MODULUS = (x + n) % MODULUS
  <1> DEFINE z == (x % MODULUS) + n
             q == x \div MODULUS
  <1>1. /\ q \in Nat /\ z \in Nat
        /\ x = MODULUS * q + (x % MODULUS)
        /\ x % MODULUS \in 0 .. (MODULUS - 1)
    BY DivMod
  <1>2. /\ z \div MODULUS \in Nat
        /\ z % MODULUS \in 0 .. (MODULUS - 1)
        /\ z = MODULUS * (z \div MODULUS) + (z % MODULUS)
    BY <1>1, DivMod
  <1>3. /\ (x + n) \div MODULUS \in Nat
        /\ (x + n) % MODULUS \in 0 .. (MODULUS - 1)
        /\ x + n = MODULUS * ((x + n) \div MODULUS) + ((x + n) % MODULUS)
    BY DivMod
  <1>4. x + n = MODULUS * q + z
    BY <1>1, ModulusAssumption
  <1>5. MODULUS * (q + (z \div MODULUS)) = MODULUS * q + MODULUS * (z \div MODULUS)
    BY <1>1, <1>2, Distributes
  <1>6. q + (z \div MODULUS) \in Int
    BY <1>1, <1>2
  <1> HIDE DEF z, q
  <1>7. x + n = MODULUS * (q + (z \div MODULUS)) + (z % MODULUS)
    <2>1. /\ MODULUS * q \in Int
          /\ MODULUS * (z \div MODULUS) \in Int
          /\ z % MODULUS \in Int
      BY <1>1, <1>2, ModulusAssumption
    <2>2. \A a, b, c \in Int : a + (b + c) = (a + b) + c
      OBVIOUS
    <2>3. x + n = MODULUS * q + (MODULUS * (z \div MODULUS) + (z % MODULUS))
      BY <1>2, <1>4, Zenon
    <2>4. MODULUS * q + (MODULUS * (z \div MODULUS) + (z % MODULUS))
            = (MODULUS * q + MODULUS * (z \div MODULUS)) + (z % MODULUS)
      BY <2>1, <2>2, Zenon
    <2>5. QED
      BY <2>3, <2>4, <1>5, Zenon
  <1>8. z % MODULUS = (x + n) % MODULUS
    BY <1>2, <1>3, <1>6, <1>7, RemainderUnique
  <1>9. QED
    BY <1>8 DEF z

LEMMA SeqAddType ==
  ASSUME NEW s \in Nat, NEW n \in Nat
  PROVE  SeqAdd(s, n) \in SeqNos
  BY DivMod, ModulusAssumption DEF SeqAdd, SeqNos, MAX

(* SeqNo::add composes: adding n and then m is adding n + m.               *)
LEMMA SeqAddAdd ==
  ASSUME NEW s \in Nat, NEW n \in Nat, NEW m \in Nat
  PROVE  SeqAdd(SeqAdd(s, n), m) = SeqAdd(s, n + m)
  <1>1. s + n \in Nat /\ (s + n) + m = s + (n + m)
    OBVIOUS
  <1>2. (((s + n) % MODULUS) + m) % MODULUS = ((s + n) + m) % MODULUS
    BY <1>1, ModPlus
  <1>3. QED
    BY <1>1, <1>2 DEF SeqAdd

LEMMA SeqAddZero ==
  ASSUME NEW s \in SeqNos
  PROVE  SeqAdd(s, 0) = s
  BY ModulusAssumption, SMTT(30) DEF SeqAdd, SeqNos, MAX
=============================================================================
