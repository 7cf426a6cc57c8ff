------------------------ MODULE JsonPipeline_proof --------------------------
(***************************************************************************)
(* What the reader hands out and what minify writes, for every width of a  *)
(* word, every size of the buffer and all texts.  First that the arithmetic *)
(* on words of JsonLexer does what a reading character by character does: it *)
(* subtracts with a borrow that runs through a series of backslashes, and a *)
(* prefix of quotes is counted.                                            *)
(***************************************************************************)
EXTENDS JsonPipeline, SequenceTheorems, FiniteSetTheorems, WellFoundedInduction, TLAPS

-----------------------------------------------------------------------------
(* Induction and recursive definitions. *)

(* A set that has 0 and with each number the next one has them all. *)
LEMMA NatInduct ==
  ASSUME NEW S, 0 \in S, \A n \in Nat : n \in S => n + 1 \in S
  PROVE  Nat \subseteq S
<1> DEFINE T == Nat \ S
<1>1. SUFFICES ASSUME T # {} PROVE FALSE OBVIOUS
<1>2. PICK x \in T : \A y \in T : ~(<<y, x>> \in OpToRel(<, Nat))
  BY <1>1, NatLessThanWellFounded, WFMin, Zenon
<1>3. x \in Nat /\ x # 0 /\ x - 1 \in Nat /\ x - 1 < x OBVIOUS
<1>4. x - 1 \in T BY <1>3
<1>5. <<x - 1, x>> \in OpToRel(<, Nat) BY <1>3 DEF OpToRel
<1> QED BY <1>2, <1>4, <1>5

(* The same from 0 up to a bound. *)
LEMMA Climb ==
  ASSUME NEW m \in Nat, NEW S, 0 \in S, \A n \in 0 .. m - 1 : n \in S => n + 1 \in S
  PROVE  0 .. m \subseteq S
<1> DEFINE T == {n \in Nat : n <= m => n \in S}
<1>1. 0 \in T OBVIOUS
<1>2. \A n \in Nat : n \in T => n + 1 \in T OBVIOUS
<1>3. Nat \subseteq T
  <2> HIDE DEF T
  <2> QED BY <1>1, <1>2, NatInduct
<1> QED BY <1>3

(* A function f of m that is computed from 0 on. *)
Recursive(m, a, F, f) == f = [i \in 0 .. m |-> IF i = 0 THEN a ELSE F[i][f[i - 1]]]

(* There is one: a function that is defined by recursion exists. *)
LEMMA RecursiveExists ==
  ASSUME NEW V, NEW a \in V, NEW m \in Nat, NEW F, \A v \in V, i \in 1 .. m : F[i][v] \in V
  PROVE  \E f \in [0 .. m -> V] : Recursive(m, a, F, f)
<1> DEFINE S == {n \in 0 .. m : \E f \in [0 .. n -> V] : Recursive(n, a, F, f)}
<1>1. 0 \in S
  <2> DEFINE g == [i \in 0 .. 0 |-> a]
  <2>1. g \in [0 .. 0 -> V] /\ g = [i \in 0 .. 0 |-> IF i = 0 THEN a ELSE F[i][g[i - 1]]]
    OBVIOUS
  <2> HIDE DEF g
  <2>2. Recursive(0, a, F, g) BY <2>1 DEF Recursive
  <2> QED BY <2>1, <2>2
<1>2. \A n \in 0 .. m - 1 : n \in S => n + 1 \in S
  <2> TAKE n \in 0 .. m - 1
  <2> HAVE n \in S
  <2> PICK f \in [0 .. n -> V] : Recursive(n, a, F, f) OBVIOUS
  <2> DEFINE g == [i \in 0 .. n + 1 |-> IF i <= n THEN f[i] ELSE F[n + 1][f[n]]]
  <2>1. n \in Nat /\ n + 1 \in 1 .. m /\ n \in 0 .. n OBVIOUS
  <2>2. \A i \in 0 .. n : f[i] = IF i = 0 THEN a ELSE F[i][f[i - 1]]
    BY DEF Recursive
  <2>3. F[n + 1][f[n]] \in V BY <2>1
  <2>4. g \in [0 .. n + 1 -> V] BY <2>1, <2>3
  <2>5. \A i \in 0 .. n + 1 : g[i] = IF i = 0 THEN a ELSE F[i][g[i - 1]]
    <3> TAKE i \in 0 .. n + 1
    <3>1. CASE i = 0 BY <3>1, <2>1, <2>2
    <3>2. CASE i \in 1 .. n
      <4>1. g[i] = f[i] /\ g[i - 1] = f[i - 1] /\ i \in 0 .. n BY <3>2, <2>1
      <4> QED BY <4>1, <3>2, <2>2
    <3>3. CASE i = n + 1
      <4>1. g[i] = F[n + 1][f[n]] /\ g[i - 1] = f[n] /\ i # 0 BY <3>3, <2>1
      <4> QED BY <4>1, <3>3
    <3> QED BY <3>1, <3>2, <3>3, <2>1
  <2>6. Recursive(n + 1, a, F, g)
    <3> HIDE DEF g
    <3>1. DOMAIN g = 0 .. n + 1 /\ g = [i \in 0 .. n + 1 |-> g[i]] BY <2>4
    <3> QED BY <3>1, <2>5 DEF Recursive
  <2> QED BY <2>1, <2>4, <2>6
<1>3. 0 .. m \subseteq S
  <2> HIDE DEF S
  <2> QED BY <1>1, <1>2, Climb
<1> QED BY <1>3

-----------------------------------------------------------------------------
(* Numbers and the words that stand for them. *)

Bit(B, i) == IF i \in B THEN 1 ELSE 0

LEMMA WeightIs ==
  /\ Weight[0] = 1
  /\ \A i \in Bits : Weight[i + 1] = 2 * Weight[i]
  /\ \A i \in 0 .. W : Weight[i] \in Nat \ {0}
<1> DEFINE F == [i \in 1 .. W |-> [v \in Nat |-> 2 * v]]
<1>1. W \in Nat BY WidthAssumption
<1>2. \E f : f = [i \in 0 .. W |-> IF i = 0 THEN 1 ELSE 2 * f[i - 1]]
  <2>1. \A v \in Nat, i \in 1 .. W : F[i][v] \in Nat OBVIOUS
  <2>2. 1 \in Nat OBVIOUS
  <2> HIDE DEF F
  <2>3. PICK f \in [0 .. W -> Nat] : Recursive(W, 1, F, f)
    BY <1>1, <2>1, <2>2, RecursiveExists
  <2>4. \A i \in 1 .. W : f[i - 1] \in Nat BY <1>1
  <2>5. \A i \in 1 .. W : F[i][f[i - 1]] = 2 * f[i - 1] BY <2>4 DEF F
  <2>6. f = [i \in 0 .. W |-> IF i = 0 THEN 1 ELSE 2 * f[i - 1]]
    BY <2>3, <2>5, <1>1, SMTT(60) DEF Recursive
  <2> QED BY <2>6
<1>3. Weight = [i \in 0 .. W |-> IF i = 0 THEN 1 ELSE 2 * Weight[i - 1]]
  BY <1>2 DEF Weight
<1>4. Weight[0] = 1 /\ \A i \in Bits : Weight[i + 1] = 2 * Weight[i]
  BY <1>1, <1>3 DEF Bits
<1>5. \A i \in 0 .. W : Weight[i] \in Nat \ {0}
  <2> DEFINE S == {i \in 0 .. W : Weight[i] \in Nat \ {0}}
  <2>1. 0 \in S /\ \A n \in 0 .. W - 1 : n \in S => n + 1 \in S
    BY <1>1, <1>4 DEF Bits
  <2> HIDE DEF S
  <2>2. 0 .. W \subseteq S BY <2>1, <1>1, Climb
  <2> QED BY <2>2 DEF S
<1> QED BY <1>4, <1>5

(* N has the numbers of the lowest bits of B. *)
Sums(B, N) ==
  /\ Number(B) = N[W] /\ N[0] = 0
  /\ \A i \in Bits : N[i + 1] = N[i] + (IF i \in B THEN Weight[i] ELSE 0)
  /\ \A i \in 0 .. W : N[i] \in Nat

LEMMA NumberSums ==
  ASSUME NEW B
  PROVE  \E N : Sums(B, N)
<1> DEFINE Step(v, i) == v + (IF i - 1 \in B THEN Weight[i - 1] ELSE 0)
           F == [i \in 1 .. W |-> [v \in Nat |-> Step(v, i)]]
           N == CHOOSE f : f = [i \in 0 .. W |-> IF i = 0 THEN 0 ELSE Step(f[i - 1], i)]
<1>1. W \in Nat BY WidthAssumption
<1>2. \A v \in Nat, i \in 1 .. W : Step(v, i) \in Nat BY WeightIs, <1>1
<1>3. \E f : f = [i \in 0 .. W |-> IF i = 0 THEN 0 ELSE Step(f[i - 1], i)]
  <2> HIDE DEF Step
  <2>1. \A v \in Nat, i \in 1 .. W : F[i][v] \in Nat BY <1>2
  <2>2. 0 \in Nat OBVIOUS
  <2> HIDE DEF F
  <2>3. PICK f \in [0 .. W -> Nat] : Recursive(W, 0, F, f)
    BY <1>1, <2>1, <2>2, RecursiveExists
  <2>4. \A i \in 1 .. W : f[i - 1] \in Nat BY <1>1
  <2>5. \A i \in 1 .. W : F[i][f[i - 1]] = Step(f[i - 1], i) BY <2>4 DEF F
  <2>6. f = [i \in 0 .. W |-> IF i = 0 THEN 0 ELSE Step(f[i - 1], i)]
    BY <2>3, <2>5, <1>1 DEF Recursive
  <2> QED BY <2>6
<1>4. Number(B) = N[W] BY DEF Number
<1>5. N = [i \in 0 .. W |-> IF i = 0 THEN 0 ELSE Step(N[i - 1], i)]
  <2> HIDE DEF Step
  <2> QED BY <1>3
<1> HIDE DEF N
<1>6. N[0] = 0 /\ \A i \in Bits : N[i + 1] = N[i] + (IF i \in B THEN Weight[i] ELSE 0)
  <2>1. \A i \in Bits : N[i + 1] = Step(N[i], i + 1)
    <3> HIDE DEF Step
    <3> QED BY <1>1, <1>5 DEF Bits
  <2>2. \A i \in Bits : (i + 1) - 1 = i BY <1>1 DEF Bits
  <2>3. N[0] = 0
    <3> HIDE DEF Step
    <3> QED BY <1>1, <1>5
  <2> QED BY <2>1, <2>2, <2>3
<1>7. \A i \in 0 .. W : N[i] \in Nat
  <2> DEFINE S == {i \in 0 .. W : N[i] \in Nat}
  <2>1. 0 \in S BY <1>1, <1>6
  <2>2. \A n \in 0 .. W - 1 : n \in S => n + 1 \in S
    BY <1>1, <1>6, WeightIs DEF Bits
  <2> HIDE DEF S
  <2>3. 0 .. W \subseteq S BY <2>1, <2>2, <1>1, Climb
  <2> QED BY <2>3 DEF S
<1> QED BY <1>4, <1>6, <1>7 DEF Sums

(* Division leaves what is below the divisor. *)
LEMMA Euclid ==
  ASSUME NEW m \in Nat \ {0}, NEW a \in 0 .. m - 1, NEW q \in Int
  PROVE  (a + q * m) \div m = q /\ (a + q * m) % m = a
<1>1. a + q * m \in Int /\ m > 0 OBVIOUS
<1>2. (a + q * m) \div m = q BY <1>1
<1>3. (a + q * m) % m = a BY <1>1
<1> QED BY <1>2, <1>3

(* The number of the i lowest bits is less than the weight of bit i. *)
LEMMA SumsBelow ==
  ASSUME NEW B, NEW N, Sums(B, N)
  PROVE  \A i \in 0 .. W : N[i] < Weight[i]
<1> DEFINE S == {i \in 0 .. W : N[i] < Weight[i]}
<1>1. W \in Nat BY WidthAssumption
<1>2. 0 \in S BY <1>1, WeightIs DEF Sums
<1>3. \A n \in 0 .. W - 1 : n \in S => n + 1 \in S
  <2> TAKE n \in 0 .. W - 1
  <2> HAVE n \in S
  <2>1. n \in Bits /\ n \in 0 .. W /\ n + 1 \in 0 .. W BY <1>1 DEF Bits
  <2>2. N[n] \in Nat /\ Weight[n] \in Nat /\ N[n] < Weight[n] /\ Weight[n + 1] = 2 * Weight[n]
    BY <2>1, WeightIs DEF Sums
  <2>3. N[n + 1] = N[n] + (IF n \in B THEN Weight[n] ELSE 0) BY <2>1 DEF Sums
  <2>4. N[n + 1] < Weight[n + 1] BY <2>2, <2>3
  <2> QED BY <2>1, <2>4
<1> HIDE DEF S
<1>4. 0 .. W \subseteq S BY <1>1, <1>2, <1>3, Climb
<1> QED BY <1>4 DEF S

(* What the bits from i on add is a multiple of the weight of bit i. *)
LEMMA SumsAbove ==
  ASSUME NEW B, NEW N, Sums(B, N), NEW i \in 0 .. W
  PROVE  \E q \in Nat : N[W] = N[i] + q * Weight[i]
<1> DEFINE w == Weight[i]
           Holds(k) == \E q, p \in Nat : N[i + k] = N[i] + q * w /\ Weight[i + k] = p * w
           S == {k \in 0 .. W - i : Holds(k)}
<1>1. W \in Nat /\ i \in Nat /\ W - i \in Nat /\ w \in Nat /\ N[i] \in Nat
  BY WidthAssumption, WeightIs DEF Sums
<1>2. 0 \in S
  <2>1. N[i + 0] = N[i] + 0 * w /\ Weight[i + 0] = 1 * w BY <1>1
  <2> QED BY <2>1, <1>1
<1>3. \A k \in 0 .. (W - i) - 1 : k \in S => k + 1 \in S
  <2> TAKE k \in 0 .. (W - i) - 1
  <2> HAVE k \in S
  <2>1. PICK q \in Nat, p \in Nat : N[i + k] = N[i] + q * w /\ Weight[i + k] = p * w
    OBVIOUS
  <2>2. i + k \in Bits /\ k + 1 \in 0 .. W - i /\ (i + k) + 1 = i + (k + 1)
    BY <1>1 DEF Bits
  <2>3. Weight[i + (k + 1)] = (2 * p) * w
    <3>1. Weight[i + (k + 1)] = 2 * (p * w) BY <2>1, <2>2, WeightIs
    <3> QED BY <3>1, <1>1
  <2>4. N[i + (k + 1)] = N[i + k] + (IF i + k \in B THEN Weight[i + k] ELSE 0)
    BY <2>2 DEF Sums
  <2>5. \E r \in Nat : N[i + (k + 1)] = N[i] + r * w
    <3>1. CASE i + k \in B
      <4>1. N[i + (k + 1)] = N[i] + (q + p) * w BY <3>1, <2>1, <2>4, <1>1
      <4> QED BY <4>1
    <3>2. CASE i + k \notin B
      <4>1. N[i + (k + 1)] = N[i] + q * w BY <3>2, <2>1, <2>4, <1>1
      <4> QED BY <4>1
    <3> QED BY <3>1, <3>2
  <2>6. 2 * p \in Nat OBVIOUS
  <2> HIDE DEF w
  <2>7. Holds(k + 1) BY <2>3, <2>5, <2>6
  <2> QED BY <2>7, <2>2
<1>4. W - i \in S
  <2> HIDE DEF S
  <2>1. 0 .. W - i \subseteq S BY <1>1, <1>2, <1>3, Climb
  <2> QED BY <2>1, <1>1
<1>5. i + (W - i) = W BY <1>1
<1> QED BY <1>4, <1>5

(* The word of the number of a word is that word. *)
LEMMA WordOfNumber ==
  ASSUME NEW R \in SUBSET Bits
  PROVE  Word(Number(R)) = R /\ Number(R) \in 0 .. Weight[W] - 1
<1>1. PICK N : Sums(R, N) BY NumberSums
<1>2. W \in Nat /\ W \in 0 .. W BY WidthAssumption
<1>3. Number(R) \in 0 .. Weight[W] - 1
  <2>1. N[W] \in Nat /\ N[W] < Weight[W] /\ Weight[W] \in Nat /\ Number(R) = N[W]
    BY <1>1, <1>2, SumsBelow, WeightIs DEF Sums
  <2> QED BY <2>1
<1>4. \A i \in Bits : (Number(R) \div Weight[i]) % 2 = Bit(R, i)
  <2> TAKE i \in Bits
  <2> DEFINE w == Weight[i]
             b == Bit(R, i)
  <2>1. i \in 0 .. W /\ i + 1 \in 0 .. W BY <1>2 DEF Bits
  <2>2. w \in Nat \ {0} /\ N[i] \in 0 .. w - 1 /\ Weight[i + 1] = 2 * w
    BY <2>1, <1>1, WeightIs, SumsBelow DEF Sums
  <2>3. PICK q \in Nat : N[W] = N[i + 1] + q * Weight[i + 1]
    BY <2>1, <1>1, SumsAbove
  <2>4. N[i + 1] = N[i] + b * w BY <1>1, <2>2 DEF Sums, Bit
  <2>5. b \in {0, 1} BY DEF Bit
  <2> HIDE DEF b, w
  <2>6. N[W] = N[i] + (b + 2 * q) * w BY <2>2, <2>3, <2>4, <2>5, SMTT(30)
  <2>7. N[W] \div w = b + 2 * q
    <3>1. b + 2 * q \in Int BY <2>5
    <3> QED BY <3>1, <2>2, <2>6, Euclid, SMTT(60)
  <2>8. (b + 2 * q) % 2 = b BY <2>5
  <2>9. Number(R) = N[W] BY <1>1 DEF Sums
  <2>10. (Number(R) \div w) % 2 = b BY <2>7, <2>8, <2>9
  <2> QED BY <2>10 DEF w, b
<1>5. Word(Number(R)) = R BY <1>4 DEF Word, Bit
<1> QED BY <1>3, <1>5

(* Bit by bit, c has what is borrowed. *)
Borrows(A, B, R, c) ==
  /\ c[0] = 0 /\ \A i \in 0 .. W : c[i] \in {0, 1}
  /\ \A i \in Bits : Bit(A, i) - Bit(B, i) - c[i] = Bit(R, i) - 2 * c[i + 1]

LEMMA OneBit ==
  ASSUME NEW w \in Nat, NEW x \in Nat, NEW y \in Nat, NEW z \in Nat,
         NEW a \in {0, 1}, NEW b \in {0, 1}, NEW r \in {0, 1}, NEW k \in {0, 1}, NEW d \in {0, 1},
         a - b - k = r - 2 * d, x - y = z - k * w
  PROVE  (x + a * w) - (y + b * w) = (z + r * w) - d * (2 * w)
<1>1. (x + a * w) - (y + b * w) = (x - y) + (a - b) * w OBVIOUS
<1>2. a - b = k + r - 2 * d OBVIOUS
<1>3. (x - y) + (a - b) * w = z - k * w + (k + r - 2 * d) * w BY <1>2
<1>4. z - k * w + (k + r - 2 * d) * w = (z + r * w) - d * (2 * w) OBVIOUS
<1> QED BY <1>1, <1>3, <1>4

(* The difference of two words is what a subtraction from bit to bit with a *)
(* borrow leaves; what is borrowed behind the last bit is lost *)
(* (calc_backslash). *)
THEOREM Subtraction ==
  ASSUME NEW A, NEW B, NEW R \in SUBSET Bits, NEW c, Borrows(A, B, R, c)
  PROVE  Minus(A, B) = R
<1>1. PICK NA : Sums(A, NA) BY NumberSums
<1>2. PICK NB : Sums(B, NB) BY NumberSums
<1>3. PICK NR : Sums(R, NR) BY NumberSums
<1>4. W \in Nat /\ W \in 0 .. W BY WidthAssumption
<1> DEFINE S == {i \in 0 .. W : NA[i] - NB[i] = NR[i] - c[i] * Weight[i]}
<1>5. 0 \in S BY <1>1, <1>2, <1>3, <1>4, WeightIs DEF Sums, Borrows
<1>6. \A n \in 0 .. W - 1 : n \in S => n + 1 \in S
  <2> TAKE n \in 0 .. W - 1
  <2> HAVE n \in S
  <2> DEFINE w == Weight[n]
  <2>1. n \in Bits /\ n \in 0 .. W /\ n + 1 \in 0 .. W BY <1>4 DEF Bits
  <2>2. w \in Nat /\ Weight[n + 1] = 2 * w BY <2>1, WeightIs
  <2>3. c[n] \in {0, 1} /\ c[n + 1] \in {0, 1} BY <2>1 DEF Borrows
  <2>4. Bit(A, n) - Bit(B, n) - c[n] = Bit(R, n) - 2 * c[n + 1]
    BY <2>1 DEF Borrows
  <2>5. NA[n] \in Nat /\ NB[n] \in Nat /\ NR[n] \in Nat
    BY <2>1, <1>1, <1>2, <1>3 DEF Sums
  <2>6. NA[n + 1] = NA[n] + Bit(A, n) * w BY <2>1, <2>2, <1>1 DEF Sums, Bit
  <2>7. NB[n + 1] = NB[n] + Bit(B, n) * w BY <2>1, <2>2, <1>2 DEF Sums, Bit
  <2>8. NR[n + 1] = NR[n] + Bit(R, n) * w BY <2>1, <2>2, <1>3 DEF Sums, Bit
  <2>9. NA[n] - NB[n] = NR[n] - c[n] * w OBVIOUS
  <2> HIDE DEF w, S
  <2>10. NA[n + 1] - NB[n + 1] = NR[n + 1] - c[n + 1] * (2 * w)
    <3>1. Bit(A, n) \in {0, 1} /\ Bit(B, n) \in {0, 1} /\ Bit(R, n) \in {0, 1}
      BY DEF Bit
    <3> QED BY <3>1, <2>2, <2>3, <2>4, <2>5, <2>6, <2>7, <2>8, <2>9, OneBit
  <2> QED BY <2>1, <2>2, <2>10 DEF S
<1>7. NA[W] - NB[W] = NR[W] - c[W] * Weight[W]
  <2> HIDE DEF S
  <2>1. 0 .. W \subseteq S BY <1>4, <1>5, <1>6, Climb
  <2> QED BY <2>1, <1>4 DEF S
<1>8. (Number(A) - Number(B)) % Weight[W] = Number(R)
  <2>1. Number(A) - Number(B) = Number(R) + (0 - c[W]) * Weight[W]
    <3>1. c[W] \in {0, 1} /\ Weight[W] \in Nat /\ NR[W] \in Nat
      BY <1>3, <1>4, WeightIs DEF Borrows, Sums
    <3> QED BY <3>1, <1>1, <1>2, <1>3, <1>7 DEF Sums
  <2>2. Number(R) \in 0 .. Weight[W] - 1 BY WordOfNumber
  <2>3. Weight[W] \in Nat \ {0} /\ 0 - c[W] \in Int
    BY <1>4, WeightIs DEF Borrows
  <2> QED BY <2>1, <2>2, <2>3, Euclid
<1> QED BY <1>8, WordOfNumber DEF Minus

-----------------------------------------------------------------------------
(* Runs of backslashes, and quotes. *)

(* X has the places that are escaped, when e says whether the first is and *)
(* B has the backslashes. *)
Escapes(B, e, X) == (0 \in X <=> 0 \in e) /\ \A i \in Bits : i + 1 \in X <=> (i \in B /\ i \notin X)

(* The subtraction borrows through a run of backslashes that begins at an *)
(* even place: what is set behind it tells whether its length is odd. *)
LEMMA Backslashes ==
  ASSUME NEW B \in SUBSET Bits, NEW e \in SUBSET {0}, NEW X, Escapes(B, e, X)
  PROVE  CalcBackslash(B \ e) = Xor((X \cap Bits) \ {0}, B \ e)
<1> DEFINE P == B \ e
           C == Xor((X \cap Bits) \ {0}, P)
           R == Xor(C, OddBits)
           A == ShiftLeft(P) \cup OddBits
           Borrowed(i) == i # 0 /\ i - 1 \in P /\ (i \in X <=> i % 2 = 1)
           c == [i \in 0 .. W |-> IF Borrowed(i) THEN 1 ELSE 0]
<1>1. W \in Nat \ {0} /\ \A i \in Bits : i \in Nat /\ i + 1 \in 0 .. W /\ i \in 0 .. W /\ (i + 1) - 1 = i /\ i + 1 # 0
  BY WidthAssumption DEF Bits
<1>2. R \in SUBSET Bits /\ C \in SUBSET Bits /\ P \in SUBSET Bits
  BY DEF Xor, OddBits
<1>3. \A i \in Bits : i # 0 /\ i - 1 \notin P => i \notin X
  <2> TAKE i \in Bits
  <2> HAVE i # 0 /\ i - 1 \notin P
  <2>1. i - 1 \in Bits /\ (i - 1) + 1 = i BY WidthAssumption DEF Bits
  <2>2. i \in X <=> (i - 1 \in B /\ i - 1 \notin X) BY <2>1 DEF Escapes
  <2>3. i - 1 \in e => i - 1 = 0 OBVIOUS
  <2>4. i - 1 \in e => i - 1 \in X BY <2>3 DEF Escapes
  <2> QED BY <2>2, <2>4
<1>4. \A i \in Bits : i \in A <=> ((i # 0 /\ i - 1 \in P) \/ i % 2 = 1)
  <2> TAKE i \in Bits
  <2>1. i \in ShiftLeft(P) <=> (i # 0 /\ i - 1 \in P)
    <3>1. i \in ShiftLeft(P) <=> \E j \in P : i = j + 1 BY DEF ShiftLeft
    <3>2. (\E j \in P : i = j + 1) => i # 0 /\ i - 1 \in P BY <1>1, <1>2
    <3>3. i # 0 /\ i - 1 \in P => i = (i - 1) + 1 BY <1>1
    <3> QED BY <3>1, <3>2, <3>3
  <2> QED BY <2>1 DEF OddBits
<1>5. \A i \in Bits : (i + 1 \in X <=> (i \in B /\ i \notin X)) BY DEF Escapes
<1>6. \A i \in Bits : i \in P => ((i + 1 \in X) <=> (i = 0 \/ i \notin X))
  BY <1>5 DEF Escapes
<1>7. \A i \in Bits : (i + 1) % 2 = 1 <=> ~(i % 2 = 1) BY <1>1
<1>8. \A i \in Bits : i \in R <=> ~((~((i # 0 /\ i \in X) <=> i \in P)) <=> i % 2 = 1)
  BY DEF Xor, OddBits
<1>9. Borrows(A, P, R, c)
  <2>1. c[0] = 0 /\ \A i \in 0 .. W : c[i] \in {0, 1} BY <1>1
  <2>2. \A i \in Bits : Bit(A, i) - Bit(P, i) - c[i] = Bit(R, i) - 2 * c[i + 1]
    <3> TAKE i \in Bits
    <3>1. c[i] = IF Borrowed(i) THEN 1 ELSE 0 BY <1>1
    <3>2. c[i + 1] = IF i \in P /\ (i + 1 \in X <=> ~(i % 2 = 1)) THEN 1 ELSE 0
      BY <1>1, <1>7
    <3>3. i % 2 = 1 /\ i = 0 => FALSE OBVIOUS
    <3> HIDE DEF c, A, P, R
    <3> QED BY <3>1, <3>2, <3>3, <1>3, <1>4, <1>6, <1>8 DEF Bit
  <2> HIDE DEF c
  <2> QED BY <2>1, <2>2 DEF Borrows
<1>10. Minus(A, P) = R
  <2> HIDE DEF A, P, R, c
  <2> QED BY <1>2, <1>9, Subtraction
<1>11. Xor(R, OddBits) = C BY <1>2 DEF Xor
<1> QED BY <1>10, <1>11 DEF CalcBackslash

(* The characters that are escaped are found, and whether the first one of *)
(* the next block is. *)
LEMMA EscapedIs ==
  ASSUME NEW B \in SUBSET Bits, NEW e \in SUBSET {0}, NEW X, Escapes(B, e, X)
  PROVE  /\ Escaped(B, e).chars = X \cap Bits
         /\ Escaped(B, e).carry = IF W \in X THEN {0} ELSE NoBits
<1>1. W \in Nat /\ 0 \in Bits /\ W - 1 \in Bits /\ W - 1 # 0 /\ (W - 1) + 1 = W
  BY WidthAssumption DEF Bits
<1>2. \A i \in Bits : i \in Nat /\ (i # 0 => i - 1 \in Bits /\ (i - 1) + 1 = i)
  BY <1>1 DEF Bits
<1>3. CASE B = NoBits
  <2>1. Escaped(B, e) = [chars |-> e, carry |-> NoBits] BY <1>3 DEF Escaped
  <2>2. \A i \in Bits : i + 1 \notin X BY <1>3 DEF Escapes, NoBits
  <2>3. \A i \in Bits : i \in X <=> i \in e BY <2>2, <1>2 DEF Escapes
  <2>4. W \notin X BY <2>2, <1>1
  <2>5. X \cap Bits = e BY <2>3, <1>1
  <2> QED BY <2>1, <2>4, <2>5
<1>4. CASE B # NoBits
  <2> DEFINE code == CalcBackslash(B \ e)
  <2>1. Escaped(B, e) = [chars |-> Xor(code, B \cup e), carry |-> Top(code \cap B)]
    BY <1>4 DEF Escaped
  <2>2. code = Xor((X \cap Bits) \ {0}, B \ e) BY Backslashes
  <2> HIDE DEF code
  <2>3. Xor(code, B \cup e) = X \cap Bits
    <3>1. \A i : i \in e => i = 0 OBVIOUS
    <3>2. 0 \in X <=> 0 \in e BY DEF Escapes
    <3>3. \A i : i \in Xor(code, B \cup e) <=> i \in X \cap Bits
      <4> TAKE i
      <4>1. CASE i = 0 BY <4>1, <3>2, <2>2, <1>1 DEF Xor
      <4>2. CASE i # 0 BY <4>2, <3>1, <2>2 DEF Xor
      <4> QED BY <4>1, <4>2
    <3> QED BY <3>3
  <2>4. W - 1 \in code \cap B <=> W \in X
    <3>1. W \in X <=> (W - 1 \in B /\ W - 1 \notin X) BY <1>1 DEF Escapes
    <3>2. W - 1 \notin e BY <1>1
    <3> QED BY <3>1, <3>2, <2>2, <1>1 DEF Xor
  <2> QED BY <2>1, <2>3, <2>4, SMTT(60) DEF Top
<1> QED BY <1>3, <1>4

(* T has the places that are in a string, when Q has the quotes. *)
Strings(Q, T) == \A i \in Bits : i + 1 \in T <=> ~(i \in T <=> i \in Q)

(* Behind an odd number of quotes one is on the other side. *)
LEMMA PrefixIs ==
  ASSUME NEW Q \in SUBSET Bits, NEW T, Strings(Q, T)
  PROVE  \A i \in Bits : i \in PrefixXor(Q) <=> ~(i + 1 \in T <=> 0 \in T)
<1> DEFINE Below(k) == {j \in Q : j < k}
           Odd(k) == Cardinality(Below(k)) % 2 = 1
           S == {k \in 0 .. W : IsFiniteSet(Below(k)) /\ (Odd(k) <=> ~(k \in T <=> 0 \in T))}
<1>1. W \in Nat /\ \A i \in Bits : i \in Nat /\ i + 1 \in 0 .. W
  BY WidthAssumption DEF Bits
<1>2. 0 \in S
  <2>1. Below(0) = {} BY <1>1
  <2>2. IsFiniteSet(Below(0)) /\ Cardinality(Below(0)) = 0 BY <2>1, FS_EmptySet
  <2>3. ~Odd(0) BY <2>2
  <2> QED BY <2>2, <2>3, <1>1
<1>3. \A n \in 0 .. W - 1 : n \in S => n + 1 \in S
  <2> TAKE n \in 0 .. W - 1
  <2> HAVE n \in S
  <2>1. n \in Bits /\ n \in Nat /\ n + 1 \in 0 .. W BY <1>1 DEF Bits
  <2>2. IsFiniteSet(Below(n)) /\ (Odd(n) <=> ~(n \in T <=> 0 \in T)) OBVIOUS
  <2>3. n + 1 \in T <=> ~(n \in T <=> n \in Q) BY <2>1 DEF Strings
  <2>4. Cardinality(Below(n)) \in Nat BY <2>2, FS_CardinalityType
  <2>9. \A j \in Q : j < n + 1 <=> j < n \/ j = n
    <3>1. \A j \in Q : j \in Nat BY <1>1
    <3> QED BY <3>1, <2>1
  <2>5. CASE n \in Q
    <3>1. Below(n + 1) = Below(n) \cup {n} BY <2>5, <2>9
    <3>4. n \notin Below(n) BY <2>1
    <3>2. IsFiniteSet(Below(n + 1)) /\ Cardinality(Below(n + 1)) = Cardinality(Below(n)) + 1
      <4> HIDE DEF Below
      <4> QED BY <3>1, <3>4, <2>2, FS_AddElement
    <3>3. Odd(n + 1) <=> ~Odd(n)
      <4> HIDE DEF Below
      <4> QED BY <3>2, <2>4
    <3> HIDE DEF Odd, Below
    <3> QED BY <2>1, <2>2, <2>3, <2>5, <3>2, <3>3
  <2>6. CASE n \notin Q
    <3>1. Below(n + 1) = Below(n) BY <2>6, <2>9
    <3> HIDE DEF Below
    <3> QED BY <2>1, <2>2, <2>3, <2>6, <3>1
  <2> QED BY <2>5, <2>6
<1>4. \A k \in 0 .. W : Odd(k) <=> ~(k \in T <=> 0 \in T)
  <2> HIDE DEF S
  <2>1. 0 .. W \subseteq S BY <1>1, <1>2, <1>3, Climb
  <2> HIDE DEF Odd
  <2> QED BY <2>1 DEF S
<1>5. \A i \in Bits : {j \in Q : j <= i} = Below(i + 1) BY <1>1
<1>6. \A i \in Bits : i \in PrefixXor(Q) <=> Odd(i + 1)
  <2> HIDE DEF Below
  <2> QED BY <1>5 DEF PrefixXor
<1> HIDE DEF Odd
<1> QED BY <1>1, <1>4, <1>6

-----------------------------------------------------------------------------
(* One block. *)

State == [inString : BOOLEAN, escaped : BOOLEAN, delimited : BOOLEAN]

(* The states st are those of a reading of block. *)
Reading(block, st) ==
  /\ \A i \in 0 .. W : st[i] \in State
  /\ \A i \in Bits : st[i + 1] = After(st[i], block[i + 1])

(* The carry c stands for state s. *)
Carries(c, s) ==
  /\ c.inString = IF s.inString THEN Bits ELSE NoBits
  /\ c.isEscape = IF s.escaped THEN {0} ELSE NoBits
  /\ W - 1 \in c.isSpace <=> s.delimited

LEMMA AfterIs ==
  ASSUME NEW s \in State, NEW c
  PROVE  /\ After(s, c) \in State
         /\ After(s, c).inString <=> ~(s.inString <=> (c = "quote" /\ ~s.escaped))
         /\ After(s, c).escaped <=> (c = "backslash" /\ ~s.escaped)
         /\ After(s, c).delimited <=> c \in {"structural", "space"}
<1> DEFINE in == IF c = "quote" /\ ~s.escaped THEN ~s.inString ELSE s.inString
           es == c = "backslash" /\ ~s.escaped
           de == c \in {"structural", "space"}
<1>1. s.inString \in BOOLEAN /\ s.escaped \in BOOLEAN BY DEF State
<1>2. in <=> ~(s.inString <=> (c = "quote" /\ ~s.escaped)) BY <1>1
<1>3. in \in BOOLEAN /\ es \in BOOLEAN /\ de \in BOOLEAN
  <2>1. in \in BOOLEAN BY <1>1
  <2>2. es \in BOOLEAN BY Zenon
  <2>3. de \in BOOLEAN OBVIOUS
  <2> HIDE DEF in, es, de
  <2> QED BY <2>1, <2>2, <2>3
<1>4. After(s, c) = [inString |-> in, escaped |-> es, delimited |-> de]
  BY DEF After
<1>5. es <=> (c = "backslash" /\ ~s.escaped) OBVIOUS
<1>6. de <=> c \in {"structural", "space"} OBVIOUS
<1> HIDE DEF in, es, de
<1>7. After(s, c) \in State BY <1>3, <1>4 DEF State
<1>8. After(s, c).inString = in /\ After(s, c).escaped = es /\ After(s, c).delimited = de
  BY <1>4
<1> QED BY <1>2, <1>5, <1>6, <1>7, <1>8

LEMMA StartIs == Start \in State /\ Carries(FirstCarry, Start)
<1>1. W - 1 \in Bits BY WidthAssumption DEF Bits
<1> QED BY <1>1 DEF Start, State, Carries, FirstCarry

(* The tokens of a block are those a reading of its characters finds, from *)
(* the state the carry stands for; so are the characters to be kept; and *)
(* the next carry stands for the state behind the block. *)
BlockReads(block, b, st) ==
  /\ b.tokens = {i \in Bits : IsToken(st[i], block[i + 1])}
  /\ b.kept = {i \in Bits : IsKept(st[i], block[i + 1])}
  /\ Carries(b.carry, st[W])

LEMMA BlockIs ==
  ASSUME NEW block, NEW was, NEW st, Reading(block, st), Carries(was, st[0])
  PROVE  BlockReads(block, Block(block, was), st)
<1> DEFINE B == Class(block, "backslash")
           X == {i \in 0 .. W : st[i].escaped}
           escaped == Escaped(B, was.isEscape)
           quotes == Class(block, "quote") \ escaped.chars
           T == {i \in 0 .. W : st[i].inString}
           string == Xor(PrefixXor(quotes), was.inString)
           white == Class(block, "space")
           spaces == Class(block, "structural") \cup white
           follows == ShiftIn(spaces, was.isSpace)
           tokens == ((Class(block, "structural") \cup (follows \ white)) \ string) \cup quotes
           kept == Bits \ (white \ (string \cup quotes))
           rest == [inString |-> IF W - 1 \in string THEN Bits ELSE NoBits,
                    isEscape |-> escaped.carry, isSpace |-> spaces]
<1>1. W \in Nat /\ 0 \in Bits /\ W \in 0 .. W /\ 0 \in 0 .. W /\ W - 1 \in Bits /\ (W - 1) + 1 = W
  BY WidthAssumption DEF Bits
<1>2. \A i \in Bits : i \in 0 .. W /\ i + 1 \in 0 .. W BY <1>1 DEF Bits
<1>3. \A i \in Bits : st[i] \in State /\ st[i + 1] = After(st[i], block[i + 1])
  BY <1>2 DEF Reading
<1>4. \A i \in Bits : i \in X <=> st[i].escaped BY <1>2
<1>5. \A i \in Bits : i + 1 \in X <=> (i \in B /\ i \notin X)
  BY <1>2, <1>3, AfterIs DEF Class
<1>6. W \in X <=> st[W].escaped BY <1>1
<1>7. Escapes(B, was.isEscape, X)
  <2>1. 0 \in X <=> 0 \in was.isEscape BY <1>1 DEF Carries, NoBits
  <2> HIDE DEF X, B
  <2> QED BY <2>1, <1>5 DEF Escapes
<1>8. escaped.chars = X \cap Bits /\ escaped.carry = IF W \in X THEN {0} ELSE NoBits
  <2>1. B \in SUBSET Bits /\ was.isEscape \in SUBSET {0}
    BY DEF Class, Carries, NoBits
  <2> HIDE DEF X, B
  <2> QED BY <2>1, <1>7, EscapedIs
<1>9. \A i \in Bits : i \in quotes <=> (block[i + 1] = "quote" /\ ~st[i].escaped)
  BY <1>4, <1>8 DEF Class
<1>10. quotes \in SUBSET Bits BY DEF Class
<1> HIDE DEF X, B, escaped, quotes
<1>11. \A i \in Bits : i \in T <=> st[i].inString BY <1>2
<1>12. W \in T <=> st[W].inString BY <1>1
<1>13. \A i \in Bits : i + 1 \in T <=> st[i + 1].inString BY <1>2
<1>14. Strings(quotes, T)
  <2>1. \A i \in Bits : st[i + 1].inString <=> ~(st[i].inString <=> (block[i + 1] = "quote" /\ ~st[i].escaped))
    BY <1>3, AfterIs
  <2> HIDE DEF T
  <2> QED BY <2>1, <1>9, <1>11, <1>13 DEF Strings
<1>15. \A i \in Bits : i \in string <=> i + 1 \in T
  <2>1. \A i \in Bits : i \in was.inString <=> 0 \in T
    BY <1>1, <1>11 DEF Carries, NoBits
  <2>2. \A i \in Bits : i \in PrefixXor(quotes) <=> ~(i + 1 \in T <=> 0 \in T)
    BY <1>10, <1>14, PrefixIs
  <2> HIDE DEF T
  <2> QED BY <2>1, <2>2 DEF Xor
<1> HIDE DEF T, string
<1>16. \A i \in Bits : i \notin quotes => (i \in string <=> st[i].inString)
  BY <1>11, <1>14, <1>15 DEF Strings
<1>17. \A i \in Bits : i \in white <=> block[i + 1] = "space" BY DEF Class
<1>18. \A i \in Bits : i \in spaces <=> block[i + 1] \in {"structural", "space"}
  BY DEF Class
<1>19. \A i \in Bits : i \in follows <=> st[i].delimited
  <2> TAKE i \in Bits
  <2>1. CASE i = 0
    <3>1. i \notin ShiftLeft(spaces) BY <2>1 DEF ShiftLeft, Class, Bits
    <3>2. i \in Top(was.isSpace) <=> st[0].delimited
      BY <2>1 DEF Top, Carries, NoBits
    <3> QED BY <2>1, <3>1, <3>2 DEF ShiftIn
  <2>2. CASE i # 0
    <3>1. i - 1 \in Bits /\ (i - 1) + 1 = i BY <2>2, <1>1 DEF Bits
    <3>2. i \in ShiftLeft(spaces) <=> i - 1 \in spaces
      <4>1. spaces \in SUBSET Bits /\ \A j \in Bits : j \in Int /\ (j + 1 = i => j = i - 1)
        BY <1>1 DEF Class, Bits
      <4> HIDE DEF spaces
      <4> QED BY <3>1, <4>1 DEF ShiftLeft
    <3>3. i \notin Top(was.isSpace) BY <2>2 DEF Top, NoBits
    <3>4. st[i].delimited <=> block[(i - 1) + 1] \in {"structural", "space"}
      BY <3>1, <1>3, AfterIs
    <3> HIDE DEF spaces
    <3> QED BY <3>1, <3>2, <3>3, <3>4, <1>18 DEF ShiftIn
  <2> QED BY <2>1, <2>2
<1>20. \A i \in Bits : i \in Class(block, "structural") <=> block[i + 1] = "structural"
  BY DEF Class
<1>21. tokens = {i \in Bits : IsToken(st[i], block[i + 1])}
  <2>1. tokens \in SUBSET Bits
    <3>1. follows \in SUBSET Bits BY <1>1 DEF ShiftIn, ShiftLeft, Top, NoBits
    <3> QED BY <3>1, <1>10 DEF Class
  <2>2. \A i \in Bits : i \in tokens <=> IsToken(st[i], block[i + 1])
    <3> HIDE DEF follows, white
    <3> QED BY <1>9, <1>16, <1>17, <1>19, <1>20 DEF IsToken
  <2> HIDE DEF tokens
  <2> QED BY <2>1, <2>2
<1>22. kept = {i \in Bits : IsKept(st[i], block[i + 1])}
  <2>1. \A i \in Bits : i \in kept <=> IsKept(st[i], block[i + 1])
    <3> HIDE DEF white
    <3> QED BY <1>9, <1>16, <1>17 DEF IsKept
  <2> QED BY <2>1
<1>23. Carries(rest, st[W])
  <2>1. W - 1 \in string <=> st[W].inString BY <1>1, <1>12, <1>15
  <2>2. W - 1 \in spaces <=> st[W].delimited
    <3>1. st[W].delimited <=> block[W] \in {"structural", "space"}
      BY <1>1, <1>3, AfterIs
    <3> HIDE DEF spaces
    <3> QED BY <3>1, <1>1, <1>18
  <2> HIDE DEF spaces
  <2> QED BY <2>1, <2>2, <1>6, <1>8 DEF Carries
<1>24. Block(block, was) = [tokens |-> tokens, kept |-> kept, carry |-> rest]
  BY DEF Block, B, escaped, quotes, string
<1> HIDE DEF tokens, kept, rest
<1> QED BY <1>21, <1>22, <1>23, <1>24 DEF BlockReads

-----------------------------------------------------------------------------
(* A reading of a text, and places in order. *)

(* at are the states of a reading of chars from s on. *)
FromState(s, chars, at) ==
  /\ at[0] = s
  /\ \A i \in 1 .. Len(chars) : at[i] = After(at[i - 1], chars[i])
  /\ \A i \in 0 .. Len(chars) : at[i] \in State

LEMMA StatesFromIs ==
  ASSUME NEW s \in State, NEW chars, Len(chars) \in Nat
  PROVE  FromState(s, chars, StatesFrom(s, chars))
<1> DEFINE n == Len(chars)
           F == [i \in 1 .. n |-> [v \in State |-> After(v, chars[i])]]
           at == CHOOSE f : f = [i \in 0 .. n |-> IF i = 0 THEN s ELSE After(f[i - 1], chars[i])]
<1>1. \E f : f = [i \in 0 .. n |-> IF i = 0 THEN s ELSE After(f[i - 1], chars[i])]
  <2>1. \A v \in State, i \in 1 .. n : F[i][v] \in State BY AfterIs
  <2> HIDE DEF F
  <2>2. PICK f \in [0 .. n -> State] : Recursive(n, s, F, f)
    BY <2>1, RecursiveExists
  <2>3. \A i \in 1 .. n : f[i - 1] \in State OBVIOUS
  <2>4. \A i \in 1 .. n : F[i][f[i - 1]] = After(f[i - 1], chars[i])
    BY <2>3 DEF F
  <2>5. f = [i \in 0 .. n |-> IF i = 0 THEN s ELSE After(f[i - 1], chars[i])]
    BY <2>2, <2>4, SMTT(60) DEF Recursive
  <2> QED BY <2>5
<1>2. at = [i \in 0 .. n |-> IF i = 0 THEN s ELSE After(at[i - 1], chars[i])]
  BY <1>1
<1>3. StatesFrom(s, chars) = at BY DEF StatesFrom
<1> HIDE DEF at
<1>4. at[0] = s /\ \A i \in 1 .. n : at[i] = After(at[i - 1], chars[i]) BY <1>2
<1>5. \A i \in 0 .. n : at[i] \in State
  <2> DEFINE S == {i \in 0 .. n : at[i] \in State}
  <2>1. 0 \in S BY <1>4
  <2>2. \A i \in 0 .. n - 1 : i \in S => i + 1 \in S
    <3> TAKE i \in 0 .. n - 1
    <3> HAVE i \in S
    <3>1. i + 1 \in 1 .. n /\ (i + 1) - 1 = i /\ i + 1 \in 0 .. n OBVIOUS
    <3>2. at[i + 1] = After(at[i], chars[i + 1]) BY <3>1, <1>4
    <3> QED BY <3>1, <3>2, AfterIs
  <2> HIDE DEF S
  <2>3. 0 .. n \subseteq S BY <2>1, <2>2, Climb
  <2> QED BY <2>3 DEF S
<1> QED BY <1>3, <1>4, <1>5 DEF FromState

(* The state behind a reading of n characters. *)
LEMMA StatesIs ==
  ASSUME NEW t, Len(t) \in Nat
  PROVE  /\ States(t)[0] = Start
         /\ \A i \in 0 .. Len(t) - 1 : States(t)[i + 1] = After(States(t)[i], t[i + 1])
         /\ \A i \in 0 .. Len(t) : States(t)[i] \in State
<1>1. Start \in State BY StartIs
<1>2. States(t) = StatesFrom(Start, t) BY DEF States
<1>3. \A i \in 0 .. Len(t) - 1 : i + 1 \in 1 .. Len(t) /\ (i + 1) - 1 = i
  OBVIOUS
<1>4. FromState(Start, t, States(t)) BY <1>1, <1>2, StatesFromIs
<1> QED BY <1>3, <1>4 DEF FromState

LEMMA PlacesIs ==
  ASSUME NEW B, NEW n \in Nat
  PROVE  /\ Places(B, 0) = <<>>
         /\ Places(B, n + 1) = IF n \in B THEN Append(Places(B, n), n) ELSE Places(B, n)
         /\ Places(B, n) \in Seq(Nat)
<1> DEFINE Step(v, i) == IF i - 1 \in B THEN Append(v, i - 1) ELSE v
           P(m) == CHOOSE f : f = [i \in 0 .. m |-> IF i = 0 THEN <<>> ELSE Step(f[i - 1], i)]
<1>1. \A m \in Nat : Places(B, m) = P(m)[m] BY DEF Places
<1>2. \A v \in Seq(Nat), i \in Nat \ {0} : Step(v, i) \in Seq(Nat) OBVIOUS
<1>3. \A m \in Nat : P(m) = [i \in 0 .. m |-> IF i = 0 THEN <<>> ELSE Step(P(m)[i - 1], i)]
  <2> TAKE m \in Nat
  <2> DEFINE F == [i \in 1 .. m |-> [v \in Seq(Nat) |-> Step(v, i)]]
  <2>1. \A v \in Seq(Nat), i \in 1 .. m : F[i][v] \in Seq(Nat)
    <3> HIDE DEF Step
    <3> QED BY <1>2
  <2>2. <<>> \in Seq(Nat) OBVIOUS
  <2> HIDE DEF F
  <2>3. PICK f \in [0 .. m -> Seq(Nat)] : Recursive(m, <<>>, F, f)
    BY <2>1, <2>2, RecursiveExists
  <2>4. \A i \in 1 .. m : f[i - 1] \in Seq(Nat) OBVIOUS
  <2> HIDE DEF Step
  <2>5. \A i \in 1 .. m : F[i][f[i - 1]] = Step(f[i - 1], i) BY <2>4 DEF F
  <2>6. f = [i \in 0 .. m |-> IF i = 0 THEN <<>> ELSE Step(f[i - 1], i)]
    <3>1. f = [i \in 0 .. m |-> IF i = 0 THEN <<>> ELSE F[i][f[i - 1]]]
      BY <2>3 DEF Recursive
    <3>2. \A i \in 0 .. m : i = 0 \/ i \in 1 .. m OBVIOUS
    <3>3. \A i \in 0 .. m : (IF i = 0 THEN <<>> ELSE F[i][f[i - 1]]) = (IF i = 0 THEN <<>> ELSE Step(f[i - 1], i))
      BY <2>5, <3>2
    <3> QED BY <3>1, <3>3, Zenon
  <2> QED BY <2>6
<1> HIDE DEF P, Step
<1>4. \A m \in Nat : P(m)[0] = <<>> /\ \A i \in 0 .. m - 1 : P(m)[i + 1] = Step(P(m)[i], i + 1)
  BY <1>3
<1> DEFINE S == {i \in 0 .. n : P(n)[i] = P(n + 1)[i] /\ P(n)[i] \in Seq(Nat)}
<1>5. 0 \in S
  <2>1. n + 1 \in Nat /\ 0 \in 0 .. n OBVIOUS
  <2>2. P(n)[0] = <<>> /\ P(n + 1)[0] = <<>> BY <2>1, <1>4
  <2>3. <<>> \in Seq(Nat) OBVIOUS
  <2> QED BY <2>1, <2>2, <2>3
<1>6. \A i \in 0 .. n - 1 : i \in S => i + 1 \in S
  <2> TAKE i \in 0 .. n - 1
  <2> HAVE i \in S
  <2>1. i \in 0 .. (n + 1) - 1 /\ n + 1 \in Nat /\ i + 1 \in Nat \ {0} /\ i + 1 \in 0 .. n
    OBVIOUS
  <2>2. P(n)[i + 1] = Step(P(n)[i], i + 1) /\ P(n + 1)[i + 1] = Step(P(n + 1)[i], i + 1)
    BY <2>1, <1>4
  <2> QED BY <2>1, <2>2, <1>2
<1> HIDE DEF S
<1>7. n \in S
  <2>1. 0 .. n \subseteq S BY <1>5, <1>6, Climb
  <2> QED BY <2>1
<1>8. P(n)[n] = P(n + 1)[n] /\ P(n)[n] \in Seq(Nat) BY <1>7 DEF S
<1>9. P(n + 1)[n + 1] = Step(P(n + 1)[n], n + 1)
  <2>1. n + 1 \in Nat /\ n \in 0 .. (n + 1) - 1 OBVIOUS
  <2> QED BY <2>1, <1>4
<1>10. Step(P(n)[n], n + 1) = IF n \in B THEN Append(P(n)[n], n) ELSE P(n)[n]
  <2>1. (n + 1) - 1 = n OBVIOUS
  <2> QED BY <2>1 DEF Step
<1>11. Places(B, 0) = <<>> BY <1>1, <1>4
<1>12. Places(B, n) = P(n)[n] /\ Places(B, n + 1) = P(n + 1)[n + 1] BY <1>1
<1> QED BY <1>8, <1>9, <1>10, <1>11, <1>12

(* There are at most as many as there are places, and they are members. *)
LEMMA PlacesAre ==
  ASSUME NEW B, NEW n \in Nat
  PROVE  /\ Places(B, n) \in Seq(Nat)
         /\ Len(Places(B, n)) \in 0 .. n
         /\ \A j \in DOMAIN Places(B, n) : Places(B, n)[j] \in B /\ Places(B, n)[j] \in 0 .. n - 1
<1> DEFINE Holds(m) == /\ Len(Places(B, m)) \in 0 .. m
                       /\ \A j \in DOMAIN Places(B, m) : Places(B, m)[j] \in B /\ Places(B, m)[j] \in 0 .. m - 1
           S == {m \in Nat : Holds(m)}
<1>1. 0 \in S BY PlacesIs, SMTT(60)
<1>2. \A m \in Nat : m \in S => m + 1 \in S
  <2> TAKE m \in Nat
  <2> HAVE m \in S
  <2> DEFINE p == Places(B, m)
             q == Places(B, m + 1)
  <2>1. q = IF m \in B THEN Append(p, m) ELSE p BY PlacesIs
  <2>2. p \in Seq(Nat) BY PlacesIs
  <2>3. Holds(m) OBVIOUS
  <2> HIDE DEF p, q
  <2>4. Len(q) \in 0 .. m + 1 /\ \A j \in DOMAIN q : q[j] \in B /\ q[j] \in 0 .. m
    <3>1. CASE m \in B
      <4>1. q \in Seq(Nat) /\ Len(q) = Len(p) + 1 /\ DOMAIN q = 1 .. Len(p) + 1 /\ DOMAIN p = 1 .. Len(p) /\ Len(p) \in Nat
        BY <3>1, <2>1, <2>2
      <4>2. \A j \in 1 .. Len(p) : q[j] = p[j] BY <3>1, <2>1, <2>2
      <4>3. q[Len(p) + 1] = m BY <3>1, <2>1, <2>2
      <4> QED BY <4>1, <4>2, <4>3, <3>1, <2>3, SMTT(60) DEF p
    <3>2. CASE m \notin B BY <3>2, <2>1, <2>3 DEF p
    <3> QED BY <3>1, <3>2
  <2>5. Holds(m + 1) BY <2>4 DEF q
  <2> QED BY <2>5
<1>3. Nat \subseteq S
  <2> HIDE DEF S
  <2> QED BY <1>1, <1>2, NatInduct
<1>4. Holds(n) BY <1>3
<1> QED BY <1>4, PlacesIs

(* They depend on no other numbers. *)
LEMMA PlacesSame ==
  ASSUME NEW B, NEW C, NEW n \in Nat, \A i \in 0 .. n - 1 : i \in B <=> i \in C
  PROVE  Places(B, n) = Places(C, n)
<1> DEFINE S == {m \in 0 .. n : Places(B, m) = Places(C, m)}
<1>1. 0 \in S BY PlacesIs
<1>2. \A m \in 0 .. n - 1 : m \in S => m + 1 \in S
  <2> TAKE m \in 0 .. n - 1
  <2> HAVE m \in S
  <2>1. m \in Nat /\ m + 1 \in 0 .. n OBVIOUS
  <2>2. Places(B, m + 1) = IF m \in B THEN Append(Places(B, m), m) ELSE Places(B, m)
    BY <2>1, PlacesIs
  <2>3. Places(C, m + 1) = IF m \in C THEN Append(Places(C, m), m) ELSE Places(C, m)
    BY <2>1, PlacesIs
  <2> QED BY <2>1, <2>2, <2>3
<1> HIDE DEF S
<1>3. 0 .. n \subseteq S BY <1>1, <1>2, Climb
<1> QED BY <1>3 DEF S

AppendsToLast(s, t, v) == Append(s \o t, v) = s \o Append(t, v)

LEMMA AppendConcat ==
  ASSUME NEW V, NEW s \in Seq(V), NEW t \in Seq(V), NEW v \in V
  PROVE  AppendsToLast(s, t, v)
<1>1. <<v>> \in Seq(V) /\ s \o t \in Seq(V) BY ConcatProperties
<1>2. Append(s \o t, v) = (s \o t) \o <<v>> BY <1>1, AppendIsConcat
<1>3. Append(t, v) = t \o <<v>> BY AppendIsConcat
<1> QED BY <1>1, <1>2, <1>3, ConcatAssociative, SMTT(60) DEF AppendsToLast

Shifted(m, t) == [j \in DOMAIN t |-> m + t[j]]

LEMMA ShiftedIs ==
  ASSUME NEW m \in Nat, NEW t \in Seq(Nat)
  PROVE  /\ Shifted(m, t) \in Seq(Nat) /\ Len(Shifted(m, t)) = Len(t)
         /\ \A j \in 1 .. Len(t) : Shifted(m, t)[j] = m + t[j]
<1>1. Len(t) \in Nat /\ DOMAIN t = 1 .. Len(t) /\ \A j \in 1 .. Len(t) : t[j] \in Nat
  BY LenProperties
<1>2. Shifted(m, t) = [j \in 1 .. Len(t) |-> m + t[j]] BY <1>1 DEF Shifted
<1>3. \A j \in 1 .. Len(t) : m + t[j] \in Nat BY <1>1
<1>4. Shifted(m, t) \in Seq(Nat) BY <1>1, <1>2, <1>3, IsASeq
<1>5. Len(Shifted(m, t)) = Len(t) BY <1>1, <1>2, <1>4, LenProperties
<1> QED BY <1>2, <1>4, <1>5

LEMMA ShiftedAppend ==
  ASSUME NEW m \in Nat, NEW t \in Seq(Nat), NEW i \in Nat
  PROVE  Shifted(m, Append(t, i)) = Append(Shifted(m, t), m + i)
<1> DEFINE n == Len(t)
           a == Append(t, i)
           b == Shifted(m, t)
           l == Shifted(m, a)
           r == Append(b, m + i)
<1>1. n \in Nat /\ m + i \in Nat BY LenProperties
<1>2. a \in Seq(Nat) /\ Len(a) = n + 1 /\ (\A j \in 1 .. n : a[j] = t[j]) /\ a[n + 1] = i
  BY AppendProperties
<1>3. b \in Seq(Nat) /\ Len(b) = n /\ \A j \in 1 .. n : b[j] = m + t[j]
  BY ShiftedIs
<1> HIDE DEF n, a, b
<1>4. l \in Seq(Nat) /\ Len(l) = n + 1 /\ \A j \in 1 .. n + 1 : l[j] = m + a[j]
  BY <1>2, ShiftedIs
<1>5. r \in Seq(Nat) /\ Len(r) = n + 1 /\ (\A j \in 1 .. n : r[j] = b[j]) /\ r[n + 1] = m + i
  BY <1>1, <1>3, AppendProperties
<1> HIDE DEF l, r
<1>6. \A j \in 1 .. n + 1 : l[j] = r[j]
  <2> TAKE j \in 1 .. n + 1
  <2>1. l[j] = m + a[j] BY <1>4
  <2>2. CASE j \in 1 .. n BY <2>1, <2>2, <1>2, <1>3, <1>5
  <2>3. CASE j = n + 1 BY <2>1, <2>3, <1>2, <1>5
  <2> QED BY <2>2, <2>3, <1>1
<1>7. l = r BY <1>4, <1>5, <1>6, SeqEqual
<1> QED BY <1>7 DEF l, r, a, b

(* The places behind m are those of what is behind m. *)
RestAdds(B, m, k, C) == Places(B, m + k) = Places(B, m) \o Shifted(m, Places(C, k))

LEMMA PlacesOfRest ==
  ASSUME NEW B, NEW m \in Nat, NEW k \in Nat, NEW C, \A i \in 0 .. k - 1 : i \in C <=> m + i \in B
  PROVE  RestAdds(B, m, k, C)
<1> DEFINE S == {i \in 0 .. k : Places(B, m + i) = Places(B, m) \o Shifted(m, Places(C, i))}
           p == Places(B, m)
<1>1. p \in Seq(Nat) BY PlacesIs
<1>2. 0 \in S
  <2>1. Shifted(m, <<>>) = <<>> BY DEF Shifted
  <2>2. Places(C, 0) = <<>> BY PlacesIs
  <2>3. p \o <<>> = p BY <1>1, ConcatEmptySeq
  <2>4. m + 0 = m /\ 0 \in 0 .. k OBVIOUS
  <2>5. Places(B, m + 0) = p \o Shifted(m, Places(C, 0))
    BY <2>1, <2>2, <2>3, <2>4
  <2> HIDE DEF p
  <2> QED BY <2>4, <2>5 DEF p
<1>3. \A i \in 0 .. k - 1 : i \in S => i + 1 \in S
  <2> TAKE i \in 0 .. k - 1
  <2> HAVE i \in S
  <2> DEFINE t == Places(C, i)
  <2>1. i \in Nat /\ m + i \in Nat /\ i + 1 \in 0 .. k /\ (m + i) + 1 = m + (i + 1)
    OBVIOUS
  <2>2. t \in Seq(Nat) BY <2>1, PlacesIs
  <2>3. Places(B, m + (i + 1)) = IF m + i \in B THEN Append(Places(B, m + i), m + i) ELSE Places(B, m + i)
    BY <2>1, PlacesIs
  <2>4. Places(C, i + 1) = IF i \in C THEN Append(t, i) ELSE t BY <2>1, PlacesIs
  <2>5. Places(B, m + i) = p \o Shifted(m, t) OBVIOUS
  <2>6. i \in C <=> m + i \in B OBVIOUS
  <2> HIDE DEF p, t, S
  <2>7. Shifted(m, Append(t, i)) = Append(Shifted(m, t), m + i)
    BY <2>1, <2>2, ShiftedAppend
  <2>8. Shifted(m, t) \in Seq(Nat) BY <2>2, ShiftedIs
  <2>9. Append(p \o Shifted(m, t), m + i) = p \o Append(Shifted(m, t), m + i)
    <3> DEFINE b == Shifted(m, t)
               v == m + i
    <3>1. p \in Seq(Nat) /\ v \in Nat /\ b \in Seq(Nat)
      BY <1>1, <2>1, <2>8 DEF p
    <3> HIDE DEF b, v
    <3>2. AppendsToLast(p, b, v) BY <3>1, AppendConcat
    <3>3. Append(p \o b, v) = p \o Append(b, v) BY <3>2 DEF AppendsToLast
    <3> QED BY <3>3 DEF b, v
  <2>10. Places(B, m + (i + 1)) = p \o Shifted(m, Places(C, i + 1))
    BY <2>3, <2>4, <2>5, <2>6, <2>7, <2>9
  <2> QED BY <2>1, <2>10 DEF S, p
<1>4. k \in S
  <2> HIDE DEF S
  <2>1. 0 .. k \subseteq S BY <1>2, <1>3, Climb
  <2> QED BY <2>1
<1> QED BY <1>4 DEF RestAdds

(* Where there is no member behind n nothing is added. *)
LEMMA PlacesEnd ==
  ASSUME NEW B, NEW n \in Nat, NEW m \in Nat, n <= m, \A i \in n .. m - 1 : i \notin B
  PROVE  Places(B, m) = Places(B, n)
<1> DEFINE C == {i \in {} : TRUE}
<1>1. m - n \in Nat /\ n + (m - n) = m /\ \A i \in 0 .. (m - n) - 1 : i \in C <=> n + i \in B
  OBVIOUS
<1>2. Places(B, m) = Places(B, n) \o Shifted(n, Places(C, m - n))
  <2> HIDE DEF C
  <2>1. RestAdds(B, n, m - n, C) BY <1>1, PlacesOfRest
  <2> QED BY <1>1, <2>1 DEF RestAdds
<1>3. Places(C, m - n) = <<>>
  <2>1. Places(C, m - n) \in Seq(Nat) /\ \A j \in DOMAIN Places(C, m - n) : Places(C, m - n)[j] \in C
    BY <1>1, PlacesAre
  <2>2. DOMAIN Places(C, m - n) = {} BY <2>1
  <2> HIDE DEF C
  <2> QED BY <2>1, <2>2
<1>4. Shifted(n, <<>>) = <<>> /\ Places(B, n) \o <<>> = Places(B, n)
  <2>1. Shifted(n, <<>>) = <<>> BY DEF Shifted
  <2>2. Places(B, n) \in Seq(Nat) BY PlacesIs
  <2> QED BY <2>1, <2>2
<1> HIDE DEF C
<1> QED BY <1>2, <1>3, <1>4

-----------------------------------------------------------------------------
(* A block of a text. *)

(* The n characters behind the first f of text, filled up with spaces if *)
(* they are the last. *)
BlockAt(block, t, f, n) ==
  /\ n \in 1 .. W /\ f + n <= Len(t) /\ (n = W \/ f + n = Len(t))
  /\ Len(block) = W
  /\ \A i \in 1 .. n : block[i] = t[f + i]
  /\ \A i \in n + 1 .. W : block[i] = "space"

(* What the arithmetic finds in it are the tokens of the text and what is *)
(* to be kept of it. *)
BlockFinds(b, t, f, n) ==
  /\ \A i \in 0 .. n - 1 : i \in b.tokens <=> f + i \in TokenPlaces(t)
  /\ \A i \in n .. W - 1 : i \notin b.tokens
  /\ \A i \in 0 .. n - 1 : i \in b.kept <=> f + i \in KeptPlaces(t)
  /\ b.kept \subseteq Bits
  /\ n = W => Carries(b.carry, States(t)[f + n])

(* The arithmetic on the words of a block, with what the block before has *)
(* left, finds what a reading one by one finds (lexer::read, json::minify). *)
THEOREM BlockOfText ==
  ASSUME NEW t, Len(t) \in Nat, NEW f \in Nat, NEW n \in Nat, NEW block, BlockAt(block, t, f, n),
         NEW was, Carries(was, States(t)[f])
  PROVE  BlockFinds(Block(block, was), t, f, n)
<1> DEFINE at == States(t)
           s == at[f]
           st == StatesFrom(s, block)
           b == Block(block, was)
<1>1. /\ W \in Nat /\ n \in 1 .. W /\ f + n \in 0 .. Len(t) /\ f \in 0 .. Len(t)
      /\ Len(block) \in Nat /\ Len(block) = W
  BY WidthAssumption DEF BlockAt
<1>2. s \in State BY <1>1, StatesIs
<1>3. st[0] = at[f] /\ (\A i \in 1 .. W : st[i] = After(st[i - 1], block[i])) /\ \A i \in 0 .. W : st[i] \in State
  <2> HIDE DEF s
  <2>1. FromState(s, block, st) BY <1>1, <1>2, StatesFromIs
  <2> HIDE DEF st
  <2>2. st[0] = s BY <2>1 DEF FromState
  <2>3. st[0] = at[f] BY <2>2 DEF s
  <2> HIDE DEF at
  <2> QED BY <2>1, <2>3, <1>1 DEF FromState
<1> HIDE DEF st
<1>4. Reading(block, st)
  <2>1. \A i \in Bits : st[i + 1] = After(st[i], block[i + 1])
    <3>1. \A i \in Bits : i + 1 \in 1 .. W /\ (i + 1) - 1 = i BY <1>1 DEF Bits
    <3> QED BY <3>1, <1>3
  <2> QED BY <2>1, <1>3 DEF Reading
<1>5. BlockReads(block, b, st)
  <2>1. Carries(was, st[0]) BY <1>3
  <2> QED BY <2>1, <1>4, BlockIs
<1> HIDE DEF b
<1>6. \A i \in 0 .. n : st[i] = at[f + i]
  <2> DEFINE S == {i \in 0 .. n : st[i] = at[f + i]}
  <2>1. 0 \in S BY <1>1, <1>3
  <2>2. \A i \in 0 .. n - 1 : i \in S => i + 1 \in S
    <3> TAKE i \in 0 .. n - 1
    <3> HAVE i \in S
    <3>1. i + 1 \in 1 .. W /\ i + 1 \in 1 .. n /\ (i + 1) - 1 = i /\ f + i \in 0 .. Len(t) - 1 /\ i + 1 \in 0 .. n
      BY <1>1
    <3>2. st[i + 1] = After(st[i], block[i + 1])
      <4> HIDE DEF at, s, S
      <4> QED BY <3>1, <1>3
    <3>3. block[i + 1] = t[f + (i + 1)] /\ f + (i + 1) = (f + i) + 1
      BY <3>1 DEF BlockAt
    <3>4. at[(f + i) + 1] = After(at[f + i], t[(f + i) + 1]) BY <3>1, StatesIs
    <3> HIDE DEF at
    <3> QED BY <3>1, <3>2, <3>3, <3>4
  <2> HIDE DEF S
  <2>3. 0 .. n \subseteq S BY <2>1, <2>2, <1>1, Climb
  <2> QED BY <2>3 DEF S
<1>7. \A i \in 0 .. n - 1 : /\ i \in Bits /\ st[i] = at[f + i] /\ block[i + 1] = t[(f + i) + 1]
                            /\ f + i \in 0 .. Len(t) - 1
  <2> TAKE i \in 0 .. n - 1
  <2>1. i \in Bits /\ i \in 0 .. n /\ i + 1 \in 1 .. n /\ f + (i + 1) = (f + i) + 1 /\ f + i \in 0 .. Len(t) - 1
    BY <1>1 DEF Bits
  <2> HIDE DEF at
  <2> QED BY <2>1, <1>6 DEF BlockAt
<1>8. \A i \in 0 .. n - 1 : i \in b.tokens <=> f + i \in TokenPlaces(t)
  BY <1>5, <1>7 DEF BlockReads, TokenPlaces
<1>9. \A i \in 0 .. n - 1 : i \in b.kept <=> f + i \in KeptPlaces(t)
  BY <1>5, <1>7 DEF BlockReads, KeptPlaces
<1>10. \A i \in n .. W - 1 : i \notin b.tokens
  <2> TAKE i \in n .. W - 1
  <2>1. i + 1 \in n + 1 .. W BY <1>1
  <2>2. block[i + 1] = "space" BY <2>1 DEF BlockAt
  <2> QED BY <2>2, <1>5 DEF BlockReads, IsToken
<1>11. b.kept \subseteq Bits BY <1>5 DEF BlockReads
<1>12. n = W => Carries(b.carry, at[f + n])
  <2>1. n \in 0 .. n BY <1>1
  <2> HIDE DEF at
  <2> QED BY <2>1, <1>5, <1>6 DEF BlockReads
<1> QED BY <1>8, <1>9, <1>10, <1>11, <1>12 DEF BlockFinds, b

(***************************************************************************)
(* The reader, minify and both together.                                   *)
(***************************************************************************)

-----------------------------------------------------------------------------
(* Sequences. *)

(* What is left of s behind its first p elements. *)
Behind(s, p) == SubSeq(s, p + 1, Len(s))

LEMMA BehindType ==
  ASSUME NEW V, NEW s \in Seq(V), NEW p \in 0 .. Len(s)
  PROVE  Behind(s, p) \in Seq(V)
<1>1. Len(s) \in Nat /\ \A i \in 1 .. Len(s) : s[i] \in V BY LenProperties
<1>2. p + 1 \in Int /\ Len(s) \in Int /\ \A i \in p + 1 .. Len(s) : s[i] \in V
  BY <1>1
<1> QED BY <1>2, SubSeqProperties DEF Behind

LEMMA BehindAll ==
  ASSUME NEW V, NEW s \in Seq(V)
  PROVE  Behind(s, Len(s)) = <<>> /\ Behind(s, 0) = s
<1>1. Len(s) \in Nat BY LenProperties
<1>2. Len(s) + 1 \in Int /\ Len(s) \in Int /\ Len(s) < Len(s) + 1 /\ 0 + 1 = 1
  BY <1>1
<1> QED BY <1>2, SubSeqEmpty, SubSeqFull DEF Behind

LEMMA BehindNext ==
  ASSUME NEW V, NEW s \in Seq(V), NEW p \in 0 .. Len(s), p < Len(s)
  PROVE  s[p + 1] \in V /\ Behind(s, p) = <<s[p + 1]>> \o Behind(s, p + 1)
<1>1. Len(s) \in Nat /\ \A i \in 1 .. Len(s) : s[i] \in V BY LenProperties
<1>2. p + 1 \in 1 .. Len(s) /\ Len(s) \in p + 1 .. Len(s) BY <1>1
<1>3. SubSeq(s, p + 1, Len(s)) = <<s[p + 1]>> \o SubSeq(s, (p + 1) + 1, Len(s))
  BY <1>2, SubSeqRecursiveFirst
<1> QED BY <1>1, <1>2, <1>3 DEF Behind

(* The first of what is left goes over to what has been taken. *)
TakesOver(s, v, t) == Append(s, v) \o t = s \o (<<v>> \o t)

LEMMA TakeNext ==
  ASSUME NEW V, NEW s \in Seq(V), NEW v \in V, NEW t \in Seq(V)
  PROVE  TakesOver(s, v, t)
<1>1. <<v>> \in Seq(V) OBVIOUS
<1>2. Append(s, v) = s \o <<v>> BY AppendIsConcat
<1> QED BY <1>1, <1>2, ConcatAssociative DEF TakesOver

(* Where the parentheses are makes no difference. *)
Regroups(r, s, t) == (r \o s) \o t = r \o (s \o t)

LEMMA Regroup ==
  ASSUME NEW V, NEW r \in Seq(V), NEW s \in Seq(V), NEW t \in Seq(V)
  PROVE  Regroups(r, s, t)
BY ConcatAssociative, SMTT(60) DEF Regroups

EmptyBehind(s) == s \o <<>> = s

LEMMA NothingBehind ==
  ASSUME NEW V, NEW s \in Seq(V)
  PROVE  EmptyBehind(s)
BY ConcatEmptySeq DEF EmptyBehind

-----------------------------------------------------------------------------
(* The reader. *)

NposGot == got # <<>> /\ Last(got) = NPOS

ReaderType ==
  /\ text \in Seq(Classes) /\ first \in 0 .. Len(text)
  /\ buffer \in Seq(Nat) /\ ptr \in 0 .. Len(buffer)
  /\ filling \in Seq(Nat) \cup {NPOS} /\ stored \in Nat
  /\ got \in Seq(Nat \cup {NPOS})

(* While lexer::read runs all of the buffer has been handed out; npos is *)
(* got when there is nothing left, and never before another token. *)
ReaderInv ==
  /\ ReaderType
  /\ first < Len(text) => Carries(carry, States(text)[first])
  /\ ~Idle => ptr = Len(buffer)
  /\ Given \in Seq(Nat)
  /\ NposGot => Idle /\ ptr = Len(buffer) /\ first = Len(text)
  /\ TokensExact
  /\ StoresInBuffer

LEMMA NposIs ==
  /\ NPOS \notin Nat /\ \A s \in Seq(Nat) : s # NPOS
BY ReaderAssumption

(* What get() has returned, and one more. *)
LEMMA GivenIs ==
  ASSUME got \in Seq(Nat \cup {NPOS}), Given \in Seq(Nat)
  PROVE  /\ ~NposGot => Given = got
         /\ NposGot => GotNpos = got
         /\ \A g : g = Append(got, NPOS) =>
              g \in Seq(Nat \cup {NPOS}) /\ g # <<>> /\ Last(g) = NPOS /\ Front(g) = got
         /\ \A n \in Nat : \A g : ~NposGot /\ g = Append(got, n) =>
              g \in Seq(Nat) /\ g \in Seq(Nat \cup {NPOS}) /\ g # <<>> /\ Last(g) # NPOS
<1> DEFINE V == Nat \cup {NPOS}
<1>1. ~NposGot => Given = got BY DEF NposGot, Given
<1>2. NposGot => GotNpos = got BY DEF NposGot, GotNpos
<1>3. \A g : g = Append(got, NPOS) => g \in Seq(V) /\ g # <<>> /\ Last(g) = NPOS /\ Front(g) = got
  <2> TAKE g
  <2> HAVE g = Append(got, NPOS)
  <2>1. NPOS \in V OBVIOUS
  <2> HIDE DEF V
  <2>2. got \in Seq(V) /\ Len(got) \in Nat BY LenProperties DEF V
  <2>3. g \in Seq(V) /\ g # <<>> /\ Len(g) = Len(got) + 1 /\ (\A i \in 1 .. Len(got) : g[i] = got[i]) /\ g[Len(got) + 1] = NPOS
    BY <2>1, <2>2, AppendProperties
  <2>4. Last(g) = NPOS BY <2>3 DEF Last
  <2>5. Front(g) = got
    <3>1. Front(g) = SubSeq(g, 1, Len(got)) BY <2>2, <2>3 DEF Front
    <3>2. \A i \in 1 .. Len(got) : g[i] \in V BY <2>2, <2>3, LenProperties
    <3>3. /\ SubSeq(g, 1, Len(got)) \in Seq(V) /\ Len(SubSeq(g, 1, Len(got))) = Len(got)
          /\ \A i \in 1 .. Len(got) : SubSeq(g, 1, Len(got))[i] = g[i]
      BY <2>2, <3>2, SubSeqProperties
    <3> QED BY <3>1, <3>3, <2>2, <2>3, SeqEqual
  <2> QED BY <2>3, <2>4, <2>5 DEF V
<1>4. \A n \in Nat : \A g : ~NposGot /\ g = Append(got, n) => g \in Seq(Nat) /\ g \in Seq(V) /\ g # <<>> /\ Last(g) # NPOS
  <2> TAKE n \in Nat
  <2> TAKE g
  <2> HAVE ~NposGot /\ g = Append(got, n)
  <2>1. got \in Seq(Nat) BY <1>1
  <2>2. g \in Seq(Nat) /\ g # <<>> /\ Len(g) = Len(got) + 1 /\ g[Len(got) + 1] = n
    <3>1. g \in Seq(Nat) BY <2>1, AppendProperties
    <3>2. Len(g) = Len(got) + 1 BY <2>1, AppendProperties
    <3>3. g[Len(got) + 1] = n BY <2>1, AppendProperties
    <3>4. g # <<>>
      <4>1. Len(got) \in Nat /\ Len(<<>>) = 0 BY <2>1, LenProperties
      <4> QED BY <4>1, <3>2
    <3> QED BY <3>1, <3>2, <3>3, <3>4
  <2>3. n \in V /\ got \in Seq(V) OBVIOUS
  <2>4. g \in Seq(V)
    <3> HIDE DEF V
    <3> QED BY <2>3, AppendProperties
  <2>5. Last(g) # NPOS BY <2>2, NposIs DEF Last
  <2> QED BY <2>2, <2>4, <2>5
<1> QED BY <1>1, <1>2, <1>3, <1>4

(* Behind its npos get() returns it again. *)
LEMMA GotNposIs ==
  ASSUME ReaderInv, got' = GotNpos
  PROVE  Given' = Given /\ got' \in Seq(Nat \cup {NPOS})
<1>1. got \in Seq(Nat \cup {NPOS}) /\ Given \in Seq(Nat)
  BY DEF ReaderInv, ReaderType
<1>2. CASE NposGot
  <2>1. got' = got BY <1>1, <1>2, GivenIs
  <2> QED BY <2>1, <1>1 DEF Given
<1>3. CASE ~NposGot
  <2>1. got' = Append(got, NPOS) BY <1>3 DEF NposGot, GotNpos
  <2>2. got' \in Seq(Nat \cup {NPOS}) /\ got' # <<>> /\ Last(got') = NPOS /\ Front(got') = got
    BY <1>1, <2>1, GivenIs
  <2>3. Given' = got BY <2>2 DEF Given
  <2>4. Given = got BY <1>1, <1>3, GivenIs
  <2> QED BY <2>2, <2>3, <2>4
<1> QED BY <1>2, <1>3

-----------------------------------------------------------------------------
(* Its steps. *)

LEMMA GetKeeps ==
  ASSUME ReaderInv, Get
  PROVE  ReaderInv'
<1> USE DEF ReaderInv, ReaderType
<1> DEFINE x == buffer[ptr + 1]
<1>1. /\ UNCHANGED <<text, first, carry, buffer, filling, stored>>
      /\ Idle /\ ptr < Len(buffer) /\ ptr' = ptr + 1 /\ got' = Append(got, x)
  BY DEF Get
<1>2. ~NposGot BY <1>1
<1>3. Len(buffer) \in Nat /\ ptr' \in 0 .. Len(buffer) BY <1>1, LenProperties
<1>4. x \in Nat /\ Behind(buffer, ptr) = <<x>> \o Behind(buffer, ptr + 1)
  BY <1>1, BehindNext
<1> HIDE DEF x
<1>5. got' \in Seq(Nat) /\ got' \in Seq(Nat \cup {NPOS}) /\ got' # <<>> /\ Last(got') # NPOS
  BY <1>1, <1>2, <1>4, GivenIs
<1>6. Given = got /\ Given' = got' /\ ~NposGot'
  <2>1. Given = got BY <1>2, GivenIs
  <2> QED BY <2>1, <1>5 DEF Given, NposGot
<1>7. Idle' BY <1>1 DEF Idle
<1>8. TokensExact'
  <2>1. got \o Behind(buffer, ptr) \o <<>> = Tokens(text, first)
    BY <1>1, <1>6 DEF TokensExact, Behind
  <2>2. got \in Seq(Nat) /\ Behind(buffer, ptr) \in Seq(Nat) /\ Behind(buffer, ptr') \in Seq(Nat)
    BY <1>3, <1>6, BehindType
  <2>3. Append(got, x) \o Behind(buffer, ptr') = got \o (<<x>> \o Behind(buffer, ptr'))
    <3>1. TakesOver(got, x, Behind(buffer, ptr')) BY <1>4, <2>2, TakeNext
    <3> QED BY <3>1 DEF TakesOver
  <2>4. got' \o Behind(buffer, ptr') = got \o Behind(buffer, ptr)
    BY <1>1, <1>4, <2>3
  <2>5. got' \o Behind(buffer, ptr') \o <<>> = Tokens(text, first) BY <2>1, <2>4
  <2> QED BY <2>5, <1>1, <1>6, <1>7 DEF TokensExact, Behind
<1>9. StoresInBuffer' BY <1>7 DEF StoresInBuffer
<1> QED BY <1>1, <1>3, <1>5, <1>6, <1>7, <1>8, <1>9

LEMMA RefillKeeps ==
  ASSUME ReaderInv, Refill
  PROVE  ReaderInv'
<1> USE DEF ReaderInv, ReaderType
<1>1. /\ UNCHANGED <<text, first, carry, buffer, ptr, got>>
      /\ Idle /\ ptr = Len(buffer) /\ first < Len(text) /\ filling' = <<>> /\ stored' = 0
  BY DEF Refill
<1>2. filling' \in Seq(Nat) /\ ~Idle'
  <2>1. <<>> \in Seq(Nat) OBVIOUS
  <2>2. <<>> # NPOS BY <2>1, NposIs
  <2> QED BY <1>1, <2>1, <2>2 DEF Idle
<1>3. Given' = Given /\ (NposGot' <=> NposGot) BY <1>1 DEF Given, NposGot
<1>4. ~NposGot BY <1>1
<1>5. TokensExact' BY <1>1, <1>2, <1>3 DEF TokensExact
<1>6. StoresInBuffer'
  <2>1. Len(text) \in Nat BY LenProperties
  <2>2. Capacity \in Nat BY <2>1, WidthAssumption, ReaderAssumption DEF Capacity
  <2>3. Capacity' = Capacity /\ Len(filling') = 0 BY <1>1 DEF Capacity
  <2> QED BY <2>2, <2>3, <1>1 DEF StoresInBuffer
<1>7. ReaderType' BY <1>1, <1>2
<1>8. first' < Len(text') => Carries(carry', States(text')[first']) BY <1>1
<1> QED BY <1>1, <1>2, <1>3, <1>4, <1>5, <1>6, <1>7, <1>8

LEMMA GetNposKeeps ==
  ASSUME ReaderInv, GetNpos
  PROVE  ReaderInv'
<1> USE DEF ReaderInv, ReaderType
<1>1. /\ UNCHANGED <<text, first, carry, buffer, ptr, filling, stored>>
      /\ Idle /\ ptr = Len(buffer) /\ first = Len(text) /\ got' = GotNpos
  BY DEF GetNpos
<1>2. Given' = Given /\ got' \in Seq(Nat \cup {NPOS}) BY <1>1, GotNposIs
<1>3. Idle' /\ ptr' = Len(buffer') /\ first' = Len(text') BY <1>1 DEF Idle
<1>4. TokensExact' BY <1>1, <1>2, <1>3 DEF TokensExact
<1>5. StoresInBuffer' BY <1>3 DEF StoresInBuffer
<1>6. ReaderType' BY <1>1, <1>2
<1> QED BY <1>1, <1>2, <1>3, <1>4, <1>5, <1>6

(* The tokens of the next n characters of a text, as the arithmetic finds *)
(* them in the block they are in. *)
BlockAdds(s, f, n, t) == Tokens(s, f + n) = Tokens(s, f) \o Shifted(f, t)

LEMMA TokensOfBlock ==
  ASSUME NEW s \in Seq(Classes), NEW f \in Nat, NEW n \in 1 .. W, NEW b, BlockFinds(b, s, f, n)
  PROVE  BlockAdds(s, f, n, Places(b.tokens, W))
<1>1. n \in Nat /\ W \in Nat /\ n <= W BY WidthAssumption
<1>2. Places(b.tokens, W) = Places(b.tokens, n)
  <2>1. \A i \in n .. W - 1 : i \notin b.tokens BY DEF BlockFinds
  <2> QED BY <2>1, <1>1, PlacesEnd
<1>3. Places(TokenPlaces(s), f + n) = Places(TokenPlaces(s), f) \o Shifted(f, Places(b.tokens, n))
  <2>1. \A i \in 0 .. n - 1 : i \in b.tokens <=> f + i \in TokenPlaces(s)
    BY DEF BlockFinds
  <2>2. RestAdds(TokenPlaces(s), f, n, b.tokens) BY <2>1, <1>1, PlacesOfRest
  <2> QED BY <2>2 DEF RestAdds
<1> QED BY <1>2, <1>3 DEF BlockAdds, Tokens

LEMMA FillIs ==
  ASSUME NEW s \in Seq(Classes)
  PROVE  Len(Fill(s)) = W /\ \A i \in 1 .. W : Fill(s)[i] = IF i <= Len(s) THEN s[i] ELSE "space"
<1>1. W \in Nat /\ Len(s) \in Nat /\ \A i \in 1 .. Len(s) : s[i] \in Classes
  BY WidthAssumption, LenProperties
<1>2. Fill(s) = [i \in 1 .. W |-> IF i <= Len(s) THEN s[i] ELSE "space"]
  BY DEF Fill
<1>3. \A i \in 1 .. W : (IF i <= Len(s) THEN s[i] ELSE "space") \in Classes
  BY <1>1 DEF Classes
<1>4. Fill(s) \in Seq(Classes) BY <1>1, <1>2, <1>3, IsASeq
<1> QED BY <1>1, <1>2, <1>4, LenProperties

(* What the stores of a block write to is no more than a word has bits. *)
LEMMA StoredIs ==
  ASSUME NEW n \in 0 .. W
  PROVE  Stored(n) \in n .. W
BY WidthAssumption DEF Stored

LEMMA ReadBlockKeeps ==
  ASSUME ReaderInv, ReadBlock
  PROVE  ReaderInv'
<1> USE DEF ReaderInv, ReaderType
<1> DEFINE n == IF LastBlock THEN Len(text) - first ELSE W
           b == Block(NextBlock, carry)
           t == Places(b.tokens, W)
<1>1. /\ UNCHANGED <<text, buffer, ptr, got>>
      /\ ~Idle /\ first < Len(text) /\ Len(filling) <= Capacity - Extra
      /\ first' = IF LastBlock THEN Len(text) ELSE first + W
  BY DEF ReadBlock, Room
<1>2. /\ filling' = filling \o Shifted(first, t)
      /\ stored' = Len(filling) + Stored(Len(t)) /\ carry' = b.carry
  BY DEF ReadBlock, Store, Shifted
<1>3. W \in Nat \ {0} /\ first \in Nat /\ Len(text) \in Nat
  BY WidthAssumption, LenProperties
<1>4. n \in 1 .. W /\ n \in Nat /\ first' = first + n /\ first + n <= Len(text) /\ (n = W \/ first + n = Len(text))
  BY <1>1, <1>3 DEF LastBlock
<1> HIDE DEF n
<1>5. BlockFinds(b, text, first, n)
  <2> DEFINE s == SubSeq(text, first + 1, Len(text))
  <2>1. s \in Seq(Classes) /\ Len(s) = Len(text) - first /\ \A i \in 1 .. Len(text) - first : s[i] = text[first + i]
    <3>1. first + 1 \in Int /\ Len(text) \in Int /\ first + 1 <= Len(text) /\ \A i \in first + 1 .. Len(text) : text[i] \in Classes
      BY <1>1, <1>3, LenProperties
    <3>2. /\ s \in Seq(Classes) /\ Len(s) = Len(text) - (first + 1) + 1
          /\ \A i \in 1 .. Len(text) - (first + 1) + 1 : s[i] = text[(first + 1) + i - 1]
      <4> DEFINE l == first + 1
                 m == Len(text)
      <4>1. l \in Int /\ m \in Int /\ l <= m /\ \A i \in l .. m : text[i] \in Classes
        BY <3>1
      <4> HIDE DEF l, m
      <4>2. SubSeq(text, l, m) \in Seq(Classes) BY <4>1, SubSeqProperties
      <4>3. Len(SubSeq(text, l, m)) = m - l + 1 BY <4>1, SubSeqProperties
      <4>4. \A i \in 1 .. m - l + 1 : SubSeq(text, l, m)[i] = text[l + i - 1]
        BY <4>1, SubSeqProperties
      <4> QED BY <4>2, <4>3, <4>4 DEF l, m
    <3>3. Len(text) - (first + 1) + 1 = Len(text) - first /\ \A i \in 1 .. Len(text) - first : (first + 1) + i - 1 = first + i
      BY <1>3
    <3> QED BY <3>2, <3>3
  <2> HIDE DEF s
  <2>2. NextBlock = Fill(s) BY DEF NextBlock, s
  <2>3. Len(Fill(s)) = W /\ \A i \in 1 .. W : Fill(s)[i] = IF i <= Len(s) THEN s[i] ELSE "space"
    BY <2>1, FillIs
  <2>4. \A i \in 1 .. n : Fill(s)[i] = text[first + i]
    <3>1. \A i \in 1 .. n : i \in 1 .. W /\ i \in 1 .. Len(text) - first /\ i <= Len(s)
      BY <2>1, <1>3, <1>4, SMTT(60)
    <3> QED BY <3>1, <2>1, <2>3
  <2>5. \A i \in n + 1 .. W : Fill(s)[i] = "space"
    BY <2>1, <2>3, <1>3, <1>4, SMTT(60)
  <2>6. BlockAt(NextBlock, text, first, n)
    BY <2>2, <2>3, <2>4, <2>5, <1>4 DEF BlockAt
  <2>7. Carries(carry, States(text)[first]) BY <1>1
  <2> QED BY <2>6, <2>7, <1>3, <1>4, BlockOfText
<1>6. Tokens(text, first + n) = Tokens(text, first) \o Shifted(first, t)
  <2> HIDE DEF b
  <2>1. BlockAdds(text, first, n, Places(b.tokens, W))
    BY <1>3, <1>4, <1>5, TokensOfBlock
  <2> QED BY <2>1 DEF BlockAdds
<1>7. t \in Seq(Nat) /\ Len(t) \in 0 .. W BY <1>3, PlacesAre
<1> HIDE DEF b, t
<1> DEFINE more == Shifted(first, t)
<1>8. more \in Seq(Nat) /\ Len(more) = Len(t) BY <1>3, <1>7, ShiftedIs
<1>9. filling \in Seq(Nat) BY <1>1 DEF Idle
<1>10. filling' \in Seq(Nat) /\ Len(filling') = Len(filling) + Len(t) /\ Len(filling) \in Nat
  <2> HIDE DEF more
  <2>1. filling' = filling \o more BY <1>2 DEF more
  <2>2. filling \o more \in Seq(Nat) BY <1>8, <1>9, ConcatProperties
  <2>3. Len(filling \o more) = Len(filling) + Len(more)
    BY <1>8, <1>9, ConcatProperties
  <2>4. Len(filling) \in Nat BY <1>9, LenProperties
  <2> QED BY <2>1, <2>2, <2>3, <2>4, <1>8
<1>11. ~Idle' BY <1>10, NposIs DEF Idle
<1>12. Given' = Given /\ (NposGot' <=> NposGot) BY <1>1 DEF Given, NposGot
<1>13. StoresInBuffer'
  <2>1. Capacity' = Capacity BY <1>1 DEF Capacity
  <2>2. Capacity \in Nat /\ Extra \in Nat /\ W <= Extra
    BY <1>3, ReaderAssumption DEF Capacity
  <2>3. Stored(Len(t)) \in Len(t) .. W BY <1>7, StoredIs
  <2>4. Len(filling') <= Capacity /\ stored' <= Capacity
    <3> DEFINE s == Stored(Len(t))
    <3>1. Len(filling') = Len(filling) + Len(t) /\ stored' = Len(filling) + s
      BY <1>2, <1>10
    <3>2. Len(filling) \in Nat /\ Len(t) \in Nat /\ Len(t) <= W /\ s \in Nat /\ s <= W
      BY <1>3, <1>7, <1>10, <2>3, SMTT(60)
    <3>3. Len(filling) <= Capacity - Extra BY <1>1
    <3>4. Len(filling) + Len(t) <= Capacity /\ Len(filling) + s <= Capacity
      <4> DEFINE a == Len(filling)
                 c == Len(t)
      <4> HIDE DEF s, a, c
      <4> QED BY <3>2, <3>3, <1>3, <2>2, SMTT(60) DEF a, c
    <3> QED BY <3>1, <3>4
  <2> QED BY <2>1, <2>4 DEF StoresInBuffer
<1>14. stored' \in Nat
  <2>1. Stored(Len(t)) \in Len(t) .. W BY <1>7, StoredIs
  <2>2. Stored(Len(t)) \in Nat
    <3> DEFINE s == Stored(Len(t))
               c == Len(t)
    <3>1. s \in c .. W /\ c \in Nat BY <2>1, <1>3, <1>7
    <3> HIDE DEF s, c
    <3>2. s \in Nat BY <3>1, <1>3
    <3> QED BY <3>2 DEF s
  <2>3. Len(filling) \in Nat /\ stored' = Len(filling) + Stored(Len(t))
    BY <1>2, <1>10
  <2> DEFINE a == Len(filling)
             s == Stored(Len(t))
  <2>4. a \in Nat /\ s \in Nat /\ stored' = a + s BY <2>2, <2>3
  <2> HIDE DEF a, s
  <2> QED BY <2>4
<1>15. first' < Len(text') => Carries(carry', States(text')[first'])
  <2>1. first' < Len(text) => n = W BY <1>4
  <2>2. n = W => Carries(b.carry, States(text)[first + n])
    BY <1>5 DEF BlockFinds
  <2> QED BY <2>1, <2>2, <1>1, <1>2, <1>4
<1>16. TokensExact'
  <2> DEFINE g == Given \o Behind(buffer, ptr)
  <2>1. g \in Seq(Nat)
    <3>1. Behind(buffer, ptr) \in Seq(Nat) BY BehindType
    <3> QED BY <3>1, ConcatProperties
  <2>2. g \o filling = Tokens(text, first) BY <1>1 DEF TokensExact, Behind
  <2>3. (g \o filling) \o more = g \o (filling \o more)
    <3> HIDE DEF g, more
    <3>1. Regroups(g, filling, more) BY <2>1, <1>8, <1>9, Regroup
    <3> QED BY <3>1 DEF Regroups
  <2>4. g \o filling' = Tokens(text, first')
    <3> HIDE DEF g
    <3> QED BY <2>2, <2>3, <1>2, <1>4, <1>6
  <2>5. Given' \o Behind(buffer', ptr') = g BY <1>1, <1>12 DEF Behind
  <2> HIDE DEF g
  <2>6. Given' \o Behind(buffer', ptr') \o filling' = Tokens(text', first')
    BY <2>4, <2>5, <1>1
  <2> QED BY <2>6, <1>11 DEF TokensExact, Behind
<1>17. ReaderType' BY <1>1, <1>3, <1>4, <1>10, <1>14
<1> QED BY <1>1, <1>11, <1>12, <1>13, <1>15, <1>16, <1>17

LEMMA DeliverKeeps ==
  ASSUME ReaderInv, Deliver
  PROVE  ReaderInv'
<1> USE DEF ReaderInv, ReaderType
<1>1. /\ UNCHANGED <<text, first, carry>>
      /\ ~Idle /\ (first = Len(text) \/ ~Room) /\ filling' = NPOS /\ stored' = 0
  BY DEF Deliver
<1>2. Idle' BY <1>1 DEF Idle
<1>3. StoresInBuffer' BY <1>2 DEF StoresInBuffer
<1>4. filling \in Seq(Nat) /\ Len(filling) \in Nat
  BY <1>1, LenProperties DEF Idle
<1>5. ptr = Len(buffer) /\ ~NposGot BY <1>1
<1>6. Given = got BY <1>5, GivenIs
<1>7. Behind(buffer, ptr) = <<>> BY <1>5, BehindAll
<1>8. got \o filling = Tokens(text, first)
  <2>1. got \o <<>> \o filling = Tokens(text, first)
    BY <1>1, <1>6, <1>7 DEF TokensExact, Behind
  <2>2. got \o <<>> = got BY ConcatEmptySeq
  <2> QED BY <2>1, <2>2
<1>9. CASE filling = <<>>
  <2>1. got' = GotNpos /\ UNCHANGED <<buffer, ptr>> BY <1>9 DEF Deliver
  <2>2. Given' = Given /\ got' \in Seq(Nat \cup {NPOS}) BY <2>1, GotNposIs
  <2>3. first = Len(text)
    <3>1. Room
      BY <1>9, ReaderAssumption, WidthAssumption, LenProperties DEF Room, Capacity
    <3> QED BY <3>1, <1>1
  <2>4. TokensExact'
    <3>1. Given' \o Behind(buffer', ptr') \o <<>> = Tokens(text, first)
      <4>1. Given' = got /\ Behind(buffer', ptr') = <<>>
        BY <1>6, <1>7, <2>1, <2>2
      <4>2. got \o <<>> = got /\ got \o <<>> = Tokens(text, first)
        BY <1>8, <1>9, ConcatEmptySeq
      <4>3. got \o <<>> \o <<>> = Tokens(text, first) BY <4>2
      <4> QED BY <4>1, <4>3
    <3> QED BY <3>1, <1>1, <1>2 DEF TokensExact, Behind
  <2>5. ReaderType' BY <1>1, <2>1, <2>2
  <2> QED BY <1>1, <1>2, <1>3, <1>5, <2>1, <2>2, <2>3, <2>4, <2>5
<1>10. CASE filling # <<>>
  <2> DEFINE x == filling[1]
  <2>1. got' = Append(got, x) /\ buffer' = filling /\ ptr' = 1
    BY <1>10 DEF Deliver
  <2>2. 0 < Len(filling) /\ 0 \in 0 .. Len(filling) /\ 0 + 1 = 1 /\ 1 \in 0 .. Len(filling)
    BY <1>4, <1>10, SMTT(60)
  <2>3. x \in Nat /\ Behind(filling, 0) = <<x>> \o Behind(filling, 1)
    BY <1>4, <2>2, BehindNext
  <2>4. Behind(filling, 0) = filling /\ Behind(filling, 1) \in Seq(Nat)
    BY <1>4, <2>2, BehindAll, BehindType
  <2> HIDE DEF x
  <2>5. got' \in Seq(Nat) /\ got' \in Seq(Nat \cup {NPOS}) /\ got' # <<>> /\ Last(got') # NPOS
    BY <1>5, <2>1, <2>3, GivenIs
  <2>6. Given' = got' /\ ~NposGot' BY <2>5 DEF Given, NposGot
  <2>7. got' \o Behind(filling, 1) = Tokens(text, first)
    <3>1. TakesOver(got, x, Behind(filling, 1)) BY <1>6, <2>3, <2>4, TakeNext
    <3>2. got \o (<<x>> \o Behind(filling, 1)) = Tokens(text, first)
      BY <1>8, <2>3, <2>4
    <3>3. Append(got, x) \o Behind(filling, 1) = got \o (<<x>> \o Behind(filling, 1))
      BY <3>1 DEF TakesOver
    <3> QED BY <3>2, <3>3, <2>1
  <2>8. TokensExact'
    <3>1. Given' \o Behind(buffer', ptr') = Tokens(text, first)
      BY <2>1, <2>6, <2>7
    <3>2. Behind(buffer', ptr') \in Seq(Nat) /\ Given' \in Seq(Nat)
      BY <2>1, <2>4, <2>5, <2>6
    <3>3. Given' \o Behind(buffer', ptr') \o <<>> = Tokens(text, first)
      <4> DEFINE s == Given' \o Behind(buffer', ptr')
      <4>1. s \in Seq(Nat) BY <3>2, ConcatProperties
      <4> HIDE DEF s
      <4>2. EmptyBehind(s) BY <4>1, NothingBehind
      <4>3. s \o <<>> = s BY <4>2 DEF EmptyBehind
      <4>4. s \o <<>> = Tokens(text, first) BY <4>3, <3>1 DEF s
      <4> QED BY <4>4 DEF s
    <3> QED BY <3>3, <1>1, <1>2 DEF TokensExact, Behind
  <2>9. ReaderType' BY <1>1, <1>4, <2>1, <2>2, <2>5
  <2> QED BY <1>1, <1>2, <1>3, <2>5, <2>6, <2>8, <2>9
<1> QED BY <1>9, <1>10

LEMMA ReaderStep ==
  ASSUME ReaderInv, ReaderNext
  PROVE  ReaderInv'
BY GetKeeps, GetNposKeeps, RefillKeeps, ReadBlockKeeps, DeliverKeeps DEF ReaderNext

(* A text that has not been read yet. *)
LEMMA ReaderStart == text \in Seq(Classes) /\ NothingRead => ReaderInv
<1> SUFFICES ASSUME text \in Seq(Classes), NothingRead
             PROVE  ReaderInv
  OBVIOUS
<1>1. /\ first = 0 /\ carry = FirstCarry /\ buffer = <<>> /\ ptr = 0
      /\ filling = NPOS /\ stored = 0 /\ got = <<>>
  BY DEF NothingRead
<1>2. Len(text) \in Nat BY LenProperties
<1>3. Idle /\ ~NposGot /\ Given = <<>> BY <1>1 DEF Idle, NposGot, Given
<1>4. ReaderType
  <2>1. <<>> \in Seq(Nat) /\ Len(<<>>) = 0 /\ <<>> \in Seq(Nat \cup {NPOS})
    OBVIOUS
  <2> QED BY <2>1, <1>1, <1>2 DEF ReaderType
<1>5. Carries(carry, States(text)[first]) BY <1>1, <1>2, StartIs, StatesIs
<1>6. TokensExact
  <2>1. Tokens(text, 0) = <<>> BY PlacesIs DEF Tokens
  <2>2. Behind(buffer, ptr) = <<>>
    <3>1. <<>> \in Seq(Nat) /\ Len(<<>>) = 0 OBVIOUS
    <3> QED BY <3>1, <1>1, BehindAll
  <2>3. <<>> \o <<>> \o <<>> = <<>> OBVIOUS
  <2> QED BY <2>1, <2>2, <2>3, <1>1, <1>3 DEF TokensExact, Behind
<1>7. Given \in Seq(Nat) BY <1>3
<1> QED BY <1>1, <1>3, <1>4, <1>5, <1>6, <1>7 DEF ReaderInv, StoresInBuffer

(* npos is behind all tokens. *)
LEMMA NposBehindAll ==
  ASSUME ReaderInv
  PROVE  NposFinal
<1> USE DEF ReaderInv, ReaderType
<1>1. SUFFICES ASSUME NEW i \in DOMAIN got, got[i] = NPOS
               PROVE  i = Len(got) /\ Given = Tokens(text, Len(text))
  BY DEF NposFinal
<1>2. Len(got) \in Nat /\ i \in 1 .. Len(got) /\ got # <<>> BY LenProperties
<1>3. NposGot
  <2> SUFFICES ASSUME ~NposGot PROVE FALSE OBVIOUS
  <2>1. got \in Seq(Nat) BY GivenIs
  <2>2. got[i] \in Nat BY <2>1, <1>2, LenProperties
  <2> QED BY <2>2, <1>1, NposIs
<1>4. Given = Front(got) BY <1>3 DEF NposGot, Given
<1>5. i = Len(got)
  <2> SUFFICES ASSUME i # Len(got) PROVE FALSE OBVIOUS
  <2>1. i \in 1 .. Len(got) - 1 BY <1>2
  <2>2. /\ Len(Front(got)) = Len(got) - 1
        /\ \A j \in 1 .. Len(got) - 1 : Front(got)[j] = got[j]
    <3>1. \A j \in 1 .. Len(got) - 1 : got[j] \in Nat \cup {NPOS}
      BY <1>2, LenProperties
    <3>2. 1 \in Int /\ Len(got) - 1 \in Int /\ 1 <= Len(got) - 1 /\ Len(got) - 1 - 1 + 1 = Len(got) - 1
      BY <1>2, <2>1
    <3>3. /\ Len(SubSeq(got, 1, Len(got) - 1)) = Len(got) - 1 - 1 + 1
          /\ \A j \in 1 .. Len(got) - 1 - 1 + 1 : SubSeq(got, 1, Len(got) - 1)[j] = got[1 + j - 1]
      BY <3>1, <3>2, SubSeqProperties
    <3> QED BY <3>2, <3>3 DEF Front
  <2>3. Given[i] = NPOS /\ i \in 1 .. Len(Given) BY <2>1, <2>2, <1>1, <1>4
  <2>4. Given[i] \in Nat BY <2>3, LenProperties
  <2> QED BY <2>3, <2>4, NposIs
<1>6. Idle /\ ptr = Len(buffer) /\ first = Len(text) BY <1>3
<1>7. Given \o <<>> \o <<>> = Tokens(text, Len(text))
  <2>1. Behind(buffer, ptr) = <<>> BY <1>6, BehindAll
  <2> QED BY <2>1, <1>6 DEF TokensExact, Behind
<1>8. Given \o <<>> \o <<>> = Given BY ConcatEmptySeq
<1> QED BY <1>5, <1>7, <1>8

-----------------------------------------------------------------------------
(* The writes of minify. *)

LEMMA DiffTableCounts ==
  ASSUME NEW a \in {0, 1}, NEW b \in {0, 1}, NEW c \in {0, 1}, NEW d \in {0, 1}
  PROVE  /\ DiffTable[(a + 2 * b + 4 * c + 8 * d) + 1][1] = 1 - a
         /\ DiffTable[(a + 2 * b + 4 * c + 8 * d) + 1][2] = (1 - a) + (1 - b)
         /\ DiffTable[(a + 2 * b + 4 * c + 8 * d) + 1][3] = (1 - a) + (1 - b) + (1 - c)
         /\ DiffTable[(a + 2 * b + 4 * c + 8 * d) + 1][4] = (1 - a) + (1 - b) + (1 - c) + (1 - d)
<1>1. CASE a = 0 /\ b = 0 BY <1>1 DEF DiffTable
<1>2. CASE a = 1 /\ b = 0 BY <1>2 DEF DiffTable
<1>3. CASE a = 0 /\ b = 1 BY <1>3 DEF DiffTable
<1>4. CASE a = 1 /\ b = 1 BY <1>4 DEF DiffTable
<1> QED BY <1>1, <1>2, <1>3, <1>4

LEMMA PutIs ==
  ASSUME NEW f, NEW q, NEW at, NEW c
  PROVE  Put([mem |-> f, dst |-> q], at, c) = [mem |-> [f EXCEPT ![q + at + 1] = c], dst |-> q]
BY DEF Put

MinifyPlaces ==
  /\ Len(source) \in Nat
  /\ lexed \in 0 .. Len(source) /\ written \in 0 .. lexed

(* The first j characters of a block are written: those of K behind what *)
(* was written before, and what is behind them all is as it was. *)
Wrote(f, j, was, K) ==
  /\ f \in [1 .. Len(source) -> Int]
  /\ \A x \in 1 .. Len(Places(K, j)) : f[written + x] = lexed + Places(K, j)[x]
  /\ \A p \in 1 .. Len(source) : p <= written \/ p > lexed + j => f[p] = was[p]

(* How many of the first j characters are to be kept. *)
Counted(K, j) == Len(Places(K, j))

LEMMA CountedIs ==
  ASSUME NEW K, NEW j \in Nat
  PROVE  Counted(K, j) \in 0 .. j /\ Counted(K, j + 1) = Counted(K, j) + Bit(K, j)
<1> DEFINE p == Places(K, j)
<1>1. p \in Seq(Nat) /\ Len(p) \in 0 .. j BY PlacesAre
<1>2. Places(K, j + 1) = IF j \in K THEN Append(p, j) ELSE p BY PlacesIs
<1> HIDE DEF p
<1>3. Len(Append(p, j)) = Len(p) + 1 BY <1>1
<1>4. Len(Places(K, j + 1)) = Len(p) + Bit(K, j)
  <2>1. CASE j \in K BY <2>1, <1>2, <1>3 DEF Bit
  <2>2. CASE j \notin K
    <3>1. Len(Places(K, j + 1)) = Len(p) /\ Bit(K, j) = 0 BY <2>2, <1>2 DEF Bit
    <3> QED BY <3>1, <1>1
  <2> QED BY <2>1, <2>2
<1> QED BY <1>1, <1>4 DEF Counted, p

(* The next character is written behind the others, and counts or not. *)
LEMMA WriteNext ==
  ASSUME MinifyPlaces, NEW was, NEW K, NEW j \in Nat, lexed + j < Len(source), NEW f, Wrote(f, j, was, K)
  PROVE  Wrote([f EXCEPT ![written + Counted(K, j) + 1] = lexed + j], j + 1, was, K)
<1> DEFINE p == Places(K, j)
           q == Places(K, j + 1)
           at == written + Counted(K, j) + 1
           g == [f EXCEPT ![at] = lexed + j]
<1>1. p \in Seq(Nat) /\ Len(p) \in 0 .. j /\ Len(p) = Counted(K, j)
  BY PlacesAre DEF Counted
<1>2. q = IF j \in K THEN Append(p, j) ELSE p BY PlacesIs
<1>3. /\ Len(source) \in Nat /\ lexed \in Nat /\ written \in Nat /\ written <= lexed
      /\ at \in 1 .. Len(source) /\ at <= lexed + j + 1 /\ at > written /\ lexed + j \in Int
  BY <1>1, SMTT(60) DEF MinifyPlaces
<1>4. f \in [1 .. Len(source) -> Int] BY DEF Wrote
<1> HIDE DEF p, q, at
<1>5. g \in [1 .. Len(source) -> Int] /\ g[at] = lexed + j /\ \A x \in 1 .. Len(source) : x # at => g[x] = f[x]
  BY <1>3, <1>4
<1> HIDE DEF g
<1>6. \A x \in 1 .. Len(q) : g[written + x] = lexed + q[x]
  <2> TAKE x \in 1 .. Len(q)
  <2>1. CASE x \in 1 .. Len(p)
    <3>1. q[x] = p[x] BY <2>1, <1>1, <1>2
    <3>2. f[written + x] = lexed + p[x] BY <2>1 DEF Wrote, p
    <3>3. written + x \in 1 .. Len(source) /\ written + x # at
      BY <2>1, <1>1, <1>3, SMTT(60) DEF at
    <3> QED BY <3>1, <3>2, <3>3, <1>5
  <2>2. CASE x \notin 1 .. Len(p)
    <3>1. j \in K /\ x = Len(p) + 1 /\ q[x] = j BY <2>2, <1>1, <1>2
    <3>2. written + x = at BY <3>1, <1>1, <1>3, SMTT(60) DEF at
    <3> QED BY <3>1, <3>2, <1>5
  <2> QED BY <2>1, <2>2
<1>7. \A x \in 1 .. Len(source) : x <= written \/ x > lexed + (j + 1) => g[x] = was[x]
  <2> TAKE x \in 1 .. Len(source)
  <2> HAVE x <= written \/ x > lexed + (j + 1)
  <2>1. x # at /\ (x <= written \/ x > lexed + j) BY <1>3
  <2>2. f[x] = was[x] BY <2>1 DEF Wrote
  <2> QED BY <2>1, <2>2, <1>5
<1> QED BY <1>5, <1>6, <1>7 DEF Wrote, q, g, at

(* One that goes need not be written. *)
LEMMA WriteNone ==
  ASSUME MinifyPlaces, NEW was, NEW K, NEW j \in Nat, j \notin K, NEW f, Wrote(f, j, was, K)
  PROVE  Wrote(f, j + 1, was, K)
<1>1. Places(K, j + 1) = Places(K, j) BY PlacesIs
<1>2. lexed \in Nat BY DEF MinifyPlaces
<1>3. \A x \in 1 .. Len(source) : x > lexed + (j + 1) => x > lexed + j BY <1>2
<1> QED BY <1>1, <1>3 DEF Wrote

(* A block of n characters as minify meets it: where they are read they are *)
(* those of the text, from lexed on, and K are those to be kept. *)
ToWrite(n, chars, white, alias, was, K) ==
  /\ MinifyPlaces
  /\ n \in Nat /\ lexed + n <= Len(source)
  /\ \A i \in 0 .. n - 1 : chars[i + 1] = lexed + i
  /\ \A i \in 0 .. n - 1 : i \in white <=> i \notin K
  /\ alias => \A i \in 0 .. n - 1 : was[(lexed + i) + 1] = lexed + i

Reached(m, j, was, K) ==
  \E f : m = [mem |-> f, dst |-> written + Counted(K, j)] /\ Wrote(f, j, was, K)

(* A character that has not been written over is read. *)
LEMMA ReadsNext ==
  ASSUME NEW n, NEW chars, NEW white, NEW alias \in BOOLEAN, NEW was, NEW K,
         ToWrite(n, chars, white, alias, was, K),
         NEW j \in Nat, j < n, NEW f, Wrote(f, j, was, K)
  PROVE  (IF alias THEN f[(lexed + j) + 1] ELSE chars[j + 1]) = lexed + j
<1>1. n \in Nat /\ lexed \in Nat /\ Len(source) \in Nat /\ written \in Nat /\ lexed + n <= Len(source) /\ j \in 0 .. n - 1
  BY DEF ToWrite, MinifyPlaces
<1>2. (lexed + j) + 1 \in 1 .. Len(source) /\ (lexed + j) + 1 > lexed + j
  BY <1>1
<1>3. f[(lexed + j) + 1] = was[(lexed + j) + 1] BY <1>2 DEF Wrote
<1>4. chars[j + 1] = lexed + j BY <1>1 DEF ToWrite
<1>5. alias => was[(lexed + j) + 1] = lexed + j BY <1>1 DEF ToWrite
<1> QED BY <1>3, <1>4, <1>5

LEMMA SingleWrites ==
  ASSUME NEW n, NEW chars, NEW white, NEW alias \in BOOLEAN, NEW was, NEW K,
         ToWrite(n, chars, white, alias, was, K),
         NEW j \in Nat, j < n, NEW m, Reached(m, j, was, K)
  PROVE  Reached(Single(m, chars, white, j, alias), j + 1, was, K)
<1> PICK f : m = [mem |-> f, dst |-> written + Counted(K, j)] /\ Wrote(f, j, was, K)
  BY DEF Reached
<1> DEFINE q == written + Counted(K, j)
           c == IF alias THEN m.mem[lexed + j + 1] ELSE chars[j + 1]
           g == [f EXCEPT ![q + 1] = lexed + j]
<1>1. MinifyPlaces /\ lexed \in Nat /\ written \in Nat /\ Len(source) \in Nat /\ lexed + j < Len(source) /\ j \in 0 .. n - 1
  BY DEF ToWrite, MinifyPlaces
<1>2. Counted(K, j) \in Nat /\ Counted(K, j + 1) = Counted(K, j) + Bit(K, j)
  BY CountedIs
<1>3. j \in white <=> j \notin K BY <1>1 DEF ToWrite
<1>4. CASE j \in white
  <2>1. Single(m, chars, white, j, alias) = m BY <1>4 DEF Single
  <2>2. Counted(K, j + 1) = Counted(K, j) BY <1>2, <1>3, <1>4 DEF Bit
  <2>3. Wrote(f, j + 1, was, K) BY <1>1, <1>3, <1>4, WriteNone
  <2> QED BY <2>1, <2>2, <2>3 DEF Reached
<1>5. CASE j \notin white
  <2>1. Single(m, chars, white, j, alias) = [Put(m, 0, c) EXCEPT !.dst = @ + 1]
    BY <1>5 DEF Single
  <2>2. c = lexed + j
    <3>1. (IF alias THEN f[(lexed + j) + 1] ELSE chars[j + 1]) = lexed + j
      BY ReadsNext
    <3>2. m.mem = f OBVIOUS
    <3> QED BY <3>1, <3>2
  <2> HIDE DEF c
  <2>3. Put(m, 0, c) = [mem |-> g, dst |-> q]
    <3>1. q \in Nat /\ q + 0 + 1 = q + 1 BY <1>1, <1>2
    <3> QED BY <2>2, <3>1, PutIs
  <2>4. Wrote(g, j + 1, was, K) BY <1>1, WriteNext
  <2>5. q + 1 = written + Counted(K, j + 1) BY <1>1, <1>2, <1>3, <1>5 DEF Bit
  <2> HIDE DEF g, q
  <2>6. Single(m, chars, white, j, alias) = [mem |-> g, dst |-> q + 1]
    BY <2>1, <2>3
  <2> QED BY <2>4, <2>5, <2>6 DEF Reached
<1> QED BY <1>4, <1>5

Distances(w, k, a, b, c, d) ==
  /\ w + (k + a) = (w + k) + a
  /\ w + (k + a + b) = (w + k) + (a + b)
  /\ w + (k + a + b + c) = (w + k) + (a + b + c)
  /\ w + (k + a + b + c + d) = (w + k) + (a + b + c + d)

LEMMA DistancesAdd ==
  ASSUME NEW w \in Int, NEW k \in Int, NEW a \in Int, NEW b \in Int, NEW c \in Int, NEW d \in Int
  PROVE  Distances(w, k, a, b, c, d)
BY DEF Distances

LEMMA GroupWrites ==
  ASSUME NEW n, NEW chars, NEW white, NEW alias \in BOOLEAN, NEW was, NEW K,
         ToWrite(n, chars, white, alias, was, K),
         NEW j \in Nat, j + 3 < n, NEW m, Reached(m, j, was, K)
  PROVE  Reached(Group(m, chars, white, j, alias), j + 4, was, K)
<1> PICK f : m = [mem |-> f, dst |-> written + Counted(K, j)] /\ Wrote(f, j, was, K)
  BY DEF Reached
<1> DEFINE q == written + Counted(K, j)
           bit(i) == IF i \in white THEN 1 ELSE 0
           X == (IF j \in white THEN 1 ELSE 0) + (IF j + 1 \in white THEN 2 ELSE 0)
                  + (IF j + 2 \in white THEN 4 ELSE 0) + (IF j + 3 \in white THEN 8 ELSE 0)
           to == DiffTable[X + 1]
           ch(now, k) == IF alias THEN now.mem[lexed + j + k + 1] ELSE chars[j + k + 1]
           m0 == Put(m, 0, ch(m, 0))
           m1 == Put(m0, to[1], ch(m0, 1))
           m2 == Put(m1, to[2], ch(m1, 2))
           m3 == Put(m2, to[3], ch(m2, 3))
           f0 == [f EXCEPT ![written + Counted(K, j) + 1] = lexed + j]
           f1 == [f0 EXCEPT ![written + Counted(K, j + 1) + 1] = lexed + (j + 1)]
           f2 == [f1 EXCEPT ![written + Counted(K, j + 2) + 1] = lexed + (j + 2)]
           f3 == [f2 EXCEPT ![written + Counted(K, j + 3) + 1] = lexed + (j + 3)]
<1>1. Group(m, chars, white, j, alias) = [m3 EXCEPT !.dst = @ + to[4]]
  BY DEF Group
<1>2. /\ MinifyPlaces /\ lexed \in Nat /\ written \in Nat /\ Len(source) \in Nat /\ n \in Nat /\ lexed + n <= Len(source)
      /\ j \in 0 .. n - 1 /\ j + 1 \in 0 .. n - 1 /\ j + 2 \in 0 .. n - 1 /\ j + 3 \in 0 .. n - 1
      /\ lexed + j < Len(source) /\ lexed + (j + 1) < Len(source) /\ lexed + (j + 2) < Len(source) /\ lexed + (j + 3) < Len(source)
      /\ (j + 1) + 1 = j + 2 /\ (j + 2) + 1 = j + 3 /\ (j + 3) + 1 = j + 4 /\ j + 1 \in Nat /\ j + 2 \in Nat /\ j + 3 \in Nat
  BY DEF ToWrite, MinifyPlaces
<1>3. /\ Counted(K, j) \in Nat
      /\ Counted(K, j + 1) = Counted(K, j) + Bit(K, j)
      /\ Counted(K, j + 2) = Counted(K, j + 1) + Bit(K, j + 1)
      /\ Counted(K, j + 3) = Counted(K, j + 2) + Bit(K, j + 2)
      /\ Counted(K, j + 4) = Counted(K, j + 3) + Bit(K, j + 3)
  <2>1. Counted(K, j) \in Nat /\ Counted(K, j + 1) = Counted(K, j) + Bit(K, j)
    BY CountedIs
  <2>2. Counted(K, j + 2) = Counted(K, j + 1) + Bit(K, j + 1) BY <1>2, CountedIs
  <2>3. Counted(K, j + 3) = Counted(K, j + 2) + Bit(K, j + 2) BY <1>2, CountedIs
  <2>4. Counted(K, j + 4) = Counted(K, j + 3) + Bit(K, j + 3) BY <1>2, CountedIs
  <2> QED BY <2>1, <2>2, <2>3, <2>4
<1>4. /\ Bit(K, j) = 1 - bit(j) /\ Bit(K, j + 1) = 1 - bit(j + 1)
      /\ Bit(K, j + 2) = 1 - bit(j + 2) /\ Bit(K, j + 3) = 1 - bit(j + 3)
  <2>1. \A i \in 0 .. n - 1 : Bit(K, i) = 1 - bit(i) BY DEF ToWrite, Bit
  <2> QED BY <2>1, <1>2
<1>5. /\ to[1] = 1 - bit(j)
      /\ to[2] = (1 - bit(j)) + (1 - bit(j + 1))
      /\ to[3] = (1 - bit(j)) + (1 - bit(j + 1)) + (1 - bit(j + 2))
      /\ to[4] = (1 - bit(j)) + (1 - bit(j + 1)) + (1 - bit(j + 2)) + (1 - bit(j + 3))
  <2>1. X = bit(j) + 2 * bit(j + 1) + 4 * bit(j + 2) + 8 * bit(j + 3) OBVIOUS
  <2>2. bit(j) \in {0, 1} /\ bit(j + 1) \in {0, 1} /\ bit(j + 2) \in {0, 1} /\ bit(j + 3) \in {0, 1}
    OBVIOUS
  <2> HIDE DEF bit, X
  <2> QED BY <2>1, <2>2, DiffTableCounts
<1> HIDE DEF X, to
<1>6. /\ written + Counted(K, j + 1) = q + to[1] /\ written + Counted(K, j + 2) = q + to[2]
      /\ written + Counted(K, j + 3) = q + to[3] /\ written + Counted(K, j + 4) = q + to[4]
  <2>1. bit(j) \in Int /\ bit(j + 1) \in Int /\ bit(j + 2) \in Int /\ bit(j + 3) \in Int
    OBVIOUS
  <2> HIDE DEF bit
  <2> DEFINE k0 == Counted(K, j)
             b0 == bit(j)
             b1 == bit(j + 1)
             b2 == bit(j + 2)
             b3 == bit(j + 3)
  <2>2. /\ Counted(K, j + 1) = k0 + (1 - b0)
        /\ Counted(K, j + 2) = k0 + (1 - b0) + (1 - b1)
        /\ Counted(K, j + 3) = k0 + (1 - b0) + (1 - b1) + (1 - b2)
        /\ Counted(K, j + 4) = k0 + (1 - b0) + (1 - b1) + (1 - b2) + (1 - b3)
    BY <1>3, <1>4
  <2>3. k0 \in Int /\ b0 \in Int /\ b1 \in Int /\ b2 \in Int /\ b3 \in Int /\ q = written + k0
    BY <2>1, <1>3
  <2>4. /\ to[1] = 1 - b0 /\ to[2] = (1 - b0) + (1 - b1) /\ to[3] = (1 - b0) + (1 - b1) + (1 - b2)
        /\ to[4] = (1 - b0) + (1 - b1) + (1 - b2) + (1 - b3)
    BY <1>5
  <2> HIDE DEF k0, b0, b1, b2, b3, q
  <2>5. Distances(written, k0, 1 - b0, 1 - b1, 1 - b2, 1 - b3)
    <3>1. written \in Int /\ k0 \in Int /\ 1 - b0 \in Int /\ 1 - b1 \in Int /\ 1 - b2 \in Int /\ 1 - b3 \in Int
      BY <2>3, <1>2
    <3> QED BY <3>1, DistancesAdd
  <2> QED BY <2>2, <2>3, <2>4, <2>5, Zenon DEF Distances
<1> HIDE DEF bit
<1>7. /\ lexed + j + 0 + 1 = (lexed + j) + 1 /\ j + 0 + 1 = j + 1
      /\ lexed + j + 1 + 1 = (lexed + (j + 1)) + 1 /\ j + 1 + 1 = (j + 1) + 1
      /\ lexed + j + 2 + 1 = (lexed + (j + 2)) + 1 /\ j + 2 + 1 = (j + 2) + 1
      /\ lexed + j + 3 + 1 = (lexed + (j + 3)) + 1 /\ j + 3 + 1 = (j + 3) + 1
      /\ q \in Nat /\ q + 0 + 1 = q + 1
  <2>1. Counted(K, j) \in Nat BY <1>3
  <2>2. q \in Nat /\ q + 0 + 1 = q + 1 BY <2>1, <1>2
  <2> QED BY <2>2, <1>2
<1>8. m0 = [mem |-> f0, dst |-> q] /\ Wrote(f0, j + 1, was, K)
  <2>1. ch(m, 0) = lexed + j
    <3>1. (IF alias THEN f[(lexed + j) + 1] ELSE chars[j + 1]) = lexed + j
      BY <1>2, ReadsNext
    <3>2. m.mem = f OBVIOUS
    <3> QED BY <3>1, <3>2, <1>7
  <2> HIDE DEF ch
  <2>2. m0 = [mem |-> f0, dst |-> q] BY <2>1, <1>7, PutIs
  <2>3. Wrote(f0, j + 1, was, K) BY <1>2, WriteNext
  <2> QED BY <2>2, <2>3
<1> HIDE DEF f0, m0
<1>9. m1 = [mem |-> f1, dst |-> q] /\ Wrote(f1, j + 2, was, K)
  <2>1. ch(m0, 1) = lexed + (j + 1)
    <3>1. (IF alias THEN f0[(lexed + (j + 1)) + 1] ELSE chars[(j + 1) + 1]) = lexed + (j + 1)
      BY <1>2, <1>8, ReadsNext
    <3>2. m0.mem = f0 BY <1>8
    <3> QED BY <3>1, <3>2, <1>7
  <2> HIDE DEF ch
  <2>2. m1 = [mem |-> f1, dst |-> q] BY <2>1, <1>6, <1>8, PutIs
  <2>3. Wrote(f1, j + 2, was, K) BY <1>2, <1>8, WriteNext
  <2> QED BY <2>2, <2>3
<1> HIDE DEF f1, m1
<1>10. m2 = [mem |-> f2, dst |-> q] /\ Wrote(f2, j + 3, was, K)
  <2>1. ch(m1, 2) = lexed + (j + 2)
    <3>1. (IF alias THEN f1[(lexed + (j + 2)) + 1] ELSE chars[(j + 2) + 1]) = lexed + (j + 2)
      BY <1>2, <1>9, ReadsNext
    <3>2. m1.mem = f1 BY <1>9
    <3> QED BY <3>1, <3>2, <1>7
  <2> HIDE DEF ch
  <2>2. m2 = [mem |-> f2, dst |-> q] BY <2>1, <1>6, <1>9, PutIs
  <2>3. Wrote(f2, j + 3, was, K) BY <1>2, <1>9, WriteNext
  <2> QED BY <2>2, <2>3
<1> HIDE DEF f2, m2
<1>11. m3 = [mem |-> f3, dst |-> q] /\ Wrote(f3, j + 4, was, K)
  <2>1. ch(m2, 3) = lexed + (j + 3)
    <3>1. (IF alias THEN f2[(lexed + (j + 3)) + 1] ELSE chars[(j + 3) + 1]) = lexed + (j + 3)
      BY <1>2, <1>10, ReadsNext
    <3>2. m2.mem = f2 BY <1>10
    <3> QED BY <3>1, <3>2, <1>7
  <2> HIDE DEF ch
  <2>2. m3 = [mem |-> f3, dst |-> q] BY <2>1, <1>6, <1>10, PutIs
  <2>3. Wrote(f3, j + 4, was, K) BY <1>2, <1>10, WriteNext
  <2> QED BY <2>2, <2>3
<1> HIDE DEF f3, m3
<1>12. Group(m, chars, white, j, alias) = [mem |-> f3, dst |-> q + to[4]]
  BY <1>1, <1>11
<1> QED BY <1>6, <1>11, <1>12 DEF Reached

LEMMA ReachedType ==
  ASSUME MinifyPlaces, NEW m, NEW j \in Nat, NEW was, NEW K, Reached(m, j, was, K)
  PROVE  m \in [mem : [1 .. Len(source) -> Int], dst : Nat]
<1>1. PICK f : m = [mem |-> f, dst |-> written + Counted(K, j)] /\ Wrote(f, j, was, K)
  BY DEF Reached
<1>2. written + Counted(K, j) \in Nat BY CountedIs DEF MinifyPlaces
<1>3. f \in [1 .. Len(source) -> Int] BY <1>1 DEF Wrote
<1> QED BY <1>1, <1>2, <1>3

(* The loop over the groups, and the one over the rest. *)
Groups(n, m, chars, white, alias, h) ==
  h = [g \in 0 .. n \div 4 |-> IF g = 0 THEN m ELSE Group(h[g - 1], chars, white, 4 * (g - 1), alias)]

Singles(n, m, chars, white, alias, h) ==
  h = [k \in 0 .. n % 4 |->
        IF k = 0 THEN m ELSE Single(h[k - 1], chars, white, 4 * (n \div 4) + k - 1, alias)]

LEMMA GroupsWrite ==
  ASSUME NEW n, NEW chars, NEW white, NEW alias \in BOOLEAN, NEW was, NEW K,
         ToWrite(n, chars, white, alias, was, K), NEW m, Reached(m, 0, was, K)
  PROVE  /\ \E h : Groups(n, m, chars, white, alias, h)
         /\ \A h : Groups(n, m, chars, white, alias, h) => Reached(h[n \div 4], 4 * (n \div 4), was, K)
<1> DEFINE V == [mem : [1 .. Len(source) -> Int], dst : Nat]
           l == n \div 4
           Next1(v, g) == Group(v, chars, white, 4 * (g - 1), alias)
           F == [g \in 1 .. l |-> [v \in V |-> IF Next1(v, g) \in V THEN Next1(v, g) ELSE v]]
<1>1. n \in Nat /\ l \in Nat /\ 4 * l <= n /\ MinifyPlaces BY DEF ToWrite
<1>2. \A g \in 0 .. l - 1 : \A v : Reached(v, 4 * g, was, K) => Reached(Next1(v, g + 1), 4 * (g + 1), was, K)
  <2> TAKE g \in 0 .. l - 1
  <2> TAKE v
  <2> HAVE Reached(v, 4 * g, was, K)
  <2>1. 4 * g \in Nat /\ 4 * g + 3 < n /\ 4 * g + 4 = 4 * (g + 1) /\ (g + 1) - 1 = g
    BY <1>1
  <2>2. Reached(Group(v, chars, white, 4 * g, alias), 4 * g + 4, was, K)
    BY <2>1, GroupWrites
  <2> QED BY <2>1, <2>2
<1>3. \A g \in 0 .. l : \A v : Reached(v, 4 * g, was, K) => v \in V
  <2>1. \A g \in 0 .. l : 4 * g \in Nat BY <1>1
  <2> QED BY <2>1, <1>1, ReachedType
<1>4. Reached(m, 4 * 0, was, K) /\ m \in V
  <2>1. 4 * 0 = 0 /\ 0 \in 0 .. l BY <1>1
  <2> QED BY <2>1, <1>3
<1> HIDE DEF l, V, Next1
<1>5. \E h : Groups(n, m, chars, white, alias, h)
  <2>1. \A v \in V, g \in 1 .. l : F[g][v] \in V OBVIOUS
  <2>2. \A g \in 0 .. l - 1 : \A v : Reached(v, 4 * g, was, K) => v \in V /\ F[g + 1][v] = Next1(v, g + 1)
    <3> TAKE g \in 0 .. l - 1
    <3> TAKE v
    <3> HAVE Reached(v, 4 * g, was, K)
    <3>1. g + 1 \in 1 .. l /\ g + 1 \in 0 .. l /\ g \in 0 .. l BY <1>1
    <3>2. v \in V /\ Next1(v, g + 1) \in V BY <3>1, <1>2, <1>3
    <3> QED BY <3>1, <3>2
  <2> HIDE DEF F
  <2>3. PICK h \in [0 .. l -> V] : Recursive(l, m, F, h)
    BY <2>1, <1>1, <1>4, RecursiveExists
  <2>4. h[0] = m /\ \A g \in 0 .. l - 1 : h[g + 1] = F[g + 1][h[g]]
    <3>1. \A g \in 0 .. l - 1 : g + 1 \in 0 .. l /\ g + 1 # 0 /\ (g + 1) - 1 = g
      BY <1>1
    <3> QED BY <3>1, <2>3, <1>1 DEF Recursive
  <2> DEFINE S == {g \in 0 .. l : Reached(h[g], 4 * g, was, K)}
  <2>5. 0 \in S BY <2>4, <1>1, <1>4
  <2>6. \A g \in 0 .. l - 1 : g \in S => g + 1 \in S
    <3> TAKE g \in 0 .. l - 1
    <3> HAVE g \in S
    <3>1. Reached(h[g], 4 * g, was, K) /\ g + 1 \in 0 .. l BY <1>1
    <3>2. h[g + 1] = Next1(h[g], g + 1) BY <3>1, <2>2, <2>4
    <3>3. Reached(Next1(h[g], g + 1), 4 * (g + 1), was, K) BY <3>1, <1>2
    <3> QED BY <3>1, <3>2, <3>3
  <2>7. 0 .. l \subseteq S
    <3> HIDE DEF S
    <3> QED BY <2>5, <2>6, <1>1, Climb
  <2>8. \A g \in 1 .. l : F[g][h[g - 1]] = Next1(h[g - 1], g)
    <3> TAKE g \in 1 .. l
    <3>1. g - 1 \in 0 .. l - 1 /\ g - 1 \in 0 .. l /\ (g - 1) + 1 = g BY <1>1
    <3>2. Reached(h[g - 1], 4 * (g - 1), was, K) BY <3>1, <2>7
    <3> QED BY <3>1, <3>2, <2>2
  <2> HIDE DEF S
  <2>9. h = [g \in 0 .. l |-> IF g = 0 THEN m ELSE F[g][h[g - 1]]]
    BY <2>3 DEF Recursive
  <2>10. \A g \in 0 .. l : g = 0 \/ g \in 1 .. l BY <1>1
  <2>11. h = [g \in 0 .. l |-> IF g = 0 THEN m ELSE Next1(h[g - 1], g)]
    BY <2>8, <2>9, <2>10
  <2> QED BY <2>11 DEF Groups, l, Next1
<1>6. \A h : Groups(n, m, chars, white, alias, h) => Reached(h[l], 4 * l, was, K)
  <2> TAKE h
  <2> HAVE Groups(n, m, chars, white, alias, h)
  <2>1. h = [g \in 0 .. l |-> IF g = 0 THEN m ELSE Next1(h[g - 1], g)]
    BY DEF Groups, l, Next1
  <2>2. h[0] = m /\ \A g \in 0 .. l - 1 : h[g + 1] = Next1(h[g], g + 1)
    <3>1. 0 \in 0 .. l /\ \A g \in 0 .. l - 1 : g + 1 \in 0 .. l /\ g + 1 # 0 /\ (g + 1) - 1 = g
      BY <1>1
    <3> QED BY <3>1, <2>1
  <2> DEFINE S == {g \in 0 .. l : Reached(h[g], 4 * g, was, K)}
  <2>3. 0 \in S BY <2>2, <1>1, <1>4
  <2>4. \A g \in 0 .. l - 1 : g \in S => g + 1 \in S
    <3> TAKE g \in 0 .. l - 1
    <3> HAVE g \in S
    <3>1. Reached(h[g], 4 * g, was, K) /\ g + 1 \in 0 .. l BY <1>1
    <3> QED BY <3>1, <1>2, <2>2
  <2>5. 0 .. l \subseteq S
    <3> HIDE DEF S
    <3> QED BY <2>3, <2>4, <1>1, Climb
  <2> QED BY <2>5, <1>1
<1> QED BY <1>5, <1>6 DEF l

LEMMA SinglesWrite ==
  ASSUME NEW n, NEW chars, NEW white, NEW alias \in BOOLEAN, NEW was, NEW K,
         ToWrite(n, chars, white, alias, was, K), NEW m, Reached(m, 4 * (n \div 4), was, K)
  PROVE  /\ \E h : Singles(n, m, chars, white, alias, h)
         /\ \A h : Singles(n, m, chars, white, alias, h) => Reached(h[n % 4], n, was, K)
<1> DEFINE V == [mem : [1 .. Len(source) -> Int], dst : Nat]
           b == 4 * (n \div 4)
           l == n % 4
           Next1(v, k) == Single(v, chars, white, b + k - 1, alias)
           F == [k \in 1 .. l |-> [v \in V |-> IF Next1(v, k) \in V THEN Next1(v, k) ELSE v]]
<1>1. n \in Nat /\ l \in Nat /\ b \in Nat /\ b + l = n /\ MinifyPlaces
  BY DEF ToWrite
<1> HIDE DEF b, l
<1>2. \A k \in 0 .. l - 1 : \A v : Reached(v, b + k, was, K) => Reached(Next1(v, k + 1), b + (k + 1), was, K)
  <2> TAKE k \in 0 .. l - 1
  <2> TAKE v
  <2> HAVE Reached(v, b + k, was, K)
  <2>1. b + k \in Nat /\ b + k < n /\ (b + k) + 1 = b + (k + 1) /\ b + (k + 1) - 1 = b + k
    BY <1>1
  <2>2. Reached(Single(v, chars, white, b + k, alias), (b + k) + 1, was, K)
    BY <2>1, SingleWrites
  <2> QED BY <2>1, <2>2
<1>3. \A k \in 0 .. l : \A v : Reached(v, b + k, was, K) => v \in V
  <2>1. \A k \in 0 .. l : b + k \in Nat BY <1>1
  <2> QED BY <2>1, <1>1, ReachedType
<1>4. Reached(m, b + 0, was, K) /\ m \in V
  <2>1. b + 0 = b /\ 0 \in 0 .. l BY <1>1
  <2>2. Reached(m, b, was, K) BY DEF b
  <2> QED BY <2>1, <2>2, <1>3
<1> HIDE DEF V, Next1
<1>5. \E h : Singles(n, m, chars, white, alias, h)
  <2>1. \A v \in V, k \in 1 .. l : F[k][v] \in V OBVIOUS
  <2>2. \A k \in 0 .. l - 1 : \A v : Reached(v, b + k, was, K) => v \in V /\ F[k + 1][v] = Next1(v, k + 1)
    <3> TAKE k \in 0 .. l - 1
    <3> TAKE v
    <3> HAVE Reached(v, b + k, was, K)
    <3>1. k + 1 \in 1 .. l /\ k + 1 \in 0 .. l /\ k \in 0 .. l BY <1>1
    <3>2. v \in V /\ Next1(v, k + 1) \in V BY <3>1, <1>2, <1>3
    <3> QED BY <3>1, <3>2
  <2> HIDE DEF F
  <2>3. PICK h \in [0 .. l -> V] : Recursive(l, m, F, h)
    BY <2>1, <1>1, <1>4, RecursiveExists
  <2>4. h[0] = m /\ \A k \in 0 .. l - 1 : h[k + 1] = F[k + 1][h[k]]
    <3>1. \A k \in 0 .. l - 1 : k + 1 \in 0 .. l /\ k + 1 # 0 /\ (k + 1) - 1 = k
      BY <1>1
    <3> QED BY <3>1, <2>3, <1>1 DEF Recursive
  <2> DEFINE S == {k \in 0 .. l : Reached(h[k], b + k, was, K)}
  <2>5. 0 \in S BY <2>4, <1>1, <1>4
  <2>6. \A k \in 0 .. l - 1 : k \in S => k + 1 \in S
    <3> TAKE k \in 0 .. l - 1
    <3> HAVE k \in S
    <3>1. Reached(h[k], b + k, was, K) /\ k + 1 \in 0 .. l BY <1>1
    <3>2. h[k + 1] = Next1(h[k], k + 1) BY <3>1, <2>2, <2>4
    <3>3. Reached(Next1(h[k], k + 1), b + (k + 1), was, K) BY <3>1, <1>2
    <3> QED BY <3>1, <3>2, <3>3
  <2>7. 0 .. l \subseteq S
    <3> HIDE DEF S
    <3> QED BY <2>5, <2>6, <1>1, Climb
  <2>8. \A k \in 1 .. l : F[k][h[k - 1]] = Next1(h[k - 1], k)
    <3> TAKE k \in 1 .. l
    <3>1. k - 1 \in 0 .. l - 1 /\ k - 1 \in 0 .. l /\ (k - 1) + 1 = k BY <1>1
    <3>2. Reached(h[k - 1], b + (k - 1), was, K) BY <3>1, <2>7
    <3> QED BY <3>1, <3>2, <2>2
  <2> HIDE DEF S
  <2>9. h = [k \in 0 .. l |-> IF k = 0 THEN m ELSE F[k][h[k - 1]]]
    BY <2>3 DEF Recursive
  <2>10. \A k \in 0 .. l : k = 0 \/ k \in 1 .. l BY <1>1
  <2>11. h = [k \in 0 .. l |-> IF k = 0 THEN m ELSE Next1(h[k - 1], k)]
    BY <2>8, <2>9, <2>10
  <2> QED BY <2>11 DEF Singles, l, b, Next1
<1>6. \A h : Singles(n, m, chars, white, alias, h) => Reached(h[l], b + l, was, K)
  <2> TAKE h
  <2> HAVE Singles(n, m, chars, white, alias, h)
  <2>1. h = [k \in 0 .. l |-> IF k = 0 THEN m ELSE Next1(h[k - 1], k)]
    BY DEF Singles, l, b, Next1
  <2>2. h[0] = m /\ \A k \in 0 .. l - 1 : h[k + 1] = Next1(h[k], k + 1)
    <3>1. 0 \in 0 .. l /\ \A k \in 0 .. l - 1 : k + 1 \in 0 .. l /\ k + 1 # 0 /\ (k + 1) - 1 = k
      BY <1>1
    <3> QED BY <3>1, <2>1
  <2> DEFINE S == {k \in 0 .. l : Reached(h[k], b + k, was, K)}
  <2>3. 0 \in S BY <2>2, <1>1, <1>4
  <2>4. \A k \in 0 .. l - 1 : k \in S => k + 1 \in S
    <3> TAKE k \in 0 .. l - 1
    <3> HAVE k \in S
    <3>1. Reached(h[k], b + k, was, K) /\ k + 1 \in 0 .. l BY <1>1
    <3> QED BY <3>1, <1>2, <2>2
  <2>5. 0 .. l \subseteq S
    <3> HIDE DEF S
    <3> QED BY <2>3, <2>4, <1>1, Climb
  <2> QED BY <2>5, <1>1
<1> QED BY <1>1, <1>5, <1>6 DEF l

(* The writes of one block. *)
LEMMA BlockWrites ==
  ASSUME NEW chars, NEW white, NEW alias \in BOOLEAN, NEW was, NEW K,
         ToWrite(Len(chars), chars, white, alias, was, K), was \in [1 .. Len(source) -> Int]
  PROVE  Reached(Write([mem |-> was, dst |-> written], chars, white, alias), Len(chars), was, K)
<1> DEFINE n == Len(chars)
           m == [mem |-> was, dst |-> written]
           groups == CHOOSE h : h = [g \in 0 .. n \div 4 |->
                       IF g = 0 THEN m ELSE Group(h[g - 1], chars, white, 4 * (g - 1), alias)]
           rest == CHOOSE h : h = [k \in 0 .. n % 4 |->
                     IF k = 0 THEN groups[n \div 4]
                     ELSE Single(h[k - 1], chars, white, 4 * (n \div 4) + k - 1, alias)]
<1>1. Reached(m, 0, was, K)
  <2>1. Places(K, 0) = <<>> BY PlacesIs
  <2>2. Counted(K, 0) = 0 BY <2>1 DEF Counted
  <2>3. written \in Nat /\ lexed \in Nat BY DEF ToWrite, MinifyPlaces
  <2>4. Wrote(was, 0, was, K) BY <2>1 DEF Wrote
  <2> QED BY <2>2, <2>3, <2>4 DEF Reached
<1>2. Write(m, chars, white, alias) = rest[n % 4] BY DEF Write
<1> HIDE DEF m
<1>3. Groups(n, m, chars, white, alias, groups)
  <2>1. \E h : Groups(n, m, chars, white, alias, h) BY <1>1, GroupsWrite
  <2>2. groups = CHOOSE h : Groups(n, m, chars, white, alias, h) BY DEF Groups
  <2> HIDE DEF groups
  <2> QED BY <2>1, <2>2
<1> HIDE DEF groups
<1>4. Reached(groups[n \div 4], 4 * (n \div 4), was, K)
  BY <1>1, <1>3, GroupsWrite
<1>5. Singles(n, groups[n \div 4], chars, white, alias, rest)
  <2>1. \E h : Singles(n, groups[n \div 4], chars, white, alias, h)
    BY <1>4, SinglesWrite
  <2>2. rest = CHOOSE h : Singles(n, groups[n \div 4], chars, white, alias, h)
    BY DEF Singles
  <2> HIDE DEF rest
  <2> QED BY <2>1, <2>2
<1> HIDE DEF rest
<1>6. Reached(rest[n % 4], n, was, K) BY <1>4, <1>5, SinglesWrite
<1> QED BY <1>2, <1>6 DEF m

(* The n elements of f behind the first l. *)
Piece(f, l, n) == SubSeq(f, l + 1, l + n)

LEMMA PieceIs ==
  ASSUME NEW N \in Nat, NEW f \in [1 .. N -> Int], NEW l \in Nat, NEW n \in Nat, l + n <= N
  PROVE  /\ Piece(f, l, n) \in Seq(Int) /\ Len(Piece(f, l, n)) = n
         /\ \A i \in 1 .. n : Piece(f, l, n)[i] = f[l + i]
<1> DEFINE a == l + 1
           b == l + n
<1>1. a \in Int /\ b \in Int /\ b - a + 1 = n /\ (IF a <= b THEN b - a + 1 ELSE 0) = n /\ \A i \in a .. b : f[i] \in Int
  OBVIOUS
<1>2. \A i \in 1 .. n : a + i - 1 = l + i OBVIOUS
<1>3. Piece(f, l, n) = SubSeq(f, a, b) BY DEF Piece
<1> HIDE DEF a, b
<1>4. SubSeq(f, a, b) \in Seq(Int) BY <1>1, SubSeqProperties
<1>5. Len(SubSeq(f, a, b)) = IF a <= b THEN b - a + 1 ELSE 0
  BY <1>1, SubSeqProperties
<1>6. \A i \in 1 .. b - a + 1 : SubSeq(f, a, b)[i] = f[a + i - 1]
  BY <1>1, SubSeqProperties
<1> QED BY <1>1, <1>2, <1>3, <1>4, <1>5, <1>6

LEMMA FirstPieceIs ==
  ASSUME NEW N \in Nat, NEW f \in [1 .. N -> Int], NEW n \in 0 .. N
  PROVE  /\ Piece(f, 0, n) = SubSeq(f, 1, n)
         /\ Piece(f, 0, n) \in Seq(Int) /\ Len(Piece(f, 0, n)) = n
         /\ \A i \in 1 .. n : Piece(f, 0, n)[i] = f[i]
<1> DEFINE l == 0
<1>1. l \in Nat /\ n \in Nat /\ l + n <= N /\ l + 1 = 1 /\ l + n = n /\ \A i \in 1 .. n : l + i = i
  OBVIOUS
<1>2. Piece(f, 0, n) = Piece(f, l, n) OBVIOUS
<1> HIDE DEF l
<1>3. Piece(f, l, n) \in Seq(Int) /\ Len(Piece(f, l, n)) = n BY <1>1, PieceIs
<1>4. \A i \in 1 .. n : Piece(f, l, n)[i] = f[l + i] BY <1>1, PieceIs
<1>5. Piece(f, l, n) = SubSeq(f, 1, n) BY <1>1 DEF Piece
<1> QED BY <1>1, <1>2, <1>3, <1>4, <1>5

(* The memory minify writes to. *)
Target == IF inPlace THEN input ELSE output

MinifyInv ==
  /\ source \in Seq(Classes) /\ inPlace \in BOOLEAN
  /\ lexed \in 0 .. Len(source) /\ written \in 0 .. lexed
  /\ input \in [1 .. Len(source) -> Int] /\ output \in [1 .. Len(source) -> Int]
  /\ lexed < Len(source) => Carries(minifyCarry, States(source)[lexed])
  /\ MinifyExact
  /\ UnreadIntact

LEMMA MinifyStart ==
  ASSUME source \in Seq(Classes), MinifyCalled
  PROVE  MinifyInv
<1>1. Len(source) \in Nat BY LenProperties
<1>2. /\ inPlace \in BOOLEAN /\ lexed = 0 /\ written = 0 /\ minifyCarry = FirstCarry
      /\ input = [i \in 1 .. Len(source) |-> i - 1] /\ output = [i \in 1 .. Len(source) |-> Unwritten]
  BY DEF MinifyCalled
<1>3. input \in [1 .. Len(source) -> Int] /\ output \in [1 .. Len(source) -> Int]
  BY <1>1, <1>2 DEF Unwritten
<1>4. Carries(minifyCarry, States(source)[lexed])
  BY <1>1, <1>2, StartIs, StatesIs
<1>5. MinifyExact
  <2>1. Kept(source, 0) = <<>> BY PlacesIs DEF Kept
  <2>2. Minified = SubSeq(Target, 1, 0) BY <1>2 DEF Minified, Target
  <2>3. SubSeq(Target, 1, 0) = <<>> BY SubSeqEmpty
  <2> QED BY <2>1, <2>2, <2>3, <1>2 DEF MinifyExact
<1>6. UnreadIntact BY <1>1, <1>2 DEF UnreadIntact
<1> QED BY <1>1, <1>2, <1>3, <1>4, <1>5, <1>6 DEF MinifyInv

LEMMA MinifyKeeps ==
  ASSUME MinifyInv, MinifyBlock
  PROVE  MinifyInv'
<1> DEFINE N == Len(source)
           n == Least(N - lexed, W)
           chars == SubSeq(input, lexed + 1, lexed + n)
           read == [i \in 1 .. n |-> source[chars[i] + 1]]
           b == Block(Fill(read), minifyCarry)
           K == b.kept
           alias == inPlace /\ n = W
           m == Write([mem |-> Target, dst |-> written], chars, Dropped(Fill(read), b), alias)
<1>0. /\ source \in Seq(Classes) /\ inPlace \in BOOLEAN
      /\ lexed \in 0 .. N /\ written \in 0 .. lexed
      /\ input \in [1 .. N -> Int] /\ output \in [1 .. N -> Int]
      /\ (lexed < N => Carries(minifyCarry, States(source)[lexed]))
      /\ MinifyExact /\ UnreadIntact
  BY DEF MinifyInv
<1>1. lexed < N /\ UNCHANGED <<source, inPlace>> BY SMTT(60) DEF MinifyBlock
<1>2. /\ IF inPlace THEN input' = m.mem /\ UNCHANGED output ELSE output' = m.mem /\ UNCHANGED input
      /\ written' = m.dst /\ minifyCarry' = b.carry /\ lexed' = lexed + n
  BY ZenonT(60) DEF MinifyBlock, Target
<1>3. N \in Nat /\ W \in Nat \ {0} /\ \A i \in 1 .. N : source[i] \in Classes
  BY <1>0, WidthAssumption, LenProperties
<1>4. n \in 1 .. W /\ n \in Nat /\ lexed + n <= N /\ (n = W \/ lexed + n = N) /\ lexed \in Nat /\ written \in Nat
  BY <1>0, <1>1, <1>3 DEF Least
<1> HIDE DEF N, n
<1>5. chars \in Seq(Int) /\ Len(chars) = n /\ \A i \in 0 .. n - 1 : chars[i + 1] = lexed + i
  <2>1. chars = Piece(input, lexed, n) BY DEF Piece
  <2>2. input \in [1 .. N -> Int] BY <1>0
  <2>3. Piece(input, lexed, n) \in Seq(Int) /\ Len(Piece(input, lexed, n)) = n
    BY <2>2, <1>3, <1>4, PieceIs
  <2>4. \A i \in 1 .. n : Piece(input, lexed, n)[i] = input[lexed + i]
    BY <2>2, <1>3, <1>4, PieceIs, SMTT(60)
  <2>5. \A i \in 0 .. n - 1 : i + 1 \in 1 .. n /\ lexed + (i + 1) \in lexed + 1 .. N /\ lexed + (i + 1) - 1 = lexed + i
    BY <1>3, <1>4
  <2>6. \A i \in 0 .. n - 1 : input[lexed + (i + 1)] = lexed + i
    BY <2>5, <1>0 DEF UnreadIntact, N
  <2> HIDE DEF chars
  <2> QED BY <2>1, <2>3, <2>4, <2>5, <2>6
<1> HIDE DEF chars
<1>6. BlockFinds(b, source, lexed, n)
  <2>1. \A i \in 1 .. n : read[i] = source[lexed + i] /\ read[i] \in Classes
    <3> TAKE i \in 1 .. n
    <3>1. i - 1 \in 0 .. n - 1 /\ (i - 1) + 1 = i /\ lexed + (i - 1) + 1 = lexed + i /\ lexed + i \in 1 .. N
      BY <1>3, <1>4
    <3>2. chars[i] = lexed + (i - 1) BY <3>1, <1>5
    <3> QED BY <3>1, <3>2, <1>3
  <2>2. read \in Seq(Classes) /\ Len(read) = n
    <3>1. DOMAIN read = 1 .. n /\ read \in [1 .. n -> Classes] BY <2>1
    <3> HIDE DEF read
    <3> QED BY <3>1, <1>4
  <2> HIDE DEF read
  <2>3. Len(Fill(read)) = W /\ \A i \in 1 .. W : Fill(read)[i] = IF i <= Len(read) THEN read[i] ELSE "space"
    BY <2>2, FillIs
  <2>4. \A i \in 1 .. n : Fill(read)[i] = source[lexed + i]
    BY <2>1, <2>2, <2>3, <1>4
  <2>5. \A i \in n + 1 .. W : Fill(read)[i] = "space" BY <2>2, <2>3, <1>3, <1>4
  <2>6. BlockAt(Fill(read), source, lexed, n)
    BY <2>3, <2>4, <2>5, <1>4 DEF BlockAt, N
  <2>7. Carries(minifyCarry, States(source)[lexed]) BY <1>0, <1>1 DEF N
  <2>8. N \in Nat BY <1>3
  <2> QED BY <2>6, <2>7, <2>8, <1>4, BlockOfText DEF N
<1> HIDE DEF read, b
<1>7. Target \in [1 .. N -> Int] BY <1>0 DEF Target
<1>8. ToWrite(Len(chars), chars, Dropped(Fill(read), b), alias, Target, K)
  <2>1. MinifyPlaces /\ lexed + n <= Len(source)
    BY <1>0, <1>3, <1>4 DEF MinifyPlaces, N
  <2>2. \A i \in 0 .. n - 1 : i \in Dropped(Fill(read), b) <=> i \notin K
    BY <1>3, <1>4 DEF Dropped, Bits
  <2>3. alias => \A i \in 0 .. n - 1 : Target[(lexed + i) + 1] = lexed + i
    <3>1. \A i \in 0 .. n - 1 : (lexed + i) + 1 \in lexed + 1 .. N /\ (lexed + i) + 1 - 1 = lexed + i
      BY <1>3, <1>4
    <3> QED BY <3>1, <1>0 DEF UnreadIntact, Target, N
  <2> QED BY <2>1, <2>2, <2>3, <1>4, <1>5 DEF ToWrite
<1>9. Reached(m, n, Target, K)
  <2>1. alias \in BOOLEAN BY <1>0
  <2>2. Target \in [1 .. Len(source) -> Int] BY <1>7 DEF N
  <2> HIDE DEF alias
  <2> QED BY <2>1, <2>2, <1>5, <1>8, BlockWrites
<1> HIDE DEF m, K
<1> PICK f : m = [mem |-> f, dst |-> written + Counted(K, n)] /\ Wrote(f, n, Target, K)
  BY <1>9 DEF Reached
<1>10. Target' = f /\ written' = written + Counted(K, n)
  BY <1>1, <1>2 DEF Target
<1>11. f \in [1 .. N -> Int] /\ Counted(K, n) \in 0 .. n
  BY <1>4, CountedIs DEF Wrote, N
<1>12. lexed' \in 0 .. N /\ written' \in 0 .. lexed'
  <2> DEFINE k == Counted(K, n)
  <2>1. lexed' = lexed + n /\ written' = written + k BY <1>2, <1>10
  <2>2. k \in 0 .. n BY <1>11
  <2> HIDE DEF k
  <2>3. lexed + n \in 0 .. N /\ written + k \in 0 .. lexed + n
    BY <2>2, <1>0, <1>3, <1>4
  <2> QED BY <2>1, <2>3
<1>13. input' \in [1 .. N -> Int] /\ output' \in [1 .. N -> Int]
  BY <1>0, <1>2, <1>11
<1>14. lexed' < N => Carries(minifyCarry', States(source)[lexed'])
  <2>1. lexed' < N => n = W BY <1>2, <1>4
  <2> QED BY <2>1, <1>2, <1>6 DEF BlockFinds
<1>15. MinifyExact'
  <2> DEFINE old == Kept(source, lexed)
             more == Shifted(lexed, Places(K, n))
             w == written
             v == w + Counted(K, n)
  <2>1. Kept(source, lexed + n) = old \o more
    <3>1. \A i \in 0 .. n - 1 : i \in K <=> lexed + i \in KeptPlaces(source)
      BY <1>6 DEF BlockFinds, K
    <3>2. RestAdds(KeptPlaces(source), lexed, n, K) BY <3>1, <1>4, PlacesOfRest
    <3> QED BY <3>2 DEF RestAdds, Kept
  <2>2. old \in Seq(Nat) BY <1>4, PlacesIs DEF Kept
  <2>3. Places(K, n) \in Seq(Nat) /\ Len(Places(K, n)) = Counted(K, n)
    BY <1>4, PlacesIs DEF Counted
  <2>4. more \in Seq(Nat) /\ Len(more) = Counted(K, n) /\ \A x \in 1 .. Counted(K, n) : more[x] = lexed + Places(K, n)[x]
    BY <2>3, <1>4, ShiftedIs, ZenonT(60)
  <2>5. old = Piece(Target, 0, w)
    BY <1>0, <1>4 DEF MinifyExact, Minified, Target, Piece
  <2>6. w \in Nat /\ Counted(K, n) \in Nat /\ v \in Nat /\ w <= N /\ v <= N
    <3>1. Counted(K, n) \in Nat /\ Counted(K, n) <= n BY <1>4, <1>11
    <3> QED BY <3>1, <1>0, <1>3, <1>4, SMTT(60)
  <2>7. Len(old) = w /\ \A x \in 1 .. w : old[x] = Target[x]
    <3>1. w \in 0 .. N BY <2>6, <1>3
    <3> HIDE DEF w
    <3>2. Len(Piece(Target, 0, w)) = w BY <3>1, <1>3, <1>7, FirstPieceIs
    <3>3. \A x \in 1 .. w : Piece(Target, 0, w)[x] = Target[x]
      BY <3>1, <1>3, <1>7, FirstPieceIs
    <3> HIDE DEF old
    <3> QED BY <3>2, <3>3, <2>5
  <2>8. Piece(f, 0, v) \in Seq(Int) /\ Len(Piece(f, 0, v)) = v /\ \A x \in 1 .. v : Piece(f, 0, v)[x] = f[x]
    <3>1. v \in 0 .. N BY <2>6, <1>3
    <3> HIDE DEF v
    <3>2. Piece(f, 0, v) \in Seq(Int) /\ Len(Piece(f, 0, v)) = v
      BY <3>1, <1>3, <1>11, FirstPieceIs, ZenonT(60)
    <3>3. \A x \in 1 .. v : Piece(f, 0, v)[x] = f[x]
      BY <3>1, <1>3, <1>11, FirstPieceIs
    <3> QED BY <3>2, <3>3
  <2>9. \A x \in 1 .. w : f[x] = Target[x]
    <3>1. \A x \in 1 .. w : x \in 1 .. Len(source) /\ x <= written BY <2>6 DEF N
    <3> QED BY <3>1 DEF Wrote
  <2>10. \A x \in 1 .. Counted(K, n) : f[w + x] = more[x]
    BY <2>3, <2>4 DEF Wrote
  <2> HIDE DEF old, more, w, v
  <2>11. old \in Seq(Int) /\ more \in Seq(Int)
    <3>1. \A s \in Seq(Nat) : s \in Seq(Int) OBVIOUS
    <3> QED BY <3>1, <2>2, <2>4
  <2>12. Piece(f, 0, v) = old \o more
    <3> DEFINE r == old \o more
               l == Piece(f, 0, v)
    <3>1. r \in Seq(Int) /\ Len(r) = v
      <4>1. r \in Seq(Int) BY <2>11, ConcatProperties
      <4>2. Len(r) = Len(old) + Len(more) BY <2>11, ConcatProperties
      <4> HIDE DEF r
      <4> QED BY <4>1, <4>2, <2>4, <2>7 DEF v
    <3>2. \A x \in 1 .. w : r[x] = old[x] BY <2>7, <2>6, <2>11, ConcatProperties
    <3>3. \A x \in 1 .. Counted(K, n) : r[w + x] = more[x]
      <4> TAKE x \in 1 .. Counted(K, n)
      <4>1. w + x \in 1 .. Len(old) + Len(more) /\ w + x > Len(old) /\ (w + x) - Len(old) = x
        BY <2>4, <2>6, <2>7
      <4> QED BY <4>1, <2>11, ConcatProperties
    <3>4. l \in Seq(Int) /\ Len(l) = v /\ \A x \in 1 .. v : l[x] = f[x] BY <2>8
    <3> HIDE DEF r, l
    <3>5. \A x \in 1 .. v : l[x] = r[x]
      <4> TAKE x \in 1 .. v
      <4>1. CASE x \in 1 .. w BY <4>1, <3>2, <3>4, <2>7, <2>9
      <4>2. CASE x > w
        <5> DEFINE y == x - w
        <5>1. y \in 1 .. Counted(K, n) /\ w + y = x BY <4>2, <2>6 DEF v
        <5> HIDE DEF y
        <5>2. f[w + y] = more[y] /\ r[w + y] = more[y] BY <5>1, <3>3, <2>10
        <5> QED BY <5>1, <5>2, <3>4
      <4> QED BY <4>1, <4>2, <2>6
    <3>6. l = r BY <3>1, <3>4, <3>5, SeqEqual
    <3> QED BY <3>6 DEF l, r
  <2>13. Minified' = SubSeq(Target', 1, written') BY DEF Minified, Target
  <2>14. Minified' = Piece(f, 0, v)
    <3>1. 0 + 1 = 1 /\ 0 + v = v BY <2>6
    <3>2. Minified' = SubSeq(f, 1, v) BY <2>13, <1>10 DEF v, w
    <3> QED BY <3>1, <3>2 DEF Piece
  <2>15. Minified' = Kept(source, lexed + n) BY <2>1, <2>12, <2>14
  <2>16. Kept(source, lexed + n) = Kept(source, lexed)' BY <1>1, <1>2
  <2> QED BY <2>15, <2>16 DEF MinifyExact
<1>16. UnreadIntact'
  <2> SUFFICES ASSUME NEW p \in lexed' + 1 .. N
               PROVE  input'[p] = p - 1 /\ output'[p] = Unwritten
    BY <1>1 DEF UnreadIntact, N
  <2>1. p \in lexed + 1 .. N /\ p > lexed + n /\ p \in 1 .. N
    BY <1>2, <1>3, <1>4
  <2>2. input[p] = p - 1 /\ output[p] = Unwritten
    BY <2>1, <1>0 DEF UnreadIntact, N
  <2>3. f[p] = Target[p] BY <2>1 DEF Wrote, N
  <2> QED BY <2>2, <2>3, <1>2, <1>10 DEF Target
<1> QED BY <1>0, <1>1, <1>12, <1>13, <1>14, <1>15, <1>16 DEF MinifyInv, N

-----------------------------------------------------------------------------
(* The tokens of a text that has been minified. *)

(* Where a member of B is among them. *)
LEMMA PlaceOf ==
  ASSUME NEW B, NEW n \in Nat, NEW p \in 0 .. n - 1, p \in B
  PROVE  /\ Counted(B, p) + 1 \in 1 .. Len(Places(B, n))
         /\ Places(B, n)[Counted(B, p) + 1] = p
<1> DEFINE Has(m) == \A q \in 0 .. m - 1 : q \in B =>
                       /\ Counted(B, q) + 1 \in 1 .. Len(Places(B, m))
                       /\ Places(B, m)[Counted(B, q) + 1] = q
           S == {m \in Nat : Has(m)}
<1>1. 0 \in S OBVIOUS
<1>2. \A m \in Nat : m \in S => m + 1 \in S
  <2> TAKE m \in Nat
  <2> HAVE m \in S
  <2> DEFINE s == Places(B, m)
             t == Places(B, m + 1)
  <2>1. t = IF m \in B THEN Append(s, m) ELSE s BY PlacesIs
  <2>2. s \in Seq(Nat) BY PlacesIs
  <2>3. \A q \in 0 .. m - 1 : q \in B => Counted(B, q) + 1 \in 1 .. Len(s) /\ s[Counted(B, q) + 1] = q
    OBVIOUS
  <2>4. Counted(B, m) = Len(s) BY DEF Counted
  <2> HIDE DEF s, t
  <2>5. SUFFICES ASSUME NEW q \in 0 .. m, q \in B
                 PROVE  Counted(B, q) + 1 \in 1 .. Len(t) /\ t[Counted(B, q) + 1] = q
    BY DEF t
  <2>6. CASE m \in B
    <3>1. Len(s) \in Nat /\ Len(t) = Len(s) + 1 /\ (\A i \in 1 .. Len(s) : t[i] = s[i]) /\ t[Len(s) + 1] = m
      BY <2>1, <2>2, <2>6, AppendProperties, LenProperties
    <3>2. CASE q = m BY <3>1, <3>2, <2>4
    <3>3. CASE q # m
      <4>1. q \in 0 .. m - 1 BY <3>3
      <4>2. Counted(B, q) + 1 \in 1 .. Len(s) /\ s[Counted(B, q) + 1] = q
        BY <4>1, <2>3, <2>5
      <4> QED BY <4>2, <3>1
    <3> QED BY <3>2, <3>3
  <2>7. CASE m \notin B
    <3>1. t = s /\ q \in 0 .. m - 1 BY <2>1, <2>5, <2>7
    <3> QED BY <3>1, <2>3, <2>5
  <2> QED BY <2>6, <2>7
<1>3. Nat \subseteq S
  <2> HIDE DEF S
  <2> QED BY <1>1, <1>2, NatInduct
<1>4. Has(n) BY <1>3
<1> QED BY <1>4

(* The last token in front of p, if there is one, is a structural character. *)
Opens(p) ==
  \A q \in TokenPlaces(source) :
    q < p /\ (\A r \in TokenPlaces(source) : q < r => p <= r) => source[q + 1] = "structural"

(* Separated, without counting tokens. *)
LEMMA SeparatedIs ==
  ASSUME source \in Seq(Classes), Separated
  PROVE  /\ \A p \in 0 .. Len(source) - 1 : source[p + 1] = "backslash" => States(source)[p].inString
         /\ \A p \in TokenPlaces(source) : source[p + 1] = "other" => Opens(p)
<1> DEFINE N == Len(source)
           B == TokenPlaces(source)
           t == Places(B, N)
<1>1. N \in Nat BY LenProperties
<1>2. /\ \A p \in DOMAIN source : source[p] = "backslash" => States(source)[p - 1].inString
      /\ \A i \in 2 .. Len(t) : source[t[i] + 1] = "other" => source[t[i - 1] + 1] = "structural"
  BY DEF Separated, Tokens
<1>3. ASSUME NEW p \in 0 .. N - 1, source[p + 1] = "backslash"
      PROVE  States(source)[p].inString
  <2>1. p + 1 \in DOMAIN source /\ (p + 1) - 1 = p BY <1>1, LenProperties
  <2> QED BY <2>1, <1>2, <1>3
<1>4. ASSUME NEW p \in B, source[p + 1] = "other", NEW q \in B, q < p, \A r \in B : q < r => p <= r
      PROVE  source[q + 1] = "structural"
  <2>1. p \in 0 .. N - 1 /\ q \in 0 .. N - 1 BY DEF TokenPlaces
  <2> HIDE DEF B, t, N
  <2>2. q + 1 \in Nat /\ p \in Nat /\ q \in Nat /\ q + 1 <= p /\ \A r \in q + 1 .. p - 1 : r \notin B
    BY <2>1, <1>4
  <2>3. Places(B, p) = Places(B, q + 1) BY <2>2, PlacesEnd
  <2>4. Counted(B, p) = Counted(B, q) + 1 /\ Counted(B, q) \in Nat
    <3>1. Counted(B, q + 1) = Counted(B, q) + Bit(B, q) /\ Counted(B, q) \in Nat
      BY <2>2, CountedIs
    <3>2. Counted(B, p) = Counted(B, q + 1) BY <2>3 DEF Counted
    <3>3. Bit(B, q) = 1 BY <1>4 DEF Bit
    <3> QED BY <3>1, <3>2, <3>3
  <2> DEFINE i == Counted(B, p) + 1
  <2>5. i \in 1 .. Len(t) /\ t[i] = p BY <1>1, <1>4, <2>1, PlaceOf DEF t
  <2>6. t[Counted(B, q) + 1] = q BY <1>1, <1>4, <2>1, PlaceOf DEF t
  <2>7. i \in 2 .. Len(t) /\ i - 1 = Counted(B, q) + 1 BY <2>4, <2>5
  <2> HIDE DEF i
  <2> QED BY <2>5, <2>6, <2>7, <1>2, <1>4
<1> QED BY <1>3, <1>4 DEF Opens

LEMMA OpensNext ==
  ASSUME NEW p \in Nat
  PROVE  /\ p \in TokenPlaces(source) => (Opens(p + 1) <=> source[p + 1] = "structural")
         /\ p \notin TokenPlaces(source) => (Opens(p + 1) <=> Opens(p))
<1>1. \A q \in TokenPlaces(source) : q \in Int BY DEF TokenPlaces
<1> DEFINE B == TokenPlaces(source)
<1>2. CASE p \in B
  <2>1. \A q \in B : q < p + 1 /\ (\A r \in B : q < r => p + 1 <= r) => q = p
    <3> TAKE q \in B
    <3> HAVE q < p + 1 /\ (\A r \in B : q < r => p + 1 <= r)
    <3>1. q \in Int /\ ~(q < p) BY <1>1, <1>2
    <3> QED BY <3>1
  <2>2. \A r \in B : p < r => p + 1 <= r BY <1>1
  <2>3. Opens(p + 1) <=> source[p + 1] = "structural"
    <3>1. ASSUME source[p + 1] = "structural" PROVE Opens(p + 1)
      BY <3>1, <2>1 DEF Opens
    <3>2. ASSUME Opens(p + 1) PROVE source[p + 1] = "structural"
      BY <3>2, <1>2, <2>2 DEF Opens
    <3> QED BY <3>1, <3>2
  <2> QED BY <1>2, <2>3
<1>3. CASE p \notin B
  <2>1. \A q \in B : q < p + 1 <=> q < p BY <1>1, <1>3
  <2>2. \A q \in B : p + 1 <= q <=> p <= q BY <1>1, <1>3
  <2>3. Opens(p + 1) <=> Opens(p) BY <2>1, <2>2 DEF Opens
  <2> QED BY <1>3, <2>3
<1> QED BY <1>2, <1>3

(* u is what is kept of the source. *)
MinifiedTo(u) ==
  /\ Len(u) = Counted(KeptPlaces(source), Len(source))
  /\ \A p \in KeptPlaces(source) : u[Counted(KeptPlaces(source), p) + 1] = source[p + 1]

(* State r of a reading of what is kept follows s of one of the source: *)
(* strings and escapes are the same, and what is delimited there is so here *)
(* except behind white space that does not follow a structural character. *)
Follows(r, s, p) ==
  /\ r.inString <=> s.inString
  /\ r.escaped <=> s.escaped
  /\ s.escaped => s.inString
  /\ r.delimited => s.delimited
  /\ ~s.inString /\ ~s.delimited => ~Opens(p)
  /\ ~s.inString /\ s.delimited /\ Opens(p) => r.delimited

LEMMA FollowsKept ==
  ASSUME NEW s \in State, NEW r \in State, NEW p \in 0 .. Len(source) - 1, Len(source) \in Nat, NEW c \in Classes, c = source[p + 1],
         c = "backslash" => s.inString, p \in TokenPlaces(source) <=> IsToken(s, c), Follows(r, s, p)
  PROVE  Follows(After(r, c), After(s, c), p + 1)
<1> DEFINE v == After(r, c)
           t == After(s, c)
<1>0. p \in Nat OBVIOUS
<1>1. /\ v.inString <=> ~(r.inString <=> (c = "quote" /\ ~r.escaped))
      /\ v.escaped <=> (c = "backslash" /\ ~r.escaped)
      /\ v.delimited <=> c \in {"structural", "space"}
  BY AfterIs
<1>2. /\ t.inString <=> ~(s.inString <=> (c = "quote" /\ ~s.escaped))
      /\ t.escaped <=> (c = "backslash" /\ ~s.escaped)
      /\ t.delimited <=> c \in {"structural", "space"}
  BY AfterIs
<1> HIDE DEF v, t
<1>3. /\ r.inString <=> s.inString
      /\ r.escaped <=> s.escaped
      /\ s.escaped => s.inString
      /\ ~s.inString /\ ~s.delimited => ~Opens(p)
  BY DEF Follows
<1>4. (v.inString <=> t.inString) /\ (v.escaped <=> t.escaped) /\ (v.delimited <=> t.delimited)
  BY <1>1, <1>2, <1>3
<1>5. t.escaped => t.inString
  <2>1. c = "backslash" => c # "quote" OBVIOUS
  <2> QED BY <2>1, <1>2
<1>6. ASSUME ~t.inString, ~t.delimited PROVE ~Opens(p + 1)
  <2>1. c # "structural" /\ c # "space" BY <1>2, <1>6
  <2>2. c = "quote" \/ c = "other"
    <3>1. c # "backslash"
      <4> SUFFICES ASSUME c = "backslash" PROVE FALSE OBVIOUS
      <4>1. c # "quote" /\ s.inString OBVIOUS
      <4> QED BY <4>1, <1>2, <1>6
    <3> QED BY <3>1, <2>1 DEF Classes
  <2>3. CASE p \in TokenPlaces(source) BY <2>1, <2>3, <1>0, OpensNext
  <2>4. CASE p \notin TokenPlaces(source)
    <3>1. ~IsToken(s, c) BY <2>4
    <3>2. c = "other" /\ ~s.inString
      <4>1. c # "quote"
        <5> SUFFICES ASSUME c = "quote" PROVE FALSE OBVIOUS
        <5>1. s.escaped BY <3>1 DEF IsToken
        <5>2. s.inString BY <5>1, <1>3
        <5> QED BY <5>1, <5>2, <1>2, <1>6
      <4>2. ~s.inString BY <4>1, <1>2, <1>6
      <4> QED BY <4>1, <4>2, <2>2
    <3>3. ~s.delimited BY <3>1, <3>2 DEF IsToken
    <3>4. ~Opens(p) BY <3>2, <3>3, <1>3
    <3> QED BY <3>4, <2>4, <1>0, OpensNext
  <2> QED BY <2>3, <2>4
<1>7. Follows(v, t, p + 1) BY <1>4, <1>5, <1>6 DEF Follows
<1> QED BY <1>7 DEF v, t

LEMMA FollowsDropped ==
  ASSUME NEW s \in State, NEW r \in State, NEW p \in 0 .. Len(source) - 1, Len(source) \in Nat, NEW c, c = source[p + 1],
         ~IsKept(s, c), p \in TokenPlaces(source) <=> IsToken(s, c), Follows(r, s, p)
  PROVE  Follows(r, After(s, c), p + 1)
<1> DEFINE t == After(s, c)
<1>0. p \in Nat OBVIOUS
<1>1. c = "space" /\ ~s.inString BY DEF IsKept
<1>2. /\ t.inString <=> ~(s.inString <=> (c = "quote" /\ ~s.escaped))
      /\ t.escaped <=> (c = "backslash" /\ ~s.escaped)
      /\ t.delimited <=> c \in {"structural", "space"}
  BY AfterIs
<1> HIDE DEF t
<1>3. /\ r.inString <=> s.inString
      /\ r.escaped <=> s.escaped
      /\ s.escaped => s.inString
      /\ ~s.inString /\ ~s.delimited => ~Opens(p)
      /\ ~s.inString /\ s.delimited /\ Opens(p) => r.delimited
  BY DEF Follows
<1>4. ~t.inString /\ ~t.escaped /\ t.delimited BY <1>1, <1>2
<1>5. ~r.inString /\ ~r.escaped BY <1>1, <1>3
<1>6. Opens(p + 1) => Opens(p)
  <2>1. ~IsToken(s, c) BY <1>1 DEF IsToken
  <2> QED BY <2>1, <1>0, OpensNext
<1>7. Follows(r, t, p + 1) BY <1>1, <1>3, <1>4, <1>5, <1>6 DEF Follows
<1> QED BY <1>7 DEF t

(* A reading of what is kept, next to one of the source. *)
LEMMA FollowsAll ==
  ASSUME source \in Seq(Classes), Separated, NEW u, Len(u) \in Nat, MinifiedTo(u), NEW p \in 0 .. Len(source)
  PROVE  /\ Counted(KeptPlaces(source), p) \in 0 .. Len(u)
         /\ Follows(States(u)[Counted(KeptPlaces(source), p)], States(source)[p], p)
<1> DEFINE N == Len(source)
           B == KeptPlaces(source)
           at == States(source)
           au == States(u)
           k(q) == Counted(B, q)
           S == {q \in 0 .. N : k(q) \in 0 .. Len(u) /\ Follows(au[k(q)], at[q], q)}
<1>1. N \in Nat /\ \A q \in 1 .. N : source[q] \in Classes BY LenProperties
<1>2. /\ at[0] = Start /\ (\A q \in 0 .. N - 1 : at[q + 1] = After(at[q], source[q + 1]))
      /\ \A q \in 0 .. N : at[q] \in State
  BY <1>1, StatesIs
<1>3. /\ au[0] = Start /\ (\A q \in 0 .. Len(u) - 1 : au[q + 1] = After(au[q], u[q + 1]))
      /\ \A q \in 0 .. Len(u) : au[q] \in State
  BY StatesIs
<1>4. \A q \in 0 .. N - 1 : q \in TokenPlaces(source) <=> IsToken(at[q], source[q + 1])
  BY DEF TokenPlaces
<1>5. \A q \in 0 .. N - 1 : q \in B <=> IsKept(at[q], source[q + 1])
  BY DEF KeptPlaces
<1>6. Len(u) = k(N) /\ \A q \in B : u[k(q) + 1] = source[q + 1]
  BY DEF MinifiedTo
<1>7. \A q \in 0 .. N - 1 : source[q + 1] = "backslash" => at[q].inString
  BY SeparatedIs
<1> HIDE DEF at, au, B
<1>8. 0 \in S
  <2>1. k(0) = 0 BY PlacesIs DEF Counted
  <2>2. Follows(Start, Start, 0) BY DEF Start, Follows
  <2> QED BY <2>1, <2>2, <1>1, <1>2, <1>3
<1>9. \A q \in 0 .. N - 1 : q \in S => q + 1 \in S
  <2> TAKE q \in 0 .. N - 1
  <2> HAVE q \in S
  <2> DEFINE s == at[q]
             r == au[k(q)]
             c == source[q + 1]
  <2>1. k(q) \in 0 .. Len(u) /\ Follows(r, s, q) /\ s \in State /\ r \in State /\ q + 1 \in 0 .. N /\ q \in Nat /\ c \in Classes
    BY <1>1, <1>2, <1>3
  <2>2. at[q + 1] = After(s, c) BY <1>2
  <2>3. k(q + 1) = k(q) + Bit(B, q) /\ k(q) \in Nat BY <2>1, CountedIs
  <2>4. (c = "backslash" => s.inString) /\ (q \in TokenPlaces(source) <=> IsToken(s, c)) /\ (q \in B <=> IsKept(s, c))
    BY <1>4, <1>5, <1>7
  <2> HIDE DEF s, r, c, S
  <2>5. CASE q \in B
    <3>1. k(q + 1) = k(q) + 1 BY <2>3, <2>5 DEF Bit
    <3>2. k(q) + 1 \in 1 .. Len(u)
      <4>1. k(q) + 1 \in 1 .. Len(Places(B, N)) BY <1>1, <2>5, PlaceOf
      <4> QED BY <4>1, <1>6 DEF Counted
    <3>3. k(q) \in 0 .. Len(u) - 1 BY <2>3, <3>2
    <3>4. au[k(q) + 1] = After(r, c) BY <3>3, <2>5, <1>3, <1>6 DEF r, c
    <3>5. Follows(After(r, c), After(s, c), q + 1)
      BY <2>1, <2>4, <1>1, FollowsKept DEF c
    <3> QED BY <3>1, <3>2, <3>4, <3>5, <2>1, <2>2 DEF S
  <2>6. CASE q \notin B
    <3>1. k(q + 1) = k(q) BY <2>3, <2>6 DEF Bit
    <3>2. Follows(r, After(s, c), q + 1)
      BY <2>1, <2>4, <2>6, <1>1, FollowsDropped DEF c
    <3> QED BY <3>1, <3>2, <2>1, <2>2 DEF S, r
  <2> QED BY <2>5, <2>6
<1> HIDE DEF S
<1>10. 0 .. N \subseteq S BY <1>1, <1>8, <1>9, Climb
<1> QED BY <1>10 DEF S, at, au, B

(* What is kept is a token there if and only if it is one here. *)
LEMMA TokensFollow ==
  ASSUME source \in Seq(Classes), Separated, NEW u, Len(u) \in Nat, MinifiedTo(u), NEW p \in KeptPlaces(source)
  PROVE  Counted(KeptPlaces(source), p) \in TokenPlaces(u) <=> p \in TokenPlaces(source)
<1> DEFINE N == Len(source)
           k == Counted(KeptPlaces(source), p)
           s == States(source)[p]
           r == States(u)[k]
           c == source[p + 1]
<1>1. N \in Nat /\ p \in 0 .. N - 1 /\ p \in 0 .. N
  BY LenProperties DEF KeptPlaces
<1>2. k \in 0 .. Len(u) - 1
  <2>1. k + 1 \in 1 .. Len(Places(KeptPlaces(source), N)) BY <1>1, PlaceOf
  <2>2. k + 1 \in 1 .. Len(u) BY <2>1 DEF MinifiedTo, Counted
  <2>3. k \in 0 .. p BY <1>1, CountedIs
  <2> HIDE DEF k
  <2> QED BY <2>2, <2>3, <1>1
<1>3. Follows(r, s, p) BY <1>1, FollowsAll
<1>4. u[k + 1] = c BY DEF MinifiedTo
<1>5. k \in TokenPlaces(u) <=> IsToken(r, c) BY <1>2, <1>4 DEF TokenPlaces
<1>6. p \in TokenPlaces(source) <=> IsToken(s, c) BY <1>1 DEF TokenPlaces
<1>7. c = "backslash" => s.inString BY <1>1, SeparatedIs
<1>8. p \in TokenPlaces(source) /\ c = "other" => Opens(p) BY SeparatedIs
<1>9. c \in Classes BY <1>1, LenProperties
<1> HIDE DEF r, s, c
<1>10. /\ r.inString <=> s.inString
       /\ r.escaped <=> s.escaped
       /\ s.escaped => s.inString
       /\ r.delimited => s.delimited
       /\ ~s.inString /\ s.delimited /\ Opens(p) => r.delimited
  BY <1>3 DEF Follows
<1>11. IsToken(r, c) <=> IsToken(s, c)
  <2>1. CASE c = "quote" BY <2>1, <1>10 DEF IsToken
  <2>2. CASE c \in {"structural", "space"} BY <2>2, <1>10 DEF IsToken
  <2>3. CASE c = "backslash" BY <2>3, <1>7, <1>10 DEF IsToken
  <2>4. CASE c = "other"
    <3>1. IsToken(s, c) <=> ~s.inString /\ s.delimited BY <2>4 DEF IsToken
    <3>2. IsToken(r, c) <=> ~r.inString /\ r.delimited BY <2>4 DEF IsToken
    <3>3. IsToken(s, c) => Opens(p) BY <2>4, <1>6, <1>8
    <3> QED BY <3>1, <3>2, <3>3, <1>10
  <2> QED BY <2>1, <2>2, <2>3, <2>4, <1>9 DEF Classes
<1> QED BY <1>5, <1>6, <1>11

(* The places t of characters that stand at K in the source. *)
Renamed(K, t) == [i \in DOMAIN t |-> K[t[i] + 1]]

LEMMA RenamedAppend ==
  ASSUME NEW K, NEW t \in Seq(Nat), NEW v \in Nat
  PROVE  Renamed(K, Append(t, v)) = Append(Renamed(K, t), K[v + 1])
<1> DEFINE V == {K[x + 1] : x \in Nat}
           n == Len(t)
           a == Append(t, v)
           b == Renamed(K, t)
           w == K[v + 1]
           l == Renamed(K, a)
           r == Append(b, w)
<1>1. n \in Nat /\ DOMAIN t = 1 .. n /\ w \in V /\ \A j \in 1 .. n : t[j] \in Nat
  BY LenProperties
<1>2. a \in Seq(Nat) /\ Len(a) = n + 1 /\ (\A j \in 1 .. n : a[j] = t[j]) /\ a[n + 1] = v
  BY AppendProperties
<1>3. b \in [1 .. n -> V] /\ \A j \in 1 .. n : b[j] = K[t[j] + 1]
  BY <1>1 DEF Renamed
<1>4. DOMAIN a = 1 .. n + 1 /\ \A j \in 1 .. n + 1 : a[j] \in Nat
  <2> HIDE DEF a, n
  <2> QED BY <1>1, <1>2, LenProperties
<1>5. l \in [1 .. n + 1 -> V] /\ \A j \in 1 .. n + 1 : l[j] = K[a[j] + 1]
  <2> HIDE DEF a, n
  <2> QED BY <1>4 DEF Renamed
<1> HIDE DEF n, a, b, w, V
<1>6. b \in Seq(V) /\ Len(b) = n BY <1>1, <1>3
<1>7. r \in Seq(V) /\ Len(r) = n + 1 /\ (\A j \in 1 .. n : r[j] = b[j]) /\ r[n + 1] = w
  BY <1>1, <1>6, AppendProperties
<1> HIDE DEF l, r
<1>8. l \in Seq(V) /\ Len(l) = n + 1 BY <1>1, <1>5
<1>9. \A j \in 1 .. n + 1 : l[j] = r[j]
  <2> TAKE j \in 1 .. n + 1
  <2>1. l[j] = K[a[j] + 1] BY <1>5
  <2>2. CASE j \in 1 .. n BY <2>1, <2>2, <1>2, <1>3, <1>7
  <2>3. CASE j = n + 1 BY <2>1, <2>3, <1>2, <1>7 DEF w
  <2> QED BY <2>2, <2>3, <1>1
<1>10. l = r BY <1>7, <1>8, <1>9, SeqEqual
<1> QED BY <1>10 DEF l, r, a, b, w

(* The tokens of what is kept are those of the source. *)
LEMMA TokensSame ==
  ASSUME source \in Seq(Classes), Separated, NEW u, Len(u) \in Nat, MinifiedTo(u)
  PROVE  Renamed(Kept(source, Len(source)), Tokens(u, Len(u))) = Tokens(source, Len(source))
<1> DEFINE N == Len(source)
           B == KeptPlaces(source)
           K == Places(B, N)
           T == TokenPlaces(source)
           U == TokenPlaces(u)
           k(p) == Counted(B, p)
           S == {p \in 0 .. N : Renamed(K, Places(U, k(p))) = Places(T, p)}
<1>1. N \in Nat BY LenProperties
<1>2. \A p \in 0 .. N - 1 : p \in B => (k(p) \in U <=> p \in T) BY TokensFollow
<1>3. \A p \in 0 .. N - 1 : p \in T => p \in B
  BY DEF TokenPlaces, KeptPlaces, IsToken, IsKept
<1>4. \A p \in 0 .. N - 1 : p \in B => K[k(p) + 1] = p
  <2> HIDE DEF B
  <2> QED BY <1>1, PlaceOf
<1>5. Len(u) = k(N) BY DEF MinifiedTo
<1> HIDE DEF N, B, K, T, U
<1>6. 0 \in S
  <2>1. k(0) = 0 BY PlacesIs DEF Counted
  <2>2. Places(U, 0) = <<>> /\ Places(T, 0) = <<>> BY PlacesIs
  <2>3. Renamed(K, <<>>) = <<>> BY DEF Renamed
  <2> QED BY <2>1, <2>2, <2>3, <1>1
<1>7. \A p \in 0 .. N - 1 : p \in S => p + 1 \in S
  <2> TAKE p \in 0 .. N - 1
  <2> HAVE p \in S
  <2>1. p \in Nat /\ p + 1 \in 0 .. N BY <1>1
  <2>2. k(p) \in Nat /\ k(p + 1) = k(p) + Bit(B, p) BY <2>1, CountedIs
  <2>3. Places(T, p + 1) = IF p \in T THEN Append(Places(T, p), p) ELSE Places(T, p)
    BY <2>1, PlacesIs
  <2>4. Renamed(K, Places(U, k(p))) = Places(T, p) OBVIOUS
  <2> HIDE DEF S
  <2>5. CASE p \in B
    <3>1. k(p + 1) = k(p) + 1 BY <2>2, <2>5 DEF Bit
    <3>2. Places(U, k(p) + 1) = IF k(p) \in U THEN Append(Places(U, k(p)), k(p)) ELSE Places(U, k(p))
      BY <2>2, PlacesIs
    <3>3. K[k(p) + 1] = p /\ (k(p) \in U <=> p \in T) BY <2>5, <1>2, <1>4
    <3>4. CASE p \in T
      <4>1. Places(U, k(p)) \in Seq(Nat) BY <2>2, PlacesIs
      <4>2. Renamed(K, Append(Places(U, k(p)), k(p))) = Append(Renamed(K, Places(U, k(p))), K[k(p) + 1])
        BY <4>1, <2>2, RenamedAppend
      <4>3. Renamed(K, Places(U, k(p + 1))) = Places(T, p + 1)
        BY <4>2, <3>1, <3>2, <3>3, <3>4, <2>3, <2>4
      <4> QED BY <4>3, <2>1 DEF S
    <3>5. CASE p \notin T
      <4>1. Renamed(K, Places(U, k(p + 1))) = Places(T, p + 1)
        BY <3>1, <3>2, <3>3, <3>5, <2>3, <2>4
      <4> QED BY <4>1, <2>1 DEF S
    <3> QED BY <3>4, <3>5
  <2>6. CASE p \notin B
    <3>1. k(p + 1) = k(p) /\ p \notin T BY <2>2, <2>6, <1>3 DEF Bit
    <3>2. Renamed(K, Places(U, k(p + 1))) = Places(T, p + 1) BY <3>1, <2>3, <2>4
    <3> QED BY <3>2, <2>1 DEF S
  <2> QED BY <2>5, <2>6
<1>8. N \in S
  <2> HIDE DEF S
  <2>1. 0 .. N \subseteq S BY <1>1, <1>6, <1>7, Climb
  <2> QED BY <2>1, <1>1
<1>9. Renamed(K, Places(U, Len(u))) = Places(T, N) BY <1>5, <1>8
<1> QED BY <1>9 DEF K, U, T, B, N, Kept, Tokens

-----------------------------------------------------------------------------
(* The pipeline. *)

(* What is read is the source as it is, or what minify has written of all *)
(* of it. *)
Origin ==
  \/ lexed = 0 /\ text = source
  \/ /\ lexed # 0 /\ lexed = Len(source)
     /\ text = [i \in 1 .. written |-> source[Minified[i] + 1]]

(* Nothing is read before minify has returned. *)
Inv ==
  /\ MinifyInv
  /\ ReaderInv
  /\ minifying \in BOOLEAN
  /\ minifying => text = <<>> /\ NothingRead
  /\ ~minifying => Origin

LEMMA InitInv == Init => Inv
<1> SUFFICES ASSUME Init PROVE Inv OBVIOUS
<1>1. source \in Texts /\ MinifyCalled /\ minifying \in BOOLEAN /\ NothingRead
  BY DEF Init
<1>2. source \in Seq(Classes) BY <1>1, TextsAssumption
<1>3. text = IF minifying THEN <<>> ELSE source BY DEF Init
<1>4. text \in Seq(Classes) BY <1>2, <1>3
<1>5. MinifyInv BY <1>1, <1>2, MinifyStart
<1>6. ReaderInv BY <1>1, <1>4, ReaderStart
<1>7. ~minifying => Origin BY <1>1, <1>3 DEF Origin, MinifyCalled
<1> QED BY <1>1, <1>3, <1>5, <1>6, <1>7 DEF Inv

(* What minify has written of all of the source. *)
LEMMA MinifiedIs ==
  ASSUME MinifyInv, lexed = Len(source)
  PROVE  Minified = Kept(source, Len(source)) /\ Len(Kept(source, Len(source))) = written
<1> DEFINE N == Len(source)
           k == Kept(source, N)
<1>1. N \in Nat /\ written \in 0 .. N /\ Target \in [1 .. N -> Int]
  BY LenProperties DEF MinifyInv, Target
<1>2. Minified = k BY DEF MinifyInv, MinifyExact
<1>3. Minified = SubSeq(Target, 1, written) BY DEF Minified, Target
<1> HIDE DEF k, N
<1>4. Len(Piece(Target, 0, written)) = written BY <1>1, FirstPieceIs
<1>5. Piece(Target, 0, written) = SubSeq(Target, 1, written)
  BY <1>1, FirstPieceIs
<1>6. Len(k) = written BY <1>2, <1>3, <1>4, <1>5
<1> QED BY <1>2, <1>6 DEF k, N

LEMMA MinifyReturnsKeeps ==
  ASSUME Inv, MinifyReturns
  PROVE  Inv'
<1>1. /\ minifying /\ lexed = Len(source) /\ minifying' = FALSE
      /\ text' = [i \in 1 .. written |-> source[Minified[i] + 1]]
      /\ UNCHANGED <<source, inPlace, input, output, lexed, written, minifyCarry>>
      /\ UNCHANGED <<first, carry, buffer, ptr, filling, stored, got>>
  BY DEF MinifyReturns, minifyVars
<1>2. MinifyInv /\ NothingRead BY <1>1 DEF Inv
<1>3. MinifyInv'
  BY <1>1, <1>2 DEF MinifyInv, MinifyExact, Minified, UnreadIntact
<1>4. NothingRead' BY <1>1, <1>2 DEF NothingRead
<1>5. text' \in Seq(Classes)
  <2> DEFINE N == Len(source)
             k == Kept(source, N)
  <2>1. N \in Nat /\ written \in 0 .. N /\ \A i \in 1 .. N : source[i] \in Classes
    BY <1>1, <1>2, LenProperties DEF MinifyInv
  <2>2. Minified = k /\ Len(k) = written BY <1>1, <1>2, MinifiedIs
  <2>4. k \in Seq(Nat) /\ \A i \in DOMAIN k : k[i] \in 0 .. N - 1
    <3> HIDE DEF N
    <3> QED BY <2>1, PlacesAre DEF Kept
  <2> HIDE DEF k, N
  <2>5. \A i \in 1 .. written : source[Minified[i] + 1] \in Classes
    <3> TAKE i \in 1 .. written
    <3>1. i \in DOMAIN k BY <2>2, <2>4
    <3>2. k[i] \in 0 .. N - 1 BY <3>1, <2>4
    <3>3. k[i] + 1 \in 1 .. N BY <3>2, <2>1
    <3> QED BY <3>3, <2>1, <2>2
  <2>6. written \in Nat BY <2>1
  <2>7. text' \in [1 .. written -> Classes] BY <1>1, <2>5
  <2> QED BY <2>6, <2>7
<1>6. ReaderInv'
  <2>1. (text \in Seq(Classes) /\ NothingRead)' BY <1>4, <1>5
  <2> QED BY <2>1, ReaderStart, PTL
<1>7. Origin'
  <2>1. text' = [i \in 1 .. written |-> source[Minified[i] + 1]] /\ UNCHANGED <<source, lexed, written, Minified>>
    BY <1>1 DEF Minified
  <2>2. ASSUME lexed = 0 PROVE text' = source
    <3>1. Len(source) = 0 /\ source \in Seq(Classes) /\ written = 0
      BY <1>1, <1>2, <2>2 DEF MinifyInv
    <3>2. source = <<>> BY <3>1, EmptySeq
    <3>3. text' = <<>> BY <2>1, <3>1
    <3> QED BY <3>2, <3>3
  <2> QED BY <1>1, <2>1, <2>2 DEF Origin
<1> QED BY <1>1, <1>3, <1>6, <1>7 DEF Inv

LEMMA NextInv == Inv /\ [Next]_vars => Inv'
<1> SUFFICES ASSUME Inv, [Next]_vars PROVE Inv' OBVIOUS
<1>1. CASE Minify
  <2>1. MinifyInv /\ MinifyBlock /\ UNCHANGED minifying /\ UNCHANGED readerVars
    BY <1>1 DEF Minify, Inv
  <2>2. MinifyInv' BY <2>1, MinifyKeeps
  <2>3. ReaderInv'
    BY <2>1 DEF Inv, readerVars, ReaderInv, ReaderType, Idle, Given, NposGot, TokensExact, StoresInBuffer, Capacity
  <2>4. minifying' => text' = <<>> /\ NothingRead'
    BY <2>1 DEF Inv, readerVars, NothingRead
  <2>5. minifying' BY <1>1 DEF Minify
  <2> QED BY <2>1, <2>2, <2>3, <2>4, <2>5 DEF Inv
<1>2. CASE MinifyReturns BY <1>2, MinifyReturnsKeeps
<1>3. CASE Read
  <2>1. ReaderInv /\ ReaderNext /\ UNCHANGED minifying /\ UNCHANGED minifyVars /\ ~minifying
    BY <1>3 DEF Read, Inv
  <2>2. ReaderInv' BY <2>1, ReaderStep
  <2>3. MinifyInv'
    BY <2>1 DEF Inv, minifyVars, MinifyInv, MinifyExact, Minified, UnreadIntact
  <2>4. UNCHANGED text
    BY <2>1 DEF ReaderNext, Get, GetNpos, Refill, ReadBlock, Deliver
  <2>5. Origin' BY <2>1, <2>4 DEF Inv, Origin, minifyVars, Minified
  <2> QED BY <2>1, <2>2, <2>3, <2>5 DEF Inv
<1>4. CASE UNCHANGED vars
  <2>1. UNCHANGED minifying /\ UNCHANGED minifyVars /\ UNCHANGED readerVars
    BY <1>4 DEF vars
  <2>2. MinifyInv'
    BY <2>1 DEF Inv, minifyVars, MinifyInv, MinifyExact, Minified, UnreadIntact
  <2>3. ReaderInv'
    BY <2>1 DEF Inv, readerVars, ReaderInv, ReaderType, Idle, Given, NposGot, TokensExact, StoresInBuffer, Capacity
  <2>4. minifying' => text' = <<>> /\ NothingRead'
    BY <2>1 DEF Inv, readerVars, NothingRead
  <2>5. ~minifying' => Origin'
    BY <2>1 DEF Inv, Origin, minifyVars, readerVars, Minified
  <2> QED BY <2>1, <2>2, <2>3, <2>4, <2>5 DEF Inv
<1> QED BY <1>1, <1>2, <1>3, <1>4 DEF Next

(* The invariant of the pipeline is one (json::minify, lexer::read, *)
(* ondemand_reader::get). *)
THEOREM Invariant == Spec => []Inv
<1> QED BY InitInv, NextInv, PTL DEF Spec

(* The reader hands out exactly the tokens of the text, in order, however *)
(* wide a word is and however small the buffer, whatever crosses the seams *)
(* of blocks and refills (lexer::read, ondemand_reader::get). *)
THEOREM ReadsExactly == Spec => []TokensExact
<1>1. Inv => TokensExact BY DEF Inv, ReaderInv
<1> QED BY <1>1, Invariant, PTL

(* npos is handed out behind the last token only, and nothing after it *)
(* (ondemand_reader::get). *)
THEOREM NposIsFinal == Spec => []NposFinal
<1>1. Inv => NposFinal BY NposBehindAll DEF Inv
<1> QED BY <1>1, Invariant, PTL

(* No store of lexer::read goes past the buffer, for every number of tokens *)
(* in a block (lexer::read). *)
THEOREM StoresStayInBuffer == Spec => []StoresInBuffer
<1>1. Inv => StoresInBuffer BY DEF Inv, ReaderInv
<1> QED BY <1>1, Invariant, PTL

(* minify writes what is to be kept and nothing else before dst, in order, *)
(* in place or elsewhere, for every text (json::minify). *)
THEOREM MinifiesExactly == Spec => []MinifyExact
<1>1. Inv => MinifyExact BY DEF Inv, MinifyInv
<1> QED BY <1>1, Invariant, PTL

(* The groups of four that minify writes never reach what has not been read *)
(* yet, nor past as many characters elsewhere (json::minify). *)
THEOREM UnreadStaysIntact == Spec => []UnreadIntact
<1>1. Inv => UnreadIntact BY DEF Inv, MinifyInv
<1> QED BY <1>1, Invariant, PTL

(* A text that is minified before it is read, and one that is not. *)
LEMMA SameTokensHold ==
  ASSUME Inv
  PROVE  SameTokens
<1> DEFINE N == Len(source)
           place == IF lexed = 0 THEN [i \in DOMAIN source |-> i - 1] ELSE Minified
           t == Tokens(source, N)
<1> SUFFICES ASSUME ~minifying, NPOS \in Range(got), Separated
             PROVE  [i \in DOMAIN Given |-> place[Given[i] + 1]] = t
  BY DEF SameTokens
<1>1. MinifyInv /\ text \in Seq(Classes) /\ Origin
  BY DEF Inv, ReaderInv, ReaderType
<1>2. source \in Seq(Classes) /\ N \in Nat /\ DOMAIN source = 1 .. N
  BY <1>1, LenProperties DEF MinifyInv
<1>3. Given = Tokens(text, Len(text))
  <2>1. NposFinal BY NposBehindAll DEF Inv
  <2>2. PICK i \in DOMAIN got : got[i] = NPOS BY DEF Range
  <2> QED BY <2>1, <2>2 DEF NposFinal
<1>4. CASE lexed = 0
  <2>1. text = source /\ Given = t BY <1>1, <1>3, <1>4 DEF Origin
  <2>2. t \in Seq(Nat) /\ \A i \in DOMAIN t : t[i] \in 0 .. N - 1
    <3> HIDE DEF N
    <3> QED BY <1>2, PlacesAre DEF Tokens
  <2>3. \A i \in DOMAIN t : place[t[i] + 1] = t[i]
    <3> TAKE i \in DOMAIN t
    <3>1. t[i] + 1 \in 1 .. N /\ (t[i] + 1) - 1 = t[i]
      <4> HIDE DEF t, N
      <4> QED BY <1>2, <2>2
    <3> HIDE DEF t, N
    <3> QED BY <3>1, <1>2, <1>4
  <2> HIDE DEF t, place
  <2>4. t = [i \in DOMAIN t |-> t[i]] BY <2>2
  <2> QED BY <2>1, <2>3, <2>4
<1>5. CASE lexed # 0
  <2> DEFINE K == Kept(source, N)
  <2>1. lexed = N /\ text = [i \in 1 .. written |-> source[Minified[i] + 1]]
    BY <1>1, <1>5 DEF Origin
  <2>2. Minified = K /\ Len(K) = written BY <1>1, <2>1, MinifiedIs
  <2>3. K = Places(KeptPlaces(source), N) /\ KeptPlaces(source) \subseteq 0 .. N - 1
    BY DEF Kept, KeptPlaces
  <2>4. place = K BY <1>5, <2>2
  <2> HIDE DEF N, K, place, t
  <2>5. written \in Nat BY <1>1 DEF MinifyInv
  <2>6. MinifiedTo(text)
    <3>1. Len(text) = written BY <1>1, <2>1, <2>5, LenProperties
    <3>2. Counted(KeptPlaces(source), N) = written BY <2>2, <2>3 DEF Counted
    <3>3. ASSUME NEW p \in KeptPlaces(source)
          PROVE  text[Counted(KeptPlaces(source), p) + 1] = source[p + 1]
      <4> DEFINE i == Counted(KeptPlaces(source), p) + 1
      <4>1. i \in 1 .. Len(K) /\ K[i] = p BY <1>2, <2>3, PlaceOf
      <4> HIDE DEF i
      <4>2. text[i] = source[K[i] + 1] BY <4>1, <2>1, <2>2
      <4> QED BY <4>1, <4>2 DEF i
    <3> QED BY <3>1, <3>2, <3>3 DEF MinifiedTo, N
  <2>7. Len(text) \in Nat BY <1>1, LenProperties
  <2>8. Renamed(K, Tokens(text, Len(text))) = t
    BY <1>2, <2>6, <2>7, TokensSame DEF K, N, t
  <2> QED BY <1>3, <2>4, <2>8 DEF Renamed
<1> QED BY <1>4, <1>5

(* What minify removes separates nothing: the tokens handed out are the *)
(* same, and at the same characters, whether a separated text is read as it *)
(* is or what minify has made of it, for every such text (json::minify, *)
(* lexer::read, ondemand_reader::get). *)
THEOREM MinifyKeepsTokens == Spec => []SameTokens
<1> QED BY SameTokensHold, Invariant, PTL

=============================================================================
