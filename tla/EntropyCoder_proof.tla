------------------------- MODULE EntropyCoder_proof --------------------------
(***************************************************************************)
(* The decoder reads what was encoded.  The encoder narrows an interval    *)
(* of numbers: L[k] and R[k] are its bottom and its size after k symbols,  *)
(* with all the bits there are by then (Chain).  The bytes that leave low, *)
(* their carries and low itself are always the bottom (Enc), the bytes     *)
(* that od_ec_enc_done() makes of them are a number of every one of these  *)
(* intervals (Code), and the window of the decoder is the distance of that *)
(* number from the top of the interval, exact in the bits that are there   *)
(* and with ones behind them (Window).  Induction over the bits and the    *)
(* bytes goes through the least element of a set of natural numbers.       *)
(***************************************************************************)
EXTENDS EntropyCoder, WellFoundedInduction, SequenceTheorems, TLAPS

\* A set of numbers has a least one.
LEMMA Least ==
  ASSUME NEW T, T \subseteq Nat, T # {}
  PROVE  \E x \in T : \A y \in T : x <= y
<1> DEFINE R == OpToRel(<, Nat)
<1>1. IsWellFoundedOn(R, Nat)
  BY NatLessThanWellFounded
<1> HIDE DEF R
<1>2. PICK x \in T : \A y \in T : ~(<<y, x>> \in R)
  BY <1>1, WFMin
<1>3. \A y \in T : ~(y < x)
  BY <1>2 DEF R, OpToRel
<1>4. QED
  BY <1>2, <1>3

\* Induction, for a set of numbers.
LEMMA Induct ==
  ASSUME NEW S, 0 \in S, \A n \in Nat : n \in S => n + 1 \in S
  PROVE  Nat \subseteq S
<1> SUFFICES ASSUME Nat \ S # {} PROVE FALSE
  OBVIOUS
<1>1. PICK x \in Nat \ S : \A y \in Nat \ S : x <= y
  BY Least
<1>2. x # 0 /\ x - 1 \in Nat /\ (x - 1) + 1 = x
  BY <1>1
<1>3. x - 1 \in S
  BY <1>1, <1>2
<1>4. QED
  BY <1>1, <1>2, <1>3

\* g has the value a at zero, and goes on by F.
Defined(g, A, a, F) == /\ g \in [Nat -> A] /\ g[0] = a
                       /\ \A n \in Nat : g[n + 1] = F[n][g[n]]

\* There is such a function.
LEMMA PrimRec ==
  ASSUME NEW A, NEW a \in A, NEW F \in [Nat -> [A -> A]]
  PROVE  \E g : Defined(g, A, a, F)
<1> DEFINE Upto(n, h) == /\ h \in [0..n -> A] /\ h[0] = a
                         /\ \A k \in 0..n - 1 : h[k + 1] = F[k][h[k]]
<1>1. \A n \in Nat : \E h : Upto(n, h)
  <2> DEFINE S == {n \in Nat : \E h : Upto(n, h)}
  <2>1. 0 \in S
    <3>1. Upto(0, [k \in 0..0 |-> a])
      OBVIOUS
    <3>2. QED
      BY <3>1
  <2>2. ASSUME NEW n \in Nat, n \in S PROVE n + 1 \in S
    <3>1. PICK h : Upto(n, h)
      BY <2>2
    <3> DEFINE e == [k \in 0..n + 1 |-> IF k = n + 1 THEN F[n][h[n]] ELSE h[k]]
    <3>2. e \in [0..n + 1 -> A]
      BY <3>1
    <3>3. e[0] = a
      BY <3>1
    <3>4. ASSUME NEW k \in 0..(n + 1) - 1 PROVE e[k + 1] = F[k][e[k]]
      BY <3>1
    <3>5. Upto(n + 1, e)
      BY <3>2, <3>3, <3>4
    <3> HIDE DEF Upto, e
    <3>6. QED
      BY <3>5
  <2> HIDE DEF S
  <2>3. Nat \subseteq S
    BY <2>1, <2>2, Induct
  <2>4. QED
    BY <2>3 DEF S
<1>2. ASSUME NEW m \in Nat, NEW n \in Nat, NEW g, NEW h, Upto(m, g), Upto(n, h),
             NEW i \in Nat, i <= m, i <= n
      PROVE  g[i] = h[i]
  <2> DEFINE S == {k \in Nat : k <= m /\ k <= n => g[k] = h[k]}
  <2>1. 0 \in S
    BY <1>2
  <2>2. ASSUME NEW k \in Nat, k \in S PROVE k + 1 \in S
    <3>1. CASE k + 1 <= m /\ k + 1 <= n
      <4>1. g[k] = h[k] /\ k \in 0..m - 1 /\ k \in 0..n - 1
        BY <2>2, <3>1
      <4>2. g[k + 1] = F[k][g[k]] /\ h[k + 1] = F[k][h[k]]
        BY <1>2, <4>1
      <4>3. QED
        BY <4>1, <4>2
    <3>2. QED
      BY <3>1
  <2> HIDE DEF S
  <2>3. Nat \subseteq S
    BY <2>1, <2>2, Induct
  <2>4. QED
    BY <1>2, <2>3 DEF S
<1> DEFINE H(n) == CHOOSE h : Upto(n, h)
           g == [n \in Nat |-> H(n)[n]]
<1> HIDE DEF Upto
<1>3. \A n \in Nat : Upto(n, H(n))
  BY <1>1
<1> HIDE DEF H
<1>4. g \in [Nat -> A]
  BY <1>3 DEF Upto
<1>5. g[0] = a
  BY <1>3 DEF Upto
<1>6. ASSUME NEW n \in Nat PROVE g[n + 1] = F[n][g[n]]
  <2>1. Upto(n, H(n)) /\ Upto(n + 1, H(n + 1)) /\ n + 1 \in Nat
    BY <1>3
  <2>2. H(n)[n] = H(n + 1)[n]
    BY <1>2, <2>1
  <2>3. H(n + 1)[n + 1] = F[n][H(n + 1)[n]]
    BY <2>1 DEF Upto
  <2>4. QED
    BY <2>1, <2>2, <2>3
<1>7. Defined(g, A, a, F)
  BY <1>4, <1>5, <1>6 DEF Defined
<1>8. QED
  BY <1>7

-----------------------------------------------------------------------------
(* Powers of two.                                                          *)

P2 == CHOOSE g \in [Nat -> Nat] : g[0] = 1 /\ \A n \in Nat : g[n + 1] = 2 * g[n]

\* P2 is 2 to the n, as a function on the natural numbers.
LEMMA P2Def == /\ P2 \in [Nat -> Nat] /\ P2[0] = 1
               /\ \A n \in Nat : P2[n + 1] = 2 * P2[n]
<1> DEFINE F == [n \in Nat |-> [x \in Nat |-> 2 * x]]
<1>1. F \in [Nat -> [Nat -> Nat]] /\ \A n, x \in Nat : F[n][x] = 2 * x
  OBVIOUS
<1> HIDE DEF F
<1>2. PICK g : Defined(g, Nat, 1, F)
  BY <1>1, PrimRec
<1>3. g \in [Nat -> Nat] /\ g[0] = 1 /\ \A n \in Nat : g[n + 1] = 2 * g[n]
  BY <1>1, <1>2 DEF Defined
<1>4. QED
  BY <1>3 DEF P2

\* Powers are positive.
LEMMA P2Pos == \A n \in Nat : P2[n] \in Nat /\ P2[n] > 0
<1> DEFINE S == {n \in Nat : P2[n] > 0}
<1>1. 0 \in S
  BY P2Def
<1>2. ASSUME NEW n \in Nat, n \in S PROVE n + 1 \in S
  BY <1>2, P2Def
<1> HIDE DEF S
<1>3. Nat \subseteq S
  BY <1>1, <1>2, Induct
<1>4. QED
  BY <1>3, P2Def DEF S

\* Powers of sums are products.
LEMMA P2Add == ASSUME NEW m \in Nat, NEW n \in Nat PROVE P2[m + n] = P2[m] * P2[n]
<1> DEFINE S == {k \in Nat : P2[m + k] = P2[m] * P2[k]}
<1>1. 0 \in S
  BY P2Def
<1>2. ASSUME NEW k \in Nat, k \in S PROVE k + 1 \in S
  <2>1. P2[(m + k) + 1] = 2 * P2[m + k] /\ P2[k + 1] = 2 * P2[k]
    BY P2Def
  <2>2. P2[m] \in Nat /\ P2[k] \in Nat
    BY P2Def
  <2>3. 2 * (P2[m] * P2[k]) = P2[m] * (2 * P2[k])
    BY <2>2
  <2>4. m + (k + 1) = (m + k) + 1
    OBVIOUS
  <2>5. P2[m + k] = P2[m] * P2[k]
    BY <1>2
  <2>6. QED
    BY <2>1, <2>3, <2>4, <2>5
<1> HIDE DEF S
<1>3. Nat \subseteq S
  BY <1>1, <1>2, Induct
<1>4. QED
  BY <1>3 DEF S

\* The powers that the code uses.
LEMMA P2Vals ==
  /\ P2[0] = 1 /\ P2[1] = 2 /\ P2[2] = 4 /\ P2[3] = 8 /\ P2[4] = 16
  /\ P2[5] = 32 /\ P2[6] = 64 /\ P2[7] = 128 /\ P2[8] = 256 /\ P2[9] = 512
  /\ P2[10] = 1024 /\ P2[11] = 2048 /\ P2[12] = 4096 /\ P2[13] = 8192
  /\ P2[14] = 16384 /\ P2[15] = 32768 /\ P2[16] = 65536
<1>1. /\ P2[0] = 1 /\ P2[0 + 1] = 2 * P2[0] /\ P2[1 + 1] = 2 * P2[1]
      /\ P2[2 + 1] = 2 * P2[2] /\ P2[3 + 1] = 2 * P2[3] /\ P2[4 + 1] = 2 * P2[4]
      /\ P2[5 + 1] = 2 * P2[5] /\ P2[6 + 1] = 2 * P2[6] /\ P2[7 + 1] = 2 * P2[7]
      /\ P2[8 + 1] = 2 * P2[8] /\ P2[9 + 1] = 2 * P2[9] /\ P2[10 + 1] = 2 * P2[10]
      /\ P2[11 + 1] = 2 * P2[11] /\ P2[12 + 1] = 2 * P2[12]
      /\ P2[13 + 1] = 2 * P2[13] /\ P2[14 + 1] = 2 * P2[14]
      /\ P2[15 + 1] = 2 * P2[15]
  BY P2Def
<1>2. QED
  BY <1>1

\* The powers of the model are the same, as far as the code shifts.
LEMMA Pow == ASSUME NEW n \in 0..23 PROVE 2 ^ n = P2[n]
<1>1. /\ P2[17] = 131072 /\ P2[18] = 262144 /\ P2[19] = 524288
      /\ P2[20] = 1048576 /\ P2[21] = 2097152 /\ P2[22] = 4194304
      /\ P2[23] = 8388608
  <2>1. \A k \in 1..7 : P2[16 + k] = P2[16] * P2[k]
    BY P2Add
  <2>2. QED
    BY <2>1, P2Vals
<1>2. CASE n = 0
  BY <1>2, <1>1, P2Vals
<1>3. CASE n = 1
  BY <1>3, <1>1, P2Vals
<1>4. CASE n = 2
  BY <1>4, <1>1, P2Vals
<1>5. CASE n = 3
  BY <1>5, <1>1, P2Vals
<1>6. CASE n = 4
  BY <1>6, <1>1, P2Vals
<1>7. CASE n = 5
  BY <1>7, <1>1, P2Vals
<1>8. CASE n = 6
  BY <1>8, <1>1, P2Vals
<1>9. CASE n = 7
  BY <1>9, <1>1, P2Vals
<1>10. CASE n = 8
  BY <1>10, <1>1, P2Vals
<1>11. CASE n = 9
  BY <1>11, <1>1, P2Vals
<1>12. CASE n = 10
  BY <1>12, <1>1, P2Vals
<1>13. CASE n = 11
  BY <1>13, <1>1, P2Vals
<1>14. CASE n = 12
  BY <1>14, <1>1, P2Vals
<1>15. CASE n = 13
  BY <1>15, <1>1, P2Vals
<1>16. CASE n = 14
  BY <1>16, <1>1, P2Vals
<1>17. CASE n = 15
  BY <1>17, <1>1, P2Vals
<1>18. CASE n = 16
  BY <1>18, <1>1, P2Vals
<1>19. CASE n = 17
  BY <1>19, <1>1, P2Vals
<1>20. CASE n = 18
  BY <1>20, <1>1, P2Vals
<1>21. CASE n = 19
  BY <1>21, <1>1, P2Vals
<1>22. CASE n = 20
  BY <1>22, <1>1, P2Vals
<1>23. CASE n = 21
  BY <1>23, <1>1, P2Vals
<1>24. CASE n = 22
  BY <1>24, <1>1, P2Vals
<1>25. CASE n = 23
  BY <1>25, <1>1, P2Vals
<1>26. QED
  BY <1>2, <1>3, <1>4, <1>5, <1>6, <1>7, <1>8, <1>9, <1>10, <1>11, <1>12, <1>13, <1>14, <1>15, <1>16, <1>17, <1>18, <1>19, <1>20, <1>21, <1>22, <1>23, <1>24, <1>25

-----------------------------------------------------------------------------
(* Strings of bytes as numbers.                                            *)

\* Behind its end a string goes on with zeros.
At(w, i) == IF i <= Len(w) THEN w[i] ELSE 0

\* g[n] is the number that the first n digits of w make, to the base of 256.
IsVal(g, w) == /\ g \in [Nat -> Nat] /\ g[0] = 0
               /\ \A n \in Nat : g[n + 1] = 256 * g[n] + At(w, n + 1)

Val(w) == CHOOSE g : IsVal(g, w)

Whole(w) == Val(w)[Len(w)]

\* Entries are natural numbers.
LEMMA AtNat == ASSUME NEW w \in Seq(Nat), NEW i \in Nat \ {0} PROVE At(w, i) \in Nat
BY DEF At

\* The value of a word, entry by entry, exists as the recursion says.
LEMMA ValDef ==
  ASSUME NEW w \in Seq(Nat)
  PROVE  /\ Val(w) \in [Nat -> Nat] /\ Val(w)[0] = 0
         /\ \A n \in Nat : Val(w)[n + 1] = 256 * Val(w)[n] + At(w, n + 1)
<1> DEFINE F == [n \in Nat |-> [x \in Nat |-> 256 * x + At(w, n + 1)]]
<1>1. \A n \in Nat : At(w, n + 1) \in Nat
  BY AtNat
<1>2. F \in [Nat -> [Nat -> Nat]]
  BY <1>1
<1>3. \A n, x \in Nat : F[n][x] = 256 * x + At(w, n + 1)
  OBVIOUS
<1> HIDE DEF F
<1>4. PICK g : Defined(g, Nat, 0, F)
  BY <1>2, PrimRec
<1>5. IsVal(g, w)
  <2>1. g \in [Nat -> Nat] /\ g[0] = 0 /\ \A n \in Nat : g[n + 1] = F[n][g[n]]
    BY <1>4 DEF Defined
  <2>2. ASSUME NEW n \in Nat PROVE g[n + 1] = 256 * g[n] + At(w, n + 1)
    <3>1. g[n] \in Nat /\ g[n + 1] = F[n][g[n]]
      BY <2>1
    <3>2. F[n][g[n]] = 256 * g[n] + At(w, n + 1)
      BY <1>3, <3>1
    <3>3. QED
      BY <3>1, <3>2
  <2>3. QED
    BY <2>1, <2>2 DEF IsVal
<1>6. IsVal(Val(w), w)
  BY <1>5 DEF Val
<1>7. QED
  BY <1>6 DEF IsVal

\* The same at one number.
LEMMA ValStep ==
  ASSUME NEW w \in Seq(Nat), NEW n \in Nat
  PROVE  Val(w)[n] \in Nat /\ Val(w)[n + 1] = 256 * Val(w)[n] + At(w, n + 1)
<1>1. Val(w) \in [Nat -> Nat]
  BY ValDef
<1>2. \A k \in Nat : Val(w)[k + 1] = 256 * Val(w)[k] + At(w, k + 1)
  BY ValDef
<1>3. QED
  BY <1>1, <1>2

\* Strings that begin alike begin with the same numbers.
LEMMA ValAgree ==
  ASSUME NEW v \in Seq(Nat), NEW w \in Seq(Nat), NEW m \in Nat,
         \A i \in 1..m : At(v, i) = At(w, i),
         NEW n \in 0..m
  PROVE  Val(v)[n] = Val(w)[n]
<1> DEFINE S == {k \in Nat : k <= m => Val(v)[k] = Val(w)[k]}
<1>1. 0 \in S
  BY ValDef
<1>2. ASSUME NEW k \in Nat, k \in S PROVE k + 1 \in S
  <2>1. CASE k + 1 <= m
    <3>1. Val(v)[k] = Val(w)[k] /\ At(v, k + 1) = At(w, k + 1)
      BY <1>2, <2>1
    <3>2. Val(v)[k + 1] = 256 * Val(v)[k] + At(v, k + 1)
      BY ValStep
    <3>3. Val(w)[k + 1] = 256 * Val(w)[k] + At(w, k + 1)
      BY ValStep
    <3>4. QED
      BY <3>1, <3>2, <3>3
  <2>2. QED
    BY <2>1
<1> HIDE DEF S
<1>3. Nat \subseteq S
  BY <1>1, <1>2, Induct
<1>4. QED
  BY <1>3 DEF S

\* What one more byte, or two, make of a number.
LEMMA WholeOne ==
  ASSUME NEW w \in Seq(Nat), NEW x \in Nat
  PROVE  /\ w \o <<x>> \in Seq(Nat) /\ Len(w \o <<x>>) = Len(w) + 1
         /\ Whole(w) \in Nat /\ Whole(w \o <<x>>) = 256 * Whole(w) + x
<1> DEFINE v == w \o <<x>>
<1>1. v \in Seq(Nat) /\ Len(v) = Len(w) + 1 /\ Len(w) \in Nat
  OBVIOUS
<1>2. \A i \in 1..Len(w) : At(v, i) = At(w, i)
  BY DEF At
<1>3. At(v, Len(w) + 1) = x
  BY DEF At
<1> HIDE DEF v
<1>4. Val(v)[Len(w)] = Val(w)[Len(w)]
  <2>1. Len(w) \in Nat /\ Len(w) \in 0..Len(w)
    BY <1>1
  <2>2. QED
    BY <1>1, <1>2, <2>1, ValAgree
<1>5. Val(v)[Len(w) + 1] = 256 * Val(v)[Len(w)] + x
  <2>1. v \in Seq(Nat) /\ Len(w) \in Nat
    BY <1>1
  <2>2. Val(v)[Len(w) + 1] = 256 * Val(v)[Len(w)] + At(v, Len(w) + 1)
    BY <2>1, ValStep
  <2>3. QED
    BY <1>3, <2>2
<1>6. Val(w)[Len(w)] \in Nat
  BY ValDef
<1>7. QED
  BY <1>1, <1>4, <1>5, <1>6 DEF Whole, v

\* Two entries more.
LEMMA WholeTwo ==
  ASSUME NEW w \in Seq(Nat), NEW x \in Nat, NEW y \in Nat
  PROVE  /\ w \o <<x, y>> \in Seq(Nat) /\ Len(w \o <<x, y>>) = Len(w) + 2
         /\ Whole(w \o <<x, y>>) = 256 * (256 * Whole(w) + x) + y
<1> DEFINE v == w \o <<x, y>>
<1>1. v \in Seq(Nat) /\ Len(v) = Len(w) + 2 /\ Len(w) \in Nat
  OBVIOUS
<1>2. \A i \in 1..Len(w) : At(v, i) = At(w, i)
  BY DEF At
<1>3. At(v, Len(w) + 1) = x /\ At(v, Len(w) + 1 + 1) = y
  BY DEF At
<1> HIDE DEF v
<1>4. Val(v)[Len(w)] = Val(w)[Len(w)]
  <2>1. Len(w) \in Nat /\ Len(w) \in 0..Len(w)
    BY <1>1
  <2>2. QED
    BY <1>1, <1>2, <2>1, ValAgree
<1>5. /\ Val(v)[Len(w) + 1] = 256 * Val(v)[Len(w)] + x
      /\ Val(v)[Len(w) + 1 + 1] = 256 * Val(v)[Len(w) + 1] + y
  <2>1. \A n \in Nat : Val(v)[n + 1] = 256 * Val(v)[n] + At(v, n + 1)
    BY <1>1, ValDef
  <2>2. Len(w) + 1 \in Nat
    BY <1>1
  <2>3. QED
    BY <1>1, <1>3, <2>1, <2>2
<1>6. QED
  BY <1>1, <1>4, <1>5 DEF Whole, v

\* The first n of m bytes leave less than one of their last digit open, and
\* nothing behind the end of the string.
LEMMA ValBounds ==
  ASSUME NEW w \in Seq(0..255), NEW n \in Nat, NEW m \in Nat, n <= m
  PROVE  /\ Val(w)[n] * P2[8 * (m - n)] <= Val(w)[m]
         /\ Val(w)[m] < (Val(w)[n] + 1) * P2[8 * (m - n)]
         /\ n >= Len(w) => Val(w)[m] = Val(w)[n] * P2[8 * (m - n)]
<1> DEFINE a == Val(w)[n]
           S == {k \in Nat : /\ a * P2[8 * k] <= Val(w)[n + k]
                             /\ Val(w)[n + k] < (a + 1) * P2[8 * k]
                             /\ n >= Len(w) => Val(w)[n + k] = a * P2[8 * k]}
<1>1. w \in Seq(Nat) /\ \A i \in 1..Len(w) : w[i] \in 0..255
  BY SeqMonotonic, ElementOfSeq
<1>2. a \in Nat
  BY <1>1, ValDef
<1>3. 0 \in S
  <2>1. P2[8 * 0] = 1 /\ n + 0 = n
    BY P2Def
  <2>2. QED
    BY <1>2, <2>1
<1>4. ASSUME NEW k \in Nat, k \in S PROVE k + 1 \in S
  <2> DEFINE x == At(w, n + k + 1)
             p == P2[8 * k]
             u == Val(w)[n + k]
  <2>1. x \in 0..255 /\ (n >= Len(w) => x = 0)
    BY <1>1, LenProperties DEF At
  <2>2. Val(w)[(n + k) + 1] = 256 * u + x
    BY <1>1, ValDef
  <2>3. P2[8 * k + 8] = p * 256
    <3>1. \A i \in Nat : P2[i + 8] = P2[i] * P2[8]
      BY P2Add
    <3>2. QED
      BY <3>1, P2Vals
  <2>4. p \in Nat /\ u \in Nat
    <3>1. 8 * k \in Nat /\ n + k \in Nat
      OBVIOUS
    <3>2. p \in Nat
      BY <3>1, P2Pos
    <3>3. u \in Nat
      BY <1>1, <3>1, ValStep
    <3>4. QED
      BY <3>2, <3>3
  <2>5. a * p <= u /\ u < (a + 1) * p /\ (n >= Len(w) => u = a * p)
    BY <1>4
  <2> HIDE DEF x, p, u, a
  <2>6. /\ a * (p * 256) <= 256 * u + x
        /\ 256 * u + x < (a + 1) * (p * 256)
        /\ n >= Len(w) => 256 * u + x = a * (p * 256)
    <3>1. a * (p * 256) = 256 * (a * p) /\ (a + 1) * (p * 256) = 256 * ((a + 1) * p)
      BY <1>2, <2>4
    <3>2. a * p \in Nat /\ (a + 1) * p \in Nat
      BY <1>2, <2>4
    <3> DEFINE y == a * p
               z == (a + 1) * p
    <3>3. y \in Nat /\ z \in Nat /\ y <= u /\ u < z /\ (n >= Len(w) => u = y)
      BY <2>5, <3>2
    <3> HIDE DEF y, z
    <3>4. /\ 256 * y <= 256 * u + x /\ 256 * u + x < 256 * z
          /\ n >= Len(w) => 256 * u + x = 256 * y
      BY <2>1, <2>4, <3>3
    <3>5. QED
      BY <3>1, <3>4 DEF y, z
  <2>7. 8 * (k + 1) = 8 * k + 8 /\ n + (k + 1) = (n + k) + 1
    OBVIOUS
  <2>8. QED
    BY <2>2, <2>3, <2>6, <2>7
<1> HIDE DEF S
<1>5. Nat \subseteq S
  BY <1>3, <1>4, Induct
<1>6. m - n \in S /\ n + (m - n) = m
  BY <1>5
<1>7. QED
  BY <1>6 DEF S

-----------------------------------------------------------------------------
(* The carries.                                                            *)

\* A byte more is eight bits more.
LEMMA P2Byte ==
  ASSUME NEW k \in Nat
  PROVE  P2[8 * k] \in Nat /\ P2[8 * (k + 1)] = P2[8 * k] * 256
<1> DEFINE j == 8 * k
<1>1. j \in Nat /\ 8 * (k + 1) = j + 8
  OBVIOUS
<1> HIDE DEF j
<1>2. P2[j + 8] = P2[j] * P2[8]
  BY <1>1, P2Add
<1>3. P2[j] \in Nat
  BY <1>1, P2Def
<1>4. QED
  BY <1>1, <1>2, <1>3, P2Vals DEF j

\* Quotient and rest of a division by 256.
LEMMA DivNat ==
  ASSUME NEW x \in Nat
  PROVE  /\ x \div 256 \in Nat /\ x % 256 \in 0..255
         /\ x % 256 = x - 256 * (x \div 256)
OBVIOUS

IsSeqOf(n, d, S) == d \in Seq(S) /\ Len(d) = n

\* A function on 1..n is a sequence.
LEMMA SeqOf ==
  ASSUME NEW S, NEW n \in Nat, NEW d \in [1..n -> S]
  PROVE  IsSeqOf(n, d, S)
BY DEF IsSeqOf

\* The sums of od_ec_enc_done(), from the last byte to the first.
IsSums(s, w) == /\ s \in [Nat -> Nat] /\ s[Len(w) + 1] = 0
                /\ \A i \in 1..Len(w) : s[i] = w[i] + (s[i + 1] \div 256)

\* The sums that od_ec_enc_done() makes, as AddCarries defines them, exist.
LEMMA Sums ==
  ASSUME NEW w \in Seq(Nat)
  PROVE  \E s : /\ IsSums(s, w)
                /\ AddCarries(w) = [i \in 1..Len(w) |-> s[i] % 256]
<1> DEFINE n == Len(w)
           body(f) == [i \in 1..n + 1 |-> IF i > n THEN 0
                                          ELSE w[i] + (f[i + 1] \div 256)]
           sum == CHOOSE f : f = body(f)
<1>1. AddCarries(w) = [i \in 1..n |-> sum[i] % 256]
  BY DEF AddCarries
<1>2. n \in Nat /\ \A i \in 1..n : w[i] \in Nat
  BY LenProperties, ElementOfSeq
<1> HIDE DEF n
<1> DEFINE F == [j \in Nat |-> [x \in Nat |-> IF j < n THEN w[n - j] + (x \div 256)
                                              ELSE 0]]
<1>3. F \in [Nat -> [Nat -> Nat]]
  <2>1. ASSUME NEW j \in Nat, NEW x \in Nat
        PROVE  (IF j < n THEN w[n - j] + (x \div 256) ELSE 0) \in Nat
    BY <1>2, DivNat
  <2>2. QED
    BY <2>1
<1>4. \A j, x \in Nat : j < n => F[j][x] = w[n - j] + (x \div 256)
  OBVIOUS
<1> HIDE DEF F
<1>5. PICK g : Defined(g, Nat, 0, F)
  BY <1>3, PrimRec
<1> DEFINE s == [i \in 1..n + 1 |-> g[n + 1 - i]]
<1>6. s \in [1..n + 1 -> Nat] /\ s[n + 1] = 0
  <2>1. \A i \in 1..n + 1 : n + 1 - i \in Nat
    BY <1>2
  <2>2. g \in [Nat -> Nat] /\ g[0] = 0
    BY <1>5 DEF Defined
  <2>3. n + 1 \in 1..n + 1 /\ n + 1 - (n + 1) = 0
    BY <1>2
  <2>4. QED
    BY <2>1, <2>2, <2>3
<1>7. ASSUME NEW i \in 1..n PROVE s[i] = w[i] + (s[i + 1] \div 256)
  <2>1. \A j \in Nat : g[j] \in Nat /\ g[j + 1] = F[j][g[j]]
    BY <1>5 DEF Defined
  <2>2. n - i \in Nat /\ n - i < n /\ (n - i) + 1 = n + 1 - i /\ n - (n - i) = i
        /\ n + 1 - (i + 1) = n - i
    BY <1>2
  <2>3. g[n + 1 - i] = w[i] + (g[n - i] \div 256)
    <3> DEFINE j == n - i
    <3>1. j \in Nat /\ j < n /\ n - j = i /\ n + 1 - i = j + 1
      BY <2>2
    <3> HIDE DEF j
    <3>2. g[j + 1] = w[n - j] + (g[j] \div 256)
      <4>1. g[j] \in Nat /\ g[j + 1] = F[j][g[j]]
        BY <2>1, <3>1
      <4>2. ASSUME NEW x \in Nat PROVE F[j][x] = w[n - j] + (x \div 256)
        BY <1>4, <3>1, ZenonT(60)
      <4>3. QED
        BY <4>1, <4>2
    <3>3. QED
      BY <3>1, <3>2 DEF j
  <2>4. QED
    BY <1>2, <2>2, <2>3
<1> HIDE DEF s
<1>8. s = body(s)
  <2>1. s = [i \in 1..n + 1 |-> s[i]]
    BY <1>6
  <2>2. ASSUME NEW i \in 1..n + 1
        PROVE  s[i] = IF i > n THEN 0 ELSE w[i] + (s[i + 1] \div 256)
    BY <1>2, <1>6, <1>7
  <2>3. QED
    BY <2>1, <2>2
<1>9. ASSUME NEW f, f = body(f) PROVE f = s
  <2>1. /\ DOMAIN f = 1..n + 1
        /\ \A i \in 1..n + 1 : f[i] = IF i > n THEN 0 ELSE w[i] + (f[i + 1] \div 256)
    BY <1>9
  <2> DEFINE S == {j \in Nat : j <= n => f[n + 1 - j] = s[n + 1 - j]}
  <2>2. 0 \in S
    <3>1. n + 1 - 0 = n + 1 /\ n + 1 \in 1..n + 1 /\ n + 1 > n
      BY <1>2
    <3>2. f[n + 1] = 0
      BY <2>1, <3>1
    <3>3. QED
      BY <1>6, <3>1, <3>2
  <2>3. ASSUME NEW j \in Nat, j \in S PROVE j + 1 \in S
    <3>1. CASE j + 1 <= n
      <4> DEFINE i == n - j
      <4>1. i \in 1..n /\ n + 1 - j = i + 1 /\ n + 1 - (j + 1) = i /\ j <= n
        BY <1>2, <3>1
      <4>2. f[i + 1] = s[i + 1]
        BY <2>3, <4>1
      <4>3. f[i] = w[i] + (f[i + 1] \div 256)
        BY <1>2, <2>1, <4>1
      <4>4. f[i] = s[i]
        BY <1>7, <4>1, <4>2, <4>3
      <4>5. QED
        BY <4>1, <4>4
    <3>2. QED
      BY <3>1
  <2> HIDE DEF S
  <2>4. Nat \subseteq S
    BY <2>2, <2>3, Induct
  <2>5. ASSUME NEW i \in 1..n + 1 PROVE f[i] = s[i]
    <3>1. n + 1 - i \in Nat /\ n + 1 - i <= n /\ n + 1 - (n + 1 - i) = i
      BY <1>2
    <3>2. QED
      BY <2>4, <3>1 DEF S
  <2>6. f = [i \in 1..n + 1 |-> f[i]] /\ s = [i \in 1..n + 1 |-> s[i]]
    BY <1>6, <1>9
  <2>7. QED
    BY <2>5, <2>6
<1> HIDE DEF body
<1>10. sum = s
  BY <1>8, <1>9
<1> DEFINE e == [i \in Nat |-> IF i \in 1..n + 1 THEN s[i] ELSE 0]
<1>11. e \in [Nat -> Nat] /\ \A i \in 1..n + 1 : e[i] = s[i]
  BY <1>2, <1>6
<1> HIDE DEF e
<1>12. e[n + 1] = 0 /\ \A i \in 1..n : e[i] = w[i] + (e[i + 1] \div 256)
  <2>1. n + 1 \in 1..n + 1 /\ \A i \in 1..n : i \in 1..n + 1 /\ i + 1 \in 1..n + 1
    BY <1>2
  <2>2. QED
    BY <1>6, <1>7, <1>11, <2>1
<1>13. AddCarries(w) = [i \in 1..n |-> e[i] % 256]
  <2>1. \A i \in 1..n : e[i] = s[i]
    BY <1>2, <1>11
  <2>2. QED
    BY <1>1, <1>10, <2>1
<1>14. QED
  BY <1>11, <1>12, <1>13 DEF n, IsSums

\* What one byte more makes of the two sides of the sum below.
LEMMA CarryStep ==
  ASSUME NEW a \in Nat, NEW b \in Nat, NEW p \in Nat, NEW x \in Nat, NEW y \in Nat,
         NEW v \in Nat, NEW c \in Nat,
         a + (x \div 256) = b + c * p, x = v + y
  PROVE  (256 * a + v) + y = (256 * b + (x % 256)) + c * (p * 256)
<1> DEFINE q == x \div 256
           r == x % 256
           z == c * p
<1>1. /\ q \in Nat /\ r \in Nat /\ z \in Nat /\ r = x - 256 * q /\ a + q = b + z
  BY DivNat
<1> DEFINE t == c * (p * 256)
<1>2. t = 256 * z
  OBVIOUS
<1> HIDE DEF q, r, z, t
<1>3. (256 * a + v) + y = (256 * b + r) + t
  BY <1>1, <1>2
<1>4. QED
  BY <1>3 DEF r, t

\* The number with the carries still in it, and the number of the bytes.
InSteps(n, w, s, V, D) ==
  /\ n \in Nat /\ w \in [Nat -> Nat] /\ s \in [Nat -> Nat]
  /\ V \in [Nat -> Nat] /\ D \in [Nat -> Nat]
  /\ V[0] = 0 /\ D[0] = 0 /\ s[n + 1] = 0
  /\ \A k \in 0..n - 1 : /\ V[k + 1] = 256 * V[k] + w[k + 1]
                         /\ D[k + 1] = 256 * D[k] + (s[k + 1] % 256)
                         /\ s[k + 1] = w[k + 1] + (s[k + 2] \div 256)

SumIs(n, s, V, D) == V[n] = D[n] + (s[1] \div 256) * P2[8 * n]

\* What a carry takes from one entry it gives to the one before.
LEMMA CarrySum ==
  ASSUME NEW n, NEW w, NEW s, NEW V, NEW D, InSteps(n, w, s, V, D)
  PROVE  SumIs(n, s, V, D)
<1> DEFINE c == s[1] \div 256
           S == {k \in Nat : k <= n => V[k] + (s[k + 1] \div 256) = D[k] + c * P2[8 * k]}
<1>0. /\ n \in Nat /\ w \in [Nat -> Nat] /\ s \in [Nat -> Nat]
      /\ V \in [Nat -> Nat] /\ D \in [Nat -> Nat]
  BY DEF InSteps
<1>1. c \in Nat
  BY <1>0, DivNat
<1>2. 0 \in S
  <2>1. P2[8 * 0] = 1
    BY P2Def
  <2>2. QED
    BY <1>1, <2>1 DEF InSteps
<1>3. ASSUME NEW k \in Nat, k \in S PROVE k + 1 \in S
  <2>1. CASE k + 1 <= n
    <3> HIDE DEF c
    <3>1. /\ k \in 0..n - 1 /\ (k + 1) + 1 = k + 2
          /\ V[k] + (s[k + 1] \div 256) = D[k] + c * P2[8 * k]
      BY <1>0, <1>3, <2>1
    <3>2. /\ V[k + 1] = 256 * V[k] + w[k + 1]
          /\ D[k + 1] = 256 * D[k] + (s[k + 1] % 256)
          /\ s[k + 1] = w[k + 1] + (s[k + 2] \div 256)
      BY <3>1 DEF InSteps
    <3>3. P2[8 * k] \in Nat /\ P2[8 * (k + 1)] = P2[8 * k] * 256
      BY P2Byte
    <3> DEFINE a == V[k]
               b == D[k]
               x == s[k + 1]
               y == s[k + 2] \div 256
               v == w[k + 1]
               p == P2[8 * k]
    <3>4. /\ a \in Nat /\ b \in Nat /\ x \in Nat /\ v \in Nat /\ p \in Nat
          /\ y \in Nat /\ a + (x \div 256) = b + c * p /\ x = v + y
      BY <1>0, <3>1, <3>2, <3>3
    <3> HIDE DEF a, b, x, y, v, p
    <3>5. (256 * a + v) + y = (256 * b + (x % 256)) + c * (p * 256)
      BY <1>1, <3>4, CarryStep
    <3>6. V[k + 1] + (s[(k + 1) + 1] \div 256) = D[k + 1] + c * P2[8 * (k + 1)]
      BY <3>1, <3>2, <3>3, <3>5 DEF a, b, x, y, v, p
    <3>7. QED
      BY <3>6
  <2>2. QED
    BY <2>1
<1> HIDE DEF S, c
<1>4. Nat \subseteq S
  BY <1>2, <1>3, Induct
<1>5. V[n] + (s[n + 1] \div 256) = D[n] + c * P2[8 * n]
  BY <1>0, <1>4 DEF S
<1>6. s[n + 1] \div 256 = 0
  BY DEF InSteps
<1>7. V[n] \in Nat /\ D[n] \in Nat /\ P2[8 * n] \in Nat
  BY <1>0, P2Byte
<1>8. V[n] = D[n] + c * P2[8 * n]
  BY <1>1, <1>5, <1>6, <1>7
<1>9. QED
  BY <1>8 DEF c, SumIs

\* The bytes are never more than the number, so that nothing is carried out of
\* the first of them.
LEMMA NoneLeft ==
  ASSUME NEW c \in Nat, NEW p \in Nat, NEW z \in Nat, z + c * p < p
  PROVE  c * p = 0
<1>1. ASSUME c > 0 PROVE FALSE
  <2>1. c * p >= p /\ c * p \in Nat
    BY <1>1
  <2>2. QED
    BY <2>1
<1>2. QED
  BY <1>1

\* The bytes make the number.
LEMMA CarriesFrom ==
  ASSUME NEW n \in Nat, NEW s \in [Nat -> Nat], NEW w \in Seq(Nat), n = Len(w),
         IsSums(s, w), Whole(w) < P2[8 * n]
  PROVE  LET d == [i \in 1..n |-> s[i] % 256]
         IN d \in Seq(0..255) /\ Len(d) = n /\ Whole(d) = Whole(w)
<1> DEFINE d == [i \in 1..n |-> s[i] % 256]
<1>0. s[n + 1] = 0 /\ \A i \in 1..n : s[i] = w[i] + (s[i + 1] \div 256)
  BY DEF IsSums
<1>1. /\ d \in Seq(0..255) /\ d \in Seq(Nat) /\ Len(d) = n
      /\ \A i \in 1..n : d[i] = s[i] % 256
  <2>1. ASSUME NEW i \in 1..n PROVE s[i] % 256 \in 0..255
    <3>1. s[i] \in Nat
      OBVIOUS
    <3>2. QED
      BY <3>1, DivNat
  <2>2. d \in [1..n -> 0..255]
    BY <2>1
  <2>6. \A i \in 1..n : d[i] = s[i] % 256
    OBVIOUS
  <2> DEFINE B == 0..255
  <2>7. d \in [1..n -> B]
    BY <2>2
  <2> HIDE DEF B, d
  <2>8. d \in Seq(B) /\ Len(d) = n
    <3>1. IsSeqOf(n, d, B)
      BY <2>7, SeqOf
    <3>2. QED
      BY <3>1 DEF IsSeqOf
  <2>3. d \in Seq(0..255) /\ Len(d) = n
    BY <2>8 DEF B
  <2>4. 0..255 \subseteq Nat
    OBVIOUS
  <2>5. QED
    BY <2>3, <2>4, <2>6, <2>8, SeqMonotonic
<1>2. PICK V \in [Nat -> Nat] : V = Val(w)
  BY ValDef
<1>3. PICK D \in [Nat -> Nat] : D = Val(d)
  BY <1>1, ValDef
<1>4. PICK u \in [Nat -> Nat] : \A i \in 1..n : u[i] = w[i]
  <2> DEFINE e == [i \in Nat |-> IF i \in 1..n THEN w[i] ELSE 0]
  <2>1. ASSUME NEW i \in Nat PROVE (IF i \in 1..n THEN w[i] ELSE 0) \in Nat
    BY ElementOfSeq
  <2>2. e \in [Nat -> Nat]
    BY <2>1
  <2>4. \A i \in 1..n : e[i] = w[i]
    OBVIOUS
  <2> HIDE DEF e
  <2>3. QED
    BY <2>2, <2>4
<1>5. V[0] = 0 /\ D[0] = 0
  BY <1>1, <1>2, <1>3, ValDef
<1>6. ASSUME NEW k \in 0..n - 1
      PROVE  /\ V[k + 1] = 256 * V[k] + u[k + 1]
             /\ D[k + 1] = 256 * D[k] + (s[k + 1] % 256)
             /\ s[k + 1] = u[k + 1] + (s[k + 2] \div 256)
  <2>1. k \in Nat /\ k + 1 \in 1..n /\ (k + 1) + 1 = k + 2
    OBVIOUS
  <2>2. At(w, k + 1) = u[k + 1] /\ At(d, k + 1) = s[k + 1] % 256
    BY <1>1, <1>4, <2>1 DEF At
  <2>3. Val(w)[k + 1] = 256 * Val(w)[k] + At(w, k + 1)
    BY <2>1, ValDef
  <2>4. Val(d)[k + 1] = 256 * Val(d)[k] + At(d, k + 1)
    <3>1. d \in Seq(Nat) /\ k \in Nat
      BY <1>1, <2>1
    <3> HIDE DEF d
    <3>2. QED
      BY <3>1, ValStep
  <2>5. s[k + 1] = w[k + 1] + (s[(k + 1) + 1] \div 256)
    BY <1>0, <2>1
  <2>6. QED
    BY <1>2, <1>3, <1>4, <2>1, <2>2, <2>3, <2>4, <2>5
<1> DEFINE c == s[1] \div 256
           p == P2[8 * n]
           z == D[n]
<1>7. V[n] = z + c * p
  <2>1. InSteps(n, u, s, V, D)
    BY <1>0, <1>5, <1>6 DEF InSteps
  <2>2. V[n] = D[n] + (s[1] \div 256) * P2[8 * n]
    <3>1. SumIs(n, s, V, D)
      BY <2>1, CarrySum
    <3>2. QED
      BY <3>1 DEF SumIs
  <2>3. QED
    BY <2>2
<1>8. c \in Nat /\ p \in Nat /\ z \in Nat
  <2>1. s[1] \in Nat /\ z \in Nat
    OBVIOUS
  <2>2. p \in Nat
    BY P2Byte
  <2>3. QED
    BY <2>1, <2>2, DivNat
<1>9. V[n] < p
  BY <1>2 DEF Whole
<1> HIDE DEF c, p, z
<1>10. V[n] = z
  <2>1. z + c * p < p
    BY <1>7, <1>9
  <2>2. c * p = 0
    BY <1>8, <2>1, NoneLeft
  <2>3. QED
    BY <1>7, <1>8, <2>2
<1>11. QED
  BY <1>1, <1>2, <1>3, <1>10 DEF Whole, z

\* Adding the carries up keeps the number, if it has as many bytes.
LEMMA Carries ==
  ASSUME NEW w \in Seq(Nat), Whole(w) < P2[8 * Len(w)]
  PROVE  /\ AddCarries(w) \in Seq(0..255) /\ Len(AddCarries(w)) = Len(w)
         /\ Whole(AddCarries(w)) = Whole(w)
<1>1. PICK s : /\ IsSums(s, w)
               /\ AddCarries(w) = [i \in 1..Len(w) |-> s[i] % 256]
  BY Sums
<1>2. Len(w) \in Nat
  BY LenProperties
<1> DEFINE n == Len(w)
<1>3. s \in [Nat -> Nat]
  BY <1>1 DEF IsSums
<1>4. LET d == [i \in 1..n |-> s[i] % 256]
      IN d \in Seq(0..255) /\ Len(d) = n /\ Whole(d) = Whole(w)
  BY <1>1, <1>2, <1>3, CarriesFrom
<1>5. QED
  BY <1>1, <1>4

-----------------------------------------------------------------------------
(* The part of the range that a symbol takes.                              *)

\* rng, between two symbols.
Ranges == {r \in Nat : 32768 <= r /\ r < 65536}
Sizes == {n \in Nat : 0 < n /\ n < 65536}

\* How far below the top of the range the part of y begins and ends.
From(r, y) ==
  IF y.kind = "bool"
  THEN IF y.value = 1 THEN 0 ELSE Scale(r, y.prob, 1)
  ELSE Scale(r, y.prob[y.value + 1], Len(y.prob) - 1 - y.value)
To(r, y) ==
  IF y.kind = "bool"
  THEN IF y.value = 1 THEN Scale(r, y.prob, 1) ELSE r
  ELSE IF y.value = 0 THEN r
       ELSE Scale(r, y.prob[y.value], Len(y.prob) - 1 - (y.value - 1))

\* Halving keeps the order.
LEMMA HalfMono ==
  ASSUME NEW a \in Nat, NEW b \in Nat, a <= b
  PROVE  a \div 2 \in Nat /\ a \div 2 <= b \div 2
OBVIOUS

\* The six bits that Scale drops.
LEMMA Quot ==
  ASSUME NEW x \in Nat
  PROVE  x \div 64 \in Nat /\ 64 * (x \div 64) <= x /\ x < 64 * (x \div 64) + 64
OBVIOUS

\* The eight bits that Scale drops of a range.
LEMMA QuotRng ==
  ASSUME NEW r \in Ranges
  PROVE  /\ r \div 256 \in Nat /\ 128 <= r \div 256
         /\ 256 * (r \div 256) <= r /\ r \in Nat
BY DEF Ranges

\* A larger probability stands for no smaller part.
LEMMA ScaleMono ==
  ASSUME NEW r \in Ranges, NEW f \in Nat, NEW g \in Nat, g <= f,
         NEW m \in Nat, NEW n \in Nat, n <= m
  PROVE  /\ Scale(r, f, m) \in Nat /\ Scale(r, g, n) \in Nat
         /\ Scale(r, g, n) + 4 * (m - n) <= Scale(r, f, m)
         /\ 4 * m <= Scale(r, f, m)
<1> DEFINE a == r \div 256
           x == f \div 64
           y == g \div 64
<1>1. a \in Nat
  BY QuotRng
<1>2. x \in Nat /\ y \in Nat /\ y <= x
  <2>1. x \in Nat /\ 64 * x <= f /\ f < 64 * x + 64
    BY Quot
  <2>2. y \in Nat /\ 64 * y <= g /\ g < 64 * y + 64
    BY Quot
  <2> HIDE DEF x, y
  <2>3. QED
    BY <2>1, <2>2
<1> HIDE DEF a, x, y
<1> DEFINE u == a * x
           v == a * y
<1>3. u \in Nat /\ v \in Nat /\ v <= u
  BY <1>1, <1>2
<1> HIDE DEF u, v
<1>4. u \div 2 \in Nat /\ v \div 2 \in Nat /\ v \div 2 <= u \div 2
  BY <1>3, HalfMono
<1>5. Scale(r, f, m) = (u \div 2) + 4 * m /\ Scale(r, g, n) = (v \div 2) + 4 * n
  BY DEF Scale, MinProb, u, v, a, x, y
<1> DEFINE p == u \div 2
           q == v \div 2
<1> HIDE DEF p, q
<1>6. p \in Nat /\ q \in Nat /\ q <= p
  BY <1>4 DEF p, q
<1>7. Scale(r, f, m) = p + 4 * m /\ Scale(r, g, n) = q + 4 * n
  BY <1>5 DEF p, q
<1>8. QED
  BY <1>6, <1>7

\* No part is the whole range.
LEMMA ScaleBound ==
  ASSUME NEW r \in Ranges, NEW f \in Nat, f < 32768, NEW n \in 0..15
  PROVE  Scale(r, f, n) < r
<1> DEFINE a == r \div 256
           x == f \div 64
<1>1. a \in Nat /\ 128 <= a /\ 256 * a <= r /\ r \in Nat
  BY QuotRng
<1>2. x \in Nat /\ x <= 511
  <2>1. x \in Nat /\ 64 * x <= f
    BY Quot
  <2> HIDE DEF x
  <2>2. QED
    BY <2>1
<1> HIDE DEF a, x
<1> DEFINE u == a * x
<1>3. u \in Nat /\ u <= 511 * a
  BY <1>1, <1>2
<1> HIDE DEF u
<1>4. 2 * (u \div 2) <= u /\ u \div 2 \in Nat
  BY <1>3
<1>5. Scale(r, f, n) = (u \div 2) + 4 * n
  BY DEF Scale, MinProb, u, a, x
<1> DEFINE p == u \div 2
<1> HIDE DEF p
<1>6. p \in Nat /\ 2 * p <= u
  BY <1>4 DEF p
<1>7. Scale(r, f, n) = p + 4 * n
  BY <1>5 DEF p
<1>8. QED
  BY <1>1, <1>3, <1>6, <1>7

\* What the assumption says of every entry of a table.
LEMMA TableOK ==
  ASSUME NEW t \in Tables
  PROVE  /\ t \in Seq(Nat) /\ Len(t) \in 2..16
         /\ \A i \in 1..Len(t) : t[i] \in Nat /\ t[i] < 32768
         /\ \A i \in 1..Len(t) - 1 : t[i + 1] <= t[i]
<1>1. t \in Seq(Nat) /\ Len(t) \in 2..16 /\ t[Len(t)] = 0
  BY CoderAssumption
<1>2. \A i \in 1..Len(t) - 1 : t[i] >= t[i + 1] /\ t[i] < 32768
  BY CoderAssumption
<1>3. \A i \in 1..Len(t) : t[i] \in Nat
  BY <1>1, ElementOfSeq
<1>4. ASSUME NEW i \in 1..Len(t) PROVE t[i] < 32768
  <2>1. CASE i = Len(t)
    BY <1>1, <2>1
  <2>2. CASE i # Len(t)
    BY <1>1, <1>2, <2>2
  <2>3. QED
    BY <2>1, <2>2
<1>5. ASSUME NEW i \in 1..Len(t) - 1 PROVE t[i + 1] <= t[i]
  <2>1. i \in 1..Len(t) /\ i + 1 \in 1..Len(t)
    BY <1>1
  <2>2. QED
    BY <1>2, <1>3, <2>1
<1>6. QED
  BY <1>1, <1>3, <1>4, <1>5

\* The two kinds of symbols.
LEMMA SymbolKinds ==
  ASSUME NEW y \in Symbols
  PROVE  \/ /\ y.kind = "bool" /\ y.prob \in Nat /\ 0 < y.prob /\ y.prob < 32768
            /\ y.value \in {0, 1}
         \/ y.kind = "cdf" /\ y.prob \in Tables /\ y.value \in 0..Len(y.prob) - 1
<1>1. ASSUME NEW f \in Bools PROVE f \in Nat /\ 0 < f /\ f < 32768
  <2>1. Bools \subseteq Nat
    BY CoderAssumption
  <2>2. 0 < f /\ f < 32768
    BY CoderAssumption
  <2>3. QED
    BY <2>1, <2>2
<1>2. QED
  BY <1>1 DEF Symbols

\* Every symbol has a part of its own, of one at least.
LEMMA SubOK ==
  ASSUME NEW r \in Ranges, NEW y \in Symbols
  PROVE  /\ From(r, y) \in Nat /\ To(r, y) \in Nat
         /\ From(r, y) < To(r, y) /\ To(r, y) <= r
<1>0. r \in Nat
  BY DEF Ranges
<1>1. CASE y.kind = "bool"
  <2>1. y.prob \in Nat /\ y.prob < 32768 /\ y.value \in {0, 1}
    BY <1>1, SymbolKinds
  <2> DEFINE f == y.prob
             v == Scale(r, f, 1)
  <2>2. f \in Nat /\ f < 32768
    BY <2>1
  <2> HIDE DEF f
  <2>3. v \in Nat /\ 4 * 1 <= v /\ v < r
    BY <2>2, ScaleMono, ScaleBound
  <2> HIDE DEF v
  <2>4. \/ From(r, y) = 0 /\ To(r, y) = v
        \/ From(r, y) = v /\ To(r, y) = r
    BY <1>1, <2>1 DEF From, To, f, v
  <2>5. QED
    BY <1>0, <2>3, <2>4
<1>2. CASE y.kind # "bool"
  <2> DEFINE t == y.prob
             s == y.value
             n == Len(t) - 1
  <2>1. t \in Tables /\ s \in 0..n
    BY <1>2, SymbolKinds
  <2> HIDE DEF t, s
  <2>2. /\ Len(t) \in 2..16 /\ \A i \in 1..Len(t) : t[i] \in Nat /\ t[i] < 32768
        /\ \A i \in 1..Len(t) - 1 : t[i + 1] <= t[i]
    BY <2>1, TableOK
  <2>3. n \in 1..15 /\ Len(t) = n + 1
    BY <2>2
  <2> DEFINE g == t[s + 1]
             m == n - s
             v == Scale(r, g, m)
  <2> HIDE DEF n
  <2>4. g \in Nat /\ g < 32768 /\ m \in 0..15
    <3>1. s + 1 \in 1..Len(t)
      BY <2>1, <2>3
    <3>2. m \in 0..15
      BY <2>1, <2>3
    <3>3. QED
      BY <2>2, <3>1, <3>2
  <2>5. From(r, y) = v
    BY <1>2 DEF From, n, s, t
  <2>6. CASE s = 0
    <3> HIDE DEF g, m
    <3>4. m \in Nat /\ m <= m /\ g <= g
      BY <2>4
    <3>5. v \in Nat
      BY <2>4, <3>4, ScaleMono
    <3>6. v < r
      BY <2>4, ScaleBound
    <3>1. v \in Nat /\ v < r
      BY <3>5, <3>6
    <3>2. To(r, y) = r
      BY <1>2, <2>6 DEF To, s
    <3>3. QED
      BY <1>0, <2>5, <3>1, <3>2
  <2>7. CASE s # 0
    <3> DEFINE f == t[s]
               k == n - (s - 1)
               u == Scale(r, f, k)
    <3>1. f \in Nat /\ g <= f /\ f < 32768 /\ k \in 0..15 /\ k = m + 1
      BY <2>1, <2>2, <2>3, <2>7
    <3>2. To(r, y) = u
      BY <1>2, <2>7 DEF To, n, s, t
    <3> HIDE DEF f, k, g, m
    <3>3. m \in Nat /\ k \in Nat /\ m <= k /\ k - m = 1
      BY <2>4, <3>1
    <3>4. v \in Nat /\ u \in Nat /\ v + 4 * (k - m) <= u
      BY <2>4, <3>1, <3>3, ScaleMono
    <3>5. u < r
      BY <3>1, ScaleBound
    <3> HIDE DEF u, v
    <3>6. QED
      BY <1>0, <2>5, <3>2, <3>3, <3>4, <3>5
  <2>8. QED
    BY <2>6, <2>7
<1>3. QED
  BY <1>1, <1>2

-----------------------------------------------------------------------------
(* Renormalising.                                                          *)

Shift(sz) == 16 - ILog(sz)

\* Every size lies between two powers.
LEMMA Octave ==
  ASSUME NEW sz \in Sizes
  PROVE  \E n \in Nat : 1 <= n /\ n <= 16 /\ P2[n - 1] <= sz /\ sz < P2[n]
<1>1. CASE 1 <= sz /\ sz < 2
  <2>1. P2[0] <= sz /\ sz < P2[1]
    BY <1>1, P2Vals
  <2>2. 1 \in Nat /\ 1 <= 1 /\ 1 <= 16 /\ 1 - 1 = 0
    OBVIOUS
  <2>3. QED
    BY <2>1, <2>2
<1>2. CASE 2 <= sz /\ sz < 4
  <2>1. P2[1] <= sz /\ sz < P2[2]
    BY <1>2, P2Vals
  <2>2. 2 \in Nat /\ 1 <= 2 /\ 2 <= 16 /\ 2 - 1 = 1
    OBVIOUS
  <2>3. QED
    BY <2>1, <2>2
<1>3. CASE 4 <= sz /\ sz < 8
  <2>1. P2[2] <= sz /\ sz < P2[3]
    BY <1>3, P2Vals
  <2>2. 3 \in Nat /\ 1 <= 3 /\ 3 <= 16 /\ 3 - 1 = 2
    OBVIOUS
  <2>3. QED
    BY <2>1, <2>2
<1>4. CASE 8 <= sz /\ sz < 16
  <2>1. P2[3] <= sz /\ sz < P2[4]
    BY <1>4, P2Vals
  <2>2. 4 \in Nat /\ 1 <= 4 /\ 4 <= 16 /\ 4 - 1 = 3
    OBVIOUS
  <2>3. QED
    BY <2>1, <2>2
<1>5. CASE 16 <= sz /\ sz < 32
  <2>1. P2[4] <= sz /\ sz < P2[5]
    BY <1>5, P2Vals
  <2>2. 5 \in Nat /\ 1 <= 5 /\ 5 <= 16 /\ 5 - 1 = 4
    OBVIOUS
  <2>3. QED
    BY <2>1, <2>2
<1>6. CASE 32 <= sz /\ sz < 64
  <2>1. P2[5] <= sz /\ sz < P2[6]
    BY <1>6, P2Vals
  <2>2. 6 \in Nat /\ 1 <= 6 /\ 6 <= 16 /\ 6 - 1 = 5
    OBVIOUS
  <2>3. QED
    BY <2>1, <2>2
<1>7. CASE 64 <= sz /\ sz < 128
  <2>1. P2[6] <= sz /\ sz < P2[7]
    BY <1>7, P2Vals
  <2>2. 7 \in Nat /\ 1 <= 7 /\ 7 <= 16 /\ 7 - 1 = 6
    OBVIOUS
  <2>3. QED
    BY <2>1, <2>2
<1>8. CASE 128 <= sz /\ sz < 256
  <2>1. P2[7] <= sz /\ sz < P2[8]
    BY <1>8, P2Vals
  <2>2. 8 \in Nat /\ 1 <= 8 /\ 8 <= 16 /\ 8 - 1 = 7
    OBVIOUS
  <2>3. QED
    BY <2>1, <2>2
<1>9. CASE 256 <= sz /\ sz < 512
  <2>1. P2[8] <= sz /\ sz < P2[9]
    BY <1>9, P2Vals
  <2>2. 9 \in Nat /\ 1 <= 9 /\ 9 <= 16 /\ 9 - 1 = 8
    OBVIOUS
  <2>3. QED
    BY <2>1, <2>2
<1>10. CASE 512 <= sz /\ sz < 1024
  <2>1. P2[9] <= sz /\ sz < P2[10]
    BY <1>10, P2Vals
  <2>2. 10 \in Nat /\ 1 <= 10 /\ 10 <= 16 /\ 10 - 1 = 9
    OBVIOUS
  <2>3. QED
    BY <2>1, <2>2
<1>11. CASE 1024 <= sz /\ sz < 2048
  <2>1. P2[10] <= sz /\ sz < P2[11]
    BY <1>11, P2Vals
  <2>2. 11 \in Nat /\ 1 <= 11 /\ 11 <= 16 /\ 11 - 1 = 10
    OBVIOUS
  <2>3. QED
    BY <2>1, <2>2
<1>12. CASE 2048 <= sz /\ sz < 4096
  <2>1. P2[11] <= sz /\ sz < P2[12]
    BY <1>12, P2Vals
  <2>2. 12 \in Nat /\ 1 <= 12 /\ 12 <= 16 /\ 12 - 1 = 11
    OBVIOUS
  <2>3. QED
    BY <2>1, <2>2
<1>13. CASE 4096 <= sz /\ sz < 8192
  <2>1. P2[12] <= sz /\ sz < P2[13]
    BY <1>13, P2Vals
  <2>2. 13 \in Nat /\ 1 <= 13 /\ 13 <= 16 /\ 13 - 1 = 12
    OBVIOUS
  <2>3. QED
    BY <2>1, <2>2
<1>14. CASE 8192 <= sz /\ sz < 16384
  <2>1. P2[13] <= sz /\ sz < P2[14]
    BY <1>14, P2Vals
  <2>2. 14 \in Nat /\ 1 <= 14 /\ 14 <= 16 /\ 14 - 1 = 13
    OBVIOUS
  <2>3. QED
    BY <2>1, <2>2
<1>15. CASE 16384 <= sz /\ sz < 32768
  <2>1. P2[14] <= sz /\ sz < P2[15]
    BY <1>15, P2Vals
  <2>2. 15 \in Nat /\ 1 <= 15 /\ 15 <= 16 /\ 15 - 1 = 14
    OBVIOUS
  <2>3. QED
    BY <2>1, <2>2
<1>16. CASE 32768 <= sz /\ sz < 65536
  <2>1. P2[15] <= sz /\ sz < P2[16]
    BY <1>16, P2Vals
  <2>2. 16 \in Nat /\ 1 <= 16 /\ 16 <= 16 /\ 16 - 1 = 15
    OBVIOUS
  <2>3. QED
    BY <2>1, <2>2
<1>17. QED
  BY <1>1, <1>2, <1>3, <1>4, <1>5, <1>6, <1>7, <1>8, <1>9, <1>10, <1>11, <1>12, <1>13, <1>14, <1>15, <1>16 DEF Sizes

\* A size is brought to 16 bits by the power that fits.
LEMMA Fits ==
  ASSUME NEW a \in Nat, NEW b \in Nat, NEW p \in Nat, p > 0, NEW sz \in Nat,
         a * p = P2[15], b * p = P2[16], a <= sz, sz < b
  PROVE  sz * p \in Ranges
<1>1. a * p <= sz * p /\ sz * p < b * p /\ sz * p \in Nat
  OBVIOUS
<1>2. a * p = 32768 /\ b * p = 65536
  BY P2Vals
<1> DEFINE x == sz * p
<1>3. x \in Nat /\ 32768 <= x /\ x < 65536
  BY <1>1, <1>2
<1> HIDE DEF x
<1>4. x \in Ranges
  BY <1>3 DEF Ranges
<1>5. QED
  BY <1>4 DEF x

\* OD_ILOG_NZ gives the shift that brings a size back to a range.
LEMMA ILogOK ==
  ASSUME NEW sz \in Sizes
  PROVE  /\ ILog(sz) \in 1..16 /\ Shift(sz) \in 0..15
         /\ sz * P2[Shift(sz)] \in Ranges
<1>1. ASSUME NEW n \in 1..16
      PROVE  2 ^ (n - 1) = P2[n - 1] /\ 2 ^ n = P2[n]
  <2>1. n - 1 \in 0..23 /\ n \in 0..23
    OBVIOUS
  <2>2. QED
    BY <2>1, Pow
<1>2. \E n \in 1..16 : 2 ^ (n - 1) <= sz /\ sz < 2 ^ n
  <2>1. PICK n \in Nat : 1 <= n /\ n <= 16 /\ P2[n - 1] <= sz /\ sz < P2[n]
    BY Octave
  <2>2. n \in 1..16
    BY <2>1
  <2>3. 2 ^ (n - 1) <= sz /\ sz < 2 ^ n
    BY <1>1, <2>1, <2>2
  <2>4. QED
    BY <2>2, <2>3
<1> DEFINE k == ILog(sz)
           d == Shift(sz)
<1>3. k \in 1..16 /\ 2 ^ (k - 1) <= sz /\ sz < 2 ^ k
  BY <1>2 DEF ILog
<1>4. d = 16 - k
  BY DEF Shift
<1> HIDE DEF k, d
<1>5. P2[k - 1] <= sz /\ sz < P2[k]
  BY <1>1, <1>3
<1>6. /\ d \in 0..15 /\ d \in Nat /\ k - 1 \in Nat /\ k \in Nat
      /\ (k - 1) + d = 15 /\ k + d = 16
  BY <1>3, <1>4
<1> DEFINE a == P2[k - 1]
           b == P2[k]
           p == P2[d]
<1>7. a * p = P2[15]
  <2>1. P2[(k - 1) + d] = P2[k - 1] * P2[d]
    BY <1>6, P2Add
  <2>2. QED
    BY <1>6, <2>1
<1>8. b * p = P2[16]
  <2>1. P2[k + d] = P2[k] * P2[d]
    BY <1>6, P2Add
  <2>2. QED
    BY <1>6, <2>1
<1>9. a \in Nat /\ b \in Nat /\ p \in Nat /\ p > 0 /\ a <= sz /\ sz < b /\ sz \in Nat
  BY <1>5, <1>6, P2Pos DEF Sizes
<1> HIDE DEF a, b, p
<1>10. sz * p \in Ranges
  BY <1>7, <1>8, <1>9, Fits
<1>11. QED
  BY <1>3, <1>6, <1>10 DEF k, d, p

\* Quotient and rest.
LEMMA DivMod ==
  ASSUME NEW x \in Nat, NEW m \in Nat, m > 0
  PROVE  /\ x \div m \in Nat /\ (x % m) \in Nat /\ (x % m) < m
         /\ x = (x \div m) * m + (x % m)
OBVIOUS

\* The bottom of the range of the encoder, with all that has left the window.
Bottom(w, c, l) == Whole(w) * P2[c + 24] + l

\* Shifting a sum.
LEMMA Spread ==
  ASSUME NEW a \in Nat, NEW b \in Nat, NEW p \in Nat
  PROVE  (a + b) * p = a * p + b * p
OBVIOUS

\* Shifting twice.
LEMMA Assoc ==
  ASSUME NEW a \in Nat, NEW b \in Nat, NEW p \in Nat
  PROVE  (a * b) * p = a * (b * p) /\ a * b \in Nat
OBVIOUS

\* No byte is complete.
LEMMA NormNone ==
  ASSUME NEW W \in Nat, NEW l \in Nat, NEW c \in -9..-1, NEW d \in 0..15
  PROVE  W * P2[(c + d) + 24] + l * P2[d] = (W * P2[c + 24] + l) * P2[d]
<1> DEFINE m == c + 24
           p == P2[m]
           q == P2[d]
<1>1. m \in Nat /\ d \in Nat /\ (c + d) + 24 = m + d
  OBVIOUS
<1> HIDE DEF m
<1>2. P2[m + d] = p * q
  BY <1>1, P2Add
<1>3. p \in Nat /\ q \in Nat
  BY <1>1, P2Pos
<1> HIDE DEF p, q
<1>4. W * (p * q) = (W * p) * q /\ W * p \in Nat
  BY <1>3, Assoc
<1>5. (W * p + l) * q = (W * p) * q + l * q
  BY <1>3, <1>4, Spread
<1>6. QED
  BY <1>1, <1>2, <1>4, <1>5 DEF m, p, q

\* A byte more.
LEMMA P2Eight == ASSUME NEW k \in Nat PROVE P2[k + 8] = P2[k] * 256 /\ P2[k] \in Nat
<1>1. P2[k + 8] = P2[k] * P2[8]
  BY P2Add
<1>2. QED
  BY <1>1, P2Vals, P2Pos

\* One byte leaves, of l \div 2^k.
OneOut(W, l, k, d) ==
  (256 * W + (l \div P2[k])) * P2[k + d] + (l % P2[k]) * P2[d] = (W * P2[k + 8] + l) * P2[d]

\* One byte leaves low.
LEMMA NormOne ==
  ASSUME NEW W \in Nat, NEW l \in Nat, NEW k \in Nat, NEW d \in Nat
  PROVE  OneOut(W, l, k, d)
<1> DEFINE p == P2[k]
           q == P2[d]
           u == l \div p
           v == l % p
<1>1. p \in Nat /\ p > 0 /\ q \in Nat
  BY P2Pos
<1>2. P2[k + d] = p * q
  BY P2Add
<1>3. P2[k + 8] = p * 256
  BY P2Eight
<1> HIDE DEF p, q
<1>4. u \in Nat /\ v \in Nat /\ l = u * p + v
  BY <1>1, DivMod
<1> HIDE DEF u, v
<1> DEFINE a == W * p
           b == u * p
<1>5. a \in Nat /\ b \in Nat
  BY <1>1, <1>4
<1>6. (256 * W + u) * p = 256 * a + b
  BY <1>1, <1>4
<1>7. W * (p * 256) = 256 * a
  BY <1>1
<1> HIDE DEF a, b
<1>8. (256 * W + u) * (p * q) = ((256 * W + u) * p) * q
  BY <1>1, <1>4
<1>9. (256 * W + u) * (p * q) + v * q = (256 * a + b + v) * q
  <2> DEFINE z == 256 * a + b
  <2>1. z \in Nat
    BY <1>5
  <2> HIDE DEF z
  <2>2. (z + v) * q = z * q + v * q
    BY <1>1, <1>4, <2>1
  <2>3. QED
    BY <1>6, <1>8, <2>2 DEF z
<1>10. W * (p * 256) + l = 256 * a + b + v
  BY <1>4, <1>5, <1>7 DEF b
<1>11. QED
  BY <1>2, <1>3, <1>9, <1>10 DEF p, q, u, v, OneOut

\* Two bytes leave: of l \div 2^(k + 8), and of what is left \div 2^k.
TwoOut(W, l, k, d) ==
  LET u == l \div P2[k + 8]
      m == l % P2[k + 8]
  IN (256 * (256 * W + u) + (m \div P2[k])) * P2[k + d] + (m % P2[k]) * P2[d]
       = (W * P2[(k + 8) + 8] + l) * P2[d]

\* Two bytes leave low.
LEMMA NormTwo ==
  ASSUME NEW W \in Nat, NEW l \in Nat, NEW k \in Nat, NEW d \in Nat
  PROVE  TwoOut(W, l, k, d)
<1> DEFINE K == k + 8
           h == P2[K]
           u == l \div h
           m == l % h
           X == 256 * W + u
<1>1. K \in Nat
  OBVIOUS
<1>2. h \in Nat /\ h > 0
  BY <1>1, P2Pos
<1>3. P2[K + 8] = h * 256
  BY <1>1, P2Eight
<1>4. h = P2[k + 8]
  OBVIOUS
<1> HIDE DEF K, h
<1>5. u \in Nat /\ m \in Nat /\ l = u * h + m
  BY <1>2, DivMod
<1>6. X \in Nat
  BY <1>5
<1> HIDE DEF u, m
<1>7. X * h + m = W * (h * 256) + l
  BY <1>2, <1>5
<1> HIDE DEF X
<1>10. OneOut(X, m, k, d)
  BY <1>5, <1>6, NormOne
<1>8. (256 * X + (m \div P2[k])) * P2[k + d] + (m % P2[k]) * P2[d]
        = (X * P2[k + 8] + m) * P2[d]
  BY <1>10 DEF OneOut
<1>9. QED
  BY <1>3, <1>4, <1>7, <1>8 DEF u, m, X, K, TwoOut

\* Where cnt is after a byte has left.
LEMMA CntRange ==
  ASSUME NEW c \in -9..-1, NEW d \in 0..15
  PROVE  /\ c + d < 0 => c + d \in -9..-1
         /\ c + d >= 0 /\ c + d < 8 => /\ (c + 16) + d - 24 \in -9..-1
                                      /\ ((c + 16) + d - 24) + 24 = (c + 16) + d
         /\ c + d >= 8 => /\ ((c + 16) - 8) + d - 24 \in -9..-1
                          /\ (((c + 16) - 8) + d - 24) + 24 = ((c + 16) - 8) + d
         /\ c + 24 = (c + 16) + 8
         /\ ((c + 16) - 8) + d - 24 = c + d - 16
OBVIOUS

\* od_ec_enc_normalize() keeps the bottom of the range, but for the shift.
Shifted(l, sz, d) ==
  /\ rng' = sz * P2[d] /\ low' \in Nat /\ cnt' \in -9..-1 /\ precarry' \in Seq(Nat)
  /\ EncTell' = EncTell + d
  /\ Bottom(precarry', cnt', low') = Bottom(precarry, cnt, l) * P2[d]

\* od_ec_enc_normalize() shifts the bottom of the range, bytes and low together, and the bits
\* it counts, whatever bytes leave.
LEMMA NormalizeOK ==
  ASSUME cnt \in -9..-1, precarry \in Seq(Nat), NEW l \in Nat, NEW sz \in Sizes,
         Normalize(l, sz)
  PROVE  Shifted(l, sz, Shift(sz))
<1> DEFINE d == Shift(sz)
           s == cnt + d
           c1 == cnt + 16
           W == Whole(precarry)
<1>1. d \in 0..15 /\ d = 16 - ILog(sz)
  BY ILogOK DEF Shift
<1> HIDE DEF d
<1>2. 2 ^ d = P2[d] /\ P2[d] \in Nat /\ P2[d] > 0 /\ d \in Nat
  <2>1. d \in 0..23 /\ d \in Nat
    BY <1>1
  <2>2. QED
    BY <2>1, Pow, P2Pos
<1>3. c1 \in 7..15 /\ c1 \in Nat
  OBVIOUS
<1>4. 2 ^ c1 = P2[c1] /\ P2[c1] \in Nat /\ P2[c1] > 0
  <2>1. c1 \in 0..23
    BY <1>3
  <2> HIDE DEF c1
  <2>2. QED
    BY <1>3, <2>1, Pow, P2Pos
<1>5. W \in Nat
  BY WholeOne
<1>6. rng' = sz * 2 ^ d
  BY <1>1 DEF Normalize
<1>7. CASE s < 0
  <2>0. low' = l * 2 ^ d /\ cnt' = s /\ precarry' = precarry
    BY <1>1, <1>7 DEF Normalize
  <2>1. low' = l * P2[d] /\ cnt' = cnt + d /\ precarry' = precarry
    BY <1>2, <2>0
  <2>2. low' \in Nat /\ cnt' \in -9..-1
    <3>1. low' \in Nat
      BY <1>2, <2>1
    <3>2. cnt' \in -9..-1
      BY <1>1, <1>7, <2>1, CntRange
    <3>3. QED
      BY <3>1, <3>2
  <2>3. W * P2[(cnt + d) + 24] + l * P2[d] = (W * P2[cnt + 24] + l) * P2[d]
    <3> HIDE DEF W
    <3>1. QED
      BY <1>1, <1>5, NormNone
  <2>4. Bottom(precarry', cnt', low') = Bottom(precarry, cnt, l) * P2[d]
    BY <2>1, <2>3 DEF Bottom
  <2>5. EncTell' = EncTell + d
    BY <1>1, <2>1 DEF EncTell
  <2>6. QED
    BY <1>2, <1>6, <2>1, <2>2, <2>4, <2>5 DEF Shifted, d
<1>8. CASE s >= 0 /\ s < 8
  <2> DEFINE x == l \div P2[c1]
             y == l % P2[c1]
  <2>1. x \in Nat /\ y \in Nat
    BY <1>4, DivMod
  <2>0. /\ precarry' = precarry \o <<l \div 2 ^ c1>>
        /\ low' = (l % 2 ^ c1) * 2 ^ d
        /\ cnt' = c1 + d - 24
    <3>1. s >= 0 /\ ~(s >= 8)
      BY <1>1, <1>8
    <3>2. QED
      BY <1>1, <3>1 DEF Normalize
  <2>2. precarry' = precarry \o <<x>> /\ low' = y * P2[d] /\ cnt' = c1 + d - 24
    BY <1>2, <1>4, <2>0
  <2>3. low' \in Nat /\ cnt' \in -9..-1 /\ cnt' + 24 = c1 + d /\ cnt + 24 = c1 + 8
    <3> HIDE DEF y
    <3>1. low' \in Nat
      BY <1>2, <2>1, <2>2
    <3>2. cnt' = c1 + d - 24
      BY <2>2
    <3>3. cnt' \in -9..-1 /\ cnt' + 24 = c1 + d /\ cnt + 24 = c1 + 8
      BY <1>1, <1>8, <3>2, CntRange
    <3>4. QED
      BY <3>1, <3>3
  <2>4. OneOut(W, l, c1, d)
    BY <1>2, <1>3, <1>5, NormOne
  <2> HIDE DEF c1
  <2>5. (256 * W + x) * P2[c1 + d] + y * P2[d] = (W * P2[c1 + 8] + l) * P2[d]
    BY <2>4 DEF OneOut
  <2> HIDE DEF x, y
  <2>6. /\ precarry' \in Seq(Nat) /\ Len(precarry') = Len(precarry) + 1
        /\ Whole(precarry') = 256 * W + x
    BY <2>1, <2>2, WholeOne
  <2>7. Bottom(precarry', cnt', low') = Bottom(precarry, cnt, l) * P2[d]
    BY <2>2, <2>3, <2>5, <2>6 DEF Bottom
  <2>8. EncTell' = EncTell + d
    <3> DEFINE m == Len(precarry)
               k == Len(precarry')
    <3>1. cnt' = cnt + 16 + d - 24 /\ k = m + 1 /\ m \in Nat /\ d \in Nat /\ cnt \in Int
      BY <1>2, <2>2, <2>6, LenProperties DEF c1
    <3> HIDE DEF m, k
    <3>2. cnt' + 10 + k * 8 = (cnt + 10 + m * 8) + d
      BY <3>1
    <3>3. QED
      BY <3>2 DEF EncTell, m, k
  <2>9. QED
    BY <1>2, <1>6, <2>3, <2>6, <2>7, <2>8 DEF Shifted, d
<1>9. CASE s >= 8
  <2> DEFINE k == c1 - 8
             x == l \div P2[c1]
             m == l % P2[c1]
             y == m \div P2[k]
             z == m % P2[k]
  <2>1. k \in 0..7 /\ k \in Nat /\ k + 8 = c1 /\ (k + 8) + 8 = cnt + 24
    BY <1>1, <1>9
  <2>2. 2 ^ k = P2[k] /\ P2[k] \in Nat /\ P2[k] > 0
    <3>1. k \in 0..23 /\ k \in Nat
      BY <2>1
    <3> HIDE DEF k
    <3>2. QED
      BY <3>1, Pow, P2Pos
  <2>3. x \in Nat /\ m \in Nat
    BY <1>4, DivMod
  <2>0. /\ precarry' = precarry \o <<l \div 2 ^ c1, (l % 2 ^ c1) \div 2 ^ k>>
        /\ low' = ((l % 2 ^ c1) % 2 ^ k) * 2 ^ d
        /\ cnt' = k + d - 24
    <3>1. s >= 0
      BY <1>1, <1>9
    <3>2. QED
      BY <1>1, <1>9, <3>1 DEF Normalize
  <2>4. precarry' = precarry \o <<x, y>> /\ low' = z * P2[d] /\ cnt' = k + d - 24
    BY <1>2, <1>4, <2>0, <2>2
  <2> HIDE DEF m
  <2>5. y \in Nat /\ z \in Nat
    BY <2>2, <2>3, DivMod
  <2>6. low' \in Nat /\ cnt' \in -9..-1 /\ cnt' + 24 = k + d
    <3> HIDE DEF z
    <3>1. low' \in Nat
      BY <1>2, <2>4, <2>5
    <3>2. cnt' = k + d - 24
      BY <2>4
    <3>3. cnt' \in -9..-1 /\ cnt' + 24 = k + d
      BY <1>1, <1>9, <3>2, CntRange
    <3>4. QED
      BY <3>1, <3>3
  <2> HIDE DEF k
  <2>7. (256 * (256 * W + x) + y) * P2[k + d] + z * P2[d]
          = (W * P2[(k + 8) + 8] + l) * P2[d]
    <3>1. TwoOut(W, l, k, d)
      BY <1>2, <1>5, <2>1, NormTwo
    <3>2. QED
      BY <2>1, <3>1 DEF TwoOut, x, y, z, m
  <2> HIDE DEF c1, x, y, z
  <2>8. /\ precarry' \in Seq(Nat) /\ Len(precarry') = Len(precarry) + 2
        /\ Whole(precarry') = 256 * (256 * W + x) + y
    BY <2>3, <2>4, <2>5, WholeTwo
  <2>9. Bottom(precarry', cnt', low') = Bottom(precarry, cnt, l) * P2[d]
    BY <2>1, <2>4, <2>6, <2>7, <2>8 DEF Bottom
  <2>10. EncTell' = EncTell + d
    <3>1. cnt' = cnt + d - 16
      BY <1>1, <2>4, CntRange DEF k, c1
    <3>2. Len(precarry') = Len(precarry) + 2 /\ Len(precarry) \in Nat
      BY <2>8
    <3>3. QED
      BY <1>1, <3>1, <3>2 DEF EncTell
  <2>11. QED
    BY <1>2, <1>6, <2>6, <2>8, <2>9, <2>10 DEF Shifted, d
<1>10. QED
  BY <1>1, <1>7, <1>8, <1>9

-----------------------------------------------------------------------------
(* What has been encoded, as intervals: L[k] and R[k] are the bottom and     *)
(* the size of the range after k symbols, with all the bits there are by then.*)

Link(y, l, r, t, l2, r2, t2) ==
  LET sz == To(r, y) - From(r, y)
  IN /\ r2 = sz * P2[Shift(sz)] /\ l2 = (l + r - To(r, y)) * P2[Shift(sz)]
     /\ t2 = t + Shift(sz)

ChainTypes(m, ts, L, R) ==
  /\ L \in [Nat -> Nat] /\ R \in [Nat -> Ranges]
  /\ m \in Seq(Symbols) /\ ts \in Seq(Nat) /\ Len(ts) = Len(m) + 1

Linked(m, ts, L, R, k) ==
  Link(m[k + 1], L[k], R[k], ts[k + 1], L[k + 1], R[k + 1], ts[k + 2])

Chain(m, ts, L, R) ==
  /\ ChainTypes(m, ts, L, R)
  /\ L[0] = 0 /\ R[0] = 32768 /\ ts[1] = 1
  /\ \A k \in Nat : k < Len(m) => Linked(m, ts, L, R, k)
  /\ \A k \in Nat : k <= Len(m) => L[k] + R[k] <= P2[ts[k + 1] + 14]

\* What a symbol makes of a range.
LEMMA LinkOK ==
  ASSUME NEW y \in Symbols, NEW l \in Nat, NEW r \in Ranges, NEW t \in Nat
  PROVE  LET sz == To(r, y) - From(r, y)
             d == Shift(sz)
         IN /\ sz \in Sizes /\ d \in 0..15 /\ d \in Nat /\ P2[d] \in Nat /\ P2[d] > 0
            /\ sz * P2[d] \in Ranges /\ sz * P2[d] \in Nat
            /\ l + r - To(r, y) \in Nat /\ (l + r - To(r, y)) * P2[d] \in Nat
            /\ (l + r - To(r, y)) * P2[d] + sz * P2[d] <= (l + r) * P2[d]
<1> DEFINE a == From(r, y)
           b == To(r, y)
           sz == b - a
           d == Shift(sz)
<1>1. a \in Nat /\ b \in Nat /\ a < b /\ b <= r
  BY SubOK
<1>2. r \in Nat /\ r < 65536
  BY DEF Ranges
<1> HIDE DEF a, b
<1>3. sz \in Nat /\ 0 < sz /\ sz < 65536
  BY <1>1, <1>2
<1>4. sz \in Sizes
  <2> HIDE DEF sz
  <2>1. QED
    BY <1>3 DEF Sizes
<1>5. d \in 0..15 /\ sz * P2[d] \in Ranges
  <2> HIDE DEF sz
  <2>1. QED
    BY <1>4, ILogOK
<1> HIDE DEF d
<1> DEFINE p == P2[d]
<1>6. d \in Nat /\ p \in Nat /\ p > 0
  BY <1>5, P2Pos
<1> HIDE DEF p
<1> DEFINE x == l + r - b
<1>7. x \in Nat /\ x + sz <= l + r /\ l + r \in Nat
  BY <1>1, <1>2
<1> HIDE DEF sz, x
<1>8. x * p \in Nat /\ sz * p \in Nat
  BY <1>3, <1>6, <1>7
<1>9. x * p + sz * p <= (l + r) * p
  <2> DEFINE z == x + sz
             w == l + r
  <2>1. z \in Nat /\ w \in Nat /\ z <= w
    BY <1>3, <1>7
  <2>2. x * p + sz * p = z * p
    BY <1>3, <1>6, <1>7
  <2> HIDE DEF z, w
  <2>3. z * p <= w * p
    BY <1>6, <2>1
  <2>4. QED
    BY <2>2, <2>3 DEF w
<1>10. QED
  BY <1>4, <1>5, <1>6, <1>7, <1>8, <1>9 DEF sz, d, p, x, a, b

\* One symbol more.
LEMMA ChainStep ==
  ASSUME NEW m, NEW ts, NEW L, NEW R, Chain(m, ts, L, R), NEW y \in Symbols,
         NEW l2 \in Nat, NEW r2 \in Ranges, NEW t2 \in Nat,
         Link(y, L[Len(m)], R[Len(m)], ts[Len(m) + 1], l2, r2, t2)
  PROVE  LET n == Len(m)
             L2 == [k \in Nat |-> IF k = n + 1 THEN l2 ELSE L[k]]
             R2 == [k \in Nat |-> IF k = n + 1 THEN r2 ELSE R[k]]
         IN Chain(Append(m, y), Append(ts, t2), L2, R2)
<1> DEFINE n == Len(m)
           L2 == [k \in Nat |-> IF k = n + 1 THEN l2 ELSE L[k]]
           R2 == [k \in Nat |-> IF k = n + 1 THEN r2 ELSE R[k]]
           m2 == Append(m, y)
           us == Append(ts, t2)
<1>1. /\ L \in [Nat -> Nat] /\ R \in [Nat -> Ranges]
      /\ m \in Seq(Symbols) /\ ts \in Seq(Nat) /\ Len(ts) = n + 1 /\ n \in Nat
  <2>1. ChainTypes(m, ts, L, R)
    BY DEF Chain
  <2>2. /\ L \in [Nat -> Nat] /\ R \in [Nat -> Ranges]
        /\ m \in Seq(Symbols) /\ ts \in Seq(Nat) /\ Len(ts) = n + 1
    BY <2>1 DEF ChainTypes
  <2>3. n \in Nat
    BY <2>2, LenProperties
  <2>4. QED
    BY <2>2, <2>3
<1>2. /\ m2 \in Seq(Symbols) /\ us \in Seq(Nat) /\ Len(m2) = n + 1 /\ Len(us) = n + 2
      /\ m2[n + 1] = y /\ us[n + 2] = t2
  <2>1. m2 \in Seq(Symbols) /\ Len(m2) = n + 1 /\ m2[n + 1] = y
    BY <1>1, AppendProperties
  <2>2. us \in Seq(Nat) /\ Len(us) = Len(ts) + 1 /\ us[Len(ts) + 1] = t2
    BY <1>1, AppendProperties, ZenonT(60)
  <2>3. Len(ts) + 1 = n + 2
    BY <1>1
  <2>4. QED
    BY <2>1, <2>2, <2>3
<1>3. \A k \in 1..n : m2[k] = m[k]
  BY <1>1
<1>4. \A k \in 1..n + 1 : us[k] = ts[k]
  BY <1>1
<1>5. L2 \in [Nat -> Nat] /\ R2 \in [Nat -> Ranges]
  BY <1>1
<1>6. L2[n + 1] = l2 /\ R2[n + 1] = r2
  BY <1>1
<1>7. ASSUME NEW k \in Nat, k <= n PROVE L2[k] = L[k] /\ R2[k] = R[k]
  BY <1>1, <1>7
<1> HIDE DEF n, L2, R2, m2, us
<1>8. ASSUME NEW k \in Nat, k < Len(m2) PROVE Linked(m2, us, L2, R2, k)
  <2>1. CASE k < n
    <3>1. /\ m2[k + 1] = m[k + 1] /\ us[k + 1] = ts[k + 1] /\ us[k + 2] = ts[k + 2]
          /\ L2[k] = L[k] /\ R2[k] = R[k] /\ L2[k + 1] = L[k + 1] /\ R2[k + 1] = R[k + 1]
      <4>1. k + 1 \in 1..n /\ k + 1 \in 1..n + 1 /\ k + 2 \in 1..n + 1
            /\ k <= n /\ k + 1 \in Nat /\ k + 1 <= n
        BY <1>1, <2>1
      <4>2. QED
        BY <1>3, <1>4, <1>7, <4>1
    <3>2. Linked(m, ts, L, R, k)
      BY <2>1 DEF Chain, n
    <3>3. QED
      BY <3>1, <3>2 DEF Linked
  <2>2. CASE k = n
    <3>1. /\ m2[k + 1] = y /\ us[k + 1] = ts[n + 1] /\ us[k + 2] = t2
          /\ L2[k] = L[n] /\ R2[k] = R[n] /\ L2[k + 1] = l2 /\ R2[k + 1] = r2
      <4>1. n + 1 \in 1..n + 1 /\ n <= n
        BY <1>1
      <4>2. QED
        BY <1>1, <1>2, <1>4, <1>6, <1>7, <2>2, <4>1
    <3>2. QED
      BY <3>1 DEF Linked, n
  <2>3. QED
    BY <1>1, <1>2, <1>8, <2>1, <2>2
<1>9. /\ L2[0] = 0 /\ R2[0] = 32768 /\ us[1] = 1
  <2>1. 0 \in Nat /\ 0 <= n /\ 1 \in 1..n + 1
    BY <1>1
  <2>2. L[0] = 0 /\ R[0] = 32768 /\ ts[1] = 1
    BY DEF Chain
  <2>3. QED
    BY <1>4, <1>7, <2>1, <2>2
<1>10. l2 + r2 <= P2[t2 + 14]
  <2> DEFINE l == L[n]
             r == R[n]
             t == ts[n + 1]
             sz == To(r, y) - From(r, y)
             d == Shift(sz)
             p == P2[d]
             q == P2[t + 14]
  <2>1. l \in Nat /\ r \in Ranges /\ t \in Nat
    <3>1. n + 1 \in 1..Len(ts)
      BY <1>1
    <3>2. t \in Nat
      BY <1>1, <3>1, ElementOfSeq
    <3>3. QED
      BY <1>1, <3>2
  <2>2. l + r <= q
    <3>1. \A k \in Nat : k <= n => L[k] + R[k] <= P2[ts[k + 1] + 14]
      BY DEF Chain, n
    <3>2. n <= n
      BY <1>1
    <3>3. QED
      BY <1>1, <3>1, <3>2
  <2> HIDE DEF l, r, t
  <2>3. /\ d \in Nat /\ p \in Nat /\ p > 0
        /\ (l + r - To(r, y)) * p + sz * p <= (l + r) * p
    BY <2>1, LinkOK
  <2>4. l2 = (l + r - To(r, y)) * p /\ r2 = sz * p /\ t2 = t + d
    BY DEF Link, n, l, r, t
  <2> HIDE DEF d, p
  <2>5. l2 + r2 <= (l + r) * p
    BY <2>3, <2>4
  <2> HIDE DEF sz, q
  <2>6. q \in Nat /\ P2[t2 + 14] = q * p
    <3>1. t + 14 \in Nat /\ t2 + 14 = (t + 14) + d
      BY <2>1, <2>3, <2>4
    <3>2. P2[(t + 14) + d] = P2[t + 14] * P2[d]
      BY <2>3, <3>1, P2Add
    <3>3. QED
      BY <3>1, <3>2, P2Pos DEF q, p
  <2>7. (l + r) * p <= q * p
    <3> DEFINE z == l + r
    <3>1. z \in Nat /\ z <= q
      BY <2>1, <2>2 DEF Ranges
    <3> HIDE DEF z
    <3>2. z * p <= q * p
      BY <2>3, <2>6, <3>1
    <3>3. QED
      BY <3>2 DEF z
  <2>8. (l + r) * p \in Nat /\ q * p \in Nat
    <3>1. l + r \in Nat
      BY <2>1 DEF Ranges
    <3>2. QED
      BY <2>3, <2>6, <3>1
  <2>9. l2 + r2 \in Nat
    BY DEF Ranges
  <2>10. QED
    BY <2>5, <2>6, <2>7, <2>8, <2>9
<1>11. ASSUME NEW k \in Nat, k <= Len(m2) PROVE L2[k] + R2[k] <= P2[us[k + 1] + 14]
  <2>1. CASE k <= n
    <3>1. L[k] + R[k] <= P2[ts[k + 1] + 14]
      BY <2>1 DEF Chain, n
    <3>2. k + 1 \in 1..n + 1
      BY <1>1, <2>1
    <3>3. QED
      BY <1>4, <1>7, <2>1, <3>1, <3>2
  <2>2. CASE k = n + 1
    <3>1. k + 1 = n + 2
      BY <1>1, <2>2
    <3>2. QED
      BY <1>2, <1>6, <1>10, <2>2, <3>1
  <2>3. QED
    BY <1>1, <1>2, <1>11, <2>1, <2>2
<1>12. ChainTypes(m2, us, L2, R2)
  <2>1. Len(us) = Len(m2) + 1
    BY <1>1, <1>2
  <2>2. QED
    BY <1>2, <1>5, <2>1 DEF ChainTypes
<1>13. Chain(m2, us, L2, R2)
  BY <1>8, <1>9, <1>11, <1>12 DEF Chain
<1>14. QED
  BY <1>13 DEF m2, us, L2, R2, n

\* Where the encoder is in them.
Enc(L, R) ==
  /\ low \in Nat /\ cnt \in -9..-1 /\ precarry \in Seq(Nat)
  /\ rng = R[Len(message)] /\ tells[Len(message) + 1] = EncTell
  /\ Bottom(precarry, cnt, low) = L[Len(message)]

Written == \E L, R : Chain(message, tells, L, R) /\ Enc(L, R)

\* Both encoding functions hand od_ec_enc_normalize() the part of the symbol.
LEMMA EncodeNorm ==
  ASSUME rng \in Ranges, low \in Nat, NEW y \in Symbols, Encode(y)
  PROVE  \E l, sz : /\ l = low + rng - To(rng, y) /\ sz = To(rng, y) - From(rng, y)
                    /\ Normalize(l, sz)
<1> DEFINE a == From(rng, y)
           b == To(rng, y)
           l == low + rng - b
           sz == b - a
<1>1. a \in Nat /\ b \in Nat
  BY SubOK
<1>2. rng \in Nat /\ low + rng - rng = low /\ b - 0 = b
  BY <1>1 DEF Ranges
<1>3. CASE y.kind = "bool"
  <2> DEFINE v == Scale(rng, y.prob, 1)
  <2>1. EncodeBool(y.prob, y.value) /\ y.value \in {0, 1}
    BY <1>3, SymbolKinds DEF Encode
  <2>2. CASE y.value = 1
    <3>1. a = 0 /\ b = v
      BY <1>3, <2>2 DEF From, To
    <3>2. Normalize(low + rng - v, v)
      BY <2>1, <2>2 DEF EncodeBool
    <3> HIDE DEF a, b, v
    <3>3. l = low + rng - v /\ sz = v
      BY <1>2, <3>1
    <3> HIDE DEF l, sz
    <3>4. Normalize(l, sz)
      BY <3>2, <3>3
    <3>5. QED
      BY <3>4 DEF l, sz, a, b
  <2>3. CASE y.value = 0
    <3>1. a = v /\ b = rng
      BY <1>3, <2>3 DEF From, To
    <3>2. Normalize(low, rng - v)
      BY <2>1, <2>3 DEF EncodeBool
    <3> HIDE DEF a, b, v
    <3>3. l = low /\ sz = rng - v
      BY <1>2, <3>1
    <3> HIDE DEF l, sz
    <3>4. Normalize(l, sz)
      BY <3>2, <3>3
    <3>5. QED
      BY <3>4 DEF l, sz, a, b
  <2>4. QED
    BY <2>1, <2>2, <2>3
<1>4. CASE y.kind # "bool"
  <2> DEFINE t == y.prob
             s == y.value
             n == Len(t) - 1
             u == Scale(rng, t[s], n - (s - 1))
             v == Scale(rng, t[s + 1], n - s)
  <2>1. EncodeCdf(t, s) /\ s \in Nat
    <3>1. EncodeCdf(t, s)
      BY <1>4 DEF Encode
    <3>2. t \in Tables /\ s \in 0..Len(t) - 1
      BY <1>4, SymbolKinds
    <3>3. QED
      BY <3>1, <3>2
  <2>2. CASE s > 0
    <3>1. a = v /\ b = u
      BY <1>4, <2>1, <2>2 DEF From, To
    <3>2. Normalize(low + rng - u, u - v)
      BY <2>1, <2>2 DEF EncodeCdf
    <3> HIDE DEF a, b, u, v
    <3>3. l = low + rng - u /\ sz = u - v
      BY <3>1
    <3> HIDE DEF l, sz
    <3>4. Normalize(l, sz)
      BY <3>2, <3>3
    <3>5. QED
      BY <3>4 DEF l, sz, a, b
  <2>3. CASE s = 0
    <3>1. a = v /\ b = rng
      BY <1>4, <2>3 DEF From, To
    <3>2. Normalize(low, rng - v)
      BY <2>1, <2>3 DEF EncodeCdf
    <3> HIDE DEF a, b, v
    <3>3. l = low /\ sz = rng - v
      BY <1>2, <3>1
    <3> HIDE DEF l, sz
    <3>4. Normalize(l, sz)
      BY <3>2, <3>3
    <3>5. QED
      BY <3>4 DEF l, sz, a, b
  <2>4. QED
    BY <2>1, <2>2, <2>3
<1>5. QED
  BY <1>3, <1>4

\* The value of a word is a natural number.
LEMMA WholeNat == ASSUME NEW w \in Seq(Nat) PROVE Whole(w) \in Nat
<1>1. Val(w) \in [Nat -> Nat] /\ Len(w) \in Nat
  BY ValDef, LenProperties
<1>2. QED
  BY <1>1 DEF Whole

\* Encoding keeps the encoder at the end of the chain.
LEMMA EncodeKeeps ==
  ASSUME Written, NEW y \in Symbols, Encode(y)
  PROVE  Written'
<1>1. PICK L, R : Chain(message, tells, L, R) /\ Enc(L, R)
  BY DEF Written
<1> DEFINE n == Len(message)
           t == tells[n + 1]
<1>2. /\ L \in [Nat -> Nat] /\ R \in [Nat -> Ranges] /\ n \in Nat /\ t \in Nat
      /\ message \in Seq(Symbols) /\ tells \in Seq(Nat) /\ Len(tells) = n + 1
  <2>1. ChainTypes(message, tells, L, R)
    BY <1>1 DEF Chain
  <2>2. /\ L \in [Nat -> Nat] /\ R \in [Nat -> Ranges] /\ n \in Nat
        /\ message \in Seq(Symbols) /\ tells \in Seq(Nat) /\ Len(tells) = n + 1
    BY <2>1, LenProperties DEF ChainTypes
  <2>3. n + 1 \in 1..Len(tells)
    BY <2>2
  <2>4. QED
    BY <2>2, <2>3, ElementOfSeq
<1>3. /\ low \in Nat /\ cnt \in -9..-1 /\ precarry \in Seq(Nat) /\ rng = R[n]
      /\ t = EncTell /\ Bottom(precarry, cnt, low) = L[n]
  BY <1>1 DEF Enc
<1>4. rng \in Ranges
  BY <1>2, <1>3
<1>5. PICK l, sz : /\ l = low + rng - To(rng, y) /\ sz = To(rng, y) - From(rng, y)
                   /\ Normalize(l, sz)
  BY <1>3, <1>4, EncodeNorm
<1> DEFINE d == Shift(sz)
           p == P2[d]
<1>6. /\ sz \in Sizes /\ d \in Nat /\ p \in Nat /\ sz * p \in Ranges /\ l \in Nat
  BY <1>2, <1>3, <1>4, <1>5, LinkOK
<1>7. Shifted(l, sz, d)
  BY <1>3, <1>5, <1>6, NormalizeOK
<1>8. /\ rng' = sz * p /\ low' \in Nat /\ cnt' \in -9..-1 /\ precarry' \in Seq(Nat)
      /\ EncTell' = t + d
      /\ Bottom(precarry', cnt', low') = Bottom(precarry, cnt, l) * p
  BY <1>3, <1>7 DEF Shifted
<1>9. message' = Append(message, y) /\ tells' = Append(tells, t + d)
  BY <1>8 DEF Encode
<1> DEFINE l2 == (L[n] + R[n] - To(R[n], y)) * p
           r2 == sz * p
<1>10. Bottom(precarry, cnt, l) * p = l2 /\ l2 \in Nat
  <2> DEFINE w == Whole(precarry) * P2[cnt + 24]
             b == To(rng, y)
  <2>1. w \in Nat
    <3>1. Whole(precarry) \in Nat /\ cnt + 24 \in Nat
      <4>1. Whole(precarry) \in Nat
        BY <1>3, WholeNat
      <4>2. cnt + 24 \in Nat
        BY <1>3
      <4>3. QED
        BY <4>1, <4>2
    <3>2. P2[cnt + 24] \in Nat
      BY <3>1, P2Pos
    <3>3. QED
      BY <3>1, <3>2
  <2>2. b \in Nat /\ rng \in Nat
    BY <1>4, SubOK DEF Ranges
  <2> HIDE DEF w, b
  <2>3. Bottom(precarry, cnt, l) = w + l /\ L[n] = w + low
    BY <1>3 DEF Bottom, w
  <2>4. l = low + rng - b
    BY <1>5 DEF b
  <2>5. w + l = L[n] + rng - b
    BY <1>2, <1>3, <2>1, <2>2, <2>3, <2>4
  <2>6. Bottom(precarry, cnt, l) * p = l2
    BY <1>3, <2>3, <2>5 DEF b
  <2>7. w + l \in Nat
    BY <1>6, <2>1
  <2>8. Bottom(precarry, cnt, l) * p \in Nat
    <3> HIDE DEF p
    <3>1. QED
      BY <1>6, <2>3, <2>7
  <2>9. QED
    BY <2>6, <2>8
<1>11. Link(y, L[n], R[n], t, l2, r2, t + d)
  BY <1>3, <1>5 DEF Link
<1>12. t + d \in Nat
  <2> HIDE DEF t, d
  <2>1. t \in Nat /\ d \in Nat
    BY <1>2, <1>6
  <2>2. QED
    BY <2>1
<1>13. PICK U, V : /\ Chain(Append(message, y), Append(tells, t + d), U, V)
                   /\ U[n + 1] = l2 /\ V[n + 1] = r2
  <2> DEFINE L2 == [k \in Nat |-> IF k = n + 1 THEN l2 ELSE L[k]]
             R2 == [k \in Nat |-> IF k = n + 1 THEN r2 ELSE R[k]]
  <2> HIDE DEF l2, r2, d, p
  <2>1. r2 \in Ranges
    BY <1>6 DEF r2
  <2>2. Chain(Append(message, y), Append(tells, t + d), L2, R2)
    BY <1>1, <1>10, <1>11, <1>12, <2>1, ChainStep
  <2>3. L2[n + 1] = l2 /\ R2[n + 1] = r2
    BY <1>2
  <2> HIDE DEF L2, R2
  <2>4. QED
    BY <2>2, <2>3
<1>14. Len(message') = n + 1 /\ tells'[(n + 1) + 1] = t + d
  <2> DEFINE x == t + d
  <2>1. Len(message') = n + 1
    BY <1>2, <1>9
  <2>2. x \in Nat
    BY <1>12
  <2> HIDE DEF x
  <2>3. Append(tells, x)[Len(tells) + 1] = x
    BY <1>2, <2>2, AppendProperties
  <2>4. tells' = Append(tells, x)
    BY <1>9 DEF x
  <2>5. tells'[(n + 1) + 1] = x
    BY <1>2, <2>3, <2>4
  <2>6. QED
    BY <2>1, <2>5 DEF x
<1>15. Chain(message', tells', U, V)
  BY <1>9, <1>13
<1>16. /\ rng' = V[Len(message')] /\ tells'[Len(message') + 1] = EncTell'
       /\ Bottom(precarry', cnt', low') = U[Len(message')]
  <2> HIDE DEF l2
  <2>1. V[n + 1] = rng'
    BY <1>8, <1>13
  <2>2. U[n + 1] = Bottom(precarry', cnt', low')
    BY <1>8, <1>10, <1>13
  <2> HIDE DEF n, t, d, p
  <2>3. tells'[(n + 1) + 1] = EncTell'
    BY <1>8, <1>14
  <2>4. QED
    BY <1>14, <2>1, <2>2, <2>3
<1>17. Enc(U, V)'
  BY <1>8, <1>16 DEF Enc
<1>18. Chain(message, tells, U, V)'
  BY <1>15
<1>19. QED
  BY <1>17, <1>18 DEF Written

-----------------------------------------------------------------------------
(* The bytes of od_ec_enc_done().                                          *)

\* e of od_ec_enc_done() is in the range, and its last 14 bits are zeros.
LEMMA FinalLowOK ==
  ASSUME low \in Nat
  PROVE  /\ FinalLow \in Nat /\ low <= FinalLow /\ FinalLow < low + 32768
         /\ \E j \in Nat : FinalLow = 16384 * j
<1> DEFINE q == (low + 16383) \div 16384
<1>1. q \in Nat /\ low <= 16384 * q /\ 16384 * q < low + 16384
  OBVIOUS
<1>2. FinalLow = 16384 * q \/ FinalLow = 16384 * (q + 1)
  BY <1>1 DEF FinalLow
<1> HIDE DEF q
<1>3. CASE FinalLow = 16384 * q
  BY <1>1, <1>3
<1>4. CASE FinalLow = 16384 * (q + 1)
  <2>1. q + 1 \in Nat
    BY <1>1
  <2>2. QED
    BY <1>1, <1>4, <2>1
<1>5. QED
  BY <1>2, <1>3, <1>4

\* Bits that are zeros are left out without a loss.
LEMMA DivExact ==
  ASSUME NEW q \in Nat, NEW m \in Nat, m > 0
  PROVE  (q * m) \div m = q
<1> DEFINE x == q * m
<1>1. x \in Nat /\ x = q * m
  OBVIOUS
<1> HIDE DEF x
<1>2. /\ x \div m \in Nat /\ (x % m) \in Nat /\ (x % m) < m
      /\ x = (x \div m) * m + (x % m)
  BY <1>1, DivMod
<1> DEFINE u == x \div m
           v == x % m
<1>3. u \in Nat /\ v \in Nat /\ v < m /\ q * m = u * m + v
  BY <1>1, <1>2
<1> HIDE DEF u, v
<1>4. q = u
  <2>1. CASE q < u
    <3>1. (q + 1) * m <= u * m
      BY <1>3, <2>1
    <3>2. QED
      BY <1>3, <3>1
  <2>2. CASE q > u
    <3>1. (u + 1) * m <= q * m
      BY <1>3, <2>2
    <3>2. (u + 1) * m = u * m + m
      BY <1>3
    <3>3. QED
      BY <1>3, <3>1, <3>2
  <2>3. QED
    BY <1>3, <2>1, <2>2
<1>5. QED
  BY <1>4 DEF u, x

\* Nothing is left of e below the last byte.
LastOf(w, e, c) ==
  LET v == w \o LastBytes(e, cnt + 10)
  IN /\ v \in Seq(Nat) /\ c \in 0..16 /\ 8 * Len(v) + c = 8 * Len(w) + (cnt + 24)
     /\ Whole(v) * P2[c] = Bottom(w, cnt, e)

\* One last byte has all of e, or two of them.
LEMMA LastOne ==
  ASSUME cnt \in -9..-2, NEW w \in Seq(Nat), NEW j \in Nat
  PROVE  LastOf(w, 16384 * j, cnt + 16)
<1> DEFINE e == 16384 * j
           c == cnt + 16
           W == Whole(w)
<1>1. c \in 7..14 /\ c \in Nat /\ 14 - c \in Nat /\ c + (14 - c) = 14 /\ cnt + 24 = c + 8
  OBVIOUS
<1>2. LastBytes(e, cnt + 10) = <<e \div 2 ^ c>>
  <2>1. cnt + 10 > 0 /\ ((cnt + 10) + 7) \div 8 = 1
    OBVIOUS
  <2> HIDE DEF e
  <2>2. LastBytes(e, cnt + 10) = [i \in 1..1 |-> e \div 2 ^ c]
    BY <2>1 DEF LastBytes
  <2> DEFINE x == e \div 2 ^ c
  <2>3. LastBytes(e, cnt + 10) = [i \in 1..1 |-> x]
    BY <2>2
  <2> HIDE DEF x
  <2>4. [i \in 1..1 |-> x] = <<x>>
    OBVIOUS
  <2>5. QED
    BY <2>3, <2>4 DEF x
<1>3. 2 ^ c = P2[c]
  <2>1. c \in 0..23
    BY <1>1
  <2>2. QED
    BY <2>1, Pow
<1> HIDE DEF c
<1> DEFINE p == P2[c]
           q == P2[14 - c] * j
<1>4. p \in Nat /\ p > 0 /\ P2[14 - c] \in Nat /\ P2[14 - c] * p = 16384
  <2>1. P2[c + (14 - c)] = P2[c] * P2[14 - c]
    BY <1>1, P2Add
  <2>2. p \in Nat /\ p > 0 /\ P2[14 - c] \in Nat
    BY <1>1, P2Pos
  <2>3. P2[c] * P2[14 - c] = P2[14]
    BY <1>1, <2>1
  <2>4. P2[c] * P2[14 - c] = 16384
    BY <2>3, P2Vals
  <2> DEFINE a == P2[14 - c]
  <2>5. a \in Nat /\ p * a = 16384
    BY <2>2, <2>4
  <2> HIDE DEF a, p
  <2>6. a * p = 16384
    BY <2>2, <2>5
  <2>7. QED
    BY <2>2, <2>6 DEF a
<1>5. q \in Nat /\ e = q * p
  <2> DEFINE a == P2[14 - c]
             m == 16384
  <2>1. p \in Nat /\ a \in Nat /\ a * p = m /\ q = a * j /\ e = m * j
    BY <1>4
  <2> HIDE DEF a, p, q, m, e
  <2>2. (a * j) * p = (a * p) * j /\ a * j \in Nat
    BY <2>1
  <2>3. QED
    BY <2>1, <2>2
<1> HIDE DEF p, q
<1>6. e \div p = q
  BY <1>4, <1>5, DivExact
<1> HIDE DEF e
<1>7. LastBytes(e, cnt + 10) = <<q>>
  BY <1>2, <1>3, <1>6 DEF p
<1> DEFINE v == w \o <<q>>
<1>8. /\ v \in Seq(Nat) /\ Len(v) = Len(w) + 1 /\ W \in Nat /\ Whole(v) = 256 * W + q
  BY <1>5, WholeOne
<1>9. P2[c + 8] = p * 256
  BY <1>1, P2Eight DEF p
<1>10. Whole(v) * p = W * (p * 256) + e
  BY <1>4, <1>5, <1>8
<1>11. Whole(v) * P2[c] = Bottom(w, cnt, e)
  BY <1>1, <1>9, <1>10 DEF Bottom, p
<1>12. 8 * Len(v) + c = 8 * Len(w) + (cnt + 24)
  <2>1. Len(w) \in Nat
    BY LenProperties
  <2>2. QED
    BY <1>1, <1>8, <2>1
<1> HIDE DEF v
<1>13. v = w \o LastBytes(e, cnt + 10)
  BY <1>7 DEF v
<1>14. c \in 0..16
  BY <1>1
<1>15. LastOf(w, e, c)
  BY <1>8, <1>11, <1>12, <1>13, <1>14 DEF LastOf
<1>16. QED
  BY <1>15 DEF e, c

\* The same when low is about to overflow.
LEMMA LastTwo ==
  ASSUME cnt = -1, NEW w \in Seq(Nat), NEW j \in Nat
  PROVE  LastOf(w, 16384 * j, 7)
<1> DEFINE e == 16384 * j
           W == Whole(w)
           x == e \div 32768
           m == e % 32768
           y == m \div 128
<1>1. /\ x \in Nat /\ m \in Nat /\ y \in Nat /\ 128 * y = m /\ 32768 * x + m = e
  OBVIOUS
<1>2. LastBytes(e, cnt + 10) = <<x, y>>
  <2>1. 2 ^ 15 = 32768 /\ 2 ^ 7 = 128
    <3>1. 15 \in 0..23 /\ 7 \in 0..23
      OBVIOUS
    <3>2. QED
      BY <3>1, Pow, P2Vals
  <2>2. /\ cnt + 10 > 0 /\ ((cnt + 10) + 7) \div 8 = 2 /\ cnt + 16 = 15
        /\ cnt + 24 - 8 * (2 - 1) = 15 /\ cnt + 24 - 8 * 2 = 7
    OBVIOUS
  <2> HIDE DEF e
  <2> DEFINE f == LastBytes(e, cnt + 10)
  <2>3. f = [i \in 1..2 |-> IF i = 1 THEN e \div 2 ^ (cnt + 16)
                            ELSE (e % 2 ^ (cnt + 24 - 8 * (i - 1)))
                                    \div 2 ^ (cnt + 24 - 8 * i)]
    BY <2>2 DEF LastBytes
  <2>4. f[1] = x
    BY <2>1, <2>2, <2>3
  <2>5. f[2] = y
    BY <2>1, <2>2, <2>3
  <2>6. f = [i \in 1..2 |-> f[i]]
    BY <2>3
  <2> HIDE DEF f, x, m, y
  <2>7. f = <<f[1], f[2]>>
    BY <2>6
  <2>8. QED
    BY <2>4, <2>5, <2>7 DEF f
<1> HIDE DEF e, x, m, y
<1> DEFINE v == w \o <<x, y>>
<1>3. /\ v \in Seq(Nat) /\ Len(v) = Len(w) + 2 /\ Whole(v) = 256 * (256 * W + x) + y
  BY <1>1, WholeTwo
<1>4. W \in Nat /\ Len(w) \in Nat
  BY WholeNat, LenProperties
<1>5. P2[7] = 128 /\ P2[cnt + 24] = 8388608
  <2>1. P2[15 + 8] = P2[15] * 256
    BY P2Eight
  <2>2. QED
    BY <2>1, P2Vals
<1>6. Whole(v) * P2[7] = Bottom(w, cnt, e)
  <2> DEFINE V == Whole(v)
  <2>1. V = 256 * (256 * W + x) + y
    BY <1>3
  <2> HIDE DEF V, W
  <2>2. V * 128 = W * 8388608 + e
    BY <1>1, <1>4, <2>1
  <2>3. Bottom(w, cnt, e) = W * P2[cnt + 24] + e
    BY DEF Bottom, W
  <2>4. Whole(v) * P2[7] = V * 128
    BY <1>5 DEF V
  <2>5. Bottom(w, cnt, e) = W * 8388608 + e
    BY <1>5, <2>3
  <2>6. QED
    BY <2>2, <2>4, <2>5
<1>7. 8 * Len(v) + 7 = 8 * Len(w) + (cnt + 24)
  BY <1>3, <1>4
<1> HIDE DEF v
<1>8. v = w \o LastBytes(e, cnt + 10)
  BY <1>2 DEF v
<1>11. 7 \in 0..16
  OBVIOUS
<1>9. LastOf(w, e, 7)
  BY <1>11, <1>3, <1>6, <1>7, <1>8 DEF LastOf
<1>10. QED
  BY <1>9 DEF e

\* The bits behind the t that are used, when all the bytes of b and two more are
\* taken.
Behind(b, t) == 8 * (Len(b) + 2) - t - 14

CodeOf(b) == Val(b)[Len(b) + 2]

Zeros(z) == z \in Seq(0..255) /\ \A i \in 1..Len(z) : z[i] = 0

\* Scaling keeps the order.
LEMMA TimesLess ==
  ASSUME NEW a \in Nat, NEW b \in Nat, NEW p \in Nat, p > 0
  PROVE  /\ a * p < b * p <=> a < b
         /\ a * p <= b * p <=> a <= b
<1>1. a < b => a * p < b * p
  <2>1. ASSUME a < b PROVE a * p < b * p
    <3>1. (a + 1) * p <= b * p
      BY <2>1
    <3>2. (a + 1) * p = a * p + p
      OBVIOUS
    <3>3. QED
      BY <3>1, <3>2
  <2>2. QED
    BY <2>1
<1>2. b <= a => b * p <= a * p
  OBVIOUS
<1>3. b < a => b * p < a * p
  <2>1. ASSUME b < a PROVE b * p < a * p
    <3>1. (b + 1) * p <= a * p
      BY <2>1
    <3>2. (b + 1) * p = b * p + p
      OBVIOUS
    <3>3. QED
      BY <3>1, <3>2
  <2>2. QED
    BY <2>1
<1>4. a <= b => a * p <= b * p
  OBVIOUS
<1>5. QED
  BY <1>1, <1>2, <1>3, <1>4

\* The bytes, and zeros behind them, are the number that the encoder has.
Complete(w, c, e, t) ==
  /\ w \in Seq(Nat) /\ c \in 0..16 /\ e \in Nat /\ t \in Nat
  /\ Whole(w) * P2[c] = e /\ 8 * Len(w) + c = t + 14 /\ e < P2[t + 14]

\* Carries and zeros behind keep the number.
LEMMA CodeValue ==
  ASSUME NEW w, NEW c, NEW e, NEW t, Complete(w, c, e, t), NEW z, Zeros(z)
  PROVE  LET b == AddCarries(w) \o z
         IN /\ b \in Seq(0..255) /\ Behind(b, t) \in Nat
            /\ CodeOf(b) = e * P2[Behind(b, t)]
<1> DEFINE n == Len(w)
           d == AddCarries(w)
           b == d \o z
           W == Whole(w)
<1>0. /\ w \in Seq(Nat) /\ c \in 0..16 /\ e \in Nat /\ t \in Nat
      /\ W * P2[c] = e /\ 8 * n + c = t + 14 /\ e < P2[t + 14]
  BY DEF Complete
<1>1. n \in Nat /\ 8 * n \in Nat /\ W \in Nat /\ c \in Nat
  <2>1. n \in Nat /\ W \in Nat
    BY <1>0, WholeNat, LenProperties
  <2> HIDE DEF n, W
  <2>2. QED
    BY <1>0, <2>1
<1>2. W < P2[8 * n]
  <2> DEFINE p == P2[c]
             q == P2[8 * n]
  <2>1. p \in Nat /\ p > 0 /\ q \in Nat
    BY <1>1, P2Pos
  <2>2. P2[8 * n + c] = q * p
    BY <1>1, P2Add
  <2>3. W * p < q * p
    BY <1>0, <2>2
  <2> HIDE DEF p, q, W
  <2>4. W < q
    BY <1>1, <2>1, <2>3, TimesLess
  <2>5. QED
    BY <2>4 DEF q
<1>3. d \in Seq(0..255) /\ Len(d) = n /\ Whole(d) = W
  BY <1>0, <1>2, Carries
<1>4. z \in Seq(0..255) /\ Len(z) \in Nat /\ \A i \in 1..Len(z) : z[i] = 0
  BY LenProperties DEF Zeros
<1> HIDE DEF d
<1>5. b \in Seq(0..255) /\ Len(b) = n + Len(z)
  <2> DEFINE B == 0..255
  <2>1. d \in Seq(B) /\ z \in Seq(B)
    BY <1>3, <1>4
  <2> HIDE DEF B
  <2>2. b \in Seq(B) /\ Len(b) = Len(d) + Len(z)
    BY <2>1, ConcatProperties
  <2>3. QED
    BY <1>3, <2>2 DEF B
<1> DEFINE M == Len(b) + 2
           m == Len(z) + 2
<1>6. ASSUME NEW i \in 1..M PROVE At(b, i) = At(d, i)
  <2>1. CASE i <= n
    <3>1. i \in 1..Len(d) /\ i <= Len(b) /\ i <= Len(d)
      BY <1>1, <1>3, <1>4, <1>5, <2>1
    <3>2. b[i] = d[i]
      BY <1>1, <1>3, <1>4, <3>1
    <3> HIDE DEF b
    <3>3. QED
      BY <3>1, <3>2 DEF At
  <2>2. CASE i > n /\ i <= n + Len(z)
    <3>1. i - n \in 1..Len(z) /\ i \in 1..Len(d) + Len(z) /\ i > Len(d)
      BY <1>1, <1>3, <1>4, <2>2
    <3>2. b[i] = z[i - n]
      BY <1>1, <1>3, <1>4, <3>1
    <3>3. i <= Len(b) /\ ~(i <= Len(d))
      BY <1>1, <1>3, <1>4, <1>5, <2>2
    <3> HIDE DEF b
    <3>4. At(b, i) = z[i - n] /\ At(d, i) = 0
      BY <3>2, <3>3 DEF At
    <3>5. QED
      BY <1>4, <3>1, <3>4
  <2>3. CASE i > n + Len(z)
    <3>1. ~(i <= Len(b)) /\ ~(i <= Len(d))
      BY <1>1, <1>3, <1>4, <1>5, <2>3
    <3> HIDE DEF b
    <3>2. QED
      BY <3>1 DEF At
  <2>4. QED
    BY <1>1, <1>4, <2>1, <2>2, <2>3
<1>7. M \in Nat /\ m \in Nat /\ n <= M /\ M - n = m
  BY <1>1, <1>4, <1>5
<1> HIDE DEF b, M, m
<1>8. Val(b)[M] = Val(d)[M]
  <2>1. b \in Seq(Nat) /\ d \in Seq(Nat)
    <3>1. 0..255 \subseteq Nat
      OBVIOUS
    <3>2. QED
      BY <1>3, <1>5, <3>1, SeqMonotonic
  <2>2. M \in 0..M
    BY <1>7
  <2>3. QED
    BY <1>6, <1>7, <2>1, <2>2, ValAgree
<1>9. Val(d)[M] = W * P2[8 * m]
  <2>1. n >= Len(d)
    BY <1>1, <1>3
  <2>2. Val(d)[M] = Val(d)[n] * P2[8 * (M - n)]
    BY <1>1, <1>3, <1>7, <2>1, ValBounds
  <2>3. QED
    BY <1>3, <1>7, <2>2 DEF Whole
<1> DEFINE x == Behind(b, t)
<1>10. x \in Nat /\ c + x = 8 * m
  <2>1. x = 8 * M - t - 14
    BY DEF Behind, M
  <2>2. M = n + m /\ m >= 2
    BY <1>1, <1>4, <1>7 DEF m
  <2>3. QED
    BY <1>0, <1>1, <1>7, <2>1, <2>2
<1> HIDE DEF x
<1>11. P2[8 * m] = P2[c] * P2[x]
  BY <1>1, <1>10, P2Add
<1>12. W * (P2[c] * P2[x]) = e * P2[x]
  <2> DEFINE p == P2[c]
             q == P2[x]
  <2>1. p \in Nat /\ q \in Nat
    BY <1>1, <1>10, P2Pos
  <2>3. W * p = e
    BY <1>0
  <2> HIDE DEF p, q
  <2>2. W * (p * q) = (W * p) * q
    BY <1>1, <2>1
  <2>4. QED
    BY <2>2, <2>3 DEF p, q
<1>13. CodeOf(b) = e * P2[x]
  BY <1>8, <1>9, <1>11, <1>12 DEF CodeOf, M
<1>14. QED
  BY <1>5, <1>10, <1>13 DEF b, d, x

-----------------------------------------------------------------------------
(* The number that the bytes make is in every interval.                    *)

\* V is in the interval of size r above l, with x bits behind it.
Inside(v, l, r, x) == x \in Nat /\ l * P2[x] <= v /\ v < (l + r) * P2[x]

\* V is in the part of y.
InPart(v, l, r, x, y) ==
  (l + r - To(r, y)) * P2[x] <= v /\ v < (l + r - From(r, y)) * P2[x]

\* A number that is in the range after a symbol is in the range before it, in the part
\* of the symbol.
LEMMA LinkCode ==
  ASSUME NEW y \in Symbols, NEW l \in Nat, NEW r \in Ranges, NEW t \in Nat,
         NEW l2 \in Nat, NEW r2 \in Ranges, NEW t2 \in Nat,
         Link(y, l, r, t, l2, r2, t2),
         NEW v \in Nat, NEW x2, Inside(v, l2, r2, x2)
  PROVE  LET x == x2 + (t2 - t) IN Inside(v, l, r, x) /\ InPart(v, l, r, x, y)
<1> DEFINE a == From(r, y)
           b == To(r, y)
           sz == b - a
           d == Shift(sz)
           x == x2 + d
           p == P2[d]
           q == P2[x2]
           pq == P2[x]
<1>1. a \in Nat /\ b \in Nat /\ a < b /\ b <= r /\ r \in Nat
  BY SubOK DEF Ranges
<1>2. d \in Nat /\ p \in Nat /\ p > 0 /\ l + r - b \in Nat
  BY LinkOK
<1>3. r2 = sz * p /\ l2 = (l + r - b) * p /\ t2 = t + d
  BY DEF Link
<1>4. x2 \in Nat /\ l2 * q <= v /\ v < (l2 + r2) * q
  BY DEF Inside
<1> HIDE DEF a, b, d
<1>5. x \in Nat /\ q \in Nat /\ q > 0 /\ pq = q * p /\ pq \in Nat /\ x = x2 + (t2 - t)
  <2>1. x \in Nat /\ q \in Nat /\ q > 0 /\ pq \in Nat
    BY <1>2, <1>4, P2Pos
  <2>2. P2[x2 + d] = P2[x2] * P2[d]
    BY <1>2, <1>4, P2Add
  <2>3. t2 - t = d
    BY <1>2, <1>3
  <2>4. QED
    BY <2>1, <2>2, <2>3
<1> HIDE DEF x, p, q, pq
<1> DEFINE u == l + r - b
           w == l + r - a
<1>6. u \in Nat /\ w \in Nat /\ u + sz = w /\ sz \in Nat /\ l <= u /\ w <= l + r
  BY <1>1, <1>2
<1> HIDE DEF u, w, sz
<1>7. l2 * q = u * pq /\ (l2 + r2) * q = w * pq
  <2>1. l2 = u * p /\ r2 = sz * p
    BY <1>3 DEF u
  <2>2. (u * p) * q = u * (q * p)
    BY <1>2, <1>5, <1>6
  <2>3. (u * p + sz * p) = w * p
    BY <1>2, <1>6
  <2>4. (w * p) * q = w * (q * p)
    BY <1>2, <1>5, <1>6
  <2>5. QED
    BY <1>5, <2>1, <2>2, <2>3, <2>4
<1>8. u * pq <= v /\ v < w * pq
  BY <1>4, <1>7
<1>9. l * pq <= u * pq /\ w * pq <= (l + r) * pq
  BY <1>1, <1>5, <1>6
<1>10. /\ l * pq \in Nat /\ u * pq \in Nat /\ w * pq \in Nat /\ (l + r) * pq \in Nat
  BY <1>1, <1>5, <1>6
<1>11. l * pq <= v /\ v < (l + r) * pq
  BY <1>8, <1>9, <1>10
<1>12. Inside(v, l, r, x)
  BY <1>5, <1>11 DEF Inside, pq
<1>13. InPart(v, l, r, x, y)
  BY <1>8 DEF InPart, pq, u, w, a, b
<1>14. QED
  BY <1>5, <1>12, <1>13

CodeIn(b, ts, L, R, k) == Inside(CodeOf(b), L[k], R[k], Behind(b, ts[k + 1]))
SymIn(b, m, ts, L, R, k) ==
  InPart(CodeOf(b), L[k], R[k], Behind(b, ts[k + 1]), m[k + 1])

Code(b, m, ts, L, R) ==
  /\ b \in Seq(0..255)
  /\ \A k \in Nat : k <= Len(m) => CodeIn(b, ts, L, R, k)
  /\ \A k \in Nat : k < Len(m) => SymIn(b, m, ts, L, R, k)

\* The numbers of bytes.
LEMMA CodeNat ==
  ASSUME NEW b \in Seq(0..255)
  PROVE  CodeOf(b) \in Nat /\ Len(b) \in Nat /\ \A n \in Nat : Val(b)[n] \in Nat
<1>1. b \in Seq(Nat)
  <2>1. 0..255 \subseteq Nat
    OBVIOUS
  <2>2. QED
    BY <2>1, SeqMonotonic
<1>2. Len(b) \in Nat /\ Len(b) + 2 \in Nat
  BY LenProperties
<1>3. Val(b) \in [Nat -> Nat]
  BY <1>1, ValDef
<1>4. QED
  BY <1>2, <1>3 DEF CodeOf

\* The types in a chain.
LEMMA ChainParts ==
  ASSUME NEW m, NEW ts, NEW L, NEW R, Chain(m, ts, L, R)
  PROVE  /\ L \in [Nat -> Nat] /\ R \in [Nat -> Ranges] /\ Len(m) \in Nat
         /\ m \in Seq(Symbols) /\ ts \in Seq(Nat) /\ Len(ts) = Len(m) + 1
         /\ \A k \in Nat : k <= Len(m) => ts[k + 1] \in Nat
         /\ \A k \in Nat : k < Len(m) => m[k + 1] \in Symbols
<1>1. ChainTypes(m, ts, L, R)
  BY DEF Chain
<1>2. /\ L \in [Nat -> Nat] /\ R \in [Nat -> Ranges] /\ Len(m) \in Nat
      /\ m \in Seq(Symbols) /\ ts \in Seq(Nat) /\ Len(ts) = Len(m) + 1
  BY <1>1, LenProperties DEF ChainTypes
<1>3. ASSUME NEW k \in Nat, k <= Len(m) PROVE ts[k + 1] \in Nat
  <2>1. k + 1 \in 1..Len(ts)
    BY <1>2, <1>3
  <2>2. QED
    BY <1>2, <2>1, ElementOfSeq
<1>4. ASSUME NEW k \in Nat, k < Len(m) PROVE m[k + 1] \in Symbols
  <2>1. k + 1 \in 1..Len(m)
    BY <1>2, <1>4
  <2>2. QED
    BY <1>2, <2>1, ElementOfSeq
<1>5. QED
  BY <1>2, <1>3, <1>4

\* One symbol back.
LEMMA CodeStep ==
  ASSUME NEW m, NEW ts, NEW L, NEW R, Chain(m, ts, L, R), NEW b \in Seq(0..255),
         NEW k \in Nat, k < Len(m), CodeIn(b, ts, L, R, k + 1)
  PROVE  CodeIn(b, ts, L, R, k) /\ SymIn(b, m, ts, L, R, k)
<1> DEFINE y == m[k + 1]
           l == L[k]
           r == R[k]
           t == ts[k + 1]
           l2 == L[k + 1]
           r2 == R[k + 1]
           t2 == ts[k + 2]
           v == CodeOf(b)
           x2 == Behind(b, t2)
           x == Behind(b, t)
<1>1. /\ y \in Symbols /\ l \in Nat /\ r \in Ranges /\ t \in Nat
      /\ l2 \in Nat /\ r2 \in Ranges /\ t2 \in Nat
  <2>0. /\ L \in [Nat -> Nat] /\ R \in [Nat -> Ranges] /\ Len(m) \in Nat
        /\ \A i \in Nat : i <= Len(m) => ts[i + 1] \in Nat
        /\ m[k + 1] \in Symbols
    BY ChainParts
  <2>5. Len(m) \in Nat
    BY <2>0
  <2>1. k + 1 \in Nat /\ k <= Len(m) /\ k + 1 <= Len(m) /\ (k + 1) + 1 = k + 2
    BY <2>5
  <2>2. t \in Nat
    BY <2>0, <2>1
  <2>3. ts[(k + 1) + 1] \in Nat
    BY <2>0, <2>1
  <2>4. QED
    BY <2>0, <2>1, <2>2, <2>3
<1>2. Link(y, l, r, t, l2, r2, t2)
  BY DEF Chain, Linked
<1>3. v \in Nat /\ Len(b) \in Nat
  BY CodeNat
<1>4. Inside(v, l2, r2, x2)
  <2>1. (k + 1) + 1 = k + 2
    OBVIOUS
  <2>2. QED
    BY <2>1 DEF CodeIn
<1>5. x = x2 + (t2 - t)
  BY <1>1, <1>3 DEF Behind
<1> HIDE DEF y, l, r, t, l2, r2, t2, v, x2, x
<1>6. LET z == x2 + (t2 - t) IN Inside(v, l, r, z) /\ InPart(v, l, r, z, y)
  BY <1>1, <1>2, <1>3, <1>4, LinkCode
<1>7. Inside(v, l, r, x) /\ InPart(v, l, r, x, y)
  BY <1>5, <1>6
<1>8. QED
  BY <1>7 DEF CodeIn, SymIn, v, l, r, x, y, t

\* All symbols back.
LEMMA CodeAll ==
  ASSUME NEW m, NEW ts, NEW L, NEW R, Chain(m, ts, L, R), NEW b \in Seq(0..255),
         CodeIn(b, ts, L, R, Len(m))
  PROVE  Code(b, m, ts, L, R)
<1> DEFINE n == Len(m)
           S == {j \in Nat : j <= n => CodeIn(b, ts, L, R, n - j)}
<1>1. n \in Nat
  BY ChainParts
<1>2. 0 \in S
  <2>1. n - 0 = n
    BY <1>1
  <2>2. QED
    BY <2>1
<1>3. ASSUME NEW j \in Nat, j \in S PROVE j + 1 \in S
  <2>1. CASE j + 1 <= n
    <3> DEFINE k == n - (j + 1)
    <3>1. k \in Nat /\ k < n /\ k + 1 = n - j /\ j <= n
      BY <1>1, <2>1
    <3> HIDE DEF k
    <3>2. CodeIn(b, ts, L, R, k + 1)
      BY <1>3, <3>1
    <3>3. CodeIn(b, ts, L, R, k)
      BY <3>1, <3>2, CodeStep
    <3>4. QED
      BY <3>3 DEF k
  <2>2. QED
    BY <2>1
<1> HIDE DEF S
<1>4. Nat \subseteq S
  BY <1>2, <1>3, Induct
<1>5. ASSUME NEW k \in Nat, k <= n PROVE CodeIn(b, ts, L, R, k)
  <2>1. n - k \in Nat /\ n - k <= n /\ n - (n - k) = k
    BY <1>1, <1>5
  <2>2. QED
    BY <1>4, <2>1 DEF S
<1>6. ASSUME NEW k \in Nat, k < n PROVE SymIn(b, m, ts, L, R, k)
  <2>1. k + 1 \in Nat /\ k + 1 <= n
    BY <1>1, <1>6
  <2>2. CodeIn(b, ts, L, R, k + 1)
    BY <1>5, <2>1
  <2>3. QED
    BY <1>6, <2>2, CodeStep
<1>7. QED
  BY <1>5, <1>6 DEF Code

\* e is in the last range.
LEMMA InsideEnd ==
  ASSUME NEW w \in Nat, NEW l \in Nat, NEW r \in Nat, NEW e \in Nat, NEW x \in Nat,
         l <= e, e < l + r
  PROVE  Inside((w + e) * P2[x], w + l, r, x)
<1> DEFINE p == P2[x]
           a == w + l
           b == w + e
           c == a + r
<1>1. p \in Nat /\ p > 0
  BY P2Pos
<1>2. a \in Nat /\ b \in Nat /\ c \in Nat /\ a <= b /\ b < c
  OBVIOUS
<1> HIDE DEF p, a, b, c
<1>3. a * p <= b * p /\ b * p < c * p
  BY <1>1, <1>2, TimesLess
<1>4. QED
  BY <1>3 DEF Inside, a, b, c, p

\* The bytes of od_ec_enc_done() are in the part of every symbol of the message.
LEMMA DoneCode ==
  ASSUME NEW L, NEW R, Chain(message, tells, L, R), Enc(L, R), NEW z, Zeros(z)
  PROVE  Code(AddCarries(precarry \o LastBytes(FinalLow, cnt + 10)) \o z,
              message, tells, L, R)
<1> DEFINE n == Len(message)
           e == FinalLow
           v == precarry \o LastBytes(e, cnt + 10)
           t == tells[n + 1]
           b == AddCarries(v) \o z
           W == Whole(precarry) * P2[cnt + 24]
           E == W + e
           x == Behind(b, t)
<1>1. /\ low \in Nat /\ cnt \in -9..-1 /\ precarry \in Seq(Nat) /\ rng = R[n]
      /\ t = EncTell /\ Bottom(precarry, cnt, low) = L[n]
  BY DEF Enc
<1>2. n \in Nat /\ rng \in Ranges /\ t \in Nat /\ L[n] \in Nat
  <2>1. L \in [Nat -> Nat] /\ R \in [Nat -> Ranges] /\ n \in Nat
    BY ChainParts
  <2>2. \A k \in Nat : k <= n => tells[k + 1] \in Nat
    BY ChainParts
  <2>3. n <= n
    BY <2>1
  <2>4. QED
    BY <1>1, <2>1, <2>2, <2>3
<1>3. PICK j \in Nat : e = 16384 * j
  BY <1>1, FinalLowOK
<1>4. e \in Nat /\ low <= e /\ e < low + 32768
  BY <1>1, FinalLowOK
<1>5. PICK c : LastOf(precarry, e, c)
  <2>1. CASE cnt = -1
    BY <1>1, <1>3, <2>1, LastTwo
  <2>2. CASE cnt # -1
    <3>1. cnt \in -9..-2
      BY <1>1, <2>2
    <3>2. QED
      BY <1>1, <1>3, <3>1, LastOne
  <2>3. QED
    BY <2>1, <2>2
<1> HIDE DEF e
<1>6. /\ v \in Seq(Nat) /\ c \in 0..16 /\ 8 * Len(v) + c = 8 * Len(precarry) + (cnt + 24)
      /\ Whole(v) * P2[c] = E
  BY <1>5 DEF LastOf, Bottom
<1>7. W \in Nat /\ L[n] = W + low
  <2>1. Whole(precarry) \in Nat
    BY <1>1, WholeNat
  <2>2. cnt + 24 \in Nat
    BY <1>1
  <2>3. P2[cnt + 24] \in Nat
    BY <2>2, P2Pos
  <2>4. W \in Nat
    BY <2>1, <2>3
  <2>5. QED
    BY <1>1, <2>4 DEF Bottom
<1> HIDE DEF v, W
<1>8. E \in Nat /\ E < W + low + rng /\ e < low + rng /\ rng \in Nat /\ W + low + rng \in Nat
  BY <1>1, <1>2, <1>4, <1>7, SMTT(30) DEF Ranges
<1>9. 8 * Len(v) + c = t + 14
  <2>1. t = cnt + 10 + Len(precarry) * 8
    BY <1>1 DEF EncTell
  <2>2. Len(precarry) \in Nat
    BY <1>1, LenProperties
  <2>3. QED
    BY <1>1, <1>6, <2>1, <2>2
<1>10. E < P2[t + 14]
  <2>1. L[n] + R[n] <= P2[t + 14]
    <3>1. \A k \in Nat : k <= Len(message) => L[k] + R[k] <= P2[tells[k + 1] + 14]
      BY DEF Chain
    <3>2. n <= n
      BY <1>2
    <3>3. QED
      BY <1>2, <3>1, <3>2
  <2>2. P2[t + 14] \in Nat
    BY <1>2, P2Pos
  <2>3. W + low + rng <= P2[t + 14]
    BY <1>1, <1>7, <2>1
  <2> HIDE DEF E, t
  <2>4. QED
    BY <1>8, <2>2, <2>3
<1> HIDE DEF E, t
<1> HIDE DEF b, x
<1>11. /\ b \in Seq(0..255) /\ x \in Nat /\ CodeOf(b) = E * P2[x]
  <2>1. Complete(v, c, E, t)
    BY <1>2, <1>6, <1>8, <1>9, <1>10 DEF Complete
  <2>2. QED
    BY <2>1, CodeValue DEF b, x
<1>12. Inside(E * P2[x], W + low, rng, x)
  <2>1. Inside((W + e) * P2[x], W + low, rng, x)
    <3>1. W \in Nat /\ low \in Nat /\ rng \in Nat /\ x \in Nat
      BY <1>1, <1>7, <1>8, <1>11
    <3>2. e \in Nat /\ low <= e /\ e < low + rng
      BY <1>4, <1>8
    <3>3. QED
      BY <3>1, <3>2, InsideEnd
  <2>2. QED
    BY <2>1 DEF E
<1>13. CodeIn(b, tells, L, R, n)
  BY <1>1, <1>7, <1>11, <1>12 DEF CodeIn, t, x
<1>14. Code(b, message, tells, L, R)
  BY <1>11, <1>13, CodeAll
<1>15. QED
  BY <1>14 DEF b, v, e

-----------------------------------------------------------------------------
(* The window of the decoder.                                              *)

Half == 65536

\* The half of the window has 16 bits.
LEMMA HalfOK == Half \in Nat /\ Half > 0 /\ Half = P2[16]
BY P2Vals DEF Half

\* The window with the halves h and l, after p bytes of b, is what is left between
\* the code and y, the top of the range when t bits are used.
Core(b, h, l, p, y, t) ==
  /\ h \in Int /\ l \in Nat /\ l < Half /\ p \in Nat /\ p <= Len(b)
  /\ y \in Nat /\ t \in Nat /\ t + 30 - 8 * p \in Nat
  /\ h * Half + l + 1 = y * Half - Val(b)[p] * P2[t + 30 - 8 * p]

\* With the number of bits that are there, and the offset of od_ec_dec_tell().
Window(b, h, l, c, p, o, y, t) ==
  /\ Core(b, h, l, p, y, t) /\ c \in Int /\ o \in Int /\ 8 * p - c + o = t
  /\ p < Len(b) => o = -14

\* Below the bits that are there are ones.
LEMMA Multiple ==
  ASSUME NEW h \in Int, NEW l \in Nat, l < Half, NEW z \in Int, NEW m \in Nat, m > 0,
         NEW q \in Nat, Half = q * m, h * Half + l + 1 = z * m
  PROVE  l + 1 >= m
<1> DEFINE g == z - h * q
<1>1. g \in Int /\ h * q \in Int
  OBVIOUS
<1>2. h * (q * m) = (h * q) * m
  OBVIOUS
<1>3. (z - h * q) * m = z * m - (h * q) * m
  <2> DEFINE a == h * q
  <2>1. a \in Int
    OBVIOUS
  <2> HIDE DEF a
  <2>2. (z - a) * m = z * m - a * m
    BY <2>1
  <2>3. QED
    BY <2>2 DEF a
<1>4. l + 1 = g * m
  <2> DEFINE a == h * Half
             c == z * m
  <2>1. a \in Int /\ c \in Int /\ a + l + 1 = c /\ a = (h * q) * m
    BY <1>2, HalfOK
  <2>2. g * m = c - a
    BY <1>3, <2>1
  <2>3. g * m \in Int
    BY <1>1
  <2> HIDE DEF a, c, g
  <2>4. QED
    BY <2>1, <2>2, <2>3
<1> HIDE DEF g
<1>5. g >= 1
  <2>1. CASE g <= 0
    <3>1. g * m <= 0
      BY <1>1, <2>1
    <3>2. QED
      BY <1>4, <3>1
  <2>2. QED
    BY <1>1, <2>1
<1>6. g * m >= m
  BY <1>1, <1>5
<1>7. QED
  BY <1>1, <1>4, <1>6

\* The bits that are not there yet are ones.
LEMMA OnesBelow ==
  ASSUME NEW b \in Seq(0..255), NEW h, NEW l, NEW p, NEW y, NEW t, Core(b, h, l, p, y, t)
  PROVE  LET e == t + 30 - 8 * p
         IN /\ e >= 16 => l + 1 = Half
            /\ e <= 16 => l + 1 >= P2[e]
<1> DEFINE e == t + 30 - 8 * p
           v == Val(b)[p]
<1>1. /\ h \in Int /\ l \in Nat /\ l < Half /\ y \in Nat /\ e \in Nat /\ v \in Nat
      /\ h * Half + l + 1 = y * Half - v * P2[e]
  BY CodeNat DEF Core
<1> HIDE DEF e, v
<1>2. CASE e >= 16
  <2> DEFINE d == e - 16
             r == P2[d]
             z == y - v * r
  <2>1. d \in Nat /\ e = d + 16
    BY <1>1, <1>2
  <2>2. r \in Nat /\ P2[e] = r * Half
    <3>1. P2[d + 16] = P2[d] * P2[16]
      BY <2>1, P2Add
    <3>2. QED
      BY <2>1, <3>1, P2Pos, HalfOK
  <2> HIDE DEF r
  <2>3. v * r \in Nat /\ v * (r * Half) = (v * r) * Half
    BY <1>1, <2>2, HalfOK
  <2> DEFINE a == v * r
  <2>4. y * Half - a * Half = (y - a) * Half
    <3>1. a \in Nat
      BY <2>3
    <3> HIDE DEF a
    <3>2. QED
      BY <1>1, <3>1, HalfOK
  <2>5. z \in Int
    BY <1>1, <2>3
  <2>6. h * Half + l + 1 = z * Half
    BY <1>1, <2>2, <2>3, <2>4
  <2> HIDE DEF z
  <2>7. l + 1 >= Half
    <3>1. Half = 1 * Half
      BY HalfOK
    <3>2. QED
      BY <1>1, <2>5, <2>6, <3>1, HalfOK, Multiple
  <2>8. l + 1 = Half
    <3>1. l \in Nat /\ l < Half /\ Half \in Nat
      BY <1>1, HalfOK
    <3>2. QED
      BY <2>7, <3>1
  <2>9. e <= 16 => P2[e] = Half
    <3>1. e <= 16 => e = 16
      BY <1>1, <1>2
    <3>2. QED
      BY <3>1, HalfOK
  <2>10. QED
    BY <2>8, <2>9, <1>1, HalfOK DEF e
<1>3. CASE e < 16
  <2> DEFINE d == 16 - e
             q == P2[d]
             m == P2[e]
             z == y * q - v
  <2>1. d \in Nat /\ d + e = 16
    BY <1>1, <1>3
  <2>2. q \in Nat /\ m \in Nat /\ m > 0 /\ Half = q * m
    <3>1. P2[d + e] = P2[d] * P2[e]
      BY <1>1, <2>1, P2Add
    <3>2. QED
      BY <1>1, <2>1, <3>1, P2Pos, HalfOK
  <2> HIDE DEF q, m
  <2>3. z \in Int
    BY <1>1, <2>2
  <2>4. z * m = y * (q * m) - v * m
    <3> DEFINE a == y * q
    <3>1. a \in Nat /\ a * m = y * (q * m)
      BY <1>1, <2>2
    <3> HIDE DEF a
    <3>2. (a - v) * m = a * m - v * m
      BY <1>1, <2>2, <3>1
    <3>3. QED
      BY <3>1, <3>2 DEF a
  <2>5. h * Half + l + 1 = z * m
    BY <1>1, <2>2, <2>4 DEF m
  <2> HIDE DEF z
  <2>6. l + 1 >= m
    BY <1>1, <2>2, <2>3, <2>5, Multiple
  <2>7. ~(e >= 16)
    BY <1>1, <1>3
  <2>8. QED
    BY <2>6, <2>7 DEF e, m
<1>4. QED
  BY <1>1, <1>2, <1>3

\* One byte more.
LEMMA ByteOK == ASSUME NEW c \in 0..255 PROVE c \in Nat /\ c <= 255
OBVIOUS

\* A byte is taken from bits that are all ones, so nothing is borrowed.
LEMMA FillStep ==
  ASSUME NEW b \in Seq(0..255), NEW h, NEW l, NEW p, NEW y, NEW t, Core(b, h, l, p, y, t),
         p < Len(b), t + 30 - 8 * p >= 8
  PROVE  LET x == b[p + 1] * P2[(t + 30 - 8 * p) - 8]
         IN Core(b, h - (x \div 65536), l - (x % 65536), p + 1, y, t)
<1> DEFINE e == t + 30 - 8 * p
           E == e - 8
           v == Val(b)[p]
           c == b[p + 1]
           q == P2[E]
           x == c * q
           i == x \div Half
           j == x % Half
<1>1. /\ h \in Int /\ l \in Nat /\ l < Half /\ y \in Nat /\ e \in Nat /\ v \in Nat
      /\ p \in Nat /\ t \in Nat /\ h * Half + l + 1 = y * Half - v * P2[e]
  BY CodeNat DEF Core
<1>2. /\ e >= 16 => l + 1 = Half
      /\ e <= 16 => l + 1 >= P2[e]
  BY OnesBelow
<1>3. E \in Nat /\ e = E + 8 /\ E = t + 30 - 8 * (p + 1) /\ p + 1 <= Len(b) /\ p + 1 \in Nat
  BY <1>1, CodeNat
<1>4. c \in Nat /\ c <= 255 /\ Val(b)[p + 1] = 256 * v + c
  <2>1. p + 1 \in 1..Len(b)
    BY <1>1, <1>3, CodeNat
  <2>2. c \in 0..255
    BY <2>1, ElementOfSeq
  <2>3. b \in Seq(Nat)
    <3>1. 0..255 \subseteq Nat
      OBVIOUS
    <3>2. QED
      BY <3>1, SeqMonotonic
  <2>4. At(b, p + 1) = c
    BY <1>3 DEF At
  <2>5. Val(b)[p + 1] = 256 * Val(b)[p] + At(b, p + 1)
    BY <1>1, <2>3, ValDef
  <2>6. c \in Nat /\ c <= 255
    BY <2>2, ByteOK
  <2>7. Val(b)[p + 1] = 256 * v + c
    BY <2>4, <2>5
  <2>8. QED
    BY <2>6, <2>7
<1>5. q \in Nat /\ q > 0 /\ P2[e] = 256 * q
  <2> HIDE DEF e, E
  <2>1. P2[E + 8] = P2[E] * 256
    BY <1>3, P2Eight
  <2>2. q \in Nat /\ q > 0
    BY <1>3, P2Pos
  <2> HIDE DEF q
  <2>3. P2[e] = q * 256
    BY <1>3, <2>1 DEF q
  <2>4. QED
    BY <2>2, <2>3
<1> HIDE DEF e, E, v, c, q
<1>6. x \in Nat /\ x <= 255 * q
  BY <1>4, <1>5
<1> HIDE DEF x
<1>7. i \in Nat /\ j \in Nat /\ j < Half /\ x = i * Half + j
  BY <1>6, HalfOK, DivMod
<1>8. j <= l
  <2>1. CASE e >= 16
    <3>1. l + 1 = Half
      BY <1>2, <2>1
    <3> HIDE DEF i, j
    <3>2. QED
      BY <1>1, <1>7, <3>1, HalfOK
  <2>2. CASE e < 16
    <3>1. l + 1 >= 256 * q
      BY <1>1, <1>2, <1>5, <2>2
    <3>2. j <= x
      <4> HIDE DEF i, j
      <4>1. i * Half >= 0 /\ i * Half \in Nat
        BY <1>7, HalfOK
      <4>2. QED
        BY <1>6, <1>7, <4>1
    <3> HIDE DEF i, j
    <3>3. QED
      BY <1>1, <1>5, <1>6, <1>7, <3>1, <3>2
  <2>3. QED
    BY <1>1, <2>1, <2>2
<1> HIDE DEF i, j
<1>9. (h - i) * Half + (l - j) + 1 = y * Half - (256 * v + c) * q
  <2>1. (h - i) * Half = h * Half - i * Half
    BY <1>1, <1>7, HalfOK
  <2>2. (256 * v + c) * q = v * (256 * q) + c * q
    BY <1>1, <1>4, <1>5
  <2> DEFINE hh == h * Half
             ih == i * Half
             yh == y * Half
             vq == v * (256 * q)
             nh == (h - i) * Half
             nq == (256 * v + c) * q
  <2>3. hh \in Int /\ ih \in Nat /\ yh \in Nat /\ vq \in Nat
    <3>1. h \in Int /\ y \in Nat /\ v \in Nat /\ q \in Nat /\ i \in Nat /\ Half \in Nat
      BY <1>1, <1>5, <1>7, HalfOK
    <3>2. hh \in Int
      BY <3>1
    <3>3. ih \in Nat
      BY <3>1
    <3>4. yh \in Nat
      BY <3>1
    <3>5. vq \in Nat
      BY <3>1
    <3>6. QED
      BY <3>2, <3>3, <3>4, <3>5
  <2>7. nh = hh - ih
    BY <2>1
  <2>8. nq = vq + x
    BY <2>2 DEF x
  <2>9. x = ih + j
    BY <1>7
  <2>10. hh + l + 1 = yh - vq
    BY <1>1, <1>5
  <2>4. nh = hh - ih /\ nq = vq + x /\ x = ih + j /\ hh + l + 1 = yh - vq
    BY <2>7, <2>8, <2>9, <2>10
  <2> HIDE DEF hh, ih, yh, vq, nh, nq
  <2>5. nh + (l - j) + 1 = yh - nq
    <3>1. l \in Nat /\ j \in Nat /\ x \in Nat
      BY <1>1, <1>6, <1>7
    <3>2. QED
      BY <2>3, <2>4, <3>1
  <2>6. QED
    BY <2>5 DEF nh, yh, nq
<1>10. h - i \in Int /\ l - j \in Nat /\ l - j < Half
  BY <1>1, <1>7, <1>8, HalfOK
<1>11. Core(b, h - i, l - j, p + 1, y, t)
  <2>1. t + 30 - 8 * (p + 1) \in Nat
    BY <1>3
  <2>2. P2[t + 30 - 8 * (p + 1)] = q
    BY <1>3 DEF q
  <2>3. (h - i) * Half + (l - j) + 1 = y * Half - Val(b)[p + 1] * P2[t + 30 - 8 * (p + 1)]
    BY <1>4, <1>9, <2>2
  <2>4. QED
    BY <1>1, <1>3, <1>10, <2>1, <2>3 DEF Core
<1>12. i = x \div 65536 /\ j = x % 65536
  BY DEF i, j, Half
<1>13. x = b[p + 1] * P2[(t + 30 - 8 * p) - 8]
  BY DEF x, c, q, E, e
<1>14. QED
  BY <1>11, <1>12, <1>13

\* What od_ec_dec_refill() has after every byte.
FillByte(b, p, s, k) == b[p + k] * P2[s - 8 * (k - 1)]

IsFill(f, b, h, l, p, s, n) ==
  /\ f[0] = <<h, l>>
  /\ \A k \in Nat : k < n =>
       LET x == FillByte(b, p, s, k + 1)
       IN f[k + 1] = <<f[k][1] - (x \div 65536), f[k][2] - (x % 65536)>>

\* All the bytes that od_ec_dec_refill() takes.
LEMMA FillAll ==
  ASSUME NEW b \in Seq(0..255), NEW h, NEW l, NEW p, NEW y, NEW t, Core(b, h, l, p, y, t),
         NEW s, NEW n \in Nat, s = (t + 30 - 8 * p) - 8, p + n <= Len(b),
         n = 0 \/ 8 * (n - 1) <= s, NEW f, IsFill(f, b, h, l, p, s, n)
  PROVE  Core(b, f[n][1], f[n][2], p + n, y, t)
<1> DEFINE S == {k \in Nat : k <= n => Core(b, f[k][1], f[k][2], p + k, y, t)}
<1>1. p \in Nat /\ t \in Nat
  BY DEF Core
<1>2. 0 \in S
  <2>1. p + 0 = p
    BY <1>1
  <2>2. f[0][1] = h /\ f[0][2] = l
    BY DEF IsFill
  <2>3. QED
    BY <2>1, <2>2
<1>3. ASSUME NEW k \in Nat, k \in S PROVE k + 1 \in S
  <2>1. CASE k + 1 <= n
    <3> DEFINE x == FillByte(b, p, s, k + 1)
               u == f[k][1]
               v == f[k][2]
               q == p + k
    <3>1. k < n /\ k <= n /\ q \in Nat /\ q + 1 = p + (k + 1) /\ n # 0
      BY <1>1, <2>1
    <3>2. q < Len(b) /\ t + 30 - 8 * q >= 8 /\ (t + 30 - 8 * q) - 8 = s - 8 * ((k + 1) - 1)
      BY <1>1, <2>1, <3>1, CodeNat
    <3>3. Core(b, u, v, q, y, t)
      BY <1>3, <3>1
    <3>4. f[k + 1] = <<u - (x \div 65536), v - (x % 65536)>>
      BY <3>1 DEF IsFill
    <3>5. x = b[q + 1] * P2[(t + 30 - 8 * q) - 8]
      BY <3>1, <3>2 DEF FillByte
    <3> HIDE DEF x, u, v, q
    <3>6. LET z == b[q + 1] * P2[(t + 30 - 8 * q) - 8]
          IN Core(b, u - (z \div 65536), v - (z % 65536), q + 1, y, t)
      BY <3>2, <3>3, FillStep
    <3>7. Core(b, u - (x \div 65536), v - (x % 65536), q + 1, y, t)
      BY <3>5, <3>6
    <3>8. f[k + 1][1] = u - (x \div 65536) /\ f[k + 1][2] = v - (x % 65536)
      BY <3>4
    <3>9. Core(b, f[k + 1][1], f[k + 1][2], p + (k + 1), y, t)
      BY <3>1, <3>7, <3>8 DEF q
    <3>10. QED
      BY <3>9
  <2>2. QED
    BY <2>1
<1> HIDE DEF S
<1>4. Nat \subseteq S
  BY <1>2, <1>3, Induct
<1>5. QED
  BY <1>4 DEF S

\* The record that a window is handed to od_ec_dec_refill() as.
IsWindow(w, h, l, c, p, o) ==
  w.hi = h /\ w.lo = l /\ w.cnt = c /\ w.pos = p /\ w.tellOffs = o

Room(c) == (8 - c) \div 8 + 1
Taken(b, c, p) == IF Room(c) < Len(b) - p THEN Room(c) ELSE Len(b) - p

\* How many bytes there is room for.
LEMMA RoomOK ==
  ASSUME NEW c \in -15..-1
  PROVE  Room(c) \in 1..3 /\ 8 * Room(c) <= 16 - c /\ 8 * Room(c) >= 1 - c
BY DEF Room

FillX(b, p, s, k) == b[p + k] * 2 ^ (s - 8 * (k - 1))

FillBody(b, w, s, n, f) ==
  [k \in 0..n |-> IF k = 0 THEN <<w.hi, w.lo>>
                  ELSE <<f[k - 1][1] - (FillX(b, w.pos, s, k) \div 65536),
                         f[k - 1][2] - (FillX(b, w.pos, s, k) % 65536)>>]

FillOf(b, w, s, n) == CHOOSE f : f = FillBody(b, w, s, n, f)

Filled(f, b, w, s, n) ==
  /\ f[0] = <<w.hi, w.lo>>
  /\ \A k \in Nat : k < n =>
       f[k + 1] = <<f[k][1] - (FillX(b, w.pos, s, k + 1) \div 65536),
                    f[k][2] - (FillX(b, w.pos, s, k + 1) % 65536)>>

\* The loop of od_ec_dec_refill() has a result.
LEMMA FillExists ==
  ASSUME NEW b, NEW w, NEW s, NEW n \in 0..3
  PROVE  Filled(FillOf(b, w, s, n), b, w, s, n)
<1> DEFINE A(k) == FillX(b, w.pos, s, k) \div 65536
           B(k) == FillX(b, w.pos, s, k) % 65536
           f0 == <<w.hi, w.lo>>
           f1 == <<f0[1] - A(1), f0[2] - B(1)>>
           f2 == <<f1[1] - A(2), f1[2] - B(2)>>
           f3 == <<f2[1] - A(3), f2[2] - B(3)>>
           g == [k \in 0..n |-> IF k = 0 THEN f0 ELSE IF k = 1 THEN f1
                                ELSE IF k = 2 THEN f2 ELSE f3]
<1> HIDE DEF A, B
<1>1. ASSUME NEW k \in 0..n
      PROVE  g[k] = IF k = 0 THEN f0 ELSE <<g[k - 1][1] - A(k), g[k - 1][2] - B(k)>>
  <2> HIDE DEF f0, f1, f2, f3
  <2>1. CASE k = 0
    BY <2>1
  <2>2. CASE k = 1
    <3>1. g[1] = f1 /\ g[0] = f0 /\ k - 1 = 0
      BY <2>2
    <3> HIDE DEF g
    <3>2. QED
      BY <2>2, <3>1 DEF f1
  <2>3. CASE k = 2
    <3>1. g[2] = f2 /\ g[1] = f1 /\ k - 1 = 1
      BY <2>3
    <3> HIDE DEF g
    <3>2. QED
      BY <2>3, <3>1 DEF f2
  <2>4. CASE k = 3
    <3>1. g[3] = f3 /\ g[2] = f2 /\ k - 1 = 2
      BY <2>4
    <3> HIDE DEF g
    <3>2. QED
      BY <2>4, <3>1 DEF f3
  <2>5. QED
    BY <2>1, <2>2, <2>3, <2>4
<1>2. g = [k \in 0..n |-> g[k]]
  OBVIOUS
<1> HIDE DEF g, f0, f1, f2, f3
<1>3. g = [k \in 0..n |-> IF k = 0 THEN f0
                          ELSE <<g[k - 1][1] - A(k), g[k - 1][2] - B(k)>>]
  BY <1>1, <1>2
<1>4. g = FillBody(b, w, s, n, g)
  BY <1>3 DEF FillBody, A, B, f0
<1> DEFINE f == FillOf(b, w, s, n)
<1>5. f = FillBody(b, w, s, n, f)
  <2>1. \E x : x = FillBody(b, w, s, n, x)
    BY <1>4
  <2>2. QED
    BY <2>1 DEF FillOf
<1> HIDE DEF f
<1>6. f = [k \in 0..n |-> IF k = 0 THEN f0
                          ELSE <<f[k - 1][1] - A(k), f[k - 1][2] - B(k)>>]
  BY <1>5 DEF FillBody, A, B, f0
<1>7. f[0] = f0
  <2>1. 0 \in 0..n
    OBVIOUS
  <2>2. QED
    BY <1>6, <2>1
<1>8. ASSUME NEW k \in Nat, k < n
      PROVE  f[k + 1] = <<f[k][1] - A(k + 1), f[k][2] - B(k + 1)>>
  <2> DEFINE j == k + 1
  <2>1. j \in 0..n /\ j # 0 /\ j - 1 = k
    BY <1>8
  <2> HIDE DEF j
  <2>2. f[j] = <<f[j - 1][1] - A(j), f[j - 1][2] - B(j)>>
    BY <1>6, <2>1
  <2>3. f[j] = <<f[k][1] - A(j), f[k][2] - B(j)>>
    BY <2>1, <2>2
  <2>4. QED
    BY <2>3 DEF j
<1>9. QED
  <2>1. Filled(f, b, w, s, n)
    BY <1>7, <1>8 DEF A, B, f0, Filled
  <2>2. QED
    BY <2>1 DEF f

\* Refill in these terms.
LEMMA RefillFill ==
  ASSUME NEW b \in Seq(0..255), bytes' = b, NEW w, NEW h, NEW l, NEW c \in -15..-1,
         NEW p \in Nat, NEW o, IsWindow(w, h, l, c, p, o), p <= Len(b), Refill(w)
  PROVE  LET n == Taken(b, c, p)
         IN /\ \E f : IsFill(f, b, h, l, p, 8 - c, n) /\ hi' = f[n][1] /\ lo' = f[n][2]
            /\ pos' = p + n
            /\ dcnt' = IF p + n >= Len(b) THEN LotsOfBits ELSE c + 8 * n
            /\ tellOffs' = IF p + n >= Len(b) THEN EndOffs(o, c + 8 * n) ELSE o
<1> DEFINE n == Taken(b, c, p)
           s == WindowSize - 9 - (w.cnt + 15)
           N == IF s \div 8 + 1 < Len(bytes') - w.pos THEN s \div 8 + 1
                ELSE Len(bytes') - w.pos
           fill == FillOf(bytes', w, s, N)
<1>1. n \in 0..3 /\ n \in Nat /\ (n = 0 \/ 8 * (n - 1) <= 8 - c)
  <2>1. Room(c) \in 1..3 /\ 8 * Room(c) <= 16 - c
    BY RoomOK
  <2>2. Len(b) \in Nat
    BY CodeNat
  <2>3. QED
    BY <2>1, <2>2 DEF Taken
<1>2. w.hi = h /\ w.lo = l /\ w.cnt = c /\ w.pos = p /\ w.tellOffs = o
  BY DEF IsWindow
<1>3. s = 8 - c
  BY <1>2 DEF WindowSize
<1>4. /\ hi' = fill[N][1] /\ lo' = fill[N][2] /\ pos' = w.pos + N
      /\ dcnt' = IF w.pos + N >= Len(bytes') THEN LotsOfBits ELSE w.cnt + 8 * N
      /\ tellOffs' = IF w.pos + N >= Len(bytes') THEN EndOffs(w.tellOffs, w.cnt + 8 * N)
                     ELSE w.tellOffs
  <2>1. /\ hi' = Fill(w, s, N)[1] /\ lo' = Fill(w, s, N)[2] /\ pos' = w.pos + N
        /\ dcnt' = IF w.pos + N >= Len(bytes') THEN LotsOfBits ELSE w.cnt + 8 * N
        /\ tellOffs' = IF w.pos + N >= Len(bytes') THEN EndOffs(w.tellOffs, w.cnt + 8 * N)
                       ELSE w.tellOffs
    BY DEF Refill
  <2> HIDE DEF s, N
  <2>2. Fill(w, s, N) = fill[N]
    BY DEF Fill, FillOf, FillBody, FillX
  <2>3. QED
    BY <2>1, <2>2
<1>5. N = n
  BY <1>2, <1>3 DEF Taken, Room
<1> HIDE DEF N, n, s
<1> DEFINE f == FillOf(b, w, s, n)
<1>6. fill = f
  BY <1>5
<1> HIDE DEF fill
<1>7. /\ f[0] = <<w.hi, w.lo>>
      /\ \A k \in Nat : k < n =>
           f[k + 1] = <<f[k][1] - (FillX(b, w.pos, s, k + 1) \div 65536),
                        f[k][2] - (FillX(b, w.pos, s, k + 1) % 65536)>>
  <2>1. n \in 0..3
    BY <1>1
  <2>2. Filled(f, b, w, s, n)
    BY <2>1, FillExists
  <2>3. QED
    BY <2>2 DEF Filled
<1> HIDE DEF f
<1>8. ASSUME NEW k \in Nat, k < n
      PROVE  FillX(b, w.pos, s, k + 1) = FillByte(b, p, 8 - c, k + 1)
  <2> DEFINE e == (8 - c) - 8 * ((k + 1) - 1)
  <2>1. e \in 0..23
    BY <1>1, <1>8
  <2>2. s - 8 * ((k + 1) - 1) = e
    BY <1>3
  <2> HIDE DEF e
  <2>3. 2 ^ e = P2[e]
    BY <2>1, Pow
  <2>4. FillX(b, w.pos, s, k + 1) = b[p + (k + 1)] * P2[e]
    BY <1>2, <2>2, <2>3 DEF FillX
  <2>5. QED
    BY <2>4 DEF FillByte, e
<1>9. IsFill(f, b, h, l, p, 8 - c, n)
  <2>1. f[0] = <<h, l>>
    BY <1>2, <1>7
  <2>2. ASSUME NEW k \in Nat, k < n
        PROVE  LET x == FillByte(b, p, 8 - c, k + 1)
               IN f[k + 1] = <<f[k][1] - (x \div 65536), f[k][2] - (x % 65536)>>
    <3> DEFINE z == FillX(b, w.pos, s, k + 1)
    <3>1. f[k + 1] = <<f[k][1] - (z \div 65536), f[k][2] - (z % 65536)>>
      BY <1>7, <2>2
    <3>2. z = FillByte(b, p, 8 - c, k + 1)
      BY <1>8, <2>2
    <3> HIDE DEF z
    <3>3. QED
      BY <3>1, <3>2
  <2>3. QED
    BY <2>1, <2>2 DEF IsFill
<1>10. hi' = f[n][1] /\ lo' = f[n][2]
  BY <1>4, <1>5, <1>6
<1>11. /\ pos' = p + n
       /\ dcnt' = IF p + n >= Len(b) THEN LotsOfBits ELSE c + 8 * n
       /\ tellOffs' = IF p + n >= Len(b) THEN EndOffs(o, c + 8 * n) ELSE o
  BY <1>2, <1>4, <1>5
<1>12. QED
  BY <1>9, <1>10, <1>11 DEF n

\* od_ec_dec_refill() keeps what the window stands for, and od_ec_dec_tell().
LEMMA RefillOK ==
  ASSUME NEW b \in Seq(0..255), bytes' = b, NEW w, NEW h, NEW l, NEW c \in -15..-1,
         NEW p, NEW o, IsWindow(w, h, l, c, p, o), NEW y, NEW t,
         Window(b, h, l, c, p, o, y, t), Refill(w)
  PROVE  Window(b, hi', lo', dcnt', pos', tellOffs', y, t) /\ dcnt' \in Nat
<1> DEFINE n == Taken(b, c, p)
           s == 8 - c
           x == Room(c)
           len == Len(b)
<1>1. /\ Core(b, h, l, p, y, t) /\ o \in Int /\ 8 * p - c + o = t /\ (p < len => o = -14)
      /\ p \in Nat /\ p <= len /\ len \in Nat /\ t \in Nat
  BY CodeNat DEF Window, Core
<1>3. /\ \E f : IsFill(f, b, h, l, p, s, n) /\ hi' = f[n][1] /\ lo' = f[n][2]
      /\ pos' = p + n
      /\ dcnt' = IF p + n >= len THEN LotsOfBits ELSE c + 8 * n
      /\ tellOffs' = IF p + n >= len THEN EndOffs(o, c + 8 * n) ELSE o
  <2>1. p \in Nat /\ p <= Len(b)
    BY <1>1
  <2> HIDE DEF n, len, x, s
  <2>2. LET m == Taken(b, c, p)
        IN /\ \E f : IsFill(f, b, h, l, p, 8 - c, m) /\ hi' = f[m][1] /\ lo' = f[m][2]
           /\ pos' = p + m
           /\ dcnt' = IF p + m >= Len(b) THEN LotsOfBits ELSE c + 8 * m
           /\ tellOffs' = IF p + m >= Len(b) THEN EndOffs(o, c + 8 * m) ELSE o
    BY <2>1, RefillFill
  <2>3. QED
    BY <2>2 DEF n, len, s
<1>2. PICK f : IsFill(f, b, h, l, p, s, n) /\ hi' = f[n][1] /\ lo' = f[n][2]
  BY <1>3
<1>4. x \in 1..3 /\ 8 * x <= 16 - c /\ 8 * x >= 1 - c
  BY RoomOK
<1>5. n = IF x < len - p THEN x ELSE len - p
  BY DEF Taken
<1> HIDE DEF n, x, len
<1>6. n \in Nat /\ p + n <= len /\ (n = 0 \/ 8 * (n - 1) <= s) /\ n <= x
  BY <1>1, <1>4, <1>5
<1>7. n # 0 => p < len
  BY <1>1, <1>6
<1>8. Core(b, f[n][1], f[n][2], p + n, y, t)
  <2>1. CASE n = 0
    <3>1. f[n] = <<h, l>> /\ p + n = p
      BY <1>1, <1>2, <2>1 DEF IsFill
    <3>2. f[n][1] = h /\ f[n][2] = l
      BY <3>1
    <3>3. QED
      BY <1>1, <3>1, <3>2
  <2>2. CASE n # 0
    <3>1. s = (t + 30 - 8 * p) - 8
      BY <1>1, <1>7, <2>2
    <3> HIDE DEF s
    <3>2. QED
      BY <1>1, <1>2, <1>6, <3>1, FillAll DEF len
  <2>3. QED
    BY <2>1, <2>2
<1>9. Core(b, hi', lo', pos', y, t)
  BY <1>2, <1>3, <1>8
<1>10. CASE p + n >= len
  <2>1. dcnt' = 16384 /\ tellOffs' = o + 16384 - (c + 8 * n)
    BY <1>3, <1>10 DEF LotsOfBits, EndOffs
  <2>2. 8 * pos' - dcnt' + tellOffs' = t /\ dcnt' \in Int /\ tellOffs' \in Int /\ dcnt' \in Nat
    BY <1>1, <1>3, <1>6, <2>1
  <2>3. ~(pos' < Len(b))
    BY <1>1, <1>3, <1>6, <1>10 DEF len
  <2>4. QED
    BY <1>9, <2>2, <2>3 DEF Window
<1>11. CASE ~(p + n >= len)
  <2>1. dcnt' = c + 8 * n /\ tellOffs' = o
    BY <1>3, <1>11
  <2>2. n = x /\ p < len
    BY <1>1, <1>4, <1>5, <1>6, <1>11
  <2>3. 8 * pos' - dcnt' + tellOffs' = t /\ dcnt' \in Int /\ tellOffs' \in Int /\ dcnt' \in Nat
    BY <1>1, <1>3, <1>4, <1>6, <2>1, <2>2
  <2>4. tellOffs' = -14
    BY <1>1, <2>1, <2>2
  <2>5. QED
    BY <1>9, <2>3, <2>4 DEF Window
<1>12. QED
  BY <1>10, <1>11

-----------------------------------------------------------------------------
(* What the window says of the code.                                       *)

\* Bits behind those that the window has do not change a comparison with a part.
LEMMA CompareMid ==
  ASSUME NEW a \in Nat, NEW v \in Nat, NEW e \in 0..16, NEW k \in Nat, NEW u \in Nat,
         a * P2[k] <= v, v < (a + 1) * P2[k]
  PROVE  a * P2[e] < u * Half <=> v < u * P2[k + (16 - e)]
<1> DEFINE d == 16 - e
           p == P2[k]
           q == P2[d]
           r == P2[e]
           m == u * q
<1>1. d \in Nat /\ d + e = 16 /\ e \in Nat
  OBVIOUS
<1> HIDE DEF d
<1>2. p \in Nat /\ p > 0 /\ q \in Nat /\ q > 0 /\ r \in Nat /\ r > 0
  BY <1>1, P2Pos
<1>3. P2[k + d] = p * q
  BY <1>1, P2Add
<1>4. Half = q * r
  <2>1. P2[d + e] = P2[d] * P2[e]
    BY <1>1, P2Add
  <2>2. QED
    BY <1>1, <2>1, HalfOK
<1> HIDE DEF p, q, r
<1>5. u * Half = m * r /\ u * (p * q) = m * p /\ m \in Nat
  BY <1>2, <1>4
<1> HIDE DEF m
<1>6. a * r < m * r <=> a < m
  BY <1>2, <1>5, TimesLess
<1>7. a * p <= v /\ v < (a + 1) * p
  BY DEF p
<1>8. v < m * p <=> a < m
  <2>1. ASSUME a < m PROVE v < m * p
    <3>1. (a + 1) * p <= m * p
      BY <1>2, <1>5, <2>1
    <3>2. (a + 1) * p \in Nat /\ m * p \in Nat
      BY <1>2, <1>5
    <3>3. QED
      BY <1>7, <3>1, <3>2
  <2>2. ASSUME ~(a < m) PROVE ~(v < m * p)
    <3>1. m * p <= a * p
      BY <1>2, <1>5, <2>2
    <3>2. a * p \in Nat /\ m * p \in Nat
      BY <1>2, <1>5
    <3>3. QED
      BY <1>7, <3>1, <3>2
  <2>3. QED
    BY <2>1, <2>2
<1>9. a * P2[e] < u * Half <=> a < m
  BY <1>5, <1>6 DEF r
<1>10. v < u * P2[k + d] <=> a < m
  BY <1>3, <1>5, <1>8
<1>11. QED
  BY <1>9, <1>10 DEF d

\* The same when the window has ones behind the last byte.
LEMMA CompareEnd ==
  ASSUME NEW a \in Nat, NEW v \in Nat, NEW e \in Nat, NEW x \in Nat, NEW u \in Nat,
         e + x = 32, v = a * Half
  PROVE  a * P2[e] < u * Half <=> v < u * P2[x]
<1> DEFINE r == P2[e]
           q == P2[x]
<1>1. r \in Nat /\ r > 0 /\ q \in Nat
  BY P2Pos
<1>2. q * r = Half * Half
  <2>1. P2[x + e] = P2[x] * P2[e]
    BY P2Add
  <2>2. P2[16 + 16] = P2[16] * P2[16]
    <3> DEFINE h == 16
    <3>1. h \in Nat
      OBVIOUS
    <3> HIDE DEF h
    <3>2. P2[h + h] = P2[h] * P2[h]
      BY <3>1, P2Add
    <3>3. QED
      BY <3>2 DEF h
  <2>3. x + e = 32 /\ 16 + 16 = 32
    OBVIOUS
  <2>4. QED
    BY <2>1, <2>2, <2>3, HalfOK
<1> HIDE DEF r, q
<1> DEFINE f == a * r
           g == u * q
           j == u * Half
<1>3. f \in Nat /\ g \in Nat /\ j \in Nat
  BY <1>1, HalfOK
<1>4. v * r = f * Half /\ g * r = j * Half
  <2>1. (a * Half) * r = (a * r) * Half
    BY <1>1, HalfOK
  <2>2. (u * q) * r = u * (Half * Half)
    BY <1>1, <1>2, HalfOK
  <2>3. u * (Half * Half) = (u * Half) * Half
    BY HalfOK
  <2>4. QED
    BY <2>1, <2>2, <2>3
<1> HIDE DEF f, g, j
<1>5. f * Half < j * Half <=> f < j
  BY <1>3, HalfOK, TimesLess
<1>6. v * r < g * r <=> v < g
  BY <1>1, <1>3, TimesLess
<1>7. f < j <=> v < g
  BY <1>4, <1>5, <1>6
<1>8. QED
  BY <1>7 DEF f, g, j, r, q

\* Comparing the window is comparing the whole code.
LEMMA Compare ==
  ASSUME NEW b \in Seq(0..255), NEW h, NEW l, NEW c \in Nat, NEW p, NEW o, NEW y, NEW t,
         Window(b, h, l, c, p, o, y, t), Behind(b, t) \in Nat, NEW u \in Nat
  PROVE  Val(b)[p] * P2[t + 30 - 8 * p] < u * Half <=> CodeOf(b) < u * P2[Behind(b, t)]
<1> DEFINE len == Len(b)
           e == t + 30 - 8 * p
           x == Behind(b, t)
           a == Val(b)[p]
           v == CodeOf(b)
           k == 8 * ((len + 2) - p)
<1>1. /\ p \in Nat /\ p <= len /\ len \in Nat /\ t \in Nat /\ e \in Nat
      /\ o \in Int /\ 8 * p - c + o = t /\ (p < len => o = -14)
  BY CodeNat DEF Window, Core
<1>2. a \in Nat /\ v \in Nat
  BY <1>1, CodeNat
<1>3. x = 8 * (len + 2) - t - 14 /\ x \in Nat
  BY DEF Behind
<1>4. k \in Nat /\ len + 2 \in Nat /\ p <= len + 2
  BY <1>1
<1>5. /\ a * P2[k] <= v /\ v < (a + 1) * P2[k]
      /\ p >= len => v = a * P2[k]
  BY <1>1, <1>4, ValBounds DEF CodeOf
<1>6. CASE p < len
  <2>1. e \in 0..16 /\ x = k + (16 - e)
    BY <1>1, <1>3, <1>6
  <2> HIDE DEF e, x, a, v, k, len
  <2>2. a * P2[e] < u * Half <=> v < u * P2[k + (16 - e)]
    BY <1>2, <1>4, <1>5, <2>1, CompareMid
  <2>3. QED
    BY <2>1, <2>2 DEF e, x, a, v
<1>7. CASE p >= len
  <2>1. p = len
    BY <1>1, <1>7
  <2>2. k = 16 /\ e + x = 32
    BY <1>1, <1>3, <2>1
  <2>3. v = a * Half
    <3>1. v = a * P2[k]
      BY <1>5, <1>7
    <3> HIDE DEF v, a, k
    <3>2. QED
      BY <2>2, <3>1, HalfOK
  <2> HIDE DEF e, x, a, v, k, len
  <2>4. a \in Nat /\ v \in Nat /\ e \in Nat /\ x \in Nat /\ e + x = 32
    BY <1>1, <1>2, <1>3, <2>2
  <2>6. a * P2[e] < u * Half <=> v < u * P2[x]
    BY <2>3, <2>4, CompareEnd
  <2>5. QED
    BY <2>6 DEF e, x, a, v
<1>8. QED
  BY <1>1, <1>6, <1>7

\* One more of the upper half.
LEMMA HalfNext == ASSUME NEW a \in Int PROVE (a + 1) * Half = a * Half + Half
<1> DEFINE n == Half
<1>1. n \in Nat
  BY HalfOK
<1> HIDE DEF n
<1>2. (a + 1) * n = a * n + n
  BY <1>1
<1>3. QED
  BY <1>2 DEF n

\* The upper half keeps the order.
LEMMA HalfLeq ==
  ASSUME NEW a \in Int, NEW b \in Int, a <= b PROVE a * Half <= b * Half
<1> DEFINE n == Half
           i == b - a
<1>1. n \in Nat
  BY HalfOK
<1>2. i \in Nat /\ b = a + i
  OBVIOUS
<1> HIDE DEF n, i
<1>3. i * n \in Nat /\ a * n \in Int
  BY <1>1, <1>2
<1>4. (a + i) * n = a * n + i * n
  BY <1>1, <1>2
<1>5. a * n <= b * n
  BY <1>2, <1>3, <1>4
<1>6. QED
  BY <1>5 DEF n

\* Comparing the upper half is comparing the code.
LEMMA Decide ==
  ASSUME NEW b \in Seq(0..255), NEW h, NEW l, NEW c \in Nat, NEW p, NEW o, NEW y, NEW t,
         Window(b, h, l, c, p, o, y, t), Behind(b, t) \in Nat, NEW v \in Nat, v <= y
  PROVE  h >= v <=> CodeOf(b) < (y - v) * P2[Behind(b, t)]
<1> DEFINE a == Val(b)[p] * P2[t + 30 - 8 * p]
           u == y - v
<1>1. /\ h \in Int /\ l \in Nat /\ l < Half /\ y \in Nat /\ h * Half + l + 1 = y * Half - a
      /\ p \in Nat /\ t + 30 - 8 * p \in Nat
  BY DEF Window, Core
<1>2. u \in Nat
  BY <1>1
<1>3. a < u * Half <=> CodeOf(b) < u * P2[Behind(b, t)]
  <2> HIDE DEF u
  <2>1. QED
    BY <1>2, Compare
<1>4. a \in Nat
  <2>1. Val(b)[p] \in Nat /\ P2[t + 30 - 8 * p] \in Nat
    BY <1>1, CodeNat, P2Pos
  <2> DEFINE f == Val(b)[p]
             g == P2[t + 30 - 8 * p]
  <2> HIDE DEF f, g
  <2>2. f \in Nat /\ g \in Nat
    BY <2>1 DEF f, g
  <2>3. f * g \in Nat
    BY <2>2
  <2>4. QED
    BY <2>3 DEF f, g
<1> HIDE DEF a
<1>5. u * Half = y * Half - v * Half
  BY <1>1, HalfOK
<1>6. h >= v <=> a < u * Half
  <2> DEFINE hh == h * Half
             yh == y * Half
             vh == v * Half
  <2>1. hh \in Int /\ yh \in Int /\ vh \in Int
    <3>1. h \in Int /\ y \in Nat
      BY <1>1
    <3>2. hh \in Int
      BY <3>1, HalfOK
    <3>3. yh \in Int
      BY <3>1, HalfOK
    <3>4. vh \in Int
      BY HalfOK
    <3>5. QED
      BY <3>2, <3>3, <3>4
  <2>2. h >= v => hh >= vh
    BY <1>1, HalfOK
  <2>3. ~(h >= v) => hh + Half <= vh
    <3>1. ASSUME ~(h >= v) PROVE hh + Half <= vh
      <4>0. h \in Int /\ h + 1 <= v /\ h + 1 \in Int
        <5>1. h \in Int
          BY <1>1
        <5>2. QED
          BY <3>1, <5>1
      <4>1. (h + 1) * Half <= v * Half
        BY <4>0, HalfLeq
      <4>2. (h + 1) * Half = hh + Half
        BY <4>0, HalfNext
      <4>3. QED
        BY <4>1, <4>2
    <3>2. QED
      BY <3>1
  <2>4. hh + l + 1 = yh - a /\ l \in Nat /\ l < Half /\ u * Half = yh - vh
    BY <1>1, <1>5
  <2> DEFINE uh == u * Half
  <2>7. uh = yh - vh /\ l \in Nat /\ l < Half /\ hh + l + 1 = yh - a
    BY <2>4
  <2> HIDE DEF hh, yh, vh, uh
  <2>5. a < uh <=> hh + l + 1 > vh
    BY <1>4, <2>1, <2>7
  <2>8. h >= v <=> hh + l + 1 > vh
    BY <2>1, <2>2, <2>3, <2>7, HalfOK
  <2>6. QED
    BY <2>5, <2>8 DEF uh
<1>7. QED
  BY <1>3, <1>6 DEF u

-----------------------------------------------------------------------------
(* od_ec_dec_normalize() shifts the window.                                *)

\* Distributivity.
LEMMA Distribute ==
  ASSUME NEW a \in Int, NEW b \in Int, NEW q \in Int
  PROVE  (a + b) * q = a * q + b * q /\ (a - b) * q = a * q - b * q
OBVIOUS

\* Commutativity.
LEMMA Swap ==
  ASSUME NEW a \in Int, NEW b \in Int, NEW c \in Int
  PROVE  (a * b) * c = (a * c) * b /\ (a * b) * c = a * (b * c) /\ a * b \in Int
OBVIOUS

\* The ones that are shifted in fit.
LEMMA ShiftLo ==
  ASSUME NEW l \in Nat, NEW q \in Nat, q > 0, NEW m \in Nat, Half = q * m,
         NEW i \in Nat, NEW j \in Nat, j < Half, l * q = i * Half + j
  PROVE  j + q <= Half
<1> DEFINE g == l - i * m
<1>1. i * m \in Nat
  OBVIOUS
<1>2. g \in Int
  BY <1>1
<1>3. g * q = j
  <2> DEFINE a == i * m
             c == i * Half
  <2>1. a \in Nat
    BY <1>1
  <2>2. a * q = c
    BY Swap
  <2>3. c \in Nat
    BY HalfOK
  <2>4. l * q = c + j
    OBVIOUS
  <2> HIDE DEF a, c
  <2>5. (l - a) * q = l * q - a * q
    BY <2>1, Distribute
  <2>6. (l - a) * q = j
    BY <2>2, <2>3, <2>4, <2>5
  <2>7. QED
    BY <2>6 DEF a
<1> HIDE DEF g
<1>4. g + 1 <= m
  <2>1. CASE g >= m
    <3>1. g \in Nat
      BY <1>2, <2>1
    <3>2. m * q <= g * q
      BY <2>1, <3>1
    <3>3. m * q = Half
      OBVIOUS
    <3>4. QED
      BY <1>3, <3>2, <3>3, HalfOK
  <2>2. QED
    BY <1>2, <2>1
<1>5. (g + 1) * q <= m * q
  <2> DEFINE x == m - (g + 1)
  <2>1. x \in Nat /\ m = (g + 1) + x
    BY <1>2, <1>4
  <2> HIDE DEF x
  <2> DEFINE y == g + 1
  <2>2. y \in Int
    BY <1>2
  <2> HIDE DEF y
  <2>3. m * q = y * q + x * q
    BY <2>1, <2>2, Distribute DEF y
  <2>4. x * q \in Nat /\ y * q \in Int
    BY <2>1, <2>2
  <2>5. y * q <= m * q
    BY <2>3, <2>4
  <2>6. QED
    BY <2>5 DEF y
<1>6. (g + 1) * q = j + q
  BY <1>2, <1>3, Distribute
<1>7. m * q = Half
  OBVIOUS
<1>8. QED
  BY <1>5, <1>6, <1>7

\* The window with d bits more used.
MoreUsed(b, h, l, p, y, t, d) ==
  Core(b, h * P2[d] + ((l * P2[d]) \div 65536), ((l * P2[d]) % 65536) + P2[d] - 1,
       p, y * P2[d], t + d)

\* od_ec_dec_normalize() shifts the window and what it stands for alike.
LEMMA ShiftCore ==
  ASSUME NEW b \in Seq(0..255), NEW h, NEW l, NEW p, NEW y, NEW t, Core(b, h, l, p, y, t),
         NEW d \in 0..15
  PROVE  MoreUsed(b, h, l, p, y, t, d)
<1> DEFINE e == t + 30 - 8 * p
           v == Val(b)[p]
           q == P2[d]
           m == P2[16 - d]
           f == P2[e]
           i == (l * q) \div Half
           j == (l * q) % Half
<1>1. /\ h \in Int /\ l \in Nat /\ l < Half /\ y \in Nat /\ e \in Nat /\ v \in Nat
      /\ p \in Nat /\ p <= Len(b) /\ t \in Nat /\ h * Half + l + 1 = y * Half - v * f
  BY CodeNat DEF Core
<1>2. d \in Nat /\ 16 - d \in Nat /\ d + (16 - d) = 16 /\ e + d = (t + d) + 30 - 8 * p
  BY <1>1
<1>3. q \in Nat /\ q > 0 /\ m \in Nat /\ f \in Nat
  BY <1>1, <1>2, P2Pos
<1>4. Half = q * m
  <2>1. P2[d + (16 - d)] = P2[d] * P2[16 - d]
    BY <1>2, P2Add
  <2>2. QED
    BY <1>2, <2>1, HalfOK
<1>5. P2[(t + d) + 30 - 8 * p] = f * q
  <2> HIDE DEF e
  <2>1. P2[e + d] = P2[e] * P2[d]
    BY <1>1, <1>2, P2Add
  <2>2. QED
    BY <1>2, <2>1
<1> HIDE DEF e, v, q, m, f
<1>6. i \in Nat /\ j \in Nat /\ j < Half /\ l * q = i * Half + j
  <2> DEFINE x == l * q
  <2>1. x \in Nat
    BY <1>1, <1>3
  <2> HIDE DEF x
  <2>2. x \div Half \in Nat /\ x % Half \in Nat /\ x % Half < Half /\ x = (x \div Half) * Half + (x % Half)
    BY <2>1, HalfOK, DivMod
  <2>3. QED
    BY <2>2 DEF x
<1> HIDE DEF i, j
<1>7. j + q <= Half
  BY <1>1, <1>3, <1>4, <1>6, ShiftLo
<1> DEFINE hh == h * Half
           yh == y * Half
           vf == v * f
           hq == h * q
           yq == y * q
           ih == i * Half
<1>8. /\ hh \in Int /\ yh \in Int /\ vf \in Int /\ hq \in Int /\ yq \in Nat /\ ih \in Int
      /\ hh * q = hq * Half /\ yh * q = yq * Half /\ vf * q = v * (f * q)
  <2>1. h \in Int /\ y \in Int /\ v \in Int /\ f \in Int /\ q \in Int /\ Half \in Int /\ i \in Int
    BY <1>1, <1>3, <1>6, HalfOK
  <2>2. hh \in Int /\ hh * q = hq * Half /\ hq \in Int
    BY <2>1, Swap
  <2>3. yh \in Int /\ yh * q = yq * Half
    BY <2>1, Swap
  <2>4. vf \in Int /\ vf * q = v * (f * q) /\ ih \in Int
    BY <2>1, Swap
  <2>5. yq \in Nat
    BY <1>1, <1>3
  <2>6. QED
    BY <2>2, <2>3, <2>4, <2>5
<1>9. hh + l + 1 = yh - vf /\ l * q = ih + j
  BY <1>1, <1>6
<1>10. Half \in Int /\ Half \in Nat
  BY HalfOK
<1> HIDE DEF hh, yh, vf, hq, yq, ih
<1>11. (hh + l + 1) * q = hh * q + l * q + q
  <2> DEFINE a == l + 1
  <2>1. a \in Int
    BY <1>1
  <2> HIDE DEF a
  <2>2. (hh + a) * q = hh * q + a * q
    BY <1>3, <1>8, <2>1, Distribute
  <2>3. (l + 1) * q = l * q + 1 * q
    BY <1>1, <1>3, Distribute
  <2>4. hh * q \in Int /\ l * q \in Int
    BY <1>1, <1>3, <1>8
  <2>5. hh + l + 1 = hh + a
    BY <1>1, <1>8 DEF a
  <2>6. a * q = l * q + q
    BY <1>3, <2>3 DEF a
  <2>7. QED
    BY <1>3, <2>2, <2>4, <2>5, <2>6
<1>12. (yh - vf) * q = yh * q - vf * q
  BY <1>3, <1>8, Distribute
<1>13. (hq + i) * Half = hq * Half + ih
  BY <1>6, <1>8, <1>10, Distribute DEF ih
<1>14. (hq + i) * Half + (j + q - 1) + 1 = yq * Half - v * (f * q)
  <2> DEFINE A == hh * q
             B == l * q
             C == yh * q
             D == vf * q
             E == (hq + i) * Half
             F == yq * Half
             G == v * (f * q)
  <2>1. A \in Int /\ B \in Int /\ C \in Int /\ D \in Int
    BY <1>1, <1>3, <1>8
  <2>2. A + B + q = C - D /\ B = ih + j
    BY <1>9, <1>11, <1>12
  <2>3. E = A + ih /\ F = C /\ G = D
    BY <1>8, <1>13
  <2> HIDE DEF A, B, C, D, E, F, G
  <2>4. E + (j + q - 1) + 1 = F - G
    BY <1>3, <1>6, <1>8, <2>1, <2>2, <2>3
  <2>5. QED
    BY <2>4 DEF E, F, G
<1> DEFINE nh == hq + i
           nl == j + q - 1
<1>15. nh \in Int /\ nl \in Nat /\ nl < Half
  BY <1>3, <1>6, <1>7, <1>8, <1>10
<1>16. nh * Half + nl + 1 = yq * Half - Val(b)[p] * P2[(t + d) + 30 - 8 * p]
  BY <1>5, <1>14 DEF v
<1> HIDE DEF nh, nl
<1>17. (t + d) + 30 - 8 * p \in Nat /\ t + d \in Nat
  BY <1>1, <1>2 DEF e
<1>18. Core(b, nh, nl, p, yq, t + d)
  BY <1>1, <1>8, <1>15, <1>16, <1>17 DEF Core
<1>19. /\ nh = h * P2[d] + ((l * P2[d]) \div 65536)
       /\ nl = ((l * P2[d]) % 65536) + P2[d] - 1
       /\ yq = y * P2[d]
  BY DEF nh, nl, hq, yq, i, j, q, Half
<1>20. QED
  BY <1>18, <1>19 DEF MoreUsed

\* Taking a part of the range takes it from the upper half.
LEMMA LessCore ==
  ASSUME NEW b \in Seq(0..255), NEW h, NEW l, NEW p, NEW y, NEW t,
         Core(b, h, l, p, y, t), NEW f \in Nat, f <= y
  PROVE  Core(b, h - f, l, p, y - f, t)
<1> DEFINE x == Val(b)[p] * P2[t + 30 - 8 * p]
<1>1. /\ h \in Int /\ l \in Nat /\ y \in Nat /\ h * Half + l + 1 = y * Half - x
  BY DEF Core
<1>0. h \in Int /\ y \in Int /\ f \in Int /\ Half \in Int
  BY <1>1, HalfOK
<1>2. (h - f) * Half = h * Half - f * Half /\ (y - f) * Half = y * Half - f * Half
  BY <1>0, Distribute
<1>3. h * Half \in Int /\ y * Half \in Int /\ f * Half \in Int
  BY <1>0, Swap
<1> DEFINE hh == h * Half
           yh == y * Half
           fh == f * Half
           nh == (h - f) * Half
           ny == (y - f) * Half
<1>4. /\ hh \in Int /\ yh \in Int /\ fh \in Int /\ hh + l + 1 = yh - x
      /\ nh = hh - fh /\ ny = yh - fh /\ l \in Nat
  BY <1>1, <1>2, <1>3
<1>5. nh + l + 1 = ny - x
  <2> DEFINE z == hh + l + 1
  <2>1. x = yh - z
    <3>1. yh - x = z
      BY <1>4
    <3>2. x \in Int
      <4>1. Val(b)[p] \in Nat /\ P2[t + 30 - 8 * p] \in Nat
        BY CodeNat, P2Pos DEF Core
      <4>2. QED
        BY <4>1, Swap
    <3> HIDE DEF x, z, yh
    <3>3. QED
      BY <1>4, <3>1, <3>2
  <2> HIDE DEF hh, yh, fh, nh, ny, x
  <2>2. QED
    BY <1>4, <2>1
<1>6. h - f \in Int /\ y - f \in Nat
  BY <1>1
<1>7. QED
  BY <1>5, <1>6 DEF Core

\* What od_ec_dec_normalize() makes of the window, and its od_ec_dec_refill().
LEMMA DecNormalizeOK ==
  ASSUME NEW b \in Seq(0..255), bytes' = b, NEW y, NEW t,
         Window(b, hi, lo, dcnt, pos, tellOffs, y, t), dcnt \in Nat,
         NEW f \in Nat, f <= y, NEW sz \in Sizes, DecNormalize(hi - f, sz)
  PROVE  LET d == Shift(sz)
         IN /\ drng' = sz * P2[d] /\ dcnt' \in Nat
            /\ Window(b, hi', lo', dcnt', pos', tellOffs', (y - f) * P2[d], t + d)
<1> DEFINE d == Shift(sz)
           q == P2[d]
           h == hi - f
           nh == h * q + ((lo * q) \div 65536)
           nl == ((lo * q) % 65536) + q - 1
           c == dcnt - d
           w == [hi |-> h * 2 ^ d + (lo * 2 ^ d) \div 65536,
                 lo |-> ((lo * 2 ^ d) % 65536) + 2 ^ d - 1,
                 cnt |-> dcnt - d, pos |-> pos, tellOffs |-> tellOffs]
<1>1. d \in 0..15 /\ d \in Nat
  BY ILogOK
<1>2. /\ drng' = sz * 2 ^ d
      /\ IF w.cnt < 0 THEN Refill(w)
         ELSE /\ hi' = w.hi /\ lo' = w.lo /\ dcnt' = w.cnt
              /\ UNCHANGED <<pos, tellOffs>>
  BY DEF DecNormalize, Shift
<1> HIDE DEF d
<1>3. 2 ^ d = q
  <2>1. d \in 0..23
    BY <1>1
  <2>2. QED
    BY <2>1, Pow
<1>4. IsWindow(w, nh, nl, c, pos, tellOffs)
  BY <1>3 DEF IsWindow
<1>5. /\ w.hi = nh /\ w.lo = nl /\ w.cnt = c
  BY <1>4 DEF IsWindow
<1> HIDE DEF w
<1>6. /\ Core(b, hi, lo, pos, y, t) /\ tellOffs \in Int /\ 8 * pos - dcnt + tellOffs = t
      /\ (pos < Len(b) => tellOffs = -14) /\ pos \in Nat
  BY DEF Window, Core
<1>7. Core(b, h, lo, pos, y - f, t)
  BY <1>6, LessCore
<1> HIDE DEF h
<1>8. Core(b, nh, nl, pos, (y - f) * q, t + d)
  <2> DEFINE z == y - f
  <2>1. Core(b, h, lo, pos, z, t)
    BY <1>7
  <2> HIDE DEF z
  <2>2. MoreUsed(b, h, lo, pos, z, t, d)
    BY <1>1, <2>1, ShiftCore
  <2>3. QED
    BY <2>2 DEF MoreUsed, z
<1> HIDE DEF nh, nl
<1>9. c \in Int /\ c >= -15 /\ 8 * pos - c + tellOffs = t + d
  BY <1>1, <1>6
<1> DEFINE yq == (y - f) * q
           td == t + d
<1>10. Window(b, nh, nl, c, pos, tellOffs, yq, td)
  BY <1>6, <1>8, <1>9 DEF Window
<1> HIDE DEF c, yq, td
<1>11. Window(b, hi', lo', dcnt', pos', tellOffs', yq, td) /\ dcnt' \in Nat
  <2>1. CASE c < 0
    <3>1. c \in -15..-1
      BY <1>9, <2>1
    <3>2. Refill(w)
      BY <1>2, <1>5, <2>1
    <3>3. QED
      BY <1>4, <1>10, <3>1, <3>2, RefillOK
  <2>2. CASE ~(c < 0)
    <3>1. /\ hi' = nh /\ lo' = nl /\ dcnt' = c /\ pos' = pos /\ tellOffs' = tellOffs
      BY <1>2, <1>5, <2>2
    <3>2. c \in Nat
      BY <1>9, <2>2
    <3>3. QED
      BY <1>10, <3>1, <3>2
  <2>3. QED
    BY <2>1, <2>2
<1>12. drng' = sz * P2[d]
  BY <1>2, <1>3
<1>13. QED
  BY <1>11, <1>12 DEF yq, td, d

-----------------------------------------------------------------------------
(* What is decoded.                                                        *)

Below(v, u, x) == v < u * P2[x]

\* A number in the part of y is compared as the part's ends are.
LEMMA PartOf ==
  ASSUME NEW v \in Nat, NEW x \in Nat, NEW l \in Nat, NEW r \in Ranges, NEW y \in Symbols,
         Inside(v, l, r, x), InPart(v, l, r, x, y), NEW a \in Nat, a <= l + r
  PROVE  LET less == Below(v, l + r - a, x)
         IN /\ a <= From(r, y) => less
            /\ a >= To(r, y) => ~less
<1> DEFINE p == P2[x]
           f == From(r, y)
           t == To(r, y)
<1>1. p \in Nat /\ p > 0
  BY P2Pos
<1>2. f \in Nat /\ t \in Nat /\ t <= r /\ f < t /\ r \in Nat
  BY SubOK DEF Ranges
<1>3. (l + r - t) * p <= v /\ v < (l + r - f) * p
  BY DEF InPart
<1> DEFINE u == l + r - t
           w == l + r - f
           z == l + r - a
<1>4. u \in Nat /\ w \in Nat /\ z \in Nat
  BY <1>2
<1>5. (a <= f => w <= z) /\ (a >= t => z <= u)
  BY <1>2
<1>6. u * p <= v /\ v < w * p
  BY <1>3
<1> HIDE DEF p, f, t, u, w, z
<1>7. u * p \in Nat /\ w * p \in Nat /\ z * p \in Nat
  BY <1>1, <1>4
<1>8. ASSUME a <= f PROVE v < z * p
  <2>1. w * p <= z * p
    BY <1>1, <1>4, <1>5, <1>8
  <2>2. QED
    BY <1>6, <1>7, <2>1
<1>9. ASSUME a >= t PROVE ~(v < z * p)
  <2>1. z * p <= u * p
    BY <1>1, <1>4, <1>5, <1>9
  <2>2. QED
    BY <1>6, <1>7, <2>1
<1>10. QED
  BY <1>8, <1>9 DEF Below, z, p, f, t

\* The upper half of the window is in the part of y.
LEMMA HighPart ==
  ASSUME NEW b \in Seq(0..255), NEW h, NEW w, NEW c \in Nat, NEW p, NEW o, NEW t,
         NEW l \in Nat, NEW r \in Ranges, NEW y \in Symbols,
         Window(b, h, w, c, p, o, l + r, t),
         Inside(CodeOf(b), l, r, Behind(b, t)),
         InPart(CodeOf(b), l, r, Behind(b, t), y)
  PROVE  /\ h \in Int /\ 0 <= h /\ h < r
         /\ \A a \in Nat : a <= From(r, y) => h >= a
         /\ \A a \in Nat : To(r, y) <= a /\ a <= r => h < a
<1> DEFINE v == CodeOf(b)
           x == Behind(b, t)
           f == From(r, y)
           g == To(r, y)
<1>1. v \in Nat /\ x \in Nat
  BY CodeNat DEF Inside
<1>2. f \in Nat /\ g \in Nat /\ f < g /\ g <= r /\ r \in Nat
  BY SubOK DEF Ranges
<1>3. h \in Int
  BY DEF Window, Core
<1>4. ASSUME NEW a \in Nat, a <= l + r
      PROVE  /\ a <= f => h >= a
             /\ a >= g => h < a
  <2> DEFINE less == Below(v, l + r - a, x)
  <2>1. (a <= f => less) /\ (a >= g => ~less)
    <3> HIDE DEF v, x
    <3>1. QED
      BY <1>1, <1>4, PartOf DEF v, x
  <2>2. h >= a <=> less
    <3> DEFINE s == l + r
    <3>1. Window(b, h, w, c, p, o, s, t) /\ a <= s
      BY <1>4
    <3> HIDE DEF s, v
    <3>2. h >= a <=> Below(CodeOf(b), s - a, Behind(b, t))
      BY <1>1, <3>1, Decide DEF Below
    <3>3. s - a = l + r - a
      BY <1>2 DEF s
    <3>4. Below(CodeOf(b), s - a, Behind(b, t)) = less
      BY <3>3 DEF v
    <3>5. QED
      BY <3>2, <3>4
  <2> HIDE DEF less
  <2>3. QED
    BY <1>3, <2>1, <2>2
<1> HIDE DEF v, x, f, g
<1>5. ASSUME NEW a \in Nat, a <= f PROVE h >= a
  BY <1>2, <1>4, <1>5
<1>6. ASSUME NEW a \in Nat, g <= a, a <= r PROVE h < a
  BY <1>2, <1>4, <1>6
<1>7. 0 <= h
  BY <1>2, <1>3, <1>5
<1>8. h < r
  BY <1>2, <1>6
<1>9. QED
  BY <1>3, <1>5, <1>6, <1>7, <1>8 DEF f, g

\* A table does not increase.
LEMMA TableLeq ==
  ASSUME NEW t \in Tables, NEW i \in 1..Len(t), NEW j \in 1..Len(t), i <= j
  PROVE  t[j] <= t[i]
<1> DEFINE S == {k \in Nat : i + k <= Len(t) => t[i + k] <= t[i]}
<1>1. /\ Len(t) \in 2..16 /\ \A k \in 1..Len(t) : t[k] \in Nat
      /\ \A k \in 1..Len(t) - 1 : t[k + 1] <= t[k]
  BY TableOK
<1>2. i \in Nat /\ i >= 1 /\ j \in Nat /\ Len(t) \in Nat /\ t[i] \in Nat
  BY <1>1
<1>3. 0 \in S
  <2>1. i + 0 = i
    BY <1>2
  <2>2. QED
    BY <1>2, <2>1
<1>4. ASSUME NEW k \in Nat, k \in S PROVE k + 1 \in S
  <2>1. CASE i + (k + 1) <= Len(t)
    <3> DEFINE m == i + k
    <3>1. m \in 1..Len(t) - 1 /\ m \in 1..Len(t) /\ m + 1 \in 1..Len(t) /\ m + 1 = i + (k + 1)
          /\ m <= Len(t)
      BY <1>2, <2>1
    <3>2. t[m] <= t[i]
      BY <1>4, <3>1
    <3> HIDE DEF m
    <3>3. t[m + 1] <= t[m] /\ t[m + 1] \in Nat /\ t[m] \in Nat
      BY <1>1, <3>1
    <3>4. t[i + (k + 1)] <= t[i]
      BY <1>2, <3>1, <3>2, <3>3
    <3>5. QED
      BY <3>4
  <2>2. QED
    BY <2>1
<1> HIDE DEF S
<1>5. Nat \subseteq S
  BY <1>3, <1>4, Induct
<1> DEFINE d == j - i
<1>6. d \in Nat /\ i + d = j /\ j <= Len(t)
  BY <1>2
<1> HIDE DEF d
<1>7. t[i + d] <= t[i]
  BY <1>5, <1>6 DEF S
<1>8. QED
  BY <1>6, <1>7

\* The part of y lies between From and To.
Found(r, h, y) ==
  /\ h \in Int /\ 0 <= h /\ h < r
  /\ \A a \in Nat : a <= From(r, y) => h >= a
  /\ \A a \in Nat : To(r, y) <= a /\ a <= r => h < a

\* od_ec_decode_bool_q15() finds the value that was encoded.
LEMMA FoundBool ==
  ASSUME drng \in Ranges, NEW y \in Symbols, y.kind = "bool", Found(drng, hi, y),
         DecodeBool(y.prob)
  PROVE  DecNormalize(hi - From(drng, y), To(drng, y) - From(drng, y))
         /\ read' = Append(read, y.value)
<1> DEFINE v == Scale(drng, y.prob, 1)
<1>1. drng \in Nat /\ hi \in Int
  BY DEF Ranges, Found
<1>2. /\ From(drng, y) \in Nat /\ To(drng, y) \in Nat /\ To(drng, y) <= drng
  BY SubOK
<1>3. y.value \in {0, 1}
  BY SymbolKinds
<1>4. IF hi >= v THEN DecNormalize(hi - v, drng - v) /\ read' = Append(read, 0)
      ELSE DecNormalize(hi, v) /\ read' = Append(read, 1)
  BY DEF DecodeBool
<1>5. hi >= From(drng, y) /\ hi < To(drng, y)
  <2>1. From(drng, y) <= From(drng, y) /\ To(drng, y) <= To(drng, y)
    BY <1>2
  <2>2. QED
    BY <1>2, <2>1 DEF Found
<1>6. CASE y.value = 1
  <2>1. From(drng, y) = 0 /\ To(drng, y) = v
    BY <1>6 DEF From, To
  <2> HIDE DEF v
  <2>2. ~(hi >= v) /\ hi - 0 = hi /\ v - 0 = v
    BY <1>1, <1>2, <1>5, <2>1
  <2>3. QED
    BY <1>4, <1>6, <2>1, <2>2
<1>7. CASE y.value = 0
  <2>1. From(drng, y) = v /\ To(drng, y) = drng
    BY <1>7 DEF From, To
  <2> HIDE DEF v
  <2>2. hi >= v
    BY <1>5, <2>1
  <2>3. QED
    BY <1>4, <1>7, <2>1, <2>2
<1>8. QED
  BY <1>3, <1>6, <1>7

\* The ends of the parts of a table.
Ends(r, t) ==
  [i \in -1..Len(t) - 1 |-> IF i = -1 THEN r ELSE Scale(r, t[i + 1], (Len(t) - 1) - i)]

Choice(h, v, n) == CHOOSE i \in 0..n : h >= v[i] /\ \A j \in 0..i - 1 : h < v[j]

\* The first part from the top that the window is in.
LEMMA ChoiceIs ==
  ASSUME NEW h, NEW v, NEW n \in Nat, NEW s \in 0..n,
         \A i \in 0..n : h >= v[i] <=> ~(h < v[i]),
         h >= v[s], \A j \in 0..s - 1 : h < v[j]
  PROVE  Choice(h, v, n) = s
<1> DEFINE P(i) == h >= v[i] /\ \A j \in 0..i - 1 : h < v[j]
           c == Choice(h, v, n)
<1>1. \E i \in 0..n : P(i)
  OBVIOUS
<1>2. c \in 0..n /\ h >= v[c] /\ \A j \in 0..c - 1 : h < v[j]
  BY <1>1 DEF Choice
<1> HIDE DEF c
<1>3. ~(c < s)
  <2>1. ASSUME c < s PROVE FALSE
    <3>1. c \in 0..s - 1
      BY <1>2, <2>1
    <3>2. h < v[c]
      BY <3>1
    <3>3. QED
      BY <1>2, <3>2
  <2>2. QED
    BY <2>1
<1>4. ~(s < c)
  <2>1. ASSUME s < c PROVE FALSE
    <3>1. s \in 0..c - 1
      BY <1>2, <2>1
    <3>2. h < v[s]
      BY <1>2, <3>1
    <3>3. QED
      BY <3>2
  <2>2. QED
    BY <2>1
<1>5. c = s
  BY <1>2, <1>3, <1>4
<1>6. QED
  BY <1>5 DEF c

\* od_ec_decode_cdf_q15() finds the value that was encoded.
LEMMA FoundCdf ==
  ASSUME drng \in Ranges, NEW y \in Symbols, y.kind # "bool", Found(drng, hi, y),
         DecodeCdf(y.prob)
  PROVE  DecNormalize(hi - From(drng, y), To(drng, y) - From(drng, y))
         /\ read' = Append(read, y.value)
<1> DEFINE t == y.prob
           s == y.value
           n == Len(t) - 1
           v == Ends(drng, t)
           c == Choice(hi, v, n)
           f == From(drng, y)
           g == To(drng, y)
<1>1. DecNormalize(hi - v[c], v[c - 1] - v[c]) /\ read' = Append(read, c)
  BY DEF DecodeCdf, Ends, Choice
<1>2. t \in Tables /\ s \in 0..n
  BY SymbolKinds
<1>3. drng \in Nat /\ hi \in Int
  BY DEF Ranges, Found
<1>4. f \in Nat /\ g \in Nat /\ g <= drng
  BY SubOK
<1>5. hi >= f
  <2>1. f <= f
    BY <1>4
  <2>2. QED
    BY <1>4, <2>1 DEF Found
<1>6. /\ Len(t) \in 2..16
      /\ \A i \in 1..Len(t) : t[i] \in Nat /\ t[i] < 32768
  <2> HIDE DEF t
  <2>1. QED
    BY <1>2, TableOK
<1>7. n \in 1..15 /\ Len(t) = n + 1 /\ n \in Nat
  <2> HIDE DEF t
  <2> DEFINE m == Len(t)
  <2>1. m \in 2..16
    BY <1>6
  <2> HIDE DEF m
  <2>2. m - 1 \in 1..15 /\ m = (m - 1) + 1 /\ m - 1 \in Nat
    BY <2>1
  <2>3. QED
    BY <2>2 DEF m
<1>8. ASSUME NEW i \in 0..n
      PROVE  v[i] = Scale(drng, t[i + 1], n - i)
  <2>1. i \in -1..Len(t) - 1 /\ i # -1
    BY <1>7, <1>8
  <2>2. QED
    BY <2>1 DEF Ends
<1>9. v[-1] = drng
  <2>1. -1 \in -1..Len(t) - 1
    BY <1>7
  <2>2. QED
    BY <2>1 DEF Ends
<1>10. f = v[s]
  <2>1. f = Scale(drng, t[s + 1], n - s)
    BY DEF From
  <2>2. QED
    BY <1>2, <1>8, <2>1
<1>11. g = v[s - 1]
  <2>1. CASE s = 0
    <3>1. g = drng /\ s - 1 = -1
      BY <2>1 DEF To
    <3>2. QED
      BY <1>9, <3>1
  <2>2. CASE s # 0
    <3>1. g = Scale(drng, t[s], n - (s - 1))
      BY <2>2 DEF To
    <3> HIDE DEF n, v, g, s
    <3>2. s - 1 \in 0..n /\ (s - 1) + 1 = s
      BY <1>2, <1>7, <2>2
    <3>3. v[s - 1] = Scale(drng, t[(s - 1) + 1], n - (s - 1))
      BY <1>8, <3>2
    <3>4. QED
      BY <3>1, <3>2, <3>3
  <2>3. QED
    BY <2>1, <2>2
<1> HIDE DEF t, s, n, v, c, f, g
<1>12. ASSUME NEW i \in 0..n
       PROVE  v[i] \in Nat /\ v[i] < drng
  <2> DEFINE u == t[i + 1]
             m == n - i
  <2>1. u \in Nat /\ u < 32768 /\ m \in 0..15 /\ m \in Nat /\ m <= m /\ u <= u
    <3>1. i + 1 \in 1..Len(t)
      BY <1>7
    <3>2. u \in Nat /\ u < 32768
      BY <1>6, <3>1
    <3>3. m \in 0..15
      BY <1>7
    <3> HIDE DEF u, m
    <3>4. QED
      BY <3>2, <3>3
  <2>2. v[i] = Scale(drng, u, m)
    BY <1>8
  <2> HIDE DEF u, m
  <2>3. Scale(drng, u, m) \in Nat
    BY <2>1, ScaleMono
  <2>4. Scale(drng, u, m) < drng
    BY <2>1, ScaleBound
  <2>5. QED
    BY <2>2, <2>3, <2>4
<1>13. \A i \in 0..n : hi >= v[i] <=> ~(hi < v[i])
  BY <1>3, <1>12
<1>14. ASSUME NEW j \in 0..s - 1 PROVE hi < v[j]
  <2> DEFINE k == s - 1
             u == t[k + 1]
             w == t[j + 1]
             m == n - k
             p == n - j
  <2>1. k \in 0..n /\ j \in 0..n /\ j <= k /\ k + 1 \in 1..Len(t) /\ j + 1 \in 1..Len(t)
        /\ j + 1 <= k + 1 /\ m \in Nat /\ p \in Nat /\ m <= p
    BY <1>2, <1>7, <1>14
  <2>2. u <= w
    <3> HIDE DEF k
    <3>1. QED
      BY <1>2, <2>1, TableLeq
  <2>3. u \in Nat /\ w \in Nat
    <3> HIDE DEF k
    <3>1. QED
      BY <1>6, <2>1
  <2>4. v[k] = Scale(drng, u, m) /\ v[j] = Scale(drng, w, p)
    <3> HIDE DEF k
    <3>1. QED
      BY <1>8, <2>1
  <2>5. g = v[k]
    BY <1>11
  <2> HIDE DEF k, u, w, m, p
  <2>6. Scale(drng, u, m) + 4 * (p - m) <= Scale(drng, w, p)
    BY <2>1, <2>2, <2>3, ScaleMono
  <2>7. v[k] \in Nat /\ v[j] \in Nat /\ v[j] < drng
    BY <1>12, <2>1
  <2>8. g <= v[j] /\ v[j] <= drng
    BY <1>3, <2>1, <2>4, <2>5, <2>6, <2>7
  <2>9. QED
    BY <2>7, <2>8 DEF Found, g
<1>15. hi >= v[s]
  BY <1>5, <1>10
<1>16. c = s
  <2>1. Choice(hi, v, n) = s
    BY <1>2, <1>7, <1>13, <1>14, <1>15, ChoiceIs
  <2>2. QED
    BY <2>1 DEF c
<1>17. QED
  BY <1>1, <1>10, <1>11, <1>16 DEF f, g, s

\* A symbol is decoded as it was encoded, and the window follows it.
LEMMA DecodeLink ==
  ASSUME NEW b \in Seq(0..255), bytes' = b, NEW l \in Nat, drng \in Ranges,
         NEW y \in Symbols, NEW t \in Nat,
         Window(b, hi, lo, dcnt, pos, tellOffs, l + drng, t), dcnt \in Nat,
         Inside(CodeOf(b), l, drng, Behind(b, t)),
         InPart(CodeOf(b), l, drng, Behind(b, t), y),
         NEW l2, NEW r2, NEW t2, Link(y, l, drng, t, l2, r2, t2),
         IF y.kind = "bool" THEN DecodeBool(y.prob) ELSE DecodeCdf(y.prob)
  PROVE  /\ drng' = r2 /\ dcnt' \in Nat /\ read' = Append(read, y.value)
         /\ Window(b, hi', lo', dcnt', pos', tellOffs', l2 + r2, t2)
<1> DEFINE f == From(drng, y)
           g == To(drng, y)
           sz == g - f
           d == Shift(sz)
           p == P2[d]
           s == l + drng
<1>1. Found(drng, hi, y)
  BY HighPart DEF Found
<1>2. DecNormalize(hi - f, sz) /\ read' = Append(read, y.value)
  <2>1. CASE y.kind = "bool"
    BY <1>1, <2>1, FoundBool
  <2>2. CASE y.kind # "bool"
    BY <1>1, <2>2, FoundCdf
  <2>3. QED
    BY <2>1, <2>2
<1>3. f \in Nat /\ g \in Nat /\ f < g /\ g <= drng
  BY SubOK
<1>4. sz \in Sizes /\ d \in Nat /\ p \in Nat /\ l + drng - g \in Nat
  BY LinkOK
<1>5. r2 = sz * p /\ l2 = (l + drng - g) * p /\ t2 = t + d
  BY DEF Link
<1>6. drng \in Nat
  BY DEF Ranges
<1> HIDE DEF f, g, d
<1>7. s \in Nat /\ f <= s
  BY <1>3, <1>6
<1>8. /\ drng' = sz * p /\ dcnt' \in Nat
      /\ Window(b, hi', lo', dcnt', pos', tellOffs', (s - f) * p, t + d)
  <2>1. Window(b, hi, lo, dcnt, pos, tellOffs, s, t)
    OBVIOUS
  <2> HIDE DEF s, sz
  <2>2. LET e == Shift(sz)
        IN /\ drng' = sz * P2[e] /\ dcnt' \in Nat
           /\ Window(b, hi', lo', dcnt', pos', tellOffs', (s - f) * P2[e], t + e)
    BY <1>2, <1>3, <1>4, <1>7, <2>1, DecNormalizeOK
  <2>3. QED
    BY <2>2 DEF d
<1>9. (s - f) * p = l2 + r2
  <2> DEFINE u == l + drng - g
  <2>1. u \in Int /\ sz \in Int /\ u + sz = s - f
    BY <1>3, <1>6
  <2>2. (u + sz) * p = u * p + sz * p
    <3> HIDE DEF u, sz, p
    <3>1. p \in Int
      BY <1>4
    <3>2. QED
      BY <2>1, <3>1, Distribute
  <2> HIDE DEF s, sz, p
  <2>3. QED
    BY <1>5, <2>1, <2>2
<1>10. QED
  BY <1>2, <1>5, <1>8, <1>9

-----------------------------------------------------------------------------
(* The invariant.                                                          *)

\* The decoder has read a part of the message, and its window says what is left.
Reading(L, R) ==
  LET k == Len(read) IN
  /\ read \in Seq(Nat) /\ k <= Len(message) /\ drng = R[k] /\ dcnt \in Nat
  /\ Window(bytes, hi, lo, dcnt, pos, tellOffs, L[k] + R[k], tells[k + 1])
  /\ \A i \in 1..k : read[i] = message[i].value

Coded(L, R) ==
  /\ Chain(message, tells, L, R) /\ Enc(L, R)
  /\ phase = "decode" => Code(bytes, message, tells, L, R) /\ Reading(L, R)

CoderInv ==
  /\ phase \in {"encode", "decode"}
  /\ phase = "encode" => read = <<>>
  /\ \E L, R : Coded(L, R)

\* The invariant holds at first.
LEMMA InitCoded == Init => CoderInv
<1> SUFFICES ASSUME Init PROVE CoderInv
  OBVIOUS
<1> DEFINE c == 32768
           L == [k \in Nat |-> 0]
           R == [k \in Nat |-> c]
<1>1. /\ phase = "encode" /\ message = <<>> /\ low = 0 /\ rng = c /\ cnt = -9
      /\ precarry = <<>> /\ read = <<>> /\ tells = <<1>>
  BY DEF Init
<1>2. c \in Ranges /\ c \in Nat
  BY DEF Ranges
<1>3. P2[1 + 14] = c
  <2>1. 1 + 14 = 15
    OBVIOUS
  <2>2. QED
    BY <2>1, P2Vals
<1> HIDE DEF c
<1>4. Len(message) = 0 /\ Len(tells) = 1 /\ tells[1] = 1 /\ tells \in Seq(Nat)
      /\ message \in Seq(Symbols) /\ precarry \in Seq(Nat)
  BY <1>1
<1>5. L \in [Nat -> Nat] /\ R \in [Nat -> Ranges] /\ L[0] = 0 /\ R[0] = c
  BY <1>2
<1> HIDE DEF L, R
<1>6. Chain(message, tells, L, R)
  <2>1. ChainTypes(message, tells, L, R)
    BY <1>4, <1>5 DEF ChainTypes
  <2>2. \A k \in Nat : k < Len(message) => Linked(message, tells, L, R, k)
    BY <1>4
  <2>3. \A k \in Nat : k <= Len(message) => L[k] + R[k] <= P2[tells[k + 1] + 14]
    <3>1. L[0] + R[0] <= P2[tells[0 + 1] + 14]
      <4>1. L[0] + R[0] = c /\ tells[0 + 1] = 1 /\ c <= c
        BY <1>2, <1>4, <1>5
      <4>2. QED
        BY <1>3, <4>1
    <3>2. QED
      BY <1>4, <3>1
  <2>4. QED
    BY <1>4, <1>5, <2>1, <2>2, <2>3 DEF Chain, c
<1>7. Enc(L, R)
  <2>1. tells[Len(message) + 1] = EncTell
    BY <1>1, <1>4 DEF EncTell
  <2>2. Bottom(precarry, cnt, low) = L[Len(message)]
    <3>1. Val(precarry)[0] = 0
      BY <1>4, ValDef
    <3>2. Whole(precarry) = 0
      <4>1. Len(precarry) = 0
        BY <1>1
      <4>2. QED
        BY <3>1, <4>1 DEF Whole
    <3>3. P2[cnt + 24] \in Nat
      <4>1. cnt + 24 \in Nat
        BY <1>1
      <4>2. QED
        BY <4>1, P2Pos
    <3>4. QED
      BY <1>1, <1>4, <1>5, <3>2, <3>3 DEF Bottom
  <2>3. QED
    BY <1>1, <1>4, <1>5, <2>1, <2>2 DEF Enc
<1>8. QED
  BY <1>1, <1>6, <1>7 DEF CoderInv, Coded

\* Encoding keeps it.
LEMMA EncodeCoded ==
  ASSUME CoderInv, NEW y \in Symbols, Encode(y)
  PROVE  CoderInv'
<1>1. Written
  BY DEF CoderInv, Coded, Written
<1>2. Written'
  BY <1>1, EncodeKeeps
<1>3. phase = "encode" /\ phase' = phase /\ read' = read
  BY DEF Encode, decVars
<1>4. \E L, R : (Chain(message, tells, L, R) /\ Enc(L, R))'
  BY <1>2 DEF Written
<1>5. phase' # "decode"
  BY <1>3
<1>6. PICK L, R : Chain(message, tells, L, R)' /\ Enc(L, R)'
  BY <1>4
<1>7. Coded(L, R)'
  BY <1>5, <1>6 DEF Coded
<1>8. QED
  BY <1>3, <1>7 DEF CoderInv

\* The window that od_ec_dec_init() starts from.
LEMMA FirstWindow ==
  ASSUME NEW b \in Seq(0..255)
  PROVE  Window(b, 32767, 65535, -15, 0, -14, 32768, 1)
<1> DEFINE h == 32767
           l == 65535
           y == 32768
           e == 1 + 30 - 8 * 0
<1>1. h \in Int /\ l \in Nat /\ y \in Nat /\ y = h + 1 /\ l + 1 = Half /\ l < Half
  BY DEF Half
<1>2. e = 31 /\ e \in Nat
  OBVIOUS
<1>3. Len(b) \in Nat /\ 0 <= Len(b)
  BY CodeNat
<1>4. Val(b)[0] = 0
  <2>1. b \in Seq(Nat)
    <3>1. 0..255 \subseteq Nat
      OBVIOUS
    <3>2. QED
      BY <3>1, SeqMonotonic
  <2>2. QED
    BY <2>1, ValDef
<1> HIDE DEF h, l, y
<1>5. P2[e] \in Nat
  BY <1>2, P2Pos
<1> HIDE DEF e
<1>6. y * Half = h * Half + Half /\ h * Half \in Int
  <2>1. (h + 1) * Half = h * Half + Half
    BY <1>1, HalfNext
  <2>2. QED
    BY <1>1, <2>1, HalfOK, Swap
<1>7. h * Half + l + 1 = y * Half - Val(b)[0] * P2[e]
  <2>1. 0 * P2[e] = 0
    BY <1>5
  <2> DEFINE hh == h * Half
             yh == y * Half
  <2>2. yh = hh + Half /\ hh \in Int
    BY <1>6
  <2> HIDE DEF hh, yh
  <2>3. hh + l + 1 = yh - 0
    BY <1>1, <2>2, HalfOK
  <2>4. QED
    BY <1>4, <2>1, <2>3 DEF hh, yh
<1>8. Core(b, h, l, 0, y, 1)
  BY <1>1, <1>2, <1>3, <1>7 DEF Core, e
<1>9. Window(b, h, l, -15, 0, -14, y, 1)
  BY <1>8 DEF Window
<1>10. QED
  BY <1>9 DEF h, l, y

\* od_ec_enc_done() and od_ec_dec_init() establish what it says of the decoder.
LEMMA DoneCoded ==
  ASSUME CoderInv, NEW z, Zeros(z), Done(z)
  PROVE  CoderInv'
<1>1. PICK L, R : Coded(L, R)
  BY DEF CoderInv
<1>2. Chain(message, tells, L, R) /\ Enc(L, R)
  BY <1>1 DEF Coded
<1>3. PICK b : b = AddCarries(precarry \o LastBytes(FinalLow, cnt + 10)) \o z
  OBVIOUS
<1>4. Code(b, message, tells, L, R)
  BY <1>2, <1>3, DoneCode
<1>5. b \in Seq(0..255)
  BY <1>4 DEF Code
<1> DEFINE w == [hi |-> 32767, lo |-> 65535, cnt |-> -15, pos |-> 0,
                 tellOffs |-> 10 - (WindowSize - 8)]
<1>6. /\ phase = "encode" /\ phase' = "decode" /\ bytes' = b /\ drng' = 32768 /\ Refill(w)
      /\ UNCHANGED <<encVars, read>>
  BY <1>3 DEF Done
<1>7. /\ UNCHANGED <<message, tells, low, rng, cnt, precarry>>
      /\ read' = <<>>
  BY <1>6 DEF encVars, CoderInv
<1>8. Window(b, hi', lo', dcnt', pos', tellOffs', 32768, 1) /\ dcnt' \in Nat
  <2> DEFINE h == 32767
             l == 65535
             y == 32768
  <2>1. IsWindow(w, h, l, -15, 0, -14)
    BY DEF IsWindow, WindowSize
  <2>2. Window(b, h, l, -15, 0, -14, y, 1)
    BY <1>5, FirstWindow
  <2> HIDE DEF w, h, l, y
  <2>3. -15 \in -15..-1
    OBVIOUS
  <2>4. Window(b, hi', lo', dcnt', pos', tellOffs', y, 1) /\ dcnt' \in Nat
    BY <1>5, <1>6, <2>1, <2>2, <2>3, RefillOK
  <2>5. QED
    BY <2>4 DEF y
<1> HIDE DEF w
<1> DEFINE c == 32768
<1>9. L[0] = 0 /\ R[0] = c /\ tells[1] = 1
  BY <1>2 DEF Chain
<1>10. c \in Nat /\ drng' = c /\ Window(b, hi', lo', dcnt', pos', tellOffs', c, 1)
  BY <1>6, <1>8
<1> HIDE DEF c
<1>11. L[0] + R[0] = c /\ 0 + 1 = 1
  BY <1>9, <1>10
<1>12. Window(b, hi', lo', dcnt', pos', tellOffs', L[0] + R[0], tells[0 + 1])
  BY <1>9, <1>10, <1>11
<1>13. Len(read') = 0 /\ read' \in Seq(Nat)
  BY <1>7
<1>14. Len(message) \in Nat
  BY <1>2, ChainParts
<1>15. Reading(L, R)'
  <2>1. tells' = tells /\ message' = message /\ bytes' = b
    BY <1>6, <1>7
  <2>2. 0 <= Len(message') /\ \A i \in 1..0 : read'[i] = message'[i].value
    BY <1>14, <2>1
  <2>3. QED
    BY <1>8, <1>9, <1>10, <1>12, <1>13, <2>1, <2>2 DEF Reading
<1>16. Enc(L, R)'
  BY <1>2, <1>7 DEF Enc, EncTell
<1>17. Coded(L, R)'
  BY <1>2, <1>4, <1>6, <1>7, <1>15, <1>16 DEF Coded
<1>18. QED
  BY <1>6, <1>17 DEF CoderInv

\* What the code says of the next symbol.
LEMMA NextSymbol ==
  ASSUME NEW m, NEW ts, NEW L, NEW R, Chain(m, ts, L, R), NEW b, Code(b, m, ts, L, R),
         NEW k \in Nat, k < Len(m)
  PROVE  /\ L[k] \in Nat /\ R[k] \in Ranges /\ m[k + 1] \in Symbols /\ ts[k + 1] \in Nat
         /\ Inside(CodeOf(b), L[k], R[k], Behind(b, ts[k + 1]))
         /\ InPart(CodeOf(b), L[k], R[k], Behind(b, ts[k + 1]), m[k + 1])
         /\ Link(m[k + 1], L[k], R[k], ts[k + 1], L[k + 1], R[k + 1], ts[k + 2])
<1>1. /\ L \in [Nat -> Nat] /\ R \in [Nat -> Ranges] /\ Len(m) \in Nat
      /\ \A i \in Nat : i <= Len(m) => ts[i + 1] \in Nat
      /\ m[k + 1] \in Symbols
  BY ChainParts
<1>2. k <= Len(m)
  BY <1>1
<1>3. CodeIn(b, ts, L, R, k) /\ SymIn(b, m, ts, L, R, k)
  BY <1>2 DEF Code
<1>4. Linked(m, ts, L, R, k)
  BY DEF Chain
<1>5. QED
  BY <1>1, <1>2, <1>3, <1>4 DEF CodeIn, SymIn, Linked

\* Values are natural numbers.
LEMMA SymbolValue == ASSUME NEW y \in Symbols PROVE y.value \in Nat
<1>1. CASE y.kind = "bool"
  BY <1>1, SymbolKinds
<1>2. CASE y.kind # "bool"
  BY <1>2, SymbolKinds
<1>3. QED
  BY <1>1, <1>2

\* Decoding a symbol keeps it.
LEMMA DecodeCoded ==
  ASSUME CoderInv, Decode
  PROVE  CoderInv'
<1>1. PICK L, R : Coded(L, R)
  BY DEF CoderInv
<1>2. phase = "decode" /\ Len(read) < Len(message)
      /\ phase' = phase /\ bytes' = bytes /\ UNCHANGED encVars
  BY DEF Decode
<1>3. UNCHANGED <<message, tells, low, rng, cnt, precarry>>
  BY <1>2 DEF encVars
<1>4. /\ Chain(message, tells, L, R) /\ Enc(L, R)
      /\ Code(bytes, message, tells, L, R) /\ Reading(L, R)
  BY <1>1, <1>2 DEF Coded
<1>5. PICK k : k = Len(read)
  OBVIOUS
<1>6. /\ read \in Seq(Nat) /\ drng = R[k] /\ dcnt \in Nat
      /\ Window(bytes, hi, lo, dcnt, pos, tellOffs, L[k] + R[k], tells[k + 1])
      /\ \A i \in 1..k : read[i] = message[i].value
  BY <1>4, <1>5 DEF Reading
<1>7. k \in Nat /\ k < Len(message)
  BY <1>2, <1>5, <1>6, LenProperties
<1>8. PICK b : b = bytes
  OBVIOUS
<1>9. PICK y : y = message[k + 1]
  OBVIOUS
<1>10. PICK t, t2 : t = tells[k + 1] /\ t2 = tells[k + 2]
  OBVIOUS
<1>11. b \in Seq(0..255) /\ bytes' = b
  BY <1>2, <1>4, <1>8 DEF Code
<1>12. /\ L[k] \in Nat /\ drng \in Ranges /\ y \in Symbols /\ t \in Nat
       /\ Inside(CodeOf(b), L[k], drng, Behind(b, t))
       /\ InPart(CodeOf(b), L[k], drng, Behind(b, t), y)
       /\ Link(y, L[k], drng, t, L[k + 1], R[k + 1], t2)
  BY <1>4, <1>6, <1>7, <1>8, <1>9, <1>10, NextSymbol
<1>13. Window(b, hi, lo, dcnt, pos, tellOffs, L[k] + drng, t)
  BY <1>6, <1>8, <1>10
<1>14. IF y.kind = "bool" THEN DecodeBool(y.prob) ELSE DecodeCdf(y.prob)
  BY <1>5, <1>9 DEF Decode
<1>15. /\ drng' = R[k + 1] /\ dcnt' \in Nat /\ read' = Append(read, y.value)
       /\ Window(b, hi', lo', dcnt', pos', tellOffs', L[k + 1] + R[k + 1], t2)
  BY <1>6, <1>11, <1>12, <1>13, <1>14, DecodeLink
<1>16. y.value \in Nat
  BY <1>12, SymbolValue
<1>17. /\ read' \in Seq(Nat) /\ Len(read') = k + 1 /\ read'[k + 1] = y.value
       /\ \A i \in 1..k : read'[i] = read[i]
  BY <1>5, <1>6, <1>15, <1>16, AppendProperties
<1>18. \A i \in 1..k + 1 : read'[i] = message[i].value
  <2> TAKE i \in 1..k + 1
  <2>1. CASE i = k + 1
    BY <1>9, <1>17, <2>1
  <2>2. CASE i # k + 1
    <3>1. i \in 1..k
      BY <1>7, <2>2
    <3>2. QED
      BY <1>6, <1>17, <3>1
  <2>3. QED
    BY <2>1, <2>2
<1>19. Reading(L, R)'
  <2>1. tells' = tells /\ message' = message /\ bytes' = b
    BY <1>3, <1>11
  <2>2. k + 1 <= Len(message') /\ (k + 1) + 1 = k + 2
    <3>1. Len(message) \in Nat
      BY <1>4, ChainParts
    <3>2. QED
      BY <1>7, <2>1, <3>1
  <2>3. Window(bytes', hi', lo', dcnt', pos', tellOffs', L[k + 1] + R[k + 1],
               tells'[(k + 1) + 1])
    BY <1>10, <1>15, <2>1, <2>2
  <2>4. \A i \in 1..k + 1 : read'[i] = message'[i].value
    BY <1>18, <2>1
  <2>5. QED
    BY <1>15, <1>17, <2>2, <2>3, <2>4 DEF Reading
<1>20. Enc(L, R)'
  BY <1>3, <1>4 DEF Enc, EncTell
<1>21. Coded(L, R)'
  BY <1>2, <1>3, <1>4, <1>19, <1>20 DEF Coded
<1>22. QED
  BY <1>2, <1>21 DEF CoderInv

\* Stuttering keeps it.
LEMMA SameCoded ==
  ASSUME CoderInv, UNCHANGED vars
  PROVE  CoderInv'
<1>1. PICK L, R : Coded(L, R)
  BY DEF CoderInv
<1>2. /\ UNCHANGED <<phase, message, tells, low, rng, cnt, precarry>>
      /\ UNCHANGED <<bytes, hi, lo, drng, dcnt, pos, tellOffs, read>>
  BY DEF vars, encVars, decVars
<1>3. Chain(message, tells, L, R)' /\ Enc(L, R)'
  BY <1>1, <1>2 DEF Coded, Enc, EncTell
<1>4. phase = "decode" => (Code(bytes, message, tells, L, R) /\ Reading(L, R))'
  BY <1>1, <1>2 DEF Coded, Reading
<1>5. Coded(L, R)'
  BY <1>2, <1>3, <1>4 DEF Coded
<1>6. QED
  BY <1>2, <1>5 DEF CoderInv

\* What the caller leaves behind the bytes of the coder, up to the size it names to
\* od_ec_dec_init(), is zeros: the bits that end a tile.  Without it the last symbols can
\* come out different, because od_ec_enc_done() keeps no more bits than tell them apart
\* from zeros.
ZerosFollow == \A z \in Trailers : \A i \in 1..Len(z) : z[i] = 0

\* It is an invariant, when nothing but zeros follows the bytes.
LEMMA CoderInvariant ==
  ASSUME ZerosFollow
  PROVE  Spec => []CoderInv
<1>1. Init => CoderInv
  BY InitCoded
<1>2. CoderInv /\ [Next]_vars => CoderInv'
  <2> SUFFICES ASSUME CoderInv, [Next]_vars PROVE CoderInv'
    OBVIOUS
  <2>1. ASSUME NEW y \in Symbols, Encode(y) PROVE CoderInv'
    BY <2>1, EncodeCoded
  <2>2. ASSUME NEW z \in Trailers, Done(z) PROVE CoderInv'
    <3>1. z \in Seq(0..255)
      BY CoderAssumption
    <3>2. Zeros(z)
      BY <3>1 DEF Zeros, ZerosFollow
    <3>3. QED
      BY <2>2, <3>2, DoneCoded
  <2>3. ASSUME Decode PROVE CoderInv'
    BY <2>3, DecodeCoded
  <2>4. ASSUME UNCHANGED vars PROVE CoderInv'
    BY <2>4, SameCoded
  <2>5. QED
    BY <2>1, <2>2, <2>3, <2>4 DEF Next
<1>3. QED
  BY <1>1, <1>2, PTL DEF Spec

\* Whatever od_ec_encode_bool_q15() and od_ec_encode_cdf_q15() encode, with any
\* probabilities and in any order, the decoding functions read again, symbol for symbol,
\* out of the bytes of od_ec_enc_done(), for messages of every length.
THEOREM DecodesWhatWasEncoded ==
  ASSUME ZerosFollow
  PROVE  Spec => []RoundTrip
<1>1. CoderInv => RoundTrip
  <2> SUFFICES ASSUME CoderInv PROVE RoundTrip
    OBVIOUS
  <2>1. CASE phase = "encode"
    <3>1. read = <<>>
      BY <2>1 DEF CoderInv
    <3>2. QED
      BY <3>1 DEF RoundTrip
  <2>2. CASE phase = "decode"
    BY <2>2 DEF CoderInv, Coded, Reading, RoundTrip
  <2>3. QED
    BY <2>1, <2>2 DEF CoderInv
<1>2. QED
  BY <1>1, CoderInvariant, PTL

\* od_ec_dec_tell() gives before every symbol what od_ec_enc_tell() gave there, over
\* every od_ec_dec_refill() and at the end of the bytes.
THEOREM BitsAgree ==
  ASSUME ZerosFollow
  PROVE  Spec => []TellsAgree
<1>1. CoderInv => TellsAgree
  <2> SUFFICES ASSUME CoderInv, phase = "decode"
               PROVE  DecTell = tells[Len(read) + 1]
    BY DEF TellsAgree
  <2>1. PICK L, R : Reading(L, R)
    BY DEF CoderInv, Coded
  <2>2. Window(bytes, hi, lo, dcnt, pos, tellOffs, L[Len(read)] + R[Len(read)],
               tells[Len(read) + 1])
    BY <2>1 DEF Reading
  <2>3. 8 * pos - dcnt + tellOffs = tells[Len(read) + 1] /\ pos \in Nat
    BY <2>2 DEF Window, Core
  <2>4. QED
    BY <2>3 DEF DecTell
<1>2. QED
  BY <1>1, CoderInvariant, PTL

\* The asserts of the decoder.
WindowInRange ==
  phase = "decode" => hi \in Int /\ 0 <= hi /\ hi < drng /\ drng \in Ranges

\* The asserts of od_ec_decode_bool_q15() and od_ec_decode_cdf_q15() hold: the upper half
\* of dif is below rng and never below zero, and rng has 16 bits, however long the message.
THEOREM WindowStaysInRange ==
  ASSUME ZerosFollow
  PROVE  Spec => []WindowInRange
<1>1. CoderInv => WindowInRange
  <2> SUFFICES ASSUME CoderInv, phase = "decode"
               PROVE  hi \in Int /\ 0 <= hi /\ hi < drng /\ drng \in Ranges
    BY DEF WindowInRange
  <2>1. PICK L, R : /\ Chain(message, tells, L, R) /\ Code(bytes, message, tells, L, R)
                    /\ Reading(L, R)
    BY DEF CoderInv, Coded
  <2>2. PICK k : k = Len(read)
    OBVIOUS
  <2>3. PICK b, t : b = bytes /\ t = tells[k + 1]
    OBVIOUS
  <2>4. /\ read \in Seq(Nat) /\ k <= Len(message) /\ drng = R[k] /\ dcnt \in Nat
        /\ Window(b, hi, lo, dcnt, pos, tellOffs, L[k] + R[k], t)
    BY <2>1, <2>2, <2>3 DEF Reading
  <2>5. k \in Nat
    BY <2>2, <2>4, LenProperties
  <2>6. CodeIn(bytes, tells, L, R, k) /\ b \in Seq(0..255)
    BY <2>1, <2>3, <2>4, <2>5 DEF Code
  <2>7. Inside(CodeOf(b), L[k], R[k], Behind(b, t))
    BY <2>3, <2>6 DEF CodeIn
  <2>8. L[k] \in Nat /\ R[k] \in Ranges
    <3>1. L \in [Nat -> Nat] /\ R \in [Nat -> Ranges]
      BY <2>1, ChainParts
    <3>2. QED
      BY <2>5, <3>1
  <2>9. PICK l, r : l = L[k] /\ r = R[k]
    OBVIOUS
  <2>10. l \in Nat /\ r \in Ranges /\ r \in Nat
    BY <2>8, <2>9 DEF Ranges
  <2> DEFINE v == CodeOf(b)
             x == Behind(b, t)
             s == l + r
  <2>11. /\ v \in Nat /\ x \in Nat /\ P2[x] \in Nat
         /\ l * P2[x] <= v /\ v < (l + r) * P2[x]
    BY <2>6, <2>7, <2>9, CodeNat, P2Pos DEF Inside
  <2>12. Window(b, hi, lo, dcnt, pos, tellOffs, s, t)
    BY <2>4, <2>9
  <2>13. s \in Nat /\ 0 <= s /\ r <= s /\ s - r = l /\ s - 0 = s
    BY <2>10
  <2>14. hi \in Int
    BY <2>12 DEF Window, Core
  <2>15. hi >= 0
    <3>1. v < (s - 0) * P2[x]
      BY <2>11, <2>13
    <3> HIDE DEF s
    <3>2. QED
      BY <2>4, <2>6, <2>11, <2>12, <2>13, <3>1, Decide
  <2>16. ~(hi >= r)
    <3>1. ~(v < (s - r) * P2[x])
      <4>1. (s - r) * P2[x] = l * P2[x] /\ l * P2[x] \in Nat
        BY <2>10, <2>11, <2>13
      <4>2. QED
        BY <2>11, <4>1
    <3> HIDE DEF s
    <3>2. QED
      BY <2>4, <2>6, <2>10, <2>11, <2>12, <2>13, <3>1, Decide
  <2>17. QED
    BY <2>4, <2>9, <2>10, <2>14, <2>15, <2>16
<1>2. QED
  BY <1>1, CoderInvariant, PTL

=============================================================================
