-------------------------- MODULE RouteTableProofs --------------------------
(***************************************************************************)
(* What addresses and masks are, bit by bit.  The definitions of RouteTable *)
(* are recursive functions: that they are functions at all, and what they  *)
(* compute, is by induction, as the least number that is a counterexample. *)
(***************************************************************************)
EXTENDS RouteTable, FiniteSetTheorems, WellFoundedInduction, TLAPS

\* Induction over the numbers, for a set of them.
LEMMA LeastNumber ==
  ASSUME NEW S \in SUBSET Nat, S # {}
  PROVE  \E n \in S : \A m \in S : n <= m
<1> DEFINE R == {ss \in Nat \X Nat : ss[1] < ss[2]}
<1>1. IsWellFoundedOn(R, Nat)
  BY NatLessThanWellFounded DEF OpToRel
<1>2. \A n, m \in Nat : m < n => <<m, n>> \in R
  OBVIOUS
<1> HIDE DEF R
<1>3. PICK n \in S : \A m \in S : ~ (<<m, n>> \in R)
  BY <1>1, WFMin
<1>4. \A m \in S : m \in Nat /\ ~ (m < n)
  BY <1>2, <1>3
<1> QED
  BY <1>3, <1>4

LEMMA Inductive ==
  ASSUME NEW S, 0 \in S, \A n \in Nat : n \in S => n + 1 \in S
  PROVE  Nat \subseteq S
<1>1. SUFFICES ASSUME Nat \ S # {} PROVE FALSE
  OBVIOUS
<1>2. PICK n \in Nat \ S : \A m \in Nat \ S : n <= m
  BY <1>1, LeastNumber
<1>3. n # 0 /\ n - 1 \in Nat /\ n - 1 \in S
  BY <1>2
<1> QED
  BY <1>3

-----------------------------------------------------------------------------
(* Powers of two. *)

LEMMA PowerIsCard ==
  ASSUME NEW n \in Nat
  PROVE  /\ IsFiniteSet(1..n) /\ IsFiniteSet(SUBSET (1..n))
         /\ 2^n = Cardinality(SUBSET (1..n)) /\ 2^n \in Nat
<1>1. IsFiniteSet(1..n) /\ Cardinality(1..n) = n
  BY FS_Interval
<1>2. IsFiniteSet(SUBSET (1..n)) /\ Cardinality(SUBSET (1..n)) = 2^n
  BY <1>1, FS_SUBSET
<1> QED
  BY <1>1, <1>2, FS_CardinalityType

LEMMA PowerNext ==
  ASSUME NEW n \in Nat
  PROVE  2^(n + 1) = 2 * 2^n
<1> DEFINE Old == SUBSET (1..n)
           New == {s \cup {n + 1} : s \in Old}
           f == [s \in Old |-> s \cup {n + 1}]
<1>1. IsFiniteSet(Old) /\ Cardinality(Old) = 2^n /\ 2^n \in Nat
  BY PowerIsCard
<1>2. f \in Bijection(Old, New)
  <2>1. f \in [Old -> New]
    OBVIOUS
  <2>2. \A s \in Old : n + 1 \notin s
    OBVIOUS
  <2>3. \A s, t \in Old : f[s] = f[t] => s = t
    BY <2>2
  <2>4. \A u \in New : \E s \in Old : f[s] = u
    OBVIOUS
  <2> QED
    BY <2>1, <2>3, <2>4 DEF Bijection, Injection, Surjection, IsInjective
<1>3. IsFiniteSet(New) /\ Cardinality(New) = Cardinality(Old)
  BY <1>1, <1>2, FS_Bijection DEF ExistsBijection
<1>4. Old \cap New = {}
  <2>1. \A s \in Old : n + 1 \notin s
    OBVIOUS
  <2> QED
    BY <2>1
<1>5. Old \cup New = SUBSET (1..n+1)
  <2>1. \A s \in SUBSET (1..n+1) : n + 1 \notin s => s \in Old
    OBVIOUS
  <2>2. \A s \in SUBSET (1..n+1) : n + 1 \in s => s \in New
    <3>1. SUFFICES ASSUME NEW s \in SUBSET (1..n+1), n + 1 \in s PROVE s \in New
      OBVIOUS
    <3>2. s = (s \ {n + 1}) \cup {n + 1}
      BY <3>1
    <3>3. s \ {n + 1} \in Old
      BY <2>1
    <3> QED
      BY <3>2, <3>3
  <2>3. /\ \A s \in Old : s \in SUBSET (1..n+1)
        /\ \A s \in New : s \in SUBSET (1..n+1)
    <3>1. n + 1 \in 1..n+1 /\ \A k \in 1..n : k \in 1..n+1
      OBVIOUS
    <3> QED
      BY <3>1
  <2> QED
    BY <2>1, <2>2, <2>3
<1> HIDE DEF Old, New
<1>6. Cardinality(Old \cup New) = Cardinality(Old) + Cardinality(New) - 0
  BY <1>1, <1>3, <1>4, FS_Union, FS_EmptySet
<1>7. n + 1 \in Nat
  OBVIOUS
<1>8. 2^(n + 1) = Cardinality(SUBSET (1..n+1))
  BY <1>7, PowerIsCard
<1> DEFINE c == Cardinality(Old)
<1>9. c = 2^n /\ 2^(n + 1) = c + c - 0 /\ c \in Nat
  BY <1>1, <1>3, <1>5, <1>6, <1>8
<1> HIDE DEF c
<1>10. c + c - 0 = 2 * c
  BY <1>9
<1> QED
  BY <1>9, <1>10, Zenon

LEMMA PowerZero == 2^0 = 1
  OBVIOUS

LEMMA PowerPositive == \A n \in Nat : 2^n \in Nat /\ 2^n > 0
<1> DEFINE S == {n \in Nat : 2^n > 0}
<1>1. 0 \in S
  BY PowerZero
<1>2. \A n \in Nat : n \in S => n + 1 \in S
  BY PowerNext, PowerIsCard
<1> HIDE DEF S
<1>3. Nat \subseteq S
  BY <1>1, <1>2, Inductive
<1> QED
  BY <1>3, PowerIsCard DEF S
-----------------------------------------------------------------------------
(* Sums of digits. *)

\* The partial sums of t are a function.
LEMMA SumExists ==
  ASSUME NEW m \in Nat, NEW t \in [1..m -> Nat]
  PROVE  \E f : f = [i \in 0..m |-> IF i = 0 THEN 0 ELSE f[i-1] + t[i]]
<1> DEFINE Sums(f, n) == f = [i \in 0..n |-> IF i = 0 THEN 0 ELSE f[i-1] + t[i]]
           S == {n \in Nat : n <= m => \E f : Sums(f, n)}
<1>1. 0 \in S
  <2>1. Sums([i \in 0..0 |-> 0], 0)
    OBVIOUS
  <2> QED
    BY <2>1
<1>2. ASSUME NEW n \in Nat, n \in S PROVE n + 1 \in S
  <2>1. SUFFICES ASSUME n + 1 <= m PROVE \E g : Sums(g, n + 1)
    OBVIOUS
  <2>2. PICK f : Sums(f, n)
    BY <1>2, <2>1
  <2> DEFINE g == [i \in 0..n+1 |-> IF i = n + 1 THEN f[n] + t[n + 1] ELSE f[i]]
  <2>3. \A i \in 0..n+1 : g[i] = IF i = 0 THEN 0 ELSE g[i-1] + t[i]
    BY <2>2
  <2>4. Sums(g, n + 1)
    BY <2>3
  <2> QED
    BY <2>4
<1> HIDE DEF S
<1>3. m \in S
  BY <1>1, <1>2, Inductive
<1> QED
  BY <1>3 DEF S

LEMMA SumLaws ==
  ASSUME NEW m \in Nat, NEW t \in [1..m -> Nat],
         NEW f, f[0] = 0, \A i \in 1..m : f[i] = f[i-1] + t[i]
  PROVE  \A i \in 0..m : f[i] \in Nat
<1> DEFINE S == {n \in Nat : n <= m => f[n] \in Nat}
<1>2. 0 \in S
  OBVIOUS
<1>3. ASSUME NEW n \in Nat, n \in S PROVE n + 1 \in S
  <2>1. SUFFICES ASSUME n + 1 <= m PROVE f[n + 1] \in Nat
    OBVIOUS
  <2>2. f[n] \in Nat /\ t[n + 1] \in Nat /\ n + 1 \in 1..m /\ n + 1 - 1 = n
    BY <1>3, <2>1
  <2>3. f[n + 1] = f[n] + t[n + 1]
    BY <2>2
  <2> QED
    BY <2>2, <2>3
<1> HIDE DEF S
<1>4. Nat \subseteq S
  BY <1>2, <1>3, Inductive
<1> QED
  BY <1>4 DEF S

LEMMA WIsNat == W \in Nat \ {0} /\ Octets \in Nat \ {0} /\ OctetBits \in Nat \ {0}
  BY RouteTableAssumption DEF W

LEMMA BitIsBit == ASSUME NEW a \in Int, NEW i \in Nat PROVE Bit(a, i) \in {0, 1}
<1>1. 2^i \in Nat /\ 2^i > 0
  BY PowerPositive
<1>2. a \div 2^i \in Int
  BY <1>1
<1> QED
  BY <1>2 DEF Bit

\* The digits of a & b.
Digit(a, b, i) == Bit(a, i - 1) * Bit(b, i - 1) * 2^(i - 1)

LEMMA DigitIsNat ==
  ASSUME NEW a \in Int, NEW b \in Int, NEW i \in Nat \ {0}
  PROVE  /\ Digit(a, b, i) \in {0, 2^(i - 1)} /\ Digit(a, b, i) \in Nat
         /\ Digit(a, b, i) = 0 <=> (Bit(a, i - 1) = 0 \/ Bit(b, i - 1) = 0)
<1>1. i - 1 \in Nat /\ 2^(i - 1) \in Nat /\ 2^(i - 1) > 0
  BY PowerPositive
<1>2. Bit(a, i - 1) \in {0, 1} /\ Bit(b, i - 1) \in {0, 1}
  BY <1>1, BitIsBit
<1> DEFINE x == Bit(a, i - 1)
           y == Bit(b, i - 1)
           p == 2^(i - 1)
<1> HIDE DEF x, y, p
<1>3. x \in {0, 1} /\ y \in {0, 1} /\ p \in Nat /\ p > 0 =>
        /\ x * y * p \in {0, p} /\ x * y * p \in Nat
        /\ x * y * p = 0 <=> (x = 0 \/ y = 0)
  OBVIOUS
<1> QED
  BY <1>1, <1>2, <1>3 DEF Digit, x, y, p

LEMMA AndSum ==
  ASSUME NEW a \in Int, NEW b \in Int
  PROVE  \E f \in [0..W -> Nat] :
           /\ f[0] = 0 /\ \A i \in 1..W : f[i] = f[i-1] + Digit(a, b, i)
           /\ And(a, b) = f[W]
<1> DEFINE t == [i \in 1..W |-> Digit(a, b, i)]
           IsSum(f) == f = [i \in 0..W |-> IF i = 0 THEN 0 ELSE f[i-1] + Digit(a, b, i)]
           IsSumT(f) == f = [i \in 0..W |-> IF i = 0 THEN 0 ELSE f[i-1] + t[i]]
           sum == CHOOSE f : IsSum(f)
<1>1. t \in [1..W -> Nat] /\ \A i \in 1..W : t[i] = Digit(a, b, i)
  BY DigitIsNat, WIsNat
<1>2. \A f : IsSumT(f) <=> IsSum(f)
  <2> TAKE f
  <2>1. \A i \in 0..W : i = 0 \/ i \in 1..W
    BY WIsNat
  <2> QED
    BY <1>1, <2>1
<1>3. \E f : IsSumT(f)
  <2> HIDE DEF t
  <2> QED
    BY <1>1, WIsNat, SumExists
<1>4. IsSum(sum) /\ IsSumT(sum)
  <2> HIDE DEF IsSum, IsSumT
  <2> QED
    BY <1>2, <1>3
<1>5. And(a, b) = sum[W]
  BY DEF And, Digit
<1>6. \E s : s = [i \in 0..W |-> IF i = 0 THEN 0 ELSE s[i-1] + t[i]] /\ And(a, b) = s[W]
  <2> HIDE DEF t, sum
  <2> QED
    BY <1>4, <1>5
<1>7. PICK s : s = [i \in 0..W |-> IF i = 0 THEN 0 ELSE s[i-1] + t[i]] /\ And(a, b) = s[W]
  BY <1>6
<1>8. W \in Nat /\ t \in [1..W -> Nat]
  BY <1>1, WIsNat
<1> HIDE DEF t
<1>9. s[0] = 0 /\ \A i \in 1..W : s[i] = s[i-1] + t[i]
  BY <1>7, <1>8
<1>10. \A i \in 0..W : s[i] \in Nat
  BY <1>8, <1>9, SumLaws
<1>11. s \in [0..W -> Nat]
  BY <1>7, <1>10
<1> QED
  BY <1>1, <1>7, <1>9, <1>11

LEMMA InMemoryIsNat ==
  ASSUME NEW d \in Dotted
  PROVE  InMemory(d) \in Nat
<1> DEFINE t == [k \in 1..Octets |-> d[k] * 2^(OctetBits * (k - 1))]
           IsSum(f) == f = [k \in 0..Octets |-> IF k = 0 THEN 0 ELSE f[k - 1] + d[k] * 2^(OctetBits * (k - 1))]
           IsSumT(f) == f = [k \in 0..Octets |-> IF k = 0 THEN 0 ELSE f[k - 1] + t[k]]
           sum == CHOOSE f : IsSum(f)
<1>1. ASSUME NEW k \in 1..Octets PROVE d[k] * 2^(OctetBits * (k - 1)) \in Nat
  <2>1. OctetBits * (k - 1) \in Nat
    BY WIsNat
  <2>2. d[k] \in Nat
    <3>1. 2^OctetBits \in Nat
      BY PowerPositive, WIsNat
    <3> QED
      BY <3>1 DEF Dotted, Octet
  <2>3. 2^(OctetBits * (k - 1)) \in Nat
    BY <2>1, PowerPositive
  <2> QED
    BY <2>2, <2>3
<1>2. t \in [1..Octets -> Nat] /\ \A k \in 1..Octets : t[k] = d[k] * 2^(OctetBits * (k - 1))
  BY <1>1
<1>3. \A f : IsSumT(f) <=> IsSum(f)
  <2> TAKE f
  <2>1. \A k \in 0..Octets : k = 0 \/ k \in 1..Octets
    BY WIsNat
  <2> QED
    BY <1>2, <2>1
<1>4. \E f : IsSumT(f)
  <2> HIDE DEF t
  <2> QED
    BY <1>2, WIsNat, SumExists
<1>5. IsSum(sum) /\ IsSumT(sum)
  <2> HIDE DEF IsSum, IsSumT
  <2> QED
    BY <1>3, <1>4
<1>6. InMemory(d) = sum[Octets]
  BY DEF InMemory
<1>7. PICK s : s = [k \in 0..Octets |-> IF k = 0 THEN 0 ELSE s[k - 1] + t[k]] /\ InMemory(d) = s[Octets]
  <2> HIDE DEF t, sum
  <2> QED
    BY <1>5, <1>6
<1>8. Octets \in Nat /\ t \in [1..Octets -> Nat]
  BY <1>2, WIsNat
<1> HIDE DEF t
<1>9. s[0] = 0 /\ \A k \in 1..Octets : s[k] = s[k - 1] + t[k]
  BY <1>7, <1>8
<1>10. \A k \in 0..Octets : s[k] \in Nat
  BY <1>8, <1>9, SumLaws
<1> QED
  BY <1>7, <1>8, <1>10

-----------------------------------------------------------------------------
(* a & b, by its digits. *)

\* Partial sums of digits are less than the next power.
LEMMA PartialBelow ==
  ASSUME NEW a \in Int, NEW b \in Int, NEW f \in [0..W -> Nat],
         f[0] = 0, \A i \in 1..W : f[i] = f[i-1] + Digit(a, b, i)
  PROVE  \A i \in 0..W : f[i] < 2^i
<1> DEFINE S == {n \in Nat : n <= W => f[n] < 2^n}
<1>1. 0 \in S
  BY PowerZero
<1>2. ASSUME NEW n \in Nat, n \in S PROVE n + 1 \in S
  <2>1. SUFFICES ASSUME n + 1 <= W PROVE f[n + 1] < 2^(n + 1)
    OBVIOUS
  <2>2. n + 1 \in 1..W /\ n + 1 \in Nat \ {0} /\ n + 1 - 1 = n /\ n \in 0..W
    BY <2>1, WIsNat
  <2>3. f[n] < 2^n /\ f[n] \in Nat
    BY <1>2, <2>1, <2>2, WIsNat
  <2>4. Digit(a, b, n + 1) \in {0, 2^n}
    BY <2>2, DigitIsNat
  <2>5. f[n + 1] = f[n] + Digit(a, b, n + 1)
    BY <2>2
  <2>6. 2^n \in Nat /\ 2^(n + 1) = 2 * 2^n
    BY PowerPositive, PowerNext
  <2> QED
    BY <2>3, <2>4, <2>5, <2>6
<1> HIDE DEF S
<1>3. Nat \subseteq S
  BY <1>1, <1>2, Inductive
<1> QED
  BY <1>3, WIsNat DEF S

\* The same digits, the same number.
LEMMA SameDigits ==
  ASSUME NEW a \in Int, NEW b \in Int, NEW c \in Int, NEW d \in Int,
         \A i \in 1..W : Digit(a, b, i) = Digit(c, d, i)
  PROVE  And(a, b) = And(c, d)
<1>1. PICK f \in [0..W -> Nat] : /\ f[0] = 0 /\ \A i \in 1..W : f[i] = f[i-1] + Digit(a, b, i)
                                 /\ And(a, b) = f[W]
  BY AndSum
<1>2. PICK g \in [0..W -> Nat] : /\ g[0] = 0 /\ \A i \in 1..W : g[i] = g[i-1] + Digit(c, d, i)
                                 /\ And(c, d) = g[W]
  BY AndSum
<1> DEFINE S == {n \in Nat : n <= W => f[n] = g[n]}
<1>3. 0 \in S
  BY <1>1, <1>2
<1>4. ASSUME NEW n \in Nat, n \in S PROVE n + 1 \in S
  <2>1. SUFFICES ASSUME n + 1 <= W PROVE f[n + 1] = g[n + 1]
    OBVIOUS
  <2>2. n + 1 \in 1..W /\ n + 1 - 1 = n /\ f[n] = g[n]
    BY <1>4, <2>1, WIsNat
  <2> QED
    BY <1>1, <1>2, <2>2
<1> HIDE DEF S
<1>5. Nat \subseteq S
  BY <1>3, <1>4, Inductive
<1> QED
  BY <1>1, <1>2, <1>5, WIsNat DEF S

\* And the other way round.
LEMMA DigitsOf ==
  ASSUME NEW a \in Int, NEW b \in Int, NEW c \in Int, NEW d \in Int, And(a, b) = And(c, d)
  PROVE  \A i \in 1..W : Digit(a, b, i) = Digit(c, d, i)
<1>1. PICK f \in [0..W -> Nat] : /\ f[0] = 0 /\ \A i \in 1..W : f[i] = f[i-1] + Digit(a, b, i)
                                 /\ And(a, b) = f[W]
  BY AndSum
<1>2. PICK g \in [0..W -> Nat] : /\ g[0] = 0 /\ \A i \in 1..W : g[i] = g[i-1] + Digit(c, d, i)
                                 /\ And(c, d) = g[W]
  BY AndSum
<1>3. \A i \in 0..W : f[i] < 2^i /\ g[i] < 2^i
  BY <1>1, <1>2, PartialBelow
<1>4. ASSUME NEW i \in 1..W, f[i] = g[i]
      PROVE  f[i - 1] = g[i - 1] /\ Digit(a, b, i) = Digit(c, d, i)
  <2>1. i - 1 \in 0..W /\ i - 1 \in Nat /\ i \in Nat \ {0}
    BY WIsNat
  <2> DEFINE p == 2^(i - 1)
  <2>2. p \in Nat /\ f[i - 1] < p /\ g[i - 1] < p /\ f[i - 1] \in Nat /\ g[i - 1] \in Nat
    BY <1>3, <2>1, PowerPositive
  <2>3. Digit(a, b, i) \in {0, p} /\ Digit(c, d, i) \in {0, p}
    BY <2>1, DigitIsNat
  <2>4. f[i - 1] + Digit(a, b, i) = g[i - 1] + Digit(c, d, i)
    BY <1>1, <1>2, <1>4
  <2> HIDE DEF p
  <2> QED
    BY <2>2, <2>3, <2>4
<1> DEFINE S == {n \in Nat : n <= W => f[W - n] = g[W - n]}
<1>5. 0 \in S
  <2>1. W - 0 = W
    BY WIsNat
  <2> QED
    BY <1>1, <1>2, <2>1
<1>6. ASSUME NEW n \in Nat, n \in S PROVE n + 1 \in S
  <2>1. SUFFICES ASSUME n + 1 <= W PROVE f[W - (n + 1)] = g[W - (n + 1)]
    OBVIOUS
  <2>2. W - n \in 1..W /\ W - n - 1 = W - (n + 1) /\ f[W - n] = g[W - n]
    BY <1>6, <2>1, WIsNat
  <2> QED
    BY <1>4, <2>2
<1> HIDE DEF S
<1>7. Nat \subseteq S
  BY <1>5, <1>6, Inductive
<1>8. ASSUME NEW i \in 1..W PROVE f[i] = g[i]
  <2>1. W - i \in Nat /\ W - i <= W /\ W - (W - i) = i
    BY WIsNat
  <2>2. W - i \in S
    BY <1>7, <2>1
  <2> QED
    BY <2>1, <2>2 DEF S
<1> QED
  BY <1>4, <1>8

-----------------------------------------------------------------------------
(* Masks. *)

LEMMA Division ==
  ASSUME NEW n \in Nat, NEW d \in Nat \ {0}
  PROVE  /\ n \div d \in Nat /\ n % d \in 0..d-1 /\ n = (n \div d) * d + (n % d)
         /\ \A k \in Nat : n < k * d <=> n \div d < k
<1> DEFINE q == n \div d
           r == n % d
<1>1. q \in Nat /\ r \in 0..d-1 /\ n = q * d + r
  OBVIOUS
<1> HIDE DEF q, r
<1>2. ASSUME NEW k \in Nat PROVE n < k * d <=> q < k
  <2>1. CASE q < k
    <3>1. (q + 1) * d <= k * d
      BY <1>1, <2>1
    <3>2. (q + 1) * d = q * d + d
      BY <1>1
    <3>3. q * d \in Int /\ k * d \in Int
      BY <1>1
    <3> DEFINE qd == q * d
               kd == k * d
    <3>4. qd \in Int /\ kd \in Int /\ qd + d <= kd /\ n = qd + r
      BY <1>1, <3>1, <3>2, <3>3
    <3> HIDE DEF qd, kd
    <3>5. n < kd
      BY <1>1, <3>4
    <3> QED
      BY <2>1, <3>5 DEF kd
  <2>2. CASE ~(q < k)
    <3>1. k * d <= q * d
      BY <1>1, <2>2
    <3>2. q * d \in Int /\ k * d \in Int
      BY <1>1
    <3> DEFINE qd == q * d
               kd == k * d
    <3>3. qd \in Int /\ kd \in Int /\ kd <= qd /\ n = qd + r
      BY <1>1, <3>1, <3>2
    <3> HIDE DEF qd, kd
    <3>4. ~(n < kd)
      BY <1>1, <3>3
    <3> QED
      BY <2>2, <3>4 DEF kd
  <2> QED
    BY <2>1, <2>2
<1> QED
  BY <1>1, <1>2 DEF q, r

LEMMA DivisionUnique ==
  ASSUME NEW q \in Nat, NEW d \in Nat \ {0}, NEW r \in 0..d-1
  PROVE  (q * d + r) \div d = q /\ (q * d + r) % d = r
<1> DEFINE n == q * d + r
<1>1. n \in Nat
  <2>1. q * d \in Nat
    OBVIOUS
  <2> QED
    BY <2>1
<1>2. n < (q + 1) * d /\ ~(n < q * d)
  <2>1. (q + 1) * d = q * d + d /\ q * d \in Nat
    OBVIOUS
  <2> DEFINE qd == q * d
  <2>2. qd \in Nat /\ n = qd + r /\ (q + 1) * d = qd + d
    BY <2>1
  <2> HIDE DEF qd, n
  <2>3. n < qd + d /\ ~(n < qd)
    BY <2>2
  <2> QED
    BY <2>2, <2>3 DEF qd
<1> HIDE DEF n
<1>3. n \div d < q + 1 /\ ~(n \div d < q) /\ n \div d \in Nat /\ n = (n \div d) * d + (n % d) /\ n % d \in 0..d-1
  <2>1. /\ n \div d \in Nat /\ n % d \in 0..d-1 /\ n = (n \div d) * d + (n % d)
        /\ \A k \in Nat : n < k * d <=> n \div d < k
    BY <1>1, Division
  <2>2. (n < (q + 1) * d <=> n \div d < q + 1) /\ (n < q * d <=> n \div d < q)
    <3>1. q + 1 \in Nat
      OBVIOUS
    <3> QED
      BY <2>1, <3>1
  <2> QED
    BY <1>2, <2>1, <2>2
<1>4. n \div d = q
  BY <1>3
<1>5. n = q * d + (n % d) /\ n = q * d + r
  BY <1>3, <1>4 DEF n
<1>6. n % d = r
  <2>1. q * d \in Nat
    OBVIOUS
  <2> DEFINE qd == q * d
             m == n % d
  <2>2. qd + m = qd + r /\ qd \in Nat /\ m \in 0..d-1
    BY <1>3, <1>5, <2>1
  <2> HIDE DEF qd, m
  <2>3. m = r
    BY <2>2
  <2> QED
    BY <2>3 DEF m
<1> QED
  BY <1>4, <1>6 DEF n

\* Bits of an address are read octet by octet: NetBit turns each octet round.
LEMMA NetBitTurns ==
  ASSUME NEW n \in 0..W-1
  PROVE  /\ NetBit(n) \in 0..W-1 /\ NetBit(NetBit(n)) = n
         /\ \A k \in Nat : NetBit(n) < k * OctetBits <=> n < k * OctetBits
<1> DEFINE d == OctetBits
           q == n \div d
           r == n % d
<1>1. d \in Nat \ {0} /\ n \in Nat /\ Octets \in Nat /\ n < Octets * d /\ W = Octets * d
  BY WIsNat DEF W
<1>2. q \in Nat /\ r \in 0..d-1 /\ n = q * d + r /\ \A k \in Nat : n < k * d <=> q < k
  BY <1>1, Division
<1> DEFINE s == d - 1 - r
           m == q * d + s
<1>3. NetBit(n) = m /\ s \in 0..d-1 /\ d - 1 - s = r
  <2>1. NetBit(n) = q * d + (d - 1 - r)
    BY DEF NetBit
  <2> HIDE DEF q, r
  <2> QED
    BY <1>1, <1>2, <2>1
<1> HIDE DEF q, r, d, s
<1>4. m \div d = q /\ m % d = s
  BY <1>1, <1>2, <1>3, DivisionUnique
<1>5. m \in Nat
  <2>1. q * d \in Nat
    BY <1>1, <1>2
  <2> QED
    BY <1>3, <2>1
<1> HIDE DEF m
<1>6. \A k \in Nat : m < k * d <=> q < k
  BY <1>1, <1>4, <1>5, Division
<1>7. m < W
  BY <1>1, <1>2, <1>6
<1>8. NetBit(m) = q * d + (d - 1 - s)
  BY <1>4 DEF NetBit, d
<1>9. NetBit(m) = n
  BY <1>2, <1>3, <1>8
<1> QED
  BY <1>2, <1>3, <1>5, <1>6, <1>7, <1>9, WIsNat DEF d

\* The lines of a table are numbers.
Numbers(t) == \A j \in DOMAIN t : t[j].prefix \in Nat /\ t[j].mask \in Int

\* Numbers of one table file's line.
LEMMA ParsedNumbers ==
  ASSUME NEW line \in Line
  PROVE  Parsed(line).prefix \in Nat /\ Parsed(line).mask \in Int
<1>1. line.prefix \in Dotted /\ line.mask \in Dotted
  BY DEF Line
<1>2. InMemory(line.prefix) \in Nat /\ InMemory(line.mask) \in Int
  BY <1>1, InMemoryIsNat
<1>3. Parsed(line).prefix = InMemory(line.prefix) /\ Parsed(line).mask = InMemory(line.mask)
  BY DEF Parsed, Line
<1> QED
  BY <1>2, <1>3
=============================================================================
