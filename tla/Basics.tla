------------------------------- MODULE Basics -------------------------------
(***************************************************************************)
(* What the proofs need to know of numbers and lists: induction, stated    *)
(* for sets so that it can be cited, remainders, and what is left of a     *)
(* list after an erasure.                                                  *)
(***************************************************************************)
EXTENDS Integers, Sequences, SequencesExt, Lists, WellFoundedInduction, NaturalsInduction, TLAPS

\* Induction over the numbers, as the existence of a least one.
LEMMA LeastNumber ==
    ASSUME NEW T, T \subseteq Nat, T # {}
    PROVE  \E x \in T : \A y \in T : x <= y
<1>1. IsWellFoundedOn(OpToRel(<, Nat), Nat)
  BY NatLessThanWellFounded
<1>2. PICK x \in T : \A y \in T : ~ (<<y, x>> \in OpToRel(<, Nat))
  BY <1>1, WFMin
<1>3. ASSUME NEW y \in T PROVE x <= y
  <2>1. ~ (<<y, x>> \in OpToRel(<, Nat))
    BY <1>2
  <2> QED BY <2>1 DEF OpToRel
<1> QED BY <1>2, <1>3

\* Induction over an interval, for a set of numbers.
LEMMA UpTo ==
    ASSUME NEW n \in Nat, NEW G, 0 \in G, \A k \in 1 .. n : k - 1 \in G => k \in G
    PROVE  \A k \in 0 .. n : k \in G
<1> SUFFICES ASSUME NEW k \in 0 .. n, k \notin G PROVE FALSE
  OBVIOUS
<1>1. PICK b \in {j \in 0 .. n : j \notin G} : \A j \in {j \in 0 .. n : j \notin G} : b <= j
  <2>1. {j \in 0 .. n : j \notin G} \subseteq Nat /\ {j \in 0 .. n : j \notin G} # {}
    OBVIOUS
  <2> QED BY <2>1, LeastNumber
<1>2. b \in 1 .. n
  BY <1>1
<1>3. b - 1 \in G
  BY <1>1, <1>2
<1> QED BY <1>1, <1>2, <1>3

-----------------------------------------------------------------------------
(* Remainders.                                                             *)

LEMMA ModDivision ==
    ASSUME NEW b \in Nat \ {0}, NEW x \in Int
    PROVE  x % b \in 0 .. b - 1 /\ x \div b \in Int /\ x = b * (x \div b) + (x % b)
  OBVIOUS

LEMMA MultipleIsLarge ==
    ASSUME NEW b \in Nat \ {0}, NEW k \in Int, k >= 1
    PROVE  b * k >= b
  OBVIOUS

LEMMA ModUnique ==
    ASSUME NEW b \in Nat \ {0}, NEW x \in Int, NEW q \in Int, NEW s \in 0 .. b - 1,
           x = b * q + s
    PROVE  x % b = s
<1> DEFINE d == x \div b
           t == x % b
<1>1. t \in 0 .. b - 1 /\ d \in Int /\ x = b * d + t
  BY ModDivision
<1> HIDE DEF d, t
<1>2. b * (q - d) = t - s /\ b * (d - q) = s - t
  BY <1>1
<1>3. ~(q - d >= 1)
  BY <1>1, <1>2, MultipleIsLarge
<1>4. ~(d - q >= 1)
  BY <1>1, <1>2, MultipleIsLarge
<1>5. q = d
  BY <1>1, <1>3, <1>4
<1>6. s = t
  BY <1>1, <1>5
<1> QED BY <1>6 DEF t

LEMMA ModShift ==
    ASSUME NEW b \in Nat \ {0}, NEW x \in Int, NEW y \in Int, NEW k \in Int, x = y + b * k
    PROVE  x % b = y % b
<1>1. y % b \in 0 .. b - 1 /\ y \div b \in Int /\ y = b * (y \div b) + (y % b)
  BY ModDivision
<1>2. x = b * (y \div b + k) + (y % b) /\ y \div b + k \in Int
  BY <1>1
<1> QED BY <1>1, <1>2, ModUnique

LEMMA ModPlus ==
    ASSUME NEW b \in Nat \ {0}, NEW x \in Int, NEW y \in Int
    PROVE  ((x % b) + y) % b = (x + y) % b /\ (y - (x % b)) % b = (y - x) % b
<1> DEFINE m == x % b
           d == x \div b
<1>1. m \in Int /\ d \in Int /\ x = b * d + m
  BY ModDivision
<1> HIDE DEF m, d
<1>2. x + y = (m + y) + b * d /\ m + y \in Int /\ x + y \in Int
  BY <1>1
<1>3. y - m = (y - x) + b * d /\ y - m \in Int /\ y - x \in Int
  BY <1>1
<1>4. (x + y) % b = (m + y) % b
  BY <1>1, <1>2, ModShift
<1>5. (y - m) % b = (y - x) % b
  BY <1>1, <1>3, ModShift
<1> QED BY <1>4, <1>5 DEF m

LEMMA ModSmall ==
    ASSUME NEW b \in Nat \ {0}, NEW x \in 0 .. b - 1
    PROVE  x % b = x
<1>1. x = b * 0 + x
  OBVIOUS
<1> QED BY <1>1, ModUnique

\* Within one period of 0 .. b - 1.
LEMMA ModNear ==
    ASSUME NEW b \in Nat \ {0}, NEW x \in Int
    PROVE  /\ x \in 0 .. b - 1 => x % b = x
           /\ x \in b .. 2 * b - 1 => x % b = x - b
           /\ x \in -b .. -1 => x % b = x + b
<1>1. x \in 0 .. b - 1 => x = b * 0 + x
  OBVIOUS
<1>2. x \in b .. 2 * b - 1 => x = b * 1 + (x - b) /\ x - b \in 0 .. b - 1
  OBVIOUS
<1>3. x \in -b .. -1 => x = b * (-1) + (x + b) /\ x + b \in 0 .. b - 1
  OBVIOUS
<1> QED BY <1>1, <1>2, <1>3, ModUnique

\* There is a function on 0 .. n that starts with a and goes on with F.
Recurses(D, n, a, F) ==
    \E f \in [0 .. n -> D] : f[0] = a /\ \A k \in 1 .. n : f[k] = F[k][f[k - 1]]

\* A function on 0 .. n may be defined by recursion.
LEMMA Recursion ==
    ASSUME NEW D, NEW n \in Nat, NEW a \in D, NEW F \in [1 .. n -> [D -> D]]
    PROVE  Recurses(D, n, a, F)
<1> DEFINE Good(m) == \E f \in [0 .. m -> D] : f[0] = a /\ \A k \in 1 .. m : f[k] = F[k][f[k - 1]]
           G == {m \in 0 .. n : Good(m)}
<1>1. Good(0)
  <2>1. PICK f : f = [k \in 0 .. 0 |-> a]
    OBVIOUS
  <2>2. f \in [0 .. 0 -> D] /\ f[0] = a /\ 1 .. 0 = {}
    BY <2>1
  <2> QED BY <2>2
<1>2. ASSUME NEW m \in 1 .. n, Good(m - 1) PROVE Good(m)
  <2>1. PICK f \in [0 .. m - 1 -> D] : f[0] = a /\ \A k \in 1 .. m - 1 : f[k] = F[k][f[k - 1]]
    BY <1>2
  <2>2. F[m][f[m - 1]] \in D
    <3>1. m - 1 \in 0 .. m - 1
      OBVIOUS
    <3>2. F[m] \in [D -> D] /\ f[m - 1] \in D
      BY <3>1
    <3> QED BY <3>2
  <2>3. PICK g : g = [k \in 0 .. m |-> IF k = m THEN F[m][f[m - 1]] ELSE f[k]]
    OBVIOUS
  <2>4. g \in [0 .. m -> D]
    <3>1. \A k \in 0 .. m : k # m => k \in 0 .. m - 1
      OBVIOUS
    <3> QED BY <2>2, <2>3, <3>1
  <2>5. g[0] = a
    BY <2>1, <2>3
  <2>6. ASSUME NEW k \in 1 .. m PROVE g[k] = F[k][g[k - 1]]
    <3>1. k - 1 \in 0 .. m /\ k - 1 # m /\ k \in 0 .. m
      OBVIOUS
    <3>2. g[k - 1] = f[k - 1]
      BY <2>3, <3>1
    <3>3. CASE k = m
      BY <2>3, <3>1, <3>2, <3>3
    <3>4. CASE k # m
      <4>1. k \in 1 .. m - 1 /\ g[k] = f[k]
        BY <2>3, <3>1, <3>4
      <4> QED BY <2>1, <3>2, <4>1
    <3> QED BY <3>3, <3>4
  <2> QED BY <2>4, <2>5, <2>6
<1> HIDE DEF Good
<1>3. 0 \in G
  BY <1>1
<1>4. \A m \in 1 .. n : m - 1 \in G => m \in G
  BY <1>2
<1>5. \A m \in 0 .. n : m \in G
  <2> HIDE DEF G
  <2> QED BY <1>3, <1>4, UpTo
<1>6. Good(n)
  <2>1. n \in 0 .. n
    OBVIOUS
  <2> QED BY <1>5, <2>1, Zenon
<1> QED BY <1>6 DEF Good, Recurses

-----------------------------------------------------------------------------
(* Lists.                                                                  *)

\* The recursion that Keep stands for has a solution.
LEMMA KeepStep ==
    ASSUME NEW T, NEW q \in Seq(T), NEW S
    PROVE  \E rest :
              /\ Keep(q, S) = rest[Len(q)]
              /\ rest[0] = <<>>
              /\ \A n \in 1 .. Len(q) :
                    rest[n] = IF q[n] \in S THEN Append(rest[n - 1], q[n]) ELSE rest[n - 1]
<1>1. Len(q) \in Nat /\ <<>> \in Seq(T)
  OBVIOUS
<1> DEFINE F == [n \in 1 .. Len(q) |-> [r \in Seq(T) |-> IF q[n] \in S THEN Append(r, q[n]) ELSE r]]
           Body(f, n) == IF n = 0 THEN <<>>
                         ELSE IF q[n] \in S THEN Append(f[n - 1], q[n]) ELSE f[n - 1]
           R == CHOOSE f : f = [n \in 0 .. Len(q) |-> Body(f, n)]
<1>2. F \in [1 .. Len(q) -> [Seq(T) -> Seq(T)]]
  OBVIOUS
<1>3. PICK f \in [0 .. Len(q) -> Seq(T)] : f[0] = <<>> /\ \A n \in 1 .. Len(q) : f[n] = F[n][f[n - 1]]
  <2> HIDE DEF F
  <2>1. Recurses(Seq(T), Len(q), <<>>, F)
    BY <1>1, <1>2, Recursion
  <2> QED BY <2>1 DEF Recurses
<1>4. \A n \in 0 .. Len(q) : f[n] = Body(f, n)
  <2>1. \A n \in 0 .. Len(q) : n # 0 => n \in 1 .. Len(q) /\ n - 1 \in 0 .. Len(q)
    BY <1>1
  <2> QED BY <1>3, <2>1
<1>5. \E g : g = [n \in 0 .. Len(q) |-> Body(g, n)]
  <2> HIDE DEF Body
  <2>1. f = [n \in 0 .. Len(q) |-> Body(f, n)]
    BY <1>4, Zenon
  <2> QED BY <2>1
<1>6. R = [n \in 0 .. Len(q) |-> Body(R, n)]
  BY <1>5
<1>7. Keep(q, S) = R[Len(q)]
  BY DEF Keep
<1> HIDE DEF R
<1>8. \A n \in 0 .. Len(q) : R[n] = Body(R, n)
  <2> HIDE DEF Body
  <2> QED BY <1>6
<1>9. R[0] = <<>>
  BY <1>1, <1>8
<1>10. \A n \in 1 .. Len(q) : R[n] = IF q[n] \in S THEN Append(R[n - 1], q[n]) ELSE R[n - 1]
  <2>1. \A n \in 1 .. Len(q) : n \in 0 .. Len(q) /\ n # 0
    BY <1>1
  <2> QED BY <1>8, <2>1
<1> QED BY <1>7, <1>9, <1>10

\* No element occurs twice.
Once(q) == \A i, j \in 1 .. Len(q) : q[i] = q[j] => i = j

\* What is left of a list after an erasure is exactly what was to be kept, and
\* no element occurs more often than before.
LEMMA KeepProperties ==
    ASSUME NEW T, NEW q \in Seq(T), NEW S
    PROVE  /\ Keep(q, S) \in Seq(T)
           /\ \A d : Contains(Keep(q, S), d) <=> Contains(q, d) /\ d \in S
           /\ Once(q) => Once(Keep(q, S))
           /\ q = <<>> => Keep(q, S) = <<>>
<1>1. PICK rest :
        /\ Keep(q, S) = rest[Len(q)]
        /\ rest[0] = <<>>
        /\ \A n \in 1 .. Len(q) :
              rest[n] = IF q[n] \in S THEN Append(rest[n - 1], q[n]) ELSE rest[n - 1]
  BY KeepStep
<1> DEFINE Good(n) == /\ rest[n] \in Seq(T)
                      /\ \A i \in 1 .. Len(rest[n]) : rest[n][i] \in S /\ \E j \in 1 .. n : q[j] = rest[n][i]
                      /\ \A j \in 1 .. n : q[j] \in S => \E i \in 1 .. Len(rest[n]) : rest[n][i] = q[j]
                      /\ Once(q) => Once(rest[n])
           G == {n \in 0 .. Len(q) : Good(n)}
<1>2. Len(q) \in Nat
  OBVIOUS
<1>3. 0 \in G
  <2>1. rest[0] \in Seq(T) /\ Len(rest[0]) = 0 /\ Once(rest[0])
    BY <1>1 DEF Once
  <2> QED BY <1>2, <2>1
<1>4. ASSUME NEW n \in 1 .. Len(q), n - 1 \in G PROVE n \in G
  <2>1. Good(n - 1)
    BY <1>4
  <2>j. \A j \in 1 .. n : j \in 1 .. n - 1 \/ j = n
    OBVIOUS
  <2>2. CASE q[n] \notin S
    <3>1. rest[n] = rest[n - 1]
      BY <1>1, <2>2
    <3>2. \A j \in 1 .. n : q[j] \in S => \E i \in 1 .. Len(rest[n]) : rest[n][i] = q[j]
      BY <2>1, <2>2, <2>j, <3>1
    <3>3. \A i \in 1 .. Len(rest[n]) : rest[n][i] \in S /\ \E j \in 1 .. n : q[j] = rest[n][i]
      <4>1. \A j \in 1 .. n - 1 : j \in 1 .. n
        OBVIOUS
      <4> QED BY <2>1, <3>1, <4>1
    <3>4. rest[n] \in Seq(T) /\ (Once(q) => Once(rest[n]))
      BY <2>1, <3>1
    <3>5. Good(n)
      BY <3>2, <3>3, <3>4
    <3> HIDE DEF Good
    <3> QED BY <1>2, <3>5
  <2>3. CASE q[n] \in S
    <3>1. rest[n] = Append(rest[n - 1], q[n])
      BY <1>1, <2>3
    <3>t. q[n] \in T
      OBVIOUS
    <3>2. /\ rest[n] \in Seq(T) /\ Len(rest[n]) = Len(rest[n - 1]) + 1
          /\ \A i \in 1 .. Len(rest[n - 1]) : rest[n][i] = rest[n - 1][i]
          /\ rest[n][Len(rest[n])] = q[n]
      BY <2>1, <3>1, <3>t
    <3>3. \A i \in 1 .. Len(rest[n]) : rest[n][i] \in S /\ \E j \in 1 .. n : q[j] = rest[n][i]
      <4> SUFFICES ASSUME NEW i \in 1 .. Len(rest[n])
                   PROVE  rest[n][i] \in S /\ \E j \in 1 .. n : q[j] = rest[n][i]
        OBVIOUS
      <4>1. CASE i = Len(rest[n])
        BY <2>3, <3>2, <4>1
      <4>2. CASE i # Len(rest[n])
        <5>1. i \in 1 .. Len(rest[n - 1]) /\ rest[n][i] = rest[n - 1][i]
          BY <2>1, <3>2, <4>2
        <5>2. PICK j \in 1 .. n - 1 : q[j] = rest[n - 1][i]
          BY <2>1, <5>1
        <5> QED BY <2>1, <5>1, <5>2
      <4> QED BY <4>1, <4>2
    <3>c. \A j \in 1 .. n : q[j] \in S => \E i \in 1 .. Len(rest[n]) : rest[n][i] = q[j]
      <4> SUFFICES ASSUME NEW j \in 1 .. n, q[j] \in S
                   PROVE  \E i \in 1 .. Len(rest[n]) : rest[n][i] = q[j]
        OBVIOUS
      <4>1. CASE j = n
        BY <3>2, <4>1
      <4>2. CASE j \in 1 .. n - 1
        <5>1. PICK i \in 1 .. Len(rest[n - 1]) : rest[n - 1][i] = q[j]
          BY <2>1, <4>2
        <5>2. i \in 1 .. Len(rest[n]) /\ rest[n][i] = q[j]
          BY <2>1, <3>2, <5>1
        <5> QED BY <5>2
      <4> QED BY <2>j, <4>1, <4>2
    <3>4. ASSUME Once(q) PROVE Once(rest[n])
      <4> SUFFICES ASSUME NEW i \in 1 .. Len(rest[n]), NEW j \in 1 .. Len(rest[n]),
                          rest[n][i] = rest[n][j], i < j
                   PROVE  FALSE
        BY <3>2 DEF Once
      <4>1. i \in 1 .. Len(rest[n - 1]) /\ rest[n][i] = rest[n - 1][i]
        BY <2>1, <3>2, SMTT(30)
      <4>2. CASE j = Len(rest[n])
        <5>1. PICK k \in 1 .. n - 1 : q[k] = rest[n - 1][i]
          BY <2>1, <4>1
        <5>2. q[k] = q[n]
          BY <3>2, <4>1, <4>2, <5>1
        <5>3. k # n /\ k \in 1 .. Len(q)
          BY <1>2
        <5> QED BY <3>4, <5>2, <5>3 DEF Once
      <4>3. CASE j # Len(rest[n])
        <5>1. j \in 1 .. Len(rest[n - 1]) /\ rest[n][j] = rest[n - 1][j]
          BY <2>1, <3>2, <4>3
        <5>2. Once(rest[n - 1])
          BY <2>1, <3>4
        <5>3. rest[n - 1][i] = rest[n - 1][j]
          BY <4>1, <5>1
        <5> QED BY <4>1, <5>1, <5>2, <5>3 DEF Once
      <4> QED BY <4>2, <4>3
    <3>5. Good(n)
      BY <3>2, <3>3, <3>c, <3>4
    <3> HIDE DEF Good
    <3> QED BY <1>2, <3>5
  <2> QED BY <2>2, <2>3
<1>5. Good(Len(q))
  <2>1. \A n \in 0 .. Len(q) : n \in G
    <3> HIDE DEF G
    <3> QED BY <1>2, <1>3, <1>4, UpTo
  <2> HIDE DEF Good
  <2>2. Len(q) \in 0 .. Len(q)
    BY <1>2
  <2> QED BY <2>1, <2>2, Zenon
<1>6. q = <<>> => Keep(q, S) = <<>>
  BY <1>1
<1>7. ASSUME NEW d PROVE Contains(Keep(q, S), d) <=> Contains(q, d) /\ d \in S
  <2>1. ASSUME Contains(Keep(q, S), d) PROVE Contains(q, d) /\ d \in S
    <3>1. PICK i \in 1 .. Len(rest[Len(q)]) : rest[Len(q)][i] = d
      BY <1>1, <2>1 DEF Contains
    <3> QED BY <1>5, <3>1 DEF Contains
  <2>2. ASSUME Contains(q, d), d \in S PROVE Contains(Keep(q, S), d)
    <3>1. PICK j \in 1 .. Len(q) : q[j] = d
      BY <2>2 DEF Contains
    <3>2. PICK i \in 1 .. Len(rest[Len(q)]) : rest[Len(q)][i] = q[j]
      BY <1>5, <2>2, <3>1
    <3> QED BY <1>1, <3>1, <3>2 DEF Contains
  <2> QED BY <2>1, <2>2
<1> QED BY <1>1, <1>5, <1>6, <1>7

\* An erasure keeps the order: what comes before an element of the list that is
\* left came before it, and everything kept that came before it still does.
LEMMA KeepOrder ==
    ASSUME NEW T, NEW q \in Seq(T), NEW S, NEW i \in 1 .. Len(Keep(q, S))
    PROVE  \E j \in 1 .. Len(q) :
              /\ q[j] = Keep(q, S)[i] /\ q[j] \in S
              /\ \A k \in 1 .. j - 1 : q[k] \in S => \E m \in 1 .. i - 1 : Keep(q, S)[m] = q[k]
<1>1. PICK rest :
        /\ Keep(q, S) = rest[Len(q)]
        /\ rest[0] = <<>>
        /\ \A n \in 1 .. Len(q) :
              rest[n] = IF q[n] \in S THEN Append(rest[n - 1], q[n]) ELSE rest[n - 1]
  BY KeepStep
<1> DEFINE Placed(r, a, j) == /\ q[j] = r[a] /\ q[j] \in S
                              /\ \A k \in 1 .. j - 1 : q[k] \in S => \E m \in 1 .. a - 1 : r[m] = q[k]
           Kept(n) == \A j \in 1 .. n : q[j] \in S => \E a \in 1 .. Len(rest[n]) : rest[n][a] = q[j]
           Good(n) == /\ rest[n] \in Seq(T)
                      /\ \A a \in 1 .. Len(rest[n]) : \E j \in 1 .. n : Placed(rest[n], a, j)
                      /\ Kept(n)
           G == {n \in 0 .. Len(q) : Good(n)}
<1>2. Len(q) \in Nat
  OBVIOUS
<1>3. 0 \in G
  <2>1. rest[0] \in Seq(T) /\ Len(rest[0]) = 0
    BY <1>1
  <2> QED BY <1>2, <2>1
<1>4. ASSUME NEW n \in 1 .. Len(q), n - 1 \in G PROVE n \in G
  <2>1. Good(n - 1)
    BY <1>4
  <2>j. /\ \A j \in 1 .. n : j \in 1 .. n - 1 \/ j = n
        /\ \A j \in 1 .. n - 1 : j \in 1 .. n
    OBVIOUS
  <2>2. CASE q[n] \notin S
    <3>1. rest[n] = rest[n - 1]
      BY <1>1, <2>2
    <3>2. Kept(n)
      BY <2>1, <2>2, <2>j, <3>1
    <3>3. \A a \in 1 .. Len(rest[n]) : \E j \in 1 .. n : Placed(rest[n], a, j)
      <4> HIDE DEF Placed
      <4> QED BY <2>1, <2>j, <3>1
    <3> HIDE DEF Placed, Kept
    <3> QED BY <2>1, <3>1, <3>2, <3>3
  <2>3. CASE q[n] \in S
    <3>1. rest[n] = Append(rest[n - 1], q[n])
      BY <1>1, <2>3
    <3>t. q[n] \in T
      OBVIOUS
    <3>2. /\ rest[n] \in Seq(T) /\ Len(rest[n]) = Len(rest[n - 1]) + 1
          /\ \A a \in 1 .. Len(rest[n - 1]) : rest[n][a] = rest[n - 1][a]
          /\ rest[n][Len(rest[n])] = q[n]
          /\ Len(rest[n - 1]) \in Nat
      BY <2>1, <3>1, <3>t
    <3>3. Kept(n)
      <4> SUFFICES ASSUME NEW j \in 1 .. n, q[j] \in S
                   PROVE  \E a \in 1 .. Len(rest[n]) : rest[n][a] = q[j]
        OBVIOUS
      <4>1. CASE j = n
        <5>1. Len(rest[n]) \in 1 .. Len(rest[n])
          BY <3>2
        <5> QED BY <3>2, <4>1, <5>1
      <4>2. CASE j \in 1 .. n - 1
        <5>1. PICK a \in 1 .. Len(rest[n - 1]) : rest[n - 1][a] = q[j]
          BY <2>1, <4>2
        <5>2. a \in 1 .. Len(rest[n]) /\ rest[n][a] = q[j]
          BY <3>2, <5>1
        <5> QED BY <5>2
      <4> QED BY <2>j, <4>1, <4>2
    <3>4. ASSUME NEW a \in 1 .. Len(rest[n]) PROVE \E j \in 1 .. n : Placed(rest[n], a, j)
      <4>1. CASE a = Len(rest[n])
        <5>1. ASSUME NEW k \in 1 .. n - 1, q[k] \in S PROVE \E m \in 1 .. a - 1 : rest[n][m] = q[k]
          <6>1. PICK m \in 1 .. Len(rest[n - 1]) : rest[n - 1][m] = q[k]
            BY <2>1, <5>1
          <6>2. m \in 1 .. a - 1
            BY <3>2, <4>1
          <6>3. rest[n][m] = q[k]
            BY <3>2, <6>1
          <6> QED BY <6>2, <6>3
        <5>2. Placed(rest[n], a, n)
          BY <2>3, <3>2, <4>1, <5>1
        <5> HIDE DEF Placed
        <5> QED BY <5>2
      <4>2. CASE a # Len(rest[n])
        <5>0. a \in 1 .. Len(rest[n - 1])
          BY <3>2, <4>2, SMTT(30)
        <5>1. a \in 1 .. Len(rest[n - 1]) /\ rest[n][a] = rest[n - 1][a]
          BY <3>2, <5>0, Zenon
        <5>2. PICK j \in 1 .. n - 1 : Placed(rest[n - 1], a, j)
          <6> HIDE DEF Placed
          <6> QED BY <2>1, <5>1
        <5>3. \A m \in 1 .. a - 1 : rest[n][m] = rest[n - 1][m]
          <6>1. ASSUME NEW m \in 1 .. a - 1 PROVE m \in 1 .. Len(rest[n - 1])
            BY <3>2, <5>1
          <6> QED BY <3>2, <6>1
        <5>4. Placed(rest[n], a, j)
          BY <5>1, <5>2, <5>3
        <5> HIDE DEF Placed
        <5> QED BY <2>j, <5>4
      <4> QED BY <4>1, <4>2
    <3> HIDE DEF Placed, Kept
    <3> QED BY <3>2, <3>3, <3>4
  <2> QED BY <2>2, <2>3
<1>5. Good(Len(q))
  <2>1. \A n \in 0 .. Len(q) : n \in G
    <3> HIDE DEF G
    <3> QED BY <1>2, <1>3, <1>4, UpTo
  <2> HIDE DEF Good
  <2>2. Len(q) \in 0 .. Len(q)
    BY <1>2
  <2> QED BY <2>1, <2>2, Zenon
<1>6. PICK kept : kept = Keep(q, S)
  OBVIOUS
<1>7. \A a \in 1 .. Len(kept) : \E j \in 1 .. Len(q) : Placed(kept, a, j)
  <2>1. kept = rest[Len(q)]
    BY <1>1, <1>6
  <2> HIDE DEF Placed, Kept
  <2> QED BY <1>5, <2>1
<1>8. PICK j \in 1 .. Len(q) : Placed(kept, i, j)
  <2> HIDE DEF Placed
  <2> QED BY <1>6, <1>7
<1> QED BY <1>6, <1>8

\* The first element of a list that is in a set.
LEMMA FirstProperties ==
    ASSUME NEW T, NEW q \in Seq(T), NEW S, NEW d, Contains(q, d), d \in S
    PROVE  /\ First(q, S) \in S /\ First(q, S) \in T /\ Contains(q, First(q, S))
           /\ \E i \in 1 .. Len(q) : q[i] = First(q, S) /\ \A j \in 1 .. i - 1 : q[j] \notin S
<1> DEFINE I == {i \in 1 .. Len(q) : q[i] \in S}
           k == SelectInSeq(q, LAMBDA c : c \in S)
<1>1. I # {} /\ I \subseteq Nat
  BY DEF Contains
<1>2. \E x \in I : \A y \in I : x <= y
  <2> HIDE DEF I
  <2> QED BY <1>1, LeastNumber
<1>3. k = CHOOSE x \in I : \A y \in I : x <= y
  BY <1>1 DEF SelectInSeq, Min
<1>4. k \in I /\ \A y \in I : k <= y
  <2> HIDE DEF I, k
  <2> QED BY <1>2, <1>3
<1>5. k \in 1 .. Len(q) /\ q[k] \in S /\ q[k] \in T
  BY <1>4
<1>6. First(q, S) = q[k]
  BY DEF First
<1>7. \A j \in 1 .. k - 1 : q[j] \notin S
  <2>1. ASSUME NEW j \in 1 .. k - 1, q[j] \in S PROVE FALSE
    <3>1. j \in I
      BY <1>5, <2>1
    <3>2. j < k
      BY <1>5
    <3> HIDE DEF I, k
    <3> QED BY <1>4, <1>5, <3>1, <3>2
  <2> QED BY <2>1
<1> HIDE DEF k
<1> QED BY <1>5, <1>6, <1>7 DEF Contains
=============================================================================
