----------------------------- MODULE TextProofs -----------------------------
(***************************************************************************)
(* Texts of any length: sums over a text, the places of its characters,    *)
(* its lines, the editing of it and the difference of two of them.         *)
(*                                                                         *)
(* A fact about every text is an induction.  Everywhere is the form of it  *)
(* used here, over sets of natural numbers: a set that holds 0 and with    *)
(* every number the next is all of them.                                   *)
(***************************************************************************)
EXTENDS TextEditor, SyntaxHighlighting,
        SequenceTheorems, FiniteSetTheorems, WellFoundedInduction, TLAPS

(* A set of natural numbers that is not empty has a first element.         *)
LEMMA FirstOf ==
  ASSUME NEW T \in SUBSET Nat, T # {}
  PROVE  \E n \in T : \A m \in T : n <= m
<1>1. PICK n \in T : \A m \in T : ~(<<m, n>> \in OpToRel(<, Nat))
  BY NatLessThanWellFounded, WFMin
<1>2. ASSUME NEW m \in T PROVE n <= m
  <2>1. ~(m < n)
    BY <1>1 DEF OpToRel
  <2>2. QED
    BY <2>1
<1>3. QED
  BY <1>2

LEMMA Everywhere ==
  ASSUME NEW T \in SUBSET Nat, 0 \in T, \A n \in T : n + 1 \in T
  PROVE  T = Nat
<1>1. SUFFICES ASSUME Nat \ T # {} PROVE FALSE
  OBVIOUS
<1>2. PICK n \in Nat \ T : \A m \in Nat \ T : n <= m
  BY <1>1, FirstOf
<1>3. n # 0 /\ n - 1 \in Nat /\ n - 1 \in T
  BY <1>2
<1>4. QED
  BY <1>2, <1>3

LEMMA LeastIs ==
  ASSUME NEW T \in SUBSET Nat, T # {}
  PROVE  Least(T) \in T /\ \A m \in T : Least(T) <= m
<1>1. \E n \in T : \A m \in T : n <= m
  BY FirstOf
<1>2. QED
  BY <1>1 DEF Least

LEMMA GreatestIs ==
  ASSUME NEW T \in SUBSET Nat, T # {}, NEW b \in Nat, \A m \in T : m <= b
  PROVE  Greatest(T) \in T /\ \A m \in T : m <= Greatest(T)
<1> DEFINE U == {b - m : m \in T}
<1>1. U \in SUBSET Nat /\ U # {}
  <2>1. ASSUME NEW m \in T PROVE b - m \in Nat
    OBVIOUS
  <2>2. QED
    BY <2>1
<1>2. PICK u \in U : \A v \in U : u <= v
  BY <1>1, FirstOf
<1>3. PICK n \in T : u = b - n
  BY <1>2
<1>4. \A m \in T : m <= n
  BY <1>2, <1>3
<1>5. QED
  BY <1>3, <1>4 DEF Greatest

-----------------------------------------------------------------------------
(* A recursive definition over 0..len has what it describes.               *)
Steps(X, len) == [1..len -> [X -> X]]
Recursive(X, first, len, step, f) ==
  /\ f \in [0..len -> X] /\ f[0] = first
  /\ \A n \in 1..len : f[n] = step[n][f[n - 1]]

LEMMA RecursionExists ==
  ASSUME NEW X, NEW first \in X, NEW len \in Nat, NEW step \in Steps(X, len)
  PROVE  \E f : Recursive(X, first, len, step, f)
<1>0. step \in [1..len -> [X -> X]]
  BY DEF Steps
<1> DEFINE T == {m \in Nat : m <= len => \E f \in [0..m -> X] :
                   f[0] = first /\ \A n \in 1..m : f[n] = step[n][f[n - 1]]}
<1>1. 0 \in T
  <2> DEFINE f == [i \in 0..0 |-> first]
  <2>1. f \in [0..0 -> X] /\ f[0] = first
    OBVIOUS
  <2> HIDE DEF f
  <2>2. \A n \in 1..0 : f[n] = step[n][f[n - 1]]
    OBVIOUS
  <2>3. QED
    BY <2>1, <2>2
<1>2. ASSUME NEW m \in T PROVE m + 1 \in T
  <2>1. SUFFICES ASSUME m + 1 <= len
                 PROVE  \E f \in [0..(m + 1) -> X] :
                   f[0] = first /\ \A n \in 1..(m + 1) : f[n] = step[n][f[n - 1]]
    OBVIOUS
  <2>2. PICK g \in [0..m -> X] :
               g[0] = first /\ \A n \in 1..m : g[n] = step[n][g[n - 1]]
    BY <2>1
  <2> DEFINE f == [n \in 0..(m + 1) |-> IF n = m + 1 THEN step[n][g[m]] ELSE g[n]]
  <2>3. step[m + 1][g[m]] \in X
    BY <1>0, <2>1
  <2>4. f \in [0..(m + 1) -> X] /\ f[0] = first
    BY <2>2, <2>3
  <2>5. ASSUME NEW n \in 1..(m + 1) PROVE f[n] = step[n][f[n - 1]]
    <3>1. CASE n = m + 1
      BY <3>1
    <3>2. CASE n # m + 1
      <4>1. n \in 1..m /\ n - 1 \in 0..m /\ f[n] = g[n] /\ f[n - 1] = g[n - 1]
        BY <3>2
      <4>2. QED
        BY <2>2, <4>1
    <3>3. QED
      BY <3>1, <3>2
  <2> HIDE DEF f
  <2>6. QED
    BY <2>4, <2>5
<1>3. len \in T
  BY <1>1, <1>2, Everywhere
<1>4. QED
  BY <1>3 DEF Recursive

(* What a sum adds up to.                                                  *)
Weights == [Chars -> Nat]
Adds(size, s, f) ==
  /\ f \in [0..Len(s) -> Nat] /\ f[0] = 0
  /\ \A n \in 1..Len(s) : f[n] = f[n - 1] + size[s[n]]

LEMMA TotalAdds ==
  ASSUME NEW size \in Weights, NEW s \in Seq(Chars)
  PROVE  \E f : Adds(size, s, f) /\ Total(size, s) = f[Len(s)]
<1> DEFINE step == [n \in 1..Len(s) |-> [x \in Nat |-> x + size[s[n]]]]
           sum == CHOOSE f : f = [n \in 0..Len(s) |->
                    IF n = 0 THEN 0 ELSE f[n - 1] + size[s[n]]]
<1>0. Len(s) \in Nat /\ \A n \in 1..Len(s) : size[s[n]] \in Nat
  BY DEF Weights
<1>1. step \in [1..Len(s) -> [Nat -> Nat]]
  BY <1>0
<1>2. \A x \in Nat, n \in 1..Len(s) : step[n][x] = x + size[s[n]]
  OBVIOUS
<1> HIDE DEF step
<1>3. PICK f \in [0..Len(s) -> Nat] :
             f[0] = 0 /\ \A n \in 1..Len(s) : f[n] = step[n][f[n - 1]]
  <2>1. 0 \in Nat /\ Len(s) \in Nat /\ step \in Steps(Nat, Len(s))
    BY <1>0, <1>1 DEF Steps
  <2>2. \E f : Recursive(Nat, 0, Len(s), step, f)
    BY <2>1, RecursionExists
  <2>3. QED
    BY <2>2 DEF Recursive
<1>4. Adds(size, s, f)
  <2>1. ASSUME NEW n \in 1..Len(s) PROVE f[n] = f[n - 1] + size[s[n]]
    <3>1. n - 1 \in 0..Len(s) /\ f[n - 1] \in Nat
      <4>1. n - 1 \in 0..Len(s)
        BY <1>0
      <4>2. QED
        BY <1>3, <4>1
    <3>2. QED
      BY <1>2, <1>3, <3>1
  <2>2. QED
    BY <1>3, <2>1 DEF Adds
<1>5. f = [n \in 0..Len(s) |-> IF n = 0 THEN 0 ELSE f[n - 1] + size[s[n]]]
  BY <1>0, <1>3, <1>4 DEF Adds
<1>6. sum = [n \in 0..Len(s) |-> IF n = 0 THEN 0 ELSE sum[n - 1] + size[s[n]]]
  BY <1>5, Zenon
<1>7. Total(size, s) = sum[Len(s)]
  BY Zenon DEF Total
<1> HIDE DEF sum
<1> DEFINE T == {m \in Nat : m <= Len(s) => sum[m] = f[m]}
<1>8. 0 \in T
  BY <1>0, <1>3, <1>6
<1>9. ASSUME NEW m \in T PROVE m + 1 \in T
  BY <1>0, <1>4, <1>6 DEF Adds
<1>10. Len(s) \in T
  BY <1>0, <1>8, <1>9, Everywhere
<1>11. QED
  BY <1>0, <1>4, <1>7, <1>10

LEMMA AddsOnce ==
  ASSUME NEW size \in Weights, NEW s \in Seq(Chars), NEW f, NEW g,
         Adds(size, s, f), Adds(size, s, g)
  PROVE  f[Len(s)] = g[Len(s)]
<1> DEFINE T == {m \in Nat : m <= Len(s) => f[m] = g[m]}
<1>1. 0 \in T
  BY DEF Adds
<1>2. ASSUME NEW m \in T PROVE m + 1 \in T
  BY DEF Adds
<1>3. T = Nat
  BY <1>1, <1>2, Everywhere
<1>4. Len(s) \in Nat
  OBVIOUS
<1>5. QED
  BY <1>3, <1>4

(* The part of a text between two indices.                                 *)
LEMMA PartOf ==
  ASSUME NEW X, NEW s \in Seq(X), NEW b \in 0..Len(s), NEW a \in 0..b
  PROVE  /\ SubSeq(s, a + 1, b) \in Seq(X)
         /\ Len(SubSeq(s, a + 1, b)) = b - a
         /\ \A i \in 1..(b - a) : SubSeq(s, a + 1, b)[i] = s[a + i]
OBVIOUS

(* The sum of what comes before an index, and of a part of a text.         *)
Upto(size, s, i) == Total(size, SubSeq(s, 1, i))

LEMMA PartTotal ==
  ASSUME NEW size \in Weights, NEW s \in Seq(Chars), NEW f, Adds(size, s, f),
         NEW b \in 0..Len(s), NEW a \in 0..b
  PROVE  Total(size, SubSeq(s, a + 1, b)) = f[b] - f[a]
<1> DEFINE u == SubSeq(s, a + 1, b)
           g == [n \in 0..(b - a) |-> f[a + n] - f[a]]
<1>1. /\ u \in Seq(Chars) /\ Len(u) = b - a
      /\ \A i \in 1..(b - a) : u[i] = s[a + i]
  BY PartOf
<1> HIDE DEF u
<1> DEFINE T == {m \in Nat : m <= b - a => f[a + m] - f[a] \in Nat}
<1>2. 0 \in T
  BY DEF Adds
<1>3. ASSUME NEW m \in T PROVE m + 1 \in T
  <2>1. SUFFICES ASSUME m + 1 <= b - a PROVE f[a + (m + 1)] - f[a] \in Nat
    OBVIOUS
  <2>2. PICK n \in Nat : n = a + m + 1
    OBVIOUS
  <2>3. n \in 1..Len(s) /\ f[n] = f[n - 1] + size[s[n]] /\ size[s[n]] \in Nat
    BY <2>1, <2>2 DEF Adds, Weights
  <2>4. f[n - 1] - f[a] \in Nat /\ f[a] \in Nat /\ f[n - 1] \in Nat
    BY <2>1, <2>2 DEF Adds
  <2>5. QED
    BY <2>2, <2>3, <2>4
<1>4. T = Nat
  BY <1>2, <1>3, Everywhere
<1>5. g \in [0..(b - a) -> Nat] /\ g[0] = 0
  <2>1. ASSUME NEW n \in 0..(b - a) PROVE f[a + n] - f[a] \in Nat
    <3>1. n \in Nat /\ n <= b - a
      OBVIOUS
    <3>2. n \in T
      BY <1>4, <3>1
    <3>3. QED
      BY <3>1, <3>2
  <2>2. g[0] = f[a] - f[a] /\ f[a] \in Nat
    BY DEF Adds
  <2>3. QED
    BY <2>1, <2>2
<1>6. ASSUME NEW n \in 1..(b - a) PROVE g[n] = g[n - 1] + size[u[n]]
  <2>1. PICK k \in 1..Len(s) : k = a + n
    OBVIOUS
  <2>2. f[k] = f[k - 1] + size[s[k]] /\ u[n] = s[k]
    BY <1>1, <2>1 DEF Adds
  <2>3. f[k - 1] \in Nat /\ f[a] \in Nat /\ size[s[k]] \in Nat
    <3>1. k - 1 \in 0..Len(s) /\ a \in 0..Len(s) /\ s[k] \in Chars
      BY <2>1
    <3>2. QED
      BY <3>1 DEF Adds, Weights
  <2>4. g[n] = f[k] - f[a] /\ g[n - 1] = f[k - 1] - f[a]
    BY <2>1
  <2>5. QED
    BY <2>2, <2>3, <2>4
<1>7. g[b - a] = f[b] - f[a]
  OBVIOUS
<1> HIDE DEF g
<1>8. Adds(size, u, g)
  BY <1>1, <1>5, <1>6 DEF Adds
<1>9. Total(size, u) = g[Len(u)]
  BY <1>1, <1>8, TotalAdds, AddsOnce
<1>10. QED
  BY <1>1, <1>7, <1>9 DEF u

LEMMA Sums ==
  ASSUME NEW size \in Weights, NEW s \in Seq(Chars)
  PROVE  /\ Upto(size, s, 0) = 0 /\ Upto(size, s, Len(s)) = Total(size, s)
         /\ \A i \in 0..Len(s) : Upto(size, s, i) \in Nat
         /\ \A i \in 1..Len(s) : Upto(size, s, i) = Upto(size, s, i - 1) + size[s[i]]
         /\ \A b \in 0..Len(s) : \A a \in 0..b :
              Total(size, SubSeq(s, a + 1, b)) = Upto(size, s, b) - Upto(size, s, a)
<1>1. PICK f : Adds(size, s, f)
  BY TotalAdds
<1>2. ASSUME NEW b \in 0..Len(s), NEW a \in 0..b
      PROVE  Total(size, SubSeq(s, a + 1, b)) = f[b] - f[a]
  BY <1>1, PartTotal
<1>3. f[0] = 0 /\ Len(s) \in Nat /\ \A i \in 0..Len(s) : f[i] \in Nat
  <2>1. f \in [0..Len(s) -> Nat] /\ f[0] = 0
    BY <1>1 DEF Adds
  <2>2. Len(s) \in Nat
    OBVIOUS
  <2>3. QED
    BY <2>1, <2>2
<1>4. ASSUME NEW i \in 0..Len(s) PROVE Upto(size, s, i) = f[i]
  BY <1>2, <1>3 DEF Upto
<1>5. SubSeq(s, 1, Len(s)) = s
  OBVIOUS
<1>6. Upto(size, s, Len(s)) = Total(size, s)
  BY <1>5 DEF Upto
<1>7. ASSUME NEW i \in 1..Len(s) PROVE Upto(size, s, i) = Upto(size, s, i - 1) + size[s[i]]
  <2>1. i \in 0..Len(s) /\ i - 1 \in 0..Len(s)
    OBVIOUS
  <2>2. QED
    BY <1>1, <1>4, <2>1 DEF Adds
<1>8. ASSUME NEW b \in 0..Len(s), NEW a \in 0..b
      PROVE  Total(size, SubSeq(s, a + 1, b)) = Upto(size, s, b) - Upto(size, s, a)
  <2>1. a \in 0..Len(s)
    OBVIOUS
  <2>2. QED
    BY <1>2, <1>4, <2>1
<1>9. Upto(size, s, 0) = 0 /\ \A i \in 0..Len(s) : Upto(size, s, i) \in Nat
  BY <1>3, <1>4
<1>10. QED
  BY <1>6, <1>7, <1>8, <1>9

(* More of a text weighs no less, and more than its part if every          *)
(* character weighs something.                                             *)
LEMMA SumsGrow ==
  ASSUME NEW size \in Weights, NEW s \in Seq(Chars), NEW j \in 0..Len(s), NEW i \in 0..j
  PROVE  /\ Upto(size, s, i) <= Upto(size, s, j)
         /\ (\A c \in Chars : size[c] > 0) /\ i < j => Upto(size, s, i) < Upto(size, s, j)
<1> DEFINE f == [n \in 0..Len(s) |-> Upto(size, s, n)]
           T == {m \in Nat : i + m <= Len(s) =>
                   /\ f[i] <= f[i + m]
                   /\ (\A c \in Chars : size[c] > 0) /\ m > 0 => f[i] < f[i + m]}
<1>1. /\ \A n \in 0..Len(s) : f[n] \in Nat
      /\ \A n \in 1..Len(s) : f[n] = f[n - 1] + size[s[n]]
  BY Sums
<1>2. f[i] = Upto(size, s, i) /\ f[j] = Upto(size, s, j) /\ Len(s) \in Nat
  OBVIOUS
<1>3. \A n \in 1..Len(s) : s[n] \in Chars /\ size[s[n]] \in Nat
  BY DEF Weights
<1> HIDE DEF f
<1>4. 0 \in T
  BY <1>1
<1>5. ASSUME NEW m \in T PROVE m + 1 \in T
  <2>1. SUFFICES ASSUME i + m + 1 <= Len(s)
                 PROVE  /\ f[i] <= f[i + (m + 1)]
                        /\ (\A c \in Chars : size[c] > 0) => f[i] < f[i + (m + 1)]
    OBVIOUS
  <2>2. PICK n \in 1..Len(s) : n = i + (m + 1)
    BY <2>1
  <2>3. f[n] = f[n - 1] + size[s[n]] /\ f[n - 1] \in Nat /\ f[i] \in Nat /\ n - 1 = i + m
    BY <1>1, <2>2
  <2>4. f[i] <= f[n - 1]
    BY <2>1, <2>3
  <2>5. QED
    BY <1>3, <2>2, <2>3, <2>4
<1>6. T = Nat
  BY <1>4, <1>5, Everywhere
<1>7. PICK m \in T : i + m = j
  <2>1. j - i \in Nat /\ i + (j - i) = j
    OBVIOUS
  <2>2. QED
    BY <1>6, <2>1
<1>8. QED
  BY <1>2, <1>7

-----------------------------------------------------------------------------
(* Places: one for every index, in their order.                            *)
LEMMA WeightsOfChars ==
  /\ Bytes \in Weights /\ Cells \in Weights /\ Units \in Weights
  /\ \A c \in Chars : Bytes[c] > 0
BY DEF Weights, Bytes, Cells, Units, Chars

LEMMA Places ==
  ASSUME NEW s \in Seq(Chars)
  PROVE  /\ Place(s, 0) = 0 /\ Place(s, Len(s)) = ByteLen(s) /\ Len(s) \in Nat
         /\ \A i \in 0..Len(s) : Place(s, i) \in Nat
         /\ \A i \in 1..Len(s) : Place(s, i) = Place(s, i - 1) + Bytes[s[i]]
         /\ \A i, j \in 0..Len(s) :
              (i < j <=> Place(s, i) < Place(s, j)) /\ (i = j <=> Place(s, i) = Place(s, j))
         /\ \A b \in 0..Len(s) : \A a \in 0..b :
              ByteLen(SubSeq(s, a + 1, b)) = Place(s, b) - Place(s, a)
<1>1. ASSUME NEW i PROVE Place(s, i) = Upto(Bytes, s, i)
  BY DEF Place, Upto, ByteLen
<1>2. Bytes \in Weights /\ \A c \in Chars : Bytes[c] > 0
  BY WeightsOfChars
<1>3. ASSUME NEW j \in 0..Len(s), NEW i \in 0..j, i < j PROVE Place(s, i) < Place(s, j)
  BY <1>1, <1>2, <1>3, SumsGrow
<1>4. \A i \in 0..Len(s) : Place(s, i) \in Nat
  BY <1>1, <1>2, Sums
<1>5. ASSUME NEW i \in 0..Len(s), NEW j \in 0..Len(s)
      PROVE  (i < j <=> Place(s, i) < Place(s, j)) /\ (i = j <=> Place(s, i) = Place(s, j))
  <2>1. Len(s) \in Nat /\ Place(s, i) \in Nat /\ Place(s, j) \in Nat
    BY <1>4
  <2>2. CASE i < j
    <3>1. i \in 0..j
      BY <2>2
    <3>2. QED
      BY <1>3, <2>1, <2>2, <3>1
  <2>3. CASE j < i
    <3>1. j \in 0..i
      BY <2>3
    <3>2. QED
      BY <1>3, <2>1, <2>3, <3>1
  <2>4. QED
    BY <2>1, <2>2, <2>3
<1>6. ASSUME NEW b \in 0..Len(s), NEW a \in 0..b
      PROVE  ByteLen(SubSeq(s, a + 1, b)) = Place(s, b) - Place(s, a)
  BY <1>1, <1>2, Sums DEF ByteLen
<1>7. /\ Place(s, 0) = 0 /\ Place(s, Len(s)) = ByteLen(s)
      /\ \A i \in 1..Len(s) : Place(s, i) = Place(s, i - 1) + Bytes[s[i]]
  BY <1>1, <1>2, Sums DEF ByteLen
<1>8. QED
  BY <1>4, <1>5, <1>6, <1>7

LEMMA IndexOfPlace ==
  ASSUME NEW s \in Seq(Chars), NEW i \in 0..Len(s)
  PROVE  Index(s, Place(s, i)) = i
BY Places DEF Index

(* A boundary has an index.                                                *)
LEMMA BoundaryHasIndex ==
  ASSUME NEW s \in Seq(Chars), NEW b \in Boundaries(s)
  PROVE  b \in Nat /\ b <= ByteLen(s) /\ Index(s, b) \in 0..Len(s) /\ Place(s, Index(s, b)) = b
<1>1. PICK i \in 0..Len(s) : b = Place(s, i)
  BY DEF Boundaries
<1>2. Index(s, b) = i
  BY <1>1, IndexOfPlace
<1>3. Len(s) \in 0..Len(s) /\ (i = Len(s) \/ i < Len(s))
  BY Places
<1>4. b \in Nat /\ b <= ByteLen(s)
  <2>1. /\ Place(s, i) \in Nat /\ Place(s, Len(s)) \in Nat
        /\ Place(s, Len(s)) = ByteLen(s)
        /\ i < Len(s) => Place(s, i) < Place(s, Len(s))
    BY <1>3, Places
  <2>2. QED
    BY <1>1, <1>3, <2>1
<1>5. QED
  BY <1>1, <1>2, <1>4

LEMMA PlaceIsBoundary ==
  ASSUME NEW s \in Seq(Chars), NEW i \in 0..Len(s)
  PROVE  Place(s, i) \in Boundaries(s)
BY DEF Boundaries

LEMMA PrevBoundary ==
  ASSUME NEW s \in Seq(Chars), NEW b \in Nat
  PROVE  /\ PrevCharBoundary(s, b) \in Boundaries(s) /\ PrevCharBoundary(s, b) <= b
         /\ b \in Boundaries(s) => PrevCharBoundary(s, b) = b
         /\ \A p \in Boundaries(s) : p <= b => p <= PrevCharBoundary(s, b)
<1> DEFINE T == {p \in Boundaries(s) : p <= b}
<1>1. T \in SUBSET Nat
  BY BoundaryHasIndex
<1>2. 0 \in T
  BY Places, PlaceIsBoundary
<1>3. Greatest(T) \in T /\ \A p \in T : p <= Greatest(T)
  BY <1>1, <1>2, GreatestIs
<1>4. PICK g : g = Greatest(T) /\ g = PrevCharBoundary(s, b)
  BY DEF PrevCharBoundary
<1>5. g \in Boundaries(s) /\ g \in Nat /\ g <= b
  BY <1>1, <1>3, <1>4
<1>6. \A p \in Boundaries(s) : p <= b => p <= g
  BY <1>3, <1>4
<1>7. b \in Boundaries(s) => g = b
  BY <1>5, <1>6
<1>8. QED
  BY <1>4, <1>5, <1>6, <1>7

-----------------------------------------------------------------------------
(* Lines.  Of a finite set of numbers each has as many before it as it     *)
(* comes after, and for every count below the size there is one.           *)
Rank(S, i) == Cardinality({j \in S : j < i})

LEMMA RankExists ==
  ASSUME NEW S \in SUBSET Nat, IsFiniteSet(S), NEW k \in Nat, k < Cardinality(S)
  PROVE  \E i \in S : Rank(S, i) = k
<1> DEFINE T == {m \in Nat : m < Cardinality(S) => \E i \in S : Rank(S, i) = m}
<1>0. Cardinality(S) \in Nat
  BY FS_CardinalityType
<1>1. 0 \in T
  <2>1. SUFFICES ASSUME 0 < Cardinality(S) PROVE \E i \in S : Rank(S, i) = 0
    OBVIOUS
  <2>2. S # {}
    BY <2>1, FS_EmptySet
  <2>3. PICK i \in S : \A j \in S : i <= j
    BY <2>2, FirstOf
  <2>4. {j \in S : j < i} = {}
    <3>1. ASSUME NEW j \in S PROVE ~(j < i)
      <4>1. i <= j /\ i \in Nat /\ j \in Nat
        BY <2>3
      <4>2. QED
        BY <4>1
    <3>2. QED
      BY <3>1
  <2>5. QED
    BY <2>4, FS_EmptySet DEF Rank
<1>2. ASSUME NEW m \in T PROVE m + 1 \in T
  <2>1. SUFFICES ASSUME m + 1 < Cardinality(S) PROVE \E i \in S : Rank(S, i) = m + 1
    OBVIOUS
  <2>2. PICK i \in S : Rank(S, i) = m
    BY <1>0, <2>1
  <2> DEFINE Before == {j \in S : j < i}
             After == {j \in S : i < j}
  <2>3. IsFiniteSet(Before)
    BY FS_Subset
  <2>4. IsFiniteSet(Before \cup {i}) /\ Cardinality(Before \cup {i}) = m + 1
    BY <2>2, <2>3, FS_AddElement DEF Rank
  <2>5. After # {}
    <3>1. SUFFICES ASSUME After = {} PROVE FALSE
      OBVIOUS
    <3>2. S = Before \cup {i}
      <4>1. ASSUME NEW j \in S PROVE j < i \/ j = i \/ i < j
        OBVIOUS
      <4>2. QED
        BY <3>1, <4>1
    <3>3. QED
      BY <1>0, <2>1, <2>4, <3>2
  <2>6. PICK n \in After : \A j \in After : n <= j
    <3>1. After \in SUBSET Nat
      OBVIOUS
    <3>2. QED
      BY <2>5, <3>1, FirstOf
  <2>7. {j \in S : j < n} = Before \cup {i}
    <3>1. ASSUME NEW j \in S PROVE j < n <=> j < i \/ j = i
      <4>1. i < n /\ n \in Nat /\ i \in Nat /\ j \in Nat /\ (i < j => n <= j)
        BY <2>6
      <4>2. QED
        BY <4>1
    <3>2. QED
      BY <3>1
  <2>8. QED
    BY <2>4, <2>6, <2>7 DEF Rank
<1>3. T = Nat
  BY <1>1, <1>2, Everywhere
<1>4. QED
  BY <1>3

Newlines(t) == {i \in 1..Len(t) : t[i] = "newline"}

LEMMA LineStartsOf ==
  ASSUME NEW t \in Seq(Chars)
  PROVE  /\ LineStarts(t) = {0} \cup Newlines(t) /\ LineStarts(t) \in SUBSET (0..Len(t))
         /\ IsFiniteSet(Newlines(t)) /\ IsFiniteSet(LineStarts(t))
         /\ Cardinality(Newlines(t)) \in Nat /\ LenLines(t) = Cardinality(Newlines(t)) + 1
<1>1. Len(t) \in Nat
  OBVIOUS
<1>2. IsFiniteSet(1..Len(t)) /\ Newlines(t) \in SUBSET (1..Len(t))
  BY <1>1, FS_Interval DEF Newlines
<1>3. IsFiniteSet(Newlines(t)) /\ Cardinality(Newlines(t)) \in Nat
  BY <1>2, FS_Subset, FS_CardinalityType
<1>4. LineStarts(t) = Newlines(t) \cup {0}
  BY DEF LineStarts, Newlines
<1>5. 0 \notin Newlines(t)
  BY <1>2
<1>6. QED
  BY <1>1, <1>2, <1>3, <1>4, <1>5, FS_AddElement DEF LenLines

(* The lines there are.                                                    *)
LineNumbers(t) == 0..(LenLines(t) - 1)

LEMMA LineForByteIsRow ==
  ASSUME NEW t \in Seq(Chars), NEW b
  PROVE  LineForByte(t, b) \in LineNumbers(t)
<1> DEFINE N == {i \in 1..Len(t) : t[i] = "newline" /\ Place(t, i) <= b}
<1>1. N \in SUBSET Newlines(t)
  BY DEF Newlines
<1>2. IsFiniteSet(N) /\ Cardinality(N) \in Nat /\ Cardinality(N) <= Cardinality(Newlines(t))
  BY <1>1, LineStartsOf, FS_Subset, FS_CardinalityType
<1>3. LineForByte(t, b) = Cardinality(N)
  BY DEF LineForByte
<1> HIDE DEF N
<1>4. QED
  BY <1>2, <1>3, LineStartsOf DEF LineNumbers

LEMMA LineStartOf ==
  ASSUME NEW t \in Seq(Chars), NEW line \in LineNumbers(t)
  PROVE  LineStart(t, line) \in LineStarts(t) /\ Rank(LineStarts(t), LineStart(t, line)) = line
<1> DEFINE S == LineStarts(t)
<1>1. S \in SUBSET Nat /\ IsFiniteSet(S) /\ 0 \in S
  BY LineStartsOf
<1>2. line \in Nat /\ line < Cardinality(S)
  BY LineStartsOf DEF LineNumbers, LenLines
<1>3. CASE line = 0
  <2>1. {j \in S : j < 0} = {}
    BY <1>1
  <2>2. QED
    BY <1>1, <1>3, <2>1, FS_EmptySet DEF LineStart, Rank
<1>4. CASE line # 0
  <2>1. \E i \in S : Rank(S, i) = line
    BY <1>1, <1>2, RankExists
  <2>2. QED
    BY <1>4, <2>1 DEF LineStart, Rank
<1>5. QED
  BY <1>3, <1>4

(* A line is a part of the text, with no newline in it and none before it  *)
(* but the one it starts after.                                            *)
LEMMA LineIsPart ==
  ASSUME NEW t \in Seq(Chars), NEW line \in LineNumbers(t)
  PROVE  \E end \in LineStart(t, line)..Len(t) :
           /\ LineStart(t, line) \in 0..end
           /\ Line(t, line) = SubSeq(t, LineStart(t, line) + 1, end)
           /\ \A i \in (LineStart(t, line) + 1)..end : t[i] # "newline"
           /\ end = Len(t) \/ (end + 1 \in 1..Len(t) /\ t[end + 1] = "newline")
<1> DEFINE from == LineStart(t, line)
           ends == {i \in from..(Len(t) - 1) : t[i + 1] = "newline"}
<1>1. from \in 0..Len(t) /\ Len(t) \in Nat
  BY LineStartOf, LineStartsOf
<1>2. Line(t, line) = SubSeq(t, from + 1, IF ends = {} THEN Len(t) ELSE Least(ends))
  BY DEF Line
<1>3. CASE ends = {}
  <2>1. ASSUME NEW i \in (from + 1)..Len(t) PROVE t[i] # "newline"
    <3>1. i - 1 \in from..(Len(t) - 1) /\ (i - 1) + 1 = i
      BY <1>1
    <3>2. QED
      BY <1>3, <3>1
  <2>2. Len(t) \in from..Len(t) /\ Line(t, line) = SubSeq(t, from + 1, Len(t))
    BY <1>1, <1>2, <1>3
  <2>3. QED
    BY <1>1, <2>1, <2>2
<1>4. CASE ends # {}
  <2>1. ends \in SUBSET Nat
    BY <1>1
  <2>2. Least(ends) \in ends /\ \A i \in ends : Least(ends) <= i
    BY <1>4, <2>1, LeastIs
  <2>3. PICK end : end = Least(ends)
    OBVIOUS
  <2>4. end \in from..(Len(t) - 1) /\ t[end + 1] = "newline"
    BY <2>2, <2>3
  <2>5. ASSUME NEW i \in (from + 1)..end PROVE t[i] # "newline"
    <3>1. i - 1 \in from..(Len(t) - 1) /\ (i - 1) + 1 = i /\ i - 1 < end
      BY <1>1, <2>4
    <3>2. QED
      BY <2>2, <2>3, <3>1
  <2>6. Line(t, line) = SubSeq(t, from + 1, end)
    BY <1>2, <1>4, <2>3
  <2>7. end \in from..Len(t) /\ from \in 0..end /\ end + 1 \in 1..Len(t)
    BY <1>1, <2>4
  <2> HIDE DEF from
  <2>8. QED
    BY <2>4, <2>5, <2>6, <2>7 DEF from
<1>5. QED
  BY <1>3, <1>4

LEMMA PlaceInLine ==
  ASSUME NEW t \in Seq(Chars), NEW line \in LineNumbers(t)
  PROVE  /\ Line(t, line) \in Seq(Chars) /\ Len(Line(t, line)) \in Nat
         /\ LineStart(t, line) \in 0..Len(t)
         /\ LineStart(t, line) + Len(Line(t, line)) <= Len(t)
         /\ \A i \in 0..Len(Line(t, line)) :
              LineToByte(t, line) + Place(Line(t, line), i) = Place(t, LineStart(t, line) + i)
<1> DEFINE from == LineStart(t, line)
           s == Line(t, line)
<1>1. PICK end \in from..Len(t) : from \in 0..end /\ s = SubSeq(t, from + 1, end)
  BY LineIsPart
<1>2. from \in 0..Len(t) /\ Len(t) \in Nat /\ end \in 0..Len(t)
  BY <1>1, LineStartOf, LineStartsOf
<1>3. s \in Seq(Chars) /\ Len(s) = end - from /\ \A i \in 1..Len(s) : s[i] = t[from + i]
  BY <1>1, <1>2, PartOf
<1> HIDE DEF s, from
<1>4. ASSUME NEW i \in 0..Len(s) PROVE LineToByte(t, line) + Place(s, i) = Place(t, from + i)
  <2>1. from + i \in 0..Len(t) /\ from \in 0..(from + i)
    BY <1>2, <1>3
  <2>2. SubSeq(s, 1, i) = SubSeq(t, from + 1, from + i)
    <3>1. /\ SubSeq(s, 1, i) \in Seq(Chars) /\ Len(SubSeq(s, 1, i)) = i
          /\ \A j \in 1..i : SubSeq(s, 1, i)[j] = s[j]
      BY <1>3
    <3>2. /\ SubSeq(t, from + 1, from + i) \in Seq(Chars)
          /\ Len(SubSeq(t, from + 1, from + i)) = i
          /\ \A j \in 1..i : SubSeq(t, from + 1, from + i)[j] = t[from + j]
      BY <2>1, PartOf
    <3>3. ASSUME NEW j \in 1..i PROVE s[j] = t[from + j]
      BY <1>3
    <3>4. QED
      BY <3>1, <3>2, <3>3, SeqEqual
  <2>3. Place(s, i) = Place(t, from + i) - Place(t, from)
    <3>1. Place(s, i) = ByteLen(SubSeq(t, from + 1, from + i))
      BY <2>2 DEF Place
    <3>2. QED
      BY <2>1, <3>1, Places
  <2>4. LineToByte(t, line) = Place(t, from)
    BY DEF LineToByte, from
  <2>5. Place(t, from) \in Nat /\ Place(t, from + i) \in Nat
    BY <1>2, <2>1, Places
  <2>6. QED
    BY <2>3, <2>4, <2>5
<1>5. QED
  BY <1>2, <1>3, <1>4 DEF s, from

-----------------------------------------------------------------------------
(* Whatever a conversion or a movement returns is on a character.          *)
LEMMA PlaceOnLine ==
  ASSUME NEW t \in Seq(Chars), NEW line \in LineNumbers(t), NEW i \in 0..Len(Line(t, line))
  PROVE  LineToByte(t, line) + Place(Line(t, line), i) \in Boundaries(t)
<1>1. LineToByte(t, line) + Place(Line(t, line), i) = Place(t, LineStart(t, line) + i)
  BY PlaceInLine
<1>2. LineStart(t, line) + i \in 0..Len(t)
  <2>1. /\ Len(Line(t, line)) \in Nat /\ LineStart(t, line) \in 0..Len(t)
        /\ LineStart(t, line) + Len(Line(t, line)) <= Len(t)
    BY PlaceInLine
  <2>2. QED
    BY <2>1
<1>3. QED
  BY <1>1, <1>2, PlaceIsBoundary

LEMMA ClustersAreIndices ==
  ASSUME NEW s \in Seq(Chars)
  PROVE  Clusters(s) \in SUBSET (0..(Len(s) - 1)) /\ Clusters(s) \cup {Len(s)} \in SUBSET (0..Len(s))
<1>1. Len(s) \in Nat
  OBVIOUS
<1>2. QED
  BY <1>1 DEF Clusters

LEMMA SnapIsBoundary ==
  ASSUME NEW t \in Seq(Chars), NEW b \in Nat
  PROVE  SnapToGraphemeStart(t, b) \in Boundaries(t)
<1> DEFINE at == PrevCharBoundary(t, b)
           line == LineForByte(t, at)
           s == Line(t, line)
           rel == Lower(at - LineToByte(t, line), ByteLen(s))
           starts == {Place(s, i) : i \in Clusters(s) \cup {Len(s)}}
           T == {p \in starts : p <= rel} \cup {0}
<1>1. SnapToGraphemeStart(t, b) = LineToByte(t, line) + Greatest(T)
  BY DEF SnapToGraphemeStart
<1>2. line \in LineNumbers(t)
  BY LineForByteIsRow
<1>3. s \in Seq(Chars)
  BY <1>2, PlaceInLine
<1> HIDE DEF s, line
<1>4. ASSUME NEW p \in T PROVE \E i \in 0..Len(s) : p = Place(s, i)
  <2>1. 0 \in 0..Len(s) /\ Place(s, 0) = 0
    BY <1>3, Places
  <2>2. QED
    BY <1>3, <2>1, ClustersAreIndices
<1>5. T \in SUBSET Nat /\ \A p \in T : p <= ByteLen(s)
  BY <1>3, <1>4, PlaceIsBoundary, BoundaryHasIndex
<1>6. ByteLen(s) \in Nat
  <2>1. Len(s) \in 0..Len(s)
    BY <1>3
  <2>2. QED
    BY <1>3, <2>1, Places
<1> HIDE DEF T
<1>7. T # {}
  BY DEF T
<1>8. Greatest(T) \in T
  BY <1>5, <1>6, <1>7, GreatestIs
<1>9. QED
  BY <1>1, <1>2, <1>4, <1>8, PlaceOnLine DEF s

LEMMA RowBelow ==
  ASSUME NEW t \in Seq(Chars), NEW n \in Nat
  PROVE  Lower(n, LenLines(t) - 1) \in LineNumbers(t)
<1>1. LenLines(t) - 1 \in Nat
  BY LineStartsOf
<1>2. QED
  BY <1>1 DEF LineNumbers, Lower

LEMMA CellIsBoundary ==
  ASSUME NEW t \in Seq(Chars), NEW n \in Nat, NEW column
  PROVE  CellToByte(t, n, column) \in Boundaries(t)
<1> DEFINE row == Lower(n, LenLines(t) - 1)
           s == Line(t, row)
           hit == {i \in Clusters(s) : Column(s, i) = column \/ ColumnAfter(s, i) > column}
<1>1. row \in LineNumbers(t)
  BY RowBelow
<1>2. s \in Seq(Chars)
  BY <1>1, PlaceInLine
<1>3. CellToByte(t, n, column)
        = LineToByte(t, row) + Place(s, IF hit = {} THEN Len(s) ELSE Least(hit))
  BY DEF CellToByte
<1> HIDE DEF s, row
<1>4. CASE hit = {}
  <2>1. Len(s) \in 0..Len(s)
    BY <1>2
  <2>2. QED
    BY <1>1, <1>3, <1>4, <2>1, PlaceOnLine DEF s
<1>5. CASE hit # {}
  <2>1. hit \in SUBSET (0..Len(s))
    BY <1>2, ClustersAreIndices
  <2>2. hit \in SUBSET Nat
    BY <2>1
  <2> HIDE DEF hit
  <2>3. Least(hit) \in 0..Len(s)
    BY <1>5, <2>1, <2>2, LeastIs
  <2>4. QED
    BY <1>1, <1>3, <1>5, <2>3, PlaceOnLine DEF s
<1>6. QED
  BY <1>4, <1>5

LEMMA EndsAreBoundaries ==
  ASSUME NEW t \in Seq(Chars)
  PROVE  0 \in Boundaries(t) /\ ByteLen(t) \in Boundaries(t)
<1>1. 0 \in 0..Len(t) /\ Len(t) \in 0..Len(t)
  OBVIOUS
<1>2. QED
  BY <1>1, Places, PlaceIsBoundary

LEMMA GraphemesAreBoundaries ==
  ASSUME NEW t \in Seq(Chars)
  PROVE  GraphemeStarts(t) \in SUBSET Boundaries(t)
<1>1. ASSUME NEW line \in LineNumbers(t), NEW i \in Clusters(Line(t, line))
      PROVE  LineToByte(t, line) + Place(Line(t, line), i) \in Boundaries(t)
  <2>1. Line(t, line) \in Seq(Chars)
    BY PlaceInLine
  <2>2. i \in 0..Len(Line(t, line))
    BY <2>1, ClustersAreIndices
  <2>3. QED
    BY <2>2, PlaceOnLine
<1>2. QED
  BY <1>1 DEF GraphemeStarts, LineNumbers

LEMMA GraphemeIsBoundary ==
  ASSUME NEW t \in Seq(Chars), NEW g
  PROVE  GraphemeToByte(t, g) \in Boundaries(t)
<1> DEFINE starts == GraphemeStarts(t)
           at == {p \in starts : Cardinality({q \in starts : q < p}) = g}
<1>1. at \in SUBSET Boundaries(t)
  BY GraphemesAreBoundaries
<1>2. at \in SUBSET Nat
  BY <1>1, BoundaryHasIndex
<1>3. GraphemeToByte(t, g) = IF at = {} THEN ByteLen(t) ELSE Least(at)
  BY DEF GraphemeToByte
<1> HIDE DEF at
<1>4. QED
  BY <1>1, <1>2, <1>3, LeastIs, EndsAreBoundaries

LEMMA MovesAreBoundaries ==
  ASSUME NEW t \in Seq(Chars), NEW b \in Nat
  PROVE  /\ MoveLeft(t, b) \in Boundaries(t) /\ MoveRight(t, b) \in Boundaries(t)
         /\ \A delta \in Int : MoveVertical(t, b, delta) \in Boundaries(t)
<1>1. MoveLeft(t, b) \in Boundaries(t) /\ MoveRight(t, b) \in Boundaries(t)
  BY GraphemeIsBoundary, EndsAreBoundaries DEF MoveLeft, MoveRight
<1>2. ASSUME NEW delta \in Int PROVE MoveVertical(t, b, delta) \in Boundaries(t)
  <2> DEFINE cell == ByteToCell(t, b)
             n == Higher(cell.line + delta, 0)
             line == Lower(n, LenLines(t) - 1)
  <2>1. cell.line \in LineNumbers(t) /\ LineNumbers(t) \in SUBSET Nat
    <3>1. cell.line = LineForByte(t, SnapToGraphemeStart(t, b))
      BY DEF ByteToCell
    <3>2. QED
      BY <3>1, LineForByteIsRow, LineStartsOf DEF LineNumbers
  <2> HIDE DEF cell
  <2>2. n \in Nat
    BY <2>1 DEF Higher
  <2>3. line \in Nat
    BY <2>1, <2>2, RowBelow
  <2> HIDE DEF line
  <2>4. CellToByte(t, line, cell.column) \in Nat
    BY <2>3, CellIsBoundary, BoundaryHasIndex
  <2>5. SnapToGraphemeStart(t, CellToByte(t, line, cell.column)) \in Boundaries(t)
    BY <2>4, SnapIsBoundary
  <2>6. QED
    BY <2>5, SnapIsBoundary DEF MoveVertical, line, cell
<1>3. QED
  BY <1>1, <1>2

LEMMA MouseIsBoundary ==
  ASSUME NEW t \in Seq(Chars), NEW rect \in Windows, NEW scroll \in Nat,
         NEW x \in Nat, NEW y \in Nat
  PROVE  EditorMouseToByte(t, rect, scroll, x, y) \in Boundaries(t)
<1> DEFINE line == scroll + y - CodeY(rect)
           column == Higher(x - CodeX(rect) - GutterWidth(LenLines(t)), 0)
<1>1. CodeY(rect) \in Nat
  BY EditorAssumption DEF CodeY, HeaderRows
<1>2. CASE rect.width = 0 \/ rect.height = 0
  BY <1>2, EndsAreBoundaries DEF EditorMouseToByte
<1>3. CASE ~(rect.width = 0 \/ rect.height = 0) /\ (y < CodeY(rect) \/ x < CodeX(rect))
  BY <1>3, CellIsBoundary DEF EditorMouseToByte
<1>4. CASE ~(rect.width = 0 \/ rect.height = 0) /\ ~(y < CodeY(rect) \/ x < CodeX(rect))
  <2>1. line \in Nat
    BY <1>1, <1>4
  <2>2. Lower(line, LenLines(t) - 1) \in Nat
    BY <2>1, RowBelow, LineStartsOf DEF LineNumbers
  <2>3. CellToByte(t, Lower(line, LenLines(t) - 1), column) \in Boundaries(t)
    BY <2>2, CellIsBoundary
  <2>4. QED
    BY <1>4, <2>3 DEF EditorMouseToByte
<1>5. QED
  BY <1>2, <1>3, <1>4

-----------------------------------------------------------------------------
(* Editing: the place of the replacement and the place after it are in the *)
(* new text.                                                               *)
LEMMA PlaceOfFront ==
  ASSUME NEW s \in Seq(Chars), NEW u \in Seq(Chars), NEW i \in 0..Len(s)
  PROVE  Place(s \o u, i) = Place(s, i) /\ i \in 0..Len(s \o u)
<1>1. s \o u \in Seq(Chars) /\ Len(s \o u) = Len(s) + Len(u) /\ Len(s) \in Nat /\ Len(u) \in Nat
  OBVIOUS
<1>2. SubSeq(s \o u, 1, i) = SubSeq(s, 1, i)
  <2>1. /\ SubSeq(s \o u, 1, i) \in Seq(Chars) /\ Len(SubSeq(s \o u, 1, i)) = i
        /\ \A j \in 1..i : SubSeq(s \o u, 1, i)[j] = (s \o u)[j]
    <3>1. i \in 0..Len(s \o u) /\ 0 \in 0..i
      BY <1>1
    <3>2. QED
      BY <1>1
  <2>2. /\ SubSeq(s, 1, i) \in Seq(Chars) /\ Len(SubSeq(s, 1, i)) = i
        /\ \A j \in 1..i : SubSeq(s, 1, i)[j] = s[j]
    OBVIOUS
  <2>3. \A j \in 1..i : (s \o u)[j] = s[j]
    BY <1>1
  <2>4. QED
    BY <2>1, <2>2, <2>3, SeqEqual
<1>3. Place(s \o u, i) = Place(s, i)
  BY <1>2 DEF Place
<1>4. QED
  BY <1>1, <1>3

LEMMA PlaceAfterFront ==
  ASSUME NEW s \in Seq(Chars), NEW u \in Seq(Chars)
  PROVE  Place(s \o u, Len(s)) = ByteLen(s) /\ ByteLen(s \o u) = ByteLen(s) + ByteLen(u)
<1>1. s \o u \in Seq(Chars) /\ Len(s \o u) = Len(s) + Len(u) /\ Len(s) \in Nat /\ Len(u) \in Nat
  OBVIOUS
<1>2. Place(s \o u, Len(s)) = ByteLen(s)
  <2>1. Len(s) \in 0..Len(s)
    BY <1>1
  <2>2. QED
    BY <2>1, PlaceOfFront, Places
<1>3. SubSeq(s \o u, Len(s) + 1, Len(s \o u)) = u
  BY <1>1
<1>4. Len(s \o u) \in 0..Len(s \o u) /\ Len(s) \in 0..Len(s \o u)
  BY <1>1
<1>5. ByteLen(u) = Place(s \o u, Len(s \o u)) - Place(s \o u, Len(s))
  <2>1. ASSUME NEW w \in Seq(Chars), NEW b \in 0..Len(w), NEW a \in 0..Len(w), a <= b
        PROVE  ByteLen(SubSeq(w, a + 1, b)) = Place(w, b) - Place(w, a)
    <3>1. a \in 0..b
      BY <2>1
    <3>2. QED
      BY <3>1, Places
  <2>2. Len(s) <= Len(s \o u)
    BY <1>1
  <2>3. ByteLen(SubSeq(s \o u, Len(s) + 1, Len(s \o u)))
          = Place(s \o u, Len(s \o u)) - Place(s \o u, Len(s))
    BY <1>1, <1>4, <2>1, <2>2
  <2>4. QED
    BY <1>3, <2>3
<1>6. Place(s \o u, Len(s \o u)) = ByteLen(s \o u) /\ Place(s \o u, Len(s \o u)) \in Nat
  BY <1>1, <1>4, Places
<1>7. ByteLen(s) \in Nat
  BY <1>1, <1>2, <1>4, Places
<1>8. QED
  BY <1>2, <1>5, <1>6, <1>7

LEMMA EditKeepsPlaces ==
  ASSUME text \in Seq(Chars), NEW start \in Boundaries(text), NEW end \in Nat,
         NEW replacement \in Seq(Chars), ApplyEdit(start, end, replacement)
  PROVE  start \in Boundaries(text') /\ start + ByteLen(replacement) \in Boundaries(text')
<1> DEFINE from == PrevCharBoundary(text, start)
           to == Higher(PrevCharBoundary(text, Higher(end, start)), from)
           front == SubSeq(text, 1, Index(text, from))
           rest == SubSeq(text, Index(text, to) + 1, Len(text))
<1>1. start \in Nat /\ from = start
  BY BoundaryHasIndex, PrevBoundary
<1>2. to \in Boundaries(text)
  <2>1. Higher(end, start) \in Nat
    BY <1>1 DEF Higher
  <2>2. PrevCharBoundary(text, Higher(end, start)) \in Boundaries(text)
    BY <2>1, PrevBoundary
  <2>3. QED
    BY <1>1, <2>2 DEF Higher
<1>3. text' = front \o replacement \o rest
  BY DEF ApplyEdit
<1>4. Index(text, from) \in 0..Len(text) /\ Place(text, Index(text, from)) = start
  BY <1>1, BoundaryHasIndex
<1>5. Index(text, to) \in 0..Len(text)
  BY <1>2, BoundaryHasIndex
<1> HIDE DEF from, to
<1>6. front \in Seq(Chars) /\ rest \in Seq(Chars) /\ ByteLen(front) = start
  <2>1. Len(text) \in 0..Len(text) /\ Len(text) \in Nat
    OBVIOUS
  <2>2. front \in Seq(Chars) /\ rest \in Seq(Chars)
    BY <1>4, <1>5, <2>1, PartOf
  <2>3. QED
    BY <1>4, <2>2 DEF Place
<1> HIDE DEF front, rest
<1>7. PICK w : w = front \o replacement
  OBVIOUS
<1>8. w \in Seq(Chars) /\ text' = w \o rest /\ Len(w) = Len(front) + Len(replacement)
      /\ Len(front) \in Nat /\ Len(replacement) \in Nat
  BY <1>3, <1>6, <1>7
<1>9. Place(w, Len(front)) = start /\ Place(w, Len(w)) = start + ByteLen(replacement)
  <2>1. Place(w, Len(front)) = start /\ ByteLen(w) = start + ByteLen(replacement)
    BY <1>6, <1>7, PlaceAfterFront
  <2>2. QED
    BY <1>8, <2>1, Places
<1>10. Len(front) \in 0..Len(w) /\ Len(w) \in 0..Len(w)
  BY <1>8
<1>11. text' \in Seq(Chars)
  BY <1>6, <1>8
<1>12. /\ Place(text', Len(front)) = start /\ Len(front) \in 0..Len(text')
       /\ Place(text', Len(w)) = start + ByteLen(replacement) /\ Len(w) \in 0..Len(text')
  BY <1>6, <1>8, <1>9, <1>10, PlaceOfFront
<1>13. QED
  BY <1>11, <1>12, PlaceIsBoundary

-----------------------------------------------------------------------------
(* The editor.                                                             *)
LEMMA TextsAreSequences ==
  \A s : s \in Texts <=> s \in Seq(Alphabet) /\ Len(s) <= MaxText
<1>1. ASSUME NEW n \in 0..MaxText, NEW s \in [1..n -> Alphabet]
      PROVE  s \in Seq(Alphabet) /\ Len(s) <= MaxText
  <2>1. n \in Nat /\ n <= MaxText /\ MaxText \in Nat
    BY EditorAssumption
  <2>2. QED
    BY <2>1
<1>2. ASSUME NEW s \in Seq(Alphabet), Len(s) <= MaxText PROVE s \in Texts
  <2>1. Len(s) \in 0..MaxText /\ s \in [1..Len(s) -> Alphabet]
    BY <1>2, EditorAssumption
  <2>2. QED
    BY <2>1 DEF Texts
<1>3. QED
  BY <1>1, <1>2 DEF Texts

LEMMA AlphabetIsChars == ASSUME NEW s \in Seq(Alphabet) PROVE s \in Seq(Chars)
BY EditorAssumption, SeqMonotonic

LEMMA EditIsText ==
  ASSUME text \in Texts, NEW start \in Nat, NEW end \in Nat,
         NEW replacement \in Seq(Alphabet), ApplyEdit(start, end, replacement)
  PROVE  text' \in Texts
<1> DEFINE from == PrevCharBoundary(text, start)
           to == Higher(PrevCharBoundary(text, Higher(end, start)), from)
           front == SubSeq(text, 1, Index(text, from))
           rest == SubSeq(text, Index(text, to) + 1, Len(text))
<1>1. text \in Seq(Alphabet) /\ text \in Seq(Chars)
  BY TextsAreSequences, AlphabetIsChars
<1>2. from \in Boundaries(text) /\ to \in Boundaries(text)
  <2>1. Higher(end, start) \in Nat
    BY DEF Higher
  <2>2. PrevCharBoundary(text, Higher(end, start)) \in Boundaries(text) /\ from \in Boundaries(text)
    BY <1>1, <2>1, PrevBoundary
  <2>3. QED
    BY <2>2 DEF Higher
<1>3. text' = front \o replacement \o rest /\ Len(text') <= MaxText
  BY DEF ApplyEdit
<1>4. Index(text, from) \in 0..Len(text) /\ Index(text, to) \in 0..Len(text)
  BY <1>1, <1>2, BoundaryHasIndex
<1> HIDE DEF from, to
<1>5. front \in Seq(Alphabet) /\ rest \in Seq(Alphabet)
  <2>1. Len(text) \in 0..Len(text) /\ Len(text) \in Nat
    BY <1>1
  <2>2. QED
    BY <1>1, <1>4, <2>1, PartOf
<1> HIDE DEF front, rest
<1>6. text' \in Seq(Alphabet)
  BY <1>3, <1>5
<1>7. QED
  BY <1>3, <1>6, TextsAreSequences

LEMMA InsertOnText ==
  ASSUME EditorTypeOK, NEW s \in Seq(Alphabet), Insert(s)
  PROVE  EditorTypeOK' /\ (OnText => OnText')
<1>1. /\ ApplyEdit(cursor, cursor, s)
      /\ cursor' = cursor + ByteLen(s) /\ anchor' = None
  BY DEF Insert, SetEditorCursor
<1>2. cursor \in Nat /\ text \in Texts /\ text \in Seq(Chars) /\ s \in Seq(Chars)
  BY TextsAreSequences, AlphabetIsChars DEF EditorTypeOK
<1>3. ByteLen(s) \in Nat
  BY <1>2, EndsAreBoundaries, BoundaryHasIndex
<1>4. EditorTypeOK'
  BY <1>1, <1>2, <1>3, EditIsText DEF EditorTypeOK
<1>5. ASSUME OnText PROVE OnText'
  <2>1. cursor \in Boundaries(text)
    BY <1>2, <1>5 DEF OnText, Valid, None
  <2>2. cursor' \in Boundaries(text')
    BY <1>1, <1>2, <2>1, EditKeepsPlaces
  <2>3. QED
    BY <1>1, <2>2 DEF OnText, Valid
<1>6. QED
  BY <1>4, <1>5

LEMMA DeleteOnText ==
  ASSUME EditorTypeOK, EditorDeleteBackward
  PROVE  EditorTypeOK' /\ OnText'
<1> DEFINE a == SnapToGraphemeStart(text, anchor)
           c == SnapToGraphemeStart(text, cursor)
           start == IF anchor # None /\ a # c THEN Lower(a, c) ELSE MoveLeft(text, c)
           end == IF anchor # None /\ a # c THEN Higher(a, c) ELSE c
<1>1. ApplyEdit(start, end, <<>>) /\ cursor' = start /\ anchor' = None
  BY DEF EditorDeleteBackward, SetEditorCursor
<1>2. text \in Texts /\ text \in Seq(Chars) /\ cursor \in Nat
  BY TextsAreSequences, AlphabetIsChars DEF EditorTypeOK
<1>3. c \in Boundaries(text) /\ c \in Nat
  BY <1>2, SnapIsBoundary, BoundaryHasIndex
<1>4. anchor # None => a \in Boundaries(text) /\ a \in Nat
  BY <1>2, SnapIsBoundary, BoundaryHasIndex DEF EditorTypeOK
<1>5. MoveLeft(text, c) \in Boundaries(text)
  BY <1>2, <1>3, MovesAreBoundaries
<1>6. start \in Boundaries(text) /\ end \in Boundaries(text)
  BY <1>3, <1>4, <1>5 DEF Lower, Higher
<1>7. start \in Nat /\ end \in Nat
  BY <1>2, <1>6, BoundaryHasIndex
<1> HIDE DEF start, end
<1>8. <<>> \in Seq(Alphabet) /\ <<>> \in Seq(Chars)
  OBVIOUS
<1>9. text' \in Texts
  BY <1>1, <1>2, <1>7, <1>8, EditIsText
<1>10. start \in Boundaries(text')
  BY <1>1, <1>2, <1>6, <1>7, <1>8, EditKeepsPlaces
<1>11. QED
  BY <1>1, <1>7, <1>9, <1>10 DEF EditorTypeOK, OnText, Valid

LEMMA PointingOnText ==
  ASSUME EditorTypeOK, UNCHANGED text,
         cursor' \in Boundaries(text), anchor' \in Boundaries(text) \cup {None}
  PROVE  EditorTypeOK' /\ OnText'
<1>1. text \in Texts /\ text \in Seq(Chars)
  BY TextsAreSequences, AlphabetIsChars DEF EditorTypeOK
<1>2. cursor' \in Nat /\ anchor' \in Nat \cup {None}
  BY <1>1, BoundaryHasIndex
<1>3. QED
  BY <1>1, <1>2 DEF EditorTypeOK, OnText, Valid

LEMMA EditorStepOnText ==
  ASSUME EditorTypeOK, EditorNext
  PROVE  EditorTypeOK' /\ (OnText => OnText')
<1>1. text \in Seq(Chars) /\ cursor \in Nat /\ (anchor # None => anchor \in Nat)
  BY TextsAreSequences, AlphabetIsChars DEF EditorTypeOK
<1>2. \A b \in Nat : SnapToGraphemeStart(text, b) \in Boundaries(text)
  BY <1>1, SnapIsBoundary
<1>3. Cursor \in Boundaries(text) /\ Cursor \in Nat
  BY <1>1, <1>2, BoundaryHasIndex DEF Cursor
<1>4. SnapToGraphemeStart(text, IF anchor = None THEN cursor ELSE anchor) \in Boundaries(text)
  BY <1>1, <1>2
<1>5. ASSUME NEW byte \in Boundaries(text), NEW extend \in BOOLEAN,
             ExtendOrMoveCursor(byte, extend)
      PROVE  EditorTypeOK' /\ OnText'
  <2>1. byte \in Nat
    BY <1>1, BoundaryHasIndex
  <2>2. UNCHANGED text /\ cursor' \in Boundaries(text)
    BY <1>2, <1>5, <2>1 DEF ExtendOrMoveCursor
  <2>3. anchor' \in Boundaries(text) \cup {None}
    BY <1>4, <1>5 DEF ExtendOrMoveCursor
  <2>4. QED
    BY <2>2, <2>3, PointingOnText
<1>6. CASE EditorInsert \/ EditorPaste
  <2>1. PICK s \in Typed \cup Pasted : Insert(s)
    BY <1>6 DEF EditorInsert, EditorPaste
  <2>2. s \in Seq(Alphabet)
    <3>1. CASE s \in Typed
      <4>1. PICK c \in Alphabet : s = <<c>>
        BY <3>1 DEF Typed
      <4>2. QED
        BY <4>1
    <3>2. CASE s \in Pasted
      BY <3>2, TextsAreSequences DEF Pasted
    <3>3. QED
      BY <3>1, <3>2
  <2>3. QED
    BY <2>1, <2>2, InsertOnText
<1>7. CASE EditorDeleteBackward
  BY <1>7, DeleteOnText
<1>8. CASE EditorMoveCursor
  <2>1. PICK extend \in BOOLEAN, byte \in Beside : ExtendOrMoveCursor(byte, extend)
    BY <1>8 DEF EditorMoveCursor
  <2>2. byte \in Boundaries(text)
    BY <1>1, <1>3, MovesAreBoundaries DEF Beside
  <2>3. QED
    BY <1>5, <2>1, <2>2
<1>9. CASE EditorPage
  <2>1. PICK extend \in BOOLEAN, rect \in Windows, up \in BOOLEAN :
          ExtendOrMoveCursor(
            MoveVertical(text, Cursor, IF up THEN -Page(rect) ELSE Page(rect)), extend)
    BY <1>9 DEF EditorPage
  <2>2. Page(rect) \in Int
    BY EditorAssumption DEF Page
  <2>3. PICK delta \in Int : delta = IF up THEN -Page(rect) ELSE Page(rect)
    BY <2>2
  <2>4. MoveVertical(text, Cursor, delta) \in Boundaries(text)
    BY <1>1, <1>3, MovesAreBoundaries
  <2>5. QED
    BY <1>5, <2>1, <2>3, <2>4
<1>10. ASSUME NEW byte \in Pointed PROVE byte \in Boundaries(text) /\ byte \in Nat
  <2>1. PICK rect \in Windows, scroll \in 0..1, x \in {5, 6, 7, 9, 12}, y \in {0, 2, 3, 4} :
          byte = EditorMouseToByte(text, rect, scroll, x, y)
    BY DEF Pointed
  <2>2. scroll \in Nat /\ x \in Nat /\ y \in Nat
    OBVIOUS
  <2>3. byte \in Boundaries(text)
    BY <1>1, <2>1, <2>2, MouseIsBoundary
  <2>4. QED
    BY <1>1, <2>3, BoundaryHasIndex
<1>11. CASE EditorSetCursor
  <2>1. UNCHANGED text /\ cursor' \in Boundaries(text) /\ anchor' = None
    BY <1>2, <1>10, <1>11 DEF EditorSetCursor, SetEditorCursor
  <2>2. QED
    BY <2>1, PointingOnText
<1>12. CASE EditorSetSelection
  <2>1. UNCHANGED text /\ cursor' \in Boundaries(text) /\ anchor' \in Boundaries(text)
    BY <1>2, <1>4, <1>10, <1>12 DEF EditorSetSelection
  <2>2. QED
    BY <2>1, PointingOnText
<1>13. QED
  BY <1>6, <1>7, <1>8, <1>9, <1>11, <1>12 DEF EditorNext

LEMMA EditorInitOK == EditorInit => EditorTypeOK
BY EditorAssumption DEF EditorInit, EditorTypeOK

-----------------------------------------------------------------------------
(* The line of a place, and where it begins.                               *)
LEMMA RankGrows ==
  ASSUME NEW S \in SUBSET Nat, IsFiniteSet(S), NEW i \in S, NEW k \in S, i < k
  PROVE  Rank(S, i) < Rank(S, k) /\ Rank(S, i) \in Nat /\ Rank(S, k) \in Nat
<1> DEFINE A == {j \in S : j < i}
           B == {j \in S : j < k}
<1>1. IsFiniteSet(A) /\ IsFiniteSet(B)
  BY FS_Subset
<1>2. IsFiniteSet(A \cup {i}) /\ Cardinality(A \cup {i}) = Cardinality(A) + 1
  <2>1. i \notin A
    OBVIOUS
  <2>2. QED
    BY <1>1, <2>1, FS_AddElement
<1>3. A \cup {i} \in SUBSET B
  <2>1. ASSUME NEW j \in S, j < i PROVE j < k
    BY <2>1
  <2>2. QED
    BY <2>1
<1>4. Cardinality(A \cup {i}) <= Cardinality(B)
  BY <1>1, <1>3, FS_Subset
<1>5. Cardinality(A) \in Nat /\ Cardinality(B) \in Nat
  BY <1>1, FS_CardinalityType
<1>6. Rank(S, i) = Cardinality(A) /\ Rank(S, k) = Cardinality(B)
  BY DEF Rank
<1> HIDE DEF A, B
<1>7. QED
  BY <1>2, <1>4, <1>5, <1>6

LEMMA RankOnce ==
  ASSUME NEW S \in SUBSET Nat, IsFiniteSet(S), NEW i \in S, NEW k \in S,
         Rank(S, i) = Rank(S, k)
  PROVE  i = k
<1>1. i < k \/ k < i \/ i = k
  OBVIOUS
<1>2. i < k => FALSE
  BY RankGrows
<1>3. k < i => FALSE
  BY RankGrows
<1>4. QED
  BY <1>1, <1>2, <1>3

(* The newlines up to an index, and the start of the line it is in.        *)
Passed(t, i) == {j \in Newlines(t) : j <= i}
Begun(t, i) == Greatest({0} \cup Passed(t, i))

LEMMA BegunIs ==
  ASSUME NEW t \in Seq(Chars), NEW i \in 0..Len(t)
  PROVE  /\ Begun(t, i) \in {0} \cup Passed(t, i) /\ Begun(t, i) \in 0..i
         /\ \A j \in {0} \cup Passed(t, i) : j <= Begun(t, i)
<1>1. /\ {0} \cup Passed(t, i) \in SUBSET Nat /\ i \in Nat
      /\ \A j \in {0} \cup Passed(t, i) : j <= i
  BY LineStartsOf DEF Passed, Newlines
<1>2. PICK T : T = {0} \cup Passed(t, i)
  OBVIOUS
<1>3. Greatest(T) \in T /\ \A j \in T : j <= Greatest(T)
  <2>1. T # {}
    BY <1>2
  <2>2. QED
    BY <1>1, <1>2, <2>1, GreatestIs
<1>4. Begun(t, i) = Greatest(T)
  BY <1>2 DEF Begun
<1>5. Begun(t, i) \in Nat /\ Begun(t, i) <= i
  BY <1>1, <1>2, <1>3, <1>4
<1>6. Begun(t, i) \in {0} \cup Passed(t, i)
  BY <1>2, <1>3, <1>4, Zenon
<1>7. \A j \in {0} \cup Passed(t, i) : j <= Begun(t, i)
  BY <1>2, <1>3, <1>4, Zenon
<1>8. QED
  BY <1>1, <1>5, <1>6, <1>7

LEMMA LineOfPlace ==
  ASSUME NEW t \in Seq(Chars), NEW i \in 0..Len(t)
  PROVE  /\ LineForByte(t, Place(t, i)) = Cardinality(Passed(t, i))
         /\ LineStart(t, LineForByte(t, Place(t, i))) = Begun(t, i)
<1> DEFINE line == LineForByte(t, Place(t, i))
           S == LineStarts(t)
<1>1. line = Cardinality(Passed(t, i))
  <2>1. \A j \in 1..Len(t) : Place(t, j) <= Place(t, i) <=> j <= i
    <3>1. ASSUME NEW j \in 1..Len(t) PROVE Place(t, j) <= Place(t, i) <=> j <= i
      <4>1. j \in 0..Len(t) /\ j \in Nat /\ i \in Nat
        OBVIOUS
      <4>2. Place(t, i) \in Nat /\ Place(t, j) \in Nat /\ (i < j <=> Place(t, i) < Place(t, j))
        BY <4>1, Places
      <4>3. QED
        BY <4>1, <4>2
    <3>2. QED
      BY <3>1
  <2>2. {j \in 1..Len(t) : t[j] = "newline" /\ Place(t, j) <= Place(t, i)} = Passed(t, i)
    BY <2>1 DEF Passed, Newlines
  <2>3. QED
    BY <2>2 DEF LineForByte
<1>2. line \in LineNumbers(t)
  BY LineForByteIsRow
<1>3. LineStart(t, line) \in S /\ Rank(S, LineStart(t, line)) = line
  BY <1>2, LineStartOf
<1> HIDE DEF line
<1>4. S = {0} \cup Newlines(t) /\ S \in SUBSET Nat /\ IsFiniteSet(S) /\ IsFiniteSet(Newlines(t))
  BY LineStartsOf
<1>5. Begun(t, i) \in S
  BY <1>4, BegunIs DEF Passed
<1>6. Rank(S, Begun(t, i)) = line
  <2> DEFINE Before == {j \in S : j < Begun(t, i)}
  <2>1. Before \cup {Begun(t, i)} = Passed(t, i) \cup {0}
    <3>1. ASSUME NEW j \in S PROVE j \in Before \cup {Begun(t, i)} <=> j = 0 \/ j \in Passed(t, i)
      <4>1. j \in Passed(t, i) <=> j \in Newlines(t) /\ j <= i
        BY DEF Passed
      <4>2. Begun(t, i) \in 0..i /\ j \in Nat
        BY <1>4, BegunIs
      <4>3. j = 0 \/ j \in Passed(t, i) => j <= Begun(t, i)
        BY BegunIs
      <4>4. j <= Begun(t, i) => j = 0 \/ j \in Passed(t, i)
        BY <1>4, <4>1, <4>2
      <4>5. QED
        BY <4>2, <4>3, <4>4
    <3>2. Passed(t, i) \cup {0} \subseteq S
      BY <1>4 DEF Passed
    <3>3. QED
      BY <1>5, <3>1, <3>2
  <2>2. IsFiniteSet(Before) /\ Cardinality(Before) \in Nat
    BY <1>4, FS_Subset, FS_CardinalityType
  <2>3. Begun(t, i) \notin Before
    <3>1. Begun(t, i) \in Int
      BY BegunIs
    <3>2. QED
      BY <3>1
  <2>4. Cardinality(Before \cup {Begun(t, i)}) = Cardinality(Before) + 1
    BY <2>2, <2>3, FS_AddElement
  <2>5. IsFiniteSet(Passed(t, i)) /\ Cardinality(Passed(t, i)) \in Nat
    BY <1>4, FS_Subset, FS_CardinalityType DEF Passed
  <2>6. 0 \notin Passed(t, i)
    BY DEF Passed, Newlines
  <2>7. Cardinality(Passed(t, i) \cup {0}) = Cardinality(Passed(t, i)) + 1
    BY <2>5, <2>6, FS_AddElement
  <2>8. Rank(S, Begun(t, i)) = Cardinality(Before)
    BY DEF Rank
  <2>9. Cardinality(Before \cup {Begun(t, i)}) = Cardinality(Passed(t, i) \cup {0})
    BY <2>1
  <2> HIDE DEF Before
  <2>10. QED
    BY <1>1, <2>2, <2>4, <2>5, <2>7, <2>8, <2>9
<1>7. LineStart(t, line) = Begun(t, i)
  BY <1>3, <1>4, <1>5, <1>6, RankOnce
<1>8. QED
  BY <1>1, <1>7 DEF line

-----------------------------------------------------------------------------
(* Where a conversion stops: at a cluster of a line, or at its end.        *)
Stops(s) == Clusters(s) \cup {Len(s)}
Stop(s, k) == Greatest({i \in Stops(s) : i <= k})

LEMMA StopIs ==
  ASSUME NEW s \in Seq(Chars), NEW k \in 0..Len(s)
  PROVE  /\ Stops(s) \in SUBSET (0..Len(s)) /\ 0 \in Stops(s)
         /\ Stop(s, k) \in Stops(s) /\ Stop(s, k) <= k
         /\ \A i \in Stops(s) : i <= k => i <= Stop(s, k)
         /\ k \in Stops(s) => Stop(s, k) = k
<1>1. Stops(s) \in SUBSET (0..Len(s)) /\ Len(s) \in Nat
  BY ClustersAreIndices DEF Stops
<1>2. 0 \in Stops(s)
  <2>1. CASE Len(s) = 0
    BY <2>1 DEF Stops
  <2>2. CASE Len(s) # 0
    <3>1. 0 \in 0..(Len(s) - 1)
      BY <1>1, <2>2
    <3>2. QED
      BY <3>1 DEF Stops, Clusters
  <2>3. QED
    BY <2>1, <2>2
<1>3. PICK T : T = {i \in Stops(s) : i <= k}
  OBVIOUS
<1>4. T \in SUBSET Nat /\ 0 \in T /\ k \in Nat /\ \A i \in T : i <= k
  BY <1>1, <1>2, <1>3
<1>5. Greatest(T) \in T /\ \A i \in T : i <= Greatest(T)
  <2>1. T # {}
    BY <1>4
  <2>2. QED
    BY <1>4, <2>1, GreatestIs
<1>6. Stop(s, k) = Greatest(T)
  BY <1>3 DEF Stop
<1>7. Stop(s, k) \in Stops(s) /\ Stop(s, k) <= k
  BY <1>3, <1>5, <1>6
<1>8. ASSUME NEW i \in Stops(s), i <= k PROVE i <= Stop(s, k)
  BY <1>3, <1>5, <1>6, <1>8
<1>9. ASSUME k \in Stops(s) PROVE Stop(s, k) = k
  <2>1. k <= Stop(s, k)
    BY <1>4, <1>8, <1>9
  <2>2. Stop(s, k) \in Nat
    BY <1>1, <1>7
  <2>3. QED
    BY <1>4, <1>7, <2>1, <2>2
<1>10. QED
  BY <1>1, <1>2, <1>7, <1>8, <1>9

(* Every index is in the line that LineForByte names, and every index of a *)
(* line is in that line and no other.                                      *)
LEMMA InLine ==
  ASSUME NEW t \in Seq(Chars), NEW i \in 0..Len(t)
  PROVE  \E line \in LineNumbers(t), k \in Nat :
           /\ line = LineForByte(t, Place(t, i)) /\ LineStart(t, line) = Begun(t, i)
           /\ k \in 0..Len(Line(t, line)) /\ i = LineStart(t, line) + k
<1>1. PICK line : line = LineForByte(t, Place(t, i))
  OBVIOUS
<1>2. line \in LineNumbers(t) /\ LineStart(t, line) = Begun(t, i)
  BY <1>1, LineForByteIsRow, LineOfPlace
<1>3. PICK from : from = LineStart(t, line)
  OBVIOUS
<1>4. PICK end \in from..Len(t) :
        /\ from \in 0..end /\ Line(t, line) = SubSeq(t, from + 1, end)
        /\ end = Len(t) \/ (end + 1 \in 1..Len(t) /\ t[end + 1] = "newline")
  BY <1>2, <1>3, LineIsPart
<1>5. from \in 0..i /\ Len(t) \in Nat /\ i \in Nat /\ end \in 0..Len(t)
  BY <1>2, <1>3, <1>4, BegunIs
<1>6. Len(Line(t, line)) = end - from
  BY <1>4, <1>5, PartOf
<1>7. i <= end
  <2>1. SUFFICES ASSUME end < i PROVE FALSE
    BY <1>5
  <2>2. end + 1 \in Newlines(t) /\ end + 1 <= i
    BY <1>4, <1>5, <2>1 DEF Newlines
  <2>3. end + 1 <= from
    BY <1>2, <1>3, <2>2, BegunIs DEF Passed
  <2>4. QED
    BY <1>4, <2>3
<1>8. i - from \in 0..Len(Line(t, line)) /\ i - from \in Nat /\ i = from + (i - from)
  BY <1>5, <1>6, <1>7
<1>9. QED
  BY <1>1, <1>2, <1>3, <1>8

LEMMA LineInside ==
  ASSUME NEW t \in Seq(Chars), NEW line \in LineNumbers(t), NEW k \in 0..Len(Line(t, line))
  PROVE  /\ LineStart(t, line) + k \in 0..Len(t)
         /\ LineForByte(t, Place(t, LineStart(t, line) + k)) = line
<1>1. PICK from : from = LineStart(t, line)
  OBVIOUS
<1>2. PICK end \in from..Len(t) :
        /\ from \in 0..end /\ Line(t, line) = SubSeq(t, from + 1, end)
        /\ \A i \in (from + 1)..end : t[i] # "newline"
  BY <1>1, LineIsPart
<1>3. from \in LineStarts(t) /\ Rank(LineStarts(t), from) = line
  BY <1>1, LineStartOf
<1>4. LineStarts(t) = {0} \cup Newlines(t)
  BY LineStartsOf
<1>5. Len(Line(t, line)) = end - from /\ Len(t) \in Nat
  BY <1>2, PartOf
<1>6. PICK i : i = from + k
  OBVIOUS
<1>7. i \in 0..Len(t) /\ i \in from..end
  BY <1>2, <1>5, <1>6
<1>8. from <= Begun(t, i)
  <2>1. from \in {0} \cup Passed(t, i)
    BY <1>3, <1>4, <1>7 DEF Passed
  <2>2. QED
    BY <1>7, <2>1, BegunIs
<1>9. Begun(t, i) <= from
  <2>1. SUFFICES ASSUME ~(Begun(t, i) <= from) PROVE FALSE
    OBVIOUS
  <2>2. Begun(t, i) \in 0..i /\ Begun(t, i) \in {0} \cup Passed(t, i)
    BY <1>7, BegunIs
  <2>3. Begun(t, i) \in (from + 1)..end
    BY <1>2, <1>7, <2>1, <2>2
  <2>4. Begun(t, i) # 0
    BY <1>2, <2>3
  <2>5. t[Begun(t, i)] = "newline"
    BY <2>2, <2>4 DEF Passed, Newlines
  <2>6. QED
    BY <1>2, <2>3, <2>5
<1>10. Begun(t, i) = from
  <2>1. Begun(t, i) \in 0..i
    BY <1>7, BegunIs
  <2>2. QED
    BY <1>2, <1>7, <1>8, <1>9, <2>1
<1>11. PICK row : row = LineForByte(t, Place(t, i))
  OBVIOUS
<1>12. row \in LineNumbers(t) /\ LineStart(t, row) = from
  BY <1>7, <1>10, <1>11, LineForByteIsRow, LineOfPlace
<1>13. row = line
  BY <1>3, <1>12, LineStartOf
<1>14. QED
  BY <1>1, <1>6, <1>7, <1>11, <1>13

LEMMA FrontOfLine ==
  ASSUME NEW t \in Seq(Chars), NEW line \in LineNumbers(t), NEW k \in 0..Len(Line(t, line))
  PROVE  SubSeq(Line(t, line), 1, k) = SubSeq(t, LineStart(t, line) + 1, LineStart(t, line) + k)
<1>1. PICK from : from = LineStart(t, line)
  OBVIOUS
<1>2. PICK end \in from..Len(t) :
        from \in 0..end /\ Line(t, line) = SubSeq(t, from + 1, end)
  BY <1>1, LineIsPart
<1>3. PICK s : s = Line(t, line)
  OBVIOUS
<1>4. end \in 0..Len(t) /\ Len(t) \in Nat
  BY <1>2
<1>5. s \in Seq(Chars) /\ Len(s) = end - from /\ \A i \in 1..(end - from) : s[i] = t[from + i]
  BY <1>2, <1>3, <1>4, PartOf
<1>6. k \in 0..Len(s) /\ from + k \in 0..Len(t) /\ from \in 0..(from + k)
  BY <1>2, <1>3, <1>4, <1>5
<1>7. /\ SubSeq(s, 1, k) \in Seq(Chars) /\ Len(SubSeq(s, 1, k)) = k
      /\ \A j \in 1..k : SubSeq(s, 1, k)[j] = s[j]
  BY <1>5, <1>6
<1>8. /\ SubSeq(t, from + 1, from + k) \in Seq(Chars)
      /\ Len(SubSeq(t, from + 1, from + k)) = k
      /\ \A j \in 1..k : SubSeq(t, from + 1, from + k)[j] = t[from + j]
  <2>1. (from + k) - from = k
    BY <1>6
  <2>2. QED
    BY <1>6, <2>1, PartOf
<1>9. ASSUME NEW j \in 1..k PROVE s[j] = t[from + j]
  BY <1>5, <1>6
<1>10. SubSeq(s, 1, k) = SubSeq(t, from + 1, from + k)
  BY <1>7, <1>8, <1>9, SeqEqual
<1>11. QED
  BY <1>1, <1>3, <1>10

LEMMA SnapOfPlace ==
  ASSUME NEW t \in Seq(Chars), NEW line \in LineNumbers(t), NEW k \in 0..Len(Line(t, line))
  PROVE  SnapToGraphemeStart(t, Place(t, LineStart(t, line) + k))
           = Place(t, LineStart(t, line) + Stop(Line(t, line), k))
<1>1. PICK from : from = LineStart(t, line)
  OBVIOUS
<1>2. PICK s : s = Line(t, line)
  OBVIOUS
<1>3. /\ s \in Seq(Chars) /\ k \in 0..Len(s)
      /\ \A i \in 0..Len(s) : LineToByte(t, line) + Place(s, i) = Place(t, from + i)
  BY <1>1, <1>2, PlaceInLine
<1>4. from + k \in 0..Len(t) /\ LineForByte(t, Place(t, from + k)) = line
  BY <1>1, LineInside
<1>5. PICK b : b = Place(t, from + k)
  OBVIOUS
<1>6. b \in Nat /\ PrevCharBoundary(t, b) = b
  <2>1. b \in Boundaries(t)
    BY <1>4, <1>5, PlaceIsBoundary
  <2>2. b \in Nat
    BY <1>4, <1>5, Places
  <2>3. QED
    BY <2>1, <2>2, PrevBoundary
<1>7. LineToByte(t, line) \in Nat
  <2>1. LineStart(t, line) \in 0..Len(t)
    BY PlaceInLine
  <2>2. QED
    BY <2>1, Places DEF LineToByte
<1>8. \A i \in 0..Len(s) : Place(s, i) \in Nat /\ (i <= k <=> Place(s, i) <= Place(s, k))
  <2>1. ASSUME NEW i \in 0..Len(s)
        PROVE  Place(s, i) \in Nat /\ (i <= k <=> Place(s, i) <= Place(s, k))
    <3>1. Place(s, i) \in Nat /\ Place(s, k) \in Nat /\ (k < i <=> Place(s, k) < Place(s, i))
      BY <1>3, Places
    <3>2. i \in Nat /\ k \in Nat
      BY <1>3
    <3>3. QED
      BY <3>1, <3>2
  <2>2. QED
    BY <2>1
<1>9. Lower(b - LineToByte(t, line), ByteLen(s)) = Place(s, k)
  <2>1. b - LineToByte(t, line) = Place(s, k)
    BY <1>3, <1>5, <1>7, <1>8
  <2>2. Len(s) \in 0..Len(s) /\ ByteLen(s) = Place(s, Len(s)) /\ k <= Len(s)
    BY <1>3, Places
  <2>3. Place(s, k) \in Nat /\ ByteLen(s) \in Nat /\ Place(s, k) <= ByteLen(s)
    <3>1. Place(s, k) \in Nat /\ Place(s, Len(s)) \in Nat
      BY <1>3, <1>8, <2>2
    <3>2. k < Len(s) => Place(s, k) < Place(s, Len(s))
      BY <1>3, <2>2, Places
    <3>3. k = Len(s) \/ k < Len(s)
      BY <1>3, <2>2
    <3>4. QED
      BY <2>2, <3>1, <3>2, <3>3
  <2>4. QED
    BY <2>1, <2>3 DEF Lower
<1>10. PICK T : T = {p \in {Place(s, i) : i \in Clusters(s) \cup {Len(s)}} : p <= Place(s, k)} \cup {0}
  OBVIOUS
<1>11. PICK j : j = Stop(s, k)
  OBVIOUS
<1>12. /\ j \in Stops(s) /\ j \in 0..Len(s) /\ j <= k /\ 0 \in Stops(s)
       /\ Stops(s) \in SUBSET (0..Len(s)) /\ \A i \in Stops(s) : i <= k => i <= j
  BY <1>3, <1>11, StopIs
<1>13. Place(s, j) \in T
  BY <1>8, <1>10, <1>12 DEF Stops
<1>14. ASSUME NEW p \in T PROVE p \in Nat /\ p <= Place(s, j)
  <2>1. CASE p = 0
    BY <1>8, <1>12, <2>1
  <2>2. CASE p # 0
    <3>1. PICK i \in Stops(s) : p = Place(s, i) /\ p <= Place(s, k)
      BY <1>10, <2>2 DEF Stops
    <3>2. i \in 0..Len(s) /\ i <= k
      BY <1>8, <1>12, <3>1
    <3>3. i <= j
      BY <1>12, <3>1, <3>2
    <3>4. Place(s, i) \in Nat /\ Place(s, j) \in Nat /\ (i < j => Place(s, i) < Place(s, j))
      BY <1>3, <1>12, <3>2, Places
    <3>5. i < j \/ i = j
      BY <1>12, <3>2, <3>3
    <3>6. QED
      BY <3>1, <3>4, <3>5
  <2>3. QED
    BY <2>1, <2>2
<1>15. Greatest(T) = Place(s, j)
  <2>1. T \in SUBSET Nat /\ T # {} /\ \A p \in T : p <= Place(s, k)
    BY <1>8, <1>10, <1>13, <1>14, <1>3
  <2>2. Place(s, k) \in Nat
    BY <1>3, <1>8
  <2>3. Greatest(T) \in T /\ \A p \in T : p <= Greatest(T)
    BY <2>1, <2>2, GreatestIs
  <2>4. Greatest(T) \in Nat /\ Greatest(T) <= Place(s, j) /\ Place(s, j) <= Greatest(T)
    BY <1>13, <1>14, <2>3
  <2>5. Place(s, j) \in Nat
    BY <1>13, <1>14
  <2>6. QED
    BY <2>4, <2>5
<1>16. SnapToGraphemeStart(t, b) = LineToByte(t, line) + Greatest(T)
  BY <1>2, <1>4, <1>5, <1>6, <1>9, <1>10 DEF SnapToGraphemeStart
<1>17. QED
  BY <1>1, <1>2, <1>3, <1>5, <1>11, <1>12, <1>15, <1>16

(* What a snapped byte is: the place of a stop of a line.                  *)
LEMMA SnapIsStop ==
  ASSUME NEW t \in Seq(Chars), NEW byte \in Nat
  PROVE  \E line \in LineNumbers(t) : \E j \in Stops(Line(t, line)) :
           SnapToGraphemeStart(t, byte) = Place(t, LineStart(t, line) + j)
<1>1. PICK b : b = PrevCharBoundary(t, byte)
  OBVIOUS
<1>2. b \in Boundaries(t)
  BY <1>1, PrevBoundary
<1>3. b \in Nat /\ Index(t, b) \in 0..Len(t) /\ b = Place(t, Index(t, b))
  BY <1>2, BoundaryHasIndex
<1>4. SnapToGraphemeStart(t, byte) = SnapToGraphemeStart(t, b)
  <2>1. PrevCharBoundary(t, b) = b
    BY <1>2, <1>3, PrevBoundary
  <2>2. QED
    BY <1>1, <2>1 DEF SnapToGraphemeStart
<1>5. PICK line \in LineNumbers(t), k \in Nat :
        k \in 0..Len(Line(t, line)) /\ Index(t, b) = LineStart(t, line) + k
  BY <1>3, InLine
<1>6. SnapToGraphemeStart(t, b) = Place(t, LineStart(t, line) + Stop(Line(t, line), k))
  BY <1>3, <1>5, SnapOfPlace
<1>7. Stop(Line(t, line), k) \in Stops(Line(t, line))
  BY <1>5, PlaceInLine, StopIs
<1>8. QED
  BY <1>4, <1>6, <1>7

(* And what the conversions make of it.                                    *)
LEMMA AtStop ==
  ASSUME NEW t \in Seq(Chars), NEW line \in LineNumbers(t), NEW j \in Stops(Line(t, line)),
         NEW b, b = Place(t, LineStart(t, line) + j)
  PROVE  /\ Line(t, line) \in Seq(Chars) /\ j \in 0..Len(Line(t, line)) /\ b \in Nat
         /\ b = LineToByte(t, line) + Place(Line(t, line), j)
         /\ SnapToGraphemeStart(t, b) = b /\ LineForByte(t, b) = line
         /\ Index(t, b) = LineStart(t, line) + j /\ Index(t, b) - LineStart(t, line) = j
<1>1. Line(t, line) \in Seq(Chars) /\ LineStart(t, line) \in 0..Len(t)
  BY PlaceInLine
<1>2. 0 \in 0..Len(Line(t, line))
  BY <1>1
<1>3. Stops(Line(t, line)) \in SUBSET (0..Len(Line(t, line)))
  BY <1>1, <1>2, StopIs
<1>4. j \in 0..Len(Line(t, line))
  BY <1>3
<1>5. Stop(Line(t, line), j) = j
  BY <1>1, <1>4, StopIs
<1>6. LineStart(t, line) + j \in 0..Len(t) /\ LineForByte(t, b) = line
  BY <1>4, LineInside
<1>7. SnapToGraphemeStart(t, b) = b
  BY <1>4, <1>5, SnapOfPlace
<1>8. b = LineToByte(t, line) + Place(Line(t, line), j)
  BY <1>4, PlaceInLine
<1>9. Index(t, b) = LineStart(t, line) + j
  BY <1>6, IndexOfPlace
<1>10. b \in Nat
  BY <1>6, Places
<1>11. Index(t, b) - LineStart(t, line) = j
  BY <1>1, <1>4, <1>9
<1>12. QED
  BY <1>1, <1>4, <1>6, <1>7, <1>8, <1>9, <1>10, <1>11

-----------------------------------------------------------------------------
(* A cell leads to the first cluster drawn at the column where the cluster *)
(* of the cell is drawn, which is that cluster or one without width.       *)
LEMMA ColumnsGrow ==
  ASSUME NEW s \in Seq(Chars), NEW j \in 0..Len(s), NEW i \in 0..j
  PROVE  /\ Column(s, i) \in Nat /\ Column(s, j) \in Nat /\ Column(s, i) <= Column(s, j)
<1>1. i \in 0..Len(s)
  OBVIOUS
<1>2. Upto(Cells, s, i) \in Nat /\ Upto(Cells, s, j) \in Nat
  BY <1>1, WeightsOfChars, Sums
<1>3. Upto(Cells, s, i) <= Upto(Cells, s, j)
  BY WeightsOfChars, SumsGrow
<1>4. QED
  BY <1>2, <1>3 DEF Column, Upto

LEMMA ClusterEndIs ==
  ASSUME NEW s \in Seq(Chars), NEW i \in Clusters(s)
  PROVE  /\ i \in 0..Len(s) /\ ClusterEnd(s, i) \in 0..Len(s) /\ i < ClusterEnd(s, i)
         /\ \A j \in Stops(s) : i < j => ClusterEnd(s, i) <= j
<1>1. Clusters(s) \in SUBSET (0..(Len(s) - 1)) /\ Len(s) \in Nat
  BY ClustersAreIndices
<1>2. PICK T : T = {j \in Clusters(s) : j > i}
  OBVIOUS
<1>3. ClusterEnd(s, i) = IF T = {} THEN Len(s) ELSE Least(T)
  BY <1>2 DEF ClusterEnd
<1>4. i \in 0..(Len(s) - 1)
  BY <1>1
<1>5. CASE T = {}
  <2>1. ASSUME NEW j \in Stops(s), i < j PROVE Len(s) <= j
    BY <1>1, <1>2, <1>5, <2>1 DEF Stops
  <2>2. QED
    BY <1>1, <1>3, <1>4, <1>5, <2>1
<1>6. CASE T # {}
  <2>1. T \in SUBSET Nat
    BY <1>1, <1>2
  <2>2. Least(T) \in T /\ \A j \in T : Least(T) <= j
    BY <1>6, <2>1, LeastIs
  <2>3. Least(T) \in 0..(Len(s) - 1) /\ i < Least(T)
    BY <1>1, <1>2, <2>2
  <2>4. ASSUME NEW j \in Stops(s), i < j PROVE Least(T) <= j
    <3>1. CASE j = Len(s)
      BY <1>1, <2>3, <3>1
    <3>2. CASE j # Len(s)
      <4>1. j \in T
        BY <1>2, <2>4, <3>2 DEF Stops
      <4>2. QED
        BY <2>2, <4>1
    <3>3. QED
      BY <3>1, <3>2
  <2>5. QED
    BY <1>1, <1>3, <1>4, <1>6, <2>3, <2>4
<1>7. QED
  BY <1>5, <1>6

LEMMA CellOf ==
  ASSUME NEW t \in Seq(Chars), NEW line \in LineNumbers(t), NEW j \in Stops(Line(t, line)),
         NEW byte, SnapToGraphemeStart(t, byte) = Place(t, LineStart(t, line) + j)
  PROVE  ByteToCell(t, byte) = [line |-> line, column |-> Column(Line(t, line), j)]
<1>1. PICK b : b = SnapToGraphemeStart(t, byte)
  OBVIOUS
<1>2. LineForByte(t, b) = line /\ Index(t, b) - LineStart(t, line) = j
  BY <1>1, AtStop
<1>3. QED
  BY <1>1, <1>2 DEF ByteToCell

LEMMA RowOfLine ==
  ASSUME NEW t \in Seq(Chars), NEW line \in LineNumbers(t)
  PROVE  line \in Nat /\ LenLines(t) \in Nat /\ line < LenLines(t) /\ Lower(line, LenLines(t) - 1) = line
<1>1. LenLines(t) \in Nat /\ line \in 0..(LenLines(t) - 1)
  BY LineStartsOf DEF LineNumbers
<1>2. line < LenLines(t) - 1 \/ line = LenLines(t) - 1
  BY <1>1
<1>3. QED
  BY <1>1, <1>2 DEF Lower

LEMMA CellLeadsBack ==
  ASSUME NEW t \in Seq(Chars), NEW line \in LineNumbers(t), NEW j \in Stops(Line(t, line)),
         NEW column \in Nat,
         \/ column = Column(Line(t, line), j)
         \/ /\ j \in Clusters(Line(t, line)) /\ Column(Line(t, line), j) <= column
            /\ column < ColumnAfter(Line(t, line), j)
  PROVE  ByteToCell(t, CellToByte(t, line, column))
           = [line |-> line, column |-> Column(Line(t, line), j)]
<1>1. PICK s : s = Line(t, line)
  OBVIOUS
<1>2. s \in Seq(Chars) /\ Len(s) \in Nat
  BY <1>1, PlaceInLine
<1>3. /\ Clusters(s) \in SUBSET (0..Len(s)) /\ Clusters(s) \in SUBSET Stops(s)
      /\ Stops(s) \in SUBSET (0..Len(s)) /\ j \in Stops(s) /\ j \in 0..Len(s)
  BY <1>1, <1>2, ClustersAreIndices DEF Stops
<1>4. PICK hit : hit = {i \in Clusters(s) : Column(s, i) = column \/ ColumnAfter(s, i) > column}
  OBVIOUS
<1>5. PICK h : h = IF hit = {} THEN Len(s) ELSE Least(hit)
  OBVIOUS
<1>6. CellToByte(t, line, column) = LineToByte(t, line) + Place(s, h)
  BY <1>1, <1>4, <1>5, RowOfLine DEF CellToByte
<1>7. j \in Clusters(s) => j \in hit
  <2>1. ASSUME j \in Clusters(s), column < ColumnAfter(s, j) PROVE ColumnAfter(s, j) > column
    <3>1. ClusterEnd(s, j) \in 0..Len(s) /\ 0 \in 0..ClusterEnd(s, j)
      BY <1>2, <2>1, ClusterEndIs
    <3>2. ColumnAfter(s, j) \in Nat
      BY <1>2, <3>1, ColumnsGrow DEF ColumnAfter
    <3>3. QED
      BY <2>1, <3>2
  <2>2. QED
    BY <1>1, <1>4, <2>1
<1>8. h \in Stops(s) /\ h \in 0..Len(s) /\ Column(s, h) = Column(s, j)
  <2>1. CASE hit = {}
    BY <1>3, <1>5, <1>7, <2>1 DEF Stops
  <2>2. CASE hit # {}
    <3>1. hit \in SUBSET Nat /\ hit \in SUBSET Clusters(s)
      BY <1>3, <1>4
    <3>2. h \in hit /\ \A i \in hit : h <= i
      BY <1>5, <2>2, <3>1, LeastIs
    <3>3. h \in Clusters(s) /\ h \in 0..Len(s) /\ h \in Stops(s)
      BY <1>3, <3>1, <3>2
    <3>4. h <= j
      <4>1. CASE j \in Clusters(s)
        BY <1>7, <3>2, <4>1
      <4>2. CASE j \notin Clusters(s)
        BY <1>3, <3>3, <4>2 DEF Stops
      <4>3. QED
        BY <4>1, <4>2
    <3>5. CASE h = j
      BY <3>3, <3>5
    <3>6. CASE h < j
      <4>1. ClusterEnd(s, h) \in 0..j /\ h \in 0..j
        BY <1>2, <1>3, <3>3, <3>6, ClusterEndIs
      <4>2. /\ ColumnAfter(s, h) \in Nat /\ Column(s, j) \in Nat /\ ColumnAfter(s, h) <= Column(s, j)
        BY <1>2, <1>3, <4>1, ColumnsGrow DEF ColumnAfter
      <4>3. Column(s, h) \in Nat /\ Column(s, h) <= Column(s, j)
        BY <1>2, <1>3, <4>1, ColumnsGrow
      <4>4. Column(s, j) <= column
        BY <1>1, <4>2
      <4>5. Column(s, h) = column
        BY <1>4, <3>2, <4>2, <4>4
      <4>6. QED
        BY <3>3, <4>2, <4>3, <4>4, <4>5
    <3>7. QED
      BY <1>3, <3>3, <3>4, <3>5, <3>6
  <2>3. QED
    BY <2>1, <2>2
<1>9. PICK b : b = Place(t, LineStart(t, line) + h)
  OBVIOUS
<1>10. CellToByte(t, line, column) = b
  BY <1>1, <1>6, <1>8, <1>9, PlaceInLine
<1>11. SnapToGraphemeStart(t, b) = b
  BY <1>1, <1>8, <1>9, AtStop
<1>12. ByteToCell(t, b) = [line |-> line, column |-> Column(s, h)]
  BY <1>1, <1>8, <1>9, <1>11, CellOf
<1>13. QED
  BY <1>1, <1>8, <1>10, <1>12

-----------------------------------------------------------------------------
(* A UTF-16 position leads back.                                           *)
LEMMA UnitsLeadBack ==
  ASSUME NEW t \in Seq(Chars), NEW line \in LineNumbers(t), NEW j \in Stops(Line(t, line)),
         NEW byte, SnapToGraphemeStart(t, byte) = Place(t, LineStart(t, line) + j)
  PROVE  Utf16ToByte(t, ByteToUtf16(t, byte)[1], ByteToUtf16(t, byte)[2])
           = Place(t, LineStart(t, line) + j)
<1>1. PICK s : s = Line(t, line)
  OBVIOUS
<1>2. s \in Seq(Chars) /\ j \in 0..Len(s)
  BY <1>1, AtStop
<1>3. PICK b : b = SnapToGraphemeStart(t, byte)
  OBVIOUS
<1>4. /\ LineForByte(t, b) = line /\ Index(t, b) = LineStart(t, line) + j
      /\ SnapToGraphemeStart(t, b) = b /\ b = LineToByte(t, line) + Place(s, j)
  BY <1>1, <1>3, AtStop
<1>5. ByteToUtf16(t, byte) = <<line, Upto(Units, s, j)>>
  <2>1. SubSeq(s, 1, j) = SubSeq(t, LineStart(t, line) + 1, LineStart(t, line) + j)
    BY <1>1, <1>2, FrontOfLine
  <2>2. QED
    BY <1>3, <1>4, <2>1 DEF ByteToUtf16, Upto
<1>6. PICK unit : unit = Upto(Units, s, j)
  OBVIOUS
<1>7. PICK fits : fits = {i \in 0..Len(s) : Upto(Units, s, i) <= unit}
  OBVIOUS
<1>8. Utf16ToByte(t, line, unit) = SnapToGraphemeStart(t, LineToByte(t, line) + Place(s, Greatest(fits)))
  BY <1>1, <1>7, RowOfLine DEF Utf16ToByte, Upto
<1>9. unit \in Nat
  BY <1>2, <1>6, WeightsOfChars, Sums
<1>10. j \in fits
  BY <1>2, <1>6, <1>7, <1>9
<1>11. ASSUME NEW i \in fits PROVE i <= j
  <2>1. SUFFICES ASSUME j < i PROVE FALSE
    BY <1>2, <1>7
  <2>2. i \in 0..Len(s) /\ Upto(Units, s, i) <= unit /\ j \in 0..i
    BY <1>2, <1>7, <2>1
  <2>3. \A c \in Chars : Units[c] > 0
    BY DEF Units
  <2>4. Upto(Units, s, j) < Upto(Units, s, i)
    BY <1>2, <2>1, <2>2, <2>3, WeightsOfChars, SumsGrow
  <2>5. Upto(Units, s, i) \in Nat
    BY <1>2, <2>2, WeightsOfChars, Sums
  <2>6. QED
    BY <1>6, <1>9, <2>2, <2>4, <2>5
<1>12. Greatest(fits) = j
  <2>1. fits \in SUBSET Nat /\ fits # {} /\ j \in Nat
    BY <1>2, <1>7, <1>10
  <2>2. Greatest(fits) \in fits /\ \A i \in fits : i <= Greatest(fits)
    BY <1>11, <2>1, GreatestIs
  <2>3. Greatest(fits) \in Nat /\ Greatest(fits) <= j /\ j <= Greatest(fits)
    BY <1>10, <1>11, <2>1, <2>2
  <2>4. QED
    BY <2>1, <2>3
<1>13. QED
  BY <1>3, <1>4, <1>5, <1>6, <1>8, <1>12

(* The number of a cluster leads back to it.                               *)
LEMMA GraphemeLeadsBack ==
  ASSUME NEW t \in Seq(Chars), NEW byte, SnapToGraphemeStart(t, byte) \in GraphemeStarts(t)
  PROVE  GraphemeToByte(t, ByteToGrapheme(t, byte)) = SnapToGraphemeStart(t, byte)
<1>1. PICK S : S = GraphemeStarts(t)
  OBVIOUS
<1>2. PICK b : b = SnapToGraphemeStart(t, byte)
  OBVIOUS
<1>3. S \in SUBSET Nat /\ IsFiniteSet(S) /\ b \in S
  <2>1. S \in SUBSET Boundaries(t)
    BY <1>1, GraphemesAreBoundaries
  <2>2. S \in SUBSET (0..ByteLen(t)) /\ ByteLen(t) \in Nat
    <3>1. ByteLen(t) \in Nat
      BY EndsAreBoundaries, BoundaryHasIndex
    <3>2. ASSUME NEW p \in S PROVE p \in 0..ByteLen(t)
      BY <2>1, <3>1, BoundaryHasIndex
    <3>3. QED
      BY <3>1, <3>2
  <2>3. IsFiniteSet(0..ByteLen(t))
    BY <2>2, FS_Interval
  <2>4. QED
    BY <1>1, <1>2, <2>2, <2>3, FS_Subset
<1>4. ByteToGrapheme(t, byte) = Rank(S, b)
  BY <1>1, <1>2 DEF ByteToGrapheme, Rank
<1>5. PICK at : at = {p \in S : Rank(S, p) = Rank(S, b)}
  OBVIOUS
<1>6. GraphemeToByte(t, Rank(S, b)) = IF at = {} THEN ByteLen(t) ELSE Least(at)
  BY <1>1, <1>5 DEF GraphemeToByte, Rank
<1>7. b \in at /\ \A p \in at : p = b
  <2>1. b \in at
    BY <1>3, <1>5
  <2>2. ASSUME NEW p \in at PROVE p = b
    BY <1>3, <1>5, RankOnce
  <2>3. QED
    BY <2>1, <2>2
<1>8. Least(at) = b
  <2>1. at \in SUBSET Nat /\ at # {}
    BY <1>3, <1>5, <1>7
  <2>2. QED
    BY <1>7, <2>1, LeastIs
<1>9. QED
  BY <1>2, <1>4, <1>6, <1>7, <1>8

(* A byte is between the start of its line and that of the next.           *)
LEMMA LineHolds ==
  ASSUME NEW t \in Seq(Chars), NEW b \in 0..ByteLen(t)
  PROVE  /\ LineToByte(t, LineForByte(t, b)) \in Nat
         /\ LineToByte(t, LineForByte(t, b)) <= b
         /\ LineForByte(t, b) + 1 < LenLines(t) =>
              /\ LineToByte(t, LineForByte(t, b) + 1) \in Nat
              /\ b <= LineToByte(t, LineForByte(t, b) + 1)
<1>1. PICK p : p = PrevCharBoundary(t, b)
  OBVIOUS
<1>2. b \in Nat /\ p \in Boundaries(t) /\ p <= b /\ \A q \in Boundaries(t) : q <= b => q <= p
  <2>1. ByteLen(t) \in Nat
    BY EndsAreBoundaries, BoundaryHasIndex
  <2>2. b \in Nat
    BY <2>1
  <2>3. QED
    BY <1>1, <2>2, PrevBoundary
<1>3. PICK i \in 0..Len(t) : p = Place(t, i)
  BY <1>2, BoundaryHasIndex
<1>4. p \in Nat /\ i \in Nat
  BY <1>3, Places
<1>5. PICK line : line = LineForByte(t, b)
  OBVIOUS
<1>6. line = LineForByte(t, p)
  <2>1. ASSUME NEW j \in 1..Len(t) PROVE Place(t, j) <= b <=> Place(t, j) <= p
    <3>1. j \in 0..Len(t)
      OBVIOUS
    <3>2. Place(t, j) \in Boundaries(t) /\ Place(t, j) \in Nat
      BY <3>1, Places, PlaceIsBoundary
    <3>3. QED
      BY <1>2, <1>4, <3>2
  <2>2. {j \in 1..Len(t) : t[j] = "newline" /\ Place(t, j) <= b}
          = {j \in 1..Len(t) : t[j] = "newline" /\ Place(t, j) <= p}
    BY <2>1
  <2>3. QED
    BY <1>5, <2>2 DEF LineForByte
<1>7. line \in LineNumbers(t) /\ LineStart(t, line) = Begun(t, i) /\ Begun(t, i) \in 0..i
  BY <1>3, <1>6, LineForByteIsRow, LineOfPlace, BegunIs
<1>8. LineToByte(t, line) \in Nat /\ LineToByte(t, line) <= b
  <2>1. Begun(t, i) \in 0..Len(t) /\ (Begun(t, i) = i \/ Begun(t, i) < i)
    BY <1>4, <1>7
  <2>2. /\ Place(t, Begun(t, i)) \in Nat
        /\ Begun(t, i) < i => Place(t, Begun(t, i)) < Place(t, i)
    BY <2>1, Places
  <2>3. Place(t, Begun(t, i)) <= p
    BY <1>3, <1>4, <2>1, <2>2
  <2>4. LineToByte(t, line) = Place(t, Begun(t, i))
    BY <1>7 DEF LineToByte
  <2>5. QED
    BY <1>2, <1>4, <2>2, <2>3, <2>4
<1>9. ASSUME line + 1 < LenLines(t)
      PROVE  LineToByte(t, line + 1) \in Nat /\ b <= LineToByte(t, line + 1)
  <2>1. line + 1 \in LineNumbers(t) /\ line \in Nat
    BY <1>7, <1>9, LineStartsOf DEF LineNumbers
  <2>2. PICK S : S = LineStarts(t)
    OBVIOUS
  <2>3. PICK n : n = LineStart(t, line + 1)
    OBVIOUS
  <2>4. n \in S /\ Rank(S, n) = line + 1 /\ Begun(t, i) \in S /\ Rank(S, Begun(t, i)) = line
    BY <1>7, <2>1, <2>2, <2>3, LineStartOf
  <2>5. S = {0} \cup Newlines(t) /\ S \in SUBSET Nat /\ S \in SUBSET (0..Len(t)) /\ IsFiniteSet(S)
    BY <2>2, LineStartsOf
  <2>6. Begun(t, i) < n
    <3>1. SUFFICES ASSUME n <= Begun(t, i) PROVE FALSE
      BY <2>4, <2>5
    <3>2. n = Begun(t, i) \/ n < Begun(t, i)
      BY <2>4, <2>5, <3>1
    <3>3. n # Begun(t, i)
      BY <2>1, <2>4
    <3>4. Rank(S, n) < Rank(S, Begun(t, i))
      BY <2>4, <2>5, <3>2, <3>3, RankGrows
    <3>5. QED
      BY <2>1, <2>4, <3>4
  <2>7. i < n
    <3>1. SUFFICES ASSUME n <= i PROVE FALSE
      BY <1>4, <2>4, <2>5
    <3>2. n \in {0} \cup Passed(t, i)
      BY <2>4, <2>5, <3>1 DEF Passed
    <3>3. n <= Begun(t, i)
      BY <3>2, BegunIs
    <3>4. QED
      BY <1>7, <2>4, <2>5, <2>6, <3>3
  <2>8. n \in 0..Len(t) /\ Place(t, n) \in Nat /\ p < Place(t, n)
    BY <1>3, <2>4, <2>5, <2>7, Places
  <2>9. b < Place(t, n)
    BY <1>2, <1>4, <2>8, PlaceIsBoundary
  <2>10. QED
    BY <1>2, <2>3, <2>8, <2>9 DEF LineToByte
<1>10. QED
  BY <1>5, <1>8, <1>9

LEMMA LineColLeadsBack ==
  ASSUME NEW t \in Seq(Chars), NEW byte \in Nat
  PROVE  LineColToByte(t, ByteToLineCol(t, byte)[1], ByteToLineCol(t, byte)[2])
           = Lower(byte, ByteLen(t))
<1>1. PICK b : b = Lower(byte, ByteLen(t))
  OBVIOUS
<1>2. ByteLen(t) \in Nat
  BY EndsAreBoundaries, BoundaryHasIndex
<1>3. b \in 0..ByteLen(t)
  BY <1>1, <1>2 DEF Lower
<1>4. PICK line : line = LineForByte(t, b)
  OBVIOUS
<1>5. PICK begin : begin = LineToByte(t, line)
  OBVIOUS
<1>6. ByteToLineCol(t, byte) = <<line, b - begin>>
  BY <1>1, <1>4, <1>5 DEF ByteToLineCol
<1>7. line \in LineNumbers(t)
  BY <1>4, LineForByteIsRow
<1>8. PICK end : end = IF line + 1 < LenLines(t) THEN LineToByte(t, line + 1) ELSE ByteLen(t)
  OBVIOUS
<1>9. LineColToByte(t, line, b - begin) = begin + Lower(b - begin, end - begin)
  BY <1>5, <1>7, <1>8, RowOfLine DEF LineColToByte
<1>10. begin \in Nat /\ begin <= b /\ end \in Nat /\ b <= end
  BY <1>2, <1>3, <1>4, <1>5, <1>8, LineHolds
<1>11. Lower(b - begin, end - begin) = b - begin
  BY <1>3, <1>10 DEF Lower
<1>12. begin + (b - begin) = b
  BY <1>3, <1>10
<1>13. QED
  BY <1>1, <1>6, <1>9, <1>11, <1>12

-----------------------------------------------------------------------------
(* All of them, for every text; and the mouse.                             *)
LEMMA ConversionsOfText ==
  ASSUME text \in Seq(Chars)
  PROVE  ConversionsAgree
<1>1. ByteLen(text) + 1 \in Nat
  BY EndsAreBoundaries, BoundaryHasIndex
<1>2. SUFFICES ASSUME NEW byte \in 0..(ByteLen(text) + 1)
      PROVE  LET start == SnapToGraphemeStart(text, byte)
                 cell == ByteToCell(text, byte)
                 utf16 == ByteToUtf16(text, byte)
                 at == ByteToLineCol(text, byte)
             IN  /\ ByteToCell(text, CellToByte(text, cell.line, cell.column)) = cell
                 /\ Utf16ToByte(text, utf16[1], utf16[2]) = start
                 /\ start \in GraphemeStarts(text) =>
                      GraphemeToByte(text, ByteToGrapheme(text, byte)) = start
                 /\ LineColToByte(text, at[1], at[2]) = Lower(byte, ByteLen(text))
  BY DEF ConversionsAgree
<1>3. byte \in Nat
  BY <1>1
<1>4. PICK line \in LineNumbers(text) : \E j \in Stops(Line(text, line)) :
        SnapToGraphemeStart(text, byte) = Place(text, LineStart(text, line) + j)
  BY <1>3, SnapIsStop
<1>5. PICK j \in Stops(Line(text, line)) :
        SnapToGraphemeStart(text, byte) = Place(text, LineStart(text, line) + j)
  BY <1>4
<1>6. PICK column : column = Column(Line(text, line), j)
  OBVIOUS
<1>7. ByteToCell(text, byte) = [line |-> line, column |-> column]
  BY <1>5, <1>6, CellOf
<1>8. column \in Nat
  <2>1. Line(text, line) \in Seq(Chars) /\ j \in 0..Len(Line(text, line))
    BY AtStop
  <2>2. j \in 0..j
    BY <2>1
  <2>3. QED
    BY <1>6, <2>1, <2>2, ColumnsGrow
<1>9. ByteToCell(text, CellToByte(text, line, column)) = [line |-> line, column |-> column]
  BY <1>6, <1>8, CellLeadsBack
<1>10. Utf16ToByte(text, ByteToUtf16(text, byte)[1], ByteToUtf16(text, byte)[2])
         = SnapToGraphemeStart(text, byte)
  BY <1>5, UnitsLeadBack
<1>11. SnapToGraphemeStart(text, byte) \in GraphemeStarts(text) =>
         GraphemeToByte(text, ByteToGrapheme(text, byte)) = SnapToGraphemeStart(text, byte)
  BY GraphemeLeadsBack
<1>12. LineColToByte(text, ByteToLineCol(text, byte)[1], ByteToLineCol(text, byte)[2])
         = Lower(byte, ByteLen(text))
  BY <1>3, LineColLeadsBack
<1>13. QED
  BY <1>7, <1>9, <1>10, <1>11, <1>12

LEMMA GutterIs ==
  ASSUME NEW n \in Nat
  PROVE  GutterWidth(n) \in Nat
<1>1. PICK D : D = {k \in 0..n : 10 ^ k <= n}
  OBVIOUS
<1>2. Cardinality(D) \in Nat
  <2>1. IsFiniteSet(0..n)
    BY FS_Interval
  <2>2. D \in SUBSET (0..n)
    BY <1>1
  <2>3. QED
    BY <2>1, <2>2, FS_Subset, FS_CardinalityType
<1>3. Digits(n) = Cardinality(D)
  BY <1>1 DEF Digits
<1>4. QED
  BY <1>2, <1>3 DEF GutterWidth, Higher

LEMMA ClicksOfText ==
  ASSUME text \in Seq(Chars)
  PROVE  ClickHitsWhatIsShown
<1>1. SUFFICES ASSUME NEW rect \in Windows, NEW scroll \in 0..LenLines(text),
                      NEW shown \in ShownCells(text, rect, scroll)
               PROVE  ByteToCell(text, EditorMouseToByte(text, rect, scroll, shown.x, shown.y))
                        = IF rect.height = 3
                            THEN [line |-> ByteToCell(text, shown.at).line, column |-> 0]
                            ELSE ByteToCell(text, shown.at)
  BY DEF ClickHitsWhatIsShown
<1>2. LenLines(text) \in Nat /\ LenLines(text) - 1 \in Nat
  BY LineStartsOf
<1>3. PICK numbers : numbers = GutterWidth(LenLines(text))
  OBVIOUS
<1>4. PICK first : first = FirstShown(text, scroll)
  OBVIOUS
<1>5. PICK area : area = CodeArea(rect)
  OBVIOUS
<1>6. PICK last : last = LenLines(text) - 1
  OBVIOUS
<1>7. last \in Nat /\ LenLines(text) = last + 1 /\ LineNumbers(text) = 0..last
  BY <1>2, <1>6 DEF LineNumbers
<1>8. /\ numbers \in Nat /\ first \in 0..last /\ scroll \in Nat
      /\ first = scroll \/ (scroll = last + 1 /\ first = last)
  <2>1. numbers \in Nat
    BY <1>2, <1>3, GutterIs
  <2>2. scroll \in 0..(last + 1)
    BY <1>7
  <2>3. first = IF scroll < last THEN scroll ELSE last
    BY <1>4, <1>6 DEF FirstShown, Lower
  <2>4. QED
    BY <1>7, <2>1, <2>2, <2>3
<1>9. PICK h, left, top : h = rect.height /\ left = CodeX(rect) /\ top = CodeY(rect)
  OBVIOUS
<1>10. PICK upper, width, height :
         upper = area.y /\ width = area.width /\ height = area.height
  OBVIOUS
<1>11. PICK x, y : x = shown.x /\ y = shown.y
  OBVIOUS
<1>12. PICK rows, header : /\ rows = HeaderRows(rect)
                           /\ header = IF h - 2 >= 4 THEN 2 ELSE IF h - 2 = 1 THEN 0 ELSE 1
  OBVIOUS
<1>13. PICK atX, atY, wide : atX = rect.x /\ atY = rect.y /\ wide = rect.width
  OBVIOUS
<1>14. /\ atX \in Nat /\ atY \in Nat /\ wide \in Nat /\ h \in Nat
       /\ rows = 1 + (IF h - 2 >= 4 THEN 1 ELSE 0)
       /\ left = atX + 1 /\ top = atY + 1 + rows
       /\ area.x = left /\ upper = atY + 1 + header
       /\ width = wide - 2 /\ height = h - 2 - header
  <2>1. rect \in [x : Nat, y : Nat, width : Nat, height : Nat]
    BY EditorAssumption
  <2>2. atX \in Nat /\ atY \in Nat /\ wide \in Nat /\ h \in Nat
    BY <1>9, <1>13, <2>1
  <2>3. rows = 1 + (IF h - 2 >= 4 THEN 1 ELSE 0)
    BY <1>9, <1>12 DEF HeaderRows
  <2>4. left = atX + 1 /\ top = atY + 1 + rows
    BY <1>9, <1>12, <1>13 DEF CodeX, CodeY
  <2>5. /\ area.x = atX + 1 /\ upper = atY + 1 + header
        /\ width = wide - 2 /\ height = h - 2 - header
    BY <1>5, <1>9, <1>10, <1>12, <1>13 DEF CodeArea
  <2>6. QED
    BY <2>2, <2>3, <2>4, <2>5
<1>15. /\ left \in Nat /\ top \in Nat /\ width \in Int /\ height \in Int /\ height <= h - 2
       /\ upper \in Nat
  <2>1. rows \in {1, 2} /\ header \in {0, 1, 2}
    BY <1>12, <1>14
  <2>2. QED
    BY <1>14, <2>1
(* The rows above the code are those that the mouse counts, unless there   *)
(* is one row for all.                                                     *)
<1>16. /\ h # 3 => upper = top
       /\ h = 3 => upper = top - 1 /\ height = 1
  <2>1. CASE h = 3
    <3>1. header = 0 /\ rows = 1
      BY <1>12, <1>14, <2>1
    <3>2. QED
      BY <1>14, <2>1, <3>1
  <2>2. CASE h # 3
    <3>1. header = rows /\ rows \in {1, 2}
      BY <1>12, <1>14, <2>2
    <3>2. QED
      BY <1>14, <2>2, <3>1
  <2>3. QED
    BY <2>1, <2>2
<1>17. PICK line, i, column :
        /\ line \in first..Lower(last, first + height - 1)
        /\ i \in Clusters(Line(text, line))
        /\ column \in Column(Line(text, line), i)..(ColumnAfter(Line(text, line), i) - 1)
        /\ numbers + column < width
        /\ shown = [x |-> area.x + numbers + column, y |-> area.y + line - first,
                    at |-> LineToByte(text, line) + Place(Line(text, line), i)]
  BY <1>1, <1>3, <1>4, <1>5, <1>6, <1>10 DEF ShownCells, GutterWidth
<1>18. line \in LineNumbers(text) /\ line \in first..last /\ line \in Nat /\ height > 0
  <2>1. PICK below : below = first + height - 1
    OBVIOUS
  <2>2. below \in Int
    BY <1>8, <1>15, <2>1
  <2>3. line \in first..(IF last < below THEN last ELSE below)
    BY <1>17, <2>1 DEF Lower
  <2>4. line \in Int /\ first <= line /\ line <= last /\ line <= below
    BY <1>7, <1>8, <2>2, <2>3
  <2>5. height > 0
    BY <1>8, <1>15, <2>1, <2>4
  <2>6. QED
    BY <1>7, <1>8, <2>4, <2>5
<1>19. PICK s : s = Line(text, line)
  OBVIOUS
<1>20. s \in Seq(Chars) /\ i \in Stops(s)
  BY <1>17, <1>18, <1>19, PlaceInLine DEF Stops
<1>21. /\ Column(s, i) \in Nat /\ ColumnAfter(s, i) \in Nat
       /\ column \in Nat /\ Column(s, i) <= column /\ column < ColumnAfter(s, i)
  <2>1. i \in 0..Len(s) /\ ClusterEnd(s, i) \in 0..Len(s) /\ i < ClusterEnd(s, i)
    BY <1>17, <1>19, <1>20, ClusterEndIs
  <2>2. i \in 0..ClusterEnd(s, i)
    BY <2>1
  <2>3. Column(s, i) \in Nat /\ ColumnAfter(s, i) \in Nat
    BY <1>20, <2>1, <2>2, ColumnsGrow DEF ColumnAfter
  <2>4. QED
    BY <1>17, <1>19, <2>3
<1>22. /\ x = left + numbers + column /\ y = upper + line - first
       /\ shown.at = LineToByte(text, line) + Place(s, i)
  BY <1>10, <1>11, <1>14, <1>17, <1>19
<1>23. ~(rect.width = 0 \/ rect.height = 0)
  <2>1. width > 0
    BY <1>8, <1>15, <1>17, <1>21
  <2>2. wide # 0 /\ h # 0
    BY <1>14, <1>15, <1>18, <2>1
  <2>3. QED
    BY <1>9, <1>13, <2>2
<1>24. ASSUME h # 3
       PROVE  EditorMouseToByte(text, rect, scroll, x, y) = CellToByte(text, line, column)
  <2>1. upper = top
    BY <1>16, <1>24
  <2>2. ~(y < CodeY(rect) \/ x < CodeX(rect))
    <3>1. ~(y < top \/ x < left)
      BY <1>8, <1>15, <1>18, <1>21, <1>22, <2>1
    <3>2. QED
      BY <1>9, <3>1
  <2>3. Lower(scroll + y - CodeY(rect), LenLines(text) - 1) = line
    <3>1. scroll + y - top = scroll + (line - first)
      BY <1>8, <1>15, <1>18, <1>22, <2>1
    <3>2. IF scroll + (line - first) < last THEN scroll + (line - first) = line ELSE last = line
      BY <1>7, <1>8, <1>18
    <3>3. QED
      BY <1>6, <1>9, <3>1, <3>2 DEF Lower
  <2>4. Higher(x - CodeX(rect) - GutterWidth(LenLines(text)), 0) = column
    <3>1. x - left - numbers = column
      BY <1>8, <1>15, <1>21, <1>22
    <3>2. Higher(column, 0) = column
      BY <1>21 DEF Higher
    <3>3. QED
      BY <1>3, <1>9, <3>1, <3>2
  <2>5. QED
    BY <1>23, <2>2, <2>3, <2>4 DEF EditorMouseToByte
<1>25. ByteToCell(text, CellToByte(text, line, column)) = [line |-> line, column |-> Column(s, i)]
  BY <1>17, <1>18, <1>19, <1>20, <1>21, CellLeadsBack
<1>26. ByteToCell(text, shown.at) = [line |-> line, column |-> Column(s, i)]
  <2>1. PICK b : b = Place(text, LineStart(text, line) + i)
    OBVIOUS
  <2>2. b = shown.at /\ SnapToGraphemeStart(text, b) = b
    BY <1>18, <1>19, <1>20, <1>22, <2>1, AtStop
  <2>3. QED
    BY <1>18, <1>19, <1>20, <2>1, <2>2, CellOf
(* In a pane of three rows the only line is the first, and a click on it is *)
(* taken for one above the code.                                           *)
<1>27. ASSUME h = 3
       PROVE  EditorMouseToByte(text, rect, scroll, x, y) = CellToByte(text, line, 0)
  <2>1. upper = top - 1 /\ height = 1
    BY <1>16, <1>27
  <2>2. line = first
    <3>1. first + height - 1 = first
      BY <1>8, <2>1
    <3>2. line \in first..(IF last < first THEN last ELSE first)
      BY <1>17, <3>1 DEF Lower
    <3>3. QED
      BY <1>7, <1>8, <3>2
  <2>3. y < CodeY(rect)
    <3>1. y < top
      BY <1>8, <1>15, <1>22, <2>1, <2>2
    <3>2. QED
      BY <1>9, <3>1
  <2>4. Lower(scroll, LenLines(text) - 1) = Lower(line, LenLines(text) - 1)
    BY <1>6, <1>7, <1>8, <2>2 DEF Lower
  <2>5. CellToByte(text, scroll, 0) = CellToByte(text, line, 0)
    BY <2>4 DEF CellToByte
  <2>6. QED
    BY <1>23, <2>3, <2>5 DEF EditorMouseToByte
<1>28. ByteToCell(text, CellToByte(text, line, 0)) = [line |-> line, column |-> 0]
  <2>1. 0 \in Stops(s) /\ Len(s) \in Nat
    BY <1>20 DEF Stops, Clusters
  <2>2. 0 \in 0..Len(s)
    BY <2>1
  <2>3. Column(s, 0) = 0
    BY <1>20, <2>2, WeightsOfChars, Sums DEF Column, Upto
  <2>4. QED
    BY <1>18, <1>19, <2>1, <2>3, CellLeadsBack
<1>29. QED
  BY <1>9, <1>11, <1>24, <1>25, <1>26, <1>27, <1>28

-----------------------------------------------------------------------------
(* byte_to_point counts the row and the bytes since it began.              *)
LEMMA PassedNext ==
  ASSUME NEW t \in Seq(Chars), NEW i \in 1..Len(t)
  PROVE  /\ Cardinality(Passed(t, i - 1)) \in Nat
         /\ t[i] = "newline" => /\ Cardinality(Passed(t, i)) = Cardinality(Passed(t, i - 1)) + 1
                                /\ Begun(t, i) = i
         /\ t[i] # "newline" => /\ Cardinality(Passed(t, i)) = Cardinality(Passed(t, i - 1))
                                /\ Begun(t, i) = Begun(t, i - 1)
<1>1. IsFiniteSet(Passed(t, i - 1))
  BY LineStartsOf, FS_Subset DEF Passed
<1>2. Cardinality(Passed(t, i - 1)) \in Nat
  BY <1>1, FS_CardinalityType
<1>3. ASSUME t[i] = "newline"
      PROVE  Cardinality(Passed(t, i)) = Cardinality(Passed(t, i - 1)) + 1 /\ Begun(t, i) = i
  <2>1. Passed(t, i) = Passed(t, i - 1) \cup {i} /\ i \notin Passed(t, i - 1)
    BY <1>3 DEF Passed, Newlines
  <2>2. Cardinality(Passed(t, i - 1) \cup {i}) = Cardinality(Passed(t, i - 1)) + 1
    BY <1>1, <2>1, FS_AddElement
  <2>3. i \in 0..Len(t) /\ i \in Passed(t, i)
    BY <2>1
  <2>4. Begun(t, i) \in 0..i /\ i <= Begun(t, i)
    BY <2>3, BegunIs
  <2>5. QED
    BY <2>1, <2>2, <2>4
<1>4. ASSUME t[i] # "newline"
      PROVE  /\ Cardinality(Passed(t, i)) = Cardinality(Passed(t, i - 1))
             /\ Begun(t, i) = Begun(t, i - 1)
  <2>1. Passed(t, i) = Passed(t, i - 1)
    BY <1>4 DEF Passed, Newlines
  <2>2. QED
    BY <2>1 DEF Begun
<1>5. QED
  BY <1>2, <1>3, <1>4

LEMMA PointOfPlace ==
  ASSUME NEW t \in Seq(Chars), NEW i \in 0..Len(t)
  PROVE  ByteToPoint(t, Place(t, i)) = PointOf(t, Place(t, i))
<1> DEFINE byte == Place(t, i)
           X == Nat \X Nat
           step == [n \in 1..Len(t) |-> [x \in X |->
             IF Place(t, n) > byte THEN x
             ELSE IF t[n] = "newline" THEN <<x[1] + 1, 0>>
             ELSE <<x[1], x[2] + Bytes[t[n]]>>]]
           at == CHOOSE f : f = [n \in 0..Len(t) |->
             IF n = 0 THEN <<0, 0>>
             ELSE IF Place(t, n) > byte THEN f[n - 1]
             ELSE IF t[n] = "newline" THEN <<f[n - 1][1] + 1, 0>>
             ELSE <<f[n - 1][1], f[n - 1][2] + Bytes[t[n]]>>]
<1>1. Len(t) \in Nat /\ <<0, 0>> \in X /\ \A n \in 1..Len(t) : Bytes[t[n]] \in Nat
  BY WeightsOfChars DEF Weights
<1>2. step \in Steps(X, Len(t))
  <2>1. ASSUME NEW n \in 1..Len(t), NEW x \in X
        PROVE  (IF Place(t, n) > byte THEN x
                ELSE IF t[n] = "newline" THEN <<x[1] + 1, 0>>
                ELSE <<x[1], x[2] + Bytes[t[n]]>>) \in X
    BY <1>1
  <2>2. QED
    BY <2>1 DEF Steps
<1>3. \E f : Recursive(X, <<0, 0>>, Len(t), step, f)
  BY <1>1, <1>2, RecursionExists
<1>4. PICK f : Recursive(X, <<0, 0>>, Len(t), step, f)
  BY <1>3
<1>5. f = [n \in 0..Len(t) |->
             IF n = 0 THEN <<0, 0>>
             ELSE IF Place(t, n) > byte THEN f[n - 1]
             ELSE IF t[n] = "newline" THEN <<f[n - 1][1] + 1, 0>>
             ELSE <<f[n - 1][1], f[n - 1][2] + Bytes[t[n]]>>]
  <2>1. f \in [0..Len(t) -> X] /\ f[0] = <<0, 0>>
    BY <1>4 DEF Recursive
  <2>2. ASSUME NEW n \in 1..Len(t)
        PROVE  f[n] = IF Place(t, n) > byte THEN f[n - 1]
                      ELSE IF t[n] = "newline" THEN <<f[n - 1][1] + 1, 0>>
                      ELSE <<f[n - 1][1], f[n - 1][2] + Bytes[t[n]]>>
    <3>1. f[n - 1] \in X
      <4>1. n - 1 \in 0..Len(t)
        BY <1>1
      <4>2. QED
        BY <2>1, <4>1
    <3>2. f[n] = step[n][f[n - 1]]
      BY <1>4 DEF Recursive
    <3>3. QED
      BY <3>1, <3>2
  <2>3. \A n \in 0..Len(t) : n = 0 \/ n \in 1..Len(t)
    BY <1>1
  <2> HIDE DEF byte, X, step
  <2>4. QED
    BY <2>1, <2>2, <2>3
<1>6. at = [n \in 0..Len(t) |->
             IF n = 0 THEN <<0, 0>>
             ELSE IF Place(t, n) > byte THEN at[n - 1]
             ELSE IF t[n] = "newline" THEN <<at[n - 1][1] + 1, 0>>
             ELSE <<at[n - 1][1], at[n - 1][2] + Bytes[t[n]]>>]
  BY <1>5, Zenon
<1>7. ByteToPoint(t, byte) = at[Len(t)]
  BY Zenon DEF ByteToPoint
<1> HIDE DEF at, step, X
<1> DEFINE Here(n) == <<Cardinality(Passed(t, n)), Place(t, n) - Place(t, Begun(t, n))>>
           T == {m \in Nat : m <= Len(t) => at[m] = IF m <= i THEN Here(m) ELSE Here(i)}
<1>8. 0 \in T
  <2>1. Passed(t, 0) = {}
    BY DEF Passed, Newlines
  <2>2. Begun(t, 0) = 0
    BY <1>1, BegunIs
  <2>3. Here(0) = <<0, 0>>
    <3>1. Cardinality(Passed(t, 0)) = 0
      BY <2>1, FS_EmptySet
    <3>2. Place(t, 0) = 0
      BY Places
    <3>3. QED
      BY <2>2, <3>1, <3>2
  <2>4. at[0] = <<0, 0>>
    BY <1>1, <1>6
  <2>5. QED
    BY <2>3, <2>4
<1>9. ASSUME NEW m \in T PROVE m + 1 \in T
  <2>1. SUFFICES ASSUME m + 1 <= Len(t)
                 PROVE  at[m + 1] = IF m + 1 <= i THEN Here(m + 1) ELSE Here(i)
    OBVIOUS
  <2>2. PICK n \in 1..Len(t) : n = m + 1 /\ n - 1 = m
    BY <2>1
  <2>3. at[n - 1] = IF n - 1 <= i THEN Here(n - 1) ELSE Here(i)
    BY <2>1, <2>2
  <2>4. at[n] = IF Place(t, n) > byte THEN at[n - 1]
                ELSE IF t[n] = "newline" THEN <<at[n - 1][1] + 1, 0>>
                ELSE <<at[n - 1][1], at[n - 1][2] + Bytes[t[n]]>>
    <3>1. n \in 0..Len(t) /\ n # 0
      BY <1>1
    <3> HIDE DEF byte
    <3>2. QED
      BY <1>6, <3>1, Zenon
  <2>5. /\ Place(t, n) > byte <=> i < n
        /\ Place(t, n) = Place(t, n - 1) + Bytes[t[n]] /\ Place(t, n - 1) \in Nat
        /\ Place(t, n) \in Nat
    <3>1. n \in 0..Len(t) /\ n - 1 \in 0..Len(t)
      BY <1>1
    <3>2. /\ Place(t, n) \in Nat /\ Place(t, i) \in Nat /\ Place(t, n - 1) \in Nat
          /\ i < n <=> Place(t, i) < Place(t, n)
      BY <3>1, Places
    <3>3. QED
      BY <3>2, Places
  <2>6. CASE i < n
    <3>1. at[n] = at[n - 1]
      BY <2>4, <2>5, <2>6
    <3>2. at[n - 1] = Here(i)
      <4>1. n - 1 <= i => n - 1 = i
        BY <2>6
      <4>2. QED
        BY <2>3, <4>1
    <3>3. QED
      BY <2>2, <2>6, <3>1, <3>2
  <2>7. CASE ~(i < n)
    <3>1. at[n - 1] = Here(n - 1)
      BY <2>3, <2>7
    <3>2. at[n] = Here(n)
      <4>1. CASE t[n] = "newline"
        <5>1. at[n] = <<at[n - 1][1] + 1, 0>>
          BY <2>4, <2>5, <2>7, <4>1
        <5>2. /\ Cardinality(Passed(t, n)) = Cardinality(Passed(t, n - 1)) + 1
              /\ Begun(t, n) = n
          BY <4>1, PassedNext
        <5>3. Place(t, n) - Place(t, Begun(t, n)) = 0
          BY <2>5, <5>2
        <5>4. QED
          BY <3>1, <5>1, <5>2, <5>3
      <4>2. CASE t[n] # "newline"
        <5>1. at[n] = <<at[n - 1][1], at[n - 1][2] + Bytes[t[n]]>>
          BY <2>4, <2>5, <2>7, <4>2
        <5>2. /\ Cardinality(Passed(t, n)) = Cardinality(Passed(t, n - 1))
              /\ Begun(t, n) = Begun(t, n - 1)
          BY <4>2, PassedNext
        <5>3. Place(t, Begun(t, n - 1)) \in Nat
          <6>1. n - 1 \in 0..Len(t)
            BY <1>1
          <6>2. Begun(t, n - 1) \in 0..Len(t)
            BY <1>1, <6>1, BegunIs
          <6>3. QED
            BY <6>2, Places
        <5>4. Place(t, n) - Place(t, Begun(t, n))
                = (Place(t, n - 1) - Place(t, Begun(t, n - 1))) + Bytes[t[n]]
          BY <1>1, <2>5, <5>2, <5>3
        <5>5. QED
          BY <3>1, <5>1, <5>2, <5>4
      <4>3. QED
        BY <4>1, <4>2
    <3>3. QED
      BY <2>2, <2>7, <3>2
  <2>8. QED
    BY <2>6, <2>7
<1>10. Len(t) \in T
  <2> HIDE DEF T
  <2>1. T \in SUBSET Nat
    BY DEF T
  <2>2. QED
    BY <1>1, <1>8, <1>9, <2>1, Everywhere
<1>11. at[Len(t)] = Here(i)
  <2>1. Len(t) <= i => i = Len(t)
    BY <1>1
  <2>2. QED
    BY <1>10, <2>1
<1>12. PointOf(t, byte) = Here(i)
  BY LineOfPlace DEF PointOf, LineToByte
<1>13. QED
  BY <1>7, <1>11, <1>12

-----------------------------------------------------------------------------
(* The difference of two texts.                                            *)
LEMMA CommonPrefixIs ==
  ASSUME NEW s \in Seq(Chars), NEW t \in Seq(Chars)
  PROVE  /\ CommonPrefix(s, t) \in Nat
         /\ CommonPrefix(s, t) <= Len(s) /\ CommonPrefix(s, t) <= Len(t)
         /\ SubSeq(s, 1, CommonPrefix(s, t)) = SubSeq(t, 1, CommonPrefix(s, t))
<1>1. PICK T : T = {n \in 0..Lower(Len(s), Len(t)) : SubSeq(s, 1, n) = SubSeq(t, 1, n)}
  OBVIOUS
<1>2. Lower(Len(s), Len(t)) \in Nat /\ Lower(Len(s), Len(t)) <= Len(s)
      /\ Lower(Len(s), Len(t)) <= Len(t) /\ Len(s) \in Nat /\ Len(t) \in Nat
  BY DEF Lower
<1>3. SubSeq(s, 1, 0) = SubSeq(t, 1, 0)
  BY SubSeqEmpty
<1>4. T \in SUBSET Nat /\ T # {} /\ \A n \in T : n <= Lower(Len(s), Len(t))
  BY <1>1, <1>2, <1>3
<1>5. Greatest(T) \in T
  BY <1>2, <1>4, GreatestIs
<1>6. PICK g : g = Greatest(T)
  OBVIOUS
<1>7. g = CommonPrefix(s, t)
  BY <1>1, <1>6 DEF CommonPrefix
<1>8. g \in 0..Lower(Len(s), Len(t)) /\ SubSeq(s, 1, g) = SubSeq(t, 1, g)
  BY <1>1, <1>5, <1>6
<1>9. QED
  BY <1>2, <1>7, <1>8

LEMMA CommonSuffixIs ==
  ASSUME NEW s \in Seq(Chars), NEW t \in Seq(Chars)
  PROVE  /\ CommonSuffix(s, t) \in Nat
         /\ CommonSuffix(s, t) <= Len(s) /\ CommonSuffix(s, t) <= Len(t)
         /\ LastOf(s, CommonSuffix(s, t)) = LastOf(t, CommonSuffix(s, t))
<1>1. PICK T : T = {n \in 0..Lower(Len(s), Len(t)) : LastOf(s, n) = LastOf(t, n)}
  OBVIOUS
<1>2. Lower(Len(s), Len(t)) \in Nat /\ Lower(Len(s), Len(t)) <= Len(s)
      /\ Lower(Len(s), Len(t)) <= Len(t) /\ Len(s) \in Nat /\ Len(t) \in Nat
  BY DEF Lower
<1>3. LastOf(s, 0) = LastOf(t, 0)
  BY <1>2, SubSeqEmpty DEF LastOf
<1>4. T \in SUBSET Nat /\ T # {} /\ \A n \in T : n <= Lower(Len(s), Len(t))
  BY <1>1, <1>2, <1>3
<1>5. Greatest(T) \in T
  BY <1>2, <1>4, GreatestIs
<1>6. PICK g : g = Greatest(T)
  OBVIOUS
<1>7. g = CommonSuffix(s, t)
  BY <1>1, <1>6 DEF CommonSuffix
<1>8. g \in 0..Lower(Len(s), Len(t)) /\ LastOf(s, g) = LastOf(t, g)
  BY <1>1, <1>5, <1>6
<1>9. QED
  BY <1>2, <1>7, <1>8

(* The end of what follows a prefix is the end of the text.                *)
LEMMA LastOfRest ==
  ASSUME NEW s \in Seq(Chars), NEW n \in 0..Len(s), NEW k \in Nat, k <= Len(s) - n
  PROVE  /\ SubSeq(s, n + 1, Len(s)) \in Seq(Chars) /\ Len(SubSeq(s, n + 1, Len(s))) = Len(s) - n
         /\ LastOf(SubSeq(s, n + 1, Len(s)), k) = SubSeq(s, (Len(s) - k) + 1, Len(s))
         /\ Len(s) - k \in n..Len(s)
         /\ ByteLen(s) - ByteLen(SubSeq(s, (Len(s) - k) + 1, Len(s))) = Place(s, Len(s) - k)
<1>1. Len(s) \in Nat /\ Len(s) \in 0..Len(s) /\ Len(s) - k \in n..Len(s) /\ Len(s) - k \in 0..Len(s)
  OBVIOUS
<1>2. PICK rest : rest = SubSeq(s, n + 1, Len(s))
  OBVIOUS
<1>3. rest \in Seq(Chars) /\ Len(rest) = Len(s) - n /\ \A i \in 1..(Len(s) - n) : rest[i] = s[n + i]
  BY <1>1, <1>2, PartOf
<1>4. LastOf(rest, k) = SubSeq(s, (Len(s) - k) + 1, Len(s))
  <2>1. PICK a \in 0..Len(rest) : a = Len(rest) - k
    BY <1>1, <1>3
  <2>2. LastOf(rest, k) = SubSeq(rest, a + 1, Len(rest))
    BY <1>3, <2>1 DEF LastOf
  <2>3. /\ SubSeq(rest, a + 1, Len(rest)) \in Seq(Chars)
        /\ Len(SubSeq(rest, a + 1, Len(rest))) = k
        /\ \A i \in 1..k : SubSeq(rest, a + 1, Len(rest))[i] = rest[a + i]
    <3>1. Len(rest) \in 0..Len(rest) /\ a \in 0..Len(rest) /\ Len(rest) - a = k
      BY <1>1, <1>3, <2>1
    <3>2. /\ Len(SubSeq(rest, a + 1, Len(rest))) = Len(rest) - a
          /\ SubSeq(rest, a + 1, Len(rest)) \in Seq(Chars)
          /\ \A i \in 1..(Len(rest) - a) : SubSeq(rest, a + 1, Len(rest))[i] = rest[a + i]
      <4>1. a \in 0..Len(rest) /\ Len(rest) \in 0..Len(rest)
        BY <3>1
      <4>2. QED
        BY <1>3, <4>1, PartOf
    <3>3. QED
      BY <3>1, <3>2
  <2>4. PICK b \in 0..Len(s) : b = Len(s) - k
    BY <1>1
  <2>5. /\ SubSeq(s, b + 1, Len(s)) \in Seq(Chars)
        /\ Len(SubSeq(s, b + 1, Len(s))) = k
        /\ \A i \in 1..k : SubSeq(s, b + 1, Len(s))[i] = s[b + i]
    <3>1. Len(s) - b = k
      BY <1>1, <2>4
    <3>2. QED
      BY <1>1, <3>1, PartOf
  <2>6. ASSUME NEW i \in 1..k PROVE rest[a + i] = s[b + i]
    <3>1. a + i \in 1..(Len(s) - n) /\ n + (a + i) = b + i
      BY <1>1, <1>3, <2>1, <2>4
    <3>2. QED
      BY <1>3, <3>1
  <2>7. SubSeq(rest, a + 1, Len(rest)) = SubSeq(s, b + 1, Len(s))
    BY <2>3, <2>5, <2>6, SeqEqual
  <2>8. QED
    BY <2>2, <2>4, <2>7
<1>5. ByteLen(s) - ByteLen(SubSeq(s, (Len(s) - k) + 1, Len(s))) = Place(s, Len(s) - k)
  <2>1. ByteLen(SubSeq(s, (Len(s) - k) + 1, Len(s))) = Place(s, Len(s)) - Place(s, Len(s) - k)
    BY <1>1, Places
  <2>2. Place(s, Len(s)) = ByteLen(s) /\ Place(s, Len(s)) \in Nat /\ Place(s, Len(s) - k) \in Nat
    BY <1>1, Places
  <2>3. QED
    BY <2>1, <2>2
<1>6. QED
  BY <1>1, <1>2, <1>3, <1>4, <1>5

LEMMA EditLeads ==
  ASSUME NEW old \in Seq(Chars), NEW new \in Seq(Chars)
  PROVE  Leads(old, new, InputEdit(old, new))
<1> DEFINE n == CommonPrefix(old, new)
           oldRest == SubSeq(old, n + 1, Len(old))
           newRest == SubSeq(new, n + 1, Len(new))
           k == CommonSuffix(oldRest, newRest)
           suffix == ByteLen(LastOf(oldRest, k))
           edit == InputEdit(old, new)
           i == Len(old) - k
           j == Len(new) - k
<1>1. /\ n \in Nat /\ n \in 0..Len(old) /\ n \in 0..Len(new)
      /\ SubSeq(old, 1, n) = SubSeq(new, 1, n)
  BY CommonPrefixIs
<1> HIDE DEF n
<1>2. edit = Edit(old, new, Place(old, n), suffix)
  BY DEF InputEdit, n
<1>3. /\ oldRest \in Seq(Chars) /\ Len(oldRest) = Len(old) - n
      /\ newRest \in Seq(Chars) /\ Len(newRest) = Len(new) - n
  <2>1. 0 \in Nat /\ 0 <= Len(old) - n /\ 0 <= Len(new) - n
    BY <1>1
  <2>2. QED
    BY <1>1, <2>1, LastOfRest
<1>4. k \in Nat /\ k <= Len(old) - n /\ k <= Len(new) - n /\ LastOf(oldRest, k) = LastOf(newRest, k)
  BY <1>3, CommonSuffixIs
<1> HIDE DEF k
<1>5. /\ LastOf(oldRest, k) = SubSeq(old, i + 1, Len(old)) /\ i \in n..Len(old)
      /\ ByteLen(old) - ByteLen(SubSeq(old, i + 1, Len(old))) = Place(old, i)
  BY <1>1, <1>4, LastOfRest
<1>6. /\ LastOf(newRest, k) = SubSeq(new, j + 1, Len(new)) /\ j \in n..Len(new)
      /\ ByteLen(new) - ByteLen(SubSeq(new, j + 1, Len(new))) = Place(new, j)
  BY <1>1, <1>4, LastOfRest
<1>7. i \in 0..Len(old) /\ j \in 0..Len(new)
  BY <1>1, <1>5, <1>6
<1>8. ByteLen(old) - suffix = Place(old, i) /\ ByteLen(new) - suffix = Place(new, j)
  BY <1>4, <1>5, <1>6
<1>9. Place(old, n) = Place(new, n)
  BY <1>1 DEF Place
<1> HIDE DEF oldRest, newRest, suffix, i, j
<1>10. /\ edit.start = Place(old, n) /\ edit.oldEnd = Place(old, i) /\ edit.newEnd = Place(new, j)
       /\ edit.startPoint = ByteToPoint(old, Place(old, n))
       /\ edit.oldEndPoint = ByteToPoint(old, Place(old, i))
       /\ edit.newEndPoint = ByteToPoint(new, Place(new, j))
  BY <1>2, <1>8 DEF Edit
<1> HIDE DEF edit
<1>11. edit.start <= edit.oldEnd /\ edit.start <= edit.newEnd
  <2>1. ASSUME NEW s \in Seq(Chars), NEW a \in 0..Len(s), NEW b \in a..Len(s)
        PROVE  Place(s, a) <= Place(s, b)
    <3>1. b \in 0..Len(s) /\ (a = b \/ a < b)
      OBVIOUS
    <3>2. Place(s, a) \in Nat /\ Place(s, b) \in Nat /\ (a < b => Place(s, a) < Place(s, b))
      BY <3>1, Places
    <3>3. QED
      BY <3>1, <3>2
  <2>2. QED
    BY <1>1, <1>5, <1>6, <1>9, <1>10, <2>1
<1>12. /\ {edit.start, edit.oldEnd} \subseteq Boundaries(old)
       /\ {edit.start, edit.newEnd} \subseteq Boundaries(new)
  BY <1>1, <1>7, <1>9, <1>10, PlaceIsBoundary
<1>13. /\ edit.startPoint = PointOf(old, edit.start)
       /\ edit.oldEndPoint = PointOf(old, edit.oldEnd)
       /\ edit.newEndPoint = PointOf(new, edit.newEnd)
  BY <1>1, <1>7, <1>10, PointOfPlace
<1>14. /\ Index(old, edit.start) = n /\ Index(new, edit.start) = n
       /\ Index(new, edit.newEnd) = j /\ Index(old, edit.oldEnd) = i
  BY <1>1, <1>7, <1>9, <1>10, IndexOfPlace
<1>15. new = SubSeq(old, 1, n) \o SubSeq(new, n + 1, j) \o SubSeq(old, i + 1, Len(old))
  <2>1. SubSeq(old, i + 1, Len(old)) = SubSeq(new, j + 1, Len(new))
    BY <1>4, <1>5, <1>6
  <2>2. SubSeq(new, 1, n) \o SubSeq(new, n + 1, j) = SubSeq(new, 1, j)
    <3>1. Len(new) \in Nat /\ 1 \in 1..(Len(new) + 1) /\ n \in (1 - 1)..Len(new) /\ j \in n..Len(new)
      BY <1>1, <1>6
    <3>2. QED
      BY <3>1, ConcatAdjacentSubSeq
  <2>3. SubSeq(new, 1, j) \o SubSeq(new, j + 1, Len(new)) = SubSeq(new, 1, Len(new))
    <3>1. Len(new) \in Nat /\ 1 \in 1..(Len(new) + 1) /\ j \in (1 - 1)..Len(new)
          /\ Len(new) \in j..Len(new)
      BY <1>7
    <3>2. QED
      BY <3>1, ConcatAdjacentSubSeq
  <2>4. SubSeq(new, 1, Len(new)) = new
    OBVIOUS
  <2>5. QED
    BY <1>1, <2>1, <2>2, <2>3, <2>4, Zenon
<1>16. QED
  BY <1>11, <1>12, <1>13, <1>14, <1>15 DEF Leads, edit
=============================================================================
