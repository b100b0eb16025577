------------------------ MODULE GradientDescentProofs ------------------------
(***************************************************************************)
(* Proofs about GradientDescent for any tasks, any sizes of bytes and      *)
(* words and any budget: the budget is kept, the recorded distances are    *)
(* never optimistic, and what is reported as solved satisfies the task.    *)
(***************************************************************************)
EXTENDS GradientDescent, FiniteSetTheorems, NaturalsInduction, TLAPS

\* A set of naturals has a least element.
LEMMA Least ==
    ASSUME NEW T, T \subseteq Nat, T # {}
    PROVE  \E m \in T : \A k \in T : m <= k
<1>1. PICK m \in T : \A k \in T : <<k, m>> \notin OpToRel(<, Nat)
  BY NatLessThanWellFounded, WFMin
<1>2. \A a, b \in Nat : a < b => <<a, b>> \in OpToRel(<, Nat)
  BY DEF OpToRel
<1>3. ASSUME NEW k \in T
      PROVE  m <= k
  <2>1. m \in Nat /\ k \in Nat
    OBVIOUS
  <2>2. ~(k < m)
    BY <1>1, <1>2, <2>1, Zenon
  <2> QED
    BY <2>1, <2>2
<1> QED
  BY <1>3

\* Induction from 0 to N.
LEMMA Climbs ==
    ASSUME NEW N \in Nat, NEW V, 0 \in V, \A n \in 1 .. N : n - 1 \in V => n \in V
    PROVE  \A n \in 0 .. N : n \in V
<1> DEFINE T == {n \in 0 .. N : n \notin V}
<1>1. ASSUME T # {}
      PROVE  FALSE
  <2>1. T \subseteq Nat
    OBVIOUS
  <2>2. PICK n \in T : \A k \in T : n <= k
    BY <1>1, <2>1, Least
  <2>3. n \in 0 .. N /\ n \notin V
    OBVIOUS
  <2>4. n \in 1 .. N /\ n - 1 \in 0 .. N /\ ~(n <= n - 1)
    BY <2>3
  <2>5. n - 1 \notin T
    <3> HIDE DEF T
    <3> QED
      BY <2>2, <2>4
  <2> QED
    BY <2>3, <2>4, <2>5
<1> QED
  BY <1>1

-----------------------------------------------------------------------------
(* Powers of two, counted as sets of subsets, and division. *)

\* The numbers from 1 to n are n.
LEMMA Counts ==
    ASSUME NEW n \in Nat
    PROVE  IsFiniteSet(1 .. n) /\ Cardinality(1 .. n) = n
BY FS_Interval

\* A power of two is positive.
LEMMA PowerPositive ==
    ASSUME NEW n \in Nat
    PROVE  2^n \in Nat \ {0}
<1>1. IsFiniteSet(1 .. n) /\ Cardinality(1 .. n) = n
  BY Counts
<1>2. IsFiniteSet(SUBSET (1 .. n)) /\ Cardinality(SUBSET (1 .. n)) = 2^n
  BY <1>1, FS_SUBSET
<1>3. Cardinality(SUBSET (1 .. n)) \in Nat /\ Cardinality(SUBSET (1 .. n)) # 0
  BY <1>2, FS_CardinalityType, FS_EmptySet
<1> QED
  BY <1>2, <1>3

\* Shifting by a and then by b shifts by a + b.
LEMMA PowerSum ==
    ASSUME NEW a \in Nat, NEW b \in Nat
    PROVE  2^(a + b) = 2^a * 2^b
<1> DEFINE S == 1 .. a
           T == a + 1 .. a + b
           f == [p \in (SUBSET S) \X (SUBSET T) |-> p[1] \cup p[2]]
<1>1. IsFiniteSet(S) /\ Cardinality(S) = a /\ IsFiniteSet(T) /\ Cardinality(T) = b
  BY FS_Interval
<1>2. S \cup T = 1 .. a + b /\ S \cap T = {}
  <2>1. \A x : x \in S \cup T <=> x \in 1 .. a + b
    OBVIOUS
  <2>2. \A x : ~(x \in S /\ x \in T)
    OBVIOUS
  <2> HIDE DEF S, T
  <2> QED
    BY <2>1, <2>2, Zenon
<1>3. IsFiniteSet(1 .. a + b) /\ Cardinality(1 .. a + b) = a + b
  <2>1. a + b \in Nat
    OBVIOUS
  <2> QED
    BY <2>1, Counts
<1>4. /\ IsFiniteSet(SUBSET S) /\ Cardinality(SUBSET S) = 2^a
      /\ IsFiniteSet(SUBSET T) /\ Cardinality(SUBSET T) = 2^b
      /\ Cardinality(SUBSET (1 .. a + b)) = 2^(a + b)
  BY <1>1, <1>3, FS_SUBSET
<1>5. /\ IsFiniteSet((SUBSET S) \X (SUBSET T))
      /\ Cardinality((SUBSET S) \X (SUBSET T)) = 2^a * 2^b
  BY <1>4, FS_Product
<1>6. f \in Surjection((SUBSET S) \X (SUBSET T), SUBSET (S \cup T))
  <2> HIDE DEF S, T
  <2>1. f \in [(SUBSET S) \X (SUBSET T) -> SUBSET (S \cup T)]
    OBVIOUS
  <2>2. ASSUME NEW X \in SUBSET (S \cup T)
        PROVE  \E p \in (SUBSET S) \X (SUBSET T) : f[p] = X
    <3>1. <<X \cap S, X \cap T>> \in (SUBSET S) \X (SUBSET T)
      OBVIOUS
    <3>2. f[<<X \cap S, X \cap T>>] = X
      BY <3>1
    <3> QED
      BY <3>1, <3>2
  <2> HIDE DEF f
  <2> QED
    BY <2>1, <2>2 DEF Surjection
<1>7. f \in Injection((SUBSET S) \X (SUBSET T), SUBSET (S \cup T))
  <2>1. S \cap T = {}
    BY <1>2
  <2> HIDE DEF S, T
  <2>2. f \in [(SUBSET S) \X (SUBSET T) -> SUBSET (S \cup T)]
    OBVIOUS
  <2>3. ASSUME NEW p \in (SUBSET S) \X (SUBSET T), NEW q \in (SUBSET S) \X (SUBSET T), f[p] = f[q]
        PROVE  p = q
    <3>1. p[1] \cup p[2] = q[1] \cup q[2]
      BY <2>3
    <3>2. p[1] \in SUBSET S /\ q[1] \in SUBSET S /\ p[2] \in SUBSET T /\ q[2] \in SUBSET T
      OBVIOUS
    <3>3. p[1] = (p[1] \cup p[2]) \cap S /\ q[1] = (q[1] \cup q[2]) \cap S
      BY <2>1, <3>2
    <3>4. p[2] = (p[1] \cup p[2]) \cap T /\ q[2] = (q[1] \cup q[2]) \cap T
      BY <2>1, <3>2
    <3>5. p[1] = q[1] /\ p[2] = q[2]
      BY <3>1, <3>3, <3>4
    <3>6. p = <<p[1], p[2]>> /\ q = <<q[1], q[2]>>
      OBVIOUS
    <3> QED
      BY <3>5, <3>6
  <2> HIDE DEF f
  <2> QED
    BY <2>2, <2>3 DEF Injection, IsInjective
<1> HIDE DEF f, S, T
<1>8. Cardinality(SUBSET (S \cup T)) = Cardinality((SUBSET S) \X (SUBSET T))
  BY <1>5, <1>6, <1>7, FS_Surjection
<1> QED
  BY <1>2, <1>4, <1>5, <1>8

\* What is left after the multiples of M is the remainder.
LEMMA Remainder ==
    ASSUME NEW R \in Int, NEW M \in Nat \ {0}, NEW x \in Int, NEW y \in 0 .. M - 1, R = x * M + y
    PROVE  R % M = y
OBVIOUS

\* Quotient and remainder make the number.
LEMMA Division ==
    ASSUME NEW R \in Nat, NEW M \in Nat \ {0}
    PROVE  /\ R = (R \div M) * M + (R % M)
           /\ R \div M \in Nat
           /\ R % M \in 0 .. M - 1
OBVIOUS

\* The digits of a number: the digit after R % M.
LEMMA NextDigit ==
    ASSUME NEW R \in Nat, NEW M \in Nat \ {0}, NEW K \in Nat \ {0}
    PROVE  R % (M * K) = (R % M) + ((R \div M) % K) * M
<1> DEFINE q == R \div M
           r == R % M
           e == q \div K
           d == q % K
<1>1. R = q * M + r /\ q \in Nat /\ r \in 0 .. M - 1
  BY Division
<1>2. q = e * K + d /\ e \in Nat /\ d \in 0 .. K - 1
  BY <1>1, Division
<1> HIDE DEF q, r, e, d
<1>3. M * K \in Nat \ {0}
  <2>1. M * K >= M
    OBVIOUS
  <2> QED
    BY <2>1
<1>4. (e * K + d) * M = e * (M * K) + d * M
  BY <1>2
<1>5. R = e * (M * K) + (r + d * M)
  BY <1>1, <1>2, <1>4
<1>6. d * M \in Nat /\ d * M <= M * K - M
  <2>1. \A x, y \in Nat : x * y \in Nat
    OBVIOUS
  <2>2. d \in Nat /\ K - 1 - d \in Nat
    BY <1>2
  <2>3. d * M \in Nat /\ (K - 1 - d) * M \in Nat
    BY <2>1, <2>2
  <2>4. (K - 1 - d) * M = M * K - M - d * M
    BY <2>2
  <2> QED
    BY <1>3, <2>3, <2>4
<1>7. r + d * M \in 0 .. M * K - 1
  BY <1>1, <1>3, <1>6
<1>8. R % (M * K) = r + d * M
  <2> DEFINE P == M * K
             y == r + d * M
  <2>1. P \in Nat \ {0} /\ y \in 0 .. P - 1 /\ R = e * P + y /\ e \in Int /\ R \in Int
    BY <1>2, <1>3, <1>5, <1>7
  <2> HIDE DEF P, y
  <2>2. R % P = y
    BY <2>1, Remainder
  <2> QED
    BY <2>2 DEF P, y
<1> QED
  BY <1>8 DEF q, r, e, d

-----------------------------------------------------------------------------
(* Sums. *)

SumStep(s, f, i) == IF i = 0 THEN 0 ELSE s[i - 1] + f[i]

\* The recursion of SumTo has a solution.
LEMMA SumExists ==
    ASSUME NEW f, NEW n \in Nat
    PROVE  \E s : s = [i \in 0 .. n |-> SumStep(s, f, i)]
<1> DEFINE Exists(m) == \E s : s = [i \in 0 .. m |-> SumStep(s, f, i)]
           V == {m \in Nat : Exists(m)}
<1>1. 0 \in V
  <2>1. [i \in 0 .. 0 |-> 0] = [i \in 0 .. 0 |-> SumStep([k \in 0 .. 0 |-> 0], f, i)]
    BY DEF SumStep
  <2>2. Exists(0)
    BY <2>1
  <2> QED
    BY <2>2
<1>2. ASSUME NEW m \in 1 .. n, m - 1 \in V
      PROVE  m \in V
  <2>1. PICK s : s = [i \in 0 .. m - 1 |-> SumStep(s, f, i)]
    BY <1>2
  <2> DEFINE t == [i \in 0 .. m |-> SumStep(s, f, i)]
  <2>2. \A i \in 0 .. m - 1 : s[i] = SumStep(s, f, i)
    BY <2>1, Zenon
  <2>3. ASSUME NEW i \in 0 .. m - 1
        PROVE  t[i] = s[i]
    <3>1. i \in 0 .. m
      OBVIOUS
    <3>2. t[i] = SumStep(s, f, i)
      BY <3>1
    <3> QED
      BY <2>2, <3>2
  <2>4. ASSUME NEW i \in 0 .. m
        PROVE  SumStep(s, f, i) = SumStep(t, f, i)
    <3>1. i # 0 => s[i - 1] = t[i - 1]
      <4>1. i # 0 => i - 1 \in 0 .. m - 1
        OBVIOUS
      <4> HIDE DEF t
      <4> QED
        BY <2>3, <4>1
    <3> HIDE DEF t
    <3> QED
      BY <3>1 DEF SumStep
  <2>5. t = [i \in 0 .. m |-> SumStep(t, f, i)]
    BY <2>4
  <2> HIDE DEF t
  <2>6. Exists(m)
    BY <2>5
  <2>7. m \in Nat
    OBVIOUS
  <2> QED
    BY <2>6, <2>7
<1> HIDE DEF V
<1>3. \A m \in 0 .. n : m \in V
  BY <1>1, <1>2, Climbs
<1>4. n \in V
  BY <1>3
<1> QED
  BY <1>4 DEF V

\* The partial sums.
LEMMA SumRuns ==
    ASSUME NEW f, NEW n \in Nat
    PROVE  \E s : /\ SumTo(n, f) = s[n]
                  /\ s[0] = 0
                  /\ \A i \in 1 .. n : s[i] = s[i - 1] + f[i]
<1> DEFINE sum[i \in 0 .. n] == IF i = 0 THEN 0 ELSE sum[i - 1] + f[i]
<1>1. SumTo(n, f) = sum[n]
  BY DEF SumTo
<1>2. sum = CHOOSE s : s = [i \in 0 .. n |-> SumStep(s, f, i)]
  BY DEF SumStep
<1>3. PICK s : s = [i \in 0 .. n |-> SumStep(s, f, i)]
  BY SumExists
<1> HIDE DEF sum
<1>4. sum = [i \in 0 .. n |-> SumStep(sum, f, i)]
  BY <1>2, <1>3
<1>5. \A i \in 0 .. n : sum[i] = SumStep(sum, f, i)
  BY <1>4, Zenon
<1>6. sum[0] = 0
  BY <1>5 DEF SumStep
<1>7. \A i \in 1 .. n : sum[i] = sum[i - 1] + f[i]
  BY <1>5 DEF SumStep
<1> QED
  BY <1>1, <1>6, <1>7

\* A sum of naturals is at least as large as each of them.
LEMMA SumBounds ==
    ASSUME NEW n \in Nat, NEW f, \A i \in 1 .. n : f[i] \in Nat
    PROVE  SumTo(n, f) \in Nat /\ \A i \in 1 .. n : f[i] <= SumTo(n, f)
<1>1. PICK s : SumTo(n, f) = s[n] /\ s[0] = 0 /\ \A i \in 1 .. n : s[i] = s[i - 1] + f[i]
  BY SumRuns
<1> DEFINE V == {m \in 0 .. n : s[m] \in Nat /\ \A i \in 1 .. m : f[i] <= s[m]}
<1>2. 0 \in V
  BY <1>1
<1>3. ASSUME NEW m \in 1 .. n, m - 1 \in V
      PROVE  m \in V
  <2>1. s[m - 1] \in Nat /\ \A i \in 1 .. m - 1 : f[i] <= s[m - 1]
    BY <1>3
  <2>2. s[m] = s[m - 1] + f[m] /\ f[m] \in Nat
    BY <1>1
  <2>3. ASSUME NEW i \in 1 .. m
        PROVE  f[i] <= s[m]
    <3>1. CASE i = m
      BY <2>1, <2>2, <3>1
    <3>2. CASE i # m
      <4>1. i \in 1 .. m - 1 /\ i \in 1 .. n
        BY <3>2
      <4>2. f[i] \in Nat /\ f[i] <= s[m - 1]
        BY <2>1, <4>1
      <4> QED
        BY <2>1, <2>2, <4>2
    <3> QED
      BY <3>1, <3>2
  <2>4. m \in 0 .. n /\ s[m] \in Nat
    BY <2>1, <2>2
  <2> QED
    BY <2>3, <2>4
<1> HIDE DEF V
<1>4. n \in V
  BY <1>2, <1>3, Climbs
<1> QED
  BY <1>1, <1>4 DEF V
-----------------------------------------------------------------------------
(* The compiled comparison and its distance. *)

\* A point has a word at every offset of S.
WordsOn(v, S) == \A o \in S : v[o] \in Nat

\* The sizes of bytes and words, and that of a budget.
LEMMA Sizes ==
    /\ ByteBits \in Nat \ {0} /\ WordBits \in Nat \ {0}
    /\ MAX_EXEC_TIMES \in Nat
    /\ \A cs \in Tasks : IsTask(cs)
    /\ MaxWord \in Nat \ {0}
    /\ 2^WordBits \in Nat \ {0}
    /\ 2^ByteBits \in Nat \ {0}
<1>1. ByteBits \in Nat \ {0} /\ WordBits \in Nat \ {0} /\ MAX_EXEC_TIMES \in Nat
      /\ \A cs \in Tasks : IsTask(cs)
  BY SearchAssumption
<1>2. 2^WordBits \in Nat \ {0} /\ 2^ByteBits \in Nat \ {0}
  BY <1>1, PowerPositive
<1>3. MaxWord \in Nat \ {0}
  <2>1. 1 \in Nat /\ WordBits - 1 \in Nat /\ 1 + (WordBits - 1) = WordBits
    BY <1>1
  <2>2. 2^WordBits = 2^1 * 2^(WordBits - 1)
    BY <2>1, PowerSum
  <2>3. 2^(WordBits - 1) \in Nat \ {0} /\ 2^1 = 2
    BY <2>1, PowerPositive
  <2>4. 2^WordBits >= 2
    BY <1>2, <2>2, <2>3
  <2> QED
    BY <1>2, <2>4 DEF MaxWord
<1> QED
  BY <1>1, <1>2, <1>3

\* A product of naturals is natural.
LEMMA Product ==
    ASSUME NEW a \in Nat, NEW b \in Nat
    PROVE  a * b \in Nat
OBVIOUS

\* A wrapped value is a word.
LEMMA WrapType ==
    ASSUME NEW x \in Int
    PROVE  Wrap(x) \in 0 .. MaxWord
<1>1. \A M \in Nat \ {0} : x % M \in 0 .. M - 1
  OBVIOUS
<1> QED
  BY <1>1, Sizes DEF Wrap, MaxWord

\* The smaller of two numbers.
LEMMA MinOfTwo ==
    ASSUME NEW a \in Nat, NEW b \in Nat
    PROVE  Min({a, b}) = IF a <= b THEN a ELSE b
<1>1. CASE a <= b
  BY <1>1 DEF Min
<1>2. CASE ~(a <= b)
  BY <1>2 DEF Min
<1> QED
  BY <1>1, <1>2

-----------------------------------------------------------------------------
(* Constraints. *)

\* A constraint of a task.
IsConstraint(c) == IsRelational(c) \/ IsMemcmp(c)

\* A constraint is relational or a memcmp, as its comparison says.
LEMMA KindFacts ==
    ASSUME NEW c, IsConstraint(c)
    PROVE  (IsRelational(c) /\ c.comp \notin MemcmpKinds) \/ (IsMemcmp(c) /\ c.comp \in MemcmpKinds)
BY DEF IsConstraint, IsRelational, IsMemcmp, RelationalKinds, SignedKinds, MemcmpKinds

\* A read lies within the offsets of its constraint.
LEMMA ReadsWithin ==
    ASSUME NEW c, IsConstraint(c)
    PROVE  /\ \A r \in Reads(c) : r \in Nat \X (Nat \ {0}) /\ r[1] .. r[1] + r[2] - 1 \subseteq Offsets(c)
           /\ c.comp \in MemcmpKinds => <<c.at, Len(c.content)>> \in Reads(c)
           /\ c.comp \notin MemcmpKinds =>
                \A i \in DOMAIN c.terms : <<c.terms[i][2], c.terms[i][3]>> \in Reads(c)
           /\ Offsets(c) \subseteq Nat
<1>1. CASE IsMemcmp(c) /\ c.comp \in MemcmpKinds
  <2>1. c.at \in Nat /\ Len(c.content) \in Nat \ {0}
    <3>1. c.content \in Seq(0 .. 2^ByteBits - 1) /\ c.content # <<>>
      BY <1>1 DEF IsMemcmp
    <3>2. Len(c.content) \in Nat /\ Len(c.content) # 0
      BY <3>1
    <3> QED
      BY <1>1, <3>2 DEF IsMemcmp
  <2>2. Reads(c) = {<<c.at, Len(c.content)>>}
    BY <1>1 DEF Reads
  <2>3. \A r \in Reads(c) : r \in Nat \X (Nat \ {0})
    BY <2>1, <2>2
  <2>4. \A r \in Reads(c) : r[1] .. r[1] + r[2] - 1 \subseteq Offsets(c)
    BY DEF Offsets
  <2>5. Offsets(c) \subseteq Nat
    BY <2>3 DEF Offsets
  <2> QED
    BY <1>1, <2>2, <2>3, <2>4, <2>5
<1>2. CASE IsRelational(c) /\ c.comp \notin MemcmpKinds
  <2>1. c.terms \in Seq(Nat \X Nat \X (Nat \ {0}))
    BY <1>2 DEF IsRelational
  <2>2. Reads(c) = {<<t[2], t[3]>> : t \in Range(c.terms)}
    BY <1>2 DEF Reads
  <2>3. \A i \in DOMAIN c.terms : c.terms[i] \in Nat \X Nat \X (Nat \ {0}) /\ c.terms[i] \in Range(c.terms)
    BY <2>1 DEF Range
  <2>4. \A t \in Range(c.terms) : t \in Nat \X Nat \X (Nat \ {0})
    BY <2>3 DEF Range
  <2>5. \A r \in Reads(c) : r \in Nat \X (Nat \ {0})
    BY <2>2, <2>4
  <2>6. \A i \in DOMAIN c.terms : <<c.terms[i][2], c.terms[i][3]>> \in Reads(c)
    BY <2>2, <2>3
  <2>7. \A r \in Reads(c) : r[1] .. r[1] + r[2] - 1 \subseteq Offsets(c)
    BY DEF Offsets
  <2>8. Offsets(c) \subseteq Nat
    BY <2>5 DEF Offsets
  <2> QED
    BY <1>2, <2>5, <2>6, <2>7, <2>8
<1> QED
  BY <1>1, <1>2, KindFacts

\* A read of len bytes is below 2^(ByteBits * len), although bytes overflow.
LEMMA ReadType ==
    ASSUME NEW at \in Nat, NEW len \in Nat, NEW v, WordsOn(v, at .. at + len - 1)
    PROVE  Read(v, at, len) \in 0 .. 2^(ByteBits * len) - 1
<1> DEFINE f == [j \in 1 .. len |-> v[at + j - 1] * 2^(ByteBits * (j - 1))]
<1>1. ASSUME NEW j \in 1 .. len
      PROVE  f[j] \in Nat
  <2>1. v[at + j - 1] \in Nat
    BY DEF WordsOn
  <2>2. j - 1 \in Nat /\ ByteBits \in Nat
    BY Sizes
  <2>3. ByteBits * (j - 1) \in Nat
    BY <2>2, Product
  <2>4. 2^(ByteBits * (j - 1)) \in Nat
    BY <2>3, PowerPositive
  <2> QED
    BY <2>1, <2>4, Product
<1>2. Read(v, at, len) = SumTo(len, f) % 2^(ByteBits * len)
  BY DEF Read
<1> HIDE DEF f
<1>3. SumTo(len, f) \in Nat
  BY <1>1, SumBounds
<1>4. ByteBits * len \in Nat
  BY Sizes, Product
<1>5. 2^(ByteBits * len) \in Nat \ {0}
  BY <1>4, PowerPositive
<1>6. \A x \in Nat, M \in Nat \ {0} : x % M \in 0 .. M - 1
  OBVIOUS
<1> QED
  BY <1>2, <1>3, <1>5, <1>6

\* A read depends on its bytes alone.
LEMMA ReadAgrees ==
    ASSUME NEW at \in Nat, NEW len \in Nat, NEW v, NEW w, \A o \in at .. at + len - 1 : v[o] = w[o]
    PROVE  Read(v, at, len) = Read(w, at, len)
<1>1. \A j \in 1 .. len : at + j - 1 \in at .. at + len - 1
  OBVIOUS
<1>2. \A j \in 1 .. len : v[at + j - 1] = w[at + j - 1]
  BY <1>1
<1>3. [j \in 1 .. len |-> v[at + j - 1] * 2^(ByteBits * (j - 1))]
        = [j \in 1 .. len |-> w[at + j - 1] * 2^(ByteBits * (j - 1))]
  BY <1>2
<1> QED
  BY <1>3 DEF Read

\* The operands of a comparison fit its bits.
LEMMA Op1Type ==
    ASSUME NEW c, IsConstraint(c), NEW v, WordsOn(v, Offsets(c))
    PROVE  /\ Op1(c, v) \in Nat /\ Op2(c) \in Nat
           /\ c.comp \in MemcmpKinds => Op1(c, v) \in {0, 1}
           /\ c.comp \notin MemcmpKinds => Op1(c, v) \in 0 .. 2^c.bits - 1 /\ Op2(c) \in 0 .. 2^c.bits - 1
<1>1. CASE c.comp \in MemcmpKinds
  BY <1>1 DEF Op1, Op2
<1>2. CASE IsRelational(c) /\ c.comp \notin MemcmpKinds
  <2> DEFINE f == [i \in DOMAIN c.terms |->
                    c.terms[i][1] * Read(v, c.terms[i][2], c.terms[i][3])]
  <2>1. c.terms \in Seq(Nat \X Nat \X (Nat \ {0})) /\ c.bits \in Nat /\ c.op2 \in 0 .. 2^c.bits - 1
    BY <1>2, Sizes DEF IsRelational
  <2>2. Len(c.terms) \in Nat /\ DOMAIN c.terms = 1 .. Len(c.terms)
    BY <2>1
  <2>3. ASSUME NEW i \in DOMAIN c.terms
        PROVE  f[i] \in Nat
    <3>1. c.terms[i] \in Nat \X Nat \X (Nat \ {0})
      BY <2>1
    <3>2. c.terms[i][1] \in Nat /\ c.terms[i][2] \in Nat /\ c.terms[i][3] \in Nat
      BY <3>1
    <3> DEFINE r == <<c.terms[i][2], c.terms[i][3]>>
    <3>3. r \in Reads(c)
      BY <1>2, ReadsWithin
    <3>4. r[1] .. r[1] + r[2] - 1 \subseteq Offsets(c)
      BY <3>3, ReadsWithin
    <3>5. WordsOn(v, c.terms[i][2] .. c.terms[i][2] + c.terms[i][3] - 1)
      BY <3>4 DEF WordsOn
    <3>6. Read(v, c.terms[i][2], c.terms[i][3]) \in 0 .. 2^(ByteBits * c.terms[i][3]) - 1
      BY <3>2, <3>5, ReadType
    <3>7. Read(v, c.terms[i][2], c.terms[i][3]) \in Nat
      BY <3>6
    <3> QED
      BY <3>2, <3>7, Product
  <2>4. Op1(c, v) = SumTo(Len(c.terms), f) % 2^c.bits
    BY <1>2 DEF Op1
  <2> HIDE DEF f
  <2>5. SumTo(Len(c.terms), f) \in Nat
    BY <2>2, <2>3, SumBounds
  <2>6. 2^c.bits \in Nat \ {0}
    BY <2>1, PowerPositive
  <2>7. \A x \in Nat, M \in Nat \ {0} : x % M \in 0 .. M - 1
    OBVIOUS
  <2>8. Op1(c, v) \in 0 .. 2^c.bits - 1
    BY <2>4, <2>5, <2>6, <2>7
  <2>9. Op2(c) = c.op2
    BY <1>2 DEF Op2
  <2> QED
    BY <1>2, <2>1, <2>8, <2>9
<1> QED
  BY <1>1, <1>2, KindFacts

\* The left operand depends on the reads of the constraint alone.
LEMMA Op1Agrees ==
    ASSUME NEW c, IsConstraint(c), NEW v, NEW w, \A r \in Reads(c) : Read(v, r[1], r[2]) = Read(w, r[1], r[2])
    PROVE  Op1(c, v) = Op1(c, w)
<1>1. CASE c.comp \in MemcmpKinds
  <2>1. Read(v, c.at, Len(c.content)) = Read(w, c.at, Len(c.content))
    <3>1. <<c.at, Len(c.content)>> \in Reads(c)
      BY <1>1, ReadsWithin
    <3> QED
      BY <3>1
  <2> QED
    BY <1>1, <2>1 DEF Op1
<1>2. CASE c.comp \notin MemcmpKinds
  <2>1. ASSUME NEW i \in DOMAIN c.terms
        PROVE  Read(v, c.terms[i][2], c.terms[i][3]) = Read(w, c.terms[i][2], c.terms[i][3])
    <3>1. <<c.terms[i][2], c.terms[i][3]>> \in Reads(c)
      BY <1>2, ReadsWithin
    <3> QED
      BY <3>1
  <2>2. [i \in DOMAIN c.terms |-> c.terms[i][1] * Read(v, c.terms[i][2], c.terms[i][3])]
          = [i \in DOMAIN c.terms |-> c.terms[i][1] * Read(w, c.terms[i][2], c.terms[i][3])]
    BY <2>1
  <2> QED
    BY <1>2, <2>2 DEF Op1
<1> QED
  BY <1>1, <1>2

\* A distance is a natural number.
LEMMA DistanceType ==
    ASSUME NEW c, IsConstraint(c), NEW v, WordsOn(v, Offsets(c))
    PROVE  DistanceOf(c, v) \in Nat
<1> DEFINE a == Op1(c, v)
           b == Op2(c)
<1>1. a \in Nat /\ b \in Nat /\ (c.comp \in MemcmpKinds => a \in {0, 1})
  BY Op1Type
<1>2. DistanceOf(c, v) = get_distance(c.comp, a, b)
  BY DEF DistanceOf
<1> HIDE DEF a, b
<1>3. Wrap(a - b) \in Nat /\ Wrap(b - a) \in Nat
  <2>1. a - b \in Int /\ b - a \in Int
    BY <1>1
  <2>2. \A x \in Int : Wrap(x) \in Nat
    BY WrapType, Sizes
  <2> QED
    BY <2>1, <2>2
<1>4. \A x \in Nat : sat_inc(x, 1) \in Nat
  <2> TAKE x \in Nat
  <2>1. x + 1 \in Nat /\ MaxWord \in Nat
    BY Sizes
  <2>2. Min({x + 1, MaxWord}) \in Nat
    BY <2>1, MinOfTwo
  <2> QED
    BY <2>2 DEF sat_inc
<1>5. sat_inc(Wrap(a - b), 1) \in Nat /\ sat_inc(Wrap(b - a), 1) \in Nat
  BY <1>3, <1>4
<1>6. c.comp \in RelationalKinds \/ c.comp \in MemcmpKinds
  BY DEF IsConstraint, IsRelational, IsMemcmp
<1>7. ~(a < b) => sat_inc(a - b, 1) \in Nat
  <2>1. ~(a < b) => a - b \in Nat
    BY <1>1
  <2> QED
    BY <1>4, <2>1
<1>8. ~(a > b) => sat_inc(b - a, 1) \in Nat
  <2>1. ~(a > b) => b - a \in Nat
    BY <1>1
  <2> QED
    BY <1>4, <2>1
<1>9. CASE c.comp \in SignedKinds
  BY <1>2, <1>3, <1>5, <1>9 DEF SignedKinds, get_distance
<1>10. CASE c.comp \in {"Equal", "Distinct", "Ult", "Ule", "Ugt", "Uge"}
  <2>1. /\ a >= b => a - b \in Nat
        /\ ~(a >= b) => b - a \in Nat
        /\ ~(a <= b) => a - b \in Nat
    BY <1>1
  <2> QED
    BY <1>2, <1>7, <1>8, <1>10, <2>1 DEF get_distance
<1>11. CASE c.comp \in MemcmpKinds
  BY <1>1, <1>2, <1>11 DEF MemcmpKinds, get_distance
<1> QED
  BY <1>6, <1>9, <1>10, <1>11 DEF RelationalKinds

\* The distance depends on the bytes of the constraint alone.
LEMMA DistanceAgrees ==
    ASSUME NEW c, IsConstraint(c), NEW v, NEW w, \A o \in Offsets(c) : v[o] = w[o]
    PROVE  DistanceOf(c, v) = DistanceOf(c, w)
<1>1. ASSUME NEW r \in Reads(c)
      PROVE  Read(v, r[1], r[2]) = Read(w, r[1], r[2])
  <2>1. r \in Nat \X (Nat \ {0}) /\ r[1] .. r[1] + r[2] - 1 \subseteq Offsets(c)
    BY ReadsWithin
  <2> DEFINE at == r[1]
             len == r[2]
  <2>2. at \in Nat /\ len \in Nat
    BY <2>1
  <2>3. \A o \in at .. at + len - 1 : v[o] = w[o]
    BY <2>1
  <2> HIDE DEF at, len
  <2>4. Read(v, at, len) = Read(w, at, len)
    BY <2>2, <2>3, ReadAgrees
  <2> QED
    BY <2>4 DEF at, len
<1>2. Op1(c, v) = Op1(c, w)
  BY <1>1, Op1Agrees
<1> QED
  BY <1>2 DEF DistanceOf
-----------------------------------------------------------------------------
(* Least and greatest members, and lists in order. *)

\* The least member of a set of naturals.
LEMMA MinIs ==
    ASSUME NEW S, S \subseteq Nat, S # {}
    PROVE  Min(S) \in S /\ \A k \in S : Min(S) <= k
<1>1. PICK m \in S : \A k \in S : m <= k
  BY Least
<1> QED
  BY <1>1 DEF Min

\* A finite set of naturals has a greatest element.
LEMMA MaxIs ==
    ASSUME NEW S, IsFiniteSet(S), S \subseteq Nat, S # {}
    PROVE  Max(S) \in S /\ \A k \in S : k <= Max(S)
<1> DEFINE Great(U) == \E m \in U : \A k \in U : m >= k
           V == {n \in Nat : \A U \in SUBSET S : U # {} /\ Cardinality(U) = n => Great(U)}
<1>1. \A U \in SUBSET S : IsFiniteSet(U)
  BY FS_Subset
<1>2. 0 \in V
  BY <1>1, FS_EmptySet
<1>3. Cardinality(S) \in Nat
  BY FS_CardinalityType
<1>4. ASSUME NEW n \in 1 .. Cardinality(S), n - 1 \in V
      PROVE  n \in V
  <2>1. ASSUME NEW U \in SUBSET S, U # {}, Cardinality(U) = n
        PROVE  Great(U)
    <3>1. PICK x \in U : TRUE
      BY <2>1
    <3>2. IsFiniteSet(U)
      BY <1>1
    <3>3. Cardinality(U \ {x}) = n - 1
      BY <2>1, <3>1, <3>2, FS_RemoveElement
    <3>4. CASE U \ {x} = {}
      <4>1. \A k \in U : k = x
        BY <3>4
      <4>2. x \in Nat
        OBVIOUS
      <4> QED
        BY <3>1, <4>1, <4>2
    <3>5. CASE U \ {x} # {}
      <4>1. U \ {x} \in SUBSET S
        OBVIOUS
      <4>2. Great(U \ {x})
        BY <1>4, <3>3, <3>5, <4>1
      <4>3. PICK m \in U \ {x} : \A k \in U \ {x} : m >= k
        BY <4>2
      <4>4. m \in Nat /\ x \in Nat /\ m \in U /\ \A k \in U : k \in Nat
        OBVIOUS
      <4>5. CASE m >= x
        <5>1. \A k \in U : m >= k
          BY <4>3, <4>5
        <5> QED
          BY <4>4, <5>1
      <4>6. CASE ~(m >= x)
        <5>1. x >= m /\ x >= x
          BY <4>4, <4>6
        <5>2. ASSUME NEW k \in U
              PROVE  x >= k
          <6>1. CASE k = x
            BY <5>1, <6>1
          <6>2. CASE k # x
            BY <4>3, <4>4, <5>1, <6>2
          <6> QED
            BY <6>1, <6>2
        <5> QED
          BY <5>2
      <4> QED
        BY <4>5, <4>6
    <3> QED
      BY <3>4, <3>5
  <2> QED
    BY <2>1
<1> HIDE DEF V
<1>5. Cardinality(S) \in V
  BY <1>2, <1>3, <1>4, Climbs
<1>6. Great(S)
  BY <1>5 DEF V
<1>7. Max(S) \in S /\ \A k \in S : Max(S) >= k
  BY <1>6 DEF Max
<1>8. \A k \in S : k \in Int
  OBVIOUS
<1> QED
  BY <1>7, <1>8

\* R is a strict order in which any two members of S are ordered.
Orders(S, R) ==
    /\ \A a \in S : <<a, a>> \notin R
    /\ \A a, b, c \in S : <<a, b>> \in R /\ <<b, c>> \in R => <<a, c>> \in R
    /\ \A a, b \in S : a # b => <<a, b>> \in R \/ <<b, a>> \in R

\* InOrder lists every member of the set, and nothing else.
LEMMA InOrderLists ==
    ASSUME NEW S, IsFiniteSet(S), NEW R, Orders(S, R)
    PROVE  /\ InOrder(S, R) \in [1 .. Cardinality(S) -> S]
           /\ \A o \in S : \E k \in 1 .. Cardinality(S) : InOrder(S, R)[k] = o
<1> DEFINE below(o) == {p \in S : <<p, o>> \in R}
           n == Cardinality(S)
           rank == [o \in S |-> Cardinality(below(o))]
<1>1. n \in Nat
  BY FS_CardinalityType
<1>2. ASSUME NEW o \in S
      PROVE  /\ IsFiniteSet(below(o)) /\ Cardinality(below(o)) \in Nat
             /\ Cardinality(below(o)) < n
  <2>1. below(o) \in SUBSET (S \ {o})
    BY DEF Orders
  <2>2. IsFiniteSet(S \ {o}) /\ Cardinality(S \ {o}) = n - 1
    BY FS_RemoveElement
  <2> HIDE DEF below
  <2>3. IsFiniteSet(below(o)) /\ Cardinality(below(o)) <= n - 1
    BY <2>1, <2>2, FS_Subset
  <2>4. Cardinality(below(o)) \in Nat
    BY <2>3, FS_CardinalityType
  <2> QED
    BY <1>1, <2>3, <2>4
<1>3. ASSUME NEW a \in S, NEW b \in S, <<a, b>> \in R
      PROVE  Cardinality(below(a)) < Cardinality(below(b))
  <2>1. below(a) \in SUBSET below(b) /\ a \in below(b) /\ a \notin below(a)
    BY <1>3 DEF Orders
  <2> HIDE DEF below
  <2>2. Cardinality(below(a)) <= Cardinality(below(b)) /\ Cardinality(below(a)) # Cardinality(below(b))
    BY <1>2, <2>1, FS_Subset
  <2> QED
    BY <1>2, <2>2
<1>4. rank \in [S -> 0 .. n - 1]
  BY <1>1, <1>2
<1>5. ASSUME NEW a \in S, NEW b \in S, rank[a] = rank[b]
      PROVE  a = b
  <2>1. Cardinality(below(a)) = Cardinality(below(b)) /\ Cardinality(below(a)) \in Nat
    BY <1>2, <1>5
  <2>2. ~(<<a, b>> \in R) /\ ~(<<b, a>> \in R)
    <3> HIDE DEF below
    <3> QED
      BY <1>3, <2>1
  <2> QED
    BY <2>2 DEF Orders
<1>6. \A o \in S : rank[o] = Cardinality(below(o))
  OBVIOUS
<1>7. InOrder(S, R) = [k \in 1 .. n |-> CHOOSE o \in S : Cardinality(below(o)) = k - 1]
  BY DEF InOrder
<1> HIDE DEF rank, below
<1>8. rank \in Injection(S, 0 .. n - 1)
  BY <1>4, <1>5 DEF Injection, IsInjective
<1>9. IsFiniteSet(0 .. n - 1) /\ Cardinality(0 .. n - 1) = n
  <2>1. 0 \in Int /\ n - 1 \in Int
    BY <1>1
  <2>2. Cardinality(0 .. n - 1) = IF 0 > n - 1 THEN 0 ELSE n - 1 - 0 + 1
    BY <2>1, FS_Interval
  <2> QED
    BY <1>1, <2>1, <2>2, FS_Interval
<1>10. rank \in Surjection(S, 0 .. n - 1)
  BY <1>8, <1>9, FS_Injection
<1>11. ASSUME NEW k \in 1 .. n
       PROVE  \E o \in S : Cardinality(below(o)) = k - 1
  <2>1. k - 1 \in 0 .. n - 1
    BY <1>1
  <2> QED
    BY <1>6, <1>10, <2>1 DEF Surjection
<1>12. \A k \in 1 .. n : InOrder(S, R)[k] \in S /\ Cardinality(below(InOrder(S, R)[k])) = k - 1
  BY <1>7, <1>11
<1>13. ASSUME NEW o \in S
       PROVE  \E k \in 1 .. n : InOrder(S, R)[k] = o
  <2> DEFINE k == Cardinality(below(o)) + 1
  <2>1. k \in 1 .. n /\ k - 1 = Cardinality(below(o))
    BY <1>1, <1>2
  <2>2. InOrder(S, R)[k] \in S /\ rank[InOrder(S, R)[k]] = rank[o]
    BY <1>6, <1>12, <2>1
  <2> QED
    BY <1>5, <2>1, <2>2
<1> QED
  BY <1>7, <1>12, <1>13

\* Ascending lists members of the set.
LEMMA AscendingLists ==
    ASSUME NEW S, IsFiniteSet(S), S \subseteq Nat
    PROVE  Ascending(S) \in [1 .. Cardinality(S) -> S]
<1> DEFINE R == {p \in S \X S : p[1] < p[2]}
<1>1. \A a, b \in S : <<a, b>> \in R <=> a < b
  OBVIOUS
<1>2. \A a \in S : a \in Nat
  OBVIOUS
<1> HIDE DEF R
<1>3. Orders(S, R)
  BY <1>1, <1>2 DEF Orders
<1> QED
  BY <1>3, InOrderLists DEF Ascending, R
-----------------------------------------------------------------------------
(* finalize. *)

\* The image of a finite set is finite.
LEMMA ImageFinite ==
    ASSUME NEW S, IsFiniteSet(S), NEW f
    PROVE  IsFiniteSet({f[x] : x \in S})
<1> DEFINE g == [x \in S |-> f[x]]
<1>1. g \in Surjection(S, {f[x] : x \in S})
  BY DEF Surjection
<1> HIDE DEF g
<1> QED
  BY <1>1, FS_Surjection

\* A constraint has a finite number of offsets, and at least one.
LEMMA OffsetsFinite ==
    ASSUME NEW c, IsConstraint(c)
    PROVE  IsFiniteSet(Offsets(c)) /\ Offsets(c) # {} /\ Reads(c) # {}
<1>1. IsFiniteSet(Reads(c)) /\ Reads(c) # {}
  <2>1. CASE c.comp \in MemcmpKinds
    BY <2>1, FS_Singleton DEF Reads
  <2>2. CASE IsRelational(c) /\ c.comp \notin MemcmpKinds
    <3>1. c.terms \in Seq(Nat \X Nat \X (Nat \ {0})) /\ c.terms # <<>>
      BY <2>2 DEF IsRelational
    <3> DEFINE n == Len(c.terms)
               f == [i \in 1 .. n |-> <<c.terms[i][2], c.terms[i][3]>>]
    <3>2. n \in Nat /\ n # 0 /\ DOMAIN c.terms = 1 .. n
      BY <3>1
    <3>3. Range(c.terms) = {c.terms[i] : i \in 1 .. n}
      BY <3>2 DEF Range
    <3>4. Reads(c) = {<<t[2], t[3]>> : t \in Range(c.terms)}
      BY <2>2 DEF Reads
    <3>5. \A i \in 1 .. n : f[i] = <<c.terms[i][2], c.terms[i][3]>>
      OBVIOUS
    <3> HIDE DEF n, f
    <3>6. Reads(c) = {f[i] : i \in 1 .. n}
      <4>1. \A r \in Reads(c) : \E i \in 1 .. n : r = f[i]
        BY <3>3, <3>4, <3>5
      <4>2. \A i \in 1 .. n : f[i] \in Reads(c)
        <5>1. \A i \in 1 .. n : c.terms[i] \in Range(c.terms)
          BY <3>3
        <5> QED
          BY <3>4, <3>5, <5>1, Zenon
      <4> QED
        BY <4>1, <4>2
    <3>7. IsFiniteSet(1 .. n) /\ 1 \in 1 .. n
      BY <3>2, Counts
    <3>8. IsFiniteSet({f[i] : i \in 1 .. n})
      BY <3>7, ImageFinite
    <3>9. {f[i] : i \in 1 .. n} # {}
      BY <3>7
    <3> QED
      BY <3>6, <3>8, <3>9
  <2> QED
    BY <2>1, <2>2, KindFacts
<1> DEFINE span == [r \in Reads(c) |-> r[1] .. r[1] + r[2] - 1]
           spans == {span[r] : r \in Reads(c)}
<1>2. Offsets(c) = UNION spans
  BY DEF Offsets
<1>3. \A r \in Reads(c) : IsFiniteSet(span[r]) /\ r[1] \in span[r]
  <2> TAKE r \in Reads(c)
  <2>1. r \in Nat \X (Nat \ {0})
    BY ReadsWithin
  <2>2. r[1] \in Int /\ r[1] + r[2] - 1 \in Int /\ r[1] \in r[1] .. r[1] + r[2] - 1
    BY <2>1
  <2> QED
    BY <2>2, FS_Interval
<1> HIDE DEF span
<1>4. IsFiniteSet(spans)
  BY <1>1, ImageFinite
<1>5. \A T \in spans : IsFiniteSet(T)
  BY <1>3
<1>6. IsFiniteSet(UNION spans)
  BY <1>4, <1>5, FS_UNION
<1>7. UNION spans # {}
  BY <1>1, <1>3
<1> QED
  BY <1>1, <1>2, <1>6, <1>7

\* The relational constraints on an offset.
OnByte(cs, o) == {i \in DOMAIN cs : o \in Offsets(cs[i]) /\ cs[i].comp \notin MemcmpKinds}

\* What finalize makes of a task.
IsFinal(cs, t) ==
    /\ t.constraints = cs
    /\ Len(cs) \in Nat \ {0} /\ DOMAIN cs = 1 .. Len(cs)
    /\ \A i \in DOMAIN cs : IsConstraint(cs[i]) /\ Offsets(cs[i]) \subseteq t.offsets
    /\ t.offsets = UNION {Offsets(cs[i]) : i \in DOMAIN cs}
    /\ IsFiniteSet(t.offsets) /\ t.offsets \subseteq Nat /\ t.offsets # {}
    /\ \A o \in t.offsets : t.cmap[o] = OnByte(cs, o)
    /\ Cardinality(t.offsets) \in Nat
    /\ t.inputs \in [1 .. Cardinality(t.offsets) -> t.offsets]
    /\ \A o \in t.offsets : \E k \in DOMAIN t.inputs : t.inputs[k] = o
    /\ t.pieces = Pieces(cs, t.offsets)
    /\ t.i2s_candidates = [i \in DOMAIN cs |-> Candidates(cs[i])]

\* finalize leaves a well-formed task.
LEMMA FinalFacts ==
    ASSUME NEW cs \in Tasks, NEW t, t = finalize(cs)
    PROVE  IsFinal(cs, t)
<1> DEFINE all == UNION {Offsets(cs[i]) : i \in DOMAIN cs}
           before == {p \in all \X all :
                        \/ FirstWith(cs, p[1]) < FirstWith(cs, p[2])
                        \/ FirstWith(cs, p[1]) = FirstWith(cs, p[2]) /\ p[1] < p[2]}
<1>1. /\ t.constraints = cs
      /\ t.offsets = all
      /\ t.inputs = InOrder(all, before)
      /\ t.cmap = [o \in all |-> {i \in DOMAIN cs : o \in Offsets(cs[i]) /\ cs[i].comp \notin MemcmpKinds}]
      /\ t.pieces = Pieces(cs, all)
      /\ t.i2s_candidates = [i \in DOMAIN cs |-> Candidates(cs[i])]
  BY DEF finalize
<1>2. Len(cs) \in Nat \ {0} /\ DOMAIN cs = 1 .. Len(cs) /\ \A i \in DOMAIN cs : IsConstraint(cs[i])
  <2>1. IsTask(cs)
    BY Sizes
  <2>2. cs = [i \in 1 .. Len(cs) |-> cs[i]]
    BY <2>1 DEF IsTask
  <2>3. DOMAIN cs = 1 .. Len(cs)
    BY <2>2, Zenon
  <2> QED
    BY <2>1, <2>3 DEF IsTask, IsConstraint
<1> DEFINE offs == [i \in DOMAIN cs |-> Offsets(cs[i])]
<1>3. all = UNION {offs[i] : i \in DOMAIN cs}
  OBVIOUS
<1>4. \A i \in DOMAIN cs : offs[i] = Offsets(cs[i])
  OBVIOUS
<1>5. \A i \in DOMAIN cs : IsFiniteSet(offs[i]) /\ offs[i] # {} /\ offs[i] \subseteq Nat
  BY <1>2, <1>4, OffsetsFinite, ReadsWithin
<1> HIDE DEF offs
<1>6. IsFiniteSet(all)
  <2>1. IsFiniteSet(DOMAIN cs)
    BY <1>2, Counts
  <2>2. IsFiniteSet({offs[i] : i \in DOMAIN cs})
    BY <2>1, ImageFinite
  <2> QED
    BY <1>3, <1>5, <2>2, FS_UNION
<1>7. all \subseteq Nat
  BY <1>3, <1>5
<1>8. all # {}
  <2>1. 1 \in DOMAIN cs
    BY <1>2
  <2> QED
    BY <1>3, <1>5, <2>1
<1>9. \A i \in DOMAIN cs : Offsets(cs[i]) \subseteq all
  OBVIOUS
<1>10. ASSUME NEW o \in all
       PROVE  FirstWith(cs, o) \in Nat
  <2> DEFINE S == {i \in DOMAIN cs : o \in Offsets(cs[i])}
  <2>1. S \subseteq Nat /\ S # {}
    BY <1>2
  <2>2. Min(S) \in Nat
    BY <2>1, MinIs
  <2> QED
    BY <2>2 DEF FirstWith
<1>11. \A a, b \in all : <<a, b>> \in before <=>
                            \/ FirstWith(cs, a) < FirstWith(cs, b)
                            \/ FirstWith(cs, a) = FirstWith(cs, b) /\ a < b
  OBVIOUS
<1> HIDE DEF before, all
<1>12. Orders(all, before)
  <2>1. \A a \in all : a \in Nat
    BY <1>7
  <2>2. \A a \in all : <<a, a>> \notin before
    BY <1>10, <1>11, <2>1
  <2>3. \A a, b, c \in all : <<a, b>> \in before /\ <<b, c>> \in before => <<a, c>> \in before
    BY <1>10, <1>11, <2>1
  <2>4. \A a, b \in all : a # b => <<a, b>> \in before \/ <<b, a>> \in before
    BY <1>10, <1>11, <2>1
  <2> QED
    BY <2>2, <2>3, <2>4 DEF Orders
<1>13. /\ t.inputs \in [1 .. Cardinality(all) -> all]
       /\ \A o \in all : \E k \in 1 .. Cardinality(all) : t.inputs[k] = o
  BY <1>1, <1>6, <1>12, InOrderLists
<1>14. \A o \in all : \E k \in DOMAIN t.inputs : t.inputs[k] = o
  BY <1>13
<1>15. \A o \in all : t.cmap[o] = OnByte(cs, o)
  BY <1>1 DEF OnByte
<1>16. t.offsets = UNION {Offsets(cs[i]) : i \in DOMAIN cs}
  BY <1>1 DEF all
<1>17. Cardinality(all) \in Nat
  BY <1>6, FS_CardinalityType
<1> QED
  BY <1>1, <1>2, <1>6, <1>7, <1>8, <1>9, <1>13, <1>14, <1>15, <1>16, <1>17 DEF IsFinal

\* A candidate is an offset and a length.
LEMMA CandidateFacts ==
    ASSUME NEW c, IsConstraint(c)
    PROVE  \A k \in DOMAIN Candidates(c) : Candidates(c)[k] \in Nat \X Nat
<1> DEFINE heads == {o \in Offsets(c) : o - 1 \notin Offsets(c)}
           starts == Ascending(heads)
           ends(o) == {p \in o .. Max(Offsets(c)) : p + 1 \notin Offsets(c)}
<1>1. Candidates(c) = [k \in DOMAIN starts |-> <<starts[k], Min(ends(starts[k])) - starts[k] + 1>>]
  BY DEF Candidates
<1>2. IsFiniteSet(Offsets(c)) /\ Offsets(c) # {} /\ Offsets(c) \subseteq Nat
  BY OffsetsFinite, ReadsWithin
<1>3. heads \in SUBSET Offsets(c)
  OBVIOUS
<1>4. starts \in [1 .. Cardinality(heads) -> heads]
  <2>1. IsFiniteSet(heads) /\ heads \subseteq Nat
    BY <1>2, <1>3, FS_Subset
  <2> HIDE DEF heads
  <2> QED
    BY <2>1, AscendingLists
<1>5. Max(Offsets(c)) \in Offsets(c) /\ \A k \in Offsets(c) : k <= Max(Offsets(c))
  BY <1>2, MaxIs
<1>6. ASSUME NEW o \in Offsets(c)
      PROVE  Min(ends(o)) - o + 1 \in Nat /\ o \in Nat
  <2> DEFINE m == Max(Offsets(c))
  <2>1. o \in Nat /\ m \in Nat /\ o <= m
    BY <1>2, <1>5
  <2>2. m + 1 \notin Offsets(c)
    <3>1. ~(m + 1 <= m)
      BY <2>1
    <3> HIDE DEF m
    <3> QED
      BY <1>5, <3>1 DEF m
  <2>3. m \in ends(o)
    BY <2>1, <2>2
  <2>4. ends(o) \subseteq Nat /\ \A p \in ends(o) : o <= p
    BY <2>1
  <2> HIDE DEF ends
  <2>5. Min(ends(o)) \in ends(o)
    BY <2>3, <2>4, MinIs
  <2>6. Min(ends(o)) \in Nat /\ o <= Min(ends(o))
    BY <2>4, <2>5
  <2> QED
    BY <2>1, <2>6
<1> HIDE DEF ends, starts
<1>7. ASSUME NEW k \in DOMAIN starts
      PROVE  <<starts[k], Min(ends(starts[k])) - starts[k] + 1>> \in Nat \X Nat
  <2>1. starts[k] \in Offsets(c)
    BY <1>3, <1>4
  <2> QED
    BY <1>6, <2>1
<1> QED
  BY <1>1, <1>7
-----------------------------------------------------------------------------
(* Points and distances. *)

Points == [task.offsets -> Nat]
Dists == [DOMAIN constraints -> Nat]

\* The recorded distances are no better than those of the point.
Closer(v, ds) ==
    \A i \in DOMAIN constraints :
        constraints[i].comp \notin MemcmpKinds => DistanceOf(constraints[i], v) <= ds[i]

\* The task of the search is one that finalize has made.
LEMMA TaskFacts ==
    ASSUME task \in FinalTasks
    PROVE  constraints \in Tasks /\ IsFinal(constraints, task)
<1>1. PICK cs \in Tasks : task = finalize(cs)
  BY DEF FinalTasks
<1>2. IsFinal(cs, task)
  BY <1>1, FinalFacts
<1>3. constraints = cs
  BY <1>2 DEF IsFinal, constraints
<1> QED
  BY <1>2, <1>3

\* Every constraint has a distance at every point.
LEMMA PointWords ==
    ASSUME task \in FinalTasks, NEW v \in Points, NEW i \in DOMAIN constraints
    PROVE  IsConstraint(constraints[i]) /\ DistanceOf(constraints[i], v) \in Nat
<1>1. IsConstraint(constraints[i]) /\ Offsets(constraints[i]) \subseteq task.offsets
  BY TaskFacts DEF IsFinal
<1>2. WordsOn(v, Offsets(constraints[i]))
  BY <1>1 DEF WordsOn, Points
<1> QED
  BY <1>1, <1>2, DistanceType

\* distance() leaves a distance for every constraint.
LEMMA AllType ==
    ASSUME task \in FinalTasks, NEW v \in Points
    PROVE  AllDistances(v) \in Dists
BY PointWords DEF AllDistances, Dists

\* single_distance() leaves a distance for every constraint.
LEMMA SingleType ==
    ASSUME task \in FinalTasks, NEW v \in Points, NEW o, NEW ds \in Dists
    PROVE  SingleDistances(v, o, ds) \in Dists
<1>1. ASSUME NEW i \in DOMAIN constraints
      PROVE  (IF i \in task.cmap[o] THEN DistanceOf(constraints[i], v) ELSE ds[i]) \in Nat
  BY PointWords DEF Dists
<1> QED
  BY <1>1 DEF SingleDistances, Dists

\* A sum of distances is zero only when all of them are, even saturated.
LEMMA TotalType ==
    ASSUME task \in FinalTasks, NEW ds \in Dists
    PROVE  /\ Total(ds) \in Nat
           /\ Total(ds) = 0 => \A i \in DOMAIN constraints : ds[i] = 0
<1> DEFINE n == Len(constraints)
<1>1. n \in Nat /\ DOMAIN constraints = 1 .. n
  BY TaskFacts DEF IsFinal
<1>2. ds \in [1 .. n -> Nat]
  BY <1>1 DEF Dists
<1> HIDE DEF n
<1>3. Len(ds) = n
  BY <1>1, <1>2
<1>4. \A i \in 1 .. n : ds[i] \in Nat
  BY <1>2
<1>5. SumTo(n, ds) \in Nat /\ \A i \in 1 .. n : ds[i] <= SumTo(n, ds)
  BY <1>1, <1>4, SumBounds
<1>6. Total(ds) = IF SumTo(n, ds) <= MaxWord THEN SumTo(n, ds) ELSE MaxWord
  <2>1. Min({SumTo(n, ds), MaxWord}) = IF SumTo(n, ds) <= MaxWord THEN SumTo(n, ds) ELSE MaxWord
    BY <1>5, Sizes, MinOfTwo
  <2> QED
    BY <1>3, <2>1 DEF Total
<1>7. Total(ds) \in Nat
  BY <1>5, <1>6, Sizes
<1>8. Total(ds) = 0 => SumTo(n, ds) = 0
  BY <1>5, <1>6, Sizes
<1>9. SumTo(n, ds) = 0 => \A i \in 1 .. n : ds[i] = 0
  BY <1>4, <1>5
<1> QED
  BY <1>1, <1>7, <1>8, <1>9

\* No distances have the sum zero.
LEMMA TotalZero ==
    ASSUME task \in FinalTasks
    PROVE  Total([i \in DOMAIN constraints |-> 0]) = 0
<1> DEFINE n == Len(constraints)
           ds == [i \in DOMAIN constraints |-> 0]
<1>1. n \in Nat /\ DOMAIN constraints = 1 .. n
  BY TaskFacts DEF IsFinal
<1> HIDE DEF n
<1>2. ds \in [1 .. n -> Nat] /\ \A i \in 1 .. n : ds[i] = 0
  BY <1>1
<1> HIDE DEF ds
<1>3. Len(ds) = n
  BY <1>1, <1>2
<1>4. PICK s : SumTo(n, ds) = s[n] /\ s[0] = 0 /\ \A i \in 1 .. n : s[i] = s[i - 1] + ds[i]
  BY <1>1, SumRuns
<1> DEFINE V == {m \in 0 .. n : s[m] = 0}
<1>5. 0 \in V
  BY <1>1, <1>4
<1>6. \A m \in 1 .. n : m - 1 \in V => m \in V
  BY <1>1, <1>2, <1>4
<1> HIDE DEF V
<1>7. n \in V
  BY <1>1, <1>5, <1>6, Climbs
<1>8. SumTo(n, ds) = 0
  BY <1>4, <1>7 DEF V
<1>9. Min({0, MaxWord}) = 0
  BY Sizes, MinOfTwo
<1> QED
  BY <1>3, <1>8, <1>9 DEF Total, ds

\* single_distance() returns zero only when the relational constraints on the byte are met.
LEMMA SingleZero ==
    ASSUME task \in FinalTasks, NEW v \in Points, NEW o
    PROVE  /\ SingleTotal(v, o) \in Nat
           /\ SingleTotal(v, o) = 0 =>
                \A i \in DOMAIN constraints : i \in task.cmap[o] => DistanceOf(constraints[i], v) = 0
<1> DEFINE ds == [i \in DOMAIN constraints |->
                    IF i \in task.cmap[o] THEN DistanceOf(constraints[i], v) ELSE 0]
<1>1. ASSUME NEW i \in DOMAIN constraints
      PROVE  (IF i \in task.cmap[o] THEN DistanceOf(constraints[i], v) ELSE 0) \in Nat
  BY PointWords
<1>2. ds \in Dists
  BY <1>1 DEF Dists
<1>3. SingleTotal(v, o) = Total(ds)
  BY DEF SingleTotal
<1>4. \A i \in DOMAIN constraints : i \in task.cmap[o] => ds[i] = DistanceOf(constraints[i], v)
  OBVIOUS
<1> HIDE DEF ds
<1> QED
  BY <1>2, <1>3, <1>4, TotalType

\* A point moved at one offset: the constraints without it are as far away as before.
LEMMA MovedByte ==
    ASSUME task \in FinalTasks, NEW v \in Points, NEW o, NEW x, NEW w \in Points,
           w = [v EXCEPT ![o] = x], NEW ds \in Dists, Closer(v, ds)
    PROVE  /\ SingleTotal(w, o) = 0 => Closer(w, ds)
           /\ Closer(w, SingleDistances(w, o, ds))
<1>1. ASSUME NEW i \in DOMAIN constraints, constraints[i].comp \notin MemcmpKinds,
             o \notin Offsets(constraints[i])
      PROVE  DistanceOf(constraints[i], w) <= ds[i]
  <2>1. IsConstraint(constraints[i]) /\ Offsets(constraints[i]) \subseteq task.offsets
    BY TaskFacts DEF IsFinal
  <2>2. \A p \in Offsets(constraints[i]) : w[p] = v[p]
    BY <1>1, <2>1 DEF Points
  <2>3. DistanceOf(constraints[i], w) = DistanceOf(constraints[i], v)
    BY <2>1, <2>2, DistanceAgrees
  <2> QED
    BY <1>1, <2>3 DEF Closer
<1>2. ASSUME NEW i \in DOMAIN constraints, constraints[i].comp \notin MemcmpKinds,
             o \in Offsets(constraints[i])
      PROVE  i \in task.cmap[o]
  <2>1. o \in task.offsets
    BY <1>2, TaskFacts DEF IsFinal
  <2>2. task.cmap[o] = OnByte(constraints, o)
    BY <2>1, TaskFacts DEF IsFinal
  <2> QED
    BY <1>2, <2>2 DEF OnByte
<1>3. \A i \in DOMAIN constraints : DistanceOf(constraints[i], w) \in Nat /\ ds[i] \in Nat
  BY PointWords DEF Dists
<1>4. ASSUME SingleTotal(w, o) = 0
      PROVE  Closer(w, ds)
  <2>1. \A i \in DOMAIN constraints : i \in task.cmap[o] => DistanceOf(constraints[i], w) = 0
    BY <1>4, SingleZero
  <2>2. ASSUME NEW i \in DOMAIN constraints, i \in task.cmap[o]
        PROVE  DistanceOf(constraints[i], w) <= ds[i]
    <3>1. DistanceOf(constraints[i], w) = 0
      BY <2>1, <2>2
    <3>2. ds[i] \in Nat
      BY <1>3
    <3> QED
      BY <3>1, <3>2
  <2> QED
    BY <1>1, <1>2, <2>2 DEF Closer
<1>5. Closer(w, SingleDistances(w, o, ds))
  <2> DEFINE ss == SingleDistances(w, o, ds)
  <2>1. \A i \in DOMAIN constraints :
          ss[i] = IF i \in task.cmap[o] THEN DistanceOf(constraints[i], w) ELSE ds[i]
    BY DEF SingleDistances
  <2> HIDE DEF ss
  <2>2. ASSUME NEW i \in DOMAIN constraints, constraints[i].comp \notin MemcmpKinds
        PROVE  DistanceOf(constraints[i], w) <= ss[i]
    <3>1. CASE i \in task.cmap[o]
      <4>1. ss[i] = DistanceOf(constraints[i], w)
        BY <2>1, <3>1
      <4>2. \A d \in Nat : d <= d
        OBVIOUS
      <4> QED
        BY <1>3, <4>1, <4>2
    <3>2. CASE i \notin task.cmap[o]
      <4>1. ss[i] = ds[i] /\ o \notin Offsets(constraints[i])
        BY <1>2, <2>1, <2>2, <3>2
      <4> QED
        BY <1>1, <2>2, <4>1
    <3> QED
      BY <3>1, <3>2
  <2>3. Closer(w, ss)
    BY <2>2 DEF Closer
  <2> QED
    BY <2>3 DEF ss
<1> QED
  BY <1>4, <1>5

\* A point is as close as its own distances say.
LEMMA OwnDistances ==
    ASSUME task \in FinalTasks, NEW v \in Points
    PROVE  /\ Closer(v, AllDistances(v))
           /\ Total(AllDistances(v)) = 0 => Met(v)
<1>1. \A i \in DOMAIN constraints :
        AllDistances(v)[i] = DistanceOf(constraints[i], v) /\ DistanceOf(constraints[i], v) \in Nat
  BY PointWords DEF AllDistances
<1>2. Closer(v, AllDistances(v))
  <2>1. ASSUME NEW i \in DOMAIN constraints
        PROVE  DistanceOf(constraints[i], v) <= AllDistances(v)[i]
    <3>1. \A d \in Nat : d <= d
      OBVIOUS
    <3> QED
      BY <1>1, <3>1
  <2> QED
    BY <2>1 DEF Closer
<1>3. Total(AllDistances(v)) = 0 => Met(v)
  <2>1. AllDistances(v) \in Dists
    BY AllType
  <2>2. Total(AllDistances(v)) = 0 => \A i \in DOMAIN constraints : AllDistances(v)[i] = 0
    BY <2>1, TotalType
  <2> QED
    BY <1>1, <2>2 DEF Met
<1> QED
  BY <1>2, <1>3
-----------------------------------------------------------------------------
(* Gradients. *)

Gradients == [DOMAIN task.inputs -> [sign : BOOLEAN, val : Nat]]

\* A wrapped value is natural.
LEMMA WrapNat ==
    ASSUME NEW x \in Int
    PROVE  Wrap(x) \in Nat
<1>1. Wrap(x) \in 0 .. MaxWord
  BY WrapType
<1> QED
  BY <1>1, Sizes

\* partial_derivative probes points.
LEMMA ProbeType ==
    ASSUME task \in FinalTasks, input \in Points, NEW o, NEW up, NEW i \in Nat
    PROVE  /\ Probe(o, up, i) \in Points
           /\ \E x : Probe(o, up, i) = [input EXCEPT ![o] = x]
<1> DEFINE moved == (4^(i + 1) - 1) \div 3
           x == Wrap(IF up THEN input[o] + moved ELSE input[o] - moved)
<1>1. moved \in Int
  OBVIOUS
<1>2. Probe(o, up, i) = [input EXCEPT ![o] = x]
  BY DEF Probe
<1>3. o \in task.offsets => x \in Nat
  <2>1. ASSUME o \in task.offsets
        PROVE  x \in Nat
    <3>1. input[o] \in Nat
      BY <2>1 DEF Points
    <3> HIDE DEF moved
    <3>2. input[o] + moved \in Int /\ input[o] - moved \in Int
      BY <1>1, <3>1
    <3>3. (IF up THEN input[o] + moved ELSE input[o] - moved) \in Int
      BY <3>2
    <3> QED
      BY <3>3, WrapNat
  <2> QED
    BY <2>1
<1> HIDE DEF x
<1>4. [input EXCEPT ![o] = x] \in Points
  BY <1>3 DEF Points
<1> QED
  BY <1>2, <1>4

\* The gradient has a byte for every offset, and a largest value.
LEMMA GradientFacts ==
    ASSUME task \in FinalTasks, grad \in Gradients
    PROVE  /\ Len(grad) \in Nat /\ DOMAIN grad = 1 .. Len(grad) /\ DOMAIN grad = DOMAIN task.inputs
           /\ \A i \in DOMAIN grad : grad[i].val \in Nat /\ grad[i].sign \in BOOLEAN
           /\ max_val \in Nat
           /\ val_sum \in Nat
<1> DEFINE n == Cardinality(task.offsets)
<1>1. n \in Nat /\ DOMAIN task.inputs = 1 .. n
  BY TaskFacts DEF IsFinal
<1> HIDE DEF n
<1>2. grad \in [1 .. n -> [sign : BOOLEAN, val : Nat]]
  BY <1>1 DEF Gradients
<1>3. Len(grad) = n /\ DOMAIN grad = 1 .. n
  BY <1>1, <1>2
<1>4. \A i \in DOMAIN grad : grad[i].val \in Nat /\ grad[i].sign \in BOOLEAN
  BY <1>2
<1>5. \A i \in 1 .. n : Vals[i] = grad[i].val
  BY <1>3 DEF Vals
<1>6. DOMAIN Vals = 1 .. n
  BY <1>3 DEF Vals
<1>7. val_sum \in Nat
  <2>1. \A i \in 1 .. n : Vals[i] \in Nat
    BY <1>3, <1>4, <1>5
  <2>2. SumTo(n, Vals) \in Nat
    BY <1>1, <2>1, SumBounds
  <2>3. Wrap(SumTo(n, Vals)) \in Nat
    BY <2>2, WrapNat
  <2> QED
    BY <1>3, <2>3 DEF val_sum
<1>8. max_val \in Nat
  <2> DEFINE S == Range(Vals)
  <2>1. S = {Vals[i] : i \in 1 .. n}
    BY <1>6 DEF Range
  <2>2. S \subseteq Nat
    BY <1>3, <1>4, <1>5, <2>1
  <2>3. IsFiniteSet(S)
    <3>1. IsFiniteSet(1 .. n)
      BY <1>1, Counts
    <3> QED
      <4>1. IsFiniteSet({Vals[i] : i \in 1 .. n})
        BY <3>1, ImageFinite
      <4> QED
        BY <2>1, <4>1
  <2> HIDE DEF S
  <2>4. IsFiniteSet(S \cup {0}) /\ S \cup {0} \subseteq Nat /\ S \cup {0} # {}
    BY <2>2, <2>3, FS_AddElement
  <2>5. Max(S \cup {0}) \in S \cup {0}
    BY <2>4, MaxIs
  <2> QED
    BY <2>4, <2>5 DEF max_val, S
<1> QED
  BY <1>1, <1>3, <1>4, <1>7, <1>8

\* A byte moved along its gradient leaves a point.
LEMMA MovedType ==
    ASSUME task \in FinalTasks, grad \in Gradients, max_val # 0,
           NEW v \in Points, NEW i \in DOMAIN grad, NEW st \in Nat
    PROVE  /\ Moved(v, i, st) \in Points
           /\ \E x : Moved(v, i, st) = [v EXCEPT ![Offset(i)] = x]
<1> DEFINE o == Offset(i)
           m == Movement(i, st)
           x == Wrap(IF grad[i].sign THEN v[o] + m ELSE v[o] - m)
<1>1. m \in Int
  <2>1. grad[i].val \in Nat /\ max_val \in Nat
    BY GradientFacts
  <2>2. grad[i].val * st \in Nat
    BY <2>1, Product
  <2>3. \A a \in Nat, b \in Nat \ {0} : a \div b \in Int
    OBVIOUS
  <2> QED
    BY <2>1, <2>2, <2>3 DEF Movement
<1>2. Moved(v, i, st) = [v EXCEPT ![o] = x]
  BY DEF Moved
<1>3. o \in task.offsets => x \in Nat
  <2>1. ASSUME o \in task.offsets
        PROVE  x \in Nat
    <3>1. v[o] \in Nat
      BY <2>1 DEF Points
    <3> HIDE DEF m, o
    <3>2. v[o] + m \in Int /\ v[o] - m \in Int
      BY <1>1, <3>1
    <3>3. (IF grad[i].sign THEN v[o] + m ELSE v[o] - m) \in Int
      BY <3>2
    <3> QED
      BY <3>3, WrapNat
  <2> QED
    BY <2>1
<1> HIDE DEF x
<1>4. [v EXCEPT ![o] = x] \in Points
  BY <1>3 DEF Points
<1> QED
  BY <1>2, <1>4

\* All bytes moved along their gradients leave a point.
LEMMA MovedAllType ==
    ASSUME task \in FinalTasks, grad \in Gradients, max_val # 0, NEW v \in Points, NEW st \in Nat
    PROVE  MovedAll(v, st) \in Points
<1>1. DOMAIN v = task.offsets
  BY DEF Points
<1>2. ASSUME NEW o \in task.offsets
      PROVE  Moved(v, CHOOSE k \in DOMAIN grad : Offset(k) = o, st)[o] \in Nat
  <2> DEFINE i == CHOOSE k \in DOMAIN grad : Offset(k) = o
  <2>1. \E k \in DOMAIN grad : Offset(k) = o
    BY GradientFacts, TaskFacts DEF IsFinal, Offset
  <2>2. i \in DOMAIN grad
    BY <2>1
  <2> HIDE DEF i
  <2>3. Moved(v, i, st) \in Points
    BY <2>2, MovedType
  <2>4. Moved(v, i, st)[o] \in Nat
    BY <2>3 DEF Points
  <2> QED
    BY <2>4 DEF i
<1>3. MovedAll(v, st) = [o \in task.offsets |-> Moved(v, CHOOSE k \in DOMAIN grad : Offset(k) = o, st)[o]]
  BY <1>1 DEF MovedAll
<1> QED
  BY <1>2, <1>3 DEF Points

-----------------------------------------------------------------------------
(* Input-to-state. *)

\* A byte of a word is a byte.
LEMMA ByteAtType ==
    ASSUME NEW x \in Int, NEW j \in Nat
    PROVE  ByteAt(x, j) \in 0 .. 2^ByteBits - 1
<1>1. ByteBits \in Nat /\ 2^ByteBits \in Nat \ {0}
  BY Sizes
<1>2. ByteBits * j \in Nat
  BY <1>1, Product
<1>3. 2^(ByteBits * j) \in Nat \ {0}
  BY <1>2, PowerPositive
<1>4. \A M \in Nat \ {0} : x \div M \in Int
  OBVIOUS
<1>5. \A y \in Int, M \in Nat \ {0} : y % M \in 0 .. M - 1
  OBVIOUS
<1>6. x \div 2^(ByteBits * j) \in Int
  BY <1>3, <1>4
<1> QED
  BY <1>1, <1>5, <1>6 DEF ByteAt

\* A byte of a word is natural.
LEMMA ByteNat ==
    ASSUME NEW x \in Int, NEW j \in Nat
    PROVE  ByteAt(x, j) \in Nat
<1>1. ByteAt(x, j) \in 0 .. 2^ByteBits - 1
  BY ByteAtType
<1> QED
  BY <1>1, Sizes

\* A word in reverse order is natural.
LEMMA ReversedType ==
    ASSUME NEW x \in Int, NEW n \in Nat
    PROVE  Reversed(x, n) \in Int
<1> DEFINE f == [j \in 1 .. n |-> ByteAt(x, n - j) * 2^(ByteBits * (j - 1))]
<1>1. ASSUME NEW j \in 1 .. n
      PROVE  f[j] \in Nat
  <2>1. n - j \in Nat /\ j - 1 \in Nat /\ ByteBits \in Nat
    BY Sizes
  <2>2. ByteAt(x, n - j) \in Nat
    BY <2>1, ByteNat
  <2>3. ByteBits * (j - 1) \in Nat
    BY <2>1, Product
  <2>4. 2^(ByteBits * (j - 1)) \in Nat
    BY <2>3, PowerPositive
  <2> QED
    BY <2>2, <2>4, Product
<1>2. Reversed(x, n) = SumTo(n, f)
  BY DEF Reversed
<1> HIDE DEF f
<1> QED
  BY <1>1, <1>2, SumBounds

\* A value put at a candidate leaves a point.
LEMMA PutType ==
    ASSUME NEW v \in Points, NEW cand \in Nat \X Nat, NEW x \in Int
    PROVE  Put(v, cand, x) \in Points
<1>1. DOMAIN v = task.offsets
  BY DEF Points
<1>2. ASSUME NEW o \in task.offsets
      PROVE  (IF o \in cand[1] .. cand[1] + cand[2] - 1 THEN ByteAt(x, o - cand[1]) ELSE v[o]) \in Nat
  <2>1. CASE o \in cand[1] .. cand[1] + cand[2] - 1
    <3>1. o - cand[1] \in Nat
      BY <2>1
    <3>2. ByteAt(x, o - cand[1]) \in Nat
      BY <3>1, ByteNat
    <3> QED
      BY <2>1, <3>2
  <2>2. CASE o \notin cand[1] .. cand[1] + cand[2] - 1
    BY <2>2 DEF Points
  <2> QED
    BY <2>1, <2>2
<1> QED
  BY <1>1, <1>2 DEF Put, Points

\* get_i2s_value returns a word.
LEMMA ValueType ==
    ASSUME NEW comp \in RelationalKinds, NEW x \in Nat, NEW rhs
    PROVE  get_i2s_value(comp, x, rhs) \in Nat
<1>1. Wrap(x - 1) \in Nat /\ Wrap(x + 1) \in Nat
  BY WrapNat
<1>2. Wrap(IF rhs THEN x - 1 ELSE x + 1) \in Nat /\ Wrap(IF rhs THEN x + 1 ELSE x - 1) \in Nat
  BY <1>1
<1> QED
  BY <1>2 DEF get_i2s_value, RelationalKinds, SignedKinds

\* A relational constraint makes points of points.
LEMMA I2SPointsType ==
    ASSUME task \in FinalTasks, NEW k \in DOMAIN constraints, constraints[k].comp \notin MemcmpKinds,
           NEW v \in Points, NEW w, w[1] \in Points, NEW u \in I2SPoints(k, v, w)
    PROVE  u[1] \in Points
<1> DEFINE c == constraints[k]
           cands == task.i2s_candidates[k]
           a == Op1(c, v)
           b == Op2(c)
           to2 == get_i2s_value(c.comp, b, TRUE)
           to1 == get_i2s_value(c.comp, a, FALSE)
           straight(j) == IF Gathered(k, v, j) = a THEN {to2}
                          ELSE IF Gathered(k, v, j) = b THEN {to1} ELSE {}
           reverse(j) == {Reversed(x, cands[j][2]) : x \in {to2, to1}}
           put(j, values) == {<<Put(w[1], cands[j], x), TRUE>> : x \in {y \in values : Fits(k, y)}}
           fitting == {j \in DOMAIN cands : cands[j][2] <= WordBytes}
           taken == {j \in fitting : put(j, straight(j)) # {}}
           first == {j \in taken : \A h \in taken : j <= h}
           passed == {j \in fitting : \A h \in taken : j < h}
<1>1. \/ u = w
      \/ \E j \in DOMAIN cands : u \in put(j, straight(j)) \/ u \in put(j, reverse(j))
  <2>1. u \in (UNION {put(j, straight(j)) : j \in first})
                \cup (UNION {put(j, reverse(j)) : j \in passed})
                \cup {x \in {w} : taken = {}}
    BY Zenon DEF I2SPoints
  <2>2. first \subseteq DOMAIN cands /\ passed \subseteq DOMAIN cands
    <3> HIDE DEF put, straight, reverse, cands
    <3> QED
      OBVIOUS
  <2> HIDE DEF first, passed, taken, put, straight, reverse, cands
  <2> QED
    BY <2>1, <2>2
<1>2. IsConstraint(c) /\ Offsets(c) \subseteq task.offsets /\ cands = Candidates(c)
  BY TaskFacts DEF IsFinal
<1>3. c.comp \in RelationalKinds
  BY <1>2, KindFacts DEF IsRelational
<1>4. a \in Nat /\ b \in Nat
  <2>1. WordsOn(v, Offsets(c))
    BY <1>2 DEF WordsOn, Points
  <2> QED
    BY <1>2, <2>1, Op1Type
<1> HIDE DEF c, a, b, cands, fitting, taken, first, passed
<1>5. to1 \in Nat /\ to2 \in Nat
  BY <1>3, <1>4, ValueType
<1>6. ASSUME NEW j \in DOMAIN cands
      PROVE  cands[j] \in Nat \X Nat
  BY <1>2, CandidateFacts DEF cands
<1> HIDE DEF to1, to2
<1>7. ASSUME NEW j \in DOMAIN cands
      PROVE  \A x \in straight(j) \cup reverse(j) : x \in Int
  <2>1. \A x \in straight(j) : x \in Int
    BY <1>5
  <2>2. cands[j][2] \in Nat /\ to1 \in Int /\ to2 \in Int
    BY <1>5, <1>6
  <2>3. Reversed(to1, cands[j][2]) \in Int /\ Reversed(to2, cands[j][2]) \in Int
    BY <2>2, ReversedType
  <2>4. \A x \in reverse(j) : x \in Int
    BY <2>3
  <2> HIDE DEF straight, reverse
  <2> QED
    BY <2>1, <2>4
<1> HIDE DEF straight, reverse
<1>8. ASSUME NEW j \in DOMAIN cands, u \in put(j, straight(j)) \/ u \in put(j, reverse(j))
      PROVE  u[1] \in Points
  <2>1. PICK x \in straight(j) \cup reverse(j) : u = <<Put(w[1], cands[j], x), TRUE>>
    BY <1>8
  <2>2. x \in Int /\ cands[j] \in Nat \X Nat
    BY <1>6, <1>7
  <2>3. Put(w[1], cands[j], x) \in Points
    BY <2>2, PutType
  <2> QED
    BY <2>1, <2>3
<1> QED
  BY <1>1, <1>8

\* Copying the content of a memcmp leaves a point.
LEMMA CopyType ==
    ASSUME NEW c, IsMemcmp(c), NEW v \in Points
    PROVE  CopyContent(c, v) \in Points
<1>1. DOMAIN v = task.offsets
  BY DEF Points
<1>2. c.at \in Nat /\ c.content \in Seq(0 .. 2^ByteBits - 1) /\ 2^ByteBits \in Nat
  BY Sizes DEF IsMemcmp
<1>3. ASSUME NEW o \in task.offsets
      PROVE  (IF o \in c.at .. c.at + Len(c.content) - 1 THEN c.content[o - c.at + 1] ELSE v[o]) \in Nat
  <2>1. CASE o \in c.at .. c.at + Len(c.content) - 1
    <3>1. o - c.at + 1 \in 1 .. Len(c.content)
      BY <1>2, <2>1
    <3>2. c.content[o - c.at + 1] \in 0 .. 2^ByteBits - 1
      BY <1>2, <3>1
    <3> QED
      BY <1>2, <2>1, <3>2
  <2>2. CASE o \notin c.at .. c.at + Len(c.content) - 1
    BY <2>2 DEF Points
  <2> QED
    BY <2>1, <2>2
<1> QED
  BY <1>1, <1>3 DEF CopyContent, Points
-----------------------------------------------------------------------------
(* What try_i2s tries. *)

\* The equation of I2STries.
TryStep(f, v, k) ==
    IF k = 0 THEN {<<v, FALSE>>}
    ELSE IF DistanceOf(constraints[k], v) = 0 \/ constraints[k].comp = "MemcmpN" THEN f[k - 1]
    ELSE IF constraints[k].comp = "Memcmp"
    THEN {<<CopyContent(constraints[k], w[1]), TRUE>> : w \in f[k - 1]}
    ELSE UNION {I2SPoints(k, v, w) : w \in f[k - 1]}

\* The recursion of I2STries has a solution.
LEMMA TriesExist ==
    ASSUME NEW v, NEW n \in Nat
    PROVE  \E f : f = [k \in 0 .. n |-> TryStep(f, v, k)]
<1> DEFINE Exists(m) == \E f : f = [k \in 0 .. m |-> TryStep(f, v, k)]
           V == {m \in Nat : Exists(m)}
<1>1. 0 \in V
  <2> DEFINE f == [k \in 0 .. 0 |-> {<<v, FALSE>>}]
  <2>1. \A k \in 0 .. 0 : TryStep(f, v, k) = {<<v, FALSE>>}
    BY DEF TryStep
  <2>2. f = [k \in 0 .. 0 |-> TryStep(f, v, k)]
    BY <2>1
  <2> HIDE DEF f
  <2>3. Exists(0)
    BY <2>2
  <2> QED
    BY <2>3
<1>2. ASSUME NEW m \in 1 .. n, m - 1 \in V
      PROVE  m \in V
  <2>1. PICK f : f = [k \in 0 .. m - 1 |-> TryStep(f, v, k)]
    BY <1>2
  <2> DEFINE g == [k \in 0 .. m |-> TryStep(f, v, k)]
  <2>2. \A k \in 0 .. m - 1 : f[k] = TryStep(f, v, k)
    BY <2>1, Zenon
  <2>3. ASSUME NEW k \in 0 .. m - 1
        PROVE  g[k] = f[k]
    <3>1. k \in 0 .. m
      OBVIOUS
    <3>2. g[k] = TryStep(f, v, k)
      BY <3>1
    <3> QED
      BY <2>2, <3>2
  <2>4. ASSUME NEW k \in 0 .. m
        PROVE  TryStep(f, v, k) = TryStep(g, v, k)
    <3>1. k # 0 => f[k - 1] = g[k - 1]
      <4>1. k # 0 => k - 1 \in 0 .. m - 1
        OBVIOUS
      <4> HIDE DEF g
      <4> QED
        BY <2>3, <4>1
    <3> HIDE DEF g
    <3> QED
      BY <3>1 DEF TryStep
  <2>5. g = [k \in 0 .. m |-> TryStep(g, v, k)]
    BY <2>4
  <2> HIDE DEF g
  <2>6. Exists(m)
    BY <2>5
  <2>7. m \in Nat
    OBVIOUS
  <2> QED
    BY <2>6, <2>7
<1> HIDE DEF V
<1>3. n \in V
  BY <1>1, <1>2, Climbs
<1> QED
  BY <1>3 DEF V

\* What try_i2s tries are points.
LEMMA TriesType ==
    ASSUME task \in FinalTasks, NEW v \in Points, NEW u \in I2STries(v)
    PROVE  u[1] \in Points
<1> DEFINE n == Len(constraints)
           after[k \in 0 .. n] ==
             IF k = 0 THEN {<<v, FALSE>>}
             ELSE IF DistanceOf(constraints[k], v) = 0 \/ constraints[k].comp = "MemcmpN" THEN after[k - 1]
             ELSE IF constraints[k].comp = "Memcmp"
             THEN {<<CopyContent(constraints[k], w[1]), TRUE>> : w \in after[k - 1]}
             ELSE UNION {I2SPoints(k, v, w) : w \in after[k - 1]}
<1>1. n \in Nat /\ DOMAIN constraints = 1 .. n
  BY TaskFacts DEF IsFinal
<1>2. I2STries(v) = after[n]
  BY Zenon DEF I2STries
<1>3. after = CHOOSE f : f = [k \in 0 .. n |-> TryStep(f, v, k)]
  BY Zenon DEF TryStep
<1>4. PICK f : f = [k \in 0 .. n |-> TryStep(f, v, k)]
  BY <1>1, TriesExist
<1> HIDE DEF after
<1>5. after = [k \in 0 .. n |-> TryStep(after, v, k)]
  BY <1>3, <1>4
<1>6. \A k \in 0 .. n : after[k] = TryStep(after, v, k)
  BY <1>5, Zenon
<1> DEFINE V == {k \in 0 .. n : \A w \in after[k] : w[1] \in Points}
<1>7. 0 \in V
  <2>1. 0 \in 0 .. n
    BY <1>1
  <2>2. TryStep(after, v, 0) = {<<v, FALSE>>}
    BY DEF TryStep
  <2>3. after[0] = {<<v, FALSE>>}
    BY <1>6, <2>1, <2>2
  <2>4. \A w \in after[0] : w = <<v, FALSE>>
    BY <2>3
  <2>5. ASSUME NEW w \in after[0]
        PROVE  w[1] \in Points
    <3> DEFINE no == FALSE
    <3>1. w = <<v, no>>
      BY <2>4
    <3> HIDE DEF no
    <3>2. w[1] = v
      BY <3>1
    <3> QED
      BY <3>2
  <2> QED
    BY <2>1, <2>5
<1>8. ASSUME NEW k \in 1 .. n, k - 1 \in V
      PROVE  k \in V
  <2>1. \A w \in after[k - 1] : w[1] \in Points
    BY <1>8
  <2>2. k \in 0 .. n /\ k # 0 /\ k \in DOMAIN constraints
    BY <1>1
  <2> DEFINE c == constraints[k]
  <2>3. IsConstraint(c)
    BY <2>2, TaskFacts DEF IsFinal
  <2>4. after[k] = TryStep(after, v, k)
    BY <1>6, <2>2
  <2>5. CASE DistanceOf(c, v) = 0 \/ c.comp = "MemcmpN"
    <3>1. after[k] = after[k - 1]
      BY <2>2, <2>4, <2>5 DEF TryStep
    <3> QED
      BY <2>1, <2>2, <3>1
  <2>6. CASE ~(DistanceOf(c, v) = 0 \/ c.comp = "MemcmpN") /\ c.comp = "Memcmp"
    <3>1. after[k] = {<<CopyContent(c, w[1]), TRUE>> : w \in after[k - 1]}
      BY <2>2, <2>4, <2>6 DEF TryStep
    <3>2. IsMemcmp(c)
      BY <2>3, <2>6, KindFacts DEF MemcmpKinds
    <3>3. \A w \in after[k - 1] : CopyContent(c, w[1]) \in Points
      BY <2>1, <3>2, CopyType
    <3>4. ASSUME NEW x \in after[k]
          PROVE  x[1] \in Points
      <4>1. PICK w \in after[k - 1] : x = <<CopyContent(c, w[1]), TRUE>>
        BY <3>1
      <4> QED
        BY <3>3, <4>1
    <3> QED
      BY <2>2, <3>4
  <2>7. CASE ~(DistanceOf(c, v) = 0 \/ c.comp = "MemcmpN") /\ c.comp # "Memcmp"
    <3>1. after[k] = UNION {I2SPoints(k, v, w) : w \in after[k - 1]}
      BY <2>2, <2>4, <2>7 DEF TryStep
    <3>2. c.comp \notin MemcmpKinds
      BY <2>7 DEF MemcmpKinds
    <3>3. \A w \in after[k - 1] : \A x \in I2SPoints(k, v, w) : x[1] \in Points
      BY <2>1, <2>2, <3>2, I2SPointsType
    <3> QED
      BY <2>2, <3>1, <3>3
  <2> QED
    BY <2>5, <2>6, <2>7
<1> HIDE DEF V
<1>9. n \in V
  BY <1>1, <1>7, <1>8, Climbs
<1> QED
  BY <1>2, <1>9 DEF V
-----------------------------------------------------------------------------
(* The budget. *)

IsFlags(s) ==
    /\ DOMAIN s = {"attempts", "stopped", "solved", "solution"}
    /\ s = [x \in DOMAIN s |-> s[x]]
    /\ s.attempts \in Nat
    /\ s.stopped \in BOOLEAN

\* A search that goes on has budget left, and starts with all of it.
Budget ==
    /\ IsFlags(flags)
    /\ ~flags.stopped => flags.attempts <= MAX_EXEC_TIMES
    /\ pc = "reload" => ~flags.stopped
    /\ flags.attempts <= MAX_EXEC_TIMES + 2

\* A step that evaluates, from flags s to flags u.
Spent(s, u, n) ==
    /\ IsFlags(u)
    /\ u.attempts <= s.attempts + n
    /\ ~u.stopped => ~s.stopped /\ u.attempts <= MAX_EXEC_TIMES

\* distance() counts one evaluation.
LEMMA EvaluatedSpends ==
    ASSUME NEW s, IsFlags(s), NEW v
    PROVE  Spent(s, Evaluated(s, v), 1)
<1>1. MAX_EXEC_TIMES \in Nat /\ s.attempts \in Nat /\ s.stopped \in BOOLEAN
  BY SearchAssumption DEF IsFlags
<1> DEFINE u == Evaluated(s, v)
<1>2. /\ DOMAIN u = {"attempts", "stopped", "solved", "solution"}
      /\ u = [x \in DOMAIN u |-> u[x]]
      /\ u.attempts = s.attempts + 1
      /\ u.stopped = (s.stopped \/ Met(v) \/ s.attempts + 1 > MAX_EXEC_TIMES)
  BY DEF Evaluated
<1> HIDE DEF u
<1>3. u.stopped \in BOOLEAN /\ (~u.stopped => ~s.stopped /\ ~(s.attempts + 1 > MAX_EXEC_TIMES))
  BY <1>2, Zenon
<1> QED
  BY <1>1, <1>2, <1>3 DEF Spent, IsFlags, u

\* Counting n evaluations.
LEMMA CountedSpends ==
    ASSUME NEW s, IsFlags(s), NEW n \in Nat
    PROVE  Spent(s, Counted(s, n), n)
<1>1. MAX_EXEC_TIMES \in Nat /\ s.attempts \in Nat /\ s.stopped \in BOOLEAN
      /\ DOMAIN s = {"attempts", "stopped", "solved", "solution"}
      /\ s = [x \in DOMAIN s |-> s[x]]
  BY SearchAssumption DEF IsFlags
<1> DEFINE u == Counted(s, n)
<1>2. /\ DOMAIN u = {"attempts", "stopped", "solved", "solution"}
      /\ u = [x \in DOMAIN u |-> u[x]]
      /\ u.attempts = s.attempts + n
      /\ u.stopped = (s.stopped \/ s.attempts + n > MAX_EXEC_TIMES)
  BY <1>1 DEF Counted
<1> HIDE DEF u
<1>3. u.stopped \in BOOLEAN /\ (~u.stopped => ~s.stopped /\ ~(s.attempts + n > MAX_EXEC_TIMES))
  BY <1>2, Zenon
<1> QED
  BY <1>1, <1>2, <1>3 DEF Spent, IsFlags, u

\* A search that has found a solution has stopped.
LEMMA SolvedStops ==
    ASSUME NEW s, IsFlags(s), NEW v
    PROVE  IsFlags(Solved(s, v)) /\ Solved(s, v).attempts = s.attempts /\ Solved(s, v).stopped
<1>1. s.attempts \in Nat /\ DOMAIN s = {"attempts", "stopped", "solved", "solution"}
      /\ s = [x \in DOMAIN s |-> s[x]]
  BY DEF IsFlags
<1> QED
  BY <1>1 DEF Solved, IsFlags

\* The probes are an interval from 0 on, with a last one.
LEMMA ProbesAre ==
    /\ 0 \in Probes /\ Probes \subseteq Nat /\ Max(Probes) \in Probes
    /\ \A i \in Probes : i > 0 => i - 1 \in Probes
<1>1. ByteBits \in Nat \ {0}
  BY SearchAssumption
<1>2. 0 \in Probes /\ Probes \subseteq Nat /\ \A i \in Probes : i > 0 => i - 1 \in Probes
  BY <1>1 DEF Probes
<1> DEFINE T == {ByteBits - i : i \in Probes}
<1>3. T \subseteq Nat /\ T # {}
  BY <1>1, <1>2 DEF Probes
<1>4. PICK m \in T : \A k \in T : m <= k
  BY <1>3, Least
<1>5. PICK i \in Probes : m = ByteBits - i
  BY <1>4
<1>6. \A j \in Probes : ByteBits - i <= ByteBits - j
  BY <1>4, <1>5
<1>7. \A j \in Probes : i >= j
  BY <1>1, <1>2, <1>6
<1>8. Max(Probes) \in Probes
  BY <1>7 DEF Max
<1> QED
  BY <1>2, <1>8

\* One direction of partial_derivative ends at one of its probes, and had budget
\* for the probes before it.
LEMMA DirectionIs ==
    ASSUME NEW o, NEW up, NEW attempts
    PROVE  \E n \in Probes :
             /\ Direction(o, up, attempts).point = Probe(o, up, n)
             /\ Direction(o, up, attempts).f = Total(SingleDistances(Probe(o, up, n), o, min_distances))
             /\ Direction(o, up, attempts).lucky = (SingleTotal(Probe(o, up, n), o) = 0)
             /\ Direction(o, up, attempts).count \in {n, n + 1}
             /\ \A h \in Probes : h < n => ~(attempts + h + 1 > MAX_EXEC_TIMES)
<1> DEFINE single == [i \in Probes |-> SingleTotal(Probe(o, up, i), o)]
           f == [i \in Probes |-> Total(SingleDistances(Probe(o, up, i), o, min_distances))]
           ends(i) == \/ single[i] = 0
                      \/ attempts + i + 1 > MAX_EXEC_TIMES
                      \/ f[i] # f0
                      \/ i = Max(Probes)
           at(n) == [point |-> Probe(o, up, n), f |-> f[n], lucky |-> single[n] = 0,
                     count |-> IF single[n] = 0 THEN n ELSE n + 1]
           first == CHOOSE i \in Probes : ends(i) /\ \A h \in Probes : h < i => ~ends(h)
<1>1. Direction(o, up, attempts) = at(first)
  BY Zenon DEF Direction
<1>2. \A h : ~ends(h) => ~(attempts + h + 1 > MAX_EXEC_TIMES)
  BY Zenon
<1>3. ends(Max(Probes))
  BY Zenon
<1>4. ASSUME NEW n \in Probes
      PROVE  /\ at(n).point = Probe(o, up, n)
             /\ at(n).f = Total(SingleDistances(Probe(o, up, n), o, min_distances))
             /\ at(n).lucky = (SingleTotal(Probe(o, up, n), o) = 0)
             /\ at(n).count \in {n, n + 1}
  <2>1. single[n] = SingleTotal(Probe(o, up, n), o)
    OBVIOUS
  <2>2. f[n] = Total(SingleDistances(Probe(o, up, n), o, min_distances))
    OBVIOUS
  <2> HIDE DEF single, f
  <2>3. at(n).point = Probe(o, up, n) /\ at(n).f = f[n] /\ at(n).count \in {n, n + 1}
    OBVIOUS
  <2>4. at(n).lucky = (single[n] = 0)
    OBVIOUS
  <2> QED
    BY <2>1, <2>2, <2>3, <2>4
<1> HIDE DEF ends, at, single, f
<1>5. \E i \in Probes : ends(i) /\ \A h \in Probes : h < i => ~ends(h)
  <2> DEFINE T == {i \in Probes : ends(i)}
  <2>1. T \subseteq Nat /\ T # {}
    BY <1>3, ProbesAre
  <2>2. PICK m \in T : \A k \in T : m <= k
    BY <2>1, Least
  <2>3. ASSUME NEW h \in Probes, h < m
        PROVE  ~ends(h)
    <3>1. h \in Nat /\ m \in Nat /\ ~(m <= h)
      BY <2>1, <2>2, <2>3, ProbesAre
    <3> QED
      BY <2>2, <3>1
  <2> QED
    BY <2>2, <2>3
<1>6. first \in Probes /\ \A h \in Probes : h < first => ~ends(h)
  BY <1>5
<1> HIDE DEF first
<1>7. \A h \in Probes : h < first => ~(attempts + h + 1 > MAX_EXEC_TIMES)
  BY <1>2, <1>6
<1> QED
  BY <1>1, <1>4, <1>6, <1>7

\* One direction of partial_derivative evaluates no more than once after the budget.
LEMMA DirectionCounts ==
    ASSUME NEW o, NEW up, NEW attempts \in Nat, attempts <= MAX_EXEC_TIMES
    PROVE  /\ Direction(o, up, attempts).count \in Nat
           /\ attempts + Direction(o, up, attempts).count <= MAX_EXEC_TIMES + 1
<1>1. PICK n \in Probes :
        /\ Direction(o, up, attempts).count \in {n, n + 1}
        /\ \A h \in Probes : h < n => ~(attempts + h + 1 > MAX_EXEC_TIMES)
  BY DirectionIs
<1>2. n \in Nat /\ MAX_EXEC_TIMES \in Nat
  BY ProbesAre, SearchAssumption
<1>3. attempts + n + 1 <= MAX_EXEC_TIMES + 1
  <2>1. CASE n = 0
    BY <1>2, <2>1
  <2>2. CASE n > 0
    <3>1. n - 1 \in Probes /\ n - 1 \in Nat /\ n - 1 < n
      BY <1>2, <2>2, ProbesAre
    <3>2. ~(attempts + (n - 1) + 1 > MAX_EXEC_TIMES)
      BY <1>1, <3>1
    <3> QED
      BY <1>2, <3>2
  <2> QED
    BY <1>2, <2>1, <2>2
<1> QED
  BY <1>1, <1>2, <1>3

\* A start point costs two evaluations.
LEMMA StartSpends ==
    ASSUME Budget, ~flags.stopped, NEW v, StartAt(v), pc' # "reload"
    PROVE  Budget'
<1>1. PICK w : flags' = IF w[2] THEN Evaluated(Evaluated(flags, v), w[1]) ELSE Evaluated(flags, v)
  BY DEF StartAt
<1>2. PICK s : s = Evaluated(flags, v)
  OBVIOUS
<1>3. Spent(flags, s, 1)
  BY <1>2, EvaluatedSpends DEF Budget
<1>4. Spent(s, Evaluated(s, w[1]), 1)
  BY <1>3, EvaluatedSpends DEF Spent
<1>5. MAX_EXEC_TIMES \in Nat /\ flags.attempts \in Nat /\ flags.attempts <= MAX_EXEC_TIMES
  BY SearchAssumption DEF Budget, IsFlags
<1>6. flags' \in {s, Evaluated(s, w[1])}
  BY <1>1, <1>2
<1>7. /\ IsFlags(flags') /\ flags'.attempts <= MAX_EXEC_TIMES + 2
      /\ ~flags'.stopped => flags'.attempts <= MAX_EXEC_TIMES
  BY <1>3, <1>4, <1>5, <1>6 DEF Spent, IsFlags
<1> QED
  BY <1>7 DEF Budget, IsFlags

\* Any other step that evaluates does so once, or counts as far as the budget goes.
LEMMA StepSpends ==
    ASSUME Budget, ~flags.stopped, pc' # "reload", IsFlags(flags'),
           flags'.attempts <= MAX_EXEC_TIMES + 1,
           ~flags'.stopped => flags'.attempts <= MAX_EXEC_TIMES
    PROVE  Budget'
<1>1. MAX_EXEC_TIMES \in Nat /\ flags'.attempts \in Nat
  BY SearchAssumption DEF IsFlags
<1>2. flags'.attempts <= MAX_EXEC_TIMES + 2
  BY <1>1
<1> QED
  BY <1>2 DEF Budget, IsFlags

\* partial_derivative keeps the budget.
LEMMA DerivativeSpends ==
    ASSUME Budget, PartialDerivative
    PROVE  Budget'
<1>1. PICK plus, s, minus, t :
         /\ plus = Direction(Offset(index), TRUE, flags.attempts)
         /\ s = Counted(flags, plus.count)
         /\ minus = Direction(Offset(index), FALSE, s.attempts)
         /\ t = Counted(s, minus.count)
         /\ flags' = s \/ (flags' = t /\ ~s.stopped)
  BY Zenon DEF PartialDerivative
<1>2. pc' # "reload" /\ ~flags.stopped
  BY DEF PartialDerivative
<1>3. MAX_EXEC_TIMES \in Nat /\ flags.attempts \in Nat /\ flags.attempts <= MAX_EXEC_TIMES
      /\ IsFlags(flags)
  BY <1>2, SearchAssumption DEF Budget, IsFlags
<1>4. plus.count \in Nat /\ flags.attempts + plus.count <= MAX_EXEC_TIMES + 1
  BY <1>1, <1>3, DirectionCounts
<1>5. Spent(flags, s, plus.count)
  BY <1>1, <1>3, <1>4, CountedSpends
<1>6. IsFlags(s) /\ s.attempts \in Nat /\ s.attempts <= MAX_EXEC_TIMES + 1
      /\ (~s.stopped => s.attempts <= MAX_EXEC_TIMES)
  BY <1>3, <1>4, <1>5 DEF Spent, IsFlags
<1>7. CASE flags' = s
  BY <1>2, <1>6, <1>7, StepSpends
<1>8. CASE flags' = t /\ ~s.stopped
  <2>1. minus.count \in Nat /\ s.attempts + minus.count <= MAX_EXEC_TIMES + 1
    BY <1>1, <1>6, <1>8, DirectionCounts
  <2>2. Spent(s, t, minus.count)
    BY <1>1, <1>6, <2>1, CountedSpends
  <2>3. IsFlags(t) /\ t.attempts <= MAX_EXEC_TIMES + 1 /\ (~t.stopped => t.attempts <= MAX_EXEC_TIMES)
    BY <1>3, <1>6, <2>1, <2>2 DEF Spent, IsFlags
  <2> QED
    BY <1>2, <1>8, <2>3, StepSpends
<1> QED
  BY <1>1, <1>7, <1>8

\* The first guess of descend keeps the budget.
LEMMA GuessSpends ==
    ASSUME Budget, Guess
    PROVE  Budget'
<1>1. pc' # "reload" /\ ~flags.stopped
  BY DEF Guess
<1>2. flags' = flags \/ \E v : flags' = Evaluated(flags, v) \/ flags' = Solved(Evaluated(flags, v), v)
  BY DEF Guess
<1>3. MAX_EXEC_TIMES \in Nat /\ flags.attempts \in Nat /\ flags.attempts <= MAX_EXEC_TIMES
      /\ IsFlags(flags)
  BY <1>1, SearchAssumption DEF Budget, IsFlags
<1>4. CASE flags' = flags
  BY <1>1, <1>3, <1>4, StepSpends
<1>5. ASSUME NEW v, flags' = Evaluated(flags, v) \/ flags' = Solved(Evaluated(flags, v), v)
      PROVE  Budget'
  <2>1. PICK s : s = Evaluated(flags, v)
    OBVIOUS
  <2>2. Spent(flags, s, 1)
    BY <1>3, <2>1, EvaluatedSpends
  <2>3. /\ IsFlags(s) /\ s.attempts <= MAX_EXEC_TIMES + 1
        /\ ~s.stopped => s.attempts <= MAX_EXEC_TIMES
    BY <1>3, <2>2 DEF Spent, IsFlags
  <2>4. IsFlags(Solved(s, v)) /\ Solved(s, v).attempts = s.attempts /\ Solved(s, v).stopped
    BY <2>3, SolvedStops
  <2>5. CASE flags' = s
    BY <1>1, <2>3, <2>5, StepSpends
  <2>6. CASE flags' = Solved(s, v)
    BY <1>1, <2>3, <2>4, <2>6, StepSpends
  <2> QED
    BY <1>5, <2>1, <2>5, <2>6
<1> QED
  BY <1>2, <1>4, <1>5

\* A step of descend keeps the budget.
LEMMA DescendSpends ==
    ASSUME Budget, Descend
    PROVE  Budget'
<1>1. PICK v, ds : Advance(v, ds) \/ Reach(v, ds) \/ NextDirection(v, ds)
  BY Zenon DEF Descend
<1>2. pc = "descend" /\ ~flags.stopped
  BY DEF Descend
<1>3. pc' # "reload"
  BY <1>1, <1>2 DEF Advance, Reach, NextDirection
<1>4. PICK s : s = TriedFlags(v)
  OBVIOUS
<1>5. flags' = s \/ flags' = Solved(s, v)
  BY <1>1, <1>4 DEF Advance, Reach, NextDirection
<1>6. MAX_EXEC_TIMES \in Nat /\ flags.attempts \in Nat /\ flags.attempts <= MAX_EXEC_TIMES
      /\ IsFlags(flags)
  BY <1>2, SearchAssumption DEF Budget, IsFlags
<1>7. Spent(flags, s, 1)
  BY <1>4, <1>6, EvaluatedSpends, CountedSpends DEF TriedFlags
<1>8. /\ IsFlags(s) /\ s.attempts <= MAX_EXEC_TIMES + 1
      /\ ~s.stopped => s.attempts <= MAX_EXEC_TIMES
  BY <1>6, <1>7 DEF Spent, IsFlags
<1>9. IsFlags(Solved(s, v)) /\ Solved(s, v).attempts = s.attempts /\ Solved(s, v).stopped
  BY <1>8, SolvedStops
<1>10. CASE flags' = s
  BY <1>2, <1>3, <1>8, <1>10, StepSpends
<1>11. CASE flags' = Solved(s, v)
  BY <1>2, <1>3, <1>8, <1>9, <1>11, StepSpends
<1> QED
  BY <1>5, <1>10, <1>11

\* The search starts with its budget.
LEMMA BudgetInit == Init => Budget
<1>1. MAX_EXEC_TIMES \in Nat
  BY SearchAssumption
<1> QED
  BY <1>1 DEF Init, Budget, IsFlags

\* Every step keeps the budget.
LEMMA BudgetStep == Budget /\ [Next]_vars => Budget'
<1> SUFFICES ASSUME Budget, [Next]_vars
             PROVE  Budget'
  OBVIOUS
<1>1. CASE UNCHANGED vars
  BY <1>1 DEF vars, Budget, IsFlags
<1>2. CASE Reload
  <2>1. pc = "reload" /\ StartAt(seed) /\ pc' # "reload"
    BY <1>2 DEF Reload
  <2> QED
    BY <2>1, StartSpends DEF Budget
<1>3. CASE PartialDerivative
  BY <1>3, DerivativeSpends
<1>4. CASE Repick
  <2>1. PICK v : StartAt(v)
    BY <1>4 DEF Repick
  <2>2. ~flags.stopped /\ pc' # "reload"
    BY <1>4 DEF Repick, GradientDone
  <2> QED
    BY <2>1, <2>2, StartSpends
<1>5. CASE GiveUp \/ Stop
  <2>1. flags' = flags /\ pc' = "done"
    BY <1>5 DEF GiveUp, Stop
  <2> QED
    BY <2>1 DEF Budget, IsFlags
<1>6. CASE Guess
  BY <1>6, GuessSpends
<1>7. CASE Descend
  BY <1>7, DescendSpends
<1> QED
  BY <1>1, <1>2, <1>3, <1>4, <1>5, <1>6, <1>7 DEF Next

-----------------------------------------------------------------------------
(* The inductive invariant. *)

\* What is reported as solved is met by a point, whose bytes are the solution.
Good(s) == s.solved => \E v \in Points : Met(v) /\ s.solution = add_results(v)

Shape ==
    /\ task \in FinalTasks
    /\ seed \in Points /\ input \in Points /\ scratch \in Points
    /\ f0 \in Nat /\ step \in Nat
    /\ min_distances \in Dists /\ distances \in Dists
    /\ grad \in Gradients
    /\ pc = "descend" => max_val # 0
    /\ pc = "descend" /\ doDelta => index \in DOMAIN grad

Close ==
    /\ pc \in {"gradient", "descend"} /\ ~flags.stopped => Closer(input, min_distances)
    /\ pc = "descend" /\ doDelta /\ ~flags.stopped => Closer(scratch, distances)

SearchInv == Budget /\ Shape /\ Close /\ Good(flags)

-----------------------------------------------------------------------------

\* distance() reports only points that are met.
LEMMA EvaluatedGood ==
    ASSUME NEW s, Good(s), NEW v \in Points
    PROVE  Good(Evaluated(s, v))
<1> DEFINE u == Evaluated(s, v)
<1>1. u.solved = ((s.solved \/ Met(v)) /\ s.attempts + 1 <= MAX_EXEC_TIMES)
      /\ u.solution = (IF Met(v) THEN add_results(v) ELSE s.solution)
  BY DEF Evaluated
<1> HIDE DEF u
<1>2. CASE Met(v)
  BY <1>1, <1>2 DEF Good, u
<1>3. CASE ~Met(v)
  <2>1. u.solution = s.solution /\ (u.solved => s.solved)
    BY <1>1, <1>3, Zenon
  <2> QED
    BY <2>1 DEF Good, u
<1> QED
  BY <1>2, <1>3

\* Counting evaluations reports nothing.
LEMMA CountedGood ==
    ASSUME NEW s, IsFlags(s), Good(s), NEW n
    PROVE  Good(Counted(s, n))
<1>1. DOMAIN s = {"attempts", "stopped", "solved", "solution"} /\ s = [x \in DOMAIN s |-> s[x]]
  BY DEF IsFlags
<1>2. Counted(s, n).solved = s.solved /\ Counted(s, n).solution = s.solution
  BY <1>1 DEF Counted
<1> QED
  BY <1>2 DEF Good

\* descend reports a point that is met.
LEMMA SolvedGood ==
    ASSUME NEW s, IsFlags(s), NEW v \in Points, Met(v)
    PROVE  Good(Solved(s, v))
<1>1. DOMAIN s = {"attempts", "stopped", "solved", "solution"} /\ s = [x \in DOMAIN s |-> s[x]]
  BY DEF IsFlags
<1>2. Solved(s, v).solution = add_results(v)
  BY <1>1 DEF Solved
<1> QED
  BY <1>2 DEF Good

\* What is reported stays so while task and flags stay the same.
LEMMA GoodKept ==
    ASSUME task' = task, Good(flags')
    PROVE  Good(flags)'
<1>1. Points' = Points
  BY DEF Points
<1>2. \A v : Met(v)' = Met(v)
  BY DEF Met, constraints
<1>3. \A v : add_results(v)' = add_results(v)
  BY DEF add_results
<1> QED
  BY <1>1, <1>2, <1>3 DEF Good

\* Distances stay close while the task, the point and they stay the same.
LEMMA CloserKept ==
    ASSUME task' = task
    PROVE  /\ Closer(input', min_distances') => Closer(input, min_distances)'
           /\ Closer(scratch', distances') => Closer(scratch, distances)'
BY DEF Closer, constraints
-----------------------------------------------------------------------------
(* Start points and gradients. *)

\* The shape is kept by a step that leaves the gradient alone.
LEMMA ShapeKept ==
    ASSUME task \in FinalTasks, task' = task, seed' \in Points, input' \in Points, scratch' \in Points,
           f0' \in Nat, step' \in Nat, min_distances' \in Dists, distances' \in Dists, grad' \in Gradients,
           pc' = "descend" => max_val' # 0, pc' = "descend" /\ doDelta' => index' \in DOMAIN grad'
    PROVE  Shape'
<1>1. Points' = Points
  BY DEF Points
<1>2. Dists' = Dists
  BY DEF Dists, constraints
<1>3. Gradients' = Gradients
  BY DEF Gradients
<1>4. (task \in FinalTasks)'
  BY DEF FinalTasks
<1> QED
  BY <1>1, <1>2, <1>3, <1>4 DEF Shape

\* A start point, with try_i2s after it.
LEMMA StartFacts ==
    ASSUME SearchInv, NEW v \in Points, StartAt(v)
    PROVE  /\ input' \in Points /\ scratch' \in Points /\ f0' \in Nat
           /\ min_distances' \in Dists /\ distances' \in Dists
           /\ Closer(input', min_distances') /\ Good(flags')
<1>1. PICK w, best :
        /\ w \in I2STries(v)
        /\ best = IF w[2] /\ Total(AllDistances(w[1])) < Total(AllDistances(v)) THEN w[1] ELSE v
        /\ flags' = IF w[2] THEN Evaluated(Evaluated(flags, v), w[1]) ELSE Evaluated(flags, v)
        /\ input' = best
        /\ scratch' = w[1]
        /\ min_distances' = AllDistances(best)
        /\ distances' = IF w[2] THEN AllDistances(w[1]) ELSE distances
        /\ f0' = Total(AllDistances(best))
  BY Zenon DEF StartAt
<1>2. task \in FinalTasks /\ distances \in Dists /\ Good(flags)
  BY DEF SearchInv, Shape
<1>3. w[1] \in Points
  BY <1>1, <1>2, TriesType
<1>4. best \in Points
  BY <1>1, <1>3
<1>5. AllDistances(best) \in Dists /\ AllDistances(w[1]) \in Dists
  BY <1>2, <1>3, <1>4, AllType
<1>6. Total(AllDistances(best)) \in Nat
  BY <1>2, <1>5, TotalType
<1>7. Closer(best, AllDistances(best))
  BY <1>2, <1>4, OwnDistances
<1>8. Good(flags')
  <2>1. Good(Evaluated(flags, v))
    BY <1>2, EvaluatedGood
  <2>2. Good(Evaluated(Evaluated(flags, v), w[1]))
    BY <1>3, <2>1, EvaluatedGood
  <2> QED
    BY <1>1, <2>1, <2>2
<1>9. distances' \in Dists
  BY <1>1, <1>2, <1>5
<1> QED
  BY <1>1, <1>3, <1>4, <1>5, <1>6, <1>7, <1>8, <1>9

\* The first start point keeps the invariant.
LEMMA ReloadInv ==
    ASSUME SearchInv, Reload
    PROVE  Shape' /\ Close' /\ Good(flags)'
<1>1. seed \in Points /\ task \in FinalTasks /\ step \in Nat /\ grad \in Gradients
  BY DEF SearchInv, Shape
<1>2. StartAt(seed) /\ task' = task /\ seed' = seed /\ grad' = grad /\ step' = step /\ pc' # "descend"
  BY DEF Reload
<1>3. /\ input' \in Points /\ scratch' \in Points /\ f0' \in Nat
      /\ min_distances' \in Dists /\ distances' \in Dists
      /\ Closer(input', min_distances') /\ Good(flags')
  BY <1>1, <1>2, StartFacts
<1>4. Shape'
  BY <1>1, <1>2, <1>3, ShapeKept
<1>5. Close'
  <2>1. Closer(input, min_distances)'
    BY <1>2, <1>3, CloserKept
  <2> QED
    BY <1>2, <2>1 DEF Close
<1>6. Good(flags)'
  BY <1>2, <1>3, GoodKept
<1> QED
  BY <1>4, <1>5, <1>6

\* A random start point keeps the invariant.
LEMMA RepickInv ==
    ASSUME SearchInv, Repick
    PROVE  Shape' /\ Close' /\ Good(flags)'
<1>1. seed \in Points /\ task \in FinalTasks /\ step \in Nat /\ grad \in Gradients
  BY DEF SearchInv, Shape
<1>2. task' = task /\ seed' = seed /\ grad' = grad /\ step' = step /\ pc' # "descend"
  BY DEF Repick, GradientDone
<1>3. PICK v \in [task.offsets -> StartBytes] : StartAt(v)
  BY DEF Repick
<1>4. v \in Points
  <2>1. StartBytes \subseteq Nat
    BY SearchAssumption, Sizes
  <2> QED
    BY <2>1 DEF Points
<1>5. /\ input' \in Points /\ scratch' \in Points /\ f0' \in Nat
      /\ min_distances' \in Dists /\ distances' \in Dists
      /\ Closer(input', min_distances') /\ Good(flags')
  BY <1>3, <1>4, StartFacts
<1>6. Shape'
  BY <1>1, <1>2, <1>5, ShapeKept
<1>7. Close'
  <2>1. Closer(input, min_distances)'
    BY <1>2, <1>5, CloserKept
  <2> QED
    BY <1>2, <2>1 DEF Close
<1>8. Good(flags)'
  BY <1>2, <1>5, GoodKept
<1> QED
  BY <1>6, <1>7, <1>8

\* What one direction of partial_derivative returns.
LEMMA DirectionFacts ==
    ASSUME SearchInv, pc = "gradient", ~flags.stopped, NEW o, NEW up, NEW attempts, NEW d,
           d = Direction(o, up, attempts)
    PROVE  d.point \in Points /\ d.f \in Nat /\ (d.lucky => Closer(d.point, min_distances))
<1>1. task \in FinalTasks /\ input \in Points /\ min_distances \in Dists /\ Closer(input, min_distances)
  BY DEF SearchInv, Shape, Close
<1>2. PICK n \in Probes :
        /\ d.point = Probe(o, up, n)
        /\ d.f = Total(SingleDistances(Probe(o, up, n), o, min_distances))
        /\ d.lucky = (SingleTotal(Probe(o, up, n), o) = 0)
  BY DirectionIs
<1>3. n \in Nat
  BY ProbesAre
<1> DEFINE p == Probe(o, up, n)
<1>4. p \in Points /\ \E x : p = [input EXCEPT ![o] = x]
  BY <1>1, <1>3, ProbeType
<1>5. d.point = p /\ d.f = Total(SingleDistances(p, o, min_distances)) /\ (d.lucky => SingleTotal(p, o) = 0)
  BY <1>2
<1> HIDE DEF p
<1>6. SingleDistances(p, o, min_distances) \in Dists
  BY <1>1, <1>4, SingleType
<1>7. Total(SingleDistances(p, o, min_distances)) \in Nat
  BY <1>1, <1>6, TotalType
<1>8. SingleTotal(p, o) = 0 => Closer(p, min_distances)
  BY <1>1, <1>4, MovedByte
<1> QED
  BY <1>4, <1>5, <1>7, <1>8

\* The gradient of a byte is a sign and a natural number.
LEMMA SlopeType ==
    ASSUME NEW a \in Nat, NEW b \in Nat, f0 \in Nat
    PROVE  Slope(a, b) \in [sign : BOOLEAN, val : Nat]
<1>1. (b < f0 => f0 - b \in Nat) /\ (a < f0 => f0 - a \in Nat)
  OBVIOUS
<1> QED
  BY <1>1 DEF Slope

\* partial_derivative keeps the invariant, a byte that a lucky probe has moved included.
LEMMA DerivativeInv ==
    ASSUME SearchInv, PartialDerivative
    PROVE  Shape' /\ Close' /\ Good(flags)'
<1>1. /\ task \in FinalTasks /\ seed \in Points /\ input \in Points /\ scratch \in Points
      /\ f0 \in Nat /\ step \in Nat /\ min_distances \in Dists /\ distances \in Dists
      /\ grad \in Gradients /\ IsFlags(flags) /\ Good(flags)
      /\ flags.attempts \in Nat /\ flags.attempts <= MAX_EXEC_TIMES
  BY DEF SearchInv, Shape, Budget, IsFlags, PartialDerivative
<1>2. /\ pc = "gradient" /\ ~flags.stopped /\ pc' = "gradient"
      /\ UNCHANGED <<task, seed, scratch, f0, min_distances, distances, step>>
  BY DEF PartialDerivative
<1>3. Closer(input, min_distances)
  BY <1>2 DEF SearchInv, Close
<1>4. PICK plus, s, minus, t :
        /\ plus = Direction(Offset(index), TRUE, flags.attempts)
        /\ s = Counted(flags, plus.count)
        /\ minus = Direction(Offset(index), FALSE, s.attempts)
        /\ t = Counted(s, minus.count)
        /\ \/ /\ plus.lucky \/ s.stopped
              /\ grad' \in {[grad EXCEPT ![index] = [sign |-> up, val |-> 0]] : up \in BOOLEAN}
              /\ input' = plus.point
              /\ flags' = s
           \/ /\ ~s.stopped
              /\ minus.lucky \/ t.stopped
              /\ grad' = [grad EXCEPT ![index] = [sign |-> FALSE, val |-> 0]]
              /\ input' = minus.point
              /\ flags' = t
           \/ /\ ~s.stopped
              /\ grad' = [grad EXCEPT ![index] = Slope(plus.f, minus.f)]
              /\ input' = input
              /\ flags' = t
  BY Zenon DEF PartialDerivative
<1>5. plus.point \in Points /\ plus.f \in Nat /\ (plus.lucky => Closer(plus.point, min_distances))
  BY <1>2, <1>4, DirectionFacts
<1>6. minus.point \in Points /\ minus.f \in Nat /\ (minus.lucky => Closer(minus.point, min_distances))
  BY <1>2, <1>4, DirectionFacts
<1>7. IsFlags(s) /\ Good(s)
  <2>1. plus.count \in Nat
    BY <1>1, <1>4, DirectionCounts
  <2>2. Spent(flags, s, plus.count)
    BY <1>1, <1>4, <2>1, CountedSpends
  <2> QED
    BY <1>1, <1>4, <2>2, CountedGood DEF Spent
<1>8. Good(t)
  BY <1>4, <1>7, CountedGood
<1>9. input' \in Points /\ Good(flags')
  BY <1>1, <1>4, <1>5, <1>6, <1>7, <1>8
<1>10. grad' \in Gradients
  <2>1. \A x \in [sign : BOOLEAN, val : Nat] : [grad EXCEPT ![index] = x] \in Gradients
    BY <1>1 DEF Gradients
  <2>2. \A up \in BOOLEAN : [sign |-> up, val |-> 0] \in [sign : BOOLEAN, val : Nat]
    OBVIOUS
  <2>3. Slope(plus.f, minus.f) \in [sign : BOOLEAN, val : Nat]
    BY <1>1, <1>5, <1>6, SlopeType
  <2>4. \E x \in [sign : BOOLEAN, val : Nat] : grad' = [grad EXCEPT ![index] = x]
    <3>1. [sign |-> FALSE, val |-> 0] \in [sign : BOOLEAN, val : Nat]
      OBVIOUS
    <3> QED
      BY <1>4, <2>2, <2>3, <3>1, Zenon
  <2> QED
    BY <2>1, <2>4
<1>11. ~flags'.stopped => Closer(input', min_distances')
  BY <1>2, <1>3, <1>4, <1>5, <1>6
<1>12. Shape'
  BY <1>1, <1>2, <1>9, <1>10, ShapeKept
<1>13. Close'
  <2>1. ~flags'.stopped => Closer(input, min_distances)'
    BY <1>2, <1>11, CloserKept
  <2> QED
    BY <1>2, <2>1 DEF Close
<1>14. Good(flags)'
  BY <1>2, <1>9, GoodKept
<1> QED
  BY <1>12, <1>13, <1>14
-----------------------------------------------------------------------------
(* descend. *)

\* The largest gradient changes with the gradient only.
LEMMA SameGradient ==
    ASSUME grad' = grad
    PROVE  max_val' = max_val
BY DEF max_val, Vals

\* The first guess of descend keeps the invariant.
LEMMA GuessInv ==
    ASSUME SearchInv, Guess
    PROVE  Shape' /\ Close' /\ Good(flags)'
<1>1. /\ task \in FinalTasks /\ seed \in Points /\ input \in Points /\ scratch \in Points
      /\ f0 \in Nat /\ min_distances \in Dists /\ distances \in Dists
      /\ grad \in Gradients /\ IsFlags(flags) /\ Good(flags)
  BY DEF SearchInv, Shape, Budget
<1>2. /\ pc = "gradient" /\ ~flags.stopped /\ max_val # 0 /\ pc' = "descend" /\ step' = 1 /\ ~doDelta'
      /\ task' = task /\ seed' = seed /\ grad' = grad
  BY DEF Guess, GradientDone
<1>3. Closer(input, min_distances)
  BY <1>2 DEF SearchInv, Close
<1> DEFINE v == MovedAll(input, f0 \div val_sum)
           s == Evaluated(flags, v)
<1>4. \/ /\ input' = input /\ scratch' = input /\ min_distances' = min_distances /\ f0' = f0 /\ flags' = flags
         /\ distances' = min_distances
      \/ /\ val_sum # 0
         /\ distances' = AllDistances(v)
         /\ \/ flags' = s /\ scratch' = input /\ input' = input /\ min_distances' = min_distances /\ f0' = f0
            \/ /\ Total(AllDistances(v)) = 0
               /\ flags' = Solved(s, v) /\ scratch' = v /\ f0' = 0
               /\ input' = input /\ min_distances' = min_distances
            \/ /\ flags' = s /\ scratch' = v /\ input' = v
               /\ f0' = Total(AllDistances(v)) /\ min_distances' = AllDistances(v)
  BY Zenon DEF Guess
<1>5. CASE /\ input' = input /\ scratch' = input /\ min_distances' = min_distances /\ f0' = f0
           /\ flags' = flags /\ distances' = min_distances
  <2>1. Shape'
    BY <1>1, <1>2, <1>5, ShapeKept, SameGradient
  <2>2. Close'
    <3>1. Closer(input, min_distances)'
      BY <1>2, <1>3, <1>5, CloserKept
    <3> QED
      BY <1>2, <3>1 DEF Close
  <2>3. Good(flags)'
    BY <1>1, <1>2, <1>5, GoodKept
  <2> QED
    BY <2>1, <2>2, <2>3
<1>6. ASSUME val_sum # 0
      PROVE  /\ v \in Points /\ AllDistances(v) \in Dists /\ Total(AllDistances(v)) \in Nat
             /\ Closer(v, AllDistances(v)) /\ IsFlags(s) /\ Good(s)
             /\ Total(AllDistances(v)) = 0 => Good(Solved(s, v))
  <2>1. val_sum \in Nat
    BY <1>1, GradientFacts
  <2>2. f0 \div val_sum \in Nat
    BY <1>1, <1>6, <2>1, Division
  <2>3. v \in Points
    BY <1>1, <1>2, <2>2, MovedAllType
  <2> HIDE DEF v
  <2>4. AllDistances(v) \in Dists
    BY <1>1, <2>3, AllType
  <2>5. Total(AllDistances(v)) \in Nat
    BY <1>1, <2>4, TotalType
  <2>6. Closer(v, AllDistances(v)) /\ (Total(AllDistances(v)) = 0 => Met(v))
    BY <1>1, <2>3, OwnDistances
  <2>7. IsFlags(s) /\ Good(s)
    BY <1>1, <2>3, EvaluatedSpends, EvaluatedGood DEF Spent
  <2>8. Total(AllDistances(v)) = 0 => Good(Solved(s, v))
    BY <2>3, <2>6, <2>7, SolvedGood
  <2> QED
    BY <2>3, <2>4, <2>5, <2>6, <2>7, <2>8
<1> HIDE DEF v, s
<1>7. CASE /\ val_sum # 0
           /\ distances' = AllDistances(v)
           /\ \/ flags' = s /\ scratch' = input /\ input' = input /\ min_distances' = min_distances /\ f0' = f0
              \/ /\ Total(AllDistances(v)) = 0
                 /\ flags' = Solved(s, v) /\ scratch' = v /\ f0' = 0
                 /\ input' = input /\ min_distances' = min_distances
              \/ /\ flags' = s /\ scratch' = v /\ input' = v
                 /\ f0' = Total(AllDistances(v)) /\ min_distances' = AllDistances(v)
  <2>1. Good(flags')
    BY <1>6, <1>7
  <2>2. /\ input' \in Points /\ scratch' \in Points /\ f0' \in Nat
        /\ min_distances' \in Dists /\ distances' \in Dists
    BY <1>1, <1>6, <1>7
  <2>3. Closer(input', min_distances')
    BY <1>3, <1>6, <1>7
  <2>4. Shape'
    BY <1>1, <1>2, <2>2, ShapeKept, SameGradient
  <2>5. Close'
    <3>1. Closer(input, min_distances)'
      BY <1>2, <2>3, CloserKept
    <3> QED
      BY <1>2, <3>1 DEF Close
  <2>6. Good(flags)'
    BY <1>2, <2>1, GoodKept
  <2> QED
    BY <2>4, <2>5, <2>6
<1> QED
  BY <1>4, <1>5, <1>7

\* The point that descend tries, its distances and its flags.
LEMMA TriedFacts ==
    ASSUME SearchInv, pc = "descend", ~flags.stopped, NEW v, v = Tried, NEW ds, ds = TriedDistances(v)
    PROVE  /\ v \in Points /\ ds \in Dists /\ Closer(v, ds)
           /\ IsFlags(TriedFlags(v)) /\ Good(TriedFlags(v))
           /\ Total(ds) \in Nat
           /\ Total(ds) = 0 /\ ~DoneWithByte(v) => Met(v)
<1>1. /\ task \in FinalTasks /\ scratch \in Points /\ step \in Nat /\ distances \in Dists
      /\ grad \in Gradients /\ IsFlags(flags) /\ Good(flags) /\ max_val # 0
  BY DEF SearchInv, Shape, Budget
<1>2. CASE doDelta
  <2> DEFINE o == Offset(index)
  <2>1. index \in DOMAIN grad /\ Closer(scratch, distances)
    BY <1>2 DEF SearchInv, Shape, Close
  <2>2. v = Moved(scratch, index, step)
    BY <1>2 DEF Tried
  <2>3. v \in Points /\ \E x : v = [scratch EXCEPT ![o] = x]
    <3> DEFINE p == Moved(scratch, index, step)
    <3>1. p \in Points /\ \E x : p = [scratch EXCEPT ![o] = x]
      BY <1>1, <2>1, MovedType, Zenon
    <3> HIDE DEF p
    <3> QED
      BY <2>2, <3>1 DEF p
  <2>4. ds = SingleDistances(v, o, distances)
    BY <1>2 DEF TriedDistances
  <2>5. ds \in Dists
    BY <1>1, <2>3, <2>4, SingleType
  <2>6. Closer(v, ds)
    <3>1. PICK x : v = [scratch EXCEPT ![o] = x]
      BY <2>3
    <3> HIDE DEF o
    <3>2. Closer(v, SingleDistances(v, o, distances))
      BY <1>1, <2>1, <2>3, <3>1, MovedByte
    <3> QED
      BY <2>4, <3>2
  <2>7. IsFlags(TriedFlags(v)) /\ Good(TriedFlags(v))
    <3>1. TriedFlags(v) = Counted(flags, 1)
      BY <1>2 DEF TriedFlags
    <3> QED
      BY <1>1, <3>1, CountedSpends, CountedGood DEF Spent
  <2>8. Total(ds) \in Nat /\ (Total(ds) = 0 => \A i \in DOMAIN constraints : ds[i] = 0)
    BY <1>1, <2>5, TotalType
  <2>9. ASSUME Total(ds) = 0
        PROVE  DoneWithByte(v)
    <3> DEFINE ss == [i \in DOMAIN constraints |->
                        IF i \in task.cmap[o] THEN DistanceOf(constraints[i], v) ELSE 0]
    <3>1. \A i \in DOMAIN constraints :
            ds[i] = IF i \in task.cmap[o] THEN DistanceOf(constraints[i], v) ELSE distances[i]
      BY <2>4 DEF SingleDistances
    <3>2. \A i \in DOMAIN constraints : (IF i \in task.cmap[o] THEN DistanceOf(constraints[i], v) ELSE 0) = 0
      BY <2>8, <2>9, <3>1
    <3>3. ss = [i \in DOMAIN constraints |-> 0]
      BY <3>2
    <3>4. SingleTotal(v, o) = Total(ss)
      BY DEF SingleTotal
    <3> HIDE DEF ss
    <3>5. Total([i \in DOMAIN constraints |-> 0]) = 0
      BY <1>1, TotalZero
    <3> QED
      BY <1>2, <3>3, <3>4, <3>5 DEF DoneWithByte
  <2> QED
    BY <2>3, <2>5, <2>6, <2>7, <2>8, <2>9
<1>3. CASE ~doDelta
  <2>1. v = MovedAll(scratch, step)
    BY <1>3 DEF Tried
  <2>2. v \in Points
    BY <1>1, <2>1, MovedAllType
  <2>3. ds = AllDistances(v)
    BY <1>3 DEF TriedDistances
  <2>4. ds \in Dists
    BY <1>1, <2>2, <2>3, AllType
  <2>5. Closer(v, ds) /\ (Total(ds) = 0 => Met(v))
    BY <1>1, <2>2, <2>3, OwnDistances
  <2>6. IsFlags(TriedFlags(v)) /\ Good(TriedFlags(v))
    <3>1. TriedFlags(v) = Evaluated(flags, v)
      BY <1>3 DEF TriedFlags
    <3> QED
      BY <1>1, <2>2, <3>1, EvaluatedSpends, EvaluatedGood DEF Spent
  <2>7. Total(ds) \in Nat
    BY <1>1, <2>4, TotalType
  <2> QED
    BY <2>2, <2>4, <2>5, <2>6, <2>7
<1> QED
  BY <1>2, <1>3

\* The byte that descend moves next.
LEMMA NextByteIs ==
    ASSUME task \in FinalTasks, grad \in Gradients, NEW i, NEW k, k = NextByte(i), ~(k > Len(grad))
    PROVE  k \in DOMAIN grad
<1>1. Len(grad) \in Nat /\ DOMAIN grad = 1 .. Len(grad)
  BY GradientFacts
<1> DEFINE S == {h \in DOMAIN grad : h >= i /\ grad[h].val * 100 >= max_val}
<1>2. S \subseteq DOMAIN grad
  OBVIOUS
<1> HIDE DEF S
<1>3. S \cup {Len(grad) + 1} \subseteq Nat /\ S \cup {Len(grad) + 1} # {}
  BY <1>1, <1>2
<1>4. Min(S \cup {Len(grad) + 1}) \in S \cup {Len(grad) + 1}
  BY <1>3, MinIs
<1>5. k \in S \cup {Len(grad) + 1}
  BY <1>4 DEF NextByte, S
<1> QED
  BY <1>1, <1>2, <1>5

\* A step of descend keeps the invariant.
LEMMA DescendInv ==
    ASSUME SearchInv, Descend
    PROVE  Shape' /\ Close' /\ Good(flags)'
<1>1. PICK v, ds : /\ v = Tried /\ ds = TriedDistances(v)
                   /\ Advance(v, ds) \/ Reach(v, ds) \/ NextDirection(v, ds)
  BY Zenon DEF Descend
<1>2. pc = "descend" /\ ~flags.stopped /\ task' = task /\ seed' = seed /\ grad' = grad
  BY DEF Descend
<1>3. /\ task \in FinalTasks /\ seed \in Points /\ input \in Points /\ scratch \in Points
      /\ f0 \in Nat /\ step \in Nat /\ min_distances \in Dists /\ distances \in Dists
      /\ grad \in Gradients /\ max_val # 0 /\ (doDelta => index \in DOMAIN grad)
      /\ Closer(input, min_distances)
  BY <1>2 DEF SearchInv, Shape, Close
<1>4. /\ v \in Points /\ ds \in Dists /\ Closer(v, ds)
      /\ IsFlags(TriedFlags(v)) /\ Good(TriedFlags(v))
      /\ Total(ds) \in Nat
      /\ Total(ds) = 0 /\ ~DoneWithByte(v) => Met(v)
  BY <1>1, <1>2, TriedFacts
<1>5. max_val' # 0
  BY <1>2, <1>3, SameGradient
<1>6. Wrap(step * 2) \in Nat
  BY <1>3, WrapNat
<1>7. CASE Advance(v, ds)
  <2>1. /\ input' = v /\ scratch' = v /\ distances' = ds /\ min_distances' = ds /\ f0' = Total(ds)
        /\ step' = Wrap(step * 2) /\ flags' = TriedFlags(v) /\ index' = index /\ doDelta' = doDelta
    BY <1>7 DEF Advance
  <2>2. Shape'
    BY <1>2, <1>3, <1>4, <1>5, <1>6, <2>1, ShapeKept
  <2>3. Closer(input, min_distances)' /\ Closer(scratch, distances)'
    BY <1>2, <1>4, <2>1, CloserKept
  <2>4. Good(flags)'
    BY <1>2, <1>4, <2>1, GoodKept
  <2> QED
    BY <2>2, <2>3, <2>4 DEF Close
<1>8. CASE Reach(v, ds)
  <2>1. /\ scratch' = v /\ distances' = ds /\ f0' = 0 /\ flags' = Solved(TriedFlags(v), v)
        /\ input' = input /\ min_distances' = min_distances /\ index' = index /\ step' = step
        /\ doDelta' = doDelta /\ Total(ds) = 0 /\ ~DoneWithByte(v)
    BY <1>8 DEF Reach
  <2>2. Shape'
    BY <1>2, <1>3, <1>4, <1>5, <2>1, ShapeKept
  <2>3. flags'.stopped
    BY <1>4, <2>1, SolvedStops
  <2>4. Good(flags')
    BY <1>4, <2>1, SolvedGood
  <2>5. Good(flags)'
    BY <1>2, <2>4, GoodKept
  <2> QED
    BY <2>2, <2>3, <2>5 DEF Close
<1>9. CASE NextDirection(v, ds)
  <2>1. PICK k : /\ k = NextByte(IF doDelta THEN index + 1 ELSE 1)
                 /\ \/ /\ pc' = "gradient" /\ scratch' = v /\ distances' = ds
                       /\ step' = step
                    \/ /\ ~(k > Len(grad)) /\ index' = k /\ doDelta' = TRUE
                       /\ scratch' = input /\ distances' = min_distances /\ step' = 1
    BY <1>9, Zenon DEF NextDirection
  <2>2. flags' = TriedFlags(v) /\ input' = input /\ f0' = f0 /\ min_distances' = min_distances
    BY <1>9 DEF NextDirection
  <2>3. Good(flags)'
    BY <1>2, <1>4, <2>2, GoodKept
  <2>4. Closer(input, min_distances)'
    BY <1>2, <1>3, <2>2, CloserKept
  <2>5. CASE pc' = "gradient" /\ scratch' = v /\ distances' = ds /\ step' = step
    <3>1. Shape'
      BY <1>2, <1>3, <1>4, <1>5, <2>2, <2>5, ShapeKept
    <3> QED
      BY <2>3, <2>4, <2>5, <3>1 DEF Close
  <2>6. CASE /\ ~(k > Len(grad)) /\ index' = k /\ doDelta' = TRUE
             /\ scratch' = input /\ distances' = min_distances /\ step' = 1
    <3>1. k \in DOMAIN grad
      BY <1>3, <2>1, <2>6, NextByteIs
    <3>2. Shape'
      BY <1>2, <1>3, <1>5, <2>2, <2>6, <3>1, ShapeKept
    <3>3. Closer(scratch, distances)'
      BY <1>2, <1>3, <2>6, CloserKept
    <3> QED
      BY <2>3, <2>4, <3>2, <3>3 DEF Close
  <2> QED
    BY <2>1, <2>5, <2>6
<1> QED
  BY <1>1, <1>7, <1>8, <1>9
-----------------------------------------------------------------------------
(* The search. *)

\* The search starts in the invariant.
LEMMA SearchInit == Init => SearchInv
<1> SUFFICES ASSUME Init
             PROVE  SearchInv
  OBVIOUS
<1>1. /\ task \in FinalTasks /\ seed \in [task.offsets -> StartBytes] /\ pc = "reload"
      /\ input = seed /\ scratch = seed /\ f0 = 0 /\ step = 1
      /\ min_distances = [i \in DOMAIN constraints |-> 0] /\ distances = min_distances
      /\ grad = [i \in DOMAIN task.inputs |-> [sign |-> FALSE, val |-> 0]]
      /\ flags = [attempts |-> 0, stopped |-> FALSE, solved |-> FALSE, solution |-> <<>>]
  BY DEF Init
<1>2. seed \in Points
  <2>1. StartBytes \subseteq Nat
    BY SearchAssumption, Sizes
  <2> QED
    BY <1>1, <2>1 DEF Points
<1>3. min_distances \in Dists
  BY <1>1 DEF Dists
<1>4. grad \in Gradients
  BY <1>1 DEF Gradients
<1>5. Good(flags)
  BY <1>1 DEF Good
<1>6. Budget
  BY BudgetInit
<1> QED
  BY <1>1, <1>2, <1>3, <1>4, <1>5, <1>6 DEF SearchInv, Shape, Close

\* Every step keeps the invariant.
LEMMA SearchStep == SearchInv /\ [Next]_vars => SearchInv'
<1> SUFFICES ASSUME SearchInv, [Next]_vars
             PROVE  SearchInv'
  OBVIOUS
<1>1. Budget'
  BY BudgetStep DEF SearchInv
<1>2. Shape' /\ Close' /\ Good(flags)'
  <2>1. CASE UNCHANGED vars
    <3>1. Shape'
      BY <2>1 DEF vars, SearchInv, Shape, Points, Dists, Gradients, FinalTasks, constraints, max_val, Vals
    <3>2. Close'
      BY <2>1, CloserKept DEF vars, SearchInv, Close
    <3>3. Good(flags)'
      BY <2>1, GoodKept DEF vars, SearchInv
    <3> QED
      BY <3>1, <3>2, <3>3
  <2>2. CASE GiveUp \/ Stop
    <3>1. /\ task' = task /\ seed' = seed /\ input' = input /\ scratch' = scratch /\ f0' = f0
          /\ min_distances' = min_distances /\ distances' = distances /\ grad' = grad /\ step' = step
          /\ flags' = flags /\ pc' = "done"
      BY <2>2 DEF GiveUp, Stop
    <3>2. Shape'
      BY <3>1, ShapeKept DEF SearchInv, Shape
    <3>3. Close'
      BY <3>1 DEF Close
    <3>4. Good(flags)'
      BY <3>1, GoodKept DEF SearchInv
    <3> QED
      BY <3>2, <3>3, <3>4
  <2>3. CASE Reload
    BY <2>3, ReloadInv
  <2>4. CASE PartialDerivative
    BY <2>4, DerivativeInv
  <2>5. CASE Repick
    BY <2>5, RepickInv
  <2>6. CASE Guess
    BY <2>6, GuessInv
  <2>7. CASE Descend
    BY <2>7, DescendInv
  <2> QED
    BY <2>1, <2>2, <2>3, <2>4, <2>5, <2>6, <2>7 DEF Next
<1> QED
  BY <1>1, <1>2 DEF SearchInv

\* The budget of evaluations is exceeded by two at most, on every path through gd_entry,
\* cal_gradient and descend and for every budget (distance, partial_derivative).
THEOREM BudgetIsKept == Spec => []WithinBudget
<1>1. Budget => WithinBudget
  BY DEF Budget, WithinBudget
<1> QED
  BY <1>1, BudgetInit, BudgetStep, PTL DEF Spec

\* Along every search, through probes that are not undone, dropped steps, random
\* restarts and input-to-state copies, the point is one of words, its distances are
\* not optimistic, and what is marked as solved is the image of a point at distance
\* zero (gd_entry, try_i2s, cal_gradient, descend).
THEOREM SearchInvariant == Spec => []SearchInv
BY SearchInit, SearchStep, PTL DEF Spec

\* For all tasks and sizes the distances that gd_entry and descend compare with are no
\* better than the point they are about, although partial_derivative moves bytes of
\* the best point and leaves its distances as they were.
THEOREM NeverOptimistic == Spec => []NotOptimistic
<1>1. SearchInv => NotOptimistic
  BY DEF SearchInv, Close, Closer, NotOptimistic
<1> QED
  BY <1>1, SearchInvariant, PTL
-----------------------------------------------------------------------------
(* The reads of a task whose reads are apart. *)

\* The reads of a task lie within its offsets, and cover them.
LEMMA AllReadsFacts ==
    ASSUME NEW cs \in Tasks, NEW t, t = finalize(cs)
    PROVE  /\ \A r \in AllReads(cs) : /\ r \in Nat \X (Nat \ {0})
                                      /\ r[1] \in Bytes(r)
                                      /\ Bytes(r) \subseteq t.offsets
           /\ \A o \in t.offsets : \E r \in AllReads(cs) : o \in Bytes(r)
           /\ \A i \in DOMAIN cs : Reads(cs[i]) \subseteq AllReads(cs)
<1>1. IsFinal(cs, t)
  BY FinalFacts
<1>2. /\ \A i \in DOMAIN cs : IsConstraint(cs[i]) /\ Offsets(cs[i]) \subseteq t.offsets
      /\ t.offsets = UNION {Offsets(cs[i]) : i \in DOMAIN cs}
  BY <1>1 DEF IsFinal
<1>3. \A i \in DOMAIN cs : Reads(cs[i]) \subseteq AllReads(cs)
  BY DEF AllReads
<1>4. ASSUME NEW r \in AllReads(cs)
      PROVE  r \in Nat \X (Nat \ {0}) /\ r[1] \in Bytes(r) /\ Bytes(r) \subseteq t.offsets
  <2>1. PICK i \in DOMAIN cs : r \in Reads(cs[i])
    BY DEF AllReads
  <2>2. r \in Nat \X (Nat \ {0}) /\ r[1] .. r[1] + r[2] - 1 \subseteq Offsets(cs[i])
    BY <1>2, <2>1, ReadsWithin
  <2>3. r[1] \in r[1] .. r[1] + r[2] - 1
    BY <2>2
  <2> QED
    BY <1>2, <2>2, <2>3 DEF Bytes
<1>5. ASSUME NEW o \in t.offsets
      PROVE  \E r \in AllReads(cs) : o \in Bytes(r)
  <2>1. PICK i \in DOMAIN cs : o \in Offsets(cs[i])
    BY <1>2
  <2>2. PICK r \in Reads(cs[i]) : o \in r[1] .. r[1] + r[2] - 1
    BY <2>1 DEF Offsets
  <2> QED
    BY <1>3, <2>2 DEF Bytes
<1> QED
  BY <1>3, <1>4, <1>5

\* The first constraint with an offset reads it.
LEMMA FirstReads ==
    ASSUME NEW cs \in Tasks, NEW t, t = finalize(cs), NEW o \in t.offsets
    PROVE  FirstWith(cs, o) \in DOMAIN cs /\ o \in Offsets(cs[FirstWith(cs, o)])
<1> DEFINE S == {i \in DOMAIN cs : o \in Offsets(cs[i])}
<1>1. IsFinal(cs, t)
  BY FinalFacts
<1>2. S \subseteq Nat /\ S # {}
  BY <1>1 DEF IsFinal
<1> HIDE DEF S
<1>3. Min(S) \in S
  BY <1>2, MinIs
<1>4. FirstWith(cs, o) = Min(S)
  BY DEF FirstWith, S
<1> QED
  BY <1>3, <1>4 DEF S

\* The shape of an offset is the length of the read that starts there.
LEMMA ShapeIs ==
    ASSUME NEW cs \in Tasks, NEW t, t = finalize(cs), Apart(cs)
    PROVE  /\ \A r \in AllReads(cs) : ShapeOf(cs, r[1]) = r[2]
           /\ \A o \in t.offsets : (\A r \in AllReads(cs) : r[1] # o) => ShapeOf(cs, o) = 0
<1> DEFINE First(o) == Reads(cs[FirstWith(cs, o)])
           Lens(o) == {r[2] : r \in {q \in First(o) : q[1] = o}}
<1>1. \A o : ShapeOf(cs, o) = IF Lens(o) = {} THEN 0 ELSE Max(Lens(o))
  BY DEF ShapeOf
<1>2. \A o \in t.offsets : First(o) \subseteq AllReads(cs)
  BY FirstReads, AllReadsFacts
<1>3. ASSUME NEW r \in AllReads(cs)
      PROVE  ShapeOf(cs, r[1]) = r[2]
  <2>1. r \in Nat \X (Nat \ {0}) /\ r[1] \in Bytes(r) /\ r[1] \in t.offsets
    BY AllReadsFacts
  <2>2. FirstWith(cs, r[1]) \in DOMAIN cs /\ r[1] \in Offsets(cs[FirstWith(cs, r[1])])
    BY <2>1, FirstReads
  <2>3. PICK q \in First(r[1]) : r[1] \in Bytes(q)
    BY <2>2 DEF Offsets, Bytes
  <2>4. q \in AllReads(cs)
    BY <1>2, <2>1
  <2>5. q = r
    BY <2>1, <2>3, <2>4 DEF Apart
  <2>6. \A p \in First(r[1]) : p[1] = r[1] => p = r
    <3> SUFFICES ASSUME NEW p \in First(r[1]), p[1] = r[1]
                 PROVE  p = r
      OBVIOUS
    <3>1. p \in AllReads(cs)
      BY <1>2, <2>1
    <3>2. p[1] \in Bytes(p)
      BY <3>1, AllReadsFacts
    <3> QED
      BY <2>1, <3>1, <3>2 DEF Apart
  <2>7. Lens(r[1]) = {r[2]}
    BY <2>3, <2>5, <2>6
  <2>8. Max({r[2]}) = r[2]
    <3>1. r[2] \in Nat /\ {r[2]} \subseteq Nat /\ IsFiniteSet({r[2]})
      BY <2>1, FS_Singleton
    <3>2. Max({r[2]}) \in {r[2]}
      BY <3>1, MaxIs
    <3> QED
      BY <3>2
  <2> HIDE DEF Lens
  <2> QED
    BY <1>1, <2>7, <2>8
<1>4. ASSUME NEW o \in t.offsets, \A r \in AllReads(cs) : r[1] # o
      PROVE  ShapeOf(cs, o) = 0
  <2>1. Lens(o) = {}
    BY <1>2, <1>4
  <2> HIDE DEF Lens
  <2> QED
    BY <1>1, <2>1
<1> QED
  BY <1>3, <1>4

-----------------------------------------------------------------------------
(* The pieces that add_results puts together. *)

PieceNext(cs, all, before, o) ==
    IF o \notin all \/ o < before.end \/ ShapeOf(cs, o) = 0 THEN before
    ELSE [end |-> o + ShapeOf(cs, o), reads |-> before.reads \cup {<<o, ShapeOf(cs, o)>>}]

PieceStep(cs, all, u, n) ==
    IF n = 0 THEN [end |-> 0, reads |-> {}] ELSE PieceNext(cs, all, u[n - 1], n - 1)

\* The recursion of Pieces has a solution.
LEMMA PieceExists ==
    ASSUME NEW cs, NEW all, NEW n \in Nat
    PROVE  \E u : u = [i \in 0 .. n |-> PieceStep(cs, all, u, i)]
<1> DEFINE Exists(m) == \E u : u = [i \in 0 .. m |-> PieceStep(cs, all, u, i)]
           V == {m \in Nat : Exists(m)}
<1>1. 0 \in V
  <2> DEFINE z == [i \in 0 .. 0 |-> [end |-> 0, reads |-> {}]]
  <2>1. z = [i \in 0 .. 0 |-> PieceStep(cs, all, z, i)]
    BY DEF PieceStep
  <2> HIDE DEF z
  <2>2. Exists(0)
    BY <2>1
  <2> QED
    BY <2>2
<1>2. ASSUME NEW m \in 1 .. n, m - 1 \in V
      PROVE  m \in V
  <2>1. PICK s : s = [i \in 0 .. m - 1 |-> PieceStep(cs, all, s, i)]
    BY <1>2
  <2> DEFINE t == [i \in 0 .. m |-> PieceStep(cs, all, s, i)]
  <2>2. \A i \in 0 .. m - 1 : s[i] = PieceStep(cs, all, s, i)
    BY <2>1, Zenon
  <2>3. ASSUME NEW i \in 0 .. m - 1
        PROVE  t[i] = s[i]
    <3>1. i \in 0 .. m
      OBVIOUS
    <3>2. t[i] = PieceStep(cs, all, s, i)
      BY <3>1
    <3> QED
      BY <2>2, <3>2
  <2>4. ASSUME NEW i \in 0 .. m
        PROVE  PieceStep(cs, all, s, i) = PieceStep(cs, all, t, i)
    <3>1. i # 0 => s[i - 1] = t[i - 1]
      <4>1. i # 0 => i - 1 \in 0 .. m - 1
        OBVIOUS
      <4> HIDE DEF t
      <4> QED
        BY <2>3, <4>1
    <3> HIDE DEF t
    <3> QED
      BY <3>1 DEF PieceStep
  <2>5. t = [i \in 0 .. m |-> PieceStep(cs, all, t, i)]
    BY <2>4
  <2> HIDE DEF t
  <2>6. Exists(m)
    BY <2>5
  <2>7. m \in Nat
    OBVIOUS
  <2> QED
    BY <2>6, <2>7
<1> HIDE DEF V
<1>3. \A m \in 0 .. n : m \in V
  BY <1>1, <1>2, Climbs
<1>4. n \in V
  BY <1>3
<1> QED
  BY <1>4 DEF V

\* The pieces, offset by offset.
LEMMA PieceRuns ==
    ASSUME NEW cs, NEW all, NEW n \in Nat, n = Max(all) + 1
    PROVE  \E u : /\ Pieces(cs, all) = u[n].reads
                  /\ u[0] = [end |-> 0, reads |-> {}]
                  /\ \A i \in 1 .. n : u[i] = PieceNext(cs, all, u[i - 1], i - 1)
<1> DEFINE upto[i \in 0 .. Max(all) + 1] ==
            IF i = 0 THEN [end |-> 0, reads |-> {}]
            ELSE LET before == upto[i - 1]
                     len == ShapeOf(cs, i - 1)
                 IN  IF i - 1 \notin all \/ i - 1 < before.end \/ len = 0 THEN before
                     ELSE [end |-> i - 1 + len, reads |-> before.reads \cup {<<i - 1, len>>}]
<1>1. Pieces(cs, all) = upto[Max(all) + 1].reads
  BY DEF Pieces
<1>2. upto = CHOOSE u : u = [i \in 0 .. Max(all) + 1 |-> PieceStep(cs, all, u, i)]
  BY DEF PieceStep, PieceNext
<1> HIDE DEF upto
<1>3. upto = CHOOSE u : u = [i \in 0 .. n |-> PieceStep(cs, all, u, i)]
  BY <1>2
<1>4. PICK u : u = [i \in 0 .. n |-> PieceStep(cs, all, u, i)]
  BY PieceExists
<1>5. upto = [i \in 0 .. n |-> PieceStep(cs, all, upto, i)]
  BY <1>3, <1>4
<1>6. \A i \in 0 .. n : upto[i] = PieceStep(cs, all, upto, i)
  BY <1>5, Zenon
<1>7. upto[0] = [end |-> 0, reads |-> {}]
  BY <1>6 DEF PieceStep
<1>8. \A i \in 1 .. n : upto[i] = PieceNext(cs, all, upto[i - 1], i - 1)
  BY <1>6 DEF PieceStep
<1> QED
  BY <1>1, <1>7, <1>8
-----------------------------------------------------------------------------
(* Pieces and digits. *)

\* The pieces are the reads.
LEMMA PiecesAre ==
    ASSUME NEW cs \in Tasks, NEW t, t = finalize(cs), Apart(cs)
    PROVE  t.pieces = AllReads(cs)
<1> DEFINE all == t.offsets
           A == AllReads(cs)
           n == Max(all) + 1
<1>1. /\ t.pieces = Pieces(cs, all)
      /\ IsFiniteSet(all) /\ all \subseteq Nat /\ all # {}
  BY FinalFacts DEF IsFinal
<1>2. Max(all) \in Nat /\ \A o \in all : o <= Max(all)
  BY <1>1, MaxIs
<1>3. \A r \in A : r \in Nat \X (Nat \ {0}) /\ r[1] \in all /\ r = <<r[1], r[2]>>
  BY AllReadsFacts
<1>4. ASSUME NEW r \in A, NEW q \in A, r[1] <= q[1], q[1] < r[1] + r[2]
      PROVE  q = r
  <2>1. q[1] \in Nat /\ r[1] \in Nat /\ r[2] \in Nat
    BY <1>3
  <2>2. q[1] \in Bytes(r)
    BY <1>4, <2>1 DEF Bytes
  <2>3. q[1] \in Bytes(q)
    BY AllReadsFacts
  <2> QED
    BY <2>2, <2>3 DEF Apart
<1>5. n \in Nat
  BY <1>2
<1>6. PICK u : /\ Pieces(cs, all) = u[n].reads
               /\ u[0] = [end |-> 0, reads |-> {}]
               /\ \A i \in 1 .. n : u[i] = PieceNext(cs, all, u[i - 1], i - 1)
  BY <1>5, PieceRuns
<1>7. \A r \in A : ShapeOf(cs, r[1]) = r[2]
  BY ShapeIs
<1>8. \A o \in all : (\A r \in A : r[1] # o) => ShapeOf(cs, o) = 0
  BY ShapeIs
<1> HIDE DEF all, n, A
<1> DEFINE Upto(i) == {r \in A : r[1] < i}
           Ok(i) == /\ u[i].reads = Upto(i)
                    /\ u[i].end \in Nat
                    /\ u[i].end # 0 => \E r \in Upto(i) : u[i].end = r[1] + r[2]
           V == {i \in Nat : Ok(i)}
<1>9. 0 \in V
  <2>1. Upto(0) = {}
    BY <1>3
  <2>2. u[0].reads = {} /\ u[0].end = 0
    BY <1>6
  <2>3. u[0].reads = Upto(0) /\ u[0].end \in Nat
    BY <2>1, <2>2
  <2>4. Ok(0)
    BY <2>2, <2>3
  <2> QED
    BY <2>4
<1>10. ASSUME NEW m \in 1 .. n, m - 1 \in V
       PROVE  m \in V
  <2> DEFINE o == m - 1
             before == u[o]
  <2>1. o \in Nat /\ m \in Nat /\ m = o + 1
    BY <1>5
  <2>2. u[m] = PieceNext(cs, all, before, o)
    BY <1>6
  <2>3. Ok(o)
    BY <1>10
  <2> HIDE DEF o
  <2>4. CASE \E r \in A : r[1] = o
    <3>1. PICK r \in A : r[1] = o
      BY <2>4
    <3>2. r \in Nat \X (Nat \ {0}) /\ o \in all /\ r = <<o, r[2]>> /\ r[2] \in Nat \ {0}
      BY <1>3, <3>1
    <3>3. ShapeOf(cs, o) = r[2]
      BY <1>7, <3>1
    <3>4. ~(o < before.end)
      <4> SUFFICES ASSUME o < before.end
                   PROVE  FALSE
        OBVIOUS
      <4>1. before.end \in Nat /\ before.end # 0
        BY <2>1, <2>3
      <4>2. PICK q \in A : q[1] < o /\ before.end = q[1] + q[2]
        BY <2>3, <4>1
      <4>3. q[1] \in Nat
        BY <1>3
      <4>4. r = q
        BY <1>4, <2>1, <3>1, <4>2, <4>3
      <4> QED
        BY <2>1, <3>1, <4>2, <4>3, <4>4
    <3>5. u[m] = [end |-> o + r[2], reads |-> before.reads \cup {<<o, r[2]>>}]
      BY <2>2, <3>2, <3>3, <3>4 DEF PieceNext
    <3>6. u[m].end = r[1] + r[2] /\ u[m].reads = Upto(o) \cup {r}
      BY <2>3, <3>1, <3>2, <3>5
    <3>7. Upto(m) = Upto(o) \cup {r}
      <4>1. \A q \in A : q[1] = o => q = r
        <5> SUFFICES ASSUME NEW q \in A, q[1] = o
                     PROVE  q = r
          OBVIOUS
        <5>1. r[1] <= q[1] /\ q[1] < r[1] + r[2]
          BY <2>1, <3>1, <3>2
        <5> QED
          BY <1>4, <5>1
      <4>2. \A q \in A : q[1] < m <=> q[1] < o \/ q[1] = o
        BY <1>3, <2>1
      <4> QED
        BY <3>1, <4>1, <4>2
    <3>8. r \in Upto(m)
      BY <3>7
    <3>9. u[m].end \in Nat
      BY <2>1, <3>2, <3>5
    <3> HIDE DEF Upto
    <3> QED
      BY <2>1, <3>6, <3>7, <3>8, <3>9
  <2>5. CASE \A r \in A : r[1] # o
    <3>1. o \in all => ShapeOf(cs, o) = 0
      BY <1>8, <2>5
    <3>2. u[m] = before
      BY <2>2, <3>1 DEF PieceNext
    <3>3. Upto(m) = Upto(o)
      <4>1. \A q \in A : q[1] < m <=> q[1] < o
        BY <1>3, <2>1, <2>5
      <4> QED
        BY <4>1
    <3> HIDE DEF Upto
    <3>4. Ok(m)
      BY <2>3, <3>2, <3>3
    <3> QED
      BY <2>1, <3>4
  <2> QED
    BY <2>4, <2>5
<1> HIDE DEF V
<1>11. n \in V
  <2>1. \A i \in 0 .. n : i \in V
    BY <1>5, <1>9, <1>10, Climbs
  <2> QED
    BY <1>5, <2>1
<1>12. u[n].reads = Upto(n)
  BY <1>11 DEF V
<1>13. \A r \in A : r[1] < n
  BY <1>2, <1>3 DEF n
<1>14. Upto(n) = A
  BY <1>13
<1> HIDE DEF Upto
<1> QED
  BY <1>1, <1>6, <1>12, <1>14 DEF all, A

\* A number is the sum of its digits.
LEMMA Digits ==
    ASSUME NEW at \in Nat, NEW len \in Nat, NEW R \in 0 .. 2^(ByteBits * len) - 1, NEW w,
           \A j \in 1 .. len : w[at + j - 1] = (R \div 2^(ByteBits * (j - 1))) % 2^ByteBits
    PROVE  Read(w, at, len) = R
<1> DEFINE P(j) == 2^(ByteBits * j)
           f == [j \in 1 .. len |-> w[at + j - 1] * 2^(ByteBits * (j - 1))]
<1>1. \A j \in Nat : P(j) \in Nat \ {0} /\ ByteBits * j \in Nat
  <2> TAKE j \in Nat
  <2>1. ByteBits * j \in Nat
    BY Sizes, Product
  <2> QED
    BY <2>1, PowerPositive
<1>2. \A j \in 1 .. len : P(j) = P(j - 1) * 2^ByteBits
  <2> TAKE j \in 1 .. len
  <2>1. j - 1 \in Nat /\ ByteBits \in Nat
    BY Sizes
  <2>2. ByteBits * (j - 1) \in Nat
    BY <1>1, <2>1
  <2>3. ByteBits * j = ByteBits * (j - 1) + ByteBits
    BY <2>1
  <2>4. 2^(ByteBits * (j - 1) + ByteBits) = 2^(ByteBits * (j - 1)) * 2^ByteBits
    BY <2>1, <2>2, PowerSum
  <2> QED
    BY <2>3, <2>4
<1>3. P(0) = 1
  <2>1. ByteBits * 0 = 0
    BY Sizes
  <2>2. 2^0 = 1
    OBVIOUS
  <2> QED
    BY <2>1, <2>2
<1>4. \A j \in 1 .. len : f[j] = ((R \div P(j - 1)) % 2^ByteBits) * P(j - 1)
  OBVIOUS
<1>5. Read(w, at, len) = SumTo(len, f) % P(len)
  BY DEF Read
<1>6. R \in Nat /\ R < P(len)
  BY <1>1
<1> HIDE DEF f, P
<1>7. PICK s : SumTo(len, f) = s[len] /\ s[0] = 0 /\ \A j \in 1 .. len : s[j] = s[j - 1] + f[j]
  BY SumRuns
<1> DEFINE V == {j \in Nat : s[j] = R % P(j)}
<1>8. 0 \in V
  <2>1. R % 1 = 0
    BY <1>6
  <2> QED
    BY <1>3, <1>7, <2>1
<1>9. ASSUME NEW m \in 1 .. len, m - 1 \in V
      PROVE  m \in V
  <2>1. s[m] = (R % P(m - 1)) + ((R \div P(m - 1)) % 2^ByteBits) * P(m - 1)
    BY <1>4, <1>7, <1>9
  <2>2. P(m - 1) \in Nat \ {0} /\ 2^ByteBits \in Nat \ {0}
    BY <1>1, Sizes
  <2>3. R % (P(m - 1) * 2^ByteBits) = (R % P(m - 1)) + ((R \div P(m - 1)) % 2^ByteBits) * P(m - 1)
    BY <1>6, <2>2, NextDigit
  <2>4. s[m] = R % P(m)
    BY <1>2, <2>1, <2>3
  <2>5. m \in Nat
    OBVIOUS
  <2> QED
    BY <2>4, <2>5
<1> HIDE DEF V
<1>10. len \in V
  <2>1. \A j \in 0 .. len : j \in V
    BY <1>8, <1>9, Climbs
  <2> QED
    BY <2>1
<1>11. SumTo(len, f) = R % P(len)
  BY <1>7, <1>10 DEF V
<1>12. R % P(len) = R
  <2>1. P(len) \in Nat \ {0} /\ R = 0 * P(len) + R /\ R \in 0 .. P(len) - 1
    BY <1>1, <1>6
  <2> QED
    BY <2>1, Remainder
<1> QED
  BY <1>5, <1>11, <1>12
-----------------------------------------------------------------------------
(* Solutions. *)

\* What add_results makes of a point is read as the point is.
LEMMA ResultsRead ==
    ASSUME task \in FinalTasks, Apart(constraints), NEW v \in Points, NEW r \in AllReads(constraints), NEW w,
           \A o \in Bytes(r) : o \in DOMAIN add_results(v) => w[o] = add_results(v)[o]
    PROVE  Read(w, r[1], r[2]) = Read(v, r[1], r[2])
<1> DEFINE bytes(p) == p[1] .. p[1] + p[2] - 1
           whole(o) == CHOOSE p \in task.pieces : o \in bytes(p)
           at == r[1]
           len == r[2]
           R == Read(v, at, len)
<1>1. task = finalize(constraints) /\ constraints \in Tasks
  <2>1. PICK cs \in Tasks : task = finalize(cs)
    BY DEF FinalTasks
  <2>2. constraints = cs
    BY <2>1, FinalFacts DEF IsFinal, constraints
  <2> QED
    BY <2>1, <2>2
<1>2. task.pieces = AllReads(constraints)
  BY <1>1, PiecesAre
<1>3. r \in Nat \X (Nat \ {0}) /\ Bytes(r) \subseteq task.offsets
  BY <1>1, AllReadsFacts
<1>4. at \in Nat /\ len \in Nat /\ len <= WordBytes
  BY <1>3 DEF Apart
<1>5. \A o \in Bytes(r) : whole(o) = r
  <2> TAKE o \in Bytes(r)
  <2>1. \A p \in task.pieces : o \in bytes(p) <=> p = r
    BY <1>2 DEF Apart, Bytes
  <2>2. r \in task.pieces
    BY <1>2
  <2> HIDE DEF bytes
  <2> QED
    BY <2>1, <2>2
<1>6. ASSUME NEW o \in Bytes(r)
      PROVE  w[o] = (R \div 2^(ByteBits * (o - at))) % 2^ByteBits
  <2> DEFINE D == UNION {bytes(p) : p \in task.pieces}
             value(x) == IF whole(x)[2] <= WordBytes
                         THEN (Read(v, whole(x)[1], whole(x)[2]) \div 2^(ByteBits * (x - whole(x)[1]))) % 2^ByteBits
                         ELSE v[x] % 2^ByteBits
  <2>1. add_results(v) = [x \in D |-> value(x)]
    BY DEF add_results
  <2>2. o \in D
    BY <1>2 DEF Bytes
  <2> HIDE DEF D
  <2>3. value(o) = (R \div 2^(ByteBits * (o - at))) % 2^ByteBits
    <3>1. whole(o) = r
      BY <1>5
    <3> HIDE DEF whole
    <3> QED
      BY <1>4, <3>1
  <2> HIDE DEF value
  <2>4. o \in DOMAIN add_results(v) /\ add_results(v)[o] = value(o)
    BY <2>1, <2>2
  <2>5. w[o] = value(o)
    BY <2>4
  <2> QED
    BY <2>3, <2>5
<1>7. WordsOn(v, at .. at + len - 1)
  BY <1>3 DEF WordsOn, Points, Bytes
<1>8. Bytes(r) = at .. at + len - 1
  BY DEF Bytes
<1> HIDE DEF at, len
<1>9. R \in 0 .. 2^(ByteBits * len) - 1
  BY <1>4, <1>7, ReadType
<1> HIDE DEF R
<1>10. \A j \in 1 .. len : w[at + j - 1] = (R \div 2^(ByteBits * (j - 1))) % 2^ByteBits
  <2> TAKE j \in 1 .. len
  <2>1. at + j - 1 \in Bytes(r) /\ (at + j - 1) - at = j - 1
    BY <1>4, <1>8
  <2> QED
    BY <1>6, <2>1
<1>11. Read(w, at, len) = R
  BY <1>4, <1>9, <1>10, Digits
<1> QED
  BY <1>11 DEF R, at, len

\* Words that differ by nothing are equal.
LEMMA WrapZero ==
    ASSUME NEW a \in 0 .. MaxWord, NEW b \in 0 .. MaxWord, Wrap(a - b) = 0
    PROVE  a = b
<1> DEFINE M == 2^WordBits
<1>1. M \in Nat \ {0} /\ MaxWord = M - 1
  BY Sizes DEF MaxWord
<1>2. (a - b) % M = 0
  BY DEF Wrap
<1> HIDE DEF M
<1>3. CASE a >= b
  <2>1. (a - b) % M = a - b
    <3>1. a - b \in Int /\ a - b = 0 * M + (a - b) /\ a - b \in 0 .. M - 1
      BY <1>1, <1>3
    <3> QED
      BY <1>1, <3>1, Remainder
  <2> QED
    BY <1>2, <2>1
<1>4. CASE a < b
  <2>1. (a - b) % M = a - b + M
    <3>1. a - b \in Int /\ a - b = (-1) * M + (a - b + M) /\ a - b + M \in 0 .. M - 1
      BY <1>1, <1>4
    <3> QED
      BY <1>1, <3>1, Remainder
  <2> QED
    BY <1>1, <1>2, <1>4, <2>1
<1> QED
  BY <1>3, <1>4

\* A comparison of c.bits bits has operands of a word.
LEMMA OperandsFit ==
    ASSUME NEW c, IsRelational(c), NEW x \in 0 .. 2^c.bits - 1
    PROVE  x \in 0 .. MaxWord
<1>1. c.bits \in 1 .. WordBits /\ WordBits \in Nat
  BY Sizes DEF IsRelational
<1>2. c.bits \in Nat /\ WordBits - c.bits \in Nat /\ c.bits + (WordBits - c.bits) = WordBits
  BY <1>1
<1>3. 2^WordBits = 2^c.bits * 2^(WordBits - c.bits)
  BY <1>2, PowerSum
<1>4. 2^c.bits \in Nat \ {0} /\ 2^(WordBits - c.bits) \in Nat \ {0}
  BY <1>2, PowerPositive
<1>5. \A p, q \in Nat \ {0} : p <= p * q
  OBVIOUS
<1>6. 2^c.bits <= 2^WordBits
  BY <1>3, <1>4, <1>5
<1> QED
  BY <1>4, <1>6, Sizes DEF MaxWord

\* A saturating increment is never zero.
LEMMA Increased ==
    ASSUME NEW x \in Nat
    PROVE  sat_inc(x, 1) # 0
<1>1. x + 1 \in Nat /\ MaxWord \in Nat \ {0}
  BY Sizes
<1>2. Min({x + 1, MaxWord}) = IF x + 1 <= MaxWord THEN x + 1 ELSE MaxWord
  BY <1>1, MinOfTwo
<1> QED
  BY <1>1, <1>2 DEF sat_inc

\* A comparison at distance zero holds.
LEMMA ZeroHolds ==
    ASSUME NEW c, IsConstraint(c), c.comp \in SignedKinds => c.bits = WordBits,
           NEW v, WordsOn(v, Offsets(c)), DistanceOf(c, v) = 0,
           NEW w, Op1(c, w) = Op1(c, v)
    PROVE  Holds(c, w)
<1> DEFINE a == Op1(c, v)
           b == Op2(c)
<1>1. a \in Nat /\ b \in Nat /\ (c.comp \in MemcmpKinds => a \in {0, 1})
  BY Op1Type
<1>2. get_distance(c.comp, a, b) = 0
  BY DEF DistanceOf
<1>3. CASE c.comp \in MemcmpKinds
  <2>1. (c.comp = "Memcmp" => 1 - a = 0) /\ (c.comp = "MemcmpN" => a = 0)
    BY <1>2, <1>3 DEF MemcmpKinds, get_distance
  <2> HIDE DEF a, b
  <2>2. (c.comp = "Memcmp" => a = 1) /\ (c.comp = "MemcmpN" => a = 0)
    BY <1>1, <1>3, <2>1
  <2> QED
    BY <1>3, <2>2 DEF MemcmpKinds, Holds, a, b
<1>4. CASE IsRelational(c) /\ c.comp \notin MemcmpKinds
  <2>1. a \in 0 .. MaxWord /\ b \in 0 .. MaxWord
    BY <1>4, Op1Type, OperandsFit
  <2>2. CASE c.comp \in {"Equal", "Distinct", "Ult", "Ule", "Ugt", "Uge"}
    <3> HIDE DEF a, b
    <3>1. ~(a < b) => sat_inc(a - b, 1) # 0
      <4>1. ~(a < b) => a - b \in Nat
        BY <1>1
      <4> QED
        BY <4>1, Increased
    <3>2. ~(a > b) => sat_inc(b - a, 1) # 0
      <4>1. ~(a > b) => b - a \in Nat
        BY <1>1
      <4> QED
        BY <4>1, Increased
    <3>3. /\ c.comp = "Equal" => a = b
          /\ c.comp = "Distinct" => a # b
          /\ c.comp = "Ult" => a < b
          /\ c.comp = "Ule" => a <= b
          /\ c.comp = "Ugt" => a > b
          /\ c.comp = "Uge" => a >= b
      BY <1>1, <1>2, <3>1, <3>2 DEF get_distance
    <3> QED
      BY <2>2, <3>3 DEF Holds, a, b
  <2>3. CASE c.comp \in SignedKinds
    <3> DEFINE sa == AsSigned(WordBits, a)
               sb == AsSigned(WordBits, b)
    <3>1. c.bits = WordBits
      BY <2>3
    <3>2. Wrap(a - b) \in Nat /\ Wrap(b - a) \in Nat
      <4> HIDE DEF a, b
      <4>1. a - b \in Int /\ b - a \in Int
        BY <1>1
      <4>2. \A x \in Int : Wrap(x) \in Nat
        BY WrapType, Sizes
      <4> QED
        BY <4>1, <4>2
    <3>3. sat_inc(Wrap(a - b), 1) # 0 /\ sat_inc(Wrap(b - a), 1) # 0
      BY <3>2, Increased
    <3>4. (Wrap(a - b) = 0 => a = b) /\ (Wrap(b - a) = 0 => a = b)
      <4> HIDE DEF a, b
      <4> QED
        BY <2>1, WrapZero
    <3>5. a = b => sa = sb
      OBVIOUS
    <3>6. sa \in Int /\ sb \in Int
      <4>1. WordBits - 1 \in Nat
        BY Sizes
      <4>2. 2^(WordBits - 1) \in Int /\ 2^WordBits \in Int
        BY <4>1, Sizes, PowerPositive
      <4> HIDE DEF a, b
      <4> QED
        BY <1>1, <4>2 DEF AsSigned
    <3>7. /\ c.comp = "Slt" => sa < sb
          /\ c.comp = "Sle" => sa <= sb
          /\ c.comp = "Sgt" => sa > sb
          /\ c.comp = "Sge" => sa >= sb
      <4> DEFINE da == Wrap(a - b)
                 db == Wrap(b - a)
      <4>1. /\ c.comp = "Slt" => 0 = IF sa < sb THEN 0 ELSE sat_inc(da, 1)
            /\ c.comp = "Sle" => 0 = IF sa <= sb THEN 0 ELSE da
            /\ c.comp = "Sgt" => 0 = IF sa > sb THEN 0 ELSE sat_inc(db, 1)
            /\ c.comp = "Sge" => 0 = IF sa >= sb THEN 0 ELSE db
        BY <1>2 DEF get_distance
      <4>2. /\ sat_inc(da, 1) # 0 /\ sat_inc(db, 1) # 0
            /\ da = 0 => sa = sb
            /\ db = 0 => sa = sb
        BY <3>3, <3>4, <3>5
      <4> HIDE DEF da, db, sa, sb, a, b
      <4> QED
        BY <3>6, <4>1, <4>2
    <3>8. sa = AsSigned(c.bits, Op1(c, w)) /\ sb = AsSigned(c.bits, Op2(c))
      BY <3>1
    <3> HIDE DEF sa, sb, a, b
    <3> QED
      BY <2>3, <3>7, <3>8 DEF SignedKinds, Holds
  <2> QED
    BY <1>4, <2>2, <2>3 DEF IsRelational, RelationalKinds
<1> QED
  BY <1>3, <1>4, KindFacts

\* For all tasks whose reads are apart, fit a word and have signs for whole words only,
\* the bytes that add_results makes of words that have overflowed satisfy every
\* comparison of the task as the program evaluates it.
THEOREM SolutionsSatisfy == Spec => [](Apart(constraints) => SolutionSatisfies)
<1>1. SearchInv /\ Apart(constraints) => SolutionSatisfies
  <2> SUFFICES ASSUME SearchInv, Apart(constraints), flags.solved, NEW i \in DOMAIN constraints
               PROVE  Holds(constraints[i], Output)
    BY DEF SolutionSatisfies
  <2> DEFINE c == constraints[i]
  <2>1. task \in FinalTasks /\ seed \in Points /\ Good(flags)
    BY DEF SearchInv, Shape
  <2>2. PICK v \in Points : Met(v) /\ flags.solution = add_results(v)
    BY <2>1 DEF Good
  <2>3. IsConstraint(c) /\ Offsets(c) \subseteq task.offsets
    BY <2>1, TaskFacts DEF IsFinal
  <2>4. WordsOn(v, Offsets(c))
    BY <2>3 DEF WordsOn, Points
  <2>5. DistanceOf(c, v) = 0
    BY <2>2 DEF Met
  <2>6. c.comp \in SignedKinds => c.bits = WordBits
    BY DEF Apart
  <2>7. ASSUME NEW r \in Reads(c)
        PROVE  Read(Output, r[1], r[2]) = Read(v, r[1], r[2])
    <3>1. r \in AllReads(constraints)
      BY DEF AllReads
    <3>2. Bytes(r) \subseteq task.offsets
      <4>1. r[1] .. r[1] + r[2] - 1 \subseteq Offsets(c)
        BY <2>3, ReadsWithin
      <4> QED
        BY <2>3, <4>1 DEF Bytes
    <3>3. DOMAIN seed = task.offsets
      BY <2>1 DEF Points
    <3>4. \A o \in Bytes(r) : o \in DOMAIN add_results(v) => Output[o] = add_results(v)[o]
      BY <2>2, <3>2, <3>3 DEF Output
    <3> QED
      BY <2>1, <3>1, <3>4, ResultsRead
  <2> HIDE DEF c
  <2>8. Op1(c, Output) = Op1(c, v)
    BY <2>3, <2>7, Op1Agrees
  <2>9. Holds(c, Output)
    BY <2>3, <2>4, <2>5, <2>6, <2>8, ZeroHolds
  <2> QED
    BY <2>9 DEF c
<1> QED
  BY <1>1, SearchInvariant, PTL
=============================================================================
