---------------------- MODULE NestedConstraintsProofs -----------------------
(***************************************************************************)
(* Proofs about NestedConstraints for any size of the input, any branches  *)
(* and any order of merges: the forest and the circular lists of the       *)
(* union-find structure describe the classes that the merged sets make,    *)
(* saved constraints stay findable, and nested tasks have what is related. *)
(***************************************************************************)
EXTENDS NestedConstraints, WellFoundedInduction, TLAPS

\* A set of naturals that is not empty has a least element.
LEMMA Least ==
    ASSUME NEW T, T \subseteq Nat, T # {}
    PROVE  \E m \in T : \A k \in T : m <= k
<1>1. PICK m \in T : \A k \in T : <<k, m>> \notin OpToRel(<, Nat)
  BY NatLessThanWellFounded, WFMin
<1>2. \A a, b \in Nat : a < b => <<a, b>> \in OpToRel(<, Nat)
  BY DEF OpToRel
<1>3. ASSUME NEW k \in T
      PROVE  m <= k
  <2>1. m \in Nat /\ k \in Nat
    OBVIOUS
  <2>2. ~(k < m)
    BY <1>1, <1>2, <2>1, Zenon
  <2> QED
    BY <2>1, <2>2
<1> QED
  BY <1>3

-----------------------------------------------------------------------------
(* Following a function. *)

\* Following f from x comes to x, and on from wherever it comes to.
LEMMA ReachFacts ==
    ASSUME NEW f \in [Bytes -> Bytes], NEW x \in Bytes
    PROVE  /\ Reach(f, x) \subseteq Bytes
           /\ x \in Reach(f, x)
           /\ \A y \in Reach(f, x) : f[y] \in Reach(f, x)
<1>1. Reach(f, x) \subseteq Bytes /\ x \in Reach(f, x)
  BY DEF Reach
<1>2. ASSUME NEW y \in Reach(f, x)
      PROVE  f[y] \in Reach(f, x)
  <2>1. f[y] \in Bytes
    BY <1>1
  <2>2. ASSUME NEW S \in SUBSET Bytes, x \in S, \A z \in S : f[z] \in S
        PROVE  f[y] \in S
    BY <2>2 DEF Reach
  <2> QED
    BY <2>1, <2>2 DEF Reach
<1> QED
  BY <1>1, <1>2

\* It comes to nothing that is not in a closed set that has x.
LEMMA ReachLeast ==
    ASSUME NEW f, NEW x, NEW S, S \subseteq Bytes, x \in S, \A z \in S : f[z] \in S
    PROVE  Reach(f, x) \subseteq S
BY DEF Reach

LEMMA ReachTrans ==
    ASSUME NEW f \in [Bytes -> Bytes], NEW x \in Bytes, NEW y \in Reach(f, x)
    PROVE  Reach(f, y) \subseteq Reach(f, x)
BY ReachFacts, ReachLeast

LEMMA ReachSplit ==
    ASSUME NEW f \in [Bytes -> Bytes], NEW x \in Bytes
    PROVE  Reach(f, x) \subseteq {x} \cup Reach(f, f[x])
<1> DEFINE S == {x} \cup Reach(f, f[x])
<1>1. f[x] \in Bytes
  OBVIOUS
<1>2. Reach(f, f[x]) \subseteq Bytes /\ f[x] \in Reach(f, f[x])
      /\ \A y \in Reach(f, f[x]) : f[y] \in Reach(f, f[x])
  BY <1>1, ReachFacts
<1>3. S \subseteq Bytes /\ x \in S
  BY <1>2
<1>4. ASSUME NEW z \in S
      PROVE  f[z] \in S
  <2>1. z = x \/ z \in Reach(f, f[x])
    OBVIOUS
  <2>2. f[z] \in Reach(f, f[x])
    BY <1>2, <2>1, Zenon
  <2> QED
    BY <2>2
<1> HIDE DEF S
<1>5. Reach(f, x) \subseteq S
  BY <1>3, <1>4, ReachLeast
<1> QED
  BY <1>5 DEF S

-----------------------------------------------------------------------------
(* The forest: ranks grow from a byte to its parent. *)

Forest(p, rk) ==
    /\ p \in [Bytes -> Bytes]
    /\ rk \in [Bytes -> Nat]
    /\ \A x \in Bytes : p[x] # x => rk[x] < rk[p[x]]

\* The ranks have a bound, as the input is finite.
LEMMA RanksBounded ==
    ASSUME NEW rk \in [Bytes -> Nat]
    PROVE  \E b \in Nat : \A x \in Bytes : rk[x] <= b
<1> DEFINE Bounded(n) == \E b \in Nat : \A x \in 0 .. n - 1 : rk[x] <= b
           T == {n \in Nat : n <= InputSize /\ ~Bounded(n)}
<1>1. InputSize \in Nat
  BY NestedAssumption
<1>2. ASSUME T # {}
      PROVE  FALSE
  <2>1. PICK n \in T : \A k \in T : n <= k
    <3>1. T \subseteq Nat
      OBVIOUS
    <3> QED
      BY <1>2, <3>1, Least
  <2>2. n \in Nat /\ n <= InputSize /\ ~Bounded(n)
    OBVIOUS
  <2>3. Bounded(0)
    <3>1. 0 .. 0 - 1 = {}
      OBVIOUS
    <3>2. 0 \in Nat /\ \A x \in 0 .. 0 - 1 : rk[x] <= 0
      BY <3>1
    <3> QED
      BY <3>2
  <2>4. n # 0
    BY <2>2, <2>3
  <2>5. n - 1 \in Nat /\ n - 1 <= InputSize /\ n - 1 \notin T
    <3>1. n - 1 \in Nat /\ n - 1 <= InputSize /\ ~(n <= n - 1)
      BY <1>1, <2>2, <2>4
    <3> HIDE DEF T
    <3> QED
      BY <2>1, <3>1
  <2>6. Bounded(n - 1)
    BY <2>5
  <2>7. PICK b \in Nat : \A x \in 0 .. (n - 1) - 1 : rk[x] <= b
    BY <2>6
  <2>8. n - 1 \in Bytes /\ rk[n - 1] \in Nat
    <3>1. n - 1 \in Bytes
      BY <1>1, <2>2, <2>4 DEF Bytes
    <3> QED
      BY <3>1
  <2>9. ASSUME NEW x \in 0 .. n - 1
        PROVE  rk[x] <= b + rk[n - 1]
    <3>1. x \in Bytes /\ rk[x] \in Nat
      <4>1. x \in Bytes
        BY <1>1, <2>2 DEF Bytes
      <4> QED
        BY <4>1
    <3>2. CASE x = n - 1
      BY <2>8, <3>1, <3>2
    <3>3. CASE x # n - 1
      <4>1. x \in 0 .. (n - 1) - 1
        BY <2>2, <3>3
      <4>2. rk[x] <= b
        BY <2>7, <4>1
      <4> QED
        BY <2>8, <3>1, <4>2
    <3> QED
      BY <3>2, <3>3
  <2>10. b + rk[n - 1] \in Nat
    BY <2>8
  <2>11. Bounded(n)
    BY <2>9, <2>10
  <2> QED
    BY <2>2, <2>11
<1>3. InputSize \notin T
  BY <1>2
<1>4. Bounded(InputSize)
  BY <1>1, <1>3
<1> QED
  BY <1>4 DEF Bytes

LEMMA RootExists ==
    ASSUME NEW p, NEW rk, Forest(p, rk), NEW x \in Bytes
    PROVE  \E y \in Reach(p, x) : p[y] = y
<1>1. p \in [Bytes -> Bytes] /\ rk \in [Bytes -> Nat]
  BY DEF Forest
<1>2. PICK b \in Nat : \A y \in Bytes : rk[y] <= b
  BY <1>1, RanksBounded
<1>3. Reach(p, x) \subseteq Bytes /\ x \in Reach(p, x) /\ \A y \in Reach(p, x) : p[y] \in Reach(p, x)
  BY <1>1, ReachFacts
<1> DEFINE T == {b - rk[y] : y \in Reach(p, x)}
<1>4. T \subseteq Nat /\ T # {}
  <2>1. \A y \in Reach(p, x) : b - rk[y] \in Nat
    <3>1. \A y \in Reach(p, x) : rk[y] \in Nat /\ rk[y] <= b
      BY <1>1, <1>2, <1>3
    <3> QED
      BY <3>1
  <2> QED
    BY <1>3, <2>1, Zenon
<1>5. PICK d \in T : \A e \in T : d <= e
  BY <1>4, Least
<1>6. PICK y \in Reach(p, x) : d = b - rk[y]
  BY <1>5
<1>7. b - rk[p[y]] \in T
  BY <1>3
<1>8. d <= b - rk[p[y]]
  BY <1>5, <1>7
<1>9. y \in Bytes /\ p[y] \in Bytes /\ rk[y] \in Nat /\ rk[p[y]] \in Nat
  BY <1>1, <1>3
<1>10. ~(rk[y] < rk[p[y]])
  BY <1>6, <1>8, <1>9
<1>11. p[y] = y
  BY <1>9, <1>10 DEF Forest
<1> QED
  BY <1>11

\* find returns a root, on the path from x.
LEMMA RootFacts ==
    ASSUME NEW p, NEW rk, Forest(p, rk), NEW x \in Bytes
    PROVE  Root(p, x) \in Bytes /\ Root(p, x) \in Reach(p, x) /\ p[Root(p, x)] = Root(p, x)
<1>1. \E y \in Reach(p, x) : p[y] = y
  BY RootExists
<1>2. Root(p, x) \in Reach(p, x) /\ p[Root(p, x)] = Root(p, x)
  BY <1>1 DEF Root
<1>3. Reach(p, x) \subseteq Bytes
  BY ReachFacts DEF Forest
<1> QED
  BY <1>2, <1>3

\* A byte comes to one root only.
LEMMA OneRoot ==
    ASSUME NEW p, NEW rk, Forest(p, rk), NEW x \in Bytes,
           NEW y \in Reach(p, x), NEW w \in Reach(p, x), p[y] = y, p[w] = w
    PROVE  y = w
<1>1. p \in [Bytes -> Bytes]
  BY DEF Forest
<1>2. Reach(p, x) \subseteq Bytes
  BY <1>1, ReachFacts
<1> DEFINE S == {z \in Bytes : y \in Reach(p, z)}
<1>3. ASSUME NEW z \in S
      PROVE  p[z] \in S
  <2>1. z \in Bytes /\ p[z] \in Bytes /\ y \in Reach(p, z)
    BY <1>1
  <2>2. y = z \/ y \in Reach(p, p[z])
    BY <1>1, <2>1, ReachSplit
  <2> QED
    BY <2>1, <2>2
<1>4. Reach(p, x) \subseteq S
  <2>1. S \subseteq Bytes /\ x \in S
    OBVIOUS
  <2> HIDE DEF S
  <2> QED
    BY <1>3, <2>1, ReachLeast
<1>5. y \in Reach(p, w)
  BY <1>4
<1>6. Reach(p, w) \subseteq {w}
  <2>1. {w} \subseteq Bytes /\ w \in {w} /\ \A z \in {w} : p[z] \in {w}
    BY <1>2
  <2> QED
    BY <2>1, ReachLeast
<1> QED
  BY <1>5, <1>6

\* A byte and its parent have the same root.
LEMMA RootStep ==
    ASSUME NEW p, NEW rk, Forest(p, rk), NEW x \in Bytes
    PROVE  Root(p, p[x]) = Root(p, x) /\ (p[x] = x <=> Root(p, x) = x)
<1>1. p \in [Bytes -> Bytes] /\ p[x] \in Bytes
  BY DEF Forest
<1>2. p[x] \in Reach(p, x) /\ x \in Reach(p, x)
  BY <1>1, ReachFacts
<1>3. Root(p, p[x]) \in Reach(p, x) /\ p[Root(p, p[x])] = Root(p, p[x])
  BY <1>1, <1>2, RootFacts, ReachTrans
<1>4. Root(p, x) \in Reach(p, x) /\ p[Root(p, x)] = Root(p, x)
  BY RootFacts
<1> QED
  BY <1>2, <1>3, <1>4, OneRoot

\* What behaves like the root is the root.
LEMMA RootUnique ==
    ASSUME NEW p, NEW rk, Forest(p, rk), NEW g \in [Bytes -> Bytes],
           \A z \in Bytes : (p[z] = z => g[z] = z) /\ g[p[z]] = g[z],
           NEW x \in Bytes
    PROVE  Root(p, x) = g[x]
<1> DEFINE S == {z \in Bytes : g[z] = g[x]}
<1>1. p \in [Bytes -> Bytes]
  BY DEF Forest
<1>2. S \subseteq Bytes /\ x \in S /\ \A z \in S : p[z] \in S
  BY <1>1
<1>3. Reach(p, x) \subseteq S
  BY <1>2, ReachLeast
<1>4. Root(p, x) \in Bytes /\ Root(p, x) \in Reach(p, x) /\ p[Root(p, x)] = Root(p, x)
  BY RootFacts
<1> QED
  BY <1>3, <1>4

\* Path compression moves no byte to another root.
LEMMA CompressedFacts ==
    ASSUME NEW p, NEW rk, Forest(p, rk), NEW x \in Bytes
    PROVE  Forest(Compressed(p, x), rk) /\ \A z \in Bytes : Root(Compressed(p, x), z) = Root(p, z)
<1> DEFINE c == Compressed(p, x)
           g == [z \in Bytes |-> Root(p, z)]
<1>1. p \in [Bytes -> Bytes] /\ rk \in [Bytes -> Nat] /\ \A z \in Bytes : p[z] # z => rk[z] < rk[p[z]]
  BY DEF Forest
<1>2. c \in [Bytes -> Bytes] /\ \A z \in Bytes : c[z] = p[z] \/ c[z] = p[p[z]]
  BY <1>1 DEF Compressed
<1>3. ASSUME NEW z \in Bytes
      PROVE  (c[z] = z => p[z] = z) /\ (c[z] # z => rk[z] < rk[c[z]])
  <2>1. p[z] \in Bytes /\ p[p[z]] \in Bytes /\ rk[z] \in Nat /\ rk[p[z]] \in Nat /\ rk[p[p[z]]] \in Nat
    BY <1>1
  <2>2. p[z] # z => rk[z] < rk[p[z]]
    BY <1>1
  <2>3. p[p[z]] # p[z] => rk[p[z]] < rk[p[p[z]]]
    BY <1>1, <2>1
  <2>4. c[z] = p[z] \/ c[z] = p[p[z]]
    BY <1>2
  <2> QED
    BY <2>1, <2>2, <2>3, <2>4
<1>4. Forest(c, rk)
  BY <1>1, <1>2, <1>3 DEF Forest
<1>5. \A z \in Bytes : Root(p, z) \in Bytes /\ Root(p, p[z]) = Root(p, z) /\ (p[z] = z => Root(p, z) = z)
  BY RootFacts, RootStep
<1>6. \A z \in Bytes : Root(p, p[p[z]]) = Root(p, z)
  BY <1>1, <1>5
<1>7. g \in [Bytes -> Bytes] /\ \A z \in Bytes : g[z] = Root(p, z)
  BY <1>5
<1>8. \A z \in Bytes : (c[z] = z => g[z] = z) /\ g[c[z]] = g[z]
  BY <1>2, <1>3, <1>5, <1>6, <1>7
<1> HIDE DEF c, g
<1>9. \A z \in Bytes : Root(c, z) = g[z]
  BY <1>4, <1>7, <1>8, RootUnique
<1> QED
  BY <1>4, <1>7, <1>9 DEF c

\* Root b of the forest becomes the child of another root, a, that ranks higher.
Linked(p, rk, a, b, q, high) ==
    /\ Forest(p, rk) /\ a \in Bytes /\ b \in Bytes /\ a # b /\ p[a] = a /\ p[b] = b
    /\ high \in [Bytes -> Nat] /\ \A z \in Bytes \ {a} : high[z] = rk[z]
    /\ rk[a] <= high[a] /\ high[b] < high[a]
    /\ q \in [Bytes -> Bytes] /\ \A z \in Bytes : q[z] = IF z = b THEN a ELSE p[z]

LEMMA LinkFacts ==
    ASSUME NEW p, NEW rk, NEW a, NEW b, NEW q, NEW high, Linked(p, rk, a, b, q, high)
    PROVE  /\ Forest(q, high)
           /\ \A z \in Bytes : Root(q, z) = IF Root(p, z) = b THEN a ELSE Root(p, z)
<1> DEFINE g == [z \in Bytes |-> IF Root(p, z) = b THEN a ELSE Root(p, z)]
<1> USE DEF Linked
<1>1. p \in [Bytes -> Bytes] /\ rk \in [Bytes -> Nat] /\ \A z \in Bytes : p[z] # z => rk[z] < rk[p[z]]
  BY DEF Forest
<1>2. q \in [Bytes -> Bytes] /\ \A z \in Bytes : q[z] = IF z = b THEN a ELSE p[z]
  BY <1>1
<1>3. ASSUME NEW z \in Bytes, q[z] # z
      PROVE  high[z] < high[q[z]]
  <2>1. CASE z = b
    BY <1>2, <2>1
  <2>2. CASE z # b
    <3>1. q[z] = p[z] /\ p[z] \in Bytes /\ rk[z] < rk[p[z]]
      BY <1>1, <1>2, <1>3, <2>2
    <3>2. z # a
      BY <1>3, <3>1
    <3>3. high[z] = rk[z] /\ rk[p[z]] <= high[p[z]]
      <4>1. p[z] # a => high[p[z]] = rk[p[z]]
        BY <3>1
      <4>2. rk[p[z]] \in Nat
        BY <1>1, <3>1
      <4> QED
        BY <3>2, <4>1, <4>2
    <3>4. high[z] \in Nat /\ rk[z] \in Nat /\ rk[p[z]] \in Nat /\ high[p[z]] \in Nat
      BY <1>1, <3>1
    <3> QED
      BY <3>1, <3>3, <3>4
  <2> QED
    BY <2>1, <2>2
<1>4. Forest(q, high)
  BY <1>2, <1>3 DEF Forest
<1>5. \A z \in Bytes : Root(p, z) \in Bytes /\ Root(p, p[z]) = Root(p, z) /\ (p[z] = z <=> Root(p, z) = z)
  BY RootFacts, RootStep
<1>6. g \in [Bytes -> Bytes] /\ \A z \in Bytes : g[z] = IF Root(p, z) = b THEN a ELSE Root(p, z)
  BY <1>5
<1> HIDE DEF g
<1>7. ASSUME NEW z \in Bytes
      PROVE  (q[z] = z => g[z] = z) /\ g[q[z]] = g[z]
  <2>1. CASE z = b
    BY <1>2, <1>5, <1>6, <2>1
  <2>2. CASE z # b
    <3>1. q[z] = p[z] /\ p[z] \in Bytes
      BY <1>1, <1>2, <2>2
    <3> QED
      BY <1>5, <1>6, <2>2, <3>1
  <2> QED
    BY <2>1, <2>2
<1>8. \A z \in Bytes : Root(q, z) = g[z]
  BY <1>4, <1>6, <1>7, RootUnique
<1> QED
  BY <1>4, <1>6, <1>8

-----------------------------------------------------------------------------
(* The lists: each is the class of its bytes, in a circle. *)

\* The byte at which another list is put in is reached from everywhere in its list,
\* as long as one has not come to it.
LEMMA ComesTo ==
    ASSUME NEW nx \in [Bytes -> Bytes], NEW new \in [Bytes -> Bytes], NEW a \in Bytes, NEW b \in Bytes,
           \A w \in Bytes \ {a, b} : new[w] = nx[w],
           NEW x \in Bytes, a \in Reach(nx, x), b \notin Reach(nx, x)
    PROVE  a \in Reach(new, x)
<1> DEFINE S == Reach(new, x) \cap Reach(nx, x)
<1>1. Reach(nx, x) \subseteq Bytes /\ x \in Reach(nx, x) /\ \A w \in Reach(nx, x) : nx[w] \in Reach(nx, x)
  BY ReachFacts
<1>2. Reach(new, x) \subseteq Bytes /\ x \in Reach(new, x) /\ \A w \in Reach(new, x) : new[w] \in Reach(new, x)
  BY ReachFacts
<1>3. ASSUME a \notin Reach(new, x)
      PROVE  FALSE
  <2>1. \A w \in S : nx[w] \in S
    <3>1. \A w \in S : w \in Bytes \ {a, b}
      BY <1>1, <1>3
    <3> QED
      BY <1>1, <1>2, <3>1
  <2>2. S \subseteq Bytes /\ x \in S
    BY <1>1, <1>2
  <2>3. Reach(nx, x) \subseteq S
    BY <2>1, <2>2, ReachLeast
  <2> QED
    BY <1>3, <2>3
<1> QED
  BY <1>3

\* new has the lists A and B of nx spliced at a and b.
Spliced(nx, new, A, B, a, b) ==
    /\ nx \in [Bytes -> Bytes] /\ new \in [Bytes -> Bytes]
    /\ A \subseteq Bytes /\ B \subseteq Bytes /\ A \cap B = {} /\ a \in A /\ b \in B
    /\ \A x \in A : Reach(nx, x) = A
    /\ \A x \in B : Reach(nx, x) = B
    /\ \A w \in Bytes \ {a, b} : new[w] = nx[w]
    /\ new[a] = nx[b] /\ new[b] = nx[a]

\* Two lists become one.
LEMMA SplicedTogether ==
    ASSUME NEW nx, NEW new, NEW A, NEW B, NEW a, NEW b, Spliced(nx, new, A, B, a, b), NEW x \in A
    PROVE  Reach(new, x) = A \cup B
<1> USE DEF Spliced
<1> DEFINE R == Reach(new, x)
<1>1. a \in Bytes /\ b \in Bytes /\ x \in Bytes /\ a \notin B /\ b \notin A
  OBVIOUS
<1>2. (\A w \in A : nx[w] \in A) /\ (\A w \in B : nx[w] \in B)
  BY ReachFacts
<1>3. R \subseteq Bytes /\ x \in R /\ \A w \in R : new[w] \in R
  BY <1>1, ReachFacts
<1>4. R \subseteq A \cup B
  <2>1. \A w \in A \cup B : new[w] \in A \cup B
    BY <1>1, <1>2
  <2> QED
    BY <2>1, ReachLeast
<1>5. a \in R
  BY <1>1, ComesTo
<1>6. nx[b] \in R /\ nx[b] \in B
  BY <1>2, <1>3, <1>5
<1>7. b \in R
  <2>1. b \in Reach(nx, nx[b]) /\ a \notin Reach(nx, nx[b]) /\ nx[b] \in Bytes
    BY <1>1, <1>6
  <2>2. b \in Reach(new, nx[b])
    BY <1>1, <2>1, ComesTo
  <2> QED
    BY <1>1, <1>6, <2>2, ReachTrans
<1>8. nx[a] \in R
  BY <1>3, <1>7
<1> HIDE DEF R
<1>9. A \subseteq R
  <2>1. ASSUME NEW w \in R \cap A
        PROVE  nx[w] \in R \cap A
    <3>1. CASE w = a
      BY <1>2, <1>8, <3>1
    <3>2. CASE w # a
      <4>1. w \in Bytes \ {a, b}
        BY <1>1, <3>2
      <4> QED
        BY <1>2, <1>3, <4>1
    <3> QED
      BY <3>1, <3>2
  <2>2. R \cap A \subseteq Bytes /\ a \in R \cap A
    BY <1>5
  <2>3. Reach(nx, a) \subseteq R \cap A
    BY <2>1, <2>2, ReachLeast
  <2> QED
    BY <2>3
<1>10. B \subseteq R
  <2>1. ASSUME NEW w \in R \cap B
        PROVE  nx[w] \in R \cap B
    <3>1. CASE w = b
      BY <1>6, <3>1
    <3>2. CASE w # b
      <4>1. w \in Bytes \ {a, b}
        BY <1>1, <3>2
      <4> QED
        BY <1>2, <1>3, <4>1
    <3> QED
      BY <3>1, <3>2
  <2>2. R \cap B \subseteq Bytes /\ b \in R \cap B
    BY <1>7
  <2>3. Reach(nx, b) \subseteq R \cap B
    BY <2>1, <2>2, ReachLeast
  <2> QED
    BY <2>3
<1> QED
  BY <1>4, <1>9, <1>10 DEF R

\* The other lists stay as they are.
LEMMA SplicedApart ==
    ASSUME NEW nx \in [Bytes -> Bytes], NEW new \in [Bytes -> Bytes], NEW a \in Bytes, NEW b \in Bytes,
           \A w \in Bytes \ {a, b} : new[w] = nx[w],
           NEW x \in Bytes, a \notin Reach(nx, x), b \notin Reach(nx, x)
    PROVE  Reach(new, x) = Reach(nx, x)
<1>1. Reach(nx, x) \subseteq Bytes /\ x \in Reach(nx, x) /\ \A w \in Reach(nx, x) : nx[w] \in Reach(nx, x)
  BY ReachFacts
<1>2. Reach(new, x) \subseteq Bytes /\ x \in Reach(new, x) /\ \A w \in Reach(new, x) : new[w] \in Reach(new, x)
  BY ReachFacts
<1>3. \A w \in Reach(nx, x) : w \in Bytes \ {a, b}
  BY <1>1
<1>4. \A w \in Reach(nx, x) : new[w] \in Reach(nx, x)
  BY <1>1, <1>3
<1>5. Reach(new, x) \subseteq Reach(nx, x)
  BY <1>1, <1>4, ReachLeast
<1>6. \A w \in Reach(new, x) : nx[w] \in Reach(new, x)
  BY <1>2, <1>3, <1>5
<1>7. Reach(nx, x) \subseteq Reach(new, x)
  BY <1>2, <1>6, ReachLeast
<1> QED
  BY <1>5, <1>7

-----------------------------------------------------------------------------
(* merge *)

\* The bytes of the class of x.
Class(u, x) == {y \in Bytes : Root(u.parent, y) = Root(u.parent, x)}

\* The vectors are a forest and lists of the same classes.
WellFormed(u) ==
    /\ u = [parent |-> u.parent, next |-> u.next, rank |-> u.rank]
    /\ Forest(u.parent, u.rank)
    /\ u.next \in [Bytes -> Bytes]
    /\ \A x \in Bytes : Reach(u.next, x) = Class(u, x)

Related(u, x, y) == Root(u.parent, x) = Root(u.parent, y)

\* x and y are related after the classes of a and b were joined.
Joined(u, a, b, x, y) ==
    \/ Related(u, x, y)
    \/ /\ Related(u, x, a) \/ Related(u, x, b)
       /\ Related(u, y, a) \/ Related(u, y, b)

\* merge joins the classes of x and y, in the forest and in the lists.
LEMMA MergeFacts ==
    ASSUME NEW u, WellFormed(u), NEW x \in Bytes, NEW y \in Bytes
    PROVE  /\ WellFormed(merge(u, x, y))
           /\ \A z, w \in Bytes : Related(merge(u, x, y), z, w) <=> Joined(u, x, y, z, w)
<1> DEFINE p == Compressed(Compressed(u.parent, x), y)
           xr == Root(p, x)
           yr == Root(p, y)
           spliced == [u.next EXCEPT ![xr] = u.next[yr], ![yr] = u.next[xr]]
           m == merge(u, x, y)
<1>1. /\ u = [parent |-> u.parent, next |-> u.next, rank |-> u.rank]
      /\ Forest(u.parent, u.rank) /\ u.next \in [Bytes -> Bytes] /\ u.rank \in [Bytes -> Nat]
      /\ \A z \in Bytes : Reach(u.next, z) = Class(u, z)
  BY DEF WellFormed, Forest
<1>2. Forest(p, u.rank) /\ \A z \in Bytes : Root(p, z) = Root(u.parent, z)
  <2>1. Forest(Compressed(u.parent, x), u.rank)
        /\ \A z \in Bytes : Root(Compressed(u.parent, x), z) = Root(u.parent, z)
    BY <1>1, CompressedFacts
  <2>2. Forest(p, u.rank) /\ \A z \in Bytes : Root(p, z) = Root(Compressed(u.parent, x), z)
    BY <2>1, CompressedFacts
  <2> QED
    BY <2>1, <2>2
<1>3. /\ xr \in Bytes /\ yr \in Bytes /\ p[xr] = xr /\ p[yr] = yr
      /\ Root(u.parent, xr) = xr /\ Root(u.parent, yr) = yr
  BY <1>2, RootFacts, RootStep
<1>4. m = IF xr = yr THEN [u EXCEPT !.parent = p]
          ELSE IF u.rank[xr] < u.rank[yr]
          THEN [u EXCEPT !.parent = [p EXCEPT ![xr] = yr], !.next = spliced]
          ELSE [parent |-> [p EXCEPT ![yr] = xr], next |-> spliced,
                rank |-> IF u.rank[xr] = u.rank[yr] THEN [u.rank EXCEPT ![xr] = @ + 1]
                         ELSE u.rank]
  BY DEF merge
<1>5. \A z \in Bytes : Root(u.parent, z) \in Bytes
  BY <1>1, RootFacts
<1>6. Root(u.parent, x) = xr /\ Root(u.parent, y) = yr
  BY <1>2
<1> HIDE DEF p, xr, yr, m
<1>7. CASE xr = yr
  <2>1. m.parent = p /\ m.next = u.next /\ m.rank = u.rank
        /\ m = [parent |-> m.parent, next |-> m.next, rank |-> m.rank]
    BY <1>1, <1>4, <1>7
  <2>2. \A z, w \in Bytes : Related(m, z, w) <=> Related(u, z, w)
    BY <1>2, <2>1 DEF Related
  <2>3. \A z \in Bytes : Class(m, z) = Class(u, z)
    BY <1>2, <2>1 DEF Class
  <2>4. WellFormed(m)
    BY <1>1, <1>2, <2>1, <2>3 DEF WellFormed
  <2>5. \A z, w \in Bytes : Joined(u, x, y, z, w) <=> Related(u, z, w)
    BY <1>6, <1>7 DEF Joined, Related
  <2> QED
    BY <2>2, <2>4, <2>5 DEF m
<1>8. CASE xr # yr
  <2>1. spliced \in [Bytes -> Bytes] /\ spliced[xr] = u.next[yr] /\ spliced[yr] = u.next[xr]
        /\ \A w \in Bytes \ {xr, yr} : spliced[w] = u.next[w]
    BY <1>1, <1>3, <1>8
  <2> HIDE DEF spliced
  <2>2. \E a, b \in {xr, yr} :
          /\ a # b
          /\ m = [parent |-> m.parent, next |-> m.next, rank |-> m.rank]
          /\ m.next = spliced
          /\ Forest(m.parent, m.rank)
          /\ \A z \in Bytes : Root(m.parent, z) = IF Root(p, z) = b THEN a ELSE Root(p, z)
    <3>1. CASE u.rank[xr] < u.rank[yr]
      <4>1. m.parent = [p EXCEPT ![xr] = yr] /\ m.next = spliced /\ m.rank = u.rank
            /\ m = [parent |-> m.parent, next |-> m.next, rank |-> m.rank]
        BY <1>1, <1>4, <1>8, <3>1
      <4>2. /\ Forest(m.parent, m.rank)
            /\ \A z \in Bytes : Root(m.parent, z) = IF Root(p, z) = xr THEN yr ELSE Root(p, z)
        <5> DEFINE rk == u.rank
        <5>1. /\ Forest(p, rk) /\ rk \in [Bytes -> Nat] /\ rk[yr] <= rk[yr] /\ rk[xr] < rk[yr]
              /\ \A z \in Bytes \ {yr} : rk[z] = rk[z]
          BY <1>1, <1>2, <1>3, <3>1
        <5> HIDE DEF rk
        <5> DEFINE q == [p EXCEPT ![xr] = yr]
        <5>2. q \in [Bytes -> Bytes] /\ \A z \in Bytes : q[z] = IF z = xr THEN yr ELSE p[z]
          BY <1>3, <5>1 DEF Forest
        <5>3. m.parent = q /\ m.rank = rk
          BY <4>1 DEF rk
        <5> HIDE DEF q
        <5>4. Linked(p, rk, yr, xr, q, rk)
          BY <1>3, <1>8, <5>1, <5>2 DEF Linked
        <5>5. Forest(q, rk) /\ \A z \in Bytes : Root(q, z) = IF Root(p, z) = xr THEN yr ELSE Root(p, z)
          BY <5>4, LinkFacts
        <5> QED
          BY <5>3, <5>5
      <4> QED
        BY <1>8, <4>1, <4>2
    <3>2. CASE ~(u.rank[xr] < u.rank[yr])
      <4> DEFINE high == IF u.rank[xr] = u.rank[yr] THEN [u.rank EXCEPT ![xr] = @ + 1] ELSE u.rank
      <4>1. m.parent = [p EXCEPT ![yr] = xr] /\ m.next = spliced /\ m.rank = high
            /\ m = [parent |-> m.parent, next |-> m.next, rank |-> m.rank]
        BY <1>1, <1>4, <1>8, <3>2
      <4>2. high \in [Bytes -> Nat] /\ (\A z \in Bytes \ {xr} : high[z] = u.rank[z])
            /\ u.rank[xr] <= high[xr] /\ high[yr] < high[xr]
        <5>1. u.rank[xr] \in Nat /\ u.rank[yr] \in Nat
          BY <1>1, <1>3
        <5>2. CASE u.rank[xr] = u.rank[yr]
          <6>1. high = [u.rank EXCEPT ![xr] = u.rank[xr] + 1]
            BY <5>2
          <6> HIDE DEF high
          <6> QED
            BY <1>1, <1>3, <1>8, <5>1, <5>2, <6>1
        <5>3. CASE u.rank[xr] # u.rank[yr]
          <6>1. high = u.rank
            BY <5>3
          <6> HIDE DEF high
          <6> QED
            BY <1>1, <1>3, <1>8, <3>2, <5>1, <5>3, <6>1
        <5> QED
          BY <5>2, <5>3
      <4> HIDE DEF high
      <4>3. /\ Forest(m.parent, m.rank)
            /\ \A z \in Bytes : Root(m.parent, z) = IF Root(p, z) = yr THEN xr ELSE Root(p, z)
        <5> DEFINE rk == u.rank
        <5>1. /\ Forest(p, rk) /\ (\A z \in Bytes \ {xr} : high[z] = rk[z])
              /\ rk[xr] <= high[xr] /\ high[yr] < high[xr] /\ high \in [Bytes -> Nat]
          BY <1>2, <4>2
        <5> HIDE DEF rk
        <5> DEFINE q == [p EXCEPT ![yr] = xr]
        <5>2. q \in [Bytes -> Bytes] /\ \A z \in Bytes : q[z] = IF z = yr THEN xr ELSE p[z]
          BY <1>3, <5>1 DEF Forest
        <5>3. m.parent = q /\ m.rank = high
          BY <4>1 DEF rk
        <5> HIDE DEF q
        <5>4. Linked(p, rk, xr, yr, q, high)
          BY <1>3, <1>8, <5>1, <5>2 DEF Linked
        <5>5. Forest(q, high) /\ \A z \in Bytes : Root(q, z) = IF Root(p, z) = yr THEN xr ELSE Root(p, z)
          BY <5>4, LinkFacts
        <5> QED
          BY <5>3, <5>5
      <4> QED
        BY <1>8, <4>1, <4>3
    <3> QED
      BY <3>1, <3>2
  <2>3. PICK a \in {xr, yr}, b \in {xr, yr} :
          /\ a # b
          /\ m = [parent |-> m.parent, next |-> m.next, rank |-> m.rank]
          /\ m.next = spliced
          /\ Forest(m.parent, m.rank)
          /\ \A z \in Bytes : Root(m.parent, z) = IF Root(p, z) = b THEN a ELSE Root(p, z)
    BY <2>2
  <2>4. \A z, w \in Bytes : Related(m, z, w) <=> Joined(u, x, y, z, w)
    BY <1>2, <1>6, <2>3 DEF Related, Joined
  <2> DEFINE A == Class(u, xr)
             B == Class(u, yr)
  <2>5. A \subseteq Bytes /\ B \subseteq Bytes /\ A \cap B = {} /\ xr \in A /\ yr \in B
    BY <1>3, <1>8 DEF Class
  <2>6. (\A z \in A : Reach(u.next, z) = A) /\ (\A z \in B : Reach(u.next, z) = B)
    BY <1>1 DEF Class
  <2>7. \A z \in Bytes : Class(m, z) = IF z \in A \cup B THEN A \cup B ELSE Class(u, z)
    BY <1>2, <1>3, <1>5, <2>3 DEF Class
  <2> DEFINE nx == u.next
  <2>8. /\ nx \in [Bytes -> Bytes] /\ spliced[xr] = nx[yr] /\ spliced[yr] = nx[xr]
         /\ (\A w \in Bytes \ {xr, yr} : spliced[w] = nx[w])
         /\ (\A w \in A : Reach(nx, w) = A) /\ (\A w \in B : Reach(nx, w) = B)
    BY <1>1, <2>1, <2>6
  <2> HIDE DEF A, B, nx
  <2>9. ASSUME NEW z \in Bytes
        PROVE  Reach(spliced, z) = Class(m, z)
    <3>1. CASE z \in A
      <4>1. Reach(spliced, z) = A \cup B
        <5>1. Spliced(nx, spliced, A, B, xr, yr)
          BY <2>1, <2>5, <2>8 DEF Spliced
        <5> QED
          BY <3>1, <5>1, SplicedTogether
      <4> QED
        BY <2>7, <3>1, <4>1
    <3>2. CASE z \in B
      <4>1. B \cap A = {} /\ \A w \in Bytes \ {yr, xr} : spliced[w] = nx[w]
        BY <2>5, <2>8
      <4>2. Reach(spliced, z) = B \cup A
        <5>1. Spliced(nx, spliced, B, A, yr, xr)
          BY <2>1, <2>5, <2>8, <4>1 DEF Spliced
        <5> QED
          BY <3>2, <5>1, SplicedTogether
      <4> QED
        BY <2>7, <3>2, <4>2
    <3>3. CASE z \notin A \cup B
      <4>1. xr \notin Reach(nx, z) /\ yr \notin Reach(nx, z)
        BY <1>1, <3>3 DEF Class, A, B, nx
      <4>2. Reach(spliced, z) = Reach(nx, z)
        BY <1>3, <2>1, <2>8, <4>1, SplicedApart
      <4> QED
        BY <1>1, <2>7, <3>3, <4>2 DEF nx
    <3> QED
      BY <3>1, <3>2, <3>3
  <2>10. WellFormed(m)
    BY <2>1, <2>3, <2>9 DEF WellFormed
  <2> QED
    BY <2>4, <2>10 DEF m
<1> QED
  BY <1>7, <1>8

-----------------------------------------------------------------------------
(* Loops: recursive functions over an interval. *)

\* Induction from 0 to N.
LEMMA Climbs ==
    ASSUME NEW N \in Nat, NEW V, 0 \in V, \A n \in 1 .. N : n - 1 \in V => n \in V
    PROVE  \A n \in 0 .. N : n \in V
<1> DEFINE T == {n \in 0 .. N : n \notin V}
<1>1. ASSUME T # {}
      PROVE  FALSE
  <2>1. T \subseteq Nat
    OBVIOUS
  <2>2. PICK n \in T : \A k \in T : n <= k
    BY <1>1, <2>1, Least
  <2>3. n \in 0 .. N /\ n \notin V
    OBVIOUS
  <2>4. n \in 1 .. N /\ n - 1 \in 0 .. N /\ ~(n <= n - 1)
    BY <2>3
  <2>5. n - 1 \notin T
    <3> HIDE DEF T
    <3> QED
      BY <2>2, <2>4
  <2> QED
    BY <2>3, <2>4, <2>5
<1> QED
  BY <1>1

\* A loop of N rounds on W that starts with base, and a run of it.
Rounds(N, W, base, G) == N \in Nat /\ base \in W /\ G \in [1 .. N -> [W -> W]]

Runs(N, W, base, G) ==
    \E f \in [0 .. N -> W] : f[0] = base /\ \A n \in 1 .. N : f[n] = G[n][f[n - 1]]

LEMMA Iterates ==
    ASSUME NEW N, NEW W, NEW base, NEW G, Rounds(N, W, base, G)
    PROVE  Runs(N, W, base, G)
<1> USE DEF Rounds
<1> DEFINE Goes(k) == \E f \in [0 .. k -> W] : f[0] = base /\ \A n \in 1 .. k : f[n] = G[n][f[n - 1]]
           V == {k \in 0 .. N : Goes(k)}
<1>1. 0 \in V
  <2> DEFINE f == [n \in 0 .. 0 |-> base]
  <2>1. f \in [0 .. 0 -> W] /\ f[0] = base
    OBVIOUS
  <2>2. \A n \in 1 .. 0 : f[n] = G[n][f[n - 1]]
    OBVIOUS
  <2> HIDE DEF f
  <2>3. Goes(0)
    BY <2>1, <2>2
  <2> QED
    BY <2>3
<1>2. ASSUME NEW k \in 1 .. N, k - 1 \in V
      PROVE  k \in V
  <2>1. PICK f \in [0 .. k - 1 -> W] : f[0] = base /\ \A n \in 1 .. k - 1 : f[n] = G[n][f[n - 1]]
    BY <1>2
  <2> DEFINE last == G[k][f[k - 1]]
  <2>2. last \in W
    <3>1. k - 1 \in 0 .. k - 1
      OBVIOUS
    <3>2. f[k - 1] \in W
      BY <3>1
    <3>3. G[k] \in [W -> W]
      OBVIOUS
    <3> QED
      BY <3>2, <3>3
  <2> HIDE DEF last
  <2> DEFINE g == [n \in 0 .. k |-> IF n = k THEN last ELSE f[n]]
  <2>3. \A n \in 0 .. k : n # k => n \in 0 .. k - 1
    OBVIOUS
  <2>4. g \in [0 .. k -> W] /\ g[k] = last /\ \A n \in 0 .. k - 1 : g[n] = f[n]
    BY <2>2, <2>3
  <2> HIDE DEF g
  <2>5. ASSUME NEW n \in 1 .. k
        PROVE  g[n] = G[n][g[n - 1]]
    <3>1. n - 1 \in 0 .. k - 1 /\ g[n - 1] = f[n - 1]
      BY <2>4
    <3>2. CASE n = k
      BY <2>4, <3>1, <3>2 DEF last
    <3>3. CASE n # k
      <4>1. n \in 1 .. k - 1 /\ n \in 0 .. k - 1
        BY <3>3
      <4> QED
        BY <2>1, <2>4, <3>1, <4>1
    <3> QED
      BY <3>2, <3>3
  <2>6. g[0] = base
    <3>1. 0 \in 0 .. k - 1
      OBVIOUS
    <3> QED
      BY <2>1, <2>4, <3>1
  <2>7. Goes(k)
    BY <2>4, <2>5, <2>6
  <2>8. k \in 0 .. N
    OBVIOUS
  <2> QED
    BY <2>7, <2>8
<1> HIDE DEF V
<1>3. \A n \in 0 .. N : n \in V
  BY <1>1, <1>2, Climbs
<1>4. N \in 0 .. N
  OBVIOUS
<1> QED
  BY <1>3, <1>4 DEF V, Runs

-----------------------------------------------------------------------------
(* The loops of save_constraint. *)

\* The first byte that find_first returns is the least one.
LEMMA MinIs ==
    ASSUME NEW S, S \subseteq Nat, S # {}
    PROVE  Min(S) \in S /\ \A k \in S : Min(S) <= k
<1>1. PICK m \in S : \A k \in S : m <= k
  BY Least
<1> QED
  BY <1>1 DEF Min

Vectors == [parent : [Bytes -> Bytes], next : [Bytes -> Bytes], rank : [Bytes -> Nat]]

LEMMA WellFormedVectors ==
    ASSUME NEW u, WellFormed(u)
    PROVE  u \in Vectors
BY DEF WellFormed, Forest, Vectors

\* What the loop of MergeAll works on.
Loop == {r \in [u : Vectors, root : Bytes] : WellFormed(r.u)}

\* One round of it.
Round(S, r, b) ==
    IF b \notin S \ {Min(S)} THEN r
    ELSE [u |-> merge(r.u, r.root, b), root |-> Root(merge(r.u, r.root, b).parent, b)]

\* A round keeps the vectors well formed.
LEMMA RoundFacts ==
    ASSUME NEW S, NEW r \in Loop, NEW b \in Bytes
    PROVE  Round(S, r, b) \in Loop
<1>1. WellFormed(r.u) /\ r.root \in Bytes
  BY DEF Loop
<1> DEFINE v == merge(r.u, r.root, b)
<1>2. WellFormed(v)
  BY <1>1, MergeFacts
<1> HIDE DEF v
<1>3. v \in Vectors /\ Root(v.parent, b) \in Bytes
  <2>1. Forest(v.parent, v.rank)
    BY <1>2 DEF WellFormed
  <2>2. Root(v.parent, b) \in Bytes
    BY <2>1, RootFacts
  <2> QED
    BY <1>2, <2>2, WellFormedVectors
<1>4. [u |-> v, root |-> Root(v.parent, b)] \in Loop
  BY <1>2, <1>3 DEF Loop
<1> QED
  BY <1>4 DEF Round, v

\* MergeAll goes through all its rounds.
LEMMA MergeAllRounds ==
    ASSUME NEW u, WellFormed(u), NEW S, S \subseteq Bytes, S # {}
    PROVE  \E m : /\ MergeAll(u, S) = m[InputSize]
                  /\ m[0] = [u |-> u, root |-> Min(S)]
                  /\ m[0] \in Loop
                  /\ \A n \in 1 .. InputSize : m[n] = Round(S, m[n - 1], n - 1)
<1> DEFINE base == [u |-> u, root |-> Min(S)]
           Step(m, n) == IF n = 0 THEN base
                         ELSE LET before == m[n - 1]
                                  v == merge(before.u, before.root, n - 1)
                              IN  IF n - 1 \notin S \ {Min(S)} THEN before
                                  ELSE [u |-> v, root |-> Root(v.parent, n - 1)]
<1>1. InputSize \in Nat /\ Bytes \subseteq Nat
  BY NestedAssumption DEF Bytes
<1>2. base \in Loop
  <2>1. Min(S) \in S
    BY <1>1, MinIs
  <2> QED
    BY <2>1, WellFormedVectors DEF Loop
<1>3. \A n \in 1 .. InputSize : n - 1 \in Bytes
  BY <1>1 DEF Bytes
<1> DEFINE G == [n \in 1 .. InputSize |-> [r \in Loop |-> Round(S, r, n - 1)]]
<1>4. G \in [1 .. InputSize -> [Loop -> Loop]]
  <2>1. \A n \in 1 .. InputSize, r \in Loop : Round(S, r, n - 1) \in Loop
    BY <1>3, RoundFacts
  <2> QED
    BY <2>1
<1>5. \A n \in 1 .. InputSize, r \in Loop : G[n][r] = Round(S, r, n - 1)
  OBVIOUS
<1> HIDE DEF base, G
<1>6. PICK f \in [0 .. InputSize -> Loop] : f[0] = base /\ \A n \in 1 .. InputSize : f[n] = G[n][f[n - 1]]
  <2>1. Rounds(InputSize, Loop, base, G)
    BY <1>1, <1>2, <1>4 DEF Rounds
  <2> QED
    BY <2>1, Iterates DEF Runs
<1>7. \A n \in 1 .. InputSize : n - 1 \in 0 .. InputSize /\ n # 0 /\ n \in 0 .. InputSize
  BY <1>1
<1>8. \A n \in 1 .. InputSize : f[n] = Round(S, f[n - 1], n - 1)
  BY <1>5, <1>6, <1>7
<1>9. \A m, n : n # 0 => Step(m, n) = Round(S, m[n - 1], n - 1)
  BY DEF Round
<1>10. \A m : Step(m, 0) = base
  OBVIOUS
<1> HIDE DEF Step
<1>11. \A n \in 0 .. InputSize : f[n] = Step(f, n)
  <2>1. ASSUME NEW n \in 0 .. InputSize
        PROVE  f[n] = Step(f, n)
    <3>1. CASE n = 0
      BY <1>6, <1>10, <3>1
    <3>2. CASE n # 0
      <4>1. n \in 1 .. InputSize
        BY <1>1, <3>2
      <4> QED
        BY <1>8, <1>9, <3>2, <4>1
    <3> QED
      BY <3>1, <3>2
  <2> QED
    BY <2>1
<1>12. f = [n \in 0 .. InputSize |-> Step(f, n)]
  BY <1>11
<1> DEFINE m == CHOOSE m : m = [n \in 0 .. InputSize |-> Step(m, n)]
<1>13. m = [n \in 0 .. InputSize |-> Step(m, n)]
  BY <1>12, Zenon
<1>14. MergeAll(u, S) = m[InputSize]
  BY Zenon DEF MergeAll, Step, base
<1> HIDE DEF m
<1>15. \A n \in 0 .. InputSize : m[n] = Step(m, n)
  BY <1>13, Zenon
<1>16. m[0] = base
  <2>1. 0 \in 0 .. InputSize
    BY <1>1
  <2> QED
    BY <1>10, <1>15, <2>1
<1>17. \A n \in 1 .. InputSize : m[n] = Round(S, m[n - 1], n - 1)
  BY <1>7, <1>9, <1>15
<1> QED
  BY <1>2, <1>14, <1>16, <1>17 DEF base

\* z is related to a byte of T.
Touches(u, T, z) == \E s \in T : Related(u, z, s)

\* r is what the loop has after the bytes of T were merged in u.
Merged(u, T, r) ==
    /\ r \in Loop
    /\ T \subseteq Bytes
    /\ \E a \in T : Related(r.u, r.root, a)
    /\ \A z, w \in Bytes :
         Related(r.u, z, w) <=> Related(u, z, w) \/ (Touches(u, T, z) /\ Touches(u, T, w))

\* A round that merges byte b adds it to what was merged.
LEMMA MergeOneMore ==
    ASSUME NEW u, NEW T, NEW r, Merged(u, T, r), NEW b \in Bytes
    PROVE  Merged(u, T \cup {b},
                  [u |-> merge(r.u, r.root, b), root |-> Root(merge(r.u, r.root, b).parent, b)])
<1> DEFINE v == merge(r.u, r.root, b)
           U == T \cup {b}
<1>1. WellFormed(r.u) /\ r.root \in Bytes /\ T \subseteq Bytes
  BY DEF Merged, Loop
<1>2. PICK a \in T : Related(r.u, r.root, a)
  BY DEF Merged
<1>3. a \in Bytes
  BY <1>1
<1>4. WellFormed(v) /\ \A z, w \in Bytes : Related(v, z, w) <=> Joined(r.u, r.root, b, z, w)
  BY <1>1, MergeFacts
<1> HIDE DEF v
<1>5. Forest(v.parent, v.rank)
  BY <1>4 DEF WellFormed
<1>6. /\ Root(v.parent, b) \in Bytes
      /\ v.parent[Root(v.parent, b)] = Root(v.parent, b)
  BY <1>5, RootFacts
<1>7. Root(v.parent, Root(v.parent, b)) = Root(v.parent, b)
  BY <1>5, <1>6, RootStep
<1> DEFINE q == [u |-> v, root |-> Root(v.parent, b)]
<1>8. q \in Loop /\ q.u = v /\ Related(q.u, q.root, b)
  <2>1. v \in Vectors
    BY <1>4, WellFormedVectors
  <2> QED
    BY <1>4, <1>6, <1>7, <2>1 DEF Loop, Related
<1>9. \A z \in Bytes : Touches(u, U, z) <=> Touches(u, T, z) \/ Related(u, z, b)
  BY DEF Touches
<1>10. \A z \in Bytes : Related(u, z, a) => Touches(u, T, z)
  BY DEF Touches
<1>11. Related(u, a, a) /\ Touches(u, T, a)
  BY DEF Touches, Related
<1>12. \A z, w \in Bytes :
         Related(r.u, z, w) <=> Related(u, z, w) \/ (Touches(u, T, z) /\ Touches(u, T, w))
  BY DEF Merged
<1>13. ASSUME NEW z \in Bytes
       PROVE  (Related(r.u, z, r.root) \/ Related(r.u, z, b)) <=> Touches(u, U, z)
  <2>1. Related(r.u, z, r.root) <=> Related(r.u, z, a)
    BY <1>2 DEF Related
  <2>2. Related(r.u, z, a) <=> Touches(u, T, z)
    BY <1>3, <1>10, <1>11, <1>12
  <2>3. Related(r.u, z, b) <=> Related(u, z, b) \/ (Touches(u, T, z) /\ Touches(u, T, b))
    BY <1>12
  <2> QED
    BY <1>9, <2>1, <2>2, <2>3
<1>14. ASSUME NEW z \in Bytes, NEW w \in Bytes
       PROVE  Related(v, z, w) <=> Related(u, z, w) \/ (Touches(u, U, z) /\ Touches(u, U, w))
  <2>1. Related(v, z, w) <=>
          Related(r.u, z, w) \/ (Touches(u, U, z) /\ Touches(u, U, w))
    BY <1>4, <1>13 DEF Joined
  <2>2. Related(r.u, z, w) <=> Related(u, z, w) \/ (Touches(u, T, z) /\ Touches(u, T, w))
    BY <1>12
  <2> QED
    BY <1>9, <2>1, <2>2
<1>15. U \subseteq Bytes /\ b \in U
  BY <1>1
<1> HIDE DEF U, q
<1>16. Merged(u, U, q)
  BY <1>8, <1>14, <1>15 DEF Merged
<1> QED
  BY <1>16 DEF U, q, v

\* MergeAll joins the classes that S touches.
LEMMA MergeAllFacts ==
    ASSUME NEW u, WellFormed(u), NEW S, S \subseteq Bytes, S # {}
    PROVE  Merged(u, S, MergeAll(u, S))
<1>1. InputSize \in Nat /\ Bytes \subseteq Nat
  BY NestedAssumption DEF Bytes
<1>2. PICK m : /\ MergeAll(u, S) = m[InputSize]
               /\ m[0] = [u |-> u, root |-> Min(S)]
               /\ m[0] \in Loop
               /\ \A n \in 1 .. InputSize : m[n] = Round(S, m[n - 1], n - 1)
  BY MergeAllRounds
<1>3. Min(S) \in S /\ Min(S) \in Bytes
  BY <1>1, MinIs
<1> DEFINE least == Min(S)
           T(n) == {least} \cup {s \in S : s < n}
           V == {n \in 0 .. InputSize : Merged(u, T(n), m[n])}
<1> HIDE DEF least
<1>4. 0 \in V
  <2>1. T(0) = {least}
    <3>1. \A s \in S : s \in Nat /\ ~(s < 0)
      BY <1>1
    <3> QED
      BY <3>1
  <2>2. m[0].u = u /\ m[0].root = least
    BY <1>2 DEF least
  <2>3. Related(u, least, least)
    BY DEF Related
  <2>4. \A z, w \in Bytes : Touches(u, {least}, z) /\ Touches(u, {least}, w) => Related(u, z, w)
    BY DEF Touches, Related
  <2>5. least \in Bytes
    BY <1>3 DEF least
  <2>6. Merged(u, {least}, m[0])
    BY <1>2, <2>2, <2>3, <2>4, <2>5 DEF Merged
  <2>7. 0 \in 0 .. InputSize
    BY <1>1
  <2> HIDE DEF T
  <2> QED
    BY <2>1, <2>6, <2>7
<1>5. ASSUME NEW n \in 1 .. InputSize, n - 1 \in V
      PROVE  n \in V
  <2>1. n - 1 \in Bytes /\ n \in 0 .. InputSize /\ n - 1 \in Nat /\ n \in Nat
    BY <1>1 DEF Bytes
  <2>2. Merged(u, T(n - 1), m[n - 1])
    BY <1>5
  <2>3. m[n] = Round(S, m[n - 1], n - 1)
    BY <1>2
  <2>4. \A s \in Nat : s < n <=> s < n - 1 \/ s = n - 1
    BY <2>1
  <2>5. CASE n - 1 \notin S \ {least}
    <3>1. T(n) = T(n - 1)
      BY <1>1, <2>4, <2>5
    <3>2. m[n] = m[n - 1]
      BY <2>3, <2>5 DEF Round, least
    <3> HIDE DEF T
    <3> QED
      BY <2>1, <2>2, <3>1, <3>2
  <2>6. CASE n - 1 \in S \ {least}
    <3>1. T(n) = T(n - 1) \cup {n - 1}
      BY <1>1, <2>4, <2>6
    <3> DEFINE r == m[n - 1]
               b == n - 1
               U == T(n - 1)
    <3>2. m[n] = [u |-> merge(r.u, r.root, b), root |-> Root(merge(r.u, r.root, b).parent, b)]
      BY <2>3, <2>6 DEF Round, least
    <3>3. b \in Bytes /\ Merged(u, U, r)
      BY <2>1, <2>2
    <3>4. T(n) = U \cup {b}
      BY <3>1
    <3> HIDE DEF T, r, b, U
    <3>5. Merged(u, U \cup {b}, m[n])
      BY <3>2, <3>3, MergeOneMore
    <3> QED
      BY <2>1, <3>4, <3>5
  <2> QED
    BY <2>5, <2>6
<1>6. \A n \in 0 .. InputSize : n \in V
  <2> HIDE DEF V
  <2> QED
    BY <1>1, <1>4, <1>5, Climbs
<1>7. InputSize \in V
  BY <1>1, <1>6
<1>8. T(InputSize) = S
  <2>1. \A s \in S : s < InputSize
    BY <1>1 DEF Bytes
  <2> QED
    BY <1>3, <2>1 DEF least
<1> HIDE DEF T
<1> QED
  BY <1>2, <1>7, <1>8

-----------------------------------------------------------------------------
(* The classes that sets of bytes make. *)

Within(sets, T) == \A m \in sets : m \cap T # {} => m \subseteq T

\* The class of S has S and is the least closed set that has it.
LEMMA ConnectedFacts ==
    ASSUME NEW sets, NEW S, S \subseteq Bytes
    PROVE  /\ S \subseteq Connected(sets, S)
           /\ Connected(sets, S) \subseteq Bytes
           /\ \A T \in SUBSET Bytes : S \subseteq T /\ Within(sets, T) => Connected(sets, S) \subseteq T
BY DEF Connected, Within

\* The bytes of a merged set are connected.
LEMMA ConnectedOfSet ==
    ASSUME NEW sets, NEW m \in sets, m \subseteq Bytes, NEW x \in m, NEW y \in m
    PROVE  y \in Connected(sets, {x})
<1>1. ASSUME NEW T \in SUBSET Bytes, {x} \subseteq T, \A k \in sets : k \cap T # {} => k \subseteq T
      PROVE  y \in T
  <2>1. m \cap T # {}
    BY <1>1
  <2> QED
    BY <1>1, <2>1
<1> QED
  BY <1>1 DEF Connected

\* The classes of the forest are the ones that the sets make.
Agree(u, sets) == \A x, y \in Bytes : y \in Connected(sets, {x}) <=> Related(u, x, y)

\* Merging the bytes of S in the forest makes the class that adding S to the sets makes.
LEMMA AgreeAfterMerge ==
    ASSUME NEW u, NEW sets, sets \subseteq SUBSET Bytes, Agree(u, sets),
           NEW S, S \subseteq Bytes, NEW r, Merged(u, S, r)
    PROVE  Agree(r.u, sets \cup {S})
<1> DEFINE v == r.u
           new == sets \cup {S}
<1>1. \A z, w \in Bytes :
        Related(v, z, w) <=> Related(u, z, w) \/ (Touches(u, S, z) /\ Touches(u, S, w))
  BY DEF Merged
<1> HIDE DEF v
<1>2. ASSUME NEW x \in Bytes, NEW y \in Bytes, Related(v, x, y)
      PROVE  y \in Connected(new, {x})
  <2>1. ASSUME NEW T \in SUBSET Bytes, {x} \subseteq T, \A k \in new : k \cap T # {} => k \subseteq T
        PROVE  y \in T
    <3>1. Within(sets, T)
      BY <2>1 DEF Within
    <3>2. \A a \in T, b \in Bytes : Related(u, a, b) => b \in T
      <4>1. ASSUME NEW a \in T, NEW b \in Bytes, Related(u, a, b)
            PROVE  b \in T
        <5>1. b \in Connected(sets, {a})
          BY <4>1 DEF Agree
        <5>2. {a} \subseteq T /\ {a} \subseteq Bytes
          OBVIOUS
        <5> QED
          BY <3>1, <5>1, <5>2, ConnectedFacts
      <4> QED
        BY <4>1
    <3>3. CASE Related(u, x, y)
      BY <2>1, <3>2, <3>3
    <3>4. CASE Touches(u, S, x) /\ Touches(u, S, y)
      <4>1. PICK s \in S, t \in S : Related(u, x, s) /\ Related(u, y, t)
        BY <3>4 DEF Touches
      <4>2. s \in T
        BY <2>1, <3>2, <4>1
      <4>3. t \in T
        BY <2>1, <4>2
      <4>4. Related(u, t, y)
        BY <4>1 DEF Related
      <4> QED
        BY <3>2, <4>3, <4>4
    <3> QED
      BY <1>1, <1>2, <3>3, <3>4
  <2> QED
    BY <2>1 DEF Connected
<1>3. ASSUME NEW x \in Bytes, NEW y \in Bytes, y \in Connected(new, {x})
      PROVE  Related(v, x, y)
  <2> DEFINE T == {z \in Bytes : Related(v, x, z)}
  <2>1. {x} \subseteq T
    BY DEF Related
  <2>2. ASSUME NEW k \in new, k \cap T # {}
        PROVE  k \subseteq T
    <3>1. PICK a \in k : a \in T
      BY <2>2
    <3>2. k \subseteq Bytes
      OBVIOUS
    <3>3. \A b \in k : Related(v, a, b)
      <4>1. CASE k \in sets
        <5>1. \A b \in k : b \in Connected(sets, {a})
          BY <3>2, <4>1, ConnectedOfSet
        <5>2. \A b \in k : Related(u, a, b)
          BY <3>2, <5>1 DEF Agree
        <5> QED
          BY <1>1, <3>2, <5>2
      <4>2. CASE k = S
        <5>1. \A b \in S : Related(u, b, b)
          BY DEF Related
        <5>2. \A b \in S : Touches(u, S, b)
          BY <5>1 DEF Touches
        <5> QED
          BY <1>1, <3>2, <4>2, <5>2
      <4> QED
        BY <4>1, <4>2
    <3>4. Related(v, x, a)
      BY <3>1
    <3>5. \A b \in k : Related(v, x, b)
      BY <3>3, <3>4 DEF Related
    <3> QED
      BY <3>2, <3>5
  <2>3. T \subseteq Bytes
    OBVIOUS
  <2>4. y \in T
    <3> HIDE DEF T
    <3> QED
      BY <1>3, <2>1, <2>2, <2>3 DEF Connected
  <2> QED
    BY <2>4
<1> QED
  BY <1>2, <1>3 DEF Agree, v

-----------------------------------------------------------------------------
(* What save_constraint keeps true of the vectors, the buckets and the sets. *)

\* Every literal of a bucket has bytes, which are all related to the bucket.
Kindred(u, bk) ==
    \A b \in Bytes : \A lit \in Range(bk[b]) :
        /\ lit.label \in Labels
        /\ DepsOf(lit.label) # {}
        /\ \A x \in DepsOf(lit.label) : Related(u, x, b)

\* The states of the structures with literals of L in the buckets.
States(L) ==
    {st \in [u : Vectors, bucket : [Bytes -> Seq(L)], merged : SUBSET SUBSET Bytes] :
        WellFormed(st.u) /\ Agree(st.u, st.merged) /\ Kindred(st.u, st.bucket)}

\* push_back adds a literal to those of a bucket.
LEMMA AppendRange ==
    ASSUME NEW L, NEW s \in Seq(L), NEW e \in L
    PROVE  Append(s, e) \in Seq(L) /\ Range(Append(s, e)) = Range(s) \cup {e}
<1>1. Append(s, e) \in Seq(L)
  OBVIOUS
<1>2. ASSUME NEW i \in DOMAIN Append(s, e)
      PROVE  Append(s, e)[i] \in Range(s) \cup {e}
  BY DEF Range
<1>3. \A i \in DOMAIN s : i \in DOMAIN Append(s, e) /\ Append(s, e)[i] = s[i]
  OBVIOUS
<1>4. Len(s) + 1 \in DOMAIN Append(s, e) /\ Append(s, e)[Len(s) + 1] = e
  OBVIOUS
<1>5. Range(Append(s, e)) \subseteq Range(s) \cup {e}
  BY <1>2 DEF Range
<1>6. Range(s) \cup {e} \subseteq Range(Append(s, e))
  BY <1>3, <1>4 DEF Range
<1> QED
  BY <1>1, <1>5, <1>6

LEMMA DepsFacts ==
    ASSUME NEW l
    PROVE  DepsOf(l) \subseteq Bytes /\ (DepsOf(l) # {} => l \in Labels)
<1>1. CASE l \notin Labels
  BY <1>1 DEF DepsOf
<1>2. CASE l \in Labels
  <2>1. Scanned[l].left \subseteq Bytes /\ Scanned[l].right \subseteq Bytes
    BY <1>2, NestedAssumption DEF ScanResults
  <2> QED
    BY <1>2, <2>1 DEF DepsOf
<1> QED
  BY <1>1, <1>2

\* Saving one literal keeps the structures in order.
LEMMA SaveLiteralFacts ==
    ASSUME NEW L, L \subseteq Literals, NEW st \in States(L), NEW lit \in L
    PROVE  SaveLiteral(st, lit) \in States(L)
<1> DEFINE S == DepsOf(lit.label)
           u == st.u
           m == MergeAll(u, S)
           bk == [st.bucket EXCEPT ![m.root] = Append(@, lit)]
           sets == st.merged \cup {S}
<1>1. S \subseteq Bytes /\ (S # {} => lit.label \in Labels)
  BY DepsFacts
<1>2. /\ WellFormed(u) /\ Agree(u, st.merged) /\ Kindred(u, st.bucket)
      /\ st.bucket \in [Bytes -> Seq(L)] /\ st.merged \subseteq SUBSET Bytes
  BY DEF States
<1>3. SaveLiteral(st, lit) = IF S = {} THEN st ELSE [u |-> m.u, bucket |-> bk, merged |-> sets]
  BY DEF SaveLiteral
<1>4. CASE S = {}
  BY <1>3, <1>4
<1>5. CASE S # {}
  <2> HIDE DEF S
  <2>1. Merged(u, S, m)
    <3> HIDE DEF u
    <3> QED
      BY <1>1, <1>2, <1>5, MergeAllFacts
  <2> HIDE DEF m
  <2>2. m.u \in Vectors /\ WellFormed(m.u) /\ m.root \in Bytes
    BY <2>1 DEF Merged, Loop
  <2>3. Agree(m.u, sets)
    <3> DEFINE old == st.merged
    <3>1. old \subseteq SUBSET Bytes /\ Agree(u, old)
      BY <1>2
    <3> HIDE DEF u, old
    <3>2. Agree(m.u, old \cup {S})
      BY <1>1, <2>1, <3>1, AgreeAfterMerge
    <3> QED
      BY <3>2 DEF old
  <2>4. /\ bk \in [Bytes -> Seq(L)]
        /\ \A b \in Bytes : Range(bk[b]) = IF b = m.root THEN Range(st.bucket[b]) \cup {lit}
                                           ELSE Range(st.bucket[b])
    <3>1. st.bucket[m.root] \in Seq(L)
      BY <1>2, <2>2
    <3> DEFINE longer == Append(st.bucket[m.root], lit)
    <3>2. longer \in Seq(L) /\ Range(longer) = Range(st.bucket[m.root]) \cup {lit}
      <4> DEFINE s == st.bucket[m.root]
      <4> HIDE DEF s
      <4>1. s \in Seq(L)
        BY <3>1 DEF s
      <4>2. Append(s, lit) \in Seq(L) /\ Range(Append(s, lit)) = Range(s) \cup {lit}
        BY <4>1, AppendRange
      <4> QED
        BY <4>2 DEF s
    <3> HIDE DEF longer
    <3>3. bk = [st.bucket EXCEPT ![m.root] = longer]
      BY DEF longer
    <3> HIDE DEF bk
    <3>4. \A b \in Bytes : bk[b] = IF b = m.root THEN longer ELSE st.bucket[b]
      BY <1>2, <3>3
    <3>5. bk \in [Bytes -> Seq(L)]
      BY <1>2, <3>2, <3>3
    <3> QED
      BY <3>2, <3>4, <3>5
  <2> HIDE DEF bk
  <2>5. \A x, y \in Bytes : Related(u, x, y) => Related(m.u, x, y)
    BY <2>1 DEF Merged
  <2>6. \A x \in S : Related(m.u, x, m.root)
    <3>1. PICK a \in S : Related(m.u, m.root, a)
      BY <2>1 DEF Merged
    <3>2. \A b \in S : Related(u, b, b)
      BY DEF Related
    <3>3. \A b \in S : Touches(u, S, b)
      BY <3>2 DEF Touches
    <3>4. \A b \in S : Related(m.u, b, a)
      BY <1>1, <2>1, <3>3 DEF Merged
    <3> QED
      BY <3>1, <3>4 DEF Related
  <2>7. Kindred(m.u, bk)
    <3>1. ASSUME NEW b \in Bytes, NEW e \in Range(bk[b])
          PROVE  /\ e.label \in Labels
                 /\ DepsOf(e.label) # {}
                 /\ \A x \in DepsOf(e.label) : Related(m.u, x, b)
      <4>1. CASE e \in Range(st.bucket[b])
        <5>1. /\ e.label \in Labels
              /\ DepsOf(e.label) # {}
              /\ \A x \in DepsOf(e.label) : Related(u, x, b)
          BY <1>2, <4>1 DEF Kindred
        <5>2. DepsOf(e.label) \subseteq Bytes
          BY DepsFacts
        <5> QED
          BY <2>5, <5>1, <5>2
      <4>2. CASE b = m.root /\ e = lit
        BY <1>1, <1>5, <2>6, <4>2 DEF S
      <4> QED
        BY <2>4, <4>1, <4>2
    <3> QED
      BY <3>1 DEF Kindred
  <2>8. sets \in SUBSET SUBSET Bytes
    BY <1>1, <1>2
  <2> HIDE DEF sets
  <2> DEFINE new == [u |-> m.u, bucket |-> bk, merged |-> sets]
  <2>9. new \in [u : Vectors, bucket : [Bytes -> Seq(L)], merged : SUBSET SUBSET Bytes]
    BY <2>2, <2>4, <2>8
  <2>10. new.u = m.u /\ new.bucket = bk /\ new.merged = sets
    OBVIOUS
  <2>11. SaveLiteral(st, lit) = new
    BY <1>3, <1>5
  <2> HIDE DEF new
  <2> QED
    BY <2>2, <2>3, <2>7, <2>9, <2>10, <2>11 DEF States
<1> QED
  BY <1>4, <1>5

\* What follows the rounds of a loop on W stays in W.
LEMMA RoundsStay ==
    ASSUME NEW N \in Nat, NEW W, NEW m, m[0] \in W,
           \A n \in 1 .. N : m[n - 1] \in W => m[n] \in W
    PROVE  m[N] \in W
<1> DEFINE V == {n \in 0 .. N : m[n] \in W}
<1>1. 0 \in V
  OBVIOUS
<1>2. \A n \in 1 .. N : n - 1 \in V => n \in V
  OBVIOUS
<1>3. \A n \in 0 .. N : n \in V
  <2> HIDE DEF V
  <2> QED
    BY <1>1, <1>2, Climbs
<1>4. N \in 0 .. N
  OBVIOUS
<1> QED
  BY <1>3, <1>4

\* So does saving the literals of a clause, one after the other.
LEMMA SaveClauseFacts ==
    ASSUME NEW L, L \subseteq Literals, NEW st \in States(L), NEW clause \in Seq(L)
    PROVE  SaveClause(st, clause) \in States(L)
<1> DEFINE N == Len(clause)
           W == States(L)
           Step(after, n) == IF n = 0 THEN st ELSE SaveLiteral(after[n - 1], clause[n])
           G == [n \in 1 .. N |-> [s \in W |-> SaveLiteral(s, clause[n])]]
<1>1. N \in Nat /\ \A n \in 1 .. N : clause[n] \in L
  OBVIOUS
<1>2. \A n \in 1 .. N, s \in W : SaveLiteral(s, clause[n]) \in W
  BY <1>1, SaveLiteralFacts
<1> HIDE DEF N, W
<1>3. G \in [1 .. N -> [W -> W]] /\ \A n \in 1 .. N, s \in W : G[n][s] = SaveLiteral(s, clause[n])
  BY <1>2
<1> HIDE DEF G
<1>4. st \in W
  BY DEF W
<1>5. PICK f \in [0 .. N -> W] : f[0] = st /\ \A n \in 1 .. N : f[n] = G[n][f[n - 1]]
  <2>1. Rounds(N, W, st, G)
    BY <1>1, <1>3, <1>4 DEF Rounds
  <2> QED
    BY <2>1, Iterates DEF Runs
<1>6. \A n \in 1 .. N : n - 1 \in 0 .. N /\ n # 0 /\ n \in 0 .. N
  BY <1>1
<1>7. \A n \in 1 .. N : f[n] = SaveLiteral(f[n - 1], clause[n])
  BY <1>3, <1>5, <1>6
<1>8. \A n \in 0 .. N : f[n] = Step(f, n)
  <2>1. ASSUME NEW n \in 0 .. N
        PROVE  f[n] = Step(f, n)
    <3>1. CASE n = 0
      BY <1>5, <3>1
    <3>2. CASE n # 0
      <4>1. n \in 1 .. N
        BY <1>1, <3>2
      <4> QED
        BY <1>7, <3>2, <4>1
    <3> QED
      BY <3>1, <3>2
  <2> QED
    BY <2>1
<1>9. \A m, n : n # 0 => Step(m, n) = SaveLiteral(m[n - 1], clause[n])
  OBVIOUS
<1>10. \A m : Step(m, 0) = st
  OBVIOUS
<1> HIDE DEF Step
<1>11. f = [n \in 0 .. N |-> Step(f, n)]
  BY <1>8
<1> DEFINE m == CHOOSE m : m = [n \in 0 .. N |-> Step(m, n)]
<1>12. m = [n \in 0 .. N |-> Step(m, n)]
  BY <1>11, Zenon
<1>13. SaveClause(st, clause) = m[N]
  BY Zenon DEF SaveClause, Step, N
<1> HIDE DEF m
<1>14. \A n \in 0 .. N : m[n] = Step(m, n)
  BY <1>12, Zenon
<1>15. m[0] = st
  <2>1. 0 \in 0 .. N
    BY <1>1
  <2> QED
    BY <1>10, <1>14, <2>1
<1>16. \A n \in 1 .. N : m[n - 1] \in W => m[n] \in W
  BY <1>2, <1>6, <1>9, <1>14
<1>17. m[N] \in W
  BY <1>1, <1>4, <1>15, <1>16, RoundsStay
<1> QED
  BY <1>13, <1>17 DEF W

\* And the clauses of a normal form.
LEMMA SaveAllFacts ==
    ASSUME NEW L, L \subseteq Literals, NEW st \in States(L), NEW dnf \in Seq(Seq(L))
    PROVE  SaveAll(st, dnf) \in States(L)
<1> DEFINE N == Len(dnf)
           W == States(L)
           Step(after, n) == IF n = 0 THEN st ELSE SaveClause(after[n - 1], dnf[n])
           G == [n \in 1 .. N |-> [s \in W |-> SaveClause(s, dnf[n])]]
<1>1. N \in Nat /\ \A n \in 1 .. N : dnf[n] \in Seq(L)
  <2> DEFINE C == Seq(L)
  <2> HIDE DEF C
  <2>1. dnf \in Seq(C)
    BY DEF C
  <2>2. N \in Nat /\ \A n \in 1 .. N : dnf[n] \in C
    BY <2>1
  <2> QED
    BY <2>2 DEF C
<1>2. \A n \in 1 .. N, s \in W : SaveClause(s, dnf[n]) \in W
  BY <1>1, SaveClauseFacts
<1> HIDE DEF N, W
<1>3. G \in [1 .. N -> [W -> W]] /\ \A n \in 1 .. N, s \in W : G[n][s] = SaveClause(s, dnf[n])
  BY <1>2
<1> HIDE DEF G
<1>4. st \in W
  BY DEF W
<1>5. PICK f \in [0 .. N -> W] : f[0] = st /\ \A n \in 1 .. N : f[n] = G[n][f[n - 1]]
  <2>1. Rounds(N, W, st, G)
    BY <1>1, <1>3, <1>4 DEF Rounds
  <2> QED
    BY <2>1, Iterates DEF Runs
<1>6. \A n \in 1 .. N : n - 1 \in 0 .. N /\ n # 0 /\ n \in 0 .. N
  BY <1>1
<1>7. \A n \in 1 .. N : f[n] = SaveClause(f[n - 1], dnf[n])
  BY <1>3, <1>5, <1>6
<1>8. \A n \in 0 .. N : f[n] = Step(f, n)
  <2>1. ASSUME NEW n \in 0 .. N
        PROVE  f[n] = Step(f, n)
    <3>1. CASE n = 0
      BY <1>5, <3>1
    <3>2. CASE n # 0
      <4>1. n \in 1 .. N
        BY <1>1, <3>2
      <4> QED
        BY <1>7, <3>2, <4>1
    <3> QED
      BY <3>1, <3>2
  <2> QED
    BY <2>1
<1>9. \A m, n : n # 0 => Step(m, n) = SaveClause(m[n - 1], dnf[n])
  OBVIOUS
<1>10. \A m : Step(m, 0) = st
  OBVIOUS
<1> HIDE DEF Step
<1>11. f = [n \in 0 .. N |-> Step(f, n)]
  BY <1>8
<1> DEFINE m == CHOOSE m : m = [n \in 0 .. N |-> Step(m, n)]
<1>12. m = [n \in 0 .. N |-> Step(m, n)]
  BY <1>11, Zenon
<1>13. SaveAll(st, dnf) = m[N]
  BY Zenon DEF SaveAll, Step, N
<1> HIDE DEF m
<1>14. \A n \in 0 .. N : m[n] = Step(m, n)
  BY <1>12, Zenon
<1>15. m[0] = st
  <2>1. 0 \in 0 .. N
    BY <1>1
  <2> QED
    BY <1>10, <1>14, <2>1
<1>16. \A n \in 1 .. N : m[n - 1] \in W => m[n] \in W
  BY <1>2, <1>6, <1>9, <1>14
<1>17. m[N] \in W
  BY <1>1, <1>4, <1>15, <1>16, RoundsStay
<1> QED
  BY <1>13, <1>17 DEF W

-----------------------------------------------------------------------------
(* The inductive invariant. *)

\* The literals that hold for the values v, those that are no comparisons included.
Holding(v) == {lit \in Literals : lit.label \in Labels => LiteralHolds(lit, KindOf, v)}

Inv == value \in [Labels -> BOOLEAN] /\ State \in States(Literals)

HoldInv == State \in States(Holding(value))

\* The structures are in order after a reset.
LEMMA SingletonsFacts ==
    ASSUME NEW L
    PROVE  [u |-> Singletons, bucket |-> [b \in Bytes |-> <<>>], merged |-> {}] \in States(L)
<1> DEFINE u == Singletons
           bk == [b \in Bytes |-> <<>>]
           st == [u |-> u, bucket |-> bk, merged |-> {}]
<1>1. u.parent = [x \in Bytes |-> x] /\ u.next = [x \in Bytes |-> x] /\ u.rank = [x \in Bytes |-> 0]
      /\ u = [parent |-> u.parent, next |-> u.next, rank |-> u.rank]
  BY DEF Singletons
<1> HIDE DEF u
<1>2. Forest(u.parent, u.rank) /\ u.next \in [Bytes -> Bytes]
  BY <1>1 DEF Forest
<1>3. \A x \in Bytes : Root(u.parent, x) = x
  <2>1. \A x \in Bytes : u.parent[x] = x
    BY <1>1
  <2> QED
    BY <1>2, <2>1, RootStep
<1>4. \A x \in Bytes : Class(u, x) = {x}
  BY <1>3 DEF Class
<1>5. ASSUME NEW x \in Bytes
      PROVE  Reach(u.next, x) = {x}
  <2>1. \A z \in {x} : u.next[z] \in {x}
    BY <1>1
  <2>2. Reach(u.next, x) \subseteq {x}
    BY <2>1, ReachLeast
  <2>3. x \in Reach(u.next, x)
    BY <1>2, ReachFacts
  <2> QED
    BY <2>2, <2>3
<1>6. WellFormed(u)
  BY <1>1, <1>2, <1>4, <1>5 DEF WellFormed
<1>7. Agree(u, {})
  <2>1. \A x \in Bytes : Connected({}, {x}) = {x}
    BY DEF Connected
  <2> QED
    BY <1>3, <2>1 DEF Agree, Related
<1>8. bk \in [Bytes -> Seq(L)]
  OBVIOUS
<1>9. Kindred(u, bk)
  <2>1. \A b \in Bytes : Range(bk[b]) = {}
    BY DEF Range
  <2> HIDE DEF bk
  <2> QED
    BY <2>1 DEF Kindred
<1>10. u \in Vectors
  BY <1>6, WellFormedVectors
<1>11. st.u = u /\ st.bucket = bk /\ st.merged = {}
       /\ st \in [u : Vectors, bucket : [Bytes -> Seq(L)], merged : SUBSET SUBSET Bytes]
  BY <1>8, <1>10
<1> HIDE DEF st, bk
<1>12. st \in States(L)
  BY <1>6, <1>7, <1>9, <1>11 DEF States
<1> QED
  BY <1>12 DEF st, bk, u

\* save_constraint keeps the structures in order.
LEMMA SaveConstraint ==
    ASSUME NEW L, L \subseteq Literals, State \in States(L), NEW dnf \in Seq(Seq(L)), save_constraint(dnf)
    PROVE  State' \in States(L)
<1> DEFINE st == SaveAll(State, dnf)
<1>1. st \in States(L)
  BY SaveAllFacts
<1>2. parent' = st.u.parent /\ next' = st.u.next /\ rank' = st.u.rank /\ bucket' = st.bucket
      /\ merged' = st.merged
  BY DEF save_constraint
<1> HIDE DEF st
<1>3. st = [u |-> st.u, bucket |-> st.bucket, merged |-> st.merged]
      /\ st.u = [parent |-> st.u.parent, next |-> st.u.next, rank |-> st.u.rank]
  BY <1>1 DEF States, Vectors
<1>4. State' = [u |-> [parent |-> parent', next |-> next', rank |-> rank'],
                bucket |-> bucket', merged |-> merged']
  BY DEF State
<1>5. State' = [u |-> st.u, bucket |-> st.bucket, merged |-> st.merged]
  BY <1>2, <1>3, <1>4
<1> QED
  BY <1>1, <1>3, <1>5

LEMMA UnsavedState ==
    ASSUME Unsaved
    PROVE  State' = State
BY DEF Unsaved, State

LEMMA NormalFacts ==
    ASSUME NEW f \in Conds, NEW r \in BOOLEAN
    PROVE  Normal[f][r] \in Seq(Seq(Literals))
BY NestedAssumption

LEMMA OutcomeFacts ==
    ASSUME NEW f \in Conds, NEW v \in [Labels -> BOOLEAN]
    PROVE  Outcome[f][v] \in BOOLEAN
BY NestedAssumption

LEMMA OffsetFacts ==
    ASSUME NEW l \in Labels
    PROVE  Literal(l, "Equal") \in Literals
<1>1. l \in Labels /\ l \in Nat
  BY NestedAssumption
<1>2. "Equal" \in LiteralKinds
  BY DEF LiteralKinds, RelationalKinds
<1> QED
  BY <1>1, <1>2 DEF Literal, Literals

\* A step saves literals of L, saves nothing or starts over.
LEMMA StepKeeps ==
    ASSUME NEW L, L \subseteq Literals, State \in States(L), [Next]_vars,
           \A f \in Conds, add \in BOOLEAN :
             parse_cond(f, add) => Kept(f, Outcome[f][value]) \in Seq(Seq(L)),
           \A l \in Labels : Addable(l) => Literal(l, "Equal") \in L
    PROVE  State' \in States(L)
<1>1. ASSUME NEW f \in Conds, NEW add \in BOOLEAN, parse_cond(f, add)
      PROVE  State' \in States(L)
  <2> DEFINE dnf == Kept(f, Outcome[f][value])
  <2>1. dnf \in Seq(Seq(L))
    BY <1>1
  <2>2. save_constraint(dnf) \/ Unsaved
    BY <1>1 DEF parse_cond
  <2> HIDE DEF dnf
  <2> QED
    BY <2>1, <2>2, SaveConstraint, UnsavedState
<1>2. ASSUME NEW l \in Labels, add_constraints(l)
      PROVE  State' \in States(L)
  <2> DEFINE lit == Literal(l, "Equal")
             dnf == << <<lit>> >>
  <2>1. (Addable(l) /\ save_constraint(dnf)) \/ Unsaved
    BY <1>2 DEF add_constraints
  <2>2. CASE Unsaved
    BY <2>2, UnsavedState
  <2> SUFFICES ASSUME Addable(l), save_constraint(dnf)
               PROVE  State' \in States(L)
    BY <2>1, <2>2
  <2>3. lit \in L
    OBVIOUS
  <2> HIDE DEF lit
  <2>4. <<lit>> \in Seq(L)
    BY <2>3
  <2>5. dnf \in Seq(Seq(L))
    BY <2>4
  <2> HIDE DEF dnf
  <2> QED
    BY <2>5, SaveConstraint
<1>3. CASE restart
  <2>1. State' = [u |-> Singletons, bucket |-> [b \in Bytes |-> <<>>], merged |-> {}]
    BY <1>3 DEF restart, Fresh, State, Singletons
  <2> QED
    BY <2>1, SingletonsFacts
<1>4. CASE UNCHANGED vars
  BY <1>4 DEF vars, State
<1> QED
  BY <1>1, <1>2, <1>3, <1>4 DEF Next

\* The inductive invariants are true when the parser starts.
LEMMA InitInv ==
    ASSUME Init
    PROVE  Inv /\ HoldInv
<1>1. State = [u |-> Singletons, bucket |-> [b \in Bytes |-> <<>>], merged |-> {}]
  BY DEF Init, State, Singletons
<1>2. value \in [Labels -> BOOLEAN]
  BY DEF Init
<1> QED
  BY <1>1, <1>2, SingletonsFacts DEF Inv, HoldInv

\* Every step keeps the structures in order.
LEMMA NextInv ==
    ASSUME Inv, [Next]_vars
    PROVE  Inv'
<1>1. value \in [Labels -> BOOLEAN] /\ State \in States(Literals)
  BY DEF Inv
<1>2. \A f \in Conds, add \in BOOLEAN :
        parse_cond(f, add) => Kept(f, Outcome[f][value]) \in Seq(Seq(Literals))
  BY <1>1, OutcomeFacts, NormalFacts DEF Kept
<1>3. \A l \in Labels : Addable(l) => Literal(l, "Equal") \in Literals
  BY OffsetFacts
<1>4. State' \in States(Literals)
  BY <1>1, <1>2, <1>3, StepKeeps
<1>5. value' \in [Labels -> BOOLEAN]
  BY <1>1 DEF Next, parse_cond, add_constraints, restart, vars
<1> QED
  BY <1>4, <1>5 DEF Inv

\* Every step keeps true what is in the buckets, when branches are Conjunctive.
LEMMA NextHoldInv ==
    ASSUME Conjunctive, Inv, HoldInv, [Next]_vars
    PROVE  HoldInv'
<1>1. PICK v : v = value
  OBVIOUS
<1> DEFINE L == Holding(v)
<1>2. v \in [Labels -> BOOLEAN] /\ State \in States(L) /\ L \subseteq Literals
  BY <1>1 DEF Inv, HoldInv, Holding
<1>3. ASSUME NEW f \in Conds, NEW add \in BOOLEAN, parse_cond(f, add)
      PROVE  Kept(f, Outcome[f][value]) \in Seq(Seq(L))
  <2> DEFINE dnf == Normal[f][Outcome[f][v]]
             C == Seq(Literals)
             M == Seq(L)
  <2>1. dnf \in Seq(C)
    BY <1>2, OutcomeFacts, NormalFacts
  <2>2. \A c \in Range(dnf) : \A lit \in Range(c) : lit.label \in Labels => LiteralHolds(lit, KindOf, v)
    BY <1>2 DEF Conjunctive
  <2> HIDE DEF dnf
  <2>3. ASSUME NEW n \in 1 .. Len(dnf)
        PROVE  dnf[n] \in M
    <3>1. dnf[n] \in C /\ dnf[n] \in Range(dnf)
      <4> HIDE DEF C
      <4> QED
        BY <2>1 DEF Range
    <3> DEFINE c == dnf[n]
    <3>2. \A i \in 1 .. Len(c) : c[i] \in Literals /\ c[i] \in Range(c)
      <4> HIDE DEF c
      <4>1. c \in Seq(Literals)
        BY <3>1 DEF c
      <4> HIDE DEF C
      <4> QED
        BY <4>1 DEF Range
    <3>3. \A i \in 1 .. Len(c) : c[i] \in L
      BY <2>2, <3>1, <3>2 DEF Holding
    <3> HIDE DEF L, c
    <3>4. c \in Seq(Literals)
      BY <3>1 DEF c
    <3>5. c \in Seq(L)
      BY <3>3, <3>4
    <3> QED
      BY <3>5 DEF c
  <2> HIDE DEF C, M
  <2>4. dnf \in Seq(M)
    BY <2>1, <2>3
  <2> QED
    BY <1>1, <2>4 DEF M, dnf, Kept
<1>4. ASSUME NEW l \in Labels, Addable(l)
      PROVE  Literal(l, "Equal") \in L
  <2>1. v[l] /\ KindOf[l] = "Equal"
    BY <1>1, <1>4 DEF Addable
  <2>2. LiteralHolds(Literal(l, "Equal"), KindOf, v)
    BY <2>1 DEF LiteralHolds, Literal
  <2> QED
    BY <2>2, OffsetFacts DEF Holding
<1>5. State' \in States(L)
  <2> HIDE DEF L
  <2> QED
    BY <1>2, <1>3, <1>4, StepKeeps
<1>6. CASE value' = value
  BY <1>1, <1>5, <1>6 DEF HoldInv
<1>7. CASE restart
  <2>1. State' = [u |-> Singletons, bucket |-> [b \in Bytes |-> <<>>], merged |-> {}]
    BY <1>7 DEF restart, Fresh, State, Singletons
  <2> QED
    BY <2>1, SingletonsFacts DEF HoldInv
<1>8. value' = value \/ restart
  BY DEF Next, parse_cond, add_constraints, vars
<1> QED
  BY <1>6, <1>7, <1>8

-----------------------------------------------------------------------------
(* What the invariant says. *)

LEMMA InvFacts ==
    ASSUME Inv
    PROVE  \E u : /\ u.parent = parent /\ u.next = next
                  /\ WellFormed(u) /\ Agree(u, merged) /\ Kindred(u, bucket)
                  /\ bucket \in [Bytes -> Seq(Literals)]
<1> DEFINE u == [parent |-> parent, next |-> next, rank |-> rank]
<1>1. State \in States(Literals) /\ State.u = u /\ State.bucket = bucket /\ State.merged = merged
  BY DEF Inv, State
<1>2. u.parent = parent /\ u.next = next
  OBVIOUS
<1> HIDE DEF u
<1>3. WellFormed(u) /\ Agree(u, merged) /\ Kindred(u, bucket) /\ bucket \in [Bytes -> Seq(Literals)]
  BY <1>1 DEF States
<1> QED
  BY <1>2, <1>3

LEMMA InvClasses ==
    ASSUME Inv
    PROVE  ClassesAgree
<1>1. PICK u : /\ u.parent = parent /\ u.next = next
               /\ WellFormed(u) /\ Agree(u, merged)
  BY InvFacts
<1>2. ASSUME NEW x \in Bytes
      PROVE  /\ Reach(next, x) = Connected(merged, {x})
             /\ {y \in Bytes : Root(parent, y) = Root(parent, x)} = Connected(merged, {x})
  <2>1. Reach(next, x) = Class(u, x)
    BY <1>1 DEF WellFormed
  <2>2. Class(u, x) = {y \in Bytes : Root(parent, y) = Root(parent, x)}
    BY <1>1 DEF Class
  <2>3. \A y \in Bytes : y \in Connected(merged, {x}) <=> Root(parent, x) = Root(parent, y)
    BY <1>1 DEF Agree, Related
  <2>4. Connected(merged, {x}) \subseteq Bytes
    BY DEF Connected
  <2>5. {y \in Bytes : Root(parent, y) = Root(parent, x)} = Connected(merged, {x})
    BY <2>3, <2>4
  <2> QED
    BY <2>1, <2>2, <2>5
<1> QED
  BY <1>2 DEF ClassesAgree, get_set

LEMMA InvFindable ==
    ASSUME Inv
    PROVE  SavedFindable
<1>1. PICK u : u.next = next /\ WellFormed(u) /\ Kindred(u, bucket)
  BY InvFacts
<1>2. ASSUME NEW b \in Bytes, NEW x \in Bytes, NEW lit \in Range(bucket[b]),
             x \in DepsOf(lit.label)
      PROVE  b \in Reach(next, x)
  <2>1. Related(u, x, b)
    BY <1>1, <1>2 DEF Kindred
  <2>2. Reach(next, x) = Class(u, x)
    BY <1>1 DEF WellFormed
  <2> QED
    BY <2>1, <2>2 DEF Class, Related
<1> QED
  BY <1>2 DEF SavedFindable, get_set

LEMMA InvHold ==
    ASSUME HoldInv
    PROVE  SavedHold
<1>1. /\ bucket \in [Bytes -> Seq(Holding(value))]
      /\ \A b \in Bytes : \A lit \in Range(bucket[b]) : lit.label \in Labels
  BY DEF HoldInv, States, State, Kindred
<1>2. ASSUME NEW b \in Bytes, NEW lit \in Range(bucket[b])
      PROVE  LiteralHolds(lit, KindOf, value)
  <2> DEFINE H == Holding(value)
  <2>1. bucket[b] \in Seq(H)
    BY <1>1
  <2> HIDE DEF H
  <2>2. lit \in H
    BY <2>1 DEF Range
  <2> QED
    BY <1>1, <2>2 DEF H, Holding
<1> QED
  BY <1>2 DEF SavedHold, Saved

-----------------------------------------------------------------------------
(* Nested tasks. *)

\* The last byte of a variable is one of its bytes.
LEMMA MaxIs ==
    ASSUME NEW S, S \subseteq Bytes, S # {}
    PROVE  Max(S) \in S
<1>1. InputSize \in Nat /\ \A s \in S : s \in Nat /\ s < InputSize
  BY NestedAssumption DEF Bytes
<1> DEFINE T == {n \in Nat : InputSize - n \in S}
<1>2. T \subseteq Nat /\ T # {}
  <2>1. PICK s \in S : TRUE
    OBVIOUS
  <2>2. InputSize - s \in Nat /\ InputSize - (InputSize - s) = s
    BY <1>1
  <2> QED
    BY <2>1, <2>2
<1>3. PICK n \in T : \A k \in T : n <= k
  <2> HIDE DEF T
  <2> QED
    BY <1>2, Least
<1> DEFINE m == InputSize - n
<1>4. m \in S
  OBVIOUS
<1>5. ASSUME NEW s \in S
      PROVE  m >= s
  <2>1. s \in Nat /\ InputSize - s \in Nat /\ InputSize - (InputSize - s) = s
    BY <1>1
  <2>2. InputSize - s \in T
    BY <2>1
  <2>3. n \in Nat /\ n <= InputSize - s
    BY <1>3, <2>2
  <2> QED
    BY <1>1, <2>1, <2>3
<1> HIDE DEF m
<1> QED
  BY <1>4, <1>5 DEF Max

\* What the sets connect to S is related to a byte of S.
LEMMA ConnectedTouches ==
    ASSUME NEW u, NEW sets, sets \subseteq SUBSET Bytes, Agree(u, sets), NEW S, S \subseteq Bytes,
           NEW x \in Connected(sets, S)
    PROVE  x \in Bytes /\ \E y \in S : Related(u, y, x)
<1> DEFINE T == {z \in Bytes : \E y \in S : Related(u, y, z)}
<1>1. T \subseteq Bytes /\ S \subseteq T
  BY DEF Related
<1>2. ASSUME NEW m \in sets, m \cap T # {}
      PROVE  m \subseteq T
  <2>1. PICK a \in m : a \in T
    BY <1>2
  <2>2. PICK y \in S : Related(u, y, a)
    BY <2>1
  <2>3. m \subseteq Bytes
    OBVIOUS
  <2>4. ASSUME NEW b \in m
        PROVE  b \in T
    <3>1. b \in Connected(sets, {a})
      BY <2>3, ConnectedOfSet
    <3>2. Related(u, a, b)
      BY <2>3, <3>1 DEF Agree
    <3>3. Related(u, y, b)
      BY <2>2, <3>2 DEF Related
    <3> QED
      BY <2>3, <3>3
  <2> QED
    BY <2>4
<1>3. x \in T
  <2> HIDE DEF T
  <2>1. Within(sets, T)
    BY <1>2 DEF Within
  <2> QED
    BY <1>1, <2>1, ConnectedFacts
<1> QED
  BY <1>3

LEMMA ConnectedGrows ==
    ASSUME NEW sets, NEW S, NEW x \in S, NEW y \in Connected(sets, {x})
    PROVE  y \in Connected(sets, S)
BY DEF Connected

\* The labels of the nested constraints of a clause.
LEMMA NestedLabels ==
    ASSUME NEW clause
    PROVE  LET own == {clause[i].label : i \in 1 .. Len(clause)}
               saved == {lit \in UNION {Range(bucket[b]) : b \in UNION {RelatedInputs(l) : l \in own}} :
                           lit.label \notin own}
           IN  {lit.label : lit \in Nested(clause)} = {lit.label : lit \in saved}
<1> DEFINE own == {clause[i].label : i \in 1 .. Len(clause)}
           saved == {lit \in UNION {Range(bucket[b]) : b \in UNION {RelatedInputs(l) : l \in own}} :
                       lit.label \notin own}
           labels == {lit.label : lit \in saved}
           Chosen(l) == CHOOSE lit \in saved : lit.label = l
<1>1. Nested(clause) = {Chosen(l) : l \in labels}
  BY DEF Nested
<1> HIDE DEF saved
<1>2. \A l \in labels : Chosen(l).label = l
  <2>1. ASSUME NEW l \in labels
        PROVE  Chosen(l).label = l
    <3>1. \E lit \in saved : lit.label = l
      OBVIOUS
    <3> QED
      BY <3>1
  <2> QED
    BY <2>1
<1> HIDE DEF labels, Chosen
<1>3. {lit.label : lit \in Nested(clause)} = labels
  BY <1>1, <1>2
<1> QED
  BY <1>3 DEF labels, saved

\* get_set is left with the class of one byte of the variable, the last one.
LEMMA RelatedInputsFacts ==
    ASSUME NEW u, u.next = next, WellFormed(u), NEW l
    PROVE  /\ DepsOf(l) = {} => RelatedInputs(l) = {}
           /\ DepsOf(l) # {} =>
                /\ l \in Labels /\ Max(DepsOf(l)) \in Bytes
                /\ RelatedInputs(l) = {y \in Bytes : Related(u, Max(DepsOf(l)), y)}
<1>1. CASE DepsOf(l) = {}
  BY <1>1 DEF RelatedInputs
<1>2. CASE DepsOf(l) # {}
  <2> DEFINE S == DepsOf(l)
             x == Max(S)
  <2>1. S \subseteq Bytes /\ S # {} /\ l \in Labels
    BY <1>2, DepsFacts
  <2>2. RelatedInputs(l) = Reach(next, x)
    BY <1>2 DEF RelatedInputs, get_set
  <2> HIDE DEF S
  <2>3. x \in Bytes
    BY <2>1, MaxIs
  <2>4. Reach(next, x) = {y \in Bytes : Related(u, x, y)}
    <3> HIDE DEF x
    <3> QED
      BY <2>3 DEF WellFormed, Class, Related
  <2> QED
    BY <1>2, <2>1, <2>2, <2>3, <2>4 DEF S
<1> QED
  BY <1>1, <1>2

\* The nested constraints of a clause are those near the last bytes of its own.
LEMMA TaskExact ==
    ASSUME Inv, NEW clause \in Seq(Literals)
    PROVE  Exact(TasksFor(clause))
<1>1. PICK u : /\ u.next = next /\ WellFormed(u) /\ Agree(u, merged) /\ Kindred(u, bucket)
               /\ bucket \in [Bytes -> Seq(Literals)]
  BY InvFacts
<1>2. merged \subseteq SUBSET Bytes
  BY DEF Inv, State, States
<1> DEFINE t == TasksFor(clause)
           all == {clause[i].label : i \in 1 .. Len(clause)}
           own == {lit.label : lit \in t.clause}
           last == LastBytes(own)
           near == {s \in Saved : DepsOf(s.label) \cap Connected(merged, last) # {}}
           related == {lit.label : lit \in near} \ own
           nested == {lit.label : lit \in t.nested}
           found == {lit \in UNION {Range(bucket[b]) : b \in UNION {RelatedInputs(l) : l \in all}} :
                       lit.label \notin all}
<1>3. \A l : l \in own <=> l \in all /\ l \in Labels
  <2>1. t.clause = {lit \in Range(clause) : lit.label \in Labels}
    BY DEF TasksFor, construct_task
  <2>2. Range(clause) = {clause[i] : i \in 1 .. Len(clause)}
    BY DEF Range
  <2> QED
    BY <2>1, <2>2
<1>4. nested = {lit.label : lit \in found}
  BY NestedLabels DEF TasksFor
<1>5. Exact(t) <=> nested = related
  BY DEF Exact, LabelsOf, SavedNear
<1> HIDE DEF t, all, own
<1>6. \A x : x \in last <=> \E l \in own : DepsOf(l) # {} /\ x = Max(DepsOf(l))
  BY DEF LastBytes
<1> HIDE DEF last
<1>7. \A l : DepsOf(l) # {} =>
        /\ l \in Labels /\ Max(DepsOf(l)) \in Bytes
        /\ RelatedInputs(l) = {y \in Bytes : Related(u, Max(DepsOf(l)), y)}
  BY <1>1, RelatedInputsFacts
<1>8. \A l : DepsOf(l) = {} => RelatedInputs(l) = {}
  BY <1>1, RelatedInputsFacts
<1>9. last \subseteq Bytes
  BY <1>6, <1>7
<1>10. \A b \in Bytes : \A lit \in Range(bucket[b]) :
        lit \in Saved /\ lit.label \in Labels /\ DepsOf(lit.label) # {}
        /\ \A x \in DepsOf(lit.label) : x \in Bytes /\ Related(u, x, b)
  BY <1>1, DepsFacts DEF Saved, Kindred
<1>11. ASSUME NEW lit \in found
       PROVE  lit.label \in related
  <2>1. PICK l \in all : \E b \in RelatedInputs(l) : lit \in Range(bucket[b])
    OBVIOUS
  <2>2. PICK b \in RelatedInputs(l) : lit \in Range(bucket[b])
    BY <2>1
  <2>3. DepsOf(l) # {}
    BY <1>8
  <2> DEFINE x == Max(DepsOf(l))
  <2>4. l \in own /\ x \in last /\ x \in Bytes
    BY <1>3, <1>6, <1>7, <2>3
  <2>5. b \in Bytes /\ Related(u, x, b)
    BY <1>7, <2>3
  <2> HIDE DEF x
  <2>6. lit \in Saved /\ lit.label \in Labels /\ \E y \in DepsOf(lit.label) : y \in Bytes /\ Related(u, y, b)
    BY <1>10, <2>2, <2>5
  <2>7. PICK y \in DepsOf(lit.label) : y \in Bytes /\ Related(u, y, b)
    BY <2>6
  <2>8. Related(u, x, y)
    BY <2>5, <2>7 DEF Related
  <2>9. y \in Connected(merged, {x})
    BY <1>1, <2>4, <2>7, <2>8 DEF Agree
  <2>10. y \in Connected(merged, last)
    BY <2>4, <2>9, ConnectedGrows
  <2>11. lit \in near
    BY <2>6, <2>7, <2>10
  <2>12. lit.label \notin own
    BY <1>3
  <2> HIDE DEF near, found
  <2> QED
    BY <2>11, <2>12
<1>12. ASSUME NEW s \in near, s.label \notin own
       PROVE  s \in found
  <2>1. PICK b \in Bytes : s \in Range(bucket[b])
    BY DEF Saved
  <2>2. s.label \in Labels /\ \A x \in DepsOf(s.label) : x \in Bytes /\ Related(u, x, b)
    BY <1>10, <2>1
  <2>3. PICK x \in DepsOf(s.label) : x \in Connected(merged, last)
    OBVIOUS
  <2>4. PICK z \in last : Related(u, z, x)
    BY <1>1, <1>2, <1>9, <2>3, ConnectedTouches
  <2>5. PICK l \in own : DepsOf(l) # {} /\ z = Max(DepsOf(l))
    BY <1>6
  <2>6. l \in all
    BY <1>3
  <2>7. Related(u, z, b)
    BY <2>2, <2>3, <2>4 DEF Related
  <2>8. b \in RelatedInputs(l)
    BY <1>7, <2>5, <2>7
  <2>9. s.label \notin all
    BY <1>3, <1>12, <2>2
  <2> QED
    BY <2>1, <2>6, <2>8, <2>9
<1> HIDE DEF found, near
<1>13. nested \subseteq related
  BY <1>4, <1>11
<1>14. related \subseteq nested
  BY <1>4, <1>12
<1> QED
  BY <1>5, <1>13, <1>14 DEF t

\* Every task a step makes is exact.
LEMMA NextExact ==
    ASSUME Inv, Next, NEW t \in tasks'
    PROVE  Exact(t)
<1>1. PICK f \in Conds, add \in BOOLEAN : parse_cond(f, add)
  BY DEF Next, add_constraints, restart
<1> DEFINE normal == Normal[f][~Outcome[f][value]]
           dnf == IF RootKind[f] = "Bool" THEN <<>> ELSE normal
<1>2. PICK c \in Range(dnf) : t = TasksFor(c)
  BY <1>1 DEF parse_cond
<1>3. dnf \in Seq(Seq(Literals))
  <2>1. Outcome[f][value] \in BOOLEAN
    BY OutcomeFacts DEF Inv
  <2>2. normal \in Seq(Seq(Literals))
    BY <2>1, NormalFacts
  <2> HIDE DEF normal
  <2> QED
    BY <2>2
<1>4. c \in Seq(Literals)
  <2> DEFINE C == Seq(Literals)
  <2> HIDE DEF C, dnf
  <2>1. dnf \in Seq(C)
    BY <1>3 DEF C
  <2>2. c \in C
    BY <2>1 DEF Range
  <2> QED
    BY <2>2 DEF C
<1> QED
  BY <1>2, <1>4, TaskExact

-----------------------------------------------------------------------------
(* The theorems. *)

\* The structures of the parser stay in order through any branches, offsets and
\* restarts (save_constraint, restart): ranks grow towards the roots, the lists are the
\* classes, and every bucket is in the class of the bytes of its constraints.
THEOREM NestedInvariant == Spec => []Inv
<1>1. Init => Inv
  BY InitInv
<1>2. Inv /\ [Next]_vars => Inv'
  BY NextInv
<1> QED
  BY <1>1, <1>2, PTL DEF Spec

\* For every size of the input, every program and every order of branches, the
\* forest of UnionFind, through path compression and union by rank, and its circular
\* lists, through splicing, describe the classes that the merged sets of bytes make
\* (UnionFind::find, merge, get_set).
THEOREM ClassesAreAgreed == Spec => []ClassesAgree
<1>1. Inv => ClassesAgree
  BY InvClasses
<1> QED
  BY <1>1, NestedInvariant, PTL

\* A constraint that save_constraint put in a bucket is found from each of its bytes
\* ever after, wherever later merges move the root of its class.
THEOREM SavedAreFindable == Spec => []SavedFindable
<1>1. Inv => SavedFindable
  BY InvFindable
<1> QED
  BY <1>1, NestedInvariant, PTL

\* For every program and every order of branches, the nested tasks of parse_cond have
\* the saved constraints that are connected to the last byte of a comparison of the
\* branch, all of them and no others.
THEOREM NestedAreExact == Spec => NestedExact
<1>1. Inv /\ [Next]_vars => [\A t \in tasks' : Exact(t)]_vars
  BY NextExact
<1> QED
  BY <1>1, NestedInvariant, PTL DEF Spec, NestedExact

\* When every branch is Conjunctive, the constraints in the buckets hold for the input
\* of the run: those of parse_cond, those of add_constraints, and after a restart.
THEOREM SavedAreTrue ==
    ASSUME Conjunctive
    PROVE  Spec => []SavedHold
<1>1. Init => HoldInv
  BY InitInv
<1>2. Inv /\ HoldInv /\ [Next]_vars => HoldInv'
  BY NextHoldInv
<1>3. HoldInv => SavedHold
  BY InvHold
<1> QED
  BY <1>1, <1>2, <1>3, NestedInvariant, PTL DEF Spec
=============================================================================
