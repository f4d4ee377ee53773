-------------------------- MODULE InventoryProofs --------------------------
(***************************************************************************)
(* That a row of the inventory goes back to an older report only by a      *)
(* request its agent has given up, and that the scheduler picks nodes of   *)
(* one cluster that are in the table; what the scorer picks for any list   *)
(* of nodes and any weights that are not negative: nobody only when all    *)
(* score the same, and no node without those of its cluster that are       *)
(* better in everything.                                                   *)
(***************************************************************************)
EXTENDS Inventory, SequenceTheorems, FiniteSetTheorems, WellFoundedInduction, TLAPS

(* A request has a node to go on with, and stores nodes of its agent's     *)
(* cluster only.                                                           *)
Stores(q) == q.todo # <<>> /\ \A n \in ToSet(q.todo) : n.cluster = q.of

(* Nobody knows more of a cluster than it has come to.                     *)
NotAhead ==
    /\ \A n \in Nodes(world) : table[n].stored <= version[n.cluster]
    /\ \A i \in DOMAIN requests : requests[i].version <= version[requests[i].of]

(* What an agent waits for is the newest report of its cluster there is.   *)
Newest(i) ==
    /\ \A k \in DOMAIN requests :
          requests[k].of = requests[i].of => requests[k].version <= requests[i].version
    /\ \A n \in Nodes(world) :
          n.cluster = requests[i].of => table[n].stored <= requests[i].version

(* What the steps of the inventory keep.                                   *)
IInv ==
    /\ TypeOK
    /\ \A i \in DOMAIN requests : Stores(requests[i])
    /\ NotAhead
    /\ \A i \in DOMAIN requests : requests[i].awaited => Newest(i)

-----------------------------------------------------------------------------
(* The scorer.                                                             *)

(* The filter keeps some of the nodes it gets.                             *)
LEMMA KeptIs ==
    ASSUME NEW score, NEW exact, NEW kept \in Kept(score, exact)
    PROVE  kept \subseteq DOMAIN score
BY DEF Kept

(* The parts of a pick.                                                    *)
LEMMA PickIs ==
    ASSUME NEW rows, DOMAIN rows # {}, NEW qos, NEW pick \in ScoreNodes(rows, qos)
    PROVE  \E kept \in Kept(Scores(rows, qos), Exact(qos)) :
              \E c \in Best(Scores(rows, qos), kept, Exact(qos)) :
                 pick = [cluster |-> c, nodes |-> {n \in kept : n.cluster = c}]
BY DEF ScoreNodes

(* ScoreAndFilterNodes returns nobody, or the cluster of an eligible node  *)
(* and some of the eligible nodes of that cluster: what LeadAgent and      *)
(* ResourceAgent assume of it.                                             *)
THEOREM PickIsEligible ==
    ASSUME NEW rows, NEW qos, NEW pick \in ScoreNodes(rows, qos)
    PROVE  \/ DOMAIN rows = {} /\ pick = Nobody
           \/ /\ \E n \in ToSet(rows) : n.cluster = pick.cluster
              /\ pick.nodes \subseteq {n \in ToSet(rows) : n.cluster = pick.cluster}
<1>1. CASE DOMAIN rows = {}
  BY <1>1 DEF ScoreNodes
<1>2. CASE DOMAIN rows # {}
  <2> DEFINE score == Scores(rows, qos)
             exact == Exact(qos)
  <2>1. DOMAIN score = ToSet(rows)
    BY DEF Scores
  <2> HIDE DEF score, exact
  <2>2. PICK kept \in Kept(score, exact) :
           \E c \in Best(score, kept, exact) :
              pick = [cluster |-> c, nodes |-> {n \in kept : n.cluster = c}]
    BY <1>2, PickIs DEF score, exact
  <2>3. kept \subseteq ToSet(rows)
    BY <2>1, KeptIs
  <2>4. PICK c \in Best(score, kept, exact) :
           pick = [cluster |-> c, nodes |-> {n \in kept : n.cluster = c}]
    BY <2>2
  <2>5. \E n \in ToSet(rows) : n.cluster = c
    BY <2>1 DEF Best
  <2> QED
    BY <2>3, <2>4, <2>5
<1> QED
  BY <1>1, <1>2

-----------------------------------------------------------------------------
(* Sums of scores.  What the code adds up in a loop the model adds up node *)
(* by node; that some set of nodes is a counterexample to a fact on sums   *)
(* is refuted by one with the fewest nodes.                                *)

(* f gives the sum of the scores of every set of at most n nodes of S.     *)
SumsUpTo(f, score, S, n) ==
    /\ f \in [SUBSET S -> Int]
    /\ f[{}] = 0
    /\ \A s \in SUBSET S : s # {} /\ Cardinality(s) <= n =>
          LET x == CHOOSE y \in s : TRUE IN f[s] = score[x] + f[s \ {x}]

(* The least of some numbers.                                              *)
LEMMA MinExists ==
    ASSUME NEW S \in SUBSET Nat, S # {}
    PROVE  \E x \in S : \A y \in S : x <= y
<1>1. PICK t \in S : \A u \in S : ~ (<<u, t>> \in OpToRel(<, Nat))
  BY NatLessThanWellFounded, WFMin
<1>2. \A u \in S : ~ (u < t)
  BY <1>1 DEF OpToRel
<1> QED
  BY <1>2

(* The function that MapThenSumSet of the library sums with.               *)
SumsIn(score, S) ==
    CHOOSE f : f = [s \in SUBSET S |->
        IF s = {} THEN 0
        ELSE LET x == CHOOSE y \in s : TRUE IN score[x] + f[s \ {x}]]

LEMMA TotalIs ==
    ASSUME NEW score, NEW S
    PROVE  Total(score, S) = SumsIn(score, S)[S]
BY DEF Total, MapThenSumSet, MapThenFoldSet, SumsIn

(* The sum of s, by the sums f of smaller sets.                            *)
NextSum(f, score, s) ==
    IF s = {} THEN 0 ELSE LET x == CHOOSE y \in s : TRUE IN score[x] + f[s \ {x}]

(* Taking a node away makes the set smaller by one.                        *)
LEMMA SmallerIs ==
    ASSUME NEW s, IsFiniteSet(s), s # {}
    PROVE  LET x == CHOOSE y \in s : TRUE
           IN  /\ x \in s /\ IsFiniteSet(s \ {x})
               /\ Cardinality(s) \in Nat /\ Cardinality(s \ {x}) \in Nat
               /\ Cardinality(s) = Cardinality(s \ {x}) + 1
<1> DEFINE x == CHOOSE y \in s : TRUE
<1>1. x \in s
  OBVIOUS
<1> HIDE DEF x
<1>2. /\ IsFiniteSet(s \ {x}) /\ Cardinality(s \ {x}) = Cardinality(s) - 1
  BY <1>1, FS_RemoveElement
<1>3. Cardinality(s) \in Nat /\ Cardinality(s \ {x}) \in Nat
  BY <1>2, FS_CardinalityType
<1> QED
  BY <1>1, <1>2, <1>3 DEF x

(* There are sums of sets of any number of nodes.                          *)
LEMMA SumsExist ==
    ASSUME NEW S, IsFiniteSet(S), NEW score, \A x \in S : score[x] \in Int, NEW n \in Nat
    PROVE  \E f : SumsUpTo(f, score, S, n)
<1> DEFINE T == {k \in Nat : ~ \E f : SumsUpTo(f, score, S, k)}
<1>0. \A s \in SUBSET S : IsFiniteSet(s) /\ Cardinality(s) \in Nat /\ (s # {} => Cardinality(s) # 0)
  BY FS_Subset, FS_CardinalityType, FS_EmptySet
<1>1. SUFFICES ASSUME T # {} PROVE FALSE
  OBVIOUS
<1>2. PICK k \in T : \A l \in T : k <= l
  BY <1>1, MinExists
<1>3. k # 0
  <2> DEFINE z == [s \in SUBSET S |-> 0]
  <2>1. z \in [SUBSET S -> Int] /\ z[{}] = 0
    OBVIOUS
  <2>2. \A s \in SUBSET S : s # {} => ~(Cardinality(s) <= 0)
    BY <1>0
  <2> HIDE DEF z
  <2>3. SumsUpTo(z, score, S, 0)
    BY <2>1, <2>2 DEF SumsUpTo
  <2> QED
    BY <2>3
<1>4. PICK g : SumsUpTo(g, score, S, k - 1)
  <2>1. k - 1 \in Nat /\ ~(k <= k - 1)
    BY <1>3
  <2> QED
    BY <1>2, <2>1
<1> DEFINE f == [s \in SUBSET S |-> NextSum(g, score, s)]
<1>5. g \in [SUBSET S -> Int]
  BY <1>4 DEF SumsUpTo
<1>6. \A s \in SUBSET S : s # {} =>
         LET x == CHOOSE y \in s : TRUE
         IN  x \in S /\ s \ {x} \in SUBSET S /\ Cardinality(s) = Cardinality(s \ {x}) + 1
             /\ Cardinality(s \ {x}) \in Nat
  BY <1>0, SmallerIs
<1>7. f \in [SUBSET S -> Int] /\ f[{}] = 0
  BY <1>5, <1>6 DEF NextSum
<1>8. ASSUME NEW s \in SUBSET S, Cardinality(s) <= k - 1 PROVE f[s] = g[s]
  <2>1. CASE s = {}
    BY <1>4, <1>7, <2>1 DEF SumsUpTo
  <2>2. CASE s # {}
    BY <1>4, <1>8, <2>2 DEF SumsUpTo, NextSum
  <2> QED
    BY <2>1, <2>2
<1>9. ASSUME NEW s \in SUBSET S, s # {}, Cardinality(s) <= k
      PROVE  LET x == CHOOSE y \in s : TRUE IN f[s] = score[x] + f[s \ {x}]
  <2> DEFINE x == CHOOSE y \in s : TRUE
  <2>1. f[s] = score[x] + g[s \ {x}]
    BY <1>9 DEF NextSum
  <2>2. s \ {x} \in SUBSET S /\ Cardinality(s \ {x}) <= k - 1
    BY <1>6, <1>9
  <2> HIDE DEF f
  <2>3. f[s \ {x}] = g[s \ {x}]
    BY <1>8, <2>2
  <2> QED
    BY <2>1, <2>3
<1> HIDE DEF f
<1>10. SumsUpTo(f, score, S, k)
  BY <1>7, <1>9 DEF SumsUpTo
<1> QED
  BY <1>10

(* Summing one score after the other, as the code does, is a sum.          *)
LEMMA SumsAre ==
    ASSUME NEW S, IsFiniteSet(S), NEW score, \A x \in S : score[x] \in Int
    PROVE  \E f : /\ f \in [SUBSET S -> Int] /\ f[{}] = 0 /\ Total(score, S) = f[S]
                  /\ \A s \in SUBSET S : s # {} =>
                        LET x == CHOOSE y \in s : TRUE
                        IN  x \in s /\ f[s] = score[x] + f[s \ {x}]
<1> DEFINE c == Cardinality(S)
           h == SumsIn(score, S)
           Is(f) == f = [s \in SUBSET S |-> NextSum(f, score, s)]
<1>1. c \in Nat /\ \A s \in SUBSET S : IsFiniteSet(s) /\ Cardinality(s) \in Nat /\ Cardinality(s) <= c
  BY FS_Subset, FS_CardinalityType
<1>2. PICK g : SumsUpTo(g, score, S, c)
  BY <1>1, SumsExist
<1>3. Is(g)
  <2>1. \A s \in SUBSET S : g[s] = NextSum(g, score, s)
    BY <1>1, <1>2 DEF SumsUpTo, NextSum
  <2> QED
    BY <1>2, <2>1 DEF SumsUpTo
<1>4. Is(h)
  <2>1. h = CHOOSE f : Is(f)
    BY DEF SumsIn, NextSum
  <2> HIDE DEF h, Is
  <2> QED
    BY <1>3, <2>1
<1> HIDE DEF h
<1>5. DOMAIN h = SUBSET S /\ \A s \in SUBSET S : h[s] = NextSum(h, score, s)
  BY <1>4
<1>6. \A s \in SUBSET S : h[s] = g[s]
  <2> DEFINE D == {s \in SUBSET S : h[s] # g[s]}
             T == {Cardinality(s) : s \in D}
  <2>1. SUFFICES ASSUME D # {} PROVE FALSE
    OBVIOUS
  <2>2. T \in SUBSET Nat /\ T # {}
    BY <1>1, <2>1
  <2>3. PICK k \in T : \A l \in T : k <= l
    BY <2>2, MinExists
  <2>4. PICK s \in D : k = Cardinality(s)
    OBVIOUS
  <2>5. s # {}
    BY <1>2, <1>5, <2>4 DEF SumsUpTo, NextSum
  <2> DEFINE x == CHOOSE y \in s : TRUE
  <2>6. s \in SUBSET S /\ h[s] # g[s]
    BY <2>4
  <2>7. s \ {x} \in SUBSET S /\ Cardinality(s) = Cardinality(s \ {x}) + 1 /\ Cardinality(s \ {x}) \in Nat
    BY <1>1, <2>5, <2>6, SmallerIs
  <2>8. h[s \ {x}] = g[s \ {x}]
    <3>1. SUFFICES ASSUME s \ {x} \in D PROVE FALSE
      BY <2>7
    <3>2. k <= Cardinality(s \ {x})
      BY <2>3, <3>1
    <3> QED
      BY <2>4, <2>7, <3>2
  <2>9. h[s] = score[x] + h[s \ {x}] /\ g[s] = score[x] + g[s \ {x}]
    BY <1>1, <1>2, <1>5, <2>5, <2>6 DEF SumsUpTo, NextSum
  <2> QED
    BY <2>6, <2>8, <2>9
<1>7. Total(score, S) = g[S]
  BY <1>6, TotalIs DEF h
<1>8. ASSUME NEW s \in SUBSET S, s # {}
      PROVE  LET x == CHOOSE y \in s : TRUE IN x \in s /\ g[s] = score[x] + g[s \ {x}]
  BY <1>1, <1>2, <1>8 DEF SumsUpTo
<1>9. g \in [SUBSET S -> Int] /\ g[{}] = 0
  BY <1>2 DEF SumsUpTo
<1> QED
  BY <1>7, <1>8, <1>9

(* Scores of at most b sum up to at most b for each, and to less when one  *)
(* is less.                                                                *)
LEMMA SumAtMost ==
    ASSUME NEW S, IsFiniteSet(S), NEW score, \A x \in S : score[x] \in Int,
           NEW b \in Int, \A x \in S : score[x] <= b
    PROVE  /\ Total(score, S) \in Int /\ Cardinality(S) \in Nat
           /\ Total(score, S) <= b * Cardinality(S)
           /\ (\E x \in S : score[x] < b) => Total(score, S) < b * Cardinality(S)
<1>1. PICK f : /\ f \in [SUBSET S -> Int] /\ f[{}] = 0 /\ Total(score, S) = f[S]
               /\ \A s \in SUBSET S : s # {} =>
                     LET x == CHOOSE y \in s : TRUE
                     IN  x \in s /\ f[s] = score[x] + f[s \ {x}]
  BY SumsAre
<1>2. \A s \in SUBSET S : IsFiniteSet(s) /\ Cardinality(s) \in Nat /\ f[s] \in Int
  BY <1>1, FS_Subset, FS_CardinalityType
<1> DEFINE Bounded(s) == /\ f[s] <= b * Cardinality(s)
                         /\ (\E x \in s : score[x] < b) => f[s] < b * Cardinality(s)
           D == {s \in SUBSET S : ~Bounded(s)}
           T == {Cardinality(s) : s \in D}
<1>3. ASSUME D # {} PROVE FALSE
  <2>1. T \in SUBSET Nat /\ T # {}
    BY <1>2, <1>3
  <2>2. PICK k \in T : \A l \in T : k <= l
    BY <2>1, MinExists
  <2>3. PICK s \in D : k = Cardinality(s)
    OBVIOUS
  <2>4. s \in SUBSET S /\ ~Bounded(s)
    BY <2>3
  <2>5. s # {}
    <3>1. b * Cardinality({}) = 0
      BY FS_EmptySet
    <3>2. Bounded({})
      BY <1>1, <3>1
    <3> HIDE DEF Bounded
    <3> QED
      BY <2>4, <3>2
  <2> DEFINE x == CHOOSE y \in s : TRUE
             r == s \ {x}
  <2>6. /\ x \in s /\ r \in SUBSET S /\ Cardinality(r) \in Nat
        /\ Cardinality(s) = Cardinality(r) + 1
    BY <1>2, <2>4, <2>5, SmallerIs
  <2>7. f[s] = score[x] + f[r]
    BY <1>1, <2>4, <2>5
  <2>8. \A y \in s : y = x \/ y \in r
    OBVIOUS
  <2> HIDE DEF x, r, Bounded
  <2>9. Bounded(r)
    <3>1. SUFFICES ASSUME r \in D PROVE FALSE
      BY <2>6
    <3>2. k <= Cardinality(r)
      BY <2>2, <3>1
    <3> QED
      BY <2>3, <2>6, <3>2
  <2>10. b * Cardinality(s) = b * Cardinality(r) + b
    BY <2>6
  <2>11. b * Cardinality(r) \in Int /\ f[r] \in Int /\ score[x] \in Int /\ score[x] <= b
    BY <1>2, <2>4, <2>6
  <2> DEFINE p == b * Cardinality(r)
  <2>12. f[r] <= p /\ ((\E y \in r : score[y] < b) => f[r] < p)
    BY <2>9 DEF Bounded
  <2>13. b * Cardinality(s) = p + b /\ p \in Int
    BY <2>10, <2>11
  <2> HIDE DEF p
  <2>14. f[s] <= p + b
    BY <2>7, <2>11, <2>12, <2>13
  <2>15. ASSUME NEW y \in s, score[y] < b PROVE f[s] < p + b
    BY <2>7, <2>8, <2>11, <2>12, <2>13, <2>15
  <2> QED
    BY <2>4, <2>13, <2>14, <2>15 DEF Bounded
<1>4. Bounded(S)
  BY <1>3
<1> QED
  BY <1>1, <1>2, <1>4

(* The sum of scores that are not negative is not, and is more than 0 when *)
(* one of them is.                                                         *)
LEMMA SumAtLeast ==
    ASSUME NEW S, IsFiniteSet(S), NEW score, \A x \in S : score[x] \in Nat
    PROVE  /\ Total(score, S) \in Nat
           /\ (\E x \in S : score[x] > 0) => Total(score, S) > 0
<1>0. \A x \in S : score[x] \in Int
  OBVIOUS
<1>1. PICK f : /\ f \in [SUBSET S -> Int] /\ f[{}] = 0 /\ Total(score, S) = f[S]
               /\ \A s \in SUBSET S : s # {} =>
                     LET x == CHOOSE y \in s : TRUE
                     IN  x \in s /\ f[s] = score[x] + f[s \ {x}]
  BY <1>0, SumsAre
<1>2. \A s \in SUBSET S : IsFiniteSet(s) /\ Cardinality(s) \in Nat /\ f[s] \in Int
  BY <1>1, FS_Subset, FS_CardinalityType
<1> DEFINE Bounded(s) == f[s] >= 0 /\ ((\E x \in s : score[x] > 0) => f[s] > 0)
           D == {s \in SUBSET S : ~Bounded(s)}
           T == {Cardinality(s) : s \in D}
<1>3. ASSUME D # {} PROVE FALSE
  <2>1. T \in SUBSET Nat /\ T # {}
    BY <1>2, <1>3
  <2>2. PICK k \in T : \A l \in T : k <= l
    BY <2>1, MinExists
  <2>3. PICK s \in D : k = Cardinality(s)
    OBVIOUS
  <2>4. s \in SUBSET S /\ ~Bounded(s)
    BY <2>3
  <2>5. s # {}
    <3>1. Bounded({})
      BY <1>1
    <3> HIDE DEF Bounded
    <3> QED
      BY <2>4, <3>1
  <2> DEFINE x == CHOOSE y \in s : TRUE
             r == s \ {x}
  <2>6. /\ x \in s /\ r \in SUBSET S /\ Cardinality(r) \in Nat
        /\ Cardinality(s) = Cardinality(r) + 1
    BY <1>2, <2>4, <2>5, SmallerIs
  <2>7. f[s] = score[x] + f[r]
    BY <1>1, <2>4, <2>5
  <2>8. \A y \in s : y = x \/ y \in r
    OBVIOUS
  <2> HIDE DEF x, r, Bounded
  <2>9. Bounded(r)
    <3>1. SUFFICES ASSUME r \in D PROVE FALSE
      BY <2>6
    <3>2. k <= Cardinality(r)
      BY <2>2, <3>1
    <3> QED
      BY <2>3, <2>6, <3>2
  <2>10. f[r] \in Int /\ score[x] \in Nat
    BY <1>2, <2>4, <2>6
  <2>11. f[s] >= 0
    BY <2>7, <2>9, <2>10 DEF Bounded
  <2>12. ASSUME NEW y \in s, score[y] > 0 PROVE f[s] > 0
    BY <2>7, <2>8, <2>9, <2>10, <2>12 DEF Bounded
  <2> QED
    BY <2>4, <2>11, <2>12 DEF Bounded
<1>4. Bounded(S)
  BY <1>3
<1> QED
  BY <1>1, <1>2, <1>4

-----------------------------------------------------------------------------
(* Points and scores.                                                      *)

(* The greatest of some numbers with a bound.                              *)
LEMMA MaxExists ==
    ASSUME NEW S \in SUBSET Nat, S # {}, NEW b \in Nat, \A x \in S : x <= b
    PROVE  \E x \in S : \A y \in S : y <= x
<1> DEFINE T == {b - x : x \in S}
<1>1. T \subseteq Nat /\ T # {}
  <2>1. \A x \in S : b - x \in Nat
    OBVIOUS
  <2> QED
    BY <2>1
<1>2. PICK t \in T : \A u \in T : ~ (<<u, t>> \in OpToRel(<, Nat))
  BY <1>1, NatLessThanWellFounded, WFMin
<1>3. \A u \in T : ~ (u < t)
  BY <1>1, <1>2 DEF OpToRel
<1>4. PICK x \in S : t = b - x
  OBVIOUS
<1>5. ASSUME NEW y \in S PROVE y <= x
  BY <1>3, <1>4
<1> QED
  BY <1>5

(* What was reported of a node are numbers.                                *)
Numbers(n) == \A k \in 1 .. 7 : k # 3 => n[Attributes[k]] \in Int

(* What a node has of an attribute, the more the better.                   *)
Worth(k, n) ==
    IF k = 3 THEN 0 ELSE IF k \in {1, 2} THEN -n[Attributes[k]] ELSE n[Attributes[k]]

(* A node beats another by an attribute when it has more of it.            *)
LEMMA WorthIs ==
    ASSUME NEW k \in 1 .. 7, NEW m, NEW n, Numbers(m), Numbers(n)
    PROVE  /\ Worth(k, m) \in Int
           /\ Better(Attributes[k], m, n) <=> Worth(k, m) > Worth(k, n)
<1>1. /\ Attributes[1] = "energy" /\ Attributes[2] = "pricing" /\ Attributes[3] = "latency"
      /\ Attributes[4] = "cpu" /\ Attributes[5] = "memory" /\ Attributes[6] = "bandwidth"
      /\ Attributes[7] = "storage"
  BY DEF Attributes
<1>2. CASE k = 3
  BY <1>1, <1>2 DEF Worth, Better
<1>3. CASE k \in {1, 2}
  BY <1>1, <1>3 DEF Worth, Better, Numbers
<1>4. CASE k \in {4, 5, 6, 7}
  <2>1. n[Attributes[k]] \in Int /\ m[Attributes[k]] \in Int
    BY <1>4 DEF Numbers
  <2>2. Attributes[k] \notin {"energy", "pricing", "latency"}
    BY <1>1, <1>4
  <2>3. Better(Attributes[k], m, n) <=> m[Attributes[k]] > n[Attributes[k]]
    BY <2>2 DEF Better
  <2>4. Worth(k, n) = n[Attributes[k]] /\ Worth(k, m) = m[Attributes[k]]
    BY <1>4 DEF Worth
  <2> QED
    BY <2>1, <2>3, <2>4
<1> QED
  BY <1>2, <1>3, <1>4

(* i comes before j: of the latest attribute in which they differ it has   *)
(* more, or else it was before.                                            *)
ComesFirst(rows, k, i, j) ==
    \/ i < j /\ \A l \in 1 .. k : Worth(l, rows[i]) = Worth(l, rows[j])
    \/ \E l \in 1 .. k :
          /\ Worth(l, rows[i]) > Worth(l, rows[j])
          /\ \A q \in 1 .. k : q > l => Worth(q, rows[i]) = Worth(q, rows[j])

(* That is the order of the list after the k-th sort.                      *)
LEMMA AheadIs ==
    ASSUME NEW rows, NEW k \in 1 .. 7, NEW i \in DOMAIN rows, NEW j \in DOMAIN rows,
           Numbers(rows[i]), Numbers(rows[j])
    PROVE  Ahead(rows, k, i, j) <=> ComesFirst(rows, k, i, j)
<1> DEFINE m == rows[i]
           n == rows[j]
           differ == {l \in 1 .. k : \/ Better(Attributes[l], m, n) \/ Better(Attributes[l], n, m)}
<1>1. \A l \in 1 .. k :
         /\ l \in 1 .. 7 /\ Worth(l, m) \in Int /\ Worth(l, n) \in Int
         /\ (Better(Attributes[l], m, n) <=> Worth(l, m) > Worth(l, n))
         /\ (Better(Attributes[l], n, m) <=> Worth(l, n) > Worth(l, m))
  BY WorthIs
<1>2. differ = {l \in 1 .. k : Worth(l, m) # Worth(l, n)}
  BY <1>1
<1>3. Ahead(rows, k, i, j) <=> IF differ = {} THEN i < j ELSE Better(Attributes[Max(differ)], m, n)
  BY DEF Ahead
<1>4. CASE differ = {}
  BY <1>1, <1>2, <1>3, <1>4 DEF ComesFirst
<1>5. CASE differ # {}
  <2>1. differ \in SUBSET Nat /\ \A l \in differ : l <= 7
    BY <1>1
  <2>2. \E x \in differ : \A y \in differ : y <= x
    BY <1>5, <2>1, MaxExists
  <2>3. Max(differ) \in differ /\ \A l \in differ : l <= Max(differ)
    <3>1. \E x \in differ : \A y \in differ : x >= y
      BY <2>1, <2>2
    <3>2. Max(differ) \in differ /\ \A l \in differ : Max(differ) >= l
      BY <3>1 DEF Max
    <3> QED
      BY <2>1, <3>2
  <2> DEFINE d == Max(differ)
  <2> HIDE DEF differ, d, m, n
  <2>4. /\ d \in 1 .. k /\ Worth(d, m) # Worth(d, n)
        /\ \A q \in 1 .. k : q > d => Worth(q, m) = Worth(q, n)
    BY <1>2, <2>3 DEF d
  <2>5. Ahead(rows, k, i, j) <=> Worth(d, m) > Worth(d, n)
    BY <1>1, <1>3, <1>5, <2>4 DEF d
  <2>6. ComesFirst(rows, k, i, j) <=>
           \E l \in 1 .. k :
              /\ Worth(l, m) > Worth(l, n)
              /\ \A q \in 1 .. k : q > l => Worth(q, m) = Worth(q, n)
    BY <2>4 DEF ComesFirst, m, n
  <2>7. ASSUME NEW l \in 1 .. k, Worth(l, m) > Worth(l, n),
               \A q \in 1 .. k : q > l => Worth(q, m) = Worth(q, n)
        PROVE  l = d
    BY <1>1, <2>4, <2>7
  <2> QED
    BY <2>4, <2>5, <2>6, <2>7
<1> QED
  BY <1>4, <1>5

(* No node is ahead of itself, and one ahead of another is ahead of all    *)
(* that the other is ahead of.                                             *)
LEMMA AheadIsOrder ==
    ASSUME NEW rows, NEW k \in 1 .. 7, DOMAIN rows \subseteq Int,
           \A i \in DOMAIN rows : Numbers(rows[i])
    PROVE  /\ \A i \in DOMAIN rows : ~Ahead(rows, k, i, i)
           /\ \A h, i, j \in DOMAIN rows :
                 Ahead(rows, k, h, i) /\ Ahead(rows, k, i, j) => Ahead(rows, k, h, j)
<1>1. \A i, j \in DOMAIN rows : Ahead(rows, k, i, j) <=> ComesFirst(rows, k, i, j)
  BY AheadIs
<1>2. \A i \in DOMAIN rows : \A l \in 1 .. k : Worth(l, rows[i]) \in Int /\ l \in Nat
  BY WorthIs
<1>3. \A i \in DOMAIN rows : ~ComesFirst(rows, k, i, i)
  BY <1>2 DEF ComesFirst
<1>4. ASSUME NEW h \in DOMAIN rows, NEW i \in DOMAIN rows, NEW j \in DOMAIN rows,
             ComesFirst(rows, k, h, i), ComesFirst(rows, k, i, j)
      PROVE  ComesFirst(rows, k, h, j)
  <2> DEFINE W(l, x) == Worth(l, rows[x])
             Same(x, y) == \A l \in 1 .. k : W(l, x) = W(l, y)
             Latest(l, x, y) == W(l, x) > W(l, y) /\ \A q \in 1 .. k : q > l => W(q, x) = W(q, y)
  <2>1. \A x, y \in DOMAIN rows :
           ComesFirst(rows, k, x, y) <=> (x < y /\ Same(x, y)) \/ \E l \in 1 .. k : Latest(l, x, y)
    BY DEF ComesFirst
  <2>2. \A x \in DOMAIN rows : \A l \in 1 .. k : W(l, x) \in Int /\ l \in Nat
    BY <1>2
  <2> HIDE DEF W
  <2>3. CASE h < i /\ Same(h, i) /\ i < j /\ Same(i, j)
    BY <2>1, <2>2, <2>3
  <2>4. ASSUME NEW l \in 1 .. k, Latest(l, h, i), Same(i, j) PROVE ComesFirst(rows, k, h, j)
    <3>1. Latest(l, h, j)
      BY <2>4
    <3> QED
      BY <2>1, <3>1
  <2>5. ASSUME NEW l \in 1 .. k, Latest(l, i, j), Same(h, i) PROVE ComesFirst(rows, k, h, j)
    <3>1. Latest(l, h, j)
      BY <2>5
    <3> QED
      BY <2>1, <3>1
  <2>6. ASSUME NEW l \in 1 .. k, Latest(l, h, i), NEW q \in 1 .. k, Latest(q, i, j)
        PROVE  ComesFirst(rows, k, h, j)
    <3>1. CASE l = q
      <4>1. Latest(l, h, j)
        BY <2>2, <2>6, <3>1
      <4> QED
        BY <2>1, <4>1
    <3>2. CASE l > q
      <4>1. Latest(l, h, j)
        BY <2>2, <2>6, <3>2
      <4> QED
        BY <2>1, <4>1
    <3>3. CASE q > l
      <4>1. Latest(q, h, j)
        BY <2>2, <2>6, <3>3
      <4> QED
        BY <2>1, <4>1
    <3> QED
      BY <3>1, <3>2, <3>3
  <2> QED
    BY <1>4, <2>1, <2>3, <2>4, <2>5, <2>6
<1> QED
  BY <1>1, <1>3, <1>4

(* Finitely many nodes, all of them with numbers.                          *)
Measured(rows) ==
    /\ DOMAIN rows \subseteq Int /\ IsFiniteSet(DOMAIN rows)
    /\ \A i \in DOMAIN rows : Numbers(rows[i])

(* Every node gets points, and more than the nodes it is ahead of.         *)
LEMMA PointsAre ==
    ASSUME NEW rows, Measured(rows), NEW k \in 1 .. 7
    PROVE  /\ \A i \in DOMAIN rows : Points(rows, k, i) \in Nat /\ Points(rows, k, i) > 0
           /\ \A i, j \in DOMAIN rows :
                 Ahead(rows, k, i, j) => Points(rows, k, i) > Points(rows, k, j)
<1> DEFINE D == DOMAIN rows
           Before(i) == {j \in D : Ahead(rows, k, j, i)}
<1>1. IsFiniteSet(D) /\ Cardinality(D) \in Nat
  BY FS_CardinalityType DEF Measured
<1>2. /\ \A i \in D : ~Ahead(rows, k, i, i)
      /\ \A h, i, j \in D : Ahead(rows, k, h, i) /\ Ahead(rows, k, i, j) => Ahead(rows, k, h, j)
  BY AheadIsOrder DEF Measured
<1>3. \A i \in D : Points(rows, k, i) = Cardinality(D) - Cardinality(Before(i))
  BY DEF Points
<1>4. \A i \in D : Before(i) \subseteq D \ {i}
  BY <1>2
<1>5. \A S, T : IsFiniteSet(T) /\ S \subseteq T =>
         IsFiniteSet(S) /\ Cardinality(S) \in Nat /\ Cardinality(T) \in Nat
         /\ Cardinality(S) <= Cardinality(T)
  BY FS_Subset, FS_CardinalityType
<1>6. \A T, x : IsFiniteSet(T) /\ x \in T =>
         IsFiniteSet(T \ {x}) /\ Cardinality(T \ {x}) = Cardinality(T) - 1
  BY FS_RemoveElement
<1>7. \A i \in D : /\ IsFiniteSet(Before(i)) /\ Cardinality(Before(i)) \in Nat
                  /\ Cardinality(Before(i)) <= Cardinality(D) - 1
  <2> SUFFICES ASSUME NEW i \in D
               PROVE  /\ IsFiniteSet(Before(i)) /\ Cardinality(Before(i)) \in Nat
                      /\ Cardinality(Before(i)) <= Cardinality(D) - 1
    OBVIOUS
  <2>1. IsFiniteSet(D \ {i}) /\ Cardinality(D \ {i}) = Cardinality(D) - 1
    BY <1>1, <1>6
  <2>2. Before(i) \subseteq D \ {i}
    BY <1>4
  <2> HIDE DEF D, Before
  <2> QED
    BY <1>5, <2>1, <2>2
<1>8. ASSUME NEW i \in D, NEW j \in D, Ahead(rows, k, i, j)
      PROVE  Cardinality(Before(i)) <= Cardinality(Before(j)) - 1
  <2>1. Before(i) \subseteq Before(j) \ {i} /\ i \in Before(j)
    BY <1>2, <1>8
  <2>2. IsFiniteSet(Before(j) \ {i}) /\ Cardinality(Before(j) \ {i}) = Cardinality(Before(j)) - 1
    BY <1>6, <1>7, <2>1
  <2> HIDE DEF D, Before
  <2> QED
    BY <1>5, <2>1, <2>2
<1> HIDE DEF D, Before
<1>9. \A i \in D : Points(rows, k, i) \in Nat /\ Points(rows, k, i) > 0
  BY <1>1, <1>3, <1>7
<1>10. ASSUME NEW i \in D, NEW j \in D, Ahead(rows, k, i, j)
       PROVE  Points(rows, k, i) > Points(rows, k, j)
  BY <1>1, <1>3, <1>7, <1>8, <1>10
<1> QED
  BY <1>9, <1>10 DEF D

(* A node that is better in everything is ahead by every attribute but     *)
(* latency.                                                                *)
LEMMA BetterIsAhead ==
    ASSUME NEW rows, Measured(rows), NEW i \in DOMAIN rows, NEW j \in DOMAIN rows,
           BetterInEverything(rows[i], rows[j]), NEW k \in 1 .. 7, k # 3
    PROVE  Ahead(rows, k, i, j)
<1> DEFINE m == rows[i]
           n == rows[j]
<1>1. Numbers(m) /\ Numbers(n)
  BY DEF Measured
<1>2. /\ Attributes[1] = "energy" /\ Attributes[2] = "pricing"
      /\ Attributes[4] = "cpu" /\ Attributes[5] = "memory" /\ Attributes[6] = "bandwidth"
      /\ Attributes[7] = "storage"
  BY DEF Attributes
<1>3. /\ m["energy"] < n["energy"] /\ m["pricing"] < n["pricing"]
      /\ m["cpu"] > n["cpu"] /\ m["memory"] > n["memory"]
      /\ m["bandwidth"] > n["bandwidth"] /\ m["storage"] > n["storage"]
  BY DEF BetterInEverything
<1> HIDE DEF m, n
<1>4. Better(Attributes[k], m, n)
  <2>1. CASE k = 1
    BY <1>2, <1>3, <2>1 DEF Better
  <2>2. CASE k = 2
    BY <1>2, <1>3, <2>2 DEF Better
  <2>3. CASE k = 4
    BY <1>2, <1>3, <2>3 DEF Better
  <2>4. CASE k = 5
    BY <1>2, <1>3, <2>4 DEF Better
  <2>5. CASE k = 6
    BY <1>2, <1>3, <2>5 DEF Better
  <2>6. CASE k = 7
    BY <1>2, <1>3, <2>6 DEF Better
  <2> QED
    BY <2>1, <2>2, <2>3, <2>4, <2>5, <2>6
<1>5. Worth(k, m) > Worth(k, n)
  BY <1>1, <1>4, WorthIs
<1>6. k \in 1 .. k /\ \A q \in 1 .. k : ~(q > k)
  OBVIOUS
<1>7. ComesFirst(rows, k, i, j)
  BY <1>5, <1>6 DEF ComesFirst, m, n
<1> QED
  BY <1>1, <1>7, AheadIs DEF m, n

Qos == [energy : Int, pricing : Int, performance : Int]

(* The weights the scorer goes by are not all 0 when none is negative.     *)
LEMMA WeightsAre ==
    ASSUME NEW qos \in Qos, ~NegativeWeight(qos)
    PROVE  LET w == Weights(qos)
           IN  /\ w.energy \in Nat /\ w.pricing \in Nat /\ w.performance \in Nat
               /\ w.energy >= 1 \/ w.pricing >= 1 \/ w.performance >= 1
<1>1. DOMAIN qos = {"energy", "pricing", "performance"}
  BY DEF Qos
<1>2. CASE \A a \in DOMAIN qos : qos[a] < 1
  <2>1. Weights(qos) = [a \in {"energy", "pricing", "performance"} |-> 10]
    BY <1>1, <1>2 DEF Weights
  <2>2. \A a \in {"energy", "pricing", "performance"} : Weights(qos)[a] = 10
    BY <2>1
  <2>3. /\ Weights(qos)["energy"] = 10 /\ Weights(qos)["pricing"] = 10
        /\ Weights(qos)["performance"] = 10
    BY <2>2
  <2> QED
    BY <2>3
<1>3. CASE ~ \A a \in DOMAIN qos : qos[a] < 1
  <2>1. Weights(qos) = qos
    BY <1>3 DEF Weights
  <2>2. qos.energy \in Nat /\ qos.pricing \in Nat /\ qos.performance \in Nat
    <3>1. \A a \in {"energy", "pricing", "performance"} : ~(qos[a] < 0)
      BY <1>1, <2>1 DEF NegativeWeight
    <3>2. qos.energy \in Int /\ qos.pricing \in Int /\ qos.performance \in Int
      BY DEF Qos
    <3> QED
      BY <3>1, <3>2
  <2>3. qos["energy"] = qos.energy /\ qos["pricing"] = qos.pricing /\ qos["performance"] = qos.performance
    OBVIOUS
  <2> QED
    BY <1>1, <1>3, <2>1, <2>2, <2>3
<1> QED
  BY <1>2, <1>3

(* More points give more, unless their weight is 0.                        *)
LEMMA MoreForMore ==
    ASSUME NEW w \in Nat, NEW a \in Nat, NEW b \in Nat, a > b
    PROVE  w * a \in Nat /\ w * b \in Nat /\ w * a >= w * b /\ (w >= 1 => w * a > w * b)
<1> DEFINE d == a - b
<1>1. d \in Nat /\ d >= 1 /\ a = b + d
  OBVIOUS
<1> HIDE DEF d
<1>2. w * a = w * b + w * d /\ w * b \in Nat /\ w * d \in Nat
  BY <1>1
<1>3. w >= 1 => w * d >= 1
  BY <1>1
<1> QED
  BY <1>2, <1>3

(* Every node scores, and more than one it is better than in everything.   *)
LEMMA ScoresAre ==
    ASSUME NEW rows, Measured(rows), NEW qos \in Qos, ~NegativeWeight(qos)
    PROVE  LET score == Scores(rows, qos)
           IN  /\ DOMAIN score = ToSet(rows)
               /\ \A n \in ToSet(rows) : score[n] \in Nat /\ score[n] > 0
               /\ \A m, n \in ToSet(rows) : BetterInEverything(m, n) => score[m] > score[n]
<1> DEFINE w == Weights(qos)
           P(k, i) == Points(rows, k, i)
           Weighted(i) == w.energy * P(1, i) + w.pricing * P(2, i)
                       + w.performance * (P(4, i) + P(5, i) + P(6, i) + P(7, i))
           score == Scores(rows, qos)
           Place(n) == CHOOSE i \in DOMAIN rows : rows[i] = n
<1>1. /\ w.energy \in Nat /\ w.pricing \in Nat /\ w.performance \in Nat
      /\ w.energy >= 1 \/ w.pricing >= 1 \/ w.performance >= 1
  BY WeightsAre
<1>2. score = [n \in ToSet(rows) |-> Weighted(Place(n))]
  BY DEF Scores
<1>3. \A n \in ToSet(rows) : Place(n) \in DOMAIN rows /\ rows[Place(n)] = n
  BY DEF ToSet
<1>4. \A k \in 1 .. 7 : \A i \in DOMAIN rows : P(k, i) \in Nat /\ P(k, i) > 0
  BY PointsAre
<1>5. ASSUME NEW i \in DOMAIN rows, NEW j \in DOMAIN rows, BetterInEverything(rows[i], rows[j]),
             NEW k \in 1 .. 7, k # 3
      PROVE  P(k, i) > P(k, j)
  BY <1>5, BetterIsAhead, PointsAre
<1> DEFINE e == w.energy
           p == w.pricing
           q == w.performance
           R(i) == P(4, i) + P(5, i) + P(6, i) + P(7, i)
<1>6. \A i \in DOMAIN rows : /\ P(1, i) \in Nat /\ P(1, i) > 0
                            /\ P(2, i) \in Nat /\ P(2, i) > 0
                            /\ R(i) \in Nat /\ R(i) > 0
  BY <1>4
<1>7. ASSUME NEW i \in DOMAIN rows, NEW j \in DOMAIN rows, BetterInEverything(rows[i], rows[j])
      PROVE  P(1, i) > P(1, j) /\ P(2, i) > P(2, j) /\ R(i) > R(j)
  <2>1. /\ P(1, i) > P(1, j) /\ P(2, i) > P(2, j) /\ P(4, i) > P(4, j) /\ P(5, i) > P(5, j)
        /\ P(6, i) > P(6, j) /\ P(7, i) > P(7, j)
    BY <1>5, <1>7
  <2> QED
    BY <1>4, <2>1
<1>8. e \in Nat /\ p \in Nat /\ q \in Nat /\ (e >= 1 \/ p >= 1 \/ q >= 1)
  BY <1>1
<1>9. \A i \in DOMAIN rows : Weighted(i) = e * P(1, i) + p * P(2, i) + q * R(i)
  OBVIOUS
<1> HIDE DEF w, P, R, e, p, q, Weighted
<1>10. ASSUME NEW a \in Nat, NEW b \in Nat, NEW c \in Nat, NEW x \in Nat, NEW y \in Nat, NEW z \in Nat,
              a > x, b > y, c > z
       PROVE  e * a + p * b + q * c \in Nat /\ e * a + p * b + q * c > e * x + p * y + q * z
  <2>1. e * a \in Nat /\ e * x \in Nat /\ e * a >= e * x /\ (e >= 1 => e * a > e * x)
    BY <1>8, <1>10, MoreForMore
  <2>2. p * b \in Nat /\ p * y \in Nat /\ p * b >= p * y /\ (p >= 1 => p * b > p * y)
    BY <1>8, <1>10, MoreForMore
  <2>3. q * c \in Nat /\ q * z \in Nat /\ q * c >= q * z /\ (q >= 1 => q * c > q * z)
    BY <1>8, <1>10, MoreForMore
  <2> QED
    BY <1>8, <2>1, <2>2, <2>3
<1>11. \A i \in DOMAIN rows : Weighted(i) \in Nat /\ Weighted(i) > 0
  <2> SUFFICES ASSUME NEW i \in DOMAIN rows PROVE Weighted(i) \in Nat /\ Weighted(i) > 0
    OBVIOUS
  <2>1. /\ e * P(1, i) + p * P(2, i) + q * R(i) \in Nat
        /\ e * P(1, i) + p * P(2, i) + q * R(i) > e * 0 + p * 0 + q * 0
    BY <1>6, <1>10
  <2>2. e * 0 + p * 0 + q * 0 = 0
    BY <1>8
  <2> QED
    BY <1>9, <2>1, <2>2
<1>12. ASSUME NEW m \in ToSet(rows), NEW n \in ToSet(rows), BetterInEverything(m, n)
       PROVE  Weighted(Place(m)) > Weighted(Place(n))
  <2> DEFINE i == Place(m)
             j == Place(n)
  <2>1. i \in DOMAIN rows /\ j \in DOMAIN rows /\ rows[i] = m /\ rows[j] = n
    BY <1>3
  <2> HIDE DEF i, j
  <2>2. P(1, i) > P(1, j) /\ P(2, i) > P(2, j) /\ R(i) > R(j)
    BY <1>7, <1>12, <2>1
  <2>3. e * P(1, i) + p * P(2, i) + q * R(i) > e * P(1, j) + p * P(2, j) + q * R(j)
    BY <1>6, <1>10, <2>1, <2>2
  <2> QED
    BY <1>9, <2>1, <2>3 DEF i, j
<1> QED
  BY <1>2, <1>3, <1>11, <1>12

-----------------------------------------------------------------------------
(* Who is kept and which cluster comes first.                              *)

(* One of the nodes scores most.                                           *)
LEMMA MaxScore ==
    ASSUME NEW S, S # {}, IsFiniteSet(S), NEW score, \A x \in S : score[x] \in Int
    PROVE  \E x \in S : \A y \in S : score[y] <= score[x]
<1> DEFINE HasMax(s) == \E x \in s : \A y \in s : score[y] <= score[x]
           D == {s \in SUBSET S : s # {} /\ ~HasMax(s)}
           T == {Cardinality(s) : s \in D}
<1>1. \A s \in SUBSET S : IsFiniteSet(s) /\ Cardinality(s) \in Nat
  BY FS_Subset, FS_CardinalityType
<1>2. ASSUME D # {} PROVE FALSE
  <2>1. T \in SUBSET Nat /\ T # {}
    BY <1>1, <1>2
  <2>2. PICK k \in T : \A l \in T : k <= l
    BY <2>1, MinExists
  <2>3. PICK s \in D : k = Cardinality(s)
    OBVIOUS
  <2>4. s \in SUBSET S /\ s # {} /\ ~HasMax(s)
    BY <2>3
  <2> DEFINE x == CHOOSE y \in s : TRUE
             r == s \ {x}
  <2>5. /\ x \in s /\ r \in SUBSET S /\ Cardinality(r) \in Nat
        /\ Cardinality(s) = Cardinality(r) + 1
    BY <1>1, <2>4, SmallerIs
  <2>6. \A y \in s : y = x \/ y \in r
    OBVIOUS
  <2>7. r \subseteq s
    OBVIOUS
  <2> HIDE DEF x, r, HasMax
  <2>8. CASE r = {}
    <3>1. \A y \in s : score[y] <= score[x]
      BY <2>4, <2>5, <2>6, <2>8
    <3> QED
      BY <2>4, <2>5, <3>1 DEF HasMax
  <2>9. CASE r # {}
    <3>1. HasMax(r)
      <4>1. SUFFICES ASSUME r \in D PROVE FALSE
        BY <2>5, <2>9
      <4>2. k <= Cardinality(r)
        BY <2>2, <4>1
      <4> QED
        BY <2>3, <2>5, <4>2
    <3>2. PICK z \in r : \A y \in r : score[y] <= score[z]
      BY <3>1 DEF HasMax
    <3>3. \A y \in s : score[y] \in Int
      BY <2>4
    <3>4. CASE score[z] <= score[x]
      <4>1. \A y \in s : score[y] <= score[x]
        BY <2>5, <2>6, <2>7, <3>2, <3>3, <3>4
      <4> QED
        BY <2>4, <2>5, <4>1 DEF HasMax
    <3>5. CASE ~(score[z] <= score[x])
      <4>1. \A y \in s : score[y] <= score[z]
        BY <2>5, <2>6, <2>7, <3>2, <3>3, <3>5
      <4> QED
        BY <2>4, <2>7, <4>1 DEF HasMax
    <3> QED
      BY <3>4, <3>5
  <2> QED
    BY <2>8, <2>9
<1>3. HasMax(S)
  BY <1>2
<1> QED
  BY <1>3

(* Nobody is left only of three or more nodes that score the same.         *)
LEMMA NobodyKept ==
    ASSUME NEW score, NEW exact, DOMAIN score # {}, IsFiniteSet(DOMAIN score),
           \A n \in DOMAIN score : score[n] \in Int, {} \in Kept(score, exact)
    PROVE  /\ ~exact /\ Cardinality(DOMAIN score) > 2
           /\ \A m, n \in DOMAIN score : score[m] = score[n]
<1> DEFINE nodes == DOMAIN score
           total == Total(score, nodes)
           N == Cardinality(nodes)
           Above(n) == score[n] * N - total
<1>1. PICK x \in nodes : \A y \in nodes : score[y] <= score[x]
  BY MaxScore
<1>2. /\ total \in Int /\ N \in Nat /\ total <= score[x] * N
      /\ (\E y \in nodes : score[y] < score[x]) => total < score[x] * N
  BY <1>1, SumAtMost
<1>3. \A n \in nodes : score[n] * N \in Int
  BY <1>2
<1>4. /\ exact => \A n \in nodes : ~(Above(n) > 0) /\ ~(Above(n) = 0)
      /\ ~exact => N > 2 /\ \A n \in nodes : ~(Above(n) > 0)
  BY DEF Kept
<1> HIDE DEF nodes, total, N
<1>5. ~exact
  BY <1>1, <1>2, <1>3, <1>4
<1>6. ~(\E y \in nodes : score[y] < score[x])
  BY <1>1, <1>2, <1>3, <1>4, <1>5
<1>7. \A y \in nodes : score[y] = score[x]
  BY <1>1, <1>6 DEF nodes
<1> QED
  BY <1>4, <1>5, <1>7 DEF nodes, N

(* A node that scores more than one that is kept is kept.                  *)
LEMMA BetterIsKept ==
    ASSUME NEW score, NEW exact, IsFiniteSet(DOMAIN score),
           \A n \in DOMAIN score : score[n] \in Int,
           NEW kept \in Kept(score, exact), NEW n \in kept, NEW m \in DOMAIN score,
           score[m] > score[n]
    PROVE  m \in kept
<1> DEFINE nodes == DOMAIN score
           total == Total(score, nodes)
           N == Cardinality(nodes)
           Above(o) == score[o] * N - total
<1>1. /\ n \in nodes /\ (Above(n) > 0 \/ Above(n) = 0)
      /\ \A o \in nodes : Above(o) > 0 => o \in kept
  BY DEF Kept
<1>2. total \in Int /\ N \in Nat /\ N > 0
  <2>1. PICK x \in nodes : \A y \in nodes : score[y] <= score[x]
    BY MaxScore
  <2>2. total \in Int /\ N \in Nat
    BY <2>1, SumAtMost
  <2>3. N # 0
    BY FS_EmptySet
  <2> HIDE DEF total, N
  <2> QED
    BY <2>2, <2>3
<1> DEFINE a == score[m]
           b == score[n]
<1>3. a \in Int /\ b \in Int /\ a > b
  BY <1>1
<1>4. m \in nodes /\ Above(m) = a * N - total /\ Above(n) = b * N - total
  OBVIOUS
<1> HIDE DEF nodes, total, N, a, b, Above
<1>5. a * N > b * N /\ a * N \in Int /\ b * N \in Int
  <2> DEFINE d == a - b
  <2>1. d \in Int /\ d >= 1 /\ a = b + d
    BY <1>3
  <2> HIDE DEF d
  <2>2. a * N = b * N + d * N /\ d * N \in Int /\ b * N \in Int
    BY <1>2, <1>3, <2>1
  <2>3. d * N > 0
    BY <1>2, <2>1
  <2> QED
    BY <2>2, <2>3
<1>6. Above(m) > 0
  BY <1>1, <1>2, <1>4, <1>5
<1> QED
  BY <1>1, <1>4, <1>6

(* Of the nodes kept, some are of the cluster that comes first.            *)
LEMMA BestHasKept ==
    ASSUME NEW score, NEW exact, IsFiniteSet(DOMAIN score),
           \A n \in DOMAIN score : score[n] \in Nat /\ score[n] > 0,
           NEW kept \in SUBSET DOMAIN score, kept # {}, NEW c \in Best(score, kept, exact)
    PROVE  {n \in kept : n.cluster = c} # {}
<1> DEFINE Of(d) == {n \in kept : n.cluster = d}
<1>1. PICK k \in kept : TRUE
  OBVIOUS
<1> DEFINE d == k.cluster
<1>2. \A e : IsFiniteSet(Of(e)) /\ \A n \in Of(e) : score[n] \in Nat
  <2>1. \A e : Of(e) \subseteq DOMAIN score
    OBVIOUS
  <2> QED
    BY <2>1, FS_Subset
<1>3. Total(score, Of(d)) \in Nat /\ Total(score, Of(d)) > 0
  <2>1. k \in Of(d) /\ score[k] > 0
    OBVIOUS
  <2> QED
    BY <1>2, <2>1, SumAtLeast
<1>4. ~(Total(score, Of(d)) > Total(score, Of(c)))
  BY DEF Best
<1>5. SUFFICES ASSUME Of(c) = {} PROVE FALSE
  OBVIOUS
<1>6. Total(score, {}) = 0
  <2>1. IsFiniteSet({}) /\ Cardinality({}) = 0
    BY FS_EmptySet
  <2>2. Total(score, {}) \in Nat /\ Total(score, {}) <= 0 * Cardinality({})
    BY <2>1, SumAtMost, SumAtLeast
  <2> QED
    BY <2>1, <2>2
<1> QED
  BY <1>3, <1>4, <1>5, <1>6

(* There are no more nodes than rows.                                      *)
LEMMA NodesOfRows ==
    ASSUME NEW rows, IsFiniteSet(DOMAIN rows)
    PROVE  /\ IsFiniteSet(ToSet(rows)) /\ Cardinality(ToSet(rows)) <= Cardinality(DOMAIN rows)
           /\ Cardinality(ToSet(rows)) \in Nat /\ Cardinality(DOMAIN rows) \in Nat
<1> DEFINE f == [i \in DOMAIN rows |-> rows[i]]
<1>1. f \in Surjection(DOMAIN rows, ToSet(rows))
  BY DEF Surjection, ToSet
<1> HIDE DEF f
<1> QED
  BY <1>1, FS_Surjection, FS_CardinalityType

(* Measured nodes of which none is picked score the same.                  *)
LEMMA EmptyPickIs ==
    ASSUME NEW rows, Measured(rows), DOMAIN rows # {},
           NEW qos \in Qos, ~NegativeWeight(qos),
           NEW pick \in ScoreNodes(rows, qos), pick.nodes = {}
    PROVE  LET scores == Scores(rows, qos)
           IN  /\ ~Exact(qos) /\ Cardinality(DOMAIN rows) > 2
               /\ \A m, n \in ToSet(rows) : scores[m] = scores[n]
<1> DEFINE score == Scores(rows, qos)
           exact == Exact(qos)
           D == DOMAIN rows
           S == ToSet(rows)
<1>1. DOMAIN score = S /\ \A n \in S : score[n] \in Nat /\ score[n] > 0
  BY ScoresAre
<1>2. S # {}
  BY DEF ToSet
<1>3. IsFiniteSet(S) /\ Cardinality(S) <= Cardinality(D)
      /\ Cardinality(S) \in Nat /\ Cardinality(D) \in Nat
  BY NodesOfRows DEF Measured
<1>4. PICK kept \in Kept(score, exact) :
         \E c \in Best(score, kept, exact) :
            pick = [cluster |-> c, nodes |-> {n \in kept : n.cluster = c}]
  BY PickIs
<1>5. PICK c \in Best(score, kept, exact) :
         pick = [cluster |-> c, nodes |-> {n \in kept : n.cluster = c}]
  BY <1>4
<1>6. kept \in SUBSET DOMAIN score
  BY <1>4, KeptIs
<1> HIDE DEF score, exact, D, S
<1>7. kept = {}
  BY <1>1, <1>3, <1>5, <1>6, BestHasKept
<1>8. /\ ~exact /\ Cardinality(S) > 2
      /\ \A m, n \in S : score[m] = score[n]
  <2>1. \A n \in DOMAIN score : score[n] \in Int
    BY <1>1
  <2>2. {} \in Kept(score, exact)
    BY <1>4, <1>7
  <2> QED
    BY <1>1, <1>2, <1>3, <2>1, <2>2, NobodyKept
<1>9. Cardinality(D) > 2
  BY <1>3, <1>8
<1> QED
  BY <1>8, <1>9 DEF score, exact, D, S

(* A node is picked with one of its cluster that is worse in everything.   *)
LEMMA BetterIsPicked ==
    ASSUME NEW rows, Measured(rows), NEW qos \in Qos, ~NegativeWeight(qos),
           NEW pick \in ScoreNodes(rows, qos), NEW n \in pick.nodes, NEW m \in ToSet(rows),
           m.cluster = n.cluster, BetterInEverything(m, n)
    PROVE  m \in pick.nodes
<1> DEFINE score == Scores(rows, qos)
           exact == Exact(qos)
<1>1. DOMAIN rows # {}
  BY DEF ToSet
<1>2. PICK kept \in Kept(score, exact) :
         \E c \in Best(score, kept, exact) :
            pick = [cluster |-> c, nodes |-> {o \in kept : o.cluster = c}]
  BY <1>1, PickIs
<1>3. PICK c \in Best(score, kept, exact) :
         pick = [cluster |-> c, nodes |-> {o \in kept : o.cluster = c}]
  BY <1>2
<1>4. kept \subseteq DOMAIN score
  BY <1>2, KeptIs
<1>5. n \in kept /\ n.cluster = c
  BY <1>3
<1>6. /\ DOMAIN score = ToSet(rows) /\ \A o \in ToSet(rows) : score[o] \in Int
      /\ \A o, p \in ToSet(rows) : BetterInEverything(o, p) => score[o] > score[p]
  BY ScoresAre
<1>7. IsFiniteSet(ToSet(rows))
  BY NodesOfRows DEF Measured
<1> HIDE DEF score, exact
<1>8. score[m] > score[n]
  BY <1>4, <1>5, <1>6
<1>9. m \in kept
  BY <1>5, <1>6, <1>7, <1>8, BetterIsKept
<1> QED
  BY <1>3, <1>5, <1>9

-----------------------------------------------------------------------------
(* Types.                                                                  *)

LEMMA WorldIs ==
    ASSUME TypeOK
    PROVE  /\ WorldOK(world) /\ IsFiniteSet(Nodes(world)) /\ NodeHeartbeatTimeout \in Nat
           /\ \A c \in Clusters : \A n \in ToSet(world.nodes[c]) :
                 /\ n \in Nodes(world) /\ n.cluster = c
                 /\ world.unfit[n.name] \in Nat /\ world.gone[n.name] \in Nat
           /\ \A n \in Nodes(world) : /\ n.cluster \in Clusters
                                      /\ world.unfit[n.name] \in Nat
<1>1. world \in Worlds
  BY DEF TypeOK
<1>2. WorldOK(world) /\ NodeHeartbeatTimeout \in Nat
  BY <1>1, InventoryAssumption
<1>3. \A c \in Clusters : \A n \in ToSet(world.nodes[c]) :
         /\ n \in Nodes(world) /\ n.cluster = c
         /\ world.unfit[n.name] \in Nat /\ world.gone[n.name] \in Nat
  BY <1>2 DEF WorldOK, Nodes
<1>4. \A n \in Nodes(world) : \E c \in Clusters : n \in ToSet(world.nodes[c])
  BY DEF Nodes
<1> QED
  BY <1>2, <1>3, <1>4 DEF WorldOK

LEMMA TableIs ==
    ASSUME TypeOK, NEW n \in Nodes(world)
    PROVE  /\ table[n].stored \in -1 .. 1
           /\ table[n] # NoRow => /\ table[n] \in Row /\ table[n].stored \in Versions
                                  /\ table[n].stored \in 0 .. 1 /\ table[n].age \in Age
<1>1. table[n] \in Row \cup {NoRow}
  BY DEF TypeOK
<1>2. CASE table[n] = NoRow
  BY <1>2 DEF NoRow
<1>3. CASE table[n] \in Row
  BY <1>3 DEF Row, Versions
<1> QED
  BY <1>1, <1>2, <1>3

LEMMA RequestIs ==
    ASSUME TypeOK, NEW i \in DOMAIN requests
    PROVE  /\ requests[i] \in Request /\ i \in 1 .. Len(requests)
           /\ requests[i].of \in Clusters
           /\ requests[i].version \in Versions /\ requests[i].version \in 0 .. 1
           /\ requests[i].todo \in Seq(Nodes(world)) /\ requests[i].awaited \in BOOLEAN
           /\ version[requests[i].of] \in 0 .. 1
<1>1. requests[i] \in Request /\ i \in 1 .. Len(requests)
  BY ElementOfSeq, LenProperties DEF TypeOK
<1>2. requests[i].of \in Clusters
  BY <1>1 DEF Request
<1> QED
  BY <1>1, <1>2 DEF Request, TypeOK, Versions

LEMMA FunctionIsSequence ==
    ASSUME NEW S, NEW n \in Nat, NEW f \in [1 .. n -> S]
    PROVE  f \in Seq(S)
OBVIOUS

(* A listing is a sequence of nodes of its cluster.                        *)
LEMMA ListingIs ==
    ASSUME TypeOK, NEW c \in Clusters, NEW v \in Versions, Reported(c, v) # {},
           NEW todo \in Listings(c, v)
    PROVE  /\ todo \in Seq(Nodes(world)) /\ todo # <<>>
           /\ \A n \in ToSet(todo) : n.cluster = c
<1>1. /\ \A n \in Reported(c, v) : n \in Nodes(world) /\ n.cluster = c
      /\ IsFiniteSet(Nodes(world))
  BY WorldIs DEF Reported
<1>2. IsFiniteSet(Reported(c, v))
  <2>1. Reported(c, v) \subseteq Nodes(world)
    BY <1>1
  <2> QED
    BY <1>1, <2>1, FS_Subset
<1>3. Cardinality(Reported(c, v)) \in Nat /\ Cardinality(Reported(c, v)) # 0
  BY <1>2, FS_CardinalityType, FS_EmptySet
<1> DEFINE S == Reported(c, v)
           D == 1 .. Cardinality(S)
<1>4. todo \in [D -> S]
  BY DEF Listings, SetToSeqs
<1> HIDE DEF S
<1>5. todo \in Seq(S) /\ Len(todo) = Cardinality(S)
  BY <1>3, <1>4 DEF S
<1>6. todo \in Seq(Nodes(world))
  BY <1>1, <1>4, <1>3 DEF S
<1>7. todo # <<>>
  BY <1>3, <1>5 DEF S
<1>8. \A n \in ToSet(todo) : n \in S
  BY <1>4 DEF ToSet
<1> QED
  BY <1>1, <1>6, <1>7, <1>8 DEF S

LEMMA TailIs ==
    ASSUME NEW S, NEW q \in Seq(S), Len(q) # 1, q # <<>>
    PROVE  Tail(q) \in Seq(S) /\ Tail(q) # <<>> /\ ToSet(Tail(q)) \subseteq ToSet(q)
<1>1. Len(q) \in Nat /\ Len(q) > 1
  <2>1. Len(q) \in Nat \ {0}
    BY EmptySeq
  <2>2. \A a \in Nat \ {0} : a # 1 => a \in Nat /\ a > 1
    OBVIOUS
  <2> QED
    BY <2>1, <2>2, Zenon
<1>2. /\ Tail(q) \in Seq(S) /\ Len(Tail(q)) = Len(q) - 1
      /\ \A i \in 1 .. Len(q) - 1 : Tail(q)[i] = q[i + 1]
  BY HeadTailProperties
<1>3. ToSet(Tail(q)) \subseteq ToSet(q)
  <2>1. \A i \in DOMAIN Tail(q) : i \in 1 .. Len(q) - 1 /\ i + 1 \in DOMAIN q
    BY <1>1, <1>2, LenProperties
  <2> QED
    BY <1>2, <2>1 DEF ToSet
<1>4. Tail(q) # <<>>
  <2>1. Len(Tail(q)) # 0
    BY <1>1, <1>2
  <2> QED
    BY <2>1, EmptySeq
<1> QED
  BY <1>2, <1>3, <1>4

LEMMA RemovedIs ==
    ASSUME NEW S, NEW q \in Seq(S), NEW i \in DOMAIN q
    PROVE  /\ RemoveAt(q, i) \in Seq(S) /\ Len(RemoveAt(q, i)) = Len(q) - 1
           /\ \A j \in DOMAIN RemoveAt(q, i) : \E k \in DOMAIN q : RemoveAt(q, i)[j] = q[k]
<1> DEFINE l == SubSeq(q, 1, i - 1)
           r == SubSeq(q, i + 1, Len(q))
<1>1. i \in 1 .. Len(q) /\ Len(q) \in Nat
  BY LenProperties
<1>2. /\ l \in Seq(S) /\ Len(l) = i - 1
      /\ \A j \in 1 .. Len(l) : l[j] = q[j]
  BY <1>1
<1>3. /\ r \in Seq(S) /\ Len(r) = Len(q) - i
      /\ \A j \in 1 .. Len(r) : r[j] = q[i + j]
  BY <1>1
<1> HIDE DEF l, r
<1>4. /\ l \o r \in Seq(S) /\ Len(l \o r) = Len(q) - 1
      /\ \A j \in 1 .. Len(q) - 1 :
            (l \o r)[j] = IF j <= Len(l) THEN l[j] ELSE r[j - Len(l)]
  <2>1. /\ l \o r \in Seq(S) /\ Len(l \o r) = Len(l) + Len(r)
        /\ \A j \in 1 .. Len(l) + Len(r) :
              (l \o r)[j] = IF j <= Len(l) THEN l[j] ELSE r[j - Len(l)]
    BY <1>2, <1>3, ConcatProperties
  <2>2. Len(l) + Len(r) = Len(q) - 1
    BY <1>1, <1>2, <1>3
  <2> QED
    BY <2>1, <2>2
<1>5. ASSUME NEW j \in DOMAIN (l \o r) PROVE \E k \in DOMAIN q : (l \o r)[j] = q[k]
  <2>1. j \in 1 .. Len(q) - 1
    BY <1>4, LenProperties
  <2>2. CASE j <= i - 1
    BY <1>1, <1>2, <1>4, <2>1, <2>2
  <2>3. CASE j > i - 1
    <3> DEFINE d == j - (i - 1)
    <3>1. d \in 1 .. Len(r) /\ i + d \in 1 .. Len(q)
      BY <1>1, <1>3, <2>1, <2>3
    <3>2. ~(j <= Len(l)) /\ j - Len(l) = d
      BY <1>1, <1>2, <2>1, <2>3
    <3> HIDE DEF d
    <3>3. (l \o r)[j] = r[d]
      BY <1>4, <2>1, <3>2
    <3> QED
      BY <1>3, <3>1, <3>3, LenProperties
  <2> QED
    BY <1>1, <2>1, <2>2, <2>3
<1>6. RemoveAt(q, i) = l \o r
  BY DEF RemoveAt, l, r
<1> QED
  BY <1>4, <1>5, <1>6

-----------------------------------------------------------------------------
(* The steps.                                                              *)

LEMMA InitHolds ==
    ASSUME Init
    PROVE  IInv
<1>1. /\ world \in Worlds /\ version = [c \in Clusters |-> 0] /\ running = Clusters
      /\ table = [n \in Nodes(world) |-> NoRow] /\ requests = <<>>
      /\ unread = Clusters /\ list = <<>> /\ answer = NoAnswer
  BY DEF Init
<1>2. WorldOK(world) /\ NodeHeartbeatTimeout \in Nat
  BY <1>1, InventoryAssumption
<1>3. TypeOK
  <2>1. Len(requests) \in 0 .. world.maxRequests
    BY <1>1, <1>2, EmptySeq DEF WorldOK
  <2>2. requests \in Seq(Request) /\ list \in Seq([node : Nodes(world), fit : BOOLEAN, age : Age])
    BY <1>1, EmptySeq
  <2>3. answer.nodes = {}
    BY <1>1 DEF NoAnswer
  <2> QED
    BY <1>1, <2>1, <2>2, <2>3 DEF TypeOK, Versions
<1>4. DOMAIN requests = {}
  BY <1>1
<1>5. NotAhead
  <2>1. \A n \in Nodes(world) : table[n].stored = -1 /\ version[n.cluster] = 0
    BY <1>1, <1>3, WorldIs DEF NoRow
  <2> QED
    BY <1>4, <2>1 DEF NotAhead
<1> QED
  BY <1>3, <1>4, <1>5 DEF IInv

(* Steps of a request, and its end: the other requests stay as they are,   *)
(* and nobody begins to wait.                                              *)
Follows(p, q) ==
    /\ p.of = q.of /\ p.version = q.version /\ (p.awaited => q.awaited)
    /\ Stores(q) => Stores(p)

LEMMA FollowingKeeps ==
    ASSUME IInv, TypeOK', UNCHANGED <<world, version>>,
           \A n \in Nodes(world) : table'[n].stored = table[n].stored,
           \A j \in DOMAIN requests' : \E k \in DOMAIN requests :
              Follows(requests'[j], requests[k])
    PROVE  IInv'
<1>1. /\ TypeOK /\ NotAhead
      /\ \A i \in DOMAIN requests : Stores(requests[i])
      /\ \A i \in DOMAIN requests : requests[i].awaited => Newest(i)
  BY DEF IInv
<1>2. \A j \in DOMAIN requests' : Stores(requests'[j])
  BY <1>1 DEF Follows
<1>3. NotAhead'
  BY <1>1 DEF NotAhead, Follows
<1>4. ASSUME NEW i \in DOMAIN requests', requests'[i].awaited PROVE Newest(i)'
  BY <1>1, <1>4 DEF Newest, Follows
<1>5. \A j \in DOMAIN requests' : Stores(requests[j])'
  BY <1>2 DEF Stores
<1> QED
  BY <1>3, <1>4, <1>5 DEF IInv

LEMMA ChangeKeeps ==
    ASSUME IInv, NEW c \in Clusters, Change(c)
    PROVE  IInv'
<1>1. TypeOK /\ NotAhead
  BY DEF IInv
<1>2. /\ version[c] + 1 \in Versions /\ version' = [version EXCEPT ![c] = @ + 1]
      /\ answer' = NoAnswer
      /\ UNCHANGED <<world, running, table, requests, unread, list>>
  BY DEF Change, NoPick, round
<1>3. TypeOK'
  <2>1. version' \in [Clusters -> Versions]
    BY <1>1, <1>2 DEF TypeOK
  <2> QED
    BY <1>1, <1>2, <2>1 DEF TypeOK, NoAnswer, Request, Row
<1>4. \A d \in Clusters : /\ version[d] \in 0 .. 1 /\ version'[d] \in 0 .. 1
                           /\ version[d] <= version'[d]
  BY <1>1, <1>2 DEF TypeOK, Versions
<1>5. NotAhead'
  <2>1. ASSUME NEW n \in Nodes(world) PROVE table[n].stored <= version'[n.cluster]
    <3>1. table[n].stored \in -1 .. 1 /\ n.cluster \in Clusters
      BY <1>1, TableIs, WorldIs
    <3>2. table[n].stored <= version[n.cluster]
      BY <1>1 DEF NotAhead
    <3> QED
      BY <1>4, <3>1, <3>2
  <2>2. ASSUME NEW i \in DOMAIN requests
        PROVE  requests[i].version <= version'[requests[i].of]
    <3>1. requests[i].version \in 0 .. 1 /\ requests[i].of \in Clusters
      BY <1>1, RequestIs
    <3>2. requests[i].version <= version[requests[i].of]
      BY <1>1 DEF NotAhead
    <3> QED
      BY <1>4, <3>1, <3>2
  <2> QED
    BY <1>2, <2>1, <2>2 DEF NotAhead
<1> QED
  BY <1>2, <1>3, <1>5 DEF IInv, Stores, Newest

LEMMA SendNodeInfoKeeps ==
    ASSUME IInv, NEW c \in Clusters, SendNodeInfo(c)
    PROVE  IInv'
<1>1. /\ TypeOK /\ NotAhead
      /\ \A i \in DOMAIN requests : Stores(requests[i])
      /\ \A i \in DOMAIN requests : requests[i].awaited => Newest(i)
  BY DEF IInv
<1>2. /\ ~Awaited(c) /\ Len(requests) < world.maxRequests /\ Reported(c, version[c]) # {}
      /\ answer' = NoAnswer
      /\ UNCHANGED <<world, version, running, table, unread, list>>
  BY DEF SendNodeInfo, NoPick, agent, round
<1>3. PICK todo \in Listings(c, version[c]) :
         requests' = Append(requests, [of |-> c, version |-> version[c],
                                       looked |-> "not yet", todo |-> todo, awaited |-> TRUE])
  BY DEF SendNodeInfo
<1> DEFINE q == [of |-> c, version |-> version[c],
                 looked |-> "not yet", todo |-> todo, awaited |-> TRUE]
<1>4. version[c] \in Versions
  BY <1>1 DEF TypeOK
<1>5. todo \in Seq(Nodes(world)) /\ Stores(q)
  <2>1. /\ todo \in Seq(Nodes(world)) /\ todo # <<>>
        /\ \A n \in ToSet(todo) : n.cluster = c
    BY <1>1, <1>2, <1>4, ListingIs
  <2> QED
    BY <2>1 DEF Stores
<1>6. /\ q \in Request /\ q.of = c /\ q.version = version[c] /\ q.awaited
  BY <1>4, <1>5 DEF Request
<1> HIDE DEF q
<1>7. requests \in Seq(Request) /\ requests' = Append(requests, q)
  BY <1>1, <1>3 DEF TypeOK, q
<1> DEFINE l == Len(requests)
<1>8. /\ requests' \in Seq(Request) /\ Len(requests') = l + 1 /\ l \in Nat
      /\ DOMAIN requests' = 1 .. l + 1 /\ DOMAIN requests = 1 .. l
      /\ \A i \in 1 .. l : requests'[i] = requests[i]
      /\ requests'[l + 1] = q
  BY <1>6, <1>7, AppendProperties, LenProperties
<1> HIDE DEF l
<1>9. \A i \in DOMAIN requests' :
         \/ i \in DOMAIN requests /\ requests'[i] = requests[i]
         \/ requests'[i] = q
  BY <1>8
<1>10. TypeOK'
  <2>1. Len(requests') \in 0 .. world.maxRequests
    <3>1. world.maxRequests \in Nat
      BY <1>1, WorldIs DEF WorldOK
    <3> QED
      BY <1>2, <1>8, <3>1 DEF l
  <2> QED
    BY <1>1, <1>2, <1>8, <2>1 DEF TypeOK, NoAnswer, Request, Row
<1>11. NotAhead'
  <2>1. \A i \in DOMAIN requests' : requests'[i].version <= version[requests'[i].of]
    BY <1>1, <1>4, <1>6, <1>9 DEF NotAhead, Versions
  <2> QED
    BY <1>1, <1>2, <2>1 DEF NotAhead
<1>12. ASSUME NEW i \in DOMAIN requests', requests'[i].awaited PROVE Newest(i)'
  <2>1. CASE requests'[i] = q
    <3>1. \A k \in DOMAIN requests' :
             requests'[k].of = c => requests'[k].version <= version[c]
      BY <1>2, <1>11 DEF NotAhead
    <3>2. \A n \in Nodes(world) : n.cluster = c => table[n].stored <= version[c]
      BY <1>1 DEF NotAhead
    <3> QED
      BY <1>2, <1>6, <2>1, <3>1, <3>2 DEF Newest
  <2>2. CASE i \in DOMAIN requests /\ requests'[i] = requests[i]
    <3>1. Newest(i) /\ requests[i].of # c
      BY <1>1, <1>2, <1>12, <2>2 DEF Awaited
    <3>2. \A k \in DOMAIN requests' :
             requests'[k].of = requests[i].of => requests'[k].version <= requests[i].version
      BY <1>6, <1>9, <3>1 DEF Newest
    <3> QED
      BY <1>2, <2>2, <3>1, <3>2 DEF Newest
  <2> QED
    BY <1>9, <2>1, <2>2
<1>13. \A i \in DOMAIN requests' : Stores(requests'[i])
  BY <1>1, <1>5, <1>9 DEF q
<1> QED
  BY <1>10, <1>11, <1>12, <1>13 DEF IInv, Stores

(* One request is replaced.                                                *)
LEMMA ReplacedIs ==
    ASSUME TypeOK, NEW i \in DOMAIN requests, NEW p \in Request,
           requests' = [requests EXCEPT ![i] = p], Follows(p, requests[i])
    PROVE  /\ requests' \in Seq(Request) /\ Len(requests') = Len(requests)
           /\ \A j \in DOMAIN requests' : \E k \in DOMAIN requests :
                 Follows(requests'[j], requests[k])
<1>1. requests \in Seq(Request)
  BY DEF TypeOK
<1>2. requests' \in Seq(Request) /\ Len(requests') = Len(requests)
  BY <1>1, ExceptSeq
<1>3. ASSUME NEW j \in DOMAIN requests'
      PROVE  \E k \in DOMAIN requests : Follows(requests'[j], requests[k])
  <2>1. CASE j = i
    BY <2>1
  <2>2. CASE j # i
    <3>1. j \in DOMAIN requests /\ requests'[j] = requests[j]
      BY <1>3, <2>2
    <3> QED
      BY <3>1 DEF Follows
  <2> QED
    BY <2>1, <2>2
<1> QED
  BY <1>2, <1>3

LEMMA GiveUpKeeps ==
    ASSUME IInv, NEW i \in DOMAIN requests, GiveUp(i)
    PROVE  IInv'
<1>1. TypeOK /\ requests[i] \in Request
  BY RequestIs DEF IInv
<1>2. /\ requests' = [requests EXCEPT ![i] = [requests[i] EXCEPT !.awaited = FALSE]]
      /\ answer' = NoAnswer
      /\ UNCHANGED <<world, version, running, table, unread, list>>
  BY DEF GiveUp, NoPick, agent, round
<1> DEFINE p == [requests[i] EXCEPT !.awaited = FALSE]
<1>3. p \in Request /\ Follows(p, requests[i])
  BY <1>1 DEF Request, Follows, Stores
<1> HIDE DEF p
<1>4. /\ requests' \in Seq(Request) /\ Len(requests') = Len(requests)
      /\ \A j \in DOMAIN requests' : \E k \in DOMAIN requests :
            Follows(requests'[j], requests[k])
  BY <1>1, <1>2, <1>3, ReplacedIs DEF p
<1>5. TypeOK'
  BY <1>1, <1>2, <1>4 DEF TypeOK, NoAnswer, Request, Row
<1> QED
  BY <1>2, <1>4, <1>5, FollowingKeeps

LEMMA FetchOneKeeps ==
    ASSUME IInv, NEW i \in DOMAIN requests, NEW n \in Nodes(world), FetchOne(i, n)
    PROVE  IInv'
<1>1. TypeOK /\ requests[i] \in Request
  BY RequestIs DEF IInv
<1> DEFINE there == IF table[n] = NoRow THEN "not found" ELSE "found"
           p == [requests[i] EXCEPT !.looked = there]
<1>2. /\ requests' = [requests EXCEPT ![i] = p] /\ answer' = NoAnswer
      /\ UNCHANGED <<world, version, running, table, unread, list>>
  BY DEF FetchOne, NoPick, agent, round
<1>3. p \in Request /\ Follows(p, requests[i])
  BY <1>1 DEF Request, Follows, Stores
<1> HIDE DEF p
<1>4. /\ requests' \in Seq(Request) /\ Len(requests') = Len(requests)
      /\ \A j \in DOMAIN requests' : \E k \in DOMAIN requests :
            Follows(requests'[j], requests[k])
  BY <1>1, <1>2, <1>3, ReplacedIs
<1>5. TypeOK'
  BY <1>1, <1>2, <1>4 DEF TypeOK, NoAnswer, Request, Row
<1> QED
  BY <1>2, <1>4, <1>5, FollowingKeeps

LEMMA EndsIs ==
    ASSUME TypeOK, NEW i \in DOMAIN requests, Ends(i)
    PROVE  /\ requests' \in Seq(Request) /\ Len(requests') \in 0 .. world.maxRequests
           /\ \A j \in DOMAIN requests' : \E k \in DOMAIN requests :
                 Follows(requests'[j], requests[k])
<1>1. requests \in Seq(Request) /\ Len(requests) \in 0 .. world.maxRequests
  BY DEF TypeOK
<1>2. requests' = RemoveAt(requests, i)
  BY DEF Ends
<1>3. /\ requests' \in Seq(Request) /\ Len(requests') = Len(requests) - 1
      /\ \A j \in DOMAIN requests' : \E k \in DOMAIN requests : requests'[j] = requests[k]
  BY <1>1, <1>2, RemovedIs
<1>4. Len(requests') \in 0 .. world.maxRequests
  <2>1. Len(requests') \in Nat /\ world.maxRequests \in Nat
    BY <1>3, LenProperties, WorldIs DEF WorldOK
  <2> QED
    BY <1>1, <1>3, <2>1
<1> QED
  BY <1>3, <1>4 DEF Follows

LEMMA GoesIs ==
    ASSUME TypeOK, NEW i \in DOMAIN requests, Stores(requests[i]), Goes(i)
    PROVE  /\ requests' \in Seq(Request) /\ Len(requests') \in 0 .. world.maxRequests
           /\ \A j \in DOMAIN requests' : \E k \in DOMAIN requests :
                 Follows(requests'[j], requests[k])
<1>1. CASE Len(requests[i].todo) = 1
  BY <1>1, EndsIs DEF Goes
<1>2. CASE Len(requests[i].todo) # 1
  <2> DEFINE p == [requests[i] EXCEPT !.todo = Tail(requests[i].todo), !.looked = "not yet"]
  <2>1. requests' = [requests EXCEPT ![i] = p]
    BY <1>2 DEF Goes
  <2>2. /\ requests[i] \in Request /\ requests[i].todo \in Seq(Nodes(world))
        /\ requests[i].todo # <<>>
    BY RequestIs DEF Stores
  <2>3. /\ Tail(requests[i].todo) \in Seq(Nodes(world)) /\ Tail(requests[i].todo) # <<>>
        /\ ToSet(Tail(requests[i].todo)) \subseteq ToSet(requests[i].todo)
    BY <1>2, <2>2, TailIs
  <2>4. p \in Request
    BY <2>2, <2>3 DEF Request
  <2>5. p.todo = Tail(requests[i].todo) /\ p.of = requests[i].of
        /\ p.version = requests[i].version /\ p.awaited = requests[i].awaited
    BY <2>2 DEF Request
  <2> HIDE DEF p
  <2>6. Follows(p, requests[i])
    BY <2>3, <2>5 DEF Follows, Stores
  <2> QED
    BY <2>1, <2>4, <2>6, ReplacedIs DEF TypeOK
<1> QED
  BY <1>1, <1>2

LEMMA UpsertFailsKeeps ==
    ASSUME IInv, NEW i \in DOMAIN requests, UpsertFails(i)
    PROVE  IInv'
<1>1. TypeOK /\ Ends(i) /\ answer' = NoAnswer
      /\ UNCHANGED <<world, version, running, table, unread, list>>
  BY DEF IInv, UpsertFails, NoPick, agent, round
<1>2. /\ requests' \in Seq(Request) /\ Len(requests') \in 0 .. world.maxRequests
      /\ \A j \in DOMAIN requests' : \E k \in DOMAIN requests :
            Follows(requests'[j], requests[k])
  BY <1>1, EndsIs
<1>3. TypeOK'
  BY <1>1, <1>2 DEF TypeOK, NoAnswer, Request, Row
<1> QED
  BY <1>1, <1>2, <1>3, FollowingKeeps

(* The row stored is of the cluster of the request, and not newer than     *)
(* what any agent of that cluster waits for.                               *)
LEMMA StoreIs ==
    ASSUME IInv, NEW i \in DOMAIN requests, NEW n \in Nodes(world), Store(i, n)
    PROVE  /\ n.cluster = requests[i].of
           /\ table'[n] = [stored |-> requests[i].version, age |-> 0]
           /\ table'[n] \in Row /\ DOMAIN table' = Nodes(world)
           /\ \A m \in Nodes(world) : m # n => table'[m] = table[m]
<1>1. TypeOK /\ Stores(requests[i])
  BY DEF IInv
<1>2. n = Head(requests[i].todo) /\ table' = [table EXCEPT ![n] = NewRow(@, requests[i].version)]
  BY DEF Store
<1>3. n \in ToSet(requests[i].todo)
  <2>1. requests[i].todo \in Seq(Nodes(world)) /\ requests[i].todo # <<>>
    BY <1>1, RequestIs DEF Stores
  <2>2. Head(requests[i].todo) = requests[i].todo[1] /\ 1 \in DOMAIN requests[i].todo
    BY <2>1, EmptySeq, LenProperties
  <2> QED
    BY <1>2, <2>2 DEF ToSet
<1>4. DOMAIN table = Nodes(world) /\ requests[i].version \in Versions
  BY <1>1, RequestIs DEF TypeOK
<1>5. table'[n] = [stored |-> requests[i].version, age |-> 0] /\ DOMAIN table' = Nodes(world)
      /\ \A m \in Nodes(world) : m # n => table'[m] = table[m]
  BY <1>2, <1>4 DEF NewRow
<1>6. 0 \in Age
  BY InventoryAssumption DEF Age
<1> QED
  BY <1>1, <1>3, <1>4, <1>5, <1>6 DEF Stores, Row

LEMMA StoreKeeps ==
    ASSUME IInv, NEW i \in DOMAIN requests, NEW n \in Nodes(world), Store(i, n)
    PROVE  IInv'
<1>1. /\ TypeOK /\ NotAhead
      /\ \A k \in DOMAIN requests : Stores(requests[k])
      /\ \A k \in DOMAIN requests : requests[k].awaited => Newest(k)
  BY DEF IInv
<1>2. /\ Goes(i) /\ answer' = NoAnswer
      /\ UNCHANGED <<world, version, running, unread, list>>
  BY DEF Store, NoPick, agent, round
<1>3. /\ n.cluster = requests[i].of
      /\ table'[n] = [stored |-> requests[i].version, age |-> 0]
      /\ table'[n] \in Row /\ DOMAIN table' = Nodes(world)
      /\ \A m \in Nodes(world) : m # n => table'[m] = table[m]
  BY StoreIs
<1>4. /\ requests' \in Seq(Request) /\ Len(requests') \in 0 .. world.maxRequests
      /\ \A j \in DOMAIN requests' : \E k \in DOMAIN requests :
            Follows(requests'[j], requests[k])
  BY <1>1, <1>2, GoesIs
<1>5. TypeOK'
  BY <1>1, <1>2, <1>3, <1>4 DEF TypeOK, NoAnswer, Request, Row
<1>6. \A m \in Nodes(world) :
         \/ table'[m].stored = table[m].stored
         \/ m.cluster = requests[i].of /\ table'[m].stored = requests[i].version
  BY <1>3
<1>7. NotAhead'
  <2>1. \A m \in Nodes(world) : table'[m].stored <= version[m.cluster]
    BY <1>1, <1>6 DEF NotAhead
  <2>2. \A j \in DOMAIN requests' : requests'[j].version <= version[requests'[j].of]
    BY <1>1, <1>4 DEF NotAhead, Follows
  <2> QED
    BY <1>2, <2>1, <2>2 DEF NotAhead
<1>8. ASSUME NEW j \in DOMAIN requests', requests'[j].awaited PROVE Newest(j)'
  <2>1. PICK k \in DOMAIN requests : Follows(requests'[j], requests[k])
    BY <1>4
  <2>2. Newest(k) /\ requests'[j].of = requests[k].of /\ requests'[j].version = requests[k].version
    BY <1>1, <1>8, <2>1 DEF Follows
  <2>3. \A l \in DOMAIN requests' :
           requests'[l].of = requests[k].of => requests'[l].version <= requests[k].version
    BY <1>4, <2>2 DEF Follows, Newest
  <2>4. \A m \in Nodes(world) :
           m.cluster = requests[k].of => table'[m].stored <= requests[k].version
    BY <1>6, <2>2 DEF Newest
  <2> QED
    BY <1>2, <2>2, <2>3, <2>4 DEF Newest
<1>9. \A j \in DOMAIN requests' : Stores(requests'[j])
  BY <1>1, <1>4 DEF Follows
<1> QED
  BY <1>5, <1>7, <1>8, <1>9 DEF IInv, Stores

LEMMA StopKeeps ==
    ASSUME IInv, NEW c \in Clusters, Stop(c)
    PROVE  IInv'
<1>1. /\ running' \subseteq running /\ answer' = NoAnswer /\ TypeOK
      /\ UNCHANGED <<world, version, table, requests, unread, list>>
  BY DEF Stop, NoPick, round, IInv
<1>2. TypeOK'
  BY <1>1 DEF TypeOK, NoAnswer, Request, Row
<1>3. \A j \in DOMAIN requests' : Follows(requests'[j], requests[j])
  BY <1>1 DEF Follows
<1> QED
  BY <1>1, <1>2, <1>3, FollowingKeeps

(* Only ages change.                                                       *)
LEMMA TickKeeps ==
    ASSUME IInv, Tick
    PROVE  IInv' /\ \A n \in Nodes(world) : table'[n].stored = table[n].stored
<1>1. /\ TypeOK /\ answer' = NoAnswer
      /\ table' = [n \in DOMAIN table |-> IF table[n] = NoRow THEN NoRow
                                          ELSE [table[n] EXCEPT !.age = Older(@)]]
      /\ list' = [i \in DOMAIN list |-> [list[i] EXCEPT !.age = Older(@)]]
      /\ UNCHANGED <<world, version, running, requests, unread>>
  BY DEF Tick, NoPick, agent, IInv
<1>2. \A age \in Age : Older(age) \in Age
  BY DEF Older
<1>3. /\ DOMAIN table' = Nodes(world)
      /\ \A n \in Nodes(world) : /\ table'[n] \in Row \cup {NoRow}
                                 /\ table'[n].stored = table[n].stored
  <2>1. DOMAIN table = Nodes(world) /\ \A n \in Nodes(world) : table[n] \in Row \cup {NoRow}
    BY <1>1 DEF TypeOK
  <2>2. ASSUME NEW n \in Nodes(world)
        PROVE  table'[n] \in Row \cup {NoRow} /\ table'[n].stored = table[n].stored
    <3>1. CASE table[n] = NoRow
      BY <1>1, <2>1, <3>1
    <3>2. CASE table[n] # NoRow
      <4>1. table[n] \in Row
        BY <2>1, <3>2
      <4>2. table'[n] = [table[n] EXCEPT !.age = Older(table[n].age)]
        BY <1>1, <2>1, <3>2
      <4> QED
        BY <1>2, <4>1, <4>2 DEF Row
    <3> QED
      BY <3>1, <3>2
  <2> QED
    BY <1>1, <2>1, <2>2
<1>4. list' \in Seq([node : Nodes(world), fit : BOOLEAN, age : Age])
  <2> DEFINE R == [node : Nodes(world), fit : BOOLEAN, age : Age]
  <2>1. list \in [1 .. Len(list) -> R] /\ Len(list) \in Nat
    BY <1>1, LenProperties DEF TypeOK
  <2>2. \A i \in 1 .. Len(list) : [list[i] EXCEPT !.age = Older(@)] \in R
    BY <1>2, <2>1
  <2>3. list' \in [1 .. Len(list) -> R]
    BY <1>1, <2>1, <2>2
  <2> HIDE DEF R
  <2>4. list' \in Seq(R)
    BY <2>1, <2>3, FunctionIsSequence
  <2> QED
    BY <2>4 DEF R
<1>5. TypeOK'
  BY <1>1, <1>3, <1>4 DEF TypeOK, NoAnswer, Request, Row
<1>6. \A j \in DOMAIN requests' : Follows(requests'[j], requests[j])
  BY <1>1 DEF Follows
<1> QED
  BY <1>1, <1>3, <1>5, <1>6, FollowingKeeps

LEMMA ListNodesKeeps ==
    ASSUME IInv, NEW c \in Clusters, ListNodes(c)
    PROVE  IInv'
<1> DEFINE R == [node : Nodes(world), fit : BOOLEAN, age : Age]
           rows == {n \in DOMAIN table : n.cluster = c /\ table[n] # NoRow}
<1>1. /\ TypeOK /\ unread' = unread \ {c} /\ answer' = NoAnswer
      /\ UNCHANGED <<world, version, running, table, requests>>
  BY DEF ListNodes, NoPick, agent, IInv
<1>2. PICK found \in SetToSeqs(rows) :
         list' = list \o [i \in DOMAIN found |->
                            [node |-> found[i],
                             fit  |-> Fit(found[i], table[found[i]].stored),
                             age  |-> table[found[i]].age]]
  BY DEF ListNodes
<1>3. rows \subseteq Nodes(world) /\ Cardinality(rows) \in Nat
  <2>1. rows \subseteq Nodes(world) /\ IsFiniteSet(Nodes(world))
    BY <1>1, WorldIs DEF TypeOK
  <2> QED
    BY <2>1, FS_Subset, FS_CardinalityType
<1>4. \A n \in rows : [node |-> n, fit |-> Fit(n, table[n].stored), age |-> table[n].age] \in R
  <2> SUFFICES ASSUME NEW n \in rows
               PROVE  [node |-> n, fit |-> Fit(n, table[n].stored), age |-> table[n].age] \in R
    OBVIOUS
  <2>1. n \in Nodes(world) /\ table[n].age \in Age
    BY <1>1, <1>3, TableIs
  <2>2. Fit(n, table[n].stored) \in BOOLEAN
    BY DEF Fit
  <2> QED
    BY <2>1, <2>2
<1>5. found \in [1 .. Cardinality(rows) -> rows]
  BY DEF SetToSeqs
<1> HIDE DEF rows
<1> DEFINE more == [i \in DOMAIN found |->
                      [node |-> found[i],
                       fit  |-> Fit(found[i], table[found[i]].stored),
                       age  |-> table[found[i]].age]]
<1>6. more \in [1 .. Cardinality(rows) -> R]
  BY <1>4, <1>5
<1> HIDE DEF more, R
<1>7. more \in Seq(R) /\ list \in Seq(R)
  BY <1>1, <1>3, <1>6, FunctionIsSequence DEF TypeOK, R
<1>8. list' \in Seq(R)
  BY <1>2, <1>7, ConcatProperties DEF more
<1>9. TypeOK'
  BY <1>1, <1>8 DEF TypeOK, NoAnswer, Request, Row, R
<1>10. \A j \in DOMAIN requests' : Follows(requests'[j], requests[j])
  BY <1>1 DEF Follows
<1> QED
  BY <1>1, <1>9, <1>10, FollowingKeeps

LEMMA ListFailsKeeps ==
    ASSUME IInv, ListFails
    PROVE  IInv'
<1>1. /\ TypeOK /\ unread' = Clusters /\ list' = <<>> /\ answer' = NoAnswer
      /\ UNCHANGED <<world, version, running, table, requests>>
  BY DEF ListFails, NoPick, agent, IInv
<1>2. list' \in Seq([node : Nodes(world), fit : BOOLEAN, age : Age])
  BY <1>1, EmptySeq
<1>3. TypeOK'
  BY <1>1, <1>2 DEF TypeOK, NoAnswer, Request, Row
<1>4. \A j \in DOMAIN requests' : Follows(requests'[j], requests[j])
  BY <1>1 DEF Follows
<1> QED
  BY <1>1, <1>3, <1>4, FollowingKeeps

LEMMA ScoreKeeps ==
    ASSUME IInv, Score
    PROVE  IInv'
<1>1. /\ TypeOK /\ unread' = Clusters /\ list' = <<>>
      /\ UNCHANGED <<world, version, running, table, requests>>
  BY DEF Score, agent, IInv
<1> DEFINE rows == FilterEligibleNodes(list)
<1>2. answer' \in ScoreNodes(rows, world.qos)
  BY DEF Score
<1>3. ToSet(rows) \subseteq Nodes(world)
  <2> DEFINE R == [node : Nodes(world), fit : BOOLEAN, age : Age]
  <2>1. \A i \in DOMAIN list : list[i] \in R
    BY <1>1, ElementOfSeq, LenProperties DEF TypeOK
  <2>2. \A i \in DOMAIN rows : i \in DOMAIN list /\ rows[i] = list[i].node
    BY DEF FilterEligibleNodes
  <2> QED
    BY <2>1, <2>2 DEF ToSet
<1> HIDE DEF rows
<1>4. answer'.nodes \subseteq {n \in Nodes(world) : n.cluster = answer'.cluster}
  <2>1. CASE answer' = Nobody
    BY <2>1 DEF Nobody
  <2>2. CASE answer'.nodes \subseteq {n \in ToSet(rows) : n.cluster = answer'.cluster}
    BY <1>3, <2>2
  <2> QED
    BY <1>2, <2>1, <2>2, PickIsEligible
<1>5. list' \in Seq([node : Nodes(world), fit : BOOLEAN, age : Age])
  BY <1>1, EmptySeq
<1>6. TypeOK'
  BY <1>1, <1>4, <1>5 DEF TypeOK, Request, Row
<1>7. \A j \in DOMAIN requests' : Follows(requests'[j], requests[j])
  BY <1>1 DEF Follows
<1> QED
  BY <1>1, <1>6, <1>7, FollowingKeeps

LEMMA NextKeeps ==
    ASSUME IInv, [Next]_vars
    PROVE  IInv'
<1>1. CASE Next
  BY <1>1, ChangeKeeps, StopKeeps, SendNodeInfoKeeps, ListNodesKeeps, GiveUpKeeps,
     UpsertFailsKeeps, FetchOneKeeps, StoreKeeps, TickKeeps, ListFailsKeeps, ScoreKeeps
     DEF Next
<1>2. CASE UNCHANGED vars
  <2>1. UNCHANGED <<world, version, running, table, requests, unread, list, answer>> /\ TypeOK
    BY <1>2 DEF vars, IInv
  <2>2. TypeOK'
    BY <2>1 DEF TypeOK, Request, Row
  <2>3. \A j \in DOMAIN requests' : Follows(requests'[j], requests[j])
    BY <2>1 DEF Follows
  <2> QED
    BY <2>1, <2>2, <2>3, FollowingKeeps
<1> QED
  BY <1>1, <1>2

LEMMA AlwaysInv == Spec => []IInv
<1>1. Init => IInv
  BY InitHolds
<1>2. IInv /\ [Next]_vars => IInv'
  BY NextKeeps
<1> QED
  BY <1>1, <1>2, PTL DEF Spec

(* Requests, rows and the scheduler's list keep their types, whatever      *)
(* overtakes what; and what the scheduler picks are nodes of one cluster   *)
(* that are in the inventory.                                              *)
THEOREM InventoryTypeCorrect == Spec => []TypeOK
<1>1. IInv => TypeOK
  BY DEF IInv
<1> QED
  BY AlwaysInv, <1>1, PTL

(* UpsertNodes puts a row back to an older report only for a request that  *)
(* its agent has given up: SendNodeInfo waits for the answer, so nothing   *)
(* newer than its report can be in the table while it does.                *)
THEOREM InventoryOnlyMovesForward == Spec => InventoryMovesForward
<1> DEFINE Back ==
       \A n \in DOMAIN table :
          table'[n].stored < table[n].stored =>
             \E i \in DOMAIN requests :
                /\ requests[i].of = n.cluster
                /\ requests[i].version = table'[n].stored
                /\ ~requests[i].awaited
<1>1. IInv /\ [Next]_vars => [Back]_vars
  <2> SUFFICES ASSUME IInv, [Next]_vars, NEW m \in DOMAIN table,
                      table'[m].stored < table[m].stored
               PROVE  \E i \in DOMAIN requests :
                         /\ requests[i].of = m.cluster
                         /\ requests[i].version = table'[m].stored
                         /\ ~requests[i].awaited
    OBVIOUS
  <2>1. /\ TypeOK /\ m \in Nodes(world) /\ table[m].stored \in -1 .. 1
        /\ \A i \in DOMAIN requests : requests[i].awaited => Newest(i)
    BY TableIs DEF IInv, TypeOK
  <2>2. table'[m].stored # table[m].stored
    BY <2>1
  <2>3. PICK i \in DOMAIN requests, n \in Nodes(world) : Store(i, n)
    <3>1. CASE Tick
      BY <2>1, <2>2, <3>1, TickKeeps
    <3>2. CASE UNCHANGED table
      BY <2>2, <3>2
    <3> QED
      BY <3>1, <3>2
      DEF Next, vars, Change, Stop, SendNodeInfo, ListNodes, GiveUp, UpsertFails, FetchOne,
          ListFails, Score
  <2>4. /\ n.cluster = requests[i].of
        /\ table'[n] = [stored |-> requests[i].version, age |-> 0]
        /\ \A o \in Nodes(world) : o # n => table'[o] = table[o]
    BY <2>3, StoreIs
  <2>5. m = n
    BY <2>1, <2>2, <2>4
  <2>6. requests[i].of = m.cluster /\ requests[i].version = table'[m].stored
    BY <2>4, <2>5
  <2>7. ~requests[i].awaited
    <3>1. requests[i].awaited => table[m].stored <= requests[i].version
      BY <2>1, <2>6 DEF Newest
    <3>2. requests[i].version \in 0 .. 1
      BY <2>1, RequestIs
    <3> QED
      BY <2>1, <2>6, <3>1, <3>2
  <2> QED
    BY <2>6, <2>7
<1> QED
  BY AlwaysInv, <1>1, PTL DEF Spec, InventoryMovesForward

-----------------------------------------------------------------------------
(* What the scheduler picks.                                              *)

(* The eligible nodes of the scheduler's list are nodes of the world, and  *)
(* the scorer gets numbers of them.                                        *)
LEMMA EligibleIs ==
    ASSUME TypeOK
    PROVE  /\ Measured(FilterEligibleNodes(list)) /\ world.qos \in Qos
           /\ DOMAIN FilterEligibleNodes(list) \subseteq DOMAIN list
<1> DEFINE rows == FilterEligibleNodes(list)
           R == [node : Nodes(world), fit : BOOLEAN, age : Age]
<1>1. WorldOK(world)
  BY WorldIs
<1>2. \A i \in DOMAIN rows : i \in DOMAIN list /\ rows[i] = list[i].node
  BY DEF FilterEligibleNodes
<1>3. list \in Seq(R) /\ Len(list) \in Nat /\ DOMAIN list = 1 .. Len(list)
  BY LenProperties DEF TypeOK
<1>4. \A i \in DOMAIN rows : rows[i] \in Nodes(world)
  <2>1. \A i \in DOMAIN list : list[i] \in R
    BY <1>3, ElementOfSeq
  <2> QED
    BY <1>2, <2>1
<1>5. \A n \in Nodes(world) : Numbers(n)
  <2>1. \A n \in Nodes(world) : \A a \in ToSet(Attributes) \ {"latency"} : n[a] \in Int
    BY <1>1 DEF WorldOK, Nodes
  <2>2. \A k \in 1 .. 7 : k # 3 => Attributes[k] \in ToSet(Attributes) \ {"latency"}
    BY DEF Attributes, ToSet
  <2> QED
    BY <2>1, <2>2 DEF Numbers
<1>6. DOMAIN rows \subseteq DOMAIN list
  BY <1>2
<1>7. IsFiniteSet(DOMAIN rows) /\ DOMAIN rows \subseteq Int
  <2>1. IsFiniteSet(1 .. Len(list)) /\ 1 .. Len(list) \subseteq Int
    BY <1>3, FS_Interval
  <2> HIDE DEF rows
  <2> QED
    BY <1>3, <1>6, <2>1, FS_Subset
<1>8. world.qos \in Qos
  BY <1>1 DEF WorldOK, Qos
<1> HIDE DEF rows
<1>9. Measured(rows)
  BY <1>4, <1>5, <1>7 DEF Measured
<1> QED
  BY <1>6, <1>8, <1>9 DEF rows

(* Only Score ends a round with all clusters read, unless there is none.   *)
LEMMA ScoredIs ==
    ASSUME IInv, [Next]_vars, Scored
    PROVE  \/ answer' \in ScoreNodes(FilterEligibleNodes(list), world.qos)
           \/ DOMAIN list = {}
<1>1. CASE Score
  BY <1>1 DEF Score
<1>2. CASE unread' = unread
  <2>1. Nodes(world) = {}
    BY <1>2 DEF Scored, Nodes
  <2>2. \A i \in DOMAIN list : list[i].node \in Nodes(world)
    <3> DEFINE R == [node : Nodes(world), fit : BOOLEAN, age : Age]
    <3>1. \A i \in DOMAIN list : list[i] \in R
      BY ElementOfSeq, LenProperties DEF IInv, TypeOK
    <3> QED
      BY <3>1
  <2> QED
    BY <2>1, <2>2
<1>3. ~(unread # {})
  BY DEF Scored
<1> QED
  BY <1>1, <1>2, <1>3
  DEF Next, vars, round, Change, Stop, SendNodeInfo, ListNodes, GiveUp, UpsertFails, FetchOne,
      Store, Tick, ListFails

(* FilterEligibleNodes leaves nodes and the scorer, with weights that are  *)
(* not negative, none of them only when at least three score the same, by  *)
(* weights that floating point rounds: otherwise one of those that score   *)
(* most is at least the average, and its cluster, whose nodes then score   *)
(* more than 0, does not come after one that keeps nobody.                 *)
THEOREM NoAnswerOnlyForATie == Spec => EmptyAnswerIsATie
<1> DEFINE Tie ==
       Scored /\ answer'.nodes = {} /\ ~NegativeWeight(world.qos) =>
          LET eligible == FilterEligibleNodes(list)
              scores   == Scores(eligible, world.qos)
          IN  DOMAIN eligible # {} =>
                 /\ ~Exact(world.qos) /\ Cardinality(DOMAIN eligible) > 2
                 /\ \A m, n \in ToSet(eligible) : scores[m] = scores[n]
<1>1. IInv /\ [Next]_vars => [Tie]_vars
  <2> SUFFICES ASSUME IInv, [Next]_vars, Scored, answer'.nodes = {},
                      ~NegativeWeight(world.qos), DOMAIN FilterEligibleNodes(list) # {}
               PROVE  LET scores == Scores(FilterEligibleNodes(list), world.qos)
                      IN  /\ ~Exact(world.qos)
                          /\ Cardinality(DOMAIN FilterEligibleNodes(list)) > 2
                          /\ \A m, n \in ToSet(FilterEligibleNodes(list)) :
                                scores[m] = scores[n]
    OBVIOUS
  <2>1. /\ Measured(FilterEligibleNodes(list)) /\ world.qos \in Qos
        /\ DOMAIN FilterEligibleNodes(list) \subseteq DOMAIN list
    BY EligibleIs DEF IInv
  <2>2. answer' \in ScoreNodes(FilterEligibleNodes(list), world.qos)
    BY <2>1, ScoredIs
  <2> QED
    BY <2>1, <2>2, EmptyPickIs
<1> QED
  BY AlwaysInv, <1>1, PTL DEF Spec, EmptyAnswerIsATie

(* By weights that are not negative the scorer never leaves a node out for *)
(* one of its cluster that is worse in everything: that scores less, and   *)
(* is kept only if what scores more is.                                    *)
THEOREM BetterNodeIsPicked == Spec => BetterNodeIsNotLeftOut
<1> DEFINE Kind ==
       Scored /\ ~NegativeWeight(world.qos) =>
          \A n \in answer'.nodes, m \in ToSet(FilterEligibleNodes(list)) :
             m.cluster = n.cluster /\ BetterInEverything(m, n)
                => m \in answer'.nodes
<1>1. IInv /\ [Next]_vars => [Kind]_vars
  <2> SUFFICES ASSUME IInv, [Next]_vars, Scored, ~NegativeWeight(world.qos),
                      NEW n \in answer'.nodes, NEW m \in ToSet(FilterEligibleNodes(list)),
                      m.cluster = n.cluster, BetterInEverything(m, n)
               PROVE  m \in answer'.nodes
    OBVIOUS
  <2>1. /\ Measured(FilterEligibleNodes(list)) /\ world.qos \in Qos
        /\ DOMAIN FilterEligibleNodes(list) \subseteq DOMAIN list
    BY EligibleIs DEF IInv
  <2>2. DOMAIN FilterEligibleNodes(list) # {}
    BY DEF ToSet
  <2>3. answer' \in ScoreNodes(FilterEligibleNodes(list), world.qos)
    BY <2>1, <2>2, ScoredIs
  <2> QED
    BY <2>1, <2>3, BetterIsPicked
<1> QED
  BY AlwaysInv, <1>1, PTL DEF Spec, BetterNodeIsNotLeftOut
=============================================================================
