--------------------------- MODULE SynthesizeProofs ---------------------------
(***************************************************************************)
(* Proofs about Synthesize for db.yaml of any length, any figures and any  *)
(* sequence of requests.  The hypotheses on db.yaml are what Consistent of *)
(* Registry says of it: entries numbered from 1 on in each level.          *)
(***************************************************************************)
EXTENDS Synthesize, FiniteSetTheorems, TLAPS

------------------------------------------------------------------------------
\* What registration guarantees of db.yaml.

\* The numbers fit the four bits of the mode byte.
Fits == \A d \in Dbs : \A i \in DOMAIN d : d[i].index <= 15

\* Registration numbers the entries of a level in their order.
InOrder ==
  \A d \in Dbs : \A i \in DOMAIN d :
    d[i].index = Cardinality({k \in 1..i : d[k].level = d[i].level})

\* Both ports have a backend.
BothServed == \A d \in Dbs : \A l \in Ports : \E i \in DOMAIN d : d[i].level = l

\* db.yaml is not written by synthesize.
DbInv == db \in Dbs

------------------------------------------------------------------------------
\* A set of naturals has a least element.
LEMMA NatLeast ==
  ASSUME NEW S, S \subseteq Nat, S # {}
  PROVE  \E m \in S : \A x \in S : m <= x
<1>1. PICK m \in S : \A y \in S : ~ (<<y, m>> \in OpToRel(<, Nat))
  BY NatLessThanWellFounded, WFMin
<1>2. \A y \in S : ~ (y < m)
  BY <1>1 DEF OpToRel
<1> QED
  BY <1>2

\* A finite set of integers has a least and a greatest element: of the subsets
\* that have not, one would have the fewest elements.
LEMMA FiniteExtremes ==
  ASSUME NEW S, IsFiniteSet(S), S \subseteq Int, S # {}
  PROVE  /\ \E m \in S : \A x \in S : m <= x
         /\ \E m \in S : \A x \in S : m >= x
<1> DEFINE Both(U) == /\ \E m \in U : \A x \in U : m <= x
                      /\ \E m \in U : \A x \in U : m >= x
           Bad == {U \in SUBSET S : U # {} /\ ~ Both(U)}
           Sizes == {Cardinality(U) : U \in Bad}
<1>1. \A U \in SUBSET S : IsFiniteSet(U) /\ Cardinality(U) \in Nat
  BY FS_Subset, FS_CardinalityType
<1>2. CASE Bad = {}
  BY <1>2
<1>3. CASE Bad # {}
  <2>1. Sizes \subseteq Nat /\ Sizes # {}
    BY <1>1, <1>3
  <2>2. PICK n \in Sizes : \A x \in Sizes : n <= x
    BY <2>1, NatLeast
  <2>3. PICK U \in Bad : n = Cardinality(U)
    BY <2>2
  <2>4. U \subseteq S /\ U # {} /\ ~ Both(U) /\ IsFiniteSet(U)
    BY <1>1, <2>3
  <2>5. PICK a \in U : TRUE
    BY <2>4
  <2>6. Cardinality(U \ {a}) = Cardinality(U) - 1
    BY <2>4, <2>5, FS_RemoveElement
  <2>7. U \ {a} \notin Bad
    <3> SUFFICES ASSUME U \ {a} \in Bad PROVE FALSE
      OBVIOUS
    <3>1. n <= Cardinality(U \ {a})
      BY <2>2
    <3> QED
      BY <1>1, <2>3, <2>4, <2>6, <3>1
  <2>8. a \in Int /\ U \subseteq Int
    BY <2>4
  <2>9. CASE U \ {a} = {}
    <3>1. \A x \in U : x = a
      BY <2>9
    <3>2. Both(U)
      BY <2>5, <2>8, <3>1
    <3> QED
      BY <2>4, <3>2
  <2>10. CASE U \ {a} # {}
    <3>1. Both(U \ {a})
      BY <2>4, <2>7, <2>10
    <3>2. PICK lo \in U \ {a} : \A x \in U \ {a} : lo <= x
      BY <3>1
    <3>3. PICK hi \in U \ {a} : \A x \in U \ {a} : hi >= x
      BY <3>1
    <3>4. \E m \in U : \A x \in U : m <= x
      <4>1. CASE a <= lo
        BY <2>8, <3>2, <4>1
      <4>2. CASE ~ (a <= lo)
        BY <2>8, <3>2, <4>2
      <4> QED
        BY <4>1, <4>2
    <3>5. \E m \in U : \A x \in U : m >= x
      <4>1. CASE a >= hi
        BY <2>8, <3>3, <4>1
      <4>2. CASE ~ (a >= hi)
        BY <2>8, <3>3, <4>2
      <4> QED
        BY <4>1, <4>2
    <3> QED
      BY <2>4, <3>4, <3>5
  <2> QED
    BY <2>9, <2>10
<1> QED
  BY <1>2, <1>3

\* The Min and the Max of a finite set are what their names say.
LEMMA MinMaxFacts ==
  ASSUME NEW S, IsFiniteSet(S), S \subseteq Int, S # {}
  PROVE  /\ Min(S) \in S /\ \A x \in S : Min(S) <= x
         /\ Max(S) \in S /\ \A x \in S : Max(S) >= x
<1>1. \E m \in S : \A x \in S : m <= x
  BY FiniteExtremes
<1>2. \E m \in S : \A x \in S : m >= x
  BY FiniteExtremes
<1>3. Min(S) \in S /\ \A x \in S : Min(S) <= x
  BY <1>1 DEF Min
<1>4. Max(S) \in S /\ \A x \in S : Max(S) >= x
  BY <1>2 DEF Max
<1> QED
  BY <1>3, <1>4

\* The first of a set of entries.
LEMMA NatMin ==
  ASSUME NEW S, S \subseteq Nat, S # {}
  PROVE  Min(S) \in S
BY NatLeast DEF Min

------------------------------------------------------------------------------
\* The fields of the byte that synthesize sends, for each function.
LEMMA CodeFields ==
  ASSUME NEW fn \in Functions, NEW l \in 0..2, NEW i \in 1..15
  PROVE  sbits(Code(fn, l, i)) = l /\ ibits(Code(fn, l, i)) = i
<1>1. CASE l = 0
  BY <1>1 DEF Code, sbits, ibits
<1>2. CASE l = 1
  BY <1>2 DEF Code, sbits, ibits
<1>3. CASE l = 2
  BY <1>3 DEF Code, sbits, ibits
<1> QED
  BY <1>1, <1>2, <1>3

\* db.yaml is a sequence of entries.
LEMMA DbFacts ==
  ASSUME DbInv
  PROVE  /\ Len(db) \in Nat \ {0} /\ DOMAIN db = 1..Len(db) /\ 1 \in DOMAIN db
         /\ \A j \in DOMAIN db : /\ db[j].level \in 0..2 /\ db[j].index \in Nat \ {0}
                                 /\ db[j].time \in Int /\ db[j].energy \in Int
<1>1. db \in Seq(Entry) /\ db # <<>>
  BY DbAssumption DEF DbInv
<1>2. Len(db) \in Nat /\ Len(db) # 0 /\ DOMAIN db = 1..Len(db)
  BY <1>1
<1>3. \A j \in DOMAIN db : db[j] \in Entry
  BY <1>1
<1> QED
  BY <1>2, <1>3 DEF Entry

\* The requests are what synthesize accepts.
LEMMA RequestFacts ==
  ASSUME NEW r \in Requests
  PROVE  r[1] \in Functions /\ r[2] \in 0..2 /\ r[3] \in 0..2 /\ r[4] \in 0..2
BY RequestAssumption

\* The answer is an entry: one of those asked for, or the first of the array.
LEMMA IdFacts ==
  ASSUME DbInv, NEW fn, NEW l, NEW tp, NEW en
  PROVE  LET S == Candidates(fn, l)
         IN  Id(S, tp, en) \in DOMAIN db /\ (Id(S, tp, en) \in S \/ Id(S, tp, en) = 1)
<1> DEFINE S == Candidates(fn, l)
           near == {j \in S : dist(S, tp, en, j) < Far * Denominator(S)}
           best == {j \in near : \A k \in near : dist(S, tp, en, j) <= dist(S, tp, en, k)}
<1>1. best \subseteq S /\ S \subseteq DOMAIN db /\ DOMAIN db \subseteq Nat
  BY DbFacts DEF Candidates
<1>2. Id(S, tp, en) = IF best = {} THEN 1 ELSE Min(best)
  BY DEF Id
<1>3. CASE best = {}
  BY <1>2, <1>3, DbFacts
<1>4. CASE best # {}
  <2> HIDE DEF best
  <2>1. Min(best) \in best
    BY <1>1, <1>4, NatMin
  <2> QED
    BY <1>1, <1>2, <1>4, <2>1
<1> QED
  BY <1>3, <1>4

\* The byte of an answer names the entry's number in the level asked for.
LEMMA TargetFields ==
  ASSUME DbInv, Fits, NEW r \in Requests
  PROVE  LET m == Target(r[1], r[2], r[3], r[4])
         IN  /\ sbits(m) = r[2]
             /\ ibits(m) = db[Id(Candidates(r[1], r[2]), r[3], r[4])].index
<1> DEFINE a == Id(Candidates(r[1], r[2]), r[3], r[4])
<1>1. a \in DOMAIN db
  BY IdFacts
<1>2. db[a].index \in 1..15
  <2>1. \A i \in DOMAIN db : db[i].index \in Nat \ {0} /\ db[i].index <= 15
    BY DbFacts DEF Fits, DbInv
  <2>2. \A i \in DOMAIN db : db[i].index \in 1..15
    BY <2>1
  <2> QED
    BY <1>1, <2>2
<1>3. Target(r[1], r[2], r[3], r[4]) = Code(r[1], r[2], db[a].index)
  BY DEF Target
<1> QED
  BY <1>2, <1>3, RequestFacts, CodeFields

------------------------------------------------------------------------------
\* The first entry of a level has number 1.
LEMMA FirstOfLevel ==
  ASSUME DbInv, InOrder, NEW l, NEW i \in DOMAIN db, db[i].level = l
  PROVE  \E j \in DOMAIN db : db[j].level = l /\ db[j].index = 1
<1> DEFINE T == {j \in DOMAIN db : db[j].level = l}
<1>1. T \subseteq Nat /\ T # {}
  BY DbFacts
<1>2. PICK j \in T : \A k \in T : j <= k
  BY <1>1, NatLeast
<1>3. {k \in 1..j : db[k].level = db[j].level} = {j}
  <2>1. j \in 1..Len(db) /\ db[j].level = l
    BY DbFacts
  <2>2. \A k \in 1..j : k \in DOMAIN db
    BY <2>1, DbFacts
  <2>3. \A k \in 1..j : db[k].level = l => k = j
    BY <1>2, <2>1, <2>2, DbFacts
  <2> QED
    BY <2>1, <2>3
<1>4. db[j].index = Cardinality({j})
  BY <1>3 DEF InOrder, DbInv
<1> QED
  BY <1>4, FS_Singleton

\* No two entries of a level have the same number.
LEMMA NumbersDiffer ==
  ASSUME DbInv, InOrder, NEW i \in DOMAIN db, NEW j \in DOMAIN db,
         db[i].level = db[j].level, i < j
  PROVE  db[i].index < db[j].index
<1> DEFINE I == {k \in 1..i : db[k].level = db[i].level}
           J == {k \in 1..j : db[k].level = db[j].level}
<1>1. i \in Nat /\ j \in Nat
  BY DbFacts
<1>2. IsFiniteSet(1..j)
  BY <1>1, FS_Interval
<1>3. IsFiniteSet(J)
  BY <1>2, FS_Subset
<1>4. I \in SUBSET J /\ j \in J /\ j \notin I
  BY <1>1, DbFacts
<1>5. Cardinality(I) <= Cardinality(J) /\ Cardinality(J) # Cardinality(I)
  BY <1>3, <1>4, FS_Subset
<1>6. IsFiniteSet(I)
  BY <1>3, <1>4, FS_Subset
<1>7. Cardinality(I) \in Nat /\ Cardinality(J) \in Nat
  BY <1>3, <1>6, FS_CardinalityType
<1>8. db[i].index = Cardinality(I) /\ db[j].index = Cardinality(J)
  BY DEF InOrder, DbInv
<1> QED
  BY <1>5, <1>7, <1>8

------------------------------------------------------------------------------
\* db.yaml stays as it is.
LEMMA DbKept == Spec => []DbInv
<1>1. Init => DbInv
  BY DEF Init, DbInv
<1>2. DbInv /\ [Next]_vars => DbInv'
  BY DEF DbInv, Next, synthesize, vars
<1> QED
  BY <1>1, <1>2, PTL DEF Spec

\* No sequence of calls moves a port to the other level: the number that
\* synthesize adds never carries into the level field.
THEOREM LevelsKept ==
  ASSUME Fits
  PROVE  Spec => []OwnLevel
<1>1. Init => OwnLevel
  <2> SUFFICES ASSUME Init PROVE OwnLevel
    OBVIOUS
  <2>1. mode = [l \in Ports |-> IF l = 2 THEN 98 ELSE 82]
    BY DEF Init
  <2>2. sbits(98) = 2 /\ sbits(82) = 1
    BY DEF sbits
  <2> QED
    BY <2>1, <2>2 DEF OwnLevel, Ports
<1>2. DbInv /\ OwnLevel /\ [Next]_vars => OwnLevel'
  <2> SUFFICES ASSUME DbInv, OwnLevel, [Next]_vars PROVE OwnLevel'
    OBVIOUS
  <2>1. CASE UNCHANGED vars
    BY <2>1 DEF vars, OwnLevel
  <2>2. ASSUME NEW r \in Requests, synthesize(r[1], r[2], r[3], r[4])
        PROVE  OwnLevel'
    BY <2>2, TargetFields DEF synthesize, OwnLevel
  <2> QED
    BY <2>1, <2>2 DEF Next
<1> QED
  BY <1>1, <1>2, DbKept, PTL DEF Spec

\* Every call on a level with a port names a backend that was registered and
\* measured, also when the answer is the first entry of db.yaml because no
\* distance was comparable.
THEOREM AnswersNamed ==
  ASSUME Fits, InOrder, BothServed
  PROVE  Spec => []NamesBackend
<1>1. DbInv => NamesBackend
  <2> SUFFICES ASSUME DbInv, NEW r \in Requests, r[2] \in Ports
               PROVE  Named(Target(r[1], r[2], r[3], r[4])) # {}
    BY DEF NamesBackend
  <2> DEFINE a == Id(Candidates(r[1], r[2]), r[3], r[4])
             m == Target(r[1], r[2], r[3], r[4])
  <2>1. sbits(m) = r[2] /\ ibits(m) = db[a].index
    BY TargetFields
  <2>2. a \in DOMAIN db /\ (a \in Candidates(r[1], r[2]) \/ a = 1)
    BY IdFacts
  <2>3. CASE a \in Candidates(r[1], r[2])
    <3>1. db[a].level = r[2]
      BY <2>3 DEF Candidates
    <3>2. a \in Named(m)
      BY <2>1, <2>2, <3>1 DEF Named
    <3> QED
      BY <3>2
  <2>4. CASE a = 1
    <3>1. db[1].index = 1
      <4>1. PICK j \in DOMAIN db : db[j].level = db[1].level /\ db[j].index = 1
        BY DbFacts, FirstOfLevel
      <4>2. CASE j = 1
        BY <4>1, <4>2
      <4>3. CASE j # 1
        BY <4>1, <4>3, DbFacts, NumbersDiffer
      <4> QED
        BY <4>2, <4>3
    <3>2. PICK i \in DOMAIN db : db[i].level = r[2]
      BY DEF BothServed, DbInv
    <3>3. PICK j \in DOMAIN db : db[j].level = r[2] /\ db[j].index = 1
      BY <3>2, FirstOfLevel
    <3>4. j \in Named(m)
      BY <2>1, <2>4, <3>1, <3>3 DEF Named
    <3> QED
      BY <3>4
  <2> QED
    BY <2>2, <2>3, <2>4
<1> QED
  BY <1>1, DbKept, PTL

------------------------------------------------------------------------------
\* The product with a natural keeps the order.
LEMMA ProductOrder ==
  ASSUME NEW x \in Nat, NEW y \in Nat, NEW z \in Nat
  PROVE  /\ x * z \in Nat
         /\ x <= y => x * z <= y * z
         /\ x < y /\ z > 0 => x * z < y * z
<1>1. x * z \in Nat
  OBVIOUS
<1>2. ASSUME x <= y PROVE x * z <= y * z
  <2>1. (y - x) * z = y * z - x * z
    OBVIOUS
  <2>2. y - x \in Nat
    BY <1>2
  <2>3. (y - x) * z \in Nat
    BY <2>2
  <2> QED
    BY <2>1, <2>3
<1>3. ASSUME x < y, z > 0 PROVE x * z < y * z
  <2>1. (y - x) * z = y * z - x * z
    OBVIOUS
  <2>2. y - x \in Nat \ {0} /\ z \in Nat \ {0}
    BY <1>3
  <2>3. (y - x) * z \in Nat \ {0}
    BY <2>2
  <2> QED
    BY <2>1, <2>3
<1> QED
  BY <1>1, <1>2, <1>3

\* The square keeps the order of the naturals.
LEMMA SquareOrder ==
  ASSUME NEW x \in Nat, NEW y \in Nat
  PROVE  /\ Sq(x) \in Nat
         /\ x <= y => Sq(x) <= Sq(y)
         /\ x < y => Sq(x) < Sq(y)
<1>1. Sq(x) \in Nat
  BY DEF Sq
<1>2. x <= y => x * x <= x * y /\ x * y <= y * y
  <2>1. x <= y => x * x <= y * x /\ x * y <= y * y
    BY ProductOrder
  <2>2. x * y = y * x
    OBVIOUS
  <2> QED
    BY <2>1, <2>2
<1>3. x < y => x * y < y * y
  BY ProductOrder
<1>4. x * x \in Nat /\ x * y \in Nat /\ y * y \in Nat
  OBVIOUS
<1> QED
  BY <1>1, <1>2, <1>3, <1>4 DEF Sq

\* The square forgets the sign.
LEMMA SquareSign ==
  ASSUME NEW x \in Int, NEW z \in Int
  PROVE  Sq((-x) * z) = Sq(x * z)
<1>1. (-x) * z = -(x * z)
  OBVIOUS
<1>2. \A y \in Int : (-y) * (-y) = y * y
  OBVIOUS
<1> QED
  BY <1>1, <1>2 DEF Sq

\* The distance from a corner in one figure: how far the figure is from its
\* end of the range, and its square in the unit of the other range.
Off(r, x, lo, hi) == IF r = 0 THEN 2 * x - 2 * lo ELSE 2 * hi - 2 * x

\* It is at most the range, doubled as the coordinates are, and it is the
\* root of the summand of dist.
LEMMA OffFacts ==
  ASSUME NEW r \in {0, 2}, NEW lo \in Int, NEW hi \in Int, NEW z \in Nat, z > 0,
         NEW x \in lo..hi
  PROVE  /\ Off(r, x, lo, hi) \in 0..2 * (hi - lo)
         /\ Sq((Twice(r, lo, hi) - 2 * x) * z) = Sq(Off(r, x, lo, hi) * z)
<1>1. CASE r = 0
  <2>1. Twice(r, lo, hi) - 2 * x = -(2 * x - 2 * lo)
    BY <1>1 DEF Twice
  <2>2. 2 * x - 2 * lo \in Int
    OBVIOUS
  <2>3. Sq((-(2 * x - 2 * lo)) * z) = Sq((2 * x - 2 * lo) * z)
    BY <2>2, SquareSign
  <2> QED
    BY <1>1, <2>1, <2>3 DEF Off
<1>2. CASE r = 2
  <2>1. Twice(r, lo, hi) - 2 * x = 2 * hi - 2 * x
    BY <1>2 DEF Twice
  <2> QED
    BY <1>2, <2>1 DEF Off
<1> QED
  BY <1>1, <1>2

\* A figure that is nearer to the corner has the smaller square.
LEMMA OffOrder ==
  ASSUME NEW r \in {0, 2}, NEW lo \in Int, NEW hi \in Int, NEW z \in Nat, z > 0,
         NEW x \in lo..hi, NEW y \in lo..hi, AsNear(r, x, y)
  PROVE  /\ Sq(Off(r, x, lo, hi) * z) \in Nat /\ Sq(Off(r, y, lo, hi) * z) \in Nat
         /\ Sq(Off(r, x, lo, hi) * z) <= Sq(Off(r, y, lo, hi) * z)
         /\ x # y => Sq(Off(r, x, lo, hi) * z) < Sq(Off(r, y, lo, hi) * z)
<1> DEFINE p == Off(r, x, lo, hi)
           q == Off(r, y, lo, hi)
<1>1. x \in Int /\ y \in Int /\ lo <= x /\ x <= hi /\ lo <= y /\ y <= hi
  OBVIOUS
<1>2. p \in Nat /\ q \in Nat /\ p <= q /\ (x # y => p < q)
  <2>1. CASE r = 0
    <3>1. x <= y
      BY <2>1 DEF AsNear
    <3>2. p = 2 * x - 2 * lo /\ q = 2 * y - 2 * lo
      BY <2>1 DEF Off
    <3> QED
      BY <1>1, <3>1, <3>2
  <2>2. CASE r = 2
    <3>1. x >= y
      BY <2>2 DEF AsNear
    <3>2. p = 2 * hi - 2 * x /\ q = 2 * hi - 2 * y
      BY <2>2 DEF Off
    <3> QED
      BY <1>1, <3>1, <3>2
  <2> QED
    BY <2>1, <2>2
<1> HIDE DEF p, q
<1>3. p * z \in Nat /\ q * z \in Nat /\ p * z <= q * z /\ (x # y => p * z < q * z)
  BY <1>2, ProductOrder
<1>4. Sq(p * z) \in Nat /\ Sq(q * z) \in Nat /\ Sq(p * z) <= Sq(q * z)
      /\ (x # y => Sq(p * z) < Sq(q * z))
  BY <1>3, SquareOrder
<1> QED
  BY <1>4 DEF p, q

\* The least and the greatest of the figures f of a finite set, with the
\* value c the search begins with.
LEMMA FigureRange ==
  ASSUME NEW S, IsFiniteSet(S), NEW f \in [S -> Int], NEW c \in Int
  PROVE  LET F == {c} \cup {f[j] : j \in S}
         IN  /\ Min(F) \in Int /\ \A j \in S : Min(F) <= f[j]
             /\ Max(F) \in Int /\ \A j \in S : Max(F) >= f[j]
<1> DEFINE T == {f[j] : j \in S}
           F == {c} \cup T
<1>1. f \in Surjection(S, T)
  BY DEF Surjection
<1>2. IsFiniteSet(T)
  BY <1>1, FS_Surjection
<1>3. F = T \cup {c}
  OBVIOUS
<1>4. IsFiniteSet(F)
  BY <1>2, <1>3, FS_AddElement
<1>5. F \subseteq Int /\ F # {} /\ \A j \in S : f[j] \in F
  OBVIOUS
<1> HIDE DEF F
<1>6. Min(F) \in F /\ (\A x \in F : Min(F) <= x) /\ Max(F) \in F /\ \A x \in F : Max(F) >= x
  BY <1>4, <1>5, MinMaxFacts
<1>7. Min(F) \in Int /\ (\A j \in S : Min(F) <= f[j]) /\ Max(F) \in Int /\ \A j \in S : Max(F) >= f[j]
  BY <1>5, <1>6
<1> QED
  BY <1>7 DEF F

\* The figures of the entries of a level lie in its ranges.
LEMMA Ranges ==
  ASSUME DbInv, NEW S, S \subseteq DOMAIN db
  PROVE  /\ mint(S) \in Int /\ maxt(S) \in Int /\ mine(S) \in Int /\ maxe(S) \in Int
         /\ \A j \in S : db[j].time \in mint(S)..maxt(S) /\ db[j].energy \in mine(S)..maxe(S)
<1> DEFINE ft == [j \in S |-> db[j].time]
           fe == [j \in S |-> db[j].energy]
<1>1. IsFiniteSet(S)
  <2>1. IsFiniteSet(1..Len(db))
    BY DbFacts, FS_Interval
  <2> QED
    BY <2>1, DbFacts, FS_Subset
<1>2. ft \in [S -> Int] /\ fe \in [S -> Int]
  BY DbFacts
<1>3. /\ {ft[j] : j \in S} = {db[j].time : j \in S}
      /\ {fe[j] : j \in S} = {db[j].energy : j \in S}
  OBVIOUS
<1>4. \A j \in S : ft[j] = db[j].time /\ fe[j] = db[j].energy
  OBVIOUS
<1>5. Mint0 \in Int /\ Mine0 \in Int /\ 0 \in Int
  BY DEF Mint0, Mine0
<1> HIDE DEF ft, fe
<1>6. mint(S) \in Int /\ \A j \in S : mint(S) <= db[j].time
  BY <1>1, <1>2, <1>3, <1>4, <1>5, FigureRange DEF mint
<1>7. maxt(S) \in Int /\ \A j \in S : maxt(S) >= db[j].time
  <2>1. \A c \in Int : LET F == {c} \cup {ft[j] : j \in S}
                       IN  Max(F) \in Int /\ \A j \in S : Max(F) >= ft[j]
    BY <1>1, <1>2, FigureRange
  <2>2. LET F == {0} \cup {ft[j] : j \in S}
        IN  Max(F) \in Int /\ \A j \in S : Max(F) >= ft[j]
    BY <1>5, <2>1, Zenon
  <2>3. Max({0} \cup {ft[j] : j \in S}) = maxt(S)
    BY <1>3 DEF maxt
  <2> QED
    BY <1>4, <2>2, <2>3
<1>8. mine(S) \in Int /\ \A j \in S : mine(S) <= db[j].energy
  BY <1>1, <1>2, <1>3, <1>4, <1>5, FigureRange DEF mine
<1>9. maxe(S) \in Int /\ \A j \in S : maxe(S) >= db[j].energy
  <2>1. \A c \in Int : LET F == {c} \cup {fe[j] : j \in S}
                       IN  Max(F) \in Int /\ \A j \in S : Max(F) >= fe[j]
    BY <1>1, <1>2, FigureRange
  <2>2. LET F == {0} \cup {fe[j] : j \in S}
        IN  Max(F) \in Int /\ \A j \in S : Max(F) >= fe[j]
    BY <1>5, <2>1, Zenon
  <2>3. Max({0} \cup {fe[j] : j \in S}) = maxe(S)
    BY <1>3 DEF maxe
  <2> QED
    BY <1>4, <2>2, <2>3
<1> QED
  BY <1>6, <1>7, <1>8, <1>9, DbFacts

\* A summand of a distance is at most the denominator.
LEMMA SummandBound ==
  ASSUME NEW u \in Nat, NEW a \in Nat, NEW b \in Nat, u <= 2 * a
  PROVE  Sq(u * b) \in Nat /\ Sq(2 * a * b) \in Nat /\ Sq(u * b) <= Sq(2 * a * b)
<1>1. 2 * a \in Nat
  OBVIOUS
<1>2. u * b \in Nat /\ (2 * a) * b \in Nat /\ u * b <= (2 * a) * b
  BY <1>1, ProductOrder
<1> QED
  BY <1>2, SquareOrder

\* When the entries asked for differ in both figures, each distance from a
\* corner is a natural below the bound, and a beaten entry is farther.
LEMMA CornerDistances ==
  ASSUME DbInv, NEW S, S \subseteq DOMAIN db, S # {}, Denominator(S) # 0,
         NEW tp \in {0, 2}, NEW en \in {0, 2}
  PROVE  /\ \A j \in S : dist(S, tp, en, j) \in Nat /\ dist(S, tp, en, j) < Far * Denominator(S)
         /\ \A j, k \in S : Beats(tp, en, k, j) => dist(S, tp, en, k) < dist(S, tp, en, j)
<1> DEFINE rt == maxt(S) - mint(S)
           re == maxe(S) - mine(S)
           ot(j) == Off(tp, db[j].time, mint(S), maxt(S))
           oe(j) == Off(en, db[j].energy, mine(S), maxe(S))
           D == Denominator(S)
<1>1. /\ mint(S) \in Int /\ maxt(S) \in Int /\ mine(S) \in Int /\ maxe(S) \in Int
      /\ \A j \in S : db[j].time \in mint(S)..maxt(S) /\ db[j].energy \in mine(S)..maxe(S)
  BY Ranges
<1>2. rt \in Nat /\ re \in Nat
  <2>1. PICK j \in S : TRUE
    OBVIOUS
  <2> QED
    BY <1>1, <2>1
<1>3. rt > 0 /\ re > 0
  <2>1. D = Sq(2 * rt * re)
    BY DEF Denominator
  <2>2. Sq(0) = 0
    BY DEF Sq
  <2>3. rt # 0
    <3> SUFFICES ASSUME rt = 0 PROVE FALSE
      OBVIOUS
    <3>1. 2 * rt * re = 0
      BY <1>2
    <3> QED
      BY <2>1, <2>2, <3>1
  <2>4. re # 0
    <3> SUFFICES ASSUME re = 0 PROVE FALSE
      OBVIOUS
    <3>1. 2 * rt * re = 0
      BY <1>2
    <3> QED
      BY <2>1, <2>2, <3>1
  <2> QED
    BY <1>2, <2>3, <2>4
<1>4. ASSUME NEW j \in S
      PROVE  /\ dist(S, tp, en, j) = Sq(ot(j) * re) + Sq(oe(j) * rt)
             /\ ot(j) \in Nat /\ ot(j) <= 2 * rt /\ oe(j) \in Nat /\ oe(j) <= 2 * re
  <2>1. /\ ot(j) \in 0..2 * rt
        /\ Sq((Twice(tp, mint(S), maxt(S)) - 2 * db[j].time) * re) = Sq(ot(j) * re)
    BY <1>1, <1>2, <1>3, OffFacts
  <2>2. /\ oe(j) \in 0..2 * re
        /\ Sq((Twice(en, mine(S), maxe(S)) - 2 * db[j].energy) * rt) = Sq(oe(j) * rt)
    BY <1>1, <1>2, <1>3, OffFacts
  <2>3. dist(S, tp, en, j) = Sq(ot(j) * re) + Sq(oe(j) * rt)
    BY <2>1, <2>2 DEF dist
  <2> HIDE DEF ot, oe, rt, re
  <2> QED
    BY <1>2, <2>1, <2>2, <2>3
<1>5. D \in Nat /\ D = Sq(2 * rt * re) /\ D = Sq(2 * re * rt)
  <2>1. D = Sq(2 * rt * re)
    BY DEF Denominator
  <2> HIDE DEF D, rt, re
  <2>2. 2 * rt * re \in Nat /\ 2 * rt * re = 2 * re * rt
    BY <1>2
  <2> QED
    BY <2>1, <2>2, SquareOrder
<1>6. ASSUME NEW j \in S
      PROVE  dist(S, tp, en, j) \in Nat /\ dist(S, tp, en, j) < Far * D
  <2> HIDE DEF ot, oe, rt, re, D
  <2>1. ot(j) \in Nat /\ ot(j) <= 2 * rt /\ oe(j) \in Nat /\ oe(j) <= 2 * re
    BY <1>4
  <2>2. Sq(ot(j) * re) \in Nat /\ Sq(ot(j) * re) <= Sq(2 * rt * re)
    BY <1>2, <2>1, SummandBound
  <2>3. Sq(oe(j) * rt) \in Nat /\ Sq(oe(j) * rt) <= Sq(2 * re * rt)
    BY <1>2, <2>1, SummandBound
  <2>4. Sq(ot(j) * re) \in Nat /\ Sq(ot(j) * re) <= D
    BY <1>5, <2>2
  <2>5. Sq(oe(j) * rt) \in Nat /\ Sq(oe(j) * rt) <= D
    BY <1>5, <2>3
  <2>6. D # 0
    BY DEF D
  <2> QED
    BY <1>4, <1>5, <2>4, <2>5, <2>6 DEF Far
<1>7. ASSUME NEW j \in S, NEW k \in S, Beats(tp, en, k, j)
      PROVE  dist(S, tp, en, k) < dist(S, tp, en, j)
  <2>1. AsNear(tp, db[k].time, db[j].time) /\ AsNear(en, db[k].energy, db[j].energy)
    BY <1>7 DEF Beats
  <2>2. /\ Sq(ot(k) * re) \in Nat /\ Sq(ot(j) * re) \in Nat /\ Sq(ot(k) * re) <= Sq(ot(j) * re)
        /\ db[k].time # db[j].time => Sq(ot(k) * re) < Sq(ot(j) * re)
    BY <1>1, <1>2, <1>3, <2>1, OffOrder
  <2>3. /\ Sq(oe(k) * rt) \in Nat /\ Sq(oe(j) * rt) \in Nat /\ Sq(oe(k) * rt) <= Sq(oe(j) * rt)
        /\ db[k].energy # db[j].energy => Sq(oe(k) * rt) < Sq(oe(j) * rt)
    BY <1>1, <1>2, <1>3, <2>1, OffOrder
  <2>4. db[k].time # db[j].time \/ db[k].energy # db[j].energy
    BY <1>7 DEF Beats
  <2> HIDE DEF ot, oe, rt, re
  <2> QED
    BY <1>4, <2>2, <2>3, <2>4
<1> QED
  BY <1>6, <1>7

\* When all distances are below the bound, the answer is an entry asked for
\* and none is nearer.
LEMMA NearestAnswer ==
  ASSUME DbInv, NEW S, S \subseteq DOMAIN db, S # {}, NEW tp, NEW en,
         \A j \in S : dist(S, tp, en, j) \in Nat /\ dist(S, tp, en, j) < Far * Denominator(S)
  PROVE  /\ Id(S, tp, en) \in S
         /\ \A k \in S : dist(S, tp, en, Id(S, tp, en)) <= dist(S, tp, en, k)
<1> DEFINE near == {j \in S : dist(S, tp, en, j) < Far * Denominator(S)}
           best == {j \in near : \A k \in near : dist(S, tp, en, j) <= dist(S, tp, en, k)}
           V == {dist(S, tp, en, j) : j \in S}
<1>1. near = S
  OBVIOUS
<1>2. V \subseteq Nat /\ V # {}
  OBVIOUS
<1>3. PICK v \in V : \A x \in V : v <= x
  BY <1>2, NatLeast
<1>4. best # {}
  <2>1. PICK j \in S : v = dist(S, tp, en, j)
    OBVIOUS
  <2>2. j \in best
    BY <1>1, <1>3, <2>1
  <2> QED
    BY <2>2
<1>5. best \subseteq Nat /\ best \subseteq S
  BY DbFacts
<1>6. Id(S, tp, en) = Min(best)
  BY <1>4 DEF Id
<1>7. Min(best) \in best
  <2> HIDE DEF best
  <2> QED
    BY <1>4, <1>5, NatMin
<1> QED
  BY <1>1, <1>6, <1>7

\* A call for a corner is answered with a backend that no backend of the level
\* beats there, unless the backends of the level share a figure.
THEOREM CornersAnswered ==
  ASSUME Fits, InOrder
  PROVE  Spec => []CornersServed
<1>1. DbInv => CornersServed
  <2> SUFFICES ASSUME DbInv, NEW r \in Requests, r[1] = "e", 1 \notin {r[3], r[4]},
                      Denominator(Candidates(r[1], r[2])) # 0,
                      NEW j \in Named(Target(r[1], r[2], r[3], r[4])), NEW k \in DOMAIN db,
                      Beats(r[3], r[4], k, j)
               PROVE  FALSE
    BY DEF CornersServed
  <2> DEFINE S == Candidates(r[1], r[2])
             a == Id(S, r[3], r[4])
             m == Target(r[1], r[2], r[3], r[4])
  <2>1. sbits(m) = r[2] /\ ibits(m) = db[a].index
    BY TargetFields
  <2>2. j \in DOMAIN db /\ db[j].level = r[2] /\ db[j].index = db[a].index
    BY <2>1 DEF Named
  <2>3. j \in S /\ k \in S /\ S \subseteq DOMAIN db
    BY <2>2 DEF Candidates, Beats
  <2>4. r[3] \in {0, 2} /\ r[4] \in {0, 2}
    BY RequestFacts
  <2>5. /\ \A i \in S : dist(S, r[3], r[4], i) \in Nat
                          /\ dist(S, r[3], r[4], i) < Far * Denominator(S)
        /\ dist(S, r[3], r[4], k) < dist(S, r[3], r[4], j)
    <3> HIDE DEF S
    <3>1. S # {} /\ Denominator(S) # 0
      BY <2>3 DEF S
    <3> QED
      BY <2>3, <2>4, <3>1, CornerDistances
  <2>6. a \in S /\ dist(S, r[3], r[4], a) <= dist(S, r[3], r[4], k)
    <3> HIDE DEF S
    <3>1. S # {}
      BY <2>3
    <3> QED
      BY <2>3, <2>5, <3>1, NearestAnswer
  <2>7. j = a
    <3>1. a \in DOMAIN db /\ db[a].level = db[j].level
      BY <2>2, <2>3, <2>6 DEF Candidates
    <3>2. CASE a < j
      BY <2>2, <3>1, <3>2, DbFacts, NumbersDiffer
    <3>3. CASE j < a
      BY <2>2, <3>1, <3>3, DbFacts, NumbersDiffer
    <3> QED
      BY <2>2, <3>1, <3>2, <3>3, DbFacts
  <2> HIDE DEF S, a
  <2> QED
    BY <2>3, <2>5, <2>6, <2>7
<1> QED
  BY <1>1, DbKept, PTL
==============================================================================
