--------------------------- MODULE DecryptorProofs ---------------------------
(***************************************************************************)
(* addmul multiplies in the field of GCM, for all factors, and the         *)
(* decryptor hashes what it decrypts, for every ciphertext, every size of  *)
(* records and whatever the backends compute.  Its calls are calls of the  *)
(* backends with keys of their level, each of which computes AES.          *)
(*                                                                         *)
(* Induction is by a set of naturals that holds 0 and the successors of    *)
(* its members (Inductive): the induction theorems of the library have a   *)
(* predicate as a parameter, which the provers cannot instantiate.         *)
(***************************************************************************)
EXTENDS Decryptor, BackendProofs, FiniteSetTheorems, WellFoundedInduction

------------------------------------------------------------------------------
\* A set with 0 and all successors has no least non-member.
LEMMA Inductive ==
  ASSUME NEW S, 0 \in S, \A n \in Nat : n \in S => n + 1 \in S
  PROVE  Nat \subseteq S
<1> DEFINE Missing == Nat \ S
<1> SUFFICES ASSUME Missing # {} PROVE FALSE
  OBVIOUS
<1>1. PICK n \in Missing : \A y \in Missing : ~ (<<y, n>> \in OpToRel(<, Nat))
  BY NatLessThanWellFounded, WFMin
<1>2. \A y \in Missing : ~ (y < n)
  BY <1>1 DEF OpToRel
<1>3. n \in Nat /\ n \notin S
  OBVIOUS
<1>4. n # 0 /\ n - 1 \in Nat /\ n - 1 < n
  BY <1>3
<1>5. n - 1 \in S
  BY <1>2, <1>4
<1> QED BY <1>3, <1>4, <1>5

\* One more element changes the parity.
LEMMA OddAdd ==
  ASSUME NEW S, IsFiniteSet(S), NEW x, x \notin S
  PROVE  Odd(S \cup {x}) <=> ~ Odd(S)
<1>1. Cardinality(S \cup {x}) = Cardinality(S) + 1 /\ Cardinality(S) \in Nat
  BY FS_AddElement, FS_CardinalityType
<1> QED BY <1>1 DEF Odd

LEMMA OddEmpty == ~ Odd({})
BY FS_EmptySet DEF Odd

\* The parity of a set of taps, tap by tap.
LEMMA OddTaps ==
  ASSUME NEW S \in SUBSET Taps
  PROVE  Odd(S) <=> (((0 \in S <=> 1 \in S) <=> 2 \in S) <=> 7 \notin S)
<1> DEFINE S0 == S \cap {0}
           S1 == S \cap {0, 1}
           S2 == S \cap {0, 1, 2}
<1>1. IsFiniteSet({}) /\ ~ Odd({})
  BY FS_EmptySet, OddEmpty
<1>2. IsFiniteSet(S0) /\ (Odd(S0) <=> 0 \in S)
  <2>1. CASE 0 \in S
    <3>1. S0 = {} \cup {0}
      BY <2>1
    <3> QED BY <1>1, <2>1, <3>1, OddAdd, FS_AddElement, SMTT(30)
  <2>2. CASE 0 \notin S
    <3>1. S0 = {}
      BY <2>2
    <3> QED BY <1>1, <2>2, <3>1
  <2> QED BY <2>1, <2>2
<1>3. IsFiniteSet(S1) /\ (Odd(S1) <=> (0 \in S <=> 1 \notin S))
  <2>1. CASE 1 \in S
    <3>1. S1 = S0 \cup {1} /\ 1 \notin S0
      BY <2>1
    <3> QED BY <1>2, <2>1, <3>1, OddAdd, FS_AddElement
  <2>2. CASE 1 \notin S
    <3>1. S1 = S0
      BY <2>2
    <3> QED BY <1>2, <2>2, <3>1
  <2> QED BY <2>1, <2>2
<1>4. IsFiniteSet(S2) /\ (Odd(S2) <=> ((0 \in S <=> 1 \in S) <=> 2 \in S))
  <2>1. CASE 2 \in S
    <3>1. S2 = S1 \cup {2} /\ 2 \notin S1
      BY <2>1
    <3> QED BY <1>3, <2>1, <3>1, OddAdd, FS_AddElement
  <2>2. CASE 2 \notin S
    <3>1. S2 = S1
      BY <2>2
    <3> QED BY <1>3, <2>2, <3>1
  <2> QED BY <2>1, <2>2
<1>5. CASE 7 \in S
  <2>1. \A x \in S : x \in {0, 1, 2, 7}
    BY DEF Taps
  <2>2. S = S2 \cup {7} /\ 7 \notin S2
    BY <1>5, <2>1
  <2> QED BY <1>4, <1>5, <2>2, OddAdd
<1>6. CASE 7 \notin S
  <2>1. S = S2
    BY <1>6 DEF Taps
  <2> QED BY <1>4, <1>6, <2>1
<1> QED BY <1>5, <1>6

------------------------------------------------------------------------------
\* The reduction.

\* Bit n after the passes, where f has the bits above it.
Passed(f, n, p) == Odd({d \in Taps : n - d \in 0..127 /\ f[n - d + 128]}) <=> n \notin p

\* f is what the passes leave of p.
IsLast(f, p) == f = [n \in 0..255 |-> Passed(f, n, p)]

\* A bit depends on bits above it only.
LEMMA PassedAbove ==
  ASSUME NEW f, NEW g, NEW p, NEW n \in 0..255,
         \A k \in 0..255 : k > n => f[k] = g[k]
  PROVE  Passed(f, n, p) = Passed(g, n, p)
<1>1. \A d \in Taps : n - d \in 0..127 => n - d + 128 \in 0..255 /\ n - d + 128 > n
  BY DEF Taps
<1>2. {d \in Taps : n - d \in 0..127 /\ f[n - d + 128]} =
      {d \in Taps : n - d \in 0..127 /\ g[n - d + 128]}
  BY <1>1
<1> QED BY <1>2 DEF Passed

\* The passes are defined: from the highest bit down.
LEMMA LastExists ==
  ASSUME NEW p
  PROVE  \E f : IsLast(f, p)
<1> DEFINE Good(f, j) == \A n \in 0..255 : n > 255 - j => f[n] = Passed(f, n, p)
           S == {j \in Nat : j <= 256 => \E f \in [0..255 -> BOOLEAN] : Good(f, j)}
<1>1. 0 \in S
  <2>1. Good([n \in 0..255 |-> FALSE], 0)
    OBVIOUS
  <2> HIDE DEF Good
  <2> QED BY <2>1
<1>2. ASSUME NEW j \in Nat, j \in S PROVE j + 1 \in S
  <2> SUFFICES ASSUME j + 1 <= 256
               PROVE  \E f \in [0..255 -> BOOLEAN] : Good(f, j + 1)
    OBVIOUS
  <2>1. PICK f \in [0..255 -> BOOLEAN] : Good(f, j)
    BY <1>2
  <2> DEFINE x == 255 - j
             g == [f EXCEPT ![x] = Passed(f, x, p)]
  <2>2. x \in 0..255 /\ g \in [0..255 -> BOOLEAN]
    BY DEF Passed
  <2>3. ASSUME NEW n \in 0..255, n >= x PROVE g[n] = Passed(g, n, p)
    <3>1. \A k \in 0..255 : k > n => f[k] = g[k]
      BY <2>2, <2>3
    <3>2. g[n] = Passed(f, n, p)
      BY <2>1, <2>2, <2>3, SMTT(30)
    <3> HIDE DEF g
    <3>3. Passed(f, n, p) = Passed(g, n, p)
      BY <3>1, PassedAbove, ZenonT(60)
    <3> QED BY <3>2, <3>3
  <2>4. Good(g, j + 1)
    BY <2>3
  <2> QED BY <2>2, <2>4
<1>3. 256 \in S
  <2> HIDE DEF S
  <2> QED BY <1>1, <1>2, Inductive
<1>4. PICK f \in [0..255 -> BOOLEAN] : Good(f, 256)
  BY <1>3
<1>5. \A n \in 0..255 : f[n] = Passed(f, n, p)
  BY <1>4
<1> QED BY <1>5 DEF IsLast

\* Passes over a sum.
LEMMA PassedSum ==
  ASSUME NEW p, NEW q, NEW f, NEW g, NEW h, NEW n \in 0..255,
         \A k \in 0..255 : k > n => (h[k] <=> (f[k] <=> ~ g[k]))
  PROVE  Passed(h, n, Plus(p, q)) <=> (Passed(f, n, p) <=> ~ Passed(g, n, q))
<1> DEFINE At(e) == {d \in Taps : n - d \in 0..127 /\ e[n - d + 128]}
<1>1. \A d \in Taps : n - d \in 0..127 => n - d + 128 \in 0..255 /\ n - d + 128 > n
  BY DEF Taps
<1>2. \A d \in Taps : d \in At(h) <=> (d \in At(f) <=> d \notin At(g))
  BY <1>1
<1>3. 0 \in Taps /\ 1 \in Taps /\ 2 \in Taps /\ 7 \in Taps
  BY DEF Taps
<1>4. At(f) \in SUBSET Taps /\ At(g) \in SUBSET Taps /\ At(h) \in SUBSET Taps
  OBVIOUS
<1>5. n \in Plus(p, q) <=> (n \in p <=> n \notin q)
  BY DEF Plus
<1>6. /\ Passed(f, n, p) <=> (Odd(At(f)) <=> n \notin p)
      /\ Passed(g, n, q) <=> (Odd(At(g)) <=> n \notin q)
      /\ Passed(h, n, Plus(p, q)) <=> (Odd(At(h)) <=> n \notin Plus(p, q))
  BY DEF Passed
<1> HIDE DEF At
<1>7. Odd(At(h)) <=> (Odd(At(f)) <=> ~ Odd(At(g)))
  BY <1>2, <1>3, <1>4, OddTaps
<1> QED BY <1>5, <1>6, <1>7

\* What the passes leave is Boolean.
LEMMA LastType ==
  ASSUME NEW f, NEW p, IsLast(f, p)
  PROVE  f \in [0..255 -> BOOLEAN] /\ \A n \in 0..255 : f[n] = Passed(f, n, p)
BY Zenon DEF IsLast, Passed

\* The reduction is linear.
LEMMA LastSum ==
  ASSUME NEW p, NEW q, NEW f, NEW g, NEW h,
         IsLast(f, p), IsLast(g, q), IsLast(h, Plus(p, q))
  PROVE  \A n \in 0..255 : (h[n] <=> (f[n] <=> ~ g[n]))
<1> DEFINE Same(n) == h[n] <=> (f[n] <=> ~ g[n])
           S == {j \in Nat : \A n \in 0..255 : n + j > 255 => Same(n)}
<1>1. \A n \in 0..255 : /\ f[n] = Passed(f, n, p) /\ g[n] = Passed(g, n, q)
                         /\ h[n] = Passed(h, n, Plus(p, q))
  BY LastType
<1>2. ASSUME NEW n \in 0..255, \A k \in 0..255 : k > n => Same(k)
      PROVE  Same(n)
  <2>1. Passed(h, n, Plus(p, q)) <=> (Passed(f, n, p) <=> ~ Passed(g, n, q))
    BY <1>2, PassedSum, Zenon
  <2> QED BY <1>1, <2>1, SMTT(30)
<1> HIDE DEF Same
<1>3. 0 \in S
  OBVIOUS
<1>4. ASSUME NEW j \in Nat, j \in S PROVE j + 1 \in S
  <2> SUFFICES ASSUME NEW n \in 0..255, n + (j + 1) > 255 PROVE Same(n)
    OBVIOUS
  <2>1. \A k \in 0..255 : k + j > 255 => Same(k)
    BY <1>4
  <2>2. \A k \in 0..255 : k > n => k + j > 255
    OBVIOUS
  <2> QED BY <1>2, <2>1, <2>2
<1>5. 256 \in S
  <2> HIDE DEF S
  <2> QED BY <1>3, <1>4, Inductive
<1>6. \A n \in 0..255 : Same(n)
  <2>1. \A n \in 0..255 : n + 256 > 255 => Same(n)
    BY <1>5
  <2> QED BY <2>1
<1> QED BY <1>6 DEF Same

\* And its result is determined.
LEMMA LastUnique ==
  ASSUME NEW p, NEW f, NEW g, IsLast(f, p), IsLast(g, p)
  PROVE  f = g
<1>1. PICK z : IsLast(z, {})
  BY LastExists
<1>2. Plus(p, {}) = p
  BY DEF Plus
<1>3. \A n \in 0..255 : (f[n] <=> (f[n] <=> ~ z[n]))
  BY <1>1, <1>2, LastSum
<1>4. \A n \in 0..255 : (g[n] <=> (f[n] <=> ~ z[n]))
  BY <1>1, <1>2, LastSum
<1>5. \A n \in 0..255 : f[n] = g[n]
  BY <1>3, <1>4, LastType
<1> QED BY <1>5, LastType

\* Reduced is what the passes leave.
LEMMA ReducedLast ==
  ASSUME NEW p, NEW f, IsLast(f, p)
  PROVE  Reduced(p) = {n \in 0..127 : f[n]}
<1> DEFINE last == CHOOSE g : IsLast(g, p)
<1>1. Reduced(p) = {n \in 0..127 : last[n]}
  BY Zenon DEF Reduced, IsLast, Passed
<1>2. IsLast(last, p)
  BY LastExists
<1> HIDE DEF last
<1>3. last = f
  BY <1>2, LastUnique
<1> QED BY <1>1, <1>3, SMTT(30)

LEMMA ReducedSum ==
  ASSUME NEW p, NEW q
  PROVE  Reduced(Plus(p, q)) = Plus(Reduced(p), Reduced(q))
<1>1. PICK f : IsLast(f, p)
  BY LastExists
<1>2. PICK g : IsLast(g, q)
  BY LastExists
<1>3. PICK h : IsLast(h, Plus(p, q))
  BY LastExists
<1>4. \A n \in 0..255 : (h[n] <=> (f[n] <=> ~ g[n])) /\ f[n] \in BOOLEAN /\ g[n] \in BOOLEAN
  BY <1>1, <1>2, <1>3, LastSum, LastType
<1>5. /\ Reduced(p) = {n \in 0..127 : f[n]} /\ Reduced(q) = {n \in 0..127 : g[n]}
      /\ Reduced(Plus(p, q)) = {n \in 0..127 : h[n]}
  BY <1>1, <1>2, <1>3, ReducedLast
<1>6. {n \in 0..127 : h[n]} = Plus({n \in 0..127 : f[n]}, {n \in 0..127 : g[n]})
  BY <1>4 DEF Plus
<1> QED BY <1>5, <1>6

LEMMA ReducedEmpty == Reduced({}) = {}
<1>1. Plus({}, {}) = {} /\ Plus(Reduced({}), Reduced({})) = {}
  BY DEF Plus
<1> QED BY <1>1, ReducedSum

------------------------------------------------------------------------------
\* The reduction of a single bit.

\* Below 128 nothing is moved.
LEMMA ReducedLow ==
  ASSUME NEW k \in 0..127
  PROVE  Reduced({k}) = {k}
<1> DEFINE e == [n \in 0..255 |-> n = k]
<1>1. \A n \in 0..255 : e[n] <=> n = k
  BY Zenon
<1>2. ASSUME NEW n \in 0..255 PROVE e[n] = Passed(e, n, {k})
  <2>1. \A d \in Taps : n - d \in 0..127 => n - d + 128 \in 0..255 /\ n - d + 128 # k
    BY DEF Taps
  <2>2. {d \in Taps : n - d \in 0..127 /\ e[n - d + 128]} = {}
    BY <2>1, ZenonT(30)
  <2> QED BY <2>2, OddEmpty DEF Passed
<1>3. IsLast(e, {k})
  BY <1>2 DEF IsLast
<1> HIDE DEF e
<1>4. Reduced({k}) = {n \in 0..127 : e[n]}
  BY <1>3, ReducedLast
<1>5. \A n \in 0..127 : e[n] <=> n = k
  BY <1>1
<1> QED BY <1>4, <1>5

\* From 128 on pass k - 128 moves bit k to four places.
Places(k) == {k - 128, k - 127, k - 126, k - 121}

LEMMA ReducedHigh ==
  ASSUME NEW k \in 128..254
  PROVE  Reduced({k}) = Reduced(Places(k))
<1> DEFINE Q == Places(k)
           X == Plus(Q, {k})
           e == [n \in 0..255 |-> n = k]
<1>1. PICK h : IsLast(h, Q)
  BY LastExists
<1> DEFINE g == [n \in 0..255 |-> h[n] <=> n # k]
<1>a. \A n \in 0..255 : e[n] <=> n = k
  BY Zenon
<1>b. \A n \in 0..255 : g[n] <=> (h[n] <=> n # k)
  BY Zenon
<1>2. Plus(Q, X) = {k}
  BY DEF Plus
<1>3. ASSUME NEW n \in 0..255 PROVE Passed(e, n, X) <=> n = k
  <2> DEFINE D == {d \in Taps : n - d \in 0..127 /\ e[n - d + 128]}
  <2>0. \A d \in Taps : n - d + 128 \in 0..255 \/ n - d \notin 0..127
    BY DEF Taps
  <2>1. \A d \in Taps : d \in D <=> n - d + 128 = k
    <3> HIDE DEF e
    <3> QED BY <1>a, <2>0 DEF Taps
  <2>2. D \in SUBSET Taps /\ 0 \in Taps /\ 1 \in Taps /\ 2 \in Taps /\ 7 \in Taps
    BY DEF Taps
  <2>3. Passed(e, n, X) <=> (Odd(D) <=> n \notin X)
    BY DEF Passed
  <2> HIDE DEF D
  <2>4. Odd(D) <=> n \in Q
    BY <2>1, <2>2, OddTaps DEF Places
  <2>5. n \in X <=> (n \in Q <=> n # k)
    BY DEF Plus
  <2> QED BY <2>3, <2>4, <2>5
<1>4. h \in [0..255 -> BOOLEAN] /\ \A n \in 0..255 : h[n] = Passed(h, n, Q)
  BY <1>1, LastType
<1>5. ASSUME NEW n \in 0..255 PROVE g[n] <=> Passed(g, n, {k})
  <2>1. \A i \in 0..255 : i > n => (g[i] <=> (h[i] <=> ~ e[i]))
    OBVIOUS
  <2>2. g[n] <=> (h[n] <=> n # k)
    OBVIOUS
  <2> HIDE DEF e, g, Q, X
  <2>3. Passed(g, n, Plus(Q, X)) <=> (Passed(h, n, Q) <=> ~ Passed(e, n, X))
    BY <2>1, PassedSum, ZenonT(30)
  <2> QED BY <1>2, <1>3, <1>4, <2>2, <2>3
<1>6. IsLast(g, {k})
  BY <1>5, Zenon DEF IsLast, Passed
<1> HIDE DEF g
<1>7. Reduced({k}) = {n \in 0..127 : g[n]} /\ Reduced(Places(k)) = {n \in 0..127 : h[n]}
  BY <1>1, <1>6, ReducedLast
<1>8. \A n \in 0..127 : g[n] <=> h[n]
  BY <1>b
<1> QED BY <1>7, <1>8

\* Four bits are reduced one by one.
LEMMA ReducedMoved ==
  ASSUME NEW k \in 128..254
  PROVE  Reduced(Places(k)) =
           Plus(Plus(Reduced({k - 128}), Reduced({k - 127})),
                Plus(Reduced({k - 126}), Reduced({k - 121})))
<1>1. Places(k) = Plus(Plus({k - 128}, {k - 127}), Plus({k - 126}, {k - 121}))
  BY DEF Places, Plus
<1> QED BY <1>1, ReducedSum

\* The powers of u are defined.
PowerOf(f, n) ==
  IF n < 128 THEN {n} ELSE Plus(Plus(f[n - 128], f[n - 127]), Plus(f[n - 126], f[n - 121]))

LEMMA PowerDefined == \A n \in 0..254 : Power[n] = PowerOf(Power, n)
<1> DEFINE Good(f, j) == \A n \in 0..254 : n < j => f[n] = PowerOf(f, n)
           F == [0..254 -> SUBSET Int]
           S == {j \in Nat : j <= 255 => \E f \in F : Good(f, j)}
<1>1. 0 \in S
  <2>1. [n \in 0..254 |-> {}] \in F /\ Good([n \in 0..254 |-> {}], 0)
    OBVIOUS
  <2> QED BY <2>1
<1>2. ASSUME NEW j \in Nat, j \in S PROVE j + 1 \in S
  <2> SUFFICES ASSUME j + 1 <= 255 PROVE \E f \in F : Good(f, j + 1)
    OBVIOUS
  <2>1. PICK f \in F : Good(f, j)
    BY <1>2
  <2> DEFINE g == [f EXCEPT ![j] = PowerOf(f, j)]
  <2>2. j \in 0..254 /\ \A n \in 0..254 : f[n] \subseteq Int
    OBVIOUS
  <2>3. PowerOf(f, j) \subseteq Int
    BY <2>2 DEF PowerOf, Plus
  <2>4. g \in F /\ \A n \in 0..254 : g[n] = IF n = j THEN PowerOf(f, j) ELSE f[n]
    BY <2>2, <2>3
  <2> HIDE DEF g, F
  <2>5. ASSUME NEW n \in 0..254, n <= j PROVE PowerOf(g, n) = PowerOf(f, n)
    <3>1. CASE n < 128
      BY <3>1 DEF PowerOf
    <3>2. CASE n >= 128
      <4>1. /\ g[n - 128] = f[n - 128] /\ g[n - 127] = f[n - 127]
            /\ g[n - 126] = f[n - 126] /\ g[n - 121] = f[n - 121]
        BY <2>4, <2>5, <3>2
      <4> QED BY <4>1 DEF PowerOf
    <3> QED BY <3>1, <3>2
  <2>6. Good(g, j + 1)
    BY <2>1, <2>4, <2>5
  <2> QED BY <2>4, <2>6
<1>3. 255 \in S
  <2> HIDE DEF S
  <2> QED BY <1>1, <1>2, Inductive
<1>4. PICK f \in F : Good(f, 255)
  BY <1>3, SMTT(30)
<1>5. f = [n \in 0..254 |-> PowerOf(f, n)]
  BY <1>4
<1>6. Power = CHOOSE g : g = [n \in 0..254 |-> PowerOf(g, n)]
  BY DEF Power, PowerOf
<1>7. Power = [n \in 0..254 |-> PowerOf(Power, n)]
  BY <1>5, <1>6, ZenonT(30)
<1> QED BY <1>7

\* The reduction of bit k is the remainder of u^k.
LEMMA ReducedPower == \A k \in 0..254 : Reduced({k}) = Power[k]
<1> DEFINE Same(k) == Reduced({k}) = Power[k]
           S == {j \in Nat : \A k \in 0..254 : k < j => Same(k)}
<1>1. \A k \in 0..254 : Power[k] = PowerOf(Power, k)
  BY PowerDefined
<1>2. ASSUME NEW k \in 0..127 PROVE Same(k)
  <2>0. k \in 0..254
    OBVIOUS
  <2>1. Reduced({k}) = {k}
    BY ReducedLow
  <2>2. PowerOf(Power, k) = {k}
    BY DEF PowerOf
  <2> QED BY <1>1, <2>0, <2>1, <2>2
<1>3. ASSUME NEW k \in 128..254, Same(k - 128), Same(k - 127), Same(k - 126), Same(k - 121)
      PROVE  Same(k)
  <2>1. Power[k] = Plus(Plus(Power[k - 128], Power[k - 127]),
                        Plus(Power[k - 126], Power[k - 121]))
    BY <1>1 DEF PowerOf
  <2>2. Reduced({k}) = Reduced(Places(k))
    BY ReducedHigh
  <2>3. Reduced(Places(k)) = Plus(Plus(Reduced({k - 128}), Reduced({k - 127})),
                                 Plus(Reduced({k - 126}), Reduced({k - 121})))
    BY ReducedMoved
  <2> QED BY <1>3, <2>1, <2>2, <2>3
<1> HIDE DEF Same
<1>4. 0 \in S
  OBVIOUS
<1>5. ASSUME NEW j \in Nat, j \in S PROVE j + 1 \in S
  <2>1. \A k \in 0..254 : k < j => Same(k)
    BY <1>5
  <2>2. CASE j \in 0..127
    BY <1>2, <2>1, <2>2
  <2>3. CASE j \in 128..254
    <3>1. Same(j - 128) /\ Same(j - 127) /\ Same(j - 126) /\ Same(j - 121)
      BY <2>1, <2>3
    <3>2. Same(j)
      BY <1>3, <2>3, <3>1
    <3> QED BY <2>1, <3>2
  <2>4. CASE j > 254
    BY <2>1, <2>4
  <2> QED BY <2>2, <2>3, <2>4
<1>6. 255 \in S
  <2> HIDE DEF S
  <2> QED BY <1>4, <1>5, Inductive
<1>7. \A k \in 0..254 : Same(k)
  BY <1>6
<1> QED BY <1>7 DEF Same

------------------------------------------------------------------------------
\* The reduction of any product is its remainder: the sum of the remainders of
\* its powers.
LEMMA ReductionExact ==
  ASSUME NEW p \in SUBSET (0..254)
  PROVE  Reduced(p) = {n \in 0..127 : Odd({k \in p : n \in Remainders[k]})}
<1> DEFINE Low(j) == {k \in p : k < j}
           At(q, n) == {k \in q : n \in Power[k]}
           Same(q) == \A n \in 0..127 : n \in Reduced(q) <=> Odd(At(q, n))
           S == {j \in Nat : Same(Low(j))}
<1>0. \A k \in p : k \in 0..254
  OBVIOUS
<1>1. Same({})
  <2>1. \A n : At({}, n) = {}
    OBVIOUS
  <2> HIDE DEF At
  <2> QED BY <2>1, ReducedEmpty, OddEmpty
\* One bit more.
<1>2. ASSUME NEW q, q \subseteq p, NEW j \in p, j \notin q, Same(q)
      PROVE  Same(q \cup {j})
  <2>1. Plus(q, {j}) = q \cup {j} /\ j \in 0..254
    BY <1>0, <1>2 DEF Plus
  <2>2. Reduced(q \cup {j}) = Plus(Reduced(q), Power[j])
    <3>1. Reduced(Plus(q, {j})) = Plus(Reduced(q), Reduced({j}))
      BY ReducedSum
    <3>2. Reduced({j}) = Power[j]
      BY <2>1, ReducedPower
    <3> QED BY <2>1, <3>1, <3>2
  <2> SUFFICES ASSUME NEW n \in 0..127
               PROVE  n \in Reduced(q \cup {j}) <=> Odd(At(q \cup {j}, n))
    OBVIOUS
  <2>3. n \in Reduced(q \cup {j}) <=> (Odd(At(q, n)) <=> n \notin Power[j])
    <3>1. n \in Reduced(q) <=> Odd(At(q, n))
      BY <1>2
    <3> HIDE DEF At
    <3> QED BY <2>2, <3>1 DEF Plus
  <2>4. CASE n \in Power[j]
    <3>1. At(q \cup {j}, n) = At(q, n) \cup {j} /\ j \notin At(q, n)
      BY <1>2, <2>4
    <3>2. At(q, n) \subseteq 0..254
      BY <1>0, <1>2
    <3> HIDE DEF At
    <3>3. IsFiniteSet(0..254)
      <4>1. 0 \in Int /\ 254 \in Int
        OBVIOUS
      <4> QED BY <4>1, FS_Interval
    <3>4. IsFiniteSet(At(q, n))
      BY <3>2, <3>3, FS_Subset
    <3> QED BY <2>3, <2>4, <3>1, <3>4, OddAdd
  <2>5. CASE n \notin Power[j]
    <3>1. At(q \cup {j}, n) = At(q, n)
      BY <2>5
    <3> HIDE DEF At
    <3> QED BY <2>3, <2>5, <3>1
  <2> QED BY <2>4, <2>5
<1>3. Low(0) = {} /\ Low(255) = p
  <2>1. \A k \in p : ~ (k < 0) /\ k < 255
    BY <1>0
  <2> QED BY <2>1
<1>4. ASSUME NEW j \in Nat
      PROVE  /\ j \in p => Low(j + 1) = Low(j) \cup {j}
             /\ j \notin p => Low(j + 1) = Low(j)
  <2>1. \A k \in p : k < j + 1 <=> k < j \/ k = j
    BY <1>0
  <2>2. ASSUME j \in p PROVE Low(j + 1) = Low(j) \cup {j}
    BY <2>1, <2>2
  <2>3. ASSUME j \notin p PROVE Low(j + 1) = Low(j)
    BY <2>1, <2>3
  <2> QED BY <2>2, <2>3
<1>5. \A j \in Nat : j \notin Low(j) /\ Low(j) \subseteq p
  OBVIOUS
<1> HIDE DEF Same, Low
<1>6. 0 \in S
  BY <1>1, <1>3
<1>7. ASSUME NEW j \in Nat, j \in S PROVE j + 1 \in S
  <2>1. Same(Low(j))
    BY <1>7
  <2>2. Same(Low(j + 1))
    <3>1. CASE j \in p
      BY <1>2, <1>4, <1>5, <2>1, <3>1
    <3>2. CASE j \notin p
      BY <1>4, <2>1, <3>2
    <3> QED BY <3>1, <3>2
  <2> QED BY <2>2
<1>8. 255 \in S
  <2> HIDE DEF S
  <2> QED BY <1>6, <1>7, Inductive
<1>9. Same(p)
  BY <1>3, <1>8
<1>10. \A n \in 0..127 : At(p, n) = {k \in p : n \in Remainders[k]}
  BY <1>0, Zenon DEF Remainders
<1>11. Reduced(p) \subseteq 0..127
  BY Zenon DEF Reduced
<1>12. \A n \in 0..127 : n \in Reduced(p) <=> Odd({k \in p : n \in Remainders[k]})
  BY <1>9, <1>10 DEF Same
<1> QED BY <1>11, <1>12, ZenonT(30)

\* So the code multiplies as the standard does.
LEMMA ProductExact ==
  ASSUME NEW x \in SUBSET (0..127), NEW y \in SUBSET (0..127)
  PROVE  Reduced(Prodbits(x, y)) = Dot(x, y)
<1>1. Prodbits(x, y) \in SUBSET (0..254)
  BY DEF Prodbits
<1>2. Reduced(Prodbits(x, y)) =
        {n \in 0..127 : Odd({k \in Prodbits(x, y) : n \in Remainders[k]})}
  BY <1>1, ReductionExact
<1> QED BY <1>2 DEF Prodbits, Dot

------------------------------------------------------------------------------
\* Blocks and their bits.

LEMMA BytesOf ==
  ASSUME NEW p
  PROVE  /\ Bytes(p) \in Block
         /\ \A k \in 0..15 : Bytes(p)[k + 1] = Packed({n \in 0..7 : 8 * k + 7 - n \in p})
<1> DEFINE f == [k \in 1..16 |-> Packed({n \in 0..7 : 8 * (k - 1) + 7 - n \in p})]
<1>1. f \in Block
  BY ByteAssumption DEF Block
<1>2. Bytes(p) = SubSeq(f, 1, 16)
  BY DEF Bytes, Sixteen, Table
<1>3. Bytes(p) = f
  <2> HIDE DEF f
  <2> QED BY <1>1, <1>2, WholeBlock
<1>4. \A k \in 0..15 : k + 1 \in 1..16 /\ (k + 1) - 1 = k
  OBVIOUS
<1> QED BY <1>1, <1>3, <1>4

\* The place of bit i.
LEMMA Place ==
  ASSUME NEW i \in 0..127
  PROVE  i \div 8 \in 0..15 /\ 7 - (i % 8) \in 0..7 /\ 8 * (i \div 8) + 7 - (7 - (i % 8)) = i
OBVIOUS

LEMMA BitsBytes ==
  ASSUME NEW p \in SUBSET (0..127)
  PROVE  Bits(Bytes(p)) = p
<1>1. ASSUME NEW i \in 0..127 PROVE Bit(Bytes(p)[(i \div 8) + 1], 7 - (i % 8)) <=> i \in p
  <2> DEFINE k == i \div 8
             j == 7 - (i % 8)
             q == {n \in 0..7 : 8 * k + 7 - n \in p}
  <2>1. k \in 0..15 /\ j \in 0..7 /\ 8 * k + 7 - j = i
    BY Place
  <2> HIDE DEF k, j
  <2>2. Bytes(p)[k + 1] = Packed(q)
    BY <2>1, BytesOf
  <2>3. q \in SUBSET (0..7) /\ (j \in q <=> i \in p)
    BY <2>1
  <2> HIDE DEF q
  <2>4. Bit(Packed(q), j) <=> j \in q
    BY <2>1, <2>3, ByteAssumption
  <2>5. Bit(Bytes(p)[k + 1], j) <=> i \in p
    BY <2>2, <2>3, <2>4
  <2> QED BY <2>5 DEF k, j
<1> QED BY <1>1 DEF Bits

LEMMA ZeroBytes == Zero = Bytes({})
<1> DEFINE f == [k \in 1..16 |-> 0]
<1>1. f \in Block /\ Zero = SubSeq(f, 1, 16)
  BY DEF Block, Byte, Zero, Sixteen, Table
<1>2. Zero = f
  <2> HIDE DEF f
  <2> QED BY <1>1, WholeBlock
<1>3. \A k \in 0..15 : Bytes({})[k + 1] = 0
  <2>1. \A k \in 0..15 : {n \in 0..7 : 8 * k + 7 - n \in {}} = {}
    OBVIOUS
  <2> QED BY <2>1, BytesOf, ByteAssumption
<1>4. \A k \in 1..16 : Bytes({})[k] = 0
  <2> SUFFICES ASSUME NEW k \in 1..16 PROVE Bytes({})[k] = 0
    OBVIOUS
  <2>1. k - 1 \in 0..15 /\ (k - 1) + 1 = k
    OBVIOUS
  <2> QED BY <1>3, <2>1
<1>5. Bytes({}) \in Block
  BY BytesOf
<1> QED BY <1>2, <1>4, <1>5 DEF Block

\* A short block is completed with zeros: ^ leaves the rest of a as it is.
LEMMA XoredBits ==
  ASSUME NEW a \in Block, NEW z \in Block, NEW x, NEW len \in 0..16, Len(x) = len,
         \A k \in 1..16 : IF k <= len THEN x[k] = z[k] ELSE z[k] = 0
  PROVE  Bits(Xored(a, x)) = Plus(Bits(a), Bits(z))
<1>1. \A i \in 0..7 : ~ Bit(0, i)
  <2>1. {} \in SUBSET (0..7)
    OBVIOUS
  <2> QED BY <2>1, ByteAssumption
<1>2. ASSUME NEW k \in 1..16, NEW i \in 0..7
      PROVE  Bit(Xored(a, x)[k], i) <=> (Bit(a[k], i) <=> ~ Bit(z[k], i))
  <2>1. a[k] \in Byte /\ z[k] \in Byte /\ DOMAIN a = 1..16
    BY DEF Block
  <2>2. CASE k <= len
    <3>1. Xored(a, x)[k] = a[k] ++ z[k]
      BY <2>1, <2>2 DEF Xored
    <3> QED BY <2>1, <3>1, ByteAssumption
  <2>3. CASE ~ (k <= len)
    <3>1. Xored(a, x)[k] = a[k] /\ z[k] = 0
      BY <2>1, <2>3 DEF Xored
    <3> QED BY <1>1, <3>1
  <2> QED BY <2>2, <2>3
<1>3. ASSUME NEW i \in 0..127
      PROVE  i \in Bits(Xored(a, x)) <=> (i \in Bits(a) <=> i \notin Bits(z))
  <2>1. i \div 8 \in 0..15 /\ 7 - (i % 8) \in 0..7
    BY Place
  <2>2. (i \div 8) + 1 \in 1..16
    BY <2>1
  <2> QED BY <1>2, <2>1, <2>2 DEF Bits
<1>4. Bits(Xored(a, x)) \subseteq 0..127 /\ Bits(a) \subseteq 0..127 /\ Bits(z) \subseteq 0..127
  BY DEF Bits
<1> QED BY <1>3, <1>4 DEF Plus

\* Block n + 1 of a string, as dec_update takes it.
LEMMA BlockSum ==
  ASSUME NEW a \in Block, NEW c \in Seq(Byte), NEW n \in Nat, NEW len \in 0..16,
         16 * n + len <= Len(c), len < 16 => 16 * n + len = Len(c)
  PROVE  Bits(Xored(a, SubSeq(c, 16 * n + 1, 16 * n + len))) =
           Plus(Bits(a), Bits(BlockAt(c, n + 1)))
<1> DEFINE x == SubSeq(c, 16 * n + 1, 16 * n + len)
           z == [k \in 1..16 |-> IF 16 * n + k <= Len(c) THEN c[16 * n + k] ELSE 0]
<1>1. Len(c) \in Nat /\ \A k \in 1..Len(c) : c[k] \in Byte
  OBVIOUS
<1>2. z \in Block
  <2>1. \A k \in 1..16 : 16 * n + k <= Len(c) => 16 * n + k \in 1..Len(c)
    BY <1>1
  <2>2. 0 \in Byte
    BY DEF Byte
  <2>3. \A k \in 1..16 : (IF 16 * n + k <= Len(c) THEN c[16 * n + k] ELSE 0) \in Byte
    BY <1>1, <2>1, <2>2
  <2> QED BY <2>3 DEF Block
<1>3. BlockAt(c, n + 1) = SubSeq(z, 1, 16)
  <2>1. BlockAt(c, n + 1) = SubSeq([k \in 1..16 |-> IF 16 * ((n + 1) - 1) + (k - 1) < Len(c)
                                      THEN c[16 * ((n + 1) - 1) + (k - 1) + 1] ELSE 0], 1, 16)
    BY DEF BlockAt, Sixteen, Table
  <2>2. \A k \in 1..16 : /\ 16 * ((n + 1) - 1) + (k - 1) < Len(c) <=> 16 * n + k <= Len(c)
                         /\ 16 * ((n + 1) - 1) + (k - 1) + 1 = 16 * n + k
    BY <1>1
  <2>3. [k \in 1..16 |-> IF 16 * ((n + 1) - 1) + (k - 1) < Len(c)
           THEN c[16 * ((n + 1) - 1) + (k - 1) + 1] ELSE 0] = z
    BY <2>2
  <2> QED BY <2>1, <2>3
<1>4. BlockAt(c, n + 1) = z
  <2> HIDE DEF z
  <2> QED BY <1>2, <1>3, WholeBlock
<1>5. Len(x) = len /\ \A k \in 1..len : x[k] = c[16 * n + k]
  BY <1>1
<1>6. \A k \in 1..16 : IF k <= len THEN x[k] = z[k] ELSE z[k] = 0
  BY <1>1, <1>5
<1> HIDE DEF x, z
<1>7. Bits(Xored(a, x)) = Plus(Bits(a), Bits(z))
  BY <1>2, <1>5, <1>6, XoredBits
<1> QED BY <1>4, <1>7 DEF x

------------------------------------------------------------------------------
\* GHASH, block by block.

\* y has the hashes of the first 0, 1, .. n blocks.
HashOf(y, h, c, k) ==
  IF k = 0 THEN {} ELSE Dot(Plus(y[k - 1], Bits(BlockAt(c, k))), Bits(h))

IsHash(y, h, c, n) == y = [k \in 0..n |-> HashOf(y, h, c, k)]

LEMMA HashExists ==
  ASSUME NEW h, NEW c
  PROVE  \A n \in Nat : \E y : IsHash(y, h, c, n)
<1> DEFINE S == {n \in Nat : \E y : IsHash(y, h, c, n)}
<1>1. 0 \in S
  <2> DEFINE y == [k \in 0..0 |-> {}]
  <2>1. IsHash(y, h, c, 0)
    BY DEF IsHash, HashOf
  <2> QED BY <2>1
<1>2. ASSUME NEW n \in Nat, n \in S PROVE n + 1 \in S
  <2>1. PICK y : IsHash(y, h, c, n)
    BY <1>2
  <2> DEFINE next == Dot(Plus(y[n], Bits(BlockAt(c, n + 1))), Bits(h))
             z == [k \in 0..(n + 1) |-> IF k = n + 1 THEN next ELSE y[k]]
  <2>2. \A k \in 0..n : y[k] = HashOf(y, h, c, k)
    BY <2>1 DEF IsHash
  <2>3. ASSUME NEW k \in 0..(n + 1) PROVE z[k] = HashOf(z, h, c, k)
    <3>1. CASE k = 0
      BY <2>2, <3>1 DEF HashOf
    <3>2. CASE k \in 1..n
      <4>1. z[k] = y[k] /\ z[k - 1] = y[k - 1] /\ k \in 0..n /\ k # 0
        BY <3>2
      <4> QED BY <2>2, <4>1 DEF HashOf
    <3>3. CASE k = n + 1
      <4>1. z[k] = next /\ z[k - 1] = y[n] /\ k # 0
        BY <3>3
      <4> QED BY <3>3, <4>1 DEF HashOf
    <3> QED BY <3>1, <3>2, <3>3
  <2>4. IsHash(z, h, c, n + 1)
    BY <2>3 DEF IsHash
  <2> QED BY <2>4
<1> HIDE DEF S
<1>3. Nat \subseteq S
  BY <1>1, <1>2, Inductive
<1> QED BY <1>3 DEF S

\* Longer and shorter hashes agree.
LEMMA HashAgrees ==
  ASSUME NEW h, NEW c, NEW n \in Nat, NEW y, NEW z,
         IsHash(y, h, c, n), IsHash(z, h, c, n + 1)
  PROVE  y[n] = z[n]
<1> DEFINE S == {k \in Nat : k <= n => y[k] = z[k]}
<1>1. /\ \A k \in 0..n : y[k] = HashOf(y, h, c, k)
      /\ \A k \in 0..n : z[k] = HashOf(z, h, c, k)
  BY DEF IsHash
<1>2. 0 \in S
  BY <1>1 DEF HashOf
<1>3. ASSUME NEW k \in Nat, k \in S PROVE k + 1 \in S
  <2> SUFFICES ASSUME k + 1 <= n PROVE y[k + 1] = z[k + 1]
    OBVIOUS
  <2>1. y[k] = z[k] /\ k + 1 \in 0..n /\ k + 1 # 0 /\ (k + 1) - 1 = k
    BY <1>3
  <2> QED BY <1>1, <2>1 DEF HashOf
<1>4. n \in S
  <2> HIDE DEF S
  <2> QED BY <1>2, <1>3, Inductive
<1> QED BY <1>4

LEMMA HashIs ==
  ASSUME NEW h, NEW c, NEW n \in Nat
  PROVE  \E y : IsHash(y, h, c, n) /\ GHASH(h, c, n) = Bytes(y[n])
<1> DEFINE y == CHOOSE f : IsHash(f, h, c, n)
<1>1. GHASH(h, c, n) = Bytes(y[n])
  BY DEF GHASH, IsHash, HashOf
<1>2. IsHash(y, h, c, n)
  BY HashExists
<1> QED BY <1>1, <1>2

\* The hash of a block more is what addmul makes of the hash, the block and H.
LEMMA HashStep ==
  ASSUME NEW h, NEW c \in Seq(Byte), NEW n \in Nat, NEW len \in 0..16,
         16 * n + len <= Len(c), len < 16 => 16 * n + len = Len(c)
  PROVE  GHASH(h, c, n + 1) =
           addmul(GHASH(h, c, n), SubSeq(c, 16 * n + 1, 16 * n + len), h)
<1>1. PICK y : IsHash(y, h, c, n) /\ GHASH(h, c, n) = Bytes(y[n])
  BY HashIs
<1>2. n + 1 \in Nat
  OBVIOUS
<1>3. PICK z : IsHash(z, h, c, n + 1) /\ GHASH(h, c, n + 1) = Bytes(z[n + 1])
  BY <1>2, HashIs
<1>4. y[n] = z[n]
  BY <1>1, <1>3, HashAgrees
<1>5. y[n] \in SUBSET (0..127)
  <2>1. y[n] = HashOf(y, h, c, n)
    BY <1>1 DEF IsHash
  <2> QED BY <2>1 DEF HashOf, Dot
<1>6. z[n + 1] = Dot(Plus(y[n], Bits(BlockAt(c, n + 1))), Bits(h))
  <2>1. z[n + 1] = HashOf(z, h, c, n + 1)
    BY <1>3 DEF IsHash
  <2>2. n + 1 # 0 /\ (n + 1) - 1 = n
    OBVIOUS
  <2> QED BY <1>4, <2>1, <2>2 DEF HashOf
<1> DEFINE a == GHASH(h, c, n)
           x == SubSeq(c, 16 * n + 1, 16 * n + len)
           p == Plus(y[n], Bits(BlockAt(c, n + 1)))
<1>7. a \in Block /\ Bits(a) = y[n]
  <2>1. Bytes(y[n]) \in Block
    BY BytesOf
  <2>2. Bits(Bytes(y[n])) = y[n]
    BY <1>5, BitsBytes
  <2> QED BY <1>1, <2>1, <2>2
<1>8. Bits(Xored(a, x)) = p
  <2> HIDE DEF a
  <2>1. Bits(Xored(a, x)) = Plus(Bits(a), Bits(BlockAt(c, n + 1)))
    BY <1>7, BlockSum
  <2> QED BY <1>7, <2>1
<1>9. p \in SUBSET (0..127) /\ Bits(h) \in SUBSET (0..127)
  BY <1>5 DEF Plus, Bits
<1>10. addmul(a, x, h) = Bytes(Reduced(Prodbits(Bits(Xored(a, x)), Bits(h))))
  BY DEF addmul
<1> HIDE DEF a, x, p
<1>11. Reduced(Prodbits(p, Bits(h))) = Dot(p, Bits(h))
  BY <1>9, ProductExact
<1>12. GHASH(h, c, n + 1) = addmul(a, x, h)
  BY <1>3, <1>6, <1>8, <1>10, <1>11 DEF p
<1> QED BY <1>12 DEF a, x

LEMMA HashEmpty ==
  ASSUME NEW h, NEW c
  PROVE  GHASH(h, c, 0) = Zero
<1>1. PICK y : IsHash(y, h, c, 0) /\ GHASH(h, c, 0) = Bytes(y[0])
  BY HashIs
<1>2. y[0] = {}
  BY <1>1 DEF IsHash, HashOf
<1> QED BY <1>1, <1>2, ZeroBytes

------------------------------------------------------------------------------
\* The session.

Fields == {"H", "J", "T", "accum", "paccum", "index", "mlen"}

\* The accumulators have the hash of the blocks so far and the one before.
Hashed ==
  LET n == (pos + 15) \div 16
  IN  /\ cx.accum = GHASH(cx.H, st.c, n)
      /\ n > 0 => cx.paccum = GHASH(cx.H, st.c, n - 1)

\* The invariant: a record ends on a block or with the ciphertext, so that
\* every block but the last is whole.
SessionInv ==
  /\ DOMAIN cx = Fields
  /\ ph \in {"H", "T"} => st \in Streams /\ pos = 0 /\ cx.accum = Zero
  /\ ph \in {"loop", "block"} =>
       st \in Streams /\ pos \in Nat /\ pos <= Len(st.c) /\ Hashed
  /\ ph = "loop" => pos % 16 = 0 \/ pos = Len(st.c)
  /\ ph = "block" => /\ pos % 16 = 0 /\ end \in Nat /\ pos < end /\ end <= Len(st.c)
                     /\ end % 16 = 0 \/ end = Len(st.c)

LEMMA InitSession == DInit => SessionInv
BY DEF DInit, NoContext, SessionInv, Fields

\* Whatever a backend does, the context is not its own.
LEMMA KeepsSession ==
  ASSUME SessionInv, UNCHANGED dvars
  PROVE  SessionInv'
BY DEF SessionInv, dvars, Hashed

\* A session begins with an empty context.
LEMMA BeginSession ==
  ASSUME NEW q, NEW y, NEW lib, Begin(q, y, lib), q = "none" \/ (q = "H" /\ y \in Streams)
  PROVE  SessionInv'
BY DEF Begin, NoContext, SessionInv, Fields

\* ed_init leaves the accumulators at zero, the hash of no block.
LEMMA InitReturnsSession ==
  ASSUME SessionInv, ed_init_T \/ ed_init_Returns
  PROVE  SessionInv'
<1>1. DOMAIN cx = Fields /\ st \in Streams /\ pos = 0 /\ cx.accum = Zero
  BY DEF SessionInv, ed_init_T, ed_init_Returns
<1>2. CASE ed_init_T
  BY <1>1, <1>2 DEF ed_init_T, SessionInv, Fields
<1>3. CASE ed_init_Returns
  <2>1. /\ DOMAIN cx' = Fields /\ cx'.accum = Zero /\ st' = st /\ pos' = 0 /\ ph' = "loop"
    BY <1>1, <1>3 DEF ed_init_Returns, Fields
  <2>2. (pos' + 15) \div 16 = 0 /\ pos' % 16 = 0
    BY <2>1
  <2>3. Hashed'
    BY <2>1, <2>2, HashEmpty DEF Hashed
  <2>4. Len(st.c) \in Nat
    BY <1>1, StreamsAssumption
  <2> QED BY <1>1, <2>1, <2>2, <2>3, <2>4 DEF SessionInv
<1> QED BY <1>2, <1>3

\* dec_update takes a record that ends on a block or with the ciphertext.
LEMMA RecordSession ==
  ASSUME SessionInv, dec_update
  PROVE  SessionInv'
<1>1. /\ DOMAIN cx = Fields /\ st \in Streams /\ pos \in Nat /\ pos < Len(st.c) /\ Hashed
      /\ pos % 16 = 0
  BY DEF SessionInv, dec_update
<1>2. Len(st.c) \in Nat /\ RECORD \in Nat /\ RECORD > 0 /\ RECORD % 16 = 0
  BY <1>1, StreamsAssumption
<1>3. /\ ph' = "block" /\ st' = st /\ pos' = pos
      /\ end' = IF Len(st.c) - pos < RECORD THEN Len(st.c) ELSE pos + RECORD
  BY DEF dec_update
<1>4. DOMAIN cx' = Fields /\ cx'.accum = cx.accum /\ cx'.paccum = cx.paccum /\ cx'.H = cx.H
  BY <1>1 DEF dec_update, Counted, Fields
<1>5. Hashed'
  BY <1>1, <1>3, <1>4 DEF Hashed
<1>6. /\ end' \in Nat /\ pos < end' /\ end' <= Len(st.c)
      /\ end' % 16 = 0 \/ end' = Len(st.c)
  <2> DEFINE L == Len(st.c)
  <2>1. L \in Nat /\ pos \in Nat /\ pos < L
    BY <1>1, <1>2
  <2> HIDE DEF L
  <2>2. CASE L - pos < RECORD
    BY <1>3, <2>1, <2>2 DEF L
  <2>3. CASE ~ (L - pos < RECORD)
    <3>1. end' = pos + RECORD /\ pos + RECORD <= L
      BY <1>2, <1>3, <2>1, <2>3 DEF L
    <3>2. (pos + RECORD) % 16 = 0
      BY <1>1, <1>2
    <3> QED BY <1>1, <1>2, <3>1, <3>2 DEF L
  <2> QED BY <2>2, <2>3
<1> QED BY <1>1, <1>3, <1>4, <1>5, <1>6 DEF SessionInv

\* A block is absorbed.
LEMMA BlockSession ==
  ASSUME SessionInv, dec_update_Block
  PROVE  SessionInv'
<1> DEFINE len == IF end - pos < 16 THEN end - pos ELSE 16
           c == SubSeq(st.c, pos + 1, pos + len)
           n == pos \div 16
<1>1. /\ DOMAIN cx = Fields /\ st \in Streams /\ pos \in Nat /\ Hashed /\ pos % 16 = 0
      /\ end \in Nat /\ pos < end /\ end <= Len(st.c) /\ (end % 16 = 0 \/ end = Len(st.c))
  BY DEF SessionInv, dec_update_Block
<1>2. st.c \in Seq(Byte) /\ Len(st.c) \in Nat
  BY <1>1, StreamsAssumption
<1>3. /\ n \in Nat /\ pos = 16 * n /\ (pos + 15) \div 16 = n
      /\ len \in 1..16 /\ pos + len <= end /\ (len < 16 => pos + len = Len(st.c))
      /\ (pos + len + 15) \div 16 = n + 1
  BY <1>1, <1>2
<1>4. /\ pos' = pos + len /\ end' = end /\ st' = st
      /\ ph' = IF pos' < end THEN "block" ELSE "loop"
  BY DEF dec_update_Block
<1>5. /\ DOMAIN cx' = Fields /\ cx'.paccum = cx.accum /\ cx'.H = cx.H
      /\ cx'.accum = addmul(cx.accum, c, cx.H)
  <2> DEFINE next == [cx EXCEPT !.paccum = cx.accum, !.accum = addmul(cx.accum, c, cx.H)]
  <2>1. cx' = next \/ cx' = Counted(next)
    BY DEF dec_update_Block
  <2>2. /\ DOMAIN next = Fields /\ next.paccum = cx.accum /\ next.H = cx.H
        /\ next.accum = addmul(cx.accum, c, cx.H)
    BY <1>1 DEF Fields
  <2> HIDE DEF next
  <2> QED BY <2>1, <2>2 DEF Counted, Fields
<1> HIDE DEF len, n
<1>6. cx.accum = GHASH(cx.H, st.c, n)
  BY <1>1, <1>3 DEF Hashed
<1>7. GHASH(cx.H, st.c, n + 1) = addmul(cx.accum, c, cx.H)
  <2>1. len \in 0..16 /\ 16 * n + len <= Len(st.c) /\ (len < 16 => 16 * n + len = Len(st.c))
    BY <1>1, <1>2, <1>3
  <2>2. GHASH(cx.H, st.c, n + 1) =
          addmul(GHASH(cx.H, st.c, n), SubSeq(st.c, 16 * n + 1, 16 * n + len), cx.H)
    BY <1>2, <1>3, <2>1, HashStep
  <2> QED BY <1>3, <1>6, <2>2
<1>8. Hashed'
  <2>1. (pos' + 15) \div 16 = n + 1 /\ (n + 1) - 1 = n
    BY <1>3, <1>4
  <2> QED BY <1>4, <1>5, <1>6, <1>7, <2>1 DEF Hashed
<1>9. /\ pos' \in Nat /\ pos' <= Len(st.c) /\ pos' <= end
      /\ pos' < end => pos' % 16 = 0
      /\ pos' % 16 = 0 \/ pos' = Len(st.c)
  BY <1>1, <1>2, <1>3, <1>4
<1> QED BY <1>1, <1>4, <1>5, <1>8, <1>9 DEF SessionInv

LEMMA NextSession ==
  ASSUME SessionInv, [DNext]_allvars
  PROVE  SessionInv'
<1>1. CASE Backend \/ UNCHANGED allvars
  BY <1>1, KeepsSession DEF Backend, allvars
<1>2. CASE OtherCall
  BY <1>2, BeginSession DEF OtherCall
<1>3. CASE ed_init
  BY <1>3, BeginSession DEF ed_init
<1>4. CASE dec_final
  <2>1. ph' = "done" /\ DOMAIN cx' = DOMAIN cx
    BY <1>4 DEF dec_final
  <2> QED BY <2>1 DEF SessionInv
<1> QED
  BY <1>1, <1>2, <1>3, <1>4, InitReturnsSession, RecordSession, BlockSession DEF DNext

\* HashExact of Decryptor: for every record size that is a multiple of 16 and
\* every ciphertext the accumulator of encrypt02.c is GHASH as SP 800-38D has it
\* and paccum the hash one block earlier, whichever backends compute H.
THEOREM HashIsExact == DSpec => []HashExact
<1>1. SessionInv => HashExact
  BY DEF SessionInv, Hashed, HashExact
<1> QED BY <1>1, InitSession, NextSession, PTL DEF DSpec

------------------------------------------------------------------------------
\* The calls of a session.

\* The backends in use are of the level of the key, J is the counter block of
\* the index, which counts the blocks, and no call is open between records.
CallsInv ==
  /\ ph \in {"H", "T", "loop", "block"} => ops \in Libraries(Len(st.key))
  /\ ph \in {"H", "T", "block"} => b \in ops
  /\ ph \in {"T", "loop", "block"} => cx.J = st.iv \o store32(cx.index)
  /\ ph \in {"T", "loop"} => cx.index = 1 + ((pos + 15) \div 16)
  /\ ph = "block" => cx.index = 2 + (pos \div 16)
  /\ ph = "loop" => Returned

DecryptorInv == SessionInv /\ CallInv /\ CallsInv

\* A library holds backends of one level.
LEMMA LibraryLevel ==
  ASSUME NEW y \in Streams, NEW lib \in Libraries(Len(y.key)), NEW x \in lib
  PROVE  x \in Level1 \cup Level2 /\ Nk(x) = Len(y.key)
<1>1. Len(y.key) \in {4, 8}
  BY StreamsAssumption
<1>2. x \in IF Len(y.key) = 4 THEN Level1 ELSE Level2
  BY DEF Libraries
<1> QED BY <1>1, <1>2, Sizes

\* So a call of the session is a call of the standard.
LEMMA SessionCall ==
  ASSUME NEW y \in Streams, NEW lib \in Libraries(Len(y.key)), NEW x \in lib,
         NEW in, [key |-> y.key, in |-> in] \in Inputs, op(x, y, in)
  PROVE  CallInv' /\ Aes!Call'
<1> DEFINE i == [key |-> y.key, in |-> in]
<1>1. x \in Level1 \cup Level2 /\ Nk(x) = Len(y.key)
  BY LibraryLevel
<1>2. i \in Inputs /\ i.key = y.key /\ i.in = in
  OBVIOUS
<1>3. b' = x /\ w' = i.key /\ rk' = <<>> /\ s' = i.in /\ r' = 0
  BY <1>2 DEF op
<1> HIDE DEF i
<1> QED BY <1>1, <1>2, <1>3, BeginCall

\* The first twelve bytes of a counter block are the iv.
LEMMA CounterOf ==
  ASSUME NEW y \in Streams, NEW n
  PROVE  SubSeq(y.iv \o store32(n), 1, 12) = y.iv
<1> DEFINE f == [i \in 1..4 |-> (n \div 256^(4 - 1 - (i - 1))) % 256]
           S == Byte \cup {f[i] : i \in 1..4}
<1>1. store32(n) = SubSeq(f, 1, 4)
  BY DEF store32, Stored, Table
<1>2. f \in [1..4 -> S]
  OBVIOUS
<1>3. Byte \subseteq S
  <2> HIDE DEF f
  <2> QED OBVIOUS
<1> HIDE DEF f, S
<1>4. SubSeq(f, 1, 4) = f
  BY <1>2, WholeTable
<1>5. store32(n) \in Seq(S)
  BY <1>1, <1>2, <1>4
<1>6. y.iv \in Seq(Byte) /\ Len(y.iv) = 12
  BY StreamsAssumption
<1>7. y.iv \in Seq(S)
  BY <1>3, <1>6
<1> QED BY <1>5, <1>6, <1>7

\* The counter block of a block of ciphertext is among the inputs.
LEMMA CounterCall ==
  ASSUME NEW y \in Streams, NEW n \in 1..(1 + ((Len(y.c) + 15) \div 16))
  PROVE  [key |-> y.key, in |-> y.iv \o store32(n)] \in Inputs
BY CallsAssumption

\* At the beginning no session is open.
LEMMA InitCalls == DInit => DecryptorInv /\ Aes!Init
<1> SUFFICES ASSUME DInit PROVE DecryptorInv /\ Aes!Init
  OBVIOUS
<1>1. CallInv /\ Aes!Init
  BY InitCall DEF DInit
<1>2. CallsInv
  BY DEF DInit, CallsInv
<1> QED BY <1>1, <1>2, InitSession DEF DecryptorInv

\* While a backend computes, the session waits.
LEMMA BackendCalls ==
  ASSUME DecryptorInv, Backend
  PROVE  CallInv' /\ CallsInv' /\ [Aes!Next]_Aes!vars
<1>1. CallInv
  BY DEF DecryptorInv
<1>2. CallInv' /\ [Aes!Next]_Aes!vars
  BY <1>1, ExpandStep, SliceStep, StartStep, RoundStep DEF Backend
<1>3. b' = b /\ UNCHANGED dvars
  BY DEF Backend, Expand, Slice, Start, Round
<1>4. ~ Returned
  BY <1>1, RoundsOfCall DEF Backend, Expand, Slice, Start, Round, Returned, CallInv
<1>5. CallsInv'
  BY <1>3, <1>4 DEF DecryptorInv, CallsInv, dvars
<1> QED BY <1>2, <1>5

\* A call by a check program or by internalprofile.
LEMMA OtherCalls ==
  ASSUME DecryptorInv, OtherCall
  PROVE  CallInv' /\ CallsInv' /\ [Aes!Next]_Aes!vars
<1>1. PICK c \in Calls : b' = c[1] /\ w' = c[2].key /\ rk' = <<>> /\ s' = c[2].in /\ r' = 0
  BY DEF OtherCall, Return
<1>2. c[1] \in Level1 \cup Level2 /\ c[2] \in Inputs /\ Len(c[2].key) = Nk(c[1])
  BY DEF Calls
<1>3. CallInv' /\ Aes!Call'
  BY <1>1, <1>2, BeginCall
<1>4. CallInv /\ r = Nr + 1
  BY DEF DecryptorInv, OtherCall, Return
<1>5. CallsInv'
  BY DEF OtherCall, Begin, CallsInv
<1> QED BY <1>3, <1>4, <1>5, CallAgain

\* ed_init calls with the block of zeros, then with the first counter block.
LEMMA InitSteps ==
  ASSUME DecryptorInv, ed_init \/ ed_init_T \/ ed_init_Returns
  PROVE  CallInv' /\ CallsInv' /\ [Aes!Next]_Aes!vars
<1>1. CASE ed_init
  <2>1. PICK y \in Streams : \E lib \in Libraries(Len(y.key)) : \E x \in lib :
          Begin("H", y, lib) /\ op(x, y, Zero)
    BY <1>1 DEF ed_init
  <2>2. PICK lib \in Libraries(Len(y.key)) : \E x \in lib :
          Begin("H", y, lib) /\ op(x, y, Zero)
    BY <2>1
  <2>3. PICK x \in lib : Begin("H", y, lib) /\ op(x, y, Zero)
    BY <2>2
  <2>4. [key |-> y.key, in |-> Zero] \in Inputs
    BY CallsAssumption
  <2>5. CallInv' /\ Aes!Call'
    BY <2>3, <2>4, SessionCall
  <2>6. CallInv /\ r = Nr + 1
    BY <1>1 DEF DecryptorInv, ed_init, Returned
  <2>7. CallsInv'
    BY <2>3 DEF Begin, op, CallsInv
  <2> QED BY <2>5, <2>6, <2>7, CallAgain
<1>2. CASE ed_init_T
  <2> DEFINE J == st.iv \o store32(1)
  <2>1. /\ st \in Streams /\ ops \in Libraries(Len(st.key)) /\ b \in ops
        /\ DOMAIN cx = Fields /\ pos = 0
    BY <1>2 DEF DecryptorInv, SessionInv, CallsInv, ed_init_T
  <2>2. Len(st.c) \in Nat /\ 1 \in 1..(1 + ((Len(st.c) + 15) \div 16))
    <3>1. Len(st.c) \in Nat
      BY <2>1, StreamsAssumption
    <3>2. \A n \in Nat : 1 \in 1..(1 + ((n + 15) \div 16))
      OBVIOUS
    <3> QED BY <3>1, <3>2
  <2>3. [key |-> st.key, in |-> J] \in Inputs
    BY <2>1, <2>2, CounterCall
  <2>4. op(b, st, J) /\ ph' = "T" /\ st' = st /\ ops' = ops /\ pos' = pos
    BY <1>2 DEF ed_init_T
  <2>5. cx'.J = J /\ cx'.index = 1
    BY <1>2, <2>1 DEF ed_init_T, Fields
  <2> HIDE DEF J
  <2>6. CallInv' /\ Aes!Call'
    BY <2>1, <2>3, <2>4, SessionCall
  <2>7. CallInv /\ r = Nr + 1
    BY <1>2 DEF DecryptorInv, ed_init_T, Returned
  <2>8. b' = b /\ 1 = 1 + ((pos' + 15) \div 16)
    BY <2>1, <2>4 DEF op
  <2>9. cx'.J = st'.iv \o store32(cx'.index)
    BY <2>4, <2>5 DEF J
  <2>10. CallsInv'
    BY <2>1, <2>4, <2>5, <2>8, <2>9 DEF CallsInv
  <2> QED BY <2>6, <2>7, <2>10, CallAgain
<1>3. CASE ed_init_Returns
  <2>1. UNCHANGED vars /\ ph = "T" /\ ph' = "loop" /\ st' = st /\ ops' = ops /\ pos' = pos
    BY <1>3 DEF ed_init_Returns
  <2>2. DOMAIN cx = Fields
    BY DEF DecryptorInv, SessionInv
  <2>3. cx'.J = cx.J /\ cx'.index = cx.index
    BY <1>3, <2>2 DEF ed_init_Returns, Fields
  <2>4. CallsInv'
    <3>1. Returned'
      BY <1>3 DEF ed_init_Returns, Returned, vars, Nr
    <3> QED BY <2>1, <2>3, <3>1 DEF DecryptorInv, CallsInv
  <2>5. CallInv' /\ UNCHANGED Aes!vars
    BY <2>1 DEF DecryptorInv, vars, CallInv, SlicedKeys, Nr, Aes!vars, StateOfAes
  <2> QED BY <2>4, <2>5
<1> QED BY <1>1, <1>2, <1>3

\* The block of ciphertext at position p, of at most sixteen bytes: how many
\* counter blocks there are, and where the next block is.
LEMMA BlockNumber ==
  ASSUME NEW p \in Nat, NEW L \in Nat, p % 16 = 0, p < L
  PROVE  /\ p \div 16 \in Nat /\ (p + 15) \div 16 = p \div 16
         /\ (p \div 16) + 2 \in 1..(1 + ((L + 15) \div 16))
         /\ \A len \in 1..16 : (p + len + 15) \div 16 = (p \div 16) + 1
         /\ (p + 16) % 16 = 0 /\ (p + 16) \div 16 = (p \div 16) + 1
<1>1. PICK k \in Nat : p = 16 * k /\ p \div 16 = k
  <2>1. p = 16 * (p \div 16) /\ p \div 16 \in Nat
    OBVIOUS
  <2> QED BY <2>1
<1>2. k + 1 <= (L + 15) \div 16 /\ (L + 15) \div 16 \in Nat
  BY <1>1
<1>3. (p + 15) \div 16 = k /\ \A len \in 1..16 : (p + len + 15) \div 16 = k + 1
  BY <1>1
<1> QED BY <1>1, <1>2, <1>3

\* The next counter block.
LEMMA CountedOf ==
  ASSUME NEW c, DOMAIN c = Fields, NEW y \in Streams, NEW n \in Nat, c.index = n,
         c.J = y.iv \o store32(n)
  PROVE  Counted(c).index = n + 1 /\ Counted(c).J = y.iv \o store32(n + 1)
<1>1. SubSeq(c.J, 1, 12) = y.iv
  BY CounterOf
<1> QED BY <1>1 DEF Counted, Fields

\* dec_update asks for the first block of a record.
LEMMA RecordCalls ==
  ASSUME DecryptorInv, dec_update
  PROVE  CallInv' /\ CallsInv' /\ [Aes!Next]_Aes!vars
<1> DEFINE from == [cx EXCEPT !.mlen = @ + end' - pos]
           n == pos \div 16
<1>1. /\ DOMAIN cx = Fields /\ st \in Streams /\ pos \in Nat /\ pos < Len(st.c) /\ pos % 16 = 0
      /\ ops \in Libraries(Len(st.key)) /\ cx.J = st.iv \o store32(cx.index)
      /\ cx.index = 1 + ((pos + 15) \div 16) /\ Returned
  <2>1. ph = "loop"
    BY DEF dec_update
  <2>2. /\ DOMAIN cx = Fields /\ st \in Streams /\ pos \in Nat /\ pos < Len(st.c)
        /\ pos % 16 = 0
    BY DEF DecryptorInv, SessionInv, dec_update
  <2>3. /\ ops \in Libraries(Len(st.key)) /\ cx.J = st.iv \o store32(cx.index)
        /\ cx.index = 1 + ((pos + 15) \div 16) /\ Returned
    BY <2>1 DEF DecryptorInv, CallsInv
  <2> QED BY <2>2, <2>3
<1>2. Len(st.c) \in Nat
  BY <1>1, StreamsAssumption
<1>3. n \in Nat /\ n + 1 \in Nat /\ cx.index = n + 1 /\ n + 2 \in 1..(1 + ((Len(st.c) + 15) \div 16))
  <2>1. /\ n \in Nat /\ (pos + 15) \div 16 = n
        /\ n + 2 \in 1..(1 + ((Len(st.c) + 15) \div 16))
    BY <1>1, <1>2, BlockNumber
  <2>2. cx.index = 1 + n
    BY <1>1, <2>1
  <2> HIDE DEF n
  <2>3. n + 1 \in Nat /\ 1 + n = n + 1
    BY <2>1
  <2> QED BY <2>1, <2>2, <2>3
<1>4. DOMAIN from = Fields /\ from.index = n + 1 /\ from.J = st.iv \o store32(n + 1)
  BY <1>1, <1>3 DEF Fields
<1>5. cx' = Counted(from) /\ \E x \in ops : op(x, st, cx'.J)
  BY DEF dec_update
<1>6. ph' = "block" /\ st' = st /\ ops' = ops /\ pos' = pos
  BY DEF dec_update
<1> HIDE DEF from, n
<1>7. cx'.index = (n + 1) + 1 /\ cx'.J = st.iv \o store32((n + 1) + 1)
  BY <1>1, <1>3, <1>4, <1>5, CountedOf
<1>8. (n + 1) + 1 = n + 2
  BY <1>3
<1>9. [key |-> st.key, in |-> cx'.J] \in Inputs
  BY <1>1, <1>3, <1>7, <1>8, CounterCall
<1>10. PICK x \in ops : op(x, st, cx'.J)
  BY <1>5
<1>11. CallInv' /\ Aes!Call'
  BY <1>1, <1>9, <1>10, SessionCall
<1>12. CallInv /\ r = Nr + 1
  BY <1>1 DEF DecryptorInv, Returned
<1>13. b' = x /\ cx'.index = 2 + (pos' \div 16)
  BY <1>3, <1>6, <1>7, <1>10 DEF op, n
<1>14. cx'.J = st'.iv \o store32(cx'.index)
  BY <1>6, <1>7
<1>15. CallsInv'
  BY <1>1, <1>6, <1>10, <1>13, <1>14 DEF CallsInv
<1> QED BY <1>11, <1>12, <1>15, CallAgain

\* The next block of the record, or the end of the record.
LEMMA BlockCalls ==
  ASSUME DecryptorInv, dec_update_Block
  PROVE  CallInv' /\ CallsInv' /\ [Aes!Next]_Aes!vars
<1> DEFINE len == IF end - pos < 16 THEN end - pos ELSE 16
           c == SubSeq(st.c, pos + 1, pos + len)
           next == [cx EXCEPT !.paccum = cx.accum, !.accum = addmul(cx.accum, c, cx.H)]
           n == pos \div 16
<1>1. /\ DOMAIN cx = Fields /\ st \in Streams /\ pos \in Nat /\ pos % 16 = 0
      /\ end \in Nat /\ pos < end /\ end <= Len(st.c)
      /\ ops \in Libraries(Len(st.key)) /\ b \in ops
      /\ cx.J = st.iv \o store32(cx.index) /\ cx.index = 2 + n
  BY DEF DecryptorInv, SessionInv, CallsInv, dec_update_Block
<1>2. Len(st.c) \in Nat /\ Returned /\ CallInv
  BY <1>1, StreamsAssumption DEF dec_update_Block, DecryptorInv
<1>3. /\ n \in Nat /\ n + 2 \in Nat /\ cx.index = n + 2 /\ len \in 1..16
      /\ (pos + len + 15) \div 16 = n + 1
      /\ pos + len < end => /\ (pos + len) \div 16 = n + 1
                            /\ n + 3 \in 1..(1 + ((Len(st.c) + 15) \div 16))
  <2>1. /\ n \in Nat /\ \A k \in 1..16 : (pos + k + 15) \div 16 = n + 1
        /\ (pos + 16) % 16 = 0 /\ (pos + 16) \div 16 = n + 1
    BY <1>1, <1>2, BlockNumber
  <2>2. len \in 1..16 /\ (pos + len < end => len = 16)
    BY <1>1
  <2>3. ASSUME pos + len < end PROVE n + 3 \in 1..(1 + ((Len(st.c) + 15) \div 16))
    <3>1. pos + 16 \in Nat /\ pos + 16 < Len(st.c)
      BY <1>1, <1>2, <2>2, <2>3
    <3>2. ((pos + 16) \div 16) + 2 \in 1..(1 + ((Len(st.c) + 15) \div 16))
      BY <1>2, <2>1, <3>1, BlockNumber
    <3> HIDE DEF n
    <3>3. ((pos + 16) \div 16) + 2 = n + 3
      BY <2>1
    <3> QED BY <3>2, <3>3
  <2>4. cx.index = 2 + n
    BY <1>1
  <2> HIDE DEF n, len
  <2>5. n + 2 \in Nat /\ 2 + n = n + 2
    BY <2>1
  <2>6. cx.index = n + 2
    BY <2>4, <2>5
  <2>7. (pos + len + 15) \div 16 = n + 1
    BY <2>1, <2>2
  <2>8. pos + len < end => (pos + len) \div 16 = n + 1
    BY <2>1, <2>2
  <2> QED BY <2>1, <2>2, <2>3, <2>5, <2>6, <2>7, <2>8
<1>4. DOMAIN next = Fields /\ next.index = n + 2 /\ next.J = st.iv \o store32(n + 2)
  BY <1>1, <1>3 DEF Fields
<1>5. /\ pos' = pos + len /\ st' = st /\ ops' = ops
      /\ pos' < end => cx' = Counted(next) /\ op(b, st, cx'.J) /\ ph' = "block"
      /\ ~ (pos' < end) => cx' = next /\ ph' = "loop" /\ UNCHANGED vars
  BY DEF dec_update_Block
<1> HIDE DEF len, c, next, n
<1>6. CASE pos' < end
  <2>1. cx'.index = (n + 2) + 1 /\ cx'.J = st.iv \o store32((n + 2) + 1)
    BY <1>1, <1>3, <1>4, <1>5, <1>6, CountedOf
  <2>2. (n + 2) + 1 = n + 3 /\ n + 3 \in 1..(1 + ((Len(st.c) + 15) \div 16))
    <3>1. (n + 2) + 1 = n + 3
      BY <1>3
    <3>2. pos + len < end
      BY <1>5, <1>6
    <3> QED BY <1>3, <3>1, <3>2
  <2>3. [key |-> st.key, in |-> cx'.J] \in Inputs
    BY <1>1, <2>1, <2>2, CounterCall
  <2>4. CallInv' /\ Aes!Call'
    BY <1>1, <1>5, <1>6, <2>3, SessionCall
  <2>5. b' = b /\ cx'.index = 2 + (pos' \div 16)
    <3>1. pos' \div 16 = n + 1
      BY <1>3, <1>5, <1>6
    <3>2. (n + 2) + 1 = 2 + (n + 1)
      BY <1>3
    <3> QED BY <1>5, <1>6, <2>1, <3>1, <3>2 DEF op
  <2>6. cx'.J = st'.iv \o store32(cx'.index)
    BY <1>5, <2>1
  <2>7. CallsInv'
    BY <1>1, <1>5, <1>6, <2>5, <2>6 DEF CallsInv
  <2> QED BY <1>2, <2>4, <2>7, CallAgain DEF Returned
<1>7. CASE ~ (pos' < end)
  <2>1. cx' = next /\ ph' = "loop" /\ UNCHANGED vars
    BY <1>5, <1>7
  <2>2. cx'.index = 1 + ((pos' + 15) \div 16)
    <3>1. (pos' + 15) \div 16 = n + 1 /\ n + 2 = 1 + (n + 1)
      BY <1>3, <1>5
    <3> QED BY <1>4, <2>1, <3>1
  <2>3. cx'.J = st'.iv \o store32(cx'.index)
    BY <1>4, <1>5, <2>1
  <2>4. Returned'
    BY <1>2, <2>1 DEF Returned, vars, Nr
  <2>5. CallsInv'
    BY <1>1, <1>5, <2>1, <2>2, <2>3, <2>4 DEF CallsInv
  <2>6. CallInv' /\ UNCHANGED Aes!vars
    BY <1>2, <2>1 DEF vars, CallInv, SlicedKeys, Nr, Aes!vars, StateOfAes
  <2> QED BY <2>5, <2>6
<1> QED BY <1>6, <1>7

\* Every step keeps the invariant and is one of the standard, or none.
LEMMA NextCalls ==
  ASSUME DecryptorInv, [DNext]_allvars
  PROVE  DecryptorInv' /\ [Aes!Next]_Aes!vars
<1>1. CASE UNCHANGED allvars
  <2>1. CallInv' /\ UNCHANGED Aes!vars
    BY <1>1 DEF DecryptorInv, allvars, vars, CallInv, SlicedKeys, Nr, Aes!vars, StateOfAes
  <2>2. CallsInv'
    BY <1>1 DEF DecryptorInv, allvars, vars, dvars, CallsInv, Returned, Nr
  <2> QED BY <2>1, <2>2, NextSession DEF DecryptorInv
<1>2. CASE dec_final
  <2>1. CallInv' /\ UNCHANGED Aes!vars
    BY <1>2 DEF DecryptorInv, dec_final, vars, CallInv, SlicedKeys, Nr, Aes!vars, StateOfAes
  <2>2. CallsInv'
    BY <1>2 DEF dec_final, CallsInv
  <2> QED BY <2>1, <2>2, NextSession DEF DecryptorInv
<1>3. CASE Backend \/ OtherCall \/ ed_init \/ ed_init_T \/ ed_init_Returns
             \/ dec_update \/ dec_update_Block
  <2>1. CallInv' /\ CallsInv' /\ [Aes!Next]_Aes!vars
    BY <1>3, BackendCalls, OtherCalls, InitSteps, RecordCalls, BlockCalls
  <2> QED BY <2>1, NextSession DEF DecryptorInv
<1> QED BY <1>1, <1>2, <1>3 DEF DNext

\* ImplementsAes of Backends: for every key, block, set of lanes and sequence of
\* calls, switched between any backends of a level, each pass of the loops of the
\* ten backends is a step of AES as FIPS 197 has it.
THEOREM BackendsImplementAes == DSpec => ImplementsAes
<1>1. DecryptorInv /\ [DNext]_allvars => DecryptorInv' /\ [Aes!Next]_Aes!vars
  BY NextCalls
<1> QED BY <1>1, InitCalls, PTL DEF DSpec, ImplementsAes, Aes!Spec
==============================================================================
