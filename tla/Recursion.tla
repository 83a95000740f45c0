------------------------------ MODULE Recursion ------------------------------
(***************************************************************************)
(* Induction and recursion over the naturals, stated with sets where the   *)
(* library's theorems take an operator.  The well-foundedness of strict    *)
(* inclusion on finite sets gives the smallest element of a set of         *)
(* naturals, and that gives the rest.                                      *)
(***************************************************************************)
EXTENDS Integers, FiniteSets, FiniteSetTheorems, TLAPS

(* A finite set of cardinality one is a singleton.                         *)
LEMMA OneElement ==
    ASSUME NEW S, IsFiniteSet(S), Cardinality(S) = 1
    PROVE  \E x : S = {x}
BY FS_Singleton

(* A set that has gained at most one element, or lost one.                 *)
LEMMA OneMore ==
    ASSUME NEW A, IsFiniteSet(A), NEW B, NEW x, B \subseteq A \union {x}
    PROVE  /\ IsFiniteSet(B) /\ Cardinality(A) \in Nat /\ Cardinality(B) \in Nat
           /\ Cardinality(B) <= Cardinality(A) + 1
           /\ B \subseteq A => Cardinality(B) <= Cardinality(A)
           /\ B \subseteq A \ {x} /\ x \in A => Cardinality(B) <= Cardinality(A) - 1
<1>1. Cardinality(A) \in Nat
  BY FS_CardinalityType
<1>2. IsFiniteSet(A \union {x})
  BY FS_AddElement
<1>3. Cardinality(A \union {x}) <= Cardinality(A) + 1
  <2>1. CASE x \in A
    <3>1. A \union {x} = A
      BY <2>1
    <3> QED
      BY <1>1, <3>1
  <2>2. CASE x \notin A
    <3>1. Cardinality(A \union {x}) = Cardinality(A) + 1
      BY <2>2, FS_AddElement
    <3> QED
      BY <1>1, <3>1
  <2> QED
    BY <2>1, <2>2
<1>4. IsFiniteSet(B) /\ Cardinality(B) <= Cardinality(A \union {x})
  BY <1>2, FS_Subset
<1>5. Cardinality(B) \in Nat /\ Cardinality(A \union {x}) \in Nat
  BY <1>2, <1>4, FS_CardinalityType
<1>6. B \subseteq A => Cardinality(B) <= Cardinality(A)
  BY FS_Subset
<1>7. ASSUME B \subseteq A \ {x}, x \in A PROVE Cardinality(B) <= Cardinality(A) - 1
  <2>1. IsFiniteSet(A \ {x}) /\ Cardinality(A \ {x}) = Cardinality(A) - 1
    BY <1>7, FS_RemoveElement
  <2>2. Cardinality(B) <= Cardinality(A \ {x})
    BY <1>7, <2>1, FS_Subset
  <2> QED
    BY <2>1, <2>2
<1> QED
  BY <1>1, <1>3, <1>4, <1>5, <1>6, <1>7

(* Every set of naturals that has an element has a smallest one.           *)
LEMMA SmallestElement ==
    ASSUME NEW S \in SUBSET Nat, S # {}
    PROVE  \E n \in S : \A m \in S : n <= m
  <1> DEFINE UpTo(n) == 0..n
             Sets == {UpTo(n) : n \in S}
             Inside == StrictSubsetOrdering(Nat)
  <1>1. Sets \subseteq FiniteSubsetsOf(Nat) /\ Sets # {}
    <2>1. \A n \in S : UpTo(n) \in FiniteSubsetsOf(Nat)
      BY FS_Interval DEF FiniteSubsetsOf
    <2> QED BY <2>1
  <1>2. \E x \in Sets : \A y \in Sets : <<y, x>> \notin Inside
    <2>1. IsWellFoundedOn(Inside, FiniteSubsetsOf(Nat))
      BY FS_StrictSubsetOrderingWellFounded
    <2> HIDE DEF Sets, Inside
    <2> QED BY <1>1, <2>1, WFMin
  <1>3. PICK n \in S : \A m \in S : <<UpTo(m), UpTo(n)>> \notin Inside
    BY <1>2
  <1>4. ASSUME NEW m \in S, m < n PROVE FALSE
    <2>1. n \in UpTo(n) /\ n \notin UpTo(m)
      BY <1>4
    <2>2. UpTo(m) \subseteq UpTo(n) /\ UpTo(m) # UpTo(n)
      BY <1>4, <2>1
    <2>3. UpTo(m) \subseteq Nat /\ UpTo(n) \subseteq Nat
      OBVIOUS
    <2> QED BY <1>3, <2>2, <2>3 DEF StrictSubsetOrdering
  <1> QED BY <1>4

(* A set of naturals that holds 0 and every successor holds them all.      *)
LEMMA Induction ==
    ASSUME NEW S \in SUBSET Nat, 0 \in S, \A n \in S : n + 1 \in S
    PROVE  S = Nat
  <1> DEFINE Rest == Nat \ S
  <1> SUFFICES ASSUME Rest # {} PROVE FALSE
    OBVIOUS
  <1>1. \E n \in Rest : \A m \in Rest : n <= m
    <2>1. Rest \in SUBSET Nat
      OBVIOUS
    <2> HIDE DEF Rest
    <2> QED BY <2>1, SmallestElement
  <1>2. PICK n \in Rest : \A m \in Rest : n <= m
    BY <1>1
  <1>3. n # 0 /\ n - 1 \in S
    BY <1>2
  <1> QED BY <1>2, <1>3

(* f starts with a value and goes on by a step.                            *)
Follows(f, V, first, step) ==
    /\ f \in [Nat -> V]
    /\ f[0] = first
    /\ \A n \in Nat : f[n + 1] = step[<<n, f[n]>>]

(* A first value and a step give a function on the naturals.               *)
LEMMA RecursionExists ==
    ASSUME NEW V, NEW first \in V, NEW step \in [Nat \X V -> V]
    PROVE  \E f : Follows(f, V, first, step)
  <1> DEFINE Starts(n, g) == /\ g \in [0..n -> V]
                             /\ g[0] = first
                             /\ \A k \in Nat : k < n => g[k + 1] = step[<<k, g[k]>>]
  <1>1. \A n \in Nat : \E g : Starts(n, g)
    <2> DEFINE S == {n \in Nat : \E g : Starts(n, g)}
    <2>1. 0 \in S
      <3>1. Starts(0, [k \in 0..0 |-> first])
        OBVIOUS
      <3> QED BY <3>1
    <2>2. ASSUME NEW n \in S PROVE n + 1 \in S
      <3>1. PICK g : Starts(n, g)
        BY <2>2
      <3> DEFINE h == [k \in 0..(n + 1) |-> IF k = n + 1 THEN step[<<n, g[n]>>] ELSE g[k]]
      <3>2. n \in Nat /\ g[n] \in V /\ step[<<n, g[n]>>] \in V
        BY <3>1
      <3>3. h \in [0..(n + 1) -> V]
        BY <3>1, <3>2
      <3>4. h[0] = first
        BY <3>1, <3>2
      <3>5. ASSUME NEW k \in Nat, k < n + 1 PROVE h[k + 1] = step[<<k, h[k]>>]
        <4>1. k \in 0..(n + 1) /\ k + 1 \in 0..(n + 1) /\ k # n + 1
          BY <3>2, <3>5
        <4>2. h[k] = g[k]
          BY <4>1
        <4>3. CASE k = n
          BY <4>1, <4>2, <4>3
        <4>4. CASE k # n
          <5>1. k < n /\ k + 1 # n + 1
            BY <4>4, <3>5, <3>2
          <5> QED BY <5>1, <4>1, <4>2, <3>1
        <4> QED BY <4>3, <4>4
      <3>6. Starts(n + 1, h)
        BY <3>3, <3>4, <3>5
      <3> HIDE DEF Starts, h
      <3> QED BY <3>2, <3>6
    <2>3. S = Nat
      <3>1. S \in SUBSET Nat
        OBVIOUS
      <3> HIDE DEF S
      <3> QED BY <2>1, <2>2, <3>1, Induction
    <2> QED BY <2>3
  <1>2. ASSUME NEW m \in Nat, NEW n \in Nat, m <= n, NEW g, NEW h, Starts(m, g), Starts(n, h)
        PROVE  \A k \in 0..m : g[k] = h[k]
    <2> DEFINE S == {k \in Nat : k <= m => g[k] = h[k]}
    <2>1. 0 \in S
      BY <1>2
    <2>2. ASSUME NEW k \in S PROVE k + 1 \in S
      <3> SUFFICES ASSUME k + 1 <= m PROVE g[k + 1] = h[k + 1]
        OBVIOUS
      <3>1. k \in Nat /\ k < m /\ k < n /\ g[k] = h[k]
        BY <1>2
      <3> QED BY <3>1, <1>2
    <2>3. S = Nat
      <3>1. S \in SUBSET Nat
        OBVIOUS
      <3> HIDE DEF S
      <3> QED BY <2>1, <2>2, <3>1, Induction
    <2> QED BY <2>3
  <1> DEFINE part(n) == CHOOSE g : Starts(n, g)
             f == [n \in Nat |-> part(n)[n]]
  <1>3. ASSUME NEW n \in Nat PROVE Starts(n, part(n))
    <2> HIDE DEF Starts
    <2> QED BY <1>1
  <1>4. f \in [Nat -> V]
    <2> SUFFICES ASSUME NEW n \in Nat PROVE part(n)[n] \in V
      OBVIOUS
    <2> HIDE DEF part
    <2> QED BY <1>3
  <1>5. f[0] = first
    <2>1. part(0)[0] = first
      <3> HIDE DEF part
      <3> QED BY <1>3
    <2> QED BY <2>1
  <1>6. ASSUME NEW n \in Nat PROVE f[n + 1] = step[<<n, f[n]>>]
    <2>1. Starts(n, part(n)) /\ Starts(n + 1, part(n + 1))
      <3> HIDE DEF Starts, part
      <3>1. n + 1 \in Nat
        OBVIOUS
      <3> QED BY <1>3, <3>1
    <2>2. \A k \in 0..n : part(n)[k] = part(n + 1)[k]
      <3> HIDE DEF Starts, part
      <3> QED BY <1>2, <2>1
    <2>3. part(n + 1)[n + 1] = step[<<n, part(n + 1)[n]>>]
      <3> HIDE DEF part
      <3> QED BY <2>1
    <2>4. f[n] = part(n)[n] /\ f[n + 1] = part(n + 1)[n + 1]
      <3> HIDE DEF part
      <3> QED OBVIOUS
    <2> HIDE DEF part, Starts, f
    <2> QED BY <2>2, <2>3, <2>4
  <1> HIDE DEF f
  <1> QED BY <1>4, <1>5, <1>6 DEF Follows

(* Powers of a positive number, as the recursive functions of the scoring  *)
(* compute them, are positive.                                             *)
LEMMA Powers ==
    ASSUME NEW b \in Nat \ {0}, NEW power,
           power = CHOOSE f : f = [k \in Nat |-> IF k = 0 THEN 1 ELSE b * f[k - 1]]
    PROVE  power \in [Nat -> Nat \ {0}]
  <1> DEFINE Pos == Nat \ {0}
             one == 1
             step == [x \in Nat \X Pos |-> b * x[2]]
             IsPower(f) == f = [k \in Nat |-> IF k = 0 THEN 1 ELSE b * f[k - 1]]
  <1>1. step \in [Nat \X Pos -> Pos] /\ one \in Pos
    OBVIOUS
  <1>2. PICK g : Follows(g, Pos, one, step)
    <2> HIDE DEF Pos, one, step
    <2> QED BY <1>1, RecursionExists
  <1>3. /\ g \in [Nat -> Pos] /\ g[0] = 1
        /\ \A n \in Nat : g[n + 1] = b * g[n]
    BY <1>2 DEF Follows
  <1>4. IsPower(g)
    <2>1. ASSUME NEW k \in Nat PROVE g[k] = IF k = 0 THEN 1 ELSE b * g[k - 1]
      <3>1. CASE k = 0
        BY <3>1, <1>3
      <3>2. CASE k # 0
        <4>1. k - 1 \in Nat /\ (k - 1) + 1 = k
          BY <3>2
        <4> QED BY <4>1, <3>2, <1>3
      <3> QED BY <3>1, <3>2
    <2> QED BY <2>1, <1>3
  <1>5. IsPower(power)
    <2>1. power = CHOOSE f : IsPower(f)
      OBVIOUS
    <2> HIDE DEF IsPower
    <2> QED BY <1>4, <2>1
  <1>6. power[0] = 1 /\ \A n \in Nat : power[n + 1] = b * power[n]
    <2>1. \A k \in Nat : power[k] = IF k = 0 THEN 1 ELSE b * power[k - 1]
      BY <1>5
    <2>2. ASSUME NEW n \in Nat PROVE power[n + 1] = b * power[n]
      <3>1. n + 1 \in Nat /\ n + 1 # 0 /\ (n + 1) - 1 = n
        OBVIOUS
      <3> QED BY <2>1, <3>1
    <2> QED BY <2>1, <2>2
  <1> DEFINE S == {n \in Nat : power[n] \in Pos}
  <1>7. S = Nat
    <2>1. S \in SUBSET Nat /\ 0 \in S
      BY <1>6
    <2>2. ASSUME NEW n \in S PROVE n + 1 \in S
      <3>1. n + 1 \in Nat /\ power[n + 1] = b * power[n] /\ power[n] \in Pos
        BY <1>6
      <3>2. b * power[n] \in Pos
        BY <3>1
      <3> QED BY <3>1, <3>2
    <2> HIDE DEF S
    <2> QED BY <2>1, <2>2, Induction
  <1> QED BY <1>5, <1>7

-----------------------------------------------------------------------------
(* The sum of f over a finite set, as the library adds it up: take out one  *)
(* element after another.                                                  *)
IsSumOf(h, f, S) ==
    h = [s \in SUBSET S |-> IF s = {} THEN 0 ELSE LET x == CHOOSE x \in s : TRUE IN f[x] + h[s \ {x}]]

SumOver(f, S) == (CHOOSE h : IsSumOf(h, f, S))[S]

(* What such a function says of one set.                                   *)
LEMMA IsSumOfAt ==
    ASSUME NEW S, NEW f, NEW h, IsSumOf(h, f, S)
    PROVE  /\ h[{}] = 0
           /\ \A s \in SUBSET S : s # {} => \E x \in s : x = (CHOOSE y \in s : TRUE) /\ h[s] = f[x] + h[s \ {x}]
  <1>1. ASSUME NEW s \in SUBSET S
        PROVE  h[s] = IF s = {} THEN 0 ELSE LET x == CHOOSE x \in s : TRUE IN f[x] + h[s \ {x}]
    BY DEF IsSumOf
  <1>2. h[{}] = 0
    BY <1>1
  <1>3. ASSUME NEW s \in SUBSET S, s # {}
        PROVE  \E x \in s : x = (CHOOSE y \in s : TRUE) /\ h[s] = f[x] + h[s \ {x}]
    <2>1. PICK x : x = CHOOSE y \in s : TRUE
      OBVIOUS
    <2>2. x \in s
      BY <1>3, <2>1
    <2>3. h[s] = f[x] + h[s \ {x}]
      BY <1>1, <1>3, <2>1
    <2> QED BY <2>1, <2>2, <2>3
  <1> QED BY <1>2, <1>3

(* There is one.                                                           *)
LEMMA AdderExists ==
    ASSUME NEW S, IsFiniteSet(S), NEW f, \A x \in S : f[x] \in Int
    PROVE  \E h : IsSumOf(h, f, S)
  <1> DEFINE V == [SUBSET S -> Int]
             next(h, s) == IF s = {} THEN 0 ELSE LET x == CHOOSE x \in s : TRUE IN f[x] + h[s \ {x}]
             first == [s \in SUBSET S |-> 0]
             step == [p \in Nat \X V |-> [s \in SUBSET S |-> next(p[2], s)]]
  <1>1. first \in V
    OBVIOUS
  <1>2. \A h \in V : \A s \in SUBSET S : next(h, s) \in Int
    <2>1. ASSUME NEW h \in V, NEW s \in SUBSET S PROVE next(h, s) \in Int
      <3>1. CASE s = {}
        BY <3>1
      <3>2. CASE s # {}
        <4>1. PICK x : x = CHOOSE y \in s : TRUE
          OBVIOUS
        <4>2. x \in S /\ s \ {x} \in SUBSET S
          BY <3>2, <4>1
        <4>3. f[x] \in Int /\ h[s \ {x}] \in Int
          BY <4>2
        <4> QED BY <3>2, <4>1, <4>3
      <3> QED BY <3>1, <3>2
    <2> HIDE DEF next, V
    <2> QED BY <2>1
  <1> HIDE DEF next
  <1>3. step \in [Nat \X V -> V]
    BY <1>2
  <1>4. PICK g : Follows(g, V, first, step)
    <2> HIDE DEF V, first, step
    <2> QED BY <1>1, <1>3, RecursionExists
  <1>5. /\ \A n \in Nat : g[n] \in V
        /\ \A n \in Nat : g[n + 1] = [s \in SUBSET S |-> next(g[n], s)]
    <2>1. g \in [Nat -> V] /\ \A n \in Nat : g[n + 1] = step[<<n, g[n]>>]
      BY <1>4 DEF Follows
    <2>2. \A n \in Nat : g[n] \in V
      BY <2>1
    <2>3. \A n \in Nat : <<n, g[n]>> \in Nat \X V
      BY <2>2
    <2>4. \A n \in Nat : step[<<n, g[n]>>] = [s \in SUBSET S |-> next(g[n], s)]
      BY <2>3
    <2> QED BY <2>1, <2>2, <2>4
  <1> DEFINE size(s) == Cardinality(s)
             h == [s \in SUBSET S |-> g[size(s)][s]]
  <1>6. \A s \in SUBSET S : IsFiniteSet(s) /\ size(s) \in Nat /\ (size(s) = 0 <=> s = {})
    <2> TAKE s \in SUBSET S
    <2>1. IsFiniteSet(s)
      BY FS_Subset
    <2> QED BY <2>1, FS_CardinalityType, FS_EmptySet
  <1>7. g[0] = first
    BY <1>4 DEF Follows
  <1>8. ASSUME NEW s \in SUBSET S PROVE h[s] = next(h, s)
    <2>1. CASE s = {}
      BY <1>6, <1>7, <2>1 DEF next
    <2>2. CASE s # {}
      <3>1. PICK x : x = CHOOSE y \in s : TRUE
        OBVIOUS
      <3>2. x \in s
        BY <2>2, <3>1
      <3>3. size(s \ {x}) = size(s) - 1 /\ s \ {x} \in SUBSET S
        BY <1>6, <3>2, FS_RemoveElement
      <3>4. PICK n \in Nat : size(s) = n + 1 /\ size(s \ {x}) = n
        <4>1. size(s) \in Nat /\ size(s) # 0
          BY <1>6, <2>2
        <4>2. size(s) - 1 \in Nat /\ size(s) = (size(s) - 1) + 1
          BY <4>1
        <4> HIDE DEF size
        <4> QED BY <3>3, <4>2
      <3>5. h[s] = next(g[n], s)
        <4>1. h[s] = g[n + 1][s]
          BY <3>4
        <4>2. g[n + 1] = [t \in SUBSET S |-> next(g[n], t)]
          BY <1>5
        <4> HIDE DEF h, size
        <4> QED BY <4>1, <4>2
      <3>6. h[s \ {x}] = g[n][s \ {x}]
        BY <3>3, <3>4
      <3>7. next(g[n], s) = f[x] + g[n][s \ {x}] /\ next(h, s) = f[x] + h[s \ {x}]
        <4> HIDE DEF h
        <4> QED BY <2>2, <3>1 DEF next
      <3> HIDE DEF h
      <3> QED BY <3>5, <3>6, <3>7
    <2> QED BY <2>1, <2>2
  <1>9. IsSumOf(h, f, S)
    <2>1. h = [s \in SUBSET S |-> h[s]]
      OBVIOUS
    <2> HIDE DEF h
    <2>2. h = [s \in SUBSET S |-> next(h, s)]
      BY <1>8, <2>1
    <2> QED BY <2>2 DEF IsSumOf, next
  <1> HIDE DEF h
  <1> QED BY <1>9

(* A property of finite sets that goes from one size to the next.          *)
LEMMA BySize ==
    ASSUME NEW S, IsFiniteSet(S), NEW Good \in SUBSET SUBSET S, {} \in Good,
           \A s \in SUBSET S : s # {} => ((\A t \in SUBSET S : Cardinality(t) < Cardinality(s) => t \in Good) => s \in Good)
    PROVE  Good = SUBSET S
  <1> DEFINE N == {n \in Nat : \A s \in SUBSET S : Cardinality(s) <= n => s \in Good}
  <1>1. \A s \in SUBSET S : Cardinality(s) \in Nat /\ (Cardinality(s) = 0 => s = {})
    BY FS_Subset, FS_CardinalityType, FS_EmptySet
  <1>2. 0 \in N
    <2>1. ASSUME NEW s \in SUBSET S, Cardinality(s) <= 0 PROVE s \in Good
      <3>1. Cardinality(s) \in Nat
        BY <1>1
      <3>2. Cardinality(s) = 0
        BY <2>1, <3>1
      <3>3. s = {}
        BY <1>1, <3>2
      <3> QED BY <3>3
    <2> QED BY <2>1
  <1>3. ASSUME NEW n \in N PROVE n + 1 \in N
    <2>1. n \in Nat /\ n + 1 \in Nat /\ \A t \in SUBSET S : Cardinality(t) <= n => t \in Good
      OBVIOUS
    <2>2. ASSUME NEW s \in SUBSET S, Cardinality(s) <= n + 1 PROVE s \in Good
      <3>1. CASE s = {}
        BY <3>1
      <3>2. CASE s # {}
        <4>1. ASSUME NEW t \in SUBSET S, Cardinality(t) < Cardinality(s) PROVE t \in Good
          <5>1. Cardinality(t) \in Nat /\ Cardinality(s) \in Nat
            BY <1>1
          <5>2. Cardinality(t) <= n
            BY <2>1, <2>2, <4>1, <5>1
          <5> QED BY <2>1, <5>2
        <4> HIDE DEF N
        <4> QED BY <3>2, <4>1
      <3> QED BY <3>1, <3>2
    <2> QED BY <2>1, <2>2
  <1>4. N = Nat
    <2>1. N \in SUBSET Nat
      OBVIOUS
    <2> HIDE DEF N
    <2> QED BY <1>2, <1>3, <2>1, Induction
  <1>5. \A s \in SUBSET S : s \in Good
    BY <1>1, <1>4
  <1> QED BY <1>5

(* A smaller set.                                                          *)
LEMMA OneLess ==
    ASSUME NEW S, IsFiniteSet(S), NEW s \in SUBSET S, NEW x \in s
    PROVE  s \ {x} \in SUBSET S /\ Cardinality(s \ {x}) < Cardinality(s)
  <1>1. IsFiniteSet(s)
    BY FS_Subset
  <1>2. Cardinality(s \ {x}) = Cardinality(s) - 1 /\ Cardinality(s) \in Nat
    BY <1>1, FS_RemoveElement, FS_CardinalityType
  <1> QED BY <1>2

(* It is the same whichever element is taken out first.                    *)
LEMMA AdderTakes ==
    ASSUME NEW S, IsFiniteSet(S), NEW f, \A x \in S : f[x] \in Int, NEW h, IsSumOf(h, f, S)
    PROVE  /\ \A s \in SUBSET S : h[s] \in Int
           /\ \A s \in SUBSET S : \A x \in s : h[s] = f[x] + h[s \ {x}]
  <1> DEFINE Typed == {s \in SUBSET S : h[s] \in Int}
             Fair == {s \in SUBSET S : \A x \in s : h[s] = f[x] + h[s \ {x}]}
  <1>1. /\ h[{}] = 0
        /\ \A s \in SUBSET S : s # {} => \E x \in s : h[s] = f[x] + h[s \ {x}]
    BY IsSumOfAt
  <1>2. Typed = SUBSET S
    <2>1. Typed \in SUBSET SUBSET S /\ {} \in Typed
      BY <1>1
    <2>2. ASSUME NEW s \in SUBSET S, s # {}, \A t \in SUBSET S : Cardinality(t) < Cardinality(s) => t \in Typed
          PROVE  s \in Typed
      <3>1. PICK x \in s : h[s] = f[x] + h[s \ {x}]
        BY <1>1, <2>2
      <3>2. h[s \ {x}] \in Int
        BY <2>2, OneLess
      <3> QED BY <3>1, <3>2
    <2> HIDE DEF Typed
    <2> QED BY <2>1, <2>2, BySize
  <1>3. \A s \in SUBSET S : h[s] \in Int
    BY <1>2
  <1>4. Fair = SUBSET S
    <2>1. Fair \in SUBSET SUBSET S /\ {} \in Fair
      OBVIOUS
    <2>2. ASSUME NEW s \in SUBSET S, s # {}, \A t \in SUBSET S : Cardinality(t) < Cardinality(s) => t \in Fair
          PROVE  s \in Fair
      <3>1. PICK y \in s : h[s] = f[y] + h[s \ {y}]
        BY <1>1, <2>2
      <3>2. ASSUME NEW x \in s PROVE h[s] = f[x] + h[s \ {x}]
        <4>1. CASE x = y
          BY <3>1, <4>1
        <4>2. CASE x # y
          <5> DEFINE a == s \ {x}
                     b == s \ {y}
                     c == (s \ {x}) \ {y}
          <5>1. a \in Fair /\ b \in Fair /\ y \in a /\ x \in b /\ b \ {x} = c /\ a \ {y} = c
            <6>1. y \in a /\ x \in b /\ b \ {x} = c /\ a \ {y} = c
              BY <4>2
            <6> HIDE DEF Fair, c
            <6> QED BY <2>2, <6>1, OneLess
          <5>2. h[a] = f[y] + h[c] /\ h[b] = f[x] + h[c]
            <6> HIDE DEF a, b, c
            <6> QED BY <5>1
          <5>3. h[c] \in Int /\ f[x] \in Int /\ f[y] \in Int
            BY <1>3
          <5> HIDE DEF c
          <5> QED BY <3>1, <5>2, <5>3
        <4> QED BY <4>1, <4>2
      <3> QED BY <3>2
    <2> HIDE DEF Fair
    <2> QED BY <2>1, <2>2, BySize
  <1> QED BY <1>3, <1>4

(* Two of them agree where both add up the same.                           *)
LEMMA AddersAgree ==
    ASSUME NEW A, NEW B, IsFiniteSet(A), NEW f, NEW e, NEW g, NEW h,
           IsSumOf(g, f, A), IsSumOf(h, e, B), \A x \in A : x \in B => f[x] = e[x]
    PROVE  \A s \in SUBSET A : s \in SUBSET B => g[s] = h[s]
  <1> DEFINE Same == {s \in SUBSET A : s \in SUBSET B => g[s] = h[s]}
  <1>1. Same \in SUBSET SUBSET A /\ {} \in Same
    BY IsSumOfAt
  <1>2. ASSUME NEW s \in SUBSET A, s # {}, \A t \in SUBSET A : Cardinality(t) < Cardinality(s) => t \in Same
        PROVE  s \in Same
    <2> SUFFICES ASSUME s \in SUBSET B PROVE g[s] = h[s]
      OBVIOUS
    <2>1. \E x \in s : x = (CHOOSE y \in s : TRUE) /\ g[s] = f[x] + g[s \ {x}]
      BY <1>2, IsSumOfAt
    <2>2. \E x \in s : x = (CHOOSE y \in s : TRUE) /\ h[s] = e[x] + h[s \ {x}]
      BY <1>2, IsSumOfAt
    <2>3. PICK x \in s : g[s] = f[x] + g[s \ {x}] /\ h[s] = e[x] + h[s \ {x}]
      BY <2>1, <2>2
    <2>4. s \ {x} \in Same
      <3> HIDE DEF Same
      <3> QED BY <1>2, OneLess
    <2>5. g[s \ {x}] = h[s \ {x}] /\ f[x] = e[x]
      BY <2>4
    <2> QED BY <2>3, <2>5
  <1>3. Same = SUBSET A
    <2> HIDE DEF Same
    <2> QED BY <1>1, <1>2, BySize
  <1> QED BY <1>3

(* The laws of sums.                                                       *)
LEMMA Sums ==
    ASSUME NEW S, IsFiniteSet(S), NEW f, \A x \in S : f[x] \in Int
    PROVE  /\ SumOver(f, S) \in Int /\ SumOver(f, {}) = 0
           /\ \A h : IsSumOf(h, f, S) => h[S] = SumOver(f, S)
           /\ \A x \in S : SumOver(f, S) = f[x] + SumOver(f, S \ {x})
  <1>1. ASSUME NEW T \in SUBSET S PROVE \E h : IsSumOf(h, f, T) /\ SumOver(f, T) = h[T]
    <2>1. IsFiniteSet(T) /\ \A x \in T : f[x] \in Int
      BY FS_Subset
    <2>2. \E h : IsSumOf(h, f, T)
      BY <2>1, AdderExists
    <2>3. IsSumOf((CHOOSE h : IsSumOf(h, f, T)), f, T)
      BY <2>2
    <2> QED BY <2>3 DEF SumOver
  <1>2. PICK h : IsSumOf(h, f, S) /\ SumOver(f, S) = h[S]
    BY <1>1
  <1>3. \A T \in SUBSET S : SumOver(f, T) = h[T]
    <2> TAKE T \in SUBSET S
    <2>1. PICK g : IsSumOf(g, f, T) /\ SumOver(f, T) = g[T]
      BY <1>1
    <2>2. IsFiniteSet(T)
      BY FS_Subset
    <2>3. g[T] = h[T]
      BY <1>2, <2>1, <2>2, AddersAgree
    <2> QED BY <2>1, <2>3
  <1>4. /\ h[{}] = 0 /\ h[S] \in Int
        /\ \A x \in S : h[S] = f[x] + h[S \ {x}]
    BY <1>2, AdderTakes, IsSumOfAt
  <1>5. ASSUME NEW g, IsSumOf(g, f, S) PROVE g[S] = h[S]
    BY <1>2, <1>5, AddersAgree
  <1> QED BY <1>2, <1>3, <1>4, <1>5

(* Sums of the same numbers, of natural numbers, and of two sets.          *)
LEMMA SumsAlike ==
    ASSUME NEW S, IsFiniteSet(S), NEW f, NEW e, \A x \in S : f[x] \in Int /\ f[x] = e[x]
    PROVE  SumOver(f, S) = SumOver(e, S)
  <1>1. PICK g : IsSumOf(g, f, S)
    BY AdderExists
  <1>2. PICK h : IsSumOf(h, e, S)
    BY AdderExists
  <1>3. g[S] = h[S]
    <2>1. \A s \in SUBSET S : s \in SUBSET S => g[s] = h[s]
      <3>1. \A x \in S : x \in S => f[x] = e[x]
        OBVIOUS
      <3> QED BY <1>1, <1>2, <3>1, AddersAgree, Z3
    <2> QED BY <2>1
  <1>4. g[S] = SumOver(f, S)
    BY <1>1, Sums
  <1>5. h[S] = SumOver(e, S)
    BY <1>2, Sums
  <1> QED BY <1>3, <1>4, <1>5

LEMMA SumsNatural ==
    ASSUME NEW S, IsFiniteSet(S), NEW f, \A x \in S : f[x] \in Nat
    PROVE  SumOver(f, S) \in Nat
  <1> DEFINE Good == {s \in SUBSET S : SumOver(f, s) \in Nat}
  <1>1. \A s \in SUBSET S : IsFiniteSet(s) /\ \A x \in s : f[x] \in Int
    BY FS_Subset
  <1>2. {} \in Good
    <2>1. SumOver(f, {}) = 0
      BY <1>1, Sums
    <2> QED BY <2>1
  <1>3. ASSUME NEW s \in SUBSET S, s # {}, \A t \in SUBSET S : Cardinality(t) < Cardinality(s) => t \in Good
        PROVE  s \in Good
    <2>1. PICK x : x \in s
      BY <1>3
    <2>2. s \ {x} \in Good
      <3> HIDE DEF Good
      <3> QED BY <1>3, <2>1, OneLess
    <2>3. SumOver(f, s) = f[x] + SumOver(f, s \ {x}) /\ f[x] \in Nat
      BY <1>1, <2>1, Sums
    <2> QED BY <2>2, <2>3
  <1>4. Good = SUBSET S
    <2>1. Good \in SUBSET SUBSET S
      OBVIOUS
    <2> HIDE DEF Good
    <2> QED BY <1>2, <1>3, <2>1, BySize
  <1> QED BY <1>4

LEMMA SumOfTwo ==
    ASSUME NEW A, IsFiniteSet(A), NEW B, IsFiniteSet(B), A \intersect B = {},
           NEW f, \A x \in A \union B : f[x] \in Int
    PROVE  SumOver(f, A \union B) = SumOver(f, A) + SumOver(f, B)
  <1> DEFINE Good == {s \in SUBSET B : SumOver(f, A \union s) = SumOver(f, A) + SumOver(f, s)}
  <1>1. \A s \in SUBSET B : IsFiniteSet(s) /\ IsFiniteSet(A \union s)
    BY FS_Subset, FS_Union
  <1>2. SumOver(f, A) \in Int /\ SumOver(f, {}) = 0
    BY Sums
  <1>3. {} \in Good
    <2>1. A \union {} = A
      OBVIOUS
    <2>2. SumOver(f, A \union {}) = SumOver(f, A) + SumOver(f, {})
      BY <1>2, <2>1
    <2> QED BY <2>2
  <1>4. ASSUME NEW s \in SUBSET B, s # {}, \A t \in SUBSET B : Cardinality(t) < Cardinality(s) => t \in Good
        PROVE  s \in Good
    <2>1. PICK x : x \in s
      BY <1>4
    <2>2. s \ {x} \in Good /\ s \ {x} \in SUBSET B
      <3> HIDE DEF Good
      <3> QED BY <1>4, <2>1, OneLess
    <2> DEFINE t == s \ {x}
    <2>3. SumOver(f, A \union t) = SumOver(f, A) + SumOver(f, t)
      BY <2>2
    <2>4. SumOver(f, s) = f[x] + SumOver(f, t) /\ f[x] \in Int /\ SumOver(f, t) \in Int
      BY <1>1, <2>1, <2>2, Sums
    <2>5. SumOver(f, A \union s) = f[x] + SumOver(f, A \union t)
      <3>1. (A \union s) \ {x} = A \union t /\ x \in A \union s
        BY <2>1
      <3>2. IsFiniteSet(A \union s) /\ \A y \in A \union s : f[y] \in Int
        BY <1>1
      <3> HIDE DEF t
      <3> QED BY <3>1, <3>2, Sums
    <2> HIDE DEF t
    <2>6. SumOver(f, A \union s) = SumOver(f, A) + SumOver(f, s)
      BY <1>2, <2>3, <2>4, <2>5
    <2> QED BY <2>6
  <1>5. Good = SUBSET B
    <2>1. Good \in SUBSET SUBSET B
      OBVIOUS
    <2> HIDE DEF Good
    <2> QED BY <1>3, <1>4, <2>1, BySize
  <1> QED BY <1>5

(* A part of a set, and its parts up to one.                               *)
PartAt(S, part, k) == {x \in S : part[x] = k}
PartsTo(S, part, k) == {x \in S : part[x] \in 1 .. k}

(* What is summed up part by part is the sum.                              *)
LEMMA SumByParts ==
    ASSUME NEW S, IsFiniteSet(S), NEW f, \A x \in S : f[x] \in Int, NEW part, NEW n \in Nat,
           NEW e, \A k \in 1 .. n : e[k] = SumOver(f, PartAt(S, part, k))
    PROVE  SumOver(e, 1 .. n) = SumOver(f, PartsTo(S, part, n))
  <1> DEFINE at(k) == PartAt(S, part, k)
             upTo(k) == PartsTo(S, part, k)
             Right(k) == SumOver(e, 1 .. k) = SumOver(f, upTo(k))
             N == {k \in Nat : k <= n => Right(k)}
  <1>1. \A k \in Nat : IsFiniteSet(at(k)) /\ IsFiniteSet(upTo(k)) /\ at(k) \subseteq S /\ upTo(k) \subseteq S
    <2> TAKE k \in Nat
    <2>1. at(k) \in SUBSET S /\ upTo(k) \in SUBSET S
      BY DEF PartAt, PartsTo
    <2> HIDE DEF at, upTo
    <2> QED BY <2>1, FS_Subset
  <1>2. \A k \in 1 .. n : e[k] \in Int
    <2> TAKE k \in 1 .. n
    <2>1. IsFiniteSet(at(k)) /\ \A x \in at(k) : f[x] \in Int
      <3>1. k \in Nat
        OBVIOUS
      <3> HIDE DEF at
      <3> QED BY <1>1, <3>1
    <2>2. e[k] = SumOver(f, at(k))
      OBVIOUS
    <2> HIDE DEF at
    <2> QED BY <2>1, <2>2, Sums
  <1>3. 0 \in N
    <2>1. 1 .. 0 = {} /\ upTo(0) = {}
      BY DEF PartsTo
    <2>2. SumOver(e, {}) = 0 /\ SumOver(f, {}) = 0
      BY Sums, FS_EmptySet
    <2> QED BY <2>1, <2>2
  <1>4. ASSUME NEW k \in N PROVE k + 1 \in N
    <2>0. k \in Nat /\ k + 1 \in Nat /\ (k <= n => Right(k))
      <3> HIDE DEF Right
      <3> QED BY <1>4
    <2> SUFFICES ASSUME k + 1 <= n PROVE Right(k + 1)
      <3> HIDE DEF Right
      <3> QED BY <2>0
    <2>1. k \in Nat /\ k + 1 \in 1 .. n /\ SumOver(e, 1 .. k) = SumOver(f, upTo(k))
      BY <2>0
    <2>2. SumOver(e, 1 .. k + 1) = e[k + 1] + SumOver(e, 1 .. k)
      <3>1. IsFiniteSet(1 .. k + 1) /\ k + 1 \in 1 .. k + 1 /\ (1 .. k + 1) \ {k + 1} = 1 .. k
        BY <2>1, FS_Interval
      <3>2. \A j \in 1 .. k + 1 : e[j] \in Int
        BY <1>2, <2>1
      <3> QED BY <3>1, <3>2, Sums
    <2>3. upTo(k + 1) = upTo(k) \union at(k + 1) /\ upTo(k) \intersect at(k + 1) = {}
      <3>1. \A j : j \in 1 .. k + 1 <=> j \in 1 .. k \/ j = k + 1
        BY <2>1
      <3>2. k + 1 \notin 1 .. k
        BY <2>1
      <3> QED BY <3>1, <3>2 DEF PartAt, PartsTo
    <2>4. SumOver(f, upTo(k + 1)) = SumOver(f, upTo(k)) + SumOver(f, at(k + 1))
      <3>1. IsFiniteSet(at(k + 1)) /\ IsFiniteSet(upTo(k)) /\ \A x \in upTo(k) \union at(k + 1) : f[x] \in Int
        <4>1. k + 1 \in Nat /\ k \in Nat
          BY <2>1
        <4> HIDE DEF at, upTo
        <4> QED BY <1>1, <4>1
      <3> HIDE DEF at, upTo
      <3> QED BY <2>3, <3>1, SumOfTwo
    <2>5. e[k + 1] = SumOver(f, at(k + 1)) /\ e[k + 1] \in Int
      BY <1>2, <2>1
    <2>6. SumOver(f, upTo(k)) \in Int
      <3>1. IsFiniteSet(upTo(k)) /\ \A x \in upTo(k) : f[x] \in Int
        BY <1>1, <2>1
      <3> HIDE DEF upTo
      <3> QED BY <3>1, Sums
    <2> HIDE DEF at, upTo
    <2> QED BY <2>1, <2>2, <2>4, <2>5, <2>6
  <1>5. N = Nat
    <2>1. N \in SUBSET Nat
      OBVIOUS
    <2> HIDE DEF N
    <2> QED BY <1>3, <1>4, <2>1, Induction
  <1>6. SumOver(e, 1 .. n) = SumOver(f, upTo(n))
    <2> HIDE DEF Right
    <2>1. n \in N /\ n <= n
      BY <1>5
    <2>2. Right(n)
      BY <2>1
    <2> QED BY <2>2 DEF Right
  <1> QED BY <1>6
=============================================================================
