---------------------------- MODULE NaturalFacts ----------------------------
(***************************************************************************)
(* Facts about sets of naturals that several proofs lean on.  Induction is   *)
(* stated over a set of naturals, recursion over a table of steps: in these  *)
(* forms the provers can use them, as for the sieve of a sequence.           *)
(***************************************************************************)
EXTENDS Integers, FiniteSets, Sieve, FunctionTheorems, FiniteSetTheorems, SequenceTheorems,
        WellFoundedInduction, TLAPS

LEMMA LeastNatural ==
    ASSUME NEW T \in SUBSET Nat, T # {}
    PROVE  \E d \in T : \A e \in T : d <= e
  <1> DEFINE R == OpToRel(<, Nat)
  <1>1. IsWellFoundedOn(R, Nat)
    BY NatLessThanWellFounded
  <1>2. \A x, y \in Nat : y < x => <<y, x>> \in R
    BY DEF OpToRel
  <1> HIDE DEF R
  <1>3. PICK d \in T : \A e \in T : ~ (<<e, d>> \in R)
    BY <1>1, WFMin
  <1>4. ASSUME NEW e \in T PROVE d <= e
    <2>1. d \in Nat /\ e \in Nat
      OBVIOUS
    <2>2. ~ (e < d)
      BY <1>2, <1>3, <2>1
    <2> QED BY <2>1, <2>2
  <1> QED BY <1>4

\* What holds of 0 and goes over from n to n + 1 holds of all n.
LEMMA SetInduction ==
    ASSUME NEW T \in SUBSET Nat, 0 \in T, \A n \in T : n + 1 \in T
    PROVE  T = Nat
  <1> SUFFICES ASSUME T # Nat PROVE FALSE
    OBVIOUS
  <1>1. Nat \ T \in SUBSET Nat /\ Nat \ T # {}
    OBVIOUS
  <1>2. PICK d \in Nat \ T : \A e \in Nat \ T : d <= e
    BY <1>1, LeastNatural
  <1>3. d # 0 /\ d - 1 \in Nat
    BY <1>2
  <1>4. d - 1 \in T
    BY <1>2, <1>3
  <1>5. (d - 1) + 1 \in T /\ (d - 1) + 1 = d
    BY <1>3, <1>4
  <1> QED BY <1>2, <1>5

HasGreatest(T) == \E x \in T : \A y \in T : y <= x

\* The elements up to n of a set of naturals have a greatest one.
LEMMA GreatestUpTo ==
    ASSUME NEW S \in SUBSET Nat, NEW n \in Nat, S # {}, \A x \in S : x <= n
    PROVE  HasGreatest(S)
  <1> DEFINE Bounds == {b \in Nat : \A x \in S : x <= b}
  <1>1. Bounds \in SUBSET Nat /\ n \in Bounds
    OBVIOUS
  <1>2. PICK m \in Bounds : \A b \in Bounds : m <= b
    <2> HIDE DEF Bounds
    <2> QED BY <1>1, LeastNatural
  <1>3. m \in Nat /\ \A x \in S : x <= m
    BY <1>2
  <1>4. m \in S
    <2> SUFFICES ASSUME m \notin S PROVE FALSE
      OBVIOUS
    <2>1. \A x \in S : x \in Nat /\ x <= m - 1
      BY <1>3
    <2>2. PICK x \in S : TRUE
      OBVIOUS
    <2>3. m - 1 \in Nat
      BY <2>1, <2>2, <1>3
    <2>4. m - 1 \in Bounds
      BY <2>1, <2>3
    <2> QED BY <2>4, <1>2, <1>3
  <1> QED BY <1>3, <1>4 DEF HasGreatest

\* A finite set of naturals without a greatest element would leave a smaller
\* one when an element is taken out.
LEMMA GreatestNatural ==
    ASSUME NEW S \in SUBSET Nat, IsFiniteSet(S), S # {}
    PROVE  HasGreatest(S)
  <1> DEFINE Bad == {n \in Nat : \E T \in SUBSET S : T # {} /\ Cardinality(T) = n /\ ~ HasGreatest(T)}
  <1>1. SUFFICES ASSUME ~ HasGreatest(S) PROVE FALSE
    OBVIOUS
  <1>2. Cardinality(S) \in Bad
    BY <1>1, FS_CardinalityType
  <1>3. PICK n \in Bad : \A m \in Bad : n <= m
    BY <1>2, LeastNatural
  <1>4. PICK T \in SUBSET S : T # {} /\ Cardinality(T) = n /\ ~ HasGreatest(T)
    BY <1>3
  <1>5. PICK x \in T : TRUE
    BY <1>4
  <1> DEFINE U == T \ {x}
  <1>6. IsFiniteSet(T)
    BY FS_Subset
  <1>7. Cardinality(U) = n - 1 /\ Cardinality(U) \in Nat /\ n \in Nat
    <2>1. IsFiniteSet(U) /\ Cardinality(U) = Cardinality(T) - 1
      BY <1>5, <1>6, FS_RemoveElement
    <2> QED BY <1>3, <1>4, <2>1, FS_CardinalityType
  <1>8. U \in SUBSET S /\ U \in SUBSET Nat
    OBVIOUS
  <1>9. CASE U = {}
    <2>1. T = {x}
      BY <1>5, <1>9
    <2>2. x \in Nat
      OBVIOUS
    <2>3. x <= x
      BY <2>2
    <2> QED BY <1>4, <2>1, <2>3 DEF HasGreatest
  <1>10. CASE U # {}
    <2>1. HasGreatest(U)
      <3>1. SUFFICES ASSUME ~ HasGreatest(U) PROVE FALSE
        OBVIOUS
      <3>2. n - 1 \in Bad
        BY <1>7, <1>8, <1>10, <3>1
      <3>3. n <= n - 1
        BY <1>3, <3>2
      <3> QED BY <1>7, <3>3
    <2>2. PICK z \in U : \A y \in U : y <= z
      BY <2>1 DEF HasGreatest
    <2>3. x \in Nat /\ z \in Nat /\ \A y \in U : y \in Nat
      BY <1>8
    <2>4. CASE x <= z
      <3>1. \A y \in T : y <= z
        BY <2>2, <2>4
      <3> QED BY <1>4, <2>2, <3>1 DEF HasGreatest
    <2>5. CASE z <= x
      <3>1. \A y \in T : y <= x
        BY <2>2, <2>3, <2>5
      <3> QED BY <1>4, <1>5, <3>1 DEF HasGreatest
    <2> QED BY <2>3, <2>4, <2>5
  <1> QED BY <1>9, <1>10

\* Counting the members of a set of naturals from below.
LEMMA CountStep ==
    ASSUME NEW S \in SUBSET Nat, NEW n \in Nat
    PROVE  LET upTo == {k \in S : k <= n}
               further == {k \in S : k <= n + 1}
           IN  /\ IsFiniteSet(upTo) /\ Cardinality(upTo) \in Nat
               /\ n + 1 \in S => Cardinality(further) = Cardinality(upTo) + 1
               /\ n + 1 \notin S => further = upTo
  <1> DEFINE upTo == {k \in S : k <= n}
             further == {k \in S : k <= n + 1}
  <1>0. upTo \in SUBSET Nat /\ \A k \in upTo : k <= n
    OBVIOUS
  <1>1. IsFiniteSet(upTo) /\ Cardinality(upTo) \in Nat
    <2> HIDE DEF upTo
    <2> QED BY <1>0, FS_BoundedSetOfNaturals, FS_CardinalityType
  <1>2. n + 1 \notin upTo
    OBVIOUS
  <1>3. ASSUME n + 1 \in S PROVE Cardinality(further) = Cardinality(upTo) + 1
    <2>0. \A k \in S : k <= n + 1 <=> (k <= n \/ k = n + 1)
      OBVIOUS
    <2>1. further = upTo \cup {n + 1}
      BY <1>3, <2>0
    <2> HIDE DEF upTo, further
    <2> QED BY <2>1, <1>1, <1>2, FS_AddElement
  <1>4. ASSUME n + 1 \notin S PROVE further = upTo
    <2>1. \A k \in S : k <= n + 1 <=> k <= n
      BY <1>4
    <2> QED BY <2>1
  <1> QED BY <1>1, <1>3, <1>4

\* Two members of one set of naturals do not have the same rank.
LEMMA RankApart ==
    ASSUME NEW S \in SUBSET Nat, NEW k \in S, NEW l \in S, k < l
    PROVE  Cardinality({m \in S : m <= k}) # Cardinality({m \in S : m <= l})
  <1> DEFINE low == {m \in S : m <= k}
             high == {m \in S : m <= l}
  <1>0. high \in SUBSET Nat /\ (\A m \in high : m <= l) /\ l \in Nat
    OBVIOUS
  <1>1. IsFiniteSet(high)
    <2> HIDE DEF high
    <2> QED BY <1>0, FS_BoundedSetOfNaturals
  <1>2. low \in SUBSET high /\ l \in high /\ l \notin low
    <2>1. \A m \in S : m <= k => m <= l
      OBVIOUS
    <2>2. l <= l /\ ~ (l <= k)
      OBVIOUS
    <2> QED BY <2>1, <2>2
  <1> HIDE DEF low, high
  <1>3. Cardinality(high) # Cardinality(low)
    BY <1>1, <1>2, FS_Subset
  <1> QED BY <1>3 DEF low, high

\* Every rank up to the number of its members is one of theirs.
LEMMA RankOnto ==
    ASSUME NEW S \in SUBSET Nat, IsFiniteSet(S), NEW i \in 1..Cardinality(S)
    PROVE  \E k \in S : Cardinality({m \in S : m <= k}) = i
  <1> DEFINE N == Cardinality(S)
             rank == [k \in S |-> Cardinality({m \in S : m <= k})]
  <1>1. N \in Nat
    BY FS_CardinalityType
  <1>2. ASSUME NEW k \in S PROVE rank[k] \in 1..N
    <2> DEFINE low == {m \in S : m <= k}
    <2>1. k \in Nat
      OBVIOUS
    <2>0. low \in SUBSET S /\ k \in low
      BY <2>1
    <2> HIDE DEF low
    <2>2. IsFiniteSet(low) /\ Cardinality(low) <= N
      BY <2>0, FS_Subset
    <2>3. Cardinality(low) \in Nat /\ Cardinality(low) # 0
      BY <2>0, <2>2, FS_CardinalityType, FS_EmptySet
    <2> QED BY <2>2, <2>3, <1>1 DEF low
  <1>3. ASSUME NEW k \in S, NEW l \in S, rank[k] = rank[l] PROVE k = l
    <2>1. ~ (k < l) /\ ~ (l < k)
      BY <1>3, RankApart
    <2> QED BY <2>1
  <1>4. rank \in Injection(S, 1..N)
    <2> HIDE DEF rank
    <2>1. rank \in [S -> 1..N]
      BY <1>2 DEF rank
    <2>2. IsInjective(rank)
      BY <2>1, <1>3 DEF IsInjective
    <2> QED BY <2>1, <2>2 DEF Injection
  <1>5. IsFiniteSet(1..N) /\ Cardinality(1..N) = N
    BY <1>1, FS_Interval
  <1>6. rank \in Surjection(S, 1..N)
    <2> HIDE DEF rank
    <2> QED BY <1>4, <1>5, FS_Injection
  <1>7. \E k \in S : rank[k] = i
    <2> HIDE DEF rank
    <2> QED BY <1>6 DEF Surjection
  <1> QED BY <1>7

\* The values of a function on a finite set are finitely many.
LEMMA FiniteImage ==
    ASSUME NEW S, IsFiniteSet(S), NEW f, DOMAIN f = S, f = [x \in S |-> f[x]]
    PROVE  IsFiniteSet({f[x] : x \in S})
  <1> DEFINE T == {f[x] : x \in S}
  <1>1. f \in Surjection(S, T)
    BY DEF Surjection
  <1> HIDE DEF T
  <1>2. IsFiniteSet(T)
    BY <1>1, FS_Surjection
  <1> QED BY <1>2 DEF T

\* f is a run of a table of steps: it begins at `start` and takes one step after
\* the other.
IsRun(f, N, V, start, step) ==
    /\ f \in [0..N -> V]
    /\ f[0] = start
    /\ \A i \in 1..N : f[i] = step[i][f[i - 1]]

HasRun(N, V, start, step) == \E f : IsRun(f, N, V, start, step)

LEMMA RunExists ==
    ASSUME NEW N \in Nat, NEW V, NEW start \in V, NEW step \in [1..N -> [V -> V]]
    PROVE  HasRun(N, V, start, step)
  <1> DEFINE Runs(n, f) == /\ f[0] = start
                           /\ \A i \in 1..n : f[i] = step[i][f[i - 1]]
             T == {n \in Nat : n <= N => \E f \in [0..n -> V] : Runs(n, f)}
  <1>1. 0 \in T
    <2>1. [i \in 0..0 |-> start] \in [0..0 -> V] /\ Runs(0, [i \in 0..0 |-> start])
      OBVIOUS
    <2> QED BY <2>1
  <1>2. ASSUME NEW n \in T PROVE n + 1 \in T
    <2> SUFFICES ASSUME n + 1 <= N PROVE \E f \in [0..(n + 1) -> V] : Runs(n + 1, f)
      OBVIOUS
    <2>1. PICK f \in [0..n -> V] : Runs(n, f)
      OBVIOUS
    <2>2. f[n] \in V /\ n + 1 \in 1..N /\ n \in Nat
      BY <2>1
    <2> DEFINE g == [i \in 0..(n + 1) |-> IF i <= n THEN f[i] ELSE step[n + 1][f[n]]]
    <2>3. step[n + 1][f[n]] \in V
      BY <2>2
    <2>4. g \in [0..(n + 1) -> V]
      BY <2>2, <2>3
    <2>5. g[0] = start /\ g[n + 1] = step[n + 1][g[n]]
      <3>1. 0 \in 0..(n + 1) /\ 0 <= n /\ n \in 0..(n + 1) /\ n <= n
            /\ n + 1 \in 0..(n + 1) /\ ~(n + 1 <= n)
        BY <2>2
      <3>2. g[0] = f[0] /\ g[n] = f[n] /\ g[n + 1] = step[n + 1][f[n]]
        BY <3>1
      <3> QED BY <2>1, <3>2
    <2>6. \A i \in 1..n : g[i] = step[i][g[i - 1]]
      BY <2>1, <2>2
    <2>7. \A i \in 1..(n + 1) : i \in 1..n \/ i = n + 1
      BY <2>2
    <2>8. Runs(n + 1, g)
      <3> HIDE DEF g
      <3>1. \A i \in 1..(n + 1) : g[i] = step[i][g[i - 1]]
        <4> TAKE i \in 1..(n + 1)
        <4>1. CASE i \in 1..n BY <4>1, <2>6
        <4>2. CASE i = n + 1
          <5>1. i - 1 = n
            BY <4>2, <2>2
          <5> QED BY <5>1, <4>2, <2>5
        <4> QED BY <4>1, <4>2, <2>7
      <3> QED BY <3>1, <2>5
    <2> HIDE DEF g
    <2> QED BY <2>4, <2>8
  <1>3. T = Nat
    <2> HIDE DEF T
    <2>1. T \in SUBSET Nat
      BY DEF T
    <2> QED BY <1>1, <1>2, <2>1, SetInduction
  <1>4. PICK f \in [0..N -> V] : Runs(N, f)
    <2>1. N \in T
      BY <1>3
    <2> QED BY <2>1
  <1> QED BY <1>4 DEF HasRun, IsRun

-----------------------------------------------------------------------------
(* Sequences without a value *)

\* The prefixes that Without goes through.
Thinning(kept, q, x, D) ==
    /\ kept \in [0..Len(q) -> Seq(D \ {x})]
    /\ Without(q, x) = kept[Len(q)]
    /\ kept[0] = <<>>
    /\ \A n \in 1..Len(q) :
           kept[n] = IF q[n] = x THEN kept[n - 1] ELSE Append(kept[n - 1], q[n])

HasThinning(q, x, D) == \E kept : Thinning(kept, q, x, D)

LEMMA WithoutThins ==
    ASSUME NEW D, NEW q \in Seq(D), NEW x
    PROVE  HasThinning(q, x, D)
  <1> DEFINE Rec(f) == [n \in 0..Len(q) |->
                          IF n = 0 THEN <<>>
                          ELSE IF q[n] = x THEN f[n - 1] ELSE Append(f[n - 1], q[n])]
             kept == CHOOSE f : f = Rec(f)
             V == Seq(D \ {x})
             step == [n \in 1..Len(q) |-> [p \in V |->
                        IF q[n] = x THEN p ELSE Append(p, q[n])]]
  <1>1. Without(q, x) = kept[Len(q)]
    BY DEF Without
  <1>2. step \in [1..Len(q) -> [V -> V]] /\ <<>> \in V /\ Len(q) \in Nat
    <2>1. Len(q) \in Nat /\ \A n \in 1..Len(q) : q[n] \in D
      OBVIOUS
    <2>2. \A n \in 1..Len(q) : \A p \in V :
             (IF q[n] = x THEN p ELSE Append(p, q[n])) \in V
      <3> SUFFICES ASSUME NEW n \in 1..Len(q), NEW p \in V, q[n] # x
                   PROVE  Append(p, q[n]) \in V
        OBVIOUS
      <3>1. q[n] \in D \ {x}
        BY <2>1
      <3> QED BY <3>1, AppendProperties
    <2>3. <<>> \in V
      OBVIOUS
    <2> HIDE DEF V
    <2> QED BY <2>1, <2>2, <2>3
  <1>3. PICK f : /\ f \in [0..Len(q) -> V]
                 /\ f[0] = <<>> /\ \A i \in 1..Len(q) : f[i] = step[i][f[i - 1]]
    <2> HIDE DEF V, step
    <2>1. HasRun(Len(q), V, <<>>, step)
      BY <1>2, RunExists
    <2> QED BY <2>1 DEF HasRun, IsRun
  <1>4. \A n \in 1..Len(q) :
            f[n] = IF q[n] = x THEN f[n - 1] ELSE Append(f[n - 1], q[n])
    <2> SUFFICES ASSUME NEW n \in 1..Len(q)
                 PROVE  f[n] = IF q[n] = x THEN f[n - 1] ELSE Append(f[n - 1], q[n])
      OBVIOUS
    <2>1. n - 1 \in 0..Len(q)
      BY <1>2
    <2>2. f[n - 1] \in V
      <3> HIDE DEF V
      <3> QED BY <2>1, <1>3
    <2> HIDE DEF V
    <2> QED BY <2>2, <1>3
  <1>5. f = Rec(f)
    <2> HIDE DEF V, step
    <2>1. f = [n \in 0..Len(q) |-> f[n]]
      BY <1>3
    <2>2. \A n \in 0..Len(q) : n # 0 => n \in 1..Len(q)
      BY <1>2
    <2> QED BY <1>3, <1>4, <2>1, <2>2
  <1>6. kept = Rec(kept)
    <2> HIDE DEF Rec
    <2> QED BY <1>5
  <1>7. \A n \in 0..Len(q) : kept[n] = f[n]
    <2> DEFINE T == {n \in Nat : n <= Len(q) => kept[n] = f[n]}
    <2>0. \A n \in 0..Len(q) : kept[n] =
              IF n = 0 THEN <<>>
              ELSE IF q[n] = x THEN kept[n - 1] ELSE Append(kept[n - 1], q[n])
      <3> HIDE DEF kept
      <3> QED BY <1>6
    <2> HIDE DEF kept, Rec, V, step
    <2>1. 0 \in T
      BY <2>0, <1>3, <1>2
    <2>2. ASSUME NEW n \in T PROVE n + 1 \in T
      <3> SUFFICES ASSUME n + 1 <= Len(q) PROVE kept[n + 1] = f[n + 1]
        OBVIOUS
      <3>1. n + 1 \in 1..Len(q) /\ n + 1 \in 0..Len(q) /\ n + 1 # 0
            /\ (n + 1) - 1 = n /\ kept[n] = f[n]
        BY <1>2
      <3>2. kept[n + 1] = IF q[n + 1] = x THEN kept[n] ELSE Append(kept[n], q[n + 1])
        BY <2>0, <3>1
      <3>3. f[n + 1] = IF q[n + 1] = x THEN f[n] ELSE Append(f[n], q[n + 1])
        BY <1>4, <3>1
      <3> QED BY <3>1, <3>2, <3>3
    <2>3. T = Nat
      <3> HIDE DEF T
      <3>1. T \in SUBSET Nat
        BY DEF T
      <3> QED BY <2>1, <2>2, <3>1, SetInduction
    <2> SUFFICES ASSUME NEW n \in 0..Len(q) PROVE kept[n] = f[n]
      OBVIOUS
    <2>4. n \in Nat /\ n <= Len(q)
      BY <1>2
    <2>5. n \in T
      BY <2>3, <2>4
    <2> QED BY <2>4, <2>5
  <1>8. Without(q, x) = f[Len(q)]
    <2> HIDE DEF kept
    <2> QED BY <1>1, <1>2, <1>7
  <1>9. Thinning(f, q, x, D)
    <2> HIDE DEF step, kept, Rec
    <2> QED BY <1>3, <1>4, <1>8 DEF Thinning
  <1> QED BY <1>9 DEF HasThinning

LEMMA WithoutType ==
    ASSUME NEW D, NEW q \in Seq(D), NEW x
    PROVE  Without(q, x) \in Seq(D \ {x})
  <1>1. PICK kept : Thinning(kept, q, x, D)
    BY WithoutThins DEF HasThinning
  <1>2. Len(q) \in 0..Len(q)
    OBVIOUS
  <1> QED BY <1>1, <1>2 DEF Thinning
=============================================================================
