---------------------------------- MODULE Sums ----------------------------------
(***************************************************************************)
(* What the proofs know of a finite sum.  The folds of the community       *)
(* modules choose a function that satisfies their recursion; here it is    *)
(* shown that there is exactly one, that the sum does not depend on the    *)
(* element that is taken first, and what follows.  Induction over finite   *)
(* sets takes the form "a family of subsets of a finite set has a smallest *)
(* member": there is no smallest counterexample.                           *)
(***************************************************************************)
EXTENDS Integers, FiniteSets, FiniteSetTheorems, WellFoundedInduction, TLAPS

\* The element that a fold takes next.
OneOf(s) == CHOOSE x \in s : TRUE

\* h adds up q over every subset of S, one element after the other.
Adds(q, S, h) ==
  h = [s \in SUBSET S |-> IF s = {} THEN 0 ELSE q[OneOf(s)] + h[s \ {OneOf(s)}]]

\* The one such function, and what it makes of S itself.
TheSums(q, S) == CHOOSE h : Adds(q, S, h)
SumOf(q, S) == TheSums(q, S)[S]

\* A family of subsets of a finite set has a smallest member.
LEMMA Smallest ==
  ASSUME NEW S, IsFiniteSet(S), NEW T, T \subseteq SUBSET S, T # {}
  PROVE  \E s \in T : \A t \in T : t \subseteq s => t = s
<1>1. T \subseteq FiniteSubsetsOf(S)
  BY FS_Subset DEF FiniteSubsetsOf
<1>2. IsWellFoundedOn(StrictSubsetOrdering(S), FiniteSubsetsOf(S))
  BY FS_StrictSubsetOrderingWellFounded
<1>3. \E s \in T : \A t \in T : ~(<<t, s>> \in StrictSubsetOrdering(S))
  BY <1>1, <1>2, WFMin
<1>4. ASSUME NEW s \in T, NEW t \in T, t \subseteq s, t # s
      PROVE  <<t, s>> \in StrictSubsetOrdering(S)
  BY <1>4 DEF StrictSubsetOrdering
<1> QED
  BY <1>3, <1>4

\* The element taken is a member, so that what is left is smaller.
LEMMA OneIn == ASSUME NEW s, s # {} PROVE OneOf(s) \in s /\ s \ {OneOf(s)} # s
BY DEF OneOf

\* There is one way to add q up over the subsets of a finite set.
LEMMA AddsOnce ==
  ASSUME NEW q, NEW S, IsFiniteSet(S), NEW g, NEW h, Adds(q, S, g), Adds(q, S, h)
  PROVE  g = h
<1> DEFINE T == {s \in SUBSET S : g[s] # h[s]}
<1>1. ASSUME T # {} PROVE FALSE
  <2>1. PICK s \in T : \A t \in T : t \subseteq s => t = s
    <3>1. T \subseteq SUBSET S
      OBVIOUS
    <3> HIDE DEF T
    <3> QED
      BY <1>1, <3>1, Smallest
  <2>2. /\ g[s] = IF s = {} THEN 0 ELSE q[OneOf(s)] + g[s \ {OneOf(s)}]
        /\ h[s] = IF s = {} THEN 0 ELSE q[OneOf(s)] + h[s \ {OneOf(s)}]
    BY <2>1 DEF Adds
  <2>3. s # {}
    BY <2>1, <2>2
  <2>4. s \ {OneOf(s)} \in SUBSET S /\ s \ {OneOf(s)} \notin T
    BY <2>1, <2>3, OneIn
  <2> QED
    BY <2>1, <2>2, <2>3, <2>4
<1>2. g = [s \in SUBSET S |-> g[s]] /\ h = [s \in SUBSET S |-> h[s]]
  BY DEF Adds
<1> QED
  BY <1>1, <1>2

\* What adds up over the subsets of S does so over those of a part of it.
LEMMA AddsPart ==
  ASSUME NEW q, NEW S, NEW R \in SUBSET S, NEW h, Adds(q, S, h),
         NEW g, g = [s \in SUBSET R |-> h[s]]
  PROVE  Adds(q, R, g)
<1>1. ASSUME NEW s \in SUBSET R
      PROVE  h[s] = IF s = {} THEN 0 ELSE q[OneOf(s)] + g[s \ {OneOf(s)}]
  BY DEF Adds
<1>2. g = [s \in SUBSET R |-> IF s = {} THEN 0 ELSE q[OneOf(s)] + g[s \ {OneOf(s)}]]
  BY <1>1
<1> QED
  BY <1>2 DEF Adds

\* There is a way to add q up over the subsets of a finite set.
LEMMA AddsExists ==
  ASSUME NEW q, NEW S, IsFiniteSet(S)
  PROVE  \E h : Adds(q, S, h)
<1> DEFINE T == {R \in SUBSET S : ~ \E h : Adds(q, R, h)}
           G(r) == TheSums(q, r)
<1>1. ASSUME T # {} PROVE FALSE
  <2>1. PICK R \in T : \A t \in T : t \subseteq R => t = R
    <3>1. T \subseteq SUBSET S
      OBVIOUS
    <3> HIDE DEF T
    <3> QED
      BY <1>1, <3>1, Smallest
  <2>2. ASSUME NEW r \in SUBSET R, r # R
        PROVE  Adds(q, r, G(r)) /\ IsFiniteSet(r)
    <3>1. \E h : Adds(q, r, h)
      BY <2>1, <2>2
    <3>2. r \in SUBSET S
      BY <2>1
    <3> QED
      BY <3>1, <3>2, FS_Subset DEF TheSums
  <2> DEFINE h == [s \in SUBSET R |->
                    IF s = {} THEN 0 ELSE q[OneOf(s)] + G(s \ {OneOf(s)})[s \ {OneOf(s)}]]
  <2>3. ASSUME NEW r \in SUBSET R, r # R
        PROVE  h[r] = G(r)[r]
    <3>1. G(r)[r] = IF r = {} THEN 0 ELSE q[OneOf(r)] + G(r)[r \ {OneOf(r)}]
      BY <2>2, <2>3 DEF Adds
    <3>2. ASSUME r # {}
          PROVE  G(r)[r \ {OneOf(r)}] = G(r \ {OneOf(r)})[r \ {OneOf(r)}]
      <4> DEFINE u == r \ {OneOf(r)}
      <4>1. u \in SUBSET r /\ u # R /\ u \in SUBSET R
        BY <2>3, <3>2, OneIn
      <4> DEFINE part == [s \in SUBSET u |-> G(r)[s]]
      <4>2. Adds(q, u, part)
        <5>1. Adds(q, r, G(r)) /\ part = [s \in SUBSET u |-> G(r)[s]]
          BY <2>2, <2>3
        <5> HIDE DEF u, G, part
        <5> QED
          BY <4>1, <5>1, AddsPart
      <4>3. Adds(q, u, G(u)) /\ IsFiniteSet(u)
        BY <2>2, <4>1
      <4>4. G(u) = part
        BY <4>2, <4>3, AddsOnce
      <4> QED
        BY <4>4
    <3> QED
      BY <3>1, <3>2
  <2>4. ASSUME NEW s \in SUBSET R, s # {}
        PROVE  h[s \ {OneOf(s)}] = G(s \ {OneOf(s)})[s \ {OneOf(s)}]
    BY <2>3, <2>4, OneIn
  <2>5. h = [s \in SUBSET R |-> IF s = {} THEN 0 ELSE q[OneOf(s)] + h[s \ {OneOf(s)}]]
    BY <2>4
  <2> QED
    BY <2>1, <2>5 DEF Adds
<1> QED
  BY <1>1

\* The sum is the element that is taken first and the sum of what is left.
LEMMA SumStep ==
  ASSUME NEW q, NEW S, IsFiniteSet(S)
  PROVE  SumOf(q, S) = IF S = {} THEN 0 ELSE q[OneOf(S)] + SumOf(q, S \ {OneOf(S)})
<1> DEFINE h == TheSums(q, S)
           R == S \ {OneOf(S)}
           g == TheSums(q, R)
<1>1. Adds(q, S, h)
  BY AddsExists DEF TheSums
<1>2. h[S] = IF S = {} THEN 0 ELSE q[OneOf(S)] + h[R]
  BY <1>1 DEF Adds
<1>3. IsFiniteSet(R)
  BY FS_Subset
<1>4. Adds(q, R, g)
  BY <1>3, AddsExists DEF TheSums
<1> DEFINE part == [s \in SUBSET R |-> h[s]]
<1>5. Adds(q, R, part)
  <2>1. R \in SUBSET S /\ part = [s \in SUBSET R |-> h[s]]
    OBVIOUS
  <2> HIDE DEF R, h, part
  <2> QED
    BY <1>1, <2>1, AddsPart
<1>6. g[R] = h[R]
  <2>1. g = part
    BY <1>3, <1>4, <1>5, AddsOnce
  <2> QED
    BY <2>1
<1> QED
  BY <1>2, <1>6 DEF SumOf

\* A sum of integers is an integer.
LEMMA SumType ==
  ASSUME NEW q, NEW S, IsFiniteSet(S), \A x \in S : q[x] \in Int
  PROVE  SumOf(q, S) \in Int
<1> DEFINE T == {R \in SUBSET S : SumOf(q, R) \notin Int}
<1>1. ASSUME T # {} PROVE FALSE
  <2>1. PICK R \in T : \A t \in T : t \subseteq R => t = R
    <3>1. T \subseteq SUBSET S
      OBVIOUS
    <3> HIDE DEF T
    <3> QED
      BY <1>1, <3>1, Smallest
  <2>2. SumOf(q, R) = IF R = {} THEN 0 ELSE q[OneOf(R)] + SumOf(q, R \ {OneOf(R)})
    BY <2>1, FS_Subset, SumStep
  <2>3. CASE R = {}
    BY <2>1, <2>2, <2>3
  <2>4. CASE R # {}
    <3>1. OneOf(R) \in S /\ R \ {OneOf(R)} \notin T /\ R \ {OneOf(R)} \in SUBSET S
      BY <2>1, <2>4, OneIn
    <3> QED
      BY <2>1, <2>2, <2>4, <3>1
  <2> QED
    BY <2>3, <2>4
<1> QED
  BY <1>1

\* Whatever element is taken first, the sum is the same.
LEMMA SumAny ==
  ASSUME NEW q, NEW S, IsFiniteSet(S), \A x \in S : q[x] \in Int, NEW x \in S
  PROVE  SumOf(q, S) = q[x] + SumOf(q, S \ {x})
<1> DEFINE T == {R \in SUBSET S : \E y \in R : SumOf(q, R) # q[y] + SumOf(q, R \ {y})}
<1>1. ASSUME T # {} PROVE FALSE
  <2>1. PICK R \in T : \A t \in T : t \subseteq R => t = R
    <3>1. T \subseteq SUBSET S
      OBVIOUS
    <3> HIDE DEF T
    <3> QED
      BY <1>1, <3>1, Smallest
  <2>2. PICK y \in R : SumOf(q, R) # q[y] + SumOf(q, R \ {y})
    BY <2>1
  <2> DEFINE z == OneOf(R)
  <2>3. z \in R /\ R # {}
    BY <2>2, OneIn
  <2>4. /\ IsFiniteSet(R) /\ IsFiniteSet(R \ {z}) /\ IsFiniteSet(R \ {y})
        /\ IsFiniteSet((R \ {z}) \ {y})
    BY <2>1, FS_Subset
  <2>5. SumOf(q, R) = q[z] + SumOf(q, R \ {z})
    BY <2>3, <2>4, SumStep
  <2>6. y # z
    BY <2>2, <2>5
  <2>7. SumOf(q, R \ {z}) = q[y] + SumOf(q, (R \ {z}) \ {y})
    <3>1. R \ {z} \notin T /\ R \ {z} \in SUBSET S /\ y \in R \ {z}
      BY <2>1, <2>3, <2>6
    <3> QED
      BY <3>1
  <2>8. SumOf(q, R \ {y}) = q[z] + SumOf(q, (R \ {y}) \ {z})
    <3>1. R \ {y} \notin T /\ R \ {y} \in SUBSET S /\ z \in R \ {y}
      BY <2>1, <2>3, <2>6
    <3> QED
      BY <3>1
  <2>9. (R \ {z}) \ {y} = (R \ {y}) \ {z}
    OBVIOUS
  <2>10. SumOf(q, (R \ {z}) \ {y}) \in Int /\ q[y] \in Int /\ q[z] \in Int
    <3>1. \A w \in (R \ {z}) \ {y} : q[w] \in Int
      BY <2>1
    <3>2. y \in S /\ z \in S
      BY <2>1, <2>3
    <3> QED
      BY <2>4, <3>1, <3>2, SumType
  <2>11. SumOf(q, (R \ {z}) \ {y}) = SumOf(q, (R \ {y}) \ {z})
    BY <2>9
  <2> DEFINE rest == SumOf(q, (R \ {z}) \ {y})
  <2>12. SumOf(q, R) = q[z] + (q[y] + rest) /\ SumOf(q, R \ {y}) = q[z] + rest
    BY <2>5, <2>7, <2>8, <2>11
  <2>13. rest \in Int /\ q[y] \in Int /\ q[z] \in Int
    BY <2>10
  <2> HIDE DEF z, rest
  <2> QED
    BY <2>2, <2>12, <2>13
<1>2. S \notin T
  BY <1>1
<1> QED
  BY <1>2

\* Functions that agree on a set have one sum over it.
LEMMA SumSame ==
  ASSUME NEW q, NEW p, NEW S, IsFiniteSet(S), \A x \in S : q[x] = p[x]
  PROVE  SumOf(q, S) = SumOf(p, S)
<1> DEFINE T == {R \in SUBSET S : SumOf(q, R) # SumOf(p, R)}
<1>1. ASSUME T # {} PROVE FALSE
  <2>1. PICK R \in T : \A t \in T : t \subseteq R => t = R
    <3>1. T \subseteq SUBSET S
      OBVIOUS
    <3> HIDE DEF T
    <3> QED
      BY <1>1, <3>1, Smallest
  <2>2. /\ SumOf(q, R) = IF R = {} THEN 0 ELSE q[OneOf(R)] + SumOf(q, R \ {OneOf(R)})
        /\ SumOf(p, R) = IF R = {} THEN 0 ELSE p[OneOf(R)] + SumOf(p, R \ {OneOf(R)})
    BY <2>1, FS_Subset, SumStep
  <2>3. R # {}
    BY <2>1, <2>2
  <2>4. OneOf(R) \in S /\ R \ {OneOf(R)} \notin T /\ R \ {OneOf(R)} \in SUBSET S
    BY <2>1, <2>3, OneIn
  <2> QED
    BY <2>1, <2>2, <2>3, <2>4
<1> QED
  BY <1>1

\* Nothing adds up to 0.
LEMMA SumNothing == ASSUME NEW q PROVE SumOf(q, {}) = 0
BY SumStep, FS_EmptySet

\* Pairs of numbers are added up as they come.
LEMMA SumPlus ==
  ASSUME NEW S, IsFiniteSet(S), NEW q, NEW p, NEW h,
         \A x \in S : q[x] \in Int /\ p[x] \in Int /\ h[x] = q[x] + p[x]
  PROVE  SumOf(h, S) = SumOf(q, S) + SumOf(p, S)
<1> DEFINE T == {R \in SUBSET S : SumOf(h, R) # SumOf(q, R) + SumOf(p, R)}
<1>1. ASSUME T # {} PROVE FALSE
  <2>1. PICK R \in T : \A t \in T : t \subseteq R => t = R
    <3>1. T \subseteq SUBSET S
      OBVIOUS
    <3> HIDE DEF T
    <3> QED
      BY <1>1, <3>1, Smallest
  <2>2. R # {}
    <3>1. SumOf(q, {}) = 0 /\ SumOf(p, {}) = 0 /\ SumOf(h, {}) = 0
      BY SumNothing
    <3>2. R = {} => SumOf(h, {}) # SumOf(q, {}) + SumOf(p, {})
      BY <2>1
    <3> HIDE DEF T
    <3> QED
      BY <3>1, <3>2
  <2> DEFINE z == OneOf(R)
             rest == R \ {z}
  <2>3. z \in S /\ rest \in SUBSET S /\ rest \notin T
    BY <2>1, <2>2, OneIn
  <2>4. IsFiniteSet(R) /\ IsFiniteSet(rest)
    BY <2>1, <2>3, FS_Subset
  <2>5. /\ SumOf(q, R) = q[z] + SumOf(q, rest) /\ SumOf(p, R) = p[z] + SumOf(p, rest)
        /\ SumOf(h, R) = h[z] + SumOf(h, rest)
    BY <2>2, <2>4, SumStep
  <2>6. SumOf(h, rest) = SumOf(q, rest) + SumOf(p, rest)
    BY <2>3
  <2>7. SumOf(q, rest) \in Int /\ SumOf(p, rest) \in Int
    <3>1. \A x \in rest : q[x] \in Int /\ p[x] \in Int
      BY <2>3
    <3> HIDE DEF rest
    <3> QED
      BY <2>4, <3>1, SumType
  <2>8. SumOf(h, R) # SumOf(q, R) + SumOf(p, R) /\ h[z] = q[z] + p[z] /\ q[z] \in Int /\ p[z] \in Int
    BY <2>1, <2>3
  <2> HIDE DEF z, rest
  <2> QED
    BY <2>5, <2>6, <2>7, <2>8
<1> QED
  BY <1>1

\* A factor of all is a factor of the sum.
LEMMA SumTimes ==
  ASSUME NEW S, IsFiniteSet(S), NEW c \in Int, NEW q, NEW h,
         \A x \in S : q[x] \in Int /\ h[x] = c * q[x]
  PROVE  SumOf(h, S) = c * SumOf(q, S)
<1> DEFINE T == {R \in SUBSET S : SumOf(h, R) # c * SumOf(q, R)}
<1>1. ASSUME T # {} PROVE FALSE
  <2>1. PICK R \in T : \A t \in T : t \subseteq R => t = R
    <3>1. T \subseteq SUBSET S
      OBVIOUS
    <3> HIDE DEF T
    <3> QED
      BY <1>1, <3>1, Smallest
  <2>2. R # {}
    <3>1. SumOf(q, {}) = 0 /\ SumOf(h, {}) = 0
      BY SumNothing
    <3>2. R = {} => SumOf(h, {}) # c * SumOf(q, {})
      BY <2>1
    <3> HIDE DEF T
    <3> QED
      BY <3>1, <3>2
  <2> DEFINE z == OneOf(R)
             rest == R \ {z}
  <2>3. z \in S /\ rest \in SUBSET S /\ rest \notin T
    BY <2>1, <2>2, OneIn
  <2>4. IsFiniteSet(R) /\ IsFiniteSet(rest)
    BY <2>1, <2>3, FS_Subset
  <2>5. SumOf(q, R) = q[z] + SumOf(q, rest) /\ SumOf(h, R) = h[z] + SumOf(h, rest)
    BY <2>2, <2>4, SumStep
  <2>6. SumOf(h, rest) = c * SumOf(q, rest)
    BY <2>3
  <2>7. SumOf(q, rest) \in Int
    <3>1. \A x \in rest : q[x] \in Int
      BY <2>3
    <3> HIDE DEF rest
    <3> QED
      BY <2>4, <3>1, SumType
  <2>8. SumOf(h, R) # c * SumOf(q, R) /\ h[z] = c * q[z] /\ q[z] \in Int
    BY <2>1, <2>3
  <2> HIDE DEF z, rest
  <2> QED
    BY <2>5, <2>6, <2>7, <2>8
<1> QED
  BY <1>1

\* What is nowhere greater adds up to no more.
LEMMA SumAtMost ==
  ASSUME NEW S, IsFiniteSet(S), NEW q, NEW p,
         \A x \in S : q[x] \in Int /\ p[x] \in Int /\ q[x] <= p[x]
  PROVE  SumOf(q, S) <= SumOf(p, S)
<1> DEFINE T == {R \in SUBSET S : ~(SumOf(q, R) <= SumOf(p, R))}
<1>1. ASSUME T # {} PROVE FALSE
  <2>1. PICK R \in T : \A t \in T : t \subseteq R => t = R
    <3>1. T \subseteq SUBSET S
      OBVIOUS
    <3> HIDE DEF T
    <3> QED
      BY <1>1, <3>1, Smallest
  <2>2. R # {}
    <3>1. SumOf(q, {}) = 0 /\ SumOf(p, {}) = 0
      BY SumNothing
    <3>2. R = {} => ~(SumOf(q, {}) <= SumOf(p, {}))
      BY <2>1
    <3> HIDE DEF T
    <3> QED
      BY <3>1, <3>2
  <2> DEFINE z == OneOf(R)
             rest == R \ {z}
  <2>3. z \in S /\ rest \in SUBSET S /\ rest \notin T
    BY <2>1, <2>2, OneIn
  <2>4. IsFiniteSet(R) /\ IsFiniteSet(rest)
    BY <2>1, <2>3, FS_Subset
  <2>5. SumOf(q, R) = q[z] + SumOf(q, rest) /\ SumOf(p, R) = p[z] + SumOf(p, rest)
    BY <2>2, <2>4, SumStep
  <2>6. SumOf(q, rest) <= SumOf(p, rest)
    BY <2>3
  <2>7. SumOf(q, rest) \in Int /\ SumOf(p, rest) \in Int
    <3>1. \A x \in rest : q[x] \in Int /\ p[x] \in Int
      BY <2>3
    <3> HIDE DEF rest
    <3> QED
      BY <2>4, <3>1, SumType
  <2>8. ~(SumOf(q, R) <= SumOf(p, R)) /\ q[z] <= p[z] /\ q[z] \in Int /\ p[z] \in Int
    BY <2>1, <2>3
  <2> HIDE DEF z, rest
  <2> QED
    BY <2>5, <2>6, <2>7, <2>8
<1> QED
  BY <1>1

\* One number, added up as often as there are members.
LEMMA SumConstant ==
  ASSUME NEW S, IsFiniteSet(S), NEW c \in Int, NEW q, \A x \in S : q[x] = c
  PROVE  SumOf(q, S) = c * Cardinality(S)
<1> DEFINE T == {R \in SUBSET S : SumOf(q, R) # c * Cardinality(R)}
<1>1. ASSUME T # {} PROVE FALSE
  <2>1. PICK R \in T : \A t \in T : t \subseteq R => t = R
    <3>1. T \subseteq SUBSET S
      OBVIOUS
    <3> HIDE DEF T
    <3> QED
      BY <1>1, <3>1, Smallest
  <2>2. R # {}
    <3>1. SumOf(q, {}) = 0 /\ Cardinality({}) = 0
      BY SumNothing, FS_EmptySet
    <3>2. R = {} => SumOf(q, {}) # c * Cardinality({})
      BY <2>1
    <3> HIDE DEF T
    <3> QED
      BY <3>1, <3>2
  <2> DEFINE z == OneOf(R)
             rest == R \ {z}
  <2>3. z \in R /\ z \in S /\ rest \in SUBSET S /\ rest \notin T
    BY <2>1, <2>2, OneIn
  <2>4. IsFiniteSet(R) /\ IsFiniteSet(rest) /\ Cardinality(R) \in Nat /\ Cardinality(rest) = Cardinality(R) - 1
    BY <2>1, <2>3, FS_Subset, FS_CardinalityType, FS_RemoveElement
  <2>5. SumOf(q, R) = q[z] + SumOf(q, rest)
    BY <2>2, <2>4, SumStep
  <2>6. SumOf(q, rest) = c * Cardinality(rest)
    BY <2>3
  <2>7. SumOf(q, R) # c * Cardinality(R) /\ q[z] = c
    BY <2>1, <2>3
  <2> HIDE DEF z, rest
  <2> QED
    BY <2>4, <2>5, <2>6, <2>7
<1> QED
  BY <1>1

\* What is 0 need not be added.
LEMMA SumZeros ==
  ASSUME NEW S, IsFiniteSet(S), NEW q, \A x \in S : q[x] \in Int,
         NEW P, P \subseteq S, \A x \in S \ P : q[x] = 0
  PROVE  SumOf(q, S) = SumOf(q, P)
<1> DEFINE T == {R \in SUBSET S : P \subseteq R /\ SumOf(q, R) # SumOf(q, P)}
<1>1. ASSUME T # {} PROVE FALSE
  <2>1. PICK R \in T : \A t \in T : t \subseteq R => t = R
    <3>1. T \subseteq SUBSET S
      OBVIOUS
    <3> HIDE DEF T
    <3> QED
      BY <1>1, <3>1, Smallest
  <2>2. PICK z \in R : z \notin P
    BY <2>1
  <2> DEFINE rest == R \ {z}
  <2>3. z \in S /\ rest \in SUBSET S /\ P \subseteq rest /\ rest \notin T
    BY <2>1, <2>2
  <2>4. IsFiniteSet(R) /\ IsFiniteSet(rest) /\ \A x \in R : q[x] \in Int
    BY <2>1, <2>3, FS_Subset
  <2>5. SumOf(q, R) = q[z] + SumOf(q, rest)
    BY <2>4, SumAny
  <2>6. SumOf(q, rest) = SumOf(q, P) /\ q[z] = 0
    BY <2>2, <2>3
  <2>7. SumOf(q, rest) \in Int
    <3>1. \A x \in rest : q[x] \in Int
      BY <2>4
    <3> HIDE DEF rest
    <3> QED
      BY <2>4, <3>1, SumType
  <2>8. SumOf(q, R) # SumOf(q, P)
    BY <2>1
  <2> HIDE DEF rest
  <2> QED
    BY <2>5, <2>6, <2>7, <2>8
<1> QED
  BY <1>1

\* How many members a part has, as a sum.
LEMMA SumCounts ==
  ASSUME NEW S, IsFiniteSet(S), NEW P, P \subseteq S, NEW q,
         \A x \in S : q[x] = IF x \in P THEN 1 ELSE 0
  PROVE  SumOf(q, S) = Cardinality(P)
<1>1. SumOf(q, S) = SumOf(q, P)
  BY SumZeros
<1>2. IsFiniteSet(P) /\ Cardinality(P) \in Nat
  BY FS_Subset, FS_CardinalityType
<1>3. SumOf(q, P) = 1 * Cardinality(P)
  BY <1>2, SumConstant
<1> QED
  BY <1>1, <1>2, <1>3

\* Adding up over one set or over another that has the same numbers.
LEMMA SumRenamed ==
  ASSUME NEW S, IsFiniteSet(S), NEW f, \A x, y \in S : f[x] = f[y] => x = y,
         NEW q, \A x \in S : q[f[x]] \in Int, NEW h, \A x \in S : h[x] = q[f[x]],
         IsFiniteSet({f[x] : x \in S})
  PROVE  SumOf(q, {f[x] : x \in S}) = SumOf(h, S)
<1> DEFINE Im(R) == {f[x] : x \in R}
           T == {R \in SUBSET S : SumOf(q, Im(R)) # SumOf(h, R)}
<1>1. ASSUME T # {} PROVE FALSE
  <2>1. PICK R \in T : \A t \in T : t \subseteq R => t = R
    <3>1. T \subseteq SUBSET S
      OBVIOUS
    <3> HIDE DEF T
    <3> QED
      BY <1>1, <3>1, Smallest
  <2>2. R # {}
    <3>1. Im({}) = {}
      OBVIOUS
    <3> QED
      BY <2>1, <3>1, SumNothing
  <2> DEFINE z == OneOf(R)
             rest == R \ {z}
  <2>3. z \in R /\ z \in S /\ rest \in SUBSET S /\ rest \notin T
    BY <2>1, <2>2, OneIn
  <2>4. Im(rest) = Im(R) \ {f[z]}
    BY <2>1, <2>3
  <2>5. IsFiniteSet(R) /\ IsFiniteSet(Im(R)) /\ f[z] \in Im(R) /\ \A y \in Im(R) : q[y] \in Int
    <3>1. Im(R) \in SUBSET Im(S)
      BY <2>1
    <3> QED
      BY <2>1, <2>3, <3>1, FS_Subset
  <2>6. SumOf(h, R) = h[z] + SumOf(h, rest)
    BY <2>2, <2>5, SumStep
  <2>7. SumOf(q, Im(R)) = q[f[z]] + SumOf(q, Im(R) \ {f[z]})
    <3> HIDE DEF Im, z
    <3> QED
      BY <2>5, SumAny
  <2>8. SumOf(q, Im(rest)) = SumOf(h, rest)
    BY <2>3
  <2>9. SumOf(q, Im(R)) # SumOf(h, R) /\ h[z] = q[f[z]]
    BY <2>1, <2>3
  <2> HIDE DEF z, rest, Im
  <2> QED
    BY <2>4, <2>6, <2>7, <2>8, <2>9
<1> QED
  BY <1>1

\* The sums are what adds up, and nothing else does.
LEMMA TheOnlySums ==
  ASSUME NEW q, NEW S, IsFiniteSet(S)
  PROVE  Adds(q, S, TheSums(q, S)) /\ \A g : Adds(q, S, g) => g = TheSums(q, S)
<1>1. Adds(q, S, TheSums(q, S))
  BY AddsExists DEF TheSums
<1> QED
  BY <1>1, AddsOnce

\* The sum over two sets that share nothing.
LEMMA SumUnion ==
  ASSUME NEW A, IsFiniteSet(A), NEW B, IsFiniteSet(B), A \cap B = {},
         NEW q, \A x \in A \cup B : q[x] \in Int
  PROVE  SumOf(q, A \cup B) = SumOf(q, A) + SumOf(q, B)
<1> DEFINE S == A \cup B
           a == [x \in S |-> IF x \in A THEN q[x] ELSE 0]
           b == [x \in S |-> IF x \in B THEN q[x] ELSE 0]
<1>1. IsFiniteSet(S) /\ A \subseteq S /\ B \subseteq S
  BY FS_Union
<1>2. \A x \in S : /\ a[x] \in Int /\ b[x] \in Int /\ q[x] = a[x] + b[x]
                   /\ (x \in A => a[x] = q[x]) /\ (x \notin A => a[x] = 0)
                   /\ (x \in B => b[x] = q[x]) /\ (x \notin B => b[x] = 0)
  OBVIOUS
<1> HIDE DEF S, a, b
<1>3. SumOf(q, S) = SumOf(a, S) + SumOf(b, S)
  BY <1>1, <1>2, SumPlus
<1>4. SumOf(a, S) = SumOf(a, A) /\ SumOf(a, A) = SumOf(q, A)
  <2>1. (\A x \in S : a[x] \in Int) /\ (\A x \in S \ A : a[x] = 0) /\ \A x \in A : a[x] = q[x]
    BY <1>1, <1>2
  <2> QED
    BY <1>1, <2>1, SumZeros, SumSame
<1>5. SumOf(b, S) = SumOf(b, B) /\ SumOf(b, B) = SumOf(q, B)
  <2>1. (\A x \in S : b[x] \in Int) /\ (\A x \in S \ B : b[x] = 0) /\ \A x \in B : b[x] = q[x]
    BY <1>1, <1>2
  <2> QED
    BY <1>1, <2>1, SumZeros, SumSame
<1> QED
  BY <1>3, <1>4, <1>5 DEF S

\* The members of a group.
GroupOf(S, f, g) == {x \in S : f[x] = g}

\* The sums of the groups of a set add up to the sum of the set.
LEMMA SumGrouped ==
  ASSUME NEW S, IsFiniteSet(S), NEW f, NEW G, IsFiniteSet(G), \A x \in S : f[x] \in G,
         NEW q, \A x \in S : q[x] \in Int,
         NEW h, \A g \in G : h[g] = SumOf(q, GroupOf(S, f, g))
  PROVE  SumOf(h, G) = SumOf(q, S)
<1> DEFINE In(R) == {x \in S : f[x] \in R}
           T == {R \in SUBSET G : SumOf(h, R) # SumOf(q, In(R))}
<1>1. ASSUME T # {} PROVE FALSE
  <2>1. PICK R \in T : \A t \in T : t \subseteq R => t = R
    <3>1. T \subseteq SUBSET G
      OBVIOUS
    <3> HIDE DEF T
    <3> QED
      BY <1>1, <3>1, Smallest
  <2>2. R # {}
    <3>1. In({}) = {}
      OBVIOUS
    <3> QED
      BY <2>1, <3>1, SumNothing
  <2> DEFINE z == OneOf(R)
             rest == R \ {z}
             group == GroupOf(S, f, z)
  <2>3. z \in R /\ z \in G /\ rest \in SUBSET G /\ rest \notin T
    BY <2>1, <2>2, OneIn
  <2>4. IsFiniteSet(R)
    BY <2>1, FS_Subset
  <2>5. /\ In(R) = In(rest) \cup group /\ In(rest) \cap group = {}
        /\ \A x \in In(rest) \cup group : q[x] \in Int
    BY <2>1, <2>3 DEF GroupOf
  <2>6. IsFiniteSet(In(rest)) /\ IsFiniteSet(group)
    <3>1. In(rest) \in SUBSET S /\ group \in SUBSET S
      BY DEF GroupOf
    <3> QED
      BY <3>1, FS_Subset
  <2>7. SumOf(h, R) = h[z] + SumOf(h, rest)
    BY <2>2, <2>4, SumStep
  <2>8. SumOf(h, rest) = SumOf(q, In(rest))
    BY <2>3
  <2>9. SumOf(h, R) # SumOf(q, In(R)) /\ h[z] = SumOf(q, group)
    BY <2>1, <2>3
  <2> HIDE DEF z, rest, group, In
  <2>10. SumOf(q, In(rest) \cup group) = SumOf(q, In(rest)) + SumOf(q, group)
    BY <2>5, <2>6, SumUnion
  <2>11. SumOf(q, In(rest)) \in Int /\ SumOf(q, group) \in Int
    BY <2>5, <2>6, SumType
  <2> QED
    BY <2>5, <2>7, <2>8, <2>9, <2>10, <2>11
<1>2. T = {}
  BY <1>1
<1>3. In(G) = S
  OBVIOUS
<1>4. SumOf(h, G) = SumOf(q, In(G))
  BY <1>2
<1> QED
  BY <1>3, <1>4
===============================================================================
