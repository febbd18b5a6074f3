------------------------------ MODULE Induction ------------------------------
(***************************************************************************)
(* Induction over numbers and over finite sets, stated with the set of     *)
(* those for which a fact holds, and what follows from it for              *)
(* concatenations of many sequences.                                       *)
(***************************************************************************)
EXTENDS Integers, SequencesExt, FiniteSetTheorems, SequenceTheorems,
        WellFoundedInduction, TLAPS

\* A set with the first of some numbers in a row, and with the successor of
\* each of its elements, has all of them.
LEMMA UpToInduction ==
    ASSUME NEW a \in Int, NEW b \in Int, NEW G, a \in G,
           \A m \in a .. b - 1 : m \in G => m + 1 \in G
    PROVE  a .. b \subseteq G
<1> SUFFICES ASSUME NEW c \in a .. b, c \notin G PROVE FALSE
  OBVIOUS
<1> DEFINE B == {d \in Nat : a + d <= b /\ a + d \notin G}
<1>1. B \subseteq Nat /\ c - a \in B
  OBVIOUS
<1>2. IsWellFoundedOn(OpToRel(<, Nat), Nat)
  BY NatLessThanWellFounded
<1>3. PICK d \in B : \A e \in B : <<e, d>> \notin OpToRel(<, Nat)
  <2> HIDE DEF B
  <2> QED
    BY <1>1, <1>2, WFMin
<1>4. d # 0
  OBVIOUS
<1>5. d - 1 \notin B
  <2>1. <<d - 1, d>> \in OpToRel(<, Nat)
    <3>1. d - 1 \in Nat /\ d \in Nat /\ d - 1 < d
      BY <1>4
    <3> HIDE DEF B
    <3> DEFINE c1 == d - 1
    <3>2. c1 \in Nat /\ c1 < d
      BY <3>1
    <3> HIDE DEF c1
    <3>3. <<c1, d>> \in OpToRel(<, Nat)
      BY <3>1, <3>2 DEF OpToRel
    <3> QED
      BY <3>3 DEF c1
  <2> HIDE DEF B
  <2> QED
    BY <1>3, <2>1
<1>6. a + (d - 1) \in a .. b - 1 /\ a + (d - 1) \in G
  BY <1>4, <1>5
<1> QED
  BY <1>6

\* Among sets of elements of S one is minimal.
LEMMA MinimalSet ==
    ASSUME NEW S, IsFiniteSet(S), NEW B, B \subseteq SUBSET S, B # {}
    PROVE  \E T \in B : \A x \in T : T \ {x} \notin B
<1> DEFINE R == StrictSubsetOrdering(S)
<1>1. IsWellFoundedOn(R, FiniteSubsetsOf(S)) /\ FiniteSubsetsOf(S) = SUBSET S
  BY FS_StrictSubsetOrderingWellFounded, FS_FiniteSubsetsOfFinite
<1>2. PICK T \in B : \A y \in B : <<y, T>> \notin R
  <2> HIDE DEF R
  <2> QED
    BY <1>1, WFMin
<1>3. \A x \in T : T \ {x} \notin B
  BY <1>2 DEF StrictSubsetOrdering
<1> QED
  BY <1>3

\* A set of subsets of S with the empty one, and with each that has one
\* element more, has S.
LEMMA SetInduction ==
    ASSUME NEW S, IsFiniteSet(S), NEW G \in SUBSET (SUBSET S), {} \in G,
           \A T \in G : \A x \in S \ T : T \cup {x} \in G
    PROVE  S \in G
<1> SUFFICES ASSUME S \notin G PROVE FALSE
  OBVIOUS
<1> DEFINE B == (SUBSET S) \ G
<1>1. B \subseteq SUBSET S /\ B # {}
  OBVIOUS
<1>2. PICK T \in B : \A x \in T : T \ {x} \notin B
  <2> HIDE DEF B
  <2> QED
    BY <1>1, MinimalSet
<1>3. PICK x \in T : TRUE
  OBVIOUS
<1>4. (T \ {x}) \cup {x} \in G
  BY <1>2
<1> QED
  BY <1>3, <1>4

-----------------------------------------------------------------------------
(* FlattenSeq                                                              *)

\* Concatenation under a name the provers do not look into.
Then(s, t) == s \o t

LEMMA ThenType ==
    ASSUME NEW V, NEW s \in Seq(V), NEW t \in Seq(V)
    PROVE  /\ Then(s, t) \in Seq(V)
           /\ Len(Then(s, t)) = Len(s) + Len(t)
BY ConcatProperties DEF Then

LEMMA ThenFirst ==
    ASSUME NEW V, NEW s \in Seq(V), NEW t \in Seq(V), NEW k \in 1..Len(s)
    PROVE  Then(s, t)[k] = s[k]
BY ConcatProperties DEF Then

LEMMA ThenLast ==
    ASSUME NEW V, NEW s \in Seq(V), NEW t \in Seq(V), NEW k \in 1..Len(t)
    PROVE  Then(s, t)[Len(s) + k] = t[k]
BY ConcatProperties DEF Then

\* The same for sequences of numbers, under a name as well.
IntTexts == Seq(Int)

LEMMA TextThen ==
    ASSUME NEW s \in IntTexts, NEW t \in IntTexts
    PROVE  /\ Then(s, t) \in IntTexts
           /\ Len(Then(s, t)) = Len(s) + Len(t)
           /\ Len(s) \in Nat /\ Len(t) \in Nat
BY ConcatProperties DEF Then, IntTexts

LEMMA TextFirst ==
    ASSUME NEW s \in IntTexts, NEW t \in IntTexts, NEW k \in 1..Len(s)
    PROVE  Then(s, t)[k] = s[k]
BY ThenFirst DEF IntTexts

LEMMA TextLast ==
    ASSUME NEW s \in IntTexts, NEW t \in IntTexts, NEW k \in 1..Len(t)
    PROVE  Then(s, t)[Len(s) + k] = t[k]
BY ThenLast DEF IntTexts

LEMMA TextEqual ==
    ASSUME NEW s \in IntTexts, NEW t \in IntTexts, Len(s) = Len(t),
           \A k \in 1..Len(s) : s[k] = t[k]
    PROVE  s = t
BY SeqEqual DEF IntTexts

LEMMA ThenEmpty ==
    ASSUME NEW V, NEW s \in Seq(V)
    PROVE  Then(<<>>, s) = s
BY DEF Then

\* f holds the concatenations of the first sequences of w.
Concatenates(f, w, n) ==
    f = [k \in 1..n |-> IF k = 1 THEN w[k] ELSE Then(f[k - 1], w[k])]

LEMMA ConcatenationFirst ==
    ASSUME NEW n \in Nat, n # 0, NEW f, NEW w, Concatenates(f, w, n)
    PROVE  f[1] = w[1]
<1>1. 1 \in 1..n
  OBVIOUS
<1> QED
  BY <1>1 DEF Concatenates

LEMMA ConcatenationNext ==
    ASSUME NEW n \in Nat, NEW f, NEW w, Concatenates(f, w, n), NEW k \in 1 .. n - 1
    PROVE  f[k + 1] = Then(f[k], w[k + 1])
<1>1. k + 1 \in 1..n /\ k + 1 # 1 /\ (k + 1) - 1 = k
  OBVIOUS
<1>2. f[k + 1] = IF k + 1 = 1 THEN w[k + 1] ELSE Then(f[(k + 1) - 1], w[k + 1])
  BY <1>1 DEF Concatenates
<1> QED
  BY <1>1, <1>2

LEMMA ConcatenationExists ==
    ASSUME NEW V, NEW n \in Nat \ {0}, NEW w, \A k \in 1..n : w[k] \in Seq(V)
    PROVE  \E f \in [1..n -> Seq(V)] : Concatenates(f, w, n)
<1> DEFINE G == {m \in 1..n : \E f \in [1..m -> Seq(V)] : Concatenates(f, w, m)}
<1>1. 1 \in G
  <2> DEFINE f == [k \in 1..1 |-> w[k]]
  <2>1. f \in [1..1 -> Seq(V)]
    OBVIOUS
  <2>2. Concatenates(f, w, 1)
    BY DEF Concatenates
  <2> QED
    BY <2>1, <2>2
<1>2. ASSUME NEW m \in 1 .. n - 1, m \in G PROVE m + 1 \in G
  <2>1. PICK f \in [1..m -> Seq(V)] : Concatenates(f, w, m)
    BY <1>2
  <2> DEFINE g == [k \in 1 .. m + 1 |-> IF k = m + 1 THEN Then(f[m], w[m + 1]) ELSE f[k]]
  <2>2. Then(f[m], w[m + 1]) \in Seq(V)
    <3>1. f[m] \in Seq(V) /\ w[m + 1] \in Seq(V)
      OBVIOUS
    <3> QED
      BY <3>1, ThenType
  <2>3. g \in [1 .. m + 1 -> Seq(V)]
    BY <2>2
  <2>4. ASSUME NEW k \in 1 .. m + 1
        PROVE  g[k] = IF k = 1 THEN w[k] ELSE Then(g[k - 1], w[k])
    <3>1. CASE k = m + 1
      <4>1. k # 1 /\ k - 1 = m /\ m \in 1 .. m + 1 /\ m # m + 1
        BY <3>1
      <4>2. g[m] = f[m]
        BY <4>1
      <4> QED
        BY <3>1, <4>1, <4>2
    <3>2. CASE k # m + 1
      <4>1. k \in 1..m /\ g[k] = f[k]
        BY <3>2
      <4>2. k # 1 => k - 1 \in 1..m /\ g[k - 1] = f[k - 1]
        BY <3>2
      <4>3. f[k] = IF k = 1 THEN w[k] ELSE Then(f[k - 1], w[k])
        BY <2>1, <4>1 DEF Concatenates
      <4> QED
        BY <4>1, <4>2, <4>3
    <3> QED
      BY <3>1, <3>2
  <2>5. Concatenates(g, w, m + 1)
    <3> HIDE DEF g
    <3> QED
      BY <2>3, <2>4 DEF Concatenates
  <2> HIDE DEF g
  <2> QED
    BY <2>3, <2>5
<1> HIDE DEF G
<1>3. 1..n \subseteq G
  <2>1. 1 \in Int /\ n \in Int
    OBVIOUS
  <2> QED
    BY <1>1, <1>2, <2>1, UpToInduction
<1>4. n \in G
  BY <1>3
<1> QED
  BY <1>4 DEF G

\* g and f begin with the same m values.
Agree(g, f, m) == \A k \in 1..m : g[k] = f[k]

LEMMA ConcatenationUnique ==
    ASSUME NEW n \in Nat \ {0}, NEW m \in 1..n, NEW w, NEW v, Agree(v, w, m),
           NEW f, Concatenates(f, w, n), NEW g, Concatenates(g, v, m)
    PROVE  Agree(g, f, m)
<1> DEFINE G == {k \in 1..m : g[k] = f[k]}
<1>1. 1 \in G
  <2>1. f[1] = w[1] /\ g[1] = v[1]
    BY ConcatenationFirst
  <2> QED
    BY <2>1 DEF Agree
<1>2. ASSUME NEW k \in 1 .. m - 1, k \in G PROVE k + 1 \in G
  <2>1. k + 1 \in 1..n /\ k + 1 \in 1..m /\ k + 1 # 1 /\ (k + 1) - 1 = k
    OBVIOUS
  <2>2. f[k + 1] = Then(f[k], w[k + 1]) /\ g[k + 1] = Then(g[k], v[k + 1])
    <3>1. n \in Nat /\ m \in Nat /\ k \in 1 .. n - 1 /\ k \in 1 .. m - 1
      OBVIOUS
    <3>2. f[k + 1] = Then(f[k], w[k + 1])
      BY <3>1, ConcatenationNext
    <3>3. g[k + 1] = Then(g[k], v[k + 1])
      BY <3>1, ConcatenationNext
    <3> QED
      BY <3>2, <3>3
  <2>3. f[k] = g[k] /\ w[k + 1] = v[k + 1]
    BY <1>2, <2>1 DEF Agree
  <2> QED
    BY <2>1, <2>2, <2>3
<1> HIDE DEF G
<1>3. 1..m \subseteq G
  BY <1>1, <1>2, UpToInduction
<1> QED
  BY <1>3 DEF G, Agree

\* FlattenSeq is the last of these concatenations.
LEMMA FlattenIsConcatenation ==
    ASSUME NEW V, NEW n \in Nat \ {0}, NEW w \in [1..n -> Seq(V)],
           NEW f, Concatenates(f, w, n)
    PROVE  FlattenSeq(w) = f[n]
<1> DEFINE flatten == CHOOSE g : Concatenates(g, w, n)
<1>1. Len(w) = n
  OBVIOUS
<1>2. FlattenSeq(w) = flatten[n]
  BY <1>1 DEF FlattenSeq, Concatenates, Then
<1>3. Concatenates(flatten, w, n)
  OBVIOUS
<1> HIDE DEF flatten
<1> QED
  <2>1. n \in 1..n /\ Agree(w, w, n)
    BY DEF Agree
  <2>2. Agree(flatten, f, n)
    BY <1>3, <2>1, ConcatenationUnique
  <2> QED
    BY <1>2, <2>1, <2>2 DEF Agree

LEMMA FlattenEmpty == FlattenSeq(<<>>) = <<>>
BY Zenon, Len(<<>>) = 0 DEF FlattenSeq

LEMMA FlattenType ==
    ASSUME NEW V, NEW n \in Nat, NEW w \in [1..n -> Seq(V)]
    PROVE  FlattenSeq(w) \in Seq(V)
<1>1. CASE n = 0
  <2>1. w = <<>>
    BY <1>1
  <2>2. FlattenSeq(w) = <<>>
    BY <2>1, FlattenEmpty
  <2> QED
    BY <2>2
<1>2. CASE n # 0
  <2>1. PICK f \in [1..n -> Seq(V)] : Concatenates(f, w, n)
    BY <1>2, ConcatenationExists
  <2> QED
    <3>1. n \in Nat \ {0} /\ n \in 1..n
      BY <1>2
    <3>2. FlattenSeq(w) = f[n]
      BY <2>1, <3>1, FlattenIsConcatenation
    <3> QED
      BY <3>1, <3>2
<1> QED
  BY <1>1, <1>2

\* One sequence more.
LEMMA FlattenNext ==
    ASSUME NEW V, NEW n \in Nat, NEW w, w \in [1 .. n + 1 -> Seq(V)]
    PROVE  FlattenSeq(w) = Then(FlattenSeq([k \in 1..n |-> w[k]]), w[n + 1])
<1>0. PICK m \in Nat \ {0} : m = n + 1 /\ \A k \in 1..m : w[k] \in Seq(V)
  OBVIOUS
<1>1. PICK f : Concatenates(f, w, m)
  BY <1>0, ConcatenationExists
<1>2. FlattenSeq(w) = f[m]
  <2>1. w \in [1..m -> Seq(V)]
    BY <1>0
  <2> QED
    BY <1>1, <2>1, FlattenIsConcatenation
<1>3. CASE n = 0
  <2>1. f[1] = w[1] /\ w[1] \in Seq(V)
    BY <1>1, <1>3 DEF Concatenates
  <2>2. [k \in 1..n |-> w[k]] = <<>>
    BY <1>3
  <2> QED
    BY <1>0, <1>2, <1>3, <2>1, <2>2, FlattenEmpty, ThenEmpty
<1>4. CASE n # 0
  <2> DEFINE v == [k \in 1..n |-> w[k]]
  <2>1. v \in [1..n -> Seq(V)]
    OBVIOUS
  <2>0. Agree(v, w, n)
    BY DEF Agree
  <2> HIDE DEF v
  <2>2. PICK g : Concatenates(g, v, n)
    BY <1>4, <2>1, ConcatenationExists
  <2>3. FlattenSeq(v) = g[n]
    BY <1>4, <2>1, <2>2, FlattenIsConcatenation
  <2>4. g[n] = f[n]
    <3>1. m \in Nat \ {0} /\ n \in 1..m /\ n \in 1..n
      BY <1>0, <1>4
    <3>2. Agree(g, f, n)
      BY <1>1, <2>0, <2>2, <3>1, ConcatenationUnique
    <3> QED
      BY <3>1, <3>2 DEF Agree
  <2>5. f[n + 1] = Then(f[n], w[n + 1])
    <3>1. m \in Nat /\ n \in 1 .. m - 1
      BY <1>0, <1>4
    <3> QED
      BY <1>1, <3>1, ConcatenationNext
  <2> QED
    BY <1>0, <1>2, <2>3, <2>4, <2>5 DEF v
<1> QED
  BY <1>3, <1>4

\* Where the k-th sequence ends in the concatenation of those of w, and that s
\* holds each of them there.
LaidOut(s, w, n, at) ==
    /\ at[0] = 0 /\ \A k \in 0..n : at[k] \in Nat
    /\ \A k \in 1..n : /\ at[k] = at[k - 1] + Len(w[k])
                       /\ \A j \in 1..Len(w[k]) : s[at[k - 1] + j] = w[k][j]

LEMMA FlattenIs ==
    ASSUME NEW V, NEW n \in Nat, NEW w \in [1..n -> Seq(V)],
           NEW s, NEW at, LaidOut(s, w, n, at)
    PROVE  /\ FlattenSeq(w) \in Seq(V) /\ Len(FlattenSeq(w)) = at[n]
           /\ \A x \in 1..at[n] : FlattenSeq(w)[x] = s[x]
<1> DEFINE v(m) == [k \in 1..m |-> w[k]]
           IsLaid(f, m) == /\ f \in Seq(V) /\ Len(f) = at[m]
                           /\ \A x \in 1..at[m] : f[x] = s[x]
           G == {m \in 0..n : IsLaid(FlattenSeq(v(m)), m)}
<1>1. 0 \in G
  <2>1. v(0) = <<>>
    OBVIOUS
  <2>2. FlattenSeq(v(0)) = <<>>
    BY <2>1, FlattenEmpty
  <2>3. at[0] = 0
    BY DEF LaidOut
  <2>4. IsLaid(<<>>, 0)
    BY <2>3
  <2> HIDE DEF v, IsLaid
  <2> QED
    BY <2>2, <2>4
<1>2. ASSUME NEW m \in 0 .. n - 1, m \in G PROVE m + 1 \in G
  <2> DEFINE f == FlattenSeq(v(m))
             g == FlattenSeq(v(m + 1))
             e == w[m + 1]
             a == at[m]
             b == at[m + 1]
  <2>1. m \in Nat /\ m + 1 \in 1..n /\ m + 1 \in 0..n /\ m \in 0..n /\ (m + 1) - 1 = m
    OBVIOUS
  <2>2. e \in Seq(V)
    BY <2>1
  <2>3. f \in Seq(V) /\ Len(f) = a /\ \A x \in 1..a : f[x] = s[x]
    <3> HIDE DEF v
    <3> QED
      BY <1>2
  <2>4. a \in Nat /\ b = a + Len(e) /\ \A j \in 1..Len(e) : s[a + j] = e[j]
    <3>1. \A k \in 1..n : /\ at[k] = at[k - 1] + Len(w[k])
                          /\ \A j \in 1..Len(w[k]) : s[at[k - 1] + j] = w[k][j]
      BY DEF LaidOut
    <3>2. /\ at[m + 1] = at[(m + 1) - 1] + Len(w[m + 1])
          /\ \A j \in 1..Len(w[m + 1]) : s[at[(m + 1) - 1] + j] = w[m + 1][j]
      BY <2>1, <3>1
    <3>3. a \in Nat
      BY <2>1 DEF LaidOut
    <3> QED
      BY <2>1, <3>2, <3>3
  <2>5. g = Then(f, e)
    <3> DEFINE u == v(m + 1)
    <3>1. u \in [1 .. m + 1 -> Seq(V)]
      BY <2>1
    <3>2. [k \in 1..m |-> u[k]] = v(m)
      BY <2>1
    <3>3. u[m + 1] = e
      BY <2>1
    <3> HIDE DEF u, v
    <3>4. FlattenSeq(u) = Then(FlattenSeq([k \in 1..m |-> u[k]]), u[m + 1])
      BY <2>1, <3>1, FlattenNext
    <3> QED
      BY <3>2, <3>3, <3>4 DEF u
  <2> HIDE DEF f, g, e, a, b
  <2>6. g \in Seq(V) /\ Len(g) = b
    BY <2>2, <2>3, <2>4, <2>5, ThenType
  <2>7. Len(e) \in Nat
    BY <2>2, LenProperties
  <2>8. ASSUME NEW x \in 1..b PROVE g[x] = s[x]
    <3>1. CASE x \in 1..a
      <4>1. Then(f, e)[x] = f[x]
        BY <2>2, <2>3, <3>1, ThenFirst
      <4> QED
        BY <2>3, <2>5, <3>1, <4>1
    <3>2. CASE x \notin 1..a
      <4>1. x - a \in 1..Len(e) /\ a + (x - a) = x
        BY <2>4, <2>7, <3>2
      <4>2. Then(f, e)[a + (x - a)] = e[x - a]
        BY <2>2, <2>3, <4>1, ThenLast
      <4> QED
        BY <2>4, <2>5, <4>1, <4>2
    <3> QED
      BY <3>1, <3>2
  <2>9. IsLaid(g, m + 1)
    BY <2>6, <2>8 DEF b
  <2> HIDE DEF IsLaid, v
  <2> QED
    BY <2>1, <2>9 DEF g
<1>3. n \in G
  <2> HIDE DEF G
  <2>0. 0 \in Int /\ n \in Int /\ \A m \in 0 .. n - 1 : m \in G => m + 1 \in G
    BY <1>2
  <2> HIDE DEF v, IsLaid
  <2>1. 0 .. n \subseteq G
    BY <1>1, <2>0, UpToInduction
  <2> QED
    BY <2>1
<1>4. v(n) = w
  OBVIOUS
<1> HIDE DEF v
<1> QED
  BY <1>3, <1>4

\* Numbers that never go down from one to the next never go down.
LEMMA NeverDown ==
    ASSUME NEW a \in Int, NEW b \in Int, a <= b, NEW f,
           \A o \in a..b : f[o] \in Int,
           \A o \in a .. b - 1 : f[o] <= f[o + 1]
    PROVE  \A o \in a..b : f[a] <= f[o] /\ f[o] <= f[b]
<1> DEFINE G == {o \in a..b : f[a] <= f[o]}
<1>1. a \in G
  OBVIOUS
<1>2. ASSUME NEW m \in a .. b - 1, m \in G PROVE m + 1 \in G
  <2>1. m + 1 \in a..b /\ m \in a..b /\ a \in a..b
    OBVIOUS
  <2>2. f[m] \in Int /\ f[m + 1] \in Int /\ f[a] \in Int /\ f[a] <= f[m] /\ f[m] <= f[m + 1]
    BY <1>2, <2>1
  <2> QED
    BY <2>1, <2>2
<1>3. \A o \in a..b : f[a] <= f[o]
  <2> HIDE DEF G
  <2>1. a..b \subseteq G
    BY <1>1, <1>2, UpToInduction
  <2> QED
    BY <2>1 DEF G
<1> DEFINE H == {d \in 0 .. b - a : f[b - d] <= f[b]}
<1>4. 0 \in H
  OBVIOUS
<1>5. ASSUME NEW d \in 0 .. (b - a) - 1, d \in H PROVE d + 1 \in H
  <2> DEFINE o == b - (d + 1)
  <2>1. o \in a .. b - 1 /\ o + 1 = b - d /\ o + 1 \in a..b /\ o \in a..b /\ b \in a..b
    OBVIOUS
  <2>2. f[o] <= f[o + 1] /\ f[o + 1] <= f[b] /\ f[o] \in Int /\ f[o + 1] \in Int /\ f[b] \in Int
    BY <1>5, <2>1
  <2> QED
    BY <2>1, <2>2
<1>6. ASSUME NEW o \in a..b PROVE f[o] <= f[b]
  <2> HIDE DEF H
  <2>1. 0 .. b - a \subseteq H
    BY <1>4, <1>5, UpToInduction
  <2>2. b - o \in H /\ b - (b - o) = o
    BY <2>1
  <2> QED
    BY <2>2 DEF H
<1> QED
  BY <1>3, <1>6
=============================================================================
