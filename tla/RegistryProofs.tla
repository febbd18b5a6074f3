---------------------------- MODULE RegistryProofs ----------------------------
(***************************************************************************)
(* discover_entry_points for every list of entry points: it loses none, it *)
(* sorts, and what it returns does not depend on the order the entry       *)
(* points came in, as long as no two of them have one name.                *)
(*                                                                         *)
(* The argument: NamePlace counts the entry points up to and including the *)
(* j-th in the order of name and position.  That order is total, so two    *)
(* entry points never have the same place, and n places are filled by n    *)
(* entry points.                                                           *)
(***************************************************************************)
EXTENDS Registry, Induction, FunctionTheorems

UpTo(eps, j) ==
    {m \in 1..Len(eps) :
        \/ eps[m].name < eps[j].name
        \/ eps[m].name = eps[j].name /\ m <= j}

Placed(eps) == [j \in 1..Len(eps) |-> NamePlace(eps, j)]

LEMMA OneTo ==
    ASSUME NEW n \in Nat
    PROVE  IsFiniteSet(1..n) /\ Cardinality(1..n) = n
<1>1. 1 \in Int /\ n \in Int
  OBVIOUS
<1>2. /\ IsFiniteSet(1..n)
      /\ Cardinality(1..n) = IF 1 > n THEN 0 ELSE n - 1 + 1
  BY <1>1, FS_Interval, Zenon
<1> QED
  BY <1>2

\* The order of name and position is total.
LEMMA Total ==
    ASSUME NEW eps, Len(eps) \in Nat, \A j \in 1..Len(eps) : eps[j].name \in Int,
           NEW j \in 1..Len(eps), NEW m \in 1..Len(eps), j # m
    PROVE  \/ /\ UpTo(eps, j) \subseteq UpTo(eps, m) /\ m \notin UpTo(eps, j)
              /\ eps[j].name <= eps[m].name
           \/ /\ UpTo(eps, m) \subseteq UpTo(eps, j) /\ j \notin UpTo(eps, m)
              /\ eps[m].name <= eps[j].name
<1>1. CASE eps[j].name < eps[m].name \/ (eps[j].name = eps[m].name /\ j < m)
  BY <1>1 DEF UpTo
<1>2. CASE eps[m].name < eps[j].name \/ (eps[j].name = eps[m].name /\ m < j)
  BY <1>2 DEF UpTo
<1> QED
  BY <1>1, <1>2

\* A place is a number from 1 to the number of entry points.
LEMMA PlaceIsPlace ==
    ASSUME NEW eps, Len(eps) \in Nat, \A j \in 1..Len(eps) : eps[j].name \in Int,
           NEW j \in 1..Len(eps)
    PROVE  /\ NamePlace(eps, j) \in 1..Len(eps)
           /\ NamePlace(eps, j) = Cardinality(UpTo(eps, j))
           /\ IsFiniteSet(UpTo(eps, j))
<1>1. NamePlace(eps, j) = Cardinality(UpTo(eps, j))
  BY DEF NamePlace, UpTo
<1>2. IsFiniteSet(1..Len(eps)) /\ Cardinality(1..Len(eps)) = Len(eps)
  BY OneTo
<1>3. UpTo(eps, j) \in SUBSET (1..Len(eps)) /\ j \in UpTo(eps, j)
  BY DEF UpTo
<1>4. IsFiniteSet(UpTo(eps, j)) /\ Cardinality(UpTo(eps, j)) <= Len(eps)
  BY <1>2, <1>3, FS_Subset
<1>5. Cardinality(UpTo(eps, j)) \in Nat /\ Cardinality(UpTo(eps, j)) # 0
  BY <1>3, <1>4, FS_CardinalityType, FS_EmptySet
<1> QED
  BY <1>1, <1>4, <1>5

\* What comes later by name or position has a greater place.
LEMMA PlacesDiffer ==
    ASSUME NEW eps, Len(eps) \in Nat, \A j \in 1..Len(eps) : eps[j].name \in Int,
           NEW j \in 1..Len(eps), NEW m \in 1..Len(eps),
           UpTo(eps, j) \subseteq UpTo(eps, m), m \notin UpTo(eps, j)
    PROVE  NamePlace(eps, j) < NamePlace(eps, m)
<1>1. m \in UpTo(eps, m)
  BY DEF UpTo
<1>2. /\ IsFiniteSet(UpTo(eps, m))
      /\ NamePlace(eps, j) = Cardinality(UpTo(eps, j)) /\ NamePlace(eps, j) \in Nat
      /\ NamePlace(eps, m) = Cardinality(UpTo(eps, m)) /\ NamePlace(eps, m) \in Nat
  BY PlaceIsPlace
<1>3. UpTo(eps, j) \in SUBSET UpTo(eps, m) /\ UpTo(eps, j) # UpTo(eps, m)
  BY <1>1
<1>4. /\ Cardinality(UpTo(eps, j)) <= Cardinality(UpTo(eps, m))
      /\ Cardinality(UpTo(eps, m)) # Cardinality(UpTo(eps, j))
  BY <1>2, <1>3, FS_Subset
<1> QED
  BY <1>2, <1>4

\* Every place is taken, once.
LEMMA PlacesFilled ==
    ASSUME NEW eps, Len(eps) \in Nat, \A j \in 1..Len(eps) : eps[j].name \in Int
    PROVE  /\ \A j, m \in 1..Len(eps) :
                  NamePlace(eps, j) = NamePlace(eps, m) => j = m
           /\ \A n \in 1..Len(eps) : \E j \in 1..Len(eps) : NamePlace(eps, j) = n
<1> DEFINE all == 1..Len(eps)
<1>1. \A j, m \in all : NamePlace(eps, j) = NamePlace(eps, m) => j = m
  <2> SUFFICES ASSUME NEW j \in all, NEW m \in all, j # m
               PROVE  NamePlace(eps, j) # NamePlace(eps, m)
    OBVIOUS
  <2>1. NamePlace(eps, j) \in Nat /\ NamePlace(eps, m) \in Nat
    BY PlaceIsPlace
  <2>2. NamePlace(eps, j) < NamePlace(eps, m) \/ NamePlace(eps, m) < NamePlace(eps, j)
    <3>1. CASE UpTo(eps, j) \subseteq UpTo(eps, m) /\ m \notin UpTo(eps, j)
      BY <3>1, PlacesDiffer
    <3>2. CASE UpTo(eps, m) \subseteq UpTo(eps, j) /\ j \notin UpTo(eps, m)
      BY <3>2, PlacesDiffer
    <3> QED
      BY <3>1, <3>2, Total
  <2> QED
    BY <2>1, <2>2
<1>2. Placed(eps) \in [all -> all] /\ \A j \in all : Placed(eps)[j] = NamePlace(eps, j)
  BY PlaceIsPlace DEF Placed
<1>3. Placed(eps) \in Injection(all, all)
  <2>1. \A a, b \in all : Placed(eps)[a] = Placed(eps)[b] => a = b
    BY <1>1, <1>2
  <2> QED
    BY <1>2, <2>1, Fun_IsInj
<1>4. IsFiniteSet(all)
  BY OneTo
<1>5. Placed(eps) \in Surjection(all, all)
  BY <1>3, <1>4, FS_Injection
<1>6. \A n \in all : \E j \in all : Placed(eps)[j] = n
  BY <1>5, Fun_SurjectionProperties
<1> QED
  BY <1>1, <1>2, <1>6

-----------------------------------------------------------------------------

\* discover_entry_points returns the entry points that are installed, each of
\* them once, by name (patches.py:46-50).
THEOREM EntryPointsSorted ==
    ASSUME NEW eps, Len(eps) \in Nat, \A j \in 1..Len(eps) : eps[j].name \in Int
    PROVE  /\ \A n \in 1..Len(eps) : \E j \in 1..Len(eps) :
                  /\ NamePlace(eps, j) = n
                  /\ DiscoverEntryPoints(eps)[n] = eps[j]
           /\ \A j \in 1..Len(eps) : DiscoverEntryPoints(eps)[NamePlace(eps, j)] = eps[j]
           /\ \A m, n \in 1..Len(eps) : m < n =>
                  DiscoverEntryPoints(eps)[m].name <= DiscoverEntryPoints(eps)[n].name
<1> DEFINE all == 1..Len(eps)
           at(n) == CHOOSE j \in all : NamePlace(eps, j) = n
<1>1. \A n \in all : DiscoverEntryPoints(eps)[n] = eps[at(n)]
  BY DEF DiscoverEntryPoints
<1>2. \A n \in all : at(n) \in all /\ NamePlace(eps, at(n)) = n
  BY PlacesFilled
<1>3. \A j \in all : DiscoverEntryPoints(eps)[NamePlace(eps, j)] = eps[j]
  <2> TAKE j \in all
  <2>1. NamePlace(eps, j) \in all
    BY PlaceIsPlace
  <2>2. at(NamePlace(eps, j)) = j
    BY <1>2, <2>1, PlacesFilled
  <2> QED
    BY <1>1, <2>1, <2>2
<1>4. ASSUME NEW m \in all, NEW n \in all, m < n
      PROVE  eps[at(m)].name <= eps[at(n)].name
  <2>0. /\ at(m) \in all /\ at(n) \in all /\ at(m) # at(n)
        /\ NamePlace(eps, at(m)) = m /\ NamePlace(eps, at(n)) = n
    BY <1>2, <1>4
  <2> HIDE DEF at
  <2>1. ~ (UpTo(eps, at(n)) \subseteq UpTo(eps, at(m)) /\ at(m) \notin UpTo(eps, at(n)))
    <3> SUFFICES ASSUME UpTo(eps, at(n)) \subseteq UpTo(eps, at(m)),
                        at(m) \notin UpTo(eps, at(n))
                 PROVE  FALSE
      OBVIOUS
    <3>1. NamePlace(eps, at(n)) < NamePlace(eps, at(m))
      BY <2>0, PlacesDiffer
    <3> QED
      BY <1>4, <2>0, <3>1
  <2> QED
    BY <2>0, <2>1, Total
<1>5. \A n \in all : \E j \in all : /\ NamePlace(eps, j) = n
                                    /\ DiscoverEntryPoints(eps)[n] = eps[j]
  <2> TAKE n \in all
  <2>1. /\ at(n) \in all /\ NamePlace(eps, at(n)) = n
        /\ DiscoverEntryPoints(eps)[n] = eps[at(n)]
    BY <1>1, <1>2
  <2> HIDE DEF at
  <2> QED
    BY <2>1
<1>6. \A m, n \in all : m < n =>
          DiscoverEntryPoints(eps)[m].name <= DiscoverEntryPoints(eps)[n].name
  <2> TAKE m, n \in all
  <2>1. HAVE m < n
  <2>2. /\ DiscoverEntryPoints(eps)[m] = eps[at(m)]
        /\ DiscoverEntryPoints(eps)[n] = eps[at(n)]
    BY <1>1
  <2>3. eps[at(m)].name <= eps[at(n)].name
    BY <1>4, <2>1
  <2> HIDE DEF at
  <2> QED
    BY <2>2, <2>3
<1> HIDE DEF at
<1> QED
  BY <1>3, <1>5, <1>6

-----------------------------------------------------------------------------

NoLater(eps, name) == {e \in {eps[m] : m \in 1..Len(eps)} : e.name <= name}

\* Entry points with distinct names: a place is the number of providers whose
\* name comes no later, whatever the list.
LEMMA PlaceByName ==
    ASSUME NEW eps, Len(eps) \in Nat, \A j \in 1..Len(eps) : eps[j].name \in Int,
           \A j, m \in 1..Len(eps) : eps[j].name = eps[m].name => j = m,
           NEW j \in 1..Len(eps)
    PROVE  NamePlace(eps, j) = Cardinality(NoLater(eps, eps[j].name))
<1> DEFINE S == UpTo(eps, j)
           T == {e \in {eps[m] : m \in 1..Len(eps)} : e.name <= eps[j].name}
           f == [m \in S |-> eps[m]]
<1>1. S \subseteq 1..Len(eps) /\ \A m \in S : eps[m].name <= eps[j].name
  BY DEF UpTo
<1>2. f \in [S -> T]
  BY <1>1
<1>3. \A a, b \in S : f[a] = f[b] => a = b
  BY <1>1
<1>4. ASSUME NEW t \in T
      PROVE  \E m \in S : f[m] = t
  <2>1. PICK m \in 1..Len(eps) : eps[m] = t
    OBVIOUS
  <2>2. eps[m].name <= eps[j].name
    BY <2>1
  <2>3. eps[m].name < eps[j].name \/ m = j
    BY <2>2
  <2>4. m \in S
    BY <2>3 DEF UpTo
  <2> QED
    BY <2>1, <2>4
<1>5. f \in Bijection(S, T)
  <2> HIDE DEF f, S, T
  <2> QED
    BY <1>2, <1>3, <1>4, Fun_IsBij
<1>6. IsFiniteSet(S) /\ NamePlace(eps, j) = Cardinality(S)
  BY PlaceIsPlace
<1>7. ExistsBijection(S, T)
  <2> HIDE DEF f, S, T
  <2> QED
    BY <1>5, Fun_ExistsBij
<1>8. Cardinality(T) = Cardinality(S)
  <2> HIDE DEF f, S, T
  <2> QED
    BY <1>6, <1>7, FS_Bijection
<1> QED
  BY <1>6, <1>8 DEF NoLater

\* The order in which the packages were installed makes no difference to the
\* order in which their providers are loaded, as long as no two entry points
\* have one name (patches.py:11-15, 46-50).
THEOREM InstallationOrderIrrelevant ==
    ASSUME NEW eps, NEW other, Len(eps) \in Nat, Len(other) = Len(eps),
           \A j \in 1..Len(eps) : eps[j].name \in Int,
           \A j, m \in 1..Len(eps) : eps[j].name = eps[m].name => j = m,
           {eps[j] : j \in 1..Len(eps)} = {other[j] : j \in 1..Len(eps)}
    PROVE  DiscoverEntryPoints(other) = DiscoverEntryPoints(eps)
<1> DEFINE all == 1..Len(eps)
           R == {eps[j] : j \in all}
           f == [j \in all |-> eps[j]]
           g == [j \in all |-> other[j]]
<1>1. IsFiniteSet(all)
  BY OneTo
<1>2. Cardinality(R) = Cardinality(all) /\ IsFiniteSet(R)
  <2>1. f \in [all -> R] /\ (\A a, b \in all : f[a] = f[b] => a = b)
        /\ (\A t \in R : \E a \in all : f[a] = t)
    OBVIOUS
  <2> HIDE DEF f, R, all
  <2>2. f \in Bijection(all, R)
    BY <2>1, Fun_IsBij
  <2>3. ExistsBijection(all, R)
    BY <2>2, Fun_ExistsBij
  <2> QED
    BY <1>1, <2>3, FS_Bijection
<1>3. \A a, b \in all : other[a] = other[b] => a = b
  <2>1. g \in [all -> R] /\ (\A t \in R : \E a \in all : g[a] = t)
    OBVIOUS
  <2>2. \A a \in all : g[a] = other[a]
    OBVIOUS
  <2> HIDE DEF g, R, all
  <2>3. g \in Surjection(all, R)
    BY <2>1, Fun_IsSurj
  <2>4. g \in Injection(all, R)
    BY <1>1, <1>2, <2>3, FS_SurjSameCardinalityImpliesInj
  <2> QED
    BY <2>2, <2>4, Fun_InjectionProperties
<1>4. \A j \in all : \E m \in all : other[j] = eps[m]
  OBVIOUS
<1>5. \A j \in all : other[j].name \in Int
  BY <1>4
<1>6. ASSUME NEW j \in all, NEW m \in all, other[j].name = other[m].name
      PROVE  j = m
  <2>1. PICK a \in all : other[j] = eps[a]
    BY <1>4
  <2>2. PICK b \in all : other[m] = eps[b]
    BY <1>4
  <2>3. a = b
    BY <1>6, <2>1, <2>2
  <2> QED
    BY <1>3, <2>1, <2>2, <2>3
<1>7. ASSUME NEW n \in all
      PROVE  DiscoverEntryPoints(other)[n] = DiscoverEntryPoints(eps)[n]
  <2>1. PICK j \in all : NamePlace(eps, j) = n /\ DiscoverEntryPoints(eps)[n] = eps[j]
    BY EntryPointsSorted
  <2>2. PICK m \in all : other[m] = eps[j]
    OBVIOUS
  <2>3. NamePlace(eps, j) = Cardinality(NoLater(eps, eps[j].name))
    BY PlaceByName
  <2>4. NamePlace(other, m) = Cardinality(NoLater(other, other[m].name))
    <3>1. /\ Len(other) \in Nat /\ m \in 1..Len(other)
          /\ \A l \in 1..Len(other) : other[l].name \in Int
          /\ \A a, b \in 1..Len(other) : other[a].name = other[b].name => a = b
      BY <1>5, <1>6
    <3> HIDE DEF all
    <3> QED
      BY <3>1, PlaceByName
  <2>5. NamePlace(other, m) = n
    <3>1. NoLater(other, eps[j].name) = NoLater(eps, eps[j].name)
      BY DEF NoLater
    <3> QED
      BY <2>1, <2>2, <2>3, <2>4, <3>1
  <2>6. DiscoverEntryPoints(other)[NamePlace(other, m)] = other[m]
    BY <1>5, EntryPointsSorted
  <2> QED
    BY <2>1, <2>2, <2>5, <2>6
<1> QED
  BY <1>7 DEF DiscoverEntryPoints

-----------------------------------------------------------------------------
(* Registries as concatenations.                                           *)

LEMMA PatchesOfNone ==
    ASSUME NEW eps
    PROVE  PatchesOf(eps, 0) = <<>>
<1>1. [m \in 1..0 |-> DiscoverEntryPoints(eps)[m].patches] = <<>>
  OBVIOUS
<1> QED
  BY <1>1, FlattenEmpty DEF PatchesOf

LEMMA PatchesOfNext ==
    ASSUME NEW V, NEW eps, NEW n \in Nat,
           \A m \in 1 .. n + 1 : DiscoverEntryPoints(eps)[m].patches \in Seq(V)
    PROVE  /\ PatchesOf(eps, n) \in Seq(V)
           /\ PatchesOf(eps, n + 1) =
                  Then(PatchesOf(eps, n), DiscoverEntryPoints(eps)[n + 1].patches)
<1> DEFINE w == [m \in 1 .. n + 1 |-> DiscoverEntryPoints(eps)[m].patches]
           v == [m \in 1..n |-> w[m]]
<1>1. w \in [1 .. n + 1 -> Seq(V)] /\ v \in [1..n -> Seq(V)]
  OBVIOUS
<1>2. v = [m \in 1..n |-> DiscoverEntryPoints(eps)[m].patches]
  OBVIOUS
<1>3. w[n + 1] = DiscoverEntryPoints(eps)[n + 1].patches
  OBVIOUS
<1>4. PatchesOf(eps, n + 1) = FlattenSeq(w) /\ PatchesOf(eps, n) = FlattenSeq(v)
  BY <1>2 DEF PatchesOf
<1> HIDE DEF w
<1>5. FlattenSeq(w) = Then(FlattenSeq(v), w[n + 1])
  BY <1>1, FlattenNext
<1> HIDE DEF v
<1>6. FlattenSeq(v) \in Seq(V)
  BY <1>1, FlattenType
<1> QED
  BY <1>3, <1>4, <1>5, <1>6

-----------------------------------------------------------------------------
(* The text that is hashed.                                                *)

\* Characters up to and including one line end.
Lines ==
    {l \in IntTexts : /\ Len(l) > 0 /\ l[Len(l)] = NEWLINE
                      /\ \A k \in 1 .. Len(l) - 1 : l[k] # NEWLINE}

\* A text that may be followed by a line.
LinesEnd(s) == Len(s) > 0 => s[Len(s)] = NEWLINE

\* Of two ways to read off the last line, one would have a line end within.
LEMMA LastLineNoShorter ==
    ASSUME NEW a \in IntTexts, NEW x \in Lines, LinesEnd(a),
           NEW b \in IntTexts, NEW y \in Lines, LinesEnd(b),
           Then(a, x) = Then(b, y)
    PROVE  ~(Len(a) < Len(b))
<1> SUFFICES ASSUME Len(a) < Len(b) PROVE FALSE
  OBVIOUS
<1>1. /\ x \in IntTexts /\ y \in IntTexts /\ Len(y) > 0
      /\ Len(a) \in Nat /\ Len(b) \in Nat /\ Len(x) \in Nat
  BY DEF Lines, IntTexts
<1>2. Len(a) + Len(x) = Len(b) + Len(y)
  <2>1. Len(Then(a, x)) = Len(a) + Len(x)
    BY <1>1, TextThen
  <2>2. Len(Then(b, y)) = Len(b) + Len(y)
    BY <1>1, TextThen
  <2> QED
    BY <2>1, <2>2
<1>3. Len(b) \in 1..Len(b)
  BY <1>1
<1>4. Then(b, y)[Len(b)] = NEWLINE
  BY <1>1, <1>3, TextFirst DEF LinesEnd
<1> DEFINE k == Len(b) - Len(a)
<1>5. k \in 1 .. Len(x) - 1 /\ Len(a) + k = Len(b)
  BY <1>1, <1>2, <1>3
<1>6. Then(a, x)[Len(a) + k] = x[k]
  <2> HIDE DEF k
  <2>1. k \in 1..Len(x)
    BY <1>1, <1>5
  <2> QED
    BY <1>1, <2>1, TextLast
<1>7. x[k] # NEWLINE
  BY <1>5 DEF Lines
<1> QED
  BY <1>4, <1>5, <1>6, <1>7

LEMMA LastLine ==
    ASSUME NEW a \in IntTexts, NEW x \in Lines, LinesEnd(a),
           NEW b \in IntTexts, NEW y \in Lines, LinesEnd(b),
           Then(a, x) = Then(b, y)
    PROVE  a = b /\ x = y
<1>1. /\ x \in IntTexts /\ y \in IntTexts
      /\ Len(a) \in Nat /\ Len(x) \in Nat /\ Len(y) \in Nat
  BY DEF Lines, IntTexts
<1>2. Len(a) = Len(b)
  <2>1. ~(Len(a) < Len(b)) /\ ~(Len(b) < Len(a))
    BY LastLineNoShorter
  <2> QED
    BY <2>1
<1>3. Len(a) + Len(x) = Len(b) + Len(y)
  <2>1. Len(Then(a, x)) = Len(a) + Len(x)
    BY <1>1, TextThen
  <2>2. Len(Then(b, y)) = Len(b) + Len(y)
    BY <1>1, TextThen
  <2> QED
    BY <2>1, <2>2
<1>4. Len(x) = Len(y)
  BY <1>1, <1>2, <1>3
<1>5. ASSUME NEW k \in 1..Len(a) PROVE a[k] = b[k]
  <2>1. Then(a, x)[k] = a[k]
    BY <1>1, TextFirst
  <2>2. Then(b, y)[k] = b[k]
    BY <1>1, <1>2, TextFirst
  <2> QED
    BY <2>1, <2>2
<1>6. ASSUME NEW k \in 1..Len(x) PROVE x[k] = y[k]
  <2>1. Then(a, x)[Len(a) + k] = x[k]
    BY <1>1, TextLast
  <2>2. Then(b, y)[Len(b) + k] = y[k]
    BY <1>1, <1>4, TextLast
  <2> QED
    BY <1>2, <2>1, <2>2
<1> QED
  BY <1>1, <1>2, <1>4, <1>5, <1>6, TextEqual

\* A text of lines ends with a line end.
LEMMA TextOfLines ==
    ASSUME NEW n \in Nat, NEW w \in [1 .. n + 1 -> Lines]
    PROVE  LET v == [k \in 1..n |-> w[k]]
           IN /\ FlattenSeq(v) \in IntTexts
              /\ FlattenSeq(w) = Then(FlattenSeq(v), w[n + 1])
              /\ FlattenSeq(w) \in IntTexts /\ Len(FlattenSeq(w)) > 0
              /\ LinesEnd(FlattenSeq(w))
<1> DEFINE v == [k \in 1..n |-> w[k]]
           l == w[n + 1]
<1>1. w \in [1 .. n + 1 -> Seq(Int)]
  BY DEF Lines, IntTexts
<1>2. v \in [1..n -> Seq(Int)]
  BY DEF Lines, IntTexts
<1>3. l \in Lines
  OBVIOUS
<1>4. FlattenSeq(w) = Then(FlattenSeq(v), l)
  BY <1>1, FlattenNext
<1> HIDE DEF v, l
<1>5. FlattenSeq(v) \in IntTexts
  BY <1>2, FlattenType DEF IntTexts
<1>6. l \in IntTexts /\ Len(l) > 0 /\ l[Len(l)] = NEWLINE
  BY <1>3 DEF Lines
<1> DEFINE s == FlattenSeq(v)
           t == Then(s, l)
<1>7. /\ t \in IntTexts /\ Len(t) = Len(s) + Len(l)
      /\ t[Len(s) + Len(l)] = l[Len(l)]
  <2>1. Len(l) \in 1..Len(l)
    BY <1>6
  <2> QED
    BY <1>5, <1>6, <2>1, TextThen, TextLast
<1>8. Len(t) > 0 /\ LinesEnd(t)
  <2> HIDE DEF t, s
  <2>1. Len(s) \in Nat
    BY <1>5 DEF s
  <2> QED
    BY <1>6, <1>7, <2>1 DEF LinesEnd
<1> QED
  BY <1>4, <1>5, <1>7, <1>8 DEF v, l

\* A number of lines that is not 0 is one more than another.
LEMMA Predecessor ==
    ASSUME NEW n \in Nat, n # 0
    PROVE  \E m \in Nat : n = m + 1
<1>1. n - 1 \in Nat /\ n = (n - 1) + 1
  OBVIOUS
<1> QED
  BY <1>1

\* A text of no lines is empty, any other is not.
LEMMA TextOfAnyLines ==
    ASSUME NEW n \in Nat, NEW w \in [1..n -> Lines]
    PROVE  /\ FlattenSeq(w) \in IntTexts /\ LinesEnd(FlattenSeq(w))
           /\ n = 0 => Len(FlattenSeq(w)) = 0
           /\ n # 0 => Len(FlattenSeq(w)) > 0
<1>1. CASE n = 0
  <2>1. w = <<>>
    BY <1>1
  <2>2. FlattenSeq(w) = <<>>
    BY <2>1, FlattenEmpty
  <2>3. <<>> \in IntTexts /\ Len(<<>>) = 0
    BY DEF IntTexts
  <2> QED
    BY <1>1, <2>2, <2>3 DEF LinesEnd
<1>2. CASE n # 0
  <2>1. PICK m \in Nat : n = m + 1
    BY <1>2, Predecessor
  <2>2. w \in [1 .. m + 1 -> Lines]
    BY <2>1
  <2> QED
    BY <1>2, <2>2, TextOfLines
<1> QED
  BY <1>1, <1>2

\* The text w tells that it is made of n lines, and of which.
Tells(n, w) ==
    \A m \in Nat : \A v \in [1..m -> Lines] :
        FlattenSeq(w) = FlattenSeq(v) => n = m /\ w = v

LEMMA TellsNone ==
    ASSUME NEW w \in [1..0 -> Lines]
    PROVE  Tells(0, w)
<1> SUFFICES ASSUME NEW m \in Nat, NEW v \in [1..m -> Lines],
                    FlattenSeq(w) = FlattenSeq(v)
             PROVE  0 = m /\ w = v
  BY DEF Tells
<1>1. Len(FlattenSeq(w)) = 0
  BY TextOfAnyLines
<1>2. m = 0
  BY <1>1, TextOfAnyLines
<1>3. w = <<>> /\ v = <<>>
  BY <1>2
<1> QED
  BY <1>2, <1>3

LEMMA TellsNext ==
    ASSUME NEW n \in Nat, NEW w \in [1 .. n + 1 -> Lines],
           Tells(n, [k \in 1..n |-> w[k]])
    PROVE  Tells(n + 1, w)
<1> SUFFICES ASSUME NEW m \in Nat, NEW v \in [1..m -> Lines],
                    FlattenSeq(w) = FlattenSeq(v)
             PROVE  n + 1 = m /\ w = v
  BY DEF Tells
<1>1. n + 1 \in Nat /\ n + 1 # 0
  OBVIOUS
<1>2. Len(FlattenSeq(w)) > 0
  BY <1>1, TextOfAnyLines
<1>3. m # 0
  BY <1>2, TextOfAnyLines
<1>4. PICK l \in Nat : m = l + 1
  BY <1>3, Predecessor
<1>5. v \in [1 .. l + 1 -> Lines]
  BY <1>4
<1> DEFINE x == [k \in 1..n |-> w[k]]
           y == [k \in 1..l |-> v[k]]
<1>6. x \in [1..n -> Lines] /\ y \in [1..l -> Lines]
  BY <1>5
<1>7. w[n + 1] \in Lines /\ v[l + 1] \in Lines
  BY <1>5
<1>8. FlattenSeq(w) = Then(FlattenSeq(x), w[n + 1])
  BY TextOfLines
<1>9. FlattenSeq(v) = Then(FlattenSeq(y), v[l + 1])
  BY <1>5, TextOfLines
<1>10. /\ \A k \in 1..n : x[k] = w[k]
       /\ \A k \in 1..l : y[k] = v[k]
  OBVIOUS
<1> HIDE DEF x, y
<1>11. /\ FlattenSeq(x) \in IntTexts /\ LinesEnd(FlattenSeq(x))
       /\ FlattenSeq(y) \in IntTexts /\ LinesEnd(FlattenSeq(y))
  BY <1>6, TextOfAnyLines
<1>12. FlattenSeq(x) = FlattenSeq(y) /\ w[n + 1] = v[l + 1]
  <2> DEFINE a == FlattenSeq(x)
             b == FlattenSeq(y)
             c == w[n + 1]
             d == v[l + 1]
  <2>1. Then(a, c) = Then(b, d)
    BY <1>8, <1>9
  <2>2. a \in IntTexts /\ b \in IntTexts /\ LinesEnd(a) /\ LinesEnd(b) /\ c \in Lines /\ d \in Lines
    BY <1>7, <1>11
  <2> HIDE DEF a, b, c, d
  <2>3. a = b /\ c = d
    BY <2>1, <2>2, LastLine
  <2> QED
    BY <2>3 DEF a, b, c, d
<1>13. n = l /\ x = y
  BY <1>6, <1>12 DEF Tells, x
<1>14. ASSUME NEW k \in 1 .. n + 1 PROVE w[k] = v[k]
  <2>1. k \in 1..n \/ k = n + 1
    OBVIOUS
  <2> QED
    BY <1>10, <1>12, <1>13, <2>1
<1>15. w = v
  <2>1. v \in [1 .. n + 1 -> Lines]
    BY <1>5, <1>13
  <2> QED
    BY <1>14, <2>1
<1> QED
  BY <1>4, <1>13, <1>15

\* A text tells the lines it was made of, and so how many they were.
LEMMA TextTellsLines ==
    ASSUME NEW n \in Nat, NEW w \in [1..n -> Lines]
    PROVE  Tells(n, w)
<1> DEFINE G == {k \in 0..n : \A x \in [1..k -> Lines] : Tells(k, x)}
<1>1. 0 \in G
  BY TellsNone
<1>2. ASSUME NEW k \in 0 .. n - 1, k \in G PROVE k + 1 \in G
  <2>1. k \in Nat /\ k + 1 \in 0..n
    OBVIOUS
  <2>2. ASSUME NEW x \in [1 .. k + 1 -> Lines] PROVE Tells(k + 1, x)
    <3>1. [i \in 1..k |-> x[i]] \in [1..k -> Lines]
      OBVIOUS
    <3>2. Tells(k, [i \in 1..k |-> x[i]])
      BY <1>2, <3>1
    <3> QED
      BY <2>1, <3>2, TellsNext
  <2> QED
    BY <2>1, <2>2
<1>3. 0..n \subseteq G
  <2>1. 0 \in Int /\ n \in Int
    OBVIOUS
  <2> HIDE DEF G
  <2> QED
    BY <1>1, <1>2, <2>1, UpToInduction
<1> QED
  BY <1>3

\* A key that has no line end in it.
OneLineKey(patch) ==
    patch.key \in Seq(Int) /\ \A k \in 1..Len(patch.key) : patch.key[k] # NEWLINE

LEMMA KeyLineIsLine ==
    ASSUME NEW patch, OneLineKey(patch)
    PROVE  /\ KeyLine(patch) \in Lines
           /\ Len(KeyLine(patch)) = Len(patch.key) + 1
           /\ \A k \in 1..Len(patch.key) : KeyLine(patch)[k] = patch.key[k]
<1> DEFINE key == patch.key
           line == Append(key, NEWLINE)
<1>1. key \in Seq(Int) /\ NEWLINE \in Int /\ Len(key) \in Nat
  BY DEF OneLineKey, NEWLINE
<1>2. \A k \in 1..Len(key) : key[k] # NEWLINE
  BY DEF OneLineKey
<1> HIDE DEF key
<1>3. /\ line \in IntTexts /\ Len(line) = Len(key) + 1
      /\ line[Len(key) + 1] = NEWLINE
      /\ \A k \in 1..Len(key) : line[k] = key[k]
  BY <1>1, AppendProperties DEF IntTexts
<1> HIDE DEF line
<1>4. line \in Lines
  BY <1>1, <1>2, <1>3 DEF Lines
<1> QED
  BY <1>3, <1>4 DEF KeyLine, line, key

\* Two registries whose key texts are one have as many patches, with the same
\* keys in the same order, as long as no key has a line end in it: what
\* cmd_emit_cache_key hashes (cli.py:227-237) tells the registry.
THEOREM KeyTextTellsKeys ==
    ASSUME NEW p, Len(p) \in Nat, \A k \in 1..Len(p) : OneLineKey(p[k]),
           NEW q, Len(q) \in Nat, \A k \in 1..Len(q) : OneLineKey(q[k]),
           KeyText(p) = KeyText(q)
    PROVE  Len(p) = Len(q) /\ \A k \in 1..Len(p) : p[k].key = q[k].key
<1> DEFINE w == [k \in 1..Len(p) |-> KeyLine(p[k])]
           v == [k \in 1..Len(q) |-> KeyLine(q[k])]
<1>1. w \in [1..Len(p) -> Lines] /\ v \in [1..Len(q) -> Lines]
  BY KeyLineIsLine
<1>2. FlattenSeq(w) = FlattenSeq(v)
  BY DEF KeyText
<1>3. /\ \A k \in 1..Len(p) : w[k] = KeyLine(p[k])
      /\ \A k \in 1..Len(q) : v[k] = KeyLine(q[k])
  OBVIOUS
<1> HIDE DEF w, v
<1>4. Tells(Len(p), w)
  BY <1>1, TextTellsLines
<1>5. Len(p) = Len(q) /\ w = v
  BY <1>1, <1>2, <1>4 DEF Tells
<1>6. ASSUME NEW k \in 1..Len(p) PROVE p[k].key = q[k].key
  <2>1. OneLineKey(p[k]) /\ OneLineKey(q[k])
    BY <1>5
  <2>2. KeyLine(p[k]) = KeyLine(q[k])
    BY <1>3, <1>5
  <2> DEFINE a == p[k].key
             b == q[k].key
  <2>3. a \in IntTexts /\ b \in IntTexts /\ Len(a) \in Nat /\ Len(b) \in Nat
    BY <2>1 DEF OneLineKey, IntTexts
  <2>4. Len(a) + 1 = Len(b) + 1
    BY <2>1, <2>2, KeyLineIsLine
  <2>5. Len(a) = Len(b)
    BY <2>3, <2>4
  <2>6. ASSUME NEW i \in 1..Len(a) PROVE a[i] = b[i]
    <3>1. KeyLine(p[k])[i] = a[i]
      BY <2>1, KeyLineIsLine
    <3>2. KeyLine(q[k])[i] = b[i]
      BY <2>1, <2>5, KeyLineIsLine
    <3> QED
      BY <2>2, <3>1, <3>2
  <2> HIDE DEF a, b
  <2>7. a = b
    BY <2>3, <2>5, <2>6, TextEqual
  <2> QED
    BY <2>7 DEF a, b
<1> QED
  BY <1>5, <1>6
=============================================================================
