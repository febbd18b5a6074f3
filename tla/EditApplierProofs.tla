-------------------------- MODULE EditApplierProofs --------------------------
(***************************************************************************)
(* For every image and every plan: an accepted plan has no overlapping     *)
(* edits, and its splices find the text they expect.  The argument follows *)
(* the two loops; no induction over the plan is needed, because the edits  *)
(* are sorted: what ends before its neighbour ends before all that follow. *)
(* Where the edits and the text between them land is a sum over the edits  *)
(* that have been spliced so far (Settled); what one splice adds to such   *)
(* sums does take an induction, over sets of edits.                        *)
(* Lemmas about cells, about what the parsers read and about whole pages   *)
(* follow, which PatchedImageProofs builds on.                             *)
(***************************************************************************)
EXTENDS EditApplier, Induction

SplicePhase == {"sort", "overlaps", "same_length", "growable"}
Accepted == pc \notin {"sort", "overlaps", "rejected"}

\* sorted holds edits in one of the orders sorted() may produce, and the loop
\* over neighbours has found no conflict in what it has compared so far.
OrderInv ==
    /\ image \in Seq(Int)
    /\ edits \in Seq(Edit)
    /\ i \in Int
    /\ pc \in SplicePhase => buf \in Seq(Int)
    /\ pc # "sort" => \E p \in SortedOrders(edits) :
                          sorted = [k \in 1..N |-> edits[p[k]]]
    /\ pc = "overlaps" =>
          /\ i >= 1
          /\ \A k \in 1 .. N - 1 : k < i => ~Conflict(sorted[k], sorted[k + 1])
    /\ Accepted => \A k \in 1 .. N - 1 : ~Conflict(sorted[k], sorted[k + 1])
    /\ pc = "same_length" => i >= 1
    /\ pc = "growable" => i <= N

\* Every edit that is still to be spliced finds its old text where it expects
\* it: all growables and the same-length edits from i on in the first loop,
\* the growables up to i in offset order in the second.
SpliceInv ==
    (\A k \in 1..N : Matches(image, edits[k])) =>
        /\ pc # "mismatch"
        /\ pc \in {"sort", "overlaps"} => buf = image
        /\ pc = "same_length" =>
              \A k \in 1..N : Growable(edits[k]) \/ k >= i => Matches(buf, edits[k])
        /\ pc = "growable" =>
              \A k \in 1..N : Growable(sorted[k]) /\ k <= i => Matches(buf, sorted[k])

-----------------------------------------------------------------------------
(* Splicing leaves what lies in front of the range, and moves what follows *)
(* it by the edit's delta.                                                 *)

LEMMA ThreeParts ==
    ASSUME NEW h \in Seq(Int), NEW m \in Seq(Int), NEW t \in Seq(Int)
    PROVE  /\ (h \o m) \o t \in Seq(Int)
           /\ Len((h \o m) \o t) = Len(h) + Len(m) + Len(t)
           /\ \A x \in 1..Len(h) : ((h \o m) \o t)[x] = h[x]
           /\ \A x \in 1..Len(m) : ((h \o m) \o t)[Len(h) + x] = m[x]
           /\ \A x \in 1..Len(t) : ((h \o m) \o t)[Len(h) + Len(m) + x] = t[x]
<1>1. Len(h) \in Nat /\ Len(m) \in Nat /\ Len(t) \in Nat
  BY LenProperties
<1> DEFINE hm == h \o m
           w == hm \o t
<1>2. /\ hm \in Seq(Int) /\ Len(hm) = Len(h) + Len(m)
      /\ \A x \in 1 .. Len(h) + Len(m) :
            hm[x] = IF x <= Len(h) THEN h[x] ELSE m[x - Len(h)]
  BY ConcatProperties
<1> HIDE DEF hm
<1>3. /\ w \in Seq(Int) /\ Len(w) = Len(hm) + Len(t)
      /\ \A x \in 1 .. Len(hm) + Len(t) :
            w[x] = IF x <= Len(hm) THEN hm[x] ELSE t[x - Len(hm)]
  <2>1. hm \in Seq(Int)
    BY <1>2
  <2> QED
    BY <2>1, ConcatProperties
<1> HIDE DEF w
<1>4. ASSUME NEW x \in 1..Len(h) PROVE w[x] = h[x]
  <2>1. x \in 1 .. Len(h) + Len(m) /\ x \in 1 .. Len(hm) + Len(t) /\ x <= Len(hm)
        /\ x <= Len(h)
    BY <1>1, <1>2
  <2>2. w[x] = hm[x]
    BY <1>3, <2>1
  <2> QED
    BY <1>2, <2>1, <2>2
<1>5. ASSUME NEW x \in 1..Len(t) PROVE w[Len(h) + Len(m) + x] = t[x]
  <2> DEFINE y == Len(h) + Len(m) + x
  <2>1. y \in 1 .. Len(hm) + Len(t) /\ ~(y <= Len(hm)) /\ y - Len(hm) = x
    BY <1>1, <1>2
  <2> HIDE DEF y
  <2>2. w[y] = t[x]
    BY <1>3, <2>1
  <2> QED
    BY <2>2 DEF y
<1>6. Len(w) = Len(h) + Len(m) + Len(t)
  BY <1>1, <1>2, <1>3
<1>7. ASSUME NEW x \in 1..Len(m) PROVE w[Len(h) + x] = m[x]
  <2> DEFINE y == Len(h) + x
  <2>1. /\ y \in 1 .. Len(h) + Len(m) /\ y \in 1 .. Len(hm) + Len(t)
        /\ y <= Len(hm) /\ ~(y <= Len(h)) /\ y - Len(h) = x
    BY <1>1, <1>2
  <2> HIDE DEF y
  <2>2. w[y] = hm[y] /\ hm[y] = m[x]
    BY <1>2, <1>3, <2>1
  <2> QED
    BY <2>2 DEF y
<1>8. /\ w \in Seq(Int) /\ Len(w) = Len(h) + Len(m) + Len(t)
      /\ \A x \in 1..Len(h) : w[x] = h[x]
      /\ \A x \in 1..Len(m) : w[Len(h) + x] = m[x]
      /\ \A x \in 1..Len(t) : w[Len(h) + Len(m) + x] = t[x]
  BY <1>3, <1>4, <1>5, <1>6, <1>7
<1> QED
  BY <1>8 DEF w, hm

LEMMA PrefixOf ==
    ASSUME NEW b \in Seq(Int), NEW a \in Nat, a <= Len(b)
    PROVE  /\ SubSeq(b, 1, a) \in Seq(Int) /\ Len(SubSeq(b, 1, a)) = a
           /\ \A x \in 1..a : SubSeq(b, 1, a)[x] = b[x]
<1> DEFINE head == SubSeq(b, 1, a)
<1>1. Len(b) \in Nat /\ \A x \in 1..a : b[x] \in Int
  BY LenProperties, ElementOfSeq
<1>2. /\ head \in Seq(Int)
      /\ Len(head) = IF 1 <= a THEN a - 1 + 1 ELSE 0
      /\ \A x \in 1 .. a - 1 + 1 : head[x] = b[1 + x - 1]
  BY <1>1, SubSeqProperties
<1> HIDE DEF head
<1>3. a - 1 + 1 = a
  OBVIOUS
<1>4. Len(head) = a
  BY <1>2
<1>5. ASSUME NEW x \in 1..a PROVE head[x] = b[x]
  <2>1. 1 + x - 1 = x
    OBVIOUS
  <2> QED
    BY <1>2, <1>3, <2>1
<1> QED
  BY <1>2, <1>4, <1>5 DEF head

LEMMA SuffixOf ==
    ASSUME NEW b \in Seq(Int), NEW z \in Nat, z <= Len(b)
    PROVE  /\ SubSeq(b, z + 1, Len(b)) \in Seq(Int)
           /\ Len(SubSeq(b, z + 1, Len(b))) = Len(b) - z
           /\ \A x \in 1 .. Len(b) - z : SubSeq(b, z + 1, Len(b))[x] = b[z + x]
<1> DEFINE tail == SubSeq(b, z + 1, Len(b))
<1>1. Len(b) \in Nat /\ \A x \in z + 1 .. Len(b) : b[x] \in Int
  BY LenProperties, ElementOfSeq
<1>2. /\ tail \in Seq(Int)
      /\ Len(tail) = IF z + 1 <= Len(b) THEN Len(b) - (z + 1) + 1 ELSE 0
      /\ \A x \in 1 .. Len(b) - (z + 1) + 1 : tail[x] = b[z + 1 + x - 1]
  BY <1>1, SubSeqProperties
<1> HIDE DEF tail
<1>3. Len(b) - (z + 1) + 1 = Len(b) - z
  BY <1>1
<1>4. Len(tail) = Len(b) - z
  BY <1>1, <1>2
<1>5. ASSUME NEW x \in 1 .. Len(b) - z PROVE tail[x] = b[z + x]
  <2>1. z + 1 + x - 1 = z + x
    BY <1>1
  <2> QED
    BY <1>2, <1>3, <2>1
<1> QED
  BY <1>2, <1>4, <1>5 DEF tail

LEMMA EditTypes ==
    ASSUME NEW e \in Edit
    PROVE  /\ e.offset \in Nat /\ e.old \in Seq(Int) /\ e.new \in Seq(Int)
           /\ Len(e.old) \in Nat /\ Len(e.new) \in Nat
           /\ EndOf(e) \in Nat /\ e.offset <= EndOf(e)
           /\ EndOf(e) = e.offset + Len(e.old) /\ Delta(e) = Len(e.new) - Len(e.old)
<1>1. e.offset \in Nat /\ e.old \in Seq(Int) /\ e.new \in Seq(Int)
  BY DEF Edit
<1>2. Len(e.old) \in Nat /\ Len(e.new) \in Nat
  BY <1>1, LenProperties
<1> QED
  BY <1>1, <1>2 DEF EndOf, Delta

LEMMA SpliceCells ==
    ASSUME NEW b \in Seq(Int), NEW e \in Edit, EndOf(e) <= Len(b)
    PROVE  /\ Splice(b, e) \in Seq(Int)
           /\ Len(Splice(b, e)) = Len(b) + Delta(e)
           /\ \A x \in 1..e.offset : Splice(b, e)[x] = b[x]
           /\ \A x \in 1..Len(e.new) : Splice(b, e)[e.offset + x] = e.new[x]
           /\ \A x \in EndOf(e) + 1 .. Len(b) : Splice(b, e)[x + Delta(e)] = b[x]
<1> DEFINE o == e.offset
           z == EndOf(e)
           d == Delta(e)
           new == e.new
           old == Len(e.old)
           h == SubSeq(b, 1, o)
           t == SubSeq(b, z + 1, Len(b))
           w == Splice(b, e)
<1>1. /\ o \in Nat /\ new \in Seq(Int) /\ old \in Nat /\ Len(new) \in Nat
      /\ z \in Nat /\ o <= z /\ z = o + old /\ d = Len(new) - old
      /\ z <= Len(b)
  BY EditTypes
<1>2. w = (h \o new) \o t
  BY DEF Splice
<1> HIDE DEF o, z, d, new, old, w
<1>3. Len(b) \in Nat /\ o <= Len(b)
  BY <1>1, LenProperties
<1>4. h \in Seq(Int) /\ Len(h) = o /\ \A x \in 1..o : h[x] = b[x]
  BY <1>1, <1>3, PrefixOf
<1>5. /\ t \in Seq(Int) /\ Len(t) = Len(b) - z
      /\ \A x \in 1 .. Len(b) - z : t[x] = b[z + x]
  BY <1>1, <1>3, SuffixOf
<1> HIDE DEF h, t
<1>6. /\ w \in Seq(Int) /\ Len(w) = Len(h) + Len(new) + Len(t)
      /\ \A x \in 1..Len(h) : w[x] = h[x]
      /\ \A x \in 1..Len(new) : w[Len(h) + x] = new[x]
      /\ \A x \in 1..Len(t) : w[Len(h) + Len(new) + x] = t[x]
  <2>1. h \in Seq(Int) /\ new \in Seq(Int) /\ t \in Seq(Int)
    BY <1>1, <1>4, <1>5
  <2> QED
    BY <1>2, <2>1, ThreeParts
<1>7. Len(w) = Len(b) + d
  BY <1>1, <1>3, <1>4, <1>5, <1>6
<1>8. \A x \in 1..o : w[x] = b[x]
  BY <1>4, <1>6
<1>9. ASSUME NEW x \in z + 1 .. Len(b) PROVE w[x + d] = b[x]
  <2> DEFINE y == x - z
  <2>1. y \in 1 .. Len(b) - z /\ z + y = x
    BY <1>1, <1>3
  <2>2. x + d = Len(h) + Len(new) + y
    BY <1>1, <1>3, <1>4
  <2> HIDE DEF y
  <2> QED
    BY <1>5, <1>6, <2>1, <2>2
<1>10. \A x \in 1..Len(new) : w[o + x] = new[x]
  BY <1>4, <1>6
<1> QED
  BY <1>6, <1>7, <1>8, <1>9, <1>10 DEF o, z, d, w, new

\* A text in front of the spliced range is still found where it was.
LEMMA MatchesBefore ==
    ASSUME NEW b \in Seq(Int), NEW e \in Edit, NEW f \in Edit,
           EndOf(e) <= Len(b), EndOf(f) <= e.offset, Matches(b, f)
    PROVE  Matches(Splice(b, e), f)
<1> DEFINE o == e.offset
           d == Delta(e)
           oldf == f.old
           w == Splice(b, e)
<1>1. /\ o \in Nat /\ f.offset \in Nat /\ Len(oldf) \in Nat /\ Len(b) \in Nat
      /\ EndOf(f) = f.offset + Len(oldf) /\ EndOf(f) <= o
  BY EditTypes, LenProperties
<1>2. o <= Len(b) + d
  <2> DEFINE old == Len(e.old)
             new == Len(e.new)
  <2>1. old \in Nat /\ new \in Nat /\ o + old <= Len(b) /\ d = new - old
    BY EditTypes
  <2> HIDE DEF old, new, o, d
  <2> QED
    BY <1>1, <2>1
<1>3. Len(w) = Len(b) + d /\ \A x \in 1..o : w[x] = b[x]
  BY SpliceCells
<1>4. \A k \in 1..Len(oldf) : b[f.offset + k] = oldf[k]
  BY DEF Matches
<1> HIDE DEF o, d, w, oldf
<1>5. \A k \in 1..Len(oldf) : f.offset + k \in 1..o
  BY <1>1
<1>6. \A k \in 1..Len(oldf) : w[f.offset + k] = oldf[k]
  BY <1>3, <1>4, <1>5
<1>7. EndOf(f) <= Len(w)
  BY <1>1, <1>2, <1>3
<1> QED
  BY <1>6, <1>7 DEF Matches, w, oldf

\* A same-length splice disturbs no text outside its range.
LEMMA MatchesBeside ==
    ASSUME NEW b \in Seq(Int), NEW e \in Edit, NEW f \in Edit,
           EndOf(e) <= Len(b), Disjoint(e, f), Matches(b, f), ~Growable(e)
    PROVE  Matches(Splice(b, e), f)
<1>1. CASE EndOf(f) <= e.offset
  BY <1>1, MatchesBefore
<1>2. CASE EndOf(e) <= f.offset
  <2>1. /\ f.offset \in Nat /\ Len(f.old) \in Nat /\ EndOf(e) \in Nat
        /\ Len(b) \in Nat /\ EndOf(f) = f.offset + Len(f.old)
    BY EditTypes, LenProperties
  <2>2. Delta(e) = 0
    BY DEF Growable
  <2> DEFINE w == Splice(b, e)
  <2>3. Len(w) = Len(b) + 0 /\ \A x \in EndOf(e) + 1 .. Len(b) : w[x + 0] = b[x]
    BY <2>2, SpliceCells
  <2> HIDE DEF w
  <2>4. \A x \in EndOf(e) + 1 .. Len(b) : w[x] = b[x]
    BY <2>1, <2>3
  <2>5. EndOf(f) <= Len(b) /\ \A k \in 1..Len(f.old) : b[f.offset + k] = f.old[k]
    BY DEF Matches
  <2>6. \A k \in 1..Len(f.old) : f.offset + k \in EndOf(e) + 1 .. Len(b)
    BY <1>2, <2>1, <2>5
  <2>7. \A k \in 1..Len(f.old) : w[f.offset + k] = f.old[k]
    BY <2>4, <2>5, <2>6
  <2>8. EndOf(f) <= Len(w)
    BY <2>1, <2>3, <2>5
  <2>9. Matches(w, f)
    BY <2>7, <2>8 DEF Matches
  <2> QED
    BY <2>9 DEF w
<1> QED
  BY <1>1, <1>2 DEF Disjoint

-----------------------------------------------------------------------------
(* What sorting gives: offsets ascend, and every edit is in the order.     *)

LEMMA SortedFacts ==
    ASSUME edits \in Seq(Edit), NEW p \in SortedOrders(edits),
           sorted = [k \in 1..N |-> edits[p[k]]]
    PROVE  /\ N \in Nat
           /\ p \in [1..N -> 1..N]
           /\ \A k \in 1..N : sorted[k] = edits[p[k]] /\ sorted[k] \in Edit
           /\ \A k \in 1..N : \E j \in 1..N : p[j] = k
           /\ \A j, k \in 1..N : j < k => sorted[j].offset <= sorted[k].offset
<1>1. N \in Nat /\ \A k \in 1..N : edits[k] \in Edit
  BY DEF N
<1>2. /\ p \in [1..N -> 1..N]
      /\ \A k \in 1..N : \E j \in 1..N : p[j] = k
      /\ \A j, k \in 1..N : j < k =>
            \/ edits[p[j]].offset < edits[p[k]].offset
            \/ edits[p[j]].offset = edits[p[k]].offset /\ p[j] < p[k]
  BY DEF SortedOrders, N
<1>3. \A k \in 1..N : sorted[k] = edits[p[k]] /\ sorted[k] \in Edit
  BY <1>1, <1>2
<1>4. \A j, k \in 1..N : j < k => sorted[j].offset <= sorted[k].offset
  <2> SUFFICES ASSUME NEW j \in 1..N, NEW k \in 1..N, j < k
               PROVE sorted[j].offset <= sorted[k].offset
    OBVIOUS
  <2>1. sorted[j].offset \in Nat /\ sorted[k].offset \in Nat
    BY <1>3 DEF Edit
  <2>2. \/ sorted[j].offset < sorted[k].offset
        \/ sorted[j].offset = sorted[k].offset
    BY <1>2, <1>3
  <2> QED
    BY <2>1, <2>2
<1> QED
  BY <1>1, <1>2, <1>3, <1>4

\* No conflict between neighbours: everything earlier in the order ends
\* before everything later begins.
LEMMA SortedDisjoint ==
    ASSUME edits \in Seq(Edit), NEW p \in SortedOrders(edits),
           sorted = [k \in 1..N |-> edits[p[k]]],
           \A k \in 1 .. N - 1 : ~Conflict(sorted[k], sorted[k + 1])
    PROVE  \A j, k \in 1..N : j < k => EndOf(sorted[j]) <= sorted[k].offset
<1> SUFFICES ASSUME NEW j \in 1..N, NEW k \in 1..N, j < k
             PROVE EndOf(sorted[j]) <= sorted[k].offset
  OBVIOUS
<1>1. /\ N \in Nat
      /\ \A n \in 1..N : sorted[n] \in Edit
      /\ \A m, n \in 1..N : m < n => sorted[m].offset <= sorted[n].offset
  BY SortedFacts
<1>2. j \in 1 .. N - 1 /\ j + 1 \in 1..N
  BY <1>1
<1>3. /\ sorted[j + 1].offset \in Nat /\ sorted[k].offset \in Nat
      /\ EndOf(sorted[j]) \in Nat
  BY <1>1, <1>2, EditTypes
<1> DEFINE ends == EndOf(sorted[j])
           next == sorted[j + 1].offset
           last == sorted[k].offset
<1>4. ~(ends > next)
  BY <1>2 DEF Conflict
<1>5. j + 1 = k \/ j + 1 < k
  BY <1>1
<1>6. next = last \/ next <= last
  BY <1>1, <1>2, <1>5
<1>7. ends \in Nat /\ next \in Nat /\ last \in Nat
  BY <1>3
<1> HIDE DEF ends, next, last
<1>8. ends <= last
  BY <1>4, <1>6, <1>7
<1> QED
  BY <1>8 DEF ends, last

LEMMA NoOverlap ==
    ASSUME OrderInv, Accepted
    PROVE  \A j, k \in 1..N : j # k => Disjoint(edits[j], edits[k])
<1>1. PICK p \in SortedOrders(edits) : sorted = [k \in 1..N |-> edits[p[k]]]
  BY DEF OrderInv, Accepted
<1>2. \A a, b \in 1..N : a < b => EndOf(sorted[a]) <= sorted[b].offset
  BY <1>1, SortedDisjoint DEF OrderInv
<1>3. /\ N \in Nat
      /\ \A k \in 1..N : sorted[k] = edits[p[k]]
      /\ \A k \in 1..N : \E j \in 1..N : p[j] = k
  BY <1>1, SortedFacts DEF OrderInv
<1> SUFFICES ASSUME NEW j \in 1..N, NEW k \in 1..N, j # k
             PROVE Disjoint(edits[j], edits[k])
  OBVIOUS
<1>4. PICK a \in 1..N : p[a] = j
  BY <1>3
<1>5. PICK b \in 1..N : p[b] = k
  BY <1>3
<1>6. a < b \/ b < a
  BY <1>3, <1>4, <1>5
<1> QED
  BY <1>2, <1>3, <1>4, <1>5, <1>6 DEF Disjoint

\* In an accepted plan no two edits begin at one offset.
LEMMA NoSameOffset ==
    ASSUME OrderInv, Accepted
    PROVE  \A a, b \in 1..N : a # b => edits[a].offset # edits[b].offset
<1>1. PICK p \in SortedOrders(edits) : sorted = [n \in 1..N |-> edits[p[n]]]
  BY DEF OrderInv, Accepted
<1>2. /\ N \in Nat /\ edits \in Seq(Edit)
      /\ \A n \in 1..N : sorted[n] = edits[p[n]] /\ sorted[n] \in Edit
      /\ \A n \in 1..N : \E m \in 1..N : p[m] = n
      /\ \A m, n \in 1..N : m < n => sorted[m].offset <= sorted[n].offset
      /\ \A n \in 1 .. N - 1 : ~Conflict(sorted[n], sorted[n + 1])
  BY <1>1, SortedFacts DEF OrderInv, Accepted
<1>S. \A m, n \in 1..N : m < n => sorted[m].offset <= sorted[n].offset
  BY <1>2
<1>N. N \in Nat
  BY <1>2
<1>3. ASSUME NEW m \in 1..N, NEW n \in 1..N, m < n
      PROVE  sorted[m].offset < sorted[n].offset
  <2>1. m \in 1 .. N - 1 /\ m + 1 \in 1..N /\ (m + 1 = n \/ m + 1 < n)
    BY <1>2, <1>3
  <2>2. sorted[m].offset # sorted[m + 1].offset
    BY <1>2, <2>1 DEF Conflict
  <2>3. /\ sorted[m].offset \in Nat /\ sorted[m + 1].offset \in Nat
        /\ sorted[n].offset \in Nat
    BY <1>2, <2>1 DEF Edit
  <2>4. sorted[m].offset <= sorted[m + 1].offset
    <3>1. m < m + 1
      BY <1>N
    <3> QED
      BY <1>S, <2>1, <3>1
  <2>5. sorted[m + 1].offset <= sorted[n].offset
    <3>1. CASE m + 1 = n
      BY <2>3, <3>1
    <3>2. CASE m + 1 < n
      BY <1>S, <2>1, <3>2
    <3> QED
      BY <2>1, <3>1, <3>2
  <2> QED
    BY <2>2, <2>3, <2>4, <2>5
<1> TAKE a, b \in 1..N
<1> HAVE a # b
<1>4. PICK m \in 1..N : p[m] = a
  BY <1>2
<1>5. PICK n \in 1..N : p[n] = b
  BY <1>2
<1>6. m < n \/ n < m
  <2>1. m # n
    BY <1>4, <1>5
  <2> QED
    BY <1>N, <2>1
<1>7. sorted[m].offset # sorted[n].offset
  <2>1. sorted[m].offset \in Nat /\ sorted[n].offset \in Nat
    BY <1>2 DEF Edit
  <2> QED
    BY <1>3, <1>6, <2>1
<1> QED
  BY <1>2, <1>4, <1>5, <1>7

-----------------------------------------------------------------------------
(* The order is fixed by Sort, and what the neighbour loop has compared    *)
(* stays compared.                                                         *)

LEMMA OrderInit == Init => OrderInv
<1> SUFFICES ASSUME Init PROVE OrderInv
  OBVIOUS
<1>1. image \in Seq(Int) /\ edits \in Seq(Edit)
  BY ImagesAssumption, PlansAssumption DEF Init
<1> QED
  BY <1>1 DEF Init, OrderInv, Accepted

\* A step that leaves the plan and its order alone, once it is accepted.
LEMMA OrderKept ==
    ASSUME OrderInv, Accepted, pc' \notin {"sort", "overlaps"}, i' \in Int,
           image' = image, edits' = edits, sorted' = sorted,
           pc' \in SplicePhase => buf' \in Seq(Int),
           pc' = "same_length" => i' >= 1, pc' = "growable" => i' <= N
    PROVE  OrderInv'
<1>1. N' = N
  BY DEF N
<1>2. PICK p \in SortedOrders(edits) : sorted = [k \in 1..N |-> edits[p[k]]]
  BY DEF OrderInv, Accepted
<1>3. \E q \in SortedOrders(edits') : sorted' = [k \in 1..N' |-> edits'[q[k]]]
  BY <1>1, <1>2
<1>4. \A k \in 1 .. N' - 1 : ~Conflict(sorted'[k], sorted'[k + 1])
  BY <1>1 DEF OrderInv
<1>5. image' \in Seq(Int) /\ edits' \in Seq(Edit)
  BY DEF OrderInv
<1>6. pc' = "growable" => i' <= N'
  BY <1>1
<1> QED
  BY <1>3, <1>4, <1>5, <1>6 DEF OrderInv

LEMMA SplicedBuf ==
    ASSUME NEW e \in Edit, NEW next \in Int, i \in Int, buf \in Seq(Int),
           VerifyAndSplice(e, next)
    PROVE  buf' \in Seq(Int) /\ i' \in {i, next} /\ pc' \in {pc, "mismatch"}
<1>1. CASE Matches(buf, e)
  <2>1. buf' = Splice(buf, e) /\ i' = next /\ pc' = pc
    BY <1>1 DEF VerifyAndSplice
  <2>2. EndOf(e) <= Len(buf)
    BY <1>1 DEF Matches
  <2> QED
    BY <2>1, <2>2, SpliceCells
<1>2. CASE ~Matches(buf, e)
  BY <1>2 DEF VerifyAndSplice
<1> QED
  BY <1>1, <1>2

\* The steps behind the splicing loops.
Rewrites ==
    \/ RewriteStringPointers \/ InvalidateBytecode \/ RewriteBunFraming
    \/ RewriteElfHeaders \/ RewriteMachOHeaders

LEMMA RewritesEnd ==
    ASSUME Rewrites
    PROVE  /\ Accepted /\ pc' \notin SplicePhase
           /\ pc' \in {"bytecode", "framing", "container", "done", "refused"}
           /\ i' = i
           /\ image' = image /\ edits' = edits /\ sorted' = sorted
BY DEF Rewrites, RewriteStringPointers, InvalidateBytecode, RewriteBunFraming,
       RewriteElfHeaders, RewriteMachOHeaders, Accepted, SplicePhase

LEMMA OrderStep == OrderInv /\ [Next]_vars => OrderInv'
<1> SUFFICES ASSUME OrderInv, [Next]_vars PROVE OrderInv'
  OBVIOUS
<1>0. N \in Nat /\ edits \in Seq(Edit) /\ i \in Int /\ image \in Seq(Int)
  BY LenProperties DEF OrderInv, N
<1>1. CASE Sort
  <2>1. /\ pc = "sort" /\ pc' = "overlaps" /\ i' = 1
        /\ UNCHANGED <<image, edits, buf>>
    BY <1>1 DEF Sort
  <2>2. \E p \in SortedOrders(edits) : sorted' = [k \in 1..N |-> edits[p[k]]]
    BY <1>1 DEF Sort
  <2>3. N' = N
    BY <2>1 DEF N
  <2>4. \E p \in SortedOrders(edits') : sorted' = [k \in 1..N' |-> edits'[p[k]]]
    BY <2>1, <2>2, <2>3
  <2>5. \A k \in 1 .. N' - 1 : ~(k < i')
    BY <1>0, <2>1, <2>3
  <2>6. buf' \in Seq(Int)
    BY <2>1 DEF OrderInv, SplicePhase
  <2>7. i' \in Int /\ i' >= 1
    BY <2>1
  <2> QED
    BY <1>0, <2>1, <2>4, <2>5, <2>6, <2>7 DEF OrderInv, Accepted
<1>2. CASE CheckNeighbours
  <2>1. /\ pc = "overlaps" /\ i < N
        /\ UNCHANGED <<image, edits, sorted, buf>>
    BY <1>2 DEF CheckNeighbours
  <2>2. N' = N /\ i >= 1 /\ buf \in Seq(Int)
    BY <2>1 DEF N, OrderInv, SplicePhase
  <2>3. \E p \in SortedOrders(edits') : sorted' = [k \in 1..N' |-> edits'[p[k]]]
    BY <2>1, <2>2 DEF OrderInv
  <2>4. CASE Conflict(sorted[i], sorted[i + 1])
    <3>1. pc' = "rejected" /\ i' = i
      BY <1>2, <2>4 DEF CheckNeighbours
    <3> QED
      BY <1>0, <2>1, <2>2, <2>3, <3>1 DEF OrderInv, Accepted, SplicePhase
  <2>5. CASE ~Conflict(sorted[i], sorted[i + 1])
    <3>1. pc' = "overlaps" /\ i' = i + 1
      BY <1>2, <2>1, <2>5 DEF CheckNeighbours
    <3>2. ASSUME NEW k \in 1 .. N - 1, k < i + 1
          PROVE ~Conflict(sorted[k], sorted[k + 1])
      <4>1. k < i \/ k = i
        BY <1>0, <3>2
      <4> QED
        BY <2>1, <2>5, <3>2, <4>1 DEF OrderInv
    <3>3. \A k \in 1 .. N' - 1 :
              k < i' => ~Conflict(sorted'[k], sorted'[k + 1])
      <4>1. sorted' = sorted
        BY <2>1
      <4> QED
        BY <2>2, <3>1, <3>2, <4>1
    <3>4. i' \in Int /\ i' >= 1
      BY <1>0, <2>2, <3>1
    <3>5. image' \in Seq(Int) /\ edits' \in Seq(Edit) /\ buf' \in Seq(Int)
      BY <1>0, <2>1, <2>2
    <3> QED
      BY <2>3, <3>1, <3>3, <3>4, <3>5 DEF OrderInv, Accepted
  <2> QED
    BY <2>4, <2>5
<1>3. CASE CheckRegions
  <2>1. /\ pc = "overlaps" /\ i >= N /\ i' = 1 /\ pc' \in {"same_length", "rejected"}
        /\ image' = image /\ edits' = edits /\ sorted' = sorted /\ buf' = buf
    BY <1>3 DEF CheckRegions
  <2>2. N' = N /\ buf \in Seq(Int)
    BY <2>1 DEF N, OrderInv, SplicePhase
  <2>3. \E p \in SortedOrders(edits') : sorted' = [k \in 1..N' |-> edits'[p[k]]]
    BY <2>1, <2>2 DEF OrderInv
  <2>4. \A k \in 1 .. N - 1 : k < i
    BY <1>0, <2>1
  <2>5. \A k \in 1 .. N - 1 : ~Conflict(sorted[k], sorted[k + 1])
    BY <2>1, <2>4 DEF OrderInv
  <2>6. \A k \in 1 .. N' - 1 : ~Conflict(sorted'[k], sorted'[k + 1])
    BY <2>1, <2>2, <2>5
  <2>7. image' \in Seq(Int) /\ edits' \in Seq(Edit) /\ buf' \in Seq(Int) /\ i' \in Int
    BY <1>0, <2>1, <2>2
  <2>8. pc' \notin {"overlaps", "growable"} /\ i' >= 1
    BY <2>1
  <2> QED
    BY <2>3, <2>6, <2>7, <2>8 DEF OrderInv
<1>4. CASE SpliceSameLength
  <2>1. /\ pc = "same_length" /\ i <= N
        /\ image' = image /\ edits' = edits /\ sorted' = sorted
    BY <1>4 DEF SpliceSameLength
  <2>2. Accepted /\ buf \in Seq(Int) /\ i >= 1
    BY <2>1 DEF Accepted, OrderInv, SplicePhase
  <2>3. CASE Growable(edits[i])
    <3>1. i' = i + 1 /\ pc' = pc /\ buf' = buf
      BY <1>4, <2>3 DEF SpliceSameLength
    <3>2. i' \in Int /\ i' >= 1
      BY <1>0, <2>2, <3>1
    <3> QED
      BY <2>1, <2>2, <3>1, <3>2, OrderKept
  <2>4. CASE ~Growable(edits[i])
    <3>1. VerifyAndSplice(edits[i], i + 1)
      BY <1>4, <2>4 DEF SpliceSameLength
    <3>2. i \in 1..N /\ i + 1 \in Int
      BY <1>0, <2>1, <2>2
    <3>3. edits[i] \in Edit
      BY <1>0, <3>2 DEF N
    <3>4. buf' \in Seq(Int) /\ i' \in {i, i + 1} /\ pc' \in {pc, "mismatch"}
      BY <2>2, <3>1, <3>2, <3>3, SplicedBuf
    <3>5. i' \in Int /\ i' >= 1
      BY <3>2, <3>4
    <3> QED
      BY <2>1, <2>2, <3>4, <3>5, OrderKept
  <2> QED
    BY <2>3, <2>4
<1>5. CASE SameLengthDone
  <2>1. /\ pc = "same_length" /\ pc' \in {"bytecode", "growable"} /\ i' = N
        /\ image' = image /\ edits' = edits /\ sorted' = sorted /\ buf' = buf
    BY <1>5 DEF SameLengthDone
  <2>2. Accepted /\ buf \in Seq(Int)
    BY <2>1 DEF Accepted, OrderInv, SplicePhase
  <2>3. i' \in Int /\ i' <= N
    BY <1>0, <2>1
  <2> QED
    BY <2>1, <2>2, <2>3, OrderKept
<1>6. CASE SpliceGrowable
  <2>1. /\ pc = "growable" /\ i >= 1
        /\ image' = image /\ edits' = edits /\ sorted' = sorted
    BY <1>6 DEF SpliceGrowable
  <2>2. Accepted /\ buf \in Seq(Int) /\ i <= N
    BY <2>1 DEF Accepted, OrderInv, SplicePhase
  <2>3. i \in 1..N /\ i - 1 \in Int
    BY <1>0, <2>1, <2>2
  <2>4. CASE ~Growable(sorted[i])
    <3>1. i' = i - 1 /\ pc' = pc /\ buf' = buf
      BY <1>6, <2>4 DEF SpliceGrowable, GrowableTurn
    <3>2. i' \in Int /\ i' <= N
      BY <1>0, <2>3, <3>1
    <3> QED
      BY <2>1, <2>2, <3>1, <3>2, OrderKept
  <2>5. CASE Growable(sorted[i])
    <3>1. VerifyAndSplice(sorted[i], i - 1)
      BY <1>6, <2>5 DEF SpliceGrowable, GrowableTurn
    <3>2. PICK p \in SortedOrders(edits) : sorted = [k \in 1..N |-> edits[p[k]]]
      BY <2>2 DEF OrderInv, Accepted
    <3>3. sorted[i] \in Edit
      BY <1>0, <2>3, <3>2, SortedFacts
    <3>4. buf' \in Seq(Int) /\ i' \in {i, i - 1} /\ pc' \in {pc, "mismatch"}
      BY <2>2, <2>3, <3>1, <3>3, SplicedBuf
    <3>5. i' \in Int /\ i' <= N
      BY <1>0, <2>3, <3>4
    <3> QED
      BY <2>1, <2>2, <3>4, <3>5, OrderKept
  <2> QED
    BY <2>4, <2>5
<1>7. CASE Rewrites
  <2>1. /\ Accepted /\ pc' \notin SplicePhase /\ pc' # "rejected" /\ i' = i
        /\ image' = image /\ edits' = edits /\ sorted' = sorted
    BY <1>7, RewritesEnd
  <2> QED
    BY <1>0, <2>1, OrderKept DEF SplicePhase
<1>8. CASE UNCHANGED vars
  <2>1. N' = N /\ pc' = pc /\ i' = i /\ buf' = buf
        /\ image' = image /\ edits' = edits /\ sorted' = sorted
    BY <1>8 DEF vars, N
  <2> QED
    BY <2>1 DEF OrderInv, Accepted
<1> QED
  BY <1>1, <1>2, <1>3, <1>4, <1>5, <1>6, <1>7, <1>8 DEF Next, Finished, Rewrites

-----------------------------------------------------------------------------
(* Text still to be spliced is where its edit expects it.                  *)

LEMMA SpliceInit == Init => SpliceInv
BY DEF Init, SpliceInv

LEMMA SpliceStep ==
    OrderInv /\ SpliceInv /\ [Next]_vars => SpliceInv'
<1> SUFFICES ASSUME OrderInv, SpliceInv, [Next]_vars,
                    (\A k \in 1..N : Matches(image, edits[k]))'
             PROVE  SpliceInv'
  BY DEF SpliceInv
<1>0. /\ N \in Nat /\ i \in Int /\ \A k \in 1..N : edits[k] \in Edit
      /\ image' = image /\ edits' = edits /\ N' = N
  <2>1. image' = image /\ edits' = edits
    BY DEF Next, vars, Finished, Sort, CheckNeighbours, CheckRegions,
           SpliceSameLength, SameLengthDone, SpliceGrowable,
           RewriteStringPointers, InvalidateBytecode, RewriteBunFraming,
           RewriteElfHeaders, RewriteMachOHeaders
  <2> QED
    BY <2>1, LenProperties DEF OrderInv, N
<1>H. \A k \in 1..N : Matches(image, edits[k])
  BY <1>0
<1>1. CASE Sort \/ CheckNeighbours
  <2>1. pc' \in {"overlaps", "rejected"} /\ pc \in {"sort", "overlaps"} /\ buf' = buf
    BY <1>1 DEF Sort, CheckNeighbours
  <2> QED
    BY <1>0, <1>H, <2>1 DEF SpliceInv
<1>2. CASE CheckRegions
  <2>1. pc = "overlaps" /\ pc' \in {"same_length", "rejected"} /\ buf' = buf
    BY <1>2 DEF CheckRegions
  <2>2. buf' = image
    BY <1>H, <2>1 DEF SpliceInv
  <2>3. \A k \in 1..N' : Matches(buf', edits'[k])
    BY <1>0, <1>H, <2>2
  <2> QED
    BY <2>1, <2>3 DEF SpliceInv
<1>3. CASE SpliceSameLength
  <2>1. pc = "same_length" /\ i <= N
    BY <1>3 DEF SpliceSameLength
  <2>2. Accepted /\ buf \in Seq(Int) /\ i \in 1..N
    BY <1>0, <2>1 DEF Accepted, OrderInv, SplicePhase
  <2>3. \A k \in 1..N : Growable(edits[k]) \/ k >= i => Matches(buf, edits[k])
    BY <1>H, <2>1 DEF SpliceInv
  <2>4. CASE Growable(edits[i])
    <3>1. i' = i + 1 /\ pc' = pc /\ buf' = buf
      BY <1>3, <2>4 DEF SpliceSameLength
    <3>2. \A k \in 1..N : k >= i + 1 => k >= i
      BY <1>0
    <3>3. \A k \in 1..N' : Growable(edits'[k]) \/ k >= i' => Matches(buf', edits'[k])
      BY <1>0, <2>3, <3>1, <3>2
    <3> QED
      BY <2>1, <3>1, <3>3 DEF SpliceInv
  <2>5. CASE ~Growable(edits[i])
    <3>1. Matches(buf, edits[i])
      BY <1>0, <2>2, <2>3
    <3>2. buf' = Splice(buf, edits[i]) /\ i' = i + 1 /\ pc' = pc
      BY <1>3, <2>5, <3>1 DEF SpliceSameLength, VerifyAndSplice
    <3>3. ASSUME NEW k \in 1..N, Growable(edits[k]) \/ k >= i + 1
          PROVE  Matches(buf', edits[k])
      <4>1. k # i /\ (Growable(edits[k]) \/ k >= i)
        BY <1>0, <2>5, <3>3
      <4>2. Disjoint(edits[i], edits[k])
        BY <2>2, <4>1, NoOverlap
      <4>3. Matches(buf, edits[k]) /\ EndOf(edits[i]) <= Len(buf)
        BY <2>3, <3>1, <4>1 DEF Matches
      <4>4. edits[i] \in Edit /\ edits[k] \in Edit
        BY <1>0, <2>2
      <4> QED
        BY <2>2, <2>5, <3>2, <4>2, <4>3, <4>4, MatchesBeside
    <3>4. \A k \in 1..N' : Growable(edits'[k]) \/ k >= i' => Matches(buf', edits'[k])
      BY <1>0, <3>2, <3>3
    <3> QED
      BY <2>1, <3>2, <3>4 DEF SpliceInv
  <2> QED
    BY <2>4, <2>5
<1>4. CASE SameLengthDone
  <2>1. /\ pc = "same_length" /\ pc' \in {"bytecode", "growable"} /\ i' = N
        /\ sorted' = sorted /\ buf' = buf
    BY <1>4 DEF SameLengthDone
  <2>2. PICK p \in SortedOrders(edits) : sorted = [k \in 1..N |-> edits[p[k]]]
    BY <2>1 DEF OrderInv
  <2>3. \A k \in 1..N : sorted[k] = edits[p[k]] /\ p[k] \in 1..N
    BY <2>2, SortedFacts DEF OrderInv
  <2>4. \A k \in 1..N : Growable(edits[k]) => Matches(buf, edits[k])
    BY <1>H, <2>1 DEF SpliceInv
  <2>5. \A k \in 1..N' : Growable(sorted'[k]) /\ k <= i' => Matches(buf', sorted'[k])
    BY <1>0, <2>1, <2>3, <2>4
  <2> QED
    BY <2>1, <2>5 DEF SpliceInv
<1>5. CASE SpliceGrowable
  <2>1. pc = "growable" /\ i >= 1 /\ sorted' = sorted
    BY <1>5 DEF SpliceGrowable
  <2>2. Accepted /\ buf \in Seq(Int) /\ i \in 1..N
    BY <1>0, <2>1 DEF Accepted, OrderInv, SplicePhase
  <2>3. \A k \in 1..N : Growable(sorted[k]) /\ k <= i => Matches(buf, sorted[k])
    BY <1>H, <2>1 DEF SpliceInv
  <2>4. CASE ~Growable(sorted[i])
    <3>1. i' = i - 1 /\ pc' = pc /\ buf' = buf
      BY <1>5, <2>4 DEF SpliceGrowable, GrowableTurn
    <3>2. \A k \in 1..N : k <= i - 1 => k <= i
      BY <1>0
    <3>3. \A k \in 1..N' : Growable(sorted'[k]) /\ k <= i' => Matches(buf', sorted'[k])
      BY <1>0, <2>1, <2>3, <3>1, <3>2
    <3> QED
      BY <2>1, <3>1, <3>3 DEF SpliceInv
  <2>5. CASE Growable(sorted[i])
    <3>1. Matches(buf, sorted[i])
      BY <1>0, <2>2, <2>3, <2>5
    <3>2. buf' = Splice(buf, sorted[i]) /\ i' = i - 1 /\ pc' = pc
      BY <1>5, <2>5, <3>1 DEF SpliceGrowable, GrowableTurn, VerifyAndSplice
    <3>3. PICK p \in SortedOrders(edits) : sorted = [k \in 1..N |-> edits[p[k]]]
      BY <2>2 DEF OrderInv, Accepted
    <3>4. \A j, k \in 1..N : j < k => EndOf(sorted[j]) <= sorted[k].offset
      BY <2>2, <3>3, SortedDisjoint DEF OrderInv
    <3>5. \A k \in 1..N : sorted[k] \in Edit
      BY <3>3, SortedFacts DEF OrderInv
    <3>6. ASSUME NEW k \in 1..N, Growable(sorted[k]), k <= i - 1
          PROVE  Matches(buf', sorted[k])
      <4>1. k < i /\ k <= i
        BY <1>0, <3>6
      <4>2. EndOf(sorted[k]) <= sorted[i].offset
        BY <2>2, <3>4, <4>1
      <4>3. Matches(buf, sorted[k]) /\ EndOf(sorted[i]) <= Len(buf)
        BY <2>3, <3>1, <3>6, <4>1 DEF Matches
      <4> QED
        BY <2>2, <3>2, <3>5, <4>2, <4>3, MatchesBefore
    <3>7. \A k \in 1..N' : Growable(sorted'[k]) /\ k <= i' => Matches(buf', sorted'[k])
      BY <1>0, <2>1, <3>2, <3>6
    <3> QED
      BY <2>1, <3>2, <3>7 DEF SpliceInv
  <2> QED
    BY <2>4, <2>5
<1>6. CASE Rewrites
  <2>1. pc' \in {"bytecode", "framing", "container", "done", "refused"}
    BY <1>6, RewritesEnd
  <2> QED
    BY <2>1 DEF SpliceInv
<1>7. CASE UNCHANGED vars
  <2>1. pc' = pc /\ i' = i /\ buf' = buf /\ sorted' = sorted
    BY <1>7 DEF vars
  <2> QED
    BY <1>0, <1>H, <2>1 DEF SpliceInv
<1> QED
  BY <1>1, <1>2, <1>3, <1>4, <1>5, <1>6, <1>7 DEF Next, Finished, Rewrites

-----------------------------------------------------------------------------
(* Sums of deltas.                                                         *)

DeltaSum(S) == MapThenSumSet(Delta, S)

\* g has the sums of the deltas of the sets of edits in S.
Sums(g, S) ==
    /\ g[{}] = 0
    /\ \A T \in SUBSET S : \A e \in T : g[T] = Delta(e) + g[T \ {e}]

LEMMA SumsExist ==
    ASSUME NEW S, IsFiniteSet(S), \A e \in S : Delta(e) \in Int
    PROVE  \E g \in [SUBSET S -> Int] : Sums(g, S)
<1> DEFINE G == {R \in SUBSET S : \E g \in [SUBSET R -> Int] : Sums(g, R)}
<1>1. {} \in G
  <2> DEFINE g == [R \in SUBSET {} |-> 0]
  <2>1. g \in [SUBSET {} -> Int] /\ g[{}] = 0
    OBVIOUS
  <2>2. Sums(g, {})
    BY DEF Sums
  <2> QED
    BY <2>1, <2>2
<1>2. ASSUME NEW R \in G, NEW x \in S \ R PROVE R \cup {x} \in G
  <2>1. PICK g \in [SUBSET R -> Int] : Sums(g, R)
    OBVIOUS
  <2> DEFINE Q == R \cup {x}
             h == [T \in SUBSET Q |-> IF x \in T THEN Delta(x) + g[T \ {x}] ELSE g[T]]
  <2>2. \A T \in SUBSET Q : T \ {x} \in SUBSET R /\ (x \notin T => T \in SUBSET R)
    OBVIOUS
  <2>3. h \in [SUBSET Q -> Int]
    BY <2>2
  <2>4. h[{}] = 0
    BY <2>1 DEF Sums
  <2>5. ASSUME NEW T \in SUBSET Q, NEW e \in T
        PROVE  h[T] = Delta(e) + h[T \ {e}]
    <3>1. T \ {e} \in SUBSET Q
      OBVIOUS
    <3>2. CASE x \notin T
      <4>1. T \in SUBSET R /\ T \ {e} \in SUBSET R /\ x \notin T \ {e}
        BY <2>2, <3>2
      <4>2. h[T] = g[T] /\ h[T \ {e}] = g[T \ {e}]
        BY <3>1, <3>2, <4>1
      <4>3. g[T] = Delta(e) + g[T \ {e}]
        BY <2>1, <4>1 DEF Sums
      <4> QED
        BY <4>2, <4>3
    <3>3. CASE x \in T /\ e = x
      <4>1. h[T] = Delta(x) + g[T \ {x}]
        BY <3>3
      <4>2. T \ {e} \in SUBSET Q /\ x \notin T \ {e}
        BY <3>3
      <4>3. h[T \ {e}] = g[T \ {e}]
        BY <4>2
      <4> QED
        BY <3>3, <4>1, <4>3
    <3>4. CASE x \in T /\ e # x
      <4> DEFINE U == T \ {x}
                 V == T \ {e}
      <4>1. U \in SUBSET R /\ e \in U /\ V \in SUBSET Q /\ x \in V
        BY <2>2, <3>4
      <4>2. V \ {x} = U \ {e}
        OBVIOUS
      <4>3. h[T] = Delta(x) + g[U]
        BY <3>4
      <4>4. h[V] = Delta(x) + g[V \ {x}]
        BY <4>1
      <4>5. g[U] = Delta(e) + g[U \ {e}]
        BY <2>1, <4>1 DEF Sums
      <4>6. Delta(x) \in Int /\ Delta(e) \in Int /\ g[U \ {e}] \in Int
        <5>1. U \ {e} \in SUBSET R /\ e \in S /\ x \in S
          BY <4>1
        <5> QED
          BY <5>1
      <4> DEFINE a == Delta(x)
                 b == Delta(e)
                 c == g[U \ {e}]
      <4>7. h[T] = a + (b + c) /\ h[V] = a + c /\ a \in Int /\ b \in Int /\ c \in Int
        BY <4>2, <4>3, <4>4, <4>5, <4>6
      <4> HIDE DEF a, b, c, h
      <4>8. h[T] = b + h[V]
        BY <4>7
      <4> QED
        BY <4>8 DEF b
    <3> QED
      BY <3>2, <3>3, <3>4
  <2>6. Sums(h, Q)
    <3> HIDE DEF h, Q
    <3> QED
      BY <2>4, <2>5 DEF Sums
  <2> HIDE DEF h
  <2> QED
    BY <2>3, <2>6
<1>3. S \in G
  <2> HIDE DEF G
  <2>1. G \in SUBSET (SUBSET S)
    BY DEF G
  <2> QED
    BY <1>1, <1>2, <2>1, SetInduction
<1> QED
  BY <1>3

\* MapThenSumSet is such a sum.
LEMMA SumIs ==
    ASSUME NEW S, IsFiniteSet(S), NEW g \in [SUBSET S -> Int], Sums(g, S)
    PROVE  DeltaSum(S) = g[S]
<1> DEFINE Steps(h) ==
              h = [s \in SUBSET S |->
                     IF s = {} THEN 0
                     ELSE Delta(CHOOSE x \in s : TRUE) + h[s \ {CHOOSE x \in s : TRUE}]]
           iter == CHOOSE h : Steps(h)
<1>1. DeltaSum(S) = iter[S]
  BY DEF DeltaSum, MapThenSumSet, MapThenFoldSet
<1>2. Steps(g)
  <2>1. ASSUME NEW s \in SUBSET S, s # {}
        PROVE  g[s] = Delta(CHOOSE x \in s : TRUE) + g[s \ {CHOOSE x \in s : TRUE}]
    <3>1. (CHOOSE x \in s : TRUE) \in s
      BY <2>1
    <3> QED
      BY <3>1 DEF Sums
  <2> QED
    BY <2>1 DEF Sums
<1>3. Steps(iter)
  BY <1>2
<1> HIDE DEF iter
<1>4. ASSUME NEW s \in SUBSET S, s # {}
      PROVE  \E x \in s : iter[s] = Delta(x) + iter[s \ {x}] /\ g[s] = Delta(x) + g[s \ {x}]
  <2> DEFINE x == CHOOSE x \in s : TRUE
  <2>1. x \in s
    BY <1>4
  <2>2. iter[s] = Delta(x) + iter[s \ {x}]
    BY <1>3, <1>4
  <2>3. g[s] = Delta(x) + g[s \ {x}]
    BY <2>1 DEF Sums
  <2> HIDE DEF x, Steps
  <2> QED
    BY <2>1, <2>2, <2>3
<1>5. iter[{}] = 0 /\ g[{}] = 0
  BY <1>3 DEF Sums
<1> HIDE DEF Steps
<1> DEFINE B == {s \in SUBSET S : iter[s] # g[s]}
<1>6. B = {}
  <2> SUFFICES ASSUME B # {} PROVE FALSE
    OBVIOUS
  <2>1. B \subseteq SUBSET S
    OBVIOUS
  <2>2. PICK s \in B : \A x \in s : s \ {x} \notin B
    <3> HIDE DEF B
    <3> QED
      BY <2>1, MinimalSet
  <2>3. s \in SUBSET S /\ s # {} /\ iter[s] # g[s]
    BY <1>5
  <2>4. PICK x \in s : iter[s] = Delta(x) + iter[s \ {x}] /\ g[s] = Delta(x) + g[s \ {x}]
    BY <1>4, <2>3
  <2>5. iter[s \ {x}] = g[s \ {x}]
    BY <2>2, <2>3
  <2> QED
    BY <2>3, <2>4, <2>5
<1> QED
  BY <1>1, <1>6

\* A sum of deltas, and the same sum with one edit taken out.
LEMMA DeltaSums ==
    ASSUME NEW S, IsFiniteSet(S), \A e \in S : Delta(e) \in Int
    PROVE  /\ DeltaSum(S) \in Int
           /\ S = {} => DeltaSum(S) = 0
           /\ \A e \in S : DeltaSum(S) = Delta(e) + DeltaSum(S \ {e})
<1>1. PICK g \in [SUBSET S -> Int] : Sums(g, S)
  BY SumsExist
<1>2. DeltaSum(S) = g[S]
  BY <1>1, SumIs
<1>3. DeltaSum(S) \in Int /\ (S = {} => DeltaSum(S) = 0)
  BY <1>1, <1>2 DEF Sums
<1>4. ASSUME NEW e \in S PROVE DeltaSum(S) = Delta(e) + DeltaSum(S \ {e})
  <2> DEFINE R == S \ {e}
             h == [T \in SUBSET R |-> g[T]]
  <2>1. IsFiniteSet(R)
    BY FS_RemoveElement
  <2>2. h \in [SUBSET R -> Int] /\ h[R] = g[R]
    OBVIOUS
  <2>3. ASSUME NEW T \in SUBSET R, NEW f \in T PROVE h[T] = Delta(f) + h[T \ {f}]
    <3>1. T \in SUBSET S /\ T \ {f} \in SUBSET R
      OBVIOUS
    <3>2. g[T] = Delta(f) + g[T \ {f}]
      BY <1>1, <3>1 DEF Sums
    <3> QED
      BY <3>1, <3>2
  <2>4. h[{}] = 0
    BY <1>1 DEF Sums
  <2>5. Sums(h, R)
    <3> HIDE DEF h, R
    <3> QED
      BY <2>3, <2>4 DEF Sums
  <2>6. DeltaSum(R) = g[R]
    <3> HIDE DEF h, R
    <3> QED
      BY <2>1, <2>2, <2>5, SumIs
  <2>7. g[S] = Delta(e) + g[R]
    BY <1>1 DEF Sums
  <2> QED
    BY <1>2, <2>6, <2>7
<1> QED
  BY <1>3, <1>4

\* A finite set of edits.
EditSet(S) == IsFiniteSet(S) /\ S \subseteq Edit

LEMMA EditSetPart ==
    ASSUME NEW S, EditSet(S), NEW T, T \subseteq S
    PROVE  EditSet(T)
BY FS_Subset DEF EditSet

LEMMA EditSum ==
    ASSUME NEW S, EditSet(S)
    PROVE  DeltaSum(S) \in Int /\ \A e \in S : Delta(e) \in Int
<1>1. IsFiniteSet(S) /\ \A e \in S : Delta(e) \in Int
  <2> SUFFICES ASSUME NEW e \in S PROVE Delta(e) \in Int
    BY DEF EditSet
  <2>1. e \in Edit
    BY DEF EditSet
  <2>2. Len(e.new) \in Nat /\ Len(e.old) \in Nat /\ Delta(e) = Len(e.new) - Len(e.old)
    BY <2>1, EditTypes
  <2> QED
    BY <2>2
<1> QED
  BY <1>1, DeltaSums

LEMMA SumNone == DeltaSum({}) = 0
BY DeltaSums, FS_EmptySet

LEMMA SumOneMore ==
    ASSUME NEW S, EditSet(S), NEW e \in Edit, e \notin S
    PROVE  EditSet(S \cup {e}) /\ DeltaSum(S \cup {e}) = DeltaSum(S) + Delta(e)
<1> DEFINE Q == S \cup {e}
<1>1. EditSet(Q)
  BY FS_AddElement DEF EditSet
<1>2. IsFiniteSet(Q) /\ (\A f \in Q : Delta(f) \in Int) /\ e \in Q /\ Q \ {e} = S
  BY <1>1, EditSum DEF EditSet
<1> HIDE DEF Q
<1>3. DeltaSum(Q) = Delta(e) + DeltaSum(S)
  BY <1>2, DeltaSums
<1>4. Delta(e) \in Int /\ DeltaSum(S) \in Int
  BY <1>2, EditSum
<1> DEFINE a == Delta(e)
           b == DeltaSum(S)
<1>5. DeltaSum(Q) = a + b /\ a \in Int /\ b \in Int
  BY <1>3, <1>4
<1> HIDE DEF a, b
<1>6. DeltaSum(Q) = b + a
  BY <1>5
<1> QED
  BY <1>1, <1>6 DEF Q, a, b

\* Edits that change no length add nothing.
LEMMA SumStays ==
    ASSUME NEW S, EditSet(S), NEW T, EditSet(T), \A e \in T : ~Growable(e)
    PROVE  EditSet(S \cup T) /\ DeltaSum(S \cup T) = DeltaSum(S)
<1> DEFINE G == {R \in SUBSET T : EditSet(S \cup R) /\ DeltaSum(S \cup R) = DeltaSum(S)}
<1>1. {} \in G
  <2>1. S \cup {} = S
    OBVIOUS
  <2> QED
    BY <2>1
<1>2. ASSUME NEW R \in G, NEW e \in T \ R PROVE R \cup {e} \in G
  <2> DEFINE Q == S \cup R
  <2>1. EditSet(Q) /\ DeltaSum(Q) = DeltaSum(S) /\ S \cup (R \cup {e}) = Q \cup {e}
    OBVIOUS
  <2>2. e \in Edit /\ Delta(e) = 0
    BY DEF EditSet, Growable
  <2> HIDE DEF Q
  <2>3. EditSet(Q \cup {e}) /\ DeltaSum(Q \cup {e}) = DeltaSum(S)
    <3>1. CASE e \in Q
      <4>1. Q \cup {e} = Q
        BY <3>1
      <4> QED
        BY <2>1, <4>1
    <3>2. CASE e \notin Q
      <4>1. DeltaSum(Q \cup {e}) = DeltaSum(Q) + Delta(e) /\ EditSet(Q \cup {e})
        BY <2>1, <2>2, <3>2, SumOneMore
      <4>2. DeltaSum(Q) \in Int
        BY <2>1, EditSum
      <4> QED
        BY <2>1, <2>2, <4>1, <4>2
    <3> QED
      BY <3>1, <3>2
  <2> QED
    BY <2>1, <2>3
<1>3. T \in G
  <2>1. G \in SUBSET (SUBSET T) /\ IsFiniteSet(T)
    BY DEF EditSet
  <2> HIDE DEF G
  <2> QED
    BY <1>1, <1>2, <2>1, SetInduction
<1> QED
  BY <1>3

\* A sum is the sum over the growables.
LEMMA SumGrowables ==
    ASSUME NEW S, EditSet(S), NEW T, T \subseteq S, \A e \in S \ T : ~Growable(e)
    PROVE  DeltaSum(S) = DeltaSum(T)
<1>1. EditSet(T) /\ EditSet(S \ T) /\ T \cup (S \ T) = S
  BY EditSetPart
<1> QED
  BY <1>1, SumStays

\* Edits side by side in a range cannot take away more than the range.
LEMMA EditsFit ==
    ASSUME NEW S, EditSet(S), NEW x \in Int, NEW o \in Int, x <= o,
           \A e \in S : x <= e.offset /\ EndOf(e) <= o,
           \A e, f \in S : e # f => Disjoint(e, f)
    PROVE  x <= o + DeltaSum(S)
<1> DEFINE Fits(T) == \A z \in Int : x <= z /\ (\A e \in T : EndOf(e) <= z)
                                      => x <= z + DeltaSum(T)
           B == {T \in SUBSET S : ~Fits(T)}
<1>1. SUFFICES ASSUME B # {} PROVE FALSE
  <2>1. Fits(S)
    BY <1>1
  <2> QED
    BY <2>1
<1>2. PICK T \in B : \A e \in T : T \ {e} \notin B
  <2>1. B \subseteq SUBSET S /\ IsFiniteSet(S)
    BY DEF EditSet
  <2> HIDE DEF B
  <2> QED
    BY <1>1, <2>1, MinimalSet
<1>3. T \subseteq S /\ ~Fits(T)
  OBVIOUS
<1>4. T # {}
  <2>1. ASSUME NEW z \in Int, x <= z PROVE x <= z + DeltaSum({})
    BY <2>1, SumNone
  <2>2. Fits({})
    BY <2>1
  <2> HIDE DEF Fits, B
  <2> QED
    BY <1>3, <2>2
<1>5. PICK e \in T : \A f \in T \ {e} : EndOf(f) <= e.offset
  <2> DEFINE H == {R \in SUBSET T : R = {} \/ \E e \in R : \A f \in R \ {e} : EndOf(f) <= e.offset}
  <2>1. {} \in H
    OBVIOUS
  <2>2. ASSUME NEW R \in H, NEW g \in T \ R PROVE R \cup {g} \in H
    <3>1. CASE R = {}
      BY <3>1
    <3>2. CASE R # {}
      <4>1. PICK e \in R : \A f \in R \ {e} : EndOf(f) <= e.offset
        BY <3>2
      <4>2. Disjoint(e, g)
        BY <1>3, <4>1
      <4>3. \A f \in T : f.offset \in Nat /\ EndOf(f) \in Nat /\ f.offset <= EndOf(f)
        BY <1>3, EditTypes DEF EditSet
      <4>4. CASE EndOf(g) <= e.offset
        <5>1. \A f \in (R \cup {g}) \ {e} : EndOf(f) <= e.offset
          BY <4>1, <4>4
        <5> QED
          BY <5>1
      <4>5. CASE EndOf(e) <= g.offset
        <5>1. ASSUME NEW f \in (R \cup {g}) \ {g} PROVE EndOf(f) <= g.offset
          <6>1. f = e \/ EndOf(f) <= e.offset
            BY <4>1
          <6>2. f \in T /\ e \in T /\ g \in T
            OBVIOUS
          <6>3. EndOf(f) \in Nat /\ e.offset \in Nat /\ EndOf(e) \in Nat
                /\ g.offset \in Nat /\ e.offset <= EndOf(e)
            BY <4>3, <6>2
          <6> QED
            BY <4>5, <6>1, <6>3
        <5> QED
          BY <5>1
      <4> QED
        BY <4>2, <4>4, <4>5 DEF Disjoint
    <3> QED
      BY <3>1, <3>2
  <2>3. T \in H
    <3>1. H \in SUBSET (SUBSET T) /\ IsFiniteSet(T)
      BY <1>3, FS_Subset DEF EditSet
    <3> HIDE DEF H
    <3> QED
      BY <2>1, <2>2, <3>1, SetInduction
  <2> QED
    BY <1>4, <2>3
<1>6. Fits(T \ {e})
  BY <1>2, <1>3
<1>7. ASSUME NEW z \in Int, x <= z, \A f \in T : EndOf(f) <= z
      PROVE  x <= z + DeltaSum(T)
  <2> DEFINE R == T \ {e}
             a == e.offset
             new == Len(e.new)
             old == Len(e.old)
             d == DeltaSum(R)
  <2>1. e \in Edit /\ x <= a /\ EndOf(e) <= z
    BY <1>3, <1>7 DEF EditSet
  <2>2. a \in Nat /\ new \in Nat /\ old \in Nat /\ EndOf(e) = a + old /\ Delta(e) = new - old
    BY <2>1, EditTypes
  <2>3. EditSet(R) /\ e \notin R /\ R \cup {e} = T
    BY <1>3, EditSetPart
  <2>4. DeltaSum(T) = d + Delta(e) /\ d \in Int
    BY <2>1, <2>3, SumOneMore, EditSum
  <2>5. x <= a + d
    <3>1. a \in Int /\ x <= a /\ \A f \in R : EndOf(f) <= a
      BY <1>5, <2>1, <2>2
    <3>2. Fits(R)
      BY <1>6
    <3> HIDE DEF R, a
    <3> QED
      BY <3>1, <3>2
  <2> HIDE DEF R, a, new, old, d
  <2> QED
    BY <2>1, <2>2, <2>4, <2>5
<1> QED
  BY <1>3, <1>7

-----------------------------------------------------------------------------
(* Where things are once the edits in S have been spliced in, growable or  *)
(* not: moved by the deltas of those in S that end in front of them.       *)

Past(S, o) == DeltaSum({f \in S : EndOf(f) <= o})

SettledIn(b, S, im) ==
    /\ Len(b) = Len(im) + DeltaSum(S)
    /\ \A o \in 0 .. Len(im) - 1 :
          (\A f \in S : o < f.offset \/ EndOf(f) <= o) =>
              /\ o + Past(S, o) + 1 <= Len(b)
              /\ b[o + Past(S, o) + 1] = im[o + 1]
    /\ \A f \in S :
          /\ f.offset + Past(S \ {f}, f.offset) + Len(f.new) <= Len(b)
          /\ \A n \in 1..Len(f.new) : b[f.offset + Past(S \ {f}, f.offset) + n] = f.new[n]

Settled(b, S) == SettledIn(b, S, image)

\* The edit e has its turn behind those in S: it does not touch them, and the
\* growables lie behind it.
Turn(e, S) ==
    \A f \in S : /\ Disjoint(e, f) /\ e.offset # f.offset
                 /\ Growable(f) => EndOf(e) <= f.offset

Apart(S) == \A f, g \in S : f # g => Disjoint(f, g)

LEMMA PastType ==
    ASSUME NEW S, EditSet(S), NEW o
    PROVE  Past(S, o) \in Int
<1> DEFINE T == {f \in S : EndOf(f) <= o}
<1>1. EditSet(T)
  BY EditSetPart
<1> HIDE DEF T
<1>2. DeltaSum(T) \in Int
  BY <1>1, EditSum
<1> QED
  BY <1>2 DEF Past, T

\* Nothing in front of the edit whose turn it is has moved.
LEMMA PastFront ==
    ASSUME NEW S, EditSet(S), NEW e \in Edit, Turn(e, S), NEW o \in Int, o <= e.offset
    PROVE  Past(S, o) = 0
<1> DEFINE T == {f \in S : EndOf(f) <= o}
<1>1. EditSet(T) /\ {} \subseteq T
  BY EditSetPart
<1>2. ASSUME NEW f \in T PROVE ~Growable(f)
  <2>1. f \in Edit /\ f \in S /\ EndOf(f) <= o
    BY DEF EditSet
  <2>2. /\ f.offset \in Nat /\ EndOf(f) \in Nat /\ f.offset <= EndOf(f)
        /\ e.offset \in Nat /\ EndOf(e) \in Nat /\ e.offset <= EndOf(e)
    BY <2>1, EditTypes
  <2> SUFFICES ASSUME Growable(f) PROVE FALSE
    OBVIOUS
  <2>3. EndOf(e) <= f.offset /\ e.offset # f.offset
    BY <2>1 DEF Turn
  <2> QED
    BY <2>1, <2>2, <2>3
<1> HIDE DEF T
<1>3. DeltaSum(T) = DeltaSum({})
  BY <1>1, <1>2, SumGrowables
<1> QED
  BY <1>3, SumNone DEF Past, T

\* What lies behind it is still behind it.
LEMMA PastBehind ==
    ASSUME NEW S, EditSet(S), Apart(S), NEW e \in Edit, Turn(e, S),
           NEW o \in Int, EndOf(e) <= o
    PROVE  EndOf(e) <= o + Past(S, o)
<1> DEFINE T == {f \in S : EndOf(f) <= o}
           R == {f \in T : Growable(f)}
<1>1. EditSet(T) /\ EditSet(R) /\ R \subseteq T /\ \A f \in T \ R : ~Growable(f)
  BY EditSetPart
<1>2. \A f \in R : EndOf(e) <= f.offset /\ EndOf(f) <= o
  BY DEF Turn
<1>3. \A f, g \in R : f # g => Disjoint(f, g)
  BY DEF Apart
<1>4. EndOf(e) \in Int
  <2>1. EndOf(e) \in Nat
    BY EditTypes
  <2> QED
    BY <2>1
<1> HIDE DEF T, R
<1>5. EndOf(e) <= o + DeltaSum(R)
  BY <1>1, <1>2, <1>3, <1>4, EditsFit
<1>6. DeltaSum(T) = DeltaSum(R)
  BY <1>1, SumGrowables
<1> QED
  BY <1>5, <1>6 DEF Past, T

LEMMA PastOneMore ==
    ASSUME NEW S, EditSet(S), NEW e \in Edit, e \notin S, NEW o
    PROVE  /\ EndOf(e) <= o => Past(S \cup {e}, o) = Past(S, o) + Delta(e)
           /\ ~(EndOf(e) <= o) => Past(S \cup {e}, o) = Past(S, o)
<1> DEFINE T == {f \in S : EndOf(f) <= o}
           Q == {f \in S \cup {e} : EndOf(f) <= o}
<1>1. EditSet(T) /\ e \notin T
  BY EditSetPart
<1>2. Past(S, o) = DeltaSum(T) /\ Past(S \cup {e}, o) = DeltaSum(Q)
  BY DEF Past
<1>3. /\ EndOf(e) <= o => Q = T \cup {e}
      /\ ~(EndOf(e) <= o) => Q = T
  OBVIOUS
<1> HIDE DEF T, Q
<1>4. DeltaSum(T \cup {e}) = DeltaSum(T) + Delta(e)
  BY <1>1, SumOneMore
<1> QED
  BY <1>2, <1>3, <1>4

\* One more edit is spliced in.
LEMMA PlacedSplice ==
    ASSUME image \in Seq(Int), NEW S, EditSet(S), Apart(S),
           NEW e \in Edit, e \notin S, Turn(e, S),
           NEW b \in Seq(Int), EndOf(e) <= Len(b), Settled(b, S)
    PROVE  Settled(Splice(b, e), S \cup {e})
<1> DEFINE w == Splice(b, e)
           Q == S \cup {e}
           at == e.offset
           z == EndOf(e)
           d == Delta(e)
           L == Len(b)
<1>0. /\ at \in Nat /\ z \in Nat /\ at <= z /\ L \in Nat /\ Len(image) \in Nat
      /\ Len(e.new) \in Nat /\ d \in Int /\ at + Len(e.new) = z + d /\ z <= L
  <2>1. /\ at \in Nat /\ z \in Nat /\ at <= z /\ Len(e.new) \in Nat /\ Len(e.old) \in Nat
        /\ z = at + Len(e.old) /\ d = Len(e.new) - Len(e.old)
    BY EditTypes
  <2>2. L \in Nat /\ Len(image) \in Nat
    BY LenProperties
  <2> DEFINE new == Len(e.new)
             old == Len(e.old)
  <2>3. new \in Nat /\ old \in Nat /\ z = at + old /\ d = new - old /\ at \in Nat
    BY <2>1
  <2> HIDE DEF at, z, d, L, new, old
  <2>4. d \in Int /\ at + new = z + d
    BY <2>3
  <2> QED
    BY <2>1, <2>2, <2>4 DEF L, z, new
<1>1. /\ Len(w) = L + d
      /\ \A x \in 1..at : w[x] = b[x]
      /\ \A x \in 1..Len(e.new) : w[at + x] = e.new[x]
      /\ \A x \in z + 1 .. L : w[x + d] = b[x]
  BY SpliceCells
<1>2. DeltaSum(Q) = DeltaSum(S) + d /\ DeltaSum(S) \in Int
  BY SumOneMore, EditSum
<1> HIDE DEF w
<1>3. Len(w) = Len(image) + DeltaSum(Q)
  <2>1. L = Len(image) + DeltaSum(S)
    BY DEF Settled, SettledIn
  <2> HIDE DEF Q, L, d
  <2> QED
    BY <1>0, <1>1, <1>2, <2>1
<1>4. ASSUME NEW o \in 0 .. Len(image) - 1, \A f \in Q : o < f.offset \/ EndOf(f) <= o
      PROVE  o + Past(Q, o) + 1 <= Len(w) /\ w[o + Past(Q, o) + 1] = image[o + 1]
  <2> DEFINE q == Past(S, o)
             y == o + q + 1
  <2>1. y <= L /\ b[y] = image[o + 1]
    BY <1>4 DEF Settled, SettledIn
  <2>2. q \in Int /\ o \in Int
    BY PastType
  <2>3. CASE z <= o
    <3>1. Past(Q, o) = q + d
      BY <2>3, PastOneMore
    <3>2. z <= o + q
      BY <2>2, <2>3, PastBehind
    <3> HIDE DEF q, z, L, d, at, Q
    <3>3. y \in z + 1 .. L /\ o + Past(Q, o) + 1 = y + d
      BY <1>0, <2>1, <2>2, <3>1, <3>2
    <3>4. w[y + d] = b[y]
      BY <1>1, <3>3
    <3>5. y + d <= L + d
      BY <1>0, <2>1, <2>2, <3>3
    <3> HIDE DEF y
    <3> QED
      BY <1>1, <2>1, <3>3, <3>4, <3>5
  <2>4. CASE ~(z <= o)
    <3>1. Past(Q, o) = q
      BY <2>4, PastOneMore
    <3>2. o < at
      BY <1>4, <2>4
    <3>3. q = 0
      BY <1>0, <2>2, <3>2, PastFront
    <3> HIDE DEF q, z, L, d, at, Q
    <3>4. y \in 1..at /\ o + Past(Q, o) + 1 = y
      BY <1>0, <2>1, <2>2, <3>1, <3>2, <3>3
    <3>5. w[y] = b[y]
      BY <1>1, <3>4
    <3>6. y <= L + d
      BY <1>0, <3>4
    <3> HIDE DEF y
    <3> QED
      BY <1>1, <2>1, <3>4, <3>5, <3>6
  <2> QED
    BY <2>3, <2>4
<1>5. ASSUME NEW f \in S
      PROVE  /\ f.offset + Past(Q \ {f}, f.offset) + Len(f.new) <= Len(w)
             /\ \A n \in 1..Len(f.new) : w[f.offset + Past(Q \ {f}, f.offset) + n] = f.new[n]
  <2> DEFINE R == S \ {f}
             o == f.offset
             q == Past(R, o)
             len == Len(f.new)
  <2>1. o + q + len <= L /\ \A n \in 1..len : b[o + q + n] = f.new[n]
    BY DEF Settled, SettledIn
  <2>2. EditSet(R) /\ e \notin R /\ Turn(e, R) /\ Apart(R) /\ Q \ {f} = R \cup {e}
    BY EditSetPart DEF Turn, Apart
  <2>3. q \in Int
    BY <2>2, PastType
  <2>4. /\ f \in Edit /\ o \in Nat /\ len \in Nat /\ EndOf(f) \in Nat /\ o <= EndOf(f)
        /\ Delta(f) = len - Len(f.old) /\ EndOf(f) = o + Len(f.old) /\ Len(f.old) \in Nat
    <3>1. f \in Edit
      BY DEF EditSet
    <3> QED
      BY <3>1, EditTypes
  <2>5. CASE z <= o
    <3>1. Past(R \cup {e}, o) = q + d
      BY <2>2, <2>5, PastOneMore
    <3>2. z <= o + q
      BY <2>2, <2>4, <2>5, PastBehind
    <3>3. Past(Q \ {f}, o) = q + d
      BY <2>2, <3>1
    <3> HIDE DEF q, z, L, d, at, Q, o, len, R
    <3>4. o + Past(Q \ {f}, o) + len <= Len(w)
      BY <1>0, <1>1, <2>1, <2>3, <2>4, <3>3
    <3>5. ASSUME NEW n \in 1..len PROVE w[o + Past(Q \ {f}, o) + n] = f.new[n]
      <4> DEFINE y == o + q + n
      <4>1. y \in z + 1 .. L /\ o + Past(Q \ {f}, o) + n = y + d
        BY <1>0, <2>1, <2>3, <2>4, <3>2, <3>3
      <4>2. b[y] = f.new[n]
        BY <2>1
      <4> HIDE DEF y
      <4>3. w[y + d] = b[y]
        BY <1>1, <4>1
      <4> QED
        BY <4>1, <4>2, <4>3
    <3> QED
      BY <3>4, <3>5 DEF o, len
  <2>6. CASE EndOf(f) <= at
    <3>1. ~Growable(f) /\ at # o
      <4>1. at # o /\ (Growable(f) => z <= o)
        BY DEF Turn
      <4> HIDE DEF at, z, o
      <4> QED
        BY <1>0, <2>4, <2>6, <4>1
    <3>2. o + len = EndOf(f) /\ o < at
      <4>1. Delta(f) = 0
        BY <3>1 DEF Growable
      <4> HIDE DEF o, len, at
      <4> QED
        BY <1>0, <2>4, <2>6, <3>1, <4>1
    <3>3. Past(R \cup {e}, o) = q
      <4>1. ~(z <= o)
        <5> HIDE DEF o, at, z
        <5> QED
          BY <1>0, <2>4, <3>2
      <4> QED
        BY <2>2, <4>1, PastOneMore
    <3>4. q = 0
      <4>1. o \in Int /\ o <= at
        <5> HIDE DEF o, at
        <5> QED
          BY <1>0, <2>4, <3>2
      <4> QED
        BY <2>2, <4>1, PastFront
    <3>5. Past(Q \ {f}, o) = 0
      BY <2>2, <3>3, <3>4
    <3> HIDE DEF q, z, L, d, at, Q, o, len, R
    <3>6. o + Past(Q \ {f}, o) + len <= Len(w)
      BY <1>0, <1>1, <2>4, <2>6, <3>2, <3>5
    <3>7. ASSUME NEW n \in 1..len PROVE w[o + Past(Q \ {f}, o) + n] = f.new[n]
      <4> DEFINE y == o + n
      <4>1. y \in 1..at /\ o + Past(Q \ {f}, o) + n = y /\ o + q + n = y
        BY <1>0, <2>4, <2>6, <3>2, <3>4, <3>5
      <4>2. b[o + q + n] = f.new[n]
        BY <2>1
      <4> HIDE DEF y
      <4>3. w[y] = b[y]
        BY <1>1, <4>1
      <4> QED
        BY <4>1, <4>2, <4>3
    <3> QED
      BY <3>6, <3>7 DEF o, len
  <2>7. Disjoint(e, f)
    BY DEF Turn
  <2> QED
    BY <2>5, <2>6, <2>7 DEF Disjoint
<1>6. /\ at + Past(Q \ {e}, at) + Len(e.new) <= Len(w)
      /\ \A n \in 1..Len(e.new) : w[at + Past(Q \ {e}, at) + n] = e.new[n]
  <2>1. Q \ {e} = S /\ at \in Int /\ at <= at
    BY <1>0
  <2>2. Past(Q \ {e}, at) = 0
    BY <2>1, PastFront
  <2> HIDE DEF Q, at, z, d, L
  <2>3. at + Past(Q \ {e}, at) + Len(e.new) <= Len(w)
    BY <1>0, <1>1, <2>2
  <2>4. ASSUME NEW n \in 1..Len(e.new) PROVE w[at + Past(Q \ {e}, at) + n] = e.new[n]
    <3>1. at + Past(Q \ {e}, at) + n = at + n
      BY <1>0, <2>2
    <3> QED
      BY <1>1, <3>1
  <2> QED
    BY <2>3, <2>4
<1>7. \A f \in Q :
          /\ f.offset + Past(Q \ {f}, f.offset) + Len(f.new) <= Len(w)
          /\ \A n \in 1..Len(f.new) : w[f.offset + Past(Q \ {f}, f.offset) + n] = f.new[n]
  <2> TAKE f \in Q
  <2>1. CASE f = e
    BY <1>6, <2>1
  <2>2. CASE f # e
    BY <1>5, <2>2
  <2> QED
    BY <2>1, <2>2
<1> HIDE DEF Q
<1> QED
  BY <1>3, <1>4, <1>7 DEF Settled, SettledIn, w, Q

-----------------------------------------------------------------------------
(* The two loops splice every edit in its turn.                            *)

LEMMA AcceptedFacts ==
    ASSUME OrderInv, Accepted
    PROVE  /\ N \in Nat
           /\ \A k \in 1..N : edits[k] \in Edit /\ sorted[k] \in Edit
           /\ \A k \in 1..N : \E m \in 1..N : sorted[k] = edits[m]
           /\ \A m \in 1..N : \E k \in 1..N : sorted[k] = edits[m]
           /\ \A j, k \in 1..N : j # k =>
                  Disjoint(edits[j], edits[k]) /\ edits[j].offset # edits[k].offset
           /\ \A j, k \in 1..N : j < k => EndOf(sorted[j]) <= sorted[k].offset
           /\ \A j, k \in 1..N : j # k => sorted[j] # sorted[k]
<1>1. PICK p \in SortedOrders(edits) : sorted = [n \in 1..N |-> edits[p[n]]]
  BY DEF OrderInv, Accepted
<1>2. /\ N \in Nat /\ p \in [1..N -> 1..N]
      /\ \A n \in 1..N : sorted[n] = edits[p[n]] /\ sorted[n] \in Edit
      /\ \A n \in 1..N : \E m \in 1..N : p[m] = n
  BY <1>1, SortedFacts DEF OrderInv
<1>3. \A k \in 1..N : edits[k] \in Edit
  BY DEF OrderInv, N
<1>4. \A j, k \in 1..N : j # k =>
          Disjoint(edits[j], edits[k]) /\ edits[j].offset # edits[k].offset
  BY NoOverlap, NoSameOffset
<1>5. \A j, k \in 1..N : j < k => EndOf(sorted[j]) <= sorted[k].offset
  BY <1>1, SortedDisjoint DEF OrderInv, Accepted
<1>6. ASSUME NEW j \in 1..N, NEW k \in 1..N, j < k PROVE p[j] # p[k]
  <2>1. \/ edits[p[j]].offset < edits[p[k]].offset
        \/ edits[p[j]].offset = edits[p[k]].offset /\ p[j] < p[k]
    BY <1>6 DEF SortedOrders, N
  <2>2. edits[p[j]].offset \in Nat /\ p[j] \in Nat
    <3>1. p[j] \in 1..N
      BY <1>2
    <3> QED
      BY <1>3, <3>1 DEF Edit
  <2> QED
    BY <2>1, <2>2
<1>7. ASSUME NEW j \in 1..N, NEW k \in 1..N, j # k PROVE sorted[j] # sorted[k]
  <2>1. j < k \/ k < j
    BY <1>2, <1>7
  <2>2. p[j] # p[k] /\ p[j] \in 1..N /\ p[k] \in 1..N
    BY <1>2, <1>6, <2>1
  <2>3. edits[p[j]].offset # edits[p[k]].offset
    BY <1>4, <2>2
  <2> QED
    BY <1>2, <2>3
<1>8. \A k \in 1..N : \E m \in 1..N : sorted[k] = edits[m]
  <2> SUFFICES ASSUME NEW k \in 1..N PROVE \E m \in 1..N : sorted[k] = edits[m]
    OBVIOUS
  <2>1. p[k] \in 1..N /\ sorted[k] = edits[p[k]]
    BY <1>2
  <2> QED
    BY <2>1
<1>9. \A m \in 1..N : \E k \in 1..N : sorted[k] = edits[m]
  <2> SUFFICES ASSUME NEW m \in 1..N PROVE \E k \in 1..N : sorted[k] = edits[m]
    OBVIOUS
  <2>1. PICK k \in 1..N : p[k] = m
    BY <1>2
  <2>2. sorted[k] = edits[p[k]]
    BY <1>2
  <2> QED
    BY <2>1, <2>2
<1>10. \A k \in 1..N : edits[k] \in Edit /\ sorted[k] \in Edit
  BY <1>2, <1>3
<1>11. \A j, k \in 1..N : j # k => sorted[j] # sorted[k]
  BY <1>7
<1> QED
  BY <1>2, <1>4, <1>5, <1>8, <1>9, <1>10, <1>11

\* The edits of the plan, as a set.
InPlan == {edits[k] : k \in 1..N}

LEMMA InPlanFacts ==
    ASSUME OrderInv, Accepted
    PROVE  /\ EditSet(InPlan) /\ Apart(InPlan)
           /\ \A e, f \in InPlan : e # f => e.offset # f.offset
           /\ InPlan = {sorted[k] : k \in 1..N}
<1>1. N \in Nat
  BY AcceptedFacts
<1>2. IsFiniteSet(InPlan)
  <2> DEFINE f == [k \in 1..N |-> edits[k]]
  <2>1. f \in Surjection(1..N, InPlan)
    BY DEF InPlan, Surjection
  <2>2. IsFiniteSet(1..N)
    BY <1>1, FS_Interval
  <2> HIDE DEF f
  <2> QED
    BY <2>1, <2>2, FS_Surjection
<1>3. InPlan \subseteq Edit
  BY AcceptedFacts DEF InPlan
<1>4. ASSUME NEW e \in InPlan, NEW f \in InPlan, e # f
      PROVE  Disjoint(e, f) /\ e.offset # f.offset
  <2>1. PICK j \in 1..N : e = edits[j]
    BY DEF InPlan
  <2>2. PICK k \in 1..N : f = edits[k]
    BY DEF InPlan
  <2>3. j # k
    BY <1>4, <2>1, <2>2
  <2> QED
    BY <2>1, <2>2, <2>3, AcceptedFacts
<1>5. InPlan = {sorted[k] : k \in 1..N}
  <2>1. ASSUME NEW e \in InPlan PROVE e \in {sorted[k] : k \in 1..N}
    <3>1. PICK m \in 1..N : e = edits[m]
      BY DEF InPlan
    <3>2. PICK k \in 1..N : sorted[k] = edits[m]
      BY AcceptedFacts
    <3> QED
      BY <3>1, <3>2
  <2>2. ASSUME NEW k \in 1..N PROVE sorted[k] \in InPlan
    <3>1. PICK m \in 1..N : sorted[k] = edits[m]
      BY AcceptedFacts
    <3> QED
      BY <3>1 DEF InPlan
  <2> QED
    BY <2>1, <2>2
<1> QED
  BY <1>2, <1>3, <1>4, <1>5 DEF EditSet, Apart

\* What the loop over the edits has spliced in before index n.
SameLengthTo(n) == {edits[k] : k \in {m \in 1..N : m < n /\ ~Growable(edits[m])}}

\* What the loop over sorted has spliced in behind index n, and before it.
GrowableFrom(n) ==
    {e \in InPlan : ~Growable(e)}
        \cup {sorted[k] : k \in {m \in 1..N : m > n /\ Growable(sorted[m])}}

PlaceInv ==
    /\ pc \in {"sort", "overlaps"} => buf = image
    /\ pc = "same_length" => Settled(buf, SameLengthTo(i))
    /\ pc = "growable" => Settled(buf, GrowableFrom(i)) /\ GrowableEdits # {}
    /\ pc = "bytecode" /\ GrowableEdits = {} => Settled(buf, InPlan)

LEMMA PlacedNone ==
    ASSUME image \in Seq(Int)
    PROVE  Settled(image, {})
<1>1. Len(image) \in Nat
  BY LenProperties
<1>2. \A o : Past({}, o) = 0
  <2> TAKE o
  <2>1. {f \in {} : EndOf(f) <= o} = {}
    OBVIOUS
  <2> QED
    BY <2>1, SumNone DEF Past
<1>3. Len(image) = Len(image) + DeltaSum({})
  BY <1>1, SumNone
<1>4. ASSUME NEW o \in 0 .. Len(image) - 1
      PROVE  o + Past({}, o) + 1 <= Len(image) /\ image[o + Past({}, o) + 1] = image[o + 1]
  <2>1. Past({}, o) = 0
    BY <1>2
  <2>2. o + Past({}, o) + 1 = o + 1
    BY <2>1
  <2> QED
    BY <1>1, <2>2
<1> QED
  BY <1>3, <1>4 DEF Settled, SettledIn

\* The edit at i is spliced in by the first loop.
LEMMA PlacedSameLength ==
    ASSUME OrderInv, Accepted, i \in 1..N, ~Growable(edits[i]), buf \in Seq(Int),
           EndOf(edits[i]) <= Len(buf), Settled(buf, SameLengthTo(i))
    PROVE  Settled(Splice(buf, edits[i]), SameLengthTo(i + 1))
<1> DEFINE S == SameLengthTo(i)
           e == edits[i]
<1>1. S \subseteq InPlan /\ e \in InPlan
  BY DEF InPlan, SameLengthTo
<1>2. EditSet(S) /\ Apart(S)
  BY <1>1, InPlanFacts, EditSetPart DEF Apart
<1>3. e \in Edit /\ N \in Nat
  BY AcceptedFacts
<1>4. e \notin S
  <2> SUFFICES ASSUME NEW m \in 1..N, m < i, edits[m] = e PROVE FALSE
    BY DEF SameLengthTo
  <2>1. m # i
    BY <1>3
  <2> QED
    BY <2>1, AcceptedFacts
<1>5. Turn(e, S)
  <2>1. \A f \in S : ~Growable(f)
    BY DEF SameLengthTo
  <2>2. ASSUME NEW f \in S PROVE Disjoint(e, f) /\ e.offset # f.offset
    BY <1>1, <1>4, InPlanFacts DEF Apart
  <2> QED
    BY <2>1, <2>2 DEF Turn
<1>6. SameLengthTo(i + 1) = S \cup {e}
  <2>1. \A m \in 1..N : m < i + 1 <=> (m < i \/ m = i)
    BY <1>3
  <2> QED
    BY <2>1 DEF SameLengthTo
<1>7. image \in Seq(Int)
  BY DEF OrderInv
<1> HIDE DEF S, e
<1>8. Settled(Splice(buf, e), S \cup {e})
  <2>1. EndOf(e) <= Len(buf) /\ Settled(buf, S)
    BY DEF S, e
  <2> QED
    BY <1>2, <1>3, <1>4, <1>5, <1>7, <2>1, PlacedSplice
<1> QED
  BY <1>6, <1>8 DEF e

\* The growable at i in offset order is spliced in by the second loop.
LEMMA PlacedGrowable ==
    ASSUME OrderInv, Accepted, i \in 1..N, Growable(sorted[i]), buf \in Seq(Int),
           EndOf(sorted[i]) <= Len(buf), Settled(buf, GrowableFrom(i))
    PROVE  Settled(Splice(buf, sorted[i]), GrowableFrom(i - 1))
<1> DEFINE S == GrowableFrom(i)
           e == sorted[i]
<1>1. S \subseteq InPlan /\ e \in InPlan
  BY InPlanFacts DEF GrowableFrom
<1>2. EditSet(S) /\ Apart(S)
  BY <1>1, InPlanFacts, EditSetPart DEF Apart
<1>3. e \in Edit /\ N \in Nat
  BY AcceptedFacts
<1>4. e \notin S
  <2> SUFFICES ASSUME NEW m \in 1..N, m > i, sorted[m] = e PROVE FALSE
    BY DEF GrowableFrom
  <2>1. m # i
    BY <1>3
  <2> QED
    BY <2>1, AcceptedFacts
<1>5. Turn(e, S)
  <2>1. ASSUME NEW f \in S, Growable(f) PROVE EndOf(e) <= f.offset
    <3>1. PICK m \in 1..N : m > i /\ f = sorted[m]
      BY <2>1 DEF GrowableFrom
    <3>2. i < m
      BY <1>3, <3>1
    <3> QED
      BY <3>1, <3>2, AcceptedFacts
  <2>2. ASSUME NEW f \in S PROVE Disjoint(e, f) /\ e.offset # f.offset
    BY <1>1, <1>4, InPlanFacts DEF Apart
  <2> QED
    BY <2>1, <2>2 DEF Turn
<1>6. GrowableFrom(i - 1) = S \cup {e}
  <2>1. \A m \in 1..N : m > i - 1 <=> (m > i \/ m = i)
    BY <1>3
  <2> QED
    BY <2>1 DEF GrowableFrom
<1>7. image \in Seq(Int)
  BY DEF OrderInv
<1> HIDE DEF S, e
<1>8. Settled(Splice(buf, e), S \cup {e})
  <2>1. EndOf(e) <= Len(buf) /\ Settled(buf, S)
    BY DEF S, e
  <2> QED
    BY <1>2, <1>3, <1>4, <1>5, <1>7, <2>1, PlacedSplice
<1> QED
  BY <1>6, <1>8 DEF e

LEMMA PlaceInit == Init => PlaceInv
BY DEF Init, PlaceInv

\* The growables all lie in the plan.
LEMMA GrowablesInPlan == GrowableEdits = {e \in InPlan : Growable(e)}
BY DEF GrowableEdits, InPlan

\* Behind the first loop everything but the growables is spliced in, ...
LEMMA FirstLoopDone ==
    ASSUME OrderInv, Accepted, i > N
    PROVE  /\ SameLengthTo(i) = GrowableFrom(N)
           /\ GrowableEdits = {} => SameLengthTo(i) = InPlan
<1>1. N \in Nat /\ i \in Int
  BY AcceptedFacts DEF OrderInv
<1>2. SameLengthTo(i) = {e \in InPlan : ~Growable(e)}
  BY <1>1 DEF SameLengthTo, InPlan
<1>3. GrowableFrom(N) = {e \in InPlan : ~Growable(e)}
  BY <1>1 DEF GrowableFrom
<1> QED
  BY <1>2, <1>3, GrowablesInPlan

\* ... and behind the second the growables too.
LEMMA SecondLoopDone ==
    ASSUME OrderInv, Accepted, i < 1
    PROVE  GrowableFrom(i) = InPlan
<1>1. N \in Nat /\ i \in Int
  BY AcceptedFacts DEF OrderInv
<1>2. \A m \in 1..N : m > i
  BY <1>1
<1>3. InPlan = {sorted[k] : k \in 1..N}
  BY InPlanFacts
<1>4. GrowableFrom(i) =
        {e \in InPlan : ~Growable(e)} \cup {sorted[k] : k \in {m \in 1..N : Growable(sorted[m])}}
  BY <1>2 DEF GrowableFrom
<1> QED
  BY <1>3, <1>4

LEMMA PlaceStep == OrderInv /\ PlaceInv /\ [Next]_vars => PlaceInv'
<1> SUFFICES ASSUME OrderInv, PlaceInv, [Next]_vars PROVE PlaceInv'
  OBVIOUS
<1>0. /\ image' = image /\ edits' = edits /\ N' = N /\ InPlan' = InPlan
      /\ GrowableEdits' = GrowableEdits
  <2>1. image' = image /\ edits' = edits
    BY DEF Next, vars, Finished, Sort, CheckNeighbours, CheckRegions,
           SpliceSameLength, SameLengthDone, SpliceGrowable,
           RewriteStringPointers, InvalidateBytecode, RewriteBunFraming,
           RewriteElfHeaders, RewriteMachOHeaders
  <2> QED
    BY <2>1 DEF N, InPlan, GrowableEdits
<1>1. CASE Sort \/ CheckNeighbours
  <2>1. pc \in {"sort", "overlaps"} /\ pc' \in {"overlaps", "rejected"} /\ buf' = buf
    BY <1>1 DEF Sort, CheckNeighbours
  <2> QED
    BY <1>0, <2>1 DEF PlaceInv
<1>2. CASE CheckRegions
  <2>1. /\ pc = "overlaps" /\ pc' \in {"same_length", "rejected"} /\ buf' = buf /\ i' = 1
    BY <1>2 DEF CheckRegions
  <2>2. SameLengthTo(i)' = {}
    BY <1>0, <2>1 DEF SameLengthTo
  <2>3. Settled(image, {})
    BY PlacedNone DEF OrderInv
  <2>4. Settled(buf, SameLengthTo(i))'
    BY <1>0, <2>1, <2>2, <2>3 DEF PlaceInv, Settled
  <2> QED
    BY <2>1, <2>4 DEF PlaceInv
<1>3. CASE SpliceSameLength
  <2>1. pc = "same_length" /\ i <= N
    BY <1>3 DEF SpliceSameLength
  <2>2. Accepted /\ buf \in Seq(Int) /\ i \in 1..N
    BY <2>1, AcceptedFacts DEF Accepted, OrderInv, SplicePhase
  <2>3. Settled(buf, SameLengthTo(i))
    BY <2>1 DEF PlaceInv
  <2>4. SameLengthTo(i)' = SameLengthTo(i')
    BY <1>0 DEF SameLengthTo
  <2>5. CASE Growable(edits[i])
    <3>1. i' = i + 1 /\ pc' = pc /\ buf' = buf
      BY <1>3, <2>5 DEF SpliceSameLength
    <3>2. \A m \in 1..N : m < i + 1 <=> (m < i \/ m = i)
      BY <2>2
    <3>3. SameLengthTo(i + 1) = SameLengthTo(i)
      BY <2>5, <3>2 DEF SameLengthTo
    <3>4. Settled(buf, SameLengthTo(i))'
      BY <1>0, <2>3, <2>4, <3>1, <3>3 DEF Settled
    <3> QED
      BY <2>1, <3>1, <3>4 DEF PlaceInv
  <2>6. CASE ~Growable(edits[i]) /\ Matches(buf, edits[i])
    <3>1. i' = i + 1 /\ pc' = pc /\ buf' = Splice(buf, edits[i])
      BY <1>3, <2>6 DEF SpliceSameLength, VerifyAndSplice
    <3>2. EndOf(edits[i]) <= Len(buf)
      BY <2>6 DEF Matches
    <3>3. Settled(Splice(buf, edits[i]), SameLengthTo(i + 1))
      BY <2>2, <2>3, <2>6, <3>2, PlacedSameLength
    <3>4. Settled(buf, SameLengthTo(i))'
      BY <1>0, <2>4, <3>1, <3>3 DEF Settled
    <3> QED
      BY <2>1, <3>1, <3>4 DEF PlaceInv
  <2>7. CASE ~Growable(edits[i]) /\ ~Matches(buf, edits[i])
    BY <1>3, <2>7 DEF SpliceSameLength, VerifyAndSplice, PlaceInv
  <2> QED
    BY <2>5, <2>6, <2>7
<1>4. CASE SameLengthDone
  <2>1. /\ pc = "same_length" /\ i > N /\ i' = N /\ buf' = buf
        /\ pc' = IF GrowableEdits = {} THEN "bytecode" ELSE "growable"
        /\ sorted' = sorted
    <3>1. i \in Int /\ N \in Nat
      BY <1>4, AcceptedFacts DEF SameLengthDone, Accepted, OrderInv
    <3> QED
      BY <1>4 DEF SameLengthDone
  <2>2. Accepted /\ Settled(buf, SameLengthTo(i))
    BY <2>1 DEF Accepted, PlaceInv
  <2>3. GrowableFrom(i)' = GrowableFrom(N)
    BY <1>0, <2>1 DEF GrowableFrom
  <2>4. Settled(buf, GrowableFrom(i))'
    BY <1>0, <2>1, <2>2, <2>3, FirstLoopDone DEF Settled
  <2>5. GrowableEdits = {} => Settled(buf, InPlan)'
    BY <1>0, <2>1, <2>2, FirstLoopDone DEF Settled
  <2> QED
    BY <1>0, <2>1, <2>4, <2>5 DEF PlaceInv
<1>5. CASE SpliceGrowable
  <2>1. pc = "growable" /\ i >= 1 /\ sorted' = sorted
    BY <1>5 DEF SpliceGrowable
  <2>2. Accepted /\ buf \in Seq(Int) /\ i \in 1..N
    BY <2>1, AcceptedFacts DEF Accepted, OrderInv, SplicePhase
  <2>3. Settled(buf, GrowableFrom(i)) /\ GrowableEdits # {}
    BY <2>1 DEF PlaceInv
  <2>4. GrowableFrom(i)' = GrowableFrom(i')
    BY <1>0, <2>1 DEF GrowableFrom
  <2>5. CASE ~Growable(sorted[i])
    <3>1. i' = i - 1 /\ pc' = pc /\ buf' = buf
      BY <1>5, <2>5 DEF SpliceGrowable, GrowableTurn
    <3>2. \A m \in 1..N : m > i - 1 <=> (m > i \/ m = i)
      BY <2>2
    <3>3. GrowableFrom(i - 1) = GrowableFrom(i)
      BY <2>5, <3>2 DEF GrowableFrom
    <3>4. Settled(buf, GrowableFrom(i))'
      BY <1>0, <2>3, <2>4, <3>1, <3>3 DEF Settled
    <3> QED
      BY <1>0, <2>1, <2>3, <3>1, <3>4 DEF PlaceInv
  <2>6. CASE Growable(sorted[i]) /\ Matches(buf, sorted[i])
    <3>1. i' = i - 1 /\ pc' = pc /\ buf' = Splice(buf, sorted[i])
      BY <1>5, <2>6 DEF SpliceGrowable, GrowableTurn, VerifyAndSplice
    <3>2. EndOf(sorted[i]) <= Len(buf)
      BY <2>6 DEF Matches
    <3>3. Settled(Splice(buf, sorted[i]), GrowableFrom(i - 1))
      BY <2>2, <2>3, <2>6, <3>2, PlacedGrowable
    <3>4. Settled(buf, GrowableFrom(i))'
      BY <1>0, <2>4, <3>1, <3>3 DEF Settled
    <3> QED
      BY <1>0, <2>1, <2>3, <3>1, <3>4 DEF PlaceInv
  <2>7. CASE Growable(sorted[i]) /\ ~Matches(buf, sorted[i])
    BY <1>5, <2>7 DEF SpliceGrowable, GrowableTurn, VerifyAndSplice, PlaceInv
  <2> QED
    BY <2>5, <2>6, <2>7
<1>6. CASE RewriteStringPointers
  BY <1>0, <1>6 DEF RewriteStringPointers, PlaceInv
<1>7. CASE InvalidateBytecode \/ RewriteBunFraming \/ RewriteElfHeaders \/ RewriteMachOHeaders
  <2>1. pc' \in {"framing", "container", "done", "refused"}
    BY <1>7 DEF InvalidateBytecode, RewriteBunFraming, RewriteElfHeaders, RewriteMachOHeaders
  <2> QED
    BY <2>1 DEF PlaceInv
<1>8. CASE UNCHANGED vars
  <2>1. pc' = pc /\ i' = i /\ buf' = buf /\ sorted' = sorted
    BY <1>8 DEF vars
  <2>2. SameLengthTo(i)' = SameLengthTo(i) /\ GrowableFrom(i)' = GrowableFrom(i)
    BY <1>0, <2>1 DEF SameLengthTo, GrowableFrom
  <2> QED
    BY <1>0, <2>1, <2>2 DEF PlaceInv, Settled
<1> QED
  BY <1>1, <1>2, <1>3, <1>4, <1>5, <1>6, <1>7, <1>8 DEF Next, Finished

\* What is placed when all edits are spliced in is what _shift_past says.
\* The growables alone move text, so _shift_past may add up all edits.
LEMMA PlanShifts ==
    ASSUME OrderInv, Accepted
    PROVE  /\ TotalDelta = DeltaSum(InPlan)
           /\ \A o : ShiftPast(o) = Past(InPlan, o)
           /\ \A e : MovedBy(e) = Past(InPlan \ {e}, e.offset)
<1>1. EditSet(InPlan)
  BY InPlanFacts
<1>2. \A S : S \subseteq InPlan => DeltaSum(S) = DeltaSum({e \in S : Growable(e)})
  <2> TAKE S
  <2> HAVE S \subseteq InPlan
  <2>1. EditSet(S)
    BY <1>1, EditSetPart
  <2> DEFINE T == {e \in S : Growable(e)}
  <2>2. T \subseteq S /\ \A e \in S \ T : ~Growable(e)
    OBVIOUS
  <2> HIDE DEF T
  <2>3. DeltaSum(S) = DeltaSum(T)
    BY <2>1, <2>2, SumGrowables
  <2> QED
    BY <2>3 DEF T
<1>3. DeltaSum(InPlan) = TotalDelta
  BY <1>2, GrowablesInPlan DEF TotalDelta, DeltaSum
<1>4. \A o : Past(InPlan, o) = ShiftPast(o)
  <2> TAKE o
  <2> DEFINE S == {f \in InPlan : EndOf(f) <= o}
  <2>1. {e \in S : Growable(e)} = {e \in GrowableEdits : EndOf(e) <= o}
    BY GrowablesInPlan
  <2>2. S \subseteq InPlan
    OBVIOUS
  <2>3. DeltaSum(S) = DeltaSum({e \in GrowableEdits : EndOf(e) <= o})
    BY <1>2, <2>1, <2>2
  <2> QED
    BY <2>3 DEF Past, ShiftPast, DeltaSum
<1>5. \A e : Past(InPlan \ {e}, e.offset) = MovedBy(e)
  <2> TAKE e
  <2> DEFINE S == {f \in InPlan \ {e} : EndOf(f) <= e.offset}
  <2>1. {f \in S : Growable(f)} = {f \in GrowableEdits \ {e} : EndOf(f) <= e.offset}
    BY GrowablesInPlan
  <2>2. S \subseteq InPlan
    OBVIOUS
  <2>3. DeltaSum(S) = DeltaSum({f \in GrowableEdits \ {e} : EndOf(f) <= e.offset})
    BY <1>2, <2>1, <2>2
  <2> QED
    BY <2>3 DEF Past, MovedBy, DeltaSum
<1> QED
  BY <1>3, <1>4, <1>5

LEMMA PlacedSplicedInPlace == OrderInv /\ PlaceInv => SplicedInPlace
<1> SUFFICES ASSUME OrderInv, PlaceInv, AllSpliced
             PROVE  /\ Len(buf) = Len(image) + TotalDelta
                    /\ \A o \in 0 .. Len(image) - 1 :
                          (\A k \in 1..N : o < edits[k].offset \/ EndOf(edits[k]) <= o)
                              => Cell(buf, o + ShiftPast(o)) = Cell(image, o)
                    /\ \A k \in 1..N : \A n \in 1..Len(edits[k].new) :
                          buf[edits[k].offset + MovedBy(edits[k]) + n] = edits[k].new[n]
  BY DEF SplicedInPlace
<1>1. Accepted
  BY DEF AllSpliced, Accepted
<1>2. Settled(buf, InPlan)
  BY <1>1, SecondLoopDone DEF AllSpliced, PlaceInv
<1>3. /\ DeltaSum(InPlan) = TotalDelta /\ \A o : Past(InPlan, o) = ShiftPast(o)
      /\ \A e : Past(InPlan \ {e}, e.offset) = MovedBy(e)
  BY <1>1, PlanShifts
<1>4. Len(buf) = Len(image) + TotalDelta
  BY <1>2, <1>3 DEF Settled, SettledIn
<1>5. ASSUME NEW o \in 0 .. Len(image) - 1,
             \A k \in 1..N : o < edits[k].offset \/ EndOf(edits[k]) <= o
      PROVE  Cell(buf, o + ShiftPast(o)) = Cell(image, o)
  <2>1. \A f \in InPlan : o < f.offset \/ EndOf(f) <= o
    BY <1>5 DEF InPlan
  <2>2. /\ o + ShiftPast(o) + 1 <= Len(buf)
        /\ buf[o + ShiftPast(o) + 1] = image[o + 1]
    BY <1>2, <1>3, <2>1 DEF Settled, SettledIn
  <2> QED
    BY <2>2 DEF Cell
<1>6. ASSUME NEW k \in 1..N, NEW n \in 1..Len(edits[k].new)
       PROVE  buf[edits[k].offset + MovedBy(edits[k]) + n] = edits[k].new[n]
  <2>1. edits[k] \in InPlan
    BY DEF InPlan
  <2> QED
    BY <1>2, <1>3, <2>1 DEF Settled, SettledIn
<1> QED
  BY <1>4, <1>5, <1>6

-----------------------------------------------------------------------------
(* Reading and overwriting cells.                                          *)

LEMMA CellInt ==
    ASSUME NEW b \in Seq(Int), NEW o \in 0 .. Len(b) - 1
    PROVE  Cell(b, o) \in Int /\ o + 1 \in 1..Len(b)
<1>1. Len(b) \in Nat /\ o + 1 \in 1..Len(b)
  BY LenProperties
<1> QED
  BY <1>1, ElementOfSeq DEF Cell

IntWrites(writes) == \A w \in writes : w[2] \in Int

LEMMA PackCells ==
    ASSUME NEW b \in Seq(Int), NEW writes, IntWrites(writes)
    PROVE  /\ PackInto(b, writes) \in Seq(Int)
           /\ Len(PackInto(b, writes)) = Len(b)
           /\ \A o \in 0 .. Len(b) - 1 :
                 (\A w \in writes : w[1] # o) => Cell(PackInto(b, writes), o) = Cell(b, o)
           /\ \A w \in writes :
                 w[1] \in 0 .. Len(b) - 1 /\ (\A v \in writes : v[1] = w[1] => v[2] = w[2])
                    => Cell(PackInto(b, writes), w[1]) = w[2]
<1> DEFINE p == PackInto(b, writes)
           Written(n) == \E w \in writes : w[1] = n - 1
           Value(n) == (CHOOSE w \in writes : w[1] = n - 1)[2]
<1>1. Len(b) \in Nat /\ DOMAIN b = 1..Len(b) /\ \A n \in 1..Len(b) : b[n] \in Int
  BY LenProperties, ElementOfSeq
<1>2. p = [n \in 1..Len(b) |-> IF Written(n) THEN Value(n) ELSE b[n]]
  BY <1>1 DEF PackInto
<1>3. ASSUME NEW n, Written(n)
      PROVE  \E w \in writes : w[1] = n - 1 /\ Value(n) = w[2]
  BY <1>3
<1>4. ASSUME NEW n, Written(n) PROVE Value(n) \in Int
  BY <1>3, <1>4 DEF IntWrites
<1> HIDE DEF Written, Value
<1>5. ASSUME NEW n \in 1..Len(b) PROVE p[n] \in Int
  BY <1>1, <1>2, <1>4
<1>6. p \in [1..Len(b) -> Int]
  BY <1>2, <1>5
<1> HIDE DEF p
<1>7. p \in Seq(Int) /\ Len(p) = Len(b)
  BY <1>1, <1>6, SeqDef
<1>8. ASSUME NEW o \in 0 .. Len(b) - 1, \A w \in writes : w[1] # o
      PROVE  Cell(p, o) = Cell(b, o)
  <2>1. o + 1 \in 1..Len(b) /\ (o + 1) - 1 = o
    BY <1>1
  <2>2. ~Written(o + 1)
    BY <1>8, <2>1 DEF Written
  <2>3. p[o + 1] = b[o + 1]
    BY <1>2, <2>1, <2>2
  <2> QED
    BY <2>3 DEF Cell
<1>9. ASSUME NEW w \in writes, w[1] \in 0 .. Len(b) - 1,
             \A v \in writes : v[1] = w[1] => v[2] = w[2]
      PROVE  Cell(p, w[1]) = w[2]
  <2> DEFINE n == w[1] + 1
  <2>1. n \in 1..Len(b) /\ n - 1 = w[1]
    BY <1>1, <1>9
  <2>2. Written(n)
    BY <2>1 DEF Written
  <2>3. Value(n) = w[2]
    BY <1>3, <1>9, <2>1, <2>2
  <2>4. p[n] = Value(n)
    BY <1>2, <2>1, <2>2
  <2> QED
    BY <2>3, <2>4 DEF Cell
<1> QED
  BY <1>7, <1>8, <1>9 DEF p

-----------------------------------------------------------------------------
(* What bun.locate reads.                                                  *)

LEMMA FieldIndexIs ==
    ASSUME NEW f \in FieldNames
    PROVE  FieldIndex(f) \in 0..5 /\ MODULE_FIELD_NAMES[FieldIndex(f) + 1] = f
<1>1. \E n \in 1..6 : MODULE_FIELD_NAMES[n] = f
  BY DEF FieldNames
<1> DEFINE n == CHOOSE n \in 1..6 : MODULE_FIELD_NAMES[n] = f
<1>2. n \in 1..6 /\ MODULE_FIELD_NAMES[n] = f
  BY <1>1
<1>3. FieldIndex(f) = n - 1
  BY DEF FieldIndex
<1> HIDE DEF n
<1>4. FieldIndex(f) \in 0..5 /\ FieldIndex(f) + 1 = n
  BY <1>2, <1>3
<1> QED
  BY <1>2, <1>4

LEMMA FieldsDiffer ==
    ASSUME NEW f \in FieldNames, NEW g \in FieldNames, FieldIndex(f) = FieldIndex(g)
    PROVE  f = g
BY FieldIndexIs

LEMMA BytecodeIsField == "bytecode" \in FieldNames
<1>1. MODULE_FIELD_NAMES[4] = "bytecode" /\ 4 \in 1..6
  BY DEF MODULE_FIELD_NAMES
<1> QED
  BY <1>1 DEF FieldNames

WholeRecords(length) == length % MODULE_RECORD_SIZE = 0

\* The framing bun was read from the cells of b.
ReadFrom(b, bun) ==
    /\ bun.bun_offset \in Nat /\ bun.bun_size \in Int
    /\ bun.payload_start = bun.bun_offset + 1
    /\ bun.payload_len = bun.bun_size - 1
    /\ bun.offsets_struct_offset = bun.bun_offset + bun.bun_size - 8
    /\ bun.offsets_struct_offset \in Nat /\ bun.offsets_struct_offset + 8 <= Len(b)
    /\ bun.byte_count = bun.offsets_struct_offset - bun.payload_start
    /\ bun.payload_len = Cell(b, bun.bun_offset)
    /\ bun.byte_count = Cell(b, bun.offsets_struct_offset)
    /\ Cell(b, bun.offsets_struct_offset + 7) = TRAILER
    /\ bun.modules_ptr = StringPtrAt(b, bun.offsets_struct_offset + 1)
    /\ bun.modules_ptr.offset \in Int /\ bun.modules_ptr.length \in Int
    /\ WholeRecords(bun.modules_ptr.length)
    /\ bun.payload_start + bun.modules_ptr.offset \in Nat
    /\ bun.payload_start + bun.modules_ptr.offset + bun.modules_ptr.length <= Len(b)
    /\ bun.entry_point_id = Cell(b, bun.offsets_struct_offset + 3)
    /\ bun.compile_exec_argv_ptr = StringPtrAt(b, bun.offsets_struct_offset + 4)
    /\ bun.flags = Cell(b, bun.offsets_struct_offset + 6)
    /\ bun.entry_point_id \in Int /\ bun.flags \in Int
    /\ bun.compile_exec_argv_ptr.offset \in Int
    /\ bun.compile_exec_argv_ptr.length \in Int
    /\ bun.modules =
          [m \in 0 .. (bun.modules_ptr.length \div MODULE_RECORD_SIZE) - 1 |->
              ModuleRecordAt(b, bun.payload_start + bun.modules_ptr.offset
                                    + m * MODULE_RECORD_SIZE)]

LEMMA LocateReads ==
    ASSUME NEW b \in Seq(Int), NEW sect, sect.offset \in Int, sect.size \in Int,
           Located(b, sect)
    PROVE  /\ ReadFrom(b, Locate(b, sect))
           /\ Locate(b, sect).bun_offset = sect.offset
           /\ Locate(b, sect).bun_size = sect.size
<1> DEFINE bun == Locate(b, sect)
           at == OffsetsStructAt(b, sect)
           o == sect.offset
<1>0. Len(b) \in Nat
  BY LenProperties
<1>1. o \in Nat /\ o + 1 <= Len(b) /\ Cell(b, o) = sect.size - 1
  BY DEF Located, Readable, PREFIX_SIZE
<1>2. at = o + sect.size - 8
  <2>1. at = o + 1 + Cell(b, o) - 1 - 7
    BY DEF OffsetsStructAt, PREFIX_SIZE, TRAILER_SIZE, OFFSETS_STRUCT_SIZE
  <2> DEFINE c == Cell(b, o)
             z == sect.size
  <2>2. at = o + 1 + c - 1 - 7 /\ c = z - 1 /\ o \in Int /\ z \in Int
    BY <1>1, <2>1
  <2> HIDE DEF at, o, c, z
  <2>3. at = o + z - 8
    BY <2>2
  <2> QED
    BY <2>3 DEF z
<1>3. at \in Nat /\ at + 8 <= Len(b)
  BY <1>2 DEF Located, Readable, TRAILER_SIZE, OFFSETS_STRUCT_SIZE
<1>4. \A n \in 0..7 : Cell(b, at + n) \in Int
  <2> TAKE n \in 0..7
  <2>1. at + n \in 0 .. Len(b) - 1
    BY <1>0, <1>3
  <2> HIDE DEF at
  <2> QED
    BY <2>1, CellInt
<1>5. /\ Cell(b, at + 1) \in Int /\ Cell(b, at + 2) \in Int /\ Cell(b, at + 3) \in Int
      /\ Cell(b, at + 4) \in Int /\ Cell(b, at + 5) \in Int /\ Cell(b, at + 6) \in Int
  BY <1>4
<1>10. /\ Cell(b, at) = at - (o + 1)
       /\ WholeRecords(Cell(b, at + 2))
       /\ o + 1 + Cell(b, at + 1) \in Nat
       /\ o + 1 + Cell(b, at + 1) + Cell(b, at + 2) <= Len(b)
  BY <1>1, <1>5 DEF Located, Readable, WholeRecords, PREFIX_SIZE
<1>6. /\ bun.bun_offset = o /\ bun.bun_size = sect.size
      /\ bun.payload_start = o + 1 /\ bun.payload_len = Cell(b, o)
      /\ bun.offsets_struct_offset = at /\ bun.byte_count = Cell(b, at)
      /\ bun.modules_ptr = StringPtrAt(b, at + 1)
      /\ bun.entry_point_id = Cell(b, at + 3)
      /\ bun.compile_exec_argv_ptr = StringPtrAt(b, at + 4)
      /\ bun.flags = Cell(b, at + 6)
  BY DEF Locate, PREFIX_SIZE
<1>7. bun.modules =
          [m \in 0 .. (bun.modules_ptr.length \div MODULE_RECORD_SIZE) - 1 |->
              ModuleRecordAt(b, bun.payload_start + bun.modules_ptr.offset
                                    + m * MODULE_RECORD_SIZE)]
  BY DEF Locate, PREFIX_SIZE
<1> HIDE DEF bun, at
<1>8. /\ bun.modules_ptr.offset = Cell(b, at + 1) /\ bun.modules_ptr.length = Cell(b, at + 2)
      /\ bun.compile_exec_argv_ptr.offset = Cell(b, at + 4)
      /\ bun.compile_exec_argv_ptr.length = Cell(b, at + 5)
  <2>1. (at + 1) + 1 = at + 2 /\ (at + 4) + 1 = at + 5
    BY <1>3
  <2> QED
    BY <1>6, <2>1 DEF StringPtrAt
<1>9. ReadFrom(b, bun)
  <2> DEFINE z == sect.size
             p == Cell(b, at + 1)
             l == Cell(b, at + 2)
  <2>1. /\ o \in Nat /\ z \in Int /\ at = o + z - 8 /\ Cell(b, o) = z - 1
        /\ Cell(b, at) = at - (o + 1) /\ p \in Int /\ l \in Int
        /\ o + 1 + p \in Nat /\ o + 1 + p + l <= Len(b)
    BY <1>1, <1>2, <1>5, <1>10
  <2>2. bun.payload_len = bun.bun_size - 1 /\ bun.bun_size \in Int
    BY <1>6, <2>1
  <2>3. /\ bun.modules_ptr.offset = p /\ bun.modules_ptr.length = l
        /\ bun.payload_start = o + 1 /\ bun.bun_offset = o /\ bun.bun_size = z
    BY <1>6, <1>8
  <2> HIDE DEF o, z, p, l
  <2>4. bun.payload_start + bun.modules_ptr.offset = o + 1 + p
    BY <2>3
  <2>5. /\ bun.payload_start + bun.modules_ptr.offset \in Nat
        /\ bun.payload_start + bun.modules_ptr.offset + bun.modules_ptr.length <= Len(b)
    BY <2>1, <2>3, <2>4
  <2>6. WholeRecords(bun.modules_ptr.length)
    BY <1>10, <2>3 DEF l
  <2>7. /\ bun.offsets_struct_offset = bun.bun_offset + bun.bun_size - 8
        /\ bun.byte_count = bun.offsets_struct_offset - bun.payload_start
    BY <1>6, <2>1, <2>3
  <2>8. /\ bun.payload_len = Cell(b, bun.bun_offset)
        /\ bun.byte_count = Cell(b, bun.offsets_struct_offset)
        /\ Cell(b, bun.offsets_struct_offset + 7) = TRAILER
    <3>1. Cell(b, at + 7) = TRAILER
      BY DEF Located, OFFSETS_STRUCT_SIZE, at
    <3> QED
      BY <1>6, <3>1
  <2> QED
    BY <1>3, <1>5, <1>6, <1>7, <1>8, <2>1, <2>2, <2>3, <2>5, <2>6, <2>7, <2>8
    DEF ReadFrom
<1> QED
  BY <1>6, <1>9 DEF bun

LEMMA ModuleReads ==
    ASSUME NEW b \in Seq(Int), NEW bun, ReadFrom(b, bun), NEW m \in DOMAIN bun.modules
    PROVE  /\ m \in Nat
           /\ bun.modules[m].base =
                  bun.payload_start + bun.modules_ptr.offset + m * MODULE_RECORD_SIZE
           /\ bun.modules[m].base \in Nat
           /\ bun.modules[m].base + 13 <=
                  bun.payload_start + bun.modules_ptr.offset + bun.modules_ptr.length
           /\ bun.modules[m].encoding = Cell(b, bun.modules[m].base + 12)
           /\ bun.modules[m].encoding \in Int
           /\ \A f \in FieldNames :
                  LET at == bun.modules[m].base + 2 * FieldIndex(f)
                  IN /\ bun.modules[m].fields[f] = StringPtrAt(b, at)
                     /\ bun.modules[m].fields[f].offset = Cell(b, at)
                     /\ bun.modules[m].fields[f].length = Cell(b, at + 1)
                     /\ Cell(b, at) \in Int /\ Cell(b, at + 1) \in Int
<1> DEFINE len == bun.modules_ptr.length
           table == bun.payload_start + bun.modules_ptr.offset
           base == table + m * MODULE_RECORD_SIZE
<1>0. Len(b) \in Nat
  BY LenProperties
<1>1. m \in 0 .. (len \div MODULE_RECORD_SIZE) - 1 /\ bun.modules[m] = ModuleRecordAt(b, base)
  BY DEF ReadFrom
<1>2. len \in Int /\ WholeRecords(len) /\ table \in Nat /\ table + len <= Len(b)
  BY DEF ReadFrom
<1> HIDE DEF len, table
<1>3. m \in Nat /\ base \in Nat /\ base = table + 13 * m /\ base + 13 <= table + len
  <2>1. m \in 0 .. (len \div 13) - 1 /\ base = table + 13 * m
    BY <1>1, <1>2 DEF MODULE_RECORD_SIZE
  <2>2. len \div 13 \in Int /\ len = 13 * (len \div 13)
    <3>1. len % 13 = 0
      BY <1>2 DEF WholeRecords, MODULE_RECORD_SIZE
    <3> QED
      BY <1>2, <3>1
  <2>3. m + 1 <= len \div 13
    BY <2>1, <2>2
  <2>4. 13 * (m + 1) <= len
    BY <2>1, <2>2, <2>3
  <2> QED
    BY <1>2, <2>1, <2>4
<1> HIDE DEF base
<1>A. base \in Nat /\ base + 13 <= Len(b)
  <2>1. base \in Nat /\ base + 13 <= table + len /\ table \in Nat /\ len \in Int
        /\ table + len <= Len(b)
    BY <1>2, <1>3
  <2> QED
    BY <1>0, <2>1
<1>4. bun.modules[m].base = base /\ bun.modules[m].encoding = Cell(b, base + 12)
  BY <1>1 DEF ModuleRecordAt
<1>5. Cell(b, base + 12) \in Int
  <2>1. base + 12 \in 0 .. Len(b) - 1
    BY <1>0, <1>A
  <2> QED
    BY <2>1, CellInt
<1>6. ASSUME NEW f \in FieldNames
      PROVE  /\ bun.modules[m].fields[f] = StringPtrAt(b, base + 2 * FieldIndex(f))
             /\ bun.modules[m].fields[f].offset = Cell(b, base + 2 * FieldIndex(f))
             /\ bun.modules[m].fields[f].length = Cell(b, base + 2 * FieldIndex(f) + 1)
             /\ Cell(b, base + 2 * FieldIndex(f)) \in Int
             /\ Cell(b, base + 2 * FieldIndex(f) + 1) \in Int
  <2>1. FieldIndex(f) \in 0..5
    BY FieldIndexIs
  <2>2. /\ base + 2 * FieldIndex(f) \in 0 .. Len(b) - 1
        /\ base + 2 * FieldIndex(f) + 1 \in 0 .. Len(b) - 1
    <3> DEFINE n == FieldIndex(f)
               L == Len(b)
    <3>1. n \in 0..5 /\ base \in Nat /\ base + 13 <= L /\ L \in Nat
      BY <1>0, <1>A, <2>1
    <3> HIDE DEF n, L
    <3>2. base + 2 * n \in 0 .. L - 1 /\ base + 2 * n + 1 \in 0 .. L - 1
      BY <3>1
    <3> QED
      BY <3>2 DEF n, L
  <2>3. bun.modules[m].fields[f] = StringPtrAt(b, base + 2 * FieldIndex(f))
    BY <1>1 DEF ModuleRecordAt
  <2> QED
    BY <2>2, <2>3, CellInt DEF StringPtrAt
<1> QED
  BY <1>3, <1>4, <1>5, <1>6 DEF base, table, len

-----------------------------------------------------------------------------
(* What the container parsers read.                                        *)

LEMMA MinIs ==
    ASSUME NEW S, S \subseteq Nat, S # {}
    PROVE  Min(S) \in S /\ \A n \in S : Min(S) <= n
<1>1. IsWellFoundedOn(OpToRel(<, Nat), Nat)
  BY NatLessThanWellFounded
<1>2. PICK m \in S : \A n \in S : <<n, m>> \notin OpToRel(<, Nat)
  BY <1>1, WFMin
<1>3. \A n \in S : m <= n
  <2> TAKE n \in S
  <2>1. <<n, m>> \notin OpToRel(<, Nat) /\ n \in Nat /\ m \in Nat
    BY <1>2
  <2> QED
    BY <2>1 DEF OpToRel
<1> QED
  BY <1>3 DEF Min

LEMMA ElfReads ==
    ASSUME NEW b \in Seq(Int), ElfReadable(b)
    PROVE  /\ 5 <= Len(b)
           /\ Cell(b, 1) \in Int /\ Cell(b, 2) \in Int
           /\ Cell(b, 3) \in Int /\ Cell(b, 4) \in Int
           /\ ElfParse(b).e_shoff = Cell(b, 3)
           /\ DOMAIN ElfParse(b).segments = 0 .. Cell(b, 2) - 1
           /\ DOMAIN ElfParse(b).sections = 0 .. Cell(b, 4) - 1
           /\ \A n \in DOMAIN ElfParse(b).segments :
                 LET g == ElfParse(b).segments[n]
                 IN /\ n \in Nat /\ g.header = Cell(b, 1) + n * PHDR_SIZE
                    /\ g.header \in Nat /\ g.header + 3 <= Len(b)
                    /\ g.p_offset = Cell(b, g.header) /\ g.p_offset \in Int
                    /\ g.p_filesz = Cell(b, g.header + 1) /\ g.p_filesz \in Int
                    /\ g.p_memsz = Cell(b, g.header + 2) /\ g.p_memsz \in Int
           /\ \A n \in DOMAIN ElfParse(b).sections :
                 LET t == ElfParse(b).sections[n]
                 IN /\ n \in Nat /\ t.header = Cell(b, 3) + n * SHDR_SIZE
                    /\ t.header \in Nat /\ t.header + 3 <= Len(b)
                    /\ t.name = Cell(b, t.header) /\ t.name \in Int
                    /\ t.sh_offset = Cell(b, t.header + 1) /\ t.sh_offset \in Int
                    /\ t.sh_size = Cell(b, t.header + 2) /\ t.sh_size \in Int
<1> DEFINE L == Len(b)
           elf == ElfParse(b)
           ph == Cell(b, 1)
           pn == Cell(b, 2)
           sh == Cell(b, 3)
           sn == Cell(b, 4)
<1>0. L \in Nat
  BY LenProperties
<1>1. 5 <= L
  BY DEF ElfReadable, Readable, EHDR_SIZE
<1>2. ph \in Int /\ pn \in Int /\ sh \in Int /\ sn \in Int
  <2>1. 1 \in 0 .. Len(b) - 1 /\ 2 \in 0 .. Len(b) - 1 /\ 3 \in 0 .. Len(b) - 1
        /\ 4 \in 0 .. Len(b) - 1
    BY <1>0, <1>1
  <2> QED
    BY <2>1, CellInt
<1>3. ph >= 0 /\ ph + pn * 3 <= L /\ sh >= 0 /\ sh + sn * 3 <= L
  BY DEF ElfReadable, Readable, PHDR_SIZE, SHDR_SIZE
<1>4. /\ elf.e_shoff = sh
      /\ elf.segments = [n \in 0 .. pn - 1 |->
             [p_offset |-> Cell(b, ph + n * 3), p_filesz |-> Cell(b, ph + n * 3 + 1),
              p_memsz |-> Cell(b, ph + n * 3 + 2), header |-> ph + n * 3]]
      /\ elf.sections = [n \in 0 .. sn - 1 |->
             [name |-> Cell(b, sh + n * 3), sh_offset |-> Cell(b, sh + n * 3 + 1),
              sh_size |-> Cell(b, sh + n * 3 + 2), header |-> sh + n * 3]]
  BY DEF ElfParse, PHDR_SIZE, SHDR_SIZE
<1> HIDE DEF ph, pn, sh, sn, L, elf
<1>5. ASSUME NEW x \in Nat, x + 3 <= L
      PROVE  Cell(b, x) \in Int /\ Cell(b, x + 1) \in Int /\ Cell(b, x + 2) \in Int
  <2>1. x \in 0 .. Len(b) - 1 /\ x + 1 \in 0 .. Len(b) - 1 /\ x + 2 \in 0 .. Len(b) - 1
    BY <1>0, <1>5 DEF L
  <2> QED
    BY <2>1, CellInt
<1>6. ASSUME NEW n \in 0 .. pn - 1
      PROVE  n \in Nat /\ ph + n * 3 \in Nat /\ ph + n * 3 + 3 <= L
  BY <1>0, <1>2, <1>3
<1>7. ASSUME NEW n \in 0 .. sn - 1
      PROVE  n \in Nat /\ sh + n * 3 \in Nat /\ sh + n * 3 + 3 <= L
  BY <1>0, <1>2, <1>3
<1>8. ASSUME NEW n \in DOMAIN elf.segments
      PROVE  LET g == elf.segments[n]
             IN /\ n \in Nat /\ g.header = ph + n * PHDR_SIZE
                /\ g.header \in Nat /\ g.header + 3 <= L
                /\ g.p_offset = Cell(b, g.header) /\ g.p_offset \in Int
                /\ g.p_filesz = Cell(b, g.header + 1) /\ g.p_filesz \in Int
                /\ g.p_memsz = Cell(b, g.header + 2) /\ g.p_memsz \in Int
  <2> DEFINE x == ph + n * 3
  <2>1. n \in Nat /\ x \in Nat /\ x + 3 <= L
    BY <1>4, <1>6
  <2>2. elf.segments[n] = [p_offset |-> Cell(b, x), p_filesz |-> Cell(b, x + 1),
                           p_memsz |-> Cell(b, x + 2), header |-> x]
    BY <1>4
  <2>3. x = ph + n * PHDR_SIZE
    BY DEF PHDR_SIZE
  <2> HIDE DEF x
  <2> QED
    BY <1>5, <2>1, <2>2, <2>3
<1>9. ASSUME NEW n \in DOMAIN elf.sections
      PROVE  LET t == elf.sections[n]
             IN /\ n \in Nat /\ t.header = sh + n * SHDR_SIZE
                /\ t.header \in Nat /\ t.header + 3 <= L
                /\ t.name = Cell(b, t.header) /\ t.name \in Int
                /\ t.sh_offset = Cell(b, t.header + 1) /\ t.sh_offset \in Int
                /\ t.sh_size = Cell(b, t.header + 2) /\ t.sh_size \in Int
  <2> DEFINE x == sh + n * 3
  <2>1. n \in Nat /\ x \in Nat /\ x + 3 <= L
    BY <1>4, <1>7
  <2>2. elf.sections[n] = [name |-> Cell(b, x), sh_offset |-> Cell(b, x + 1),
                           sh_size |-> Cell(b, x + 2), header |-> x]
    BY <1>4
  <2>3. x = sh + n * SHDR_SIZE
    BY DEF SHDR_SIZE
  <2> HIDE DEF x
  <2> QED
    BY <1>5, <2>1, <2>2, <2>3
<1>10. DOMAIN elf.segments = 0 .. pn - 1 /\ DOMAIN elf.sections = 0 .. sn - 1
  BY <1>4
<1> QED
  BY <1>1, <1>2, <1>4, <1>8, <1>9, <1>10 DEF ph, pn, sh, sn, L, elf

LEMMA ElfBunIs ==
    ASSUME NEW b \in Seq(Int), ElfReadable(b), ElfBunIndexes(ElfParse(b)) # {}
    PROVE  LET elf == ElfParse(b)
               n == Min(ElfBunIndexes(elf))
           IN /\ n \in DOMAIN elf.sections /\ elf.sections[n].name = BUN_SECTION_NAME
              /\ ElfBunSection(elf).offset = elf.sections[n].sh_offset
              /\ ElfBunSection(elf).size = elf.sections[n].sh_size
              /\ ElfBunSection(elf).offset \in Int /\ ElfBunSection(elf).size \in Int
<1> DEFINE elf == ElfParse(b)
           n == Min(ElfBunIndexes(elf))
<1>1. ElfBunIndexes(elf) \subseteq Nat
  BY ElfReads DEF ElfBunIndexes
<1>2. n \in ElfBunIndexes(elf)
  BY <1>1, MinIs
<1>3. n \in DOMAIN elf.sections /\ elf.sections[n].name = BUN_SECTION_NAME
  BY <1>2 DEF ElfBunIndexes
<1>4. /\ ElfBunSection(elf).offset = elf.sections[n].sh_offset
      /\ ElfBunSection(elf).size = elf.sections[n].sh_size
  BY DEF ElfBunSection
<1>5. elf.sections[n].sh_offset \in Int /\ elf.sections[n].sh_size \in Int
  BY <1>3, ElfReads
<1> QED
  BY <1>3, <1>4, <1>5

\* Where command n begins, by where the one before it does.
CommandTo(b, f, n) ==
    IF n = 0 THEN MACH_HEADER_SIZE ELSE f[n - 1] + Cell(b, f[n - 1] + 1)

LEMMA OffsetsExist ==
    ASSUME NEW b, NEW z \in Nat
    PROVE  \E f : f = [n \in 0 .. z |-> CommandTo(b, f, n)]
<1> DEFINE Upto(y) == \E f : f = [n \in 0 .. y |-> CommandTo(b, f, n)]
           G == {y \in 0 .. z : Upto(y)}
<1>1. 0 \in G
  <2> DEFINE f == [n \in 0 .. 0 |-> MACH_HEADER_SIZE]
  <2>1. ASSUME NEW n \in 0 .. 0 PROVE f[n] = CommandTo(b, f, n)
    BY DEF CommandTo
  <2>2. f = [n \in 0 .. 0 |-> CommandTo(b, f, n)]
    BY <2>1
  <2> QED
    BY <2>2
<1>2. ASSUME NEW y \in 0 .. z - 1, y \in G PROVE y + 1 \in G
  <2>1. PICK f : f = [n \in 0 .. y |-> CommandTo(b, f, n)]
    BY <1>2
  <2> DEFINE g == [n \in 0 .. y + 1 |-> IF n = y + 1 THEN CommandTo(b, f, n) ELSE f[n]]
  <2>2. \A n \in 0 .. y : g[n] = f[n]
    OBVIOUS
  <2>3. ASSUME NEW n \in 0 .. y + 1 PROVE CommandTo(b, g, n) = CommandTo(b, f, n)
    <3>1. CASE n = 0
      BY <3>1 DEF CommandTo
    <3>2. CASE n # 0
      <4>1. n - 1 \in 0 .. y
        BY <3>2
      <4>2. g[n - 1] = f[n - 1]
        BY <2>2, <4>1
      <4> HIDE DEF g
      <4> QED
        BY <4>2 DEF CommandTo
    <3> QED
      BY <3>1, <3>2
  <2>4. ASSUME NEW n \in 0 .. y + 1 PROVE g[n] = CommandTo(b, g, n)
    <3>1. CASE n = y + 1
      BY <2>3, <3>1
    <3>2. CASE n # y + 1
      <4>1. n \in 0 .. y
        BY <3>2
      <4>2. f[n] = CommandTo(b, f, n)
        BY <2>1, <4>1
      <4> QED
        BY <2>2, <2>3, <4>1, <4>2
    <3> QED
      BY <3>1, <3>2
  <2>5. g = [n \in 0 .. y + 1 |-> g[n]]
    OBVIOUS
  <2> HIDE DEF g
  <2>6. g = [n \in 0 .. y + 1 |-> CommandTo(b, g, n)]
    BY <2>4, <2>5
  <2>7. y + 1 \in 0 .. z
    OBVIOUS
  <2> QED
    BY <2>6, <2>7
<1>3. z \in G
  <2> HIDE DEF G
  <2>1. 0 .. z \subseteq G
    BY <1>1, <1>2, UpToInduction
  <2> QED
    BY <2>1
<1> QED
  BY <1>3

LEMMA OffsetsAre ==
    ASSUME NEW b, Cell(b, 2) \in Nat
    PROVE  /\ CommandOffsets(b)[0] = MACH_HEADER_SIZE
           /\ \A n \in 0 .. Cell(b, 2) - 1 :
                 CommandOffsets(b)[n + 1] =
                    CommandOffsets(b)[n] + Cell(b, CommandOffsets(b)[n] + 1)
           /\ DOMAIN CommandOffsets(b) = 0 .. Cell(b, 2)
           /\ CommandOffsets(b) = [n \in 0 .. Cell(b, 2) |-> CommandOffsets(b)[n]]
<1> DEFINE z == Cell(b, 2)
           IsAt(f) == f = [n \in 0 .. z |-> CommandTo(b, f, n)]
           at == CommandOffsets(b)
<1>1. at = CHOOSE f : IsAt(f)
  BY DEF CommandOffsets, CommandTo
<1>2. \E f : IsAt(f)
  BY OffsetsExist
<1> HIDE DEF at
<1>3. IsAt(at)
  <2> HIDE DEF IsAt
  <2> QED
    BY <1>1, <1>2
<1> HIDE DEF z
<1>4. z \in Nat
  BY DEF z
<1>5. at[0] = MACH_HEADER_SIZE
  BY <1>3, <1>4 DEF CommandTo
<1>6. ASSUME NEW n \in 0 .. z - 1 PROVE at[n + 1] = at[n] + Cell(b, at[n] + 1)
  <2>1. n + 1 \in 0 .. z /\ n + 1 # 0 /\ (n + 1) - 1 = n
    BY <1>4
  <2>2. at[n + 1] = CommandTo(b, at, n + 1)
    BY <1>3, <2>1
  <2> QED
    BY <2>1, <2>2 DEF CommandTo
<1>7. DOMAIN at = 0 .. z /\ at = [n \in 0 .. z |-> at[n]]
  BY <1>3
<1> QED
  BY <1>5, <1>6, <1>7 DEF z, at

\* The load commands of an accepted table follow one another.
CommandsIn(b) ==
    LET at == CommandOffsets(b)
    IN /\ Cell(b, 2) \in Nat /\ at[0] = 4 /\ 4 <= Len(b)
       /\ \A n \in 0 .. Cell(b, 2) : at[n] \in Nat /\ 4 <= at[n]
       /\ \A n \in 0 .. Cell(b, 2) - 1 :
             /\ CommandAccepted(b, at[n])
             /\ at[n] + 2 <= Len(b)
             /\ Cell(b, at[n]) \in Int /\ Cell(b, at[n] + 1) \in Nat
             /\ 2 <= Cell(b, at[n] + 1)
             /\ at[n + 1] = at[n] + Cell(b, at[n] + 1)
       /\ \A m \in 0 .. Cell(b, 2) - 1, n \in 0 .. Cell(b, 2) :
             m < n => at[m + 1] <= at[n]

LEMMA CommandsAre ==
    ASSUME NEW b \in Seq(Int), MachOAccepted(b), Cell(b, 2) \in Nat
    PROVE  CommandsIn(b)
<1> DEFINE z == Cell(b, 2)
           at == CommandOffsets(b)
           L == Len(b)
<1>0. L \in Nat /\ z \in Nat
  BY LenProperties
<1>1. 4 <= L /\ \A n \in 0 .. z - 1 : CommandAccepted(b, at[n])
  BY DEF MachOAccepted, Readable, MACH_HEADER_SIZE
<1>2. at[0] = 4 /\ \A n \in 0 .. z - 1 : at[n + 1] = at[n] + Cell(b, at[n] + 1)
  BY OffsetsAre DEF MACH_HEADER_SIZE
<1> HIDE DEF z, at, L
<1>3. ASSUME NEW n \in 0 .. z - 1, at[n] \in Nat, 4 <= at[n]
      PROVE  /\ at[n] + 2 <= L
             /\ Cell(b, at[n]) \in Int /\ Cell(b, at[n] + 1) \in Nat
             /\ 2 <= Cell(b, at[n] + 1)
             /\ at[n + 1] \in Nat /\ 4 <= at[n + 1]
  <2> DEFINE x == at[n]
  <2>1. CommandAccepted(b, x)
    BY <1>1
  <2>2. x + 2 <= L /\ Cell(b, x + 1) >= 2
    BY <2>1 DEF CommandAccepted, Readable, COMMAND_SIZE, L
  <2>3. x \in Nat
    BY <1>3
  <2> HIDE DEF x
  <2>4. x \in 0 .. Len(b) - 1 /\ x + 1 \in 0 .. Len(b) - 1
    BY <1>0, <2>2, <2>3 DEF L
  <2>5. Cell(b, x) \in Int /\ Cell(b, x + 1) \in Int
    BY <2>4, CellInt
  <2>6. at[n + 1] = x + Cell(b, x + 1)
    BY <1>2 DEF x
  <2> DEFINE c == Cell(b, x + 1)
  <2>7. c \in Int /\ c >= 2 /\ at[n + 1] = x + c /\ 4 <= x
    BY <1>3, <2>2, <2>5, <2>6 DEF x
  <2> HIDE DEF c
  <2>8. c \in Nat /\ at[n + 1] \in Nat /\ 4 <= at[n + 1] /\ 2 <= c
    BY <2>3, <2>7
  <2> QED
    BY <2>2, <2>5, <2>8 DEF c, x
<1>4. \A n \in 0 .. z : at[n] \in Nat /\ 4 <= at[n]
  <2> DEFINE G == {n \in 0 .. z : at[n] \in Nat /\ 4 <= at[n]}
  <2>1. 0 \in G
    BY <1>0, <1>2
  <2>2. ASSUME NEW n \in 0 .. z - 1, n \in G PROVE n + 1 \in G
    BY <1>0, <1>3, <2>2
  <2>3. 0 .. z \subseteq G
    <3>1. 0 \in Int /\ z \in Int
      BY <1>0
    <3> HIDE DEF G
    <3> QED
      BY <2>1, <2>2, <3>1, UpToInduction
  <2> QED
    BY <2>3
<1>5. \A n \in 0 .. z - 1 :
         /\ CommandAccepted(b, at[n]) /\ at[n] + 2 <= L
         /\ Cell(b, at[n]) \in Int /\ Cell(b, at[n] + 1) \in Nat
         /\ 2 <= Cell(b, at[n] + 1)
         /\ at[n + 1] = at[n] + Cell(b, at[n] + 1)
         /\ at[n] \in Nat /\ at[n + 1] \in Nat /\ at[n] <= at[n + 1]
  <2> TAKE n \in 0 .. z - 1
  <2>1. n \in 0 .. z /\ n + 1 \in 0 .. z
    BY <1>0
  <2>2. at[n] \in Nat /\ 4 <= at[n] /\ at[n + 1] \in Nat
    BY <1>4, <2>1
  <2>3. /\ at[n] + 2 <= L
        /\ Cell(b, at[n]) \in Int /\ Cell(b, at[n] + 1) \in Nat
        /\ 2 <= Cell(b, at[n] + 1)
    BY <1>3, <2>2
  <2>4. CommandAccepted(b, at[n]) /\ at[n + 1] = at[n] + Cell(b, at[n] + 1)
    BY <1>1, <1>2
  <2>5. at[n] <= at[n + 1]
    BY <2>2, <2>3, <2>4
  <2> QED
    BY <2>2, <2>3, <2>4, <2>5
<1>6. ASSUME NEW m \in 0 .. z - 1 PROVE \A n \in m + 1 .. z : at[m + 1] <= at[n]
  <2> DEFINE G == {n \in m + 1 .. z : at[m + 1] <= at[n]}
  <2>1. m + 1 \in G
    <3>1. m + 1 \in m + 1 .. z
      BY <1>0
    <3>2. at[m + 1] \in Nat
      BY <1>5
    <3> QED
      BY <3>1, <3>2
  <2>2. ASSUME NEW n \in m + 1 .. z - 1, n \in G PROVE n + 1 \in G
    <3>1. n \in 0 .. z - 1 /\ m + 1 \in 0 .. z /\ n + 1 \in m + 1 .. z
      BY <1>0
    <3>2. at[n] <= at[n + 1] /\ at[n] \in Nat /\ at[n + 1] \in Nat /\ at[m + 1] \in Nat
      BY <1>4, <1>5, <3>1
    <3>3. at[m + 1] <= at[n]
      BY <2>2
    <3> QED
      BY <3>1, <3>2, <3>3
  <2>3. m + 1 .. z \subseteq G
    <3>1. m + 1 \in Int /\ z \in Int
      BY <1>0
    <3> HIDE DEF G
    <3> QED
      BY <2>1, <2>2, <3>1, UpToInduction
  <2> QED
    BY <2>3
<1>7. ASSUME NEW m \in 0 .. z - 1, NEW n \in 0 .. z, m < n PROVE at[m + 1] <= at[n]
  <2>1. n \in m + 1 .. z
    BY <1>0, <1>7
  <2> QED
    BY <1>6, <2>1
<1>8. /\ z \in Nat /\ at[0] = 4 /\ 4 <= L
      /\ \A n \in 0 .. z : at[n] \in Nat /\ 4 <= at[n]
      /\ \A n \in 0 .. z - 1 :
             /\ CommandAccepted(b, at[n])
             /\ at[n] + 2 <= L
             /\ Cell(b, at[n]) \in Int /\ Cell(b, at[n] + 1) \in Nat
             /\ 2 <= Cell(b, at[n] + 1)
             /\ at[n + 1] = at[n] + Cell(b, at[n] + 1)
      /\ \A m \in 0 .. z - 1, n \in 0 .. z : m < n => at[m + 1] <= at[n]
  BY <1>0, <1>1, <1>2, <1>4, <1>5, <1>7
<1> QED
  BY <1>8 DEF CommandsIn, z, at, L

\* One segment command at x.
SegmentIn(b, x) ==
    /\ x \in Nat /\ 8 <= Cell(b, x + 1) /\ x + 8 <= Len(b)
    /\ \A n \in 0..7 : Cell(b, x + n) \in Int
    /\ \A n \in 0 .. Cell(b, x + 7) - 1 :
          LET y == x + SEGMENT_COMMAND_SIZE + n * SECTION_SIZE
          IN /\ y \in Nat /\ x + 8 <= y /\ y + 4 <= x + Cell(b, x + 1) /\ y + 4 <= Len(b)
             /\ \A k \in 0..3 : Cell(b, y + k) \in Int

LEMMA SegmentReads ==
    ASSUME NEW b \in Seq(Int), NEW x \in Nat, CommandAccepted(b, x),
           Cell(b, x) = LC_SEGMENT_64
    PROVE  SegmentIn(b, x)
<1> DEFINE L == Len(b)
           size == Cell(b, x + 1)
           sects == Cell(b, x + 7)
<1>0. L \in Nat
  BY LenProperties
<1>1. /\ size >= 8 /\ x + 8 <= L /\ 8 + sects * 4 <= size /\ x + (8 + sects * 4) <= L
  BY DEF CommandAccepted, SectionsFit, Readable, SEGMENT_COMMAND_SIZE, SECTION_SIZE
<1>2. ASSUME NEW n \in 0..7 PROVE Cell(b, x + n) \in Int
  <2>1. x + n \in 0 .. Len(b) - 1
    BY <1>0, <1>1
  <2> QED
    BY <2>1, CellInt
<1>3. size \in Int /\ sects \in Int
  BY <1>2
<1> HIDE DEF L, size, sects
<1>4. ASSUME NEW n \in 0 .. sects - 1
      PROVE  LET y == x + SEGMENT_COMMAND_SIZE + n * SECTION_SIZE
             IN /\ y \in Nat /\ x + 8 <= y /\ y + 4 <= x + size /\ y + 4 <= L
                /\ \A k \in 0..3 : Cell(b, y + k) \in Int
  <2> DEFINE y == x + SEGMENT_COMMAND_SIZE + n * SECTION_SIZE
  <2>1. y = x + 8 + n * 4
    BY DEF SEGMENT_COMMAND_SIZE, SECTION_SIZE
  <2> HIDE DEF y
  <2>2. y \in Nat /\ x + 8 <= y /\ y + 4 <= x + size /\ y + 4 <= L
    BY <1>0, <1>1, <1>3, <2>1
  <2>3. ASSUME NEW k \in 0..3 PROVE Cell(b, y + k) \in Int
    <3>1. y + k \in 0 .. Len(b) - 1
      BY <1>0, <2>2 DEF L
    <3> QED
      BY <3>1, CellInt
  <2> QED
    BY <2>2, <2>3 DEF y
<1> QED
  BY <1>1, <1>2, <1>4 DEF SegmentIn, L, size, sects

\* The table has a __BUN segment with a __bun section.
LEMMA MachOHasCommands ==
    ASSUME NEW b \in Seq(Int), MachOParses(b)
    PROVE  CommandsIn(b) /\ HasBun(MachOParse(b)) /\ Cell(b, 1) \in Int
<1>1. MachOAccepted(b) /\ HasBun(MachOParse(b))
  BY DEF MachOParses
<1>2. PICK g \in MachOParse(b).segments : TRUE
  BY <1>1 DEF HasBun
<1>3. PICK n \in 0 .. Cell(b, 2) - 1 : TRUE
  BY <1>2 DEF MachOParse
<1>4. Len(b) \in Nat /\ 4 <= Len(b)
  BY <1>1, LenProperties DEF MachOAccepted, Readable, MACH_HEADER_SIZE
<1>5. Cell(b, 1) \in Int /\ Cell(b, 2) \in Int
  <2>1. 1 \in 0 .. Len(b) - 1 /\ 2 \in 0 .. Len(b) - 1
    BY <1>4
  <2> QED
    BY <2>1, CellInt
<1>6. Cell(b, 2) \in Nat
  BY <1>3, <1>5
<1> QED
  BY <1>1, <1>5, <1>6, CommandsAre

\* Where the segments of the table are.
SegmentCommands(b) ==
    {n \in 0 .. Cell(b, 2) - 1 : Cell(b, CommandOffsets(b)[n]) = LC_SEGMENT_64}

LEMMA SegmentsAre ==
    ASSUME NEW b \in Seq(Int), MachOParses(b)
    PROVE  /\ \A n \in SegmentCommands(b) :
                 /\ SegmentIn(b, CommandOffsets(b)[n])
                 /\ SegmentAt(b, CommandOffsets(b)[n]) \in MachOParse(b).segments
           /\ \A g \in MachOParse(b).segments : \E n \in SegmentCommands(b) :
                 /\ g = SegmentAt(b, CommandOffsets(b)[n])
                 /\ g.header = CommandOffsets(b)[n]
<1> DEFINE at == CommandOffsets(b)
<1>1. MachOParse(b).segments = {SegmentAt(b, at[n]) : n \in SegmentCommands(b)}
  BY DEF MachOParse, SegmentCommands
<1>2. ASSUME NEW n \in SegmentCommands(b) PROVE SegmentIn(b, at[n])
  <2>1. n \in 0 .. Cell(b, 2) - 1 /\ Cell(b, at[n]) = LC_SEGMENT_64
    BY DEF SegmentCommands
  <2>2. CommandAccepted(b, at[n]) /\ at[n] \in Nat
    <3>1. CommandsIn(b)
      BY MachOHasCommands
    <3>2. n \in 0 .. Cell(b, 2)
      BY <2>1, <3>1 DEF CommandsIn
    <3> QED
      BY <2>1, <3>1, <3>2 DEF CommandsIn
  <2> QED
    BY <2>1, <2>2, SegmentReads
<1>3. \A n : SegmentAt(b, at[n]).header = at[n]
  BY DEF SegmentAt
<1> HIDE DEF at
<1> QED
  BY <1>1, <1>2, <1>3 DEF at

-----------------------------------------------------------------------------
(* Whole pages.                                                            *)

LEMMA ProductGrows ==
    ASSUME NEW m \in Int, 0 < m, NEW d \in Int
    PROVE  /\ d >= 1 => m * d >= m
           /\ d <= -1 => m * d <= -m
  OBVIOUS

LEMMA DivisionIs ==
    ASSUME NEW m \in Int, 0 < m, NEW a \in Int
    PROVE  /\ a \div m \in Int /\ a % m \in Int
           /\ a = m * (a \div m) + (a % m) /\ 0 <= a % m /\ a % m < m
  OBVIOUS

LEMMA MultipleOf ==
    ASSUME NEW m \in Int, 0 < m, NEW z \in Int
    PROVE  (m * z) % m = 0
<1> DEFINE a == m * z
           q == a \div m
           r == a % m
           d == z - q
<1>1. a \in Int
  OBVIOUS
<1> HIDE DEF a
<1>2. q \in Int /\ r \in Int /\ a = m * q + r /\ 0 <= r /\ r < m
  BY <1>1, DivisionIs
<1> HIDE DEF q, r
<1>3. m * d = r /\ d \in Int
  BY <1>2 DEF a
<1> HIDE DEF d
<1>4. ~(d >= 1) /\ ~(d <= -1)
  BY <1>2, <1>3, ProductGrows
<1>5. d = 0
  BY <1>3, <1>4
<1>6. m * 0 = 0
  OBVIOUS
<1> QED
  BY <1>3, <1>5, <1>6 DEF r, a

\* round_up gives whole pages, and enough of them.
LEMMA RoundUpIs ==
    ASSUME NEW a \in Int, NEW m \in Int, 0 < m
    PROVE  /\ RoundUp(a, m) \in Int /\ a <= RoundUp(a, m)
           /\ RoundUp(a, m) % m = 0
<1> DEFINE v == a + m - 1
           q == v \div m
           r == v % m
<1>1. v \in Int /\ RoundUp(a, m) = q * m
  BY DEF RoundUp
<1> HIDE DEF v
<1>2. q \in Int /\ r \in Int /\ v = m * q + r /\ r < m
  BY <1>1, DivisionIs
<1> HIDE DEF q, r
<1>3. q * m = m * q /\ m * q \in Int
  BY <1>2
<1>4. a <= m * q
  <2> DEFINE z == m * q
  <2>1. z \in Int /\ v = z + r
    BY <1>2, <1>3
  <2> HIDE DEF z
  <2>2. a <= z
    BY <1>2, <2>1 DEF v
  <2> QED
    BY <2>2 DEF z
<1>5. (m * q) % m = 0
  BY <1>2, MultipleOf
<1> QED
  BY <1>1, <1>3, <1>4, <1>5

\* What is on a page boundary stays on one when it moves by whole pages.
LEMMA PagesAdd ==
    ASSUME NEW m \in Int, 0 < m, NEW a \in Int, NEW g \in Int, a % m = 0, g % m = 0
    PROVE  (a + g) % m = 0
<1> DEFINE qa == a \div m
           qg == g \div m
<1>1. qa \in Int /\ qg \in Int /\ a = m * qa /\ g = m * qg
  <2>1. a = m * qa + (a % m) /\ g = m * qg + (g % m) /\ qa \in Int /\ qg \in Int
    BY DivisionIs
  <2> DEFINE za == m * qa
             zg == m * qg
  <2>2. za \in Int /\ zg \in Int
    BY <2>1
  <2> HIDE DEF za, zg, qa, qg
  <2>3. a = za + (a % m) /\ g = zg + (g % m)
    BY <2>1 DEF za, zg
  <2>4. a = za /\ g = zg
    BY <2>2, <2>3
  <2> QED
    BY <2>1, <2>4 DEF za, zg
<1> HIDE DEF qa, qg
<1>2. a + g = m * (qa + qg)
  BY <1>1
<1>3. (m * (qa + qg)) % m = 0
  <2> DEFINE z == qa + qg
  <2>1. z \in Int
    BY <1>1
  <2> HIDE DEF z
  <2>2. (m * z) % m = 0
    BY <2>1, MultipleOf
  <2> QED
    BY <2>2 DEF z
<1> QED
  BY <1>2, <1>3

-----------------------------------------------------------------------------
(* The theorems.                                                           *)

LEMMA OrderAlways == Spec => []OrderInv
BY OrderInit, OrderStep, PTL DEF Spec

\* An accepted plan has no two overlapping edits (validate, edits.py:69-82),
\* for every image and every plan: comparing neighbours is enough.
THEOREM AcceptedPlansAreDisjoint == Spec => []AcceptedDisjoint
<1>1. OrderInv => AcceptedDisjoint
  BY NoOverlap DEF Accepted, AcceptedDisjoint
<1> QED
  BY <1>1, OrderAlways, PTL

\* A plan whose edits match the input image never fails in the middle of its
\* splices (_verify_and_splice, context.py:196-202), for every image and plan.
THEOREM MatchingPlansSplice == Spec => []SplicesMatch
<1>1. SpliceInv => SplicesMatch
  BY DEF SpliceInv, SplicesMatch
<1>2. Init => SpliceInv
  BY SpliceInit
<1>3. OrderInv /\ SpliceInv /\ [Next]_vars => SpliceInv'
  BY SpliceStep
<1> QED
  BY <1>1, <1>2, <1>3, OrderAlways, PTL DEF Spec

\* _shift_past tells where every byte the plan leaves alone is found once the
\* loops have spliced the edits in, and every replacement stands at its own
\* edit's place, moved by the growables in front of it (context.py:175-184,
\* 225-233), for every image and every plan.
THEOREM EditsSplicedInPlace == Spec => []SplicedInPlace
<1>1. OrderInv /\ PlaceInv => SplicedInPlace
  BY PlacedSplicedInPlace
<1>2. Init => PlaceInv
  BY PlaceInit
<1>3. OrderInv /\ PlaceInv /\ [Next]_vars => PlaceInv'
  BY PlaceStep
<1> QED
  BY <1>1, <1>2, <1>3, OrderAlways, PTL DEF Spec
=============================================================================
