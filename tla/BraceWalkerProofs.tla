-------------------------- MODULE BraceWalkerProofs --------------------------
(***************************************************************************)
(* For every text, start and limit: the brace walker returns the brace the *)
(* grammar of balanced text gives.                                         *)
(***************************************************************************)
EXTENDS BalancedText, Induction

L == Len(text)

-----------------------------------------------------------------------------
(* The grammar's two recursive functions exist.                            *)

\* Where a string's inside that ends at b may begin, by those that end before.
BodyTo(f, q, b) ==
    {a \in 0 .. b :
        \/ a = b
        \/ a + 2 <= b /\ At(b - 2) = BACKSLASH /\ a \in f[b - 2]
        \/ a < b /\ At(b - 1) \notin {BACKSLASH, q} /\ a \in f[b - 1]}

LEMMA BodyExists ==
    ASSUME NEW q, L \in Nat
    PROVE  \E f : f = [b \in Positions |-> BodyTo(f, q, b)]
<1> DEFINE Upto(n) == \E f : f = [b \in 0 .. n |-> BodyTo(f, q, b)]
           G == {n \in 0 .. L : Upto(n)}
<1>1. 0 \in G
  <2> DEFINE f == [b \in 0 .. 0 |-> {0}]
  <2>1. ASSUME NEW b \in 0 .. 0 PROVE f[b] = BodyTo(f, q, b)
    BY DEF BodyTo
  <2>2. f = [b \in 0 .. 0 |-> BodyTo(f, q, b)]
    BY <2>1
  <2> QED
    BY <2>2
<1>2. ASSUME NEW n \in 0 .. L - 1, n \in G PROVE n + 1 \in G
  <2>1. PICK f : f = [b \in 0 .. n |-> BodyTo(f, q, b)]
    BY <1>2
  <2> DEFINE g == [b \in 0 .. n + 1 |-> IF b = n + 1 THEN BodyTo(f, q, b) ELSE f[b]]
  <2>2. \A b \in 0 .. n : g[b] = f[b]
    OBVIOUS
  <2>3. ASSUME NEW b \in 0 .. n + 1 PROVE BodyTo(g, q, b) = BodyTo(f, q, b)
    <3>1. ASSUME NEW a \in 0 .. b, a + 2 <= b PROVE g[b - 2] = f[b - 2]
      BY <2>2, <3>1
    <3>2. ASSUME NEW a \in 0 .. b, a < b PROVE g[b - 1] = f[b - 1]
      BY <2>2, <3>2
    <3> HIDE DEF g
    <3> QED
      BY <3>1, <3>2 DEF BodyTo
  <2>4. ASSUME NEW b \in 0 .. n + 1 PROVE g[b] = BodyTo(g, q, b)
    <3>1. CASE b = n + 1
      BY <2>3, <3>1
    <3>2. CASE b # n + 1
      <4>1. b \in 0 .. n
        BY <3>2
      <4>2. f[b] = BodyTo(f, q, b)
        BY <2>1, <4>1
      <4> QED
        BY <2>2, <2>3, <4>1, <4>2
    <3> QED
      BY <3>1, <3>2
  <2>5. g = [b \in 0 .. n + 1 |-> g[b]]
    OBVIOUS
  <2> HIDE DEF g
  <2>6. g = [b \in 0 .. n + 1 |-> BodyTo(g, q, b)]
    BY <2>4, <2>5
  <2>7. n + 1 \in 0 .. L
    OBVIOUS
  <2> QED
    BY <2>6, <2>7
<1>3. L \in G
  <2> HIDE DEF G
  <2>1. 0 .. L \subseteq G
    BY <1>1, <1>2, UpToInduction
  <2> QED
    BY <2>1
<1> QED
  BY <1>3 DEF Positions, L

LEMMA BodyIs ==
    ASSUME NEW q, L \in Nat
    PROVE  StringBody(q) = [b \in Positions |-> BodyTo(StringBody(q), q, b)]
<1> DEFINE IsBody(f) == f = [b \in Positions |-> BodyTo(f, q, b)]
<1>1. StringBody(q) = CHOOSE f : IsBody(f)
  BY DEF StringBody, BodyTo
<1>2. \E f : IsBody(f)
  BY BodyExists
<1> HIDE DEF IsBody
<1>3. IsBody(StringBody(q))
  BY <1>1, <1>2
<1> QED
  BY <1>3 DEF IsBody

Bodies == [q \in Quotes |-> StringBody(q)]

\* Where a balanced text that ends at b may begin, by those that end before.
ItemsTo(f, b) ==
    {a \in 0 .. b :
        \/ a = b
        \/ \E m \in a .. b - 1 :
              /\ a \in f[m]
              /\ \/ m + 1 = b /\ At(m) \notin Quotes \cup {OPENING, CLOSING}
                 \/ StringIn(Bodies, m, b)
                 \/ /\ m + 2 <= b /\ At(m) = OPENING /\ At(b - 1) = CLOSING
                    /\ m + 1 \in f[b - 1]}

LEMMA BalancedExists ==
    ASSUME L \in Nat
    PROVE  \E f : f = [b \in Positions |-> ItemsTo(f, b)]
<1> DEFINE Upto(n) == \E f : f = [b \in 0 .. n |-> ItemsTo(f, b)]
           G == {n \in 0 .. L : Upto(n)}
<1>1. 0 \in G
  <2> DEFINE f == [b \in 0 .. 0 |-> {0}]
  <2>1. ASSUME NEW b \in 0 .. 0 PROVE f[b] = ItemsTo(f, b)
    BY DEF ItemsTo
  <2>2. f = [b \in 0 .. 0 |-> ItemsTo(f, b)]
    BY <2>1
  <2> QED
    BY <2>2
<1>2. ASSUME NEW n \in 0 .. L - 1, n \in G PROVE n + 1 \in G
  <2>1. PICK f : f = [b \in 0 .. n |-> ItemsTo(f, b)]
    BY <1>2
  <2> DEFINE g == [b \in 0 .. n + 1 |-> IF b = n + 1 THEN ItemsTo(f, b) ELSE f[b]]
  <2>2. \A b \in 0 .. n : g[b] = f[b]
    OBVIOUS
  <2>3. ASSUME NEW b \in 0 .. n + 1 PROVE ItemsTo(g, b) = ItemsTo(f, b)
    <3>1. \A a \in 0 .. b : \A m \in a .. b - 1 : g[m] = f[m] /\ g[b - 1] = f[b - 1]
      BY <2>2
    <3> HIDE DEF g
    <3> QED
      BY <3>1 DEF ItemsTo
  <2>4. ASSUME NEW b \in 0 .. n + 1 PROVE g[b] = ItemsTo(g, b)
    <3>1. CASE b = n + 1
      BY <2>3, <3>1
    <3>2. CASE b # n + 1
      <4>1. b \in 0 .. n
        BY <3>2
      <4>2. f[b] = ItemsTo(f, b)
        BY <2>1, <4>1
      <4> QED
        BY <2>2, <2>3, <4>1, <4>2
    <3> QED
      BY <3>1, <3>2
  <2>5. g = [b \in 0 .. n + 1 |-> g[b]]
    OBVIOUS
  <2> HIDE DEF g
  <2>6. g = [b \in 0 .. n + 1 |-> ItemsTo(g, b)]
    BY <2>4, <2>5
  <2>7. n + 1 \in 0 .. L
    OBVIOUS
  <2> QED
    BY <2>6, <2>7
<1>3. L \in G
  <2> HIDE DEF G
  <2>1. 0 .. L \subseteq G
    BY <1>1, <1>2, UpToInduction
  <2> QED
    BY <2>1
<1> QED
  BY <1>3 DEF Positions, L

LEMMA BalancedIs ==
    ASSUME L \in Nat
    PROVE  Balanced = [b \in Positions |-> ItemsTo(Balanced, b)]
<1> DEFINE IsBalanced(f) == f = [b \in Positions |-> ItemsTo(f, b)]
<1>1. Balanced = CHOOSE f : IsBalanced(f)
  BY DEF Balanced, ItemsTo, Bodies
<1>2. \E f : IsBalanced(f)
  BY BalancedExists
<1> HIDE DEF IsBalanced
<1>3. IsBalanced(Balanced)
  BY <1>1, <1>2
<1> QED
  BY <1>3 DEF IsBalanced

-----------------------------------------------------------------------------
(* A run of the walk over the whole text, with depth, string and escape at *)
(* every position; an escape is 1.                                         *)

\* What reading the character c makes of depth d, string m and escape e.
Reads(c, d, m, e, d1, m1, e1) ==
    \/ e = 1 /\ d1 = d /\ m1 = m /\ e1 = 0
    \/ /\ e = 0 /\ m # NoQuote /\ d1 = d
       /\ \/ c = BACKSLASH /\ m1 = m /\ e1 = 1
          \/ c = m /\ m1 = NoQuote /\ e1 = 0
          \/ c \notin {BACKSLASH, m} /\ m1 = m /\ e1 = 0
    \/ /\ e = 0 /\ m = NoQuote /\ e1 = 0
       /\ \/ c \in Quotes /\ m1 = c /\ d1 = d
          \/ c = OPENING /\ m1 = m /\ d1 = d + 1
          \/ c = CLOSING /\ m1 = m /\ d1 = d - 1
          \/ c \notin Quotes \cup {OPENING, CLOSING} /\ m1 = m /\ d1 = d

Modes == Quotes \cup {NoQuote}

RunTo(tx, s, n, dp, md, es) ==
    /\ dp \in [s .. n -> Int] /\ md \in [s .. n -> Modes] /\ es \in [s .. n -> {0, 1}]
    /\ dp[s] = 1 /\ md[s] = NoQuote /\ es[s] = 0
    /\ \A p \in s .. n : es[p] = 1 => md[p] # NoQuote
    /\ \A p \in s .. n - 1 :
          Reads(tx[p + 1], dp[p], md[p], es[p], dp[p + 1], md[p + 1], es[p + 1])

Run(dp, md, es) == RunTo(text, start, L, dp, md, es)

\* The walk can read c there.
CanRead(c, d, m, e) ==
    \E d1 \in Int, m1 \in Modes, e1 \in {0, 1} :
        Reads(c, d, m, e, d1, m1, e1) /\ (e1 = 1 => m1 # NoQuote)

LEMMA ReadsOn ==
    ASSUME NEW c \in Int, NEW d \in Int, NEW m \in Modes, NEW e \in {0, 1},
           e = 1 => m # NoQuote
    PROVE  CanRead(c, d, m, e)
<1> USE DEF CanRead, Modes, Quotes, NoQuote, QUOTE, APOSTROPHE, BACKTICK, BACKSLASH
<1>1. CASE e = 1
  BY <1>1 DEF Reads
<1>2. CASE e = 0 /\ m # NoQuote
  <2>1. CASE c = BACKSLASH
    BY <1>2, <2>1 DEF Reads
  <2>2. CASE c = m
    BY <1>2, <2>2 DEF Reads
  <2>3. CASE c \notin {BACKSLASH, m}
    BY <1>2, <2>3 DEF Reads
  <2> QED
    BY <2>1, <2>2, <2>3
<1>3. CASE e = 0 /\ m = NoQuote
  <2>1. CASE c \in Quotes
    BY <1>3, <2>1 DEF Reads
  <2>2. CASE c = OPENING
    BY <1>3, <2>2 DEF Reads
  <2>3. CASE c = CLOSING
    BY <1>3, <2>3 DEF Reads
  <2>4. CASE c \notin Quotes \cup {OPENING, CLOSING}
    BY <1>3, <2>4 DEF Reads
  <2> QED
    BY <2>1, <2>2, <2>3, <2>4
<1> QED
  BY <1>1, <1>2, <1>3

LEMMA RunExists ==
    ASSUME text \in Seq(Nat), start \in 0 .. L
    PROVE  \E dp, md, es : Run(dp, md, es)
<1>0. L \in Nat /\ start \in Nat
  BY LenProperties DEF L
<1> DEFINE Upto(n) == \E dp, md, es : RunTo(text, start, n, dp, md, es)
           G == {n \in start .. L : Upto(n)}
<1>1. start \in G
  <2> DEFINE dp == [p \in start .. start |-> 1]
             md == [p \in start .. start |-> NoQuote]
             es == [p \in start .. start |-> 0]
  <2>1. RunTo(text, start, start, dp, md, es)
    BY <1>0 DEF RunTo, Modes
  <2> QED
    BY <1>0, <2>1
<1>2. ASSUME NEW n \in start .. L - 1, n \in G PROVE n + 1 \in G
  <2>1. PICK dp, md, es : RunTo(text, start, n, dp, md, es)
    BY <1>2
  <2>2. text[n + 1] \in Int
    <3>1. n + 1 \in 1 .. Len(text)
      BY <1>0 DEF L
    <3>2. text[n + 1] \in Nat
      BY <3>1, ElementOfSeq
    <3> QED
      BY <3>2
  <2>3. dp[n] \in Int /\ md[n] \in Modes /\ es[n] \in {0, 1} /\ (es[n] = 1 => md[n] # NoQuote)
    BY <1>0, <2>1 DEF RunTo
  <2>4. PICK d1 \in Int, m1 \in Modes, e1 \in {0, 1} :
            Reads(text[n + 1], dp[n], md[n], es[n], d1, m1, e1) /\ (e1 = 1 => m1 # NoQuote)
    <3> DEFINE c == text[n + 1]
               d == dp[n]
               m == md[n]
               e == es[n]
    <3>1. c \in Int /\ d \in Int /\ m \in Modes /\ e \in {0, 1} /\ (e = 1 => m # NoQuote)
      BY <2>2, <2>3
    <3> HIDE DEF c, d, m, e
    <3>2. CanRead(c, d, m, e)
      BY <3>1, ReadsOn
    <3> QED
      BY <3>2 DEF CanRead, c, d, m, e
  <2> DEFINE dn == [p \in start .. n + 1 |-> IF p = n + 1 THEN d1 ELSE dp[p]]
             mn == [p \in start .. n + 1 |-> IF p = n + 1 THEN m1 ELSE md[p]]
             en == [p \in start .. n + 1 |-> IF p = n + 1 THEN e1 ELSE es[p]]
  <2>5. /\ dn \in [start .. n + 1 -> Int] /\ mn \in [start .. n + 1 -> Modes]
        /\ en \in [start .. n + 1 -> {0, 1}]
    BY <1>0, <2>1 DEF RunTo
  <2>6. \A p \in start .. n : dn[p] = dp[p] /\ mn[p] = md[p] /\ en[p] = es[p]
    BY <1>0
  <2>7. dn[n + 1] = d1 /\ mn[n + 1] = m1 /\ en[n + 1] = e1
    BY <1>0
  <2> HIDE DEF dn, mn, en
  <2>8. ASSUME NEW p \in start .. n
        PROVE  Reads(text[p + 1], dn[p], mn[p], en[p], dn[p + 1], mn[p + 1], en[p + 1])
    <3>1. CASE p = n
      BY <2>4, <2>6, <2>7, <3>1
    <3>2. CASE p # n
      <4>1. p \in start .. n - 1 /\ p + 1 \in start .. n
        BY <1>0, <3>2
      <4> QED
        BY <2>1, <2>6, <4>1 DEF RunTo
    <3> QED
      BY <3>1, <3>2
  <2>9. ASSUME NEW p \in start .. n + 1 PROVE en[p] = 1 => mn[p] # NoQuote
    <3>1. CASE p = n + 1
      BY <2>4, <2>7, <3>1
    <3>2. CASE p # n + 1
      <4>1. p \in start .. n
        BY <1>0, <3>2
      <4> QED
        BY <2>1, <2>6, <4>1 DEF RunTo
    <3> QED
      BY <3>1, <3>2
  <2>10. dn[start] = 1 /\ mn[start] = NoQuote /\ en[start] = 0
    <3>1. start \in start .. n
      BY <1>0
    <3> QED
      BY <2>1, <2>6, <3>1 DEF RunTo
  <2>11. RunTo(text, start, n + 1, dn, mn, en)
    <3>1. (n + 1) - 1 = n
      BY <1>0
    <3> QED
      BY <2>5, <2>8, <2>9, <2>10, <3>1 DEF RunTo
  <2>12. n + 1 \in start .. L
    BY <1>0
  <2> QED
    BY <2>11, <2>12
<1>3. L \in G
  <2> HIDE DEF G
  <2>1. start \in Int /\ L \in Int /\ L \in start .. L
    BY <1>0
  <2>2. start .. L \subseteq G
    BY <1>1, <1>2, <2>1, UpToInduction
  <2> QED
    BY <2>1, <2>2
<1> QED
  BY <1>3 DEF Run

LEMMA RunFacts ==
    ASSUME L \in Nat, start \in 0 .. L, NEW dp, NEW md, NEW es, Run(dp, md, es)
    PROVE  /\ dp[start] = 1 /\ md[start] = NoQuote /\ es[start] = 0
           /\ \A p \in start .. L : /\ dp[p] \in Int /\ md[p] \in Modes /\ es[p] \in {0, 1}
                                    /\ md[p] = NoQuote => es[p] = 0
           /\ \A p \in start .. L - 1 :
                 Reads(At(p), dp[p], md[p], es[p], dp[p + 1], md[p + 1], es[p + 1])
BY DEF Run, RunTo, At

-----------------------------------------------------------------------------
(* The run through a string.                                               *)

LEMMA BodyFrom ==
    ASSUME L \in Nat, NEW q, NEW a \in 0 .. L, NEW b \in a .. L
    PROVE  a \in StringBody(q)[b] <=>
              \/ a = b
              \/ a + 2 <= b /\ At(b - 2) = BACKSLASH /\ a \in StringBody(q)[b - 2]
              \/ a < b /\ At(b - 1) \notin {BACKSLASH, q} /\ a \in StringBody(q)[b - 1]
<1> DEFINE f == StringBody(q)
<1>1. b \in Positions /\ a \in 0 .. b
  BY DEF Positions, L
<1>2. f = [c \in Positions |-> BodyTo(f, q, c)]
  BY BodyIs
<1> HIDE DEF f
<1>3. f[b] = BodyTo(f, q, b)
  BY <1>1, <1>2
<1>4. a \in f[b] <=> \/ a = b
                     \/ a + 2 <= b /\ At(b - 2) = BACKSLASH /\ a \in f[b - 2]
                     \/ a < b /\ At(b - 1) \notin {BACKSLASH, q} /\ a \in f[b - 1]
  BY <1>1, <1>3 DEF BodyTo
<1> QED
  BY <1>4 DEF f

\* Inside a string the walk stays in it and keeps its depth.
LEMMA BodyRead ==
    ASSUME L \in Nat, start \in 0 .. L, NEW dp, NEW md, NEW es, Run(dp, md, es),
           NEW q \in Quotes, NEW a \in start .. L, md[a] = q, es[a] = 0,
           NEW c \in a .. L, a \in StringBody(q)[c]
    PROVE  md[c] = q /\ es[c] = 0 /\ \A p \in a .. c : dp[p] = dp[a]
<1> DEFINE In(b) == md[b] = q /\ es[b] = 0 /\ \A p \in a .. b : dp[p] = dp[a]
           G == {b \in a .. L : \A k \in a .. b : a \in StringBody(q)[k] => In(k)}
<1>0. start \in Nat /\ a \in Int /\ q # NoQuote /\ q # BACKSLASH
  BY DEF Quotes, QUOTE, APOSTROPHE, BACKTICK, NoQuote, BACKSLASH
<1>1. a \in G
  OBVIOUS
<1>2. ASSUME NEW n \in a .. L - 1, n \in G PROVE n + 1 \in G
  <2> DEFINE b == n + 1
  <2>1. b \in a .. L /\ b # a /\ b - 1 = n
    BY <1>0
  <2>2. ASSUME a \in StringBody(q)[b] PROVE In(b)
    <3>1. CASE a + 2 <= b /\ At(b - 2) = BACKSLASH /\ a \in StringBody(q)[b - 2]
      <4> DEFINE x == b - 2
      <4>1. x \in a .. n /\ x \in start .. L - 1 /\ x + 1 = n /\ n \in start .. L - 1
        BY <1>0, <2>1, <3>1
      <4>2. In(x)
        BY <1>2, <3>1, <4>1
      <4>3. Reads(At(x), dp[x], md[x], es[x], dp[n], md[n], es[n])
        BY <4>1, RunFacts
      <4>4. Reads(At(n), dp[n], md[n], es[n], dp[b], md[b], es[b])
        BY <4>1, RunFacts
      <4>5. md[x] = q /\ es[x] = 0 /\ dp[x] = dp[a] /\ At(x) = BACKSLASH
        BY <3>1, <4>1, <4>2
      <4> HIDE DEF b, x
      <4>6. md[n] = q /\ es[n] = 1 /\ dp[n] = dp[a]
        BY <1>0, <4>3, <4>5 DEF Reads
      <4>7. md[b] = q /\ es[b] = 0 /\ dp[b] = dp[a]
        BY <4>4, <4>6 DEF Reads
      <4>8. \A p \in a .. b : p \in a .. x \/ p = n \/ p = b
        BY <1>0, <4>1 DEF b, x
      <4> QED
        BY <4>2, <4>6, <4>7, <4>8
    <3>2. CASE At(b - 1) \notin {BACKSLASH, q} /\ a \in StringBody(q)[b - 1]
      <4>1. n \in a .. n /\ n \in start .. L - 1
        BY <1>0
      <4>2. In(n)
        BY <1>2, <2>1, <3>2, <4>1
      <4>3. Reads(At(n), dp[n], md[n], es[n], dp[b], md[b], es[b])
        BY <4>1, RunFacts
      <4>4. At(n) \notin {BACKSLASH, q}
        BY <2>1, <3>2
      <4> HIDE DEF b
      <4>5. md[n] = q /\ es[n] = 0 /\ dp[n] = dp[a]
        BY <4>1, <4>2
      <4>6. md[b] = q /\ es[b] = 0 /\ dp[b] = dp[a]
        BY <1>0, <4>3, <4>4, <4>5 DEF Reads
      <4>7. \A p \in a .. b : p \in a .. n \/ p = b
        BY <1>0 DEF b
      <4> QED
        BY <4>2, <4>6, <4>7
    <3> QED
      BY <2>1, <2>2, <3>1, <3>2, BodyFrom
  <2>3. \A k \in a .. b : k \in a .. n \/ k = b
    BY <1>0
  <2> QED
    BY <1>2, <2>1, <2>2, <2>3
<1>3. c \in G
  <2> HIDE DEF G
  <2>1. a .. L \subseteq G
    BY <1>0, <1>1, <1>2, UpToInduction
  <2> QED
    BY <2>1
<1>4. c \in a .. c
  BY <1>0
<1> QED
  BY <1>3, <1>4

\* What the walk takes for the inside of a string is one.
LEMMA ReadBody ==
    ASSUME L \in Nat, start \in 0 .. L, NEW dp, NEW md, NEW es, Run(dp, md, es),
           NEW q \in Quotes, NEW a \in start .. L, es[a] = 0,
           NEW c \in a .. L, es[c] = 0, \A p \in a .. c : md[p] = q
    PROVE  a \in StringBody(q)[c]
<1> DEFINE G == {b \in a .. c : \A k \in a .. b : es[k] = 0 => a \in StringBody(q)[k]}
<1>0. start \in Nat /\ a \in Int /\ c \in Int /\ q # NoQuote /\ q # BACKSLASH
  BY DEF Quotes, QUOTE, APOSTROPHE, BACKTICK, NoQuote, BACKSLASH
<1>1. a \in G
  <2>1. a \in StringBody(q)[a]
    BY <1>0, BodyFrom
  <2> QED
    BY <1>0, <2>1
<1>2. ASSUME NEW n \in a .. c - 1, n \in G PROVE n + 1 \in G
  <2> DEFINE b == n + 1
  <2>1. b \in a .. c /\ b # a /\ b - 1 = n /\ n \in start .. L - 1 /\ n \in a .. n
        /\ b \in a .. L /\ a \in 0 .. L /\ n \in a .. c
    BY <1>0
  <2>2. ASSUME es[b] = 0 PROVE a \in StringBody(q)[b]
    <3>1. Reads(At(n), dp[n], md[n], es[n], dp[b], md[b], es[b])
      BY <2>1, RunFacts
    <3>2. md[n] = q /\ md[b] = q
      BY <2>1
    <3>3. es[n] \in {0, 1}
      <4>1. n \in start .. L
        BY <2>1, <1>0
      <4> QED
        BY <4>1, RunFacts
    <3>4. CASE es[n] = 0
      <4> HIDE DEF b
      <4>1. At(n) \notin {BACKSLASH, q}
        BY <1>0, <2>2, <3>1, <3>2, <3>4 DEF Reads
      <4>2. a \in StringBody(q)[n]
        BY <1>2, <2>1, <3>4
      <4> QED
        BY <2>1, <4>1, <4>2, BodyFrom, <1>0
    <3>5. CASE es[n] = 1
      <4> DEFINE x == n - 1
      <4>1. n # a
        BY <3>5
      <4>2. x \in a .. n /\ x \in start .. L - 1 /\ x + 1 = n /\ x = b - 2 /\ a + 2 <= b
            /\ x \in a .. c
        BY <1>0, <4>1
      <4>3. Reads(At(x), dp[x], md[x], es[x], dp[n], md[n], es[n])
        BY <4>2, RunFacts
      <4>4. md[x] = q /\ es[x] \in {0, 1}
        <5>1. x \in start .. L
          BY <4>2, <1>0
        <5> QED
          BY <4>2, <5>1, RunFacts
      <4> HIDE DEF b, x
      <4>5. es[x] = 0 /\ At(x) = BACKSLASH
        BY <1>0, <3>2, <3>5, <4>3, <4>4 DEF Reads
      <4>6. a \in StringBody(q)[x]
        BY <1>2, <4>2, <4>5
      <4> QED
        BY <2>1, <4>2, <4>5, <4>6, BodyFrom
    <3> QED
      BY <3>3, <3>4, <3>5
  <2>3. \A k \in a .. b : k \in a .. n \/ k = b
    BY <1>0
  <2> QED
    BY <1>2, <2>1, <2>2, <2>3
<1>3. c \in G
  <2> HIDE DEF G
  <2>1. a .. c \subseteq G
    BY <1>0, <1>1, <1>2, UpToInduction
  <2> QED
    BY <1>0, <2>1
<1>4. c \in a .. c
  BY <1>0
<1> QED
  BY <1>3, <1>4

-----------------------------------------------------------------------------
(* The run through a balanced text.                                        *)

\* The two ways a text has one item more than its first part, in front of m.
EndsInItem(m, b) ==
    \/ m + 1 = b /\ At(m) \notin Quotes \cup {OPENING, CLOSING}
    \/ StringIn(Bodies, m, b)
    \/ /\ m + 2 <= b /\ At(m) = OPENING /\ At(b - 1) = CLOSING
       /\ m + 1 \in Balanced[b - 1]

LEMMA ItemsFrom ==
    ASSUME L \in Nat, NEW a \in 0 .. L, NEW b \in a .. L
    PROVE  a \in Balanced[b] <=>
              a = b \/ \E m \in a .. b - 1 : a \in Balanced[m] /\ EndsInItem(m, b)
<1> DEFINE f == Balanced
<1>1. b \in Positions /\ a \in 0 .. b
  BY DEF Positions, L
<1>2. f = [c \in Positions |-> ItemsTo(f, c)]
  BY BalancedIs
<1> HIDE DEF f
<1>3. f[b] = ItemsTo(f, b)
  BY <1>1, <1>2
<1>4. a \in f[b] <=> a \in ItemsTo(f, b)
  BY <1>3
<1> QED
  BY <1>1, <1>4 DEF f, ItemsTo, EndsInItem

\* The walk comes out of a balanced text as it went in, and was never less
\* deep in between.
LEMMA BalancedRead ==
    ASSUME L \in Nat, start \in 0 .. L, NEW dp, NEW md, NEW es, Run(dp, md, es),
           NEW a \in start .. L, md[a] = NoQuote,
           NEW c \in a .. L, a \in Balanced[c]
    PROVE  md[c] = NoQuote /\ dp[c] = dp[a] /\ \A p \in a .. c : dp[p] >= dp[a]
<1> DEFINE Out(k, b) ==
               md[b] = NoQuote /\ dp[b] = dp[k] /\ \A p \in k .. b : dp[p] >= dp[k]
           All(b) == \A k \in start .. b :
                         md[k] = NoQuote /\ k \in Balanced[b] => Out(k, b)
           G == {b \in start .. L : \A x \in start .. b : All(x)}
<1>0. start \in Nat /\ a \in Int
  OBVIOUS
<1>R. \A p \in start .. L : /\ dp[p] \in Int /\ md[p] \in Modes /\ es[p] \in {0, 1}
                            /\ md[p] = NoQuote => es[p] = 0
  BY RunFacts
<1>S. \A p \in start .. L - 1 :
          Reads(At(p), dp[p], md[p], es[p], dp[p + 1], md[p + 1], es[p + 1])
  BY RunFacts
<1>1. start \in G
  <2>1. dp[start] \in Int
    BY <1>0, <1>R
  <2>2. All(start)
    BY <1>0, <2>1
  <2> QED
    BY <1>0, <2>2
<1>2. ASSUME NEW n \in start .. L - 1, n \in G PROVE n + 1 \in G
  <2> DEFINE b == n + 1
  <2>1. b \in start .. L /\ b - 1 = n /\ b \in Nat /\ n \in start .. n
    BY <1>0
  <2>2. ASSUME NEW k \in start .. b, md[k] = NoQuote, k \in Balanced[b]
        PROVE  Out(k, b)
    <3>0. k \in 0 .. L /\ b \in k .. L /\ k \in start .. L
      BY <1>0, <2>1
    <3>1. CASE k = b
      <4>1. dp[k] \in Int
        BY <1>R, <3>0
      <4> HIDE DEF b
      <4> QED
        BY <2>2, <3>0, <3>1, <4>1
    <3>2. CASE k # b
      <4>1. PICK m \in k .. b - 1 : k \in Balanced[m] /\ EndsInItem(m, b)
        BY <2>2, <3>0, <3>2, ItemsFrom
      <4>2. m \in start .. n /\ k \in start .. m /\ m \in start .. L - 1 /\ m \in start .. L
            /\ m + 1 \in start .. L
        BY <1>0, <2>1, <3>0
      <4>3. Out(k, m)
        BY <1>2, <2>2, <4>1, <4>2
      <4>4. md[m] = NoQuote /\ es[m] = 0 /\ dp[m] = dp[k] /\ dp[m] \in Int
        BY <1>R, <4>2, <4>3
      <4>5. Reads(At(m), dp[m], md[m], es[m], dp[m + 1], md[m + 1], es[m + 1])
        BY <1>S, <4>2
      <4> SUFFICES md[b] = NoQuote /\ dp[b] = dp[m] /\ \A p \in m .. b : dp[p] >= dp[m]
        <5>1. \A p \in k .. b : p \in k .. m \/ p \in m .. b
          BY <4>2
        <5> QED
          BY <4>3, <4>4, <5>1
      <4>6. CASE m + 1 = b /\ At(m) \notin Quotes \cup {OPENING, CLOSING}
        <5>1. md[b] = NoQuote /\ dp[b] = dp[m]
          <6> HIDE DEF b
          <6> QED
            BY <4>4, <4>5, <4>6 DEF Reads
        <5>2. \A p \in m .. b : p = m \/ p = b
          BY <4>2, <4>6
        <5> QED
          BY <4>4, <5>1, <5>2
      <4>7. CASE StringIn(Bodies, m, b)
        <5> DEFINE q == At(m)
                   x == m + 1
        <5>1. m + 2 <= b /\ q \in Quotes /\ At(n) = q /\ x \in StringBody(q)[n]
          BY <2>1, <4>7 DEF StringIn, Bodies
        <5>2. x \in start .. L /\ n \in x .. L /\ n \in start .. L - 1
          BY <1>0, <2>1, <4>2, <5>1
        <5>3. md[x] = q /\ es[x] = 0 /\ dp[x] = dp[m]
          <6> HIDE DEF b
          <6> QED
            BY <4>4, <4>5, <5>1 DEF Reads, Quotes, QUOTE, APOSTROPHE, BACKTICK,
               OPENING, CLOSING, NoQuote
        <5> HIDE DEF x, q
        <5>4. md[n] = q /\ es[n] = 0 /\ \A p \in x .. n : dp[p] = dp[x]
          BY <5>1, <5>2, <5>3, BodyRead
        <5>5. n \in x .. n
          BY <5>2
        <5>6. Reads(At(n), dp[n], md[n], es[n], dp[b], md[b], es[b])
          BY <1>S, <5>2
        <5>7. md[b] = NoQuote /\ dp[b] = dp[n]
          <6> HIDE DEF b
          <6> QED
            BY <5>1, <5>4, <5>6 DEF Reads, Quotes, QUOTE, APOSTROPHE, BACKTICK,
               BACKSLASH, NoQuote
        <5>8. \A p \in m .. b : p = m \/ p \in x .. n \/ p = b
          BY <4>2, <5>2 DEF x
        <5> QED
          BY <4>4, <5>3, <5>4, <5>5, <5>7, <5>8
      <4>8. CASE /\ m + 2 <= b /\ At(m) = OPENING /\ At(b - 1) = CLOSING
                 /\ m + 1 \in Balanced[b - 1]
        <5> DEFINE x == m + 1
        <5>1. x \in Balanced[n] /\ At(n) = CLOSING /\ x \in start .. n /\ n \in start .. L - 1
          BY <1>0, <2>1, <4>2, <4>8
        <5>2. md[x] = NoQuote /\ dp[x] = dp[m] + 1
          BY <4>4, <4>5, <4>8 DEF Reads, Quotes, QUOTE, APOSTROPHE, BACKTICK,
               OPENING, CLOSING
        <5> HIDE DEF x
        <5>3. Out(x, n)
          BY <1>2, <2>1, <5>1, <5>2
        <5>4. md[n] = NoQuote /\ es[n] = 0 /\ dp[n] = dp[m] + 1
          <6>1. n \in start .. L
            BY <5>1
          <6> QED
            BY <1>R, <5>2, <5>3, <6>1
        <5>5. Reads(At(n), dp[n], md[n], es[n], dp[b], md[b], es[b])
          BY <1>S, <5>1
        <5>6. md[b] = NoQuote /\ dp[b] = dp[m]
          <6> HIDE DEF b
          <6>1. md[b] = NoQuote /\ dp[b] = dp[n] - 1
            BY <5>1, <5>4, <5>5 DEF Reads, Quotes, QUOTE, APOSTROPHE, BACKTICK,
               OPENING, CLOSING
          <6> QED
            BY <4>4, <5>4, <6>1
        <5>7. \A p \in m .. b : p = m \/ p \in x .. n \/ p = b
          BY <4>2, <5>1 DEF x
        <5>8. \A p \in x .. n : dp[p] >= dp[m]
          <6> TAKE p \in x .. n
          <6>1. p \in start .. L
            BY <1>0, <5>1
          <6>2. dp[p] \in Int /\ dp[p] >= dp[x]
            BY <1>R, <5>3, <6>1
          <6> QED
            BY <4>4, <5>2, <6>2
        <5> QED
          BY <4>4, <5>6, <5>7, <5>8
      <4> QED
        BY <4>1, <4>6, <4>7, <4>8 DEF EndsInItem
    <3> QED
      BY <3>1, <3>2
  <2>3. \A x \in start .. b : x \in start .. n \/ x = b
    BY <1>0
  <2>4. All(b)
    BY <2>2
  <2> HIDE DEF b, All
  <2>5. \A x \in start .. b : All(x)
    BY <1>2, <2>3, <2>4
  <2> QED
    BY <2>1, <2>5 DEF b
<1>3. c \in G
  <2> HIDE DEF G
  <2>1. start .. L \subseteq G
    BY <1>0, <1>1, <1>2, UpToInduction
  <2>2. c \in start .. L
    BY <1>0
  <2> QED
    BY <2>1, <2>2
<1>4. c \in start .. c /\ a \in start .. c
  BY <1>0
<1> QED
  BY <1>3, <1>4

\* Where a row of numbers leaves a set for the last time.
LEMMA LastIn ==
    ASSUME NEW a \in Int, NEW b \in Int, a <= b, NEW G, a \in G, b \notin G
    PROVE  \E m \in a .. b - 1 : m \in G /\ \A p \in m + 1 .. b : p \notin G
<1> DEFINE H == {n \in a .. b : \E k \in a .. n : k \in G /\ \A p \in k + 1 .. n : p \notin G}
<1>1. a \in H
  OBVIOUS
<1>2. ASSUME NEW n \in a .. b - 1, n \in H PROVE n + 1 \in H
  <2>1. CASE n + 1 \in G
    BY <2>1
  <2>2. CASE n + 1 \notin G
    <3>1. PICK k \in a .. n : k \in G /\ \A p \in k + 1 .. n : p \notin G
      BY <1>2
    <3>2. \A p \in k + 1 .. n + 1 : p \in k + 1 .. n \/ p = n + 1
      OBVIOUS
    <3>3. \A p \in k + 1 .. n + 1 : p \notin G
      BY <2>2, <3>1, <3>2
    <3>4. k \in a .. n + 1 /\ n + 1 \in a .. b
      OBVIOUS
    <3> QED
      BY <3>1, <3>3, <3>4
  <2> QED
    BY <2>1, <2>2
<1>3. b \in H
  <2> HIDE DEF H
  <2>1. a .. b \subseteq H
    BY <1>1, <1>2, UpToInduction
  <2> QED
    BY <2>1
<1>4. PICK m \in a .. b : m \in G /\ \A p \in m + 1 .. b : p \notin G
  BY <1>3
<1>5. m # b
  BY <1>4
<1> QED
  BY <1>4, <1>5

\* While the walk stays in a string, the quote and the depth are the same.
LEMMA StringKept ==
    ASSUME L \in Nat, start \in 0 .. L, NEW dp, NEW md, NEW es, Run(dp, md, es),
           NEW a \in start .. L, NEW c \in a .. L,
           \A p \in a .. c : md[p] # NoQuote
    PROVE  \A p \in a .. c : md[p] = md[a] /\ dp[p] = dp[a]
<1> DEFINE G == {b \in a .. c : md[b] = md[a] /\ dp[b] = dp[a]}
<1>0. start \in Nat /\ a \in Int /\ c \in Int /\ a \in a .. c
  OBVIOUS
<1>1. a \in G
  BY <1>0
<1>2. ASSUME NEW n \in a .. c - 1, n \in G PROVE n + 1 \in G
  <2> DEFINE b == n + 1
  <2>1. n \in start .. L - 1 /\ b \in a .. c /\ n \in a .. c /\ n \in start .. L
    BY <1>0
  <2>2. Reads(At(n), dp[n], md[n], es[n], dp[b], md[b], es[b])
    BY <2>1, RunFacts
  <2>3. md[n] # NoQuote /\ md[b] # NoQuote /\ es[n] \in {0, 1}
    BY <2>1, RunFacts
  <2> HIDE DEF b
  <2>4. md[b] = md[n] /\ dp[b] = dp[n]
    BY <2>2, <2>3 DEF Reads
  <2> QED
    BY <1>2, <2>1, <2>4 DEF b
<1>3. a .. c \subseteq G
  <2> HIDE DEF G
  <2> QED
    BY <1>0, <1>1, <1>2, UpToInduction
<1> QED
  BY <1>3

\* What the walk comes out of as it went in, never less deep in between, is a
\* balanced text.
LEMMA ReadBalanced ==
    ASSUME L \in Nat, start \in 0 .. L, NEW dp, NEW md, NEW es, Run(dp, md, es),
           NEW a \in start .. L, md[a] = NoQuote,
           NEW c \in a .. L, md[c] = NoQuote, dp[c] = dp[a],
           \A p \in a .. c : dp[p] >= dp[a]
    PROVE  a \in Balanced[c]
<1> DEFINE Out(k, b) ==
               md[b] = NoQuote /\ dp[b] = dp[k] /\ \A p \in k .. b : dp[p] >= dp[k]
           All(b) == \A k \in start .. b :
                         md[k] = NoQuote /\ Out(k, b) => k \in Balanced[b]
           G == {b \in start .. L : \A x \in start .. b : All(x)}
<1>0. start \in Nat /\ a \in Int
  OBVIOUS
<1>R. \A p \in start .. L : /\ dp[p] \in Int /\ md[p] \in Modes /\ es[p] \in {0, 1}
                            /\ md[p] = NoQuote => es[p] = 0
  BY RunFacts
<1>S. \A p \in start .. L - 1 :
          Reads(At(p), dp[p], md[p], es[p], dp[p + 1], md[p + 1], es[p + 1])
  BY RunFacts
<1>E. \A b \in start .. L : b \in Balanced[b]
  <2> TAKE b \in start .. L
  <2>1. b \in 0 .. L /\ b \in b .. L
    BY <1>0
  <2> QED
    BY <2>1, ItemsFrom
<1>1. start \in G
  <2>1. \A k \in start .. start : k = start
    BY <1>0
  <2>2. start \in start .. L
    BY <1>0
  <2>3. All(start)
    BY <1>E, <2>1, <2>2
  <2> HIDE DEF All
  <2> QED
    BY <2>1, <2>2, <2>3
<1>2. ASSUME NEW n \in start .. L - 1, n \in G PROVE n + 1 \in G
  <2> DEFINE b == n + 1
  <2>1. b \in start .. L /\ b - 1 = n /\ b \in Nat /\ n \in start .. n /\ n \in start .. L
    BY <1>0
  <2>2. ASSUME NEW k \in start .. b, md[k] = NoQuote, Out(k, b)
        PROVE  k \in Balanced[b]
    <3>0. k \in 0 .. L /\ b \in k .. L /\ k \in start .. L
      BY <1>0, <2>1
    <3>1. CASE k = b
      BY <1>E, <2>1, <3>1
    <3>2. CASE k # b
      <4>1. k \in start .. n /\ n \in k .. b /\ b \in k .. b
        BY <2>1, <3>0, <3>2
      <4>2. Reads(At(n), dp[n], md[n], es[n], dp[b], md[b], es[b])
        BY <1>S
      <4>3. /\ dp[n] \in Int /\ dp[k] \in Int /\ dp[b] \in Int /\ dp[b] = dp[k]
            /\ dp[n] >= dp[k] /\ md[b] = NoQuote /\ md[n] \in Modes /\ es[n] \in {0, 1}
            /\ (md[n] = NoQuote => es[n] = 0)
        BY <1>R, <2>1, <2>2, <3>0, <4>1
      <4> SUFFICES ASSUME TRUE PROVE \E m \in k .. b - 1 : k \in Balanced[m] /\ EndsInItem(m, b)
        BY <3>0, ItemsFrom
      <4>4. CASE md[n] # NoQuote
        <5> DEFINE Code == {p \in start .. L : md[p] = NoQuote}
        <5>1. k \in Code /\ n \notin Code /\ k \in Int /\ n \in Int /\ k <= n
          BY <2>2, <3>0, <4>1, <4>4
        <5>2. PICK m \in k .. n - 1 : m \in Code /\ \A p \in m + 1 .. n : p \notin Code
          <6> HIDE DEF Code
          <6> QED
            BY <5>1, LastIn
        <5> DEFINE x == m + 1
                   q == At(m)
        <5>3. /\ m \in start .. n /\ m \in start .. L - 1 /\ k \in start .. m
              /\ x \in start .. L /\ n \in x .. L /\ x \in x .. n /\ n \in x .. n
              /\ x <= n /\ m \in k .. b - 1 /\ m + 2 <= b /\ m \in k .. b /\ m \in start .. L
          BY <1>0, <2>1, <4>1, <5>2
        <5>4. md[m] = NoQuote /\ es[m] = 0
          BY <1>R, <5>2, <5>3
        <5>5. \A p \in x .. n : md[p] # NoQuote
          <6> TAKE p \in x .. n
          <6>1. p \in start .. L /\ p \in m + 1 .. n
            BY <1>0, <5>3
          <6> QED
            BY <5>2, <6>1
        <5>6. Reads(q, dp[m], md[m], es[m], dp[x], md[x], es[x])
          BY <1>S, <5>3
        <5>7. md[x] # NoQuote
          BY <5>3, <5>5
        <5>13. \A p \in k .. m : p \in k .. b
          BY <1>0, <5>3
        <5> HIDE DEF x, q, b, Code, All
        <5>8. q \in Quotes /\ md[x] = q /\ es[x] = 0 /\ dp[x] = dp[m]
          BY <5>4, <5>6, <5>7 DEF Reads
        <5>9. \A p \in x .. n : md[p] = q /\ dp[p] = dp[m]
          BY <5>3, <5>5, <5>8, StringKept
        <5>10. es[n] = 0 /\ At(n) = md[n] /\ dp[b] = dp[n]
          BY <4>2, <4>3, <4>4 DEF Reads
        <5>11. x \in StringBody(q)[n]
          BY <5>3, <5>8, <5>9, <5>10, ReadBody
        <5>12. dp[m] = dp[k] /\ At(n) = q
          BY <4>3, <5>3, <5>9, <5>10
        <5>14. Out(k, m)
          BY <2>2, <5>4, <5>12, <5>13
        <5>15. k \in Balanced[m]
          BY <1>2, <2>2, <5>3, <5>14 DEF All
        <5>16. StringIn(Bodies, m, b)
          <6>1. b - 1 = n /\ x = m + 1
            BY <2>1 DEF x
          <6> QED
            BY <5>3, <5>8, <5>11, <5>12, <6>1 DEF StringIn, Bodies, q
        <5> QED
          BY <5>3, <5>15, <5>16 DEF EndsInItem
      <4>5. CASE md[n] = NoQuote /\ dp[n] = dp[k]
        <5>1. \A p \in k .. n : p \in k .. b
          BY <1>0, <4>1
        <5>2. Out(k, n)
          BY <2>2, <4>5, <5>1
        <5>3. k \in Balanced[n]
          BY <1>2, <2>1, <2>2, <4>1, <5>2
        <5> HIDE DEF b
        <5>4. At(n) \notin Quotes \cup {OPENING, CLOSING}
          BY <4>2, <4>3, <4>5 DEF Reads, Quotes, QUOTE, APOSTROPHE, BACKTICK, NoQuote
        <5>5. n + 1 = b /\ n \in k .. b - 1
          BY <1>0, <4>1 DEF b
        <5> QED
          BY <5>3, <5>4, <5>5 DEF EndsInItem
      <4>6. CASE md[n] = NoQuote /\ dp[n] # dp[k]
        <5>1. At(n) = CLOSING /\ dp[n] = dp[k] + 1
          <6> HIDE DEF b
          <6>1. At(n) = CLOSING /\ dp[b] = dp[n] - 1
            BY <4>2, <4>3, <4>6 DEF Reads, Quotes, QUOTE, APOSTROPHE, BACKTICK, NoQuote
          <6> QED
            BY <4>3, <6>1
        <5> DEFINE Low == {p \in start .. L : dp[p] <= dp[k]}
        <5>2. k \in Low /\ n \notin Low /\ k \in Int /\ n \in Int /\ k <= n
          BY <2>1, <3>0, <4>1, <4>3, <5>1
        <5>3. PICK m \in k .. n - 1 : m \in Low /\ \A p \in m + 1 .. n : p \notin Low
          <6> HIDE DEF Low
          <6> QED
            BY <5>2, LastIn
        <5> DEFINE x == m + 1
        <5>4. /\ m \in start .. n /\ m \in start .. L - 1 /\ k \in start .. m
              /\ x \in start .. L /\ x \in x .. n /\ x \in start .. n
              /\ x <= n /\ m \in k .. b - 1 /\ m + 2 <= b /\ m \in k .. b /\ m \in start .. L
          BY <1>0, <2>1, <4>1, <5>3
        <5>5. dp[m] = dp[k] /\ dp[m] \in Int /\ dp[x] \in Int /\ md[m] \in Modes
              /\ es[m] \in {0, 1} /\ (md[m] = NoQuote => es[m] = 0)
          <6>1. dp[m] <= dp[k] /\ dp[m] >= dp[k]
            BY <2>2, <5>3, <5>4
          <6>2. dp[m] \in Int /\ dp[x] \in Int
            BY <1>R, <5>4
          <6> QED
            BY <1>R, <4>3, <5>4, <6>1, <6>2
        <5>6. \A p \in x .. n : dp[p] >= dp[k] + 1
          <6> TAKE p \in x .. n
          <6>1. p \in start .. L /\ p \in m + 1 .. n
            BY <1>0, <2>1, <5>4
          <6>2. dp[p] \in Int /\ ~(dp[p] <= dp[k])
            BY <1>R, <5>3, <6>1
          <6> QED
            BY <4>3, <6>2
        <5>7. Reads(At(m), dp[m], md[m], es[m], dp[x], md[x], es[x])
          BY <1>S, <5>4
        <5>8. dp[x] >= dp[m] + 1
          BY <5>4, <5>5, <5>6
        <5> HIDE DEF x, Low, All
        <5>9. md[m] = NoQuote /\ md[x] = NoQuote /\ At(m) = OPENING /\ dp[x] = dp[m] + 1
          BY <5>5, <5>7, <5>8 DEF Reads
        <5>10. \A p \in k .. m : p \in k .. b
          BY <1>0, <5>4
        <5>11. Out(k, m)
          BY <2>2, <5>5, <5>9, <5>10
        <5>12. k \in Balanced[m]
          BY <1>2, <2>2, <5>4, <5>11 DEF All
        <5>13. Out(x, n)
          BY <4>6, <5>1, <5>5, <5>6, <5>9
        <5>14. x \in Balanced[n]
          BY <1>2, <2>1, <5>4, <5>9, <5>13 DEF All
        <5> QED
          BY <2>1, <5>1, <5>4, <5>9, <5>12, <5>14 DEF EndsInItem, x
      <4> QED
        BY <4>4, <4>5, <4>6
    <3> QED
      BY <3>1, <3>2
  <2>3. \A x \in start .. b : x \in start .. n \/ x = b
    BY <1>0
  <2>4. All(b)
    BY <2>2
  <2> HIDE DEF b, All
  <2>5. \A x \in start .. b : All(x)
    BY <1>2, <2>3, <2>4
  <2> QED
    BY <2>1, <2>5 DEF b
<1>3. c \in G
  <2> HIDE DEF G
  <2>1. start .. L \subseteq G
    BY <1>0, <1>1, <1>2, UpToInduction
  <2>2. c \in start .. L
    BY <1>0
  <2> QED
    BY <2>1, <2>2
<1>4. c \in start .. c /\ a \in start .. c
  BY <1>0
<1> QED
  BY <1>3, <1>4

-----------------------------------------------------------------------------
(* The walk follows the run over its text.                                 *)

\* Depth, string and escape are those of the run at i, where the depth has
\* never been below one; on the closing brace that is returned, depth has
\* already been counted down.
Follows(dp, md, es) ==
    /\ \A p \in start .. i : dp[p] >= 1
    /\ dp[i] = IF pc = "found" THEN 1 ELSE depth
    /\ md[i] = in_str
    /\ es[i] = 1 <=> escape

WalkInv ==
    /\ text \in Seq(Nat) /\ start \in Nat /\ limit \in Nat /\ i \in Nat /\ start <= i
    /\ depth \in Int /\ escape \in BOOLEAN
    /\ start > L => i = start /\ pc # "found"
    /\ start <= L => i <= L /\ \E dp, md, es : Run(dp, md, es) /\ Follows(dp, md, es)
    /\ pc = "found" => /\ i < L /\ i < limit /\ At(i) = CLOSING
                       /\ in_str = NoQuote
    /\ pc = "unbalanced" => i >= limit
    /\ pc = "raised" => i >= L
    /\ pc \in {"walk", "found", "unbalanced", "raised"}

LEMMA WalkInit == Init => WalkInv
<1> SUFFICES ASSUME Init PROVE WalkInv
  OBVIOUS
<1>1. /\ text \in Seq(Nat) /\ start \in Nat /\ limit \in Nat /\ L \in Nat
      /\ i = start /\ depth = 1 /\ in_str = NoQuote /\ escape = FALSE /\ pc = "walk"
  BY TextsAssumption, BoundsAssumption, LenProperties DEF Init, L
<1>2. ASSUME start <= L
      PROVE  i <= L /\ \E dp, md, es : Run(dp, md, es) /\ Follows(dp, md, es)
  <2>1. start \in 0 .. L
    BY <1>1, <1>2
  <2>2. PICK dp, md, es : Run(dp, md, es)
    BY <1>1, <2>1, RunExists
  <2>3. dp[start] = 1 /\ md[start] = NoQuote /\ es[start] = 0
    BY <1>1, <2>1, <2>2, RunFacts
  <2>4. \A p \in start .. i : p = start
    BY <1>1
  <2>5. Follows(dp, md, es)
    BY <1>1, <2>3, <2>4 DEF Follows
  <2> QED
    BY <1>1, <1>2, <2>2, <2>5
<1>3. escape \in BOOLEAN
  BY <1>1
<1>4. depth \in Int /\ start <= i /\ i \in Nat
  BY <1>1
<1> QED
  BY <1>1, <1>2, <1>3, <1>4 DEF WalkInv

\* A step that reads the character at i.
LEMMA ReadStep ==
    ASSUME WalkInv, Walking, UNCHANGED <<arguments, pc>>, i' = i + 1,
           depth' \in Int, depth' >= 1, escape' \in BOOLEAN,
           \A d, m, e, d1, m1, e1 :
              /\ d = depth /\ m = in_str /\ e \in {0, 1} /\ (e = 1 <=> escape)
              /\ d \in Int /\ d1 \in Int /\ m1 \in Modes /\ m \in Modes /\ e1 \in {0, 1}
              /\ (m = NoQuote => e = 0)
              /\ Reads(Byte, d, m, e, d1, m1, e1)
              => d1 = depth' /\ m1 = in_str' /\ (e1 = 1 <=> escape')
    PROVE  WalkInv'
<1>1. /\ text' = text /\ start' = start /\ limit' = limit /\ L' = L /\ pc' = "walk" /\ pc = "walk"
  BY DEF arguments, Walking, L
<1>2. /\ text \in Seq(Nat) /\ start \in Nat /\ limit \in Nat /\ i \in Nat /\ L \in Nat
      /\ start <= i /\ i < L /\ start <= L
  <2>1. L \in Nat /\ i < L
    BY LenProperties DEF WalkInv, Walking, L
  <2> QED
    BY <2>1 DEF WalkInv
<1>3. PICK dp, md, es : Run(dp, md, es) /\ Follows(dp, md, es)
  BY <1>2 DEF WalkInv
<1> DEFINE j == i + 1
<1>4. i \in start .. L - 1 /\ start \in 0 .. L /\ i \in start .. L /\ j \in start .. L
  BY <1>2
<1>5. Reads(At(i), dp[i], md[i], es[i], dp[j], md[j], es[j])
  BY <1>2, <1>3, <1>4, RunFacts
<1>6. /\ dp[i] \in Int /\ md[i] \in Modes /\ es[i] \in {0, 1} /\ (md[i] = NoQuote => es[i] = 0)
      /\ dp[j] \in Int /\ md[j] \in Modes /\ es[j] \in {0, 1}
  BY <1>2, <1>3, <1>4, RunFacts
<1>7. dp[i] = depth /\ md[i] = in_str /\ (es[i] = 1 <=> escape)
  BY <1>1, <1>3 DEF Follows
<1>8. dp[j] = depth' /\ md[j] = in_str' /\ (es[j] = 1 <=> escape')
  <2>1. Reads(Byte, dp[i], md[i], es[i], dp[j], md[j], es[j])
    BY <1>5 DEF Byte, At
  <2> HIDE DEF j
  <2> QED
    BY <1>6, <1>7, <2>1
<1>9. Run(dp, md, es)'
  BY <1>1, <1>3 DEF Run
<1>10. Follows(dp, md, es)'
  <2>1. \A p \in start .. j : p \in start .. i \/ p = j
    BY <1>2
  <2>2. \A p \in start .. j : dp[p] >= 1
    BY <1>3, <1>8, <2>1 DEF Follows
  <2> QED
    BY <1>1, <1>8, <2>2 DEF Follows
<1>11. i' \in Nat /\ start' <= i' /\ i' <= L' /\ ~(start' > L')
  BY <1>1, <1>2
<1> QED
  BY <1>1, <1>2, <1>9, <1>10, <1>11 DEF WalkInv

LEMMA WalkingFacts ==
    ASSUME WalkInv, Walking
    PROVE  /\ depth \in Int /\ depth >= 1 /\ escape \in BOOLEAN
           /\ in_str \in Modes /\ (escape => in_str # NoQuote)
           /\ \E dp, md, es : /\ Run(dp, md, es) /\ Follows(dp, md, es)
                              /\ dp[i] = depth /\ md[i] = in_str /\ (es[i] = 1 <=> escape)
           /\ start \in 0 .. L /\ i \in start .. L - 1 /\ L \in Nat
<1>1. /\ text \in Seq(Nat) /\ start \in Nat /\ limit \in Nat /\ i \in Nat /\ L \in Nat
      /\ start <= i /\ i < L /\ start <= L /\ pc = "walk"
  <2>1. L \in Nat /\ i < L
    BY LenProperties DEF WalkInv, Walking, L
  <2> QED
    BY <2>1 DEF WalkInv, Walking
<1>2. PICK dp, md, es : Run(dp, md, es) /\ Follows(dp, md, es)
  BY <1>1 DEF WalkInv
<1>3. start \in 0 .. L /\ i \in start .. L - 1 /\ i \in start .. L /\ i \in start .. i
  BY <1>1
<1>4. md[i] \in Modes /\ es[i] \in {0, 1} /\ (md[i] = NoQuote => es[i] = 0)
  BY <1>1, <1>2, <1>3, RunFacts
<1>5. dp[i] = depth /\ md[i] = in_str /\ (es[i] = 1 <=> escape) /\ dp[i] >= 1
  BY <1>1, <1>2, <1>3 DEF Follows
<1>6. depth \in Int /\ escape \in BOOLEAN
  BY DEF WalkInv
<1>7. escape => in_str # NoQuote
  BY <1>4, <1>5
<1> QED
  BY <1>1, <1>2, <1>3, <1>4, <1>5, <1>6, <1>7

LEMMA WalkStep == WalkInv /\ [Next]_vars => WalkInv'
<1> SUFFICES ASSUME WalkInv, [Next]_vars PROVE WalkInv'
  OBVIOUS
<1>1. CASE SkipEscaped
  <2>1. /\ Walking /\ UNCHANGED <<arguments, pc>> /\ i' = i + 1
        /\ escape /\ ~escape' /\ escape' \in BOOLEAN /\ depth' = depth /\ in_str' = in_str
    BY <1>1 DEF SkipEscaped, Advance
  <2>2. depth' \in Int /\ depth' >= 1
    BY <2>1, WalkingFacts
  <2>3. ASSUME NEW d, NEW m, NEW e, NEW d1, NEW m1, NEW e1,
               d = depth, m = in_str, e \in {0, 1}, e = 1 <=> escape,
               Reads(Byte, d, m, e, d1, m1, e1)
        PROVE  d1 = depth' /\ m1 = in_str' /\ (e1 = 1 <=> escape')
    BY <2>1, <2>3 DEF Reads
  <2> QED
    BY <2>1, <2>2, <2>3, ReadStep
<1>2. CASE InString
  <2>1. /\ Walking /\ UNCHANGED <<arguments, pc>> /\ i' = i + 1 /\ ~escape
        /\ in_str # NoQuote /\ depth' = depth /\ (escape' <=> Byte = BACKSLASH)
        /\ escape' \in BOOLEAN
        /\ in_str' = IF Byte # BACKSLASH /\ Byte = in_str THEN NoQuote ELSE in_str
    BY <1>2 DEF InString, Advance, ClosesString
  <2>2. depth' \in Int /\ depth' >= 1 /\ in_str # BACKSLASH
    BY <2>1, WalkingFacts DEF Modes, Quotes, QUOTE, APOSTROPHE, BACKTICK, BACKSLASH, NoQuote
  <2>3. ASSUME NEW d, NEW m, NEW e, NEW d1, NEW m1, NEW e1,
               d = depth, m = in_str, e \in {0, 1}, e = 1 <=> escape,
               Reads(Byte, d, m, e, d1, m1, e1)
        PROVE  d1 = depth' /\ m1 = in_str' /\ (e1 = 1 <=> escape')
    BY <2>1, <2>2, <2>3 DEF Reads
  <2> QED
    BY <2>1, <2>2, <2>3, ReadStep
<1>3. CASE OpenString
  <2>1. /\ Walking /\ UNCHANGED <<arguments, pc>> /\ i' = i + 1 /\ ~escape /\ ~escape'
        /\ in_str = NoQuote /\ depth' = depth /\ Byte \in Quotes
        /\ escape' \in BOOLEAN /\ in_str' = Byte
    <3>1. escape' = escape /\ ~escape /\ escape \in BOOLEAN
      BY <1>3 DEF OpenString, InCode, WalkInv
    <3> QED
      BY <1>3, <3>1 DEF OpenString, InCode, Advance
  <2>2. depth' \in Int /\ depth' >= 1
    BY <2>1, WalkingFacts
  <2>3. ASSUME NEW d, NEW m, NEW e, NEW d1, NEW m1, NEW e1,
               d = depth, m = in_str, e \in {0, 1}, e = 1 <=> escape,
               Reads(Byte, d, m, e, d1, m1, e1)
        PROVE  d1 = depth' /\ m1 = in_str' /\ (e1 = 1 <=> escape')
    BY <2>1, <2>3 DEF Reads, Quotes, QUOTE, APOSTROPHE, BACKTICK, OPENING, CLOSING
  <2> QED
    BY <2>1, <2>2, <2>3, ReadStep
<1>4. CASE OpenBrace
  <2>1. /\ Walking /\ UNCHANGED <<arguments, pc>> /\ i' = i + 1 /\ ~escape /\ ~escape'
        /\ in_str = NoQuote /\ depth' = depth + 1 /\ Byte = OPENING
        /\ escape' \in BOOLEAN /\ in_str' = in_str
    <3>1. escape' = escape /\ ~escape /\ escape \in BOOLEAN
      BY <1>4 DEF OpenBrace, InCode, WalkInv
    <3> QED
      BY <1>4, <3>1 DEF OpenBrace, InCode, Advance
  <2>2. depth' \in Int /\ depth' >= 1
    BY <2>1, WalkingFacts
  <2>3. ASSUME NEW d, NEW m, NEW e, NEW d1, NEW m1, NEW e1,
               d = depth, m = in_str, e \in {0, 1}, e = 1 <=> escape,
               Reads(Byte, d, m, e, d1, m1, e1)
        PROVE  d1 = depth' /\ m1 = in_str' /\ (e1 = 1 <=> escape')
    BY <2>1, <2>3 DEF Reads, Quotes, QUOTE, APOSTROPHE, BACKTICK, OPENING, CLOSING
  <2> QED
    BY <2>1, <2>2, <2>3, ReadStep
<1>5. CASE CloseBrace /\ depth # 1
  <2>1. /\ Walking /\ UNCHANGED <<arguments, pc>> /\ i' = i + 1 /\ ~escape /\ ~escape'
        /\ in_str = NoQuote /\ depth' = depth - 1 /\ Byte = CLOSING
        /\ escape' \in BOOLEAN /\ in_str' = in_str
    <3>1. escape' = escape /\ ~escape /\ escape \in BOOLEAN
      BY <1>5 DEF CloseBrace, InCode, WalkInv
    <3> QED
      BY <1>5, <3>1 DEF CloseBrace, InCode
  <2>2. depth' \in Int /\ depth' >= 1
    BY <1>5, <2>1, WalkingFacts
  <2>3. ASSUME NEW d, NEW m, NEW e, NEW d1, NEW m1, NEW e1,
               d = depth, m = in_str, e \in {0, 1}, e = 1 <=> escape,
               Reads(Byte, d, m, e, d1, m1, e1)
        PROVE  d1 = depth' /\ m1 = in_str' /\ (e1 = 1 <=> escape')
    BY <2>1, <2>3 DEF Reads, Quotes, QUOTE, APOSTROPHE, BACKTICK, OPENING, CLOSING
  <2> QED
    BY <2>1, <2>2, <2>3, ReadStep
<1>6. CASE CloseBrace /\ depth = 1
  <2>1. /\ Walking /\ i' = i /\ text' = text /\ start' = start /\ limit' = limit /\ L' = L
        /\ pc' = "found" /\ depth' = 0 /\ in_str' = in_str /\ escape' = escape
        /\ in_str = NoQuote /\ At(i) = CLOSING
    BY <1>6 DEF CloseBrace, InCode, arguments, L, At, Byte
  <2>2. PICK dp, md, es : /\ Run(dp, md, es) /\ Follows(dp, md, es)
                          /\ dp[i] = depth /\ md[i] = in_str /\ (es[i] = 1 <=> escape)
    BY <2>1, WalkingFacts
  <2>3. Run(dp, md, es)' /\ Follows(dp, md, es)'
    BY <1>6, <2>1, <2>2 DEF Run, Follows
  <2>4. i < L /\ i < limit /\ start <= L /\ start \in Nat /\ L \in Nat
    BY <2>1, WalkingFacts DEF Walking, L
  <2>5. At(i)' = CLOSING
    BY <2>1 DEF At
  <2>6. escape' \in BOOLEAN
    BY <2>1 DEF WalkInv
  <2> QED
    BY <2>1, <2>3, <2>4, <2>5, <2>6 DEF WalkInv
<1>7. CASE OtherCode
  <2>1. /\ Walking /\ UNCHANGED <<arguments, pc>> /\ i' = i + 1 /\ ~escape /\ ~escape'
        /\ in_str = NoQuote /\ depth' = depth /\ Byte \notin Quotes \cup {OPENING, CLOSING}
        /\ escape' \in BOOLEAN /\ in_str' = in_str
    <3>1. escape' = escape /\ ~escape /\ escape \in BOOLEAN
      BY <1>7 DEF OtherCode, InCode, WalkInv
    <3> QED
      BY <1>7, <3>1 DEF OtherCode, InCode, Advance
  <2>2. depth' \in Int /\ depth' >= 1
    BY <2>1, WalkingFacts
  <2>3. ASSUME NEW d, NEW m, NEW e, NEW d1, NEW m1, NEW e1,
               d = depth, m = in_str, e \in {0, 1}, e = 1 <=> escape,
               Reads(Byte, d, m, e, d1, m1, e1)
        PROVE  d1 = depth' /\ m1 = in_str' /\ (e1 = 1 <=> escape')
    BY <2>1, <2>3 DEF Reads
  <2> QED
    BY <2>1, <2>2, <2>3, ReadStep
<1>8. CASE Exhausted \/ BehindBuffer \/ UNCHANGED vars
  <2>1. /\ text' = text /\ start' = start /\ limit' = limit /\ i' = i /\ depth' = depth
        /\ in_str' = in_str /\ escape' = escape /\ L' = L /\ At(i)' = At(i)
        /\ (pc' = "found" <=> pc = "found")
        /\ \/ pc' = pc
           \/ pc' = "unbalanced" /\ i >= limit
           \/ pc' = "raised" /\ i < limit /\ i >= L
    BY <1>8 DEF Exhausted, BehindBuffer, vars, arguments, L, At
  <2>2. ASSUME start <= L
        PROVE  i <= L /\ \E dp, md, es : Run(dp, md, es)' /\ Follows(dp, md, es)'
    <3>1. PICK dp, md, es : Run(dp, md, es) /\ Follows(dp, md, es)
      BY <2>2 DEF WalkInv
    <3>2. Run(dp, md, es)' /\ Follows(dp, md, es)'
      BY <2>1, <3>1 DEF Run, Follows
    <3> QED
      BY <2>2, <3>2 DEF WalkInv
  <2>3. escape' \in BOOLEAN
    BY <2>1 DEF WalkInv
  <2> QED
    BY <2>1, <2>2, <2>3 DEF WalkInv
<1> QED
  BY <1>1, <1>2, <1>3, <1>4, <1>5, <1>6, <1>7, <1>8 DEF Next, Walk, Returned

-----------------------------------------------------------------------------
(* What is found.                                                          *)

\* No brace in front of i closes the text.
LEMMA NothingPassed ==
    ASSUME WalkInv, start <= L, NEW n \in start .. i - 1, n < L
    PROVE  ~ClosesAt(Balanced, n)
<1> SUFFICES ASSUME start \in Balanced[n], At(n) = CLOSING PROVE FALSE
  BY DEF ClosesAt
<1>1. start \in 0 .. L /\ start \in start .. L /\ L \in Nat /\ i \in Nat /\ start \in Nat
      /\ n \in start .. L - 1 /\ n \in start .. L /\ n + 1 \in start .. i
  <2>1. L \in Nat /\ i \in Nat /\ start \in Nat
    BY LenProperties DEF WalkInv, L
  <2> QED
    BY <2>1
<1>2. PICK dp, md, es : Run(dp, md, es) /\ Follows(dp, md, es)
  BY DEF WalkInv
<1>3. dp[start] = 1 /\ md[start] = NoQuote /\ es[start] = 0
  BY <1>1, <1>2, RunFacts
<1>4. md[n] = NoQuote /\ dp[n] = 1
  BY <1>1, <1>2, <1>3, BalancedRead
<1>5. es[n] = 0
  BY <1>1, <1>2, <1>4, RunFacts
<1>6. Reads(At(n), dp[n], md[n], es[n], dp[n + 1], md[n + 1], es[n + 1])
  BY <1>1, <1>2, RunFacts
<1>7. dp[n + 1] = 0
  BY <1>4, <1>5, <1>6 DEF Reads, Quotes, QUOTE, APOSTROPHE, BACKTICK, OPENING, CLOSING
<1>8. dp[n + 1] >= 1
  BY <1>1, <1>2 DEF Follows
<1> QED
  BY <1>7, <1>8

\* The brace that is found closes the text, and none behind it does.
LEMMA FoundCloses ==
    ASSUME WalkInv, pc = "found", NEW n \in start .. L - 1, n >= i
    PROVE  ClosesAt(Balanced, n) <=> n = i
<1>1. /\ start \in 0 .. L /\ start \in start .. L /\ L \in Nat /\ i \in Nat /\ start \in Nat
      /\ i \in start .. L - 1 /\ i \in start .. L /\ At(i) = CLOSING /\ in_str = NoQuote
      /\ n \in start .. L /\ n < Len(text)
  <2>1. L \in Nat /\ i \in Nat /\ start \in Nat
    BY LenProperties DEF WalkInv, L
  <2>2. ~(start > L) /\ start <= i /\ i < L /\ At(i) = CLOSING /\ in_str = NoQuote
    BY <2>1 DEF WalkInv
  <2> QED
    BY <2>1, <2>2 DEF L
<1>2. PICK dp, md, es : Run(dp, md, es) /\ Follows(dp, md, es)
  BY <1>1 DEF WalkInv
<1>3. dp[start] = 1 /\ md[start] = NoQuote /\ es[start] = 0
  BY <1>1, <1>2, RunFacts
<1>4. dp[i] = 1 /\ md[i] = NoQuote /\ \A p \in start .. i : dp[p] >= 1
  BY <1>1, <1>2 DEF Follows
<1>5. start \in Balanced[i]
  BY <1>1, <1>2, <1>3, <1>4, ReadBalanced
<1>6. ASSUME start \in Balanced[n], n # i PROVE FALSE
  <2>1. \A p \in start .. n : dp[p] >= 1
    BY <1>1, <1>2, <1>3, <1>6, BalancedRead
  <2>2. es[i] = 0
    BY <1>1, <1>2, <1>4, RunFacts
  <2>3. Reads(At(i), dp[i], md[i], es[i], dp[i + 1], md[i + 1], es[i + 1])
    BY <1>1, <1>2, RunFacts
  <2>4. dp[i + 1] = 0
    BY <1>1, <1>4, <2>2, <2>3 DEF Reads, Quotes, QUOTE, APOSTROPHE, BACKTICK, OPENING, CLOSING
  <2>5. i + 1 \in start .. n
    BY <1>1, <1>6
  <2> QED
    BY <2>1, <2>4, <2>5
<1> QED
  BY <1>1, <1>5, <1>6 DEF ClosesAt

LEMMA WalkAlways == Spec => []WalkInv
BY WalkInit, WalkStep, PTL DEF Spec

\* For every text, start and limit: find_balanced_close returns the position
\* of the brace that closes the opening brace in front of start, and returns
\* None or raises only if there is none in front of limit (context.py:95-127).
THEOREM WalkFindsTheBrace == Spec => []FindsMatchingBrace
<1>1. WalkInv => FindsMatchingBrace
  <2> SUFFICES ASSUME WalkInv, pc # "walk", NEW n \in start .. limit - 1
               PROVE  ClosesAt(Balanced, n) <=> (pc = "found" /\ n = i)
    BY DEF FindsMatchingBrace
  <2>1. L \in Nat /\ i \in Nat /\ start \in Nat /\ limit \in Nat /\ n \in Nat /\ start <= n
    <3>1. L \in Nat /\ i \in Nat /\ start \in Nat /\ limit \in Nat
      BY LenProperties DEF WalkInv, L
    <3> QED
      BY <3>1
  <2>2. CASE n >= L
    <3>1. ~ClosesAt(Balanced, n)
      BY <2>1, <2>2 DEF ClosesAt, L
    <3>2. pc = "found" => i < L
      BY DEF WalkInv
    <3> QED
      BY <2>1, <2>2, <3>1, <3>2
  <2>3. CASE n < L /\ n < i
    <3>1. n \in start .. i - 1 /\ start <= L
      BY <2>1, <2>3
    <3> QED
      BY <2>1, <2>3, <3>1, NothingPassed
  <2>4. CASE n < L /\ n >= i
    <3>1. pc = "found"
      <4>1. /\ pc \in {"walk", "found", "unbalanced", "raised"}
            /\ pc = "unbalanced" => i >= limit
            /\ pc = "raised" => i >= L
        BY DEF WalkInv
      <4> QED
        BY <2>1, <2>4, <4>1
    <3>2. n \in start .. L - 1
      BY <2>1, <2>4
    <3> QED
      BY <2>4, <3>1, <3>2, FoundCloses
  <2> QED
    BY <2>1, <2>2, <2>3, <2>4
<1> QED
  BY <1>1, WalkAlways, PTL
=============================================================================
