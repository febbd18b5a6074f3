---------------------------- MODULE BalancedText ----------------------------
(***************************************************************************)
(* What the brace walker should find, by a grammar of balanced text: a     *)
(* text is a sequence of items, and an item is a character that is neither *)
(* quote nor brace, a string, or a text in braces.  In a string a          *)
(* backslash takes the next character with it.  Spans are [a, b).          *)
(***************************************************************************)
EXTENDS BraceWalker

At(n) == text[n + 1]

Positions == 0 .. Len(text)

\* StringBody(q)[b]: where the inside of a string that q delimits may begin
\* if it ends at b.
StringBody(q) ==
    LET body[b \in Positions] ==
            {a \in 0 .. b :
                \/ a = b
                \/ a + 2 <= b /\ At(b - 2) = BACKSLASH /\ a \in body[b - 2]
                \/ a < b /\ At(b - 1) \notin {BACKSLASH, q} /\ a \in body[b - 1]}
    IN body

\* bodies[q] is StringBody(q) for each of the quotes.
StringIn(bodies, a, b) ==
    /\ a + 2 <= b /\ At(a) \in Quotes /\ At(b - 1) = At(a)
    /\ a + 1 \in bodies[At(a)][b - 1]

\* Balanced[b]: where a balanced text may begin if it ends at b.  Its items
\* are those of its first part and one more.
Balanced ==
    LET bodies == [q \in Quotes |-> StringBody(q)]
        items[b \in Positions] ==
            {a \in 0 .. b :
                \/ a = b
                \/ \E m \in a .. b - 1 :
                      /\ a \in items[m]
                      /\ \/ m + 1 = b /\ At(m) \notin Quotes \cup {OPENING, CLOSING}
                         \/ StringIn(bodies, m, b)
                         \/ /\ m + 2 <= b /\ At(m) = OPENING /\ At(b - 1) = CLOSING
                            /\ m + 1 \in items[b - 1]}
    IN items

ClosesAt(items, n) == n < Len(text) /\ At(n) = CLOSING /\ start \in items[n]

\* A brace is returned if and only if one in front of limit closes the opening
\* brace, and it is that one: strings, escapes and nested braces never mislead
\* the walk.  Without such a brace there is no result: None, or, if limit lies
\* behind the end of the buffer, the IndexError that the docstring does not
\* know of (context.py:95-127).
FindsMatchingBrace ==
    pc # "walk" =>
        LET items == Balanced
        IN \A n \in start .. limit - 1 :
              ClosesAt(items, n) <=> (pc = "found" /\ n = i)

\* Every walk ends (context.py:106-126).
WalkEnds == <>(pc # "walk")
=============================================================================
