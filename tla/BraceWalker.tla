----------------------------- MODULE BraceWalker -----------------------------
(***************************************************************************)
(* DiscoveryContext.find_balanced_close (cc_patcher/context.py): a walk    *)
(* over JavaScript text, from just behind an opening brace to the brace    *)
(* that closes it.  One action per branch of the loop body.                *)
(*                                                                         *)
(* Positions count from 0, as in the code: buf[i] is text[i + 1].          *)
(***************************************************************************)
EXTENDS Integers, Sequences

CONSTANTS
    Texts,          \* the buffers to walk over
    Starts,         \* where a walk may begin
    Limits          \* where it may have to end, within the buffer or not

ASSUME TextsAssumption == Texts \subseteq Seq(Nat)
ASSUME BoundsAssumption == Starts \subseteq Nat /\ Limits \subseteq Nat

QUOTE == 34
APOSTROPHE == 39
BACKSLASH == 92
BACKTICK == 96
OPENING == 123
CLOSING == 125

Quotes == {QUOTE, APOSTROPHE, BACKTICK}
NoQuote == -1            \* in_str is None

VARIABLES
    text, start, limit,      \* the buffer and the arguments
    i, depth, in_str, escape,
    pc                       \* "walk", then "found", "unbalanced" or "raised"

arguments == <<text, start, limit>>
vars == <<arguments, i, depth, in_str, escape, pc>>

Init ==
    /\ text \in Texts
    /\ start \in Starts
    /\ limit \in Limits
    /\ i = start
    /\ depth = 1
    /\ in_str = NoQuote
    /\ escape = FALSE
    /\ pc = "walk"

-----------------------------------------------------------------------------

Walking == pc = "walk" /\ i < limit /\ i < Len(text)

Byte == text[i + 1]

Advance == i' = i + 1 /\ UNCHANGED <<arguments, pc>>

\* if escape
SkipEscaped ==
    /\ Walking
    /\ escape
    /\ escape' = FALSE
    /\ Advance
    /\ UNCHANGED <<depth, in_str>>

\* Mutant: any quote ends a string.
EndsString == Byte \in Quotes

ClosesString == Byte = in_str

\* Mutant: i += 1 is left out in front of continue.
InStringStaying ==
    /\ Walking
    /\ ~escape
    /\ in_str # NoQuote
    /\ escape' = (Byte = BACKSLASH)
    /\ in_str' = IF Byte # BACKSLASH /\ ClosesString THEN NoQuote ELSE in_str
    /\ UNCHANGED <<arguments, i, depth, pc>>

\* if in_str is not None
InString ==
    /\ Walking
    /\ ~escape
    /\ in_str # NoQuote
    /\ escape' = (Byte = BACKSLASH)
    /\ in_str' = IF Byte # BACKSLASH /\ ClosesString THEN NoQuote ELSE in_str
    /\ Advance
    /\ UNCHANGED depth

InCode == Walking /\ ~escape /\ in_str = NoQuote

OpenString ==
    /\ InCode
    /\ Byte \in Quotes
    /\ in_str' = Byte
    /\ Advance
    /\ UNCHANGED <<depth, escape>>

OpenBrace ==
    /\ InCode
    /\ Byte = OPENING
    /\ depth' = depth + 1
    /\ Advance
    /\ UNCHANGED <<in_str, escape>>

CloseBrace ==
    /\ InCode
    /\ Byte = CLOSING
    /\ depth' = depth - 1
    /\ IF depth = 1
       THEN pc' = "found" /\ i' = i
       ELSE pc' = pc /\ i' = i + 1
    /\ UNCHANGED <<arguments, in_str, escape>>

OtherCode ==
    /\ InCode
    /\ Byte \notin Quotes \cup {OPENING, CLOSING}
    /\ Advance
    /\ UNCHANGED <<depth, in_str, escape>>

\* The end of the loop: return None.
Exhausted ==
    /\ pc = "walk"
    /\ i >= limit
    /\ pc' = "unbalanced"
    /\ UNCHANGED <<arguments, i, depth, in_str, escape>>

\* buf[i] behind the end of the buffer: an IndexError, where the docstring has
\* None.
BehindBuffer ==
    /\ pc = "walk"
    /\ i < limit
    /\ i >= Len(text)
    /\ pc' = "raised"
    /\ UNCHANGED <<arguments, i, depth, in_str, escape>>

Returned == pc # "walk" /\ UNCHANGED vars

Walk ==
    \/ SkipEscaped \/ InString
    \/ OpenString \/ OpenBrace \/ CloseBrace \/ OtherCode
    \/ Exhausted \/ BehindBuffer

Next == Walk \/ Returned

Spec == Init /\ [][Next]_vars
FairSpec == Spec /\ WF_vars(Walk)

-----------------------------------------------------------------------------

TypeOK ==
    /\ text \in Texts /\ start \in Starts /\ limit \in Limits
    /\ i \in Nat
    /\ depth \in Nat
    /\ in_str \in Quotes \cup {NoQuote}
    /\ escape \in BOOLEAN
    /\ pc \in {"walk", "found", "unbalanced", "raised"}
=============================================================================
