---------------------------- MODULE MCBraceWalker ----------------------------
(***************************************************************************)
(* The brace walker against the grammar of balanced text, on all short     *)
(* texts.                                                                  *)
(***************************************************************************)
EXTENDS BalancedText

TextsOver(symbols, n) == UNION {[1..m -> symbols] : m \in 0..n}

LETTER == 120
ShortTexts ==
    TextsOver({LETTER, QUOTE, APOSTROPHE, BACKSLASH, OPENING, CLOSING}, 5)
    \cup TextsOver({QUOTE, BACKSLASH, OPENING, CLOSING}, 7)

FirstPositions == {0, 1}
LastPositions == {3, 6, 8}
=============================================================================
