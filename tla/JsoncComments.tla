---------------------------- MODULE JsoncComments ----------------------------
(***************************************************************************)
(* The comment stripper of the configuration loader                        *)
(* (_strip_jsonc_comments of config.py), on texts over the characters it   *)
(* tells apart, and what JSONC says a text without its comments is.        *)
(***************************************************************************)
EXTENDS Integers, Sequences, SequencesExt, FiniteSets

Quote == "\""
Escape == "\\"
Slash == "/"
Star == "*"
Newline == "\n"
Blank == " "
Letter == "x"   \* any other character

Characters == {Quote, Escape, Slash, Star, Newline, Blank, Letter}

\* The two characters of text from i on are the pair ab.
PairAt(text, i, a, b) == i < Len(text) /\ text[i] = a /\ text[i + 1] = b

-----------------------------------------------------------------------------
(* The walk: where it is, in which of four states, and what it has put out. *)

After(walk, read, state, out) ==
  [index |-> walk.index + read, state |-> state, out |-> walk.out \o out]

\* Mutant: an escaped character is read like any other.
TurnForgettingEscapes(text, walk) ==
  LET i == walk.index IN
  CASE walk.state = "normal" /\ text[i] = Quote -> After(walk, 1, "string", <<Quote>>)
    [] walk.state = "normal" /\ PairAt(text, i, Slash, Slash) -> After(walk, 2, "line", <<>>)
    [] walk.state = "normal" /\ PairAt(text, i, Slash, Star) -> After(walk, 2, "block", <<>>)
    [] walk.state = "string" /\ text[i] = Quote -> After(walk, 1, "normal", <<Quote>>)
    [] walk.state = "line" /\ text[i] = Newline -> After(walk, 1, "normal", <<Newline>>)
    [] walk.state = "line" /\ text[i] # Newline -> After(walk, 1, "line", <<>>)
    [] walk.state = "block" /\ PairAt(text, i, Star, Slash) -> After(walk, 2, "normal", <<Blank>>)
    [] walk.state = "block" /\ text[i] = Newline -> After(walk, 1, "block", <<Newline>>)
    [] walk.state = "block" /\ text[i] # Newline /\ ~PairAt(text, i, Star, Slash) -> After(walk, 1, "block", <<>>)
    [] OTHER -> After(walk, 1, walk.state, <<text[i]>>)

\* One turn of the loop.
Turn(text, walk) ==
  LET i == walk.index IN
  CASE walk.state = "normal" /\ text[i] = Quote -> After(walk, 1, "string", <<Quote>>)
    [] walk.state = "normal" /\ PairAt(text, i, Slash, Slash) -> After(walk, 2, "line", <<>>)
    [] walk.state = "normal" /\ PairAt(text, i, Slash, Star) -> After(walk, 2, "block", <<>>)
    [] walk.state = "string" /\ text[i] = Escape /\ i < Len(text) ->
         After(walk, 2, "string", <<Escape, text[i + 1]>>)
    [] walk.state = "string" /\ text[i] = Quote -> After(walk, 1, "normal", <<Quote>>)
    [] walk.state = "line" /\ text[i] = Newline -> After(walk, 1, "normal", <<Newline>>)
    [] walk.state = "line" /\ text[i] # Newline -> After(walk, 1, "line", <<>>)
    [] walk.state = "block" /\ PairAt(text, i, Star, Slash) -> After(walk, 2, "normal", <<Blank>>)
    [] walk.state = "block" /\ text[i] = Newline -> After(walk, 1, "block", <<Newline>>)
    [] walk.state = "block" /\ text[i] # Newline /\ ~PairAt(text, i, Star, Slash) -> After(walk, 1, "block", <<>>)
    [] OTHER -> After(walk, 1, walk.state, <<text[i]>>)

\* The walk after a number of turns; the loop ends with the text, and a turn reads
\* at least one character of it.
StripComments(text) ==
  LET walk[n \in 0 .. Len(text)] ==
        IF n = 0 THEN [index |-> 1, state |-> "normal", out |-> <<>>]
        ELSE LET before == walk[n - 1]
             IN  IF before.index > Len(text) THEN before ELSE Turn(text, before)
  IN  walk[Len(text)].out

-----------------------------------------------------------------------------
(* Texts as JSONC builds them, from tokens: each a text and what is left of *)
(* it. A line comment leaves its newline, a block comment its newlines and  *)
(* a blank, so that what it separates stays apart.                          *)

Plain(chars) == [text |-> chars, value |-> chars]

NewlinesIn(b) == Cardinality({i \in DOMAIN b : b[i] = Newline})

Newlines(n) == [i \in 1 .. n |-> Newline]

JsonString(b) == Plain(<<Quote>> \o b \o <<Quote>>)

LineComment(b) == [text |-> <<Slash, Slash>> \o b \o <<Newline>>, value |-> <<Newline>>]

BlockComment(b) ==
  [text |-> <<Slash, Star>> \o b \o <<Star, Slash>>, value |-> Newlines(NewlinesIn(b)) \o <<Blank>>]

\* A text may end within a comment.
OpenLine(b) == [text |-> <<Slash, Slash>> \o b, value |-> <<>>]

OpenBlock(b) == [text |-> <<Slash, Star>> \o b, value |-> Newlines(NewlinesIn(b))]

\* In a string some characters are escapes, each of the one that follows it; a
\* quote, or a backslash that is no escape, is always escaped.
IsStringBody(b) ==
  \E escapes \in SUBSET DOMAIN b :
    /\ \A i \in escapes : b[i] = Escape /\ i + 1 \in DOMAIN b \ escapes
    /\ \A i \in DOMAIN b \ escapes : b[i] \in {Quote, Escape} => i - 1 \in escapes

IsLineBody(b) == \A i \in DOMAIN b : b[i] # Newline

IsBlockBody(b) == \A i \in DOMAIN b : ~PairAt(b, i, Star, Slash)

\* What stands between the first m and the last n characters.
Between(text, m, n) == SubSeq(text, m + 1, Len(text) - n)

\* Any other character stands for itself.
IsToken(t) ==
  \/ \E c \in Characters \ {Quote, Slash} : t = Plain(<<c>>)
  \/ LET b == Between(t.text, 1, 1) IN t = JsonString(b) /\ IsStringBody(b)
  \/ LET b == Between(t.text, 2, 1) IN t = LineComment(b) /\ IsLineBody(b)
  \/ LET b == Between(t.text, 2, 2) IN t = BlockComment(b) /\ IsBlockBody(b)

IsTail(t) ==
  LET b == Between(t.text, 2, 0)
  IN  \/ t = OpenLine(b) /\ IsLineBody(b)
      \/ t = OpenBlock(b) /\ IsBlockBody(b)

IsJsonc(tokens) ==
  \A i \in DOMAIN tokens : IsToken(tokens[i]) \/ (i = Len(tokens) /\ IsTail(tokens[i]))

TextOf(tokens) == FlattenSeq([i \in DOMAIN tokens |-> tokens[i].text])

ValueOf(tokens) == FlattenSeq([i \in DOMAIN tokens |-> tokens[i].value])

=============================================================================
