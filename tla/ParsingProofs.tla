---------------------------- MODULE ParsingProofs ----------------------------
(***************************************************************************)
(* The two parsers of texts are right on inputs of any length. The comment *)
(* stripper of the configuration loader leaves of a text made of JSONC's   *)
(* tokens what the tokens say is left (CommentsAreStripped). A multipart   *)
(* form is read as the parts it was made of, unless it breaks off before   *)
(* its end (FormsAreRead).                                                 *)
(*                                                                         *)
(* Inductions are over sets: of numbers, or of the walks that satisfy what *)
(* is to be shown (SetInduction, LoopRule).                                *)
(***************************************************************************)
EXTENDS JsoncComments, MultipartForm, SequenceTheorems, FiniteSetTheorems, WellFoundedInduction, TLAPS

-----------------------------------------------------------------------------
(* Induction and recursion.                                                 *)

\* A set that has 0, and with a number the next, has all.
LEMMA SetInduction ==
  ASSUME NEW S, 0 \in S, \A n \in Nat : n \in S => n + 1 \in S
  PROVE  Nat \subseteq S
<1>. DEFINE others == Nat \ S
<1>1. SUFFICES ASSUME others # {} PROVE FALSE
  OBVIOUS
<1>2. PICK x \in others : \A y \in others : ~(<<y, x>> \in OpToRel(<, Nat))
  BY <1>1, NatLessThanWellFounded, WFMin
<1>3. x \in Nat /\ x # 0
  OBVIOUS
<1>4. x - 1 \in Nat /\ x - 1 < x /\ (x - 1) + 1 = x
  BY <1>3
<1>5. x - 1 \in S
  BY <1>2, <1>3, <1>4 DEF OpToRel
<1>. QED
  BY <1>4, <1>5

IsIteration(f, start, N, step) == f[0] = start /\ \A n \in 1 .. N : f[n] = step[n][f[n - 1]]

\* Steps in a set can be taken one after the other.
LEMMA Iteration ==
  ASSUME NEW S, NEW start \in S, NEW N \in Nat, NEW step \in [1 .. N -> [S -> S]]
  PROVE  \E f \in [0 .. N -> S] : IsIteration(f, start, N, step)
<1>. DEFINE Is(f, m) == IsIteration(f, start, m, step)
            lengths == {m \in Nat : m <= N => \E f \in [0 .. m -> S] : Is(f, m)}
<1>1. 0 \in lengths
  <2>1. [n \in 0 .. 0 |-> start] \in [0 .. 0 -> S] /\ Is([n \in 0 .. 0 |-> start], 0)
    BY DEF IsIteration
  <2>. QED
    BY <2>1
<1>2. ASSUME NEW m \in Nat, m \in lengths PROVE m + 1 \in lengths
  <2>. SUFFICES ASSUME m + 1 <= N PROVE \E f \in [0 .. m + 1 -> S] : Is(f, m + 1)
    OBVIOUS
  <2>1. PICK f \in [0 .. m -> S] : Is(f, m)
    BY <1>2
  <2>. DEFINE g == [n \in 0 .. m + 1 |-> IF n = m + 1 THEN step[n][f[m]] ELSE f[n]]
  <2>2. step[m + 1] \in [S -> S] /\ f[m] \in S
    OBVIOUS
  <2>3. g \in [0 .. m + 1 -> S]
    BY <2>2
  <2>4. Is(g, m + 1)
    <3>1. g[0] = start
      BY <2>1 DEF IsIteration
    <3>2. ASSUME NEW n \in 1 .. m + 1 PROVE g[n] = step[n][g[n - 1]]
      <4>1. n - 1 \in 0 .. m /\ g[n - 1] = f[n - 1]
        OBVIOUS
      <4>. QED
        BY <4>1, <2>1 DEF IsIteration
    <3>. QED
      BY <3>1, <3>2 DEF IsIteration
  <2>. QED
    BY <2>3, <2>4
<1>3. N \in lengths
  <2>. HIDE DEF lengths
  <2>. QED
    BY <1>1, <1>2, SetInduction
<1>. QED
  BY <1>3

\* The beginnings of what N sequences over S make, put together.
Builds(upto, parts, N, S) ==
  /\ upto \in [0 .. N -> Seq(S)] /\ upto[0] = <<>>
  /\ \A n \in 1 .. N : upto[n] = upto[n - 1] \o parts[n] /\ parts[n] \in Seq(S)

\* Sequences put together are the last of their beginnings.
LEMMA Flattening ==
  ASSUME NEW S, NEW seqs, NEW N \in Nat, Len(seqs) = N, \A n \in 1 .. N : seqs[n] \in Seq(S),
         N = 0 => seqs = <<>>
  PROVE  \E upto : Builds(upto, seqs, N, S) /\ FlattenSeq(seqs) = upto[N]
<1>. DEFINE step == [n \in 1 .. N |-> [s \in Seq(S) |-> s \o seqs[n]]]
<1>1. step \in [1 .. N -> [Seq(S) -> Seq(S)]]
  BY ConcatProperties
<1>2. PICK upto \in [0 .. N -> Seq(S)] : IsIteration(upto, <<>>, N, step)
  <2>1. <<>> \in Seq(S)
    OBVIOUS
  <2>. HIDE DEF step
  <2>. QED
    BY <1>1, <2>1, Iteration
<1>3. ASSUME NEW n \in 1 .. N PROVE upto[n] = upto[n - 1] \o seqs[n]
  <2>1. upto[n - 1] \in Seq(S)
    OBVIOUS
  <2>. QED
    BY <1>2, <2>1 DEF IsIteration
<1>. HIDE DEF step
<1>4. N = 0 => FlattenSeq(seqs) = upto[N]
  BY <1>2 DEF FlattenSeq, IsIteration
<1>5. ASSUME N # 0 PROVE FlattenSeq(seqs) = upto[N]
  <2>. DEFINE flatten == CHOOSE f : f = [i \in 1 .. N |-> IF i = 1 THEN seqs[i] ELSE f[i - 1] \o seqs[i]]
              f0 == [i \in 1 .. N |-> upto[i]]
              same == {i \in Nat : i + 1 <= N => flatten[i + 1] = upto[i + 1]}
  <2>1. FlattenSeq(seqs) = flatten[N]
    BY <1>5 DEF FlattenSeq
  <2>2. upto[1] = seqs[1]
    <3>1. 1 \in 1 .. N /\ 1 - 1 = 0 /\ seqs[1] \in Seq(S)
      BY <1>5
    <3>2. upto[1] = upto[0] \o seqs[1]
      BY <1>3, <3>1
    <3>3. <<>> \o seqs[1] = seqs[1]
      BY <3>1, ConcatEmptySeq
    <3>. QED
      BY <3>2, <3>3, <1>2 DEF IsIteration
  <2>3. f0 = [i \in 1 .. N |-> IF i = 1 THEN seqs[i] ELSE f0[i - 1] \o seqs[i]]
    <3>1. ASSUME NEW i \in 1 .. N PROVE upto[i] = IF i = 1 THEN seqs[i] ELSE f0[i - 1] \o seqs[i]
      <4>1. CASE i = 1
        BY <4>1, <2>2
      <4>2. CASE i # 1
        <5>1. i - 1 \in 1 .. N
          BY <4>2
        <5>. QED
          BY <4>2, <5>1, <1>3
      <4>. QED
        BY <4>1, <4>2
    <3>. QED
      BY <3>1
  <2>4. flatten = [i \in 1 .. N |-> IF i = 1 THEN seqs[i] ELSE flatten[i - 1] \o seqs[i]]
    BY <2>3
  <2>. HIDE DEF flatten
  <2>5. 0 \in same
    <3>1. 1 \in 1 .. N
      BY <1>5
    <3>2. flatten[1] = seqs[1]
      BY <2>4, <3>1
    <3>. QED
      BY <2>2, <3>2
  <2>6. ASSUME NEW n \in Nat, n \in same PROVE n + 1 \in same
    <3>. SUFFICES ASSUME (n + 1) + 1 <= N PROVE flatten[(n + 1) + 1] = upto[(n + 1) + 1]
      OBVIOUS
    <3>1. (n + 1) + 1 \in 1 .. N /\ n + 1 <= N /\ (n + 1) + 1 # 1 /\ ((n + 1) + 1) - 1 = n + 1
      OBVIOUS
    <3>2. flatten[n + 1] = upto[n + 1]
      BY <2>6, <3>1
    <3>3. flatten[(n + 1) + 1] = flatten[n + 1] \o seqs[(n + 1) + 1]
      BY <3>1, <2>4
    <3>. QED
      BY <3>1, <3>2, <3>3, <1>3
  <2>7. Nat \subseteq same
    <3>. HIDE DEF same
    <3>. QED
      BY <2>5, <2>6, SetInduction
  <2>8. N - 1 \in Nat /\ (N - 1) + 1 = N
    BY <1>5
  <2>9. N - 1 \in same
    BY <2>7, <2>8
  <2>10. flatten[N] = upto[N]
    BY <2>8, <2>9
  <2>. QED
    BY <2>1, <2>10
<1>6. upto[0] = <<>>
  BY <1>2 DEF IsIteration
<1>7. \A n \in 1 .. N : seqs[n] \in Seq(S)
  OBVIOUS
<1>8. Builds(upto, seqs, N, S)
  BY ONLY <1>2, <1>3, <1>6, <1>7 DEF Builds
<1>. QED
  BY ONLY <1>4, <1>5, <1>8

\* w is a, of m elements, and behind it b, of n.
IsJoin(w, a, m, b, n) ==
  /\ Len(w) = m + n
  /\ \A i \in 1 .. m : w[i] = a[i]
  /\ \A i \in 1 .. n : w[m + i] = b[i]

\* A sequence behind another: where the elements of both are.
LEMMA Joined ==
  ASSUME NEW S, NEW a \in Seq(S), NEW b \in Seq(S)
  PROVE  a \o b \in Seq(S) /\ IsJoin(a \o b, a, Len(a), b, Len(b))
<1>. DEFINE w == a \o b
            m == Len(a)
            n == Len(b)
<1>1. w \in Seq(S) /\ Len(w) = m + n /\ (\A i \in 1 .. m + n : w[i] = IF i <= m THEN a[i] ELSE b[i - m])
  BY ConcatProperties
<1>2. m \in Nat /\ n \in Nat
  OBVIOUS
<1>. HIDE DEF w, m, n
<1>3. ASSUME NEW i \in 1 .. m PROVE w[i] = a[i]
  <2>1. i \in 1 .. m + n /\ i <= m
    BY <1>2
  <2>. QED
    BY ONLY <1>1, <2>1
<1>4. ASSUME NEW j \in 1 .. n PROVE w[m + j] = b[j]
  <2>1. m + j \in 1 .. m + n /\ ~(m + j <= m) /\ (m + j) - m = j
    BY <1>2
  <2>. QED
    BY ONLY <1>1, <2>1
<1>5. w \in Seq(S) /\ IsJoin(w, a, m, b, n)
  BY <1>1, <1>3, <1>4 DEF IsJoin
<1>. QED
  BY ONLY <1>5 DEF w, m, n

\* a is a beginning of b, both over S.
IsBeginning(a, b, S) ==
  /\ a \in Seq(S) /\ b \in Seq(S)
  /\ Len(a) <= Len(b)
  /\ \A j \in 1 .. Len(a) : b[j] = a[j]

\* What is put behind a text keeps its beginnings.
LEMMA BeginningGrows ==
  ASSUME NEW S, NEW a, NEW b, IsBeginning(a, b, S), NEW c \in Seq(S)
  PROVE  IsBeginning(a, b \o c, S)
<1>. DEFINE d == b \o c
            l == Len(a)
            m == Len(b)
<1>1. a \in Seq(S) /\ b \in Seq(S) /\ l <= m /\ \A j \in 1 .. l : b[j] = a[j]
  BY DEF IsBeginning
<1>2. d \in Seq(S) /\ IsJoin(d, b, m, c, Len(c))
  BY <1>1, Joined
<1>3. l \in Nat /\ m \in Nat /\ Len(c) \in Nat
  BY <1>1
<1>. HIDE DEF d, l, m
<1>4. Len(d) = m + Len(c) /\ \A j \in 1 .. m : d[j] = b[j]
  BY ONLY <1>2 DEF IsJoin
<1>5. ASSUME NEW j \in 1 .. l PROVE d[j] = a[j]
  <2>1. j \in 1 .. m
    BY ONLY <1>1, <1>3, j \in 1 .. l
  <2>. QED
    BY ONLY <1>1, <1>4, <2>1, j \in 1 .. l
<1>6. l <= Len(d)
  BY ONLY <1>1, <1>3, <1>4
<1>. QED
  BY ONLY <1>1, <1>2, <1>5, <1>6 DEF IsBeginning, d, l

\* What the first parts make is the beginning of the whole.
LEMMA BeginningsOfWhole ==
  ASSUME NEW S, NEW N \in Nat, NEW upto, NEW parts, Builds(upto, parts, N, S), NEW k \in 0 .. N
  PROVE  IsBeginning(upto[k], upto[N], S)
<1>. DEFINE good == {m \in Nat : m <= N => \A i \in 0 .. m : IsBeginning(upto[i], upto[m], S)}
<1>1. ASSUME NEW i \in 0 .. N PROVE IsBeginning(upto[i], upto[i], S)
  <2>1. upto[i] \in Seq(S)
    BY DEF Builds
  <2>. QED
    BY <2>1 DEF IsBeginning
<1>2. 0 \in good
  <2>1. 0 \in 0 .. N /\ 0 .. 0 = {0}
    OBVIOUS
  <2>. QED
    BY <2>1, <1>1
<1>3. ASSUME NEW m \in Nat, m \in good PROVE m + 1 \in good
  <2>. SUFFICES ASSUME m + 1 <= N, NEW i \in 0 .. m + 1 PROVE IsBeginning(upto[i], upto[m + 1], S)
    OBVIOUS
  <2>1. CASE i = m + 1
    BY <1>1, <2>1
  <2>2. CASE i # m + 1
    <3>1. i \in 0 .. m /\ m <= N /\ m + 1 \in 1 .. N /\ (m + 1) - 1 = m
      BY <2>2
    <3>2. IsBeginning(upto[i], upto[m], S)
      BY <1>3, <3>1
    <3>3. upto[m + 1] = upto[m] \o parts[m + 1] /\ parts[m + 1] \in Seq(S)
      <4>1. upto[m + 1] = upto[(m + 1) - 1] \o parts[m + 1] /\ parts[m + 1] \in Seq(S)
        BY ONLY <3>1, Builds(upto, parts, N, S) DEF Builds
      <4>. QED
        BY ONLY <3>1, <4>1
    <3>. QED
      BY ONLY <3>2, <3>3, BeginningGrows
  <2>. QED
    BY <2>1, <2>2
<1>4. Nat \subseteq good
  <2>. HIDE DEF good
  <2>. QED
    BY <1>2, <1>3, SetInduction
<1>. QED
  BY <1>4

\* A part stands in the whole behind so many elements.
StandsAt(part, whole, base, S) ==
  /\ base \in Nat /\ whole \in Seq(S) /\ part \in Seq(S)
  /\ base + Len(part) <= Len(whole)
  /\ \A j \in 1 .. Len(part) : whole[base + j] = part[j]

\* The k-th part stands in the whole between the beginnings of k - 1 and of k parts.
StandsBetween(upto, parts, N, S, k) ==
  /\ StandsAt(parts[k], upto[N], Len(upto[k - 1]), S)
  /\ Len(upto[k - 1]) + Len(parts[k]) = Len(upto[k])

\* The parts stand in the whole one after the other.
LEMMA PartsStand ==
  ASSUME NEW S, NEW N \in Nat, NEW upto, NEW parts, Builds(upto, parts, N, S), NEW k \in 1 .. N
  PROVE  StandsBetween(upto, parts, N, S, k)
<1>. DEFINE a == upto[k - 1]
            b == upto[k]
            x == parts[k]
            text == upto[N]
            base == Len(a)
<1>1. b = a \o x /\ a \in Seq(S) /\ x \in Seq(S)
  <2>1. k - 1 \in 0 .. N
    OBVIOUS
  <2>. QED
    BY ONLY <2>1, k \in 1 .. N, Builds(upto, parts, N, S) DEF Builds
<1>2. IsBeginning(b, text, S)
  <2>1. k \in 0 .. N
    OBVIOUS
  <2>. QED
    BY ONLY <2>1, N \in Nat, Builds(upto, parts, N, S), BeginningsOfWhole
<1>. HIDE DEF a, b, x, text
<1>3. base \in Nat /\ Len(x) \in Nat
  BY <1>1
<1>4. IsJoin(b, a, base, x, Len(x))
  BY ONLY <1>1, Joined
<1>. HIDE DEF base
<1>5. Len(b) = base + Len(x) /\ \A j \in 1 .. Len(x) : b[base + j] = x[j]
  BY ONLY <1>4 DEF IsJoin
<1>6. text \in Seq(S) /\ Len(b) <= Len(text) /\ \A j \in 1 .. Len(b) : text[j] = b[j]
  BY ONLY <1>2 DEF IsBeginning
<1>7. ASSUME NEW j \in 1 .. Len(x) PROVE text[base + j] = x[j]
  <2>. DEFINE i == base + j
  <2>1. i \in 1 .. Len(b)
    BY ONLY <1>3, <1>5, j \in 1 .. Len(x)
  <2>2. b[i] = x[j]
    BY ONLY <1>5, j \in 1 .. Len(x)
  <2>. HIDE DEF i
  <2>3. text[i] = b[i]
    BY ONLY <1>6, <2>1
  <2>. QED
    BY ONLY <2>2, <2>3 DEF i
<1>. QED
  <2>1. StandsAt(x, text, base, S) /\ base + Len(x) = Len(b)
    BY ONLY <1>1, <1>3, <1>5, <1>6, <1>7 DEF StandsAt
  <2>. QED
    BY ONLY <2>1 DEF a, b, x, base, text, StandsBetween

-----------------------------------------------------------------------------
(* The walk of the comment stripper.                                        *)

States == {"normal", "string", "line", "block"}

Walks == [index : Nat \ {0}, state : States, out : Seq(Characters)]

StartOfWalk == [index |-> 1, state |-> "normal", out |-> <<>>]

\* The characters that begin, end or escape something are told apart.
LEMMA MarkersDiffer ==
  /\ Quote # Escape /\ Quote # Slash /\ Quote # Newline /\ Slash # Star /\ Star # Newline
  /\ Slash # Newline /\ Escape # Newline /\ Quote # Star
  /\ {Quote, Escape, Slash, Star, Newline, Blank} \subseteq Characters
  BY DEF Quote, Escape, Slash, Star, Newline, Blank, Characters

\* The turns, by state and by what is read.
LEMMA NormalTurns ==
  ASSUME NEW text, NEW w, w.state = "normal"
  PROVE  LET i == w.index
         IN  /\ text[i] = Quote => Turn(text, w) = After(w, 1, "string", <<Quote>>)
             /\ PairAt(text, i, Slash, Slash) => Turn(text, w) = After(w, 2, "line", <<>>)
             /\ PairAt(text, i, Slash, Star) => Turn(text, w) = After(w, 2, "block", <<>>)
             /\ text[i] # Quote /\ ~PairAt(text, i, Slash, Slash) /\ ~PairAt(text, i, Slash, Star) =>
                  Turn(text, w) = After(w, 1, "normal", <<text[i]>>)
  BY MarkersDiffer DEF Turn, PairAt

\* The turns in a string.
LEMMA StringTurns ==
  ASSUME NEW text, NEW w, w.state = "string"
  PROVE  LET i == w.index
         IN  /\ text[i] = Escape /\ i < Len(text) => Turn(text, w) = After(w, 2, "string", <<Escape, text[i + 1]>>)
             /\ text[i] = Quote => Turn(text, w) = After(w, 1, "normal", <<Quote>>)
             /\ text[i] # Quote /\ ~(text[i] = Escape /\ i < Len(text)) =>
                  Turn(text, w) = After(w, 1, "string", <<text[i]>>)
  BY MarkersDiffer DEF Turn

\* The turns in a line comment.
LEMMA LineTurns ==
  ASSUME NEW text, NEW w, w.state = "line"
  PROVE  LET i == w.index
         IN  /\ text[i] = Newline => Turn(text, w) = After(w, 1, "normal", <<Newline>>)
             /\ text[i] # Newline => Turn(text, w) = After(w, 1, "line", <<>>)
  BY DEF Turn

\* The turns in a block comment.
LEMMA BlockTurns ==
  ASSUME NEW text, NEW w, w.state = "block"
  PROVE  LET i == w.index
         IN  /\ PairAt(text, i, Star, Slash) => Turn(text, w) = After(w, 2, "normal", <<Blank>>)
             /\ text[i] = Newline => Turn(text, w) = After(w, 1, "block", <<Newline>>)
             /\ text[i] # Newline /\ ~PairAt(text, i, Star, Slash) => Turn(text, w) = After(w, 1, "block", <<>>)
  BY MarkersDiffer DEF Turn, PairAt

\* A turn keeps the types and reads on.
LEMMA TurnReadsOn ==
  ASSUME NEW text \in Seq(Characters), NEW w \in Walks, w.index <= Len(text)
  PROVE  Turn(text, w) \in Walks /\ Turn(text, w).index > w.index
<1>1. ASSUME NEW read \in {1, 2}, NEW state \in States, NEW out \in Seq(Characters)
      PROVE  After(w, read, state, out) \in Walks /\ After(w, read, state, out).index > w.index
  <2>1. w.index \in Nat /\ w.out \in Seq(Characters) /\ w.out \o out \in Seq(Characters)
    BY ConcatProperties DEF Walks
  <2>. QED
    BY <2>1 DEF After, Walks
<1>2. text[w.index] \in Characters /\ w.state \in States
  BY DEF Walks
<1>3. w.index < Len(text) => text[w.index + 1] \in Characters
  BY DEF Walks
<1>4. /\ <<>> \in Seq(Characters) /\ <<Quote>> \in Seq(Characters) /\ <<Newline>> \in Seq(Characters)
      /\ <<Blank>> \in Seq(Characters) /\ <<text[w.index]>> \in Seq(Characters)
      /\ w.index < Len(text) => <<Escape, text[w.index + 1]>> \in Seq(Characters)
  BY <1>2, <1>3, MarkersDiffer
<1>5. \E read \in {1, 2}, state \in States, out \in Seq(Characters) : Turn(text, w) = After(w, read, state, out)
  <2>. DEFINE i == w.index
  <2>1. CASE w.state = "normal"
    BY <2>1, <1>4, NormalTurns DEF States
  <2>2. CASE w.state = "string"
    BY <2>2, <1>4, StringTurns DEF States
  <2>3. CASE w.state = "line"
    BY <2>3, <1>4, LineTurns DEF States
  <2>4. CASE w.state = "block"
    BY <2>4, <1>4, BlockTurns DEF States
  <2>. QED
    BY <1>2, <2>1, <2>2, <2>3, <2>4 DEF States
<1>. QED
  BY <1>1, <1>5

\* What holds at the start and through every turn holds at the end of the text.
LEMMA LoopRule ==
  ASSUME NEW text \in Seq(Characters), NEW Kept, StartOfWalk \in Kept,
         \A w \in Walks \cap Kept : w.index <= Len(text) => Turn(text, w) \in Kept
  PROVE  \E w \in Walks \cap Kept : w.index > Len(text) /\ StripComments(text) = w.out
<1>. DEFINE N == Len(text)
            Next(w) == IF w.index > N THEN w ELSE Turn(text, w)
            step == [n \in 1 .. N |-> [w \in Walks |-> Next(w)]]
            Is(f) == f = [n \in 0 .. N |-> IF n = 0 THEN StartOfWalk ELSE LET before == f[n - 1] IN Next(before)]
            walk == CHOOSE f : Is(f)
<1>1. N \in Nat
  OBVIOUS
<1>2. StripComments(text) = walk[N].out
  BY DEF StripComments, StartOfWalk
<1>3. \A w \in Walks : Next(w) \in Walks
  BY TurnReadsOn DEF Walks
<1>4. StartOfWalk \in Walks
  BY DEF StartOfWalk, Walks, States
<1>. HIDE DEF N
<1>5. \E f : Is(f)
  <2>1. step \in [1 .. N -> [Walks -> Walks]]
    BY <1>3
  <2>2. PICK f \in [0 .. N -> Walks] : IsIteration(f, StartOfWalk, N, step)
    <3>. HIDE DEF step
    <3>. QED
      BY <1>1, <1>4, <2>1, Iteration
  <2>3. ASSUME NEW n \in 1 .. N PROVE f[n] = Next(f[n - 1])
    <3>1. f[n - 1] \in Walks
      BY <1>1
    <3>2. f[n] = step[n][f[n - 1]]
      BY <2>2 DEF IsIteration
    <3>. HIDE DEF Next
    <3>. QED
      BY <3>1, <3>2
  <2>4. f[0] = StartOfWalk
    BY <2>2 DEF IsIteration
  <2>. HIDE DEF Next
  <2>5. Is(f)
    BY <1>1, <2>3, <2>4
  <2>. QED
    BY <2>5
<1>6. Is(walk)
  <2>. HIDE DEF Is
  <2>. QED
    BY <1>5
<1>. HIDE DEF walk
<1>. DEFINE reached == {n \in Nat : n <= N => walk[n] \in Walks \cap Kept /\ walk[n].index > n}
<1>7. 0 \in reached
  BY <1>1, <1>4, <1>6 DEF StartOfWalk
<1>8. ASSUME NEW n \in Nat, n \in reached PROVE n + 1 \in reached
  <2>. SUFFICES ASSUME n + 1 <= N PROVE walk[n + 1] \in Walks \cap Kept /\ walk[n + 1].index > n + 1
    OBVIOUS
  <2>1. walk[n] \in Walks \cap Kept /\ walk[n].index > n /\ walk[n].index \in Nat
    BY <1>1, <1>8 DEF Walks
  <2>2. n + 1 \in 0 .. N /\ n + 1 # 0 /\ (n + 1) - 1 = n
    BY <1>1
  <2>3. walk[n + 1] = Next(walk[n])
    <3>. HIDE DEF Next
    <3>. QED
      BY <1>6, <2>2
  <2>4. CASE walk[n].index > N
    BY <2>1, <2>3, <2>4, <1>1
  <2>5. CASE walk[n].index <= N
    <3>1. walk[n + 1] = Turn(text, walk[n])
      BY <2>1, <2>3, <2>5, <1>1
    <3>2. Turn(text, walk[n]) \in Walks /\ Turn(text, walk[n]).index > walk[n].index
      BY <2>1, <2>5, TurnReadsOn DEF N
    <3>3. Turn(text, walk[n]) \in Kept
      BY <2>1, <2>5 DEF N
    <3>4. Turn(text, walk[n]).index \in Nat
      BY <3>2 DEF Walks
    <3>. QED
      BY <2>1, <3>1, <3>2, <3>3, <3>4
  <2>. QED
    BY <2>1, <2>4, <2>5, <1>1
<1>9. N \in reached
  <2>. HIDE DEF reached
  <2>. QED
    BY <1>1, <1>7, <1>8, SetInduction
<1>10. walk[N] \in Walks \cap Kept /\ walk[N].index > N
  BY <1>1, <1>9
<1>. QED
  BY <1>2, <1>10 DEF N

\* The token t stands in the text after base characters.
IsPlaced(t, text, base) ==
  /\ text \in Seq(Characters) /\ base \in Nat
  /\ t.text \in Seq(Characters) /\ t.value \in Seq(Characters)
  /\ base + Len(t.text) <= Len(text)
  /\ \A j \in 1 .. Len(t.text) : text[base + j] = t.text[j]

\* The walk after n characters, with what it has put out.
Walk(n, state, out) == [index |-> n + 1, state |-> state, out |-> out]

\* Walks that are within t, from its beginning on, and come out behind it.
ReadsThrough(walks, t, text, base, v) ==
  /\ Walk(base, "normal", v) \in walks
  /\ \A w \in walks :
       /\ w.index <= Len(text)
       /\ Turn(text, w) \in walks \cup {Walk(base + Len(t.text), "normal", v \o t.value)}

\* Walks that are within t and end with the text.
ReadsToEnd(walks, t, text, base, v) ==
  /\ Walk(base, "normal", v) \in walks
  /\ \A w \in walks :
       IF w.index <= Len(text) THEN Turn(text, w) \in walks ELSE w.out = v \o t.value

\* Where a walk is after it has read on.
LEMMA WalkAfter ==
  ASSUME NEW n \in Nat, NEW state, NEW v, NEW read \in Nat, NEW next, NEW out
  PROVE  After(Walk(n, state, v), read, next, out) = Walk(n + read, next, v \o out)
<1>1. (n + 1) + read = (n + read) + 1
  OBVIOUS
<1>. QED
  BY <1>1 DEF After, Walk

\* One or two more characters of x put out.
LEMMA OneMore ==
  ASSUME NEW S, NEW x \in Seq(S), NEW v \in Seq(S), NEW j \in Nat, j + 1 <= Len(x)
  PROVE  (v \o SubSeq(x, 1, j)) \o <<x[j + 1]>> = v \o SubSeq(x, 1, j + 1)
<1>. DEFINE a == SubSeq(x, 1, j)
            c == <<x[j + 1]>>
<1>1. SubSeq(x, 1, j + 1) = a \o c
  <2>1. 1 \in 1 .. Len(x) /\ j + 1 \in 1 .. Len(x) /\ (j + 1) - 1 = j /\ j + 1 \in 1 .. Len(x)
    OBVIOUS
  <2>. QED
    BY ONLY <2>1, x \in Seq(S), SubSeqRecursiveSecond
<1>2. a \in Seq(S) /\ c \in Seq(S)
  <2>1. \A i \in 1 .. j : x[i] \in S
    OBVIOUS
  <2>2. x[j + 1] \in S
    OBVIOUS
  <2>. QED
    BY <2>1, <2>2, SubSeqProperties
<1>. HIDE DEF a, c
<1>3. (v \o a) \o c = v \o (a \o c)
  BY <1>2, ConcatAssociative
<1>. QED
  BY <1>1, <1>3 DEF a, c

\* Two characters are one and one.
LEMMA OneAndOne ==
  ASSUME NEW S, NEW d \in S, NEW e \in S
  PROVE  <<d, e>> = <<d>> \o <<e>>
<1>1. <<d, e>> \in Seq(S) /\ <<d>> \in Seq(S) /\ <<e>> \in Seq(S)
  OBVIOUS
<1>2. /\ <<d>> \o <<e>> \in Seq(S) /\ Len(<<d>> \o <<e>>) = 2
      /\ (<<d>> \o <<e>>)[1] = d /\ (<<d>> \o <<e>>)[2] = e
  BY <1>1, ConcatProperties
<1>. DEFINE p == <<d>> \o <<e>>
<1>. HIDE DEF p
<1>3. p \in Seq(S) /\ Len(p) = 2 /\ p[1] = d /\ p[2] = e
  BY <1>2 DEF p
<1>4. p = <<d, e>>
  BY <1>1, <1>3
<1>. QED
  BY <1>4 DEF p

\* Two more characters.
LEMMA TwoMore ==
  ASSUME NEW S, NEW x \in Seq(S), NEW v \in Seq(S), NEW j \in Nat, j + 2 <= Len(x)
  PROVE  (v \o SubSeq(x, 1, j)) \o <<x[j + 1], x[j + 2]>> = v \o SubSeq(x, 1, j + 2)
<1>. DEFINE u == v \o SubSeq(x, 1, j)
            d == x[j + 1]
            e == x[j + 2]
<1>1. u \in Seq(S) /\ d \in S /\ e \in S
  <2>1. SubSeq(x, 1, j) \in Seq(S)
    <3>1. \A i \in 1 .. j : x[i] \in S
      OBVIOUS
    <3>. QED
      BY <3>1, SubSeqProperties
  <2>. QED
    BY <2>1, ConcatProperties
<1>2. u \o <<d>> = v \o SubSeq(x, 1, j + 1)
  <2>1. j + 1 <= Len(x)
    OBVIOUS
  <2>. QED
    BY <2>1, OneMore
<1>3. (v \o SubSeq(x, 1, j + 1)) \o <<e>> = v \o SubSeq(x, 1, j + 2)
  <2>1. j + 1 \in Nat /\ (j + 1) + 1 = j + 2
    OBVIOUS
  <2>. QED
    BY <2>1, OneMore
<1>. HIDE DEF u, d, e
<1>4. u \o <<d, e>> = (u \o <<d>>) \o <<e>>
  <2>1. <<d, e>> = <<d>> \o <<e>>
    BY <1>1, OneAndOne
  <2>2. <<d>> \in Seq(S) /\ <<e>> \in Seq(S)
    BY <1>1
  <2>3. (u \o <<d>>) \o <<e>> = u \o (<<d>> \o <<e>>)
    BY ONLY <2>2, <1>1, ConcatAssociative
  <2>. QED
    BY <2>1, <2>3
<1>. QED
  BY <1>2, <1>3, <1>4 DEF u, d, e

\* The turns of a walk that has read n characters.
LEMMA TurnsInText ==
  ASSUME NEW text, NEW n \in Nat, NEW v \in Seq(Characters)
  PROVE  /\ n + 1 < Len(text) /\ text[n + 1] = Slash /\ text[n + 2] = Slash =>
              Turn(text, Walk(n, "normal", v)) = Walk(n + 2, "line", v)
         /\ n + 1 < Len(text) /\ text[n + 1] = Slash /\ text[n + 2] = Star =>
              Turn(text, Walk(n, "normal", v)) = Walk(n + 2, "block", v)
         /\ text[n + 1] = Quote => Turn(text, Walk(n, "normal", v)) = Walk(n + 1, "string", v \o <<Quote>>)
         /\ text[n + 1] \notin {Quote, Slash} =>
              Turn(text, Walk(n, "normal", v)) = Walk(n + 1, "normal", v \o <<text[n + 1]>>)
<1>. DEFINE w == Walk(n, "normal", v)
<1>1. w.state = "normal" /\ w.index = n + 1 /\ (n + 1) + 1 = n + 2
  BY DEF Walk
<1>2. ASSUME NEW read \in Nat, NEW next, NEW out PROVE After(w, read, next, out) = Walk(n + read, next, v \o out)
  BY WalkAfter
<1>. HIDE DEF w
<1>3. ASSUME n + 1 < Len(text), text[n + 1] = Slash, text[n + 2] = Slash PROVE Turn(text, w) = After(w, 2, "line", <<>>)
  BY <1>1, <1>3, NormalTurns DEF PairAt
<1>4. ASSUME n + 1 < Len(text), text[n + 1] = Slash, text[n + 2] = Star PROVE Turn(text, w) = After(w, 2, "block", <<>>)
  BY <1>1, <1>4, NormalTurns DEF PairAt
<1>5. ASSUME text[n + 1] = Quote PROVE Turn(text, w) = After(w, 1, "string", <<Quote>>)
  BY <1>1, <1>5, NormalTurns
<1>6. ASSUME text[n + 1] \notin {Quote, Slash} PROVE Turn(text, w) = After(w, 1, "normal", <<text[n + 1]>>)
  BY <1>1, <1>6, NormalTurns DEF PairAt
<1>7. v \o <<>> = v
  BY ConcatEmptySeq
<1>8. After(w, 2, "line", <<>>) = Walk(n + 2, "line", v) /\ After(w, 2, "block", <<>>) = Walk(n + 2, "block", v)
  BY <1>2, <1>7
<1>. QED
  BY <1>8, <1>2, <1>3, <1>4, <1>5, <1>6 DEF w

\* The turns of a walk within a string.
LEMMA TurnsInString ==
  ASSUME NEW text, NEW n \in Nat, NEW v \in Seq(Characters)
  PROVE  /\ text[n + 1] = Quote => Turn(text, Walk(n, "string", v)) = Walk(n + 1, "normal", v \o <<Quote>>)
         /\ text[n + 1] = Escape /\ n + 1 < Len(text) =>
              Turn(text, Walk(n, "string", v)) = Walk(n + 2, "string", v \o <<Escape, text[n + 2]>>)
         /\ text[n + 1] \notin {Quote, Escape} =>
              Turn(text, Walk(n, "string", v)) = Walk(n + 1, "string", v \o <<text[n + 1]>>)
<1>. DEFINE w == Walk(n, "string", v)
<1>1. w.state = "string" /\ w.index = n + 1 /\ (n + 1) + 1 = n + 2
  BY DEF Walk
<1>2. ASSUME NEW read \in Nat, NEW next, NEW out PROVE After(w, read, next, out) = Walk(n + read, next, v \o out)
  BY WalkAfter
<1>. HIDE DEF w
<1>3. ASSUME text[n + 1] = Quote PROVE Turn(text, w) = After(w, 1, "normal", <<Quote>>)
  BY <1>1, <1>3, StringTurns
<1>4. ASSUME text[n + 1] = Escape, n + 1 < Len(text)
      PROVE  Turn(text, w) = After(w, 2, "string", <<Escape, text[n + 2]>>)
  BY <1>1, <1>4, StringTurns
<1>5. ASSUME text[n + 1] \notin {Quote, Escape} PROVE Turn(text, w) = After(w, 1, "string", <<text[n + 1]>>)
  BY <1>1, <1>5, StringTurns
<1>. QED
  BY <1>2, <1>3, <1>4, <1>5 DEF w

\* The turns of a walk within a line comment.
LEMMA TurnsInLine ==
  ASSUME NEW text, NEW n \in Nat, NEW v \in Seq(Characters)
  PROVE  /\ text[n + 1] = Newline => Turn(text, Walk(n, "line", v)) = Walk(n + 1, "normal", v \o <<Newline>>)
         /\ text[n + 1] # Newline => Turn(text, Walk(n, "line", v)) = Walk(n + 1, "line", v)
<1>. DEFINE w == Walk(n, "line", v)
<1>1. w.state = "line" /\ w.index = n + 1
  BY DEF Walk
<1>2. ASSUME NEW read \in Nat, NEW next, NEW out PROVE After(w, read, next, out) = Walk(n + read, next, v \o out)
  BY WalkAfter
<1>. HIDE DEF w
<1>3. /\ text[n + 1] = Newline => Turn(text, w) = After(w, 1, "normal", <<Newline>>)
      /\ text[n + 1] # Newline => Turn(text, w) = After(w, 1, "line", <<>>)
  BY <1>1, LineTurns
<1>4. v \o <<>> = v
  BY ConcatEmptySeq
<1>5. After(w, 1, "line", <<>>) = Walk(n + 1, "line", v)
  BY <1>2, <1>4
<1>. QED
  BY <1>2, <1>3, <1>5 DEF w

\* The turns of a walk within a block comment.
LEMMA TurnsInBlock ==
  ASSUME NEW text, NEW n \in Nat, NEW v \in Seq(Characters)
  PROVE  /\ n + 1 < Len(text) /\ text[n + 1] = Star /\ text[n + 2] = Slash =>
              Turn(text, Walk(n, "block", v)) = Walk(n + 2, "normal", v \o <<Blank>>)
         /\ text[n + 1] = Newline => Turn(text, Walk(n, "block", v)) = Walk(n + 1, "block", v \o <<Newline>>)
         /\ text[n + 1] # Newline /\ ~(n + 1 < Len(text) /\ text[n + 1] = Star /\ text[n + 2] = Slash) =>
              Turn(text, Walk(n, "block", v)) = Walk(n + 1, "block", v)
<1>. DEFINE w == Walk(n, "block", v)
<1>1. w.state = "block" /\ w.index = n + 1 /\ (n + 1) + 1 = n + 2
  BY DEF Walk
<1>2. ASSUME NEW read \in Nat, NEW next, NEW out PROVE After(w, read, next, out) = Walk(n + read, next, v \o out)
  BY WalkAfter
<1>. HIDE DEF w
<1>3. /\ n + 1 < Len(text) /\ text[n + 1] = Star /\ text[n + 2] = Slash =>
           Turn(text, w) = After(w, 2, "normal", <<Blank>>)
      /\ text[n + 1] = Newline => Turn(text, w) = After(w, 1, "block", <<Newline>>)
      /\ text[n + 1] # Newline /\ ~(n + 1 < Len(text) /\ text[n + 1] = Star /\ text[n + 2] = Slash) =>
           Turn(text, w) = After(w, 1, "block", <<>>)
  BY <1>1, BlockTurns DEF PairAt
<1>4. v \o <<>> = v
  BY ConcatEmptySeq
<1>5. After(w, 1, "block", <<>>) = Walk(n + 1, "block", v)
  BY <1>2, <1>4
<1>. QED
  BY <1>2, <1>3, <1>5 DEF w

\* A walk through any other character: what the stripper copies.
LEMMA PlainIsRead ==
  ASSUME NEW text \in Seq(Characters), NEW base \in Nat, NEW v \in Seq(Characters), NEW t, IsPlaced(t, text, base),
         NEW c \in Characters \ {Quote, Slash}, t = Plain(<<c>>)
  PROVE  \E walks : ReadsThrough(walks, t, text, base, v)
<1>1. t.text = <<c>> /\ t.value = <<c>> /\ Len(t.text) = 1 /\ t.text[1] = c
  BY DEF Plain
<1>2. base + 1 <= Len(text) /\ text[base + 1] = c
  BY <1>1 DEF IsPlaced
<1>3. Turn(text, Walk(base, "normal", v)) = Walk(base + 1, "normal", v \o <<c>>)
  BY <1>2, TurnsInText
<1>4. ReadsThrough({Walk(base, "normal", v)}, t, text, base, v)
  <2>1. Walk(base, "normal", v).index = base + 1
    BY DEF Walk
  <2>. QED
    BY <2>1, <1>1, <1>2, <1>3 DEF ReadsThrough
<1>. QED
  BY <1>4

\* What g puts out for the first characters of x.
Copies(g, x, n) ==
  /\ \A j \in 0 .. n - 1 : g[j + 1] = g[j] \o <<x[j + 1]>>
  /\ \A j \in 0 .. n - 2 : g[j + 2] = g[j] \o <<x[j + 1], x[j + 2]>>

\* The characters of x stand in the text after base characters.
Stands(x, n, text, base) == \A j \in 1 .. n : text[base + j] = x[j]

\* The string x of n characters between its quotes, escaped as JSON wants it.
IsEscapedBy(x, n, escapes) ==
  /\ x[1] = Quote /\ x[n + 2] = Quote
  /\ \A i \in escapes : i \in 1 .. n - 1 /\ x[i + 1] = Escape /\ i + 1 \notin escapes
  /\ \A i \in 1 .. n : i \notin escapes /\ i - 1 \notin escapes => x[i + 1] \notin {Quote, Escape}

\* What is put out of x, character by character or two at once, comes to x.
LEMMA Copying ==
  ASSUME NEW S, NEW x \in Seq(S), NEW v \in Seq(S), NEW N \in Nat, Len(x) = N
  PROVE  \E g \in [0 .. N -> Seq(S)] :
           g[0] = v /\ g[N] = v \o x /\ Copies(g, x, N)
<1>. DEFINE G(j) == v \o SubSeq(x, 1, j)
            g == [j \in 0 .. N |-> G(j)]
<1>1. ASSUME NEW j \in 0 .. N PROVE G(j) \in Seq(S)
  <2>1. \A i \in 1 .. j : x[i] \in S
    OBVIOUS
  <2>2. SubSeq(x, 1, j) \in Seq(S)
    BY <2>1, SubSeqProperties
  <2>. QED
    BY <2>2, ConcatProperties
<1>2. G(0) = v
  <2>1. SubSeq(x, 1, 0) = <<>>
    BY SubSeqEmpty
  <2>2. v \o <<>> = v
    BY ConcatEmptySeq
  <2>. QED
    BY <2>1, <2>2
<1>3. G(N) = v \o x
  BY SubSeqFull
<1>4. ASSUME NEW j \in 0 .. N - 1 PROVE G(j + 1) = G(j) \o <<x[j + 1]>>
  <2>1. j \in Nat /\ j + 1 <= Len(x)
    OBVIOUS
  <2>. QED
    BY <2>1, OneMore
<1>5. ASSUME NEW j \in 0 .. N - 2 PROVE G(j + 2) = G(j) \o <<x[j + 1], x[j + 2]>>
  <2>1. j \in Nat /\ j + 2 <= Len(x)
    OBVIOUS
  <2>. QED
    BY <2>1, TwoMore
<1>. HIDE DEF G
<1>6. /\ g \in [0 .. N -> Seq(S)]
      /\ g[0] = v /\ g[N] = v \o x
  BY <1>1, <1>2, <1>3
<1>7. \A j \in 0 .. N - 1 : g[j + 1] = g[j] \o <<x[j + 1]>>
  <2>1. \A j \in 0 .. N - 1 : j \in 0 .. N /\ j + 1 \in 0 .. N
    OBVIOUS
  <2>. QED
    BY <1>4, <2>1
<1>8. \A j \in 0 .. N - 2 : g[j + 2] = g[j] \o <<x[j + 1], x[j + 2]>>
  <2>1. \A j \in 0 .. N - 2 : j \in 0 .. N /\ j + 2 \in 0 .. N
    OBVIOUS
  <2>. QED
    BY <1>5, <2>1
<1>. HIDE DEF g
<1>. QED
  BY <1>6, <1>7, <1>8 DEF Copies

\* A walk through a string.
LEMMA WithinString ==
  ASSUME NEW text, NEW base \in Nat, NEW N \in Nat, NEW M, M = N + 2, NEW L \in Nat, Len(text) = L, base + M <= L,
         NEW x, Stands(x, M, text, base), NEW escapes, IsEscapedBy(x, N, escapes),
         NEW g \in [0 .. M -> Seq(Characters)], Copies(g, x, M)
  PROVE  \E walks :
           /\ Walk(base, "normal", g[0]) \in walks
           /\ \A w \in walks :
                /\ w.index <= L
                /\ Turn(text, w) \in walks \cup {Walk(base + M, "normal", g[M])}
<1>. DEFINE In(j) == Walk(base + j, "string", g[j])
            between == {j \in 1 .. N + 1 : j - 1 \notin escapes}
            start == Walk(base, "normal", g[0])
            end == Walk(base + M, "normal", g[M])
            walks == {start} \cup {In(j) : j \in between}
<1>1. Turn(text, start) = In(1) /\ 1 \in between /\ start.index <= L
  <2>1. 0 + 1 = 1 /\ 1 \in 1 .. M /\ 1 <= M /\ M \in Nat /\ 0 \in Nat /\ x[1] = Quote
    BY DEF IsEscapedBy
  <2>2. text[base + 1] = Quote
    BY ONLY <2>1, Stands(x, M, text, base) DEF Stands
  <2>3. g[0] \in Seq(Characters)
    OBVIOUS
  <2>4. Turn(text, start) = Walk(base + 1, "string", g[0] \o <<Quote>>)
    BY <2>2, <2>3, TurnsInText
  <2>5. g[1] = g[0] \o <<Quote>>
    <3>1. g[1] = g[0] \o <<x[1]>>
      <4>1. 0 \in 0 .. M - 1
        BY <2>1
      <4>2. g[0 + 1] = g[0] \o <<x[0 + 1]>>
        BY ONLY <4>1, Copies(g, x, M) DEF Copies
      <4>. QED
        BY ONLY <4>2, 0 + 1 = 1
    <3>. QED
      BY <3>1, <2>1
  <2>6. 0 \notin escapes
    <3>1. 0 \notin 1 .. N - 1
      OBVIOUS
    <3>. QED
      BY ONLY <3>1, IsEscapedBy(x, N, escapes) DEF IsEscapedBy
  <2>7. start.index <= L
    BY DEF Walk
  <2>. QED
    BY <2>4, <2>5, <2>6, <2>7
<1>2. ASSUME NEW j \in between PROVE In(j).index <= L /\ Turn(text, In(j)) \in {In(i) : i \in between} \cup {end}
  <2>. DEFINE n == base + j
              w == Walk(n, "string", g[j])
              k == j + 1
              m == j + 2
  <2>1. /\ j \in 1 .. N + 1 /\ j \in Nat /\ n \in Nat /\ n + 1 = base + k /\ n + 2 = base + m
        /\ n + 1 <= L /\ g[j] \in Seq(Characters)
    OBVIOUS
  <2>2. /\ k = j + 1 /\ m = j + 2 /\ k \in Nat /\ m \in Nat /\ k \in 1 .. M /\ k <= M /\ M \in Nat
        /\ In(k) = Walk(n + 1, "string", g[k]) /\ In(m) = Walk(n + 2, "string", g[m])
        /\ k - 1 = j /\ m - 1 = k
    OBVIOUS
  <2>3. In(j) = w /\ w.index = n + 1
    BY DEF Walk
  <2>. HIDE DEF w, n, k, m
  <2>4. text[n + 1] = x[k]
    <3>1. text[base + k] = x[k]
      BY ONLY <2>2, Stands(x, M, text, base) DEF Stands
    <3>. QED
      BY ONLY <2>1, <3>1
  <2>5. g[k] = g[j] \o <<x[k]>>
    <3>1. j \in 0 .. M - 1
      BY <2>1
    <3>2. g[j + 1] = g[j] \o <<x[j + 1]>>
      BY ONLY <3>1, Copies(g, x, M) DEF Copies
    <3>. QED
      BY ONLY <2>2, <3>2
  <2>6. CASE j = N + 1
    <3>1. k = N + 2
      BY <2>2, <2>6
    <3>2. x[k] = Quote
      BY <3>1 DEF IsEscapedBy
    <3>3. Turn(text, w) = Walk(n + 1, "normal", g[j] \o <<Quote>>)
      <4>1. text[n + 1] = Quote
        BY <2>4, <3>2
      <4>. QED
        BY ONLY <2>1, <4>1, TurnsInString DEF w
    <3>4. Turn(text, w) = end
      BY <3>1, <3>2, <3>3, <2>1, <2>5
    <3>. QED
      BY <3>4, <2>1, <2>3
  <2>7. CASE j \in escapes
    <3>1. x[k] = Escape /\ k \in 1 .. N /\ k \notin escapes
      <4>1. j \in 1 .. N - 1 /\ x[j + 1] = Escape /\ j + 1 \notin escapes
        BY ONLY <2>7, IsEscapedBy(x, N, escapes) DEF IsEscapedBy
      <4>. QED
        BY <4>1, <2>2
    <3>2. n + 1 < Len(text) /\ m \in 1 .. N + 1 /\ m \in 1 .. M /\ m <= M
      BY <2>1, <2>2, <3>1
    <3>3. text[n + 2] = x[m]
      <4>1. text[base + m] = x[m]
        BY ONLY <3>2, Stands(x, M, text, base) DEF Stands
      <4>. QED
        BY ONLY <2>1, <4>1
    <3>4. Turn(text, w) = Walk(n + 2, "string", g[j] \o <<Escape, text[n + 2]>>)
      <4>1. text[n + 1] = Escape
        BY ONLY <2>4, <3>1
      <4>. QED
        BY ONLY <2>1, <3>2, <4>1, TurnsInString DEF w
    <3>5. g[m] = g[j] \o <<x[k], x[m]>>
      <4>1. j \in 0 .. M - 2
        BY <2>1, <2>2, <3>2
      <4>2. g[j + 2] = g[j] \o <<x[j + 1], x[j + 2]>>
        BY ONLY <4>1, Copies(g, x, M) DEF Copies
      <4>. QED
        BY ONLY <2>2, <4>2
    <3>6. Turn(text, w) = In(m)
      <4>. HIDE DEF In
      <4>. QED
        BY ONLY <2>2, <3>1, <3>3, <3>4, <3>5
    <3>7. m \in between
      BY <2>2, <3>1, <3>2
    <3>. HIDE DEF In, between
    <3>. QED
      BY <3>6, <3>7, <2>1, <2>3
  <2>8. CASE j <= N /\ j \notin escapes
    <3>1. x[k] \notin {Quote, Escape}
      <4>1. j \in 1 .. N /\ j - 1 \notin escapes
        BY <2>1, <2>8
      <4>. QED
        BY ONLY <2>2, <2>8, <4>1, IsEscapedBy(x, N, escapes) DEF IsEscapedBy
    <3>2. Turn(text, w) = Walk(n + 1, "string", g[j] \o <<text[n + 1]>>)
      <4>1. text[n + 1] \notin {Quote, Escape}
        BY ONLY <2>4, <3>1
      <4>. QED
        BY ONLY <2>1, <4>1, TurnsInString DEF w
    <3>3. Turn(text, w) = In(k)
      <4>. HIDE DEF In
      <4>. QED
        BY ONLY <2>2, <2>4, <2>5, <3>2
    <3>4. k \in between
      BY <2>1, <2>2, <2>8
    <3>. HIDE DEF In, between
    <3>. QED
      BY <3>3, <3>4, <2>1, <2>3
  <2>. QED
    BY <2>1, <2>6, <2>7, <2>8
<1>. HIDE DEF In, between, end, start
<1>3. start \in walks /\ \A w \in walks : w.index <= L /\ Turn(text, w) \in walks \cup {end}
  BY <1>1, <1>2
<1>. QED
  BY <1>3 DEF end, start

\* A string is read through and copied, whatever markers it contains.
LEMMA StringIsRead ==
  ASSUME NEW text \in Seq(Characters), NEW base \in Nat, NEW v \in Seq(Characters), NEW t, IsPlaced(t, text, base),
         NEW b \in Seq(Characters), t = JsonString(b), IsStringBody(b)
  PROVE  \E walks : ReadsThrough(walks, t, text, base, v)
<1>. DEFINE x == t.text
            N == Len(b)
            L == Len(text)
            M == N + 2
<1>1. /\ N \in Nat /\ M = N + 2 /\ M \in Nat /\ DOMAIN b = 1 .. N /\ x \in Seq(Characters) /\ x = t.value
      /\ Len(x) = M /\ x[1] = Quote /\ x[N + 2] = Quote
      /\ \A j \in 1 .. N : x[j + 1] = b[j]
  <2>1. x = <<Quote>> \o b \o <<Quote>> /\ x = t.value
    BY DEF JsonString, Plain
  <2>. DEFINE q == <<Quote>>
  <2>2. q \in Seq(Characters) /\ Len(q) = 1 /\ q[1] = Quote
    BY MarkersDiffer
  <2>3. N \in Nat /\ DOMAIN b = 1 .. N /\ 1 \in Nat /\ Len(b) = N /\ b \in Seq(Characters)
    OBVIOUS
  <2>. HIDE DEF x, q, N
  <2>4. /\ x \in Seq(Characters) /\ Len(x) = 1 + N + 1 /\ x[1] = q[1] /\ x[1 + N + 1] = q[1]
        /\ \A j \in 1 .. N : x[1 + j] = b[j]
    <3>. DEFINE y == q \o b
    <3>. HIDE DEF y
    <3>1. y \in Seq(Characters) /\ IsJoin(y, q, Len(q), b, Len(b))
      BY ONLY <2>2, <2>3, Joined DEF y
    <3>2. Len(y) = 1 + N /\ (\A i \in 1 .. 1 : y[i] = q[i]) /\ (\A i \in 1 .. N : y[1 + i] = b[i])
      BY ONLY <2>2, <2>3, <3>1 DEF IsJoin
    <3>3. x = y \o q
      BY <2>1 DEF q, y
    <3>4. x \in Seq(Characters) /\ IsJoin(x, y, Len(y), q, Len(q))
      BY ONLY <2>2, <3>1, <3>3, Joined
    <3>5. Len(x) = 1 + N + 1 /\ (\A i \in 1 .. 1 + N : x[i] = y[i]) /\ (\A i \in 1 .. 1 : x[1 + N + i] = q[i])
      BY ONLY <2>2, <3>2, <3>4 DEF IsJoin
    <3>6. x[1] = q[1]
      <4>1. 1 \in 1 .. 1 /\ 1 \in 1 .. 1 + N
        BY <2>3
      <4>. QED
        BY ONLY <3>2, <3>5, <4>1
    <3>7. ASSUME NEW j \in 1 .. N PROVE x[1 + j] = b[j]
      <4>1. 1 + j \in 1 .. 1 + N
        BY <2>3
      <4>. QED
        BY ONLY <3>2, <3>5, <3>7, <4>1
    <3>8. 1 \in 1 .. 1
      OBVIOUS
    <3>. QED
      BY ONLY <3>4, <3>5, <3>6, <3>7, <3>8
  <2>5. 1 + N + 1 = N + 2 /\ \A j \in 1 .. N : 1 + j = j + 1
    BY <2>3
  <2>6. \A j \in 1 .. N : x[j + 1] = b[j]
    BY ONLY <2>4, <2>5
  <2>7. Len(x) = N + 2 /\ x[1] = Quote /\ x[N + 2] = Quote /\ x \in Seq(Characters)
    BY ONLY <2>2, <2>4, <2>5
  <2>8. N + 2 \in Nat
    BY <2>3
  <2>. QED
    BY ONLY <2>1, <2>3, <2>6, <2>7, <2>8
<1>2. base + M <= L /\ Stands(x, M, text, base)
  BY <1>1 DEF IsPlaced, Stands
<1>3. L \in Nat /\ L = Len(text)
  OBVIOUS
<1>. HIDE DEF x, N, L, M
<1>4. PICK g \in [0 .. M -> Seq(Characters)] : g[0] = v /\ g[M] = v \o x /\ Copies(g, x, M)
  <2>1. x \in Seq(Characters) /\ M \in Nat /\ Len(x) = M
    BY <1>1
  <2>. QED
    BY ONLY <2>1, v \in Seq(Characters), Copying
<1>5. PICK escapes : IsEscapedBy(x, N, escapes)
  <2>1. PICK escapes \in SUBSET (1 .. N) :
          /\ \A i \in escapes : b[i] = Escape /\ i + 1 \in (1 .. N) \ escapes
          /\ \A i \in (1 .. N) \ escapes : b[i] \in {Quote, Escape} => i - 1 \in escapes
    BY ONLY <1>1, IsStringBody(b) DEF IsStringBody
  <2>2. ASSUME NEW i \in escapes PROVE i \in 1 .. N - 1 /\ x[i + 1] = Escape /\ i + 1 \notin escapes
    <3>1. i \in 1 .. N /\ b[i] = Escape /\ i + 1 \in 1 .. N /\ i + 1 \notin escapes
      BY ONLY <2>1, <2>2
    <3>2. x[i + 1] = b[i]
      BY ONLY <1>1, <3>1
    <3>. QED
      BY <1>1, <3>1, <3>2
  <2>3. ASSUME NEW i \in 1 .. N, i \notin escapes, i - 1 \notin escapes PROVE x[i + 1] \notin {Quote, Escape}
    <3>1. x[i + 1] = b[i] /\ b[i] \notin {Quote, Escape}
      BY ONLY <1>1, <2>1, <2>3
    <3>. QED
      BY <3>1
  <2>. QED
    BY <1>1, <2>2, <2>3 DEF IsEscapedBy
<1>6. \E walks :
           /\ Walk(base, "normal", g[0]) \in walks
           /\ \A w \in walks :
                /\ w.index <= L
                /\ Turn(text, w) \in walks \cup {Walk(base + M, "normal", g[M])}
  BY ONLY base \in Nat, <1>1, <1>2, <1>3, <1>4, <1>5, WithinString
<1>. QED
  BY <1>1, <1>4, <1>6 DEF ReadsThrough, x, L

\* A comment of a sort, with a body b, from base on, and c behind it.
IsComment(text, base, sort, b, end, c) ==
  /\ end = base + 2 + Len(b) /\ end + Len(c) <= Len(text)
  /\ text[base + 1] = Slash /\ text[base + 2] = sort
  /\ Stands(b, Len(b), text, base + 2)
  /\ Stands(c, Len(c), text, end)

\* Walks from start on that all come to last.
Runs(walks, text, start, last) ==
  /\ start \in walks /\ last \in walks
  /\ \A w \in walks : w = last \/ (w.index <= Len(text) /\ Turn(text, w) \in walks)

\* A walk that takes one turn after the other is in one set.
LEMMA Chain ==
  ASSUME NEW text, NEW start, NEW L, L = Len(text), NEW N \in Nat, NEW in, start.index <= L, Turn(text, start) = in[0],
         \A j \in 0 .. N - 1 : in[j].index <= L /\ Turn(text, in[j]) = in[j + 1]
  PROVE  \E walks : Runs(walks, text, start, in[N])
<1>. DEFINE chain == {in[j] : j \in 0 .. N}
            walks == {start} \cup chain
<1>1. in[0] \in chain /\ in[N] \in chain
  BY 0 \in 0 .. N, N \in 0 .. N
<1>2. ASSUME NEW j \in 0 .. N PROVE in[j] = in[N] \/ (in[j].index <= L /\ Turn(text, in[j]) \in chain)
  <2>1. CASE j = N
    BY <2>1
  <2>2. CASE j # N
    <3>1. j \in 0 .. N - 1 /\ j + 1 \in 0 .. N
      BY <2>2
    <3>2. in[j].index <= L /\ Turn(text, in[j]) = in[j + 1]
      BY <3>1
    <3>3. in[j + 1] \in chain
      BY ONLY <3>1
    <3>. QED
      BY ONLY <3>2, <3>3
  <2>. QED
    BY <2>1, <2>2
<1>3. \A w \in chain : w = in[N] \/ (w.index <= L /\ Turn(text, w) \in chain)
  BY ONLY <1>2
<1>. HIDE DEF chain
<1>4. Runs(walks, text, start, in[N])
  BY ONLY <1>1, <1>3, L = Len(text), start.index <= L, Turn(text, start) = in[0] DEF Runs
<1>. QED
  BY ONLY <1>4

\* A walk through a line comment: its body of N characters stands after the two slashes.
LEMMA WithinLine ==
  ASSUME NEW text \in Seq(Characters), NEW base \in Nat, NEW b \in Seq(Characters), NEW c \in Seq(Characters), NEW end,
         IsComment(text, base, Slash, b, end, c), IsLineBody(b), NEW v \in Seq(Characters)
  PROVE  \E walks : Runs(walks, text, Walk(base, "normal", v), Walk(end, "line", v))
<1>. DEFINE L == Len(text)
            N == Len(b)
            B == base + 2
            in == [j \in 0 .. N |-> Walk(B + j, "line", v)]
            start == Walk(base, "normal", v)
<1>1. L \in Nat /\ N \in Nat /\ DOMAIN b = 1 .. N /\ L = Len(text) /\ Len(c) \in Nat
  OBVIOUS
<1>2. end = B + N /\ end + Len(c) <= L /\ text[base + 1] = Slash /\ text[base + 2] = Slash /\ Stands(b, N, text, B)
  BY ONLY IsComment(text, base, Slash, b, end, c) DEF IsComment
<1>. HIDE DEF L, N
<1>3. B + N <= L /\ B \in Nat
  BY <1>1, <1>2
<1>4. Turn(text, start) = in[0] /\ start.index <= L
  <2>1. base + 1 < Len(text) /\ B + 0 = base + 2 /\ 0 \in 0 .. N
    BY <1>1, <1>2
  <2>2. Turn(text, start) = Walk(base + 2, "line", v)
    BY <1>2, <2>1, TurnsInText
  <2>3. start.index = base + 1
    BY DEF Walk
  <2>. QED
    BY <1>1, <2>1, <2>2, <2>3
<1>5. ASSUME NEW j \in 0 .. N - 1 PROVE in[j].index <= L /\ Turn(text, in[j]) = in[j + 1]
  <2>. DEFINE n == B + j
              k == j + 1
  <2>1. /\ k \in 1 .. N /\ n \in Nat /\ n + 1 = B + k /\ n + 1 <= L /\ in[j] = Walk(n, "line", v)
        /\ in[j + 1] = Walk(n + 1, "line", v)
    BY <1>1, <1>3
  <2>. HIDE DEF n, k, in
  <2>2. text[B + k] = b[k]
    BY ONLY <2>1, <1>2 DEF Stands
  <2>3. b[k] # Newline
    BY ONLY <2>1, <1>1, IsLineBody(b) DEF IsLineBody
  <2>4. text[n + 1] # Newline
    BY ONLY <2>1, <2>2, <2>3
  <2>5. Turn(text, Walk(n, "line", v)) = Walk(n + 1, "line", v)
    BY ONLY <2>1, <2>4, v \in Seq(Characters), TurnsInLine
  <2>6. Walk(n, "line", v).index = n + 1
    BY DEF Walk
  <2>. QED
    BY ONLY <2>1, <2>5, <2>6
<1>6. in[N] = Walk(end, "line", v)
  BY <1>1, <1>2
<1>. HIDE DEF in, start
<1>7. \E walks : Runs(walks, text, start, in[N])
  BY ONLY <1>1, <1>4, <1>5, Chain
<1>. QED
  BY ONLY <1>6, <1>7 DEF start

\* The newlines of a block comment put out, one after the other.
Counts(h, b, N) ==
  \A j \in 0 .. N - 1 : h[j + 1] = IF b[j + 1] = Newline THEN h[j] \o <<Newline>> ELSE h[j]

\* So many newlines, and one more.
LEMMA OneMoreNewline ==
  ASSUME NEW n \in Nat
  PROVE  Newlines(n) \in Seq(Characters) /\ Newlines(n + 1) = Newlines(n) \o <<Newline>>
<1>1. Newlines(n) \in Seq(Characters) /\ Newlines(n + 1) \in Seq(Characters) /\ <<Newline>> \in Seq(Characters)
  BY MarkersDiffer DEF Newlines
<1>2. Len(Newlines(n)) = n /\ Len(Newlines(n + 1)) = n + 1 /\ Len(<<Newline>>) = 1
  BY <1>1 DEF Newlines
<1>3. /\ \A i \in 1 .. n : Newlines(n)[i] = Newline
      /\ \A i \in 1 .. n + 1 : Newlines(n + 1)[i] = Newline
  BY DEF Newlines
<1>. DEFINE a == Newlines(n)
            b == Newlines(n + 1)
            c == a \o <<Newline>>
<1>. HIDE DEF a, b, c
<1>4. c \in Seq(Characters) /\ IsJoin(c, a, Len(a), <<Newline>>, Len(<<Newline>>))
  BY <1>1, Joined DEF c, a
<1>5. Len(c) = n + 1 /\ (\A i \in 1 .. n : c[i] = a[i]) /\ (\A i \in 1 .. 1 : c[n + i] = <<Newline>>[i])
  BY ONLY <1>4, <1>2 DEF IsJoin, a
<1>6. ASSUME NEW i \in 1 .. n + 1 PROVE c[i] = b[i]
  <2>1. b[i] = Newline
    BY <1>3 DEF b
  <2>2. CASE i \in 1 .. n
    BY <1>3, <1>5, <2>1, <2>2 DEF a
  <2>3. CASE i = n + 1
    <3>1. 1 \in 1 .. 1 /\ <<Newline>>[1] = Newline
      OBVIOUS
    <3>2. c[n + 1] = Newline
      BY ONLY <1>5, <3>1
    <3>. QED
      BY <2>1, <2>3, <3>2
  <2>. QED
    BY <2>2, <2>3
<1>7. b \in Seq(Characters) /\ Len(b) = n + 1
  BY <1>1, <1>2 DEF b
<1>8. b = c
  BY ONLY <1>4, <1>5, <1>6, <1>7, SeqEqual
<1>. QED
  BY <1>1, <1>8 DEF a, b, c

\* What has been put out within a block comment: as many newlines as it had so far.
LEMMA Counting ==
  ASSUME NEW b, NEW N \in Nat, DOMAIN b = 1 .. N, NEW v \in Seq(Characters)
  PROVE  \E h \in [0 .. N -> Seq(Characters)] : h[0] = v /\ h[N] = v \o Newlines(NewlinesIn(b)) /\ Counts(h, b, N)
<1>. DEFINE Seen(j) == {i \in 1 .. j : b[i] = Newline}
            h == [j \in 0 .. N |-> v \o Newlines(Cardinality(Seen(j)))]
<1>1. ASSUME NEW j \in Nat PROVE IsFiniteSet(Seen(j)) /\ Cardinality(Seen(j)) \in Nat
  <2>1. IsFiniteSet(1 .. j)
    BY FS_Interval
  <2>2. IsFiniteSet(Seen(j))
    BY <2>1, FS_Subset
  <2>. QED
    BY <2>2, FS_CardinalityType
<1>2. ASSUME NEW j \in 0 .. N PROVE v \o Newlines(Cardinality(Seen(j))) \in Seq(Characters)
  <2>. DEFINE c == Cardinality(Seen(j))
  <2>1. c \in Nat
    <3>1. j \in Nat
      OBVIOUS
    <3>. QED
      BY ONLY <1>1, <3>1 DEF c
  <2>. HIDE DEF c
  <2>2. Newlines(c) \in Seq(Characters)
    BY <2>1, OneMoreNewline
  <2>3. v \o Newlines(c) \in Seq(Characters)
    BY <2>2, ConcatProperties
  <2>. QED
    BY <2>3 DEF c
<1>3. h[0] = v
  <2>1. Seen(0) = {}
    OBVIOUS
  <2>2. Cardinality(Seen(0)) = 0
    BY <2>1, FS_EmptySet
  <2>3. Newlines(0) = <<>>
    BY DEF Newlines
  <2>4. v \o <<>> = v
    BY ConcatEmptySeq
  <2>. QED
    BY <2>2, <2>3, <2>4
<1>4. h[N] = v \o Newlines(NewlinesIn(b))
  <2>1. Seen(N) = {i \in DOMAIN b : b[i] = Newline}
    OBVIOUS
  <2>. QED
    BY <2>1 DEF NewlinesIn
<1>5. ASSUME NEW j \in 0 .. N - 1 PROVE h[j + 1] = IF b[j + 1] = Newline THEN h[j] \o <<Newline>> ELSE h[j]
  <2>. DEFINE c == Cardinality(Seen(j))
  <2>1. j \in Nat /\ j \in 0 .. N /\ j + 1 \in 0 .. N
    OBVIOUS
  <2>2. CASE b[j + 1] = Newline
    <3>1. Seen(j + 1) = Seen(j) \cup {j + 1} /\ j + 1 \notin Seen(j)
      BY <2>1, <2>2
    <3>2. Cardinality(Seen(j + 1)) = c + 1
      <4>. HIDE DEF Seen
      <4>1. IsFiniteSet(Seen(j))
        BY <1>1, <2>1
      <4>. QED
        BY ONLY <3>1, <4>1, FS_AddElement DEF c
    <3>3. c \in Nat
      BY <1>1, <2>1
    <3>. HIDE DEF c
    <3>4. Newlines(c + 1) = Newlines(c) \o <<Newline>> /\ Newlines(c) \in Seq(Characters) /\ <<Newline>> \in Seq(Characters)
      <4>1. Newlines(c + 1) = Newlines(c) \o <<Newline>> /\ Newlines(c) \in Seq(Characters)
        BY ONLY <3>3, OneMoreNewline
      <4>2. <<Newline>> \in Seq(Characters)
        BY MarkersDiffer
      <4>. QED
        BY <4>1, <4>2
    <3>5. v \o (Newlines(c) \o <<Newline>>) = (v \o Newlines(c)) \o <<Newline>>
      BY <3>4, ConcatAssociative
    <3>6. h[j + 1] = v \o Newlines(c + 1) /\ h[j] = v \o Newlines(c)
      BY <2>1, <3>2 DEF c
    <3>. QED
      BY ONLY <2>2, <3>4, <3>5, <3>6
  <2>3. CASE b[j + 1] # Newline
    <3>1. Seen(j + 1) = Seen(j)
      BY <2>1, <2>3
    <3>. QED
      BY <2>1, <2>3, <3>1
  <2>. QED
    BY <2>2, <2>3
<1>6. h \in [0 .. N -> Seq(Characters)]
  BY <1>2
<1>. HIDE DEF h
<1>7. Counts(h, b, N)
  BY ONLY <1>5 DEF Counts
<1>. QED
  BY <1>3, <1>4, <1>6, <1>7

\* A walk through a block comment.
LEMMA WithinBlock ==
  ASSUME NEW text \in Seq(Characters), NEW base \in Nat, NEW b \in Seq(Characters), NEW c \in Seq(Characters), NEW end,
         IsComment(text, base, Star, b, end, c), IsBlockBody(b), NEW v \in Seq(Characters),
         end < Len(text) => text[end + 1] # Slash
  PROVE  \E walks : Runs(walks, text, Walk(base, "normal", v), Walk(end, "block", v \o Newlines(NewlinesIn(b))))
<1>. DEFINE L == Len(text)
            N == Len(b)
            B == base + 2
            start == Walk(base, "normal", v)
<1>0. end < Len(text) => text[end + 1] # Slash
  OBVIOUS
<1>1. L \in Nat /\ N \in Nat /\ DOMAIN b = 1 .. N /\ L = Len(text) /\ N = Len(b) /\ Len(c) \in Nat
  OBVIOUS
<1>2. end = B + N /\ end + Len(c) <= L /\ text[base + 1] = Slash /\ text[base + 2] = Star /\ Stands(b, N, text, B)
  BY ONLY IsComment(text, base, Star, b, end, c) DEF IsComment
<1>. HIDE DEF L, N
<1>3. B + N <= L /\ B \in Nat
  BY <1>1, <1>2
<1>b. B + 0 = base + 2 /\ B \in Nat
  OBVIOUS
<1>. HIDE DEF B
<1>4. PICK h \in [0 .. N -> Seq(Characters)] : h[0] = v /\ h[N] = v \o Newlines(NewlinesIn(b)) /\ Counts(h, b, N)
  BY ONLY <1>1, v \in Seq(Characters), Counting
<1>. DEFINE in == [j \in 0 .. N |-> Walk(B + j, "block", h[j])]
<1>5. Turn(text, start) = in[0] /\ start.index <= L
  <2>1. base + 1 < Len(text) /\ B + 0 = base + 2 /\ 0 \in 0 .. N
    BY <1>1, <1>2, <1>3, <1>b
  <2>2. Turn(text, start) = Walk(base + 2, "block", v)
    BY <1>2, <2>1, TurnsInText
  <2>3. start.index = base + 1
    BY DEF Walk
  <2>4. in[0] = Walk(B + 0, "block", v)
    BY <2>1, <1>4
  <2>. QED
    BY <1>1, <2>1, <2>2, <2>3, <2>4
<1>6. ASSUME NEW j \in 0 .. N - 1 PROVE in[j].index <= L /\ Turn(text, in[j]) = in[j + 1]
  <2>. DEFINE n == B + j
              k == j + 1
              g == h[j]
  <2>a. /\ k \in 1 .. N /\ k \in Nat /\ n \in Nat /\ n + 1 = B + k /\ n + 1 <= L
        /\ j \in 0 .. N /\ k \in 0 .. N /\ k = j + 1
    BY ONLY <1>1, <1>3, j \in 0 .. N - 1
  <2>1. /\ k \in 1 .. N /\ k \in Nat /\ n \in Nat /\ n + 1 = B + k /\ n + 1 <= L
        /\ in[j] = Walk(n, "block", g) /\ in[j + 1] = Walk(n + 1, "block", h[k]) /\ g \in Seq(Characters)
    <3>1. g \in Seq(Characters)
      BY ONLY <2>a, h \in [0 .. N -> Seq(Characters)]
    <3>2. in[j] = Walk(n, "block", g)
      BY ONLY <2>a
    <3>3. in[k] = Walk(B + k, "block", h[k])
      <4>. HIDE DEF k
      <4>. QED
        BY ONLY <2>a
    <3>. HIDE DEF in, n, k, g
    <3>. QED
      BY ONLY <2>a, <3>1, <3>2, <3>3
  <2>2. h[k] = IF b[k] = Newline THEN g \o <<Newline>> ELSE g
    BY ONLY j \in 0 .. N - 1, <1>4 DEF Counts
  <2>. HIDE DEF n, k, g, in
  <2>3. text[B + k] = b[k]
    BY ONLY <2>1, <1>2 DEF Stands
  <2>4. text[n + 1] = b[k]
    BY ONLY <2>1, <2>3
  <2>5. ~(n + 1 < Len(text) /\ text[n + 1] = Star /\ text[n + 2] = Slash)
    <3>. SUFFICES ASSUME n + 1 < L, b[k] = Star, text[n + 2] = Slash PROVE FALSE
      BY <2>4, <1>1
    <3>1. CASE k = N
      <4>1. n + 2 = end + 1 /\ end < L
        BY ONLY <1>1, <1>2, <1>3, <2>a, <3>1, n + 1 < L
      <4>. QED
        BY ONLY <4>1, <1>0, <1>1, text[n + 2] = Slash
    <3>2. CASE k # N
      <4>1. k + 1 \in 1 .. N /\ n + 2 = B + (k + 1) /\ k < Len(b)
        <5>0. N \in Nat /\ B \in Nat
          BY ONLY <1>1, <1>3
        <5>1. n + 2 = B + (k + 1) /\ k < N /\ k + 1 \in 1 .. N
          BY ONLY <5>0, <2>a, <3>2
        <5>. QED
          BY ONLY <5>1, <1>1
      <4>2. text[B + (k + 1)] = b[k + 1]
        BY ONLY <4>1, <1>2 DEF Stands
      <4>3. b[k + 1] = Slash
        BY ONLY <4>1, <4>2, text[n + 2] = Slash
      <4>4. ~PairAt(b, k, Star, Slash)
        BY ONLY <2>1, <1>1, IsBlockBody(b) DEF IsBlockBody
      <4>. QED
        BY ONLY b[k] = Star, <4>1, <4>3, <4>4 DEF PairAt
    <3>. QED
      BY <3>1, <3>2
  <2>6. Turn(text, Walk(n, "block", g)) = Walk(n + 1, "block", IF b[k] = Newline THEN g \o <<Newline>> ELSE g)
    <3>. n \in Nat /\ g \in Seq(Characters)
      BY <2>1
    <3>1. CASE text[n + 1] = Newline
      <4>1. Turn(text, Walk(n, "block", g)) = Walk(n + 1, "block", g \o <<Newline>>)
        BY ONLY n \in Nat, g \in Seq(Characters), <3>1, TurnsInBlock
      <4>. QED
        BY ONLY <2>4, <3>1, <4>1
    <3>2. CASE text[n + 1] # Newline
      <4>1. Turn(text, Walk(n, "block", g)) = Walk(n + 1, "block", g)
        BY ONLY n \in Nat, g \in Seq(Characters), <2>5, <3>2, TurnsInBlock
      <4>. QED
        BY ONLY <2>4, <3>2, <4>1
    <3>. QED
      BY ONLY <3>1, <3>2
  <2>7. Walk(n, "block", g).index = n + 1
    BY DEF Walk
  <2>. QED
    BY ONLY <2>1, <2>2, <2>6, <2>7
<1>7. in[N] = Walk(end, "block", v \o Newlines(NewlinesIn(b)))
  <2>1. N \in 0 .. N
    BY ONLY <1>1
  <2>2. in[N] = Walk(B + N, "block", h[N])
    BY ONLY <2>1
  <2>. QED
    BY ONLY <2>2, <1>2, <1>4
<1>. HIDE DEF in, start
<1>8. \E walks : Runs(walks, text, start, in[N])
  BY ONLY <1>1, <1>5, <1>6, Chain
<1>. QED
  BY ONLY <1>7, <1>8 DEF start

\* x is the text of a comment with the body b, and c behind it.
IsText(x, sort, b, c) == b \in Seq(Characters) /\ c \in Seq(Characters) /\ x = <<Slash, sort>> \o b \o c

\* The text of t is a comment that stands in the text after base characters.
Holds(text, base, t, sort, b, c) ==
  \E end \in Nat : IsComment(text, base, sort, b, end, c) /\ base + Len(t.text) = end + Len(c)

\* Where the parts of a comment stand.
LEMMA CommentStands ==
  ASSUME NEW text, NEW base, NEW t, IsPlaced(t, text, base),
         NEW sort \in Characters, NEW b, NEW c, IsText(t.text, sort, b, c)
  PROVE  Holds(text, base, t, sort, b, c)
<1>. DEFINE a == <<Slash, sort>>
            y == a \o b
            x == t.text
            m == Len(c)
            N == Len(b)
            L == Len(text)
            k == 2 + N
            B == base + 2
            end == base + k
<1>0. text \in Seq(Characters) /\ base \in Nat /\ b \in Seq(Characters) /\ c \in Seq(Characters)
  BY DEF IsPlaced, IsText
<1>1. a \in Seq(Characters) /\ Len(a) = 2 /\ a[1] = Slash /\ a[2] = sort
  BY MarkersDiffer
<1>2. N \in Nat /\ N = Len(b) /\ L \in Nat /\ m \in Nat /\ m = Len(c)
  BY <1>0
<1>3. x = y \o c
  BY DEF IsText
<1>4. base + Len(x) <= L /\ \A j \in 1 .. Len(x) : text[base + j] = x[j]
  BY ONLY IsPlaced(t, text, base) DEF IsPlaced
<1>. HIDE DEF a, y, x, m, N, L
<1>5. k \in Nat /\ k = 2 + N /\ B \in Nat /\ B = base + 2 /\ end \in Nat /\ end = base + k
  BY ONLY <1>2, <1>0
<1>. HIDE DEF k, B, end
<1>6. y \in Seq(Characters) /\ IsJoin(y, a, Len(a), b, Len(b))
  BY <1>0, <1>1, Joined DEF y
<1>7. Len(y) = k /\ (\A i \in 1 .. 2 : y[i] = a[i]) /\ (\A i \in 1 .. N : y[2 + i] = b[i])
  BY ONLY <1>1, <1>2, <1>5, <1>6 DEF IsJoin
<1>8. x \in Seq(Characters) /\ IsJoin(x, y, Len(y), c, Len(c))
  BY ONLY <1>6, <1>3, <1>0, Joined
<1>9. Len(x) = k + m /\ (\A i \in 1 .. k : x[i] = y[i]) /\ (\A i \in 1 .. m : x[k + i] = c[i])
  BY ONLY <1>2, <1>7, <1>8 DEF IsJoin
<1>10. 1 .. k \subseteq 1 .. Len(x)
  BY ONLY <1>2, <1>5, <1>9
<1>11. text[base + 1] = Slash /\ text[base + 2] = sort
  <2>1. 1 \in 1 .. k /\ 2 \in 1 .. k /\ 1 \in 1 .. 2 /\ 2 \in 1 .. 2
    BY ONLY <1>2, <1>5
  <2>2. text[base + 1] = x[1] /\ text[base + 2] = x[2]
    BY ONLY <1>4, <1>10, <2>1
  <2>. QED
    BY ONLY <1>1, <1>7, <1>9, <2>1, <2>2
<1>12. ASSUME NEW j \in 1 .. N PROVE text[B + j] = b[j]
  <2>. DEFINE i == 2 + j
  <2>1. i \in 1 .. k /\ base + i = B + j
    BY ONLY <1>2, <1>5, <1>0, j \in 1 .. N
  <2>2. y[i] = b[j]
    BY ONLY <1>7, <1>12
  <2>. HIDE DEF i
  <2>3. text[base + i] = x[i] /\ x[i] = y[i]
    BY ONLY <1>4, <1>9, <1>10, <2>1
  <2>. QED
    BY ONLY <2>1, <2>2, <2>3
<1>13. ASSUME NEW j \in 1 .. m PROVE text[end + j] = c[j]
  <2>. DEFINE i == k + j
  <2>1. i \in 1 .. k + m /\ base + i = end + j
    BY ONLY <1>2, <1>5, <1>0, j \in 1 .. m
  <2>2. x[i] = c[j]
    BY ONLY <1>9, <1>13
  <2>. HIDE DEF i
  <2>3. text[base + i] = x[i]
    BY ONLY <1>4, <1>9, <2>1
  <2>. QED
    BY ONLY <2>1, <2>2, <2>3
<1>14. base + Len(x) = end + m /\ end + m <= L /\ end = base + 2 + N
  BY ONLY <1>2, <1>4, <1>5, <1>9, <1>0
<1>15. IsComment(text, base, sort, b, end, c)
  BY ONLY <1>2, <1>5, <1>11, <1>12, <1>13, <1>14 DEF IsComment, Stands, L, N, m
<1>. QED
  BY ONLY <1>5, <1>14, <1>15 DEF Holds, x, m

\* What comes to the last of its walks is read through with the last turn, or ends there.
LEMMA LastTurn ==
  ASSUME NEW text, NEW base, NEW v, NEW t, NEW last, NEW walks, Runs(walks, text, Walk(base, "normal", v), last)
  PROVE  /\ last.index <= Len(text) /\ Turn(text, last) = Walk(base + Len(t.text), "normal", v \o t.value) =>
              ReadsThrough(walks, t, text, base, v)
         /\ ~(last.index <= Len(text)) /\ last.out = v \o t.value => ReadsToEnd(walks, t, text, base, v)
  BY DEF Runs, ReadsThrough, ReadsToEnd

\* A line comment is read through and leaves its newline.
LEMMA LineIsRead ==
  ASSUME NEW text, NEW base, NEW t, IsPlaced(t, text, base), NEW v, v \in Seq(Characters),
         NEW b, b \in Seq(Characters), t = LineComment(b), IsLineBody(b)
  PROVE  \E walks : ReadsThrough(walks, t, text, base, v)
<1>. DEFINE c == <<Newline>>
<1>0. text \in Seq(Characters) /\ base \in Nat /\ Len(text) \in Nat
  BY DEF IsPlaced
<1>1. t.text = <<Slash, Slash>> \o b \o c /\ t.value = c
  BY DEF LineComment
<1>2. c \in Seq(Characters) /\ Slash \in Characters /\ Len(c) = 1 /\ c[1] = Newline
  BY MarkersDiffer
<1>. HIDE DEF c
<1>3. PICK end \in Nat : IsComment(text, base, Slash, b, end, c) /\ base + Len(t.text) = end + Len(c)
  <2>1. IsText(t.text, Slash, b, c)
    BY <1>1, <1>2 DEF IsText
  <2>2. Slash \in Characters
    BY <1>2
  <2>3. Holds(text, base, t, Slash, b, c)
    BY ONLY <2>1, <2>2, IsPlaced(t, text, base), CommentStands
  <2>. QED
    BY ONLY <2>3 DEF Holds
<1>4. PICK walks : Runs(walks, text, Walk(base, "normal", v), Walk(end, "line", v))
  BY ONLY <1>0, <1>2, <1>3, v \in Seq(Characters), b \in Seq(Characters), IsLineBody(b), WithinLine
<1>5. end + 1 <= Len(text) /\ text[end + 1] = Newline
  <2>1. 1 \in 1 .. Len(c)
    BY <1>2
  <2>2. end + Len(c) <= Len(text) /\ text[end + 1] = c[1]
    BY ONLY <1>3, <2>1 DEF IsComment, Stands
  <2>. QED
    BY ONLY <1>2, <2>2
<1>6. Turn(text, Walk(end, "line", v)) = Walk(end + 1, "normal", v \o c)
  BY ONLY <1>3, <1>5, v \in Seq(Characters), TurnsInLine DEF c
<1>7. Walk(end, "line", v).index = end + 1
  BY DEF Walk
<1>8. ReadsThrough(walks, t, text, base, v)
  BY ONLY <1>1, <1>2, <1>3, <1>4, <1>5, <1>6, <1>7, LastTurn
<1>. QED
  BY <1>8

\* A line comment that ends with the text leaves nothing.
LEMMA OpenLineIsRead ==
  ASSUME NEW text, NEW base, NEW t, IsPlaced(t, text, base), NEW v, v \in Seq(Characters),
         base + Len(t.text) = Len(text),
         NEW b, b \in Seq(Characters), t = OpenLine(b), IsLineBody(b)
  PROVE  \E walks : ReadsToEnd(walks, t, text, base, v)
<1>. DEFINE c == <<>>
<1>0. text \in Seq(Characters) /\ base \in Nat /\ Len(text) \in Nat
  BY DEF IsPlaced
<1>1. t.text = <<Slash, Slash>> \o b \o c /\ v \o t.value = v
  <2>1. t.text = <<Slash, Slash>> \o b /\ t.value = <<>>
    BY DEF OpenLine
  <2>2. t.text \in Seq(Characters)
    BY DEF IsPlaced
  <2>3. t.text \o <<>> = t.text /\ v \o <<>> = v
    BY <2>2, ConcatEmptySeq
  <2>. QED
    BY <2>1, <2>3
<1>2. c \in Seq(Characters) /\ Slash \in Characters /\ Len(c) = 0
  BY MarkersDiffer
<1>. HIDE DEF c
<1>3. PICK end \in Nat : IsComment(text, base, Slash, b, end, c) /\ base + Len(t.text) = end + Len(c)
  <2>1. IsText(t.text, Slash, b, c)
    BY <1>1, <1>2 DEF IsText
  <2>2. Slash \in Characters
    BY <1>2
  <2>3. Holds(text, base, t, Slash, b, c)
    BY ONLY <2>1, <2>2, IsPlaced(t, text, base), CommentStands
  <2>. QED
    BY ONLY <2>3 DEF Holds
<1>4. PICK walks : Runs(walks, text, Walk(base, "normal", v), Walk(end, "line", v))
  BY ONLY <1>0, <1>2, <1>3, v \in Seq(Characters), b \in Seq(Characters), IsLineBody(b), WithinLine
<1>5. end = Len(text)
  BY <1>0, <1>2, <1>3
<1>6. ~(Walk(end, "line", v).index <= Len(text)) /\ Walk(end, "line", v).out = v
  BY <1>0, <1>5 DEF Walk
<1>7. ReadsToEnd(walks, t, text, base, v)
  BY ONLY <1>1, <1>4, <1>6, LastTurn
<1>. QED
  BY <1>7

\* A block comment is read through and leaves its newlines and a blank.
LEMMA BlockIsRead ==
  ASSUME NEW text, NEW base, NEW t, IsPlaced(t, text, base), NEW v, v \in Seq(Characters),
         NEW b, b \in Seq(Characters), t = BlockComment(b), IsBlockBody(b)
  PROVE  \E walks : ReadsThrough(walks, t, text, base, v)
<1>. DEFINE c == <<Star, Slash>>
            lines == Newlines(NewlinesIn(b))
            u == v \o lines
<1>0. text \in Seq(Characters) /\ base \in Nat /\ Len(text) \in Nat
  BY DEF IsPlaced
<1>1. t.text = <<Slash, Star>> \o b \o c /\ t.value = lines \o <<Blank>>
  BY DEF BlockComment
<1>2. c \in Seq(Characters) /\ Star \in Characters /\ Len(c) = 2 /\ c[1] = Star /\ c[2] = Slash
  BY MarkersDiffer
<1>3. lines \in Seq(Characters)
  <2>1. DOMAIN b = 1 .. Len(b) /\ Len(b) \in Nat
    OBVIOUS
  <2>2. IsFiniteSet(1 .. Len(b))
    BY <2>1, FS_Interval
  <2>3. IsFiniteSet({i \in DOMAIN b : b[i] = Newline})
    BY <2>1, <2>2, FS_Subset
  <2>4. NewlinesIn(b) \in Nat
    BY <2>3, FS_CardinalityType DEF NewlinesIn
  <2>. HIDE DEF lines
  <2>. QED
    BY ONLY <2>4, OneMoreNewline DEF lines
<1>. HIDE DEF c, lines
<1>4. PICK end \in Nat : IsComment(text, base, Star, b, end, c) /\ base + Len(t.text) = end + Len(c)
  <2>1. IsText(t.text, Star, b, c)
    BY <1>1, <1>2 DEF IsText
  <2>2. Star \in Characters
    BY <1>2
  <2>3. Holds(text, base, t, Star, b, c)
    BY ONLY <2>1, <2>2, IsPlaced(t, text, base), CommentStands
  <2>. QED
    BY ONLY <2>3 DEF Holds
<1>5. end + 2 <= Len(text) /\ text[end + 1] = Star /\ text[end + 2] = Slash
  <2>1. 1 \in 1 .. Len(c) /\ 2 \in 1 .. Len(c)
    BY <1>2
  <2>2. end + Len(c) <= Len(text) /\ text[end + 1] = c[1] /\ text[end + 2] = c[2]
    BY ONLY <1>4, <2>1 DEF IsComment, Stands
  <2>. QED
    BY ONLY <1>2, <2>2
<1>6. text[end + 1] # Slash /\ Len(text) \in Nat
  BY <1>0, <1>5, MarkersDiffer
<1>7. PICK walks : Runs(walks, text, Walk(base, "normal", v), Walk(end, "block", u))
  BY ONLY <1>2, <1>4, <1>6, <1>0, v \in Seq(Characters), b \in Seq(Characters),
     IsBlockBody(b), WithinBlock DEF lines
<1>8. u \in Seq(Characters) /\ u \o <<Blank>> = v \o t.value
  <2>1. <<Blank>> \in Seq(Characters)
    BY MarkersDiffer
  <2>2. (v \o lines) \o <<Blank>> = v \o (lines \o <<Blank>>)
    <3>. DEFINE d == <<Blank>>
    <3>. HIDE DEF d
    <3>1. d \in Seq(Characters)
      BY <2>1 DEF d
    <3>2. (v \o lines) \o d = v \o (lines \o d)
      BY ONLY <1>3, <3>1, v \in Seq(Characters), ConcatAssociative
    <3>. QED
      BY ONLY <3>2 DEF d
  <2>3. v \o lines \in Seq(Characters)
    BY <1>3, ConcatProperties
  <2>. QED
    BY <1>1, <2>2, <2>3
<1>. HIDE DEF u
<1>9. Turn(text, Walk(end, "block", u)) = Walk(end + 2, "normal", u \o <<Blank>>)
  <2>1. end + 1 < Len(text)
    BY <1>5, <1>6
  <2>. QED
    BY ONLY <1>4, <1>5, <1>8, <2>1, TurnsInBlock
<1>10. Walk(end, "block", u).index <= Len(text)
  BY <1>5, <1>6 DEF Walk
<1>11. ReadsThrough(walks, t, text, base, v)
  BY ONLY <1>2, <1>4, <1>7, <1>8, <1>9, <1>10, LastTurn
<1>. QED
  BY <1>11

\* A block comment left open leaves its newlines.
LEMMA OpenBlockIsRead ==
  ASSUME NEW text, NEW base, NEW t, IsPlaced(t, text, base), NEW v, v \in Seq(Characters),
         base + Len(t.text) = Len(text),
         NEW b, b \in Seq(Characters), t = OpenBlock(b), IsBlockBody(b)
  PROVE  \E walks : ReadsToEnd(walks, t, text, base, v)
<1>. DEFINE c == <<>>
            u == v \o t.value
<1>0. text \in Seq(Characters) /\ base \in Nat /\ Len(text) \in Nat
  BY DEF IsPlaced
<1>1. t.text = <<Slash, Star>> \o b \o c /\ t.value = Newlines(NewlinesIn(b))
  <2>1. t.text = <<Slash, Star>> \o b /\ t.value = Newlines(NewlinesIn(b))
    BY DEF OpenBlock
  <2>2. t.text \in Seq(Characters)
    BY DEF IsPlaced
  <2>3. t.text \o <<>> = t.text
    BY <2>2, ConcatEmptySeq
  <2>. QED
    BY <2>1, <2>3
<1>2. c \in Seq(Characters) /\ Star \in Characters /\ Len(c) = 0
  BY MarkersDiffer
<1>. HIDE DEF c
<1>3. PICK end \in Nat : IsComment(text, base, Star, b, end, c) /\ base + Len(t.text) = end + Len(c)
  <2>1. IsText(t.text, Star, b, c)
    BY <1>1, <1>2 DEF IsText
  <2>2. Star \in Characters
    BY <1>2
  <2>3. Holds(text, base, t, Star, b, c)
    BY ONLY <2>1, <2>2, IsPlaced(t, text, base), CommentStands
  <2>. QED
    BY ONLY <2>3 DEF Holds
<1>4. end = Len(text) /\ ~(end < Len(text))
  BY <1>0, <1>2, <1>3
<1>5. PICK walks : Runs(walks, text, Walk(base, "normal", v), Walk(end, "block", u))
  BY ONLY <1>1, <1>2, <1>3, <1>4, <1>0, v \in Seq(Characters), b \in Seq(Characters),
     IsBlockBody(b), WithinBlock
<1>6. ~(Walk(end, "block", u).index <= Len(text)) /\ Walk(end, "block", u).out = u
  BY <1>0, <1>4 DEF Walk
<1>7. ReadsToEnd(walks, t, text, base, v)
  BY ONLY <1>5, <1>6, LastTurn
<1>. QED
  BY <1>7

\* What stands between is text.
LEMMA BetweenType ==
  ASSUME NEW x \in Seq(Characters), NEW m \in Nat, NEW n \in Nat
  PROVE  Between(x, m, n) \in Seq(Characters)
<1>1. \A i \in m + 1 .. Len(x) - n : x[i] \in Characters
  OBVIOUS
<1>2. m + 1 \in Int /\ Len(x) - n \in Int
  OBVIOUS
<1>. QED
  BY ONLY <1>1, <1>2, SubSeqProperties DEF Between

\* Every token is read through, and its value is put out.
LEMMA TokenIsRead ==
  ASSUME NEW text, NEW base, NEW t, IsPlaced(t, text, base), NEW v, v \in Seq(Characters), IsToken(t)
  PROVE  \E walks : ReadsThrough(walks, t, text, base, v)
<1>0. text \in Seq(Characters) /\ base \in Nat /\ t.text \in Seq(Characters)
  BY DEF IsPlaced
<1>1. CASE \E c \in Characters \ {Quote, Slash} : t = Plain(<<c>>)
  BY ONLY <1>0, <1>1, IsPlaced(t, text, base), v \in Seq(Characters), PlainIsRead
<1>2. CASE LET b == Between(t.text, 1, 1) IN t = JsonString(b) /\ IsStringBody(b)
  <2>. DEFINE b == Between(t.text, 1, 1)
  <2>1. b \in Seq(Characters)
    BY <1>0, BetweenType
  <2>2. t = JsonString(b) /\ IsStringBody(b)
    BY <1>2
  <2>. HIDE DEF b
  <2>. QED
    BY ONLY <1>0, <2>1, <2>2, IsPlaced(t, text, base), v \in Seq(Characters), StringIsRead
<1>3. CASE LET b == Between(t.text, 2, 1) IN t = LineComment(b) /\ IsLineBody(b)
  <2>. DEFINE b == Between(t.text, 2, 1)
  <2>1. b \in Seq(Characters)
    BY <1>0, BetweenType
  <2>2. t = LineComment(b) /\ IsLineBody(b)
    BY <1>3
  <2>. HIDE DEF b
  <2>. QED
    BY ONLY <2>1, <2>2, IsPlaced(t, text, base), v \in Seq(Characters), LineIsRead
<1>4. CASE LET b == Between(t.text, 2, 2) IN t = BlockComment(b) /\ IsBlockBody(b)
  <2>. DEFINE b == Between(t.text, 2, 2)
  <2>1. b \in Seq(Characters)
    BY <1>0, BetweenType
  <2>2. t = BlockComment(b) /\ IsBlockBody(b)
    BY <1>4
  <2>. HIDE DEF b
  <2>. QED
    BY ONLY <2>1, <2>2, IsPlaced(t, text, base), v \in Seq(Characters), BlockIsRead
<1>. QED
  BY ONLY IsToken(t), <1>1, <1>2, <1>3, <1>4 DEF IsToken

\* A comment left open is read to the end of the text.
LEMMA TailIsRead ==
  ASSUME NEW text, NEW base, NEW t, IsPlaced(t, text, base), NEW v, v \in Seq(Characters), IsTail(t),
         base + Len(t.text) = Len(text)
  PROVE  \E walks : ReadsToEnd(walks, t, text, base, v)
<1>. DEFINE b == Between(t.text, 2, 0)
<1>1. b \in Seq(Characters)
  BY BetweenType DEF IsPlaced
<1>2. \/ t = OpenLine(b) /\ IsLineBody(b)
      \/ t = OpenBlock(b) /\ IsBlockBody(b)
  BY DEF IsTail
<1>. HIDE DEF b
<1>3. CASE t = OpenLine(b) /\ IsLineBody(b)
  BY ONLY <1>1, <1>3, IsPlaced(t, text, base), v \in Seq(Characters), base + Len(t.text) = Len(text), OpenLineIsRead
<1>4. CASE t = OpenBlock(b) /\ IsBlockBody(b)
  BY ONLY <1>1, <1>4, IsPlaced(t, text, base), v \in Seq(Characters), base + Len(t.text) = Len(text), OpenBlockIsRead
<1>. QED
  BY <1>2, <1>3, <1>4

-----------------------------------------------------------------------------
(* Texts of any number of tokens.                                           *)

IsTextOf(t, parts, k) == t.text = parts[k] /\ t.value \in Seq(Characters)

\* t stands in the whole behind the first k - 1 parts.
StandsBehind(t, upto, N, k) ==
  IsPlaced(t, upto[N], Len(upto[k - 1])) /\ Len(upto[k - 1]) + Len(t.text) = Len(upto[k])

\* The tokens stand in the text one after the other.
LEMMA TokensArePlaced ==
  ASSUME NEW N \in Nat, NEW upto, NEW parts, Builds(upto, parts, N, Characters), NEW k \in 1 .. N,
         NEW t, IsTextOf(t, parts, k)
  PROVE  StandsBehind(t, upto, N, k)
<1>1. StandsBetween(upto, parts, N, Characters, k)
  BY PartsStand
<1>2. t.text = parts[k] /\ t.value \in Seq(Characters)
  BY DEF IsTextOf
<1>. QED
  BY ONLY <1>1, <1>2 DEF StandsBetween, StandsAt, IsPlaced, StandsBehind

\* The stripper leaves of a text, of any number of tokens, the value of each
\* (_strip_jsonc_comments).
THEOREM CommentsAreStripped ==
  ASSUME NEW N \in Nat, NEW tokens, Len(tokens) = N, DOMAIN tokens = 1 .. N, N = 0 => tokens = <<>>,
         \A i \in 1 .. N : tokens[i].text \in Seq(Characters) /\ tokens[i].value \in Seq(Characters),
         IsJsonc(tokens)
  PROVE  StripComments(TextOf(tokens)) = ValueOf(tokens)
<1>. DEFINE texts == [i \in DOMAIN tokens |-> tokens[i].text]
            values == [i \in DOMAIN tokens |-> tokens[i].value]
<1>1. PICK T : Builds(T, texts, N, Characters) /\ TextOf(tokens) = T[N]
  <2>1. Len(texts) = N /\ (\A n \in 1 .. N : texts[n] \in Seq(Characters)) /\ (N = 0 => texts = <<>>)
    OBVIOUS
  <2>2. TextOf(tokens) = FlattenSeq(texts)
    BY DEF TextOf
  <2>. HIDE DEF texts
  <2>. QED
    BY ONLY <2>1, <2>2, N \in Nat, Flattening
<1>2. PICK V : Builds(V, values, N, Characters) /\ ValueOf(tokens) = V[N]
  <2>1. Len(values) = N /\ (\A n \in 1 .. N : values[n] \in Seq(Characters)) /\ (N = 0 => values = <<>>)
    OBVIOUS
  <2>2. ValueOf(tokens) = FlattenSeq(values)
    BY DEF ValueOf
  <2>. HIDE DEF values
  <2>. QED
    BY ONLY <2>1, <2>2, N \in Nat, Flattening
<1>. DEFINE text == T[N]
            end == Len(text)
            Before(k) == Walk(Len(T[k]), "normal", V[k])
<1>3. ASSUME NEW k \in 1 .. N
      PROVE  /\ tokens[k].text = texts[k] /\ tokens[k].value = values[k] /\ tokens[k].value \in Seq(Characters)
             /\ IsToken(tokens[k]) \/ (k = N /\ IsTail(tokens[k]))
  BY DEF IsJsonc
<1>. HIDE DEF texts, values
<1>4. text \in Seq(Characters) /\ end \in Nat /\ T[0] = <<>> /\ V[0] = <<>>
  <2>1. N \in 0 .. N
    OBVIOUS
  <2>2. T[N] \in Seq(Characters) /\ T[0] = <<>> /\ V[0] = <<>>
    BY ONLY <2>1, <1>1, <1>2 DEF Builds
  <2>. QED
    BY ONLY <2>2
<1>5. ASSUME NEW k \in 1 .. N
      PROVE  /\ IsPlaced(tokens[k], text, Len(T[k - 1])) /\ Len(T[k - 1]) + Len(tokens[k].text) = Len(T[k])
             /\ V[k - 1] \in Seq(Characters) /\ V[k] = V[k - 1] \o tokens[k].value
  <2>1. IsPlaced(tokens[k], T[N], Len(T[k - 1])) /\ Len(T[k - 1]) + Len(tokens[k].text) = Len(T[k])
    <3>. DEFINE t == tokens[k]
    <3>1. IsTextOf(t, texts, k)
      BY ONLY <1>3, k \in 1 .. N DEF IsTextOf
    <3>. HIDE DEF t
    <3>2. StandsBehind(t, T, N, k)
      <4>1. Builds(T, texts, N, Characters)
        BY <1>1
      <4>. QED
        BY ONLY <4>1, <3>1, N \in Nat, k \in 1 .. N, TokensArePlaced
    <3>. QED
      BY ONLY <3>2 DEF t, StandsBehind
  <2>2. k - 1 \in 0 .. N
    OBVIOUS
  <2>3. V[k - 1] \in Seq(Characters) /\ V[k] = V[k - 1] \o values[k]
    BY ONLY <2>2, <1>2, k \in 1 .. N DEF Builds
  <2>. QED
    BY ONLY <1>3, <2>1, <2>3, k \in 1 .. N
<1>. HIDE DEF text
<1>6. ASSUME NEW k \in 1 .. N
      PROVE  \E walks : \/ ReadsThrough(walks, tokens[k], text, Len(T[k - 1]), V[k - 1])
                        \/ k = N /\ ReadsToEnd(walks, tokens[k], text, Len(T[k - 1]), V[k - 1])
  <2>1. CASE IsToken(tokens[k])
    BY ONLY <1>5, <2>1, k \in 1 .. N, TokenIsRead
  <2>2. CASE k = N /\ IsTail(tokens[k])
    <3>1. Len(T[k - 1]) + Len(tokens[k].text) = Len(text)
      BY <1>5, <2>2 DEF text
    <3>. QED
      BY ONLY <1>5, <2>2, <3>1, k \in 1 .. N, TailIsRead
  <2>. QED
    BY ONLY <1>3, <2>1, <2>2, k \in 1 .. N
<1>. DEFINE Within(k) == CHOOSE walks : \/ ReadsThrough(walks, tokens[k], text, Len(T[k - 1]), V[k - 1])
                                        \/ k = N /\ ReadsToEnd(walks, tokens[k], text, Len(T[k - 1]), V[k - 1])
<1>7. ASSUME NEW k \in 1 .. N
      PROVE  \/ ReadsThrough(Within(k), tokens[k], text, Len(T[k - 1]), V[k - 1])
             \/ k = N /\ ReadsToEnd(Within(k), tokens[k], text, Len(T[k - 1]), V[k - 1])
  BY <1>6
<1>. HIDE DEF Within, end
<1>8. ASSUME NEW k \in 1 .. N, NEW w \in Within(k)
      PROVE  IF w.index <= end THEN Turn(text, w) \in Within(k) \cup {Before(k)} ELSE k = N /\ w.out = V[N]
  <2>1. CASE ReadsThrough(Within(k), tokens[k], text, Len(T[k - 1]), V[k - 1])
    <3>1. w.index <= Len(text) /\ Turn(text, w) \in
            Within(k) \cup {Walk(Len(T[k - 1]) + Len(tokens[k].text), "normal", V[k - 1] \o tokens[k].value)}
      BY ONLY <2>1, w \in Within(k) DEF ReadsThrough
    <3>. QED
      BY ONLY <3>1, <1>5, k \in 1 .. N DEF end
  <2>2. CASE k = N /\ ReadsToEnd(Within(k), tokens[k], text, Len(T[k - 1]), V[k - 1])
    <3>1. IF w.index <= Len(text) THEN Turn(text, w) \in Within(k) ELSE w.out = V[k - 1] \o tokens[k].value
      BY ONLY <2>2, w \in Within(k) DEF ReadsToEnd
    <3>. QED
      BY ONLY <2>2, <3>1, <1>5, k \in 1 .. N DEF end
  <2>. QED
    BY ONLY <1>7, <2>1, <2>2, k \in 1 .. N
<1>9. ASSUME NEW k \in 1 .. N PROVE Before(k - 1) \in Within(k)
  BY ONLY <1>7, k \in 1 .. N DEF ReadsThrough, ReadsToEnd
<1>. HIDE DEF Before
<1>. DEFINE Kept == {Before(N)} \cup UNION {Within(k) : k \in 1 .. N}
<1>10. ASSUME NEW k \in 0 .. N PROVE Before(k) \in Kept
  <2>1. CASE k = N
    BY <2>1
  <2>2. CASE k # N
    <3>1. k + 1 \in 1 .. N /\ (k + 1) - 1 = k
      BY <2>2
    <3>2. Before(k) \in Within(k + 1)
      BY ONLY <3>1, <1>9
    <3>. QED
      BY <3>1, <3>2
  <2>. QED
    BY <2>1, <2>2
<1>11. StartOfWalk \in Kept
  <2>1. StartOfWalk = Before(0)
    BY <1>4 DEF StartOfWalk, Before, Walk
  <2>2. 0 \in 0 .. N
    OBVIOUS
  <2>. HIDE DEF Kept
  <2>. QED
    BY ONLY <2>1, <2>2, <1>10
<1>12. Before(N).index = end + 1 /\ Before(N).out = V[N]
  BY DEF Before, Walk, end, text
<1>13. ASSUME NEW w \in Kept PROVE IF w.index <= end THEN Turn(text, w) \in Kept ELSE w.out = V[N]
  <2>1. CASE w = Before(N)
    <3>1. ~(w.index <= end)
      BY ONLY <1>4, <1>12, <2>1
    <3>. QED
      BY ONLY <3>1, <2>1, <1>12
  <2>2. ASSUME NEW k \in 1 .. N, w \in Within(k) PROVE IF w.index <= end THEN Turn(text, w) \in Kept ELSE w.out = V[N]
    <3>1. IF w.index <= end THEN Turn(text, w) \in Within(k) \cup {Before(k)} ELSE k = N /\ w.out = V[N]
      BY <1>8, <2>2
    <3>2. Before(k) \in Kept
      <4>1. k \in 0 .. N
        OBVIOUS
      <4>. HIDE DEF Kept
      <4>. QED
        BY ONLY <4>1, <1>10
    <3>3. Within(k) \subseteq Kept
      OBVIOUS
    <3>. QED
      BY ONLY <3>1, <3>2, <3>3
  <2>. QED
    BY ONLY <2>1, <2>2, w \in Kept
<1>. HIDE DEF Kept
<1>14. \A w \in Walks \cap Kept : w.index <= Len(text) => Turn(text, w) \in Kept
  BY ONLY <1>13 DEF end
<1>15. PICK w \in Walks \cap Kept : w.index > Len(text) /\ StripComments(text) = w.out
  BY ONLY <1>4, <1>11, <1>14, LoopRule
<1>16. ~(w.index <= end)
  <2>1. w.index \in Nat
    BY ONLY w \in Walks \cap Kept DEF Walks
  <2>. QED
    BY ONLY <2>1, <1>4, <1>15 DEF end
<1>17. StripComments(text) = V[N]
  BY ONLY <1>13, <1>15, <1>16
<1>. QED
  BY ONLY <1>1, <1>2, <1>17 DEF text

-----------------------------------------------------------------------------
(* Parts of forms.                                                          *)

\* How many tokens stand before the data of a part.
Header(part) == IF part.file THEN 7 ELSE 5

\* The tokens of a written part, one by one.
IsWritten(w, part) ==
  LET h == Header(part)
      L == Len(part.data)
  IN  /\ Len(w) = h + L + 1
      /\ w[1] = Delimiter /\ w[2] = CRLF /\ w[3] = Disposition(part.name, part.file) /\ w[4] = CRLF
      /\ part.file => w[5] = MediaType /\ w[6] = CRLF
      /\ w[h] = CRLF
      /\ \A j \in 1 .. L : w[h + j] = part.data[j]
      /\ w[h + L + 1] = CRLF

\* A form's own tokens.
Marks == {Delimiter, Dashes, CRLF, MediaType}

LEMMA FieldsAreWritten ==
  ASSUME NEW S, NEW part, IsField(part), Marks \subseteq S, Disposition(part.name, part.file) \in S,
         part.data \in Seq(S)
  PROVE  Written(part) \in Seq(S) /\ IsWritten(Written(part), part)
<1>. DEFINE d == part.data
            L == Len(d)
            p == Disposition(part.name, part.file)
            a == <<Delimiter, CRLF, p, CRLF>>
            b == IF part.file THEN <<MediaType, CRLF>> ELSE <<>>
            c == <<CRLF>>
            m == IF part.file THEN 2 ELSE 0
            ab == a \o b
            abc == ab \o c
            abcd == abc \o d
            w == abcd \o c
<1>1. /\ a \in Seq(S) /\ Len(a) = 4 /\ a[1] = Delimiter /\ a[2] = CRLF /\ a[3] = p /\ a[4] = CRLF
      /\ c \in Seq(S) /\ Len(c) = 1 /\ c[1] = CRLF
  <2>1. Delimiter \in S /\ CRLF \in S /\ p \in S
    BY DEF Marks
  <2>. HIDE DEF p
  <2>. QED
    BY ONLY <2>1
<1>2. b \in Seq(S) /\ Len(b) = m /\ (part.file => b[1] = MediaType /\ b[2] = CRLF)
  <2>1. MediaType \in S /\ CRLF \in S
    BY DEF Marks
  <2>. QED
    BY <2>1
<1>3. part.file \in BOOLEAN /\ d \in Seq(S) /\ L \in Nat /\ L = Len(d)
  BY DEF IsField
<1>4. m \in {0, 2} /\ Header(part) = 5 + m /\ (part.file <=> m = 2)
  BY <1>3 DEF Header
<1>5. Written(part) = w
  BY DEF Written
<1>. HIDE DEF a, b, c, d, L, p, m
<1>6. ab \in Seq(S) /\ IsJoin(ab, a, 4, b, m)
  BY <1>1, <1>2, Joined
<1>. HIDE DEF ab
<1>7. Len(ab) = 4 + m
  BY <1>6 DEF IsJoin
<1>8. abc \in Seq(S) /\ IsJoin(abc, ab, 4 + m, c, 1)
  BY <1>1, <1>6, <1>7, Joined
<1>. HIDE DEF abc
<1>9. Len(abc) = 5 + m
  BY <1>4, <1>8 DEF IsJoin
<1>10. abcd \in Seq(S) /\ IsJoin(abcd, abc, 5 + m, d, L)
  BY <1>3, <1>8, <1>9, Joined
<1>. HIDE DEF abcd
<1>11. Len(abcd) = 5 + m + L
  BY <1>10 DEF IsJoin
<1>12. w \in Seq(S) /\ IsJoin(w, abcd, 5 + m + L, c, 1)
  BY <1>1, <1>10, <1>11, Joined
<1>. HIDE DEF w
<1>13. ASSUME NEW i \in 1 .. 5 + m PROVE w[i] = abc[i]
  <2>1. i \in 1 .. 5 + m + L
    BY <1>3, <1>4
  <2>. QED
    BY <2>1, <1>10, <1>12 DEF IsJoin
<1>14. ASSUME NEW i \in 1 .. 4 + m PROVE w[i] = ab[i]
  <2>1. i \in 1 .. 5 + m
    BY <1>4
  <2>. QED
    BY <2>1, <1>8, <1>13 DEF IsJoin
<1>15. w[5 + m] = CRLF
  <2>1. 5 + m \in 1 .. 5 + m /\ 5 + m = (4 + m) + 1 /\ 1 \in 1 .. 1
    BY <1>4
  <2>2. abc[(4 + m) + 1] = c[1]
    BY <2>1, <1>8 DEF IsJoin
  <2>. QED
    BY <2>1, <2>2, <1>1, <1>13
<1>16. w[1] = Delimiter /\ w[2] = CRLF /\ w[3] = p /\ w[4] = CRLF
  <2>1. ASSUME NEW i \in 1 .. 4 PROVE w[i] = a[i]
    <3>1. i \in 1 .. 4 + m
      BY <1>4
    <3>. QED
      BY <3>1, <1>6, <1>14 DEF IsJoin
  <2>. QED
    BY <2>1, <1>1
<1>17. part.file => w[5] = MediaType /\ w[6] = CRLF
  <2>. SUFFICES ASSUME m = 2, b[1] = MediaType, b[2] = CRLF PROVE w[5] = MediaType /\ w[6] = CRLF
    BY <1>2, <1>4
  <2>1. ASSUME NEW i \in 1 .. 2 PROVE w[4 + i] = b[i]
    <3>1. 4 + i \in 1 .. 4 + m /\ i \in 1 .. m
      OBVIOUS
    <3>. QED
      BY <3>1, <1>6, <1>14 DEF IsJoin
  <2>. QED
    BY <2>1
<1>18. ASSUME NEW j \in 1 .. L PROVE w[(5 + m) + j] = d[j]
  <2>1. (5 + m) + j \in 1 .. 5 + m + L
    BY <1>3, <1>4
  <2>. QED
    BY <2>1, <1>10, <1>12 DEF IsJoin
<1>19. w[(5 + m + L) + 1] = CRLF /\ Len(w) = (5 + m + L) + 1
  <2>1. 1 \in 1 .. 1
    OBVIOUS
  <2>. QED
    BY <2>1, <1>1, <1>12 DEF IsJoin
<1>20. /\ Len(w) = (5 + m) + L + 1
       /\ w[1] = Delimiter /\ w[2] = CRLF /\ w[3] = p /\ w[4] = CRLF
       /\ part.file => w[5] = MediaType /\ w[6] = CRLF
       /\ w[5 + m] = CRLF
       /\ \A j \in 1 .. L : w[(5 + m) + j] = d[j]
       /\ w[(5 + m) + L + 1] = CRLF
  BY ONLY <1>3, <1>4, <1>15, <1>16, <1>17, <1>18, <1>19
<1>21. IsWritten(w, part)
  BY ONLY <1>4, <1>20 DEF IsWritten, d, L, p
<1>. QED
  BY <1>5, <1>12, <1>21

\* The tokens of a form are told apart.
LEMMA TokensDiffer ==
  /\ Delimiter # CRLF /\ Delimiter # Dashes /\ Delimiter # MediaType /\ CRLF # Dashes /\ CRLF # MediaType
  /\ ~IsDisposition(CRLF) /\ ~IsDisposition(MediaType)
  /\ \A name : \A file \in BOOLEAN :
       LET line == Disposition(name, file)
       IN  /\ line # Delimiter /\ line # CRLF /\ IsDisposition(line)
           /\ line[2] = name /\ (Len(line) = 3 <=> file)
<1>1. /\ Delimiter[1] = "delimiter" /\ CRLF[1] = "CRLF" /\ Dashes[1] = "dashes"
      /\ MediaType[1] = "content-type"
  BY DEF Delimiter, CRLF, Dashes, MediaType
<1>2. ASSUME NEW name, NEW file \in BOOLEAN
      PROVE  /\ Disposition(name, file)[1] = "disposition" /\ Disposition(name, file)[2] = name
             /\ Len(Disposition(name, file)) = 3 <=> file
  BY DEF Disposition
<1>. QED
  BY <1>1, <1>2 DEF IsDisposition

\* Some number of a set is its least.
LEMMA LeastExists ==
  ASSUME NEW numbers, numbers \subseteq Nat, numbers # {}
  PROVE  \E x \in numbers : \A y \in numbers : x <= y
<1>1. PICK x \in numbers : \A y \in numbers : ~(<<y, x>> \in OpToRel(<, Nat))
  BY NatLessThanWellFounded, WFMin
<1>2. ASSUME NEW y \in numbers PROVE x <= y
  <2>1. x \in Nat /\ y \in Nat
    OBVIOUS
  <2>2. y < x => <<y, x>> \in OpToRel(<, Nat)
    BY <2>1 DEF OpToRel
  <2>3. ~(y < x)
    BY <1>1, <2>2
  <2>. QED
    BY <2>1, <2>3
<1>. QED
  BY <1>2

\* A set's least and greatest, known by sight.
LEMMA LeastKnown ==
  ASSUME NEW numbers \in SUBSET Int, NEW x \in numbers, \A y \in numbers : x =< y
  PROVE  Min(numbers) = x
<1>1. Min(numbers) \in numbers /\ \A y \in numbers : Min(numbers) =< y
  BY DEF Min
<1>2. PICK y \in numbers : y = Min(numbers) /\ \A z \in numbers : y =< z
  BY ONLY <1>1
<1>3. x =< y /\ y =< x /\ x \in Int /\ y \in Int
  BY <1>2
<1>4. x = y
  BY ONLY <1>3
<1>. QED
  BY <1>2, <1>4

LEMMA OnlyOneIsMost ==
  ASSUME NEW x \in Int
  PROVE  Max({x}) = x
  BY DEF Max

\* What was written as a part is read as that part.
LEMMA PartIsRead ==
  ASSUME NEW S, NEW w \in Seq(S), NEW part, IsField(part), IsWritten(w, part)
  PROVE  LET segment == SubSeq(w, 2, Len(w))
         IN  ~Closes(segment) /\ IsPart(segment) /\ PartOf(segment) = part
<1>. DEFINE h == Header(part)
            d == part.data
            L == Len(d)
            M == Len(w)
            s == SubSeq(w, 2, M)
            q == SubSeq(s, 2, M - 2)
            line == Disposition(part.name, part.file)
            end == h - 3
<1>1. part.file \in BOOLEAN /\ L \in Nat /\ d \in Seq(Range(d) \ {Delimiter}) /\ L = Len(d)
  BY DEF IsField
<1>2. h \in {5, 7} /\ (part.file <=> h = 7)
  BY <1>1 DEF Header
<1>3. /\ M = h + L + 1
      /\ w[1] = Delimiter /\ w[2] = CRLF /\ w[3] = line /\ w[4] = CRLF
      /\ part.file => w[5] = MediaType /\ w[6] = CRLF
      /\ w[h] = CRLF
      /\ \A j \in 1 .. L : w[h + j] = d[j]
      /\ w[h + L + 1] = CRLF
  BY DEF IsWritten
<1>4. M \in Nat /\ M = Len(w) /\ \A i \in 1 .. M : w[i] \in S
  OBVIOUS
<1>. HIDE DEF h, d, L, M, line
<1>5. s \in Seq(S) /\ Len(s) = M - 1 /\ \A i \in 1 .. M - 1 : s[i] = w[i + 1]
  <2>1. \A i \in 2 .. M : w[i] \in S
    BY <1>4
  <2>2. 2 <= M /\ M - 2 + 1 = M - 1
    BY <1>1, <1>2, <1>3, <1>4
  <2>3. /\ s \in Seq(S) /\ Len(s) = M - 2 + 1
        /\ \A i \in 1 .. M - 2 + 1 : s[i] = w[2 + i - 1]
    BY <1>4, <2>1, <2>2, SubSeqProperties
  <2>. HIDE DEF s
  <2>4. ASSUME NEW i \in 1 .. M - 1 PROVE s[i] = w[i + 1]
    <3>1. i \in 1 .. M - 2 + 1 /\ 2 + i - 1 = i + 1
      BY <1>4
    <3>. QED
      BY <2>3, <3>1
  <2>. QED
    BY <2>2, <2>3, <2>4
<1>. HIDE DEF s
<1>6. M - 3 \in Nat /\ Len(s) > 1 /\ Last(s) = CRLF /\ s[1] = CRLF /\ s # <<>>
  <2>1. M - 1 \in 1 .. M - 1 /\ 1 \in 1 .. M - 1 /\ (M - 1) + 1 = M /\ M - 3 \in Nat
    BY <1>1, <1>2, <1>3
  <2>2. s[M - 1] = w[M] /\ s[1] = w[2]
    BY <1>5, <2>1
  <2>3. Len(s) > 1
    BY <1>5, <2>1
  <2>. QED
    BY <1>3, <1>5, <2>1, <2>2, <2>3 DEF Last
<1>7. Stripped(s) = q
  <2>1. Stripped(s) = SubSeq(s, 2, Len(s) - 1)
    BY <1>6 DEF Stripped
  <2>2. Len(s) - 1 = M - 2
    BY <1>4, <1>5
  <2>. QED
    BY <2>1, <2>2
<1>8. q \in Seq(S) /\ Len(q) = M - 3 /\ \A i \in 1 .. M - 3 : q[i] = w[i + 2]
  <2>1. \A i \in 2 .. M - 2 : s[i] \in S
    BY <1>4, <1>5
  <2>2. 2 <= M - 2 /\ (M - 2) - 2 + 1 = M - 3
    BY <1>1, <1>2, <1>3, <1>4
  <2>3. /\ q \in Seq(S) /\ Len(q) = (M - 2) - 2 + 1
        /\ \A i \in 1 .. (M - 2) - 2 + 1 : q[i] = s[2 + i - 1]
    BY <1>4, <2>1, <2>2, SubSeqProperties
  <2>. HIDE DEF q
  <2>4. ASSUME NEW i \in 1 .. M - 3 PROVE q[i] = w[i + 2]
    <3>1. i \in 1 .. (M - 2) - 2 + 1 /\ 2 + i - 1 = i + 1 /\ i + 1 \in 1 .. M - 1 /\ (i + 1) + 1 = i + 2
      BY <1>4
    <3>2. q[i] = s[i + 1] /\ s[i + 1] = w[(i + 1) + 1]
      BY <1>5, <2>3, <3>1
    <3>. QED
      BY <3>1, <3>2
  <2>. QED
    BY <2>2, <2>3, <2>4
<1>. HIDE DEF q
<1>9. /\ q[1] = line /\ q[2] = CRLF /\ q[h - 2] = CRLF
      /\ part.file => q[3] = MediaType /\ q[4] = CRLF
      /\ \A j \in 1 .. L : q[(h - 2) + j] = d[j]
  <2>1. M - 3 = (h - 2) + L /\ h - 2 \in 1 .. M - 3 /\ 1 \in 1 .. M - 3 /\ 2 \in 1 .. M - 3 /\ (h - 2) + 2 = h
    BY <1>1, <1>2, <1>3
  <2>2. part.file => 3 \in 1 .. M - 3 /\ 4 \in 1 .. M - 3
    BY <1>1, <1>2, <1>3
  <2>3. ASSUME NEW j \in 1 .. L PROVE q[(h - 2) + j] = d[j]
    <3>1. (h - 2) + j \in 1 .. M - 3 /\ ((h - 2) + j) + 2 = h + j
      BY <1>1, <1>2, <1>3
    <3>. QED
      BY <1>3, <1>8, <3>1
  <2>4. q[1] = w[3] /\ q[2] = w[4] /\ q[h - 2] = w[h]
    BY <1>8, <2>1
  <2>5. part.file => q[3] = w[5] /\ q[4] = w[6]
    BY <1>8, <2>2
  <2>. QED
    BY <1>3, <2>3, <2>4, <2>5
<1>10. line # CRLF /\ IsDisposition(line) /\ line[2] = part.name /\ (Len(line) = 3 <=> part.file)
  BY <1>1, TokensDiffer DEF line
<1>11. HeaderEnd(q) = end
  <2>. DEFINE ends == {i \in 1 .. Len(q) - 1 : q[i] = CRLF /\ q[i + 1] = CRLF}
  <2>1. end \in ends
    <3>1. end \in 1 .. Len(q) - 1 /\ end + 1 = h - 2
      BY <1>1, <1>2, <1>3, <1>8
    <3>2. q[end] = CRLF
      BY <1>2, <1>9
    <3>. HIDE DEF end
    <3>. QED
      BY <1>9, <3>1, <3>2
  <2>2. ASSUME NEW i \in ends PROVE end =< i
    <3>. SUFFICES ASSUME i < end PROVE FALSE
      BY <1>2
    <3>1. i \in 1 .. 3 /\ (i # 1 => h = 7) /\ q[i] = CRLF /\ q[i + 1] = CRLF
      BY <1>2
    <3>2. i # 1
      BY <3>1, <1>9, <1>10
    <3>3. q[3] = CRLF /\ part.file
      BY <1>2, <3>1, <3>2
    <3>. QED
      BY <3>3, <1>9, TokensDiffer
  <2>3. ends \in SUBSET Int
    OBVIOUS
  <2>4. Min(ends) = end
    <3>. HIDE DEF ends, end
    <3>. QED
      BY <2>1, <2>2, <2>3, LeastKnown
  <2>. QED
    BY <2>1, <2>4 DEF HeaderEnd
<1>12. HeaderEnd(q) # 0
  BY <1>2, <1>11
<1>13. NamingLines(q) = {1}
  <2>1. NamingLines(q) = {i \in 1 .. end - 1 : IsDisposition(q[i])}
    BY <1>11 DEF NamingLines
  <2>2. 1 \in 1 .. end - 1
    BY <1>2
  <2>3. ASSUME NEW i \in 1 .. end - 1, i # 1 PROVE ~IsDisposition(q[i])
    <3>1. i \in {2, 3} /\ h = 7
      BY <1>2, <2>3
    <3>2. q[i] \in {CRLF, MediaType}
      BY <1>2, <1>9, <3>1
    <3>. QED
      BY <3>2, TokensDiffer
  <2>4. IsDisposition(q[1])
    BY <1>9, <1>10
  <2>. QED
    BY <2>1, <2>2, <2>3, <2>4
<1>14. ~Closes(s)
  BY <1>6, TokensDiffer DEF Closes
<1>15. IsPart(s)
  BY <1>6, <1>7, <1>12, <1>13 DEF IsPart
<1>16. SubSeq(q, end + 2, Len(q)) = d
  <2>. DEFINE u == SubSeq(q, end + 2, Len(q))
              n == Len(q)
              m == end + 2
              T == S \cup (Range(d) \ {Delimiter})
  <2>1. n = (h - 2) + L /\ n \in Nat /\ m = h - 1 /\ m \in Int /\ n - m + 1 = L /\ m > 0
    BY <1>1, <1>2, <1>3, <1>8
  <2>2. \A i \in m .. n : q[i] \in S
    BY <1>8, <2>1
  <2>. HIDE DEF m, n
  <2>3. /\ SubSeq(q, m, n) \in Seq(S) /\ Len(SubSeq(q, m, n)) = IF m <= n THEN n - m + 1 ELSE 0
        /\ \A i \in 1 .. n - m + 1 : SubSeq(q, m, n)[i] = q[m + i - 1]
    BY <2>1, <2>2, SubSeqProperties
  <2>4. u = SubSeq(q, m, n)
    BY DEF m, n
  <2>. HIDE DEF u
  <2>5. Len(u) = L
    BY <1>1, <2>1, <2>3, <2>4
  <2>6. ASSUME NEW i \in 1 .. L PROVE u[i] = d[i]
    <3>1. i \in 1 .. n - m + 1 /\ m + i - 1 = (h - 2) + i
      BY <1>1, <1>2, <2>1
    <3>. QED
      BY <1>9, <2>3, <2>4, <3>1
  <2>7. u \in Seq(T) /\ d \in Seq(T)
    BY <1>1, <2>3, <2>4
  <2>. HIDE DEF T
  <2>8. u = d
    BY <1>1, <2>5, <2>6, <2>7, SeqEqual
  <2>. QED
    BY <2>8 DEF u
<1>17. PartOf(s) = [name |-> line[2], file |-> Len(line) = 3, data |-> SubSeq(q, end + 2, Len(q))]
  <2>1. Max(NamingLines(q)) = 1
    BY <1>13, OnlyOneIsMost
  <2>. QED
    BY <1>7, <1>9, <1>11, <2>1 DEF PartOf
<1>18. (Len(line) = 3) = part.file
  BY <1>1, <1>10
<1>19. part = [name |-> part.name, file |-> part.file, data |-> part.data]
  BY DEF IsField
<1>20. PartOf(s) = part
  BY <1>10, <1>16, <1>17, <1>18, <1>19 DEF d
<1>. QED
  BY <1>14, <1>15, <1>20 DEF s, M

-----------------------------------------------------------------------------
(* Where the parts of a form stand.                                         *)

\* The i-th part of a form begins at at[i] and ends before at[i + 1].
LiesAt(form, part, at, i, S) ==
  /\ IsField(part) /\ IsWritten(Written(part), part)
  /\ StandsAt(Written(part), form, at[i] - 1, S)
  /\ at[i + 1] = at[i] + Len(Written(part))

\* A form of N parts, which begin at at[1], ..., at[N], and an end at at[N + 1].
IsLaid(form, parts, N, at, S) ==
  /\ form \in Seq(S)
  /\ at \in [1 .. N + 1 -> Nat \ {0}] /\ at[1] = 1
  /\ \A i \in 1 .. N : LiesAt(form, parts[i], at, i, S)
  /\ Len(form) = at[N + 1] + 2
  /\ form[at[N + 1]] = Delimiter /\ form[at[N + 1] + 1] = Dashes /\ form[at[N + 1] + 2] = CRLF

LEMMA FormIsLaid ==
  ASSUME NEW parts, parts \in Seq(Range(parts)), \A i \in DOMAIN parts : IsField(parts[i])
  PROVE  \E at, S : IsLaid(BuildMultipart(parts), parts, Len(parts), at, S)
<1>. DEFINE N == Len(parts)
            lines == {Disposition(parts[i].name, parts[i].file) : i \in 1 .. N}
            S == Marks \cup lines \cup UNION {Range(parts[i].data) : i \in 1 .. N}
            W == [i \in DOMAIN parts |-> Written(parts[i])]
            end == <<Delimiter, Dashes, CRLF>>
            form == FlattenSeq(W) \o end
<1>1. N \in Nat /\ DOMAIN parts = 1 .. N
  BY LenProperties
<1>2. ASSUME NEW i \in 1 .. N PROVE W[i] \in Seq(S) /\ W[i] = Written(parts[i]) /\ IsWritten(W[i], parts[i])
  <2>1. IsField(parts[i]) /\ W[i] = Written(parts[i])
    BY <1>1
  <2>. HIDE DEF W
  <2>2. Disposition(parts[i].name, parts[i].file) \in S /\ Marks \subseteq S
    OBVIOUS
  <2>3. Range(parts[i].data) \subseteq S
    OBVIOUS
  <2>. HIDE DEF S
  <2>4. parts[i].data \in Seq(S)
    <3>1. parts[i].data \in Seq(Range(parts[i].data) \ {Delimiter})
      BY <2>1 DEF IsField
    <3>. QED
      BY <2>3, <3>1
  <2>. QED
    BY ONLY <2>1, <2>2, <2>4, FieldsAreWritten
<1>3. Len(W) = N /\ (N = 0 => W = <<>>)
  BY <1>1
<1>4. end \in Seq(S) /\ Len(end) = 3 /\ end[1] = Delimiter /\ end[2] = Dashes /\ end[3] = CRLF
  <2>1. Delimiter \in S /\ Dashes \in S /\ CRLF \in S
    BY DEF Marks
  <2>. HIDE DEF S
  <2>. QED
    BY ONLY <2>1
<1>5. BuildMultipart(parts) = form
  BY DEF BuildMultipart
<1>. HIDE DEF S, W, N, end
<1>6. PICK upto : Builds(upto, W, N, S) /\ FlattenSeq(W) = upto[N]
  <2>1. \A n \in 1 .. N : W[n] \in Seq(S)
    BY <1>2
  <2>. QED
    BY ONLY <1>1, <1>3, <2>1, Flattening
<1>7. upto[N] \in Seq(S) /\ (\A i \in 0 .. N : upto[i] \in Seq(S)) /\ upto[0] = <<>>
  BY <1>1, <1>6 DEF Builds
<1>. DEFINE at == [i \in 1 .. N + 1 |-> Len(upto[i - 1]) + 1]
<1>8. at \in [1 .. N + 1 -> Nat \ {0}] /\ at[1] = 1
  <2>1. ASSUME NEW i \in 1 .. N + 1 PROVE Len(upto[i - 1]) + 1 \in Nat \ {0}
    <3>1. i - 1 \in 0 .. N
      BY <1>1
    <3>. QED
      BY <1>7, <3>1
  <2>2. 1 \in 1 .. N + 1 /\ 1 - 1 = 0
    BY <1>1
  <2>. QED
    BY <1>7, <2>1, <2>2
<1>9. form \in Seq(S) /\ IsJoin(form, upto[N], Len(upto[N]), end, 3)
  BY <1>4, <1>6, <1>7, Joined
<1>. HIDE DEF form
<1>10. /\ Len(form) = at[N + 1] + 2
       /\ form[at[N + 1]] = Delimiter /\ form[at[N + 1] + 1] = Dashes /\ form[at[N + 1] + 2] = CRLF
  <2>1. at[N + 1] = Len(upto[N]) + 1 /\ Len(upto[N]) \in Nat
    BY <1>1, <1>7
  <2>2. form[Len(upto[N]) + 1] = end[1] /\ form[Len(upto[N]) + 2] = end[2]
        /\ form[Len(upto[N]) + 3] = end[3] /\ Len(form) = Len(upto[N]) + 3
    BY <1>9 DEF IsJoin
  <2>3. (Len(upto[N]) + 1) + 1 = Len(upto[N]) + 2 /\ (Len(upto[N]) + 1) + 2 = Len(upto[N]) + 3
    BY <2>1
  <2>. QED
    BY <1>4, <2>1, <2>2, <2>3
<1>11. ASSUME NEW i \in 1 .. N PROVE LiesAt(form, parts[i], at, i, S)
  <2>1. StandsBetween(upto, W, N, S, i)
    BY <1>1, <1>6, PartsStand
  <2>2. i + 1 \in 1 .. N + 1 /\ (i + 1) - 1 = i /\ i - 1 \in 0 .. N /\ i \in 1 .. N + 1
    BY <1>1
  <2>. DEFINE base == Len(upto[i - 1])
              all == upto[N]
              w == W[i]
  <2>3. base \in Nat /\ at[i] = base + 1 /\ at[i + 1] = Len(upto[i]) + 1
    BY <1>7, <2>2
  <2>4. StandsAt(w, all, base, S) /\ base + Len(w) = Len(upto[i])
    BY <2>1 DEF StandsBetween
  <2>. HIDE DEF base, all, w, at
  <2>5. Len(w) \in Nat /\ w \in Seq(S)
    BY <2>4 DEF StandsAt
  <2>6. IsJoin(form, all, Len(all), end, 3) /\ Len(all) \in Nat
    BY <1>7, <1>9 DEF all
  <2>7. StandsAt(w, form, base, S)
    <3>1. base + Len(w) <= Len(form)
      BY <2>3, <2>4, <2>5, <2>6 DEF IsJoin, StandsAt
    <3>2. ASSUME NEW j \in 1 .. Len(w) PROVE form[base + j] = w[j]
      <4>1. base + j \in 1 .. Len(all)
        BY <2>3, <2>4, <2>5, <2>6 DEF StandsAt
      <4>2. form[base + j] = all[base + j]
        BY <2>6, <4>1 DEF IsJoin
      <4>. QED
        BY <2>4, <4>2 DEF StandsAt
    <3>. QED
      BY ONLY <1>9, <2>3, <2>5, <3>1, <3>2 DEF StandsAt
  <2>8. base = at[i] - 1 /\ at[i + 1] = at[i] + Len(w)
    BY <2>3, <2>4, <2>5
  <2>9. w = Written(parts[i]) /\ IsWritten(w, parts[i])
    BY <1>2 DEF w
  <2>10. IsField(parts[i])
    BY <1>1
  <2>. QED
    BY ONLY <2>7, <2>8, <2>9, <2>10 DEF LiesAt
<1>. HIDE DEF at
<1>12. IsLaid(form, parts, N, at, S)
  BY ONLY <1>8, <1>9, <1>10, <1>11 DEF IsLaid
<1>. QED
  BY <1>5, <1>12 DEF N

\* Later parts begin later.
LEMMA PartsRise ==
  ASSUME NEW form, NEW parts, NEW N \in Nat, NEW at, NEW S, IsLaid(form, parts, N, at, S)
  PROVE  /\ \A i \in 1 .. N : at[i] + 1 < at[i + 1]
         /\ \A i, j \in 1 .. N + 1 : i < j => at[i] < at[j]
<1>1. at \in [1 .. N + 1 -> Nat \ {0}]
  BY DEF IsLaid
<1>2. ASSUME NEW i \in 1 .. N PROVE at[i] + 1 < at[i + 1]
  <2>. DEFINE w == Written(parts[i])
  <2>1. at[i + 1] = at[i] + Len(w) /\ IsField(parts[i]) /\ IsWritten(w, parts[i])
    BY DEF IsLaid, LiesAt
  <2>2. Len(w) = Header(parts[i]) + Len(parts[i].data) + 1 /\ Len(parts[i].data) \in Nat
    BY <2>1 DEF IsWritten, IsField
  <2>3. Header(parts[i]) \in {5, 7}
    BY DEF Header
  <2>4. at[i] \in Nat
    BY <1>1
  <2>. HIDE DEF w
  <2>. QED
    BY <2>1, <2>2, <2>3, <2>4
<1>. DEFINE far == {d \in Nat : \A i \in 1 .. N + 1 : i + d + 1 <= N + 1 => at[i] < at[i + d + 1]}
<1>3. 0 \in far
  <2>1. ASSUME NEW i \in 1 .. N + 1, i + 0 + 1 <= N + 1 PROVE at[i] < at[i + 0 + 1]
    <3>1. i \in 1 .. N /\ i + 0 + 1 = i + 1 /\ i + 1 \in 1 .. N + 1
      BY <2>1
    <3>2. at[i] + 1 < at[i + 1] /\ at[i] \in Nat /\ at[i + 1] \in Nat
      BY <3>1, <1>1, <1>2
    <3>. QED
      BY <3>1, <3>2
  <2>. QED
    BY <2>1
<1>4. ASSUME NEW d \in Nat, d \in far PROVE d + 1 \in far
  <2>. SUFFICES ASSUME NEW i \in 1 .. N + 1, i + (d + 1) + 1 <= N + 1 PROVE at[i] < at[i + (d + 1) + 1]
    OBVIOUS
  <2>1. i + d + 1 \in 1 .. N /\ i + (d + 1) + 1 = (i + d + 1) + 1 /\ i + d + 1 <= N + 1 /\ i + d + 1 \in 1 .. N + 1
        /\ (i + d + 1) + 1 \in 1 .. N + 1
    OBVIOUS
  <2>. DEFINE k == i + d + 1
  <2>2. at[i] < at[k]
    BY <1>4, <2>1
  <2>. HIDE DEF k
  <2>3. at[k] + 1 < at[k + 1] /\ at[i] \in Nat /\ at[k] \in Nat /\ at[k + 1] \in Nat
    BY <1>1, <1>2, <2>1 DEF k
  <2>4. at[i] < at[k + 1]
    BY ONLY <2>2, <2>3
  <2>. QED
    BY <2>1, <2>4 DEF k
<1>5. Nat \subseteq far
  <2>. HIDE DEF far
  <2>. QED
    BY <1>3, <1>4, SetInduction
<1>6. ASSUME NEW i \in 1 .. N + 1, NEW j \in 1 .. N + 1, i < j PROVE at[i] < at[j]
  <2>1. j - i - 1 \in Nat /\ i + (j - i - 1) + 1 = j
    BY <1>6
  <2>2. j - i - 1 \in far
    BY <1>5, <2>1
  <2>. QED
    BY <2>1, <2>2
<1>. QED
  BY <1>2, <1>6

\* Every place before the end is in one of the parts.
LEMMA PlaceIsInPart ==
  ASSUME NEW form, NEW parts, NEW N \in Nat, NEW at, NEW S, IsLaid(form, parts, N, at, S),
         NEW p \in Nat \ {0}, p < at[N + 1]
  PROVE  \E i \in 1 .. N : at[i] <= p /\ p < at[i + 1]
<1>1. at \in [1 .. N + 1 -> Nat \ {0}] /\ at[1] = 1
  BY DEF IsLaid
<1>. DEFINE found == {n \in Nat : n <= N /\ p < at[n + 1] => \E i \in 1 .. N : at[i] <= p /\ p < at[i + 1]}
<1>2. 0 \in found
  BY <1>1
<1>3. ASSUME NEW n \in Nat, n \in found PROVE n + 1 \in found
  <2>. SUFFICES ASSUME n + 1 <= N, p < at[(n + 1) + 1]
                PROVE  \E i \in 1 .. N : at[i] <= p /\ p < at[i + 1]
    OBVIOUS
  <2>1. n + 1 \in 1 .. N + 1 /\ n + 1 \in 1 .. N /\ n <= N
    OBVIOUS
  <2>2. at[n + 1] \in Nat
    BY <1>1, <2>1
  <2>3. CASE p < at[n + 1]
    BY <1>3, <2>1, <2>3
  <2>4. CASE at[n + 1] <= p
    BY <2>1, <2>4
  <2>. QED
    BY <2>2, <2>3, <2>4
<1>4. N \in found
  <2>. HIDE DEF found
  <2>. QED
    BY <1>2, <1>3, SetInduction
<1>. QED
  BY <1>4

\* A form has its delimiters where a part begins, and at the end.
IsDelimited(form, N, at) ==
  /\ \A i \in 1 .. N + 1 : at[i] \in 1 .. Len(form) /\ form[at[i]] = Delimiter
  /\ \A p \in 1 .. at[N + 1] : form[p] = Delimiter => \E i \in 1 .. N + 1 : p = at[i]
  /\ \A i \in 1 .. N : form[at[i] + 1] = CRLF

LEMMA DelimitersAreAt ==
  ASSUME NEW form, NEW parts, NEW N \in Nat, NEW at, NEW S, IsLaid(form, parts, N, at, S)
  PROVE  IsDelimited(form, N, at)
<1>1. /\ at \in [1 .. N + 1 -> Nat \ {0}] /\ form[at[N + 1]] = Delimiter /\ Len(form) = at[N + 1] + 2
      /\ \A i \in 1 .. N : LiesAt(form, parts[i], at, i, S)
  BY DEF IsLaid
<1>2. \A i, j \in 1 .. N + 1 : i < j => at[i] < at[j]
  BY PartsRise
<1>3. ASSUME NEW i \in 1 .. N
      PROVE  /\ \A j \in 1 .. at[i + 1] - at[i] : form[at[i] - 1 + j] = Written(parts[i])[j]
             /\ IsField(parts[i]) /\ IsWritten(Written(parts[i]), parts[i])
             /\ at[i + 1] - at[i] = Len(Written(parts[i]))
             /\ at[i] \in Nat /\ at[i + 1] \in Nat
  <2>1. i \in 1 .. N + 1 /\ i + 1 \in 1 .. N + 1
    OBVIOUS
  <2>2. at[i] \in Nat /\ at[i + 1] \in Nat
    BY <1>1, <2>1
  <2>. DEFINE w == Written(parts[i])
  <2>3. StandsAt(w, form, at[i] - 1, S) /\ at[i + 1] = at[i] + Len(w) /\ IsWritten(w, parts[i]) /\ IsField(parts[i])
    BY <1>1 DEF LiesAt
  <2>. HIDE DEF w
  <2>4. Len(w) \in Nat
    BY <2>3 DEF StandsAt
  <2>5. at[i + 1] - at[i] = Len(w)
    BY <2>2, <2>3, <2>4
  <2>. QED
    BY <2>2, <2>3, <2>5 DEF StandsAt, w
<1>4. ASSUME NEW i \in 1 .. N PROVE form[at[i]] = Delimiter /\ form[at[i] + 1] = CRLF
  <2>1. at[i] + 1 < at[i + 1]
    BY PartsRise
  <2>0. at[i] \in Nat /\ at[i + 1] \in Nat
    BY <1>3
  <2>2. 1 \in 1 .. at[i + 1] - at[i] /\ 2 \in 1 .. at[i + 1] - at[i] /\ at[i] - 1 + 1 = at[i] /\ at[i] - 1 + 2 = at[i] + 1
    BY ONLY <2>0, <2>1
  <2>3. Written(parts[i])[1] = Delimiter /\ Written(parts[i])[2] = CRLF
    BY <1>3 DEF IsWritten
  <2>. QED
    BY <1>3, <2>2, <2>3
<1>5. ASSUME NEW i \in 1 .. N + 1 PROVE at[i] \in 1 .. Len(form) /\ form[at[i]] = Delimiter
  <2>1. at[i] \in Nat \ {0} /\ at[N + 1] \in Nat /\ (i = N + 1 \/ at[i] < at[N + 1])
    <3>1. N + 1 \in 1 .. N + 1
      OBVIOUS
    <3>. QED
      BY <1>1, <1>2, <3>1
  <2>2. form[at[i]] = Delimiter
    <3>1. i = N + 1 \/ i \in 1 .. N
      OBVIOUS
    <3>. QED
      BY <1>1, <1>4, <3>1
  <2>3. at[i] <= at[N + 1] /\ Len(form) = at[N + 1] + 2
    BY <1>1, <2>1
  <2>. QED
    BY ONLY <2>1, <2>2, <2>3
<1>6. ASSUME NEW p \in 1 .. at[N + 1], form[p] = Delimiter PROVE \E i \in 1 .. N + 1 : p = at[i]
  <2>. SUFFICES ASSUME p # at[N + 1] PROVE \E i \in 1 .. N + 1 : p = at[i]
    OBVIOUS
  <2>1. p \in Nat \ {0} /\ p < at[N + 1]
    BY <1>1
  <2>2. PICK i \in 1 .. N : at[i] <= p /\ p < at[i + 1]
    BY <2>1, PlaceIsInPart
  <2>. DEFINE j == p - at[i] + 1
              w == Written(parts[i])
              h == Header(parts[i])
              d == parts[i].data
  <2>0. at[i] \in Nat /\ at[i + 1] \in Nat
    BY <1>3
  <2>3. j \in 1 .. at[i + 1] - at[i] /\ at[i] - 1 + j = p
    BY ONLY <2>0, <2>1, <2>2
  <2>4. w[j] = Delimiter /\ j \in 1 .. Len(w)
    BY <1>3, <1>6, <2>3
  <2>5. IsField(parts[i]) /\ IsWritten(w, parts[i])
    BY <1>3
  <2>6. d \in Seq(Range(d) \ {Delimiter}) /\ parts[i].file \in BOOLEAN
    BY <2>5 DEF IsField
  <2>7. h \in {5, 7} /\ (parts[i].file <=> h = 7)
    BY <2>6 DEF Header
  <2>8. j = 1
    <3>. SUFFICES ASSUME j # 1 PROVE FALSE
      OBVIOUS
    <3>. HIDE DEF j
    <3>1. j \in Int /\ j > 1 /\ j <= h + Len(d) + 1 /\ Len(d) \in Nat
      BY <2>4, <2>5, <2>6, <2>7 DEF IsWritten
    <3>2. CASE j <= h
      <4>1. \/ j \in {2, 4, h}
            \/ j = 3
            \/ parts[i].file /\ j \in {5, 6}
        BY <2>7, <3>1, <3>2
      <4>2. w[j] \in {CRLF, MediaType, Disposition(parts[i].name, parts[i].file)}
        BY <2>5, <4>1 DEF IsWritten
      <4>. QED
        BY <2>4, <2>6, <4>2, TokensDiffer
    <3>3. CASE j > h /\ j <= h + Len(d)
      <4>. DEFINE e == j - h
      <4>1. e \in 1 .. Len(d) /\ h + e = j
        BY <2>7, <3>1, <3>3
      <4>. HIDE DEF e
      <4>2. w[j] = d[e] /\ d[e] # Delimiter
        <5>1. \A f \in 1 .. Len(d) : w[h + f] = d[f]
          BY <2>5 DEF IsWritten
        <5>2. d[e] \in Range(d) \ {Delimiter}
          BY ONLY <2>6, <4>1
        <5>. QED
          BY ONLY <4>1, <5>1, <5>2
      <4>. QED
        BY <2>4, <4>2
    <3>4. CASE j = h + Len(d) + 1
      <4>1. w[j] = CRLF
        BY <2>5, <3>4 DEF IsWritten
      <4>. QED
        BY <2>4, <4>1, TokensDiffer
    <3>. QED
      BY <2>7, <3>1, <3>2, <3>3, <3>4
  <2>9. p = at[i] /\ i \in 1 .. N + 1
    BY <1>3, <2>3, <2>8
  <2>. QED
    BY <2>9
<1>. QED
  BY ONLY <1>4, <1>5, <1>6 DEF IsDelimited

-----------------------------------------------------------------------------
(* A form is read as the parts it was made of.                              *)

\* at lists N numbers in order.
Rises(at, N) == (\A i \in 1 .. N : at[i] \in Nat) /\ \A i, j \in 1 .. N : i < j => at[i] < at[j]

\* The k-th of numbers that are listed in order.
LEMMA NthIsKth ==
  ASSUME NEW N \in Nat, NEW at, Rises(at, N)
  PROVE  LET positions == {at[i] : i \in 1 .. N}
         IN  Cardinality(positions) = N /\ \A k \in 1 .. N : Nth(positions, k) = at[k]
<1>. DEFINE P == {at[i] : i \in 1 .. N}
            first(n) == {at[i] : i \in 1 .. n}
            counted == {n \in Nat : n <= N => IsFiniteSet(first(n)) /\ Cardinality(first(n)) = n}
<1>1. \A i \in 1 .. N : at[i] \in Nat
  BY DEF Rises
<1>2. ASSUME NEW i \in 1 .. N, NEW j \in 1 .. N PROVE (i < j => at[i] < at[j]) /\ (at[i] <= at[j] <=> i <= j)
  <2>1. (i < j => at[i] < at[j]) /\ (j < i => at[j] < at[i])
    BY DEF Rises
  <2>. QED
    BY <1>1, <2>1
<1>3. 0 \in counted
  <2>1. first(0) = {}
    OBVIOUS
  <2>. QED
    BY <2>1, FS_EmptySet
<1>4. ASSUME NEW n \in Nat, n \in counted PROVE n + 1 \in counted
  <2>. SUFFICES ASSUME n + 1 <= N PROVE IsFiniteSet(first(n + 1)) /\ Cardinality(first(n + 1)) = n + 1
    OBVIOUS
  <2>1. IsFiniteSet(first(n)) /\ Cardinality(first(n)) = n
    BY <1>4
  <2>2. first(n + 1) = first(n) \cup {at[n + 1]}
    OBVIOUS
  <2>3. at[n + 1] \notin first(n)
    <3>. SUFFICES ASSUME NEW i \in 1 .. n, at[n + 1] = at[i] PROVE FALSE
      OBVIOUS
    <3>1. i \in 1 .. N /\ n + 1 \in 1 .. N /\ i < n + 1
      OBVIOUS
    <3>. QED
      BY <3>1, <1>1, <1>2
  <2>. HIDE DEF first
  <2>. QED
    BY <2>1, <2>2, <2>3, FS_AddElement
<1>5. ASSUME NEW n \in 0 .. N PROVE Cardinality(first(n)) = n
  <2>1. Nat \subseteq counted
    <3>. HIDE DEF counted
    <3>. QED
      BY <1>3, <1>4, SetInduction
  <2>. HIDE DEF first
  <2>. QED
    BY <2>1
<1>6. ASSUME NEW k \in 1 .. N PROVE Cardinality({j \in P : j <= at[k]}) = k
  <2>1. {j \in P : j <= at[k]} = first(k)
    BY <1>2
  <2>. HIDE DEF first, P
  <2>. QED
    BY <1>5, <2>1
<1>7. ASSUME NEW k \in 1 .. N PROVE Nth(P, k) = at[k]
  <2>1. at[k] \in P
    OBVIOUS
  <2>2. ASSUME NEW i \in P, Cardinality({j \in P : j <= i}) = k PROVE i = at[k]
    <3>1. PICK m \in 1 .. N : i = at[m]
      OBVIOUS
    <3>. HIDE DEF P
    <3>. QED
      BY <1>6, <2>2, <3>1
  <2>. HIDE DEF P
  <2>3. \E i \in P : Cardinality({j \in P : j <= i}) = k
    BY <1>6, <2>1
  <2>. QED
    BY <2>2, <2>3 DEF Nth
<1>8. Cardinality(P) = N
  <2>1. N \in 0 .. N /\ P = first(N)
    OBVIOUS
  <2>. HIDE DEF P, first
  <2>. QED
    BY <1>5, <2>1
<1>. QED
  BY <1>7, <1>8

\* A beginning of a form has the form's delimiters.
LEMMA BeginningOfForm ==
  ASSUME NEW form, NEW parts, NEW N \in Nat, NEW at, NEW S, IsLaid(form, parts, N, at, S),
         NEW n \in 0 .. Len(form), NEW body, body = SubSeq(form, 1, n)
  PROVE  /\ body \in Seq(S) /\ Len(body) = n /\ \A i \in 1 .. n : body[i] = form[i]
         /\ DelimitersOf(body) = {p \in 1 .. n : form[p] = Delimiter}
<1>1. form \in Seq(S) /\ Len(form) \in Nat /\ n \in Int /\ 1 \in Int
  BY LenProperties DEF IsLaid
<1>2. \A i \in 1 .. n : form[i] \in S
  BY <1>1
<1>3. /\ body \in Seq(S) /\ Len(body) = IF 1 <= n THEN n - 1 + 1 ELSE 0
      /\ \A i \in 1 .. n - 1 + 1 : body[i] = form[1 + i - 1]
  BY <1>1, <1>2, SubSeqProperties
<1>4. Len(body) = n /\ \A i \in 1 .. n : body[i] = form[i]
  <2>1. n - 1 + 1 = n /\ n \in Nat
    OBVIOUS
  <2>2. ASSUME NEW i \in 1 .. n PROVE body[i] = form[i]
    <3>1. 1 + i - 1 = i
      OBVIOUS
    <3>. QED
      BY <1>3, <2>1, <3>1
  <2>. QED
    BY <1>3, <2>1, <2>2
<1>5. DOMAIN body = 1 .. n
  BY <1>3, <1>4
<1>. QED
  BY <1>3, <1>4, <1>5 DEF DelimitersOf

\* What a segment begins with.
LEMMA SegmentBegins ==
  ASSUME NEW S, NEW body \in Seq(S), NEW i \in DelimitersOf(body), Closes(Segment(body, i))
  PROVE  i + 1 \in 1 .. Len(body) /\ body[i + 1] = Dashes
<1>. DEFINE after == {j \in DelimitersOf(body) : j > i}
            to == IF after = {} THEN Len(body) ELSE Min(after) - 1
            segment == SubSeq(body, i + 1, to)
<1>1. i \in 1 .. Len(body) /\ DelimitersOf(body) \subseteq 1 .. Len(body) /\ Len(body) \in Nat
  BY DEF DelimitersOf
<1>2. to \in Int /\ to <= Len(body)
  <2>1. CASE after = {}
    BY <1>1, <2>1
  <2>2. CASE after # {}
    <3>. HIDE DEF after
    <3>1. after \in SUBSET (1 .. Len(body))
      BY <1>1 DEF after
    <3>2. PICK x \in after : \A y \in after : x <= y
      <4>1. after \subseteq Nat
        BY <1>1, <3>1
      <4>. QED
        BY <2>2, <4>1, LeastExists
    <3>3. Min(after) = x
      <4>1. after \in SUBSET Int
        BY <3>1
      <4>. QED
        BY <3>2, <4>1, LeastKnown
    <3>4. x \in 1 .. Len(body)
      BY <3>1
    <3>. QED
      BY <1>1, <2>2, <3>3, <3>4
  <2>. QED
    BY <2>1, <2>2
<1>3. Segment(body, i) = segment
  BY DEF Segment
<1>. HIDE DEF to
<1>4. \A j \in i + 1 .. to : body[j] \in S
  BY <1>1, <1>2
<1>5. /\ Len(segment) = IF i + 1 <= to THEN to - (i + 1) + 1 ELSE 0
      /\ segment \in Seq(S)
      /\ \A j \in 1 .. to - (i + 1) + 1 : segment[j] = body[(i + 1) + j - 1]
  <2>1. i + 1 \in Int
    BY <1>1
  <2>. QED
    BY <1>2, <1>4, <2>1, SubSeqProperties
<1>. HIDE DEF segment
<1>6. segment # <<>> /\ segment[1] = Dashes
  BY <1>3 DEF Closes
<1>7. i + 1 <= to
  BY <1>5, <1>6
<1>8. 1 \in 1 .. to - (i + 1) + 1 /\ (i + 1) + 1 - 1 = i + 1
  BY <1>1, <1>2, <1>7
<1>9. segment[1] = body[i + 1]
  BY <1>5, <1>8
<1>. QED
  BY <1>1, <1>2, <1>6, <1>7, <1>9

\* A form that breaks off before the end of its last delimiter is none.
LEMMA TornIsMalformed ==
  ASSUME NEW form, NEW parts, NEW N \in Nat, NEW at, NEW S, IsLaid(form, parts, N, at, S),
         NEW n \in Nat, n <= Len(form) - 2
  PROVE  ParseMultipart(SubSeq(form, 1, n)) = Malformed
<1>. DEFINE body == SubSeq(form, 1, n)
            segments == [i \in DelimitersOf(body) |-> Segment(body, i)]
            closing == {i \in DOMAIN segments : Closes(segments[i])}
<1>0. IsDelimited(form, N, at)
  BY DelimitersAreAt
<1>1. /\ Len(form) = at[N + 1] + 2 /\ at \in [1 .. N + 1 -> Nat \ {0}] /\ N + 1 \in 1 .. N + 1
  BY DEF IsLaid
<1>2. at[N + 1] \in Nat /\ n <= at[N + 1] /\ n \in 0 .. Len(form)
  BY <1>1
<1>3. /\ body \in Seq(S) /\ Len(body) = n /\ \A i \in 1 .. n : body[i] = form[i]
      /\ DelimitersOf(body) = {p \in 1 .. n : form[p] = Delimiter}
  BY <1>2, BeginningOfForm
<1>. HIDE DEF body
<1>4. ASSUME NEW i \in DelimitersOf(body), Closes(Segment(body, i)) PROVE FALSE
  <2>1. i + 1 \in 1 .. n /\ body[i + 1] = Dashes
    BY <1>3, <1>4, SegmentBegins
  <2>2. i \in 1 .. n /\ form[i] = Delimiter /\ i \in 1 .. at[N + 1]
    BY <1>2, <1>3
  <2>3. PICK m \in 1 .. N + 1 : i = at[m]
    BY <2>2, <1>0 DEF IsDelimited
  <2>4. m # N + 1
    BY <1>2, <2>1, <2>2, <2>3
  <2>5. m \in 1 .. N
    BY <2>4
  <2>6. form[i + 1] = CRLF
    BY <2>3, <2>5, <1>0 DEF IsDelimited
  <2>. QED
    BY <1>3, <2>1, <2>6, TokensDiffer
<1>5. closing = {}
  BY <1>4
<1>. QED
  BY <1>5 DEF ParseMultipart, body

\* Between two delimiters stands a part, as it was written.
LEMMA SegmentIsWritten ==
  ASSUME NEW form, NEW parts, NEW N \in Nat, NEW at, NEW S, IsLaid(form, parts, N, at, S),
         NEW n \in 0 .. Len(form), n > at[N + 1], NEW i \in 1 .. N
  PROVE  Segment(SubSeq(form, 1, n), at[i]) = SubSeq(Written(parts[i]), 2, Len(Written(parts[i])))
<1>. DEFINE body == SubSeq(form, 1, n)
            w == Written(parts[i])
            from == at[i]
            next == at[i + 1]
            u == SubSeq(body, from + 1, next - 1)
            v == SubSeq(w, 2, Len(w))
            after == {j \in DelimitersOf(body) : j > from}
<1>0. IsDelimited(form, N, at)
  BY DelimitersAreAt
<1>1. /\ body \in Seq(S) /\ Len(body) = n /\ \A j \in 1 .. n : body[j] = form[j]
      /\ DelimitersOf(body) = {p \in 1 .. n : form[p] = Delimiter}
  BY BeginningOfForm
<1>2. at \in [1 .. N + 1 -> Nat \ {0}] /\ LiesAt(form, parts[i], at, i, S) /\ Len(form) = at[N + 1] + 2
  BY DEF IsLaid
<1>3. StandsAt(w, form, from - 1, S) /\ next = from + Len(w)
  BY <1>2 DEF LiesAt
<1>4. \A j, k \in 1 .. N + 1 : j < k => at[j] < at[k]
  BY PartsRise
<1>5. /\ from \in Nat \ {0} /\ next \in Nat /\ at[N + 1] \in Nat
      /\ next <= at[N + 1] /\ from + 1 < next
  <2>1. i \in 1 .. N + 1 /\ i + 1 \in 1 .. N + 1 /\ N + 1 \in 1 .. N + 1 /\ (i + 1 = N + 1 \/ i + 1 < N + 1)
    OBVIOUS
  <2>2. from + 1 < next
    BY PartsRise
  <2>. QED
    BY <1>2, <1>4, <2>1, <2>2
<1>6. Min(after) = next /\ after # {}
  <2>1. next \in after
    <3>1. form[next] = Delimiter
      <4>1. i + 1 \in 1 .. N + 1
        OBVIOUS
      <4>. QED
        BY <4>1, <1>0 DEF IsDelimited
    <3>2. next \in 1 .. n
      BY <1>5
    <3>. QED
      BY <1>1, <1>5, <3>1, <3>2
  <2>2. ASSUME NEW j \in after PROVE next =< j
    <3>1. j \in 1 .. n /\ form[j] = Delimiter /\ j > from
      BY <1>1
    <3>. SUFFICES ASSUME j < next PROVE FALSE
      BY <1>5, <3>1
    <3>2. j \in 1 .. at[N + 1]
      BY <1>5, <3>1
    <3>3. PICK m \in 1 .. N + 1 : j = at[m]
      BY <3>1, <3>2, <1>0 DEF IsDelimited
    <3>4. m = i \/ m < i \/ m = i + 1 \/ i + 1 < m
      OBVIOUS
    <3>5. i \in 1 .. N + 1 /\ i + 1 \in 1 .. N + 1
      OBVIOUS
    <3>6. at[m] = from \/ at[m] < from \/ at[m] = next \/ next < at[m]
      BY <1>4, <3>4, <3>5
    <3>. HIDE DEF from, next
    <3>. QED
      BY <1>5, <3>1, <3>3, <3>6
  <2>3. after \in SUBSET Int
    BY <1>1
  <2>. HIDE DEF after, next
  <2>. QED
    BY <2>1, <2>2, <2>3, LeastKnown
<1>7. Segment(body, from) = u
  BY <1>6 DEF Segment
<1>. HIDE DEF body, w, from, next
<1>8. w \in Seq(S) /\ Len(w) \in Nat /\ \A j \in 1 .. Len(w) : form[(from - 1) + j] = w[j]
  BY <1>3 DEF StandsAt
<1>9. v \in Seq(S) /\ Len(v) = Len(w) - 1 /\ \A j \in 1 .. Len(w) - 1 : v[j] = w[j + 1]
  <2>1. \A j \in 2 .. Len(w) : w[j] \in S
    BY <1>8
  <2>2. 2 <= Len(w) /\ Len(w) - 2 + 1 = Len(w) - 1
    BY <1>3, <1>5, <1>8
  <2>3. v \in Seq(S) /\ Len(v) = Len(w) - 2 + 1 /\ \A j \in 1 .. Len(w) - 2 + 1 : v[j] = w[2 + j - 1]
    BY <1>8, <2>1, <2>2, SubSeqProperties
  <2>. HIDE DEF v
  <2>4. ASSUME NEW j \in 1 .. Len(w) - 1 PROVE v[j] = w[j + 1]
    <3>1. 2 + j - 1 = j + 1
      OBVIOUS
    <3>. QED
      BY <2>2, <2>3, <3>1
  <2>. QED
    BY <2>2, <2>3, <2>4
<1>10. u \in Seq(S) /\ Len(u) = Len(w) - 1 /\ \A j \in 1 .. Len(w) - 1 : u[j] = w[j + 1]
  <2>0. next - 1 <= n /\ from + 1 >= 1
    BY <1>2, <1>5
  <2>1. \A j \in from + 1 .. next - 1 : body[j] \in S
    BY <1>1, <1>5, <2>0
  <2>2. from + 1 <= next - 1 /\ next - 1 - (from + 1) + 1 = Len(w) - 1
    BY <1>3, <1>5, <1>8
  <2>3. /\ u \in Seq(S) /\ Len(u) = next - 1 - (from + 1) + 1
        /\ \A j \in 1 .. next - 1 - (from + 1) + 1 : u[j] = body[(from + 1) + j - 1]
    <3>1. from + 1 \in Int /\ next - 1 \in Int
      BY <1>5
    <3>. QED
      BY <2>1, <2>2, <3>1, SubSeqProperties
  <2>. HIDE DEF u
  <2>4. ASSUME NEW j \in 1 .. Len(w) - 1 PROVE u[j] = w[j + 1]
    <3>1. (from + 1) + j - 1 = (from - 1) + (j + 1) /\ j + 1 \in 1 .. Len(w) /\ (from - 1) + (j + 1) \in 1 .. n
      BY <1>3, <1>5, <1>8, <2>0
    <3>2. u[j] = body[(from - 1) + (j + 1)]
      BY <2>2, <2>3, <3>1
    <3>3. body[(from - 1) + (j + 1)] = form[(from - 1) + (j + 1)]
      BY <1>1, <3>1
    <3>4. form[(from - 1) + (j + 1)] = w[j + 1]
      BY <1>8, <3>1
    <3>. QED
      BY <3>2, <3>3, <3>4
  <2>. QED
    BY <2>2, <2>3, <2>4
<1>. HIDE DEF u, v
<1>11. u = v
  <2>1. \A j \in 1 .. Len(u) : u[j] = v[j]
    BY <1>9, <1>10
  <2>. QED
    BY <1>9, <1>10, <2>1, SeqEqual
<1>. QED
  BY <1>7, <1>11 DEF body, w, from, next, v

\* A form whose last delimiter is there is read as its parts.
LEMMA WholeIsRead ==
  ASSUME NEW form, NEW parts, NEW N \in Nat, NEW at, NEW S, IsLaid(form, parts, N, at, S),
         NEW T, parts \in Seq(T), Len(parts) = N,
         NEW n \in 0 .. Len(form), n > at[N + 1]
  PROVE  ParseMultipart(SubSeq(form, 1, n)) = [ok |-> TRUE, parts |-> parts]
<1>. DEFINE body == SubSeq(form, 1, n)
            segments == [i \in DelimitersOf(body) |-> Segment(body, i)]
            closing == {i \in DOMAIN segments : Closes(segments[i])}
            before == {i \in DOMAIN segments : \A j \in closing : i < j}
            starts == {at[i] : i \in 1 .. N}
            end == at[N + 1]
<1>0. IsDelimited(form, N, at)
  BY DelimitersAreAt
<1>1. /\ body \in Seq(S) /\ Len(body) = n /\ \A j \in 1 .. n : body[j] = form[j]
      /\ DelimitersOf(body) = {p \in 1 .. n : form[p] = Delimiter}
  BY BeginningOfForm
<1>2. /\ at \in [1 .. N + 1 -> Nat \ {0}] /\ Len(form) = end + 2 /\ form[end + 1] = Dashes
      /\ \A i \in 1 .. N : LiesAt(form, parts[i], at, i, S)
  BY DEF IsLaid
<1>3. /\ \A j, k \in 1 .. N + 1 : j < k => at[j] < at[k]
      /\ \A i \in 1 .. N : at[i] < end
  <2>1. \A j, k \in 1 .. N + 1 : j < k => at[j] < at[k]
    BY PartsRise
  <2>2. \A i \in 1 .. N : i \in 1 .. N + 1 /\ N + 1 \in 1 .. N + 1 /\ i < N + 1
    OBVIOUS
  <2>. QED
    BY <2>1, <2>2
<1>4. end \in Nat \ {0} /\ n \in {end + 1, end + 2}
  <2>1. N + 1 \in 1 .. N + 1
    OBVIOUS
  <2>2. end \in Nat \ {0} /\ n > end
    BY <1>2, <2>1
  <2>. HIDE DEF end
  <2>. QED
    BY <1>2, <2>2
<1>5. ASSUME NEW i \in 1 .. N
      PROVE  /\ at[i] \in DelimitersOf(body) /\ IsPart(Segment(body, at[i])) /\ ~Closes(Segment(body, at[i]))
             /\ PartOf(Segment(body, at[i])) = parts[i]
  <2>. DEFINE w == Written(parts[i])
  <2>1. IsField(parts[i]) /\ IsWritten(w, parts[i]) /\ StandsAt(w, form, at[i] - 1, S)
    BY <1>2 DEF LiesAt
  <2>2. w \in Seq(S)
    BY <2>1 DEF StandsAt
  <2>3. Segment(body, at[i]) = SubSeq(w, 2, Len(w))
    BY ONLY N \in Nat, IsLaid(form, parts, N, at, S), n \in 0 .. Len(form), n > at[N + 1], i \in 1 .. N, SegmentIsWritten
  <2>4. at[i] \in DelimitersOf(body)
    <3>1. i \in 1 .. N + 1
      OBVIOUS
    <3>2. form[at[i]] = Delimiter /\ at[i] \in Nat \ {0} /\ at[i] < end
      BY <1>0, <1>2, <1>3, <3>1 DEF IsDelimited
    <3>. HIDE DEF end
    <3>3. at[i] \in 1 .. n
      BY <1>4, <3>2
    <3>. QED
      BY <1>1, <3>2, <3>3
  <2>. HIDE DEF w, body
  <2>5. ~Closes(SubSeq(w, 2, Len(w))) /\ IsPart(SubSeq(w, 2, Len(w))) /\ PartOf(SubSeq(w, 2, Len(w))) = parts[i]
    BY ONLY <2>1, <2>2, PartIsRead
  <2>. QED
    BY <2>3, <2>4, <2>5
<1>6. end \in DelimitersOf(body) /\ Closes(Segment(body, end))
  <2>1. N + 1 \in 1 .. N + 1
    OBVIOUS
  <2>2. form[end] = Delimiter
    BY <1>0, <2>1 DEF IsDelimited
  <2>3. end \in 1 .. n /\ end + 1 \in 1 .. n
    BY ONLY <1>4
  <2>. HIDE DEF body
  <2>4. end \in DelimitersOf(body)
    BY <1>1, <2>2, <2>3
  <2>5. ASSUME NEW j \in DelimitersOf(body), j > end PROVE FALSE
    <3>1. j \in 1 .. n /\ form[j] = Delimiter
      BY <1>1
    <3>2. j = end + 1 \/ j = end + 2
      BY <1>4, <2>5, <3>1
    <3>3. CASE j = end + 1
      BY <1>2, <3>1, <3>3, TokensDiffer
    <3>4. CASE j = end + 2
      <4>1. form[end + 2] = CRLF
        BY DEF IsLaid
      <4>. QED
        BY <3>1, <3>4, <4>1, TokensDiffer
    <3>. QED
      BY <3>2, <3>3, <3>4
  <2>. DEFINE segment == SubSeq(body, end + 1, n)
  <2>6. {j \in DelimitersOf(body) : j > end} = {}
    BY <2>5
  <2>7. Segment(body, end) = segment
    BY <1>1, <2>6 DEF Segment
  <2>8. \A j \in end + 1 .. n : body[j] \in S
    BY <1>1, <1>4
  <2>9. /\ segment \in Seq(S) /\ Len(segment) = n - (end + 1) + 1
        /\ \A j \in 1 .. n - (end + 1) + 1 : segment[j] = body[(end + 1) + j - 1]
    <3>1. end + 1 \in Int /\ n \in Int /\ end + 1 <= n
      BY ONLY <1>4
    <3>. QED
      BY <2>8, <3>1, SubSeqProperties
  <2>. HIDE DEF segment
  <2>10. 1 \in 1 .. n - (end + 1) + 1 /\ (end + 1) + 1 - 1 = end + 1 /\ Len(segment) > 0
    <3>. HIDE DEF end
    <3>. QED
      BY <1>4, <2>9
  <2>11. segment[1] = Dashes
    BY <1>1, <1>2, <2>3, <2>9, <2>10
  <2>12. segment # <<>>
    BY <2>9, <2>10
  <2>. QED
    BY <2>4, <2>7, <2>11, <2>12 DEF Closes
<1>7. ASSUME NEW p \in DelimitersOf(body) PROVE p = end \/ \E i \in 1 .. N : p = at[i]
  <2>1. p \in 1 .. n /\ form[p] = Delimiter
    BY <1>1
  <2>2. CASE p <= end
    <3>1. p \in 1 .. end
      BY <1>4, <2>1, <2>2
    <3>2. PICK i \in 1 .. N + 1 : p = at[i]
      BY <1>0, <2>1, <3>1 DEF IsDelimited
    <3>3. i = N + 1 \/ i \in 1 .. N
      OBVIOUS
    <3>. QED
      BY <3>2, <3>3
  <2>3. CASE p > end
    <3>1. p = end + 1 \/ p = end + 2
      <4>. HIDE DEF end
      <4>. QED
        BY <1>4, <2>1, <2>3
    <3>2. form[end + 1] = Dashes /\ form[end + 2] = CRLF
      BY DEF IsLaid
    <3>. QED
      BY <2>1, <3>1, <3>2, TokensDiffer
  <2>4. p \in Int /\ end \in Int
    BY <1>4, <2>1
  <2>. QED
    BY <2>2, <2>3, <2>4
<1>. HIDE DEF body, end
<1>8. closing = {end}
  BY <1>5, <1>6, <1>7
<1>9. before = starts
  <2>1. ASSUME NEW p \in before PROVE p \in starts
    <3>1. p \in DelimitersOf(body) /\ p < end
      BY <1>8
    <3>2. p # end
      BY <1>4, <3>1
    <3>. QED
      BY <1>7, <3>1, <3>2
  <2>2. ASSUME NEW i \in 1 .. N PROVE at[i] \in before
    BY <1>3, <1>5, <1>8
  <2>. QED
    BY <2>1, <2>2
<1>10. Rises(at, N)
  <2>1. \A i \in 1 .. N : i \in 1 .. N + 1
    OBVIOUS
  <2>. QED
    BY <1>2, <1>3, <2>1 DEF Rises
<1>11. Cardinality(starts) = N /\ \A k \in 1 .. N : Nth(starts, k) = at[k]
  BY <1>10, NthIsKth
<1>12. \A i \in before : IsPart(segments[i])
  BY <1>5, <1>9
<1>13. [k \in 1 .. Cardinality(before) |-> PartOf(segments[Nth(before, k)])] = parts
  <2>1. ASSUME NEW k \in 1 .. N PROVE PartOf(segments[Nth(before, k)]) = parts[k]
    BY <1>5, <1>9, <1>11
  <2>2. parts = [k \in 1 .. N |-> parts[k]]
    BY LenProperties
  <2>. HIDE DEF before, starts, segments
  <2>. QED
    BY <1>9, <1>11, <2>1, <2>2
<1>14. closing # {} /\ ~\E i \in before : ~IsPart(segments[i])
  BY <1>8, <1>12
<1>15. ParseMultipart(body) = IF closing = {} \/ \E i \in before : ~IsPart(segments[i]) THEN Malformed
                              ELSE [ok |-> TRUE, parts |-> [k \in 1 .. Cardinality(before) |->
                                      PartOf(segments[Nth(before, k)])]]
  BY DEF ParseMultipart
<1>. HIDE DEF closing, before, segments
<1>16. ParseMultipart(body) = [ok |-> TRUE, parts |-> parts]
  BY <1>13, <1>14, <1>15
<1>. QED
  BY <1>16 DEF body

\* However many parts a form has and whatever is in them, but the delimiter, and
\* wherever its body breaks off: it is read as the parts it was made of if its last
\* delimiter is all there, and is refused otherwise (parse_multipart).
THEOREM FormsAreRead ==
  ASSUME NEW parts, parts \in Seq(Range(parts)), \A i \in DOMAIN parts : IsField(parts[i]),
         NEW n \in 0 .. Len(BuildMultipart(parts)), NEW body, body = SubSeq(BuildMultipart(parts), 1, n)
  PROVE  ParseMultipart(body) = IF IsComplete(body, BuildMultipart(parts)) THEN [ok |-> TRUE, parts |-> parts]
                                ELSE Malformed
<1>. DEFINE form == BuildMultipart(parts)
            N == Len(parts)
<1>1. PICK at, S : IsLaid(form, parts, N, at, S)
  BY FormIsLaid
<1>2. N \in Nat /\ parts \in Seq(Range(parts))
  BY LenProperties
<1>3. form \in Seq(S) /\ Len(form) = at[N + 1] + 2 /\ at[N + 1] \in Nat
  <2>1. N + 1 \in 1 .. N + 1
    BY <1>2
  <2>. QED
    BY <1>1, <2>1 DEF IsLaid
<1>4. n \in 0 .. Len(form) /\ body = SubSeq(form, 1, n)
  OBVIOUS
<1>. HIDE DEF form, N
<1>5. CASE n > at[N + 1]
  <2>1. ParseMultipart(body) = [ok |-> TRUE, parts |-> parts]
    <3>1. Len(parts) = N /\ n \in 0 .. Len(form)
      BY <1>4 DEF N
    <3>2. ParseMultipart(SubSeq(form, 1, n)) = [ok |-> TRUE, parts |-> parts]
      BY ONLY <1>1, <1>2, <1>5, <3>1, WholeIsRead
    <3>. QED
      BY <1>4, <3>2
  <2>2. Len(form) - n \in {0, 1} /\ Len(form) - (Len(form) - n) = n
    <3>1. Len(form) = at[N + 1] + 2 /\ at[N + 1] \in Nat /\ n \in 0 .. Len(form) /\ n > at[N + 1]
      BY <1>3, <1>4, <1>5
    <3>. QED
      BY ONLY <3>1
  <2>3. IsComplete(body, form)
    BY <1>4, <2>2 DEF IsComplete
  <2>. QED
    BY <2>1, <2>3 DEF form
<1>6. CASE n <= at[N + 1]
  <2>1. ParseMultipart(body) = Malformed
    <3>1. n \in Nat /\ n <= Len(form) - 2
      BY <1>3, <1>6
    <3>. QED
      BY <1>1, <1>2, <1>4, <3>1, TornIsMalformed
  <2>2. ~IsComplete(body, form)
    <3>. SUFFICES ASSUME NEW missing \in {0, 1}, body = SubSeq(form, 1, Len(form) - missing) PROVE FALSE
      BY DEF IsComplete
    <3>1. Len(form) - missing \in 0 .. Len(form)
      BY <1>3
    <3>2. Len(body) = n
      BY <1>1, <1>2, <1>4, BeginningOfForm
    <3>3. Len(body) = Len(form) - missing
      BY <1>1, <1>2, <3>1, BeginningOfForm
    <3>. QED
      BY <1>3, <1>6, <3>2, <3>3
  <2>. QED
    BY <2>1, <2>2 DEF form
<1>7. n \in Int /\ at[N + 1] \in Int
  BY <1>3, <1>4
<1>. QED
  BY <1>5, <1>6, <1>7

==============================================================================
