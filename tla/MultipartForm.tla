---------------------------- MODULE MultipartForm ----------------------------
(***************************************************************************)
(* multipart/form-data (multipart_forms.py): how a body is cut into parts, *)
(* and how parts are written. A body is a sequence of tokens, a token a    *)
(* sequence of strings: the delimiter "--boundary", the two dashes of the  *)
(* closing one, CRLF, header lines, and pieces of data.                    *)
(*                                                                         *)
(* A part is [name, file, data]; its name and media type are atoms.        *)
(***************************************************************************)
EXTENDS Integers, Sequences, SequencesExt, FiniteSetsExt

Delimiter == <<"delimiter">>
Dashes == <<"dashes">>
CRLF == <<"CRLF">>
Data(d) == <<"data", d>>

Disposition(name, file) == IF file THEN <<"disposition", name, "filename">> ELSE <<"disposition", name>>

IsDisposition(token) == token[1] = "disposition"

MediaType == <<"content-type">>

\* A form, or why it is none.
Malformed == [ok |-> FALSE, parts |-> <<>>]

-----------------------------------------------------------------------------

DelimitersOf(body) == {i \in DOMAIN body : body[i] = Delimiter}

\* What stands after the i-th delimiter of the body, up to the next.
Segment(body, i) ==
  LET after == {j \in DelimitersOf(body) : j > i}
  IN  SubSeq(body, i + 1, IF after = {} THEN Len(body) ELSE Min(after) - 1)

Closes(segment) == segment # <<>> /\ segment[1] = Dashes

\* A part without the line break after the delimiter and the one before the next.
Stripped(segment) ==
  SubSeq(segment, 2, IF Len(segment) > 1 /\ Last(segment) = CRLF THEN Len(segment) - 1 ELSE Len(segment))

\* Where the empty line that ends the headers begins; 0 if there is none.
HeaderEnd(part) ==
  LET ends == {i \in 1 .. Len(part) - 1 : part[i] = CRLF /\ part[i + 1] = CRLF}
  IN  IF ends = {} THEN 0 ELSE Min(ends)

\* Where the header lines stand that name the part.
NamingLines(part) == {i \in 1 .. HeaderEnd(part) - 1 : IsDisposition(part[i])}

IsPart(segment) ==
  /\ segment # <<>> /\ segment[1] = CRLF
  /\ HeaderEnd(Stripped(segment)) # 0
  /\ NamingLines(Stripped(segment)) # {}

\* Of several lines that name the part the last one counts.
PartOf(segment) ==
  LET part == Stripped(segment)
      line == part[Max(NamingLines(part))]
  IN  [name |-> line[2], file |-> Len(line) = 3,
       data |-> SubSeq(part, HeaderEnd(part) + 2, Len(part))]

\* The k-th of some positions.
Nth(positions, k) == CHOOSE i \in positions : Cardinality({j \in positions : j <= i}) = k

\* Everything from the closing delimiter on is left unread.
ParseMultipart(body) ==
  LET segments == [i \in DelimitersOf(body) |-> Segment(body, i)]
      closing == {i \in DOMAIN segments : Closes(segments[i])}
      before == {i \in DOMAIN segments : \A j \in closing : i < j}
  IN  IF closing = {} \/ \E i \in before : ~IsPart(segments[i]) THEN Malformed
      ELSE [ok |-> TRUE, parts |-> [k \in 1 .. Cardinality(before) |->
              PartOf(segments[Nth(before, k)])]]

-----------------------------------------------------------------------------

Written(part) ==
  <<Delimiter, CRLF, Disposition(part.name, part.file), CRLF>>
    \o (IF part.file THEN <<MediaType, CRLF>> ELSE <<>>)
    \o <<CRLF>> \o part.data \o <<CRLF>>

\* Data may be anything but the delimiter.
IsField(part) ==
  /\ part = [name |-> part.name, file |-> part.file, data |-> part.data]
  /\ part.file \in BOOLEAN /\ part.data \in Seq(Range(part.data) \ {Delimiter})

\* All of a form, but perhaps the line break at its end.
IsComplete(body, form) == \E missing \in {0, 1} : body = SubSeq(form, 1, Len(form) - missing)

BuildMultipart(parts) ==
  FlattenSeq([i \in DOMAIN parts |-> Written(parts[i])]) \o <<Delimiter, Dashes, CRLF>>

=============================================================================
