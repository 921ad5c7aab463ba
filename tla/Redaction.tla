----------------------------- MODULE Redaction -----------------------------
(***************************************************************************)
(* What a protocol record shows of headers, queries and JSON bodies        *)
(* (_is_sensitive_name and the _redact functions of logging_feature.py,    *)
(* _name_set of config.py).                                                *)
(*                                                                         *)
(* A name is <<words, joint, case>>: "my token" joined by "-" or "_" in    *)
(* "lower" or "upper" case. A text is a sequence of tokens, tuples that    *)
(* stand for a byte each: names, <<"{">>, <<"}">>, <<"[">>, <<"]">> and    *)
(* <<"a">> for themselves, <<"lead">>, <<"trail">> for a character of two. *)
(* A JSON value has the names of its items if it is an object; names of    *)
(* one object differ.                                                      *)
(***************************************************************************)
EXTENDS Integers, Sequences

CONSTANTS
  JsonValues,  \* the values a JSON text may stand for, with all that is in them
  Depth,       \* how deep each is nested
  Loads,       \* json.loads: the value of every text that is JSON
  Refused,     \* texts that make it, or the walk through what it returns, raise
               \* something else: an integer of too many digits, too deep a nesting
  Ways         \* ways into a value: which item of it, which item of that, ...

JsonValue(kind, text, names, items) == [kind |-> kind, text |-> text, names |-> names, items |-> items]

Leaf(text) == JsonValue("leaf", text, <<>>, <<>>)

Array(items) == JsonValue("array", <<>>, <<>>, items)

Object(names, items) == JsonValue("object", <<>>, names, items)

\* A text that is no JSON.
Unread(text) == JsonValue("text", text, <<>>, <<>>)

\* Values are built from others, to any depth.
ASSUME JsonAssumption ==
  \A v \in JsonValues :
    /\ v = JsonValue(v.kind, v.text, v.names, v.items)
    /\ DOMAIN v.names \subseteq DOMAIN v.items
    /\ Depth[v] \in Nat
    /\ \A i \in DOMAIN v.items : v.items[i] \in JsonValues /\ Depth[v.items[i]] < Depth[v]

ASSUME LoadsAssumption == \A text \in DOMAIN Loads : Loads[text] \in JsonValues

ASSUME RefusedAssumption == Refused \cap DOMAIN Loads = {}

ASSUME WaysAssumption == Ways \subseteq Seq(Nat)

Redacted == Leaf(<<"REDACTED">>)

Lower(name) == <<name[1], name[2], "lower">>

Normalized(name) == <<name[1], "_", "lower">>

\* The configured names as the feature keeps them.
NameSet(names) == {Normalized(n) : n \in names}

SensitiveHeaderNames ==
  {<<words, "-", "lower">> : words \in {"proxy authorization", "set cookie", "x api key", "api key", "x auth token"}}
    \cup {<<words, "", "lower">> : words \in {"authorization", "cookie"}}

\* The words that hold "token", "secret", "password" or "api_key" once joined by
\* underscores.
SensitiveWords == {"my token", "x auth token", "api key", "x api key", "secret"}

\* Mutant: the name is not brought into the form the configured names have.
IsSensitiveAsWritten(name, additional) ==
  \/ Lower(name) \in SensitiveHeaderNames \cup additional
  \/ name[1] \in SensitiveWords

IsSensitiveName(name, additional) ==
  \/ Lower(name) \in SensitiveHeaderNames
  \/ Normalized(name) \in additional
  \/ Normalized(name)[1] \in SensitiveWords

\* Headers, or the parameters of a query: a sequence of <<name, value>>.
RedactPairs(pairs, additional) ==
  [i \in DOMAIN pairs |->
     IF IsSensitiveName(pairs[i][1], additional) THEN <<pairs[i][1], Redacted>> ELSE pairs[i]]

\* The value as it may be shown: an array has no names, a leaf no items either.
RedactJsonValue(value, additional) ==
  LET redact[v \in JsonValues] ==
        [v EXCEPT !.items = [i \in DOMAIN v.items |->
           IF i \in DOMAIN v.names /\ IsSensitiveName(v.names[i], additional) THEN Redacted ELSE redact[v.items[i]]]]
  IN  redact[value]

\* A text that is no JSON, such as the beginning of one, is left as it is; of a
\* refused one there is no result.
RedactJsonText(text, additional) ==
  IF text \in DOMAIN Loads THEN RedactJsonValue(Loads[text], additional) ELSE Unread(text)

-----------------------------------------------------------------------------
(* A reference: names by their words, however they are joined and written,  *)
(* and values by what stands at the end of each way into them.              *)

\* HTTP's own names have one spelling, but for their case.
IsNamedAsSecret(name, configured) ==
  \/ name[1] \in SensitiveWords \cup {n[1] : n \in configured}
  \/ \E h \in SensitiveHeaderNames : <<h[1], h[2]>> = <<name[1], name[2]>>

Nowhere == Leaf(<<"nowhere">>)

\* What a way comes by, from the value itself to the end.
Visited(value, way) ==
  LET visited[n \in 0 .. Len(way)] ==
        IF n = 0 THEN value
        ELSE LET before == visited[n - 1]
             IN  IF way[n] \in DOMAIN before.items THEN before.items[way[n]] ELSE Nowhere
  IN  visited

AtEnd(value, way) == Visited(value, way)[Len(way)]

\* The steps of a way that go to what has a secret's name.
SecretSteps(value, way, configured) ==
  {n \in DOMAIN way :
     LET before == Visited(value, way)[n - 1]
     IN  way[n] \in DOMAIN before.names /\ IsNamedAsSecret(before.names[way[n]], configured)}

Alike(v, w) == <<v.kind, v.text, v.names, DOMAIN v.items>> = <<w.kind, w.text, w.names, DOMAIN w.items>>

\* In place of what has a secret's name there is the mark and nothing below it; all
\* else is as it was.
ShowsButSecrets(shown, value, configured) ==
  \A way \in Ways :
    LET secrets == SecretSteps(value, way, configured)
    IN  IF secrets = {} THEN Alike(AtEnd(shown, way), AtEnd(value, way))
        ELSE AtEnd(shown, way) = IF secrets = {Len(way)} THEN Redacted ELSE Nowhere

=============================================================================
