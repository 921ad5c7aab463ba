--------------------------- MODULE MCProtocolLog ---------------------------
(***************************************************************************)
(* Documents with sensitive names at every depth and in every spelling; a  *)
(* limit that cuts most bodies, also within a character, and one that cuts *)
(* none; and a document that redaction cannot take.                        *)
(***************************************************************************)
EXTENDS ProtocolLog, SequencesExt, FiniteSetsExt

A == Leaf(<<<<"a">>>>)
E2 == Leaf(<<<<"lead">>, <<"trail">>>>)

Name(words, joint) == <<words, joint, "lower">>
Input == Name("input", "")
UpperName(words, joint) == <<words, joint, "upper">>

Documents ==
  {Object(<<Input, UpperName("customer id", "_")>>, <<E2, A>>),
   Array(<<A, Object(<<Name("customer id", "-")>>, <<Array(<<A, A>>)>>)>>),
   Object(<<Input>>, <<Array(<<Object(<<Name("api key", "_"), Input>>, <<E2, A>>)>>)>>),
   Object(<<UpperName("my token", "-"), Input>>, <<Object(<<>>, <<>>), Object(<<>>, <<>>)>>),
   Array(<<>>)}

RECURSIVE Written(_)
Written(v) ==
  CASE v.kind = "leaf" -> v.text
    [] v.kind = "array" -> <<<<"[">>>> \o FlattenSeq([i \in DOMAIN v.items |-> Written(v.items[i])]) \o <<<<"]">>>>
    [] v.kind = "object" ->
         <<<<"{">>>> \o FlattenSeq([i \in DOMAIN v.items |-> <<v.names[i]>> \o Written(v.items[i])]) \o <<<<"}">>>>

RECURSIVE Within(_)
Within(v) == {v} \cup UNION {Within(v.items[i]) : i \in DOMAIN v.items}

RECURSIVE Nesting(_)
Nesting(v) == IF v.items = <<>> THEN 0 ELSE 1 + Max({Nesting(v.items[i]) : i \in DOMAIN v.items})

MCJsonValues == UNION {Within(d) : d \in Documents}

MCDepth == [v \in MCJsonValues |-> Nesting(v)]

MCLoads == [text \in {Written(d) : d \in Documents} |-> CHOOSE d \in Documents : Written(d) = text]

\* Too deep a nesting, in small.
MCRefused == {<<<<"[">>, <<"[">>, <<"]">>, <<"]">>>>}

MCWays == BoundedSeq(1 .. 2, 4)

Bodies ==
  {[type |-> "application/json", text |-> Written(d)] : d \in Documents}
    \cup {[type |-> t, text |-> <<<<"a">>, <<"a">>, <<"a">>, <<"lead">>, <<"trail">>>>] :
            t \in {"application/json", "text/event-stream", "image/png", ""}}
    \cup {[type |-> "text/event-stream", text |-> <<<<"a">>, <<"lead">>>>]}
    \cup {[type |-> "application/json", text |-> t] : t \in MCRefused}

Brief == [type |-> "application/json", text |-> Written(Array(<<>>))]

Headers ==
  {<<<<<<"set cookie", "-", "upper">>, A>>, <<<<"customer id", "_", "upper">>, A>>, <<Name("authorization", ""), A>>>>,
   <<<<<<"x api key", "-", "lower">>, A>>, <<<<"customer id", "-", "lower">>, A>>, <<Input, A>>>>}

Exchange(headers, request, response) ==
  [headers |-> headers, query |-> headers, request |-> request, response |-> response]

MCExchanges ==
  {Exchange(<<>>, b, Brief) : b \in Bodies} \cup {Exchange(<<>>, Brief, b) : b \in {d \in Bodies : d.type # "application/json"}}
    \cup {Exchange(hs, Brief, Brief) : hs \in Headers}

Setting(bodies, limit, names) == [bodies |-> bodies, limit |-> limit, names |-> names]

Customer == {<<"customer id", "-", "upper">>}

MCSettings ==
  {Setting(TRUE, 4, Customer), Setting(TRUE, 20, Customer), Setting(TRUE, 20, {}), Setting(FALSE, 4, Customer)}

=============================================================================
