------------------------------- MODULE MCProxy -------------------------------
(***************************************************************************)
(* Files: a plain document in every text of up to two tokens and a tail,   *)
(* and documents of one or two entries that differ from correct ones in    *)
(* one key. Requests: every route, every kind of header, and the bodies    *)
(* that a transformation can tell apart.                                   *)
(***************************************************************************)
EXTENDS Proxy

MCEnviron == {"KEY"}

-----------------------------------------------------------------------------
(* Entries.                                                                 *)

Section(mode) ==
  CASE mode = "grok-image" -> "grok_image" :> "object" @@ "grok_image.default_model" :> "text"
                                @@ "grok_image.aspect_ratio" :> "other" @@ "grok_image.resolution" :> "1k"
    [] mode = "grok-image-edit" -> "grok_image_edit" :> "object" @@ "grok_image_edit.resolution" :> "null"
                                     @@ "grok_image_edit.aspect_ratio" :> "other"
    [] mode = "gemini-image" -> "gemini_image" :> "object" @@ "gemini_image.aspect_ratio" :> "other"
    [] mode = "featherless" -> "featherless" :> "object" @@ "featherless.model_whitelist" :> "names"
                                 @@ "featherless.max_queue_wait_seconds" :> "fraction"
                                 @@ "featherless.concurrency_limit" :> "count"
    [] OTHER -> "grok_image" :> "object" @@ "grok_image.resolution" :> "1k"

Upstream(mode) ==
  "upstream" :> "object" @@ "upstream.base_url" :> "url"
    @@ IF mode = "featherless" THEN "upstream.api_key_env" :> "null" ELSE "upstream.api_key_env" :> "KEY"

Bare(mode, port) == "port" :> port @@ "mode" :> mode @@ Upstream(mode)

Plainly(mode, port) == Bare(mode, port) @@ Section(mode)

Logging ==
  "features" :> "items" @@ "feature" :> "object" @@ "feature.name" :> "logging" @@ "logging" :> "object"
    @@ "stdout" :> "false" @@ "file" :> "object" @@ "file.enabled" :> "true" @@ "file.path" :> "/log"
    @@ "file.max_bytes" :> "large" @@ "capture" :> "object" @@ "capture.max_body_bytes" :> "count"
    @@ "redaction" :> "object" @@ "redaction.additional_header_names" :> "names"

Richly(mode, port) ==
  Plainly(mode, port) @@ Logging @@ "timeouts" :> "object" @@ "timeouts.connect_seconds" :> "fraction"
    @@ "timeouts.read_seconds" :> "null"

\* Values that some validator takes and another does not.
Values == {"null", "true", "false", "zero", "count", "large", "enormous", "infinite", "blank", "text",
           "[]", "names", "repeats", "object"}

Objects == {k \in DOMAIN Richly("grok-image", "8001") : Richly("grok-image", "8001")[k] = "object"}

Without(e, k) == [j \in DOMAIN e \ {k} |-> e[j]]

\* Entries that differ from e in the value of one key, or lack one.
Variants(e) ==
  {e} \cup {[e EXCEPT ![k] = v] : k \in DOMAIN e, v \in Values}
      \cup {Without(e, k) : k \in DOMAIN e \ Objects}
      \cup {k :> "object" @@ e : k \in Sections}

\* Entries with one key more than e, which has every object.
Additions(e) ==
  {k :> v @@ e : k \in {"feature 2", "feature.*", "logging.*", "file.*", "capture.*", "redaction.*",
                        "file.backup_count", "capture.bodies"} \cup {s \o ".*" : s \in Sections \cap DOMAIN e},
                 v \in {"null", "count"}}

Odd == {Bare(m, "8001") : m \in Modes} \cup {"upstream.base_url" :> "text" @@ Bare("featherless", "8001")}
         \cup {"timeouts" :> "object" @@ "timeouts.connect_seconds" :> "enormous" @@ Plainly("passthrough", "8001")}
         \cup UNION {Variants(Plainly(m, "8001")) \cup Variants(Richly(m, "8001")) \cup Additions(Richly(m, "8001")) : m \in Modes}

Document(entries) == [shape |-> "listeners", unknown |-> {"listners"}, entries |-> entries]

Others == {Plainly("passthrough", "8002"), Bare("gemini-image", "8001"), Richly("passthrough", "8001")}

Documents ==
  {Document(es) : es \in {<<e>> : e \in Odd} \cup {<<e, f>> : e \in Odd, f \in Others}
                          \cup {<<f, e>> : e \in Odd, f \in Others}}
    \cup {[Document(<<>>) EXCEPT !.shape = s] : s \in Shapes}

\* What a string or a comment may hold: markers, quotes, escaped characters.
StringBodies ==
  {<<>>, <<Slash, Slash>>, <<Slash, Star>>, <<Star, Slash>>, <<Escape, Quote>>,
   <<Escape, Escape>>, <<Escape, Quote, Slash, Slash>>}

LineBodies == {<<>>, <<Quote>>, <<Slash, Star>>, <<Escape>>, <<Star, Slash>>}

BlockBodies == {<<>>, <<Quote>>, <<Newline, Letter>>, <<Slash, Slash>>, <<Star>>, <<Slash>>, <<Slash, Star>>}

Tokens ==
  {Plain(<<Letter>>), Plain(<<Newline>>)} \cup {JsonString(b) : b \in StringBodies}
    \cup {LineComment(b) : b \in LineBodies} \cup {BlockComment(b) : b \in BlockBodies}

Tails == {OpenLine(b) : b \in LineBodies} \cup {OpenBlock(b) : b \in BlockBodies}

Texts == UNION {[1 .. n -> Tokens] : n \in 0 .. 2}

Commented ==
  [tokens : Texts \cup {Append(t, tail) : t \in Texts, tail \in Tails}, document : {Document(<<Plainly("passthrough", "8001")>>)}]

MCFiles == Commented \cup [tokens : {<<>>}, document : Documents]

-----------------------------------------------------------------------------
(* Requests.                                                                *)

Part(name, f, d) == [name |-> name, file |-> f, data |-> IF d = "" THEN <<>> ELSE <<Data(d)>>]

Form == <<Part("prompt", FALSE, "text"), Part("model", FALSE, "text"), Part("image", TRUE, "picture")>>

Object == "prompt" :> "text" @@ "model" :> "text"

Plain0 == [method |-> "POST", path |-> "/v1/images/generations", query |-> {}, headers |-> {},
           type |-> "application/json", json |-> TRUE, fields |-> Object, parts |-> <<>>, body |-> <<>>]

Edit(parts) ==
  [Plain0 EXCEPT !.path = "/v1/images/edits", !.type = "multipart/form-data", !.json = FALSE, !.fields = "" :> "",
                 !.parts = parts, !.body = BuildMultipart(parts), !.headers = {<<"content-length", "client">>}]

Fields == {"prompt" :> p @@ Object : p \in {"blank", "number", "null"}}
            \cup {Without(Object, "model"), Without(Object, "prompt"), "model" :> "null" @@ Object,
                  "model" :> "foreign" @@ Object}
            \cup {"n" :> n @@ Object : n \in {"null", "0", "1", "10", "11", "true"}}
            \cup {"response_format" :> f @@ Object : f \in {"null", "url", "b64_json", "text"}}
            \cup {k :> v @@ Object : k \in {"size", "seed", "aspect_ratio", "resolution", "user"}, v \in {"null", "text"}}

OddParts == {Part("mask", TRUE, "picture"), Part("mask", FALSE, "text"), Part("file", TRUE, "picture"),
             Part("image[]", TRUE, "picture"), Part("image", TRUE, "text"), Part("image", FALSE, "link"),
             Part("image", FALSE, "text"), Part("model", FALSE, ""), Part("model", FALSE, "other"),
             Part("prompt", FALSE, ""), Part("size", FALSE, "bytes"), Part("user", FALSE, "bytes"),
             Part("user", FALSE, "text"), Part("images", FALSE, "text"), Part("n", FALSE, "10"),
             Part("n", FALSE, "11"), [Part("image", TRUE, "picture") EXCEPT !.data = @ \o <<CRLF, CRLF, Dashes>>],
             [Part("image[]", TRUE, "picture") EXCEPT !.data = @ \o <<Disposition("mask", FALSE), CRLF>>],
             Part("resolution", FALSE, "text"), Part("response_format", FALSE, "url")}

Forms == {Form, Tail(Form), Front(Form), <<Form[1], Form[3]>>}
           \cup {Form \o <<Part("image[]", TRUE, "picture"), Part("images", FALSE, "text")>>}
           \cup {Append(Form, p) : p \in OddParts} \cup {<<p>> \o Form : p \in OddParts}

Torn == {[Edit(Form) EXCEPT !.body = SubSeq(@, 1, n)] : n \in 0 .. Len(BuildMultipart(Form)) - 1}

\* Header sets of a client, by the length and encodings it states, and what its
\* Connection header names.
HeaderSets ==
  {{<<"authorization", "Bearer client">>, <<"host", "proxy">>, <<"x-trace", "1">>} \cup hs :
     hs \in {{}, {<<"content-length", "client">>, <<"accept-encoding", "br">>},
             {<<"connection", "x-trace">>, <<"transfer-encoding", "chunked">>},
             {<<"connection", "authorization">>, <<"connection", "content-length">>, <<"content-length", "client">>},
             {<<"authorization", "Basic client">>, <<"te", "trailers">>, <<"accept-encoding", "gzip">>}}}

Paths == {"/health", "/v1/images/generations", "/v1/images/edits", "/v1/models", "/v1/models/m",
          "/v1/image-generation-models", "/v1/chat/completions"}

MCRequests ==
  {[Plain0 EXCEPT !.method = m, !.path = p, !.headers = hs, !.query = {"api-version"}] :
     m \in {"GET", "POST", "HEAD"}, p \in Paths, hs \in HeaderSets}
    \cup {[Plain0 EXCEPT !.fields = fs] : fs \in Fields} \cup {[Plain0 EXCEPT !.json = FALSE]}
    \cup {Edit(parts) : parts \in Forms} \cup Torn \cup {[Edit(Form) EXCEPT !.headers = hs] : hs \in HeaderSets}
    \cup {[Edit(Form) EXCEPT !.type = "multipart/mixed"]}

-----------------------------------------------------------------------------

Encoded == "upstream plain" :> {} @@ "upstream gzip" :> {<<"content-encoding", "gzip">>}
             @@ "upstream br" :> {<<"content-encoding", "br">>}

\* A response that states its length, or does not.
Response(status, bytes, body, states) ==
  [status |-> status, bytes |-> bytes, body |-> body,
   headers |-> Encoded[bytes] \cup {<<"connection", "x-hop">>, <<"x-hop", "1">>, <<"x-id", "1">>}
                 \cup IF states THEN {<<"content-length", bytes>>} ELSE {}]

MCResponses ==
  {Response(s, b, o, l) : s \in {"200", "400"}, b \in DOMAIN Encoded,
                           o \in {"object without created", "text"}, l \in BOOLEAN}

=============================================================================
