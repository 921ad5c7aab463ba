----------------------------- MODULE Forwarding -----------------------------
(***************************************************************************)
(* What one exchange makes of a message: the route of a request by mode,   *)
(* method and path (app.py and the classify_request of each mode), the     *)
(* headers that go on (passthrough.py, image_relay.py), and the            *)
(* transformations of bodies (grok_image.py, grok_image_edit.py,           *)
(* gemini_image.py, image_relay.py).                                       *)
(*                                                                         *)
(* Headers are a set of pairs <<name, value>> in lower case; a Connection  *)
(* header is a pair for each of its tokens. A Content-Length has the bytes *)
(* it was computed from as its value. A JSON object is a function from its *)
(* fields to values, "null" if it is JSON's; settings are a mode's, "none"  *)
(* where there is none.                                                    *)
(***************************************************************************)
EXTENDS Sequences, SequencesExt, FiniteSets, MultipartForm

HopByHop == {"connection", "keep-alive", "proxy-authenticate", "proxy-authorization", "te",
             "trailer", "transfer-encoding", "upgrade"}

ValuesOf(headers, name) == {h[2] : h \in {p \in headers : p[1] = name}}

ConnectionTokens(headers) == ValuesOf(headers, "connection")

\* Mutant: the headers that Connection names are kept.
ForwardableAll(headers, excluded) == {h \in headers : h[1] \notin HopByHop \cup excluded}

\* The end-to-end headers, without some that are excluded.
Forwardable(headers, excluded) ==
  {h \in headers : h[1] \notin HopByHop \cup ConnectionTokens(headers) \cup excluded}

\* Mutant: the client's credentials stay beside the listener's.
RequestHeadersBoth(headers, key) ==
  Forwardable(headers, {"host"}) \cup {<<"authorization", "Bearer " \o key>>}

RequestHeaders(headers, key) ==
  Forwardable(headers, {"host", "authorization"}) \cup {<<"authorization", "Bearer " \o key>>}

RequestHeadersPreservingAuth(headers) == Forwardable(headers, {"host"})

\* Mutant: the client's length goes on with a body that is not the client's.
ImageRequestHeadersKept(headers, key, type) ==
  {h \in RequestHeaders(headers, key) : h[1] # "accept-encoding"}

\* Length and encodings are left to httpx; a type, unless "", replaces the client's.
ImageRequestHeaders(headers, key, type) ==
  {h \in RequestHeaders(headers, key) :
     h[1] \notin {"content-length", "accept-encoding"} \cup IF type = "" THEN {} ELSE {"content-type"}}
    \cup IF type = "" THEN {} ELSE {<<"content-type", type>>}

\* What httpx adds: an encoding it can undo, and how the body is delimited, if there
\* is one; without, only methods that expect one get a length.
Completed(headers, bytes) ==
  headers
    \cup (IF ValuesOf(headers, "accept-encoding") = {} THEN {<<"accept-encoding", "gzip">>} ELSE {})
    \cup (IF ValuesOf(headers, "content-length") # {} \/ bytes = "nothing" THEN {}
          ELSE IF bytes = "client" THEN {<<"transfer-encoding", "chunked">>}
          ELSE {<<"content-length", bytes>>})

-----------------------------------------------------------------------------
(* Routes. "relay" streams to the upstream, "image" transforms and buffers, *)
(* "list" buffers without transforming, "gated" is a featherless operation, *)
(* "models" is answered from the cache; the others are answered directly.   *)

GrokImageRoutes ==
  [path \in {"/v1/images/generations", "/v1/models", "/v1/image-generation-models"} |->
     IF path = "/v1/images/generations" THEN <<"POST", "image">> ELSE <<"GET", "relay">>]

GrokImageEditRoutes ==
  [path \in {"/v1/images/edits", "/v1/models", "/v1/image-generation-models"} |->
     IF path = "/v1/images/edits" THEN <<"POST", "image">> ELSE <<"GET", "relay">>]

GeminiRoutes ==
  [path \in {"/v1/images/generations", "/v1/models"} |->
     IF path = "/v1/models" THEN <<"GET", "list">> ELSE <<"POST", "image">>]

ImageRoutes(mode) ==
  CASE mode = "grok-image" -> GrokImageRoutes
    [] mode = "grok-image-edit" -> GrokImageEditRoutes
    [] mode = "gemini-image" -> GeminiRoutes

ClassifyFeatherless(method, path) ==
  CASE method = "GET" /\ path \in {"/v1/models", "/v1/models/m"} -> "models"
    [] method = "POST" -> "gated"
    [] OTHER -> "relay"

RouteOf(mode, method, path) ==
  CASE method = "GET" /\ path = "/health" -> "health"
    [] mode = "passthrough" /\ <<method, path>> # <<"GET", "/health">> -> "relay"
    [] mode = "featherless" /\ <<method, path>> # <<"GET", "/health">> -> ClassifyFeatherless(method, path)
    [] OTHER -> IF path \notin DOMAIN ImageRoutes(mode) THEN "unsupported path"
                ELSE IF ImageRoutes(mode)[path][1] # method THEN "method not allowed"
                ELSE ImageRoutes(mode)[path][2]

\* Gemini's layer has paths of its own.
UpstreamPath(mode, path) ==
  IF mode # "gemini-image" THEN path
  ELSE IF path = "/v1/models" THEN "/v1beta/openai/models" ELSE "/v1beta/openai/images/generations"

\* The names of the query parameters that go on.
UpstreamQuery(mode, query) == IF mode = "gemini-image" THEN query \ {"api-version"} ELSE query

-----------------------------------------------------------------------------
(* Transformations of requests. The result is a function of the fields of   *)
(* the JSON object sent, or Refused.                                        *)

\* An object of one field.
Field(name, value) == [n \in {name} |-> value]

\* The fields, and of others those they lack.
With(fields, others) ==
  [n \in DOMAIN fields \cup DOMAIN others |-> IF n \in DOMAIN fields THEN fields[n] ELSE others[n]]

Refused == Field("refused", "400")

Given(fields, name) == name \in DOMAIN fields /\ fields[name] # "null"

ValueOr(fields, name, default) == IF Given(fields, name) THEN fields[name] ELSE default

RemovedKeys == {"size", "seed"}

\* Mutant: what the client asked for gives way to the configured value.
WithDefaultsForced(fields, settings, names) ==
  With([k \in {n \in names : settings[n] # "none"} |-> settings[k]], fields)

\* Settings fill in fields that are not there.
WithDefaults(fields, settings, names) ==
  With(fields, [k \in {n \in names : settings[n] # "none"} |-> settings[k]])

\* What every image request must have, and is given if it can be.
Basics(fields, settings) ==
  [k \in {"prompt", "model", "response_format"} |->
     CASE k = "prompt" -> fields["prompt"]
       [] k = "model" -> ValueOr(fields, "model", settings["default_model"])
       [] k = "response_format" -> ValueOr(fields, "response_format", "b64_json")]

BasicsHold(fields, settings, counts, formats) ==
  /\ "prompt" \in DOMAIN fields /\ fields["prompt"] \notin {"null", "blank", "number"}
  /\ ValueOr(fields, "model", settings["default_model"]) # "none"
  /\ ValueOr(fields, "n", "1") \in counts
  /\ ValueOr(fields, "response_format", "b64_json") \in formats

GrokImageBody(fields, settings) ==
  IF ~BasicsHold(fields, settings, {"1", "10"}, {"url", "b64_json"}) THEN Refused
  ELSE WithDefaults(With(Basics(fields, settings), [k \in DOMAIN fields \ RemovedKeys |-> fields[k]]),
                    settings, {"aspect_ratio", "resolution"})

\* Gemini takes one image at a time, as data, and a size instead of a ratio.
GeminiBody(fields, settings) ==
  IF ~BasicsHold(fields, settings, {"1"}, {"b64_json"}) THEN Refused
  ELSE WithDefaults(With(Basics(fields, settings), fields), settings,
                    IF "size" \in DOMAIN fields THEN {} ELSE {"aspect_ratio"})

ImageNames == {"image", "image[]"}

\* A part of a form that no edit may have. Its data begins with a picture, or is
\* a link, a text, or bytes that are neither.
IsUnfit(part) ==
  \/ part.name = "mask"
  \/ part.file /\ (part.name \notin ImageNames \/ part.data = <<>> \/ part.data[1] # Data("picture"))
  \/ ~part.file /\ part.name \in ImageNames /\ part.data # <<Data("link")>>
  \/ ~part.file /\ part.name \notin RemovedKeys /\ part.data = <<Data("bytes")>>

Worded(data) == IF data = <<>> THEN "blank" ELSE data[1][2]

\* The text fields of a form; of several with one name the last one counts.
FormFields(parts) ==
  LET texts == {i \in DOMAIN parts : ~parts[i].file /\ parts[i].name \notin ImageNames \cup RemovedKeys}
  IN  [k \in {parts[i].name : i \in texts} |->
         Worded(parts[Max({i \in texts : parts[i].name = k})].data)]

Pictures(parts) == SelectSeq(parts, LAMBDA p : p.name \in ImageNames)

\* The pictures as the JSON object holds them, one or several.
Images(pictures) ==
  Field(IF Len(pictures) = 1 THEN "image" ELSE "images", ToString([i \in DOMAIN pictures |-> pictures[i].data]))

\* An empty model counts as none.
EditBody(type, body, settings) ==
  LET form == ParseMultipart(body)
      texts == FormFields(form.parts)
      empty == ValueOr(texts, "model", "null") = "blank"
      fields == IF empty THEN [k \in DOMAIN texts \ {"model"} |-> texts[k]] ELSE texts
      pictures == Pictures(form.parts)
  IN  IF \/ type # "multipart/form-data" \/ ~form.ok \/ pictures = <<>>
         \/ \E i \in DOMAIN form.parts : IsUnfit(form.parts[i])
         \/ ~BasicsHold(fields, settings, {"1", "10"}, {"url", "b64_json"})
      THEN Refused
      ELSE WithDefaults(With(Images(pictures), With(Basics(fields, settings), fields)),
                        settings, {"aspect_ratio", "resolution"})

-----------------------------------------------------------------------------
(* Responses.                                                               *)

\* An object without a time stamp gets one; anything else stays as it is.
EnsureCreated(bytes, body) ==
  IF body = "object without created" THEN <<"rewritten", "object with created">> ELSE <<bytes, body>>

ImageResponseHeaders(headers, bytes) ==
  {h \in Forwardable(headers, {}) : h[1] \notin {"content-length", "content-encoding"}}
    \cup {<<"content-length", bytes>>}

=============================================================================
