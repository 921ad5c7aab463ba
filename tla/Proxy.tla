------------------------------- MODULE Proxy -------------------------------
(***************************************************************************)
(* The proxy from its configuration file to an exchange: main loads the    *)
(* file, create_app makes an application of a listener that starts, and    *)
(* the application takes one request after the other, answers it or sends  *)
(* it on, and relays the upstream's response.                              *)
(*                                                                         *)
(* One listener is followed, which may be any of those that start; what    *)
(* becomes of requests in time is Relay's business.                        *)
(***************************************************************************)
EXTENDS Integers, JsoncComments, Configuration, Forwarding

CONSTANTS
  Files,       \* [tokens, document]: a file's text, and what it says without comments
  Environ,     \* the environment variables that are set and not empty
  Requests,    \* [method, path, query, headers, type, json, fields, parts, body]
  Responses    \* [status, headers, bytes, body]

\* The encoding of a body.
EncodingOf(bytes) ==
  CASE bytes = "upstream gzip" -> "gzip"
    [] bytes = "upstream br" -> "br"
    [] OTHER -> "plain"

\* A message's length and encoding are those of its body.
Fits(message) ==
  /\ ValuesOf(message.headers, "content-length") \subseteq {message.bytes}
  /\ \A e \in ValuesOf(message.headers, "content-encoding") : e = EncodingOf(message.bytes)
  /\ EncodingOf(message.bytes) = "plain" \/ ValuesOf(message.headers, "content-encoding") # {}

\* "absent" stands for a variable that is not set.
ASSUME EnvironAssumption == "absent" \notin Environ

\* A file is made of whole tokens, but may end within a comment; its entries are in
\* an array.
ASSUME FilesAssumption ==
  \A f \in Files :
    /\ f.tokens \in Seq([text : Seq(Characters), value : Seq(Characters)]) /\ IsJsonc(f.tokens)
    /\ DOMAIN f.document.entries \subseteq Nat
    /\ f.document = [shape |-> f.document.shape, unknown |-> f.document.unknown, entries |-> f.document.entries]

\* Servers take no request with a wrong length, and an upstream frames what it
\* sends as it should.
ASSUME RequestsAssumption == \A r \in Requests : ValuesOf(r.headers, "content-length") \subseteq {"client"}
ASSUME ResponsesAssumption ==
  \A p \in Responses :
    Fits(p) /\ ConnectionTokens(p.headers) \cap {"content-length", "content-encoding"} = {}

\* The client's data does not contain the boundary it chose; a form may break off
\* anywhere.
ASSUME FormsAssumption ==
  \A r \in Requests : r.type = "multipart/form-data" =>
    /\ r.parts \in Seq(Range(r.parts)) /\ \A i \in DOMAIN r.parts : IsField(r.parts[i])
    /\ \E n \in 0 .. Len(BuildMultipart(r.parts)) : r.body = SubSeq(BuildMultipart(r.parts), 1, n)

VARIABLES
  stage,       \* "file", "loaded", "refused", "crashed", "serving", "sent", "answered"
  file,        \* the file, until a listener starts
  config,      \* what load_config returned, until a listener starts
  listener,    \* [mode, key, settings] of the listener that is followed
  request,     \* the request under way
  sent,        \* what was sent to the upstream for it
  received,    \* the upstream's response
  reply        \* what the client got

vars == <<stage, file, config, listener, request, sent, received, reply>>

None == <<>>

-----------------------------------------------------------------------------

Init ==
  /\ stage = "file" /\ file \in Files
  /\ config = None /\ listener = None /\ request = None /\ sent = None /\ received = None /\ reply = None

\* The stripped text is read as JSON: it says what the document says if it is
\* the document, and is taken for garbled if it is anything else.
DocumentOf(f) ==
  IF StripComments(TextOf(f.tokens)) = ValueOf(f.tokens) THEN f.document
  ELSE [f.document EXCEPT !.shape = "not JSON"]

\* main: a ConfigError ends the process in order, any other error as it happens.
Loads ==
  /\ stage = "file"
  /\ config' = LoadConfig(DocumentOf(file), Environ)
  /\ stage' = config'.verdict
  /\ UNCHANGED <<file, listener, request, sent, received, reply>>

\* The settings of the mode's section by their own names.
ModeSettings(l) ==
  [s \in {"default_model", "aspect_ratio", "resolution"} |->
     LET key == SectionOf[l.mode] \o "." \o s
     IN  IF l.mode \notin DOMAIN SectionOf \/ key \notin DOMAIN Defaults THEN "none" ELSE l.settings[key]]

Starts ==
  /\ stage = "loaded" /\ stage' = "serving"
  /\ \E i \in DOMAIN config.listeners :
       LET l == config.listeners[i]
       IN  listener' = [mode |-> l.mode, key |-> l.key, settings |-> ModeSettings(l)]
  /\ file' = None /\ config' = None
  /\ UNCHANGED <<request, sent, received, reply>>

-----------------------------------------------------------------------------
(* A request.                                                               *)

RouteFor(r) == RouteOf(listener.mode, r.method, r.path)

Transformed(r) ==
  CASE listener.mode = "grok-image-edit" -> EditBody(r.type, r.body, listener.settings)
    [] listener.mode # "grok-image-edit" /\ ~r.json -> Refused
    [] listener.mode = "grok-image" /\ r.json -> GrokImageBody(r.fields, listener.settings)
    [] OTHER -> GeminiBody(r.fields, listener.settings)

\* A model the request names, if its body is a JSON object that does.
NamesForeignModel(r) ==
  r.json /\ "model" \in DOMAIN r.fields /\ r.fields["model"] = "foreign"

IsAnswered(r) ==
  \/ RouteFor(r) \in {"health", "models", "unsupported path", "method not allowed"}
  \/ RouteFor(r) = "image" /\ Transformed(r) = Refused
  \/ RouteFor(r) = "gated" /\ NamesForeignModel(r)

Takes(r) ==
  /\ stage = "serving" /\ request' = r
  /\ UNCHANGED <<file, config, listener>>

\* The proxy answers by itself.
Answers(r) ==
  /\ Takes(r) /\ IsAnswered(r)
  /\ stage' = "answered"
  /\ reply' = [status |-> RouteFor(r), headers |-> {<<"content-length", "own">>}, bytes |-> "own", body |-> "own"]
  /\ UNCHANGED <<sent, received>>

Sends(r, path, query, headers, bytes, fields) ==
  /\ ~IsAnswered(r)
  /\ stage' = "sent"
  /\ sent' = [path |-> path, query |-> query, headers |-> Completed(headers, bytes),
              bytes |-> bytes, fields |-> fields]
  /\ UNCHANGED <<received, reply>>

\* The body streams through.
Streams(r) ==
  /\ Takes(r) /\ RouteFor(r) = "relay"
  /\ Sends(r, r.path, r.query, RequestHeaders(r.headers, listener.key), "client", r.fields)

Gates(r) ==
  /\ Takes(r) /\ RouteFor(r) = "gated"
  /\ Sends(r, r.path, r.query, RequestHeadersPreservingAuth(r.headers), "client", r.fields)

SendsBuffered(r, bytes, fields) ==
  Sends(r, UpstreamPath(listener.mode, r.path), UpstreamQuery(listener.mode, r.query),
        ImageRequestHeaders(r.headers, listener.key,
                            IF listener.mode = "grok-image-edit" THEN "application/json" ELSE ""),
        bytes, fields)

\* A GET request, which may have a body.
Lists(r) ==
  /\ Takes(r) /\ RouteFor(r) = "list"
  /\ \E bytes \in {"nothing", "buffered"} : SendsBuffered(r, bytes, r.fields)

SendsImage(r) == Takes(r) /\ RouteFor(r) = "image" /\ SendsBuffered(r, "transformed", Transformed(r))

-----------------------------------------------------------------------------
(* The response.                                                            *)

\* An upstream encodes only as it was asked to.
IsResponse(p) ==
  /\ p \in Responses
  /\ EncodingOf(p.bytes) \in ValuesOf(sent.headers, "accept-encoding") \cup {"plain"}

\* httpx has undone the encoding; what an image route is answered with 200 is
\* transformed.
BufferedReply(p) ==
  LET bytes == IF EncodingOf(p.bytes) = "gzip" THEN "decoded" ELSE p.bytes
      payload == IF RouteFor(request) = "image" /\ p.status = "200" THEN EnsureCreated(bytes, p.body)
                 ELSE <<bytes, p.body>>
  IN  [status |-> p.status, headers |-> ImageResponseHeaders(p.headers, payload[1]),
       bytes |-> payload[1], body |-> payload[2]]

StreamedReply(p) ==
  [status |-> p.status, headers |-> Forwardable(p.headers, {}), bytes |-> p.bytes, body |-> p.body]

Relays(p) ==
  /\ stage = "sent" /\ IsResponse(p)
  /\ stage' = "answered" /\ received' = p
  /\ reply' = IF RouteFor(request) \in {"image", "list"} THEN BufferedReply(p) ELSE StreamedReply(p)
  /\ UNCHANGED <<file, config, listener, request, sent>>

\* The exchange is over.
Ends ==
  /\ stage = "answered" /\ stage' = "serving"
  /\ request' = None /\ sent' = None /\ received' = None /\ reply' = None
  /\ UNCHANGED <<file, config, listener>>

Next ==
  \/ Loads \/ Starts \/ Ends
  \/ \E r \in Requests : Answers(r) \/ Streams(r) \/ Gates(r) \/ Lists(r) \/ SendsImage(r)
  \/ \E p \in Responses : Relays(p)

Spec == Init /\ [][Next]_vars

-----------------------------------------------------------------------------
(* Properties of loading.                                                   *)

Loaded == stage \in {"loaded", "refused", "crashed"}

\* Comments, wherever they stand, do not change what a file means: markers and
\* quotes in strings, escapes, and quotes in comments (_strip_jsonc_comments).
CommentsChangeNothing == Loaded => config = LoadConfig(file.document, Environ)

Alone(i) == LoadConfig([file.document EXCEPT !.entries = <<file.document.entries[i]>>], Environ)

\* Every entry is a listener of its own: a file loads exactly if each of its
\* entries, alone in a file, would load or be skipped, at least one would load,
\* and no two that load have one port; what starts is what would start alone, at
\* its place in the file (load_config's loop, and the checks after it).
EntriesStandAlone ==
  Loaded /\ file.document.shape = "listeners" =>
    LET entries == DOMAIN file.document.entries
        loads == {i \in entries : Alone(i).verdict = "loaded"}
        skipped == {i \in entries \ loads : Alone(i).warnings # {}}
    IN  /\ (config.verdict = "loaded") <=>
             /\ loads # {} /\ loads \cup skipped = entries
             /\ \A i, j \in loads : Alone(i).listeners[1].port = Alone(j).listeners[1].port => i = j
        /\ config.verdict = "loaded" =>
             config.listeners = [i \in loads |-> Alone(i).listeners[1]]

\* An entry that lacks its section is skipped whatever else it says, so a file
\* starts the same listeners with it as without it (_listener_runtime).
SkippedEntriesDoNoHarm ==
  Loaded /\ file.document.shape = "listeners" =>
    LET lacking(e) == At(e, "port") \in PortCheck.takes /\ At(e, "mode") \in Modes /\ LacksSection(e)
        rest == {i \in DOMAIN file.document.entries : ~lacking(file.document.entries[i])}
        without == LoadConfig([file.document EXCEPT !.entries = [i \in rest |-> @[i]]], Environ)
    IN  config.verdict = without.verdict /\ config.listeners = without.listeners

\* load_config promises that what is wrong with a file is reported as a
\* ConfigError.
OnlyConfigErrors == stage # "crashed"

-----------------------------------------------------------------------------
(* Properties of an exchange.                                               *)

Credentials(headers) == ValuesOf(headers, "authorization")

\* The upstream of a featherless operation sees the credentials of the client,
\* any other the listener's alone (prepare_request_headers).
CredentialOfRoute ==
  stage = "sent" =>
    IF RouteFor(request) # "gated" THEN Credentials(sent.headers) = {"Bearer " \o listener.key}
    ELSE "authorization" \notin ConnectionTokens(request.headers) =>
           Credentials(sent.headers) = Credentials(request.headers)

\* So the upstream sees exactly one credential where the listener has one, and it
\* is a key that the environment has (the upstream of an entry).
OneCredential ==
  /\ CredentialOfRoute
  /\ stage = "sent" /\ listener.mode # "featherless" => RouteFor(request) # "gated" /\ listener.key \in Environ

\* README: the Authorization header of a featherless client is relayed unchanged.
ClientKeepsCredential ==
  stage = "sent" /\ listener.mode = "featherless" /\ "authorization" \notin ConnectionTokens(request.headers) =>
    Credentials(sent.headers) = Credentials(request.headers)

\* A length or an encoding that a message states is that of its body, in both
\* directions, whatever was transformed or decoded on the way, and a request is
\* delimited in one way, or in none if it was buffered and there is nothing.
IsFramed(m) ==
  LET lengths == ValuesOf(m.headers, "content-length")
      chunked == ValuesOf(m.headers, "transfer-encoding")
  IN  /\ lengths \subseteq {m.bytes}
      /\ lengths = {} \/ chunked = {}
      /\ m.bytes = "nothing" <=> lengths = {} /\ chunked = {}

FramingFits ==
  /\ stage = "sent" => IsFramed(sent)
  /\ stage = "answered" => Fits(reply)

\* A header meant for one connection, by its name or because Connection names
\* it, goes no further, in either direction (_forwardable_headers). What the proxy
\* and httpx set by themselves may be the same as such a header.
OnlyForNextHop(headers) == HopByHop \cup ConnectionTokens(headers)

Framing == {"accept-encoding", "content-length", "content-type", "transfer-encoding"}

SetAnew(h) == h[1] \in Framing \/ h = <<"authorization", "Bearer " \o listener.key>>

HopsStayApart ==
  /\ stage = "sent" =>
       \A h \in sent.headers \cap request.headers : h[1] \in OnlyForNextHop(request.headers) => SetAnew(h)
  /\ stage = "answered" /\ received # None =>
       \A h \in reply.headers : h[1] \notin OnlyForNextHop(received.headers) \ {"content-length"}

\* The fields a client gives in a form, the last of a name, or in JSON.
AskedFields(r) == IF listener.mode = "grok-image-edit" THEN FormFields(r.parts) ELSE r.fields

\* The client says something about a field: null does not, nor a form's blank model.
Says(asked, k) ==
  Given(asked, k) /\ ~(listener.mode = "grok-image-edit" /\ k = "model" /\ asked[k] = "blank")

\* What a field is that the client says nothing about.
Unsaid(asked, k) ==
  CASE k = "model" -> listener.settings["default_model"]
    [] k = "response_format" -> "b64_json"
    [] OTHER -> IF k \in DOMAIN asked THEN "null" ELSE listener.settings[k]

\* What an image request sends says all that the client asked for and the
\* provider knows, unchanged, and beyond that only what the listener's settings
\* or the fixed defaults say; no dropped field gets through, every picture does,
\* and a form that breaks off is refused (the transform_request_body of the three
\* modes, parse_multipart). Of a form's fields one is made of the pictures.
SentIsWhatWasAsked ==
  stage = "sent" /\ RouteFor(request) = "image" =>
    LET asked == AskedFields(request)
        dropped == IF listener.mode = "gemini-image" THEN {} ELSE RemovedKeys
        pictures == Pictures(request.parts)
        pictured == IF listener.mode # "grok-image-edit" THEN {} ELSE {IF Len(pictures) = 1 THEN "image" ELSE "images"}
    IN  /\ \A k \in DOMAIN asked \ (dropped \cup pictured) :
             Says(asked, k) => k \in DOMAIN sent.fields /\ sent.fields[k] = asked[k]
        /\ \A k \in DOMAIN sent.fields \ pictured : Says(asked, k) \/ sent.fields[k] = Unsaid(asked, k)
        /\ DOMAIN sent.fields \cap dropped = {}
        /\ sent.fields["model"] # "none"
        /\ listener.mode = "grok-image-edit" =>
             /\ IsComplete(request.body, BuildMultipart(request.parts))
             /\ \A k \in pictured : sent.fields[k] = ToString([i \in DOMAIN pictures |-> pictures[i].data])

=============================================================================
