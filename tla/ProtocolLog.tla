---------------------------- MODULE ProtocolLog ----------------------------
(***************************************************************************)
(* The exchanges of a listener and its protocol log: what _BodyCapture and *)
(* ExchangeLog (logging_feature.py) observe of bodies that stream through  *)
(* in chunks, the records they make of it, and LogQueue, which takes them. *)
(* When and in which order an exchange may end is Relay's business.        *)
(***************************************************************************)
EXTENDS LogQueue, Redaction

CONSTANTS
  Exchanges,   \* [headers, query, request, response], bodies being [type, text]
  Settings,    \* [bodies, limit, names]: capture and the redaction arrays' names
  ChunkSizes   \* bound: how much of a body comes at once

Sides == {"request", "response"}

ASSUME SettingsAssumption == \A s \in Settings : s.bodies \in BOOLEAN /\ s.limit \in Nat \ {0}
ASSUME ChunkSizesAssumption == ChunkSizes \subseteq Nat \ {0}
ASSUME ExchangesAssumption ==
  \A x \in Exchanges :
    /\ \A side \in Sides : x[side].text \in Seq({x[side].text[i] : i \in DOMAIN x[side].text})
    /\ \A part \in {"headers", "query"} : \A i \in DOMAIN x[part] : x[part][i] = <<x[part][i][1], x[part][i][2]>>

VARIABLES
  settings,    \* the listener's
  exchange,    \* the exchange under way
  passed,      \* what has gone on of each body
  captures,    \* its captures by side; the response's from its start
  records,     \* the records it has made
  phase        \* "idle", "announced", "responding", "final"

exchangeVars == <<settings, exchange, passed, captures, records, phase>>

None == <<>>

-----------------------------------------------------------------------------
(* Capture of one body.                                                     *)

BinaryTypes == {"image/png", "multipart/form-data"}

IsTextual(type) == type # "" /\ type \notin BinaryTypes

IsJson(type) == type = "application/json"

NewCapture(type) == [type |-> type, count |-> 0, prefix |-> <<>>]

\* Mutant: a chunk is kept as a whole as long as there is room.
ObserveWhole(capture, chunk) ==
  [capture EXCEPT !.count = @ + Len(chunk),
     !.prefix = IF settings.bodies /\ IsTextual(capture.type) /\ Len(@) < settings.limit THEN @ \o chunk ELSE @]

\* Every byte is counted, and kept while there is room.
Observe(capture, chunk) ==
  [capture EXCEPT !.count = @ + Len(chunk),
     !.prefix = IF settings.bodies /\ IsTextual(capture.type) /\ Len(@) < settings.limit
                THEN @ \o SubSeq(chunk, 1, IF Len(chunk) < settings.limit - Len(@) THEN Len(chunk)
                                           ELSE settings.limit - Len(@))
                ELSE @]

IsUtf8(text) ==
  \A i \in DOMAIN text :
    /\ text[i] = <<"lead">> => i < Len(text) /\ text[i + 1] = <<"trail">>
    /\ text[i] = <<"trail">> => i > 1 /\ text[i - 1] = <<"lead">>

Omitted(capture, reason) == [bytes |-> capture.count, captured |-> FALSE, reason |-> reason]

Metadata(capture) ==
  IF ~settings.bodies THEN Omitted(capture, "disabled")
  ELSE IF ~IsTextual(capture.type) THEN Omitted(capture, "binary")
  ELSE IF ~IsUtf8(capture.prefix) THEN Omitted(capture, "not UTF-8")
  ELSE [bytes |-> capture.count, captured |-> TRUE,
        body |-> IF IsJson(capture.type)
                 THEN RedactJsonText(capture.prefix, NameSet(settings.names))
                 ELSE Unread(capture.prefix),
        truncated |-> capture.count > Len(capture.prefix), kept |-> Len(capture.prefix)]

\* Redaction raises.
IsRefused(capture) ==
  /\ settings.bodies /\ IsTextual(capture.type) /\ IsUtf8(capture.prefix)
  /\ IsJson(capture.type) /\ capture.prefix \in Refused

-----------------------------------------------------------------------------
(* One exchange.                                                            *)

\* emit: a closed runtime ignores the record, and while close() runs nothing else
\* does.
EmitsRecord(record) ==
  \/ /\ Emits /\ records' = Append(records, record)
  \/ /\ runtime = "closed"
     /\ UNCHANGED <<vars, records>>

\* The bound of LogQueue leaves room for the three records of an exchange.
Announces ==
  /\ phase = "idle" /\ emitted + 3 <= MaxRecords
  /\ \E x \in Exchanges :
       /\ exchange' = x
       /\ captures' = [request |-> NewCapture(x.request.type)]
       /\ Emits
       /\ records' = <<[event |-> "request_received",
                        headers |-> RedactPairs(x.headers, NameSet(settings.names)),
                        query |-> RedactPairs(x.query, NameSet(settings.names))]>>
  /\ passed' = [request |-> 0, response |-> 0]
  /\ phase' = "announced"
  /\ UNCHANGED settings

\* wrap_request and observe_response: a chunk is observed and then goes on.
Passes(side, n) ==
  LET text == exchange[side].text
  IN  /\ runtime \in {"open", "closed"}
      /\ passed[side] + n <= Len(text)
      /\ captures' = [captures EXCEPT ![side] = Observe(@, SubSeq(text, passed[side] + 1, passed[side] + n))]
      /\ passed' = [passed EXCEPT ![side] = @ + n]
      /\ UNCHANGED <<vars, settings, exchange, records, phase>>

\* A response may come before the request has gone on completely.
PassesRequest(n) == phase \in {"announced", "responding"} /\ Passes("request", n)

PassesResponse(n) == phase = "responding" /\ Passes("response", n)

ResponseStarted ==
  /\ phase = "announced" /\ phase' = "responding"
  /\ EmitsRecord([event |-> "upstream_response_started",
                  headers |-> RedactPairs(exchange.headers, NameSet(settings.names))])
  /\ captures' = [request |-> captures.request, response |-> NewCapture(exchange.response.type)]
  /\ UNCHANGED <<settings, exchange, passed>>

Ends(record) ==
  /\ phase \in {"announced", "responding"} /\ phase' = "final"
  /\ EmitsRecord(record)
  /\ UNCHANGED <<settings, exchange, passed, captures>>

\* The exchange counts as final before the metadata is made; if that raises,
\* nothing is emitted.
Complete ==
  /\ phase = "responding" /\ passed.response = Len(exchange.response.text)
  /\ \/ /\ \A side \in Sides : ~IsRefused(captures[side])
        /\ Ends([event |-> "exchange_completed", request |-> Metadata(captures.request),
                 response |-> Metadata(captures.response)])
     \/ /\ \E side \in Sides : IsRefused(captures[side])
        /\ runtime \in {"open", "closed"}
        /\ phase' = "final"
        /\ UNCHANGED <<vars, settings, exchange, passed, captures, records>>

Fail == Ends([event |-> "exchange_failed"])

Cancel ==
  Ends([event |-> "exchange_cancelled", requestBytes |-> captures.request.count,
        responseBytes |-> IF phase = "announced" THEN 0 ELSE captures.response.count])

\* The exchange is forgotten.
Forgets ==
  /\ phase = "final" /\ phase' = "idle"
  /\ exchange' = None /\ captures' = None /\ passed' = None /\ records' = None
  /\ UNCHANGED <<vars, settings>>

ExchangeSteps ==
  \/ Announces \/ ResponseStarted \/ Complete \/ Fail \/ Cancel \/ Forgets
  \/ \E n \in ChunkSizes : PassesRequest(n) \/ PassesResponse(n)

RuntimeSteps == CloseBegins \/ StopAttempts \/ CloseEnds \/ Takes \/ Writes

LogInit ==
  /\ Init
  /\ settings \in Settings
  /\ exchange = None /\ passed = None /\ captures = None /\ records = None /\ phase = "idle"

LogNext == ExchangeSteps \/ (RuntimeSteps /\ UNCHANGED exchangeVars)

LogSpec == LogInit /\ [][LogNext]_<<vars, exchangeVars>> /\ Fairness

-----------------------------------------------------------------------------

\* The bodies' metadata in a completed exchange's record, with what was forwarded.
Told ==
  IF records = None \/ records[Len(records)].event # "exchange_completed" THEN {}
  ELSE LET record == records[Len(records)]
       IN  {[data |-> record[side], type |-> exchange[side].type,
             text |-> SubSeq(exchange[side].text, 1, passed[side])] : side \in Sides}

Beginning(text) == SubSeq(text, 1, IF Len(text) < settings.limit THEN Len(text) ELSE settings.limit)

\* A record tells of a body what the body says, however it was cut in chunks: how
\* long it was, its beginning up to the limit, and whether that is all; and no
\* more than its length if it is not to be captured (class _BodyCapture). Only JSON
\* is shown otherwise than it came.
RecordTellsTheBody ==
  \A t \in Told :
    /\ t.data.bytes = Len(t.text)
    /\ t.data.captured <=> settings.bodies /\ IsTextual(t.type) /\ IsUtf8(Beginning(t.text))
    /\ t.data.captured =>
         /\ t.data.kept = Len(Beginning(t.text))
         /\ t.data.truncated <=> Len(t.text) > settings.limit
         /\ ~(IsJson(t.type) /\ Beginning(t.text) \in DOMAIN Loads) => t.data.body = Unread(Beginning(t.text))

\* No record shows what stands under a sensitive name in a header, in a query or,
\* at any depth, in a JSON body that was captured whole, and it shows everything
\* else; a name is sensitive in any spelling (_is_sensitive_name against
\* _name_set).  Nothing is said of a JSON body that the limit cut: _redact_json_text
\* leaves it as it came.
RedactsByName ==
  /\ \A i \in DOMAIN records : \A part \in DOMAIN records[i] \cap {"headers", "query"} :
       records[i][part] = [j \in DOMAIN exchange[part] |->
         LET pair == exchange[part][j]
         IN  <<pair[1], IF IsNamedAsSecret(pair[1], settings.names) THEN Redacted ELSE pair[2]>>]
  /\ \A t \in Told : t.data.captured /\ IsJson(t.type) /\ Beginning(t.text) \in DOMAIN Loads =>
       ShowsButSecrets(t.data.body, Loads[Beginning(t.text)], settings.names)

\* README: "names containing `token`, `secret`, `password`, or `api_key` are
\* redacted", whether or not a body was cut behind them.  The code breaks this.
CutBodiesKeepSecrets ==
  \A t \in Told : t.data.captured /\ IsJson(t.type) /\ t.text \in DOMAIN Loads =>
    \A i \in 1 .. Len(t.data.body.text) - 1 :
      ~(Len(t.data.body.text[i]) = 3 /\ IsNamedAsSecret(t.data.body.text[i], settings.names))

\* README: truncated textual bodies are marked in the record.
TruncatedAreMarked ==
  \A t \in Told :
    settings.bodies /\ IsTextual(t.type) /\ IsUtf8(t.text) /\ Len(t.text) > settings.limit =>
      t.data.captured /\ t.data.truncated

=============================================================================
