---------------------------- MODULE Configuration ----------------------------
(***************************************************************************)
(* What load_config (config.py) makes of a configuration document.         *)
(*                                                                         *)
(* A listener entry is a function from the keys it gives, written with     *)
(* dots, to their values; "x.*" is a key of x that x does not know. Of a   *)
(* value only what a validator can tell apart is kept: "null", "zero" (no  *)
(* number above it), "count", "large" (beyond ports and capture sizes),    *)
(* "enormous" (an integer no float can hold), "fraction", "infinite",      *)
(* "blank", "[]", "names", "repeats", "mixed" (arrays), "object".          *)
(***************************************************************************)
EXTENDS Sequences, SequencesExt, FiniteSets, FiniteSetsExt

Ports == {"8001", "8002"}

Modes == {"passthrough", "grok-image", "grok-image-edit", "gemini-image", "featherless"}

\* The section that a mode needs.
SectionOf == "grok-image" :> "grok_image" @@ "grok-image-edit" :> "grok_image_edit"
               @@ "gemini-image" :> "gemini_image" @@ "featherless" :> "featherless"

Sections == {SectionOf[m] : m \in DOMAIN SectionOf}

Text == {"text", "other", "1k", "2k", "url", "KEY", "NO_KEY", "/log", "logging"} \cup Modes
Boolean == {"true", "false"}
PositiveInteger == {"count", "large", "enormous"} \cup Ports
PositiveNumber == {"count", "large", "fraction"} \cup Ports
CaptureSize == {"count"} \cup Ports
Names == {"[]", "names", "repeats"}

Optional(values) == values \cup {"absent"}
Nullable(values) == values \cup {"absent", "null"}

At(e, key) == IF key \in DOMAIN e THEN e[key] ELSE "absent"

-----------------------------------------------------------------------------
(* The checks of an entry, in the order of the code.                        *)

Check(key, takes) == [key |-> key, takes |-> takes]

PortCheck == Check("port", Ports \cup {"count"})

ModeCheck == Check("mode", Modes)

\* An unknown key is a misspelled one.
RejectUnknownKeys(section) == Check(section \o ".*", {"absent"})

GrokImageChecks ==
  <<Check("grok_image", {"object"}), RejectUnknownKeys("grok_image"),
    Check("grok_image.default_model", Nullable(Text)),
    Check("grok_image.aspect_ratio", Nullable(Text)),
    Check("grok_image.resolution", Nullable({"1k", "2k"}))>>

GrokImageEditChecks ==
  <<Check("grok_image_edit", {"object"}), RejectUnknownKeys("grok_image_edit"),
    Check("grok_image_edit.default_model", Nullable(Text)),
    Check("grok_image_edit.aspect_ratio", Nullable(Text)),
    Check("grok_image_edit.resolution", Nullable({"1k", "2k"}))>>

GeminiImageChecks ==
  <<Check("gemini_image", {"object"}), RejectUnknownKeys("gemini_image"),
    Check("gemini_image.default_model", Nullable(Text)),
    Check("gemini_image.aspect_ratio", Nullable(Text))>>

FeatherlessChecks ==
  <<Check("featherless", {"object"}), RejectUnknownKeys("featherless"),
    Check("featherless.model_whitelist", {"names"}),
    Check("featherless.concurrency_limit", Nullable(PositiveInteger)),
    Check("featherless.max_queue_wait_seconds", Nullable(PositiveNumber)),
    Check("featherless.cache_ttl_seconds", Nullable(PositiveNumber))>>

SectionChecks(mode) ==
  CASE mode = "grok-image" -> GrokImageChecks
    [] mode = "grok-image-edit" -> GrokImageEditChecks
    [] mode = "gemini-image" -> GeminiImageChecks
    [] mode = "featherless" -> FeatherlessChecks
    [] OTHER -> <<>>

FileChecks(e) ==
  <<Check("file", Optional({"object"})), RejectUnknownKeys("file"),
    Check("file.enabled", Optional(Boolean))>>
    \o IF At(e, "file.enabled") = "true"
       THEN <<Check("file.path", {"/log"}),
              Check("file.max_bytes", Optional(PositiveInteger)),
              Check("file.backup_count", Optional(PositiveInteger))>>
       ELSE <<>>

CaptureChecks ==
  <<Check("capture", Optional({"object"})), RejectUnknownKeys("capture"),
    Check("capture.bodies", Optional(Boolean)),
    Check("capture.max_body_bytes", Optional(CaptureSize))>>

RedactionChecks ==
  <<Check("redaction", Optional({"object"})), RejectUnknownKeys("redaction"),
    Check("redaction.additional_header_names", Optional(Names)),
    Check("redaction.additional_query_parameter_names", Optional(Names)),
    Check("redaction.additional_json_field_names", Optional(Names))>>

\* The log goes somewhere: stdout may be off only with a file.
LoggingChecks(e) ==
  <<RejectUnknownKeys("logging"), Check("stdout", Optional(Boolean))>>
    \o FileChecks(e) \o CaptureChecks \o RedactionChecks
    \o IF At(e, "file.enabled") = "true" THEN <<>> ELSE <<Check("stdout", Optional({"true"}))>>

\* "feature" is the first item of the array, "feature 2" the next, which no
\* entry may have: there is one feature, and it may not be repeated.
FeatureChecks(e) ==
  <<Check("features", Optional({"[]", "items"}))>>
    \o IF At(e, "features") # "items" THEN <<>>
       ELSE <<Check("feature", {"object"}), RejectUnknownKeys("feature"),
              Check("feature.name", {"logging"}), Check("logging", {"object"})>>
              \o LoggingChecks(e) \o <<Check("feature 2", {"absent"})>>

\* A featherless listener holds no key; for the others environ must have it.
UpstreamChecks(e, environ) ==
  <<Check("upstream", {"object"}),
    Check("upstream.api_key_env",
          IF e["mode"] = "featherless" THEN {"absent", "null"} ELSE environ),
    Check("upstream.base_url", {"url"})>>

TimeoutChecks ==
  <<Check("timeouts", Optional({"object"})),
    Check("timeouts.connect_seconds", Optional(PositiveNumber)),
    Check("timeouts.read_seconds", Nullable(PositiveNumber))>>

\* The first check that fails refuses the entry; measuring an integer that no
\* float can hold raises OverflowError instead.
Reaction(e, checks) ==
  LET failing == {i \in DOMAIN checks : At(e, checks[i].key) \notin checks[i].takes}
      first == checks[Min(failing)]
  IN  CASE failing = {} -> "started"
        [] failing # {} /\ At(e, first.key) = "enormous" /\ "fraction" \in first.takes -> "crashed"
        [] OTHER -> "refused"

-----------------------------------------------------------------------------
(* An entry.                                                                *)

LacksSection(e) == e["mode"] \in DOMAIN SectionOf /\ SectionOf[e["mode"]] \notin DOMAIN e

EntryChecks(e, environ) ==
  SectionChecks(e["mode"]) \o FeatureChecks(e) \o UpstreamChecks(e, environ) \o TimeoutChecks

\* Mutant: the rest of an entry is validated before its section is missed.
ListenerRuntimeSkipsLate(e, environ) ==
  LET read == Reaction(e, <<PortCheck, ModeCheck>>)
      checked == Reaction(e, FeatureChecks(e) \o UpstreamChecks(e, environ) \o TimeoutChecks)
  IN  CASE read # "started" -> read
        [] read = "started" /\ checked # "started" -> checked
        [] read = "started" /\ checked = "started" /\ LacksSection(e) -> "skipped"
        [] OTHER -> Reaction(e, EntryChecks(e, environ))

\* What becomes of an entry: "started", "skipped", "refused" or "crashed".
ListenerRuntime(e, environ) ==
  LET read == Reaction(e, <<PortCheck, ModeCheck>>)
  IN  CASE read # "started" -> read
        [] read = "started" /\ LacksSection(e) -> "skipped"
        [] OTHER -> Reaction(e, EntryChecks(e, environ))

\* The settings that have a default, and what it is.
Defaults ==
  [s \in {"grok_image.default_model", "grok_image.aspect_ratio", "grok_image.resolution",
          "grok_image_edit.default_model", "grok_image_edit.aspect_ratio",
          "grok_image_edit.resolution", "gemini_image.default_model",
          "gemini_image.aspect_ratio", "featherless.concurrency_limit"} |-> "none"]
    @@ "featherless.max_queue_wait_seconds" :> "60.0" @@ "featherless.cache_ttl_seconds" :> "300.0"
    @@ "timeouts.connect_seconds" :> "10.0" @@ "timeouts.read_seconds" :> "120.0"
    @@ "features" :> "[]" @@ "stdout" :> "true" @@ "file.enabled" :> "false"
    @@ "file.max_bytes" :> "10 MB" @@ "file.backup_count" :> "5"
    @@ "capture.bodies" :> "false" @@ "capture.max_body_bytes" :> "1 MB"
    @@ "redaction.additional_header_names" :> "[]" @@ "redaction.additional_query_parameter_names" :> "[]"
    @@ "redaction.additional_json_field_names" :> "[]"

FileSettings == {"file.path", "file.max_bytes", "file.backup_count"}

ForeignSections(e) == {s \in Sections : e["mode"] \notin DOMAIN SectionOf \/ SectionOf[e["mode"]] # s}

\* The settings of each section.
SettingsOf ==
  [s \in Sections |-> {k \in DOMAIN Defaults :
     \E n \in {"default_model", "aspect_ratio", "resolution", "concurrency_limit",
               "max_queue_wait_seconds", "cache_ttl_seconds"} : k = s \o "." \o n}]

\* The settings an entry gives in vain: in another mode's section, or of a file
\* that is off.
Ignored(e) ==
  UNION {SettingsOf[s] : s \in ForeignSections(e)}
    \cup IF At(e, "file.enabled") = "true" THEN {} ELSE FileSettings

\* null stands for the default, except that it takes the read timeout away.
InEffect(e) ==
  LET ignored == Ignored(e) IN
  [k \in DOMAIN Defaults |->
     IF k \in ignored \/ k \notin DOMAIN e \/ (e[k] = "null" /\ k # "timeouts.read_seconds")
     THEN Defaults[k] ELSE e[k]]

\* A warning names the section, or the file, whose settings are ignored.
WarningsOf(e) ==
  {s \in ForeignSections(e) : s \in DOMAIN e}
    \cup {"file" : k \in {k \in FileSettings : k \in DOMAIN e /\ k \in Ignored(e)}}

ListenerOf(e) ==
  [port |-> e["port"], mode |-> e["mode"],
   key |-> IF e["mode"] = "featherless" THEN "" ELSE e["upstream.api_key_env"],
   logFile |-> IF At(e, "file.enabled") = "true" THEN e["file.path"] ELSE "none",
   settings |-> InEffect(e), warnings |-> WarningsOf(e)]

-----------------------------------------------------------------------------
(* A document: its shape, the top-level keys it has besides "listeners",    *)
(* and its entries. A shape other than "listeners" is a way to be no file,  *)
(* no JSON object or no array of objects.                                   *)

Shapes == {"listeners", "no file", "unreadable", "not UTF-8", "not JSON", "enormous literal",
           "no object", "no listeners", "no array", "no objects"}

\* Decoding errors and integers too long for int() are ValueErrors of another
\* kind than the one that is caught.
ReadJsonObject(shape) ==
  CASE shape \in {"not UTF-8", "enormous literal"} -> "crashed"
    [] OTHER -> "refused"

\* The entries that start, by their positions.
Started(entries, environ) == {i \in DOMAIN entries : ListenerRuntime(entries[i], environ) = "started"}

\* Mutant: the ports of skipped entries count too.
PortsClashWithSkipped(entries, environ) ==
  \E i, j \in DOMAIN entries : i # j /\ entries[i]["port"] = entries[j]["port"]

\* The ports of the entries that start must differ.
PortsClash(entries, environ) ==
  \E i, j \in Started(entries, environ) : i # j /\ entries[i]["port"] = entries[j]["port"]

\* Log files that several listeners write to.
SharedLogs(listeners) ==
  {listeners[i].logFile : i \in {i \in DOMAIN listeners :
     \E j \in DOMAIN listeners : i # j /\ listeners[i].logFile = listeners[j].logFile}} \ {"none"}

\* The listeners are in the order of their entries, so each stands at the position
\* of its entry. A failed load keeps nothing but the skipped ports that its error
\* names.
LoadConfig(document, environ) ==
  LET entries == document.entries
      becomes == [i \in DOMAIN entries |-> ListenerRuntime(entries[i], environ)]
      fatal == {i \in DOMAIN entries : becomes[i] \in {"refused", "crashed"}}
      started == Started(entries, environ)
      skips == {<<"skipped", entries[i]["port"]>> : i \in {j \in DOMAIN entries : becomes[j] = "skipped"}}
      verdict == IF document.shape # "listeners" THEN ReadJsonObject(document.shape)
                 ELSE IF fatal # {} THEN becomes[Min(fatal)]
                 ELSE IF started = {} \/ PortsClash(entries, environ) THEN "refused"
                 ELSE "loaded"
      listeners == [i \in started |-> ListenerOf(entries[i])]
  IN  [verdict |-> verdict,
       listeners |-> IF verdict = "loaded" THEN listeners ELSE <<>>,
       warnings |-> IF verdict = "loaded"
                    THEN skips \cup {<<"shared log", p>> : p \in SharedLogs(listeners)}
                           \cup {<<"unknown key", k>> : k \in document.unknown}
                    ELSE IF fatal = {} /\ started = {} THEN skips ELSE {}]

=============================================================================
