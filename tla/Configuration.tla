----------------------------- MODULE Configuration -----------------------------
(***************************************************************************)
(* internal/config: the process configuration is compiled defaults, over   *)
(* them a JSON file, environment variables and flags, and is validated as  *)
(* a whole.  A configuration is a function on the settings' names; its     *)
(* texts are opaque, and what the standard library's parsers make of them  *)
(* is a parameter.                                                         *)
(***************************************************************************)
EXTENDS Integers, Sequences, FiniteSets, TLC

CONSTANTS
  Parser,         \* Parser[kind]: text -> value, for the texts that parse
  Addresses,      \* texts that are host:port
  HttpsUrls, HttpUrls,   \* URLs without user information, query, fragment
  Uuids,          \* texts that are UUIDv7
  ControlTexts,   \* texts with control characters
  LongTexts,      \* texts beyond the limit of their setting
  Failed          \* for a text, a value or a file name that cannot be had

\* The empty text.
NoText == "(empty)"

\* The compiled address and service name pass the checks.
ASSUME ConfigurationAssumption ==
  "127.0.0.1:8080" \in Addresses /\ NoText \notin Addresses /\ "thinkpixelmp" \notin LongTexts

HttpTimeouts == {"http.read_header_timeout", "http.read_timeout", "http.write_timeout",
                 "http.idle_timeout", "http.shutdown_timeout"}
DatabaseTimeouts == {"database.connect_timeout", "database.health_timeout",
                     "database.statement_timeout", "database.lock_timeout",
                     "database.max_connection_lifetime", "database.max_connection_idle_time"}
OidcTimes == {"oidc.clock_skew", "oidc.discovery_timeout"}
OidcTexts == {"oidc.issuer", "oidc.audience", "oidc.tenant_claim", "oidc.principal_claim"}
OidcLists == {"oidc.allowed_algorithms", "oidc.tenant_mappings"}
Counts == {"http.max_header_bytes", "http.max_body_bytes",
              "database.min_connections", "database.max_connections"}
LocalTexts == {"authentication.local_development.tenant_id",
               "authentication.local_development.principal"}
OtherTexts == {"mode", "authentication.mode", "http.address", "log.level",
               "telemetry.mode", "telemetry.endpoint", "telemetry.service_name"}

Durations == HttpTimeouts \cup DatabaseTimeouts \cup OidcTimes
Texts == OidcTexts \cup LocalTexts \cup OtherTexts
Settings == Durations \cup Texts \cup OidcLists \cup Counts
              \cup {"database.url", "telemetry.sample_ratio"}

ModeTexts == {"development", "test", "production"}
SupportedAlgorithms == {"RS256", "RS384", "RS512", "PS256", "PS384", "PS512",
                        "ES256", "ES384", "ES512", "EdDSA"}
NoSecret == [source |-> NoText, target |-> NoText]

\* Defaults; durations in seconds, the sample ratio in percent.
Defaults ==
  [n \in Settings \cup {"config_file"} |->
     CASE n = "mode" -> "development"
       [] n = "authentication.mode" -> "oidc"
       [] n = "http.address" -> "127.0.0.1:8080"
       [] n \in {"http.read_header_timeout", "database.connect_timeout",
                 "oidc.discovery_timeout"} -> 5
       [] n = "http.read_timeout" -> 15
       [] n \in {"http.write_timeout", "oidc.clock_skew"} -> 30
       [] n = "http.idle_timeout" -> 60
       [] n \in {"http.shutdown_timeout", "database.max_connections"} -> 20
       [] n \in {"http.max_header_bytes", "http.max_body_bytes"} -> 1048576
       [] n \in {"database.health_timeout", "database.lock_timeout"} -> 2
       [] n = "database.statement_timeout" -> 10
       [] n = "database.max_connection_lifetime" -> 1800
       [] n = "database.max_connection_idle_time" -> 300
       [] n \in {"database.min_connections", "telemetry.sample_ratio"} -> 0
       [] n = "database.url" -> NoSecret
       [] n \in OidcLists -> <<>>
       [] n = "log.level" -> "info"
       [] n = "telemetry.mode" -> "noop"
       [] n = "telemetry.service_name" -> "thinkpixelmp"
       [] OTHER -> NoText]

-----------------------------------------------------------------------------
(* Validate *)

\* Mutant: a timeout of zero passes for "no limit".
AnyTimeout(d) == d >= 0 /\ d <= 86400

ValidTimeout(d) == d > 0 /\ d <= 86400

Between(x, low, high) == x \in Int /\ low <= x /\ x <= high

Bounded(t) == t # NoText /\ t \notin LongTexts

ClaimText(t) == Bounded(t) /\ t \notin ControlTexts

\* No element occurs twice.
Distinct(s) == \A i, j \in DOMAIN s : s[i] = s[j] => i = j

OidcConfigured(c) == (\E n \in OidcTexts : c[n] # NoText) \/ (\E n \in OidcLists : c[n] # <<>>)

ValidOidc(c) ==
  /\ Between(c["oidc.clock_skew"], 0, 300)
  /\ Between(c["oidc.discovery_timeout"], 1, 60)
  /\ OidcConfigured(c) =>
       /\ c["oidc.issuer"] \in HttpsUrls
       /\ Bounded(c["oidc.audience"])
       /\ c["oidc.allowed_algorithms"] # <<>> /\ Distinct(c["oidc.allowed_algorithms"])
       /\ \A i \in DOMAIN c["oidc.allowed_algorithms"] :
            c["oidc.allowed_algorithms"][i] \in SupportedAlgorithms
       /\ ClaimText(c["oidc.tenant_claim"]) /\ ClaimText(c["oidc.principal_claim"])
       /\ Between(Len(c["oidc.tenant_mappings"]), 1, 10000)
       /\ \A i, j \in DOMAIN c["oidc.tenant_mappings"] :
            LET m == c["oidc.tenant_mappings"] IN
            /\ ClaimText(m[i].claim_value) /\ m[i].tenant_id \in Uuids
            /\ m[i].claim_value = m[j].claim_value => i = j

ValidAuthentication(c) ==
  \/ c["authentication.mode"] = "oidc" /\ \A n \in LocalTexts : c[n] = NoText
  \/ /\ c["authentication.mode"] = "local-development"
     /\ c["mode"] = "development"
     /\ ~OidcConfigured(c)
     /\ c["authentication.local_development.tenant_id"] \in Uuids
     /\ ClaimText(c["authentication.local_development.principal"])

ValidTelemetry(c) ==
  /\ Bounded(c["telemetry.service_name"])
  /\ Between(c["telemetry.sample_ratio"], 0, 100)
  /\ \/ c["telemetry.mode"] = "otlp" /\ c["telemetry.endpoint"] \in HttpUrls \cup HttpsUrls
     \/ c["telemetry.mode"] = "noop" /\ c["telemetry.endpoint"] = NoText

Validate(c) ==
  /\ c["mode"] \in ModeTexts
  /\ c["http.address"] \in Addresses
  /\ \A n \in HttpTimeouts \cup DatabaseTimeouts : ValidTimeout(c[n])
  /\ \A n \in {"http.max_header_bytes", "http.max_body_bytes"} : Between(c[n], 1024, 16777216)
  /\ 0 <= c["database.min_connections"]
  /\ Between(c["database.max_connections"], 1, 1000)
  /\ c["database.min_connections"] <= c["database.max_connections"]
  /\ c["mode"] = "production" => c["database.url"] # NoSecret
  /\ ValidAuthentication(c)
  /\ ValidOidc(c)
  /\ c["log.level"] \in {"debug", "info", "warn", "error"}
  /\ ValidTelemetry(c)

-----------------------------------------------------------------------------
(* Load *)

\* The kind of a setting's parser.
Kind(n) ==
  CASE n \in Durations -> "duration"
    [] n \in Counts -> "integer"
    [] n = "database.url" -> "secret"
    [] n = "oidc.allowed_algorithms" -> "list"
    [] n = "oidc.tenant_mappings" -> "mappings"
    [] n = "telemetry.sample_ratio" -> "ratio"
    [] OTHER -> "text"

\* environmentSetters: the value of a text, Failed if it does not parse.
ValueOf(n, text) ==
  IF Kind(n) = "text" THEN text
  ELSE IF text \in DOMAIN Parser[Kind(n)] THEN Parser[Kind(n)][text]
  ELSE Failed

\* The zero Config that comes with an error: it has no settings.
NoConfig == [n \in {} |-> NoText]

Set(c, n, text) ==
  IF c = NoConfig \/ n \notin Settings \/ ValueOf(n, text) = Failed
  THEN NoConfig
  ELSE [c EXCEPT ![n] = ValueOf(n, text)]

\* configFileArgument: the value of the only --config; one that is empty does
\* not count.
ConfigFileStep(args, i, name) ==
  IF name = Failed THEN Failed
  ELSE IF args[i].flag # "config" THEN name
  ELSE IF args[i].form = "bare" \/ name # NoText THEN Failed
  ELSE args[i].text

ConfigFileArgument(args) ==
  LET name[i \in 0 .. Len(args)] ==
        IF i = 0 THEN NoText ELSE ConfigFileStep(args, i, name[i - 1])
  IN name[Len(args)]

\* A field of the file: durations and the secret are texts, the others JSON.
FileValue(n, v) == IF Kind(n) \in {"duration", "secret"} THEN ValueOf(n, v) ELSE v

\* applyFile: a regular file with one JSON object of known fields of the right
\* types.
ApplyFile(c, file) ==
  IF file.form # "object" \/ \E n \in DOMAIN file.fields : FileValue(n, file.fields[n]) = Failed
  THEN NoConfig
  ELSE [n \in DOMAIN c |-> IF n \in DOMAIN file.fields THEN FileValue(n, file.fields[n]) ELSE c[n]]

\* applyEnvironment: variables without the prefix do not matter, others must be
\* known and given once.
EnvironmentStep(environ, i, c) ==
  IF environ[i].name = "foreign" THEN c
  ELSE IF \E j \in 1 .. i - 1 : environ[j].name = environ[i].name THEN NoConfig
  ELSE Set(c, environ[i].name, environ[i].text)

ApplyEnvironment(c, environ) ==
  LET after[i \in 0 .. Len(environ)] ==
        IF i = 0 THEN c ELSE EnvironmentStep(environ, i, after[i - 1])
  IN after[Len(environ)]

\* applyFlags: of a repeated flag the last one counts; a flag without value, an
\* unknown one and a positional argument are errors.
FlagStep(args, i, c) ==
  IF args[i].form = "bare" THEN NoConfig
  ELSE IF args[i].flag = "config" THEN c
  ELSE Set(c, args[i].flag, args[i].text)

ApplyFlags(c, args) ==
  LET after[i \in 0 .. Len(args)] ==
        IF i = 0 THEN c ELSE FlagStep(args, i, after[i - 1])
  IN after[Len(args)]

Checked(c) == IF c # NoConfig /\ Validate(c) THEN c ELSE NoConfig

\* The file that --config names, if it names one.
WithFile(args, files) ==
  LET name == ConfigFileArgument(args) IN
  IF name = Failed THEN NoConfig
  ELSE IF name = NoText THEN Defaults
  ELSE LET c == ApplyFile(Defaults, files[name]) IN
       IF c = NoConfig THEN NoConfig ELSE [c EXCEPT !["config_file"] = name]

\* Mutant: the environment is applied last.
LoadEnvironmentLast(args, environ, files) ==
  LET file == WithFile(args, files)
      flags == IF file = NoConfig THEN NoConfig ELSE ApplyFlags(file, args)
  IN Checked(IF flags = NoConfig THEN NoConfig ELSE ApplyEnvironment(flags, environ))

Load(args, environ, files) ==
  LET file == WithFile(args, files)
      environment == IF file = NoConfig THEN NoConfig ELSE ApplyEnvironment(file, environ)
  IN Checked(IF environment = NoConfig THEN NoConfig ELSE ApplyFlags(environment, args))
=============================================================================
