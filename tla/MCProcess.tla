------------------------------ MODULE MCProcess ------------------------------
(***************************************************************************)
(* Every combination of up to two flags, two variables and a file from     *)
(* small sets, and an exporter, without requests; and the plain start with *)
(* two requests, one of them for any route.                                *)
(***************************************************************************)
EXTENDS Process

CONSTANTS r1, r2

Uuid == "0190a0b0-0000-7000-8000-000000000001"
MCParser ==
  [duration |-> "0s" :> 0 @@ "1s" :> 1 @@ "25h" :> 90000,
   integer |-> "512" :> 512 @@ "4096" :> 4096,
   secret |-> "env:DB" :> [source |-> "environment", target |-> "DB"],
   list |-> NoText :> <<>> @@ "RS256" :> <<"RS256">> @@ "RS256,RS256" :> <<"RS256", "RS256">>,
   mappings |-> "[]" :> <<>> @@ "[a]" :> <<[claim_value |-> "a", tenant_id |-> Uuid]>>,
   ratio |-> "0.5" :> 50]

Flag(n, t) == [flag |-> n, form |-> "joined", text |-> t]
Config(t) == [flag |-> "config", form |-> "separate", text |-> t]
Var(n, t) == [name |-> n, text |-> t]
UpTo2(S) == {<<>>} \cup {<<a>> : a \in S} \cup {<<a, b>> : a, b \in S}

MCFiles ==
  [plain |-> [form |-> "object", fields |->
                "log.level" :> "warn" @@ "http.shutdown_timeout" :> "25h" @@
                "database.url" :> "env:DB"],
   local |-> [form |-> "object", fields |->
                "authentication.mode" :> "local-development" @@
                "authentication.local_development.tenant_id" :> Uuid @@
                "authentication.local_development.principal" :> "dev"],
   oidc |-> [form |-> "object", fields |->
                "oidc.issuer" :> "https://issuer" @@ "oidc.audience" :> "mp" @@
                "oidc.allowed_algorithms" :> <<"RS256">> @@ "oidc.tenant_claim" :> "tenant" @@
                "oidc.principal_claim" :> "sub" @@ "oidc.clock_skew" :> "0s" @@
                "oidc.tenant_mappings" :> <<[claim_value |-> "a", tenant_id |-> Uuid]>>],
   bad |-> [form |-> "trailing", fields |-> "log.level" :> "warn"]]

Args == {Config("plain"), Config("local"), Config("oidc"), Config("bad"),
         Config(NoText), [Config(NoText) EXCEPT !.form = "bare"],
         Flag("mode", "production"), Flag("log.level", "debug"), Flag("log.level", "loud"),
         Flag("http.shutdown_timeout", "1s"), Flag("http.idle_timeout", "0s"),
         Flag("oidc.allowed_algorithms", "RS256,RS256"), Flag("positional", "x")}
Environ == {Var("log.level", "error"), Var("database.url", "env:DB"),
            Var("database.url", "postgres://"),
            Var("http.max_header_bytes", "512 bytes"), Var("oidc.tenant_mappings", "[]"),
            Var("unknown", "x"), Var("foreign", "x")}

\* "bare" ends a command line.
CommandLines == {a \in UpTo2(Args) : Len(a) = 2 => a[1].form # "bare"}
Nobody == [r \in Requests |-> {}]
Plain == [args |-> <<>>, environ |-> <<>>,
          asks |-> r1 :> {"/livez", "/readyz", "/metrics", "/v1/", "/"} @@ r2 :> {"/livez", "/v1/"}]
Exporting == [Plain EXCEPT !.asks = Nobody, !.args = <<Flag("telemetry.mode", "otlp"),
                  Flag("telemetry.endpoint", "http://otel")>>]
MCStarts ==
  {[args |-> a, environ |-> e, asks |-> Nobody] :
     a \in CommandLines, e \in UpTo2(Environ)} \cup {Plain, Exporting}
=============================================================================
