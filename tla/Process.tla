-------------------------------- MODULE Process --------------------------------
(***************************************************************************)
(* One process of the server: run of cmd/thinkpixelmp/main.go, the         *)
(* lifecycle Run and the request path of internal/adapters/http.  The      *)
(* goroutine of Run, the serving goroutine, the requests' goroutines, the  *)
(* signal and the shutdown timer interleave freely.  http.Server is        *)
(* external: Accept, ServeFails, ServeCloses and the waiting of Shutdown   *)
(* are what its documentation says.                                        *)
(***************************************************************************)
EXTENDS Configuration

CONSTANTS
  Starts,     \* [args, environ, asks]: how it may be started, and what for
  Files,      \* Files[name]: the configuration files there are
  Requests,   \* requests that may arrive
  Lengths,    \* declared lengths of bodies
  Unset

Routes == {"/livez", "/readyz", "/metrics", "/v1/", "/"}

ASSUME ProcessAssumption ==
  /\ \A s \in Starts, r \in Requests : s.asks[r] \subseteq Routes
  /\ \A s \in Starts :   \* two lists, of texts
       /\ Len(s.args) \in Nat /\ DOMAIN s.args = 1 .. Len(s.args)
       /\ Len(s.environ) \in Nat /\ DOMAIN s.environ = 1 .. Len(s.environ)
       /\ \A i \in DOMAIN s.args : s.args[i].text # Failed
  /\ Unset # NoConfig /\ NoText # Failed

VARIABLES
  start,      \* arguments and environment; asks[r]: routes of request r
  config,     \* Unset, NoConfig or the configuration
  pc,         \* where the main goroutine is
  outcome,    \* what Run, or an earlier failure, returns: "none", "nil", "error"
  cancelled,  \* the context of the signals is done
  closing,    \* Shutdown has been called
  serve,      \* the serving goroutine: "none", "running", "closed", "failed"
  route,      \* route[r]: the handler of request r
  step,       \* "none", "accepted", "handling", "done"
  wrote,      \* responseWriter.wroteHeader
  status,     \* responseWriter.status
  wire,       \* the status that was sent, 0 if none
  recorded    \* the outcome in the metrics

process == <<start, config, pc, outcome, cancelled, closing, serve>>
requests == <<route, step, wrote, status, wire, recorded>>
vars == <<process, requests>>

Init ==
  /\ start \in Starts
  /\ config = Unset
  /\ pc = "start" /\ outcome = "none"
  /\ cancelled = FALSE /\ closing = FALSE
  /\ serve = "none"
  /\ route = [r \in Requests |-> Unset]
  /\ step = [r \in Requests |-> "none"]
  /\ wrote = [r \in Requests |-> FALSE]
  /\ status = [r \in Requests |-> 200]
  /\ wire = [r \in Requests |-> 0]
  /\ recorded = [r \in Requests |-> "none"]

-----------------------------------------------------------------------------
(* The main goroutine *)

Goto(l, o) == pc' = l /\ outcome' = o

LoadConfig ==
  /\ pc = "start"
  /\ config' = Load(start.args, start.environ, Files)
  /\ IF config' = NoConfig THEN Goto("exited", "error") ELSE Goto("loaded", "none")
  /\ UNCHANGED <<start, cancelled, closing, serve, requests>>

\* What the constructors that are given the configuration ask of it again:
\* logging.New, tracing.New and httpadapter.New, and the authenticators'.
LoggingAccepts(c) == c["log.level"] \in {"debug", "info", "warn", "error"}

TracingAccepts(c) ==
  LET probe == [n \in DOMAIN Defaults |->
                  IF n \in {"telemetry.mode", "telemetry.endpoint",
                            "telemetry.service_name", "telemetry.sample_ratio"}
                  THEN c[n] ELSE Defaults[n]]
  IN Validate(probe)

ServerAccepts(c) ==
  /\ c["http.address"] # NoText
  /\ c["http.max_body_bytes"] >= 1 /\ c["http.max_header_bytes"] >= 1
  /\ \A n \in HttpTimeouts : c[n] > 0

LocalAuthAccepts(c) ==
  c["authentication.mode"] = "local-development" =>
    /\ c["mode"] = "development"
    /\ c["authentication.local_development.tenant_id"] \in Uuids
    /\ ClaimText(c["authentication.local_development.principal"])

OidcAccepts(c) ==
  OidcConfigured(c) =>
    /\ c["oidc.issuer"] \in HttpsUrls /\ c["oidc.audience"] # NoText
    /\ c["oidc.allowed_algorithms"] # <<>> /\ Distinct(c["oidc.allowed_algorithms"])
    /\ Between(c["oidc.clock_skew"], 0, 300) /\ Between(c["oidc.discovery_timeout"], 1, 60)
    /\ ClaimText(c["oidc.tenant_claim"]) /\ ClaimText(c["oidc.principal_claim"])
    /\ Between(Len(c["oidc.tenant_mappings"]), 1, 10000)

\* Logger, registry, identifiers, signal context, tracer and server; an exporter
\* may fail to start.
Initialize ==
  /\ pc = "loaded"
  /\ \/ /\ LoggingAccepts(config) /\ TracingAccepts(config) /\ ServerAccepts(config)
        /\ Goto("ready", "none")
     \/ /\ config["telemetry.mode"] = "otlp" \/ ~TracingAccepts(config)
                                             \/ ~ServerAccepts(config)
        /\ Goto("exited", "error")
  /\ UNCHANGED <<start, config, cancelled, closing, serve, requests>>

Signal ==
  /\ pc \notin {"start", "loaded", "exited"} /\ ~cancelled
  /\ cancelled' = TRUE
  /\ UNCHANGED <<start, config, pc, outcome, closing, serve, requests>>

Listen ==
  /\ pc = "ready"
  /\ \/ Goto("serving", "none") /\ serve' = "running"
     \/ Goto("returned", "error") /\ UNCHANGED serve
  /\ UNCHANGED <<start, config, cancelled, closing, requests>>

\* The result of serving, ErrServerClosed being none.
Served == IF serve = "closed" THEN "nil" ELSE "error"

\* select in Run: the serving goroutine has ended, or the context is done.
SelectServe ==
  /\ pc = "serving" /\ serve # "running"
  /\ Goto("returned", Served)
  /\ UNCHANGED <<start, config, cancelled, closing, serve, requests>>

SelectDone ==
  /\ pc = "serving" /\ cancelled
  /\ Goto("shutdown", "none") /\ closing' = TRUE
  /\ UNCHANGED <<start, config, cancelled, serve, requests>>

InProgress(r) == step[r] \in {"accepted", "handling"}

\* Mutant: the listener is closed and nobody is waited for.
ShutdownAtOnce ==
  /\ pc = "shutdown"
  /\ Goto("awaiting", "none")
  /\ UNCHANGED <<start, config, cancelled, closing, serve, requests>>

\* Shutdown returns when no request is in progress, or when its time is over.
ShutdownDone ==
  /\ pc = "shutdown" /\ \A r \in Requests : ~InProgress(r)
  /\ Goto("awaiting", "none")
  /\ UNCHANGED <<start, config, cancelled, closing, serve, requests>>

\* Mutant: Shutdown with the background context.
ShutdownUnbounded == FALSE /\ UNCHANGED vars

ShutdownTimeout ==
  /\ pc = "shutdown"
  /\ Goto("returned", "error")
  /\ UNCHANGED <<start, config, cancelled, closing, serve, requests>>

AwaitServe ==
  /\ pc = "awaiting" /\ serve # "running"
  /\ Goto("returned", Served)
  /\ UNCHANGED <<start, config, cancelled, closing, serve, requests>>

\* The tracer is shut down, within a timeout of its own, and the process ends
\* with all its goroutines.
Exit ==
  /\ pc = "returned"
  /\ Goto("exited", outcome)
  /\ UNCHANGED <<start, config, cancelled, closing, serve, requests>>

-----------------------------------------------------------------------------
(* The serving goroutine *)

ServeFails ==
  /\ pc # "exited" /\ serve = "running" /\ ~closing
  /\ serve' = "failed"
  /\ UNCHANGED <<start, config, pc, outcome, cancelled, closing, requests>>

ServeCloses ==
  /\ pc # "exited" /\ serve = "running" /\ closing
  /\ serve' = "closed"
  /\ UNCHANGED <<start, config, pc, outcome, cancelled, closing, requests>>

Accept(r) ==
  /\ pc # "exited" /\ serve = "running" /\ ~closing
  /\ step[r] = "none"
  /\ \E to \in start.asks[r] : route' = [route EXCEPT ![r] = to]
  /\ step' = [step EXCEPT ![r] = "accepted"]
  /\ UNCHANGED <<process, wrote, status, wire, recorded>>

-----------------------------------------------------------------------------
(* Requests *)

\* What reaches the client is the first status that is written.
Sent(r, s) == IF wire[r] = 0 THEN s ELSE wire[r]

\* wrap: without an identifier, or with a body declared too long, the request is
\* answered at once, and not counted.
Refuse(r) ==
  /\ pc # "exited" /\ step[r] = "accepted"
  /\ \E s \in {500, 413} :
       /\ s = 413 => \E n \in Lengths : n > config["http.max_body_bytes"]
       /\ wire' = [wire EXCEPT ![r] = Sent(r, s)]
  /\ step' = [step EXCEPT ![r] = "done"]
  /\ UNCHANGED <<process, route, wrote, status, recorded>>

Dispatch(r) ==
  /\ pc # "exited" /\ step[r] = "accepted"
  /\ \E n \in Lengths : n <= config["http.max_body_bytes"]
  /\ step' = [step EXCEPT ![r] = "handling"]
  /\ UNCHANGED <<process, route, wrote, status, wire, recorded>>

\* WriteError: the status for each class of error, 500 for others.
ErrorStatuses == {400, 401, 403, 404, 409, 500, 503}

\* What a handler may write.
Statuses(to) ==
  CASE to = "/livez" -> {200, 405}
    [] to = "/readyz" -> {200, 405, 503}
    [] to = "/metrics" -> {200, 405, 500}
    [] to = "/v1/" -> ErrorStatuses \cup {200, 201, 405, 413}
    [] to = "/" -> {404}

\* Mutant: every status is remembered, though only the first is sent.
WriteEveryHeader(r, s) ==
  /\ status' = [status EXCEPT ![r] = s]
  /\ wrote' = [wrote EXCEPT ![r] = TRUE]
  /\ wire' = [wire EXCEPT ![r] = Sent(r, s)]

WriteHeader(r, s) ==
  /\ status' = [status EXCEPT ![r] = IF wrote[r] THEN @ ELSE s]
  /\ wrote' = [wrote EXCEPT ![r] = TRUE]
  /\ wire' = [wire EXCEPT ![r] = IF wrote[r] THEN @ ELSE Sent(r, s)]

Write(r) ==
  /\ pc # "exited" /\ step[r] = "handling"
  /\ \E s \in Statuses(route[r]) : WriteHeader(r, s)
  /\ UNCHANGED <<process, route, step, recorded>>

\* The deferred call: RecordOperation.
Outcome(s) == IF s >= 500 THEN "internal" ELSE IF s >= 400 THEN "invalid" ELSE "succeeded"

Record(r) ==
  /\ step' = [step EXCEPT ![r] = "done"]
  /\ recorded' = [recorded EXCEPT ![r] = Outcome(status'[r])]
  /\ UNCHANGED <<process, route>>

\* A handler returns; when it has written nothing, the server sends 200.
Return(r) ==
  /\ pc # "exited" /\ step[r] = "handling"
  /\ wire' = [wire EXCEPT ![r] = Sent(r, 200)]
  /\ UNCHANGED <<wrote, status>>
  /\ Record(r)

\* A handler panics, before or after it has written a header.
Panic(r) ==
  /\ pc # "exited" /\ step[r] = "handling"
  /\ IF wrote[r] THEN UNCHANGED <<wrote, status, wire>> ELSE WriteHeader(r, 500)
  /\ Record(r)

-----------------------------------------------------------------------------
Run ==
  \/ Listen \/ SelectServe \/ SelectDone
  \/ ShutdownDone \/ ShutdownTimeout \/ AwaitServe \/ Exit

Next ==
  \/ LoadConfig \/ Initialize \/ Run \/ Signal \/ ServeFails \/ ServeCloses
  \/ \E r \in Requests :
       Accept(r) \/ Refuse(r) \/ Dispatch(r) \/ Write(r) \/ Return(r) \/ Panic(r)

Spec == Init /\ [][Next]_vars

\* The goroutines of Run and of Serve are scheduled and the timer fires; nothing
\* is assumed of handlers, clients and signals.
FairSpec == Spec /\ WF_vars(Run) /\ WF_vars(ServeCloses)

-----------------------------------------------------------------------------
(* Properties *)

\* Position of the last flag for setting n, 0 if there is none.
LastFlag(n) ==
  LET at == {i \in DOMAIN start.args : start.args[i].flag = n}
  IN IF at = {} THEN 0 ELSE CHOOSE i \in at : \A j \in at : j <= i

\* The documented precedence of the four layers.
Layered(n) ==
  LET file == {i \in DOMAIN start.args : start.args[i].flag = "config" /\ start.args[i].text # NoText}
      variable == {i \in DOMAIN start.environ : start.environ[i].name = n}
  IN IF LastFlag(n) # 0 THEN ValueOf(n, start.args[LastFlag(n)].text)
     ELSE IF variable # {} THEN ValueOf(n, start.environ[CHOOSE i \in variable : TRUE].text)
     ELSE IF \E i \in file : n \in DOMAIN Files[start.args[i].text].fields
     THEN FileValue(n, Files[start.args[CHOOSE i \in file : TRUE].text].fields[n])
     ELSE Defaults[n]

\* Something that docs/operations/configuration.md says is rejected.
Rejected ==
  \/ \E i \in DOMAIN start.args :
       LET a == start.args[i] IN
       \/ a.flag \notin Settings \cup {"config"} \/ a.form = "bare"
       \/ a.flag \in Settings /\ ValueOf(a.flag, a.text) = Failed
       \/ a.flag = "config" /\ a.text # NoText /\ Files[a.text].form # "object"
       \/ /\ a.flag = "config" /\ a.text # NoText
          /\ \E n \in DOMAIN Files[a.text].fields :
               FileValue(n, Files[a.text].fields[n]) = Failed
       \/ \E j \in 1 .. i - 1 : start.args[j].flag = "config" /\ a.flag = "config"
                                /\ start.args[j].text # NoText
  \/ \E i \in DOMAIN start.environ :
       LET v == start.environ[i] IN
       /\ v.name # "foreign"
       /\ \/ v.name \notin Settings \/ ValueOf(v.name, v.text) = Failed
          \/ \E j \in DOMAIN start.environ : j # i /\ start.environ[j].name = v.name

\* A process that has got past loading runs with exactly the documented
\* precedence of its sources, and one that has not was given something that is
\* to be rejected, or a combination that is not valid.
LoadIsLayered ==
  /\ config \notin {Unset, NoConfig} =>
       ~Rejected /\ \A n \in Settings : config[n] = Layered(n)
  /\ config = NoConfig =>
       Rejected \/ ~Validate([n \in Settings |-> Layered(n)])

\* Whatever Validate accepts, the constructors of logging, tracing, server and
\* authenticators accept, although each has rules of its own.
LoadedConfigurationsStart ==
  config \notin {Unset, NoConfig} =>
    /\ LoggingAccepts(config) /\ TracingAccepts(config) /\ ServerAccepts(config)
    /\ LocalAuthAccepts(config) /\ OidcAccepts(config)

\* Run returns without an error only after a signal, with the listener closed,
\* and when every request that was accepted has been answered.
CleanExit ==
  outcome = "nil" =>
    /\ cancelled /\ serve = "closed"
    /\ \A r \in Requests : step[r] # "none" => step[r] = "done" /\ wire[r] # 0

\* The metrics agree with what was sent, also after a panic and after a second
\* attempt to write a header; a request is counted unless it was refused.
MetricsTellTheWire ==
  \A r \in Requests :
    /\ recorded[r] # "none" => wire[r] # 0 /\ recorded[r] = Outcome(wire[r])
    /\ step[r] = "done" => wire[r] # 0 /\ (recorded[r] = "none" => wire[r] \in {413, 500})

\* After a signal the process ends, even if a handler never returns.
SignalStopsProcess == cancelled ~> pc = "exited"
=============================================================================
