----------------------------- MODULE ProcessProofs -----------------------------
(***************************************************************************)
(* Proofs about the server process, for any requests, starts and sources   *)
(* of configuration.  The invariant has three parts that do not depend on  *)
(* one another: what the response writer knows of every request, where     *)
(* the main goroutine is relative to the serving one, and that a           *)
(* configuration in use has been validated.                                *)
(***************************************************************************)
EXTENDS Process, SequenceProofs, TLAPS

Steps == {"none", "accepted", "handling", "done"}
Kinds_ == {"none", "succeeded", "invalid", "internal"}

TypeInv ==
  /\ start \in Starts
  /\ step \in [Requests -> Steps]
  /\ wrote \in [Requests -> BOOLEAN]
  /\ status \in [Requests -> Int]
  /\ wire \in [Requests -> Int]
  /\ recorded \in [Requests -> Kinds_]
  /\ route = [r \in Requests |-> route[r]]

\* The tracked status is the one that was sent, from the first header on.
RequestInv(r) ==
  /\ step[r] \in {"accepted", "handling"} => route[r] \in Routes
  /\ step[r] \in {"none", "accepted"} =>
       wire[r] = 0 /\ ~wrote[r] /\ status[r] = 200 /\ recorded[r] = "none"
  /\ step[r] = "handling" =>
       /\ recorded[r] = "none"
       /\ wrote[r] => wire[r] = status[r] /\ wire[r] # 0
       /\ ~wrote[r] => wire[r] = 0 /\ status[r] = 200
  /\ step[r] = "done" =>
       /\ wire[r] # 0
       /\ \/ recorded[r] = Outcome(wire[r])
          \/ recorded[r] = "none" /\ wire[r] \in {413, 500}

\* Only Shutdown closes the server, and only after a signal.
RunInv ==
  /\ closing => cancelled /\ pc \in {"shutdown", "awaiting", "returned", "exited"}
  /\ serve = "closed" => closing
  /\ pc \in {"shutdown", "awaiting"} => closing
  /\ pc \in {"start", "loaded", "ready"} => serve = "none"
  /\ pc = "awaiting" => \A r \in Requests : ~InProgress(r)
  /\ outcome = "nil" => /\ pc \in {"returned", "exited"} /\ serve = "closed"
                        /\ \A r \in Requests : ~InProgress(r)

ConfigInv == config \notin {Unset, NoConfig} => Validate(config)

IInv == TypeInv /\ (\A r \in Requests : RequestInv(r)) /\ RunInv /\ ConfigInv

-----------------------------------------------------------------------------
(* Requests *)

\* Every status a handler writes is a number other than 0.
LEMMA StatusesAreNumbers ==
  ASSUME NEW to \in Routes, NEW s \in Statuses(to)
  PROVE  s \in Int /\ s # 0
BY DEF Routes, Statuses, ErrorStatuses

LEMMA OutcomesAreKinds ==
  ASSUME NEW s \in Int
  PROVE  Outcome(s) \in Kinds_ \ {"none"}
BY DEF Outcome, Kinds_

\* A step of one request preserves the invariant when it preserves what is said
\* of that request.
LEMMA RequestStep ==
  ASSUME IInv, UNCHANGED process, NEW r \in Requests, InProgress(r),
         \A u \in Requests \ {r} :
           /\ step'[u] = step[u] /\ wrote'[u] = wrote[u] /\ status'[u] = status[u]
           /\ wire'[u] = wire[u] /\ recorded'[u] = recorded[u] /\ route'[u] = route[u],
         TypeInv', RequestInv(r)'
  PROVE  IInv'
<1>1. ASSUME NEW u \in Requests \ {r} PROVE RequestInv(u)'
  <2>1. RequestInv(u)
    BY DEF IInv
  <2> QED BY <2>1 DEF RequestInv, Outcome
<1>2. RunInv'
  BY DEF IInv, RunInv, process, InProgress
<1>3. ConfigInv'
  BY DEF IInv, ConfigInv, process
<1> QED BY <1>1, <1>2, <1>3 DEF IInv

LEMMA RefuseStep ==
  ASSUME IInv, NEW r \in Requests, Refuse(r)
  PROVE  IInv'
<1>1. PICK s \in {500, 413} : /\ s = 413 => \E n \in Lengths : n > config["http.max_body_bytes"]
                              /\ wire' = [wire EXCEPT ![r] = Sent(r, s)]
  BY DEF Refuse
<1> USE DEF IInv, TypeInv
<1>2. /\ step[r] = "accepted" /\ step' = [step EXCEPT ![r] = "done"]
      /\ UNCHANGED <<process, route, wrote, status, recorded>>
  BY DEF Refuse
<1>3. wire[r] = 0 /\ recorded[r] = "none"
  BY <1>2 DEF RequestInv
<1>4. wire'[r] = s
  BY <1>1, <1>3 DEF Sent
<1>5. TypeInv'
  BY <1>1, <1>2, <1>3, <1>4 DEF Sent, Steps, process
<1>6. RequestInv(r)'
  BY <1>2, <1>3, <1>4 DEF RequestInv
<1> QED BY <1>1, <1>2, <1>5, <1>6, RequestStep DEF InProgress

LEMMA DispatchStep ==
  ASSUME IInv, NEW r \in Requests, Dispatch(r)
  PROVE  IInv'
<1> USE DEF IInv, TypeInv
<1>1. /\ step[r] = "accepted" /\ step' = [step EXCEPT ![r] = "handling"]
      /\ UNCHANGED <<process, route, wrote, status, wire, recorded>>
  BY DEF Dispatch
<1>2. TypeInv'
  BY <1>1 DEF Steps, process
<1>3. RequestInv(r)'
  BY <1>1 DEF RequestInv
<1> QED BY <1>1, <1>2, <1>3, RequestStep DEF InProgress

LEMMA WriteStep ==
  ASSUME IInv, NEW r \in Requests, Write(r)
  PROVE  IInv'
<1> USE DEF IInv, TypeInv
<1>1. PICK s \in Statuses(route[r]) : WriteHeader(r, s)
  BY DEF Write
<1>2. step[r] = "handling" /\ UNCHANGED <<process, route, step, recorded>>
  BY DEF Write
<1>3. RequestInv(r) /\ route[r] \in Routes
  BY <1>2 DEF RequestInv
<1>4. s \in Int /\ s # 0
  BY <1>3, StatusesAreNumbers
<1>5. CASE wrote[r]
  <2>1. status' = status /\ wire' = wire /\ wrote' = wrote
    BY <1>1, <1>5 DEF WriteHeader
  <2>2. TypeInv' /\ RequestInv(r)'
    BY <1>2, <1>3, <2>1 DEF RequestInv, process
  <2> QED BY <1>2, <2>1, <2>2, RequestStep DEF InProgress
<1>6. CASE ~wrote[r]
  <2>1. /\ status' = [status EXCEPT ![r] = s] /\ wrote' = [wrote EXCEPT ![r] = TRUE]
        /\ wire' = [wire EXCEPT ![r] = s]
    BY <1>1, <1>2, <1>3, <1>6 DEF WriteHeader, Sent, RequestInv
  <2>2. TypeInv'
    BY <1>2, <1>4, <2>1 DEF process
  <2>3. RequestInv(r)'
    BY <1>2, <1>3, <1>4, <2>1 DEF RequestInv
  <2> QED BY <1>2, <2>1, <2>2, <2>3, RequestStep DEF InProgress
<1> QED BY <1>5, <1>6

LEMMA ReturnStep ==
  ASSUME IInv, NEW r \in Requests, Return(r)
  PROVE  IInv'
<1> USE DEF IInv, TypeInv
<1>1. /\ step[r] = "handling" /\ step' = [step EXCEPT ![r] = "done"]
      /\ wire' = [wire EXCEPT ![r] = Sent(r, 200)]
      /\ recorded' = [recorded EXCEPT ![r] = Outcome(status[r])]
      /\ UNCHANGED <<process, route, wrote, status>>
  BY DEF Return, Record
<1>2. wire'[r] = status[r] /\ wire'[r] # 0
  BY <1>1 DEF RequestInv, Sent
<1>3. Outcome(status[r]) \in Kinds_
  BY OutcomesAreKinds
<1>4. TypeInv'
  BY <1>1, <1>2, <1>3 DEF Steps, process
<1>5. RequestInv(r)'
  <2>1. step'[r] = "done" /\ recorded'[r] = Outcome(wire'[r])
    BY <1>1, <1>2
  <2> QED BY <1>2, <2>1 DEF RequestInv, Outcome
<1> QED BY <1>1, <1>4, <1>5, RequestStep DEF InProgress

LEMMA PanicStep ==
  ASSUME IInv, NEW r \in Requests, Panic(r)
  PROVE  IInv'
<1> USE DEF IInv, TypeInv
<1>1. /\ step[r] = "handling" /\ step' = [step EXCEPT ![r] = "done"]
      /\ recorded' = [recorded EXCEPT ![r] = Outcome(status'[r])]
      /\ UNCHANGED <<process, route>>
  BY DEF Panic, Record
<1>2. \/ wrote[r] /\ UNCHANGED <<wrote, status, wire>>
      \/ /\ ~wrote[r] /\ wrote' = [wrote EXCEPT ![r] = TRUE]
         /\ status' = [status EXCEPT ![r] = 500] /\ wire' = [wire EXCEPT ![r] = 500]
  BY <1>1 DEF Panic, WriteHeader, Sent, RequestInv
<1>3. /\ wire'[r] = status'[r] /\ wire'[r] # 0 /\ status'[r] \in Int
      /\ wrote' \in [Requests -> BOOLEAN] /\ status' \in [Requests -> Int]
      /\ wire' \in [Requests -> Int]
      /\ \A u \in Requests \ {r} : /\ wrote'[u] = wrote[u] /\ status'[u] = status[u]
                                   /\ wire'[u] = wire[u]
  <2>1. CASE wrote[r] /\ UNCHANGED <<wrote, status, wire>>
    BY <1>1, <2>1 DEF RequestInv
  <2>2. CASE /\ ~wrote[r] /\ wrote' = [wrote EXCEPT ![r] = TRUE]
             /\ status' = [status EXCEPT ![r] = 500] /\ wire' = [wire EXCEPT ![r] = 500]
    BY <2>2
  <2> QED BY <1>2, <2>1, <2>2
<1>4. Outcome(status'[r]) \in Kinds_
  BY <1>3, OutcomesAreKinds
<1>5. TypeInv'
  BY <1>1, <1>3, <1>4 DEF Steps, process
<1>6. RequestInv(r)'
  <2>1. step'[r] = "done" /\ recorded'[r] = Outcome(wire'[r])
    BY <1>1, <1>3
  <2> QED BY <1>3, <2>1 DEF RequestInv, Outcome
<1> QED BY <1>1, <1>3, <1>5, <1>6, RequestStep DEF InProgress

\* A request is accepted only while the server is not closing.
LEMMA AcceptStep ==
  ASSUME IInv, NEW r \in Requests, Accept(r)
  PROVE  IInv'
<1> USE DEF IInv, TypeInv
<1>1. PICK to \in start.asks[r] : route' = [route EXCEPT ![r] = to]
  BY DEF Accept
<1>2. /\ step[r] = "none" /\ step' = [step EXCEPT ![r] = "accepted"]
      /\ pc # "exited" /\ serve = "running" /\ ~closing
      /\ UNCHANGED <<process, wrote, status, wire, recorded>>
  BY DEF Accept
<1>3. to \in Routes
  BY ProcessAssumption
<1>4. TypeInv'
  BY <1>1, <1>2 DEF Steps, process
<1>5. ASSUME NEW u \in Requests PROVE RequestInv(u)'
  <2>1. RequestInv(u)
    OBVIOUS
  <2> QED BY <1>1, <1>2, <1>3, <2>1 DEF RequestInv, Outcome
<1>6. RunInv'
  BY <1>2 DEF RunInv, process
<1>7. ConfigInv'
  BY <1>2 DEF ConfigInv, process
<1> QED BY <1>4, <1>5, <1>6, <1>7

-----------------------------------------------------------------------------
(* The main goroutine *)

\* A step that leaves the requests alone.
LEMMA ProcessStep ==
  ASSUME IInv, UNCHANGED <<start, requests>>, RunInv', ConfigInv'
  PROVE  IInv'
<1>1. TypeInv'
  BY DEF IInv, TypeInv, requests
<1>2. \A r \in Requests : RequestInv(r)'
  BY DEF IInv, RequestInv, requests, Outcome
<1> QED BY <1>1, <1>2 DEF IInv

\* Load returns a configuration only if it is valid.
LEMMA LoadValidates ==
  ASSUME NEW args, NEW environ, NEW files, Load(args, environ, files) # NoConfig
  PROVE  Validate(Load(args, environ, files))
BY DEF Load, Checked

\* What is said of the goroutines survives every step of the main one.
LEMMA RunSteps ==
  ASSUME IInv,
         \/ LoadConfig \/ Initialize \/ Listen \/ SelectServe \/ SelectDone \/ ShutdownDone
         \/ ShutdownTimeout \/ AwaitServe \/ Exit \/ Signal \/ ServeFails \/ ServeCloses
  PROVE  RunInv'
<1> USE DEF IInv, RunInv, Goto, InProgress, requests
<1>1. CASE LoadConfig
  BY <1>1 DEF LoadConfig
<1>2. CASE Initialize
  BY <1>2 DEF Initialize
<1>3. CASE Listen
  BY <1>3 DEF Listen
<1>4. CASE SelectServe
  BY <1>4 DEF SelectServe, Served
<1>5. CASE SelectDone
  BY <1>5 DEF SelectDone
<1>6. CASE ShutdownDone
  BY <1>6 DEF ShutdownDone
<1>7. CASE ShutdownTimeout
  BY <1>7 DEF ShutdownTimeout
<1>8. CASE AwaitServe
  BY <1>8 DEF AwaitServe, Served
<1>9. CASE Exit
  BY <1>9 DEF Exit
<1>10. CASE Signal
  BY <1>10 DEF Signal
<1>11. CASE ServeFails
  BY <1>11 DEF ServeFails
<1>12. CASE ServeCloses
  BY <1>12 DEF ServeCloses
<1> QED BY <1>1, <1>2, <1>3, <1>4, <1>5, <1>6, <1>7, <1>8, <1>9, <1>10, <1>11, <1>12

LEMMA ConfigSteps ==
  ASSUME IInv,
         \/ LoadConfig \/ Initialize \/ Listen \/ SelectServe \/ SelectDone \/ ShutdownDone
         \/ ShutdownTimeout \/ AwaitServe \/ Exit \/ Signal \/ ServeFails \/ ServeCloses
  PROVE  ConfigInv' /\ UNCHANGED <<start, requests>>
<1>1. CASE LoadConfig
  <2>1. config' = Load(start.args, start.environ, Files) /\ UNCHANGED <<start, requests>>
    BY <1>1 DEF LoadConfig
  <2>2. config' # NoConfig => Validate(config')
    BY <2>1, LoadValidates
  <2> QED BY <2>1, <2>2 DEF ConfigInv
<1>2. CASE ~LoadConfig
  <2>1. UNCHANGED <<start, config, requests>>
    BY <1>2 DEF Initialize, Listen, SelectServe, SelectDone, ShutdownDone,
                ShutdownTimeout, AwaitServe, Exit, Signal, ServeFails, ServeCloses
  <2> QED BY <2>1 DEF IInv, ConfigInv
<1> QED BY <1>1, <1>2

\* The strengthened invariant of the process is inductive.
THEOREM InductiveInvariant == Spec => []IInv
<1>1. Init => IInv
  BY DEF Init, IInv, TypeInv, RequestInv, RunInv, ConfigInv, Steps, Kinds_, InProgress
<1>2. ASSUME IInv, [Next]_vars PROVE IInv'
  <2>1. CASE \/ LoadConfig \/ Initialize \/ Listen \/ SelectServe \/ SelectDone
             \/ ShutdownDone \/ ShutdownTimeout \/ AwaitServe \/ Exit \/ Signal
             \/ ServeFails \/ ServeCloses
    BY <1>2, <2>1, RunSteps, ConfigSteps, ProcessStep
  <2>2. ASSUME NEW r \in Requests,
               Accept(r) \/ Refuse(r) \/ Dispatch(r) \/ Write(r) \/ Return(r) \/ Panic(r)
        PROVE  IInv'
    BY <1>2, <2>2, AcceptStep, RefuseStep, DispatchStep, WriteStep, ReturnStep, PanicStep
  <2>3. CASE UNCHANGED vars
    <3>1. UNCHANGED <<start, config, pc, outcome, cancelled, closing, serve, requests>>
      BY <2>3 DEF vars, process
    <3>2. RunInv' /\ ConfigInv'
      BY <1>2, <3>1 DEF IInv, RunInv, ConfigInv, InProgress, requests
    <3> QED BY <1>2, <3>1, <3>2, ProcessStep
  <2> QED BY <1>2, <2>1, <2>2, <2>3 DEF Next, Run
<1> QED BY <1>1, <1>2, PTL DEF Spec

\* Run returns nil only after a signal, with the listener closed, and when every
\* accepted request has been answered (Server.Run).
THEOREM CleanExits == Spec => []CleanExit
<1>1. IInv => CleanExit
  BY DEF IInv, TypeInv, RunInv, RequestInv, CleanExit, InProgress, Steps
<1> QED BY <1>1, InductiveInvariant, PTL

\* The operation metrics agree with the status that was sent (middleware.wrap).
THEOREM MetricsAgree == Spec => []MetricsTellTheWire
<1>1. ASSUME IInv, NEW r \in Requests
      PROVE  /\ recorded[r] # "none" => wire[r] # 0 /\ recorded[r] = Outcome(wire[r])
             /\ step[r] = "done" => /\ wire[r] # 0
                                    /\ recorded[r] = "none" => wire[r] \in {413, 500}
  <2>1. step[r] \in Steps /\ wire[r] \in Int /\ RequestInv(r)
    BY <1>1 DEF IInv, TypeInv
  <2>2. Outcome(wire[r]) # "none"
    BY <2>1, OutcomesAreKinds
  <2> QED BY <2>1, <2>2 DEF RequestInv, Steps
<1>2. IInv => MetricsTellTheWire
  BY <1>1 DEF MetricsTellTheWire
<1> QED BY <1>2, InductiveInvariant, PTL
-----------------------------------------------------------------------------
(* Configurations *)

\* The compiled defaults are valid.
LEMMA DefaultTimeouts ==
  \A n \in HttpTimeouts \cup DatabaseTimeouts : ValidTimeout(Defaults[n])
<1> USE DEF Defaults, Settings, Durations, HttpTimeouts, DatabaseTimeouts, OidcLists
<1>1. Defaults["http.read_header_timeout"] = 5 /\ Defaults["http.read_timeout"] = 15
  BY SMT
<1>2. Defaults["http.write_timeout"] = 30 /\ Defaults["http.idle_timeout"] = 60
  BY SMT
<1>3. Defaults["http.shutdown_timeout"] = 20 /\ Defaults["database.connect_timeout"] = 5
  BY SMT
<1>4. Defaults["database.health_timeout"] = 2 /\ Defaults["database.statement_timeout"] = 10
  BY SMT
<1>5. Defaults["database.lock_timeout"] = 2
  BY SMT
<1>6. Defaults["database.max_connection_lifetime"] = 1800
  BY SMT
<1>7. Defaults["database.max_connection_idle_time"] = 300
  BY SMT
<1> HIDE DEF Defaults, Settings
<1> QED BY <1>1, <1>2, <1>3, <1>4, <1>5, <1>6, <1>7, SMT DEF ValidTimeout

LEMMA DefaultValues ==
  /\ Defaults["mode"] = "development" /\ Defaults["http.address"] = "127.0.0.1:8080"
  /\ Defaults["http.max_header_bytes"] = 1048576 /\ Defaults["http.max_body_bytes"] = 1048576
  /\ Defaults["database.min_connections"] = 0 /\ Defaults["database.max_connections"] = 20
  /\ Defaults["authentication.mode"] = "oidc" /\ Defaults["log.level"] = "info"
  /\ Defaults["oidc.clock_skew"] = 30 /\ Defaults["oidc.discovery_timeout"] = 5
  /\ \A n \in LocalTexts \cup OidcTexts : Defaults[n] = NoText
  /\ \A n \in OidcLists : Defaults[n] = <<>>
<1> USE DEF Defaults, Settings, Texts, OtherTexts, Durations, OidcTimes, Counts, OidcTexts,
            LocalTexts, OidcLists
<1>1. Defaults["mode"] = "development" /\ Defaults["http.address"] = "127.0.0.1:8080"
  BY SMT
<1>2. Defaults["http.max_header_bytes"] = 1048576 /\ Defaults["http.max_body_bytes"] = 1048576
  BY SMT
<1>3. Defaults["database.min_connections"] = 0 /\ Defaults["database.max_connections"] = 20
  BY SMT
<1>4. Defaults["authentication.mode"] = "oidc" /\ Defaults["log.level"] = "info"
  BY SMT
<1>5. Defaults["oidc.clock_skew"] = 30 /\ Defaults["oidc.discovery_timeout"] = 5
  BY SMT
<1>6. /\ Defaults["authentication.local_development.tenant_id"] = NoText
      /\ Defaults["authentication.local_development.principal"] = NoText
      /\ Defaults["oidc.issuer"] = NoText /\ Defaults["oidc.audience"] = NoText
      /\ Defaults["oidc.tenant_claim"] = NoText /\ Defaults["oidc.principal_claim"] = NoText
  BY SMT
<1>7. Defaults["oidc.allowed_algorithms"] = <<>> /\ Defaults["oidc.tenant_mappings"] = <<>>
  BY SMT
<1> HIDE DEF Defaults, Settings
<1> QED BY <1>1, <1>2, <1>3, <1>4, <1>5, <1>6, <1>7, SMT

\* The probe of tracing.New is the defaults but for telemetry.
LEMMA TracingAcceptsValid ==
  ASSUME NEW c, ValidTelemetry(c)
  PROVE  TracingAccepts(c)
<1> DEFINE T == {"telemetry.mode", "telemetry.endpoint", "telemetry.service_name",
                 "telemetry.sample_ratio"}
           probe == [n \in DOMAIN Defaults |-> IF n \in T THEN c[n] ELSE Defaults[n]]
<1>1. DOMAIN Defaults = Settings \cup {"config_file"}
  BY SMT DEF Defaults
<1> HIDE DEF Defaults
<1>2. \A n \in Settings \ T : probe[n] = Defaults[n]
  BY <1>1, SMT
<1>3. \A n \in T : probe[n] = c[n]
  BY <1>1, SMT DEF Settings, Texts, OtherTexts
<1> HIDE DEF probe
<1>4. ValidTelemetry(probe)
  BY <1>3, SMT DEF ValidTelemetry
<1>5. \A n \in HttpTimeouts \cup DatabaseTimeouts \cup LocalTexts \cup OidcTexts \cup OidcLists :
        probe[n] = Defaults[n]
  BY <1>2, SMT DEF Settings, Durations, Texts, HttpTimeouts, DatabaseTimeouts, LocalTexts,
              OidcTexts, OidcLists
<1>6. /\ probe["mode"] = "development" /\ probe["http.address"] = "127.0.0.1:8080"
      /\ probe["http.max_header_bytes"] = 1048576 /\ probe["http.max_body_bytes"] = 1048576
      /\ probe["database.min_connections"] = 0 /\ probe["database.max_connections"] = 20
      /\ probe["authentication.mode"] = "oidc" /\ probe["log.level"] = "info"
      /\ probe["oidc.clock_skew"] = 30 /\ probe["oidc.discovery_timeout"] = 5
  BY <1>2, DefaultValues, SMT DEF Settings, Texts, OtherTexts, Durations, OidcTimes, Counts
<1>7. \A n \in HttpTimeouts \cup DatabaseTimeouts : ValidTimeout(probe[n])
  BY <1>5, DefaultTimeouts, SMT
<1>8. ValidOidc(probe) /\ ValidAuthentication(probe)
  <2>1. ~OidcConfigured(probe)
    BY <1>5, DefaultValues, SMT DEF OidcConfigured
  <2>2. \A n \in LocalTexts : probe[n] = NoText
    BY <1>5, DefaultValues, SMT
  <2>3. ValidOidc(probe)
    BY <1>6, <2>1, SMT DEF ValidOidc, Between
  <2> QED BY <1>6, <2>2, <2>3, SMT DEF ValidAuthentication
<1>9. Validate(probe)
  BY <1>4, <1>6, <1>7, <1>8, ConfigurationAssumption, SMT DEF Validate, ModeTexts, Between
<1> QED BY <1>9, SMT DEF probe, TracingAccepts

\* Whatever Validate accepts, every constructor accepts.
LEMMA ValidConfigurationsStart ==
  ASSUME NEW c, Validate(c)
  PROVE  /\ LoggingAccepts(c) /\ TracingAccepts(c) /\ ServerAccepts(c)
         /\ LocalAuthAccepts(c) /\ OidcAccepts(c)
<1>1. LoggingAccepts(c)
  BY SMT DEF Validate, LoggingAccepts
<1>2. TracingAccepts(c)
  BY TracingAcceptsValid, SMT DEF Validate
<1>3. c["http.address"] # NoText
  BY ConfigurationAssumption, SMT DEF Validate
<1>4. ServerAccepts(c)
  BY <1>3, SMT DEF Validate, ServerAccepts, ValidTimeout, Between
<1>5. LocalAuthAccepts(c)
  BY SMT DEF Validate, ValidAuthentication, LocalAuthAccepts
<1>6. OidcAccepts(c)
  BY SMT DEF Validate, ValidOidc, OidcAccepts, Bounded
<1> QED BY <1>1, <1>2, <1>4, <1>5, <1>6, SMT

\* A process that has loaded its configuration is not stopped by a constructor's
\* rules (logging.New, tracing.New, httpadapter.New, localauth.New, the OIDC
\* verifier and mapper against config.Validate).
THEOREM ConfigurationsStart == Spec => []LoadedConfigurationsStart
<1>1. IInv => LoadedConfigurationsStart
  BY ValidConfigurationsStart DEF IInv, ConfigInv, LoadedConfigurationsStart
<1> QED BY <1>1, InductiveInvariant, PTL
-----------------------------------------------------------------------------
(* The layers of a configuration.  Each loop of internal/config is a        *)
(* recursive function; that it exists, and what it computes, is shown for  *)
(* the smallest position at which it would not be so.                      *)

\* The iterations of applyFlags.
FlagLoop(args, c, n, g) ==
  g = [i \in 0 .. n |-> IF i = 0 THEN c ELSE FlagStep(args, i, g[i - 1])]

LEMMA FlagLoopExists ==
  ASSUME NEW args, NEW c, NEW n \in Nat
  PROVE  \E g : FlagLoop(args, c, n, g)
<1> DEFINE Missing == {k \in Nat : ~\E g : FlagLoop(args, c, k, g)}
<1> SUFFICES ASSUME Missing # {} PROVE FALSE
  OBVIOUS
<1>1. PICK k \in Missing : \A j \in Missing : k <= j
  <2>1. Missing \subseteq Nat
    OBVIOUS
  <2> HIDE DEF Missing
  <2> QED BY <2>1, LeastElement
<1>2. k # 0
  <2>1. FlagLoop(args, c, 0, [i \in 0 .. 0 |-> c])
    BY DEF FlagLoop
  <2> QED BY <2>1
<1>3. k - 1 \in Nat /\ k - 1 \notin Missing
  BY <1>1, <1>2
<1>4. PICK g : FlagLoop(args, c, k - 1, g)
  BY <1>3
<1> DEFINE h == [i \in 0 .. k |-> IF i = k THEN FlagStep(args, k, g[k - 1]) ELSE g[i]]
<1>5. FlagLoop(args, c, k, h)
  <2>1. ASSUME NEW i \in 0 .. k
        PROVE  h[i] = IF i = 0 THEN c ELSE FlagStep(args, i, h[i - 1])
    <3>1. CASE i = k
      BY <1>2, <1>3, <3>1
    <3>2. CASE i # k
      <4>1. i \in 0 .. k - 1 /\ h[i] = g[i]
        BY <1>3, <3>2
      <4>2. g[i] = IF i = 0 THEN c ELSE FlagStep(args, i, g[i - 1])
        BY <1>4, <4>1 DEF FlagLoop
      <4>3. i # 0 => i - 1 \in 0 .. k /\ i - 1 # k
        BY <1>3, <4>1
      <4> QED BY <4>1, <4>2, <4>3
    <3> QED BY <3>1, <3>2
  <2>2. h = [i \in 0 .. k |-> h[i]]
    OBVIOUS
  <2> HIDE DEF h
  <2> QED BY <2>1, <2>2 DEF FlagLoop
<1> QED BY <1>1, <1>5

\* ApplyFlags is the last of these iterations.
LEMMA FlagLoopApplies ==
  ASSUME NEW args, NEW c, Len(args) \in Nat
  PROVE  \E g : FlagLoop(args, c, Len(args), g) /\ ApplyFlags(c, args) = g[Len(args)]
<1> DEFINE g == CHOOSE g : g = [i \in 0 .. Len(args) |->
                                  IF i = 0 THEN c ELSE FlagStep(args, i, g[i - 1])]
<1>1. g = [i \in 0 .. Len(args) |-> IF i = 0 THEN c ELSE FlagStep(args, i, g[i - 1])]
  BY FlagLoopExists, SMTT(30) DEF FlagLoop
<1>2. ApplyFlags(c, args) = g[Len(args)]
  BY DEF ApplyFlags
<1> HIDE DEF g
<1> QED BY <1>1, <1>2 DEF FlagLoop
\* A flag that applyFlags refuses.
BadFlag(a) ==
  \/ a.form = "bare"
  \/ a.flag # "config" /\ (a.flag \notin Settings \/ ValueOf(a.flag, a.text) = Failed)

\* What the first i flags make of configuration c: an error if one of them is
\* bad, and otherwise every setting has the value of its last flag.
FlagsDone(args, c, i, d) ==
  /\ d = NoConfig <=> \E j \in 1 .. i : BadFlag(args[j])
  /\ d # NoConfig =>
       /\ DOMAIN d = DOMAIN c
       /\ \A n \in Settings :
            /\ (\A j \in 1 .. i : args[j].flag # n) => d[n] = c[n]
            /\ \A j \in 1 .. i :
                 args[j].flag = n /\ (\A k \in j + 1 .. i : args[k].flag # n) =>
                   d[n] = ValueOf(n, args[j].text)

\* A configuration with all settings is not the zero one.
LEMMA ConfigsDiffer ==
  ASSUME NEW d, Settings \subseteq DOMAIN d
  PROVE  d # NoConfig
<1>1. "mode" \in DOMAIN d
  BY DEF Settings, Texts, OtherTexts
<1>2. DOMAIN NoConfig = {}
  BY DEF NoConfig
<1> QED BY <1>1, <1>2

\* What Set does.
LEMMA SetSets ==
  ASSUME NEW d, NEW n, NEW text, d # NoConfig => Settings \subseteq DOMAIN d
  PROVE  /\ Set(d, n, text) = NoConfig <=>
              d = NoConfig \/ n \notin Settings \/ ValueOf(n, text) = Failed
         /\ Set(d, n, text) # NoConfig =>
              /\ DOMAIN Set(d, n, text) = DOMAIN d
              /\ Set(d, n, text)[n] = ValueOf(n, text)
              /\ \A m \in Settings \ {n} : Set(d, n, text)[m] = d[m]
<1>1. CASE d = NoConfig \/ n \notin Settings \/ ValueOf(n, text) = Failed
  BY <1>1 DEF Set
<1>2. CASE ~(d = NoConfig \/ n \notin Settings \/ ValueOf(n, text) = Failed)
  <2> DEFINE v == ValueOf(n, text)
             e == [d EXCEPT ![n] = v]
  <2>1. Set(d, n, text) = e
    BY <1>2 DEF Set
  <2> HIDE DEF v
  <2>2. DOMAIN e = DOMAIN d /\ e[n] = v /\ \A m \in Settings \ {n} : e[m] = d[m]
    BY <1>2
  <2>3. e # NoConfig
    BY <1>2, <2>2, ConfigsDiffer
  <2> QED BY <1>2, <2>1, <2>2, <2>3 DEF v
<1> QED BY <1>1, <1>2

LEMMA FlagStepDone ==
  ASSUME NEW args, NEW c, Settings \subseteq DOMAIN c, NEW i \in Nat \ {0}, NEW d,
         FlagsDone(args, c, i - 1, d)
  PROVE  FlagsDone(args, c, i, FlagStep(args, i, d))
<1> DEFINE a == args[i]
           e == FlagStep(args, i, d)
<1>1. \A j \in 1 .. i : j \in 1 .. i - 1 \/ j = i
  OBVIOUS
<1>2. i \in 1 .. i /\ \A j \in 1 .. i - 1 : j \in 1 .. i /\ i \in j + 1 .. i
  OBVIOUS
<1>3. d # NoConfig => Settings \subseteq DOMAIN d
  BY DEF FlagsDone
<1>4. CASE a.form = "bare"
  <2>1. e = NoConfig /\ BadFlag(args[i])
    BY <1>4 DEF FlagStep, BadFlag
  <2> QED BY <2>1, <1>2 DEF FlagsDone
<1>5. CASE a.form # "bare" /\ a.flag = "config"
  <2>1. e = d /\ ~BadFlag(args[i])
    BY <1>5 DEF FlagStep, BadFlag
  <2>2. \A n \in Settings : args[i].flag # n
    BY <1>5 DEF Settings, Durations, HttpTimeouts, DatabaseTimeouts, OidcTimes, Texts, OidcTexts,
                LocalTexts, OtherTexts, OidcLists, Counts
  <2>3. ASSUME NEW n \in Settings, NEW j \in 1 .. i,
               args[j].flag = n, \A k \in j + 1 .. i : args[k].flag # n
        PROVE  j \in 1 .. i - 1 /\ \A k \in j + 1 .. i - 1 : args[k].flag # n
    BY <2>2, <2>3
  <2> QED BY <1>1, <1>2, <2>1, <2>2, <2>3 DEF FlagsDone
<1>6. CASE a.form # "bare" /\ a.flag # "config"
  <2>1. e = Set(d, a.flag, a.text)
    BY <1>6 DEF FlagStep
  <2>2. BadFlag(args[i]) <=> a.flag \notin Settings \/ ValueOf(a.flag, a.text) = Failed
    BY <1>6 DEF BadFlag
  <2>3. e = NoConfig <=> d = NoConfig \/ BadFlag(args[i])
    BY <1>3, <2>1, <2>2, SetSets
  <2>4. e = NoConfig <=> \E j \in 1 .. i : BadFlag(args[j])
    BY <1>1, <1>2, <2>3 DEF FlagsDone
  <2>5. ASSUME e # NoConfig
        PROVE  /\ DOMAIN e = DOMAIN c
               /\ \A n \in Settings :
                    /\ (\A j \in 1 .. i : args[j].flag # n) => e[n] = c[n]
                    /\ \A j \in 1 .. i :
                         args[j].flag = n /\ (\A k \in j + 1 .. i : args[k].flag # n) =>
                           e[n] = ValueOf(n, args[j].text)
    <3>1. /\ DOMAIN e = DOMAIN d /\ e[a.flag] = ValueOf(a.flag, a.text)
          /\ \A m \in Settings \ {a.flag} : e[m] = d[m]
      BY <1>3, <2>1, <2>5, SetSets
    <3>2. d # NoConfig
      BY <2>3, <2>5
    <3> HIDE DEF e
    <3>3. DOMAIN e = DOMAIN c
      BY <3>1, <3>2 DEF FlagsDone
    <3>4. ASSUME NEW n \in Settings, \A j \in 1 .. i : args[j].flag # n
          PROVE  e[n] = c[n]
      <4>1. n # a.flag /\ \A j \in 1 .. i - 1 : args[j].flag # n
        BY <1>2, <3>4
      <4> QED BY <3>1, <3>2, <4>1 DEF FlagsDone
    <3>5. ASSUME NEW n \in Settings, NEW j \in 1 .. i,
                 args[j].flag = n, \A k \in j + 1 .. i : args[k].flag # n
          PROVE  e[n] = ValueOf(n, args[j].text)
      <4>1. CASE j = i
        BY <3>1, <3>5, <4>1
      <4>2. CASE j # i
        <5>1. j \in 1 .. i - 1 /\ a.flag # n /\ \A k \in j + 1 .. i - 1 : args[k].flag # n
          BY <1>1, <1>2, <3>5, <4>2
        <5> QED BY <3>1, <3>2, <3>5, <5>1 DEF FlagsDone
      <4> QED BY <4>1, <4>2
    <3> QED BY <3>3, <3>4, <3>5
  <2> QED BY <2>4, <2>5 DEF FlagsDone
<1> QED BY <1>4, <1>5, <1>6

\* applyFlags as a whole.
LEMMA FlagsAreApplied ==
  ASSUME NEW args, NEW c, Len(args) \in Nat, Settings \subseteq DOMAIN c
  PROVE  FlagsDone(args, c, Len(args), ApplyFlags(c, args))
<1>1. PICK g : FlagLoop(args, c, Len(args), g) /\ ApplyFlags(c, args) = g[Len(args)]
  BY FlagLoopApplies
<1> DEFINE Wrong == {i \in 0 .. Len(args) : ~FlagsDone(args, c, i, g[i])}
<1> SUFFICES ASSUME Wrong # {} PROVE FALSE
  BY <1>1
<1>2. PICK i \in Wrong : \A j \in Wrong : i <= j
  <2>1. Wrong \subseteq Nat
    OBVIOUS
  <2> HIDE DEF Wrong
  <2> QED BY <2>1, LeastElement
<1>3. i # 0
  <2>1. g[0] = c
    BY <1>1 DEF FlagLoop
  <2>2. FlagsDone(args, c, 0, c)
    BY ConfigsDiffer DEF FlagsDone
  <2> QED BY <2>1, <2>2
<1>4. i \in Nat \ {0} /\ i - 1 \in 0 .. Len(args) /\ i - 1 \notin Wrong
  BY <1>2, <1>3
<1>5. FlagsDone(args, c, i - 1, g[i - 1]) /\ g[i] = FlagStep(args, i, g[i - 1])
  BY <1>1, <1>4 DEF FlagLoop
<1>6. FlagsDone(args, c, i, g[i])
  BY <1>4, <1>5, FlagStepDone
<1> QED BY <1>2, <1>6
\* The iterations of applyEnvironment.
EnvironmentLoop(environ, c, n, g) ==
  g = [i \in 0 .. n |-> IF i = 0 THEN c ELSE EnvironmentStep(environ, i, g[i - 1])]

LEMMA EnvironmentLoopExists ==
  ASSUME NEW environ, NEW c, NEW n \in Nat
  PROVE  \E g : EnvironmentLoop(environ, c, n, g)
<1> DEFINE Missing == {k \in Nat : ~\E g : EnvironmentLoop(environ, c, k, g)}
<1> SUFFICES ASSUME Missing # {} PROVE FALSE
  OBVIOUS
<1>1. PICK k \in Missing : \A j \in Missing : k <= j
  <2>1. Missing \subseteq Nat
    OBVIOUS
  <2> HIDE DEF Missing
  <2> QED BY <2>1, LeastElement
<1>2. k # 0
  <2>1. EnvironmentLoop(environ, c, 0, [i \in 0 .. 0 |-> c])
    BY DEF EnvironmentLoop
  <2> QED BY <2>1
<1>3. k - 1 \in Nat /\ k - 1 \notin Missing
  BY <1>1, <1>2
<1>4. PICK g : EnvironmentLoop(environ, c, k - 1, g)
  BY <1>3
<1> DEFINE h == [i \in 0 .. k |-> IF i = k THEN EnvironmentStep(environ, k, g[k - 1]) ELSE g[i]]
<1>5. EnvironmentLoop(environ, c, k, h)
  <2>1. ASSUME NEW i \in 0 .. k
        PROVE  h[i] = IF i = 0 THEN c ELSE EnvironmentStep(environ, i, h[i - 1])
    <3>1. CASE i = k
      BY <1>2, <1>3, <3>1
    <3>2. CASE i # k
      <4>1. i \in 0 .. k - 1 /\ h[i] = g[i]
        BY <1>3, <3>2
      <4>2. g[i] = IF i = 0 THEN c ELSE EnvironmentStep(environ, i, g[i - 1])
        BY <1>4, <4>1 DEF EnvironmentLoop
      <4>3. i # 0 => i - 1 \in 0 .. k /\ i - 1 # k
        BY <1>3, <4>1
      <4> QED BY <4>1, <4>2, <4>3
    <3> QED BY <3>1, <3>2
  <2>2. h = [i \in 0 .. k |-> h[i]]
    OBVIOUS
  <2> HIDE DEF h
  <2> QED BY <2>1, <2>2 DEF EnvironmentLoop
<1> QED BY <1>1, <1>5

\* ApplyEnvironment is the last of these iterations.
LEMMA EnvironmentLoopApplies ==
  ASSUME NEW environ, NEW c, Len(environ) \in Nat
  PROVE  \E g : EnvironmentLoop(environ, c, Len(environ), g) /\ ApplyEnvironment(c, environ) = g[Len(environ)]
<1> DEFINE g == CHOOSE g : g = [i \in 0 .. Len(environ) |->
                                  IF i = 0 THEN c ELSE EnvironmentStep(environ, i, g[i - 1])]
<1>1. g = [i \in 0 .. Len(environ) |-> IF i = 0 THEN c ELSE EnvironmentStep(environ, i, g[i - 1])]
  BY EnvironmentLoopExists, SMTT(30) DEF EnvironmentLoop
<1>2. ApplyEnvironment(c, environ) = g[Len(environ)]
  BY DEF ApplyEnvironment
<1> HIDE DEF g
<1> QED BY <1>1, <1>2 DEF EnvironmentLoop
\* A variable that applyEnvironment refuses.
BadVariable(environ, i) ==
  /\ environ[i].name # "foreign"
  /\ \/ \E j \in 1 .. i - 1 : environ[j].name = environ[i].name
     \/ environ[i].name \notin Settings
     \/ ValueOf(environ[i].name, environ[i].text) = Failed

\* What the first i variables make of configuration c.
VariablesDone(environ, c, i, d) ==
  /\ d = NoConfig <=> \E j \in 1 .. i : BadVariable(environ, j)
  /\ d # NoConfig =>
       /\ DOMAIN d = DOMAIN c
       /\ \A n \in Settings :
            /\ (\A j \in 1 .. i : environ[j].name # n) => d[n] = c[n]
            /\ \A j \in 1 .. i : environ[j].name = n => d[n] = ValueOf(n, environ[j].text)

LEMMA EnvironmentStepDone ==
  ASSUME NEW environ, NEW c, Settings \subseteq DOMAIN c, NEW i \in Nat \ {0}, NEW d,
         VariablesDone(environ, c, i - 1, d)
  PROVE  VariablesDone(environ, c, i, EnvironmentStep(environ, i, d))
<1> DEFINE v == environ[i]
           e == EnvironmentStep(environ, i, d)
<1>1. \A j \in 1 .. i : j \in 1 .. i - 1 \/ j = i
  OBVIOUS
<1>2. i \in 1 .. i /\ \A j \in 1 .. i - 1 : j \in 1 .. i
  OBVIOUS
<1>3. d # NoConfig => Settings \subseteq DOMAIN d
  BY DEF VariablesDone
<1>4. CASE v.name = "foreign"
  <2>1. e = d /\ ~BadVariable(environ, i)
    BY <1>4 DEF EnvironmentStep, BadVariable
  <2>2. \A n \in Settings : v.name # n
    BY <1>4 DEF Settings, Durations, HttpTimeouts, DatabaseTimeouts, OidcTimes, Texts, OidcTexts,
                LocalTexts, OtherTexts, OidcLists, Counts
  <2> QED BY <1>1, <1>2, <2>1, <2>2 DEF VariablesDone
<1>5. CASE v.name # "foreign" /\ \E j \in 1 .. i - 1 : environ[j].name = v.name
  <2>1. e = NoConfig /\ BadVariable(environ, i)
    BY <1>5 DEF EnvironmentStep, BadVariable
  <2> QED BY <2>1, <1>2 DEF VariablesDone
<1>6. CASE v.name # "foreign" /\ \A j \in 1 .. i - 1 : environ[j].name # v.name
  <2>1. e = Set(d, v.name, v.text)
    BY <1>6 DEF EnvironmentStep
  <2>2. BadVariable(environ, i) <=> v.name \notin Settings \/ ValueOf(v.name, v.text) = Failed
    BY <1>6 DEF BadVariable
  <2>3. e = NoConfig <=> d = NoConfig \/ BadVariable(environ, i)
    BY <1>3, <2>1, <2>2, SetSets
  <2>4. e = NoConfig <=> \E j \in 1 .. i : BadVariable(environ, j)
    BY <1>1, <1>2, <2>3 DEF VariablesDone
  <2>5. ASSUME e # NoConfig
        PROVE  /\ DOMAIN e = DOMAIN c
               /\ \A n \in Settings :
                    /\ (\A j \in 1 .. i : environ[j].name # n) => e[n] = c[n]
                    /\ \A j \in 1 .. i :
                         environ[j].name = n => e[n] = ValueOf(n, environ[j].text)
    <3>1. /\ DOMAIN e = DOMAIN d /\ e[v.name] = ValueOf(v.name, v.text)
          /\ \A m \in Settings \ {v.name} : e[m] = d[m]
      BY <1>3, <2>1, <2>5, SetSets
    <3>2. d # NoConfig
      BY <2>3, <2>5
    <3> HIDE DEF e
    <3>3. DOMAIN e = DOMAIN c
      BY <3>1, <3>2 DEF VariablesDone
    <3>4. ASSUME NEW n \in Settings, \A j \in 1 .. i : environ[j].name # n
          PROVE  e[n] = c[n]
      <4>1. n # v.name /\ \A j \in 1 .. i - 1 : environ[j].name # n
        BY <1>2, <3>4
      <4> QED BY <3>1, <3>2, <4>1 DEF VariablesDone
    <3>5. ASSUME NEW n \in Settings, NEW j \in 1 .. i, environ[j].name = n
          PROVE  e[n] = ValueOf(n, environ[j].text)
      <4>1. CASE j = i
        BY <3>1, <3>5, <4>1
      <4>2. CASE j # i
        <5>1. j \in 1 .. i - 1 /\ v.name # n
          BY <1>1, <1>6, <3>5, <4>2
        <5> QED BY <3>1, <3>2, <3>5, <5>1 DEF VariablesDone
      <4> QED BY <4>1, <4>2
    <3> QED BY <3>3, <3>4, <3>5
  <2> QED BY <2>4, <2>5 DEF VariablesDone
<1> QED BY <1>4, <1>5, <1>6

\* applyEnvironment as a whole.
LEMMA VariablesAreApplied ==
  ASSUME NEW environ, NEW c, Len(environ) \in Nat, Settings \subseteq DOMAIN c
  PROVE  VariablesDone(environ, c, Len(environ), ApplyEnvironment(c, environ))
<1>1. PICK g : /\ EnvironmentLoop(environ, c, Len(environ), g)
               /\ ApplyEnvironment(c, environ) = g[Len(environ)]
  BY EnvironmentLoopApplies
<1> DEFINE Wrong == {i \in 0 .. Len(environ) : ~VariablesDone(environ, c, i, g[i])}
<1> SUFFICES ASSUME Wrong # {} PROVE FALSE
  BY <1>1
<1>2. PICK i \in Wrong : \A j \in Wrong : i <= j
  <2>1. Wrong \subseteq Nat
    OBVIOUS
  <2> HIDE DEF Wrong
  <2> QED BY <2>1, LeastElement
<1>3. i # 0
  <2>1. g[0] = c
    BY <1>1 DEF EnvironmentLoop
  <2>2. VariablesDone(environ, c, 0, c)
    BY ConfigsDiffer DEF VariablesDone
  <2> QED BY <2>1, <2>2
<1>4. i \in Nat \ {0} /\ i - 1 \in 0 .. Len(environ) /\ i - 1 \notin Wrong
  BY <1>2, <1>3
<1>5. VariablesDone(environ, c, i - 1, g[i - 1]) /\ g[i] = EnvironmentStep(environ, i, g[i - 1])
  BY <1>1, <1>4 DEF EnvironmentLoop
<1>6. VariablesDone(environ, c, i, g[i])
  BY <1>4, <1>5, EnvironmentStepDone
<1> QED BY <1>2, <1>6

\* The iterations of configFileArgument.
NameLoop(args, n, g) ==
  g = [i \in 0 .. n |-> IF i = 0 THEN NoText ELSE ConfigFileStep(args, i, g[i - 1])]

LEMMA NameLoopExists ==
  ASSUME NEW args, NEW n \in Nat
  PROVE  \E g : NameLoop(args, n, g)
<1> DEFINE Missing == {k \in Nat : ~\E g : NameLoop(args, k, g)}
<1> SUFFICES ASSUME Missing # {} PROVE FALSE
  OBVIOUS
<1>1. PICK k \in Missing : \A j \in Missing : k <= j
  <2>1. Missing \subseteq Nat
    OBVIOUS
  <2> HIDE DEF Missing
  <2> QED BY <2>1, LeastElement
<1>2. k # 0
  <2>1. NameLoop(args, 0, [i \in 0 .. 0 |-> NoText])
    BY DEF NameLoop
  <2> QED BY <2>1
<1>3. k - 1 \in Nat /\ k - 1 \notin Missing
  BY <1>1, <1>2
<1>4. PICK g : NameLoop(args, k - 1, g)
  BY <1>3
<1> DEFINE h == [i \in 0 .. k |-> IF i = k THEN ConfigFileStep(args, k, g[k - 1]) ELSE g[i]]
<1>5. NameLoop(args, k, h)
  <2>1. ASSUME NEW i \in 0 .. k
        PROVE  h[i] = IF i = 0 THEN NoText ELSE ConfigFileStep(args, i, h[i - 1])
    <3>1. CASE i = k
      BY <1>2, <1>3, <3>1
    <3>2. CASE i # k
      <4>1. i \in 0 .. k - 1 /\ h[i] = g[i]
        BY <1>3, <3>2
      <4>2. g[i] = IF i = 0 THEN NoText ELSE ConfigFileStep(args, i, g[i - 1])
        BY <1>4, <4>1 DEF NameLoop
      <4>3. i # 0 => i - 1 \in 0 .. k /\ i - 1 # k
        BY <1>3, <4>1
      <4> QED BY <4>1, <4>2, <4>3
    <3> QED BY <3>1, <3>2
  <2>2. h = [i \in 0 .. k |-> h[i]]
    OBVIOUS
  <2> HIDE DEF h
  <2> QED BY <2>1, <2>2 DEF NameLoop
<1> QED BY <1>1, <1>5

\* ConfigFileArgument is the last of these iterations.
LEMMA NameLoopApplies ==
  ASSUME NEW args, Len(args) \in Nat
  PROVE  \E g : NameLoop(args, Len(args), g) /\ ConfigFileArgument(args) = g[Len(args)]
<1> DEFINE g == CHOOSE g : g = [i \in 0 .. Len(args) |->
                                  IF i = 0 THEN NoText ELSE ConfigFileStep(args, i, g[i - 1])]
<1>1. g = [i \in 0 .. Len(args) |-> IF i = 0 THEN NoText ELSE ConfigFileStep(args, i, g[i - 1])]
  BY NameLoopExists DEF NameLoop
<1>2. ConfigFileArgument(args) = g[Len(args)]
  BY DEF ConfigFileArgument
<1> HIDE DEF g
<1> QED BY <1>1, <1>2 DEF NameLoop
\* A --config that configFileArgument refuses.
BadName(args, i) ==
  /\ args[i].flag = "config"
  /\ \/ args[i].form = "bare"
     \/ \E j \in 1 .. i - 1 : args[j].flag = "config" /\ args[j].text # NoText

\* What the first i arguments say of the file: its name, NoText for none.
NameDone(args, i, name) ==
  /\ name = Failed <=> \E j \in 1 .. i : BadName(args, j)
  /\ name # Failed =>
       /\ \A j \in 1 .. i : args[j].flag = "config" /\ args[j].text # NoText => name = args[j].text
       /\ name # NoText =>
            \E j \in 1 .. i : args[j].flag = "config" /\ name = args[j].text

LEMMA ConfigFileStepDone ==
  ASSUME NEW args, NEW i \in Nat \ {0}, NEW name, args[i].text # Failed,
         NameDone(args, i - 1, name)
  PROVE  NameDone(args, i, ConfigFileStep(args, i, name))
<1> DEFINE e == ConfigFileStep(args, i, name)
<1>1. \A j \in 1 .. i : j \in 1 .. i - 1 \/ j = i
  OBVIOUS
<1>2. i \in 1 .. i /\ \A j \in 1 .. i - 1 : j \in 1 .. i
  OBVIOUS
<1>3. CASE name = Failed
  <2>1. e = Failed
    BY <1>3 DEF ConfigFileStep
  <2> QED BY <1>2, <1>3, <2>1 DEF NameDone
<1>4. CASE name # Failed /\ args[i].flag # "config"
  <2>1. e = name /\ ~BadName(args, i)
    BY <1>4 DEF ConfigFileStep, BadName
  <2> QED BY <1>1, <1>2, <1>4, <2>1 DEF NameDone
<1>5. CASE name # Failed /\ args[i].flag = "config"
  <2>1. BadName(args, i) <=> args[i].form = "bare" \/ name # NoText
    BY <1>5 DEF BadName, NameDone
  <2>2. CASE args[i].form = "bare" \/ name # NoText
    <3>1. e = Failed
      BY <1>5, <2>2 DEF ConfigFileStep
    <3> QED BY <1>2, <2>1, <2>2, <3>1 DEF NameDone
  <2>3. CASE ~(args[i].form = "bare" \/ name # NoText)
    <3>1. e = args[i].text /\ name = NoText
      BY <1>5, <2>3 DEF ConfigFileStep
    <3>2. ~\E j \in 1 .. i : BadName(args, j)
      BY <1>1, <1>5, <2>1, <2>3 DEF NameDone
    <3>3. \A j \in 1 .. i - 1 : ~(args[j].flag = "config" /\ args[j].text # NoText)
      BY <1>5, <3>1 DEF NameDone
    <3> QED BY <1>1, <1>2, <1>5, <3>1, <3>2, <3>3 DEF NameDone
  <2> QED BY <2>2, <2>3
<1> QED BY <1>3, <1>4, <1>5

\* configFileArgument as a whole.
LEMMA NameIsFound ==
  ASSUME NEW args, Len(args) \in Nat, \A i \in 1 .. Len(args) : args[i].text # Failed
  PROVE  NameDone(args, Len(args), ConfigFileArgument(args))
<1>1. PICK g : NameLoop(args, Len(args), g) /\ ConfigFileArgument(args) = g[Len(args)]
  BY NameLoopApplies
<1> DEFINE Wrong == {i \in 0 .. Len(args) : ~NameDone(args, i, g[i])}
<1> SUFFICES ASSUME Wrong # {} PROVE FALSE
  BY <1>1
<1>2. PICK i \in Wrong : \A j \in Wrong : i <= j
  <2>1. Wrong \subseteq Nat
    OBVIOUS
  <2> HIDE DEF Wrong
  <2> QED BY <2>1, LeastElement
<1>3. i # 0
  <2>1. g[0] = NoText
    BY <1>1 DEF NameLoop
  <2>2. NameDone(args, 0, NoText)
    BY ProcessAssumption DEF NameDone
  <2> QED BY <2>1, <2>2
<1>4. i \in Nat \ {0} /\ i \in 1 .. Len(args) /\ i - 1 \in 0 .. Len(args) /\ i - 1 \notin Wrong
  BY <1>2, <1>3
<1>5. NameDone(args, i - 1, g[i - 1]) /\ g[i] = ConfigFileStep(args, i, g[i - 1])
  BY <1>1, <1>4 DEF NameLoop
<1>6. NameDone(args, i, g[i])
  BY <1>4, <1>5, ConfigFileStepDone
<1> QED BY <1>2, <1>6
NamesFile(a) == a.flag = "config" /\ a.text # NoText

\* A file that applyFile refuses.
BadFile(file) ==
  file.form # "object" \/ \E n \in DOMAIN file.fields : FileValue(n, file.fields[n]) = Failed

LEMMA DefaultsHaveSettings == Settings \subseteq DOMAIN Defaults /\ "config_file" \notin Settings
<1>1. Settings \subseteq DOMAIN Defaults
  BY SMT DEF Defaults
<1>2. "config_file" \notin Settings
  BY DEF Settings, Durations, HttpTimeouts, DatabaseTimeouts, OidcTimes, Texts, OidcTexts,
         LocalTexts, OtherTexts, OidcLists, Counts
<1> QED BY <1>1, <1>2

\* The defaults with the file, if one is named.
LEMMA FileIsApplied ==
  ASSUME NEW args, NEW files, NEW d, d = WithFile(args, files),
         Len(args) \in Nat, \A i \in 1 .. Len(args) : args[i].text # Failed
  PROVE  /\ d = NoConfig =>
              \E j \in 1 .. Len(args) :
                BadName(args, j) \/ (NamesFile(args[j]) /\ BadFile(files[args[j].text]))
         /\ d # NoConfig =>
              /\ Settings \subseteq DOMAIN d
              /\ \A j \in 1 .. Len(args) :
                   ~BadName(args, j) /\ (NamesFile(args[j]) => ~BadFile(files[args[j].text]))
              /\ \A n \in Settings :
                   /\ (\A j \in 1 .. Len(args) :
                         NamesFile(args[j]) => n \notin DOMAIN files[args[j].text].fields)
                        => d[n] = Defaults[n]
                   /\ \A j \in 1 .. Len(args) :
                        NamesFile(args[j]) /\ n \in DOMAIN files[args[j].text].fields
                          => d[n] = FileValue(n, files[args[j].text].fields[n])
<1> DEFINE name == ConfigFileArgument(args)
           file == files[name]
           c == ApplyFile(Defaults, file)
<1>1. NameDone(args, Len(args), name)
  BY NameIsFound
<1>2. d = IF name = Failed THEN NoConfig
          ELSE IF name = NoText THEN Defaults
          ELSE IF c = NoConfig THEN NoConfig ELSE [c EXCEPT !["config_file"] = name]
  BY DEF WithFile
<1> HIDE DEF name
<1>3. Defaults # NoConfig
  BY DefaultsHaveSettings, ConfigsDiffer
<1>4. CASE name = Failed
  BY <1>1, <1>2, <1>4 DEF NameDone
<1>5. CASE name # Failed /\ name = NoText
  <2>1. d = Defaults
    BY <1>2, <1>5
  <2>2. \A j \in 1 .. Len(args) : ~BadName(args, j) /\ ~NamesFile(args[j])
    BY <1>1, <1>5 DEF NameDone, NamesFile
  <2> QED BY <1>3, <2>1, <2>2, DefaultsHaveSettings
<1>6. CASE name # Failed /\ name # NoText
  <2>1. \A j \in 1 .. Len(args) : ~BadName(args, j) /\ (NamesFile(args[j]) => args[j].text = name)
    BY <1>1, <1>6 DEF NameDone, NamesFile
  <2>2. PICK j \in 1 .. Len(args) : NamesFile(args[j]) /\ args[j].text = name
    BY <1>1, <1>6 DEF NameDone, NamesFile
  <2>3. CASE BadFile(file)
    <3>1. c = NoConfig
      BY <2>3 DEF ApplyFile, BadFile
    <3>2. d = NoConfig
      BY <1>2, <1>6, <3>1
    <3> QED BY <2>2, <2>3, <3>2
  <2>4. CASE ~BadFile(file)
    <3>1. c = [n \in DOMAIN Defaults |-> IF n \in DOMAIN file.fields
                                         THEN FileValue(n, file.fields[n]) ELSE Defaults[n]]
      BY <2>4 DEF ApplyFile, BadFile
    <3>2. DOMAIN c = DOMAIN Defaults
      BY <3>1
    <3>3. \A n \in Settings : c[n] = IF n \in DOMAIN file.fields
                                    THEN FileValue(n, file.fields[n]) ELSE Defaults[n]
      BY <3>1, DefaultsHaveSettings
    <3> HIDE DEF c
    <3>4. c # NoConfig
      BY <3>2, DefaultsHaveSettings, ConfigsDiffer
    <3>5. d = [c EXCEPT !["config_file"] = name]
      BY <1>2, <1>6, <3>4
    <3>6. Settings \subseteq DOMAIN d /\ \A n \in Settings : d[n] = c[n]
      BY <3>2, <3>5, DefaultsHaveSettings
    <3>7. d # NoConfig
      BY <3>6, ConfigsDiffer
    <3>8. ASSUME NEW k \in 1 .. Len(args), NamesFile(args[k])
          PROVE  files[args[k].text] = file
      BY <2>1, <3>8, SMT
    <3>9. \A k \in 1 .. Len(args) :
            ~BadName(args, k) /\ (NamesFile(args[k]) => ~BadFile(files[args[k].text]))
      BY <2>1, <2>4, <3>8, SMT
    <3>10. ASSUME NEW n \in Settings,
                  \A k \in 1 .. Len(args) :
                    NamesFile(args[k]) => n \notin DOMAIN files[args[k].text].fields
           PROVE  d[n] = Defaults[n]
      BY <2>2, <3>3, <3>6, <3>10, SMT
    <3>11. ASSUME NEW n \in Settings, NEW k \in 1 .. Len(args), NamesFile(args[k]),
                  n \in DOMAIN files[args[k].text].fields
           PROVE  d[n] = FileValue(n, files[args[k].text].fields[n])
      BY <3>3, <3>6, <3>8, <3>11, SMT
    <3> QED BY <3>6, <3>7, <3>9, <3>10, <3>11, SMT
  <2> QED BY <2>3, <2>4
<1> QED BY <1>4, <1>5, <1>6

-----------------------------------------------------------------------------

\* Validate looks at the settings only.
LEMMA ValidateReadsSettings ==
  ASSUME NEW c, NEW d, \A n \in Settings : c[n] = d[n]
  PROVE  Validate(c) <=> Validate(d)
<1>1. \A n \in HttpTimeouts \cup DatabaseTimeouts \cup OidcTexts \cup LocalTexts \cup OidcLists :
        c[n] = d[n]
  BY DEF Settings, Durations, Texts
<1>2. /\ c["mode"] = d["mode"] /\ c["http.address"] = d["http.address"]
      /\ c["log.level"] = d["log.level"] /\ c["authentication.mode"] = d["authentication.mode"]
      /\ c["telemetry.mode"] = d["telemetry.mode"]
      /\ c["telemetry.endpoint"] = d["telemetry.endpoint"]
      /\ c["telemetry.service_name"] = d["telemetry.service_name"]
      /\ c["telemetry.sample_ratio"] = d["telemetry.sample_ratio"]
  BY DEF Settings, Texts, OtherTexts
<1>3. /\ c["http.max_header_bytes"] = d["http.max_header_bytes"]
      /\ c["http.max_body_bytes"] = d["http.max_body_bytes"]
      /\ c["database.min_connections"] = d["database.min_connections"]
      /\ c["database.max_connections"] = d["database.max_connections"]
      /\ c["database.url"] = d["database.url"]
  BY DEF Settings, Counts
<1>4. /\ c["oidc.clock_skew"] = d["oidc.clock_skew"]
      /\ c["oidc.discovery_timeout"] = d["oidc.discovery_timeout"]
  BY DEF Settings, Durations, OidcTimes
<1>5. /\ c["oidc.issuer"] = d["oidc.issuer"] /\ c["oidc.audience"] = d["oidc.audience"]
      /\ c["oidc.tenant_claim"] = d["oidc.tenant_claim"]
      /\ c["oidc.principal_claim"] = d["oidc.principal_claim"]
  BY <1>1 DEF OidcTexts
<1>6. /\ c["oidc.allowed_algorithms"] = d["oidc.allowed_algorithms"]
      /\ c["oidc.tenant_mappings"] = d["oidc.tenant_mappings"]
  BY <1>1 DEF OidcLists
<1>7. /\ c["authentication.local_development.tenant_id"]
           = d["authentication.local_development.tenant_id"]
      /\ c["authentication.local_development.principal"]
           = d["authentication.local_development.principal"]
  BY <1>1 DEF LocalTexts
<1>8. OidcConfigured(c) <=> OidcConfigured(d)
  BY <1>1, SMT DEF OidcConfigured
<1>9. ValidOidc(c) <=> ValidOidc(d)
  BY <1>4, <1>5, <1>6, <1>8, SMT DEF ValidOidc
<1>10. ValidAuthentication(c) <=> ValidAuthentication(d)
  BY <1>1, <1>2, <1>7, <1>8, SMT DEF ValidAuthentication
<1>11. ValidTelemetry(c) <=> ValidTelemetry(d)
  BY <1>2, SMT DEF ValidTelemetry
<1>12. (\A n \in HttpTimeouts \cup DatabaseTimeouts : ValidTimeout(c[n]))
         <=> \A n \in HttpTimeouts \cup DatabaseTimeouts : ValidTimeout(d[n])
  BY <1>1, SMT
<1>13. (\A n \in {"http.max_header_bytes", "http.max_body_bytes"} : Between(c[n], 1024, 16777216))
         <=> \A n \in {"http.max_header_bytes", "http.max_body_bytes"} :
               Between(d[n], 1024, 16777216)
  BY <1>3, SMT
<1> QED BY <1>2, <1>3, <1>9, <1>10, <1>11, <1>12, <1>13, SMT DEF Validate
-----------------------------------------------------------------------------

\* What is to be rejected is what one of the three loops, or the file, refuses.
LEMMA RejectedIsBad ==
  ASSUME start \in Starts
  PROVE  Rejected <=>
           \/ \E i \in 1 .. Len(start.args) :
                \/ BadFlag(start.args[i]) \/ BadName(start.args, i)
                \/ NamesFile(start.args[i]) /\ BadFile(Files[start.args[i].text])
           \/ \E i \in 1 .. Len(start.environ) : BadVariable(start.environ, i)
<1> DEFINE args == start.args
           environ == start.environ
           BadArg(i) == \/ BadFlag(args[i]) \/ BadName(args, i)
                        \/ NamesFile(args[i]) /\ BadFile(Files[args[i].text])
           RejectedArg(i) ==
             \/ args[i].flag \notin Settings \cup {"config"} \/ args[i].form = "bare"
             \/ args[i].flag \in Settings /\ ValueOf(args[i].flag, args[i].text) = Failed
             \/ /\ args[i].flag = "config" /\ args[i].text # NoText
                /\ Files[args[i].text].form # "object"
             \/ /\ args[i].flag = "config" /\ args[i].text # NoText
                /\ \E n \in DOMAIN Files[args[i].text].fields :
                     FileValue(n, Files[args[i].text].fields[n]) = Failed
             \/ \E j \in 1 .. i - 1 : args[j].flag = "config" /\ args[i].flag = "config"
                                      /\ args[j].text # NoText
           RejectedVariable(i) ==
             /\ environ[i].name # "foreign"
             /\ \/ environ[i].name \notin Settings
                \/ ValueOf(environ[i].name, environ[i].text) = Failed
                \/ \E j \in DOMAIN environ : j # i /\ environ[j].name = environ[i].name
<1>1. /\ Len(args) \in Nat /\ DOMAIN args = 1 .. Len(args)
      /\ Len(environ) \in Nat /\ DOMAIN environ = 1 .. Len(environ)
  BY ProcessAssumption
<1>2. Rejected <=> (\E i \in DOMAIN args : RejectedArg(i))
                     \/ \E i \in DOMAIN environ : RejectedVariable(i)
  BY SMT DEF Rejected
<1>3. "config" \notin Settings
  BY SMT DEF Settings, Durations, HttpTimeouts, DatabaseTimeouts, OidcTimes, Texts, OidcTexts,
         LocalTexts, OtherTexts, OidcLists, Counts
<1>4. ASSUME NEW i \in 1 .. Len(args) PROVE RejectedArg(i) <=> BadArg(i)
  BY <1>3, SMT DEF BadFlag, BadName, NamesFile, BadFile
<1>5. ASSUME NEW i \in 1 .. Len(environ), BadVariable(environ, i) PROVE RejectedVariable(i)
  <2>1. \A j \in 1 .. i - 1 : j \in DOMAIN environ /\ j # i
    BY <1>1
  <2> QED BY <1>5, <2>1, SMT DEF BadVariable
<1>6. ASSUME NEW i \in 1 .. Len(environ), RejectedVariable(i)
      PROVE  \E k \in 1 .. Len(environ) : BadVariable(environ, k)
  <2>1. CASE \E j \in DOMAIN environ : j # i /\ environ[j].name = environ[i].name
    <3>1. PICK j \in 1 .. Len(environ) : j # i /\ environ[j].name = environ[i].name
      BY <1>1, <2>1, SMT
    <3>2. CASE j < i
      <4>1. j \in 1 .. i - 1
        BY <3>2
      <4> QED BY <1>6, <3>1, <4>1, SMT DEF BadVariable
    <3>3. CASE i < j
      <4>1. i \in 1 .. j - 1
        BY <3>3
      <4> QED BY <1>6, <3>1, <4>1, SMT DEF BadVariable
    <3> QED BY <3>1, <3>2, <3>3
  <2>2. CASE ~\E j \in DOMAIN environ : j # i /\ environ[j].name = environ[i].name
    BY <1>6, <2>2, SMT DEF BadVariable
  <2> QED BY <2>1, <2>2
<1>7. (\E i \in DOMAIN args : RejectedArg(i)) <=> \E i \in 1 .. Len(args) : BadArg(i)
  <2> HIDE DEF RejectedArg, BadArg
  <2> QED BY <1>1, <1>4, SMT
<1>8. (\E i \in DOMAIN environ : RejectedVariable(i))
        <=> \E i \in 1 .. Len(environ) : BadVariable(environ, i)
  <2> HIDE DEF RejectedVariable
  <2> QED BY <1>1, <1>5, <1>6, SMT
<1>9. Rejected <=> (\E i \in 1 .. Len(args) : BadArg(i))
                     \/ \E i \in 1 .. Len(environ) : BadVariable(environ, i)
  <2> HIDE DEF args, environ, RejectedArg, RejectedVariable, BadArg
  <2> QED BY <1>2, <1>7, <1>8, SMT
<1> QED BY <1>9

\* The last flag of a setting.
LEMMA LastFlagIsLast ==
  ASSUME NEW n, start \in Starts
  PROVE  \/ LastFlag(n) = 0 /\ \A j \in 1 .. Len(start.args) : start.args[j].flag # n
         \/ /\ LastFlag(n) \in 1 .. Len(start.args) /\ start.args[LastFlag(n)].flag = n
            /\ \A j \in LastFlag(n) + 1 .. Len(start.args) : start.args[j].flag # n
<1> DEFINE at == {i \in DOMAIN start.args : start.args[i].flag = n}
<1>1. Len(start.args) \in Nat /\ DOMAIN start.args = 1 .. Len(start.args)
  BY ProcessAssumption
<1>2. LastFlag(n) = IF at = {} THEN 0 ELSE CHOOSE i \in at : \A j \in at : j <= i
  BY SMT DEF LastFlag
<1>3. CASE at = {}
  BY <1>1, <1>2, <1>3, SMT
<1>4. CASE at # {}
  <2>1. at \subseteq 0 .. Len(start.args)
    BY <1>1
  <2>2. \E i \in at : \A j \in at : j <= i
    <3> HIDE DEF at
    <3> QED BY <1>1, <1>4, <2>1, GreatestElement
  <2>3. LastFlag(n) \in at /\ \A j \in at : j <= LastFlag(n)
    <3> HIDE DEF at
    <3> QED BY <1>2, <1>4, <2>2, SMT
  <2>4. LastFlag(n) \in 1 .. Len(start.args) /\ start.args[LastFlag(n)].flag = n
    BY <1>1, <2>3, SMT
  <2>5. ASSUME NEW j \in LastFlag(n) + 1 .. Len(start.args) PROVE start.args[j].flag # n
    <3>1. j \in 1 .. Len(start.args) /\ ~(j <= LastFlag(n))
      BY <1>1, <2>4, <2>5
    <3> QED BY <1>1, <2>3, <3>1, SMT
  <2> QED BY <2>4, <2>5
<1> QED BY <1>3, <1>4
\* Nothing is rejected exactly if the file, the variables and the flags are applied.
LEMMA LayersApply ==
  ASSUME start \in Starts, NEW file, NEW environment, NEW flags,
         file = WithFile(start.args, Files),
         environment = ApplyEnvironment(file, start.environ),
         flags = ApplyFlags(environment, start.args)
  PROVE  ~Rejected <=> file # NoConfig /\ environment # NoConfig /\ flags # NoConfig
<1> DEFINE args == start.args
           environ == start.environ
<1>1. /\ Len(args) \in Nat /\ Len(environ) \in Nat
      /\ \A i \in 1 .. Len(args) : args[i].text # Failed
  BY ProcessAssumption
<1>2. /\ file = NoConfig =>
           \E j \in 1 .. Len(args) :
             BadName(args, j) \/ (NamesFile(args[j]) /\ BadFile(Files[args[j].text]))
      /\ file # NoConfig =>
           /\ Settings \subseteq DOMAIN file
           /\ \A j \in 1 .. Len(args) :
                ~BadName(args, j) /\ (NamesFile(args[j]) => ~BadFile(Files[args[j].text]))
  BY <1>1, FileIsApplied
<1>3. file # NoConfig => VariablesDone(environ, file, Len(environ), environment)
  BY <1>1, <1>2, VariablesAreApplied
<1>4. file # NoConfig /\ environment # NoConfig => Settings \subseteq DOMAIN environment
  BY <1>2, <1>3, SMT DEF VariablesDone
<1>5. file # NoConfig /\ environment # NoConfig => FlagsDone(args, environment, Len(args), flags)
  BY <1>1, <1>4, FlagsAreApplied
<1>6. file # NoConfig =>
        (environment = NoConfig <=> \E j \in 1 .. Len(environ) : BadVariable(environ, j))
  BY <1>3, SMT DEF VariablesDone
<1>7. file # NoConfig /\ environment # NoConfig =>
        (flags = NoConfig <=> \E j \in 1 .. Len(args) : BadFlag(args[j]))
  BY <1>5, SMT DEF FlagsDone
<1>8. Rejected <=>
        \/ \E i \in 1 .. Len(args) :
             \/ BadFlag(args[i]) \/ BadName(args, i)
             \/ NamesFile(args[i]) /\ BadFile(Files[args[i].text])
        \/ \E i \in 1 .. Len(environ) : BadVariable(environ, i)
  BY RejectedIsBad
<1> QED BY <1>2, <1>6, <1>7, <1>8, SMT

\* Then every setting has the documented value.
LEMMA LayersHaveValues ==
  ASSUME start \in Starts, NEW file, NEW environment, NEW flags,
         file = WithFile(start.args, Files),
         environment = ApplyEnvironment(file, start.environ),
         flags = ApplyFlags(environment, start.args),
         file # NoConfig, environment # NoConfig, flags # NoConfig,
         NEW n \in Settings
  PROVE  flags[n] = Layered(n)
<1> DEFINE args == start.args
           environ == start.environ
           named == {i \in DOMAIN args : args[i].flag = "config" /\ args[i].text # NoText}
           variable == {i \in DOMAIN environ : environ[i].name = n}
<1>1. /\ Len(args) \in Nat /\ Len(environ) \in Nat
      /\ DOMAIN args = 1 .. Len(args) /\ DOMAIN environ = 1 .. Len(environ)
      /\ \A i \in 1 .. Len(args) : args[i].text # Failed
  BY ProcessAssumption
<1>2. Layered(n) =
        IF LastFlag(n) # 0 THEN ValueOf(n, args[LastFlag(n)].text)
        ELSE IF variable # {} THEN ValueOf(n, environ[CHOOSE i \in variable : TRUE].text)
        ELSE IF \E i \in named : n \in DOMAIN Files[args[i].text].fields
        THEN FileValue(n, Files[args[CHOOSE i \in named : TRUE].text].fields[n])
        ELSE Defaults[n]
  BY SMT DEF Layered
<1>3. /\ Settings \subseteq DOMAIN file
      /\ \A j \in 1 .. Len(args) : ~BadName(args, j)
      /\ (\A j \in 1 .. Len(args) :
            NamesFile(args[j]) => n \notin DOMAIN Files[args[j].text].fields)
           => file[n] = Defaults[n]
      /\ \A j \in 1 .. Len(args) :
           NamesFile(args[j]) /\ n \in DOMAIN Files[args[j].text].fields
             => file[n] = FileValue(n, Files[args[j].text].fields[n])
  BY <1>1, FileIsApplied
<1>4. VariablesDone(environ, file, Len(environ), environment)
  BY <1>1, <1>3, VariablesAreApplied
<1>5. Settings \subseteq DOMAIN environment
  BY <1>3, <1>4, SMT DEF VariablesDone
<1>6. FlagsDone(args, environment, Len(args), flags)
  BY <1>1, <1>5, FlagsAreApplied
<1>7. CASE LastFlag(n) # 0
  <2>1. /\ LastFlag(n) \in 1 .. Len(args) /\ args[LastFlag(n)].flag = n
        /\ \A j \in LastFlag(n) + 1 .. Len(args) : args[j].flag # n
    BY <1>7, LastFlagIsLast, SMT
  <2>2. flags[n] = ValueOf(n, args[LastFlag(n)].text)
    BY <1>6, <2>1, SMT DEF FlagsDone
  <2> HIDE DEF args, environ, named, variable
  <2> QED BY <1>2, <1>7, <2>2, SMT
<1>8. CASE LastFlag(n) = 0
  <2>1. \A j \in 1 .. Len(args) : args[j].flag # n
    <3>1. 0 \notin 1 .. Len(args)
      BY <1>1
    <3> QED BY <1>8, <3>1, LastFlagIsLast, SMT
  <2>2. flags[n] = environment[n]
    BY <1>6, <2>1, SMT DEF FlagsDone
  <2>3. CASE variable # {}
    <3>1. (CHOOSE i \in variable : TRUE) \in variable
      BY <2>3, SMT
    <3> DEFINE j == CHOOSE i \in variable : TRUE
    <3>2. j \in 1 .. Len(environ) /\ environ[j].name = n
      BY <1>1, <3>1, SMT
    <3>3. Layered(n) = ValueOf(n, environ[j].text)
      <4> HIDE DEF args, environ, named, variable
      <4> QED BY <1>2, <1>8, <2>3, SMT
    <3> HIDE DEF j
    <3>4. environment[n] = ValueOf(n, environ[j].text)
      BY <1>4, <3>2, SMT DEF VariablesDone
    <3> QED BY <2>2, <3>3, <3>4
  <2>4. CASE variable = {}
    <3>1. \A j \in 1 .. Len(environ) : environ[j].name # n
      BY <1>1, <2>4, SMT
    <3>2. environment[n] = file[n]
      BY <1>4, <3>1, SMT DEF VariablesDone
    <3>3. Layered(n) = IF \E i \in named : n \in DOMAIN Files[args[i].text].fields
                       THEN FileValue(n, Files[args[CHOOSE i \in named : TRUE].text].fields[n])
                       ELSE Defaults[n]
      <4> HIDE DEF named, variable
      <4> QED BY <1>2, <1>8, <2>4, SMT
    <3>4. \A i : i \in named <=> i \in 1 .. Len(args) /\ NamesFile(args[i])
      BY <1>1, SMT DEF NamesFile
    <3> HIDE DEF named
    <3>5. CASE \E i \in named : n \in DOMAIN Files[args[i].text].fields
      <4>1. PICK i \in named : n \in DOMAIN Files[args[i].text].fields
        BY <3>5
      <4> DEFINE k == CHOOSE k \in named : TRUE
      <4>2. k \in named
        BY <4>1, SMT
      <4>3. Layered(n) = FileValue(n, Files[args[k].text].fields[n])
        BY <3>3, <3>5, SMT
      <4> HIDE DEF k
      <4>4. i = k
        <5>1. i \in 1 .. Len(args) /\ k \in 1 .. Len(args) /\ NamesFile(args[i]) /\ NamesFile(args[k])
          BY <3>4, <4>1, <4>2
        <5>2. ~(i \in 1 .. k - 1) /\ ~(k \in 1 .. i - 1)
          BY <1>3, <5>1, SMT DEF BadName, NamesFile
        <5> QED BY <1>1, <5>1, <5>2
      <4>5. file[n] = FileValue(n, Files[args[k].text].fields[n])
        BY <1>3, <3>4, <4>1, <4>4, SMT
      <4> QED BY <2>2, <3>2, <4>3, <4>5
    <3>6. CASE ~\E i \in named : n \in DOMAIN Files[args[i].text].fields
      <4>1. file[n] = Defaults[n]
        BY <1>3, <3>4, <3>6, SMT
      <4> QED BY <2>2, <3>2, <3>3, <3>6, <4>1, SMT
    <3> QED BY <3>5, <3>6
  <2> QED BY <2>3, <2>4
<1> QED BY <1>7, <1>8

\* What Load returns is layered as documented.
LEMMA LoadLayers ==
  ASSUME start \in Starts, config = Load(start.args, start.environ, Files)
  PROVE  LoadIsLayered
<1> DEFINE file == WithFile(start.args, Files)
           environment == ApplyEnvironment(file, start.environ)
           flags == ApplyFlags(environment, start.args)
           documented == [n \in Settings |-> Layered(n)]
<1>1. config = IF file # NoConfig /\ environment # NoConfig /\ flags # NoConfig /\ Validate(flags)
               THEN flags ELSE NoConfig
  BY SMT DEF Load, Checked
<1> HIDE DEF file, environment, flags
<1>2. ~Rejected <=> file # NoConfig /\ environment # NoConfig /\ flags # NoConfig
  BY LayersApply DEF file, environment, flags
<1>3. ASSUME ~Rejected, NEW n \in Settings PROVE flags[n] = Layered(n)
  BY <1>2, <1>3, LayersHaveValues DEF file, environment, flags
<1>4. \A n \in Settings : documented[n] = Layered(n)
  OBVIOUS
<1>5. ~Rejected => (Validate(flags) <=> Validate(documented))
  <2> HIDE DEF documented
  <2> QED BY <1>3, <1>4, ValidateReadsSettings, SMT
<1> HIDE DEF documented
<1>6. config # NoConfig => ~Rejected /\ \A n \in Settings : config[n] = Layered(n)
  BY <1>1, <1>2, <1>3, SMT
<1>7. config = NoConfig => Rejected \/ ~Validate(documented)
  BY <1>1, <1>2, <1>5, SMT
<1> QED BY <1>6, <1>7, SMT DEF LoadIsLayered, documented

\* Every configuration in use is one that Load returned for the process's own
\* arguments and environment.
LoadInv == start \in Starts /\ (config = Unset \/ config = Load(start.args, start.environ, Files))

\* A process runs with the documented precedence of defaults, file, environment
\* and flags, and fails to start only for a reason that is documented, whatever
\* the numbers of flags and variables (config.Load).
THEOREM ConfigurationIsLayered == Spec => []LoadIsLayered
<1>1. Init => LoadInv
  BY DEF Init, LoadInv
<1>2. ASSUME LoadInv, [Next]_vars PROVE LoadInv'
  <2>1. CASE LoadConfig
    BY <1>2, <2>1, SMT DEF LoadInv, LoadConfig
  <2>2. CASE UNCHANGED <<start, config>>
    BY <1>2, <2>2, SMT DEF LoadInv
  <2>3. LoadConfig \/ UNCHANGED <<start, config>>
    BY <1>2, SMT DEF Next, Run, Initialize, Listen, SelectServe, SelectDone, ShutdownDone,
         ShutdownTimeout, AwaitServe, Exit, Signal, ServeFails, ServeCloses, Accept, Refuse,
         Dispatch, Write, Return, Panic, Record, vars, process
  <2> QED BY <2>1, <2>2, <2>3
<1>3. LoadInv => LoadIsLayered
  <2>1. config = Unset => config \in {Unset, NoConfig} /\ config # NoConfig
    BY ProcessAssumption
  <2> QED BY <2>1, LoadLayers, SMT DEF LoadInv, LoadIsLayered
<1> QED BY <1>1, <1>2, <1>3, PTL DEF Spec
=============================================================================
