SPECIFICATION FairSpec
CONSTANTS
  r1 = r1
  r2 = r2
  Requests = {r1, r2}
  Failed = Failed
  Unset = Unset
  Parser <- MCParser
  Addresses = {"127.0.0.1:8080"}
  HttpsUrls = {"https://issuer"}
  HttpUrls = {"http://otel"}
  Uuids = {"0190a0b0-0000-7000-8000-000000000001"}
  ControlTexts = {}
  LongTexts = {}
  Lengths = {0, 2000000}
  Files <- MCFiles
  Starts <- MCStarts
INVARIANTS
  LoadIsLayered
  LoadedConfigurationsStart
  CleanExit
  MetricsTellTheWire
PROPERTY
  SignalStopsProcess
CHECK_DEADLOCK FALSE
