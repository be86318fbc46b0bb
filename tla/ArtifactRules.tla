---------------------------- MODULE ArtifactRules ----------------------------
(***************************************************************************)
(* What the domain packages accept as an ArtifactVersion, its source, its  *)
(* descriptor, its requirements and its dependencies                       *)
(* (internal/domain/artifactversion, artifactsource, artifactdescriptor,   *)
(* artifactrequirement, artifactdependency), and the constraints that      *)
(* PostgreSQL puts on the same rows (migrations/000005, 000007 to 000010). *)
(*                                                                         *)
(* A string is a number, ordered as sort.StringsAreSorted orders it; the   *)
(* constants say which strings match which pattern.  An optional field of  *)
(* a document that is not there is Absent; of a text whose length is all   *)
(* that matters, "out of bounds" stands for the ones too short or too long.*)
(* Three fields are about the bytes of a document, which have the digest   *)
(* that is given with them: json says whether they are one JSON value      *)
(* without a repeated key; keys whether every known key is spelled exactly *)
(* or one is in another case (folded); jsonb whether PostgreSQL can hold   *)
(* the value, which it cannot with an escaped NUL, a lone surrogate or a   *)
(* number of too many digits in it.                                        *)
(***************************************************************************)
EXTENDS Integers, Sequences

CONSTANTS
  DnsTokens,         \* strings that match dnsTokenPattern
  Capabilities,      \* strings that match capabilityPattern
  MaxDependencies,   \* artifactdependency.MaxDependencies
  Absent

ASSUME RulesAssumption ==
  /\ DnsTokens \subseteq Int
  /\ Capabilities \subseteq Int
  /\ MaxDependencies \in Nat

-----------------------------------------------------------------------------
(* Versions and their sources.                                             *)

Kinds == {"skill", "agent-runtime", "mcp-server", "remote-agent", "bundle"}
Classes == {"instructional", "executable-local", "remote-service", "composite"}
DeliveryModels == {"oci", "remote", "imported-source"}

ValidKindClass(kind, class) ==
  \/ kind = "skill" /\ class \in {"instructional", "executable-local"}
  \/ kind = "agent-runtime" /\ class = "executable-local"
  \/ kind = "mcp-server" /\ class \in {"executable-local", "remote-service"}
  \/ kind = "remote-agent" /\ class = "remote-service"
  \/ kind = "bundle" /\ class = "composite"

ValidCombination(kind, class, delivery) ==
  IF delivery = "imported-source"
  THEN ValidKindClass(kind, class)
  ELSE \/ kind \in {"skill", "agent-runtime", "remote-agent", "bundle"}
          /\ ValidKindClass(kind, class) /\ delivery = "oci"
       \/ kind = "mcp-server" /\ <<class, delivery>> \in
            {<<"executable-local", "oci">>, <<"remote-service", "remote">>}

\* The two CHECK constraints of artifact_versions, one row of each per kind.
SqlCombination(kind, class, delivery) ==
  /\ \/ delivery = "imported-source"
     \/ <<kind, class, delivery>> \in
          {<<"skill", "instructional", "oci">>, <<"skill", "executable-local", "oci">>,
           <<"agent-runtime", "executable-local", "oci">>,
           <<"mcp-server", "executable-local", "oci">>,
           <<"mcp-server", "remote-service", "remote">>,
           <<"remote-agent", "remote-service", "oci">>,
           <<"bundle", "composite", "oci">>}
  /\ \/ delivery # "imported-source"
     \/ <<kind, class>> \in
          {<<"skill", "instructional">>, <<"skill", "executable-local">>,
           <<"agent-runtime", "executable-local">>,
           <<"mcp-server", "executable-local">>, <<"mcp-server", "remote-service">>,
           <<"remote-agent", "remote-service">>, <<"bundle", "composite">>}

SourceMatchesDelivery(kind, delivery) ==
  <<kind, delivery>> \in
    {<<"oci", "oci">>, <<"remote", "remote">>, <<"import-record", "imported-source">>}

\* restore: a reference is empty, valid or invalid; binds says that the resolved
\* reference ends in the resolved digest; an endpoint is empty, an HTTPS URL,
\* one that PostgreSQL spells differently (a space in its path, an upper-case
\* scheme), or no HTTPS URL.
ValidSource(s) ==
  \/ /\ s.kind = "oci" /\ s.submitted = "valid" /\ s.binds
     /\ s.endpoint = "empty" /\ ~s.imported
  \/ /\ s.kind = "remote" /\ s.submitted = "valid"
     /\ s.endpoint \in {"https", "odd https"} /\ ~s.imported
  \/ /\ s.kind = "import-record" /\ s.submitted = "empty"
     /\ s.endpoint = "empty" /\ s.imported

\* The CHECK constraints of artifact_sources.
SqlSource(s, delivery) ==
  /\ s.endpoint \in {"empty", "https"}
  /\ \/ /\ s.kind = "oci" /\ delivery = "oci" /\ s.submitted # "empty"
        /\ s.endpoint = "empty" /\ ~s.imported /\ s.binds
     \/ /\ s.kind = "remote" /\ delivery = "remote" /\ s.submitted # "empty"
        /\ s.endpoint # "empty" /\ ~s.imported
     \/ /\ s.kind = "import-record" /\ delivery = "imported-source"
        /\ s.submitted = "empty" /\ s.endpoint = "empty" /\ s.imported

-----------------------------------------------------------------------------
(* Requirements.                                                           *)

StringSet(list, minimum, maximum, valid) ==
  /\ Len(list) \in minimum .. maximum
  /\ \A i \in DOMAIN list : list[i] \in valid
  /\ \A i \in 1 .. Len(list) - 1 : list[i] <= list[i + 1] /\ list[i] # list[i + 1]

ValidCapabilities(c) ==
  c # Absent =>
    /\ DOMAIN c \subseteq {"required", "optional"}
    /\ \A f \in DOMAIN c : StringSet(c[f], 0, 256, Capabilities)

Quantities == {"minimum_cpu_millicores", "minimum_memory_bytes",
               "minimum_ephemeral_storage_bytes", "minimum_workspace_storage_bytes"}

ValidRuntimeField(f, value) ==
  \/ f = "profile" /\ value \in DnsTokens
  \/ f = "minimum_isolation_class"
       /\ value \in {"container-standard", "microvm-strong", "confidential-strong"}
  \/ f = "os" /\ value = "linux"
  \/ f = "architectures" /\ StringSet(value, 1, 4, {1, 2})   \* amd64, arm64
  \/ f \in Quantities /\ value \in Nat \ {0}
  \/ f \in {"durable_workspace_required", "gpu_required"} /\ value \in BOOLEAN
  \/ f = "gpu_classes" /\ StringSet(value, 0, 8, DnsTokens)
  \/ f = "adapter" /\ value.kind \in DnsTokens /\ value.compatibility # "out of bounds"

ValidRuntime(r) == r # Absent => \A f \in DOMAIN r : ValidRuntimeField(f, r[f])

Profiles == {"none", "thinkpixel-only", "package-mirrors", "restricted-external",
             "unrestricted-standalone"}

ValidNetwork(n) ==
  n # Absent =>
    /\ n.profile \in Profiles
    /\ IF n.profile = "restricted-external"
       THEN n.endpoint_classes # Absent /\ StringSet(n.endpoint_classes, 1, 32, DnsTokens)
       ELSE n.endpoint_classes \in {Absent, << >>}

ValidIntegrations(list) ==
  list # Absent =>
    /\ Len(list) <= 64
    /\ \A i \in DOMAIN list :
         /\ list[i].kind \in {"mcp-server", "a2a-peer", "model-feature", "model-family",
                              "artifact-store"}
         /\ list[i].identifier # "out of bounds"
         /\ list[i].required \in BOOLEAN

\* decodeObject compares the keys exactly.
ValidRequirement(doc) ==
  /\ doc.json = "unique" /\ doc.keys = "exact"
  /\ doc.schema_version = 1
  /\ ValidCapabilities(doc.capabilities)
  /\ ValidRuntime(doc.runtime)
  /\ ValidNetwork(doc.network)
  /\ ValidIntegrations(doc.integrations)

\* The CHECK constraints of artifact_requirements.
SqlRequirement(doc) ==
  /\ doc.keys = "exact"
  /\ doc.schema_version = 1
  /\ doc.integrations = Absent \/ Len(doc.integrations) <= 64

-----------------------------------------------------------------------------
(* Descriptors and dependencies.                                           *)

\* mediaTypeFor: every kind has a media type of its own.
MediaTypeFor(kind) == <<"manifest.v1", kind>>

\* The decoder of encoding/json takes a known key in any case, folded or not.
ValidDescriptor(doc) ==
  /\ doc.json = "unique"
  /\ doc.schema_version = 1
  /\ doc.kind \in Kinds
  /\ doc.media_type = MediaTypeFor(doc.kind)
  /\ Len(doc.dependencies) <= MaxDependencies

\* The CHECK constraints of artifact_descriptors: the columns are those of the
\* version, and the document has them under its exact keys and has no other key.
SqlDescriptor(doc, artifact, semver, kind) ==
  /\ doc.keys = "exact"
  /\ doc.schema_version = 1
  /\ doc.artifact = artifact /\ doc.semver = semver /\ doc.kind = kind
  /\ kind \in Kinds /\ doc.media_type = MediaTypeFor(kind)
  /\ Len(doc.dependencies) <= MaxDependencies

\* Mutant: a range may name the newest version.
LooseSelector(s) ==
  \/ s.kind \in {"digest", "version"} /\ s.value = "parses"
  \/ s.kind = "range" /\ s.value # "out of bounds"

\* The selector has one field; a range names versions, never just the newest.
ValidSelector(s) ==
  \/ s.kind \in {"digest", "version"} /\ s.value = "parses"
  \/ s.kind = "range" /\ s.value \notin {"out of bounds", "latest", "*"}

\* Here too the decoder takes a known key in any case.
ValidDependency(index, doc) ==
  /\ index < MaxDependencies
  /\ doc.json = "unique"
  /\ doc.schema_version = 1
  /\ doc.name \in DnsTokens
  /\ doc.artifact = "parses"
  /\ doc.required \in BOOLEAN
  /\ doc.catalog = Absent \/ doc.catalog \in DnsTokens
  /\ doc.source = Absent \/ doc.source # "out of bounds"
  /\ ValidSelector(doc.selector)

\* The CHECK constraints of artifact_dependencies; the pattern of an artifact
\* also takes one whose namespace or one of whose tokens is too long for Go.
SqlDependency(index, doc) ==
  /\ index \in 0 .. MaxDependencies - 1
  /\ doc.keys = "exact"
  /\ doc.schema_version = 1
  /\ doc.name \in DnsTokens
  /\ doc.artifact \in {"parses", "overlong"}
  /\ doc.required \in BOOLEAN
  /\ doc.catalog = Absent \/ doc.catalog \in DnsTokens
  /\ doc.source = Absent \/ doc.source # "out of bounds"
  /\ doc.selector.kind \in {"digest", "version", "range"} /\ doc.selector.value # "out of bounds"
  /\ doc.selector.kind # "range" => doc.selector.value = "parses"
  /\ doc.selector.kind = "range" => doc.selector.value \notin {"latest", "*"}
=============================================================================
