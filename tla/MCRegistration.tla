---------------------------- MODULE MCRegistration ----------------------------
(* Three transactions and commands that collide with each other, that the   *)
(* domain refuses and that the database refuses.                               *)
EXTENDS Registration, TLC

CONSTANTS t1, t2, t3, v1, v2, a1, a2

MCKind == a1 :> "mcp-server" @@ a2 :> "skill"
MCOwner == a1 :> "p1" @@ a2 :> "p2"

Oci(digest) == [kind |-> "oci", digest |-> digest, submitted |-> "valid", binds |-> TRUE,
                endpoint |-> "empty", imported |-> FALSE]
Remote(digest, endpoint) ==
  [kind |-> "remote", digest |-> digest, submitted |-> "valid", binds |-> FALSE,
   endpoint |-> endpoint, imported |-> FALSE]

Imported(digest) ==
  [kind |-> "import-record", digest |-> digest, submitted |-> "empty", binds |-> FALSE,
   endpoint |-> "empty", imported |-> TRUE]

Register(artifact, publisher, semver, digest, class, delivery, source) ==
  [op |-> "register", artifact |-> artifact, publisher |-> publisher, semver |-> semver,
   digest |-> digest, class |-> class, delivery |-> delivery, source |-> source, actor |-> TRUE]

Registrations ==
  {Register(a1, "p1", 1, "d1", "executable-local", "oci", Oci("d1")),
   Register(a1, "p1", 1, "d2", "remote-service", "remote", Remote("d2", "https")),
   Register(a1, "p1", 2, "d1", "remote-service", "remote", Remote("d1", "odd https")),
   Register(a1, "p1", 2, "d3", "executable-local", "oci", Oci("d3")),
   Register(a2, "p2", 1, "d3", "executable-local", "imported-source", Imported("d3")),
   \* refused: the combination, the source's digest, the owner, the artifact
   Register(a1, "p1", 3, "d3", "remote-service", "oci", Oci("d3")),
   Register(a2, "p2", 1, "d2", "instructional", "oci", Oci("d3")),
   Register(a2, "p1", 1, "d3", "instructional", "oci", Oci("d3"))}

Requirement(list, jsonb) ==
  [json |-> "unique", keys |-> "exact", jsonb |-> jsonb, schema_version |-> 1,
   capabilities |-> [required |-> list],
   runtime |-> [profile |-> 1, architectures |-> <<1, 2>>],
   network |-> [profile |-> "restricted-external", endpoint_classes |-> <<1>>],
   integrations |-> <<[kind |-> "mcp-server", identifier |-> "i", required |-> TRUE]>>]

Dependency(keys, range) ==
  [json |-> "unique", keys |-> keys, jsonb |-> "storable", schema_version |-> 1, name |-> 1,
   artifact |-> "parses", required |-> TRUE, catalog |-> Absent,
   source |-> "s", selector |-> [kind |-> "range", value |-> range]]

\* Two dependencies of one name, one that only Go accepts, one it refuses as well.
Dependencies == <<Dependency("exact", "^1"), Dependency("exact", "^1"),
                  Dependency("folded", "^1"), Dependency("exact", "latest")>>

Manifest(semver, keys) ==
  [json |-> "unique", keys |-> keys, jsonb |-> "storable", schema_version |-> 1,
   kind |-> "mcp-server", media_type |-> MediaTypeFor("mcp-server"),
   artifact |-> a1, semver |-> semver,
   requirements |-> Requirement(<<1, 2>>, "storable"), dependencies |-> Dependencies]

Describe(v, semver, keys, digest) ==
  [op |-> "describe", version |-> v, doc |-> Manifest(semver, keys), digest |-> digest, actor |-> TRUE]
Require(v, list, jsonb) ==
  [op |-> "require", version |-> v, doc |-> Requirement(list, jsonb), actor |-> TRUE]
Depend(v, index, actor) ==
  [op |-> "depend", version |-> v, index |-> index,
   doc |-> Dependencies[IF index < 4 THEN index + 1 ELSE 1], actor |-> actor]

MCRequests ==
  Registrations \cup
  {Describe(v1, 1, "exact", "d4"), Describe(v1, 1, "folded", "d5"), Describe(v2, 2, "exact", "d6"),
   Require(v1, <<1, 2>>, "storable"), Require(v1, <<1>>, "storable"),
   Require(v1, <<1, 2>>, "unstorable"),
   Depend(v1, 0, TRUE), Depend(v1, 1, TRUE), Depend(v1, 2, TRUE), Depend(v1, 3, TRUE),
   Depend(v1, 4, TRUE), Depend(v1, 0, FALSE)}

Symmetry == Permutations({t1, t2, t3})
=============================================================================
