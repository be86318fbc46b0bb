----------------------------- MODULE SerialCatalog -----------------------------
(***************************************************************************)
(* What RegisterResolved and the repositories of descriptors, requirements *)
(* and dependencies promise together: commands take effect one at a time,  *)
(* each with the audit events that tell of it, and when one does, the      *)
(* identities it takes are free and the parent it names says what the      *)
(* command says (docs/contracts/artifact-identity.md).                     *)
(* Registration implements this specification.                             *)
(***************************************************************************)
EXTENDS Integers, Sequences

CONSTANTS
  Versions,   \* identifiers of versions
  Owner,      \* the Publisher that controls the namespace of an artifact
  Requests,   \* commands of the callers
  NoRow

VARIABLES
  versions,   \* the registered versions
  sources,    \* and where the artifact of each comes from
  rows,       \* descriptors, requirements and dependencies
  audit       \* audit events

vars == <<versions, sources, rows, audit>>

Init ==
  /\ versions = [v \in Versions |-> NoRow]
  /\ sources = [v \in Versions |-> NoRow]
  /\ rows = {}
  /\ audit = {}

Registered == {v \in Versions : versions[v] # NoRow}
RowsOf(op, v) == {p \in rows : p.op = op /\ p.version = v}

Event(action, v, index, digest) ==
  [action |-> action, version |-> v, index |-> index, digest |-> digest]

\* A version appears whole, under a digest and a coordinate that no other has.
Register(v, r) ==
  /\ r.op = "register" /\ v \notin Registered
  /\ r.publisher = Owner[r.artifact] /\ r.source.digest = r.digest
  /\ \A w \in Registered :
       /\ versions[w].digest # r.digest
       /\ versions[w].artifact # r.artifact \/ versions[w].semver # r.semver
  /\ versions' = [versions EXCEPT ![v] = r]
  /\ sources' = [sources EXCEPT ![v] = r]
  /\ audit' = audit \cup {Event("artifact_version.registered", v, 0, r.digest),
                          Event("artifact_source.created", v, 0, r.digest)}
  /\ UNCHANGED rows

Add(r, action, index) ==
  /\ rows' = rows \cup {r}
  /\ audit' = audit \cup {Event(action, r.version, index, versions[r.version].digest)}
  /\ UNCHANGED <<versions, sources>>

\* The one descriptor of a version, with its coordinates, under a fresh digest.
CreateDescriptor(r) ==
  /\ r.op = "describe" /\ r.version \in Registered
  /\ RowsOf("describe", r.version) = {}
  /\ \A p \in rows : p.op = "describe" => p.digest # r.digest
  /\ r.doc.artifact = versions[r.version].artifact
  /\ r.doc.semver = versions[r.version].semver
  /\ Add(r, "artifact_descriptor.created", 0)

\* The requirements that the descriptor states.
CreateRequirement(r) ==
  /\ r.op = "require" /\ r.version \in Registered
  /\ RowsOf("require", r.version) = {}
  /\ \E d \in RowsOf("describe", r.version) : d.doc.requirements = r.doc
  /\ Add(r, "artifact_requirement.created", 0)

\* The dependency that the descriptor states at an index, under a fresh name.
CreateDependency(r) ==
  /\ r.op = "depend" /\ r.version \in Registered
  /\ \A p \in RowsOf("depend", r.version) : p.index # r.index /\ p.doc.name # r.doc.name
  /\ \E d \in RowsOf("describe", r.version) :
       r.index < Len(d.doc.dependencies) /\ d.doc.dependencies[r.index + 1] = r.doc
  /\ Add(r, "artifact_dependency.created", r.index)

Next ==
  \E r \in Requests :
    \/ \E v \in Versions : Register(v, r)
    \/ CreateDescriptor(r)
    \/ CreateRequirement(r)
    \/ CreateDependency(r)

Spec == Init /\ [][Next]_vars
=============================================================================
