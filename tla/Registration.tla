------------------------------ MODULE Registration ------------------------------
(***************************************************************************)
(* Registration of ArtifactVersions (RegisterResolved of internal/app/     *)
(* publication/artifact_version.go) and of the rows that hang off one: the *)
(* source, descriptor, requirement, dependency and audit repositories of   *)
(* internal/adapters/postgres.  Transactions run concurrently; a unique    *)
(* index makes the insertion of an entry wait for the open transaction     *)
(* that inserted the same entry, foreign keys and INSERT ... SELECT read   *)
(* committed rows, and deferred triggers look for the audit event of each  *)
(* row at COMMIT.                                                          *)
(***************************************************************************)
EXTENDS ArtifactRules

CONSTANTS
  Txs,            \* database transactions
  Versions,       \* identifiers of versions (UUIDv7)
  Artifacts,      \* logical artifacts
  ArtifactKind,   \* their kinds
  Owner,          \* Owner[a]: the Publisher that controls the namespace of a
  Requests,       \* commands of the callers
  NoRow, NoRequest, NoVersion

\* The commands: RegisterResolved, and Create of the three other repositories.
Operations == {"register", "describe", "require", "depend"}

ASSUME RegistrationAssumption ==
  /\ ArtifactKind \in [Artifacts -> Kinds]
  /\ \A r \in Requests : r.op \in Operations
  /\ \A r \in Requests : r.op = "depend" => r.index \in Nat   \* uint16
  /\ \A r \in Requests : r.op # "register" => /\ r.doc.keys \in {"exact", "folded"}
                                              /\ r.doc.jsonb \in {"storable", "unstorable"}
  /\ NoRow \notin Requests
  /\ NoRequest \notin Requests
  /\ NoVersion \notin Versions

VARIABLES
  versions,   \* committed rows of artifact_versions: the command that made each
  sources,    \* committed rows of artifact_sources
  rows,       \* committed descriptors, requirements and dependencies
  audit,      \* committed audit events
  phase,      \* the statement a transaction executes next
  req,        \* its command
  newId,      \* the version it registers
  events,     \* audit events it has recorded
  refused     \* the command the last step refused for a constraint of the database,
              \* although the domain had accepted it

tables == <<versions, sources, rows, audit>>
vars == <<versions, sources, rows, audit, phase, req, newId, events, refused>>

Phases == {"idle", "resolve", "version", "source", "row", "commit"}

Init ==
  /\ versions = [v \in Versions |-> NoRow]
  /\ sources = [v \in Versions |-> NoRow]
  /\ rows = {}
  /\ audit = {}
  /\ phase = [t \in Txs |-> "idle"]
  /\ req = [t \in Txs |-> NoRequest]
  /\ newId = [t \in Txs |-> NoVersion]
  /\ events = [t \in Txs |-> {}]
  /\ refused = {}

-----------------------------------------------------------------------------
(* What the callers may store *)

\* The checks before the transaction of RegisterResolved, and the domain
\* constructors the other repositories take their values from.
Accepts(r) ==
  \/ /\ r.op = "register" /\ r.source.digest = r.digest
     /\ SourceMatchesDelivery(r.source.kind, r.delivery)
  \/ r.op = "describe" /\ ValidDescriptor(r.doc)
  \/ r.op = "require" /\ ValidRequirement(r.doc)
  \/ r.op = "depend" /\ ValidDependency(r.index, r.doc)

\* Record takes the actor that NewActor put into the context.
HasActor(r) == r.actor

\* The look-ups of the repositories; a look-up scans one row.
GetVersion(v) == {versions[v]} \ {NoRow}
GetSource(v) == {sources[v]} \ {NoRow}

GetByDigest(digest) ==
  {v \in Versions : versions[v] # NoRow /\ versions[v].digest = digest}

GetBySemanticVersion(artifact, semver) ==
  {v \in Versions : /\ versions[v] # NoRow
                    /\ versions[v].artifact = artifact /\ versions[v].semver = semver}

GetDescriptor(v) == {d \in rows : d.op = "describe" /\ d.version = v}
GetRequirement(v) == {d \in rows : d.op = "require" /\ d.version = v}
ListDependencies(v) == {d \in rows : d.op = "depend" /\ d.version = v}

\* What scan passes on to Restore must be valid, or the row cannot be read.
ScanVersion(row) == ValidCombination(ArtifactKind[row.artifact], row.class, row.delivery)
ScanSource(row) == ValidSource(row.source)

\* A repeated command is answered from the version and the source it made.
Replays(v) ==
  \E row \in GetVersion(v), source \in GetSource(v) : ScanVersion(row) /\ ScanSource(source)

\* The unique indexes of artifact_versions.
SameVersion(p, q) ==
  p.digest = q.digest \/ (p.artifact = q.artifact /\ p.semver = q.semver)

\* The primary keys and unique indexes of the three other tables.
SameRow(p, q) ==
  /\ p.op = q.op
  /\ \/ p.op = "describe" /\ (p.version = q.version \/ p.digest = q.digest)
     \/ p.op = "require" /\ p.version = q.version
     \/ p.op = "depend" /\ p.version = q.version
          /\ (p.index = q.index \/ p.doc.name = q.doc.name)

\* Mutant: a requirement is stored for any descriptor of the version.
AnyParent(r) ==
  \/ /\ r.op = "describe" /\ r.version \in Versions /\ versions[r.version] # NoRow
     /\ r.doc.artifact = versions[r.version].artifact
     /\ r.doc.semver = versions[r.version].semver
     /\ r.doc.kind = ArtifactKind[versions[r.version].artifact]
  \/ r.op = "require" /\ GetDescriptor(r.version) # {}
  \/ /\ r.op = "depend"
     /\ \E d \in GetDescriptor(r.version) :
          r.index < Len(d.doc.dependencies) /\ d.doc.dependencies[r.index + 1] = r.doc

\* The joins of INSERT ... SELECT: the committed parent has the coordinates, the
\* requirements, or at this index the dependency that the command gives.
HasParent(r) ==
  \/ /\ r.op = "describe" /\ r.version \in Versions /\ versions[r.version] # NoRow
     /\ r.doc.artifact = versions[r.version].artifact
     /\ r.doc.semver = versions[r.version].semver
     /\ r.doc.kind = ArtifactKind[versions[r.version].artifact]
  \/ /\ r.op = "require"
     /\ \E d \in GetDescriptor(r.version) : d.doc.requirements = r.doc
  \/ /\ r.op = "depend"
     /\ \E d \in GetDescriptor(r.version) :
          r.index < Len(d.doc.dependencies) /\ d.doc.dependencies[r.index + 1] = r.doc

\* What the database demands of a row that the join has selected: its document
\* converts to jsonb and passes the CHECK constraints of its table.  (The metadata
\* triggers read the parent again, which is immutable: they repeat the join.)
SqlRow(r) ==
  /\ r.doc.jsonb = "storable"
  /\ \/ /\ r.op = "describe"
        /\ SqlDescriptor(r.doc, versions[r.version].artifact, versions[r.version].semver,
                         ArtifactKind[versions[r.version].artifact])
     \/ r.op = "require" /\ SqlRequirement(r.doc)
     \/ r.op = "depend" /\ SqlDependency(r.index, r.doc)

-----------------------------------------------------------------------------
(* Audit events *)

VersionEvent(v, digest) ==
  [action |-> "artifact_version.registered", version |-> v, index |-> 0, digest |-> digest]
SourceEvent(v, digest) ==
  [action |-> "artifact_source.created", version |-> v, index |-> 0, digest |-> digest]

ActionOf(op) ==
  CASE op = "describe" -> "artifact_descriptor.created"
    [] op = "require" -> "artifact_requirement.created"
    [] op = "depend" -> "artifact_dependency.created"

\* Record takes the digest of the event from the version the row hangs off.
RowEvent(r) ==
  [action |-> ActionOf(r.op), version |-> r.version,
   index |-> IF r.op = "depend" THEN r.index ELSE 0,
   digest |-> versions[r.version].digest]

\* require_mutation_audit: what the deferred triggers look for at COMMIT.
RequiredEvents(t) ==
  IF req[t].op = "register"
  THEN {VersionEvent(newId[t], req[t].digest), SourceEvent(newId[t], req[t].digest)}
  ELSE {RowEvent(req[t])}

-----------------------------------------------------------------------------
(* The steps of a transaction *)

Goto(t, p) == phase' = [phase EXCEPT ![t] = p]

\* The transaction ends, committed or rolled back.
End(t) ==
  /\ Goto(t, "idle")
  /\ req' = [req EXCEPT ![t] = NoRequest]
  /\ events' = [events EXCEPT ![t] = {}]
  /\ newId' = [newId EXCEPT ![t] = NoVersion]

Receive(t, r) ==
  /\ phase[t] = "idle"
  /\ Accepts(r)
  /\ req' = [req EXCEPT ![t] = r]
  /\ Goto(t, IF r.op = "register" THEN "resolve" ELSE "row")
  /\ refused' = {}
  /\ UNCHANGED <<tables, newId, events>>

\* Artifact, owner and domain objects; ids.New gives an identifier of its own.
MayRegister(r) ==
  /\ r.artifact \in Artifacts
  /\ r.publisher = Owner[r.artifact]
  /\ ValidCombination(ArtifactKind[r.artifact], r.class, r.delivery)
  /\ ValidSource(r.source)

Unused(v) == versions[v] = NoRow /\ \A t \in Txs : newId[t] # v

Resolve(t) ==
  /\ phase[t] = "resolve"
  /\ UNCHANGED tables
  /\ refused' = {}
  /\ \/ ~MayRegister(req[t]) /\ End(t)
     \/ /\ MayRegister(req[t])
        /\ \E v \in Versions :
             /\ Unused(v)
             /\ newId' = [newId EXCEPT ![t] = v]
             /\ Goto(t, "version")
             /\ UNCHANGED <<req, events>>

\* Mutant: the unique indexes of versions ignore open transactions.
VersionUnlocked(t) == {}

\* Open transactions whose uncommitted rows the insertion must wait for.
VersionHolders(t) ==
  {u \in Txs \ {t} : /\ phase[u] \in {"source", "commit"} /\ req[u].op = "register"
                     /\ SameVersion(req[u], req[t])}

\* Mutant: the unique indexes of the child rows ignore open transactions.
RowUnlocked(t) == {}
RowHolders(t) ==
  {u \in Txs \ {t} : /\ phase[u] = "commit" /\ req[u].op # "register"
                     /\ SameRow(req[u], req[t])}

\* A statement that fails rolls the transaction back; when a constraint is the
\* reason, the command is refused by the database.
Refuse(t) == End(t) /\ refused' = {req[t]}
Reject(t) == End(t) /\ refused' = {}

\* artifactversion Create: the row, then its audit event, which needs an actor.
InsertVersion(t) ==
  /\ phase[t] = "version"
  /\ VersionHolders(t) = {}
  /\ UNCHANGED tables
  /\ IF ~SqlCombination(ArtifactKind[req[t].artifact], req[t].class, req[t].delivery)
     THEN Refuse(t)
     ELSE IF \/ \E v \in Versions : versions[v] # NoRow /\ SameVersion(versions[v], req[t])
             \/ ~HasActor(req[t])
     THEN Reject(t)
     ELSE /\ Goto(t, "source")
          /\ events' = [events EXCEPT ![t] = @ \cup {VersionEvent(newId[t], req[t].digest)}]
          /\ refused' = {}
          /\ UNCHANGED <<req, newId>>

\* Mutant: the two repositories commit on their own.
InsertSourceApart(t) ==
  /\ phase[t] = "source"
  /\ versions' = [versions EXCEPT ![newId[t]] = req[t]]
  /\ UNCHANGED <<sources, rows, audit>>
  /\ IF ~SqlSource(req[t].source, req[t].delivery)
     THEN Refuse(t)
     ELSE /\ Goto(t, "commit")
          /\ events' = [events EXCEPT ![t] = @ \cup {SourceEvent(newId[t], req[t].digest)}]
          /\ refused' = {}
          /\ UNCHANGED <<req, newId>>

\* artifactsource Create: it joins the version of its own transaction.
InsertSource(t) ==
  /\ phase[t] = "source"
  /\ UNCHANGED tables
  /\ IF ~SqlSource(req[t].source, req[t].delivery)
     THEN Refuse(t)
     ELSE /\ Goto(t, "commit")
          /\ events' = [events EXCEPT ![t] = @ \cup {SourceEvent(newId[t], req[t].digest)}]
          /\ refused' = {}
          /\ UNCHANGED <<req, newId>>

\* Create of a descriptor, requirement or dependency.  The conversion to jsonb
\* fails where it is evaluated, at the latest for the selected row; INSERT ...
\* SELECT selects nothing without the parent; a selected row meets the CHECK
\* constraints and only then the unique indexes; the audit event comes last.
InsertRow(t) ==
  /\ phase[t] = "row"
  /\ UNCHANGED tables
  /\ \/ req[t].doc.jsonb = "unstorable" /\ Refuse(t)
     \/ ~HasParent(req[t]) /\ Reject(t)
     \/ HasParent(req[t]) /\ ~SqlRow(req[t]) /\ Refuse(t)
     \/ /\ HasParent(req[t]) /\ SqlRow(req[t])
        /\ RowHolders(t) = {}
        /\ IF (\E p \in rows : SameRow(p, req[t])) \/ ~HasActor(req[t])
           THEN Reject(t)
           ELSE /\ Goto(t, "commit")
                /\ events' = [events EXCEPT ![t] = {RowEvent(req[t])}]
                /\ refused' = {}
                /\ UNCHANGED <<req, newId>>

\* Mutant: the audit event is committed with the statement that recorded it.
FailKeepsEvents(t) ==
  /\ phase[t] # "idle"
  /\ audit' = audit \cup events[t]
  /\ UNCHANGED <<versions, sources, rows>>
  /\ Reject(t)

\* A lost connection, a cancelled context or a failing statement rolls back.
Fail(t) ==
  /\ phase[t] # "idle"
  /\ UNCHANGED tables
  /\ Reject(t)

Commit(t) ==
  /\ phase[t] = "commit"
  /\ IF ~(RequiredEvents(t) \subseteq events[t])
     THEN Refuse(t) /\ UNCHANGED tables
     ELSE /\ audit' = audit \cup events[t]
          /\ IF req[t].op = "register"
             THEN /\ versions' = [versions EXCEPT ![newId[t]] = req[t]]
                  /\ sources' = [sources EXCEPT ![newId[t]] = req[t]]
                  /\ UNCHANGED rows
             ELSE /\ rows' = rows \cup {req[t]}
                  /\ UNCHANGED <<versions, sources>>
          /\ Reject(t)

Next ==
  \E t \in Txs :
    \/ \E r \in Requests : Receive(t, r)
    \/ Resolve(t)
    \/ InsertVersion(t)
    \/ InsertSource(t)
    \/ InsertRow(t)
    \/ Commit(t)
    \/ Fail(t)

Spec == Init /\ [][Next]_vars

-----------------------------------------------------------------------------
(* Properties *)

\* Types; a transaction holds the identifier of a version exactly while it registers one.
TypeOK ==
  /\ versions \in [Versions -> Requests \cup {NoRow}]
  /\ sources \in [Versions -> Requests \cup {NoRow}]
  /\ rows \subseteq Requests
  /\ refused \subseteq Requests
  /\ phase \in [Txs -> Phases]
  /\ req \in [Txs -> Requests \cup {NoRequest}]
  /\ newId \in [Txs -> Versions \cup {NoVersion}]
  /\ \A t \in Txs :
       /\ req[t] = NoRequest <=> phase[t] = "idle"
       /\ newId[t] # NoVersion <=> (phase[t] \in {"version", "source", "commit"}
                                    /\ req[t].op = "register")

\* GetByDigest and GetBySemanticVersion find one version at most, whatever the
\* interleaving of concurrent registrations: a digest and a coordinate name one
\* immutable version for ever.
IdentitiesAreUnique ==
  \A v, w \in Versions :
    versions[v] # NoRow /\ versions[w] # NoRow /\ v # w =>
      /\ versions[v].digest # versions[w].digest
      /\ <<versions[v].artifact, versions[v].semver>> # <<versions[w].artifact, versions[w].semver>>

\* A committed version is whole for every reader: RegisterResolved can replay it
\* with its source, the source has the version's digest and fits its delivery
\* model, and the Publisher is the owner of the artifact's namespace.
SourcesBindVersions ==
  \A v \in Versions :
    /\ GetSource(v) # {} => GetVersion(v) # {}
    /\ \A row \in GetVersion(v) :
         /\ Replays(v)
         /\ \A s \in GetSource(v) : /\ s.source.digest = row.digest
                                   /\ SourceMatchesDelivery(s.source.kind, row.delivery)
         /\ row.publisher = Owner[row.artifact]

\* The rows that hang off a version agree with it and with each other, although
\* each was committed by a transaction of its own, and can be read back: one
\* descriptor with the version's coordinates, the requirements that descriptor
\* states, and at each index and name the one dependency it states.
RowsBindVersions ==
  \A r \in rows :
    /\ Accepts(r)
    /\ r.version \in Versions /\ versions[r.version] # NoRow
    /\ r.op = "describe" =>
         /\ r.doc.artifact = versions[r.version].artifact
         /\ r.doc.semver = versions[r.version].semver
         /\ GetDescriptor(r.version) = {r}
    /\ r.op = "require" =>
         /\ \E d \in GetDescriptor(r.version) : d.doc.requirements = r.doc
         /\ GetRequirement(r.version) = {r}
    /\ r.op = "depend" =>
         /\ \E d \in GetDescriptor(r.version) : d.doc.dependencies[r.index + 1] = r.doc
         /\ \A p \in ListDependencies(r.version) :
              p.index = r.index \/ p.doc.name = r.doc.name => p = r

\* The audit log tells exactly the committed rows, with the digest of the
\* artifact each is about: nothing that was rolled back, nothing omitted.
AuditTellsTheTables ==
  audit = {VersionEvent(v, versions[v].digest) : v \in {w \in Versions : versions[w] # NoRow}}
     \cup {SourceEvent(v, versions[v].digest) : v \in {w \in Versions : sources[w] # NoRow}}
     \cup {RowEvent(r) : r \in rows}

\* Documents that the Go decoder takes and PostgreSQL does not: an HTTPS endpoint
\* the pattern of artifact_sources spells differently, a known key in another case
\* (requirements are decoded with exact keys), a value that jsonb cannot hold.
OnlyGoAccepts(r) ==
  \/ r.op = "register" /\ r.source.endpoint = "odd https"
  \/ r.op \in {"describe", "depend"} /\ r.doc.keys = "folded"
  \/ r.op # "register" /\ r.doc.jsonb = "unstorable"

\* What the domain accepts the database accepts, whatever has been committed in
\* between: the CHECK constraints, the conversion to jsonb and the audit triggers
\* refuse no command but those of OnlyGoAccepts.  (Every other refusal of a
\* constraint would answer a valid command with persistence_unavailable.)
DatabaseAgreesWithDomain == \A r \in refused : OnlyGoAccepts(r)

Serial == INSTANCE SerialCatalog

\* Concurrent commands leave the tables and the audit log that they would leave
\* one after the other: whatever else commits between the statements of a
\* transaction, its checks still hold when it commits, and readers never see a
\* version without its source or a row without its audit event.
\* (RegisterResolved, Create of the row repositories, require_mutation_audit.)
ImplementsSerialCatalog == Serial!Spec
=============================================================================
