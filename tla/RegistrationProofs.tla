-------------------------- MODULE RegistrationProofs --------------------------
(***************************************************************************)
(* Proofs about the registration of versions and the rows that hang off    *)
(* them, for any transactions, identifiers, artifacts and commands.  The   *)
(* invariant says what an open transaction has secured: its identifier is  *)
(* its own, no committed and no other uncommitted row has its entries in a *)
(* unique index, the parent it selected is committed, and it recorded the  *)
(* audit events of exactly the rows it inserted.                           *)
(***************************************************************************)
EXTENDS Registration, TLAPS

HoldsVersion(t) == req[t].op = "register" /\ phase[t] \in {"source", "commit"}
HoldsRow(t) == req[t].op # "register" /\ phase[t] = "commit"
Registering(t) == req[t].op = "register" /\ phase[t] \in {"version", "source", "commit"}

Recorded(t) ==
  IF HoldsVersion(t)
  THEN IF phase[t] = "source"
       THEN {VersionEvent(newId[t], req[t].digest)}
       ELSE {VersionEvent(newId[t], req[t].digest), SourceEvent(newId[t], req[t].digest)}
  ELSE IF HoldsRow(t) THEN {RowEvent(req[t])} ELSE {}

TxInv(t) ==
  /\ phase[t] \in {"resolve", "version", "source"} => req[t].op = "register"
  /\ phase[t] = "row" => req[t].op # "register"
  /\ phase[t] # "idle" => Accepts(req[t])
  /\ Registering(t) => /\ MayRegister(req[t])
                       /\ versions[newId[t]] = NoRow /\ sources[newId[t]] = NoRow
  /\ HoldsVersion(t) => \A v \in Versions :
                          versions[v] # NoRow => ~SameVersion(versions[v], req[t])
  /\ HoldsRow(t) => HasParent(req[t]) /\ \A p \in rows : ~SameRow(p, req[t])
  /\ events[t] = Recorded(t)

PairInv(t, u) ==
  /\ newId[t] # NoVersion => newId[t] # newId[u]
  /\ HoldsVersion(t) /\ HoldsVersion(u) => ~SameVersion(req[t], req[u])
  /\ HoldsRow(t) /\ HoldsRow(u) => ~SameRow(req[t], req[u])

\* A stored row keeps the parent it was selected with.
RowInv(r) ==
  /\ r.op # "register" /\ Accepts(r)
  /\ r.version \in Versions /\ versions[r.version] # NoRow
  /\ HasParent(r)
  /\ \A p \in rows : SameRow(p, r) => p = r

VersionInv(v) ==
  /\ versions[v] = sources[v]
  /\ versions[v] # NoRow => /\ versions[v].op = "register"
                            /\ Accepts(versions[v]) /\ MayRegister(versions[v])

TablesInv ==
  /\ \A v \in Versions : VersionInv(v)
  /\ \A r \in rows : RowInv(r)
  /\ IdentitiesAreUnique
  /\ AuditTellsTheTables

\* The open transactions and nothing else have recorded events.
EventsInv == events = [t \in Txs |-> events[t]]

IInv ==
  /\ TypeOK
  /\ EventsInv
  /\ \A t \in Txs : TxInv(t)
  /\ \A t, u \in Txs : t # u => PairInv(t, u)
  /\ TablesInv
  /\ DatabaseAgreesWithDomain

-----------------------------------------------------------------------------

\* The domain and the CHECK constraints of artifact_versions admit the same
\* combinations of kind, class and delivery model (validCombination and
\* migration 000005).
THEOREM CombinationsAgree ==
  ASSUME NEW kind \in Kinds, NEW class, NEW delivery
  PROVE  ValidCombination(kind, class, delivery) <=> SqlCombination(kind, class, delivery)
<1>1. CASE delivery = "imported-source"
  BY <1>1 DEF ValidCombination, SqlCombination, ValidKindClass, Kinds
<1>2. CASE delivery # "imported-source"
  BY <1>2 DEF ValidCombination, SqlCombination, ValidKindClass, Kinds
<1> QED BY <1>1, <1>2

\* A source that fits its version passes the constraints of artifact_sources
\* unless its endpoint is spelled in a way only Go accepts.
LEMMA SourcesAgree ==
  ASSUME NEW s, NEW delivery, ValidSource(s), SourceMatchesDelivery(s.kind, delivery),
         s.endpoint # "odd https"
  PROVE  SqlSource(s, delivery)
BY DEF ValidSource, SourceMatchesDelivery, SqlSource

\* A descriptor that the domain accepts for its version, a requirement and a
\* dependency that the domain accepts pass the constraints of their tables unless
\* they are written in a way only Go accepts.
LEMMA DescriptorsAgree ==
  ASSUME NEW doc, ValidDescriptor(doc), doc.keys = "exact"
  PROVE  SqlDescriptor(doc, doc.artifact, doc.semver, doc.kind)
BY DEF ValidDescriptor, SqlDescriptor

LEMMA RequirementsAgree ==
  ASSUME NEW doc, ValidRequirement(doc)
  PROVE  SqlRequirement(doc)
BY DEF ValidRequirement, ValidIntegrations, SqlRequirement

LEMMA DependenciesAgree ==
  ASSUME NEW index \in Nat, NEW doc, ValidDependency(index, doc), doc.keys = "exact"
  PROVE  SqlDependency(index, doc)
<1>1. index \in 0 .. MaxDependencies - 1
  <2>1. index < MaxDependencies /\ MaxDependencies \in Nat
    BY RulesAssumption, Zenon DEF ValidDependency
  <2>. QED  BY <2>1
<1>2. /\ doc.selector.kind \in {"digest", "version", "range"}
      /\ doc.selector.value # "out of bounds"
      /\ doc.selector.kind # "range" => doc.selector.value = "parses"
      /\ doc.selector.kind = "range" => doc.selector.value \notin {"latest", "*"}
  <2>1. ValidSelector(doc.selector)
    BY DEF ValidDependency
  <2>. QED  BY <2>1 DEF ValidSelector
<1>. QED  BY <1>1, <1>2 DEF ValidDependency, SqlDependency

\* A selected row that the domain accepted is refused only for its spelling.
LEMMA RowsPass ==
  ASSUME NEW r \in Requests, r.op # "register", Accepts(r), HasParent(r), ~SqlRow(r)
  PROVE  OnlyGoAccepts(r)
<1> SUFFICES ASSUME r.doc.jsonb # "unstorable", r.op \in {"describe", "depend"} => r.doc.keys # "folded"
             PROVE  FALSE
  BY DEF OnlyGoAccepts
<1>0. r.doc.jsonb = "storable" /\ (r.op \in {"describe", "depend"} => r.doc.keys = "exact")
  BY RegistrationAssumption
<1>1. CASE r.op = "describe"
  <2>1. /\ r.doc.artifact = versions[r.version].artifact
        /\ r.doc.semver = versions[r.version].semver
        /\ r.doc.kind = ArtifactKind[versions[r.version].artifact]
    BY <1>1 DEF HasParent
  <2>2. ValidDescriptor(r.doc)
    BY <1>1 DEF Accepts
  <2>. QED  BY <1>0, <1>1, <2>1, <2>2, DescriptorsAgree DEF SqlRow
<1>2. CASE r.op = "require"
  BY <1>0, <1>2, RequirementsAgree DEF Accepts, SqlRow
<1>3. CASE r.op = "depend"
  BY <1>0, <1>3, DependenciesAgree, RegistrationAssumption DEF Accepts, SqlRow
<1>. QED  BY <1>1, <1>2, <1>3 DEF Accepts

\* The entries of two rows overlap in both directions.
LEMMA OverlapIsSymmetric ==
  /\ \A p, q : SameVersion(p, q) => SameVersion(q, p)
  /\ \A p, q : SameRow(p, q) => SameRow(q, p)
BY DEF SameVersion, SameRow

\* The parent of a row is a committed version.
LEMMA ParentIsCommitted ==
  ASSUME TablesInv, NEW r, HasParent(r)
  PROVE  r.version \in Versions /\ versions[r.version] # NoRow
BY DEF TablesInv, HasParent, GetDescriptor, RowInv

-----------------------------------------------------------------------------
(* Steps that leave the tables alone *)

\* A step of one transaction that writes no table preserves the invariant when
\* it preserves what is said of that transaction.
LEMMA LocalStep ==
  ASSUME IInv, UNCHANGED tables, NEW t \in Txs, TypeOK', EventsInv',
         \A u \in Txs \ {t} : /\ phase'[u] = phase[u] /\ req'[u] = req[u]
                              /\ newId'[u] = newId[u] /\ events'[u] = events[u],
         TxInv(t)', \A u \in Txs \ {t} : PairInv(t, u)',
         DatabaseAgreesWithDomain'
  PROVE  IInv'
<1>1. ASSUME NEW u \in Txs \ {t} PROVE TxInv(u)'
  <2>1. UNCHANGED <<versions, sources, rows>>
    BY DEF tables
  <2>2. HasParent(req[u]) => HasParent(req[u])'
    BY <2>1 DEF HasParent, GetDescriptor
  <2>3. Recorded(u)' = Recorded(u)
    BY <2>1 DEF Recorded, HoldsVersion, HoldsRow, RowEvent
  <2>4. TxInv(u)
    BY DEF IInv
  <2> QED BY <2>1, <2>2, <2>3, <2>4 DEF TxInv, Registering, HoldsVersion, HoldsRow, Accepts, MayRegister
<1>2. ASSUME NEW u \in Txs \ {t} PROVE PairInv(u, t)'
  <2>1. PairInv(t, u)'
    OBVIOUS
  <2> QED BY <2>1, OverlapIsSymmetric DEF PairInv, HoldsVersion, HoldsRow
<1>3. ASSUME NEW u \in Txs \ {t}, NEW w \in Txs \ {t}, u # w PROVE PairInv(u, w)'
  BY <1>3 DEF IInv, PairInv, HoldsVersion, HoldsRow
<1>4. TablesInv'
  BY DEF IInv, TablesInv, tables, VersionInv, RowInv, HasParent, GetDescriptor,
         IdentitiesAreUnique, AuditTellsTheTables, RowEvent
<1> QED BY <1>1, <1>2, <1>3, <1>4 DEF IInv

\* A transaction that ends without a commit leaves nothing behind.
LEMMA EndStep ==
  ASSUME IInv, UNCHANGED tables, NEW t \in Txs, End(t), refused' \subseteq Requests,
         DatabaseAgreesWithDomain'
  PROVE  IInv'
<1> USE RegistrationAssumption
<1>1. TypeOK'
  BY DEF IInv, TypeOK, End, Goto, tables, Phases
<1>2. TxInv(t)'
  BY DEF IInv, TypeOK, EventsInv, TxInv, End, Goto, Registering, HoldsVersion, HoldsRow, Recorded
<1>3. \A u \in Txs \ {t} : PairInv(t, u)'
  BY DEF IInv, TypeOK, PairInv, End, Goto, HoldsVersion, HoldsRow
<1>4. \A u \in Txs \ {t} : /\ phase'[u] = phase[u] /\ req'[u] = req[u]
                           /\ newId'[u] = newId[u] /\ events'[u] = events[u]
  BY DEF IInv, TypeOK, EventsInv, End, Goto
<1>5. EventsInv'
  BY DEF IInv, EventsInv, End
<1> QED BY <1>1, <1>2, <1>3, <1>4, <1>5, LocalStep

\* An error that is no constraint's ends the transaction.
LEMMA RejectStep ==
  ASSUME IInv, UNCHANGED tables, NEW t \in Txs, Reject(t)
  PROVE  IInv'
BY EndStep DEF Reject, IInv, TypeOK, DatabaseAgreesWithDomain

\* A constraint of the database refuses only what is written as Go alone accepts it.
LEMMA RefuseStep ==
  ASSUME IInv, UNCHANGED tables, NEW t \in Txs, phase[t] # "idle", Refuse(t),
         OnlyGoAccepts(req[t])
  PROVE  IInv'
<1>1. req[t] \in Requests
  BY RegistrationAssumption DEF IInv, TypeOK
<1> QED BY <1>1, EndStep DEF Refuse, IInv, TypeOK, DatabaseAgreesWithDomain

LEMMA ReceiveStep ==
  ASSUME IInv, NEW t \in Txs, NEW r \in Requests, Receive(t, r)
  PROVE  IInv'
<1> USE RegistrationAssumption DEF Receive, Goto
<1>1. TypeOK'
  BY DEF IInv, TypeOK, tables, Phases
<1>2. TxInv(t)'
  BY DEF IInv, TypeOK, TxInv, Registering, HoldsVersion, HoldsRow, Recorded, Accepts
<1>3. \A u \in Txs \ {t} : PairInv(t, u)'
  BY DEF IInv, TypeOK, PairInv, HoldsVersion, HoldsRow
<1>4. \A u \in Txs \ {t} : /\ phase'[u] = phase[u] /\ req'[u] = req[u]
                           /\ newId'[u] = newId[u] /\ events'[u] = events[u]
  BY DEF IInv, TypeOK
<1>5. DatabaseAgreesWithDomain'
  BY DEF IInv, DatabaseAgreesWithDomain
<1>6. EventsInv'
  BY DEF IInv, EventsInv
<1> QED BY <1>1, <1>2, <1>3, <1>4, <1>5, <1>6, LocalStep DEF tables

LEMMA ResolveStep ==
  ASSUME IInv, NEW t \in Txs, Resolve(t)
  PROVE  IInv'
<1> USE RegistrationAssumption
<1>1. CASE ~MayRegister(req[t]) /\ End(t)
  BY <1>1, RejectStep DEF Resolve, Reject
<1>2. CASE MayRegister(req[t]) /\ \E v \in Versions :
                                    /\ Unused(v)
                                    /\ newId' = [newId EXCEPT ![t] = v]
                                    /\ Goto(t, "version")
                                    /\ UNCHANGED <<req, events>>
  <2>1. PICK v \in Versions : /\ Unused(v)
                              /\ newId' = [newId EXCEPT ![t] = v]
                              /\ Goto(t, "version")
                              /\ UNCHANGED <<req, events>>
    BY <1>2
  <2>2. phase[t] = "resolve" /\ UNCHANGED tables /\ refused' = {} /\ req[t].op = "register"
    BY DEF Resolve, IInv, TxInv
  <2>3. TypeOK'
    BY <2>1, <2>2 DEF IInv, TypeOK, Goto, tables, Phases
  <2>4. sources[v] = NoRow /\ versions[v] = NoRow
    BY <2>1 DEF IInv, TablesInv, VersionInv, Unused
  <2>5. TxInv(t)'
    BY <1>2, <2>1, <2>2, <2>4
       DEF IInv, TypeOK, TxInv, Goto, tables, Registering, HoldsVersion, HoldsRow, Recorded,
           Accepts, MayRegister
  <2>6. \A u \in Txs \ {t} : PairInv(t, u)'
    BY <2>1, <2>2 DEF IInv, TypeOK, PairInv, Goto, Unused, HoldsVersion, HoldsRow
  <2>7. \A u \in Txs \ {t} : /\ phase'[u] = phase[u] /\ req'[u] = req[u]
                             /\ newId'[u] = newId[u] /\ events'[u] = events[u]
    BY <2>1 DEF IInv, TypeOK, Goto
  <2>8. DatabaseAgreesWithDomain'
    BY <2>2 DEF IInv, DatabaseAgreesWithDomain
  <2>9. EventsInv'
    BY <2>1 DEF IInv, EventsInv
  <2> QED BY <2>2, <2>3, <2>5, <2>6, <2>7, <2>8, <2>9, LocalStep
<1> QED BY <1>1, <1>2 DEF Resolve

LEMMA InsertVersionStep ==
  ASSUME IInv, NEW t \in Txs, InsertVersion(t)
  PROVE  IInv'
<1> USE RegistrationAssumption
<1>1. /\ phase[t] = "version" /\ UNCHANGED tables /\ VersionHolders(t) = {}
      /\ req[t].op = "register" /\ MayRegister(req[t])
  BY DEF InsertVersion, IInv, TxInv, Registering
<1>2. SqlCombination(ArtifactKind[req[t].artifact], req[t].class, req[t].delivery)
  <2>1. ArtifactKind[req[t].artifact] \in Kinds
    BY <1>1 DEF MayRegister
  <2> QED BY <1>1, <2>1, CombinationsAgree DEF MayRegister
<1>3. CASE Reject(t)
  BY <1>1, <1>3, RejectStep
<1>4. CASE /\ ~\E v \in Versions : versions[v] # NoRow /\ SameVersion(versions[v], req[t])
           /\ Goto(t, "source")
           /\ events' = [events EXCEPT ![t] = @ \cup {VersionEvent(newId[t], req[t].digest)}]
           /\ refused' = {}
           /\ UNCHANGED <<req, newId>>
  <2>1. TypeOK'
    BY <1>1, <1>4 DEF IInv, TypeOK, Goto, tables, Phases
  <2>2. events[t] = {}
    BY <1>1 DEF IInv, TxInv, Recorded, HoldsVersion, HoldsRow
  <2>3. events'[t] = {VersionEvent(newId[t], req[t].digest)} /\ EventsInv'
    BY <1>4, <2>2 DEF IInv, EventsInv
  <2>6. TxInv(t)'
    BY <1>1, <1>4, <2>3
       DEF IInv, TypeOK, TxInv, Goto, tables, Registering, HoldsVersion, HoldsRow, Recorded,
           Accepts, MayRegister, VersionEvent
  <2>7. \A u \in Txs \ {t} : PairInv(t, u)'
    BY <1>1, <1>4, OverlapIsSymmetric
       DEF IInv, TypeOK, PairInv, Goto, VersionHolders, HoldsVersion, HoldsRow
  <2>8. \A u \in Txs \ {t} : /\ phase'[u] = phase[u] /\ req'[u] = req[u]
                             /\ newId'[u] = newId[u] /\ events'[u] = events[u]
    BY <1>4 DEF IInv, TypeOK, EventsInv, Goto
  <2>9. DatabaseAgreesWithDomain'
    BY <1>4 DEF IInv, DatabaseAgreesWithDomain
  <2> QED BY <1>1, <2>1, <2>3, <2>6, <2>7, <2>8, <2>9, LocalStep
<1> QED BY <1>2, <1>3, <1>4 DEF InsertVersion

LEMMA InsertSourceStep ==
  ASSUME IInv, NEW t \in Txs, InsertSource(t)
  PROVE  IInv'
<1> USE RegistrationAssumption
<1>1. /\ phase[t] = "source" /\ UNCHANGED tables
      /\ req[t].op = "register" /\ MayRegister(req[t]) /\ Accepts(req[t])
  BY DEF InsertSource, IInv, TxInv, Registering
<1>2. CASE ~SqlSource(req[t].source, req[t].delivery) /\ Refuse(t)
  <2>1. ValidSource(req[t].source) /\ SourceMatchesDelivery(req[t].source.kind, req[t].delivery)
    BY <1>1 DEF MayRegister, Accepts
  <2>2. OnlyGoAccepts(req[t])
    BY <1>1, <1>2, <2>1, SourcesAgree DEF OnlyGoAccepts
  <2> QED BY <1>1, <1>2, <2>2, RefuseStep
<1>3. CASE /\ Goto(t, "commit")
           /\ events' = [events EXCEPT ![t] = @ \cup {SourceEvent(newId[t], req[t].digest)}]
           /\ refused' = {}
           /\ UNCHANGED <<req, newId>>
  <2>1. TypeOK'
    BY <1>1, <1>3 DEF IInv, TypeOK, Goto, tables, Phases
  <2>2. events[t] = {VersionEvent(newId[t], req[t].digest)}
    BY <1>1 DEF IInv, TxInv, Recorded, HoldsVersion, HoldsRow
  <2>3. /\ events'[t] = {VersionEvent(newId[t], req[t].digest), SourceEvent(newId[t], req[t].digest)}
        /\ EventsInv'
    BY <1>3, <2>2 DEF IInv, EventsInv
  <2>4. phase'[t] = "commit" /\ req'[t] = req[t] /\ newId'[t] = newId[t]
    BY <1>3 DEF IInv, TypeOK, Goto
  <2>5. Recorded(t)' = events'[t]
    BY <1>1, <2>3, <2>4 DEF Recorded, HoldsVersion, VersionEvent, SourceEvent
  <2>6. TxInv(t)'
    BY <1>1, <2>4, <2>5
       DEF IInv, TxInv, tables, Registering, HoldsVersion, HoldsRow, Accepts, MayRegister
  <2>7. \A u \in Txs \ {t} : PairInv(t, u)'
    BY <1>1, <1>3 DEF IInv, TypeOK, PairInv, Goto, HoldsVersion, HoldsRow
  <2>8. \A u \in Txs \ {t} : /\ phase'[u] = phase[u] /\ req'[u] = req[u]
                             /\ newId'[u] = newId[u] /\ events'[u] = events[u]
    BY <1>3 DEF IInv, TypeOK, EventsInv, Goto
  <2>9. DatabaseAgreesWithDomain'
    BY <1>3 DEF IInv, DatabaseAgreesWithDomain
  <2> QED BY <1>1, <2>1, <2>3, <2>6, <2>7, <2>8, <2>9, LocalStep
<1> QED BY <1>2, <1>3 DEF InsertSource

LEMMA InsertRowStep ==
  ASSUME IInv, NEW t \in Txs, InsertRow(t)
  PROVE  IInv'
<1> USE RegistrationAssumption
<1>1. /\ phase[t] = "row" /\ UNCHANGED tables /\ req[t].op # "register" /\ Accepts(req[t])
      /\ req[t] \in Requests
  BY DEF InsertRow, IInv, TypeOK, TxInv
<1>2. CASE Reject(t)
  BY <1>1, <1>2, RejectStep
<1>3. CASE /\ HasParent(req[t]) /\ RowHolders(t) = {} /\ ~\E p \in rows : SameRow(p, req[t])
           /\ Goto(t, "commit")
           /\ events' = [events EXCEPT ![t] = {RowEvent(req[t])}]
           /\ refused' = {}
           /\ UNCHANGED <<req, newId>>
  <2>1. TypeOK'
    BY <1>1, <1>3 DEF IInv, TypeOK, Goto, tables, Phases
  <2>2. events'[t] = {RowEvent(req[t])} /\ EventsInv'
    BY <1>3 DEF IInv, EventsInv
  <2>3. phase'[t] = "commit" /\ req'[t] = req[t] /\ newId'[t] = newId[t]
    BY <1>3 DEF IInv, TypeOK, Goto
  <2>4. Recorded(t)' = events'[t]
    BY <1>1, <2>2, <2>3 DEF Recorded, HoldsVersion, HoldsRow, RowEvent, tables
  <2>5. HasParent(req[t])'
    BY <1>1, <1>3, <2>3 DEF HasParent, GetDescriptor, tables
  <2>6. TxInv(t)'
    BY <1>1, <1>3, <2>3, <2>4, <2>5
       DEF IInv, TxInv, tables, Registering, HoldsVersion, HoldsRow, Accepts
  <2>7. \A u \in Txs \ {t} : PairInv(t, u)'
    BY <1>1, <1>3, OverlapIsSymmetric
       DEF IInv, TypeOK, PairInv, Goto, RowHolders, HoldsVersion, HoldsRow
  <2>8. \A u \in Txs \ {t} : /\ phase'[u] = phase[u] /\ req'[u] = req[u]
                             /\ newId'[u] = newId[u] /\ events'[u] = events[u]
    BY <1>3 DEF IInv, TypeOK, EventsInv, Goto
  <2>9. DatabaseAgreesWithDomain'
    BY <1>3 DEF IInv, DatabaseAgreesWithDomain
  <2> QED BY <1>1, <2>1, <2>2, <2>6, <2>7, <2>8, <2>9, LocalStep
<1>4. CASE req[t].doc.jsonb = "unstorable" /\ Refuse(t)
  <2>1. OnlyGoAccepts(req[t])
    BY <1>1, <1>4 DEF OnlyGoAccepts
  <2> QED BY <1>1, <1>4, <2>1, RefuseStep
<1>5. CASE HasParent(req[t]) /\ ~SqlRow(req[t]) /\ Refuse(t)
  <2>1. OnlyGoAccepts(req[t])
    BY <1>1, <1>5, RowsPass
  <2> QED BY <1>1, <1>5, <2>1, RefuseStep
<1> QED BY <1>2, <1>3, <1>4, <1>5 DEF InsertRow

-----------------------------------------------------------------------------
(* Commit *)

\* The deferred triggers find the events of every row.
LEMMA TriggersFindTheirEvents ==
  ASSUME IInv, NEW t \in Txs, phase[t] = "commit"
  PROVE  RequiredEvents(t) = events[t]
BY DEF IInv, TxInv, Recorded, RequiredEvents, HoldsVersion, HoldsRow

\* Commit of a registration.
LEMMA CommitVersion ==
  ASSUME IInv, NEW t \in Txs, phase[t] = "commit", req[t].op = "register",
         audit' = audit \cup events[t], Reject(t),
         versions' = [versions EXCEPT ![newId[t]] = req[t]],
         sources' = [sources EXCEPT ![newId[t]] = req[t]], rows' = rows
  PROVE  IInv'
<1> USE RegistrationAssumption
<1> DEFINE v == newId[t]
           r == req[t]
<1>1. /\ v \in Versions /\ r \in Requests /\ v # NoVersion
      /\ versions[v] = NoRow /\ sources[v] = NoRow /\ MayRegister(r) /\ Accepts(r)
      /\ \A w \in Versions : versions[w] # NoRow => ~SameVersion(versions[w], r)
  BY DEF IInv, TypeOK, TxInv, Registering, HoldsVersion
<1>2. /\ versions'[v] = r /\ sources'[v] = r
      /\ \A w \in Versions \ {v} : versions'[w] = versions[w] /\ sources'[w] = sources[w]
  BY <1>1 DEF IInv, TypeOK
<1>3. TypeOK'
  BY <1>1 DEF IInv, TypeOK, Reject, End, Goto, Phases
<1>4. EventsInv' /\ \A u \in Txs \ {t} : /\ phase'[u] = phase[u] /\ req'[u] = req[u]
                                         /\ newId'[u] = newId[u] /\ events'[u] = events[u]
  BY DEF IInv, TypeOK, EventsInv, Reject, End, Goto
<1>5. phase'[t] = "idle" /\ newId'[t] = NoVersion /\ events'[t] = {}
  BY DEF IInv, TypeOK, EventsInv, Reject, End, Goto
<1>6. ASSUME NEW q, q.version \in Versions, versions[q.version] # NoRow
      PROVE  RowEvent(q)' = RowEvent(q)
  BY <1>1, <1>2, <1>6 DEF RowEvent
<1>7. ASSUME NEW q, HasParent(q) PROVE HasParent(q)' /\ RowEvent(q)' = RowEvent(q)
  <2>1. q.version \in Versions /\ versions[q.version] # NoRow
    BY <1>7, ParentIsCommitted DEF IInv
  <2>2. versions'[q.version] = versions[q.version]
    BY <1>1, <1>2, <2>1
  <2> QED BY <1>6, <1>7, <2>1, <2>2 DEF HasParent, GetDescriptor
<1>8. ASSUME NEW u \in Txs PROVE TxInv(u)'
  <2>1. CASE u = t
    BY <1>5, <2>1 DEF TxInv, Registering, HoldsVersion, HoldsRow, Recorded
  <2>2. CASE u # t
    <3>1. TxInv(u) /\ PairInv(u, t) /\ PairInv(t, u)
      BY <2>2 DEF IInv
    <3>2. /\ phase'[u] = phase[u] /\ req'[u] = req[u]
          /\ newId'[u] = newId[u] /\ events'[u] = events[u]
      BY <1>4, <2>2
    <3>3. Recorded(u)' = Recorded(u)
      BY <1>7, <3>1, <3>2 DEF TxInv, Recorded, HoldsVersion, HoldsRow
    <3>4. HoldsRow(u)' => HasParent(req[u])' /\ \A p \in rows' : ~SameRow(p, req'[u])
      BY <1>7, <3>1, <3>2 DEF TxInv, HoldsRow, HasParent, GetDescriptor
    <3>5. Registering(u)' => /\ MayRegister(req'[u])
                             /\ versions'[newId'[u]] = NoRow /\ sources'[newId'[u]] = NoRow
      <4>1. SUFFICES ASSUME Registering(u) PROVE versions'[newId[u]] = NoRow /\ sources'[newId[u]] = NoRow
        BY <3>1, <3>2 DEF TxInv, Registering
      <4>2. newId[u] # v /\ newId[u] \in Versions
        BY <1>1, <3>1, <4>1 DEF PairInv, IInv, TypeOK, Registering
      <4> QED BY <1>2, <3>1, <4>1, <4>2 DEF TxInv
    <3>6. HoldsVersion(u)' => \A w \in Versions :
                                versions'[w] # NoRow => ~SameVersion(versions'[w], req'[u])
      BY <1>1, <1>2, <3>1, <3>2 DEF TxInv, PairInv, HoldsVersion
    <3> QED BY <3>1, <3>2, <3>3, <3>4, <3>5, <3>6 DEF TxInv, Accepts, MayRegister
  <2> QED BY <2>1, <2>2
<1>9. ASSUME NEW u \in Txs, NEW w \in Txs, u # w PROVE PairInv(u, w)'
  BY <1>4, <1>5, <1>9 DEF IInv, TypeOK, PairInv, HoldsVersion, HoldsRow
<1>10. \A w \in Versions : VersionInv(w)'
  BY <1>1, <1>2 DEF IInv, TablesInv, VersionInv, Accepts, MayRegister
<1>11. ASSUME NEW q \in rows PROVE RowInv(q)'
  <2>1. RowInv(q)
    BY DEF IInv, TablesInv
  <2> QED BY <1>1, <1>2, <1>7, <2>1 DEF RowInv, Accepts
<1>12. IdentitiesAreUnique'
  BY <1>1, <1>2 DEF IInv, TablesInv, IdentitiesAreUnique, SameVersion
<1>13. AuditTellsTheTables'
  <2> DEFINE Committed == {w \in Versions : versions[w] # NoRow}
  <2>1. /\ events[t] = {VersionEvent(v, r.digest), SourceEvent(v, r.digest)}
        /\ \A w \in Versions : versions[w] = sources[w] /\ versions'[w] = sources'[w]
    BY <1>10, TriggersFindTheirEvents DEF RequiredEvents, IInv, TablesInv, VersionInv
  <2>2. {w \in Versions : versions'[w] # NoRow} = Committed \cup {v}
    BY <1>1, <1>2
  <2>3. /\ {w \in Versions : sources'[w] # NoRow} = Committed \cup {v}
        /\ {w \in Versions : sources[w] # NoRow} = Committed
    BY <2>1, <2>2
  <2>4. v \notin Committed /\ \A w \in Committed : versions'[w] = versions[w]
    BY <1>1, <1>2
  <2>5. {VersionEvent(w, versions'[w].digest) : w \in Committed \cup {v}}
          = {VersionEvent(w, versions[w].digest) : w \in Committed} \cup {VersionEvent(v, r.digest)}
    <3> HIDE DEF Committed, v, r
    <3> QED BY <1>2, <2>4
  <2>6. {SourceEvent(w, versions'[w].digest) : w \in Committed \cup {v}}
          = {SourceEvent(w, versions[w].digest) : w \in Committed} \cup {SourceEvent(v, r.digest)}
    <3> HIDE DEF Committed, v, r
    <3> QED BY <1>2, <2>4
  <2>7. {RowEvent(q)' : q \in rows} = {RowEvent(q) : q \in rows}
    <3>1. \A q \in rows : RowEvent(q)' = RowEvent(q)
      BY <1>7 DEF IInv, TablesInv, RowInv
    <3> QED BY <3>1
  <2>8. audit = {VersionEvent(w, versions[w].digest) : w \in Committed}
           \cup {SourceEvent(w, versions[w].digest) : w \in Committed}
           \cup {RowEvent(q) : q \in rows}
    BY <2>3 DEF IInv, TablesInv, AuditTellsTheTables
  <2>9. AuditTellsTheTables' <=>
          audit' = {VersionEvent(w, versions'[w].digest) : w \in Committed \cup {v}}
             \cup {SourceEvent(w, versions'[w].digest) : w \in Committed \cup {v}}
             \cup {RowEvent(q)' : q \in rows}
    BY <2>2, <2>3 DEF AuditTellsTheTables
  <2> HIDE DEF Committed, v, r
  <2> QED BY <2>1, <2>5, <2>6, <2>7, <2>8, <2>9
<1>14. DatabaseAgreesWithDomain'
  BY DEF Reject, IInv, DatabaseAgreesWithDomain
<1> QED BY <1>3, <1>4, <1>8, <1>9, <1>10, <1>11, <1>12, <1>13, <1>14 DEF IInv, TablesInv

\* Commit of a descriptor, requirement or dependency.
LEMMA CommitRow ==
  ASSUME IInv, NEW t \in Txs, phase[t] = "commit", req[t].op # "register",
         audit' = audit \cup events[t], Reject(t),
         UNCHANGED <<versions, sources>>, rows' = rows \cup {req[t]}
  PROVE  IInv'
<1> USE RegistrationAssumption
<1> DEFINE r == req[t]
<1>1. r \in Requests /\ Accepts(r) /\ HasParent(r) /\ \A p \in rows : ~SameRow(p, r)
  BY DEF IInv, TypeOK, TxInv, HoldsRow
<1>2. TypeOK'
  BY <1>1 DEF IInv, TypeOK, Reject, End, Goto, Phases
<1>3. EventsInv' /\ \A u \in Txs \ {t} : /\ phase'[u] = phase[u] /\ req'[u] = req[u]
                                         /\ newId'[u] = newId[u] /\ events'[u] = events[u]
  BY DEF IInv, TypeOK, EventsInv, Reject, End, Goto
<1>4. phase'[t] = "idle" /\ newId'[t] = NoVersion /\ events'[t] = {}
  BY DEF IInv, TypeOK, EventsInv, Reject, End, Goto
<1>5. \A q : RowEvent(q)' = RowEvent(q)
  BY DEF RowEvent
<1>6. ASSUME NEW q, HasParent(q) PROVE HasParent(q)'
  BY <1>6 DEF HasParent, GetDescriptor
<1>7. ASSUME NEW u \in Txs PROVE TxInv(u)'
  <2>1. CASE u = t
    BY <1>4, <2>1 DEF TxInv, Registering, HoldsVersion, HoldsRow, Recorded
  <2>2. CASE u # t
    <3>1. TxInv(u) /\ PairInv(t, u)
      BY <2>2 DEF IInv
    <3>2. /\ phase'[u] = phase[u] /\ req'[u] = req[u]
          /\ newId'[u] = newId[u] /\ events'[u] = events[u]
      BY <1>3, <2>2
    <3>3. Recorded(u)' = Recorded(u)
      BY <1>5, <3>2 DEF Recorded, HoldsVersion, HoldsRow
    <3>4. HoldsRow(u)' => HasParent(req[u])' /\ \A p \in rows' : ~SameRow(p, req'[u])
      <4>1. SUFFICES ASSUME HoldsRow(u)
                     PROVE  HasParent(req[u])' /\ \A p \in rows' : ~SameRow(p, req[u])
        BY <3>2 DEF HoldsRow
      <4>2. HasParent(req[u]) /\ (\A p \in rows : ~SameRow(p, req[u])) /\ ~SameRow(r, req[u])
        BY <3>1, <4>1 DEF TxInv, PairInv, HoldsRow
      <4>3. HasParent(req[u])'
        <5>1. \A v : GetDescriptor(v) \subseteq GetDescriptor(v)'
          BY DEF GetDescriptor
        <5>2. CASE req[u].op = "describe"
          BY <3>2, <4>2, <5>2 DEF HasParent
        <5>3. CASE req[u].op = "require"
          BY <3>2, <4>2, <5>1, <5>3 DEF HasParent
        <5>4. CASE req[u].op = "depend"
          BY <3>2, <4>2, <5>1, <5>4 DEF HasParent
        <5> QED BY <4>2, <5>2, <5>3, <5>4 DEF HasParent
      <4>4. \A p \in rows' : ~SameRow(p, req[u])
        BY <4>2
      <4> QED BY <4>3, <4>4
    <3> QED BY <3>1, <3>2, <3>3, <3>4
            DEF TxInv, Accepts, MayRegister, Registering, HoldsVersion
  <2> QED BY <2>1, <2>2
<1>8. ASSUME NEW u \in Txs, NEW w \in Txs, u # w PROVE PairInv(u, w)'
  BY <1>3, <1>4, <1>8 DEF IInv, TypeOK, PairInv, HoldsVersion, HoldsRow
<1>9. \A w \in Versions : VersionInv(w)'
  BY DEF IInv, TablesInv, VersionInv, Accepts, MayRegister
<1>10. ASSUME NEW q \in rows' PROVE RowInv(q)'
  <2>1. q.op # "register" /\ Accepts(q) /\ HasParent(q)
    BY <1>1 DEF IInv, TablesInv, RowInv
  <2>2. q.version \in Versions /\ versions[q.version] # NoRow
    BY <2>1, ParentIsCommitted DEF IInv
  <2>3. \A p \in rows' : SameRow(p, q) => p = q
    BY <1>1, OverlapIsSymmetric DEF IInv, TablesInv, RowInv
  <2>4. HasParent(q)'
    BY <1>6, <2>1
  <2> QED BY <2>1, <2>2, <2>3, <2>4 DEF RowInv, Accepts
<1>11. IdentitiesAreUnique'
  BY DEF IInv, TablesInv, IdentitiesAreUnique
<1>12. AuditTellsTheTables'
  <2>1. events[t] = {RowEvent(r)}
    BY TriggersFindTheirEvents DEF RequiredEvents
  <2>2. {RowEvent(q)' : q \in rows'} = {RowEvent(q) : q \in rows} \cup {RowEvent(r)}
    BY <1>5
  <2>3. AuditTellsTheTables' <=>
          audit' = {VersionEvent(w, versions[w].digest) : w \in {x \in Versions : versions[x] # NoRow}}
             \cup {SourceEvent(w, versions[w].digest) : w \in {x \in Versions : sources[x] # NoRow}}
             \cup {RowEvent(q)' : q \in rows'}
    BY DEF AuditTellsTheTables
  <2>4. audit = {VersionEvent(w, versions[w].digest) : w \in {x \in Versions : versions[x] # NoRow}}
           \cup {SourceEvent(w, versions[w].digest) : w \in {x \in Versions : sources[x] # NoRow}}
           \cup {RowEvent(q) : q \in rows}
    BY DEF IInv, TablesInv, AuditTellsTheTables
  <2> QED BY <2>1, <2>2, <2>3, <2>4
<1>13. DatabaseAgreesWithDomain'
  BY DEF Reject, IInv, DatabaseAgreesWithDomain
<1> QED BY <1>2, <1>3, <1>7, <1>8, <1>9, <1>10, <1>11, <1>12, <1>13 DEF IInv, TablesInv

LEMMA CommitStep ==
  ASSUME IInv, NEW t \in Txs, Commit(t)
  PROVE  IInv'
<1>1. RequiredEvents(t) \subseteq events[t] /\ phase[t] = "commit"
  BY TriggersFindTheirEvents DEF Commit
<1>2. CASE req[t].op = "register"
  BY <1>1, <1>2, CommitVersion DEF Commit
<1>3. CASE req[t].op # "register"
  BY <1>1, <1>3, CommitRow DEF Commit
<1> QED BY <1>2, <1>3

-----------------------------------------------------------------------------
(* Theorems *)

LEMMA InitEstablishesIInv == Init => IInv
<1> SUFFICES ASSUME Init PROVE IInv
  OBVIOUS
<1> USE RegistrationAssumption DEF Init
<1>1. TypeOK
  BY DEF TypeOK, Phases
<1>2. EventsInv /\ \A t \in Txs : TxInv(t)
  BY DEF EventsInv, TxInv, Registering, HoldsVersion, HoldsRow, Recorded
<1>3. \A t, u \in Txs : t # u => PairInv(t, u)
  BY DEF PairInv, HoldsVersion, HoldsRow
<1>4. TablesInv
  BY DEF TablesInv, VersionInv, RowInv, IdentitiesAreUnique, AuditTellsTheTables
<1> QED BY <1>1, <1>2, <1>3, <1>4 DEF IInv, DatabaseAgreesWithDomain

LEMMA NextPreservesIInv == IInv /\ [Next]_vars => IInv'
<1> SUFFICES ASSUME IInv, [Next]_vars PROVE IInv'
  OBVIOUS
<1>1. CASE UNCHANGED vars
  <2>1. \A q : HasParent(q)' = HasParent(q) /\ RowEvent(q)' = RowEvent(q)
    BY <1>1 DEF vars, HasParent, GetDescriptor, RowEvent
  <2>2. TypeOK' /\ EventsInv' /\ DatabaseAgreesWithDomain'
    BY <1>1 DEF IInv, vars, TypeOK, EventsInv, DatabaseAgreesWithDomain
  <2>3. \A t \in Txs : TxInv(t)'
    <3>1. UNCHANGED <<versions, sources, rows, phase, req, newId, events>>
      BY <1>1 DEF vars
    <3>2. SUFFICES ASSUME NEW t \in Txs PROVE TxInv(t)'
      OBVIOUS
    <3>3. TxInv(t) /\ Recorded(t)' = Recorded(t)
      BY <2>1, <3>1 DEF IInv, Recorded, HoldsVersion, HoldsRow
    <3>4. HasParent(req[t])' <=> HasParent(req[t])
      BY <3>1 DEF HasParent, GetDescriptor
    <3> QED BY <3>1, <3>3, <3>4 DEF TxInv, Registering, HoldsVersion, HoldsRow, Accepts, MayRegister
  <2>4. \A t, u \in Txs : t # u => PairInv(t, u)'
    BY <1>1 DEF IInv, vars, PairInv, HoldsVersion, HoldsRow
  <2>5. TablesInv'
    BY <1>1, <2>1 DEF IInv, vars, TablesInv, VersionInv, RowInv, Accepts, MayRegister,
                      IdentitiesAreUnique, AuditTellsTheTables
  <2> QED BY <2>2, <2>3, <2>4, <2>5 DEF IInv
<1>2. CASE Next
  <2>1. ASSUME NEW t \in Txs, NEW r \in Requests, Receive(t, r) PROVE IInv'
    BY <2>1, ReceiveStep
  <2>2. ASSUME NEW t \in Txs, Resolve(t) PROVE IInv'
    BY <2>2, ResolveStep
  <2>3. ASSUME NEW t \in Txs, InsertVersion(t) PROVE IInv'
    BY <2>3, InsertVersionStep
  <2>4. ASSUME NEW t \in Txs, InsertSource(t) PROVE IInv'
    BY <2>4, InsertSourceStep
  <2>5. ASSUME NEW t \in Txs, InsertRow(t) PROVE IInv'
    BY <2>5, InsertRowStep
  <2>6. ASSUME NEW t \in Txs, Commit(t) PROVE IInv'
    BY <2>6, CommitStep
  <2>7. ASSUME NEW t \in Txs, Fail(t) PROVE IInv'
    BY <2>7, RejectStep DEF Fail
  <2> QED BY <1>2, <2>1, <2>2, <2>3, <2>4, <2>5, <2>6, <2>7 DEF Next
<1> QED BY <1>1, <1>2

\* The inductive invariant of registration holds in every reachable state.
THEOREM InductiveInvariant == Spec => []IInv
BY InitEstablishesIInv, NextPreservesIInv, PTL DEF Spec

\* Types; identifiers belong to open registrations.
THEOREM TypeCorrect == Spec => []TypeOK
<1>1. IInv => TypeOK
  BY DEF IInv
<1> QED BY <1>1, InductiveInvariant, PTL

\* A digest and a coordinate name one version, for any number of concurrent
\* registrations.
THEOREM IdentitiesStayUnique == Spec => []IdentitiesAreUnique
<1>1. IInv => IdentitiesAreUnique
  BY DEF IInv, TablesInv
<1> QED BY <1>1, InductiveInvariant, PTL

\* Every version has its source and its owner's name on it.
THEOREM VersionsHaveSources == Spec => []SourcesBindVersions
<1>1. IInv => SourcesBindVersions
  <2> SUFFICES ASSUME IInv, NEW v \in Versions
               PROVE  /\ GetSource(v) # {} => GetVersion(v) # {}
                      /\ \A row \in GetVersion(v) :
                           /\ Replays(v)
                           /\ \A s \in GetSource(v) :
                                /\ s.source.digest = row.digest
                                /\ SourceMatchesDelivery(s.source.kind, row.delivery)
                           /\ row.publisher = Owner[row.artifact]
    BY DEF SourcesBindVersions
  <2>1. VersionInv(v)
    BY DEF IInv, TablesInv
  <2> QED BY <2>1 DEF VersionInv, Accepts, MayRegister, GetVersion, GetSource, Replays,
                      ScanVersion, ScanSource
<1> QED BY <1>1, InductiveInvariant, PTL

\* The rows that hang off a version agree with it and with its descriptor.
THEOREM RowsAgree == Spec => []RowsBindVersions
<1>1. IInv => RowsBindVersions
  <2> SUFFICES ASSUME IInv, NEW r \in rows
               PROVE  /\ Accepts(r)
                      /\ r.version \in Versions /\ versions[r.version] # NoRow
                      /\ r.op = "describe" =>
                           /\ r.doc.artifact = versions[r.version].artifact
                           /\ r.doc.semver = versions[r.version].semver
                           /\ GetDescriptor(r.version) = {r}
                      /\ r.op = "require" =>
                           /\ \E d \in GetDescriptor(r.version) : d.doc.requirements = r.doc
                           /\ GetRequirement(r.version) = {r}
                      /\ r.op = "depend" =>
                           /\ \E d \in GetDescriptor(r.version) :
                                d.doc.dependencies[r.index + 1] = r.doc
                           /\ \A p \in ListDependencies(r.version) :
                                p.index = r.index \/ p.doc.name = r.doc.name => p = r
    BY DEF RowsBindVersions
  <2>1. RowInv(r)
    BY DEF IInv, TablesInv
  <2>2. CASE r.op = "describe"
    BY <2>1, <2>2 DEF RowInv, HasParent, GetDescriptor, SameRow
  <2>3. CASE r.op = "require"
    BY <2>1, <2>3 DEF RowInv, HasParent, GetRequirement, SameRow
  <2>4. CASE r.op = "depend"
    BY <2>1, <2>4 DEF RowInv, HasParent, ListDependencies, SameRow
  <2>5. Accepts(r) /\ r.version \in Versions /\ versions[r.version] # NoRow
    BY <2>1 DEF RowInv
  <2> QED BY <2>2, <2>3, <2>4, <2>5
<1> QED BY <1>1, InductiveInvariant, PTL

\* The audit log tells the committed rows and no others.
THEOREM AuditIsExact == Spec => []AuditTellsTheTables
<1>1. IInv => AuditTellsTheTables
  BY DEF IInv, TablesInv
<1> QED BY <1>1, InductiveInvariant, PTL

\* For any commands and any interleaving, the database refuses what the domain
\* accepted only when it is written as OnlyGoAccepts says.
THEOREM ConstraintsAgree == Spec => []DatabaseAgreesWithDomain
<1>1. IInv => DatabaseAgreesWithDomain
  BY DEF IInv
<1> QED BY <1>1, InductiveInvariant, PTL

-----------------------------------------------------------------------------
(* Refinement of SerialCatalog *)

\* What a registration has secured makes its commit an atomic Register.
LEMMA CommitRegisters ==
  ASSUME IInv, NEW t \in Txs, Commit(t), req[t].op = "register"
  PROVE  \E r \in Requests, v \in Versions : Serial!Register(v, r)
<1>. DEFINE r == req[t]
            v == newId[t]
<1>1. /\ RequiredEvents(t) = events[t] /\ phase[t] = "commit"
      /\ events[t] = {VersionEvent(v, r.digest), SourceEvent(v, r.digest)}
  BY TriggersFindTheirEvents DEF Commit, RequiredEvents
<1>2. /\ v \in Versions /\ r \in Requests /\ versions[v] = NoRow
      /\ MayRegister(r) /\ Accepts(r)
      /\ \A w \in Versions : versions[w] # NoRow => ~SameVersion(versions[w], r)
  BY <1>1, RegistrationAssumption DEF IInv, TypeOK, TxInv, Registering, HoldsVersion
<1>3. /\ versions' = [versions EXCEPT ![v] = r] /\ sources' = [sources EXCEPT ![v] = r]
      /\ rows' = rows /\ audit' = audit \cup events[t]
  BY <1>1 DEF Commit
<1>4. /\ r.publisher = Owner[r.artifact] /\ r.source.digest = r.digest
      /\ v \notin Serial!Registered
  BY <1>2 DEF MayRegister, Accepts, Serial!Registered
<1>5. \A w \in Serial!Registered :
        /\ versions[w].digest # r.digest
        /\ versions[w].artifact # r.artifact \/ versions[w].semver # r.semver
  BY <1>2 DEF Serial!Registered, SameVersion
<1>6. audit' = audit \cup {Serial!Event("artifact_version.registered", v, 0, r.digest),
                           Serial!Event("artifact_source.created", v, 0, r.digest)}
  BY <1>1, <1>3 DEF VersionEvent, SourceEvent, Serial!Event
<1>7. Serial!Register(v, r)
  BY <1>3, <1>4, <1>5, <1>6 DEF Serial!Register
<1>. QED  BY <1>2, <1>7

\* The commit of any other command adds its row to the parent it has found.
LEMMA CommitAdds ==
  ASSUME IInv, NEW t \in Txs, Commit(t), req[t].op # "register"
  PROVE  \E r \in Requests : \/ Serial!CreateDescriptor(r) \/ Serial!CreateRequirement(r)
                             \/ Serial!CreateDependency(r)
<1>. DEFINE r == req[t]
            v == r.version
<1>1. phase[t] = "commit" /\ RequiredEvents(t) = events[t] /\ events[t] = {RowEvent(r)}
  BY TriggersFindTheirEvents DEF Commit, RequiredEvents
<1>2. r \in Requests /\ HasParent(r) /\ \A p \in rows : ~SameRow(p, r)
  BY <1>1 DEF IInv, TypeOK, TxInv, HoldsRow
<1>3. v \in Serial!Registered
  BY <1>2, ParentIsCommitted DEF IInv, Serial!Registered
<1>4. /\ versions' = versions /\ sources' = sources /\ rows' = rows \cup {r}
      /\ audit' = audit \cup {RowEvent(r)}
  BY <1>1 DEF Commit
<1>5. GetDescriptor(v) = Serial!RowsOf("describe", v)
  BY DEF GetDescriptor, Serial!RowsOf
<1>6. CASE r.op = "describe"
  <2>1. /\ r.doc.artifact = versions[v].artifact /\ r.doc.semver = versions[v].semver
        /\ \A p \in rows : p.op = "describe" => p.version # v /\ p.digest # r.digest
    BY <1>2, <1>6 DEF HasParent, SameRow
  <2>2. RowEvent(r) = Serial!Event("artifact_descriptor.created", v, 0, versions[v].digest)
    BY <1>6 DEF RowEvent, ActionOf, Serial!Event
  <2>3. Serial!RowsOf("describe", v) = {}
    BY <2>1 DEF Serial!RowsOf
  <2>. QED  BY <1>2, <1>3, <1>4, <1>6, <2>1, <2>2, <2>3 DEF Serial!CreateDescriptor, Serial!Add
<1>7. CASE r.op = "require"
  <2>1. /\ \E d \in GetDescriptor(v) : d.doc.requirements = r.doc
        /\ \A p \in rows : p.op = "require" => p.version # v
    BY <1>2, <1>7 DEF HasParent, SameRow
  <2>2. RowEvent(r) = Serial!Event("artifact_requirement.created", v, 0, versions[v].digest)
    BY <1>7 DEF RowEvent, ActionOf, Serial!Event
  <2>3. Serial!RowsOf("require", v) = {}
    BY <2>1 DEF Serial!RowsOf
  <2>. QED  BY <1>2, <1>3, <1>4, <1>5, <1>7, <2>1, <2>2, <2>3
            DEF Serial!CreateRequirement, Serial!Add
<1>8. CASE r.op = "depend"
  <2>1. /\ \E d \in GetDescriptor(v) :
             r.index < Len(d.doc.dependencies) /\ d.doc.dependencies[r.index + 1] = r.doc
        /\ \A p \in rows : p.op = "depend" /\ p.version = v =>
             p.index # r.index /\ p.doc.name # r.doc.name
    BY <1>2, <1>8 DEF HasParent, SameRow
  <2>2. RowEvent(r) = Serial!Event("artifact_dependency.created", v, r.index, versions[v].digest)
    BY <1>8 DEF RowEvent, ActionOf, Serial!Event
  <2>3. \A p \in Serial!RowsOf("depend", v) : p.index # r.index /\ p.doc.name # r.doc.name
    BY <2>1 DEF Serial!RowsOf
  <2>. QED  BY <1>2, <1>3, <1>4, <1>5, <1>8, <2>1, <2>2, <2>3
            DEF Serial!CreateDependency, Serial!Add
<1>. QED  BY <1>2, <1>6, <1>7, <1>8 DEF HasParent

\* Only a commit writes the tables.
LEMMA SerialStep ==
  ASSUME IInv, [Next]_vars
  PROVE  [Serial!Next]_(Serial!vars)
<1>1. CASE UNCHANGED vars
  BY <1>1 DEF vars, Serial!vars
<1>2. ASSUME NEW t \in Txs, Commit(t) PROVE Serial!Next
  BY <1>2, CommitRegisters, CommitAdds DEF Serial!Next
<1>3. ASSUME NEW t \in Txs,
             \/ \E r \in Requests : Receive(t, r)
             \/ Resolve(t) \/ InsertVersion(t) \/ InsertSource(t) \/ InsertRow(t) \/ Fail(t)
      PROVE  UNCHANGED Serial!vars
  BY <1>3 DEF Receive, Resolve, InsertVersion, InsertSource, InsertRow, Fail, tables, Serial!vars
<1>. QED  BY <1>1, <1>2, <1>3 DEF Next

\* Concurrent transactions serve their commands as if one at a time, for any
\* number of transactions, versions and commands: the transactions of
\* RegisterResolved and of the row repositories implement SerialCatalog.
THEOREM Refinement == Spec => ImplementsSerialCatalog
<1>1. Init => Serial!Init
  BY DEF Init, Serial!Init
<1>. QED  BY <1>1, SerialStep, InductiveInvariant, PTL
          DEF Spec, ImplementsSerialCatalog, Serial!Spec
=============================================================================
