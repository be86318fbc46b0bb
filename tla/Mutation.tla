------------------------------- MODULE Mutation -------------------------------
(***************************************************************************)
(* The create operations of the publication services for resources that    *)
(* are never deleted (Publishers, Namespaces, Artifacts and their          *)
(* versions): one transaction that acquires an idempotency record, writes  *)
(* the resource with its companion rows and audit event, completes the     *)
(* record and commits; a repeated request is answered from the record      *)
(* (internal/app/publication, adapters/postgres/idempotency and            *)
(* transaction.go, migrations/000012).  Clients repeat requests at will,   *)
(* also while an earlier one runs; handlers, connections and commits fail  *)
(* at any point, also after the commit took effect.  The path of a         *)
(* Namespace may be the prefix of an active delegation for some time,      *)
(* which refuses the Namespace until it is revoked (migrations/000014).    *)
(***************************************************************************)
EXTENDS Integers, FiniteSets

CONSTANTS
  Handlers,    \* goroutines serving a request, each with its transaction
  Keys,        \* (tenant, principal, action, Idempotency-Key)
  Digests,     \* digests of canonical requests
  Names,       \* what the domain keeps unique: a slug, a path, a version
  Name,        \* Name[d]: the name request d asks for
  Resources,   \* UUIDv7 identifiers
  Delegable,   \* names that may be delegated: paths below a Namespace
  Patient,     \* requests whose client repeats them until they are answered
  NoRecord, NoRow, NoRequest, NoResource

ASSUME MutationAssumption ==
  /\ Name \in [Digests -> Names]
  /\ Delegable \subseteq Names
  /\ NoRecord \notin [digest: Digests, resource: Resources \cup {NoResource}]
  /\ NoRow \notin [key: Keys, name: Names]
  /\ NoRequest \notin [key: Keys, digest: Digests]
  /\ NoResource \notin Resources
  /\ Patient \subseteq [key: Keys, digest: Digests]
  /\ {"request_mismatch", "conflict"} \cap Resources = {}

VARIABLES
  record,   \* record[k]: committed idempotency record, pending without resource
  rows,     \* rows[r]: committed resource, with the key that created it
  delegated,\* prefixes of the active delegations
  replies,  \* answers that settle a request: a resource or a refusal for good
  phase,    \* phase[h]: how far the transaction of handler h has come
  req,      \* req[h]: the request h serves
  newId     \* newId[h]: identifier of the resource h has inserted

vars == <<record, rows, delegated, replies, phase, req, newId>>

Init ==
  /\ record = [k \in Keys |-> NoRecord]
  /\ rows = [r \in Resources |-> NoRow]
  /\ delegated = {}
  /\ replies = {}
  /\ phase = [h \in Handlers |-> "idle"]
  /\ req = [h \in Handlers |-> NoRequest]
  /\ newId = [h \in Handlers |-> NoResource]

Reply(k, d, result) == [key |-> k, digest |-> d, result |-> result]
Answered(h, result) == replies' = replies \cup {Reply(req[h].key, req[h].digest, result)}

End(h) ==
  /\ phase' = [phase EXCEPT ![h] = "idle"]
  /\ req' = [req EXCEPT ![h] = NoRequest]
  /\ newId' = [newId EXCEPT ![h] = NoResource]

\* Uncommitted index entries that make another insert wait.
HoldsKey(h) == phase[h] \in {"acquired", "written", "completed"}
HoldsName(h) == phase[h] \in {"written", "completed"}

-----------------------------------------------------------------------------
Receive(h, k, d) ==
  /\ phase[h] = "idle"
  /\ phase' = [phase EXCEPT ![h] = "received"]
  /\ req' = [req EXCEPT ![h] = [key |-> k, digest |-> d]]
  /\ UNCHANGED <<record, rows, delegated, replies, newId>>

\* Mutant: the key is looked up and inserted without waiting for others.
KeyUnchecked(h) == TRUE

\* INSERT ... ON CONFLICT DO NOTHING waits for an uncommitted record with the
\* key, then the record is read: created, repeated, or another request's.
KeyIsFree(h) == \A g \in Handlers \ {h} : HoldsKey(g) => req[g].key # req[h].key

\* Mutant: Acquire commits its pending record instead of joining the
\* transaction of the service.
AcquireAlone(h) ==
  /\ phase[h] = "received"
  /\ KeyIsFree(h)
  /\ record[req[h].key] = NoRecord
  /\ record' = [record EXCEPT ![req[h].key] = [digest |-> req[h].digest, resource |-> NoResource]]
  /\ phase' = [phase EXCEPT ![h] = "acquired"]
  /\ UNCHANGED <<rows, delegated, replies, req, newId>>

Acquire(h) ==
  /\ phase[h] = "received"
  /\ KeyIsFree(h)
  /\ record[req[h].key] = NoRecord
  /\ phase' = [phase EXCEPT ![h] = "acquired"]
  /\ UNCHANGED <<record, rows, delegated, replies, req, newId>>

\* Mutant: the digest of the established record is not compared.
AcquireAny(h) ==
  /\ phase[h] = "received"
  /\ KeyIsFree(h)
  /\ record[req[h].key] # NoRecord
  /\ phase' = [phase EXCEPT ![h] = "replaying"]
  /\ UNCHANGED <<record, rows, delegated, replies, req, newId>>

AcquireExisting(h) ==
  /\ phase[h] = "received"
  /\ KeyIsFree(h)
  /\ record[req[h].key] # NoRecord
  /\ IF record[req[h].key].digest = req[h].digest
     THEN /\ phase' = [phase EXCEPT ![h] = "replaying"]
          /\ UNCHANGED <<replies, req, newId>>
     ELSE Answered(h, "request_mismatch") /\ End(h)
  /\ UNCHANGED <<record, rows, delegated>>

\* replay reads the established resource; a pending record would be answered
\* with idempotency.in_progress, which tells the client nothing.
Replay(h) ==
  LET established == record[req[h].key].resource
  IN  /\ phase[h] = "replaying"
      /\ IF established # NoResource /\ rows[established] # NoRow
         THEN Answered(h, established)
         ELSE UNCHANGED replies
      /\ End(h)
      /\ UNCHANGED <<record, rows, delegated>>

\* The repository inserts the resource under a new identifier, with its audit
\* event. The unique index waits for an uncommitted row with the same name.
\* Mutant: uniqueness is checked against committed rows only.
NameUnchecked(h) == TRUE
NameIsFree(h) ==
  \A g \in Handlers \ {h} : HoldsName(g) => Name[req[g].digest] # Name[req[h].digest]
Taken(name) == \E r \in Resources : rows[r] # NoRow /\ rows[r].name = name
\* 23505 from the unique index, or from the trigger that keeps a Namespace
\* apart from the active delegations: the repository answers both alike.
Refused(name) == Taken(name) \/ name \in delegated
FreshId(r) == rows[r] = NoRow /\ \A g \in Handlers : newId[g] # r

Write(h, r) ==
  /\ phase[h] = "acquired"
  /\ NameIsFree(h)
  /\ ~Refused(Name[req[h].digest])
  /\ FreshId(r)
  /\ phase' = [phase EXCEPT ![h] = "written"]
  /\ newId' = [newId EXCEPT ![h] = r]
  /\ UNCHANGED <<record, rows, delegated, replies, req>>

WriteConflict(h) ==
  /\ phase[h] = "acquired"
  /\ NameIsFree(h)
  /\ Refused(Name[req[h].digest])
  /\ Answered(h, "conflict")
  /\ End(h)
  /\ UNCHANGED <<record, rows, delegated>>

\* The pending record of this transaction becomes completed.
Complete(h) ==
  /\ phase[h] = "written"
  /\ phase' = [phase EXCEPT ![h] = "completed"]
  /\ UNCHANGED <<record, rows, delegated, replies, req, newId>>

\* COMMIT publishes record and row together; the answer may be lost.
Commit(h, answered) ==
  LET k == req[h].key
      d == req[h].digest
      r == newId[h]
  IN  /\ phase[h] = "completed"
      /\ record' = [record EXCEPT ![k] = [digest |-> d, resource |-> r]]
      /\ rows' = [rows EXCEPT ![r] = [key |-> k, name |-> Name[d]]]
      /\ IF answered THEN Answered(h, r) ELSE UNCHANGED replies
      /\ End(h)
      /\ UNCHANGED delegated

\* Mutant: the repository's insert was committed on its own.
FailKeepsRow(h) ==
  /\ phase[h] # "idle"
  /\ rows' = IF HoldsName(h)
             THEN [rows EXCEPT ![newId[h]] = [key |-> req[h].key, name |-> Name[req[h].digest]]]
             ELSE rows
  /\ End(h)
  /\ UNCHANGED <<record, delegated, replies>>

\* Before COMMIT: another error (an owner that is not verified, a failed
\* statement), a cancelled request or a crash. Nothing remains.
Fail(h) ==
  /\ phase[h] # "idle"
  /\ End(h)
  /\ UNCHANGED <<record, rows, delegated, replies>>

-----------------------------------------------------------------------------
(* Delegations come and go (NamespaceAuthority has their transactions).    *)

\* A delegation commits: the advisory lock on the prefix made it wait for a
\* Namespace of that path that is being created, and one that exists refuses it.
Delegate(name) ==
  /\ name \notin delegated
  /\ ~Taken(name)
  /\ \A h \in Handlers : HoldsName(h) => Name[req[h].digest] # name
  /\ delegated' = delegated \cup {name}
  /\ UNCHANGED <<record, rows, replies, phase, req, newId>>

Revoke(name) ==
  /\ name \in delegated
  /\ delegated' = delegated \ {name}
  /\ UNCHANGED <<record, rows, replies, phase, req, newId>>

-----------------------------------------------------------------------------
Serve(h) ==
  \/ \E k \in Keys, d \in Digests : Receive(h, k, d)
  \/ Acquire(h)
  \/ AcquireExisting(h)
  \/ Replay(h)
  \/ \E r \in Resources : Write(h, r)
  \/ WriteConflict(h)
  \/ Complete(h)
  \/ \E answered \in BOOLEAN : Commit(h, answered)
  \/ Fail(h)

Next ==
  \/ \E h \in Handlers : Serve(h)
  \/ \E name \in Delegable : Delegate(name) \/ Revoke(name)

Spec == Init /\ [][Next]_vars

\* Fairness: no transaction stays open for ever; it goes on, fails or its
\* connection is closed. A patient client repeats its request, failures of
\* that request are transient, and a statement of it that can go on again and
\* again (its locks become free) goes on; other clients may give up. (A replay
\* without an answer is no failure, though it ends like one.)
Serving(h, q) == phase[h] # "idle" /\ req[h] = q
Failing(h) == (Fail(h) /\ ~Replay(h)) \/ Commit(h, FALSE)
FairRequest(q) ==
  /\ SF_vars(\E h \in Handlers : Receive(h, q.key, q.digest))
  /\ <>[][\A h \in Handlers : Serving(h, q) => ~Failing(h)]_vars
  /\ \A h \in Handlers : SF_vars(Serving(h, q) /\ Serve(h) /\ ~Failing(h))

FairSpec ==
  /\ Spec
  /\ \A h \in Handlers : WF_vars(phase[h] # "idle" /\ Serve(h))
  /\ \A q \in Patient : FairRequest(q)

-----------------------------------------------------------------------------
(* Properties.                                                             *)

Phases == {"idle", "received", "acquired", "replaying", "written", "completed"}
Results == Resources \cup {"request_mismatch", "conflict"}

\* The shape of the tables, the answers and the open transactions.
TypeOK ==
  /\ record \in [Keys -> [digest: Digests, resource: Resources \cup {NoResource}] \cup {NoRecord}]
  /\ rows \in [Resources -> [key: Keys, name: Names] \cup {NoRow}]
  /\ delegated \subseteq Delegable
  /\ replies \subseteq [key: Keys, digest: Digests, result: Results]
  /\ phase \in [Handlers -> Phases]
  /\ req \in [Handlers -> [key: Keys, digest: Digests] \cup {NoRequest}]
  /\ newId \in [Handlers -> Resources \cup {NoResource}]
  /\ \A h \in Handlers :
       /\ phase[h] = "idle" <=> req[h] = NoRequest
       /\ HoldsName(h) <=> newId[h] # NoResource

\* The record of a key and the resource it created are committed together,
\* whatever failed in between: no record is left pending, no resource is left
\* without its record, and a key creates one resource. (Acquire and Complete
\* join the service's transaction.)
RecordsMatchRows ==
  /\ \A k \in Keys : record[k] # NoRecord =>
       \E r \in Resources :
         /\ record[k].resource = r
         /\ rows[r] = [key |-> k, name |-> Name[record[k].digest]]
  /\ \A r \in Resources : rows[r] # NoRow =>
       record[rows[r].key] # NoRecord /\ record[rows[r].key].resource = r

\* Domain uniqueness survives concurrent requests under different keys.
NamesAreUnique ==
  \A r, s \in Resources :
    rows[r] # NoRow /\ rows[s] # NoRow /\ rows[r].name = rows[s].name => r = s

\* All answers ever given for a key tell the same story: only one request
\* succeeds, always with the same existing resource, and it is at no time told
\* that the key belongs to another. It may have been told of a conflict only if
\* its name could be delegated, for such a conflict ends with the delegation.
\* (AcquireExisting, Replay, the unique names and 000014's collision guard.)
AnswersAgree ==
  \A a, b \in replies :
    a.key = b.key /\ a.result \in Resources =>
      /\ rows[a.result] # NoRow /\ rows[a.result].key = a.key
      /\ b.result \in Resources => b.digest = a.digest /\ b.result = a.result
      /\ b.result = "request_mismatch" => b.digest # a.digest
      /\ b.result = "conflict" /\ b.digest = a.digest => Name[a.digest] \in Delegable

Abstract == INSTANCE ExactlyOnce WITH record <- record, replies <- replies

\* The services keep the promise of ExactlyOnce.
ImplementsExactlyOnce == Abstract!Spec

\* A client that repeats its request is answered in the end, however often
\* handlers fail, answers are lost and others use the key or the name.
\* (Nothing of a failed attempt remains to block the key.)
EveryRequestIsAnswered ==
  \A q \in Patient : <>(\E a \in replies : a.key = q.key /\ a.digest = q.digest)

-----------------------------------------------------------------------------
(* The inductive invariant behind the safety properties (MutationProofs).  *)

\* What an open transaction has found out still holds.
FindingsHold(h) ==
  /\ HoldsKey(h) => record[req[h].key] = NoRecord
  /\ phase[h] = "replaying" =>
       record[req[h].key] # NoRecord /\ record[req[h].key].digest = req[h].digest
  /\ HoldsName(h) => rows[newId[h]] = NoRow /\ ~Taken(Name[req[h].digest])

\* Two open transactions do not write the same index entries.
Compatible(g, h) ==
  /\ HoldsKey(g) /\ HoldsKey(h) => req[g].key # req[h].key
  /\ HoldsName(g) /\ HoldsName(h) =>
       Name[req[g].digest] # Name[req[h].digest] /\ newId[g] # newId[h]

\* Every answer remains true: the record says so, or the name stays taken;
\* only the conflict with a delegation passes.
ReplyHolds(a) ==
  /\ a.result \in Resources => record[a.key] = [digest |-> a.digest, resource |-> a.result]
  /\ a.result = "request_mismatch" => record[a.key] # NoRecord /\ record[a.key].digest # a.digest
  /\ a.result = "conflict" /\ Name[a.digest] \notin Delegable =>
       /\ Taken(Name[a.digest])
       /\ record[a.key] # NoRecord => record[a.key].digest # a.digest

IInv ==
  /\ TypeOK
  /\ RecordsMatchRows
  /\ NamesAreUnique
  /\ \A a \in replies : ReplyHolds(a)
  /\ \A h \in Handlers : FindingsHold(h)
  /\ \A g, h \in Handlers : g # h => Compatible(g, h)
=============================================================================
