------------------------- MODULE NamespaceAuthority -------------------------
(***************************************************************************)
(* Who may publish where in one tenant: namespace ownership roots,         *)
(* delegations of child prefixes, the state of Publishers, and the check   *)
(* a publication makes (internal/adapters/postgres/namespace, publisher,   *)
(* internal/app/publication, migrations/000002, 000003 and 000014).        *)
(*                                                                         *)
(* Every request is one READ COMMITTED transaction.  The statements that   *)
(* take a lock or read what another transaction may write are separate     *)
(* steps; a lock is held from the phase that takes it until the            *)
(* transaction ends, and what a transaction wrote becomes visible when it  *)
(* commits.  A failed check, like an error or a crash, rolls it back.      *)
(***************************************************************************)
EXTENDS Integers, Sequences, FiniteSets

CONSTANTS
  Paths,        \* canonical namespace paths, as sequences of segments
  Publishers,   \* registered Publishers
  NoPublisher,  \* a path that is no ownership root has this owner
  Delegations,  \* delegation identifiers
  Txs,          \* database transactions that may be open at the same time
  Requests      \* what clients ask for

PublisherStates == {"claimed", "verified", "suspended", "revoked"}

\* Requests of the publication services, and the repository method each calls:
\* Create (namespaces), CreateDelegation, RevokeDelegation, ChangeState with
\* the version of the client's ETag, and the two writes that ResolveOwner guards.
NamespaceRequest == [kind: {"namespace"}, path: Paths, pub: Publishers]
DelegationRequest == [kind: {"delegation"}, ns: Paths, path: Paths, pub: Publishers]
RevokeRequest == [kind: {"revoke"}, id: Delegations]
StateRequest == [kind: {"state"}, pub: Publishers, to: PublisherStates, version: Nat]
PublishRequest == [kind: {"publish"}, path: Paths, pub: Publishers]
Request == NamespaceRequest \cup DelegationRequest \cup RevokeRequest
             \cup StateRequest \cup PublishRequest

ASSUME NamespaceAssumption ==
  /\ Paths \subseteq Seq(STRING)
  /\ NoPublisher \notin Publishers
  /\ Requests \subseteq Request

VARIABLES
  pubs,       \* pubs[p]: state and state version of Publisher p
  rootOwner,  \* rootOwner[path]: owner_publisher_id of the namespace at path
  deleg,      \* deleg[d]: the delegation with identifier d
  published,  \* publications accepted so far, with their attribution
  phase,      \* phase[t]: how far transaction t has come
  req         \* req[t]: the request transaction t serves

db == <<pubs, rootOwner, deleg, published>>
vars == <<pubs, rootOwner, deleg, published, phase, req>>

NoRequest == [kind |-> "none"]
NoDelegation == [state |-> "absent"]

\* IsStrictDescendant, and LIKE prefix || '/%' in the triggers.
Below(path, prefix) ==
  Len(prefix) < Len(path) /\ SubSeq(path, 1, Len(prefix)) = prefix
Covers(prefix, path) == path = prefix \/ Below(path, prefix)

IsRoot(path) == rootOwner[path] # NoPublisher
Active(d) == deleg[d].state = "active"
Verified(p) == pubs[p].state = "verified"

Phases == {"begun", "namespaceLocked", "prefixLocked", "rootChecked", "checked",
           "shared", "recorded", "written"}

\* The locks of open transactions: from which phase on each is held.
HoldsNamespace(t) ==
  /\ req[t].kind = "delegation"
  /\ phase[t] \in {"namespaceLocked", "prefixLocked", "rootChecked", "checked",
                   "shared", "written"}
HoldsPrefix(t) ==
  /\ req[t].kind \in {"namespace", "delegation"}
  /\ phase[t] \in {"prefixLocked", "rootChecked", "checked", "shared", "written"}
HoldsShare(t) ==
  /\ req[t].kind \in {"namespace", "delegation"}
  /\ phase[t] \in {"shared", "written"}
HoldsVersion(t) == req[t].kind = "state" /\ phase[t] \in {"recorded", "written"}
WritesPublisher(t) == req[t].kind = "state" /\ phase[t] = "written"
WritesDelegation(t) == req[t].kind = "revoke" /\ phase[t] = "written"

Init ==
  /\ pubs = [p \in Publishers |-> [state |-> "claimed", version |-> 1]]
  /\ rootOwner = [path \in Paths |-> NoPublisher]
  /\ deleg = [d \in Delegations |-> NoDelegation]
  /\ published = {}
  /\ phase = [t \in Txs |-> "idle"]
  /\ req = [t \in Txs |-> NoRequest]

\* A statement of t moves it to the next phase, or fails and rolls it back.
Statement(t, ok, next) ==
  /\ phase' = [phase EXCEPT ![t] = IF ok THEN next ELSE "idle"]
  /\ req' = [req EXCEPT ![t] = IF ok THEN req[t] ELSE NoRequest]
  /\ UNCHANGED db

Begin(t, r) ==
  /\ phase[t] = "idle"
  /\ phase' = [phase EXCEPT ![t] = "begun"]
  /\ req' = [req EXCEPT ![t] = r]
  /\ UNCHANGED db

End(t) ==
  /\ phase' = [phase EXCEPT ![t] = "idle"]
  /\ req' = [req EXCEPT ![t] = NoRequest]

Abort(t) == phase[t] # "idle" /\ End(t) /\ UNCHANGED db

-----------------------------------------------------------------------------
(* Creating a namespace root or a delegation: the insert guards.           *)

BeginNamespace(t, r) == r.kind = "namespace" /\ Begin(t, r)

\* namespaces.Get and NewDelegation come before the insert.  A delegation
\* identifier is new: one is left for every open CreateDelegation.
BeginDelegation(t, r) ==
  /\ r.kind = "delegation"
  /\ Cardinality({u \in Txs : req[u].kind = "delegation"})
       < Cardinality({d \in Delegations : deleg[d] = NoDelegation})
  /\ IsRoot(r.ns)
  /\ Below(r.path, r.ns)
  /\ Begin(t, r)

\* pg_advisory_xact_lock on the namespace, seed 1.
\* Mutant: no advisory lock on the namespace.
NamespaceUnlocked(ns) == {}
NamespaceHolders(ns) == {u \in Txs : HoldsNamespace(u) /\ req[u].ns = ns}

LockNamespace(t) ==
  /\ req[t].kind = "delegation"
  /\ phase[t] = "begun"
  /\ NamespaceHolders(req[t].ns) = {}
  /\ Statement(t, TRUE, "namespaceLocked")

\* pg_advisory_xact_lock on the path or child prefix, seed 0.
\* Mutant: no advisory lock on the prefix.
PrefixUnlocked(path) == {}
PrefixHolders(path) == {u \in Txs : HoldsPrefix(u) /\ req[u].path = path}

LockPrefix(t) ==
  /\ \/ req[t].kind = "namespace" /\ phase[t] = "begun"
     \/ req[t].kind = "delegation" /\ phase[t] = "namespaceLocked"
  /\ PrefixHolders(req[t].path) = {}
  /\ Statement(t, TRUE, "prefixLocked")

\* A new root may not be the prefix of an active delegation.
CheckDelegations(t) ==
  /\ req[t].kind = "namespace"
  /\ phase[t] = "prefixLocked"
  /\ Statement(t, \A d \in Delegations : Active(d) => deleg[d].prefix # req[t].path,
               "checked")

\* A delegation names a strict child of its namespace that is no root itself.
CheckRoots(t) ==
  /\ req[t].kind = "delegation"
  /\ phase[t] = "prefixLocked"
  /\ Statement(t, /\ IsRoot(req[t].ns)
                  /\ Below(req[t].path, req[t].ns)
                  /\ ~IsRoot(req[t].path),
               "rootChecked")

\* Active delegations of one namespace are strictly nested.
Nested(p, q) == Below(p, q) \/ Below(q, p)
\* Mutant: delegations to the same Publisher need not be nested.
CheckOthersNesting(t) ==
  /\ req[t].kind = "delegation"
  /\ phase[t] = "rootChecked"
  /\ Statement(t, \A d \in Delegations :
                    Active(d) /\ deleg[d].ns = req[t].ns /\ deleg[d].pub # req[t].pub =>
                      Nested(deleg[d].prefix, req[t].path),
               "checked")
CheckNesting(t) ==
  /\ req[t].kind = "delegation"
  /\ phase[t] = "rootChecked"
  /\ Statement(t, \A d \in Delegations :
                    Active(d) /\ deleg[d].ns = req[t].ns => Nested(deleg[d].prefix, req[t].path),
               "checked")

\* FOR SHARE on the Publisher, which must be verified. It waits for a change
\* of the Publisher's state in progress; when that commits, the row no longer
\* joins the state record of the statement's snapshot and none is found.
PublisherWriters(p) == {u \in Txs : WritesPublisher(u) /\ req[u].pub = p}
\* Mutant: the guards read the Publisher without FOR SHARE.
NotShared(p) == {}
ShareHolders(p) == {u \in Txs : HoldsShare(u) /\ req[u].pub = p}

ShareLock(t) ==
  /\ req[t].kind \in {"namespace", "delegation"}
  /\ phase[t] = "checked"
  /\ Verified(req[t].pub) => PublisherWriters(req[t].pub) = {}
  /\ Statement(t, Verified(req[t].pub), "shared")

\* The insert proper: UNIQUE (tenant_id, path) for a root, the partial unique
\* index on active prefixes for a delegation. The index waits for a
\* revocation of the same prefix in progress.
Revokers(d) == {u \in Txs : WritesDelegation(u) /\ req[u].id = d}

\* Mutants: no UNIQUE (tenant_id, path), and an update of the Publisher row
\* that the transaction has locked FOR SHARE.
InsertAnyNamespace(t) ==
  /\ req[t].kind = "namespace"
  /\ phase[t] = "shared"
  /\ Statement(t, TRUE, "written")
InsertAndTouchOwner(t) ==
  /\ req[t].kind = "namespace"
  /\ phase[t] = "shared"
  /\ ShareHolders(req[t].pub) = {t}
  /\ Statement(t, ~IsRoot(req[t].path), "written")

InsertNamespace(t) ==
  /\ req[t].kind = "namespace"
  /\ phase[t] = "shared"
  /\ Statement(t, ~IsRoot(req[t].path), "written")

InsertDelegation(t) ==
  LET same == {d \in Delegations : Active(d) /\ deleg[d].prefix = req[t].path}
  IN  /\ req[t].kind = "delegation"
      /\ phase[t] = "shared"
      /\ \A d \in same : Revokers(d) = {}
      /\ Statement(t, same = {}, "written")

CommitNamespace(t) ==
  /\ req[t].kind = "namespace"
  /\ phase[t] = "written"
  /\ rootOwner' = [rootOwner EXCEPT ![req[t].path] = req[t].pub]
  /\ End(t)
  /\ UNCHANGED <<pubs, deleg, published>>

DelegationOf(r) ==
  [state |-> "active", ns |-> r.ns, prefix |-> r.path, pub |-> r.pub]

CommitDelegation(t, d) ==
  /\ req[t].kind = "delegation"
  /\ phase[t] = "written"
  /\ deleg[d] = NoDelegation
  /\ deleg' = [deleg EXCEPT ![d] = DelegationOf(req[t])]
  /\ End(t)
  /\ UNCHANGED <<pubs, rootOwner, published>>

-----------------------------------------------------------------------------
(* Revoking a delegation.                                                  *)

BeginRevoke(t, r) == r.kind = "revoke" /\ Begin(t, r)

\* FOR UPDATE, the version check and the update of the locked row.
LockDelegation(t) ==
  /\ req[t].kind = "revoke"
  /\ phase[t] = "begun"
  /\ Revokers(req[t].id) = {}
  /\ Statement(t, Active(req[t].id), "written")

Revoked(row) ==
  [state |-> "revoked", ns |-> row.ns, prefix |-> row.prefix, pub |-> row.pub]

CommitRevoke(t) ==
  /\ req[t].kind = "revoke"
  /\ phase[t] = "written"
  /\ deleg' = [deleg EXCEPT ![req[t].id] = Revoked(@)]
  /\ End(t)
  /\ UNCHANGED <<pubs, rootOwner, published>>

-----------------------------------------------------------------------------
(* Changing the state of a Publisher.                                      *)

Transition(from, to) ==
  \/ from = "claimed" /\ to \in {"verified", "suspended", "revoked"}
  \/ from = "verified" /\ to \in {"suspended", "revoked"}
  \/ from = "suspended" /\ to \in {"verified", "revoked"}

\* An unlocked read, the version check and the transition rule.
BeginChange(t, r) ==
  /\ r.kind = "state"
  /\ pubs[r.pub].version = r.version
  /\ Transition(pubs[r.pub].state, r.to)
  /\ Begin(t, r)

\* The insert of state record version + 1: its primary key waits for another
\* transaction that has inserted the same version, and rejects a second one.
RecordState(t) ==
  /\ req[t].kind = "state"
  /\ phase[t] = "begun"
  /\ \A u \in Txs : HoldsVersion(u) /\ req[u].pub = req[t].pub => req[u].version # req[t].version
  /\ Statement(t, pubs[req[t].pub].version = req[t].version, "recorded")

\* UPDATE publishers waits for every transaction that holds the row.
UpdatePublisher(t) ==
  /\ req[t].kind = "state"
  /\ phase[t] = "recorded"
  /\ ShareHolders(req[t].pub) = {}
  /\ PublisherWriters(req[t].pub) = {}
  /\ Statement(t, pubs[req[t].pub].version = req[t].version, "written")

CommitState(t) ==
  /\ req[t].kind = "state"
  /\ phase[t] = "written"
  /\ pubs' = [pubs EXCEPT ![req[t].pub] =
                [state |-> req[t].to, version |-> req[t].version + 1]]
  /\ End(t)
  /\ UNCHANGED <<rootOwner, deleg, published>>

-----------------------------------------------------------------------------
(* Publishing: ArtifactService.Create and RegisterResolved.                *)

\* The candidates of ResolveOwner: roots and active delegations covering path.
Grants(path) ==
  {[by |-> "root", prefix |-> p, pub |-> rootOwner[p]] :
      p \in {q \in Paths : IsRoot(q) /\ Covers(q, path)}}
  \cup
  {[by |-> d, prefix |-> deleg[d].prefix, pub |-> deleg[d].pub] :
      d \in {e \in Delegations : Active(e) /\ Covers(deleg[e].prefix, path)}}

\* Mutant: LIMIT 1 without ORDER BY.
AnyGrant(path) == Grants(path)

\* ORDER BY length DESC LIMIT 1: any of the longest.
Controlling(path) ==
  {g \in Grants(path) : \A h \in Grants(path) : Len(h.prefix) <= Len(g.prefix)}

\* ResolveOwner answers p: it does not fall back to a shorter prefix.
Resolves(path, p) ==
  Verified(p) /\ \E g \in Controlling(path) : g.pub = p

\* Artifacts live in a namespace root; the check takes no lock.
ResolveOwner(t, r) ==
  /\ r.kind = "publish"
  /\ IsRoot(r.path)
  /\ Resolves(r.path, r.pub)
  /\ Begin(t, r)

CommitPublish(t) ==
  /\ req[t].kind = "publish"
  /\ phase[t] = "begun"
  /\ published' = published \cup {[path |-> req[t].path, pub |-> req[t].pub]}
  /\ End(t)
  /\ UNCHANGED <<pubs, rootOwner, deleg>>

-----------------------------------------------------------------------------
Start(t) ==
  \E r \in Requests :
    \/ BeginNamespace(t, r)
    \/ BeginDelegation(t, r)
    \/ BeginRevoke(t, r)
    \/ BeginChange(t, r)
    \/ ResolveOwner(t, r)

Progress(t) ==
  \/ LockNamespace(t) \/ LockPrefix(t)
  \/ CheckDelegations(t) \/ CheckRoots(t) \/ CheckNesting(t)
  \/ ShareLock(t) \/ InsertNamespace(t) \/ InsertDelegation(t)
  \/ CommitNamespace(t)
  \/ \E d \in Delegations : CommitDelegation(t, d)
  \/ LockDelegation(t) \/ CommitRevoke(t)
  \/ RecordState(t) \/ UpdatePublisher(t) \/ CommitState(t)
  \/ CommitPublish(t)

Next == \E t \in Txs : Start(t) \/ Progress(t) \/ Abort(t)

Spec == Init /\ [][Next]_vars

\* Fairness: the server keeps executing an open transaction when it does not
\* wait. Nobody has to abort, and a waiter may be overtaken: PostgreSQL grants
\* FOR SHARE past a waiting UPDATE.
FairSpec == Spec /\ \A t \in Txs : WF_vars(Progress(t))

-----------------------------------------------------------------------------
(* Properties.                                                             *)

DelegationRow == [state: {"active", "revoked"}, ns: Paths, prefix: Paths, pub: Publishers]

\* The shape of the tables and of the open transactions.
TypeOK ==
  /\ pubs \in [Publishers -> [state: PublisherStates, version: Nat]]
  /\ rootOwner \in [Paths -> Publishers \cup {NoPublisher}]
  /\ deleg \in [Delegations -> DelegationRow \cup {NoDelegation}]
  /\ published \subseteq [path: Paths, pub: Publishers]
  /\ phase \in [Txs -> Phases \cup {"idle"}]
  /\ req \in [Txs -> Request \cup {NoRequest}]
  /\ \A t \in Txs : phase[t] = "idle" <=> req[t] = NoRequest

\* At most one root or delegation controls a path, whatever requests were
\* interleaved: ResolveOwner's LIMIT 1 never has to choose. (The advisory
\* locks and collision checks of both insert guards, and the unique indexes.)
UnambiguousAuthority ==
  \A path \in Paths : \A g, h \in Controlling(path) : g = h

\* The active delegations of a namespace form a chain strictly below a root,
\* although their checks and inserts run concurrently.
\* (enforce_namespace_delegation.)
DelegationsFormChains ==
  \A d \in Delegations : Active(d) =>
    /\ IsRoot(deleg[d].ns) /\ Below(deleg[d].prefix, deleg[d].ns)
    /\ \A e \in Delegations \ {d} :
         Active(e) /\ deleg[e].ns = deleg[d].ns => Nested(deleg[d].prefix, deleg[e].prefix)

\* A publication is attributed to the owner of its namespace root and never
\* to a delegate: no delegation can come to control a path that is a root.
\* (ResolveOwner, called by RegisterResolved with the path of a root.)
PublishedByOwner ==
  \A x \in published : rootOwner[x.path] = x.pub

GrantStep ==
  /\ \A path \in Paths :
       rootOwner'[path] # rootOwner[path] => pubs'[rootOwner'[path]].state = "verified"
  /\ \A d \in Delegations :
       deleg'[d] # deleg[d] /\ deleg'[d].state = "active" =>
         pubs'[deleg'[d].pub].state = "verified"

\* A Publisher that receives a root or a delegation is verified when the grant
\* commits: no suspension slips in between the check and the commit. (FOR
\* SHARE in both insert guards against the UPDATE of ChangeState.)
GrantedToVerified == [][GrantStep]_vars

HistoryStep ==
  /\ \A path \in Paths : IsRoot(path) => rootOwner'[path] = rootOwner[path]
  /\ \A d \in Delegations :
       deleg[d] # NoDelegation /\ deleg'[d] # deleg[d] =>
         Active(d) /\ deleg'[d] = Revoked(deleg[d])
  /\ \A p \in Publishers :
       pubs'[p] # pubs[p] =>
         /\ Transition(pubs[p].state, pubs'[p].state)
         /\ pubs'[p].version = pubs[p].version + 1

\* History is append-only: a root keeps its owner, a delegation changes only
\* from active to revoked, and no two state changes of a Publisher count from
\* the same version. (UNIQUE path, reject_namespace_delegation_mutation,
\* ChangeState's primary key and version predicate.)
HistoryIsAppendOnly == [][HistoryStep]_vars

\* No set of transactions waits for each other: once clients stop asking,
\* every open transaction ends. (The order in which the insert guards,
\* ChangeState and RevokeDelegation take their locks.)
TransactionsDrain ==
  <>[][\A t \in Txs : ~Start(t)]_vars => <>[](\A t \in Txs : phase[t] = "idle")

PublishStep ==
  \A x \in published' \ published : Resolves(x.path, x.pub)

\* A publication is authorised when it commits
\* (docs/contracts/publishers-and-namespaces.md:7 and :71).
PublicationIsAuthorized == [][PublishStep]_vars

DelegatedStep ==
  \A d \in Delegations :
    deleg'[d] # deleg[d] /\ deleg'[d].state = "active" => Verified(rootOwner[deleg'[d].ns])

\* A Publisher that is not verified changes nothing in its namespace
\* (docs/contracts/publishers-and-namespaces.md:9).
OwnersDelegateWhileVerified == [][DelegatedStep]_vars

Serial == INSTANCE SerialAuthority

\* Concurrent requests take effect one at a time: whatever a transaction checked
\* before it waited for locks still holds of the tables when it commits. (The
\* insert guards, RevokeDelegation and ChangeState.)
ImplementsSerialAuthority == Serial!Spec

\* The next statement of t need not wait: the guards of Progress.
Unblocked(t) ==
  LET kind == req[t].kind
      at == phase[t]
  IN \/ kind = "delegation" /\ at = "begun" /\ NamespaceHolders(req[t].ns) = {}
     \/ /\ <<kind, at>> \in {<<"namespace", "begun">>, <<"delegation", "namespaceLocked">>}
        /\ PrefixHolders(req[t].path) = {}
     \/ /\ kind \in {"namespace", "delegation"} /\ at = "checked"
        /\ Verified(req[t].pub) => PublisherWriters(req[t].pub) = {}
     \/ /\ kind = "delegation" /\ at = "shared"
        /\ \A d \in Delegations :
             Active(d) /\ deleg[d].prefix = req[t].path => Revokers(d) = {}
     \/ kind = "revoke" /\ at = "begun" /\ Revokers(req[t].id) = {}
     \/ /\ kind = "state" /\ at = "begun"
        /\ \A u \in Txs :
             HoldsVersion(u) /\ req[u].pub = req[t].pub => req[u].version # req[t].version
     \/ /\ kind = "state" /\ at = "recorded"
        /\ ShareHolders(req[t].pub) = {} /\ PublisherWriters(req[t].pub) = {}
     \/ <<kind, at>> \in {<<"namespace", "prefixLocked">>, <<"delegation", "prefixLocked">>,
                          <<"delegation", "rootChecked">>, <<"namespace", "shared">>,
                          <<"publish", "begun">>}
     \/ kind \in {"namespace", "delegation", "revoke", "state"} /\ at = "written"

\* While transactions are open, one of them need not wait: whatever advisory, row
\* and index locks are held, PostgreSQL's deadlock detector has nothing to break.
\* (The order in which guards and repositories take their locks.)
SomebodyProceeds ==
  (\E t \in Txs : phase[t] # "idle") => \E t \in Txs : Unblocked(t)

-----------------------------------------------------------------------------
(* The inductive invariant behind the safety properties                    *)
(* (NamespaceAuthorityProofs).                                             *)

\* A prefix has at most one active delegation, and none if it is a root.
NoCollision ==
  \A d \in Delegations : Active(d) =>
    /\ ~IsRoot(deleg[d].prefix)
    /\ \A e \in Delegations : Active(e) /\ deleg[e].prefix = deleg[d].prefix => e = d

\* What an open transaction has found out still holds.
NamespaceHolds(t) == req[t].kind = "namespace" =>
  /\ phase[t] \in {"checked", "shared", "written"} =>
       \A d \in Delegations : Active(d) => deleg[d].prefix # req[t].path
  /\ phase[t] = "written" => ~IsRoot(req[t].path)

DelegationHolds(t) == req[t].kind = "delegation" =>
  /\ IsRoot(req[t].ns) /\ Below(req[t].path, req[t].ns)
  /\ phase[t] \in {"rootChecked", "checked", "shared", "written"} => ~IsRoot(req[t].path)
  /\ phase[t] \in {"checked", "shared", "written"} =>
       \A d \in Delegations :
         Active(d) /\ deleg[d].ns = req[t].ns => Nested(deleg[d].prefix, req[t].path)
  /\ phase[t] = "written" =>
       \A d \in Delegations : Active(d) => deleg[d].prefix # req[t].path

StateHolds(t) == req[t].kind = "state" =>
  /\ req[t].version <= pubs[req[t].pub].version
  /\ HoldsVersion(t) => req[t].version = pubs[req[t].pub].version
  /\ req[t].version = pubs[req[t].pub].version => Transition(pubs[req[t].pub].state, req[t].to)

FindingsHold(t) ==
  /\ NamespaceHolds(t)
  /\ DelegationHolds(t)
  /\ StateHolds(t)
  /\ HoldsShare(t) => Verified(req[t].pub)
  /\ WritesDelegation(t) => Active(req[t].id)
  /\ req[t].kind = "publish" => rootOwner[req[t].path] = req[t].pub

\* The locks of two transactions do not conflict.
Compatible(t, u) ==
  /\ HoldsNamespace(t) /\ HoldsNamespace(u) => req[t].ns # req[u].ns
  /\ HoldsPrefix(t) /\ HoldsPrefix(u) => req[t].path # req[u].path
  /\ HoldsShare(t) /\ WritesPublisher(u) => req[t].pub # req[u].pub
  /\ WritesPublisher(t) /\ HoldsShare(u) => req[t].pub # req[u].pub
  /\ HoldsVersion(t) /\ HoldsVersion(u) => req[t].pub # req[u].pub
  /\ WritesDelegation(t) /\ WritesDelegation(u) => req[t].id # req[u].id

IInv ==
  /\ TypeOK
  /\ NoCollision
  /\ DelegationsFormChains
  /\ PublishedByOwner
  /\ \A t \in Txs : FindingsHold(t)
  /\ \A t, u \in Txs : t # u => Compatible(t, u)
=============================================================================
