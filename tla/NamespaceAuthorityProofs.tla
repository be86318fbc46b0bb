---------------------- MODULE NamespaceAuthorityProofs ----------------------
(***************************************************************************)
(* Proofs of the safety properties of NamespaceAuthority, for any set of   *)
(* paths, Publishers, delegations, transactions and requests.              *)
(***************************************************************************)
EXTENDS NamespaceAuthority, SequenceProofs, TLAPS

-----------------------------------------------------------------------------
(* Requests and paths.                                                     *)

\* The fields of a request depend on its kind.
LEMMA RequestFields ==
  ASSUME NEW r \in Request \cup {NoRequest}
  PROVE  /\ r.kind \in {"none", "namespace", "delegation", "revoke", "state", "publish"}
         /\ r.kind = "namespace" => r.path \in Paths /\ r.pub \in Publishers
         /\ r.kind = "delegation" => r.ns \in Paths /\ r.path \in Paths /\ r.pub \in Publishers
         /\ r.kind = "revoke" => r.id \in Delegations
         /\ r.kind = "state" => r.pub \in Publishers /\ r.to \in PublisherStates /\ r.version \in Nat
         /\ r.kind = "publish" => r.path \in Paths /\ r.pub \in Publishers
         /\ r \in Request => r.kind # "none"
  BY DEF Request, NoRequest, NamespaceRequest, DelegationRequest, RevokeRequest,
         StateRequest, PublishRequest

\* Two prefixes of a path that are equally long are the same.
LEMMA EqualPrefixes ==
  ASSUME NEW path \in Paths, NEW p \in Paths, NEW q \in Paths,
         Covers(p, path), Covers(q, path), Len(p) = Len(q)
  PROVE  p = q
  BY NamespaceAssumption DEF Covers, Below

\* A prefix at least as long as the path is the path.
LEMMA FullPrefix ==
  ASSUME NEW path \in Paths, NEW p \in Paths, Covers(p, path), Len(path) <= Len(p)
  PROVE  p = path
  BY NamespaceAssumption DEF Covers, Below

\* A grant that controls a path has a prefix among the paths that covers it.
LEMMA GrantPrefix ==
  ASSUME TypeOK, NEW path \in Paths, NEW g \in Grants(path)
  PROVE  /\ g.prefix \in Paths /\ Covers(g.prefix, path)
         /\ \/ /\ IsRoot(g.prefix)
               /\ g = [by |-> "root", prefix |-> g.prefix, pub |-> rootOwner[g.prefix]]
            \/ \E d \in Delegations :
                 /\ Active(d) /\ deleg[d].prefix = g.prefix
                 /\ g = [by |-> d, prefix |-> deleg[d].prefix, pub |-> deleg[d].pub]
<1>1. CASE \E p \in {q \in Paths : IsRoot(q) /\ Covers(q, path)} :
             g = [by |-> "root", prefix |-> p, pub |-> rootOwner[p]]
  BY <1>1
<1>2. CASE \E d \in {e \in Delegations : Active(e) /\ Covers(deleg[e].prefix, path)} :
             g = [by |-> d, prefix |-> deleg[d].prefix, pub |-> deleg[d].pub]
  <2>1. PICK d \in {e \in Delegations : Active(e) /\ Covers(deleg[e].prefix, path)} :
               g = [by |-> d, prefix |-> deleg[d].prefix, pub |-> deleg[d].pub]
    BY <1>2
  <2>2. deleg[d].prefix \in Paths
    BY <2>1 DEF TypeOK, Active, DelegationRow, NoDelegation
  <2>. QED  BY <2>1, <2>2
<1>. QED  BY <1>1, <1>2 DEF Grants

\* The collision-free tables leave one controlling grant for every path.
LEMMA NoCollisionNoChoice ==
  ASSUME TypeOK, NoCollision
  PROVE  UnambiguousAuthority
<1>. SUFFICES ASSUME NEW path \in Paths, NEW g \in Controlling(path), NEW h \in Controlling(path)
              PROVE  g = h
  BY DEF UnambiguousAuthority
<1>1. g \in Grants(path) /\ h \in Grants(path) /\ Len(h.prefix) <= Len(g.prefix)
        /\ Len(g.prefix) <= Len(h.prefix)
  BY DEF Controlling
<1>2. g.prefix \in Paths /\ h.prefix \in Paths /\ Covers(g.prefix, path) /\ Covers(h.prefix, path)
  BY <1>1, GrantPrefix
<1>3. g.prefix = h.prefix
  <2>1. Len(g.prefix) \in Nat /\ Len(h.prefix) \in Nat
    BY <1>2, NamespaceAssumption
  <2>. QED  BY <1>1, <1>2, <2>1, EqualPrefixes
<1>. QED  BY <1>1, <1>2, <1>3, GrantPrefix DEF NoCollision

\* A root is controlled by its own owner.
LEMMA RootControlsItself ==
  ASSUME TypeOK, NoCollision, NEW path \in Paths, NEW p \in Publishers,
         IsRoot(path), Resolves(path, p)
  PROVE  rootOwner[path] = p
<1>1. PICK g \in Controlling(path) : g.pub = p
  BY DEF Resolves
<1>. DEFINE own == [by |-> "root", prefix |-> path, pub |-> rootOwner[path]]
<1>2. own \in Grants(path)
  BY DEF Grants, Covers
<1>3. g \in Grants(path) /\ Len(path) <= Len(g.prefix)
  BY <1>2 DEF Controlling
<1>4. g.prefix = path
  BY <1>3, GrantPrefix, FullPrefix
<1>5. g = own
  BY <1>3, <1>4, GrantPrefix DEF NoCollision
<1>. QED  BY <1>1, <1>5

-----------------------------------------------------------------------------
(* The inductive invariant.                                                *)

\* A statement of one transaction preserves the invariant when what it finds
\* out holds and its new locks conflict with no other's.
LEMMA StatementKeeps ==
  ASSUME IInv, NEW t \in Txs, NEW ok \in BOOLEAN, NEW next \in Phases,
         phase[t] # "idle", Statement(t, ok, next),
         ok => FindingsHold(t)',
         ok => \A u \in Txs \ {t} : Compatible(t, u)'
  PROVE  IInv'
<1>1. TypeOK'
  BY DEF IInv, TypeOK, Statement, db, Phases
<1>2. NoCollision' /\ DelegationsFormChains' /\ PublishedByOwner'
  BY DEF IInv, Statement, db, NoCollision, DelegationsFormChains, PublishedByOwner,
         Active, IsRoot
<1>3. \A u \in Txs \ {t} : phase'[u] = phase[u] /\ req'[u] = req[u]
  BY DEF IInv, TypeOK, Statement
<1>4. ~ok => phase'[t] = "idle" /\ req'[t] = NoRequest
  BY DEF IInv, TypeOK, Statement
<1>5. ASSUME NEW u \in Txs PROVE FindingsHold(u)'
  <2>1. CASE u = t
    BY <1>4, <2>1 DEF FindingsHold, NamespaceHolds, DelegationHolds, StateHolds, HoldsShare,
         HoldsVersion, WritesDelegation, NoRequest
  <2>2. CASE u # t
    BY <1>3, <2>2 DEF IInv, Statement, db, FindingsHold, NamespaceHolds, DelegationHolds,
         StateHolds, HoldsShare, HoldsVersion, WritesDelegation, Active, IsRoot, Verified
  <2>. QED  BY <2>1, <2>2
<1>6. ASSUME NEW u \in Txs, NEW v \in Txs, u # v PROVE Compatible(u, v)'
  <2>. USE DEF Compatible, HoldsNamespace, HoldsPrefix, HoldsShare, HoldsVersion,
         WritesPublisher, WritesDelegation
  <2>1. CASE u # t /\ v # t
    BY <1>3, <1>6, <2>1 DEF IInv
  <2>2. CASE u = t
    BY <1>4, <1>6, <2>2 DEF NoRequest
  <2>3. CASE v = t
    BY <1>4, <1>6, <2>3 DEF NoRequest
  <2>. QED  BY <2>1, <2>2, <2>3
<1>. QED  BY <1>1, <1>2, <1>5, <1>6 DEF IInv

\* The same for the first statement of a transaction, which takes no lock.
LEMMA BeginKeeps ==
  ASSUME IInv, NEW t \in Txs, NEW r \in Requests, Begin(t, r), FindingsHold(t)'
  PROVE  IInv'
<1>1. r \in Request /\ r # NoRequest
  BY NamespaceAssumption, RequestFields DEF NoRequest
<1>2. TypeOK'
  BY <1>1 DEF IInv, TypeOK, Begin, db, Phases
<1>3. NoCollision' /\ DelegationsFormChains' /\ PublishedByOwner'
  BY DEF IInv, Begin, db, NoCollision, DelegationsFormChains, PublishedByOwner, Active, IsRoot
<1>4. \A u \in Txs \ {t} : phase'[u] = phase[u] /\ req'[u] = req[u]
  BY DEF IInv, TypeOK, Begin
<1>5. phase'[t] = "begun"
  BY DEF IInv, TypeOK, Begin
<1>6. ASSUME NEW u \in Txs PROVE FindingsHold(u)'
  BY <1>4 DEF IInv, Begin, db, FindingsHold, NamespaceHolds, DelegationHolds,
         StateHolds, HoldsShare, HoldsVersion, WritesDelegation, Active, IsRoot, Verified
<1>7. ASSUME NEW u \in Txs, NEW v \in Txs, u # v PROVE Compatible(u, v)'
  BY <1>4, <1>5, <1>7 DEF IInv, Compatible, HoldsNamespace, HoldsPrefix, HoldsShare,
         HoldsVersion, WritesPublisher, WritesDelegation
<1>. QED  BY <1>2, <1>3, <1>6, <1>7 DEF IInv

\* The same for the end of a transaction: what it writes must leave the tables
\* and the findings of the others right.
LEMMA EndKeeps ==
  ASSUME IInv, NEW t \in Txs, End(t),
         pubs' \in [Publishers -> [state: PublisherStates, version: Nat]],
         rootOwner' \in [Paths -> Publishers \cup {NoPublisher}],
         deleg' \in [Delegations -> DelegationRow \cup {NoDelegation}],
         published' \subseteq [path: Paths, pub: Publishers],
         NoCollision', DelegationsFormChains', PublishedByOwner',
         \A u \in Txs \ {t} : FindingsHold(u)'
  PROVE  IInv'
<1>1. TypeOK'
  BY DEF IInv, TypeOK, End
<1>2. \A u \in Txs \ {t} : phase'[u] = phase[u] /\ req'[u] = req[u]
  BY DEF IInv, TypeOK, End
<1>3. phase'[t] = "idle" /\ req'[t] = NoRequest
  BY DEF IInv, TypeOK, End
<1>4. ASSUME NEW u \in Txs PROVE FindingsHold(u)'
  BY <1>3 DEF FindingsHold, NamespaceHolds, DelegationHolds, StateHolds, HoldsShare,
         HoldsVersion, WritesDelegation, NoRequest
<1>5. ASSUME NEW u \in Txs, NEW v \in Txs, u # v PROVE Compatible(u, v)'
  <2>. USE DEF Compatible, HoldsNamespace, HoldsPrefix, HoldsShare, HoldsVersion,
         WritesPublisher, WritesDelegation
  <2>1. CASE u = t \/ v = t
    BY <1>3, <2>1 DEF NoRequest
  <2>2. CASE u # t /\ v # t
    BY <1>2, <1>5, <2>2 DEF IInv
  <2>. QED  BY <2>1, <2>2
<1>. QED  BY <1>1, <1>4, <1>5 DEF IInv

\* The invariant holds initially.
LEMMA InitInvariant == Init => IInv
<1>. SUFFICES ASSUME Init PROVE IInv
  OBVIOUS
<1>1. TypeOK
  BY DEF Init, TypeOK, PublisherStates
<1>2. NoCollision /\ DelegationsFormChains /\ PublishedByOwner
  BY DEF Init, NoCollision, DelegationsFormChains, PublishedByOwner, Active, NoDelegation
<1>3. ASSUME NEW t \in Txs PROVE FindingsHold(t)
  BY DEF Init, NoRequest, FindingsHold, NamespaceHolds, DelegationHolds, StateHolds,
         HoldsShare, WritesDelegation
<1>4. ASSUME NEW t \in Txs, NEW u \in Txs PROVE Compatible(t, u)
  BY DEF Init, NoRequest, Compatible, HoldsNamespace, HoldsPrefix, HoldsShare, HoldsVersion,
         WritesPublisher, WritesDelegation
<1>. QED  BY <1>1, <1>2, <1>3, <1>4 DEF IInv

\* A request begins.
LEMMA StartStep ==
  ASSUME IInv, NEW t \in Txs, Start(t)
  PROVE  IInv'
<1>1. PICK r \in Requests :
        \/ BeginNamespace(t, r) \/ BeginDelegation(t, r) \/ BeginRevoke(t, r)
        \/ BeginChange(t, r) \/ ResolveOwner(t, r)
  BY DEF Start
<1>2. Begin(t, r)
  BY <1>1 DEF BeginNamespace, BeginDelegation, BeginRevoke, BeginChange, ResolveOwner
<1>3. req'[t] = r /\ phase'[t] = "begun" /\ UNCHANGED db
  BY <1>2 DEF IInv, TypeOK, Begin
<1>4. r \in Request
  BY NamespaceAssumption
<1>. SUFFICES FindingsHold(t)'
  BY <1>2, BeginKeeps
<1>. USE <1>3 DEF db, FindingsHold, NamespaceHolds, DelegationHolds, StateHolds, HoldsShare,
         HoldsVersion, WritesDelegation
<1>5. CASE BeginNamespace(t, r)
  BY <1>5 DEF BeginNamespace
<1>6. CASE BeginDelegation(t, r)
  BY <1>6 DEF BeginDelegation, IsRoot
<1>7. CASE BeginRevoke(t, r)
  BY <1>7 DEF BeginRevoke
<1>8. CASE BeginChange(t, r)
  <2>1. r.pub \in Publishers /\ pubs[r.pub].version \in Nat
    BY <1>4, <1>8, RequestFields DEF BeginChange, IInv, TypeOK
  <2>. QED  BY <1>8, <2>1 DEF BeginChange
<1>9. CASE ResolveOwner(t, r)
  <2>1. rootOwner[r.path] = r.pub
    BY <1>4, <1>9, RequestFields, RootControlsItself DEF ResolveOwner, IInv
  <2>. QED  BY <1>9, <2>1 DEF ResolveOwner
<1>. QED  BY <1>1, <1>5, <1>6, <1>7, <1>8, <1>9

\* The statements that lock, check and insert a root or a delegation.
LEMMA GuardStep ==
  ASSUME IInv, NEW t \in Txs,
         \/ LockNamespace(t) \/ LockPrefix(t) \/ CheckDelegations(t) \/ CheckRoots(t)
         \/ CheckNesting(t) \/ ShareLock(t) \/ InsertNamespace(t) \/ InsertDelegation(t)
  PROVE  IInv'
<1>. USE DEF Statement, db, FindingsHold, NamespaceHolds, DelegationHolds, StateHolds,
         Compatible, HoldsNamespace, HoldsPrefix, HoldsShare, HoldsVersion, WritesPublisher,
         WritesDelegation, Active, IsRoot, Verified, Phases
<1>1. \A u \in Txs \ {t} : Compatible(t, u)
  BY DEF IInv
<1>2. FindingsHold(t)
  BY DEF IInv
<1>3. phase[t] # "idle"
  BY DEF LockNamespace, LockPrefix, CheckDelegations, CheckRoots, CheckNesting, ShareLock,
         InsertNamespace, InsertDelegation
<1>4. CASE LockNamespace(t)
  <2>1. Statement(t, TRUE, "namespaceLocked")
    BY <1>4 DEF LockNamespace
  <2>2. FindingsHold(t)'
    BY <1>2, <1>4 DEF LockNamespace, IInv, TypeOK
  <2>3. \A u \in Txs \ {t} : Compatible(t, u)'
    BY <1>1, <1>4 DEF LockNamespace, NamespaceHolders, IInv, TypeOK
  <2>. QED  BY <1>3, <2>1, <2>2, <2>3, StatementKeeps
<1>5. CASE LockPrefix(t)
  <2>1. Statement(t, TRUE, "prefixLocked")
    BY <1>5 DEF LockPrefix
  <2>2. FindingsHold(t)'
    BY <1>2, <1>5 DEF LockPrefix, IInv, TypeOK
  <2>3. \A u \in Txs \ {t} : Compatible(t, u)'
    BY <1>1, <1>5 DEF LockPrefix, PrefixHolders, IInv, TypeOK
  <2>. QED  BY <1>3, <2>1, <2>2, <2>3, StatementKeeps
<1>6. CASE CheckDelegations(t)
  <2>. DEFINE ok == \A d \in Delegations : Active(d) => deleg[d].prefix # req[t].path
  <2>1. Statement(t, ok, "checked")
    BY <1>6 DEF CheckDelegations
  <2>2. ok => FindingsHold(t)'
    BY <1>2, <1>6 DEF CheckDelegations, IInv, TypeOK
  <2>3. ok => \A u \in Txs \ {t} : Compatible(t, u)'
    BY <1>1, <1>6 DEF CheckDelegations, IInv, TypeOK
  <2>. QED  BY <1>3, <2>1, <2>2, <2>3, StatementKeeps
<1>7. CASE CheckRoots(t)
  <2>. DEFINE ok == /\ IsRoot(req[t].ns)
                    /\ Below(req[t].path, req[t].ns)
                    /\ ~IsRoot(req[t].path)
  <2>1. Statement(t, ok, "rootChecked")
    BY <1>7 DEF CheckRoots
  <2>2. ok => FindingsHold(t)'
    BY <1>2, <1>7 DEF CheckRoots, IInv, TypeOK
  <2>3. ok => \A u \in Txs \ {t} : Compatible(t, u)'
    BY <1>1, <1>7 DEF CheckRoots, IInv, TypeOK
  <2>. QED  BY <1>3, <2>1, <2>2, <2>3, StatementKeeps
<1>8. CASE CheckNesting(t)
  <2>. DEFINE ok == \A d \in Delegations :
                      Active(d) /\ deleg[d].ns = req[t].ns => Nested(deleg[d].prefix, req[t].path)
  <2>1. Statement(t, ok, "checked")
    BY <1>8 DEF CheckNesting
  <2>2. ok => FindingsHold(t)'
    BY <1>2, <1>8 DEF CheckNesting, IInv, TypeOK
  <2>3. ok => \A u \in Txs \ {t} : Compatible(t, u)'
    BY <1>1, <1>8 DEF CheckNesting, IInv, TypeOK
  <2>. QED  BY <1>3, <2>1, <2>2, <2>3, StatementKeeps
<1>9. CASE ShareLock(t)
  <2>. DEFINE ok == Verified(req[t].pub)
  <2>1. Statement(t, ok, "shared")
    BY <1>9 DEF ShareLock
  <2>2. ok => FindingsHold(t)'
    BY <1>2, <1>9 DEF ShareLock, IInv, TypeOK
  <2>3. ok => \A u \in Txs \ {t} : Compatible(t, u)'
    BY <1>1, <1>9 DEF ShareLock, PublisherWriters, IInv, TypeOK
  <2>. QED  BY <1>3, <2>1, <2>2, <2>3, StatementKeeps
<1>10. CASE InsertNamespace(t)
  <2>. DEFINE ok == ~IsRoot(req[t].path)
  <2>1. Statement(t, ok, "written")
    BY <1>10 DEF InsertNamespace
  <2>2. ok => FindingsHold(t)'
    BY <1>2, <1>10 DEF InsertNamespace, IInv, TypeOK
  <2>3. ok => \A u \in Txs \ {t} : Compatible(t, u)'
    BY <1>1, <1>10 DEF InsertNamespace, IInv, TypeOK
  <2>. QED  BY <1>3, <2>1, <2>2, <2>3, StatementKeeps
<1>11. CASE InsertDelegation(t)
  <2>. DEFINE same == {d \in Delegations : Active(d) /\ deleg[d].prefix = req[t].path}
              ok == same = {}
  <2>1. Statement(t, ok, "written")
    BY <1>11 DEF InsertDelegation
  <2>2. ok => FindingsHold(t)'
    BY <1>2, <1>11 DEF InsertDelegation, IInv, TypeOK
  <2>3. ok => \A u \in Txs \ {t} : Compatible(t, u)'
    BY <1>1, <1>11 DEF InsertDelegation, IInv, TypeOK
  <2>. QED  BY <1>3, <2>1, <2>2, <2>3, StatementKeeps
<1>. QED  BY <1>4, <1>5, <1>6, <1>7, <1>8, <1>9, <1>10, <1>11

\* The statements that lock a delegation or a Publisher to change it.
LEMMA ChangeStep ==
  ASSUME IInv, NEW t \in Txs,
         LockDelegation(t) \/ RecordState(t) \/ UpdatePublisher(t)
  PROVE  IInv'
<1>. USE DEF Statement, db, FindingsHold, NamespaceHolds, DelegationHolds, StateHolds,
         Compatible, HoldsNamespace, HoldsPrefix, HoldsShare, HoldsVersion, WritesPublisher,
         WritesDelegation, Active, IsRoot, Verified, Phases
<1>1. \A u \in Txs \ {t} : Compatible(t, u)
  BY DEF IInv
<1>2. \A u \in Txs : FindingsHold(u)
  BY DEF IInv
<1>3. phase[t] # "idle"
  BY DEF LockDelegation, RecordState, UpdatePublisher
<1>4. CASE LockDelegation(t)
  <2>. DEFINE ok == Active(req[t].id)
  <2>1. Statement(t, ok, "written")
    BY <1>4 DEF LockDelegation
  <2>2. ok => FindingsHold(t)'
    BY <1>2, <1>4 DEF LockDelegation, IInv, TypeOK
  <2>3. ok => \A u \in Txs \ {t} : Compatible(t, u)'
    BY <1>1, <1>4 DEF LockDelegation, Revokers, IInv, TypeOK
  <2>. QED  BY <1>3, <2>1, <2>2, <2>3, StatementKeeps
<1>5. CASE RecordState(t)
  <2>. DEFINE ok == pubs[req[t].pub].version = req[t].version
  <2>1. Statement(t, ok, "recorded")
    BY <1>5 DEF RecordState
  <2>2. ok => FindingsHold(t)'
    BY <1>2, <1>5 DEF RecordState, IInv, TypeOK
  <2>3. ok => \A u \in Txs \ {t} : Compatible(t, u)'
    BY <1>1, <1>2, <1>5 DEF RecordState, IInv, TypeOK
  <2>. QED  BY <1>3, <2>1, <2>2, <2>3, StatementKeeps
<1>6. CASE UpdatePublisher(t)
  <2>. DEFINE ok == pubs[req[t].pub].version = req[t].version
  <2>1. Statement(t, ok, "written")
    BY <1>6 DEF UpdatePublisher
  <2>2. ok => FindingsHold(t)'
    BY <1>2, <1>6 DEF UpdatePublisher, IInv, TypeOK
  <2>3. ok => \A u \in Txs \ {t} : Compatible(t, u)'
    BY <1>1, <1>6 DEF UpdatePublisher, ShareHolders, IInv, TypeOK
  <2>. QED  BY <1>3, <2>1, <2>2, <2>3, StatementKeeps
<1>. QED  BY <1>4, <1>5, <1>6

\* A root becomes visible.
LEMMA CommitNamespaceStep ==
  ASSUME IInv, NEW t \in Txs, CommitNamespace(t)
  PROVE  IInv'
<1>. DEFINE path == req[t].path
            owner == req[t].pub
<1>1. path \in Paths /\ owner \in Publishers /\ owner # NoPublisher
  BY RequestFields, NamespaceAssumption DEF IInv, TypeOK, CommitNamespace
<1>2. /\ \A d \in Delegations : Active(d) => deleg[d].prefix # path
      /\ rootOwner[path] = NoPublisher
  BY DEF IInv, FindingsHold, NamespaceHolds, CommitNamespace, IsRoot
<1>3. /\ rootOwner' \in [Paths -> Publishers \cup {NoPublisher}]
      /\ rootOwner'[path] = owner
      /\ \A q \in Paths \ {path} : rootOwner'[q] = rootOwner[q]
  BY <1>1 DEF IInv, TypeOK, CommitNamespace
<1>4. UNCHANGED <<pubs, deleg, published>> /\ End(t)
  BY DEF CommitNamespace
<1>5. HoldsPrefix(t)
  BY DEF CommitNamespace, HoldsPrefix
<1>. HIDE DEF path, owner
<1>6. \A d \in Delegations : Active(d) => deleg[d] \in DelegationRow
  BY DEF IInv, TypeOK, Active, NoDelegation
<1>7. NoCollision'
  BY <1>2, <1>3, <1>4, <1>6 DEF IInv, NoCollision, Active, IsRoot, DelegationRow
<1>8. DelegationsFormChains'
  BY <1>1, <1>3, <1>4, <1>6 DEF IInv, DelegationsFormChains, Active, IsRoot, DelegationRow
<1>9. PublishedByOwner'
  BY <1>2, <1>3, <1>4, NamespaceAssumption DEF IInv, TypeOK, PublishedByOwner
<1>10. ASSUME NEW u \in Txs \ {t} PROVE FindingsHold(u)'
  <2>1. phase'[u] = phase[u] /\ req'[u] = req[u]
    BY <1>4 DEF IInv, TypeOK, End
  <2>2. FindingsHold(u) /\ Compatible(t, u) /\ req[u] \in Request \cup {NoRequest}
    BY DEF IInv, TypeOK
  <2>3. HoldsPrefix(u) => req[u].path # path
    BY <1>5, <2>2 DEF Compatible, path
  <2>4. NamespaceHolds(u)'
    BY <1>3, <1>4, <2>1, <2>2, <2>3, RequestFields
       DEF FindingsHold, NamespaceHolds, HoldsPrefix, Active, IsRoot
  <2>5. DelegationHolds(u)'
    <3>. SUFFICES ASSUME req[u].kind = "delegation" PROVE DelegationHolds(u)'
      BY <2>1 DEF DelegationHolds
    <3>1. req[u].ns \in Paths /\ req[u].path \in Paths
      BY <2>2, RequestFields
    <3>2. IsRoot(req[u].ns)'
      BY <1>1, <1>3, <2>1, <2>2, <3>1 DEF FindingsHold, DelegationHolds, IsRoot
    <3>3. phase[u] \in {"rootChecked", "checked", "shared", "written"} => ~IsRoot(req[u].path)'
      BY <1>3, <2>1, <2>2, <2>3, <3>1 DEF FindingsHold, DelegationHolds, HoldsPrefix, IsRoot
    <3>. QED  BY <1>4, <2>1, <2>2, <3>2, <3>3 DEF FindingsHold, DelegationHolds, Active
  <2>6. StateHolds(u)' /\ (HoldsShare(u) => Verified(req[u].pub))'
        /\ (WritesDelegation(u) => Active(req[u].id))'
    BY <1>4, <2>1, <2>2 DEF FindingsHold, StateHolds, HoldsShare, HoldsVersion,
         WritesDelegation, Verified, Active
  <2>7. (req[u].kind = "publish" => rootOwner[req[u].path] = req[u].pub)'
    BY <1>2, <1>3, <2>1, <2>2, RequestFields, NamespaceAssumption DEF FindingsHold
  <2>. QED  BY <2>4, <2>5, <2>6, <2>7 DEF FindingsHold
<1>. QED  BY <1>3, <1>4, <1>7, <1>8, <1>9, <1>10, EndKeeps DEF IInv, TypeOK

\* A delegation becomes visible.
LEMMA CommitDelegationStep ==
  ASSUME IInv, NEW t \in Txs, NEW d \in Delegations, CommitDelegation(t, d)
  PROVE  IInv'
<1>. DEFINE ns == req[t].ns
            path == req[t].path
            row == DelegationOf(req[t])
<1>1. ns \in Paths /\ path \in Paths /\ row \in DelegationRow
  BY RequestFields DEF IInv, TypeOK, CommitDelegation, DelegationOf, DelegationRow
<1>2. /\ IsRoot(ns) /\ Below(path, ns) /\ ~IsRoot(path)
      /\ \A e \in Delegations : Active(e) /\ deleg[e].ns = ns => Nested(deleg[e].prefix, path)
      /\ \A e \in Delegations : Active(e) => deleg[e].prefix # path
  BY DEF IInv, FindingsHold, DelegationHolds, CommitDelegation
<1>3. row.state = "active" /\ row.ns = ns /\ row.prefix = path
  BY DEF DelegationOf
<1>4. /\ deleg' \in [Delegations -> DelegationRow \cup {NoDelegation}]
      /\ deleg'[d] = row
      /\ \A e \in Delegations \ {d} : deleg'[e] = deleg[e]
  BY <1>1 DEF IInv, TypeOK, CommitDelegation
<1>5. UNCHANGED <<pubs, rootOwner, published>> /\ End(t) /\ ~Active(d)
  BY DEF CommitDelegation, Active, NoDelegation
<1>6. HoldsPrefix(t) /\ HoldsNamespace(t)
  BY DEF CommitDelegation, HoldsPrefix, HoldsNamespace
<1>. HIDE DEF ns, path, row
<1>7. NoCollision'
  BY <1>2, <1>3, <1>4, <1>5 DEF IInv, NoCollision, Active, IsRoot
<1>8. DelegationsFormChains'
  BY <1>2, <1>3, <1>4, <1>5 DEF IInv, DelegationsFormChains, Active, IsRoot, Nested
<1>9. PublishedByOwner'
  BY <1>5 DEF IInv, PublishedByOwner
<1>10. ASSUME NEW u \in Txs \ {t} PROVE FindingsHold(u)'
  <2>1. phase'[u] = phase[u] /\ req'[u] = req[u]
    BY <1>5 DEF IInv, TypeOK, End
  <2>2. FindingsHold(u) /\ Compatible(t, u)
    BY DEF IInv
  <2>3. /\ HoldsPrefix(u) => req[u].path # path
        /\ HoldsNamespace(u) => req[u].ns # ns
    BY <1>6, <2>2 DEF Compatible, path, ns
  <2>4. NamespaceHolds(u)'
    BY <1>3, <1>4, <1>5, <2>1, <2>2, <2>3
       DEF FindingsHold, NamespaceHolds, HoldsPrefix, Active, IsRoot
  <2>5. DelegationHolds(u)'
    BY <1>3, <1>4, <1>5, <2>1, <2>2, <2>3
       DEF FindingsHold, DelegationHolds, HoldsPrefix, HoldsNamespace, Active, IsRoot
  <2>6. StateHolds(u)' /\ (HoldsShare(u) => Verified(req[u].pub))'
        /\ (req[u].kind = "publish" => rootOwner[req[u].path] = req[u].pub)'
    BY <1>5, <2>1, <2>2 DEF FindingsHold, StateHolds, HoldsShare, HoldsVersion, Verified
  <2>7. (WritesDelegation(u) => Active(req[u].id))'
    <3>1. req[u].kind = "revoke" => req[u].id \in Delegations
      BY RequestFields DEF IInv, TypeOK
    <3>. QED  BY <1>4, <1>5, <2>1, <2>2, <3>1 DEF FindingsHold, WritesDelegation, Active
  <2>. QED  BY <2>4, <2>5, <2>6, <2>7 DEF FindingsHold
<1>. QED  BY <1>4, <1>5, <1>7, <1>8, <1>9, <1>10, EndKeeps DEF IInv, TypeOK

\* A delegation is revoked.
LEMMA CommitRevokeStep ==
  ASSUME IInv, NEW t \in Txs, CommitRevoke(t)
  PROVE  IInv'
<1>. DEFINE d == req[t].id
            row == Revoked(deleg[d])
<1>1. d \in Delegations /\ Active(d) /\ WritesDelegation(t)
  BY RequestFields DEF IInv, TypeOK, CommitRevoke, FindingsHold, WritesDelegation
<1>2. row \in DelegationRow /\ row.state = "revoked"
  BY <1>1 DEF IInv, TypeOK, Active, NoDelegation, DelegationRow, Revoked
<1>3. /\ deleg' \in [Delegations -> DelegationRow \cup {NoDelegation}]
      /\ deleg'[d] = row
      /\ \A e \in Delegations \ {d} : deleg'[e] = deleg[e]
  BY <1>1, <1>2 DEF IInv, TypeOK, CommitRevoke
<1>4. UNCHANGED <<pubs, rootOwner, published>> /\ End(t)
  BY DEF CommitRevoke
<1>. HIDE DEF d, row
<1>5. \A e \in Delegations : Active(e)' => Active(e) /\ deleg'[e] = deleg[e]
  BY <1>2, <1>3 DEF Active
<1>6. NoCollision' /\ DelegationsFormChains' /\ PublishedByOwner'
  BY <1>4, <1>5 DEF IInv, NoCollision, DelegationsFormChains, PublishedByOwner, IsRoot
<1>7. ASSUME NEW u \in Txs \ {t} PROVE FindingsHold(u)'
  <2>1. phase'[u] = phase[u] /\ req'[u] = req[u]
    BY <1>4 DEF IInv, TypeOK, End
  <2>2. FindingsHold(u) /\ Compatible(t, u)
    BY DEF IInv
  <2>3. NamespaceHolds(u)' /\ DelegationHolds(u)'
    BY <1>4, <1>5, <2>1, <2>2 DEF FindingsHold, NamespaceHolds, DelegationHolds, IsRoot
  <2>4. StateHolds(u)' /\ (HoldsShare(u) => Verified(req[u].pub))'
        /\ (req[u].kind = "publish" => rootOwner[req[u].path] = req[u].pub)'
    BY <1>4, <2>1, <2>2 DEF FindingsHold, StateHolds, HoldsShare, HoldsVersion, Verified
  <2>5. (WritesDelegation(u) => Active(req[u].id))'
    <3>1. WritesDelegation(u) => req[u].id \in Delegations /\ req[u].id # d
      BY <1>1, <2>2, RequestFields DEF IInv, TypeOK, WritesDelegation, Compatible, d
    <3>. QED  BY <1>3, <2>1, <2>2, <3>1 DEF FindingsHold, WritesDelegation, Active
  <2>. QED  BY <2>3, <2>4, <2>5 DEF FindingsHold
<1>. QED  BY <1>3, <1>4, <1>6, <1>7, EndKeeps DEF IInv, TypeOK

\* A Publisher changes state: nobody shares its row, and every other change
\* counted from the old version is now stale.
LEMMA CommitStateStep ==
  ASSUME IInv, NEW t \in Txs, CommitState(t)
  PROVE  IInv'
<1>. DEFINE p == req[t].pub
            row == [state |-> req[t].to, version |-> req[t].version + 1]
<1>1. p \in Publishers /\ req[t].to \in PublisherStates /\ req[t].version \in Nat
  BY RequestFields DEF IInv, TypeOK, CommitState
<1>2. HoldsVersion(t) /\ WritesPublisher(t) /\ pubs[p].version = req[t].version
  BY DEF IInv, FindingsHold, StateHolds, CommitState, HoldsVersion, WritesPublisher
<1>3. row \in [state: PublisherStates, version: Nat] /\ row.version = pubs[p].version + 1
  BY <1>1, <1>2
<1>4. /\ pubs' \in [Publishers -> [state: PublisherStates, version: Nat]]
      /\ pubs'[p] = row
      /\ \A q \in Publishers \ {p} : pubs'[q] = pubs[q]
  BY <1>1, <1>3 DEF IInv, TypeOK, CommitState
<1>5. UNCHANGED <<rootOwner, deleg, published>> /\ End(t)
  BY DEF CommitState
<1>6. pubs[p].version \in Nat
  BY <1>1 DEF IInv, TypeOK
<1>. HIDE DEF p, row
<1>7. NoCollision' /\ DelegationsFormChains' /\ PublishedByOwner'
  BY <1>5 DEF IInv, NoCollision, DelegationsFormChains, PublishedByOwner, IsRoot, Active
<1>8. ASSUME NEW u \in Txs \ {t} PROVE FindingsHold(u)'
  <2>1. phase'[u] = phase[u] /\ req'[u] = req[u]
    BY <1>5 DEF IInv, TypeOK, End
  <2>2. FindingsHold(u) /\ Compatible(t, u) /\ req[u] \in Request \cup {NoRequest}
    BY DEF IInv, TypeOK
  <2>3. NamespaceHolds(u)' /\ DelegationHolds(u)'
        /\ (WritesDelegation(u) => Active(req[u].id))'
        /\ (req[u].kind = "publish" => rootOwner[req[u].path] = req[u].pub)'
    BY <1>5, <2>1, <2>2 DEF FindingsHold, NamespaceHolds, DelegationHolds, WritesDelegation,
         IsRoot, Active
  <2>4. (HoldsShare(u) => Verified(req[u].pub))'
    <3>1. HoldsShare(u) => req[u].pub \in Publishers /\ req[u].pub # p
      BY <1>2, <2>2, RequestFields DEF HoldsShare, Compatible, p
    <3>. QED  BY <1>4, <2>1, <2>2, <3>1 DEF FindingsHold, HoldsShare, Verified
  <2>5. StateHolds(u)'
    <3>. SUFFICES ASSUME req[u].kind = "state" PROVE StateHolds(u)'
      BY <2>1 DEF StateHolds
    <3>1. req[u].pub \in Publishers /\ req[u].version \in Nat
      BY <2>2, RequestFields
    <3>2. CASE req[u].pub # p
      BY <1>4, <2>1, <2>2, <3>1, <3>2 DEF FindingsHold, StateHolds, HoldsVersion
    <3>3. CASE req[u].pub = p
      <4>1. ~HoldsVersion(u)
        BY <1>2, <2>2, <3>3 DEF Compatible, p
      <4>2. req[u].version <= pubs[p].version
        BY <2>2, <3>3 DEF FindingsHold, StateHolds
      <4>3. req[u].version < pubs'[p].version
        BY <1>3, <1>4, <1>6, <3>1, <4>2
      <4>. QED  BY <1>3, <1>4, <1>6, <2>1, <3>1, <3>3, <4>1, <4>3 DEF StateHolds, HoldsVersion
    <3>. QED  BY <3>2, <3>3
  <2>. QED  BY <2>3, <2>4, <2>5 DEF FindingsHold
<1>. QED  BY <1>4, <1>5, <1>7, <1>8, EndKeeps DEF IInv, TypeOK

\* A transaction that publishes commits, or any transaction rolls back.
LEMMA OtherEndStep ==
  ASSUME IInv, NEW t \in Txs, CommitPublish(t) \/ Abort(t)
  PROVE  IInv'
<1>1. UNCHANGED <<pubs, rootOwner, deleg>> /\ End(t)
  BY DEF CommitPublish, Abort, db
<1>2. published' \subseteq [path: Paths, pub: Publishers] /\ PublishedByOwner'
  <2>1. CASE Abort(t)
    BY <2>1 DEF Abort, db, IInv, TypeOK, PublishedByOwner
  <2>2. CASE CommitPublish(t)
    <3>1. /\ req[t].path \in Paths /\ req[t].pub \in Publishers
          /\ rootOwner[req[t].path] = req[t].pub
      BY <2>2, RequestFields DEF CommitPublish, IInv, TypeOK, FindingsHold
    <3>. QED  BY <1>1, <2>2, <3>1 DEF CommitPublish, IInv, TypeOK, PublishedByOwner
  <2>. QED  BY <2>1, <2>2
<1>3. NoCollision' /\ DelegationsFormChains'
  BY <1>1 DEF IInv, NoCollision, DelegationsFormChains, IsRoot, Active
<1>4. ASSUME NEW u \in Txs \ {t} PROVE FindingsHold(u)'
  <2>1. phase'[u] = phase[u] /\ req'[u] = req[u]
    BY <1>1 DEF IInv, TypeOK, End
  <2>. QED  BY <1>1, <2>1 DEF IInv, FindingsHold, NamespaceHolds, DelegationHolds, StateHolds,
         HoldsShare, HoldsVersion, WritesDelegation, IsRoot, Active, Verified
<1>. QED  BY <1>1, <1>2, <1>3, <1>4, EndKeeps DEF IInv, TypeOK

\* A stuttering step changes nothing the invariant reads.
LEMMA StutterStep ==
  ASSUME IInv, UNCHANGED vars
  PROVE  IInv'
<1>. USE DEF vars, IsRoot, Active, Verified
<1>1. TypeOK' /\ NoCollision' /\ DelegationsFormChains' /\ PublishedByOwner'
  BY DEF IInv, TypeOK, NoCollision, DelegationsFormChains, PublishedByOwner
<1>2. ASSUME NEW t \in Txs PROVE FindingsHold(t)'
  BY DEF IInv, FindingsHold, NamespaceHolds, DelegationHolds, StateHolds, HoldsShare,
         HoldsVersion, WritesDelegation
<1>3. ASSUME NEW t \in Txs, NEW u \in Txs, t # u PROVE Compatible(t, u)'
  BY <1>3 DEF IInv, Compatible, HoldsNamespace, HoldsPrefix, HoldsShare, HoldsVersion,
         WritesPublisher, WritesDelegation
<1>. QED  BY <1>1, <1>2, <1>3 DEF IInv

\* Every step of the specification preserves the invariant.
LEMMA StepInvariant == IInv /\ [Next]_vars => IInv'
<1>. SUFFICES ASSUME IInv, [Next]_vars PROVE IInv'
  OBVIOUS
<1>1. CASE UNCHANGED vars
  BY <1>1, StutterStep
<1>2. CASE Next
  <2>1. PICK t \in Txs : Start(t) \/ Progress(t) \/ Abort(t)
    BY <1>2 DEF Next
  <2>2. CASE Start(t)
    BY <2>2, StartStep
  <2>3. CASE Abort(t)
    BY <2>3, OtherEndStep
  <2>4. CASE Progress(t)
    BY <2>4, GuardStep, ChangeStep, CommitNamespaceStep, CommitDelegationStep,
       CommitRevokeStep, CommitStateStep, OtherEndStep DEF Progress
  <2>. QED  BY <2>1, <2>2, <2>3, <2>4
<1>. QED  BY <1>1, <1>2

\* What the insert guards, ChangeState and RevokeDelegation keep true
\* together, in every reachable state.
THEOREM InductiveInvariant == Spec => []IInv
BY InitInvariant, StepInvariant, PTL DEF Spec

\* The tables and the open transactions keep their shape.
THEOREM TypeCorrect == Spec => []TypeOK
<1>1. IInv => TypeOK
  BY DEF IInv
<1>. QED  BY <1>1, InductiveInvariant, PTL

\* ResolveOwner never has to choose between two longest prefixes.
THEOREM AuthorityIsUnambiguous == Spec => []UnambiguousAuthority
<1>1. IInv => UnambiguousAuthority
  BY NoCollisionNoChoice DEF IInv
<1>. QED  BY <1>1, InductiveInvariant, PTL

\* The active delegations of a namespace form a chain below its root.
THEOREM DelegationsNest == Spec => []DelegationsFormChains
<1>1. IInv => DelegationsFormChains
  BY DEF IInv
<1>. QED  BY <1>1, InductiveInvariant, PTL

\* RegisterResolved attributes a publication to the owner of its root.
THEOREM OwnersPublish == Spec => []PublishedByOwner
<1>1. IInv => PublishedByOwner
  BY DEF IInv
<1>. QED  BY <1>1, InductiveInvariant, PTL

-----------------------------------------------------------------------------
(* Action properties.                                                      *)

\* The tables of authority change only in four kinds of commit.
LEMMA WritersOfTables ==
  ASSUME [Next]_vars
  PROVE  \/ UNCHANGED <<pubs, rootOwner, deleg>>
         \/ \E t \in Txs : \/ CommitNamespace(t) \/ CommitRevoke(t) \/ CommitState(t)
                           \/ \E d \in Delegations : CommitDelegation(t, d)
<1>1. CASE UNCHANGED vars
  BY <1>1 DEF vars
<1>2. CASE Next
  <2>1. PICK t \in Txs : Start(t) \/ Progress(t) \/ Abort(t)
    BY <1>2 DEF Next
  <2>2. CASE Start(t)
    BY <2>2 DEF Start, BeginNamespace, BeginDelegation, BeginRevoke, BeginChange, ResolveOwner,
       Begin, db
  <2>3. CASE Abort(t)
    BY <2>3 DEF Abort, db
  <2>4. CASE Progress(t)
    BY <2>4 DEF Progress, LockNamespace, LockPrefix, CheckDelegations, CheckRoots, CheckNesting,
       ShareLock, InsertNamespace, InsertDelegation, LockDelegation, RecordState,
       UpdatePublisher, CommitPublish, Statement, db
  <2>. QED  BY <2>1, <2>2, <2>3, <2>4
<1>. QED  BY <1>1, <1>2

\* No suspension commits between the check of a grant and its commit.
LEMMA GrantIsVerified ==
  ASSUME IInv, [Next]_vars
  PROVE  GrantStep
<1>1. CASE UNCHANGED <<pubs, rootOwner, deleg>>
  BY <1>1 DEF GrantStep
<1>2. ASSUME NEW t \in Txs, CommitNamespace(t) PROVE GrantStep
  <2>1. Verified(req[t].pub) /\ req[t].path \in Paths
    BY <1>2, RequestFields DEF CommitNamespace, IInv, TypeOK, FindingsHold, HoldsShare
  <2>. QED  BY <1>2, <2>1 DEF CommitNamespace, IInv, TypeOK, GrantStep, Verified
<1>3. ASSUME NEW t \in Txs, NEW d \in Delegations, CommitDelegation(t, d) PROVE GrantStep
  <2>1. Verified(req[t].pub)
    BY <1>3 DEF CommitDelegation, IInv, FindingsHold, HoldsShare
  <2>2. deleg'[d].pub = req[t].pub /\ \A e \in Delegations \ {d} : deleg'[e] = deleg[e]
    BY <1>3 DEF CommitDelegation, DelegationOf, IInv, TypeOK
  <2>. QED  BY <1>3, <2>1, <2>2 DEF CommitDelegation, GrantStep, Verified
<1>4. ASSUME NEW t \in Txs, CommitRevoke(t) PROVE GrantStep
  <2>1. \A e \in Delegations : deleg'[e] = deleg[e] \/ deleg'[e].state = "revoked"
    BY <1>4 DEF CommitRevoke, Revoked, IInv, TypeOK
  <2>. QED  BY <1>4, <2>1 DEF CommitRevoke, GrantStep
<1>5. ASSUME NEW t \in Txs, CommitState(t) PROVE GrantStep
  BY <1>5 DEF CommitState, GrantStep
<1>. QED  BY <1>1, <1>2, <1>3, <1>4, <1>5, WritersOfTables

\* No commit overwrites a root, a settled delegation or a newer state.
LEMMA HistoryGrows ==
  ASSUME IInv, [Next]_vars
  PROVE  HistoryStep
<1>1. CASE UNCHANGED <<pubs, rootOwner, deleg>>
  BY <1>1 DEF HistoryStep
<1>2. ASSUME NEW t \in Txs, CommitNamespace(t) PROVE HistoryStep
  <2>1. ~IsRoot(req[t].path)
    BY <1>2 DEF CommitNamespace, IInv, FindingsHold, NamespaceHolds
  <2>. QED  BY <1>2, <2>1 DEF CommitNamespace, IInv, TypeOK, HistoryStep, IsRoot
<1>3. ASSUME NEW t \in Txs, NEW d \in Delegations, CommitDelegation(t, d) PROVE HistoryStep
  BY <1>3 DEF CommitDelegation, IInv, TypeOK, HistoryStep
<1>4. ASSUME NEW t \in Txs, CommitRevoke(t) PROVE HistoryStep
  <2>1. Active(req[t].id)
    BY <1>4 DEF CommitRevoke, IInv, FindingsHold, WritesDelegation
  <2>. QED  BY <1>4, <2>1 DEF CommitRevoke, IInv, TypeOK, HistoryStep
<1>5. ASSUME NEW t \in Txs, CommitState(t) PROVE HistoryStep
  <2>1. /\ req[t].version = pubs[req[t].pub].version
        /\ Transition(pubs[req[t].pub].state, req[t].to)
    BY <1>5 DEF CommitState, IInv, FindingsHold, StateHolds, HoldsVersion
  <2>2. \A p \in Publishers : pubs'[p] # pubs[p] =>
          /\ p = req[t].pub
          /\ pubs'[p] = [state |-> req[t].to, version |-> req[t].version + 1]
    BY <1>5 DEF CommitState, IInv, TypeOK
  <2>. QED  BY <1>5, <2>1, <2>2 DEF CommitState, HistoryStep
<1>. QED  BY <1>1, <1>2, <1>3, <1>4, <1>5, WritersOfTables

\* FOR SHARE keeps a Publisher verified until the grant it receives commits.
THEOREM GrantsNeedVerification == Spec => GrantedToVerified
<1>1. IInv /\ [Next]_vars => GrantStep
  BY GrantIsVerified
<1>. QED  BY <1>1, InductiveInvariant, PTL DEF Spec, GrantedToVerified

\* Ownership, delegation and Publisher history is append-only.
THEOREM AppendOnlyHistory == Spec => HistoryIsAppendOnly
<1>1. IInv /\ [Next]_vars => HistoryStep
  BY HistoryGrows
<1>. QED  BY <1>1, InductiveInvariant, PTL DEF Spec, HistoryIsAppendOnly
-----------------------------------------------------------------------------
(* The refinement of SerialAuthority.                                      *)

\* Both modules have the same transitions of a Publisher.
LEMMA TransitionsAgree ==
  ASSUME NEW from \in PublisherStates, NEW to, Transition(from, to)
  PROVE  to \in Serial!Successors(from)
BY SMT DEF Transition, Serial!Successors, PublisherStates

LEMMA CommitNamespaceCreates ==
  ASSUME IInv, NEW t \in Txs, CommitNamespace(t)
  PROVE  Serial!CreateRoot(req[t].path, req[t].pub)
<1>1. FindingsHold(t)
  BY DEF IInv
<1>2. /\ \A d \in Delegations : Active(d) => deleg[d].prefix # req[t].path
      /\ ~IsRoot(req[t].path) /\ Verified(req[t].pub)
  BY <1>1 DEF CommitNamespace, FindingsHold, NamespaceHolds, HoldsShare
<1>. QED  BY <1>2 DEF CommitNamespace, Active, IsRoot, Verified, Serial!CreateRoot,
                     Serial!Verified, Serial!IsRoot, Serial!Delegated, Serial!Active

LEMMA CommitDelegationCreates ==
  ASSUME IInv, NEW t \in Txs, NEW d \in Delegations, CommitDelegation(t, d)
  PROVE  Serial!CreateDelegation(d, req[t].ns, req[t].path, req[t].pub)
<1>1. FindingsHold(t)
  BY DEF IInv
<1>2. /\ IsRoot(req[t].ns) /\ Below(req[t].path, req[t].ns) /\ ~IsRoot(req[t].path)
      /\ \A e \in Delegations :
           Active(e) /\ deleg[e].ns = req[t].ns => Nested(deleg[e].prefix, req[t].path)
      /\ \A e \in Delegations : Active(e) => deleg[e].prefix # req[t].path
      /\ Verified(req[t].pub)
  BY <1>1 DEF CommitDelegation, FindingsHold, DelegationHolds, HoldsShare
<1>3. /\ deleg[d].state = "absent"
      /\ deleg' = [deleg EXCEPT ![d] = [state |-> "active", ns |-> req[t].ns,
                                         prefix |-> req[t].path, pub |-> req[t].pub]]
      /\ UNCHANGED <<pubs, rootOwner>>
  BY DEF CommitDelegation, DelegationOf, NoDelegation
<1>4. \A e \in Serial!Active : deleg[e].ns = req[t].ns =>
        \/ Serial!StrictlyBelow(req[t].path, deleg[e].prefix)
        \/ Serial!StrictlyBelow(deleg[e].prefix, req[t].path)
  BY <1>2 DEF Active, Nested, Below, Serial!Active, Serial!StrictlyBelow
<1>5. ~Serial!Delegated(req[t].path)
  BY <1>2 DEF Active, Serial!Delegated, Serial!Active
<1>6. /\ Serial!Verified(req[t].pub) /\ Serial!IsRoot(req[t].ns) /\ ~Serial!IsRoot(req[t].path)
      /\ Serial!StrictlyBelow(req[t].path, req[t].ns)
  BY <1>2 DEF Verified, IsRoot, Below, Serial!Verified, Serial!IsRoot, Serial!StrictlyBelow
<1>. QED  BY <1>3, <1>4, <1>5, <1>6 DEF Serial!CreateDelegation

LEMMA CommitRevokeRevokes ==
  ASSUME IInv, NEW t \in Txs, CommitRevoke(t)
  PROVE  req[t].id \in Delegations /\ Serial!Revoke(req[t].id)
<1>. DEFINE d == req[t].id
<1>1. d \in Delegations /\ Active(d)
  BY RequestFields DEF IInv, TypeOK, CommitRevoke, FindingsHold, WritesDelegation
<1>2. deleg[d] \in DelegationRow
  BY <1>1 DEF IInv, TypeOK, Active, NoDelegation
<1>3. Revoked(deleg[d]) = [deleg[d] EXCEPT !.state = "revoked"]
  BY <1>2 DEF Revoked, DelegationRow
<1>4. deleg' = [deleg EXCEPT ![d] = Revoked(@)] /\ UNCHANGED <<pubs, rootOwner>>
  BY DEF CommitRevoke
<1>. HIDE DEF d
<1>5. deleg' = [deleg EXCEPT ![d].state = "revoked"]
  BY <1>3, <1>4
<1>6. Serial!Revoke(d)
  BY <1>1, <1>4, <1>5 DEF Active, Serial!Revoke, Serial!Active
<1>. QED  BY <1>1, <1>6 DEF d

LEMMA CommitStateChanges ==
  ASSUME IInv, NEW t \in Txs, CommitState(t)
  PROVE  /\ req[t].pub \in Publishers
         /\ req[t].to \in Serial!Successors(pubs[req[t].pub].state)
         /\ Serial!ChangeState(req[t].pub, req[t].to)
<1>. DEFINE p == req[t].pub
<1>1. p \in Publishers /\ pubs[p].state \in PublisherStates
  BY RequestFields DEF IInv, TypeOK, CommitState
<1>2. req[t].version = pubs[p].version /\ Transition(pubs[p].state, req[t].to)
  BY DEF CommitState, IInv, FindingsHold, StateHolds, HoldsVersion
<1>3. req[t].to \in Serial!Successors(pubs[p].state)
  BY <1>1, <1>2, TransitionsAgree
<1>4. /\ pubs' = [pubs EXCEPT ![p] = [state |-> req[t].to, version |-> @.version + 1]]
      /\ UNCHANGED <<rootOwner, deleg>>
  BY <1>2 DEF CommitState
<1>. QED  BY <1>1, <1>3, <1>4 DEF Serial!ChangeState

\* Every step is a step of SerialAuthority, or leaves its tables alone.
LEMMA RefinementStep ==
  ASSUME IInv, [Next]_vars
  PROVE  [Serial!Next]_(Serial!vars)
<1>1. CASE UNCHANGED <<pubs, rootOwner, deleg>>
  BY <1>1 DEF Serial!vars
<1>2. ASSUME NEW t \in Txs, CommitNamespace(t) PROVE Serial!Next
  <2>1. req[t].path \in Paths /\ req[t].pub \in Publishers
    BY <1>2, RequestFields DEF CommitNamespace, IInv, TypeOK
  <2>. QED  BY <1>2, <2>1, CommitNamespaceCreates DEF Serial!Next
<1>3. ASSUME NEW t \in Txs, NEW d \in Delegations, CommitDelegation(t, d) PROVE Serial!Next
  <2>1. req[t].ns \in Paths /\ req[t].path \in Paths /\ req[t].pub \in Publishers
    BY <1>3, RequestFields DEF CommitDelegation, IInv, TypeOK
  <2>. QED  BY <1>3, <2>1, CommitDelegationCreates DEF Serial!Next
<1>4. ASSUME NEW t \in Txs, CommitRevoke(t) PROVE Serial!Next
  BY <1>4, CommitRevokeRevokes DEF Serial!Next
<1>5. ASSUME NEW t \in Txs, CommitState(t) PROVE Serial!Next
  BY <1>5, CommitStateChanges DEF Serial!Next
<1>. QED  BY <1>1, <1>2, <1>3, <1>4, <1>5, WritersOfTables

\* Concurrent creations of roots and delegations, revocations and changes of
\* Publishers have the effect of executing them one at a time, each with all its
\* conditions at once, for any paths, Publishers, transactions and requests.
THEOREM Refinement == Spec => ImplementsSerialAuthority
<1>1. Init => Serial!Init
  BY DEF Init, Serial!Init, NoDelegation
<1>2. IInv /\ [Next]_vars => [Serial!Next]_(Serial!vars)
  BY RefinementStep
<1>. QED  BY <1>1, <1>2, InductiveInvariant, PTL DEF Spec, ImplementsSerialAuthority, Serial!Spec
-----------------------------------------------------------------------------
(* Waiting.  The locks are taken in an order: a transaction only waits for *)
(* transactions that have come further than itself.                        *)

\* The transactions whose locks the next statement of t waits for.
WaitsFor(t) ==
  {u \in Txs :
     \/ /\ req[t].kind = "delegation" /\ phase[t] = "begun"
        /\ u \in NamespaceHolders(req[t].ns)
     \/ /\ \/ req[t].kind = "namespace" /\ phase[t] = "begun"
           \/ req[t].kind = "delegation" /\ phase[t] = "namespaceLocked"
        /\ u \in PrefixHolders(req[t].path)
     \/ /\ req[t].kind \in {"namespace", "delegation"} /\ phase[t] = "checked"
        /\ Verified(req[t].pub) /\ u \in PublisherWriters(req[t].pub)
     \/ /\ req[t].kind = "delegation" /\ phase[t] = "shared"
        /\ \E d \in Delegations :
             Active(d) /\ deleg[d].prefix = req[t].path /\ u \in Revokers(d)
     \/ /\ req[t].kind = "revoke" /\ phase[t] = "begun"
        /\ u \in Revokers(req[t].id)
     \/ /\ req[t].kind = "state" /\ phase[t] = "begun"
        /\ HoldsVersion(u) /\ req[u].pub = req[t].pub /\ req[u].version = req[t].version
     \/ /\ req[t].kind = "state" /\ phase[t] = "recorded"
        /\ u \in ShareHolders(req[t].pub) \cup PublisherWriters(req[t].pub)}

Rank(t) ==
  CASE phase[t] = "idle" -> 0
    [] phase[t] = "begun" ->
         IF req[t].kind = "delegation" THEN 1 ELSE IF req[t].kind = "state" THEN 3 ELSE 2
    [] phase[t] = "namespaceLocked" -> 2
    [] phase[t] \in {"prefixLocked", "rootChecked", "checked"} -> 3
    [] phase[t] = "recorded" -> 4
    [] phase[t] = "shared" -> 5
    [] phase[t] = "written" -> 6

\* The values of Rank.
LEMMA RankValues ==
  ASSUME TypeOK, NEW t \in Txs
  PROVE  /\ Rank(t) \in 0 .. 6
         /\ phase[t] = "begun" =>
              Rank(t) = IF req[t].kind = "delegation" THEN 1
                        ELSE IF req[t].kind = "state" THEN 3 ELSE 2
         /\ phase[t] = "namespaceLocked" => Rank(t) = 2
         /\ phase[t] \in {"prefixLocked", "rootChecked", "checked"} => Rank(t) = 3
         /\ phase[t] = "recorded" => Rank(t) = 4
         /\ phase[t] = "shared" => Rank(t) = 5
         /\ phase[t] = "written" => Rank(t) = 6
<1>1. phase[t] \in Phases \cup {"idle"}
  BY DEF TypeOK
<1>. QED  BY <1>1, SMT DEF Rank, Phases

\* Waiting goes upwards.
LEMMA WaitsGoUp ==
  ASSUME TypeOK, NEW t \in Txs, NEW u \in WaitsFor(t)
  PROVE  u \in Txs /\ phase[u] # "idle" /\ Rank(t) < Rank(u)
<1>1. u \in Txs
  BY DEF WaitsFor
<1>. USE <1>1, RankValues
<1>2. CASE req[t].kind = "delegation" /\ phase[t] = "begun" /\ u \in NamespaceHolders(req[t].ns)
  BY <1>2, SMT DEF NamespaceHolders, HoldsNamespace
<1>3. CASE /\ \/ req[t].kind = "namespace" /\ phase[t] = "begun"
              \/ req[t].kind = "delegation" /\ phase[t] = "namespaceLocked"
           /\ u \in PrefixHolders(req[t].path)
  BY <1>3, SMT DEF PrefixHolders, HoldsPrefix
<1>4. CASE phase[t] = "checked" /\ u \in PublisherWriters(req[t].pub)
  BY <1>4, SMT DEF PublisherWriters, WritesPublisher
<1>5. CASE phase[t] = "shared" /\ \E d \in Delegations : u \in Revokers(d)
  BY <1>5, SMT DEF Revokers, WritesDelegation
<1>6. CASE req[t].kind = "revoke" /\ phase[t] = "begun" /\ u \in Revokers(req[t].id)
  BY <1>6, SMT DEF Revokers, WritesDelegation
<1>7. CASE req[t].kind = "state" /\ phase[t] = "begun" /\ HoldsVersion(u)
  BY <1>7, SMT DEF HoldsVersion
<1>8. CASE /\ phase[t] = "recorded"
           /\ u \in ShareHolders(req[t].pub) \cup PublisherWriters(req[t].pub)
  BY <1>8, SMT DEF ShareHolders, HoldsShare, PublisherWriters, WritesPublisher
<1>. QED  BY <1>2, <1>3, <1>4, <1>5, <1>6, <1>7, <1>8, SMT DEF WaitsFor

\* The phases that a transaction of each kind goes through.
PhaseInv ==
  \A t \in Txs :
    /\ phase[t] = "idle" => req[t].kind = "none"
    /\ req[t].kind = "none" => phase[t] = "idle"
    /\ req[t].kind = "namespace" =>
         phase[t] \in {"begun", "prefixLocked", "checked", "shared", "written"}
    /\ req[t].kind = "delegation" =>
         phase[t] \in {"begun", "namespaceLocked", "prefixLocked", "rootChecked", "checked",
                       "shared", "written"}
    /\ req[t].kind = "revoke" => phase[t] \in {"begun", "written"}
    /\ req[t].kind = "state" => phase[t] \in {"begun", "recorded", "written"}
    /\ req[t].kind = "publish" => phase[t] = "begun"

\* The phases that a statement may lead to.
NextPhase(t, next) ==
  \/ req[t].kind = "delegation" /\ next = "namespaceLocked"
  \/ req[t].kind \in {"namespace", "delegation"} /\ next = "prefixLocked"
  \/ req[t].kind = "delegation" /\ next = "rootChecked"
  \/ req[t].kind \in {"namespace", "delegation"} /\ next \in {"checked", "shared", "written"}
  \/ req[t].kind = "revoke" /\ next = "written"
  \/ req[t].kind = "state" /\ next \in {"recorded", "written"}

\* A statement that moves a transaction to such a phase, or rolls it back.
LEMMA PhaseStatement ==
  ASSUME TypeOK, PhaseInv, NEW t \in Txs, NEW ok \in BOOLEAN, NEW next,
         Statement(t, ok, next), NextPhase(t, next)
  PROVE  PhaseInv'
<1>1. \A u \in Txs \ {t} : phase'[u] = phase[u] /\ req'[u] = req[u]
  BY DEF Statement, TypeOK
<1>2. CASE ok
  <2>1. phase'[t] = next /\ req'[t] = req[t]
    BY <1>2 DEF Statement, TypeOK
  <2>. QED  BY <1>1, <2>1 DEF PhaseInv, NextPhase
<1>3. CASE ~ok
  <2>1. phase'[t] = "idle" /\ req'[t] = NoRequest
    BY <1>3 DEF Statement, TypeOK
  <2>. QED  BY <1>1, <2>1 DEF PhaseInv, NoRequest
<1>. QED  BY <1>2, <1>3

LEMMA PhasesFollow == Spec => []PhaseInv
<1>1. Init => PhaseInv
  BY DEF Init, PhaseInv, NoRequest
<1>2. ASSUME TypeOK, PhaseInv, [Next]_vars PROVE PhaseInv'
  <2>1. CASE UNCHANGED vars
    BY <1>2, <2>1 DEF PhaseInv, vars
  <2>2. ASSUME NEW t \in Txs, Start(t) PROVE PhaseInv'
    <3>1. PICK r \in Requests : Begin(t, r)
      BY <2>2 DEF Start, BeginNamespace, BeginDelegation, BeginRevoke, BeginChange, ResolveOwner
    <3>2. r \in Request /\ r.kind # "none"
      BY NamespaceAssumption, RequestFields
    <3>. QED  BY <1>2, <3>1, <3>2 DEF PhaseInv, Begin, TypeOK
  <2>3. ASSUME NEW t \in Txs, End(t) PROVE PhaseInv'
    BY <1>2, <2>3 DEF PhaseInv, End, TypeOK, NoRequest
  <2>4. ASSUME NEW t \in Txs,
               \/ LockNamespace(t) \/ LockPrefix(t) \/ CheckDelegations(t) \/ CheckRoots(t)
               \/ CheckNesting(t) \/ ShareLock(t) \/ InsertNamespace(t) \/ InsertDelegation(t)
               \/ LockDelegation(t) \/ RecordState(t) \/ UpdatePublisher(t)
        PROVE  PhaseInv'
    <3>1. CASE LockNamespace(t)
      BY <1>2, <3>1, PhaseStatement DEF LockNamespace, NextPhase
    <3>2. CASE LockPrefix(t)
      <4>1. NextPhase(t, "prefixLocked") /\ Statement(t, TRUE, "prefixLocked")
        BY <3>2 DEF LockPrefix, NextPhase
      <4>. QED  BY <1>2, <4>1, PhaseStatement
    <3>3. CASE CheckDelegations(t)
      BY <1>2, <3>3, PhaseStatement DEF CheckDelegations, NextPhase
    <3>4. CASE CheckRoots(t)
      BY <1>2, <3>4, PhaseStatement DEF CheckRoots, NextPhase
    <3>5. CASE CheckNesting(t)
      BY <1>2, <3>5, PhaseStatement DEF CheckNesting, NextPhase
    <3>6. CASE ShareLock(t)
      BY <1>2, <3>6, PhaseStatement DEF ShareLock, Verified, NextPhase
    <3>7. CASE InsertNamespace(t)
      BY <1>2, <3>7, PhaseStatement DEF InsertNamespace, NextPhase
    <3>8. CASE InsertDelegation(t)
      BY <1>2, <3>8, PhaseStatement DEF InsertDelegation, NextPhase
    <3>9. CASE LockDelegation(t)
      BY <1>2, <3>9, PhaseStatement DEF LockDelegation, Active, NextPhase
    <3>10. CASE RecordState(t)
      BY <1>2, <3>10, PhaseStatement DEF RecordState, NextPhase
    <3>11. CASE UpdatePublisher(t)
      BY <1>2, <3>11, PhaseStatement DEF UpdatePublisher, NextPhase
    <3>. QED  BY <2>4, <3>1, <3>2, <3>3, <3>4, <3>5, <3>6, <3>7, <3>8, <3>9, <3>10, <3>11
  <2>. QED  BY <1>2, <2>1, <2>2, <2>3, <2>4 DEF Next, Progress, Abort, CommitNamespace,
              CommitDelegation, CommitRevoke, CommitState, CommitPublish
<1>. QED  BY <1>1, <1>2, TypeCorrect, PTL DEF Spec

\* A transaction that waits for nobody is not blocked.
LEMMA NoWaitNoBlock ==
  ASSUME TypeOK, PhaseInv, NEW t \in Txs, phase[t] # "idle", WaitsFor(t) = {}
  PROVE  Unblocked(t)
<1>1. req[t].kind \in {"namespace", "delegation", "revoke", "state", "publish"}
  <2>1. req[t].kind \in {"none", "namespace", "delegation", "revoke", "state", "publish"}
    BY RequestFields DEF TypeOK
  <2>. QED  BY <2>1 DEF PhaseInv
<1>2. \A u \in Txs : u \notin WaitsFor(t)
  OBVIOUS
<1>. USE DEF PhaseInv, Unblocked
<1>3. CASE req[t].kind = "namespace"
  BY <1>2, <1>3, SMT DEF WaitsFor, PrefixHolders, PublisherWriters
<1>4. CASE req[t].kind = "delegation"
  <2>1. CASE phase[t] \in {"begun", "namespaceLocked", "checked"}
    BY <1>2, <1>4, <2>1, SMT DEF WaitsFor, NamespaceHolders, PrefixHolders, PublisherWriters
  <2>2. CASE phase[t] = "shared"
    BY <1>2, <1>4, <2>2, SMT DEF WaitsFor, Revokers
  <2>3. CASE phase[t] \in {"prefixLocked", "rootChecked", "written"}
    BY <1>4, <2>3, SMT
  <2>. QED  BY <1>4, <2>1, <2>2, <2>3
<1>5. CASE req[t].kind = "revoke"
  BY <1>2, <1>5, SMT DEF WaitsFor, Revokers
<1>6. CASE req[t].kind = "state"
  BY <1>2, <1>6, SMT DEF WaitsFor, ShareHolders, PublisherWriters
<1>7. CASE req[t].kind = "publish"
  BY <1>7, SMT
<1>. QED  BY <1>1, <1>3, <1>4, <1>5, <1>6, <1>7

\* The transactions never wait for each other in a circle, for any number of
\* them: the one that has come furthest waits for nobody.
THEOREM DeadlockFreedom == Spec => []SomebodyProceeds
<1>1. ASSUME TypeOK, PhaseInv PROVE SomebodyProceeds
  <2>. SUFFICES ASSUME NEW s \in Txs, phase[s] # "idle"
                PROVE  \E t \in Txs : Unblocked(t)
    BY DEF SomebodyProceeds
  <2>. DEFINE Ranks == {Rank(t) : t \in {u \in Txs : phase[u] # "idle"}}
  <2>1. Ranks \subseteq 0 .. 6 /\ Rank(s) \in Ranks
    BY <1>1, RankValues
  <2>2. PICK r \in Ranks : \A k \in Ranks : k <= r
    <3>. HIDE DEF Ranks
    <3>. QED  BY <2>1, GreatestElement
  <2>3. PICK t \in Txs : phase[t] # "idle" /\ Rank(t) = r
    OBVIOUS
  <2>4. ASSUME NEW u \in WaitsFor(t) PROVE FALSE
    <3>1. u \in Txs /\ phase[u] # "idle" /\ Rank(t) < Rank(u)
      BY <1>1, <2>4, WaitsGoUp
    <3>2. Rank(u) \in Ranks /\ Rank(u) \in 0 .. 6 /\ Rank(t) \in 0 .. 6
      BY <1>1, <3>1, RankValues
    <3>3. Rank(u) <= Rank(t)
      BY <2>2, <2>3, <3>2
    <3>. QED  BY <3>1, <3>2, <3>3
  <2>5. WaitsFor(t) = {}
    BY <2>4
  <2>. QED  BY <1>1, <2>3, <2>5, NoWaitNoBlock
<1>. QED  BY <1>1, TypeCorrect, PhasesFollow, PTL
=============================================================================
