----------------------------- MODULE ListingProofs -----------------------------
(***************************************************************************)
(* Proofs about the listings, for any clients, requests, grants and page   *)
(* sizes.  The invariant says of every client what its cursor separates:   *)
(* of the rows its traversal owes, those up to the cursor have been        *)
(* returned; a cursor belongs to the scope of the traversal it came from,  *)
(* and that scope to the identity behind the client's last request.        *)
(***************************************************************************)
EXTENDS Listing, FiniteSetTheorems, TLAPS

Functions_ ==
  /\ DOMAIN scope = Clients /\ DOMAIN token = Clients /\ DOMAIN cursor = Clients
  /\ DOMAIN trail = Clients /\ DOMAIN due = Clients /\ DOMAIN status = Clients

\* A row was created under a grant for its collection in its tenant.
Granted(row) ==
  \E g \in Grants : /\ g.tenant = row.tenant /\ g.principal = row.by
                    /\ ActionOfRole(g.role) = ActionFor(row.endpoint)

RowsInv ==
  /\ IsFiniteSet(table)
  /\ \A row \in table \cup pending : row.id \in Nat /\ Granted(row)

\* Scope s is what request r may ask for.
ScopeFor(s, r) ==
  /\ s.endpoint = r.endpoint /\ s.query = r.query
  /\ mode = "local-development" => s.tenant = LocalTenant
  /\ mode # "local-development" => \A v \in Tenants(r.token) : s.tenant = TenantByValue[v]

\* What has been received of what is owed, up to a position.
Exact(received, owed, position) ==
  /\ {row \in owed : row.id <= position} \subseteq received
  /\ \A row \in received : row.id <= position

WalkInv(c) ==
  /\ status[c] \in {"none", "open", "complete"}
  /\ trail[c] \subseteq table /\ due[c] \subseteq table
  /\ status[c] # "open" => cursor[c] = NoCursor
  /\ status[c] = "none" => trail[c] = {}
  /\ status[c] = "complete" => due[c] \subseteq trail[c]
  /\ status[c] = "open" =>
       /\ cursor[c].position \in Nat /\ cursor[c].scope = scope[c]
       /\ Exact(trail[c], due[c], cursor[c].position)
  /\ status[c] # "none" =>
       /\ \A row \in trail[c] \cup due[c] : Matches(row, scope[c])
       /\ ScopeFor(scope[c], token[c])

IInv == Functions_ /\ RowsInv /\ \A c \in Clients : WalkInv(c)

-----------------------------------------------------------------------------
(* Identities *)

\* A token that maps has one mapped value, and the identity is of its tenant.
LEMMA OneTenant ==
  ASSUME NEW x, IsFiniteSet(x.tenants), Maps(x), NEW v \in Tenants(x)
  PROVE  TokenIdentity(x).tenant = TenantByValue[v]
<1> DEFINE T == Tenants(x)
<1>1. IsFiniteSet(T) /\ Cardinality(T) = 1
  BY FS_Subset DEF Maps, Tenants
<1>2. PICK y : T = {y}
  BY <1>1, FS_Singleton, Zenon
<1>3. v = y /\ \A z \in x.tenants : z \in DOMAIN TenantByValue => z = y
  BY <1>2 DEF Tenants
<1>4. v \in x.tenants /\ v \in DOMAIN TenantByValue
  BY DEF Tenants
<1>5. (CHOOSE z \in x.tenants : z \in DOMAIN TenantByValue) = v
  BY <1>3, <1>4
<1> QED BY <1>5 DEF TokenIdentity

\* An authenticated request speaks for the tenant its scope names.
LEMMA ScopesAreOwn ==
  ASSUME NEW r \in Requests, Authenticate(mode, r, now) # NoIdentity
  PROVE  ScopeFor(Scope(Authenticate(mode, r, now), r), r)
<1> DEFINE who == Authenticate(mode, r, now)
<1>1. CASE mode = "local-development"
  <2>1. who.tenant = LocalTenant
    BY <1>1 DEF Authenticate, LocalIdentity
  <2>2. ScopeFor(Scope(who, r), r)
    <3> HIDE DEF who
    <3> QED BY <1>1, <2>1 DEF ScopeFor, Scope
  <2> QED BY <2>2
<1>2. CASE mode # "local-development"
  <2>1. r.header = "bearer" /\ Maps(r.token) /\ who = TokenIdentity(r.token)
    BY <1>2 DEF Authenticate
  <2>2. IsFiniteSet(r.token.tenants)
    BY <2>1, ListingAssumption
  <2>3. \A v \in Tenants(r.token) : who.tenant = TenantByValue[v]
    BY <2>1, <2>2, OneTenant
  <2>4. ScopeFor(Scope(who, r), r)
    <3> HIDE DEF who
    <3> QED BY <1>2, <2>3 DEF ScopeFor, Scope
  <2> QED BY <2>4
<1> QED BY <1>1, <1>2

-----------------------------------------------------------------------------
(* Pages *)

\* Extending an exact part of a traversal by a page that is not the last.
LEMMA PageExtends ==
  ASSUME NEW rows, NEW values \in SUBSET rows, NEW items \in SUBSET values,
         NEW n \in Nat, NEW m \in Nat, NEW received, NEW owed, NEW after \in Int,
         NEW position, \A row \in rows \cup owed \cup received : row.id \in Nat,
         FirstOf(n, rows, values), FirstOf(m, values, items),
         Position(values, items, position),
         \A row \in rows : row.id > after,
         {row \in owed : row.id > after} \subseteq rows,
         Exact(received, owed, after)
  PROVE  position \in Nat /\ Exact(received \cup items, owed, position)
<1>1. PICK z \in items : z.id = position
  BY DEF Position
<1>2. position \in Nat /\ position > after
  BY <1>1
<1>3. ASSUME NEW row \in owed, row.id <= position
      PROVE  row \in received \cup items
  <2>1. CASE row.id <= after
    BY <2>1 DEF Exact
  <2>2. CASE row.id > after
    <3>1. row \in rows
      BY <2>2
    <3>2. row \in values
      BY <1>1, <1>3, <3>1 DEF FirstOf
    <3>3. row \in items
      BY <1>1, <1>3, <3>2 DEF FirstOf
    <3> QED BY <3>3
  <2> QED BY <2>1, <2>2
<1>4. ASSUME NEW row \in received \cup items
      PROVE  row.id <= position
  <2>1. CASE row \in received
    BY <1>2, <2>1 DEF Exact
  <2>2. CASE row \in items
    BY <2>2 DEF Position
  <2> QED BY <2>1, <2>2
<1> QED BY <1>2, <1>3, <1>4 DEF Exact

\* The last page has all the rows that are left.
LEMMA LastPage ==
  ASSUME NEW rows, IsFiniteSet(rows), NEW values \in SUBSET rows,
         NEW items \in SUBSET values, NEW n \in Nat,
         FirstOf(n + 1, rows, values), FirstOf(n, values, items),
         ~(Cardinality(values) > n)
  PROVE  items = rows
<1>1. IsFiniteSet(values) /\ Cardinality(values) \in Nat
  BY FS_Subset, FS_CardinalityType
<1>2. IsFiniteSet(items) /\ Cardinality(items) \in Nat
      /\ (Cardinality(values) = Cardinality(items) => values = items)
      /\ Cardinality(items) <= Cardinality(values)
  BY <1>1, FS_Subset, FS_CardinalityType
<1>3. values = rows
  BY <1>1 DEF FirstOf
<1>4. items = values
  <2>1. CASE Cardinality(items) < n
    BY <2>1 DEF FirstOf
  <2>2. CASE ~(Cardinality(items) < n)
    BY <1>1, <1>2, <2>2
  <2> QED BY <2>1, <2>2
<1> QED BY <1>3, <1>4

LEMMA PageStep ==
  ASSUME IInv, NEW c \in Clients, NEW r, NEW s, s.size \in Nat,
         NEW after \in Int, NEW received \in SUBSET table, NEW owed \in SUBSET table,
         \A row \in received \cup owed : Matches(row, s),
         Exact(received, owed, after), ScopeFor(s, r),
         Page(c, r, s, after, received, owed)
  PROVE  IInv'
<1> DEFINE rows == {row \in table : Matches(row, s) /\ row.id > after}
           Shown(values, items) ==
             /\ FirstOf(s.size + 1, rows, values)
             /\ FirstOf(s.size, values, items)
             /\ scope' = [scope EXCEPT ![c] = s]
             /\ token' = [token EXCEPT ![c] = r]
             /\ trail' = [trail EXCEPT ![c] = received \cup items]
             /\ due' = [due EXCEPT ![c] = owed]
             /\ IF Cardinality(values) > s.size
                THEN /\ status' = [status EXCEPT ![c] = "open"]
                     /\ \E position \in {x.id : x \in values} :
                          /\ Position(values, items, position)
                          /\ cursor' = [cursor EXCEPT ![c] = Encode(s, position)]
                ELSE /\ status' = [status EXCEPT ![c] = "complete"]
                     /\ cursor' = [cursor EXCEPT ![c] = NoCursor]
             /\ UNCHANGED <<mode, now, table, pending>>
<1>0. PICK values \in SUBSET rows : \E items \in SUBSET values : Shown(values, items)
  BY Zenon DEF Page
<1>1. PICK items \in SUBSET values : Shown(values, items)
  <2> HIDE DEF Shown
  <2> QED BY <1>0
<1>2. \A row \in table : row.id \in Nat
  BY DEF IInv, RowsInv
<1>3. {row \in owed : row.id > after} \subseteq rows
  OBVIOUS
<1>4. RowsInv'
  BY <1>1 DEF IInv, RowsInv, Granted
<1>5. Functions_'
  BY <1>1 DEF IInv, Functions_
<1>6. ASSUME NEW d \in Clients \ {c}
      PROVE  WalkInv(d)'
  <2>1. /\ scope'[d] = scope[d] /\ token'[d] = token[d] /\ trail'[d] = trail[d]
        /\ due'[d] = due[d] /\ status'[d] = status[d] /\ cursor'[d] = cursor[d]
    BY <1>1 DEF IInv, Functions_
  <2>2. WalkInv(d)
    BY DEF IInv
  <2> QED BY <1>1, <2>1, <2>2 DEF WalkInv, Exact, Matches, ScopeFor
<1>7. WalkInv(c)'
  <2>1. /\ scope'[c] = s /\ token'[c] = r /\ trail'[c] = received \cup items /\ due'[c] = owed
        /\ table' = table /\ mode' = mode
    BY <1>1 DEF IInv, Functions_
  <2>2. \A row \in trail'[c] \cup due'[c] : Matches(row, s) /\ row \in table
    BY <2>1
  <2>3. ScopeFor(scope[c], token[c])'
    BY <2>1 DEF ScopeFor
  <2>4. CASE Cardinality(values) > s.size
    <3>1. PICK position : /\ Position(values, items, position)
                          /\ cursor' = [cursor EXCEPT ![c] = Encode(s, position)]
      BY <1>1, <2>4
    <3>2. position \in Nat /\ Exact(received \cup items, owed, position)
      <4>1. \A row \in rows : row.id > after
        OBVIOUS
      <4>2. \A row \in rows \cup owed \cup received : row.id \in Nat
        BY <1>2
      <4>3. FirstOf(s.size + 1, rows, values) /\ FirstOf(s.size, values, items)
        BY <1>1
      <4>4. s.size + 1 \in Nat
        OBVIOUS
      <4> HIDE DEF rows, Shown
      <4> QED BY <1>3, <3>1, <4>1, <4>2, <4>3, <4>4, PageExtends
    <3>3. status'[c] = "open" /\ cursor'[c].position = position /\ cursor'[c].scope = s
      BY <1>1, <2>4, <3>1 DEF IInv, Functions_, Encode
    <3> QED BY <2>1, <2>2, <2>3, <3>2, <3>3 DEF WalkInv, Exact, Matches
  <2>5. CASE ~(Cardinality(values) > s.size)
    <3>1. items = rows
      <4>1. IsFiniteSet(rows)
        BY FS_Subset DEF IInv, RowsInv
      <4> HIDE DEF rows
      <4> QED BY <1>1, <2>5, <4>1, LastPage
    <3>2. owed \subseteq received \cup items
      BY <1>2, <3>1 DEF Exact
    <3>3. status'[c] = "complete" /\ cursor'[c] = NoCursor
      BY <1>1, <2>5 DEF IInv, Functions_
    <3> QED BY <2>1, <2>2, <2>3, <3>2, <3>3 DEF WalkInv, Matches
  <2> QED BY <2>4, <2>5
<1> QED BY <1>4, <1>5, <1>6, <1>7 DEF IInv

-----------------------------------------------------------------------------
(* Steps *)

LEMMA FirstStep ==
  ASSUME IInv, NEW c \in Clients, NEW r \in Requests, ListFirst(c, r)
  PROVE  IInv'
<1> DEFINE s == Scope(Authenticate(mode, r, now), r)
           owed == {row \in table : Matches(row, s)}
<1>1. /\ Authenticate(mode, r, now) # NoIdentity /\ Listable(r)
      /\ Page(c, r, s, -1, {}, owed)
  BY DEF ListFirst
<1>2. s.size \in Nat
  <2>1. s.size = r.size
    BY DEF Scope
  <2> QED BY <1>1, <2>1, ListingAssumption DEF Listable
<1>3. ScopeFor(s, r)
  BY <1>1, ScopesAreOwn
<1>4. \A row \in table : row.id \in Nat
  BY DEF IInv, RowsInv
<1> HIDE DEF s
<1>5. Exact({}, owed, -1) /\ \A row \in {} \cup owed : Matches(row, s)
  BY <1>4 DEF Exact
<1> QED
  <2> HIDE DEF owed
  <2>1. owed \in SUBSET table /\ {} \in SUBSET table
    BY DEF owed
  <2>2. -1 \in Int
    OBVIOUS
  <2> QED BY <1>1, <1>2, <1>3, <1>5, <2>1, <2>2, PageStep

LEMMA NextStep ==
  ASSUME IInv, NEW c \in Clients, NEW r \in Requests, ListNext(c, r)
  PROVE  IInv'
<1> DEFINE s == Scope(Authenticate(mode, r, now), r)
<1>1. PICK d \in Clients :
        /\ Authenticate(mode, r, now) # NoIdentity /\ Listable(r)
        /\ cursor[d] # NoCursor
        /\ Decode(cursor[d], s)
        /\ Page(c, r, s, cursor[d].position, trail[d], due[d])
  BY DEF ListNext
<1>2. s.size \in Nat
  <2>1. s.size = r.size
    BY DEF Scope
  <2> QED BY <1>1, <2>1, ListingAssumption DEF Listable
<1>3. ScopeFor(s, r)
  BY <1>1, ScopesAreOwn
<1> HIDE DEF s
<1>4. WalkInv(d)
  BY DEF IInv
<1>5. status[d] = "open" /\ scope[d] = s
  BY <1>1, <1>4 DEF WalkInv, Decode
<1>6. /\ cursor[d].position \in Int
      /\ trail[d] \in SUBSET table /\ due[d] \in SUBSET table
      /\ \A row \in trail[d] \cup due[d] : Matches(row, s)
      /\ Exact(trail[d], due[d], cursor[d].position)
  BY <1>4, <1>5 DEF WalkInv
<1> QED BY <1>1, <1>2, <1>3, <1>6, PageStep

LEMMA CreateStep ==
  ASSUME IInv, NEW r \in Creations, Create(r)
  PROVE  IInv'
<1> DEFINE who == Authenticate(mode, r, now)
           row(id) == [id |-> id, endpoint |-> r.endpoint, tenant |-> who.tenant,
                       texts |-> r.texts, by |-> who.principal]
<1>1. PICK id \in Ids : pending' = pending \cup {row(id)}
  BY DEF Create
<1>2. UNCHANGED <<mode, now, table, walk>> /\ Authorize(who, ActionFor(r.endpoint))
  BY DEF Create, Creatable
<1> HIDE DEF who
<1>3. row(id).id \in Nat /\ Granted(row(id))
  BY <1>2, ListingAssumption DEF Authorize, Granted
<1>4. RowsInv'
  BY <1>1, <1>2, <1>3 DEF IInv, RowsInv, Granted
<1>5. Functions_' /\ \A c \in Clients : WalkInv(c)'
  BY <1>2 DEF IInv, Functions_, WalkInv, Exact, ScopeFor, Matches, walk
<1> QED BY <1>4, <1>5 DEF IInv

LEMMA CommitStep ==
  ASSUME IInv, NEW row \in pending, Commit(row)
  PROVE  IInv'
<1>1. /\ table' = table \cup {row} /\ pending' = pending \ {row}
      /\ due' = [c \in Clients |-> IF Owes(c, row) THEN due[c] \cup {row} ELSE due[c]]
      /\ UNCHANGED <<mode, now, scope, token, cursor, trail, status>>
  BY DEF Commit
<1>2. IsFiniteSet(table')
  BY <1>1, FS_AddElement DEF IInv, RowsInv
<1>3. RowsInv'
  BY <1>1, <1>2 DEF IInv, RowsInv, Granted
<1>4. Functions_'
  BY <1>1 DEF IInv, Functions_
<1>5. ASSUME NEW c \in Clients
      PROVE  WalkInv(c)'
  <2>1. WalkInv(c) /\ row.id \in Nat
    BY DEF IInv, RowsInv
  <2>2. CASE Owes(c, row)
    <3>1. due'[c] = due[c] \cup {row} /\ status[c] = "open"
          /\ Matches(row, scope[c]) /\ cursor[c].position < row.id
      BY <1>1, <2>2 DEF Owes
    <3> QED BY <1>1, <2>1, <3>1 DEF WalkInv, Exact, Matches, ScopeFor
  <2>3. CASE ~Owes(c, row)
    <3>1. due'[c] = due[c]
      BY <1>1, <2>3
    <3> QED BY <1>1, <2>1, <3>1 DEF WalkInv, Exact, Matches, ScopeFor
  <2> QED BY <2>2, <2>3
<1> QED BY <1>3, <1>4, <1>5 DEF IInv

\* The inductive invariant of the listings.
THEOREM InductiveInvariant == Spec => []IInv
<1>1. Init => IInv
  <2> SUFFICES ASSUME Init PROVE IInv
    OBVIOUS
  <2>1. RowsInv
    BY FS_EmptySet DEF Init, RowsInv
  <2>2. Functions_ /\ \A c \in Clients : WalkInv(c)
    BY DEF Init, Functions_, WalkInv
  <2> QED BY <2>1, <2>2 DEF IInv
<1>2. IInv /\ [Next]_vars => IInv'
  <2> SUFFICES ASSUME IInv, [Next]_vars PROVE IInv'
    OBVIOUS
  <2>1. ASSUME NEW c \in Clients, NEW r \in Requests,
               ListPublishers(c, r) \/ ListNamespaces(c, r) \/ ListArtifacts(c, r)
        PROVE  IInv'
    BY <2>1, FirstStep, NextStep DEF ListPublishers, ListNamespaces, ListArtifacts
  <2>2. ASSUME NEW r \in Creations, Create(r) PROVE IInv'
    BY <2>2, CreateStep
  <2>3. ASSUME NEW row \in pending, Commit(row) PROVE IInv'
    BY <2>3, CommitStep
  <2>4. ASSUME NEW row \in pending, Rollback(row) PROVE IInv'
    BY <2>4 DEF Rollback, IInv, Functions_, RowsInv, Granted, WalkInv, Exact, ScopeFor,
                Matches, walk
  <2>5. CASE Tick
    BY <2>5 DEF Tick, IInv, Functions_, RowsInv, Granted, WalkInv, Exact, ScopeFor,
                Matches, walk
  <2>6. CASE UNCHANGED vars
    BY <2>6 DEF vars, IInv, Functions_, RowsInv, Granted, WalkInv, Exact, ScopeFor,
                Matches
  <2> QED BY <2>1, <2>2, <2>3, <2>4, <2>5, <2>6 DEF Next
<1> QED BY <1>1, <1>2, PTL DEF Spec

\* A complete traversal has returned every row it owed, and an open one those
\* up to its cursor and none beyond, whatever is committed meanwhile and
\* whichever client's cursor is used.  (List of the services and repositories,
\* cursor.go.)
THEOREM TraversalsStayExact == Spec => []TraversalsAreExact
<1>1. IInv => TraversalsAreExact
  BY DEF IInv, WalkInv, Exact, TraversalsAreExact
<1> QED BY <1>1, InductiveInvariant, PTL

\* What a client sees is committed, of its own tenant, of the collection and
\* query it asked for, and was created under a grant.  (Authenticate and Map,
\* the cursor's scope, the WHERE clauses, Authorize.)
THEOREM NothingForeignIsSeen == Spec => []NothingForeign
<1>1. IInv => NothingForeign
  <2> SUFFICES ASSUME IInv, NEW c \in Clients, NEW row \in trail[c]
               PROVE  /\ row \in table
                      /\ row.endpoint = token[c].endpoint
                      /\ token[c].query = NoText \/ token[c].query \in row.texts
                      /\ mode = "local-development" => row.tenant = LocalTenant
                      /\ mode # "local-development" =>
                           \A v \in Tenants(token[c].token) : row.tenant = TenantByValue[v]
                      /\ Granted(row)
    BY DEF NothingForeign, Granted
  <2>1. WalkInv(c)
    BY DEF IInv
  <2>2. row \in table /\ status[c] # "none"
    BY <2>1 DEF WalkInv
  <2>3. Matches(row, scope[c]) /\ ScopeFor(scope[c], token[c])
    BY <2>1, <2>2 DEF WalkInv
  <2>4. Granted(row)
    BY <2>2 DEF IInv, RowsInv
  <2> QED BY <2>2, <2>3, <2>4 DEF Matches, ScopeFor
<1> QED BY <1>1, InductiveInvariant, PTL
=============================================================================
