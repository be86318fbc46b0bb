-------------------------------- MODULE Listing --------------------------------
(***************************************************************************)
(* The collections /v1/publishers, /v1/namespaces and /v1/artifacts:       *)
(* clients page through them with cursors (internal/domain/shared/         *)
(* cursor.go, List of internal/app/publication, of the handlers and of the *)
(* repositories) while rows are created, whose identifiers are taken       *)
(* before their transactions commit.                                       *)
(***************************************************************************)
EXTENDS Access

CONSTANTS
  Clients,
  Requests,       \* list requests: header, token, endpoint, query, size, parameters
  Creations,      \* create requests: header, token, endpoint, keys, body, texts
  Modes,          \* deployed authenticators
  Ids,            \* UUIDs in their order, as numbers
  Millisecond,    \* how many of them one millisecond has
  MaxPageSize,    \* 200
  Lifetime,       \* of a cursor: 15 minutes
  MaxTime,        \* bound on the clock
  NoCursor, NoScope

Endpoints == {"publishers", "namespaces", "artifacts"}

ASSUME ListingAssumption ==
  /\ Ids \subseteq Nat
  /\ Millisecond \in Nat \ {0}
  /\ MaxPageSize \in Nat \ {0}
  /\ Lifetime \in Nat \ {0}
  /\ NoCursor # NoScope
  /\ \A r \in Requests : r.header = "bearer" => IsFiniteSet(r.token.tenants)

VARIABLES
  mode,       \* the authenticator of this deployment
  now,        \* clock
  table,      \* committed rows [id, endpoint, tenant, texts, by]
  pending,    \* rows inserted by open transactions
  scope,      \* scope[c]: what client c's traversal is about
  token,      \* its last list request
  cursor,     \* the cursor it holds
  trail,      \* the rows it has received
  due,        \* the rows the traversal owes it
  status      \* "none", "open" or "complete"

vars == <<mode, now, table, pending, scope, token, cursor, trail, due, status>>
walk == <<scope, token, cursor, trail, due, status>>

Init ==
  /\ mode \in Modes
  /\ now = 0
  /\ table = {}
  /\ pending = {}
  /\ scope = [c \in Clients |-> NoScope]
  /\ token = [c \in Clients |-> NoScope]
  /\ cursor = [c \in Clients |-> NoCursor]
  /\ trail = [c \in Clients |-> {}]
  /\ due = [c \in Clients |-> {}]
  /\ status = [c \in Clients |-> "none"]

-----------------------------------------------------------------------------
(* Cursors *)

\* CursorScope: tenant, endpoint, digest of the query, page size.
Scope(who, r) ==
  [tenant |-> who.tenant, endpoint |-> r.endpoint, query |-> r.query, size |-> r.size]

ValidScope(s) == s.size \in 1 .. MaxPageSize

\* Encode: the signature makes a cursor a value only the codec can produce.
Encode(s, position) == [scope |-> s, position |-> position, expires |-> now + Lifetime]

Decode(cur, s) == ValidScope(s) /\ cur.scope = s /\ cur.expires > now

-----------------------------------------------------------------------------
(* Requests *)

\* Of the parameters each endpoint knows, none is given twice and none is unknown.
Parameters(endpoint) ==
  {"cursor", "page_size"} \cup (IF endpoint = "artifacts" THEN {"query"} ELSE {})

\* validArtifactQuery; the other endpoints have no query.
ValidQuery(r) == IF r.endpoint = "artifacts" THEN r.query # "control" ELSE r.query = NoText

\* The artifact repository refuses the row of lookahead beyond the largest page.
MaxLimit(endpoint) == IF endpoint = "artifacts" THEN MaxPageSize ELSE MaxPageSize + 1

Listable(r) ==
  /\ r.parameters \subseteq Parameters(r.endpoint)
  /\ ValidQuery(r)
  /\ r.size \in 1 .. MaxPageSize
  /\ r.size + 1 <= MaxLimit(r.endpoint)

\* The WHERE clause: tenant (row-level security too), endpoint and text.
Matches(row, s) ==
  /\ row.tenant = s.tenant /\ row.endpoint = s.endpoint
  /\ s.query = NoText \/ s.query \in row.texts

\* ORDER BY id LIMIT n.
FirstOf(n, rows, values) ==
  /\ Cardinality(values) <= n
  /\ Cardinality(values) < n => values = rows
  /\ \A x \in values, y \in rows \ values : x.id < y.id

\* Mutant: the next page starts with the row of lookahead and skips it.
PositionAfterLookahead(values, items, position) ==
  position \in {x.id : x \in values} /\ \A x \in values : x.id <= position

\* The cursor points at the last row of the page.
Position(values, items, position) ==
  position \in {x.id : x \in items} /\ \A x \in items : x.id <= position

-----------------------------------------------------------------------------
(* List *)

\* A page of a traversal for client c: the matching rows after a position, one
\* more than the page has to see whether it is the last.
Page(c, r, s, after, received, owed) ==
  LET rows == {row \in table : Matches(row, s) /\ row.id > after} IN
  \E values \in SUBSET rows : \E items \in SUBSET values :
    /\ FirstOf(s.size + 1, rows, values)
    /\ FirstOf(s.size, values, items)
    /\ scope' = [scope EXCEPT ![c] = s]
    /\ token' = [token EXCEPT ![c] = r]
    /\ trail' = [trail EXCEPT ![c] = received \cup items]
    /\ due' = [due EXCEPT ![c] = owed]
    /\ IF Cardinality(values) > s.size
       THEN /\ status' = [status EXCEPT ![c] = "open"]
            /\ \E position \in {x.id : x \in values} :
                 /\ Position(values, items, position)
                 /\ cursor' = [cursor EXCEPT ![c] = Encode(s, position)]
       ELSE /\ status' = [status EXCEPT ![c] = "complete"]
            /\ cursor' = [cursor EXCEPT ![c] = NoCursor]
    /\ UNCHANGED <<mode, now, table, pending>>

\* A first page.  The traversal owes every row that is there.
ListFirst(c, r) ==
  LET who == Authenticate(mode, r, now) IN
  /\ who # NoIdentity /\ Listable(r)
  /\ Page(c, r, Scope(who, r), -1, {}, {row \in table : Matches(row, Scope(who, r))})

\* A page for a cursor, the client's own or one that another client passed on.
ListNext(c, r) ==
  LET who == Authenticate(mode, r, now) IN
  /\ who # NoIdentity /\ Listable(r)
  /\ \E d \in Clients :
       /\ cursor[d] # NoCursor
       /\ Decode(cursor[d], Scope(who, r))
       /\ Page(c, r, Scope(who, r), cursor[d].position, trail[d], due[d])

\* The three services differ in the endpoint and in the query only.
ListPublishers(c, r) == r.endpoint = "publishers" /\ (ListFirst(c, r) \/ ListNext(c, r))
ListNamespaces(c, r) == r.endpoint = "namespaces" /\ (ListFirst(c, r) \/ ListNext(c, r))
ListArtifacts(c, r) == r.endpoint = "artifacts" /\ (ListFirst(c, r) \/ ListNext(c, r))

-----------------------------------------------------------------------------
(* Create *)

ActionFor(endpoint) ==
  CASE endpoint = "publishers" -> "publisher.manage"
    [] endpoint = "namespaces" -> "namespace.manage"
    [] endpoint = "artifacts" -> "publication.publish"

\* create of the handlers: one idempotency key, one JSON value without unknown
\* fields; then the service asks for the role.
Creatable(who, r) ==
  /\ who # NoIdentity
  /\ r.keys = 1 /\ r.body = "valid"
  /\ Authorize(who, ActionFor(r.endpoint))

\* The identifier starts with the millisecond of its allocation, the rest is random.
NewId(id) ==
  /\ id \in Ids /\ id \div Millisecond = now
  /\ \A row \in table \cup pending : row.id # id

Create(r) ==
  LET who == Authenticate(mode, r, now) IN
  /\ Creatable(who, r)
  /\ \E id \in Ids :
       /\ NewId(id)
       /\ pending' = pending \cup {[id |-> id, endpoint |-> r.endpoint, tenant |-> who.tenant,
                                    texts |-> r.texts, by |-> who.principal]}
  /\ UNCHANGED <<mode, now, table, walk>>

\* A commit; every open traversal that has not passed the row yet owes it.
Owes(c, row) ==
  status[c] = "open" /\ Matches(row, scope[c]) /\ cursor[c].position < row.id

Commit(row) ==
  /\ table' = table \cup {row}
  /\ pending' = pending \ {row}
  /\ due' = [c \in Clients |-> IF Owes(c, row) THEN due[c] \cup {row} ELSE due[c]]
  /\ UNCHANGED <<mode, now, scope, token, cursor, trail, status>>

Rollback(row) ==
  /\ pending' = pending \ {row}
  /\ UNCHANGED <<mode, now, table, walk>>

Tick == now < MaxTime /\ now' = now + 1 /\ UNCHANGED <<mode, table, pending, walk>>

Next ==
  \/ \E c \in Clients, r \in Requests :
       ListPublishers(c, r) \/ ListNamespaces(c, r) \/ ListArtifacts(c, r)
  \/ \E r \in Creations : Create(r)
  \/ \E row \in pending : Commit(row) \/ Rollback(row)
  \/ Tick

Spec == Init /\ [][Next]_vars

-----------------------------------------------------------------------------
(* Properties *)

\* A traversal that is complete has returned every row that was there when it
\* began, and every row that was committed before the traversal passed its
\* place; one that is open has done so up to its cursor, and has returned
\* nothing beyond it, so that no row is ever returned twice.
TraversalsAreExact ==
  \A c \in Clients :
    /\ status[c] = "complete" => due[c] \subseteq trail[c]
    /\ status[c] = "open" =>
         /\ {row \in due[c] : row.id <= cursor[c].position} \subseteq trail[c]
         /\ \A row \in trail[c] : row.id <= cursor[c].position

\* A client sees rows of one tenant only, the one that every mapped value of its
\* token stands for, of the collection and the query it asked for; what it sees
\* is committed, and was created by a principal with the role for it in that
\* tenant.  Cursors passed between clients change nothing of that.
NothingForeign ==
  \A c \in Clients : \A row \in trail[c] :
    /\ row \in table
    /\ row.endpoint = token[c].endpoint
    /\ token[c].query = NoText \/ token[c].query \in row.texts
    /\ mode = "local-development" => row.tenant = LocalTenant
    /\ mode # "local-development" =>
         \A v \in Tenants(token[c].token) : row.tenant = TenantByValue[v]
    /\ \E g \in Grants : /\ g.tenant = row.tenant /\ g.principal = row.by
                          /\ ActionOfRole(g.role) = ActionFor(row.endpoint)
=============================================================================
