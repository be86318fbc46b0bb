# Verification of ThinkPixelMP

TLA+ modules for the parts of ThinkPixelMP whose correctness depends on
concurrency, failure, order and on rules that are written in more than one
place: the transactional outbox, the authority over namespaces, the idempotent
create operations, the registration of versions, the lists with their access
rules, the server process with its configuration, and the migration command.
TLC checks small instances; TLAPS proves their safety properties for every
value of the constants. `PROJECT.json` maps each definition to the lines it
models.

## 1. The system

ThinkPixelMP is a marketplace control plane: a Go service in front of
PostgreSQL. Every request runs in one READ COMMITTED transaction; most of the
rules are enforced twice, in Go and in triggers and constraints.

| Part | State | Operations | What is hard |
|---|---|---|---|
| Transaction manager (`adapters/postgres/transaction.go`) | transaction carried by the context | `WithinTransaction`, `BeginRepositoryTransaction` (savepoint when nested), `CurrentTransaction` | atomicity of several repositories; a lost commit answer |
| Publication services (`app/publication`) | none | create Publisher, Namespace, delegation, Artifact, version; revoke delegation; list | one transaction over idempotency, domain, audit and outbox |
| Idempotency (`adapters/postgres/idempotency`, `000012`) | record per (tenant, principal, action, key) | `Acquire`, `Complete`, `Get` | concurrent duplicates, failed attempts, repeated requests |
| Publishers (`adapters/postgres/publisher`, `000002`) | state and version, append-only state records | `Create`, `ChangeState`, reads | unlocked read before a versioned update |
| Namespaces and delegations (`adapters/postgres/namespace`, `000003`, `000014`) | roots, delegations, their state records | `Create`, `CreateDelegation`, `RevokeDelegation`, `ResolveOwner` | checks against rows other transactions are inserting; suspension between check and commit; lock order |
| Artifacts, versions, sources (`000004`-`000007`) | immutable identities, versions, sources | `Create`, `Register`, reads | publication check, uniqueness |
| Descriptors, requirements, dependencies (`000008`-`000010`) | write-once children of a version | `Create`, reads | completeness of a version |
| Audit (`adapters/postgres/audit`, `000011`) | append-only events | `Record`, reads | deferred triggers demand an event in the same transaction |
| Outbox (`adapters/postgres/outbox`, `000013`) | sequence counter, messages with claim, lease, attempts | `NextSequence`, `Record`, `Claim`, `Retry`, `Deliver`, `DeadLetter` | order of sequences, leases, late workers, attempt limit, clocks |
| Migration runner (`adapters/postgres/migration`) | ledger table, advisory lock | `up`, `status` | concurrent runners of different releases, failure inside the batch |
| Cursors (`domain/shared/cursor.go`) | none (signed token) | encode, decode, list pages | pages while rows are inserted |
| Authentication and authorization (`security`, `adapters/oidc`, `adapters/localauth`) | cached keys | verify, map, authorize | one tenant per token, deny by default |
| Configuration (`config`) | none | `Load`, `Validate` | four layers, rules repeated in the constructors |
| HTTP server and process (`adapters/http`, `cmd/thinkpixelmp`) | listener, response writers, metrics | `Run`, `wrap`, handlers | shutdown while requests run, panics, serving failure against signal |
| CLI, telemetry, scripts | none | one request, redaction, hygiene checks | nothing concurrent |

Parts interact through the transaction: a service calls the repositories with
a context that carries it, the repositories' triggers lock and read rows of
other components, and `DelegationService` records an outbox message in it. Sink
workers, which the repository does not contain yet, would use the outbox only.

What makes each part correct is the list of properties in sections 3 to 9; the
hazards, each at its line and with the properties that would catch it, are in
`PROJECT.json`.

## 2. Modules

| Module | Contents |
|---|---|
| `FencedQueue` | what the outbox promises those who record and those who deliver |
| `Outbox` | producers, workers, leases and time of one tenant's outbox; implements `FencedQueue` |
| `OutboxProofs` | inductive invariant, refinement, theorems |
| `MCOutbox` | instances for TLC |
| `SerialAuthority` | what the guards of roots, delegations and Publisher states promise: one request at a time |
| `NamespaceAuthority` | roots, delegations, Publisher states, publication checks; implements `SerialAuthority` |
| `NamespaceAuthorityProofs` | inductive invariant, refinement, deadlock freedom, theorems |
| `MCNamespaceAuthority` | paths, publishers and requests for TLC |
| `ExactlyOnce` | what an idempotent create operation promises |
| `Mutation` | the create operations; implements `ExactlyOnce` |
| `MutationProofs` | inductive invariant, refinement, theorems |
| `MCMutation` | instances for TLC |
| `Migration` | the migration command, run by several operators with several binaries |
| `MigrationProofs` | inductive invariant and theorems |
| `MCMigration` | builds and instances for TLC |
| `ArtifactRules` | what Go and SQL accept as a version, source, descriptor, requirement, dependency |
| `SerialCatalog` | what registration promises: one command at a time, with its audit events |
| `Registration` | concurrent registration of versions and of what hangs off them, audit events; implements `SerialCatalog` |
| `RegistrationProofs` | inductive invariant, refinement, theorems |
| `MCRegistration` | commands for TLC |
| `Access` | tokens, tenant mapping, local identity, role grants |
| `Listing` | lists with cursors while rows are created; extends `Access` |
| `ListingProofs` | inductive invariant and theorems |
| `MCListing` | tenants, tokens and requests for TLC |
| `Configuration` | loading and validating the configuration |
| `Process` | the server process from start to exit; extends `Configuration` |
| `ProcessProofs` | the layers of `Load`, inductive invariant and theorems |
| `SequenceProofs` | least and greatest numbers of a set; used by two proof modules |
| `MCProcess` | files, flags, variables and requests for TLC |

Conventions. A database transaction is an actor. A statement is one step, and a
lock is held from the phase that takes it to the end of the transaction; what a
transaction wrote becomes visible at its commit. (A statement is taken to see
one snapshot and to wait before it reads, which is how READ COMMITTED re-checks a
row it waited for.) An error, a cancelled request
and a crash before `COMMIT` all end the transaction without a trace. Definitions
marked *Mutant* are plausible mistakes; each replaces the definition that
follows it in the mutation tests of `PROJECT.json` and breaks one property.

## 3. Outbox

State: `nextSequence` is the committed counter, `tx[p]` the open transaction of
a producer with the number it has allocated, `msg[s]` the row with sequence `s`, `claim[w]` the open `Claim` of a
worker with the rows it has updated (and therefore locked), `handed[s]` the
claim tokens ever returned for `s`, `answered[s]` those a `Retry`, `Deliver` or
`DeadLetter` of `s` succeeded with (a history variable).

`NextSequence`, `Record`, `Commit` and `Rollback` follow `recordEvent` in the
delegation service. The allocation is `INSERT ... ON CONFLICT DO UPDATE`, so the
counter row stays locked and a second allocation waits. `Claim` is three steps:
`BeginClaim` (the sweep of exhausted claims, which waits for locked rows),
`SelectClaims` (`FOR UPDATE SKIP LOCKED`, update and scan) and `CommitClaim`.
`Retry`, `Deliver` and `DeadLetter` are one fenced update each and accept any
token ever handed out, so late and repeated reports are included. The worker
itself is external: it may do nothing with a claim, which is a crash.

Time is relative. `Tick` ages every stored time by one unit, down to a floor
below which no guard can tell two times apart, so that the state space is finite
without stopping the clock. A caller's clock is off by at most `Skew`.
`SubMicros` is the part of a clock reading below a microsecond, which the JSON
payload keeps and `timestamptz` does not.

`FencedQueue` is the same without transactions, locks and clocks: items are
enqueued in order, handed out in batches under tokens never used before and at
most `Limit` times, given up when no try is left, and reported only while held,
with the newest token, and once with each. The refinement mapping reads an item's
place off the row's state, its holders off `handed` and its reports off
`answered`; `Commit` is `Enqueue`, `CommitClaim` is `HandOut`, `Retry`, `Deliver`
and `DeadLetter` with token `t` are `Report` with `t`, every other step stutters.
`SettledIsFinal` says the same of single steps and, besides, that nothing else
changes a settled row.

| Run | Checks | Bounds |
|---|---|---|
| `outbox_batches` | `SequencesAreGapFree`, `ClaimsAreExclusive`, `AttemptsHaveOneOwner`, `ImplementsFencedQueue` | 2 producers, 2 workers, 2 messages, 2 attempts, batch of 2, 4 tokens: two transactions compete for a batch and for one row each, every message can use both its attempts under tokens of its own, and the holder of a stale token reports after a takeover |
| `outbox_leases` | `SweptOnlyWhenExhausted`, `NoEarlyTakeover`, `SettledIsFinal`, `SettledOrParked` | 1 message, 2 workers, 3 attempts, leases of 1 unit, clocks off by 1: both workers' views of one lease differ, and two takeovers happen before the sweep |
| `outbox_parked` | `EveryEventSettles`, violated | 1 worker, 2 attempts |
| `outbox_nanos` | `EveryEventIsClaimed`, violated | as above, with sub-microsecond clock readings |

Fairness: time passes; a worker keeps polling and ends its transactions;
database failures are transient. Nothing is assumed of what a worker does with a
claim. This is what a deployment has to provide; the code contains no worker to
take it from.

Findings. (1) `Retry` of attempt 1000 stores `retry` with 1000 attempts. The
candidates need fewer than 1000 and the sweep needs `claimed`, so the event is
parked for ever. `SettledOrParked` shows that this is the only way. (2) An event
whose time has a sub-microsecond part cannot be read back: `Restore` compares
the payload's time with the truncated `created_at`. `Claim` fails with the whole
batch and meets the same row again next time.

Proved: `TypeOK`, all safety properties of both passing runs and the refinement,
for any number of producers, workers and tokens and any limits. The invariant
`IInv` adds to them the lock on the counter row (`OneAllocator`: the one open
allocation has the committed number), the emptiness of unallocated sequences
(`AbsentIsEmpty`), that the token of a live claim has not been reported with
(`LiveClaimsAreOpen`) and what a `Claim` transaction found about the times of its
rows (`ClaimTimes`), without which a commit could not be shown to be on time.

## 4. Namespace authority

State: `pubs` (state and version of each Publisher), `rootOwner`, `deleg`,
`published` (accepted publications with their attribution), and per transaction
its `phase` and request. Locks are functions of the phase: `HoldsNamespace` and
`HoldsPrefix` are the advisory locks, `HoldsShare` is `FOR SHARE` on the
Publisher, `HoldsVersion` an uncommitted state record, `WritesPublisher` and
`WritesDelegation` updated rows.

The insert of a root is `LockPrefix`, `CheckDelegations`, `ShareLock`,
`InsertNamespace`, `CommitNamespace`: triggers fire in the order of their names,
so the collision guard comes before the owner guard. A delegation is
`LockNamespace`, `LockPrefix`, `CheckRoots`, `CheckNesting`, `ShareLock`,
`InsertDelegation`, `CommitDelegation`. `ChangeState` is an unlocked read with
its checks, the insert of the next state record and the versioned update.
`ResolveOwner` reads without a lock and `CommitPublish` commits what it allowed.
Paths are sequences of segments, so that prefixes are prefixes of segments as in
`LIKE prefix || '/%'`.

`SerialAuthority` is the same without transactions: `CreateRoot`,
`CreateDelegation`, `Revoke` and `ChangeState` happen at once, each under all its
conditions. The refinement mapping is the identity on the three tables; the four
commits are the four actions and every other step stutters. Publications are
outside it, because `ResolveOwner` takes no lock (finding 3).

| Run | Checks | Bounds |
|---|---|---|
| `namespace_authority` | `UnambiguousAuthority`, `DelegationsFormChains`, `PublishedByOwner`, `ImplementsSerialAuthority`, `GrantedToVerified`, `HistoryIsAppendOnly`, `TransactionsDrain` | 4 nested and sibling paths, 2 Publishers with versions up to 4, 2 delegations, 2 transactions: each pair of requests that may collide, grants against state changes included |
| `namespace_publication` | `PublicationIsAuthorized`, violated | 2 transactions |
| `namespace_delegator` | `OwnersDelegateWhileVerified`, violated | 2 transactions |

Fairness: an open transaction that does not wait goes on. Nobody has to abort,
and a waiter may be overtaken, because PostgreSQL grants `FOR SHARE` past a
waiting `UPDATE`; `TransactionsDrain` therefore speaks of what happens once
requests stop arriving. PostgreSQL's deadlock detector is not modelled:
the property is that it has nothing to detect. The liveness run has two
transactions, the smallest number that can wait for each other.

`PublishedByOwner` also says what the code does not do: artifacts live in roots,
and no active delegation can have the path of a root, so `RegisterResolved`
never resolves to a delegate.

Findings. (3) A publication that resolved its owner commits although the owner
was suspended in between. (4) The insert guard of a delegation checks the
recipient only: the namespace of a suspended owner can still be delegated.

Proved: `TypeOK`, the safety properties of that run and the refinement, for any
paths, Publishers, delegations, transactions and requests. `IInv` says of every open transaction
that what it has checked still holds (`FindingsHold`) and of every two that
their locks are compatible (`Compatible`); together they give `NoCollision`, from
which `UnambiguousAuthority` follows because two different prefixes of one path
have different lengths. The refinement needs nothing more: at a commit
`FindingsHold` is the guard of the serial action.

`DeadlockFreedom` is the safety part of `TransactionsDrain` without its bound of
two transactions: while one is open, some transaction need not wait
(`SomebodyProceeds`; `Unblocked` spells out the guards of `Progress`, since the
prover cannot reason about `ENABLED`). `WaitsFor` is who holds what a transaction
waits for, and `Rank` numbers the phases so that every wait goes from a lower to
a higher one: namespace lock, prefix lock, checks and state record, `FOR SHARE`,
write. The open transaction of the highest rank therefore waits for nobody. The
argument is about the lock order of the guards; it is where a new lock, taken out
of order, would show.

## 5. Idempotent create operations

State: `record[k]` and `rows[r]` are the committed idempotency records and
resources, `delegated` the prefixes of the active delegations, `replies` the answers that settled a request, and per handler its
`phase`, request and the identifier it inserted. `Receive`, `Acquire`,
`AcquireExisting`, `Replay`, `Write`, `WriteConflict`, `Complete`, `Commit` and
`Fail` are the steps of the `Create` methods of the services for Publishers,
Namespaces, Artifacts and versions, which have one shape. The resource row
stands for its companion rows and its audit event too: they are written in the
same transaction. `Commit(h, FALSE)` is a commit whose answer is lost.

A name is refused (`Refused`) when a committed row has it and, for the path of a
Namespace, while an active delegation has that prefix: the collision guard of
migration 14 raises the same 23505 as the unique index, and the repository answers
both with `namespace.conflict`. `Delegable` are the names this can happen to, the
paths below a Namespace; `Delegate` and `Revoke` are the commits of section 4's
transactions as this section sees them. So a conflict about such a name ends with the
revocation, and the same request under the same key then succeeds; a conflict about
any other name (a slug, a version, a path at the top) is final. The requests
that create and revoke delegations have idempotency records of their own, which
are not modelled.

`ExactlyOnce` is the promise of `docs/contracts/http-api.md` (Idempotency): a
key has one effect, its answer names that effect for ever, and another request
under the key is refused. The refinement mapping is the identity on `record` and
`replies`.

| Run | Checks | Bounds |
|---|---|---|
| `mutation` | `RecordsMatchRows`, `NamesAreUnique`, `AnswersAgree`, `ImplementsExactlyOnce`, `EveryRequestIsAnswered` | 3 handlers that repeat requests without end, 2 keys, 2 requests for 2 names of which one can be delegated, 2 identifiers: a competitor for every key and name, a delegation that comes and goes around every step, and one client that is patient |

Fairness: no transaction stays open for ever; a patient client repeats its
request; from some time on that request meets no failure, and its statement goes
on if its locks become free again and again. Other clients may give up.

Proved: `TypeOK`, all safety properties and the refinement, for any
handlers, keys, requests, names and identifiers. `IInv` has the same shape as in
section 4: `FindingsHold` (a key that is held has no committed record, a name
that is written is not taken), `Compatible` (two open transactions write
different index entries) and `ReplyHolds` (an answer once given stays true, unless
it is a conflict about a name that can be delegated). The last is what makes
`AnswersAgree` inductive: any other conflict is final because the name stays
taken, so the refused request can never succeed under its key.

## 6. Migration command

State: `table`, `ledger` and `schema` are what is committed: whether the ledger
exists, its rows, and the scripts executed so far in order. `lock` is the
transaction-scoped advisory lock. Each runner has its next statement `pc`, its
command `up` (or `status`) and `build`, the history `seen` it read, and the work of its
open transaction: `made`, `ran`, `rows`. `result` is the outcome of its last
command. A file is its number, its title and its text; the text stands for the
checksum as well. `Start` (with `load`), `Lock`, `CreateLedger`, `Inspect`,
`ReadHistory`, `Check`, `Script`, `Record` and `Commit` are the statements of
`Run` in their order. `Fail` is an error, a timeout or a crash at any of them;
`Commit(r, FALSE)` is a commit whose answer is lost. Only the command writes the
ledger: rows edited by hand are outside the model, so the test for an applied
step after a pending one never fires by itself. What the SQL of a script does is
not modelled; it may fail.

| Run | Checks | Bounds |
|---|---|---|
| `migration` | `DatabaseIsAtARelease`, `SuccessMeansCurrent`, `NoCollisions`, `StatusShowsAReleaseOrNothing`, `AtomicUpgrade`, `EveryCommandEnds` | 2 operators that run commands without end, 6 builds: a release, its successor with two more steps, a fork, an edited release, a gap, an empty file |

Two operators are enough to have a holder and a waiter, or a writer and a
reader; the theorems remove the bound. Fairness: a running command goes on, and a
waiter whose lock becomes free again and again gets it, since PostgreSQL serves the
queue of a lock in order. No failure is assumed to happen, so the property does not
depend on `lock_timeout`.

Proved: `TypeOK` (which says, too, that no empty script is executed), every
safety property, and `AtomicUpgrade`, for any runners and any set of
binaries, malformed ones included. `IInv` adds `Serialised` (an `up` past the lock
is its holder, and nobody else has uncommitted work), `HistoriesRead` (a history
is that of a release; the holder's is still the ledger) and `LoopsContinue` (schema
and scripts of the open transaction are together the first steps of its binary).
The key lemma is `ChecksSuffice`: a history that is a release and is neither
drifted nor unknown is a prefix of the shipped steps, because a step's number is
its place.

## 7. Registration

`ArtifactRules` holds the document rules. Strings are numbers where only their
order and their pattern matter, URLs and references are classes (`"https"`,
`"odd https"`), and a JSON text is the record it decodes to together with three
facts about its bytes: whether a key is repeated (`json`), whether every known key
is spelled exactly or one is in another case (`keys`), and whether PostgreSQL can hold
the value as `jsonb` (it refuses an escaped NUL, a lone surrogate and a number of
too many digits, all of which Go takes). `ValidCombination`, `ValidSource`,
`ValidDescriptor`, `ValidRequirement` and `ValidDependency` are the Go rules;
`SqlCombination`, `SqlSource`, `SqlDescriptor`, `SqlRequirement` and `SqlDependency`
are the `CHECK` constraints of migrations 5 and 7 to 10. They are translated
separately, because that they agree is a property.

`Registration` has the committed tables `versions`, `sources`, `rows`
(descriptors, requirements, dependencies) and `audit`, and per transaction its
`phase`, command, identifier and recorded `events`. `Receive`, `Resolve`,
`InsertVersion`, `InsertSource` and `Commit` are `RegisterResolved` of
`app/publication/artifact_version.go` (its idempotency record is section 5);
`InsertRow` is `Create` of the other three repositories, each of which joins its
parent in an `INSERT ... SELECT` (`HasParent`); a row the join has selected must
convert to `jsonb` and pass its table's constraints (`SqlRow`) before it reaches the
unique indexes. The metadata triggers read the parent again, which is immutable, and
so repeat the join. An insertion waits for the open transaction that has inserted
the same index entry. Each repository records its
audit event in the same transaction, and `RequiredEvents` is what the deferred
triggers of migration 11 demand at `COMMIT`. `refused` is a history variable: the
command that the last step refused for a constraint although the domain had
accepted it, if there is one.

| Run | Checks | Bounds |
|---|---|---|
| `registration` | `IdentitiesAreUnique`, `SourcesBindVersions`, `RowsBindVersions`, `AuditTellsTheTables`, `DatabaseAgreesWithDomain`, `ImplementsSerialCatalog` | 3 transactions, 2 versions, 2 artifacts, 20 commands: the same digest under two coordinates, the same coordinate with two digests, an endpoint the two rules spell differently, two descriptors for one version of which one has a key in another case, requirements that the descriptor states, that it does not state and that `jsonb` cannot hold, dependencies at the last index and beyond it, two of one name, one with a key in another case and one with a range both rules refuse, a command without an actor |

`SerialCatalog` has the four tables and four atomic commands, `Register`,
`CreateDescriptor`, `CreateRequirement` and `CreateDependency`, each with its
audit events and under the conditions that make the catalogue consistent. The
refinement mapping is the identity; `Commit` is one of the commands, every other
step stutters.

Proved, for any transactions, identifiers, artifacts and commands: all of these,
the refinement and `TypeOK`. The invariant has the shape of
sections 4 and 5: what an open transaction has found still holds, its events are
those of its rows, and open transactions write different index entries.
`CombinationsAgree` is a theorem about the operators alone, and the lemmas
`DescriptorsAgree`, `RequirementsAgree` and `DependenciesAgree` compare the Go rules
with the constraints table by table; `RowsPass` puts them together for a row whose
parent was found. The assumption on the commands is that the index of a dependency is
a natural number, which its `uint16` is, and that the two facts about bytes are known.

`DatabaseAgreesWithDomain` states three exceptions, which the code has. `httpsEndpoint`
accepts URLs (an upper-case scheme, a space in the path) that the constraint
`endpoint ~ '^https://[^[:space:]]+$'` refuses. `encoding/json` matches the keys of
descriptors and dependencies in any case, while the constraints demand `kind` and
`name` and no other key; the decoder of requirements compares exactly. And JSON
that Go takes need not be a `jsonb` value. In each case the caller is told that
persistence is unavailable.

Observations without a run of their own. A descriptor is accepted although its
dependencies repeat a name or its requirements are not valid requirements; the
descriptor is immutable, so the version can then never be completed. The lists
in requirements have no limit per item although the JSON schema has one.

## 8. Access and lists

`Access` translates authentication and authorization: `Authenticate` (the
header), `Verify` (claims and times with skew), `Maps` (exactly one mapped
tenant value), `LocalIdentity` and `Authorize`. A token is the record of claims
the code looks at. That a signature cannot be forged is an assumption; the
algorithm list, audience, authorized party and times are not.

`Listing` runs the handlers and services for the three collections. `ListFirst`
and `ListNext` read one page in one statement: the rows after the position, one
more than the page (`FirstOf`), of which `Position` makes a cursor. `ListNext`
may use any cursor a client holds, so cursors passed between clients are
included. `Create` inserts a row with an identifier of the current millisecond,
`Commit` and `Rollback` come later and in any order, `Tick` lets tokens and
cursors expire. `trail[c]` is what client `c` has been given and `due[c]` what
its traversal owes it: the rows there at its beginning, and those committed
ahead of its cursor since.

| Run | Checks | Bounds |
|---|---|---|
| `listing` | `TraversalsAreExact`, `NothingForeign` | 2 clients, 2 tenants, 3 rows of which two share a millisecond, pages of 1 (Publishers, artifacts) and 2 (namespaces; 2 is a size the artifact repository refuses here), cursors that live 1 unit, tokens that live 1 or 3: pages end before, at and after the last row, and rows commit behind a cursor |

Proved for any clients, tenants, tokens, grants, page sizes and schedules: both.
The invariant says that a cursor separates the rows a traversal has returned from
those it still owes, that its scope is the one of the identity that asked for
it (so one that is decoded for another identity has the same tenant, endpoint,
query and page size), and that pending and committed rows carry a creator with
the right role in their tenant.

What the properties do not promise: a row whose identifier was taken early and
that commits behind a cursor is not seen by that traversal. Observation: the
artifact repository refuses a limit above 200 while the service asks for one row
more than the page, so the documented page size of 200 always fails for
artifacts (`MaxLimit`, `adapters/postgres/artifact/repository.go:120`).

## 9. The process

`Configuration` is `Load`: `ConfigFileArgument`, `ApplyFile`, `ApplyEnvironment`,
`ApplyFlags` over `Defaults`, then `Validate`. Settings are a function from their
names; what `time.ParseDuration`, `strconv` and `ParseSecretRef` make of a text is
the constant `Parser`. Layers are recursive functions over the arguments, with
`ConfigFileStep`, `EnvironmentStep` and `FlagStep` as the bodies of their loops;
`NoConfig` is the empty configuration that `Load` returns with an error.
Values of separate flags that look like flags are left out.

`Process` is `run` of `cmd/thinkpixelmp/main.go` and `Run` of the HTTP adapter:
the main goroutine is `pc`, the serving goroutine `serve`, the signal context
`cancelled`. Each request has its response writer (`wrote`, `status`), what
was sent (`wire`) and what the metrics recorded. `select` with both branches ready is
`SelectServe` or `SelectDone`, either one. `Refuse`, `Dispatch`, `Write`,
`Return` and `Panic` are the middleware around a handler that may write any of
its statuses any number of times. The handler of `/v1/` is included as the server
supports it, although `main` does not install one yet.

| Run | Checks | Bounds |
|---|---|---|
| `process` | `LoadIsLayered`, `LoadedConfigurationsStart`, `CleanExit`, `MetricsTellTheWire`, `SignalStopsProcess` | all pairs of 13 arguments and of 7 variables, 4 files; 2 requests for five routes: one in progress at the signal and one that is not |

Deadlock is not checked in this run: a process ends. Fairness: the goroutines of
`Run` and `Serve` are scheduled and the shutdown timer fires. Nothing is assumed
of handlers, clients or exporters beyond what `context.WithTimeout` cuts off, so
`SignalStopsProcess` holds with a handler that never returns, because `Shutdown`
has a deadline.

Proved, for any requests, arguments, variables and files: `LoadIsLayered`,
`CleanExit`, `MetricsTellTheWire`, `LoadedConfigurationsStart`. The invariant says
what the response writer remembers in each step of a request and what `serve` is
at each `pc`; `LoadedConfigurationsStart` needs only that `Load` returns a
configuration that passed `Validate`.

`LoadIsLayered` compares the loops of `Load` with `Layered` and `Rejected`, which are
written from `docs/operations/configuration.md` without recursion. Its proof takes
the loops one at a time (`FileIsApplied`, `VariablesAreApplied`, `FlagsAreApplied` and their
like): that a loop has applied exactly the entries before its index is shown
for every index from the least one at which it failed (`LeastElement`), which
replaces the induction that the prover cannot instantiate. `ProcessAssumption` says
that arguments and variables are finite lists and that the marks for "unset",
"failed" and "no configuration" are not values.

Observations without a run: an empty `--config=` followed by another `--config`
is not detected as repeated; requests refused before the response writer exists
(413, no identifier) are in no metric; a panic after a status 200 was written is
counted as a success, which is what the wire shows.

## 10. What is only model-checked, and what is not modelled

Liveness (`SettledOrParked`, `TransactionsDrain`, `EveryRequestIsAnswered`,
`EveryCommandEnds`, `SignalStopsProcess`) and the violated properties are checked
by TLC on the instances above; TLAPS has no support for fairness arguments. Every
invariant, action property and refinement of the passing runs has a theorem.

Not modelled, with reasons, in `PROJECT.json`: text validation and encoding
beyond what a property tells apart, cryptography of tokens and cursors, redaction
of logs and configuration, resolution of secrets, the command-line client, the
repository's scripts. Reads that change nothing have no action; the look-ups
whose uniqueness matters are operators. Two hazards have no property: unbounded
waiting behind overlapping `FOR SHARE` locks depends on PostgreSQL's lock queue,
and the reply of the second of two concurrent revocations is not in the model.

## 11. Plan

1. Safety parts of the remaining liveness properties, in the manner of
   `DeadlockFreedom`: that a repeated create request is never blocked by one that
   is not open, and that a waiter of the migration lock waits for a running command.
2. An abstract specification of a traversal, implemented by `Listing`.
3. `DelegationRequests`: composition of `Mutation` and `Outbox` for create and
   revoke, with the event recorded in the transaction, and the replies of
   concurrent revocations.
