------------------------------- MODULE Migration -------------------------------
(***************************************************************************)
(* The migration command (cmd/migrate, internal/adapters/postgres/         *)
(* migration): several operators, with binaries of several releases, run   *)
(* "up" and "status" against one database.  Every "up" is one transaction  *)
(* under an advisory lock; a crash, a timeout or a failing script rolls it *)
(* back, and the answer to a COMMIT may be lost.                           *)
(***************************************************************************)
EXTENDS Integers, Sequences, FiniteSets

CONSTANTS
  Runners,   \* operators (or deployment jobs) that run the command
  NoOne,     \* the lock is free
  Builds,    \* released binaries
  Shipped,   \* Shipped[b]: the migration files embedded in binary b
  Titles,    \* descriptions in file names
  Texts,     \* contents of files, standing for their checksums too
  Blank      \* the content of an empty file

\* A migration file and, as name and checksum, its row of the ledger.
File == [number : Nat, title : Titles, text : Texts]

ASSUME RunnerAssumption == NoOne \notin Runners
ASSUME BlankAssumption == Blank \notin Texts
ASSUME ShippedAssumption ==
  /\ Builds # {}
  /\ Shipped \in [Builds -> SUBSET [number : Nat, title : Titles, text : Texts \cup {Blank}]]
  /\ \A b \in Builds : IsFiniteSet(Shipped[b])

-----------------------------------------------------------------------------
(* What a binary ships *)

Length(b) == Cardinality(Shipped[b])

\* Numbers start at one without gap or repetition and no file is empty.
Loads(b) ==
  /\ Shipped[b] # {}
  /\ \A i \in 1..Length(b) : \E f \in Shipped[b] : f.number = i
  /\ \A f \in Shipped[b] : f.text # Blank

Steps(b) == [i \in 1..Length(b) |-> CHOOSE f \in Shipped[b] : f.number = i]

SameName(f, g) == f.number = g.number /\ f.title = g.title

Elements(s) == {s[i] : i \in 1..Len(s)}

-----------------------------------------------------------------------------
VARIABLES
  table,    \* whether public.schema_migrations exists
  ledger,   \* its committed rows
  schema,   \* scripts whose effects are committed, in order of execution
  lock,     \* holder of the advisory lock
  pc,       \* statement each runner executes next
  up,       \* "up" rather than "status"
  build,    \* binary the runner executes
  seen,     \* applied: the history the runner read
  made,     \* the open transaction created the ledger table
  ran,      \* scripts the open transaction executed
  rows,     \* ledger rows the open transaction inserted
  result    \* outcome of the last command

vars == <<table, ledger, schema, lock, pc, up, build, seen, made, ran, rows, result>>
database == <<table, ledger, schema>>
transaction == <<made, ran, rows>>

Phases == {"idle", "lock", "create", "inspect", "read", "check", "script", "record"}
Results == {"none", "applied", "reported", "failed", "collided"}

Init ==
  /\ table = FALSE
  /\ ledger = {}
  /\ schema = <<>>
  /\ lock = NoOne
  /\ pc = [r \in Runners |-> "idle"]
  /\ up = [r \in Runners |-> FALSE]
  /\ build = [r \in Runners |-> CHOOSE b \in Builds : TRUE]
  /\ seen = [r \in Runners |-> {}]
  /\ made = [r \in Runners |-> FALSE]
  /\ ran = [r \in Runners |-> <<>>]
  /\ rows = [r \in Runners |-> {}]
  /\ result = [r \in Runners |-> "none"]

Goto(r, phase) == pc' = [pc EXCEPT ![r] = phase]

\* Mutant: the lock is held by the session and outlives the transaction.
EndKeepsLock(r, outcome) ==
  /\ Goto(r, "idle")
  /\ result' = [result EXCEPT ![r] = outcome]
  /\ made' = [made EXCEPT ![r] = FALSE]
  /\ ran' = [ran EXCEPT ![r] = <<>>]
  /\ rows' = [rows EXCEPT ![r] = {}]
  /\ UNCHANGED <<lock, up, build, seen>>

\* The transaction ends, by COMMIT or ROLLBACK, and the command with it: the
\* transaction-scoped lock is released and nothing uncommitted is left.
End(r, outcome) ==
  /\ Goto(r, "idle")
  /\ result' = [result EXCEPT ![r] = outcome]
  /\ lock' = IF lock = r THEN NoOne ELSE lock
  /\ made' = [made EXCEPT ![r] = FALSE]
  /\ ran' = [ran EXCEPT ![r] = <<>>]
  /\ rows' = [rows EXCEPT ![r] = {}]
  /\ UNCHANGED <<up, build, seen>>

\* load, then BEGIN; a malformed set of files is refused before any statement.
Start(r, b, apply) ==
  /\ pc[r] = "idle"
  /\ Goto(r, IF ~Loads(b) THEN "idle" ELSE IF apply THEN "lock" ELSE "inspect")
  /\ result' = [result EXCEPT ![r] = IF Loads(b) THEN "none" ELSE "failed"]
  /\ up' = [up EXCEPT ![r] = apply]
  /\ build' = [build EXCEPT ![r] = b]
  /\ seen' = [seen EXCEPT ![r] = {}]
  /\ UNCHANGED <<database, lock, transaction>>

\* Mutant: the advisory lock is tried, and its answer ignored.
LockTried(r) ==
  /\ pc[r] = "lock"
  /\ lock' = IF lock = NoOne THEN r ELSE lock
  /\ Goto(r, "create")
  /\ UNCHANGED <<database, up, build, seen, transaction, result>>

Lock(r) ==
  /\ pc[r] = "lock"
  /\ lock = NoOne
  /\ lock' = r
  /\ Goto(r, "create")
  /\ UNCHANGED <<database, up, build, seen, transaction, result>>

\* Two transactions that create one table collide on the catalog's unique index.
CreateLedger(r) ==
  /\ pc[r] = "create"
  /\ UNCHANGED database
  /\ IF ~table /\ \E q \in Runners : made[q]
     THEN End(r, "collided")
     ELSE /\ made' = [made EXCEPT ![r] = ~table]
          /\ Goto(r, "inspect")
          /\ UNCHANGED <<lock, up, build, seen, ran, rows, result>>

\* The first statement of "status" fixes the snapshot of its transaction.
Inspect(r) ==
  /\ pc[r] = "inspect"
  /\ Goto(r, IF table \/ made[r] THEN "read" ELSE "check")
  /\ seen' = [seen EXCEPT ![r] = IF up[r] THEN {} ELSE ledger]
  /\ UNCHANGED <<database, lock, up, build, transaction, result>>

\* "up" is READ COMMITTED and sees what has been committed by now.
ReadHistory(r) ==
  /\ pc[r] = "read"
  /\ Goto(r, "check")
  /\ seen' = [seen EXCEPT ![r] = IF up[r] THEN ledger \cup rows[r] ELSE seen[r]]
  /\ UNCHANGED <<database, lock, up, build, transaction, result>>

Named(h, f) == \E g \in h : SameName(g, f)

\* Mutant: checksums are not compared.
DriftedOrder(h, b) ==
  \E i \in 1..Length(b) :
    /\ Named(h, Steps(b)[i])
    /\ \E j \in 1..(i - 1) : ~Named(h, Steps(b)[j])

\* An applied step after a pending one, or with another checksum.
Drifted(h, b) ==
  \E i \in 1..Length(b) :
    /\ Named(h, Steps(b)[i])
    /\ \/ \E j \in 1..(i - 1) : ~Named(h, Steps(b)[j])
       \/ Steps(b)[i] \notin h

\* Mutant: what is left in the map after the loop is not looked at.
UnknownIgnored(h, b) == FALSE

Unknown(h, b) == \E f \in h : \A i \in 1..Length(b) : ~SameName(f, Steps(b)[i])

\* Mutant: "status" prints without validating.
CheckWhenApplying(r) ==
  /\ pc[r] = "check"
  /\ UNCHANGED database
  /\ IF up[r] /\ (Drifted(seen[r], build[r]) \/ Unknown(seen[r], build[r]))
     THEN End(r, "failed")
     ELSE /\ Goto(r, "script")
          /\ UNCHANGED <<lock, up, build, seen, transaction, result>>

Check(r) ==
  /\ pc[r] = "check"
  /\ UNCHANGED database
  /\ IF Drifted(seen[r], build[r]) \/ Unknown(seen[r], build[r])
     THEN End(r, "failed")
     ELSE /\ Goto(r, "script")
          /\ UNCHANGED <<lock, up, build, seen, transaction, result>>

\* Steps the loop has still to apply.
Pending(r) ==
  {i \in 1..Length(build[r]) : ~Named(seen[r] \cup rows[r], Steps(build[r])[i])}

Script(r) ==
  /\ pc[r] = "script" /\ up[r]
  /\ \E i \in Pending(r) :
       /\ \A j \in Pending(r) : i <= j
       /\ ran' = [ran EXCEPT ![r] = Append(@, Steps(build[r])[i])]
  /\ Goto(r, "record")
  /\ UNCHANGED <<database, lock, up, build, seen, made, rows, result>>

\* INSERT of name and checksum: the primary key refuses a committed name and
\* waits for a transaction that has inserted it.
Record(r) ==
  LET f == ran[r][Len(ran[r])] IN
  /\ pc[r] = "record"
  /\ UNCHANGED database
  /\ IF Named(ledger, f)
     THEN End(r, "collided")
     ELSE /\ \A q \in Runners \ {r} : ~Named(rows[q], f)
          /\ rows' = [rows EXCEPT ![r] = @ \cup {f}]
          /\ Goto(r, "script")
          /\ UNCHANGED <<lock, up, build, seen, made, ran, result>>

\* Mutant: the transaction may end after any step of the loop.
CommitEach(r, heard) ==
  /\ pc[r] = "script"
  /\ table' = (table \/ made[r])
  /\ ledger' = ledger \cup rows[r]
  /\ schema' = schema \o ran[r]
  /\ End(r, IF ~heard THEN "failed" ELSE IF up[r] THEN "applied" ELSE "reported")

\* The runner may not hear that its COMMIT succeeded.
Commit(r, heard) ==
  /\ pc[r] = "script"
  /\ up[r] => Pending(r) = {}
  /\ table' = (table \/ made[r])
  /\ ledger' = ledger \cup rows[r]
  /\ schema' = schema \o ran[r]
  /\ End(r, IF ~heard THEN "failed" ELSE IF up[r] THEN "applied" ELSE "reported")

\* Any statement fails, lock_timeout or statement_timeout or the two minutes
\* expire, or the process dies: the server rolls back.
Fail(r) ==
  /\ pc[r] # "idle"
  /\ End(r, "failed")
  /\ UNCHANGED database

Work(r) ==
  \/ CreateLedger(r)
  \/ Inspect(r)
  \/ ReadHistory(r)
  \/ Check(r)
  \/ Script(r)
  \/ Record(r)
  \/ Commit(r, TRUE)

Next ==
  \E r \in Runners :
    \/ \E b \in Builds, apply \in BOOLEAN : Start(r, b, apply)
    \/ Lock(r)
    \/ Work(r)
    \/ Commit(r, FALSE)
    \/ Fail(r)

Spec == Init /\ [][Next]_vars

\* A running command goes on, and the queue of the advisory lock is first come
\* first served; nothing obliges a statement to fail, so no timeout helps.
Fairness == \A r \in Runners : WF_vars(Work(r)) /\ SF_vars(Lock(r))

FairSpec == Spec /\ Fairness

-----------------------------------------------------------------------------
(* Properties *)

Extends(s, t) == Len(s) <= Len(t) /\ \A i \in 1..Len(s) : s[i] = t[i]

\* Types; in particular the text of an executed script is never empty.
TypeOK ==
  /\ table \in BOOLEAN
  /\ ledger \subseteq File
  /\ schema \in Seq(File)
  /\ lock \in Runners \cup {NoOne}
  /\ pc \in [Runners -> Phases]
  /\ up \in [Runners -> BOOLEAN]
  /\ build \in [Runners -> Builds]
  /\ seen \in [Runners -> SUBSET File]
  /\ made \in [Runners -> BOOLEAN]
  /\ ran \in [Runners -> Seq(File)]
  /\ rows \in [Runners -> SUBSET File]
  /\ result \in [Runners -> Results]

\* The database is empty or exactly at one release, whatever binaries ran, in
\* whatever order, and the ledger names exactly the scripts that were executed.
DatabaseIsAtARelease ==
  /\ schema = <<>> \/ \E b \in Builds : Loads(b) /\ schema = Steps(b)
  /\ ledger = Elements(schema)
  /\ ledger # {} => table

\* "up applies all pending migrations atomically": a step that changes the
\* schema takes it from a prefix of a release to that whole release.
AtomicUpgrade ==
  [][schema' # schema =>
       \E b \in Builds : Loads(b) /\ Extends(schema, Steps(b)) /\ schema' = Steps(b)]_vars

\* A successful "up" is true for ever: every step of its binary has been
\* executed, at its place, whatever the other runners did since.
SuccessMeansCurrent ==
  \A r \in Runners : result[r] = "applied" => Extends(Steps(build[r]), schema)

\* Serialised by the lock, concurrent "up" commands never fail because of one
\* another: neither on the first creation of the ledger nor on its primary key.
NoCollisions == \A r \in Runners : result[r] # "collided"

\* The history in hand is that of a release the binary extends.
Validated(r) ==
  \/ seen[r] = {}
  \/ \E b \in Builds :
       /\ Loads(b) /\ Extends(Steps(b), Steps(build[r]))
       /\ seen[r] = Elements(Steps(b))

\* What a successful "status" printed is one whole release, never the inside of
\* an upgrade, and one that the binary that printed it extends.
StatusShowsAReleaseOrNothing ==
  \A r \in Runners : result[r] = "reported" => Validated(r)

\* No command waits for ever, even without the timeouts.
EveryCommandEnds == \A r \in Runners : pc[r] # "idle" ~> pc[r] = "idle"

-----------------------------------------------------------------------------
(* The inductive invariant *)

\* Past the lock an "up" holds it, and only the holder has uncommitted work.
Serialised ==
  \A r \in Runners :
    /\ pc[r] \in {"lock", "create", "record"} => up[r]
    /\ lock = r <=> up[r] /\ pc[r] \notin {"idle", "lock"}
    /\ lock # r => ~made[r] /\ ran[r] = <<>> /\ rows[r] = {}
    /\ pc[r] = "create" => ~made[r]
    /\ up[r] /\ pc[r] \in {"create", "inspect", "read", "check"} =>
         ran[r] = <<>> /\ rows[r] = {}
    /\ up[r] /\ pc[r] \notin {"idle", "lock", "create"} => table \/ made[r]

\* Histories read: whole releases, validated after the check, and for the
\* holder of the lock still the ledger.
HistoriesRead ==
  \A r \in Runners :
    /\ pc[r] # "idle" => result[r] = "none"
    /\ pc[r] # "idle" \/ result[r] \in {"applied", "reported"} => Loads(build[r])
    /\ seen[r] = {} \/ \E b \in Builds : Loads(b) /\ seen[r] = Elements(Steps(b))
    /\ pc[r] \in {"script", "record"} => Validated(r)
    /\ up[r] /\ pc[r] \in {"check", "script", "record"} => seen[r] = ledger

\* Ledger rows the loop has inserted so far: all but that of the last script
\* between its execution and its INSERT.
Recorded(r) == IF pc[r] = "record" THEN Len(ran[r]) - 1 ELSE Len(ran[r])

\* The loop continues the committed schema along the steps of its binary.
InTheLoop(r) ==
  /\ Extends(schema, Steps(build[r]))
  /\ Len(schema) + Len(ran[r]) <= Length(build[r])
  /\ \A j \in 1..Len(ran[r]) : ran[r][j] = Steps(build[r])[Len(schema) + j]
  /\ Recorded(r) >= 0
  /\ rows[r] = {Steps(build[r])[i] : i \in (Len(schema) + 1)..(Len(schema) + Recorded(r))}

LoopsContinue ==
  \A r \in Runners : up[r] /\ pc[r] \in {"script", "record"} => InTheLoop(r)

IInv ==
  /\ TypeOK
  /\ DatabaseIsAtARelease
  /\ Serialised
  /\ HistoriesRead
  /\ LoopsContinue
  /\ SuccessMeansCurrent
  /\ NoCollisions
  /\ StatusShowsAReleaseOrNothing
=============================================================================
