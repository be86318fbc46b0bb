--------------------------- MODULE MigrationProofs ---------------------------
(***************************************************************************)
(* Proofs about Migration, for any number of runners and any set of        *)
(* binaries, well formed or not.                                           *)
(***************************************************************************)
EXTENDS Migration, FiniteSetTheorems, TLAPS

\* The files of a binary that loads form a sequence in which every file stands
\* at the place its number says (load).
LEMMA StepsType ==
  ASSUME NEW b \in Builds, Loads(b)
  PROVE  /\ Length(b) \in Nat
         /\ Steps(b) \in Seq(File)
         /\ Len(Steps(b)) = Length(b)
         /\ \A i \in 1..Length(b) : Steps(b)[i] \in File /\ Steps(b)[i].number = i
<1>1. Length(b) \in Nat
  BY ShippedAssumption, FS_CardinalityType DEF Length
<1>2. \A i \in 1..Length(b) :
        Steps(b)[i] \in Shipped[b] /\ Steps(b)[i].number = i
  BY DEF Loads, Steps
<1>3. \A f \in Shipped[b] : f \in File
  BY ShippedAssumption DEF Loads, File
<1>4. Steps(b) \in [1..Length(b) -> File]
  BY <1>2, <1>3 DEF Steps
<1>5. Steps(b) \in Seq(File) /\ Len(Steps(b)) = Length(b)
  BY <1>1, <1>4
<1> QED
  BY <1>1, <1>2, <1>3, <1>5

\* A name in the first k steps of a binary is that of one of those k steps:
\* what the loop finds recorded is what it passed.
LEMMA NamedPrefix ==
  ASSUME NEW b \in Builds, Loads(b), NEW k \in Nat, k <= Length(b),
         NEW i \in 1..Length(b)
  PROVE  Named({Steps(b)[j] : j \in 1..k}, Steps(b)[i]) <=> i <= k
<1>1. Length(b) \in Nat /\ \A j \in 1..Length(b) : Steps(b)[j].number = j
  BY StepsType
<1>2. ASSUME i <= k PROVE Named({Steps(b)[j] : j \in 1..k}, Steps(b)[i])
  <2>1. i \in 1..k
    BY <1>1, <1>2
  <2>2. Steps(b)[i] \in {Steps(b)[j] : j \in 1..k}
    BY <2>1
  <2> QED
    BY <2>2 DEF Named, SameName
<1>3. ASSUME Named({Steps(b)[j] : j \in 1..k}, Steps(b)[i]) PROVE i <= k
  <2>1. PICK j \in 1..k : SameName(Steps(b)[j], Steps(b)[i])
    BY <1>3 DEF Named
  <2> QED
    BY <1>1, <2>1 DEF SameName
<1> QED
  BY <1>2, <1>3

\* The elements of a release are its steps.
LEMMA ElementsOfSteps ==
  ASSUME NEW b \in Builds, Loads(b)
  PROVE  Elements(Steps(b)) = {Steps(b)[i] : i \in 1..Length(b)}
BY StepsType DEF Elements

\* The checks of Run suffice: a history that is a release and passes them is a
\* prefix of the steps shipped, checksums included.
LEMMA ChecksSuffice ==
  ASSUME NEW b \in Builds, Loads(b), NEW c \in Builds, Loads(c),
         ~Drifted(Elements(Steps(c)), b), ~Unknown(Elements(Steps(c)), b)
  PROVE  Extends(Steps(c), Steps(b))
<1> DEFINE h == Elements(Steps(c))
<1>1. /\ Length(b) \in Nat /\ Len(Steps(b)) = Length(b)
      /\ \A i \in 1..Length(b) : Steps(b)[i] \in File /\ Steps(b)[i].number = i
  BY StepsType
<1>2. /\ Length(c) \in Nat /\ Len(Steps(c)) = Length(c)
      /\ \A i \in 1..Length(c) : Steps(c)[i] \in File /\ Steps(c)[i].number = i
  BY StepsType
<1>3. ASSUME NEW i \in 1..Length(c)
      PROVE  i \in 1..Length(b) /\ Steps(c)[i] = Steps(b)[i]
  <2>1. Steps(c)[i] \in h
    BY <1>2 DEF Elements
  <2>2. PICK j \in 1..Length(b) : SameName(Steps(c)[i], Steps(b)[j])
    BY <2>1 DEF Unknown
  <2>3. j = i
    BY <1>1, <1>2, <2>2 DEF SameName
  <2>4. Named(h, Steps(b)[i])
    BY <2>1, <2>2, <2>3 DEF Named
  <2>5. Steps(b)[i] \in h
    BY <2>2, <2>3, <2>4 DEF Drifted
  <2>6. PICK l \in 1..Length(c) : Steps(b)[i] = Steps(c)[l]
    BY <1>2, <2>5 DEF Elements
  <2>7. l = i
    BY <1>1, <1>2, <2>2, <2>3, <2>6
  <2> QED
    BY <2>2, <2>3, <2>6, <2>7
<1>4. Length(c) <= Length(b)
  BY <1>1, <1>2, <1>3
<1> QED
  BY <1>1, <1>2, <1>3, <1>4 DEF Extends

\* A schema that only grows keeps every earlier success true.
LEMMA ExtendsTransitive ==
  ASSUME NEW s \in Seq(File), NEW t \in Seq(File), NEW u \in Seq(File),
         Extends(s, t), Extends(t, u)
  PROVE  Extends(s, u)
BY DEF Extends

\* The committed schema and ledger at a release, as sequences of steps.
LEMMA Prefix ==
  ASSUME TypeOK, DatabaseIsAtARelease, NEW b \in Builds, Loads(b),
         Extends(schema, Steps(b))
  PROVE  /\ Len(schema) \in Nat
         /\ Len(schema) <= Length(b)
         /\ ledger = {Steps(b)[i] : i \in 1..Len(schema)}
<1>1. Len(schema) \in Nat
  BY DEF TypeOK
<1>2. Len(Steps(b)) = Length(b)
  BY StepsType
<1>3. ledger = {schema[i] : i \in 1..Len(schema)}
  BY DEF DatabaseIsAtARelease, Elements
<1>4. \A i \in 1..Len(schema) : schema[i] = Steps(b)[i]
  BY DEF Extends
<1> QED
  BY <1>1, <1>2, <1>3, <1>4 DEF Extends

\* Inside the loop, what is still pending is exactly what lies beyond the
\* committed schema and the rows inserted.
LEMMA PendingIsTheRest ==
  ASSUME IInv, NEW r \in Runners, up[r], pc[r] \in {"script", "record"}
  PROVE  /\ Len(schema) + Recorded(r) \in Nat
         /\ Len(schema) + Recorded(r) <= Length(build[r])
         /\ \A i \in 1..Length(build[r]) :
              i \in Pending(r) <=> i > Len(schema) + Recorded(r)
<1> DEFINE b == build[r]
           k == Len(schema)
           m == Recorded(r)
<1>1. b \in Builds /\ Loads(b) /\ InTheLoop(r) /\ seen[r] = ledger
  BY DEF IInv, TypeOK, HistoriesRead, LoopsContinue
<1>2. /\ k \in Nat /\ k <= Length(b)
      /\ ledger = {Steps(b)[i] : i \in 1..k}
  BY <1>1, Prefix DEF IInv, InTheLoop
<1>3. Len(ran[r]) \in Nat /\ Length(b) \in Nat
  BY <1>1, StepsType DEF IInv, TypeOK
<1>4. m \in Nat /\ m <= Len(ran[r]) /\ k + m <= Length(b)
  BY <1>1, <1>2, <1>3 DEF InTheLoop, Recorded
<1>5. rows[r] = {Steps(b)[i] : i \in (k + 1)..(k + m)}
  BY <1>1 DEF InTheLoop
<1>6. seen[r] \cup rows[r] = {Steps(b)[i] : i \in 1..(k + m)}
  <2>1. 1..(k + m) = (1..k) \cup ((k + 1)..(k + m))
    BY <1>2, <1>4
  <2> HIDE DEF b, k, m
  <2> QED
    BY <1>1, <1>2, <1>5, <2>1
<1>7. ASSUME NEW i \in 1..Length(b)
      PROVE  Named(seen[r] \cup rows[r], Steps(b)[i]) <=> i <= k + m
  <2>1. k + m \in Nat
    BY <1>2, <1>4
  <2> HIDE DEF b, k, m
  <2>2. Named({Steps(b)[j] : j \in 1..(k + m)}, Steps(b)[i]) <=> i <= k + m
    BY <1>1, <1>4, <2>1, NamedPrefix
  <2> QED
    BY <1>6, <2>2
<1>8. \A i \in 1..Length(b) : i \in Pending(r) <=> ~(i <= k + m)
  BY <1>7 DEF Pending
<1> QED
  <2>1. k + m \in Nat /\ k + m <= Length(b) /\ Length(b) \in Nat
    BY <1>2, <1>3, <1>4
  <2> HIDE DEF k, m
  <2>2. \A i \in 1..Length(b) : i \in Pending(r) <=> i > k + m
    BY <1>8, <2>1
  <2> QED
    BY <2>1, <2>2 DEF k, m

\* The empty database satisfies the invariant.
LEMMA InitIInv == Init => IInv
<1> SUFFICES ASSUME Init PROVE IInv
  OBVIOUS
<1>1. TypeOK
  <2>1. (CHOOSE b \in Builds : TRUE) \in Builds
    BY ShippedAssumption
  <2>2. build \in [Runners -> Builds]
    BY <2>1 DEF Init
  <2>3. up \in [Runners -> BOOLEAN] /\ made \in [Runners -> BOOLEAN]
    BY DEF Init
  <2>4. ran \in [Runners -> Seq(File)] /\ schema \in Seq(File)
    BY DEF Init
  <2>5. /\ table \in BOOLEAN
        /\ ledger \subseteq File
        /\ lock \in Runners \cup {NoOne}
    BY DEF Init
  <2>6. seen \in [Runners -> SUBSET File] /\ rows \in [Runners -> SUBSET File]
    BY DEF Init
  <2>7. pc \in [Runners -> Phases] /\ result \in [Runners -> Results]
    BY DEF Init, Phases, Results
  <2> QED
    BY <2>2, <2>3, <2>4, <2>5, <2>6, <2>7 DEF TypeOK
<1>2. DatabaseIsAtARelease
  BY DEF Init, DatabaseIsAtARelease, Elements
<1>3. Serialised /\ HistoriesRead /\ LoopsContinue
  BY RunnerAssumption DEF Init, Serialised, HistoriesRead, LoopsContinue
<1>4. SuccessMeansCurrent /\ NoCollisions /\ StatusShowsAReleaseOrNothing
  BY DEF Init, SuccessMeansCurrent, NoCollisions, StatusShowsAReleaseOrNothing
<1> QED
  BY <1>1, <1>2, <1>3, <1>4 DEF IInv

\* A database that does not change stays at its release.
LEMMA DatabaseKept ==
  ASSUME DatabaseIsAtARelease, UNCHANGED database
  PROVE  DatabaseIsAtARelease'
BY DEF DatabaseIsAtARelease, database

\* What the invariant says of a runner another one does not disturb.
LEMMA OthersKept ==
  ASSUME IInv, NEW q \in Runners, UNCHANGED database,
         pc'[q] = pc[q], up'[q] = up[q], build'[q] = build[q], seen'[q] = seen[q],
         ran'[q] = ran[q], rows'[q] = rows[q], result'[q] = result[q]
  PROVE  /\ pc'[q] # "idle" => result'[q] = "none"
         /\ pc'[q] # "idle" \/ result'[q] \in {"applied", "reported"} => Loads(build'[q])
         /\ seen'[q] = {} \/ \E b \in Builds : Loads(b) /\ seen'[q] = Elements(Steps(b))
         /\ pc'[q] \in {"script", "record"} => Validated(q)'
         /\ up'[q] /\ pc'[q] \in {"check", "script", "record"} => seen'[q] = ledger'
         /\ up'[q] /\ pc'[q] \in {"script", "record"} => InTheLoop(q)'
         /\ result'[q] = "applied" => Extends(Steps(build'[q]), schema')
         /\ result'[q] # "collided"
         /\ result'[q] = "reported" => Validated(q)'
<1>1. Validated(q)' <=> Validated(q)
  BY DEF Validated
<1>2. InTheLoop(q)' <=> InTheLoop(q)
  BY DEF InTheLoop, Recorded, database
<1>3. ledger' = ledger /\ schema' = schema
  BY DEF database
<1> QED
  BY <1>1, <1>2, <1>3
  DEF IInv, HistoriesRead, LoopsContinue, SuccessMeansCurrent, NoCollisions,
      StatusShowsAReleaseOrNothing

\* A rollback, whatever its cause, preserves the invariant: the runner leaves
\* nothing behind and gives the lock back.
LEMMA RollbackKeeps ==
  ASSUME IInv, NEW r \in Runners, End(r, "failed"), UNCHANGED database
  PROVE  IInv'
<1>1. TypeOK'
  BY DEF IInv, TypeOK, End, Goto, database, Phases, Results
<1>2. DatabaseIsAtARelease'
  BY DatabaseKept DEF IInv
<1>3. Serialised'
  BY RunnerAssumption DEF IInv, TypeOK, Serialised, End, Goto, database
<1>4. \A q \in Runners \ {r} :
        /\ pc'[q] = pc[q] /\ up'[q] = up[q] /\ build'[q] = build[q] /\ seen'[q] = seen[q]
        /\ ran'[q] = ran[q] /\ rows'[q] = rows[q] /\ result'[q] = result[q]
  BY DEF IInv, TypeOK, End, Goto
<1>5. pc'[r] = "idle" /\ result'[r] = "failed" /\ seen'[r] = seen[r]
  BY DEF IInv, TypeOK, End, Goto
<1>6. HistoriesRead' /\ LoopsContinue'
  BY <1>4, <1>5, OthersKept DEF IInv, HistoriesRead, LoopsContinue
<1>7. SuccessMeansCurrent' /\ NoCollisions' /\ StatusShowsAReleaseOrNothing'
  BY <1>4, <1>5, OthersKept
  DEF SuccessMeansCurrent, NoCollisions, StatusShowsAReleaseOrNothing
<1> QED
  BY <1>1, <1>2, <1>3, <1>6, <1>7 DEF IInv

\* A new command starts without lock, history or work of its own.
LEMMA StartKeeps ==
  ASSUME IInv, NEW r \in Runners, NEW b \in Builds, NEW apply \in BOOLEAN, Start(r, b, apply)
  PROVE  IInv'
<1>1. TypeOK'
  BY DEF IInv, TypeOK, Start, Goto, database, transaction, Phases, Results
<1>2. DatabaseIsAtARelease' /\ UNCHANGED database
  BY DatabaseKept DEF IInv, Start
<1>3. Serialised'
  BY DEF IInv, TypeOK, Serialised, Start, Goto, transaction, database
<1>4. \A q \in Runners \ {r} :
        /\ pc'[q] = pc[q] /\ up'[q] = up[q] /\ build'[q] = build[q] /\ seen'[q] = seen[q]
        /\ ran'[q] = ran[q] /\ rows'[q] = rows[q] /\ result'[q] = result[q]
  BY DEF IInv, TypeOK, Goto, Start, transaction
<1>5. /\ pc'[r] \in {"idle", "lock", "inspect"} /\ result'[r] \in {"none", "failed"}
      /\ seen'[r] = {} /\ build'[r] = b
      /\ pc'[r] # "idle" => Loads(b) /\ result'[r] = "none"
  <2>1. CASE Loads(b)
    BY <2>1 DEF IInv, TypeOK, Start, Goto
  <2>2. CASE ~Loads(b)
    BY <2>2 DEF IInv, TypeOK, Start, Goto
  <2> QED
    BY <2>1, <2>2
<1>6. HistoriesRead' /\ LoopsContinue'
  BY <1>2, <1>4, <1>5, OthersKept DEF IInv, HistoriesRead, LoopsContinue
<1>7. SuccessMeansCurrent' /\ NoCollisions' /\ StatusShowsAReleaseOrNothing'
  BY <1>2, <1>4, <1>5, OthersKept
  DEF IInv, SuccessMeansCurrent, NoCollisions, StatusShowsAReleaseOrNothing
<1> QED
  BY <1>1, <1>2, <1>3, <1>6, <1>7 DEF IInv

\* Whoever takes the lock had no uncommitted work.
LEMMA LockKeeps ==
  ASSUME IInv, NEW r \in Runners, Lock(r)
  PROVE  IInv'
<1>1. TypeOK'
  BY DEF IInv, TypeOK, Lock, Goto, database, transaction, Phases, Results
<1>2. DatabaseIsAtARelease' /\ UNCHANGED database
  BY DatabaseKept DEF IInv, Lock
<1>3. Serialised'
  BY RunnerAssumption DEF IInv, TypeOK, Serialised, Lock, Goto, transaction, database
<1>4. \A q \in Runners \ {r} :
        /\ pc'[q] = pc[q] /\ up'[q] = up[q] /\ build'[q] = build[q] /\ seen'[q] = seen[q]
        /\ ran'[q] = ran[q] /\ rows'[q] = rows[q] /\ result'[q] = result[q]
  BY DEF IInv, TypeOK, Goto, Lock, transaction
<1>5. /\ pc'[r] = "create" /\ result'[r] = result[r] /\ seen'[r] = seen[r]
      /\ build'[r] = build[r] /\ Validated(r)' = Validated(r) /\ pc[r] = "lock"
      /\ ledger' = ledger /\ schema' = schema
  BY DEF IInv, TypeOK, Lock, Goto, database, transaction, Validated
<1>6. HistoriesRead' /\ LoopsContinue'
  BY <1>2, <1>4, <1>5, OthersKept DEF IInv, HistoriesRead, LoopsContinue
<1>7. SuccessMeansCurrent' /\ NoCollisions' /\ StatusShowsAReleaseOrNothing'
  BY <1>2, <1>4, <1>5, OthersKept
  DEF IInv, SuccessMeansCurrent, NoCollisions, StatusShowsAReleaseOrNothing
<1> QED
  BY <1>1, <1>2, <1>3, <1>6, <1>7 DEF IInv

\* Under the lock nobody else can have created the ledger table meanwhile.
LEMMA CreateLedgerKeeps ==
  ASSUME IInv, NEW r \in Runners, CreateLedger(r)
  PROVE  IInv'
<1>0. /\ pc[r] = "create" /\ made' = [made EXCEPT ![r] = ~table] /\ Goto(r, "inspect")
      /\ UNCHANGED <<lock, up, build, seen, ran, rows, result>>
  <2>1. pc[r] = "create" /\ up[r] /\ lock = r /\ ~made[r]
    BY DEF IInv, Serialised, CreateLedger
  <2>2. ~\E q \in Runners : made[q]
    BY <2>1 DEF IInv, Serialised
  <2> QED
    BY <2>1, <2>2 DEF CreateLedger
<1>1. TypeOK'
  BY <1>0 DEF IInv, TypeOK, CreateLedger, Goto, database, Phases
<1>2. DatabaseIsAtARelease' /\ UNCHANGED database
  BY DatabaseKept DEF IInv, CreateLedger
<1>3. Serialised'
  BY <1>0, <1>2 DEF IInv, TypeOK, Serialised, Goto, database
<1>4. \A q \in Runners \ {r} :
        /\ pc'[q] = pc[q] /\ up'[q] = up[q] /\ build'[q] = build[q] /\ seen'[q] = seen[q]
        /\ ran'[q] = ran[q] /\ rows'[q] = rows[q] /\ result'[q] = result[q]
  BY <1>0 DEF IInv, TypeOK, Goto
<1>5. /\ pc'[r] = "inspect" /\ result' = result /\ seen' = seen /\ build' = build
      /\ Validated(r)' = Validated(r) /\ ledger' = ledger /\ schema' = schema
  BY <1>0, <1>2 DEF IInv, TypeOK, Goto, Validated, database
<1>6. HistoriesRead' /\ LoopsContinue'
  BY <1>0, <1>2, <1>4, <1>5, OthersKept DEF IInv, HistoriesRead, LoopsContinue
<1>7. SuccessMeansCurrent' /\ NoCollisions' /\ StatusShowsAReleaseOrNothing'
  BY <1>2, <1>4, <1>5, OthersKept
  DEF IInv, SuccessMeansCurrent, NoCollisions, StatusShowsAReleaseOrNothing
<1> QED
  BY <1>1, <1>2, <1>3, <1>6, <1>7 DEF IInv

\* The committed ledger is empty or that of a release.
LEMMA LedgerIsAtARelease ==
  ASSUME IInv
  PROVE  ledger = {} \/ \E b \in Builds : Loads(b) /\ ledger = Elements(Steps(b))
<1>1. CASE schema = <<>>
  BY <1>1 DEF IInv, DatabaseIsAtARelease, Elements
<1>2. CASE schema # <<>>
  BY <1>2 DEF IInv, DatabaseIsAtARelease
<1> QED
  BY <1>1, <1>2

\* Without a ledger table nothing has been applied.
LEMMA InspectKeeps ==
  ASSUME IInv, NEW r \in Runners, Inspect(r)
  PROVE  IInv'
<1>1. TypeOK'
  BY DEF IInv, TypeOK, Inspect, Goto, database, transaction, Phases
<1>2. DatabaseIsAtARelease' /\ UNCHANGED database
  BY DatabaseKept DEF IInv, Inspect
<1>3. Serialised'
  BY DEF IInv, TypeOK, Serialised, Inspect, Goto, transaction, database
<1>4. \A q \in Runners \ {r} :
        /\ pc'[q] = pc[q] /\ up'[q] = up[q] /\ build'[q] = build[q] /\ seen'[q] = seen[q]
        /\ ran'[q] = ran[q] /\ rows'[q] = rows[q] /\ result'[q] = result[q]
  BY DEF IInv, TypeOK, Goto, Inspect, transaction
<1>5. /\ pc'[r] \in {"read", "check"}
      /\ result'[r] = "none" /\ Loads(build'[r])
      /\ seen'[r] = {} \/ \E b \in Builds : Loads(b) /\ seen'[r] = Elements(Steps(b))
      /\ up'[r] /\ pc'[r] = "check" => seen'[r] = ledger'
  <2>1. result[r] = "none" /\ Loads(build[r]) /\ result' = result /\ build' = build /\ up' = up
    BY DEF IInv, TypeOK, HistoriesRead, Inspect
  <2>2. pc'[r] \in {"read", "check"} /\ seen'[r] \in {{}, ledger} /\ ledger' = ledger
    BY DEF IInv, TypeOK, Inspect, Goto, database
  <2>3. up'[r] /\ pc'[r] = "check" => seen'[r] = {} /\ ledger = {}
    BY DEF IInv, TypeOK, DatabaseIsAtARelease, Inspect, Goto
  <2> QED
    BY <2>1, <2>2, <2>3, LedgerIsAtARelease
<1>6. HistoriesRead' /\ LoopsContinue'
  BY <1>2, <1>4, <1>5, OthersKept DEF HistoriesRead, LoopsContinue
<1>7. SuccessMeansCurrent' /\ NoCollisions' /\ StatusShowsAReleaseOrNothing'
  BY <1>2, <1>4, <1>5, OthersKept
  DEF SuccessMeansCurrent, NoCollisions, StatusShowsAReleaseOrNothing
<1> QED
  BY <1>1, <1>2, <1>3, <1>6, <1>7 DEF IInv

\* The history that "up" reads is the committed ledger: it has added nothing.
LEMMA ReadHistoryKeeps ==
  ASSUME IInv, NEW r \in Runners, ReadHistory(r)
  PROVE  IInv'
<1>1. TypeOK'
  BY DEF IInv, TypeOK, ReadHistory, Goto, database, transaction, Phases
<1>2. DatabaseIsAtARelease' /\ UNCHANGED database
  BY DatabaseKept DEF IInv, ReadHistory
<1>3. Serialised'
  BY DEF IInv, TypeOK, Serialised, ReadHistory, Goto, transaction, database
<1>4. \A q \in Runners \ {r} :
        /\ pc'[q] = pc[q] /\ up'[q] = up[q] /\ build'[q] = build[q] /\ seen'[q] = seen[q]
        /\ ran'[q] = ran[q] /\ rows'[q] = rows[q] /\ result'[q] = result[q]
  BY DEF IInv, TypeOK, Goto, ReadHistory, transaction
<1>5. /\ pc'[r] = "check"
      /\ result'[r] = "none" /\ Loads(build'[r])
      /\ seen'[r] = {} \/ \E b \in Builds : Loads(b) /\ seen'[r] = Elements(Steps(b))
      /\ up'[r] /\ pc'[r] = "check" => seen'[r] = ledger'
  <2>1. result[r] = "none" /\ Loads(build[r]) /\ result' = result /\ build' = build /\ up' = up
    BY DEF IInv, TypeOK, HistoriesRead, ReadHistory
  <2>2. pc'[r] = "check" /\ ledger' = ledger
    BY DEF IInv, TypeOK, ReadHistory, Goto, database
  <2>3. IF up[r] THEN seen'[r] = ledger ELSE seen'[r] = seen[r]
    BY DEF IInv, TypeOK, Serialised, ReadHistory
  <2> QED
    BY <2>1, <2>2, <2>3, LedgerIsAtARelease DEF IInv, HistoriesRead
<1>6. HistoriesRead' /\ LoopsContinue'
  BY <1>2, <1>4, <1>5, OthersKept DEF HistoriesRead, LoopsContinue
<1>7. SuccessMeansCurrent' /\ NoCollisions' /\ StatusShowsAReleaseOrNothing'
  BY <1>2, <1>4, <1>5, OthersKept
  DEF SuccessMeansCurrent, NoCollisions, StatusShowsAReleaseOrNothing
<1> QED
  BY <1>1, <1>2, <1>3, <1>6, <1>7 DEF IInv

\* A history that passes the checks is a prefix of what the binary ships.
LEMMA CheckValidates ==
  ASSUME IInv, NEW r \in Runners, Loads(build[r]),
         ~Drifted(seen[r], build[r]), ~Unknown(seen[r], build[r])
  PROVE  Validated(r)
<1>1. CASE seen[r] = {}
  BY <1>1 DEF Validated
<1>2. CASE seen[r] # {}
  <2>1. PICK c \in Builds : Loads(c) /\ seen[r] = Elements(Steps(c))
    BY <1>2 DEF IInv, HistoriesRead
  <2>2. build[r] \in Builds
    BY DEF IInv, TypeOK
  <2>3. Extends(Steps(c), Steps(build[r]))
    BY <2>1, <2>2, ChecksSuffice
  <2> QED
    BY <2>1, <2>3 DEF Validated
<1> QED
  BY <1>1, <1>2

\* The holder of the lock continues the committed schema.
LEMMA CheckContinues ==
  ASSUME IInv, NEW r \in Runners, Loads(build[r]), seen[r] = ledger,
         ~Drifted(seen[r], build[r]), ~Unknown(seen[r], build[r])
  PROVE  Extends(schema, Steps(build[r])) /\ Len(schema) <= Length(build[r])
<1>1. build[r] \in Builds
  BY DEF IInv, TypeOK
<1>2. Length(build[r]) \in Nat /\ Len(Steps(build[r])) = Length(build[r])
  BY <1>1, StepsType
<1>3. CASE schema = <<>>
  BY <1>2, <1>3 DEF Extends
<1>4. CASE schema # <<>>
  <2>1. PICK c \in Builds : Loads(c) /\ schema = Steps(c)
    BY <1>4 DEF IInv, DatabaseIsAtARelease
  <2>2. seen[r] = Elements(Steps(c))
    BY <2>1 DEF IInv, DatabaseIsAtARelease
  <2>3. Extends(Steps(c), Steps(build[r]))
    BY <1>1, <2>1, <2>2, ChecksSuffice
  <2> QED
    BY <1>2, <2>1, <2>3 DEF Extends
<1> QED
  BY <1>3, <1>4

\* A refused history is a rollback; an accepted one starts the loop at the end
\* of the committed schema.
LEMMA CheckKeeps ==
  ASSUME IInv, NEW r \in Runners, Check(r)
  PROVE  IInv'
<1>0. CASE Drifted(seen[r], build[r]) \/ Unknown(seen[r], build[r])
  BY <1>0, RollbackKeeps DEF Check
<1>9. CASE ~(Drifted(seen[r], build[r]) \/ Unknown(seen[r], build[r]))
  <2>0. /\ pc[r] = "check" /\ Goto(r, "script")
        /\ UNCHANGED <<lock, up, build, seen, transaction, result>>
    BY <1>9 DEF Check
  <2>1. TypeOK'
    BY <2>0 DEF IInv, TypeOK, Check, Goto, database, transaction, Phases
  <2>2. DatabaseIsAtARelease' /\ UNCHANGED database
    BY DatabaseKept DEF IInv, Check
  <2>3. Serialised'
    BY <2>0, <2>2 DEF IInv, TypeOK, Serialised, Goto, transaction, database
  <2>4. \A q \in Runners \ {r} :
          /\ pc'[q] = pc[q] /\ up'[q] = up[q] /\ build'[q] = build[q] /\ seen'[q] = seen[q]
          /\ ran'[q] = ran[q] /\ rows'[q] = rows[q] /\ result'[q] = result[q]
    BY <2>0 DEF IInv, TypeOK, Goto, transaction
  <2>5. result[r] = "none" /\ Loads(build[r]) /\ (up[r] => seen[r] = ledger)
    BY <2>0 DEF IInv, HistoriesRead
  <2>6. pc'[r] = "script" /\ result' = result /\ build' = build /\ seen' = seen
        /\ up' = up /\ ledger' = ledger /\ ran' = ran /\ rows' = rows /\ schema' = schema
    BY <2>0, <2>2 DEF IInv, TypeOK, Goto, database, transaction
  <2>7. Validated(r)'
    BY <1>9, <2>5, <2>6, CheckValidates DEF Validated
  <2>8. ASSUME up[r] PROVE InTheLoop(r)'
    <3>1. ran[r] = <<>> /\ rows[r] = {}
      BY <2>0, <2>8 DEF IInv, Serialised
    <3>2. Extends(schema, Steps(build[r])) /\ Len(schema) <= Length(build[r])
      BY <1>9, <2>5, <2>8, CheckContinues
    <3>3. Recorded(r)' = 0
      BY <2>6, <3>1 DEF Recorded
    <3>4. Len(schema) \in Nat
      BY DEF IInv, TypeOK
    <3> QED
      BY <2>6, <3>1, <3>2, <3>3, <3>4 DEF InTheLoop
  <2>9. HistoriesRead' /\ LoopsContinue'
    BY <2>2, <2>4, <2>5, <2>6, <2>7, <2>8, OthersKept DEF IInv, HistoriesRead, LoopsContinue
  <2>10. SuccessMeansCurrent' /\ NoCollisions' /\ StatusShowsAReleaseOrNothing'
    BY <2>2, <2>4, <2>5, <2>6, OthersKept
    DEF SuccessMeansCurrent, NoCollisions, StatusShowsAReleaseOrNothing
  <2> QED
    BY <2>1, <2>2, <2>3, <2>9, <2>10 DEF IInv
<1> QED
  BY <1>0, <1>9

\* The script executed is the next one of the binary.
LEMMA ScriptKeeps ==
  ASSUME IInv, NEW r \in Runners, Script(r)
  PROVE  IInv'
<1> DEFINE b == build[r]
           k == Len(schema)
           n == Len(ran[r])
<1>0. pc[r] = "script" /\ up[r] /\ b \in Builds /\ Loads(b) /\ InTheLoop(r)
      /\ result[r] = "none" /\ seen[r] = ledger /\ Validated(r)
  BY DEF IInv, TypeOK, HistoriesRead, LoopsContinue, Script
<1>a. k \in Nat /\ n \in Nat /\ Length(b) \in Nat /\ Recorded(r) = n
  BY <1>0, StepsType DEF IInv, TypeOK, Recorded
<1>b. PICK i \in Pending(r) :
        /\ \A j \in Pending(r) : i <= j
        /\ ran' = [ran EXCEPT ![r] = Append(@, Steps(b)[i])]
  BY DEF Script
<1>c. i \in 1..Length(b) /\ i = k + n + 1 /\ Steps(b)[i] \in File
  <2>1. i \in 1..Length(b)
    BY <1>b DEF Pending
  <2>2. i > k + n
    BY <1>0, <1>a, <1>b, <2>1, PendingIsTheRest
  <2>3. k + n + 1 \in 1..Length(b)
    BY <1>a, <2>1, <2>2
  <2>4. k + n + 1 \in Pending(r)
    BY <1>0, <1>a, <2>3, PendingIsTheRest
  <2>5. i <= k + n + 1
    BY <1>b, <2>4
  <2> QED
    BY <1>0, <1>a, <2>1, <2>2, <2>5, StepsType
<1>1. TypeOK'
  BY <1>b, <1>c DEF IInv, TypeOK, Script, Goto, database, Phases
<1>2. DatabaseIsAtARelease' /\ UNCHANGED database
  BY DatabaseKept DEF IInv, Script
<1>3. Serialised'
  BY <1>0, <1>b DEF IInv, TypeOK, Serialised, Script, Goto, database
<1>4. \A q \in Runners \ {r} :
        /\ pc'[q] = pc[q] /\ up'[q] = up[q] /\ build'[q] = build[q] /\ seen'[q] = seen[q]
        /\ ran'[q] = ran[q] /\ rows'[q] = rows[q] /\ result'[q] = result[q]
  BY <1>b DEF IInv, TypeOK, Goto, transaction, Script
<1>5. /\ pc'[r] = "record" /\ result' = result /\ build' = build /\ seen' = seen
      /\ up' = up /\ rows' = rows /\ ledger' = ledger /\ schema' = schema
      /\ ran'[r] = Append(ran[r], Steps(b)[i])
      /\ Validated(r)' /\ result'[r] = "none" /\ Loads(build'[r]) /\ seen'[r] = ledger'
  BY <1>0, <1>2, <1>b DEF IInv, TypeOK, Script, Goto, database, Validated
<1>8. InTheLoop(r)'
  <2>1. /\ Len(ran'[r]) = n + 1
        /\ \A j \in 1..n : ran'[r][j] = ran[r][j]
        /\ ran'[r][n + 1] = Steps(b)[i]
    BY <1>5, <1>c DEF IInv, TypeOK
  <2>2. Recorded(r)' = n
    BY <1>5, <1>a, <2>1 DEF Recorded
  <2>3. \A j \in 1..(n + 1) : ran'[r][j] = Steps(b)[k + j]
    <3>1. \A j \in 1..n : ran'[r][j] = Steps(b)[k + j]
      BY <1>0, <2>1 DEF InTheLoop
    <3>2. ran'[r][n + 1] = Steps(b)[k + (n + 1)]
      <4>1. i = k + (n + 1)
        BY <1>a, <1>c
      <4> QED
        BY <2>1, <4>1
    <3>3. \A j \in 1..(n + 1) : j \in 1..n \/ j = n + 1
      BY <1>a
    <3> QED
      BY <3>1, <3>2, <3>3
  <2>4. k + (n + 1) <= Length(b)
    BY <1>a, <1>c
  <2>5. rows[r] = {Steps(b)[l] : l \in (k + 1)..(k + n)}
    BY <1>0, <1>a DEF InTheLoop
  <2>6. Extends(schema, Steps(b))
    BY <1>0 DEF InTheLoop
  <2> HIDE DEF n
  <2> QED
    BY <1>5, <1>a, <2>1, <2>2, <2>3, <2>4, <2>5, <2>6 DEF InTheLoop
<1>6. HistoriesRead' /\ LoopsContinue'
  BY <1>2, <1>4, <1>5, <1>8, OthersKept DEF IInv, HistoriesRead, LoopsContinue
<1>7. SuccessMeansCurrent' /\ NoCollisions' /\ StatusShowsAReleaseOrNothing'
  BY <1>2, <1>4, <1>5, OthersKept
  DEF SuccessMeansCurrent, NoCollisions, StatusShowsAReleaseOrNothing
<1> QED
  BY <1>1, <1>2, <1>3, <1>6, <1>7 DEF IInv

\* The row inserted is that of the script just executed, and new.
LEMMA RecordKeeps ==
  ASSUME IInv, NEW r \in Runners, Record(r)
  PROVE  IInv'
<1> DEFINE b == build[r]
           k == Len(schema)
           n == Len(ran[r])
           f == ran[r][n]
<1>0. pc[r] = "record" /\ up[r] /\ b \in Builds /\ Loads(b) /\ InTheLoop(r)
      /\ result[r] = "none" /\ seen[r] = ledger /\ Validated(r)
  BY DEF IInv, TypeOK, Serialised, HistoriesRead, LoopsContinue, Record
<1>a. k \in Nat /\ n \in Nat /\ n >= 1 /\ Length(b) \in Nat /\ Recorded(r) = n - 1
  BY <1>0, StepsType DEF IInv, TypeOK, Recorded, InTheLoop
<1>b. k + n \in 1..Length(b) /\ f = Steps(b)[k + n] /\ f \in File
  BY <1>0, <1>a, StepsType DEF InTheLoop
<1>c. ~Named(ledger, f)
  <2>1. k <= Length(b) /\ ledger = {Steps(b)[j] : j \in 1..k}
    BY <1>0, Prefix DEF IInv, InTheLoop
  <2>2. Named({Steps(b)[j] : j \in 1..k}, Steps(b)[k + n]) <=> k + n <= k
    BY <1>0, <1>a, <1>b, <2>1, NamedPrefix
  <2> QED
    BY <1>a, <1>b, <2>1, <2>2
<1>d. /\ rows' = [rows EXCEPT ![r] = @ \cup {f}]
      /\ Goto(r, "script")
      /\ UNCHANGED <<lock, up, build, seen, made, ran, result>>
  BY <1>c DEF Record
<1>1. TypeOK'
  BY <1>b, <1>d DEF IInv, TypeOK, Record, Goto, database, Phases
<1>2. DatabaseIsAtARelease' /\ UNCHANGED database
  BY DatabaseKept DEF IInv, Record
<1>3. Serialised'
  BY <1>0, <1>2, <1>d DEF IInv, TypeOK, Serialised, Goto, database
<1>4. \A q \in Runners \ {r} :
        /\ pc'[q] = pc[q] /\ up'[q] = up[q] /\ build'[q] = build[q] /\ seen'[q] = seen[q]
        /\ ran'[q] = ran[q] /\ rows'[q] = rows[q] /\ result'[q] = result[q]
  BY <1>d DEF IInv, TypeOK, Goto
<1>5. /\ pc'[r] = "script" /\ result' = result /\ build' = build /\ seen' = seen
      /\ up' = up /\ ran' = ran /\ ledger' = ledger /\ schema' = schema
      /\ rows'[r] = rows[r] \cup {f}
      /\ Validated(r)' /\ result'[r] = "none" /\ Loads(build'[r]) /\ seen'[r] = ledger'
  BY <1>0, <1>2, <1>d DEF IInv, TypeOK, Goto, database, Validated
<1>8. InTheLoop(r)'
  <2>1. Recorded(r)' = n
    BY <1>5 DEF Recorded
  <2>2. rows[r] = {Steps(b)[l] : l \in (k + 1)..(k + (n - 1))}
    BY <1>0, <1>a DEF InTheLoop
  <2>3. (k + 1)..(k + n) = ((k + 1)..(k + (n - 1))) \cup {k + n}
    BY <1>a
  <2> HIDE DEF n, f
  <2>4. rows'[r] = {Steps(b)[l] : l \in (k + 1)..(k + n)}
    BY <1>5, <1>b, <2>2, <2>3
  <2>5. /\ Extends(schema, Steps(b)) /\ k + n <= Length(b)
        /\ \A j \in 1..n : ran[r][j] = Steps(b)[k + j]
    BY <1>0 DEF InTheLoop, n
  <2>6. Len(ran'[r]) = n /\ ran'[r] = ran[r]
    BY <1>5 DEF n
  <2>7. k' = k /\ build'[r] = b /\ Extends(schema, Steps(b))' = Extends(schema, Steps(b))
    BY <1>5 DEF Extends
  <2>8. /\ Extends(schema', Steps(build'[r]))
        /\ Len(schema') + Len(ran'[r]) <= Length(build'[r])
        /\ \A j \in 1..Len(ran'[r]) : ran'[r][j] = Steps(build'[r])[Len(schema') + j]
    BY <1>5, <2>5, <2>6, <2>7
  <2>9. /\ Recorded(r)' >= 0
        /\ rows'[r] = {Steps(build'[r])[l] :
                         l \in (Len(schema') + 1)..(Len(schema') + Recorded(r)')}
    <3>1. Recorded(r)' >= 0
      BY <1>a, <2>1
    <3>2. build' = build /\ schema' = schema
      BY <1>5
    <3>3. rows'[r] = {Steps(build'[r])[l] : l \in (Len(schema') + 1)..(Len(schema') + n)}
      BY <2>4, <3>2
    <3> QED
      BY <2>1, <3>1, <3>3
  <2> QED
    BY <2>8, <2>9 DEF InTheLoop
<1>6. HistoriesRead' /\ LoopsContinue'
  BY <1>2, <1>4, <1>5, <1>8, OthersKept DEF IInv, HistoriesRead, LoopsContinue
<1>7. SuccessMeansCurrent' /\ NoCollisions' /\ StatusShowsAReleaseOrNothing'
  BY <1>2, <1>4, <1>5, OthersKept
  DEF SuccessMeansCurrent, NoCollisions, StatusShowsAReleaseOrNothing
<1> QED
  BY <1>1, <1>2, <1>3, <1>6, <1>7 DEF IInv

\* A COMMIT of "up" leaves exactly the steps of its binary, in schema and
\* ledger, and extends what was there.
LEMMA CommitCompletes ==
  ASSUME IInv, NEW r \in Runners, NEW heard \in BOOLEAN, Commit(r, heard), up[r]
  PROVE  /\ Loads(build[r]) /\ Extends(schema, Steps(build[r]))
         /\ schema' = Steps(build[r])
         /\ ledger' = Elements(schema')
         /\ ledger' # {} => table'
<1> DEFINE b == build[r]
           k == Len(schema)
           n == Len(ran[r])
<1>0. pc[r] = "script" /\ lock = r /\ b \in Builds /\ Loads(b) /\ InTheLoop(r)
      /\ Pending(r) = {}
  BY DEF IInv, TypeOK, Serialised, HistoriesRead, LoopsContinue, Commit
<1>a. k \in Nat /\ n \in Nat /\ Length(b) \in Nat /\ Recorded(r) = n
  BY <1>0, StepsType DEF IInv, TypeOK, Recorded
<1>b. k + n = Length(b)
  <2>1. k + n <= Length(b)
    BY <1>0 DEF InTheLoop
  <2>2. Length(b) \in 1..Length(b) => ~(Length(b) > k + n)
    BY <1>0, <1>a, PendingIsTheRest
  <2> QED
    BY <1>a, <2>1, <2>2
<1>1. schema' = Steps(b)
  <2>1. schema \in Seq(File) /\ ran[r] \in Seq(File) /\ schema' = schema \o ran[r]
    BY DEF IInv, TypeOK, Commit
  <2>2. schema' \in Seq(File) /\ Len(schema') = k + n
    BY <2>1
  <2>3. Steps(b) \in Seq(File) /\ Len(Steps(b)) = k + n
    BY <1>0, <1>b, StepsType
  <2>4. ASSUME NEW l \in 1..(k + n) PROVE schema'[l] = Steps(b)[l]
    <3>1. CASE l <= k
      <4>1. schema'[l] = schema[l]
        BY <1>a, <2>1, <3>1
      <4>2. l \in 1..k
        BY <1>a, <3>1
      <4> QED
        BY <1>0, <4>1, <4>2 DEF InTheLoop, Extends
    <3>2. CASE l > k
      <4>1. schema'[l] = ran[r][l - k]
        BY <1>a, <2>1, <3>2
      <4>2. l - k \in 1..n /\ k + (l - k) = l
        BY <1>a, <3>2
      <4> QED
        BY <1>0, <4>1, <4>2 DEF InTheLoop
    <3> QED
      BY <1>a, <3>1, <3>2
  <2> HIDE DEF k, n
  <2> QED
    BY <2>2, <2>3, <2>4
<1>2. ledger' = {Steps(b)[i] : i \in 1..Length(b)}
  <2>1. ledger = {Steps(b)[i] : i \in 1..k}
    BY <1>0, Prefix DEF IInv, InTheLoop
  <2>2. rows[r] = {Steps(b)[i] : i \in (k + 1)..(k + n)}
    BY <1>0, <1>a DEF InTheLoop
  <2>3. 1..Length(b) = (1..k) \cup ((k + 1)..(k + n))
    BY <1>a, <1>b
  <2>4. ledger' = ledger \cup rows[r]
    BY DEF Commit
  <2> HIDE DEF k, n, b
  <2> QED
    BY <2>1, <2>2, <2>3, <2>4
<1>3. ledger' = Elements(schema')
  BY <1>0, <1>1, <1>2, ElementsOfSteps
<1>4. table'
  BY <1>0 DEF IInv, TypeOK, Serialised, Commit
<1> QED
  BY <1>0, <1>1, <1>3, <1>4 DEF InTheLoop

\* A COMMIT of "status" changes nothing: it has no work of its own.
LEMMA CommitOfStatus ==
  ASSUME IInv, NEW r \in Runners, NEW heard \in BOOLEAN, Commit(r, heard), ~up[r]
  PROVE  UNCHANGED database
<1>1. lock # r
  BY DEF IInv, Serialised
<1>2. ran[r] = <<>> /\ rows[r] = {} /\ ~made[r]
  BY <1>1 DEF IInv, Serialised
<1>3. table' = (table \/ made[r]) /\ ledger' = ledger \cup rows[r] /\ schema' = schema \o ran[r]
  BY DEF Commit
<1>4. schema' = schema
  BY <1>2, <1>3 DEF IInv, TypeOK
<1>5. table' = table
  BY <1>2, <1>3 DEF IInv, TypeOK
<1> QED
  BY <1>2, <1>3, <1>4, <1>5 DEF database

\* Nobody else is past the lock when "up" commits, and every earlier success
\* stays true because the schema is extended.
LEMMA CommitKeeps ==
  ASSUME IInv, NEW r \in Runners, NEW heard \in BOOLEAN, Commit(r, heard)
  PROVE  IInv'
<1>0. /\ pc[r] = "script" /\ result[r] = "none" /\ build[r] \in Builds
      /\ Loads(build[r]) /\ Validated(r)
  BY DEF IInv, TypeOK, HistoriesRead, Commit
<1>4. \A q \in Runners \ {r} :
        /\ pc'[q] = pc[q] /\ up'[q] = up[q] /\ build'[q] = build[q] /\ seen'[q] = seen[q]
        /\ ran'[q] = ran[q] /\ rows'[q] = rows[q] /\ result'[q] = result[q]
  BY DEF IInv, TypeOK, Goto, Commit, End
<1>5. /\ pc'[r] = "idle" /\ result'[r] \in {"failed", "applied", "reported"}
      /\ result'[r] = "applied" => up[r]
      /\ result'[r] = "reported" => ~up[r]
      /\ up' = up /\ build' = build /\ seen' = seen
      /\ Validated(r)'
  BY <1>0 DEF IInv, TypeOK, Goto, Commit, End, Validated
<1>2. DatabaseIsAtARelease' /\ schema' \in Seq(File)
  <2>1. CASE up[r]
    BY <1>0, <2>1, CommitCompletes, StepsType DEF DatabaseIsAtARelease
  <2>2. CASE ~up[r]
    BY <2>2, CommitOfStatus, DatabaseKept DEF IInv, TypeOK, database
  <2> QED
    BY <2>1, <2>2
<1>1. TypeOK'
  <2>1. table' \in BOOLEAN /\ ledger' \subseteq File
    BY DEF IInv, TypeOK, Commit
  <2>2. pc' \in [Runners -> Phases] /\ result' \in [Runners -> Results]
    BY DEF IInv, TypeOK, Commit, End, Goto, Phases, Results
  <2>3. /\ lock' \in Runners \cup {NoOne}
        /\ up' \in [Runners -> BOOLEAN]
        /\ build' \in [Runners -> Builds]
        /\ seen' \in [Runners -> SUBSET File]
        /\ made' \in [Runners -> BOOLEAN]
        /\ ran' \in [Runners -> Seq(File)]
        /\ rows' \in [Runners -> SUBSET File]
    BY DEF IInv, TypeOK, Commit, End
  <2> QED
    BY <1>2, <2>1, <2>2, <2>3 DEF TypeOK
<1>3. Serialised'
  BY RunnerAssumption DEF IInv, TypeOK, Serialised, Commit, End, Goto
<1>6. HistoriesRead' /\ LoopsContinue'
  <2>1. CASE up[r]
    <3>1. lock = r
      BY <1>0, <2>1 DEF IInv, Serialised
    <3>2. \A q \in Runners \ {r} : ~(up[q] /\ pc[q] \in {"check", "script", "record"})
      BY <3>1 DEF IInv, Serialised
    <3>3. \A q \in Runners \ {r} : Validated(q)' <=> Validated(q)
      BY <1>4, <1>5 DEF Validated
    <3> QED
      BY <1>0, <1>4, <1>5, <3>2, <3>3 DEF IInv, HistoriesRead, LoopsContinue
  <2>2. CASE ~up[r]
    BY <1>0, <1>4, <1>5, <2>2, CommitOfStatus, OthersKept
    DEF IInv, HistoriesRead, LoopsContinue
  <2> QED
    BY <2>1, <2>2
<1>7. SuccessMeansCurrent'
  <2>1. CASE up[r]
    <3>1. /\ schema' = Steps(build[r]) /\ Extends(schema, schema')
          /\ schema \in Seq(File) /\ schema' \in Seq(File)
      BY <1>2, <2>1, CommitCompletes DEF IInv, TypeOK
    <3>2. Extends(Steps(build[r]), schema')
      BY <3>1 DEF Extends
    <3>3. ASSUME NEW q \in Runners \ {r}, result[q] = "applied"
          PROVE  Extends(Steps(build[q]), schema')
      <4>1. build[q] \in Builds /\ Loads(build[q]) /\ Extends(Steps(build[q]), schema)
        BY <3>3 DEF IInv, TypeOK, HistoriesRead, SuccessMeansCurrent
      <4>2. Steps(build[q]) \in Seq(File)
        BY <4>1, StepsType
      <4> QED
        BY <3>1, <4>1, <4>2, ExtendsTransitive
    <3> QED
      BY <1>4, <1>5, <3>2, <3>3 DEF SuccessMeansCurrent
  <2>2. CASE ~up[r]
    BY <1>4, <1>5, <2>2, CommitOfStatus, OthersKept DEF SuccessMeansCurrent
  <2> QED
    BY <2>1, <2>2
<1>8. NoCollisions' /\ StatusShowsAReleaseOrNothing'
  <2>1. \A q \in Runners \ {r} : Validated(q)' <=> Validated(q)
    BY <1>4, <1>5 DEF Validated
  <2> QED
    BY <1>4, <1>5, <2>1 DEF IInv, NoCollisions, StatusShowsAReleaseOrNothing
<1> QED
  BY <1>1, <1>2, <1>3, <1>6, <1>7, <1>8 DEF IInv

\* Every step of Run, of any runner, preserves the invariant.
LEMMA NextIInv == IInv /\ [Next]_vars => IInv'
<1> SUFFICES ASSUME IInv, [Next]_vars PROVE IInv'
  OBVIOUS
<1>1. CASE UNCHANGED vars
  <2>1. TypeOK'
    BY <1>1 DEF vars, IInv, TypeOK
  <2>2. DatabaseIsAtARelease' /\ UNCHANGED database
    BY <1>1, DatabaseKept DEF vars, IInv, database
  <2>3. Serialised'
    BY <1>1 DEF vars, IInv, Serialised
  <2>4. HistoriesRead' /\ LoopsContinue'
    BY <1>1, <2>2, OthersKept DEF vars, HistoriesRead, LoopsContinue
  <2>5. SuccessMeansCurrent' /\ NoCollisions' /\ StatusShowsAReleaseOrNothing'
    BY <1>1, <2>2, OthersKept
    DEF vars, SuccessMeansCurrent, NoCollisions, StatusShowsAReleaseOrNothing
  <2> QED
    BY <2>1, <2>2, <2>3, <2>4, <2>5 DEF IInv
<1>2. CASE Next
  <2>1. PICK r \in Runners :
          \/ \E b \in Builds, apply \in BOOLEAN : Start(r, b, apply)
          \/ Lock(r)
          \/ Work(r)
          \/ Commit(r, FALSE)
          \/ Fail(r)
    BY <1>2 DEF Next
  <2>2. CASE Work(r)
    BY <2>2, CreateLedgerKeeps, InspectKeeps, ReadHistoryKeeps, CheckKeeps, ScriptKeeps,
       RecordKeeps, CommitKeeps DEF Work
  <2>3. CASE Fail(r)
    BY <2>3, RollbackKeeps DEF Fail
  <2> QED
    BY <2>1, <2>2, <2>3, StartKeeps, LockKeeps, CommitKeeps
<1> QED
  BY <1>1, <1>2

\* The inductive invariant holds in every reachable state of the command.
THEOREM InductiveInvariant == Spec => []IInv
BY InitIInv, NextIInv, PTL DEF Spec

\* The variables keep their types, and no empty script is ever executed.
THEOREM TypeCorrect == Spec => []TypeOK
<1>1. IInv => TypeOK
  BY DEF IInv
<1> QED
  BY <1>1, InductiveInvariant, PTL

\* Whatever binaries run, concurrently and with failures at any statement, the
\* database is at a release and the ledger tells which.
THEOREM AlwaysAtARelease == Spec => []DatabaseIsAtARelease
<1>1. IInv => DatabaseIsAtARelease
  BY DEF IInv
<1> QED
  BY <1>1, InductiveInvariant, PTL

\* A success of "up" is never undone or invalidated.
THEOREM SuccessIsLasting == Spec => []SuccessMeansCurrent
<1>1. IInv => SuccessMeansCurrent
  BY DEF IInv
<1> QED
  BY <1>1, InductiveInvariant, PTL

\* The advisory lock serialises "up" commands completely.
THEOREM RunnersNeverCollide == Spec => []NoCollisions
<1>1. IInv => NoCollisions
  BY DEF IInv
<1> QED
  BY <1>1, InductiveInvariant, PTL

\* A successful "status" shows a release, never part of an upgrade.
THEOREM StatusIsConsistent == Spec => []StatusShowsAReleaseOrNothing
<1>1. IInv => StatusShowsAReleaseOrNothing
  BY DEF IInv
<1> QED
  BY <1>1, InductiveInvariant, PTL

\* Every change of the schema is a whole upgrade to the release of one binary.
THEOREM UpgradesAreAtomic == Spec => AtomicUpgrade
<1> DEFINE Upgrade ==
      schema' # schema =>
        \E b \in Builds : Loads(b) /\ Extends(schema, Steps(b)) /\ schema' = Steps(b)
<1>1. IInv /\ [Next]_vars => [Upgrade]_vars
  <2> SUFFICES ASSUME IInv, Next, schema' # schema
               PROVE  \E b \in Builds : Loads(b) /\ Extends(schema, Steps(b)) /\ schema' = Steps(b)
    BY DEF vars
  <2>1. PICK r \in Runners, heard \in BOOLEAN : Commit(r, heard)
    BY DEF Next, Work, Start, Lock, CreateLedger, Inspect, ReadHistory, Check, Script,
           Record, Fail, database
  <2>2. up[r]
    BY <2>1, CommitOfStatus DEF database
  <2>3. build[r] \in Builds
    BY DEF IInv, TypeOK
  <2> QED
    BY <2>1, <2>2, <2>3, CommitCompletes
<1> QED
  BY <1>1, InductiveInvariant, PTL DEF Spec, AtomicUpgrade

=============================================================================
