--------------------------- MODULE MutationProofs ---------------------------
(***************************************************************************)
(* Proofs of the safety properties of Mutation and of its refinement of    *)
(* ExactlyOnce, for any handlers, keys, requests, names and resources.     *)
(***************************************************************************)
EXTENDS Mutation, TLAPS

-----------------------------------------------------------------------------
(* Handlers and answers.                                                   *)

\* A busy handler serves a request, and one that has inserted has an identifier.
LEMMA HandlerFields ==
  ASSUME TypeOK, NEW h \in Handlers
  PROVE  /\ phase[h] # "idle" =>
              /\ req[h] \in [key: Keys, digest: Digests]
              /\ req[h].key \in Keys /\ req[h].digest \in Digests
              /\ Name[req[h].digest] \in Names
         /\ HoldsName(h) => newId[h] \in Resources
  BY MutationAssumption DEF TypeOK, HoldsName

\* A committed record names a committed resource.
LEMMA RecordFields ==
  ASSUME TypeOK, RecordsMatchRows, NEW k \in Keys, record[k] # NoRecord
  PROVE  /\ record[k] \in [digest: Digests, resource: Resources]
         /\ record[k].digest \in Digests /\ record[k].resource \in Resources
         /\ rows[record[k].resource] # NoRow
         /\ rows[record[k].resource] = [key |-> k, name |-> Name[record[k].digest]]
<1>1. record[k] \in [digest: Digests, resource: Resources \cup {NoResource}]
  BY DEF TypeOK
<1>2. PICK r \in Resources : /\ record[k].resource = r
                             /\ rows[r] = [key |-> k, name |-> Name[record[k].digest]]
  BY DEF RecordsMatchRows
<1>3. [key |-> k, name |-> Name[record[k].digest]] \in [key: Keys, name: Names]
  BY <1>1, MutationAssumption
<1>. QED  BY <1>1, <1>2, <1>3, MutationAssumption

\* The answer of a handler has the type of an answer.
LEMMA ReplyType ==
  ASSUME TypeOK, NEW h \in Handlers, phase[h] # "idle", NEW result \in Results
  PROVE  /\ Reply(req[h].key, req[h].digest, result) \in [key: Keys, digest: Digests, result: Results]
         /\ Reply(req[h].key, req[h].digest, result).key = req[h].key
         /\ Reply(req[h].key, req[h].digest, result).digest = req[h].digest
         /\ Reply(req[h].key, req[h].digest, result).result = result
  BY HandlerFields DEF Reply

-----------------------------------------------------------------------------
(* Preservation of the invariant.                                          *)

\* A transaction that ends without a write leaves the others as they were; it
\* suffices that its answer, if any, is true.
LEMMA EndKeeps ==
  ASSUME IInv, NEW h \in Handlers, End(h), UNCHANGED <<record, rows, delegated>>,
         replies' \subseteq [key: Keys, digest: Digests, result: Results],
         \A a \in replies' : ReplyHolds(a)
  PROVE  IInv'
<1> USE DEF IInv
<1>1. TypeOK'
  BY DEF TypeOK, End, Phases, HoldsName
<1>2. RecordsMatchRows' /\ NamesAreUnique'
  BY DEF RecordsMatchRows, NamesAreUnique
<1>3. \A a \in replies' : ReplyHolds(a)'
  BY DEF ReplyHolds, Taken
<1>4. ~HoldsKey(h)' /\ ~HoldsName(h)' /\ phase'[h] = "idle"
  BY DEF End, HoldsKey, HoldsName, TypeOK
<1>5. \A g \in Handlers \ {h} : /\ phase'[g] = phase[g] /\ req'[g] = req[g] /\ newId'[g] = newId[g]
                                /\ HoldsKey(g)' = HoldsKey(g) /\ HoldsName(g)' = HoldsName(g)
  BY DEF End, TypeOK, HoldsKey, HoldsName
<1>6. \A g \in Handlers : FindingsHold(g)'
  BY <1>4, <1>5 DEF FindingsHold, Taken
<1>7. \A f, g \in Handlers : f # g => Compatible(f, g)'
  BY <1>4, <1>5 DEF Compatible
<1>. QED  BY <1>1, <1>2, <1>3, <1>6, <1>7

\* A statement of h that keeps the tables and leaves other handlers alone.
LEMMA StatementKeeps ==
  ASSUME IInv, NEW h \in Handlers, UNCHANGED <<record, rows, delegated, replies>>,
         TypeOK',
         \A g \in Handlers \ {h} : phase'[g] = phase[g] /\ req'[g] = req[g] /\ newId'[g] = newId[g],
         FindingsHold(h)',
         \A g \in Handlers \ {h} : Compatible(g, h)' /\ Compatible(h, g)'
  PROVE  IInv'
<1> USE DEF IInv
<1>1. RecordsMatchRows' /\ NamesAreUnique' /\ \A a \in replies' : ReplyHolds(a)'
  BY DEF RecordsMatchRows, NamesAreUnique, ReplyHolds, Taken
<1>2. \A g \in Handlers \ {h} : HoldsKey(g)' = HoldsKey(g) /\ HoldsName(g)' = HoldsName(g)
  BY DEF HoldsKey, HoldsName
<1>3. \A g \in Handlers : FindingsHold(g)'
  BY <1>2 DEF FindingsHold, Taken
<1>4. \A f, g \in Handlers : f # g => Compatible(f, g)'
  BY <1>2 DEF Compatible
<1>. QED  BY <1>1, <1>3, <1>4

\* A received request has found out nothing and locks nothing.
LEMMA ReceiveStep ==
  ASSUME IInv, NEW h \in Handlers, NEW k \in Keys, NEW d \in Digests, Receive(h, k, d)
  PROVE  IInv'
<1> USE DEF IInv, Receive
<1>1. phase'[h] = "received" /\ ~HoldsKey(h)' /\ ~HoldsName(h)'
  BY DEF TypeOK, HoldsKey, HoldsName
<1>2. [key |-> k, digest |-> d] \in [key: Keys, digest: Digests] /\ [key |-> k, digest |-> d] # NoRequest
  BY MutationAssumption
<1>3. TypeOK'
  BY <1>1, <1>2 DEF TypeOK, Phases, HoldsName
<1>4. FindingsHold(h)' /\ \A g \in Handlers \ {h} : Compatible(g, h)' /\ Compatible(h, g)'
  BY <1>1 DEF FindingsHold, Compatible
<1>. QED  BY <1>3, <1>4, StatementKeeps DEF TypeOK

\* The key is locked by one transaction and has no committed record.
LEMMA AcquireStep ==
  ASSUME IInv, NEW h \in Handlers, Acquire(h)
  PROVE  IInv'
<1> USE DEF IInv, Acquire
<1>1. phase'[h] = "acquired" /\ HoldsKey(h)' /\ ~HoldsName(h)'
  BY DEF TypeOK, HoldsKey, HoldsName
<1>2. TypeOK'
  BY <1>1 DEF TypeOK, Phases, HoldsName
<1>3. \A g \in Handlers \ {h} : phase'[g] = phase[g] /\ req'[g] = req[g] /\ newId'[g] = newId[g]
                                /\ HoldsKey(g)' = HoldsKey(g)
  BY DEF TypeOK, HoldsKey
<1>4. FindingsHold(h)'
  BY <1>1 DEF FindingsHold
<1>5. \A g \in Handlers \ {h} : Compatible(g, h)' /\ Compatible(h, g)'
  BY <1>1, <1>3 DEF Compatible, KeyIsFree
<1>. QED  BY <1>2, <1>3, <1>4, <1>5, StatementKeeps

\* An established record is replayed or refuses the request.
LEMMA AcquireExistingStep ==
  ASSUME IInv, NEW h \in Handlers, AcquireExisting(h)
  PROVE  IInv'
<1> USE DEF IInv
<1>0. phase[h] = "received" /\ record[req[h].key] # NoRecord /\ UNCHANGED <<record, rows, delegated>>
  BY DEF AcquireExisting
<1>1. CASE record[req[h].key].digest = req[h].digest
  <2>1. /\ phase' = [phase EXCEPT ![h] = "replaying"]
        /\ UNCHANGED <<record, rows, delegated, replies, req, newId>>
    BY <1>1 DEF AcquireExisting
  <2>2. phase'[h] = "replaying" /\ ~HoldsKey(h)' /\ ~HoldsName(h)'
    BY <2>1 DEF TypeOK, HoldsKey, HoldsName
  <2>3. TypeOK'
    BY <1>0, <2>1, <2>2 DEF TypeOK, Phases, HoldsName
  <2>4. FindingsHold(h)' /\ \A g \in Handlers \ {h} : Compatible(g, h)' /\ Compatible(h, g)'
    BY <1>0, <1>1, <2>1, <2>2 DEF FindingsHold, Compatible
  <2>. QED  BY <2>1, <2>3, <2>4, StatementKeeps DEF TypeOK
<1>2. CASE record[req[h].key].digest # req[h].digest
  <2>1. Answered(h, "request_mismatch") /\ End(h)
    BY <1>2 DEF AcquireExisting
  <2>2. "request_mismatch" \in Results
    BY DEF Results
  <2>3. \A a \in replies' \ replies :
          /\ a \in [key: Keys, digest: Digests, result: Results]
          /\ a.key = req[h].key /\ a.digest = req[h].digest /\ a.result = "request_mismatch"
    BY <1>0, <2>1, <2>2, ReplyType DEF Answered
  <2>4. replies' \subseteq [key: Keys, digest: Digests, result: Results]
    BY <2>3 DEF TypeOK
  <2>5. \A a \in replies' : ReplyHolds(a)
    BY <1>0, <1>2, <2>3, MutationAssumption DEF ReplyHolds
  <2>. QED  BY <1>0, <2>1, <2>4, <2>5, EndKeeps
<1>. QED  BY <1>1, <1>2

\* A replay repeats what the record says.
LEMMA ReplayStep ==
  ASSUME IInv, NEW h \in Handlers, Replay(h)
  PROVE  IInv'
<1> USE DEF IInv
<1>0. /\ phase[h] = "replaying" /\ End(h) /\ UNCHANGED <<record, rows, delegated>>
      /\ req[h].key \in Keys /\ record[req[h].key] # NoRecord
      /\ record[req[h].key].digest = req[h].digest
  BY HandlerFields DEF Replay, FindingsHold
<1>1. /\ record[req[h].key] \in [digest: Digests, resource: Resources]
      /\ record[req[h].key].resource \in Resources
  BY <1>0, RecordFields
<1>2. replies' = replies \/ Answered(h, record[req[h].key].resource)
  BY DEF Replay
<1>3. record[req[h].key].resource \in Results
  BY <1>1 DEF Results
<1>4. \A a \in replies' \ replies :
        /\ a \in [key: Keys, digest: Digests, result: Results]
        /\ a.key = req[h].key /\ a.digest = req[h].digest /\ a.result = record[req[h].key].resource
  BY <1>0, <1>2, <1>3, ReplyType DEF Answered
<1>5. replies' \subseteq [key: Keys, digest: Digests, result: Results]
  BY <1>4 DEF TypeOK
<1>6. record[req[h].key] = [digest |-> req[h].digest, resource |-> record[req[h].key].resource]
  BY <1>0, <1>1
<1>7. ASSUME NEW a \in replies' PROVE ReplyHolds(a)
  <2>1. CASE a \in replies
    BY <2>1
  <2>2. CASE a \notin replies
    <3>1. /\ a.key = req[h].key /\ a.digest = req[h].digest
          /\ a.result = record[req[h].key].resource
      BY <1>4, <2>2
    <3>2. record[a.key] = [digest |-> a.digest, resource |-> a.result]
      BY <1>6, <3>1
    <3>3. a.result # "request_mismatch" /\ a.result # "conflict"
      BY <1>1, <3>1, MutationAssumption
    <3>. QED  BY <3>2, <3>3 DEF ReplyHolds
  <2>. QED  BY <2>1, <2>2
<1>. QED  BY <1>0, <1>5, <1>7, EndKeeps

\* The insert locks a name and an identifier nobody else has.
LEMMA WriteStep ==
  ASSUME IInv, NEW h \in Handlers, NEW r \in Resources, Write(h, r)
  PROVE  IInv'
<1> USE DEF IInv, Write
<1>1. phase'[h] = "written" /\ HoldsKey(h) /\ HoldsKey(h)' /\ HoldsName(h)' /\ newId'[h] = r
  BY DEF TypeOK, HoldsKey, HoldsName
<1>2. TypeOK'
  BY <1>1, MutationAssumption DEF TypeOK, Phases, HoldsName
<1>3. \A g \in Handlers \ {h} : phase'[g] = phase[g] /\ req'[g] = req[g] /\ newId'[g] = newId[g]
                                /\ HoldsKey(g)' = HoldsKey(g) /\ HoldsName(g)' = HoldsName(g)
  BY DEF TypeOK, HoldsKey, HoldsName
<1>4. FindingsHold(h)'
  BY <1>1 DEF FindingsHold, FreshId, Refused, Taken
<1>5. \A g \in Handlers \ {h} : Compatible(g, h)' /\ Compatible(h, g)'
  BY <1>1, <1>3 DEF Compatible, NameIsFree, FreshId
<1>. QED  BY <1>2, <1>3, <1>4, <1>5, StatementKeeps

\* A refused insert leaves the key free; the name is taken, or delegated.
LEMMA WriteConflictStep ==
  ASSUME IInv, NEW h \in Handlers, WriteConflict(h)
  PROVE  IInv'
<1> USE DEF IInv
<1>0. /\ phase[h] = "acquired" /\ Refused(Name[req[h].digest]) /\ End(h) /\ UNCHANGED <<record, rows, delegated>>
      /\ Answered(h, "conflict") /\ record[req[h].key] = NoRecord
  BY DEF WriteConflict, FindingsHold, HoldsKey
<1>1. "conflict" \in Results
  BY DEF Results
<1>2. \A a \in replies' \ replies :
        /\ a \in [key: Keys, digest: Digests, result: Results]
        /\ a.key = req[h].key /\ a.digest = req[h].digest /\ a.result = "conflict"
  BY <1>0, <1>1, ReplyType DEF Answered
<1>3. replies' \subseteq [key: Keys, digest: Digests, result: Results]
  BY <1>2 DEF TypeOK
<1>4. \A a \in replies' : ReplyHolds(a)
  BY <1>0, <1>2, MutationAssumption DEF ReplyHolds, Refused, TypeOK
<1>. QED  BY <1>0, <1>3, <1>4, EndKeeps

\* Completing the record changes nothing another transaction sees.
LEMMA CompleteStep ==
  ASSUME IInv, NEW h \in Handlers, Complete(h)
  PROVE  IInv'
<1> USE DEF IInv, Complete
<1>1. /\ phase'[h] = "completed" /\ HoldsKey(h) /\ HoldsKey(h)' /\ HoldsName(h) /\ HoldsName(h)'
  BY DEF TypeOK, HoldsKey, HoldsName
<1>2. TypeOK'
  BY <1>1 DEF TypeOK, Phases, HoldsName
<1>3. \A g \in Handlers \ {h} : phase'[g] = phase[g] /\ req'[g] = req[g] /\ newId'[g] = newId[g]
                                /\ HoldsKey(g)' = HoldsKey(g) /\ HoldsName(g)' = HoldsName(g)
  BY DEF TypeOK, HoldsKey, HoldsName
<1>4. FindingsHold(h)'
  BY <1>1 DEF FindingsHold, Taken
<1>5. \A g \in Handlers \ {h} : Compatible(g, h)' /\ Compatible(h, g)'
  BY <1>1, <1>3 DEF Compatible
<1>. QED  BY <1>2, <1>3, <1>4, <1>5, StatementKeeps

\* The commit gives a key without a record its only resource.
LEMMA CommitStep ==
  ASSUME IInv, NEW h \in Handlers, NEW answered \in BOOLEAN, Commit(h, answered)
  PROVE  IInv'
<1> DEFINE k == req[h].key
           d == req[h].digest
           r == newId[h]
           newRecord == [digest |-> d, resource |-> r]
           newRow == [key |-> k, name |-> Name[d]]
<1> USE DEF IInv
<1>1. /\ phase[h] = "completed" /\ End(h)
      /\ record' = [record EXCEPT ![k] = newRecord]
      /\ rows' = [rows EXCEPT ![r] = newRow]
      /\ replies' = replies \/ Answered(h, r)
      /\ delegated' = delegated
  BY DEF Commit
<1>2. HoldsKey(h) /\ HoldsName(h)
  BY <1>1 DEF HoldsKey, HoldsName
<1>3. k \in Keys /\ d \in Digests /\ Name[d] \in Names /\ r \in Resources
  BY <1>1, <1>2, HandlerFields
<1>4. record[k] = NoRecord /\ rows[r] = NoRow /\ ~Taken(Name[d])
  BY <1>2 DEF FindingsHold
<1>5. newRecord \in [digest: Digests, resource: Resources] /\ newRow \in [key: Keys, name: Names]
  BY <1>3
<1>6. newRecord # NoRecord /\ newRow # NoRow /\ newRecord.digest = d /\ newRecord.resource = r
      /\ newRow.key = k /\ newRow.name = Name[d]
  BY <1>5, MutationAssumption
<1> HIDE DEF newRecord, newRow
<1>7. /\ record'[k] = newRecord /\ \A j \in Keys \ {k} : record'[j] = record[j]
      /\ rows'[r] = newRow /\ \A s \in Resources \ {r} : rows'[s] = rows[s]
  BY <1>1, <1>3 DEF TypeOK
<1>8. r \in Results
  BY <1>3 DEF Results
<1>9. \A a \in replies' \ replies :
        /\ a \in [key: Keys, digest: Digests, result: Results]
        /\ a.key = k /\ a.digest = d /\ a.result = r
  BY <1>1, <1>8, ReplyType DEF Answered
<1>10. TypeOK'
  <2>1. record' \in [Keys -> [digest: Digests, resource: Resources \cup {NoResource}] \cup {NoRecord}]
    BY <1>1, <1>5 DEF TypeOK
  <2>2. rows' \in [Resources -> [key: Keys, name: Names] \cup {NoRow}]
    BY <1>1, <1>5 DEF TypeOK
  <2>3. replies' \subseteq [key: Keys, digest: Digests, result: Results]
    BY <1>9 DEF TypeOK
  <2>. QED  BY <1>1, <2>1, <2>2, <2>3 DEF TypeOK, End, Phases, HoldsName
<1>11. \A name : Taken(name)' <=> Taken(name) \/ name = Name[d]
  BY <1>3, <1>4, <1>6, <1>7 DEF Taken
<1>12. RecordsMatchRows'
  <2>1. \A j \in Keys : record'[j] # NoRecord =>
          \E s \in Resources :
            /\ record'[j].resource = s
            /\ rows'[s] = [key |-> j, name |-> Name[record'[j].digest]]
    <3> SUFFICES ASSUME NEW j \in Keys, record'[j] # NoRecord
                 PROVE  \E s \in Resources :
                          /\ record'[j].resource = s
                          /\ rows'[s] = [key |-> j, name |-> Name[record'[j].digest]]
      OBVIOUS
    <3>1. CASE j = k
      BY <3>1, <1>3, <1>6, <1>7 DEF newRow
    <3>2. CASE j # k
      <4>1. record'[j] = record[j] /\ record[j] # NoRecord
        BY <3>2, <1>7
      <4>2. /\ record[j].resource \in Resources /\ rows[record[j].resource] # NoRow
            /\ rows[record[j].resource] = [key |-> j, name |-> Name[record[j].digest]]
        BY <4>1, RecordFields
      <4>. QED  BY <4>1, <4>2, <1>4, <1>7
    <3>. QED  BY <3>1, <3>2
  <2>2. \A s \in Resources : rows'[s] # NoRow =>
          record'[rows'[s].key] # NoRecord /\ record'[rows'[s].key].resource = s
    <3> SUFFICES ASSUME NEW s \in Resources, rows'[s] # NoRow
                 PROVE  record'[rows'[s].key] # NoRecord /\ record'[rows'[s].key].resource = s
      OBVIOUS
    <3>1. CASE s = r
      BY <3>1, <1>6, <1>7
    <3>2. CASE s # r
      <4>1. rows'[s] = rows[s] /\ rows[s].key \in Keys
        BY <3>2, <1>7 DEF TypeOK
      <4>2. record[rows[s].key] # NoRecord /\ record[rows[s].key].resource = s
        BY <4>1 DEF RecordsMatchRows
      <4>. QED  BY <4>1, <4>2, <1>4, <1>7
    <3>. QED  BY <3>1, <3>2
  <2>. QED  BY <2>1, <2>2 DEF RecordsMatchRows
<1>13. NamesAreUnique'
  BY <1>4, <1>6, <1>7 DEF NamesAreUnique, Taken
<1>14. \A a \in replies' : ReplyHolds(a)'
  <2> SUFFICES ASSUME NEW a \in replies' PROVE ReplyHolds(a)'
    OBVIOUS
  <2>0. a \in [key: Keys, digest: Digests, result: Results]
    BY <1>10 DEF TypeOK
  <2>1. CASE a \notin replies
    BY <2>1, <1>3, <1>6, <1>7, <1>9, MutationAssumption DEF ReplyHolds, newRecord
  <2>2. CASE a \in replies /\ a.key # k
    BY <2>0, <2>2, <1>7, <1>11 DEF ReplyHolds
  <2>3. CASE a \in replies /\ a.key = k
    <3>1. ReplyHolds(a)
      BY <2>3
    <3>2. a.result \notin Resources /\ a.result # "request_mismatch"
      <4>1. [digest |-> a.digest, resource |-> a.result] # NoRecord \/ a.result \notin Resources
        BY <2>0, MutationAssumption
      <4>. QED  BY <2>3, <3>1, <4>1, <1>4 DEF ReplyHolds
    <3>3. Name[a.digest] \notin Delegable => Taken(Name[a.digest]) /\ a.digest # d
      BY <2>0, <3>1, <3>2, <1>4 DEF ReplyHolds, Results
    <3>. QED  BY <2>3, <3>2, <3>3, <1>6, <1>7, <1>11 DEF ReplyHolds
  <2>. QED  BY <2>1, <2>2, <2>3
<1>15. ~HoldsKey(h)' /\ ~HoldsName(h)' /\ phase'[h] = "idle"
  BY <1>1 DEF End, HoldsKey, HoldsName, TypeOK
<1>16. \A g \in Handlers \ {h} : /\ phase'[g] = phase[g] /\ req'[g] = req[g] /\ newId'[g] = newId[g]
                                 /\ HoldsKey(g)' = HoldsKey(g) /\ HoldsName(g)' = HoldsName(g)
  BY <1>1 DEF End, TypeOK, HoldsKey, HoldsName
<1>17. \A g \in Handlers : FindingsHold(g)'
  <2> SUFFICES ASSUME NEW g \in Handlers \ {h} PROVE FindingsHold(g)'
    BY <1>15 DEF FindingsHold
  <2>1. Compatible(g, h) /\ FindingsHold(g)
    OBVIOUS
  <2>2. HoldsKey(g)' => record'[req'[g].key] = NoRecord
    <3> SUFFICES ASSUME HoldsKey(g) PROVE record'[req[g].key] = NoRecord
      BY <1>16
    <3>1. req[g].key \in Keys \ {k}
      BY <2>1, <1>2, HandlerFields DEF Compatible, HoldsKey
    <3>. QED  BY <3>1, <2>1, <1>7 DEF FindingsHold
  <2>3. phase'[g] = "replaying" =>
          record'[req'[g].key] # NoRecord /\ record'[req'[g].key].digest = req'[g].digest
    <3> SUFFICES ASSUME phase[g] = "replaying"
                 PROVE  record'[req[g].key] # NoRecord /\ record'[req[g].key].digest = req[g].digest
      BY <1>16
    <3>1. req[g].key \in Keys /\ record[req[g].key] # NoRecord
      BY <2>1, HandlerFields DEF FindingsHold
    <3>. QED  BY <3>1, <2>1, <1>4, <1>7 DEF FindingsHold
  <2>4. HoldsName(g)' => rows'[newId'[g]] = NoRow /\ ~Taken(Name[req[g].digest])'
    <3> SUFFICES ASSUME HoldsName(g)
                 PROVE  rows'[newId[g]] = NoRow /\ ~Taken(Name[req[g].digest])'
      BY <1>16
    <3>1. newId[g] \in Resources \ {r} /\ Name[req[g].digest] # Name[d]
      BY <2>1, <1>2, HandlerFields DEF Compatible
    <3>2. rows'[newId[g]] = NoRow
      BY <3>1, <2>1, <1>7 DEF FindingsHold
    <3>3. ~Taken(Name[req[g].digest])
      BY <2>1 DEF FindingsHold
    <3>4. ~Taken(Name[req[g].digest])'
      BY <3>1, <3>3, <1>11, <1>16
    <3>. QED  BY <3>2, <3>4, <1>16
  <2>. QED  BY <2>2, <2>3, <2>4 DEF FindingsHold
<1>18. \A f, g \in Handlers : f # g => Compatible(f, g)'
  BY <1>15, <1>16 DEF Compatible
<1>. QED  BY <1>10, <1>12, <1>13, <1>14, <1>17, <1>18

\* A delegation that comes or goes touches no record, row or answer.
LEMMA DelegationStep ==
  ASSUME IInv, NEW name \in Delegable, Delegate(name) \/ Revoke(name)
  PROVE  IInv'
<1>1. UNCHANGED <<record, rows, replies, phase, req, newId>> /\ delegated' \subseteq Delegable
  BY DEF Delegate, Revoke, IInv, TypeOK
<1>2. TypeOK'
  BY <1>1 DEF IInv, TypeOK, HoldsName
<1>. QED
  BY <1>1, <1>2 DEF IInv, RecordsMatchRows, NamesAreUnique, ReplyHolds, Taken,
                    FindingsHold, Compatible, HoldsKey, HoldsName

-----------------------------------------------------------------------------
(* Theorems.                                                               *)

\* Empty tables and idle handlers satisfy the invariant.
LEMMA InitInvariant == Init => IInv
<1> SUFFICES ASSUME Init PROVE IInv
  OBVIOUS
<1>1. TypeOK
  BY DEF Init, TypeOK, Phases, HoldsName
<1>2. RecordsMatchRows /\ NamesAreUnique /\ \A a \in replies : ReplyHolds(a)
  BY DEF Init, RecordsMatchRows, NamesAreUnique
<1>3. \A h \in Handlers : ~HoldsKey(h) /\ ~HoldsName(h) /\ phase[h] = "idle"
  BY DEF Init, HoldsKey, HoldsName
<1>. QED  BY <1>1, <1>2, <1>3 DEF IInv, FindingsHold, Compatible

\* Every step of a handler keeps the invariant.
LEMMA StepInvariant == IInv /\ [Next]_vars => IInv'
<1> SUFFICES ASSUME IInv, [Next]_vars PROVE IInv'
  OBVIOUS
<1>1. ASSUME NEW h \in Handlers, Serve(h) PROVE IInv'
  <2>1. ASSUME NEW k \in Keys, NEW d \in Digests, Receive(h, k, d) PROVE IInv'
    BY <2>1, ReceiveStep
  <2>2. CASE Acquire(h) \/ AcquireExisting(h) \/ Replay(h)
    BY <2>2, AcquireStep, AcquireExistingStep, ReplayStep
  <2>3. ASSUME NEW r \in Resources, Write(h, r) PROVE IInv'
    BY <2>3, WriteStep
  <2>4. CASE WriteConflict(h) \/ Complete(h)
    BY <2>4, WriteConflictStep, CompleteStep
  <2>5. ASSUME NEW answered \in BOOLEAN, Commit(h, answered) PROVE IInv'
    BY <2>5, CommitStep
  <2>6. CASE Fail(h)
    BY <2>6, EndKeeps DEF Fail, IInv, TypeOK
  <2>. QED  BY <1>1, <2>1, <2>2, <2>3, <2>4, <2>5, <2>6 DEF Serve
<1>2. ASSUME NEW name \in Delegable, Delegate(name) \/ Revoke(name) PROVE IInv'
  BY <1>2, DelegationStep
<1>3. CASE UNCHANGED vars
  BY <1>3 DEF vars, IInv, TypeOK, RecordsMatchRows, NamesAreUnique, ReplyHolds, Taken,
              FindingsHold, Compatible, HoldsKey, HoldsName
<1>. QED  BY <1>1, <1>2, <1>3 DEF Next

\* The inductive invariant holds in every reachable state.
THEOREM InductiveInvariant == Spec => []IInv
  BY InitInvariant, StepInvariant, PTL DEF Spec

\* Tables, answers and open transactions keep their shape.
THEOREM TypeCorrect == Spec => []TypeOK
<1>1. IInv => TypeOK
  BY DEF IInv
<1>. QED  BY <1>1, InductiveInvariant, PTL

\* A key and its resource are committed together and one to one, wherever a
\* handler fails (Acquire, Complete and WithinTransaction).
THEOREM OneResourcePerKey == Spec => []RecordsMatchRows
<1>1. IInv => RecordsMatchRows
  BY DEF IInv
<1>. QED  BY <1>1, InductiveInvariant, PTL

\* No two resources have the same name (the unique indexes).
THEOREM UniqueNames == Spec => []NamesAreUnique
<1>1. IInv => NamesAreUnique
  BY DEF IInv
<1>. QED  BY <1>1, InductiveInvariant, PTL

\* The answers given for a key never contradict each other, but for a conflict
\* with a delegation that has been revoked since (replay, AcquireExisting and
\* the unique names).
THEOREM ConsistentAnswers == Spec => []AnswersAgree
<1>1. ASSUME IInv PROVE AnswersAgree
  <2> SUFFICES ASSUME NEW a \in replies, NEW b \in replies, a.key = b.key, a.result \in Resources
               PROVE  /\ rows[a.result] # NoRow /\ rows[a.result].key = a.key
                      /\ b.result \in Resources => b.digest = a.digest /\ b.result = a.result
                      /\ b.result = "request_mismatch" => b.digest # a.digest
                      /\ b.result = "conflict" /\ b.digest = a.digest => Name[a.digest] \in Delegable
    BY DEF AnswersAgree
  <2>1. a \in [key: Keys, digest: Digests, result: Results] /\ ReplyHolds(a) /\ ReplyHolds(b)
    BY <1>1 DEF IInv, TypeOK
  <2>2. record[a.key] = [digest |-> a.digest, resource |-> a.result]
    BY <2>1 DEF ReplyHolds
  <2>3. record[a.key] # NoRecord
    BY <2>1, <2>2, MutationAssumption
  <2>4. rows[a.result] # NoRow /\ rows[a.result] = [key |-> a.key, name |-> Name[a.digest]]
    BY <1>1, <2>1, <2>2, <2>3, RecordFields DEF IInv
  <2>5. rows[a.result].key = a.key
    BY <2>4
  <2>6. ASSUME b.result \in Resources PROVE b.digest = a.digest /\ b.result = a.result
    <3>1. record[a.key] = [digest |-> b.digest, resource |-> b.result]
      BY <2>1, <2>6 DEF ReplyHolds
    <3>. QED  BY <3>1, <2>2
  <2>7. b.result = "request_mismatch" => b.digest # a.digest
    BY <2>1, <2>2 DEF ReplyHolds
  <2>8. b.result = "conflict" /\ b.digest = a.digest => Name[a.digest] \in Delegable
    BY <2>1, <2>2, <2>3 DEF ReplyHolds
  <2>. QED  BY <2>4, <2>5, <2>6, <2>7, <2>8
<1>. QED  BY <1>1, InductiveInvariant, PTL

-----------------------------------------------------------------------------
(* Refinement.                                                             *)

\* Every step of a handler is a step of ExactlyOnce or changes nothing it sees.
LEMMA RefinementStep ==
  IInv /\ [Next]_vars => [Abstract!Next]_(Abstract!vars)
<1> SUFFICES ASSUME IInv, [Next]_vars PROVE Abstract!Next \/ UNCHANGED <<record, replies>>
  BY DEF Abstract!vars
<1> USE DEF IInv
<1>1. ASSUME NEW h \in Handlers, Serve(h) PROVE Abstract!Next \/ UNCHANGED <<record, replies>>
  <2> DEFINE k == req[h].key
             d == req[h].digest
  <2>1. CASE AcquireExisting(h)
    <3>1. k \in Keys /\ d \in Digests /\ record[k] # NoRecord /\ record' = record
      BY <2>1, HandlerFields DEF AcquireExisting
    <3>2. CASE record[k].digest = d
      BY <2>1, <3>2 DEF AcquireExisting
    <3>3. CASE record[k].digest # d
      <4>1. Abstract!Answer(k, d)
        BY <2>1, <3>1, <3>3 DEF AcquireExisting, Answered, Abstract!Answer, Abstract!Reply, Reply
      <4>. QED  BY <3>1, <4>1 DEF Abstract!Next
    <3>. QED  BY <3>2, <3>3
  <2>2. CASE Replay(h)
    <3>1. /\ k \in Keys /\ d \in Digests /\ record' = record
          /\ record[k] # NoRecord /\ record[k].digest = d
      BY <2>2, HandlerFields DEF Replay, FindingsHold
    <3>2. CASE replies' = replies
      BY <3>1, <3>2
    <3>3. CASE replies' # replies
      <4>1. replies' = replies \cup {Reply(k, d, record[k].resource)}
        BY <2>2, <3>3 DEF Replay, Answered
      <4>2. Abstract!Answer(k, d)
        BY <3>1, <4>1 DEF Abstract!Answer, Abstract!Reply, Reply
      <4>. QED  BY <3>1, <4>2 DEF Abstract!Next
    <3>. QED  BY <3>2, <3>3
  <2>3. CASE WriteConflict(h)
    <3>1. k \in Keys /\ d \in Digests /\ record[k] = NoRecord /\ record' = record
      BY <2>3, HandlerFields DEF WriteConflict, FindingsHold, HoldsKey
    <3>2. Abstract!Refuse(k, d)
      BY <2>3, <3>1 DEF WriteConflict, Answered, Abstract!Refuse, Abstract!Reply, Reply
    <3>. QED  BY <3>1, <3>2 DEF Abstract!Next
  <2>4. ASSUME NEW answered \in BOOLEAN, Commit(h, answered) PROVE Abstract!Next
    <3>1. HoldsKey(h) /\ HoldsName(h) /\ phase[h] # "idle"
      BY <2>4 DEF Commit, HoldsKey, HoldsName
    <3>2. /\ k \in Keys /\ d \in Digests /\ newId[h] \in Resources
          /\ record[k] = NoRecord /\ rows[newId[h]] = NoRow
      BY <3>1, HandlerFields DEF FindingsHold
    <3>3. \A j \in Keys : record[j] # NoRecord => record[j].resource # newId[h]
      BY <3>2, RecordFields
    <3>4. /\ record' = [record EXCEPT ![k] = [digest |-> d, resource |-> newId[h]]]
          /\ replies' \in {replies, replies \cup {Reply(k, d, newId[h])}}
      BY <2>4 DEF Commit, Answered
    <3>5. Abstract!Take(k, d, newId[h])
      BY <3>2, <3>3, <3>4 DEF Abstract!Take, Abstract!Reply, Reply
    <3>. QED  BY <3>2, <3>5 DEF Abstract!Next
  <2>. QED
    BY <1>1, <2>1, <2>2, <2>3, <2>4 DEF Serve, Receive, Acquire, Write, Complete, Fail
<1>2. CASE UNCHANGED vars
  BY <1>2 DEF vars
<1>. QED  BY <1>1, <1>2 DEF Next, Delegate, Revoke

\* The create services give every key at most one effect and answer it from
\* its record for ever: Mutation implements ExactlyOnce.
THEOREM Refinement == Spec => ImplementsExactlyOnce
<1>1. Init => Abstract!Init
  BY DEF Init, Abstract!Init
<1>. QED
  BY <1>1, RefinementStep, InductiveInvariant, PTL DEF Spec, ImplementsExactlyOnce, Abstract!Spec
=============================================================================
