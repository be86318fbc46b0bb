---------------------------- MODULE OutboxProofs ----------------------------
(***************************************************************************)
(* Proofs that the outbox keeps its safety properties for every number of  *)
(* producers, workers, attempts and messages, every lease and retry bound  *)
(* and every clock skew.                                                   *)
(***************************************************************************)
EXTENDS Outbox, TLAPS

-----------------------------------------------------------------------------
(* Rows.                                                                   *)

\* A swept row is a dead letter that keeps its attempts.
LEMMA SweptRowType ==
  ASSUME NEW r \in Row
  PROVE  /\ SweptRow(r) \in Row
         /\ SweptRow(r).state = "dead_letter"
         /\ SweptRow(r).attempts = r.attempts
         /\ SweptRow(r).token = NoToken
         /\ SweptRow(r).lastError = "attempts_exhausted"
  BY DEF Row, States, SweptRow, ReleasedRow

\* A claimed row counts one more attempt and carries the new token.
LEMMA ClaimedRowType ==
  ASSUME NEW r \in Row, NEW t \in Tokens, NEW at \in Int, NEW lease \in Nat,
         r.attempts < MaxAttempts
  PROVE  /\ ClaimedRow(r, t, at, lease) \in Row
         /\ ClaimedRow(r, t, at, lease).state = "claimed"
         /\ ClaimedRow(r, t, at, lease).attempts = r.attempts + 1
         /\ ClaimedRow(r, t, at, lease).token = t
         /\ ClaimedRow(r, t, at, lease).lastError = r.lastError
  BY OutboxAssumption DEF Row, States, ClaimedRow

\* An absent sequence has an empty row.
LEMMA AbsentRowType ==
  /\ AbsentRow \in Row
  /\ AbsentRow.state = "absent" /\ AbsentRow.attempts = 0
  /\ AbsentRow.token = NoToken /\ AbsentRow.lastError = "none"
  BY OutboxAssumption DEF AbsentRow, Row, States

\* Ageing keeps the order of times, so a comparison made before a tick holds
\* after it.
LEMMA OlderIsMonotone ==
  ASSUME NEW a \in Int, NEW b \in Int
  PROVE  /\ Older(a) \in Int
         /\ Older(a) <= a
         /\ a <= b => Older(a) <= Older(b)
  BY OutboxAssumption DEF Older, Floor

-----------------------------------------------------------------------------
(* Steps of the recording transactions.                                    *)

\* Steps that only move a producer's transaction.
LEMMA ProducerSteps ==
  ASSUME IInv, NEW p \in Producers,
         \/ NextSequence(p)
         \/ \E at \in ClockReadings, nanos \in SubMicros : Record(p, at, nanos)
         \/ Rollback(p)
  PROVE  IInv'
  <1> USE DEF IInv
  <1>1. UNCHANGED <<nextSequence, msg, claim, handed, answered>>
    BY DEF NextSequence, Record, Rollback
  <1>2. TypeOK'
    <2>1. CASE NextSequence(p)
      BY <2>1, <1>1, OutboxAssumption DEF TypeOK, NextSequence, Transaction
    <2>2. CASE \E at \in ClockReadings, nanos \in SubMicros : Record(p, at, nanos)
      BY <2>2, <1>1, OutboxAssumption DEF TypeOK, Record, ClockReadings, Transaction
    <2>3. CASE Rollback(p)
      BY <2>3, <1>1, OutboxAssumption DEF TypeOK, Rollback, IdleTx, Transaction
    <2>4. QED BY <2>1, <2>2, <2>3
  <1>3. OneAllocator'
    <2>1. CASE NextSequence(p)
      BY <2>1, <1>1 DEF OneAllocator, TypeOK, Transaction, NextSequence
    <2>2. CASE \E at \in ClockReadings, nanos \in SubMicros : Record(p, at, nanos)
      BY <2>2, <1>1 DEF OneAllocator, TypeOK, Transaction, Record
    <2>3. CASE Rollback(p)
      BY <2>3, <1>1 DEF OneAllocator, TypeOK, Transaction, Rollback, IdleTx
    <2>4. QED BY <2>1, <2>2, <2>3
  <1>4. SequencesAreGapFree' /\ SweptOnlyWhenExhausted' /\ AbsentIsEmpty'
    BY <1>1 DEF SequencesAreGapFree, SweptOnlyWhenExhausted, AbsentIsEmpty
  <1>5. ClaimsAreExclusive' /\ AttemptsHaveOneOwner' /\ ClaimTimes' /\ LiveClaimsAreOpen'
    BY <1>1 DEF ClaimsAreExclusive, LockedBy, AttemptsHaveOneOwner, ClaimTimes, LiveClaimsAreOpen, HandedFor
  <1>6. QED BY <1>2, <1>3, <1>4, <1>5

\* The commit turns the lowest absent sequence into a pending message.
LEMMA CommitStep ==
  ASSUME IInv, NEW p \in Producers, Commit(p)
  PROVE  IInv'
  <1> USE DEF IInv
  <1> DEFINE new == PendingRow(tx[p].at, tx[p].nanos)
  <1>1. /\ nextSequence \in EventSequences
        /\ nextSequence' = nextSequence + 1
        /\ msg' = [msg EXCEPT ![nextSequence] = new]
        /\ tx' = [tx EXCEPT ![p] = IdleTx]
        /\ UNCHANGED <<claim, handed, answered>>
    <2>1. tx[p].seq = nextSequence /\ nextSequence < MaxSequence
      BY DEF Commit, OneAllocator
    <2>2. nextSequence \in EventSequences
      BY <2>1, OutboxAssumption DEF TypeOK, EventSequences
    <2>3. QED BY <2>1, <2>2 DEF Commit
  <1>2. /\ new \in Row /\ new.state = "pending" /\ new.attempts = 0
        /\ new.token = NoToken /\ new.lastError = "none"
    BY OutboxAssumption DEF PendingRow, Row, States, TypeOK, Transaction
  <1> HIDE DEF new
  <1>3. msg[nextSequence] = AbsentRow
    BY <1>1 DEF SequencesAreGapFree, AbsentIsEmpty, TypeOK
  <1>4. /\ msg'[nextSequence] = new
        /\ \A s \in EventSequences : s # nextSequence => msg'[s] = msg[s]
    BY <1>1 DEF TypeOK
  <1>5. TypeOK'
    BY <1>1, <1>2, OutboxAssumption DEF TypeOK, IdleTx, EventSequences, Transaction
  <1>6. SequencesAreGapFree' /\ AbsentIsEmpty'
    BY <1>1, <1>2, <1>4 DEF SequencesAreGapFree, AbsentIsEmpty, EventSequences, TypeOK
  <1>7. ClaimsAreExclusive'
    <2>1. \A w \in Workers : nextSequence \notin LockedBy(w)
      BY <1>3, AbsentRowType DEF ClaimsAreExclusive, LockedBy
    <2>2. QED
      BY <2>1, <1>1, <1>4 DEF ClaimsAreExclusive, LockedBy, TypeOK, Claim
  <1>8. AttemptsHaveOneOwner'
    BY <1>1, <1>2, <1>3, <1>4, AbsentRowType DEF AttemptsHaveOneOwner, TypeOK
  <1>9. SweptOnlyWhenExhausted'
    BY <1>1, <1>2, <1>4 DEF SweptOnlyWhenExhausted
  <1>10. OneAllocator'
    BY <1>1 DEF OneAllocator, Commit, TypeOK, IdleTx
  <1>11. ClaimTimes'
    <2>1. \A w \in Workers : nextSequence \notin claim[w].take
      BY <1>3, AbsentRowType DEF ClaimsAreExclusive
    <2>2. QED
      BY <2>1, <1>1, <1>4 DEF ClaimTimes, TypeOK, Claim
  <1>12. LiveClaimsAreOpen'
    BY <1>1, <1>2, <1>4 DEF LiveClaimsAreOpen, HandedFor
  <1>13. QED BY <1>5, <1>6, <1>7, <1>8, <1>9, <1>10, <1>11, <1>12

-----------------------------------------------------------------------------
(* Steps of the Claim transactions.                                        *)

\* The sweep takes only rows nobody else holds.
LEMMA BeginClaimStep ==
  ASSUME IInv, NEW w \in Workers, StartClaim(w)
  PROVE  IInv'
  <1> USE DEF IInv
  <1>1. PICK at \in ClockReadings, lease \in 1 .. MaxLease, limit \in 1 .. MaxClaimBatch :
          BeginClaim(w, at, lease, limit)
    BY DEF StartClaim
  <1> DEFINE sweep == {s \in EventSequences : Exhausted(s, at)}
  <1> DEFINE new == [phase |-> "swept", at |-> at, lease |-> lease,
                     limit |-> limit, sweep |-> sweep, take |-> {}]
  <1>2. /\ claim' = [claim EXCEPT ![w] = new]
        /\ sweep \cap LockedByOthers(w) = {}
        /\ UNCHANGED <<nextSequence, tx, msg, handed, answered>>
    BY <1>1 DEF BeginClaim
  <1>3. new \in Claim /\ new.take = {} /\ new.sweep = sweep /\ new.at = at /\ new.phase = "swept"
    BY OutboxAssumption DEF Claim, ClockReadings
  <1>4. \A s \in sweep : msg[s].state = "claimed" /\ msg[s].attempts = MaxAttempts
    BY OutboxAssumption DEF Exhausted, TypeOK, Row
  <1> HIDE DEF new, sweep
  <1>5. claim'[w] = new /\ \A v \in Workers : v # w => claim'[v] = claim[v]
    BY <1>2 DEF TypeOK
  <1>6. TypeOK'
    BY <1>2, <1>3 DEF TypeOK
  <1>7. ClaimsAreExclusive'
    <2>1. \A v \in Workers : v # w => LockedBy(v) \cap sweep = {}
      BY <1>2 DEF LockedByOthers
    <2>2. LockedBy(w)' = sweep /\ \A v \in Workers : v # w => LockedBy(v)' = LockedBy(v)
      BY <1>5, <1>3 DEF LockedBy
    <2>3. \A u, v \in Workers : u # v => LockedBy(u)' \cap LockedBy(v)' = {}
      BY <2>1, <2>2 DEF ClaimsAreExclusive
    <2>4. \A v \in Workers :
            /\ \A s \in claim'[v].sweep : msg'[s].state = "claimed" /\ msg'[s].attempts = MaxAttempts
            /\ \A s \in claim'[v].take : msg'[s].state \in {"pending", "retry", "claimed"}
                                        /\ msg'[s].attempts < MaxAttempts
      BY <1>2, <1>3, <1>4, <1>5 DEF ClaimsAreExclusive
    <2>5. QED BY <2>3, <2>4 DEF ClaimsAreExclusive
  <1>8. ClaimTimes'
    BY <1>2, <1>3, <1>5, OutboxAssumption DEF ClaimTimes, ClockReadings
  <1>9. SequencesAreGapFree' /\ SweptOnlyWhenExhausted' /\ AbsentIsEmpty' /\ OneAllocator' /\ AttemptsHaveOneOwner'
    BY <1>2 DEF SequencesAreGapFree, SweptOnlyWhenExhausted, AbsentIsEmpty, OneAllocator, AttemptsHaveOneOwner
  <1>10. LiveClaimsAreOpen'
    BY <1>2 DEF LiveClaimsAreOpen, HandedFor
  <1>11. QED BY <1>6, <1>7, <1>8, <1>9, <1>10

\* SKIP LOCKED keeps the candidates apart from every other transaction's rows.
LEMMA SelectClaimsStep ==
  ASSUME IInv, NEW w \in Workers, SelectClaims(w) \/ AbortClaim(w)
  PROVE  IInv'
  <1> USE DEF IInv
  <1> DEFINE take == Candidates(w)
  <1> DEFINE new == [claim[w] EXCEPT !.phase = "updated", !.take = take]
  <1>1. /\ \/ claim' = [claim EXCEPT ![w] = IdleClaim]
           \/ claim[w].phase = "swept" /\ claim' = [claim EXCEPT ![w] = new]
        /\ UNCHANGED <<nextSequence, tx, msg, handed, answered>>
    BY DEF SelectClaims, AbortClaim
  <1>2. /\ take \subseteq EventSequences
        /\ take \cap LockedByOthers(w) = {}
        /\ \A s \in take : Claimable(s, claim[w].at)
    BY DEF Candidates
  <1> HIDE DEF take
  <1>3. /\ new \in Claim /\ new.take = take /\ new.sweep = claim[w].sweep
        /\ new.at = claim[w].at /\ new.phase = "updated"
    BY <1>2 DEF TypeOK, Claim
  <1>4. /\ IdleClaim \in Claim /\ IdleClaim.take = {} /\ IdleClaim.sweep = {}
        /\ IdleClaim.phase = "idle"
    BY OutboxAssumption DEF IdleClaim, Claim
  <1> HIDE DEF new
  <1>5. /\ claim'[w] = IdleClaim \/ (claim[w].phase = "swept" /\ claim'[w] = new)
        /\ \A v \in Workers : v # w => claim'[v] = claim[v]
    BY <1>1 DEF TypeOK
  <1>6. TypeOK'
    BY <1>1, <1>3, <1>4 DEF TypeOK
  <1>7. ClaimsAreExclusive'
    <2>1. \A v \in Workers : v # w => LockedBy(v) \cap take = {}
      BY <1>2 DEF LockedByOthers
    <2>2. LockedBy(w)' \subseteq LockedBy(w) \cup take
      BY <1>3, <1>4, <1>5 DEF LockedBy
    <2>3. \A v \in Workers : v # w => LockedBy(v)' = LockedBy(v)
      BY <1>5 DEF LockedBy
    <2>4. \A u, v \in Workers : u # v => LockedBy(u)' \cap LockedBy(v)' = {}
      BY <2>1, <2>2, <2>3 DEF ClaimsAreExclusive
    <2>5. \A s \in take : msg[s].state \in {"pending", "retry", "claimed"} /\ msg[s].attempts < MaxAttempts
      BY <1>2 DEF Claimable
    <2>6. \A v \in Workers :
            /\ \A s \in claim'[v].sweep : msg'[s].state = "claimed" /\ msg'[s].attempts = MaxAttempts
            /\ \A s \in claim'[v].take : msg'[s].state \in {"pending", "retry", "claimed"}
                                        /\ msg'[s].attempts < MaxAttempts
      BY <2>5, <1>1, <1>3, <1>4, <1>5 DEF ClaimsAreExclusive
    <2>7. QED BY <2>4, <2>6 DEF ClaimsAreExclusive
  <1>8. ClaimTimes'
    <2>1. \A s \in take : IF msg[s].state = "claimed" THEN msg[s].leaseEnd <= claim[w].at
                          ELSE msg[s].available <= claim[w].at
      BY <1>2 DEF Claimable
    <2>2. QED
      BY <2>1, <1>1, <1>3, <1>4, <1>5 DEF ClaimTimes
  <1>9. SequencesAreGapFree' /\ SweptOnlyWhenExhausted' /\ AbsentIsEmpty' /\ OneAllocator' /\ AttemptsHaveOneOwner'
    BY <1>1 DEF SequencesAreGapFree, SweptOnlyWhenExhausted, AbsentIsEmpty, OneAllocator, AttemptsHaveOneOwner
  <1>10. LiveClaimsAreOpen'
    BY <1>1 DEF LiveClaimsAreOpen, HandedFor
  <1>11. QED BY <1>6, <1>7, <1>8, <1>9, <1>10

\* What the commit of a Claim does to each row.
LEMMA CommitClaimRows ==
  ASSUME IInv, NEW w \in Workers, CommitClaim(w)
  PROVE  /\ FreshToken \in Tokens /\ FreshToken \notin UsedTokens
         /\ claim[w].sweep \cap claim[w].take = {}
         /\ msg' \in [EventSequences -> Row]
         /\ \A s \in claim[w].sweep :
              /\ msg'[s].state = "dead_letter" /\ msg'[s].attempts = msg[s].attempts
              /\ msg'[s].token = NoToken /\ msg'[s].lastError = "attempts_exhausted"
         /\ \A s \in claim[w].take :
              /\ msg'[s].state = "claimed" /\ msg'[s].attempts = msg[s].attempts + 1
              /\ msg'[s].token = FreshToken /\ msg'[s].lastError = msg[s].lastError
         /\ \A s \in EventSequences : s \notin LockedBy(w) => msg'[s] = msg[s]
  <1>1. FreshToken \in Tokens /\ FreshToken \notin UsedTokens
    BY DEF CommitClaim, FreshToken
  <1>2. claim[w] \in Claim /\ msg \in [EventSequences -> Row]
    BY DEF IInv, TypeOK
  <1>3. claim[w].sweep \cap claim[w].take = {}
    BY <1>2, OutboxAssumption DEF IInv, ClaimsAreExclusive, Claim, Row
  <1>4. \A s \in EventSequences :
          msg'[s] = CASE s \in claim[w].sweep -> SweptRow(msg[s])
                      [] s \in claim[w].take ->
                           ClaimedRow(msg[s], FreshToken, claim[w].at, claim[w].lease)
                      [] OTHER -> msg[s]
    BY DEF CommitClaim
  <1>5. \A s \in claim[w].sweep : s \in EventSequences /\ msg'[s] = SweptRow(msg[s])
    BY <1>2, <1>3, <1>4 DEF Claim
  <1>6. \A s \in claim[w].take :
          /\ s \in EventSequences /\ msg[s].attempts < MaxAttempts
          /\ msg'[s] = ClaimedRow(msg[s], FreshToken, claim[w].at, claim[w].lease)
    BY <1>2, <1>3, <1>4 DEF Claim, IInv, ClaimsAreExclusive
  <1>7. \A s \in EventSequences : s \notin LockedBy(w) => msg'[s] = msg[s]
    BY <1>4 DEF LockedBy
  <1>8. claim[w].at \in Int /\ claim[w].lease \in Nat
    BY <1>2, OutboxAssumption DEF Claim
  <1>9. \A s \in claim[w].sweep :
          /\ msg'[s] \in Row
          /\ msg'[s].state = "dead_letter" /\ msg'[s].attempts = msg[s].attempts
          /\ msg'[s].token = NoToken /\ msg'[s].lastError = "attempts_exhausted"
    BY <1>2, <1>5, SweptRowType
  <1>10. \A s \in claim[w].take :
          /\ msg'[s] \in Row
          /\ msg'[s].state = "claimed" /\ msg'[s].attempts = msg[s].attempts + 1
          /\ msg'[s].token = FreshToken /\ msg'[s].lastError = msg[s].lastError
    BY <1>1, <1>2, <1>6, <1>8, ClaimedRowType
  <1>11. \A s \in EventSequences : msg'[s] \in Row
    BY <1>2, <1>7, <1>9, <1>10 DEF LockedBy
  <1>12. msg' \in [EventSequences -> Row]
    BY <1>11 DEF CommitClaim
  <1>13. QED BY <1>1, <1>3, <1>7, <1>9, <1>10, <1>12

\* The commit hands every taken message to the new token alone.
LEMMA CommitClaimStep ==
  ASSUME IInv, NEW w \in Workers, CommitClaim(w)
  PROVE  IInv'
  <1> USE DEF IInv
  <1> DEFINE fresh == FreshToken
  <1>1. /\ fresh \in Tokens /\ fresh \notin UsedTokens
        /\ claim[w].sweep \cap claim[w].take = {}
        /\ msg' \in [EventSequences -> Row]
        /\ \A s \in claim[w].sweep :
             /\ msg'[s].state = "dead_letter" /\ msg'[s].attempts = msg[s].attempts
             /\ msg'[s].token = NoToken /\ msg'[s].lastError = "attempts_exhausted"
        /\ \A s \in claim[w].take :
             /\ msg'[s].state = "claimed" /\ msg'[s].attempts = msg[s].attempts + 1
             /\ msg'[s].token = fresh /\ msg'[s].lastError = msg[s].lastError
        /\ \A s \in EventSequences : s \notin LockedBy(w) => msg'[s] = msg[s]
    BY CommitClaimRows
  <1>2. /\ handed' = [s \in EventSequences |->
                       IF s \in claim[w].take THEN Append(handed[s], fresh) ELSE handed[s]]
        /\ claim' = [claim EXCEPT ![w] = IdleClaim]
        /\ UNCHANGED <<nextSequence, tx, answered>>
    BY DEF CommitClaim
  <1> HIDE DEF fresh
  <1>3. IdleClaim \in Claim /\ IdleClaim.take = {} /\ IdleClaim.sweep = {} /\ IdleClaim.phase = "idle"
    BY OutboxAssumption DEF IdleClaim, Claim
  <1>4. claim'[w] = IdleClaim /\ \A v \in Workers : v # w => claim'[v] = claim[v]
    BY <1>2 DEF TypeOK
  <1>5. LockedBy(w)' = {} /\ \A v \in Workers : v # w => LockedBy(v)' = LockedBy(v)
    BY <1>3, <1>4 DEF LockedBy
  <1>6. \A v \in Workers : v # w =>
          \A s \in LockedBy(v) : s \in EventSequences /\ msg'[s] = msg[s]
    BY <1>1 DEF ClaimsAreExclusive, LockedBy, TypeOK, Claim
  <1>7. TypeOK'
    <2>1. handed' \in [EventSequences -> Seq(Tokens)]
      BY <1>1, <1>2 DEF TypeOK
    <2>2. QED BY <2>1, <1>1, <1>2, <1>3 DEF TypeOK
  <1>8. SequencesAreGapFree'
    <2>1. \A s \in EventSequences : (msg'[s].state # "absent") <=> (msg[s].state # "absent")
      BY <1>1 DEF LockedBy, ClaimsAreExclusive
    <2>2. QED BY <2>1, <1>2 DEF SequencesAreGapFree
  <1>9. ClaimsAreExclusive'
    <2>1. \A u, v \in Workers : u # v => LockedBy(u)' \cap LockedBy(v)' = {}
      BY <1>5 DEF ClaimsAreExclusive
    <2>2. \A v \in Workers :
            /\ \A s \in claim'[v].sweep : msg'[s].state = "claimed" /\ msg'[s].attempts = MaxAttempts
            /\ \A s \in claim'[v].take : msg'[s].state \in {"pending", "retry", "claimed"}
                                        /\ msg'[s].attempts < MaxAttempts
      BY <1>3, <1>4, <1>6 DEF ClaimsAreExclusive, LockedBy
    <2>3. QED BY <2>1, <2>2 DEF ClaimsAreExclusive
  <1>10. AttemptsHaveOneOwner'
    <2> SUFFICES ASSUME NEW s \in EventSequences
                 PROVE  /\ Len(handed'[s]) = msg'[s].attempts
                        /\ \A i, j \in 1 .. Len(handed'[s]) : handed'[s][i] = handed'[s][j] => i = j
                        /\ (msg'[s].state = "claimed") <=> (msg'[s].token # NoToken)
                        /\ msg'[s].state = "claimed" => msg'[s].token = handed'[s][Len(handed'[s])]
      BY DEF AttemptsHaveOneOwner
    <2>1. /\ Len(handed[s]) = msg[s].attempts
          /\ \A i, j \in 1 .. Len(handed[s]) : handed[s][i] = handed[s][j] => i = j
          /\ (msg[s].state = "claimed") <=> (msg[s].token # NoToken)
          /\ msg[s].state = "claimed" => msg[s].token = handed[s][Len(handed[s])]
          /\ handed[s] \in Seq(Tokens)
          /\ \A i \in 1 .. Len(handed[s]) : handed[s][i] # fresh
      <3>1. handed[s] \in Seq(Tokens)
        BY DEF TypeOK
      <3>2. \A i \in 1 .. Len(handed[s]) : handed[s][i] # fresh
        BY <1>1 DEF UsedTokens, HandedFor
      <3>3. QED BY <3>1, <3>2 DEF AttemptsHaveOneOwner
    <2>2. CASE s \in claim[w].take
      <3>1. handed'[s] = Append(handed[s], fresh)
        BY <2>2, <1>2
      <3>2. /\ Len(handed'[s]) = Len(handed[s]) + 1
            /\ handed'[s][Len(handed[s]) + 1] = fresh
            /\ \A i \in 1 .. Len(handed[s]) : handed'[s][i] = handed[s][i]
            /\ Len(handed[s]) \in Nat
        BY <3>1, <2>1, <1>1
      <3>3. \A i, j \in 1 .. Len(handed'[s]) : handed'[s][i] = handed'[s][j] => i = j
        <4> SUFFICES ASSUME NEW i \in 1 .. (Len(handed[s]) + 1), NEW j \in 1 .. (Len(handed[s]) + 1),
                            handed'[s][i] = handed'[s][j]
                     PROVE  i = j
          BY <3>2
        <4>1. CASE i \in 1 .. Len(handed[s]) /\ j \in 1 .. Len(handed[s])
          BY <4>1, <3>2, <2>1
        <4>2. CASE i = Len(handed[s]) + 1 /\ j \in 1 .. Len(handed[s])
          BY <4>2, <3>2, <2>1
        <4>3. CASE i \in 1 .. Len(handed[s]) /\ j = Len(handed[s]) + 1
          BY <4>3, <3>2, <2>1
        <4>4. QED BY <4>1, <4>2, <4>3, <3>2
      <3>4. QED BY <3>2, <3>3, <2>1, <2>2, <1>1, OutboxAssumption
    <2>3. CASE s \in claim[w].sweep
      BY <2>1, <2>3, <1>1, <1>2
    <2>4. CASE s \notin LockedBy(w)
      BY <2>1, <2>4, <1>1, <1>2 DEF LockedBy
    <2>5. QED BY <2>2, <2>3, <2>4 DEF LockedBy
  <1>11. SweptOnlyWhenExhausted'
    <2> SUFFICES ASSUME NEW s \in EventSequences, msg'[s].lastError = "attempts_exhausted"
                 PROVE  msg'[s].state = "dead_letter" /\ msg'[s].attempts = MaxAttempts
      BY DEF SweptOnlyWhenExhausted
    <2>1. CASE s \in claim[w].take
      BY <2>1, <1>1 DEF SweptOnlyWhenExhausted, ClaimsAreExclusive
    <2>2. CASE s \in claim[w].sweep
      BY <2>2, <1>1 DEF ClaimsAreExclusive
    <2>3. CASE s \notin LockedBy(w)
      BY <2>3, <1>1 DEF SweptOnlyWhenExhausted
    <2>4. QED BY <2>1, <2>2, <2>3 DEF LockedBy
  <1>12. OneAllocator'
    BY <1>2 DEF OneAllocator
  <1>13. AbsentIsEmpty'
    BY <1>1 DEF AbsentIsEmpty, LockedBy
  <1>14. ClaimTimes'
    BY <1>3, <1>4, <1>6 DEF ClaimTimes, LockedBy
  <1>15. LiveClaimsAreOpen'
    <2> SUFFICES ASSUME NEW s \in EventSequences
                 PROVE  /\ answered[s] \subseteq HandedFor(s)'
                        /\ msg'[s].state = "claimed" => msg'[s].token \notin answered[s]
      BY <1>2 DEF LiveClaimsAreOpen
    <2>1. /\ answered[s] \subseteq HandedFor(s) /\ fresh \notin HandedFor(s)
          /\ msg[s].state = "claimed" => msg[s].token \notin answered[s]
      BY <1>1 DEF LiveClaimsAreOpen, UsedTokens
    <2>2. HandedFor(s) \subseteq HandedFor(s)'
      <3>1. CASE s \in claim[w].take
        <4>1. handed[s] \in Seq(Tokens) /\ handed'[s] = Append(handed[s], fresh)
          BY <3>1, <1>2 DEF TypeOK
        <4>2. /\ Len(handed[s]) \in Nat /\ Len(handed'[s]) = Len(handed[s]) + 1
              /\ \A i \in 1 .. Len(handed[s]) : handed'[s][i] = handed[s][i]
          BY <4>1, <1>1
        <4>3. QED BY <4>2 DEF HandedFor
      <3>2. CASE s \notin claim[w].take
        BY <3>2, <1>2 DEF HandedFor
      <3>3. QED BY <3>1, <3>2
    <2>3. CASE s \in claim[w].take
      BY <2>1, <2>2, <2>3, <1>1
    <2>4. CASE s \in claim[w].sweep
      BY <2>1, <2>2, <2>4, <1>1
    <2>5. CASE s \notin LockedBy(w)
      BY <2>1, <2>2, <2>5, <1>1
    <2>6. QED BY <2>3, <2>4, <2>5 DEF LockedBy
  <1>16. QED BY <1>7, <1>8, <1>9, <1>10, <1>11, <1>12, <1>13, <1>14, <1>15

-----------------------------------------------------------------------------
(* Retry, Deliver, DeadLetter and time.                                    *)

\* finish changes one claimed row that no Claim transaction holds.
LEMMA SettleStep ==
  ASSUME IInv, NEW s \in EventSequences, NEW t \in Tokens, Settle(s, t)
  PROVE  IInv'
  <1> USE DEF IInv
  <1>1. PICK state \in {"retry", "delivered", "dead_letter"},
             error \in {"reported", msg[s].lastError}, available \in Int :
               Finish(s, t, state, error, available)
    BY OutboxAssumption DEF Settle, Retry, Deliver, DeadLetter, ClockReadings, TypeOK, Row
  <1> DEFINE new == ReleasedRow(msg[s], state, error, available)
  <1>2. /\ msg[s] \in Row /\ msg[s].state = "claimed" /\ s \notin Locked
        /\ msg' = [msg EXCEPT ![s] = new] /\ t \in HandedFor(s)
        /\ answered' = [answered EXCEPT ![s] = @ \cup {t}]
        /\ UNCHANGED <<nextSequence, tx, claim, handed>>
    BY <1>1 DEF Finish, Fenced, TypeOK
  <1>3. msg[s].lastError # "attempts_exhausted"
    BY <1>2 DEF SweptOnlyWhenExhausted
  <1>4. /\ new \in Row /\ new.state = state /\ new.attempts = msg[s].attempts
        /\ new.token = NoToken /\ new.lastError = error
    BY <1>1, <1>2 DEF ReleasedRow, Row, States
  <1> HIDE DEF new
  <1>5. msg'[s] = new /\ \A r \in EventSequences : r # s => msg'[r] = msg[r]
    BY <1>2 DEF TypeOK
  <1>6. \A w \in Workers : s \notin claim[w].sweep /\ s \notin claim[w].take
    BY <1>2 DEF Locked, LockedBy
  <1>7. TypeOK'
    BY <1>2, <1>4 DEF TypeOK
  <1>8. SequencesAreGapFree' /\ AbsentIsEmpty'
    BY <1>1, <1>2, <1>4, <1>5 DEF SequencesAreGapFree, AbsentIsEmpty
  <1>9. ClaimsAreExclusive'
    BY <1>2, <1>5, <1>6 DEF ClaimsAreExclusive, LockedBy, TypeOK, Claim
  <1>10. AttemptsHaveOneOwner'
    BY <1>1, <1>2, <1>4, <1>5 DEF AttemptsHaveOneOwner
  <1>11. SweptOnlyWhenExhausted'
    BY <1>1, <1>3, <1>4, <1>5 DEF SweptOnlyWhenExhausted
  <1>12. OneAllocator'
    BY <1>2 DEF OneAllocator
  <1>13. ClaimTimes'
    BY <1>2, <1>5, <1>6 DEF ClaimTimes, TypeOK, Claim
  <1>14. LiveClaimsAreOpen'
    <2>1. /\ answered'[s] = answered[s] \cup {t}
          /\ \A r \in EventSequences : r # s => answered'[r] = answered[r]
      BY <1>2 DEF TypeOK
    <2>2. \A r \in EventSequences : HandedFor(r)' = HandedFor(r)
      BY <1>2 DEF HandedFor
    <2>3. QED BY <2>1, <2>2, <1>1, <1>2, <1>4, <1>5 DEF LiveClaimsAreOpen
  <1>15. QED BY <1>7, <1>8, <1>9, <1>10, <1>11, <1>12, <1>13, <1>14

\* Time changes no state, no attempt and no token, and keeps the order of times.
LEMMA TickRows ==
  ASSUME IInv, Tick
  PROVE  /\ msg' \in [EventSequences -> Row]
         /\ \A s \in EventSequences :
              /\ msg'[s].state = msg[s].state /\ msg'[s].attempts = msg[s].attempts
              /\ msg'[s].token = msg[s].token /\ msg'[s].lastError = msg[s].lastError
              /\ msg[s].state \in {"pending", "retry"} => msg'[s].available = Older(msg[s].available)
              /\ msg[s].state = "claimed" => msg'[s].leaseEnd = Older(msg[s].leaseEnd)
              /\ msg[s].state \in Terminal \cup {"absent"} => msg'[s] = msg[s]
  <1>1. msg \in [EventSequences -> Row]
    BY DEF IInv, TypeOK
  <1>2. SUFFICES ASSUME NEW s \in EventSequences
                 PROVE  /\ msg'[s] \in Row
                        /\ msg'[s].state = msg[s].state /\ msg'[s].attempts = msg[s].attempts
                        /\ msg'[s].token = msg[s].token /\ msg'[s].lastError = msg[s].lastError
                        /\ msg[s].state \in {"pending", "retry"} => msg'[s].available = Older(msg[s].available)
                        /\ msg[s].state = "claimed" => msg'[s].leaseEnd = Older(msg[s].leaseEnd)
                        /\ msg[s].state \in Terminal \cup {"absent"} => msg'[s] = msg[s]
    BY DEF Tick
  <1>3. /\ msg[s] \in Row
        /\ Older(msg[s].available) \in Int /\ Older(msg[s].claimedAt) \in Int
        /\ Older(msg[s].leaseEnd) \in Int
    BY <1>1, OlderIsMonotone DEF Row
  <1>4. CASE msg[s].state \in {"pending", "retry"}
    <2>1. msg'[s] = [msg[s] EXCEPT !.available = Older(msg[s].available)]
      BY <1>4 DEF Tick
    <2>2. QED BY <2>1, <1>3, <1>4 DEF Row, States, Terminal
  <1>5. CASE msg[s].state = "claimed"
    <2>1. msg'[s] = [msg[s] EXCEPT !.claimedAt = Older(msg[s].claimedAt),
                                   !.leaseEnd = Older(msg[s].leaseEnd)]
      BY <1>5 DEF Tick
    <2>2. QED BY <2>1, <1>3, <1>5 DEF Row, States, Terminal
  <1>6. CASE msg[s].state \in Terminal \cup {"absent"}
    <2>1. msg'[s] = msg[s]
      BY <1>6 DEF Tick, Terminal
    <2>2. QED BY <2>1, <1>3, <1>6 DEF Terminal
  <1>7. QED BY <1>3, <1>4, <1>5, <1>6 DEF Row, States, Terminal

\* Time passing keeps the invariant: times age together.
LEMMA TickStep ==
  ASSUME IInv, Tick
  PROVE  IInv'
  <1> USE DEF IInv
  <1>1. /\ msg' \in [EventSequences -> Row]
        /\ \A s \in EventSequences :
             /\ msg'[s].state = msg[s].state /\ msg'[s].attempts = msg[s].attempts
             /\ msg'[s].token = msg[s].token /\ msg'[s].lastError = msg[s].lastError
             /\ msg[s].state \in {"pending", "retry"} => msg'[s].available = Older(msg[s].available)
             /\ msg[s].state = "claimed" => msg'[s].leaseEnd = Older(msg[s].leaseEnd)
             /\ msg[s].state \in Terminal \cup {"absent"} => msg'[s] = msg[s]
    BY TickRows
  <1>2. UNCHANGED <<nextSequence, handed, answered>>
    BY DEF Tick
  <1>3. \A w \in Workers :
          /\ claim'[w] \in Claim
          /\ claim'[w].phase = claim[w].phase
          /\ claim'[w].sweep = claim[w].sweep
          /\ claim'[w].take = claim[w].take
          /\ claim'[w].at = IF claim[w].phase = "idle" THEN claim[w].at ELSE Older(claim[w].at)
    <2> SUFFICES ASSUME NEW w \in Workers
                 PROVE  /\ claim'[w] \in Claim
                        /\ claim'[w].phase = claim[w].phase
                        /\ claim'[w].sweep = claim[w].sweep
                        /\ claim'[w].take = claim[w].take
                        /\ claim'[w].at = IF claim[w].phase = "idle" THEN claim[w].at ELSE Older(claim[w].at)
      OBVIOUS
    <2>1. claim[w] \in Claim /\ Older(claim[w].at) \in Int
      BY OlderIsMonotone DEF TypeOK, Claim
    <2>2. claim'[w] = IF claim[w].phase = "idle" THEN claim[w] ELSE [claim[w] EXCEPT !.at = Older(claim[w].at)]
      BY DEF Tick
    <2>3. QED BY <2>1, <2>2 DEF Claim
  <1>4. \A p \in Producers :
          /\ tx'[p] \in Transaction
          /\ tx'[p].phase = tx[p].phase /\ tx'[p].seq = tx[p].seq
    <2> SUFFICES ASSUME NEW p \in Producers
                 PROVE  /\ tx'[p] \in Transaction
                        /\ tx'[p].phase = tx[p].phase /\ tx'[p].seq = tx[p].seq
      OBVIOUS
    <2>1. tx[p] \in Transaction /\ Older(tx[p].at) \in Int
      BY OlderIsMonotone DEF TypeOK, Transaction
    <2>2. tx'[p] = IF tx[p].phase = "recorded" THEN [tx[p] EXCEPT !.at = Older(tx[p].at)] ELSE tx[p]
      BY DEF Tick
    <2>3. QED BY <2>1, <2>2 DEF Transaction
  <1>5. TypeOK'
    <2>1. claim' \in [Workers -> Claim]
      BY <1>3 DEF Tick
    <2>2. tx' \in [Producers -> Transaction]
      BY <1>4 DEF Tick
    <2>3. QED BY <2>1, <2>2, <1>1, <1>2 DEF TypeOK
  <1>6. SequencesAreGapFree' /\ AbsentIsEmpty' /\ SweptOnlyWhenExhausted'
    BY <1>1, <1>2 DEF SequencesAreGapFree, AbsentIsEmpty, SweptOnlyWhenExhausted, Terminal
  <1>7. AttemptsHaveOneOwner'
    BY <1>1, <1>2 DEF AttemptsHaveOneOwner
  <1>8. OneAllocator'
    BY <1>2, <1>4 DEF OneAllocator
  <1>9. ClaimsAreExclusive'
    <2>1. \A v \in Workers : LockedBy(v)' = LockedBy(v)
      BY <1>3 DEF LockedBy
    <2>2. \A v \in Workers : claim[v].sweep \subseteq EventSequences /\ claim[v].take \subseteq EventSequences
      BY DEF TypeOK, Claim
    <2>3. \A v \in Workers :
            /\ \A s \in claim'[v].sweep : msg'[s].state = "claimed" /\ msg'[s].attempts = MaxAttempts
            /\ \A s \in claim'[v].take : msg'[s].state \in {"pending", "retry", "claimed"}
                                        /\ msg'[s].attempts < MaxAttempts
      BY <2>2, <1>1, <1>3 DEF ClaimsAreExclusive
    <2>4. QED BY <2>1, <2>3 DEF ClaimsAreExclusive
  <1>10. ClaimTimes'
    <2> SUFFICES ASSUME NEW w \in Workers
                 PROVE  /\ claim'[w].phase # "idle" => claim'[w].at <= Skew
                        /\ claim'[w].phase # "updated" => claim'[w].take = {}
                        /\ \A s \in claim'[w].take :
                             IF msg'[s].state = "claimed" THEN msg'[s].leaseEnd <= claim'[w].at
                             ELSE msg'[s].available <= claim'[w].at
      BY DEF ClaimTimes
    <2>1. claim[w] \in Claim /\ claim[w].at \in Int
      BY DEF TypeOK, Claim
    <2>2. claim'[w].phase # "idle" => claim'[w].at <= Skew
      <3>1. Older(claim[w].at) \in Int /\ Older(claim[w].at) <= claim[w].at
        BY <2>1, OlderIsMonotone
      <3>2. QED BY <3>1, <2>1, <1>3, OutboxAssumption DEF ClaimTimes
    <2>3. ASSUME NEW s \in claim'[w].take
          PROVE  IF msg'[s].state = "claimed" THEN msg'[s].leaseEnd <= claim'[w].at
                 ELSE msg'[s].available <= claim'[w].at
      <3>1. /\ s \in EventSequences /\ s \in claim[w].take /\ claim[w].phase = "updated"
            /\ msg[s].state \in {"pending", "retry", "claimed"}
            /\ msg[s].leaseEnd \in Int /\ msg[s].available \in Int
            /\ IF msg[s].state = "claimed" THEN msg[s].leaseEnd <= claim[w].at
               ELSE msg[s].available <= claim[w].at
        BY <2>1, <2>3, <1>3 DEF ClaimTimes, ClaimsAreExclusive, Claim, TypeOK, Row
      <3>2. claim'[w].at = Older(claim[w].at)
        BY <3>1, <1>3
      <3>3. CASE msg[s].state = "claimed"
        BY <3>1, <3>2, <3>3, <2>1, <1>1, OlderIsMonotone
      <3>4. CASE msg[s].state \in {"pending", "retry"}
        BY <3>1, <3>2, <3>4, <2>1, <1>1, OlderIsMonotone
      <3>5. QED BY <3>1, <3>3, <3>4
    <2>4. QED BY <2>2, <2>3, <1>3 DEF ClaimTimes
  <1>11. LiveClaimsAreOpen'
    BY <1>1, <1>2 DEF LiveClaimsAreOpen, HandedFor
  <1>12. QED BY <1>5, <1>6, <1>7, <1>8, <1>9, <1>10, <1>11

-----------------------------------------------------------------------------
(* Theorems.                                                               *)

\* The empty outbox satisfies the invariant.
LEMMA InitInvariant == Init => IInv
  <1> SUFFICES ASSUME Init PROVE IInv
    OBVIOUS
  <1> USE OutboxAssumption, AbsentRowType DEF Init
  <1>1. IdleClaim \in Claim /\ IdleClaim.take = {} /\ IdleClaim.sweep = {} /\ IdleClaim.phase = "idle"
    BY DEF IdleClaim, Claim
  <1>2. TypeOK
    BY <1>1 DEF TypeOK, IdleTx, Transaction
  <1>3. SequencesAreGapFree /\ AbsentIsEmpty
    BY DEF SequencesAreGapFree, AbsentIsEmpty, EventSequences
  <1>4. SweptOnlyWhenExhausted
    BY DEF SweptOnlyWhenExhausted
  <1>5. ClaimsAreExclusive
    BY <1>1 DEF ClaimsAreExclusive, LockedBy
  <1>6. AttemptsHaveOneOwner
    BY DEF AttemptsHaveOneOwner
  <1>7. OneAllocator
    BY DEF OneAllocator, IdleTx
  <1>8. ClaimTimes
    BY <1>1 DEF ClaimTimes
  <1>9. LiveClaimsAreOpen
    BY DEF LiveClaimsAreOpen
  <1>10. QED BY <1>2, <1>3, <1>4, <1>5, <1>6, <1>7, <1>8, <1>9 DEF IInv

\* Every step of a producer, a worker, a settlement or time keeps it.
LEMMA StepInvariant == IInv /\ [Next]_vars => IInv'
  <1> SUFFICES ASSUME IInv, [Next]_vars PROVE IInv'
    OBVIOUS
  <1>1. ASSUME NEW p \in Producers, Produce(p) PROVE IInv'
    BY <1>1, ProducerSteps, CommitStep DEF Produce
  <1>2. ASSUME NEW w \in Workers, Work(w) PROVE IInv'
    BY <1>2, BeginClaimStep, SelectClaimsStep, CommitClaimStep DEF Work
  <1>3. ASSUME NEW s \in EventSequences, NEW t \in Tokens, Settle(s, t) PROVE IInv'
    BY <1>3, SettleStep
  <1>4. CASE Tick
    BY <1>4, TickStep
  <1>5. CASE UNCHANGED vars
    BY <1>5 DEF vars, IInv, TypeOK, SequencesAreGapFree, ClaimsAreExclusive, LockedBy,
                AttemptsHaveOneOwner, SweptOnlyWhenExhausted, OneAllocator, AbsentIsEmpty, ClaimTimes,
                LiveClaimsAreOpen, HandedFor
  <1>6. QED BY <1>1, <1>2, <1>3, <1>4, <1>5 DEF Next

\* The inductive invariant holds in every reachable state.
THEOREM InductiveInvariant == Spec => []IInv
  BY InitInvariant, StepInvariant, PTL DEF Spec

\* Rows, transactions and claims keep the shape of the tables; in particular
\* attempt_count never exceeds MaxAttempts.
THEOREM TypeCorrect == Spec => []TypeOK
  <1>1. IInv => TypeOK
    BY DEF IInv
  <1>2. QED BY <1>1, InductiveInvariant, PTL

\* Event sequences become visible in order and without gaps, whatever
\* transactions roll back (NextSequence, Record).
THEOREM GapFree == Spec => []SequencesAreGapFree
  <1>1. IInv => SequencesAreGapFree
    BY DEF IInv
  <1>2. QED BY <1>1, InductiveInvariant, PTL

\* No two Claim transactions hold the same row (FOR UPDATE SKIP LOCKED).
THEOREM ExclusiveClaims == Spec => []ClaimsAreExclusive
  <1>1. IInv => ClaimsAreExclusive
    BY DEF IInv
  <1>2. QED BY <1>1, InductiveInvariant, PTL

\* Every attempt has one owner and only the newest token is live, so that
\* finish refuses every older one.
THEOREM OneOwner == Spec => []AttemptsHaveOneOwner
  <1>1. IInv => AttemptsHaveOneOwner
    BY DEF IInv
  <1>2. QED BY <1>1, InductiveInvariant, PTL

\* The sweep gives up only messages without attempts left.
THEOREM SweepIsLast == Spec => []SweptOnlyWhenExhausted
  <1>1. IInv => SweptOnlyWhenExhausted
    BY DEF IInv
  <1>2. QED BY <1>1, InductiveInvariant, PTL

-----------------------------------------------------------------------------
(* Action properties.                                                      *)

\* Only a committed Claim raises an attempt count, and only of rows it took.
LEMMA ActionSteps == IInv /\ [Next]_vars => FinalStep /\ OnTimeStep
  <1> SUFFICES ASSUME IInv, [Next]_vars PROVE FinalStep /\ OnTimeStep
    OBVIOUS
  <1>0. msg \in [EventSequences -> Row] /\ \A s \in EventSequences : msg[s].attempts \in Nat
    BY OutboxAssumption DEF IInv, TypeOK, Row
  <1>1. CASE UNCHANGED msg
    BY <1>0, <1>1 DEF FinalStep, OnTimeStep
  <1>2. ASSUME NEW p \in Producers, Commit(p) PROVE FinalStep /\ OnTimeStep
    <2> DEFINE new == PendingRow(tx[p].at, tx[p].nanos)
    <2>0. nextSequence \in EventSequences
      BY <1>2, OutboxAssumption DEF Commit, IInv, OneAllocator, TypeOK, EventSequences
    <2>1. msg[nextSequence] = AbsentRow /\ msg' = [msg EXCEPT ![nextSequence] = new]
      <3>1. tx[p].seq = nextSequence
        BY <1>2 DEF Commit, IInv, OneAllocator
      <3>2. msg[nextSequence] = AbsentRow
        BY <2>0 DEF IInv, TypeOK, SequencesAreGapFree, AbsentIsEmpty
      <3>3. QED BY <3>1, <3>2, <1>2 DEF Commit
    <2>2. new.state = "pending" /\ new.attempts = 0
      BY DEF PendingRow
    <2> HIDE DEF new
    <2>3. QED BY <2>0, <2>1, <2>2, <1>0, AbsentRowType DEF FinalStep, OnTimeStep, Terminal
  <1>3. ASSUME NEW w \in Workers, CommitClaim(w) PROVE FinalStep /\ OnTimeStep
    <2>1. /\ \A s \in claim[w].sweep :
               msg'[s].state = "dead_letter" /\ msg'[s].attempts = msg[s].attempts
          /\ \A s \in claim[w].take : msg'[s].state = "claimed"
          /\ \A s \in EventSequences : s \notin LockedBy(w) => msg'[s] = msg[s]
      BY <1>3, CommitClaimRows
    <2>2. /\ \A s \in claim[w].sweep : msg[s].state = "claimed"
          /\ \A s \in claim[w].take : msg[s].state \in {"pending", "retry", "claimed"}
      BY DEF IInv, ClaimsAreExclusive
    <2>3. FinalStep
      <3> SUFFICES ASSUME NEW s \in EventSequences
                   PROVE  /\ msg[s].state \in Terminal => msg'[s] = msg[s]
                          /\ msg[s].state # "absent" => msg'[s].state # "absent"
        BY DEF FinalStep
      <3>1. CASE s \in LockedBy(w)
        BY <3>1, <2>1, <2>2 DEF Terminal, LockedBy
      <3>2. CASE s \notin LockedBy(w)
        BY <3>2, <2>1
      <3>3. QED BY <3>1, <3>2
    <2>4. ASSUME NEW s \in EventSequences, msg'[s].attempts > msg[s].attempts
          PROVE  s \in claim[w].take
      BY <2>1, <2>4, <1>0 DEF LockedBy
    <2>5. /\ claim[w].at \in Int /\ claim[w].at <= Skew
          /\ \A s \in claim[w].take :
               IF msg[s].state = "claimed" THEN msg[s].leaseEnd <= claim[w].at
               ELSE msg[s].available <= claim[w].at
      BY <1>3 DEF IInv, ClaimTimes, CommitClaim, TypeOK, Claim
    <2>6. \A s \in EventSequences : msg[s].leaseEnd \in Int /\ msg[s].available \in Int
      BY <1>0 DEF Row
    <2>7. OnTimeStep
      BY <2>4, <2>5, <2>6, OutboxAssumption DEF OnTimeStep
    <2>8. QED BY <2>3, <2>7
  <1>4. ASSUME NEW s \in EventSequences, NEW t \in Tokens, Settle(s, t) PROVE FinalStep /\ OnTimeStep
    <2>1. PICK state \in {"retry", "delivered", "dead_letter"},
               error \in {"reported", msg[s].lastError}, available \in Int :
                 Finish(s, t, state, error, available)
      BY <1>4, OutboxAssumption DEF Settle, Retry, Deliver, DeadLetter, ClockReadings, IInv, TypeOK, Row
    <2> DEFINE new == ReleasedRow(msg[s], state, error, available)
    <2>2. msg[s].state = "claimed" /\ msg' = [msg EXCEPT ![s] = new]
      BY <2>1 DEF Finish, Fenced
    <2>3. new.state = state /\ new.attempts = msg[s].attempts
      BY DEF ReleasedRow
    <2> HIDE DEF new
    <2>4. QED BY <2>1, <2>2, <2>3, <1>0 DEF FinalStep, OnTimeStep, Terminal
  <1>5. CASE Tick
    <2>1. \A s \in EventSequences :
            /\ msg'[s].state = msg[s].state /\ msg'[s].attempts = msg[s].attempts
            /\ msg[s].state \in Terminal \cup {"absent"} => msg'[s] = msg[s]
      BY <1>5, TickRows
    <2>2. QED BY <2>1, <1>0 DEF FinalStep, OnTimeStep
  <1>6. QED
    BY <1>1, <1>2, <1>3, <1>4, <1>5
    DEF Next, Produce, Work, StartClaim, NextSequence, Record, Rollback, BeginClaim,
        SelectClaims, AbortClaim, vars

\* A claimed row carries the newest token, and finish asks for it.
LEMMA HolderSettles == IInv => HolderStep
  <1> SUFFICES ASSUME IInv, NEW s \in EventSequences, NEW t \in Tokens, Settle(s, t)
               PROVE  t = handed[s][Len(handed[s])]
    BY DEF HolderStep
  <1>1. msg[s].state = "claimed" /\ msg[s].token = t
    BY DEF Settle, Retry, Deliver, DeadLetter, Finish, Fenced
  <1>2. QED BY <1>1 DEF IInv, AttemptsHaveOneOwner

\* Delivered and dead-lettered messages never change again, no recorded event
\* disappears, and only the newest token settles a message (finish, Claim,
\* guard_outbox_message_update).
THEOREM FinalSettlement == Spec => SettledIsFinal
  <1>1. IInv /\ [Next]_vars => [FinalStep /\ HolderStep]_vars
    BY ActionSteps, HolderSettles
  <1>2. QED BY <1>1, InductiveInvariant, PTL DEF Spec, SettledIsFinal

\* Whatever the skew of the workers' clocks, a lease is cut short by at most
\* Skew (Claim's candidates).
THEOREM TakeoverOnTime == Spec => NoEarlyTakeover
  <1>1. IInv /\ [Next]_vars => [OnTimeStep]_vars
    BY ActionSteps
  <1>2. QED BY <1>1, InductiveInvariant, PTL DEF Spec, NoEarlyTakeover

-----------------------------------------------------------------------------
(* Refinement.                                                             *)

\* The commit of a producer is the abstract Enqueue.
LEMMA CommitEnqueues ==
  ASSUME IInv, NEW p \in Producers, Commit(p)
  PROVE  Queue!Next
  <1> DEFINE n == nextSequence
             new == PendingRow(tx[p].at, tx[p].nanos)
  <1>1. n \in EventSequences /\ msg \in [EventSequences -> Row]
    BY OutboxAssumption DEF Commit, IInv, OneAllocator, TypeOK, EventSequences
  <1>2. \A s \in EventSequences : s < n <=> Place[s] # "absent"
    BY <1>1 DEF IInv, SequencesAreGapFree, Place, PlaceOf
  <1>3. Place[n] = "absent"
    BY <1>1, <1>2 DEF EventSequences
  <1>4. msg' = [msg EXCEPT ![n] = new] /\ handed' = handed /\ answered' = answered
    BY DEF Commit, IInv, OneAllocator
  <1>5. PlaceOf(new) = "queued"
    BY DEF PlaceOf, PendingRow
  <1> HIDE DEF new, n
  <1>6. \A s \in EventSequences : PlaceOf(msg'[s]) = IF s = n THEN "queued" ELSE PlaceOf(msg[s])
    BY <1>1, <1>4, <1>5
  <1>7. Place' = [Place EXCEPT ![n] = "queued"]
    BY <1>1, <1>6 DEF Place
  <1>8. Queue!Enqueue(n)
    BY <1>2, <1>3, <1>4, <1>7 DEF Queue!Enqueue
  <1>. QED  BY <1>1, <1>8 DEF Queue!Next

\* The commit of Claim is the abstract HandOut.
LEMMA CommitClaimHandsOut ==
  ASSUME IInv, NEW w \in Workers, CommitClaim(w)
  PROVE  Queue!Next
  <1> DEFINE batch == claim[w].take
             dead == claim[w].sweep
             fresh == FreshToken
  <1>1. /\ fresh \in Tokens /\ fresh \notin UsedTokens
        /\ dead \cap batch = {}
        /\ \A s \in dead : msg'[s].state = "dead_letter"
        /\ \A s \in batch : msg'[s].state = "claimed"
        /\ \A s \in EventSequences : s \notin dead \cup batch => msg'[s] = msg[s]
    BY CommitClaimRows DEF LockedBy
  <1>2. /\ handed' = [s \in EventSequences |->
                     IF s \in batch THEN Append(handed[s], fresh) ELSE handed[s]]
        /\ answered' = answered
    BY DEF CommitClaim
  <1>3. batch \subseteq EventSequences /\ dead \subseteq EventSequences
    BY DEF IInv, TypeOK, Claim
  <1>4. /\ \A s \in dead : msg[s].state = "claimed" /\ msg[s].attempts = MaxAttempts
        /\ \A s \in batch : msg[s].state \in {"pending", "retry", "claimed"}
                            /\ msg[s].attempts < MaxAttempts
    BY DEF IInv, ClaimsAreExclusive
  <1>5. \A s \in EventSequences : Len(handed[s]) = msg[s].attempts
    BY DEF IInv, AttemptsHaveOneOwner
  <1> HIDE DEF batch, dead, fresh
  <1>6. batch \in SUBSET Queue!Open
    BY <1>3, <1>4, <1>5 DEF Queue!Open, Place, PlaceOf
  <1>7. dead \in SUBSET Queue!Exhausted
    BY <1>3, <1>4, <1>5 DEF Queue!Exhausted, Place, PlaceOf
  <1>8. fresh \in Queue!NewTokens
    BY <1>1 DEF Queue!NewTokens, UsedTokens, HandedFor
  <1>9. \A s \in EventSequences :
          PlaceOf(msg'[s]) = IF s \in batch THEN "held"
                             ELSE IF s \in dead THEN "dead_letter" ELSE PlaceOf(msg[s])
    <2> TAKE s \in EventSequences
    <2>1. CASE s \in batch
      BY <1>1, <2>1 DEF PlaceOf
    <2>2. CASE s \in dead
      BY <1>1, <2>2 DEF PlaceOf
    <2>3. CASE s \notin dead \cup batch
      BY <1>1, <2>3
    <2>. QED  BY <2>1, <2>2, <2>3
  <1>10. Place' = [s \in EventSequences |->
                     IF s \in batch THEN "held"
                     ELSE IF s \in dead THEN "dead_letter" ELSE Place[s]]
    BY <1>9 DEF Place
  <1>11. Queue!HandOut(batch, fresh)
    BY <1>2, <1>7, <1>10 DEF Queue!HandOut
  <1>. QED  BY <1>6, <1>8, <1>11 DEF Queue!Next

\* Retry, Deliver and DeadLetter are the abstract Report.
LEMMA SettleReports ==
  ASSUME IInv, NEW s \in EventSequences, NEW t \in Tokens, Settle(s, t)
  PROVE  Queue!Next
  <1>1. PICK state \in {"retry", "delivered", "dead_letter"},
             error \in {"reported", msg[s].lastError}, available \in Int :
               Finish(s, t, state, error, available)
    BY OutboxAssumption DEF Settle, Retry, Deliver, DeadLetter, ClockReadings, IInv, TypeOK, Row
  <1> DEFINE new == ReleasedRow(msg[s], state, error, available)
             outcome == IF state = "retry" THEN "queued" ELSE state
  <1>2. /\ msg[s].state = "claimed" /\ msg[s].token = t
        /\ msg' = [msg EXCEPT ![s] = new] /\ handed' = handed
        /\ answered' = [answered EXCEPT ![s] = @ \cup {t}]
    BY <1>1 DEF Finish, Fenced
  <1>3. PlaceOf(new) = outcome
    BY <1>1 DEF ReleasedRow, PlaceOf
  <1>4. outcome \in {"queued", "delivered", "dead_letter"}
    BY <1>1
  <1> HIDE DEF new, outcome
  <1>5. msg \in [EventSequences -> Row]
    BY DEF IInv, TypeOK
  <1>6. \A r \in EventSequences : PlaceOf(msg'[r]) = IF r = s THEN outcome ELSE PlaceOf(msg[r])
    BY <1>2, <1>3, <1>5
  <1>7. Place[s] = "held" /\ Place' = [Place EXCEPT ![s] = outcome]
    <2>1. Place[s] = "held"
      BY <1>2 DEF Place, PlaceOf
    <2>2. Place' = [Place EXCEPT ![s] = outcome]
      BY <1>6 DEF Place
    <2>. QED  BY <2>1, <2>2
  <1>8. t = handed[s][Len(handed[s])] /\ t \notin answered[s] /\ handed[s] # <<>>
    <2>1. t = handed[s][Len(handed[s])] /\ t \notin answered[s]
      BY <1>2 DEF IInv, AttemptsHaveOneOwner, LiveClaimsAreOpen
    <2>2. t \in HandedFor(s)
      BY <1>1 DEF Finish
    <2>3. handed[s] # <<>>
      BY <2>2 DEF HandedFor
    <2>. QED  BY <2>1, <2>3
  <1>9. Queue!Report(s, t, outcome)
    BY <1>2, <1>7, <1>8 DEF Queue!Report
  <1>. QED  BY <1>4, <1>9 DEF Queue!Next

\* Every step is a step of the queue, or none that it sees.
LEMMA RefinementStep ==
  IInv /\ [Next]_vars => [Queue!Next]_(Queue!vars)
  <1> SUFFICES ASSUME IInv, [Next]_vars PROVE Queue!Next \/ UNCHANGED <<Place, handed, answered>>
    BY DEF Queue!vars
  <1>1. CASE UNCHANGED <<msg, handed, answered>>
    BY <1>1 DEF Place
  <1>2. CASE Tick
    <2>1. handed' = handed /\ answered' = answered /\ \A s \in EventSequences : msg'[s].state = msg[s].state
      BY <1>2, TickRows DEF Tick
    <2>2. \A s \in EventSequences : PlaceOf(msg'[s]) = PlaceOf(msg[s])
      BY <2>1 DEF PlaceOf
    <2>. QED  BY <2>1, <2>2 DEF Place
  <1>. QED
    BY <1>1, <1>2, CommitEnqueues, CommitClaimHandsOut, SettleReports
    DEF Next, Produce, Work, StartClaim, NextSequence, Record, Rollback, BeginClaim,
        SelectClaims, AbortClaim, vars

\* Whatever the interleaving of producers and workers, the outbox is a queue
\* filled in order whose items are handed out boundedly often, under tokens
\* never used twice, and come back or leave only on the single report of the
\* newest token's holder: Outbox implements FencedQueue.
THEOREM Refinement == Spec => ImplementsFencedQueue
  <1>1. Init => Queue!Init
    <2> SUFFICES ASSUME Init PROVE Queue!Init
      OBVIOUS
    <2>1. \A s \in EventSequences : PlaceOf(msg[s]) = "absent"
      BY DEF Init, AbsentRow, PlaceOf
    <2>2. Place = [s \in EventSequences |-> "absent"]
      BY <2>1 DEF Place
    <2>. QED  BY <2>2 DEF Init, Queue!Init
  <1>. QED
    BY <1>1, RefinementStep, InductiveInvariant, PTL
    DEF Spec, ImplementsFencedQueue, Queue!Spec
=============================================================================
