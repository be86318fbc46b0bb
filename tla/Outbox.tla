------------------------------- MODULE Outbox -------------------------------
(***************************************************************************)
(* The transactional outbox of one tenant: application transactions that   *)
(* allocate an event sequence and record a message, and sink workers that  *)
(* claim messages under a lease, retry, deliver or dead-letter them        *)
(* (internal/adapters/postgres/outbox, internal/domain/outbox and          *)
(* migrations/000013).  PostgreSQL runs every transaction at READ          *)
(* COMMITTED; a transaction's statements are separate steps and its row    *)
(* locks are the sets of rows it has updated and not yet committed.        *)
(*                                                                         *)
(* Every time is an offset from the present: Tick makes the stored times   *)
(* one unit older, down to Floor, below which no guard of the code tells   *)
(* two times apart.  Callers pass the time of their own clock, which is    *)
(* off by at most Skew.                                                    *)
(***************************************************************************)
EXTENDS Integers, Sequences, FiniteSets, FiniteSetsExt

CONSTANTS
  Producers,      \* application transactions that record an event
  Workers,        \* sink workers (external: the repository has none yet)
  Tokens,         \* UUIDv7 claim tokens
  NoToken,        \* claim_token IS NULL
  MaxSequence,    \* 9223372036854775807 in the code
  MaxAttempts,    \* 1000 in the code
  MaxLease,       \* 15 minutes in the code
  MaxRetryDelay,  \* 24 hours in the code
  MaxClaimBatch,  \* 100 in the code
  Skew,           \* bound on how far a caller's clock is from the present
  SubMicros       \* sub-microsecond parts a reading of the clock may have

ASSUME OutboxAssumption ==
  /\ NoToken \notin Tokens
  /\ MaxSequence \in Nat \ {0}
  /\ MaxAttempts \in Nat \ {0}
  /\ MaxLease \in Nat \ {0}
  /\ MaxRetryDelay \in Nat
  /\ MaxLease <= MaxRetryDelay
  /\ MaxClaimBatch \in Nat \ {0}
  /\ Skew \in Nat
  /\ SubMicros \subseteq Nat

VARIABLES
  nextSequence,  \* tenant_event_sequences.next_sequence, committed
  tx,            \* tx[p]: the open transaction of producer p
  msg,           \* msg[s]: the committed outbox_messages row with sequence s
  claim,         \* claim[w]: the open Claim transaction of worker w
  handed,        \* handed[s]: tokens returned to workers for s, oldest first
  answered       \* answered[s]: tokens some Retry, Deliver or DeadLetter of s succeeded with

vars == <<nextSequence, tx, msg, claim, handed, answered>>

\* Sequences NextSequence can return: it refuses once next_sequence is the
\* largest bigint.
EventSequences == 1 .. (MaxSequence - 1)

States == {"absent", "pending", "claimed", "retry", "delivered", "dead_letter"}
Terminal == {"delivered", "dead_letter"}

Row == [state: States, attempts: 0 .. MaxAttempts, token: Tokens \cup {NoToken},
        available: Int, claimedAt: Int, leaseEnd: Int,
        lastError: {"none", "reported", "attempts_exhausted"}, nanos: Nat]

\* A sequence that has no committed row.
AbsentRow == [state |-> "absent", attempts |-> 0, token |-> NoToken,
              available |-> 0, claimedAt |-> 0, leaseEnd |-> 0,
              lastError |-> "none", nanos |-> 0]

\* The columns Record inserts, with the defaults of the table.
PendingRow(at, nanos) ==
  [state |-> "pending", attempts |-> 0, token |-> NoToken,
   available |-> at, claimedAt |-> 0, leaseEnd |-> 0,
   lastError |-> "none", nanos |-> nanos]

IdleTx == [phase |-> "idle", seq |-> 0, at |-> 0, nanos |-> 0]
IdleClaim == [phase |-> "idle", at |-> 0, lease |-> 0, limit |-> 0,
              sweep |-> {}, take |-> {}]

\* What a caller's clock may show.
ClockReadings == (-Skew) .. Skew

Init ==
  /\ nextSequence = 1
  /\ tx = [p \in Producers |-> IdleTx]
  /\ msg = [s \in EventSequences |-> AbsentRow]
  /\ claim = [w \in Workers |-> IdleClaim]
  /\ handed = [s \in EventSequences |-> <<>>]
  /\ answered = [s \in EventSequences |-> {}]

-----------------------------------------------------------------------------
(* Recording an event in the application's transaction.                    *)

\* Mutant: the counter is a database sequence, which makes nobody wait: an
\* allocation goes beyond those of the open transactions.
NextSequenceUnlocked(p) ==
  LET seq == Max({nextSequence} \cup {tx[q].seq + 1 : q \in Producers})
  IN  /\ tx[p].phase = "idle"
      /\ seq < MaxSequence
      /\ tx' = [tx EXCEPT ![p] = [phase |-> "allocated", seq |-> seq, at |-> 0, nanos |-> 0]]
      /\ UNCHANGED <<nextSequence, msg, claim, handed, answered>>

\* INSERT ... ON CONFLICT DO UPDATE locks the tenant's counter row until the
\* transaction ends: a second allocation waits for the first.
NextSequence(p) ==
  /\ tx[p].phase = "idle"
  /\ \A q \in Producers : tx[q].phase = "idle"
  /\ nextSequence < MaxSequence
  /\ tx' = [tx EXCEPT ![p] = [phase |-> "allocated", seq |-> nextSequence, at |-> 0, nanos |-> 0]]
  /\ UNCHANGED <<nextSequence, msg, claim, handed, answered>>

\* outbox.New and Record: the payload carries the clock reading to the
\* nanosecond, created_at and available_at keep whole microseconds.
Record(p, at, nanos) ==
  /\ tx[p].phase = "allocated"
  /\ tx' = [tx EXCEPT ![p] = [phase |-> "recorded", seq |-> tx[p].seq, at |-> at, nanos |-> nanos]]
  /\ UNCHANGED <<nextSequence, msg, claim, handed, answered>>

\* Commit publishes the counter and the row under the allocated number.
Commit(p) ==
  /\ tx[p].phase = "recorded"
  /\ nextSequence' = tx[p].seq + 1
  /\ msg' = [msg EXCEPT ![tx[p].seq] = PendingRow(tx[p].at, tx[p].nanos)]
  /\ tx' = [tx EXCEPT ![p] = IdleTx]
  /\ UNCHANGED <<claim, handed, answered>>

\* An error or a crash before COMMIT undoes the allocation as well.
Rollback(p) ==
  /\ tx[p].phase # "idle"
  /\ tx' = [tx EXCEPT ![p] = IdleTx]
  /\ UNCHANGED <<nextSequence, msg, claim, handed, answered>>

-----------------------------------------------------------------------------
(* Claim: sweep, select and update, commit.                                *)

\* Rows updated by w's open transaction; they stay locked until it ends.
LockedBy(w) == claim[w].sweep \cup claim[w].take
\* Mutant: the candidates are selected without FOR UPDATE SKIP LOCKED.
NothingLocked(w) == {}
LockedByOthers(w) == UNION {LockedBy(v) : v \in Workers \ {w}}
Locked == UNION {LockedBy(v) : v \in Workers}

\* Mutants: the sweep takes every expired claim, or is left out.
ExpiredAtAll(s, at) == msg[s].state = "claimed" /\ msg[s].leaseEnd <= at
NeverExhausted(s, at) == FALSE

\* An expired claim with no attempt left.
Exhausted(s, at) ==
  /\ msg[s].state = "claimed"
  /\ msg[s].leaseEnd <= at
  /\ msg[s].attempts >= MaxAttempts

\* Mutant: a claim is taken over at any time.
ClaimableInLease(s, at) ==
  /\ msg[s].attempts < MaxAttempts
  /\ \/ msg[s].state \in {"pending", "retry"} /\ msg[s].available <= at
     \/ msg[s].state = "claimed"

\* The WHERE clause of the candidates.
Claimable(s, at) ==
  /\ msg[s].attempts < MaxAttempts
  /\ \/ msg[s].state \in {"pending", "retry"} /\ msg[s].available <= at
     \/ msg[s].state = "claimed" /\ msg[s].leaseEnd <= at

\* ORDER BY sequence FOR UPDATE SKIP LOCKED LIMIT.
Candidates(w) ==
  LET free == {s \in EventSequences \ LockedByOthers(w) : Claimable(s, claim[w].at)}
  IN  {s \in free : Cardinality({r \in free : r < s}) < claim[w].limit}

\* Restore rejects a row whose created_at differs from the time in its
\* payload: created_at lost the sub-microsecond part.
Scannable(s) == msg[s].nanos = 0

\* The first UPDATE of Claim dead-letters exhausted claims. It waits while
\* another transaction holds one of those rows.
BeginClaim(w, at, lease, limit) ==
  LET sweep == {s \in EventSequences : Exhausted(s, at)}
  IN  /\ claim[w].phase = "idle"
      /\ sweep \cap LockedByOthers(w) = {}
      /\ claim' = [claim EXCEPT ![w] =
                     [phase |-> "swept", at |-> at, lease |-> lease,
                      limit |-> limit, sweep |-> sweep, take |-> {}]]
      /\ UNCHANGED <<nextSequence, tx, msg, handed, answered>>

\* The second statement locks and updates the candidates and scans the
\* returned rows; one row that fails to scan rolls everything back.
SelectClaims(w) ==
  /\ claim[w].phase = "swept"
  /\ claim' = [claim EXCEPT ![w] =
                 IF \A s \in Candidates(w) : Scannable(s)
                 THEN [claim[w] EXCEPT !.phase = "updated", !.take = Candidates(w)]
                 ELSE IdleClaim]
  /\ UNCHANGED <<nextSequence, tx, msg, handed, answered>>

\* The caller passes a new UUIDv7 for every Claim.
HandedFor(s) == {handed[s][i] : i \in 1 .. Len(handed[s])}
UsedTokens == UNION {HandedFor(s) : s \in EventSequences}
FreshToken == CHOOSE t \in Tokens : t \notin UsedTokens

\* A row leaves the claimed state: token, worker and lease become NULL.
ReleasedRow(r, state, error, available) ==
  [state |-> state, attempts |-> r.attempts, token |-> NoToken,
   available |-> available, claimedAt |-> 0, leaseEnd |-> 0,
   lastError |-> error, nanos |-> r.nanos]
SweptRow(r) == ReleasedRow(r, "dead_letter", "attempts_exhausted", r.available)
\* Mutant: a takeover renews the lease and keeps the token.
ReclaimedRow(r, t, at, lease) ==
  [state |-> "claimed", attempts |-> r.attempts + 1,
   token |-> IF r.token = NoToken THEN t ELSE r.token,
   available |-> 0, claimedAt |-> at, leaseEnd |-> at + lease,
   lastError |-> r.lastError, nanos |-> r.nanos]
\* The row keeps its available_at, which nothing reads before a Retry writes
\* another: the model forgets it.
ClaimedRow(r, t, at, lease) ==
  [state |-> "claimed", attempts |-> r.attempts + 1, token |-> t,
   available |-> 0, claimedAt |-> at, leaseEnd |-> at + lease,
   lastError |-> r.lastError, nanos |-> r.nanos]

CommitClaim(w) ==
  /\ claim[w].phase = "updated"
  /\ \E t \in Tokens : t \notin UsedTokens
  /\ msg' = [s \in EventSequences |->
               CASE s \in claim[w].sweep -> SweptRow(msg[s])
                 [] s \in claim[w].take ->
                      ClaimedRow(msg[s], FreshToken, claim[w].at, claim[w].lease)
                 [] OTHER -> msg[s]]
  /\ handed' = [s \in EventSequences |->
                  IF s \in claim[w].take THEN Append(handed[s], FreshToken)
                  ELSE handed[s]]
  /\ claim' = [claim EXCEPT ![w] = IdleClaim]
  /\ UNCHANGED <<nextSequence, tx, answered>>

\* The worker crashes or its connection fails before COMMIT.
AbortClaim(w) ==
  /\ claim[w].phase # "idle"
  /\ claim' = [claim EXCEPT ![w] = IdleClaim]
  /\ UNCHANGED <<nextSequence, tx, msg, handed, answered>>

-----------------------------------------------------------------------------
(* Retry, Deliver and DeadLetter: one fenced UPDATE and COMMIT.            *)

\* Mutant: finish settles a claimed message, whoever claimed it.
FencedByState(s, t) == msg[s].state = "claimed"

\* finish updates the row of a live claim with this token, and waits while a
\* Claim transaction holds the row.
Fenced(s, t) ==
  /\ msg[s].state = "claimed"
  /\ msg[s].token = t

Finish(s, t, state, error, available) ==
  /\ s \notin Locked
  /\ t \in HandedFor(s)
  /\ Fenced(s, t)
  /\ Scannable(s)
  /\ msg' = [msg EXCEPT ![s] = ReleasedRow(msg[s], state, error, available)]
  /\ answered' = [answered EXCEPT ![s] = @ \cup {t}]
  /\ UNCHANGED <<nextSequence, tx, claim, handed>>

\* guard_outbox_message_update bounds the delay by the time of the claim.
Retry(s, t, availableAt) ==
  /\ availableAt > msg[s].claimedAt
  /\ availableAt <= msg[s].claimedAt + MaxRetryDelay
  /\ Finish(s, t, "retry", "reported", availableAt)

Deliver(s, t, at) ==
  /\ at >= msg[s].claimedAt
  /\ Finish(s, t, "delivered", msg[s].lastError, msg[s].available)

DeadLetter(s, t, at) ==
  /\ at >= msg[s].claimedAt
  /\ Finish(s, t, "dead_letter", "reported", msg[s].available)

-----------------------------------------------------------------------------
(* Time.                                                                   *)

\* Time passes. Only the times some guard can still read grow older.
Floor == -(MaxRetryDelay + Skew + 1)
Older(time) == IF time > Floor THEN time - 1 ELSE time

Tick ==
  /\ msg' = [s \in EventSequences |->
               CASE msg[s].state \in {"pending", "retry"} ->
                      [msg[s] EXCEPT !.available = Older(@)]
                 [] msg[s].state = "claimed" ->
                      [msg[s] EXCEPT !.claimedAt = Older(@), !.leaseEnd = Older(@)]
                 [] OTHER -> msg[s]]
  /\ claim' = [w \in Workers |->
                 IF claim[w].phase = "idle" THEN claim[w]
                 ELSE [claim[w] EXCEPT !.at = Older(@)]]
  /\ tx' = [p \in Producers |->
              IF tx[p].phase = "recorded" THEN [tx[p] EXCEPT !.at = Older(@)]
              ELSE tx[p]]
  /\ UNCHANGED <<nextSequence, handed, answered>>

-----------------------------------------------------------------------------
Produce(p) ==
  \/ NextSequence(p)
  \/ \E at \in ClockReadings, nanos \in SubMicros : Record(p, at, nanos)
  \/ Commit(p)
  \/ Rollback(p)

StartClaim(w) ==
  \E at \in ClockReadings, lease \in 1 .. MaxLease, limit \in 1 .. MaxClaimBatch :
    BeginClaim(w, at, lease, limit)

Work(w) == StartClaim(w) \/ SelectClaims(w) \/ CommitClaim(w) \/ AbortClaim(w)

\* Any token ever handed out may be presented, late or twice.
Settle(s, t) ==
  \/ \E at \in (-Skew) .. (MaxRetryDelay + Skew) : Retry(s, t, at)
  \/ \E at \in ClockReadings : Deliver(s, t, at)
  \/ \E at \in ClockReadings : DeadLetter(s, t, at)

Next ==
  \/ \E p \in Producers : Produce(p)
  \/ \E w \in Workers : Work(w)
  \/ \E s \in EventSequences, t \in Tokens : Settle(s, t)
  \/ Tick

Spec == Init /\ [][Next]_vars

\* Fairness: time passes; workers keep polling and their transactions end;
\* database failures are transient, so that not every Claim fails before its
\* second statement or at the COMMIT of the same row. Nothing is assumed of
\* what a worker does with a claim: it may crash while holding it.
Fairness ==
  /\ WF_vars(Tick)
  /\ \A w \in Workers :
       /\ WF_vars(StartClaim(w))
       /\ SF_vars(SelectClaims(w))
       /\ WF_vars(CommitClaim(w) \/ AbortClaim(w))
  /\ \A s \in EventSequences :
       SF_vars(\E w \in Workers : s \in LockedBy(w) /\ CommitClaim(w))

FairSpec == Spec /\ Fairness

-----------------------------------------------------------------------------
(* Properties.                                                             *)

Transaction == [phase: {"idle", "allocated", "recorded"}, seq: 0 .. MaxSequence,
                at: Int, nanos: Nat]
Claim == [phase: {"idle", "swept", "updated"}, at: Int, lease: 0 .. MaxLease,
          limit: 0 .. MaxClaimBatch, sweep: SUBSET EventSequences,
          take: SUBSET EventSequences]

\* The shape of the rows, transactions and claims of the outbox tables.
TypeOK ==
  /\ nextSequence \in 1 .. MaxSequence
  /\ tx \in [Producers -> Transaction]
  /\ msg \in [EventSequences -> Row]
  /\ claim \in [Workers -> Claim]
  /\ handed \in [EventSequences -> Seq(Tokens)]
  /\ answered \in [EventSequences -> SUBSET Tokens]

\* Sequences become visible in order and without a gap, although the
\* transactions that allocate them commit or roll back in any order: a
\* consumer that has read up to n never meets a smaller sequence later.
\* (NextSequence allocates in the caller's transaction.)
SequencesAreGapFree ==
  \A s \in EventSequences : (msg[s].state # "absent") <=> (s < nextSequence)

\* No two Claim transactions hold the same row, and what a transaction holds
\* is still as it found it when it comes to commit. (FOR UPDATE SKIP LOCKED
\* in Claim, row locks taken by its first UPDATE.)
ClaimsAreExclusive ==
  /\ \A v, w \in Workers : v # w => LockedBy(v) \cap LockedBy(w) = {}
  /\ \A w \in Workers :
       /\ \A s \in claim[w].sweep : msg[s].state = "claimed" /\ msg[s].attempts = MaxAttempts
       /\ \A s \in claim[w].take : msg[s].state \in {"pending", "retry", "claimed"}
                                   /\ msg[s].attempts < MaxAttempts

\* Every attempt has one owner: the tokens handed out for a message are
\* distinct, there are as many as attempts, and a claimed row carries the
\* newest, so every older token is stale. (claim_token fences finish.)
AttemptsHaveOneOwner ==
  \A s \in EventSequences :
    /\ Len(handed[s]) = msg[s].attempts
    /\ \A i, j \in 1 .. Len(handed[s]) : handed[s][i] = handed[s][j] => i = j
    /\ (msg[s].state = "claimed") <=> (msg[s].token # NoToken)
    /\ msg[s].state = "claimed" => msg[s].token = handed[s][Len(handed[s])]

\* Only running out of attempts makes the sweep give a message up.
SweptOnlyWhenExhausted ==
  \A s \in EventSequences :
    msg[s].lastError = "attempts_exhausted" =>
      msg[s].state = "dead_letter" /\ msg[s].attempts = MaxAttempts

OnTimeStep ==
  \A s \in EventSequences :
    msg'[s].attempts > msg[s].attempts =>
      IF msg[s].state = "claimed" THEN msg[s].leaseEnd <= Skew
      ELSE msg[s].available <= Skew

\* A claim is not taken over, nor a queued message claimed, before its time:
\* at the earliest Skew before the lease ends or the message is available.
NoEarlyTakeover == [][OnTimeStep]_vars

FinalStep ==
  \A s \in EventSequences :
    /\ msg[s].state \in Terminal => msg'[s] = msg[s]
    /\ msg[s].state # "absent" => msg'[s].state # "absent"

HolderStep ==
  \A s \in EventSequences, t \in Tokens : Settle(s, t) => t = handed[s][Len(handed[s])]

\* Delivery and dead-lettering are final, no event is ever lost, and a worker
\* whose claim was taken over settles nothing: whatever Retry, Deliver or
\* DeadLetter changes was asked for with the newest token handed out.
SettledIsFinal == [][FinalStep /\ HolderStep]_vars

\* Where a reader of the table finds an event.
PlaceOf(row) ==
  CASE row.state \in {"pending", "retry"} -> "queued"
    [] row.state = "claimed" -> "held"
    [] OTHER -> row.state
Place == [s \in EventSequences |-> PlaceOf(msg[s])]

Queue == INSTANCE FencedQueue
  WITH Items <- EventSequences, Tokens <- Tokens, Limit <- MaxAttempts,
       place <- Place, holders <- handed, answered <- answered

\* Producers and workers, with their transactions, locks, leases and clocks,
\* implement the fenced queue: events appear in order, every attempt has a new
\* token, and only the holder of the newest token can report, and only once.
ImplementsFencedQueue == Queue!Spec

\* Every event is delivered or dead-lettered in the end, unless a worker
\* asked for a retry of the last attempt.
SettledOrParked ==
  \A s \in EventSequences :
    (msg[s].state # "absent") ~>
      \/ msg[s].state \in Terminal
      \/ msg[s].state = "retry" /\ msg[s].attempts = MaxAttempts

\* Every recorded event is claimed by some worker in the end
\* (docs/contracts/events.md:3: "at-least-once delivery").
EveryEventIsClaimed ==
  \A s \in EventSequences : (msg[s].state = "pending") ~> (msg[s].state # "pending")

\* Every event is delivered or dead-lettered in the end
\* (docs/architecture/postgresql-model.md:29, docs/contracts/events.md:3).
EveryEventSettles ==
  \A s \in EventSequences :
    (msg[s].state # "absent") ~> (msg[s].state \in Terminal)

-----------------------------------------------------------------------------
(* The inductive invariant behind the safety properties (OutboxProofs).    *)

\* The lock on the tenant's counter row.
OneAllocator ==
  /\ \A p, q \in Producers : tx[p].phase # "idle" /\ tx[q].phase # "idle" => p = q
  /\ \A p \in Producers :
       tx[p].phase # "idle" => tx[p].seq = nextSequence /\ nextSequence < MaxSequence

AbsentIsEmpty ==
  \A s \in EventSequences : msg[s].state = "absent" => msg[s] = AbsentRow

\* The token of a live claim has not been reported with: it is new.
LiveClaimsAreOpen ==
  \A s \in EventSequences :
    /\ answered[s] \subseteq HandedFor(s)
    /\ msg[s].state = "claimed" => msg[s].token \notin answered[s]

\* What a Claim transaction found when it took its rows still holds.
ClaimTimes ==
  \A w \in Workers :
    /\ claim[w].phase # "idle" => claim[w].at <= Skew
    /\ claim[w].phase # "updated" => claim[w].take = {}
    /\ \A s \in claim[w].take :
         IF msg[s].state = "claimed" THEN msg[s].leaseEnd <= claim[w].at
         ELSE msg[s].available <= claim[w].at

IInv ==
  /\ TypeOK
  /\ SequencesAreGapFree
  /\ ClaimsAreExclusive
  /\ AttemptsHaveOneOwner
  /\ SweptOnlyWhenExhausted
  /\ LiveClaimsAreOpen
  /\ OneAllocator
  /\ AbsentIsEmpty
  /\ ClaimTimes
=============================================================================
