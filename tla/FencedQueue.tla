----------------------------- MODULE FencedQueue -----------------------------
(***************************************************************************)
(* What the outbox promises those who record and those who deliver events, *)
(* without transactions, locks and clocks: a queue that is filled in order,*)
(* whose items are handed out a bounded number of times, each time under a *)
(* token never used before, and come back or leave for good only on the    *)
(* report of the newest token's holder, who reports once                   *)
(* (docs/architecture/postgresql-model.md, "Outbox claiming uses bounded   *)
(* leases/retries and dead-letter metadata").  Outbox implements it.       *)
(***************************************************************************)
EXTENDS Naturals, Sequences

CONSTANTS
  Items,    \* positions in the queue
  Tokens,   \* fencing tokens
  Limit     \* how often an item is handed out at most

VARIABLES
  place,    \* place[i]: "absent", "queued", "held", "delivered" or "dead_letter"
  holders,  \* holders[i]: the tokens item i was handed out under, oldest first
  answered  \* answered[i]: the tokens a report about item i came with

vars == <<place, holders, answered>>

Init ==
  /\ place = [i \in Items |-> "absent"]
  /\ holders = [i \in Items |-> <<>>]
  /\ answered = [i \in Items |-> {}]

\* The next item of the queue appears.
Enqueue(i) ==
  /\ place[i] = "absent"
  /\ \A j \in Items : j < i <=> place[j] # "absent"
  /\ place' = [place EXCEPT ![i] = "queued"]
  /\ UNCHANGED <<holders, answered>>

\* Items that may be handed out: those that were held so long that nobody
\* expects an answer are among them.
Open == {i \in Items : place[i] \in {"queued", "held"} /\ Len(holders[i]) < Limit}
\* Held items without a try left.
Exhausted == {i \in Items : place[i] = "held" /\ Len(holders[i]) = Limit}
NewTokens == {t \in Tokens : \A i \in Items : \A n \in 1 .. Len(holders[i]) : holders[i][n] # t}

\* A consumer gets a batch under one new token, and some exhausted items are
\* given up at the same time.
HandOut(batch, t) ==
  /\ holders' = [i \in Items |-> IF i \in batch THEN Append(holders[i], t) ELSE holders[i]]
  /\ \E dead \in SUBSET Exhausted :
       place' = [i \in Items |-> IF i \in batch THEN "held"
                                 ELSE IF i \in dead THEN "dead_letter" ELSE place[i]]
  /\ UNCHANGED answered

\* The present holder reports, with the newest token and for the first time:
\* the item goes back, or leaves for good.
Report(i, t, outcome) ==
  /\ place[i] = "held"
  /\ holders[i] # <<>> /\ t = holders[i][Len(holders[i])]
  /\ t \notin answered[i]
  /\ place' = [place EXCEPT ![i] = outcome]
  /\ answered' = [answered EXCEPT ![i] = @ \cup {t}]
  /\ UNCHANGED holders

Next ==
  \/ \E i \in Items : Enqueue(i)
  \/ \E t \in NewTokens, batch \in SUBSET Open : HandOut(batch, t)
  \/ \E i \in Items, t \in Tokens, outcome \in {"queued", "delivered", "dead_letter"} :
       Report(i, t, outcome)

Spec == Init /\ [][Next]_vars
=============================================================================
