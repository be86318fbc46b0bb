----------------------------- MODULE ExactlyOnce -----------------------------
(***************************************************************************)
(* What an idempotent mutation promises its clients: a key has at most one *)
(* effect, the answer names it for ever, and the key refuses any other     *)
(* request (docs/contracts/http-api.md, section Idempotency).  Mutation    *)
(* implements this specification.                                          *)
(***************************************************************************)
CONSTANTS
  Keys,        \* ownership tuples: principal, action and Idempotency-Key
  Digests,     \* digests of canonical requests
  Resources,   \* identifiers of created resources
  NoRecord     \* the key has no effect yet

Refusals == {"request_mismatch", "conflict"}

VARIABLES
  record,   \* record[k]: the request the key stands for and its resource
  replies   \* every definite answer given to a client

vars == <<record, replies>>

Reply(k, d, result) == [key |-> k, digest |-> d, result |-> result]

Init ==
  /\ record = [k \in Keys |-> NoRecord]
  /\ replies = {}

\* The mutation takes effect; its client may or may not hear of it.
Take(k, d, r) ==
  /\ record[k] = NoRecord
  /\ \A j \in Keys : record[j] # NoRecord => record[j].resource # r
  /\ record' = [record EXCEPT ![k] = [digest |-> d, resource |-> r]]
  /\ replies' \in {replies, replies \cup {Reply(k, d, r)}}

\* A later request with the same key.
Answer(k, d) ==
  /\ record[k] # NoRecord
  /\ replies' = replies \cup
       {Reply(k, d, IF record[k].digest = d THEN record[k].resource ELSE "request_mismatch")}
  /\ UNCHANGED record

\* The mutation itself is refused and leaves no trace.
Refuse(k, d) ==
  /\ record[k] = NoRecord
  /\ replies' = replies \cup {Reply(k, d, "conflict")}
  /\ UNCHANGED record

Next ==
  \E k \in Keys, d \in Digests :
    \/ \E r \in Resources : Take(k, d, r)
    \/ Answer(k, d)
    \/ Refuse(k, d)

Spec == Init /\ [][Next]_vars
=============================================================================
