--------------------------- MODULE SerialAuthority ---------------------------
(***************************************************************************)
(* What the insert guards, RevokeDelegation and ChangeState promise        *)
(* together: requests take effect one at a time, and every condition of a  *)
(* request holds in the tables it changes at that moment, although the     *)
(* guards check the conditions one by one while others commit              *)
(* (docs/contracts/publishers-and-namespaces.md).  NamespaceAuthority      *)
(* implements this specification.  Publications are not part of it: their  *)
(* check takes no lock.                                                    *)
(***************************************************************************)
EXTENDS Integers, Sequences

CONSTANTS
  Paths,        \* canonical namespace paths
  Publishers,
  NoPublisher,  \* the owner of a path that is no ownership root
  Delegations   \* delegation identifiers

VARIABLES
  pubs,         \* state and state version of every Publisher
  rootOwner,    \* the owner of every ownership root
  deleg         \* the delegations there are and were

vars == <<pubs, rootOwner, deleg>>

Init ==
  /\ pubs = [p \in Publishers |-> [state |-> "claimed", version |-> 1]]
  /\ rootOwner = [path \in Paths |-> NoPublisher]
  /\ deleg = [d \in Delegations |-> [state |-> "absent"]]

IsRoot(path) == rootOwner[path] # NoPublisher
Verified(p) == pubs[p].state = "verified"
Active == {d \in Delegations : deleg[d].state = "active"}
Delegated(path) == \E d \in Active : deleg[d].prefix = path

StrictlyBelow(path, prefix) ==
  Len(prefix) < Len(path) /\ SubSeq(path, 1, Len(prefix)) = prefix

CreateRoot(path, p) ==
  /\ Verified(p)
  /\ ~IsRoot(path) /\ ~Delegated(path)
  /\ rootOwner' = [rootOwner EXCEPT ![path] = p]
  /\ UNCHANGED <<pubs, deleg>>

CreateDelegation(d, ns, path, p) ==
  /\ deleg[d].state = "absent"
  /\ Verified(p)
  /\ IsRoot(ns) /\ StrictlyBelow(path, ns)
  /\ ~IsRoot(path) /\ ~Delegated(path)
  /\ \A e \in Active : deleg[e].ns = ns =>
       StrictlyBelow(path, deleg[e].prefix) \/ StrictlyBelow(deleg[e].prefix, path)
  /\ deleg' = [deleg EXCEPT ![d] = [state |-> "active", ns |-> ns, prefix |-> path, pub |-> p]]
  /\ UNCHANGED <<pubs, rootOwner>>

Revoke(d) ==
  /\ d \in Active
  /\ deleg' = [deleg EXCEPT ![d].state = "revoked"]
  /\ UNCHANGED <<pubs, rootOwner>>

Successors(state) ==
  CASE state = "claimed" -> {"verified", "suspended", "revoked"}
    [] state = "verified" -> {"suspended", "revoked"}
    [] state = "suspended" -> {"verified", "revoked"}
    [] state = "revoked" -> {}

ChangeState(p, to) ==
  /\ to \in Successors(pubs[p].state)
  /\ pubs' = [pubs EXCEPT ![p] = [state |-> to, version |-> @.version + 1]]
  /\ UNCHANGED <<rootOwner, deleg>>

Next ==
  \/ \E path \in Paths, p \in Publishers : CreateRoot(path, p)
  \/ \E d \in Delegations, ns \in Paths, path \in Paths, p \in Publishers :
       CreateDelegation(d, ns, path, p)
  \/ \E d \in Delegations : Revoke(d)
  \/ \E p \in Publishers : \E to \in Successors(pubs[p].state) : ChangeState(p, to)

Spec == Init /\ [][Next]_vars
=============================================================================
