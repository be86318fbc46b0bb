------------------------ MODULE MCNamespaceAuthority ------------------------
(* Small instances of NamespaceAuthority for TLC.                          *)
EXTENDS NamespaceAuthority

CONSTANTS p1, p2, d1

A == <<"a">>
AB == <<"a", "b">>
AC == <<"a", "c">>
ABC == <<"a", "b", "c">>
ThreePaths == {A, AB, ABC}
FourPaths == {A, AB, AC, ABC}

Root(path, pub) == [kind |-> "namespace", path |-> path, pub |-> pub]
Delegate(ns, path, pub) == [kind |-> "delegation", ns |-> ns, path |-> path, pub |-> pub]
Revoke(d) == [kind |-> "revoke", id |-> d]
Change(pub, version, to) == [kind |-> "state", pub |-> pub, to |-> to, version |-> version]
Publish(path, pub) == [kind |-> "publish", path |-> path, pub |-> pub]

\* Nested roots, nested and sibling delegations that compete for the same
\* paths, and publications by an owner and by a delegate, while one Publisher
\* is suspended and the other revoked.
AuthorityRequests ==
  {Root(A, p1), Root(AB, p1), Root(AB, p2),
   Delegate(A, AB, p1), Delegate(A, AC, p1), Delegate(AB, ABC, p2),
   Revoke(d1),
   Change(p1, 1, "verified"), Change(p2, 1, "verified"),
   Change(p1, 2, "suspended"), Change(p2, 2, "revoked"),
   Publish(AB, p1), Publish(AB, p2)}

\* A root, a delegation and a publication while Publishers come and go.
SuspensionRequests ==
  {Root(A, p1), Delegate(A, AB, p2), Publish(A, p1)}
  \cup {Change(p1, v, s) : v \in 1 .. 2, s \in {"verified", "suspended"}}
  \cup {Change(p2, 1, "verified")}
=============================================================================
