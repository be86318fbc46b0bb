------------------------------ MODULE MCListing ------------------------------
(***************************************************************************)
(* Two tenants, tokens of several kinds, two clients that may exchange     *)
(* their cursors.  The largest page size is 2 (200 in the code): three     *)
(* rows fill several pages of 1 and two pages of 2, and 2 is a size the    *)
(* artifact repository refuses.                                            *)
(***************************************************************************)
EXTENDS Listing, TLC

CONSTANTS A, B

MCIssuer == "https://issuer"
MCTenantByValue == "a" :> A @@ "b" :> B
Principal(name) == <<"oidc", MCIssuer, name>>
MCGrants ==
  {[tenant |-> A, principal |-> Principal("ann"), role |-> "publisher-admin"],
   [tenant |-> B, principal |-> Principal("ann"), role |-> "publication-admin"],
   [tenant |-> B, principal |-> Principal("ann"), role |-> "reviewer"],
   [tenant |-> A, principal |-> <<"local-development", "dev">>, role |-> "namespace-admin"],
   [tenant |-> A, principal |-> <<"local-development", "dev">>, role |-> "publication-admin"]}

Token(sub, values, exp) ==
  [form |-> "compact", signed |-> TRUE, alg |-> "RS256", iss |-> MCIssuer,
   aud |-> {"mp"}, azp |-> NoText, sub |-> sub, exp |-> exp, nbf |-> Absent,
   json |-> "unique", tenants |-> values, principal |-> sub]
InA == Token("ann", {"a", "other"}, 1)
InB == Token("ann", {"b"}, 3)
InBoth == Token("bob", {"a", "b"}, 3)

List(header, token_, endpoint, query, size) ==
  [header |-> header, token |-> token_, endpoint |-> endpoint, query |-> query,
   size |-> size, parameters |-> {"cursor", "page_size"}]
MCRequests ==
  {List("bearer", InA, "publishers", NoText, 1),
   List("bearer", InB, "publishers", NoText, 1),
   List("bearer", InBoth, "publishers", NoText, 1),
   List("bearer", InB, "artifacts", NoText, 1),
   List("bearer", InB, "artifacts", "x", 1),
   List("bearer", InB, "artifacts", NoText, 2),
   List("none", Absent, "namespaces", NoText, 2),
   List("none", Absent, "artifacts", NoText, 1),
   List("repeated", InA, "publishers", NoText, 1)}

New(header, token_, endpoint, texts) ==
  [header |-> header, token |-> token_, endpoint |-> endpoint, keys |-> 1,
   body |-> "valid", texts |-> texts]
MCCreations ==
  {New("bearer", InA, "publishers", {}),
   New("bearer", InB, "publishers", {}),
   New("bearer", InA, "artifacts", {"x"}),
   New("bearer", InB, "artifacts", {"x"}),
   New("bearer", InB, "artifacts", {}),
   New("none", Absent, "namespaces", {}),
   New("none", Absent, "artifacts", {}),
   [New("none", Absent, "artifacts", {}) EXCEPT !.keys = 2],
   [New("none", Absent, "artifacts", {}) EXCEPT !.body = "trailing"]}
=============================================================================
