-------------------------------- MODULE Access --------------------------------
(***************************************************************************)
(* Who a request speaks for and what it may do: the bearer header          *)
(* (internal/adapters/http/publisher.go), the OIDC verifier and mapper     *)
(* (internal/adapters/oidc), the local-development identity                *)
(* (internal/adapters/localauth) and the role table (internal/security).   *)
(*                                                                         *)
(* A token is a record of what the code looks at: form and signature       *)
(* (compact JWT, accepted by the key set), alg, iss, aud (a set), azp,     *)
(* sub, exp, nbf, json (claims without a repeated name), tenants (the      *)
(* values of the tenant claim) and principal (the principal claim).        *)
(***************************************************************************)
EXTENDS Integers, FiniteSets

CONSTANTS
  Issuer, Audience, Algorithms, Skew,   \* oidc.Config
  TenantByValue,                        \* oidc.MappingConfig: claim value -> tenant
  Grants,                               \* role grants [tenant, principal, role]
  LocalTenant, LocalPrincipal,          \* the local-development identity
  NoIdentity, Absent

\* The empty text.
NoText == "(empty)"

Roles == {"publisher-admin", "namespace-admin", "publication-admin",
          "evidence-producer-admin", "reviewer", "catalog-admin", "policy-admin",
          "revocation-admin", "federation-admin"}

\* actionsByRole: one action per role, and no role implies another.
ActionOfRole(role) ==
  CASE role = "publisher-admin" -> "publisher.manage"
    [] role = "namespace-admin" -> "namespace.manage"
    [] role = "publication-admin" -> "publication.publish"
    [] role = "evidence-producer-admin" -> "evidence_producer.manage"
    [] role = "reviewer" -> "promotion.review"
    [] role = "catalog-admin" -> "catalog.manage"
    [] role = "policy-admin" -> "policy.activate"
    [] role = "revocation-admin" -> "revocation.manage"
    [] role = "federation-admin" -> "federation.manage"

\* The configuration with which verifier, mapper and authorizer can be built.
ValidVerifier ==
  /\ Audience # NoText
  /\ Algorithms # {}
  /\ Algorithms \subseteq {"RS256", "RS384", "RS512", "PS256", "PS384", "PS512",
                           "ES256", "ES384", "ES512", "EdDSA"}
  /\ Skew \in 0 .. 300

ValidMapper == DOMAIN TenantByValue # {} /\ NoText \notin DOMAIN TenantByValue

ValidGrants == \A g \in Grants : g.principal # Absent /\ g.role \in Roles

ASSUME AccessAssumption == ValidVerifier /\ ValidMapper /\ ValidGrants

-----------------------------------------------------------------------------
(* Authentication *)

\* Verify: the upstream library checks signature, algorithm and audience; expiry
\* and not-before are compared with the skew, which must lie between.
Verify(token, now) ==
  /\ token.form = "compact" /\ token.signed /\ token.alg \in Algorithms
  /\ token.iss = Issuer /\ Audience \in token.aud /\ token.sub # NoText
  /\ Cardinality(token.aud) > 1 \/ token.azp # NoText => token.azp = Audience
  /\ token.exp # Absent /\ now < token.exp + Skew
  /\ token.nbf # Absent => token.nbf <= now + Skew

Tenants(token) == {v \in token.tenants : v \in DOMAIN TenantByValue}

\* Mutant: the first of several mapped values wins.
MapAnyTenant(token) == /\ token.json = "unique" /\ NoText \notin token.tenants
                       /\ Tenants(token) # {} /\ token.principal # NoText

\* Map: exactly one value of the tenant claim is mapped, every value is valid,
\* and the principal, which is configured to be the claim "sub", is the verified
\* subject.
Maps(token) ==
  /\ token.json = "unique"
  /\ token.tenants # {} /\ NoText \notin token.tenants
  /\ Cardinality(Tenants(token)) = 1
  /\ token.principal # NoText /\ token.principal = token.sub

\* opaquePrincipalID: a digest of issuer and claim value.
OpaquePrincipal(token) == <<"oidc", Issuer, token.principal>>

TokenIdentity(token) ==
  [tenant |-> TenantByValue[CHOOSE v \in token.tenants : v \in DOMAIN TenantByValue],
   principal |-> OpaquePrincipal(token)]

\* The local authenticator refuses any credential.
LocalIdentity(credential) ==
  IF credential = Absent
  THEN [tenant |-> LocalTenant, principal |-> <<"local-development", LocalPrincipal>>]
  ELSE NoIdentity

\* authenticate: one Authorization header at most, of the form "Bearer token".
Authenticate(mode, r, now) ==
  IF r.header \notin {"none", "bearer"}
  THEN NoIdentity
  ELSE IF mode = "local-development"
  THEN LocalIdentity(IF r.header = "none" THEN Absent ELSE r.token)
  ELSE IF r.header = "bearer" /\ Verify(r.token, now) /\ Maps(r.token)
  THEN TokenIdentity(r.token)
  ELSE NoIdentity

-----------------------------------------------------------------------------
(* Authorization *)

\* Authorize: an explicit grant in the very tenant of the identity.
Authorize(who, action) ==
  \E g \in Grants : /\ g.tenant = who.tenant /\ g.principal = who.principal
                    /\ ActionOfRole(g.role) = action
=============================================================================
