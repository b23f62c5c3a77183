----------------------------- MODULE Credentials -----------------------------
(***************************************************************************)
(* app_config.azure, vault, databricks and sharepoint: which identity a    *)
(* process authenticates with, and how long it trusts what it was given.   *)
(* One errand runs at a time: reading a secret from Vault, or sending a    *)
(* request with a token of its own ("graph", "sql").  Time is what is left *)
(* of it, in minutes, the unit of both skews.  Entra ID, Vault and the     *)
(* secret scope are external: a secret may be rotated, a session revoked,  *)
(* a server be away.                                                       *)
(***************************************************************************)
EXTENDS Integers, FiniteSetsExt

CONSTANTS
    TokenLives,    \* minutes an Entra token lives
    Leases,        \* minutes a Vault session lives
    MaxUpsets      \* bound: rotations, revocations, outages and denials

ASSUME CredAssumption == /\ TokenLives \subseteq Nat /\ Leases \subseteq Nat \ {0}
                         /\ MaxUpsets \in Nat

Skew == 1           \* _EXPIRY_SKEW, _TOKEN_SKEW
CredentialTtl == 5  \* _CREDENTIAL_TTL

\* The AZURE_* identity, the ARM_* one, and the two principals of the scope.
Identities == {"shared", "arm", "workspace", "sharepoint"}
Uses == {"vault", "graph", "sql"}

VARIABLES
    setting,     \* what is configured: azure, arm, scope
    principals,  \* DatabricksConfig._principals: key set -> identity, "none"
    clients,     \* Identities -> made, stale (its secret was rotated since), and
                 \* the minutes its cached token lives
    session,     \* VaultClient: built, trust (minutes until _expires_at), and
                 \* life, the minutes the server will honour it
    errand,      \* the errand under way
    upsets       \* how often a server or an administrator interfered

credVars == <<setting, principals, clients, session, errand, upsets>>

NoErrand == [use |-> "none", phase |-> "idle", identity |-> "none", life |-> 0,
             logins |-> 0, retried |-> FALSE, excused |-> FALSE, waited |-> FALSE]

\* An identity of AZURE_*, one of ARM_*, or a scope a credential can read.
CredInit ==
    /\ setting \in [azure : BOOLEAN, arm : BOOLEAN, scope : BOOLEAN]
    /\ setting.azure \/ setting.scope
    /\ upsets = 0
    /\ principals = [keys \in {"default", "sharepoint"} |-> "none"]
    /\ clients = [i \in Identities |-> [made |-> FALSE, stale |-> FALSE, life |-> 0]]
    /\ session = [built |-> FALSE, trust |-> 0, life |-> 0]
    /\ errand = NoErrand

-----------------------------------------------------------------------------
(* Identities *)

\* DatabricksConfig.service_principal: ARM_* only stands in for the default keys.
FirstPrincipal(keys) ==
    CASE keys = "sharepoint"                 -> "sharepoint"
      [] keys = "default" /\ setting.arm     -> "arm"
      [] keys = "default" /\ ~setting.arm    -> "workspace"

ServicePrincipal(keys) == IF principals[keys] = "none" THEN FirstPrincipal(keys) ELSE principals[keys]

\* The key set an errand reads from the scope, "none" if it needs no scope.
KeysFor(use) ==
    CASE use = "graph" /\ setting.scope                      -> "sharepoint"
      [] use = "sql" /\ setting.arm                          -> "default"
      [] use = "vault" /\ ~setting.azure /\ setting.scope    -> "default"
      [] OTHER                                               -> "none"

\* get_azure_client, _token_provider and entra_token.
IdentityFor(use) == IF KeysFor(use) = "none" THEN "shared" ELSE ServicePrincipal(KeysFor(use))

FlowFor(use) == KeysFor(use) # "none" \/ setting.azure

-----------------------------------------------------------------------------
(* Tokens *)

Begin(use) ==
    /\ errand.phase = "idle" /\ FlowFor(use)
    /\ errand' = [NoErrand EXCEPT !.use = use,
                      !.phase = IF use # "vault" \/ ~session.built \/ session.trust = 0
                                THEN "token" ELSE "read"]
    /\ UNCHANGED <<setting, principals, clients, session, upsets>>

Remember(use, identity) ==
    principals' = IF KeysFor(use) = "none" THEN principals
                  ELSE [principals EXCEPT ![KeysFor(use)] = identity]

\* Mutant: the cached token is taken until the minute it dies.
StillAlive(identity) == clients[identity].life > 0

\* AzureAuthClient.get_token: whether the cached token is comfortably valid.
Cached(identity) == clients[identity].life > Skew

\* get_token: from the cache, or acquired with the secret the client was made with.
GetToken ==
    LET identity == IdentityFor(errand.use)
    IN  /\ errand.phase = "token" /\ Remember(errand.use, identity)
        /\ \E life \in (IF Cached(identity) THEN {clients[identity].life} ELSE TokenLives) :
              /\ Cached(identity) \/ ~clients[identity].stale
              /\ clients' = [clients EXCEPT ![identity] = [@ EXCEPT !.made = TRUE, !.life = life]]
              /\ errand' = [errand EXCEPT !.phase = "send", !.identity = identity,
                                          !.life = life, !.waited = FALSE]
        /\ UNCHANGED <<setting, session, upsets>>

\* The secret was rotated since the client was made: get_client_for_principal
\* knows it by tenant and client id, and keeps the old one.
TokenRefused ==
    LET identity == IdentityFor(errand.use)
    IN  /\ errand.phase = "token" /\ ~Cached(identity) /\ clients[identity].stale
        /\ errand' = [errand EXCEPT !.phase = "failed", !.excused = TRUE]
        /\ UNCHANGED <<setting, principals, clients, session, upsets>>

\* A Graph or SQL request with its token.
Request ==
    /\ errand.phase = "send" /\ errand.use # "vault"
    /\ errand' = [errand EXCEPT !.phase = IF errand.life > 0 THEN "done" ELSE "failed"]
    /\ UNCHANGED <<setting, principals, clients, session, upsets>>

-----------------------------------------------------------------------------
(* Vault *)

\* VaultClient._set_expiry.
Trusted(lease) == lease - Skew

\* A first login may have lapsed already, which _read looks at next.
AfterLogin(lease) ==
    IF ~session.built /\ Trusted(lease) = 0 THEN "token" ELSE "read"

\* _authenticate: azuread login with the JWT.
Login ==
    /\ errand.phase = "send" /\ errand.use = "vault" /\ errand.life > 0
    /\ \E lease \in Leases :
          /\ session' = [built |-> TRUE, trust |-> Trusted(lease), life |-> lease]
          /\ errand' = [errand EXCEPT !.phase = AfterLogin(lease), !.logins = @ + 1,
                                      !.waited = FALSE, !.excused = @ \/ lease <= Skew]
    /\ UNCHANGED <<setting, principals, clients, upsets>>

LoginRefused ==
    /\ errand.phase = "send" /\ errand.use = "vault" /\ errand.life = 0
    /\ errand' = [errand EXCEPT !.phase = "failed"]
    /\ UNCHANGED <<setting, principals, clients, session, upsets>>

\* VaultClient._read, 403: a login and one more read; refused again, it raises.
ReadRefused ==
    /\ errand.phase = "read" /\ session.life = 0
    /\ errand' = [errand EXCEPT !.phase = IF errand.retried THEN "failed" ELSE "token",
                                !.retried = TRUE, !.waited = FALSE]
    /\ UNCHANGED <<setting, principals, clients, session, upsets>>

ReadAnswered ==
    /\ errand.phase = "read" /\ session.life > 0
    /\ errand' = [errand EXCEPT !.phase = "done"]
    /\ UNCHANGED <<setting, principals, clients, session, upsets>>

Finish ==
    /\ errand.phase \in {"done", "failed"} /\ errand' = NoErrand
    /\ UNCHANGED <<setting, principals, clients, session, upsets>>

-----------------------------------------------------------------------------
(* What time and the servers do *)

OneLess(n) == IF n = 0 THEN 0 ELSE n - 1

\* One request takes at most a minute.
Tick ==
    LET under == errand.phase \in {"token", "send", "read"}
    IN  /\ under => ~errand.waited
        /\ clients' = [i \in Identities |-> [clients[i] EXCEPT !.life = OneLess(@)]]
        /\ session' = [session EXCEPT !.trust = OneLess(@), !.life = OneLess(@)]
        /\ errand' = [errand EXCEPT !.waited = under, !.life = OneLess(@)]
        /\ UNCHANGED <<setting, principals, upsets>>

Rotate ==
    /\ upsets < MaxUpsets /\ upsets' = upsets + 1
    /\ \E i \in Identities :
          clients[i].made /\ clients' = [clients EXCEPT ![i].stale = TRUE]
    /\ UNCHANGED <<setting, principals, session, errand>>

\* Revoked once more after the one login a refusal is answered by, a read fails.
Revoke ==
    /\ upsets < MaxUpsets /\ upsets' = upsets + 1
    /\ session.built /\ session' = [session EXCEPT !.life = 0]
    /\ errand' = [errand EXCEPT !.excused = @ \/ errand.retried]
    /\ UNCHANGED <<setting, principals, clients>>

\* A server that is away, or that refuses what no login will change.
ServerFails ==
    /\ upsets < MaxUpsets /\ upsets' = upsets + 1
    /\ errand.phase \in {"token", "send", "read"}
    /\ errand' = [errand EXCEPT !.phase = "failed", !.excused = TRUE]
    /\ UNCHANGED <<setting, principals, clients, session>>

CredNext ==
    \/ \E use \in Uses : Begin(use)
    \/ GetToken \/ TokenRefused \/ Request
    \/ Login \/ LoginRefused \/ ReadRefused \/ ReadAnswered
    \/ Finish \/ Tick \/ Rotate \/ Revoke \/ ServerFails

CredSpec == CredInit /\ [][CredNext]_credVars

-----------------------------------------------------------------------------
CredTypeOK ==
    /\ setting \in [azure : BOOLEAN, arm : BOOLEAN, scope : BOOLEAN]
    /\ upsets \in 0..MaxUpsets
    /\ \A i \in Identities : clients[i] \in [made : BOOLEAN, stale : BOOLEAN, life : 0..Max(TokenLives)]
    /\ \A keys \in DOMAIN principals : principals[keys] \in Identities \cup {"none"}
    /\ errand.phase \in {"idle", "token", "send", "read", "done", "failed"}
    /\ errand.logins \in 0..3

(* SharePoint is reached as its own principal and nothing else is, in whatever
   order the principals of the scope were first needed. *)
RightIdentity ==
    /\ errand.identity = "sharepoint" => errand.use = "graph"
    /\ errand.use = "graph" /\ errand.identity # "none" /\ setting.scope
          => errand.identity = "sharepoint"

(* An errand only fails for what a new login cannot cure: a server away, a
   secret rotated under a client made before, a session revoked twice.  No
   token dies in the cache, and no lease lapses, at an errand's expense. *)
FailsForAReason == errand.phase = "failed" => errand.excused

(* Violated.  "rather than hold a token of unknown lifetime for longer than it
   is valid" (_GraphTokenCredential): the expiry stamped on a Graph token is
   not after its own. *)
StampIsTrue ==
    errand.use = "graph" /\ errand.phase = "send" /\ ~errand.waited => CredentialTtl <= errand.life

(* Both: an errand runs as whom it should, and fails for a reason. *)
ErrandsAreServed == RightIdentity /\ FailsForAReason
=============================================================================
