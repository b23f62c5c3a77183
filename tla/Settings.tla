------------------------------ MODULE Settings ------------------------------
(***************************************************************************)
(* app_config's resolution of settings, and what llm_client and azure make *)
(* of them: which file and which entry a value comes from, which           *)
(* credential a run uses, the client it builds for a provider, and the     *)
(* application an identity logs in with.                                   *)
(*                                                                         *)
(* An entry of a file is "unset" (absent or null), "wrong" (of another     *)
(* type), "refused" (of the type, and not one of the values that key       *)
(* takes), or a value.                                                     *)
(***************************************************************************)
EXTENDS Cases, Integers, Sequences

CONSTANTS
    SettingSites,   \* files, keys and arguments a value is resolved from
    ClientSites,    \* runs that need a model
    IdentitySites   \* environments of an Entra ID login

-----------------------------------------------------------------------------
(* Values.                                                                 *)

\* The file that is named, the working directory's, the repository's.
CandidatePaths(site) == site.named \o <<site.cwd, site.root>>

NoFile == [state |-> "read", base |-> "unset", roles |-> "unset", overlay |-> "unset"]

\* load_config: the first file that can be read.
LoadConfig(site) ==
    LET read == SelectSeq(CandidatePaths(site), LAMBDA f : f.state \notin {"absent", "unreadable"})
    IN  IF read = << >> THEN NoFile ELSE Head(read)

\* A removed key, or a section that is no object: the search does not go on.
LoadingRaises(file) == file.state \in {"stale", "odd section"}

GetValue(e, default) == IF e = "unset" THEN default ELSE e
Typed(e, default) == IF e = "wrong" THEN default ELSE e
GetTypedValue(e, default) == Typed(GetValue(e, default), default)

\* _validate_llm_value: a default is not looked at.
ValidateLlmValue(key, e, default) ==
    IF key.checked /\ e # default /\ e = "refused" THEN default ELSE e

LlmClientValue(file, key, default) ==
    ValidateLlmValue(key, GetTypedValue(file.base, default), default)

\* role_value: whatever is wrong with the overlay, the base section stands.
RoleValue(file, key, default) ==
    LET base == LlmClientValue(file, key, default)
    IN  IF file.roles # "named" \/ file.overlay = "unset" THEN base
        ELSE ValidateLlmValue(key, Typed(file.overlay, base), base)

MemoryTableValue(file, default) ==
    LET e == GetTypedValue(file.base, default)
    IN  IF e # "unset" /\ e = "refused" THEN default ELSE e

\* for_role passes what the role changes, the rest is the field's own default.
LlmSetting(site, file) ==
    LET overlaid == RoleValue(file, site.key, "unset")
    IN  IF site.explicit # "unset" THEN site.explicit
        ELSE IF /\ site.role /\ overlaid # "unset"
                /\ overlaid # LlmClientValue(file, site.key, "unset")
             THEN overlaid
        ELSE IF site.env # "unset" THEN site.env
        ELSE LlmClientValue(file, site.key, site.key.hard)

ResolvedSetting(site) ==
    LET file == LoadConfig(site)
    IN  IF LoadingRaises(file) THEN "raises"
        ELSE IF site.key.of = "memory" THEN MemoryTableValue(file, site.key.hard)
        ELSE LlmSetting(site, file)

-----------------------------------------------------------------------------
(* The model's client.                                                     *)

\* _split_model; an id that is split is lower-cased.
SplitModel(model) ==
    IF model.prefix = "none" THEN [provider |-> "none", id |-> <<model.bare>>]
    ELSE IF model.bare = "blank" THEN [provider |-> "none", id |-> <<model.prefix, ":">>]
    ELSE [provider |-> model.prefix, id |-> <<IF model.bare = "ID" THEN "id" ELSE model.bare>>]

ProviderClients ==
    [p \in {"anthropic", "openai", "google"} |->
        IF p = "anthropic" THEN "native" ELSE "openai_compatible"]

ResolveProviderClient(pinned, provider) ==
    IF pinned \notin {"unset", "auto"} THEN pinned
    ELSE IF provider \in {"none", ""} THEN "openai_compatible"
    ELSE IF provider \in DOMAIN ProviderClients THEN ProviderClients[provider]
    ELSE "unknown"

\* A trailing slash marks a route of which the model is the last segment.
Address(c, id) ==
    IF c.url = "unset" THEN << >> ELSE IF c.slash THEN <<c.url>> \o id ELSE <<c.url>>

\* An operator's own header stands; the key and the version fill in.
Headers(c) ==
    [h \in {"api-key", "ai-gateway-version", "trace"} |->
        IF h \in c.headers THEN "own"
        ELSE IF h = "api-key" THEN c.key
        ELSE IF h = "ai-gateway-version" THEN c.version ELSE "unset"]

\* _apply_cert_file: a bundle that is not there is left out.
ApplyCertFile(c) == IF c.cert = "there" THEN "exported" ELSE "default"

BuildNativeModel(c, id) ==
    [transport |-> "native", id |-> id, address |-> Address(c, id), key |-> c.key,
     headers |-> Headers(c), trust |-> ApplyCertFile(c), limiter |-> "unset",
     extras |-> {}]

\* _build_model below the choice: kwargs are merged last.
BuildChatModel(c, id) ==
    [transport |-> "openai_compatible", id |-> id,
     address |-> IF c.kwargs THEN <<"kwargs">> ELSE Address(c, id), key |-> c.key,
     headers |-> Headers(c),
     trust |-> IF ApplyCertFile(c) = "exported" THEN "pinned" ELSE "default",
     limiter |-> c.rate,
     extras |-> (IF c.extras THEN {"model_kwargs"} ELSE {})
                \cup (IF c.kwargs THEN {"kwargs"} ELSE {})]

ProviderOf(c) == IF c.provider # "unset" THEN c.provider ELSE SplitModel(c.model).provider

\* The model, or none: an error the run ends with.
BuildModel(c) ==
    LET id == SplitModel(c.model).id
        strategy == ResolveProviderClient(c.pinned, ProviderOf(c))
    IN  CASE strategy = "unknown" -> << >>
          [] strategy = "native"  -> <<BuildNativeModel(c, id)>>
          [] OTHER                -> <<BuildChatModel(c, id)>>

-----------------------------------------------------------------------------
(* The run's credential.                                                   *)

\* VaultConfig.auth_method.
VaultLogin(vault) ==
    IF vault.token THEN "token" ELSE IF vault.approle THEN "approle"
    ELSE IF vault.app THEN "azuread" ELSE "none"

IsConfigured(vault) == vault.address /\ VaultLogin(vault) # "none"
HasGatewayPath(vault) == vault.path \/ vault.app

TokenKeys == <<"token", "api_key">>
Present(secret, keys) == SelectSeq(keys, LAMBDA k : secret[k] = "filled")

\* ai_gateway_token: the field that is named, be it blank, else the first filled.
AiGatewayToken(site) ==
    LET found == Present(site.secret, TokenKeys)
    IN  IF site.field # "unset"
        THEN CASE site.secret[site.field] = "absent" -> "error"
               [] site.secret[site.field] = "blank"  -> "blank"
               [] OTHER                              -> site.field
        ELSE IF found = << >> THEN "error" ELSE Head(found)

\* LLMClientConfig() of the run.
DefaultConfig(site) ==
    [model |-> site.model, provider |-> site.provider, pinned |-> site.pinned,
     url |-> site.url, slash |-> site.slash, key |-> "unset", headers |-> site.headers,
     version |-> IF site.env # "unset" THEN site.env ELSE site.version,
     cert |-> site.cert, extras |-> site.extras, kwargs |-> FALSE, rate |-> site.rate]

\* from_ai_gateway: what the secret carries beside the token goes before the file.
FromAiGateway(site) ==
    LET base == DefaultConfig(site)
        key  == AiGatewayToken(site)
    IN  IF ~HasGatewayPath(site.vault) \/ site.trouble \/ key = "error" THEN << >>
        ELSE <<[base EXCEPT
                   !.key = key,
                   !.url = IF site.secret["endpoint"] = "filled" THEN "secret" ELSE @,
                   !.version = IF site.secret["version"] = "filled" THEN "secret" ELSE @,
                   !.rate = IF @ = "unset" THEN "2.0" ELSE @]>>

\* from_vault_secret: as the application, whatever token there is.
FromVaultSecret(site) ==
    IF ~site.vault.approle \/ ~site.vault.address \/ site.trouble
       \/ site.secret["api_key"] # "filled"
    THEN << >>
    ELSE <<[login |-> VaultLogin([site.vault EXCEPT !.token = FALSE]),
            config |-> [DefaultConfig(site) EXCEPT !.key = "api_key"]]>>

\* main.resolve_llm_config; none: the run ends before it converts anything.
ResolveLlmConfig(site) ==
    LET deferred == <<[login |-> "none", config |-> DefaultConfig(site)]>>
        gateway  == FromAiGateway(site)
    IN  CASE site.asks = "vault secret"  -> FromVaultSecret(site)
          [] site.asks = "no gateway"    -> deferred
          [] OTHER ->
                IF ~IsConfigured(site.vault) THEN deferred
                ELSE IF gateway = << >> THEN << >>
                ELSE <<[login |-> VaultLogin(site.vault), config |-> Head(gateway)]>>

\* A run's credential, and the client it builds with it.
ClientOf(site) ==
    LET config == ResolveLlmConfig(site)
    IN  IF config = << >> THEN [ends |-> "exit", login |-> "none", config |-> {}, model |-> << >>]
        ELSE LET c == Head(config).config
             IN  [ends |-> IF BuildModel(c) = << >> THEN "raises" ELSE "runs",
                  login |-> Head(config).login, config |-> {c}, model |-> BuildModel(c)]

-----------------------------------------------------------------------------
(* The identity of an Entra ID login.                                      *)

\* _verify_setting: what says nothing is unset.
VerifySetting(e) == IF e \in {"unset", "blank", "wrong"} THEN "unset" ELSE e

VaultVerify(site) ==
    IF site.skip THEN "off"
    ELSE IF site.cacert # "unset" THEN site.cacert
    ELSE IF VerifySetting(site.vaultVerify) # "unset" THEN site.vaultVerify ELSE "system"

\* azure._resolve_verify inherits what vault resolved.
AzureVerify(site) ==
    LET own == VerifySetting(GetValue(site.azureEnv, site.azureVerify))
    IN  IF own # "unset" THEN own ELSE VaultVerify(site)

\* _resolve_scopes, _resolve_azure_scopes, _resolve_proxies, _resolve_flow.
Listed(env, e) ==
    IF env # "unset" THEN env ELSE IF e \in {"unset", "wrong", "refused"} THEN "unset" ELSE e

AzureFromEnv(site) ==
    [tenant |-> site.tenant, client |-> site.client, secret |-> site.secret,
     cert |-> site.cert, thumb |-> site.thumb, flow |-> Listed("unset", site.flow),
     scopes |-> Listed(site.scopesEnv, site.scopes), proxies |-> Listed("unset", site.proxies),
     verify |-> AzureVerify(site)]

\* for_principal: another identity, the same network.
ForPrincipal(config) ==
    [config EXCEPT !.tenant = "principal", !.client = "principal", !.secret = "principal",
                   !.cert = "unset", !.thumb = FALSE, !.flow = "client_credentials"]

HasCertificate(c) == c.cert # "unset" /\ c.thumb

AuthFlow(c) ==
    IF c.flow # "unset" THEN c.flow
    ELSE IF c.secret # "unset" \/ HasCertificate(c) THEN "client_credentials"
    ELSE IF c.client # "unset" THEN "device_code" ELSE "none"

\* _client_credential.
ClientCredential(c) ==
    IF c.secret # "unset" THEN c.secret ELSE IF c.cert = "readable" THEN "certificate" ELSE "error"

\* _build_app; none when it raises.
BuildApp(c) ==
    IF \/ c.tenant = "unset" \/ c.client = "unset"
       \/ /\ AuthFlow(c) = "client_credentials"
          /\ (c.secret = "unset" /\ ~HasCertificate(c)) \/ ClientCredential(c) = "error"
    THEN << >>
    ELSE <<[tenant |-> c.tenant, client |-> c.client, verify |-> c.verify,
            proxies |-> c.proxies,
            credential |-> IF AuthFlow(c) = "client_credentials" THEN ClientCredential(c)
                           ELSE "user"]>>

IdentityOf(site) ==
    LET config == IF site.principal THEN ForPrincipal(AzureFromEnv(site)) ELSE AzureFromEnv(site)
    IN  BuildApp(config)

-----------------------------------------------------------------------------
SettingsInit ==
    \/ Case("setting", SettingSites)
    \/ Case("client", ClientSites)
    \/ Case("identity", IdentitySites)

SettingsStep ==
    \/ Answer("setting", ResolvedSetting(input))
    \/ Answer("client", ClientOf(input))
    \/ Answer("identity", IdentityOf(input))

-----------------------------------------------------------------------------
(* Properties.                                                             *)

SaysSomething(key, e) == e \notin {"unset", "wrong"} /\ ~(key.checked /\ e = "refused")

\* A value is the first that says something of: the argument, the overlay of
\* the role where it differs from the base, the environment, the base and the
\* default, all of the first file that can be read; a file with a removed key
\* is never passed over for the next (load_config, role_value, for_role).
SettingIsFirstSaid ==
    LET readable == {i \in DOMAIN CandidatePaths(input) :
                        CandidatePaths(input)[i].state \notin {"absent", "unreadable"}}
        first == CHOOSE i \in readable : \A j \in readable : i <= j
        file  == IF readable = {} THEN NoFile ELSE CandidatePaths(input)[first]
        overlay == IF input.role /\ file.roles = "named" /\ file.overlay # file.base
                   THEN <<file.overlay>> ELSE << >>
        said  == SelectSeq(<<input.explicit>> \o overlay \o <<input.env, file.base, input.key.hard>>,
                           LAMBDA e : SaysSomething(input.key, e))
    IN  IF file.state # "read" THEN result = "raises"
        ELSE result = IF said = << >> THEN "unset" ELSE Head(said)

\* A credential that was asked for is the one that is used, by the login it
\* was asked with, or the run ends: it never goes on with another
\* (main.resolve_llm_config, vault.is_configured).
CredentialIsAskedFor ==
    LET c == CHOOSE x \in result.config : TRUE
    IN  result.ends # "exit" =>
            CASE input.asks = "vault secret" ->
                    c.key = "api_key" /\ result.login = "approle"
              [] input.asks = "no gateway" -> c.key = "unset"
              [] OTHER -> (c.key = "unset") = ~IsConfigured(input.vault)

\* Whichever way a model is built, it is the same request to the same place:
\* only what attaches to the other way's model is lost (_build_native_model).
TransportsAgree ==
    \A c \in result.config :
        LET id == SplitModel(c.model).id
            native == BuildNativeModel(c, id)
            chat == BuildChatModel(c, id)
        IN  /\ \A f \in {"id", "address", "key", "headers"} : native[f] = chat[f]
            /\ (native.trust = "default") = (chat.trust = "default")

\* A provider that is named is one that is known, unless the client is pinned;
\* a header an operator set goes out as it was set; a route ends in the model.
ModelIsAddressed ==
    \A c \in result.config : \A m \in {result.model[i] : i \in DOMAIN result.model} :
        /\ c.pinned \in {"unset", "auto"} =>
               ProviderOf(c) \in {"none", "", "anthropic", "openai", "google"}
        /\ \A h \in c.headers : m.headers[h] = "own"
        /\ c.slash /\ c.url # "unset" =>
               SubSeq(m.address, Len(m.address) - Len(m.id) + 1, Len(m.address)) = m.id
        /\ /\ m.transport = "openai_compatible"
           /\ input.asks = "gateway" /\ IsConfigured(input.vault)
           => m.limiter # "unset"

\* A principal logs in as itself whatever the environment holds, over the
\* network of the environment; and both legs of the chain trust the same
\* bundle unless azure is given its own (for_principal, azure._resolve_verify).
IdentityIsGiven ==
    \A i \in DOMAIN result :
        LET app == result[i]
        IN  /\ input.principal =>
                   \A f \in {"tenant", "client", "credential"} : app[f] = "principal"
            /\ input.azureEnv = "unset" /\ input.azureVerify = "unset" =>
                   app.verify = VaultVerify(input)
            /\ app.credential = "certificate" => input.secret = "unset" /\ input.thumb
            /\ app.proxies = Listed("unset", input.proxies)

\* A value, a client and an identity are those that were asked for.
SettingsHold ==
    /\ Answered("setting") => SettingIsFirstSaid
    /\ Answered("client") => CredentialIsAskedFor /\ TransportsAgree /\ ModelIsAddressed
    /\ Answered("identity") => IdentityIsGiven /\ (input.principal => result # << >>)
===============================================================================
