------------------------------ MODULE Preflights ------------------------------
(***************************************************************************)
(* The three read-only preflights of app_config: the credential chain      *)
(* (auth_check), SharePoint (sharepoint_check) and a cluster               *)
(* (databricks_check).  Each is a sequence of stages, and a stage reports  *)
(* pass, warn, fail or skip.  A case is a deployment: what is configured,  *)
(* and the calls that would be refused; its answer is the report with and  *)
(* without contacting anything.                                            *)
(***************************************************************************)
EXTENDS Cases, SequencesExt, FiniteSets

CONSTANTS
    Deployments,      \* what auth_check meets
    SharePointSites,  \* what sharepoint_check meets
    Clusters          \* what databricks_check meets

\* A stage that asked nothing of anybody, and one that made a call.
Stage(name, status)        == [name |-> name, status |-> status, asked |-> "none"]
Asked(name, status, call)  == [name |-> name, status |-> status, asked |-> call]
SkippedAll(names)          == [i \in DOMAIN names |-> Stage(names[i], "skip")]
Failing(report)            == \E i \in DOMAIN report : report[i].status = "fail"

-----------------------------------------------------------------------------
(* The process, and what authenticates it: app_config/databricks.py *)

OnCluster(d) == d.place \in {"notebook", "child"}
HasPat(d)    == d.pat # "unset"

AuthMethod(d) ==
    IF OnCluster(d) THEN "notebook"
    ELSE IF HasPat(d) THEN "pat"
    ELSE IF d.arm THEN "azure-sp"
    ELSE IF d.azure THEN "azure-ad" ELSE "none"

\* read_workspace_secrets: a child of the notebook has no credential of its
\* own, and off a cluster a token is of no use without a host.
ScopeReads(d, keys) ==
    /\ d.parts # "no sdk"
    /\ HasPat(d) \/ d.place = "notebook"
    /\ d.place # "nowhere"
    /\ d.trouble # keys

\* The identity of the workspace: the local ARM_* values before the scope.
PrincipalResolves(d) ==
    d.arm \/ (d.scope = "shared" /\ ScopeReads(d, "workspace keys"))

\* The runtime stage of databricks_check, "process" here.
RuntimeStatus(place, pat) ==
    CASE place \notin {"notebook", "child"} -> "skip"
      [] place = "notebook"                 -> "pass"
      [] OTHER                              -> IF pat = "DATABRICKS_TOKEN" THEN "warn" ELSE "fail"

-----------------------------------------------------------------------------
(* auth_check: the hops *)

WorkspaceHop(d) ==
    Stage("workspace",
          IF AuthMethod(d) = "none" THEN "fail"
          ELSE IF /\ AuthMethod(d) = "notebook"
                  /\ RuntimeStatus(d.place, d.pat) = "fail" THEN "warn"
          ELSE IF d.place = "nowhere" THEN "fail" ELSE "pass")

BootstrapHop(d, live) ==
    IF d.scope # "shared" THEN Stage("bootstrap", "skip")
    ELSE IF d.parts = "no sdk" \/ ~(HasPat(d) \/ OnCluster(d)) THEN Stage("bootstrap", "fail")
    ELSE IF d.place = "child" /\ ~HasPat(d) THEN Stage("bootstrap", "warn")
    ELSE IF ~live THEN Stage("bootstrap", "pass")
    ELSE Asked("bootstrap", IF ScopeReads(d, "workspace keys") THEN "pass" ELSE "fail",
               "workspace keys")

PrincipalHop(d, live) ==
    IF ~d.arm /\ d.scope # "shared" THEN Stage("principal", "skip")
    ELSE IF ~live \/ d.arm THEN Stage("principal", "pass")
    ELSE Asked("principal", IF PrincipalResolves(d) THEN "pass" ELSE "fail",
               "workspace keys")

\* SharePoint's scope defaults to the workspace's.
HasSharePointScope(d) == d.scope \in {"own", "shared"}

IdentityStatus(d) == IF HasSharePointScope(d) \/ d.azure THEN "pass" ELSE "fail"

SharePointSecrets(name, d) ==
    IF ~HasSharePointScope(d) THEN Stage(name, "skip")
    ELSE Asked(name, IF ScopeReads(d, "sharepoint keys") THEN "pass" ELSE "fail",
               "sharepoint keys")

SharePointHop(d, live) ==
    IF live THEN SharePointSecrets("sharepoint", d)
    ELSE Stage("sharepoint", IdentityStatus(d))

\* The token is minted for SharePoint's own principal, or the shared identity.
Mints(d) ==
    /\ d.trouble # "graph token"
    /\ IF HasSharePointScope(d) THEN ScopeReads(d, "sharepoint keys") ELSE d.azure

TokenStage(name, d) ==
    Asked(name, IF ~Mints(d) THEN "fail" ELSE IF d.trouble = "roles" THEN "warn" ELSE "pass",
          "graph token")

GraphHop(d, live) ==
    IF ~live \/ d.parts = "no msal" THEN Stage("graph", "skip") ELSE TokenStage("graph", d)

\* get_azure_client: the shared identity, else the one in the scope.
LogsIn(d) ==
    /\ d.trouble # "vault login"
    /\ d.vault = "azuread" => /\ d.parts # "no msal"
                              /\ d.azure \/ (d.scope = "shared" /\ PrincipalResolves(d))

\* Mutant: a login through Azure passes without being tried.
VaultOffline(d, live) ==
    Stage("vault", CASE d.vault = "unset"   -> "skip"
                     [] d.vault = "no login" -> "fail"
                     [] d.vault = "azuread"  -> "pass"
                     [] OTHER                -> "warn")

\* A login that would be right is made, if the run is live.
VaultHop(d, live) ==
    IF live /\ VaultOffline(d, live).status = "pass"
    THEN Asked("vault", IF LogsIn(d) THEN "pass" ELSE "fail", "vault login")
    ELSE VaultOffline(d, live)

SecretReads(d) == LogsIn(d) /\ d.trouble # "gateway secret"

GatewayHop(d, live) ==
    IF d.vault = "unset" THEN Stage("gateway", "skip")
    ELSE IF d.vault = "token" THEN Stage("gateway", "fail")   \* no path resolves
    ELSE IF ~live THEN Stage("gateway", "pass")
    ELSE Asked("gateway", IF ~SecretReads(d) THEN "fail"
                          ELSE IF d.trouble = "base url" THEN "warn" ELSE "pass",
               "gateway secret")

Hops == <<"process", "workspace", "bootstrap", "principal", "sharepoint", "graph",
          "vault", "gateway">>

\* run_checks: a hop is skipped when one it stands on has failed.
AuthReport(d, live) ==
    LET first == <<Stage("process", RuntimeStatus(d.place, d.pat)), WorkspaceHop(d),
                   BootstrapHop(d, live)>>
        graph == IF SharePointHop(d, live).status = "fail" THEN Stage("graph", "skip")
                 ELSE GraphHop(d, live)
        vault == IF VaultHop(d, live).status = "fail"
                 THEN <<VaultHop(d, live), Stage("gateway", "skip")>>
                 ELSE <<VaultHop(d, live), GatewayHop(d, live)>>
    IN  IF first[3].status = "fail" THEN first \o SkippedAll(SubSeq(Hops, 4, 8))
        ELSE first \o <<PrincipalHop(d, live), SharePointHop(d, live), graph>>
             \o IF PrincipalHop(d, live).status = "fail"
                THEN SkippedAll(<<"vault", "gateway">>) ELSE vault

-----------------------------------------------------------------------------
(* sharepoint_check: each stage stops the ones after it *)

Later == <<"identity", "secrets", "token", "site", "base">>
Kinds == <<"complexity", "requests">>

SiteStage(name, s, call) ==
    Asked(name, IF s.trouble = call THEN "fail"
                ELSE IF s.trouble = "no folders" /\ name = "base" THEN "warn" ELSE "pass",
          call)

\* One item of each list, in the order of their names.
ListStages(s) ==
    [i \in DOMAIN Kinds |->
        IF s.lists[i] = "unset" THEN Stage(Kinds[i], "skip")
        ELSE Asked(Kinds[i], IF s.lists[i] = "refused" THEN "fail" ELSE "pass", Kinds[i])]

ConfigStage(s) ==
    Stage("config", IF ~s.site THEN "fail" ELSE IF s.lists[2] = "unset" THEN "warn" ELSE "pass")

ImportsStage(s) ==
    Stage("imports", IF s.extra THEN "pass" ELSE IF s.injected THEN "skip" ELSE "fail")

\* The stages up to the first that failed; the lists only if none did.
SharePointReport(s, offline) ==
    LET head   == <<ConfigStage(s), ImportsStage(s)>>
        stages == <<Stage("identity", IdentityStatus(s)), SharePointSecrets("secrets", s),
                    TokenStage("token", s), SiteStage("site", s, "drive"),
                    SiteStage("base", s, "base path")>>
        failed == {i \in DOMAIN stages : stages[i].status = "fail"}
        stop   == CHOOSE i \in failed : \A j \in failed : i <= j
    IN  IF offline \/ ImportsStage(s).status = "fail"
        THEN head \o SkippedAll(Append(Later, "lists"))
        ELSE IF failed = {} THEN head \o stages \o ListStages(s)
        ELSE head \o SubSeq(stages, 1, stop)
             \o SkippedAll(Append(SubSeq(Later, stop + 1, Len(Later)), "lists"))

-----------------------------------------------------------------------------
(* databricks_check: the stages do not depend on each other *)

SessionStatus(c) ==
    CASE c.session = "none"    -> "skip"
      [] c.session = "connect" -> "warn"
      [] c.session = "local"   -> IF c.place \in {"notebook", "child"} THEN "fail" ELSE "pass"
      [] OTHER                 -> "pass"

\* No client of its own: the runtime's is in use, if Spark is running.
PysparkStatus(c) ==
    IF c.session = "none" THEN "skip" ELSE IF c.client = "other" THEN "fail" ELSE "pass"

PackagesStatus(c) ==
    IF ~c.declared THEN "skip" ELSE IF c.missing THEN "fail" ELSE "pass"

ExtrasStatus(c) ==
    IF ~c.declared THEN "skip"
    ELSE IF c.delta /\ c.place \in {"notebook", "child"} THEN "fail" ELSE "pass"

LibrariesStatus(c) ==
    IF c.place \notin {"notebook", "child"} \/ c.sets = "none" THEN "skip"
    ELSE IF c.sets = "others" THEN "warn" ELSE "pass"

SecretsStage(c) ==
    IF c.scope # "shared" THEN Stage("secrets", "skip")
    ELSE Asked("secrets", IF ScopeReads(c, "workspace keys") THEN "pass" ELSE "fail",
               "workspace keys")

ClusterReport(c, secrets) ==
    <<Stage("runtime", RuntimeStatus(c.place, c.pat)), Stage("session", SessionStatus(c)),
      Stage("pyspark", PysparkStatus(c)), Stage("packages", PackagesStatus(c)),
      Stage("extras", ExtrasStatus(c)), Stage("libraries", LibrariesStatus(c))>>
    \o IF secrets THEN <<SecretsStage(c)>> ELSE << >>

-----------------------------------------------------------------------------
PreflightsInit ==
    \/ Case("auth check", Deployments)
    \/ Case("sharepoint check", SharePointSites)
    \/ Case("databricks check", Clusters)

PreflightsStep ==
    \/ Answer("auth check",
              [offline |-> AuthReport(input, FALSE), live |-> AuthReport(input, TRUE)])
    \/ Answer("sharepoint check",
              [offline |-> SharePointReport(input, TRUE),
               live    |-> SharePointReport(input, FALSE)])
    \/ Answer("databricks check",
              [offline |-> ClusterReport(input, FALSE), live |-> ClusterReport(input, TRUE)])

-----------------------------------------------------------------------------
(* What the reports have to be *)

StatusOf(report, name) ==
    LET i == SelectInSeq(report, LAMBDA stage : stage.name = name)
    IN  IF i = 0 THEN "absent" ELSE report[i].status

\* Would what a stage stands for work, whatever the report says?
Works(d, name) ==
    CASE name = "bootstrap" -> ScopeReads(d, "workspace keys")
      [] name = "vault"     -> LogsIn(d)
      [] name = "gateway"   -> SecretReads(d)
      [] name = "graph"     -> Mints(d)
      [] OTHER              -> ScopeReads(d, "sharepoint keys")

\* Every hop is in the report once, in order; nothing is contacted offline;
\* what fails offline does not pass live; what passes live of the hops that
\* need somebody else was tried and works; and a live run with Vault
\* configured that has no failure has read the gateway's credential
\* (auth_check.py:3-60, "an upstream hop has failed").
ChainIsTested ==
    LET live == result.live  offline == result.offline
    IN  /\ \A report \in {live, offline} : [i \in DOMAIN report |-> report[i].name] = Hops
        /\ \A i \in DOMAIN Hops :
               /\ offline[i].asked = "none"
               /\ offline[i].status = "fail" => live[i].status # "pass"
               /\ live[i].status = "pass"
                  /\ live[i].name \in {"bootstrap", "sharepoint", "graph", "vault", "gateway"}
                  => live[i].asked # "none" /\ Works(input, live[i].name)
        /\ input.vault # "unset" /\ ~Failing(live) => SecretReads(input)

\* The stages of a SharePoint report come in order with none missing; those
\* after a failed one are skipped, so the report names one cause; nothing
\* passes that was not tried; offline, nothing is.
SiteIsTested ==
    \A report \in {result.live, result.offline} :
        LET names == [i \in DOMAIN report |-> report[i].name]
            fixed == <<"config", "imports">> \o Later
        IN  /\ names \in {fixed \o Kinds, Append(fixed, "lists")}
            /\ Cardinality({i \in 2..7 : report[i].status = "fail"}) <= 1
            /\ \A i \in 2..7, j \in DOMAIN report :
                   report[i].status = "fail" /\ i < j => report[j] = Stage(names[j], "skip")
            /\ \A i \in 4..Len(report) :
                   report[i].status = "pass" => report[i].asked # "none"
            /\ report = result.offline => \A i \in DOMAIN report : report[i].asked = "none"

\* A cluster's stage passes only with something to read, the session does not
\* make a child process pass for the notebook (databricks_check.py:296-304),
\* and only the secrets stage asks anybody.
ClusterIsTested ==
    LET report == result.live
        Passes(name) == StatusOf(report, name) = "pass"
    IN  /\ \A i \in 1..6 : report[i] = result.offline[i] /\ report[i].asked = "none"
        /\ Passes("packages") \/ Passes("extras") => input.declared
        /\ Passes("pyspark") => input.session # "none"
        /\ Passes("libraries") => input.sets # "none"
        /\ Passes("runtime") => input.place = "notebook"
        /\ Passes("secrets") => report[7].asked # "none" /\ ScopeReads(input, "workspace keys")

\* A preflight does not say of anything that it works unless it has tried it.
PreflightsAreEarned ==
    /\ Answered("auth check") => ChainIsTested
    /\ Answered("sharepoint check") => SiteIsTested
    /\ Answered("databricks check") => ClusterIsTested
===============================================================================
