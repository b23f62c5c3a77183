----------------------------- MODULE Workspace -----------------------------
(***************************************************************************)
(* app_config.databricks: the identity a workspace call is made with, the  *)
(* parameters of a SQL connection and of the SDK's client, and the full    *)
(* name of a table.  A case is a configuration; its answer is what each    *)
(* of them gives, << >> where it raises.                                   *)
(***************************************************************************)
EXTENDS Preflights

CONSTANT WorkspaceSites

-----------------------------------------------------------------------------
(* Identities.                                                             *)

\* _can_read_secret_scope: a scope, and something that may authenticate its
\* read: a cluster's process, be it a child that has no credential, or a token.
CanReadSecretScope(d) == d.scope /\ (OnCluster(d) \/ HasPat(d))

\* service_principal of the default keys: ARM_* before the scope.
WorkspacePrincipal(d) ==
    CASE d.arm   -> <<"arm">>
      [] ~d.arm /\ d.scope ->
             IF /\ HasPat(d) \/ d.place = "notebook"
                /\ OnCluster(d) \/ d.host
                /\ ~d.refused
             THEN <<"scope">> ELSE << >>
      [] OTHER   -> << >>

\* entra_token: the workspace's principal where it can be had, else azure's.
EntraToken(d) ==
    IF d.arm \/ CanReadSecretScope(d) THEN WorkspacePrincipal(d)
    ELSE IF d.azure THEN <<"azure">> ELSE << >>

\* get_token; <<"none">> is the runtime's own.
WorkspaceToken(d) ==
    CASE AuthMethod(d) = "notebook" -> <<"none">>
      [] AuthMethod(d) = "pat"      -> <<"pat">>
      [] AuthMethod(d) = "none"     -> << >>
      [] OTHER                      -> EntraToken(d)

\* workspace_headers: the identity of the management token, <<"none">> without.
WorkspaceHeaders(d) ==
    IF ~d.resource \/ AuthMethod(d) \notin {"azure-sp", "azure-ad"} THEN <<"none">>
    ELSE EntraToken(d)

\* _normalise_host.
NormaliseHost(d) == IF d.hostAs = "bare" THEN <<"https">> ELSE <<d.hostAs>>

SqlHttpPath(d) ==
    IF d.path THEN <<"path">> ELSE IF d.warehouse THEN <<"warehouse">> ELSE << >>

\* sql_connect_params: for a connection from outside the workspace.
SqlConnectParams(d) ==
    IF \/ ~d.host \/ SqlHttpPath(d) = << >>
       \/ WorkspaceToken(d) \in {<< >>, <<"none">>} \/ WorkspaceHeaders(d) = << >>
    THEN << >>
    ELSE <<[token |-> Head(WorkspaceToken(d)), headers |-> Head(WorkspaceHeaders(d)),
            path |-> Head(SqlHttpPath(d))]>>

\* get_workspace_client: the SDK is handed the principal, or a token.
WorkspaceClient(d) ==
    CASE ~d.host -> << >>
      [] d.host /\ AuthMethod(d) = "azure-sp" ->
             IF WorkspacePrincipal(d) = << >> THEN << >>
             ELSE <<[logs |-> "itself", as |-> Head(WorkspacePrincipal(d)),
                     scheme |-> Head(NormaliseHost(d)), resource |-> d.resource]>>
      [] OTHER ->
             IF WorkspaceToken(d) = << >> THEN << >>
             ELSE <<[logs |-> "token", as |-> Head(WorkspaceToken(d)),
                     scheme |-> Head(NormaliseHost(d)), resource |-> FALSE]>>

\* full_table_name.
FullTableName(d, name) ==
    IF Len(name) > 1 THEN name
    ELSE (IF d.catalog THEN <<"catalog">> ELSE << >>)
         \o (IF d.schema THEN <<"schema">> ELSE << >>) \o name

WorkspaceOf(d) ==
    [sql |-> SqlConnectParams(d), client |-> WorkspaceClient(d),
     entra |-> EntraToken(d), table |-> FullTableName(d, d.table)]

-----------------------------------------------------------------------------
WorkspaceInit == Case("workspace", WorkspaceSites)
WorkspaceStep == Answer("workspace", WorkspaceOf(input))

-----------------------------------------------------------------------------
(* Properties.                                                             *)

\* The one identity a deployment's workspace is addressed by.
Addressed(d) ==
    IF OnCluster(d) THEN "none" ELSE IF HasPat(d) THEN "pat"
    ELSE IF d.arm THEN "arm" ELSE "azure"

\* A SQL connection is made from outside only, with a host and a path; its
\* bearer token and its management token are the same identity's, and a token
\* of a user's goes without the headers that are a principal's; the SDK's
\* client works as that identity too, never as a principal out of the scope; a
\* table's name is qualified once (sql_connect_params, workspace_headers,
\* get_workspace_client, full_table_name).
OneIdentity ==
    /\ \A i \in DOMAIN result.sql :
           LET p == result.sql[i]
           IN  /\ ~OnCluster(input) /\ input.host
               /\ p.token = Addressed(input)
               /\ p.headers \in {"none", p.token}
               /\ p.token = "pat" => p.headers = "none"
               /\ p.token # "pat" /\ input.resource => p.headers = p.token
               /\ result.client # << >>
    /\ \A i \in DOMAIN result.client :
           result.client[i].as = Addressed(input) /\ result.client[i].scheme = "https"
    /\ result.client = << >> => ~input.host \/ AuthMethod(input) = "none"
    /\ FullTableName(input, result.table) = result.table \/ Len(result.table) = 1

\* A workspace is addressed as one identity, whichever connection is opened.
WorkspaceHolds == Answered("workspace") => OneIdentity
=============================================================================
