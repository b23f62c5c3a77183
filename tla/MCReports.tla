------------------------------ MODULE MCReports ------------------------------
(***************************************************************************)
(* The algorithms that inspect, score and report, each on every input of a *)
(* small shape.                                                            *)
(***************************************************************************)
EXTENDS Workspace, ComplexityScore, Settings, RequestLists

-----------------------------------------------------------------------------
(* Preflights: what is configured, and the one thing that is wrong *)

MCDeployments ==
    [place : {"elsewhere", "nowhere", "notebook", "child"},
     pat : {"unset", "token", "DATABRICKS_TOKEN"}, arm : BOOLEAN, azure : BOOLEAN,
     scope : {"none", "own", "shared"}, parts : {"all", "no sdk", "no msal"},
     vault : {"unset", "no login", "token", "token and path", "azuread"},
     trouble : {"none", "workspace keys", "sharepoint keys", "graph token", "roles",
                "vault login", "gateway secret", "base url"}]

MCSites ==
    [place : {"notebook"}, pat : {"unset"}, arm : {FALSE}, parts : {"all"},
     azure : BOOLEAN, scope : {"none", "own"}, extra : BOOLEAN, injected : BOOLEAN,
     site : BOOLEAN, lists : [1..2 -> {"unset", "read", "refused"}],
     trouble : {"none", "sharepoint keys", "graph token", "roles", "drive",
                "base path", "no folders"}]

MCClusters ==
    [place : {"elsewhere", "notebook", "child"}, pat : {"unset", "DATABRICKS_TOKEN"},
     parts : {"all"}, session : {"none", "connect", "local", "full"},
     client : {"none", "same", "other"}, declared : BOOLEAN, missing : BOOLEAN,
     delta : BOOLEAN, sets : {"none", "others", "this"}, scope : {"none", "shared"},
     trouble : {"none", "workspace keys"}]

-----------------------------------------------------------------------------
(* Dependencies: corpora of up to three chunks, graphs of four files, ids *)

MCFileChunks ==
    LET chunk   == [reads |-> {}, creates |-> {}, bodyReads |-> {}, bodyCreates |-> {},
                    defines |-> {}, calls |-> {}, sets |-> {}, uses |-> {}, librefs |-> {}]
        table   == [name |-> <<"lib", ".", "a", "b">>, list |-> FALSE]
        prefix  == [name |-> <<"lib", ".", "a">>, list |-> TRUE]
        library == [name |-> <<"lib", ".">>, list |-> TRUE]
    IN  {[chunk EXCEPT !.reads = {d}] : d \in {table, prefix, library}}
        \cup {[chunk EXCEPT !.creates = {d}] : d \in {table, library}}
        \cup {[chunk EXCEPT !.reads = {table}, !.creates = {table}],
              [chunk EXCEPT !.bodyReads = {table}], [chunk EXCEPT !.bodyCreates = {table}],
              [chunk EXCEPT !.librefs = {"lib"}], [chunk EXCEPT !.defines = {"m"}],
              [chunk EXCEPT !.calls = {"m", Autocall}], [chunk EXCEPT !.sets = {"v"}],
              [chunk EXCEPT !.uses = {"v"}]}

MCFileCorpora ==
    LET OneChunk(c) == <<c>>
    IN  {<<OneChunk(c)>> : c \in MCFileChunks}
        \cup {<<OneChunk(c[1]), OneChunk(c[2]), OneChunk(c[3])>> : c \in [1..3 -> MCFileChunks]}
        \cup {<<OneChunk(c[1]), <<c[2], c[3]>>>> : c \in [1..3 -> MCFileChunks]}

MCGraphs == SUBSET {e \in (1..4) \X (1..4) : e[1] # e[2]}

MCIdLists ==
    LET x == <<"x">>  second == <<"x", 2>>  a == <<"a">>  b == <<"b">>
        ids == {[path |-> p, spelled |-> "/"] :
                    p \in {<<x>>, <<a, x>>, <<b, x>>, <<b, a, x>>, <<a, second>>}}
               \cup {[path |-> p, spelled |-> "other"] : p \in {<<x>>, <<a, x>>}}
    IN  {s \in UNION {[1..n -> ids] : n \in 1..4} : IsInjective(s)}

-----------------------------------------------------------------------------
(* Scores: two files and comments between their chunks; points; profiles *)

MCScored ==
    LET table == [name |-> <<"lib", ".", "a", "b">>, list |-> FALSE]
        chunk == [reads |-> {}, creates |-> {}, bodyReads |-> {}, bodyCreates |-> {},
                  defines |-> {}, calls |-> {}, sets |-> {}, uses |-> {}, librefs |-> {},
                  source |-> 1, kind |-> "DATA_STEP", lines |-> {1, 2}, steps |-> 1,
                  constructs |-> {}, updates |-> {}, unclosed |-> FALSE]
        chunks == {chunk, [chunk EXCEPT !.kind = "COMMENT_BLOCK", !.lines = 1..9],
                   [chunk EXCEPT !.kind = "MACRO_DEFINITION", !.defines = {"m"}],
                   [chunk EXCEPT !.reads = {table}, !.steps = 3],
                   [chunk EXCEPT !.creates = {table}, !.updates = {table}],
                   [chunk EXCEPT !.creates = {table}, !.constructs = {"hash"}],
                   [chunk EXCEPT !.lines = 2..40, !.steps = 30, !.constructs = {"hash", "sort"}],
                   [chunk EXCEPT !.calls = {"m"}, !.unclosed = TRUE, !.constructs = {"hash"}]}
        all == chunks \cup {[c EXCEPT !.source = 2] : c \in chunks}
    IN  {<<[batch |-> TRUE, chunks |-> <<a, b>>], [batch |-> s, chunks |-> <<c>>]>> :
             a \in all, b \in all, c \in all, s \in BOOLEAN}

MCScale == {10 * n : n \in 0..13} \X {10 * n : n \in 0..21}

MCProfiles ==
    LET entries == UNION {[1..n -> [key : {"x", "X"}, spec : {"DIRECT", "MANUAL"}]] : n \in 0..1}
        anchors == {[raw |-> 0, dimensions |-> 0], [raw |-> 200, dimensions |-> 0],
                    [raw |-> 200, dimensions |-> 200]}
        docs == [entries : entries, groups : {<< >>, <<"HARD">>}, anchor : anchors,
                 extends : {"none", "sparksql", "pyspark"}, broken : {FALSE}]
    IN  {[p \in {"sparksql", "pyspark"} |-> IF p = "pyspark" THEN d[1] ELSE d[2]] :
             d \in docs \X docs}

-----------------------------------------------------------------------------
(* Settings: three files, a key of each sort; runs, identities *)

MCSettingSites ==
    LET says == {"unset", "wrong", "refused", "a", "b"}
        none == [state |-> "absent", base |-> "unset", roles |-> "unset", overlay |-> "unset"]
        files == [state : {"read"}, base : says, roles : {"named"}, overlay : says]
                 \cup {[none EXCEPT !.state = "read", !.base = "a", !.roles = "wrong"], none}
                 \cup {[none EXCEPT !.state = s] : s \in {"unreadable", "stale", "odd section"}}
        few  == {none, [none EXCEPT !.state = "read", !.base = "b"], [none EXCEPT !.state = "stale"]}
        llm  == [of : {"llm"}, checked : BOOLEAN, hard : {"unset", "d"}]
    IN  [named : {<<f>> : f \in files}, cwd : few \cup {[none EXCEPT !.state = "unreadable"]},
         root : few, key : llm, role : BOOLEAN, env : {"unset", "e"}, explicit : {"unset"}]
        \cup [named : {<< >>}, cwd : files, root : few, key : llm, role : BOOLEAN,
              env : {"unset", "e"}, explicit : {"unset", "x"}]
        \cup [named : {<< >>}, cwd : files, root : few, role : {FALSE}, env : {"unset"},
              key : [of : {"memory"}, checked : {TRUE}, hard : {"unset", "d"}],
              explicit : {"unset"}]

MCClientSites ==
    LET secrets == [token : {"absent", "blank", "filled"}, api_key : {"absent", "filled"},
                    endpoint : {"absent", "filled"}, version : {"blank", "filled"}]
        vaults == [address : BOOLEAN, token : BOOLEAN, approle : BOOLEAN, app : BOOLEAN,
                   path : BOOLEAN]
        ready  == [address |-> TRUE, token |-> TRUE, approle |-> TRUE, app |-> TRUE, path |-> TRUE]
        filled == [token |-> "filled", api_key |-> "filled", endpoint |-> "filled",
                   version |-> "filled"]
        run == [asks |-> "gateway", vault |-> ready, secret |-> filled, trouble |-> FALSE,
                field |-> "unset", model |-> [prefix |-> "none", bare |-> "ID"],
                provider |-> "unset", pinned |-> "unset", url |-> "file", slash |-> FALSE,
                headers |-> {}, env |-> "unset", version |-> "file", cert |-> "unset",
                extras |-> FALSE, rate |-> "unset"]
    IN  {[run EXCEPT !.asks = a, !.vault = v, !.secret = s] :
             a \in {"gateway", "vault secret", "no gateway"}, v \in vaults, s \in secrets}
        \cup {[run EXCEPT !.asks = a, !.vault = v, !.secret.token = s, !.trouble = t, !.field = f] :
             a \in {"gateway", "vault secret"}, v \in vaults, s \in {"blank", "filled"},
             t \in BOOLEAN, f \in {"unset", "token"}}
        \cup {[run EXCEPT !.asks = a, !.model = [prefix |-> p, bare |-> b], !.provider = o,
                          !.pinned = c, !.slash = s] :
             a \in {"gateway", "no gateway"}, p \in {"none", "", "anthropic", "openai", "other"},
             b \in {"id", "ID", "blank"}, o \in {"unset", "google", "anthropic", "other"},
             c \in {"unset", "auto", "native", "openai_compatible"}, s \in BOOLEAN}
        \cup {[run EXCEPT !.asks = a, !.headers = h, !.url = u, !.cert = c, !.rate = r,
                          !.version = v, !.env = e, !.provider = o] :
             a \in {"gateway", "no gateway"}, h \in SUBSET {"api-key", "ai-gateway-version", "trace"},
             u \in {"unset", "file"}, c \in {"unset", "missing", "there"}, r \in {"unset", "own"},
             v \in {"unset", "file"}, e \in {"unset", "env"}, o \in {"openai", "anthropic"}}

MCIdentitySites ==
    [principal : BOOLEAN, tenant : {"unset", "own"}, client : {"unset", "own"},
     secret : {"unset", "own"}, cert : {"unset", "readable", "unreadable"}, thumb : BOOLEAN,
     flow : {"unset", "wrong", "client_credentials", "device_code"},
     scopesEnv : {"unset"}, scopes : {"a"}, proxies : {"refused", "a"},
     skip : {FALSE}, cacert : {"unset"}, vaultVerify : {"bundle"}, azureEnv : {"unset"},
     azureVerify : {"unset"}]
    \cup [principal : BOOLEAN, tenant : {"own"}, client : {"own"}, secret : {"own"},
          cert : {"unset"}, thumb : {FALSE}, flow : {"unset"}, scopesEnv : {"unset", "e"},
          scopes : {"unset", "wrong", "refused", "a"}, proxies : {"unset"}, skip : BOOLEAN,
          cacert : {"unset", "bundle"}, vaultVerify : {"unset", "blank", "wrong", "off", "bundle"},
          azureEnv : {"unset", "blank", "off", "other"},
          azureVerify : {"unset", "blank", "wrong", "off", "other"}]

-----------------------------------------------------------------------------
(* Lists: paths of up to two parts, folders of up to two files, two rows *)

MCPathSites ==
    LET marks == {"/", " ", "a"}
        texts == UNION {[1..n -> marks] : n \in 0..3} \cup {<<"a", "/", "b", "/", "a">>,
                      <<"/", "a", "/", "b">>, <<"a", "/", "b", "/">>, <<"a", " ", "/", "b">>}
        bases == {<< >>, <<"L">>, <<"L", "/">>, <<"L", "/", "b">>, <<" ", "/", "L", "/", "/", "b">>,
                  <<"b", "/", "L", "/">>, <<"a", "L">>}
    IN  [base : bases, parts : {<< >>} \cup {<<t>> : t \in texts} \cup texts \X texts]

MCFolderSites ==
    LET names == {<<"s">>, <<"s", ".", "a">>, <<"s", ".", "A">>, <<"s", ".", "b", ".", "a">>,
                  <<".", "a">>, <<"s", ".">>}
        files == [name : names, folder : BOOLEAN]
    IN  [entries : {<<e[1], e[2]>> : e \in {p \in files \X files : p[1].name # p[2].name}}
                   \cup {<<e>> : e \in files},
         extensions : SUBSET {<<"a">>, <<".", "A">>, <<"b">>}, every : BOOLEAN]

MCRequestSites ==
    LET rows == [id : {<< >>, <<"1">>, <<"2">>}, application : {<<"a">>, <<"A", " ">>, <<" ">>, <<"b">>},
                 status : {<< >>, <<"done">>, <<"done", " ">>}, validate : {[is |-> "text", of |-> 1]}]
        two  == {p \in rows \X rows : p[1].id # p[2].id \/ p[1].id = << >>}
        items == [request : {-1, 1, 2}, model : {<< >>, <<" ", "m">>, <<"n">>}]
        asks(by, wanted) == [by |-> by, wanted |-> wanted]
        flags == [is : {"absent", "bool", "int", "text", "other"}, of : 0..2]
    IN  [rows : {<<p[1]>> : p \in two}, items : {<< >>} \cup items \X items, every : BOOLEAN,
         asks : {asks("app", <<"a">>), asks("all", << >>)}]
        \cup [rows : two, items : {<<[request |-> 1, model |-> <<"m">>]>>}, every : BOOLEAN,
              asks : {asks("id", <<"1", " ">>), asks("app", <<" ", "A">>), asks("all", << >>)}]
        \cup [rows : {<<[id |-> <<"1">>, application |-> <<"a">>, status |-> << >>, validate |-> f]>> :
                          f \in flags},
              items : {<< >>}, every : {TRUE}, asks : {asks("all", << >>)}]

MCWorkspaces ==
    [place : {"elsewhere", "notebook", "child"}, host : BOOLEAN, hostAs : {"bare", "https"},
     pat : {"unset", "token", "DATABRICKS_TOKEN"}, arm : BOOLEAN, azure : BOOLEAN,
     scope : BOOLEAN, refused : BOOLEAN, resource : BOOLEAN, path : BOOLEAN,
     warehouse : BOOLEAN, catalog : {TRUE}, schema : {FALSE}, table : {<<"t">>}]
    \cup [place : {"elsewhere"}, host : {TRUE}, hostAs : {"bare"}, pat : {"token"},
          arm : {FALSE}, azure : {FALSE}, scope : {FALSE}, refused : {FALSE},
          resource : {FALSE}, path : {TRUE}, warehouse : {FALSE}, catalog : BOOLEAN,
          schema : BOOLEAN, table : {<<"t">>, <<"s", "t">>, <<"c", "s", "t">>}]

-----------------------------------------------------------------------------
ReportsInit == PreflightsInit \/ DependenciesInit \/ ScoreInit \/ SettingsInit \/ ListsInit
               \/ WorkspaceInit
ReportsNext == PreflightsStep \/ DependenciesStep \/ ScoreStep \/ SettingsStep \/ ListsStep
               \/ WorkspaceStep

\* What is found out of a deployment holds: by a preflight, and by what its
\* settings resolve to.
ReportsAreEarned == PreflightsAreEarned /\ SettingsHold /\ ListsHold /\ WorkspaceHolds
===============================================================================
