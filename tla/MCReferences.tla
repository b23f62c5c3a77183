---------------------------- MODULE MCReferences ----------------------------
(***************************************************************************)
(* Programs of a few statements for References.                            *)
(***************************************************************************)
EXTENDS References

ValA == <<<<"a">>>>
ValB == <<<<"b">>>>
RefX == <<<<"&", "x">>>>
RefY == <<<<"&", "y">>>>
Let(v, value) == [var |-> v, value |-> value]
NoArgs == [v \in {} |-> << >>]

\* ValA macro first, then what may come of calling it, then a step that reads.
MCMacroPrograms ==
    LET macro == [kind |-> "macro", name |-> "m", params |-> NoArgs, lets |-> << >>,
                  globals |-> {}, locals |-> {}, conditional |-> FALSE, produces |-> {}]
        macros == {[macro EXCEPT !.lets = <<Let("x", ValB)>>],
                   [macro EXCEPT !.lets = <<Let("x", ValB), Let("y", RefX)>>, !.globals = {"x"}],
                   [macro EXCEPT !.lets = <<Let("x", ValB), Let("y", RefX)>>, !.locals = {"x"}],
                   [macro EXCEPT !.lets = <<Let("y", RefX)>>, !.params = [v \in {"x"} |-> << >>],
                                 !.globals = {"y"}],
                   [macro EXCEPT !.lets = <<Let("y", RefX)>>, !.params = [v \in {"x"} |-> ValA]],
                   [macro EXCEPT !.lets = <<Let("x", ValB), Let("y", RefX)>>, !.conditional = TRUE],
                   [macro EXCEPT !.produces = {"x"}]}
        reads == [kind |-> "step", reads |-> <<RefX, RefY>>, produces |-> << >>]
        rest  == {[kind |-> "call", name |-> "m", args |-> NoArgs],
                  [kind |-> "call", name |-> "m", args |-> [v \in {"x"} |-> RefY]],
                  reads, [reads EXCEPT !.produces = <<Let("x", << >>)>>],
                  [reads EXCEPT !.produces = <<Let("y", ValB)>>]}
                 \cup {[kind |-> "let", lets |-> <<l>>] :
                          l \in {Let("x", ValA), Let("x", << >>), Let("y", RefX), Let("y", ValA)}}
    IN  {<<m>> \o r \o <<reads>> : m \in macros, r \in [1..3 -> rest]}

AStep(names) == [kind |-> "step", reads |-> << >>, produces |-> << >>, tables |-> {},
                found |-> [i \in DOMAIN names |-> [raw |-> names[i], name |-> names[i]]]]

MCLibraryPrograms ==
    LET one  == <<<<"t">>>>
        work == <<WorkLib, Dot, <<"t">>>>
        statements ==
            {[kind |-> "let", lets |-> <<l>>] :
                 l \in {Let("x", <<PermLib>>), Let("x", <<WorkLib>>), Let("y", work), Let("y", one)}}
            \cup {[kind |-> "user", how |-> "libname"], [kind |-> "user", how |-> "clear"],
                  [kind |-> "user", how |-> "option", value |-> <<PermLib>>],
                  [kind |-> "user", how |-> "option", value |-> RefX],
                  [kind |-> "engine", lib |-> <<PermLib>>, schema |-> ValA],
                  [kind |-> "engine", lib |-> <<PermLib>>, schema |-> RefX],
                  [kind |-> "clear", lib |-> <<PermLib>>],
                  [kind |-> "view", lib |-> <<PermLib>>, schema |-> ValB, tables |-> {},
                   found |-> << >>],
                  AStep(<<one, RefY>>)}
    IN  {p \o <<AStep(<<one, work, RefY, <<PermLib, Dot, <<"t">>>>>>)>> : p \in [1..3 -> statements]}

MCPlacePrograms ==
    LET use(m) == [kind |-> "use", refs |-> <<[fref |-> "f", member |-> m, place |-> "none"]>>]
        statements ==
            {[kind |-> "filename", fref |-> f, places |-> p, device |-> d] :
                 f \in {"f", "g"}, p \in {<<"one">>, <<"one", "two">>}, d \in {"none"}}
            \cup {[kind |-> "filename", fref |-> "f", places |-> << >>, device |-> d] :
                      d \in {"none", "temp"}}
            \cup {[kind |-> "clear all"], [kind |-> "setenv", fref |-> "f", place |-> "three"],
                  use(TRUE), use(FALSE)}
    IN  {p \o <<use(FALSE)>> : p \in [1..4 -> statements]}

MCOdsPrograms ==
    LET Of(kind, file) == [asks |-> {}, writes |-> {}, runGroup |-> FALSE, kind |-> kind,
                           file |-> file]
        ask(o, k) == [object |-> o, keep |-> k, role |-> "WRITE"]
        request(asks) == [Of("request", 1) EXCEPT !.asks = asks]
        statements == {request({ask("s", FALSE)}), request({ask("t", TRUE)}),
                       request({ask("s", FALSE), ask("u", TRUE)}),
                       Of("close", 1), Of("data", 1), Of("proc", 1), Of("proc", 2),
                       [Of("proc", 1) EXCEPT !.runGroup = TRUE], Of("call", 1), Of("slice", 1)}
    IN  {p \in [1..4 -> statements] : /\ p[1].kind # "slice"
                                      /\ \A i \in 2..4 : p[i].kind = "slice" =>
                                            p[i - 1].kind \in {"proc", "slice"}
                                            /\ p[i - 1].file = 1}
=============================================================================
