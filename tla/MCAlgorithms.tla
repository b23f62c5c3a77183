----------------------------- MODULE MCAlgorithms -----------------------------
(***************************************************************************)
(* The algorithms, each on every input of a small shape.                   *)
(***************************************************************************)
EXTENDS Batching, Notebooks, Hydration, Chunking, CrossReference, MCReports, MCReferences,
        MCValidation, MCPrompts

-----------------------------------------------------------------------------
(* Batching: the chunks a corpus is made of *)

MCChunks ==
    LET step == [kind |-> "step", reads |-> {}, creates |-> {}, updates |-> {},
                 implicit |-> FALSE, sets |-> {}, uses |-> {}, defines |-> {},
                 invokes |-> {}, args |-> {}, body |-> {}]
    IN  {[step EXCEPT !.creates = {"a"}],
         [step EXCEPT !.reads = {"a"}, !.creates = {"b"}],
         [step EXCEPT !.reads = {"a"}, !.updates = {"a"}],
         [step EXCEPT !.reads = {"a"}, !.creates = {"a"}],
         [step EXCEPT !.kind = "option", !.sets = {"m"}],
         [step EXCEPT !.uses = {"m"}],
         [step EXCEPT !.reads = {"a"}, !.uses = {"m"}],
         [step EXCEPT !.kind = "option"],
         [step EXCEPT !.defines = {"d"}],
         [step EXCEPT !.invokes = {"d"}, !.args = {"a"}],
         [step EXCEPT !.invokes = {"d"}, !.body = {"a"}],
         [step EXCEPT !.implicit = TRUE]}

-----------------------------------------------------------------------------
(* Notebooks: the outputs of a run *)

MCOutputs ==
    LET SasFile(folder, words, numbers) ==
            [folder |-> folder, words |-> words, numbers |-> numbers]
        one     == SasFile("x", <<"etl", "v1">>, << >>)
        away    == SasFile("y", <<"etl", "v1">>, << >>)
        counted == SasFile("x", <<"etl", "v1">>, <<2>>)
        other   == SasFile("x", <<"etl", "v2">>, << >>)
        Cell(kind, lang, tag, section) ==
            [kind |-> kind, lang |-> lang, tag |-> tag, section |-> section]
        Code(lang, tag) == Cell("code", lang, tag, "other")
        Output(sources, document, language, cells) ==
            [sources |-> sources, document |-> document, language |-> language,
             cells |-> cells]
    IN  {Output(<<s>>, TRUE, "sql", <<Code("unset", CrossFile)>>) :
             s \in {one, away, counted, other}}
        \cup
        {Output(<<s>>, FALSE, "sql", <<Cell("code", "sql", CrossFile, section),
                                       Code("pyspark", CrossFile)>>) :
             s \in {one, counted}, section \in {"translation", "other"}}
        \cup
        {Output(pair, TRUE, language,
                <<Code("unset", first), Cell("prose", "none", CrossFile, "other"),
                  Code("python", second)>>) :
             pair \in {<<one, away>>, <<counted, other>>, <<away, one>>},
             first \in {one, away, CrossFile}, second \in {one, counted, CrossFile},
             language \in {"python", "sql"}}

-----------------------------------------------------------------------------
(* Hydration: the files of a corpus, and the objects that give trouble *)

MCInA == <<"root", "a">>
MCInB == <<"root", "b">>
MCReads(libref, member)   == Ref("read", libref, member, FALSE, FALSE)
MCUpdates(libref, member) == Ref("update", libref, member, FALSE, FALSE)
MCWrites(libref, member)  == Ref("write", libref, member, FALSE, FALSE)

MCPrograms ==
    LET rawInA == Libname("raw", "base", FALSE, MCInA)
        rawInB == Libname("raw", "base", FALSE, MCInB)
        readX  == Step(<<MCReads("raw", "x")>>)
    IN  {<<rawInA, readX>>,
         <<rawInB, Step(<<MCReads("raw", "x"), MCReads("raw", "y")>>)>>,
         <<rawInA, Step(<<MCWrites("raw", "x")>>), readX>>,
         <<rawInA, Step(<<MCReads("raw", "y")>>),
           Step(<<MCReads("raw", "x"), MCWrites("raw", "x")>>)>>,
         <<Libname("v9", "base", FALSE, MCInA), Step(<<MCReads("v9", "x")>>)>>,
         <<rawInA, readX, rawInB, readX>>,
         <<rawInA, Libname("raw", "base", TRUE, MCInB), readX>>,
         <<rawInA, Libname("raw", "base", TRUE, MCInB),
           Step(<<Ref("read", "raw", "s", TRUE, FALSE)>>)>>,
         <<LibnameOf("all", FALSE, "raw"), Libname("all", "base", TRUE, MCInB),
           Step(<<MCReads("all", "x")>>)>>,
         <<LibnameOf("all", FALSE, "work"), Libname("all", "spde", TRUE, MCInA),
           Step(<<MCReads("all", "x"), MCReads("work", "t")>>)>>,
         <<Setenv("raw", MCInB), readX>>,
         <<Cd(<<"home">>), Cd(<<"root", "home">>), Libname("rel", "base", FALSE, <<"d">>),
           Infile(<<"f">>), Step(<<MCUpdates("rel", "x")>>)>>,
         <<Infile(<<"f">>), Infile(<<"root", "in", "f">>),
           Libname("raw", "base", FALSE, <<"d">>), readX>>,
         <<Libname("raw", "spde", FALSE, MCInB), readX>>,
         <<rawInA, LibnameOf("all", FALSE, "raw"), Libname("all", "spde", FALSE, MCInB),
           Step(<<MCReads("all", "x")>>)>>,
         <<Step(<<Ref("write", "raw", "x", FALSE, TRUE), MCUpdates("raw", "x")>>),
           Step(<<MCReads("new", "x")>>)>>}

MCTroubles ==
    {NoTrouble} \cup
    [what : {"empty", "unreadable"}, object : {Append(MCInA, "x"), <<"root", "in", "f">>}]

-----------------------------------------------------------------------------
(* Chunking: texts for the lexers, units for the rest *)

MCTexts ==
    LET tokens == {"w", "nl", ";", "'", "%'", "/*", "*/", "(", ")", "%str(", "*",
                   "call", "cards"}
    IN  UNION {[1..n -> tokens] : n \in 1..3}
        \cup {<<"%str(">> \o s \o <<")", ";", "w", ";">> :
                  s \in [1..3 -> {"w", ";", "'", "%'", "(", ")", "/*"}]}
        \cup {<<"cards", ";">> \o s \o <<";", "w">> :
                  s \in [1..3 -> {"w", ";", "nl", "'", "call"}]}

MCUnit(kind, words, ended) == [kind |-> kind, words |-> words, ended |-> ended]
MCEach(kinds) == [i \in DOMAIN kinds |-> MCUnit(kinds[i], 1, TRUE)]

MCUnits ==
    LET kinds == {"data", "proc", "sql", "ds2", "macro", "mend", "run", "quit", "let",
                  "body", "comment", "cards"}
    IN  {MCEach(k) : k \in UNION {[1..n -> kinds] : n \in 0..3}}
        \cup {Append(MCEach(k), MCUnit("body", 1, FALSE)) : k \in [1..2 -> kinds]}
        \cup {<<MCUnit("data", 1, TRUE)>> \o [i \in DOMAIN w |-> MCUnit("body", w[i], TRUE)] :
                  w \in [1..4 -> {1, 3, 5}]}
        \cup {MCEach(k) : k \in [1..5 -> {"sql", "run", "macro", "mend"}]}
        \cup {<<MCUnit(g, 1, TRUE)>> \o MCEach(k) :
                  g \in {"sql", "ds2"}, k \in [1..4 -> {"data", "run", "quit", "body"}]}

MCShort == {MCEach(k) : k \in [1..3 -> {"data", "run", "body", "let"}]}

-----------------------------------------------------------------------------
(* Cross-reference: mapping files of up to two rows, and what they meet *)

MCRows ==
    LET Row(marker, source, target) ==
            [marker |-> marker, source |-> source, target |-> target]
        rows == {Row("path", s, t) : s \in {<<"a">>, <<"a", "b">>, <<"A">>, <<"x", "b">>},
                                     t \in {<<"x">>, <<"a", "x">>, Absent}}
                \cup {Row("table", s, t) : s \in {<<"a">>, <<"a", "b">>, <<"b">>},
                                           t \in {<<"x", "y">>, <<"x", "y", "z">>}}
    IN  UNION {[1..n -> rows] : n \in 0..2}

MCUses ==
    LET Use(value) == [value |-> value, filesystem |-> TRUE, macro |-> FALSE]
    IN  {[ref |-> Use(v), name |-> <<"a", "b">>] :
             v \in {<<"a">>, <<"a", "b">>, <<"A", "b">>, <<"a", "b", "c">>, <<"c">>}}
        \cup {[ref |-> Use(<<"a">>), name |-> n] : n \in {<<"a", "c">>, <<"c", "b">>}}
        \cup {[ref |-> [Use(<<"a">>) EXCEPT !.filesystem = FALSE], name |-> <<"a", "b">>],
              [ref |-> [Use(<<"a">>) EXCEPT !.macro = TRUE], name |-> <<"a", "b">>]}

-----------------------------------------------------------------------------
Init ==
    \/ BatchingInit \/ NotebooksInit \/ PlanInit \/ RangesInit
    \/ ScanInit \/ ChunksInit \/ XrefInit
    \/ ReportsInit \/ ReferencesInit \/ ValidationInit \/ PromptsInit

Next ==
    \/ BatchingStep \/ NotebooksStep \/ PlanStep \/ RangesStep
    \/ ScanStep \/ ChunksStep \/ XrefStep
    \/ ReportsNext \/ ReferencesStep \/ ValidationStep \/ PromptsStep

Spec == Init /\ [][Next]_caseVars
===============================================================================
