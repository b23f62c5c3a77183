---------------------------- MODULE MCValidation ----------------------------
(***************************************************************************)
(* Small runs for Validation to score, and threads to rebuild.             *)
(***************************************************************************)
EXTENDS Validation

\* A judge that returns this list, or something that is harder to read.
Returns(list) == [parsed |-> {list}, text |-> << >>]
Says(text) == [parsed |-> {}, text |-> text]

MCExtracts ==
    {Returns(list) : list \in {<<"s">>, <<"s", "">>, <<"s", "s">>, << >>}}
    \cup {Silence, Says(<<Piece("refused", FALSE, << >>), Piece("object", FALSE, <<"s">>)>>),
          Says(<<Piece("refused", TRUE, << >>), Piece("object", TRUE, <<"s", "s">>)>>)}
MCVerdicts ==
    {Returns(list) : list \in UNION {[1..n -> {"yes", "no", "idk"}] : n \in 0..2}}
    \cup {Silence, Returns(<<"no", "yes", "yes">>)}
MCScores == {Returns(<<n>>) : n \in {0, 200, 500}} \cup {Silence, Returns(<< >>)}

MCUnit0 ==
    [answer |-> TRUE, prompt |-> TRUE, recorded |-> TRUE, context |-> 2, source |-> TRUE,
     plan |-> TRUE, steps |-> TRUE, grade |-> 3, replies |-> <<Silence, Silence, Silence, Silence>>]
MCAnswers ==
    {MCUnit0, [MCUnit0 EXCEPT !.answer = FALSE, !.grade = 5],
     [MCUnit0 EXCEPT !.prompt = FALSE, !.context = 1],
     [MCUnit0 EXCEPT !.context = 0, !.plan = FALSE, !.grade = 1],
     [MCUnit0 EXCEPT !.context = 3, !.source = FALSE]}
MCRuns ==
    LET run == [units |-> << >>, items |-> TRUE, prompts |-> FALSE, reference |-> TRUE,
                summary |-> TRUE, policy |-> <<TRUE, FALSE>>, notes |-> <<TRUE, FALSE>>,
                instructions |-> <<0, 3, 0>>]
    IN  {run, [run EXCEPT !.prompts = TRUE, !.reference = FALSE, !.notes = << >>,
                          !.instructions = <<0, 0, 0>>],
         [run EXCEPT !.items = FALSE, !.policy = << >>, !.summary = FALSE]}

\* A run's first item, alone or with another after it.
Heard(u, first, second) ==
    [u EXCEPT !.replies = <<first, second, Returns(<<"s", "s">>), Returns(<<"yes", "idk">>)>>]
MCOther == Heard(MCUnit0, Returns(<<"s">>), Returns(<<"yes", "no">>))
MCUnits1 == {Heard(u, f, s) : u \in MCAnswers, f \in MCExtracts, s \in MCVerdicts}
MCUnitLists == {<<u>> : u \in MCUnits1} \cup {<<u, MCOther>> : u \in MCUnits1}
MCJudged ==
    {j \in {[metric |-> m, run |-> [r EXCEPT !.units = list]] :
                 m \in Range(JudgedMetricNames) \ {"plan_adherence", "task_completion"},
                 r \in MCRuns, list \in MCUnitLists} :
        j.run.prompts => Len(j.run.units) = 2}

MCDirect ==
    {[metric |-> m, run |-> [r EXCEPT !.units = <<[u EXCEPT !.replies[2] = s]>> \o rest]] :
        m \in {"plan_adherence", "task_completion"}, r \in MCRuns, u \in MCAnswers, s \in MCScores,
        rest \in {<< >>, <<[MCUnit0 EXCEPT !.replies[2] = Returns(<<200>>)]>>}}

MCCode ==
    LET name  == <<"l", ".", "a">>
        Block(tag, parses, words) == [tag |-> tag, parses |-> parses, words |-> words]
        blocks == {Block("sql", {"sparksql"}, <<name>>),
                   Block("", {"pyspark"}, <<<<"a">>>>),
                   Block("python", {"pyspark"}, <<<<"l", ".", "a", "b">>>>),
                   Block("sas", {}, <<<<"b">>>>), Block("sql", {}, <<<<"b", ".", "a">>>>)}
        Section(heading, list) == [heading |-> heading, blocks |-> list]
        lists == UNION {[1..n -> blocks] : n \in 0..2}
        answers == {<<Section("translation", l)>> : l \in lists}
                   \cup {<<Section("other", l)>> : l \in lists}
                   \cup {<<Section("analysis", <<b>>), Section("translation", <<c>>),
                           Section("translation", <<b>>)>> : b \in blocks, c \in blocks}
                   \cup {<< >>}
        run == [items |-> <<{name}>>, prompts |-> 1, answers |-> << >>, terms |-> << >>,
                golden |-> << >>]
        runs == {run, [run EXCEPT !.items = << >>, !.prompts = 0],
                 [run EXCEPT !.items = << {}, {name} >>, !.terms = <<"a", "b">>],
                 [run EXCEPT !.terms = <<"a">>, !.golden = <<name, <<"a">>>>]}
        scored == [chosen : BOOLEAN, own : {"sparksql"}, translated : {"none", "pyspark"}]
                  \cup {[chosen |-> FALSE, own |-> "pyspark", translated |-> "none"]}
    IN  {[run |-> [r EXCEPT !.answers = <<a>>]] @@ s : r \in runs, a \in answers, s \in scored}
        \cup {[run |-> [r EXCEPT !.answers = <<a, b>>]] @@ s :
                 r \in runs, s \in scored,
                 a \in {<< >>, <<Section("translation", <<Block("sql", {"sparksql"}, <<name>>)>>)>>},
                 b \in {<<Section("translation", <<c>>)>> : c \in blocks}}

MCMatches ==
    UNION {{[extracted |-> n, expected |-> m, alike |-> f] :
               f \in [(1..n) \X (1..m) -> {100, 216, 360}]} : n \in 0..2, m \in 0..3}

MCLeaks ==
    {[note |-> n, words |-> w] :
        n \in {<<"a">>, <<"a", "b">>, <<"a", "b", "a">>, <<"a", "b", "b", "a", "a">>},
        w \in UNION {[1..n -> {"a", "b", "c"}] : n \in 0..5}}

MCStored ==
    LET results == {<<NotScored("memory_leakage")>>, <<Scored("target_syntax", Whole)>>,
                    <<Scored("faithfulness", 200), NotScored("memory_leakage")>>}
        Of(item, index, r) == [item |-> item, index |-> index, results |-> r]
    IN  {{Of("a", i, r[1]), Of("b", j, r[2]), Of("c", 3 - i - j, r[3])} :
            r \in [1..3 -> results], i \in {0, 1}, j \in {2}}
        \cup {{Of("a", 2, r[1]), Of("b", 1, r[2])} : r \in [1..2 -> results]}

MCThreads ==
    {[ok |-> ok, earlier |-> e, dropped |-> d, covered |-> c, opening |-> opening,
      notes |-> [own |-> {"", "x"}, other |-> {"y", ""}, third |-> {"x"}]] :
        ok \in UNION {[1..n -> BOOLEAN] : n \in 1..3}, e \in 0..1, d \in 0..1, c \in 0..3,
        opening \in {<< >>, <<Message("ai", 0)>>, <<Message("tool", 0), Message("ai", 0)>>}}

MCSuites ==
    [names : {MemoryMetricNames}, asked : SUBSET Range(MemoryMetricNames)]
    \cup [names : {JudgedMetricNames},
          asked : {{a, b, "hallucination"} : a \in Range(JudgedMetricNames),
                                             b \in {"task_completion", "unheard_of"}}]
=============================================================================
