------------------------------ MODULE MCPrompts ------------------------------
(***************************************************************************)
(* Small histories, instructions, corpora and documents.                   *)
(***************************************************************************)
EXTENDS PromptBuilder

MCHistories ==
    {[costs |-> c, lexical |-> l, dense |-> d, rerank |-> r, topK |-> k, keepLast |-> n,
      limit |-> limit] :
        c \in {<<1, 1, 1, 1>>, <<3, 1, 1, 3>>, <<1, 3, 2, 1>>}, l \in {<<0, 0, 0, 0>>, <<1, 0, 2, 3>>, <<3, 2, 1, 0>>, <<2, 2, 1, 0>>},
        d \in {<< >>, <<1, 2, 3, 0>>, <<0, 0, 0, 1>>}, r \in {<< >>, <<1, 3, 2, 0>>},
        k \in 1..3, n \in 0..2, limit \in {-1, 2, 4, 6}}

MCInstructionSets ==
    LET Group(word, tokens) == [word |-> word, tokens |-> tokens]
        bare   == {Group("topic", << >>), Group("example", << >>), Group("soon", << >>)}
        keyed  == {Group(w, t) : w \in {"when:", "example:", "category:"},
                                 t \in {<<"a">>, <<"bad">>, <<"b", "bad">>, <<"">>}}
        filter == {Group("lang", <<"pyspark">>), Group("kind", <<"step", "">>),
                   Group("meta", <<"hazard">>), Group("lang", << >>)}
        Section(groups) == [groups |-> groups, blank |-> FALSE]
        File(folder, name, sections, preamble) ==
            [folder |-> folder, name |-> name, sections |-> sections, preamble |-> preamble]
        lists == {<<g>> : g \in bare \cup keyed} \cup {<<g, f>> : g \in bare \cup keyed, f \in filter}
                 \cup {<<g, h>> : g \in keyed, h \in bare \cup keyed}
                 \cup {<<f, g, h>> : f \in filter, g \in filter, h \in keyed}
        empty == [groups |-> <<Group("soon", << >>)>>, blank |-> TRUE]
        more  == {<<Section(<<Group("kind", <<"step">>)>>)>>, <<empty>>}
    IN  {[dir |-> "there", path |-> "unset",
          files |-> <<File(folder, name, <<Section(l)>> \o rest, FALSE),
                      File(<< >>, "rules.md", << >>, TRUE)>>] :
            l \in lists, rest \in more, name \in {"rules.md", "README.md"},
            folder \in {<< >>, <<"pyspark">>, <<"_common">>}}
        \cup {[dir |-> d, path |-> p, files |-> <<File(<<"pyspark">>, "rules.md", <<Section(l)>>, TRUE)>>] :
                  d \in {"unset", "gone"}, p \in {"unset", "gone", "there"}, l \in lists}

MCSelections ==
    LET Chunk(scope, keys, cost) ==
            [scope |-> scope, keys |-> keys, lang |-> {}, kind |-> {}, meta |-> {},
             path |-> "p", cost |-> cost]
        Ref(keys, cost) == Chunk("reference", keys, cost)
        corpora == {<<Ref({"a"}, 2), Ref({"a"}, 1), Ref({"b"}, 2), Ref({}, 1)>>,
                    <<Ref({"a"}, 1), Ref({"a", "b"}, 1), Ref({"b", "c"}, 3), [Ref({}, 1) EXCEPT !.path = "q"]>>}
        always  == Chunk("always", {}, 1)
        rules == {<<>>,
                  <<Chunk("when", {"b"}, 2), always>>,
                  <<Chunk("example", {}, 1), Chunk("topic", {}, 1), Chunk("when", {"a"}, 1)>>,
                  <<[always EXCEPT !.kind = {"step"}], Chunk("when", {"a", "c"}, 2), Chunk("example", {"c"}, 1)>>,
                  <<[Chunk("topic", {}, 2) EXCEPT !.lang = {"pyspark"}],
                    [Chunk("when", {"a"}, 1) EXCEPT !.meta = {"hazard"}], [always EXCEPT !.cost = 4]>>}
        Base(corpus, user) ==
            [chunks |-> corpus \o user, language |-> "any", metas |-> {}, kinds |-> {"step"},
             stops |-> {"c"}, directed |-> {"a"},
             members |-> <<{"a", "c"}, {"b"}>>]
        items == {<<"a", "b", "c">>, <<"b", "c", "a">>, <<"c">>, << >>}
        scored == {<<0, 0, 0, 0>>, <<0, 3, 1, 2>>}
    IN  {[Base(c, u) EXCEPT !.language = l] @@
         [constructs |-> k, hazards |-> h, budget |-> b, cap |-> cap, topK |-> t, pins |-> pins,
          scores |-> sc \o [i \in DOMAIN u |-> IF sc[2] = 0 THEN 0 ELSE 2]] :
            c \in corpora, u \in rules, k \in items, h \in {{}, {"b"}, {"a", "b"}}, sc \in scored,
            b \in {3, 5, 8}, cap \in {-1, 2}, t \in {0, 2}, pins \in {{}, {"q"}}, l \in {"any", "sparksql"}}

MCDocuments ==
    LET Section(parent, title, key, paras) ==
            [parent |-> parent, title |-> title, key |-> key, paras |-> paras, page |-> Len(paras)]
        bodies == {<< <<4, 1>>, <<2>> >>, << <<6, 1, 2, 3>> >>, << <<1, 6>>, <<2, 3, 5>> >>, << <<3>> >>}
        after  == {<< <<7>> >>, << <<10, 9>>, <<8>> >>}
    IN  {[sections |-> <<Section("p", "s", "a", b), Section(q, "t", k, c)>> \o rest,
          least |-> l, most |-> m, overlap |-> o] :
            b \in bodies, c \in after, q \in {"p", "", "q"}, k \in {"", "b"},
            rest \in {<< >>, <<Section("q", "u", "c", << <<11>> >>)>>},
            l \in {0, 4, 15}, m \in {5, 9, 14}, o \in {0, 3}}
=============================================================================
