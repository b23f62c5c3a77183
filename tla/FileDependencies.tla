--------------------------- MODULE FileDependencies ---------------------------
(***************************************************************************)
(* How the files of a corpus depend on each other (complexity/crossfile,   *)
(* graph, dependencies), and what they are called in the reports (naming,  *)
(* report).  A dataset's name is the sequence of its letters, so that a    *)
(* list such as "lib.sales_:" is a prefix of what it stands for.           *)
(***************************************************************************)
EXTENDS Cases, SequencesExt, FiniteSets, FiniteSetsExt

CONSTANTS
    FileCorpora,   \* sequences of files, a file a sequence of chunks
    Graphs,    \* sets of edges, a pair of nodes each
    IdLists    \* sequences of source ids

Autocall      == "left"    \* ships with SAS
DefaultLibref == "work"

-----------------------------------------------------------------------------
(* CrossFileIndex *)

\* The files with a chunk that has the name under one of the fields.
FilesWith(corpus, fields, name) ==
    {f \in DOMAIN corpus :
        \E i \in DOMAIN corpus[f] : \E field \in fields : name \in corpus[f][i][field]}

WholeLibrary(d) == d.list /\ Last(d.name) = "."
Qualifier(d)    == IF "." \in Range(d.name) THEN d.name[1] ELSE "none"

\* Is what was written under one name created by the other, lists included?
CreatedBy(written, d) ==
    \/ written = d
    \/ d.list /\ IsPrefix(d.name, written.name)
    \/ written.list /\ IsPrefix(written.name, d.name)


\* A whole library read depends on nobody; a list created is read under it.
ReadBy(read, d) ==
    /\ ~WholeLibrary(read)
    /\ \/ read = d
       \/ d.list /\ IsPrefix(d.name, read.name)
       \/ ~d.list /\ read.list /\ IsPrefix(read.name, d.name)

Creators(corpus, d) ==
    {f \in DOMAIN corpus : \E i \in DOMAIN corpus[f] :
        \E w \in corpus[f][i].creates \cup corpus[f][i].bodyCreates : CreatedBy(w, d)}

Readers(corpus, d) ==
    {f \in DOMAIN corpus : \E i \in DOMAIN corpus[f] :
        \E r \in corpus[f][i].reads \cup corpus[f][i].bodyReads : ReadBy(r, d)}

CrossRef(what, way, subject_, peers) ==
    [what |-> what, way |-> way, subject |-> subject_, peers |-> peers]

\* A reference to what others own: nothing if the file owns it itself.
Import(what, f, name, owners, missing) ==
    IF f \in owners THEN {}
    ELSE IF owners # {} THEN {CrossRef(what, "import", name, owners)}
    ELSE IF missing = "nothing" THEN {} ELSE {CrossRef(what, missing, name, {})}

Export(what, f, name, users) ==
    IF users \ {f} = {} THEN {} ELSE {CrossRef(what, "export", name, users \ {f})}

MacroRefs(corpus, f, c) ==
    UNION {Import("macro", f, m, FilesWith(corpus, {"defines"}, m),
                  IF Cardinality(DOMAIN corpus) > 1 THEN "unresolved" ELSE "external") :
               m \in c.calls \ {Autocall}}
    \cup UNION {Export("macro", f, m, FilesWith(corpus, {"calls"}, m)) : m \in c.defines}

DatasetRefs(corpus, f, c) ==
    UNION {Import("dataset", f, d, Creators(corpus, d),
                  IF Cardinality(DOMAIN corpus) > 1 THEN "assumed" ELSE "nothing") :
               d \in {d \in c.reads : ~WholeLibrary(d)}}
    \cup UNION {Export("dataset", f, d, Readers(corpus, d)) : d \in c.creates}

MacroVarRefs(corpus, f, c) ==
    UNION {Import("macrovar", f, v, FilesWith(corpus, {"sets"}, v), "nothing") : v \in c.uses}
    \cup UNION {Export("macrovar", f, v, FilesWith(corpus, {"uses"}, v)) : v \in c.sets}

LibrefRefs(corpus, f, c) ==
    UNION {Import("libref", f, l, FilesWith(corpus, {"librefs"}, l), "unresolved") :
               l \in {Qualifier(d) : d \in c.reads \cup c.creates \cup c.bodyReads
                                           \cup c.bodyCreates}
                     \ {"none", DefaultLibref}}

RefsBySource(corpus) ==
    [f \in DOMAIN corpus |->
        UNION {MacroRefs(corpus, f, c) \cup DatasetRefs(corpus, f, c)
               \cup MacroVarRefs(corpus, f, c) \cup LibrefRefs(corpus, f, c) :
                   c \in Range(corpus[f])}]

PeersOf(refs, way) == UNION {r.peers : r \in {r \in refs : r.way = way}}

\* The profile of a file: who it depends on, and who depends on it.
Profile(refs) ==
    [dependsOn |-> PeersOf(refs, "import"), dependedOnBy |-> PeersOf(refs, "export"),
     unresolved |-> {r \in refs : r.way = "unresolved"}]

\* build_graph: imports and exports of the same thing are one edge.
BuildGraph(refs) ==
    {<<p, f>> : <<p, f>> \in {e \in (DOMAIN refs) \X (DOMAIN refs) :
                                 e[1] \in PeersOf(refs[e[2]], "import")}}
    \cup {e \in (DOMAIN refs) \X (DOMAIN refs) : e[2] \in PeersOf(refs[e[1]], "export")}

-----------------------------------------------------------------------------
(* DependencyGraph *)

Below(edges, node) == {e[2] : e \in {e \in edges : e[1] = node}}

\* Kahn's levels; whatever has none is the last one.
RECURSIVE Levels(_, _)
Levels(nodes, edges) ==
    LET frontier == {n \in nodes : \A e \in edges : e[2] = n => e[1] \notin nodes}
    IN  IF nodes = {} THEN << >>
        ELSE IF frontier = {} THEN <<nodes>>
        ELSE <<frontier>> \o Levels(nodes \ frontier, edges)

\* Tarjan's algorithm, a step at a time: work holds the path to the node
\* being visited, each with its children not looked at yet.
Visit(s, node, edges) ==
    [s EXCEPT !.index = Append(@, node), !.low = @ @@ (node :> Len(s.index) + 1),
              !.stack = Append(@, node),
              !.work = Append(@, [node |-> node, left |-> Below(edges, node)])]

NumberOf(s, node) == SelectInSeq(s.index, LAMBDA n : n = node)

LowerTo(s, node, number) == [s EXCEPT !.low[node] = IF number < @ THEN number ELSE @]

LookAt(s, frame, child, edges) ==
    LET left == [s EXCEPT !.work[Len(s.work)].left = @ \ {child}]
    IN  IF child \notin Range(s.index) THEN Visit(left, child, edges)
        ELSE IF child \in Range(s.stack)
        THEN LowerTo(left, frame.node, NumberOf(s, child)) ELSE left

\* A node with no child left: what is above it on the stack is a component.
Leave(s, node) ==
    LET shorter == [s EXCEPT !.work = Front(@)]
        told    == IF shorter.work = << >> THEN shorter
                   ELSE LowerTo(shorter, Last(shorter.work).node, s.low[node])
        at      == SelectInSeq(s.stack, LAMBDA n : n = node)
        group   == Range(SubSeq(s.stack, at, Len(s.stack)))
    IN  IF s.low[node] # NumberOf(s, node) THEN told
        ELSE [told EXCEPT !.stack = SubSeq(@, 1, at - 1),
                          !.found = IF Cardinality(group) > 1 THEN @ \cup {group} ELSE @]

RECURSIVE Tarjan(_, _, _)
Tarjan(s, nodes, edges) ==
    LET unseen == nodes \ Range(s.index)
        frame  == Last(s.work)
    IN  IF s.work # << >>
        THEN Tarjan(IF frame.left = {} THEN Leave(s, frame.node)
                    ELSE LookAt(s, frame, Min(frame.left), edges), nodes, edges)
        ELSE IF unseen # {} THEN Tarjan(Visit(s, Min(unseen), edges), nodes, edges)
        ELSE s.found

Unvisited == [index |-> << >>, low |-> << >>, stack |-> << >>, work |-> << >>, found |-> {}]
Cycles(nodes, edges) == Tarjan(Unvisited, nodes, edges)

-----------------------------------------------------------------------------
(* display_names and source_stems: an id is a path and how it is spelled *)

Label(id, depth) ==
    SubSeq(id.path, Len(id.path) - (IF depth < Len(id.path) THEN depth ELSE Len(id.path)) + 1,
           Len(id.path))

\* The ids that share a label grow by a folder, as far as they can.
RECURSIVE Widened(_, _, _)
Widened(ids, depths, rounds) ==
    LET clash(i) == \E j \in DOMAIN ids : j # i /\ Label(ids[j], depths[j])
                                                   = Label(ids[i], depths[i])
        wider    == [i \in DOMAIN ids |->
                        IF clash(i) /\ depths[i] < Len(ids[i].path)
                        THEN depths[i] + 1 ELSE depths[i]]
    IN  IF rounds = 0 \/ wider = depths THEN depths ELSE Widened(ids, wider, rounds - 1)

\* What is ambiguous at full length keeps its id.
DisplayNames(ids) ==
    LET longest == Max({Len(ids[i].path) : i \in DOMAIN ids})
        depths  == Widened(ids, [i \in DOMAIN ids |-> 1], longest)
        label   == [i \in DOMAIN ids |-> Label(ids[i], depths[i])]
    IN  [i \in DOMAIN ids |->
            IF \E j \in DOMAIN ids \ {i} : label[j] = label[i]
            THEN [path |-> ids[i].path, spelled |-> ids[i].spelled]
            ELSE [path |-> label[i], spelled |-> "/"]]

\* A stem is the file's name, with a number from 2 on if it is taken; a name,
\* the sequence of its parts, may itself end in such a number.
Stems(ids) ==
    LET stem(i) == Last(ids[i].path)
        Free(taken, word) == word \notin Range(taken)
        With(taken, word) ==
            IF Free(taken, word) THEN word
            ELSE Append(word, Min({n \in 2..Len(taken) + 2 : Free(taken, Append(word, n))}))
    IN  FoldLeft(LAMBDA taken, i : Append(taken, With(taken, stem(i))), << >>,
                 [i \in DOMAIN ids |-> i])

-----------------------------------------------------------------------------
DependenciesInit ==
    \/ Case("references", FileCorpora) \/ Case("graph", Graphs) \/ Case("names", IdLists)

NodesOf(edges) == {e[1] : e \in edges} \cup {e[2] : e \in edges}

DependenciesStep ==
    \/ Answer("references", RefsBySource(input))
    \/ Answer("graph", [levels |-> Levels(NodesOf(input), input),
                        cycles |-> Cycles(NodesOf(input), input)])
    \/ Answer("names", [names |-> DisplayNames(input), stems |-> Stems(input)])

-----------------------------------------------------------------------------
(* What the migration is planned by *)

\* What a file imports by way of its own steps another file exports to it,
\* found by another search ("Imports and exports are mirror images",
\* graph.py:94), so both files' profiles tell of it; no file depends on itself;
\* and with one file nothing but a libref is said to be nowhere.
ImportsAreExports ==
    \A f \in DOMAIN input : LET refs == result[f] IN
        /\ \A r \in refs, p \in DOMAIN input :
              /\ r.way = "import" /\ p \in r.peers /\ r.what # "libref"
              /\ \A i \in DOMAIN input[p] : input[p][i].bodyCreates = {}
              => f \in Profile(result[p]).dependedOnBy
        /\ \A e \in BuildGraph(result) : e[1] # e[2]
        /\ Len(input) = 1 => \A r \in refs : r.way = "unresolved" => r.what = "libref"

\* Every file is in one wave; an edge leads to a later one, unless the end of
\* it cannot be ordered; and the groups named as cycles are those whose files
\* reach each other, all of them in the last wave (dependencies.py:67-75).
WavesAreOrdered ==
    LET nodes == NodesOf(input)
        levels == result.levels
        At(n)  == CHOOSE i \in DOMAIN levels : n \in levels[i]
        from[n \in nodes] ==
            LET grown[k \in 0..Cardinality(nodes)] ==
                    IF k = 0 THEN Below(input, n)
                    ELSE grown[k - 1] \cup UNION {Below(input, x) : x \in grown[k - 1]}
            IN  grown[Cardinality(nodes)]
        loops == {{m \in nodes : m \in from[n] /\ n \in from[m]} :
                      n \in {n \in nodes : n \in from[n]}}
    IN  /\ UNION Range(levels) = nodes
        /\ \A i, j \in DOMAIN levels : i # j => levels[i] \cap levels[j] = {}
        /\ \A e \in input : At(e[1]) < At(e[2])
                            \/ (result.cycles # {} /\ At(e[2]) = Len(levels))
        /\ result.cycles = {g \in loops : Cardinality(g) > 1}
        /\ \A g \in result.cycles : g \subseteq Last(levels)

\* No two files have one name in a report, or one report file.
NamesTellApart ==
    /\ IsInjective(result.names)
    /\ IsInjective(result.stems)
    /\ \A i \in DOMAIN input : IsSuffix(result.names[i].path, input[i].path)

===============================================================================
