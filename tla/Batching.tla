------------------------------- MODULE Batching -------------------------------
(***************************************************************************)
(* chunker.batcher: the chunks of a corpus become the items the pipeline   *)
(* translates one by one.  Edges are found in corpus order, strong ones    *)
(* group at once, weak ones at the granularity of the groups, context is   *)
(* drawn to the step that follows it, and the groups are packed.           *)
(*                                                                         *)
(* A chunk is a record: kind ("step", "option", "comment"), reads, creates *)
(* and updates (datasets), implicit (it reads _LAST_), sets and uses       *)
(* (macro variables), defines and invokes (macros), args and body          *)
(* (datasets a call names, datasets its macro reads through them).  The    *)
(* corpus is flat: a chunk is its place, file[i] the file it is of.  The   *)
(* union-find is its partition: group[i] is the first chunk of i's group.  *)
(***************************************************************************)
EXTENDS Cases, Integers, Sequences, FiniteSets, SequencesExt, FiniteSetsExt

CONSTANTS
    Chunks,       \* the chunks a corpus is made of
    CorpusLength, \* bound: chunks of a corpus
    ItemOverhead, \* _approx_item_cost: what an item costs beside its members
    ChunkLimits,  \* the budgets a run may be given, in chunks
    TokenLimits   \* and in tokens, 0 for none

ASSUME BatchingAssumption ==
    /\ CorpusLength \in Nat /\ ItemOverhead \in Nat
    /\ ChunkLimits \subseteq Nat /\ TokenLimits \subseteq Nat

Places == 1..CorpusLength

\* Corpora of two files, the second perhaps empty, with the budgets of a run.
Corpora ==
    [chunk : [Places -> Chunks], cut : Places, maxChunks : ChunkLimits, maxTokens : TokenLimits]

FileOf(corpus, i) == IF i <= corpus.cut THEN 1 ELSE 2

BatchingInit == Case("batching", Corpora)

-----------------------------------------------------------------------------
(* Implicit datasets and edges *)

\* The nearest place before i at which P holds, 0 if there is none.
Nearest(P(_), i) == Max({0} \cup {j \in 1..(i - 1) : P(j)})

\* _resolve_implicit_datasets: _LAST_ is what the step before wrote last.
Reads(corpus, i) ==
    LET c == corpus.chunk[i]
        writer == Nearest(LAMBDA j : corpus.chunk[j].creates \cup corpus.chunk[j].updates # {}, i)
        last == corpus.chunk[writer].creates \cup corpus.chunk[writer].updates
    IN  IF c.implicit /\ c.reads = {} /\ writer # 0 THEN last ELSE c.reads

\* _nearest_producer: a step that only updates a table supplies it to nobody.
Producer(corpus, name, i) == Nearest(LAMBDA j : name \in corpus.chunk[j].creates, i)

\* _macrovar_flow: the nearest of the chunks that set a macro variable.
Setter(corpus, v, i) == Nearest(LAMBDA j : v \in corpus.chunk[j].sets, i)

\* The definition that counts is the last of the corpus, before or after the call.
Definition(corpus, macro) ==
    Max({0} \cup {j \in Places : macro \in corpus.chunk[j].defines})

Edge(from, to) == IF from \in {0, to} THEN {} ELSE {<<from, to>>}

\* dataset_flow and macro_body_dataset.
StrongEdges(corpus) ==
    UNION {UNION {Edge(Producer(corpus, name, i), i) :
                  name \in Reads(corpus, i) \cup corpus.chunk[i].body} : i \in Places}

\* macro_var_flow, macro_invocation and macro_arg_dataset.
WeakEdges(corpus) ==
    UNION {
        (UNION {Edge(Setter(corpus, v, i), i) : v \in corpus.chunk[i].uses})
        \cup (UNION {Edge(Definition(corpus, m), i) : m \in corpus.chunk[i].invokes})
        \cup (UNION {Edge(Producer(corpus, name, i), i) : name \in corpus.chunk[i].args})
        : i \in Places}

-----------------------------------------------------------------------------
(* Groups *)

Alone == [i \in Places |-> i]

\* _UF.union; UnionFind models the structure itself.
Union(group, a, b) ==
    [i \in Places |-> IF group[i] \in {group[a], group[b]} THEN Min({group[a], group[b]})
                      ELSE group[i]]

UnionAll(group, pairs) == FoldSet(LAMBDA p, g : Union(g, p[1], p[2]), group, pairs)

\* _resolve_weak_edges: a group that feeds one other joins it; those that feed
\* several are the global context, together.
Resolved(strong, weak) ==
    LET feeds(p) == {strong[e[2]] : e \in {f \in weak : strong[f[1]] = p}} \ {p}
        producers == {p \in Places : strong[p] = p /\ feeds(p) # {}}
        globals == {p \in producers : Cardinality(feeds(p)) > 1}
        lone == UNION {{<<p, c>> : c \in feeds(p)} : p \in producers \ globals}
    IN  [group  |-> UnionAll(strong, lone \cup (globals \X globals)),
         anchor |-> Max({0} \cup globals)]   \* a member of the global context, or 0

IsContext(corpus, i) == corpus.chunk[i].kind # "step"

\* The step of the same file that follows, 0 if none does.
NextStep(corpus, i) ==
    LET after == {j \in (i + 1)..CorpusLength :
                     ~IsContext(corpus, j) /\ FileOf(corpus, j) = FileOf(corpus, i)}
    IN  IF after = {} THEN 0 ELSE Min(after)

\* An option goes to the step that follows, unless it is of the global context.
Absorb(corpus, anchor, group, i) ==
    IF \/ corpus.chunk[i].kind # "option" \/ NextStep(corpus, i) = 0
       \/ anchor # 0 /\ group[i] = group[anchor]
    THEN group ELSE Union(group, i, NextStep(corpus, i))

\* _absorb_context, as SasLLMPipeline has it: options, no comments.
AbsorbAll(corpus, anchor, before) ==
    FoldLeft(LAMBDA group, i : Absorb(corpus, anchor, group, i), before, Alone)

Absorbed(corpus, resolved) ==
    [resolved EXCEPT !.group = AbsorbAll(corpus, resolved.anchor, @)]

\* MultiFileBatcher.batch_resolved, up to the groups.
Components(corpus) ==
    Absorbed(corpus, Resolved(UnionAll(Alone, StrongEdges(corpus)), WeakEdges(corpus)))

\* _extract_result: the global context, found again.
GlobalContext(components) ==
    {i \in Places : components.anchor # 0
                       /\ components.group[i] = components.group[components.anchor]}

\* A set of places in corpus order.
InOrder(set) ==
    [k \in 1..Cardinality(set) |-> CHOOSE i \in set : Cardinality({j \in set : j <= i}) = k]

Item(members, context) ==
    [chunks |-> InOrder(members), batch |-> Cardinality(members) > 1 \/ members = context,
     global |-> members = context]

\* What becomes an item each: the groups, and the global context.
ItemMembers(group, context) ==
    ({{i \in Places \ context : group[i] = r} : r \in Places} \cup {context}) \ {{}}

\* _extract_result and all_ordered_items: by each item's first chunk.
ItemsOf(group, context) ==
    LET sets == ItemMembers(group, context)
        firsts == InOrder({Min(m) : m \in sets})
    IN  [k \in DOMAIN firsts |-> Item(CHOOSE m \in sets : Min(m) = firsts[k], context)]

Items(components) == ItemsOf(components.group, GlobalContext(components))

-----------------------------------------------------------------------------
(* Packing *)

Cost(item) == ItemOverhead + Len(item.chunks)

\* Whether item still goes into the window behind it.
Fits(corpus, window, item) ==
    IF corpus.maxTokens = 0
    THEN ~item.batch /\ ~window.batch /\ Len(window.chunks) < corpus.maxChunks
    ELSE /\ ~item.global /\ ~window.global
         /\ Len(window.chunks) + Len(item.chunks) <= corpus.maxChunks
         /\ window.cost + Cost(item) <= corpus.maxTokens

Window(item) ==
    [chunks |-> item.chunks, batch |-> item.batch, global |-> item.global,
     cost |-> Cost(item), items |-> 1]

\* The window with item in it.
Extended(window, item) ==
    [window EXCEPT !.chunks = @ \o item.chunks, !.cost = @ + Cost(item), !.items = @ + 1]

\* Mutant: the window is not flushed before the global context is packed.
AddItemUnflushed(corpus, units, item) ==
    IF units = << >> THEN <<Window(item)>>
    ELSE IF Fits(corpus, Last(units), item)
    THEN Append(Front(units), Extended(Last(units), item))
    ELSE Append(IF item.global THEN Front(units) ELSE units, Window(item))

AddItem(corpus, units, item) ==
    IF units # << >> /\ Fits(corpus, Last(units), item)
    THEN Append(Front(units), Extended(Last(units), item))
    ELSE Append(units, Window(item))

\* coalesce_into_batches and _pack_into_batches.
Packed(corpus) ==
    FoldLeft(LAMBDA units, item : AddItem(corpus, units, item), << >>, Items(Components(corpus)))

CreatedIn(corpus, chunks) == UNION {corpus.chunk[i].creates : i \in ToSet(chunks)}

\* _make_batch and _merge_singletons_into_batch: what a unit takes from outside.
ExternalInputs(corpus, chunks) ==
    (UNION {Reads(corpus, i) \cup corpus.chunk[i].body : i \in ToSet(chunks)})
        \ CreatedIn(corpus, chunks)

\* What the other chunks of the unit supply, in whatever order.
ExternalMacros(corpus, chunks) ==
    (UNION {corpus.chunk[i].invokes : i \in ToSet(chunks)})
        \ (UNION {corpus.chunk[i].defines : i \in ToSet(chunks)})

ExternalVariables(corpus, chunks) ==
    (UNION {corpus.chunk[i].uses : i \in ToSet(chunks)})
        \ (UNION {corpus.chunk[i].sets : i \in ToSet(chunks)})

Named(corpus, units) ==
    [n \in DOMAIN units |->
        [chunks |-> units[n].chunks, global |-> units[n].global,
         items |-> units[n].items, cost |-> units[n].cost,
         inputs |-> ExternalInputs(corpus, units[n].chunks),
         macros |-> ExternalMacros(corpus, units[n].chunks),
         variables |-> ExternalVariables(corpus, units[n].chunks)]]

Batched(corpus) == Named(corpus, Packed(corpus))

BatchingStep == subject = "batching" /\ Answer("batching", Batched(input))

BatchingSpec == BatchingInit /\ [][BatchingStep]_caseVars

-----------------------------------------------------------------------------
(* The units partition the corpus: every chunk is translated once. *)
EachChunkOnce ==
    Answered("batching") =>
        \A i \in Places :
            \E n \in DOMAIN result : \E k \in DOMAIN result[n].chunks :
                \A m \in DOMAIN result : \A l \in DOMAIN result[m].chunks :
                    result[m].chunks[l] = i <=> m = n /\ l = k

\* The chunk that last created the table, as a session would have run them.
SessionWriter(corpus, name, i) ==
    FoldLeft(LAMBDA w, j : IF name \in corpus.chunk[j].creates THEN j ELSE w,
             0, [j \in 1..(i - 1) |-> j])

(* A step is translated together with the step whose table it would read in a
   session, whatever else writes a table of that name. *)
ReaderWithWriter ==
    Answered("batching") =>
        \A n \in DOMAIN result : \A i \in ToSet(result[n].chunks) :
            \A name \in Reads(input, i) \cup input.chunk[i].body :
                SessionWriter(input, name, i) \in {0} \cup ToSet(result[n].chunks)

(* A unit that packs several items is within both budgets, and nothing is
   packed with the global context. *)
UnitsWithinBudget ==
    Answered("batching") =>
        \A n \in DOMAIN result : result[n].items > 1 =>
            /\ ~result[n].global
            /\ Len(result[n].chunks) <= input.maxChunks
            /\ input.maxTokens # 0 => result[n].cost <= input.maxTokens

(* A unit names what it needs from outside: every table no chunk of it creates,
   and every macro and macro variable some other unit has to bring. *)
NeedsNamed ==
    Answered("batching") =>
        \A n \in DOMAIN result : \A i \in ToSet(result[n].chunks) :
            /\ \A name \in Reads(input, i) :
                  \/ name \in result[n].inputs
                  \/ \E j \in ToSet(result[n].chunks) : name \in input.chunk[j].creates
            /\ input.chunk[i].invokes \ result[n].macros \subseteq
                  UNION {input.chunk[j].defines : j \in ToSet(result[n].chunks)}
            /\ input.chunk[i].uses \ result[n].variables \subseteq
                  UNION {input.chunk[j].sets : j \in ToSet(result[n].chunks)}

(* All four, of the units a corpus is translated in. *)
BatchesAreSound == EachChunkOnce /\ ReaderWithWriter /\ UnitsWithinBudget /\ NeedsNamed

-----------------------------------------------------------------------------
(* Violated.  "Intra-batch subtraction is exact" (_merge_singletons_into_batch):
   a table is internal to a unit only if an earlier chunk of the unit creates
   what a later one reads. *)
InputsExact ==
    Answered("batching") =>
        \A n \in DOMAIN result : \A i \in ToSet(result[n].chunks) :
            \A name \in Reads(input, i) :
                \/ name \in result[n].inputs
                \/ \E j \in ToSet(result[n].chunks) : j < i /\ name \in input.chunk[j].creates

(* Violated.  "that component is emitted FIRST" (_extract_result): the
   definitions every other unit depends on are translated before them. *)
ContextFirst ==
    Answered("batching") =>
        \A n \in DOMAIN result : result[n].global => n = 1
=============================================================================
