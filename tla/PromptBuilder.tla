----------------------------- MODULE PromptBuilder -----------------------------
(***************************************************************************)
(* prompt_builder: an operator's instructions as they are read, what is    *)
(* picked for an item and how it is laid out, and reference documents cut  *)
(* into chunks.  memory/relevance: what a query ranks, and the turns of a  *)
(* history kept for a request.  A scorer gives each document a number;     *)
(* << >> is a scorer that is not configured.                               *)
(*                                                                         *)
(* A group of a heading is its word and its tokens, "" for a blank one and *)
(* "bad" for one that is no construct key.  A chunk has a scope, keys,     *)
(* lang, kind and meta, all sets, a section path and a cost; those of the  *)
(* corpus come first and their scope is "reference".                       *)
(***************************************************************************)
EXTENDS Cases, Integers, FiniteSets, SequencesExt, FiniteSetsExt, Functions

CONSTANTS
    Histories,        \* what a history is made of and what may be kept of it
    InstructionSets,  \* what is configured, and the files there are
    Selections,       \* corpora, items and budgets
    Documents         \* sections of a document, and the sizes asked for

-----------------------------------------------------------------------------
(* relevance *)

\* The weight of a place: 1 / (60 + place), in hundred millionths.
RankWeight(place) == 100000000 \div (60 + place)

Spread(scores) == Max(Range(scores)) # Min(Range(scores))

\* Best first; equal scores, the later first or the earlier.
BestFirst(candidates, scores) ==
    SortSeq(candidates, LAMBDA i, j : scores[i] > scores[j] \/ (scores[i] = scores[j] /\ i > j))
EarliestFirst(candidates, scores) ==
    SortSeq(candidates, LAMBDA i, j : scores[i] > scores[j] \/ (scores[i] = scores[j] /\ i < j))

PlaceIn(ranking, i) == Min({p \in DOMAIN ranking : ranking[p] = i})

\* Rankings of the same documents.
RrfFuse(rankings) ==
    LET Weight(i) == FoldLeft(LAMBDA sum, r : sum + RankWeight(PlaceIn(r, i)), 0, rankings)
    IN  IF rankings = << >> THEN << >>
        ELSE BestFirst(rankings[1], [i \in Range(rankings[1]) |-> Weight(i)])

\* The reranker orders the first of them anew.
Rerank(fused, window, scores) ==
    LET first == Min({window, Len(fused)})
    IN  BestFirst(SubSeq(fused, 1, first), scores) \o SubSeq(fused, first + 1, Len(fused))

\* What a fixed corpus answers a query with: every document, once any scorer
\* has a signal.
Query(lexical, dense) ==
    LET all == [i \in DOMAIN lexical |-> i]
    IN  RrfFuse((IF all # << >> /\ Max(Range(lexical)) > 0 THEN <<EarliestFirst(all, lexical)>> ELSE << >>)
                \o (IF dense # << >> /\ Spread(dense) THEN <<EarliestFirst(all, dense)>>
                    ELSE << >>))

\* A scorer that cannot tell the candidates apart has no ranking.
Ranking(scores, candidates) ==
    IF scores # << >> /\ Spread([p \in DOMAIN candidates |-> scores[candidates[p]]])
    THEN <<BestFirst(candidates, scores)>> ELSE << >>

CostOf(costs, turns) == MapThenSumSet(LAMBDA i : costs[i], turns)

\* Best first while they fit what the tail leaves; one that does not is
\* passed over.  -1 is no limit.
Pack(fused, costs, tail, slots, limit) ==
    FoldLeft(LAMBDA chosen, i :
        IF Cardinality(chosen) < slots
           /\ (limit = -1 \/ CostOf(costs, tail \cup chosen \cup {i}) <= limit)
        THEN chosen \cup {i} ELSE chosen, {}, fused)

\* The turns of history h that are prompted.
SelectTurns(h) ==
    LET count == Len(h.costs)
        keep  == Min({h.keepLast, h.topK, count})
        tail  == (count - keep + 1)..count
        candidates == [i \in 1..(count - keep) |-> i]
        rankings == Ranking(h.lexical, candidates) \o Ranking(h.dense, candidates)
        fused == IF rankings = << >> THEN Reverse(candidates) ELSE RrfFuse(rankings)
        order == IF h.rerank = << >> THEN fused ELSE Rerank(fused, 4 * h.topK, h.rerank)
    IN  IF h.limit = -1 /\ count <= h.topK THEN 1..count
        ELSE IF h.topK = keep \/ candidates = << >> THEN tail
        ELSE tail \cup Pack(order, h.costs, tail, h.topK - keep, h.limit)

-----------------------------------------------------------------------------
(* user_instructions *)

NoClause == [scope |-> "none", keys |-> {}, lang |-> {}, kind |-> {}, meta |-> {}, noted |-> FALSE]

ClassifyGroup(g) ==
    LET tokens == Range(g.tokens) \ {""}
        keys   == IF g.word = "category:" THEN tokens ELSE tokens \ {"bad"}
        scope  == IF g.word = "example:" THEN "example" ELSE IF keys = {} THEN "always" ELSE "when"
    IN  CASE g.word \in {"lang", "kind", "meta"} -> [NoClause EXCEPT ![g.word] = tokens]
          [] g.word \in {"topic", "example"} -> [NoClause EXCEPT !.scope = g.word]
          [] g.word \in {"when:", "example:", "category:"} ->
                [NoClause EXCEPT !.scope = scope, !.keys = keys,
                                 !.noted = keys = {} \/ keys # tokens]
          [] OTHER -> [NoClause EXCEPT !.scope = "always", !.noted = TRUE]

\* The last primary scope is the section's; the keys are those of the last
\* that had any.
ParseHeading(groups) ==
    FoldLeft(LAMBDA parsed, g :
        LET clause == ClassifyGroup(g)
        IN  [scope |-> IF clause.scope = "none" THEN parsed.scope ELSE clause.scope,
             keys  |-> IF clause.keys = {} THEN parsed.keys ELSE clause.keys,
             lang  |-> parsed.lang \cup clause.lang,
             kind  |-> parsed.kind \cup clause.kind,
             meta  |-> parsed.meta \cup clause.meta,
             noted |-> parsed.noted \/ clause.noted],
        [NoClause EXCEPT !.scope = "always"], groups)

\* Text before the first heading is a section of its own.
SplitSections(file) ==
    (IF file.preamble THEN <<[groups |-> << >>, blank |-> FALSE]>> ELSE << >>) \o file.sections

FromText(file, langs) ==
    LET sections == SplitSections(file)
        kept == SelectSeq(sections, LAMBDA s : ~s.blank)
        Chunk(s) == [ParseHeading(s.groups) EXCEPT !.lang = IF @ = {} THEN langs ELSE @]
        chunks == [i \in DOMAIN kept |-> Chunk(kept[i])]
    IN  [chunks |-> chunks,
         noted  |-> kept # sections \/ \E c \in Range(chunks) : c.noted]

IsDocFile(name) == name \in {"README.md", "_draft.md"}

\* The directory a file is in names its target, unless it is a "_" one.
FolderLang(folder) == IF folder = << >> \/ Head(folder) = "_common" THEN {} ELSE {Head(folder)}

FromDir(files) ==
    LET kept == SelectSeq(files, LAMBDA f : ~IsDocFile(f.name))
        sets == [i \in DOMAIN kept |-> FromText(kept[i], FolderLang(kept[i].folder))]
    IN  [chunks |-> FlattenSeq([i \in DOMAIN sets |-> sets[i].chunks]),
         noted  |-> \E s \in Range(sets) : s.noted]

\* A directory is preferred to a file; {} when there are no instructions.
FromConfig(c) ==
    CASE c.dir = "there" -> {FromDir(c.files)}
      [] c.dir = "unset" /\ c.path = "there" -> {FromText(c.files[1], {})}
      [] OTHER -> {}

-----------------------------------------------------------------------------
(* selector *)

Passes(c, s) ==
    /\ s.language = "any" \/ c.lang = {} \/ s.language \in c.lang
    /\ c.kind = {} \/ c.kind \cap s.kinds # {}
    /\ c.meta = {} \/ c.meta \cap s.metas # {}

IsUser(s, at) == s.chunks[at].scope # "reference"
Used(s, ats) == MapThenSumSet(LAMBDA at : s.chunks[at].cost, ats)
Picked(picks) == {p.at : p \in Range(picks)}
Exceeds(s, ats) ==
    \/ Used(s, ats) > s.budget
    \/ s.cap # -1 /\ Used(s, {at \in ats : IsUser(s, at)}) > s.cap

Offer(at, tier, key) == [at |-> at, tier |-> tier, key |-> key]

AddPick(s, picks, p) ==
    IF \/ p.at \in Picked(picks)
       \/ ~Passes(s.chunks[p.at], s)
       \/ Exceeds(s, Picked(picks) \cup {p.at})
    THEN picks ELSE Append(picks, p)

\* The chunks at these places, in order.
AscendingAt(s, places) == SelectSeq([at \in DOMAIN s.chunks |-> at], LAMBDA at : at \in places)
FirstMatch(constructs, keys) ==
    IF Range(constructs) \cap keys = {} THEN ""
    ELSE constructs[Min({i \in DOMAIN constructs : constructs[i] \in keys})]

\* The scope a rule is taken at: a rule for every item, gated on the item's
\* kinds or flags, comes after those for its constructs.
TierOf(c) ==
    IF c.scope = "always" /\ (c.kind # {} \/ c.meta # {}) THEN "gated" ELSE c.scope

Rules(s) ==
    LET Of(scope) == AscendingAt(s, {at \in DOMAIN s.chunks : TierOf(s.chunks[at]) = scope})
        Offers(scope, tier) ==
            LET ats == Of(scope)
            IN  [i \in DOMAIN ats |->
                    Offer(ats[i], tier, FirstMatch(s.constructs, s.chunks[ats[i]].keys))]
        Unkeyed(offers) == [i \in DOMAIN offers |-> [offers[i] EXCEPT !.key = ""]]
        matched == SelectSeq(Offers("when", "when"), LAMBDA p : p.key # "")
        examples == SelectSeq(Offers("example", "example"),
                              LAMBDA p : p.key # "" \/ s.chunks[p.at].keys = {})
    IN  Unkeyed(Offers("always", "always")) \o matched
        \o Unkeyed(Offers("gated", "always")) \o examples

PinnedPicks(s) ==
    LET ats == AscendingAt(s, {at \in DOMAIN s.chunks : ~IsUser(s, at) /\ s.chunks[at].path \in s.pins})
    IN  [i \in DOMAIN ats |-> Offer(ats[i], "pinned", "")]

\* The first of every list, then the second of every one that has it.
RoundRobin(lists) ==
    LET longest == Max({0} \cup {Len(l) : l \in Range(lists)})
        Nth(n) == LET long == SelectSeq(lists, LAMBDA l : Len(l) >= n)
                  IN  [i \in DOMAIN long |-> long[i][n]]
    IN  FlattenSeq([n \in 1..longest |-> Nth(n)])

ConstructHits(s, tier, keys) ==
    LET once == SelectSeq([i \in DOMAIN s.constructs |->
                              IF \E j \in 1..(i - 1) : s.constructs[j] = s.constructs[i]
                              THEN "" ELSE s.constructs[i]], LAMBDA k : k \in keys)
        Windows(key) ==
            LET ats == AscendingAt(s, {at \in DOMAIN s.chunks :
                                       ~IsUser(s, at) /\ key \in s.chunks[at].keys})
            IN  [i \in DOMAIN ats |-> Offer(ats[i], tier, key)]
    IN  RoundRobin([i \in DOMAIN once |-> Windows(once[i])])

\* At most topK of what the query ranks, the operator's notes first.
Topical(s, picks) ==
    LET ranked == SelectSeq(Query(s.scores, << >>),
                            LAMBDA at : s.chunks[at].scope \in {"topic", "reference"})
        Notes  == SelectSeq(ranked, LAMBDA at : IsUser(s, at))
        Others == SelectSeq(ranked, LAMBDA at : ~IsUser(s, at))
        Take(taken, at) ==
            IF Len(taken) >= Len(picks) + s.topK THEN taken
            ELSE AddPick(s, taken, Offer(at, IF IsUser(s, at) THEN "topic" ELSE "topical", ""))
    IN  FoldLeft(Take, picks, Notes \o Others)

Claims(s) ==
    LET constructs == Range(s.constructs) \ {""}
    IN  Rules(s) \o PinnedPicks(s)
        \o ConstructHits(s, "hazard", constructs \cap s.hazards)
        \o ConstructHits(s, "construct", constructs \ (s.hazards \cup s.stops))

SelectDetailed(s) ==
    Topical(s, FoldLeft(LAMBDA picks, p : AddPick(s, picks, p), << >>, Claims(s)))

-----------------------------------------------------------------------------
(* builder: the blocks of the guidance, and what each holds *)

\* Which members of the batch have a construct; s.members gives each its own.
AttributionForItem(s) ==
    [key \in UNION Range(s.members) |-> {m \in DOMAIN s.members : key \in s.members[m]}]

MembersOf(s, p) ==
    IF Len(s.members) < 2 \/ p.key \notin UNION Range(s.members) THEN {}
    ELSE AttributionForItem(s)[p.key]

FormatHints(s, picks) ==
    [hazards |-> Range(s.constructs) \cap s.hazards,
     matched |-> {p.key : p \in {q \in Range(picks) : q.tier = "construct"}},
     topics  |-> {s.chunks[p.at].path : p \in {q \in Range(picks) : q.tier = "topical"}}]

FormatDirectives(s) == Range(s.constructs) \cap s.directed

\* No blocks when nothing was picked.
BuildFromPicks(s, picks) ==
    LET Entries(tiers) ==
            LET kept == SelectSeq(picks, LAMBDA p : p.tier \in tiers)
            IN  [i \in DOMAIN kept |-> [at |-> kept[i].at, members |-> MembersOf(s, kept[i])]]
        Block(name, content, empty) ==
            IF content = empty THEN << >> ELSE <<[block |-> name, content |-> content]>>
        hints == FormatHints(s, picks)
    IN  IF picks = << >> THEN << >>
        ELSE Block("user", Entries({"always", "when", "topic"}), << >>)
             \o Block("hints", hints, [hazards |-> {}, matched |-> {}, topics |-> {}])
             \o Block("directives", FormatDirectives(s), {})
             \o Block("reference", Entries({"pinned", "hazard", "construct", "topical"}), << >>)
             \o Block("examples", Entries({"example"}), << >>)

\* What is retrieved for an item and what it is prompted with, of one call.
InstructionMessages(s) ==
    LET picks == SelectDetailed(s)
    IN  [picks |-> picks, blocks |-> BuildFromPicks(s, picks)]

-----------------------------------------------------------------------------
(* doc_chunker: a paragraph is the costs of its words *)

Weigh(words) == FoldLeft(LAMBDA sum, n : sum + n, 0, words)
WeighAll(paras) == Weigh(FlattenSeq(paras))

\* Pieces of as many words as its average word allows.
HardSplit(para, most) ==
    LET step   == Max({1, (most * Len(para)) \div Weigh(para)})
        pieces == (Len(para) + step - 1) \div step
    IN  [k \in 1..pieces |-> SubSeq(para, (k - 1) * step + 1, Min({k * step, Len(para)}))]

\* Mutant: the overlap counted in units and not in tokens.
OverlapInUnits(window, overlap) ==
    SubSeq(window, Max({1, Len(window) - overlap + 1}), Len(window))

\* The longest end of a window that weighs no more than the overlap.
TailOverlap(window, overlap) ==
    LET fits == {n \in 0..Len(window) :
                    WeighAll(SubSeq(window, Len(window) - n + 1, Len(window))) <= overlap}
    IN  SubSeq(window, Len(window) - Max(fits) + 1, Len(window))

SplitOverlapping(paras, most, overlap) ==
    LET units == FlattenSeq([i \in DOMAIN paras |->
                    IF Weigh(paras[i]) <= most THEN <<paras[i]>> ELSE HardSplit(paras[i], most)])
        Take(acc, unit) ==
            IF acc.current # << >> /\ WeighAll(acc.current) + Weigh(unit) > most
            THEN [done |-> Append(acc.done, acc.current),
                  current |-> Append(TailOverlap(acc.current, overlap), unit)]
            ELSE [acc EXCEPT !.current = Append(@, unit)]
        last == FoldLeft(Take, [done |-> << >>, current |-> << >>], units)
    IN  IF last.current = << >> THEN last.done ELSE Append(last.done, last.current)

\* Which sections go together: those of one parent, until they weigh enough.
BufferSections(d) ==
    LET Weight(buffer) == Weigh([i \in DOMAIN buffer |-> WeighAll(buffer[i].paras)])
        Take(acc, section) ==
            IF acc # << >> /\ Last(acc)[1].parent = section.parent /\ Weight(Last(acc)) < d.least
            THEN [acc EXCEPT ![Len(acc)] = Append(@, section)]
            ELSE Append(acc, <<section>>)
    IN  FoldLeft(Take, << >>, d.sections)

Emit(d, buffer) ==
    LET paras == FlattenSeq([i \in DOMAIN buffer |-> buffer[i].paras])
        windows == IF WeighAll(paras) <= d.most THEN <<paras>>
                   ELSE SplitOverlapping(paras, d.most, d.overlap)
        pages == {buffer[i].page : i \in DOMAIN buffer}
    IN  [i \in DOMAIN windows |->
            [path  |-> IF Len(buffer) = 1 THEN buffer[1].title
                       ELSE IF buffer[1].parent = "" THEN buffer[1].title ELSE buffer[1].parent,
             keys  |-> {buffer[k].key : k \in DOMAIN buffer} \ {""},
             pages |-> <<Min(pages), Max(pages)>>,
             paras |-> windows[i]]]

ChunkDocument(d) ==
    LET buffers == BufferSections(d)
    IN  FlattenSeq([i \in DOMAIN buffers |-> Emit(d, buffers[i])])

-----------------------------------------------------------------------------
PromptsInit ==
    \/ Case("history", Histories)
    \/ Case("instructions", InstructionSets)
    \/ Case("selection", Selections)
    \/ Case("document", Documents)

PromptsStep ==
    \/ Answer("history", SelectTurns(input))
    \/ Answer("instructions", FromConfig(input))
    \/ Answer("selection", InstructionMessages(input))
    \/ Answer("document", ChunkDocument(input))

-----------------------------------------------------------------------------
(* Properties *)

\* At most topK turns are prompted, the latest always among them, and no
\* more than the limit unless the latest alone are; a turn is left out only
\* for its size or for topK others; and one preferred to
\* another by every scorer with a signal, by the reranker where there is one,
\* or by age where nothing has a signal, is not left out for it unless it is
\* larger.
HistoryIsSelected ==
    Answered("history") =>
        LET count == Len(input.costs)
            keep  == Min({input.keepLast, input.topK, count})
            tail  == (count - keep + 1)..count
            left  == (1..count) \ result
            Over(turns) == input.limit # -1 /\ CostOf(input.costs, turns) > input.limit
            Silent(scores) == Ranking(scores, [i \in 1..(count - keep) |-> i]) = << >>
            Prefers(scores, i, j) == Silent(scores) \/ scores[i] > scores[j]
            Preferred(i, j) ==
                IF input.rerank # << >> THEN input.rerank[i] > input.rerank[j]
                ELSE IF Silent(input.lexical) /\ Silent(input.dense) THEN i > j
                ELSE Prefers(input.lexical, i, j) /\ Prefers(input.dense, i, j)
        IN  /\ tail \subseteq result /\ Cardinality(result) <= input.topK
            /\ Over(result) => result = tail
            /\ \A i \in left : Cardinality(result) = input.topK \/ Over(result \cup {i})
            /\ \A i \in left, j \in result \ tail :
                  input.costs[i] <= input.costs[j] => ~Preferred(i, j)

\* Every section of every file of rules that says anything becomes a chunk,
\* in order, and what was not understood is noted.  It applies to every item
\* that meets all its clauses, one not understood being none; and to no
\* other, when only one of them is a scope.
InstructionsApply ==
    Answered("instructions") =>
        LET Spoken(file, langs) ==
                LET kept == SelectSeq(SplitSections(file), LAMBDA s : ~s.blank)
                IN  [i \in DOMAIN kept |-> [groups |-> kept[i].groups, langs |-> langs]]
            files    == SelectSeq(input.files, LAMBDA f : f.name = "rules.md")
            sections == IF input.dir = "there"
                        THEN FlattenSeq([i \in DOMAIN files |->
                                Spoken(files[i], IF files[i].folder = <<"pyspark">> THEN {"pyspark"} ELSE {})])
                        ELSE Spoken(input.files[1], {})
            Modifiers(s, word) ==
                UNION {Range(g.tokens) \ {""} : g \in {h \in Range(s.groups) : h.word = word}}
            Langs(s) == IF Modifiers(s, "lang") = {} THEN s.langs ELSE Modifiers(s, "lang")
            Primary(s) == {g \in Range(s.groups) : g.word \notin {"lang", "kind", "meta"}}
            Keys(g) == Range(g.tokens) \ (IF g.word = "category:" THEN {""} ELSE {"", "bad"})
            Asks(g) == g.word \in {"when:", "example:", "category:"} /\ Keys(g) # {}
            Meets(s, item) ==
                /\ item.language = "any" \/ Langs(s) = {} \/ item.language \in Langs(s)
                /\ Modifiers(s, "kind") = {} \/ Modifiers(s, "kind") \cap item.kinds # {}
                /\ Modifiers(s, "meta") = {} \/ Modifiers(s, "meta") \cap item.metas # {}
                /\ \A g \in Primary(s) : Asks(g) => Keys(g) \cap item.constructs # {}
            Applies(c, item) ==
                /\ Passes(c, item)
                /\ c.scope = "when" => c.keys \cap item.constructs # {}
                /\ c.scope = "example" => c.keys = {} \/ c.keys \cap item.constructs # {}
            items == [language : {"any", "sparksql", "pyspark"}, constructs : SUBSET {"a", "b"},
                      kinds : {{}, {"step"}}, metas : {{}, {"hazard"}}]
            Odd(g) == Asks(g) /\ "bad" \in Range(g.tokens) /\ g.word # "category:"
        IN  IF result = {} THEN input.dir = "gone" \/ (input.dir = "unset" /\ input.path # "there")
            ELSE LET set == CHOOSE r \in result : TRUE
                 IN  /\ Len(set.chunks) = Len(sections)
                     /\ \A i \in DOMAIN sections, item \in items :
                           /\ Meets(sections[i], item) => Applies(set.chunks[i], item)
                           /\ Cardinality(Primary(sections[i])) < 2 =>
                                 (Applies(set.chunks[i], item) => Meets(sections[i], item))
                     /\ \A i \in DOMAIN sections, g \in UNION {Primary(s) : s \in Range(sections)} :
                           g \in Primary(sections[i]) =>
                               (g.word \notin {"topic", "example"} /\ (~Asks(g) \/ Odd(g)) => set.noted)

\* What is picked fits the budget and the operator's part of it, at most topK
\* of it by the query; nothing is picked for an item it is not meant for.
\* The corpus takes no rule's place nor a note's, and what has a claim is left
\* out only when it does not fit beside what was picked.
PicksAreEarned ==
    Answered("selection") =>
        LET s == input
            picks == result.picks
            ats   == Picked(picks)
            RulesIn(list) ==
                SelectSeq(list, LAMBDA p : p.tier \in {"always", "when", "example"})
            alone == [s EXCEPT !.chunks = [at \in DOMAIN @ |->
                         IF IsUser(s, at) THEN @[at] ELSE [@[at] EXCEPT !.cost = s.budget + 1]]]
            Costs(at) == s.chunks[at].cost
            users == {at \in ats : IsUser(s, at)}
            Met(at) == s.chunks[at].keys \cap Range(s.constructs) # {}
            Due(at) ==
                CASE s.chunks[at].scope = "always"  -> TRUE
                  [] s.chunks[at].scope = "when"    -> Met(at)
                  [] s.chunks[at].scope = "example" -> s.chunks[at].keys = {} \/ Met(at)
                  [] s.chunks[at].scope = "topic"   -> FALSE
                  [] OTHER -> \/ s.chunks[at].path \in s.pins
                              \/ s.chunks[at].keys \cap Range(s.constructs)
                                    \cap (s.hazards \cup (Range(s.constructs) \ s.stops)) # {}
        IN  /\ MapThenSumSet(Costs, ats) <= s.budget /\ Cardinality(ats) = Len(picks)
            /\ s.cap # -1 => MapThenSumSet(Costs, users) <= s.cap
            /\ Len(SelectSeq(picks, LAMBDA p : p.tier \in {"topic", "topical"})) <= s.topK
            /\ \A p \in Range(picks) :
                  /\ Passes(s.chunks[p.at], s)
                  /\ p.key = "" \/ p.key \in s.chunks[p.at].keys \cap Range(s.constructs)
                  /\ s.chunks[p.at].scope = "when" => p.key # ""
                  /\ p.tier = "construct" => p.key \notin s.stops
                  /\ p.tier = "topical" => \A at \in DOMAIN s.chunks \ ats :
                        s.chunks[at].scope = "topic" /\ Passes(s.chunks[at], s) =>
                            Exceeds(s, ats \cup {at})
                  /\ p.tier \in {"topic", "topical"} => s.chunks[p.at].scope \in {"topic", "reference"}
            /\ RulesIn(SelectDetailed(alone)) = RulesIn(picks)
            /\ \A at \in DOMAIN s.chunks \ ats :
                  Due(at) /\ Passes(s.chunks[at], s) => Exceeds(s, ats \cup {at})

\* A construct's further windows are picked only after the first window of
\* every other construct, or where it did not fit.
NoneIsCrowdedOut ==
    Answered("selection") =>
        LET s == input
            picks == result.picks
            WindowsOf(key) == {at \in DOMAIN s.chunks : ~IsUser(s, at) /\ key \in s.chunks[at].keys}
            FirstOf(key) == Min(WindowsOf(key))
        IN  \A n \in DOMAIN picks : \A key \in Range(s.constructs) :
                /\ picks[n].tier \in {"hazard", "construct"}
                /\ picks[n].at # FirstOf(picks[n].key)
                /\ WindowsOf(key) # {}
                /\ IF picks[n].tier = "hazard" THEN key \in s.hazards
                   ELSE key \notin s.hazards \cup s.stops
                => LET before == {picks[i].at : i \in 1..(n - 1)}
                   IN  FirstOf(key) \in before \/ Exceeds(s, before \cup {FirstOf(key)})

\* Everything picked is laid out once, the rules before the reference and the
\* examples last, each under members that have a construct of its own; and
\* with anything picked every hazard of the item is cautioned against.
GuidanceIsWhole ==
    Answered("selection") =>
        LET s == input
            listed == SelectSeq(result.blocks, LAMBDA b : b.block \in {"user", "reference", "examples"})
            entries == FlattenSeq([i \in DOMAIN listed |-> listed[i].content])
            hints == SelectSeq(result.blocks, LAMBDA b : b.block = "hints")
            place == [n \in DOMAIN entries |->
                         Min({i \in DOMAIN result.picks : result.picks[i].at = entries[n].at})]
        IN  /\ Len(entries) = Len(result.picks)
            /\ {entries[n].at : n \in DOMAIN entries} = Picked(result.picks)
            /\ \A n \in 1..(Len(entries) - 1) :
                  place[n] > place[n + 1] =>
                      \/ s.chunks[entries[n + 1].at].scope = "example"
                      \/ IsUser(s, entries[n].at) /\ ~IsUser(s, entries[n + 1].at)
            /\ \A n \in DOMAIN entries : \A m \in entries[n].members :
                  s.members[m] \cap s.chunks[entries[n].at].keys # {}
            /\ result.picks # << >> =>
                  LET hazards == Range(s.constructs) \cap s.hazards
                  IN  hazards # {} => hints # << >> /\ hints[1].content.hazards = hazards

\* No word of a document is lost or out of its order, and each chunk carries
\* the constructs of its sections.  A window is over its size only for what
\* it repeats or for one paragraph, and a chunk is under the least size only
\* where the next section is another parent's.
DocumentIsWhole ==
    Answered("document") =>
        LET d == input
            buffers == BufferSections(d)
            Words(window) == FlattenSeq(window)
            Join(read, words) ==
                LET shared == {n \in 0..Min({Len(read), Len(words)}) :
                                  SubSeq(words, 1, n) = SubSeq(read, Len(read) - n + 1, Len(read))}
                IN  read \o SubSeq(words, Max(shared) + 1, Len(words))
        IN  /\ FoldLeft(Join, << >>, [i \in DOMAIN result |-> Words(result[i].paras)])
                  = FlattenSeq(FlattenSeq([i \in DOMAIN d.sections |-> d.sections[i].paras]))
            /\ \A i \in DOMAIN d.sections : d.sections[i].key # "" =>
                  \A word \in Range(FlattenSeq(d.sections[i].paras)) : \E c \in Range(result) :
                      word \in Range(Words(c.paras)) /\ d.sections[i].key \in c.keys
            /\ \A c \in Range(result) :
                  \/ WeighAll(c.paras) <= d.most \/ Len(c.paras) = 1
                  \/ WeighAll(Front(c.paras)) <= d.overlap
            /\ \A buffer \in Range(buffers) : \A section \in Range(buffer) :
                  section.parent = buffer[1].parent
            /\ \A i \in 1..(Len(buffers) - 1) :
                  \/ buffers[i + 1][1].parent # buffers[i][1].parent
                  \/ Weigh([k \in DOMAIN buffers[i] |-> WeighAll(buffers[i][k].paras)]) >= d.least

\* What a prompt is given is what was asked for it.
GuidanceIsEarned ==
    /\ HistoryIsSelected
    /\ InstructionsApply
    /\ PicksAreEarned
    /\ NoneIsCrowdedOut
    /\ GuidanceIsWhole
    /\ DocumentIsWhole
===============================================================================
