--------------------------- MODULE ComplexityScore ---------------------------
(***************************************************************************)
(* How much work a file is (complexity/analyzer, scoring, sizing, tiers),  *)
(* by which catalogue of constructs (rules), and which target a unit is    *)
(* translated to (fallback).  Weights and counts are in tenths, a line is  *)
(* a block of ten; blends are in thousandths.                              *)
(***************************************************************************)
EXTENDS FileDependencies

CONSTANTS
    ScoredItems,   \* sequences of [batch, chunks], what the pipeline iterates
    ScaleEnds,     \* pairs of story points, 0 for the end the scale has
    ProfileSets    \* functions from a profile's name to its document

-----------------------------------------------------------------------------
(* SizeModel, with the defaults a profile that omits its sizes has *)

Sizes  == <<"SMALL", "MEDIUM", "LARGE", "EXTRA_LARGE">>
Anchor == 180
Scale  == <<20, 30, 50, 80>>     \* points of each size
Bands  == <<25, 40, 65>>         \* upper bounds, the last size's left open
Deck   == {10, 20, 30, 50, 80, 130, 210, 340}
Bounds == [effort |-> <<35, 240>>, complexity |-> <<35, 140>>, uncertainty |-> <<0, 50>>]
Reach  == [effort |-> 880, complexity |-> 500, uncertainty |-> 200]

\* The binary logarithm, by its chords between the powers of two.
Log(x) ==
    LET k == CHOOSE k \in 0..20 : 2^k <= x /\ x < 2^(k + 1)
    IN  1000 * k + (1000 * (x - 2^k)) \div 2^k

LogFraction(x, low, high) ==
    IF low >= high THEN 0 ELSE (1000 * (Log(x) - Log(low))) \div (Log(high) - Log(low))

Clamped(x) == Max({0, Min({1000, x})})

Normalize(dimension, raw) ==
    LET low  == (Bounds[dimension][1] * Anchor) \div 100
        high == (Bounds[dimension][2] * Anchor) \div 100
    IN  Clamped((1000 * (Log(raw + 10) - Log(low + 10))) \div (Log(high + 10) - Log(low + 10)))

BlendFor(raws) ==
    Min({1000, MapThenSumSet(LAMBDA d : (Normalize(d, raws[d]) * Reach[d]) \div 1000,
                             DOMAIN raws)})

StoryPointRange(ends) ==
    <<IF ends[1] = 0 THEN Scale[1] ELSE ends[1],
      IF ends[2] = 0 THEN Scale[4] ELSE ends[2]>>

\* What band_for reads back from the points of a blend: points_for rescales
\* geometrically, so this is the blend, unless the range is no range.
PositionOf(ends, blend) ==
    LET range == StoryPointRange(ends) IN IF range[1] < range[2] THEN blend ELSE 0

\* The first size whose band, a fraction of the profile's own scale, reaches it.
BandFor(position) ==
    Min({4} \cup {s \in 1..3 : position <= LogFraction(Bands[s], Scale[1], Scale[4])})

\* The exact place of a size on another scale, as a logarithm.
PlaceOf(size, ends) ==
    LET range == StoryPointRange(ends)
    IN  Log(range[1]) + (LogFraction(Scale[size], Scale[1], Scale[4])
                         * (Log(range[2]) - Log(range[1]))) \div 1000

\* The card of the deck nearest to a place.
Snapped(place) ==
    LET Away(card) == Max({Log(card) - place, place - Log(card)})
    IN  CHOOSE card \in Deck : \A other \in Deck :
            Away(card) < Away(other) \/ (Away(card) = Away(other) /\ card <= other)

\* The logarithm of the points each size is reported as: the ends as asked
\* for, a card between them where there is one above the rung before.
RungPoints(ends) ==
    LET range == StoryPointRange(ends)
        Rung(size, previous) ==
            LET card == Log(Snapped(PlaceOf(size, ends)))
            IN  IF previous < card /\ card < Log(range[2]) THEN card ELSE PlaceOf(size, ends)
        second == Rung(2, Log(range[1]))
    IN  IF range = <<Scale[1], Scale[4]>> THEN [s \in 1..4 |-> Log(Scale[s])]
        ELSE <<Log(range[1]), second, Rung(3, second), Log(range[2])>>

-----------------------------------------------------------------------------
(* ComplexityAnalyzer: a chunk has the fields the dependencies are found   *)
(* by, and kind, source, lines, steps, constructs, updates, unclosed.      *)

Volume   == [chunk |-> 5, line |-> 1, step |-> 10, io |-> 10]
TierCost == [LOW |-> 10, MEDIUM |-> 25, HIGH |-> 50]
Parities == <<"DIRECT", "SUPPORTED", "PARTIAL", "HARD", "MANUAL">>
ParityCost(p) == <<0, 5, 15, 30, 50>>[IndexFirstSubSeq(<<p>>, Parities)]
MinSizeByKind == [MACRO_DEFINITION |-> 2]

\* The catalogue the cases are scored by: constructs, flags and references.
Catalogue ==
    [sort     |-> [tier |-> "LOW", parity |-> "DIRECT"],
     hash     |-> [tier |-> "HIGH", parity |-> "MANUAL"],
     dataset  |-> [tier |-> "LOW", parity |-> "SUPPORTED"],
     macro    |-> [tier |-> "MEDIUM", parity |-> "PARTIAL"],
     macrovar |-> [tier |-> "LOW", parity |-> "SUPPORTED"],
     libref   |-> [tier |-> "LOW", parity |-> "PARTIAL"],
     MACRO_DEFINITION |-> [tier |-> "MEDIUM", parity |-> "PARTIAL"]]

\* Mutant: comments are scored.
EveryChunk(chunks) == chunks

\* _analysable: comments are not work.
Analysable(chunks) == SelectSeq(chunks, LAMBDA c : c.kind # "COMMENT_BLOCK")

FlatChunks(items) == FlattenSeq([i \in DOMAIN items |-> items[i].chunks])

OfSource(chunks, source) == SelectSeq(chunks, LAMBDA c : c.source = source)

\* What the index is built from: the analysable chunks of each file.
Indexed(items) ==
    LET chunks == Analysable(FlatChunks(items))
    IN  [f \in {c.source : c \in Range(chunks)} |-> OfSource(chunks, f)]

RefsOf(corpus, c) ==
    MacroRefs(corpus, c.source, c) \cup DatasetRefs(corpus, c.source, c)
    \cup MacroVarRefs(corpus, c.source, c) \cup LibrefRefs(corpus, c.source, c)

\* The signals of a chunk, each construct once; what the catalogue does not
\* list is none.
SignalsOf(corpus, c) ==
    {[name |-> n, way |-> "here"] : n \in (c.constructs \cup {c.kind}) \cap DOMAIN Catalogue}
    \cup {[name |-> r.what, way |-> r.way] : r \in RefsOf(corpus, c)}

IoOf(c) == Cardinality(c.reads) + Cardinality(c.creates \cup c.updates) + Cardinality(c.sets)

EffortRaw(chunks) ==
    LET Of(c) == Volume.chunk + c.steps * Volume.step + IoOf(c) * Volume.io
    IN  FoldLeft(LAMBDA sum, c : sum + Of(c), 0, chunks)
        + Cardinality(UNION {c.lines : c \in Range(chunks)}) * Volume.line

ComplexityRaw(signals) ==
    MapThenSumSet(LAMBDA s : TierCost[Catalogue[s.name].tier]
                             + ParityCost(Catalogue[s.name].parity), signals)

UncertaintyRaw(chunks, signals, diagnostics) ==
    30 * Cardinality({s \in signals : s.way = "unresolved"})
    + 40 * Len(SelectSeq(chunks, LAMBDA c : c.unclosed))
    + 20 * Len(SelectSeq(chunks, LAMBDA c : c.kind = "UNKNOWN"))
    + 15 * diagnostics

\* The kinds of a file's chunks say how small it may be.
LeastSize(chunks) ==
    Max({1} \cup {MinSizeByKind[c.kind] : c \in {c \in Range(chunks) :
                                                  c.kind \in DOMAIN MinSizeByKind}})

SizeFor(raws, chunks) == Max({BandFor(BlendFor(raws)), LeastSize(chunks)})

\* _file_datasets: what a file creates itself is no input of it.
FileInputs(chunks) ==
    LET created == UNION {c.creates \ c.updates : c \in Range(chunks)}
    IN  UNION {c.reads \cup c.bodyReads : c \in Range(chunks)} \ created

\* The batches a file is cut at when it is too large.
BatchesOf(items, source) ==
    {i \in DOMAIN items : items[i].batch /\ \E c \in Range(items[i].chunks) : c.source = source}

FileComplexity(items, corpus, source, diagnostics) ==
    LET chunks  == Analysable(OfSource(FlatChunks(items), source))
        signals == UNION {SignalsOf(corpus, c) : c \in Range(chunks)}
        raws == [effort |-> EffortRaw(chunks), complexity |-> ComplexityRaw(signals),
                 uncertainty |-> UncertaintyRaw(chunks, signals, diagnostics)]
        size == SizeFor(raws, chunks)
    IN  [size |-> size, raws |-> raws, chunks |-> Len(chunks), inputs |-> FileInputs(chunks),
         imports |-> {r.subject : r \in {r \in UNION {RefsOf(corpus, c) : c \in Range(chunks)} :
                                             r.what = "dataset" /\ r.way = "import"}},
         split |-> IF size = 4 THEN BatchesOf(items, source) ELSE {}]

\* analyze_items: a file for every source, one of nothing but comments too.
AnalyzeItems(items) ==
    LET corpus == Indexed(items)
    IN  [f \in {c.source : c \in Range(FlatChunks(items))} |->
            FileComplexity(items, corpus, f, 0)]

-----------------------------------------------------------------------------
(* load_ruleset: a document has entries, groups, anchor, extends, broken;  *)
(* one construct is followed, spelled "x" or "X".                          *)

\* dict.update: a key keeps its place.
Put1(entries, e) ==
    IF \E i \in DOMAIN entries : entries[i].key = e.key
    THEN [i \in DOMAIN entries |-> IF entries[i].key = e.key THEN e ELSE entries[i]]
    ELSE Append(entries, e)

Updated(entries, more) == FoldLeft(Put1, entries, more)

\* Groups come first, in lower case, so that a named entry overrides them.
ExpandGroups(doc) ==
    Updated(FoldLeft(LAMBDA all, spec : Put1(all, [key |-> "x", spec |-> spec]), << >>, doc.groups),
            doc.entries)

\* A child over its parent: by construct, and one level into the sizes.
MergeRaw(base, child) ==
    [entries |-> Updated(base.entries, child.entries), broken |-> base.broken \/ child.broken,
     anchor  |-> [part \in DOMAIN base.anchor |->
                     IF child.anchor[part] # 0 THEN child.anchor[part] ELSE base.anchor[part]]]

Unreadable == [entries |-> << >>, anchor |-> [raw |-> 0, dimensions |-> 0], broken |-> TRUE]

RECURSIVE ReadProfile(_, _, _)
ReadProfile(profiles, name, seen) ==
    LET doc == profiles[name]
        own == [entries |-> ExpandGroups(doc), anchor |-> doc.anchor, broken |-> doc.broken]
    IN  IF doc.extends = "none" THEN own
        ELSE IF doc.extends \in seen \cup {name} \/ doc.extends \notin DOMAIN profiles
             THEN Unreadable
        ELSE MergeRaw(ReadProfile(profiles, doc.extends, seen \cup {name}), own)

\* The rating of the construct, "unlisted" if there is none; an anchor whose
\* split is not its total is refused.
RuleSetFrom(doc) ==
    LET raw == IF doc.anchor.raw = 0 THEN Anchor ELSE doc.anchor.raw
    IN  IF doc.broken \/ doc.anchor.dimensions \notin {0, raw} THEN "error"
        ELSE IF doc.entries = << >> THEN "unlisted" ELSE Last(doc.entries).spec

LoadRuleset(profiles, name) == RuleSetFrom(ReadProfile(profiles, name, {}))

RankOf(spec) == IF spec = "unlisted" THEN 1 ELSE IndexFirstSubSeq(<<spec>>, Parities)

\* The target the construct is translated to.
ChooseTarget(run, fallback) ==
    IF "error" \in {run, fallback} THEN "error"
    ELSE IF run \in {"HARD", "MANUAL"} /\ RankOf(run) > RankOf(fallback) THEN "fallback" ELSE "run"

-----------------------------------------------------------------------------
ScoreInit ==
    \/ Case("scores", ScoredItems) \/ Case("scale", ScaleEnds) \/ Case("profiles", ProfileSets)

Blends == {50 * n : n \in 0..20}

ScoreStep ==
    \/ Answer("scores", AnalyzeItems(input))
    \/ Answer("scale", [rungs |-> RungPoints(input),
                        sizes |-> [b \in Blends |-> BandFor(PositionOf(input, b))]])
    \/ Answer("profiles", [run |-> LoadRuleset(input, "sparksql"),
                           other |-> LoadRuleset(input, "pyspark"),
                           target |-> ChooseTarget(LoadRuleset(input, "sparksql"),
                                                   LoadRuleset(input, "pyspark"))])

-----------------------------------------------------------------------------
(* What an estimate is worth *)

Uncommented(items) ==
    [i \in DOMAIN items |->
        [items[i] EXCEPT !.chunks = SelectSeq(@, LAMBDA c : c.kind # "COMMENT_BLOCK")]]

Apart(items) ==
    LET chunks == FlatChunks(items)
    IN  [i \in DOMAIN chunks |-> [batch |-> FALSE, chunks |-> <<chunks[i]>>]]

\* Every file of the corpus is reported, one of nothing but comments as the
\* smallest (analyzer.py:379-381); a comment makes no file more work, however
\* it comes between the steps (analyzer.py:88-94).
CommentsCostNothing ==
    LET bare == AnalyzeItems(Uncommented(input))
    IN  /\ DOMAIN result = {c.source : c \in Range(FlatChunks(input))}
        /\ \A f \in DOMAIN result :
              IF f \in DOMAIN bare
              THEN [result[f] EXCEPT !.split = {}] = [bare[f] EXCEPT !.split = {}]
              ELSE result[f].size = 1 /\ result[f].chunks = 0

\* A file is as large however its chunks are batched (analyzer.py:526-528),
\* never smaller than its kinds allow, and offered its batches as cut points
\* if and only if it is of the size that says to split it.
BatchingMovesNoSize ==
    LET apart == AnalyzeItems(Apart(input))
    IN  \A f \in DOMAIN result :
            /\ result[f].size = apart[f].size /\ result[f].raws = apart[f].raws
            /\ \A c \in Range(OfSource(FlatChunks(input), f)) :
                  c.kind = "MACRO_DEFINITION" => result[f].size >= 2
            /\ result[f].split # {} => result[f].size = 4
            /\ result[f].size = 4 =>
                  \A i \in DOMAIN input : input[i].batch =>
                      (i \in result[f].split
                       <=> f \in {c.source : c \in Range(input[i].chunks)})

\* What the coupling section of a file's report says it imports, its datasets
\* section lists among its inputs (scoring.py:120-125): the two are found by
\* different searches.
ImportsAreInputs == \A f \in DOMAIN result : result[f].imports \subseteq result[f].inputs

\* Other story points move no size (SizeModel, sizing.py:228-235), as long as
\* they are a range; its ends are reported as asked, the others between them.
PointsMoveNoSize ==
    LET range == StoryPointRange(input)
    IN  range[1] < range[2] =>
            /\ \A b \in Blends : result.sizes[b] = BandFor(b)
            /\ result.rungs[1] = Log(range[1]) /\ result.rungs[4] = Log(range[2])
            /\ \A s \in 2..3 : result.rungs[s] \in result.rungs[1]..result.rungs[4]

\* The documents from a profile to the last it extends.
Chain(profiles, name) ==
    LET upto[n \in 1..3] ==
            IF n = 1 THEN <<name>>
            ELSE LET above == profiles[Last(upto[n - 1])].extends
                 IN  IF above \in DOMAIN profiles THEN Append(upto[n - 1], above)
                     ELSE upto[n - 1]
    IN  upto[3]

OneSpelling(docs) ==
    \A i, j \in DOMAIN docs : \A e \in Range(docs[i].entries), g \in Range(docs[j].entries) :
        e.key = "x" /\ g.key = "x"

\* A construct is rated as the nearest document that names it says, a name
\* before a group (_expand_groups, _merge_raw), if no spelling of it differs.
\* A unit is moved to the other target for a construct it rates better only:
\* one that the extending profile does not restate is no reason to move.
NearestSays ==
    LET chain == Chain(input, "pyspark")
        docs  == [i \in DOMAIN chain |-> input[chain[i]]]
        says  == {i \in DOMAIN docs : docs[i].entries # << >> \/ docs[i].groups # << >>}
        Said(doc) == IF doc.entries # << >> THEN Last(doc.entries).spec ELSE Last(doc.groups)
    IN  /\ result.other # "error" /\ OneSpelling(docs) =>
               result.other = IF says = {} THEN "unlisted" ELSE Said(docs[Min(says)])
        /\ result.target = "fallback" /\ input["pyspark"].extends = "sparksql" =>
               1 \in says
        /\ \E i \in DOMAIN docs : docs[i].extends = chain[1] => result.other = "error"

\* All of them: a size, and the catalogue it is read from, depend on nothing else.
SizesAreEarned ==
    /\ Answered("scores") => CommentsCostNothing /\ BatchingMovesNoSize /\ ImportsAreInputs
    /\ Answered("scale") => PointsMoveNoSize
    /\ Answered("profiles") => NearestSays
==============================================================================
