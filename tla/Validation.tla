------------------------------ MODULE Validation ------------------------------
(***************************************************************************)
(* validation: the metrics a run is scored by, with and without a judge,   *)
(* and the runs rebuilt from a thread.  Scores are parts of Whole.         *)
(*                                                                         *)
(* A judge's reply is what structured output gave (parsed, {} if nothing)  *)
(* and a text: pieces of prose, JSON objects of the schema, and objects    *)
(* the schema refuses, fenced or not.  A unit is what the metrics see of   *)
(* an answer: whether it says anything, how much guidance was retrieved    *)
(* for it, whether it states a plan and steps, and the judge's replies.    *)
(***************************************************************************)
EXTENDS Cases, Integers, FiniteSets, SequencesExt, FiniteSetsExt, Functions

CONSTANTS
    Whole,        \* a full score, divisible by what the scores divide it by
    JudgedRuns,   \* runs a judge gives verdicts on
    DirectRuns,   \* runs a judge scores itself
    CodeRuns,     \* runs whose answers hold code
    Matches,      \* how alike the extracted and the expected memories are
    Leaks,        \* pairs of a note and the words of the answers
    Stored,       \* sets of verdicts stored for a thread
    Threads,      \* what became of the items of a thread's run
    Suites        \* names asked for

-----------------------------------------------------------------------------
(* What a metric returns *)

\* default_threshold of each metric, in twentieths.
Threshold ==
    [llm_judge |-> 12, prompt_alignment |-> 16, policy_adherence |-> 16,
     override_compliance |-> 18, answer_relevancy |-> 14, faithfulness |-> 14,
     hallucination |-> 16, contextual_precision |-> 12, contextual_relevancy |-> 10,
     plan_adherence |-> 14, analysis_summarization |-> 12, summarization |-> 12,
     task_completion |-> 14, response_coverage |-> 20, dataset_fidelity |-> 15,
     language_compliance |-> 20, target_syntax |-> 20, required_terms |-> 20,
     reference_similarity |-> 10, memory_extraction |-> 14, memory_leakage |-> 20]

Clip(score) == Max({0, Min({Whole, score})})

Scored(name, score) ==
    [metric |-> name, score |-> Clip(score), skipped |-> FALSE,
     passed |-> 20 * Clip(score) >= Threshold[name] * Whole]

\* No signal: a full score that always passes and counts for nothing.
NotScored(name) == [metric |-> name, score |-> Whole, skipped |-> TRUE, passed |-> TRUE]

PartOf(n, all) == (Whole * n) \div all
Total(numbers) == MapThenSumSet(LAMBDA i : numbers[i], DOMAIN numbers)
Mean(numbers) == Total(numbers) \div Len(numbers)

CaseResult(results) ==
    LET scores == SelectSeq(results, LAMBDA r : ~r.skipped)
    IN  [score  |-> IF scores = << >> THEN Whole
                    ELSE Mean([i \in DOMAIN scores |-> scores[i].score]),
         passed |-> \A r \in Range(results) : r.passed]

Report(cases) ==
    [score  |-> IF cases = << >> THEN 0 ELSE Mean([i \in DOMAIN cases |-> cases[i].score]),
     passed |-> cases # << >> /\ \A c \in Range(cases) : c.passed]

-----------------------------------------------------------------------------
(* The judge's replies *)

\* The text itself, then what is fenced, then the first object in braces.
JsonCandidates(text) ==
    LET fenced == SelectSeq(text, LAMBDA p : p.fenced)
        braced == SelectSeq(text, LAMBDA p : p.form # "prose")
    IN  (IF Len(text) = 1 /\ ~text[1].fenced THEN text ELSE << >>)
        \o fenced \o SubSeq(braced, 1, Min({1, Len(braced)}))

\* The list of the first candidate the schema accepts, as a set: {} for none.
ParseJsonReply(text) ==
    LET good == SelectSeq(JsonCandidates(text), LAMBDA p : p.form = "object")
    IN  IF good = << >> THEN {} ELSE {good[1].list}

Ask(reply) == IF reply.parsed # {} THEN reply.parsed ELSE ParseJsonReply(reply.text)

Extract(reply) == {SelectSeq(list, LAMBDA s : s # "") : list \in Ask(reply)}

\* As many verdicts as were asked for: padded with idk, or truncated.
ClassifyReply(reply, expected) ==
    {[i \in 1..expected |-> IF i <= Len(list) THEN list[i] ELSE "idk"] : list \in Ask(reply)}

Ratio(verdicts, accepted) ==
    IF verdicts = << >> THEN 0
    ELSE PartOf(Cardinality({i \in DOMAIN verdicts : verdicts[i] \in accepted}), Len(verdicts))

\* ScoreVerdict: an object without a score has 0.
Given(list) == IF list = << >> THEN 0 ELSE list[1]

\* Mutant: a reply nothing can be read from is let pass.
Unjudged(reply, expected, accepted) ==
    IF Ask(reply) = {} THEN Whole
    ELSE Max({0} \cup {Ratio(v, accepted) : v \in ClassifyReply(reply, expected)})

\* A reply nothing can be read from scores the unit 0.
Verdicts(reply, expected, accepted) ==
    Max({0} \cup {Ratio(v, accepted) : v \in ClassifyReply(reply, expected)})
Direct(reply) == Max({0} \cup {Clip(Given(list)) : list \in Ask(reply)})

\* Split, then judge each part; an answer without parts scores none.
Parts(first, second, accepted, none) ==
    Max({0} \cup {IF parts = << >> THEN none ELSE Verdicts(second, Len(parts), accepted) :
                      parts \in Extract(first)})

Lenient == {"yes", "idk"}
Strict  == {"yes"}

-----------------------------------------------------------------------------
(* The judged metrics, one unit at a time: {} when it is not judged *)

\* EvaluationRun.inputs: the prompts if there are any, else the recorded
\* prompt or the source.
Request(run, unit) ==
    IF run.prompts THEN unit.prompt ELSE unit.recorded \/ (run.items /\ unit.source)

\* The first of: the metric's own, the case's, the configuration's, the default.
Instructions(lists) ==
    LET given == SelectSeq(lists, LAMBDA n : n > 0)
    IN  IF given = << >> THEN 2 ELSE given[1]

Faithfulness(run, unit) ==
    IF unit.context > 0 /\ unit.answer
    THEN {Parts(unit.replies[1], unit.replies[2], Lenient, Whole)} ELSE {}

AnswerRelevancy(run, unit) ==
    IF Request(run, unit) /\ unit.answer
    THEN {Parts(unit.replies[1], unit.replies[2], Lenient, 0)} ELSE {}

ContextualRelevancy(run, unit) ==
    IF unit.context > 0 /\ Request(run, unit)
    THEN {Parts(unit.replies[1], unit.replies[2], Lenient, 0)} ELSE {}

\* The mean over the relevant ones of the precision up to each.
WeightedPrecision(relevant) ==
    LET found == {k \in DOMAIN relevant : relevant[k]}
    IN  IF found = {} THEN 0
        ELSE MapThenSumSet(LAMBDA k : PartOf(Cardinality({j \in found : j <= k}), k), found)
                 \div Cardinality(found)

ContextualPrecision(run, unit) ==
    IF run.reference /\ unit.context > 0
    THEN {Max({0} \cup {WeightedPrecision([k \in DOMAIN v |-> v[k] = "yes"]) :
                            v \in ClassifyReply(unit.replies[2], unit.context)})}
    ELSE {}

PromptAlignment(run, unit) ==
    IF unit.answer
    THEN {Verdicts(unit.replies[2], Instructions(run.instructions), Lenient)} ELSE {}

PolicyAdherence(run, unit) ==
    IF run.policy # << >> /\ unit.answer
    THEN {Verdicts(unit.replies[2], Len(run.policy), Lenient)} ELSE {}

\* Every note that says something, and every rule a note may not override.
Checks(run) ==
    Len(SelectSeq(run.notes, LAMBDA said : said))
    + Len(SelectSeq(run.policy, LAMBDA overridable : ~overridable))

OverrideCompliance(run, unit) ==
    IF run.notes # << >> /\ unit.answer
    THEN {Verdicts(unit.replies[2], Checks(run), Lenient)} ELSE {}

PlanAdherence(run, unit) ==
    IF unit.plan /\ unit.steps THEN {Direct(unit.replies[2])} ELSE {}

LLMJudge(run, unit) ==
    IF run.items \/ run.prompts THEN {((unit.grade - 1) * Whole) \div 4} ELSE {}

\* The worse of what the summary makes up and of what it leaves out.
ScorePair(replies) ==
    Min({Parts(replies[1], replies[2], Lenient, Whole),
         Parts(replies[3], replies[4], Strict, 0)})

AnalysisSummarization(run, unit) ==
    IF run.items /\ unit.source /\ unit.plan THEN {ScorePair(unit.replies)} ELSE {}

UnitScore(metric, run, unit) ==
    CASE metric = "faithfulness"           -> Faithfulness(run, unit)
      [] metric = "answer_relevancy"       -> AnswerRelevancy(run, unit)
      [] metric = "contextual_relevancy"   -> ContextualRelevancy(run, unit)
      [] metric = "contextual_precision"   -> ContextualPrecision(run, unit)
      [] metric = "prompt_alignment"       -> PromptAlignment(run, unit)
      [] metric = "policy_adherence"       -> PolicyAdherence(run, unit)
      [] metric = "override_compliance"    -> OverrideCompliance(run, unit)
      [] metric = "plan_adherence"         -> PlanAdherence(run, unit)
      [] metric = "llm_judge"              -> LLMJudge(run, unit)
      [] metric = "analysis_summarization" -> AnalysisSummarization(run, unit)

MeanOverUnits(metric, run) ==
    LET scores == FlattenSeq([i \in DOMAIN run.units |->
                      SetToSeq(UnitScore(metric, run, run.units[i]))])
    IN  IF scores = << >> THEN NotScored(metric) ELSE Scored(metric, Mean(scores))

-----------------------------------------------------------------------------
(* The judged metrics of a whole run *)

\* The ground truth of a unit: its source, and the reference translation.
ContextsAt(run, unit) ==
    IF ~unit.answer THEN 0
    ELSE (IF run.items /\ unit.source THEN 1 ELSE 0) + (IF run.reference THEN 1 ELSE 0)

\* Nothing read from a reply counts as every context contradicted.
Contradicted(run, unit) ==
    LET expected == ContextsAt(run, unit)
        verdicts == ClassifyReply(unit.replies[2], expected)
    IN  IF verdicts = {} THEN expected
        ELSE Cardinality({k \in 1..expected : \E v \in verdicts : v[k] = "no"})

Hallucination(run) ==
    LET all == Total([i \in DOMAIN run.units |-> ContextsAt(run, run.units[i])])
        bad == Total([i \in DOMAIN run.units |-> Contradicted(run, run.units[i])])
    IN  IF all = 0 THEN NotScored("hallucination")
        ELSE Scored("hallucination", Whole - PartOf(bad, all))

TaskCompletion(run) ==
    IF \A unit \in Range(run.units) : ~unit.answer THEN Scored("task_completion", 0)
    ELSE Scored("task_completion", Direct(run.units[1].replies[2]))

Summarization(run) ==
    IF run.summary THEN Scored("summarization", ScorePair(run.units[1].replies))
    ELSE NotScored("summarization")

Judged(metric, run) ==
    CASE metric = "hallucination"   -> Hallucination(run)
      [] metric = "task_completion" -> TaskCompletion(run)
      [] metric = "summarization"   -> Summarization(run)
      [] OTHER                      -> MeanOverUnits(metric, run)

JudgedMetricNames ==
    <<"llm_judge", "prompt_alignment", "policy_adherence", "override_compliance",
      "answer_relevancy", "faithfulness", "hallucination", "contextual_precision",
      "contextual_relevancy", "plan_adherence", "analysis_summarization", "summarization",
      "task_completion">>

MemoryMetricNames ==
    <<"memory_extraction", "memory_leakage", "policy_adherence", "override_compliance">>

\* The metrics asked for in the canonical order; {} when one is not known.
SuiteOf(names, asked) ==
    IF asked \subseteq Range(names) THEN {SelectSeq(names, LAMBDA n : n \in asked)} ELSE {}

-----------------------------------------------------------------------------
(* The metrics of code.  An answer is its sections, a block of code its tag, *)
(* the targets it parses in and the words it is made of.                    *)

FenceInfos == [sparksql |-> {"sql", "sparksql", "databrickssql"},
               pyspark  |-> {"python", "python3", "py", "pyspark"}]
ProseFences == {"sas", "text"}

OwnsFence(target, tag) == tag = "" \/ tag \in FenceInfos[target]

FencedBlocks(answer) == FlattenSeq([i \in DOMAIN answer |-> answer[i].blocks])

\* The first section headed Translation, or the whole answer.
TranslationRegion(answer) ==
    LET headed == SelectSeq(answer, LAMBDA s : s.heading = "translation")
    IN  IF headed = << >> THEN FencedBlocks(answer) ELSE headed[1].blocks

BlocksOf(run) == FlattenSeq([i \in DOMAIN run.answers |-> TranslationRegion(run.answers[i])])
TargetBlocks(run, target) == SelectSeq(BlocksOf(run), LAMBDA b : OwnsFence(target, b.tag))

WordsOf(answer) ==
    FlattenSeq([i \in DOMAIN answer |->
        FlattenSeq([j \in DOMAIN answer[i].blocks |-> answer[i].blocks[j].words])])
JoinedWords(run) == FlattenSeq([i \in DOMAIN run.answers |-> WordsOf(run.answers[i])])

TargetSyntax(run, target) ==
    LET blocks == TargetBlocks(run, target)
        parsed == SelectSeq(blocks, LAMBDA b : target \in b.parses)
    IN  IF blocks = << >> THEN Scored("target_syntax", 0)
        ELSE Scored("target_syntax", PartOf(Len(parsed), Len(blocks)))

LanguageCompliance(run, target) ==
    LET code == SelectSeq(BlocksOf(run), LAMBDA b : b.tag \notin ProseFences)
        mine == SelectSeq(code, LAMBDA b : OwnsFence(target, b.tag))
    IN  IF code = << >> THEN Scored("language_compliance", 0)
        ELSE Scored("language_compliance", PartOf(Len(mine), Len(code)))

\* One unit per item, else per prompt, else per answer.
ExpectedUnits(run) ==
    IF run.items # << >> THEN Len(run.items)
    ELSE IF run.prompts > 0 THEN run.prompts ELSE Len(run.answers)

ResponseCoverage(run) ==
    LET total == ExpectedUnits(run)
        said  == {i \in 1..Min({total, Len(run.answers)}) : run.answers[i] # << >>}
    IN  IF total = 0 THEN Scored("response_coverage", 0)
        ELSE Scored("response_coverage", PartOf(Cardinality(said), total))

\* A dataset is named lib.member: anywhere in a word, or a word that is member.
Mentions(name, words) ==
    \E w \in Range(words) :
        \/ \E i \in 1..(Len(w) - Len(name) + 1) : SubSeq(w, i, i + Len(name) - 1) = name
        \/ w = <<Last(name)>>

DatasetFidelity(run) ==
    LET paired   == 1..Min({Len(run.items), Len(run.answers)})
        expected == UNION {{i} \X run.items[i] : i \in paired}
        covered  == {e \in expected : Mentions(e[2], WordsOf(run.answers[e[1]]))}
    IN  IF expected = {} THEN NotScored("dataset_fidelity")
        ELSE Scored("dataset_fidelity", PartOf(Cardinality(covered), Cardinality(expected)))

RequiredTerms(run) ==
    LET found == SelectSeq(run.terms, LAMBDA t : t \in UNION {Range(w) : w \in Range(JoinedWords(run))})
    IN  IF run.terms = << >> THEN NotScored("required_terms")
        ELSE Scored("required_terms", PartOf(Len(found), Len(run.terms)))

Times(words, w) == Cardinality({i \in DOMAIN words : words[i] = w})
InCommon(a, b) ==
    MapThenSumSet(LAMBDA w : Min({Times(a, w), Times(b, w)}), Range(a))

\* The harmonic mean of precision and recall.
TokenF1(candidate, reference) ==
    LET common == InCommon(candidate, reference)
    IN  IF common = 0 THEN 0 ELSE PartOf(2 * common, Len(candidate) + Len(reference))

ReferenceSimilarity(run) ==
    IF run.golden = << >> THEN NotScored("reference_similarity")
    ELSE Scored("reference_similarity", TokenF1(JoinedWords(run), run.golden))

DefaultMetrics(run, target) ==
    <<ResponseCoverage(run), DatasetFidelity(run), LanguageCompliance(run, target),
      TargetSyntax(run, target), RequiredTerms(run), ReferenceSimilarity(run)>>

\* LiveValidator._evaluator_for: a run's own suite, unless the item fell back
\* to another target and nobody chose the metrics.
EvaluatedFor(chosen, own, translated) ==
    IF chosen \/ translated = "none" THEN own ELSE translated

ValidateItem(run, chosen, own, translated) ==
    CaseResult(DefaultMetrics(run, EvaluatedFor(chosen, own, translated)))

-----------------------------------------------------------------------------
(* Verdicts read back, and the rows of a report *)

\* validations_for_thread: in the order of their index, whatever the keys'.
ValidationsForThread(facts) ==
    SetToSortSeq(facts, LAMBDA a, b : a.index < b.index)

\* report_from_verdicts: the results are kept, the scores computed again.
ReportFromThread(facts) ==
    LET verdicts == ValidationsForThread(facts)
    IN  [i \in DOMAIN verdicts |-> [item |-> verdicts[i].item] @@ CaseResult(verdicts[i].results)]

ReportRows(cases, results) ==
    FlattenSeq([i \in DOMAIN cases |->
        [k \in DOMAIN results[i] |->
            [run |-> Report(cases).passed, case |-> cases[i].passed,
             item |-> cases[i].item, passed |-> results[i][k].passed]]])

-----------------------------------------------------------------------------
(* The memory metrics *)

\* Best first, one expectation for each extraction: the pairs taken.
GreedyMatches(alike) ==
    LET Before(p, q) ==
            \/ alike[p] > alike[q]
            \/ alike[p] = alike[q] /\ (p[1] > q[1] \/ (p[1] = q[1] /\ p[2] > q[2]))
        Pair(pairs, p) ==
            IF \E q \in pairs : q[1] = p[1] \/ q[2] = p[2] THEN pairs ELSE pairs \cup {p}
        close == {p \in DOMAIN alike : 20 * alike[p] >= 12 * Whole}
    IN  FoldLeft(Pair, {}, SetToSortSeq(close, Before))

MemoryExtraction(extracted, expected, alike) ==
    IF extracted + expected = 0 THEN NotScored("memory_extraction")
    ELSE Scored("memory_extraction",
                PartOf(2 * Cardinality(GreedyMatches(alike)), extracted + expected))

\* Four fifths of the note's words inside one stretch as long as the note.
Leaked(note, words) ==
    LET span == Len(note)
    IN  /\ note # << >> /\ words # << >>
        /\ \E start \in 0..Max({Len(words) - span, 0}) :
              5 * InCommon(note, SubSeq(words, start + 1, Min({start + span, Len(words)})))
                  >= 4 * span

MemoryLeakage(notes, words) ==
    LET leaked == SelectSeq(notes, LAMBDA n : Leaked(n, words))
    IN  IF notes = << >> \/ words = << >> THEN NotScored("memory_leakage")
        ELSE Scored("memory_leakage", Whole - PartOf(Len(leaked), Len(notes)))

-----------------------------------------------------------------------------
(* A run rebuilt from its thread.  Earlier turns stand before the items';  *)
(* retention drops the oldest; a failed item leaves a fact but no turn.    *)

Message(role, of) == [role |-> role, of |-> of]

\* What the turns of a run are stored as: item 0 for an earlier turn.
MessagesOf(thread) ==
    LET items == SelectSeq([i \in DOMAIN thread.ok |-> i], LAMBDA i : thread.ok[i])
        turns == [i \in 1..thread.earlier |-> 0] \o items
        kept  == SubSeq(turns, thread.dropped + 1, Len(turns))
    IN  thread.opening \o
        FlattenSeq([i \in DOMAIN kept |-> <<Message("human", kept[i]), Message("ai", kept[i])>>])

\* Each message of a human opens a turn, and so does the first of all.
GroupTurns(messages) ==
    LET opens == SetToSortSeq({i \in DOMAIN messages : i = 1 \/ messages[i].role = "human"}, <)
    IN  [t \in DOMAIN opens |->
            SubSeq(messages, opens[t],
                   IF t = Len(opens) THEN Len(messages) ELSE opens[t + 1] - 1)]

PairsFromMessages(messages) ==
    LET turns == GroupTurns(messages)
    IN  [t \in DOMAIN turns |-> [prompt |-> Head(turns[t]), response |-> Tail(turns[t])]]

\* The turn each fact labels: that of its index, the failed items' too.
ThreadItemIds(thread) == [i \in DOMAIN thread.ok |-> i]

Outputs(pairs, ids) ==
    [t \in DOMAIN pairs |->
        pairs[t] @@ [label |-> IF t \in DOMAIN ids THEN ids[t] ELSE 0]]

\* The turns the stored summary says it covers.
RollingSource(messages, covered) ==
    LET turns == GroupTurns(messages) IN SubSeq(turns, 1, Min({covered, Len(turns)}))

\* The notes of the thread and of the others, those that say something.
MemoryState(notes, own) ==
    LET Said(t) == {n \in notes[t] : n # ""}
    IN  [notes |-> Said(own), foreign |-> UNION {Said(t) : t \in DOMAIN notes \ {own}}]

RunFromThread(thread) ==
    LET messages == MessagesOf(thread)
    IN  [outputs |-> Outputs(PairsFromMessages(messages), ThreadItemIds(thread)),
         source  |-> RollingSource(messages, thread.covered),
         memory  |-> MemoryState(thread.notes, "own")]

-----------------------------------------------------------------------------
ValidationInit ==
    \/ Case("judged", JudgedRuns)
    \/ Case("direct", DirectRuns)
    \/ Case("code", CodeRuns)
    \/ Case("matches", Matches)
    \/ Case("leak", Leaks)
    \/ Case("verdicts", Stored)
    \/ Case("thread", Threads)
    \/ Case("suite", Suites)

ValidationStep ==
    \/ Answer("judged", Judged(input.metric, input.run))
    \/ Answer("direct", Judged(input.metric, input.run))
    \/ Answer("code", ValidateItem(input.run, input.chosen, input.own, input.translated))
    \/ Answer("matches", MemoryExtraction(input.extracted, input.expected, input.alike))
    \/ Answer("leak", MemoryLeakage(<<input.note>>, input.words))
    \/ Answer("verdicts", ReportFromThread(input))
    \/ Answer("thread", RunFromThread(input))
    \/ Answer("suite", SuiteOf(input.names, input.asked))

-----------------------------------------------------------------------------
(* Properties *)

With(run, i, k, reply) == [run EXCEPT !.units[i].replies[k] = reply]
Piece(form, fenced, list) == [form |-> form, fenced |-> fenced, list |-> list]
Remark == Piece("prose", FALSE, << >>)
Silence == [parsed |-> {}, text |-> <<Remark>>]

\* The ways a list may be put.
Forms(list) ==
    {[parsed |-> {list}, text |-> << >>]} \cup
    {[parsed |-> {}, text |-> t] :
        t \in {<<Piece("object", f, list)>> : f \in BOOLEAN}
              \cup {<<Remark, Piece("object", f, list), Remark>> : f \in BOOLEAN}
              \cup {<<Piece("refused", FALSE, << >>), Piece("object", TRUE, list)>>}}

\* A judge that answers with nothing that can be read earns no score by it,
\* in no metric and at no call, and makes none be skipped (judged.py,
\* rag_metrics.py: "scored as a contradiction rather than a free pass").
SilenceEarnsNothing ==
    Answered("judged") \/ Answered("direct") =>
        \A i \in DOMAIN input.run.units, k \in 1..4 :
            LET silent == Judged(input.metric, With(input.run, i, k, Silence))
            IN  silent.score <= result.score /\ silent.skipped = result.skipped

\* The score does not depend on how the judge puts its list: structured, as
\* bare JSON, in a fence, between remarks, or fenced after a broken draft.
FormIsNoMatter ==
    Answered("judged") \/ Answered("direct") =>
        \A i \in DOMAIN input.run.units, k \in 1..4 :
            \A list \in Ask(input.run.units[i].replies[k]) : \A form \in Forms(list) :
                Judged(input.metric, With(input.run, i, k, form)) = result

\* A verdict that turns from no to yes lowers no score; where the ranking is
\* what counts, a relevant text that moves up lowers none.
BetterIsNotWorse ==
    Answered("judged") =>
        \A i \in DOMAIN input.run.units : \A list \in Ask(input.run.units[i].replies[2]) :
            LET After(better) ==
                    Judged(input.metric, With(input.run, i, 2, [parsed |-> {better}, text |-> << >>]))
            IN  IF input.metric = "contextual_precision"
                THEN \A k \in 1..(Len(list) - 1) : list[k] = "no" /\ list[k + 1] = "yes" =>
                        After([list EXCEPT ![k] = "yes", ![k + 1] = "no"]).score >= result.score
                ELSE \A k \in DOMAIN list : list[k] = "no" =>
                        After([list EXCEPT ![k] = "yes"]).score >= result.score

\* An item whose suite passes is answered with code, all of it in the target
\* it was translated to and none that does not parse there; what an answer
\* shows under another heading has no part in that; and an item that fell
\* back is scored as a run of that target would be, unless the caller chose
\* the metrics.
PassingIsTranslated ==
    Answered("code") =>
        LET run    == input.run
            target == EvaluatedFor(input.chosen, input.own, input.translated)
            code   == SelectSeq(BlocksOf(run), LAMBDA b : b.tag \notin ProseFences)
            echo   == [heading |-> "analysis",
                       blocks |-> <<[tag |-> "sas", parses |-> {}, words |-> << >>],
                                    [tag |-> "", parses |-> {}, words |-> << >>]>>]
            echoed == [run EXCEPT !.answers =
                          [i \in DOMAIN @ |->
                              IF \E s \in Range(@[i]) : s.heading = "translation"
                              THEN <<echo>> \o @[i] ELSE @[i]]]
        IN  /\ result.passed =>
                  /\ code # << >>
                  /\ \A b \in Range(code) : OwnsFence(target, b.tag) /\ target \in b.parses
                  /\ \A i \in 1..ExpectedUnits(run) : run.answers[i] # << >>
            /\ LanguageCompliance(echoed, target) = LanguageCompliance(run, target)
            /\ TargetSyntax(echoed, target) = TargetSyntax(run, target)
            /\ ~input.chosen /\ input.translated # "none" =>
                  result = ValidateItem(run, FALSE, input.translated, "none")

\* No extraction satisfies two expectations and none is satisfied twice, no
\* close pair is left that both could still take, and the score is full only
\* when each has its own.
MatchesAreFair ==
    Answered("matches") =>
        LET alike   == input.alike
            matched == GreedyMatches(alike)
            Free(p) == \A q \in matched : q[1] # p[1] /\ q[2] # p[2]
        IN  /\ \A p, q \in matched : p[1] = q[1] \/ p[2] = q[2] => p = q
            /\ \A p \in DOMAIN alike : 20 * alike[p] >= 12 * Whole => ~Free(p) \/ p \in matched
            /\ result.score = Whole /\ ~result.skipped =>
                  input.extracted = input.expected /\ Cardinality(matched) = input.expected

\* A note quoted in an answer is found wherever it stands, and no text
\* around what was found hides it.
LeaksAreSeen ==
    Answered("leak") =>
        LET words == input.words
            Quoted == \E i \in DOMAIN words :
                SubSeq(words, i, Min({i + Len(input.note) - 1, Len(words)})) = input.note
        IN  /\ Quoted => ~result.passed
            /\ Leaked(input.note, words) =>
                  \A around \in {<<"a">>, <<"c", "c">>} :
                      /\ Leaked(input.note, around \o words)
                      /\ Leaked(input.note, words \o around)

\* The report of a thread's stored verdicts names its items in their order
\* and gives each the score and the pass it had, and a run that is logged as
\* failed has a row that says by which metric of which item.
VerdictsAreReported ==
    Answered("verdicts") =>
        LET stored == ValidationsForThread(input)
            rows   == ReportRows(result, [i \in DOMAIN stored |-> stored[i].results])
        IN  /\ {result[i].item : i \in DOMAIN result} = {f.item : f \in input}
            /\ \A i, j \in DOMAIN stored : i < j => stored[i].index < stored[j].index
            /\ \A i \in DOMAIN result : \E f \in input :
                  f.item = result[i].item /\ CaseResult(f.results).passed = result[i].passed
            /\ \A row \in Range(rows) : ~row.run =>
                  \E other \in Range(rows) : ~other.case /\ ~other.passed

\* Grouping a thread loses no message and never joins two of a human; a run
\* all of whose items succeeded, on a thread of its own nothing was dropped
\* from, is read back with each answer under its own item; and every note is
\* either the thread's or somebody else's.
ThreadIsReadBack ==
    Answered("thread") =>
        LET messages == MessagesOf(input)
            turns    == GroupTurns(messages)
        IN  /\ FlattenSeq(turns) = messages
            /\ \A t \in DOMAIN turns : \A k \in 2..Len(turns[t]) : turns[t][k].role # "human"
            /\ input.earlier = 0 /\ input.dropped = 0 /\ input.opening = << >>
               /\ (\A i \in DOMAIN input.ok : input.ok[i]) =>
                  \A t \in DOMAIN result.outputs :
                      /\ result.outputs[t].label = t
                      /\ result.outputs[t].prompt.of = t
                      /\ result.outputs[t].response = <<Message("ai", t)>>
            /\ result.memory.notes \cup result.memory.foreign =
                  UNION {input.notes[t] \ {""} : t \in DOMAIN input.notes}

\* A suite has what was asked for and nothing else, in an order that does
\* not depend on how it was asked for.
SuitesAreComparable ==
    Answered("suite") =>
        IF input.asked \subseteq Range(input.names)
        THEN \A suite \in result : Range(suite) = input.asked /\ Len(suite) = Cardinality(input.asked)
        ELSE result = {}

\* What the metrics say is earned by what they measured.
ScoresAreEarned ==
    /\ SilenceEarnsNothing
    /\ FormIsNoMatter
    /\ BetterIsNotWorse
    /\ PassingIsTranslated
    /\ MatchesAreFair
    /\ LeaksAreSeen
    /\ VerdictsAreReported
    /\ ThreadIsReadBack
    /\ SuitesAreComparable
===============================================================================
