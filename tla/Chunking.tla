------------------------------- MODULE Chunking -------------------------------
(***************************************************************************)
(* chunker.chunker and chunker.scanner: a SAS source becomes statements    *)
(* (units), the units regions, and the regions chunks.                     *)
(*                                                                         *)
(* A source is a sequence of tokens: "w" a word, "nl" white space, ";",    *)
(* "'" a quote, "%'" an escaped one, "/*" and "*/", "(" and ")", "%str("   *)
(* a macro quoting function, "*" the start of a comment statement, "call"  *)
(* a macro call, "cards" the keyword that opens in-stream data.            *)
(***************************************************************************)
EXTENDS Cases, Integers, Sequences, FiniteSets, SequencesExt, FiniteSetsExt, Functions

CONSTANTS
    SourceTexts,   \* the token sequences to scan
    UnitLists,     \* the lists of units to group: [kind, words, ended]
    ShortLists,    \* those whose parse may run out of time
    MaxWords,      \* sas_chunker.max_words
    OverlapWords   \* words a child repeats of the one before it

ScanInit == Case("scan", SourceTexts)

-----------------------------------------------------------------------------
(* Tokens *)

Blank(t) == t = "nl"
IsQuote(t) == t \in {"'", "%'"}

\* The first place from p on whose token is in wanted, 0 if none is.
Find(text, wanted, p) ==
    Min({Len(text) + 1} \cup {j \in p..Len(text) : text[j] \in wanted}) % (Len(text) + 1)

\* _ws_end
WsEnd(text, p) == Min({Len(text) + 1} \cup {j \in p..Len(text) : ~Blank(text[j])})

OrEnd(text, p) == IF p = 0 THEN Len(text) ELSE p

\* _string_end: past the closing quote, a doubled one escaping; 0 if it never closes.
RECURSIVE StringEnd(_, _)
StringEnd(text, p) ==
    LET close == Find(text, {"'", "%'"}, p)
    IN  IF close = 0 THEN 0
        ELSE IF close < Len(text) /\ text[close + 1] = "'" THEN StringEnd(text, close + 2)
        ELSE close + 1

\* _macro_quote_end: past the parenthesis that closes the argument at p.
RECURSIVE QuoteEnd(_, _, _)
QuoteEnd(text, p, open) ==
    IF open = 0 THEN p
    ELSE IF p > Len(text) THEN 0
    ELSE CASE text[p] \in {"(", "%str("} -> QuoteEnd(text, p + 1, open + 1)
           [] text[p] = ")" -> QuoteEnd(text, p + 1, open - 1)
           [] text[p] = "/*" ->
                LET close == Find(text, {"*/"}, p + 1)
                IN  IF close = 0 THEN 0 ELSE QuoteEnd(text, close + 1, open)
           [] text[p] = "'" ->
                LET close == StringEnd(text, p + 1)
                IN  IF close = 0 THEN 0 ELSE QuoteEnd(text, close, open)
           [] OTHER -> QuoteEnd(text, p + 1, open)

MacroQuoteEnd(text, p) == QuoteEnd(text, p, 1)

-----------------------------------------------------------------------------
(* Units: [from, to, role, ended], of the tokens from..to *)

Unit(from, to, role, ended) == [from |-> from, to |-> to, role |-> role, ended |-> ended]
TextOf(text, u) == SubSeq(text, u.from, u.to)

\* _statement_role
RoleOf(text, from, to) ==
    LET first == WsEnd(text, from) IN IF first <= to /\ text[first] = "*" THEN "comment" ELSE "code"

\* _opens_statement: what may follow a call that ends before its statement.
OpensStatement(text, p, to) == p <= to /\ text[p] \in {"call", "*", "cards"}

\* _split_after_calls, for calls without arguments: a cut after each leading
\* call that another statement follows.
RECURSIVE SplitAfterCalls(_, _)
SplitAfterCalls(text, u) ==
    LET first == WsEnd(text, u.from)
        next == WsEnd(text, first + 1)
    IN  IF u.role # "code" \/ first > u.to \/ text[first] # "call" THEN <<u>>
        ELSE IF next > u.to THEN <<[u EXCEPT !.ended = TRUE]>>
        ELSE IF OpensStatement(text, next, u.to)
        THEN <<Unit(u.from, next - 1, "code", TRUE)>>
             \o SplitAfterCalls(text, Unit(next, u.to, RoleOf(text, next, u.to), u.ended))
        ELSE <<u>>

\* _IN_STREAM_RE matches the unit's statement.
OpensData(text, u, term) ==
    LET first == WsEnd(text, u.from)
    IN  u.role = "code" /\ first < term /\ text[first] = "cards" /\ WsEnd(text, first + 1) = term

\* _in_stream_units: data up to the line that holds a semicolon.
DataAfter(text, start) ==
    LET semi == Find(text, {";"}, start)
        lines == {j \in start..(semi - 1) : Blank(text[j])}
        stop == IF semi = 0 THEN Len(text) + 1 ELSE IF lines = {} THEN start ELSE Max(lines) + 1
    IN  [units |-> IF stop <= start THEN << >> ELSE <<Unit(start, stop - 1, "datalines", semi # 0)>>,
         at |-> stop]

\* The ";" at place term ends the statement begun at from.
EndStatement(text, st, from, term) ==
    LET pieces == SplitAfterCalls(text, Unit(from, WsEnd(text, term + 1) - 1, RoleOf(text, from, term), TRUE))
        opens == OpensData(text, Last(pieces), term)
        line == OrEnd(text, Find(text, {"nl"}, term + 1))
        data == DataAfter(text, line + 1)
    IN  IF opens
        THEN [at |-> data.at, from |-> 0,
              units |-> st.units \o Front(pieces) \o <<[Last(pieces) EXCEPT !.to = line]>> \o data.units]
        ELSE [at |-> Last(pieces).to + 1, from |-> 0, units |-> st.units \o pieces]

\* A block comment: a unit of its own where no statement has begun.
Comment(text, st, from) ==
    LET close == Find(text, {"*/"}, st.at + 1)
        end == IF close = 0 THEN Len(text) + 1 ELSE WsEnd(text, close + 1)
    IN  IF \A j \in from..(st.at - 1) : Blank(text[j])
        THEN [at |-> end, from |-> 0, units |-> Append(st.units, Unit(from, end - 1, "comment", close # 0))]
        ELSE [st EXCEPT !.at = OrEnd(text, close) + 1, !.from = from]

\* _scan_units, one event.
ScanEvent(text, st) ==
    LET from == IF st.from = 0 THEN st.at ELSE st.from
        t == text[st.at]
        past(p) == [st EXCEPT !.at = IF p = 0 THEN Len(text) + 1 ELSE p, !.from = from]
    IN  CASE IsQuote(t) -> past(StringEnd(text, st.at + 1))
          [] t = "/*" -> Comment(text, st, from)
          [] t = "%str(" ->
                LET close == MacroQuoteEnd(text, st.at + 1)
                IN  past(IF close = 0 THEN st.at + 1 ELSE close)
          [] t = ";" -> EndStatement(text, st, from, st.at)
          [] OTHER -> past(st.at + 1)

\* The fragment left when the source ends.
Trailing(text, st) ==
    IF st.from = 0 \/ WsEnd(text, st.from) > Len(text) THEN st.units
    ELSE st.units \o SplitAfterCalls(text,
            Unit(st.from, Len(text), RoleOf(text, st.from, Len(text)), FALSE))

RECURSIVE Scanned(_, _)
Scanned(text, st) ==
    IF st.at > Len(text) THEN Trailing(text, st) ELSE Scanned(text, ScanEvent(text, st))

Units(text) == Scanned(text, [at |-> 1, from |-> 0, units |-> << >>])

\* _sanitise: where what it blanks from place p on ends, 0 for the source's end.
Blanked(text, p) ==
    CASE text[p] = "/*" -> Find(text, {"*/"}, p + 1) + (IF Find(text, {"*/"}, p + 1) = 0 THEN 0 ELSE 1)
      [] IsQuote(text[p]) -> StringEnd(text, p + 1)
      [] text[p] = "%str(" ->
            LET close == MacroQuoteEnd(text, p + 1) IN IF close = 0 THEN p + 1 ELSE close
      [] OTHER -> p + 1

\* The places of the semicolons it leaves from p on.
RECURSIVE LiveSemicolons(_, _)
LiveSemicolons(text, p) ==
    IF p = 0 \/ p > Len(text) THEN {}
    ELSE {j \in {p} : text[j] = ";"} \cup LiveSemicolons(text, Blanked(text, p))

ScanStep ==
    subject = "scan" /\
    Answer("scan", LET units == Units(input)
                   IN  [units |-> units,
                        live |-> [n \in DOMAIN units |-> LiveSemicolons(TextOf(input, units[n]), 1)]])

-----------------------------------------------------------------------------
(* Regions: [kind, first, last, unclosed], of the units first..last *)

Never == <<"never", 0>>
ChunksInit ==
    Case("chunks", [units : UnitLists, expiry : {Never}]
                   \cup [units : ShortLists, expiry : {"scan", "group", "build"} \X (1..2)])

\* "sql" stands for any PROC of RUN_GROUP_PROCS but DS2, which holds DATA
\* programs of its own; "proc" for any other PROC.
RunGroups == {"sql", "ds2"}
Steps == {"data", "proc"} \cup RunGroups
Openers == Steps \cup {"macro"}

Region(kind, first, last, unclosed) ==
    [kind |-> kind, first |-> first, last |-> last, unclosed |-> unclosed]

Nests(kind, unit) == kind = "macro" /\ unit = "macro"

\* _collect_block from place i on: <<its last unit, whether it is unclosed>>.
\* run is the last RUN of a PROC that runs in groups, 0 if none: RUN executes
\* a group and the PROC stays active, QUIT ends it.
RECURSIVE BlockEnd(_, _, _, _, _)
BlockEnd(units, start, i, depth, run) ==
    LET kind == units[start].kind
        u == units[i].kind
        cut(otherwise) == IF run # 0 THEN <<run, FALSE>> ELSE <<otherwise, TRUE>>
        on(d, r) == BlockEnd(units, start, i + 1, d, r)
    IN  IF i > Len(units) THEN cut(Len(units))
        ELSE IF u \in Openers /\ i # start /\ kind \in Steps /\ ~(kind = "ds2" /\ u = "data")
        THEN cut(i - 1)
        ELSE IF i # start /\ Nests(kind, u) THEN on(depth + 1, run)
        ELSE IF kind = "macro" /\ u = "mend"
        THEN IF depth = 0 THEN <<i, FALSE>> ELSE on(depth - 1, run)
        ELSE IF kind \in Steps /\ u = "quit" THEN <<i, FALSE>>
        ELSE IF kind \in Steps /\ u = "run"
        THEN IF kind \in RunGroups THEN on(depth, i) ELSE <<i, FALSE>>
        ELSE on(depth, run)

\* flush_unknown: the units from..i - 1 that nothing recognised.
Flushed(units, from, i, regions) ==
    IF from = i THEN regions
    ELSE Append(regions, Region("unknown", from, i - 1, \E j \in from..(i - 1) : ~units[j].ended))

Recognised(kind) == kind \in {"let", "run", "quit", "comment"}

\* _group_regions at unit i, the units from..i - 1 being unknown so far; it
\* stops before unit limit.
RECURSIVE GroupedRegions(_, _, _, _, _)
GroupedRegions(units, i, from, regions, limit) ==
    LET before == Flushed(units, from, i, regions)
        kind == units[i].kind
        block == BlockEnd(units, i, i, 0, 0)
    IN  IF i > Len(units) \/ i >= limit THEN before
        ELSE IF kind \in Openers
        THEN GroupedRegions(units, block[1] + 1, block[1] + 1,
                     Append(before, Region(kind, i, block[1], block[2])), limit)
        ELSE IF Recognised(kind)
        THEN GroupedRegions(units, i + 1, i + 1, Append(before, Region(kind, i, i, kind # "comment" /\ ~units[i].ended)), limit)
        ELSE GroupedRegions(units, i + 1, from, regions, limit)

-----------------------------------------------------------------------------
(* Chunks: [first, last, parent] of units; a part of another has parent TRUE *)

WordsIn(units, first, last) == FoldFunctionOnSet(+, 0, [j \in DOMAIN units |-> units[j].words], first..last)

\* _overlap: where the words repeated from a child first..last begin.
Overlap(units, first, last) ==
    LET fits(j) == WordsIn(units, j, last) <= OverlapWords
    IN  Min({last} \cup {j \in Max({first, last - 2})..last : \A k \in j..last : fits(k)})

\* The children of a region too large, split before unit j when it would not fit.
RECURSIVE Children(_, _, _, _)
Children(units, region, from, j) ==
    IF j > region.last THEN <<[first |-> from, last |-> region.last, child |-> TRUE]>>
    ELSE IF from < j /\ WordsIn(units, from, j) > MaxWords
    THEN <<[first |-> from, last |-> j - 1, child |-> TRUE]>>
         \o Children(units, region, Overlap(units, from, j - 1), j + 1)
    ELSE Children(units, region, from, j + 1)

\* _chunks_for_region
ChunksFor(units, region) ==
    LET whole == <<[first |-> region.first, last |-> region.last, child |-> FALSE]>>
    IN  IF WordsIn(units, region.first, region.last) <= MaxWords \/ region.first = region.last
        THEN whole
        ELSE whole \o Children(units, region, region.first, region.first)

\* OVERSIZED_ATOMIC_CHUNK is raised over all the chunks of the region.
Oversized(units, chunks) ==
    Len(chunks) > 1 /\ \E c \in Range(chunks) : WordsIn(units, c.first, c.last) > MaxWords * 2

\* Mutant: a parse that runs out of time says so only when it scans.
SaidOnce(expiry, parsed, regions) == expiry[1] = "scan"

\* PARSER_TIMEOUT: an expired deadline is noticed where work is left.
TimedOut(expiry, parsed, regions) ==
    \/ expiry[1] = "scan"
    \/ expiry[1] = "group" /\ expiry[2] <= Len(parsed)
    \/ expiry[1] = "build" /\ expiry[2] <= Len(regions)

\* chunk_text: expiry says in which phase the deadline passes, and before
\* which unit or region.  Once passed, no region is built.
Chunked(units, expiry) ==
    LET parsed == IF expiry[1] = "scan" THEN SubSeq(units, 1, Min({expiry[2], Len(units)})) ELSE units
        limit == IF expiry[1] = "group" THEN expiry[2] ELSE Len(units) + 1
        regions == GroupedRegions(parsed, 1, 1, << >>, limit)
        late == TimedOut(expiry, parsed, regions)
        built == IF late /\ expiry[1] # "build" THEN << >>
                 ELSE IF late THEN SubSeq(regions, 1, expiry[2] - 1) ELSE regions
    IN  [regions |-> regions,
         chunks |-> FlattenSeq([r \in DOMAIN built |-> ChunksFor(parsed, built[r])]),
         timeout |-> late,
         oversized |-> \E r \in DOMAIN built : Oversized(parsed, ChunksFor(parsed, built[r]))]

ChunksStep == subject = "chunks" /\ Answer("chunks", Chunked(input.units, input.expiry))

-----------------------------------------------------------------------------
(* No text of the source is lost or repeated: the units are contiguous, and
   only white space is outside them. *)
UnitsCoverSource ==
    Answered("scan") =>
        LET units == result.units
        IN  /\ \A n \in DOMAIN units : units[n].from <= units[n].to
            /\ \A n \in 1..(Len(units) - 1) : units[n].to + 1 = units[n + 1].from
            /\ units # << >> => units[1].from = 1
            /\ \A j \in DOMAIN input :
                   Blank(input[j]) \/ \E u \in Range(units) : u.from <= j /\ j <= u.to

(* "reads as one statement here as it does to the scanner" (_sanitise): what
   the two lexers take for the end of a statement is the same semicolon. *)
LexersAgree ==
    Answered("scan") =>
        \A n \in DOMAIN result.units :
            LET u == result.units[n]
                text == TextOf(input, u)
                opener == n < Len(result.units) /\ result.units[n + 1].role = "datalines"
                cards == \E t \in Range(text) : t = "cards"
            IN  u.role \in {"code", "comment"} /\ ~opener /\ ~cards =>
                    \A p \in result.live[n] : WsEnd(text, p + 1) = Len(text) + 1

(* The top-level chunks are the source, in order, whatever the blocks in it:
   all of it unless PARSER_TIMEOUT says that it is not. *)
ChunksCoverUnits ==
    Answered("chunks") =>
        LET tops == SelectSeq(result.chunks, LAMBDA c : ~c.child)
        IN  /\ \A n \in 1..(Len(tops) - 1) : tops[n].last + 1 = tops[n + 1].first
            /\ tops # << >> => tops[1].first = 1
            /\ ~result.timeout /\ input.units # << >> =>
                    tops # << >> /\ Last(tops).last = Len(input.units)

(* The parts of a chunk too large cover it: each begins within the one before
   it, or right after, and goes beyond it. *)
PartsCoverChunk ==
    Answered("chunks") =>
        \A n \in 2..Len(result.chunks) :
            LET c == result.chunks[n]
                b == result.chunks[n - 1]
            IN  c.child => IF b.child THEN c.first <= b.last + 1 /\ b.first <= c.first /\ b.last < c.last
                           ELSE c.first = b.first

KindAt(j) == input.units[j].kind
CodeIn(kinds, first, last) == {j \in first..last : KindAt(j) \in kinds}

(* A step is one step: no other step or macro begins in it, and nothing follows
   the statement that ends it, RUN or QUIT, only QUIT where RUN runs a group.
   Closed without that QUIT, a PROC that runs in groups ends at a RUN, and a step
   or the end of the source comes before its next RUN or QUIT.  A macro holds
   whole macros; and a closed block ends at its own end. *)
BlocksAreBalanced ==
    Answered("chunks") =>
        \A n \in DOMAIN result.regions :
            LET r == result.regions[n]
                inner == IF r.kind = "ds2" THEN Openers \ {"data"} ELSE Openers
                ends == IF r.kind \in RunGroups THEN {"quit"} ELSE {"run", "quit"}
                stop == Min({Len(input.units) + 1} \cup CodeIn(inner, r.first + 1, Len(input.units)))
                depth(j) == Cardinality(CodeIn({"macro"}, r.first, j)) - Cardinality(CodeIn({"mend"}, r.first, j))
            IN  /\ r.kind \in Steps =>
                        /\ CodeIn(inner, r.first + 1, r.last) = {}
                        /\ CodeIn(ends, r.first, r.last - 1) = {}
                        /\ r.unclosed = (KindAt(r.last) \notin {"run", "quit"})
                        /\ r.kind \in RunGroups /\ KindAt(r.last) = "run" =>
                               CodeIn({"run", "quit"}, r.last + 1, stop - 1) = {}
                /\ r.kind = "macro" =>
                        /\ \A j \in r.first..(r.last - 1) : depth(j) > 0
                        /\ r.unclosed = (depth(r.last) > 0)

(* All of them: from the text through its units and regions to the chunks and
   their parts, nothing is lost, cut in the wrong place, or taken for another. *)
SourceReachesChunks ==
    UnitsCoverSource /\ LexersAgree /\ ChunksCoverUnits /\ PartsCoverChunk /\ BlocksAreBalanced

-----------------------------------------------------------------------------
(* Violated.  "returns the partial result gathered so far" (the timeout of
   SasSemanticChunker): the regions grouped before the deadline are chunks. *)
PartialResultKept ==
    Answered("chunks") => (result.regions # << >> /\ input.expiry[1] = "group" => result.chunks # << >>)

(* Violated.  "Hard upper bound" (max_words): a chunk that holds more words is
   one statement, or the parent of its parts. *)
MaxWordsHolds ==
    Answered("chunks") =>
        \A c \in Range(result.chunks) :
            c.child /\ WordsIn(input.units, c.first, c.last) > MaxWords => c.first = c.last

(* Violated.  "A chunk remained oversized because it could not be split safely"
   (OVERSIZED_ATOMIC_CHUNK) says so of a part. *)
OversizedIsAPart ==
    Answered("chunks") =>
        (result.oversized => \E c \in Range(result.chunks) :
            c.child /\ WordsIn(input.units, c.first, c.last) > MaxWords * 2)
=============================================================================
