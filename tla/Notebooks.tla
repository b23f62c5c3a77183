------------------------------ MODULE Notebooks ------------------------------
(***************************************************************************)
(* pipeline.notebook and conversion.upload: the outputs of a run become    *)
(* one notebook per source file, and the notebooks become files.           *)
(*                                                                         *)
(* An output is a record: sources (its files, in order), document (whether *)
(* the model answered with one), language (its target's cell language) and *)
(* cells.  A cell is code or prose; lang is what it was tagged with,       *)
(* "unset" if nothing; tag is the source its chunk_id resolves to, None if *)
(* it resolves nowhere; section says, in a Markdown answer, whether it     *)
(* stands under "## Translation".  A name is the words between the dots of *)
(* a stem, and the numbers appended to it.                                 *)
(***************************************************************************)
EXTENDS Cases, Integers, Sequences, FiniteSets, SequencesExt, FiniteSetsExt, Functions

CONSTANTS
    OutputShapes,  \* the outputs a run may have
    OutputCount    \* bound: outputs of a run

CrossFile == [folder |-> "none", words |-> <<"_cross_file">>, numbers |-> << >>]

\* No stem of a file has the underscore the shared notebook's name begins with.
SasFiles ==
    {file \in [folder : STRING, words : Seq(STRING), numbers : Seq(Int)] :
        file.words # CrossFile.words}

OutputCells ==
    [kind : {"code", "prose"}, lang : STRING, tag : SasFiles \cup {CrossFile}, section : STRING]

\* The files of an output are distinct (_make_batch).
NotebooksAssumption ==
    /\ OutputCount \in Nat
    /\ \A output \in OutputShapes :
          /\ output.sources \in Seq(SasFiles) /\ IsInjective(output.sources)
          /\ output.document \in BOOLEAN /\ output.language \in STRING
          /\ output.cells \in Seq(OutputCells)

ASSUME NotebooksAssumption

\* An item is translated to the run's target, or fell back to PySpark.
Runs ==
    {run \in [outputs : [1..OutputCount -> OutputShapes], language : {"python", "sql"}] :
        \A n \in DOMAIN run.outputs : run.outputs[n].language \in {run.language, "python"}}

NotebooksInit == Case("notebooks", Runs)

-----------------------------------------------------------------------------
(* Cells *)

CodeCell(n, place, lang) == [item |-> n, place |-> place, kind |-> "code", lang |-> lang]
ProseCell(n, place) == [item |-> n, place |-> place, kind |-> "prose", lang |-> "none"]

\* The banner of an item, and what it says beside its cells: place 0.
Banner(n) == ProseCell(n, 0)

\* _translation_cell_to_cells: an untagged cell takes the target's language.
DocumentCell(n, place, cell, language) ==
    IF cell.kind = "prose" THEN ProseCell(n, place)
    ELSE CodeCell(n, place, IF cell.lang = "unset" THEN language ELSE cell.lang)

\* markdown_to_cells: without a "## Translation" the whole answer is one.
Runnable(output, cell) ==
    \/ cell.section = "translation"
    \/ \A c \in Range(output.cells) : c.section # "translation"

MarkdownCell(n, place, output, language) ==
    LET cell == output.cells[place]
    IN  IF Runnable(output, cell) THEN DocumentCell(n, place, cell, language)
        ELSE ProseCell(n, place)

\* item_cells: the item's own target wins over the run's.
ItemCells(n, output) ==
    <<Banner(n)>> \o
    [place \in DOMAIN output.cells |->
        IF output.document THEN DocumentCell(n, place, output.cells[place], output.language)
        ELSE MarkdownCell(n, place, output, output.language)]

-----------------------------------------------------------------------------
(* Routing *)

SourceOf(output, cell) ==
    IF cell.tag \in Range(output.sources) THEN cell.tag ELSE CrossFile

\* Mutant: a cell with no source does not keep the item together.
SplitsAnyway(output) == output.document

\* _split_item_by_source: all or nothing.
Splits(output) ==
    /\ output.document
    /\ \A c \in Range(output.cells) : c.kind = "code" => SourceOf(output, c) # CrossFile

\* A cell goes to the source it resolves to, prose with none to each of them.
RoutedTo(output, place, source) ==
    SourceOf(output, output.cells[place]) \in {source, CrossFile}

\* One source's share of a split item, tagged with the run's target.
Routed(n, output, source, language, cells, place) ==
    IF RoutedTo(output, place, source)
    THEN Append(cells, DocumentCell(n, place, output.cells[place], language)) ELSE cells

Share(n, output, source, language) ==
    FoldLeft(LAMBDA cells, place : Routed(n, output, source, language, cells, place),
             <<Banner(n)>>, [place \in DOMAIN output.cells |-> place])

-----------------------------------------------------------------------------
(* Names *)

Numbered(name, n) == IF n = 1 THEN name ELSE [name EXCEPT !.numbers = Append(@, n)]

\* _filename_for: a stem already taken is numbered, from 2; the shared
\* notebook's name is fixed.
FileName(names, key) ==
    LET stem == [key EXCEPT !.folder = "none"]
        free == {n \in 1..(Cardinality(DOMAIN names) + 1) : Numbered(stem, n) \notin Range(names)}
    IN  IF key \in DOMAIN names THEN names[key]
        ELSE IF key = CrossFile THEN CrossFile
        ELSE Numbered(stem, Min(free))

-----------------------------------------------------------------------------
(* Notebooks *)

WithEntry(f, x, y) == [z \in DOMAIN f \cup {x} |-> IF z = x THEN y ELSE f[z]]

\* Cells go to the notebook of key, which gets its name when first met.
Put(state, key, cells) ==
    LET name == FileName(state.names, key)
        had == IF name \in DOMAIN state.notebooks THEN state.notebooks[name] ELSE << >>
    IN  [names     |-> WithEntry(state.names, key, name),
         notebooks |-> WithEntry(state.notebooks, name, had \o cells)]

Parcel(key, cells) == [key |-> key, cells |-> cells]

\* What goes where: a file's item to it, a split one's shares to their files,
\* any other to the shared notebook, with a pointer to it for every file.
Parcels(n, output, language) ==
    LET sources == output.sources
    IN  IF Len(sources) = 1 THEN <<Parcel(sources[1], ItemCells(n, output))>>
        ELSE IF Splits(output)
        THEN [k \in DOMAIN sources |-> Parcel(sources[k], Share(n, output, sources[k], language))]
        ELSE <<Parcel(CrossFile, ItemCells(n, output))>>
             \o [k \in DOMAIN sources |-> Parcel(sources[k], <<Banner(n)>>)]

PutAll(state, parcels) ==
    FoldLeft(LAMBDA st, parcel : Put(st, parcel.key, parcel.cells), state, parcels)

\* notebooks_from_outputs, one output.
PutOutput(run, state, n) == PutAll(state, Parcels(n, run.outputs[n], run.language))

Grouped(run) ==
    FoldLeft(LAMBDA st, n : PutOutput(run, st, n),
             [names |-> << >>, notebooks |-> << >>], [n \in DOMAIN run.outputs |-> n])

LanguagesOf(cells) == {c.lang : c \in Range(cells)} \ {"none"}

\* build_notebook: Python hosts what is not all of the target.
Kernel(cells, language) == IF "python" \in LanguagesOf(cells) THEN "python" ELSE language

\* _host_mixed_languages: whether SQL cells get the %sql magic.
Magic(cells) == {"python", "sql"} \subseteq LanguagesOf(cells)

\* set_file_extension: what follows the last dot is taken for an extension.
UploadName(name) ==
    IF Len(name.words) > 1 THEN [name EXCEPT !.words = Front(@), !.numbers = << >>] ELSE name

NotebooksStep == subject = "notebooks" /\ Answer("notebooks", Grouped(input))

NotebooksSpec == NotebooksInit /\ [][NotebooksStep]_caseVars

-----------------------------------------------------------------------------
MeantToRun(output) ==
    {place \in DOMAIN output.cells : output.cells[place].kind = "code" /\
        (output.document \/ output.cells[place].section = "translation"
         \/ \A c \in Range(output.cells) : c.section = "other")}

\* The places a code cell of an output ended up at, over all notebooks.
CodeAt(notebooks, n, place) ==
    {spot \in UNION {{name} \X DOMAIN notebooks[name] : name \in DOMAIN notebooks} :
        LET cell == notebooks[spot[1]][spot[2]]
        IN  cell.kind = "code" /\ cell.item = n /\ cell.place = place}

RunsAt(n, place) == CodeAt(result.notebooks, n, place)

(* Splitting an item over its files loses no code and repeats none: what the
   model meant to run is a code cell of exactly one notebook. *)
StepRunsOnce ==
    Answered("notebooks") =>
        \A n \in DOMAIN input.outputs : \A place \in MeantToRun(input.outputs[n]) :
            Cardinality(RunsAt(n, place)) = 1

(* "a reader following one program never silently skips a step": the notebook
   of every file an item is of shows the item or points to it. *)
NoFileSkipsAStep ==
    Answered("notebooks") =>
        \A n \in DOMAIN input.outputs : \A source \in Range(input.outputs[n].sources) :
            /\ source \in DOMAIN result.names
            /\ \E cell \in Range(result.notebooks[result.names[source]]) : cell.item = n

(* Programs of one name in two folders, and names that look numbered already,
   keep their own notebooks. *)
NotebooksApart ==
    Answered("notebooks") =>
        \A k, l \in DOMAIN result.names : result.names[k] = result.names[l] => k = l

(* All three, of the notebooks of a run. *)
NotebooksAreWhole == StepRunsOnce /\ NotebooksApart /\ NoFileSkipsAStep

-----------------------------------------------------------------------------
(* Violated.  "rather than letting one silently overwrite the other"
   (_filename_for): the notebooks of a run are uploaded under names of their
   own. *)
UploadsApart ==
    Answered("notebooks") =>
        \A x, y \in DOMAIN result.notebooks : UploadName(x) = UploadName(y) => x = y

(* Violated.  "hosted by Python regardless of which target the run asked for"
   (build_notebook): a notebook's kernel runs each of its code cells. *)
KernelRunsEveryCell ==
    Answered("notebooks") =>
        \A name \in DOMAIN result.notebooks :
            LET cells == result.notebooks[name]
            IN  \A lang \in LanguagesOf(cells) :
                    \/ lang = "sql" /\ (Kernel(cells, input.language) = "sql" \/ Magic(cells))
                    \/ lang \in {"python", "pyspark"} /\ Kernel(cells, input.language) = "python"

(* Violated.  An item translated to another target than the run's keeps it in
   its untagged cells (item_cells), also when it is split over its files. *)
SplitKeepsTarget ==
    Answered("notebooks") =>
        \A name \in DOMAIN result.notebooks : \A cell \in Range(result.notebooks[name]) :
            cell.kind = "code" /\ input.outputs[cell.item].cells[cell.place].lang = "unset"
                => cell.lang = input.outputs[cell.item].language
=============================================================================
