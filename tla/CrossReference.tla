----------------------------- MODULE CrossReference -----------------------------
(***************************************************************************)
(* xref: the application's cross-reference rows are sorted into mappings,  *)
(* and a dataset name and a path of a SAS program go through the pass      *)
(* before the conversion ("pre"), the one after it ("post"), or both.      *)
(*                                                                         *)
(* A path is a sequence of components, a dataset name <<libref, member>>,  *)
(* a key or a target any sequence; Upper components fold to their Lower.   *)
(* The model copies the names it is given, so what is left is the passes'. *)
(* Trailing slashes, `%let' values and the parsers are not modelled: a     *)
(* cell parses or it does not.                                             *)
(***************************************************************************)
EXTENDS Cases, Naturals, Sequences, FiniteSets, SequencesExt, FiniteSetsExt, Functions

CONSTANTS
    XrefNames,  \* components of paths and names
    XrefRows,   \* sequences of rows [marker, source, target]
    XrefUses    \* what a program names: [ref : [value, filesystem, macro], name]

ASSUME XrefAssumption ==
    /\ XrefRows \subseteq
          Seq([marker : STRING, source : Seq(XrefNames), target : Seq(XrefNames)])
    /\ XrefUses \subseteq
          [ref : [value : Seq(XrefNames), filesystem : BOOLEAN, macro : BOOLEAN],
           name : Seq(XrefNames)]

PathMarkers == {"path", "physical_path", "file"}
Absent == << >>

\* Names of the model: "A" is "a" in upper case.
FoldName(c) == IF c = "A" THEN "a" ELSE IF c = "B" THEN "b" ELSE c
Lowered(name) == [i \in DOMAIN name |-> FoldName(name[i])]

-----------------------------------------------------------------------------
(* classify *)

Usable(row) == row.source # Absent /\ row.target # Absent

\* The mapping of the rows that pass, the last row of a key winning.
Filed(rows, Pass(_), Key(_)) ==
    LET kept == {i \in DOMAIN rows : Usable(rows[i]) /\ Pass(rows[i])}
        last(k) == Max({i \in kept : Key(rows[i]) = k})
    IN  [k \in {Key(rows[i]) : i \in kept} |-> rows[last(k)].target]

\* A path's key is filed as the row spells it, a table's in lower case.
Classify(rows) ==
    LET path(row) == row.marker \in PathMarkers
    IN  [by_path |-> Filed(rows, path, LAMBDA row : row.source),
         exact |-> Filed(rows, LAMBDA row : ~path(row) /\ Len(row.source) > 1,
                         LAMBDA row : Lowered(row.source)),
         by_libref |-> Filed(rows, LAMBDA row : ~path(row) /\ Len(row.source) = 1,
                             LAMBDA row : Lowered(row.source))]

\* XrefMappings.dataset_mapping
DatasetMapping(m) == m.exact @@ m.by_libref

-----------------------------------------------------------------------------
(* xref.mapping *)

\* Mutant: the least specific key is tried first.
ShortestFirst(keys) == CHOOSE k \in keys : \A j \in keys : Len(k) <= Len(j)

\* ordered_keys: of the keys that match, the longest.
LongestFirst(keys) == CHOOSE k \in keys : \A j \in keys : Len(j) <= Len(k)

\* map_path: the value is folded, the keys are as they were filed.
MapPath(value, by_path) ==
    LET folded == Lowered(value)
        under == {k \in DOMAIN by_path : IsStrictPrefix(k, folded)}
        key == LongestFirst(under)
    IN  IF folded \in DOMAIN by_path THEN by_path[folded]
        ELSE IF under = {} THEN value
        ELSE by_path[key] \o SubSeq(value, Len(key) + 1, Len(value))

-----------------------------------------------------------------------------
(* The pass before the conversion *)

\* rewrite_source_text: device forms and macro references stay as written.
PrePath(ref, m) == IF ref.filesystem /\ ~ref.macro THEN MapPath(ref.value, m.by_path) ELSE ref.value

\* _map_ds over the mapping that _split_databricks_mapping splits again.
PreName(name, m) ==
    IF name \in DOMAIN m.exact THEN m.exact[name]
    ELSE IF <<name[1]>> \in DOMAIN m.by_libref THEN m.by_libref[<<name[1]>>] \o <<name[2]>>
    ELSE name

-----------------------------------------------------------------------------
(* The pass after it, over one code cell [language, parses] *)

\* _cell_language: a tag no target claims leaves the cell as written.
Claimed(cell) == cell.language # "r"

\* rewrite_python_paths, rewrite_sql_paths: the latter needs no parser.
PostPath(value, cell, m) ==
    IF Claimed(cell) /\ (cell.language = "sql" \/ cell.parses) THEN MapPath(value, m.by_path) ELSE value

\* _lookup: by the whole name, or else by what follows its last dot.
Lookup(name, mapping) ==
    LET folded == Lowered(name)
    IN  IF folded \in DOMAIN mapping THEN mapping[folded]
        ELSE IF <<Last(folded)>> \in DOMAIN mapping THEN mapping[<<Last(folded)>>]
        ELSE Absent

\* What is looked up: rewrite_sql drops the catalog of a table, in a cell or in
\* the text of spark.sql; of spark.table and its kin it is the whole literal.
Sought(name, cell) ==
    IF cell.language = "sql" THEN SubSeq(name, Max({1, Len(name) - 1}), Len(name)) ELSE name

\* rewrite_sql, rewrite_python: a name no row knows stays, catalog and all.
PostName(name, cell, m) ==
    LET target == Lookup(Sought(name, cell), DatasetMapping(m))
    IN  IF Claimed(cell) /\ cell.parses /\ target # Absent THEN target ELSE name

-----------------------------------------------------------------------------
XrefInit ==
    Case("xref", [rows : XrefRows, uses : XrefUses,
                  cell : [language : {"sql", "python", "r"}, parses : BOOLEAN]])

\* What run_request makes of the path and of the name, in each mode.
Passed(mode, in) ==
    LET m == Classify(in.rows)
        path == IF mode \in {"pre", "both"} THEN PrePath(in.uses.ref, m) ELSE in.uses.ref.value
        name == IF mode \in {"pre", "both"} THEN PreName(in.uses.name, m) ELSE in.uses.name
    IN  [path |-> IF mode \in {"post", "both"} THEN PostPath(path, in.cell, m) ELSE path,
         name |-> IF mode \in {"post", "both"} THEN PostName(name, in.cell, m) ELSE name]

XrefStep == subject = "xref" /\ Answer("xref", [mode \in {"pre", "post", "both"} |-> Passed(mode, input)])

XrefSpec == XrefInit /\ [][XrefStep]_caseVars

-----------------------------------------------------------------------------
ByPath == Classify(input.rows).by_path
LowerKeys == \A k \in DOMAIN ByPath : k = Lowered(k)
Readable == input.uses.ref.filesystem /\ ~input.uses.ref.macro /\ input.cell.language # "r" /\ input.cell.parses

(* "mapping one folder moves everything beneath it" (map_path): a path that
   has no row of its own lands in the place its folder is moved to. *)
FoldersMoveWhole ==
    Answered("xref") =>
        LET v == input.uses.ref.value
        IN  LowerKeys /\ Len(v) > 1 /\ Lowered(v) \notin DOMAIN ByPath =>
                MapPath(v, ByPath) = Append(MapPath(Front(v), ByPath), Last(v))

\* No row moves a target, or a place above or beneath one.
TargetsStay ==
    \A k \in DOMAIN ByPath : \A j \in DOMAIN ByPath :
        ~IsPrefix(j, Lowered(ByPath[k])) /\ ~IsPrefix(Lowered(ByPath[k]), j)

(* "one path cannot come out of the two as two different targets"
   (xref.sourcing): whichever pass meets the path, its place is the same, as
   long as no target is itself moved by a row, nor anything beneath it. *)
OnePlacePerPath ==
    Answered("xref") =>
        (LowerKeys /\ Readable /\ TargetsStay
           => \A mode \in {"post", "both"} : result[mode].path = result["pre"].path)

(* Both, of the paths a corpus names. *)
PathsAreMovedAlike == FoldersMoveWhole /\ OnePlacePerPath

(* Violated: a row that moves another's target.  "A second copy would let a
   run in "both" mode rewrite one path twice to two different targets". *)
RewrittenOnce ==
    Answered("xref") => (LowerKeys /\ Readable => result["both"].path = result["pre"].path)

(* Violated.  "Comparison is case-insensitive because classify lowercases its
   keys" (map_path): a row moves the path it names, however it spells it. *)
CaseDoesNotMatter ==
    Answered("xref") =>
        LET v == input.uses.ref.value
        IN  (\E k \in DOMAIN ByPath : Lowered(k) = Lowered(v)) => MapPath(v, ByPath) \in Range(ByPath)

(* Violated.  "the flattened form both passes take" (XrefMappings): a dataset
   a row renames before the conversion is renamed after it, too. *)
NamesAgree ==
    Answered("xref") =>
        (input.cell.parses /\ input.cell.language # "r" => result["post"].name = result["pre"].name)
=============================================================================
