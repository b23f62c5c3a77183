---------------------------- MODULE RequestLists ----------------------------
(***************************************************************************)
(* The lists that drive a deployment and the folders of its library        *)
(* (app_config.sharepoint, conversion.requests, conversion.paths,          *)
(* conversion.run, complexity.sharepoint): how a path is joined, and which *)
(* rows a command works on, with which model.                              *)
(*                                                                         *)
(* A text is a sequence of marks: "/" and " " are those characters, "A"    *)
(* and "a" are one name in two cases, "L" is the library's own prefix.     *)
(***************************************************************************)
EXTENDS Cases, SequencesExt, FiniteSetsExt

CONSTANTS
    PathSites,   \* a base and the parts joined to it
    FolderSites, \* the files of a folder, and the extensions asked for
    RequestSites \* rows of the lists, and what a command asks for

-----------------------------------------------------------------------------
(* Texts and paths.                                                        *)

TrimMark(s, mark) ==
    LET kept == {i \in DOMAIN s : s[i] # mark}
    IN  IF kept = {} THEN << >> ELSE SubSeq(s, Min(kept), Max(kept))

\* What every path argument goes through: blanks at the ends, then slashes.
CleanPath(s) == TrimMark(TrimMark(s, " "), "/")

\* _normalise_base_path: the library's own name is not a folder in it.
NormaliseBase(raw) ==
    LET trimmed == CleanPath(raw)
    IN  IF trimmed = <<"L">> THEN << >>
        ELSE IF Len(trimmed) > 1 /\ SubSeq(trimmed, 1, 2) = <<"L", "/">>
             THEN TrimMark(SubSeq(trimmed, 3, Len(trimmed)), "/") ELSE trimmed

JoinedBy(parts, mark) ==
    FoldLeft(LAMBDA path, p : IF path = << >> THEN p ELSE path \o mark \o p, << >>, parts)

\* _joined: blank parts are skipped, a part's own slashes absorbed.
JoinedPath(base, parts) ==
    LET cleaned == [i \in 1..(Len(parts) + 1) |->
                        CleanPath(IF i = 1 THEN base ELSE parts[i - 1])]
    IN  JoinedBy(SelectSeq(cleaned, LAMBDA p : p # << >>), <<"/">>)

DrivePath(site) == JoinedPath(NormaliseBase(site.base), site.parts)

\* The names between the slashes, as create_folder walks them.
FolderNames(path) ==
    LET cuts == {0, Len(path) + 1} \cup {i \in DOMAIN path : path[i] = "/"}
        next(i) == Min({j \in cuts : j > i})
        starts == SelectSeq([i \in 1..(Len(path) + 1) |-> i - 1],
                            LAMBDA i : i \in cuts /\ next(i) > i + 1)
    IN  [k \in DOMAIN starts |-> SubSeq(path, starts[k] + 1, next(starts[k]) - 1)]

\* create_folder: what it makes last, each folder in the one before.
FolderMade(path) == JoinedBy(FolderNames(CleanPath(path)), <<"/">>)

\* write_file of upload_file: the item it addresses.
FileAddressed(folder, name) ==
    LET parent == CleanPath(folder)
        leaf   == CleanPath(name)
    IN  CleanPath(IF parent = << >> THEN leaf ELSE parent \o <<"/">> \o leaf)

PathsOf(site) ==
    [path |-> DrivePath(site), made |-> FolderMade(DrivePath(site)),
     file |-> FileAddressed(DrivePath(site), <<"f">>)]

-----------------------------------------------------------------------------
(* Files and rows.                                                         *)

LowerMarks(s) == [i \in DOMAIN s |-> IF s[i] = "A" THEN "a" ELSE s[i]]
Dotless(s) == LET dots == {i \in DOMAIN s : s[i] # "."}
              IN  IF dots = {} THEN << >> ELSE SubSeq(s, Min(dots), Len(s))

SuffixOf(name) ==
    LET dots == {i \in DOMAIN name : name[i] = "."}
    IN  SubSeq(name, Max(dots) + 1, Len(name))

\* list_files: no folder, and only what the extensions want.
ListFiles(site) ==
    LET wanted == {LowerMarks(Dotless(TrimMark(e, " "))) : e \in site.extensions}
        takes(e) == /\ ~e.folder
                    /\ site.every \/ ("." \in Range(e.name)
                                      /\ LowerMarks(SuffixOf(e.name)) \in wanted)
    IN  SelectSeq(site.entries, takes)

\* field_text: a blank column is an absent one.
FieldText(v) == TrimMark(v, " ")

\* _flag.
Flag(v) ==
    CASE v.is = "bool" -> v.of # 0
      [] v.is = "int"  -> v.of # 0
      [] v.is = "text" -> v.of = 1
      [] OTHER         -> FALSE

\* format_request_item_params, format_complexity_item_params: a row that names
\* no application is refused.
FormatRow(row) ==
    IF FieldText(row.application) = << >> THEN << >>
    ELSE <<[id |-> row.id, application |-> FieldText(row.application),
            status |-> FieldText(row.status), validate |-> Flag(row.validate)]>>

\* project_rows: a row that is refused hides none of the others.
ProjectRows(rows) == FlattenSeq([i \in DOMAIN rows |-> FormatRow(rows[i])])

IsPending(row) == LowerMarks(row.status) # <<"done">>

\* format_conversion_item_params: an id that is no number is left out.
FormatItem(item) ==
    [request |-> IF item.request < 0 THEN 0 ELSE item.request, model |-> FieldText(item.model)]

\* select_requests.
SelectRequests(rows, asks) ==
    SelectSeq(rows, LAMBDA row :
        CASE asks.by = "id"  -> FieldText(row.id) = FieldText(asks.wanted)
          [] asks.by = "app" -> LowerMarks(FieldText(row.application)) = LowerMarks(FieldText(asks.wanted))
          [] OTHER        -> TRUE)

\* complexity.requests takes its rows as they are, by application.
ComplexityRows(rows, wanted) ==
    SelectSeq(rows, LAMBDA row : LowerMarks(row.application) = LowerMarks(FieldText(wanted)))

\* A number's text; 0 has none.
NumberText(n) == CASE n = 1 -> <<"1">> [] n = 2 -> <<"2">> [] OTHER -> << >>

\* model_for: the first item of the request that names a model.
ModelFor(row, items, default) ==
    LET own == SelectSeq(items, LAMBDA i : NumberText(i.request) = row.id /\ i.model # << >>)
    IN  IF own = << >> THEN default ELSE Head(own).model

\* The rows a sweep takes, each with its model; and complexity's.
RequestsOf(site) ==
    LET rows  == ProjectRows(site.rows)
        items == [i \in DOMAIN site.items |-> FormatItem(site.items[i])]
        pool  == IF site.every THEN rows ELSE SelectSeq(rows, IsPending)
        taken == SelectRequests(pool, site.asks)
    IN  [sweep |-> [i \in DOMAIN taken |->
                        [row |-> taken[i], model |-> ModelFor(taken[i], items, <<"d">>)]],
         scored |-> ComplexityRows(rows, site.asks.wanted)]

-----------------------------------------------------------------------------
ListsInit ==
    Case("paths", PathSites) \/ Case("files", FolderSites) \/ Case("requests", RequestSites)

ListsStep ==
    \/ Answer("paths", PathsOf(input))
    \/ Answer("files", ListFiles(input))
    \/ Answer("requests", RequestsOf(input))

-----------------------------------------------------------------------------
(* Properties.                                                             *)

Trimmed(names) ==
    SelectSeq([i \in DOMAIN names |-> TrimMark(names[i], " ")], LAMBDA n : n # << >>)

\* No slash beside a slash or a blank inside a part.
Tidy(s) ==
    \A i \in 1..(Len(s) - 1) : "/" \in {s[i], s[i + 1]} =>
        s[i] # s[i + 1] /\ (" " \notin {s[i], s[i + 1]})

\* However the parts are slashed, the path has the base's folders and theirs, in
\* order, none lost or split; and what create_folder makes for it is where
\* upload_file then writes (drive_path, create_folder, upload_file).
PathIsWhole ==
    /\ Trimmed(FolderNames(result.path)) =
           Trimmed(FolderNames(NormaliseBase(input.base)))
           \o FlattenSeq([i \in DOMAIN input.parts |-> Trimmed(FolderNames(input.parts[i]))])
    /\ (\A i \in DOMAIN input.parts : Tidy(input.parts[i])) /\ Tidy(input.base) =>
           /\ result.path = JoinedPath(NormaliseBase(input.base), <<JoinedPath(<< >>, input.parts)>>)
           /\ result.file = IF result.made = << >> THEN <<"f">> ELSE result.made \o <<"/", "f">>

\* A file is listed if its last suffix is one of those asked for, dotted or not
\* and in either case, each once and in order (list_files).
FilesAreWanted ==
    /\ \A i \in DOMAIN result : ~result[i].folder
    /\ \A e \in Range(input.entries) : ~e.folder =>
           (e \in Range(result)) =
               \/ input.every
               \/ \E x \in input.extensions : \E stem \in {<< >>, <<"s">>, <<"s", ".", "b">>} :
                      LowerMarks(e.name) = stem \o <<".">> \o
                          (IF Head(x) = "." THEN Tail(LowerMarks(x)) ELSE LowerMarks(x))

\* A command works on the rows it names, whatever blanks and case the list has
\* them in: no bad row hides a good one, and none is taken twice; its model is
\* named by an item of that request, or is the default (select_requests,
\* project_rows, model_for).
RowsAreThoseNamed ==
    LET good == {i \in DOMAIN input.rows : TrimMark(input.rows[i].application, " ") # << >>}
        named(i) == CASE input.asks.by = "id" -> input.rows[i].id = FieldText(input.asks.wanted)
                      [] input.asks.by = "app" -> LowerMarks(FieldText(input.rows[i].application))
                                                   = LowerMarks(FieldText(input.asks.wanted))
                      [] OTHER -> TRUE
        open(i) == input.every \/ LowerMarks(FieldText(input.rows[i].status)) # <<"done">>
    IN  /\ Len(result.sweep) = Cardinality({i \in good : named(i) /\ open(i)})
        /\ \A s \in Range(result.sweep) :
               \/ s.model = <<"d">>
               \/ \E k \in DOMAIN input.items :
                      /\ FieldText(input.items[k].model) = s.model
                      /\ s.row.id # << >> => NumberText(input.items[k].request) = s.row.id
                      /\ \A j \in 1..(k - 1) : NumberText(input.items[j].request) = s.row.id =>
                             FieldText(input.items[j].model) = << >>
        /\ input.asks.by = "app" /\ input.every =>
               result.scored = [i \in DOMAIN result.sweep |-> result.sweep[i].row]

\* Commands read, write and work where the lists and the settings say.
ListsHold ==
    /\ Answered("paths") => PathIsWhole
    /\ Answered("files") => FilesAreWanted
    /\ Answered("requests") => RowsAreThoseNamed
=============================================================================
