------------------------------ MODULE Hydration ------------------------------
(***************************************************************************)
(* data_hydration: the tables a corpus reads become a plan of items, and   *)
(* the plan is executed.                                                   *)
(*                                                                         *)
(* A corpus is a sequence of files, a file a sequence of statements in     *)
(* source order, as the reference inventory records them.  A path is       *)
(* <<"root", ...>> when absolute; what it names stands for its last part.  *)
(* An item loads one object into one target, or is blocked.                *)
(***************************************************************************)
EXTENDS Cases, Integers, Sequences, FiniteSets, SequencesExt, FiniteSetsExt, Functions

CONSTANTS
    Programs,      \* the files a corpus may have
    FileCount,     \* bound: files of a corpus
    Troubles,      \* objects that may be empty or unreadable, or NoTrouble
    MaxRows,       \* bound: rows of a source that is split
    MaxSlices,     \* bound: data_hydration.num_partitions
    ColumnBounds   \* lower and upper bounds of a column that is split

NoPath == << >>
NoTrouble == [what |-> "none", object |-> NoPath]

Paths == Seq(STRING)

Statement(st, libref, engine, joins, other, path, refs) ==
    [st |-> st, libref |-> libref, engine |-> engine, joins |-> joins,
     other |-> other, path |-> path, refs |-> refs]
Libname(libref, engine, joins, path) == Statement("libname", libref, engine, joins, "", path, << >>)
\* One library of a concatenation, named by its libref.
LibnameOf(libref, joins, other) == Statement("libname", libref, "base", joins, other, NoPath, << >>)
Setenv(name, path) == Statement("setenv", name, "base", FALSE, "", path, << >>)
Cd(path) == Statement("cd", "", "", FALSE, "", path, << >>)
Infile(path) == Statement("infile", "", "", FALSE, "", path, << >>)
Step(refs) == Statement("step", "", "", FALSE, "", NoPath, refs)
\* A data set a step names: now is CHANGE, AGE or a library COPY.
Ref(role, libref, member, pattern, now) ==
    [role |-> role, libref |-> libref, member |-> member, pattern |-> pattern, now |-> now]

DataSetRefs ==
    [role : {"read", "update", "write"}, libref : STRING, member : STRING,
     pattern : BOOLEAN, now : BOOLEAN]

\* What the inventory records: an environment variable is set to one directory,
\* a file read by its path has one, and only a step names data sets.
SasStatements ==
    {s \in [st : {"libname", "setenv", "cd", "infile", "step"}, libref : STRING, engine : STRING,
            joins : BOOLEAN, other : STRING, path : Paths, refs : Seq(DataSetRefs)] :
        /\ s.st = "libname" => s.engine \in {"base", "spde"}
        /\ s.st = "setenv" => s.engine = "base" /\ s.other = ""
        /\ s.st = "infile" => s.path # NoPath
        /\ s.st # "step" => s.refs = << >>}

HydrationAssumption ==
    /\ Programs \subseteq Seq(SasStatements) /\ FileCount \in Nat
    /\ Troubles \subseteq {NoTrouble} \cup [what : {"empty", "unreadable"}, object : Paths]
    /\ MaxRows \in Nat /\ MaxSlices \in Nat /\ ColumnBounds \subseteq Int

ASSUME HydrationAssumption

PlanInputs ==
    [files : [1..FileCount -> Programs], schema : {"none", "bronze"},
     trouble : Troubles, onError : {"continue", "stop"}]

PlanInit == Case("plan", PlanInputs)

-----------------------------------------------------------------------------
(* Paths *)

Relative(path) == path # NoPath /\ Head(path) # "root"

\* _change_directory: NoPath where it cannot be known.
ChangeDirectory(cwd, path) ==
    IF ~Relative(path) THEN path ELSE IF cwd = NoPath THEN NoPath ELSE cwd \o path

\* _from_current_directory: the place a relative path is read at, if known.
Placed(cwd, path) == IF Relative(path) /\ cwd # NoPath THEN cwd \o path ELSE path

-----------------------------------------------------------------------------
(* The libraries in force *)

SasLibraries == {"work"}
Outside(libref) == [libref |-> libref, dir |-> NoPath]

\* _Libraries.search: a LIBNAME wins over an environment variable.
Search(walk, libref) ==
    IF libref \in DOMAIN walk.bound /\ walk.bound[libref] # << >> THEN walk.bound[libref]
    ELSE IF libref \in DOMAIN walk.env THEN walk.env[libref] ELSE << >>

\* The directory a statement that names one assigns to its libref.
LibraryOf(cwd, s) ==
    [libref |-> s.libref, dir |-> IF s.st = "setenv" THEN s.path ELSE Placed(cwd, s.path)]

\* _Libraries._places: what one library of a LIBNAME adds to the search.
PlacesOf(walk, s) ==
    IF s.other \in SasLibraries \/ s.engine # "base" THEN << >>
    ELSE IF s.other # ""
    THEN LET found == Search(walk, s.other) IN IF found = << >> THEN <<Outside(s.other)>> ELSE found
    ELSE <<LibraryOf(walk.cwd, s)>>

WithKey(f, key, value) == [k \in DOMAIN f \cup {key} |-> IF k = key THEN value ELSE f[k]]

Distinct(s) ==
    FoldLeft(LAMBDA acc, x : IF x \in Range(acc) THEN acc ELSE Append(acc, x), << >>, s)

\* _Libraries.bind.  A LIBNAME of another engine that is no concatenation is
\* not one _library_members takes.
Bind(walk, s) ==
    LET had == IF s.joins /\ s.libref \in DOMAIN walk.bound THEN walk.bound[s.libref] ELSE << >>
    IN  IF s.st = "setenv"
        THEN [walk EXCEPT !.env = WithKey(@, s.libref, <<LibraryOf(walk.cwd, s)>>)]
        ELSE IF s.engine # "base" /\ ~s.joins THEN walk
        ELSE [walk EXCEPT !.bound = WithKey(@, s.libref, Distinct(had \o PlacesOf(walk, s)))]

-----------------------------------------------------------------------------
(* The data sets to load *)

NameOf(ref) == <<ref.libref, ref.member>>
WritesOf(s) == {NameOf(r) : r \in {x \in Range(s.refs) : x.role = "write"}}
Writers(files, name) ==
    {f \in DOMAIN files : \E s \in Range(files[f]) : name \in WritesOf(s)}

\* _assigned_librefs
Assigned(files) ==
    {s.libref : s \in {x \in UNION {Range(files[f]) : f \in DOMAIN files} :
                       x.st \in {"libname", "setenv"}}}

\* Mutant: a step's own table is made before it is read.
MadeByItself(files, walk, s, k, name) ==
    \/ name \in walk.here \cup WritesOf(s)
    \/ Writers(files, name) \ {walk.file} # {}

\* The job made the data set before reference k of step s reads it: an earlier
\* step of the file, a rename or copy of this one, or another file.
Made(files, walk, s, k, name) ==
    \/ name \in walk.here
    \/ \E i \in 1..(k - 1) : s.refs[i].role = "write" /\ s.refs[i].now /\ NameOf(s.refs[i]) = name
    \/ Writers(files, name) \ {walk.file} # {}

\* A library nothing assigned yet is searched first.  Assigned by a later
\* statement, and named by a concatenation, any library may hold what it reads.
ReadOutside(files, walk, libref, made, concatenated) ==
    IF made THEN walk
    ELSE IF libref \in Assigned(files) \cup SasLibraries
    THEN [walk EXCEPT !.unknown = @ \/ concatenated]
    ELSE [walk EXCEPT !.unassigned = IF libref \in Range(@) THEN @ ELSE Append(@, libref)]

Known(walk, place, member) ==
    \E m \in Range(walk.named) : m.library.dir = place.dir /\ m.member = member

\* _library_members, one reference that reads.
ReadRef(files, walk, s, k) ==
    LET ref == s.refs[k]
        places == Search(walk, ref.libref)
        made == Made(files, walk, s, k, NameOf(ref))
        member == [library |-> places[1], member |-> ref.member, reader |-> walk.file]
    IN  IF ref.role = "write" THEN walk
        ELSE IF places = << >> THEN ReadOutside(files, walk, ref.libref, made, FALSE)
        ELSE IF places[1].dir = NoPath THEN ReadOutside(files, walk, places[1].libref, made, TRUE)
        ELSE IF ref.pattern
        THEN [walk EXCEPT !.listed = @ \cup {p \in Range(places) : p.dir # NoPath}]
        ELSE IF made THEN walk
        ELSE [walk EXCEPT !.named = IF Known(walk, places[1], ref.member) THEN @ ELSE Append(@, member),
                          !.covered = @ \cup {p \in Range(Tail(places)) : p.dir # NoPath}]

ReadStep(files, walk, s) ==
    FoldLeft(LAMBDA w, k : ReadRef(files, w, s, k), walk, [k \in DOMAIN s.refs |-> k])

WalkStatement(files, walk, s) ==
    IF s.st \in {"libname", "setenv"} THEN Bind(walk, s)
    ELSE IF s.st = "cd" THEN [walk EXCEPT !.cwd = ChangeDirectory(@, s.path)]
    ELSE IF s.st = "step" THEN [ReadStep(files, walk, s) EXCEPT !.here = @ \cup WritesOf(s)]
    ELSE walk

\* Bindings and the current directory go on from one file to the next.
WalkFile(files, walk, f) ==
    FoldLeft(LAMBDA w, s : WalkStatement(files, w, s),
             [walk EXCEPT !.file = f, !.here = {}], files[f])

Members(files) ==
    FoldLeft(LAMBDA w, f : WalkFile(files, w, f),
             [cwd |-> NoPath, bound |-> << >>, env |-> << >>, file |-> 0, here |-> {},
              named |-> << >>, listed |-> {}, covered |-> {}, unassigned |-> << >>,
              unknown |-> FALSE],
             [f \in DOMAIN files |-> f])

-----------------------------------------------------------------------------
(* The plan *)

\* The statements of a corpus, one file after the other.
Flat(files) == FoldLeft(LAMBDA flat, file : flat \o file, << >>, files)

Source(kind, libref, path) == [kind |-> kind, libref |-> libref, path |-> path]

\* The data sets named in a library, in the order they are first read.
DatasetsOf(members, library) ==
    FoldLeft(LAMBDA found, m :
                 IF m.library = library
                 THEN Append(found, Source("dataset", library.libref, library.dir \o <<m.member>>))
                 ELSE found,
             << >>, members.named)

\* build_corpus_plan: a directory's named data sets are planned where it is first
\* declared, and the directory itself stays while a list is read from it.
DeclaredAt(members, state, library) ==
    LET datasets == DatasetsOf(members, library)
        expands == datasets # << >> /\ library \notin state.expanded
        whole == \/ library \in members.listed \/ members.unknown
                 \/ datasets = << >> /\ library \notin members.covered
    IN  [state EXCEPT !.sources = @ \o (IF expands THEN datasets ELSE << >>)
                                    \o (IF whole
                                        THEN <<Source("library", library.libref, library.dir)>>
                                        ELSE << >>),
                      !.expanded = IF expands THEN @ \cup {library} ELSE @]

ReadFrom(members, library) ==
    DatasetsOf(members, library) # << >> \/ library \in members.listed

Adding(state, source) == [state EXCEPT !.sources = Append(@, source)]

\* _sources_for: what one path statement plans.
SourcesAt(members, state, s) ==
    LET library == LibraryOf(state.cwd, s)
    IN  IF s.st = "cd" THEN [state EXCEPT !.cwd = ChangeDirectory(@, s.path)]
        ELSE IF s.st = "infile" THEN Adding(state, Source("file", "", Placed(state.cwd, s.path)))
        ELSE IF s.st = "libname" /\ s.engine # "base"
        THEN Adding(state, Source("spde", s.libref, library.dir))
        ELSE IF s.st = "step" \/ s.other # "" \/ (s.st = "setenv" /\ ~ReadFrom(members, library))
        THEN state
        ELSE DeclaredAt(members, state, library)

Sources(files, members) ==
    FoldLeft(LAMBDA st, s : SourcesAt(members, st, s),
             [cwd |-> NoPath, sources |-> << >>, expanded |-> {}], Flat(files)).sources

\* _target_for: the SAS libref names the schema unless one is configured.
Target(source, schema) ==
    LET owner == IF schema # "none" THEN schema ELSE source.libref
    IN  IF source.kind = "library" \/ owner = "" THEN <<"unresolved">> ELSE <<owner, Last(source.path)>>

\* _relative_blocker, _library_blocker, the SPD Engine's, and no target name.
Blocked(source, schema) ==
    \/ source.kind \in {"library", "spde"}
    \/ Relative(source.path)
    \/ Target(source, schema) = <<"unresolved">>

\* The first item of a table replaces it, the rest add to it.
First(sources, schema, n) ==
    \A i \in 1..(n - 1) : Target(sources[i], schema) # Target(sources[n], schema)

Plan(corpus) ==
    LET members == Members(corpus.files)
        sources == Sources(corpus.files, members)
    IN  [items |->
            [n \in DOMAIN sources |->
                [source |-> sources[n], target |-> Target(sources[n], corpus.schema),
                 blocked |-> Blocked(sources[n], corpus.schema),
                 mode |-> IF First(sources, corpus.schema, n) THEN "overwrite" ELSE "append"]],
         unassigned |-> members.unassigned]

-----------------------------------------------------------------------------
(* Execution *)

\* write_item: a source without rows writes nothing, not even an empty table.
Written(tables, item, trouble) ==
    LET had == IF item.target \in DOMAIN tables /\ item.mode = "append" THEN tables[item.target] ELSE << >>
    IN  IF trouble = [what |-> "empty", object |-> item.source.path] THEN tables
        ELSE WithKey(tables, item.target, Append(had, item.source.path))

Fails(corpus, item) == corpus.trouble = [what |-> "unreadable", object |-> item.source.path]

\* execute / _run_item: a blocked item is passed over, a failed one stops the
\* run when on_error says so.
ExecuteItem(corpus, state, item) ==
    IF state.stopped \/ item.blocked THEN state
    ELSE IF Fails(corpus, item) THEN [state EXCEPT !.stopped = corpus.onError = "stop", !.failed = TRUE]
    ELSE [state EXCEPT !.tables = Written(@, item, corpus.trouble)]

Executed(corpus, items, tables) ==
    FoldLeft(LAMBDA st, item : ExecuteItem(corpus, st, item),
             [tables |-> tables, stopped |-> FALSE, failed |-> FALSE], items)

Hydrated(corpus) ==
    LET plan == Plan(corpus)
        once == Executed(corpus, plan.items, << >>)
    IN  [plan |-> plan, once |-> once, twice |-> Executed(corpus, plan.items, once.tables)]

PlanStep == subject = "plan" /\ Answer("plan", Hydrated(input))

-----------------------------------------------------------------------------
(* Splitting one source *)

RangeInputs ==
    [rows : 0..MaxRows, slices : 1..MaxSlices, low : ColumnBounds, high : ColumnBounds]

RangesInit == Case("ranges", RangeInputs)

SizeOf(rows, slices) == Max({1, -((-rows) \div slices)})

\* _row_ranges: windows <<offset, limit>>.
RowRanges(rows, slices) ==
    LET size == SizeOf(rows, slices)
    IN  IF rows <= 0 \/ slices <= 1 THEN {}
        ELSE {<<size * i, Min({size, rows - size * i})>> :
              i \in {j \in 0..(slices - 1) : size * j < rows}}

\* _column_ranges, bounds times slices: half open, but the last is closed.
ColumnRanges(low, high, slices) ==
    IF slices <= 1 \/ high <= low THEN {}
    ELSE {[from |-> low * slices + (high - low) * i, to |-> low * slices + (high - low) * (i + 1),
           closed |-> i = slices - 1] : i \in 0..(slices - 1)}

RangesStep ==
    subject = "ranges" /\
    Answer("ranges", [windows |-> RowRanges(input.rows, input.slices),
                      slices  |-> ColumnRanges(input.low, input.high, input.slices)])

HydrationInit == PlanInit \/ RangesInit

HydrationSpec == HydrationInit /\ [][PlanStep \/ RangesStep]_caseVars

-----------------------------------------------------------------------------
(* What a SAS session does: the corpus as one sequence of statements, place g
   being statement Flat(files)[g]. *)
CwdAt(flat, g) ==
    LET before[h \in 1..(Len(flat) + 1)] ==
            IF h = 1 THEN NoPath
            ELSE IF flat[h - 1].st = "cd" THEN ChangeDirectory(before[h - 1], flat[h - 1].path)
            ELSE before[h - 1]
    IN  before[g]

\* The LIBNAME statement in force for libref at place g, 0 if none is.
LibnameAt(flat, g, libref) ==
    Max({0} \cup {j \in 1..(g - 1) : flat[j].st = "libname" /\ flat[j].libref = libref /\ ~flat[j].joins})

\* The directory it searches first, NoPath where it names none.
DirectoryAt(flat, g, libref) ==
    LET j == LibnameAt(flat, g, libref)
    IN  IF j = 0 \/ flat[j].engine # "base" \/ flat[j].other # "" THEN NoPath
        ELSE Placed(CwdAt(flat, j), flat[j].path)

ReadsOf(flat) ==
    UNION {{<<g, k>> : k \in {j \in DOMAIN flat[g].refs : flat[g].refs[j].role # "write"
                                                        /\ ~flat[g].refs[j].pattern}}
           : g \in DOMAIN flat}

PlannedPaths == {item.source.path : item \in Range(result.plan.items)}

\* The object, or the directory it is in, is in the plan.
Announced(dir, member) == {dir, dir \o <<member>>} \cap PlannedPaths # {}

(* "no dataset the job needs drops out of the plan unannounced"
   (build_corpus_plan): what is read through a LIBNAME that names a directory,
   and is written under that name by no other step, is planned from the
   directory SAS reads it from there, or its library is listed. *)
ReadsAreAnnounced ==
    Answered("plan") =>
        LET flat == Flat(input.files)
        IN  \A read \in ReadsOf(flat) :
                LET ref == flat[read[1]].refs[read[2]]
                    dir == DirectoryAt(flat, read[1], ref.libref)
                    others == {g \in DOMAIN flat : g # read[1] /\ NameOf(ref) \in WritesOf(flat[g])}
                    renamed == \E i \in 1..(read[2] - 1) : flat[read[1]].refs[i].now
                IN  dir # NoPath /\ others = {} /\ ~renamed => Announced(dir, ref.member)

\* A libref assigned with two engines.
Reassigned(flat, libref) ==
    \E g, h \in DOMAIN flat :
        /\ flat[g].libref = libref /\ flat[h].libref = libref
        /\ flat[g].engine = "base" /\ flat[h].engine = "spde"

(* The LIBNAME in force at a read is the latest before it (_library_members):
   no data set is planned from a directory no read reaches, unless the LIBNAME
   in force names none, or is of another engine than one before it. *)
ItemsAreRead ==
    Answered("plan") =>
        LET flat == Flat(input.files)
        IN  \A item \in Range(result.plan.items) : item.source.kind = "dataset" =>
                \E g \in DOMAIN flat : \E ref \in Range(flat[g].refs) :
                    LET j == LibnameAt(flat, g, ref.libref)
                    IN  /\ ref.role # "write" /\ ref.member = Last(item.source.path)
                        /\ \/ DirectoryAt(flat, g, ref.libref) = Front(item.source.path)
                           \/ j = 0 \/ flat[j].other # "" \/ Reassigned(flat, ref.libref)

(* A table read in several places is loaded once: appending one copy per reader
   would load its rows several times over. *)
DatasetsLoadedOnce ==
    Answered("plan") =>
        \A m, n \in DOMAIN result.plan.items :
            LET a == result.plan.items[m].source
                b == result.plan.items[n].source
            IN  a.kind = "dataset" /\ b.kind = "dataset" /\ a.path = b.path => m = n

\* The objects the items of target load when they run, in order.
Loads(corpus, item, target) ==
    item.target = target /\ ~item.blocked /\ item.source.path # corpus.trouble.object

LoadedInto(corpus, items, target) ==
    FoldLeft(LAMBDA loaded, item : IF Loads(corpus, item, target)
                                   THEN Append(loaded, item.source.path) ELSE loaded,
             << >>, items)

(* One item of a table may replace it, or "the second would wipe the first's
   rows"; the rest add to it.  Executed twice, a plan leaves in a table what
   its items load, once, provided the item that replaces it ran and had rows. *)
RerunReplaces ==
    Answered("plan") =>
        LET items == result.plan.items
            replaced(target) ==
                \E i \in Range(items) : Loads(input, i, target) /\ i.mode = "overwrite"
        IN  \A target \in DOMAIN result.twice.tables :
                replaced(target) /\ ~result.once.stopped =>
                    result.twice.tables[target] = LoadedInto(input, items, target)

(* An off-by-one in a range would drop or repeat rows without a sign of it:
   every row is in one window, every value in one slice. *)
RangesCover ==
    Answered("ranges") =>
        /\ result.windows # {} =>
            \A row \in 0..(input.rows - 1) :
                Cardinality({w \in result.windows : w[1] <= row /\ row < w[1] + w[2]}) = 1
        /\ Cardinality(result.windows) <= input.slices
        /\ result.slices # {} =>
            \A v \in (input.low * input.slices)..(input.high * input.slices) :
                Cardinality({s \in result.slices :
                    s.from <= v /\ (v < s.to \/ (s.closed /\ v = s.to))}) = 1

(* All of them: what the corpus reads is planned, and what is planned is
   loaded, once. *)
HydrationIsExact ==
    ReadsAreAnnounced /\ ItemsAreRead /\ DatasetsLoadedOnce /\ RerunReplaces /\ RangesCover

-----------------------------------------------------------------------------
(* Violated.  "so a re-run is idempotent whatever order the runner executes in"
   (build_corpus_plan, WriteMode). *)
RerunIdempotent ==
    Answered("plan") => result.twice.tables = result.once.tables

(* Violated.  "two files naming one table name it once" (HydrationSource),
   "appending one copy per reader would load its rows several times over". *)
ObjectsLoadedOnce ==
    Answered("plan") =>
        \A target \in DOMAIN result.once.tables :
            Cardinality(Range(result.once.tables[target])) = Len(result.once.tables[target])

(* Violated.  "The LIBNAME in force is the latest one before the read"
   (_library_members), whichever engine it is of. *)
LatestLibname ==
    Answered("plan") =>
        LET flat == Flat(input.files)
        IN  \A read \in ReadsOf(flat) :
                LET ref == flat[read[1]].refs[read[2]]
                    j == LibnameAt(flat, read[1], ref.libref)
                IN  j # 0 /\ flat[j].engine = "spde" =>
                        \A item \in Range(result.plan.items) :
                            ~(item.source.kind = "dataset" /\ item.source.libref = ref.libref
                              /\ Last(item.source.path) = ref.member)
=============================================================================
