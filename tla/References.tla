------------------------------ MODULE References ------------------------------
(***************************************************************************)
(* What the names in a program mean where they stand (chunker/metadata,    *)
(* resolve_references): macro variables, the User library, filerefs, ODS   *)
(* OUTPUT requests and database librefs, each by a walk in source order.   *)
(* A name is a sequence of atoms, <<"&", v>> for a reference to v and a    *)
(* word by itself otherwise; << >> is a value nobody knows.                *)
(***************************************************************************)
EXTENDS Cases, SequencesExt, FiniteSets, FiniteSetsExt

CONSTANTS
    MacroVars, Macros,   \* names of variables and macros
    MacroPrograms,       \* sequences of statements: let, step, macro, call
    LibraryPrograms,     \* of let, user, engine, view and step
    PlacePrograms,       \* of filename, setenv and use
    OdsPrograms          \* of request, close, step, slice and call

-----------------------------------------------------------------------------
(* macro_vars: expansion *)

IsRef(atom)  == Len(atom) = 2
HasRef(name) == \E i \in DOMAIN name : IsRef(name[i])

\* Mutant: a value is known once and for all.
Forget(table, v, value) == [table EXCEPT ![v] = IF value = << >> THEN @ ELSE value]

\* _assign: what is not known any more is forgotten.
Assign(table, v, value) == [table EXCEPT ![v] = value]

Expands(atom, table, skip) == IsRef(atom) /\ atom[2] \notin skip /\ table[atom[2]] # << >>

\* One pass over a name, and the variables expanded, which no later pass is to.
ExpandOnce(at, table) ==
    [name |-> FlattenSeq([i \in DOMAIN at.name |->
                  IF Expands(at.name[i], table, at.skip) THEN table[at.name[i][2]]
                  ELSE <<at.name[i]>>]),
     skip |-> at.skip \cup {at.name[i][2] : i \in {i \in DOMAIN at.name :
                                                    Expands(at.name[i], table, at.skip)}}]

ResolveRefs(name, table) ==
    FoldLeft(LAMBDA at, pass : ExpandOnce(at, table), [name |-> name, skip |-> {}],
             [n \in 1..Cardinality(MacroVars) + 1 |-> n]).name

\* The values of assignments in order, each resolved where it stands.
InTurn(lets, table) ==
    FoldLeft(LAMBDA t, let : Assign(t, let.var, ResolveRefs(let.value, t)), table, lets)

-----------------------------------------------------------------------------
(* _MacroScope: the table and the macros defined so far *)

Nothing == [table |-> [v \in MacroVars |-> << >>], macros |-> [m \in Macros |-> {}]]

\* What a macro's body resolves against: its arguments over its defaults, by
\* the caller's values; a parameter without one hides the variable.
Binding(macro, args, table) ==
    [v \in MacroVars |->
        IF v \notin DOMAIN macro.params THEN table[v]
        ELSE ResolveRefs(IF v \in DOMAIN args THEN args[v] ELSE macro.params[v], table)]

\* What a call leaves behind: a body's assignment reaches a variable that is
\* declared global, or has a value out there and is not the macro's own.
\* A body with %IF may not run it, and a step's INTO gives any value.
GlobalEffects(macro, args, table) ==
    LET own == DOMAIN macro.params \cup macro.locals
        After(at, let) ==
            LET value == ResolveRefs(let.value, at.local)
                outer == let.var \notin own
                         /\ (let.var \in macro.globals \cup at.touched \/ table[let.var] # << >>)
            IN  [local   |-> Assign(at.local, let.var, value),
                 touched |-> IF outer THEN at.touched \cup {let.var} ELSE at.touched,
                 table   |-> IF ~outer THEN at.table
                             ELSE Assign(at.table, let.var,
                                         IF macro.conditional \/ HasRef(value) THEN << >>
                                         ELSE value)]
        end == FoldLeft(After, [local |-> Binding(macro, args, table), touched |-> {},
                                table |-> table], macro.lets)
    IN  [v \in MacroVars |->
            IF v \in macro.produces \ own /\ table[v] # << >> THEN << >> ELSE end.table[v]]

\* What a statement leaves for those after it; a definition runs nothing.
LeaveChunk(scope, c) ==
    CASE c.kind = "macro" -> [scope EXCEPT !.macros[c.name] = {c}]
      [] c.kind = "call"  -> [scope EXCEPT !.table =
                                 IF scope.macros[c.name] = {} THEN @
                                 ELSE GlobalEffects(CHOOSE m \in scope.macros[c.name] : TRUE,
                                                    c.args, @)]
      [] c.kind = "let"   -> [scope EXCEPT !.table = InTurn(c.lets, @)]
      [] c.kind = "step"  -> [scope EXCEPT !.table =
                                 FoldLeft(LAMBDA t, p : Assign(t, p.var, p.value), @, c.produces)]
      [] OTHER            -> scope

\* The scope before each statement, and after the last.
ScopesOf(program) ==
    LET upto[n \in 1..Len(program) + 1] ==
            IF n = 1 THEN Nothing ELSE LeaveChunk(upto[n - 1], program[n - 1])
    IN  upto

NamedBy(c, table) == [c EXCEPT !.reads = [i \in DOMAIN @ |-> ResolveRefs(@[i], table)]]

\* resolve_macro_var_refs: every name in open code by the values before it.
ResolveMacroVars(program) ==
    LET scopes == ScopesOf(program)
    IN  [i \in DOMAIN program |->
            IF program[i].kind = "step" THEN NamedBy(program[i], scopes[i].table)
            ELSE program[i]]

-----------------------------------------------------------------------------
(* resolve_user_library: a one-level name has one word, or a reference to it *)

WorkLib == <<"work">>
PermLib == <<"perm">>
Dot     == <<".">>
OneLevel(name, table) == Dot \notin Range(ResolveRefs(name, table))

\* The User library after a statement, << >> while there is none.
UserAfter(user, c, table) ==
    CASE c.kind = "user" /\ c.how = "libname" -> <<<<"user">>>>
      [] c.kind = "user" /\ c.how = "clear"   -> << >>
      [] c.kind = "user" /\ c.how = "option"  ->
            LET value == ResolveRefs(c.value, table) IN IF value = <<WorkLib>> THEN << >> ELSE value
      [] OTHER -> user

UsersOf(program) ==
    LET scopes == ScopesOf(program)
        upto[n \in 1..Len(program) + 1] ==
            IF n = 1 THEN << >>
            ELSE UserAfter(upto[n - 1], program[n - 1], scopes[n - 1].table)
    IN  upto

Canonical(name) == IF HasRef(name) \/ Dot \in Range(name) THEN name ELSE <<WorkLib, Dot>> \o name

\* Every read is given with its library, as it was spelled beside it; one that
\* is moved already is no WORK name any more.
ResolveUser(program) ==
    LET scopes == ScopesOf(program)
        users  == UsersOf(program)
        Moved(read, table, user) ==
            IF user # << >> /\ OneLevel(read.raw, table) /\ IsPrefix(<<WorkLib, Dot>>, read.name)
            THEN [read EXCEPT !.name = user \o Tail(@)] ELSE read
    IN  [i \in DOMAIN program |->
            IF program[i].kind # "step" THEN program[i]
            ELSE [program[i] EXCEPT !.found =
                     [r \in DOMAIN @ |-> Moved(@[r], scopes[i].table, users[i])]]]

\* The names found so far, canonicalised: resolve_macro_var_refs for these.
ResolveFound(program) ==
    LET scopes == ScopesOf(program)
    IN  [i \in DOMAIN program |->
            IF program[i].kind # "step" THEN program[i]
            ELSE [program[i] EXCEPT !.found =
                     [r \in DOMAIN @ |-> [@[r] EXCEPT !.name =
                         Canonical(ResolveRefs(@, scopes[i].table))]]]]

-----------------------------------------------------------------------------
(* resolve_db_librefs: the engine LIBNAMEs in force, by libref *)

EnginesAfter(engines, c, table) ==
    CASE c.kind = "engine" -> [engines EXCEPT ![c.lib] = <<ResolveRefs(c.schema, table)>>]
      [] c.kind = "clear"  -> [engines EXCEPT ![c.lib] = << >>]
      [] OTHER             -> engines

\* A view's own librefs hide the session's for its query only.
EnginesIn(engines, c, table) ==
    IF c.kind = "view" THEN [engines EXCEPT ![c.lib] = <<ResolveRefs(c.schema, table)>>]
    ELSE engines

\* The tables each statement's names reach through a database's libref.
ResolveEngines(program) ==
    LET scopes  == ScopesOf(program)
        librefs == {<<WorkLib>>, <<PermLib>>}
        upto[n \in 1..Len(program) + 1] ==
            IF n = 1 THEN [l \in librefs |-> << >>]
            ELSE EnginesAfter(upto[n - 1], program[n - 1], scopes[n - 1].table)
        TablesOf(c, engines) ==
            {[schema |-> engines[<<r.name[1]>>][1], table |-> SubSeq(r.name, 3, Len(r.name))] :
                r \in {r \in Range(c.found) : /\ Len(r.name) > 2 /\ r.name[2] = Dot
                                              /\ <<r.name[1]>> \in librefs
                                              /\ engines[<<r.name[1]>>] # << >>}}
    IN  [i \in DOMAIN program |->
            IF program[i].kind \notin {"step", "view"} THEN program[i]
            ELSE [program[i] EXCEPT !.tables =
                     TablesOf(program[i], EnginesIn(upto[i], program[i], scopes[i].table))]]

\* resolve_references, for the names found: macro variables first, database
\* librefs last.
ResolveLibraries(program) == ResolveEngines(ResolveUser(ResolveFound(program)))

-----------------------------------------------------------------------------
(* resolve_filerefs: what a fileref stands for, << >> for nothing *)

Unbound == [places |-> << >>, device |-> "none"]

FilerefsAfter(at, c) ==
    CASE c.kind = "filename" /\ c.places # << >> ->
            [at EXCEPT !.bound[c.fref] = [places |-> c.places, device |-> "none"]]
      [] c.kind = "filename" /\ c.places = << >> ->
            [at EXCEPT !.bound[c.fref] = [Unbound EXCEPT !.device = c.device]]
      [] c.kind = "clear all" -> [at EXCEPT !.bound = [f \in DOMAIN @ |-> Unbound]]
      [] c.kind = "setenv"    -> [at EXCEPT !.env[c.fref] = <<c.place>>]
      [] OTHER                -> at

\* Where one reference leads: a FILENAME's places or device come before an
\* environment variable; a bare word nothing binds is a file by that name.
Followed(ref, at) ==
    LET AtPlace(place) == [ref EXCEPT !.place = place]
        bound == at.bound[ref.fref]
    IN  CASE bound.places # << >>      -> [i \in DOMAIN bound.places |-> AtPlace(bound.places[i])]
          [] bound.device # "none"     -> <<AtPlace("device " \o bound.device)>>
          [] at.env[ref.fref] # << >>  -> <<AtPlace(at.env[ref.fref][1])>>
          [] OTHER -> IF ref.member THEN <<ref>> ELSE <<AtPlace("word")>>

\* Following again what a run followed gives the same places, once each.
ResolveFilerefs(program) ==
    LET frefs == {"f", "g"}
        upto[n \in 1..Len(program) + 1] ==
            IF n = 1 THEN [bound |-> [f \in frefs |-> Unbound], env |-> [f \in frefs |-> << >>]]
            ELSE FilerefsAfter(upto[n - 1], program[n - 1])
        Once(seq) == FoldLeft(LAMBDA kept, r : IF r \in Range(kept) THEN kept ELSE Append(kept, r),
                              << >>, seq)
    IN  [i \in DOMAIN program |->
            IF program[i].kind # "use" THEN program[i]
            ELSE [program[i] EXCEPT !.refs =
                     Once(FlattenSeq([r \in DOMAIN @ |-> Followed(@[r], upto[i])]))]]

-----------------------------------------------------------------------------
(* resolve_ods_outputs: an ask is [object, keep, role] *)

RunsProc(c) == c.kind \in {"proc", "call"}
Wanted(c)   == {a \in c.asks : a.role = "WRITE"}
Mention(c, asks) == [c EXCEPT !.asks = {IF a \in asks THEN [a EXCEPT !.role = "MENTION"] ELSE a :
                                            a \in c.asks}]
AtStart(p) == [p |-> p, pending |-> {}, persisting |-> {}, open |-> FALSE,
               claimed |-> FALSE, taken |-> {}]

\* Requests end with their file.
Entered(at, i) ==
    IF i > 1 /\ at.p[i].file = at.p[i - 1].file THEN at ELSE AtStart(at.p)

\* A step ends the PROC before it; a RUN-group PROC goes on without a QUIT.
Closed(at, i) ==
    IF at.p[i].kind \in {"proc", "call", "data"}
    THEN [at EXCEPT !.open = at.p[i].kind = "proc" /\ at.p[i].runGroup] ELSE at

Cancelled(at) ==
    [at EXCEPT !.p = [i \in DOMAIN @ |-> IF i \in at.pending THEN Mention(@[i], Wanted(@[i]))
                                         ELSE @[i]],
               !.pending = {}, !.persisting = {}]

\* The request of a PROC that runs already is that PROC's, which is over.
Requested(at, i) ==
    LET c == IF at.open THEN Mention(at.p[i], {a \in Wanted(at.p[i]) : ~a.keep}) ELSE at.p[i]
    IN  [at EXCEPT !.p[i] = c, !.pending = IF Wanted(c) = {} THEN @ ELSE @ \cup {i}]

\* The PROC takes what waits for it, and what persists.
Taken(at, i) ==
    LET requests == UNION {Wanted(at.p[j]) : j \in at.pending}
        taken    == at.persisting \cup {a.object : a \in requests}
    IN  [at EXCEPT !.p = [j \in DOMAIN @ |->
                            IF j = i THEN [@[j] EXCEPT !.writes = @ \cup taken]
                            ELSE IF j \in at.pending
                            THEN [@[j] EXCEPT !.asks = @ \ Wanted(at.p[j])] ELSE @[j]],
                   !.pending = {}, !.claimed = TRUE, !.taken = taken,
                   !.persisting = @ \cup {a.object : a \in {a \in requests : a.keep}}]

OdsStep(at0, i) ==
    LET at == Entered(at0, i)
        c  == at.p[i]
    IN  IF at.claimed /\ c.kind = "slice" THEN [at EXCEPT !.p[i].writes = @ \cup at.taken]
        ELSE LET free == [at EXCEPT !.claimed = FALSE]
             IN  Closed(CASE c.kind = "close"                       -> Cancelled(free)
                          [] c.kind = "request" /\ Wanted(c) # {}   -> Requested(free, i)
                          [] RunsProc(c) /\ (free.pending # {} \/ free.persisting # {}) ->
                                Taken(free, i)
                          [] OTHER                                  -> free, i)

ResolveOds(program) == FoldLeft(OdsStep, AtStart(program), [i \in DOMAIN program |-> i]).p

-----------------------------------------------------------------------------
ReferencesInit ==
    \/ Case("macro variables", MacroPrograms) \/ Case("libraries", LibraryPrograms)
    \/ Case("filerefs", PlacePrograms) \/ Case("ods", OdsPrograms)

ReferencesStep ==
    \/ Answer("macro variables", ResolveMacroVars(input))
    \/ Answer("libraries", ResolveLibraries(input))
    \/ Answer("filerefs", ResolveFilerefs(input))
    \/ Answer("ods", ResolveOds(input))

-----------------------------------------------------------------------------
(* What SAS does: the values its macro variables may have *)

Opaque == <<<<"?">>>>     \* a value a run makes, unlike any other

\* The value an assignment gives: unknown ones are some value all the same.
Valued(value, table) == IF value = << >> THEN Opaque ELSE ResolveRefs(value, table)

\* A body's assignment goes to the macro's own variable, or else to the
\* session's if it is there or declared, or else to a new one of its own.
SasLet(macro, at, let) ==
    LET inner == [v \in MacroVars |-> IF v \in at.own THEN at.local[v] ELSE at.table[v]]
        value == Valued(let.value, inner)
    IN  IF let.var \in at.own THEN [at EXCEPT !.local[let.var] = value]
        ELSE IF at.table[let.var] # << >> \/ let.var \in macro.globals
             THEN [at EXCEPT !.table[let.var] = value]
        ELSE [at EXCEPT !.own = @ \cup {let.var}, !.local[let.var] = value]

\* The tables a call may leave: under %IF an assignment runs or does not.
SasCall(macro, args, table) ==
    LET params == DOMAIN macro.params
        start  == [own |-> params \cup macro.locals, table |-> table,
                   local |-> [v \in MacroVars |->
                       IF v \in DOMAIN args THEN ResolveRefs(args[v], table)
                       ELSE IF v \in params THEN ResolveRefs(macro.params[v], table) ELSE << >>]]
        run    == IF macro.conditional THEN SUBSET (DOMAIN macro.lets) ELSE {DOMAIN macro.lets}
        End(chosen) == FoldLeft(LAMBDA at, i : IF i \in chosen THEN SasLet(macro, at, macro.lets[i])
                                               ELSE at,
                                start, [i \in DOMAIN macro.lets |-> i])
        Left(at)    == [v \in MacroVars |->
                           IF v \in macro.produces \ at.own THEN Opaque ELSE at.table[v]]
    IN  {Left(End(chosen)) : chosen \in run}

SasAfter(at, c) ==
    LET Lets(t, pairs) == FoldLeft(LAMBDA u, p : [u EXCEPT ![p.var] = Valued(p.value, u)], t, pairs)
    IN  CASE c.kind = "macro" -> {[at EXCEPT !.macros[c.name] = {c}]}
          [] c.kind = "call"  ->
                {[at EXCEPT !.table = t] :
                    t \in IF at.macros[c.name] = {} THEN {at.table}
                          ELSE SasCall(CHOOSE m \in at.macros[c.name] : TRUE, c.args, at.table)}
          [] c.kind = "let"   -> {[at EXCEPT !.table = Lets(@, c.lets)]}
          [] c.kind = "step"  -> {[at EXCEPT !.table = Lets(@, c.produces)]}
          [] OTHER            -> {at}

SasRuns(program) ==
    LET upto[n \in 1..Len(program) + 1] ==
            IF n = 1 THEN {Nothing}
            ELSE UNION {SasAfter(at, program[n - 1]) : at \in upto[n - 1]}
    IN  upto

-----------------------------------------------------------------------------
(* What the names are good for *)

\* A name a macro variable spells is given a value only if SAS reads that name
\* there however the program's %IFs come out and whatever its steps compute, a
\* CALL SYMPUT being taken as executed ("the residual approximation", metadata.py:1144)
\* ("on the side of not guessing", metadata.py:1522), and a second run, over
\* the corpus, changes nothing (metadata.py:1517-1519): as long as no value
\* the walk keeps is itself spelled through a variable it does not know.
NothingIsGuessed ==
    LET runs   == SasRuns(input)
        scopes == ScopesOf(input)
        Spelled(i) == \A v \in MacroVars : ~HasRef(scopes[i].table[v])
    IN  /\ \A i \in DOMAIN input : input[i].kind = "step" /\ Spelled(i) =>
              \A r \in DOMAIN input[i].reads : LET name == result[i].reads[r] IN
                  ~HasRef(name) => \A at \in runs[i] : ResolveRefs(input[i].reads[r], at.table) = name
        /\ ResolveMacroVars(result) = result

\* A one-level name is the User library's while a statement before it says so
\* and none since took it back, else WORK's; one written with its library is
\* what it says (resolve_user_library), and its table is the database's whose
\* LIBNAME is the last of its libref (resolve_db_librefs).  Twice is as once,
\* if the names are all known.
LibrariesAreInForce ==
    LET scopes == ScopesOf(input)
        LastOf(i, kinds) == Max({0} \cup {j \in 1..(i - 1) : input[j].kind \in kinds})
        UserAt(i) == LET j == LastOf(i, {"user"}) IN
            IF j = 0 \/ input[j].how = "clear" THEN <<WorkLib>>
            ELSE IF input[j].how = "libname" THEN <<<<"user">>>>
            ELSE ResolveRefs(input[j].value, scopes[j].table)
        Meant(i, raw) == LET name == ResolveRefs(raw, scopes[i].table) IN
            IF HasRef(name) \/ Dot \in Range(name) THEN name ELSE UserAt(i) \o <<Dot>> \o name
        EngineAt(i, lib) ==
            LET j == Max({0} \cup {j \in 1..(i - 1) : /\ input[j].kind \in {"engine", "clear"}
                                                      /\ input[j].lib = lib})
            IN  IF input[i].kind = "view" /\ input[i].lib = lib THEN i
                ELSE IF j # 0 /\ input[j].kind = "engine" THEN j ELSE 0
        TableAt(i, name) == LET j == EngineAt(i, <<name[1]>>) IN
            IF Len(name) # 3 \/ j = 0 THEN {}
            ELSE {[schema |-> ResolveRefs(input[j].schema, scopes[j].table), table |-> <<name[3]>>]}
    IN  /\ \A i \in DOMAIN input : input[i].kind = "step" =>
              LET meant == [r \in DOMAIN input[i].found |-> Meant(i, input[i].found[r].raw)]
              IN  /\ \A r \in DOMAIN meant : result[i].found[r].name = meant[r]
                  /\ result[i].tables = UNION {TableAt(i, meant[r]) : r \in DOMAIN meant}
        /\ (\A i \in DOMAIN result : input[i].kind = "step" =>
                 \A r \in Range(result[i].found) : ~HasRef(r.name))
           => ResolveLibraries(result) = result

\* A reference leads where the last FILENAME of its fileref says, and two files
\* resolved apart and then together lead where they do when resolved together
\* (metadata.py:1960-1963).
PlacesAreLast ==
    LET half == Len(input) \div 2
        apart == ResolveFilerefs(SubSeq(input, 1, half))
                 \o ResolveFilerefs(SubSeq(input, half + 1, Len(input)))
    IN  /\ ResolveFilerefs(apart) = result
        /\ \A i \in DOMAIN input : input[i].kind = "use" =>
              LET fref == input[i].refs[1].fref
                  last == Max({0} \cup {j \in 1..(i - 1) :
                                  \/ input[j].kind = "filename" /\ input[j].fref = fref
                                  \/ input[j].kind = "clear all"})
                  led  == [r \in DOMAIN result[i].refs |-> result[i].refs[r].place]
              IN  last # 0 /\ input[last].kind = "filename" /\ input[last].places # << >>
                  => ToSet(led) = ToSet(input[last].places)

\* A request for output is written by a PROC after it in its file, with none
\* between them unless it persists, and no end of the list; it is written by
\* the whole of that PROC, its slices too; and only by what a PROC runs
\* (resolve_ods_outputs).  Twice is as once.
RequestsAreFulfilledOnce ==
    LET Between(i, j, kinds) == {k \in (i + 1)..(j - 1) : input[k].kind \in kinds}
        Reaches(i, j, ask) ==
            /\ i < j /\ \A k \in i..j : input[k].file = input[j].file
            /\ Between(i, j, {"close"}) = {}
            /\ Between(i, j, {"proc", "call"}) = {} \/ ask.keep
        PartOf(j) == Max({k \in 1..j : input[k].kind # "slice"})
    IN  /\ \A j \in DOMAIN input : \A o \in result[j].writes \ input[j].writes :
              /\ RunsProc(input[PartOf(j)])
              /\ \E i \in DOMAIN input : \E a \in input[i].asks :
                    a.object = o /\ Reaches(i, PartOf(j), a)
              /\ o \in result[PartOf(j)].writes
        /\ \A i, j \in DOMAIN input : \A a \in result[i].asks :
              a.role = "WRITE" => ~(RunsProc(input[j]) /\ Reaches(i, j, a))
        /\ \A i \in DOMAIN input : \A a \in input[i].asks :
              \/ \E b \in result[i].asks : b.object = a.object
              \/ \E j \in DOMAIN input : a.object \in result[j].writes /\ j > i
        /\ ResolveOds(result) = result

\* All four: a name means what the last statement before its use made of it.
ReferencesHold ==
    /\ Answered("macro variables") => NothingIsGuessed
    /\ Answered("libraries") => LibrariesAreInForce
    /\ Answered("filerefs") => PlacesAreLast
    /\ Answered("ods") => RequestsAreFulfilledOnce
===============================================================================
