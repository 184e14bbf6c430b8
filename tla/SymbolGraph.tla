----------------------------- MODULE SymbolGraph -----------------------------
(* The symbol graph (.lexibrary/symbols.db): definitions, calls and class  *)
(* edges of the source files; how a call finds its definition; the full    *)
(* build, which empties the database and fills it in one transaction; and  *)
(* the refresh of single files.  Symbols and files have numbers of their   *)
(* own, which are not used again until the tables are dropped.             *)
EXTENDS PythonSymbols, ScriptSymbols, SequencesExt

CONSTANTS
  File,          \* source files, numbered in the order of their paths
  Lang,          \* Lang[f]: "python", "typescript", "javascript" or "other"
  DirOf,         \* DirOf[f]: the directory of a file
  Parent,        \* Parent[d]: the directory above a directory
  Texts,         \* Texts[f]: the syntax trees a file may hold
  At,            \* At[<<directory, name, form>>]: the file of that path
  Alias,         \* Alias[name]: where tsconfig.json says to look, <<dir, name>>
  Proc,          \* update runs that may go on at the same time
  Acts,          \* bound: edits, runs and kills
  None

ASSUME FileAssumption == File \subseteq Nat \ {0} /\ IsFiniteSet(File)
(* A node is a number in its text, and a call is by a name.                *)
ASSUME TextAssumption ==
  \A f \in File : \A t \in Texts[f] :
    /\ DOMAIN t \subseteq Nat \ {0} /\ IsFiniteSet(DOMAIN t)
    /\ \A n \in DOMAIN t : t[n].name \in Seq(STRING) /\ (t[n].type = "call" => t[n].name # <<>>)

VARIABLES
  source,        \* source[f]: the text of a file, None when it is gone
  db,            \* the database, None before the first build
  job,           \* job[p]: what run p is doing, None when it is idle
  raced,         \* files edited between being read and being stored
  acts           \* edits, runs and kills so far

vars == <<source, db, job, raced, acts>>

Empty == [files |-> {}, symbols |-> <<>>, calls |-> {}, open |-> {}, edges |-> {},
          loose |-> {}, nextFile |-> 1, nextSymbol |-> 1]

Present == {f \in File : source[f] # None}

-----------------------------------------------------------------------------
(* What the parsers make of a text.                                        *)

AllTexts == UNION {Texts[f] : f \in File}
Languages == {"python", "typescript", "javascript"}

(* _extract_symbols_for, once per text.                                    *)
Extracts ==
  [f \in {g \in File : Lang[g] \in Languages} |->
     [t \in Texts[f] |->
        CASE Lang[f] = "python" -> PyExtract(t, f)
          [] Lang[f] = "typescript" -> TsExtract(t, f)
          [] Lang[f] = "javascript" -> JsExtract(t, f)]]

(* No parser for the language, or no file: nothing is extracted.           *)
Parsed(f, t) == t # None /\ Lang[f] \in Languages

-----------------------------------------------------------------------------
(* Imports.  A file that does not exist now is not found, whatever the     *)
(* database has of it.                                                     *)

FirstOf(places) ==
  LET hits == {i \in DOMAIN places :
                 places[i] \in DOMAIN At /\ source[At[places[i]]] # None}
  IN IF hits = {} THEN None
     ELSE At[places[CHOOSE i \in hits : \A j \in hits : i <= j]]

(* A module or a package, below src/ and then below the project.           *)
ResolvePythonModule(m) ==
  FirstOf(<<<<"src", m, "module">>, <<"src", m, "package">>,
            <<"root", m, "module">>, <<"root", m, "package">>>>)

ResolveRelativeModule(f, m, is) ==
  LET d == IF "up" \in is THEN Parent[DirOf[f]] ELSE DirOf[f]
  IN FirstOf(<<<<d, m, "module">>, <<d, m, "package">>>>)

(* With a suffix, with one of the known suffixes added, or the index of a  *)
(* directory of that name.                                                 *)
JsForms(d, m) == <<<<d, m, "exact">>, <<d, m, "suffixed">>, <<d, m, "index">>>>

ResolvePathAlias(m) ==
  IF m \in DOMAIN Alias THEN FirstOf(FlattenSeq([i \in DOMAIN Alias[m] |->
                                       JsForms(Alias[m][i][1], Alias[m][i][2])]))
  ELSE None

ResolveJsModule(f, m, is) ==
  IF "relative" \in is THEN FirstOf(JsForms(DirOf[f], m)) ELSE ResolvePathAlias(m)

Imports(t) == {n \in DOMAIN t : t[n].type = "import" /\ t[n].up = 0}

Leads(f, n, t) ==
  LET s == t[n] IN
  CASE Lang[f] # "python" -> ResolveJsModule(f, s.name, s.is)
    [] Lang[f] = "python" /\ "relative" \in s.is -> ResolveRelativeModule(f, s.name, s.is)
    [] OTHER -> ResolvePythonModule(s.name)

(* import m; import m as a.                                                *)
ModuleBindings(s) ==
  IF s.refs = {} THEN {<<s.name, "">>} ELSE {<<<<r[1]>>, "">> : r \in s.refs}
(* from m import n; from m import n as a.                                  *)
NameBindings(s) == {<<<<r[1]>>, r[2]>> : r \in s.refs}
(* One line at a time: names on the lines of a wrapped import are not seen.*)
JsBindings(s) == IF "wrapped" \in s.is THEN {} ELSE {<<<<r[1]>>, "">> : r \in s.refs}

Bindings(f, s) ==
  IF Lang[f] # "python" THEN JsBindings(s)
  ELSE IF "from" \in s.is THEN NameBindings(s) ELSE ModuleBindings(s)

(* The names a file imports, the last import of a name first.              *)
ParseImports(f, t) ==
  LET known == {n \in Imports(t) : Leads(f, n, t) # None}
      keys == {b[1] : b \in UNION {Bindings(f, t[n]) : n \in known}}
      last(k) == CHOOSE n \in known :
                   /\ \E b \in Bindings(f, t[n]) : b[1] = k
                   /\ \A m \in known : m > n => \A b \in Bindings(f, t[m]) : b[1] # k
  IN [k \in keys |->
        [file |-> Leads(f, last(k), t),
         original |-> (CHOOSE b \in Bindings(f, t[last(k)]) : b[1] = k)[2]]]

-----------------------------------------------------------------------------
(* Lookups in the database d.  The rows of a query are taken in the order  *)
(* of their numbers; 0 is no row.                                          *)

Callable == {"function", "method", "class"}
First(S) == IF S = {} THEN 0 ELSE CHOOSE i \in S : \A j \in S : i <= j

FileId(d, f) == First({r.id : r \in {x \in d.files : x.path = f}})
PathOf(d, s) == (CHOOSE r \in d.files : r.id = d.symbols[s].file).path
InFile(d, file) == {s \in DOMAIN d.symbols : d.symbols[s].file = file}
Lookup(d, file, name, types) ==
  First({s \in InFile(d, file) : d.symbols[s].name = name /\ d.symbols[s].type \in types})
LookupInFile(d, f, name) ==
  Lookup(d, FileId(d, f), name, Callable \cup {"enum", "constant"})
LookupClassInFile(d, f, name) == Lookup(d, FileId(d, f), name, {"class"})
LookupSymbolId(d, file, qual) == First({s \in InFile(d, file) : d.symbols[s].qual = qual})

(* The innermost class around the lines of the caller.                     *)
EnclosingClass(d, file, caller) ==
  LET own == First({s \in InFile(d, file) : /\ d.symbols[s].qual = caller
                                            /\ d.symbols[s].type \in {"function", "method"}})
      around == {c \in InFile(d, file) :
                   /\ d.symbols[c].type = "class"
                   /\ d.symbols[c].from < d.symbols[own].from
                   /\ d.symbols[own].from <= d.symbols[c].to}
  IN IF own = 0 \/ around = {} THEN 0
     ELSE CHOOSE c \in around : \A e \in around : d.symbols[e].from <= d.symbols[c].from

MethodOf(d, c, name) ==
  First({s \in InFile(d, d.symbols[c].file) :
           /\ d.symbols[s].name = name
           /\ d.symbols[s].type = "method"
           /\ d.symbols[s].parent = d.symbols[c].name})

(* The nearest base class that has the method.  The bases of a class are a *)
(* set: of two as near, the code takes the one named first and the model   *)
(* the one with the lower number.                                          *)
InheritedMethod(d, c, name) ==
  LET Bases(S) == {e.target : e \in {x \in d.edges : x.source \in S /\ x.kind = "inherits"}}
      Level[k \in 0..Cardinality(DOMAIN d.symbols)] ==
        IF k = 0 THEN {c} ELSE Bases(Level[k - 1])
      Found(k) == {MethodOf(d, b, name) : b \in Level[k] \ {c}} \ {0}
      ks == {k \in 0..Cardinality(DOMAIN d.symbols) : Found(k) # {}}
  IN IF ks = {} THEN 0 ELSE First(Found(First(ks)))

LongestIn(S) == CHOOSE p \in S : \A q \in S : Len(q) <= Len(p)

(* super(): never.  self.m(): the class around the caller, then its bases. *)
(* Otherwise a definition of that name in the file, whatever the call is   *)
(* made on; then what the file imports.                                    *)
ResolvePython(d, imports, caller, name, file) ==
  LET bare == Last(name)
      on == Front(name)
      own == EnclosingClass(d, file, caller)
      local == Lookup(d, file, bare, {"function", "class"})
      imported(key) == LookupInFile(d, imports[key].file,
                         IF imports[key].original # "" THEN imports[key].original ELSE bare)
      known == Prefixes(on) \cap DOMAIN imports
  IN IF Len(name) > 1 /\ name[1] = "super" THEN 0
     ELSE IF on = <<"self">>
     THEN IF own = 0 THEN 0
          ELSE IF MethodOf(d, own, bare) # 0 THEN MethodOf(d, own, bare)
          ELSE InheritedMethod(d, own, bare)
     ELSE IF local # 0 THEN local
     ELSE IF on \in known THEN imported(on)
     ELSE IF known # {} THEN LookupInFile(d, imports[LongestIn(known)].file, bare)
     ELSE IF <<bare>> \in DOMAIN imports THEN imported(<<bare>>)
     ELSE 0

(* A name imported under another name is looked up under that.             *)
ResolveJs(d, imports, name, file) ==
  LET bare == Last(name)
      local == Lookup(d, file, bare, Callable)
      on == Front(name)
  IN IF local # 0 THEN local
     ELSE IF on # <<>> /\ on \in DOMAIN imports THEN LookupInFile(d, imports[on].file, bare)
     ELSE IF <<bare>> \in DOMAIN imports THEN LookupInFile(d, imports[<<bare>>].file, bare)
     ELSE 0

ResolvePythonClass(d, imports, name, file) ==
  LET bare == Last(name)
      local == Lookup(d, file, bare, {"class"})
      original == imports[<<bare>>].original
      direct == IF <<bare>> \notin DOMAIN imports THEN 0
                ELSE LookupClassInFile(d, imports[<<bare>>].file,
                                       IF original # "" THEN original ELSE bare)
      known == Prefixes(Front(name)) \cap DOMAIN imports
  IN IF local # 0 THEN local
     ELSE IF direct # 0 THEN direct
     ELSE IF known = {} THEN 0
     ELSE LookupClassInFile(d, imports[LongestIn(known)].file, bare)

ResolveJsClass(d, imports, name, file) ==
  LET bare == Last(name)
      local == Lookup(d, file, bare, {"class"})
      known == Prefixes(Front(name)) \cap DOMAIN imports
  IN IF local # 0 THEN local
     ELSE IF <<bare>> \in DOMAIN imports
     THEN LookupClassInFile(d, imports[<<bare>>].file, bare)
     ELSE IF known = {} THEN 0
     ELSE LookupClassInFile(d, imports[LongestIn(known)].file, bare)

Resolve(d, f, imports, caller, name, file) ==
  IF Lang[f] = "python" THEN ResolvePython(d, imports, caller, name, file)
  ELSE ResolveJs(d, imports, name, file)
ResolveClass(d, f, imports, name, file) ==
  IF Lang[f] = "python" THEN ResolvePythonClass(d, imports, name, file)
  ELSE ResolveJsClass(d, imports, name, file)

-----------------------------------------------------------------------------
(* Storing what the files hold.                                            *)

(* UNIQUE(file_id, name, symbol_type, parent_class): two methods of a class*)
(* with one name, such as the getter and the setter of a property, cannot  *)
(* both be stored.                                                         *)
Clash(x) ==
  \E m, n \in DOMAIN x.definitions :
    LET a == x.definitions[m]  b == x.definitions[n] IN
    m # n /\ a.parent # "" /\ a.parent = b.parent /\ a.name = b.name /\ a.type = b.type

(* The definitions of the files F, numbered in the order of the files, and *)
(* in a file in that of the text.                                          *)
Places(F, defs) == UNION {{f} \X DOMAIN defs[f] : f \in F}
Before(a, b) == a[1] < b[1] \/ (a[1] = b[1] /\ a[2] <= b[2])

Insert(d, F, defs, hash) ==
  LET places == Places(F, defs)
      id == [f \in F |-> d.nextFile - 1 + Cardinality({g \in F : g <= f})]
      number == [a \in places |->
                   d.nextSymbol - 1 + Cardinality({b \in places : Before(b, a)})]
      at(s) == CHOOSE a \in places : number[a] = s
      row(a) == [x \in DOMAIN defs[a[1]][a[2]] \cup {"file"} |->
                   IF x = "file" THEN id[a[1]] ELSE defs[a[1]][a[2]][x]]
  IN [d EXCEPT
        !.files = @ \cup {[id |-> id[f], path |-> f, hash |-> hash[f]] : f \in F},
        !.nextFile = @ + Cardinality(F),
        !.nextSymbol = @ + Cardinality(places),
        !.symbols = [s \in DOMAIN d.symbols \cup {number[a] : a \in places} |->
           IF s \in DOMAIN d.symbols THEN d.symbols[s] ELSE row(at(s))]]

(* Pass 2: a call is a row of calls, or of unresolved_calls.               *)
Calls(d, F, x, imports) ==
  LET sites == UNION {{[caller |-> LookupSymbolId(d, FileId(d, f), c.caller),
                        name |-> c.name, line |-> c.line,
                        callee |-> Resolve(d, f, imports[f], c.caller, c.name, FileId(d, f))] :
                          c \in x[f].calls} : f \in F}
      known == {c \in sites : c.caller # 0}
  IN [d EXCEPT
        !.calls = @ \cup {[caller |-> c.caller, callee |-> c.callee, line |-> c.line] :
                            c \in {k \in known : k.callee # 0}},
        !.open = @ \cup {[caller |-> c.caller, name |-> c.name, line |-> c.line] :
                           c \in {k \in known : k.callee = 0}}]

(* Class edges and compositions, resolved or not.                          *)
Edges(d, F, x, imports) ==
  LET sites == UNION {{[source |-> LookupSymbolId(d, FileId(d, f), e.source),
                        name |-> e.target, kind |-> e.kind, line |-> e.line,
                        target |-> ResolveClass(d, f, imports[f], e.target, FileId(d, f))] :
                          e \in x[f].edges \cup x[f].compositions} : f \in F}
      known == {e \in sites : e.source # 0}
  IN [d EXCEPT
        !.edges = @ \cup {Edge(e.source, e.target, e.kind, e.line) :
                            e \in {k \in known : k.target # 0}},
        !.loose = @ \cup {Edge(e.source, e.name, e.kind, e.line) :
                            e \in {k \in known : k.target = 0}}]

(* Subclasses of an enum are enums: along the inherits edges, and along    *)
(* those whose base is unresolved but has its name in the same file, as    *)
(* every enum's has.  Only in Python.                                      *)
Heirs(d, S) ==
  {e.source : e \in {x \in d.edges : x.kind = "inherits" /\ x.target \in S}}
    \cup {e.source : e \in {x \in d.loose :
            /\ x.kind = "inherits" /\ Len(x.target) = 1
            /\ \E s \in S : /\ d.symbols[s].file = d.symbols[x.source].file
                            /\ d.symbols[s].name = x.target[1]}}

EnumClosure(d) ==
  LET c[k \in 0..Cardinality(DOMAIN d.symbols)] ==
        IF k = 0 THEN {s \in DOMAIN d.symbols : d.symbols[s].type = "enum"}
        ELSE c[k - 1] \cup Heirs(d, c[k - 1])
  IN c[Cardinality(DOMAIN d.symbols)]

(* The members are those of the top-level class of that name.              *)
MembersNamed(f, t, name) ==
  LET classes == {n \in DOMAIN t : t[n].type = "class" /\ t[n].up = 0 /\ t[n].name = <<name>>}
  IN IF classes = {} THEN {} ELSE PyEnumMembers(t, First(classes))

PropagateEnums(d, read) ==
  LET new == {s \in EnumClosure(d) : /\ d.symbols[s].type # "enum"
                                     /\ Lang[PathOf(d, s)] = "python"}
      members(s) == MembersNamed(PathOf(d, s), read[PathOf(d, s)], d.symbols[s].name)
  IN [d EXCEPT !.symbols = [s \in DOMAIN d.symbols |->
        IF s \in new THEN [d.symbols[s] EXCEPT !.type = "enum", !.members = members(s)]
        ELSE d.symbols[s]]]

-----------------------------------------------------------------------------
(* The full build.                                                         *)

(* All files, then all calls, then all edges: when the calls are resolved  *)
(* there are no edges yet.                                                 *)
Filled(d, read) ==
  LET parsed == {f \in File : Parsed(f, read[f])}
      extract == [f \in parsed |-> Extracts[f][read[f]]]
      names == [f \in parsed |-> ParseImports(f, read[f])]
      all == Insert(d, parsed, [f \in parsed |-> extract[f].definitions], source)
      called == Calls(all, parsed, extract, names)
  IN PropagateEnums(Edges(called, parsed, extract, names), read)

(* The transaction fails, and leaves the tables as they are: tables are    *)
(* missing; two methods of one name; a file that is gone when its hash is  *)
(* taken; another run has stored a file since the tables were emptied.     *)
BuildFails(read) ==
  LET parsed == {f \in File : Parsed(f, read[f])} IN
  \/ db = None
  \/ \E f \in parsed : Clash(Extracts[f][read[f]]) \/ source[f] = None
  \/ \E f \in parsed : FileId(db, f) # 0

Raced(p) == {f \in File : job[p].read[f] # source[f]}

(* The tables are dropped and created, and that is committed; then the     *)
(* files are read.                                                         *)
StartFull(p) == [job EXCEPT ![p] = [kind |-> "full", todo |-> {}, read |-> source]]

UpdateProject(p) ==
  /\ job[p] = None /\ acts < Acts
  /\ db' = Empty
  /\ job' = StartFull(p)
  /\ acts' = acts + 1
  /\ raced' = {}
  /\ UNCHANGED source

(* Each DROP is committed by itself.  A run that is killed between two of  *)
(* them leaves a database with tables missing, or without a version, which *)
(* answers no query and takes no file, as no database does.                *)
KillDropping(p) ==
  /\ job[p] = None /\ db # None /\ acts + 2 <= Acts
  /\ db' = None
  /\ acts' = acts + 2
  /\ raced' = {}
  /\ UNCHANGED <<source, job>>

FinishFull(p) ==
  /\ job[p] # None /\ job[p].kind = "full"
  /\ IF BuildFails(job[p].read) THEN UNCHANGED <<db, raced>>
     ELSE /\ db' = Filled(db, job[p].read)
          /\ raced' = raced \cup Raced(p)
  /\ job' = [job EXCEPT ![p] = None]
  /\ UNCHANGED <<source, acts>>

-----------------------------------------------------------------------------
(* The refresh of single files.                                            *)

(* Mutant of Forget: foreign keys are not enforced.                        *)
ForgetWithoutCascade(d, f) ==
  LET gone == InFile(d, FileId(d, f))
      stays(s) == s \notin gone
  IN [d EXCEPT
        !.files = {r \in @ : r.path # f},
        !.symbols = [s \in DOMAIN d.symbols \ gone |-> d.symbols[s]],
        !.calls = {c \in @ : stays(c.caller)},
        !.open = {c \in @ : stays(c.caller)},
        !.edges = {e \in @ : stays(e.source) /\ stays(e.target)},
        !.loose = {e \in @ : stays(e.source)}]

(* DELETE ... WHERE caller_id; the rest by ON DELETE CASCADE, the calls and*)
(* edges of other files that lead here among it.                           *)
Forget(d, f) ==
  LET gone == InFile(d, FileId(d, f))
      stays(s) == s \notin gone
  IN [d EXCEPT
        !.files = {r \in @ : r.path # f},
        !.symbols = [s \in DOMAIN d.symbols \ gone |-> d.symbols[s]],
        !.calls = {c \in @ : stays(c.caller) /\ stays(c.callee)},
        !.open = {c \in @ : stays(c.caller)},
        !.edges = {e \in @ : stays(e.source) /\ stays(e.target)},
        !.loose = {e \in @ : stays(e.source)}]

(* An unresolved call of a name that the file defines is tried again, by   *)
(* the rules of Python, with the imports of the refreshed file alone, and  *)
(* with the number of the caller taken for the number of its file.         *)
Promote(d, f, defs, imports) ==
  LET names == {defs[n].name : n \in {m \in DOMAIN defs : defs[m].type \in Callable}}
      known(c) == IF Lang[f] = "python" /\ PathOf(d, c.caller) = f THEN imports ELSE <<>>
      hit(c) == ResolvePython(d, known(c), d.symbols[c.caller].qual, c.name, c.caller)
      won == {c \in d.open : Last(c.name) \in names /\ hit(c) # 0}
  IN [d EXCEPT
        !.open = @ \ won,
        !.calls = @ \cup {[caller |-> c.caller, callee |-> hit(c), line |-> c.line] : c \in won}]

Refreshed(d, f, x, imports) ==
  LET stored == Insert(Forget(d, f), {f}, [g \in {f} |-> x.definitions], source)
      called == Calls(stored, {f}, [g \in {f} |-> x], [g \in {f} |-> imports])
  IN Promote(called, f, x.definitions, imports)

(* Up to three tenths of the files: one after the other; else a full build.*)
Few(S) == Present = {} \/ 10 * Cardinality(S) <= 3 * Cardinality(Present)

UpdateFiles(p, S) ==
  /\ job[p] = None /\ acts < Acts
  /\ acts' = acts + 1
  /\ IF Few(S)
     THEN /\ job' = [job EXCEPT ![p] = [kind |-> "refresh", todo |-> S, read |-> <<>>]]
          /\ UNCHANGED <<db, raced>>
     ELSE db' = Empty /\ job' = StartFull(p) /\ raced' = {}
  /\ UNCHANGED source

Refreshing(p) == job[p] # None /\ job[p].kind = "refresh"

(* Without a database there is nothing to refresh.                         *)
ReadFile(p, f) ==
  /\ Refreshing(p) /\ job[p].read = <<>> /\ f \in job[p].todo
  /\ job' = [job EXCEPT ![p].todo = @ \ {f},
                        ![p].read = IF db = None THEN <<>> ELSE [g \in {f} |-> source[f]]]
  /\ UNCHANGED <<source, db, raced, acts>>

(* Mutant of StoreFile: the row of the file is committed before its symbols.*)
StoreFileInTwo(p) ==
  /\ Refreshing(p) /\ job[p].read # <<>> /\ db # None
  /\ LET f == CHOOSE g \in DOMAIN job[p].read : TRUE
         t == job[p].read[f]
         fails == Parsed(f, t) /\ (Clash(Extracts[f][t]) \/ source[f] = None)
     IN IF fails THEN /\ db' = Insert(Forget(db, f), {f}, [g \in {f} |-> <<>>], source)
                      /\ job' = [job EXCEPT ![p] = None]
                      /\ UNCHANGED raced
        ELSE /\ db' = IF Parsed(f, t) THEN Refreshed(db, f, Extracts[f][t], ParseImports(f, t))
                      ELSE Forget(db, f)
             /\ raced' = (raced \ {f}) \cup (IF source[f] = t THEN {} ELSE {f})
             /\ job' = [job EXCEPT ![p].read = <<>>]
  /\ UNCHANGED <<source, acts>>

(* One transaction; a file that has gone since it was read has no hash, and*)
(* that, two methods of one name, or a missing table ends the run and      *)
(* changes nothing.                                                        *)
StoreFile(p) ==
  /\ Refreshing(p) /\ job[p].read # <<>>
  /\ LET f == CHOOSE g \in DOMAIN job[p].read : TRUE
         t == job[p].read[f]
         fails == \/ db = None
                  \/ Parsed(f, t) /\ (Clash(Extracts[f][t]) \/ source[f] = None)
     IN IF fails THEN UNCHANGED <<db, raced>> /\ job' = [job EXCEPT ![p] = None]
        ELSE /\ db' = IF Parsed(f, t) THEN Refreshed(db, f, Extracts[f][t], ParseImports(f, t))
                    ELSE Forget(db, f)
             /\ raced' = (raced \ {f}) \cup (IF source[f] = t THEN {} ELSE {f})
             /\ job' = [job EXCEPT ![p].read = <<>>]
  /\ UNCHANGED <<source, acts>>

EndRefresh(p) ==
  /\ Refreshing(p) /\ job[p].read = <<>> /\ job[p].todo = {}
  /\ job' = [job EXCEPT ![p] = None]
  /\ UNCHANGED <<source, db, raced, acts>>

-----------------------------------------------------------------------------
(* People edit, move and delete files, and runs are killed.                *)

Edit(f) ==
  /\ acts < Acts /\ acts' = acts + 1
  /\ \E t \in Texts[f] \cup {None} : t # source[f] /\ source' = [source EXCEPT ![f] = t]
  /\ UNCHANGED <<db, job, raced>>

Kill(p) ==
  /\ job[p] # None /\ acts < Acts /\ acts' = acts + 1
  /\ job' = [job EXCEPT ![p] = None]
  /\ UNCHANGED <<source, db, raced>>

Init ==
  /\ source \in [File -> AllTexts \cup {None}]
  /\ \A f \in File : source[f] \in Texts[f] \cup {None}
  /\ db = None
  /\ job = [p \in Proc |-> None]
  /\ raced = {}
  /\ acts = 0

Next ==
  \/ \E p \in Proc : UpdateProject(p) \/ KillDropping(p) \/ FinishFull(p) \/ Kill(p)
  \/ \E p \in Proc : StoreFile(p) \/ EndRefresh(p)
  \/ \E p \in Proc : \E S \in SUBSET File \ {{}} : UpdateFiles(p, S)
  \/ \E p \in Proc, f \in File : ReadFile(p, f)
  \/ \E f \in File : Edit(f)

Spec == Init /\ [][Next]_vars

-----------------------------------------------------------------------------
(* Queries: lexi trace, and the context of the enrichment prompts.         *)

(* The calls on the ways of up to depth calls from symbol s.               *)
Walk(d, s, depth, near, far) ==
  LET w[k \in 0..depth] ==
        IF k = 0 THEN [at |-> {s}, seen |-> {s}, rows |-> {}]
        ELSE LET rows == {c \in d.calls : c[near] \in w[k - 1].at}
                 ends == {c[far] : c \in rows}
             IN [at |-> ends \ w[k - 1].seen, seen |-> w[k - 1].seen \cup ends,
                 rows |-> w[k - 1].rows \cup rows]
  IN w[depth].rows
WalkCallers(d, s, depth) == Walk(d, s, depth, "callee", "caller")
WalkCallees(d, s, depth) == Walk(d, s, depth, "caller", "callee")

CallContext(d, s, depth) == WalkCallers(d, s, depth) \cup WalkCallees(d, s, depth)

(* The warning that a file has changed since it was stored.                *)
Stale(d, f) ==
  LET rows == {r \in d.files : r.path = f}
  IN rows # {} /\ \A r \in rows : source[f] = None \/ r.hash # source[f]

-----------------------------------------------------------------------------
(* Properties.                                                             *)

(* Whether the symbols stored for file f are the definitions of text t.    *)
Stores(d, f, t) ==
  LET rows == {d.symbols[s] : s \in InFile(d, FileId(d, f))}
  IN {<<r.qual, r.from>> : r \in rows} =
     {<<r.qual, r.from>> : r \in Range(Extracts[f][t].definitions)}

(* The names a call by the name n may mean in text t: its last part, or    *)
(* what one of its parts was imported as.                                  *)
Meanings(t, n) ==
  {Last(n)} \cup {r[2] : r \in UNION {{q \in t[i].refs : q[1] \in ToSet(n)} : i \in Imports(t)}}

(* Every call that lexi trace or a prompt shows was written: some text of  *)
(* the caller's file, the one its symbols are from, has on that line and in*)
(* that definition a call by the name of the callee.                       *)
CallsWereWritten ==
  db # None =>
    \A s \in DOMAIN db.symbols : \A c \in CallContext(db, s, 2) :
      /\ {c.caller, c.callee} \subseteq DOMAIN db.symbols
      /\ LET f == PathOf(db, c.caller) IN
         \E t \in Texts[f] :
           /\ Stores(db, f, t)
           /\ \E x \in Extracts[f][t].calls :
                /\ x.caller = db.symbols[c.caller].qual
                /\ x.line = c.line
                /\ db.symbols[c.callee].name \in Meanings(t, x.name)

(* What lexi trace shows of a file without a warning is what is in the     *)
(* file, unless it was edited between being read and being hashed.         *)
UnwarnedIsCurrent ==
  db # None =>
    \A f \in Present \ raced :
      FileId(db, f) # 0 /\ ~Stale(db, f) => Stores(db, f, source[f])
=============================================================================
