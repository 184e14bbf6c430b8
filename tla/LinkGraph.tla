------------------------------ MODULE LinkGraph ------------------------------
(***************************************************************************)
(* index.db, the link graph, while the project's files change: full_build, *)
(* which clears the tables and reads every artifact file, and              *)
(* incremental_update, which is given some paths and reprocesses those.    *)
(* Each is one SQLite transaction; the files may change while it runs, and *)
(* the names of the concepts are read once, when it starts.                *)
(*                                                                         *)
(* A file is its kind and its name; its content is its references, its     *)
(* artifact code and, of a Stack post, whether its status is stale, which  *)
(* the status column of the tables does not admit.  A title that no        *)
(* concept file bears resolves to a stub, a path that is never a file.     *)
(* Tags, titles and the searchable text go together as "doc".  Aliases,    *)
(* conventions and playbooks are left out.                                 *)
(***************************************************************************)
EXTENDS Naturals, FiniteSets

CONSTANTS
    Source, Concept, Post,   \* names of source files, concepts, Stack posts
    Contents,                \* the contents each file may have
    Absent,                  \* no such file
    Broken,                  \* a file that does not parse
    NoCode, NoDoc,           \* a row without a code, without searchable text
    MaxEdits,                \* bound: changes of files
    MaxPaths                 \* bound: paths one update is given

Mirrored == {"design"} \X Source
Markdown == Mirrored \cup ({"concept"} \X Concept) \cup ({"post"} \X Post)
File == ({"source"} \X Source) \cup Markdown
Stub == {"stub"} \X (Concept \cup Post)
Path == File \cup Stub

Ref == ({"source"} \X Source) \cup ({"name"} \X Concept) \cup ({"post"} \X Post)

ASSUME ContentAssumption ==
    \A f \in File : \A v \in Contents[f] : v.refs \subseteq Ref
ASSUME SentinelAssumption ==
    \A f \in File : {Absent, Broken, NoDoc} \cap Contents[f] = {}
ASSUME BoundAssumption == MaxEdits \in Nat /\ MaxPaths \in Nat

VARIABLES
    disk,       \* the content of each file
    db,         \* index.db as committed
    work,       \* index.db as the running build sees it
    building,   \* "no", "full" or "update"
    todo,       \* paths the build has still to process
    known,      \* the concepts ConceptIndex.load found when it started
    edits,      \* changes of files so far
    \* history, in no guard
    owed,       \* files whose part of the committed index may be out of date
    done,       \* files the running build has brought up to date
    cut,        \* files that lost a link, or everything, to another's turn
    shifted,    \* concepts that came or went since the build started
    disturbed   \* a file changed since the build started

build == <<work, building, todo, known>>
history == <<owed, done, cut, shifted, disturbed>>
vars == <<disk, db, build, edits, history>>

Content == UNION {Contents[f] : f \in File}

Empty == [rows |-> {}, links |-> {}, code |-> [p \in Path |-> NoCode],
          doc |-> [p \in Path |-> NoDoc]]

Index == [rows : SUBSET Path, links : SUBSET (Path \X Path),
          code : [Path -> {v.code : v \in Content} \cup {NoCode}],
          doc : [Path -> Content \cup {NoDoc}]]

TypeOK ==
    /\ disk \in [File -> Content \cup {Absent, Broken}]
    /\ db \in Index /\ work \in Index
    /\ building \in {"no", "full", "update"}
    /\ todo \subseteq File
    /\ known \subseteq Concept
    /\ edits \in 0 .. MaxEdits
    /\ owed \subseteq File /\ done \subseteq File /\ cut \subseteq File
    /\ shifted \subseteq Concept
    /\ disturbed \in BOOLEAN

Init ==
    /\ disk \in {d \in [File -> Content \cup {Absent}] : \A f \in File :
                  d[f] \in IF Contents[f] = {} THEN {Absent} ELSE Contents[f]}
    /\ db = Empty /\ work = Empty
    /\ building = "no" /\ todo = {} /\ known = {}
    /\ edits = 0
    /\ owed = File /\ done = {} /\ cut = {} /\ shifted = {}
    /\ disturbed = FALSE

-----------------------------------------------------------------------------
(* What the builder reads in a file                                        *)

Parsed(f) == disk[f] \notin {Absent, Broken}

Named == {c \in Concept : Parsed(<<"concept", c>>)}

(* Imports, and the file names a concept mentions, count only if there is  *)
(* such a file; those of a Stack post count in any case.                   *)
Admitted(f, r) ==
    f[1] \in {"source", "concept"} /\ r[1] = "source" => disk[r] # Absent

(* Mutant of Resolve: the title itself, where no concept bears it.         *)
ResolveRaw(r, names) ==
    IF r[1] = "name" /\ r[2] \in names THEN <<"concept", r[2]>> ELSE r

(* _resolve_wikilink_target; a design's reference to a Stack post becomes  *)
(* the path <id>.md, but the files are called <id>-<slug>.md.              *)
Resolve(r, names) ==
    CASE r[1] = "source" -> r
      [] r[1] = "name" /\ r[2] \in names -> <<"concept", r[2]>>
      [] OTHER -> <<"stub", r[2]>>

(* A post whose status fails the CHECK of the column: the UPDATE raises    *)
(* before any of its references is looked at.                              *)
Refused(f) == f[1] = "post" /\ Parsed(f) /\ disk[f].stale

Targets(f, names) ==
    IF ~Parsed(f) \/ Refused(f) THEN {}
    ELSE {Resolve(r, names) : r \in {x \in disk[f].refs : Admitted(f, x)}}
         \cup (IF f \in Mirrored THEN {<<"source", f[2]>>} ELSE {})

SourceOf(f) == <<"source", f[2]>>

-----------------------------------------------------------------------------
(* The rows of the index                                                   *)

Out(x, p) == {l \in x.links : l[1] = p}

(* Mutant of Relink: _delete_artifact_outbound is not called first.        *)
RelinkOnTop(x, p, targets) ==
    [x EXCEPT !.rows = @ \cup {p} \cup targets, !.links = @ \cup ({p} \X targets)]

(* Outbound data replaced by what the file says now.                       *)
Relink(x, p, targets) ==
    [x EXCEPT !.rows = @ \cup {p} \cup targets,
              !.links = {l \in @ : l[1] # p} \cup ({p} \X targets)]

Reindex(x, f) ==
    [Relink(x, f, Targets(f, known))
        EXCEPT !.code[f] = disk[f].code, !.doc[f] = disk[f]]

(* _delete_artifact_outbound                                               *)
Strip(x, p) == [x EXCEPT !.links = {l \in @ : l[1] # p}, !.doc[p] = NoDoc]

(* Mutant of Erase: the FTS table is left to the cascade, which does not   *)
(* reach it.                                                               *)
EraseByCascade(x, p) ==
    [x EXCEPT !.rows = @ \ {p}, !.links = {l \in @ : p \notin {l[1], l[2]}},
              !.code[p] = NoCode]

(* _handle_deleted_file: the cascade takes the links in both directions.   *)
Erase(x, p) ==
    [x EXCEPT !.rows = @ \ {p}, !.links = {l \in @ : p \notin {l[1], l[2]}},
              !.code[p] = NoCode, !.doc[p] = NoDoc]

(* _get_or_create_artifact of a Stack post                                 *)
Enter(x, f) ==
    IF f \in x.rows THEN x
    ELSE [x EXCEPT !.rows = @ \cup {f}, !.code[f] = disk[f].code]

(* The code column is UNIQUE.                                              *)
Clash(f) ==
    /\ disk[f].code # NoCode
    /\ \E p \in work.rows \ {f} : work.code[p] = disk[f].code

-----------------------------------------------------------------------------
(* Changes of files                                                        *)

(* The files that name f, and the source a design is of.                   *)
Dependents(f) ==
    {g \in File : Parsed(g) /\ (IF f[1] = "source" THEN f ELSE <<"name", f[2]>>) \in disk[g].refs}
    \cup (IF f \in Mirrored THEN {SourceOf(f)} ELSE {})

Change(f, v) ==
    /\ edits < MaxEdits /\ v # disk[f]
    /\ edits' = edits + 1
    /\ disk' = [disk EXCEPT ![f] = v]
    /\ owed' = owed \cup {f} \cup Dependents(f)
    /\ done' = done \ ({f} \cup Dependents(f))
    /\ shifted' = shifted \cup
          {c \in Concept : building # "no" /\ f = <<"concept", c>>}
    /\ disturbed' = (building # "no")
    /\ UNCHANGED <<db, build, cut>>

-----------------------------------------------------------------------------
(* A build                                                                 *)

Begin(kind, paths, tables) ==
    /\ building = "no"
    /\ building' = kind /\ todo' = paths /\ work' = tables
    /\ known' = Named
    /\ done' = {} /\ cut' = {} /\ shifted' = {} /\ disturbed' = FALSE
    /\ UNCHANGED <<disk, db, edits, owed>>

(* Mutant of FullBuild: _clear_all_data is not called.                     *)
FullBuildOnTop == Begin("full", Markdown, db)

FullBuild == Begin("full", Markdown, Empty)

IncrementalUpdate ==
    \E paths \in SUBSET {f \in File : Contents[f] # {}} :
        Cardinality(paths) \in 1 .. MaxPaths /\ Begin("update", paths, db)

(* A full build takes the designs first, then concepts, then Stack posts;  *)
(* an update the paths as they were passed.                                *)
Family(f) == IF f \in Mirrored THEN 1 ELSE IF f[1] = "concept" THEN 2 ELSE 3

Turn(f) ==
    /\ f \in todo
    /\ building = "full" => \A g \in todo : Family(f) <= Family(g)
    /\ todo' = todo \ {f}
    /\ UNCHANGED <<disk, db, building, known, edits, owed, shifted, disturbed>>

(* The file is what the index now says it is, unless its names were        *)
(* resolved by an outdated list.                                           *)
Settled(files) ==
    /\ done' = done \cup
          {f \in files : Parsed(f) =>
                          \A r \in disk[f].refs : r[1] = "name" => r[2] \notin shifted}
    /\ cut' = cut \ files

(* _process_* and _handle_changed_* of a Markdown file: what it says is    *)
(* put in its place, and with a design the imports of its source.          *)
Fits(f) == Turn(f) /\ Parsed(f) /\ ~Clash(f)

ProcessDesign(f) ==
    /\ Fits(f) /\ f \in Mirrored
    /\ work' = Relink(Reindex(work, f), SourceOf(f), Targets(SourceOf(f), known))
    /\ Settled({f, SourceOf(f)})

ProcessConcept(f) ==
    /\ Fits(f) /\ f[1] = "concept"
    /\ work' = Reindex(work, f)
    /\ Settled({f})

ProcessPost(f) ==
    /\ Fits(f) /\ f[1] = "post" /\ ~Refused(f)
    /\ work' = Reindex(work, f)
    /\ Settled({f})

(* A stale post: an update has deleted its outbound data when the UPDATE   *)
(* raises, and a full build has written nothing but its row; the build     *)
(* goes on with the next file.                                             *)
ProcessRefused(f) ==
    /\ Fits(f) /\ Refused(f)
    /\ work' = Strip(Enter(work, f), f)
    /\ Settled({f})

(* Two artifacts with one code: an insert fails before anything is done    *)
(* (but for the source's row in a full build), an update when the file's   *)
(* outbound data is gone already.                                          *)
ProcessClash(f) ==
    /\ Turn(f) /\ f \in Markdown /\ Parsed(f) /\ Clash(f)
    /\ work' = CASE building = "full" /\ f \in Mirrored ->
                      [work EXCEPT !.rows = @ \cup {SourceOf(f)}]
                 [] building = "update" /\ f \in work.rows -> Strip(work, f)
                 [] OTHER -> work
    /\ cut' = cut \cup {f}
    /\ UNCHANGED done

(* A file that does not parse is skipped; so is one that a full build does *)
(* not find, or no longer.                                                 *)
Skip(f) ==
    /\ Turn(f) /\ f \in Markdown
    /\ disk[f] = Broken \/ (disk[f] = Absent /\ building = "full")
    /\ UNCHANGED <<work, cut>>
    /\ done' = IF building = "update" THEN done
               ELSE done \cup {f} \cup (IF f \in Mirrored THEN {SourceOf(f)} ELSE {})

(* _handle_changed_source.  Where it looks for the design file, directly   *)
(* under .lexibrary, there is none: they lie in .lexibrary/designs.        *)
ProcessSource(f) ==
    /\ Turn(f) /\ f \notin Markdown /\ Parsed(f)
    /\ work' = Relink(work, f, Targets(f, known))
    /\ Settled({f})

ProcessDeleted(f) ==
    /\ Turn(f) /\ disk[f] = Absent /\ building = "update"
    /\ work' = Erase(work, f)
    /\ done' = (done \cup {f}) \ {g \in File : <<g, f>> \in work.links}
    /\ cut' = cut \cup {g \in File \ {f} : <<g, f>> \in work.links}

Finish ==
    /\ building # "no"
    /\ building' = "no" /\ todo' = {} /\ known' = {} /\ work' = Empty
    /\ done' = {} /\ cut' = {} /\ shifted' = {} /\ disturbed' = FALSE
    /\ UNCHANGED <<disk, edits>>

Commit ==
    /\ todo = {} /\ Finish
    /\ db' = work
    /\ owed' = (IF building = "full" THEN File ELSE owed \cup cut) \ done

(* The process dies, or the database is locked: the transaction is undone. *)
Abort == Finish /\ UNCHANGED <<db, owed>>

Handle(f) ==
    \/ ProcessDesign(f) \/ ProcessConcept(f) \/ ProcessPost(f) \/ ProcessRefused(f)
    \/ ProcessClash(f) \/ Skip(f) \/ ProcessSource(f) \/ ProcessDeleted(f)

Next ==
    \/ \E f \in File : \E v \in Contents[f] \cup {Absent} : Change(f, v)
    \/ \E f \in Markdown : disk[f] # Absent /\ Change(f, Broken)
    \/ FullBuild \/ IncrementalUpdate
    \/ \E f \in File : Handle(f)
    \/ Commit \/ Abort

Spec == Init /\ [][Next]_vars
-----------------------------------------------------------------------------
(* Properties                                                              *)

(* What index x says of f is what f says.  (A full build reads a source's  *)
(* imports only when it has read the source's design file.)  Of a stale    *)
(* post it has the bare row and nothing more.                              *)
UpToDate(x, f) ==
    /\ \/ Out(x, f) = {f} \X Targets(f, Named)
       \/ f \notin Markdown /\ ~Parsed(<<"design", f[2]>>) /\ Out(x, f) = {}
    /\ f \in Markdown /\ Parsed(f) => f \in x.rows
    /\ f \in Markdown /\ Parsed(f) /\ ~Refused(f) =>
          x.code[f] = disk[f].code /\ x.doc[f] = disk[f]
    /\ ~Parsed(f) \/ Refused(f) => x.doc[f] = NoDoc

(* The index is wrong about a file only if the file, or the presence of    *)
(* one it names, changed since it was last processed, if it was processed  *)
(* with an outdated list of concepts, or if it lost its place to another   *)
(* file: a target's row was deleted, or its code was already taken.        *)
(* Whatever a post was before it became stale, nothing of it is left.      *)
WrongOnlyIfOwed == \A f \in File \ owed : UpToDate(db, f)

(* Searchable text, codes and links belong to rows that exist: deletions   *)
(* leave nothing a query would join to a missing row, or to a later one.   *)
Sound(x) ==
    /\ \A p \in Path : x.doc[p] # NoDoc \/ x.code[p] # NoCode => p \in x.rows
    /\ x.links \subseteq x.rows \X x.rows
NoDangling == Sound(db)

(* What a full build should leave if it read everything at one moment.     *)
Read == {f \in Markdown : Parsed(f)}
Visited == Read \cup {SourceOf(f) : f \in Read \cap Mirrored}
Ideal ==
    LET links == UNION {{f} \X Targets(f, Named) : f \in Visited}
    IN  [rows |-> Visited \cup {l[2] : l \in links},
         links |-> links,
         code |-> [p \in Path |-> IF p \in Read THEN disk[p].code ELSE NoCode],
         doc |-> [p \in Path |-> IF p \in Read /\ ~Refused(p) THEN disk[p] ELSE NoDoc]]

CodesDistinct ==
    \A f, g \in Read : f # g /\ disk[f].code # NoCode => disk[f].code # disk[g].code

(* A full build nothing interfered with leaves the index that the files    *)
(* determine, whatever was in it: no old row, link or stub survives, and   *)
(* the order the files are read in does not show.  A stale post determines *)
(* its row only.                                                           *)
RebuildExact ==
    [][Commit /\ building = "full" /\ ~disturbed /\ CodesDistinct => db' = Ideal]_vars
=============================================================================
