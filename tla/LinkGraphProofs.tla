-------------------------- MODULE LinkGraphProofs --------------------------
(***************************************************************************)
(* LinkGraph, for every set of files and contents: type correctness; that  *)
(* the index never dangles (each of the four operations on rows keeps an   *)
(* index sound, whatever it is applied to); that it is wrong only about    *)
(* files that are owed a new look; and that an undisturbed full build      *)
(* commits what the files determine.                                       *)
(***************************************************************************)
EXTENDS LinkGraph, TLAPS

(* The paths of the four kinds of files are paths.                         *)
LEMMA SourcePath ==
    ASSUME NEW f \in Mirrored PROVE SourceOf(f) \in File
BY DEF SourceOf, Mirrored, File, Markdown

(* What a parsed file says is one of the contents.                         *)
LEMMA ParsedContent ==
    ASSUME TypeOK, NEW f \in File, Parsed(f)
    PROVE  disk[f] \in Content /\ disk[f].refs \subseteq Ref
<1>1. disk[f] \in Content
    BY DEF TypeOK, Parsed
<1>2. PICK g \in File : disk[f] \in Contents[g]
    BY <1>1 DEF Content
<1> QED
    BY <1>1, <1>2, ContentAssumption

(* References resolve to paths.                                            *)
LEMMA ResolvedPath ==
    ASSUME NEW r \in Ref, NEW names \in SUBSET Concept
    PROVE  Resolve(r, names) \in Path
<1>1. CASE r \in {"source"} \X Source
    BY <1>1 DEF Resolve, Path, File
<1>2. CASE r \in {"name"} \X Concept
    BY <1>2 DEF Resolve, Path, File, Markdown, Stub
<1>3. CASE r \in {"post"} \X Post
    BY <1>3 DEF Resolve, Path, Stub
<1> QED
    BY <1>1, <1>2, <1>3 DEF Ref

LEMMA TargetPaths ==
    ASSUME TypeOK, NEW f \in File, NEW names \in SUBSET Concept
    PROVE  Targets(f, names) \subseteq Path
<1>1. CASE ~Parsed(f) \/ Refused(f)
    BY <1>1 DEF Targets
<1>2. CASE Parsed(f) /\ ~Refused(f)
    <2>1. \A r \in {x \in disk[f].refs : Admitted(f, x)} : Resolve(r, names) \in Path
        BY <1>2, ParsedContent, ResolvedPath
    <2>2. f \in Mirrored => <<"source", f[2]>> \in Path
        BY SourcePath DEF SourceOf, Path
    <2> QED
        BY <1>2, <2>1, <2>2 DEF Targets
<1> QED
    BY <1>1, <1>2

-----------------------------------------------------------------------------
(* The operations on rows                                                  *)

LEMMA EmptySound == Empty \in Index /\ Sound(Empty)
BY DEF Empty, Index, Sound

(* Replacing a row's links keeps the index sound: the row and the targets  *)
(* are there afterwards.                                                   *)
LEMMA RelinkSound ==
    ASSUME NEW x \in Index, Sound(x), NEW p \in Path, NEW T \in SUBSET Path
    PROVE  Relink(x, p, T) \in Index /\ Sound(Relink(x, p, T)) /\ p \in Relink(x, p, T).rows
<1> DEFINE y == Relink(x, p, T)
<1>1. /\ x.rows \cup {p} \cup T \in SUBSET Path
      /\ {l \in x.links : l[1] # p} \cup ({p} \X T) \in SUBSET (Path \X Path)
    BY DEF Index
<1>2. y \in Index
    BY <1>1 DEF Index, Relink
<1>3. /\ y.rows = x.rows \cup {p} \cup T
      /\ y.links = {l \in x.links : l[1] # p} \cup ({p} \X T)
      /\ y.code = x.code /\ y.doc = x.doc
    BY DEF Relink, Index
<1> HIDE DEF y
<1>4. y.links \subseteq y.rows \X y.rows
    BY <1>3 DEF Sound
<1>5. \A q \in Path : y.doc[q] # NoDoc \/ y.code[q] # NoCode => q \in y.rows
    BY <1>3 DEF Sound
<1> QED
    BY <1>2, <1>3, <1>4, <1>5 DEF Sound, y

(* So does what a Markdown file's turn puts there.                         *)
LEMMA ReindexSound ==
    ASSUME TypeOK, NEW x \in Index, Sound(x), NEW f \in File, Parsed(f)
    PROVE  Reindex(x, f) \in Index /\ Sound(Reindex(x, f))
<1> DEFINE y == Relink(x, f, Targets(f, known))
           z == [y EXCEPT !.code[f] = disk[f].code, !.doc[f] = disk[f]]
<1>1. y \in Index /\ Sound(y) /\ f \in y.rows
    BY TargetPaths, RelinkSound DEF TypeOK, Path
<1>2. z = Reindex(x, f)
    BY DEF Reindex
<1>3. f \in Path /\ disk[f] \in Content
    BY ParsedContent DEF Path
<1> HIDE DEF y
<1>4. /\ [y.code EXCEPT ![f] = disk[f].code] \in [Path -> {v.code : v \in Content} \cup {NoCode}]
      /\ [y.doc EXCEPT ![f] = disk[f]] \in [Path -> Content \cup {NoDoc}]
    BY <1>1, <1>3 DEF Index
<1>5. z \in Index
    BY <1>1, <1>4 DEF Index
<1>6. /\ z.rows = y.rows /\ z.links = y.links
      /\ z.code = [y.code EXCEPT ![f] = disk[f].code]
      /\ z.doc = [y.doc EXCEPT ![f] = disk[f]]
    BY <1>1 DEF Index
<1> HIDE DEF z
<1>7. \A q \in Path : z.doc[q] # NoDoc \/ z.code[q] # NoCode => q \in z.rows
    BY <1>1, <1>3, <1>6 DEF Index, Sound
<1> QED
    BY <1>1, <1>2, <1>5, <1>6, <1>7 DEF Sound

(* And taking a row's links and text away, the row staying or not.         *)
LEMMA StripSound ==
    ASSUME NEW x \in Index, Sound(x), NEW p \in Path
    PROVE  Strip(x, p) \in Index /\ Sound(Strip(x, p))
<1> DEFINE y == Strip(x, p)
<1>1. /\ {l \in x.links : l[1] # p} \in SUBSET (Path \X Path)
      /\ [x.doc EXCEPT ![p] = NoDoc] \in [Path -> Content \cup {NoDoc}]
    BY DEF Index
<1>2. y \in Index
    BY <1>1 DEF Index, Strip
<1>3. /\ y.rows = x.rows /\ y.code = x.code
      /\ y.links = {l \in x.links : l[1] # p}
      /\ y.doc = [x.doc EXCEPT ![p] = NoDoc]
    BY DEF Strip, Index
<1> HIDE DEF y
<1>4. \A q \in Path : y.doc[q] # NoDoc \/ y.code[q] # NoCode => q \in y.rows
    BY <1>3 DEF Index, Sound
<1> QED
    BY <1>2, <1>3, <1>4 DEF Sound, y

(* A post that enters the tables changes nothing of the other rows.        *)
LEMMA EnterSound ==
    ASSUME TypeOK, NEW x \in Index, Sound(x), NEW f \in File, Parsed(f)
    PROVE  /\ Enter(x, f) \in Index /\ Sound(Enter(x, f))
           /\ Enter(x, f).rows = x.rows \cup {f}
           /\ Enter(x, f).links = x.links /\ Enter(x, f).doc = x.doc
           /\ \A q \in Path \ {f} : Enter(x, f).code[q] = x.code[q]
           /\ f \notin x.rows => Enter(x, f).code[f] = disk[f].code
<1>1. CASE f \in x.rows
    BY <1>1 DEF Enter, Index
<1>2. CASE f \notin x.rows
    <2> DEFINE y == [x EXCEPT !.rows = @ \cup {f}, !.code[f] = disk[f].code]
    <2>1. f \in Path /\ disk[f] \in Content
        BY ParsedContent DEF Path
    <2>2. /\ x.rows \cup {f} \in SUBSET Path
          /\ [x.code EXCEPT ![f] = disk[f].code] \in [Path -> {v.code : v \in Content} \cup {NoCode}]
        BY <2>1 DEF Index
    <2>3. y = [x EXCEPT !.rows = x.rows \cup {f}, !.code = [x.code EXCEPT ![f] = disk[f].code]]
        BY DEF Index
    <2>4. y \in Index
        BY <2>2, <2>3 DEF Index
    <2>5. /\ y.rows = x.rows \cup {f} /\ y.links = x.links /\ y.doc = x.doc
          /\ y.code = [x.code EXCEPT ![f] = disk[f].code]
        BY <2>3 DEF Index
    <2>6. Enter(x, f) = y
        BY <1>2 DEF Enter
    <2> HIDE DEF y
    <2>7. \A q \in Path \ {f} : y.code[q] = x.code[q]
        BY <2>5 DEF Index
    <2>8. y.code[f] = disk[f].code
        BY <2>1, <2>5 DEF Index
    <2>9. Sound(y)
        BY <2>5, <2>7 DEF Sound
    <2> QED
        BY <2>4, <2>5, <2>6, <2>7, <2>8, <2>9
<1> QED
    BY <1>1, <1>2

LEMMA EraseSound ==
    ASSUME NEW x \in Index, Sound(x), NEW p \in Path
    PROVE  Erase(x, p) \in Index /\ Sound(Erase(x, p))
<1> DEFINE y == Erase(x, p)
<1>1. /\ x.rows \ {p} \in SUBSET Path
      /\ {l \in x.links : p \notin {l[1], l[2]}} \in SUBSET (Path \X Path)
      /\ [x.code EXCEPT ![p] = NoCode] \in [Path -> {v.code : v \in Content} \cup {NoCode}]
      /\ [x.doc EXCEPT ![p] = NoDoc] \in [Path -> Content \cup {NoDoc}]
    BY DEF Index
<1>2. y \in Index
    BY <1>1 DEF Index, Erase
<1>3. /\ y.rows = x.rows \ {p}
      /\ y.links = {l \in x.links : p \notin {l[1], l[2]}}
      /\ y.code = [x.code EXCEPT ![p] = NoCode]
      /\ y.doc = [x.doc EXCEPT ![p] = NoDoc]
    BY DEF Erase, Index
<1> HIDE DEF y
<1>4. \A q \in Path : y.doc[q] # NoDoc \/ y.code[q] # NoCode => q \in y.rows
    BY <1>3 DEF Index, Sound
<1>5. y.links \subseteq y.rows \X y.rows
    BY <1>3 DEF Sound
<1> QED
    BY <1>2, <1>4, <1>5 DEF Sound, y

-----------------------------------------------------------------------------
(* The inductive invariant                                                 *)

IInv == TypeOK /\ Sound(db) /\ Sound(work)

LEMMA InitIInv == Init => IInv
<1> SUFFICES ASSUME Init PROVE IInv
    OBVIOUS
<1>1. disk \in [File -> Content \cup {Absent, Broken}]
    BY DEF Init
<1>2. db \in Index /\ work \in Index /\ Sound(db) /\ Sound(work)
    BY EmptySound DEF Init
<1>3. edits \in 0 .. MaxEdits
    BY BoundAssumption DEF Init
<1> QED
    BY <1>1, <1>2, <1>3 DEF Init, IInv, TypeOK

(* A change of a file leaves the index alone.                              *)
LEMMA ChangeKeeps ==
    ASSUME IInv, NEW f \in File, NEW v \in Content \cup {Absent, Broken}, Change(f, v)
    PROVE  IInv'
<1> USE DEF IInv, TypeOK
<1>1. disk' \in [File -> Content \cup {Absent, Broken}]
    BY DEF Change
<1>2. /\ edits' \in 0 .. MaxEdits
    BY BoundAssumption DEF Change
<1>3. /\ db' = db /\ work' = work /\ building' = building
      /\ todo' = todo /\ known' = known /\ cut' = cut
    BY DEF Change, build
<1>4. SourceOf(f) \in File \/ f \notin Mirrored
    BY SourcePath
<1>5. owed' \subseteq File /\ done' \subseteq File
    BY <1>4 DEF Change, Dependents
<1>6. shifted' \subseteq Concept /\ disturbed' \in BOOLEAN
    BY DEF Change
<1>7. Sound(db)' /\ Sound(work)'
    BY <1>3 DEF Sound
<1> QED
    BY <1>1, <1>2, <1>3, <1>5, <1>6, <1>7

(* The beginning and the end of a build.                                   *)
LEMMA BeginKeeps ==
    ASSUME IInv, NEW kind \in {"full", "update"}, NEW paths \in SUBSET File,
           NEW tables \in {Empty, db}, Begin(kind, paths, tables)
    PROVE  IInv'
<1> USE DEF IInv, TypeOK
<1>1. work' \in Index /\ Sound(work')
    BY EmptySound DEF Begin
<1>2. Sound(db)' /\ Sound(work)'
    BY <1>1 DEF Begin, Sound
<1>3. known' \subseteq Concept
    BY DEF Begin, Named
<1> QED
    BY <1>1, <1>2, <1>3 DEF Begin

LEMMA FinishKeeps ==
    ASSUME IInv, Finish, db' \in {db, work}, owed' \subseteq File
    PROVE  IInv'
<1> USE DEF IInv, TypeOK
<1>1. work' \in Index /\ Sound(work')
    BY EmptySound DEF Finish
<1>2. Sound(db)' /\ Sound(work)'
    BY <1>1 DEF Finish, Sound
<1> QED
    BY <1>1, <1>2 DEF Finish

(* One file's turn, whatever it does to the tables.                        *)
LEMMA TurnKeeps ==
    ASSUME IInv, NEW f \in File, Turn(f), work' \in Index, Sound(work'),
           done' \subseteq File, cut' \subseteq File
    PROVE  IInv'
<1> USE DEF IInv, TypeOK
<1>1. Sound(db)' /\ Sound(work)'
    BY DEF Turn, Sound
<1> QED
    BY <1>1 DEF Turn

LEMMA HandleKeeps ==
    ASSUME IInv, NEW f \in File, Handle(f)
    PROVE  IInv'
<1> USE DEF IInv
<1>0. f \in Path /\ (f \in Mirrored => SourceOf(f) \in File)
    BY SourcePath DEF Path
<1>1. ASSUME Fits(f)
      PROVE  Turn(f) /\ Reindex(work, f) \in Index /\ Sound(Reindex(work, f))
    BY <1>1, ReindexSound DEF Fits, TypeOK
<1>6. CASE ProcessDesign(f)
    <2>1. Fits(f) /\ f \in Mirrored
        BY <1>6 DEF ProcessDesign
    <2>2. work' = Relink(Reindex(work, f), SourceOf(f), Targets(SourceOf(f), known))
        BY <1>6 DEF ProcessDesign
    <2>3. Targets(SourceOf(f), known) \in SUBSET Path /\ SourceOf(f) \in Path
        BY <1>0, <2>1, TargetPaths DEF TypeOK, Path
    <2>4. work' \in Index /\ Sound(work')
        BY <1>1, <2>1, <2>2, <2>3, RelinkSound
    <2>5. done' \subseteq File /\ cut' \subseteq File
        BY <1>0, <1>6, <2>1 DEF ProcessDesign, Settled, TypeOK
    <2> QED
        BY <1>1, <2>1, <2>4, <2>5, TurnKeeps
<1>7. CASE ProcessConcept(f) \/ ProcessPost(f)
    <2>1. Fits(f) /\ work' = Reindex(work, f) /\ Settled({f})
        BY <1>7 DEF ProcessConcept, ProcessPost
    <2>2. done' \subseteq File /\ cut' \subseteq File
        BY <2>1 DEF Settled, TypeOK
    <2> QED
        BY <1>1, <2>1, <2>2, TurnKeeps
<1>8. CASE ProcessRefused(f)
    <2>1. Turn(f) /\ Parsed(f) /\ work' = Strip(Enter(work, f), f)
        BY <1>8 DEF ProcessRefused, Fits
    <2>2. Enter(work, f) \in Index /\ Sound(Enter(work, f))
        BY <2>1, EnterSound DEF TypeOK
    <2>3. work' \in Index /\ Sound(work')
        BY <1>0, <2>1, <2>2, StripSound
    <2>4. done' \subseteq File /\ cut' \subseteq File
        BY <1>8 DEF ProcessRefused, Settled, TypeOK
    <2> QED
        BY <2>1, <2>3, <2>4, TurnKeeps
<1>2. CASE ProcessClash(f)
    <2>1. Turn(f) /\ done' \subseteq File /\ cut' \subseteq File
        BY <1>2 DEF ProcessClash, TypeOK
    <2>2. CASE building = "full" /\ f \in Mirrored
        <3> DEFINE y == [work EXCEPT !.rows = @ \cup {SourceOf(f)}]
        <3>1. work' = y
            BY <1>2, <2>2 DEF ProcessClash
        <3>2. work.rows \cup {SourceOf(f)} \in SUBSET Path
            BY <1>0, <2>2 DEF TypeOK, Index, Path
        <3>3. y \in Index
            BY <3>2 DEF TypeOK, Index
        <3>4. /\ y.rows = work.rows \cup {SourceOf(f)}
              /\ y.links = work.links /\ y.code = work.code /\ y.doc = work.doc
            BY DEF TypeOK, Index
        <3> HIDE DEF y
        <3>5. Sound(y)
            BY <3>4 DEF Sound
        <3> QED
            BY <2>1, <3>1, <3>3, <3>5, TurnKeeps
    <2>3. CASE building = "update" /\ f \in work.rows
        <3>1. work' = Strip(work, f)
            BY <1>2, <2>3 DEF ProcessClash
        <3>2. work' \in Index /\ Sound(work')
            BY <1>0, <3>1, StripSound DEF TypeOK
        <3> QED
            BY <2>1, <3>2, TurnKeeps
    <2>4. CASE ~(building = "full" /\ f \in Mirrored) /\ ~(building = "update" /\ f \in work.rows)
        <3>1. work' = work
            BY <1>2, <2>4 DEF ProcessClash
        <3> QED
            BY <2>1, <3>1, TurnKeeps DEF TypeOK
    <2> QED
        BY <2>2, <2>3, <2>4
<1>3. CASE Skip(f)
    <2>1. Turn(f) /\ work' = work /\ cut' = cut
        BY <1>3 DEF Skip
    <2>2. done' \subseteq File
        BY <1>0, <1>3 DEF Skip, TypeOK
    <2> QED
        BY <2>1, <2>2, TurnKeeps DEF TypeOK
<1>4. CASE ProcessSource(f)
    <2>1. Turn(f) /\ work' = Relink(work, f, Targets(f, known))
        BY <1>4 DEF ProcessSource
    <2>2. Targets(f, known) \in SUBSET Path
        BY TargetPaths DEF TypeOK
    <2>3. work' \in Index /\ Sound(work')
        BY <1>0, <2>1, <2>2, RelinkSound DEF TypeOK
    <2>4. done' \subseteq File /\ cut' \subseteq File
        BY <1>4 DEF ProcessSource, Settled, TypeOK
    <2> QED
        BY <2>1, <2>3, <2>4, TurnKeeps
<1>5. CASE ProcessDeleted(f)
    <2>1. Turn(f) /\ work' = Erase(work, f)
        BY <1>5 DEF ProcessDeleted
    <2>2. work' \in Index /\ Sound(work')
        BY <1>0, <2>1, EraseSound DEF TypeOK
    <2>3. done' \subseteq File /\ cut' \subseteq File
        BY <1>5 DEF ProcessDeleted, TypeOK
    <2> QED
        BY <2>1, <2>2, <2>3, TurnKeeps
<1> QED
    BY <1>2, <1>3, <1>4, <1>5, <1>6, <1>7, <1>8 DEF Handle

LEMMA NextIInv == IInv /\ [Next]_vars => IInv'
<1> SUFFICES ASSUME IInv, [Next]_vars PROVE IInv'
    OBVIOUS
<1>1. ASSUME NEW f \in File, NEW v \in Contents[f] \cup {Absent}, Change(f, v) PROVE IInv'
    BY <1>1, ChangeKeeps DEF Content
<1>2. ASSUME NEW f \in Markdown, Change(f, Broken) PROVE IInv'
    BY <1>2, ChangeKeeps DEF File
<1>3. CASE FullBuild
    BY <1>3, BeginKeeps DEF FullBuild, File
<1>4. CASE IncrementalUpdate
    <2>1. PICK paths \in SUBSET File : Begin("update", paths, db)
        BY <1>4 DEF IncrementalUpdate
    <2> QED
        BY <2>1, BeginKeeps
<1>5. ASSUME NEW f \in File, Handle(f) PROVE IInv'
    BY <1>5, HandleKeeps
<1>6. CASE Commit
    <2>1. Finish /\ db' = work /\ owed' \subseteq File
        BY <1>6 DEF Commit, IInv, TypeOK
    <2> QED
        BY <2>1, FinishKeeps
<1>7. CASE Abort
    <2>1. Finish /\ db' = db /\ owed' \subseteq File
        BY <1>7 DEF Abort, IInv, TypeOK
    <2> QED
        BY <2>1, FinishKeeps
<1>8. CASE UNCHANGED vars
    BY <1>8 DEF vars, build, history, IInv, TypeOK, Sound
<1> QED
    BY <1>1, <1>2, <1>3, <1>4, <1>5, <1>6, <1>7, <1>8 DEF Next

(* Every variable keeps its type, and no build leaves a link whose ends,   *)
(* or a text or a code whose row, is gone: for all files and contents, and *)
(* wherever files change while a build runs.                               *)
THEOREM TypeCorrect == Spec => []TypeOK
<1>1. IInv => TypeOK
    BY DEF IInv
<1> QED
    BY <1>1, InitIInv, NextIInv, PTL DEF Spec

(* index.db as committed never dangles.                                    *)
THEOREM NeverDangling == Spec => []NoDangling
<1>1. IInv => NoDangling
    BY DEF IInv, NoDangling
<1> QED
    BY <1>1, InitIInv, NextIInv, PTL DEF Spec
-----------------------------------------------------------------------------
(* What is owed                                                            *)

(* No reference of f is to a concept that came or went during the build.   *)
Unshifted(f) == Parsed(f) => \A r \in disk[f].refs : r[1] = "name" => r[2] \notin shifted

(* The index the running build would commit, and the lists it goes by.     *)
Certain ==
    /\ \A f \in done : UpToDate(work, f) /\ (building # "full" => Unshifted(f))
    /\ building = "update" => \A f \in File \ (owed \cup cut \cup done) : UpToDate(work, f)
    /\ building # "no" => \A c \in Concept \ shifted : c \in known <=> c \in Named
    /\ \A f \in File \ owed : Unshifted(f)

(* What a full build has not come to yet has left nothing in the tables.   *)
Untouched(f) ==
    /\ Out(work, f) = {} /\ work.doc[f] = NoDoc
    /\ f \in Mirrored => SourceOf(f) \notin done /\ Out(work, SourceOf(f)) = {}

Blank ==
    /\ building = "no" => todo = {}
    /\ building = "full" => todo \subseteq Markdown /\ \A f \in todo : Untouched(f)
    /\ done \cap todo \cap Markdown = {}
    /\ \A p \in Path \ Markdown : work.doc[p] = NoDoc /\ db.doc[p] = NoDoc

Ledger == WrongOnlyIfOwed /\ Certain /\ Blank

(* A file of which neither the tables nor what it is compared with moved.  *)
LEMMA SameRows ==
    ASSUME NEW f \in File, NEW x, NEW y, UpToDate(x, f),
           Out(y, f) = Out(x, f), f \in x.rows => f \in y.rows,
           y.code[f] = x.code[f], y.doc[f] = x.doc[f]
    PROVE  UpToDate(y, f)
BY DEF UpToDate

(* Comparing is a matter of the files alone.                               *)
LEMMA SameDisk ==
    ASSUME disk' = disk, NEW f
    PROVE  /\ Parsed(f)' <=> Parsed(f)
           /\ Refused(f)' <=> Refused(f)
           /\ Named' = Named
           /\ Targets(f, Named)' = Targets(f, Named)
           /\ Unshifted(f) /\ shifted' = shifted => Unshifted(f)'
<1>1. Named' = Named /\ (Parsed(f)' <=> Parsed(f)) /\ (Refused(f)' <=> Refused(f))
    BY DEF Named, Parsed, Refused
<1>2. Targets(f, Named)' = Targets(f, Named)
    BY <1>1 DEF Targets, Parsed, Admitted, Resolve, Named
<1> QED
    BY <1>1, <1>2 DEF Unshifted

LEMMA StillUpToDate ==
    ASSUME disk' = disk, NEW f \in File
    PROVE  /\ UpToDate(work', f) => UpToDate(work, f)'
           /\ UpToDate(db', f) => UpToDate(db, f)'
<1>1. /\ Targets(f, Named)' = Targets(f, Named) /\ (Parsed(f)' <=> Parsed(f))
      /\ Refused(f)' <=> Refused(f)
      /\ Parsed(<<"design", f[2]>>)' <=> Parsed(<<"design", f[2]>>)
    BY SameDisk
<1> QED
    BY <1>1 DEF UpToDate, Out

(* A file that does not name the changed one is where it was.              *)
LEMMA Unaffected ==
    ASSUME TypeOK, NEW f \in File, NEW v, Change(f, v),
           NEW g \in File \ ({f} \cup Dependents(f))
    PROVE  /\ disk'[g] = disk[g]
           /\ Parsed(g)' <=> Parsed(g)
           /\ Refused(g)' <=> Refused(g)
           /\ Targets(g, Named)' = Targets(g, Named)
           /\ g \notin Markdown =>
                 (Parsed(<<"design", g[2]>>)' <=> Parsed(<<"design", g[2]>>))
           /\ Unshifted(g) => Unshifted(g)'
<1>1. /\ disk' = [disk EXCEPT ![f] = v]
      /\ shifted' = shifted \cup {c \in Concept : building # "no" /\ f = <<"concept", c>>}
    BY DEF Change
<1>2. disk'[g] = disk[g] /\ \A h \in File \ {f} : disk'[h] = disk[h]
    BY <1>1 DEF TypeOK
<1>3. (Parsed(g)' <=> Parsed(g)) /\ (Refused(g)' <=> Refused(g))
    BY <1>2 DEF Parsed, Refused
<1>4. ASSUME Parsed(g), NEW r \in disk[g].refs
      PROVE  /\ Admitted(g, r)' <=> Admitted(g, r)
             /\ Resolve(r, Named)' = Resolve(r, Named)
             /\ r[1] = "name" => f # <<"concept", r[2]>>
    <2>1. r \in Ref
        BY <1>4, ParsedContent
    <2>2. (IF f[1] = "source" THEN f ELSE <<"name", f[2]>>) # r
        BY <1>4 DEF Dependents
    <2>3. CASE r \in {"source"} \X Source
        <3>1. r \in File \ {f} /\ r[1] = "source"
            BY <2>2, <2>3 DEF File
        <3> QED
            BY <1>2, <3>1 DEF Admitted, Resolve
    <2>4. CASE r \in {"name"} \X Concept
        <3>1. r[1] = "name" /\ r[2] \in Concept /\ f # <<"concept", r[2]>>
            BY <2>2, <2>4
        <3>2. <<"concept", r[2]>> \in File \ {f}
            BY <3>1 DEF File, Markdown
        <3>3. r[2] \in Named' <=> r[2] \in Named
            BY <1>2, <3>1, <3>2 DEF Named, Parsed
        <3> QED
            BY <3>1, <3>3 DEF Admitted, Resolve
    <2>5. CASE r \in {"post"} \X Post
        BY <2>5 DEF Admitted, Resolve
    <2> QED
        BY <2>1, <2>3, <2>4, <2>5 DEF Ref
<1>5. Targets(g, Named)' = Targets(g, Named)
    <2>1. CASE ~Parsed(g) \/ Refused(g)
        BY <1>3, <2>1 DEF Targets
    <2>2. CASE Parsed(g) /\ ~Refused(g)
        <3>1. {Resolve(r, Named) : r \in {x \in disk[g].refs : Admitted(g, x)}}' =
              {Resolve(r, Named) : r \in {x \in disk[g].refs : Admitted(g, x)}}
            BY <1>2, <1>4, <2>2
        <3> QED
            BY <1>3, <2>2, <3>1 DEF Targets
    <2> QED
        BY <2>1, <2>2
<1>6. ASSUME g \notin Markdown
      PROVE  Parsed(<<"design", g[2]>>)' <=> Parsed(<<"design", g[2]>>)
    <2>1. g[2] \in Source /\ g = <<"source", g[2]>>
        BY <1>6 DEF File
    <2>2. <<"design", g[2]>> \in File \ {f}
        BY <2>1 DEF Dependents, SourceOf, File, Markdown, Mirrored
    <2> QED
        BY <1>2, <2>2 DEF Parsed
<1>7. Unshifted(g) => Unshifted(g)'
    BY <1>1, <1>2, <1>3, <1>4 DEF Unshifted
<1> QED
    BY <1>2, <1>3, <1>5, <1>6, <1>7

(* What one file's part of the tables is made of.                          *)
Same(x, y, g) ==
    /\ Out(y, g) = Out(x, g)
    /\ g \in x.rows => g \in y.rows
    /\ y.code[g] = x.code[g] /\ y.doc[g] = x.doc[g]

LEMMA RelinkOut ==
    ASSUME NEW x \in Index, NEW p \in Path, NEW T \in SUBSET Path
    PROVE  LET y == Relink(x, p, T) IN
           /\ Out(y, p) = {p} \X T
           /\ \A q \in Path \ {p} : Out(y, q) = Out(x, q)
           /\ x.rows \cup {p} \subseteq y.rows /\ y.code = x.code /\ y.doc = x.doc
<1> DEFINE y == Relink(x, p, T)
<1>1. /\ y.rows = x.rows \cup {p} \cup T
      /\ y.links = {l \in x.links : l[1] # p} \cup ({p} \X T)
      /\ y.code = x.code /\ y.doc = x.doc
    BY DEF Relink, Index
<1>2. Out(y, p) = {p} \X T
    BY <1>1 DEF Out
<1>3. \A q \in Path \ {p} : Out(y, q) = Out(x, q)
    BY <1>1 DEF Out
<1> QED
    BY <1>1, <1>2, <1>3

LEMMA ReindexOut ==
    ASSUME TypeOK, NEW f \in File, Parsed(f)
    PROVE  LET z == Reindex(work, f) IN
           /\ z \in Index
           /\ Out(z, f) = {f} \X Targets(f, known)
           /\ f \in z.rows /\ z.code[f] = disk[f].code /\ z.doc[f] = disk[f]
           /\ \A q \in Path \ {f} : Same(work, z, q)
           /\ z.rows = Relink(work, f, Targets(f, known)).rows
           /\ z.links = Relink(work, f, Targets(f, known)).links
<1> DEFINE y == Relink(work, f, Targets(f, known))
           z == [y EXCEPT !.code[f] = disk[f].code, !.doc[f] = disk[f]]
<1>1. f \in Path /\ Targets(f, known) \in SUBSET Path
    BY TargetPaths DEF TypeOK, Path
<1>2. /\ y.rows = work.rows \cup {f} \cup Targets(f, known)
      /\ y.links = {l \in work.links : l[1] # f} \cup ({f} \X Targets(f, known))
      /\ y.code = work.code /\ y.doc = work.doc
    BY DEF Relink, TypeOK, Index
<1>3. /\ Out(y, f) = {f} \X Targets(f, known)
      /\ \A q \in Path \ {f} : Out(y, q) = Out(work, q)
    BY <1>1, RelinkOut DEF TypeOK
<1>4. y \in [rows : SUBSET Path, links : SUBSET (Path \X Path),
             code : [Path -> {v.code : v \in Content} \cup {NoCode}],
             doc : [Path -> Content \cup {NoDoc}]]
    <2>1. /\ work.rows \cup {f} \cup Targets(f, known) \in SUBSET Path
          /\ {l \in work.links : l[1] # f} \cup ({f} \X Targets(f, known)) \in SUBSET (Path \X Path)
        BY <1>1 DEF TypeOK, Index
    <2> QED
        BY <2>1 DEF Relink, TypeOK, Index
<1> HIDE DEF y
<1>5. /\ z.rows = y.rows /\ z.links = y.links
      /\ z.code = [y.code EXCEPT ![f] = disk[f].code]
      /\ z.doc = [y.doc EXCEPT ![f] = disk[f]]
    BY <1>4
<1>6. disk[f].code \in {v.code : v \in Content} /\ disk[f] \in Content
    BY ParsedContent
<1>7. z \in Index
    <2>1. /\ [y.code EXCEPT ![f] = disk[f].code] \in [Path -> {v.code : v \in Content} \cup {NoCode}]
          /\ [y.doc EXCEPT ![f] = disk[f]] \in [Path -> Content \cup {NoDoc}]
        BY <1>4, <1>6
    <2>2. z = [y EXCEPT !.code = [y.code EXCEPT ![f] = disk[f].code],
                        !.doc = [y.doc EXCEPT ![f] = disk[f]]]
        BY <1>4
    <2> QED
        BY <1>4, <2>1, <2>2 DEF Index
<1>8. Reindex(work, f) = z
    BY DEF Reindex, y
<1> HIDE DEF z
<1>9. \A q \in Path : Out(z, q) = Out(y, q)
    BY <1>5 DEF Out
<1>10. /\ f \in z.rows /\ z.code[f] = disk[f].code /\ z.doc[f] = disk[f]
    BY <1>1, <1>2, <1>4, <1>5
<1>11. \A q \in Path \ {f} : Same(work, z, q)
    BY <1>2, <1>3, <1>4, <1>5, <1>9 DEF Same
<1>12. /\ z.rows = Relink(work, f, Targets(f, known)).rows
       /\ z.links = Relink(work, f, Targets(f, known)).links
    BY <1>5 DEF y
<1> QED
    BY <1>1, <1>3, <1>7, <1>8, <1>9, <1>10, <1>11, <1>12

(* The list read when the build began serves for every unshifted file.     *)
LEMMA KnownTargets ==
    ASSUME TypeOK, Certain, building # "no", NEW f \in File, Unshifted(f)
    PROVE  Targets(f, known) = Targets(f, Named)
<1>1. CASE ~Parsed(f) \/ Refused(f)
    BY <1>1 DEF Targets
<1>2. CASE Parsed(f) /\ ~Refused(f)
    <2>1. ASSUME NEW r \in disk[f].refs
          PROVE  Resolve(r, known) = Resolve(r, Named)
        <3>1. r \in Ref
            BY <1>2, ParsedContent
        <3>2. CASE r \in {"name"} \X Concept
            <4>1. r[1] = "name" /\ r[2] \in Concept \ shifted
                BY <1>2, <3>2 DEF Unshifted
            <4>2. r[2] \in known <=> r[2] \in Named
                BY <4>1 DEF Certain
            <4> QED
                BY <4>1, <4>2 DEF Resolve
        <3>3. CASE r \in {"source"} \X Source
            BY <3>3 DEF Resolve
        <3>4. CASE r \in {"post"} \X Post
            BY <3>4 DEF Resolve
        <3> QED
            BY <3>1, <3>2, <3>3, <3>4 DEF Ref
    <2> QED
        BY <2>1 DEF Targets
<1> QED
    BY <1>1, <1>2

(* A file that has just been processed is up to date unless its references *)
(* shifted; those that did are owed already.                               *)
LEMMA SettledCertain ==
    ASSUME Certain, NEW files \in SUBSET File, Settled(files),
           building = "full" => files \cap done = {},
           \A g \in files : Unshifted(g) => UpToDate(work', g),
           \A g \in File \ files : Same(work, work', g)
    PROVE  /\ \A g \in File \cap done' :
                 UpToDate(work', g) /\ (building # "full" => Unshifted(g))
           /\ building = "update" =>
                 \A g \in File \ (owed \cup cut' \cup done') : UpToDate(work', g)
<1>1. \A g : g \in done' <=> g \in done \/ (g \in files /\ Unshifted(g))
    BY DEF Settled, Unshifted
<1>2. \A g : g \in cut' <=> g \in cut /\ g \notin files
    BY DEF Settled
<1>3. \A g \in File \ files : UpToDate(work, g) => UpToDate(work', g)
    BY SameRows DEF Same
<1>4. \A g \in File \cap done' :
                 UpToDate(work', g) /\ (building # "full" => Unshifted(g))
    BY <1>1, <1>3 DEF Certain
<1>5. ASSUME building = "update", NEW g \in File \ (owed \cup cut' \cup done')
      PROVE  UpToDate(work', g)
    <2>1. g \notin files
        BY <1>1, <1>5 DEF Certain
    <2> QED
        BY <1>1, <1>2, <1>3, <1>5, <2>1 DEF Certain
<1> QED
    BY <1>4, <1>5

(* One file's turn, by what it does to the tables.                         *)
LEMMA TurnLedger ==
    ASSUME IInv, IInv', Ledger, NEW f \in File, Turn(f),
           \A g \in File \cap done' :
                 UpToDate(work', g) /\ (building # "full" => Unshifted(g)),
           building = "update" =>
               \A g \in File \ (owed \cup cut' \cup done') : UpToDate(work', g),
           building = "full" => \A g \in todo' : Untouched(g)',
           done' \cap todo' \cap Markdown = {},
           \A p \in Path \ Markdown : work'.doc[p] = NoDoc
    PROVE  Ledger'
<1>1. /\ todo' = todo \ {f} /\ disk' = disk /\ db' = db /\ building' = building
      /\ known' = known /\ owed' = owed /\ shifted' = shifted
    BY DEF Turn
<1>2. WrongOnlyIfOwed'
    BY <1>1, StillUpToDate DEF Ledger, WrongOnlyIfOwed
<1>3. \A g \in File : Unshifted(g) => Unshifted(g)'
    BY <1>1, SameDisk
<1>4. Named' = Named
    BY <1>1, SameDisk
<1>5. Certain'
    <2>1. \A g \in done' : UpToDate(work, g)' /\ (building' # "full" => Unshifted(g)')
        BY <1>1, <1>3, StillUpToDate DEF IInv, TypeOK
    <2>2. building' = "update" =>
              \A g \in File \ (owed' \cup cut' \cup done') : UpToDate(work, g)'
        BY <1>1, StillUpToDate
    <2>3. building' # "no" => \A c \in Concept \ shifted' : c \in known' <=> c \in Named'
        BY <1>1, <1>4 DEF Ledger, Certain
    <2>4. \A g \in File \ owed' : Unshifted(g)'
        BY <1>1, <1>3 DEF Ledger, Certain
    <2> QED
        BY <2>1, <2>2, <2>3, <2>4 DEF Certain
<1>6. Blank'
    BY <1>1 DEF Ledger, Blank
<1> QED
    BY <1>2, <1>5, <1>6 DEF Ledger

LEMMA DesignLedger ==
    ASSUME IInv, IInv', Ledger, NEW f \in File, ProcessDesign(f)
    PROVE  Ledger'
<1> DEFINE s == SourceOf(f)
           z == Reindex(work, f)
<1>1. /\ Turn(f) /\ Parsed(f) /\ f \in Mirrored /\ f \in Markdown /\ ~Refused(f)
      /\ work' = Relink(z, s, Targets(s, known)) /\ Settled({f, s})
    BY DEF ProcessDesign, Fits, Markdown, Mirrored, Refused
<1>2. s \in File /\ s \notin Markdown /\ s # f /\ s \in Path /\ f \in Path /\ ~Refused(s)
    BY <1>1, SourcePath DEF SourceOf, Markdown, Mirrored, Path, Refused
<1>3. /\ z \in Index /\ Out(z, f) = {f} \X Targets(f, known)
      /\ f \in z.rows /\ z.code[f] = disk[f].code /\ z.doc[f] = disk[f]
      /\ \A q \in Path \ {f} : Same(work, z, q)
    BY <1>1, ReindexOut DEF IInv
<1>4. Targets(s, known) \in SUBSET Path
    BY <1>2, TargetPaths DEF IInv, TypeOK
<1> HIDE DEF z, s
<1>5. /\ Out(work', s) = {s} \X Targets(s, known)
      /\ \A q \in Path \ {s} : Out(work', q) = Out(z, q)
      /\ z.rows \subseteq work'.rows /\ work'.code = z.code /\ work'.doc = z.doc
    BY <1>1, <1>2, <1>3, <1>4, RelinkOut
<1>6. \A q \in Path \ {f, s} : Same(work, work', q)
    BY <1>3, <1>5 DEF Same
<1>7. building # "no"
    BY <1>1 DEF Turn, Ledger, Blank
<1>8. work'.doc[s] = NoDoc
    BY <1>2, <1>3, <1>5 DEF Same, Ledger, Blank
<1>9. ASSUME Unshifted(f) PROVE UpToDate(work', f)
    <2>1. Targets(f, known) = Targets(f, Named)
        BY <1>7, <1>9, KnownTargets DEF IInv, Ledger
    <2> QED
        BY <1>1, <1>2, <1>3, <1>5, <2>1 DEF UpToDate
<1>10. ASSUME Unshifted(s) PROVE UpToDate(work', s)
    <2>1. Targets(s, known) = Targets(s, Named)
        BY <1>2, <1>7, <1>10, KnownTargets DEF IInv, Ledger
    <2> QED
        BY <1>2, <1>5, <1>8, <2>1 DEF UpToDate
<1>15. building = "full" => {f, s} \cap done = {}
    BY <1>1 DEF Turn, Ledger, Blank, Untouched, s
<1>11. /\ \A g \in File \cap done' :
                 UpToDate(work', g) /\ (building # "full" => Unshifted(g))
       /\ building = "update" =>
             \A g \in File \ (owed \cup cut' \cup done') : UpToDate(work', g)
    <2>1. {f, s} \in SUBSET File /\ \A g \in File \ {f, s} : Same(work, work', g)
        BY <1>2, <1>6 DEF Path
    <2> QED
        BY <1>1, <1>9, <1>10, <1>15, <2>1, SettledCertain DEF Ledger
<1>12. building = "full" => \A g \in todo' : Untouched(g)'
    <2>1. SUFFICES ASSUME building = "full", NEW g \in todo' PROVE Untouched(g)'
        OBVIOUS
    <2>2. g \in todo /\ g # f /\ g \in Markdown /\ Untouched(g)
        BY <1>1, <2>1 DEF Turn, Ledger, Blank
    <2>3. g \in Path /\ Same(work, work', g)
        BY <1>2, <1>6, <2>2 DEF Path, File
    <2>4. ASSUME g \in Mirrored
          PROVE  Same(work, work', SourceOf(g)) /\ (SourceOf(g) \notin done => SourceOf(g) \notin done')
        <3>1. SourceOf(g) \in Path \ {f, s}
            BY <1>1, <2>2, <2>4 DEF s, SourceOf, Mirrored, Path, File, Markdown
        <3> QED
            BY <1>1, <1>6, <3>1 DEF Settled
    <2> QED
        BY <2>2, <2>3, <2>4 DEF Untouched, Same, Out
<1>13. done' \cap todo' \cap Markdown = {}
    BY <1>1, <1>2 DEF Turn, Settled, Ledger, Blank
<1>14. \A p \in Path \ Markdown : work'.doc[p] = NoDoc
    BY <1>1, <1>3, <1>5 DEF Same, Ledger, Blank
<1> QED
    BY <1>1, <1>11, <1>12, <1>13, <1>14, TurnLedger

LEMMA ArtifactLedger ==
    ASSUME IInv, IInv', Ledger, NEW f \in File, ProcessConcept(f) \/ ProcessPost(f)
    PROVE  Ledger'
<1>1. Turn(f) /\ Parsed(f) /\ f \in {"concept", "post"} \X (Concept \cup Post) /\ ~Refused(f)
    BY DEF ProcessConcept, ProcessPost, Fits, File, Markdown, Mirrored, Refused
<1>2. work' = Reindex(work, f) /\ Settled({f})
    BY DEF ProcessConcept, ProcessPost
<1>3. f \in Path /\ f \in Markdown /\ f \notin Mirrored
    BY <1>1 DEF Path, File, Markdown, Mirrored
<1>4. /\ Out(work', f) = {f} \X Targets(f, known)
      /\ f \in work'.rows /\ work'.code[f] = disk[f].code /\ work'.doc[f] = disk[f]
      /\ \A q \in Path \ {f} : Same(work, work', q)
    BY <1>1, <1>2, ReindexOut DEF IInv
<1>5. building # "no"
    BY <1>1 DEF Turn, Ledger, Blank
<1>6. ASSUME Unshifted(f) PROVE UpToDate(work', f)
    <2>1. Targets(f, known) = Targets(f, Named)
        BY <1>5, <1>6, KnownTargets DEF IInv, Ledger
    <2> QED
        BY <1>1, <1>3, <1>4, <2>1 DEF UpToDate
<1>7. /\ \A g \in File \cap done' :
                 UpToDate(work', g) /\ (building # "full" => Unshifted(g))
      /\ building = "update" =>
             \A g \in File \ (owed \cup cut' \cup done') : UpToDate(work', g)
    <2>1. \A g \in File \ {f} : Same(work, work', g)
        BY <1>4 DEF Path
    <2>2. building = "full" => {f} \cap done = {}
        BY <1>1, <1>3 DEF Turn, Ledger, Blank
    <2> QED
        BY <1>2, <1>6, <2>1, <2>2, SettledCertain DEF Ledger
<1>8. building = "full" => \A g \in todo' : Untouched(g)'
    <2>1. SUFFICES ASSUME building = "full", NEW g \in todo' PROVE Untouched(g)'
        OBVIOUS
    <2>2. g \in todo /\ g # f /\ g \in Markdown /\ Untouched(g)
        BY <1>1, <2>1 DEF Turn, Ledger, Blank
    <2>3. Same(work, work', g)
        BY <1>4, <2>2 DEF Path, File
    <2>4. ASSUME g \in Mirrored
          PROVE  Same(work, work', SourceOf(g)) /\ (SourceOf(g) \notin done => SourceOf(g) \notin done')
        <3>1. SourceOf(g) \in Path \ {f}
            BY <1>3, <2>4 DEF SourceOf, Mirrored, Path, File, Markdown
        <3> QED
            BY <1>2, <1>4, <3>1 DEF Settled
    <2> QED
        BY <2>2, <2>3, <2>4 DEF Untouched, Same, Out
<1>9. done' \cap todo' \cap Markdown = {}
    BY <1>1, <1>2 DEF Turn, Settled, Ledger, Blank
<1>10. \A p \in Path \ Markdown : work'.doc[p] = NoDoc
    BY <1>3, <1>4 DEF Same, Ledger, Blank
<1> QED
    BY <1>1, <1>7, <1>8, <1>9, <1>10, TurnLedger

(* A stale post: what the tables had of it is gone, its row is there.      *)
LEMMA RefusedLedger ==
    ASSUME IInv, IInv', Ledger, NEW f \in File, ProcessRefused(f)
    PROVE  Ledger'
<1> DEFINE e == Enter(work, f)
<1>1. /\ Turn(f) /\ Parsed(f) /\ Refused(f) /\ f \in {"post"} \X Post
      /\ work' = Strip(e, f) /\ Settled({f})
    BY DEF ProcessRefused, Fits, File, Markdown, Mirrored, Refused
<1>2. f \in Path /\ f \in Markdown /\ f \notin Mirrored
    BY <1>1 DEF Path, File, Markdown, Mirrored
<1>3. /\ e \in Index /\ e.rows = work.rows \cup {f} /\ e.links = work.links
      /\ e.doc = work.doc /\ \A q \in Path \ {f} : e.code[q] = work.code[q]
    BY <1>1, EnterSound DEF IInv, TypeOK
<1> HIDE DEF e
<1>4. /\ work'.rows = work.rows \cup {f} /\ work'.code = e.code
      /\ work'.links = {l \in work.links : l[1] # f}
      /\ work'.doc = [work.doc EXCEPT ![f] = NoDoc]
    BY <1>1, <1>3 DEF Strip, Index
<1>5. \A q \in Path \ {f} : Same(work, work', q)
    <2>1. \A q \in Path \ {f} : Out(work', q) = Out(work, q)
        BY <1>4 DEF Out
    <2>2. \A q \in Path \ {f} : work'.doc[q] = work.doc[q]
        BY <1>4 DEF IInv, TypeOK, Index
    <2> QED
        BY <1>3, <1>4, <2>1, <2>2 DEF Same
<1>6. UpToDate(work', f)
    <2>1. Out(work', f) = {} /\ work'.doc[f] = NoDoc /\ f \in work'.rows
        BY <1>2, <1>4 DEF Out, IInv, TypeOK, Index
    <2>2. Targets(f, Named) = {}
        BY <1>1 DEF Targets
    <2> QED
        BY <1>1, <2>1, <2>2 DEF UpToDate
<1>7. /\ \A g \in File \cap done' :
                 UpToDate(work', g) /\ (building # "full" => Unshifted(g))
      /\ building = "update" =>
             \A g \in File \ (owed \cup cut' \cup done') : UpToDate(work', g)
    <2>1. \A g \in File \ {f} : Same(work, work', g)
        BY <1>5 DEF Path
    <2>2. building = "full" => {f} \cap done = {}
        BY <1>1, <1>2 DEF Turn, Ledger, Blank
    <2> QED
        BY <1>1, <1>6, <2>1, <2>2, SettledCertain DEF Ledger
<1>8. building = "full" => \A g \in todo' : Untouched(g)'
    <2>1. SUFFICES ASSUME building = "full", NEW g \in todo' PROVE Untouched(g)'
        OBVIOUS
    <2>2. g \in todo /\ g # f /\ g \in Markdown /\ Untouched(g)
        BY <1>1, <2>1 DEF Turn, Ledger, Blank
    <2>3. Same(work, work', g)
        BY <1>5, <2>2 DEF Path, File
    <2>4. ASSUME g \in Mirrored
          PROVE  Same(work, work', SourceOf(g)) /\ (SourceOf(g) \notin done => SourceOf(g) \notin done')
        <3>1. SourceOf(g) \in Path \ {f}
            BY <1>2, <2>4 DEF SourceOf, Mirrored, Path, File, Markdown
        <3> QED
            BY <1>1, <1>5, <3>1 DEF Settled
    <2> QED
        BY <2>2, <2>3, <2>4 DEF Untouched, Same, Out
<1>9. done' \cap todo' \cap Markdown = {}
    BY <1>1 DEF Turn, Settled, Ledger, Blank
<1>10. \A p \in Path \ Markdown : work'.doc[p] = NoDoc
    BY <1>2, <1>5 DEF Same, Ledger, Blank
<1> QED
    BY <1>1, <1>7, <1>8, <1>9, <1>10, TurnLedger

LEMMA SourceLedger ==
    ASSUME IInv, IInv', Ledger, NEW f \in File, ProcessSource(f)
    PROVE  Ledger'
<1>1. /\ Turn(f) /\ f \notin Markdown /\ Settled({f})
      /\ work' = Relink(work, f, Targets(f, known))
    BY DEF ProcessSource
<1>2. f \in Path /\ Targets(f, known) \in SUBSET Path
    BY TargetPaths DEF IInv, TypeOK, Path
<1>3. /\ Out(work', f) = {f} \X Targets(f, known)
      /\ \A q \in Path \ {f} : Out(work', q) = Out(work, q)
      /\ work.rows \subseteq work'.rows
      /\ work'.code = work.code /\ work'.doc = work.doc
    BY <1>1, <1>2, RelinkOut DEF IInv, TypeOK
<1>4. building # "no" /\ building # "full"
    BY <1>1 DEF Turn, Ledger, Blank
<1>5. ASSUME Unshifted(f) PROVE UpToDate(work', f)
    <2>1. Targets(f, known) = Targets(f, Named)
        BY <1>4, <1>5, KnownTargets DEF IInv, Ledger
    <2>2. work'.doc[f] = NoDoc
        BY <1>1, <1>2, <1>3 DEF Ledger, Blank
    <2> QED
        BY <1>1, <1>3, <2>1, <2>2 DEF UpToDate
<1>6. /\ \A g \in File \cap done' :
                 UpToDate(work', g) /\ (building # "full" => Unshifted(g))
      /\ building = "update" =>
             \A g \in File \ (owed \cup cut' \cup done') : UpToDate(work', g)
    <2>1. \A g \in File \ {f} : Same(work, work', g)
        BY <1>3 DEF Path, Same
    <2> QED
        BY <1>1, <1>4, <1>5, <2>1, SettledCertain DEF Ledger
<1>7. done' \cap todo' \cap Markdown = {}
    BY <1>1 DEF Turn, Settled, Ledger, Blank
<1>8. \A p \in Path \ Markdown : work'.doc[p] = NoDoc
    BY <1>3 DEF Ledger, Blank
<1> QED
    BY <1>1, <1>4, <1>6, <1>7, <1>8, TurnLedger

(* A file that loses its turn: it is cut, and the tables keep everything   *)
(* of the others.                                                          *)
LEMMA ClashLedger ==
    ASSUME IInv, IInv', Ledger, NEW f \in File, ProcessClash(f)
    PROVE  Ledger'
<1>1. /\ Turn(f) /\ f \in Markdown /\ f \in todo /\ done' = done /\ cut' = cut \cup {f}
      /\ todo' = todo \ {f}
    BY DEF ProcessClash, Turn
<1>2. f \notin done
    BY <1>1 DEF Ledger, Blank
<1>3. /\ \A g \in Path \ {f} : Same(work, work', g)
      /\ building = "full" => Same(work, work', f)
    <2>1. CASE building = "full" /\ f \in Mirrored
        <3>1. work' = [work EXCEPT !.rows = @ \cup {SourceOf(f)}]
            BY <2>1 DEF ProcessClash
        <3>2. /\ work.rows \subseteq work'.rows
              /\ work'.links = work.links /\ work'.code = work.code /\ work'.doc = work.doc
            BY <3>1 DEF IInv, TypeOK, Index
        <3> QED
            BY <3>2 DEF Same, Out
    <2>2. CASE building = "update" /\ f \in work.rows
        <3>1. work' = Strip(work, f)
            BY <2>2 DEF ProcessClash
        <3>2. /\ work'.rows = work.rows /\ work'.code = work.code
              /\ work'.links = {l \in work.links : l[1] # f}
              /\ work'.doc = [work.doc EXCEPT ![f] = NoDoc]
            BY <3>1 DEF IInv, TypeOK, Index, Strip
        <3>3. \A g \in Path \ {f} : Out(work', g) = Out(work, g)
            BY <3>2 DEF Out
        <3>4. \A g \in Path \ {f} : work'.doc[g] = work.doc[g]
            BY <3>2 DEF IInv, TypeOK, Index
        <3> QED
            BY <2>2, <3>2, <3>3, <3>4 DEF Same
    <2>3. CASE ~(building = "full" /\ f \in Mirrored) /\ ~(building = "update" /\ f \in work.rows)
        <3>1. work' = work
            BY <2>3 DEF ProcessClash
        <3> QED
            BY <3>1 DEF Same
    <2> QED
        BY <2>1, <2>2, <2>3
<1>4. \A g \in File \ {f} : UpToDate(work, g) => UpToDate(work', g)
    BY <1>3, SameRows DEF Same, Path
<1>5. \A g \in File \cap done' :
                 UpToDate(work', g) /\ (building # "full" => Unshifted(g))
    BY <1>1, <1>2, <1>4 DEF Ledger, Certain
<1>6. building = "update" =>
          \A g \in File \ (owed \cup cut' \cup done') : UpToDate(work', g)
    BY <1>1, <1>4 DEF Ledger, Certain
<1>7. building = "full" => \A g \in todo' : Untouched(g)'
    <2>1. SUFFICES ASSUME building = "full", NEW g \in todo' PROVE Untouched(g)'
        OBVIOUS
    <2>2. g \in todo /\ g \in Markdown /\ Untouched(g)
        BY <1>1, <2>1 DEF Ledger, Blank
    <2>3. Same(work, work', g)
        BY <1>3, <2>1, <2>2 DEF Path, File
    <2>4. ASSUME g \in Mirrored PROVE Same(work, work', SourceOf(g))
        <3>1. SourceOf(g) \in Path
            BY <2>4, SourcePath DEF Path
        <3> QED
            BY <1>3, <2>1, <3>1
    <2> QED
        BY <1>1, <2>2, <2>3, <2>4 DEF Untouched, Same, Out
<1>8. done' \cap todo' \cap Markdown = {}
    BY <1>1 DEF Ledger, Blank
<1>9. \A p \in Path \ Markdown : work'.doc[p] = NoDoc
    BY <1>1, <1>3 DEF Same, Ledger, Blank
<1> QED
    BY <1>1, <1>5, <1>6, <1>7, <1>8, <1>9, TurnLedger

LEMMA SkipLedger ==
    ASSUME IInv, IInv', Ledger, NEW f \in File, Skip(f)
    PROVE  Ledger'
<1>1. /\ Turn(f) /\ f \in Markdown /\ f \in todo /\ ~Parsed(f) /\ todo' = todo \ {f}
      /\ work' = work /\ cut' = cut
    BY DEF Skip, Turn, Parsed
<1>2. building # "no"
    BY <1>1 DEF Ledger, Blank
<1>3. building \in {"full", "update"}
    BY <1>2 DEF IInv, TypeOK
<1>4. CASE building = "update"
    <2>1. done' = done
        BY <1>4 DEF Skip
    <2>2. \A g \in File \cap done' :
                 UpToDate(work', g) /\ (building # "full" => Unshifted(g))
        BY <1>1, <2>1 DEF Ledger, Certain
    <2>3. \A g \in File \ (owed \cup cut' \cup done') : UpToDate(work', g)
        BY <1>1, <1>4, <2>1 DEF Ledger, Certain
    <2>4. done' \cap todo' \cap Markdown = {}
        BY <1>1, <2>1 DEF Ledger, Blank
    <2>5. \A p \in Path \ Markdown : work'.doc[p] = NoDoc
        BY <1>1 DEF Ledger, Blank
    <2> QED
        BY <1>1, <1>4, <2>2, <2>3, <2>4, <2>5, TurnLedger
<1>5. CASE building = "full"
    <2> DEFINE s == SourceOf(f)
    <2>1. done' = done \cup {f} \cup (IF f \in Mirrored THEN {s} ELSE {})
        BY <1>5 DEF Skip
    <2>2. Untouched(f)
        BY <1>1, <1>5 DEF Ledger, Blank
    <2>3. Unshifted(f) /\ UpToDate(work', f)
        BY <1>1, <2>2 DEF Unshifted, UpToDate, Untouched, Targets, Mirrored
    <2>4. ASSUME f \in Mirrored PROVE s \notin Markdown /\ UpToDate(work', s)
        <3>1. s \in File /\ s \notin Markdown /\ f = <<"design", s[2]>>
            BY <2>4, SourcePath DEF SourceOf, Markdown, Mirrored
        <3>2. Out(work', s) = {} /\ work'.doc[s] = NoDoc
            BY <1>1, <2>2, <2>4, <3>1 DEF Untouched, Ledger, Blank, Path
        <3> QED
            BY <1>1, <3>1, <3>2 DEF UpToDate
    <2>5. \A g \in File \cap done' :
              UpToDate(work', g) /\ (building # "full" => Unshifted(g))
        BY <1>1, <1>5, <2>1, <2>3, <2>4 DEF Ledger, Certain
    <2>6. \A g \in todo' : Untouched(g)'
        <3>1. SUFFICES ASSUME NEW g \in todo' PROVE Untouched(g)'
            OBVIOUS
        <3>2. g \in todo /\ g # f /\ g \in Markdown /\ Untouched(g)
            BY <1>1, <1>5 DEF Ledger, Blank
        <3>3. ASSUME g \in Mirrored
              PROVE  SourceOf(g) # f /\ (f \in Mirrored => SourceOf(g) # s)
            BY <1>1, <3>2, <3>3 DEF SourceOf, Mirrored, Markdown
        <3> QED
            BY <1>1, <2>1, <3>2, <3>3 DEF Untouched, Out
    <2>7. done' \cap todo' \cap Markdown = {}
        BY <1>1, <2>1, <2>4 DEF Ledger, Blank
    <2>8. \A p \in Path \ Markdown : work'.doc[p] = NoDoc
        BY <1>1 DEF Ledger, Blank
    <2> QED
        BY <1>1, <1>5, <2>5, <2>6, <2>7, <2>8, TurnLedger
<1> QED
    BY <1>3, <1>4, <1>5

LEMMA DeletedLedger ==
    ASSUME IInv, IInv', Ledger, NEW f \in File, ProcessDeleted(f)
    PROVE  Ledger'
<1>1. /\ Turn(f) /\ building = "update" /\ disk[f] = Absent /\ work' = Erase(work, f)
      /\ done' = (done \cup {f}) \ {g \in File : <<g, f>> \in work.links}
      /\ cut' = cut \cup {g \in File \ {f} : <<g, f>> \in work.links}
    BY DEF ProcessDeleted
<1>2. ~Parsed(f) /\ f \in Path
    BY <1>1 DEF Parsed, Path
<1>3. /\ work'.rows = work.rows \ {f}
      /\ work'.links = {l \in work.links : f \notin {l[1], l[2]}}
      /\ work'.code = [work.code EXCEPT ![f] = NoCode]
      /\ work'.doc = [work.doc EXCEPT ![f] = NoDoc]
    BY <1>1 DEF IInv, TypeOK, Index, Erase
<1>4. ASSUME NEW g \in Path \ {f}, <<g, f>> \notin work.links
      PROVE  Same(work, work', g)
    <2>1. \A l \in work.links : l = <<l[1], l[2]>>
        BY DEF IInv, TypeOK, Index
    <2>2. \A l \in Out(work, g) : f \notin {l[1], l[2]}
        BY <1>4, <2>1 DEF Out
    <2>3. Out(work', g) = Out(work, g)
        BY <1>3, <2>2 DEF Out
    <2>4. work'.code[g] = work.code[g] /\ work'.doc[g] = work.doc[g]
        BY <1>3, <1>4 DEF IInv, TypeOK, Index
    <2> QED
        BY <1>3, <1>4, <2>3, <2>4 DEF Same
<1>5. work'.doc[f] = NoDoc /\ Out(work', f) = {}
    BY <1>2, <1>3 DEF IInv, TypeOK, Index, Out
<1>6. Unshifted(f) /\ UpToDate(work', f)
    <2>1. Targets(f, Named) = {}
        BY <1>2 DEF Targets
    <2> QED
        BY <1>2, <1>5, <2>1 DEF Unshifted, UpToDate
<1>7. \A g \in File \ {f} :
          <<g, f>> \notin work.links /\ UpToDate(work, g) => UpToDate(work', g)
    BY <1>4, SameRows DEF Same, Path
<1>8. \A g \in File \cap done' : UpToDate(work', g) /\ (building # "full" => Unshifted(g))
    BY <1>1, <1>6, <1>7 DEF Ledger, Certain
<1>9. \A g \in File \ (owed \cup cut' \cup done') : UpToDate(work', g)
    BY <1>1, <1>6, <1>7 DEF Ledger, Certain
<1>10. done' \cap todo' \cap Markdown = {}
    BY <1>1 DEF Turn, Ledger, Blank
<1>11. \A p \in Path \ Markdown : work'.doc[p] = NoDoc
    BY <1>3 DEF IInv, TypeOK, Index, Ledger, Blank
<1> QED
    BY <1>1, <1>8, <1>9, <1>10, <1>11, TurnLedger

LEMMA HandleLedger ==
    ASSUME IInv, IInv', Ledger, NEW f \in File, Handle(f)
    PROVE  Ledger'
BY DesignLedger, ArtifactLedger, RefusedLedger, SourceLedger, ClashLedger, SkipLedger, DeletedLedger
   DEF Handle

-----------------------------------------------------------------------------

LEMMA ChangeLedger ==
    ASSUME IInv, Ledger, NEW f \in File, NEW v, Change(f, v)
    PROVE  Ledger'
<1>1. /\ db' = db /\ work' = work /\ building' = building /\ todo' = todo
      /\ known' = known /\ cut' = cut
      /\ owed' = owed \cup {f} \cup Dependents(f)
      /\ done' = done \ ({f} \cup Dependents(f))
      /\ shifted' = shifted \cup {c \in Concept : building # "no" /\ f = <<"concept", c>>}
      /\ disk' = [disk EXCEPT ![f] = v]
    BY DEF Change, build
<1>2. ASSUME NEW g \in File \ ({f} \cup Dependents(f))
      PROVE  /\ UpToDate(work, g) => UpToDate(work, g)'
             /\ UpToDate(db, g) => UpToDate(db, g)'
             /\ Unshifted(g) => Unshifted(g)'
    <2>1. /\ disk'[g] = disk[g] /\ (Parsed(g)' <=> Parsed(g)) /\ (Refused(g)' <=> Refused(g))
          /\ Targets(g, Named)' = Targets(g, Named)
          /\ g \notin Markdown => (Parsed(<<"design", g[2]>>)' <=> Parsed(<<"design", g[2]>>))
          /\ Unshifted(g) => Unshifted(g)'
        BY Unaffected DEF IInv
    <2> QED
        BY <1>1, <2>1 DEF UpToDate, Out
<1>3. WrongOnlyIfOwed'
    BY <1>1, <1>2 DEF Ledger, WrongOnlyIfOwed
<1>4. \A c \in Concept \ shifted' : building # "no" => (c \in Named' <=> c \in Named)
    <2>1. SUFFICES ASSUME NEW c \in Concept \ shifted', building # "no"
                   PROVE  c \in Named' <=> c \in Named
        OBVIOUS
    <2>2. <<"concept", c>> \in File \ {f}
        BY <1>1, <2>1 DEF File, Markdown
    <2>3. disk'[<<"concept", c>>] = disk[<<"concept", c>>]
        BY <1>1, <2>2 DEF IInv, TypeOK
    <2> QED
        BY <2>3 DEF Named, Parsed
<1>5. Certain'
    <2>1. \A g \in done' : UpToDate(work, g)' /\ (building' # "full" => Unshifted(g)')
        BY <1>1, <1>2 DEF IInv, TypeOK, Ledger, Certain
    <2>2. building' = "update" =>
              \A g \in File \ (owed' \cup cut' \cup done') : UpToDate(work, g)'
        BY <1>1, <1>2 DEF Ledger, Certain
    <2>3. building' # "no" => \A c \in Concept \ shifted' : c \in known' <=> c \in Named'
        BY <1>1, <1>4 DEF Ledger, Certain
    <2>4. \A g \in File \ owed' : Unshifted(g)'
        BY <1>1, <1>2 DEF Ledger, Certain
    <2> QED
        BY <2>1, <2>2, <2>3, <2>4 DEF Certain
<1>6. Blank'
    BY <1>1 DEF Ledger, Blank, Untouched, Out
<1> QED
    BY <1>3, <1>5, <1>6 DEF Ledger

LEMMA BeginLedger ==
    ASSUME IInv, Ledger, NEW kind, NEW paths, NEW tables, Begin(kind, paths, tables),
           \/ kind = "full" /\ paths = Markdown /\ tables = Empty
           \/ kind = "update" /\ paths \subseteq File /\ tables = db
    PROVE  Ledger'
<1>1. /\ disk' = disk /\ db' = db /\ owed' = owed /\ building' = kind
      /\ todo' = paths /\ work' = tables /\ known' = Named
      /\ done' = {} /\ cut' = {} /\ shifted' = {}
    BY DEF Begin
<1>2. WrongOnlyIfOwed'
    BY <1>1, StillUpToDate DEF Ledger, WrongOnlyIfOwed
<1>3. Certain'
    <2>1. kind = "update" => \A g \in File \ owed : UpToDate(work, g)'
        BY <1>1, StillUpToDate DEF Ledger, WrongOnlyIfOwed
    <2>2. Named' = Named
        BY <1>1, SameDisk
    <2>3. \A g : Unshifted(g)'
        BY <1>1 DEF Unshifted
    <2> QED
        BY <1>1, <2>1, <2>2, <2>3 DEF Certain
<1>4. Blank'
    <2>1. CASE kind = "full"
        <3>1. work' = Empty /\ todo' = Markdown
            BY <1>1, <2>1
        <3>2. \A p \in Path : Empty.doc[p] = NoDoc /\ Out(Empty, p) = {}
            BY DEF Empty, Out
        <3>3. \A g \in Markdown : g \in Path
            BY DEF Path, File
        <3>4. \A g \in Markdown : Untouched(g)'
            BY <1>1, <3>1, <3>2, <3>3, SourcePath DEF Untouched, Out, Empty
        <3> QED
            BY <1>1, <2>1, <3>1, <3>2, <3>4 DEF Blank, Ledger
    <2>2. CASE kind = "update"
        BY <1>1, <2>2 DEF Blank, Ledger
    <2> QED
        BY <2>1, <2>2
<1> QED
    BY <1>2, <1>3, <1>4 DEF Ledger

(* A build that ends, well or not.                                         *)
LEMMA FinishLedger ==
    ASSUME IInv, Ledger, Finish,
           \A g \in File \ owed' : UpToDate(db', g),
           \A p \in Path \ Markdown : db'.doc[p] = NoDoc
    PROVE  Ledger'
<1>1. /\ disk' = disk /\ building' = "no" /\ todo' = {} /\ work' = Empty
      /\ done' = {} /\ cut' = {} /\ shifted' = {}
    BY DEF Finish
<1>2. WrongOnlyIfOwed'
    BY <1>1, StillUpToDate DEF WrongOnlyIfOwed
<1>3. Certain'
    BY <1>1 DEF Certain, Unshifted
<1>4. Blank'
    BY <1>1 DEF Blank, Empty
<1> QED
    BY <1>2, <1>3, <1>4 DEF Ledger

LEMMA InitLedger == Init => Ledger
BY DEF Init, Ledger, WrongOnlyIfOwed, Certain, Blank, Empty

LEMMA NextLedger == IInv /\ IInv' /\ Ledger /\ [Next]_vars => Ledger'
<1> SUFFICES ASSUME IInv, IInv', Ledger, [Next]_vars PROVE Ledger'
    OBVIOUS
<1>1. ASSUME NEW f \in File, NEW v \in Contents[f] \cup {Absent}, Change(f, v) PROVE Ledger'
    BY <1>1, ChangeLedger
<1>2. ASSUME NEW f \in Markdown, Change(f, Broken) PROVE Ledger'
    BY <1>2, ChangeLedger DEF File
<1>3. CASE FullBuild
    BY <1>3, BeginLedger DEF FullBuild
<1>4. CASE IncrementalUpdate
    <2>1. PICK paths \in SUBSET File : Begin("update", paths, db)
        BY <1>4 DEF IncrementalUpdate
    <2> QED
        BY <2>1, BeginLedger
<1>5. ASSUME NEW f \in File, Handle(f) PROVE Ledger'
    BY <1>5, HandleLedger
<1>6. CASE Commit
    <2>1. /\ Finish /\ db' = work
          /\ owed' = (IF building = "full" THEN File ELSE owed \cup cut) \ done
          /\ building \in {"full", "update"}
        BY <1>6 DEF Commit, Finish, IInv, TypeOK
    <2>2. \A g \in File \ owed' : UpToDate(work, g)
        BY <2>1 DEF Ledger, Certain
    <2>3. \A g \in File \ owed' : UpToDate(db', g)
        BY <2>1, <2>2
    <2>4. \A p \in Path \ Markdown : db'.doc[p] = NoDoc
        BY <2>1 DEF Ledger, Blank
    <2> QED
        BY <2>1, <2>3, <2>4, FinishLedger
<1>7. CASE Abort
    <2>1. Finish /\ db' = db /\ owed' = owed
        BY <1>7 DEF Abort
    <2>2. \A g \in File \ owed' : UpToDate(db', g)
        BY <2>1 DEF Ledger, WrongOnlyIfOwed
    <2>3. \A p \in Path \ Markdown : db'.doc[p] = NoDoc
        BY <2>1 DEF Ledger, Blank
    <2> QED
        BY <2>1, <2>2, <2>3, FinishLedger
<1>8. CASE UNCHANGED vars
    <2>1. /\ disk' = disk /\ db' = db /\ work' = work /\ building' = building
          /\ todo' = todo /\ known' = known /\ owed' = owed /\ done' = done
          /\ cut' = cut /\ shifted' = shifted
        BY <1>8 DEF vars, build, history
    <2>2. /\ Named' = Named
          /\ \A g \in File : (Unshifted(g) => Unshifted(g)')
        BY <2>1, SameDisk
    <2>3. WrongOnlyIfOwed' /\ Certain'
        BY <2>1, <2>2, StillUpToDate DEF IInv, TypeOK, Ledger, WrongOnlyIfOwed, Certain
    <2>4. Blank'
        BY <2>1 DEF Ledger, Blank, Untouched, Out
    <2> QED
        BY <2>3, <2>4 DEF Ledger
<1> QED
    BY <1>1, <1>2, <1>3, <1>4, <1>5, <1>6, <1>7, <1>8 DEF Next

(* The index is wrong about a file only if it is owed a new look: for all  *)
(* files and contents, with files changing in the middle of a build.       *)
THEOREM OnlyOwedIsWrong == Spec => []WrongOnlyIfOwed
<1>1. Init => IInv /\ Ledger
    BY InitIInv, InitLedger
<1>2. (IInv /\ Ledger) /\ [Next]_vars => (IInv /\ Ledger)'
    BY NextIInv, NextLedger
<1>3. IInv /\ Ledger => WrongOnlyIfOwed
    BY DEF Ledger
<1> QED
    BY <1>1, <1>2, <1>3, PTL DEF Spec

-----------------------------------------------------------------------------
(* A full build that nothing interferes with                               *)

(* The Markdown files read when those of rest are still to come, the files *)
(* whose references are in the tables then, and the tables themselves.     *)
ReadBut(rest) == {f \in Markdown \ rest : Parsed(f)}
VisitedBut(rest) ==
    ReadBut(rest) \cup {SourceOf(f) : f \in ReadBut(rest) \cap Mirrored}

IdealBut(x, rest) ==
    /\ \A q \in Path : q \in x.rows <=>
          q \in VisitedBut(rest) \/ \E g \in VisitedBut(rest) : q \in Targets(g, Named)
    /\ \A q, r \in Path : <<q, r>> \in x.links <=>
          q \in VisitedBut(rest) /\ r \in Targets(q, Named)
    /\ \A q \in Path : x.code[q] = IF q \in ReadBut(rest) THEN disk[q].code ELSE NoCode
    /\ \A q \in Path : x.doc[q] = IF q \in ReadBut(rest) /\ ~Refused(q) THEN disk[q] ELSE NoDoc

OnTrack ==
    building = "full" /\ ~disturbed /\ CodesDistinct =>
        known = Named /\ todo \subseteq Markdown /\ IdealBut(work, todo)

LEMMA VisitedFiles == ASSUME NEW rest PROVE VisitedBut(rest) \subseteq File
BY SourcePath DEF VisitedBut, ReadBut, File

(* Nothing is left to come: the tables are Ideal.                          *)
LEMMA IdealAtEnd ==
    ASSUME TypeOK, NEW x \in Index, IdealBut(x, {})
    PROVE  x = Ideal
<1> DEFINE links == UNION {{f} \X Targets(f, Named) : f \in Visited}
<1>1. ReadBut({}) = Read /\ VisitedBut({}) = Visited
    BY DEF ReadBut, VisitedBut, Read, Visited
<1>2. \A f \in Visited : f \in Path /\ Targets(f, Named) \subseteq Path
    BY <1>1, VisitedFiles, TargetPaths DEF Path, Named
<1>3. \A q, r \in Path : <<q, r>> \in links <=> q \in Visited /\ r \in Targets(q, Named)
    OBVIOUS
<1>4. links \subseteq Path \X Path
    BY <1>2
<1>5. x.links = links
    <2>1. \A q, r \in Path : <<q, r>> \in x.links <=> <<q, r>> \in links
        BY <1>1, <1>3 DEF IdealBut
    <2>2. x.links \subseteq Path \X Path
        BY DEF Index
    <2> QED
        BY <1>4, <2>1, <2>2
<1>6. x.rows = Visited \cup {l[2] : l \in links}
    <2>1. \A q \in Path : q \in {l[2] : l \in links} <=>
              \E g \in Visited : q \in Targets(g, Named)
        <3>1. ASSUME NEW q, NEW l \in links, q = l[2]
              PROVE  \E g \in Visited : q \in Targets(g, Named)
            BY <3>1
        <3>2. ASSUME NEW q, NEW g \in Visited, q \in Targets(g, Named)
              PROVE  q \in {l[2] : l \in links}
            <4>1. <<g, q>> \in links
                BY <3>2
            <4> QED
                BY <4>1
        <3> QED
            BY <3>1, <3>2
    <2>2. \A q \in Path : q \in x.rows <=> q \in Visited \cup {l[2] : l \in links}
        BY <1>1, <2>1 DEF IdealBut
    <2>3. x.rows \subseteq Path /\ Visited \cup {l[2] : l \in links} \subseteq Path
        BY <1>2, <1>4 DEF Index
    <2> QED
        BY <2>2, <2>3
<1>7. x.code = [q \in Path |-> IF q \in Read THEN disk[q].code ELSE NoCode]
    BY <1>1 DEF IdealBut, Index
<1>8. x.doc = [q \in Path |-> IF q \in Read /\ ~Refused(q) THEN disk[q] ELSE NoDoc]
    BY <1>1 DEF IdealBut, Index
<1>9. x = [rows |-> x.rows, links |-> x.links, code |-> x.code, doc |-> x.doc]
    BY DEF Index
<1> HIDE DEF links
<1> QED
    BY <1>5, <1>6, <1>7, <1>8, <1>9 DEF Ideal, links

LEMMA IdealSameDisk ==
    ASSUME disk' = disk, IdealBut(work', todo')
    PROVE  IdealBut(work, todo)'
<1>1. \A f : /\ (Parsed(f)' <=> Parsed(f)) /\ (Refused(f)' <=> Refused(f))
            /\ Targets(f, Named)' = Targets(f, Named)
    BY SameDisk
<1>2. ReadBut(todo)' = ReadBut(todo')
    BY <1>1 DEF ReadBut
<1>3. VisitedBut(todo)' = VisitedBut(todo')
    BY <1>2 DEF VisitedBut
<1> QED
    BY <1>1, <1>2, <1>3 DEF IdealBut

(* One row's references put into its place, in tables that have none yet.  *)
LEMMA RelinkIdeal ==
    ASSUME NEW x \in Index, NEW p \in Path, NEW T \in SUBSET Path, Out(x, p) = {}
    PROVE  LET y == Relink(x, p, T) IN
           /\ \A q \in Path : q \in y.rows <=> q \in x.rows \/ q = p \/ q \in T
           /\ \A q, r \in Path : <<q, r>> \in y.links <=>
                 <<q, r>> \in x.links \/ (q = p /\ r \in T)
           /\ y.code = x.code /\ y.doc = x.doc
<1> DEFINE y == Relink(x, p, T)
<1>1. /\ y.rows = x.rows \cup {p} \cup T
      /\ y.links = {l \in x.links : l[1] # p} \cup ({p} \X T)
      /\ y.code = x.code /\ y.doc = x.doc
    BY DEF Relink, Index
<1>2. \A r : <<p, r>> \notin x.links
    BY DEF Out
<1> QED
    BY <1>1, <1>2
(* A file and its source that are still to come have no links yet.         *)
LEMMA NotYet ==
    ASSUME TypeOK, OnTrack, building = "full", ~disturbed, CodesDistinct,
           NEW f \in todo
    PROVE  /\ f \in Markdown /\ f \in Path /\ f \notin VisitedBut(todo)
           /\ Out(work, f) = {}
           /\ f \in Mirrored => /\ SourceOf(f) \in Path \ Markdown
                                /\ SourceOf(f) \notin VisitedBut(todo)
                                /\ Out(work, SourceOf(f)) = {}
<1>1. f \in Markdown /\ f \in Path /\ IdealBut(work, todo)
    BY DEF OnTrack, Path, File
<1>2. f \notin VisitedBut(todo)
    BY <1>1 DEF VisitedBut, ReadBut, Markdown, Mirrored, SourceOf
<1>3. \A q \in Path \ VisitedBut(todo) : Out(work, q) = {}
    <2>1. \A l \in work.links : l[1] \in Path /\ l[2] \in Path /\ l = <<l[1], l[2]>>
        BY DEF TypeOK, Index
    <2> QED
        BY <1>1, <2>1 DEF IdealBut, Out
<1>4. ASSUME f \in Mirrored
      PROVE  SourceOf(f) \in Path \ Markdown /\ SourceOf(f) \notin VisitedBut(todo)
    <2>1. SourceOf(f) \in Path \ Markdown
        BY <1>4, SourcePath DEF Path, SourceOf, Markdown, Mirrored
    <2>2. \A g \in Mirrored : SourceOf(g) = SourceOf(f) => g = f
        BY <1>4 DEF SourceOf, Mirrored
    <2> QED
        BY <1>1, <2>1, <2>2 DEF VisitedBut, ReadBut
<1> QED
    BY <1>1, <1>2, <1>3, <1>4

LEMMA TurnOnTrack ==
    ASSUME IInv, OnTrack, NEW f \in File, Handle(f),
           building = "full", ~disturbed, CodesDistinct
    PROVE  IdealBut(work', todo')
<1>1. /\ f \in todo /\ todo' = todo \ {f}
      /\ f \in Markdown /\ f \in Path /\ f \notin VisitedBut(todo) /\ Out(work, f) = {}
      /\ known = Named /\ IdealBut(work, todo)
      /\ f \in Mirrored => /\ SourceOf(f) \in Path \ Markdown
                           /\ SourceOf(f) \notin VisitedBut(todo)
                           /\ Out(work, SourceOf(f)) = {}
    BY NotYet DEF Handle, ProcessDesign, ProcessConcept, ProcessPost, ProcessRefused, Fits, ProcessClash,
       Skip, ProcessSource, ProcessDeleted, Turn, IInv, OnTrack
<1>2. ASSUME Parsed(f) PROVE ~Clash(f)
    <2>1. SUFFICES ASSUME Clash(f) PROVE FALSE
        OBVIOUS
    <2>2. PICK q \in work.rows \ {f} : work.code[q] = disk[f].code
        BY <2>1 DEF Clash
    <2>3. q \in Path /\ disk[f].code # NoCode
        BY <2>1, <2>2 DEF Clash, IInv, TypeOK, Index
    <2>4. q \in ReadBut(todo) /\ disk[q].code = disk[f].code
        BY <1>1, <2>2, <2>3 DEF IdealBut
    <2> QED
        BY <1>1, <1>2, <2>2, <2>3, <2>4 DEF CodesDistinct, Read, ReadBut
<1>3. ASSUME Parsed(f)
      PROVE  /\ ReadBut(todo') = ReadBut(todo) \cup {f}
             /\ VisitedBut(todo') = VisitedBut(todo) \cup {f}
                    \cup (IF f \in Mirrored THEN {SourceOf(f)} ELSE {})
    <2>1. ReadBut(todo') = ReadBut(todo) \cup {f}
        BY <1>1, <1>3 DEF ReadBut
    <2> QED
        BY <2>1 DEF VisitedBut
<1>4. CASE Skip(f)
    <2>1. ~Parsed(f) /\ work' = work
        BY <1>4 DEF Skip, Parsed
    <2>2. ReadBut(todo') = ReadBut(todo)
        BY <1>1, <2>1 DEF ReadBut
    <2> QED
        BY <1>1, <2>1, <2>2 DEF IdealBut, VisitedBut
<1>5. CASE ProcessConcept(f) \/ ProcessPost(f) \/ ProcessDesign(f)
    <2> DEFINE z == Reindex(work, f)
               T == Targets(f, Named)
    <2>1. Parsed(f) /\ ~Refused(f) /\ T \in SUBSET Path
        BY <1>5, TargetPaths DEF ProcessConcept, ProcessPost, ProcessDesign, Fits, IInv, Named,
           Refused, Mirrored
    <2>2. /\ z \in Index
          /\ z.rows = Relink(work, f, T).rows /\ z.links = Relink(work, f, T).links
          /\ z.code[f] = disk[f].code /\ z.doc[f] = disk[f]
          /\ \A q \in Path \ {f} : z.code[q] = work.code[q] /\ z.doc[q] = work.doc[q]
        BY <1>1, <2>1, ReindexOut DEF IInv, Same
    <2> HIDE DEF z, T
    <2>3. /\ \A q \in Path : q \in z.rows <=> q \in work.rows \/ q = f \/ q \in T
          /\ \A q, r \in Path : <<q, r>> \in z.links <=>
                <<q, r>> \in work.links \/ (q = f /\ r \in T)
        BY <1>1, <2>1, <2>2, RelinkIdeal DEF IInv, TypeOK
    <2>4. /\ \A q \in Path : z.code[q] = IF q \in ReadBut(todo') THEN disk[q].code ELSE NoCode
          /\ \A q \in Path : z.doc[q] = IF q \in ReadBut(todo') /\ ~Refused(q) THEN disk[q]
                                                                          ELSE NoDoc
        BY <1>1, <1>3, <2>1, <2>2 DEF IdealBut
    <2>5. CASE f \notin Mirrored
        <3>1. work' = z
            BY <1>5, <2>5 DEF ProcessConcept, ProcessPost, ProcessDesign, z
        <3>2. VisitedBut(todo') = VisitedBut(todo) \cup {f}
            BY <1>3, <2>1, <2>5
        <3>3. \A q \in Path : q \in z.rows <=>
                  q \in VisitedBut(todo') \/ \E g \in VisitedBut(todo') : q \in Targets(g, Named)
            BY <1>1, <2>3, <3>2 DEF IdealBut, T
        <3>4. \A q, r \in Path : <<q, r>> \in z.links <=>
                  q \in VisitedBut(todo') /\ r \in Targets(q, Named)
            BY <1>1, <2>3, <3>2 DEF IdealBut, T
        <3> QED
            BY <2>4, <3>1, <3>3, <3>4 DEF IdealBut
    <2>6. CASE f \in Mirrored
        <3> DEFINE s == SourceOf(f)
                   S == Targets(s, Named)
        <3>1. ~ProcessConcept(f) /\ ~ProcessPost(f)
            BY <2>6 DEF ProcessConcept, ProcessPost, Mirrored
        <3>2. work' = Relink(z, s, S)
            BY <1>1, <1>5, <3>1 DEF ProcessDesign, z
        <3>3. s \in Path /\ s \in File /\ s # f /\ S \in SUBSET Path
            BY <1>1, <2>6, SourcePath, TargetPaths DEF IInv, Named
        <3>4. Out(z, s) = {}
            <4>1. z.links = {l \in work.links : l[1] # f} \cup ({f} \X T)
                BY <2>2 DEF Relink, IInv, TypeOK, Index
            <4> QED
                BY <1>1, <2>6, <3>3, <4>1 DEF Out
        <3> HIDE DEF s, S
        <3>5. /\ \A q \in Path : q \in work'.rows <=> q \in z.rows \/ q = s \/ q \in S
              /\ \A q, r \in Path : <<q, r>> \in work'.links <=>
                    <<q, r>> \in z.links \/ (q = s /\ r \in S)
              /\ work'.code = z.code /\ work'.doc = z.doc
            BY <2>2, <3>2, <3>3, <3>4, RelinkIdeal
        <3>6. VisitedBut(todo') = VisitedBut(todo) \cup {f} \cup {s}
            BY <1>3, <2>1, <2>6 DEF s
        <3>7. \A q \in Path : q \in work'.rows <=>
                  q \in VisitedBut(todo') \/ \E g \in VisitedBut(todo') : q \in Targets(g, Named)
            BY <1>1, <2>3, <3>5, <3>6 DEF IdealBut, T, S
        <3>8. \A q, r \in Path : <<q, r>> \in work'.links <=>
                  q \in VisitedBut(todo') /\ r \in Targets(q, Named)
            BY <1>1, <2>3, <3>5, <3>6 DEF IdealBut, T, S
        <3> QED
            BY <2>4, <3>5, <3>7, <3>8 DEF IdealBut
    <2> QED
        BY <2>5, <2>6
(* A stale post is new to the tables of a full build, and has no targets.  *)
<1>8. CASE ProcessRefused(f)
    <2> DEFINE e == Enter(work, f)
    <2>1. Parsed(f) /\ Refused(f) /\ f \notin Mirrored /\ work' = Strip(e, f)
        BY <1>8 DEF ProcessRefused, Fits, Refused, Mirrored
    <2>2. /\ e \in Index /\ e.rows = work.rows \cup {f} /\ e.links = work.links
          /\ e.doc = work.doc /\ \A q \in Path \ {f} : e.code[q] = work.code[q]
          /\ f \notin work.rows => e.code[f] = disk[f].code
        BY <2>1, EnterSound DEF IInv, TypeOK
    <2>3. f \notin work.rows
        <3>1. \A g \in VisitedBut(todo) : f \notin Targets(g, Named)
            BY <2>1 DEF Targets, Resolve, Refused
        <3> QED
            BY <1>1, <3>1 DEF IdealBut
    <2> HIDE DEF e
    <2>4. /\ work'.rows = work.rows \cup {f} /\ work'.code = e.code
          /\ work'.links = {l \in work.links : l[1] # f}
          /\ work'.doc = [work.doc EXCEPT ![f] = NoDoc]
        BY <2>1, <2>2 DEF Strip, Index
    <2>5. work'.links = work.links
        BY <1>1, <2>4 DEF Out
    <2>6. Targets(f, Named) = {}
        BY <2>1 DEF Targets
    <2>7. /\ ReadBut(todo') = ReadBut(todo) \cup {f}
          /\ VisitedBut(todo') = VisitedBut(todo) \cup {f}
        BY <1>3, <2>1
    <2>8. \A q \in Path : q \in work'.rows <=>
              q \in VisitedBut(todo') \/ \E g \in VisitedBut(todo') : q \in Targets(g, Named)
        BY <1>1, <2>4, <2>6, <2>7 DEF IdealBut
    <2>9. \A q, r \in Path : <<q, r>> \in work'.links <=>
              q \in VisitedBut(todo') /\ r \in Targets(q, Named)
        BY <1>1, <2>5, <2>6, <2>7 DEF IdealBut
    <2>10. \A q \in Path : work'.code[q] = IF q \in ReadBut(todo') THEN disk[q].code ELSE NoCode
        BY <1>1, <2>2, <2>3, <2>4, <2>7 DEF IdealBut
    <2>11. \A q \in Path : work'.doc[q] =
              IF q \in ReadBut(todo') /\ ~Refused(q) THEN disk[q] ELSE NoDoc
        <3>1. \A q \in Path \ {f} : work'.doc[q] = work.doc[q]
            BY <2>4 DEF IInv, TypeOK, Index
        <3>2. work'.doc[f] = NoDoc
            BY <1>1, <2>4 DEF IInv, TypeOK, Index
        <3> QED
            BY <1>1, <2>1, <2>7, <3>1, <3>2 DEF IdealBut
    <2> QED
        BY <2>8, <2>9, <2>10, <2>11 DEF IdealBut
<1>6. ~ProcessClash(f)
    BY <1>2 DEF ProcessClash
<1>7. ~ProcessSource(f) /\ ~ProcessDeleted(f)
    BY <1>1 DEF ProcessSource, ProcessDeleted
<1> QED
    BY <1>4, <1>5, <1>6, <1>7, <1>8 DEF Handle

LEMMA InitOnTrack == Init => OnTrack
BY DEF Init, OnTrack

LEMMA NextOnTrack == IInv /\ OnTrack /\ [Next]_vars => OnTrack'
<1> SUFFICES ASSUME IInv, OnTrack, [Next]_vars,
                    building' = "full", ~disturbed', CodesDistinct'
             PROVE  (known = Named /\ todo \subseteq Markdown /\ IdealBut(work, todo))'
    BY DEF OnTrack
<1>1. ASSUME NEW f \in File, NEW v, Change(f, v) PROVE FALSE
    BY <1>1 DEF Change, build
<1>2. CASE FullBuild
    <2>1. /\ disk' = disk /\ known' = Named /\ todo' = Markdown /\ work' = Empty
        BY <1>2 DEF FullBuild, Begin
    <2>2. Named' = Named
        BY <2>1, SameDisk
    <2>3. ReadBut(Markdown) = {} /\ VisitedBut(Markdown) = {}
        BY DEF ReadBut, VisitedBut
    <2>4. IdealBut(work', todo')
        BY <2>1, <2>3 DEF IdealBut, Empty
    <2> QED
        BY <2>1, <2>2, <2>4, IdealSameDisk
<1>3. ASSUME NEW f \in File, Handle(f)
      PROVE  (known = Named /\ todo \subseteq Markdown /\ IdealBut(work, todo))'
    <2>1. /\ disk' = disk /\ building' = building /\ known' = known
          /\ disturbed' = disturbed /\ todo' = todo \ {f}
        BY <1>3 DEF Handle, ProcessDesign, ProcessConcept, ProcessPost, ProcessRefused, Fits, ProcessClash,
           Skip, ProcessSource, ProcessDeleted, Turn
    <2>2. CodesDistinct
        BY <2>1 DEF CodesDistinct, Read, Parsed
    <2>3. known = Named /\ todo \subseteq Markdown
        BY <2>1, <2>2 DEF OnTrack
    <2>4. IdealBut(work', todo')
        BY <1>3, <2>1, <2>2, TurnOnTrack
    <2>5. Named' = Named
        BY <2>1, SameDisk
    <2> QED
        BY <2>1, <2>3, <2>4, <2>5, IdealSameDisk
<1>4. CASE IncrementalUpdate \/ Commit \/ Abort
    BY <1>4 DEF IncrementalUpdate, Begin, Commit, Abort, Finish
<1>5. CASE UNCHANGED vars
    <2>1. /\ disk' = disk /\ building' = building /\ known' = known /\ work' = work
          /\ disturbed' = disturbed /\ todo' = todo
        BY <1>5 DEF vars, build, history
    <2>2. CodesDistinct
        BY <2>1 DEF CodesDistinct, Read, Parsed
    <2>3. known = Named /\ todo \subseteq Markdown /\ IdealBut(work', todo')
        BY <2>1, <2>2 DEF OnTrack
    <2>4. Named' = Named
        BY <2>1, SameDisk
    <2> QED
        BY <2>1, <2>3, <2>4, IdealSameDisk
<1> QED
    BY <1>1, <1>2, <1>3, <1>4, <1>5 DEF Next, File

(* A full build that nothing disturbs commits the index that the files     *)
(* determine, in whatever order it reads them and whatever was there.      *)
THEOREM RebuildIsExact == Spec => RebuildExact
<1> DEFINE Exactly == Commit /\ building = "full" /\ ~disturbed /\ CodesDistinct => db' = Ideal
<1>1. Init => IInv /\ OnTrack
    BY InitIInv, InitOnTrack
<1>2. (IInv /\ OnTrack) /\ [Next]_vars => (IInv /\ OnTrack)'
    BY NextIInv, NextOnTrack
<1>3. IInv /\ OnTrack => Exactly
    <2>1. SUFFICES ASSUME IInv, OnTrack, Commit, building = "full", ~disturbed, CodesDistinct
                   PROVE  db' = Ideal
        OBVIOUS
    <2>2. todo = {} /\ db' = work /\ IdealBut(work, {}) /\ work \in Index
        BY <2>1 DEF Commit, OnTrack, IInv, TypeOK
    <2> QED
        BY <2>1, <2>2, IdealAtEnd DEF IInv
<1>4. Spec => [][Exactly]_vars
    BY <1>1, <1>2, <1>3, PTL DEF Spec
<1> QED
    BY <1>4 DEF RebuildExact
=============================================================================
