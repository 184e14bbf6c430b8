-------------------------- MODULE DesignLifecycle --------------------------
(***************************************************************************)
(* What becomes of the design files when source files come, go and are     *)
(* renamed: a run of update_project (the loop over the sources, then the   *)
(* deprecation pass), the validator's fixes, `lexi design update` on one   *)
(* file, and the developers who meanwhile change the working tree, stage   *)
(* and commit, and write notes into design files.                          *)
(*                                                                         *)
(* A tree gives every source path its content, or None.  Three of them     *)
(* matter: the working tree, the git index and the last two commits.       *)
(* A design file is its notes (what somebody wrote into it by hand), the   *)
(* content whose hash its footer records, and its lifecycle status.        *)
(***************************************************************************)
EXTENDS Naturals, FiniteSets

CONSTANTS
    Source,      \* paths of source files
    Content,     \* what a source file may contain
    Note,        \* what may be written by hand into a design file
    None,        \* no file
    Ttl,         \* deprecation.ttl_commits
    MaxOps,      \* bound: changes of the working tree
    MaxCommits   \* bound: commits

ASSUME BoundsAssumption == Ttl \in Nat /\ MaxOps \in Nat /\ MaxCommits \in Nat

Tree == [Source -> Content \cup {None}]

Status == {"active", "unlinked", "deprecated"}

Design == [notes : SUBSET Note, of : Content, status : Status,
           since : 0 .. MaxCommits]    \* deprecated_at, in commits; 0 unless deprecated

ASSUME NoneAssumption == None \notin Content /\ None \notin Design

Rename == [old : Source, new : Source]

VARIABLES
    work, index, head, parent,  \* working tree, git index, HEAD, HEAD~1
    commits,   \* how many commits there are
    design,    \* design[s]: the design file that mirrors s, or None
    pc,        \* where the run of update_project is
    todo,      \* what its present loop has left: sources, each with its task
    staged,    \* the renames found in the index that it has not looked at
    committed, \* and those found in the last commit
    moving,    \* the rename at hand, as a set of at most one
    parsed,    \* the design file it has read for that rename
    due,       \* history: the notes that each renamed file should end up with
    missed,    \* history: the files it has left as they were, if it is calm
    adrift,    \* history: notes that changed hands while a rename was at hand
    calm,      \* history: nobody but the run has changed a thing since it began
    ops

git == <<index, head, parent, commits>>
pass == <<pc, todo, staged, committed, moving, parsed, due>>
vars == <<work, git, design, pass, missed, adrift, calm, ops>>

Pc == {"idle", "files", "renames", "write", "unlink", "mark", "done"}

Task == {"update", "unlinked", "deprecated"}

TypeOK ==
    /\ {work, index, head, parent} \subseteq Tree
    /\ commits \in 0 .. MaxCommits
    /\ design \in [Source -> Design \cup {None}]
    /\ pc \in Pc
    /\ todo \subseteq Source \X Task
    /\ staged \subseteq Rename /\ committed \subseteq Rename
    /\ moving \subseteq Rename
    /\ parsed \in Design \cup {None}
    /\ due \subseteq Source \X Note
    /\ missed \subseteq Source
    /\ adrift \subseteq Note
    /\ calm \in BOOLEAN
    /\ ops \in 0 .. MaxOps

Running == pc \notin {"idle", "done"}

Exists(s) == work[s] # None
HasDesign(s) == design[s] # None
Held == UNION {design[s].notes : s \in {t \in Source : HasDesign(t)}}

(* A repository whose last commit changed none of these files, with a      *)
(* design file for each of them.                                           *)
Init ==
    /\ work \in Tree
    /\ index = work /\ head = work /\ parent = work
    /\ commits = 0
    /\ design = [s \in Source |->
                    IF work[s] = None THEN None
                    ELSE [notes |-> {}, of |-> work[s], status |-> "active",
                          since |-> 0]]
    /\ pc = "idle" /\ todo = {} /\ staged = {} /\ committed = {}
    /\ moving = {} /\ parsed = None /\ due = {} /\ missed = {}
    /\ adrift = {} /\ calm = FALSE
    /\ ops = 0

-----------------------------------------------------------------------------
(* What is done to one design file                                         *)

(* Mutant of Updated: a file that has changed is written from scratch.      *)
Rewritten(s) ==
    IF ~Exists(s) THEN design[s]
    ELSE IF HasDesign(s) /\ design[s].of = work[s] THEN design[s]
    ELSE [notes |-> {}, of |-> work[s], status |-> "active", since |-> 0]

(* update_file: a source without a design file gets a new one; a changed   *)
(* source has its hash put into the footer and nothing else, because       *)
(* check_change finds every serialized design file AGENT_UPDATED (module   *)
(* DesignFile); a source that has vanished is a failure.                   *)
Updated(s) ==
    IF ~Exists(s) THEN design[s]
    ELSE IF HasDesign(s) THEN [design[s] EXCEPT !.of = work[s]]
    ELSE [notes |-> {}, of |-> work[s], status |-> "active", since |-> 0]

(* _is_committed_deletion asks the index.                                  *)
Verdict(s) == IF index[s] = None THEN "deprecated" ELSE "unlinked"

(* Mutant of Marked: deprecated_at is the next commit's.                    *)
MarkedAhead(d, status) ==
    [d EXCEPT !.status = status,
              !.since = IF status = "deprecated" THEN commits + 1 ELSE 0]

(* deprecate_design and mark_unlinked                                      *)
Marked(d, status) ==
    [d EXCEPT !.status = status,
              !.since = IF status = "deprecated" THEN commits ELSE 0]

(* check_ttl_expiry                                                        *)
Expired(s) ==
    /\ HasDesign(s)
    /\ design[s].status = "deprecated"
    /\ commits - design[s].since > Ttl

-----------------------------------------------------------------------------
(* git diff --find-renames between two trees.  Which of several equal      *)
(* files git pairs with which is left open.                                *)

Pairable(from, to) ==
    {m \in Rename : /\ from[m.old] # None /\ to[m.old] = None
                    /\ from[m.new] = None /\ to[m.new] = from[m.old]}

OneToOne(ms) ==
    \A m, n \in ms : (m.old = n.old \/ m.new = n.new) => m = n

Renames(from, to) ==
    {ms \in SUBSET Pairable(from, to) :
        /\ OneToOne(ms)
        /\ \A m \in Pairable(from, to) \ ms : ~OneToOne(ms \cup {m})}

(* The renames of ms that have no path in common with another of them.     *)
Alone(ms) ==
    {m \in ms : \A n \in ms \ {m} : {m.old, m.new} \cap {n.old, n.new} = {}}

-----------------------------------------------------------------------------
(* The run                                                                 *)

Outside == <<work, git, ops>>

(* discover_source_files                                                   *)
Start ==
    /\ ~Running
    /\ pc' = "files"
    /\ todo' = {s \in Source : Exists(s)} \X {"update"}
    /\ due' = {} /\ missed' = {} /\ adrift' = {} /\ calm' = TRUE
    /\ UNCHANGED <<Outside, design, staged, committed, moving, parsed>>

File(s) ==
    /\ pc = "files" /\ <<s, "update">> \in todo
    /\ todo' = todo \ {<<s, "update">>}
    /\ design' = [design EXCEPT ![s] = Updated(s)]
    /\ UNCHANGED <<Outside, pc, staged, committed, moving, parsed, due, missed,
                   adrift, calm>>

(* update_file leaves the file as it is: an IWH signal in its directory     *)
(* says that it is blocked, or it fails on a new file (the LLM, conflict   *)
(* markers).  The run goes on.                                             *)
FileLeft(s) ==
    /\ pc = "files" /\ <<s, "update">> \in todo
    /\ todo' = todo \ {<<s, "update">>}
    /\ missed' = IF calm /\ Updated(s) # design[s] THEN missed \cup {s} ELSE missed
    /\ UNCHANGED <<Outside, design, pc, staged, committed, moving, parsed, due,
                   adrift, calm>>

(* _run_deprecation_pass, 1: detect_renames, in the index and in the last  *)
(* commit, each rename once.                                               *)
DetectRenames ==
    /\ pc = "files" /\ todo = {}
    /\ pc' = "renames"
    /\ \E i \in Renames(head, index), c \in Renames(parent, head) :
          /\ staged' = i
          /\ committed' = c \ i
          /\ due' = {d \in Source \X Note :
                        \E m \in Alone(i \cup c) :
                            /\ m.new = d[1]
                            /\ HasDesign(m.old) /\ d[2] \in design[m.old].notes}
    /\ UNCHANGED <<Outside, design, todo, moving, parsed, missed, adrift, calm>>

(* Mutant of Migrate: a design file that is there already is left alone.    *)
MigrateUnlessThere(m) ==
    IF HasDesign(m.old) /\ ~HasDesign(m.new)
    THEN /\ parsed' = design[m.old] /\ moving' = {m} /\ pc' = "write"
    ELSE UNCHANGED <<pc, moving, parsed>>

(* migrate_design_on_rename: the old design file is read, if there is one, *)
(* ...                                                                     *)
Migrate(m) ==
    IF HasDesign(m.old)
    THEN /\ parsed' = design[m.old] /\ moving' = {m} /\ pc' = "write"
    ELSE UNCHANGED <<pc, moving, parsed>>

(* ... in the order the renames were found: those of the index first.      *)
NextRename ==
    /\ pc = "renames"
    /\ \/ \E m \in staged :
             /\ staged' = staged \ {m} /\ Migrate(m)
             /\ UNCHANGED committed
       \/ \E m \in committed :
             /\ staged = {}
             /\ committed' = committed \ {m} /\ Migrate(m)
             /\ UNCHANGED staged
    /\ UNCHANGED <<Outside, design, todo, due, missed, adrift, calm>>

(* A deprecated or unlinked design file becomes active as it moves.        *)
Migrated(d) == [d EXCEPT !.status = "active", !.since = 0]

(* write_text of the new design file, over whatever is there, ...          *)
WriteMigrated ==
    /\ pc = "write"
    /\ pc' = "unlink"
    /\ design' = [s \in Source |->
                     IF \E m \in moving : m.new = s THEN Migrated(parsed)
                                                    ELSE design[s]]
    /\ UNCHANGED <<Outside, todo, staged, committed, moving, parsed, due, missed,
                   adrift, calm>>

(* ... and only then unlink of the old one.                                *)
UnlinkOld ==
    /\ pc = "unlink"
    /\ pc' = "renames"
    /\ design' = [s \in Source |->
                     IF \E m \in moving : m.old = s THEN None ELSE design[s]]
    /\ moving' = {} /\ parsed' = None
    /\ UNCHANGED <<Outside, todo, staged, committed, due, missed, adrift, calm>>

(* Mutant of DetectOrphans: what is marked already is passed over.          *)
DetectUnmarkedOrphans ==
    /\ pc = "renames" /\ staged = {} /\ committed = {}
    /\ pc' = "mark"
    /\ todo' = {<<s, Verdict(s)>> : s \in {t \in Source :
                    HasDesign(t) /\ ~Exists(t) /\ design[t].status = "active"}}
    /\ UNCHANGED <<Outside, design, staged, committed, moving, parsed, due, missed,
                   adrift, calm>>

(* 2: detect_orphaned_designs looks at every design file before the first  *)
(* of them is marked.                                                      *)
DetectOrphans ==
    /\ pc = "renames" /\ staged = {} /\ committed = {}
    /\ pc' = "mark"
    /\ todo' = {<<s, Verdict(s)>> : s \in {t \in Source : HasDesign(t) /\ ~Exists(t)}}
    /\ UNCHANGED <<Outside, design, staged, committed, moving, parsed, due, missed,
                   adrift, calm>>

Mark(s) ==
    /\ pc = "mark"
    /\ \E status \in {"unlinked", "deprecated"} :
          /\ <<s, status>> \in todo
          /\ todo' = todo \ {<<s, status>>}
          /\ design' = [design EXCEPT
                           ![s] = IF HasDesign(s) THEN Marked(@, status) ELSE None]
    /\ UNCHANGED <<Outside, pc, staged, committed, moving, parsed, due, missed, adrift,
                   calm>>

(* 3: hard_delete_expired.  It does not ask whether the source exists.     *)
(* What follows (the enrichment queue, the link graph, the dependents      *)
(* sections) changes nothing that is modelled here.                        *)
Expire ==
    /\ pc = "mark" /\ todo = {}
    /\ pc' = "done"
    /\ design' = [s \in Source |-> IF Expired(s) THEN None ELSE design[s]]
    /\ UNCHANGED <<Outside, todo, staged, committed, moving, parsed, due, missed,
                   adrift, calm>>

(* The process is killed.                                                  *)
Kill ==
    /\ Running
    /\ pc' = "idle" /\ todo' = {} /\ staged' = {} /\ committed' = {}
    /\ moving' = {} /\ parsed' = None
    /\ missed' = {} /\ calm' = FALSE
    /\ UNCHANGED <<Outside, design, due, adrift>>

-----------------------------------------------------------------------------
(* Everybody else                                                          *)

Meanwhile == missed' = {} /\ calm' = FALSE /\ UNCHANGED pass

(* The working tree                                                        *)

Change(tree) ==
    /\ ops < MaxOps
    /\ ops' = ops + 1
    /\ work' = tree
    /\ UNCHANGED <<git, design, adrift>>
    /\ Meanwhile

Write(s, c) == work[s] # c /\ Change([work EXCEPT ![s] = c])

Remove(s) == Exists(s) /\ Change([work EXCEPT ![s] = None])

Move(s, t) ==
    /\ Exists(s) /\ ~Exists(t)
    /\ Change([work EXCEPT ![t] = work[s], ![s] = None])

(* git                                                                     *)

Stage ==
    /\ index # work
    /\ index' = work
    /\ UNCHANGED <<work, head, parent, commits, design, adrift, ops>>
    /\ Meanwhile

(* A commit, which may contain other files than these.                     *)
Commit ==
    /\ commits < MaxCommits
    /\ commits' = commits + 1
    /\ parent' = head /\ head' = index
    /\ UNCHANGED <<work, index, design, adrift, ops>>
    /\ Meanwhile

(* The design files.  A note written, or a file deleted, while a rename is *)
(* at hand may escape the copy that is being made.                         *)

AtHand == pc \in {"write", "unlink"}

Annotate(s, n) ==
    /\ HasDesign(s) /\ n \notin Held
    /\ design' = [design EXCEPT ![s].notes = @ \cup {n}]
    /\ adrift' = IF AtHand THEN adrift \cup {n} ELSE adrift
    /\ UNCHANGED <<work, git, ops>>
    /\ Meanwhile

(* lexi design update                                                      *)
UpdateOne(s) ==
    /\ design' = [design EXCEPT ![s] = Updated(s)]
    /\ design' # design
    /\ UNCHANGED <<work, git, adrift, ops>>
    /\ Meanwhile

(* fix_orphaned_designs, on what check_orphaned_designs reports            *)
FixOrphan(s) ==
    /\ HasDesign(s) /\ ~Exists(s) /\ design[s].status # "deprecated"
    /\ design' = [design EXCEPT ![s] = Marked(@, Verdict(s))]
    /\ UNCHANGED <<work, git, adrift, ops>>
    /\ Meanwhile

(* fix_deprecated_ttl                                                      *)
FixTtl(s) ==
    /\ Expired(s)
    /\ design' = [design EXCEPT ![s] = None]
    /\ adrift' = IF AtHand THEN adrift \cup design[s].notes ELSE adrift
    /\ UNCHANGED <<work, git, ops>>
    /\ Meanwhile

-----------------------------------------------------------------------------

Run ==
    \/ Start \/ DetectRenames \/ NextRename \/ WriteMigrated \/ UnlinkOld
    \/ DetectOrphans \/ Expire \/ Kill
    \/ \E s \in Source : File(s) \/ FileLeft(s) \/ Mark(s)

Others ==
    \/ Stage \/ Commit
    \/ \E s \in Source :
          \/ Remove(s) \/ UpdateOne(s) \/ FixOrphan(s) \/ FixTtl(s)
          \/ \E c \in Content : Write(s, c)
          \/ \E t \in Source : Move(s, t)
          \/ \E n \in Note : Annotate(s, n)

Next == Run \/ Others

Spec == Init /\ [][Next]_vars

-----------------------------------------------------------------------------
(* Properties                                                              *)

(* What is written by hand into a design file outlives the source file's   *)
(* removal and renaming, in every order of steps and a kill between any    *)
(* two of them.  It is lost only with a design file that had been          *)
(* deprecated for more than Ttl commits, under a design file that is moved *)
(* onto its place, or when it was written in the moment of such a move.    *)
NotesKept ==
    [][\A n \in Held \ Held' :
          \/ n \in adrift
          \/ \E s \in Source :
                /\ HasDesign(s) /\ n \in design[s].notes
                /\ \/ Expired(s)
                   \/ pc = "write" /\ \E m \in moving : m.new = s]_vars

(* After a run that nothing disturbed, the notes of a file that was        *)
(* renamed are in the design file of the new path, and that one is active  *)
(* if the path exists, whatever the loop over the sources had put there    *)
(* before; unless several renames have a path in common.                   *)
NotesFollowRename ==
    pc = "done" /\ calm =>
        \A d \in due :
            LET s == d[1] IN
            /\ HasDesign(s) /\ d[2] \in design[s].notes
            /\ Exists(s) => design[s].status = "active"

Detectable == Pairable(head, index) \cup Pairable(parent, head)

(* When a run that nothing disturbed comes to the expired design files,    *)
(* every source has a design file with its present hash, and the design    *)
(* file of a missing source says unlinked or deprecated as the index has   *)
(* it.  Exempt are the files the run has left as they were, blocked or     *)
(* failed, and the paths of a rename: an old path that exists again has    *)
(* lost its design file to the new path, and the new path may have a hash  *)
(* of before its last change.                                              *)
RunSettles ==
    pc = "mark" /\ todo = {} /\ calm =>
        \A s \in Source :
            /\ Exists(s) /\ s \notin missed \cup {m.old : m \in Detectable}
                   => HasDesign(s)
            /\ Exists(s) /\ s \notin missed \cup {m.new : m \in Detectable} /\ HasDesign(s)
                   => design[s].of = work[s]
            /\ ~Exists(s) /\ HasDesign(s) => design[s].status = Verdict(s)

=============================================================================
