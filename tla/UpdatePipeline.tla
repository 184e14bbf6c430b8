--------------------------- MODULE UpdatePipeline ---------------------------
(***************************************************************************)
(* The archivist's pipeline over a whole project: update_project (run by   *)
(* `lexictl update`, `lexictl sweep` and its watch loop), update_directory *)
(* and update_files (the post-commit hook), with everything they leave     *)
(* behind: design files, the .aindex of every directory, the raw topology, *)
(* the import edges of index.db and the enrichment queue, which the        *)
(* post-edit hooks (`lexictl update --skeleton`) append to meanwhile.      *)
(*                                                                         *)
(* One file's update is DesignUpdate's subject; here it is cut only where  *)
(* it waits for the LLM.  A source's content is the set of files it        *)
(* imports.  A design file that was serialized before counts as            *)
(* AGENT_UPDATED whenever its source has changed                           *)
(* (DesignUpdateProofs!SerializedLooksEdited), so only a missing one goes  *)
(* to the LLM.                                                             *)
(***************************************************************************)
EXTENDS Naturals, FiniteSets

CONSTANTS
    File,       \* source files in scope
    Dir,        \* their directories
    Rank,       \* Rank[f]: the place of f in the sorted order of paths
    In,         \* In[f]: the directory of file f
    Above,      \* Above[d]: d and the directories above it, up to the scope root
    Watch,      \* the watch loop of `lexictl sweep --watch`
    Others,     \* other invocations: operators, the post-commit hook
    Hook,       \* `lexictl update --skeleton` processes, one after the other
    Start,      \* the contents the sources may have at first
    None,       \* no content, no design file, no index
    Budgets     \* bounds: how many edits, other invocations (runs), hooks and
                \* faults (failed LLM calls, exceptions, kills) a history has

ASSUME TreeAssumption ==
    /\ In \in [File -> Dir] /\ Rank \in [File -> Nat]
    /\ Above \in [Dir -> SUBSET Dir]
    /\ \A d \in Dir : d \in Above[d]
ASSUME NoneAssumption ==
    /\ None \notin File
    /\ \A s \in SUBSET File : s # None
    /\ \A s \in SUBSET (File \X File) : s # None
ASSUME StartAssumption ==
    \A c \in Start : c \in [File -> SUBSET File] /\ \A f \in File : f \notin c[f]
ASSUME RunnerAssumption == Watch \notin Others
ASSUME BoundsAssumption ==
    Budgets \subseteq [edits : Nat, runs : Nat, hooks : Nat, faults : Nat]

VARIABLES
    content,   \* what each source imports, None if the file is not there
    design,    \* its design file
    aindex,    \* each directory's .aindex
    topology,  \* raw-topology.md: the indexes it was made from
    graph,     \* the ast_import edges in index.db
    queue,     \* design-pending.txt: whether it is there, and its entries
    newer,     \* sources with an mtime after last_sweep
    swept,     \* last_sweep is not 0.0
    run,       \* each invocation's local state
    hook,      \* each skeleton hook's
    left,      \* what is left of the budget
    \* history, in no guard
    torn,      \* kills that left the queue file empty
    late,      \* sources changed after a run had looked at them, until the
               \* watch loop looks at them again
    failed,    \* sources whose last update failed
    known,     \* files that were ever queued
    exposed,   \* entries queued while somebody was about to write the queue,
               \* or there when it was torn
    handled    \* entries a run has concluded since they were queued

Runner == {Watch} \cup Others
files == <<content, newer>>
library == <<design, aindex, topology, graph>>
process == <<run, hook, left>>
entries == <<queue, known, exposed, handled, torn>>
vars == <<files, library, entries, swept, process, late, failed>>

Contents(f) == SUBSET (File \ {f})

Earliest(f, fs) == f \in fs /\ \A g \in fs : Rank[f] <= Rank[g]

Present == {f \in File : content[f] # None}
Fresh(f) == design[f] # None /\ design[f].of = content[f]

Idle == [at |-> "idle", mode |-> "none", force |-> FALSE, todo |-> {},
         turn |-> None, seen |-> None, dirs |-> {}, walk |-> {}, meant |-> FALSE,
         done |-> {}, gone |-> {}, batch |-> {}, keep |-> {},
         quiet |-> FALSE]

Stages == {"idle", "loop", "ask", "reindex", "topology", "queue", "drain",
           "askQueued", "clear", "rewrite", "index", "reconcile", "done"}
Modes == {"none", "project", "directory", "files"}

Designs == [of : SUBSET File, by : {"llm", "skeleton"}, at : SUBSET File,
            deps : SUBSET File, dependents : SUBSET File]
ASSUME DesignAssumption == None \notin Designs

Runs == [at : Stages, mode : Modes, force : BOOLEAN, todo : SUBSET File,
         turn : File \cup {None}, seen : (SUBSET File) \cup {None},
         dirs : SUBSET Dir, walk : SUBSET Dir, meant : BOOLEAN,
         done : SUBSET File, gone : SUBSET File, batch : SUBSET File,
         keep : SUBSET File, quiet : BOOLEAN]

SourcesOK ==
    /\ content \in [File -> (SUBSET File) \cup {None}]
    /\ newer \subseteq Present /\ swept \in BOOLEAN
    /\ late \subseteq File /\ failed \subseteq File

RunsOK ==
    /\ run \in [Runner -> Runs]
    /\ \A w \in Runner :
        /\ run[w].at \in {"ask", "askQueued"} <=> run[w].turn # None
        /\ run[w].turn # None => run[w].seen # None

QueueOK ==
    /\ queue \in [exists : BOOLEAN, lines : SUBSET File]
    /\ hook \in [Hook -> [at : {"idle", "header", "append"}, file : File \cup {None}]]
    /\ \A h \in Hook : hook[h].at # "idle" => hook[h].file # None
    /\ known \subseteq File /\ handled \subseteq File /\ exposed \subseteq File
    /\ torn \in Nat

LibraryOK ==
    /\ design \in [File -> Designs \cup {None}]
    /\ graph # None => graph \subseteq File \X File

TypeOK == SourcesOK /\ RunsOK /\ QueueOK /\ LibraryOK

Init ==
    /\ content \in Start
    /\ newer = {f \in File : content[f] # None} /\ swept = FALSE
    /\ design = [f \in File |-> None]
    /\ aindex = [d \in Dir |-> None]
    /\ topology = None /\ graph = None
    /\ queue = [exists |-> FALSE, lines |-> {}]
    /\ run = [w \in Runner |-> Idle]
    /\ hook = [h \in Hook |-> [at |-> "idle", file |-> None]]
    /\ left \in Budgets /\ torn = 0
    /\ late = {} /\ failed = {} /\ known = {} /\ exposed = {} /\ handled = {}

-----------------------------------------------------------------------------
(* What is derived from the sources                                        *)

(* extract_dependencies: imports that resolve to a file of the project.    *)
Deps(f) == IF content[f] = None THEN {} ELSE content[f] \cap Present

(* extract_dependents: update_file takes a missing index for no importers. *)
Dependents(f) == IF graph = None THEN {} ELSE {g \in File : <<g, f>> \in graph}

(* generate_skeleton_design                                                *)
Skeleton(f) ==
    [of |-> content[f], by |-> "skeleton", at |-> content[f],
     deps |-> Deps(f), dependents |-> {}]

(* _get_file_description: the design file's description, or one of the     *)
(* file's language and length.                                             *)
Description(f) ==
    IF design[f] # None THEN [by |-> design[f].by, at |-> design[f].at]
    ELSE [by |-> "structure", at |-> content[f]]

Subdirs(d) == {e \in Dir \ {d} : Above[e] \ {e} = Above[d]}
Children(d) == {f \in Present : In[f] = d}

(* _get_dir_description: the child's billboard if it is made of            *)
(* descriptions, else the number of its entries.                           *)
Blurb(d) ==
    IF aindex[d] = None
    THEN [board |-> {}, count |-> <<Cardinality(Children(d)) + Cardinality(Subdirs(d))>>]
    ELSE [board |-> aindex[d].board,
          count |-> IF aindex[d].board # {} THEN <<>>
                    ELSE <<Cardinality(DOMAIN aindex[d].files),
                           Cardinality(DOMAIN aindex[d].subs)>>]

(* _generate_billboard: what the descriptions of the files, those that say *)
(* more than language and length, have in common.                          *)
Billboard(d) == {Description(f) : f \in {c \in Children(d) : design[c] # None}}

(* generate_aindex                                                         *)
Index(d) ==
    [files |-> [f \in Children(d) |-> Description(f)],
     subs |-> [e \in Subdirs(d) |-> Blurb(e)],
     board |-> Billboard(d)]

(* _refresh_parent_aindex: the entry of f in an index that is there; its   *)
(* billboard stays.                                                        *)
RefreshEntry(f, by, at) ==
    IF aindex[In[f]] = None THEN UNCHANGED aindex
    ELSE aindex' = [aindex EXCEPT ![In[f]].files =
                        [g \in DOMAIN @ \cup {f} |->
                            IF g = f THEN [by |-> by, at |-> at] ELSE @[g]]]

-----------------------------------------------------------------------------
(* Invocations                                                             *)

Spend(what) == left[what] > 0 /\ left' = [left EXCEPT ![what] = @ - 1]

(* A step of w; it disturbs all the others.                                *)
Go(w, r) ==
    /\ run' = [v \in Runner |-> IF v = w THEN r ELSE [run[v] EXCEPT !.quiet = FALSE]]
    /\ UNCHANGED hook

Disturb == run' = [v \in Runner |-> [run[v] EXCEPT !.quiet = FALSE]]

Alone(w) ==
    /\ \A v \in Runner \ {w} : run[v].at = "idle"
    /\ \A h \in Hook : hook[h].at = "idle"

(* discover_source_files, before the loop of the run.                      *)
Begin(w, m, forced, scope) ==
    /\ run[w].at = "idle"
    /\ Go(w, [Idle EXCEPT !.at = "loop", !.mode = m, !.force = forced,
                          !.todo = scope, !.gone = IF m = "files" THEN scope \ Present ELSE {},
                          !.quiet = Alone(w)])
    /\ UNCHANGED <<files, library, entries, swept, failed>>

(* Mutant of HasChanges: the first run is nothing special.                 *)
HasChangesSinceSweep == swept /\ newer # {}

(* has_changes, and the sweep it lets through.                             *)
HasChanges == ~swept \/ newer # {}

WatchSweep ==
    /\ HasChanges
    /\ Begin(Watch, "project", FALSE, Present)
    /\ UNCHANGED <<left, late>>

WatchSkip ==
    /\ run[Watch].at = "idle" /\ ~HasChanges
    /\ UNCHANGED vars

UpdateProject(w) ==
    /\ Spend("runs")
    /\ \E forced \in BOOLEAN : Begin(w, "project", forced, Present)
    /\ UNCHANGED late

UpdateDirectory(w) ==
    /\ Spend("runs")
    /\ \E d \in Dir : Begin(w, "directory", FALSE, {f \in Present : d \in Above[In[f]]})
    /\ UNCHANGED late

(* The post-commit hook: the paths of the commit, deleted ones among them. *)
UpdateFiles(w) ==
    /\ Spend("runs")
    /\ \E fs \in SUBSET File \ {{}} : Begin(w, "files", FALSE, fs)
    /\ UNCHANGED late

-----------------------------------------------------------------------------
(* update_file in the loop (at = "loop") and for the queue (at = "drain")  *)

(* _accumulate_stats and what the loops remember of a file.  NEW_FILE and  *)
(* failures count as meaningful; update_files remembers every file that    *)
(* did not raise.                                                          *)
InLoop(r, f, result) ==
    [r EXCEPT !.at = "loop", !.turn = None, !.seen = None, !.todo = @ \ {f},
              !.meant = @ \/ result \in {"new", "failed", "raised"},
              !.done = IF result = "raised" THEN @ ELSE @ \cup {f},
              !.dirs = IF \/ r.mode = "files" /\ result # "raised"
                          \/ r.mode # "files" /\ result \in {"new", "failed", "raised"}
                       THEN @ \cup {In[f]} ELSE @,
              !.quiet = @ /\ result \notin {"failed", "raised"}]

(* The loop of _process_enrichment_queue: failed entries stay queued.      *)
InQueue(r, f, result) ==
    [r EXCEPT !.at = "drain", !.turn = None, !.seen = None, !.batch = @ \ {f},
              !.done = IF result = "failed" THEN @ ELSE @ \cup {f},
              !.quiet = @ /\ result # "failed"]

(* What somebody who has asked about f knows is out of date.               *)
Outdated(f) == \E w \in Runner : run[w].turn = f /\ run[w].seen # content[f]

Concludes(w, f, result) ==
    /\ Go(w, IF run[w].at \in {"loop", "ask"} THEN InLoop(run[w], f, result)
             ELSE InQueue(run[w], f, result))
    /\ failed' = IF result \in {"failed", "raised"} THEN failed \cup {f} ELSE failed \ {f}
    /\ handled' = IF run[w].at \in {"loop", "ask"} \/ result \in {"failed", "raised"}
                  THEN handled ELSE handled \cup {f}
    /\ late' = IF w = Watch /\ result \notin {"failed", "raised"} /\ ~Outdated(f)
               THEN late \ {f} ELSE late
    /\ UNCHANGED <<files, topology, graph, queue, known, exposed, torn, swept>>

Turn(w, f) ==
    \/ run[w].at = "loop" /\ Earliest(f, run[w].todo)
    \/ run[w].at = "drain" /\ f \in run[w].batch
Forced(w) == run[w].at = "loop" /\ run[w].force

(* The source is gone: hashing it raises, the queue and update_files look  *)
(* first.                                                                  *)
Missing(w, f) ==
    /\ Turn(w, f) /\ content[f] = None
    /\ \/ run[w].at = "drain" /\ Concludes(w, f, "missing")
       \/ run[w].at = "loop" /\ run[w].mode # "files" /\ Concludes(w, f, "raised")
       \/ /\ run[w].mode = "files" /\ run[w].at = "loop"
          /\ Go(w, [run[w] EXCEPT !.todo = @ \ {f}])
          /\ UNCHANGED <<files, topology, graph, entries, swept, late, failed>>
    /\ UNCHANGED <<design, aindex, left>>

(* UNCHANGED                                                               *)
Unchanged(w, f) ==
    /\ Turn(w, f) /\ content[f] # None /\ ~Forced(w) /\ Fresh(f)
    /\ Concludes(w, f, "unchanged")
    /\ UNCHANGED <<design, aindex, left>>

(* AGENT_UPDATED: the footer alone.                                        *)
RefreshFooter(w, f) ==
    /\ Turn(w, f) /\ content[f] # None /\ ~Forced(w)
    /\ design[f] # None /\ ~Fresh(f)
    /\ design' = [design EXCEPT ![f].of = content[f]]
    /\ RefreshEntry(f, design[f].by, design[f].at)
    /\ Concludes(w, f, "agent")
    /\ UNCHANGED left

(* NEW_FILE, or made one by --force, which deletes the design file first:  *)
(* the request goes out.                                                   *)
Ask(w, f) ==
    /\ Turn(w, f) /\ content[f] # None
    /\ Forced(w) \/ design[f] = None
    /\ design' = [design EXCEPT ![f] = None]
    /\ Go(w, [run[w] EXCEPT !.at = IF @ = "loop" THEN "ask" ELSE "askQueued",
                            !.turn = f, !.seen = content[f]])
    /\ UNCHANGED <<files, aindex, topology, graph, entries, swept, left, late, failed>>

(* There was no design file before the call, so nothing is compared after  *)
(* it: the answer replaces what has been written meanwhile.                *)
Answer(w) ==
    LET f == run[w].turn IN
    /\ f # None
    /\ design' = [design EXCEPT ![f] =
            [of |-> run[w].seen, by |-> "llm", at |-> run[w].seen,
             deps |-> Deps(f), dependents |-> Dependents(f)]]
    /\ RefreshEntry(f, "llm", run[w].seen)
    /\ Concludes(w, f, "new")
    /\ UNCHANGED left

(* A truncated answer: _write_skeleton_fallback reads the source anew.     *)
Truncated(w) ==
    LET f == run[w].turn IN
    /\ f # None /\ content[f] # None
    /\ Spend("faults")
    /\ design' = [design EXCEPT ![f] = Skeleton(f)]
    /\ RefreshEntry(f, "skeleton", content[f])
    /\ Concludes(w, f, "new")

NoAnswer(w) ==
    /\ run[w].turn # None
    /\ Spend("faults")
    /\ Concludes(w, run[w].turn, "failed")
    /\ UNCHANGED <<design, aindex>>

-----------------------------------------------------------------------------
(* After the loop                                                          *)

Proceed(w, at) == Go(w, [run[w] EXCEPT !.at = at])

AfterReindex(w) == IF run[w].mode = "files" THEN "index" ELSE "topology"

(* _has_meaningful_changes: without one nothing is indexed again.          *)
EndLoop(w) ==
    /\ run[w].at = "loop" /\ run[w].todo = {}
    /\ LET ds == IF run[w].meant THEN UNION {Above[d] : d \in run[w].dirs} ELSE {} IN
       Go(w, [run[w] EXCEPT !.at = IF ds = {} THEN AfterReindex(w) ELSE "reindex",
                            !.dirs = ds, !.walk = ds])
    /\ UNCHANGED <<files, library, entries, swept, left, late, failed>>

(* Mutant of Deepest: in the order the directories were found in.          *)
AnyDirectory(d, ds) == d \in ds

(* reindex_directories goes deepest first, for a directory's entry is made *)
(* from its own index.                                                     *)
Deepest(d, ds) == d \in ds /\ \A e \in ds \ {d} : d \notin Above[e]

Reindex(w) ==
    /\ run[w].at = "reindex"
    /\ \E d \in run[w].walk :
        /\ Deepest(d, run[w].walk)
        /\ aindex' = [aindex EXCEPT ![d] = Index(d)]
        /\ Go(w, [run[w] EXCEPT !.walk = @ \ {d},
                                !.at = IF run[w].walk = {d} THEN AfterReindex(w) ELSE @])
    /\ UNCHANGED <<files, design, topology, graph, entries, swept, left, late, failed>>

(* generate_raw_topology; the deprecation pass that follows is             *)
(* DesignLifecycle's.                                                      *)
Topology(w) ==
    /\ run[w].at = "topology"
    /\ topology' = aindex
    /\ Proceed(w, IF run[w].mode = "project" THEN "queue" ELSE "index")
    /\ UNCHANGED <<files, design, aindex, graph, entries, swept, left, late, failed>>

(* read_queue; clear_queue is only called when something was processed.    *)
ReadQueue(w) ==
    /\ run[w].at = "queue"
    /\ Go(w, [run[w] EXCEPT !.at = IF queue.lines = {} THEN "index" ELSE "drain",
                            !.batch = queue.lines, !.done = {}])
    /\ UNCHANGED <<files, library, entries, swept, left, late, failed>>

Drained(w) ==
    /\ run[w].at = "drain" /\ run[w].batch = {}
    /\ Proceed(w, IF run[w].done = {} THEN "index" ELSE "clear")
    /\ UNCHANGED <<files, library, entries, swept, left, late, failed>>

(* Mutant of ClearRead: by now all that was read is processed.             *)
ClearAll(w) ==
    /\ run[w].at = "clear"
    /\ Go(w, [run[w] EXCEPT !.at = "rewrite"])
    /\ UNCHANGED <<files, library, entries, swept, left, late, failed>>

(* clear_queue reads the file, and drops the processed paths whenever they *)
(* were queued ...                                                         *)
ClearRead(w) ==
    /\ run[w].at = "clear"
    /\ Go(w, [run[w] EXCEPT !.at = "rewrite", !.keep = queue.lines \ run[w].done])
    /\ UNCHANGED <<files, library, entries, swept, left, late, failed>>

(* ... and writes back what it kept.                                       *)
ClearWrite(w) ==
    /\ run[w].at = "rewrite"
    /\ queue' = [exists |-> TRUE, lines |-> run[w].keep]
    /\ Proceed(w, "index")
    /\ UNCHANGED <<files, library, known, exposed, handled, torn, swept, left, late, failed>>

-----------------------------------------------------------------------------
(* The link graph and the sections made from it                            *)

Edges(fs) == {e \in fs \X File : e[2] \in Deps(e[1])}

(* build_index: everything that has a design file, or the given paths.     *)
BuildIndex(w) ==
    /\ run[w].at = "index"
    /\ LET old == IF graph = None THEN {} ELSE graph
           mine == run[w].done
           dead == run[w].gone IN
       graph' = IF run[w].mode # "files" THEN Edges({f \in File : design[f] # None})
                ELSE IF mine \cup dead = {} THEN graph
                ELSE {e \in old : e[1] \notin mine \cup dead /\ e[2] \notin dead}
                     \cup Edges(mine)
    /\ LET ds == IF run[w].mode = "project" THEN {f \in File : design[f] # None} ELSE {} IN
       Go(w, [run[w] EXCEPT !.at = IF ds = {} THEN "done" ELSE "reconcile", !.batch = ds])
    /\ UNCHANGED <<files, design, aindex, topology, entries, swept, left, late, failed>>

(* A failed build leaves the old index, and the reconciliation out.        *)
IndexFails(w) ==
    /\ run[w].at = "index"
    /\ Spend("faults")
    /\ Go(w, [run[w] EXCEPT !.at = "done", !.quiet = FALSE])
    /\ UNCHANGED <<files, library, entries, swept, late, failed>>

(* Mutant of Drifted: the dependents are left to update_file.              *)
DriftedForward(f) == design[f].deps # Deps(f)

(* reconcile_deps_only compares both lists with what they should be.       *)
Drifted(f) == design[f].deps # Deps(f) \/ design[f].dependents # Dependents(f)

Reconcile(w) ==
    /\ run[w].at = "reconcile"
    /\ \E f \in File :
        /\ Earliest(f, run[w].batch)
        /\ Go(w, [run[w] EXCEPT !.batch = @ \ {f},
                                !.at = IF run[w].batch = {f} THEN "done" ELSE @])
        /\ design' = IF design[f] # None /\ Drifted(f)
                     THEN [design EXCEPT ![f].deps = Deps(f), ![f].dependents = Dependents(f)]
                     ELSE design
    /\ UNCHANGED <<files, aindex, topology, graph, entries, swept, left, late, failed>>

(* The run returns.  The watch loop takes the time now, whatever failed.   *)
Return(w) ==
    /\ run[w].at = "done"
    /\ Go(w, Idle)
    /\ IF w = Watch THEN swept' = TRUE /\ newer' = {} ELSE UNCHANGED <<swept, newer>>
    /\ UNCHANGED <<content, library, entries, left, late, failed>>

(* Mutant of Raise: the failed sweep counts as one.                        *)
RaiseAsIfSwept(w) ==
    /\ run[w].at = "loop" /\ run[w].turn = None
    /\ Spend("faults")
    /\ Go(w, Idle)
    /\ swept' = (swept \/ w = Watch)
    /\ newer' = IF w = Watch THEN {} ELSE newer
    /\ UNCHANGED <<content, library, entries, late, failed>>

(* An exception outside of the guarded stages (configuration, ignore       *)
(* rules, the walk): on_error, and the loop goes on with the old time.     *)
Raise(w) ==
    /\ run[w].at = "loop" /\ run[w].turn = None
    /\ Spend("faults")
    /\ Go(w, Idle)
    /\ UNCHANGED <<files, library, entries, swept, late, failed>>

(* A kill.  The watch loop is started again and knows of no sweep; a kill  *)
(* inside write_text leaves the queue file empty.                          *)
Kill(w) ==
    /\ run[w].at # "idle" /\ Spend("faults")
    /\ Go(w, Idle)
    /\ failed' = failed \cup {f \in File : run[w].turn = f}
    /\ swept' = (swept /\ w # Watch)
    /\ newer' = IF w = Watch THEN Present ELSE newer
    /\ \/ UNCHANGED <<queue, torn, exposed>>
       \/ /\ run[w].at = "rewrite"
          /\ queue' = [queue EXCEPT !.lines = {}] /\ torn' = torn + 1
          /\ exposed' = exposed \cup queue.lines
    /\ UNCHANGED <<content, library, known, handled, late>>

Step(w) ==
    \/ \E f \in File : Missing(w, f) \/ Unchanged(w, f) \/ RefreshFooter(w, f) \/ Ask(w, f)
    \/ Answer(w) \/ Truncated(w) \/ NoAnswer(w)
    \/ EndLoop(w) \/ Reindex(w) \/ Topology(w)
    \/ ReadQueue(w) \/ Drained(w) \/ ClearRead(w) \/ ClearWrite(w)
    \/ BuildIndex(w) \/ IndexFails(w) \/ Reconcile(w) \/ Return(w)

-----------------------------------------------------------------------------
(* `lexictl update --skeleton`, run after an agent's edit                  *)

SetHook(h, at, f) ==
    /\ hook' = [hook EXCEPT ![h] = [at |-> at, file |-> f]]
    /\ Disturb
    /\ UNCHANGED <<files, topology, graph, swept, late, failed>>

(* _generate_quick_design writes a skeleton only where there is no design  *)
(* file (or none that was ever serialized); the path is queued either way. *)
QuickDesign(h, f) ==
    /\ hook[h].at = "idle" /\ content[f] # None
    /\ Spend("hooks")
    /\ IF design[f] # None THEN UNCHANGED <<design, aindex>>
       ELSE /\ design' = [design EXCEPT ![f] = Skeleton(f)]
            /\ RefreshEntry(f, "skeleton", content[f])
    /\ SetHook(h, IF queue.exists THEN "append" ELSE "header", f)
    /\ UNCHANGED entries

(* The queue file was missing when queue_for_enrichment looked.            *)
WriteHeader(h) ==
    /\ hook[h].at = "header"
    /\ queue' = [exists |-> TRUE, lines |-> {}]
    /\ SetHook(h, "append", hook[h].file)
    /\ UNCHANGED <<design, aindex, known, exposed, handled, torn, left>>

(* Whoever queues f now may lose it: a run has processed f and not yet     *)
(* rewritten the file, or is rewriting it, or a hook is about to.          *)
Open(f) ==
    \/ \E w \in Runner :
        \/ run[w].at = "rewrite"
        \/ run[w].at \in {"drain", "askQueued", "clear"} /\ f \in run[w].done
    \/ \E h \in Hook : hook[h].at = "header"

Append(h) ==
    LET f == hook[h].file IN
    /\ hook[h].at = "append"
    /\ queue' = [queue EXCEPT !.lines = @ \cup {f}]
    /\ known' = known \cup {f}
    /\ handled' = handled \ {f}
    /\ exposed' = IF Open(f) THEN exposed \cup {f} ELSE exposed \ {f}
    /\ SetHook(h, "idle", None)
    /\ UNCHANGED <<design, aindex, torn, left>>

-----------------------------------------------------------------------------
(* Developers and agents                                                   *)

(* A run has f behind it, or is waiting for the LLM's view of it.          *)
LookedAt(f) ==
    \/ run[Watch].at # "idle" /\ f \notin run[Watch].todo
    \/ \E w \in Runner : run[w].turn = f

Change(f, v) ==
    /\ Spend("edits")
    /\ content[f] # v
    /\ content' = [content EXCEPT ![f] = v]
    /\ late' = IF LookedAt(f) THEN late \cup {f} ELSE late
    /\ Disturb
    /\ UNCHANGED <<library, entries, swept, hook, failed>>

Edit(f) ==
    /\ \E v \in Contents(f) : Change(f, v)
    /\ newer' = newer \cup {f}

(* Mutant of Delete: a deletion has a time too.                            *)
DeleteSeen(f) == Change(f, None) /\ newer' = newer \cup {f}

(* What is deleted has no mtime: has_changes never sees it.                *)
Delete(f) == Change(f, None) /\ newer' = newer \ {f}

-----------------------------------------------------------------------------
Next ==
    \/ WatchSweep \/ WatchSkip
    \/ \E w \in Others : UpdateProject(w) \/ UpdateDirectory(w) \/ UpdateFiles(w)
    \/ \E w \in Runner : Step(w) \/ Raise(w) \/ Kill(w)
    \/ \E h \in Hook : WriteHeader(h) \/ Append(h)
    \/ \E h \in Hook, f \in File : QuickDesign(h, f)
    \/ \E f \in File : Edit(f) \/ Delete(f)

Spec == Init /\ [][Next]_vars

(* The watch loop wakes up after each interval; whoever runs goes on, for  *)
(* the LLM client has a timeout.                                           *)
FairSpec ==
    /\ Spec
    /\ WF_vars(WatchSweep)
    /\ \A w \in Runner : WF_vars(Step(w))

-----------------------------------------------------------------------------
(* Properties                                                              *)

(* An update_project that nobody disturbs and in which nothing fails ends  *)
(* with a fresh design file for every source, with dependencies and        *)
(* dependents as the sources have them, and with an empty queue; so        *)
(* whatever earlier runs, kills and failures have left behind.             *)
QuietRunSettles ==
    \A w \in Runner :
        run[w].at = "done" /\ run[w].mode = "project" /\ run[w].quiet =>
            /\ \A f \in Present : Fresh(f)
            /\ \A f \in File : design[f] # None =>
                    /\ design[f].deps = Deps(f)
                    /\ design[f].dependents =
                           {g \in File : design[g] # None /\ f \in Deps(g)}
            /\ queue.lines = {}

(* At the end of an undisturbed run the index of every directory with a    *)
(* created design file, and of those above it, is what indexing it anew    *)
(* would give, and the topology was made from the indexes there are.       *)
IndexesFollow ==
    \A w \in Runner :
        run[w].at = "done" /\ run[w].quiet =>
            /\ \A d \in run[w].dirs : aindex[d] = Index(d)
            /\ run[w].mode # "files" => topology = aindex

(* When the watch loop would skip its sweep, every source has a fresh      *)
(* design file, but for those whose last update failed, those that changed *)
(* after a run had looked at them, and those another run is asking about.  *)
SkippedIsSettled ==
    run[Watch].at = "idle" /\ ~HasChanges =>
        \A f \in Present :
            \/ Fresh(f) \/ f \in failed \/ f \in late
            \/ \E w \in Runner : run[w].turn = f

(* The watch loop in the end notices every change, but for these.          *)
Noticed ==
    \A f \in File :
        (content[f] # None /\ ~Fresh(f))
            ~> (content[f] = None \/ Fresh(f) \/ f \in failed \/ f \in late)

(* Violated: a queued file that a run has processed, and that has not      *)
(* changed since, has a design file from the LLM.                          *)
QueuedIsEnriched ==
    \A f \in known \cap handled : Fresh(f) => design[f].by = "llm"

(* What the queue promises to those who queue a file.                      *)
Promise == INSTANCE WorkList WITH
    Item <- File, pending <- queue.lines
QueueKeepsPromise == Promise!Spec
=============================================================================
