# A verification project for Lexibrary

Lexibrary keeps, beside the source of a project, a library for coding agents:
one *design file* per source file, concepts, conventions, playbooks and Stack
posts, indexes over all of them, and a *curator* that repairs what has drifted.
Nearly every operation reads a few files, thinks (often with an LLM), and
writes a few files back, while developers, agents, hooks and other Lexibrary
processes do the same.  This directory models the parts whose correctness
depends on what happens in which order, checks the models with TLC and proves
the most important properties with TLAPS.

Paths below are relative to `src/src/lexibrary/`, if they do not begin with
`docs/` or `tests/` (those are in `src/`).  `PROJECT.json` has for every definition the
lines it stands for.

Contents: 1 the system · 2 inventory · 3 the modules · 4 the runs · 5 bounds ·
6 fairness · 7 what is proved · 8 what is only model-checked · 9 divergences
between code and documentation · 10 what is not modelled · 11 what could
follow

## 1. The system

```
developer edits source ──► post-edit hook ──► curator (bootstrap, then a run)
        │                                         │ lock: .lexibrary/tmp/curator.lock
        │ git commit ──► post-commit hook         │ budget of LLM calls
        ▼                      ▼                  ▼
   source files ──► archivist (update_file / update_project) ──► design files, .aindex
        │                      │  LLM (awaited)                       ▲
        │                      └─► enrichment queue                   │ hand edits by agents
        └─► symbol graph       └─► link graph (index.db) ◄────────────┘
```

* The **archivist** (`archivist/`) decides for one source file whether its
  design file is up to date, and if not refreshes its footer, asks the LLM for a
  new one, or writes a skeleton.  The one asynchronous wait in it is the LLM
  call.  `update_project` does so for every file and then runs the
  *deprecation pass*, the enrichment queue, a full build of the link graph and
  a reconciliation of the dependents sections.
* The **link graph** (`linkgraph/`) is a SQLite database of artifacts and the
  links between them, built from all the files or updated for some of them.
* The **curator** (`curator/`) takes a lock, collects issues, orders them,
  and hands them to handlers, most of which call the LLM.
* The **services and command lines** start all of this; hooks start it at any
  moment and in parallel with a person at the keyboard.

No component talks to another through messages: they share files, and the
hard behaviours come from that: a file looked at twice, a
hash computed before a wait and used after it, a lock file that two processes
find missing, a kill between two writes, a loop that undoes what the last one
did.

## 2. Inventory

State, operations and the properties that make each component right.  The last
column names the modules that model it; `PROJECT.json` says how far.

| Component | State it keeps | Operations | Hard behaviour | What makes it correct | Module |
|---|---|---|---|---|---|
| Design file format (`artifacts/design_file*.py`) | text, frontmatter, footer with `source_hash`, `interface_hash`, `design_hash` | serialize, parse, hash | two sides hash the same text differently; a parse loses text | a file nobody edited is recognised as such; sections survive a round trip | `DesignFile` |
| Update of one design file (`archivist/pipeline.py` `update_file`, `change_checker.py`) | design file, `.aindex` entry | `check_change`, footer refresh, LLM generation, skeleton fallback, `--force` | edits during the LLM call, several processes, kills, truncated answers | a stale file never looks fresh; hand edits are not overwritten; every run makes progress | `DesignUpdate` |
| Update of a project (`update_project`, `update_directory`, `update_files`), sweep services and git hooks (`services/sweep.py`, `hooks/`) | design files, `.aindex` of directories, topology, import edges, time of the last sweep | loop, reindex, queue, link graph, reconcile; sweep, skip, watch | edits and other runs meanwhile; failures in the middle; what a skip test misses | an undisturbed run settles everything; a skipped sweep misses nothing | `UpdatePipeline` |
| Enrichment queue (`lifecycle/queue.py`) | an append-only text file, rewritten when cleared | queue, read, clear | append between read and write of `clear_queue` | what is queued is concluded or still queued | `UpdatePipeline`, `WorkList` |
| Lifecycle of design files (`update_project`, `lifecycle/deprecation.py`) | status and `deprecated_at` in the frontmatter; which design files exist | renames, orphan marking, expiry, two validator fixes | order of loop, renames and orphans; trees that change during the pass; kills | authored text follows its source; status says what git says | `DesignLifecycle` |
| Link graph builder (`linkgraph/builder.py`) | `index.db`: artifacts, links, tags, text, codes | `full_build`, `incremental_update` per kind of file | files change during the build; deletions cascade; codes clash; rollback | the index says of a file what the file says, or it is known why not | `LinkGraph`; resolution in `Library` |
| Curator lock and hook (`curator/coordinator.py`, `hooks.py`) | the lock file | acquire, release, bootstrap, run | check-then-write, stale limit, reused process ids | at most one run; nobody locked out for good | `CuratorLock` |
| Curator sweep (`curator/coordinator.py`) | the report, the budget, signals | collect, triage, dispatch in two passes | shared budget, failures that are not charged, recurring issues | budget kept, order kept, every issue served in the end | `CuratorSweep` |
| Curator on design files (`staleness.py`, `reconciliation.py`, `write_contract.py`) | none of its own; design files | regenerate, reconcile | four looks at files others write | the preserved sections are kept; a write settles the file or leaves it visibly stale | `CuratorDesign` |
| Concepts, conventions, playbooks, Stack posts (`wiki/`, `conventions/`, `playbooks/`, `stack/`, `lifecycle/*_deprecation.py`, `artifacts/ids.py`) | Markdown files with a status | create, approve, deprecate, verify, comment, expire; resolve a wikilink | two commands choose one code; a reference nobody counts | codes are unique; what is linked is not deleted | `Library` |
| Curator on articles (`curator/deprecation.py`, `lifecycle.py`) | what a sweep collected | retire, delete, mark a post stale | the link graph and the list are older than the files | an article in use is neither retired nor deleted | `Library` |
| Validator (`validator/`, `cli/_shared.py`, `cli/escalation.py`) | none | 46 checks, 13 fixers, four escalations | a fix acts on an old report; one fix undoes another | what is dropped is reported; what is fixed is gone; only the dead is deleted | `Checks`, `Validator` |
| Symbol graph (`symbolgraph/`, `ast_parser/`, `services/symbols.py`) | `symbols.db` | full build, `refresh_file`, resolvers, callers and callees | links between files of which only one is rebuilt; numbers used again; a transaction that fails | what is shown was written; what is stale is warned of | `SymbolGraph`, `SyntaxTree`, `PythonSymbols`, `ScriptSymbols` |
| IWH signals (`iwh/`) | `.iwh` files | write, read, consume, clean up | expiry; a signal for a directory that is gone | blocked work is not started | read in `DesignUpdate`, `CuratorSweep`, `Checks`; removed in `Validator` |
| Comments (`lifecycle/*comments.py`) | YAML sidecars | append, integrate | read-modify-write of the whole file | no comment lost | their number, in `Library` and `Checks` |
| Other curator actions (`migration.py`, `cascade.py`, `consistency*.py`, `comments.py`, `auditing.py`, `budget.py`, `iwh_actions.py`) | artifacts, reports | link migration, fixes, audits | calls nobody counts | the budget holds | outcome only, in `CuratorSweep` |
| Link graph and symbol queries, search, lookup, views | none | traverse, rank, cut to a token budget | budget at its limit | order and budget kept | not modelled, but for what the modules above ask |
| LLM clients (`llm/`) | rate limiter | call | errors, truncation | - | external: a call answers, is truncated, or fails |
| Crawler (`crawler/`) | a cache of hashes | - | - | - | nothing calls it |
| Command lines, rendering, setup, configuration, ignore rules, tokens, utilities | configuration | - | - | - | the commands that change the library are actions of the modules; otherwise not modelled |

## 3. The modules

```
DesignFile ◄── DesignUpdate ◄── MCDesignUpdate      DesignLifecycle ◄── MCDesignLifecycle
     ▲              ▲                                      ▲
     │              └── DesignUpdateProofs                 └── DesignLifecycleProofs
     └──── CuratorDesign ◄── MCCuratorDesign, CuratorDesignProofs
CuratorLock ◄── MCCuratorLock      CuratorSweep ◄── MCCuratorSweep
     └─────────── CuratorProofs ───────────┘
LinkGraph ◄── MCLinkGraph, LinkGraphProofs

WorkList ◁── UpdatePipeline ◄── MCUpdatePipeline, UpdatePipelineProofs
Library ◄── Checks ◄── Validator ◄── MCValidator, LibraryProofs
   └──────◄ MCLibrary
SyntaxTree ◄── PythonSymbols, ScriptSymbols ◄── SymbolGraph ◄── MCSymbolGraph, SymbolGraphProofs
```

A filled arrow is EXTENDS, the open one INSTANCE with a refinement mapping.
`DesignFile` is what the archivist and the curator share, so both are checked
against one meaning of "changed"; the validator checks and fixes the library that
`Library` describes.  `LibraryProofs` has the theorems of `Library` and of
`Validator`, `CuratorProofs` those of the lock and of the sweep; these two modules share
nothing, and so that one module can extend both, the specification of the sweep is
`SweepInit`, `SweepNext`, `SweepSpec`.  A definition called "Mutant of X" is a plausible mistake in
X; the mutants of `PROJECT.json` show that each property notices one.

### DesignFile

The text of a design file is a record: who wrote the standard sections and
from which version of the source, and the last hand edit inside them (`text`),
in a preserved section (`notes`), and outside of all sections the parser keeps
(`prose`).  A hash is the hashed text itself.  `Serialize` is
`serialize_design_file`; `ContentHash` is `_compute_design_content_hash`, which
strips the final newline that `Serialize` has hashed; `RoundTrip` is parse and
serialize, which loses `prose`; `CheckChange` is `check_change` with its early
returns in their order; `RefreshFooterHashes`, `SkeletonDesign` and `LLMDesign`
are the three ways `update_file` makes a design file.  A footer that lacks one of its
fields, `design_hash` included, is none to the parser (`NoFooter`).  "maintainer" stands for
itself and "agent", "archivist" for itself and "curator".

### DesignUpdate

| Code | Model |
|---|---|
| `lexictl update`, `lexi design update` | `UpdateCommand`, `DesignUpdateCommand` (with the protections of `check_design_update`) |
| `update_file`, its numbered steps | `Start` (1a), `Gate` (1b, 2), `Detect` (3-5), `Refresh`, `Prepare` (5b-6a), `LLMError`, `LLMTruncated`, `LLMAnswer` (6, 6b), `Write` (7-9), `RefreshAindex` (10) |
| a killed process | `Kill` |
| `_generate_quick_design` | `QuickSkeleton` |
| the indexer (`_get_file_description`) | `IndexDirectory` |
| developers, agents, other tools, IWH signals | `EditSource`, `HandWrite`, `HandEdit`, `ToolEdit`, `Signal` |

The local variables of an invocation are `run[u]`; several invocations run at
once.  An invocation is cut where it waits and where it returns to a file it has
looked at before.  `disturbed`, `raced`, `handmade` and `edits` are history:
no guard reads them but that of the edit bound.  Left out: a source that
returns to an earlier version, the number given to a new design file, the refresh of the symbol
graph.

Properties: a stamped hash is never of a source newer than the LLM was shown
(`NeverFalselyFresh`); an edit during the LLM call is noticed
(`EditInFlightNoticed`); a second run finds nothing to do and `.aindex` agrees
(`SecondRunFindsNothing`, `AindexFollows`); repeated runs converge
(`Converges`).  Where there is no `.aindex`, or one that does not parse (`NoAindex`),
`_refresh_parent_aindex` writes nothing, and `AindexFollows` says nothing.

### DesignLifecycle

`work`, `index`, `head` and `parent` are trees: each path's content, or None.
`design[s]` is the design file that mirrors `s`: its notes, the content whose
hash it records, its status.  Git's rename detection is `Renames`: a maximal
pairing of paths that are gone with paths that are new and have the same
content; which pairing git chooses is left open, and pairs that are merely
similar are abstracted to equal ones.

| Code | Model |
|---|---|
| `update_project`: `discover_source_files`, the loop | `Start`, `File`; `FileLeft` if the directory is blocked by an IWH signal or `update_file` fails |
| `_run_deprecation_pass` 1 | `DetectRenames`, `NextRename` (the index's first), and `migrate_design_on_rename` in three steps: read (`Migrate`), `WriteMigrated`, `UnlinkOld` |
| 2 | `DetectOrphans` (all, before any is marked), `Mark` |
| 3 | `Expire` |
| a killed process | `Kill`, between any two steps |
| `fix_orphaned_designs`, `fix_deprecated_ttl` | `FixOrphan`, `FixTtl` |
| `lexi design update` without `--force` | `UpdateOne` |
| developers and agents | `Write`, `Remove`, `Move`, `Stage` (`git add -A`), `Commit`, `Annotate` |

A changed source only gets a new hash into its design file, because every
serialized design file is AGENT_UPDATED when its source changes (theorem
`SerializedLooksEdited`, section 7).  Abstractions: design files parse; a single
write is not torn by a kill (`write_text` here could be, see section 10); commits are dated by their place in history, so that
`rev-list --since` counts them; partial staging.

Properties: notes survive every order of steps with kills between them
(`NotesKept`), end up with the renamed file (`NotesFollowRename`), and an
undisturbed run leaves fresh design files for the sources there are and the
right marks for those there are not (`RunSettles`; `missed` remembers what the
run has left as it was because it was blocked or failed).

### LinkGraph

`disk` is the content of each file (its references, its artifact code and, of a
Stack post, whether it is stale),
`db` the committed index, `work` the one the running transaction sees, `todo`
the paths it has still to read, `known` the concept titles it loaded when it
began.  `FullBuild` and `IncrementalUpdate` begin; `ProcessDesign`,
`ProcessConcept`, `ProcessPost`, `ProcessSource`, `ProcessDeleted`,
`ProcessClash` (a code that is taken: the exception is caught and the file's
part is half done), `ProcessRefused` (a stale post, whose status the CHECK of the
table refuses: likewise, a bare row is left) and `Skip` are the handlers of a path by kind; `Commit` and
`Abort` end.  `Relink`, `Strip`, `Reindex` and `Erase` are what the SQL does to
the rows.  `owed`, `done`, `cut`, `shifted` and `disturbed` are history.

Abstractions: one builder at a time (a second one waits for the database lock;
in an update, "database is locked" may drop a file and commit the rest);
conventions, playbooks and aliases, which are treated like concepts (how their
names are resolved is in `Library`); the types of links; the scans of a full build are ordered by family and not by path.

Properties: the index is wrong about a file only for a reason the code gives
(`WrongOnlyIfOwed`), nothing dangles (`NoDangling`), an undisturbed full build
is exact whatever the index was (`RebuildExact`).  To be exact about a stale post is
to have its row and nothing more (section 9).

### CuratorLock

`_acquire_lock` is a check (`Refused`, `Granted`), a truncation (`Create`) and a
write (`Fill`); `Release`, `Raise` (an exception: `finally` releases) and `Kill`
end a process; `PostEdit`, `BootstrapRefresh` and `PrepareIndexes` are the
hook's two sessions.  `Age` is the passing of `_STALE_LOCK_SECONDS`, `Stranger`
hands process identifiers to other programs (never the last free one).  A reader
that finds a torn file takes it for absent, as `_read_lock` does.  The
configuration switch `prepare_indexes` is on and files are in scope.  A refresh of
the index may fail, in a hook (`BootstrapFails`) or in a run (`PrepareFails`): the
code logs that and goes on.  `dropped` is set only by a hook that failed to refresh
the index, was refused or was killed; of runs nothing is excused.

### CuratorDesign

One pair of source and design file under a run: `Begin` (prepare hashes the
source), `Collect`, `Defer` (autonomy), `Handle` (the handler reads), `Write` or
`Unresolved` (it writes, or does not); the developer's `EditSource`, `Settle`
(commits, expiring signals) and the agents' `EditDesign`.  The handlers' LLM
calls are stubs in the code; what a reconciler may answer is a constant.
`design.foot` is the footer that is read.  A reconciler takes the section that is
last in the file up to its end (`Carries`): the old footer goes into the new file,
`buried` in front of the new one, and is the one that is read from then on
(`Delivered`), until a regeneration, whose parser strips it, cleans the file.
Whether one of the three sections the reconciler looks for is last is left open;
agents do not take a buried footer out, nor make a footer unreadable (a file with
an unreadable inline footer is unparsed for every later run).
`fix_hash_freshness` calls `asyncio.run` in a running loop, raises and changes
nothing, and has no action.

### CuratorSweep

`Start` (with the hook's charge), `Dispatch` (`DeferOverBudget`, `DeferGated`,
`DryRun`, `Succeed`, `Fail`), `EndHash`, `EndGraph`, `Report`; issues `Appear`
and the signals of proposals `Expire`.  Issues are abstract: which layer, which
rank, whether the handler calls the LLM, charges it, may fail, is gated, and
whether the issue is still there afterwards.  A handler costs at most one call.
`phase` is the pass a run is in.  Only the two-pass mode; index rebuilds between the passes, two issues of one
file, and migrations are left out.  `HashCap` is the code's `int(max * 0.7)`
with its rounding error.

### UpdatePipeline and WorkList

The pipeline over a whole project, cut where another process can come between.
The content of a source is the set of files it imports, which is all that
dependencies, dependents and import edges depend on.  One file's update is
`DesignUpdate`'s subject: here a design file is fresh or not, has recorded
dependencies and dependents and comes from the LLM, the skeleton or a footer
refresh.

| Code | Model |
|---|---|
| `run_sweep_watch`, `has_changes`, `run_single_sweep` | `WatchSweep`, `WatchSkip`, `HasChanges`, `Return`, `Raise` |
| `update_project`, `update_directory`, `update_files` | `UpdateProject`, `UpdateDirectory`, `UpdateFiles` |
| the loop over the files | `Turn`, then `Missing`, `Unchanged`, `RefreshFooter`, `Ask`, `Answer`, `Truncated` or `NoAnswer`; `EndLoop` |
| `reindex_directories`, `generate_raw_topology` | `Reindex` (a deepest directory first), `Topology` |
| `_process_enrichment_queue` | `ReadQueue`, its own turns, `Drained`, `ClearRead`, `ClearWrite` |
| `build_index`, `reconcile_deps_only` | `BuildIndex`, `IndexFails`, `Reconcile` |
| `lexictl update --skeleton` of the post-edit hook | `QuickDesign`, `WriteHeader`, `Append` |
| developers; kills | `Edit`, `Delete`; `Kill` |

`WorkList` is what a list shared by several processes promises: an item stays
until it was concluded, unless it was put there while somebody was about to
rewrite the list, or the list was torn by a kill.  `QueueKeepsPromise` says that
the queue does so; its exceptions are the ones `clear_queue` makes by reading the
file, and writing it back later.

Properties: an undisturbed run settles every file, whatever went wrong before
(`QuietRunSettles`), with indexes and topology that agree (`IndexesFollow`); when
the watch loop would skip its sweep, nothing is stale but for named reasons
(`SkippedIsSettled`), and it notices every other change in the end (`Noticed`).

Left out: the deprecation pass (`DesignLifecycle`), blocked and out-of-scope
files, the symbol graph (`SymbolGraph`); a file with conflict markers is a call
without an answer; the update of a file is one step but for its LLM call.

### Library

A slot is a file name: kind, number, slug.  An article has a title, aliases,
links, a status, its age in commits, and what is wrong with it: an unreadable
form (no fence, no YAML, an impossible date, no mapping), or faults of frontmatter
fields: missing, of a wrong type, with an element of a wrong type, no valid value.
Every field a model validates is in `Field`, and `ConceptFatal`,
`ConventionFatal`, `PlaybookFatal`, `PostFatal`, `DesignFatal` and `SignalFatal` are the
faults it does not survive.  `Reads` is what the kind's parser accepts, so an article
with a fatal fault is there for nobody.

| Code | Model |
|---|---|
| `WikilinkResolver.resolve` | `Resolve` over `Steps`, `ByCode`, `Find`, `Fuzzy` (`difflib`'s answer is the constant `Near`) |
| `_resolve_wikilink_target`, `_resolve_concept_ref` of the link graph | `Target`, `ConceptRef`; `Linked` is what has an inbound link |
| `lexi concept`/`convention`/`playbook new`, `lexi stack post` | `NewConcept`, ... choose the file name (`Claim`), `Write` writes it |
| approve, deprecate, verify, findings, states of posts, `concept link`, comments | one action each; `Change` is what read, change, write back have in common |
| `_run_deprecation_pass` on articles | `Expire`, by `References` and `Expired`; `Commit` ages |
| the curator | `Collect`, then item by item `Retire`, `Remove`, `Stale`; `EndSweep` |
| people; the link graph | `Edit`; `Build`, `Unbuild` |

`alone` in an article and in a command is history: no other command of the kind
was between choosing a name and writing.

Properties: codes are unique but for overlapping commands (`CodesUnique`); an
expiry leaves no title or alias in an active text without an end, unless the text
is a concept of the same title (`LinksSurviveExpiry`); with a current link graph
the curator retires nothing that is linked (`CuratorKeepsLinked`).  The curator
runs two name resolutions against each other: that of the link graph, which says
what is an orphan, and that of the reader.  They differ where a concept's name is met
but for hyphens and blanks, and where a playbook that comes first has for an alias what
is the title of another (the link goes to the latter, the link graph counts it for the
former); the property is about names nobody else answers to.

### Checks and Validator

`Checks` has each check of `validator/checks.py` as the set of what it reports; a
check that raises on one file (`Raises`) reports nothing of any.
`Validator` works a report off: `Start` makes it, in the three modes of `--fix`
(safe fixes, with the destructive ones after a question, with escalations);
`Fix...` are the fixers, `Decide`, `Escalate` and `Quit` the decisions, `Skip` a
finding nobody can fix, `Finish` the second report.  Other people's work
(`Library`'s actions on articles, sources and directories, a commit) goes on in
between.  `pass.alone` is history: nobody has.  An exception in a fixer is caught and
the finding skipped (`Raising` bounds the fixers in which it happens; the theorems
hold for any).

Properties: what a reader drops is reported by some check (`DroppedIsReported`,
with the list `Unseen` of faults no check asks about, and the files whose kind has
made its check fail), what is reported as
fixed is gone from the next report (`FixedIsGone`, with the three fixers for which
it is not), and a fixing deletes only what is dead (`DeadOnly`, with the three
fixers that do not look again).

Left out: messages, severities of single findings, configuration of single checks
but for `Options`, the order of findings within a check.

### SyntaxTree, PythonSymbols, ScriptSymbols, SymbolGraph

A text is its syntax tree: nodes with type, name, parent, lines and what else the
parsers look at.  The extractors are definitions of `PythonSymbols` and
`ScriptSymbols`: which nodes are definitions, their qualified names, which calls
belong to which of them, class edges, imports, enum members and types.
`SymbolGraph` has the tables of `symbols.db` (`files`, `symbols`, `calls`,
unresolved calls in `open`, `edges`, unresolved ones in `loose`) with numbers that are
used again when the tables are dropped.  `Insert`, `Calls` and `Edges` are the passes
over the files of a full build, or over the one file of a refresh: a file's and a
symbol's number is its rank among those inserted (in the order of the files, and in a
file in that of the text) above what the counters have reached.

| Code | Model |
|---|---|
| `build_symbol_graph` | `UpdateProject`, `FinishFull` (drop, commit, fill in a second transaction that may fail); `KillDropping` (killed between two drops: as good as no database) |
| `update_files` with few files, `refresh_file` | `UpdateFiles`, `ReadFile`, `StoreFile` (`Forget`, `Refreshed`, `Promote`), `EndRefresh` |
| resolvers | `ResolvePython`, `ResolveJs`, `ResolvePythonClass`, `ResolveJsClass` and their parts |
| `lexi trace`, call paths in a prompt | `WalkCallers`, `WalkCallees`, `CallContext`, `Stale` |
| developers; kills | `Edit`; `Kill` |

Properties: every call a query shows was written, in the text the caller's
symbols are from (`CallsWereWritten`); a file without a warning has the symbols
that are stored (`UnwarnedIsCurrent`, but for an edit between parse and hash,
`raced`).  `TextAssumption` says of the texts that their nodes are numbered and finitely
many and that a call is by some name.

Abstractions: named function expressions, decorators, visibility, arrows whose
body is an expression; relative imports beyond two dots; rows without ORDER BY
come in the order of their numbers; the bases of a class have no order, so that of two
as near `InheritedMethod` takes the lower number and the code the one named first (no
property tells them apart: both have the name); a query that creates the tables anew
in a database that a kill left without version; a full build reads all files when it starts
and stores when it ends; "database is locked".  Of the resolvers, `FallbackResolver`
is dead code, the lookup along base classes finds nothing in a full build (there
are no edges yet), and the check "instantiates a non-class" drops nothing.

## 4. The runs

| Run | Module, cfg | Properties | What it shows |
|---|---|---|---|
| `design` | MCDesignUpdate, DesignUpdate.cfg | TypeOK, SecondRunFindsNothing, AindexFollows, NeverFalselyFresh, EditInFlightNoticed, Converges | one invocation against everybody else; two source edits, one hand edit, forced and unlimited runs |
| `lifecycle` | MCDesignLifecycle, DesignLifecycle.cfg | TypeOK, NotesFollowRename, RunSettles, NotesKept | three paths, two changes of the tree, three commits, kills anywhere |
| `links` | MCLinkGraph, LinkGraph.cfg | TypeOK, WrongOnlyIfOwed, NoDangling, RebuildExact | full builds and updates of one or two paths while files change |
| `lock` | MCCuratorLock, CuratorLock.cfg | ExclusiveUnlessRacedOrOverrun, IndexLagsOnlyIfDropped, RefusedForCause, OrphanReclaimed | two processes, three identifiers, two kills, exceptions or failing refreshes |
| `cdesign` | MCCuratorDesign, CuratorDesign.cfg | PreservedSectionsKept, WriteSettles, Converges | curator runs at each autonomy while both files are edited |
| `sweep` | MCCuratorSweep, CuratorSweep.cfg | BudgetKept, GraphShareKept, NoInversion, Served | runs over six kinds of issue with a budget of three calls |
| `pipeline` | MCUpdatePipeline, UpdatePipeline.cfg | TypeOK, QuietRunSettles, IndexesFollow, SkippedIsSettled, QueueKeepsPromise, Noticed | the watch loop, another run, hooks; edits, deletions, failed calls, exceptions, kills |
| `library` | MCLibrary, Library.cfg | LibraryTypeOK, CodesUnique, LinksSurviveExpiry, CuratorKeepsLinked | articles of every kind made by two commands, edited, linked, retired, expired |
| `validator` | MCValidator, Validator.cfg | DroppedIsReported, FixedIsGone, DeadOnly | fixing a library with one or two flaws, or one fault in one or two files, while people work |
| `symbols` | MCSymbolGraph, SymbolGraph.cfg | CallsWereWritten, UnwarnedIsCurrent | full builds and refreshes by two runs, edits and kills, over four files of three languages |
| `doc_hand_edits` | MCDesignUpdate | HandEditsNotOverwritten | violated: see section 9 |
| `doc_queue` | MCUpdatePipeline | QueuedIsEnriched | violated: see section 9 |

The passing runs reach between 26 thousand (`symbols`) and 2 million
(`lifecycle`) distinct states and take up to three minutes each with two
workers.  Deadlock is checked in all but `library`, `symbols` and those that end
in a counterexample: there the bound on what people do may leave nothing to do.
The type invariants of the modules whose runs do not list them are proved
(section 7).

## 5. The bounds and why they are enough

* `MaxVersion = 2`: two versions that share an interface and one that does not,
  so that every change level occurs; the first has conflict markers, the second is
  too large for the LLM unless --unlimited, the last is neither, so that `Converges` speaks
  of a source that can be described.
  One hand edit in `design` (each part of the file, signed or not, footer kept
  or lost) meets every step of an invocation; two are needed only for the
  history of the violated `HandEditsNotOverwritten`.
* `Updaters`: two invocations give every overlap of a pair; the properties
  speak about one invocation and "the others", so a third adds no new kind of
  disturbance.  The theorems cover any number.
* `DesignLifecycle`: three paths allow chains (c to a, a to b) and a choice of
  pairs; two changes of the tree allow a rename and a re-creation of the old
  path, or a chain, `Ttl = 1` with three commits reaches one commit below and above
  the limit.  One note is enough for what is said of each note.
* `LinkGraph`: two sources, a concept and a post name each other in a cycle, two
  files may bear one code, a post may be (at first where there are two with one code)
  or become stale, two changes of files and two paths in an update.
* `CuratorLock`: two processes make the race, three identifiers let one be
  handed out again, `MaxFaults = 2` allows a kill and another while the first is
  being repaired.
* `CuratorSweep`: `MaxCalls = 3` gives a hash share of 2 and a graph share of 1, so
  both limits bind; six issues, one of each relevant kind.  `MaxNews = 4` bounds
  how many appear.
* `UpdatePipeline`: two files in a directory and its subdirectory, one importing
  the other in either order, so that a dependency and its dependent are updated in
  both orders and indexes nest; the watch loop and one other run.  What may
  happen is bounded together, because a failure, an edit and a hook each need
  one other to matter: an edit and the other run; two hooks and a failure;
  an edit, a hook and a failure.
* `Library`: three concept files of two numbers, one file of each other kind, two
  titles that differ by a blank; two commands and edits (`Acts`) in any
  order with commits, expiry and the curator, which are not bounded.  `Ttl = 0`
  and `CuratorTtl = 1` make the limits one commit apart.  What needs more, two concepts of
  one title that were renamed to it, is covered by the theorem.
* `Validator`: six slots, two files of which one imports the other, a directory in
  a directory.  An initial state has one flaw and one act of somebody, where that may
  matter to a fixer that deletes, or up to two flaws and none, of the flaws `MCValidator`
  lists for eight parts of a library; or one fault (any form, any pair of field and way
  to be wrong) in any one file, or beside another of a kind that makes the check fail.
* `SymbolGraph`: two Python files, one of TypeScript, one of JavaScript, so that a
  run for one file refreshes (10 times 1 is at most 3 times 4) and one for two builds anew; two
  runs, and four edits, runs and kills in total (a run killed while it drops the tables
  counts as both): enough to refresh a file whose callers
  were promoted by another.  The texts have one of each thing the extractors look for.



## 6. Fairness

* `DesignUpdate!FairSpec`: an invocation that runs keeps running (WF of its
  steps: the LLM client has a timeout and returns or raises), and plain updates
  keep being started (the post-commit hook and the operator).  `Converges`
  names, as alternatives, everything that could prevent it for ever: a directory
  blocked again and again, failures and kills without end, someone forever
  passing `--force`.
* `CuratorDesign!LiveSpec`: runs are started and go on; uncommitted changes are
  committed and signals expire (`Settle`).  Nothing is assumed of the editors.
* `CuratorSweep!LiveSweepSpec`: a run goes on, and among the runs are ever again some
  that are real and not charged by a hook beforehand.  That is strong fairness,
  because whether the next run is one of them is not the system's choice; with only
  charged or dry runs an issue may indeed wait for ever.
* `CuratorLock!LiveSpec`: a started process goes on, time passes, somebody keeps
  invoking the curator.  No fairness for kills, edits or strangers.
* `UpdatePipeline!FairSpec`: a run goes on (its LLM client has a timeout), and the
  watch loop wakes up again and again and sweeps when it sees changes.  Nothing is
  assumed of people, hooks, kills or failures; a watch process that was killed is
  started again by whoever watches it.
* `LinkGraph`, `DesignLifecycle`, `Library`, `Validator` and `SymbolGraph` have no
  liveness property and no fairness.

## 7. What is proved

For every value of the constants that satisfies the named assumptions in the
modules (bounds are natural numbers, sentinels are no values, sets of versions
are sets of versions).

| Theorem | Says | Argument |
|---|---|---|
| `DesignUpdateProofs!TypeCorrect` | `TypeOK` | one step per action |
| `!StaleNeverFresh` | `NeverFalselyFresh` | inductive: `HashedBeforeRead`, what an invocation has hashed is not newer than what it read |
| `!Settled`, `!AindexInStep` | `SecondRunFindsNothing`, `AindexFollows` | inductive: at each step of an undisturbed invocation, what it knows of the files is so; needed because the properties only speak of its end |
| `!EditNoticed` | `EditInFlightNoticed` of one invocation, for any number of edits and versions | inductive with the next: `Altered`, once somebody has edited the file during the call its text is not the remembered one; a skeleton written meanwhile does not make it so |
| `!SurvivorsNoticed` | for any number of invocations: an answer is thrown away if the last hand edit came during the call and is still in the file | inductive: `Tracing`, every text and every hash bears the number of an edit that was made, and what an invocation remembers is older than an edit during its call |
| `!SerializedLooksEdited` | a serialized file whose source changed is AGENT_UPDATED | from the two definitions of the hash; so `AGENT_UPDATED` does not mean edited (section 9) |
| `DesignLifecycleProofs!TypeCorrect`, `!NotesAreKept` | `TypeOK`, `NotesKept` | inductive: `Copying`, each note of the design file that is being moved is in the copy or came later |
| `!RenameCarriesNotes`, `!RunAlwaysSettles` | `NotesFollowRename`, `RunSettles` | inductive: `Settling`; each note that is due is with the old path of a rename to come, in the copy, or where it belongs, and what the run has just marked has not expired |
| `LinkGraphProofs!TypeCorrect`, `!NeverDangling` | `TypeOK`, `NoDangling` | the index under construction is sound too, and each operation on rows keeps an index sound |
| `!OnlyOwedIsWrong` | `WrongOnlyIfOwed` | inductive: `Certain`, the index an update would commit is right about whatever is neither owed nor cut; a file whose references shifted in the meantime is owed already, and every other one resolves by the old list as by the new |
| `!RebuildIsExact` | `RebuildExact` | inductive: `OnTrack`, the tables are what the files read so far determine, and nothing of those still to come |
| `CuratorProofs!TypeCorrect`, `!Exclusion` | `TypeOK`, `ExclusiveUnlessRacedOrOverrun` | inductive: unless two raced or one overran, whoever is inside is named, alive, in the lock file, and nobody has it open |
| `!NobodyRefusedIdly` | `RefusedForCause` | inductive with the former: `Held`, a filled lock file has its writer inside, or he was killed there |
| `!IndexFollows` | `IndexLagsOnlyIfDropped` | inductive: while the index lags and no hook has given up, a hook is underway to it |
| `!SweepTypeCorrect`, `!AccountsKept`, `!Budget`, `!GraphShare`, `!Order` | `SweepTypeOK`, `BudgetKept`, `GraphShareKept`, `NoInversion` | inductive: the accounts of the passes and the hook agree with what was spent; whatever is queued ranks below whatever was concluded |
| `CuratorDesignProofs!TypeCorrect`, `!HandlerInformed`, `!FootersDated`, `!SectionsKept`, `!Settles` | `TypeOK`, `PreservedSectionsKept`, `WriteSettles` | inductive: what the handler read is what is there, unless `touched` or `moved`; no footer is newer than what the run has hashed, and one that is carried along is older than the source, so that a file read with it always looks stale |
| `UpdatePipelineProofs!TypeCorrect` | `TypeOK` | one step per action; a run that writes has read the source |
| `!QueueAccounted` | what was queued and is gone was concluded or exposed | inductive: what a run has read of the queue and what it has concluded agree with its place in `clear_queue` |
| `!QueueImplementsWorkList` | `QueueKeepsPromise`: the queue implements `WorkList` | each step of the pipeline is a step of the list or a stutter, under the invariant |
| `!SkippedMeansSettled` | `SkippedIsSettled` | inductive: `Attentive`, every file a sweep has behind it is fresh, failed, changed behind a run's back or being asked about, so the time taken at its end vouches for all of them |
| `!QuietRunsSettle`, `!QuietRunsIndex` | `QuietRunSettles`, `IndexesFollow` | inductive: `Undisturbed`, stage by stage what a quiet run has settled so far: files that are fresh, the queue it has read, the graph it has built, the directories indexed, none of which lies above one still to come |
| `LibraryProofs!TypeCorrect` | `LibraryTypeOK` | each change keeps every field's type; a build of the link graph links articles only |
| `!CodesAreUnique` | `CodesUnique` | inductive: `Reserved`, the code a command that was always alone has chosen is borne by no article made alone, and no other command of the kind is under way |
| `!LinksSurvive` | `LinksSurviveExpiry` | an article that an active text names has references, so it stays, and each step of the resolution that found it finds one again |
| `!CuratorSparesLinked` | `CuratorKeepsLinked` | inductive: `Unlinked`, what was collected had no link when it was; and for a name nobody else answers to the link graph's resolution finds what the resolver finds |
| `!ValidatorTypeCorrect` | `ValidatorTypeOK` | each fixer keeps every file's and article's type; the findings that are left name what their check looks at |
| `!DroppedAreReported` | `DroppedIsReported` | from the types: for each reader, whatever it does not survive is in the table of the check of its kind, in `Unseen`, or makes the check fail (`FatalByTable`) |
| `!FixedAreGone` | `FixedIsGone` | inductive: `VInv`; while nobody else is at work, a finding a destructive fixer does not look at again is `Still` as it was reported, and what was fixed stays `Remedied`, which no later fixer of another finding undoes |
| `!OnlyDeadGo` | `DeadOnly` | with the same invariant: each step on a finding is `WorkedOff`, it takes no more than its check's subject and, if that is still as reported, only what is dead |
| `SymbolGraphProofs!GraphTells` | the invariant `GraphInv` | inductive: rows refer to rows that are there, and there is an assignment of texts to files such that every stored file's symbols, calls and unresolved calls are those of its text and its hash is that text's unless the file was `raced`; one lemma for each of `Insert`, `Calls`, `Edges`, `PropagateEnums`, `Forget`, `Promote` |
| `!CallsAreWritten` | `CallsWereWritten` | `GraphInv`, and what each resolver finds bears a name that the call may mean in that text |
| `!UnwarnedAreCurrent` | `UnwarnedIsCurrent` | `GraphInv`: a file that is not stale has the hash of the text it holds |

`LibraryProofs` starts from any typed library whose codes are unique
(`LibraryInit`), not from the ones of the run, and uses of numbers only that they
are bounded by `MaxCode`: a set of file names is finite, so it has a largest
code.  `LinkAssumption` says that no name is a code and `None` is no set.  For the
validator it starts from any typed library at all with no fixing under way
(`ValidatorInit`), flaws of every kind and number included, where the run starts from
one or two; `PlaceAssumption` says that directories nest in directories and that the
shelves of articles are none of them, `NothingAssumption` that `None` is no file.

`FixedIsGone` is not inductive: that a finding is gone at the end rests on what
the fixers in between leave alone.  `Remedied` says for each check why its
finding is gone (the file is deleted, its status is deprecated, its importers are
those of the link graph), and one lemma says of every fixer that it does not
undo that.  `Named` keeps a fixer of a directory from meeting a source file of the same
name.

`CallsWereWritten` and `UnwarnedIsCurrent` ask for a text of each file;
`GraphInv` keeps one and the same for a file's symbols, its calls, those not yet resolved
(which a later refresh of another file promotes) and its hash.  A refresh of one
file keeps the text of every other: it deletes calls, and promotes unresolved
ones under a name that was in the text.  That a number stands for one symbol
follows from ranks: of two places in a finite order, the earlier has the
smaller rank, so no two rows of an `Insert` share a number and none has one that
was given before.  Of the extractors the proof uses that they are defined by the
nodes of the text: a definition is a row for one of its nodes, a call is by the name
of one of its call nodes (lemma `Extracted`); of the texts, that their nodes are finitely many numbers
and that a call has a name (`TextAssumption`).

## 8. What is only model-checked

Liveness (`Converges` twice, `Served`, `OrphanReclaimed`, `Noticed`): temporal
reasoning under fairness and ENABLED are outside of the prover.  Every invariant and every
action property that a passing run lists is proved.

`EditInFlightNoticed` is proved for one invocation, which is what its run has.  With
two it is false as it stands: while one waits for its LLM, a hand edit can be
overwritten by the other, and the text the first remembers be put back, which it cannot
tell from nothing having happened.  What is true of any number is
`SurvivingEditNoticed`: the last edit, as long as it is in the file, is noticed.

Induction over data is outside of the prover too: what the recursive functions of
`SyntaxTree`, `PythonSymbols` and `ScriptSymbols` compute of a tree (the node that
holds another, the calls of a nested function) is not proved but run on the texts
of `MCSymbolGraph`.  Of the recursive functions of `SymbolGraph` (the enum closure, the
levels of base classes, the walk over callers) the proofs use only what their values lie
within.

## 9. Where code and documentation disagree

Checked, each by a run that ends in a counterexample:

* `HandEditsNotOverwritten`: a hand edit of a file that does not parse is
  protected once; the refresh records it as the program's own.
* `QueuedIsEnriched`: the queue hands each file to `update_file`, which finds the
  skeleton fresh and leaves it; the entry is counted as processed.

Shown by counterexamples of earlier versions of the runs, by theorems or by
exceptions written into a property:

* A file the program wrote is taken for edited once its source changes, because
  the two hashes differ in a newline (`SerializedLooksEdited`;
  `docs/design-files.md:139` says AGENT_UPDATED means edited).  From then on a
  changed source gets a fresh hash and an old text.
* The skeleton written after a truncated answer, or for a file that has become too
  large, drops the preserved sections (`archivist/pipeline.py:645`, comment at 917).
* The lock of the curator is checked and written in separate steps, so the
  bootstrap refresh can race a run (`curator/coordinator.py:257`, `hooks.py:113`).
* A reconciler copies the old footer into the last section of the file it writes
  (`curator/reconciliation.py:457`, docstring at 84); readers find that footer first, so
  the file is stale as soon as it is written, and the next run regenerates it
  (exempted in `WriteSettles`).
* The index has no text, tags or links of a stale post, because its status column does
  not admit `stale` (`linkgraph/schema.py:55`, `linkgraph/builder.py:934`;
  `docs/link-graph.md:103`), so that `lexi search --include-stale` cannot find it there
  (`Ideal` gives such a post a row and nothing more).
* Handlers that raise report no call: more LLM calls than
  `max_llm_calls_per_run` (`curator/auditing.py:432`, `docs/configuration.md:605`).
* `refresh_file` deletes the row of a file and with it, by ON DELETE CASCADE, the
  calls of other files to it (`symbolgraph/builder.py:646`, docstring at 511,
  `docs/symbol-graph.md:182`).

Seen while modelling and built into the models:

*Update runs.*
* Every `update_project` stamps `deprecated_at` of all orphans anew before it
  looks for expired ones, so it never deletes them (`archivist/pipeline.py:1241`;
  `docs/how-it-works.md:190` says it does); a source that comes back keeps its
  deprecated design file, and that one does expire (`lifecycle/deprecation.py:303`).
  `restore_design` is not called.
* A rename of the last commit is applied again by every run until HEAD moves; if
  the old path exists again, its new design file is moved over the renamed one.
  Of a chain (committed c to a, staged a to b) the staged half is done first,
  so that the text stays at a.  `detect_renames_by_hash` is never called.  A
  deletion that is only staged counts as committed.
* The time of a sweep is taken after it: what changes meanwhile, and every
  deletion, is not noticed by the next skip test (`docs/configuration.md:487`).
  `lexictl sweep` without `--watch` never skips.
* The `.aindex` of a directory that is gone is never deleted by an update; runs that
  only delete, or only refresh footers, reindex nothing; `topology.py` compares
  prefixes of paths in two forms.
* A design file that somebody writes while the LLM is at work on the first one is
  overwritten: no hash was taken to compare it with (`archivist/pipeline.py:898`).
  A footer without `design_hash` counts as none, so that the files of older releases are
  AGENT_UPDATED (`artifacts/design_file_parser.py:203`).
  `--force` deletes the design file before the checks that may still stop the run.

*Link graph.*
* `_handle_changed_source` looks for the design file outside of
  `.lexibrary/designs/`, so that an update of a source never indexes its design
  (`linkgraph/builder.py:1581`, docstring at 1543).  `design_stack_ref` links to
  `.lexibrary/stack/<id>.md`; the files are named `<id>-<slug>.md`.
* It resolves no codes, so a concept that is linked by its code only has no inbound
  link.

*Articles.*
* "IDs are unique by construction" (`artifacts/concept.py:73`) holds for commands
  one after the other.
* References of an expiring concept are looked for in design files and active
  concepts of another title: posts, conventions, playbooks, drafts, codes and loose
  spellings do not count.  Of two concepts with one title, the deprecated one can be
  deleted while the other links to its alias.  Expiry of conventions looks at no
  references.
* The curator counts all commits of a file, those before the deprecation too
  (`docs/configuration.md:249`, `:624`); it retires articles made after the index
  was built; the transition of a resolved post to stale always fails; a migration is never
  dispatched (`curator/coordinator.py:3016`).  Hard deletion is due at `>=` the limit
  in one place and `>` in the other.

*Curator.*
* The second half of the post-edit hook is dropped when the lock is taken.  A dry run
  writes the signals of gated deprecations (`coordinator.py:2701`); the signal of a proposed
  deprecation blocks its directory for update runs and is written anew by every
  run (`:2988`); some failures are counted as fixed; an agent's file edited after it
  was collected is regenerated.

*Validator.*
* Three checks (frontmatter and sections of posts, unique ids) look in `stack/posts`, where no
  command puts posts; `duplicate_aliases` and `bidirectional_deps` issue
  another severity than they are registered with.
* A file is dropped and no check says so: for a date that is none, a reason, number or
  successor of a wrong type, a list with an element that is no text (the list `Unseen`), or a
  footer whose fields do not parse (`check_design_structure` looks for its start only).
* One file can silence a whole check: an impossible date in the frontmatter (only
  `YAMLError` is caught, `checks.py:314`, `:3698`) or a list for a status (`checks.py:360`)
  makes it raise, `validate_library` logs that (`validator/__init__.py:241`), and `lexi validate`
  does not show the report's `error_summary`.
* `fix_hash_freshness` looks for its source under the path of the design file, calls
  `asyncio.run` in a loop when the curator runs it, and never works;
  fixers of duplicates only propose; `fix_wikilink_resolution` reports a fresh design file as
  fixed; `fix_orphan_artifacts` deletes an article that was restored since the report; an
  escalation writes its signal only when stdout is not a terminal; the removal
  of doubles between `orphan_artifacts` and `orphaned_designs` is never reached.

*Symbol graph.*
* A property with its setter, an overload, or a getter with a setter makes the full
  build fail after the tables were dropped: the graph stays empty.  The hash of a
  file is taken after it was parsed.
* Promotion of unresolved calls passes the number of a symbol for that of a file,
  has no import maps of other files, and uses the Python rules for callers in
  JavaScript.  `from m import Cls as C; C.make()` is recorded as a call of `Cls`;
  renamed and wrapped imports of JavaScript do not resolve.

## 10. What is not modelled

* Tree-sitter and the skeletons of interfaces (`ast_parser/`: what is extracted for
  the symbol graph is modelled), rendering, argument parsing, setup wizards, templates,
  configuration loading, search and lookup: sequential, about text, read-only or
  interactive, and tested as such.
* External: the LLM and its clients (a call answers, is truncated or fails, at any
  moment), SQLite (a transaction is atomic and exclusive), git (trees, an index,
  commits, rename detection), `difflib`.
* Link migration, cascades and consistency handlers of the curator but for their
  dispatch, charge and outcome; the single-pass mode.
* Two appends to one sidecar of comments, of which one is lost; writing and consuming of
  signals by `lexi iwh`; votes.
* A kill in the middle of `write_text`, which empties the file first
  (`lifecycle/deprecation.py:182`): a write is one
  step, so the file it can leave empty is not among the states, except for the lock
  and the queue, where it matters most.
* Bytes that are no UTF-8, at which readers and checks raise; a one-line footer with an
  impossible date, at which `parse_design_file` raises (`design_file_parser.py:174`: only
  `YAMLError` is caught); the spellings of a time.
* Dead code: `crawler/engine.py` and its change detector, `FallbackResolver`,
  `restore_design`, `detect_renames_by_hash`.

## 11. What could follow

The curator's consistency handlers as a client of `Library`; comments as
read-modify-write by two processes; the token budget of `lexi lookup` as an algorithm
against a reference definition.
