------------------------------ MODULE Validator ------------------------------
(* lexi validate --fix.  The report is made once; its findings are then    *)
(* fixed one by one, the destructive fixes last and after a question, the  *)
(* ones that need a decision by asking at a terminal or by a signal        *)
(* elsewhere.  Meanwhile people go on working.                             *)
EXTENDS Checks, Sequences

CONSTANTS
  Imports,       \* Imports[f]: the files that f imports
  Options,       \* the fixers that are switched on in the configuration
  Raising        \* bound: the checks in whose fixers something may go wrong

ASSUME PlaceAssumption ==
  /\ DirOf \in [File -> Dir] /\ Above \in [Dir -> SUBSET Dir] /\ Imports \in [File -> SUBSET File]
  /\ Dir \cap Shelf = {}

VARIABLES
  tracked,       \* the source files git has in its index
  pass           \* the fixing that is under way, or None

files == <<source, dirs, design, aindex, signal, graph, setup, tracked>>
rest == <<index, client, sweep, acts>>
vars == <<files, article, rest, pass>>

-----------------------------------------------------------------------------
(* The checks that have a fixer, in the order they are worked off.         *)

Safe == <<"wikilink_resolution", "orphaned_designs", "aindex_coverage",
          "bidirectional_deps", "lookup_token_budget_exceeded", "orphaned_iwh_signals">>
Escalated == <<"orphan_concepts", "stale_concept", "convention_stale", "playbook_staleness">>
Destructive == <<"orphan_artifacts", "orphaned_aindex", "orphaned_iwh", "deprecated_ttl">>

Checked(checks) == {checks[i] : i \in DOMAIN checks}

(* At a terminal with --interactive the decisions come first.              *)
Order(mode, destroy) ==
  (IF mode = "interactive" THEN Escalated \o Safe ELSE Safe \o Escalated)
    \o (IF destroy THEN Destructive ELSE <<>>)

Todo(order) ==
  LET report == Issues
  IN UNION {{<<i, x>> : x \in report[order[i]]} : i \in DOMAIN order}

(* mode: who is asked; alone: nobody else changed anything since the       *)
(* report; fixed: what has been reported as fixed.                         *)
Start(mode, destroy) ==
  /\ pass = None
  /\ pass' = [order |-> Order(mode, destroy), todo |-> Todo(Order(mode, destroy)),
              mode |-> mode, fixed |-> {}, alone |-> TRUE]
  /\ UNCHANGED <<files, article, rest>>

(* The findings whose turn it is: those of the first check that has some.  *)
Due(checks) ==
  IF pass = None THEN {}
  ELSE {t \in pass.todo : pass.order[t[1]] \in checks /\ \A other \in pass.todo : t[1] <= other[1]}

Ended(c, x, fixed) ==
  pass' = [pass EXCEPT !.todo = {t \in @ : pass.order[t[1]] # c \/ t[2] # x},
                       !.fixed = IF fixed THEN @ \cup {<<c, x>>} ELSE @]

Skip(c, x) == Ended(c, x, FALSE) /\ UNCHANGED <<files, article>>

Finish ==
  /\ pass # None /\ pass.todo = {}
  /\ pass' = None
  /\ UNCHANGED <<files, article, rest>>

(* The person asked for a decision quits: nothing else is fixed.           *)
Quit ==
  /\ Due(Checked(Escalated)) # {} /\ pass.mode = "interactive"
  /\ pass' = None
  /\ UNCHANGED <<files, article, rest>>

-----------------------------------------------------------------------------
(* Fixers.                                                                 *)

Present(S) == {f \in S : source[f] # 0}

(* update_file without force: what is fresh is left as it is, and that is  *)
(* reported as fixed; otherwise the answer has some of the links.          *)
FixWikilink(x) ==
  IF x \notin File \/ ~ReadsDesign(x) \/ source[x] = 0 THEN Skip("wikilink_resolution", x)
  ELSE \/ /\ design[x].hash = source[x]
          /\ Ended("wikilink_resolution", x, TRUE)
          /\ UNCHANGED <<files, article>>
       \/ /\ design[x].hash # source[x]
          /\ \E l \in SUBSET design[x].links :
               design' = [design EXCEPT ![x].links = l, ![x].hash = source[x]]
          /\ Ended("wikilink_resolution", x, TRUE)
          /\ UNCHANGED <<source, dirs, aindex, signal, graph, setup, tracked, article>>
       \/ design[x].hash # source[x] /\ Skip("wikilink_resolution", x)

(* The source is not looked for again; without its deletion in git the     *)
(* design file is unlinked, not deprecated.                                *)
FixOrphanedDesign(f) ==
  IF ~ReadsDesign(f) THEN Skip("orphaned_designs", f)
  ELSE /\ design' = [design EXCEPT
            ![f] = IF f \in tracked THEN [@ EXCEPT !.status = "unlinked"]
                   ELSE [@ EXCEPT !.status = "deprecated", !.age = 0]]
       /\ Ended("orphaned_designs", f, TRUE)
       /\ UNCHANGED <<source, dirs, aindex, signal, graph, setup, tracked, article>>

Within(d) ==
  {e \in dirs : d \in Above[e] \ {e} /\ \A m \in Above[e] \ {e} : m \in Above[d]}

(* When making the index raises, see Fix.                                  *)
FixAindex(d) ==
  IF d \notin dirs THEN Skip("aindex_coverage", d)
  ELSE /\ aindex' = [aindex EXCEPT ![d] = [files |-> Inside(d), dirs |-> Within(d)]]
       /\ Ended("aindex_coverage", d, TRUE)
       /\ UNCHANGED <<source, dirs, design, signal, graph, setup, tracked, article>>

(* Mutant of Reconciled: the importers are taken from the file itself.     *)
ReconciledForward(f) ==
  [design[f] EXCEPT !.deps = Present(Imports[f]), !.by = "archivist", !.whole = TRUE]

(* reconcile_deps_only: imports from the source, importers from the graph. *)
Reconciled(f) ==
  LET to == IF source[f] = 0 THEN {} ELSE Present(Imports[f])
      from == {g \in File : <<g, f>> \in graph.edges}
  IN IF design[f].deps = to /\ design[f].dependents = from THEN design[f]
     ELSE [design[f] EXCEPT !.deps = to, !.dependents = from, !.by = "archivist", !.whole = TRUE]

FixDeps(f) ==
  IF ~ReadsDesign(f) \/ ~Usable THEN Skip("bidirectional_deps", f)
  ELSE /\ design' = [design EXCEPT ![f] = Reconciled(f)]
       /\ Ended("bidirectional_deps", f, TRUE)
       /\ UNCHANGED <<source, dirs, aindex, signal, graph, setup, tracked, article>>

(* condense_file takes the hash of the source as it is; it may fall short, *)
(* then nothing counts as fixed but the design file is written all the     *)
(* same.                                                                   *)
FixBudget(f) ==
  \/ /\ design[f] # None /\ design[f].big /\ "condense" \in Options
     /\ \E big \in BOOLEAN :
          /\ design' = [design EXCEPT ![f].big = big, ![f].by = "archivist",
                           ![f].hash = IF source[f] = 0 THEN @ ELSE source[f]]
          /\ Ended("lookup_token_budget_exceeded", f, ~big)
     /\ UNCHANGED <<source, dirs, aindex, signal, graph, setup, tracked, article>>
  \/ Skip("lookup_token_budget_exceeded", f)

(* Mutant of FixSignal: the age is that of the report.                     *)
FixSignalReported(p) ==
  IF ~(ReadsSignal(p) /\ "signals" \in Options) THEN Skip("orphaned_iwh_signals", p)
  ELSE /\ signal' = [signal EXCEPT ![p] = None]
       /\ Ended("orphaned_iwh_signals", p, TRUE)
       /\ UNCHANGED <<source, dirs, design, aindex, graph, setup, tracked, article>>

FixSignal(p) ==
  IF ~(ReadsSignal(p) /\ signal[p].old /\ "signals" \in Options) THEN Skip("orphaned_iwh_signals", p)
  ELSE /\ signal' = [signal EXCEPT ![p] = None]
       /\ Ended("orphaned_iwh_signals", p, TRUE)
       /\ UNCHANGED <<source, dirs, design, aindex, graph, setup, tracked, article>>

(* The finding was that the path is not there: what is deleted has come    *)
(* back since.  The source of an article is looked for under its own path  *)
(* and never found.                                                        *)
FixOrphanArtifact(r) ==
  \/ /\ r[1] = "design" /\ design[r[2]] # None /\ source[r[2]] = 0
     /\ design' = [design EXCEPT ![r[2]] = None]
     /\ Ended("orphan_artifacts", r, TRUE)
     /\ UNCHANGED <<source, dirs, aindex, signal, graph, setup, tracked, article>>
  \/ /\ r[1] = "article" /\ article[r[2]] # None
     /\ article' = [article EXCEPT ![r[2]] = None]
     /\ Ended("orphan_artifacts", r, TRUE)
     /\ UNCHANGED files
  \/ /\ r[1] = "article" => article[r[2]] = None
     /\ r[1] = "design" => design[r[2]] = None \/ source[r[2]] # 0
     /\ Skip("orphan_artifacts", r)

(* Neither looks whether the directory is still missing.                   *)
FixOrphanedAindex(d) ==
  /\ aindex' = [aindex EXCEPT ![d] = None]
  /\ Ended("orphaned_aindex", d, aindex[d] # None)
  /\ UNCHANGED <<source, dirs, design, signal, graph, setup, tracked, article>>

FixOrphanedIwh(d) ==
  /\ signal' = [signal EXCEPT ![d] = None]
  /\ Ended("orphaned_iwh", d, signal[d] # None)
  /\ UNCHANGED <<source, dirs, design, aindex, graph, setup, tracked, article>>

FixDeprecated(f) ==
  IF f \notin DeprecatedTtl THEN Skip("deprecated_ttl", f)
  ELSE /\ design' = [design EXCEPT ![f] = None]
       /\ Ended("deprecated_ttl", f, TRUE)
       /\ UNCHANGED <<source, dirs, aindex, signal, graph, setup, tracked, article>>

(* Whatever the fixer is, an exception in it is caught: nothing is changed *)
(* and nothing counts as fixed.                                            *)
Fix(c, x) ==
  /\ \/ CASE c = "wikilink_resolution" -> FixWikilink(x)
          [] c = "orphaned_designs" -> FixOrphanedDesign(x)
          [] c = "aindex_coverage" -> FixAindex(x)
          [] c = "bidirectional_deps" -> FixDeps(x)
          [] c = "lookup_token_budget_exceeded" -> FixBudget(x)
          [] c = "orphaned_iwh_signals" -> FixSignal(x)
          [] c = "orphan_artifacts" -> FixOrphanArtifact(x)
          [] c = "orphaned_aindex" -> FixOrphanedAindex(x)
          [] c = "orphaned_iwh" -> FixOrphanedIwh(x)
          [] c = "deprecated_ttl" -> FixDeprecated(x)
     \/ c \in Raising /\ Skip(c, x)
  /\ UNCHANGED rest

-----------------------------------------------------------------------------
(* Findings that need a decision.                                          *)

Fresh == [old |-> FALSE, form |-> "whole", wrong |-> {}]

(* A concept is looked up by its title again.                              *)
Meant(c, x) ==
  IF c \in {"orphan_concepts", "stale_concept"}
  THEN LET hits == Find(x) IN IF hits = {} THEN 0 ELSE First(hits)
  ELSE IF article[x] = None THEN 0 ELSE x

(* The directory of the articles of a kind, where their signals go.        *)
ShelfOf ==
  [concept |-> "concepts", convention |-> "conventions", playbook |-> "playbooks", stack |-> "stack"]

(* Without a terminal: a fresh signal beside the article, in place of what *)
(* signal there was.  With one, but not interactive: nothing.              *)
Escalate(c, x) ==
  /\ pass.mode # "interactive"
  /\ LET s == Meant(c, x)
     IN IF pass.mode = "pipe" /\ s # 0
        THEN signal' = [signal EXCEPT ![ShelfOf[Kind[s]]] = Fresh]
        ELSE UNCHANGED signal
  /\ Ended(c, x, FALSE)
  /\ UNCHANGED <<source, dirs, design, aindex, graph, setup, tracked, article, rest>>

(* What r or d does to the article; a refresh of a convention asks for its *)
(* new scope, that has to exist and to differ when all of the old is gone. *)
Refreshed(c, a, scope) ==
  CASE c \in {"orphan_concepts", "playbook_staleness"} -> Verified(a)
    [] c = "stale_concept" -> [a EXCEPT !.files = Present(@)]
    [] c = "convention_stale" -> [a EXCEPT !.scope = scope]

ScopeAccepted(a, scope) ==
  /\ scope \subseteq dirs
  /\ a.scope # {} /\ a.scope \cap dirs = {} => scope # a.scope

Decide(c, x) ==
  /\ pass.mode = "interactive"
  /\ LET s == Meant(c, x)
     IN \/ UNCHANGED article
        \/ /\ s # 0 /\ Reads(s) /\ article[s].status # "deprecated"
           /\ Save(s, Deprecated(article[s]))
        \/ /\ s # 0 /\ Reads(s)
           /\ c = "stale_concept" => Present(article[s].files) # article[s].files
           /\ \E scope \in SUBSET Dir :
                /\ c = "convention_stale" => ScopeAccepted(article[s], scope)
                /\ Save(s, Refreshed(c, article[s], scope))
  /\ Ended(c, x, FALSE)
  /\ UNCHANGED <<files, rest>>

-----------------------------------------------------------------------------
(* Other people.                                                           *)

Meanwhile ==
  /\ acts < Acts /\ acts' = acts + 1
  /\ pass' = IF pass = None THEN None ELSE [pass EXCEPT !.alone = FALSE]
  /\ UNCHANGED <<index, client, sweep>>

RewriteArticle(s) ==
  /\ article[s] # None
  /\ \E a \in Rewrites(s) \ {article[s]} : article' = [article EXCEPT ![s] = a]
  /\ Meanwhile
  /\ UNCHANGED files

(* A design file rewritten by hand; a signal left in a directory.          *)
RewriteDesign(f) ==
  /\ design[f] # None
  /\ \E d \in {[design[f] EXCEPT !.status = "active", !.links = l] : l \in {{}} \cup {{n} : n \in Name}} :
       d # design[f] /\ design' = [design EXCEPT ![f] = d]
  /\ Meanwhile
  /\ UNCHANGED <<source, dirs, aindex, signal, graph, setup, tracked, article>>

Leave(d) ==
  /\ d \in dirs
  /\ signal' = [signal EXCEPT ![d] = Fresh]
  /\ Meanwhile
  /\ UNCHANGED <<source, dirs, design, aindex, graph, setup, tracked, article>>

(* A source file is changed, removed or brought back, with its directory.  *)
ChangeSource(f, v) ==
  /\ v # source[f]
  /\ source' = [source EXCEPT ![f] = v]
  /\ dirs' = IF v = 0 THEN dirs ELSE dirs \cup Above[DirOf[f]]
  /\ Meanwhile
  /\ UNCHANGED <<design, aindex, signal, graph, setup, tracked, article>>

RemoveDir(d) ==
  /\ d \in dirs
  /\ dirs' = {e \in dirs : d \notin Above[e]}
  /\ source' = [f \in File |-> IF d \in Above[DirOf[f]] THEN 0 ELSE source[f]]
  /\ Meanwhile
  /\ UNCHANGED <<design, aindex, signal, graph, setup, tracked, article>>

(* An article that was removed is brought back, as from version control.   *)
BringBack(s) ==
  /\ article[s] = None
  /\ article' = [article EXCEPT ![s] = Blank(s, TRUE)]
  /\ Meanwhile
  /\ UNCHANGED files

DropArticle(s) ==
  /\ article[s] # None
  /\ article' = [article EXCEPT ![s] = None]
  /\ Meanwhile
  /\ UNCHANGED files

CommitAll ==
  /\ article' = Committed
  /\ design' = [f \in File |-> IF design[f] = None THEN None
                               ELSE [design[f] EXCEPT !.age = Older(@)]]
  /\ tracked' = {f \in File : source[f] # 0}
  /\ Meanwhile
  /\ UNCHANGED <<source, dirs, aindex, signal, graph, setup>>

-----------------------------------------------------------------------------
(* Any library whose files have their types.                               *)

DesignRecord ==
  [links : SUBSET (Name \cup Code), form : Form, wrong : SUBSET (Field \X How),
   lacks : SUBSET {"title", "sections", "footer", "fields"}, status : {"active", "unlinked", "deprecated"},
   hash : Nat, deps : SUBSET File, dependents : SUBSET File, whole : BOOLEAN,
   by : {"archivist", "agent", "bootstrap-quick", "maintainer", "curator", "skeleton-fallback"},
   age : (0..(Ttl + 1)) \cup {None}, notes : Nat, big : BOOLEAN]

IndexRecord == [files : SUBSET File, dirs : SUBSET Dir]
SignalRecord == [old : BOOLEAN, form : Form, wrong : SUBSET (Field \X How)]
GraphRecord ==
  [version : BOOLEAN, edges : SUBSET (File \X File), sources : SUBSET File,
   designs : SUBSET File, articles : SUBSET Slot]

(* What is not there is no file.                                           *)
ASSUME NothingAssumption ==
  None \notin Article /\ None \notin DesignRecord /\ None \notin IndexRecord
    /\ None \notin SignalRecord /\ None \notin GraphRecord

FilesTypeOK ==
  /\ source \in [File -> Nat] /\ dirs \subseteq Dir /\ tracked \subseteq File
  /\ design \in [File -> DesignRecord \cup {None}]
  /\ aindex \in [Dir -> IndexRecord \cup {None}]
  /\ signal \in [Dir \cup Shelf -> SignalRecord \cup {None}]
  /\ graph \in GraphRecord \cup {None}
  /\ setup \in [config : BOOLEAN, ignore : BOOLEAN]

ValidatorInit == LibraryTypeOK /\ FilesTypeOK /\ pass = None

ValidatorNext ==
  \/ \E mode \in {"tty", "pipe", "interactive"}, destroy \in BOOLEAN : Start(mode, destroy)
  \/ \E t \in Due(Checked(Safe) \cup Checked(Destructive)) : Fix(pass.order[t[1]], t[2])
  \/ \E t \in Due(Checked(Escalated)) :
       Escalate(pass.order[t[1]], t[2]) \/ Decide(pass.order[t[1]], t[2])
  \/ Finish \/ Quit
  \/ \E s \in Slot : RewriteArticle(s) \/ BringBack(s) \/ DropArticle(s)
  \/ \E f \in File : RewriteDesign(f) \/ \E v \in 0..2 : ChangeSource(f, v)
  \/ \E d \in Dir : RemoveDir(d) \/ Leave(d)
  \/ CommitAll

ValidatorSpec == ValidatorInit /\ [][ValidatorNext]_vars

-----------------------------------------------------------------------------
(* Properties.                                                             *)

(* The faults readers reject and no check asks about.                      *)
Unseen ==
  [concept |-> ({"title", "aliases", "tags", "superseded_by", "deprecated_at", "deprecated_reason",
                "last_verified", "keys"} \X {"type"})
                 \cup ({"aliases", "tags"} \X {"item"}),
   convention |-> ({"aliases", "deprecated_at", "deprecated_reason", "keys"} \X {"type"})
                    \cup ({"aliases", "tags"} \X {"item"}),
   playbook |-> ({"aliases", "tags", "triggers", "estimated_minutes", "last_verified", "deprecated_at",
                 "deprecated_reason", "superseded_by", "keys"} \X {"type"})
                  \cup ({"aliases", "tags", "triggers"} \X {"item"}),
   stack |-> ({"bead", "votes", "duplicate_of", "refs", "stale_at", "last_vote_at", "keys"} \X {"type"})
               \cup {<<"tags", "item">>, <<"created", "value">>},
   design |-> ({"deprecated_reason"} \X {"type", "value"}) \cup {<<"deprecated_at", "value">>},
   signal |-> {"body", "keys"} \X {"type"}]

(* All that is wrong with a file is what no check asks about.              *)
Overlooked(a, fatal, kind) ==
  a.form = "whole" /\ a.wrong \cap fatal \subseteq Unseen[kind]

(* Whatever a reader silently drops is reported by a check: an article     *)
(* that vanishes from every index, search and lookup is not missed         *)
(* otherwise.  The exceptions are those of the code: faults in Unseen, a   *)
(* footer with fields that do not parse, posts outside of stack/posts, a   *)
(* signal without a fence, and whatever is wrong with any file of a kind   *)
(* whose check has failed on one of them.                                  *)
DroppedIsReported ==
  /\ \A s \in Slot :
       article[s] # None /\ ~Reads(s) =>
         \/ s \in ConceptFrontmatter \cup ConventionFrontmatter \cup PlaybookFrontmatter
                    \cup StackFrontmatter
         \/ Overlooked(article[s], Fatal[Kind[s]], Kind[s])
         \/ Kind[s] = "stack" /\ s \notin Nested
         \/ Failed(Kind[s])
  /\ \A f \in File :
       design[f] # None /\ ~ReadsDesign(f) =>
         \/ f \in DesignFrontmatter \cup DesignStructure
         \/ Overlooked(design[f], DesignFatal, "design")
               /\ {"title", "footer"} \cap design[f].lacks = {}
         \/ DesignsFailed
  /\ \A p \in DOMAIN signal :
       signal[p] # None /\ ~ReadsSignal(p) =>
         \/ p \in IwhFrontmatter
         \/ Overlooked(signal[p], SignalFatal, "signal")
         \/ signal[p].form = "unfenced"
         \/ SignalsFailed

(* The report names x for check c, and somebody has changed things since.   *)
Outrun(c, x) ==
  ~pass.alone /\ \E t \in pass.todo : pass.order[t[1]] = c /\ t[2] = x

(* A fixing deletes nothing that lives: a design file only past its time,  *)
(* an index file only when its directory is gone, a signal only when it is *)
(* old or its directory is gone, an article never.  The exceptions are     *)
(* what three fixers do not look for again: the directory of an index file *)
(* or signal, and an article or a design file without a source that        *)
(* somebody brought back since the report.                                 *)
DeadOnly ==
  [][pass # None /\ acts' = acts =>
       /\ \A s \in Slot : article[s] # None /\ article'[s] = None =>
            Outrun("orphan_artifacts", <<"article", s>>)
       /\ \A f \in File : design[f] # None /\ design'[f] = None =>
            \/ design[f].status = "deprecated" /\ design[f].age > Ttl
            \/ source[f] = 0 /\ Outrun("orphan_artifacts", <<"design", f>>)
       /\ \A d \in Dir : aindex[d] # None /\ aindex'[d] = None =>
            d \notin dirs \/ Outrun("orphaned_aindex", d)
       /\ \A p \in DOMAIN signal : signal[p] # None /\ signal'[p] = None =>
            p \in Dir \ dirs \/ signal[p].old \/ Outrun("orphaned_iwh", p)]_vars

(* What a fixing reports as fixed is gone from the next report, when       *)
(* nobody interferes, except: links of a fresh design file (not touched),  *)
(* design files that are unlinked (still without a source), and            *)
(* dependencies that the link graph has not caught up with.                *)
FixedIsGone ==
  pass # None /\ pass.alone /\ pass.todo = {} =>
    LET report == Issues IN \A done \in pass.fixed :
      \/ done[2] \notin report[done[1]]
      \/ done[1] = "wikilink_resolution"
      \/ done[1] = "orphaned_designs" /\ done[2] \in tracked
      \/ done[1] = "bidirectional_deps"
           /\ {<<done[2], g>> : g \in design[done[2]].deps} # {e \in graph.edges : e[1] = done[2]}
=============================================================================
