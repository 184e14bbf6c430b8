------------------------------- MODULE Checks -------------------------------
(* The checks of lexi validate: what each of them reports, as the set of   *)
(* the design files, articles, directories or signals it names.  A check   *)
(* looks at the files and the link graph as they are; only the ones that   *)
(* ask the same question of several fields are put together from a table.  *)
EXTENDS Library

CONSTANTS
  Above,         \* Above[d]: the directories that hold d, d included
  Ignored,       \* source files the ignore rules leave out
  GapFiles,      \* files a directory needs to have a convention of its own
  CommentLimit   \* deprecation.comment_warning_threshold

VARIABLES
  aindex,        \* aindex[d]: the index file of a directory, or None
  signal,        \* signal[p]: the .iwh of a directory or shelf, or None
  graph,         \* the rows and import edges of the link graph, or None
  setup          \* whether config.yaml and .lexignore can be used

Shelf == {"concepts", "conventions", "playbooks", "stack"}

-----------------------------------------------------------------------------
(* Frontmatter.                                                            *)

Any(fields) == fields \X {"missing", "type", "value"}
Gone(fields) == fields \X {"missing"}

ConceptErrors == Gone({"title", "aliases", "tags", "status"})
                   \cup {<<"status", "value">>} \cup Any({"id"})
ConventionErrors ==
  Any({"title", "id"}) \cup ({"status", "source"} \X {"missing", "value"})
    \cup ({"scope", "tags", "priority"} \X {"missing", "type"})
PlaybookErrors ==
  Any({"title", "id"}) \cup ({"status", "source", "triggers"} \X {"value"})
PostErrors ==
  Any({"id", "title", "tags", "author"}) \cup ({"created"} \X {"missing", "type"})
    \cup {<<"status", "missing">>, <<"status", "value">>, <<"resolution", "value">>}

(* Mutant of DesignErrors: the status is not looked at.                    *)
DesignErrorsButStatus == Any({"description", "id"}) \cup ({"updated_by"} \X {"missing", "value"})

DesignErrors ==
  Any({"description", "id"}) \cup ({"updated_by"} \X {"missing", "value"})
    \cup {<<"status", "value">>}

IwhErrors == Any({"author", "created"}) \cup ({"scope"} \X {"missing", "value"})

(* The fields that are asked for being one of a set: a list or mapping is  *)
(* not hashable, and the question raises.                                  *)
Choices ==
  [concept |-> {"status"}, convention |-> {"status", "source"}, playbook |-> {"status", "source"},
   stack |-> {"status", "resolution"}, design |-> {"status", "updated_by"}, signal |-> {"scope"}]

(* A check looks out for no YAML only; what else it raises ends it, and    *)
(* validate_library goes on with the next one: nothing is reported of any  *)
(* file, and nothing says so.                                              *)
Raises(a, kind) ==
  /\ a # None
  /\ \/ a.form = "undated"
     \/ /\ a.form = "whole" \/ (kind = "signal" /\ a.form = "unfenced")
        /\ a.wrong \cap (Choices[kind] \X {"type"}) # {}
Undated(a) == a # None /\ a.form = "undated"

(* Posts are looked for in stack/posts, where no command puts them.        *)
Looked(kind) == IF kind = "stack" THEN Nested ELSE Files(kind)

Failed(kind) == \E s \in Looked(kind) : Raises(article[s], kind)
DesignsFailed == \E f \in File : Raises(design[f], "design")
SignalsFailed == \E p \in DOMAIN signal : Raises(signal[p], "signal")

Unless(failed, found) == IF failed THEN {} ELSE found

Faulty(a, errors) == a # None /\ (a.form # "whole" \/ a.wrong \cap errors # {})
FaultyOf(kind, errors) == Unless(Failed(kind), {s \in Looked(kind) : Faulty(article[s], errors)})

ConceptFrontmatter == FaultyOf("concept", ConceptErrors)
ConventionFrontmatter == FaultyOf("convention", ConventionErrors)
PlaybookFrontmatter == FaultyOf("playbook", PlaybookErrors)
StackFrontmatter == FaultyOf("stack", PostErrors)
DesignFrontmatter == Unless(DesignsFailed, {f \in File : Faulty(design[f], DesignErrors)})

(* A signal without a fence passes here, although parse_iwh rejects it.    *)
IwhFrontmatter ==
  Unless(SignalsFailed,
    {p \in DOMAIN signal :
       /\ signal[p] # None
       /\ \/ signal[p].form \in {"unreadable", "torn", "list"}
          \/ signal[p].wrong \cap IwhErrors # {}})

SignalFatal ==
  Any({"author", "scope"}) \cup ({"created"} \X {"missing", "type"})
    \cup ({"body", "keys"} \X {"type"})

ReadsSignal(p) ==
  signal[p] # None /\ signal[p].form = "whole" /\ signal[p].wrong \cap SignalFatal = {}

-----------------------------------------------------------------------------
(* Design files.                                                           *)

(* The readers of a part: the footer and its fields, the frontmatter.      *)
Metadata(f) ==
  design[f] # None /\ design[f].form # "unreadable" /\ {"footer", "fields"} \cap design[f].lacks = {}
Frontmatter(f) ==
  design[f] # None /\ design[f].form = "whole" /\ design[f].wrong \cap DesignFatal = {}

Read == {f \in File : ReadsDesign(f)}
Fenced(a) == a # None /\ a.form = "whole"

HashFreshness ==
  {f \in File : Metadata(f) /\ source[f] # 0 /\ design[f].hash # source[f]}
StaleAgentDesign ==
  {f \in HashFreshness : Frontmatter(f) /\ design[f].by \in {"agent", "maintainer"}}
TokenBudgets ==
  IF ~setup.config THEN {} ELSE {f \in File : design[f] # None /\ design[f].big}
LookupBudget == TokenBudgets
ForwardDependencies == {f \in Read : \E g \in design[f].deps : source[g] = 0}
DesignDepsExistence ==
  IF ~setup.config THEN {}
  ELSE {f \in Read : \E g \in (design[f].deps \cup design[f].dependents) \ Ignored : design[g] = None}
OrphanedDesigns == {f \in Read : design[f].status # "deprecated" /\ source[f] = 0}
CommentAccumulation == {f \in File : design[f] # None /\ design[f].notes > CommentLimit}
DeprecatedTtl ==
  {f \in File : Frontmatter(f) /\ design[f].status = "deprecated"
                  /\ design[f].age # None /\ design[f].age > Ttl}

(* For a footer it takes any comment that starts like one.                 *)
DesignStructure ==
  Unless(\E f \in File : Undated(design[f]),
    {f \in File : Fenced(design[f]) /\ design[f].lacks \ {"fields"} # {}})

(* The links of design files and of posts have to lead somewhere.          *)
WikilinkResolution ==
  {f \in Read : \E l \in design[f].links : Resolve(l) = 0}
    \cup {s \in Of("stack") : \E l \in article[s].links : Resolve(l) = 0}

DeadRefs(s) ==
  (\E f \in article[s].files : source[f] = 0) \/ (\E f \in article[s].designs : design[f] = None)
FileExistence == {f \in Read : source[f] = 0} \cup {s \in Of("stack") : DeadRefs(s)}

-----------------------------------------------------------------------------
(* Concepts.                                                               *)

(* The checks go by title, and look the concept up with the loose find.    *)
Met == {First(Find(article[s].name)) : s \in Concepts}

(* Whatever stands between double brackets in a design file, post or       *)
(* concept, readable as its kind or not.                                   *)
Mentions ==
  [designs |-> UNION {design[f].links : f \in {g \in File : design[g] # None /\ design[g].form # "unreadable"}},
   posts |-> UNION {article[s].links : s \in {t \in Slot : Kind[t] = "stack" /\ article[t] # None
                                                 /\ article[t].form # "unreadable"}},
   concepts |-> UNION {article[s].links : s \in {t \in Files("concept") : article[t].form # "unreadable"}}]

Titles(S) == {article[s].name : s \in S}

OrphanConcepts ==
  IF ~setup.config THEN {}
  ELSE Titles({s \in Met :
          /\ Names(s) \cap (Mentions.designs \cup Mentions.posts \cup Mentions.concepts) = {}
          /\ article[s].verified # "recent"})

DeprecatedUsage ==
  LET old == UNION {Names(s) : s \in {t \in Met : article[t].status = "deprecated"}}
  IN {f \in File : design[f] # None /\ design[f].form # "unreadable" /\ design[f].links \cap old # {}}
       \cup {s \in Slot : Kind[s] = "stack" /\ article[s] # None
                            /\ article[s].form # "unreadable" /\ article[s].links \cap old # {}}

StaleConcept ==
  Titles({s \in Met : article[s].status = "active" /\ \E f \in article[s].files : source[f] = 0})

Supersession ==
  {s \in Of("concept") :
     /\ article[s].status = "active"
     /\ \E t \in Of("concept") :
          article[t].status = "active" /\ article[t].name # article[s].name
            /\ Names(s) \cap Names(t) # {}}

DuplicateAliases ==
  {s \in Of("concept") :
     \/ article[s].name \in article[s].aliases
     \/ \E t \in Of("concept") \ {s} : Names(s) \cap Names(t) # {}}

ConceptBody ==
  Unless(\E s \in Files("concept") : Undated(article[s]),
    {s \in Files("concept") : Fenced(article[s]) /\ article[s].empty})

-----------------------------------------------------------------------------
(* Conventions and playbooks.                                              *)

Inside(d) == {f \in File : DirOf[f] = d /\ source[f] # 0}

ConventionOrphanedScope ==
  {s \in Of("convention") : article[s].status # "deprecated" /\ ~(article[s].scope \subseteq dirs)}

ConventionStale ==
  {s \in Of("convention") :
     /\ article[s].status = "active"
     /\ article[s].scope # {} /\ article[s].scope \subseteq dirs
     /\ \A d \in article[s].scope : Inside(d) = {}}

ConventionGap ==
  {d \in dirs :
     /\ Cardinality(Inside(d)) >= GapFiles
     /\ \A s \in Of("convention") :
          article[s].status = "active" => article[s].scope # {} /\ article[s].scope \cap Above[d] = {}}

ConsistentViolation ==
  {s \in Of("convention") : article[s].status # "deprecated" /\ article[s].notes >= 3}

PlaybookWikilinks == {s \in Of("playbook") : \E l \in article[s].links : Resolve(l) = 0}

PlaybookStaleness ==
  {s \in Of("playbook") : article[s].status = "active" /\ article[s].verified # "recent"}

PlaybookDeprecatedTtl ==
  {s \in Of("playbook") :
     /\ article[s].status = "deprecated"
     /\ \/ article[s].age # None /\ article[s].age > Ttl
        \/ /\ article[s].successor # None
           /\ Titled(Of("playbook"), article[s].successor)
                \cup Aliased(Of("playbook"), article[s].successor) = {}}

-----------------------------------------------------------------------------
(* Posts, names and codes.                                                 *)

StackStaleness ==
  {s \in Of("stack") :
     \E f \in article[s].files : Metadata(f) /\ source[f] # 0 /\ design[f].hash # source[f]}
ResolvedStaleness ==
  {s \in Of("stack") :
     /\ article[s].status = "resolved"
     /\ article[s].age > Ttl \/ \E f \in article[s].files : source[f] = 0}
StackRefs == {s \in Of("stack") \cup {t \in Nested : Reads(t)} : DeadRefs(s)}
StackBody ==
  Unless(\E s \in Nested : Undated(article[s]), {s \in Nested : Fenced(article[s]) /\ article[s].empty})

DuplicateSlugs ==
  {s \in Slot \ Nested :
     /\ Kind[s] # "stack" /\ article[s] # None
     /\ \E t \in Files(Kind[s]) \ {s} : Loose[Slug[t]] = Loose[Slug[s]]}

(* Posts outside of stack/posts are not compared.                          *)
IdUniqueness ==
  LET scanned == {s \in Slot : s \in Nested \/ Kind[s] # "stack"}
      has == {s \in scanned : /\ Fenced(article[s])
                              /\ article[s].wrong \cap ({"id"} \X {"missing", "type"}) = {}}
  IN Unless((\E s \in scanned : Undated(article[s])) \/ \E f \in File : Undated(design[f]),
       {s \in has : \E t \in has \ {s} : Kind[t] = Kind[s] /\ article[t].id = article[s].id})

-----------------------------------------------------------------------------
(* Index files, signals, the link graph and the settings.                  *)

AindexCoverage == {d \in dirs : aindex[d] = None}
OrphanedAindex == {d \in Dir \ dirs : aindex[d] # None}
AindexEntries ==
  {d \in Dir : aindex[d] # None
     /\ ~(aindex[d].files \subseteq Inside(d) /\ aindex[d].dirs \subseteq dirs)}

(* Signals beside concepts, conventions and playbooks have no directory.   *)
OrphanedIwh == {d \in Dir \ dirs : signal[d] # None}
OrphanedSignals ==
  IF ~setup.config THEN {} ELSE {p \in DOMAIN signal : ReadsSignal(p) /\ signal[p].old}

Usable == graph # None /\ graph.version

BidirectionalDeps ==
  IF ~Usable THEN {}
  ELSE {f \in Read :
          \/ design[f].deps # {g \in File : <<f, g>> \in graph.edges}
          \/ design[f].whole /\ design[f].dependents # {g \in File : <<g, f>> \in graph.edges}}

Lost(rows) ==
  {<<"source", f>> : f \in {g \in rows.sources : source[g] = 0}}
    \cup {<<"design", f>> : f \in {g \in rows.designs : design[g] = None}}
    \cup {<<"article", s>> : s \in {t \in rows.articles : article[t] = None}}

OrphanArtifacts ==
  IF ~Usable THEN {} ELSE {r \in Lost(graph) : r[1] = "article" => Kind[r[2]] # "convention"}
DanglingLinks ==
  {r \in OrphanArtifacts : r[1] = "article" => Kind[r[2]] # "playbook"}

LinkgraphVersion == IF graph # None /\ ~graph.version THEN {"index.db"} ELSE {}
ConfigValid == IF setup.config THEN {} ELSE {"config.yaml"}
LexignoreSyntax == IF setup.ignore THEN {} ELSE {".lexignore"}

-----------------------------------------------------------------------------
(* validate_library: the findings of every check, by check.                *)
Issues ==
  [wikilink_resolution |-> WikilinkResolution,
   file_existence |-> FileExistence,
   concept_frontmatter |-> ConceptFrontmatter,
   hash_freshness |-> HashFreshness,
   stale_agent_design |-> StaleAgentDesign,
   token_budgets |-> TokenBudgets,
   orphan_concepts |-> OrphanConcepts,
   deprecated_concept_usage |-> DeprecatedUsage,
   orphaned_designs |-> OrphanedDesigns,
   forward_dependencies |-> ForwardDependencies,
   stack_staleness |-> StackStaleness,
   resolved_post_staleness |-> ResolvedStaleness,
   aindex_coverage |-> AindexCoverage,
   bidirectional_deps |-> BidirectionalDeps,
   dangling_links |-> DanglingLinks,
   orphan_artifacts |-> OrphanArtifacts,
   orphaned_aindex |-> OrphanedAindex,
   orphaned_iwh |-> OrphanedIwh,
   comment_accumulation |-> CommentAccumulation,
   deprecated_ttl |-> DeprecatedTtl,
   stale_concept |-> StaleConcept,
   supersession_candidate |-> Supersession,
   convention_orphaned_scope |-> ConventionOrphanedScope,
   convention_stale |-> ConventionStale,
   convention_gap |-> ConventionGap,
   convention_consistent_violation |-> ConsistentViolation,
   lookup_token_budget_exceeded |-> LookupBudget,
   orphaned_iwh_signals |-> OrphanedSignals,
   convention_frontmatter |-> ConventionFrontmatter,
   design_frontmatter |-> DesignFrontmatter,
   stack_frontmatter |-> StackFrontmatter,
   iwh_frontmatter |-> IwhFrontmatter,
   config_valid |-> ConfigValid,
   lexignore_syntax |-> LexignoreSyntax,
   linkgraph_version |-> LinkgraphVersion,
   duplicate_aliases |-> DuplicateAliases,
   duplicate_slugs |-> DuplicateSlugs,
   artifact_id_uniqueness |-> IdUniqueness,
   stack_refs_validity |-> StackRefs,
   design_deps_existence |-> DesignDepsExistence,
   aindex_entries |-> AindexEntries,
   design_structure |-> DesignStructure,
   stack_body_sections |-> StackBody,
   concept_body |-> ConceptBody,
   playbook_frontmatter |-> PlaybookFrontmatter,
   playbook_wikilinks |-> PlaybookWikilinks,
   playbook_staleness |-> PlaybookStaleness,
   playbook_deprecated_ttl |-> PlaybookDeprecatedTtl]
=============================================================================
