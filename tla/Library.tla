------------------------------ MODULE Library ------------------------------
(* The articles of the library (concepts, conventions, playbooks, Stack    *)
(* posts), how a wikilink finds one, how they are created, changed and     *)
(* retired, and who deletes them: the update run, once a number of commits *)
(* has passed since the deprecation, and the curator, by what the link     *)
(* graph says of inbound links.                                            *)
(*                                                                         *)
(* A slot is a file name: a kind, a number and the slug of a title, in the *)
(* order of the names.  The text of an article is the set of links in it;  *)
(* a name is a title or an alias.  What is wrong with its frontmatter is a *)
(* set of pairs <<field, how>>.                                            *)
EXTENDS Naturals, FiniteSets

CONSTANTS
  Slot,          \* file names of articles, numbered in their order
  Kind,          \* Kind[s]: "concept", "convention", "playbook" or "stack"
  Number,        \* Number[s]: the number of the artifact code in the name
  Slug,          \* Slug[s]: the title the name was made from
  Nested,        \* names of posts put by hand into stack/posts
  File,          \* source files
  Dir,           \* source directories
  DirOf,         \* DirOf[f]: the directory of a source file
  Name,          \* titles and aliases
  Loose,         \* Loose[n]: the name with hyphens, underscores, blanks dropped
  Near,          \* Near[n]: the name difflib finds closest to n
  Code,          \* artifact codes, <<kind, number>>
  MaxCode,       \* bound: the largest number of a code
  Client,        \* commands that may run at the same time
  Successors,    \* titles that are given as what replaces a deprecated article
  Ttl,           \* deprecation.ttl_commits
  CuratorTtl,    \* curator.deprecation.ttl_commits
  Acts,          \* bound: commands and edits of people
  Commits,       \* bound: commits counted of one file
  None

ASSUME SlotAssumption == Slot \subseteq Nat \ {0} /\ IsFiniteSet(Slot)
ASSUME KindAssumption ==
  /\ Kind \in [Slot -> {"concept", "convention", "playbook", "stack"}]
  /\ Nested \subseteq {s \in Slot : Kind[s] = "stack"}
ASSUME NameAssumption ==
  Slug \in [Slot -> Name] /\ Successors \subseteq Name /\ None \notin Nat
ASSUME BoundAssumption == Acts \in Nat /\ Commits \in Nat
ASSUME LinkAssumption == Name \cap Code = {} /\ \A S \in SUBSET Slot : S # None
ASSUME NumberAssumption == MaxCode \in Nat /\ Number \in [Slot -> 1..MaxCode]
ASSUME TtlAssumption == Ttl \in Nat /\ CuratorTtl \in Nat

VARIABLES
  source,        \* source[f]: the version of a source file, 0 when it is gone
  dirs,          \* the source directories that exist
  article,       \* article[s]: what the file named s holds, or None
  design,        \* design[f]: the design file of a source file, or None
  index,         \* the articles the link graph has a link to, None without one
  client,        \* client[c]: the file a command is about to write, or None
  sweep,         \* what the curator collected and has yet to do, or None
  acts           \* commands and edits of people so far

articles == <<article, client, sweep, acts>>
libraryVars == <<source, dirs, design, index, articles>>

-----------------------------------------------------------------------------
(* Frontmatter and what its readers make of it.                            *)

(* Of the forms, a torn frontmatter is no YAML, a list is no mapping, and  *)
(* an undated one has a date of the calendar that does not exist, which    *)
(* the YAML reader answers with another exception than for no YAML.        *)
Form == {"whole", "unreadable", "unfenced", "torn", "undated", "list"}

(* A field is not there, has the wrong type, has an element of the wrong   *)
(* type, or no valid value.  Where the value is one of a few, the wrong    *)
(* type is a list or mapping.  "keys" stands for a key that is no text.    *)
How == {"missing", "type", "item", "value"}
Field == {"title", "id", "aliases", "tags", "status", "source", "scope", "priority",
          "triggers", "estimated_minutes", "last_verified", "deprecated_at",
          "deprecated_reason", "superseded_by", "created", "author", "resolution", "votes",
          "bead", "duplicate_of", "refs", "stale_at", "last_vote_at", "description",
          "updated_by", "body", "keys"}

(* The faults a kind's model does not survive: the reader returns None.    *)
ConceptFatal ==
  ({"title", "id"} \X {"missing", "type"})
    \cup ({"aliases", "tags"} \X {"type", "item"})
    \cup ({"status"} \X {"type", "value"})
    \cup ({"superseded_by", "deprecated_at", "deprecated_reason", "last_verified", "keys"} \X {"type"})
ConventionFatal ==
  ({"title", "id"} \X {"missing", "type"})
    \cup ({"tags", "aliases"} \X {"type", "item"})
    \cup ({"status", "source"} \X {"type", "value"})
    \cup ({"scope", "priority", "deprecated_at", "deprecated_reason", "keys"} \X {"type"})
PlaybookFatal ==
  ({"title", "id"} \X {"missing", "type"})
    \cup ({"triggers", "tags", "aliases"} \X {"type", "item"})
    \cup ({"status", "source"} \X {"type", "value"})
    \cup ({"estimated_minutes", "last_verified", "deprecated_at", "deprecated_reason",
           "superseded_by", "keys"} \X {"type"})

(* The value of "created" that is none is a time of the day.               *)
PostFatal ==
  ({"id", "title", "tags", "created", "author"} \X {"missing", "type"})
    \cup {<<"tags", "item">>, <<"tags", "value">>, <<"created", "value">>}
    \cup ({"status", "resolution"} \X {"type", "value"})
    \cup ({"bead", "votes", "duplicate_of", "refs", "stale_at", "last_vote_at", "keys"} \X {"type"})

Fatal == [k \in {"concept", "convention", "playbook", "stack"} |->
            CASE k = "concept" -> ConceptFatal
              [] k = "convention" -> ConventionFatal
              [] k = "playbook" -> PlaybookFatal
              [] k = "stack" -> PostFatal]

(* parse_concept_file and its siblings: a file that cannot be read as its  *)
(* model is None, and so is not there for anybody but the validator.       *)
Reads(s) ==
  /\ article[s] # None
  /\ article[s].form = "whole"
  /\ article[s].wrong \cap Fatal[Kind[s]] = {}

Of(k) == {s \in Slot \ Nested : Kind[s] = k /\ Reads(s)}
Files(k) == {s \in Slot \ Nested : Kind[s] = k /\ article[s] # None}

First(S) == CHOOSE s \in S : \A t \in S : s <= t

(* ConceptIndex.load keeps one concept per title: the last one.            *)
Concepts == {s \in Of("concept") :
               \A t \in Of("concept") : t > s => article[t].name # article[s].name}

(* A date that is neither text nor time counts for none; text is parsed.   *)
DesignFatal ==
  ({"description", "id"} \X {"missing", "type"})
    \cup ({"updated_by", "status", "deprecated_reason"} \X {"type", "value"})
    \cup {<<"deprecated_at", "value">>}

ReadsDesign(f) ==
  /\ design[f] # None
  /\ design[f].form = "whole"
  /\ design[f].wrong \cap DesignFatal = {}
  /\ {"title", "footer", "fields"} \cap design[f].lacks = {}

-----------------------------------------------------------------------------
(* Wikilinks.                                                              *)

Titled(S, n) == {s \in S : article[s].name = n}
Aliased(S, n) == {s \in S : n \in article[s].aliases}

(* ConceptIndex.find: hyphens, underscores and blanks do not count.        *)
Find(n) == {s \in Concepts : \E m \in {article[s].name} \cup article[s].aliases :
                               Loose[m] = Loose[n]}

(* _resolve_by_id: a concept by its frontmatter, a convention, playbook or *)
(* post by its file name alone; the validator's resolver has no designs.   *)
ByCode(c) ==
  CASE c[1] = "concept" -> {s \in Concepts : article[s].id = c[2]}
    [] c[1] = "design" -> {}
    [] OTHER -> {s \in Files(c[1]) : Number[s] = c[2]}

AllNames ==
  UNION {{article[s].name} \cup article[s].aliases :
           s \in Concepts \cup Of("convention") \cup Of("playbook")}

(* The name get_close_matches puts first: itself when it is known, which   *)
(* for the alias of a playbook it is.                                      *)
Closest(n) ==
  IF n \in AllNames THEN {n}
  ELSE {Near[n]} \cap AllNames

Fuzzy(n) ==
  LET best == Closest(n)
      concept == UNION {Find(m) : m \in best}
      playbook == UNION {Titled(Of("playbook"), m) : m \in best}
  IN IF concept # {} THEN concept ELSE playbook

(* The steps of WikilinkResolver.resolve, the first that finds decides.    *)
Steps(n) ==
  <<Titled(Of("convention"), n), Aliased(Of("convention"), n),
    Titled(Concepts, n), Aliased(Concepts, n),
    Titled(Of("playbook"), n), Fuzzy(n)>>

(* The slot a link leads to; 0 is an UnresolvedLink.                       *)
Resolve(l) ==
  LET found == IF l \in Code THEN <<ByCode(l)>> ELSE Steps(l)
      hits == {i \in DOMAIN found : found[i] # {}}
  IN IF hits = {} THEN 0 ELSE First(found[First(hits)])

(* The link graph's own resolution (_resolve_wikilink_target): no codes,   *)
(* the loose match for concepts, and aliases of playbooks.                 *)
Target(l) ==
  LET steps == <<Titled(Of("convention"), l), Aliased(Of("convention"), l), Find(l),
                 Titled(Of("playbook"), l) \cup Aliased(Of("playbook"), l)>>
      hits == {i \in DOMAIN steps : steps[i] # {}}
  IN IF l \in Code \/ hits = {} THEN {} ELSE {First(steps[First(hits)])}

(* _resolve_concept_ref, for the concepts a post names.                    *)
ConceptRef(l) ==
  LET hits == IF l \in Code THEN ByCode(l) ELSE Find(l)
  IN IF hits = {} \/ (l \in Code /\ l[1] # "concept") THEN {} ELSE {First(hits)}

(* The articles with an inbound link: those of designs, concepts and       *)
(* conventions and the references of posts; a playbook's links are not     *)
(* recorded.                                                               *)
DesignLinks == UNION {design[f].links : f \in {g \in File : ReadsDesign(g)}}
ConceptLinks == UNION {article[s].links : s \in Concepts}
ConventionLinks == UNION {article[s].links : s \in Of("convention")}
PostLinks == UNION {article[s].links : s \in Of("stack")}

Linked ==
  UNION ({Target(l) : l \in DesignLinks \cup ConceptLinks \cup ConventionLinks}
           \cup {ConceptRef(l) : l \in PostLinks})

-----------------------------------------------------------------------------
(* New articles.  The number is the largest in the directory's file names  *)
(* plus one, and the file is written after that.                           *)

(* Mutant of NextCode: the number of files instead of the largest code.    *)
CountCode(k) == 1 + Cardinality(Files(k))

NextCode(k) ==
  LET used == {Number[s] : s \in Files(k)} \cup {0}
  IN 1 + (CHOOSE n \in used : \A m \in used : m <= n)

(* find_title_matches reads the title line of whatever has a fence, be it  *)
(* valid or not.                                                           *)
TitleTaken(k, n) ==
  \E s \in Files(k) :
    /\ article[s].form \notin {"unreadable", "unfenced"}
    /\ <<"title", "missing">> \notin article[s].wrong
    /\ article[s].name = n

(* ... and the slug of a convention or playbook is not to be there yet.    *)
SlugTaken(s) == \E t \in Files(Kind[s]) : Loose[Slug[t]] = Loose[Slug[s]]

Blank(s, alone) ==
  [name |-> Slug[s], aliases |-> {}, id |-> Number[s], links |-> {}, files |-> {},
   designs |-> {}, scope |-> {}, verified |-> "never", successor |-> None,
   age |-> IF Kind[s] = "stack" THEN 0 ELSE None, past |-> 0, dirty |-> TRUE, notes |-> 0, empty |-> FALSE,
   form |-> "whole", wrong |-> {}, alone |-> alone,
   status |-> CASE Kind[s] = "stack" -> "open"
                [] Kind[s] = "concept" -> "active"
                [] OTHER -> "draft"]

Acted == acts < Acts /\ acts' = acts + 1

(* Up to the choice of the file name, which the command keeps in mind.     *)
Claim(c, s) ==
  /\ client[c] = None
  /\ s \notin Nested
  /\ Number[s] = NextCode(Kind[s])
  /\ LET rivals == {d \in Client : client[d] # None /\ Kind[client[d].slot] = Kind[s]}
     IN client' = [d \in Client |->
          IF d = c THEN [slot |-> s, alone |-> rivals = {}]
          ELSE IF d \in rivals THEN [client[d] EXCEPT !.alone = FALSE] ELSE client[d]]
  /\ UNCHANGED <<source, dirs, article, design, index, sweep>>
  /\ Acted

NewConcept(c, s) ==
  /\ Kind[s] = "concept" /\ ~TitleTaken("concept", Slug[s])
  /\ Claim(c, s)

(* By an agent: the command of a person would write it as active at once.  *)
NewConvention(c, s) ==
  /\ Kind[s] = "convention" /\ ~TitleTaken("convention", Slug[s]) /\ ~SlugTaken(s)
  /\ Claim(c, s)

NewPlaybook(c, s) ==
  /\ Kind[s] = "playbook" /\ ~TitleTaken("playbook", Slug[s]) /\ ~SlugTaken(s)
  /\ Claim(c, s)

(* Posts may share a title.                                                *)
NewPost(c, s) == Kind[s] = "stack" /\ Claim(c, s)

(* ... and the file; one of the same name is replaced.                     *)
Write(c) ==
  /\ client[c] # None
  /\ article' = [article EXCEPT ![client[c].slot] = Blank(client[c].slot, client[c].alone)]
  /\ client' = [client EXCEPT ![c] = None]
  /\ UNCHANGED <<source, dirs, design, index, sweep, acts>>

-----------------------------------------------------------------------------
(* Changes of one article.  Each reads the file, changes the model and     *)
(* writes it all back: values the model took over stay, the rest of what   *)
(* was wrong is replaced by the defaults.                                  *)

Save(s, a) ==
  article' = [article EXCEPT ![s] =
                [a EXCEPT !.dirty = TRUE, !.wrong = @ \cap (Field \X {"value"})]]

Change(s, kind, a) ==
  /\ s \notin Nested /\ Kind[s] = kind
  /\ Reads(s)
  /\ Save(s, a)
  /\ Acted
  /\ UNCHANGED <<source, dirs, design, index, client, sweep>>

Is(s, statuses) == article[s] # None /\ article[s].status \in statuses

ApproveConvention(s) ==
  Is(s, {"draft"}) /\ Change(s, "convention", [article[s] EXCEPT !.status = "active"])
ApprovePlaybook(s) ==
  Is(s, {"draft"}) /\ Change(s, "playbook", [article[s] EXCEPT !.status = "active"])

(* What the three deprecations of articles have in common.                 *)
Deprecated(a) == [a EXCEPT !.status = "deprecated", !.age = 0]
Superseded(a, by) == IF by = None THEN Deprecated(a) ELSE [Deprecated(a) EXCEPT !.successor = by]

DeprecateConcept(s, by) ==
  article[s] # None /\ ~Is(s, {"deprecated"}) /\ Change(s, "concept", Superseded(article[s], by))
DeprecateConvention(s) ==
  article[s] # None /\ ~Is(s, {"deprecated"}) /\ Change(s, "convention", Deprecated(article[s]))
DeprecatePlaybook(s, by) ==
  article[s] # None /\ ~Is(s, {"deprecated"}) /\ Change(s, "playbook", Superseded(article[s], by))

(* refresh_playbook_staleness, and refresh_orphan_concept for concepts.    *)
Verified(a) == [a EXCEPT !.verified = "recent"]
Verify(s) == article[s] # None /\ Change(s, "playbook", Verified(article[s]))

(* A post and its findings, of which notes is the number.                  *)
Settled(s, status) == Change(s, "stack", [article[s] EXCEPT !.status = status])

AddFinding(s) ==
  /\ article[s] # None /\ article[s].notes < 3
  /\ Change(s, "stack", [article[s] EXCEPT !.notes = @ + 1])
AcceptFinding(s) == article[s] # None /\ article[s].notes > 0 /\ Settled(s, "resolved")
MarkDuplicate(s) == article[s] # None /\ Settled(s, "duplicate")
MarkOutdated(s) == article[s] # None /\ Settled(s, "outdated")
MarkStale(s) == Is(s, {"resolved"}) /\ Settled(s, "stale")
MarkUnstale(s) == Is(s, {"stale"}) /\ Settled(s, "resolved")

(* A comment goes to a file of its own beside the article, which need not  *)
(* be readable.                                                            *)
Comment(s) ==
  /\ Kind[s] # "stack" /\ article[s] # None
  /\ article[s].notes < 3
  /\ article' = [article EXCEPT ![s].notes = @ + 1]
  /\ Acted
  /\ UNCHANGED <<source, dirs, design, index, client, sweep>>

(* lexi concept link: the title goes to the links of a design file that    *)
(* can be read and does not have it.                                       *)
Link(s, f) ==
  /\ Kind[s] = "concept"
  /\ Reads(s)
  /\ source[f] # 0
  /\ ReadsDesign(f)
  /\ article[s].name \notin design[f].links
  /\ design' = [design EXCEPT ![f].links = @ \cup {article[s].name}]
  /\ Acted
  /\ UNCHANGED <<source, dirs, article, index, client, sweep>>

-----------------------------------------------------------------------------
(* The project goes on.                                                    *)

(* An article rewritten by hand: renamed, linked, unlinked, restored.      *)
Rewrites(s) ==
  {[article[s] EXCEPT !.name = n] : n \in Name}
    \cup {[article[s] EXCEPT !.aliases = {n}] : n \in Name}
    \cup {[article[s] EXCEPT !.links = l] : l \in {{}} \cup {{n} : n \in Name \cup Code}}
    \cup {[article[s] EXCEPT !.status = t] : t \in {"active"}}

Edit(s) ==
  /\ article[s] # None
  /\ \E a \in Rewrites(s) \ {article[s]} :
       article' = [article EXCEPT ![s] = [a EXCEPT !.dirty = TRUE]]
  /\ Acted
  /\ UNCHANGED <<source, dirs, design, index, client, sweep>>

(* Mutant of Older: the age is not held at the bound.                      *)
Ageing(age) == IF age = None THEN age ELSE age + 1

Older(age) == IF age = None \/ age = Ttl + 1 THEN age ELSE age + 1

(* A commit ages what is deprecated and counts for the files it touches.   *)
Committed ==
  [s \in Slot |->
     IF article[s] = None THEN None
     ELSE [article[s] EXCEPT
             !.age = Older(@), !.dirty = FALSE,
             !.past = IF article[s].dirty /\ @ < Commits THEN @ + 1 ELSE @]]

Commit ==
  /\ article' = Committed
  /\ UNCHANGED <<source, dirs, design, index, client, sweep, acts>>

Build ==
  /\ index' = Linked
  /\ UNCHANGED <<source, dirs, design, articles>>

Unbuild ==
  /\ index # None
  /\ index' = None
  /\ UNCHANGED <<source, dirs, design, articles>>

-----------------------------------------------------------------------------
(* Deletion by the update run.                                             *)

Names(s) == {article[s].name} \cup article[s].aliases

(* Mutant of References: design files alone.                               *)
DesignReferences(s) ==
  {design[f].links : f \in {g \in File :
       ReadsDesign(g) /\ design[g].status = "active" /\ design[g].links \cap Names(s) # {}}}

(* find_concept_references: links by title or alias, in design files that  *)
(* are neither deprecated nor unlinked and in active concepts of another   *)
(* title.                                                                  *)
References(s) ==
  {design[f].links : f \in {g \in File :
       /\ ReadsDesign(g)
       /\ design[g].status = "active"
       /\ design[g].links \cap Names(s) # {}}}
    \cup {article[t].links : t \in {u \in Of("concept") :
       /\ article[u].status = "active"
       /\ article[u].name # article[s].name
       /\ article[u].links \cap Names(s) # {}}}

Expired(s) ==
  /\ article[s].status = "deprecated"
  /\ article[s].age # None /\ article[s].age > Ttl

ExpiredConcepts == {s \in Of("concept") : Expired(s) /\ References(s) = {}}
ExpiredConventions == {s \in Of("convention") : Expired(s)}

(* The update run deletes the concepts, then the conventions.              *)
Expire ==
  LET gone == ExpiredConcepts \cup ExpiredConventions
  IN /\ gone # {}
     /\ article' = [s \in Slot |-> IF s \in gone THEN None ELSE article[s]]
     /\ UNCHANGED <<source, dirs, design, index, client, sweep, acts>>

-----------------------------------------------------------------------------
(* The curator: what is collected first is done one by one later.          *)

Shelved == {s \in Slot \ Nested : Kind[s] # "stack" /\ Reads(s)}

(* _collect_orphan_artifacts: nothing without a link graph.                *)
Orphans ==
  IF index = None THEN {}
  ELSE {s \in Shelved : article[s].status = "active" /\ s \notin index}

(* _collect_ttl_expired_artifacts: all commits of the file count, those    *)
(* from before the deprecation too; without a link graph nothing links.    *)
Retired ==
  {s \in Shelved :
     /\ article[s].status = "deprecated"
     /\ article[s].past >= CuratorTtl
     /\ index = None \/ s \notin index}

(* _collect_stale_resolved_stack_posts.                                    *)
Outdated ==
  {s \in Of("stack") : article[s].status = "resolved" /\ \E f \in article[s].files : source[f] = 0}

Collect ==
  /\ sweep = None
  /\ sweep' = [known |-> index,
               todo |-> (Orphans \X {"deprecate"}) \cup (Retired \X {"delete"})
                          \cup (Outdated \X {"stale"})]
  /\ sweep'.todo # {}
  /\ UNCHANGED <<source, dirs, article, design, index, client, acts>>

(* Items are taken in order; Item is the next one's turn.                  *)
Item(s, what) ==
  /\ sweep # None /\ <<s, what>> \in sweep.todo
  /\ \A other \in sweep.todo : s <= other[1]

Done(s, what) == sweep' = [sweep EXCEPT !.todo = @ \ {<<s, what>>}]

(* dispatch_soft_deprecation: the status is checked again, the links not.  *)
Retire(s) ==
  /\ Item(s, "deprecate")
  /\ IF Reads(s) /\ article[s].status = "active"
     THEN Save(s, Deprecated(article[s]))
     ELSE UNCHANGED article
  /\ Done(s, "deprecate")
  /\ UNCHANGED <<source, dirs, design, index, client, acts>>

(* Mutant of Remove: the links of when it was collected.                   *)
RemoveUnchecked(s) ==
  /\ Item(s, "delete")
  /\ article' = [article EXCEPT ![s] = None]
  /\ Done(s, "delete")
  /\ UNCHANGED <<source, dirs, design, index, client, acts>>

(* execute_hard_delete: the links are checked again, the status is not.    *)
Remove(s) ==
  /\ Item(s, "delete")
  /\ IF index = None \/ s \notin index
     THEN article' = [article EXCEPT ![s] = None]
     ELSE UNCHANGED article
  /\ Done(s, "delete")
  /\ UNCHANGED <<source, dirs, design, index, client, acts>>

(* dispatch_stack_transition: the status of a post is never read, so it    *)
(* fails whatever the post says.                                           *)
Stale(s) ==
  /\ Item(s, "stale")
  /\ Done(s, "stale")
  /\ UNCHANGED <<source, dirs, article, design, index, client, acts>>

(* What the autonomy, the budget or a failure left is collected anew.      *)
EndSweep ==
  /\ sweep # None
  /\ sweep' = None
  /\ UNCHANGED <<source, dirs, article, design, index, client, acts>>

-----------------------------------------------------------------------------
Statuses == {"draft", "active", "deprecated", "open", "resolved", "duplicate",
             "outdated", "stale"}

Article ==
  [name : Name, aliases : SUBSET Name, id : 1..MaxCode, links : SUBSET (Name \cup Code),
   files : SUBSET File, designs : SUBSET File, scope : SUBSET Dir,
   verified : {"never", "recent", "old"}, successor : Name \cup {None},
   age : (0..(Ttl + 1)) \cup {None}, past : 0..Commits, dirty : BOOLEAN, notes : 0..3,
   empty : BOOLEAN, form : Form, wrong : SUBSET (Field \X How), alone : BOOLEAN,
   status : Statuses]

DesignPage ==
  [links : SUBSET (Name \cup Code), form : Form, wrong : SUBSET (Field \X How),
   lacks : SUBSET {"title", "footer", "fields"}, status : {"active", "deprecated", "unlinked"}]

(* Any library in which no code is borne twice.                            *)
LibraryInit ==
  /\ source \in [File -> Nat] /\ dirs \subseteq Dir
  /\ article \in [Slot -> Article \cup {None}]
  /\ \A s, t \in Slot \ Nested :
       s # t /\ Kind[s] = Kind[t] /\ Number[s] = Number[t]
         => article[s] = None \/ article[t] = None
  /\ design \in [File -> DesignPage \cup {None}]
  /\ index \in (SUBSET Slot) \cup {None}
  /\ client = [c \in Client |-> None]
  /\ sweep = None
  /\ acts = 0

LibraryNext ==
  \/ \E c \in Client :
       \/ Write(c)
       \/ \E s \in Slot : NewConcept(c, s) \/ NewConvention(c, s) \/ NewPlaybook(c, s) \/ NewPost(c, s)
  \/ \E s \in Slot :
       \/ ApproveConvention(s) \/ ApprovePlaybook(s)
       \/ DeprecateConvention(s)
       \/ \E by \in Successors \cup {None} : DeprecateConcept(s, by) \/ DeprecatePlaybook(s, by)
       \/ Verify(s) \/ Comment(s) \/ Edit(s)
       \/ AddFinding(s) \/ AcceptFinding(s) \/ MarkDuplicate(s) \/ MarkOutdated(s)
       \/ MarkStale(s) \/ MarkUnstale(s)
       \/ \E f \in File : Link(s, f)
       \/ Retire(s) \/ Remove(s) \/ Stale(s)
  \/ Commit \/ Build \/ Unbuild \/ Expire \/ Collect \/ EndSweep

LibrarySpec == LibraryInit /\ [][LibraryNext]_libraryVars

-----------------------------------------------------------------------------
(* Properties.                                                             *)

(* Articles, the commands that write them and what the curator has         *)
(* collected have their types; an age is never beyond the one that expires.*)
LibraryTypeOK ==
  /\ article \in [Slot -> Article \cup {None}]
  /\ index \in (SUBSET Slot) \cup {None}
  /\ client \in [Client -> [slot : Slot, alone : BOOLEAN] \cup {None}]
  /\ sweep \in [known : (SUBSET Slot) \cup {None},
                todo : SUBSET (Slot \X {"deprecate", "delete", "stale"})] \cup {None}
  /\ acts \in 0..Acts

(* Two articles of a kind carry the same code only when the commands that  *)
(* made them overlapped (next_artifact_id looks at the files, nothing      *)
(* reserves the number); deletions in between do not bring a code back     *)
(* beside its bearer.                                                      *)
CodesUnique ==
  \A s, t \in Slot \ Nested :
    s # t /\ Kind[s] = Kind[t] /\ Number[s] = Number[t]
      /\ article[s] # None /\ article[t] # None
    => ~(article[s].alone /\ article[t].alone)

Texts == DesignLinks \cup ConceptLinks \cup ConventionLinks

(* The links of active design files and of active concepts that do not     *)
(* have the title of s.                                                    *)
ActiveTexts(s) ==
  UNION ({design[f].links : f \in {g \in File : ReadsDesign(g) /\ design[g].status = "active"}}
    \cup {article[t].links : t \in {u \in Of("concept") :
             article[u].status = "active" /\ article[u].name # article[s].name}})

(* The link names what it leads to by a title or alias.                    *)
Exact(l) == Resolve(l) # 0 /\ l \in Names(Resolve(l))

(* The expiry of the update run leaves no link of an active design file or *)
(* concept without an end, when the link led to a concept and names it by  *)
(* its title or alias: find_concept_references and the resolver agree on   *)
(* those.  What a concept of the same title links to is not counted: such  *)
(* a link can be cut.                                                      *)
LinksSurviveExpiry ==
  [][Expire => \A s \in Of("concept") : \A l \in ActiveTexts(s) :
       Exact(l) /\ Resolve(l) = s => Resolve(l)' # 0]_libraryVars

(* With a link graph that is up to date the curator neither deprecates nor *)
(* deletes an article that a link of a design file, concept or convention  *)
(* leads to by its title or alias, unless another concept has a name that  *)
(* differs by hyphens and blanks only or another playbook has the name for *)
(* an alias: the link graph resolves links by rules of its own.            *)
CuratorKeepsLinked ==
  [][\A s \in Slot : article'[s] # article[s] =>
       \/ ~(Retire(s) /\ sweep.known = Linked) /\ ~(Remove(s) /\ index = Linked)
       \/ \A l \in Texts :
            Exact(l) /\ Find(l) \cup Aliased(Of("playbook"), l) \subseteq {s} => Resolve(l) # s
    ]_libraryVars
=============================================================================
