----------------------------- MODULE DesignFile -----------------------------
(***************************************************************************)
(* The design file as the archivist sees it: what its text is made of,     *)
(* what the metadata footer records, how the two are hashed, serialized    *)
(* and re-parsed, and how a change of the source is classified.            *)
(*                                                                         *)
(* A SHA-256 digest is represented by the text that was hashed (no two     *)
(* texts collide).  The text of a design file is abstracted to the parts   *)
(* that different code paths keep or drop:                                 *)
(*   origin, src  who produced the standard sections, from which version   *)
(*                of the source                                            *)
(*   text         the last hand edit made inside the standard sections     *)
(*   notes        the last hand edit made in a non-standard section        *)
(*                (## Insights, ## Notes, ...): "preserved sections"       *)
(*   prose        the last hand edit made outside every section the        *)
(*                parser keeps (a paragraph under the H1, free text        *)
(*                between bullets)                                         *)
(***************************************************************************)
EXTENDS Naturals

CONSTANTS
    MaxVersion,   \* bound: the source file goes through versions 0..MaxVersion
    MaxEdits,     \* bound: hand edits of the design file, numbered 1..MaxEdits
    Iface,        \* Iface[v]: the public interface of version v, or NoIface
    NoIface,      \* interface_hash is None: a file with no tree-sitter grammar
    NoDesign,     \* there is no design file
    NoFooter,     \* the design file has no metadata footer, or none that is
                  \* read: source_hash, design_hash, ... are all required
    NoHash        \* a design_hash that is absent (None)

Version == 0 .. MaxVersion
Edit == 0 .. MaxEdits        \* 0: never edited

ASSUME VersionAssumption == MaxVersion \in Nat /\ MaxEdits \in Nat

Interface == {Iface[v] : v \in Version} \cup {NoIface}

(***************************************************************************)
(* updated_by.  "maintainer" behaves as "agent" and "curator" as           *)
(* "archivist" everywhere in the update path, so one of each is kept.      *)
(* "foreign" is any value outside _VALID_UPDATED_BY, "none" a file without *)
(* readable frontmatter.                                                   *)
(***************************************************************************)
ValidUpdatedBy == {"archivist", "agent", "bootstrap-quick", "skeleton-fallback"}
UpdatedBy == ValidUpdatedBy \cup {"foreign", "none"}

Body == [origin : {"llm", "skeleton", "agent"},
         src    : Version,
         text   : Edit,
         notes  : Edit,
         prose  : Edit]

(* A hashed text: frontmatter and body, with or without the newline that   *)
(* ends the body.                                                          *)
Hashed == [body : Body, by : UpdatedBy, newline : BOOLEAN]

Footer == [src : Version, iface : Interface, stamp : Hashed]

Design == [body : Body, by : UpdatedBy, foot : Footer \cup {NoFooter}]

ASSUME SentinelAssumption ==
    NoDesign \notin Design /\ NoFooter \notin Footer /\ NoHash \notin Hashed

-----------------------------------------------------------------------------
(* serialize_design_file: the design_hash it records is that of the text   *)
(* up to and including the newline that ends the body.                     *)
Serialize(b, by, v, i) ==
    [body |-> b, by |-> by,
     foot |-> [src |-> v, iface |-> i,
               stamp |-> [body |-> b, by |-> by, newline |-> TRUE]]]

(* _compute_design_content_hash: the footer is cut off and every trailing  *)
(* newline with it.                                                        *)
ContentHash(d) == [body |-> d.body, by |-> d.by, newline |-> FALSE]

(* parse_design_file gives a DesignFile only for a file with valid         *)
(* frontmatter and a footer.                                               *)
Parses(d) == d.foot # NoFooter /\ d.by \in ValidUpdatedBy

(* What is left of a body that is parsed and serialized again.             *)
RoundTrip(b) == [b EXCEPT !.prose = 0]

(* The preserved sections a regeneration carries over from the file on     *)
(* disk (0 when there is no file, or it does not parse).                   *)
PreservedNotes(d) ==
    IF d # NoDesign THEN IF Parses(d) THEN d.body.notes ELSE 0 ELSE 0

(* Mutant of CheckChange: the design hash is compared before the source     *)
(* hash.                                                                   *)
DesignHashFirst(d, hash, iface) ==
    IF d = NoDesign THEN "NEW_FILE"
    ELSE IF d.foot = NoFooter THEN "AGENT_UPDATED"
    ELSE IF d.foot.stamp # ContentHash(d) THEN "AGENT_UPDATED"
    ELSE IF hash = d.foot.src THEN "UNCHANGED"
    ELSE IF iface = d.foot.iface THEN "CONTENT_ONLY"
    ELSE "INTERFACE_CHANGED"

(* check_change, as the chain of early returns it is.                      *)
CheckChange(d, hash, iface) ==
    IF d = NoDesign THEN "NEW_FILE"
    ELSE IF d.foot = NoFooter THEN "AGENT_UPDATED"
    ELSE IF hash = d.foot.src
         THEN IF d.by = "skeleton-fallback" THEN "SKELETON_ONLY" ELSE "UNCHANGED"
    ELSE IF d.foot.stamp # ContentHash(d) THEN "AGENT_UPDATED"
    ELSE IF iface = NoIface THEN "CONTENT_CHANGED"
    ELSE IF iface = d.foot.iface THEN "CONTENT_ONLY"
    ELSE "INTERFACE_CHANGED"

ChangeLevel == {"UNCHANGED", "AGENT_UPDATED", "CONTENT_ONLY", "CONTENT_CHANGED",
                "INTERFACE_CHANGED", "NEW_FILE", "SKELETON_ONLY"}

(* Mutant of RefreshFooterHashes: metadata.source_hash is not updated       *)
(* before the file is serialized again.                                    *)
RefreshDesignHashOnly(d, hash, iface) ==
    IF Parses(d)
    THEN Serialize(RoundTrip(d.body), d.by, d.foot.src, iface)
    ELSE [d EXCEPT !.foot = [src |-> hash, iface |-> iface,
                             stamp |-> ContentHash(d)]]

(* _refresh_footer_hashes: a file that parses is re-serialized whole; any  *)
(* other file keeps its text and gets a footer that hashes the stripped    *)
(* text.                                                                   *)
RefreshFooterHashes(d, hash, iface) ==
    IF Parses(d)
    THEN Serialize(RoundTrip(d.body), d.by, hash, iface)
    ELSE [d EXCEPT !.foot = [src |-> hash, iface |-> iface,
                             stamp |-> ContentHash(d)]]

(* generate_skeleton_design followed by serialize_design_file: a file made *)
(* from the source alone, with nothing carried over.                       *)
SkeletonDesign(v, by) ==
    Serialize([origin |-> "skeleton", src |-> v, text |-> 0, notes |-> 0,
               prose |-> 0],
              by, v, Iface[v])

(* The DesignFile update_file builds from the LLM's answer.                *)
LLMDesign(hash, read, notes) ==
    Serialize([origin |-> "llm", src |-> read, text |-> 0, notes |-> notes,
               prose |-> 0],
              "archivist", hash, Iface[hash])
=============================================================================
