------------------------------ MODULE VaultHealth ------------------------------
(***************************************************************************)
(* What a scan of the vault finds (agent/vault-health.ts), which findings  *)
(* can be repaired (agent/vault-health-runtime-service.ts), and what the   *)
(* planner recommends to do about them                                     *)
(* (agent/maintenance-recommendation-planner.ts).                          *)
(*                                                                         *)
(* A note is what its parser says of it.  A citation is named by the path  *)
(* of its source.  The lists of a note may hold what is no path of a vault *)
(* (a URL, a path that leaves it): the scan takes their strings as they    *)
(* are, and only the staging of a change looks at them.  Grouping, order   *)
(* and wording of the report are left out, and so are the planner's        *)
(* records about retrieval, which nothing can stage.                       *)
(***************************************************************************)
EXTENDS Integers, FiniteSets

CONSTANTS
    Paths,
    Outside,    \* strings that are no path of a vault
    Unlisted,   \* paths that end in .MD: scanned, but not listed for staging
    None

Absent == {"absent"}         \* a field that is not there
Malformed == {"malformed"}   \* a field that is no list of strings

Kinds == {"source", "summary", "concept", "other"}

Lists == (SUBSET (Paths \cup Outside)) \cup {Absent, Malformed}

Notes ==
    [parses : BOOLEAN, kind : Kinds, sources : Lists, citations : Lists,
     links : SUBSET Paths, deadLink : BOOLEAN, sparse : BOOLEAN]

ASSUME OutsideIsOutside == Outside \cap Paths = {} /\ Unlisted \subseteq Paths
ASSUME NoneIsNothing == None \notin Paths /\ None \notin Notes

Values(field) == IF field \in {Absent, Malformed} THEN {} ELSE field

(* The freshness of the lexical index: None before there is one. *)
Freshness ==
    [state : {"fresh", "missing", "partial", "stale"}, missing : SUBSET Paths,
     extra : SUBSET Paths, stale : SUBSET Paths]

-----------------------------------------------------------------------------
(* The scan.  notes is a function of the paths that were read.             *)

Severity(kind) ==
    CASE kind \in {"broken-wikilink", "missing-citation"} -> "error"
      [] kind \in {"orphan-note", "content-gap"} -> "warning"

Finding(kind, severity, p, sources) ==
    [kind |-> kind, severity |-> severity, path |-> p, sources |-> sources]

NeedsCitations(note) == note.kind = "summary"

HasIssues(note) ==
    \/ note.kind # "source" /\ note.sources = Malformed
    \/ NeedsCitations(note) /\ (note.sources = Absent \/ note.citations = Malformed)

Linked(notes, p) == \E q \in DOMAIN notes : p \in notes[q].links

IsOrphan(notes, p) ==
    /\ notes[p].kind # "source"
    /\ Values(notes[p].sources) \cap DOMAIN notes = {}
    /\ ~Linked(notes, p)

HasGap(note) == note.kind \in {"summary", "concept"} /\ note.sparse

LacksCitations(note) ==
    NeedsCitations(note) /\ Values(note.sources) # {} /\ Values(note.citations) = {}

StaleIndexFindings(index) ==
    IF index = None THEN {} ELSE IF index.state = "fresh" THEN {} ELSE
        {Finding("stale-index", "error", None, {}) : s \in {index.state} \cap {"missing"}}
        \cup {Finding("stale-index", "warning", p, {}) : p \in index.missing \cup index.stale}
        \cup {Finding("stale-index", "info", p, {}) : p \in index.extra}

FindingsOf(notes, p) ==
    LET found(kind, holds, sources) ==
            IF holds THEN {Finding(kind, Severity(kind), p, sources)} ELSE {}
    IN  found("broken-wikilink", notes[p].deadLink, {})
        \cup found("orphan-note", IsOrphan(notes, p), {})
        \cup found("missing-citation", LacksCitations(notes[p]), Values(notes[p].sources))
        \cup found("content-gap", HasGap(notes[p]), {})

ScanFails(notes) == \E p \in DOMAIN notes : ~notes[p].parses \/ HasIssues(notes[p])

Findings(notes, index) ==
    StaleIndexFindings(index) \cup UNION {FindingsOf(notes, p) : p \in DOMAIN notes}

-----------------------------------------------------------------------------
(* Repairs.  A staged change is active until it is decided.                *)

IsSafe(finding) ==
    finding.kind = "missing-citation" /\ finding.path # None /\ finding.sources # {}

ActiveStatuses == {"review-ready", "conflicted"}

ActiveFor(changes, p) == {c \in changes : c.status \in ActiveStatuses /\ c.path = p}

(* The text a repair makes: the sources of the finding become citations,   *)
(* in a note that has a block of frontmatter.                              *)
CanRepair(finding, note) == finding.sources # {} /\ note # None /\ note.kind # "other"

Repaired(finding, note) == [note EXCEPT !.citations = finding.sources]

(* What the list of notes for staging holds of a path. *)
Listed(p, note) == IF p \in Unlisted THEN None ELSE note

(* The staging service refuses sources that are no paths of a vault. *)
SourcesRefused(finding) == finding.sources \cap Outside # {}

(* What becomes of a request to stage a repair before its hash is made. *)
RepairVerdict(finding, findings, note, changes) ==
    CASE finding \notin findings -> "not-found"
      [] finding \in findings /\ ~IsSafe(finding) -> "report-only"
      [] finding \in findings /\ IsSafe(finding) ->
            IF ~CanRepair(finding, note) THEN "missing-evidence"
            ELSE IF ActiveFor(changes, finding.path) # {} THEN "active-change"
            ELSE "stages"

-----------------------------------------------------------------------------
(* The planner.                                                            *)

Recommendation(category, severity, confidence, stageability, p) ==
    [category |-> category, severity |-> severity, confidence |-> confidence,
     stageability |-> stageability, path |-> p]

Confidence(finding) ==
    CASE finding.kind = "missing-citation" -> IF finding.sources # {} THEN "high" ELSE "low"
      [] finding.kind \in {"broken-wikilink", "stale-index"} -> "high"
      [] finding.kind \in {"content-gap", "orphan-note"} -> "medium"

(* A mutant of Stageability: the active changes are not looked at. *)
StageabilityOfSafety(finding, changes) ==
    IF IsSafe(finding) THEN "stageable"
    ELSE IF finding.kind = "missing-citation" THEN "blocked" ELSE "report-only"

Stageability(finding, changes) ==
    IF IsSafe(finding) THEN
        IF ActiveFor(changes, finding.path) # {} THEN "blocked" ELSE "stageable"
    ELSE IF finding.kind = "missing-citation" THEN "blocked" ELSE "report-only"

FromFindings(findings, changes) ==
    {Recommendation(f.kind, f.severity, Confidence(f), Stageability(f, changes), f.path) :
        f \in findings}

FromIndex(index) ==
    IF index = None THEN {} ELSE IF index.state = "fresh" THEN {} ELSE
        {Recommendation("stale-index",
                        IF index.state = "missing" THEN "error" ELSE "warning",
                        IF index.state = "missing" THEN "high" ELSE "medium",
                        "report-only", None)}

FromChanges(changes) ==
    {Recommendation("active-staged-change",
                    IF c.status = "conflicted" THEN "error" ELSE "warning",
                    "high", "blocked", c.path) :
        c \in {d \in changes : d.status \in ActiveStatuses}}

Plan(findings, index, changes) ==
    FromFindings(findings, changes) \cup FromIndex(index) \cup FromChanges(changes)

Stageable(plan) == {r \in plan : r.stageability = "stageable"}

(* What comes of staging a recommendation, when note is at its path. *)
StageVerdict(recommendation, findings, note, changes) ==
    LET f == CHOOSE g \in findings :
                 g.kind = recommendation.category /\ g.path = recommendation.path
    IN  CASE recommendation.stageability = "report-only" -> "report-only"
          [] recommendation.stageability # "report-only" ->
                IF recommendation.category # "missing-citation" \/ ~IsSafe(f) THEN "missing-evidence"
                ELSE IF f.path \in Unlisted THEN "unsupported-path"
                ELSE IF RepairVerdict(f, findings, note, changes) = "stages" /\ SourcesRefused(f)
                THEN "validation-failed"
                ELSE RepairVerdict(f, findings, note, changes)

=============================================================================
