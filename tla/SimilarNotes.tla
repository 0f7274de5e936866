----------------------------- MODULE SimilarNotes -----------------------------
(***************************************************************************)
(* Suggestions from similar notes                                          *)
(* (agent/similar-note-suggestion-service.ts): the signals two notes share *)
(* and what a search finds, the candidates and suggestions ranked and cut  *)
(* from them, and the staging of a suggestion as a change of the note.     *)
(* Nothing in the plugin calls the service yet: its callers are external,  *)
(* and do as main.ts does with repairs, who hands over the live list of    *)
(* staged changes and appends to it what was staged.                       *)
(*                                                                         *)
(* A note is what can be read of it.  Its lists are sorted; they hold the  *)
(* items as they are written, of which the parser takes those that are     *)
(* texts.  Its headings are its title, and a wikilink is the file name it  *)
(* gives.  What staging looks for is not the links of the body but any     *)
(* mention: a name after two brackets, in the frontmatter also.  Texts,    *)
(* records of evidence and slugs of identifiers that collide are left out. *)
(***************************************************************************)
EXTENDS Ranking, Sequences, FiniteSetsExt

CONSTANTS
    Paths,           \* notes there are or may be
    Names,           \* file names without extension
    Folders,         \* folders, NoFolder among them
    Tags,
    Words,           \* titles and aliases
    NoFolder, Inbox, \* the vault itself, and the folder notes are moved from
    Fixture,         \* the tag that is never suggested
    Name, Folder,    \* of each path
    PathOf,          \* the path a wikilink resolves to, None when to none
    Rank,            \* the order of paths, tags and words
    Tokens,          \* the words of three letters or more in a word
    Normal,          \* normalizeToken of a word
    Split,           \* what a list has after a path, tag or word was written in it
    Texts,           \* paths, tags and words that are read as texts, not as numbers
    LinkOf,          \* what a wikilink to a name is read as, None when as none
    Unstageable,     \* support records, and notes whose name does not end in .md
    Results,         \* what a search found: [method, source, path, score]
    MaxCandidates, MaxSuggestions,   \* defaultMaxCandidates, defaultMaxSuggestions
    Callers,
    FirstVault,      \* the notes at first
    Drafts,          \* what an edit may make of a note
    MaxEdits,        \* bound: edits of notes
    MaxChanges,      \* bound: changes ever staged
    None             \* no note, no path, no value

Notes ==
    [front : {"none", "block", "broken"}, title : Words, tags : SUBSET Tags,
     aliases : SUBSET Words, related : SUBSET Paths, sources : SUBSET Paths,
     inline : SUBSET Tags, links : SUBSET Names, mentions : SUBSET Names]

HasLists(note) ==
    {note.tags, note.aliases, note.related, note.sources} # {{}}

Vaults == [Paths -> Notes \cup {None}]

ASSUME NamesAndFolders == Name \in [Paths -> Names] /\ Folder \in [Paths -> Folders]
ASSUME LinksResolve == PathOf \in [Names -> Paths \cup {None}]
ASSUME ListsAreSplit == \A sort \in {Paths, Tags, Words} : \A v \in sort : Split[v] \subseteq sort
ASSUME LinksAreNames == LinkOf \in [Names -> Names \cup {None}]
ASSUME ScoresAreParts ==
    \A r \in Results : r.method \in {"lexical", "semantic"} /\ r.score \in 0 .. 10000
ASSUME NotesAreParsed ==
    /\ FirstVault \in Vaults
    /\ \A p \in Paths : Drafts[p] \subseteq Notes \cup {None}
    /\ \A p \in Paths : \A note \in Drafts[p] \cup {FirstVault[p]} :
           (note # None /\ note.front = "none") => ~HasLists(note)
ASSUME NoneIsNothing == None \notin Paths \cup Names /\ None \notin Notes
ASSUME RanksAreOrders ==
    \A sort \in {Paths, Tags, Words} : \A v, w \in sort :
        Rank[v] \in Nat /\ (Rank[v] = Rank[w] => v = w)
ASSUME BoundsAreNatural ==
    {MaxCandidates, MaxSuggestions, MaxEdits, MaxChanges} \subseteq Nat

(* A note whose frontmatter the parser refuses is not among the notes. *)
Comparable(notes) == {p \in Paths : notes[p] # None /\ notes[p].front # "broken"}

(* What the parser reads of a list, and of the tags of frontmatter and body. *)
Parsed(values) == values \cap Texts
Aliases(note) == Parsed(note.aliases)
TagsOf(note) == Parsed(note.tags) \cup note.inline

(* What the chunks of a note name as sources: the note itself when nothing else does. *)
SourcePaths(notes, p) == IF Parsed(notes[p].sources) = {} THEN {p} ELSE Parsed(notes[p].sources)

-----------------------------------------------------------------------------
(* Signals.  Scores are in ten thousandths, weights in hundredths.         *)

Weight ==
    [kind \in {"wikilink", "source-path", "semantic", "lexical",
               "tag", "heading", "alias", "folder"} |->
        CASE kind = "wikilink" -> 34 [] kind = "source-path" -> 26 [] kind = "semantic" -> 24
          [] kind = "lexical" -> 20 [] kind = "tag" -> 18 [] kind = "heading" -> 12
          [] kind = "alias" -> 12 [] kind = "folder" -> 8]

Least(a, b) == IF a < b THEN a ELSE b

OverlapScore(shared, left, right) ==
    LET most == IF Least(left, right) > 1 THEN Least(left, right) ELSE 1
    IN  Least(10000, (20000 * shared + most) \div (2 * most))

Overlap(a, b) == OverlapScore(Cardinality(a \cap b), Cardinality(a), Cardinality(b))

TokensOf(words) == UNION {Tokens[w] : w \in words}

HeadingTokens(note) == TokensOf({note.title} \cup Aliases(note))

AliasScore(a, b) ==
    OverlapScore(Cardinality(TokensOf(Aliases(a)) \cap TokensOf(Aliases(b))),
                 Cardinality(Aliases(a)), Cardinality(Aliases(b)))

(* The scores of the signals by which p is similar to q; a link counts for *)
(* the note that has it, and so does what a search found.                  *)
SignalScores(notes, p, q) ==
    LET signal(kind, holds, score) == IF holds THEN {[kind |-> kind, score |-> score]} ELSE {}
    IN  signal("tag", TagsOf(notes[p]) \cap TagsOf(notes[q]) # {},
               Overlap(TagsOf(notes[p]), TagsOf(notes[q])))
        \cup signal("heading", HeadingTokens(notes[p]) \cap HeadingTokens(notes[q]) # {},
                    Overlap(HeadingTokens(notes[p]), HeadingTokens(notes[q])))
        \cup signal("alias", TokensOf(Aliases(notes[p])) \cap TokensOf(Aliases(notes[q])) # {},
                    AliasScore(notes[p], notes[q]))
        \cup signal("source-path", SourcePaths(notes, p) \cap SourcePaths(notes, q) # {},
                    Overlap(SourcePaths(notes, p), SourcePaths(notes, q)))
        \cup signal("folder", Folder[p] = Folder[q] /\ Folder[p] # NoFolder, 10000)
        \cup signal("wikilink", \E n \in notes[p].links : PathOf[n] = q, 10000)
        \cup {[kind |-> r.method, score |-> r.score] :
                  r \in {r \in Results : r.source = p /\ r.path = q}}

(* The best of each kind counts, weighted and rounded. *)
CandidateScore(signals) ==
    LET best(kind) == Max({s.score : s \in {s \in signals : s.kind = kind}})
        kinds == {s.kind : s \in signals}
    IN  Least(10000, (MapThenSumSet(LAMBDA k : best(k) * Weight[k], kinds) + 50) \div 100)

ConfidenceForScore(score) ==
    IF score >= 5000 THEN "high" ELSE IF score >= 2400 THEN "medium" ELSE "low"

ConfidenceWeight == [c \in {"high", "medium", "low"} |->
    CASE c = "high" -> 0 [] c = "medium" -> 1 [] c = "low" -> 2]

CandidateKey(c) ==
    <<ConfidenceWeight[ConfidenceForScore(c.score)], -c.score, Rank[c.source], Rank[c.related]>>

Candidates(notes) ==
    LET pairs == {pq \in Comparable(notes) \X Comparable(notes) :
                     pq[1] # pq[2] /\ SignalScores(notes, pq[1], pq[2]) # {}}
    IN  First(MaxCandidates,
              {[source |-> pq[1], related |-> pq[2],
                score |-> CandidateScore(SignalScores(notes, pq[1], pq[2]))] : pq \in pairs},
              CandidateKey)

-----------------------------------------------------------------------------
(* Suggestions.                                                            *)

ActiveStatuses == {"review-ready", "conflicted"}

(* The destination of an active change is not compared with the one asked for. *)
ActiveFor(list, target, dest) ==
    \E i \in DOMAIN list :
        /\ list[i].status \in ActiveStatuses
        /\ list[i].target \in {target, dest} \/ list[i].dest = target

Stageability(kind, score, target, dest, notes, list) ==
    IF ActiveFor(list, target, dest) \/ dest \in Comparable(notes) THEN "blocked"
    ELSE IF ConfidenceForScore(score) = "low" THEN "report-only"
    ELSE "stageable"

(* Mutant: only links that resolve to the note count. *)
HasWikilinkThatResolves(note, path) == \E n \in note.links : PathOf[n] = path

(* A link counts by the name it gives, or by that of the note it resolves to. *)
HasWikilinkTo(note, path) ==
    \/ Name[path] \in note.links
    \/ \E n \in note.links : PathOf[n] # None /\ Name[PathOf[n]] = Name[path]

HasFrontmatterValue(values, value) == \E v \in values : Normal[v] = Normal[value]

ByRank(v) == <<Rank[v]>>

(* What a kind of suggestion would add to p because of q, at most one value. *)
ValuesOf(kind, notes, p, q) ==
    LET source == notes[p]
        related == notes[q]
        tags == TagsOf(related) \ (TagsOf(source) \cup {Fixture})
        alias == IF Aliases(related) = {} THEN related.title ELSE Foremost(Aliases(related), ByRank)
        dests == {d \in Paths : Folder[d] = Folder[q] /\ Name[d] = Name[p]}
    IN  CASE kind = "wikilink" -> IF HasWikilinkTo(source, q) THEN {} ELSE {Name[q]}
          [] kind = "related-note" -> {q} \ Parsed(source.related)
          [] kind = "tag" -> IF tags = {} THEN {} ELSE {Foremost(tags, ByRank)}
          [] kind = "alias" -> IF HasFrontmatterValue(Aliases(source), alias) THEN {} ELSE {alias}
          [] kind = "frontmatter-placement" ->
                IF Parsed(source.sources) # {} THEN {} ELSE {Foremost(SourcePaths(notes, q), ByRank)}
          [] kind = "folder-placement" ->
                IF Folder[p] = Inbox /\ Folder[q] \notin {NoFolder, Inbox} THEN dests ELSE {}

KindWeight ==
    [k \in {"wikilink", "related-note", "tag", "alias",
            "frontmatter-placement", "folder-placement"} |->
        CASE k = "wikilink" -> 0 [] k = "related-note" -> 1 [] k = "tag" -> 2
          [] k = "alias" -> 3 [] k = "frontmatter-placement" -> 4 [] k = "folder-placement" -> 5]

StageabilityWeight == [s \in {"stageable", "blocked", "report-only"} |->
    CASE s = "stageable" -> 0 [] s = "blocked" -> 1 [] s = "report-only" -> 2]

Suggestion(kind, candidate, value, notes, list) ==
    LET dest == IF kind = "folder-placement" THEN value ELSE None
    IN  [kind |-> kind, target |-> candidate.source, related |-> candidate.related,
         value |-> value, dest |-> dest, score |-> candidate.score,
         stageability |->
             Stageability(kind, candidate.score, candidate.source, dest, notes, list)]

SuggestionsFrom(candidate, notes, list) ==
    UNION {{Suggestion(kind, candidate, value, notes, list) :
                value \in ValuesOf(kind, notes, candidate.source, candidate.related)} :
           kind \in DOMAIN KindWeight}

SuggestionKey(s) ==
    <<ConfidenceWeight[ConfidenceForScore(s.score)], -s.score, StageabilityWeight[s.stageability],
      Rank[s.target], KindWeight[s.kind], Rank[s.related]>>

Suggestions(notes, list) ==
    First(MaxSuggestions,
          UNION {SuggestionsFrom(c, notes, list) : c \in Candidates(notes)}, SuggestionKey)

-----------------------------------------------------------------------------
(* Staging.                                                                *)

(* Mutant: the list is what was suggested. *)
UpsertedAlone(values, value) == {value}

(* The items of a list after the value was written in it: the list is made *)
(* anew without quotes, and cut at every comma when it is read again.      *)
Upserted(values, value) == UNION {Split[v] : v \in values \cup {value}}

(* The note a suggestion makes of the note. *)
After(s, note) ==
    CASE s.kind = "wikilink" ->
            [note EXCEPT !.links = @ \cup ({LinkOf[s.value]} \ {None}),
                         !.mentions = @ \cup {s.value}]
      [] s.kind = "related-note" -> [note EXCEPT !.related = Upserted(@, s.value)]
      [] s.kind = "tag" -> [note EXCEPT !.tags = Upserted(@, s.value)]
      [] s.kind = "alias" -> [note EXCEPT !.aliases = Upserted(@, s.value)]
      [] s.kind = "frontmatter-placement" -> [note EXCEPT !.sources = Upserted(@, s.value)]
      [] s.kind = "folder-placement" -> note

InFrontmatter == {"related-note", "tag", "alias", "frontmatter-placement"}

(* A list that has the value already, as it is written, is left as it is, *)
(* and so is a note that mentions the name, wherever it does.             *)
HasAlready(s, note) ==
    CASE s.kind = "wikilink" -> s.value \in note.mentions
      [] s.kind = "related-note" -> s.value \in note.related
      [] s.kind = "tag" -> s.value \in note.tags
      [] s.kind = "alias" -> s.value \in note.aliases
      [] s.kind = "frontmatter-placement" -> s.value \in note.sources
      [] s.kind = "folder-placement" -> FALSE

(* What becomes of a request before its hashes are made. *)
StageVerdict(s, notes, list) ==
    CASE s.stageability # "stageable" -> s.stageability
      [] s.stageability = "stageable" ->
            IF s.target \in Unstageable THEN "unsupported-path"
            ELSE IF ActiveFor(list, s.target, s.dest) THEN "active-staged-change"
            ELSE IF notes[s.target] = None THEN "missing-content"
            ELSE IF \/ s.kind \in InFrontmatter /\ notes[s.target].front = "none"
                    \/ s.dest \in Unstageable
                 THEN "validation-failed"
            ELSE IF HasAlready(s, notes[s.target]) THEN "no-op"
            ELSE "stages"

OperationKind(s) ==
    IF s.kind = "wikilink" THEN "update-note"
    ELSE IF s.kind = "folder-placement" THEN "move-note" ELSE "update-frontmatter"

VARIABLES
    vault,     \* the notes
    list,      \* the staged changes
    plan,      \* the suggestions of the last plan
    fresh,     \* history: the notes and the changes are those it was made of
    building,  \* per caller: the change it builds, <<>> when there is none
    applied,   \* history: the suggestions whose change was applied, their note untouched since
    edits      \* edits so far

vars == <<vault, list, plan, fresh, building, applied, edits>>

Id(s) == [kind |-> s.kind, target |-> s.target, related |-> s.related, value |-> s.value]

Init ==
    /\ vault = FirstVault
    /\ list = <<>>
    /\ plan = {}
    /\ fresh = FALSE
    /\ building = [c \in Callers |-> <<>>]
    /\ applied = {}
    /\ edits = 0

(* A plan of the same notes and changes is the same. *)
MakePlan ==
    /\ ~fresh
    /\ plan' = Suggestions(vault, list)
    /\ fresh' = TRUE
    /\ UNCHANGED <<vault, list, building, applied, edits>>

Busy(s) ==
    \E c \in Callers : building[c] # <<>> /\
        \/ building[c].id = Id(s)
        \/ building[c].operation = OperationKind(s) /\ building[c].target = s.target

(* inFlightSuggestionIds and inFlightTargets let one build of a suggestion, *)
(* and one of a kind and a note, go on at a time.                           *)
Stage(c, s) ==
    /\ building[c] = <<>>
    /\ Len(list) + Cardinality({d \in Callers : building[d] # <<>>}) < MaxChanges
    /\ StageVerdict(s, vault, list) = "stages"
    /\ ~Busy(s)
    /\ building' = [building EXCEPT ![c] =
           [id |-> Id(s), operation |-> OperationKind(s), target |-> s.target, dest |-> s.dest,
            before |-> vault[s.target], after |-> After(s, vault[s.target]),
            taken |-> IF s.dest = None THEN FALSE ELSE vault[s.dest] # None,
            status |-> "building"]]
    /\ UNCHANGED <<vault, list, plan, fresh, applied, edits>>

(* Mutant: the list that counts is the one of the request. *)
EndBuildUnchecked(c) ==
    /\ building[c] # <<>>
    /\ list' = Append(list, [building[c] EXCEPT
           !.status = IF building[c].taken THEN "conflicted" ELSE "review-ready"])
    /\ building' = [building EXCEPT ![c] = <<>>]
    /\ fresh' = FALSE
    /\ UNCHANGED <<vault, plan, applied, edits>>

(* The hashes made, the list is looked at again and the change appended. *)
EndBuild(c) ==
    /\ building[c] # <<>>
    /\ LET built == building[c]
       IN  list' = Append(list, [built EXCEPT
               !.status = IF built.taken \/ ActiveFor(list, built.target, built.dest)
                          THEN "conflicted" ELSE "review-ready"])
    /\ building' = [building EXCEPT ![c] = <<>>]
    /\ fresh' = FALSE
    /\ UNCHANGED <<vault, plan, applied, edits>>

Touched(p) == {a \in applied : a.target # p}

Reject(i) ==
    /\ list[i].status \in ActiveStatuses
    /\ list' = [list EXCEPT ![i].status = "rejected"]
    /\ fresh' = FALSE
    /\ UNCHANGED <<vault, plan, building, applied, edits>>

(* Applied, when the note is as it was and the destination is free. *)
Apply(i) ==
    LET change == list[i] IN
    /\ change.status = "review-ready"
    /\ vault[change.target] = change.before
    /\ change.dest # None => vault[change.dest] = None
    /\ list' = [list EXCEPT ![i].status = "applied"]
    /\ fresh' = FALSE
    /\ vault' = IF change.dest = None
                THEN [vault EXCEPT ![change.target] = change.after]
                ELSE [vault EXCEPT ![change.target] = None, ![change.dest] = change.after]
    /\ applied' = IF change.dest = None THEN applied \cup {change.id} ELSE Touched(change.target)
    /\ UNCHANGED <<plan, building, edits>>

(* A user writes, removes or moves away a note. *)
Edit(p) ==
    /\ edits < MaxEdits
    /\ \E note \in Drafts[p] \ {vault[p]} : vault' = [vault EXCEPT ![p] = note]
    /\ edits' = edits + 1
    /\ fresh' = FALSE
    /\ applied' = Touched(p)
    /\ UNCHANGED <<list, plan, building>>

Next ==
    \/ MakePlan
    \/ \E c \in Callers : EndBuild(c) \/ \E s \in plan : Stage(c, s)
    \/ \E i \in DOMAIN list : Reject(i) \/ Apply(i)
    \/ \E p \in Paths : Edit(p)

Spec == Init /\ [][Next]_vars

-----------------------------------------------------------------------------
(* Properties.                                                             *)

(* The state is of the kind the comments above describe. *)
TypeOK ==
    /\ vault \in [Paths -> Notes \cup {None}]
    /\ \A i \in DOMAIN list : list[i].status \in ActiveStatuses \cup {"applied", "rejected"}
    /\ \A s \in plan : s.kind \in DOMAIN KindWeight /\ s.target # s.related
    /\ \A c \in Callers : building[c] # <<>> => building[c].before # None
    /\ edits \in 0 .. MaxEdits

(* What is read where a suggestion wrote it is what it wrote. *)
ReadsBack(s) ==
    /\ s.kind = "wikilink" => LinkOf[s.value] = s.value
    /\ s.kind \in InFrontmatter => Split[s.value] = {s.value} /\ s.value \in Texts

(* A suggestion that was applied is not made again while its note stays as *)
(* the suggestion left it, whatever else is applied to it: what staging    *)
(* writes is what the next plan reads.  A path or a word with a comma in   *)
(* it, a word or a tag that reads as a number or as true, and a file name  *)
(* that a wikilink cuts, are not read back; but for a source path they are *)
(* suggested for ever.                                                     *)
AppliedSettles ==
    fresh => \A s \in plan : ReadsBack(s) => Id(s) \notin applied

(* What a plan calls stageable is staged while the notes and the changes   *)
(* are as they were, but where the plan does not look: at the name of the  *)
(* note or of the place it is moved to, at whether there is a frontmatter, *)
(* and at mentions of a note that are no links of the body.  Of what does  *)
(* not read back this says nothing.                                        *)
StageableStages ==
    fresh =>
        \A s \in plan :
            (s.stageability = "stageable" /\ ReadsBack(s)) =>
                (StageVerdict(s, vault, list) = "stages" <=>
                    /\ {s.target, s.dest} \cap Unstageable = {}
                    /\ s.kind \in InFrontmatter => vault[s.target].front # "none"
                    /\ s.kind = "wikilink" =>
                          s.value \notin vault[s.target].mentions \ vault[s.target].links)

(* Of the changes that wait to be decided, no two that are ready touch one *)
(* note, though several suggestions for it are built at once; two may move *)
(* to one destination.                                                     *)
OneReadyForNote ==
    \A i, j \in DOMAIN list :
        (i < j /\ list[i].status = "review-ready" /\ list[j].status = "review-ready") =>
            /\ list[i].target \notin {list[j].target, list[j].dest}
            /\ list[j].target # list[i].dest
=============================================================================
