----------------------------- MODULE RankingProofs -----------------------------
(***************************************************************************)
(* Theorems about the two components that rank what they have and cut it:  *)
(* SimilarNotes, for any notes, search results, limits, callers and edits, *)
(* and RecoverSession, for any limits, changes, loads and times.           *)
(***************************************************************************)
EXTENDS SimilarNotes, RecoverSession,
        TLAPS, WellFoundedInduction, FiniteSetTheorems, FunctionTheorems

-----------------------------------------------------------------------------
(* The foremost of a set *)

(* Naturals have a least one.                                               *)
LEMMA LeastOfNaturals ==
  ASSUME NEW T \in SUBSET Nat, T # {}
  PROVE  \E n \in T : \A k \in T : n <= k
<1>1. IsWellFoundedOn(OpToRel(<, Nat), Nat)
  BY NatLessThanWellFounded
<1>2. PICK n \in T : \A k \in T : ~(<<k, n>> \in OpToRel(<, Nat))
  BY <1>1, WFMin
<1>3. \A k, l \in T : k < l => <<k, l>> \in OpToRel(<, Nat)
  BY DEF OpToRel
<1>4. ASSUME NEW k \in T
      PROVE  n <= k
  <2>1. ~(k < n)
    BY <1>2, <1>3
  <2> QED
    BY <2>1
<1> QED
  BY <1>4

(* Keys of one number are in the order of the numbers.                      *)
LEMMA RankOrder ==
  ASSUME NEW v, NEW w, Rank[v] \in Nat, Rank[w] \in Nat, Rank[v] < Rank[w]
  PROVE  Before(ByRank(v), ByRank(w))
<1>1. Before(<<Rank[v]>>, <<Rank[w]>>)
  <2>1. 1 \in DOMAIN <<Rank[v]>> /\ <<Rank[v]>>[1] < <<Rank[w]>>[1]
    OBVIOUS
  <2>2. \A j \in 1 .. 1 - 1 : <<Rank[v]>>[j] = <<Rank[w]>>[j]
    OBVIOUS
  <2> QED
    BY <2>1, <2>2 DEF Before
<1> QED
  BY <1>1 DEF ByRank

(* The foremost of paths, tags or words is one of them.                     *)
LEMMA ForemostIsIn ==
  ASSUME NEW sort \in {Paths, Tags, Words}, NEW T \in SUBSET sort, T # {}
  PROVE  Foremost(T, ByRank) \in T
<1> DEFINE ranks == {Rank[v] : v \in T}
<1>1. ranks \in SUBSET Nat /\ ranks # {}
  BY RanksAreOrders
<1>2. PICK n \in ranks : \A k \in ranks : n <= k
  BY <1>1, LeastOfNaturals
<1>3. PICK v \in T : Rank[v] = n
  BY <1>2
<1>4. ASSUME NEW w \in T \ {v}
      PROVE  Before(ByRank(v), ByRank(w))
  <2>1. Rank[v] <= Rank[w] /\ Rank[v] # Rank[w] /\ Rank[v] \in Nat /\ Rank[w] \in Nat
    BY <1>2, <1>3, RanksAreOrders
  <2>2. Rank[v] < Rank[w]
    BY <2>1
  <2> QED
    BY <2>1, <2>2, RankOrder
<1>5. \E x \in T : \A y \in T \ {x} : Before(ByRank(x), ByRank(y))
  BY <1>4
<1> QED
  BY <1>5, Zenon DEF Foremost

-----------------------------------------------------------------------------
(* Suggestions *)

Kinds ==
    {"wikilink", "related-note", "tag", "alias", "frontmatter-placement", "folder-placement"}

(* What a kind of suggestion writes. *)
ValueOfKind(kind, value) ==
    /\ kind = "wikilink" => value \in Names
    /\ kind = "tag" => value \in Tags
    /\ kind = "alias" => value \in Words
    /\ kind \in {"related-note", "frontmatter-placement", "folder-placement"} => value \in Paths

IdOk(id) ==
    /\ id.kind \in Kinds /\ id.target \in Paths /\ id.related \in Paths
    /\ ValueOfKind(id.kind, id.value)

SuggestionOk(s) ==
    /\ IdOk(s) /\ s.target # s.related
    /\ s.stageability \in {"stageable", "blocked", "report-only"}
    /\ s.dest = IF s.kind = "folder-placement" THEN s.value ELSE None

LEMMA KindsAre == DOMAIN KindWeight = Kinds
  BY DEF KindWeight, Kinds

(* A note that can be compared is one.                                      *)
LEMMA ComparableNotes ==
  ASSUME NEW notes \in Vaults, NEW p \in Comparable(notes)
  PROVE  p \in Paths /\ notes[p] \in Notes
  BY DEF Comparable, Vaults

(* A suggestion adds a value of its kind.                                   *)
LEMMA ValuesAreOfKind ==
  ASSUME NEW notes \in Vaults, NEW p \in Comparable(notes), NEW q \in Comparable(notes),
         NEW kind \in Kinds, NEW value \in ValuesOf(kind, notes, p, q)
  PROVE  ValueOfKind(kind, value)
<1>1. p \in Paths /\ q \in Paths /\ notes[p] \in Notes /\ notes[q] \in Notes
  BY ComparableNotes
<1>2. CASE kind = "wikilink"
  BY <1>1, <1>2, NamesAndFolders DEF ValuesOf, ValueOfKind
<1>3. CASE kind = "related-note"
  BY <1>1, <1>3 DEF ValuesOf, ValueOfKind
<1>4. CASE kind = "tag"
  <2> DEFINE tags == TagsOf(notes[q]) \ (TagsOf(notes[p]) \cup {Fixture})
  <2>1. tags # {} /\ value = Foremost(tags, ByRank)
    BY <1>4 DEF ValuesOf
  <2>2. tags \in SUBSET Tags
    BY <1>1 DEF Notes, TagsOf, Parsed
  <2> HIDE DEF tags
  <2>3. value \in Tags
    BY <2>1, <2>2, ForemostIsIn
  <2> QED
    BY <1>4, <2>3 DEF ValueOfKind
<1>5. CASE kind = "alias"
  <2> DEFINE aliases == Aliases(notes[q])
             alias == IF aliases = {} THEN notes[q].title ELSE Foremost(aliases, ByRank)
  <2>1. value = alias
    BY <1>5 DEF ValuesOf
  <2>2. aliases \in SUBSET Words /\ notes[q].title \in Words
    BY <1>1 DEF Notes, Aliases, Parsed
  <2> HIDE DEF aliases
  <2>3. alias \in Words
    BY <2>2, ForemostIsIn
  <2> QED
    BY <1>5, <2>1, <2>3 DEF ValueOfKind
<1>6. CASE kind = "frontmatter-placement"
  <2> DEFINE sources == SourcePaths(notes, q)
  <2>1. value = Foremost(sources, ByRank)
    BY <1>6 DEF ValuesOf
  <2>2. sources \in SUBSET Paths /\ sources # {}
    BY <1>1 DEF Notes, SourcePaths, Parsed
  <2> HIDE DEF sources
  <2>3. value \in Paths
    BY <2>1, <2>2, ForemostIsIn
  <2> QED
    BY <1>6, <2>3 DEF ValueOfKind
<1>7. CASE kind = "folder-placement"
  BY <1>7 DEF ValuesOf, ValueOfKind
<1> QED
  BY <1>2, <1>3, <1>4, <1>5, <1>6, <1>7 DEF Kinds

(* What the parser reads in a note.                                         *)
Held(s, note) ==
    CASE s.kind = "wikilink" -> s.value \in note.links
      [] s.kind = "related-note" -> s.value \in Parsed(note.related)
      [] s.kind = "tag" -> s.value \in Parsed(note.tags)
      [] s.kind = "alias" -> s.value \in Parsed(note.aliases)
      [] s.kind = "frontmatter-placement" -> s.value \in Parsed(note.sources)
      [] s.kind = "folder-placement" -> FALSE

(* What a suggestion adds to a note is not read in it.                      *)
LEMMA ValuesAreNew ==
  ASSUME NEW notes \in Vaults, NEW p \in Comparable(notes), NEW q \in Comparable(notes),
         NEW s, s.kind \in Kinds, s.value \in ValuesOf(s.kind, notes, p, q)
  PROVE  ~Held(s, notes[p])
<1>1. p \in Paths /\ q \in Paths /\ notes[p] \in Notes /\ notes[q] \in Notes
  BY ComparableNotes
<1>2. CASE s.kind = "wikilink"
  BY <1>2 DEF ValuesOf, Held, HasWikilinkTo
<1>3. CASE s.kind = "related-note"
  BY <1>3 DEF ValuesOf, Held
<1>4. CASE s.kind = "tag"
  <2> DEFINE tags == TagsOf(notes[q]) \ (TagsOf(notes[p]) \cup {Fixture})
  <2>1. tags # {} /\ s.value = Foremost(tags, ByRank)
    BY <1>4 DEF ValuesOf
  <2>2. tags \in SUBSET Tags
    BY <1>1 DEF Notes, TagsOf, Parsed
  <2>3. s.value \in tags
    <3> HIDE DEF tags
    <3> QED
      BY <2>1, <2>2, ForemostIsIn
  <2> QED
    BY <1>4, <2>3 DEF Held, TagsOf
<1>5. CASE s.kind = "alias"
  <2>1. ~HasFrontmatterValue(Aliases(notes[p]), s.value)
    BY <1>5 DEF ValuesOf
  <2>2. s.value \notin Aliases(notes[p])
    BY <2>1 DEF HasFrontmatterValue
  <2> QED
    BY <1>5, <2>2 DEF Held, Aliases
<1>6. CASE s.kind = "frontmatter-placement"
  BY <1>6 DEF ValuesOf, Held
<1>7. CASE s.kind = "folder-placement"
  BY <1>7 DEF Held
<1> QED
  BY <1>2, <1>3, <1>4, <1>5, <1>6, <1>7 DEF Kinds

(* What staging finds in a note already is read in it, if it reads back; a  *)
(* mention need be no link.                                                 *)
LEMMA AlreadyIsHeld ==
  ASSUME NEW s, s.kind \in Kinds, ReadsBack(s), NEW note, HasAlready(s, note)
  PROVE  Held(s, note) \/ (s.kind = "wikilink" /\ s.value \in note.mentions)
BY DEF HasAlready, Held, ReadsBack, InFrontmatter, Parsed, Kinds

(* A suggestion is of two notes that can be compared, writes a value of its *)
(* kind, and is called stageable by the rule.                               *)
LEMMA SuggestionsAre ==
  ASSUME NEW notes \in Vaults, NEW staged, NEW s \in Suggestions(notes, staged)
  PROVE  /\ SuggestionOk(s)
         /\ s.target \in Comparable(notes) /\ s.related \in Comparable(notes)
         /\ s.value \in ValuesOf(s.kind, notes, s.target, s.related)
         /\ s.stageability = Stageability(s.kind, s.score, s.target, s.dest, notes, staged)
<1>1. PICK c \in Candidates(notes) : s \in SuggestionsFrom(c, notes, staged)
  <2>1. s \in UNION {SuggestionsFrom(c, notes, staged) : c \in Candidates(notes)}
    BY DEF Suggestions, First
  <2> QED
    BY <2>1
<1>2. c.source \in Comparable(notes) /\ c.related \in Comparable(notes) /\ c.source # c.related
  <2>1. PICK pq \in Comparable(notes) \X Comparable(notes) :
            pq[1] # pq[2] /\ c.source = pq[1] /\ c.related = pq[2]
    BY DEF Candidates, First
  <2> QED
    BY <2>1
<1>3. PICK kind \in Kinds : \E value \in ValuesOf(kind, notes, c.source, c.related) :
          s = Suggestion(kind, c, value, notes, staged)
  BY <1>1, KindsAre DEF SuggestionsFrom
<1>4. PICK value \in ValuesOf(kind, notes, c.source, c.related) :
          s = Suggestion(kind, c, value, notes, staged)
  BY <1>3
<1>5. ValueOfKind(kind, value)
  BY <1>2, ValuesAreOfKind
<1>6. /\ s.kind = kind /\ s.target = c.source /\ s.related = c.related
      /\ s.value = value /\ s.score = c.score
      /\ s.dest = IF kind = "folder-placement" THEN value ELSE None
      /\ s.stageability = Stageability(kind, c.score, c.source, s.dest, notes, staged)
  BY <1>4 DEF Suggestion
<1>7. c.source \in Paths /\ c.related \in Paths
  BY <1>2, ComparableNotes
<1>8. s.stageability \in {"stageable", "blocked", "report-only"}
  BY <1>6 DEF Stageability
<1> QED
  BY <1>2, <1>4, <1>5, <1>6, <1>7, <1>8 DEF SuggestionOk, IdOk

-----------------------------------------------------------------------------
(* The invariant *)

Ids ==
    {id \in [kind : Kinds, target : Paths, related : Paths,
             value : Names \cup Paths \cup Tags \cup Words] : IdOk(id)}

(* A change is what its suggestion makes of the note before it.             *)
Changes ==
    {c \in [id : Ids, operation : {"update-note", "move-note", "update-frontmatter"},
            target : Paths, dest : Paths \cup {None}, before : Notes, after : Notes,
            taken : BOOLEAN, status : ActiveStatuses \cup {"building", "applied", "rejected"}] :
        /\ c.id.target = c.target
        /\ c.dest = IF c.id.kind = "folder-placement" THEN c.id.value ELSE None
        /\ c.after = After(c.id, c.before)}

(* What was applied is read in the note still.                              *)
AppliedOk ==
    \A a \in applied :
        /\ a \in Ids /\ a.kind # "folder-placement"
        /\ vault[a.target] # None
        /\ ReadsBack(a) => Held(a, vault[a.target])

SimilarInv ==
    /\ vault \in Vaults
    /\ list \in Seq(Changes)
    /\ \A i \in DOMAIN list : list[i].status # "building"
    /\ \A s \in plan : SuggestionOk(s)
    /\ fresh => plan = Suggestions(vault, list)
    /\ \A c \in Callers : building[c] # <<>> => building[c] \in Changes
    /\ DOMAIN building = Callers
    /\ AppliedOk
    /\ OneReadyForNote
    /\ edits \in 0 .. MaxEdits

(* What a suggestion makes of a note is a note.                             *)
LEMMA AfterIsNote ==
  ASSUME NEW s, IdOk(s), NEW note \in Notes
  PROVE  After(s, note) \in Notes
<1>1. \A sort \in {Paths, Tags, Words} : \A v \in sort : \A values \in SUBSET sort :
          Upserted(values, v) \in SUBSET sort
  BY ListsAreSplit DEF Upserted
<1>2. s.kind \in {"related-note", "frontmatter-placement"} => s.value \in Paths
  BY DEF IdOk, ValueOfKind
<1>3. /\ s.kind = "tag" => s.value \in Tags
      /\ s.kind = "alias" => s.value \in Words
      /\ s.kind = "wikilink" => s.value \in Names
  BY DEF IdOk, ValueOfKind
<1>4. CASE s.kind = "wikilink"
  <2>1. {LinkOf[s.value]} \ {None} \in SUBSET Names
    BY <1>3, <1>4, LinksAreNames
  <2> QED
    BY <1>3, <1>4, <2>1 DEF After, Notes
<1>5. CASE s.kind = "related-note"
  <2>1. Upserted(note.related, s.value) \in SUBSET Paths
    BY <1>1, <1>2, <1>5 DEF Notes
  <2> QED
    BY <1>5, <2>1 DEF After, Notes
<1>6. CASE s.kind = "tag"
  <2>1. Upserted(note.tags, s.value) \in SUBSET Tags
    BY <1>1, <1>3, <1>6 DEF Notes
  <2> QED
    BY <1>6, <2>1 DEF After, Notes
<1>7. CASE s.kind = "alias"
  <2>1. Upserted(note.aliases, s.value) \in SUBSET Words
    BY <1>1, <1>3, <1>7 DEF Notes
  <2> QED
    BY <1>7, <2>1 DEF After, Notes
<1>8. CASE s.kind = "frontmatter-placement"
  <2>1. Upserted(note.sources, s.value) \in SUBSET Paths
    BY <1>1, <1>2, <1>8 DEF Notes
  <2> QED
    BY <1>8, <2>1 DEF After, Notes
<1>9. CASE s.kind = "folder-placement"
  BY <1>9 DEF After
<1> QED
  BY <1>4, <1>5, <1>6, <1>7, <1>8, <1>9 DEF IdOk, Kinds

(* A list that is made anew keeps the items that read back, the new one     *)
(* among them.                                                              *)
LEMMA UpsertedKeeps ==
  ASSUME NEW values, NEW value, NEW v \in values \cup {value}, Split[v] = {v}
  PROVE  v \in Upserted(values, value)
BY DEF Upserted

(* What is read in a note and reads back stays in it when another           *)
(* suggestion is applied.                                                   *)
LEMMA HeldStays ==
  ASSUME NEW a, IdOk(a), ReadsBack(a), NEW s, IdOk(s), NEW note \in Notes, Held(a, note)
  PROVE  Held(a, After(s, note))
<1> DEFINE next == After(s, note)
<1> SUFFICES Held(a, next)
  OBVIOUS
<1>1. a.kind \in Kinds /\ a.kind # "folder-placement" /\ s.kind \in Kinds
  BY DEF IdOk, Held
<1>2. note.links \subseteq next.links
  BY <1>1 DEF After, Notes, Kinds
<1>3. /\ next.related = note.related \/ next.related = Upserted(note.related, s.value)
      /\ next.tags = note.tags \/ next.tags = Upserted(note.tags, s.value)
      /\ next.aliases = note.aliases \/ next.aliases = Upserted(note.aliases, s.value)
      /\ next.sources = note.sources \/ next.sources = Upserted(note.sources, s.value)
  BY <1>1 DEF After, Notes, Kinds
<1>4. a.kind \in InFrontmatter => Split[a.value] = {a.value} /\ a.value \in Texts
  BY DEF ReadsBack
<1> HIDE DEF next
<1>5. CASE a.kind = "wikilink"
  BY <1>2, <1>5 DEF Held
<1>6. CASE a.kind = "related-note"
  BY <1>3, <1>4, <1>6, UpsertedKeeps DEF Held, Parsed, InFrontmatter
<1>7. CASE a.kind = "tag"
  BY <1>3, <1>4, <1>7, UpsertedKeeps DEF Held, Parsed, InFrontmatter
<1>8. CASE a.kind = "alias"
  BY <1>3, <1>4, <1>8, UpsertedKeeps DEF Held, Parsed, InFrontmatter
<1>9. CASE a.kind = "frontmatter-placement"
  BY <1>3, <1>4, <1>9, UpsertedKeeps DEF Held, Parsed, InFrontmatter
<1> QED
  BY <1>1, <1>5, <1>6, <1>7, <1>8, <1>9 DEF Kinds

(* What reads back is read in the note that it was written in.              *)
LEMMA AppliedIsThere ==
  ASSUME NEW s, IdOk(s), s.kind # "folder-placement", ReadsBack(s), NEW note \in Notes
  PROVE  Held(s, After(s, note))
<1>1. s.kind \in InFrontmatter =>
        s.value \in Texts /\ \A values : s.value \in Upserted(values, s.value)
  BY UpsertedKeeps DEF ReadsBack
<1>2. CASE s.kind = "wikilink"
  <2>1. LinkOf[s.value] = s.value /\ s.value # None
    BY <1>2, NoneIsNothing DEF ReadsBack, IdOk, ValueOfKind
  <2> QED
    BY <1>2, <2>1 DEF After, Notes, Held
<1>3. CASE s.kind = "related-note"
  BY <1>1, <1>3 DEF After, Notes, Held, Parsed, InFrontmatter
<1>4. CASE s.kind = "tag"
  BY <1>1, <1>4 DEF After, Notes, Held, Parsed, InFrontmatter
<1>5. CASE s.kind = "alias"
  BY <1>1, <1>5 DEF After, Notes, Held, Parsed, InFrontmatter
<1>6. CASE s.kind = "frontmatter-placement"
  BY <1>1, <1>6 DEF After, Notes, Held, Parsed, InFrontmatter
<1> QED
  BY <1>2, <1>3, <1>4, <1>5, <1>6 DEF IdOk, Kinds

-----------------------------------------------------------------------------
(* The steps *)

LEMMA SimilarInit == Init => SimilarInv
<1> SUFFICES ASSUME Init
             PROVE  SimilarInv
  OBVIOUS
<1>1. list \in Seq(Changes) /\ DOMAIN list = {}
  BY DEF Init
<1>2. MaxEdits \in Nat
  BY BoundsAreNatural
<1>3. AppliedOk /\ OneReadyForNote
  BY <1>1 DEF Init, AppliedOk, OneReadyForNote
<1> QED
  BY <1>1, <1>2, <1>3, NotesAreParsed DEF Init, SimilarInv

LEMMA MakePlanStep ==
  ASSUME SimilarInv, MakePlan
  PROVE  SimilarInv'
<1>1. \A s \in plan' : SuggestionOk(s)
  BY SuggestionsAre DEF SimilarInv, MakePlan
<1>2. UNCHANGED <<vault, list, building, applied, edits>> /\ plan' = Suggestions(vault, list)
  BY DEF MakePlan
<1>3. plan' = Suggestions(vault', list')
  BY <1>2
<1> QED
  BY <1>1, <1>2, <1>3 DEF SimilarInv, AppliedOk, OneReadyForNote

(* What is built of a suggestion of the plan.                               *)
LEMMA BuiltIsChange ==
  ASSUME SimilarInv, NEW s \in plan, vault[s.target] # None
  PROVE  [id |-> Id(s), operation |-> OperationKind(s), target |-> s.target, dest |-> s.dest,
          before |-> vault[s.target], after |-> After(s, vault[s.target]),
          taken |-> IF s.dest = None THEN FALSE ELSE vault[s.dest] # None,
          status |-> "building"] \in Changes
<1> DEFINE taken == IF s.dest = None THEN FALSE ELSE vault[s.dest] # None
           id == Id(s)
           before == vault[s.target]
<1>1. SuggestionOk(s)
  BY DEF SimilarInv
<1>2. id \in Ids /\ IdOk(id) /\ id.kind = s.kind /\ id.value = s.value /\ id.target = s.target
  BY <1>1 DEF Id, Ids, SuggestionOk, IdOk, ValueOfKind, Kinds
<1>3. before \in Notes
  BY <1>1 DEF SimilarInv, Vaults, SuggestionOk, IdOk
<1>4. After(id, before) = After(s, before)
  BY <1>2 DEF After
<1>5. After(s, before) \in Notes
  BY <1>1, <1>3, AfterIsNote DEF SuggestionOk
<1>6. s.target \in Paths /\ s.dest \in Paths \cup {None}
      /\ s.dest = IF id.kind = "folder-placement" THEN id.value ELSE None
  BY <1>1, <1>2 DEF SuggestionOk, IdOk, ValueOfKind
<1>7. OperationKind(s) \in {"update-note", "move-note", "update-frontmatter"} /\ taken \in BOOLEAN
  BY DEF OperationKind
<1> HIDE DEF taken, id, before
<1> QED
  BY <1>2, <1>3, <1>4, <1>5, <1>6, <1>7 DEF Changes, id, before, taken

LEMMA StageStep ==
  ASSUME SimilarInv, NEW c \in Callers, NEW s \in plan, Stage(c, s)
  PROVE  SimilarInv'
<1>1. vault[s.target] # None
  <2>1. SuggestionOk(s) /\ StageVerdict(s, vault, list) = "stages"
    BY DEF SimilarInv, Stage
  <2> QED
    BY <2>1 DEF SuggestionOk, StageVerdict
<1> DEFINE built ==
         [id |-> Id(s), operation |-> OperationKind(s), target |-> s.target, dest |-> s.dest,
          before |-> vault[s.target], after |-> After(s, vault[s.target]),
          taken |-> IF s.dest = None THEN FALSE ELSE vault[s.dest] # None,
          status |-> "building"]
<1>2. built \in Changes
  BY <1>1, BuiltIsChange
<1>3. building' = [building EXCEPT ![c] = built]
      /\ UNCHANGED <<vault, list, plan, fresh, applied, edits>>
  BY DEF Stage
<1> HIDE DEF built
<1>4. DOMAIN building' = Callers
      /\ \A d \in Callers : building'[d] # <<>> => building'[d] \in Changes
  BY <1>2, <1>3 DEF SimilarInv
<1> QED
  BY <1>3, <1>4 DEF SimilarInv, AppliedOk, OneReadyForNote

(* The list decides what a change is that is appended to it.                *)
LEMMA EndBuildStep ==
  ASSUME SimilarInv, NEW c \in Callers, EndBuild(c)
  PROVE  SimilarInv'
<1> DEFINE built == building[c]
           status == IF built.taken \/ ActiveFor(list, built.target, built.dest)
                     THEN "conflicted" ELSE "review-ready"
           change == [built EXCEPT !.status = status]
<1>1. built \in Changes
  BY DEF SimilarInv, EndBuild
<1>2. status \in {"conflicted", "review-ready"}
  OBVIOUS
<1>3. status = "review-ready" => ~ActiveFor(list, built.target, built.dest)
  OBVIOUS
<1>4. list' = Append(list, change) /\ building' = [building EXCEPT ![c] = <<>>]
      /\ fresh' = FALSE /\ UNCHANGED <<vault, plan, applied, edits>>
  BY DEF EndBuild
<1> HIDE DEF built, status
<1>5. /\ change \in Changes
      /\ change.status = status /\ change.target = built.target /\ change.dest = built.dest
  BY <1>1, <1>2 DEF Changes, ActiveStatuses
<1> HIDE DEF change
<1>6. /\ list \in Seq(Changes) /\ list' \in Seq(Changes)
      /\ Len(list') = Len(list) + 1 /\ list'[Len(list) + 1] = change
      /\ \A i \in 1 .. Len(list) : list'[i] = list[i]
      /\ DOMAIN list = 1 .. Len(list) /\ DOMAIN list' = 1 .. Len(list) + 1 /\ Len(list) \in Nat
  BY <1>4, <1>5 DEF SimilarInv
<1>7. \A i \in DOMAIN list' : list'[i].status # "building"
  BY <1>2, <1>5, <1>6 DEF SimilarInv
<1>8. OneReadyForNote'
  <2> SUFFICES ASSUME NEW i \in DOMAIN list', NEW j \in DOMAIN list', i < j,
                      list'[i].status = "review-ready", list'[j].status = "review-ready"
               PROVE  /\ list'[i].target \notin {list'[j].target, list'[j].dest}
                      /\ list'[j].target # list'[i].dest
    BY DEF OneReadyForNote
  <2>1. i \in DOMAIN list /\ list'[i] = list[i]
    BY <1>6
  <2>2. CASE j \in DOMAIN list
    BY <1>6, <2>1, <2>2 DEF SimilarInv, OneReadyForNote
  <2>3. CASE j \notin DOMAIN list
    <3>1. list'[j] = change
      BY <1>6, <2>3
    <3>2. ~ActiveFor(list, built.target, built.dest)
      BY <1>3, <1>5, <3>1
    <3>3. list[i].status \in ActiveStatuses
      BY <2>1 DEF ActiveStatuses
    <3>4. list[i].target \notin {built.target, built.dest} /\ list[i].dest # built.target
      BY <2>1, <3>2, <3>3 DEF ActiveFor
    <3> QED
      BY <1>5, <2>1, <3>1, <3>4
  <2> QED
    BY <2>2, <2>3
<1>9. DOMAIN building' = Callers
      /\ \A d \in Callers : building'[d] # <<>> => building'[d] \in Changes
  BY <1>4 DEF SimilarInv
<1> QED
  BY <1>4, <1>6, <1>7, <1>8, <1>9 DEF SimilarInv, AppliedOk

(* A change that is decided is active no more.                              *)
LEMMA Decided ==
  ASSUME SimilarInv, NEW i \in DOMAIN list, NEW status \in {"applied", "rejected"},
         list' = [list EXCEPT ![i].status = status]
  PROVE  /\ list' \in Seq(Changes)
         /\ \A j \in DOMAIN list' : list'[j].status # "building"
         /\ OneReadyForNote'
<1> DEFINE change == [list[i] EXCEPT !.status = status]
<1>1. list \in Seq(Changes) /\ list[i] \in Changes
  BY DEF SimilarInv
<1>2. change \in Changes /\ change.status = status
  BY <1>1 DEF Changes
<1>3. list' = [list EXCEPT ![i] = change]
  OBVIOUS
<1> HIDE DEF change
<1>4. list' \in Seq(Changes) /\ DOMAIN list' = DOMAIN list
      /\ \A j \in DOMAIN list : list'[j] = IF j = i THEN change ELSE list[j]
  BY <1>1, <1>2, <1>3
<1>5. \A j \in DOMAIN list' : list'[j].status # "building"
  BY <1>2, <1>4 DEF SimilarInv
<1>6. \A j \in DOMAIN list' : list'[j].status = "review-ready" => list'[j] = list[j]
  BY <1>2, <1>4
<1>7. OneReadyForNote'
  BY <1>4, <1>6 DEF SimilarInv, OneReadyForNote
<1> QED
  BY <1>4, <1>5, <1>7

LEMMA RejectStep ==
  ASSUME SimilarInv, NEW i \in DOMAIN list, Reject(i)
  PROVE  SimilarInv'
<1>1. list' = [list EXCEPT ![i].status = "rejected"] /\ fresh' = FALSE
      /\ UNCHANGED <<vault, plan, building, applied, edits>>
  BY DEF Reject
<1> QED
  BY <1>1, Decided DEF SimilarInv, AppliedOk

LEMMA ApplyStep ==
  ASSUME SimilarInv, NEW i \in DOMAIN list, Apply(i)
  PROVE  SimilarInv'
<1> DEFINE change == list[i]
           id == change.id
<1>1. /\ change \in Changes /\ id \in Ids /\ IdOk(id) /\ id.target = change.target
      /\ change.target \in Paths /\ change.before \in Notes /\ change.after \in Notes
      /\ change.after = After(id, change.before)
      /\ change.dest = IF id.kind = "folder-placement" THEN id.value ELSE None
      /\ change.dest \in Paths \cup {None}
  BY DEF SimilarInv, Changes, Ids
<1>2. /\ list' = [list EXCEPT ![i].status = "applied"]
      /\ vault[change.target] = change.before
      /\ change.dest # None => vault[change.dest] = None
      /\ fresh' = FALSE /\ UNCHANGED <<plan, building, edits>>
      /\ vault' = IF change.dest = None
                  THEN [vault EXCEPT ![change.target] = change.after]
                  ELSE [vault EXCEPT ![change.target] = None, ![change.dest] = change.after]
      /\ applied' = IF change.dest = None THEN applied \cup {id} ELSE Touched(change.target)
  BY DEF Apply
<1> HIDE DEF change, id
<1>3. vault' \in Vaults
  BY <1>1, <1>2 DEF SimilarInv, Vaults
<1>4. AppliedOk'
  <2> SUFFICES ASSUME NEW a \in applied'
               PROVE  /\ a \in Ids /\ a.kind # "folder-placement"
                      /\ vault'[a.target] # None
                      /\ ReadsBack(a) => Held(a, vault'[a.target])
    BY DEF AppliedOk
  <2>1. CASE change.dest = None
    <3>1. /\ vault' = [vault EXCEPT ![change.target] = change.after]
          /\ applied' = applied \cup {id}
          /\ id.kind # "folder-placement"
      BY <1>1, <1>2, <2>1, NoneIsNothing DEF IdOk, ValueOfKind
    <3>2. vault'[change.target] = After(id, change.before) /\ vault'[change.target] # None
      BY <1>1, <3>1, NoneIsNothing DEF SimilarInv, Vaults
    <3>3. CASE a \in applied
      <4>1. /\ a \in Ids /\ IdOk(a) /\ a.kind # "folder-placement" /\ a.target \in Paths
            /\ vault[a.target] # None
            /\ ReadsBack(a) => Held(a, vault[a.target])
        BY <3>3 DEF SimilarInv, AppliedOk, Ids
      <4>2. CASE a.target = change.target
        BY <1>1, <1>2, <3>2, <4>1, <4>2, HeldStays
      <4>3. CASE a.target # change.target
        BY <1>1, <3>1, <4>1, <4>3 DEF SimilarInv, Vaults
      <4> QED
        BY <4>2, <4>3
    <3>4. CASE a = id
      BY <1>1, <3>1, <3>2, <3>4, AppliedIsThere
    <3> QED
      BY <3>1, <3>3, <3>4
  <2>2. CASE change.dest # None
    <3>1. a \in applied /\ a.target # change.target
      BY <1>2, <2>2 DEF Touched
    <3>2. /\ a \in Ids /\ a.kind # "folder-placement" /\ a.target \in Paths
          /\ vault[a.target] # None
          /\ ReadsBack(a) => Held(a, vault[a.target])
      BY <3>1 DEF SimilarInv, AppliedOk, Ids
    <3>3. a.target # change.dest
      BY <1>2, <2>2, <3>2
    <3>4. vault'[a.target] = vault[a.target]
      BY <1>1, <1>2, <2>2, <3>1, <3>2, <3>3 DEF SimilarInv, Vaults
    <3> QED
      BY <3>2, <3>4
  <2> QED
    BY <2>1, <2>2
<1>5. /\ list' \in Seq(Changes)
      /\ \A j \in DOMAIN list' : list'[j].status # "building"
      /\ OneReadyForNote'
  BY <1>2, Decided
<1> QED
  BY <1>2, <1>3, <1>4, <1>5 DEF SimilarInv

LEMMA EditStep ==
  ASSUME SimilarInv, NEW p \in Paths, Edit(p)
  PROVE  SimilarInv'
<1>1. PICK note \in Drafts[p] : vault' = [vault EXCEPT ![p] = note]
  BY DEF Edit
<1>2. note \in Notes \cup {None}
  BY NotesAreParsed
<1>3. vault' \in Vaults
  BY <1>1, <1>2 DEF SimilarInv, Vaults
<1>4. edits < MaxEdits /\ edits' = edits + 1 /\ fresh' = FALSE
      /\ applied' = Touched(p) /\ UNCHANGED <<list, plan, building>>
  BY DEF Edit
<1>5. edits' \in 0 .. MaxEdits
  BY <1>4, BoundsAreNatural DEF SimilarInv
<1>6. AppliedOk'
  <2> SUFFICES ASSUME NEW a \in applied'
               PROVE  /\ a \in Ids /\ a.kind # "folder-placement"
                      /\ vault'[a.target] # None
                      /\ ReadsBack(a) => Held(a, vault'[a.target])
    BY DEF AppliedOk
  <2>1. a \in applied /\ a.target # p
    BY <1>4 DEF Touched
  <2>2. a \in Ids /\ a.target \in Paths
    BY <2>1 DEF SimilarInv, AppliedOk, Ids
  <2>3. vault'[a.target] = vault[a.target]
    BY <1>1, <2>1, <2>2 DEF SimilarInv, Vaults
  <2> QED
    BY <2>1, <2>3 DEF SimilarInv, AppliedOk
<1> QED
  BY <1>3, <1>4, <1>5, <1>6 DEF SimilarInv, OneReadyForNote

LEMMA SimilarStep ==
  ASSUME SimilarInv, [Next]_vars
  PROVE  SimilarInv'
<1>1. CASE UNCHANGED vars
  BY <1>1 DEF vars, SimilarInv, AppliedOk, OneReadyForNote
<1>2. CASE Next
  BY <1>2, MakePlanStep, StageStep, EndBuildStep, RejectStep, ApplyStep, EditStep DEF Next
<1> QED
  BY <1>1, <1>2

-----------------------------------------------------------------------------
(* What follows from the invariant *)

(* A state that the invariant describes is of its type.                     *)
LEMMA TypeOfInvariant == SimilarInv => TypeOK
<1> SUFFICES ASSUME SimilarInv
             PROVE  TypeOK
  OBVIOUS
<1>1. \A i \in DOMAIN list : list[i].status \in ActiveStatuses \cup {"applied", "rejected"}
  <2> TAKE i \in DOMAIN list
  <2>1. list[i] \in Changes /\ list[i].status # "building"
    BY DEF SimilarInv
  <2> QED
    BY <2>1 DEF Changes
<1>2. \A s \in plan : s.kind \in DOMAIN KindWeight /\ s.target # s.related
  BY KindsAre DEF SimilarInv, SuggestionOk, IdOk
<1>3. \A c \in Callers : building[c] # <<>> => building[c].before # None
  BY NoneIsNothing DEF SimilarInv, Changes
<1> QED
  BY <1>1, <1>2, <1>3 DEF SimilarInv, TypeOK, Vaults

(* What a fresh plan suggests is not in the note.                           *)
LEMMA SettlesOfInvariant == SimilarInv => AppliedSettles
<1> SUFFICES ASSUME SimilarInv, fresh, NEW s \in plan, ReadsBack(s), Id(s) \in applied
             PROVE  FALSE
  BY DEF AppliedSettles
<1> DEFINE a == Id(s)
<1>1. a.kind = s.kind /\ a.target = s.target /\ a.value = s.value
  BY DEF Id
<1>2. vault \in Vaults /\ s \in Suggestions(vault, list)
  BY DEF SimilarInv
<1>3. /\ SuggestionOk(s)
      /\ s.target \in Comparable(vault) /\ s.related \in Comparable(vault)
      /\ s.value \in ValuesOf(s.kind, vault, s.target, s.related)
  BY <1>2, SuggestionsAre
<1>4. s.kind \in Kinds
  BY <1>3 DEF SuggestionOk, IdOk
<1>5. ~Held(s, vault[s.target])
  BY <1>2, <1>3, <1>4, ValuesAreNew
<1>6. ReadsBack(a)
  BY <1>1 DEF ReadsBack
<1>7. Held(a, vault[a.target])
  BY <1>6 DEF SimilarInv, AppliedOk
<1> QED
  BY <1>1, <1>5, <1>7 DEF Held

(* The rule of a fresh plan is the rule of staging.                         *)
LEMMA StagesOfInvariant == SimilarInv => StageableStages
<1> SUFFICES ASSUME SimilarInv, fresh, NEW s \in plan,
                    s.stageability = "stageable", ReadsBack(s)
             PROVE  StageVerdict(s, vault, list) = "stages" <=>
                      /\ {s.target, s.dest} \cap Unstageable = {}
                      /\ s.kind \in InFrontmatter => vault[s.target].front # "none"
                      /\ s.kind = "wikilink" =>
                            s.value \notin vault[s.target].mentions \ vault[s.target].links
  BY DEF StageableStages
<1> DEFINE note == vault[s.target]
<1>1. vault \in Vaults /\ s \in Suggestions(vault, list)
  BY DEF SimilarInv
<1>2. /\ SuggestionOk(s)
      /\ s.target \in Comparable(vault) /\ s.related \in Comparable(vault)
      /\ s.value \in ValuesOf(s.kind, vault, s.target, s.related)
      /\ s.stageability = Stageability(s.kind, s.score, s.target, s.dest, vault, list)
  BY <1>1, SuggestionsAre
<1>3. s.kind \in Kinds
  BY <1>2 DEF SuggestionOk, IdOk
<1>4. ~Held(s, note)
  BY <1>1, <1>2, <1>3, ValuesAreNew
<1>5. HasAlready(s, note) <=> s.kind = "wikilink" /\ s.value \in note.mentions \ note.links
  <2>1. CASE s.kind = "wikilink"
    BY <1>4, <2>1 DEF HasAlready, Held
  <2>2. CASE s.kind # "wikilink"
    BY <1>3, <1>4, <2>2, AlreadyIsHeld
  <2> QED
    BY <2>1, <2>2
<1>6. ~ActiveFor(list, s.target, s.dest)
  BY <1>2 DEF Stageability
<1>7. note # None
  BY <1>2 DEF Comparable
<1> HIDE DEF note
<1>8. StageVerdict(s, vault, list) = "stages" <=>
        /\ s.target \notin Unstageable /\ s.dest \notin Unstageable
        /\ ~(s.kind \in InFrontmatter /\ note.front = "none")
        /\ ~HasAlready(s, note)
  BY <1>6, <1>7 DEF StageVerdict, note
<1> QED
  BY <1>5, <1>8 DEF note

(* Every state is of its type.                                              *)
THEOREM TypeCorrect == Spec => []TypeOK
  BY SimilarInit, SimilarStep, TypeOfInvariant, PTL DEF Spec

(* A suggestion that was applied, and reads back, is not made again while   *)
(* its note stays as it left it: whatever else is applied keeps the items   *)
(* that read back, and what is suggested is what is not read in the note.   *)
THEOREM AppliedStaysSettled == Spec => []AppliedSettles
  BY SimilarInit, SimilarStep, SettlesOfInvariant, PTL DEF Spec

(* What a plan calls stageable, and reads back, is staged while notes and   *)
(* changes are as they were, but for the names, the missing frontmatter and *)
(* the mentions at which the plan does not look, and is refused for them;   *)
(* for any notes, results, limits and callers.                              *)
THEOREM StageableIsKept == Spec => []StageableStages
  BY SimilarInit, SimilarStep, StagesOfInvariant, PTL DEF Spec

(* No two changes of one note are ready, for any number of callers that     *)
(* build at once: who comes second finds the list changed.                  *)
THEOREM ReadyIsSingle == Spec => []OneReadyForNote
<1>1. SimilarInv => OneReadyForNote
  BY DEF SimilarInv
<1> QED
  BY <1>1, SimilarInit, SimilarStep, PTL DEF Spec

-----------------------------------------------------------------------------
(* What is kept of a set that is sorted and cut *)

(* Of a set whose order is total, the first n are n, unless nothing is cut. *)
LEMMA CutKeepsAll ==
  ASSUME NEW D, IsFiniteSet(D), NEW below \in [D -> SUBSET D],
         \A x \in D : x \notin below[x],
         \A x, y \in D : y \in below[x] => below[y] \subseteq below[x],
         \A x, y \in D : x # y => x \in below[y] \/ y \in below[x],
         NEW n \in Nat, NEW w \in D, ~(Cardinality(below[w]) < n)
  PROVE  LET kept == {x \in D : Cardinality(below[x]) < n}
         IN  IsFiniteSet(kept) /\ Cardinality(kept) = n
<1> DEFINE N == Cardinality(D)
           p == [x \in D |-> Cardinality(below[x])]
           kept == {x \in D : Cardinality(below[x]) < n}
           g == [x \in kept |-> p[x]]
<1>1. \A x \in D : IsFiniteSet(below[x]) /\ Cardinality(below[x]) \in Nat
  BY FS_Subset, FS_CardinalityType
<1>2. N \in Nat
  BY FS_CardinalityType
<1>3. \A x \in D : Cardinality(below[x]) \in 0 .. N - 1
  <2> TAKE x \in D
  <2>1. below[x] \in SUBSET D /\ below[x] # D
    OBVIOUS
  <2>2. Cardinality(below[x]) <= N /\ Cardinality(below[x]) # N
    BY <2>1, FS_Subset
  <2> QED
    BY <1>1, <1>2, <2>2
<1>4. \A x, y \in D : y \in below[x] => Cardinality(below[y]) < Cardinality(below[x])
  <2> SUFFICES ASSUME NEW x \in D, NEW y \in D, y \in below[x]
               PROVE  Cardinality(below[y]) < Cardinality(below[x])
    OBVIOUS
  <2>1. below[y] \in SUBSET below[x] /\ below[y] # below[x]
    OBVIOUS
  <2>2. /\ IsFiniteSet(below[x])
        /\ Cardinality(below[x]) \in Nat /\ Cardinality(below[y]) \in Nat
    BY <1>1
  <2>3. Cardinality(below[y]) <= Cardinality(below[x])
        /\ Cardinality(below[y]) # Cardinality(below[x])
    BY <2>1, <2>2, FS_Subset
  <2> QED
    BY <2>2, <2>3
<1>5. p \in [D -> 0 .. N - 1] /\ \A x \in D : p[x] = Cardinality(below[x])
  BY <1>3
<1>6. \A x, y \in D : p[x] = p[y] => x = y
  BY <1>1, <1>4, <1>5
<1>7. p \in Injection(D, 0 .. N - 1)
  BY <1>5, <1>6 DEF Injection, IsInjective
<1>8. IsFiniteSet(0 .. N - 1) /\ Cardinality(0 .. N - 1) = N
  <2>1. 0 \in Int /\ N - 1 \in Int /\ (IF 0 > N - 1 THEN 0 ELSE (N - 1) - 0 + 1) = N
    BY <1>2
  <2> HIDE DEF N
  <2> QED
    BY <2>1, FS_Interval
<1>9. p \in Surjection(D, 0 .. N - 1)
  BY <1>7, <1>8, FS_Injection
<1>10. n <= N - 1
  BY <1>1, <1>2, <1>3
<1>11. \A k \in 0 .. n - 1 : \E x \in kept : p[x] = k
  <2> TAKE k \in 0 .. n - 1
  <2>1. k \in 0 .. N - 1
    BY <1>2, <1>10
  <2>2. PICK x \in D : p[x] = k
    BY <1>9, <2>1 DEF Surjection
  <2> QED
    BY <1>5, <2>2
<1>12. IsFiniteSet(kept)
  BY FS_Subset
<1>13. g \in Bijection(kept, 0 .. n - 1)
  <2>1. \A x \in kept : p[x] \in 0 .. n - 1
    BY <1>1, <1>5
  <2>2. g \in [kept -> 0 .. n - 1] /\ \A x \in kept : g[x] = p[x]
    BY <2>1
  <2>3. \A x, y \in kept : g[x] = g[y] => x = y
    BY <1>6, <2>2
  <2>4. \A k \in 0 .. n - 1 : \E x \in kept : g[x] = k
    BY <1>11, <2>2
  <2> HIDE DEF g, kept
  <2>5. g \in Injection(kept, 0 .. n - 1)
    BY <2>2, <2>3 DEF Injection, IsInjective
  <2>6. g \in Surjection(kept, 0 .. n - 1)
    BY <2>2, <2>4 DEF Surjection
  <2> QED
    BY <2>5, <2>6 DEF Bijection
<1>14. Cardinality(0 .. n - 1) = n
  BY FS_Interval
<1>15. ExistsBijection(kept, 0 .. n - 1)
  BY <1>13 DEF ExistsBijection
<1>16. Cardinality(0 .. n - 1) = Cardinality(kept)
  BY <1>12, <1>15, FS_Bijection
<1> QED
  BY <1>12, <1>14, <1>16

-----------------------------------------------------------------------------
(* The order of diagnostics *)

Diagnostics ==
    [severity : {"error", "info", "warning"},
     code : {"body-omitted", "bounded-output", "malformed-record", "missing-record",
             "read-failed", "secret-redacted", "stale-record"},
     source : {"health-report", "hot-cache", "operation-log", "staged-change"},
     about : {"chat-thread", "report", "record", "change"},
     of : 0 .. MaxStaged]

SeverityOf(d) == SeverityRank[d.severity]
CodeOf(d) == CodeRank[d.code]
SourceOf(d) == SourceRank[d.source]
AboutOf(d) == AboutRank[d.about]

Precedes(d, e) ==
    \/ SeverityOf(d) < SeverityOf(e)
    \/ /\ SeverityOf(d) = SeverityOf(e)
       /\ \/ CodeOf(d) < CodeOf(e)
          \/ /\ CodeOf(d) = CodeOf(e)
             /\ \/ SourceOf(d) < SourceOf(e)
                \/ /\ SourceOf(d) = SourceOf(e)
                   /\ \/ AboutOf(d) < AboutOf(e)
                      \/ AboutOf(d) = AboutOf(e) /\ d.of < e.of

(* The ranks tell apart what they rank.                                     *)
LEMMA RanksOfDiagnostics ==
  ASSUME NEW d \in Diagnostics
  PROVE  /\ SeverityOf(d) \in 1 .. 3 /\ CodeOf(d) \in 1 .. 7
         /\ SourceOf(d) \in 1 .. 4 /\ AboutOf(d) \in 1 .. 4 /\ d.of \in 0 .. MaxStaged
         /\ \A e \in Diagnostics :
                /\ SeverityOf(d) = SeverityOf(e) => d.severity = e.severity
                /\ CodeOf(d) = CodeOf(e) => d.code = e.code
                /\ SourceOf(d) = SourceOf(e) => d.source = e.source
                /\ AboutOf(d) = AboutOf(e) => d.about = e.about
<1>1. SeverityOf(d) \in 1 .. 3
      /\ \A e \in Diagnostics : SeverityOf(d) = SeverityOf(e) => d.severity = e.severity
  BY DEF Diagnostics, SeverityOf, SeverityRank
<1>2. CodeOf(d) \in 1 .. 7
      /\ \A e \in Diagnostics : CodeOf(d) = CodeOf(e) => d.code = e.code
  BY DEF Diagnostics, CodeOf, CodeRank
<1>3. SourceOf(d) \in 1 .. 4
      /\ \A e \in Diagnostics : SourceOf(d) = SourceOf(e) => d.source = e.source
  BY DEF Diagnostics, SourceOf, SourceRank
<1>4. AboutOf(d) \in 1 .. 4
      /\ \A e \in Diagnostics : AboutOf(d) = AboutOf(e) => d.about = e.about
  BY DEF Diagnostics, AboutOf, AboutRank
<1>5. d.of \in 0 .. MaxStaged
  BY DEF Diagnostics
<1> QED
  BY <1>1, <1>2, <1>3, <1>4, <1>5

(* Keys of diagnostics are compared number by number.                       *)
LEMMA KeysInOrder ==
  ASSUME NEW d \in Diagnostics, NEW e \in Diagnostics
  PROVE  Before(DiagnosticKey(d), DiagnosticKey(e)) <=> Precedes(d, e)
<1>1. \A x \in Diagnostics : /\ SeverityOf(x) \in Int /\ CodeOf(x) \in Int /\ SourceOf(x) \in Int
                             /\ AboutOf(x) \in Int /\ x.of \in Int
  BY RanksOfDiagnostics, LimitsHold
<1>2. \A x : DiagnosticKey(x)
               = <<SeverityOf(x), CodeOf(x), SourceOf(x), AboutOf(x), x.of>>
  BY DEF DiagnosticKey, SeverityOf, CodeOf, SourceOf, AboutOf
<1>3. PICK a1 \in Int, a2 \in Int, a3 \in Int, a4 \in Int, a5 \in Int :
          /\ a1 = SeverityOf(d) /\ a2 = CodeOf(d) /\ a3 = SourceOf(d)
          /\ a4 = AboutOf(d) /\ a5 = d.of
  BY <1>1
<1>4. PICK b1 \in Int, b2 \in Int, b3 \in Int, b4 \in Int, b5 \in Int :
          /\ b1 = SeverityOf(e) /\ b2 = CodeOf(e) /\ b3 = SourceOf(e)
          /\ b4 = AboutOf(e) /\ b5 = e.of
  BY <1>1
<1>5. /\ DiagnosticKey(d) = <<a1, a2, a3, a4, a5>>
      /\ DiagnosticKey(e) = <<b1, b2, b3, b4, b5>>
  BY <1>2, <1>3, <1>4
<1>6. Before(<<a1, a2, a3, a4, a5>>, <<b1, b2, b3, b4, b5>>)
      <=> \/ a1 < b1
          \/ a1 = b1 /\ a2 < b2
          \/ a1 = b1 /\ a2 = b2 /\ a3 < b3
          \/ a1 = b1 /\ a2 = b2 /\ a3 = b3 /\ a4 < b4
          \/ a1 = b1 /\ a2 = b2 /\ a3 = b3 /\ a4 = b4 /\ a5 < b5
  <2> DEFINE a == <<a1, a2, a3, a4, a5>>
             b == <<b1, b2, b3, b4, b5>>
             at(i) == a[i] < b[i] /\ \A j \in 1 .. i - 1 : a[j] = b[j]
  <2>1. DOMAIN a = {1, 2, 3, 4, 5}
    OBVIOUS
  <2>2. Before(a, b) <=> \E i \in {1, 2, 3, 4, 5} : at(i)
    BY <2>1 DEF Before
  <2>3. /\ 1 .. 1 - 1 = {} /\ 1 .. 2 - 1 = {1} /\ 1 .. 3 - 1 = {1, 2}
        /\ 1 .. 4 - 1 = {1, 2, 3} /\ 1 .. 5 - 1 = {1, 2, 3, 4}
    OBVIOUS
  <2>4. /\ a[1] = a1 /\ a[2] = a2 /\ a[3] = a3 /\ a[4] = a4 /\ a[5] = a5
        /\ b[1] = b1 /\ b[2] = b2 /\ b[3] = b3 /\ b[4] = b4 /\ b[5] = b5
    OBVIOUS
  <2> HIDE DEF a, b
  <2>5. /\ at(1) <=> a1 < b1
        /\ at(2) <=> a1 = b1 /\ a2 < b2
        /\ at(3) <=> a1 = b1 /\ a2 = b2 /\ a3 < b3
        /\ at(4) <=> a1 = b1 /\ a2 = b2 /\ a3 = b3 /\ a4 < b4
        /\ at(5) <=> a1 = b1 /\ a2 = b2 /\ a3 = b3 /\ a4 = b4 /\ a5 < b5
    BY <2>3, <2>4
  <2> HIDE DEF at
  <2>6. (\E i \in {1, 2, 3, 4, 5} : at(i)) <=> at(1) \/ at(2) \/ at(3) \/ at(4) \/ at(5)
    OBVIOUS
  <2>7. Before(a, b) <=> at(1) \/ at(2) \/ at(3) \/ at(4) \/ at(5)
    BY <2>2, <2>6
  <2> QED
    BY <2>5, <2>7 DEF a, b
<1>7. Precedes(d, e)
      <=> \/ a1 < b1
          \/ a1 = b1 /\ a2 < b2
          \/ a1 = b1 /\ a2 = b2 /\ a3 < b3
          \/ a1 = b1 /\ a2 = b2 /\ a3 = b3 /\ a4 < b4
          \/ a1 = b1 /\ a2 = b2 /\ a3 = b3 /\ a4 = b4 /\ a5 < b5
  BY <1>3, <1>4 DEF Precedes
<1> QED
  BY <1>5, <1>6, <1>7

(* The order is total: no two diagnostics have one key.                     *)
LEMMA PrecedesIsTotal ==
  ASSUME NEW d \in Diagnostics, NEW e \in Diagnostics
  PROVE  /\ ~Precedes(d, d)
         /\ d # e => Precedes(d, e) \/ Precedes(e, d)
         /\ \A x \in Diagnostics : Precedes(d, e) /\ Precedes(e, x) => Precedes(d, x)
<1>1. \A x \in Diagnostics : /\ SeverityOf(x) \in Int /\ CodeOf(x) \in Int /\ SourceOf(x) \in Int
                             /\ AboutOf(x) \in Int /\ x.of \in Int
  BY RanksOfDiagnostics, LimitsHold
<1>2. ~Precedes(d, d)
  BY <1>1 DEF Precedes
<1>3. d # e => \/ SeverityOf(d) # SeverityOf(e) \/ CodeOf(d) # CodeOf(e)
               \/ SourceOf(d) # SourceOf(e) \/ AboutOf(d) # AboutOf(e) \/ d.of # e.of
  <2> SUFFICES ASSUME SeverityOf(d) = SeverityOf(e), CodeOf(d) = CodeOf(e),
                      SourceOf(d) = SourceOf(e), AboutOf(d) = AboutOf(e), d.of = e.of
               PROVE  d = e
    OBVIOUS
  <2>1. d.severity = e.severity /\ d.code = e.code /\ d.source = e.source /\ d.about = e.about
    BY RanksOfDiagnostics
  <2> QED
    BY <2>1 DEF Diagnostics
<1>4. d # e => Precedes(d, e) \/ Precedes(e, d)
  BY <1>1, <1>3 DEF Precedes
<1>5. \A x \in Diagnostics : Precedes(d, e) /\ Precedes(e, x) => Precedes(d, x)
  BY <1>1 DEF Precedes
<1> QED
  BY <1>2, <1>4, <1>5

(* A diagnostic is one of finitely many.                                    *)
LEMMA DiagnosticsAreFinite ==
  IsFiniteSet(Diagnostics)
<1> DEFINE tail == (1 .. 4) \X (0 .. MaxStaged)
           middle == (1 .. 4) \X tail
           end == (1 .. 7) \X middle
           all == (1 .. 3) \X end
           f == [d \in Diagnostics |->
                    <<SeverityOf(d), <<CodeOf(d), <<SourceOf(d), <<AboutOf(d), d.of>>>>>>>>]
<1>1. /\ IsFiniteSet(1 .. 3) /\ IsFiniteSet(1 .. 4) /\ IsFiniteSet(1 .. 7)
      /\ IsFiniteSet(0 .. MaxStaged)
  <2>1. MaxStaged \in Int /\ 0 \in Int /\ 1 \in Int /\ 3 \in Int /\ 4 \in Int /\ 7 \in Int
    BY LimitsHold
  <2>2. \A m, n \in Int : IsFiniteSet(m .. n)
    BY FS_Interval
  <2> QED
    BY <2>1, <2>2, Zenon
<1>2. IsFiniteSet(tail)
  BY <1>1, FS_Product
<1>3. IsFiniteSet(middle)
  BY <1>1, <1>2, FS_Product
<1>4. IsFiniteSet(end)
  BY <1>1, <1>3, FS_Product
<1>5. IsFiniteSet(all)
  BY <1>1, <1>4, FS_Product
<1>6. f \in [Diagnostics -> all]
  BY RanksOfDiagnostics
<1>7. ASSUME NEW d \in Diagnostics, NEW e \in Diagnostics, f[d] = f[e]
      PROVE  d = e
  <2>1. /\ SeverityOf(d) = SeverityOf(e) /\ CodeOf(d) = CodeOf(e)
        /\ SourceOf(d) = SourceOf(e) /\ AboutOf(d) = AboutOf(e) /\ d.of = e.of
    BY <1>7
  <2>2. d.severity = e.severity /\ d.code = e.code /\ d.source = e.source /\ d.about = e.about
    BY <2>1, RanksOfDiagnostics
  <2> QED
    BY <2>1, <2>2 DEF Diagnostics
<1> HIDE DEF all, f
<1>8. f \in Injection(Diagnostics, all)
  BY <1>6, <1>7 DEF Injection, IsInjective
<1> QED
  BY <1>5, <1>8, FS_Injection

(* When a diagnostic is cut off, as many as may be are kept.                *)
LEMMA CutDiagnosticsAreFull ==
  ASSUME NEW D \in SUBSET Diagnostics, NEW w \in D,
         w \notin First(DiagnosticLimit, D, DiagnosticKey)
  PROVE  Cardinality(First(DiagnosticLimit, D, DiagnosticKey)) = DiagnosticLimit
<1> DEFINE below == [x \in D |-> {y \in D : Precedes(y, x)}]
           kept == {x \in D : Cardinality(below[x]) < DiagnosticLimit}
<1>1. DiagnosticLimit \in Nat
  BY LimitsHold
<1>2. IsFiniteSet(D)
  BY DiagnosticsAreFinite, FS_Subset
<1>3. \A x \in D : below[x] = {y \in D : Before(DiagnosticKey(y), DiagnosticKey(x))}
  BY KeysInOrder
<1>4. First(DiagnosticLimit, D, DiagnosticKey) = kept
  <2>1. First(DiagnosticLimit, D, DiagnosticKey)
        = {x \in D : Cardinality({y \in D : Before(DiagnosticKey(y), DiagnosticKey(x))})
                        < DiagnosticLimit}
    BY DEF First
  <2> HIDE DEF below
  <2> QED
    BY <1>3, <2>1
<1>5. ~(Cardinality(below[w]) < DiagnosticLimit)
  BY <1>4
<1>6. /\ below \in [D -> SUBSET D]
      /\ \A x \in D : x \notin below[x]
      /\ \A x, y \in D : y \in below[x] => below[y] \subseteq below[x]
      /\ \A x, y \in D : x # y => x \in below[y] \/ y \in below[x]
  BY PrecedesIsTotal
<1> HIDE DEF below
<1>7. Cardinality(kept) = DiagnosticLimit
  BY <1>1, <1>2, <1>5, <1>6, CutKeepsAll
<1> QED
  BY <1>4, <1>7

(* Of what is not cut off, an error is the first.                           *)
LEMMA ErrorsAreKept ==
  ASSUME NEW D \in SUBSET Diagnostics,
         \A d \in D : d.severity = "error" =>
             d \in {FileDiagnostic("error", "malformed-record"),
                    FileDiagnostic("error", "read-failed")},
         \E d \in D : d.severity = "error"
  PROVE  \E d \in First(DiagnosticLimit, D, DiagnosticKey) :
             d.severity = "error"
<1> DEFINE malformed == FileDiagnostic("error", "malformed-record")
           failed == FileDiagnostic("error", "read-failed")
<1>1. /\ malformed.severity = "error" /\ malformed.code = "malformed-record"
      /\ failed.severity = "error" /\ failed.code = "read-failed"
      /\ malformed.source = failed.source /\ malformed.about = failed.about
      /\ malformed.of = failed.of
  BY DEF FileDiagnostic, Diagnostic
<1>2. /\ SeverityRank["error"] = 1 /\ CodeRank["malformed-record"] = 3
      /\ CodeRank["read-failed"] = 5
  BY DEF SeverityRank, CodeRank
<1> HIDE DEF malformed, failed
<1>3. PICK e \in D : /\ e \in {malformed, failed}
                     /\ e = failed => malformed \notin D
  <2>1. CASE malformed \in D
    BY <1>1, <2>1
  <2>2. CASE malformed \notin D
    <3>1. PICK d \in D : d.severity = "error"
      OBVIOUS
    <3>2. d \in {malformed, failed}
      BY <3>1 DEF malformed, failed
    <3> QED
      BY <2>2, <3>2
  <2> QED
    BY <2>1, <2>2
<1>4. ASSUME NEW y \in D
      PROVE  ~Precedes(y, e)
  <2>1. SeverityOf(e) = 1 /\ e.severity = "error"
    BY <1>1, <1>2, <1>3 DEF SeverityOf
  <2>2. CASE y.severity # "error"
    <3>1. y \in Diagnostics /\ e \in Diagnostics
      OBVIOUS
    <3>2. SeverityOf(y) \in 1 .. 3 /\ SeverityOf(y) # SeverityOf(e)
      BY <2>1, <2>2, <3>1, RanksOfDiagnostics
    <3> QED
      BY <2>1, <3>2 DEF Precedes
  <2>3. CASE y.severity = "error"
    <3>1. y \in {malformed, failed}
      BY <2>3 DEF malformed, failed
    <3>2. CASE y = e
      BY <3>2, PrecedesIsTotal
    <3>3. CASE y # e
      <4>1. y = failed /\ e = malformed
        BY <1>3, <3>1, <3>3
      <4>2. SeverityOf(y) = 1 /\ CodeOf(y) = 5 /\ CodeOf(e) = 3
        BY <1>1, <1>2, <4>1 DEF SeverityOf, CodeOf
      <4> QED
        BY <2>1, <4>2 DEF Precedes
    <3> QED
      BY <3>2, <3>3
  <2> QED
    BY <2>2, <2>3
<1>5. {y \in D : Before(DiagnosticKey(y), DiagnosticKey(e))} = {}
  BY <1>4, KeysInOrder
<1>6. Cardinality({}) = 0 /\ 0 < DiagnosticLimit
  BY FS_EmptySet, LimitsHold
<1>7. e \in First(DiagnosticLimit, D, DiagnosticKey)
  <2>1. First(DiagnosticLimit, D, DiagnosticKey)
        = {x \in D : Cardinality({y \in D : Before(DiagnosticKey(y), DiagnosticKey(x))})
                        < DiagnosticLimit}
    BY DEF First
  <2>2. Cardinality({y \in D : Before(DiagnosticKey(y), DiagnosticKey(e))}) < DiagnosticLimit
    BY <1>5, <1>6
  <2> QED
    BY <2>1, <2>2
<1> QED
  BY <1>1, <1>3, <1>7

-----------------------------------------------------------------------------
(* The items of a summary *)

(* Items are finitely many, and their keys are numbers.                     *)
LEMMA ItemsAreFinite ==
  IsFiniteSet(Items)
<1> DEFINE tail == (0 .. MaxStaged) \X (0 .. MaxNow)
           end == (1 .. 4) \X tail
           all == (1 .. 4) \X end
           f == [i \in Items |-> <<SourceOf(i), <<AboutOf(i), <<i.of, i.at>>>>>>]
<1>1. IsFiniteSet(1 .. 4) /\ IsFiniteSet(0 .. MaxStaged) /\ IsFiniteSet(0 .. MaxNow)
  <2>1. MaxStaged \in Int /\ MaxNow \in Int /\ 0 \in Int /\ 1 \in Int /\ 4 \in Int
    BY LimitsHold
  <2>2. \A m, n \in Int : IsFiniteSet(m .. n)
    BY FS_Interval
  <2> QED
    BY <2>1, <2>2, Zenon
<1>2. IsFiniteSet(tail)
  BY <1>1, FS_Product
<1>3. IsFiniteSet(end)
  BY <1>1, <1>2, FS_Product
<1>4. IsFiniteSet(all)
  BY <1>1, <1>3, FS_Product
<1>5. \A i \in Items :
          /\ SourceOf(i) \in 1 .. 4 /\ AboutOf(i) \in 1 .. 4
          /\ i.of \in 0 .. MaxStaged /\ i.at \in 0 .. MaxNow
  BY DEF Items, Times, SourceOf, AboutOf, SourceRank, AboutRank
<1>6. f \in [Items -> all]
  BY <1>5
<1>7. ASSUME NEW i \in Items, NEW j \in Items, f[i] = f[j]
      PROVE  i = j
  <2>1. SourceOf(i) = SourceOf(j) /\ AboutOf(i) = AboutOf(j) /\ i.of = j.of /\ i.at = j.at
    BY <1>7
  <2>2. i.source = j.source
    BY <2>1 DEF Items, SourceOf, SourceRank
  <2>3. i.about = j.about
    BY <2>1 DEF Items, AboutOf, AboutRank
  <2> QED
    BY <2>1, <2>2, <2>3 DEF Items
<1> HIDE DEF all, f
<1>8. f \in Injection(Items, all)
  BY <1>6, <1>7 DEF Injection, IsInjective
<1> QED
  BY <1>4, <1>8, FS_Injection

(* Items that are no more than may be are all kept.                         *)
LEMMA FewItemsAreKept ==
  ASSUME NEW S \in SUBSET Items, Cardinality(S) <= ItemLimit
  PROVE  First(ItemLimit, S, ItemKey) = S
<1>1. IsFiniteSet(S) /\ Cardinality(S) \in Nat
  BY ItemsAreFinite, FS_Subset, FS_CardinalityType
<1>2. ASSUME NEW x \in S
      PROVE  ~Before(ItemKey(x), ItemKey(x))
  <2>1. ItemKey(x) = <<SourceRank[x.source], AboutRank[x.about], x.of>>
    BY DEF ItemKey
  <2>2. /\ SourceRank[x.source] \in Int /\ AboutRank[x.about] \in Int
        /\ x.of \in Int
    BY LimitsHold DEF Items, SourceRank, AboutRank
  <2>3. \A i \in DOMAIN ItemKey(x) : ItemKey(x)[i] \in Int
    BY <2>1, <2>2
  <2>4. \A i \in DOMAIN ItemKey(x) : ~(ItemKey(x)[i] < ItemKey(x)[i])
    BY <2>3
  <2> QED
    BY <2>4 DEF Before
<1>3. ASSUME NEW x \in S
      PROVE  Cardinality({y \in S : Before(ItemKey(y), ItemKey(x))})
                 < ItemLimit
  <2> DEFINE below == {y \in S : Before(ItemKey(y), ItemKey(x))}
  <2>1. below \in SUBSET S /\ below # S
    BY <1>2
  <2> HIDE DEF below
  <2>2. IsFiniteSet(below) /\ Cardinality(below) <= Cardinality(S)
        /\ Cardinality(below) # Cardinality(S)
    BY <1>1, <2>1, FS_Subset
  <2>3. Cardinality(below) \in Nat
    BY <2>2, FS_CardinalityType
  <2>4. Cardinality(below) < ItemLimit
    BY <1>1, <2>2, <2>3, LimitsHold
  <2> QED
    BY <2>4 DEF below
<1>4. First(ItemLimit, S, ItemKey)
      = {x \in S : Cardinality({y \in S : Before(ItemKey(y), ItemKey(x))}) < ItemLimit}
  BY DEF First
<1> QED
  BY <1>3, <1>4

-----------------------------------------------------------------------------
(* What a summary says *)

ChangeRecords ==
    [id : ChangeIds, at : Times, open : BOOLEAN, body : BOOLEAN]

LogEntries == [of : ChangeIds, at : Times]

(* What may be read or remembered. *)
Values == Captures \cup {Missing, Malformed, Leaky}

ShownOk(s) ==
    /\ s.items \subseteq s.evidence /\ s.evidence \subseteq Items
    /\ ~s.sound => s.status \in {"partial", "invalid"}
    /\ (/\ s.status = "ready"
        /\ Cardinality({d \in s.diagnostics : d.severity = "info"}) # DiagnosticLimit)
       => /\ s.items = s.evidence
          /\ \A i \in s.evidence : ~IsStale(i, s.at)

(* What stands for a record that cannot be used is no record.               *)
LEMMA LostIsNoCapture ==
  {Missing, Malformed, Leaky, Torn} \cap Captures = {}
<1>1. \A c \in Captures : "at" \in DOMAIN c
  BY DEF Captures
<1>2. \A c \in {Missing, Malformed, Leaky, Torn} : "at" \notin DOMAIN c
  BY DEF Missing, Malformed, Leaky, Torn
<1> QED
  BY <1>1, <1>2

(* All evidence is of items.                                                *)
LEMMA EvidenceIsItems ==
  ASSUME NEW value \in Values, NEW staged \in SUBSET ChangeRecords,
         NEW times \in SUBSET Times, NEW entries \in SUBSET LogEntries
  PROVE  /\ CacheItems(value) \subseteq Items
         /\ ChangeItems(staged) \subseteq Items
         /\ ReportItems(times) \subseteq Items
         /\ LogItems(entries) \subseteq Items
<1>1. Items = [source : {"health-report", "hot-cache", "operation-log", "staged-change"},
               about : {"chat-thread", "report", "record", "change"},
               of : 0 .. MaxStaged, at : Times]
  BY DEF Items, SourceRank, AboutRank
<1>2. MaxStaged \in Nat /\ ChangeIds \subseteq 0 .. MaxStaged /\ 0 \in 0 .. MaxStaged
  BY LimitsHold DEF ChangeIds
<1>3. CacheItems(value) \subseteq Items
  <2>1. CASE value \in Captures
    <3>1. value.at \in Times /\ value.entries \in SUBSET Items
      BY <2>1 DEF Captures
    <3>2. Item("hot-cache", "record", 0, value.at) \in Items
      BY <1>1, <1>2, <3>1 DEF Item
    <3>3. \A e \in value.entries : [e EXCEPT !.source = "hot-cache"] \in Items
      BY <1>1, <3>1
    <3> QED
      BY <2>1, <3>2, <3>3 DEF CacheItems, IsCapture
  <2>2. CASE value \notin Captures
    BY <2>2 DEF CacheItems, IsCapture
  <2> QED
    BY <2>1, <2>2
<1>4. \A c \in staged : Item("staged-change", "change", c.id, c.at) \in Items
  BY <1>1, <1>2 DEF Item, ChangeRecords
<1>5. \A t \in times : Item("health-report", "report", 0, t) \in Items
  BY <1>1, <1>2 DEF Item
<1>6. \A e \in entries : Item("operation-log", "change", e.of, e.at) \in Items
  BY <1>1, <1>2 DEF Item, LogEntries
<1> QED
  BY <1>3, <1>4, <1>5, <1>6 DEF ChangeItems, ReportItems, LogItems

(* All that is diagnosed is a diagnostic, and errors are those of the record. *)
LEMMA DiagnosticsAre ==
  ASSUME NEW value \in Values, NEW staged \in SUBSET ChangeRecords,
         NEW items \in SUBSET Items, NEW t, NEW failed \in BOOLEAN,
         NEW D,
         D = CacheDiagnostics(value) \cup BodyDiagnostics(staged)
             \cup (IF failed THEN {FileDiagnostic("error", "read-failed")} ELSE {})
             \cup StaleDiagnostics(items, t) \cup Bounded(items)
  PROVE  /\ D \in SUBSET Diagnostics
         /\ \A d \in D : d.severity = "error" =>
                d \in {FileDiagnostic("error", "malformed-record"),
                       FileDiagnostic("error", "read-failed")}
<1> DEFINE errors == {FileDiagnostic("error", "malformed-record"),
                      FileDiagnostic("error", "read-failed")}
           fine(d) == d \in Diagnostics /\ (d.severity = "error" => d \in errors)
<1>1. MaxStaged \in Nat /\ ChangeIds \subseteq 0 .. MaxStaged /\ 0 \in 0 .. MaxStaged
  BY LimitsHold DEF ChangeIds
<1>2. /\ fine(FileDiagnostic("error", "malformed-record"))
      /\ fine(FileDiagnostic("error", "read-failed"))
      /\ fine(FileDiagnostic("warning", "missing-record"))
      /\ fine(FileDiagnostic("warning", "secret-redacted"))
      /\ fine(FileDiagnostic("warning", "bounded-output"))
  BY <1>1 DEF FileDiagnostic, Diagnostic, Diagnostics
<1>3. \A c \in staged : fine(Diagnostic("info", "body-omitted", "staged-change", "change", c.id))
  BY <1>1 DEF Diagnostic, Diagnostics, ChangeRecords
<1>4. \A i \in items : fine(Diagnostic("warning", "stale-record", i.source, i.about, i.of))
  <2>1. Items = [source : {"health-report", "hot-cache", "operation-log", "staged-change"},
                 about : {"chat-thread", "report", "record", "change"},
                 of : 0 .. MaxStaged, at : Times]
    BY DEF Items, SourceRank, AboutRank
  <2> QED
    BY <2>1 DEF Diagnostic, Diagnostics
<1> HIDE DEF fine
<1>5. \A d \in CacheDiagnostics(value) : fine(d)
  <2>1. CASE value \in Captures
    BY <2>1, LostIsNoCapture DEF CacheDiagnostics, IsCapture
  <2>2. CASE value \notin Captures /\ value = Missing
    BY <1>2, <2>2 DEF CacheDiagnostics, IsCapture, Missing, Malformed, Leaky
  <2>3. CASE value \notin Captures /\ value = Malformed
    BY <1>2, <2>3 DEF CacheDiagnostics, IsCapture, Missing, Malformed, Leaky
  <2>4. CASE value \notin Captures /\ value = Leaky
    BY <1>2, <2>4 DEF CacheDiagnostics, IsCapture, Missing, Malformed, Leaky
  <2> QED
    BY <2>1, <2>2, <2>3, <2>4 DEF Values
<1>6. \A d \in BodyDiagnostics(staged) : fine(d)
  BY <1>3 DEF BodyDiagnostics
<1>7. \A d \in StaleDiagnostics(items, t) : fine(d)
  BY <1>4 DEF StaleDiagnostics
<1>8. \A d \in Bounded(items) : fine(d)
  BY <1>2 DEF Bounded
<1>9. \A d \in D : fine(d)
  BY <1>2, <1>5, <1>6, <1>7, <1>8
<1> QED
  BY <1>9 DEF fine

(* A summary that misses the record says so, and one that is ready is whole. *)
LEMMA SummaryOk ==
  ASSUME NEW value \in Values, NEW staged \in SUBSET ChangeRecords,
         NEW times \in SUBSET Times, NEW entries \in SUBSET LogEntries,
         NEW t, NEW failed \in BOOLEAN
  PROVE  ShownOk(Summary(value, failed, staged, times, entries, t))
<1> DEFINE evidence == CacheItems(value) \cup ChangeItems(staged)
                           \cup ReportItems(times) \cup LogItems(entries)
           D == CacheDiagnostics(value) \cup BodyDiagnostics(staged)
                \cup (IF failed THEN {FileDiagnostic("error", "read-failed")} ELSE {})
                \cup StaleDiagnostics(evidence, t) \cup Bounded(evidence)
           items == First(ItemLimit, evidence, ItemKey)
           diagnostics == First(DiagnosticLimit, D, DiagnosticKey)
           s == Summary(value, failed, staged, times, entries, t)
<1>1. /\ s.items = items /\ s.evidence = evidence /\ s.diagnostics = diagnostics /\ s.at = t
      /\ s.status = StatusFor(items, diagnostics)
      /\ s.sound = (~failed /\ (IsCapture(value) \/ value = Missing))
  BY DEF Summary
<1>2. evidence \in SUBSET Items
  BY EvidenceIsItems
<1>3. StaleDiagnostics(evidence, t) \subseteq D /\ Bounded(evidence) \subseteq D
      /\ CacheDiagnostics(value) \subseteq D
      /\ (failed => FileDiagnostic("error", "read-failed") \in D)
  OBVIOUS
<1> HIDE DEF evidence
<1>4. /\ D \in SUBSET Diagnostics
      /\ \A d \in D : d.severity = "error" =>
             d \in {FileDiagnostic("error", "malformed-record"),
                    FileDiagnostic("error", "read-failed")}
  <2>1. D = CacheDiagnostics(value) \cup BodyDiagnostics(staged)
            \cup (IF failed THEN {FileDiagnostic("error", "read-failed")} ELSE {})
            \cup StaleDiagnostics(evidence, t) \cup Bounded(evidence)
    OBVIOUS
  <2> HIDE DEF D
  <2> QED
    BY <1>2, <2>1, DiagnosticsAre
<1> HIDE DEF D
<1>5. items \subseteq evidence /\ diagnostics \subseteq D
  BY DEF First
<1> HIDE DEF items, diagnostics
<1>6. ASSUME ~s.sound
      PROVE  s.status \in {"partial", "invalid"}
  <2>1. \E d \in D : d.severity = "error"
    <3>1. CASE failed
      BY <1>3, <3>1 DEF FileDiagnostic, Diagnostic
    <3>2. CASE ~failed
      <4>1. value \notin Captures /\ value \in {Malformed, Leaky}
        BY <1>1, <1>6, <3>2 DEF Values, IsCapture
      <4>2. FileDiagnostic("error", "malformed-record") \in CacheDiagnostics(value)
        BY <4>1 DEF CacheDiagnostics, IsCapture, Missing, Malformed, Leaky
      <4> QED
        BY <1>3, <4>2 DEF FileDiagnostic, Diagnostic
    <3> QED
      BY <3>1, <3>2
  <2>2. \E d \in diagnostics : d.severity = "error"
    BY <1>4, <2>1, ErrorsAreKept DEF diagnostics
  <2> QED
    BY <1>1, <2>2 DEF StatusFor
<1>7. ASSUME s.status = "ready",
             Cardinality({d \in s.diagnostics : d.severity = "info"}) # DiagnosticLimit
      PROVE  s.items = s.evidence /\ \A i \in s.evidence : ~IsStale(i, s.at)
  <2>1. \A d \in diagnostics : d.severity = "info"
    BY <1>1, <1>7 DEF StatusFor
  <2>2. {d \in s.diagnostics : d.severity = "info"} = diagnostics
    BY <1>1, <2>1
  <2>3. Cardinality(diagnostics) # DiagnosticLimit
    BY <1>7, <2>2
  <2>4. \A d \in D : d \in diagnostics
    BY <1>4, <2>3, CutDiagnosticsAreFull DEF diagnostics
  <2>5. \A d \in D : d.severity = "info"
    BY <2>1, <2>4
  <2>6. \A i \in evidence : ~IsStale(i, t)
    <3> SUFFICES ASSUME NEW i \in evidence, IsStale(i, t)
                 PROVE  FALSE
      OBVIOUS
    <3> DEFINE d == Diagnostic("warning", "stale-record", i.source, i.about, i.of)
    <3>1. d \in StaleDiagnostics(evidence, t)
      BY DEF StaleDiagnostics
    <3>2. d.severity = "warning"
      BY DEF Diagnostic
    <3> HIDE DEF d
    <3> QED
      BY <1>3, <2>5, <3>1, <3>2
  <2>7. ~(Cardinality(evidence) > ItemLimit)
    <3> SUFFICES ASSUME Cardinality(evidence) > ItemLimit
                 PROVE  FALSE
      OBVIOUS
    <3> DEFINE d == FileDiagnostic("warning", "bounded-output")
    <3>1. d \in Bounded(evidence)
      BY DEF Bounded
    <3>2. d.severity = "warning"
      BY DEF FileDiagnostic, Diagnostic
    <3> HIDE DEF d
    <3> QED
      BY <1>3, <2>5, <3>1, <3>2
  <2>8. Cardinality(evidence) \in Nat /\ ItemLimit \in Nat
    BY <1>2, ItemsAreFinite, FS_Subset, FS_CardinalityType, LimitsHold
  <2>9. Cardinality(evidence) <= ItemLimit
    BY <2>7, <2>8
  <2>10. items = evidence
    BY <1>2, <2>9, FewItemsAreKept DEF items
  <2> QED
    BY <1>1, <2>6, <2>10
<1> HIDE DEF s
<1> QED
  BY <1>1, <1>2, <1>5, <1>6, <1>7 DEF ShownOk, s

-----------------------------------------------------------------------------
(* The invariant of the recovery *)

RecoveryInv ==
    /\ now \in Times /\ loads \in 0 .. MaxLoads /\ up \in BOOLEAN
    /\ file \in Captures \cup {Missing, Malformed, Null, Torn}
    /\ writing \in Captures \cup {Missing}
    /\ memory \in Captures \cup {Missing}
    /\ changes \in SUBSET ChangeRecords
    /\ report = {} \/ \E t \in Times : report = {t}
    /\ log \in SUBSET LogEntries
    /\ run \in [Loads -> {"idle", "looking", "reading"}]
    /\ ShownOk(shown)

LEMMA NothingShownOk == ShownOk(NoSummary)
  BY DEF ShownOk, NoSummary

LEMMA RecoveryInitOk ==
  ASSUME RecoveryInit
  PROVE  RecoveryInv
<1>1. 0 \in Times /\ 0 \in 0 .. MaxLoads
  BY LimitsHold DEF Times
<1> QED
  BY <1>1, NothingShownOk DEF RecoveryInit, RecoveryInv

(* What a capture lists are items.                                          *)
LEMMA CaptureNowIsCapture ==
  ASSUME RecoveryInv
  PROVE  CaptureNow \in Captures
<1> DEFINE entries ==
        {Item("hot-cache", "chat-thread", 0, now)}
         \cup {Item("hot-cache", "change", c.id, c.at) : c \in {c \in changes : c.open}}
         \cup {Item("hot-cache", "report", 0, t) : t \in report}
<1>1. Items = [source : {"health-report", "hot-cache", "operation-log", "staged-change"},
               about : {"chat-thread", "report", "record", "change"},
               of : 0 .. MaxStaged, at : Times]
  BY DEF Items, SourceRank, AboutRank
<1>2. MaxStaged \in Nat /\ ChangeIds \subseteq 0 .. MaxStaged /\ 0 \in 0 .. MaxStaged
  BY LimitsHold DEF ChangeIds
<1>3. Item("hot-cache", "chat-thread", 0, now) \in Items
  BY <1>1, <1>2 DEF Item, RecoveryInv
<1>4. \A c \in changes : Item("hot-cache", "change", c.id, c.at) \in Items
  BY <1>1, <1>2 DEF Item, RecoveryInv, ChangeRecords
<1>5. \A t \in report : Item("hot-cache", "report", 0, t) \in Items
  BY <1>1, <1>2 DEF Item, RecoveryInv
<1>6. entries \in SUBSET Items
  BY <1>3, <1>4, <1>5
<1>7. CaptureNow = [at |-> now, entries |-> entries]
  BY DEF CaptureNow
<1> HIDE DEF entries
<1> QED
  BY <1>6, <1>7 DEF Captures, RecoveryInv

(* Whatever was read, what is shown of it is as it should be.               *)
LEMMA ShowStep ==
  ASSUME RecoveryInv, NEW l \in Loads, NEW read \in Values,
         NEW failed \in BOOLEAN, Show(l, read, failed)
  PROVE  RecoveryInv'
<1> DEFINE value == IF read = Missing THEN MemoryOf(l) ELSE read
<1>1. value \in Values
  BY DEF Values, RecoveryInv, MemoryOf
<1>2. /\ ListOf(l) \in SUBSET ChangeRecords
      /\ ReportOf(l) \in SUBSET Times
      /\ LogOf(l) \in SUBSET LogEntries
  BY DEF RecoveryInv, ListOf, ReportOf, LogOf
<1>3. shown' = Summary(value, failed, ListOf(l), ReportOf(l), LogOf(l), now)
  BY DEF Show
<1> HIDE DEF value
<1>4. ShownOk(Summary(value, failed, ListOf(l), ReportOf(l), LogOf(l), now))
  BY <1>1, <1>2, SummaryOk
<1>5. ShownOk(shown')
  BY <1>3, <1>4
<1>6. /\ UNCHANGED <<now, loads, up, file, writing, memory, changes, report, log>>
      /\ run' = [run EXCEPT ![l] = "idle"]
  BY DEF Show, plugin
<1>7. run' \in [Loads -> {"idle", "looking", "reading"}]
  BY <1>6 DEF RecoveryInv
<1> QED
  BY <1>5, <1>6, <1>7 DEF RecoveryInv

(* The steps of a run of the command.                                       *)
LEMMA CommandStep ==
  ASSUME RecoveryInv,
         \/ Recover
         \/ \E l \in Loads : Exists(l) \/ NoRecord(l) \/ Read(l) \/ ReadFails(l)
  PROVE  RecoveryInv'
<1>1. CASE Recover
  <2>1. /\ UNCHANGED <<now, loads, up, file, writing, memory, changes, report, log>>
        /\ run' = [run EXCEPT ![loads] = "looking"] /\ shown' = NoSummary
    BY <1>1 DEF Recover, plugin
  <2>2. run' \in [Loads -> {"idle", "looking", "reading"}]
    BY <2>1 DEF RecoveryInv
  <2> QED
    BY <2>1, <2>2, NothingShownOk DEF RecoveryInv
<1>2. ASSUME NEW l \in Loads, Exists(l)
      PROVE  RecoveryInv'
  <2>1. /\ UNCHANGED <<now, loads, up, file, writing, memory, changes, report, log>>
        /\ run' = [run EXCEPT ![l] = "reading"] /\ shown' = NoSummary
    BY <1>2 DEF Exists, plugin
  <2>2. run' \in [Loads -> {"idle", "looking", "reading"}]
    BY <2>1 DEF RecoveryInv
  <2> QED
    BY <2>1, <2>2, NothingShownOk DEF RecoveryInv
<1>3. ASSUME NEW l \in Loads, NoRecord(l) \/ Read(l) \/ ReadFails(l)
      PROVE  RecoveryInv'
  <2>1. CASE NoRecord(l)
    <3>1. Show(l, Missing, FALSE) /\ Missing \in Values
      BY <2>1 DEF NoRecord, Values
    <3> QED
      BY <3>1, ShowStep
  <2>2. CASE Read(l)
    <3>1. PICK content \in Readable : Show(l, content, FALSE)
      BY <2>2 DEF Read
    <3>2. content \in Values
      BY DEF Readable, OnDisk, Values, RecoveryInv
    <3> QED
      BY <3>1, <3>2, ShowStep
  <2>3. CASE ReadFails(l)
    <3>1. Show(l, Missing, TRUE) /\ Missing \in Values
      BY <2>3 DEF ReadFails, Values
    <3> QED
      BY <3>1, ShowStep
  <2> QED
    BY <1>3, <2>1, <2>2, <2>3
<1> QED
  BY <1>1, <1>2, <1>3

(* The steps that change what a recovery would find.                        *)
LEMMA PluginStep ==
  ASSUME RecoveryInv, StageChange \/ Decide \/ Scan
  PROVE  RecoveryInv'
<1>1. CASE StageChange
  <2>1. PICK id \in ChangeIds, body \in BOOLEAN :
            changes' = changes \cup {[id |-> id, at |-> now, open |-> TRUE, body |-> body]}
    BY <1>1 DEF StageChange
  <2>2. [id |-> id, at |-> now, open |-> TRUE, body |-> body] \in ChangeRecords
    BY DEF RecoveryInv, ChangeRecords
  <2>3. changes' \in SUBSET ChangeRecords
    BY <2>1, <2>2 DEF RecoveryInv
  <2> QED
    BY <1>1, <2>3, NothingShownOk DEF RecoveryInv, StageChange
<1>2. CASE Decide
  <2>1. PICK c \in changes :
            /\ changes' = (changes \ {c}) \cup {[c EXCEPT !.open = FALSE, !.at = now]}
            /\ log' = log \cup {[of |-> c.id, at |-> now]}
    BY <1>2 DEF Decide
  <2>2. c \in ChangeRecords /\ now \in Times
    BY DEF RecoveryInv
  <2>3. [c EXCEPT !.open = FALSE, !.at = now] \in ChangeRecords
        /\ [of |-> c.id, at |-> now] \in LogEntries
    BY <2>2 DEF ChangeRecords, LogEntries
  <2>4. changes' \in SUBSET ChangeRecords /\ log' \in SUBSET LogEntries
    BY <2>1, <2>3 DEF RecoveryInv
  <2> QED
    BY <1>2, <2>4, NothingShownOk DEF RecoveryInv, Decide
<1>3. CASE Scan
  BY <1>3, NothingShownOk DEF RecoveryInv, Scan
<1> QED
  BY <1>1, <1>2, <1>3

LEMMA RecordStep ==
  ASSUME RecoveryInv, BeginWrite \/ EndWrite \/ FailWrite \/ EditRecord
  PROVE  RecoveryInv'
<1>1. CASE BeginWrite
  BY <1>1, CaptureNowIsCapture, NothingShownOk DEF RecoveryInv, BeginWrite, plugin
<1>2. CASE EndWrite
  BY <1>2, NothingShownOk DEF RecoveryInv, EndWrite, plugin
<1>3. CASE FailWrite
  BY <1>3, NothingShownOk DEF RecoveryInv, FailWrite, plugin
<1>4. CASE EditRecord
  BY <1>4, NothingShownOk DEF RecoveryInv, EditRecord, plugin, Foreign
<1> QED
  BY <1>1, <1>2, <1>3, <1>4

LEMMA LifeStep ==
  ASSUME RecoveryInv, Tick \/ Load \/ Unload \/ Crash
  PROVE  RecoveryInv'
<1>1. CASE Tick
  <2>1. now' \in Times
    BY <1>1, LimitsHold DEF RecoveryInv, Tick, Times
  <2> QED
    BY <1>1, <2>1, NothingShownOk DEF RecoveryInv, Tick, plugin
<1>2. CASE Load
  <2>1. loads' \in 0 .. MaxLoads
    BY <1>2, LimitsHold DEF RecoveryInv, Load
  <2>2. memory' \in Captures \cup {Missing} /\ up' = TRUE
    BY <1>2 DEF Load, IsCapture
  <2> QED
    BY <1>2, <2>1, <2>2, NothingShownOk DEF RecoveryInv, Load, plugin
<1>3. CASE Unload
  BY <1>3, NothingShownOk DEF RecoveryInv, Unload, Cleared
<1>4. CASE Crash
  <2>1. file' \in Captures \cup {Missing, Malformed, Null, Torn}
    BY <1>4 DEF RecoveryInv, Crash, OnDisk
  <2> QED
    BY <1>4, <2>1, NothingShownOk DEF RecoveryInv, Crash, Cleared
<1> QED
  BY <1>1, <1>2, <1>3, <1>4

LEMMA RecoveryStep ==
  ASSUME RecoveryInv, [RecoveryNext]_recoveryVars
  PROVE  RecoveryInv'
<1>1. CASE UNCHANGED recoveryVars
  BY <1>1 DEF recoveryVars, RecoveryInv
<1>2. CASE RecoveryNext
  BY <1>2, CommandStep, PluginStep, RecordStep, LifeStep DEF RecoveryNext
<1> QED
  BY <1>1, <1>2

-----------------------------------------------------------------------------
(* What follows for every recovery *)

(* A recovery never calls itself ready, nor says that nothing was there,    *)
(* when the record could not be read, however much of it is cut off: an     *)
(* error is sorted before all that is none.                                 *)
THEOREM FailuresAlwaysShow == RecoverySpec => []FailuresShow
<1>1. RecoveryInv => FailuresShow
  BY DEF RecoveryInv, ShownOk, FailuresShow
<1>2. RecoveryInit => RecoveryInv
  BY RecoveryInitOk
<1>3. RecoveryInv /\ [RecoveryNext]_recoveryVars => RecoveryInv'
  BY RecoveryStep
<1> QED
  BY <1>1, <1>2, <1>3, PTL DEF RecoverySpec

(* A recovery that calls itself ready left nothing out and shows nothing    *)
(* stale, unless information alone fills the limit of diagnostics: what was *)
(* cut off otherwise leaves as many behind as may be shown.                 *)
THEOREM ReadyIsTheWhole == RecoverySpec => []ReadyTellsTheWhole
<1>1. RecoveryInv => ReadyTellsTheWhole
  BY DEF RecoveryInv, ShownOk, ReadyTellsTheWhole, WarningsHidden
<1>2. RecoveryInit => RecoveryInv
  BY RecoveryInitOk
<1>3. RecoveryInv /\ [RecoveryNext]_recoveryVars => RecoveryInv'
  BY RecoveryStep
<1> QED
  BY <1>1, <1>2, <1>3, PTL DEF RecoverySpec

(* Every state of a recovery is of its type.                                *)
THEOREM RecoveryTypeCorrect == RecoverySpec => []RecoveryTypeOK
<1>1. RecoveryInv => RecoveryTypeOK
  <2> SUFFICES ASSUME RecoveryInv
               PROVE  RecoveryTypeOK
    OBVIOUS
  <2>1. \A c \in changes : /\ c.id \in ChangeIds /\ c.at \in Times
                           /\ {c.open, c.body} \subseteq BOOLEAN
    BY DEF RecoveryInv, ChangeRecords
  <2>2. report \subseteq Times /\ Cardinality(report) <= 1
    <3>1. CASE report = {}
      BY <3>1, FS_EmptySet
    <3>2. ASSUME NEW t \in Times, report = {t}
          PROVE  report \subseteq Times /\ Cardinality(report) <= 1
      <4>1. Cardinality({t}) = 1
        BY FS_Singleton
      <4> QED
        BY <3>2, <4>1
    <3> QED
      BY <3>1, <3>2 DEF RecoveryInv
  <2> QED
    BY <2>1, <2>2 DEF RecoveryInv, RecoveryTypeOK, Foreign, LogEntries, ShownOk
<1>2. RecoveryInit => RecoveryInv
  BY RecoveryInitOk
<1>3. RecoveryInv /\ [RecoveryNext]_recoveryVars => RecoveryInv'
  BY RecoveryStep
<1> QED
  BY <1>1, <1>2, <1>3, PTL DEF RecoverySpec

=============================================================================
