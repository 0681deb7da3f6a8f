---------------------------- MODULE BoundedRecords ----------------------------
(* How rows of the store bind the answer of a question (bounded_dspg.py):    *)
(* which contexts are accessible, what each binder reads, how candidates are *)
(* weighed.  BoundedQuery selects the rows and decides with these operators. *)
(*                                                                           *)
(* A document is a sequence of sentences; a sentence is one chunk and one    *)
(* span, holds at most one row, and has                                      *)
(*    kind      "note" (no row), "marker" (no row; text such as "only ..."), *)
(*              "label" (label_value), "cell" (table_cell or record_value,   *)
(*              a record group of its own), "condition" (a DRS condition:    *)
(*              drs_condition, its frame and, if dated, its temporal edge),  *)
(*              "frame" (a semantic frame) or "same" (identity hypothesis)   *)
(*    about     the name it speaks of, or None                               *)
(*    value     the value it gives, or None; the other name of a "same"      *)
(*    fits      is this the relation that the question asks for, or holds    *)
(*              its words? (of a "same": does it allow expansion?)           *)
(*    slot      does its text hold the words of the asked slot?              *)
(*    positive  polarity of a condition (of a "same": confident enough?)     *)
(*    denies    the parts that hold negative words: "predicate", "value"     *)
(*    modality  that a condition declares; "asserted" of all others          *)
(*    chain     its context and the parents of that, innermost first: each   *)
(*              a kind, the words of its surface (kind and holder) and of    *)
(*              its evidence, and what it has authority for                  *)
(*    time      its temporal phrase, as the model worded it ("9 May 2023")   *)
(*    stamp     the date that DATE_TIME_RE finds in it                       *)
(*    day       the day that is meant                                        *)
(* Texts that are only compared are numbered as they sort: "10 May 2023"     *)
(* comes before "9 May 2023", whatever their days.  0 is none.               *)
(* A question names one target, asks one relation for a phrase, a state, a   *)
(* list, the most frequent, a count or a truth, and comes from the model     *)
(* (frame.source = "model_query_drs"); scores are in tenths, rows have       *)
(* confidence 1.  Wording decides only what these fields say.                *)
(***************************************************************************)
EXTENDS Integers, Sequences, FiniteSets, FiniteSetsExt, Functions

CONSTANTS
  Names, None,
  Within,     \* the names of one word that a name holds; of one word is what holds itself
  Numbers     \* the values a count may take from a text

(* A view: corpus and question, the documents and sentences loaded for it,   *)
(* and the terms that stand for its target.                                  *)
At(V, p) == V.corpus[p[1]][p[2]]
Ends(s) == {s.about, s.value} \cap Names
(* _has_term: a text mentions the words of its names, too. *)
Mentions(x) == {x} \cup (IF x \in Names THEN Within[x] ELSE {})
Named(s) == Names \cap UNION {Mentions(n) : n \in Ends(s)}
Rows(V, kinds) == {p \in V.loaded : At(V, p).kind \in kinds}
TermsIn(V, p) == Named(At(V, p)) \cap V.terms
DocText(V, d) == UNION {Named(At(V, p)) : p \in {r \in V.loaded : r[1] = d}}
-----------------------------------------------------------------------------
(* Contexts. *)

Polarities == {"polarity:negative"}
Modalities == {"modality:reported"}     \* INACCESSIBLE_CONTEXT_PREFIXES
Boxes == {"drs:negated", "drs:hypothetical"}

RequestedRelation == "the relation"     \* its words, among those of a context

Kinds(chain) == {chain[i].kind : i \in DOMAIN chain}
Plain(chain) == Kinds(chain) \subseteq {"asserted", "drs:asserted"}
Words(context) == context.surface \cup context.evidence
(* _context_chain_material. *)
Material(chain) == UNION {Words(chain[i]) : i \in DOMAIN chain}

(* _context_satisfies_requirements, _context_satisfies_authority. *)
SatisfiesRequirements(chain, q) == q.requirements \subseteq Material(chain)
SatisfiesAuthority(chain, q) ==
  q.authority # {} => \E i \in DOMAIN chain : chain[i].authority \cap q.authority # {}

(* _context_requested_by_relation: anywhere in the chain. *)
RelationRequests(chain) == RequestedRelation \in Material(chain)

WantsNegative(q) == q.kind = "boolean" \/ q.negated

(* One turn of _context_accessible: a box is opened by a requirement that    *)
(* its words hold, a negation by the question, a modality by its surface or  *)
(* by the words of the relation.                                             *)
KindAccessible(context, chain, q) ==
  \/ context.kind \in {"asserted", "drs:asserted"}
  \/ /\ context.kind \in Polarities
     /\ WantsNegative(q) \/ q.requirements \cap context.surface # {}
  \/ /\ context.kind \in Modalities
     /\ RelationRequests(chain) \/ q.requirements \cap context.surface # {}
  \/ context.kind \in Boxes /\ q.requirements \cap Words(context) # {}
  \/ context.kind = "drs:negated" /\ WantsNegative(q)

(* _context_accessible: a row whose context is unknown is accessible. *)
Accessible(chain, q) ==
  chain # <<>> =>
    /\ SatisfiesRequirements(chain, q)
    /\ SatisfiesAuthority(chain, q)
    /\ \A i \in DOMAIN chain : KindAccessible(chain[i], chain, q)

(* _identity_context_accessible: plain contexts always are. *)
LinkAccessible(chain, q) == Plain(chain) \/ Accessible(chain, q)

(* _relation_scope_accessible: a condition declared in another modality must *)
(* be asked for; a required scope may also be worded in a plain row itself.  *)
ScopeAccessible(s, q) ==
  LET declared == s.kind = "condition" /\ s.modality # "asserted"
      matched == q.requirements \subseteq {s.modality} \cup Material(s.chain)
  IN /\ declared => q.requirements # {} /\ matched
     /\ \/ Accessible(s.chain, q)
        \/ /\ q.requirements # {}
           /\ Plain(s.chain)
           /\ \/ matched
              \/ s.kind = "condition" /\ s.fits /\ q.kind \in {"value", "list", "most"}
-----------------------------------------------------------------------------
(* Values.  None is one of the terms.                                        *)

(* _rejects_bound_target_value, for the kinds that it minds.                 *)
Contains(value, t) == value \in Names \ {t} /\ t \in Within[value]
Compatible(q, terms, value) ==
  /\ q.kind = "count" => value \in Numbers
  /\ q.kind = "state" => ~\E t \in terms : Contains(value, t)

(* _answer_values_from_relation, _drs_condition_argument_values: the value,  *)
(* or the subject of a row whose value is the target.                        *)
RelationValues(s, q, terms) ==
  LET given == IF s.value \notin terms \cup {None} THEN {s.value}
               ELSE IF s.kind \in {"cell", "condition"} THEN {s.about} \ (terms \cup {None})
               ELSE {}
  IN {v \in given : Compatible(q, terms, v)}

(* _answer_values_from_frame: the argument of the slot. *)
FrameValues(s, q, terms) ==
  {v \in {s.value} \ (terms \cup {None}) : Compatible(q, terms, v)}

Candidate(p, score, value, reason) ==
  [score |-> score, value |-> value, at |-> p, reason |-> reason]

Bind(V, P, score, reason, values(_)) ==
  UNION {{Candidate(p, score, <<v>>, reason) : v \in values(At(V, p))} : p \in P}

AsRelation(V, P, score, reason) ==
  LET values(s) == RelationValues(s, V.q, V.terms) IN Bind(V, P, score, reason, values)
AsRelationOfAny(V, P, score, reason) ==
  LET values(s) == RelationValues(s, V.q, {}) IN Bind(V, P, score, reason, values)
AsFrame(V, P, score, reason) ==
  LET values(s) == FrameValues(s, V.q, V.terms) IN Bind(V, P, score, reason, values)

(* _match_score, _split_match_score with one relation term. *)
Hits(V, p) == Cardinality(TermsIn(V, p))
MatchScore(V, p) == 40 * Hits(V, p) + 30 + 10
ByHits(V, P, score(_), bind(_, _)) == UNION {bind({p}, score(p)) : p \in P}
-----------------------------------------------------------------------------
(* Binders: the rows that each reads, in which scope, near which target.     *)

Fitting(V, kinds) == {p \in Rows(V, kinds) : At(V, p).fits}
InScope(V, P) == {p \in P : ScopeAccessible(At(V, p), V.q)}
InContext(V, P) == {p \in P : Accessible(At(V, p).chain, V.q)}
OnTarget(V, P) == {p \in P : TermsIn(V, p) # {}}
(* _drs_condition_polarity_matches_query: of the predicate it knows "not". *)
PolarityMatches(V, P) ==
  LET negative(s) == ~s.positive \/ "predicate" \in s.denies
  IN {p \in P : At(V, p).kind = "condition" => negative(At(V, p)) = V.q.negated}

(* _direct_label_slot_candidates. *)
DirectLabelSlot(V) ==
  AsRelation(V, OnTarget(V, InScope(V, Fitting(V, {"label"}))), 75, "direct_label_slot")

(* _relation_label_value_candidates. *)
RelationLabelValue(V) ==
  AsRelation(V, OnTarget(V, InScope(V, Fitting(V, {"label"}))), 68, "relation_label_value")

(* _bind_record_groups. *)
BindRecordGroups(V) ==
  LET score(p) == 50 + 50 * Hits(V, p) + 60 + 15
      bind(P, s) == AsRelation(V, P, s, "record_group")
  IN ByHits(V, OnTarget(V, InContext(V, Fitting(V, {"cell"}))), score, bind)

(* _structural_chain_rows, _structural_chain_frame_rows: of frames, those of *)
(* conditions included, neither the declared scope nor the polarity counts.  *)
ChainRows(V) ==
  {p \in InScope(V, Rows(V, {"label", "cell"})) \cup InContext(V, Rows(V, {"frame", "condition"})) :
     LET s == At(V, p)
     IN None \notin {s.about, s.value} /\ (s.kind \in {"frame", "condition"} => s.about # s.value)}

(* _structural_chain_term_groups: the words that a chain must cover, those   *)
(* of linked names among them; a name stands for its words that are no names.*)
Slot == "the slot"
Groups(V) ==
  LET words == Names \cap UNION {Mentions(t) : t \in V.terms}
  IN {RequestedRelation} \cup (IF V.q.slots THEN {Slot} ELSE {}) \cup (words \ Mentions(V.q.target))
Covers(V, p) ==
  LET s == At(V, p)
  IN Groups(V) \cap (Named(s) \cup (IF s.fits THEN {RequestedRelation} ELSE {})
                                \cup (IF s.slot THEN {Slot} ELSE {}))

(* _structural_chain_candidates: rows of one document, from one of the       *)
(* question's target, each about what the one before gives and each adding   *)
(* to what is covered, until everything is.                                  *)
ChainDepth == 4
Chains(V, d) ==
  LET rows == {p \in ChainRows(V) : p[1] = d}
      covered(t, n) == UNION {Covers(V, t[i]) : i \in 1..n}
  IN {t \in UNION {[1..n -> rows] : n \in 1..ChainDepth} :
        /\ V.q.target \in Mentions(At(V, t[1]).about)
        /\ \A i \in DOMAIN t \ {1} :
             /\ At(V, t[i - 1]).value \in Mentions(At(V, t[i]).about)
             /\ \A j \in 1..(i - 1) : t[j] # t[i]
             /\ ~(Covers(V, t[i]) \subseteq covered(t, i - 1))
        /\ covered(t, Len(t)) = Groups(V)}
StructuralChain(V) ==
  LET score(t) == 340 + 50 * Cardinality(Groups(V)) - 15 * (Len(t) - 1)
      value(t) == At(V, t[Len(t)]).value
      bound == {t \in UNION {Chains(V, d) : d \in DOMAIN V.corpus} :
                  Compatible(V.q, {V.q.target}, value(t))}
  IN {Candidate(t[Len(t)], score(t), <<value(t)>>, "structural_chain") : t \in bound}

(* _bind_frame_conditions: the frame of a condition is accessible if the     *)
(* condition is, whatever its polarity.                                      *)
BindFrameConditions(V) ==
  LET score(p) == MatchScore(V, p)
      bind(P, s) == AsFrame(V, P, s, "frame_argument")
      open == InContext(V, Fitting(V, {"frame"})) \cup InScope(V, Fitting(V, {"condition"}))
  IN ByHits(V, OnTarget(V, open), score, bind)

(* _bind_relation_conditions. *)
BindRelationConditions(V) ==
  LET score(p) == MatchScore(V, p)
      bind(P, s) == AsRelation(V, P, s, "relation_condition")
      rows == PolarityMatches(V, InScope(V, Fitting(V, {"label", "cell", "condition"})))
  IN ByHits(V, OnTarget(V, rows), score, bind)
-----------------------------------------------------------------------------
(* Binders whose target is named by the document rather than by the row.     *)

(* _document_context_target_document_ids. *)
TargetDocs(V) == {d \in V.docs : DocText(V, d) \cap V.terms # {}}

(* _unambiguous_document_scoped_candidates. *)
Unambiguous(C) ==
  IF Cardinality({c.at[1] : c \in C}) <= 1 \/ Cardinality({c.value : c \in C}) = 1 THEN C ELSE {}

(* _bind_document_scoped_label_values: the labels of a document of which one *)
(* label row names the target, or the only document that names it.  Each is  *)
(* evidenced by itself and by the sentence that names the target.            *)
DocumentScopedLabels(V) ==
  LET labels(d) == {p \in InScope(V, Rows(V, {"label"})) : p[1] = d}
      naming(d) == OnTarget(V, labels(d))
      anchors(d) == IF Cardinality(naming(d)) = 1 THEN naming(d)
                    ELSE IF TargetDocs(V) = {d}
                    THEN {p \in V.loaded : p[1] = d /\ TermsIn(V, p) # {}}
                    ELSE {}
      values(d) == {p \in labels(d) : At(V, p).fits
                                        /\ (Cardinality(naming(d)) = 1 => p \notin naming(d))}
      bind(d, a) == LET own == AsRelationOfAny(V, values(d), 65, "document_scoped_label")
                    IN own \cup {[c EXCEPT !.at = a] : c \in own}
      \* the first sentence of the document that names it
      first(d) == CHOOSE a \in anchors(d) : \A b \in anchors(d) : a[2] <= b[2]
  IN UNION {bind(d, first(d)) : d \in {e \in DOMAIN V.corpus : anchors(e) # {}}}

(* _document_scoped_structural_row_candidates. *)
DocumentScopedRows(V) ==
  Unambiguous(AsRelationOfAny(V,
    {p \in InScope(V, Fitting(V, {"cell"})) : p[1] \in TargetDocs(V)}, 130, "document_scoped_row"))

DocumentScopedConditions_AnyScope(V) ==
  Unambiguous(AsRelation(V,
    {p \in Fitting(V, {"condition"}) :
       /\ p[1] \in TargetDocs(V)
       /\ V.q.kind = "state" => TermsIn(V, p) # {} \/ Named(At(V, p)) = {}},
    69, "document_scoped_condition"))
(* _document_scoped_drs_condition_candidates: the polarity is not compared;  *)
(* _document_scope_markers_allow_candidate allows what holds the relation's  *)
(* words itself.                                                             *)
DocumentScopedConditions(V) ==
  Unambiguous(AsRelation(V,
    {p \in InScope(V, Fitting(V, {"condition"})) :
       /\ p[1] \in TargetDocs(V)
       /\ V.q.kind = "state" => TermsIn(V, p) # {} \/ Named(At(V, p)) = {}},
    69, "document_scoped_condition"))

(* _document_scoped_relation_value_candidates; no identifiers are asked for. *)
DocumentScopedValues(V) ==
  IF Cardinality(TargetDocs(V)) # 1 THEN {}
  ELSE AsRelation(V, {p \in InScope(V, Fitting(V, {"label", "cell"})) : p[1] \in TargetDocs(V)},
                  70, "document_scoped_value")

(* The binders of execute_bounded_query, but for the one of conditions that  *)
(* share a context within a sentence, of which there is one, metadata and    *)
(* context carriers.                                                         *)
Bound(V) ==
  UNION {DirectLabelSlot(V), RelationLabelValue(V), BindRecordGroups(V), StructuralChain(V),
         BindFrameConditions(V), BindRelationConditions(V), DocumentScopedLabels(V),
         DocumentScopedRows(V), DocumentScopedConditions(V), DocumentScopedValues(V)}
-----------------------------------------------------------------------------
(* Dated rows.  Each of the three readers below takes the latest, or the     *)
(* earliest, of its own rows, by the text of their dates: as they sort, not  *)
(* as their days follow each other.                                          *)

Before_Swapped(scope, x, y) == IF scope = "earliest" THEN x > y ELSE x < y
Before(scope, x, y) == IF scope = "earliest" THEN x < y ELSE x > y
Boundary(scope, date) ==
  {p \in DOMAIN date : \A r \in DOMAIN date : ~Before(scope, date[r], date[p])}
Times(V, P) == [p \in P |-> At(V, p).time]
Stamps(V, P) == [p \in {r \in P : At(V, r).stamp # 0} |-> At(V, p).stamp]

(* The temporal edges of _selected_temporal_span_ids, those of semantic      *)
(* frames among them.                                                        *)
Edges(V) ==
  {p \in OnTarget(V, InContext(V, Fitting(V, {"condition", "frame"}))) : At(V, p).time # 0}

(* _temporal_candidates: of edges whose relation is asked for, conditions    *)
(* only; of a state that no time was asked for, the last three.  What names  *)
(* no value gives its text, and a value may be the target.                   *)
EdgeValue(V, p) == IF At(V, p).value = None THEN <<"text", p>> ELSE <<At(V, p).value>>
TemporalEdges(V) ==
  LET E == {p \in Edges(V) : At(V, p).kind = "condition"}
      later(p) == {r \in E : At(V, r).time > At(V, p).time}
      read == IF V.q.scope # "none" THEN Boundary(V.q.scope, Times(V, E))
              ELSE IF V.q.kind = "state" THEN {p \in E : Cardinality(later(p)) < 3}
              ELSE {}
  IN {Candidate(p, 80, EdgeValue(V, p), "temporal") : p \in read}

(* _temporal_relation_candidates: sentences that hold a date beside a row.   *)
TemporalRelations(V) ==
  LET rows == OnTarget(V, InScope(V, Fitting(V, {"label", "cell", "condition"})))
      latest == Boundary(V.q.scope, Stamps(V, rows))
  IN IF V.q.scope = "none" THEN {}
     ELSE AsRelation(V, InContext(V, latest), 90, "temporal_relation")

(* _temporal_frame_argument_candidates. *)
TemporalFrames(V) ==
  IF V.q.scope = "none" THEN {}
  ELSE AsFrame(V, Boundary(V.q.scope, Times(V, Edges(V))), 110, "temporal_frame")

Temporal(V) ==
  TemporalFrames(V)
    \cup (IF V.q.kind = "count" THEN {} ELSE TemporalEdges(V) \cup TemporalRelations(V))
-----------------------------------------------------------------------------
(* _boolean_condition_candidates: yes or no of each condition, quoting it,   *)
(* so that no two conditions have the same answer.  The sentence names the   *)
(* target itself.                                                            *)
Truth(s, q) ==
  LET flips == {<<"negative", ~s.positive \/ s.denies # {}>>,
                <<"context", Kinds(s.chain) \cap {"drs:negated", "polarity:negative"} # {}>>,
                <<"question", q.negated>>}
  IN Cardinality({f \in flips : f[2]}) % 2 = 0

BooleanConditions(V) ==
  LET read == {p \in InScope(V, Fitting(V, {"condition"})) : V.q.target \in Named(At(V, p))}
      dates == Stamps(V, read)
      \* _select_temporal_boundary_candidates
      kept == IF V.q.scope = "none" \/ DOMAIN dates = {} THEN read
              ELSE Boundary(V.q.scope, dates)
  IN {Candidate(p, MatchScore(V, p), <<Truth(At(V, p), V.q), p>>, "boolean_condition") : p \in kept}
-----------------------------------------------------------------------------
(* Weighing candidates. *)

(* _choice_score. *)
ChoiceScore(c, q) ==
  c.score + CASE c.reason = "direct_label_slot" -> 450
              [] c.reason = "relation_label_value" -> 220
              [] c.reason = "frame_argument" -> 30
              [] c.reason = "relation_condition" /\ q.kind = "value" -> 70
              [] OTHER -> 0

(* _apply_answer_slot_evidence_preference.  (The preferences beside it do    *)
(* nothing to the model's questions.)                                        *)
Preferred(V, C) ==
  LET more(c) == IF V.q.slots /\ At(V, c.at).slot THEN 180 ELSE 0
  IN {Candidate(c.at, c.score + more(c), c.value, c.reason) : c \in C}

(* canonicalize_answer, _value_is_target: a candidate of the target falls. *)
Eligible(V, C) ==
  LET target(v) ==
        \E t \in V.terms :
          v = <<t>> \/ (V.q.kind = "state" /\ \E n \in Names : v = <<n>> /\ Contains(n, t))
  IN {c \in C : ~target(c.value)}
EvidenceOf(C, v) == {c.at : c \in {x \in C : x.value = v}}
BestAt(C, q, v, p) == Max({ChoiceScore(c, q) : c \in {x \in C : x.value = v /\ x.at = p}})
(* The bucket of a value: what each of its sentences adds at most. *)
Bucket(C, q, v) == MapThenSumSet(LAMBDA p : BestAt(C, q, v, p), EvidenceOf(C, v))
ValuesIn(C) == {c.value : c \in C}

(* _choose_answer: the values that its order may put first; among equal      *)
(* scores it takes the shortest text, then the first of the alphabet.        *)
Top(C, q) == {v \in ValuesIn(C) : \A w \in ValuesIn(C) : Bucket(C, q, v) >= Bucket(C, q, w)}

(* _answer_conflict_diagnostics for the first two values of that order, of   *)
(* whose evidence it knows four pieces.                                      *)
Pieces(P) == IF Cardinality(P) <= 4 THEN {P} ELSE {S \in SUBSET P : Cardinality(S) = 4}
Coverage(V, P) == Max({Hits(V, p) : p \in P})
(* Scores that are as good as equal. *)
Close(high, low) ==
  /\ high > 0
  /\ 100 * low >= 85 * high
  /\ 100 * (high - low) < Max({10000, 5 * high})
ConflictOf_Strict(V, high, low, A, B) ==
  Close(high, low) /\ Coverage(V, A) < Coverage(V, B) /\ A \cap B = {}
ConflictOf(V, high, low, A, B) ==
  Close(high, low) /\ Coverage(V, A) <= Coverage(V, B) /\ A \cap B = {}
Runners(C, q, top) ==
  LET rest == {c \in C : c.value # top} IN Top(rest, q)

(* _has_unscoped_temporal_ambiguity. *)
TemporalReasons == {"temporal", "temporal_relation"}
RawScore(C, q, v) ==
  MapThenSumSet(LAMBDA c : ChoiceScore(c, q), {c \in C : c.value = v})
Ambiguous(V, C) ==
  LET reasons(v) == {c.reason : c \in {x \in C : x.value = v}}
      timeless == {c.value : c \in {x \in C : x.reason \notin TemporalReasons}}
      timed == {c.value : c \in {x \in C : x.reason \in TemporalReasons}}
      score(v) == RawScore(C, V.q, v)
      rival(v) == Max({0} \cup {score(w) : w \in ValuesIn(C) \ {v}})
      first(v) == score(v) >= rival(v)
      clear(v) == \/ "direct_label_slot" \in reasons(v) /\ score(v) > rival(v)
                  \/ /\ reasons(v) \ TemporalReasons # {}
                     /\ ValuesIn(C) = {v} \/ 100 * score(v) >= Max({8000, 135 * rival(v)})
      dates == {At(V, c.at).stamp : c \in C} \ {0}
  IN \/ Cardinality(timed) > 1 /\ Cardinality(timeless) # 1
     \/ /\ ~\E v \in ValuesIn(C) : first(v) /\ clear(v)
        /\ Cardinality(dates) > 1
        /\ Cardinality({c.value : c \in {x \in C : At(V, x.at).stamp # 0}}) > 1
-----------------------------------------------------------------------------
(* Counting record groups (here: cells, one group each).                     *)

(* _row_local_count_match_rel_paths: documents some row of which names the   *)
(* target, or fits, by itself.                                               *)
LocalTargets(V) == {p[1] : p \in OnTarget(V, Rows(V, {"cell"}))}
LocalFits(V) == {p[1] : p \in Fitting(V, {"cell"})}

(* _count_matching_record_groups: a row that does not name the target, or    *)
(* does not fit, by itself may do so through its document.                   *)
CountedRows(V) ==
  {p \in InContext(V, Rows(V, {"cell"})) :
     /\ \/ TermsIn(V, p) # {}
        \/ p[1] \notin LocalTargets(V) /\ p[1] \in TargetDocs(V)
     /\ \/ At(V, p).fits
        \/ p[1] \notin LocalFits(V) /\ \E r \in V.loaded : r[1] = p[1] /\ At(V, r).fits}

(* _extreme_count_by_record_groups with _count_by_group_value: the value     *)
(* most rows have; no answer of this kind when two share the lead.           *)
ExtremeCounts(V) ==
  LET of(v) == {p \in CountedRows(V) : v \in RelationValues(At(V, p), V.q, V.terms)}
      values == UNION {RelationValues(At(V, p), V.q, V.terms) : p \in CountedRows(V)}
  IN {[value |-> <<v>>, evidence |-> of(v)] :
        v \in {w \in values : \A u \in values \ {w} : Cardinality(of(w)) > Cardinality(of(u))}}
=============================================================================
