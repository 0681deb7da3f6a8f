----------------------------- MODULE BoundedQuery -----------------------------
(* execute_bounded_query (bounded_dspg.py): a question, in the form the      *)
(* model gave it, against the rows of one run in the store.  Documents and   *)
(* chunks are ranked by the target's terms, or all taken when the answer     *)
(* must be complete; their rows are loaded; identity hypotheses among them   *)
(* add terms, and with the terms documents, round by round; then the binders *)
(* of BoundedRecords give candidates and one of them is chosen, or none.     *)
(*                                                                           *)
(* The store does not change meanwhile.  Documents are numbered in the order *)
(* of their paths; paths name nothing.  Questions ask a value, a state, a    *)
(* list, the most frequent, a count or a truth of a target of one word.  Not *)
(* modelled: questions for dates or identifiers or of several targets, those *)
(* of the tests' legacy frames, relation-only fallbacks, arithmetic,         *)
(* metadata, discourse edges between sentences.                              *)
(***************************************************************************)
EXTENDS BoundedRecords

CONSTANTS
  Pronouns,               \* names that bind nothing
  Corpora, Questions,     \* what may be asked of what
  DocLimit, ChunkLimit    \* KMD_BOUNDED_DOCUMENT_RATIO, KMD_BOUNDED_CHUNK_RATIO of the context

ASSUME BoundedQueryAssumption ==
  /\ IsFiniteSet(Names) /\ Pronouns \subseteq Names /\ {None, RequestedRelation, Slot} \cap Names = {}
  /\ Within \in [Names -> SUBSET Names]
  /\ DocLimit \in Nat /\ ChunkLimit \in Nat
  /\ \A c \in Corpora :
       /\ c \in Seq(Range(c)) /\ \A d \in DOMAIN c : c[d] \in Seq(Range(c[d]))
       /\ \A d \in DOMAIN c : \A i \in DOMAIN c[d] :
            c[d][i].time \in Nat /\ c[d][i].stamp \in Nat /\ c[d][i].day \in Nat
  /\ \A asking \in Questions : asking.target \in Names /\ asking.target \in Within[asking.target]

VARIABLES
  corpus, q,
  docs, chunks,   \* selected documents and sentences, best first
  loaded,         \* the sentences whose rows are at hand
  terms,          \* what stands for the target
  support,        \* sentences of the identity hypotheses followed
  rounds,         \* of identity expansion
  candidates,     \* what the binders give
  pc,             \* rank, expand, bind, decide, done
  answer

scope == <<docs, chunks>>
asked == <<corpus, q>>
vars == <<asked, scope, loaded, terms, support, rounds, candidates, pc, answer>>

NoAnswer == [value |-> <<>>, evidence |-> {}]
-----------------------------------------------------------------------------
(* Selection. *)

(* What a function gives each element the elements before in a strict order: *)
(* its domain in that order.                                                 *)
Ranked(before) ==
  LET S == DOMAIN before
  IN [n \in 1..Cardinality(S) |-> CHOOSE x \in S : Cardinality(before[x]) = n - 1]

(* What s has more than once, only where it comes first. *)
Deduped(s) ==
  LET firsts == {i \in DOMAIN s : \A j \in DOMAIN s : j < i => s[j] # s[i]}
      places == Ranked([i \in firsts |-> {j \in firsts : j < i}])
  IN [n \in DOMAIN places |-> s[places[n]]]
Prefix(s, n) == SubSeq(s, 1, Min({n, Len(s)}))
Sentences(d) == {<<d, i>> : i \in DOMAIN corpus[d]}
Everything == UNION {Sentences(d) : d \in DOMAIN corpus}
Sentence(p) == corpus[p[1]][p[2]]

(* The complete corpus, in the order of paths and chunks. *)
AllDocs == [d \in 1..Len(corpus) |-> d]
PathOrder(p, r) == p[1] < r[1] \/ (p[1] = r[1] /\ p[2] < r[2])
AllChunks == Ranked([p \in Everything |-> {r \in Everything : PathOrder(r, p)}])

(* _requires_completeness. *)
RequiresCompleteness_OfCounts == q.kind \in {"count", "most"} \/ q.whole
RequiresCompleteness == q.kind \in {"count", "list", "most"} \/ q.whole

Window == 4

(* _rank_scope: documents that hold every term, by terms and relation; of    *)
(* these, sentences by the same and their neighbours, up to the limits.      *)
DocHits(T, d) == Cardinality(T \cap UNION {Named(Sentence(p)) : p \in Sentences(d)})
DocScore(T, d) ==
  16 * DocHits(T, d) + (IF \E p \in Sentences(d) : Sentence(p).fits THEN 8 ELSE 0)
DocBefore(T, d, e) ==
  DocScore(T, d) > DocScore(T, e) \/ (DocScore(T, d) = DocScore(T, e) /\ d < e)
RankedDocs(T) ==
  LET hit == {d \in DOMAIN corpus : T \subseteq UNION {Named(Sentence(p)) : p \in Sentences(d)}}
  IN Prefix(Ranked([d \in hit |-> {e \in hit : DocBefore(T, e, d)}]), DocLimit)

ChunkScore(T, p) ==
  22 * Cardinality(T \cap Named(Sentence(p))) + (IF Sentence(p).fits THEN 11 + 12 ELSE 0)
ChunkBefore(T, p, r) ==
  ChunkScore(T, p) > ChunkScore(T, r) \/ (ChunkScore(T, p) = ChunkScore(T, r) /\ PathOrder(p, r))
(* The best of P. *)
Lead(T, P) == CHOOSE p \in P : \A r \in P \ {p} : ChunkBefore(T, p, r)
RankedChunks(T, selected) ==
  LET scored == {p \in Everything : p[1] \in selected /\ ChunkScore(T, p) > 0}
      near(p) == {r \in scored : r[1] = p[1] /\ r[2] \in (p[2] - Window)..(p[2] + Window)}
      reached == {p \in Everything : near(p) # {}}
      lead == [p \in reached |-> Lead(T, near(p))]
      before(p, r) ==
        ChunkBefore(T, lead[p], lead[r]) \/ (lead[p] = lead[r] /\ p[2] < r[2])
  IN Prefix(Ranked([p \in reached |-> {r \in reached : before(r, p)}]), ChunkLimit)
-----------------------------------------------------------------------------
(* Loading. *)

(* _fetch_identity_hypotheses: those of the loaded sentences, and those      *)
(* reached through them within the sentences of the selected documents.      *)
Touching(N, P) == {p \in P : Ends(Sentence(p)) \cap N # {}}
(* The names that n steps along the links lead to. *)
Linked(N, links) ==
  LET step[n \in Nat] ==
        IF n = 0 THEN N
        ELSE LET N1 == step[n - 1]
             IN N1 \cup UNION {Ends(Sentence(p)) : p \in Touching(N1, links)}
  IN step
Closure(N, links) == Linked(N, links)[Cardinality(Names)]

(* _bounded_identity_chunk_ids: of the selected documents, and selected.     *)
IdentityScope(ds, cs) == Range(cs) \cup UNION {Sentences(d) : d \in Range(ds)}
(* _selected_span_seed_referent_ids. *)
Seeds(cs) == UNION {Ends(Sentence(p)) : p \in Range(cs)}
(* _load_records: the selected sentences and those of the hypotheses. *)
Load(ds, cs) ==
  LET current == IdentityScope(ds, cs)
      names == Seeds(cs)
      links == {p \in current : Sentence(p).kind = "same"}
  IN Range(cs) \cup Touching(Closure(names, {p \in links : Sentence(p).fits}), links)

(* exhaustive_run_coverage, which nothing reads. *)
ExhaustiveRunCoverage == loaded = Everything

View == [corpus |-> corpus, q |-> q, docs |-> Range(docs), loaded |-> loaded, terms |-> terms]
-----------------------------------------------------------------------------
(* Identity expansion. *)

Followed_Anywhere(P) ==
  {p \in P : LET s == Sentence(p) IN s.kind = "same" /\ s.fits /\ s.positive}
(* _identity_expansion: from the terms, through loaded hypotheses of a       *)
(* relation that allows it, confident enough, in an accessible context.      *)
Followed(P) ==
  {p \in P : LET s == Sentence(p)
             IN s.kind = "same" /\ s.fits /\ s.positive /\ LinkAccessible(s.chain, q)}
(* A term of one word starts from every name of a loaded hypothesis that     *)
(* holds that word, if these are four at most; a longer one from itself.     *)
EdgeNames == UNION {Ends(Sentence(p)) : p \in {r \in loaded : Sentence(r).kind = "same"}}
StartsFrom(t) ==
  LET holding == {n \in EdgeNames : t \in Within[n]}
  IN IF t \notin Within[t] THEN {t} ELSE IF Cardinality(holding) <= 4 THEN holding ELSE {}
Starts == UNION {StartsFrom(t) : t \in terms}
IdentityTerms == Closure(Starts, Followed(loaded))
(* The hypotheses that led to a name not reached before. *)
IdentityEvidence ==
  {p \in Followed(loaded) : \E n \in 0..Cardinality(Names) :
     LET reached == Linked(Starts, Followed(loaded))[n]
     IN Ends(Sentence(p)) \cap reached # {} /\ ~(Ends(Sentence(p)) \subseteq reached)}

(* _identity_terms_for_binding. *)
BindingTerms == (IdentityTerms \ terms) \ Pronouns
-----------------------------------------------------------------------------
(* Deciding. *)

(* _completeness_proof. *)
CompletenessProof == q.closed \/ \E p \in loaded : Sentence(p).kind = "marker"

(* The candidates of the question's kind. *)
Candidates ==
  IF q.kind = "boolean" THEN BooleanConditions(View) ELSE Bound(View) \cup Temporal(View)
Weighed == Preferred(View, candidates)
Kept == Eligible(View, Weighed)
Timed == {c \in candidates : c.reason \in {"temporal", "temporal_relation", "temporal_frame"}}

(* _with_supporting_evidence adds `support' to the evidence of every answer. *)
Give(value, evidence) == answer' = [value |-> value, evidence |-> evidence]
Refuse == answer' = NoAnswer

(* _choose_answer; of the evidence it keeps four. *)
Choose(C) ==
  IF C = {} THEN Refuse ELSE \E v \in Top(C, q) : Give(v, EvidenceOf(C, v))

(* _answer_conflict_diagnostics, then _choose_answer. *)
ChooseUnlessConflict(C) ==
  IF Cardinality(ValuesIn(C)) < 2 THEN Choose(C)
  ELSE \E v \in Top(C, q) : \E w \in Runners(C, q, v) :
         \E A \in Pieces(EvidenceOf(C, v)), B \in Pieces(EvidenceOf(C, w)) :
           IF ConflictOf(View, Bucket(C, q, v), Bucket(C, q, w), A, B)
           THEN Refuse
           ELSE Give(v, EvidenceOf(C, v))

DecideBoolean == q.kind = "boolean" /\ Choose(candidates)

(* _extreme_count_by_record_groups. *)
Extreme == q.kind = "most" /\ CompletenessProof /\ ExtremeCounts(View) # {}
DecideExtreme == Extreme /\ \E x \in ExtremeCounts(View) : Give(x.value, x.evidence)

(* Temporal candidates, if there are any, are the only ones of a scoped question. *)
Scoped == q.kind # "boolean" /\ ~Extreme /\ q.scope # "none" /\ Timed # {}
DecideScoped == Scoped /\ ChooseUnlessConflict(Eligible(View, Timed))

(* Record groups, else the sentences of the candidates. *)
Counted == IF CountedRows(View) # {} THEN CountedRows(View) ELSE {c.at : c \in candidates}
Counts == q.kind = "count" /\ ~Scoped /\ CompletenessProof /\ Counted # {}
DecideCount == Counts /\ Give(<<"counted", Cardinality(Counted)>>, Counted)

(* What is left: the values of the rows compete, numbers if a count is asked. *)
Competing == q.kind # "boolean" /\ ~Extreme /\ ~Scoped /\ ~Counts
Unclear == q.scope = "none" /\ Ambiguous(View, Weighed)
DecideUnclear == Competing /\ Unclear /\ Refuse

(* _choose_list_answer: every value; the order in which they are joined is left out. *)
DecideList ==
  /\ Competing /\ ~Unclear /\ q.kind = "list"
  /\ IF CompletenessProof /\ Kept # {}
     THEN Give(<<ValuesIn(Kept)>>, {c.at : c \in Kept})
     ELSE Refuse

DecideUnscoped ==
  /\ Competing /\ ~Unclear /\ q.kind \notin {"list", "count"} /\ q.scope = "none"
  /\ ChooseUnlessConflict(Kept)

(* Nothing temporal answers a scoped question, or a count has no proof. *)
DecideOther ==
  /\ Competing /\ ~Unclear /\ q.kind # "list" /\ (q.kind = "count" \/ q.scope # "none")
  /\ Choose(Kept)

Decision ==
  \/ DecideBoolean \/ DecideExtreme \/ DecideScoped \/ DecideCount
  \/ DecideUnclear \/ DecideList \/ DecideUnscoped \/ DecideOther
-----------------------------------------------------------------------------
Init ==
  /\ corpus \in Corpora
  /\ q \in Questions
  /\ docs = <<>> /\ chunks = <<>> /\ loaded = {}
  /\ terms = {q.target}
  /\ support = {} /\ rounds = 0
  /\ candidates = {}
  /\ pc = "rank"
  /\ answer = NoAnswer

Rank ==
  /\ pc = "rank"
  /\ ~RequiresCompleteness
  /\ docs' = RankedDocs(terms)
  /\ chunks' = RankedChunks(terms, Range(RankedDocs(terms)))
  /\ loaded' = Load(docs', chunks')
  /\ pc' = "expand"
  /\ UNCHANGED <<asked, terms, support, rounds, candidates, answer>>

RankAll ==
  /\ pc = "rank"
  /\ RequiresCompleteness
  /\ docs' = AllDocs
  /\ chunks' = AllChunks
  /\ loaded' = Load(docs', chunks')
  /\ pc' = "expand"
  /\ UNCHANGED <<asked, terms, support, rounds, candidates, answer>>

(* Nothing new is linked to the target, or nothing that binds. *)
ExpandDone ==
  /\ pc = "expand"
  /\ BindingTerms = {}
  /\ support' = support \cup IdentityEvidence
  /\ rounds' = IF IdentityTerms \subseteq terms THEN rounds ELSE rounds + 1
  /\ pc' = "bind"
  /\ UNCHANGED <<asked, scope, loaded, terms, candidates, answer>>

(* The documents of the new terms come first, and the limits cut the rest.   *)
Expand ==
  /\ pc = "expand"
  /\ BindingTerms # {}
  /\ support' = support \cup IdentityEvidence
  /\ rounds' = rounds + 1
  /\ terms' = terms \cup BindingTerms
  /\ LET more == RankedDocs(BindingTerms)
     IN /\ docs' = Prefix(Deduped(more \o docs), DocLimit)
        /\ chunks' =
             Prefix(Deduped(RankedChunks(BindingTerms, Range(more)) \o chunks), ChunkLimit)
  /\ loaded' = IF scope' = scope THEN loaded ELSE Load(docs', chunks')
  /\ pc' = IF scope' = scope THEN "bind" ELSE "expand"
  /\ UNCHANGED <<asked, candidates, answer>>

Binding ==
  /\ pc = "bind"
  /\ candidates' = Candidates
  /\ pc' = "decide"
  /\ UNCHANGED <<asked, scope, loaded, terms, support, rounds, answer>>

Decide ==
  /\ pc = "decide"
  /\ Decision
  /\ pc' = "done"
  /\ UNCHANGED <<asked, scope, loaded, terms, support, rounds, candidates>>

Next == Rank \/ RankAll \/ ExpandDone \/ Expand \/ Binding \/ Decide

Spec == Init /\ [][Next]_vars
-----------------------------------------------------------------------------
(* Properties. *)

TypeOK ==
  /\ corpus \in Corpora /\ q \in Questions
  /\ Range(docs) \subseteq DOMAIN corpus /\ Range(chunks) \subseteq Everything
  /\ terms \subseteq Names /\ support \subseteq Everything
  /\ rounds \in Nat
  /\ pc \in {"rank", "expand", "bind", "decide", "done"}

Answered == pc = "done" /\ answer # NoAnswer

(* A supposition is open to a question that requires one of its words, a     *)
(* report also to one whose relation is worded in its contexts, a denial     *)
(* also to one that is negated or asks for a truth.                          *)
Admits(s) ==
  \A i \in DOMAIN s.chain :
    LET required == q.requirements \cap Words(s.chain[i]) # {}
        kind == s.chain[i].kind
    IN /\ kind = "drs:hypothetical" => required
       /\ kind = "modality:reported" => required \/ RelationRequests(s.chain)
       /\ kind \in {"drs:negated", "polarity:negative"} => required \/ WantsNegative(q)

(* Whatever documents the rounds bring in, only names that can be reached    *)
(* from the target ever stand for it: over confident identity hypotheses     *)
(* open to the question, and from a word to a hypothesis' name that holds it;*)
(* and no pronoun does.                                                      *)
Equates(p) ==
  LET s == Sentence(p) IN s.kind = "same" /\ s.fits /\ s.positive /\ Admits(s)
Holds(p, n, t) == Sentence(p).kind = "same" /\ n \in Ends(Sentence(p)) /\ t \in Within[n]
Reaches(N) ==
  /\ q.target \in N
  /\ \A p \in Everything :
       Equates(p) /\ Ends(Sentence(p)) \cap N # {} => Ends(Sentence(p)) \subseteq N
  /\ \A p \in Everything, n \in Names, t \in N \ (Pronouns \ {q.target}) : Holds(p, n, t) => n \in N
OnlyLinkedNames ==
  /\ \A N \in SUBSET Names : Reaches(N) => terms \subseteq N
  /\ terms \cap Pronouns \subseteq {q.target}

(* A value is answered only if a row gives it, in a scope open to the        *)
(* question, in a document that names the target or something linked to it:  *)
(* what is only supposed, reported or denied answers no other question.      *)
Gives(p) == answer.value \in {<<Sentence(p).value>>, <<Sentence(p).about>>, <<"text", p>>}
AnswerIsGrounded ==
  Answered /\ q.kind \in {"value", "state", "most"} =>
    \E p \in answer.evidence :
      /\ Gives(p) /\ Admits(Sentence(p))
      /\ \E r \in Sentences(p[1]) : Named(Sentence(r)) \cap terms # {}

(* Two values that the rows support equally, from sentences of their own     *)
(* that name the target alike, leave a question without a date unanswered.   *)
EqualRivalsAreSilent ==
  Answered /\ q.kind \in {"value", "state"} /\ q.scope = "none" =>
    \A v, w \in ValuesIn(Kept) :
      LET P == EvidenceOf(Kept, v)
          R == EvidenceOf(Kept, w)
      IN \/ v = w \/ ValuesIn(Kept) # {v, w} \/ Bucket(Kept, q, v) # Bucket(Kept, q, w)
         \/ P \cap R # {}
         \/ \E A \in Pieces(P), B \in Pieces(R) : Coverage(View, A) # Coverage(View, B)

(* As long as no name was linked, a count or a list covers the whole corpus, *)
(* whatever the limits: every open row that gives the target a value, of any *)
(* document.                                                                 *)
WholeView == [View EXCEPT !.docs = DOMAIN corpus, !.loaded = Everything]
Plainly(p) ==
  LET s == Sentence(p)
  IN /\ s.about = q.target /\ s.fits /\ s.positive /\ s.modality = "asserted"
     /\ "predicate" \notin s.denies
     /\ s.kind \in {"cell", "condition", "frame"} /\ Accessible(s.chain, q)
     /\ s.value \notin {None, q.target}
(* The answer is the number of what it quotes, not one that a text gives. *)
Enumerated == answer.value = <<"counted", Cardinality(answer.evidence)>>
CompleteMeansAll ==
  Answered /\ rounds = 0 =>
    /\ q.kind = "count" /\ Enumerated /\ CountedRows(WholeView) # {} =>
         answer.value = <<"counted", Cardinality(CountedRows(WholeView))>>
    /\ q.kind = "list" /\ q.scope = "none" =>
         \A p \in Everything : Plainly(p) => <<Sentence(p).value>> \in answer.value[1]

(* The latest value is evidenced by no older row, where all dates are those of    *)
(* conditions that declare no modality of their own and name what held, and  *)
(* the texts of these dates, as phrased and as found in the sentences, sort  *)
(* as their days follow each other.                                          *)
PlainlyDated(p) ==
  LET s == Sentence(p)
  IN s.kind = "condition" /\ s.modality = "asserted" /\ s.value \notin terms \cup {None}
DatedRows == {p \in Everything : Sentence(p).time # 0 \/ Sentence(p).stamp # 0}
SortedAlike(date) ==
  \A p, r \in DatedRows : date[p] > date[r] <=> Sentence(p).day > Sentence(r).day
LatestIsLatest ==
  /\ Answered /\ q.kind \in {"value", "state"} /\ q.scope = "latest"
  /\ \A p \in DatedRows : PlainlyDated(p)
  /\ SortedAlike([p \in DatedRows |-> Sentence(p).time])
  /\ \/ SortedAlike([p \in DatedRows |-> Sentence(p).stamp])
        /\ \A p \in DatedRows : Sentence(p).stamp # 0
     \/ \A p \in DatedRows : Sentence(p).stamp = 0
  => \A p \in Edges(View), r \in answer.evidence : Sentence(r).day >= Sentence(p).day

(* "A negated proposition cannot be retrieved as a positive fact."           *)
NegatedIsNotAFact ==
  Answered /\ q.kind \in {"value", "state"} /\ ~q.negated =>
    \E p \in answer.evidence : Sentence(p).positive

(* "It may return a complete enumeration or exact count only if it can       *)
(* justify that the relevant search space is closed or exhaustively covered."*)
CountIsExhaustive ==
  Answered /\ q.kind = "count" /\ Enumerated => ExhaustiveRunCoverage
=============================================================================
