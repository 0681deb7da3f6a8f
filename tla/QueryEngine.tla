----------------------------- MODULE QueryEngine -----------------------------
(* KnowMoreDiRTEngine.answer (engine.py) with a local model: how the answer *)
(* to a question is chosen.                                                 *)
(*                                                                          *)
(*   arithmetic over a source sentence, or else                             *)
(*   the model's plan of the question, whose bounded execution gives a      *)
(*     candidate that the model must verify, or else                        *)
(*   an answer the model gives from the evidence, unless the bounded        *)
(*     execution found a conflict, or else                                  *)
(*   the first of fourteen deterministic handlers that finds something.     *)
(*                                                                          *)
(* Texts are told apart by what the code asks of them: is it "unknown", a   *)
(* bare negative ("No", "No; ..."), or a negative with its explanation      *)
(* after a comma or a full stop?  What the model says, and what the sources *)
(* say, is chosen freely.  The questions of one engine share the plan, the  *)
(* diagnostics of the last execution and the counters of its trace.         *)
(***************************************************************************)
EXTENDS Naturals, Sequences

CONSTANTS
  Types,         \* the expected answer types considered
  MaxQuestions,  \* bound on the questions
  MaxClaims      \* bound on the claims of an answer

AllTypes == {"person", "count", "content", "boolean", "other"}
ASSUME QueryEngineAssumption ==
  /\ Types \subseteq AllTypes
  /\ MaxQuestions \in Nat /\ MaxClaims \in Nat \ {0}

Texts == {"none", "unknown", "quoted unknown", "value", "no", "explained no"}
Negatives == {"no", "explained no"}
Paths == {"none", "arithmetic", "bounded", "evidence", "recovery"}

(* How a negative came to be: it was not checked; the model's verification
   accepted it, with a span that shows it or without; a handler's source
   shows it; the verification was of another text; a completion put it there. *)
Grounds == {"unchecked", "entailed", "shown", "source", "swapped", "completed"}

Answers == [text : Texts, type : AllTypes \cup {"none"}, path : Paths, by : Grounds,
            cites : BOOLEAN,   \* does it name evidence?
            whole : BOOLEAN]   \* does it carry a proof of completeness?
NoAnswer == [text |-> "none", type |-> "none", path |-> "none", by |-> "unchecked",
             cites |-> FALSE, whole |-> FALSE]
IsComplete(a) == a.text \notin {"none", "unknown", "quoted unknown"}

VARIABLES
  n,        \* questions asked
  pc,       \* where the current one is
  plan,     \* last_plan: of which question, was it accepted, what it expects
  diag,     \* last_bounded_diagnostics: of which question, was there a conflict?
  cand,     \* the answer under consideration
  queue,    \* _verify_with_local_model: the candidate texts still to try
  claims,   \* _claim_support_mapping: the claims still to verify
  h,        \* _grounded_post_plan_recovery: the handler whose turn it is
  last      \* last_answer, with the question it is of

vars == <<n, pc, plan, diag, cand, queue, claims, h, last>>
local == <<queue, claims, h>>
trace == <<plan, diag>>
-----------------------------------------------------------------------------
(* What the handlers of _grounded_post_plan_recovery may give besides None. *)

Found(text, types, cites) ==
  [text : {text}, type : types, path : {"recovery"}, by : {"unchecked"},
   cites : cites, whole : {FALSE}]
Value(types) == Found("value", types, {TRUE})
Unknown == Found("unknown", {"other"}, {TRUE, FALSE})

DiscussionBelief == Unknown \cup Value({"other", "person"})
ActorRoleIds == Unknown \cup Value({"other"})
ReviewOrApproval == Unknown \cup Value({"person"})
PreciseSourceContent == Unknown \cup Value({"person", "content", "other"})
DiscourseClause == Unknown \cup Value({"content"})
GenericSentence ==
  Unknown \cup Value({"content", "person", "other"}) \cup Found("no", {"boolean"}, {TRUE, FALSE})
TableField == Value({"other"})
SourceRows == Value({"other", "person", "count"})
(* The type of a cell is that of its text: "yes", "no" and "no, ..." are
   booleans, and "unknown" ends the search.                                 *)
RowField ==
  Found("unknown", {"other"}, {TRUE}) \cup Value(AllTypes)
    \cup Found("no", {"boolean"}, {TRUE}) \cup Found("explained no", {"boolean"}, {TRUE})
StructuredObject == Value({"other"})
ExplicitNegativeClause ==
  IF plan.expected = "boolean" THEN Found("no", {"boolean"}, {TRUE}) ELSE {}
LabeledAttribute == Unknown \cup Value({"person", "content", "other"})
TemporalSourceRecords == Value({"other", "person", "content"})
ExactSourceField == Unknown \cup Value({"other"})

Handlers ==
  <<DiscussionBelief, ActorRoleIds, ReviewOrApproval, PreciseSourceContent, DiscourseClause,
    GenericSentence, TableField, SourceRows, RowField, StructuredObject, ExplicitNegativeClause,
    LabeledAttribute, TemporalSourceRecords, ExactSourceField>>
-----------------------------------------------------------------------------
(* The stages of a question.                                                *)

Init ==
  /\ n = 0 /\ pc = "idle" /\ h = 0
  /\ plan = [of |-> 0, accepted |-> FALSE, expected |-> "other", exhaustive |-> FALSE]
  /\ diag = [of |-> 0, conflict |-> FALSE]
  /\ cand = NoAnswer /\ queue = <<>> /\ claims = 0
  /\ last = [of |-> 0, answer |-> NoAnswer, cites |-> 0]

(* answer: an empty question is answered without leaving a trace.  Every
   other one first tries _answer_with_arithmetic_source.                    *)
Ask ==
  /\ pc = "idle" /\ n < MaxQuestions
  /\ n' = n + 1 /\ cand' = NoAnswer
  /\ pc' \in {"idle", "arithmetic"}
  /\ UNCHANGED <<trace, local, last>>

(* _structure_answer cites the contradictions of the last execution, whatever
   question that was of.                                                    *)
Return(a) ==
  /\ last' = [of |-> n, answer |-> a, cites |-> diag.of]
  /\ pc' = "idle" /\ cand' = NoAnswer

Raise ==
  /\ pc' = "idle"
  /\ cand' = NoAnswer /\ queue' = <<>> /\ claims' = 0 /\ h' = 0
  /\ UNCHANGED <<n, trace, last>>

Arithmetic ==
  /\ pc = "arithmetic"
  /\ \/ Return([NoAnswer EXCEPT !.text = "value", !.type = "count", !.path = "arithmetic",
                                !.cites = TRUE])
     \/ pc' = "plan" /\ UNCHANGED <<cand, last>>
  /\ UNCHANGED <<n, trace, local>>

(* The request for the plan of the question was not answered.               *)
PlanFails == pc = "plan" /\ Raise

PlanRejected ==
  /\ pc = "plan"
  /\ plan' = [of |-> n, accepted |-> FALSE, expected |-> "other", exhaustive |-> FALSE]
  /\ pc' = "unknown"
  /\ UNCHANGED <<n, diag, cand, local, last>>

(* _requires_completeness asks the question and the plan. *)
PlanAccepted ==
  /\ pc = "plan"
  /\ \E t \in Types, e \in BOOLEAN :
       plan' = [of |-> n, accepted |-> TRUE, expected |-> t, exhaustive |-> e]
  /\ pc' = "bounded"
  /\ UNCHANGED <<n, diag, cand, local, last>>

(* The texts a model may give for the type expected.                        *)
ModelTexts == {"value"} \cup (IF plan.expected = "boolean" THEN Negatives ELSE {})

RequiresCompleteness == plan.exhaustive

(* The question or some source span may say that the sources are complete.  *)
CompletenessProof == BOOLEAN

(* What _finalize_answer makes of a grounded value found by p: a value of an
   exhaustive question is dropped without a proof of completeness.          *)
Finalized_Unproved(p) ==
  [text : ModelTexts, type : {plan.expected}, path : {p}, by : {"unchecked"}, cites : {TRUE},
   whole : CompletenessProof]
  \cup {NoAnswer, [NoAnswer EXCEPT !.text = "unknown", !.path = p]}

Finalized(p) ==
  [text : ModelTexts, type : {plan.expected}, path : {p}, by : {"unchecked"}, cites : {TRUE},
   whole : {b \in CompletenessProof : RequiresCompleteness => b}]
  \cup {NoAnswer, [NoAnswer EXCEPT !.text = "unknown", !.path = p]}

(* _answer_with_bounded_dspg; an execution that found a conflict gives no
   answer.                                                                  *)
Bounded ==
  /\ pc = "bounded"
  /\ \E c \in BOOLEAN :
       /\ diag' = [of |-> n, conflict |-> c]
       /\ cand' \in IF c THEN {NoAnswer} ELSE Finalized("bounded")
  /\ pc' = "scope"
  /\ UNCHANGED <<n, plan, local, last>>

(* The evidence of a complete answer has to cover the targets of the plan.  *)
Scope ==
  /\ pc = "scope"
  /\ pc' \in IF IsComplete(cand) THEN {"verify", "gate"} ELSE {"gate"}
  /\ UNCHANGED <<n, trace, cand, local, last>>
-----------------------------------------------------------------------------
(* _verify_with_local_model.                                                *)

Rephrasable == {"person", "boolean", "content"}
SourceResolved == IF plan.expected = "content" THEN {"unknown", "value"} ELSE {}
Canonicalized ==
  IF plan.expected \in Rephrasable THEN {"unknown"} \cup ModelTexts ELSE {}

(* The text as it is, and before it the other wording that the model gives a
   text of several words.                                                   *)
Candidates == {<<cand.text>>} \cup {<<x, cand.text>> : x \in SourceResolved \cup Canonicalized}

Rephrase ==
  /\ pc = "verify" /\ cand.cites
  /\ queue' \in Candidates
  /\ pc' = "ask"
  /\ UNCHANGED <<n, trace, cand, claims, h, last>>

RephraseFails == pc = "verify" /\ cand.cites /\ plan.expected \in Rephrasable /\ Raise

(* Where an answer goes on that passed, and one that did not.               *)
Passed == IF cand.path = "recovery" THEN "done" ELSE "complete"
Failed == IF cand.path = "bounded" THEN "gate" ELSE "next"

(* No evidence to verify the answer with.                                   *)
NoPayload_Passes ==
  /\ pc = "verify" /\ ~cand.cites
  /\ pc' = Passed
  /\ UNCHANGED <<n, trace, cand, local, last>>

NoPayload ==
  /\ pc = "verify" /\ ~cand.cites
  /\ pc' = Failed
  /\ UNCHANGED <<n, trace, cand, local, last>>

(* What a verification says: an answer of its own, the kind of its proof, and
   what the span it quotes shows.                                           *)
Verdicts ==
  [text : ModelTexts,
   proof : {"explicit_negation", "explicit_exclusion", "other"},
   asserted : BOOLEAN,            \* accessibility
   explicit : BOOLEAN,            \* explicit_negation
   absence_of_record : BOOLEAN,   \* absence_of_record_only, said by the model
   span : {"negates", "negates a record", "excludes", "nothing"}]

(* _evidence_directly_negates_requested_relation,
   _evidence_is_absence_of_record_only and
   _evidence_directly_excludes_requested_relation of the span quoted.       *)
SpanNegates(v) == v.span \in {"negates", "negates a record"}
SpanIsAbsence(v) == v.span = "negates a record"
SpanExcludes(v) == v.span = "excludes"

NegativeProofValid_Unread(v) ==
  /\ ~v.absence_of_record /\ v.asserted
  /\ (v.proof = "explicit_negation" /\ v.explicit) \/ v.proof = "explicit_exclusion"

NegativeProofValid(v) ==
  /\ ~v.absence_of_record /\ v.asserted
  /\ \/ v.proof = "explicit_negation" /\ v.explicit /\ SpanNegates(v) /\ ~SpanIsAbsence(v)
     \/ v.proof = "explicit_exclusion" /\ SpanExcludes(v)

(* Only a bare negative is recognized as one. *)
IsNegative(type, text) == type = "boolean" /\ text = "no"

(* When the candidate was reworded and the verification answers with something
   else, the reworded candidate is taken for what was verified.             *)
Swaps(v) == /\ v.text # Head(queue) /\ Head(queue) # "unknown"
            /\ Len(queue) = 2 \/ Head(queue) # cand.text

Verified(v) ==
  [cand EXCEPT !.text = IF Swaps(v) THEN Head(queue) ELSE v.text,
               !.by = IF Swaps(v) THEN "swapped"
                      ELSE IF v.span \in {"negates", "excludes"} THEN "shown" ELSE "entailed"]

(* The verification was refused, rejected, or not of this evidence.         *)
VerifyRejected ==
  /\ pc = "ask" /\ queue # <<>>
  /\ queue' = Tail(queue)
  /\ UNCHANGED <<n, pc, trace, cand, claims, h, last>>

(* _atomic_answer_claims *)
AtomicClaims == 1..MaxClaims

VerifyAccepted ==
  /\ pc = "ask" /\ queue # <<>>
  /\ \E v \in Verdicts :
       /\ IsNegative(cand.type, v.text) => NegativeProofValid(v)
       /\ cand' = Verified(v)
  /\ \/ pc' = Passed /\ queue' = <<>> /\ UNCHANGED claims
     \/ /\ pc' = "claims" /\ queue' = Tail(queue)
        /\ claims' \in AtomicClaims
  /\ UNCHANGED <<n, trace, h, last>>

NoneVerified ==
  /\ pc = "ask" /\ queue = <<>>
  /\ pc' = Failed
  /\ UNCHANGED <<n, trace, cand, local, last>>

(* _claim_support_mapping: an answer of several claims, or verified without a
   span, is verified claim by claim.                                        *)
ClaimAccepted ==
  /\ pc = "claims" /\ claims > 0
  /\ claims' = claims - 1
  /\ UNCHANGED <<n, pc, trace, cand, queue, h, last>>

ClaimRejected ==
  /\ pc = "claims" /\ claims > 0
  /\ pc' = "ask" /\ claims' = 0
  /\ UNCHANGED <<n, trace, cand, queue, h, last>>

(* Unlike the verification of the whole, that of a claim raises. *)
ClaimFails ==
  /\ pc = "claims" /\ claims > 0
  /\ pc' = "idle"
  /\ cand' = NoAnswer /\ queue' = <<>> /\ claims' = 0 /\ h' = 0
  /\ UNCHANGED <<n, trace, last>>

ClaimsAccepted ==
  /\ pc = "claims" /\ claims = 0
  /\ pc' = Passed /\ queue' = <<>>
  /\ UNCHANGED <<n, trace, cand, claims, h, last>>
-----------------------------------------------------------------------------
(* _bounded_conflict_blocks_model_evidence_fallback. *)
Gate ==
  /\ pc = "gate"
  /\ pc' = IF diag.conflict THEN "next" ELSE "evidence"
  /\ cand' = NoAnswer
  /\ UNCHANGED <<n, trace, local, last>>

(* _answer_with_model_query_evidence; a request that is not answered is no
   answer here.  An absence has to name the relation, a boolean its targets.
   Only a bare negative has to pass the verification.                       *)
Ungrounded == [NoAnswer EXCEPT !.text = "unknown", !.path = "evidence"]

Evidence ==
  /\ pc = "evidence"
  /\ cand' \in Finalized("evidence") \cup {Ungrounded}
  /\ pc' = IF ~IsComplete(cand') THEN "next"
           ELSE IF IsNegative(cand'.type, cand'.text) THEN "verify" ELSE "complete"
  /\ UNCHANGED <<n, trace, local, last>>

(* _finalize_answer rewords a content phrase of the model. *)
EvidenceFails == pc = "evidence" /\ plan.expected = "content" /\ Raise

(* _complete_grounded_model_answer: the value accepted is kept or extended by
   a handler that finds more.  A name that is none is dropped; a negative of
   GenericSentence may extend a content phrase.                             *)
Completed(a) ==
  {a} \cup
  CASE plan.expected = "person" -> {[a EXCEPT !.text = "unknown"]}
    [] plan.expected = "content" ->
         {[a EXCEPT !.text = x.text, !.type = x.type, !.by = "completed"] :
            x \in {y \in GenericSentence : y.text = "no"}}
    [] OTHER -> {}

Complete ==
  /\ pc = "complete"
  /\ cand' \in Completed(cand)
  /\ pc' = "done"
  /\ UNCHANGED <<n, trace, local, last>>

(* _grounded_post_plan_recovery: the handler finds something, or nothing. The
   source shows a negative directly, or it has to pass the verification.    *)
Recover ==
  /\ pc = "recover" /\ h \in 1..Len(Handlers)
  /\ \/ \E a \in Handlers[h] :
          \/ cand' = a /\ pc' = IF IsNegative(a.type, a.text) THEN "verify" ELSE "done"
          \/ /\ IsNegative(a.type, a.text) /\ a.cites
             /\ cand' = [a EXCEPT !.by = "source"] /\ pc' = "done"
     \/ cand' = NoAnswer /\ pc' = "next"
  /\ UNCHANGED <<n, trace, local, last>>

NextHandler ==
  /\ pc = "next"
  /\ h' = h + 1
  /\ pc' = IF h = Len(Handlers) THEN "done" ELSE "recover"
  /\ cand' = NoAnswer
  /\ UNCHANGED <<n, trace, queue, claims, last>>

(* What is complete is the answer.                                          *)
Done ==
  /\ pc = "done"
  /\ h' = 0
  /\ IF IsComplete(cand) THEN Return(cand) ELSE pc' = "unknown" /\ UNCHANGED <<cand, last>>
  /\ UNCHANGED <<n, trace, queue, claims>>

(* _unknown_answer: the evidence is that of the last execution; the text
   quotes it only if it is about the targets of the plan, which a plan that
   was rejected does not name.                                              *)
DiagnosticEvidence == IF diag.of = 0 THEN {FALSE} ELSE BOOLEAN

QuotesPossible_Always == TRUE
QuotesPossible == plan.accepted

UnknownAnswer ==
  /\ pc = "unknown"
  /\ \E c \in DiagnosticEvidence, q \in BOOLEAN :
       /\ q => c /\ QuotesPossible
       /\ Return([NoAnswer EXCEPT !.text = IF q THEN "quoted unknown" ELSE "unknown",
                                  !.cites = c])
  /\ UNCHANGED <<n, trace, local>>

Planning == Arithmetic \/ PlanFails \/ PlanRejected \/ PlanAccepted \/ Bounded \/ Scope
Verifying ==
  \/ Rephrase \/ RephraseFails \/ NoPayload
  \/ VerifyRejected \/ VerifyAccepted \/ NoneVerified
  \/ ClaimAccepted \/ ClaimRejected \/ ClaimFails \/ ClaimsAccepted
Falling == Gate \/ Evidence \/ EvidenceFails \/ Recover \/ NextHandler
Answering == Complete \/ Done \/ UnknownAnswer
Step == Planning \/ Verifying \/ Falling \/ Answering
Next == Ask \/ Step

Spec == Init /\ [][Next]_vars

-----------------------------------------------------------------------------
TypeOK ==
  /\ n \in 0..MaxQuestions /\ h \in 0..(Len(Handlers) + 1)
  /\ pc \in {"idle", "arithmetic", "plan", "bounded", "scope", "verify", "ask", "claims", "gate",
             "evidence", "complete", "recover", "next", "done", "unknown"}
  /\ plan \in [of : 0..MaxQuestions, accepted : BOOLEAN, expected : AllTypes,
               exhaustive : BOOLEAN]
  /\ diag \in [of : 0..MaxQuestions, conflict : BOOLEAN]
  /\ cand \in Answers /\ queue \in Seq(Texts) /\ claims \in 0..MaxClaims
  /\ last \in [of : 0..MaxQuestions, answer : Answers, cites : 0..MaxQuestions]

(* A bare negative is shown by a span that the verification quoted or by the
   source it was found in, unless a rewording or a completion made it one.  *)
NegativeIsProved ==
  LET a == last.answer
  IN  IsNegative(a.type, a.text) /\ a.by \notin {"swapped", "completed"}
        => a.by \in {"shown", "source"}

(* Every answer names the evidence it is from, also the negatives of which a
   handler found none.                                                      *)
AnswersCiteSource == IsComplete(last.answer) => last.answer.cites

(* The contradictions that the answer to a planned question cites, and the
   evidence that an unknown quotes, are of its own execution, not of an
   earlier question's.                                                      *)
OwnEvidence ==
  \/ last.answer.path \in {"bounded", "evidence", "recovery"}
  \/ last.answer.text = "quoted unknown"
  => last.cites = last.of

(* What the execution found holds of its answer and of the model's: with a
   conflict there is neither, and an answer to a question that asks for all,
   or for a number, has a proof that the sources are complete, also when a
   completion counted again.                                                *)
ExecutionBinds ==
  LET found == last.answer.path \in {"bounded", "evidence"}
  IN /\ last.of = diag.of /\ diag.conflict => ~found
     /\ last.of = plan.of /\ plan.exhaustive /\ IsComplete(last.answer) /\ found
          => last.answer.whole
=============================================================================
