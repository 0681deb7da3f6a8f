-------------------------- MODULE QueryEngineProofs --------------------------
(* Proofs about QueryEngine, for all types, numbers of questions and claims. *)
EXTENDS QueryEngine, TLAPS

(* Whatever handler finds something: an unknown, a value with its evidence,  *)
(* or a negative, of which it may have none.                                 *)
Recoverable ==
  Unknown \cup Value(AllTypes) \cup Found("no", {"boolean"}, BOOLEAN)
    \cup Found("explained no", {"boolean"}, {TRUE})

LEMMA HandlersRecover ==
  /\ Len(Handlers) = 14
  /\ \A i \in 1..14 : Handlers[i] \subseteq Recoverable
<1>1. Len(Handlers) = 14
  BY DEF Handlers
<1>2. /\ Unknown \subseteq Recoverable
      /\ \A T \in SUBSET AllTypes : Value(T) \subseteq Recoverable
      /\ \A C \in SUBSET BOOLEAN : Found("no", {"boolean"}, C) \subseteq Recoverable
      /\ Found("explained no", {"boolean"}, {TRUE}) \subseteq Recoverable
      /\ Found("unknown", {"other"}, {TRUE}) \subseteq Recoverable
  <2>1. Unknown \subseteq Recoverable /\ Found("explained no", {"boolean"}, {TRUE}) \subseteq Recoverable
    BY DEF Recoverable
  <2>2. ASSUME NEW T \in SUBSET AllTypes PROVE Value(T) \subseteq Recoverable
    <3>1. Value(T) \subseteq Value(AllTypes)
      BY DEF Value, Found
    <3> QED BY <3>1 DEF Recoverable
  <2>3. ASSUME NEW C \in SUBSET BOOLEAN PROVE Found("no", {"boolean"}, C) \subseteq Recoverable
    <3>1. Found("no", {"boolean"}, C) \subseteq Found("no", {"boolean"}, BOOLEAN)
      BY DEF Found
    <3> QED BY <3>1 DEF Recoverable
  <2>4. Found("unknown", {"other"}, {TRUE}) \subseteq Recoverable
    BY DEF Recoverable, Unknown, Found
  <2> QED BY <2>1, <2>2, <2>3, <2>4
<1> USE DEF AllTypes
<1>3. \A S \in {DiscussionBelief, ActorRoleIds, ReviewOrApproval, PreciseSourceContent, DiscourseClause} :
        S \subseteq Recoverable
  BY <1>2 DEF DiscussionBelief, ActorRoleIds, ReviewOrApproval, PreciseSourceContent, DiscourseClause
<1>4. \A S \in {GenericSentence, TableField, SourceRows, RowField, StructuredObject} : S \subseteq Recoverable
  BY <1>2 DEF GenericSentence, TableField, SourceRows, RowField, StructuredObject
<1>5. \A S \in {ExplicitNegativeClause, LabeledAttribute, TemporalSourceRecords, ExactSourceField} :
        S \subseteq Recoverable
  BY <1>2 DEF ExplicitNegativeClause, LabeledAttribute, TemporalSourceRecords, ExactSourceField
<1>6. \A i \in 1..14 :
        Handlers[i] \in {DiscussionBelief, ActorRoleIds, ReviewOrApproval, PreciseSourceContent, DiscourseClause}
          \cup {GenericSentence, TableField, SourceRows, RowField, StructuredObject}
          \cup {ExplicitNegativeClause, LabeledAttribute, TemporalSourceRecords, ExactSourceField}
  BY DEF Handlers
<1> QED BY <1>1, <1>3, <1>4, <1>5, <1>6

LEMMA RecoverableShape ==
  ASSUME NEW a \in Recoverable
  PROVE  /\ a \in Answers /\ a.path = "recovery" /\ a.by = "unchecked"
         /\ a.text \in {"unknown", "value", "no", "explained no"}
         /\ a.text \in {"value", "explained no"} => a.cites
         /\ a.text = "no" => a.type = "boolean"
<1>1. CASE a \in Unknown
  <2>1. PICK c \in BOOLEAN :
          a = [text |-> "unknown", type |-> "other", path |-> "recovery", by |-> "unchecked",
               cites |-> c, whole |-> FALSE]
    BY <1>1 DEF Found, Unknown
  <2> QED BY <2>1 DEF Answers, AllTypes, Texts, Paths, Grounds
<1>2. CASE a \in Value(AllTypes)
  <2>1. PICK t \in AllTypes :
          a = [text |-> "value", type |-> t, path |-> "recovery", by |-> "unchecked",
               cites |-> TRUE, whole |-> FALSE]
    BY <1>2 DEF Found, Value
  <2> QED BY <2>1 DEF Answers, Texts, Paths, Grounds
<1>3. CASE a \in Found("no", {"boolean"}, BOOLEAN)
  <2>1. PICK c \in BOOLEAN :
          a = [text |-> "no", type |-> "boolean", path |-> "recovery", by |-> "unchecked",
               cites |-> c, whole |-> FALSE]
    BY <1>3 DEF Found
  <2> QED BY <2>1 DEF Answers, AllTypes, Texts, Paths, Grounds
<1>4. CASE a \in Found("explained no", {"boolean"}, {TRUE})
  <2>1. a = [text |-> "explained no", type |-> "boolean", path |-> "recovery", by |-> "unchecked",
             cites |-> TRUE, whole |-> FALSE]
    BY <1>4 DEF Found
  <2> QED BY <2>1 DEF Answers, AllTypes, Texts, Paths, Grounds
<1> QED BY <1>1, <1>2, <1>3, <1>4 DEF Recoverable
-----------------------------------------------------------------------------
(* The invariant.  The plan and the last execution are the question's own    *)
(* once it has come so far; an answer that will be given cites its evidence, *)
(* holds what the execution demands, and is a shown negative if one at all.  *)
Planned == {"bounded", "scope", "verify", "ask", "claims", "gate", "evidence", "complete",
            "recover", "next", "done"}
Executed == Planned \ {"bounded"}

Turn ==
  /\ last.of <= n /\ diag.of <= n /\ plan.of <= n
  /\ pc # "idle" => last.of < n
  /\ pc \in Planned => plan.of = n /\ plan.accepted
  /\ pc \in Executed => diag.of = n
  /\ pc = "unknown" /\ plan.accepted => diag.of = n
  /\ pc # "done" => h <= 14
  /\ pc = "recover" => h # 0

Cited ==
  /\ pc \in {"ask", "claims", "complete"} => cand.cites
  /\ pc \in {"scope", "done"} /\ IsComplete(cand) => cand.cites

Judged == pc \in {"claims", "complete", "done"} /\ IsNegative(cand.type, cand.text)
            => cand.by \in {"shown", "source", "swapped", "completed"}

FromModel(a) == a.path \in {"bounded", "evidence"}
Bound ==
  /\ pc = "evidence" => ~diag.conflict
  /\ pc \in Executed /\ FromModel(cand) => ~diag.conflict
  /\ pc \in {"verify", "ask", "claims", "complete"} /\ FromModel(cand) /\ plan.exhaustive => cand.whole
  /\ pc \in {"scope", "done"} /\ IsComplete(cand) /\ FromModel(cand) /\ plan.exhaustive => cand.whole

IInv == TypeOK /\ Turn /\ Cited /\ Judged /\ Bound
          /\ NegativeIsProved /\ AnswersCiteSource /\ OwnEvidence /\ ExecutionBinds

LEMMA Members ==
  /\ {"unknown", "quoted unknown", "value", "no"} \subseteq Texts
  /\ {"none", "arithmetic", "bounded", "evidence", "recovery"} \subseteq Paths
  /\ {"unchecked", "shown", "entailed", "source", "swapped", "completed"} \subseteq Grounds
  /\ {"boolean", "count"} \subseteq AllTypes /\ {TRUE, FALSE} \subseteq BOOLEAN
  BY DEF Texts, Paths, Grounds, AllTypes

LEMMA Reworded ==
  ASSUME NEW a \in Answers, NEW x \in Texts, NEW b \in Grounds, NEW t \in AllTypes
  PROVE  /\ [a EXCEPT !.text = x, !.by = b] \in Answers
         /\ [a EXCEPT !.text = x] \in Answers
         /\ [a EXCEPT !.by = b] \in Answers
         /\ [a EXCEPT !.text = x, !.type = t, !.by = b] \in Answers
  BY DEF Answers

LEMMA Empty ==
  ASSUME NEW x \in Texts, NEW p \in Paths, NEW c \in BOOLEAN
  PROVE  /\ NoAnswer \in Answers
         /\ [NoAnswer EXCEPT !.text = x, !.path = p] \in Answers
         /\ [NoAnswer EXCEPT !.text = x, !.cites = c] \in Answers
         /\ [NoAnswer EXCEPT !.text = x, !.type = "count", !.path = p, !.cites = c] \in Answers
<1>1. NoAnswer \in Answers
  BY DEF NoAnswer, Answers, AllTypes, Texts, Paths, Grounds
<1>2. "count" \in AllTypes
  BY DEF AllTypes
<1> QED BY <1>1, <1>2 DEF Answers

LEMMA Incomplete ==
  /\ ~IsComplete(NoAnswer)
  /\ \A p : ~IsComplete([NoAnswer EXCEPT !.text = "unknown", !.path = p])
  BY DEF NoAnswer, IsComplete

(* What finalizing gives. *)
LEMMA FinalizedShape ==
  ASSUME TypeOK, NEW p \in {"bounded", "evidence"}, NEW a \in Finalized(p)
  PROVE  /\ a \in Answers /\ a.path \in {p, "none"}
         /\ IsComplete(a) => a.cites /\ a.path = p /\ (plan.exhaustive => a.whole)
<1>1. CASE a = NoAnswer \/ a = [NoAnswer EXCEPT !.text = "unknown", !.path = p]
  <2>1. a.text \in {"none", "unknown"} /\ a.path \in {p, "none"}
    <3>1. NoAnswer.text = "none" /\ NoAnswer.path = "none"
      BY DEF NoAnswer
    <3>2. a = [NoAnswer EXCEPT !.text = "unknown", !.path = p] => a.text = "unknown" /\ a.path = p
      BY DEF NoAnswer
    <3> QED BY <1>1, <3>1, <3>2
  <2>2. a \in Answers
    <3>1. "unknown" \in Texts /\ p \in Paths
      BY DEF Texts, Paths
    <3> QED BY <1>1, <3>1, Members, Empty
  <2> QED BY <2>1, <2>2 DEF IsComplete
<1>2. CASE a \in [text : ModelTexts, type : {plan.expected}, path : {p}, by : {"unchecked"},
                  cites : {TRUE}, whole : {b \in CompletenessProof : RequiresCompleteness => b}]
  <2>1. a = [text |-> a.text, type |-> plan.expected, path |-> p, by |-> "unchecked",
             cites |-> TRUE, whole |-> a.whole]
    BY <1>2
  <2>2. a.text \in Texts /\ a.whole \in BOOLEAN /\ (plan.exhaustive => a.whole)
    BY <1>2 DEF ModelTexts, Negatives, CompletenessProof, RequiresCompleteness, Texts
  <2>3. plan.expected \in AllTypes
    BY DEF TypeOK
  <2>4. a \in Answers
    <3>1. p \in Paths /\ "unchecked" \in Grounds
      BY DEF Paths, Grounds
    <3>2. [text |-> a.text, type |-> plan.expected, path |-> p, by |-> "unchecked",
           cites |-> TRUE, whole |-> a.whole] \in Answers
      BY <2>2, <2>3, <3>1 DEF Answers
    <3> QED BY <2>1, <3>2
  <2> QED BY <2>1, <2>2, <2>4
<1> QED BY <1>1, <1>2 DEF Finalized

(* What a completion gives. *)
LEMMA CompletedShape ==
  ASSUME TypeOK, NEW a \in Completed(cand)
  PROVE  /\ a \in Answers /\ a.path = cand.path /\ a.cites = cand.cites /\ a.whole = cand.whole
         /\ a = cand \/ a.text = "unknown" \/ a.by = "completed"
<1>1. cand \in Answers
  BY DEF TypeOK
<1>2. CASE a = cand
  BY <1>1, <1>2
<1>3. CASE a = [cand EXCEPT !.text = "unknown"]
  <2>1. a \in Answers
    BY <1>1, <1>3, Members, Reworded
  <2> QED BY <1>1, <1>3, <2>1 DEF Answers
<1>4. CASE \E x \in GenericSentence : a = [cand EXCEPT !.text = x.text, !.type = x.type, !.by = "completed"]
  <2>1. PICK x \in GenericSentence : a = [cand EXCEPT !.text = x.text, !.type = x.type, !.by = "completed"]
    BY <1>4
  <2>2. x \in Answers
    <3>1. GenericSentence \subseteq Recoverable
      <4>1. GenericSentence = Handlers[6] /\ 6 \in 1..14
        BY DEF Handlers
      <4> QED BY <4>1, HandlersRecover
    <3> QED BY <2>1, <3>1, RecoverableShape
  <2> QED BY <1>1, <2>1, <2>2 DEF Answers, Grounds
<1> QED BY <1>2, <1>3, <1>4 DEF Completed

(* The answers that are given without a candidate. *)
LEMMA ArithmeticShape ==
  ASSUME Arithmetic
  PROVE  /\ pc = "arithmetic" /\ pc' \in {"plan", "idle"}
         /\ UNCHANGED last \/ (/\ last'.of = n /\ last'.cites = diag.of /\ last'.answer.cites
                              /\ last'.answer.text = "value" /\ last'.answer.path = "arithmetic")
<1> DEFINE value == [NoAnswer EXCEPT !.text = "value", !.type = "count", !.path = "arithmetic", !.cites = TRUE]
<1>1. value.cites /\ value.text = "value" /\ value.path = "arithmetic"
  BY DEF NoAnswer
<1>2. pc = "arithmetic" /\ (Return(value) \/ (pc' = "plan" /\ UNCHANGED last))
  BY DEF Arithmetic
<1> HIDE DEF value
<1> QED BY <1>1, <1>2 DEF Return

LEMMA UnknownShape ==
  ASSUME UnknownAnswer
  PROVE  /\ pc = "unknown" /\ pc' = "idle" /\ last'.of = n /\ last'.cites = diag.of
         /\ last'.answer.text \in {"unknown", "quoted unknown"} /\ last'.answer.path = "none"
         /\ last'.answer.text = "quoted unknown" => plan.accepted
<1> DEFINE value(x, c) == [NoAnswer EXCEPT !.text = x, !.cites = c]
<1>1. \A x, c : value(x, c).text = x /\ value(x, c).path = "none"
  BY DEF NoAnswer
<1>2. PICK q \in BOOLEAN, c \in DiagnosticEvidence :
        (q => plan.accepted) /\ Return(value(IF q THEN "quoted unknown" ELSE "unknown", c))
  BY DEF UnknownAnswer, QuotesPossible
<1>3. pc = "unknown"
  BY DEF UnknownAnswer
<1> HIDE DEF value
<1>4. CASE q
  BY <1>1, <1>2, <1>3, <1>4 DEF Return
<1>5. CASE ~q
  BY <1>1, <1>2, <1>3, <1>5 DEF Return
<1> QED BY <1>4, <1>5

LEMMA ModelTextsAreTexts == ModelTexts \subseteq Texts
  BY DEF ModelTexts, Negatives, Texts

LEMMA TypeInductive == IInv /\ [Next]_vars => TypeOK'
<1> SUFFICES ASSUME IInv, [Next]_vars PROVE TypeOK'
  OBVIOUS
<1>t. TypeOK /\ NoAnswer \in Answers
  BY DEF IInv, NoAnswer, Answers, AllTypes, Texts, Paths, Grounds
<1>m. MaxQuestions \in Nat /\ MaxClaims \in Nat \ {0} /\ Types \subseteq AllTypes
  BY QueryEngineAssumption
<1>l. Len(Handlers) = 14 /\ (Len(Handlers))' = 14
  BY DEF Handlers
<1>1. CASE Ask
  BY <1>1, <1>t, <1>m, <1>l DEF Ask, TypeOK, trace, local
<1>2. CASE Arithmetic
  <2>1. CASE pc' = "plan" /\ UNCHANGED <<cand, last>>
    BY <1>2, <2>1, <1>t, <1>m, <1>l DEF Arithmetic, TypeOK, trace, local
  <2>2. CASE Return([NoAnswer EXCEPT !.text = "value", !.type = "count", !.path = "arithmetic", !.cites = TRUE])
    <3>1. [NoAnswer EXCEPT !.text = "value", !.type = "count", !.path = "arithmetic", !.cites = TRUE] \in Answers
      BY Members, Empty
    <3> QED BY <1>2, <2>2, <3>1, <1>t, <1>m, <1>l DEF Arithmetic, Return, TypeOK, trace, local
  <2> QED BY <1>2, <2>1, <2>2 DEF Arithmetic
<1>3. CASE PlanFails
  BY <1>3, <1>t, <1>m, <1>l DEF PlanFails, Raise, TypeOK, trace
<1>4. CASE PlanRejected
  BY <1>4, <1>t, <1>m, <1>l DEF PlanRejected, TypeOK, local, AllTypes
<1>5. CASE PlanAccepted
  BY <1>5, <1>t, <1>m, <1>l DEF PlanAccepted, TypeOK, local
<1>6. CASE Bounded
  BY <1>6, <1>t, <1>m, <1>l, FinalizedShape DEF Bounded, TypeOK, local
<1>7. CASE Scope
  BY <1>7, <1>t, <1>m, <1>l DEF Scope, TypeOK, trace, local
<1>8. CASE Rephrase
  <2>1. \A q \in Candidates : q \in Seq(Texts)
    <3>1. cand.text \in Texts
      BY <1>t DEF TypeOK, Answers
    <3>2. SourceResolved \cup Canonicalized \subseteq Texts
      BY ModelTextsAreTexts DEF SourceResolved, Canonicalized, Texts
    <3> QED BY <3>1, <3>2 DEF Candidates
  <2> QED BY <1>8, <2>1, <1>t, <1>m, <1>l DEF Rephrase, TypeOK, trace
<1>9. CASE RephraseFails
  BY <1>9, <1>t, <1>m, <1>l DEF RephraseFails, Raise, TypeOK, trace
<1>10. CASE NoPayload
  BY <1>10, <1>t, <1>m, <1>l DEF NoPayload, Failed, TypeOK, trace, local
<1>11. CASE VerifyRejected
  BY <1>11, <1>t, <1>m, <1>l DEF VerifyRejected, TypeOK, trace
<1>12. CASE VerifyAccepted
  <2>1. cand' \in Answers
    <3>1. PICK v \in Verdicts : cand' = Verified(v)
      BY <1>12 DEF VerifyAccepted
    <3>2. v.text \in Texts /\ Head(queue) \in Texts
      <4>1. v.text \in ModelTexts
        BY DEF Verdicts
      <4>2. queue \in Seq(Texts) /\ queue # <<>>
        BY <1>12, <1>t DEF VerifyAccepted, TypeOK
      <4> QED BY <4>1, <4>2, ModelTextsAreTexts
    <3> QED BY <3>1, <3>2, <1>t, Members, Reworded DEF Verified, TypeOK
  <2>2. /\ queue' \in Seq(Texts) /\ claims' \in 0..MaxClaims
        /\ pc' \in {"done", "complete", "claims"}
    <3>1. queue \in Seq(Texts) /\ queue # <<>> /\ Tail(queue) \in Seq(Texts) /\ claims \in 0..MaxClaims
      BY <1>12, <1>t DEF VerifyAccepted, TypeOK
    <3>2. Passed \in {"done", "complete"}
      BY DEF Passed
    <3>3. \/ pc' = Passed /\ queue' = <<>> /\ claims' = claims
          \/ pc' = "claims" /\ queue' = Tail(queue) /\ claims' \in 1..MaxClaims
      BY <1>12 DEF VerifyAccepted, AtomicClaims
    <3>4. <<>> \in Seq(Texts)
      OBVIOUS
    <3>5. CASE pc' = Passed /\ queue' = <<>> /\ claims' = claims
      BY <3>1, <3>2, <3>4, <3>5
    <3>6. CASE pc' = "claims" /\ queue' = Tail(queue) /\ claims' \in 1..MaxClaims
      BY <3>1, <3>6, <1>m
    <3> QED BY <3>3, <3>5, <3>6
  <2> QED BY <1>12, <2>1, <2>2, <1>t, <1>m, <1>l DEF VerifyAccepted, TypeOK, trace
<1>13. CASE NoneVerified
  BY <1>13, <1>t, <1>m, <1>l DEF NoneVerified, Failed, TypeOK, trace, local
<1>14. CASE ClaimAccepted
  BY <1>14, <1>t, <1>m, <1>l DEF ClaimAccepted, TypeOK, trace
<1>15. CASE ClaimRejected
  BY <1>15, <1>t, <1>m, <1>l DEF ClaimRejected, TypeOK, trace
<1>16. CASE ClaimFails
  BY <1>16, <1>t, <1>m, <1>l DEF ClaimFails, TypeOK, trace
<1>17. CASE ClaimsAccepted
  BY <1>17, <1>t, <1>m, <1>l DEF ClaimsAccepted, Passed, TypeOK, trace
<1>18. CASE Gate
  BY <1>18, <1>t, <1>m, <1>l DEF Gate, TypeOK, trace, local
<1>19. CASE Evidence
  <2>1. cand' \in Answers
    <3>1. Ungrounded \in Answers
      BY Members, Empty DEF Ungrounded
    <3> QED BY <1>19, <1>t, <3>1, FinalizedShape DEF Evidence
  <2> QED BY <1>19, <2>1, <1>t, <1>m, <1>l DEF Evidence, TypeOK, trace, local
<1>20. CASE EvidenceFails
  BY <1>20, <1>t, <1>m, <1>l DEF EvidenceFails, Raise, TypeOK, trace
<1>21. CASE Complete
  <2>1. cand' \in Answers
    BY <1>21, <1>t, CompletedShape DEF Complete
  <2> QED BY <1>21, <2>1, <1>t, <1>m, <1>l DEF Complete, TypeOK, trace, local
<1>22. CASE Recover
  <2>1. cand' \in Answers
    <3>1. \A a \in Handlers[h] : a \in Answers /\ [a EXCEPT !.by = "source"] \in Answers
      <4>1. h \in 1..14
        BY <1>22, <1>l DEF Recover
      <4> QED BY <4>1, HandlersRecover, RecoverableShape, Members, Reworded
    <3> QED BY <1>22, <1>t, <3>1 DEF Recover
  <2> QED BY <1>22, <2>1, <1>t, <1>m, <1>l DEF Recover, TypeOK, trace, local
<1>23. CASE NextHandler
  BY <1>23, <1>t, <1>m, <1>l, HandlersRecover DEF NextHandler, TypeOK, trace, IInv, Turn
<1>24. CASE Done
  BY <1>24, <1>t, <1>m, <1>l DEF Done, Return, TypeOK, trace
<1>25. CASE UnknownAnswer
  <2>1. \A q, c \in BOOLEAN :
          [NoAnswer EXCEPT !.text = IF q THEN "quoted unknown" ELSE "unknown", !.cites = c] \in Answers
    <3>1. \A q \in BOOLEAN : (IF q THEN "quoted unknown" ELSE "unknown") \in Texts
      BY DEF Texts
    <3> QED BY <3>1, Members, Empty
  <2>2. PICK q, c \in BOOLEAN :
          Return([NoAnswer EXCEPT !.text = IF q THEN "quoted unknown" ELSE "unknown", !.cites = c])
    BY <1>25 DEF UnknownAnswer, DiagnosticEvidence
  <2>3. last' \in [of : 0..MaxQuestions, answer : Answers, cites : 0..MaxQuestions]
    BY <2>1, <2>2, <1>t DEF Return, TypeOK
  <2> QED BY <1>25, <2>2, <2>3, <1>t, <1>m, <1>l DEF UnknownAnswer, Return, TypeOK, trace, local
<1>26. CASE UNCHANGED vars
  BY <1>26, <1>t, <1>l DEF vars, TypeOK, trace, local
<1> QED
  BY <1>1, <1>2, <1>3, <1>4, <1>5, <1>6, <1>7, <1>8, <1>9, <1>10, <1>11, <1>12, <1>13, <1>14,
     <1>15, <1>16, <1>17, <1>18, <1>19, <1>20, <1>21, <1>22, <1>23, <1>24, <1>25, <1>26
  DEF Next, Step, Planning, Verifying, Falling, Answering
-----------------------------------------------------------------------------
LEMMA TurnInductive == IInv /\ [Next]_vars => Turn'
<1> SUFFICES ASSUME IInv, [Next]_vars PROVE Turn'
  OBVIOUS
<1>t. TypeOK /\ Turn /\ Len(Handlers) = 14
  BY HandlersRecover DEF IInv
<1>1. CASE Ask
  BY <1>1, <1>t DEF Ask, TypeOK, Turn, Planned, Executed, trace, local
<1>2. CASE Arithmetic
  BY <1>2, <1>t DEF Arithmetic, Return, TypeOK, Turn, Planned, Executed, trace, local
<1>3. CASE Raise
  BY <1>3, <1>t DEF Raise, TypeOK, Turn, Planned, Executed, trace
<1>4. CASE PlanRejected \/ PlanAccepted
  BY <1>4, <1>t DEF PlanRejected, PlanAccepted, TypeOK, Turn, Planned, Executed, local
<1>5. CASE Bounded
  BY <1>5, <1>t DEF Bounded, TypeOK, Turn, Planned, Executed, local
<1>6. CASE Verifying
  <2>1. CASE Rephrase \/ NoPayload \/ NoneVerified \/ ClaimsAccepted
    BY <1>t, <2>1 DEF Rephrase, NoPayload, NoneVerified, ClaimsAccepted, Passed, Failed, TypeOK, Turn,
                      Planned, Executed, trace, local
  <2>2. CASE VerifyRejected \/ VerifyAccepted \/ ClaimAccepted \/ ClaimRejected
    BY <1>t, <2>2 DEF VerifyRejected, VerifyAccepted, ClaimAccepted, ClaimRejected, Passed, TypeOK, Turn,
                      Planned, Executed, trace
  <2>3. CASE ClaimFails
    BY <1>t, <2>3 DEF ClaimFails, TypeOK, Turn, Planned, Executed, trace
  <2> QED BY <1>3, <1>6, <2>1, <2>2, <2>3 DEF Verifying, RephraseFails
<1>7. CASE Scope \/ Gate \/ Evidence \/ Complete
  BY <1>7, <1>t DEF Scope, Gate, Evidence, Complete, TypeOK, Turn, Planned, Executed, trace, local
<1>8. CASE Recover
  BY <1>8, <1>t DEF Recover, TypeOK, Turn, Planned, Executed, trace, local
<1>9. CASE NextHandler
  BY <1>9, <1>t DEF NextHandler, TypeOK, Turn, Planned, Executed, trace
<1>10. CASE Done
  BY <1>10, <1>t DEF Done, Return, TypeOK, Turn, Planned, Executed, trace
<1>11. CASE UnknownAnswer
  BY <1>11, <1>t DEF UnknownAnswer, Return, TypeOK, Turn, Planned, Executed, trace, local
<1>12. CASE UNCHANGED vars
  BY <1>12, <1>t DEF vars, Turn, trace, local
<1> QED
  BY <1>1, <1>2, <1>3, <1>4, <1>5, <1>6, <1>7, <1>8, <1>9, <1>10, <1>11, <1>12
  DEF Next, Step, Planning, Falling, Answering, PlanFails, EvidenceFails

LEMMA JudgedInductive == IInv /\ [Next]_vars => Judged' /\ NegativeIsProved'
<1> SUFFICES ASSUME IInv, [Next]_vars PROVE Judged' /\ NegativeIsProved'
  OBVIOUS
<1>t. TypeOK /\ Judged /\ NegativeIsProved
  BY DEF IInv
<1>1. CASE Ask \/ PlanRejected \/ PlanAccepted \/ Raise \/ ClaimFails \/ Bounded
  BY <1>1, <1>t DEF Ask, PlanRejected, PlanAccepted, Raise, ClaimFails, Bounded, Judged, NegativeIsProved
<1>2. CASE Arithmetic
  BY <1>2, <1>t, ArithmeticShape DEF Judged, NegativeIsProved, IsNegative
<1>3. CASE Scope \/ Gate
  BY <1>t, <1>3 DEF Scope, Gate, Judged, NegativeIsProved
<1>4. CASE NextHandler
  <2>1. NoAnswer.text = "none"
    BY DEF NoAnswer
  <2> QED BY <1>t, <1>4, <2>1 DEF NextHandler, Judged, NegativeIsProved, IsNegative
<1>5. CASE Rephrase \/ NoPayload \/ VerifyRejected \/ NoneVerified
  BY <1>5, <1>t DEF Rephrase, NoPayload, VerifyRejected, NoneVerified, Failed, Judged, NegativeIsProved
<1>6. CASE ClaimAccepted \/ ClaimRejected \/ ClaimsAccepted
  BY <1>6, <1>t DEF ClaimAccepted, ClaimRejected, ClaimsAccepted, Passed, Judged, NegativeIsProved
<1>7. CASE VerifyAccepted
  <2>1. PICK v \in Verdicts : (IsNegative(cand.type, v.text) => NegativeProofValid(v)) /\ cand' = Verified(v)
    BY <1>7 DEF VerifyAccepted
  <2>2. CASE Swaps(v)
    <3>1. cand'.by = "swapped"
      BY <1>t, <2>1, <2>2 DEF Verified, TypeOK, Answers
    <3> QED BY <1>7, <1>t, <3>1 DEF VerifyAccepted, Judged, NegativeIsProved
  <2>3. CASE ~Swaps(v)
    <3>1. cand'.type = cand.type /\ cand'.text = v.text
          /\ (v.span \in {"negates", "excludes"} => cand'.by = "shown")
      BY <1>t, <2>1, <2>3 DEF Verified, TypeOK, Answers
    <3>2. NegativeProofValid(v) => v.span \in {"negates", "excludes"}
      BY DEF NegativeProofValid, SpanNegates, SpanIsAbsence, SpanExcludes
    <3> QED BY <1>7, <1>t, <2>1, <3>1, <3>2 DEF VerifyAccepted, Judged, NegativeIsProved, IsNegative
  <2> QED BY <2>2, <2>3
<1>8. CASE Evidence
  BY <1>8, <1>t DEF Evidence, Judged, NegativeIsProved, IsComplete, IsNegative
<1>9. CASE Complete
  BY <1>9, <1>t, CompletedShape DEF Complete, Judged, NegativeIsProved, IsNegative
<1>10. CASE Recover
  <2>1. pc' = "done" /\ IsNegative(cand'.type, cand'.text) => cand'.by = "source"
    <3>1. CASE \E a \in Handlers[h] : cand' = a /\ pc' = IF IsNegative(a.type, a.text) THEN "verify" ELSE "done"
      BY <3>1
    <3>2. CASE \E a \in Handlers[h] : cand' = [a EXCEPT !.by = "source"]
      <4>1. PICK a \in Recoverable : cand' = [a EXCEPT !.by = "source"]
        BY <1>10, <3>2, HandlersRecover DEF Recover
      <4> QED BY <4>1, RecoverableShape DEF Answers
    <3> QED BY <1>10, <3>1, <3>2 DEF Recover
  <2>2. pc' # "claims" /\ pc' # "complete" /\ last' = last
    BY <1>10 DEF Recover
  <2> QED BY <1>t, <2>1, <2>2 DEF Judged, NegativeIsProved
<1>11. CASE Done
  BY <1>11, <1>t DEF Done, Return, Judged, NegativeIsProved
<1>12. CASE UnknownAnswer
  BY <1>12, UnknownShape DEF Judged, NegativeIsProved, IsNegative
<1>13. CASE UNCHANGED vars
  BY <1>13, <1>t DEF vars, Judged, NegativeIsProved
<1> QED
  BY <1>1, <1>2, <1>3, <1>4, <1>5, <1>6, <1>7, <1>8, <1>9, <1>10, <1>11, <1>12, <1>13
  DEF Next, Step, Planning, Verifying, Falling, Answering, PlanFails, EvidenceFails, RephraseFails

LEMMA CitedInductive == IInv /\ [Next]_vars => Cited' /\ AnswersCiteSource'
<1> SUFFICES ASSUME IInv, [Next]_vars PROVE Cited' /\ AnswersCiteSource'
  OBVIOUS
<1>t. TypeOK /\ Cited /\ AnswersCiteSource
  BY DEF IInv
<1>1. CASE Ask \/ PlanRejected \/ PlanAccepted \/ Raise \/ ClaimFails
  BY <1>1, <1>t DEF Ask, PlanRejected, PlanAccepted, Raise, ClaimFails, Cited, AnswersCiteSource
<1>2. CASE Arithmetic
  BY <1>2, <1>t, ArithmeticShape DEF Cited, AnswersCiteSource
<1>3. CASE Bounded
  <2>1. IsComplete(cand') => cand'.cites
    <3>1. cand' = NoAnswer \/ cand' \in Finalized("bounded")
      BY <1>3 DEF Bounded
    <3> QED BY <1>t, <3>1, FinalizedShape, Incomplete
  <2> QED BY <1>3, <1>t, <2>1 DEF Bounded, Cited, AnswersCiteSource
<1>4. CASE Scope \/ Gate \/ NextHandler
  <2>1. CASE Scope \/ Gate
    BY <1>t, <2>1 DEF Scope, Gate, Cited, AnswersCiteSource
  <2>2. CASE NextHandler
    BY <1>t, <2>2, Incomplete DEF NextHandler, Cited, AnswersCiteSource
  <2> QED BY <1>4, <2>1, <2>2
<1>5. CASE Rephrase \/ NoPayload \/ VerifyRejected \/ NoneVerified
  BY <1>5, <1>t DEF Rephrase, NoPayload, VerifyRejected, NoneVerified, Failed, Cited, AnswersCiteSource
<1>6. CASE ClaimAccepted \/ ClaimRejected \/ ClaimsAccepted
  BY <1>6, <1>t DEF ClaimAccepted, ClaimRejected, ClaimsAccepted, Passed, Cited, AnswersCiteSource
<1>7. CASE VerifyAccepted
  <2>1. cand.cites /\ cand'.cites
    <3>1. \A v : Verified(v).cites = cand.cites
      BY <1>t DEF Verified, TypeOK, Answers
    <3> QED BY <1>7, <1>t, <3>1 DEF VerifyAccepted, Cited
  <2> QED BY <1>7, <1>t, <2>1 DEF VerifyAccepted, Passed, Cited, AnswersCiteSource
<1>8. CASE Evidence
  <2>1. IsComplete(cand') => cand'.cites
    BY <1>8, <1>t, FinalizedShape DEF Evidence, Ungrounded, NoAnswer, IsComplete
  <2> QED BY <1>8, <1>t, <2>1 DEF Evidence, Cited, AnswersCiteSource
<1>9. CASE Complete
  BY <1>9, <1>t, CompletedShape DEF Complete, Cited, AnswersCiteSource
<1>10. CASE Recover
  <2>1. pc' = "done" /\ IsComplete(cand') => cand'.cites
    <3>1. CASE \E a \in Handlers[h] : cand' = a /\ pc' = IF IsNegative(a.type, a.text) THEN "verify" ELSE "done"
      <4>1. PICK a \in Recoverable : cand' = a /\ pc' = IF IsNegative(a.type, a.text) THEN "verify" ELSE "done"
        BY <1>10, <3>1, HandlersRecover DEF Recover
      <4> QED BY <4>1, RecoverableShape DEF IsNegative, IsComplete
    <3>2. CASE \E a \in Handlers[h] : a.cites /\ cand' = [a EXCEPT !.by = "source"]
      <4>1. PICK a \in Recoverable : a.cites /\ cand' = [a EXCEPT !.by = "source"]
        BY <1>10, <3>2, HandlersRecover DEF Recover
      <4> QED BY <4>1, RecoverableShape DEF Answers
    <3> QED BY <1>10, <3>1, <3>2 DEF Recover
  <2> QED BY <1>10, <1>t, <2>1 DEF Recover, Cited, AnswersCiteSource
<1>11. CASE Done
  BY <1>11, <1>t DEF Done, Return, Cited, AnswersCiteSource
<1>12. CASE UnknownAnswer
  BY <1>12, UnknownShape DEF Cited, AnswersCiteSource, IsComplete
<1>13. CASE UNCHANGED vars
  BY <1>13, <1>t DEF vars, Cited, AnswersCiteSource
<1> QED
  BY <1>1, <1>2, <1>3, <1>4, <1>5, <1>6, <1>7, <1>8, <1>9, <1>10, <1>11, <1>12, <1>13
  DEF Next, Step, Planning, Verifying, Falling, Answering, PlanFails, EvidenceFails, RephraseFails

LEMMA BoundInductive == IInv /\ [Next]_vars => Bound' /\ OwnEvidence' /\ ExecutionBinds'
<1> SUFFICES ASSUME IInv, [Next]_vars PROVE Bound' /\ OwnEvidence' /\ ExecutionBinds'
  OBVIOUS
<1>t. TypeOK /\ Turn /\ Bound /\ OwnEvidence /\ ExecutionBinds
  BY DEF IInv
<1>s. UNCHANGED last => OwnEvidence'
  BY <1>t DEF OwnEvidence
<1>u. UNCHANGED <<last, trace>> => ExecutionBinds'
  BY <1>t DEF ExecutionBinds, trace
<1>0. NoAnswer.path = "none"
  BY DEF NoAnswer
<1>1. CASE Ask \/ Raise \/ ClaimFails
  BY <1>0, <1>1, <1>s, <1>t, <1>u DEF Ask, Raise, ClaimFails, trace, Bound, FromModel, Executed, Planned
<1>2. CASE Arithmetic
  <2>1. trace' = trace
    BY <1>2 DEF Arithmetic
  <2>2. OwnEvidence' /\ ExecutionBinds'
    BY <1>2, <1>t, <1>s, <1>u, <2>1, ArithmeticShape DEF OwnEvidence, ExecutionBinds
  <2> QED BY <1>2, <2>2, ArithmeticShape DEF Bound, Executed, Planned
<1>3. CASE PlanRejected \/ PlanAccepted
  <2>1. plan'.of = n /\ last.of # n /\ UNCHANGED <<diag, last>>
    BY <1>3, <1>t DEF PlanRejected, PlanAccepted, Turn, TypeOK
  <2>2. ExecutionBinds'
    BY <1>t, <2>1 DEF ExecutionBinds
  <2>3. pc' \in {"unknown", "bounded"}
    BY <1>3 DEF PlanRejected, PlanAccepted
  <2> QED BY <1>s, <2>1, <2>2, <2>3 DEF Bound, Executed, Planned
<1>4. CASE Bounded
  <2>1. diag'.of = n /\ last.of # n /\ UNCHANGED <<plan, last>> /\ pc' = "scope"
    BY <1>4, <1>t DEF Bounded, Turn, TypeOK
  <2>2. ExecutionBinds'
    BY <1>t, <2>1 DEF ExecutionBinds
  <2>3. Bound'
    <3>1. CASE cand' = NoAnswer
      BY <1>0, <2>1, <3>1, Incomplete DEF Bound, FromModel
    <3>2. CASE cand' \in Finalized("bounded") /\ ~diag'.conflict
      BY <1>t, <2>1, <3>2, FinalizedShape DEF Bound
    <3> QED BY <1>4, <3>1, <3>2 DEF Bounded
  <2> QED BY <1>s, <2>1, <2>2, <2>3
<1>5. CASE Scope
  BY <1>5, <1>s, <1>t, <1>u DEF Scope, trace, Bound, Executed, Planned
<1>6. CASE Rephrase \/ NoPayload \/ VerifyRejected \/ NoneVerified
  BY <1>6, <1>s, <1>t, <1>u DEF Rephrase, NoPayload, VerifyRejected, NoneVerified, Failed, trace,
                               Bound, Executed, Planned, FromModel
<1>7. CASE ClaimAccepted \/ ClaimRejected \/ ClaimsAccepted
  BY <1>7, <1>s, <1>t, <1>u DEF ClaimAccepted, ClaimRejected, ClaimsAccepted, Passed, trace,
                               Bound, Executed, Planned
<1>8. CASE VerifyAccepted
  <2>1. cand'.path = cand.path /\ cand'.whole = cand.whole
    <3>1. \A v : Verified(v).path = cand.path /\ Verified(v).whole = cand.whole
      BY <1>t DEF Verified, TypeOK, Answers
    <3> QED BY <1>8, <3>1 DEF VerifyAccepted
  <2>2. pc = "ask" /\ pc' \in {"done", "complete", "claims"} /\ UNCHANGED <<trace, last>>
    BY <1>8 DEF VerifyAccepted, Passed
  <2> QED BY <1>s, <1>t, <1>u, <2>1, <2>2 DEF trace, Bound, Executed, Planned, FromModel
<1>9. CASE Gate
  BY <1>0, <1>9, <1>s, <1>t, <1>u DEF Gate, trace, Bound, Executed, Planned, FromModel
<1>10. CASE Evidence
  <2>1. ~diag.conflict /\ UNCHANGED <<trace, last>> /\ pc' \in {"next", "verify", "complete"}
        /\ (pc' # "next" => IsComplete(cand'))
    BY <1>10, <1>t DEF Evidence, Bound
  <2>2. IsComplete(cand') /\ plan.exhaustive => cand'.whole
    BY <1>10, <1>t, FinalizedShape, Incomplete DEF Evidence, Ungrounded
  <2> QED BY <1>s, <1>u, <2>1, <2>2 DEF trace, Bound
<1>11. CASE Complete
  BY <1>11, <1>s, <1>t, <1>u, CompletedShape DEF Complete, trace, Bound, Executed, Planned, FromModel
<1>12. CASE Recover
  <2>1. cand'.path \in {"recovery", "none"}
    <3>1. \A a \in Handlers[h] : a.path = "recovery" /\ [a EXCEPT !.by = "source"].path = "recovery"
      <4>1. Handlers[h] \subseteq Recoverable
        BY <1>12, HandlersRecover DEF Recover
      <4> QED BY <4>1, RecoverableShape DEF Answers
    <3> QED BY <1>0, <1>12, <3>1 DEF Recover
  <2>2. UNCHANGED <<trace, last>> /\ pc' # "evidence"
    BY <1>12 DEF Recover
  <2> QED BY <1>s, <1>u, <2>1, <2>2 DEF Bound, FromModel
<1>13. CASE NextHandler
  BY <1>0, <1>13, <1>s, <1>u DEF NextHandler, trace, Bound, FromModel
<1>14. CASE Done
  <2>1. Bound'
    BY <1>14 DEF Done, Return, Bound, Executed, Planned
  <2>2. CASE UNCHANGED last
    BY <1>14, <1>s, <1>u, <2>1, <2>2 DEF Done
  <2>3. CASE IsComplete(cand) /\ last' = [of |-> n, answer |-> cand, cites |-> diag.of]
    <3>1. diag.of = n /\ plan.of = n /\ UNCHANGED trace
      BY <1>14, <1>t DEF Done, Turn, Executed, Planned
    <3>2. OwnEvidence'
      BY <2>3, <3>1 DEF OwnEvidence
    <3>3. ExecutionBinds'
      BY <1>14, <1>t, <2>3, <3>1 DEF Done, ExecutionBinds, Bound, FromModel, Executed, Planned, trace
    <3> QED BY <2>1, <3>2, <3>3
  <2> QED BY <1>14, <2>2, <2>3 DEF Done, Return
<1>15. CASE UnknownAnswer
  <2>1. UNCHANGED trace
    BY <1>15 DEF UnknownAnswer
  <2>2. OwnEvidence'
    BY <1>15, <1>t, UnknownShape DEF OwnEvidence, Turn
  <2>3. ExecutionBinds'
    BY <1>15, <2>1, UnknownShape DEF ExecutionBinds
  <2> QED BY <1>15, <2>2, <2>3, UnknownShape DEF Bound, Executed, Planned
<1>16. CASE UNCHANGED vars
  BY <1>16, <1>s, <1>t, <1>u DEF vars, trace, Bound
<1> QED
  BY <1>1, <1>2, <1>3, <1>4, <1>5, <1>6, <1>7, <1>8, <1>9, <1>10, <1>11, <1>12, <1>13, <1>14,
     <1>15, <1>16
  DEF Next, Step, Planning, Verifying, Falling, Answering, PlanFails, EvidenceFails, RephraseFails

LEMMA Invariant == Spec => []IInv
<1>1. Init => IInv
  <2> SUFFICES ASSUME Init PROVE IInv
    OBVIOUS
  <2>1. TypeOK
    <3>1. NoAnswer \in Answers
      BY Members, Empty
    <3>2. <<>> \in Seq(Texts) /\ "other" \in AllTypes
      BY DEF AllTypes
    <3> QED BY <3>1, <3>2, QueryEngineAssumption, HandlersRecover DEF Init, TypeOK
  <2>2. Turn /\ Cited /\ Judged /\ Bound
    BY <2>1 DEF Init, TypeOK, Turn, Cited, Judged, Bound, Executed, Planned
  <2>3. last.answer = NoAnswer /\ last.cites = last.of
    BY DEF Init
  <2>4. NoAnswer.path = "none" /\ NoAnswer.text = "none"
    BY DEF NoAnswer
  <2>5. NegativeIsProved /\ AnswersCiteSource /\ OwnEvidence /\ ExecutionBinds
    BY <2>3, <2>4 DEF NegativeIsProved, AnswersCiteSource, OwnEvidence, ExecutionBinds, IsNegative, IsComplete
  <2> QED BY <2>1, <2>2, <2>5 DEF IInv
<1>2. IInv /\ [Next]_vars => IInv'
  BY TypeInductive, TurnInductive, CitedInductive, JudgedInductive, BoundInductive DEF IInv
<1> QED BY <1>1, <1>2, PTL DEF Spec

(* Every variable keeps its type. *)
THEOREM TypeCorrect == Spec => []TypeOK
<1>1. IInv => TypeOK
  BY DEF IInv
<1> QED BY <1>1, Invariant, PTL

(* A bare negative is shown by a span or a source, unless a rewording or a   *)
(* completion made it one (_verify_with_local_model, the handlers of         *)
(* _grounded_post_plan_recovery).                                            *)
THEOREM NegativesAreProved == Spec => []NegativeIsProved
<1>1. IInv => NegativeIsProved
  BY DEF IInv
<1> QED BY <1>1, Invariant, PTL

(* Every answer names the evidence it is from (answer, _finalize_answer).    *)
THEOREM AnswersAreCited == Spec => []AnswersCiteSource
<1>1. IInv => AnswersCiteSource
  BY DEF IInv
<1> QED BY <1>1, Invariant, PTL

(* No answer to a planned question cites, and no unknown quotes, what an     *)
(* earlier question's execution left (_structure_answer, _unknown_answer).   *)
THEOREM EvidenceIsOwn == Spec => []OwnEvidence
<1>1. IInv => OwnEvidence
  BY DEF IInv
<1> QED BY <1>1, Invariant, PTL

(* A conflict silences the execution and the model, and what asks for all    *)
(* has its proof, down every fallback (_answer_with_bounded_dspg,            *)
(* _bounded_conflict_blocks_model_evidence_fallback).                        *)
THEOREM ExecutionIsBinding == Spec => []ExecutionBinds
<1>1. IInv => ExecutionBinds
  BY DEF IInv
<1> QED BY <1>1, Invariant, PTL
-----------------------------------------------------------------------------
(* A question ends.  Stage is how far down its chain of fallbacks it is, with *)
(* three stages for every handler; within a stage, Work is what a             *)
(* verification may yet do: two wordings to try, each with all its claims.    *)
Stage ==
  CASE pc = "idle" -> 0
    [] pc = "unknown" -> 1
    [] pc = "done" -> 2
    [] pc = "complete" -> 3
    [] pc = "next" -> 48 - 3 * h
    [] pc \in {"verify", "ask", "claims"} -> IF cand.path = "bounded" THEN 52 ELSE 49 - 3 * h
    [] pc = "recover" -> 50 - 3 * h
    [] pc = "evidence" -> 50
    [] pc = "gate" -> 51
    [] pc = "scope" -> 53
    [] pc = "bounded" -> 54
    [] pc = "plan" -> 55
    [] OTHER -> 56

Try == MaxClaims + 2
Tries == CASE Len(queue) = 0 -> 0 [] Len(queue) = 1 -> Try [] OTHER -> Try + Try
Work ==
  CASE pc = "verify" -> Try + Try + 2
    [] pc = "ask" -> Tries + 1
    [] pc = "claims" -> Tries + claims + 2
    [] OTHER -> 0

Closer == Stage' < Stage \/ (Stage' = Stage /\ Work' < Work)
Numbers == Stage \in 0..56 /\ Work \in Nat
QuestionShortens == [][pc # "idle" => Numbers' /\ Closer]_vars

Short == Len(queue) <= 2

LEMMA ShortInductive == IInv /\ Short /\ [Next]_vars => Short'
<1> SUFFICES ASSUME IInv, Short, [Next]_vars PROVE Short'
  OBVIOUS
<1>1. queue \in Seq(Texts) /\ Len(queue) \in Nat /\ Len(queue) <= 2
  BY DEF IInv, TypeOK, Short
<1>2. CASE queue' = queue \/ queue' = <<>>
  BY <1>1, <1>2 DEF Short
<1>3. CASE queue' = Tail(queue) /\ queue # <<>>
  BY <1>1, <1>3 DEF Short
<1>4. CASE Rephrase
  <2>1. queue' \in Candidates
    BY <1>4 DEF Rephrase
  <2>2. ASSUME NEW k, k = 1 \/ k = 2 PROVE k <= 2
    BY <2>2
  <2>3. Len(queue') = 1 \/ Len(queue') = 2
    BY <2>1 DEF Candidates
  <2>4. Len(queue') <= 2
    BY <2>2, <2>3
  <2> QED BY <2>4 DEF Short
<1> QED
  BY <1>2, <1>3, <1>4
  DEF Next, Step, Planning, Verifying, Falling, Answering, Ask, Arithmetic, PlanFails, Raise,
      PlanRejected, PlanAccepted, Bounded, Scope, RephraseFails, NoPayload, VerifyRejected,
      VerifyAccepted, NoneVerified, ClaimAccepted, ClaimRejected, ClaimFails, ClaimsAccepted, Gate,
      Evidence, EvidenceFails, Recover, NextHandler, Complete, Done, UnknownAnswer, local, vars

LEMMA Measured ==
  ASSUME TypeOK, Turn, Short
  PROVE  Stage \in 0..56 /\ Work \in Nat /\ Try \in Nat /\ Tries \in Nat
<1>1. h \in 0..15 /\ (pc # "done" => h \in 0..14)
  BY HandlersRecover DEF TypeOK, Turn
<1>2. MaxClaims \in Nat /\ claims \in Nat
  BY QueryEngineAssumption DEF TypeOK
<1>3. Stage \in 0..56
  BY <1>1 DEF Stage
<1>4. Try \in Nat /\ Tries \in Nat
  BY <1>2 DEF Try, Tries
<1> QED BY <1>2, <1>3, <1>4 DEF Work

(* Every wording that is given up leaves time for the claims of the next.    *)
LEMMA FewerTries ==
  ASSUME TypeOK, Short, queue # <<>>, queue' = Tail(queue)
  PROVE  Tries' = Tries - Try
<1>1. Len(queue) \in {1, 2} /\ Len(queue') = Len(queue) - 1
  <2>1. queue \in Seq(Texts) /\ Len(queue) \in Nat /\ Len(queue) <= 2
    BY DEF TypeOK, Short
  <2>2. Len(queue) # 0 /\ Len(queue') = Len(queue) - 1
    BY <2>1
  <2> QED BY <2>1, <2>2
<1>2. Try \in Nat
  BY QueryEngineAssumption DEF Try
<1> QED BY <1>1, <1>2 DEF Tries

LEMMA VerifyingCloser ==
  ASSUME IInv, Short, Verifying
  PROVE  Closer
<1>a. MaxClaims \in Nat /\ claims \in Nat /\ Try \in Nat /\ Tries \in Nat /\ Try = MaxClaims + 2
  BY Measured, QueryEngineAssumption DEF IInv, TypeOK, Try
<1>1. /\ TypeOK /\ h \in 0..14 /\ pc \in {"verify", "ask", "claims"}
      /\ Stage \in 0..56
      /\ Stage = IF cand.path = "bounded" THEN 52 ELSE 49 - 3 * h
  <2>1. pc \in {"verify", "ask", "claims"}
    BY DEF Verifying, Rephrase, RephraseFails, NoPayload, VerifyRejected, VerifyAccepted,
           NoneVerified, ClaimAccepted, ClaimRejected, ClaimFails, ClaimsAccepted
  <2>2. Stage = IF cand.path = "bounded" THEN 52 ELSE 49 - 3 * h
    BY <2>1 DEF Stage
  <2>3. h \in 0..14
    BY <2>1, HandlersRecover DEF IInv, TypeOK, Turn
  <2> QED BY <2>1, <2>2, <2>3, Measured DEF IInv
<1>2. CASE pc' = "idle"
  BY <1>1, <1>2 DEF Closer, Stage
<1>3. CASE pc' = Passed /\ UNCHANGED h
  <2>1. pc' \in {"done", "complete"}
    BY <1>3 DEF Passed
  <2> QED BY <1>1, <1>3, <2>1 DEF Closer, Stage
<1>4. CASE pc' = Failed /\ UNCHANGED <<cand, h>>
  <2>1. CASE cand.path = "bounded"
    <3>1. pc' = "gate" /\ Stage = 52
      BY <1>1, <1>4, <2>1 DEF Failed
    <3> QED BY <3>1 DEF Closer, Stage
  <2>2. CASE cand.path # "bounded"
    <3>1. pc' = "next" /\ h' = h /\ Stage = 49 - 3 * h
      BY <1>1, <1>4, <2>2 DEF Failed
    <3> QED BY <1>1, <3>1 DEF Closer, Stage
  <2> QED BY <2>1, <2>2
<1>5. ASSUME pc' \in {"verify", "ask", "claims"}, UNCHANGED h, cand'.path = cand.path
      PROVE  Stage' = Stage
  BY <1>1, <1>5 DEF Stage
<1>6. CASE Rephrase
  <2>1. queue' \in Candidates /\ Len(queue') \in {1, 2}
    BY <1>6 DEF Rephrase, Candidates
  <2>2. (Tries' = Try \/ Tries' = Try + Try) /\ Work' = Tries' + 1 /\ Work = Try + Try + 2
    BY <1>6, <2>1 DEF Rephrase, Tries, Work
  <2>3. Work' < Work
    BY <1>a, <2>2
  <2> QED BY <1>5, <1>6, <2>3 DEF Rephrase, Closer
<1>7. CASE VerifyRejected
  <2>1. Work' = Tries - Try + 1 /\ Work = Tries + 1
    BY <1>1, <1>7, FewerTries DEF VerifyRejected, Work
  <2>2. Work' < Work
    BY <1>a, <2>1
  <2> QED BY <1>5, <1>7, <2>2 DEF VerifyRejected, Closer
<1>8. CASE VerifyAccepted
  <2>1. CASE pc' = "claims" /\ queue' = Tail(queue) /\ claims' \in AtomicClaims
    <3>1. PICK c \in 1..MaxClaims : claims' = c
      BY <2>1 DEF AtomicClaims
    <3>2. Work' = Tries - Try + c + 2 /\ Work = Tries + 1
      BY <1>1, <1>8, <2>1, <3>1, FewerTries DEF VerifyAccepted, Work
    <3>3. Work' < Work
      BY <1>a, <3>2
    <3>4. cand'.path = cand.path
      BY <1>1, <1>8 DEF VerifyAccepted, Verified, TypeOK, Answers
    <3> QED BY <1>5, <1>8, <2>1, <3>3, <3>4 DEF VerifyAccepted, Closer
  <2> QED BY <1>3, <1>8, <2>1 DEF VerifyAccepted
<1>9. CASE ClaimAccepted
  <2>1. Work' = Tries + claims - 1 + 2 /\ Work = Tries + claims + 2
    BY <1>a, <1>9 DEF ClaimAccepted, Work, Tries
  <2>2. Work' < Work
    BY <1>a, <2>1
  <2> QED BY <1>5, <1>9, <2>2 DEF ClaimAccepted, Closer
<1>10. CASE ClaimRejected
  <2>1. Work' = Tries + 1 /\ Work = Tries + claims + 2
    BY <1>a, <1>10 DEF ClaimRejected, Work, Tries
  <2>2. Work' < Work
    BY <1>a, <2>1
  <2> QED BY <1>5, <1>10, <2>2 DEF ClaimRejected, Closer
<1> QED
  BY <1>2, <1>3, <1>4, <1>6, <1>7, <1>8, <1>9, <1>10
  DEF Verifying, RephraseFails, Raise, NoPayload, NoneVerified, ClaimFails, ClaimsAccepted, local

LEMMA FallingCloser ==
  ASSUME IInv, Planning \/ Falling \/ Answering
  PROVE  pc # "idle" /\ Stage' < Stage
<1>1. TypeOK /\ h \in 0..15 /\ (pc # "done" => h \in 0..14)
  BY HandlersRecover DEF IInv, TypeOK, Turn
<1>2. CASE Arithmetic \/ PlanFails \/ PlanRejected \/ PlanAccepted \/ Bounded
  BY <1>2 DEF Arithmetic, PlanFails, PlanRejected, PlanAccepted, Bounded, Raise, Return, Stage
<1>3. CASE Scope
  BY <1>1, <1>3 DEF Scope, local, Stage
<1>4. CASE Gate
  BY <1>1, <1>4 DEF Gate, local, Stage
<1>5. CASE Evidence
  <2>1. pc = "evidence" /\ pc' \in {"next", "verify", "complete"} /\ h' = h
    BY <1>5 DEF Evidence, local
  <2>2. cand'.path # "bounded"
    <3>1. CASE cand' \in Finalized("evidence")
      BY <1>1, <3>1, FinalizedShape
    <3>2. CASE cand' = Ungrounded
      BY <3>2 DEF Ungrounded, NoAnswer
    <3> QED BY <1>5, <3>1, <3>2 DEF Evidence
  <2> QED BY <1>1, <2>1, <2>2 DEF Stage
<1>6. CASE EvidenceFails \/ Complete \/ Done \/ UnknownAnswer
  <2>1. \/ pc = "evidence" /\ pc' = "idle"
        \/ pc = "complete" /\ pc' = "done"
        \/ pc = "done" /\ pc' \in {"idle", "unknown"}
        \/ pc = "unknown" /\ pc' = "idle"
    BY <1>6 DEF EvidenceFails, Complete, Done, UnknownAnswer, Raise, Return
  <2> QED BY <2>1 DEF Stage
<1>7. CASE Recover
  <2>1. pc = "recover" /\ pc' \in {"verify", "done", "next"} /\ h' = h /\ h \in 1..14
    BY <1>7, HandlersRecover DEF Recover, local
  <2>2. pc' = "verify" => cand'.path = "recovery"
    BY <1>7, <2>1, HandlersRecover, RecoverableShape DEF Recover
  <2> QED BY <2>1, <2>2 DEF Stage
<1>8. CASE NextHandler
  <2>1. pc = "next" /\ h' = h + 1 /\ pc' = IF h = 14 THEN "done" ELSE "recover"
    BY <1>8, HandlersRecover DEF NextHandler
  <2> QED BY <1>1, <2>1 DEF Stage
<1> QED
  BY <1>2, <1>3, <1>4, <1>5, <1>6, <1>7, <1>8 DEF Planning, Falling, Answering

(* answer ends: each decision leads further down its fallbacks, or ends one   *)
(* of the finitely many verifications and claims on the way                   *)
(* (_answer_with_local_model, _verify_with_local_model, the handlers).        *)
THEOREM Shortens == Spec => QuestionShortens
<1>1. Init => Short
  BY DEF Init, Short
<1>2. Spec => []Short
  BY <1>1, ShortInductive, Invariant, PTL DEF Spec
<1>3. IInv /\ Short => Numbers
  BY Measured DEF IInv, Numbers
<1>4. IInv /\ Short /\ Numbers' /\ [Next]_vars
        => [pc # "idle" => Numbers' /\ Closer]_vars
  <2> SUFFICES ASSUME IInv, Short, Next, pc # "idle" PROVE Closer
    OBVIOUS
  <2>1. Step
    BY DEF Next, Ask
  <2> QED BY <2>1, VerifyingCloser, FallingCloser DEF Step, Closer
<1> QED BY <1>2, <1>3, <1>4, Invariant, PTL DEF Spec, QuestionShortens
=============================================================================
