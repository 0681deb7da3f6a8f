------------------------------ MODULE QueryCalls ------------------------------
(* The model calls that a question makes (model_planner.py), each asked      *)
(* again and again for one prompt, and the two caches they go through.       *)
(*                                                                           *)
(*   - the plan: a compact extraction if it is configured, then the full     *)
(*     one, which is retried twice with the failure before it as feedback;   *)
(*   - the answer from evidence, and the repair of one that is not grounded; *)
(*   - the calls of one request: the expansion of the search terms, the      *)
(*     fallback answer, the verification, the canonical answer, the answer   *)
(*     resolved to its source, and the identity of two names.                *)
(*                                                                           *)
(* The planner's cache is written after the answer was judged, the           *)
(* model-call cache below it before.  A call may be killed between any two   *)
(* steps.  Not modelled: answers without the fields that the response schema *)
(* requires, which LocalModelClient never gives; two failures of a kind with *)
(* different texts, which lead to different keys as two kinds do.            *)
(***************************************************************************)
EXTENDS Naturals, Sequences

CONSTANTS
  Modes,      \* the calls and configurations considered
  MaxCalls    \* bound on the calls of each

SingleCalls == {"expansion", "fallback", "verification", "canonical", "source", "identity"}
Calls == SingleCalls \cup {"plan", "evidence"}
AllModes == [call : Calls, compact : BOOLEAN, force : BOOLEAN]

ASSUME QueryCallsAssumption == Modes \subseteq AllModes /\ MaxCalls \in Nat

VARIABLES
  mode,      \* the call; KMD_QUERY_DRS_COMPACT_FIRST and _FORCE_FULL
  entry,     \* the planner's cache: what is stored for a request
  heard,     \* the model-call cache: the answer to a request
  pc, req,   \* where the call is; the request it is about
  got,       \* what the planner's cache, or the model, gave for it
  thin,      \* was an undercovered compact plan accepted?
  result,    \* what the last call returned
  calls,
  asked,     \* history: requests of this call that reached the endpoint
  found,     \* history: was a plan accepted in this call?
  clean,     \* history: did all requests of this call get an answer?
  settled    \* history: was there such a call that returned?

ghosts == <<asked, found, clean, settled>>
vars == <<mode, entry, heard, pc, req, got, thin, result, calls, ghosts>>
-----------------------------------------------------------------------------
(* Requests, their answers and their failures.                              *)

Retryable == {"refused", "broken", "invalid"}

(* The prompt and the key of a retry contain the failures before it. *)
Retries == 2
Feedback == UNION {[1..n -> Retryable] : n \in 0..Retries}
Compact == <<"compact", <<>>>>
Main == <<"evidence", <<>>>>
Repair == <<"repair", <<>>>>
Full(failures) == <<"full", failures>>
Single(call) == <<call, <<>>>>
Requests ==
  {Compact, Main, Repair} \cup {Full(f) : f \in Feedback} \cup {Single(c) : c \in SingleCalls}

(* A plan is not valid, does not cover the question (undercovered), or does;
   an answer is grounded in the evidence or not; a verdict is a verdict.     *)
Judged == {"canonical", "source", "identity"}
Plans == {"thin", "accepted"}
Answers(r) ==
  CASE r = Compact -> {"invalid"} \cup Plans
    [] r[1] = "full" -> {"invalid", "accepted"}
    [] r \in {Main, Repair} \cup {Single(c) : c \in Judged} -> {"ungrounded", "accepted"}
    [] OTHER -> {"accepted"}
AllAnswers == Plans \cup {"invalid", "ungrounded"}

(* Not sent, for an endpoint, a schema or a context that is not allowed, or
   without a response; a stream that is incomplete, not JSON or not of the
   schema; one that filled the context.                                      *)
Refused == {"refused"}
Failures == Refused \cup {"broken", "exhausted"}

(* What is stored of an outcome: of a plan all but a refused request; of the
   answer from evidence and its repair whatever was answered; of the rest what
   was accepted.                                                             *)
Stored(r, o) ==
  CASE r = Compact \/ r[1] = "full" -> o # "refused"
    [] r \in {Main, Repair} -> o \in AllAnswers
    [] OTHER -> o = "accepted"

(* What is returned from the cache without asking again.  A plan that an
   earlier validator accepted, and the present one does not, is stale.       *)
Settled_Stored(r) == Plans \cup {"exhausted", "broken", "invalid", "ungrounded"}
Settled(r) == Plans \cup {"exhausted"} \cup (IF r = Main THEN {"ungrounded"} ELSE {})
-----------------------------------------------------------------------------
Stale(r) == IF r \in {Compact, Full(<<>>)} THEN {"none", "stale"} ELSE {"none"}

Init ==
  /\ mode \in Modes
  /\ entry \in {e \in [Requests -> {"none", "stale"}] : \A r \in Requests : e[r] \in Stale(r)}
  /\ heard = [r \in Requests |-> "none"]
  /\ pc = "idle" /\ req = Main /\ got = "none"
  /\ thin = FALSE /\ result = "none" /\ calls = 0
  /\ asked = 0 /\ found = FALSE /\ clean = FALSE /\ settled = FALSE

Return(o) == pc' = "idle" /\ result' = o /\ got' = "none" /\ req' = Main /\ thin' = FALSE
Ask(r) == pc' = "lookup" /\ req' = r /\ got' = "none"

First ==
  CASE mode.call = "plan" -> IF mode.compact THEN Compact ELSE Full(<<>>)
    [] mode.call = "evidence" -> Main
    [] OTHER -> Single(mode.call)

Begin ==
  /\ pc = "idle"
  /\ calls < MaxCalls
  /\ calls' = calls + 1
  /\ Ask(First)
  /\ asked' = 0 /\ found' = FALSE /\ clean' = TRUE
  /\ settled' = (settled \/ (clean /\ result # "none"))
  /\ UNCHANGED <<mode, entry, heard, thin, result>>

Hit ==
  /\ pc = "lookup"
  /\ entry[req] \in Settled(req)
  /\ pc' = IF req = Main THEN "judged" ELSE "got"
  /\ got' = entry[req]
  /\ UNCHANGED <<mode, entry, heard, req, thin, result, calls, ghosts>>

Miss ==
  /\ pc = "lookup"
  /\ entry[req] \notin Settled(req)
  /\ pc' = "request"
  /\ UNCHANGED <<mode, entry, heard, req, got, thin, result, calls, ghosts>>

(* client.complete_json: the model-call cache, then the endpoint. *)
Keep_Nothing(r, o) == UNCHANGED heard
Keep(r, o) == heard' = IF o \in AllAnswers THEN [heard EXCEPT ![r] = o] ELSE heard

Complete(o) ==
  /\ pc = "request"
  /\ IF heard[req] # "none" THEN o = heard[req] /\ UNCHANGED <<heard, asked>>
     ELSE /\ o \in Failures \cup Answers(req)
          /\ Keep(req, o)
          /\ asked' = asked + 1
  /\ clean' = (clean /\ o \notin Failures)
  /\ pc' = "answer" /\ got' = o
  /\ UNCHANGED <<mode, entry, req, thin, result, calls, found, settled>>

(* The outcome is stored; that of the answer from evidence only when it needs
   no repair.                                                                *)
Store ==
  /\ pc = "answer"
  /\ entry' = IF Stored(req, got) /\ ~(req = Main /\ got = "ungrounded")
              THEN [entry EXCEPT ![req] = got] ELSE entry
  /\ pc' = "got"
  /\ UNCHANGED <<mode, heard, req, got, thin, result, calls, ghosts>>
-----------------------------------------------------------------------------
(* The plan.                                                                 *)

(* Is the compact plan returned, or the full one asked for? *)
Enough(o) == o = "accepted" \/ (o = "thin" /\ ~mode.force)

CompactDone ==
  /\ pc = "got" /\ req = Compact
  /\ found' = (found \/ got \in Plans)
  /\ IF Enough(got) THEN Return(got)
     ELSE Ask(Full(<<>>)) /\ thin' = (got = "thin") /\ UNCHANGED result
  /\ UNCHANGED <<mode, entry, heard, calls, asked, clean, settled>>

(* When the last retry failed too, an accepted compact plan is returned. *)
FallBack_Last(o) == o
FallBack(o) == IF thin THEN "thin" ELSE o

After(failures, o) == Append(failures, o)

FullDone ==
  /\ pc = "got" /\ req[1] = "full"
  /\ found' = (found \/ got \in Plans)
  /\ CASE got \notin Retryable -> Return(got)
       [] got \in Retryable /\ Len(req[2]) < Retries ->
            Ask(Full(After(req[2], got))) /\ UNCHANGED <<thin, result>>
       [] got \in Retryable /\ Len(req[2]) = Retries -> Return(FallBack(got))
  /\ UNCHANGED <<mode, entry, heard, calls, asked, clean, settled>>
-----------------------------------------------------------------------------
(* The answer from evidence.                                                 *)

MainDone ==
  /\ pc = "got" /\ req = Main
  /\ IF got = "ungrounded" THEN Ask(Repair) /\ UNCHANGED <<thin, result>>
     ELSE Return(IF got \in Failures THEN "refused" ELSE got)
  /\ UNCHANGED <<mode, entry, heard, calls, ghosts>>

MainHit ==
  /\ pc = "judged"
  /\ Return(got)
  /\ UNCHANGED <<mode, entry, heard, calls, ghosts>>

(* An accepted repair is stored for the answer too; without one the answer
   stays what it was, even if the repair got no answer.                      *)
Repaired(o) == IF o = "accepted" THEN o ELSE "ungrounded"

RepairDone ==
  /\ pc = "got" /\ req = Repair
  /\ entry' = [entry EXCEPT ![Main] = Repaired(got)]
  /\ Return(Repaired(got))
  /\ UNCHANGED <<mode, heard, calls, ghosts>>
-----------------------------------------------------------------------------
(* The calls of one request: the expansion and the fallback report every
   failure as a failed request.                                              *)
SingleDone(call) ==
  /\ pc = "got" /\ req = Single(call)
  /\ Return(IF got \in Failures /\ call \in {"expansion", "fallback"} THEN "refused" ELSE got)
  /\ UNCHANGED <<mode, entry, heard, calls, ghosts>>

Expansion == SingleDone("expansion")
Fallback == SingleDone("fallback")
Verification == SingleDone("verification")
Canonical == SingleDone("canonical")
SourceResolved == SingleDone("source")
Identity == SingleDone("identity")

Crash ==
  /\ pc # "idle"
  /\ Return("none")
  /\ UNCHANGED <<mode, entry, heard, calls, ghosts>>
-----------------------------------------------------------------------------
CallStep ==
  \/ Hit \/ Miss \/ Store
  \/ \E o \in Failures \cup AllAnswers : Complete(o)
  \/ CompactDone \/ FullDone \/ MainDone \/ MainHit \/ RepairDone
  \/ Expansion \/ Fallback \/ Verification \/ Canonical \/ SourceResolved \/ Identity

Next == Begin \/ CallStep \/ Crash

Spec == Init /\ [][Next]_vars
-----------------------------------------------------------------------------
(* Properties.                                                               *)

Outcomes == {"none"} \cup Failures \cup AllAnswers

TypeOK ==
  /\ mode \in Modes
  /\ entry \in [Requests -> Outcomes \cup {"stale"}]
  /\ heard \in [Requests -> {"none"} \cup AllAnswers]
  /\ pc \in {"idle", "lookup", "request", "answer", "got", "judged"}
  /\ req \in Requests /\ got \in Outcomes /\ thin \in BOOLEAN
  /\ result \in Outcomes /\ calls \in 0..MaxCalls
  /\ asked \in Nat
  /\ found \in BOOLEAN /\ clean \in BOOLEAN /\ settled \in BOOLEAN

Returned == pc = "idle" /\ result # "none"

(* A plan that was accepted in a call is not lost to the extraction that was
   to improve on it: the call returns a plan, whichever of the retries fail
   and however, unless the full extraction filled the context, which is not
   retried and returned in place of the plan (call_model_query_drs).         *)
PlanIsFound == Returned /\ found => result \in Plans \cup {"exhausted"}

(* What a call returns without asking the endpoint is no transient failure and
   no plan that the present validator refuses: those are always asked for
   again (structured_failure_retryable, the revalidation of plans).          *)
ServedIsSettled == Returned /\ asked = 0 => result \notin {"refused", "broken", "stale"}

(* A call whose requests were all answered is free when it is repeated, even
   if the plan needed its retries or the answer its repair, and whatever was
   rejected: feedback and repairs are the same, so the keys are.             *)
HeardIsFree == settled => asked = 0

=============================================================================
