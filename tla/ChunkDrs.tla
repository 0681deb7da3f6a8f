------------------------------- MODULE ChunkDrs -------------------------------
(* The calls of call_model_chunk_drs (model_planner.py) for one chunk, and  *)
(* the three caches they go through.                                        *)
(*                                                                          *)
(*   - the compact extraction is attempted up to three times; an accepted   *)
(*     result, or a request that failed at last, ends the call;             *)
(*   - then the monolithic extraction, which falls back on a staged one     *)
(*     (a skeleton, its conditions, perhaps its missing boxes, and once     *)
(*     more with the validation errors as feedback);                        *)
(*   - an accepted result with too few conditions is asked for again.       *)
(*                                                                          *)
(* The planner's cache keeps the outcome of each extraction and stage,      *)
(* failures included; the model-call cache below it keeps every answer that *)
(* has the form asked for, whatever it is worth.  A call may be killed      *)
(* between any two steps.  Not modelled: KMD_DRS_REFRESH_EMPTY_STRUCTURAL_  *)
(* LEGACY, and a change of the code between the calls.                      *)
(***************************************************************************)
EXTENDS Naturals

CONSTANTS
  Modes,      \* the configurations and chunks considered
  MaxCalls    \* bound on the calls of each

AllModes == [compact : BOOLEAN, staged : BOOLEAN, fields : BOOLEAN, alike : BOOLEAN]

ASSUME ChunkDrsAssumption == Modes \subseteq AllModes /\ MaxCalls \in [Modes -> Nat]

VARIABLES
  mode,     \* which ways are configured; has the chunk field-like spans; are
            \* the texts alike that miss the schema of the compact extraction?
  legacy,   \* a compact entry of an earlier policy
  compact,  \* the compact entries of the three attempts
  spare,    \* an entry with conditions that a retry left under another key
  stage,    \* the entries of the stages
  mono,     \* the entry of the whole call
  call,     \* the model-call cache
  pc, req,  \* where the call is; the request it is about
  got,      \* what that request gave
  try,      \* the compact attempt; see CompactEntry and Rejected
  why,      \* what the staged extraction is a fallback for
  asked,    \* requests of this call that reached the endpoint
  salvaged, \* history: was the entry made of the raw text of a failure?
  clean,    \* history: did all requests of this call get an answer?
  settled,  \* history: was there such a call that returned?
  result,   \* what the last call returned
  calls

caches == <<legacy, compact, spare, stage, mono, call>>
local == <<try, why, req>>
ghosts == <<asked, salvaged, clean, settled>>
vars == <<mode, legacy, compact, spare, stage, mono, call, pc, req, got, try, why, asked,
          salvaged, clean, settled, result, calls>>
-----------------------------------------------------------------------------
(* Requests, their answers and their failures.                              *)

StageRequests == {"skeleton", "conditions", "boxes"} \X {0, 1} \cup {<<"boxes", 2>>}
Compact == <<"compact", 0>>
Mono == <<"mono", 0>>
Requests == StageRequests \cup {Compact, Mono}

(* A DRS is full, sparse (_chunk_drs_staged_retry_reason), or not valid: not
   grounded, completable by adding missing boxes, or neither.  Only for the
   monolithic one does it matter which.                                     *)
Qualities == {"invalid", "completable", "sparse", "full"}
Answers ==
  [compact |-> {"invalid", "empty", "full"}, mono |-> Qualities \cup {"ungrounded"},
   conditions |-> Qualities, skeleton |-> {"ungrounded", "ok"},
   boxes |-> {"useless", "sparse", "full"}]
AllAnswers == UNION {Answers[s] : s \in DOMAIN Answers}

(* request_failed; incomplete_stream or invalid_json; context_limit_exhausted;
   whole JSON that is not of the response schema, which only the compact
   extraction tells from broken JSON.                                       *)
JsonErrors == {"broken", "exhausted", "mismatch"}
Failures == {"refused"} \cup JsonErrors
FailuresOf(r) == IF r = Compact THEN Failures ELSE Failures \ {"mismatch"}
Transient == {"refused", "broken"}

(* What is read from the cache without asking again, by
   structured_failure_retryable.                                            *)
Accepted == {"sparse", "full"}
Final == {"ungrounded", "exhausted"}
Kinds == {"none"} \cup JsonErrors \cup AllAnswers

FirstTry == [attempt |-> 0, chained |-> TRUE, seen |-> {}]
-----------------------------------------------------------------------------
Init ==
  /\ mode \in Modes
  /\ legacy \in {"none", "empty", "full"}
  /\ compact = [i \in 0..2 |-> "none"]
  /\ spare = FALSE
  /\ stage = [r \in StageRequests |-> "none"]
  /\ mono = "none"
  /\ call = [r \in Requests |-> "none"]
  /\ pc = "idle" /\ req = Mono /\ got = "none"
  /\ try = FirstTry /\ why = "none"
  /\ asked = 0 /\ salvaged = FALSE
  /\ clean = FALSE /\ settled = FALSE
  /\ result = "none"
  /\ calls = 0

Goto(label) == pc' = label /\ got' = "none"
Rest == try' = FirstTry /\ why' = "none" /\ req' = Mono
Return(kind) == Goto("idle") /\ result' = kind /\ Rest

Begin ==
  /\ pc = "idle"
  /\ calls < MaxCalls[mode]
  /\ calls' = calls + 1
  /\ Goto(IF mode.compact THEN "compact" ELSE "lookup")
  /\ asked' = 0 /\ clean' = TRUE
  /\ settled' = (settled \/ (clean /\ result # "none"))
  /\ UNCHANGED <<mode, caches, local, salvaged, result>>

(* client.complete_json: the model-call cache, then the endpoint.           *)
Cached(r) == call[r] # "none"
Keep_Nothing(r, o) == UNCHANGED call
Keep(r, o) ==
  IF o \in AllAnswers THEN call' = [call EXCEPT ![r] = o] ELSE UNCHANGED call

Complete(o) ==
  /\ pc = "request"
  /\ IF Cached(req) THEN o = call[req] /\ UNCHANGED <<call, asked>>
     ELSE /\ o \in FailuresOf(req) \cup Answers[req[1]]
          /\ Keep(req, o)
          /\ asked' = asked + 1
  /\ clean' = (clean /\ o \notin Failures)
  /\ pc' = "answer" /\ got' = o
  /\ UNCHANGED <<mode, legacy, compact, spare, stage, mono, local, salvaged, settled, result,
                 calls>>
-----------------------------------------------------------------------------
(* The compact extraction.                                                  *)

(* A retry's key contains the failure before it: after rejections alone,
   which are stored as they are reported, it is the key of earlier calls;
   after another failure, whose duration is part of it, it is a new one.    *)
CompactEntry == IF try.chained THEN compact[try.attempt] ELSE "none"
CompactStored(kind) ==
  IF try.chained THEN compact' = [compact EXCEPT ![try.attempt] = kind] /\ UNCHANGED spare
  ELSE spare' = (spare \/ kind = "full") /\ UNCHANGED compact

Monolithic == Goto("lookup") /\ try' = FirstTry
NextTry(chained, seen) ==
  IF try.attempt < 2
  THEN Goto("compact") /\ try' = [attempt |-> try.attempt + 1, chained |-> chained, seen |-> seen]
  ELSE Monolithic

(* A rejection, cached or new: the next attempt, or none when the same raw
   text was rejected before.  Two invalid answers are the same answer, which
   the model-call cache keeps.                                              *)
Repeated(kind) == kind \in try.seen /\ (kind = "mismatch" => mode.alike)
Rejected(kind) ==
  IF Repeated(kind) THEN Monolithic ELSE NextTry(try.chained, try.seen \cup {kind})

CompactRejected ==
  /\ pc = "compact"
  /\ CompactEntry \in {"invalid", "mismatch"}
  /\ Rejected(CompactEntry)
  /\ UNCHANGED <<mode, caches, req, why, ghosts, result, calls>>

(* condition_source_cache: another entry of this text that has conditions.  *)
HasSource == spare \/ \E i \in 0..2 : i # try.attempt /\ compact[i] = "full"

(* No entry to go by: at the first attempt one of an earlier policy is looked
   for, whose raw text is converted and stored under the current policy.    *)
NoEntry == CompactEntry \in {"none", "broken"}
Legacy == IF try.attempt = 0 THEN legacy ELSE "none"

CompactMigrated ==
  /\ pc = "compact"
  /\ NoEntry /\ Legacy = "full"
  /\ CompactStored("full")
  /\ Return("full")
  /\ UNCHANGED <<mode, legacy, stage, mono, call, ghosts, calls>>

CompactCopied ==
  /\ pc = "compact"
  /\ (NoEntry /\ Legacy # "full") \/ CompactEntry \in {"empty", "exhausted"}
  /\ HasSource
  /\ CompactStored("full")
  /\ Return("full")
  /\ UNCHANGED <<mode, legacy, stage, mono, call, ghosts, calls>>

CompactHit ==
  /\ pc = "compact"
  /\ CompactEntry = "full" \/ (CompactEntry \in {"empty", "exhausted"} /\ ~HasSource)
  /\ IF CompactEntry = "exhausted" THEN Monolithic /\ UNCHANGED <<req, why, result>>
     ELSE Return(CompactEntry)
  /\ UNCHANGED <<mode, caches, ghosts, calls>>

(* An earlier entry without conditions is stored, but not returned. *)
CompactAsk ==
  /\ pc = "compact"
  /\ NoEntry /\ Legacy # "full" /\ ~HasSource
  /\ IF Legacy = "empty" THEN CompactStored("empty") ELSE UNCHANGED <<compact, spare>>
  /\ Goto("request") /\ req' = Compact
  /\ UNCHANGED <<mode, legacy, stage, mono, call, try, why, ghosts, result, calls>>

CompactRefused ==
  /\ pc = "answer" /\ req = Compact
  /\ got = "refused"
  /\ IF try.attempt < 2 THEN NextTry(FALSE, try.seen) /\ UNCHANGED <<req, why, result>>
     ELSE Return("refused")
  /\ UNCHANGED <<mode, caches, ghosts, calls>>

CompactFailed ==
  /\ pc = "answer" /\ req = Compact
  /\ got \in JsonErrors
  /\ CompactStored(got)
  /\ NextTry(FALSE, try.seen)
  /\ UNCHANGED <<mode, legacy, stage, mono, call, req, why, ghosts, result, calls>>

CompactInvalid ==
  /\ pc = "answer" /\ req = Compact
  /\ got = "invalid"
  /\ CompactStored(got)
  /\ Rejected(got)
  /\ UNCHANGED <<mode, legacy, stage, mono, call, req, why, ghosts, result, calls>>

CompactAnswered ==
  /\ pc = "answer" /\ req = Compact
  /\ got \in {"empty", "full"}
  /\ CompactStored(got)
  /\ Return(got)
  /\ UNCHANGED <<mode, legacy, stage, mono, call, ghosts, calls>>
-----------------------------------------------------------------------------
(* The monolithic extraction.                                               *)

Ask(r) == Goto("request") /\ req' = r /\ UNCHANGED <<mono, salvaged, result, try>>
Stage(r) == Goto("stage") /\ req' = r /\ UNCHANGED <<mono, salvaged, result, try>>

(* Writes the entry and returns it.  A completable DRS that could not be
   completed is reported as a schema failure like any other.                *)
Settle(kind) ==
  LET reason == IF kind = "completable" THEN "invalid" ELSE kind IN
  /\ mono' = reason
  /\ salvaged' = FALSE
  /\ Return(reason)

(* A full entry is current; a final failure is returned as it is. *)
Current(kind) == kind = "full" \/ kind \in Final

MonoHit ==
  /\ pc = "lookup"
  /\ Current(mono)
  /\ Return(mono)
  /\ UNCHANGED <<mode, caches, ghosts, calls>>

(* The raw text of a JSON error may hold a whole valid DRS. *)
MonoSalvaged ==
  /\ pc = "lookup"
  /\ mono = "broken"
  /\ \E q \in Accepted : mono' = q /\ Return(q)
  /\ salvaged' = TRUE
  /\ clean' = FALSE
  /\ UNCHANGED <<mode, legacy, compact, spare, stage, call, asked, settled, calls>>

MonoMiss ==
  /\ pc = "lookup"
  /\ ~Current(mono)
  /\ IF mode.staged /\ mode.fields THEN Stage(<<"skeleton", 0>>) /\ why' = "fields"
     ELSE Ask(Mono) /\ UNCHANGED why
  /\ UNCHANGED <<mode, legacy, compact, spare, stage, call, asked, clean, settled, calls>>

MonoRefused ==
  /\ pc = "answer" /\ req = Mono
  /\ got = "refused"
  /\ Return("refused")
  /\ UNCHANGED <<mode, caches, ghosts, calls>>

(* What follows when there is no staged extraction, or it failed. *)
WithoutStages(kind) ==
  \/ kind = "fields" /\ Ask(Mono) /\ UNCHANGED why
  \/ kind = "completable" /\ Stage(<<"boxes", 2>>) /\ why' = kind
  \/ kind \notin {"fields", "completable"} /\ Settle(kind)

(* A staged result replaces a sparse one only if it has more conditions. *)
WithStages(kind, quality) ==
  \E best \in {quality} \cup ({kind} \cap {"sparse"}) : Settle(best)

MonoAnswered ==
  /\ pc = "answer" /\ req = Mono
  /\ got # "refused"
  /\ IF got = "full" THEN Settle(got)
     ELSE IF mode.staged THEN Stage(<<"skeleton", 0>>) /\ why' = got
     ELSE WithoutStages(got)
  /\ UNCHANGED <<mode, legacy, compact, spare, stage, call, asked, clean, settled, calls>>
-----------------------------------------------------------------------------
(* The stages.                                                              *)

StageOf == req[1]
Round == req[2]

StageHit ==
  /\ pc = "stage"
  /\ stage[req] \notin {"none"} \cup Transient
  /\ pc' = "answer" /\ got' = stage[req]
  /\ UNCHANGED <<mode, caches, local, ghosts, result, calls>>

StageMiss ==
  /\ pc = "stage"
  /\ stage[req] \in {"none"} \cup Transient
  /\ Goto("request")
  /\ UNCHANGED <<mode, caches, local, ghosts, result, calls>>

StageStored == stage' = IF got = "refused" THEN stage ELSE [stage EXCEPT ![req] = got]

Retry_Always(round) == Stage(<<"skeleton", 1>>) /\ UNCHANGED why
Retry(round) ==
  IF round = 0 THEN Stage(<<"skeleton", 1>>) /\ UNCHANGED why ELSE WithoutStages(why)

SkeletonAnswered ==
  /\ pc = "answer" /\ StageOf = "skeleton"
  /\ StageStored
  /\ IF got = "ok" THEN Stage(<<"conditions", Round>>) /\ UNCHANGED why ELSE WithoutStages(why)
  /\ UNCHANGED <<mode, legacy, compact, spare, call, asked, clean, settled, calls>>

ConditionsAnswered ==
  /\ pc = "answer" /\ StageOf = "conditions"
  /\ StageStored
  /\ \/ got \in Accepted /\ WithStages(why, got)
     \/ got = "completable" /\ Stage(<<"boxes", Round>>) /\ UNCHANGED why
     \/ got = "invalid" /\ Retry(Round)
     \/ got \in Failures /\ WithoutStages(why)
  /\ UNCHANGED <<mode, legacy, compact, spare, call, asked, clean, settled, calls>>

(* Completed boxes, of the staged DRS or of the monolithic one. *)
BoxesAnswered ==
  /\ pc = "answer" /\ StageOf = "boxes"
  /\ StageStored
  /\ \/ got \in Accepted /\ WithStages(why, got)
     \/ got \notin Accepted /\ Round = 2 /\ Settle(why)
     \/ got \notin Accepted /\ Round # 2 /\ Retry(Round)
  /\ UNCHANGED <<mode, legacy, compact, spare, call, asked, clean, settled, calls>>

Crash ==
  /\ pc # "idle"
  /\ Return("none")
  /\ UNCHANGED <<mode, caches, ghosts, calls>>
-----------------------------------------------------------------------------
CallStep ==
  \/ \E o \in Failures \cup AllAnswers : Complete(o)
  \/ CompactRejected \/ CompactMigrated \/ CompactCopied \/ CompactHit \/ CompactAsk
  \/ CompactRefused \/ CompactFailed \/ CompactInvalid \/ CompactAnswered
  \/ MonoHit \/ MonoSalvaged \/ MonoMiss \/ MonoRefused \/ MonoAnswered
  \/ StageHit \/ StageMiss \/ SkeletonAnswered \/ ConditionsAnswered \/ BoxesAnswered

Next == Begin \/ CallStep \/ Crash

Spec == Init /\ [][Next]_vars

(* A running call goes on; that a request returns is assumed. *)
FairSpec == Spec /\ WF_vars(CallStep)
-----------------------------------------------------------------------------
(* Properties.                                                              *)

TypeOK ==
  /\ mode \in Modes
  /\ legacy \in {"none", "empty", "full"}
  /\ compact \in [0..2 -> Kinds] /\ spare \in BOOLEAN
  /\ stage \in [StageRequests -> Kinds]
  /\ mono \in Kinds
  /\ call \in [Requests -> {"none"} \cup AllAnswers]
  /\ pc \in {"idle", "compact", "lookup", "stage", "request", "answer"}
  /\ req \in Requests /\ got \in Kinds \cup Failures
  /\ try \in [attempt : 0..2, chained : BOOLEAN, seen : SUBSET {"invalid", "mismatch"}]
  /\ why \in Kinds \cup {"fields"}
  /\ asked \in Nat /\ salvaged \in BOOLEAN
  /\ clean \in BOOLEAN /\ settled \in BOOLEAN
  /\ result \in Kinds \cup Failures
  /\ calls \in 0..MaxCalls[mode]

(* An accepted result is never lost to a failure: a sparse one is asked for
   again by every call, and whatever fails then -- requests, stages, the
   process -- the caches below give it back (call_model_chunk_drs overwrites
   its entry with what the new attempt gives).  One made of the raw text of a
   JSON error has nothing below it.                                         *)
AcceptedIsKept ==
  [][/\ mono = "full" => mono' = "full"
     /\ mono = "sparse" /\ ~salvaged => mono' \in Accepted
     /\ \A i \in 0..2 : compact[i] = "full" => compact'[i] = "full"]_vars

(* A call whose requests were all answered is free when it is repeated, even
   if it was rejected, was sparse or had to be staged: no later call for the
   chunk reaches the endpoint (the keys of the caches).                     *)
HeardIsFree == settled => asked = 0

(* A call returns or is killed. *)
CallEnds == (pc # "idle") ~> (pc = "idle")

=============================================================================
