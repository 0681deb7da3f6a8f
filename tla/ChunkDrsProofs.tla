---------------------------- MODULE ChunkDrsProofs ----------------------------
(* Proofs about ChunkDrs, for all modes and any number of calls.             *)
(*                                                                           *)
(* AcceptedIsKept rests on what the caches keep below an accepted entry      *)
(* (Remembered) and on where a call is among the stages (Phase, Path): no    *)
(* step takes away what an accepted entry came from.                         *)
(*                                                                           *)
(* HeardIsFree compares two calls: one whose every request was answered, and *)
(* the next one, which must find all of them in the caches.  FreeStart says  *)
(* what the caches hold when a call has nothing to ask; CleanPath, that the  *)
(* way of a call that was heard so far is the one its entries lead to; Free, *)
(* that a later call follows it and is never at a request.                   *)
(***************************************************************************)
EXTENDS ChunkDrs, TLAPS

Skeleton(n) == <<"skeleton", n>>
Conditions(n) == <<"conditions", n>>
Boxes(n) == <<"boxes", n>>
Last == Boxes(2)

Reusable(r) == stage[r] \notin {"none"} \cup Transient

InCompact == pc = "compact" \/ (pc \in {"request", "answer"} /\ req = Compact)
InMono == pc \in {"stage", "request", "answer"} /\ req = Mono
InStages == pc \in {"stage", "request", "answer"} /\ req \in StageRequests
FieldsFirst == mode.staged /\ mode.fields
-----------------------------------------------------------------------------
(* What the caches hold, and where a call is.                                *)

Stored ==
  /\ \A r \in Requests : call[r] \in {"none"} \cup Answers[r[1]]
  /\ \A r \in StageRequests : stage[r] \in {"none", "broken", "exhausted"} \cup Answers[r[1]]
  /\ \A i \in 0..2 : compact[i] \in {"none", "invalid", "empty", "full"} \cup JsonErrors
  /\ mono \in {"none", "ungrounded", "invalid", "sparse", "full", "broken", "exhausted"}

InHand ==
  /\ pc = "stage" => req \in StageRequests
  /\ pc = "answer" => got \in Answers[req[1]] \cup FailuresOf(req)
  /\ pc = "request" /\ req \in StageRequests => ~Reusable(req)
  /\ pc = "answer" /\ req \in StageRequests /\ Reusable(req) => got = stage[req]
  /\ pc = "answer" /\ req = Mono =>
       \/ got \in Answers["mono"] /\ call[Mono] = got
       \/ got \in {"refused", "broken", "exhausted"} /\ call[Mono] = "none"

Phase ==
  /\ InMono \/ InStages => ~Current(mono)
  /\ InCompact => mode.compact
  /\ pc \in {"request", "answer"} /\ req = Compact /\ try.chained =>
       compact[try.attempt] \in {"none", "broken", "empty"}
  /\ pc = "idle" => req = Mono
  /\ pc \in {"idle", "lookup"} \/ InCompact => why = "none"
  /\ InMono => why = (IF FieldsFirst THEN "fields" ELSE "none")
  /\ InStages =>
       \/ why = "fields" /\ FieldsFirst
       \/ why \in {"ungrounded", "invalid", "completable", "sparse"} /\ call[Mono] = why
       \/ why \in {"broken", "exhausted"} /\ call[Mono] = "none"
  /\ InStages /\ req # Last => mode.staged
  /\ InStages /\ req = Last => why = "completable"
-----------------------------------------------------------------------------
(* The way through the stages, in their entries.                             *)

Good(n) == \/ stage[Conditions(n)] \in Accepted
           \/ stage[Conditions(n)] = "completable" /\ stage[Boxes(n)] \in Accepted
FailedOnce ==
  /\ stage[Skeleton(0)] = "ok"
  /\ \/ stage[Conditions(0)] = "invalid"
     \/ stage[Conditions(0)] = "completable" /\ stage[Boxes(0)] \notin Accepted
Second == stage[Skeleton(1)] = "ok" /\ Good(1)
Staged ==
  /\ stage[Skeleton(0)] = "ok"
  /\ Good(0) \/ (stage[Conditions(0)] \in {"invalid", "completable"} /\ Second)

(* What an accepted entry came from is kept below it. *)
Remembered ==
  mono = "sparse" /\ ~salvaged =>
     \/ call[Mono] = "sparse"
     \/ mode.staged /\ Staged
     \/ call[Mono] = "completable" /\ stage[Last] \in Accepted

(* The stages before r went as they must for r to be asked. *)
Before(r) ==
  /\ r[1] # "skeleton" => stage[Skeleton(r[2])] = "ok"
  /\ r[1] = "boxes" => stage[Conditions(r[2])] = "completable"
  /\ r[2] = 1 => FailedOnce
Path ==
  /\ InStages /\ req # Last => Before(req)
  /\ InStages /\ req = Last /\ mode.staged => ~Staged
  /\ InMono /\ FieldsFirst => ~Staged

Inv == TypeOK /\ Stored /\ InHand /\ Phase /\ Remembered /\ Path
-----------------------------------------------------------------------------
(* When all that a call would ask is cached: the stages end in a DRS, or     *)
(* without one; then the monolithic extraction, then the compact one.        *)

Retried == FailedOnce /\ (stage[Conditions(0)] = "completable" => Reusable(Boxes(0)))
Accepts == (stage[Skeleton(0)] = "ok" /\ Good(0)) \/ (Retried /\ Second)
FailsAgain ==
  \/ Reusable(Skeleton(1)) /\ stage[Skeleton(1)] # "ok"
  \/ /\ stage[Skeleton(1)] = "ok"
     /\ \/ stage[Conditions(1)] \in {"invalid", "exhausted"}
        \/ /\ stage[Conditions(1)] = "completable"
           /\ Reusable(Boxes(1)) /\ stage[Boxes(1)] \notin Accepted
Fails ==
  \/ Reusable(Skeleton(0)) /\ stage[Skeleton(0)] # "ok"
  \/ stage[Skeleton(0)] = "ok" /\ stage[Conditions(0)] = "exhausted"
  \/ Retried /\ FailsAgain
Ends == call[Mono] = "completable" => Reusable(Last)
FreeMono ==
  /\ call[Mono] # "none"
  /\ \/ call[Mono] = "full"
     \/ mode.staged /\ (Accepts \/ (Fails /\ Ends))
     \/ ~mode.staged /\ Ends
FreeLookup ==
  \/ Current(mono)
  \/ FieldsFirst /\ (Accepts \/ (Fails /\ FreeMono))
  \/ ~FieldsFirst /\ FreeMono

Rejections == {"invalid", "mismatch"}
(* The second rejection is the first one again. *)
Again == compact[1] = compact[0] /\ (compact[1] = "mismatch" => mode.alike)
Reached(i) ==
  /\ i > 0 => compact[0] \in Rejections
  /\ i > 1 => compact[1] \in Rejections /\ ~Again
EndsCompact == \E i \in 0..2 : Reached(i) /\ compact[i] \in {"empty", "full"}
LeadsOn ==
  \/ \E i \in 0..2 : Reached(i) /\ compact[i] = "exhausted"
  \/ Reached(1) /\ compact[1] \in Rejections /\ Again
  \/ Reached(2) /\ compact[2] \in Rejections
FreeStart ==
  IF mode.compact THEN EndsCompact \/ (LeadsOn /\ FreeLookup) ELSE FreeLookup

(* A call all of whose requests were answered so far took the way that the   *)
(* next one will find in the caches.                                         *)
CleanPath ==
  clean =>
    /\ InCompact =>
         /\ try.chained /\ Reached(try.attempt)
         /\ \A k \in Rejections :
              k \in try.seen <=> \E j \in 0..2 : j < try.attempt /\ compact[j] = k
    /\ pc = "lookup" \/ InMono \/ InStages => (mode.compact => LeadsOn)
    /\ InMono /\ FieldsFirst => Fails
    /\ InStages /\ why # "fields" => call[Mono] = why /\ (FieldsFirst => Fails)
    /\ InStages /\ req = Last /\ mode.staged => Fails
    /\ InStages /\ req[2] = 1 => Retried
    /\ pc = "answer" => got \notin Transient /\ (req \in {Compact, Mono} => got \notin Failures)

Rested == pc = "idle" => try = FirstTry
Heard == clean /\ pc = "idle" /\ result # "none" => FreeStart
Free ==
  settled =>
    /\ FreeStart
    /\ asked = 0
    /\ pc # "idle" => clean
    /\ ~(pc \in {"request", "answer"} /\ req = Compact)
    /\ pc = "request" => req = Mono /\ Cached(Mono)

FreeInv == CleanPath /\ Rested /\ Heard /\ Free
-----------------------------------------------------------------------------
(* The requests are told apart by their components. *)
LEMMA Keys ==
  /\ \A n \in {0, 1} : /\ Skeleton(n) \in StageRequests /\ Conditions(n) \in StageRequests
                        /\ Boxes(n) \in StageRequests
  /\ Last \in StageRequests
  /\ Compact \notin StageRequests /\ Mono \notin StageRequests /\ Compact # Mono
  /\ Compact \in Requests /\ Mono \in Requests /\ StageRequests \subseteq Requests
  /\ Mono[1] = "mono" /\ Compact[1] = "compact" /\ Last[1] = "boxes" /\ Last[2] = 2
  /\ Mono[2] = 0 /\ Compact[2] = 0
  /\ \A n : /\ Skeleton(n)[1] = "skeleton" /\ Skeleton(n)[2] = n
            /\ Conditions(n)[1] = "conditions" /\ Conditions(n)[2] = n
            /\ Boxes(n)[1] = "boxes" /\ Boxes(n)[2] = n
BY DEF StageRequests, Requests, Compact, Mono, Skeleton, Conditions, Boxes, Last

LEMMA Names ==
  ASSUME NEW r \in StageRequests
  PROVE  \/ r[1] = "skeleton" /\ r[2] \in {0, 1} /\ r = Skeleton(r[2])
         \/ r[1] = "conditions" /\ r[2] \in {0, 1} /\ r = Conditions(r[2])
         \/ r[1] = "boxes" /\ r[2] \in {0, 1} /\ r = Boxes(r[2])
         \/ r[1] = "boxes" /\ r[2] = 2 /\ r = Last
BY DEF StageRequests, Skeleton, Conditions, Boxes, Last

LEMMA OtherRequests ==
  ASSUME NEW r \in Requests
  PROVE  r \in StageRequests \/ r = Compact \/ r = Mono
BY DEF Requests

(* The answers and failures of each kind of request. *)
LEMMA Tables ==
  /\ Answers["mono"] = {"invalid", "completable", "sparse", "full", "ungrounded"}
  /\ Answers["compact"] = {"invalid", "empty", "full"}
  /\ Answers["conditions"] = {"invalid", "completable", "sparse", "full"}
  /\ Answers["skeleton"] = {"ungrounded", "ok"}
  /\ Answers["boxes"] = {"useless", "sparse", "full"}
  /\ AllAnswers = {"invalid", "empty", "full", "completable", "sparse", "ungrounded", "ok",
                    "useless"}
  /\ \A r \in Requests : Answers[r[1]] \subseteq AllAnswers
  /\ \A r \in Requests : r # Compact => FailuresOf(r) = {"refused", "broken", "exhausted"}
  /\ FailuresOf(Compact) = {"refused", "broken", "exhausted", "mismatch"}
<1>1. DOMAIN Answers = {"compact", "mono", "conditions", "skeleton", "boxes"}
  BY DEF Answers
<1>2. /\ Answers["mono"] = {"invalid", "completable", "sparse", "full", "ungrounded"}
      /\ Answers["compact"] = {"invalid", "empty", "full"}
      /\ Answers["conditions"] = {"invalid", "completable", "sparse", "full"}
      /\ Answers["skeleton"] = {"ungrounded", "ok"}
      /\ Answers["boxes"] = {"useless", "sparse", "full"}
  BY DEF Answers, Qualities
<1>3. AllAnswers = {"invalid", "empty", "full", "completable", "sparse", "ungrounded", "ok",
                    "useless"}
  BY <1>1, <1>2 DEF AllAnswers
<1>4. ASSUME NEW r \in Requests PROVE r[1] \in DOMAIN Answers
  BY <1>1, Names, OtherRequests, Keys
<1>5. ASSUME NEW r \in Requests PROVE Answers[r[1]] \subseteq AllAnswers
  BY <1>4 DEF AllAnswers
<1>6. /\ \A r \in Requests : r # Compact => FailuresOf(r) = {"refused", "broken", "exhausted"}
      /\ FailuresOf(Compact) = {"refused", "broken", "exhausted", "mismatch"}
  BY DEF FailuresOf, Failures, JsonErrors
<1> QED BY <1>2, <1>3, <1>5, <1>6
-----------------------------------------------------------------------------
(* What a step may do to the caches of the stages and of the model calls. *)

Grows ==
  /\ mode' = mode
  /\ \A r \in StageRequests : Reusable(r) => stage'[r] = stage[r]
  /\ call[Mono] # "none" => call'[Mono] = call[Mono]

LEMMA Stable ==
  ASSUME Grows
  PROVE  /\ Staged => Staged'
         /\ Retried => Retried'
         /\ Accepts => Accepts'
         /\ Fails => Fails'
         /\ FreeMono => FreeMono'
         /\ \A r \in StageRequests : Reusable(r) => Reusable(r)'
<1> DEFINE Same(r) == Reusable(r) => stage'[r] = stage[r]
<1>1. /\ \A n \in {0, 1} : Same(Skeleton(n)) /\ Same(Conditions(n)) /\ Same(Boxes(n))
      /\ Same(Last)
  BY Keys DEF Grows
<1> HIDE DEF Same
<1>2. /\ Same(Skeleton(0)) /\ Same(Conditions(0)) /\ Same(Boxes(0))
      /\ Same(Skeleton(1)) /\ Same(Conditions(1)) /\ Same(Boxes(1))
  BY <1>1
<1>3. Good(0) => Good(0)'
  BY <1>2 DEF Same, Good, Reusable, Transient, Accepted
<1>4. Good(1) => Good(1)'
  BY <1>2 DEF Same, Good, Reusable, Transient, Accepted
<1>5. Second => Second'
  BY <1>2, <1>4 DEF Second, Same, Reusable, Transient
<1>6. Staged => Staged'
  BY <1>2, <1>3, <1>5 DEF Staged, Same, Reusable, Transient
<1>7. Retried => Retried'
  BY <1>2 DEF Retried, FailedOnce, Same, Reusable, Transient, Accepted
<1>8. Accepts => Accepts'
  BY <1>2, <1>3, <1>5, <1>7 DEF Accepts, Same, Reusable, Transient
<1>9. FailsAgain => FailsAgain'
  BY <1>2 DEF FailsAgain, Same, Reusable, Transient, Accepted
<1>10. Fails => Fails'
  BY <1>2, <1>7, <1>9 DEF Fails, Same, Reusable, Transient
<1>11. \A r \in StageRequests : Reusable(r) => Reusable(r)'
  BY DEF Grows, Reusable
<1>12. FreeMono => FreeMono'
  BY <1>8, <1>10, <1>11, Keys DEF FreeMono, Ends, Grows
<1> QED BY <1>6, <1>7, <1>8, <1>10, <1>11, <1>12

LEMMA FreeLookupStable ==
  ASSUME Grows, FreeLookup, Current(mono) => Current(mono')
  PROVE  FreeLookup'
<1>1. /\ mode' = mode /\ (Accepts => Accepts') /\ (Fails => Fails') /\ (FreeMono => FreeMono')
  BY Stable DEF Grows
<1>2. FieldsFirst' = FieldsFirst
  BY <1>1 DEF FieldsFirst
<1>3. Current(mono)' = Current(mono')
  BY DEF Current
<1> QED BY <1>1, <1>2, <1>3 DEF FreeLookup
-----------------------------------------------------------------------------
(* The steps that hear of a stage, by what follows.                          *)

Hears == pc = "answer" /\ req \in StageRequests /\ StageStored

LEMMA StageStore ==
  ASSUME Inv, Hears
  PROVE  /\ got \in Answers[req[1]] \cup {"refused", "broken", "exhausted"}
         /\ \A r \in StageRequests : r # req => stage'[r] = stage[r]
         /\ got # "refused" => stage'[req] = got
         /\ got = "refused" => stage'[req] = stage[req] /\ ~Reusable(req)
         /\ \A r \in StageRequests : Reusable(r) => stage'[r] = stage[r]
         /\ \A r \in StageRequests :
              stage'[r] \in {"none", "broken", "exhausted"} \cup Answers[r[1]]
<1>1. req \in StageRequests /\ req \in Requests /\ req # Compact
  BY Keys DEF Hears
<1>2. got \in Answers[req[1]] \cup {"refused", "broken", "exhausted"}
  BY <1>1, Tables DEF Inv, InHand, Hears
<1>3. Reusable(req) => got = stage[req]
  BY DEF Hears, Inv, InHand
<1>4. stage \in [StageRequests -> Kinds]
  BY DEF Inv, TypeOK
<1>5. \A r \in StageRequests : stage[r] \in {"none", "broken", "exhausted"} \cup Answers[r[1]]
  BY DEF Inv, Stored
<1>6. \A r \in StageRequests : stage[r] # "refused"
  BY <1>5, Tables, Keys
<1>7. /\ \A r \in StageRequests : r # req => stage'[r] = stage[r]
      /\ got # "refused" => stage'[req] = got
      /\ got = "refused" => stage'[req] = stage[req] /\ ~Reusable(req)
  BY <1>1, <1>3, <1>4, <1>6 DEF Hears, StageStored
<1>8. \A r \in StageRequests : Reusable(r) => stage'[r] = stage[r]
  BY <1>1, <1>3, <1>7
<1>9. \A r \in StageRequests :
        stage'[r] \in {"none", "broken", "exhausted"} \cup Answers[r[1]]
  BY <1>1, <1>2, <1>5, <1>7
<1> QED BY <1>2, <1>7, <1>8, <1>9

(* The stages succeed, fail, or go on; or the boxes of the DRS itself fail.  *)
Succeeds ==
  /\ got \in Accepted /\ WithStages(why, got)
  /\ stage'[req] = got
  /\ req # Last => Staged' /\ (clean => Accepts')
GivesUp ==
  /\ req # Last /\ WithoutStages(why)
  /\ ~Staged' /\ (clean => Fails')
GoesOn ==
  /\ req # Last
  /\ \E r \in StageRequests \ {Last} :
       Stage(r) /\ why' = why /\ Before(r)' /\ (clean /\ r[2] = 1 => Retried')
BoxesFail == req = Last /\ got \notin Accepted /\ Settle(why)

Heeds == clean => got \notin Transient /\ (req[2] = 1 => Retried)

LEMMA SkeletonOutcome ==
  ASSUME Inv, Heeds, SkeletonAnswered
  PROVE  Hears /\ (GivesUp \/ GoesOn)
<1>1. req \in Requests /\ pc = "answer" /\ req[1] = "skeleton" /\ StageStored
  BY DEF Inv, TypeOK, SkeletonAnswered, StageOf
<1>2. req \in StageRequests
  BY <1>1, OtherRequests, Keys
<1>3. Hears
  BY <1>1, <1>2 DEF Hears
<1>4. PICK n \in {0, 1} : req = Skeleton(n) /\ req[2] = n /\ req # Last
  BY <1>1, <1>2, Names, Keys
<1>5. n = 1 => FailedOnce
  BY <1>3, <1>4 DEF Inv, Path, Before, InStages, Hears
<1>6. /\ \A m \in {0, 1} : /\ stage'[Conditions(m)] = stage[Conditions(m)]
                           /\ stage'[Boxes(m)] = stage[Boxes(m)]
      /\ n = 1 => stage'[Skeleton(0)] = stage[Skeleton(0)]
  <2>1. \A m \in {0, 1} : Conditions(m) # req /\ Boxes(m) # req /\ (m # n => Skeleton(m) # req)
    BY <1>4, Keys
  <2> QED BY <2>1, <1>3, StageStore, Keys
<1>7. n = 1 => FailedOnce' /\ (Retried => Retried')
  BY <1>5, <1>6, StageStore, Keys, <1>3 DEF FailedOnce, Retried, Reusable
<1>8. CASE got = "ok"
  <2>1. Stage(<<"conditions", req[2]>>) /\ UNCHANGED why
    BY <1>8 DEF SkeletonAnswered, Round
  <2>2. stage'[Skeleton(n)] = "ok"
    BY <1>3, <1>4, <1>8, StageStore
  <2>3. Stage(Conditions(n)) /\ why' = why
    BY <2>1, <1>4 DEF Conditions
  <2>4. Before(Conditions(n))'
    BY <1>7, <1>5, <2>2, Keys DEF Before
  <2>5. clean /\ n = 1 => Retried'
    BY <1>4, <1>5, <1>7 DEF Heeds
  <2>6. Conditions(n) # Last /\ Conditions(n)[2] = n /\ Conditions(n) \in StageRequests
    BY Keys
  <2> QED BY <1>3, <1>4, <2>3, <2>4, <2>5, <2>6 DEF GoesOn
<1>9. CASE got # "ok"
  <2>1. WithoutStages(why)
    BY <1>9 DEF SkeletonAnswered
  <2>2. stage'[Skeleton(n)] # "ok"
    <3>1. got = "refused" => stage[req] # "ok"
      BY <1>3, StageStore DEF Reusable, Transient
    <3> QED BY <3>1, <1>3, <1>4, <1>9, StageStore
  <2>3. ~Staged'
    BY <2>2, <1>4, <1>7, <1>5 DEF Staged, Second, Good, FailedOnce, Accepted
  <2>4. ASSUME clean PROVE Fails'
    <3>1. Reusable(Skeleton(n))'
      <4>1. got \in {"ungrounded", "exhausted"}
        BY <1>1, <1>3, <1>9, <2>4, StageStore, Tables DEF Heeds, Transient
      <4>2. stage'[Skeleton(n)] = got
        BY <4>1, <1>3, <1>4, StageStore
      <4> QED BY <4>1, <4>2 DEF Reusable, Transient
    <3>2. n = 1 => Retried'
      BY <1>4, <1>5, <1>7, <2>4 DEF Heeds
    <3> QED BY <3>1, <3>2, <2>2, <1>4 DEF Fails, FailsAgain
  <2> QED BY <1>3, <1>4, <2>1, <2>3, <2>4 DEF GivesUp
<1> QED BY <1>8, <1>9

LEMMA ConditionsOutcome ==
  ASSUME Inv, Heeds, ConditionsAnswered
  PROVE  Hears /\ (Succeeds \/ GivesUp \/ GoesOn)
<1>1. req \in Requests /\ pc = "answer" /\ req[1] = "conditions" /\ StageStored
  BY DEF Inv, TypeOK, ConditionsAnswered, StageOf
<1>2. req \in StageRequests
  BY <1>1, OtherRequests, Keys
<1>3. Hears
  BY <1>1, <1>2 DEF Hears
<1>4. PICK n \in {0, 1} : req = Conditions(n) /\ req[2] = n /\ req # Last
  BY <1>1, <1>2, Names, Keys
<1>5. stage[Skeleton(n)] = "ok" /\ (n = 1 => FailedOnce)
  BY <1>1, <1>3, <1>4 DEF Inv, Path, Before, InStages, Hears
<1>6. /\ \A m \in {0, 1} : /\ stage'[Skeleton(m)] = stage[Skeleton(m)]
                           /\ stage'[Boxes(m)] = stage[Boxes(m)]
      /\ n = 1 => stage'[Conditions(0)] = stage[Conditions(0)]
  <2>1. \A m \in {0, 1} : Skeleton(m) # req /\ Boxes(m) # req /\ (m # n => Conditions(m) # req)
    BY <1>4, Keys
  <2> QED BY <2>1, <1>3, StageStore, Keys
<1>7. n = 1 => FailedOnce' /\ (Retried => Retried')
  BY <1>5, <1>6, StageStore, Keys, <1>3 DEF FailedOnce, Retried, Reusable
<1>8. got # "refused" => stage'[Conditions(n)] = got
  BY <1>3, <1>4, StageStore
<1>9. got \in {"invalid", "completable", "sparse", "full", "refused", "broken", "exhausted"}
  BY <1>1, <1>3, StageStore, Tables
<1>10. stage'[Skeleton(n)] = "ok" /\ stage'[Skeleton(0)] = "ok"
  BY <1>4, <1>5, <1>6 DEF FailedOnce
<1>11. clean /\ n = 1 => Retried'
  BY <1>4, <1>5, <1>7 DEF Heeds
<1>12. CASE got \in Accepted
  <2>1. WithStages(why, got)
    BY <1>12 DEF ConditionsAnswered, Accepted, Failures, JsonErrors
  <2>2. Good(n)' /\ stage'[req] = got
    BY <1>8, <1>12, <1>4 DEF Good, Accepted
  <2>3. Staged' /\ (clean => Accepts')
    BY <2>2, <1>4, <1>7, <1>10, <1>11, <1>5 DEF Staged, Accepts, Second, FailedOnce
  <2> QED BY <1>3, <1>12, <2>1, <2>2, <2>3 DEF Succeeds
<1>13. CASE got = "completable"
  <2>1. Stage(Boxes(n)) /\ why' = why
    BY <1>13, <1>4 DEF ConditionsAnswered, Round, Boxes, Accepted, Failures, JsonErrors
  <2>2. Before(Boxes(n))'
    BY <1>7, <1>8, <1>10, <1>13, Keys DEF Before
  <2>3. Boxes(n) # Last /\ Boxes(n)[2] = n /\ Boxes(n) \in StageRequests
    BY Keys
  <2> QED BY <1>3, <1>4, <1>11, <2>1, <2>2, <2>3 DEF GoesOn
<1>14. CASE got = "invalid" /\ n = 0
  <2>1. Stage(Skeleton(1)) /\ why' = why
    BY <1>14, <1>4 DEF ConditionsAnswered, Round, Retry, Skeleton, Accepted, Failures, JsonErrors
  <2>2. FailedOnce' /\ Retried'
    BY <1>8, <1>10, <1>14 DEF FailedOnce, Retried
  <2>3. /\ Skeleton(1) # Last /\ Skeleton(1)[2] = 1 /\ Skeleton(1)[1] = "skeleton"
        /\ Skeleton(1) \in StageRequests
    BY Keys
  <2>4. Before(Skeleton(1))'
    BY <2>2, <2>3 DEF Before
  <2> QED BY <1>3, <1>4, <2>1, <2>2, <2>3, <2>4 DEF GoesOn
<1>15. CASE (got = "invalid" /\ n = 1) \/ got \in {"refused", "broken", "exhausted"}
  <2>1. WithoutStages(why)
    BY <1>15, <1>4 DEF ConditionsAnswered, Round, Retry, Accepted, Failures, JsonErrors
  <2>2. stage'[Conditions(n)] \notin Accepted \cup {"completable"}
    <3>1. got = "refused" => stage'[Conditions(n)] \notin Accepted \cup {"completable"}
      BY <1>3, <1>4, StageStore DEF Reusable, Accepted, Transient, Inv, Stored
    <3> QED BY <3>1, <1>8, <1>15 DEF Accepted
  <2>3. n = 0 => stage'[Conditions(0)] # "invalid"
    <3>1. got = "refused" => stage'[Conditions(n)] # "invalid"
      BY <1>3, <1>4, StageStore DEF Reusable, Transient
    <3> QED BY <3>1, <1>8, <1>15
  <2>4. ~Staged'
    BY <2>2, <2>3, <1>4, <1>7, <1>10 DEF Staged, Good, Second, FailedOnce, Accepted
  <2>5. ASSUME clean PROVE Fails'
    <3>1. got \in {"invalid", "exhausted"} /\ stage'[Conditions(n)] = got
      BY <2>5, <1>8, <1>15 DEF Heeds, Transient
    <3> QED BY <3>1, <2>3, <2>5, <1>4, <1>10, <1>11 DEF Fails, FailsAgain
  <2> QED BY <1>3, <1>4, <2>1, <2>4, <2>5 DEF GivesUp
<1> QED BY <1>4, <1>9, <1>12, <1>13, <1>14, <1>15 DEF Accepted

LEMMA BoxesOutcome ==
  ASSUME Inv, Heeds, BoxesAnswered
  PROVE  Hears /\ (Succeeds \/ GivesUp \/ GoesOn \/ BoxesFail)
<1>1. req \in Requests /\ pc = "answer" /\ req[1] = "boxes" /\ StageStored
  BY DEF Inv, TypeOK, BoxesAnswered, StageOf
<1>2. req \in StageRequests
  BY <1>1, OtherRequests, Keys
<1>3. Hears
  BY <1>1, <1>2 DEF Hears
<1>4. req = Last \/ \E n \in {0, 1} : req = Boxes(n) /\ req[2] = n /\ req # Last
  BY <1>1, <1>2, Names, Keys
<1>5. got \in {"useless", "sparse", "full", "refused", "broken", "exhausted"}
  BY <1>1, <1>3, StageStore, Tables
<1>6. got # "refused" => stage'[req] = got
  BY <1>3, StageStore
<1>7. CASE req = Last /\ got \in Accepted
  <2>1. WithStages(why, got)
    BY <1>7 DEF BoxesAnswered
  <2> QED BY <1>3, <1>6, <1>7, <2>1 DEF Succeeds, Accepted
<1>8. CASE req = Last /\ got \notin Accepted
  <2>1. Settle(why)
    BY <1>8, Keys DEF BoxesAnswered, Round
  <2> QED BY <1>3, <1>8, <2>1 DEF BoxesFail
<1>9. ASSUME NEW n \in {0, 1}, req = Boxes(n), req[2] = n, req # Last
      PROVE  Succeeds \/ GivesUp \/ GoesOn
  <2>1. /\ stage[Skeleton(n)] = "ok" /\ stage[Conditions(n)] = "completable"
        /\ n = 1 => FailedOnce
    BY <1>1, <1>3, <1>9 DEF Inv, Path, Before, InStages, Hears
  <2>2. /\ \A m \in {0, 1} : /\ stage'[Skeleton(m)] = stage[Skeleton(m)]
                             /\ stage'[Conditions(m)] = stage[Conditions(m)]
        /\ n = 1 => stage'[Boxes(0)] = stage[Boxes(0)]
    <3>1. \A m \in {0, 1} : Skeleton(m) # req /\ Conditions(m) # req /\ (m # n => Boxes(m) # req)
      BY <1>9, Keys
    <3> QED BY <3>1, <1>3, StageStore, Keys
  <2>3. n = 1 => FailedOnce' /\ (Retried => Retried')
    BY <2>1, <2>2, StageStore, Keys, <1>3 DEF FailedOnce, Retried, Reusable
  <2>4. /\ stage'[Skeleton(n)] = "ok" /\ stage'[Skeleton(0)] = "ok"
        /\ stage'[Conditions(n)] = "completable"
    BY <1>9, <2>1, <2>2 DEF FailedOnce
  <2>5. clean /\ n = 1 => Retried'
    BY <1>9, <2>1, <2>3 DEF Heeds
  <2>6. got \notin Accepted => stage'[Boxes(n)] \notin Accepted
    <3>1. got = "refused" => stage'[Boxes(n)] \notin Accepted
      BY <1>3, <1>9, StageStore DEF Reusable, Accepted, Transient
    <3> QED BY <3>1, <1>6, <1>9
  <2>7. clean /\ got \notin Accepted => Reusable(Boxes(n))'
    <3>1. clean => stage'[Boxes(n)] = got /\ got \notin {"none"} \cup Transient
      BY <1>5, <1>6, <1>9 DEF Heeds, Transient
    <3> QED BY <3>1 DEF Reusable
  <2>8. CASE got \in Accepted
    <3>1. WithStages(why, got)
      BY <2>8 DEF BoxesAnswered
    <3>2. Good(n)' /\ stage'[req] = got
      BY <1>6, <1>9, <2>4, <2>8 DEF Good, Accepted
    <3>3. Staged' /\ (clean => Accepts')
      BY <3>2, <1>9, <2>1, <2>3, <2>4, <2>5 DEF Staged, Accepts, Second, FailedOnce
    <3> QED BY <2>8, <3>1, <3>2, <3>3 DEF Succeeds
  <2>9. CASE got \notin Accepted /\ n = 0
    <3>1. Stage(Skeleton(1)) /\ why' = why
      BY <1>9, <2>9 DEF BoxesAnswered, Round, Retry, Skeleton
    <3>2. FailedOnce' /\ (clean => Retried')
      BY <2>4, <2>6, <2>7, <2>9 DEF FailedOnce, Retried
    <3>3. /\ Skeleton(1) # Last /\ Skeleton(1)[2] = 1 /\ Skeleton(1)[1] = "skeleton"
          /\ Skeleton(1) \in StageRequests
      BY Keys
    <3>4. Before(Skeleton(1))'
      BY <3>2, <3>3 DEF Before
    <3> QED BY <1>9, <3>1, <3>2, <3>3, <3>4 DEF GoesOn
  <2>10. CASE got \notin Accepted /\ n = 1
    <3>1. WithoutStages(why)
      BY <1>9, <2>10 DEF BoxesAnswered, Round, Retry
    <3>2. ~Second' /\ ~Good(0)'
      BY <2>3, <2>4, <2>6, <2>10 DEF Second, Good, FailedOnce, Accepted
    <3>3. ~Staged'
      BY <3>2 DEF Staged
    <3>4. clean => Fails'
      BY <2>4, <2>5, <2>6, <2>7, <2>10 DEF Fails, FailsAgain
    <3> QED BY <1>9, <3>1, <3>3, <3>4 DEF GivesUp
  <2> QED BY <2>8, <2>9, <2>10
<1> QED BY <1>3, <1>4, <1>7, <1>8, <1>9
-----------------------------------------------------------------------------
(* The invariant of the caches, step by step.                                *)

LEMMA Idle ==
  ASSUME pc' = "idle", req' = Mono, why' = "none"
  PROVE  InHand' /\ Phase' /\ Path'
BY Keys DEF InHand, Phase, Path, InMono, InStages, InCompact

LEMMA Looking ==
  ASSUME pc' = "lookup", why' = "none"
  PROVE  InHand' /\ Phase' /\ Path'
BY Keys DEF InHand, Phase, Path, InMono, InStages, InCompact

LEMMA Trying ==
  ASSUME pc' = "compact", why' = "none", mode'.compact
  PROVE  InHand' /\ Phase' /\ Path'
BY Keys DEF InHand, Phase, Path, InMono, InStages, InCompact

LEMMA RememberedStable ==
  ASSUME Grows, Remembered, mono' = mono, salvaged' = salvaged
  PROVE  Remembered'
<1>1. Staged => Staged'
  BY Stable
<1>2. stage[Last] \in Accepted => stage'[Last] = stage[Last]
  BY Keys DEF Grows, Reusable, Accepted, Transient
<1> QED BY <1>1, <1>2 DEF Remembered, Grows

(* A step that leaves stage and call as they are. *)
LEMMA StoredSame ==
  ASSUME Stored, UNCHANGED <<stage, call, mono>>,
         \A i \in 0..2 : compact'[i] \in {"none", "invalid", "empty", "full"} \cup JsonErrors
  PROVE  Stored'
BY DEF Stored

LEMMA RememberedSame ==
  ASSUME Remembered, UNCHANGED <<mode, stage, call, mono, salvaged>>
  PROVE  Remembered'
BY RememberedStable DEF Grows, Reusable

LEMMA InitInv == Init => Inv
<1> SUFFICES ASSUME Init PROVE Inv
  OBVIOUS
<1>1. mode \in Modes /\ MaxCalls[mode] \in Nat
  BY ChunkDrsAssumption DEF Init
<1>2. TypeOK
  <2>1. /\ compact \in [0..2 -> Kinds] /\ stage \in [StageRequests -> Kinds]
        /\ call \in [Requests -> {"none"} \cup AllAnswers]
    BY DEF Init, Kinds
  <2>2. try \in [attempt : 0..2, chained : BOOLEAN, seen : SUBSET {"invalid", "mismatch"}]
    BY DEF Init, FirstTry
  <2>3. mono \in Kinds /\ got \in Kinds \cup Failures /\ result \in Kinds \cup Failures
        /\ why \in Kinds \cup {"fields"}
    BY DEF Init, Kinds
  <2>4. /\ mode \in Modes /\ legacy \in {"none", "empty", "full"} /\ spare \in BOOLEAN
        /\ pc = "idle" /\ req \in Requests /\ asked \in Nat /\ salvaged \in BOOLEAN
        /\ clean \in BOOLEAN /\ settled \in BOOLEAN
    BY <1>1, Keys DEF Init
  <2>5. calls = 0
    BY DEF Init
  <2>6. calls \in 0..MaxCalls[mode]
    BY <1>1, <2>5
  <2> QED BY <2>1, <2>2, <2>3, <2>4, <2>6 DEF TypeOK
<1>3. Stored
  BY Keys DEF Init, Stored
<1>4. InHand /\ Phase /\ Path
  BY Keys DEF Init, InHand, Phase, Path, InMono, InStages, InCompact
<1>5. Remembered
  BY DEF Init, Remembered
<1> QED BY <1>2, <1>3, <1>4, <1>5 DEF Inv

LEMMA BeginInv ==
  ASSUME Inv, Begin
  PROVE  Inv'
<1>1. /\ pc = "idle" /\ calls < MaxCalls[mode] /\ calls' = calls + 1 /\ got' = "none"
      /\ pc' = (IF mode.compact THEN "compact" ELSE "lookup") /\ asked' = 0 /\ clean' = TRUE
      /\ settled' = (settled \/ (clean /\ result # "none"))
      /\ UNCHANGED <<mode, legacy, compact, spare, stage, mono, call, try, why, req, salvaged,
                      result>>
  BY DEF Begin, Goto, caches, local
<1>2. why = "none"
  BY <1>1 DEF Inv, Phase
<1>3. MaxCalls[mode] \in Nat
  BY ChunkDrsAssumption DEF Inv, TypeOK
<1>4. TypeOK'
  BY <1>1, <1>3 DEF Inv, TypeOK, Kinds
<1>5. Stored' /\ Remembered'
  BY <1>1, StoredSame, RememberedSame DEF Inv, Stored
<1>6. InHand' /\ Phase' /\ Path'
  BY <1>1, <1>2, Looking, Trying
<1> QED BY <1>4, <1>5, <1>6 DEF Inv

LEMMA CompleteInv ==
  ASSUME Inv, NEW o \in Failures \cup AllAnswers, Complete(o)
  PROVE  Inv' /\ Grows
<1>1. /\ pc = "request" /\ pc' = "answer" /\ got' = o
      /\ UNCHANGED <<mode, legacy, compact, spare, stage, mono, try, why, req, salvaged,
                     settled, result, calls>>
      /\ req \in Requests /\ clean' \in BOOLEAN
  BY DEF Complete, local, Inv, TypeOK
<1>2. \/ Cached(req) /\ o = call[req] /\ call' = call /\ asked' = asked
      \/ /\ ~Cached(req) /\ o \in FailuresOf(req) \cup Answers[req[1]] /\ Keep(req, o)
         /\ asked' = asked + 1
  BY DEF Complete
<1>3. o \in FailuresOf(req) \cup Answers[req[1]]
  BY <1>1, <1>2 DEF Cached, Inv, Stored
<1>4. call \in [Requests -> {"none"} \cup AllAnswers] /\ asked \in Nat
  BY DEF Inv, TypeOK
<1>5. /\ o \in AllAnswers => o \in Answers[req[1]]
      /\ o \notin AllAnswers => o \in Failures
      /\ req # Compact /\ o \notin AllAnswers => o \in {"refused", "broken", "exhausted"}
  BY <1>1, <1>3, Tables DEF Failures, JsonErrors
<1>6. /\ call' \in [Requests -> {"none"} \cup AllAnswers]
      /\ \A r \in Requests : r # req => call'[r] = call[r]
      /\ Cached(req) => call'[req] = call[req]
      /\ o \in AllAnswers => call'[req] = o
      /\ o \notin AllAnswers => call'[req] = "none"
  <2>1. CASE Cached(req)
    BY <2>1, <1>1, <1>2, <1>4 DEF Cached
  <2>2. CASE ~Cached(req) /\ o \in AllAnswers
    BY <2>2, <1>1, <1>2, <1>4 DEF Cached, Keep
  <2>3. CASE ~Cached(req) /\ o \notin AllAnswers
    BY <2>3, <1>1, <1>2, <1>4 DEF Cached, Keep
  <2> QED BY <2>1, <2>2, <2>3
<1>7. TypeOK'
  <2>1. asked' \in Nat
    BY <1>2, <1>4
  <2>2. got' \in Kinds \cup Failures
    BY <1>1 DEF Kinds
  <2> QED BY <1>1, <1>6, <2>1, <2>2 DEF Inv, TypeOK
<1>8. Stored'
  <2>1. \A r \in Requests : call'[r] \in {"none"} \cup Answers[r[1]]
    BY <1>1, <1>5, <1>6 DEF Inv, Stored
  <2> QED BY <1>1, <2>1 DEF Inv, Stored
<1>9. Grows
  BY <1>1, <1>6, Keys DEF Grows, Cached
<1>10. Remembered'
  BY <1>1, <1>9, RememberedStable DEF Inv
<1>11. InHand'
  <2>1. got' \in Answers[req'[1]] \cup FailuresOf(req')
    BY <1>1, <1>3
  <2>2. req \in StageRequests => ~Reusable(req)'
    BY <1>1 DEF Inv, InHand, Reusable
  <2>3. req = Mono => \/ got' \in Answers["mono"] /\ call'[Mono] = got'
                      \/ got' \in {"refused", "broken", "exhausted"} /\ call'[Mono] = "none"
    <3>1. req = Mono => req # Compact /\ req[1] = "mono"
      BY Keys
    <3> QED BY <3>1, <1>1, <1>5, <1>6
  <2> QED BY <1>1, <2>1, <2>2, <2>3 DEF InHand
<1>12. (InMono' <=> InMono) /\ (InStages' <=> InStages) /\ (InCompact' <=> InCompact)
       /\ (FieldsFirst' <=> FieldsFirst)
  BY <1>1 DEF InMono, InStages, InCompact, FieldsFirst
<1>13. Phase'
  <2>1. InStages => Mono # req
    BY Keys DEF InStages
  <2>2. InStages => call'[Mono] = call[Mono]
    BY <1>6, <2>1, Keys
  <2>3. Current(mono)' <=> Current(mono)
    BY <1>1
  <2>4. InStages' =>
          \/ why' = "fields" /\ FieldsFirst'
          \/ why' \in {"ungrounded", "invalid", "completable", "sparse"} /\ call'[Mono] = why'
          \/ why' \in {"broken", "exhausted"} /\ call'[Mono] = "none"
    <3>1. InStages =>
            \/ why = "fields" /\ FieldsFirst
            \/ why \in {"ungrounded", "invalid", "completable", "sparse"} /\ call[Mono] = why
            \/ why \in {"broken", "exhausted"} /\ call[Mono] = "none"
      BY DEF Inv, Phase
    <3> QED BY <3>1, <1>1, <1>12, <2>2
  <2> QED BY <1>1, <1>12, <2>3, <2>4 DEF Inv, Phase
<1>14. Path'
  BY <1>1, <1>12 DEF Inv, Path, Before, FailedOnce, Staged, Good, Second
<1> QED BY <1>7, <1>8, <1>9, <1>10, <1>11, <1>13, <1>14 DEF Inv

(* The steps of the compact extraction leave the other caches alone.         *)
Tries == [attempt : 0..2, chained : BOOLEAN, seen : SUBSET {"invalid", "mismatch"}]
CompactEntries == {"none", "invalid", "empty", "full"} \cup JsonErrors
Elsewhere == <<mode, legacy, stage, mono, call, ghosts, calls>>

LEMMA CompactLeaves ==
  ASSUME Inv, InCompact, UNCHANGED Elsewhere,
         compact' \in [0..2 -> CompactEntries], spare' \in BOOLEAN, try' \in Tries,
         got' = "none",
         \/ pc' = "idle" /\ req' = Mono /\ why' = "none" /\ result' \in Kinds \cup Failures
         \/ pc' \in {"lookup", "compact"} /\ UNCHANGED <<req, why, result>>
  PROVE  Inv' /\ Grows
<1>1. UNCHANGED <<mode, legacy, stage, mono, call, asked, salvaged, clean, settled, calls>>
  BY DEF Elsewhere, ghosts
<1>2. TypeOK'
  <2>1. compact' \in [0..2 -> Kinds]
    BY DEF CompactEntries, Kinds, AllAnswers, Answers
  <2>2. got' \in Kinds \cup Failures /\ why' \in Kinds \cup {"fields"} /\ req' \in Requests
        /\ result' \in Kinds \cup Failures
        /\ pc' \in {"idle", "compact", "lookup", "stage", "request", "answer"}
    BY Keys DEF Kinds, Inv, TypeOK
  <2> QED BY <1>1, <2>1, <2>2 DEF Inv, TypeOK, Tries
<1>3. Stored'
  BY <1>1, StoredSame DEF Inv, CompactEntries
<1>4. Remembered'
  BY <1>1, RememberedSame DEF Inv
<1>5. why = "none" /\ mode.compact
  BY DEF Inv, Phase
<1>6. InHand' /\ Phase' /\ Path'
  BY <1>1, <1>5, Idle, Looking, Trying
<1> QED BY <1>1, <1>2, <1>3, <1>4, <1>6 DEF Inv, Grows

LEMMA CompactKinds ==
  /\ CompactEntries \subseteq Kinds
  /\ {"none", "invalid", "empty", "full", "broken", "exhausted", "mismatch"} = CompactEntries
  /\ AllAnswers \subseteq Kinds
<1>1. {"invalid", "empty", "full"} \subseteq AllAnswers
  BY Tables
<1> QED BY <1>1 DEF CompactEntries, Kinds, JsonErrors

LEMMA CompactStore ==
  ASSUME Inv, NEW kind \in CompactEntries, CompactStored(kind)
  PROVE  /\ compact' \in [0..2 -> CompactEntries] /\ spare' \in BOOLEAN
         /\ \A i \in 0..2 : ~(try.chained /\ i = try.attempt) => compact'[i] = compact[i]
         /\ try.chained => compact'[try.attempt] = kind
<1>1. /\ compact \in [0..2 -> Kinds] /\ \A i \in 0..2 : compact[i] \in CompactEntries
      /\ spare \in BOOLEAN
  BY DEF Inv, TypeOK, Stored, CompactEntries
<1>2. compact \in [0..2 -> CompactEntries]
  BY <1>1
<1>3. try.attempt \in 0..2
  BY DEF Inv, TypeOK
<1>4. CASE try.chained
  BY <1>1, <1>2, <1>3, <1>4 DEF CompactStored
<1>5. CASE ~try.chained
  BY <1>1, <1>2, <1>5 DEF CompactStored
<1> QED BY <1>4, <1>5

LEMMA CompactSame ==
  ASSUME Inv, UNCHANGED <<compact, spare>>
  PROVE  compact' \in [0..2 -> CompactEntries] /\ spare' \in BOOLEAN
<1>1. /\ compact \in [0..2 -> Kinds] /\ \A i \in 0..2 : compact[i] \in CompactEntries
      /\ spare \in BOOLEAN
  BY DEF Inv, TypeOK, Stored, CompactEntries
<1> QED BY <1>1

LEMMA NextTries ==
  ASSUME Inv, NEW chained \in BOOLEAN, NEW seen \in SUBSET {"invalid", "mismatch"},
         NextTry(chained, seen)
  PROVE  /\ try' \in Tries /\ pc' \in {"compact", "lookup"} /\ got' = "none"
         /\ pc' = "compact" => /\ try.attempt < 2 /\ try'.attempt = try.attempt + 1
                              /\ try'.chained = chained /\ try'.seen = seen
         /\ pc' = "lookup" => try.attempt = 2
<1>1. try \in Tries
  BY DEF Inv, TypeOK, Tries
<1>2. try.attempt \in 0..2
  BY <1>1 DEF Tries
<1>3. CASE try.attempt < 2
  <2>1. /\ pc' = "compact" /\ got' = "none"
        /\ try' = [attempt |-> try.attempt + 1, chained |-> chained, seen |-> seen]
    BY <1>3 DEF NextTry, Goto
  <2>2. try.attempt + 1 \in 0..2
    BY <1>2, <1>3
  <2>3. try' \in Tries
    BY <2>1, <2>2 DEF Tries
  <2> QED BY <1>3, <2>1, <2>3
<1>4. CASE try.attempt = 2
  <2>1. pc' = "lookup" /\ got' = "none" /\ try' = FirstTry
    BY <1>4 DEF NextTry, Monolithic, Goto
  <2> QED BY <1>4, <2>1 DEF FirstTry, Tries
<1> QED BY <1>2, <1>3, <1>4

LEMMA FirstTries == FirstTry \in Tries
BY DEF FirstTry, Tries

LEMMA Rejects ==
  ASSUME Inv, NEW kind \in Rejections, Rejected(kind)
  PROVE  try' \in Tries /\ pc' \in {"compact", "lookup"} /\ got' = "none"
<1>1. try \in Tries
  BY DEF Inv, TypeOK, Tries
<1>2. try.seen \cup {kind} \in SUBSET {"invalid", "mismatch"} /\ try.chained \in BOOLEAN
  BY <1>1 DEF Tries, Rejections
<1>3. CASE Repeated(kind)
  BY <1>3, FirstTries DEF Rejected, Monolithic, Goto
<1>4. CASE ~Repeated(kind)
  BY <1>2, <1>4, NextTries DEF Rejected
<1> QED BY <1>3, <1>4

LEMMA Returns ==
  ASSUME NEW kind, Return(kind)
  PROVE  /\ pc' = "idle" /\ got' = "none" /\ result' = kind /\ req' = Mono /\ why' = "none"
         /\ try' \in Tries /\ try' = FirstTry
BY FirstTries DEF Return, Goto, Rest

LEMMA CompactRejectedInv == Inv /\ CompactRejected => Inv' /\ Grows
<1> SUFFICES ASSUME Inv, CompactRejected PROVE Inv' /\ Grows
  OBVIOUS
<1>1. InCompact /\ UNCHANGED Elsewhere /\ UNCHANGED <<compact, spare, req, why, result>>
  BY DEF CompactRejected, InCompact, Elsewhere, caches
<1>2. CompactEntry \in Rejections /\ Rejected(CompactEntry)
  BY DEF CompactRejected, Rejections
<1> QED BY <1>1, <1>2, Rejects, CompactSame, CompactLeaves

LEMMA CompactMigratedInv == Inv /\ CompactMigrated => Inv' /\ Grows
<1> SUFFICES ASSUME Inv, CompactMigrated PROVE Inv' /\ Grows
  OBVIOUS
<1>1. InCompact /\ UNCHANGED Elsewhere /\ CompactStored("full") /\ Return("full")
  BY DEF CompactMigrated, InCompact, Elsewhere
<1> QED BY <1>1, Returns, CompactStore, CompactKinds, CompactLeaves

LEMMA CompactCopiedInv == Inv /\ CompactCopied => Inv' /\ Grows
<1> SUFFICES ASSUME Inv, CompactCopied PROVE Inv' /\ Grows
  OBVIOUS
<1>1. InCompact /\ UNCHANGED Elsewhere /\ CompactStored("full") /\ Return("full")
  BY DEF CompactCopied, InCompact, Elsewhere
<1> QED BY <1>1, Returns, CompactStore, CompactKinds, CompactLeaves

LEMMA CompactHitInv == Inv /\ CompactHit => Inv' /\ Grows
<1> SUFFICES ASSUME Inv, CompactHit PROVE Inv' /\ Grows
  OBVIOUS
<1>1. /\ InCompact /\ UNCHANGED Elsewhere /\ UNCHANGED <<compact, spare>>
      /\ CompactEntry \in {"full", "empty", "exhausted"}
  BY DEF CompactHit, InCompact, Elsewhere, caches
<1>2. CASE CompactEntry = "exhausted"
  <2>1. pc' = "lookup" /\ got' = "none" /\ try' \in Tries /\ UNCHANGED <<req, why, result>>
    BY <1>2, FirstTries DEF CompactHit, Monolithic, Goto
  <2> QED BY <1>1, <2>1, CompactSame, CompactLeaves
<1>3. CASE CompactEntry # "exhausted"
  <2>1. Return(CompactEntry)
    BY <1>3 DEF CompactHit
  <2> QED BY <1>1, <2>1, Returns, CompactSame, CompactKinds, CompactLeaves
<1> QED BY <1>2, <1>3

LEMMA CompactAskInv == Inv /\ CompactAsk => Inv' /\ Grows
<1> SUFFICES ASSUME Inv, CompactAsk PROVE Inv' /\ Grows
  OBVIOUS
<1>1. /\ InCompact /\ UNCHANGED <<mode, legacy, stage, mono, call, try, why, asked, salvaged,
                                  clean, settled, result, calls>>
      /\ pc' = "request" /\ got' = "none" /\ req' = Compact
      /\ IF Legacy = "empty" THEN CompactStored("empty") ELSE UNCHANGED <<compact, spare>>
  BY DEF CompactAsk, InCompact, Goto, ghosts
<1>2. compact' \in [0..2 -> CompactEntries] /\ spare' \in BOOLEAN
  BY <1>1, CompactSame, CompactStore, CompactKinds
<1>3. try.chained => compact'[try.attempt] \in {"none", "broken", "empty"}
  <2>1. CompactEntry \in {"none", "broken"}
    BY DEF CompactAsk, NoEntry
  <2> QED BY <1>1, <2>1, CompactStore, CompactKinds DEF CompactEntry
<1>4. TypeOK'
  <2>1. compact' \in [0..2 -> Kinds]
    BY <1>2, CompactKinds
  <2>2. got' \in Kinds \cup Failures /\ req' \in Requests
    BY <1>1, Keys DEF Kinds
  <2> QED BY <1>1, <1>2, <2>1, <2>2 DEF Inv, TypeOK
<1>5. Stored' /\ Remembered'
  BY <1>1, <1>2, StoredSame, RememberedSame DEF Inv, CompactEntries
<1>6. InHand'
  BY <1>1, Keys DEF InHand
<1>7. Phase'
  <2>1. why' = "none" /\ mode'.compact
    BY <1>1 DEF Inv, Phase
  <2> QED BY <1>1, <1>3, <2>1, Keys DEF Phase, InMono, InStages, InCompact
<1>8. Path'
  BY <1>1, Keys DEF Path, InMono, InStages
<1> QED BY <1>1, <1>4, <1>5, <1>6, <1>7, <1>8 DEF Inv, Grows

LEMMA CompactRefusedInv == Inv /\ CompactRefused => Inv' /\ Grows
<1> SUFFICES ASSUME Inv, CompactRefused PROVE Inv' /\ Grows
  OBVIOUS
<1>1. /\ InCompact /\ UNCHANGED Elsewhere /\ UNCHANGED <<compact, spare>>
      /\ try.seen \in SUBSET {"invalid", "mismatch"}
  BY DEF CompactRefused, InCompact, Elsewhere, caches, Inv, TypeOK
<1>2. CASE try.attempt < 2
  <2>1. NextTry(FALSE, try.seen) /\ UNCHANGED <<req, why, result>>
    BY <1>2 DEF CompactRefused
  <2> QED BY <1>1, <2>1, NextTries, CompactSame, CompactLeaves
<1>3. CASE ~(try.attempt < 2)
  <2>1. Return("refused")
    BY <1>3 DEF CompactRefused
  <2> QED BY <1>1, <2>1, Returns, CompactSame, CompactLeaves DEF Failures
<1> QED BY <1>2, <1>3

LEMMA CompactFailedInv == Inv /\ CompactFailed => Inv' /\ Grows
<1> SUFFICES ASSUME Inv, CompactFailed PROVE Inv' /\ Grows
  OBVIOUS
<1>1. /\ InCompact /\ UNCHANGED Elsewhere /\ UNCHANGED <<req, why, result>>
      /\ got \in CompactEntries /\ CompactStored(got) /\ NextTry(FALSE, try.seen)
      /\ try.seen \in SUBSET {"invalid", "mismatch"}
  BY DEF CompactFailed, InCompact, Elsewhere, caches, Inv, TypeOK, CompactEntries
<1> QED BY <1>1, NextTries, CompactStore, CompactLeaves

LEMMA CompactInvalidInv == Inv /\ CompactInvalid => Inv' /\ Grows
<1> SUFFICES ASSUME Inv, CompactInvalid PROVE Inv' /\ Grows
  OBVIOUS
<1>1. /\ InCompact /\ UNCHANGED Elsewhere /\ UNCHANGED <<req, why, result>>
      /\ got = "invalid" /\ CompactStored(got) /\ Rejected(got)
  BY DEF CompactInvalid, InCompact, Elsewhere
<1>2. got \in Rejections /\ got \in CompactEntries
  BY <1>1, CompactKinds DEF Rejections
<1> QED BY <1>1, <1>2, Rejects, CompactStore, CompactLeaves

LEMMA CompactAnsweredInv == Inv /\ CompactAnswered => Inv' /\ Grows
<1> SUFFICES ASSUME Inv, CompactAnswered PROVE Inv' /\ Grows
  OBVIOUS
<1>1. /\ InCompact /\ UNCHANGED Elsewhere
      /\ got \in {"empty", "full"} /\ CompactStored(got) /\ Return(got)
  BY DEF CompactAnswered, InCompact, Elsewhere
<1> QED BY <1>1, Returns, CompactStore, CompactKinds, CompactLeaves

(* The steps of the monolithic extraction and of the stages: one of three    *)
(* outcomes, while stage may gain an entry.                                  *)
Aside == <<mode, legacy, compact, spare, call, asked, clean, settled, calls>>
StageTyped ==
  /\ stage \in [StageRequests -> Kinds]
  /\ \A r \in StageRequests : stage[r] \in {"none", "broken", "exhausted"} \cup Answers[r[1]]
Reasons == {"ungrounded", "invalid", "completable", "sparse", "full", "broken", "exhausted"}
WhyOK(w) ==
  \/ w = "fields" /\ FieldsFirst
  \/ w \in {"ungrounded", "invalid", "completable", "sparse"} /\ call[Mono] = w
  \/ w \in {"broken", "exhausted"} /\ call[Mono] = "none"
Kept == \/ call[Mono] = "sparse"
        \/ mode.staged /\ Staged'
        \/ call[Mono] = "completable" /\ stage'[Last] \in Accepted

LEMMA MoreKinds ==
  /\ Reasons \subseteq Kinds /\ Final \subseteq Kinds /\ Accepted \subseteq Kinds
  /\ {"ungrounded", "invalid", "completable", "sparse", "broken", "exhausted"} \subseteq Kinds
BY Tables DEF Reasons, Final, Accepted, Kinds, JsonErrors

LEMMA StageTypedHolds == Inv => StageTyped
BY DEF Inv, TypeOK, Stored, StageTyped

LEMMA SettleInv ==
  ASSUME Inv, UNCHANGED Aside, StageTyped', Grows, NEW kind \in Reasons, Settle(kind),
         kind = "sparse" => Kept
  PROVE  Inv'
<1>1. /\ mono' = (IF kind = "completable" THEN "invalid" ELSE kind) /\ salvaged' = FALSE
      /\ pc' = "idle" /\ got' = "none" /\ result' = mono' /\ req' = Mono /\ why' = "none"
      /\ try' \in Tries
  BY Returns DEF Settle
<1>2. UNCHANGED <<mode, legacy, compact, spare, call, asked, clean, settled, calls>>
  BY DEF Aside
<1>3. mono' \in {"ungrounded", "invalid", "sparse", "full", "broken", "exhausted"} /\ mono' \in Kinds
  BY <1>1, MoreKinds DEF Reasons
<1>4. TypeOK'
  <2>1. got' \in Kinds \cup Failures /\ why' \in Kinds \cup {"fields"} /\ req' \in Requests
        /\ result' \in Kinds \cup Failures /\ stage' \in [StageRequests -> Kinds]
    BY <1>1, <1>3, Keys DEF Kinds, StageTyped
  <2> QED BY <1>1, <1>2, <1>3, <2>1 DEF Inv, TypeOK, Tries
<1>5. Stored'
  BY <1>2, <1>3 DEF Inv, Stored, StageTyped
<1>6. Remembered'
  BY <1>1, <1>2 DEF Remembered, Kept
<1>7. InHand' /\ Phase' /\ Path'
  BY <1>1, Idle
<1> QED BY <1>4, <1>5, <1>6, <1>7 DEF Inv

LEMMA StageInv ==
  ASSUME Inv, UNCHANGED Aside, StageTyped', Grows, ~Current(mono),
         NEW r \in StageRequests, Stage(r), WhyOK(why'),
         r # Last => mode.staged /\ Before(r)',
         r = Last => why' = "completable" /\ (mode.staged => ~Staged')
  PROVE  Inv'
<1>1. /\ pc' = "stage" /\ got' = "none" /\ req' = r /\ UNCHANGED <<mono, salvaged, result, try>>
  BY DEF Stage, Goto
<1>2. UNCHANGED <<mode, legacy, compact, spare, call, asked, clean, settled, calls>>
  BY DEF Aside
<1>3. TypeOK'
  <2>1. got' \in Kinds \cup Failures /\ why' \in Kinds \cup {"fields"} /\ req' \in Requests
        /\ stage' \in [StageRequests -> Kinds]
    BY <1>1, Keys, MoreKinds DEF Kinds, StageTyped, WhyOK
  <2> QED BY <1>1, <1>2, <2>1 DEF Inv, TypeOK
<1>4. Stored'
  BY <1>1, <1>2 DEF Inv, Stored, StageTyped
<1>5. Remembered'
  BY <1>1, RememberedStable DEF Inv
<1>6. InHand'
  BY <1>1, Keys DEF InHand
<1>7. InStages' /\ ~InMono' /\ ~InCompact' /\ FieldsFirst' = FieldsFirst
  BY <1>1, <1>2, Keys DEF InStages, InMono, InCompact, FieldsFirst
<1>8. Phase'
  <2>1. ~Current(mono)'
    BY <1>1
  <2>2. \/ why' = "fields" /\ FieldsFirst'
        \/ why' \in {"ungrounded", "invalid", "completable", "sparse"} /\ call'[Mono] = why'
        \/ why' \in {"broken", "exhausted"} /\ call'[Mono] = "none"
    BY <1>2, <1>7 DEF WhyOK
  <2> QED BY <1>1, <1>2, <1>7, <2>1, <2>2, Keys DEF Phase
<1>9. Path'
  BY <1>1, <1>2, <1>7 DEF Path
<1> QED BY <1>3, <1>4, <1>5, <1>6, <1>8, <1>9 DEF Inv

LEMMA AskInv ==
  ASSUME Inv, UNCHANGED Aside, StageTyped', Grows, ~Current(mono), Ask(Mono),
         why' = (IF FieldsFirst THEN "fields" ELSE "none"), FieldsFirst => ~Staged'
  PROVE  Inv'
<1>1. /\ pc' = "request" /\ got' = "none" /\ req' = Mono
      /\ UNCHANGED <<mono, salvaged, result, try>>
  BY DEF Ask, Goto
<1>2. UNCHANGED <<mode, legacy, compact, spare, call, asked, clean, settled, calls>>
  BY DEF Aside
<1>3. TypeOK'
  <2>1. got' \in Kinds \cup Failures /\ why' \in Kinds \cup {"fields"} /\ req' \in Requests
        /\ stage' \in [StageRequests -> Kinds]
    BY <1>1, Keys DEF Kinds, StageTyped
  <2> QED BY <1>1, <1>2, <2>1 DEF Inv, TypeOK
<1>4. Stored'
  BY <1>1, <1>2 DEF Inv, Stored, StageTyped
<1>5. Remembered'
  BY <1>1, RememberedStable DEF Inv
<1>6. InHand'
  BY <1>1, Keys DEF InHand
<1>7. ~InStages' /\ InMono' /\ ~InCompact' /\ FieldsFirst' = FieldsFirst
  BY <1>1, <1>2, Keys DEF InStages, InMono, InCompact, FieldsFirst
<1>8. Phase'
  <2>1. ~Current(mono)'
    BY <1>1
  <2> QED BY <1>1, <1>7, <2>1, Keys DEF Phase
<1>9. Path'
  BY <1>7 DEF Path
<1> QED BY <1>3, <1>4, <1>5, <1>6, <1>8, <1>9 DEF Inv

(* A step back to idle that leaves the caches alone. *)
LEMMA ReturnInv ==
  ASSUME Inv, UNCHANGED <<mode, legacy, compact, spare, stage, mono, call, asked, salvaged, settled,
                          calls>>,
         clean' \in BOOLEAN, NEW kind \in Kinds \cup Failures, Return(kind)
  PROVE  Inv' /\ Grows
<1>1. /\ pc' = "idle" /\ got' = "none" /\ result' = kind /\ req' = Mono /\ why' = "none"
      /\ try' \in Tries
  BY Returns
<1>2. TypeOK'
  <2>1. got' \in Kinds \cup Failures /\ why' \in Kinds \cup {"fields"} /\ req' \in Requests
    BY <1>1, Keys DEF Kinds
  <2> QED BY <1>1, <2>1 DEF Inv, TypeOK, Tries
<1>3. Stored' /\ Remembered'
  BY StoredSame, RememberedSame DEF Inv, Stored
<1>4. InHand' /\ Phase' /\ Path'
  BY <1>1, Idle
<1> QED BY <1>2, <1>3, <1>4 DEF Inv, Grows

LEMMA MonoHitInv == Inv /\ MonoHit => Inv' /\ Grows
<1> SUFFICES ASSUME Inv, MonoHit PROVE Inv' /\ Grows
  OBVIOUS
<1>1. Return(mono) /\ mono \in Kinds /\ clean' \in BOOLEAN
      /\ UNCHANGED <<mode, legacy, compact, spare, stage, mono, call, asked, salvaged, settled, calls>>
  BY DEF MonoHit, caches, ghosts, Inv, TypeOK
<1> QED BY <1>1, ReturnInv

LEMMA MonoRefusedInv == Inv /\ MonoRefused => Inv' /\ Grows
<1> SUFFICES ASSUME Inv, MonoRefused PROVE Inv' /\ Grows
  OBVIOUS
<1>1. Return("refused") /\ "refused" \in Failures /\ clean' \in BOOLEAN
      /\ UNCHANGED <<mode, legacy, compact, spare, stage, mono, call, asked, salvaged, settled, calls>>
  BY DEF MonoRefused, caches, ghosts, Inv, TypeOK, Failures
<1> QED BY <1>1, ReturnInv

LEMMA CrashInv == Inv /\ Crash => Inv' /\ Grows
<1> SUFFICES ASSUME Inv, Crash PROVE Inv' /\ Grows
  OBVIOUS
<1>1. Return("none") /\ "none" \in Kinds /\ clean' \in BOOLEAN
      /\ UNCHANGED <<mode, legacy, compact, spare, stage, mono, call, asked, salvaged, settled, calls>>
  BY DEF Crash, caches, ghosts, Inv, TypeOK, Kinds
<1> QED BY <1>1, ReturnInv

LEMMA MonoSalvagedInv == Inv /\ MonoSalvaged => Inv' /\ Grows
<1> SUFFICES ASSUME Inv, MonoSalvaged PROVE Inv' /\ Grows
  OBVIOUS
<1>1. PICK q \in Accepted : mono' = q /\ Return(q)
  BY DEF MonoSalvaged
<1>2. /\ pc' = "idle" /\ got' = "none" /\ result' = q /\ req' = Mono /\ why' = "none"
      /\ try' \in Tries
  BY <1>1, Returns
<1>3. /\ UNCHANGED <<mode, legacy, compact, spare, stage, call, asked, settled, calls>>
      /\ salvaged' = TRUE /\ clean' = FALSE
  BY DEF MonoSalvaged
<1>4. TypeOK'
  <2>1. got' \in Kinds \cup Failures /\ why' \in Kinds \cup {"fields"} /\ req' \in Requests
        /\ mono' \in Kinds /\ result' \in Kinds
    BY <1>1, <1>2, Keys, MoreKinds DEF Kinds
  <2> QED BY <1>2, <1>3, <2>1 DEF Inv, TypeOK, Tries
<1>5. Stored'
  BY <1>1, <1>3 DEF Inv, Stored, Accepted
<1>6. Remembered'
  BY <1>3 DEF Remembered
<1>7. InHand' /\ Phase' /\ Path'
  BY <1>2, Idle
<1> QED BY <1>3, <1>4, <1>5, <1>6, <1>7 DEF Inv, Grows

LEMMA NothingStored ==
  ASSUME Inv, UNCHANGED <<mode, stage, call>>
  PROVE  Grows /\ StageTyped'
<1>1. StageTyped
  BY StageTypedHolds
<1>2. StageTyped'
  BY <1>1 DEF StageTyped
<1> QED BY <1>2 DEF Grows

LEMMA MonoMissInv == Inv /\ MonoMiss => Inv' /\ Grows
<1> SUFFICES ASSUME Inv, MonoMiss PROVE Inv' /\ Grows
  OBVIOUS
<1>1. ~Current(mono) /\ UNCHANGED Aside /\ UNCHANGED stage /\ why = "none"
  BY DEF MonoMiss, Aside, Inv, Phase
<1>2. Grows /\ StageTyped'
  BY <1>1, NothingStored DEF Aside
<1>3. CASE FieldsFirst
  <2>1. Stage(Skeleton(0)) /\ why' = "fields"
    BY <1>3 DEF MonoMiss, FieldsFirst, Skeleton
  <2>2. Before(Skeleton(0))'
    BY Keys DEF Before
  <2> QED BY <1>1, <1>2, <1>3, <2>1, <2>2, Keys, StageInv DEF WhyOK, FieldsFirst
<1>4. CASE ~FieldsFirst
  <2>1. Ask(Mono) /\ why' = why
    BY <1>4 DEF MonoMiss, FieldsFirst
  <2> QED BY <1>1, <1>2, <1>4, <2>1, AskInv
<1> QED BY <1>3, <1>4

LEMMA MonoAnsweredInv == Inv /\ MonoAnswered => Inv' /\ Grows
<1> SUFFICES ASSUME Inv, MonoAnswered PROVE Inv' /\ Grows
  OBVIOUS
<1>1. UNCHANGED Aside /\ UNCHANGED stage /\ pc = "answer" /\ req = Mono /\ got # "refused"
  BY DEF MonoAnswered, Aside
<1>2. Grows /\ StageTyped'
  BY <1>1, NothingStored DEF Aside
<1>3. ~Current(mono)
  BY <1>1 DEF Inv, Phase, InMono
<1>4. \/ got \in {"ungrounded", "invalid", "completable", "sparse", "full"} /\ call[Mono] = got
      \/ got \in {"broken", "exhausted"} /\ call[Mono] = "none"
  BY <1>1, Tables DEF Inv, InHand
<1>5. got \in Reasons /\ (got # "full" => WhyOK(got))
  BY <1>4 DEF Reasons, WhyOK
<1>6. CASE got = "full"
  <2>1. Settle("full")
    BY <1>6 DEF MonoAnswered
  <2> QED BY <1>1, <1>2, <1>5, <1>6, <2>1, SettleInv
<1>7. CASE got # "full" /\ mode.staged
  <2>1. Stage(Skeleton(0)) /\ why' = got
    BY <1>7 DEF MonoAnswered, Skeleton
  <2>2. Before(Skeleton(0))'
    BY Keys DEF Before
  <2> QED BY <1>1, <1>2, <1>3, <1>5, <1>7, <2>1, <2>2, Keys, StageInv
<1>8. CASE got # "full" /\ ~mode.staged
  <2>1. WithoutStages(got)
    BY <1>8 DEF MonoAnswered
  <2>2. got # "fields"
    BY <1>5 DEF Reasons
  <2>3. CASE got = "completable"
    <3>1. Stage(Last) /\ why' = got
      BY <2>1, <2>3 DEF WithoutStages, Last, Boxes
    <3> QED BY <1>1, <1>2, <1>3, <1>5, <1>8, <2>3, <3>1, Keys, StageInv
  <2>4. CASE got # "completable"
    <3>1. Settle(got)
      BY <2>1, <2>2, <2>4 DEF WithoutStages
    <3>2. got = "sparse" => Kept
      BY <1>4 DEF Kept
    <3> QED BY <1>1, <1>2, <1>5, <3>1, <3>2, SettleInv
  <2> QED BY <2>3, <2>4
<1> QED BY <1>6, <1>7, <1>8

LEMMA StageHitInv == Inv /\ StageHit => Inv' /\ Grows
<1> SUFFICES ASSUME Inv, StageHit PROVE Inv' /\ Grows
  OBVIOUS
<1>1. /\ pc = "stage" /\ pc' = "answer" /\ got' = stage[req] /\ Reusable(req)
      /\ UNCHANGED <<mode, legacy, compact, spare, stage, mono, call, try, why, req, asked,
                     salvaged, clean, settled, result, calls>>
  BY DEF StageHit, caches, local, ghosts, Reusable
<1>2. req \in StageRequests
  BY <1>1 DEF Inv, InHand
<1>3. stage[req] \in {"exhausted"} \cup Answers[req[1]] /\ stage[req] \in Kinds
  BY <1>1, <1>2 DEF Inv, TypeOK, Stored, Reusable, Transient
<1>4. TypeOK'
  BY <1>1, <1>3 DEF Inv, TypeOK
<1>5. Stored' /\ Remembered'
  BY <1>1, StoredSame, RememberedSame DEF Inv, Stored
<1>6. InHand'
  BY <1>1, <1>2, <1>3, Keys, Tables DEF InHand
<1>7. (InMono' <=> InMono) /\ (InStages' <=> InStages) /\ (InCompact' <=> InCompact)
      /\ (FieldsFirst' <=> FieldsFirst) /\ req # Compact
  BY <1>1, <1>2, Keys DEF InMono, InStages, InCompact, FieldsFirst
<1>8. Phase'
  BY <1>1, <1>7 DEF Inv, Phase, Current
<1>9. Path'
  BY <1>1, <1>7 DEF Inv, Path, Before, FailedOnce, Staged, Good, Second
<1> QED BY <1>1, <1>4, <1>5, <1>6, <1>8, <1>9 DEF Inv, Grows

LEMMA StageMissInv == Inv /\ StageMiss => Inv' /\ Grows
<1> SUFFICES ASSUME Inv, StageMiss PROVE Inv' /\ Grows
  OBVIOUS
<1>1. /\ pc = "stage" /\ pc' = "request" /\ got' = "none" /\ ~Reusable(req)
      /\ UNCHANGED <<mode, legacy, compact, spare, stage, mono, call, try, why, req, asked,
                     salvaged, clean, settled, result, calls>>
  BY DEF StageMiss, Goto, caches, local, ghosts, Reusable
<1>2. req \in StageRequests
  BY <1>1 DEF Inv, InHand
<1>3. TypeOK'
  BY <1>1 DEF Inv, TypeOK, Kinds
<1>4. Stored' /\ Remembered'
  BY <1>1, StoredSame, RememberedSame DEF Inv, Stored
<1>5. InHand'
  BY <1>1, <1>2, Keys DEF InHand, Reusable
<1>6. (InMono' <=> InMono) /\ (InStages' <=> InStages) /\ (InCompact' <=> InCompact)
      /\ (FieldsFirst' <=> FieldsFirst) /\ req # Compact
  BY <1>1, <1>2, Keys DEF InMono, InStages, InCompact, FieldsFirst
<1>7. Phase'
  BY <1>1, <1>6 DEF Inv, Phase, Current
<1>8. Path'
  BY <1>1, <1>6 DEF Inv, Path, Before, FailedOnce, Staged, Good, Second
<1> QED BY <1>1, <1>3, <1>4, <1>5, <1>7, <1>8 DEF Inv, Grows

LEMMA OutcomeInv ==
  ASSUME Inv, UNCHANGED Aside, Hears, Succeeds \/ GivesUp \/ GoesOn \/ BoxesFail
  PROVE  Inv' /\ Grows
<1>1. /\ StageTyped' /\ Grows /\ pc = "answer" /\ req \in StageRequests
  <2>1. stage \in [StageRequests -> Kinds] /\ got \in Kinds \cup Failures
    BY DEF Inv, TypeOK
  <2>2. got # "refused" => got \in Kinds
    BY <2>1 DEF Failures, Kinds
  <2>3. stage' \in [StageRequests -> Kinds]
    BY <2>1, <2>2 DEF Hears, StageStored
  <2> QED BY <2>3, StageStore DEF StageTyped, Grows, Aside, Hears
<1>2. /\ InStages /\ ~Current(mono) /\ WhyOK(why) /\ (req # Last => mode.staged)
      /\ (req = Last => why = "completable") /\ (req = Last /\ mode.staged => ~Staged)
  <2>1. InStages
    BY <1>1 DEF InStages
  <2> QED BY <2>1 DEF Inv, Phase, Path, WhyOK
<1>3. why # "fields" => why \in Reasons
  BY <1>2 DEF WhyOK, Reasons
<1>4. CASE Succeeds
  <2>1. PICK best \in {got} \cup ({why} \cap {"sparse"}) : Settle(best)
    BY <1>4 DEF Succeeds, WithStages
  <2>2. best \in Reasons
    BY <1>3, <1>4 DEF Succeeds, Accepted, Reasons
  <2>3. Kept
    BY <1>2, <1>4 DEF Succeeds, WhyOK, Kept
  <2> QED BY <1>1, <2>1, <2>2, <2>3, SettleInv
<1>5. CASE GivesUp
  <2>1. req # Last /\ WithoutStages(why) /\ ~Staged'
    BY <1>5 DEF GivesUp
  <2>2. CASE why = "fields"
    <3>1. Ask(Mono) /\ why' = why /\ FieldsFirst
      BY <1>2, <2>1, <2>2 DEF WithoutStages, WhyOK
    <3> QED BY <1>1, <1>2, <2>1, <2>2, <3>1, AskInv
  <2>3. CASE why = "completable"
    <3>1. Stage(Last) /\ why' = why
      BY <2>1, <2>3 DEF WithoutStages, Last, Boxes
    <3> QED BY <1>1, <1>2, <2>1, <2>3, <3>1, Keys, StageInv
  <2>4. CASE why \notin {"fields", "completable"}
    <3>1. Settle(why)
      BY <2>1, <2>4 DEF WithoutStages
    <3>2. why = "sparse" => Kept
      BY <1>2 DEF WhyOK, Kept
    <3> QED BY <1>1, <1>3, <2>4, <3>1, <3>2, SettleInv
  <2> QED BY <2>2, <2>3, <2>4
<1>6. CASE GoesOn
  <2>1. PICK r \in StageRequests \ {Last} : Stage(r) /\ why' = why /\ Before(r)'
    BY <1>6 DEF GoesOn
  <2>2. mode.staged
    BY <1>2, <1>6 DEF GoesOn
  <2> QED BY <1>1, <1>2, <2>1, <2>2, StageInv
<1>7. CASE BoxesFail
  <2>1. Settle("completable")
    BY <1>2, <1>7 DEF BoxesFail
  <2> QED BY <1>1, <2>1, SettleInv DEF Reasons
<1> QED BY <1>1, <1>4, <1>5, <1>6, <1>7
-----------------------------------------------------------------------------
(* The calls whose requests were all answered.                               *)

LEMMA HeedsHolds == CleanPath /\ InStages /\ pc = "answer" => Heeds
BY DEF CleanPath, Heeds

LEMMA StepInv ==
  ASSUME Inv, CleanPath, Next
  PROVE  Inv' /\ (Grows \/ Begin)
<1>1. CASE Begin
  BY <1>1, BeginInv
<1>2. CASE Crash
  BY <1>2, CrashInv
<1>3. ASSUME NEW o \in Failures \cup AllAnswers, Complete(o) PROVE Inv' /\ Grows
  BY <1>3, CompleteInv
<1>4. CASE CompactRejected \/ CompactMigrated \/ CompactCopied \/ CompactHit \/ CompactAsk
           \/ CompactRefused \/ CompactFailed \/ CompactInvalid \/ CompactAnswered
  BY <1>4, CompactRejectedInv, CompactMigratedInv, CompactCopiedInv, CompactHitInv, CompactAskInv,
     CompactRefusedInv, CompactFailedInv, CompactInvalidInv, CompactAnsweredInv
<1>5. CASE MonoHit \/ MonoSalvaged \/ MonoMiss \/ MonoRefused \/ MonoAnswered
  BY <1>5, MonoHitInv, MonoSalvagedInv, MonoMissInv, MonoRefusedInv, MonoAnsweredInv
<1>6. CASE StageHit \/ StageMiss
  BY <1>6, StageHitInv, StageMissInv
<1>7. CASE SkeletonAnswered \/ ConditionsAnswered \/ BoxesAnswered
  <2>1. UNCHANGED Aside /\ pc = "answer" /\ req[1] \in {"skeleton", "conditions", "boxes"}
    BY <1>7 DEF SkeletonAnswered, ConditionsAnswered, BoxesAnswered, Aside, StageOf
  <2>2. InStages
    BY <2>1, OtherRequests, Keys DEF Inv, TypeOK, InStages
  <2>3. Heeds
    BY <2>1, <2>2, HeedsHolds
  <2>4. Hears /\ (Succeeds \/ GivesUp \/ GoesOn \/ BoxesFail)
    BY <1>7, <2>3, SkeletonOutcome, ConditionsOutcome, BoxesOutcome
  <2> QED BY <2>1, <2>4, OutcomeInv
<1> QED BY <1>1, <1>2, <1>3, <1>4, <1>5, <1>6, <1>7 DEF Next, CallStep

LEMMA Backed ==
  ASSUME pc' = "idle", try' = FirstTry,
         clean' /\ result' # "none" => FreeStart', settled' => FreeStart' /\ asked' = 0
  PROVE  FreeInv'
BY DEF FreeInv, CleanPath, Rested, Heard, Free, InCompact, InMono, InStages

LEMMA Unclean ==
  ASSUME ~clean', ~settled', pc' = "idle" => try' = FirstTry
  PROVE  FreeInv'
BY DEF FreeInv, CleanPath, Rested, Heard, Free

(* The compact attempts, which lead one way only. *)
LEMMA OneWay ==
  ASSUME NEW a \in 0..2, Reached(a), compact[a] \in {"none", "broken"}
  PROVE  ~EndsCompact /\ ~LeadsOn
<1>1. a = 0 \/ a = 1 \/ a = 2
  OBVIOUS
<1>2. \A i \in 0..2 : i = 0 \/ i = 1 \/ i = 2
  OBVIOUS
<1> QED BY <1>1, <1>2 DEF Reached, EndsCompact, LeadsOn, Rejections, Again

LEMMA LeadsAway == LeadsOn => ~EndsCompact
<1>1. \A i \in 0..2 : i = 0 \/ i = 1 \/ i = 2
  OBVIOUS
<1> QED BY <1>1 DEF Reached, EndsCompact, LeadsOn, Rejections, Again

LEMMA CompactUnchanged ==
  ASSUME compact' = compact, mode' = mode
  PROVE  /\ LeadsOn' <=> LeadsOn
         /\ EndsCompact' <=> EndsCompact
         /\ \A i : Reached(i)' <=> Reached(i)
BY DEF LeadsOn, EndsCompact, Reached, Again

LEMMA StartStable ==
  ASSUME Grows, compact' = compact, FreeStart, Current(mono) => Current(mono')
  PROVE  FreeStart'
<1>1. FreeLookup => FreeLookup'
  BY FreeLookupStable
<1> QED BY <1>1, CompactUnchanged DEF FreeStart, Grows

(* What has been heard of, seen from where the call is. *)
LEMMA FreeFromHere ==
  ASSUME CleanPath, clean, FreeStart, pc = "lookup" \/ InMono \/ InStages
  PROVE  FreeLookup
BY LeadsAway DEF CleanPath, FreeStart

LEMMA StartFree ==
  ASSUME FreeLookup, mode.compact => LeadsOn
  PROVE  FreeStart
BY DEF FreeStart

LEMMA AcceptsIsStaged == Accepts => Staged
BY DEF Accepts, Staged, Retried, FailedOnce

(* The stages of a free call are in their cache. *)
LEMMA StageFree ==
  ASSUME Inv, CleanPath, clean, InStages, FreeLookup
  PROVE  Reusable(req)
<1>1. ~Current(mono) /\ (req # Last => mode.staged)
  BY DEF Inv, Phase
<1>2. \/ why = "fields" /\ FieldsFirst
      \/ /\ why \in {"ungrounded", "invalid", "completable", "sparse", "broken", "exhausted"}
         /\ call[Mono] = why /\ (FieldsFirst => Fails)
  BY DEF Inv, Phase, CleanPath
<1>3. CASE req = Last
  <2>1. call[Mono] = "completable" /\ (mode.staged => ~Staged /\ Fails)
    BY <1>2, <1>3 DEF Inv, Phase, Path, CleanPath
  <2>2. FreeMono
    BY <1>1, <2>1, AcceptsIsStaged DEF FreeLookup, FieldsFirst
  <2> QED BY <1>3, <2>1, <2>2, AcceptsIsStaged DEF FreeMono, Ends
<1>4. CASE req # Last
  <2>1. Accepts \/ Fails
    BY <1>1, <1>2, <1>4 DEF FreeLookup, FreeMono, FieldsFirst
  <2>2. PICK n \in {0, 1} : /\ req[2] = n
                           /\ req \in {Skeleton(n), Conditions(n), Boxes(n)}
    BY <1>4, Names DEF InStages
  <2>3. /\ req = Conditions(n) \/ req = Boxes(n) => stage[Skeleton(n)] = "ok"
        /\ req = Boxes(n) => stage[Conditions(n)] = "completable"
        /\ n = 1 => FailedOnce /\ Retried
    BY <1>4, <2>2, Keys DEF Inv, Path, Before, CleanPath
  <2>4. CASE n = 0
    <3>1. CASE req = Skeleton(0)
      BY <2>1, <3>1 DEF Accepts, Fails, Retried, FailedOnce, Reusable, Transient
    <3>2. CASE req = Conditions(0)
      BY <2>1, <2>3, <2>4, <3>2
         DEF Accepts, Fails, Retried, FailedOnce, Good, Reusable, Transient, Accepted
    <3>3. CASE req = Boxes(0)
      BY <2>1, <2>3, <2>4, <3>3
         DEF Accepts, Fails, Retried, FailedOnce, Good, Reusable, Transient, Accepted
    <3> QED BY <2>2, <2>4, <3>1, <3>2, <3>3
  <2>5. CASE n = 1
    <3>1. Second \/ FailsAgain
      BY <2>1, <2>3, <2>5 DEF Accepts, Fails, FailedOnce, Good, Reusable, Transient, Accepted
    <3>2. CASE req = Skeleton(1)
      BY <3>1, <3>2 DEF Second, FailsAgain, Reusable, Transient
    <3>3. CASE req = Conditions(1)
      BY <2>3, <2>5, <3>1, <3>3 DEF Second, FailsAgain, Good, Reusable, Transient, Accepted
    <3>4. CASE req = Boxes(1)
      BY <2>3, <2>5, <3>1, <3>4 DEF Second, FailsAgain, Good, Reusable, Transient, Accepted
    <3> QED BY <2>2, <2>5, <3>2, <3>3, <3>4
  <2> QED BY <2>4, <2>5
<1> QED BY <1>3, <1>4

LEMMA BeginFree == Inv /\ FreeInv /\ Begin => FreeInv'
<1> SUFFICES ASSUME Inv, FreeInv, Begin PROVE FreeInv'
  OBVIOUS
<1>1. /\ pc = "idle" /\ pc' = (IF mode.compact THEN "compact" ELSE "lookup") /\ asked' = 0
      /\ clean' = TRUE /\ settled' = (settled \/ (clean /\ result # "none"))
      /\ UNCHANGED <<mode, compact, stage, mono, call, try>>
  BY DEF Begin, Goto, caches, local
<1>2. try = FirstTry
  BY <1>1 DEF FreeInv, Rested
<1>3. settled' => FreeStart
  BY <1>1 DEF FreeInv, Free, Heard
<1>4. FreeStart => FreeStart'
  BY <1>1, StartStable DEF Grows
<1>5. CleanPath'
  <2>1. ~InMono' /\ ~InStages' /\ pc' # "answer" /\ (pc' = "lookup" => ~mode'.compact)
    BY <1>1 DEF InMono, InStages
  <2>2. /\ try'.chained /\ try'.attempt = 0 /\ try'.seen = {}
    BY <1>1, <1>2 DEF FirstTry
  <2>3. Reached(try.attempt)'
    BY <2>2 DEF Reached
  <2>4. \A k \in Rejections : k \in try'.seen <=> \E j \in 0..2 : j < try'.attempt /\ compact'[j] = k
    BY <2>2
  <2> QED BY <2>1, <2>2, <2>3, <2>4 DEF CleanPath
<1>6. Rested' /\ Heard'
  BY <1>1 DEF Rested, Heard
<1>7. Free'
  BY <1>1, <1>3, <1>4 DEF Free
<1> QED BY <1>5, <1>6, <1>7 DEF FreeInv

LEMMA CompleteFree ==
  ASSUME Inv, FreeInv, NEW o \in Failures \cup AllAnswers, Complete(o)
  PROVE  FreeInv'
<1>1. /\ pc = "request" /\ pc' = "answer" /\ got' = o
      /\ UNCHANGED <<mode, legacy, compact, spare, stage, mono, try, why, req, settled, result>>
      /\ clean' = (clean /\ o \notin Failures)
      /\ Cached(req) => o = call[req] /\ asked' = asked
  BY DEF Complete, local
<1>2. Grows
  BY CompleteInv
<1>3. (InMono' <=> InMono) /\ (InStages' <=> InStages) /\ (InCompact' <=> InCompact)
      /\ (FieldsFirst' <=> FieldsFirst)
  BY <1>1 DEF InMono, InStages, InCompact, FieldsFirst
<1>4. CleanPath'
  <2> SUFFICES ASSUME clean' PROVE CleanPath'
    BY DEF CleanPath
  <2>1. clean /\ o \notin Failures
    BY <1>1
  <2>2. /\ InCompact' =>
              /\ try'.chained /\ Reached(try.attempt)'
              /\ \A k \in Rejections :
                   k \in try'.seen <=> \E j \in 0..2 : j < try'.attempt /\ compact'[j] = k
    BY <1>1, <1>3, <2>1 DEF FreeInv, CleanPath, Reached, Again
  <2>3. InStages' /\ why' # "fields" => call'[Mono] = why'
    <3>1. InStages /\ why # "fields" => call[Mono] = why /\ why # "none"
      BY <2>1 DEF FreeInv, CleanPath, Inv, Phase
    <3> QED BY <3>1, <1>1, <1>2, <1>3 DEF Grows
  <2>4. got' \notin Transient /\ got' \notin Failures
    BY <1>1, <2>1 DEF Transient, Failures, JsonErrors
  <2>5. LeadsOn' <=> LeadsOn
    BY <1>1, CompactUnchanged
  <2>6. (Fails => Fails') /\ (Retried => Retried')
    BY <1>2, Stable
  <2> QED BY <1>1, <1>3, <2>1, <2>5, <2>6, <2>2, <2>3, <2>4 DEF FreeInv, CleanPath
<1>5. Rested' /\ Heard'
  BY <1>1 DEF Rested, Heard
<1>6. Free'
  <2> SUFFICES ASSUME settled PROVE Free'
    BY <1>1 DEF Free
  <2>1. FreeStart /\ asked = 0 /\ clean /\ req = Mono /\ Cached(Mono)
    BY <1>1 DEF FreeInv, Free
  <2>2. FreeStart'
    BY <1>1, <1>2, <2>1, StartStable
  <2>3. o \in AllAnswers /\ asked' = 0
    BY <1>1, <2>1, Keys DEF Cached, Inv, TypeOK
  <2>4. clean'
    BY <1>1, <2>1, <2>3, Tables DEF Failures, JsonErrors
  <2> QED BY <1>1, <2>1, <2>2, <2>3, <2>4, Keys DEF Free
<1> QED BY <1>4, <1>5, <1>6 DEF FreeInv

(* The compact extraction. *)
LEMMA RejectClean ==
  ASSUME Inv, NEW kind \in Rejections, Rejected(kind), mode' = mode, try.chained,
         Reached(try.attempt), compact'[try.attempt] = kind,
         \A j \in 0..2 : j # try.attempt => compact'[j] = compact[j],
         \A k \in Rejections : k \in try.seen <=> \E j \in 0..2 : j < try.attempt /\ compact[j] = k
  PROVE  /\ pc' \in {"lookup", "compact"} /\ got' = "none"
         /\ pc' = "lookup" => LeadsOn'
         /\ pc' = "compact" =>
              /\ try'.chained /\ Reached(try.attempt)'
              /\ \A k \in Rejections :
                   k \in try'.seen <=> \E j \in 0..2 : j < try'.attempt /\ compact'[j] = k
<1> DEFINE a == try.attempt
<1>1. a \in 0..2 /\ try \in Tries /\ a \in {0, 1, 2}
  BY DEF Inv, TypeOK, Tries
<1>2. /\ a > 0 => compact'[0] \in Rejections /\ compact'[0] = compact[0]
      /\ a > 1 => compact'[1] \in Rejections /\ ~Again' /\ compact'[1] = compact[1]
  BY <1>1 DEF Reached, Again
<1>3. pc' \in {"lookup", "compact"} /\ got' = "none"
  BY Rejects
<1>4. CASE Repeated(kind)
  <2>1. pc' = "lookup"
    BY <1>4 DEF Rejected, Monolithic, Goto
  <2>2. PICK j \in 0..2 : j < a /\ compact[j] = kind
    BY <1>4 DEF Repeated
  <2>3. LeadsOn'
    <3>1. CASE a = 1
      <4>1. j = 0 /\ compact'[1] = kind /\ compact'[0] = kind
        BY <1>2, <2>2, <3>1
      <4>2. Again'
        BY <1>4, <4>1 DEF Again, Repeated
      <4> QED BY <4>1, <4>2 DEF LeadsOn, Reached
    <3>2. CASE a = 2
      BY <1>2, <3>2 DEF LeadsOn, Reached
    <3> QED BY <1>1, <2>2, <3>1, <3>2
  <2> QED BY <1>3, <2>1, <2>3
<1>5. CASE ~Repeated(kind)
  <2>1. NextTry(try.chained, try.seen \cup {kind})
    BY <1>5 DEF Rejected
  <2>2. try.seen \cup {kind} \in SUBSET {"invalid", "mismatch"} /\ try.chained \in BOOLEAN
    BY <1>1 DEF Tries, Rejections
  <2>3. /\ pc' = "compact" => /\ a < 2 /\ try'.attempt = a + 1
                             /\ try'.chained = try.chained /\ try'.seen = try.seen \cup {kind}
        /\ pc' = "lookup" => a = 2
    BY <2>1, <2>2, NextTries
  <2>4. pc' = "lookup" => LeadsOn'
    BY <1>2, <2>3 DEF LeadsOn, Reached
  <2>5. pc' = "compact" => Reached(try.attempt)'
    <3>1. a = 1 => ~Again'
      <4>1. a = 1 /\ Again' => kind = compact[0] /\ (kind = "mismatch" => mode.alike)
        BY <1>2 DEF Again
      <4>2. a = 1 /\ kind = compact[0] => kind \in try.seen
        OBVIOUS
      <4> QED BY <1>5, <4>1, <4>2 DEF Repeated
    <3>2. CASE a = 0
      BY <2>3, <3>2 DEF Reached
    <3>3. CASE a = 1
      BY <1>2, <2>3, <3>1, <3>3 DEF Reached
    <3> QED BY <1>1, <2>3, <3>2, <3>3
  <2>6. pc' = "compact" =>
          \A k \in Rejections :
            k \in try'.seen <=> \E j \in 0..2 : j < try'.attempt /\ compact'[j] = k
    <3> SUFFICES ASSUME pc' = "compact", NEW k \in Rejections
                 PROVE  k \in try'.seen <=> \E j \in 0..2 : j < try'.attempt /\ compact'[j] = k
      OBVIOUS
    <3>1. \A j \in 0..2 : j < a + 1 <=> (j < a \/ j = a)
      BY <1>1
    <3>2. (\E j \in 0..2 : j < a + 1 /\ compact'[j] = k)
            <=> (\E j \in 0..2 : j < a /\ compact[j] = k) \/ k = kind
      BY <1>1, <3>1
    <3> QED BY <2>3, <3>2
  <2> QED BY <1>3, <2>3, <2>4, <2>5, <2>6
<1> QED BY <1>4, <1>5

LEMMA NowCompact ==
  ASSUME clean', pc' = "compact", try'.chained, Reached(try.attempt)',
         \A k \in Rejections :
           k \in try'.seen <=> \E j \in 0..2 : j < try'.attempt /\ compact'[j] = k
  PROVE  CleanPath'
BY Keys DEF CleanPath, InMono, InStages

LEMMA NowLookup ==
  ASSUME clean', pc' = "lookup", mode'.compact => LeadsOn'
  PROVE  CleanPath'
BY Keys DEF CleanPath, InCompact, InMono, InStages

LEMMA Onward ==
  ASSUME pc' \in {"compact", "lookup"}, CleanPath', settled' => FreeStart' /\ asked' = 0 /\ clean'
  PROVE  FreeInv'
BY DEF FreeInv, Rested, Heard, Free

LEMMA CompactRejectedFree == Inv /\ FreeInv /\ CompactRejected => FreeInv'
<1> SUFFICES ASSUME Inv, FreeInv, CompactRejected PROVE FreeInv'
  OBVIOUS
<1>1. /\ InCompact /\ CompactEntry \in Rejections /\ Rejected(CompactEntry) /\ pc = "compact"
      /\ UNCHANGED <<mode, compact, stage, mono, call, asked, clean, settled>>
  BY DEF CompactRejected, InCompact, caches, ghosts, Rejections
<1>2. pc' \in {"compact", "lookup"}
  BY <1>1, Rejects
<1>3. CleanPath'
  <2> SUFFICES ASSUME clean' PROVE CleanPath'
    BY DEF CleanPath
  <2>1. /\ try.chained /\ Reached(try.attempt)
        /\ \A k \in Rejections : k \in try.seen <=> \E j \in 0..2 : j < try.attempt /\ compact[j] = k
    BY <1>1 DEF FreeInv, CleanPath
  <2>2. compact'[try.attempt] = CompactEntry
    BY <1>1, <2>1 DEF CompactEntry
  <2> QED BY <1>1, <1>2, <2>1, <2>2, RejectClean, NowCompact, NowLookup
<1>4. settled => FreeStart /\ asked = 0 /\ clean
  BY <1>1 DEF FreeInv, Free
<1>5. settled' => FreeStart' /\ asked' = 0 /\ clean'
  BY <1>1, <1>4, StartStable DEF Grows
<1> QED BY <1>2, <1>3, <1>5, Onward

LEMMA CompactFound ==
  ASSUME mode'.compact, Reached(try.attempt), try.attempt \in 0..2,
         compact'[try.attempt] \in {"empty", "full"}, mode' = mode,
         \A j \in 0..2 : j # try.attempt => compact'[j] = compact[j]
  PROVE  FreeStart'
<1>1. try.attempt \in {0, 1, 2}
  OBVIOUS
<1>2. \A a \in {0, 1, 2} :
        Reached(a) /\ (\A j \in 0..2 : j # a => compact'[j] = compact[j]) => Reached(a)'
  BY DEF Reached, Again
<1>3. ASSUME NEW a \in {0, 1, 2}, a = try.attempt PROVE EndsCompact'
  <2>1. Reached(a)' /\ compact'[a] \in {"empty", "full"}
    BY <1>2, <1>3
  <2> QED BY <2>1 DEF EndsCompact
<1> QED BY <1>1, <1>3 DEF FreeStart

LEMMA CompactEndFree ==
  ASSUME Inv, FreeInv, InCompact, UNCHANGED <<mode, asked, clean, settled>>,
         NEW kind \in {"empty", "full"}, Return(kind),
         try.chained => compact'[try.attempt] = kind,
         \A j \in 0..2 : ~(try.chained /\ j = try.attempt) => compact'[j] = compact[j]
  PROVE  FreeInv'
<1>1. pc' = "idle" /\ try' = FirstTry
  BY Returns
<1>2. clean => try.chained /\ Reached(try.attempt)
  BY DEF FreeInv, CleanPath
<1>3. mode'.compact /\ try.attempt \in 0..2 /\ pc # "idle"
  BY DEF Inv, Phase, TypeOK, InCompact
<1>4. clean => FreeStart'
  BY <1>2, <1>3, CompactFound
<1>5. settled => clean /\ asked = 0
  BY <1>3 DEF FreeInv, Free
<1> QED BY <1>1, <1>4, <1>5, Backed

LEMMA CompactMigratedFree == Inv /\ FreeInv /\ CompactMigrated => FreeInv'
<1> SUFFICES ASSUME Inv, FreeInv, CompactMigrated PROVE FreeInv'
  OBVIOUS
<1>1. /\ InCompact /\ UNCHANGED <<mode, asked, clean, settled>>
      /\ CompactStored("full") /\ Return("full")
  BY DEF CompactMigrated, InCompact, ghosts
<1> QED BY <1>1, CompactStore, CompactKinds, CompactEndFree

LEMMA CompactCopiedFree == Inv /\ FreeInv /\ CompactCopied => FreeInv'
<1> SUFFICES ASSUME Inv, FreeInv, CompactCopied PROVE FreeInv'
  OBVIOUS
<1>1. /\ InCompact /\ UNCHANGED <<mode, asked, clean, settled>>
      /\ CompactStored("full") /\ Return("full")
  BY DEF CompactCopied, InCompact, ghosts
<1> QED BY <1>1, CompactStore, CompactKinds, CompactEndFree

LEMMA CompactHitFree == Inv /\ FreeInv /\ CompactHit => FreeInv'
<1> SUFFICES ASSUME Inv, FreeInv, CompactHit PROVE FreeInv'
  OBVIOUS
<1>1. /\ InCompact /\ pc = "compact" /\ CompactEntry \in {"full", "empty", "exhausted"}
      /\ UNCHANGED <<mode, compact, stage, mono, call, asked, clean, settled>>
  BY DEF CompactHit, InCompact, caches, ghosts
<1>2. CASE CompactEntry = "exhausted"
  <2>1. pc' = "lookup"
    BY <1>2 DEF CompactHit, Monolithic, Goto
  <2>2. clean => LeadsOn'
    <3>1. clean => try.chained /\ Reached(try.attempt)
      BY <1>1 DEF FreeInv, CleanPath
    <3>2. clean => LeadsOn
      BY <1>2, <3>1 DEF LeadsOn, CompactEntry, Inv, TypeOK
    <3> QED BY <1>1, <3>2, CompactUnchanged
  <2>3. CleanPath'
    BY <1>1, <2>1, <2>2, NowLookup DEF CleanPath
  <2>4. settled => FreeStart /\ asked = 0 /\ clean
    BY <1>1 DEF FreeInv, Free
  <2>5. settled' => FreeStart' /\ asked' = 0 /\ clean'
    BY <1>1, <2>4, StartStable DEF Grows
  <2> QED BY <2>1, <2>3, <2>5, Onward
<1>3. CASE CompactEntry # "exhausted"
  <2>1. Return(CompactEntry) /\ CompactEntry \in {"empty", "full"}
    BY <1>1, <1>3 DEF CompactHit
  <2>2. try.chained => compact'[try.attempt] = CompactEntry
    BY <1>1 DEF CompactEntry
  <2> QED BY <1>1, <2>1, <2>2, CompactEndFree
<1> QED BY <1>2, <1>3

LEMMA CompactAskFree == Inv /\ FreeInv /\ CompactAsk => FreeInv'
<1> SUFFICES ASSUME Inv, FreeInv, CompactAsk PROVE FreeInv'
  OBVIOUS
<1>1. /\ InCompact /\ pc = "compact" /\ pc' = "request" /\ req' = Compact
      /\ UNCHANGED <<mode, try, asked, clean, settled>> /\ CompactEntry \in {"none", "broken"}
      /\ IF Legacy = "empty" THEN CompactStored("empty") ELSE UNCHANGED <<compact, spare>>
  BY DEF CompactAsk, InCompact, Goto, ghosts, NoEntry
<1>2. clean => try.chained /\ Reached(try.attempt) /\ compact[try.attempt] \in {"none", "broken"}
  BY <1>1 DEF FreeInv, CleanPath, CompactEntry
<1>3. \A j \in 0..2 : j # try.attempt => compact'[j] = compact[j]
  BY <1>1, CompactStore, CompactKinds
<1>4. ~settled'
  <2> SUFFICES ASSUME settled PROVE FALSE
    BY <1>1
  <2>1. FreeStart /\ clean /\ mode.compact /\ try.attempt \in 0..2
    BY <1>1 DEF FreeInv, Free, Inv, Phase, TypeOK
  <2> QED BY <1>2, <2>1, OneWay DEF FreeStart
<1>5. CleanPath'
  <2> SUFFICES ASSUME clean' PROVE CleanPath'
    BY DEF CleanPath
  <2>1. /\ try.chained /\ Reached(try.attempt) /\ try.attempt \in 0..2
        /\ \A k \in Rejections : k \in try.seen <=> \E j \in 0..2 : j < try.attempt /\ compact[j] = k
    BY <1>1 DEF FreeInv, CleanPath, Inv, TypeOK
  <2>2. Reached(try.attempt)'
    BY <1>1, <1>3, <2>1 DEF Reached, Again
  <2>3. \A k \in Rejections :
          k \in try'.seen <=> \E j \in 0..2 : j < try'.attempt /\ compact'[j] = k
    BY <1>1, <1>3, <2>1
  <2> QED BY <1>1, <2>1, <2>2, <2>3, Keys DEF CleanPath, InMono, InStages
<1> QED BY <1>1, <1>4, <1>5 DEF FreeInv, Rested, Heard, Free

LEMMA CompactFailsFree == Inv /\ FreeInv /\ (CompactRefused \/ CompactFailed) => FreeInv'
<1> SUFFICES ASSUME Inv, FreeInv, CompactRefused \/ CompactFailed PROVE FreeInv'
  OBVIOUS
<1>1. pc = "answer" /\ req = Compact /\ got \in Failures /\ UNCHANGED <<clean, settled>>
  BY DEF CompactRefused, CompactFailed, ghosts, Failures
<1>2. ~clean /\ ~settled
  BY <1>1 DEF FreeInv, CleanPath, Free
<1>3. pc' = "idle" => try' = FirstTry
  BY Returns, NextTries DEF CompactRefused, CompactFailed, NextTry, Goto, Monolithic
<1> QED BY <1>1, <1>2, <1>3, Unclean

LEMMA CompactInvalidFree == Inv /\ FreeInv /\ CompactInvalid => FreeInv'
<1> SUFFICES ASSUME Inv, FreeInv, CompactInvalid PROVE FreeInv'
  OBVIOUS
<1>1. /\ InCompact /\ pc = "answer" /\ req = Compact /\ got = "invalid" /\ CompactStored(got)
      /\ Rejected(got) /\ UNCHANGED <<mode, clean, settled>>
  BY DEF CompactInvalid, InCompact, ghosts
<1>2. got \in Rejections /\ got \in CompactEntries
  BY <1>1, CompactKinds DEF Rejections
<1>3. pc' \in {"compact", "lookup"} /\ ~settled'
  BY <1>1, <1>2, Rejects DEF FreeInv, Free
<1>4. CleanPath'
  <2> SUFFICES ASSUME clean' PROVE CleanPath'
    BY DEF CleanPath
  <2>1. /\ try.chained /\ Reached(try.attempt)
        /\ \A k \in Rejections : k \in try.seen <=> \E j \in 0..2 : j < try.attempt /\ compact[j] = k
    BY <1>1 DEF FreeInv, CleanPath
  <2>2. /\ compact'[try.attempt] = got
        /\ \A j \in 0..2 : j # try.attempt => compact'[j] = compact[j]
    BY <1>1, <1>2, <2>1, CompactStore
  <2> QED BY <1>1, <1>2, <1>3, <2>1, <2>2, RejectClean, NowCompact, NowLookup
<1> QED BY <1>3, <1>4, Onward

LEMMA CompactAnsweredFree == Inv /\ FreeInv /\ CompactAnswered => FreeInv'
<1> SUFFICES ASSUME Inv, FreeInv, CompactAnswered PROVE FreeInv'
  OBVIOUS
<1>1. /\ InCompact /\ UNCHANGED <<mode, asked, clean, settled>>
      /\ got \in {"empty", "full"} /\ CompactStored(got) /\ Return(got)
  BY DEF CompactAnswered, InCompact, ghosts
<1> QED BY <1>1, CompactStore, CompactKinds, CompactEndFree

(* The monolithic extraction and the stages. *)
LEMMA NowStage ==
  ASSUME pc' = "stage", req' \in StageRequests, clean', mode'.compact => LeadsOn',
         why' # "fields" => call'[Mono] = why' /\ (FieldsFirst' => Fails'),
         req' = Last /\ mode'.staged => Fails', req'[2] = 1 => Retried'
  PROVE  CleanPath'
BY Keys DEF CleanPath, InCompact, InMono

LEMMA NowAsked ==
  ASSUME pc' = "request", req' = Mono, clean', mode'.compact => LeadsOn', FieldsFirst' => Fails'
  PROVE  CleanPath'
BY Keys DEF CleanPath, InCompact, InStages

LEMMA StageOnward ==
  ASSUME pc' = "stage", CleanPath', settled' => FreeStart' /\ asked' = 0 /\ clean'
  PROVE  FreeInv'
BY DEF FreeInv, Rested, Heard, Free

LEMMA AskOnward ==
  ASSUME pc' = "request", req' = Mono, CleanPath',
         settled' => FreeStart' /\ asked' = 0 /\ clean' /\ call'[Mono] # "none"
  PROVE  FreeInv'
BY Keys DEF FreeInv, Rested, Heard, Free, Cached

(* What a step that leaves the compact entries alone keeps. *)
LEMMA SettledStays ==
  ASSUME FreeInv, Grows, UNCHANGED <<compact, asked, settled>>, Current(mono) => Current(mono'),
         pc # "idle"
  PROVE  settled' => FreeStart' /\ asked' = 0 /\ clean
BY StartStable DEF FreeInv, Free

LEMMA MonoHitFree == Inv /\ FreeInv /\ MonoHit => FreeInv'
<1> SUFFICES ASSUME Inv, FreeInv, MonoHit PROVE FreeInv'
  OBVIOUS
<1>1. /\ pc = "lookup" /\ Current(mono) /\ Return(mono)
      /\ UNCHANGED <<mode, compact, stage, call, mono, asked, clean, settled>>
  BY DEF MonoHit, caches, ghosts
<1>2. Grows
  BY <1>1 DEF Grows
<1>3. clean => FreeStart
  BY <1>1, StartFree DEF FreeInv, CleanPath, FreeLookup
<1>4. clean' => FreeStart'
  BY <1>1, <1>2, <1>3, StartStable
<1>5. settled' => FreeStart' /\ asked' = 0
  BY <1>1, <1>2, SettledStays
<1> QED BY <1>1, <1>4, <1>5, Returns, Backed

LEMMA CrashFree == Inv /\ FreeInv /\ Crash => FreeInv'
<1> SUFFICES ASSUME Inv, FreeInv, Crash PROVE FreeInv'
  OBVIOUS
<1>1. /\ pc # "idle" /\ Return("none")
      /\ UNCHANGED <<mode, compact, stage, call, mono, asked, clean, settled>>
  BY DEF Crash, caches, ghosts
<1>2. settled' => FreeStart' /\ asked' = 0
  BY <1>1, SettledStays DEF Grows
<1> QED BY <1>1, <1>2, Returns, Backed

LEMMA MonoSalvagedFree == Inv /\ FreeInv /\ MonoSalvaged => FreeInv'
<1> SUFFICES ASSUME Inv, FreeInv, MonoSalvaged PROVE FreeInv'
  OBVIOUS
<1>1. PICK q \in Accepted : mono' = q /\ Return(q)
  BY DEF MonoSalvaged
<1>2. /\ pc = "lookup" /\ mono = "broken" /\ ~clean'
      /\ UNCHANGED <<mode, compact, stage, call, asked, settled>>
  BY DEF MonoSalvaged
<1>3. ~Current(mono) /\ Grows
  BY <1>2 DEF Current, Final, Grows
<1>4. settled' => FreeStart' /\ asked' = 0
  BY <1>2, <1>3, SettledStays
<1> QED BY <1>1, <1>2, <1>4, Returns, Backed

LEMMA MonoRefusedFree == Inv /\ FreeInv /\ MonoRefused => FreeInv'
<1> SUFFICES ASSUME Inv, FreeInv, MonoRefused PROVE FreeInv'
  OBVIOUS
<1>1. /\ pc = "answer" /\ req = Mono /\ got = "refused"
      /\ UNCHANGED <<clean, settled>> /\ Return("refused")
  BY DEF MonoRefused, ghosts
<1>2. ~clean
  BY <1>1 DEF FreeInv, CleanPath, Transient
<1>3. ~settled
  BY <1>1, <1>2 DEF FreeInv, Free
<1> QED BY <1>1, <1>2, <1>3, Returns, Unclean

LEMMA MonoMissFree == Inv /\ FreeInv /\ MonoMiss => FreeInv'
<1> SUFFICES ASSUME Inv, FreeInv, MonoMiss PROVE FreeInv'
  OBVIOUS
<1>1. /\ pc = "lookup" /\ ~Current(mono)
      /\ UNCHANGED <<mode, compact, stage, call, asked, clean, settled>>
  BY DEF MonoMiss
<1>2. mono' = mono
  BY DEF MonoMiss, Stage, Ask
<1>3. Grows /\ (FieldsFirst' <=> FieldsFirst)
  BY <1>1 DEF Grows, FieldsFirst
<1>4. settled' => FreeStart' /\ asked' = 0 /\ clean'
  BY <1>1, <1>2, <1>3, SettledStays
<1>5. clean' /\ mode'.compact => LeadsOn'
  BY <1>1, CompactUnchanged DEF FreeInv, CleanPath
<1>6. CASE FieldsFirst
  <2>1. Stage(Skeleton(0)) /\ why' = "fields"
    BY <1>6 DEF MonoMiss, FieldsFirst, Skeleton
  <2>2. pc' = "stage" /\ req' = Skeleton(0)
    BY <2>1 DEF Stage, Goto
  <2>3. req' \in StageRequests /\ req' # Last /\ req'[2] # 1
    BY <2>2, Keys
  <2>4. CleanPath'
    BY <1>5, <2>1, <2>2, <2>3, NowStage DEF CleanPath
  <2> QED BY <1>4, <2>2, <2>4, StageOnward
<1>7. CASE ~FieldsFirst
  <2>1. pc' = "request" /\ req' = Mono
    BY <1>7 DEF MonoMiss, FieldsFirst, Ask, Goto
  <2>2. CleanPath'
    BY <1>3, <1>5, <1>7, <2>1, NowAsked DEF CleanPath
  <2>3. settled => call[Mono] # "none"
    <3>1. settled => FreeLookup
      BY <1>1, FreeFromHere DEF FreeInv, Free
    <3> QED BY <1>1, <1>7, <3>1 DEF FreeLookup, FreeMono
  <2> QED BY <1>1, <1>4, <2>1, <2>2, <2>3, AskOnward
<1> QED BY <1>6, <1>7

(* An end of the monolithic extraction from which all would be free. *)
LEMMA SettleFree ==
  ASSUME Inv, FreeInv, Grows, UNCHANGED <<compact, asked, clean, settled>>, ~Current(mono),
         pc # "idle", NEW kind, Settle(kind), clean => FreeLookup',
         clean /\ mode.compact => LeadsOn
  PROVE  FreeInv'
<1>1. pc' = "idle" /\ try' = FirstTry
  BY Returns DEF Settle
<1>2. clean' => FreeStart'
  BY CompactUnchanged DEF FreeStart, Grows
<1>3. settled' => FreeStart' /\ asked' = 0
  BY SettledStays
<1> QED BY <1>1, <1>2, <1>3, Backed

LEMMA MonoAnsweredFree == Inv /\ FreeInv /\ MonoAnswered => FreeInv'
<1> SUFFICES ASSUME Inv, FreeInv, MonoAnswered PROVE FreeInv'
  OBVIOUS
<1>1. /\ pc = "answer" /\ req = Mono /\ got # "refused" /\ InMono
      /\ UNCHANGED <<mode, compact, stage, call, asked, clean, settled>>
  BY DEF MonoAnswered, InMono
<1>2. Grows /\ (FieldsFirst' <=> FieldsFirst)
  BY <1>1 DEF Grows, FieldsFirst
<1>3. ~Current(mono)
  BY <1>1 DEF Inv, Phase
<1>4. clean =>
        /\ call[Mono] = got /\ got # "none" /\ (FieldsFirst => Fails)
        /\ mode.compact => LeadsOn
  <2>1. clean => got \notin Failures /\ (FieldsFirst => Fails) /\ (mode.compact => LeadsOn)
    BY <1>1 DEF FreeInv, CleanPath
  <2>2. got \notin Failures => call[Mono] = got /\ got # "none"
    BY <1>1, Tables DEF Inv, InHand, Failures, JsonErrors
  <2> QED BY <2>1, <2>2
<1>5. (Fails => Fails') /\ (FreeMono => FreeMono') /\ (LeadsOn' <=> LeadsOn)
  BY <1>1, <1>2, Stable, CompactUnchanged
<1>6. clean /\ FreeMono => FreeLookup'
  BY <1>2, <1>4, <1>5 DEF FreeLookup
<1>7. CASE got = "full"
  <2>1. Settle("full")
    BY <1>7 DEF MonoAnswered
  <2>2. clean => FreeMono
    BY <1>4, <1>7 DEF FreeMono
  <2> QED BY <1>1, <1>2, <1>3, <1>4, <1>6, <2>1, <2>2, SettleFree
<1>8. CASE got # "full" /\ mode.staged
  <2>1. Stage(Skeleton(0)) /\ why' = got
    BY <1>8 DEF MonoAnswered, Skeleton
  <2>2. pc' = "stage" /\ req' = Skeleton(0) /\ mono' = mono
    BY <2>1 DEF Stage, Goto
  <2>3. req' \in StageRequests /\ req' # Last /\ req'[2] # 1
    BY <2>2, Keys
  <2>4. CleanPath'
    BY <1>1, <1>2, <1>4, <1>5, <2>1, <2>2, <2>3, NowStage DEF CleanPath
  <2>5. settled' => FreeStart' /\ asked' = 0 /\ clean'
    BY <1>1, <1>2, <2>2, SettledStays
  <2> QED BY <2>2, <2>4, <2>5, StageOnward
<1>9. CASE got # "full" /\ ~mode.staged
  <2>1. WithoutStages(got)
    BY <1>9 DEF MonoAnswered
  <2>2. got # "fields"
    BY <1>1, Tables DEF Inv, InHand
  <2>3. CASE got = "completable"
    <3>1. Stage(Last) /\ why' = got
      BY <2>1, <2>3 DEF WithoutStages, Last, Boxes
    <3>2. pc' = "stage" /\ req' = Last /\ mono' = mono
      BY <3>1 DEF Stage, Goto
    <3>3. CleanPath'
      BY <1>1, <1>2, <1>4, <1>5, <1>9, <3>1, <3>2, Keys, NowStage DEF CleanPath, FieldsFirst
    <3>4. settled' => FreeStart' /\ asked' = 0 /\ clean'
      BY <1>1, <1>2, <3>2, SettledStays
    <3> QED BY <3>2, <3>3, <3>4, StageOnward
  <2>4. CASE got # "completable"
    <3>1. Settle(got)
      BY <2>1, <2>2, <2>4 DEF WithoutStages
    <3>2. clean => FreeMono
      BY <1>4, <1>9, <2>4 DEF FreeMono, Ends
    <3> QED BY <1>1, <1>2, <1>3, <1>4, <1>6, <3>1, <3>2, SettleFree
  <2> QED BY <2>3, <2>4
<1> QED BY <1>7, <1>8, <1>9

LEMMA StageHitFree == Inv /\ FreeInv /\ StageHit => FreeInv'
<1> SUFFICES ASSUME Inv, FreeInv, StageHit PROVE FreeInv'
  OBVIOUS
<1>1. /\ pc = "stage" /\ pc' = "answer" /\ got' = stage[req] /\ Reusable(req)
      /\ UNCHANGED <<mode, compact, stage, mono, call, try, why, req, asked, clean, settled>>
  BY DEF StageHit, caches, local, ghosts, Reusable
<1>2. req \in StageRequests /\ req \notin {Compact, Mono}
  BY <1>1, Keys DEF Inv, InHand
<1>3. (InMono' <=> InMono) /\ (InStages' <=> InStages) /\ ~InCompact' /\ pc' # "lookup"
      /\ (FieldsFirst' <=> FieldsFirst)
  BY <1>1, <1>2 DEF InMono, InStages, InCompact, FieldsFirst
<1>4. Grows /\ (LeadsOn' <=> LeadsOn) /\ (Fails => Fails') /\ (Retried => Retried')
  <2>1. Grows
    BY <1>1 DEF Grows
  <2> QED BY <1>1, <2>1, Stable, CompactUnchanged
<1>5. got' \notin Transient
  BY <1>1 DEF Reusable
<1>6. CleanPath'
  BY <1>1, <1>2, <1>3, <1>4, <1>5 DEF FreeInv, CleanPath
<1>7. settled' => FreeStart' /\ asked' = 0 /\ clean
  BY <1>1, <1>4, SettledStays
<1> QED BY <1>1, <1>2, <1>6, <1>7 DEF FreeInv, Rested, Heard, Free

LEMMA StageMissFree == Inv /\ FreeInv /\ StageMiss => FreeInv'
<1> SUFFICES ASSUME Inv, FreeInv, StageMiss PROVE FreeInv'
  OBVIOUS
<1>1. /\ pc = "stage" /\ pc' = "request" /\ ~Reusable(req)
      /\ UNCHANGED <<mode, compact, stage, mono, call, try, why, req, asked, clean, settled>>
  BY DEF StageMiss, Goto, caches, local, ghosts, Reusable
<1>2. req \in StageRequests /\ req \notin {Compact, Mono} /\ InStages
  BY <1>1, Keys DEF Inv, InHand, InStages
<1>3. (InMono' <=> InMono) /\ (InStages' <=> InStages) /\ ~InCompact' /\ pc' # "lookup"
      /\ (FieldsFirst' <=> FieldsFirst)
  BY <1>1, <1>2 DEF InMono, InStages, InCompact, FieldsFirst
<1>4. (LeadsOn' <=> LeadsOn) /\ (Fails => Fails') /\ (Retried => Retried')
  <2>1. Grows
    BY <1>1 DEF Grows
  <2> QED BY <1>1, <2>1, Stable, CompactUnchanged
<1>5. CleanPath'
  BY <1>1, <1>2, <1>3, <1>4 DEF FreeInv, CleanPath
<1>6. ~settled'
  <2> SUFFICES ASSUME settled PROVE FALSE
    BY <1>1
  <2>1. FreeStart /\ clean /\ CleanPath
    BY <1>1 DEF FreeInv, Free
  <2>2. FreeLookup
    BY <1>2, <2>1, FreeFromHere
  <2> QED BY <1>1, <1>2, <2>1, <2>2, StageFree
<1> QED BY <1>1, <1>5, <1>6 DEF FreeInv, Rested, Heard, Free

LEMMA OutcomeFree ==
  ASSUME Inv, FreeInv, UNCHANGED Aside, Hears, Succeeds \/ GivesUp \/ GoesOn \/ BoxesFail
  PROVE  FreeInv'
<1>1. /\ pc = "answer" /\ req \in StageRequests /\ InStages /\ Grows
      /\ UNCHANGED <<mode, compact, call, asked, clean, settled>> /\ req \notin {Compact, Mono}
  BY OutcomeInv, Keys DEF Hears, InStages, Aside
<1>2. /\ ~Current(mono) /\ WhyOK(why) /\ (req # Last => mode.staged)
      /\ (req = Last => why = "completable") /\ (FieldsFirst' <=> FieldsFirst)
  BY <1>1 DEF Inv, Phase, WhyOK, FieldsFirst
<1>3. clean =>
        /\ mode.compact => LeadsOn
        /\ why # "fields" => call[Mono] = why /\ why # "none" /\ (FieldsFirst => Fails)
        /\ req = Last /\ mode.staged => Fails
        /\ got \notin Transient
  BY <1>1, <1>2 DEF FreeInv, CleanPath, WhyOK
<1>4. (LeadsOn' <=> LeadsOn) /\ (Fails => Fails') /\ (Accepts => Accepts')
  BY <1>1, Stable, CompactUnchanged
<1>5. clean /\ got \notin {"refused"} => stage'[req] = got
  BY <1>1, StageStore
<1>6. got # "none"
  BY <1>1, StageStore, Names, Tables
\* Where the extraction ends.
<1>7. CASE Succeeds \/ BoxesFail
  <2>1. \E kind : Settle(kind)
    BY <1>7 DEF Succeeds, BoxesFail, WithStages
  <2>2. CASE req = Last
    <3>1. clean =>
            /\ Reusable(Last)' /\ call'[Mono] = "completable"
            /\ (mode.staged => Fails') /\ (FieldsFirst => Fails')
      BY <1>1, <1>2, <1>3, <1>4, <1>5, <1>6, <2>2 DEF Reusable, Transient
    <3>2. clean => FreeMono'
      BY <1>1, <3>1 DEF FreeMono, Ends
    <3>3. clean => FreeLookup'
      BY <1>2, <3>1, <3>2 DEF FreeLookup
    <3> QED BY <1>1, <1>2, <1>3, <2>1, <3>3, SettleFree
  <2>3. CASE req # Last
    <3>1. clean => Accepts'
      BY <1>7, <2>3 DEF Succeeds, BoxesFail
    <3>2. clean /\ ~FieldsFirst => FreeMono'
      BY <1>1, <1>2, <1>3, <2>3, <3>1 DEF FreeMono, WhyOK
    <3>3. clean => FreeLookup'
      BY <1>2, <3>1, <3>2 DEF FreeLookup
    <3> QED BY <1>1, <1>2, <1>3, <2>1, <3>3, SettleFree
  <2> QED BY <2>2, <2>3
\* Where it goes on without stages.
<1>8. CASE GivesUp
  <2>1. req # Last /\ WithoutStages(why) /\ ~Staged' /\ (clean => Fails')
    BY <1>8 DEF GivesUp
  <2>2. CASE why = "fields"
    <3>1. pc' = "request" /\ req' = Mono /\ mono' = mono /\ FieldsFirst
      BY <1>2, <2>1, <2>2 DEF WithoutStages, WhyOK, Ask, Goto
    <3>2. settled' => FreeStart' /\ asked' = 0 /\ clean'
      BY <1>1, <3>1, SettledStays
    <3>3. CleanPath'
      BY <1>1, <1>3, <1>4, <2>1, <3>1, NowAsked DEF CleanPath
    <3>4. settled => call'[Mono] # "none"
      <4>1. settled => FreeLookup
        BY <1>1, FreeFromHere DEF FreeInv, Free
      <4>2. settled => FreeLookup'
        BY <1>1, <1>2, <4>1, FreeLookupStable
      <4>3. ~Current(mono)'
        BY <1>2, <3>1
      <4>4. ~Accepts'
        BY <2>1, AcceptsIsStaged, PTL
      <4> QED BY <1>2, <3>1, <4>2, <4>3, <4>4 DEF FreeLookup, FreeMono
    <3> QED BY <1>1, <3>1, <3>2, <3>3, <3>4, AskOnward
  <2>3. CASE why = "completable"
    <3>1. pc' = "stage" /\ req' = Last /\ mono' = mono /\ why' = why
      BY <2>1, <2>3 DEF WithoutStages, Stage, Goto, Last, Boxes
    <3>2. settled' => FreeStart' /\ asked' = 0 /\ clean'
      BY <1>1, <3>1, SettledStays
    <3>3. CleanPath'
      BY <1>1, <1>2, <1>3, <1>4, <2>1, <2>3, <3>1, Keys, NowStage DEF CleanPath
    <3> QED BY <3>1, <3>2, <3>3, StageOnward
  <2>4. CASE why \notin {"fields", "completable"}
    <3>1. Settle(why)
      BY <2>1, <2>4 DEF WithoutStages
    <3>2. clean => FreeMono'
      BY <1>1, <1>2, <1>3, <2>1, <2>4 DEF FreeMono, Ends
    <3>3. clean => FreeLookup'
      BY <1>2, <2>1, <3>2 DEF FreeLookup
    <3> QED BY <1>1, <1>2, <1>3, <3>1, <3>3, SettleFree
  <2> QED BY <2>2, <2>3, <2>4
<1>9. CASE GoesOn
  <2>1. PICK r \in StageRequests \ {Last} :
          Stage(r) /\ why' = why /\ (clean /\ r[2] = 1 => Retried')
    BY <1>9 DEF GoesOn
  <2>2. pc' = "stage" /\ req' = r /\ mono' = mono
    BY <2>1 DEF Stage, Goto
  <2>3. settled' => FreeStart' /\ asked' = 0 /\ clean'
    BY <1>1, <2>2, SettledStays
  <2>4. CleanPath'
    BY <1>1, <1>2, <1>3, <1>4, <2>1, <2>2, NowStage DEF CleanPath
  <2> QED BY <2>2, <2>3, <2>4, StageOnward
<1> QED BY <1>7, <1>8, <1>9

LEMMA StepFree ==
  ASSUME Inv, FreeInv, Next
  PROVE  FreeInv'
<1>1. CASE Begin
  BY <1>1, BeginFree
<1>2. CASE Crash
  BY <1>2, CrashFree
<1>3. ASSUME NEW o \in Failures \cup AllAnswers, Complete(o) PROVE FreeInv'
  BY <1>3, CompleteFree
<1>4. CASE CompactRejected \/ CompactMigrated \/ CompactCopied \/ CompactHit \/ CompactAsk
           \/ CompactRefused \/ CompactFailed \/ CompactInvalid \/ CompactAnswered
  BY <1>4, CompactRejectedFree, CompactMigratedFree, CompactCopiedFree, CompactHitFree,
     CompactAskFree, CompactFailsFree, CompactInvalidFree, CompactAnsweredFree
<1>5. CASE MonoHit \/ MonoSalvaged \/ MonoMiss \/ MonoRefused \/ MonoAnswered
  BY <1>5, MonoHitFree, MonoSalvagedFree, MonoMissFree, MonoRefusedFree, MonoAnsweredFree
<1>6. CASE StageHit \/ StageMiss
  BY <1>6, StageHitFree, StageMissFree
<1>7. CASE SkeletonAnswered \/ ConditionsAnswered \/ BoxesAnswered
  <2>1. UNCHANGED Aside /\ pc = "answer" /\ req[1] \in {"skeleton", "conditions", "boxes"}
    BY <1>7 DEF SkeletonAnswered, ConditionsAnswered, BoxesAnswered, Aside, StageOf
  <2>2. InStages
    BY <2>1, OtherRequests, Keys DEF Inv, TypeOK, InStages
  <2>3. Heeds
    BY <2>1, <2>2, HeedsHolds DEF FreeInv
  <2>4. Hears /\ (Succeeds \/ GivesUp \/ GoesOn \/ BoxesFail)
    BY <1>7, <2>3, SkeletonOutcome, ConditionsOutcome, BoxesOutcome
  <2> QED BY <2>1, <2>4, OutcomeFree
<1> QED BY <1>1, <1>2, <1>3, <1>4, <1>5, <1>6, <1>7 DEF Next, CallStep

LEMMA Stutters ==
  ASSUME Inv, FreeInv, UNCHANGED vars
  PROVE  Inv' /\ FreeInv'
<1>1. UNCHANGED <<mode, legacy, compact, spare, stage, mono, call, pc, req, got, try, why, asked,
                  salvaged, clean, settled, result, calls>>
  BY DEF vars
<1>2. TypeOK' /\ Stored'
  BY <1>1 DEF Inv, TypeOK, Stored
<1>3. (InMono' <=> InMono) /\ (InStages' <=> InStages) /\ (InCompact' <=> InCompact)
      /\ (FieldsFirst' <=> FieldsFirst) /\ (Staged' <=> Staged) /\ (FailedOnce' <=> FailedOnce)
      /\ \A r : Reusable(r)' <=> Reusable(r)
  BY <1>1 DEF InMono, InStages, InCompact, FieldsFirst, Staged, Good, Second, FailedOnce, Reusable
<1>4. Remembered' /\ InHand'
  BY <1>1, <1>3 DEF Inv, Remembered, InHand, Reusable
<1>5. Phase'
  BY <1>1, <1>3 DEF Inv, Phase
<1>6. Path'
  BY <1>1, <1>3 DEF Inv, Path, Before
<1>7. (LeadsOn' <=> LeadsOn) /\ (\A i : Reached(i)' <=> Reached(i))
      /\ (Fails => Fails') /\ (Retried => Retried') /\ (FreeStart => FreeStart')
  BY <1>1, <1>3, CompactUnchanged, Stable, StartStable DEF Grows
<1>8. CleanPath'
  <2>1. clean /\ InCompact => Reached(try.attempt)'
    BY <1>1, <1>3 DEF FreeInv, CleanPath, Reached, Again
  <2> QED BY <1>1, <1>3, <1>7, <2>1 DEF FreeInv, CleanPath
<1>9. Rested' /\ Heard' /\ Free'
  BY <1>1, <1>7 DEF FreeInv, Rested, Heard, Free, Cached
<1> QED BY <1>2, <1>4, <1>5, <1>6, <1>8, <1>9 DEF Inv, FreeInv

LEMMA InitFree == Init => FreeInv
BY DEF Init, FreeInv, CleanPath, Rested, Heard, Free

(* The caches and the place of the call belong together, at every step. *)
THEOREM Invariants == Spec => [](Inv /\ FreeInv)
<1>1. Init => Inv /\ FreeInv
  BY InitInv, InitFree
<1>2. Inv /\ FreeInv /\ [Next]_vars => (Inv /\ FreeInv)'
  BY StepInv, StepFree, Stutters DEF FreeInv
<1> QED BY <1>1, <1>2, PTL DEF Spec

(* Every variable stays in its type. *)
THEOREM TypesHold == Spec => []TypeOK
<1>1. Inv => TypeOK
  BY DEF Inv
<1> QED BY <1>1, Invariants, PTL

(* A call of call_model_chunk_drs all of whose requests were answered is     *)
(* free when it is repeated, however long the history.                       *)
THEOREM HeardIsFreeHolds == Spec => []HeardIsFree
<1>1. FreeInv => HeardIsFree
  BY DEF FreeInv, Free, HeardIsFree
<1> QED BY <1>1, Invariants, PTL
-----------------------------------------------------------------------------
(* Accepted results. *)

LEMMA MonoKept ==
  ASSUME Inv, FreeInv, Next
  PROVE  /\ mono = "full" => mono' = "full"
         /\ mono = "sparse" /\ ~salvaged => mono' \in Accepted
<1>1. CASE mono' = mono
  BY <1>1 DEF Accepted
<1>2. CASE MonoSalvaged
  BY <1>2 DEF MonoSalvaged
<1>3. CASE MonoAnswered /\ mono' # mono
  <2>1. pc = "answer" /\ req = Mono /\ got # "refused" /\ InMono
    BY <1>3 DEF MonoAnswered, InMono
  <2>2. ~Current(mono)
    BY <2>1 DEF Inv, Phase
  <2>3. mono # "full"
    BY <2>2 DEF Current
  <2>4. CASE got = "full"
    BY <1>3, <2>3, <2>4 DEF MonoAnswered, Settle, Accepted
  <2>5. CASE got # "full"
    <3>1. ~mode.staged /\ Settle(got) /\ got # "completable"
      BY <1>3, <2>5 DEF MonoAnswered, WithoutStages, Stage, Ask
    <3>2. mono = "sparse" /\ ~salvaged => got = "sparse"
      BY <2>1, <3>1, Tables DEF Inv, Remembered, InHand
    <3> QED BY <2>3, <3>1, <3>2 DEF Settle, Accepted
  <2> QED BY <2>4, <2>5
<1>4. CASE (SkeletonAnswered \/ ConditionsAnswered \/ BoxesAnswered) /\ mono' # mono
  <2>1. UNCHANGED Aside /\ pc = "answer" /\ req[1] \in {"skeleton", "conditions", "boxes"}
    BY <1>4 DEF SkeletonAnswered, ConditionsAnswered, BoxesAnswered, Aside, StageOf
  <2>2. InStages
    BY <2>1, OtherRequests, Keys DEF Inv, TypeOK, InStages
  <2>3. Heeds
    BY <2>1, <2>2, HeedsHolds DEF FreeInv
  <2>4. Hears /\ (Succeeds \/ GivesUp \/ GoesOn \/ BoxesFail)
    BY <1>4, <2>3, SkeletonOutcome, ConditionsOutcome, BoxesOutcome
  <2>5. mono # "full" /\ WhyOK(why) /\ (req = Last => why = "completable")
        /\ (req = Last /\ mode.staged => ~Staged)
    BY <2>2 DEF Inv, Phase, Path, Current, WhyOK
  <2>6. Grows
    BY <2>1, <2>4, OutcomeInv
  <2>7. mono = "sparse" /\ ~salvaged =>
          \/ call[Mono] = "sparse"
          \/ Staged
          \/ call[Mono] = "completable" /\ stage[Last] \in Accepted
    BY DEF Inv, Remembered
  <2>8. CASE Succeeds
    <3>1. \E best \in {got} \cup ({why} \cap {"sparse"}) : Settle(best)
      BY <2>8 DEF Succeeds, WithStages
    <3> QED BY <2>5, <2>8, <3>1 DEF Succeeds, Settle, Accepted
  <2>9. CASE GivesUp
    <3>1. why \notin {"fields", "completable"} /\ Settle(why) /\ ~Staged'
      BY <1>4, <2>9 DEF GivesUp, WithoutStages, Stage, Ask
    <3>2. ~Staged
      BY <2>6, <3>1, Stable
    <3>3. mono = "sparse" /\ ~salvaged => why = "sparse"
      BY <2>5, <2>7, <3>1, <3>2 DEF WhyOK
    <3> QED BY <2>5, <3>1, <3>3 DEF Settle, Accepted
  <2>10. CASE GoesOn
    BY <1>4, <2>10 DEF GoesOn, Stage
  <2>11. CASE BoxesFail
    <3>1. call[Mono] = "completable" /\ req = Last /\ got \notin Accepted
      BY <2>5, <2>11 DEF BoxesFail, WhyOK
    <3>2. stage[Last] \notin Accepted
      BY <2>1, <2>2, <3>1 DEF Inv, InHand, InStages, Reusable, Accepted, Transient
    <3>3. ~(mono = "sparse" /\ ~salvaged)
      BY <2>5, <3>1, <3>2 DEF Inv, Remembered
    <3> QED BY <2>5, <3>3
  <2> QED BY <2>4, <2>8, <2>9, <2>10, <2>11
<1>5. CASE Begin \/ Crash \/ \E o \in Failures \cup AllAnswers : Complete(o)
  <2>1. mono' = mono
    BY <1>5 DEF Begin, Crash, Complete, caches
  <2> QED BY <1>1, <2>1
<1>6. CASE CompactRejected \/ CompactMigrated \/ CompactCopied \/ CompactHit \/ CompactAsk
           \/ CompactRefused \/ CompactFailed \/ CompactInvalid \/ CompactAnswered
  <2>1. mono' = mono
    BY <1>6 DEF CompactRejected, CompactMigrated, CompactCopied, CompactHit, CompactAsk,
                CompactRefused, CompactFailed, CompactInvalid, CompactAnswered, caches
  <2> QED BY <1>1, <2>1
<1>7. CASE MonoHit \/ MonoMiss \/ MonoRefused \/ StageHit \/ StageMiss
  <2>1. mono' = mono
    BY <1>7 DEF MonoHit, MonoMiss, MonoRefused, StageHit, StageMiss, Stage, Ask, caches
  <2> QED BY <1>1, <2>1
<1> QED BY <1>1, <1>2, <1>3, <1>4, <1>5, <1>6, <1>7 DEF Next, CallStep

LEMMA CompactKept ==
  ASSUME Inv, Next, NEW i \in 0..2, compact[i] = "full"
  PROVE  compact'[i] = "full"
<1>1. \/ compact' = compact
      \/ \E kind \in CompactEntries :
           /\ CompactStored(kind) /\ InCompact
           /\ kind = "full" \/ ~(try.chained /\ compact[try.attempt] = "full")
  <2>1. CASE Begin \/ Crash \/ \E o \in Failures \cup AllAnswers : Complete(o)
    BY <2>1 DEF Begin, Crash, Complete, caches
  <2>2. CASE CompactRejected \/ CompactHit \/ CompactRefused
    BY <2>2 DEF CompactRejected, CompactHit, CompactRefused, caches
  <2>3. CASE CompactMigrated \/ CompactCopied
    BY <2>3, CompactKinds DEF CompactMigrated, CompactCopied, InCompact
  <2>4. CASE CompactAsk
    <3>1. /\ pc = "compact" /\ (compact' = compact \/ CompactStored("empty"))
          /\ CompactEntry \in {"none", "broken"}
      BY <2>4 DEF CompactAsk, NoEntry
    <3> QED BY <3>1, CompactKinds DEF CompactEntry, InCompact
  <2>5. CASE CompactFailed \/ CompactInvalid \/ CompactAnswered
    <3>1. pc = "answer" /\ req = Compact /\ got \in CompactEntries /\ CompactStored(got)
      BY <2>5, CompactKinds DEF CompactFailed, CompactInvalid, CompactAnswered, JsonErrors
    <3>2. ~(try.chained /\ compact[try.attempt] = "full")
      BY <3>1 DEF Inv, Phase
    <3> QED BY <3>1, <3>2 DEF InCompact
  <2>6. CASE MonoHit \/ MonoSalvaged \/ MonoMiss \/ MonoRefused \/ MonoAnswered
    BY <2>6 DEF MonoHit, MonoSalvaged, MonoMiss, MonoRefused, MonoAnswered, caches
  <2>7. CASE StageHit \/ StageMiss \/ SkeletonAnswered \/ ConditionsAnswered \/ BoxesAnswered
    BY <2>7 DEF StageHit, StageMiss, SkeletonAnswered, ConditionsAnswered, BoxesAnswered, caches
  <2> QED BY <2>1, <2>2, <2>3, <2>4, <2>5, <2>6, <2>7 DEF Next, CallStep
<1> QED BY <1>1, CompactStore

(* An accepted result is never lost, whatever fails: what it was made of is  *)
(* still in the caches below (Remembered).                                   *)
THEOREM AcceptedIsKeptHolds == Spec => AcceptedIsKept
<1>1. Inv /\ FreeInv /\ [Next]_vars =>
        [/\ mono = "full" => mono' = "full"
         /\ mono = "sparse" /\ ~salvaged => mono' \in Accepted
         /\ \A i \in 0..2 : compact[i] = "full" => compact'[i] = "full"]_vars
  BY MonoKept, CompactKept
<1> QED BY <1>1, Invariants, PTL DEF Spec, AcceptedIsKept
-----------------------------------------------------------------------------
(* How far a call is from its end: the stages after the monolithic request,  *)
(* that request, the stages before it, the look-up of its entry, and three   *)
(* steps for each compact attempt.                                           *)
Place(r) ==
  IF r = Last THEN 0
  ELSE (IF r[1] = "skeleton" THEN 6 ELSE IF r[1] = "conditions" THEN 5 ELSE 4) - 3 * r[2]
Base(reason) == IF reason = "fields" THEN 25 ELSE 1
Within(label) == IF label = "stage" THEN 2 ELSE IF label = "request" THEN 1 ELSE 0
Distance(label, r, attempt, reason) ==
  IF label = "idle" THEN 0
  ELSE IF label = "lookup" THEN 46
  ELSE IF label = "compact" THEN 49 + 3 * (2 - attempt)
  ELSE IF r = Compact THEN 47 + Within(label) + 3 * (2 - attempt)
  ELSE IF r = Mono THEN 22 + Within(label)
  ELSE Base(reason) + Within(label) + 3 * Place(r)
Left == Distance(pc, req, try.attempt, why)
CallShortens == [][pc # "idle" => Left' \in Nat /\ Left' < Left]_vars

LEMMA Places ==
  /\ \A r \in StageRequests : Place(r) \in 0..6 /\ r # Compact /\ r # Mono
  /\ Place(Skeleton(0)) = 6 /\ Place(Conditions(0)) = 5 /\ Place(Boxes(0)) = 4
  /\ Place(Skeleton(1)) = 3 /\ Place(Conditions(1)) = 2 /\ Place(Boxes(1)) = 1
  /\ Place(Last) = 0 /\ Compact # Mono
<1>1. ASSUME NEW r \in StageRequests PROVE Place(r) \in 0..6 /\ r # Compact /\ r # Mono
  BY DEF Place, StageRequests, Last, Boxes, Compact, Mono
<1>2. /\ Place(Skeleton(0)) = 6 /\ Place(Conditions(0)) = 5 /\ Place(Boxes(0)) = 4
      /\ Place(Skeleton(1)) = 3 /\ Place(Conditions(1)) = 2 /\ Place(Boxes(1)) = 1
      /\ Place(Last) = 0 /\ Compact # Mono
  BY DEF Place, Last, Skeleton, Conditions, Boxes, Compact, Mono
<1> QED BY <1>1, <1>2

LEMMA Distances ==
  /\ \A r, n, reason : Distance("idle", r, n, reason) = 0
  /\ \A r, n, reason : Distance("lookup", r, n, reason) = 46
  /\ \A r, n, reason : Distance("compact", r, n, reason) = 49 + 3 * (2 - n)
  /\ \A n, reason : Distance("request", Compact, n, reason) = 48 + 3 * (2 - n)
  /\ \A n, reason : Distance("answer", Compact, n, reason) = 47 + 3 * (2 - n)
  /\ \A n, reason : Distance("request", Mono, n, reason) = 23
  /\ \A n, reason : Distance("answer", Mono, n, reason) = 22
  /\ \A r \in StageRequests : \A n, reason :
       /\ Distance("stage", r, n, reason) = Base(reason) + 2 + 3 * Place(r)
       /\ Distance("request", r, n, reason) = Base(reason) + 1 + 3 * Place(r)
       /\ Distance("answer", r, n, reason) = Base(reason) + 3 * Place(r)
<1>1. ASSUME NEW r, NEW n, NEW reason
      PROVE  /\ Distance("idle", r, n, reason) = 0
             /\ Distance("lookup", r, n, reason) = 46
             /\ Distance("compact", r, n, reason) = 49 + 3 * (2 - n)
  BY DEF Distance
<1>2. ASSUME NEW n, NEW reason
      PROVE  /\ Distance("request", Compact, n, reason) = 48 + 3 * (2 - n)
             /\ Distance("answer", Compact, n, reason) = 47 + 3 * (2 - n)
             /\ Distance("request", Mono, n, reason) = 23
             /\ Distance("answer", Mono, n, reason) = 22
  BY Places DEF Distance, Within
<1>3. ASSUME NEW r \in StageRequests, NEW n, NEW reason
      PROVE  /\ Distance("stage", r, n, reason) = Base(reason) + 2 + 3 * Place(r)
             /\ Distance("request", r, n, reason) = Base(reason) + 1 + 3 * Place(r)
             /\ Distance("answer", r, n, reason) = Base(reason) + 3 * Place(r)
  <2>1. Place(r) \in 0..6 /\ r # Compact /\ r # Mono /\ Base(reason) \in {1, 25}
    BY Places DEF Base
  <2> QED BY <2>1 DEF Distance, Within
<1> QED BY <1>1, <1>2, <1>3

(* A step of the monolithic extraction that leads on to a request, a stage or *)
(* the end, from a place further off.                                         *)
LEMMA OnShortens ==
  ASSUME Inv, TypeOK', Left \in Nat, try' = try
  PROVE  /\ \A r \in StageRequests :
              Stage(r) /\ Base(why') + 2 + 3 * Place(r) < Left => Left' \in Nat /\ Left' < Left
         /\ Ask(Mono) /\ 23 < Left => Left' \in Nat /\ Left' < Left
<1> DEFINE n == try.attempt
<1>1. n \in 0..2 /\ Left' = Distance(pc', req', n, why')
  BY DEF Inv, TypeOK, Left
<1>2. ASSUME NEW r \in StageRequests, Stage(r), Base(why') + 2 + 3 * Place(r) < Left
      PROVE  Left' \in Nat /\ Left' < Left
  <2>1. pc' = "stage" /\ req' = r
    BY <1>2 DEF Stage, Goto
  <2>2. Left' = Base(why') + 2 + 3 * Place(r)
    BY <1>1, <2>1, Distances
  <2>3. Base(why') \in {1, 25} /\ Place(r) \in 0..6
    BY Places DEF Base
  <2> QED BY <1>2, <2>2, <2>3
<1>3. ASSUME Ask(Mono), 23 < Left PROVE Left' \in Nat /\ Left' < Left
  <2>1. pc' = "request" /\ req' = Mono
    BY <1>3 DEF Ask, Goto
  <2> QED BY <1>1, <1>3, <2>1, Distances
<1> QED BY <1>2, <1>3

LEMMA EndShortens ==
  ASSUME Left \in Nat, 0 < Left, pc' = "idle"
  PROVE  Left' \in Nat /\ Left' < Left
<1>1. Left' = 0
  BY DEF Left, Distance
<1> QED BY <1>1

LEMMA Positive == ASSUME Inv PROVE Left \in Nat /\ (pc # "idle" => 0 < Left)
<1>1. try.attempt \in 0..2 /\ req \in StageRequests \cup {Compact, Mono}
  BY DEF Inv, TypeOK, Requests
<1>2. /\ pc \in {"idle", "compact", "lookup", "stage", "request", "answer"}
      /\ pc = "stage" => req \in StageRequests
  BY DEF Inv, TypeOK, InHand
<1>3. CASE req \in StageRequests
  <2>1. Place(req) \in 0..6 /\ Base(why) \in {1, 25}
    BY <1>3, Places DEF Base
  <2> QED BY <1>1, <1>2, <1>3, <2>1, Distances DEF Left
<1>4. CASE req \in {Compact, Mono}
  <2>1. req \notin StageRequests
    BY <1>4, Places
  <2> QED BY <1>1, <1>2, <1>4, <2>1, Distances DEF Left
<1> QED BY <1>1, <1>3, <1>4

Shorter == Left' \in Nat /\ Left' < Left

(* A compact attempt: to its request, to the next one, or to the look-up.    *)
LEMMA CompactShortens ==
  ASSUME Inv, TypeOK', InCompact,
         \/ CompactRejected \/ CompactMigrated \/ CompactCopied \/ CompactHit \/ CompactAsk
         \/ CompactRefused \/ CompactFailed \/ CompactInvalid \/ CompactAnswered
  PROVE  Shorter
<1> DEFINE n == try.attempt m == try'.attempt
<1>0. pc = "compact" \/ (pc = "answer" /\ req = Compact)
  BY DEF CompactRejected, CompactMigrated, CompactCopied, CompactHit, CompactAsk,
         CompactRefused, CompactFailed, CompactInvalid, CompactAnswered
<1>1. n \in 0..2 /\ m \in 0..2 /\ Left \in Nat /\ 0 < Left
  BY Positive DEF Inv, TypeOK, InCompact
<1>2. Left = Distance(pc, req, n, why) /\ Left' = Distance(pc', req', m, why')
  BY DEF Left
<1> HIDE DEF n, m
<1>3. CASE pc' = "idle"
  BY <1>1, <1>3, EndShortens DEF Shorter
<1>4. CASE pc' = "lookup"
  <2>1. Distance("lookup", req', m, why') = 46
    BY <1>1, Distances
  <2>2. 46 < Left
    BY <1>1, <1>2, <1>0, Distances
  <2> QED BY <1>2, <1>4, <2>1, <2>2 DEF Shorter
<1>5. CASE pc' = "compact" /\ n < 2 /\ m = n + 1
  <2>1. Left' = 49 + 3 * (2 - m)
    BY <1>1, <1>2, <1>5, Distances
  <2>2. Left \in {47 + 3 * (2 - n), 49 + 3 * (2 - n)}
    BY <1>1, <1>2, <1>0, Distances
  <2> QED BY <1>1, <1>5, <2>1, <2>2 DEF Shorter
<1>6. CASE pc = "compact" /\ pc' = "request" /\ req' = Compact /\ m = n
  BY <1>1, <1>2, <1>6, Distances DEF Shorter
<1>7. \/ pc' = "idle" \/ pc' = "lookup"
      \/ pc' = "compact" /\ n < 2 /\ m = n + 1
      \/ pc = "compact" /\ pc' = "request" /\ req' = Compact /\ m = n
  <2>1. ASSUME NEW kind, Rejected(kind)
        PROVE  pc' = "lookup" \/ (pc' = "compact" /\ n < 2 /\ m = n + 1)
    BY <2>1 DEF Rejected, Monolithic, NextTry, Goto, n, m
  <2>2. ASSUME NEW chained, NEW seen, NextTry(chained, seen)
        PROVE  pc' = "lookup" \/ (pc' = "compact" /\ n < 2 /\ m = n + 1)
    BY <2>2 DEF Monolithic, NextTry, Goto, n, m
  <2>3. CASE CompactRejected \/ CompactInvalid \/ CompactRefused \/ CompactFailed
    BY <2>1, <2>2, <2>3 DEF CompactRejected, CompactInvalid, CompactRefused, CompactFailed,
                            Return, Goto
  <2>4. CASE CompactMigrated \/ CompactCopied \/ CompactHit \/ CompactAnswered
    BY <2>4 DEF CompactMigrated, CompactCopied, CompactHit, CompactAnswered, Return, Goto,
                Monolithic
  <2>5. CASE CompactAsk
    BY <2>5 DEF CompactAsk, Goto, n, m
  <2> QED BY <2>3, <2>4, <2>5
<1> QED BY <1>3, <1>4, <1>5, <1>6, <1>7

LEMMA CompleteShortens ==
  ASSUME Inv, TypeOK', NEW o, Complete(o) PROVE Shorter
<1>1. pc = "request" /\ pc' = "answer" /\ try' = try /\ req' = req /\ why' = why
  BY DEF Complete, local
<1>2. try.attempt \in 0..2 /\ req \in StageRequests \cup {Compact, Mono}
  BY DEF Inv, TypeOK, Requests
<1>3. /\ Left = Distance("request", req, try.attempt, why)
      /\ Left' = Distance("answer", req, try.attempt, why)
  BY <1>1 DEF Left
<1>4. CASE req \in StageRequests
  <2>1. Place(req) \in 0..6 /\ Base(why) \in {1, 25}
    BY <1>4, Places DEF Base
  <2> QED BY <1>2, <1>3, <1>4, <2>1, Distances DEF Shorter
<1>5. CASE req = Compact \/ req = Mono
  BY <1>2, <1>3, <1>5, Distances DEF Shorter
<1> QED BY <1>2, <1>4, <1>5

LEMMA StageHitShortens ==
  ASSUME Inv, TypeOK', StageHit \/ StageMiss PROVE Shorter
<1>1. /\ pc = "stage" /\ pc' \in {"answer", "request"}
      /\ try' = try /\ req' = req /\ why' = why
  BY DEF StageHit, StageMiss, Goto, local
<1>2. try.attempt \in 0..2 /\ req \in StageRequests
  BY <1>1 DEF Inv, TypeOK, InHand
<1>3. Place(req) \in 0..6 /\ Base(why) \in {1, 25}
  BY <1>2, Places DEF Base
<1>4. /\ Left = Base(why) + 2 + 3 * Place(req)
      /\ Left' \in {Base(why) + 1 + 3 * Place(req), Base(why) + 3 * Place(req)}
  BY <1>1, <1>2, Distances DEF Left
<1> QED BY <1>3, <1>4 DEF Shorter

LEMMA AnswerAt ==
  ASSUME Inv, pc = "answer", req \in StageRequests
  PROVE  /\ Left = Base(why) + 3 * Place(req)
         /\ req # Last => 1 <= Place(req)
<1>1. Left = Base(why) + 3 * Place(req)
  BY Distances DEF Left
<1>2. ASSUME req # Last PROVE 1 <= Place(req)
  BY <1>2 DEF Place, StageRequests, Last, Boxes
<1> QED BY <1>1, <1>2

(* Without a staged result: the monolithic request that the stages before it *)
(* spared, the boxes of its DRS, or the end.                                 *)
LEMMA WithoutShortens ==
  ASSUME Inv, TypeOK', try' = try, pc = "answer", req \in StageRequests \ {Last},
         WithoutStages(why)
  PROVE  Shorter
<1>1. /\ Left \in Nat /\ 0 < Left /\ Left = Base(why) + 3 * Place(req) /\ Place(req) \in 0..6
      /\ 1 <= Place(req)
  BY Positive, AnswerAt, Places
<1>2. CASE why = "fields" /\ Ask(Mono)
  BY <1>1, <1>2, OnShortens DEF Shorter, Base
<1>3. CASE why = "completable" /\ Stage(Last) /\ why' = why
  <2>1. Base(why') + 2 + 3 * Place(Last) < Left
    BY <1>1, <1>3, Places DEF Base
  <2> QED BY <1>1, <1>3, <2>1, OnShortens DEF Shorter, StageRequests, Last, Boxes
<1>4. CASE Settle(why)
  <2>1. pc' = "idle"
    BY <1>4 DEF Settle, Return, Goto
  <2> QED BY <1>1, <2>1, EndShortens DEF Shorter
<1> QED BY <1>2, <1>3, <1>4 DEF WithoutStages, Last, Boxes

LEMMA RetryShortens ==
  ASSUME Inv, TypeOK', try' = try, pc = "answer",
         NEW n \in {0, 1}, req \in {Conditions(n), Boxes(n)}, Retry(n)
  PROVE  Shorter
<1>1. req \in StageRequests \ {Last}
  BY DEF StageRequests, Conditions, Boxes, Last
<1>2. CASE n = 0
  <2>1. Left \in Nat /\ Left = Base(why) + 3 * Place(req) /\ Place(req) \in {4, 5}
    BY <1>1, <1>2, Positive, AnswerAt, Places
  <2>2. Stage(Skeleton(1)) /\ why' = why
    BY <1>2 DEF Retry, Skeleton
  <2>3. Base(why) \in {1, 25} /\ Place(Skeleton(1)) = 3 /\ Skeleton(1) \in StageRequests
    BY Places DEF Base, StageRequests, Skeleton
  <2> QED BY <2>1, <2>2, <2>3, OnShortens DEF Shorter
<1>3. CASE n = 1
  BY <1>1, <1>3, WithoutShortens DEF Retry
<1> QED BY <1>2, <1>3

LEMMA MonoShortens ==
  ASSUME Inv, TypeOK', MonoHit \/ MonoSalvaged \/ MonoMiss \/ MonoRefused \/ MonoAnswered
  PROVE  Shorter
<1>1. Left \in Nat /\ (pc # "idle" => 0 < Left)
  BY Positive
<1>2. CASE MonoHit \/ MonoSalvaged \/ MonoRefused
  <2>1. pc # "idle" /\ pc' = "idle"
    BY <1>2 DEF MonoHit, MonoSalvaged, MonoRefused, Return, Goto
  <2> QED BY <1>1, <2>1, EndShortens DEF Shorter
<1>3. CASE MonoMiss
  <2>1. Left = 46
    BY <1>3, Distances DEF MonoMiss, Left
  <2>2. Place(Skeleton(0)) = 6 /\ Skeleton(0) \in StageRequests
    BY Places DEF StageRequests, Skeleton
  <2>3. CASE Stage(Skeleton(0)) /\ why' = "fields"
    BY <1>1, <2>1, <2>2, <2>3, OnShortens DEF Shorter, Base, Stage
  <2>4. CASE Ask(Mono)
    BY <1>1, <2>1, <2>4, OnShortens DEF Shorter, Ask
  <2> QED BY <1>3, <2>3, <2>4 DEF MonoMiss, Skeleton
<1>4. CASE MonoAnswered
  <2>1. pc = "answer" /\ req = Mono /\ Left = 22
    BY <1>4, Distances DEF MonoAnswered, Left
  <2>2. /\ Place(Skeleton(0)) = 6 /\ Skeleton(0) \in StageRequests
        /\ Place(Last) = 0 /\ Last \in StageRequests
    BY Places DEF StageRequests, Skeleton, Last, Boxes
  <2>3. got # "fields"
    BY DEF Inv, TypeOK, Kinds, AllAnswers, Answers, Failures, JsonErrors, Qualities
  <2>4. CASE Stage(Skeleton(0)) /\ why' = got
    BY <1>1, <2>1, <2>2, <2>3, <2>4, OnShortens DEF Shorter, Base, Stage
  <2>5. CASE Stage(Last) /\ why' = "completable"
    BY <1>1, <2>1, <2>2, <2>5, OnShortens DEF Shorter, Base, Stage
  <2>6. CASE \E kind : Settle(kind)
    <3>1. pc' = "idle"
      BY <2>6 DEF Settle, Return, Goto
    <3> QED BY <1>1, <2>1, <3>1, EndShortens DEF Shorter
  <2> QED BY <1>4, <2>3, <2>4, <2>5, <2>6 DEF MonoAnswered, WithoutStages, Skeleton, Last, Boxes
<1> QED BY <1>2, <1>3, <1>4

LEMMA StagesShorten ==
  ASSUME Inv, TypeOK', SkeletonAnswered \/ ConditionsAnswered \/ BoxesAnswered
  PROVE  Shorter
<1>1. pc = "answer" /\ req \in Requests
  BY DEF SkeletonAnswered, ConditionsAnswered, BoxesAnswered, Inv, TypeOK
<1>2. PICK n \in {0, 1, 2} : /\ Round = n
                             /\ SkeletonAnswered => req = Skeleton(n)
                             /\ ConditionsAnswered => req = Conditions(n)
                             /\ BoxesAnswered => req = Boxes(n)
  BY <1>1 DEF SkeletonAnswered, ConditionsAnswered, BoxesAnswered, StageOf, Round, Requests,
              StageRequests, Compact, Mono, Skeleton, Conditions, Boxes
<1>3. req \in StageRequests /\ Left \in Nat /\ 0 < Left /\ Left = Base(why) + 3 * Place(req)
  <2>1. req \in StageRequests
    BY <1>1 DEF SkeletonAnswered, ConditionsAnswered, BoxesAnswered, StageOf, Requests,
                Compact, Mono
  <2> QED BY <1>1, <2>1, Positive, AnswerAt
<1>4. ASSUME NEW kind, Settle(kind) PROVE Shorter
  <2>1. pc' = "idle"
    BY <1>4 DEF Settle, Return, Goto
  <2> QED BY <1>3, <2>1, EndShortens DEF Shorter
<1>5. ASSUME NEW r \in StageRequests, Stage(r), why' = why, Place(r) < Place(req) PROVE Shorter
  <2>1. Place(r) \in 0..6 /\ Place(req) \in 0..6 /\ Base(why) \in {1, 25}
    BY <1>3, Places DEF Base
  <2>2. try' = try
    BY <1>5 DEF Stage
  <2> QED BY <1>3, <1>5, <2>1, <2>2, OnShortens DEF Shorter
<1>6. ASSUME req # Last, WithoutStages(why) PROVE Shorter
  <2>1. CASE try' = try
    BY <1>1, <1>3, <1>6, <2>1, WithoutShortens
  <2>2. CASE \E kind : Settle(kind)
    BY <1>4, <2>2
  <2> QED BY <1>6, <2>1, <2>2 DEF WithoutStages, Ask, Stage
<1>7. CASE SkeletonAnswered
  <2>1. req = Skeleton(n) /\ req # Last /\ n \in {0, 1}
    BY <1>2, <1>3, <1>7 DEF Skeleton, Last, Boxes, StageRequests
  <2>2. CASE Stage(Conditions(n)) /\ why' = why
    <3>1. Conditions(n) \in StageRequests /\ Place(Conditions(n)) < Place(req)
      BY <2>1, Places DEF Conditions, StageRequests
    <3> QED BY <1>5, <2>2, <3>1
  <2> QED BY <1>2, <1>6, <1>7, <2>1, <2>2 DEF SkeletonAnswered, Conditions
<1>8. CASE ConditionsAnswered
  <2>1. req = Conditions(n) /\ req # Last /\ n \in {0, 1}
    BY <1>2, <1>3, <1>8 DEF Conditions, Last, Boxes, StageRequests
  <2>2. CASE Stage(Boxes(n)) /\ why' = why
    <3>1. Boxes(n) \in StageRequests /\ Place(Boxes(n)) < Place(req)
      BY <2>1, Places DEF Boxes, StageRequests
    <3> QED BY <1>5, <2>2, <3>1
  <2>3. CASE Retry(n)
    <3>1. CASE try' = try
      BY <1>1, <2>1, <2>3, <3>1, RetryShortens
    <3>2. CASE WithoutStages(why)
      BY <1>6, <2>1, <3>2
    <3> QED BY <2>3, <3>1, <3>2 DEF Retry, Stage
  <2> QED BY <1>2, <1>4, <1>6, <1>8, <2>1, <2>2, <2>3
          DEF ConditionsAnswered, WithStages, Boxes
<1>9. CASE BoxesAnswered
  <2>1. req = Boxes(n)
    BY <1>2, <1>9
  <2>2. CASE n # 2 /\ Retry(n)
    <3>1. n \in {0, 1} /\ req # Last
      BY <2>1, <2>2 DEF Boxes, Last
    <3>2. CASE try' = try
      BY <1>1, <2>1, <2>2, <3>1, <3>2, RetryShortens
    <3>3. CASE WithoutStages(why)
      BY <1>6, <3>1, <3>3
    <3> QED BY <2>2, <3>2, <3>3 DEF Retry, Stage
  <2> QED BY <1>2, <1>4, <1>9, <2>2 DEF BoxesAnswered, WithStages
<1> QED BY <1>7, <1>8, <1>9

(* call_model_chunk_drs comes to an end: every step of a call, whatever the  *)
(* endpoint and the caches answer, brings it closer to its return.  A call   *)
(* takes 55 steps at most.                                                   *)
THEOREM Shortens == Spec => CallShortens
<1>1. Inv /\ Inv' /\ [Next]_vars => [pc # "idle" => Left' \in Nat /\ Left' < Left]_vars
  <2> SUFFICES ASSUME Inv, Inv', Next, pc # "idle" PROVE Shorter
    BY DEF Shorter
  <2>1. TypeOK'
    BY DEF Inv
  <2>2. ASSUME NEW o, Complete(o) PROVE Shorter
    BY <2>1, <2>2, CompleteShortens
  <2>3. CASE \/ CompactRejected \/ CompactMigrated \/ CompactCopied \/ CompactHit \/ CompactAsk
             \/ CompactRefused \/ CompactFailed \/ CompactInvalid \/ CompactAnswered
    <3>1. InCompact
      BY <2>3 DEF InCompact, CompactRejected, CompactMigrated, CompactCopied, CompactHit,
                  CompactAsk, CompactRefused, CompactFailed, CompactInvalid, CompactAnswered
    <3> QED BY <2>1, <2>3, <3>1, CompactShortens
  <2>4. CASE MonoHit \/ MonoSalvaged \/ MonoMiss \/ MonoRefused \/ MonoAnswered
    BY <2>1, <2>4, MonoShortens
  <2>5. CASE StageHit \/ StageMiss
    BY <2>1, <2>5, StageHitShortens
  <2>6. CASE SkeletonAnswered \/ ConditionsAnswered \/ BoxesAnswered
    BY <2>1, <2>6, StagesShorten
  <2>7. CASE Crash
    <3>1. pc' = "idle"
      BY <2>7 DEF Crash, Return, Goto
    <3> QED BY <3>1, Positive, EndShortens DEF Shorter
  <2> QED BY <2>2, <2>3, <2>4, <2>5, <2>6, <2>7 DEF Next, CallStep, Begin
<1> QED BY <1>1, Invariants, PTL DEF Spec, CallShortens
=============================================================================
