--------------------------- MODULE QueryCallsProofs ---------------------------
(* Proofs about QueryCalls, for all modes and any number of calls.           *)
(*                                                                           *)
(* The caches only gain (Monotone), and what they answer is what was         *)
(* answered before (Caches, InHand).  So the requests of a call without      *)
(* failures are free for the next one, which takes the same way through      *)
(* them: the retries it needs are those after invalid plans, with the same   *)
(* feedback (CleanPath, AllFree, FreePath).                                  *)
EXTENDS QueryCalls, SequenceTheorems, TLAPS

(* The requests are told apart by their first component. *)
LEMMA Names ==
  /\ Compact[1] = "compact" /\ Main[1] = "evidence" /\ Repair[1] = "repair"
  /\ \A f : Full(f)[1] = "full" /\ Full(f)[2] = f
  /\ \A c : Single(c)[1] = c
  /\ Compact \in Requests /\ Main \in Requests /\ Repair \in Requests
  /\ \A f \in Feedback : Full(f) \in Requests
  /\ \A c \in SingleCalls : Single(c) \in Requests
BY DEF Compact, Main, Repair, Full, Single, Requests

LEMMA FullIsFull ==
  ASSUME NEW r \in Requests, r[1] = "full"
  PROVE  r[2] \in Feedback /\ r = Full(r[2])
<1>1. r \in {Full(f) : f \in Feedback}
  BY DEF Requests, Compact, Main, Repair, Single, SingleCalls
<1> QED BY <1>1 DEF Full

LEMMA Kinds ==
  ASSUME NEW r \in Requests
  PROVE  \/ r = Compact \/ r = Main \/ r = Repair \/ r[1] = "full"
         \/ \E c \in SingleCalls : r = Single(c)
BY DEF Requests, Full

LEMMA Feedbacks ==
  /\ <<>> \in Feedback
  /\ \A f \in Feedback : f \in Seq(Retryable) /\ Len(f) \in 0..Retries
  /\ \A f \in Feedback, o \in Retryable : Len(f) < Retries => Append(f, o) \in Feedback
<1>1. \A f : f \in Feedback <=> \E n \in 0..2 : f \in [1..n -> Retryable]
  BY DEF Feedback, Retries
<1>2. ASSUME NEW f \in Seq(Retryable), Len(f) \in 0..2 PROVE f \in Feedback
  BY <1>1, <1>2, LenProperties
<1>3. ASSUME NEW f \in Feedback PROVE f \in Seq(Retryable) /\ Len(f) \in 0..2
  <2>1. PICK n \in 0..2 : f \in [1..n -> Retryable]
    BY <1>1
  <2>2. f \in Seq(Retryable)
    BY <2>1, SeqDef
  <2>3. DOMAIN f = 1..n /\ DOMAIN f = 1..Len(f) /\ Len(f) \in Nat
    BY <2>1, <2>2, LenProperties
  <2> QED BY <2>2, <2>3
<1>4. ASSUME NEW f \in Feedback, NEW o \in Retryable, Len(f) < Retries
      PROVE  Append(f, o) \in Feedback
  <2>1. Append(f, o) \in Seq(Retryable) /\ Len(Append(f, o)) = Len(f) + 1
    BY <1>3, AppendProperties
  <2>2. Len(Append(f, o)) \in 0..2
    BY <1>3, <1>4, <2>1 DEF Retries
  <2> QED BY <1>2, <2>1, <2>2
<1>5. <<>> \in [1..0 -> Retryable] /\ 0 \in 0..2
  OBVIOUS
<1>6. <<>> \in Feedback
  BY <1>1, <1>5
<1>7. \A f \in Feedback : f \in Seq(Retryable) /\ Len(f) \in 0..Retries
  BY <1>3 DEF Retries
<1> QED BY <1>4, <1>6, <1>7

(* What is stored, returned and answered, request by request. *)
LEMMA Tables ==
  ASSUME NEW r \in Requests
  PROVE  /\ Settled(Main) = Plans \cup {"exhausted", "ungrounded"}
         /\ r # Main => Settled(r) = Plans \cup {"exhausted"}
         /\ Answers(Compact) = {"invalid"} \cup Plans
         /\ r[1] = "full" => Answers(r) = {"invalid", "accepted"}
         /\ r \in {Main, Repair} => Answers(r) = {"ungrounded", "accepted"}
         /\ \A c \in SingleCalls : Answers(Single(c)) \subseteq {"ungrounded", "accepted"}
         /\ \A c \in SingleCalls : \A o : Stored(Single(c), o) => o = "accepted"
         /\ \A o \in AllAnswers : r = Compact \/ r[1] = "full" \/ r \in {Main, Repair} => Stored(r, o)
         /\ Answers(r) \subseteq AllAnswers
<1>1. /\ Main[1] # "full" /\ Repair[1] # "full" /\ Compact # Main /\ Compact # Repair /\ Main # Repair
      /\ \A c \in SingleCalls : Single(c) \notin {Compact, Main, Repair} /\ Single(c)[1] # "full"
      /\ Compact[1] # "full"
  BY Names DEF SingleCalls
<1>2. /\ Settled(Main) = Plans \cup {"exhausted", "ungrounded"}
      /\ r # Main => Settled(r) = Plans \cup {"exhausted"}
  BY DEF Settled
<1>3. /\ Answers(Compact) = {"invalid"} \cup Plans
      /\ r[1] = "full" => Answers(r) = {"invalid", "accepted"}
  <2>a. Judged \subseteq SingleCalls
    BY DEF Judged, SingleCalls
  <2>1. Answers(Compact) = {"invalid"} \cup Plans
    <3>1. /\ Compact[1] # "full" /\ Compact \notin {Main, Repair} \cup {Single(x) : x \in Judged}
      BY <1>1, <2>a
    <3> QED BY <3>1 DEF Answers
  <2>2. r[1] = "full" => /\ r # Compact
                         /\ r \notin {Main, Repair} \cup {Single(x) : x \in Judged}
    BY <1>1, <2>a
  <2>3. r[1] = "full" => Answers(r) = {"invalid", "accepted"}
    BY <2>2 DEF Answers
  <2> QED BY <2>1, <2>3
<1>4. r \in {Main, Repair} => Answers(r) = {"ungrounded", "accepted"}
  <2>1. CASE r \in {Main, Repair}
    <3>1. r # Compact /\ r[1] # "full" /\ r \in {Main, Repair} \cup {Single(x) : x \in Judged}
      BY <1>1, <2>1
    <3> QED BY <3>1 DEF Answers
  <2> QED BY <2>1
<1>5. ASSUME NEW c \in SingleCalls PROVE Answers(Single(c)) \subseteq {"ungrounded", "accepted"}
  <2>1. Single(c) # Compact /\ Single(c)[1] # "full"
    BY <1>1
  <2>2. CASE Single(c) \in {Main, Repair} \cup {Single(x) : x \in Judged}
    BY <2>1, <2>2 DEF Answers
  <2>3. CASE Single(c) \notin {Main, Repair} \cup {Single(x) : x \in Judged}
    BY <2>1, <2>3 DEF Answers
  <2> QED BY <2>2, <2>3
<1>6. \A c \in SingleCalls : \A o : Stored(Single(c), o) => o = "accepted"
  BY <1>1 DEF Stored
<1>7. \A o \in AllAnswers : r = Compact \/ r[1] = "full" \/ r \in {Main, Repair} => Stored(r, o)
  BY <1>1 DEF Stored, AllAnswers, Plans
<1>8. Answers(r) \subseteq AllAnswers
  BY <1>3, <1>4, <1>5, Kinds DEF AllAnswers, Plans
<1> QED BY <1>2, <1>3, <1>4, <1>5, <1>6, <1>7, <1>8
-----------------------------------------------------------------------------
(* The invariant.  A request is free when the caches answer it.             *)
Free(r) == entry[r] \in Settled(r) \/ heard[r] # "none"

Caches ==
  /\ \A r \in Requests : heard[r] \in {"none"} \cup Answers(r)
  /\ \A c \in SingleCalls : entry[Single(c)] \in {"none", "accepted"}
  /\ entry[Compact] \in Settled(Compact) /\ heard[Compact] # "none" => entry[Compact] = heard[Compact]

(* What the call has in hand: an answer that is heard, a failure that it     *)
(* asked for itself, or an entry.                                            *)
Failing == got \in Failures /\ asked # 0 /\ ~clean
Heard == got \in Answers(req) /\ heard[req] = got
InHand ==
  /\ pc \in {"request", "answer"} => entry[req] \notin Settled(req)
  /\ pc = "answer" => Heard \/ (Failing /\ heard[req] = "none")
  /\ pc = "got" =>
       \/ Failing
       \/ Heard /\ (got \notin Plans => entry[req] \notin Settled(req))
       \/ got = entry[req] /\ got \in Settled(req) /\ req # Main
  /\ pc = "judged" => req = Main /\ got = entry[Main] /\ got \in Settled(Main)

Turn ==
  pc # "idle" =>
    /\ req = Compact => mode.call = "plan" /\ mode.compact
    /\ req[1] = "full" => mode.call = "plan"
    /\ req \in {Main, Repair} => mode.call = "evidence"
    /\ \A c \in SingleCalls : req = Single(c) => mode.call = c

(* An accepted plan stays at hand while the full extraction runs. *)
PlanInHand ==
  /\ pc = "idle" => ~thin
  /\ pc # "idle" /\ found => req[1] = "full" /\ thin

(* The requests of a call that gets an answer to each, and where it may end.*)
Full0 == Full(<<>>)
Full1 == Full(Append(<<>>, "invalid"))
Full2 == Full(Append(Append(<<>>, "invalid"), "invalid"))

Final(r) == entry[r] \in Settled(r) \/ heard[r] = "accepted"
CompactFinal ==
  \/ entry[Compact] \in Settled(Compact) /\ Enough(entry[Compact])
  \/ Enough(heard[Compact])
FullFree == Free(Full0) /\ (Final(Full0) \/ (Free(Full1) /\ (Final(Full1) \/ Free(Full2))))
AllFree ==
  /\ mode.call = "evidence" => Final(Main)
  /\ mode.call = "plan" => /\ mode.compact => Free(Compact)
                           /\ (mode.compact /\ CompactFinal) \/ FullFree
  /\ mode.call \in SingleCalls => Free(Single(mode.call))

CleanPath ==
  clean /\ pc # "idle" /\ req[1] = "full" =>
    /\ req \in {Full0, Full1, Full2}
    /\ mode.compact => Free(Compact)
    /\ req \in {Full1, Full2} => Free(Full0)
    /\ req = Full2 => Free(Full1)

FreePath ==
  pc # "idle" =>
    /\ req # Repair
    /\ req[1] = "full" => /\ req \in {Full0, Full1, Full2}
                          /\ mode.compact => ~CompactFinal
                          /\ req \in {Full1, Full2} => ~Final(Full0)
                          /\ req = Full2 => ~Final(Full1)

Settling ==
  /\ CleanPath
  /\ pc = "idle" /\ clean /\ result # "none" => AllFree
  /\ settled => AllFree /\ asked = 0 /\ FreePath

IInv == TypeOK /\ Caches /\ InHand /\ Turn /\ PlanInHand /\ PlanIsFound /\ ServedIsSettled /\ Settling
-----------------------------------------------------------------------------
LEMMA Paths ==
  /\ {Full0, Full1, Full2} \subseteq Requests
  /\ Full0[1] = "full" /\ Full1[1] = "full" /\ Full2[1] = "full"
  /\ Len(Full0[2]) < Retries /\ Len(Full1[2]) < Retries /\ Len(Full2[2]) = Retries
  /\ Full1 = Full(Append(Full0[2], "invalid")) /\ Full2 = Full(Append(Full1[2], "invalid"))
<1> DEFINE f1 == Append(<<>>, "invalid")
           f2 == Append(f1, "invalid")
<1>1. <<>> \in Feedback /\ Len(<<>>) = 0 /\ Retries = 2 /\ "invalid" \in Retryable
  BY Feedbacks DEF Retries, Retryable
<1>2. <<>> \in Seq(Retryable)
  BY Feedbacks, <1>1
<1>3. f1 \in Feedback /\ f1 \in Seq(Retryable) /\ Len(f1) = 1
  <2>1. Len(f1) = 1
    BY <1>1, <1>2, AppendProperties
  <2>2. f1 \in Feedback
    <3>1. Len(<<>>) < Retries
      BY <1>1
    <3> QED BY <1>1, <3>1, Feedbacks
  <2> QED BY <2>1, <2>2, Feedbacks
<1>4. f2 \in Feedback /\ Len(f2) = 2
  <2>1. Len(f2) = 2
    BY <1>1, <1>3, AppendProperties
  <2>2. f2 \in Feedback
    BY <1>1, <1>3, Feedbacks
  <2> QED BY <2>1, <2>2
<1>5. Full0[2] = <<>> /\ Full1[2] = f1 /\ Full2[2] = f2
  BY Names DEF Full0, Full1, Full2
<1>6. {Full0, Full1, Full2} \subseteq Requests /\ Full0[1] = "full" /\ Full1[1] = "full" /\ Full2[1] = "full"
  BY <1>1, <1>3, <1>4, Names DEF Full0, Full1, Full2
<1>7. Full1 = Full(Append(Full0[2], "invalid")) /\ Full2 = Full(Append(Full1[2], "invalid"))
  BY <1>5 DEF Full1, Full2
<1> QED BY <1>1, <1>3, <1>4, <1>5, <1>6, <1>7

LEMMA Apart ==
  /\ Full0 # Full1 /\ Full0 # Full2 /\ Full1 # Full2
  /\ Compact # Main /\ Compact # Repair /\ Main # Repair
  /\ Compact[1] # "full" /\ Main[1] # "full" /\ Repair[1] # "full"
  /\ \A c \in SingleCalls : Single(c) \notin {Compact, Main, Repair} /\ Single(c)[1] # "full"
  /\ \A c, d \in SingleCalls : Single(c) = Single(d) => c = d
  /\ {"refused", "broken", "exhausted"} \cap AllAnswers = {}
  /\ "plan" \notin SingleCalls /\ "evidence" \notin SingleCalls
<1>1. Full0 # Full2 /\ Full1 # Full2
  BY Paths
<1>2. Full0 # Full1
  BY Paths, <1>1
<1>3. \A c \in SingleCalls : Single(c) \notin {Compact, Main, Repair} /\ Single(c)[1] # "full"
  BY Names DEF SingleCalls
<1>4. \A c, d \in SingleCalls : Single(c) = Single(d) => c = d
  BY Names
<1>5. /\ Compact # Main /\ Compact # Repair /\ Main # Repair
      /\ Compact[1] # "full" /\ Main[1] # "full" /\ Repair[1] # "full"
  BY Names
<1>6. /\ {"refused", "broken", "exhausted"} \cap AllAnswers = {}
      /\ "plan" \notin SingleCalls /\ "evidence" \notin SingleCalls
  BY DEF AllAnswers, Plans, SingleCalls
<1> QED BY <1>1, <1>2, <1>3, <1>4, <1>5, <1>6

LEMMA FirstRequest ==
  ASSUME mode \in AllModes
  PROVE  /\ First \in Requests
         /\ mode.call = "plan" => First = IF mode.compact THEN Compact ELSE Full0
         /\ mode.call = "evidence" => First = Main
         /\ mode.call \in SingleCalls => First = Single(mode.call)
         /\ mode.call \in {"plan", "evidence"} \/ mode.call \in SingleCalls
<1>1. mode.call \in {"plan", "evidence"} \/ mode.call \in SingleCalls
  BY DEF AllModes, Calls
<1>2. CASE mode.call = "plan"
  BY <1>2, Apart, Names, Paths DEF First, Full0
<1>3. CASE mode.call = "evidence"
  BY <1>3, Apart, Names DEF First
<1>4. CASE mode.call \in SingleCalls
  <2>1. mode.call # "plan" /\ mode.call # "evidence"
    BY <1>4, Apart
  <2>2. First = Single(mode.call)
    BY <2>1 DEF First
  <2> QED BY <1>4, <2>1, <2>2, Names
<1> QED BY <1>1, <1>2, <1>3, <1>4

USE QueryCallsAssumption
-----------------------------------------------------------------------------
LEMMA InitInv == Init => IInv
<1> SUFFICES ASSUME Init PROVE IInv
  OBVIOUS
<1>1. \A r \in Requests : entry[r] \in {"none", "stale"} /\ heard[r] = "none"
  BY DEF Init
<1>2. \A c \in SingleCalls : entry[Single(c)] = "none"
  <2> TAKE c \in SingleCalls
  <2>1. Single(c) \in Requests /\ Single(c) # Compact /\ Single(c) # Full(<<>>)
    BY Names, Apart
  <2> QED BY <2>1 DEF Init, Stale
<1>3. TypeOK
  <2>1. entry \in [Requests -> {"none", "stale"}] /\ heard \in [Requests -> {"none"}]
    BY DEF Init
  <2>2. entry \in [Requests -> Outcomes \cup {"stale"}] /\ heard \in [Requests -> {"none"} \cup AllAnswers]
    BY <2>1 DEF Outcomes
  <2>3. Main \in Requests /\ "none" \in Outcomes
    BY Names DEF Outcomes
  <2>4. /\ pc = "idle" /\ req = Main /\ got = "none" /\ result = "none"
        /\ thin = FALSE /\ found = FALSE /\ clean = FALSE /\ settled = FALSE
        /\ mode \in Modes /\ calls = 0 /\ asked = 0
    BY DEF Init
  <2>5. calls \in 0..MaxCalls /\ asked \in Nat
    BY <2>4
  <2> QED BY <2>2, <2>3, <2>4, <2>5 DEF TypeOK
<1>4. Caches
  BY <1>1, <1>2, Names DEF Caches
<1> QED BY <1>3, <1>4
  DEF Init, IInv, InHand, Turn, PlanInHand, PlanIsFound, ServedIsSettled, Returned, Settling, CleanPath

(* What holds of the caches holds as long as they do not change. *)
LEMMA Kept ==
  ASSUME UNCHANGED <<mode, entry, heard>>
  PROVE  /\ Caches => Caches'
         /\ AllFree' <=> AllFree
         /\ CompactFinal' <=> CompactFinal
         /\ \A r : (Free(r)' <=> Free(r)) /\ (Final(r)' <=> Final(r))
BY DEF Caches, AllFree, FullFree, CompactFinal, Free, Final, Enough

(* Types: what may be asked, answered and stored. *)
LEMMA Given ==
  ASSUME TypeOK, Caches, InHand, pc \in {"answer", "got", "judged"}
  PROVE  got \in Failures \cup AllAnswers
<1>1. req \in Requests
  BY DEF TypeOK
<1>2. Settled(req) \subseteq Failures \cup AllAnswers
  BY <1>1, Tables DEF Failures, AllAnswers, Plans
<1>3. Answers(req) \subseteq AllAnswers /\ Settled(Main) \subseteq Failures \cup AllAnswers
  BY <1>1, Tables DEF Failures, AllAnswers, Plans
<1> QED BY <1>2, <1>3 DEF InHand, Failing, Heard

LEMMA Sets ==
  /\ Failures \cup AllAnswers \subseteq Outcomes /\ "none" \in Outcomes
  /\ "thin" \in Outcomes /\ "refused" \in Outcomes
  /\ \A o : Repaired(o) \in {"accepted", "ungrounded"} /\ Repaired(o) \in AllAnswers
  /\ "none" \notin Failures \cup AllAnswers /\ Retryable \subseteq Failures \cup AllAnswers
  /\ Failures \cap AllAnswers = {}
BY DEF Outcomes, Failures, Refused, AllAnswers, Plans, Repaired, Retryable

LEMMA FullOutcome ==
  ASSUME TypeOK, FullDone
  PROVE  /\ req[2] \in Feedback /\ req = Full(req[2])
         /\ \/ got \notin Retryable /\ Return(got)
            \/ got \in Retryable /\ Len(req[2]) < Retries /\ Ask(Full(After(req[2], got)))
                 /\ UNCHANGED <<thin, result>>
            \/ got \in Retryable /\ Len(req[2]) = Retries /\ Return(FallBack(got))
<1>1. req[2] \in Feedback /\ req = Full(req[2]) /\ Len(req[2]) \in 0..Retries /\ Retries \in Nat
  BY FullIsFull, Feedbacks DEF FullDone, TypeOK, Retries
<1>2. CASE got \notin Retryable
  BY <1>1, <1>2 DEF FullDone
<1>3. CASE got \in Retryable /\ Len(req[2]) < Retries
  <2>1. Len(req[2]) # Retries
    BY <1>1, <1>3
  <2> QED BY <1>1, <1>3, <2>1 DEF FullDone
<1>4. CASE got \in Retryable /\ ~(Len(req[2]) < Retries)
  <2>1. Len(req[2]) = Retries
    BY <1>1, <1>4
  <2> QED BY <1>1, <1>4, <2>1 DEF FullDone
<1> QED BY <1>1, <1>2, <1>3, <1>4

LEMMA TypeStep == IInv /\ Next => TypeOK'
<1> SUFFICES ASSUME IInv, Next PROVE TypeOK'
  OBVIOUS
<1>a. TypeOK /\ Caches /\ InHand /\ mode \in AllModes
  BY DEF IInv, TypeOK
<1>b. pc \in {"answer", "got", "judged"} => got \in Outcomes /\ got \in Failures \cup AllAnswers
  BY <1>a, Given, Sets
<1>1. CASE Begin
  <2>1. calls' \in 0..MaxCalls
    BY <1>1, <1>a DEF Begin, TypeOK
  <2>2. req' \in Requests /\ got' \in Outcomes
    BY <1>1, <1>a, FirstRequest, Sets DEF Begin, Ask
  <2> QED BY <1>1, <1>a, <2>1, <2>2 DEF Begin, Ask, TypeOK
<1>2. CASE Hit
  <2>1. entry[req] \in Outcomes
    BY <1>2, <1>a, Tables DEF Hit, TypeOK, Outcomes, Failures, AllAnswers, Plans
  <2> QED BY <1>2, <1>a, <2>1 DEF Hit, TypeOK, ghosts
<1>3. CASE Miss
  BY <1>3, <1>a DEF Miss, TypeOK, ghosts
<1>4. ASSUME NEW o \in Failures \cup AllAnswers, Complete(o) PROVE TypeOK'
  <2>1. o \in Outcomes
    BY Sets
  <2>2. heard' \in [Requests -> {"none"} \cup AllAnswers] /\ asked' \in Nat
    BY <1>4, <1>a DEF Complete, Keep, TypeOK
  <2> QED BY <1>4, <1>a, <2>1, <2>2 DEF Complete, TypeOK
<1>5. CASE Store
  <2>1. entry' \in [Requests -> Outcomes \cup {"stale"}]
    BY <1>5, <1>a, <1>b DEF Store, TypeOK
  <2> QED BY <1>5, <1>a, <2>1 DEF Store, TypeOK, ghosts
<1>6. CASE CompactDone
  <2>1. Full(<<>>) \in Requests /\ Main \in Requests
    BY Names, Feedbacks
  <2>2. got \in Outcomes /\ "none" \in Outcomes
    BY <1>6, <1>b, Sets DEF CompactDone
  <2> QED BY <1>6, <1>a, <2>1, <2>2 DEF CompactDone, TypeOK, Return, Ask
<1>7. CASE FullDone
  <2>1. req[2] \in Feedback
    BY <1>7, <1>a, FullOutcome
  <2>2. got \in Retryable /\ Len(req[2]) < Retries => Full(After(req[2], got)) \in Requests
    BY <2>1, Feedbacks, Names DEF After
  <2>3. got \in Outcomes /\ "none" \in Outcomes /\ FallBack(got) \in Outcomes /\ Main \in Requests
    BY <1>7, <1>b, Sets, Names DEF FullDone, FallBack
  <2>4. \/ got \notin Retryable /\ Return(got)
        \/ got \in Retryable /\ Len(req[2]) < Retries /\ Ask(Full(After(req[2], got)))
             /\ UNCHANGED <<thin, result>>
        \/ got \in Retryable /\ Len(req[2]) = Retries /\ Return(FallBack(got))
    BY <1>7, <1>a, FullOutcome
  <2>5. found' \in BOOLEAN /\ UNCHANGED <<mode, entry, heard, calls, asked, clean, settled>>
    BY <1>7, <1>a DEF FullDone, TypeOK
  <2> QED BY <1>a, <2>2, <2>3, <2>4, <2>5 DEF TypeOK, Return, Ask
<1>8. CASE MainDone
  <2>1. got \in Outcomes /\ "none" \in Outcomes /\ "refused" \in Outcomes
    BY <1>8, <1>b, Sets DEF MainDone
  <2> QED BY <1>8, <1>a, <2>1, Names DEF MainDone, TypeOK, Return, Ask, ghosts
<1>9. CASE MainHit
  <2>1. got \in Outcomes /\ "none" \in Outcomes
    BY <1>9, <1>b, Sets DEF MainHit
  <2> QED BY <1>9, <1>a, <2>1, Names DEF MainHit, TypeOK, Return, ghosts
<1>10. CASE RepairDone
  <2>1. Repaired(got) \in Outcomes /\ "none" \in Outcomes
    BY Sets
  <2>2. entry' \in [Requests -> Outcomes \cup {"stale"}]
    BY <1>10, <1>a, <2>1 DEF RepairDone, TypeOK
  <2> QED BY <1>10, <1>a, <2>1, <2>2, Names DEF RepairDone, TypeOK, Return, ghosts
<1>11. ASSUME NEW c \in SingleCalls, SingleDone(c) PROVE TypeOK'
  <2>1. got \in Outcomes /\ "none" \in Outcomes /\ "refused" \in Outcomes
    BY <1>11, <1>b, Sets DEF SingleDone
  <2> QED BY <1>11, <1>a, <2>1, Names DEF SingleDone, TypeOK, Return, ghosts
<1>12. CASE Crash
  BY <1>12, <1>a, Names, Sets DEF Crash, TypeOK, Return, ghosts
<1> QED
  BY <1>1, <1>2, <1>3, <1>4, <1>5, <1>6, <1>7, <1>8, <1>9, <1>10, <1>11, <1>12
  DEF Next, CallStep, Expansion, Fallback, Verification, Canonical, SourceResolved, Identity, SingleCalls

LEMMA CachesStep == IInv /\ Next => Caches'
<1> SUFFICES ASSUME IInv, Next PROVE Caches'
  OBVIOUS
<1>a. TypeOK /\ Caches /\ InHand
  BY DEF IInv
<1>1. ASSUME NEW o, Complete(o) PROVE Caches'
  <2>1. CASE UNCHANGED heard
    BY <1>1, <1>a, <2>1, Kept DEF Complete
  <2>2. CASE heard[req] = "none" /\ o \in AllAnswers /\ heard' = [heard EXCEPT ![req] = o]
    <3>1. o \in Answers(req)
      BY <1>1, <2>2, Sets DEF Complete
    <3>2. \A r \in Requests : heard'[r] \in {"none"} \cup Answers(r)
      BY <1>a, <2>2, <3>1 DEF Caches, TypeOK
    <3>3. entry[req] \notin Settled(req) /\ entry' = entry
      BY <1>1, <1>a DEF Complete, InHand
    <3>4. entry[Compact] \in Settled(Compact) => heard'[Compact] = heard[Compact]
      BY <1>a, <2>2, <3>3 DEF TypeOK
    <3> QED BY <1>a, <3>2, <3>3, <3>4 DEF Caches
  <2> QED BY <1>1, <2>1, <2>2, <1>a DEF Complete, Keep, TypeOK
<1>2. CASE Store
  <2>1. entry' = entry \/ (entry' = [entry EXCEPT ![req] = got] /\ Stored(req, got))
    BY <1>2 DEF Store
  <2>2. heard' = heard /\ req \in Requests /\ entry \in [Requests -> Outcomes \cup {"stale"}]
    BY <1>2, <1>a DEF Store, TypeOK
  <2>3. \A c \in SingleCalls : entry'[Single(c)] \in {"none", "accepted"}
    <3> TAKE c \in SingleCalls
    <3>1. Single(c) = req /\ Stored(req, got) => got = "accepted"
      BY Tables, <2>2
    <3>2. entry[Single(c)] \in {"none", "accepted"} /\ Single(c) \in Requests
      BY <1>a, Names DEF Caches
    <3>3. entry'[Single(c)] = entry[Single(c)] \/ (Single(c) = req /\ entry'[req] = got /\ Stored(req, got))
      BY <2>1, <2>2, <3>2
    <3> QED BY <3>1, <3>2, <3>3
  <2>4. entry'[Compact] \in Settled(Compact) /\ heard'[Compact] # "none" => entry'[Compact] = heard'[Compact]
    <3>1. req = Compact /\ heard[Compact] # "none" => heard[Compact] = got
      BY <1>2, <1>a DEF InHand, Heard, Store
    <3>2. CASE req = Compact
      <4>1. entry'[Compact] \in {entry[Compact], got} /\ entry[Compact] \notin Settled(Compact)
        BY <1>2, <1>a, <2>1, <2>2, <3>2 DEF InHand, Store
      <4> QED BY <2>2, <3>1, <3>2, <4>1
    <3>3. CASE req # Compact
      <4>1. entry'[Compact] = entry[Compact]
        BY <2>1, <2>2, <3>3, Names
      <4> QED BY <2>2, <4>1, <1>a DEF Caches
    <3> QED BY <3>2, <3>3
  <2> QED BY <1>a, <2>2, <2>3, <2>4 DEF Caches
<1>3. CASE RepairDone
  <2>1. entry' = [entry EXCEPT ![Main] = Repaired(got)] /\ heard' = heard
    BY <1>3 DEF RepairDone
  <2>2. \A r \in Requests \ {Main} : entry'[r] = entry[r]
    BY <2>1, <1>a DEF TypeOK
  <2>3. Compact \in Requests \ {Main} /\ \A c \in SingleCalls : Single(c) \in Requests \ {Main}
    BY Apart, Names
  <2> QED BY <1>a, <2>1, <2>2, <2>3 DEF Caches
<1>4. CASE UNCHANGED <<mode, entry, heard>>
  BY <1>4, <1>a, Kept
<1> QED
  BY <1>1, <1>2, <1>3, <1>4
  DEF Next, Begin, CallStep, Hit, Miss, CompactDone, FullDone, MainDone, MainHit, Crash, Expansion, Fallback,
      Verification, Canonical, SourceResolved, Identity, SingleDone

(* Where a call may go from an outcome. *)
LEMMA InHandStep == IInv /\ Next => InHand'
<1> SUFFICES ASSUME IInv, Next PROVE InHand'
  OBVIOUS
<1>a. TypeOK /\ Caches /\ InHand
  BY DEF IInv
<1>1. CASE pc' \in {"idle", "lookup"}
  BY <1>1 DEF InHand
<1>2. CASE Hit
  <2>1. got' = entry[req] /\ got' \in Settled(req) /\ UNCHANGED <<req, entry>>
        /\ pc' = IF req = Main THEN "judged" ELSE "got"
    BY <1>2 DEF Hit
  <2>2. CASE req = Main
    BY <2>1, <2>2 DEF InHand
  <2>3. CASE req # Main
    BY <2>1, <2>3 DEF InHand
  <2> QED BY <2>2, <2>3
<1>3. CASE Miss
  BY <1>3 DEF Miss, InHand
<1>4. ASSUME NEW o, Complete(o) PROVE InHand'
  <2>1. pc' = "answer" /\ got' = o /\ UNCHANGED <<req, entry>> /\ entry[req] \notin Settled(req)
    BY <1>4, <1>a DEF Complete, InHand
  <2>2. CASE heard[req] # "none"
    <3>1. heard' = heard /\ o = heard[req] /\ o \in Answers(req)
      BY <1>4, <1>a, <2>2 DEF Complete, Caches, TypeOK
    <3> QED BY <2>1, <3>1 DEF InHand, Heard
  <2>3. CASE heard[req] = "none" /\ o \in Failures
    <3>1. Keep(req, o) /\ asked' = asked + 1 /\ clean' = (clean /\ o \notin Failures)
      BY <1>4, <2>3 DEF Complete
    <3>2. heard' = heard
      BY <2>3, <3>1, Sets DEF Keep
    <3>3. asked' # 0
      BY <3>1, <1>a DEF TypeOK
    <3>4. ~clean'
      BY <2>3, <3>1
    <3> QED BY <2>1, <2>3, <3>2, <3>3, <3>4 DEF InHand, Failing
  <2>4. CASE heard[req] = "none" /\ o \notin Failures
    <3>1. o \in Answers(req) /\ o \in AllAnswers
      BY <1>4, <1>a, <2>4, Tables DEF Complete, TypeOK
    <3>2. heard'[req] = o
      BY <1>4, <1>a, <2>4, <3>1 DEF Complete, Keep, TypeOK
    <3> QED BY <2>1, <3>1, <3>2 DEF InHand, Heard
  <2> QED BY <2>2, <2>3, <2>4
<1>5. CASE Store
  <2>1. pc' = "got" /\ UNCHANGED <<req, got, heard, asked, clean>>
    BY <1>5 DEF Store, ghosts
  <2>2. CASE Failing
    BY <2>1, <2>2 DEF InHand, Failing
  <2>3. CASE Heard
    <3>1. entry[req] \notin Settled(req)
      BY <1>5, <1>a DEF Store, InHand
    <3>2. got \notin Plans => entry'[req] \notin Settled(req)
      <4>1. CASE req = Main /\ got = "ungrounded"
        BY <1>5, <3>1, <4>1 DEF Store
      <4>2. CASE got \notin Plans /\ ~(req = Main /\ got = "ungrounded")
        <5>1. got \in Answers(req) /\ req \in Requests /\ (req = Main => got # "ungrounded")
          BY <1>a, <2>3, <4>2 DEF Heard, TypeOK
        <5>2. got \notin Settled(req)
          BY <4>2, <5>1, Tables DEF Plans, AllAnswers
        <5>3. entry'[req] \in {entry[req], got}
          BY <1>5, <1>a DEF Store, TypeOK
        <5> QED BY <3>1, <5>2, <5>3
      <4> QED BY <4>1, <4>2
    <3> QED BY <2>1, <2>3, <3>1, <3>2 DEF InHand, Heard
  <2> QED BY <2>2, <2>3, <1>5, <1>a DEF Store, InHand
<1>6. CASE FullDone
  BY <1>1, <1>6, <1>a, FullOutcome DEF Return, Ask
<1>7. CASE Begin \/ CompactDone \/ MainDone \/ MainHit \/ RepairDone \/ Crash
  BY <1>1, <1>7 DEF Begin, CompactDone, MainDone, MainHit, RepairDone, Crash, Return, Ask
<1>8. ASSUME NEW c, SingleDone(c) PROVE InHand'
  BY <1>1, <1>8 DEF SingleDone, Return
<1> QED
  BY <1>2, <1>3, <1>4, <1>5, <1>6, <1>7, <1>8
  DEF Next, CallStep, Expansion, Fallback, Verification, Canonical, SourceResolved, Identity

LEMMA TurnStep == IInv /\ Next => Turn'
<1> SUFFICES ASSUME IInv, Next PROVE Turn'
  OBVIOUS
<1>a. TypeOK /\ Turn /\ mode \in AllModes
  BY DEF IInv, TypeOK
<1>1. CASE pc' = "idle"
  BY <1>1 DEF Turn
<1>2. CASE UNCHANGED <<req, mode>> /\ pc # "idle"
  BY <1>2, <1>a DEF Turn
<1>3. CASE Begin
  <2>1. mode' = mode /\ req' = First
    BY <1>3 DEF Begin, Ask
  <2>2. CASE mode.call = "plan"
    <3>1. First = IF mode.compact THEN Compact ELSE Full0
      BY <2>2, <1>a, FirstRequest
    <3> QED BY <2>1, <2>2, <3>1, Apart, Paths DEF Turn
  <2>3. CASE mode.call = "evidence"
    BY <2>1, <2>3, <1>a, FirstRequest, Apart DEF Turn
  <2>4. CASE mode.call \in SingleCalls
    BY <2>1, <2>4, <1>a, FirstRequest, Apart DEF Turn
  <2> QED BY <2>2, <2>3, <2>4, <1>a, FirstRequest
<1>4. CASE mode' = mode /\ mode.call = "plan" /\ req'[1] = "full"
  BY <1>4, Apart DEF Turn
<1>5. CASE MainDone
  <2>1. mode.call = "evidence" /\ mode' = mode
    BY <1>5, <1>a DEF MainDone, Turn
  <2> QED BY <1>1, <1>5, <2>1, Apart DEF MainDone, Ask, Return, Turn
<1>6. CASE CompactDone
  <2>1. mode.call = "plan" /\ mode' = mode /\ Full(<<>>)[1] = "full"
    BY <1>6, <1>a, Names DEF CompactDone, Turn
  <2> QED BY <1>1, <1>4, <1>6, <2>1 DEF CompactDone, Ask, Return
<1>7. CASE FullDone
  <2>1. mode.call = "plan" /\ mode' = mode /\ \A f : Full(f)[1] = "full"
    BY <1>7, <1>a, Names DEF FullDone, Turn
  <2>2. pc' = "idle" \/ req'[1] = "full"
    BY <1>7, <1>a, <2>1, FullOutcome DEF Ask, Return
  <2> QED BY <1>1, <1>4, <2>1, <2>2
<1> QED
  BY <1>1, <1>2, <1>3, <1>5, <1>6, <1>7
  DEF Next, CallStep, Hit, Miss, Complete, Store, Return, MainHit, RepairDone, Crash, Expansion, Fallback,
      Verification, Canonical, SourceResolved, Identity, SingleDone

LEMMA PlanStep == IInv /\ Next => PlanInHand' /\ PlanIsFound'
<1> SUFFICES ASSUME IInv, Next PROVE PlanInHand' /\ PlanIsFound'
  OBVIOUS
<1>a. TypeOK /\ Caches /\ InHand /\ PlanInHand
  BY DEF IInv
<1>b. found \in BOOLEAN /\ thin \in BOOLEAN /\ req \in Requests
  BY <1>a DEF TypeOK
<1>1. CASE pc # "idle" /\ pc' # "idle" /\ UNCHANGED <<req, thin, found>>
  BY <1>1, <1>a DEF PlanInHand, PlanIsFound, Returned
<1>2. CASE Begin
  <2>1. pc' # "idle" /\ ~found'
    BY <1>2 DEF Begin, Ask
  <2> QED BY <2>1 DEF PlanInHand, PlanIsFound, Returned
<1>3. CASE CompactDone
  <2>1. ~found /\ found' = (found \/ got \in Plans)
    BY <1>3, <1>a, Names DEF CompactDone, PlanInHand
  <2>2. CASE Enough(got)
    <3>1. pc' = "idle" /\ ~thin' /\ result' = got /\ got \in Plans
      BY <1>3, <2>2 DEF CompactDone, Return, Enough, Plans
    <3> QED BY <3>1 DEF PlanInHand, PlanIsFound
  <2>3. CASE ~Enough(got)
    <3>1. pc' # "idle" /\ req' = Full(<<>>) /\ thin' = (got = "thin")
      BY <1>3, <2>3 DEF CompactDone, Ask
    <3>2. found' => got = "thin"
      BY <2>1, <2>3 DEF Plans, Enough
    <3> QED BY <3>1, <3>2, Names DEF PlanInHand, PlanIsFound, Returned
  <2> QED BY <2>2, <2>3
<1>4. CASE FullDone
  <2>1. found' = (found \/ got \in Plans) /\ (found => thin)
    BY <1>4, <1>a DEF FullDone, PlanInHand
  <2>2. CASE got \notin Retryable /\ Return(got)
    <3>1. got \in Plans \cup {"exhausted"}
      <4>1. got \in Failures \cup Answers(req) \cup Settled(req) /\ req[1] = "full" /\ req # Main
        BY <1>4, <1>a, Apart DEF FullDone, InHand, Failing, Heard
      <4> QED BY <2>2, <4>1, <1>b, Tables DEF Failures, Refused, Retryable, Plans
    <3>2. pc' = "idle" /\ ~thin' /\ result' = got
      BY <2>2 DEF Return
    <3> QED BY <3>1, <3>2 DEF PlanInHand, PlanIsFound
  <2>3. CASE got \in Retryable /\ Ask(Full(After(req[2], got))) /\ UNCHANGED <<thin, result>>
    <3>1. pc' # "idle" /\ req'[1] = "full" /\ thin' = thin
      BY <2>3, Names DEF Ask
    <3>2. found' => found
      BY <2>1, <2>3 DEF Retryable, Plans
    <3> QED BY <2>1, <3>1, <3>2 DEF PlanInHand, PlanIsFound, Returned
  <2>4. CASE got \in Retryable /\ Return(FallBack(got))
    <3>1. found' => found
      BY <2>1, <2>4 DEF Retryable, Plans
    <3>2. pc' = "idle" /\ ~thin' /\ result' = FallBack(got)
      BY <2>4 DEF Return
    <3> QED BY <2>1, <3>1, <3>2 DEF PlanInHand, PlanIsFound, FallBack, Plans
  <2> QED BY <1>4, <1>a, <2>2, <2>3, <2>4, FullOutcome
<1>5. CASE ~found' /\ (pc' = "idle" => ~thin')
  BY <1>5 DEF PlanInHand, PlanIsFound
<1>6. CASE MainDone \/ MainHit \/ RepairDone
  <2>1. ~found /\ found' = found
    BY <1>6, <1>a, Apart DEF MainDone, MainHit, RepairDone, InHand, PlanInHand, ghosts
  <2>2. pc' = "idle" => ~thin'
    BY <1>6 DEF MainDone, MainHit, RepairDone, Return, Ask
  <2> QED BY <1>5, <2>1, <2>2
<1>7. ASSUME NEW c \in SingleCalls, SingleDone(c) PROVE PlanInHand' /\ PlanIsFound'
  <2>1. ~found /\ found' = found
    BY <1>7, <1>a, Apart DEF SingleDone, PlanInHand, ghosts
  <2>2. ~thin'
    BY <1>7 DEF SingleDone, Return
  <2> QED BY <1>5, <2>1, <2>2
<1>8. CASE Crash
  BY <1>8 DEF Crash, Return, PlanInHand, PlanIsFound, Returned
<1>9. CASE Hit \/ Miss \/ Store \/ (\E o \in Failures \cup AllAnswers : Complete(o))
  BY <1>1, <1>9 DEF Hit, Miss, Store, Complete, ghosts
<1> QED
  BY <1>2, <1>3, <1>4, <1>6, <1>7, <1>8, <1>9
  DEF Next, CallStep, Expansion, Fallback, Verification, Canonical, SourceResolved, Identity, SingleCalls

LEMMA ServedStep == IInv /\ Next => ServedIsSettled'
<1> SUFFICES ASSUME IInv, Next, pc' = "idle", result' # "none", asked' = 0
             PROVE  result' \notin {"refused", "broken", "stale"}
  BY DEF ServedIsSettled, Returned
<1>a. TypeOK /\ Caches /\ InHand /\ req \in Requests
  BY DEF IInv, TypeOK
<1>b. asked' = asked /\ pc = "got" =>
        got \in Answers(req) \/ (got \in Settled(req) /\ req # Main /\ got = entry[req])
  BY <1>a DEF InHand, Failing, Heard
<1>c. \A o \in AllAnswers \cup {"exhausted"} : o \notin {"refused", "broken", "stale"}
  BY DEF AllAnswers, Plans
<1>d. asked' = asked /\ pc = "got" => got \in AllAnswers \cup {"exhausted"}
  BY <1>a, <1>b, Tables DEF AllAnswers
<1>1. CASE CompactDone
  BY <1>1, <1>c, <1>d DEF CompactDone, Return, Ask
<1>2. CASE FullDone
  <2>1. asked' = asked /\ pc = "got"
    BY <1>2 DEF FullDone
  <2>2. result' \in {got, "thin"}
    BY <1>2, <1>a, FullOutcome DEF Return, Ask, FallBack
  <2> QED BY <1>c, <1>d, <2>1, <2>2
<1>3. CASE MainDone
  <2>1. asked' = asked /\ pc = "got" /\ req = Main
    BY <1>3 DEF MainDone, ghosts
  <2>2. got \in AllAnswers
    BY <1>a, <1>b, <2>1, Tables
  <2>3. result' = got
    BY <1>3, <2>2, Sets DEF MainDone, Return, Ask
  <2> QED BY <1>c, <2>2, <2>3
<1>4. CASE MainHit
  <2>1. result' = got /\ got \in Settled(Main)
    BY <1>4, <1>a DEF MainHit, Return, InHand
  <2> QED BY <1>a, <2>1, Tables DEF Plans
<1>5. CASE RepairDone
  BY <1>5, <1>c, Sets DEF RepairDone, Return
<1>6. ASSUME NEW c \in SingleCalls, SingleDone(c) PROVE result' \notin {"refused", "broken", "stale"}
  <2>1. asked' = asked /\ pc = "got" /\ req = Single(c)
    BY <1>6 DEF SingleDone, ghosts
  <2>2. got = entry[req] /\ got \in Settled(req) => got = "accepted"
    <3>1. "none" \notin Settled(req) /\ entry[req] \in {"none", "accepted"}
      BY <1>a, <2>1, Apart, Tables DEF Caches, Plans
    <3> QED BY <3>1
  <2>3. got \in AllAnswers
    BY <1>a, <1>b, <2>1, <2>2, Tables DEF AllAnswers, Plans
  <2>4. result' = got
    BY <1>6, <2>3, Sets DEF SingleDone, Return
  <2> QED BY <1>c, <2>3, <2>4
<1>7. CASE Crash
  BY <1>7 DEF Crash, Return
<1> QED
  BY <1>1, <1>2, <1>3, <1>4, <1>5, <1>6, <1>7
  DEF Next, Begin, Ask, Hit, Miss, Store, Complete, CallStep, Expansion, Fallback, Verification, Canonical,
      SourceResolved, Identity, SingleCalls

(* The caches only gain, so what is free, or final, stays so. *)
LEMMA Monotone ==
  ASSUME IInv, Next
  PROVE  /\ mode' = mode
         /\ \A r \in Requests : (Free(r) => Free(r)') /\ (Final(r) => Final(r)')
         /\ CompactFinal => CompactFinal'
         /\ AllFree => AllFree'
<1>a. TypeOK /\ Caches /\ InHand /\ req \in Requests
  BY DEF IInv, TypeOK
<1>1. mode' = mode
  BY <1>a, FullOutcome
  DEF Next, Begin, CallStep, Hit, Miss, Store, Complete, CompactDone, FullDone, MainDone, MainHit, RepairDone, Crash,
      Expansion, Fallback, Verification, Canonical, SourceResolved, Identity, SingleDone
<1>2. \A r \in Requests :
        /\ entry[r] \in Settled(r) => entry'[r] \in Settled(r) /\ (r = Compact => entry'[r] = entry[r])
        /\ heard[r] # "none" => heard'[r] = heard[r]
  <2>1. ASSUME NEW o, Complete(o)
        PROVE  entry' = entry /\ \A r \in Requests : heard[r] # "none" => heard'[r] = heard[r]
    BY <2>1, <1>a DEF Complete, Keep, TypeOK
  <2>2. CASE Store
    <3>1. heard' = heard /\ entry[req] \notin Settled(req)
      BY <2>2, <1>a DEF Store, InHand
    <3>2. \A r \in Requests \ {req} : entry'[r] = entry[r]
      BY <2>2, <1>a DEF Store, TypeOK
    <3> QED BY <3>1, <3>2
  <2>3. CASE RepairDone
    <3>1. heard' = heard /\ \A r \in Requests \ {Main} : entry'[r] = entry[r]
      BY <2>3, <1>a DEF RepairDone, TypeOK
    <3>2. entry'[Main] \in Settled(Main)
      <4>1. entry'[Main] = Repaired(got)
        BY <2>3, <1>a, Names DEF RepairDone, TypeOK
      <4> QED BY <4>1, <1>a, Sets, Tables DEF Plans
    <3> QED BY <3>1, <3>2, Apart
  <2>4. CASE UNCHANGED <<entry, heard>>
    BY <2>4
  <2> QED
    BY <2>1, <2>2, <2>3, <2>4
    DEF Next, Begin, CallStep, Hit, Miss, CompactDone, FullDone, MainDone, MainHit, Crash, Expansion, Fallback,
        Verification, Canonical, SourceResolved, Identity, SingleDone
<1>3. \A r \in Requests : (Free(r) => Free(r)') /\ (Final(r) => Final(r)')
  BY <1>2 DEF Free, Final
<1>4. CompactFinal => CompactFinal'
  <2>1. Compact \in Requests /\ ~Enough("none")
    BY Names DEF Enough
  <2> QED BY <1>1, <1>2, <2>1 DEF CompactFinal, Enough
<1>5. AllFree => AllFree'
  <2>1. FullFree => FullFree'
    BY <1>3, Paths DEF FullFree
  <2>2. Main \in Requests /\ Compact \in Requests /\ \A c \in SingleCalls : Single(c) \in Requests
    BY Names
  <2> QED BY <1>1, <1>3, <1>4, <2>1, <2>2 DEF AllFree
<1> QED BY <1>1, <1>3, <1>4, <1>5

(* What was given in a call without failures is there for the next one.     *)
LEMMA CleanGot ==
  ASSUME IInv, clean \/ asked = 0, pc = "got"
  PROVE  /\ Free(req)
         /\ req[1] = "full" /\ got \notin Retryable => Final(req)
         /\ req[1] = "full" /\ got \in Retryable => got = "invalid" /\ ~Final(req)
         /\ req = Compact => (Enough(got) <=> CompactFinal)
         /\ req = Main => (got = "ungrounded" <=> ~Final(Main))
<1>a. TypeOK /\ Caches /\ InHand /\ req \in Requests
  BY DEF IInv, TypeOK
<1>1. \/ Heard /\ (got \notin Plans => entry[req] \notin Settled(req))
      \/ got = entry[req] /\ got \in Settled(req) /\ req # Main
  BY <1>a DEF InHand, Failing
<1>2. Free(req)
  <2>1. Heard => heard[req] # "none"
    BY <1>a, Tables, Sets DEF Heard
  <2> QED BY <1>1, <2>1 DEF Free
<1>3. req[1] = "full" => /\ got \notin Retryable => Final(req)
                         /\ got \in Retryable => got = "invalid" /\ ~Final(req)
  <2> SUFFICES ASSUME req[1] = "full"
               PROVE  /\ got \notin Retryable => Final(req)
                      /\ got \in Retryable => got = "invalid" /\ ~Final(req)
    OBVIOUS
  <2>1. Answers(req) = {"invalid", "accepted"} /\ Settled(req) = Plans \cup {"exhausted"}
    BY <1>a, Tables, Apart
  <2> QED BY <1>1, <2>1 DEF Heard, Final, Retryable, Plans
<1>4. req = Compact => (Enough(got) <=> CompactFinal)
  <2> SUFFICES ASSUME req = Compact PROVE Enough(got) <=> CompactFinal
    OBVIOUS
  <2>1. Settled(Compact) = Plans \cup {"exhausted"} /\ ~Enough("none")
    BY <1>a, Tables, Apart DEF Enough
  <2>2. CASE Heard /\ (got \notin Plans => entry[req] \notin Settled(req))
    <3>1. got = heard[Compact] /\ heard[Compact] # "none"
      BY <2>2, <1>a, Tables, Sets DEF Heard
    <3>2. entry[Compact] \in Settled(Compact) => entry[Compact] = got
      BY <3>1, <1>a DEF Caches
    <3> QED BY <3>1, <3>2 DEF CompactFinal, Enough
  <2>3. CASE got = entry[req] /\ got \in Settled(req)
    <3>1. heard[Compact] # "none" => heard[Compact] = got
      BY <2>3, <1>a DEF Caches
    <3> QED BY <2>1, <2>3, <3>1 DEF CompactFinal, Enough
  <2> QED BY <1>1, <2>2, <2>3
<1>5. req = Main => (got = "ungrounded" <=> ~Final(Main))
  <2> SUFFICES ASSUME req = Main PROVE got = "ungrounded" <=> ~Final(Main)
    OBVIOUS
  <2>1. Answers(Main) = {"ungrounded", "accepted"}
    BY <1>a, Tables
  <2> QED BY <1>1, <2>1 DEF Heard, Final, Plans
<1> QED BY <1>2, <1>3, <1>4, <1>5

LEMMA FreeRequest ==
  ASSUME IInv, settled, pc # "idle"
  PROVE  Free(req)
<1>a. TypeOK /\ Turn /\ AllFree /\ FreePath /\ req \in Requests
  BY DEF IInv, TypeOK, Settling
<1>1. CASE req = Compact
  BY <1>1, <1>a DEF Turn, AllFree
<1>2. CASE req = Main
  BY <1>2, <1>a DEF Turn, AllFree, Final, Free
<1>3. CASE req[1] = "full"
  <2>1. (mode.compact => ~CompactFinal) /\ mode.call = "plan"
    BY <1>3, <1>a DEF FreePath, Turn
  <2>2. FullFree
    BY <2>1, <1>a DEF AllFree
  <2> QED BY <1>3, <2>2, <1>a DEF FreePath, FullFree
<1>4. ASSUME NEW c \in SingleCalls, req = Single(c) PROVE Free(req)
  BY <1>4, <1>a DEF Turn, AllFree
<1> QED BY <1>a, <1>1, <1>2, <1>3, <1>4, Kinds DEF FreePath

LEMMA LastRetry ==
  ASSUME req \in {Full0, Full1, Full2}
  PROVE  Len(req[2]) < Retries <=> req # Full2
<1>1. Retries \in Nat /\ ~(Retries < Retries)
  BY DEF Retries
<1>2. CASE req = Full2
  BY <1>1, <1>2, Paths
<1>3. CASE req # Full2
  BY <1>3, Paths
<1> QED BY <1>2, <1>3

LEMMA FullNext ==
  ASSUME IInv, clean \/ asked = 0, FullDone, pc' # "idle", req \in {Full0, Full1, Full2}
  PROVE  /\ (req = Full0 /\ req' = Full1) \/ (req = Full1 /\ req' = Full2)
         /\ Free(req) /\ ~Final(req)
<1>a. TypeOK /\ pc = "got" /\ req[1] = "full"
  BY DEF IInv, FullDone
<1>1. got \in Retryable /\ Len(req[2]) < Retries /\ req' = Full(Append(req[2], got))
  BY <1>a, FullOutcome DEF Return, Ask, After
<1>2. got = "invalid" /\ Free(req) /\ ~Final(req)
  BY <1>a, <1>1, CleanGot
<1>3. req # Full2
  BY <1>1, LastRetry
<1>4. CASE req = Full0
  BY <1>1, <1>2, <1>4, Paths
<1>5. CASE req = Full1
  BY <1>1, <1>2, <1>5, Paths
<1> QED BY <1>3, <1>4, <1>5

LEMMA PathStep == IInv /\ Next => CleanPath'
<1> SUFFICES ASSUME IInv, Next, clean', pc' # "idle", req'[1] = "full"
             PROVE  /\ req' \in {Full0, Full1, Full2}
                    /\ mode'.compact => Free(Compact)'
                    /\ req' \in {Full1, Full2} => Free(Full0)'
                    /\ req' = Full2 => Free(Full1)'
  BY DEF CleanPath
<1>a. TypeOK /\ Turn /\ CleanPath /\ mode \in AllModes /\ mode' = mode
  BY Monotone DEF IInv, TypeOK, Settling
<1>b. \A r \in {Compact, Full0, Full1, Full2} : Free(r) => Free(r)'
  BY Monotone, Paths, Names
<1>1. CASE Begin
  <2>1. req' = First
    BY <1>1 DEF Begin, Ask
  <2>2. First = Full0 /\ ~mode.compact
    BY <1>a, <2>1, FirstRequest, Apart
  <2> QED BY <1>a, <2>1, <2>2, Apart
<1>2. CASE req' = req /\ clean /\ pc # "idle"
  BY <1>2, <1>a, <1>b DEF CleanPath
<1>3. CASE CompactDone
  <2>1. req' = Full0 /\ clean
    BY <1>3 DEF CompactDone, Return, Ask, Full0
  <2>2. Free(Compact)
    BY <1>3, <2>1, CleanGot DEF CompactDone
  <2> QED BY <1>a, <1>b, <2>1, <2>2, Apart
<1>4. CASE FullDone
  <2>1. clean /\ pc # "idle" /\ req[1] = "full"
    BY <1>4 DEF FullDone
  <2>2. (req = Full0 /\ req' = Full1) \/ (req = Full1 /\ req' = Full2)
    BY <1>4, <1>a, <2>1, FullNext DEF CleanPath
  <2>3. Free(req)
    BY <1>4, <1>a, <2>1, FullNext DEF CleanPath
  <2> QED BY <1>a, <1>b, <2>1, <2>2, <2>3, Apart DEF CleanPath
<1>5. CASE MainDone
  BY <1>5, Apart DEF MainDone, Return, Ask
<1>6. CASE Hit \/ Miss \/ Store \/ (\E o \in Failures \cup AllAnswers : Complete(o))
  BY <1>2, <1>6 DEF Hit, Miss, Store, Complete, ghosts
<1> QED
  BY <1>1, <1>3, <1>4, <1>5, <1>6
  DEF Next, CallStep, Return, MainHit, RepairDone, Crash, Expansion, Fallback, Verification, Canonical,
      SourceResolved, Identity, SingleDone

(* A call without failures that returns leaves the way free.                *)
LEMMA EndStep == IInv /\ Next /\ pc' = "idle" /\ clean' /\ result' # "none" => AllFree'
<1> SUFFICES ASSUME IInv, Next, pc' = "idle", clean', result' # "none" PROVE AllFree'
  OBVIOUS
<1>a. TypeOK /\ Turn /\ CleanPath /\ InHand /\ (AllFree => AllFree') /\ mode' = mode
  BY Monotone DEF IInv, Settling
<1>1. CASE CompactDone
  <2>1. clean /\ pc = "got" /\ req = Compact /\ Enough(got)
    BY <1>1 DEF CompactDone, Ask
  <2>2. CompactFinal /\ Free(Compact) /\ mode.call = "plan" /\ mode.compact
    BY <1>a, <2>1, CleanGot DEF Turn
  <2> QED BY <1>a, <2>2, Apart DEF AllFree
<1>2. CASE FullDone
  <2>1. clean /\ pc = "got" /\ req[1] = "full" /\ mode.call = "plan"
    BY <1>2, <1>a DEF FullDone, Turn
  <2>2. /\ mode.compact => Free(Compact)
        /\ req \in {Full1, Full2} => Free(Full0)
        /\ req = Full2 => Free(Full1)
    BY <1>a, <2>1 DEF CleanPath
  <2>3. Free(req)
    BY <2>1, CleanGot
  <2>4. Final(req) \/ req = Full2
    <3>1. got \notin Retryable \/ Len(req[2]) = Retries
      BY <1>2, <1>a, FullOutcome DEF Ask
    <3>2. CASE got \notin Retryable
      BY <2>1, <3>2, CleanGot
    <3>3. CASE Len(req[2]) = Retries
      <4>1. ~(Len(req[2]) < Retries)
        BY <3>3 DEF Retries
      <4> QED BY <1>a, <2>1, <4>1, LastRetry DEF CleanPath
    <3> QED BY <3>1, <3>2, <3>3
  <2>5. FullFree /\ (mode.compact => Free(Compact))
    BY <1>a, <2>1, <2>2, <2>3, <2>4 DEF FullFree, CleanPath
  <2> QED BY <1>a, <2>1, <2>5, Apart DEF AllFree
<1>3. CASE MainDone
  <2>1. clean /\ pc = "got" /\ req = Main /\ got # "ungrounded" /\ mode.call = "evidence"
    BY <1>3, <1>a DEF MainDone, Ask, ghosts, Turn
  <2>2. Final(Main)
    BY <2>1, CleanGot
  <2> QED BY <1>a, <2>1, <2>2, Apart DEF AllFree
<1>4. CASE MainHit
  <2>1. req = Main /\ mode.call = "evidence" /\ entry[Main] \in Settled(Main)
    BY <1>4, <1>a DEF MainHit, InHand, Turn
  <2> QED BY <1>a, <2>1, Apart DEF AllFree, Final
<1>5. CASE RepairDone
  <2>1. mode.call = "evidence" /\ entry'[Main] = Repaired(got)
    BY <1>5, <1>a, Names DEF RepairDone, Turn, TypeOK
  <2>2. entry'[Main] \in Settled(Main)
    BY <2>1, Sets, Tables, Names DEF Plans
  <2> QED BY <1>a, <2>1, <2>2, Apart DEF AllFree, Final
<1>6. ASSUME NEW c \in SingleCalls, SingleDone(c) PROVE AllFree'
  <2>1. clean /\ pc = "got" /\ req = Single(c) /\ mode.call = c
    BY <1>6, <1>a DEF SingleDone, ghosts, Turn
  <2>2. Free(Single(c))
    BY <2>1, CleanGot
  <2> QED BY <1>a, <2>1, <2>2, Apart DEF AllFree
<1>7. CASE Crash
  BY <1>7 DEF Crash, Return
<1> QED
  BY <1>1, <1>2, <1>3, <1>4, <1>5, <1>6, <1>7
  DEF Next, Begin, Ask, Hit, Miss, Store, Complete, CallStep, Expansion, Fallback, Verification, Canonical,
      SourceResolved, Identity, SingleCalls

(* Once the way is free it is taken, and nothing is asked.                  *)
LEMMA FreeStep == IInv /\ Next /\ settled' => AllFree' /\ asked' = 0 /\ FreePath'
<1> SUFFICES ASSUME IInv, Next, settled' PROVE AllFree' /\ asked' = 0 /\ FreePath'
  OBVIOUS
<1>a. TypeOK /\ Turn /\ InHand /\ Settling /\ (AllFree => AllFree') /\ mode' = mode /\ mode \in AllModes
  BY Monotone DEF IInv, TypeOK
<1>1. CASE Begin
  <2>1. req' = First /\ asked' = 0 /\ AllFree'
    BY <1>1, <1>a DEF Begin, Ask, Settling
  <2>2. First # Repair /\ (First[1] = "full" => First = Full0 /\ ~mode.compact)
    <3>1. CASE mode.call = "plan"
      BY <1>a, <3>1, FirstRequest, Apart, Paths
    <3>2. CASE mode.call = "evidence"
      BY <1>a, <3>2, FirstRequest, Apart
    <3>3. CASE mode.call \in SingleCalls
      BY <1>a, <3>3, FirstRequest, Apart
    <3> QED BY <1>a, <3>1, <3>2, <3>3, FirstRequest
  <2> QED BY <1>a, <2>1, <2>2, Apart DEF FreePath
<1>2. CASE ~Begin
  <2>1. settled /\ AllFree /\ AllFree' /\ asked = 0 /\ FreePath /\ pc # "idle"
    <3>1. settled' = settled /\ pc # "idle"
      BY <1>2, <1>a, FullOutcome
      DEF Next, CallStep, Hit, Miss, Store, Complete, CompactDone, FullDone, MainDone, MainHit, RepairDone, Crash,
          Expansion, Fallback, Verification, Canonical, SourceResolved, Identity, SingleDone, ghosts
    <3> QED BY <1>a, <3>1 DEF Settling
  <2>2. Free(req)
    BY <2>1, FreeRequest
  <2>3. CASE pc' # "idle" /\ UNCHANGED <<entry, heard, req, asked>>
    BY <2>1, <2>3, <1>a DEF FreePath, CompactFinal, Final, Enough
  <2>4. CASE pc' = "idle" /\ asked' = asked
    BY <2>1, <2>4 DEF FreePath
  <2>5. ASSUME NEW o, Complete(o) PROVE asked' = 0 /\ FreePath'
    <3>1. heard[req] # "none"
      BY <2>2, <2>5, <1>a DEF Complete, InHand, Free
    <3> QED BY <2>1, <2>3, <2>5, <3>1 DEF Complete
  <2>6. CASE Store
    <3>1. asked' = asked /\ UNCHANGED <<req, heard>>
      BY <2>6 DEF Store, ghosts
    <3>2. \A r \in Requests \ {req} : entry'[r] = entry[r]
      BY <2>6, <1>a DEF Store, TypeOK
    <3>3. req[1] = "full" => /\ mode.compact => ~CompactFinal'
                             /\ req \in {Full1, Full2} => ~Final(Full0)'
                             /\ req = Full2 => ~Final(Full1)'
      <4> SUFFICES ASSUME req[1] = "full"
                   PROVE  /\ mode.compact => ~CompactFinal'
                          /\ req \in {Full1, Full2} => ~Final(Full0)'
                          /\ req = Full2 => ~Final(Full1)'
        OBVIOUS
      <4>1. entry'[Compact] = entry[Compact]
        BY <3>2, Apart, Names
      <4>2. req \in {Full1, Full2} => entry'[Full0] = entry[Full0]
        BY <3>2, Apart, Paths
      <4>3. req = Full2 => entry'[Full1] = entry[Full1]
        BY <3>2, Apart, Paths
      <4> QED BY <1>a, <2>1, <3>1, <4>1, <4>2, <4>3 DEF FreePath, CompactFinal, Final, Enough
    <3> QED BY <1>a, <2>1, <3>1, <3>3 DEF FreePath
  <2>7. CASE CompactDone
    <3>1. pc = "got" /\ req = Compact /\ asked' = asked /\ UNCHANGED <<entry, heard>>
      BY <2>7 DEF CompactDone
    <3>2. CASE pc' # "idle"
      <4>1. req' = Full0 /\ ~Enough(got)
        BY <2>7, <3>2 DEF CompactDone, Return, Ask, Full0
      <4>2. ~CompactFinal
        BY <2>1, <3>1, <4>1, CleanGot
      <4>3. ~CompactFinal'
        BY <1>a, <3>1, <4>2 DEF CompactFinal, Enough
      <4> QED BY <1>a, <2>1, <3>1, <4>1, <4>3, Apart, Paths DEF FreePath
    <3> QED BY <2>1, <2>4, <3>1, <3>2
  <2>8. CASE FullDone
    <3>1. pc = "got" /\ req[1] = "full" /\ asked' = asked /\ UNCHANGED <<entry, heard>>
      BY <2>8 DEF FullDone
    <3>2. CASE pc' # "idle"
      <4>1. /\ (req = Full0 /\ req' = Full1) \/ (req = Full1 /\ req' = Full2)
            /\ ~Final(req)
        BY <2>1, <2>8, <3>1, <3>2, FullNext DEF FreePath
      <4>2. (mode.compact => ~CompactFinal) /\ (req = Full1 => ~Final(Full0))
        BY <2>1, <3>1 DEF FreePath
      <4>3. (mode'.compact => ~CompactFinal') /\ \A r : Final(r)' <=> Final(r)
        BY <1>a, <3>1, <4>2 DEF CompactFinal, Enough, Final
      <4> QED BY <2>1, <3>1, <4>1, <4>2, <4>3, Apart, Paths DEF FreePath
    <3> QED BY <2>1, <2>4, <3>1, <3>2
  <2>9. CASE MainDone
    <3>1. pc = "got" /\ req = Main /\ asked' = asked /\ mode.call = "evidence"
      BY <2>9, <1>a DEF MainDone, ghosts, Turn
    <3>2. Final(Main) /\ got # "ungrounded"
      BY <2>1, <3>1, CleanGot DEF AllFree
    <3>3. pc' = "idle"
      BY <2>9, <3>2 DEF MainDone, Return
    <3> QED BY <2>1, <2>4, <3>1, <3>3
  <2>10. CASE Hit \/ Miss
    BY <2>1, <2>3, <2>10 DEF Hit, Miss, ghosts
  <2>11. CASE MainHit \/ RepairDone \/ Crash \/ \E c \in SingleCalls : SingleDone(c)
    BY <2>1, <2>4, <2>11 DEF MainHit, RepairDone, Crash, SingleDone, Return, ghosts
  <2> QED
    BY <1>2, <2>1, <2>5, <2>6, <2>7, <2>8, <2>9, <2>10, <2>11
    DEF Next, CallStep, Expansion, Fallback, Verification, Canonical, SourceResolved, Identity, SingleCalls
<1> QED BY <1>1, <1>2

LEMMA StutterInv == IInv /\ UNCHANGED vars => IInv'
<1> SUFFICES ASSUME IInv, UNCHANGED vars PROVE IInv'
  OBVIOUS
<1>1. TypeOK' /\ Caches' /\ (AllFree => AllFree')
  BY Kept DEF IInv, vars, ghosts, TypeOK
<1>2. InHand' /\ Turn' /\ PlanInHand' /\ PlanIsFound' /\ ServedIsSettled'
  BY DEF IInv, vars, ghosts, InHand, Failing, Heard, Turn, PlanInHand, PlanIsFound, ServedIsSettled, Returned
<1>3. CleanPath'
  BY DEF IInv, vars, ghosts, Settling, CleanPath, Free
<1>4. settled => FreePath'
  BY DEF IInv, vars, ghosts, Settling, FreePath, CompactFinal, Final, Enough
<1> QED BY <1>1, <1>2, <1>3, <1>4 DEF IInv, Settling, vars, ghosts

(* The invariant holds (CallStep, Crash). *)
THEOREM Invariance == Spec => []IInv
<1>1. IInv /\ Next => IInv'
  <2> SUFFICES ASSUME IInv, Next PROVE IInv'
    OBVIOUS
  <2>1. TypeOK' /\ Caches' /\ InHand' /\ Turn'
    BY TypeStep, CachesStep, InHandStep, TurnStep
  <2>2. PlanInHand' /\ PlanIsFound' /\ ServedIsSettled'
    BY PlanStep, ServedStep
  <2>3. Settling'
    BY PathStep, EndStep, FreeStep DEF Settling
  <2> QED BY <2>1, <2>2, <2>3 DEF IInv
<1>2. IInv /\ [Next]_vars => IInv'
  BY <1>1, StutterInv
<1> QED BY InitInv, <1>2, PTL DEF Spec
-----------------------------------------------------------------------------
(* Every variable keeps its type. *)
THEOREM TypeCorrect == Spec => []TypeOK
<1>1. IInv => TypeOK
  BY DEF IInv
<1> QED BY <1>1, Invariance, PTL

(* An accepted plan is not lost to the extraction that was to improve on it,  *)
(* unless that filled the context (call_model_query_drs).                    *)
THEOREM FoundPlans == Spec => []PlanIsFound
<1>1. IInv => PlanIsFound
  BY DEF IInv
<1> QED BY <1>1, Invariance, PTL

(* No transient failure, and no stale plan, is ever served from a cache      *)
(* (structured_failure_retryable, the revalidation of plans).                *)
THEOREM NoFailureServed == Spec => []ServedIsSettled
<1>1. IInv => ServedIsSettled
  BY DEF IInv
<1> QED BY <1>1, Invariance, PTL

(* A call whose requests were all answered costs nothing when it is repeated,*)
(* through its retries and repairs (the keys of the planner's cache).        *)
THEOREM RepeatedForFree == Spec => []HeardIsFree
<1>1. IInv => HeardIsFree
  BY DEF IInv, Settling, HeardIsFree
<1> QED BY <1>1, Invariance, PTL
-----------------------------------------------------------------------------
(* A call ends, after a known number of requests.  Rank(r) is how many       *)
(* requests may follow r in a call, Left how many steps it may yet take.     *)
Rank(r) ==
  CASE r = Compact -> 3
    [] r[1] = "full" -> Retries - Len(r[2])
    [] r = Main -> 1
    [] OTHER -> 0

Place == CASE pc = "lookup" -> 4 [] pc = "request" -> 3 [] pc = "answer" -> 2 [] OTHER -> 1
Left == IF pc = "idle" THEN 0 ELSE 4 * Rank(req) + Place

CallShortens == [][pc # "idle" => Left' < Left]_vars

(* A plan takes a compact request, a full one and its retries; an answer     *)
(* from evidence one and its repair; every other call one.                   *)
Most ==
  CASE mode.call = "plan" -> IF mode.compact THEN 4 ELSE 3
    [] mode.call = "evidence" -> 2
    [] OTHER -> 1
RequestsAreBounded == asked <= Most

Spent == IF pc \in {"lookup", "request"} THEN 1 ELSE 0
InBudget == RequestsAreBounded /\ (pc # "idle" => asked + Rank(req) + Spent <= Most)

LEMMA Ranks ==
  /\ \A r \in Requests : Rank(r) \in 0..3
  /\ Rank(Compact) = 3 /\ Rank(Full0) = 2 /\ Rank(Main) = 1 /\ Rank(Repair) = 0
  /\ \A r \in Requests : r[1] = "full" => Rank(r) = 2 - Len(r[2]) /\ Len(r[2]) \in 0..2
  /\ \A c \in SingleCalls : Rank(Single(c)) = 0
<1>1. Rank(Compact) = 3
  BY Apart DEF Rank
<1>2. ASSUME NEW r \in Requests, r[1] = "full"
      PROVE  Rank(r) = 2 - Len(r[2]) /\ Len(r[2]) \in 0..2 /\ Rank(r) \in 0..3
  <2>1. Len(r[2]) \in 0..2
    BY <1>2, FullIsFull, Feedbacks DEF Retries
  <2>2. r # Compact /\ r # Main
    BY <1>2, Apart
  <2>3. Rank(r) = Retries - Len(r[2]) /\ Retries = 2
    BY <1>2, <2>2 DEF Rank, Retries
  <2>4. ASSUME NEW n \in 0..2, NEW m, m = 2 - n PROVE m \in 0..3
    BY <2>4
  <2>5. Rank(r) = 2 - Len(r[2])
    BY <2>3
  <2> QED BY <2>1, <2>4, <2>5
<1>3. Rank(Main) = 1 /\ Rank(Repair) = 0 /\ \A c \in SingleCalls : Rank(Single(c)) = 0
  BY Apart DEF Rank
<1>4. Rank(Full0) = 2
  <2>1. Full0 \in Requests /\ Full0[1] = "full" /\ Full0[2] = <<>> /\ Len(<<>>) = 0
    BY Paths, Names DEF Full0
  <2> QED BY <1>2, <2>1
<1>5. \A r \in Requests : Rank(r) \in 0..3
  BY <1>1, <1>2, <1>3, Kinds
<1> QED BY <1>1, <1>2, <1>3, <1>4, <1>5

(* The first request of a call has all the others before it. *)
LEMMA FirstRank ==
  ASSUME mode \in AllModes
  PROVE  First \in Requests /\ Rank(First) + 1 = Most
<1>1. CASE mode.call = "plan"
  BY <1>1, FirstRequest, Ranks DEF Most
<1>2. CASE mode.call = "evidence"
  BY <1>2, FirstRequest, Ranks DEF Most
<1>3. CASE mode.call \in SingleCalls
  <2>1. mode.call # "plan" /\ mode.call # "evidence"
    BY <1>3, Apart
  <2> QED BY <1>3, <2>1, FirstRequest, Ranks DEF Most
<1> QED BY <1>1, <1>2, <1>3, FirstRequest

(* What a call does when it has an outcome in hand: it returns, or asks for a *)
(* request of a lower rank.                                                   *)
LEMMA GotLeads ==
  ASSUME IInv, \/ CompactDone \/ FullDone \/ MainDone \/ MainHit \/ RepairDone \/ Crash
               \/ \E c \in SingleCalls : SingleDone(c)
  PROVE  /\ pc # "idle" /\ UNCHANGED <<mode, asked>>
         /\ \/ pc' = "idle"
            \/ /\ pc = "got" /\ pc' = "lookup" /\ req' \in Requests
               /\ Rank(req') + 1 <= Rank(req)
<1>a. TypeOK /\ req \in Requests
  BY DEF IInv, TypeOK
<1>1. CASE CompactDone
  <2>1. Rank(Compact) = 3 /\ Rank(Full(<<>>)) = 2 /\ Full(<<>>) \in Requests
    BY Ranks, Paths DEF Full0
  <2> QED BY <1>1, <2>1 DEF CompactDone, Return, Ask
<1>2. CASE FullDone
  <2> DEFINE next == Full(After(req[2], got))
  <2>1. CASE got \in Retryable /\ Len(req[2]) < Retries /\ Ask(next)
    <3>1. req[2] \in Feedback /\ req[2] \in Seq(Retryable)
      BY <1>2, <1>a, FullOutcome, Feedbacks
    <3>2. next \in Requests /\ next[1] = "full" /\ next[2] = Append(req[2], got)
      BY <2>1, <3>1, Feedbacks, Names DEF After
    <3>3. Len(next[2]) = Len(req[2]) + 1
      BY <2>1, <3>1, <3>2, AppendProperties
    <3>4. Rank(next) = 2 - Len(next[2]) /\ Rank(req) = 2 - Len(req[2]) /\ Len(req[2]) \in 0..2
      BY <1>2, <1>a, <3>2, Ranks DEF FullDone
    <3> QED BY <1>2, <2>1, <3>2, <3>3, <3>4 DEF FullDone, Ask
  <2> QED BY <1>2, <1>a, <2>1, FullOutcome DEF FullDone, Return
<1>3. CASE MainDone
  BY <1>3, Ranks, Names DEF MainDone, Return, Ask, ghosts
<1>4. CASE MainHit \/ RepairDone \/ Crash \/ \E c \in SingleCalls : SingleDone(c)
  BY <1>4 DEF MainHit, RepairDone, Crash, SingleDone, Return, ghosts
<1> QED BY <1>1, <1>2, <1>3, <1>4

(* Each step of a call, up to its return or its end, leaves it less to do:   *)
(* call_model_query_drs, the answer from evidence and the other calls end,   *)
(* after sixteen steps at most, if every request is answered or fails.       *)
THEOREM Shortens == Spec => CallShortens
<1>1. IInv /\ [Next]_vars => [pc # "idle" => Left' < Left]_vars
  <2> SUFFICES ASSUME IInv, Next, pc # "idle" PROVE Left' < Left
    OBVIOUS
  <2>1. req \in Requests /\ Rank(req) \in 0..3
    BY Ranks DEF IInv, TypeOK
  <2>2. CASE Hit \/ Miss \/ Store \/ \E o \in Failures \cup AllAnswers : Complete(o)
    BY <2>1, <2>2 DEF Hit, Miss, Store, Complete, Left, Place
  <2>3. CASE \/ CompactDone \/ FullDone \/ MainDone \/ MainHit \/ RepairDone \/ Crash
             \/ \E c \in SingleCalls : SingleDone(c)
    <3>1. CASE pc' = "idle"
      BY <2>1, <3>1 DEF Left, Place
    <3>2. CASE /\ pc = "got" /\ pc' = "lookup" /\ req' \in Requests
               /\ Rank(req') + 1 <= Rank(req)
      <4>1. Rank(req') \in 0..3
        BY <3>2, Ranks
      <4> QED BY <2>1, <3>2, <4>1 DEF Left, Place
    <3> QED BY <2>3, <3>1, <3>2, GotLeads
  <2> QED
    BY <2>2, <2>3
    DEF Next, CallStep, Begin, Expansion, Fallback, Verification, Canonical, SourceResolved,
        Identity, SingleCalls
<1> QED BY <1>1, Invariance, PTL DEF Spec, CallShortens

(* No call sends more requests to the endpoint than its compact and full     *)
(* extraction with two retries, or its answer and one repair, need.          *)
THEOREM RequestsBounded == Spec => []RequestsAreBounded
<1>1. Init => InBudget
  <2>1. ASSUME Init PROVE asked = 0 /\ pc = "idle" /\ Most \in {1, 2, 3, 4}
    BY <2>1 DEF Init, Most
  <2> QED BY <2>1 DEF InBudget, RequestsAreBounded
<1>2. IInv /\ InBudget /\ [Next]_vars => InBudget'
  <2> SUFFICES ASSUME IInv, InBudget, [Next]_vars PROVE InBudget'
    OBVIOUS
  <2>1. /\ mode \in AllModes /\ req \in Requests /\ asked \in Nat /\ Rank(req) \in 0..3
        /\ Most \in {1, 2, 3, 4}
    BY Ranks DEF IInv, TypeOK, Most
  <2>2. CASE Begin
    <3>1. mode' = mode /\ asked' = 0 /\ pc' = "lookup" /\ req' = First
      BY <2>2 DEF Begin, Ask
    <3>2. Most' = Most
      BY <3>1 DEF Most
    <3>3. Rank(req') + 1 = Most
      BY <2>1, <3>1, FirstRank
    <3>4. First \in Requests /\ Rank(req') \in 0..3
      BY <2>1, <3>1, FirstRank, Ranks
    <3> QED BY <2>1, <3>1, <3>2, <3>3, <3>4 DEF InBudget, RequestsAreBounded, Spent
  <2>3. CASE Hit \/ Miss \/ Store \/ \E o \in Failures \cup AllAnswers : Complete(o)
    <3>1. /\ mode' = mode /\ req' = req /\ pc # "idle"
          /\ \/ asked' = asked /\ Spent' = Spent
             \/ asked' \in {asked, asked + 1} /\ Spent = 1 /\ Spent' = 0
      BY <2>1, <2>3 DEF Hit, Miss, Store, Complete, Spent, ghosts
    <3>2. Most' = Most
      BY <3>1 DEF Most
    <3>3. Spent \in {0, 1} /\ Rank(req)' = Rank(req)
      BY <3>1 DEF Spent, Rank
    <3>4. asked + Rank(req) + Spent <= Most
      BY <3>1 DEF InBudget
    <3>5. asked' + Rank(req)' + Spent' <= Most' /\ asked' <= Most'
      <4>1. asked' + Rank(req) + Spent' <= asked + Rank(req) + Spent /\ asked' <= asked + Spent
        BY <2>1, <3>1, <3>3
      <4>2. asked + Spent <= Most
        BY <2>1, <3>3, <3>4
      <4>3. asked' \in Nat /\ Spent' \in {0, 1}
        BY <2>1, <3>1, <3>3
      <4>4. asked' + Rank(req) + Spent' <= Most
        BY <2>1, <3>3, <3>4, <4>1, <4>3
      <4>5. asked' <= Most
        BY <2>1, <3>3, <4>1, <4>2, <4>3
      <4> QED BY <3>2, <3>3, <4>4, <4>5
    <3> QED BY <3>5 DEF InBudget, RequestsAreBounded
  <2>4. CASE \/ CompactDone \/ FullDone \/ MainDone \/ MainHit \/ RepairDone \/ Crash
             \/ \E c \in SingleCalls : SingleDone(c)
    <3>1. /\ mode' = mode /\ asked' = asked
          /\ \/ pc' = "idle"
             \/ /\ pc = "got" /\ pc' = "lookup" /\ req' \in Requests
                /\ Rank(req') + 1 <= Rank(req)
      BY <2>4, GotLeads
    <3>2. Most' = Most
      BY <3>1 DEF Most
    <3>3. req' \in Requests => Rank(req') \in 0..3
      BY Ranks
    <3> QED BY <2>1, <3>1, <3>2, <3>3 DEF InBudget, RequestsAreBounded, Spent
  <2>5. CASE UNCHANGED vars
    BY <2>5 DEF vars, ghosts, InBudget, RequestsAreBounded, Most, Spent, Rank
  <2> QED
    BY <2>2, <2>3, <2>4, <2>5
    DEF Next, CallStep, Expansion, Fallback, Verification, Canonical, SourceResolved, Identity,
        SingleCalls
<1>3. InBudget => RequestsAreBounded
  BY DEF InBudget
<1> QED BY <1>1, <1>2, <1>3, Invariance, PTL DEF Spec
=============================================================================
