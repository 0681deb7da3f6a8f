------------------------------ MODULE FrameLedger ------------------------------
(* The semantic frames of a store and the ledger of the attempts to get      *)
(* them: the eager ones of ingest_folder (ingest.py) and the lazy ones of a  *)
(* question (_materialize_question_semantics, engine.py), which share both,  *)
(* and the cache of the model's answers (semantic_cache.py).                 *)
(*                                                                           *)
(* A span's frames are those of one key: the cache context of the call, with *)
(* the fingerprint of the model.  A store in a file is ingested again and    *)
(* again, under changing keys, and may be left and reopened at any moment;   *)
(* the engine's store is in memory and asked questions.  SQLite commits only *)
(* where the code commits: `frameDb' is what the connection sees, and        *)
(* `frameDisk' what the file holds.  What all this promises is stated in     *)
(* FramePromises.                                                            *)
(*                                                                           *)
(* Not modelled: documents that come and go (DrsIngest), the DRS of the same *)
(* spans but for its commits, noise that lazy extraction passes over, and    *)
(* the model-call cache below this one (QueryCalls).                         *)
(***************************************************************************)
EXTENDS Naturals, FiniteSets, FramePromises

CONSTANTS
  Keys,         \* the cache contexts
  MaxSessions   \* bound on the ingestions and questions, and on the crashes

ASSUME FrameLedgerAssumption ==
  FrameSpans \subseteq Nat /\ IsFiniteSet(FrameSpans) /\ NoKey \notin Keys /\ MaxSessions \in Nat

VARIABLES
  medium,     \* "file" or "memory"
  again,      \* KMD_FRAME_RETRY_FAILED_ATTEMPTS
  cache,      \* the answers that the semantic frame cache holds
  task,       \* is the session an ingestion or a question?
  key,        \* its cache context
  todo, cur,  \* the spans it has not processed; the one it is at
  got,        \* what the model, or the cache, gave for it
  sent,       \* history: the spans and keys whose request was answered
  sessions, crashes

session == <<task, key, todo, cur>>
ghosts == <<sent, twice, sessions, crashes>>
vars == <<medium, again, frameDb, frameDisk, cache, stage, session, got, complete, ghosts>>
-----------------------------------------------------------------------------
(* Rows.  An attempt is a row of model_attempts: its reason ("" is accepted) *)
(* and whether it is marked as the one whose frames are live.                *)

Accepted == {"empty", "full"}
(* A request that is answered fails as "invalid", its JSON or its schema, or
   as "ungrounded".  The cache keeps both failures; the ledger holds the first
   for a passing one, so that the request is made again, in vain.            *)
Answers == Accepted \cup {"invalid", "ungrounded"}
Outcomes == Answers \cup {"refused"}

Attempt == [reason : {"none"} \cup Outcomes, live : BOOLEAN]
NoAttempt == [reason |-> "none", live |-> FALSE]
Store == [frames : [FrameSpans -> SUBSET Keys], attempts : [FrameSpans -> [Keys -> Attempt]]]
EmptyStore ==
  [frames |-> [s \in FrameSpans |-> {}],
   attempts |-> [s \in FrameSpans |-> [k \in Keys |-> NoAttempt]]]

(* delete_frame_materialization_for_span. *)
DeleteFrames_Own(st, s, k) == [st EXCEPT !.frames[s] = @ \ {k}]
DeleteFrames(st, s, k) == [st EXCEPT !.frames[s] = {}]

(* deactivate_other_model_attempt_materializations. *)
DeactivateOthers(st, s, k) ==
  [st EXCEPT !.attempts[s] = [j \in Keys |-> IF j = k THEN @[j] ELSE [@[j] EXCEPT !.live = FALSE]]]

InsertFrames(st, s, k, o) == IF o = "full" THEN [st EXCEPT !.frames[s] = @ \cup {k}] ELSE st

(* INSERT OR REPLACE INTO model_attempts. *)
Record_Ignore(st, s, k, o) ==
  IF st.attempts[s][k].reason # "none" THEN st
  ELSE [st EXCEPT !.attempts[s][k] = [reason |-> o, live |-> (o = "full")]]
Record_Accepted(st, s, k, o) ==
  [st EXCEPT !.attempts[s][k] = [reason |-> o, live |-> (o \in Accepted)]]
Record(st, s, k, o) ==
  [st EXCEPT !.attempts[s][k] = [reason |-> o, live |-> (o = "full")]]

Commit(st) == frameDisk' = IF medium = "file" THEN st ELSE frameDisk
-----------------------------------------------------------------------------
Init ==
  /\ medium \in {"file", "memory"} /\ again \in BOOLEAN
  /\ frameDb = EmptyStore /\ frameDisk = EmptyStore
  /\ cache = [p \in FrameSpans \X Keys |-> "none"]
  /\ stage = "idle" /\ task = "ingest" /\ key = NoKey /\ todo = {} /\ cur = 0
  /\ got = "none" /\ complete = NoKey
  /\ sent = {} /\ twice = FALSE /\ sessions = 0 /\ crashes = 0

Start(name, k, spans) ==
  /\ stage = "idle"
  /\ sessions < MaxSessions
  /\ sessions' = sessions + 1
  /\ stage' = "span" /\ task' = name /\ key' = k /\ todo' = spans
  /\ complete' = NoKey
  /\ UNCHANGED <<medium, again, frameDb, frameDisk, cache, cur, got, sent, twice, crashes>>

(* ingest_folder goes through the spans in order; a question through those
   that its search found, the best first.                                    *)
Ingest(k) == Start("ingest", k, FrameSpans)
Ask(k) == medium = "memory" /\ \E found \in SUBSET FrameSpans : Start("question", k, found)

Rest(s) == todo \ {s}

Following(s) == task = "ingest" => \A t \in todo : s <= t

(* The frames are there and the ledger says that they are of this key. *)
Reusable(s) == frameDb.frames[s] # {} /\ frameDb.attempts[s][key].live

Reuse ==
  /\ stage = "span"
  /\ \E s \in todo :
       /\ Following(s) /\ Reusable(s)
       /\ cur' = s /\ todo' = Rest(s)
  /\ stage' = "end"
  /\ UNCHANGED <<medium, again, frameDb, frameDisk, cache, task, key, got, complete, ghosts>>

(* Frames of another key are deleted, and the deletion is committed; that the
   attempts of other keys are no longer live is not.                         *)
Clear(s) ==
  IF frameDb.frames[s] = {} THEN UNCHANGED <<frameDb, frameDisk>>
  ELSE /\ Commit(DeleteFrames(frameDb, s, key))
       /\ frameDb' = DeactivateOthers(DeleteFrames(frameDb, s, key), s, key)

(* _attempt_was_nonrequest_failure: the attempt is not made again. *)
Failed(s) == frameDb.attempts[s][key].reason = "ungrounded" /\ ~again

Replace ==
  /\ stage = "span"
  /\ \E s \in todo :
       /\ Following(s) /\ ~Reusable(s)
       /\ Clear(s)
       /\ cur' = s /\ todo' = Rest(s)
       /\ stage' = IF Failed(s) THEN "end" ELSE "ask"
  /\ UNCHANGED <<medium, again, cache, task, key, got, complete, ghosts>>

(* _grounded_model_frames, _cached_or_fresh_chunk_frames: the cache, which
   keeps what was answered, or the model.                                    *)
Put_Nothing(o) == UNCHANGED cache
Put(o) == cache' = IF o \in Answers THEN [cache EXCEPT ![<<cur, key>>] = o] ELSE cache

Extract(o) ==
  /\ stage = "ask"
  /\ IF cache[<<cur, key>>] # "none"
     THEN o = cache[<<cur, key>>] /\ UNCHANGED <<cache, sent, twice>>
     ELSE /\ Put(o)
          /\ sent' = IF o \in Answers THEN sent \cup {<<cur, key>>} ELSE sent
          /\ twice' = (twice \/ <<cur, key>> \in sent)
  /\ stage' = "insert" /\ got' = o
  /\ UNCHANGED <<medium, again, frameDb, frameDisk, session, complete, sessions, crashes>>

(* A question does not record a failed request; an ingestion does. *)
Insert ==
  /\ stage = "insert"
  /\ frameDb' = IF task = "question" /\ got = "refused" THEN frameDb
              ELSE Record(InsertFrames(frameDb, cur, key, got), cur, key, got)
  /\ stage' = "end" /\ got' = "none"
  /\ UNCHANGED <<medium, again, frameDisk, cache, session, complete, ghosts>>

(* What follows for the span of an ingestion is its DRS, which may commit. *)
EndSpan ==
  /\ stage = "end"
  /\ stage' = "span"
  /\ \/ UNCHANGED frameDisk
     \/ task = "ingest" /\ Commit(frameDb)
  /\ UNCHANGED <<medium, again, frameDb, cache, session, got, complete, ghosts>>

(* finish_run commits; so does a question, whose store has no file. *)
Finish ==
  /\ stage = "span" /\ todo = {}
  /\ stage' = "idle"
  /\ IF task = "ingest" THEN Commit(frameDb) /\ complete' = key
     ELSE UNCHANGED <<frameDisk, complete>>
  /\ UNCHANGED <<medium, again, frameDb, cache, session, got, ghosts>>

(* The process ends; the file is opened again. *)
Crash ==
  /\ medium = "file" /\ stage # "idle"
  /\ crashes < MaxSessions
  /\ crashes' = crashes + 1
  /\ stage' = "idle" /\ got' = "none" /\ frameDb' = frameDisk
  /\ UNCHANGED <<medium, again, frameDisk, cache, session, complete, sent, twice, sessions>>
-----------------------------------------------------------------------------
SessionStep ==
  Reuse \/ Replace \/ (\E o \in Outcomes : Extract(o)) \/ Insert \/ EndSpan \/ Finish

Next == (\E k \in Keys : Ingest(k) \/ Ask(k)) \/ SessionStep \/ Crash

Spec == Init /\ [][Next]_vars
-----------------------------------------------------------------------------
TypeOK ==
  /\ medium \in {"file", "memory"} /\ again \in BOOLEAN
  /\ frameDb \in Store /\ frameDisk \in Store
  /\ cache \in [FrameSpans \X Keys -> {"none"} \cup Answers]
  /\ stage \in {"idle", "span", "ask", "insert", "end"} /\ task \in {"ingest", "question"}
  /\ key \in Keys \cup {NoKey} /\ todo \subseteq FrameSpans /\ cur \in FrameSpans \cup {0}
  /\ got \in {"none"} \cup Outcomes /\ complete \in Keys \cup {NoKey}
  /\ sent \subseteq FrameSpans \X Keys /\ twice \in BOOLEAN
  /\ sessions \in 0..MaxSessions /\ crashes \in 0..MaxSessions
=============================================================================
