---------------------------- MODULE FramePromises ----------------------------
(* What ingestions and questions promise of the semantic frames in a store   *)
(* and of the ledger of the attempts to get them, in terms of the state that *)
(* FrameLedger changes.  Apart from its steps, so that it can also be stated *)
(* beside DrsIngest, of the same store.                                      *)

CONSTANTS
  FrameSpans,   \* numbered in scan order
  NoKey

VARIABLES
  frameDb, frameDisk,   \* the store as the connection sees it, and as committed
  stage,                \* where the session is
  complete,             \* history: the key of the last ingestion, if it completed
  twice                 \* history: was something asked again that was answered?

(* The frames of two models never stand side by side for a span, whatever was
   interrupted, in what the connection sees and in the file.                 *)
OneModel ==
  \A st \in {frameDb, frameDisk}, s \in FrameSpans : \A j, k \in st.frames[s] : j = k

(* Live frames are recorded: with a model's frames the ledger holds its
   attempt, accepted and marked as live, however often the key changed.      *)
FramesAreRecorded ==
  \A st \in {frameDb, frameDisk}, s \in FrameSpans :
    \A k \in st.frames[s] : st.attempts[s][k] = [reason |-> "full", live |-> TRUE]

(* A completed ingestion leaves no span without frames whose attempt claims
   to be live, though a crash may have left such attempts behind: every span
   has frames, or a row that says why not.                                   *)
CompletedIsExplained ==
  stage = "idle" /\ complete # NoKey =>
    \A s \in FrameSpans :
      frameDb.frames[s] = {} =>
        /\ ~frameDb.attempts[s][complete].live
        /\ frameDb.attempts[s][complete].reason # "none"

(* What the model answered for a span under a key is not asked again, not
   even after frames were deleted, attempts lost with a crash, or failed ones
   are retried (semantic_cache.put, cacheable_failure).                      *)
AnsweredIsFree == ~twice
=============================================================================
