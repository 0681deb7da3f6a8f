--------------------------- MODULE DrsIngestProofs ---------------------------
(* What DrsIngest promises for every folder, configuration and bound; and,  *)
(* at the end, what the frame ledger in the same store promises for every   *)
(* set of spans, model keys and number of sessions (Frames, FrameLedger).   *)
EXTENDS DrsIngest, FramePromises, FiniteSetTheorems, TLAPS, WellFoundedInduction

(* The store operations keep the store well typed. *)
LEMMA StoreOperationsTyped ==
  ASSUME NEW st \in Store, NEW s \in Spans, NEW c \in Configs \cup {NoConfig}
  PROVE  /\ Resume(st) \in Store
         /\ \A gone : Prune(st, gone) \in Store
         /\ \A b \in BOOLEAN : Materialize(st, s, c, b) \in Store
         /\ DeactivateOthers(st, s, c) \in Store
         /\ \A res \in Results : RecordAttempt(st, s, c, res) \in Store
<1>1. Resume(st) \in Store
  BY DEF Resume, Store
<1>2. \A gone : Prune(st, gone) \in Store
  BY DEF Prune, Store, Drs, NoDrs, Attempt, NoAttempt, Reasons
<1>3. \A b \in BOOLEAN : Materialize(st, s, c, b) \in Store
  BY DEF Materialize, Store, Drs
<1>4. DeactivateOthers(st, s, c) \in Store
  <2>1. [k \in Configs |-> IF k = c THEN st.attempts[s][k]
                          ELSE [st.attempts[s][k] EXCEPT !.materialized = FALSE]]
          \in [Configs -> Attempt]
    <3>1. \A a \in Attempt : [a EXCEPT !.materialized = FALSE] \in Attempt
      BY DEF Attempt
    <3> QED BY <3>1 DEF Store
  <2>2. DeactivateOthers(st, s, c) =
          [st EXCEPT !.attempts =
             [@ EXCEPT ![s] = [k \in Configs |-> IF k = c THEN st.attempts[s][k]
                                 ELSE [st.attempts[s][k] EXCEPT !.materialized = FALSE]]]]
    BY DEF DeactivateOthers, Store
  <2> QED BY <2>1, <2>2 DEF Store
<1>5. \A res \in Results : RecordAttempt(st, s, c, res) \in Store
  <2> SUFFICES ASSUME NEW res \in Results PROVE RecordAttempt(st, s, c, res) \in Store
    OBVIOUS
  <2>1. NewRow(st, res) \in Attempt
    BY DEF NewRow, Store, Attempt, Reasons, Results
  <2>2. [st.attempts EXCEPT ![s] = [@ EXCEPT ![c] = NewRow(st, res)]] \in [Spans -> [Configs -> Attempt]]
    <3>1. [st.attempts[s] EXCEPT ![c] = NewRow(st, res)] \in [Configs -> Attempt]
      BY <2>1 DEF Store
    <3> QED BY <3>1 DEF Store
  <2>3. st.clock + 1 \in Nat
    BY DEF Store
  <2> QED BY <2>2, <2>3 DEF RecordAttempt, Store
<1> QED BY <1>1, <1>2, <1>3, <1>4, <1>5

(* Every variable keeps its type, in every behaviour (all of DrsIngest). *)
THEOREM TypeCorrect == Spec => []TypeOK
<1>1. Init => TypeOK
  <2>1. EmptyStore \in Store
    BY ConstantsOK DEF EmptyStore, Store, Drs, NoDrs, Attempt, NoAttempt, Reasons
  <2> SUFFICES ASSUME Init PROVE TypeOK
    OBVIOUS
  <2>2. db \in Store /\ disk \in Store
    BY <2>1 DEF Init
  <2>3. done \in [folder : SUBSET Docs, config : Configs \cup {NoConfig}] /\ result \in Results
    BY DEF Init, Results, NoResult
  <2> QED BY <2>2, <2>3 DEF Init, TypeOK
<1>2. TypeOK /\ [Next]_vars => TypeOK'
  <2> SUFFICES ASSUME TypeOK, [Next]_vars PROVE TypeOK'
    OBVIOUS
  <2> USE DEF TypeOK
  <2>1. ASSUME NEW c \in Configs, NEW found \in Folders, Begin(c, found) PROVE TypeOK'
    <3>1. Resume(db) \in Store
      BY DEF Resume, Store
    <3>2. Prune(Resume(db), db.docs \ found) \in Store
      BY <3>1 DEF Prune, Store, Drs, NoDrs, Attempt, NoAttempt, Reasons
    <3> QED BY <2>1, <3>2, ConstantsOK DEF Begin
  <2>2. CASE StoreDocuments
    <3>1. db' \in Store
      BY <2>2 DEF StoreDocuments, Store
    <3>2. todo' \in SUBSET Spans
      <4>1. config \in Configs
        BY <2>2 DEF StoreDocuments
      <4> QED BY <2>2, <4>1, ConstantsOK DEF StoreDocuments, Units
    <3> QED BY <2>2, <3>1, <3>2 DEF StoreDocuments
  <2>3. ASSUME NEW s \in Spans, TakeSpan(s) PROVE TypeOK'
    <3>1. db' \in Store
      BY <2>3 DEF TakeSpan, Store
    <3> QED BY <2>3, <3>1 DEF TakeSpan
  <2>4. ASSUME NEW s \in Spans, NEW b \in BOOLEAN, CallAccepted(s, b) PROVE TypeOK'
    BY <2>4, StoreOperationsTyped DEF CallAccepted, Results
  <2>5. ASSUME NEW r \in {"rejected", "transient"}, CallFailed(r) PROVE TypeOK'
    BY <2>5 DEF CallFailed, Results
  <2>6. CASE CallRaises
    BY <2>6 DEF CallRaises
  <2>7. ASSUME NEW s \in Spans, Record(s) PROVE TypeOK'
    <3>1. DeactivateOthers(db, s, config) \in Store
      BY StoreOperationsTyped
    <3>2. db' \in Store
      BY <2>7, <3>1, StoreOperationsTyped DEF Record
    <3> QED BY <2>7, <3>2 DEF Record, NoResult, Results
  <2>8. CASE Finish
    <3>1. db' \in Store
      BY <2>8 DEF Finish, Store
    <3> QED BY <2>8, <3>1 DEF Finish
  <2>9. CASE Reopen
    BY <2>9 DEF Reopen, NoResult, Results
  <2>10. CASE UNCHANGED vars
    BY <2>10 DEF vars
  <2> QED BY <2>1, <2>2, <2>3, <2>4, <2>5, <2>6, <2>7, <2>8, <2>9, <2>10
     DEF Next, IngestStep, Call
<1> QED BY <1>1, <1>2, PTL DEF Spec
-----------------------------------------------------------------------------
(* Sources.  What is still to be processed, or being processed, belongs to
   documents the store has: that makes NoOrphanSemantics inductive.        *)
Sources ==
  /\ pc \in {"idle", "documents"} => todo = {}
  /\ pc \in {"idle", "documents", "spans"} => cur = {}
  /\ \A s \in todo : DocOf[s] \in db.docs
  /\ cur \subseteq db.rows
  /\ NoOrphanSemantics

LEMMA PruneSourced ==
  ASSUME NEW st \in Store, NEW gone, Sourced(st)
  PROVE  Sourced(Prune(Resume(st), gone))
BY DEF Sourced, Prune, Resume, Store, Drs, NoDrs, Attempt, NoAttempt, Reasons

LEMMA SourcesInductive == TypeOK /\ TypeOK' /\ Sources /\ [Next]_vars => Sources'
<1> SUFFICES ASSUME TypeOK, TypeOK', Sources, [Next]_vars PROVE Sources'
  OBVIOUS
<1> USE DEF Sources, NoOrphanSemantics
<1>1. ASSUME NEW c \in Configs, NEW found \in Folders, Begin(c, found) PROVE Sources'
  <2>1. Sourced(db') /\ Sourced(disk')
    BY <1>1, PruneSourced DEF Begin, TypeOK
  <2> QED BY <1>1, <2>1 DEF Begin
<1>2. CASE StoreDocuments
  <2>1. db' = [db EXCEPT !.docs = @ \cup folder] /\ db \in Store
    BY <1>2 DEF StoreDocuments, TypeOK
  <2>2. Sourced(db')
    BY <2>1 DEF Sourced, Store
  <2>3. \A s \in todo' : DocOf[s] \in db'.docs
    <3>1. ASSUME NEW s \in Units(config, folder) PROVE DocOf[s] \in folder
      BY <1>2, <3>1, ConstantsOK DEF Units, TypeOK, StoreDocuments
    <3> QED BY <1>2, <2>1, <3>1 DEF StoreDocuments, Store
  <2> QED BY <1>2, <2>1, <2>2, <2>3 DEF StoreDocuments, Store
<1>3. ASSUME NEW s \in Spans, TakeSpan(s) PROVE Sources'
  <2>1. db' = [db EXCEPT !.rows = @ \cup {s}] /\ db \in Store /\ DocOf[s] \in db.docs
    BY <1>3 DEF TakeSpan, TypeOK
  <2>2. Sourced(db')
    BY <2>1 DEF Sourced, Store
  <2> QED BY <1>3, <2>1, <2>2 DEF TakeSpan, Store
<1>4. ASSUME NEW s \in Spans, NEW b \in BOOLEAN, CallAccepted(s, b) PROVE Sources'
  <2>1. db' = Materialize(db, s, config, b) /\ db \in Store /\ s \in db.rows
    BY <1>4 DEF CallAccepted, TypeOK
  <2>2. Sourced(db')
    BY <2>1 DEF Sourced, Materialize, Store
  <2> QED BY <1>4, <2>1, <2>2 DEF CallAccepted, Materialize, Store
<1>5. ASSUME NEW r \in {"rejected", "transient"}, CallFailed(r) PROVE Sources'
  BY <1>5 DEF CallFailed
<1>6. CASE CallRaises
  BY <1>6 DEF CallRaises
<1>7. ASSUME NEW s \in Spans, Record(s) PROVE Sources'
  <2>1. db \in Store /\ s \in db.rows
    BY <1>7 DEF Record, TypeOK
  <2>2. /\ db'.docs = db.docs /\ db'.rows = db.rows /\ db'.drs = db.drs
        /\ \A t \in Spans : t # s => db'.attempts[t] = db.attempts[t]
    BY <1>7, <2>1 DEF Record, DeactivateOthers, RecordAttempt, Store
  <2>3. Sourced(db')
    BY <2>1, <2>2 DEF Sourced
  <2> QED BY <1>7, <2>2, <2>3 DEF Record
<1>8. CASE Finish
  <2>1. db' = [db EXCEPT !.status = "completed"] /\ disk' = db'
    BY <1>8 DEF Finish
  <2>2. db'.rows = db.rows /\ db'.docs = db.docs /\ Sourced(db')
    BY <2>1 DEF Sourced, TypeOK, Store
  <2> QED BY <1>8, <2>1, <2>2 DEF Finish
<1>9. CASE Reopen
  BY <1>9 DEF Reopen
<1>10. CASE UNCHANGED vars
  BY <1>10 DEF vars
<1> QED BY <1>1, <1>2, <1>3, <1>4, <1>5, <1>6, <1>7, <1>8, <1>9, <1>10 DEF Next, IngestStep, Call

(* No proposition without a source, in the connection and in the file, for
   any folders, edits, interruptions and reopenings (prune_stale_documents,
   materialize_drs_payload, the ledger insert of ingest.py).               *)
THEOREM NoOrphan == Spec => []NoOrphanSemantics
<1>1. Init => Sources
  BY DEF Init, Sources, NoOrphanSemantics, Sourced, EmptyStore, NoDrs, NoAttempt
<1>2. TypeOK /\ TypeOK' /\ Sources /\ [Next]_vars => Sources'
  BY SourcesInductive
<1>3. Sources => NoOrphanSemantics
  BY DEF Sources
<1> QED BY <1>1, <1>2, <1>3, TypeCorrect, PTL DEF Spec
-----------------------------------------------------------------------------
(* Completeness.  While a call runs, its run says so, and every unit of the
   folder is either still to do or has its rows.                           *)
Coverage ==
  /\ pc # "idle" => db.status = "running"
  /\ pc = "documents" => db.docs \subseteq folder
  /\ pc \in {"spans", "call", "record"} =>
       db.docs = folder /\ Units(config, folder) \subseteq db.rows \cup todo
  /\ CompletedIsWhole

LEMMA CoverageInductive == TypeOK /\ Coverage /\ [Next]_vars => Coverage'
<1> SUFFICES ASSUME TypeOK, Coverage, [Next]_vars PROVE Coverage'
  OBVIOUS
<1> USE DEF Coverage
<1>1. ASSUME NEW c \in Configs, NEW found \in Folders, Begin(c, found) PROVE Coverage'
  <2>1. db \in Store
    BY DEF TypeOK
  <2>2. /\ db'.status = "running"
        /\ db'.docs = db.docs \ (db.docs \ found)
        /\ folder' = found
    BY <1>1, <2>1 DEF Begin, Prune, Resume, Store
  <2>3. CompletedIsWhole'
    <3>1. disk' = disk \/ disk'.status = "running"
      BY <1>1, <2>2 DEF Begin
    <3>2. done' = done
      BY <1>1 DEF Begin
    <3> QED BY <3>1, <3>2 DEF CompletedIsWhole, DoneUnits
  <2> QED BY <1>1, <2>2, <2>3 DEF Begin
<1>2. CASE StoreDocuments
  <2>1. db' = [db EXCEPT !.docs = @ \cup folder] /\ db \in Store
    BY <1>2 DEF StoreDocuments, TypeOK
  <2>2. db'.docs = folder /\ db'.status = "running"
    BY <1>2, <2>1 DEF StoreDocuments, Store
  <2>3. CompletedIsWhole'
    BY <1>2 DEF StoreDocuments, CompletedIsWhole, DoneUnits
  <2> QED BY <1>2, <2>2, <2>3 DEF StoreDocuments
<1>3. ASSUME NEW s \in Spans, TakeSpan(s) PROVE Coverage'
  <2>1. db' = [db EXCEPT !.rows = @ \cup {s}] /\ db \in Store /\ todo' = todo \ {s}
    BY <1>3 DEF TakeSpan, TypeOK
  <2>2. db'.docs = db.docs /\ db'.rows = db.rows \cup {s} /\ db'.status = db.status
    BY <2>1 DEF Store
  <2>3. CompletedIsWhole'
    BY <1>3 DEF TakeSpan, CompletedIsWhole, DoneUnits
  <2>4. pc' \in {"spans", "call"}
    BY <1>3 DEF TakeSpan
  <2>5. pc = "spans" /\ config' = config /\ folder' = folder
    BY <1>3 DEF TakeSpan
  <2> QED BY <2>1, <2>2, <2>3, <2>4, <2>5
<1>4. ASSUME NEW s \in Spans, NEW b \in BOOLEAN, CallAccepted(s, b) PROVE Coverage'
  <2>1. db' = Materialize(db, s, config, b) /\ db \in Store
    BY <1>4 DEF CallAccepted, TypeOK
  <2>2. db'.docs = db.docs /\ db'.rows = db.rows /\ db'.status = db.status
    BY <2>1 DEF Materialize, Store
  <2>3. CompletedIsWhole'
    BY <1>4, <2>2 DEF CallAccepted, CompletedIsWhole
  <2> QED BY <1>4, <2>2, <2>3 DEF CallAccepted
<1>5. ASSUME NEW r \in {"rejected", "transient"}, CallFailed(r) PROVE Coverage'
  BY <1>5 DEF CallFailed, CompletedIsWhole, DoneUnits
<1>6. CASE CallRaises
  BY <1>6 DEF CallRaises, CompletedIsWhole, DoneUnits
<1>7. ASSUME NEW s \in Spans, Record(s) PROVE Coverage'
  <2>1. db \in Store
    BY DEF TypeOK
  <2>2. db'.docs = db.docs /\ db'.rows = db.rows /\ db'.status = db.status
    BY <1>7, <2>1 DEF Record, DeactivateOthers, RecordAttempt, Store
  <2>3. CompletedIsWhole'
    BY <1>7 DEF Record, CompletedIsWhole, DoneUnits
  <2> QED BY <1>7, <2>2, <2>3 DEF Record
<1>8. CASE Finish
  <2>4. CompletedIsWhole'
    <3>1. CASE Sourced(db)
      <4>1. db' = [db EXCEPT !.status = "completed"] /\ disk' = db' /\ db \in Store
        BY <1>8, <3>1 DEF Finish, TypeOK
      <4>2. db'.docs = db.docs /\ db'.rows = db.rows
        BY <4>1 DEF Store
      <4>3. done'.folder = folder /\ done'.config = config
        BY <1>8, <3>1 DEF Finish
      <4> QED BY <1>8, <4>1, <4>2, <4>3 DEF Finish, CompletedIsWhole, DoneUnits
    <3>2. CASE ~Sourced(db)
      <4>1. disk'.status = "failed"
        BY <1>8, <3>2 DEF Finish, TypeOK, Store
      <4> QED BY <4>1 DEF CompletedIsWhole
    <3> QED BY <3>1, <3>2
  <2> QED BY <1>8, <2>4 DEF Finish
<1>9. CASE Reopen
  BY <1>9 DEF Reopen, CompletedIsWhole, DoneUnits
<1>10. CASE UNCHANGED vars
  BY <1>10 DEF vars, CompletedIsWhole, DoneUnits
<1> QED BY <1>1, <1>2, <1>3, <1>4, <1>5, <1>6, <1>7, <1>8, <1>9, <1>10 DEF Next, IngestStep, Call

(* A file whose run says "completed" holds one whole ingestion, however the
   later ones ended (ingest_folder, prune_stale_documents, finish_run).    *)
THEOREM CompletedWhole == Spec => []CompletedIsWhole
<1>1. Init => Coverage
  BY DEF Init, Coverage, CompletedIsWhole, EmptyStore
<1>2. TypeOK /\ Coverage /\ [Next]_vars => Coverage'
  BY CoverageInductive
<1>3. Coverage => CompletedIsWhole
  BY DEF Coverage
<1> QED BY <1>1, <1>2, <1>3, TypeCorrect, PTL DEF Spec
-----------------------------------------------------------------------------
(* The ledger.  Between the commit of a DRS and its ledger row, the DRS at
   the span is the one of this configuration; after a failed call the rows
   of the span still tell the truth.                                       *)
Ledger ==
  /\ pc \in {"idle", "documents", "spans"} => cur = {}
  /\ \A s, t \in cur : s = t
  /\ pc = "record" /\ reopens = 0 =>
       \A s \in cur : IF result.reason = "materialized" THEN db.drs[s].by = config
                                                       ELSE Truthful(db, s)
  /\ LedgerTellsTheTruth

LEMMA LedgerInductive == TypeOK /\ NoOrphanSemantics /\ Ledger /\ [Next]_vars => Ledger'
<1> SUFFICES ASSUME TypeOK, NoOrphanSemantics, Ledger, [Next]_vars PROVE Ledger'
  OBVIOUS
<1> USE DEF Ledger, LedgerTellsTheTruth
<1>0. CASE reopens' # 0
  <2>1. (pc' \in {"idle", "documents", "spans"} => cur' = {}) /\ \A s, t \in cur' : s = t
    BY DEF Next, IngestStep, Call, Begin, StoreDocuments, TakeSpan, CallAccepted, CallFailed,
           CallRaises, Record, Finish, Reopen, vars
  <2> QED BY <1>0, <2>1
<1> SUFFICES ASSUME reopens' = 0, reopens = 0 PROVE Ledger'
  <2>1. reopens' = reopens \/ Reopen
    BY DEF Next, IngestStep, Call, Begin, StoreDocuments, TakeSpan, CallAccepted,
           CallFailed, CallRaises, Record, Finish, vars
  <2>2. Reopen => reopens' # 0
    BY DEF Reopen, TypeOK
  <2> QED BY <1>0, <2>1, <2>2
<1>1. ASSUME NEW c \in Configs, NEW found \in Folders, Begin(c, found) PROVE Ledger'
  <2>1. db \in Store /\ \A s \in Spans : Truthful(db, s)
    BY <1>1 DEF TypeOK, Begin
  <2>2. db' = Prune(Resume(db), db.docs \ found)
    BY <1>1 DEF Begin
  <2>3. \A s \in Spans : Truthful(db', s)
    BY <2>1, <2>2 DEF Truthful, Prune, Resume, Store, NoAttempt
  <2> QED BY <1>1, <2>3 DEF Begin
<1>2. CASE StoreDocuments
  <2>1. db'.drs = db.drs /\ db'.attempts = db.attempts
    BY <1>2 DEF StoreDocuments, TypeOK, Store
  <2> QED BY <1>2, <2>1 DEF StoreDocuments, Truthful
<1>3. ASSUME NEW s \in Spans, TakeSpan(s) PROVE Ledger'
  <2>1. db'.drs = db.drs /\ db'.attempts = db.attempts
    BY <1>3 DEF TakeSpan, TypeOK, Store
  <2>2. cur = {} /\ cur' \subseteq {s} /\ pc' \in {"spans", "call"} /\ (pc' = "spans" => cur' = {})
    BY <1>3 DEF TakeSpan
  <2>3. \A t \in Spans : Truthful(db', t)
    BY <1>3, <2>1 DEF Truthful, TakeSpan
  <2> QED BY <2>2, <2>3
<1>4. ASSUME NEW s \in Spans, NEW b \in BOOLEAN, CallAccepted(s, b) PROVE Ledger'
  <2>1. db' = Materialize(db, s, config, b) /\ db \in Store
    BY <1>4 DEF CallAccepted, TypeOK
  <2>2. /\ db'.attempts = db.attempts
        /\ db'.drs[s].by = config
        /\ \A t \in Spans : t # s => db'.drs[t] = db.drs[t]
    BY <2>1 DEF Materialize, Store
  <2>3. cur' = cur /\ s \in cur /\ pc = "call" /\ pc' = "record" /\ config' = config
        /\ result'.reason = "materialized"
    BY <1>4 DEF CallAccepted
  <2>4. \A t \in Spans : t \notin cur => Truthful(db', t)
    BY <2>2, <2>3 DEF Truthful
  <2> QED BY <2>2, <2>3, <2>4
<1>5. ASSUME NEW r \in {"rejected", "transient"}, CallFailed(r) PROVE Ledger'
  <2>1. result'.reason # "materialized" /\ cur \subseteq Spans
    BY <1>5 DEF CallFailed, TypeOK
  <2> QED BY <1>5, <2>1 DEF CallFailed, Truthful
<1>6. CASE CallRaises
  BY <1>6 DEF CallRaises, Truthful
<1>7. ASSUME NEW s \in Spans, Record(s) PROVE Ledger'
  <2>1. db \in Store /\ cur = {s} /\ cur' = {} /\ pc' = "spans" /\ config \in Configs
    BY <1>7 DEF Record, TypeOK
  <2>2. ASSUME NEW t \in Spans, t # s PROVE Truthful(db', t)
    <3>1. db'.drs = db.drs /\ db'.attempts[t] = db.attempts[t]
      BY <1>7, <2>1, <2>2 DEF Record, DeactivateOthers, RecordAttempt, Store
    <3> QED BY <1>7, <2>1, <2>2, <3>1 DEF Truthful, Record
  <2>3. Truthful(db', s)
    <3>1. CASE result.reason = "materialized"
      <4>1. /\ db'.drs = db.drs
            /\ \A k \in Configs : k # config => ~db'.attempts[s][k].materialized
        BY <1>7, <2>1, <3>1 DEF Record, DeactivateOthers, RecordAttempt, Store, Attempt
      <4> QED BY <1>7, <2>1, <3>1, <4>1 DEF Truthful, Record
    <3>2. CASE result.reason # "materialized"
      <4>1. /\ db'.drs = db.drs
            /\ ~db'.attempts[s][config].materialized
            /\ \A k \in Configs : k # config => db'.attempts[s][k] = db.attempts[s][k]
        BY <1>7, <2>1, <3>2 DEF Record, RecordAttempt, NewRow, Store, Attempt
      <4> QED BY <1>7, <2>1, <3>2, <4>1 DEF Truthful, Record
    <3> QED BY <3>1, <3>2
  <2> QED BY <2>1, <2>2, <2>3
<1>8. CASE Finish
  <2>1. db'.drs = db.drs /\ db'.attempts = db.attempts
    BY <1>8 DEF Finish, NoOrphanSemantics, TypeOK, Store
  <2> QED BY <1>8, <2>1 DEF Finish, Truthful
<1>9. CASE Reopen
  BY <1>9 DEF Reopen, TypeOK
<1>10. CASE UNCHANGED vars
  BY <1>10 DEF vars, Truthful
<1> QED BY <1>1, <1>2, <1>3, <1>4, <1>5, <1>6, <1>7, <1>8, <1>9, <1>10 DEF Next, IngestStep, Call

(* As long as the store is not reopened -- the engine's never is -- an
   attempt that claims to be materialized is the one whose DRS is live at its span, outside the
   window between that DRS's commit and its row (the order of materialize,
   deactivate and insert in _ingest_model_drs_for_sentence).               *)
THEOREM LedgerTruth == Spec => []LedgerTellsTheTruth
<1>1. Init => Ledger
  BY DEF Init, Ledger, LedgerTellsTheTruth, Truthful, EmptyStore, NoAttempt
<1>2. TypeOK /\ NoOrphanSemantics /\ Ledger /\ [Next]_vars => Ledger'
  BY LedgerInductive
<1>3. Ledger => LedgerTellsTheTruth
  BY DEF Ledger
<1> QED BY <1>1, <1>2, <1>3, TypeCorrect, NoOrphan, PTL DEF Spec
-----------------------------------------------------------------------------
(* No step but the removal of a document, or the reopening of the file at
   its last commit, takes a live DRS away (materialize_drs_payload replaces
   it only by an accepted one).                                            *)
THEOREM FailureKeeps == Spec => FailureKeepsDrs
<1> DEFINE Keeps == \A s \in Spans :
                      db.drs[s].by # NoConfig /\ db'.drs[s].by = NoConfig
                        => DocOf[s] \notin db'.docs \/ db' = disk
<1>1. TypeOK /\ NoOrphanSemantics /\ [Next]_vars => Keeps
  <2> SUFFICES ASSUME TypeOK, NoOrphanSemantics, [Next]_vars PROVE Keeps
    OBVIOUS
  <2>0. db \in Store
    BY DEF TypeOK
  <2>1. ASSUME NEW c \in Configs, NEW found \in Folders, Begin(c, found) PROVE Keeps
    BY <2>0, <2>1 DEF Begin, Prune, Resume, Store, Drs
  <2>2. ASSUME NEW s \in Spans, NEW b \in BOOLEAN, CallAccepted(s, b) PROVE Keeps
    <3>1. config # NoConfig
      BY <2>2, ConstantsOK DEF CallAccepted, TypeOK
    <3> QED BY <2>0, <2>2, <3>1 DEF CallAccepted, Materialize, Store, Drs
  <2>3. CASE Reopen
    BY <2>3 DEF Reopen
  <2>4. CASE db'.drs = db.drs
    BY <2>4
  <2>5. StoreDocuments => db'.drs = db.drs
    BY <2>0 DEF StoreDocuments, Store
  <2>6. \A s \in Spans : TakeSpan(s) \/ Record(s) => db'.drs = db.drs
    BY <2>0 DEF TakeSpan, Record, DeactivateOthers, RecordAttempt, Store
  <2>7. (\E r \in {"rejected", "transient"} : CallFailed(r)) \/ CallRaises \/ Finish
          => db'.drs = db.drs
    BY <2>0 DEF CallFailed, CallRaises, Finish, NoOrphanSemantics, Store
  <2>8. UNCHANGED vars => db'.drs = db.drs
    BY DEF vars
  <2> QED BY <2>1, <2>2, <2>3, <2>4, <2>5, <2>6, <2>7, <2>8 DEF Next, IngestStep, Call
<1>2. [][Keeps]_vars <=> FailureKeepsDrs
  BY DEF FailureKeepsDrs
<1> QED BY <1>1, <1>2, TypeCorrect, NoOrphan, PTL DEF Spec
-----------------------------------------------------------------------------
(* The look-up before a call.  For a text that is alone it finds nothing, or *)
(* the row of the very span, under a configuration of the same model.        *)
Coexist(st) == \E found \in Folders : st.docs \subseteq found

Clocked(st) == \A s \in Spans, c \in Configs : st.attempts[s][c].rowid <= st.clock

LEMMA LeastNatural ==
  ASSUME NEW T \in SUBSET Nat, T # {}
  PROVE  \E m \in T : \A n \in T : m <= n
<1>1. PICK m \in T : \A n \in T : ~ <<n, m>> \in OpToRel(<, Nat)
  BY NatLessThanWellFounded, WFMin
<1>2. \A n \in T : ~(n < m)
  BY <1>1 DEF OpToRel
<1> QED BY <1>2

LEMMA NewestIsOne ==
  ASSUME NEW st \in Store, Clocked(st), NEW S \in SUBSET Recorded(st), S # {}
  PROVE  \E p \in S : Newest(st, S) = st.attempts[p[1]][p[2]]
<1> DEFINE row(p) == st.attempts[p[1]][p[2]]
           P(p) == \A q \in S : row(q).rowid <= row(p).rowid
           T == {st.clock - row(p).rowid : p \in S}
<1>1. \A p \in S : row(p).rowid \in Nat /\ st.clock \in Nat /\ row(p).rowid <= st.clock
  BY DEF Recorded, Store, Attempt, Clocked
<1>2. T \in SUBSET Nat /\ T # {}
  BY <1>1
<1>3. PICK m \in T : \A n \in T : m <= n
  BY <1>2, LeastNatural
<1>4. PICK p \in S : m = st.clock - row(p).rowid
  BY <1>3
<1>5. P(p)
  <2> SUFFICES ASSUME NEW q \in S PROVE row(q).rowid <= row(p).rowid
    OBVIOUS
  <2>1. st.clock - row(q).rowid \in T
    OBVIOUS
  <2>2. st.clock - row(p).rowid <= st.clock - row(q).rowid
    BY <1>3, <1>4, <2>1
  <2> QED BY <1>1, <2>2
<1>6. (CHOOSE x \in S : P(x)) \in S
  <2> HIDE DEF P
  <2> QED BY <1>5
<1> QED BY <1>6 DEF Newest

LEMMA PreviousIsOwn ==
  ASSUME NEW st \in Store, Sourced(st), Coexist(st), Clocked(st), NEW s \in Spans, DocOf[s] \in st.docs,
         Alone(s), NEW c \in Configs
  PROVE  /\ PreviousAttempt(st, s, c) = NoAttempt
            \/ \E k \in Configs : SameModel(k, c) /\ PreviousAttempt(st, s, c) = st.attempts[s][k]
         /\ st.attempts[s][c].reason # "none" =>
              PreviousAttempt(st, s, c) = st.attempts[s][c]
<1>1. \A p \in Recorded(st) : p \in Spans \X Configs /\ DocOf[p[1]] \in st.docs
  BY DEF Recorded, Sourced
<1>2. \A p \in Recorded(st) : TextOf[p[1]] = TextOf[s] => p[1] = s
  <2> SUFFICES ASSUME NEW p \in Recorded(st), TextOf[p[1]] = TextOf[s] PROVE p[1] = s
    OBVIOUS
  <2>1. PICK found \in Folders : st.docs \subseteq found
    BY DEF Coexist
  <2>2. {DocOf[s], DocOf[p[1]]} \subseteq found /\ p[1] \in Spans
    BY <1>1, <2>1
  <2> QED BY <2>2 DEF Alone
<1>3. \A p \in ExactKey(st, s, c) \cup ContractMatch(st, s, c) :
        p[1] = s /\ p[2] \in Configs /\ SameModel(p[2], c)
  BY <1>1, <1>2 DEF ExactKey, ContractMatch, SameModel
<1>5. ExactKey(st, s, c) \subseteq {<<s, c>>}
  <2> SUFFICES ASSUME NEW p \in ExactKey(st, s, c) PROVE p = <<s, c>>
    OBVIOUS
  <2>1. p \in Spans \X Configs /\ p[1] = s /\ p[2] = c
    BY <1>1, <1>2 DEF ExactKey
  <2> QED BY <2>1
<1>6. CASE ExactKey(st, s, c) # {}
  <2>1. ExactKey(st, s, c) = {<<s, c>>}
    BY <1>5, <1>6
  <2>2. Newest(st, ExactKey(st, s, c)) = st.attempts[s][c]
    <3>1. PICK p \in ExactKey(st, s, c) :
            Newest(st, ExactKey(st, s, c)) = st.attempts[p[1]][p[2]]
      BY <1>6, NewestIsOne DEF ExactKey
    <3> QED BY <2>1, <3>1
  <2> QED BY <1>6, <2>1, <2>2 DEF PreviousAttempt, SameModel
<1>7. CASE ExactKey(st, s, c) = {}
  <2>1. st.attempts[s][c].reason = "none"
    <3>1. <<s, c>> \notin Recorded(st)
      BY <1>7 DEF ExactKey
    <3> QED BY <3>1 DEF Recorded
  <2>2. CASE ContractMatch(st, s, c) = {}
    BY <1>7, <2>1, <2>2 DEF PreviousAttempt
  <2>3. CASE ContractMatch(st, s, c) # {}
    <3>1. PICK p \in ContractMatch(st, s, c) :
            Newest(st, ContractMatch(st, s, c)) = st.attempts[p[1]][p[2]]
      BY <2>3, NewestIsOne DEF ContractMatch
    <3>2. p[1] = s /\ p[2] \in Configs /\ SameModel(p[2], c)
      BY <1>3
    <3>3. PreviousAttempt(st, s, c) = st.attempts[s][p[2]]
      BY <1>7, <2>3, <3>1, <3>2 DEF PreviousAttempt
    <3> QED BY <2>1, <3>2, <3>3
  <2> QED BY <2>2, <2>3
<1> QED BY <1>6, <1>7
-----------------------------------------------------------------------------
(* Verdicts.  The model is asked about a span that has a DRS with conditions *)
(* only if the DRS is of another configuration: that is why the answer, and  *)
(* a failure too, may take the row of this one.                              *)
Lives(s) ==
  db.drs[s].conds =>
    db.drs[s].by \in Configs /\ AttemptMaterialized(db.attempts[s][db.drs[s].by])
Foreign(s) == db.drs[s].conds => db.drs[s].by # config
Settled == Units(config, folder) \ (todo \cup cur)

Verdicts ==
  /\ pc # "idle" => folder \in Folders
  /\ pc = "record" => result.reason # "none"
  /\ reopens = 0 =>
       /\ Clocked(db)
       /\ \A s \in Spans : ~(pc = "record" /\ s \in cur) /\ Alone(s) => Lives(s)
       /\ pc = "call" => \A s \in cur : Alone(s) => Foreign(s)
       /\ pc = "record" => \A s \in cur : Alone(s) =>
            IF result.reason = "materialized" THEN db.drs[s] = [by |-> config, conds |-> result.conds]
            ELSE Lives(s) /\ Foreign(s)
       /\ pc \in {"spans", "call", "record"} =>
            \A s \in Settled : Alone(s) => Current(db, s, config)
  /\ CompletedIsCurrent

Known == TypeOK /\ Sources /\ Coverage /\ Ledger

LEMMA VerdictsInductive == Known /\ Verdicts /\ [Next]_vars => Verdicts'
<1> SUFFICES ASSUME Known, Verdicts, [Next]_vars PROVE Verdicts'
  OBVIOUS
<1> USE DEF Known
<1>0. CASE reopens' # 0
  <2>1. pc' # "idle" => folder' \in Folders
    BY DEF Verdicts, Next, IngestStep, Call, Begin, StoreDocuments, TakeSpan, CallAccepted,
           CallFailed, CallRaises, Record, Finish, Reopen, vars
  <2>2. pc' = "record" => result'.reason # "none"
    BY DEF Verdicts, Next, IngestStep, Call, Begin, StoreDocuments, TakeSpan, CallAccepted,
           CallFailed, CallRaises, Record, Finish, Reopen, vars
  <2> QED BY <1>0, <2>1, <2>2 DEF Verdicts, CompletedIsCurrent
<1> SUFFICES ASSUME reopens' = 0, reopens = 0 PROVE Verdicts'
  <2>1. reopens' = reopens \/ Reopen
    BY DEF Next, IngestStep, Call, Begin, StoreDocuments, TakeSpan, CallAccepted,
           CallFailed, CallRaises, Record, Finish, vars
  <2>2. Reopen => reopens' # 0
    BY DEF Reopen, TypeOK
  <2> QED BY <1>0, <2>1, <2>2
<1>a. db \in Store
  BY DEF TypeOK
<1>b. pc # "idle" => db.status # "completed"
  BY DEF Coverage
<1>1. ASSUME NEW c \in Configs, NEW found \in Folders, Begin(c, found) PROVE Verdicts'
  <2>1. db' = Prune(Resume(db), db.docs \ found) /\ pc = "idle" /\ pc' = "documents" /\ folder' = found
    BY <1>1 DEF Begin
  <2>2. /\ db'.status = "running" /\ db'.clock = db.clock
        /\ \A s \in Spans : \/ db'.drs[s] = db.drs[s] /\ db'.attempts[s] = db.attempts[s]
                            \/ db'.drs[s] = NoDrs /\ \A k \in Configs : db'.attempts[s][k] = NoAttempt
    BY <1>a, <2>1 DEF Prune, Resume, Store
  <2>3. Clocked(db')
    BY <1>a, <2>2 DEF Verdicts, Clocked, NoAttempt, Store
  <2>4. ASSUME NEW s \in Spans, Alone(s) PROVE Lives(s)'
    <3>1. CASE db'.drs[s] = db.drs[s] /\ db'.attempts[s] = db.attempts[s]
      <4>1. Lives(s)
        BY <2>1, <2>4 DEF Verdicts
      <4> QED BY <3>1, <4>1 DEF Lives
    <3>2. CASE db'.drs[s] = NoDrs
      BY <3>2 DEF Lives, NoDrs
    <3> QED BY <2>2, <3>1, <3>2
  <2> QED BY <2>1, <2>2, <2>3, <2>4 DEF Verdicts, CompletedIsCurrent
<1>2. CASE StoreDocuments
  <2>1. db'.drs = db.drs /\ db'.attempts = db.attempts /\ db'.clock = db.clock /\ db'.status = db.status
    BY <1>2 DEF StoreDocuments, TypeOK, Store
  <2>2. pc = "documents" /\ pc' = "spans" /\ Settled' = {} /\ UNCHANGED <<folder, config, cur, result>>
    BY <1>2 DEF StoreDocuments, Settled
  <2>3. Clocked(db') /\ \A s \in Spans : Alone(s) => Lives(s)'
    BY <2>1, <2>2 DEF Verdicts, Clocked, Lives
  <2>4. CompletedIsCurrent'
    BY <1>b, <2>1, <2>2 DEF CompletedIsCurrent
  <2> QED BY <2>2, <2>3, <2>4 DEF Verdicts
<1>3. ASSUME NEW s \in Spans, TakeSpan(s) PROVE Verdicts'
  <2>1. db'.drs = db.drs /\ db'.attempts = db.attempts /\ db'.clock = db.clock /\ db'.status = db.status
    BY <1>3 DEF TakeSpan, TypeOK, Store
  <2>2. /\ pc = "spans" /\ cur = {} /\ s \in todo /\ todo' = todo \ {s} /\ DocOf[s] \in db.docs
        /\ UNCHANGED <<folder, config, result>> /\ config \in Configs
    BY <1>3 DEF TakeSpan, Sources, TypeOK
  <2>3. Sourced(db) /\ Coexist(db) /\ Clocked(db) /\ Truthful(db, s) /\ (Alone(s) => Lives(s))
    BY <2>2
       DEF Sources, NoOrphanSemantics, Coverage, Coexist, Verdicts, Ledger, LedgerTellsTheTruth
  <2> DEFINE prev == PreviousAttempt(db, s, config)
  <2>4. Alone(s) =>
          /\ prev = NoAttempt \/ \E k \in Configs : SameModel(k, config) /\ prev = db.attempts[s][k]
          /\ db.attempts[s][config].reason # "none" => prev = db.attempts[s][config]
    BY <1>a, <2>2, <2>3, PreviousIsOwn
  <2> HIDE DEF prev
  <2>5. CASE AlreadyMaterialized(db, s, config) \/ FailedBefore(db, s, config)
    <3>1. pc' = "spans" /\ cur' = {}
      BY <1>3, <2>2, <2>5 DEF TakeSpan
    <3>2. ASSUME Alone(s) PROVE Current(db, s, config)
      <4>1. CASE AlreadyMaterialized(db, s, config)
        <5>1. prev.reason = "materialized" /\ prev.materialized
          BY <4>1 DEF AlreadyMaterialized, AttemptMaterialized, prev
        <5>2. PICK k \in Configs : SameModel(k, config) /\ prev = db.attempts[s][k]
          BY <2>4, <3>2, <5>1 DEF NoAttempt
        <5> QED BY <2>3, <5>1, <5>2 DEF Truthful, Current
      <4>2. CASE FailedBefore(db, s, config)
        <5>1. prev.reason = "rejected"
          BY <4>2 DEF FailedBefore, AttemptWasNonrequestFailure, prev
        <5>2. PICK k \in Configs : SameModel(k, config) /\ prev = db.attempts[s][k]
          BY <2>4, <3>2, <5>1 DEF NoAttempt
        <5> QED BY <5>1, <5>2 DEF Current
      <4> QED BY <2>5, <4>1, <4>2
    <3>3. \A t \in Settled' : Alone(t) => Current(db', t, config)
      BY <2>1, <2>2, <3>1, <3>2 DEF Settled, Verdicts, Current
    <3>4. \A t \in Spans : Alone(t) => Lives(t)'
      BY <2>1, <2>2 DEF Verdicts, Lives
    <3>5. Clocked(db') /\ CompletedIsCurrent'
      BY <1>b, <2>1, <2>2, <2>3 DEF Clocked, CompletedIsCurrent
    <3> QED BY <2>2, <3>1, <3>3, <3>4, <3>5 DEF Verdicts
  <2>6. CASE ~(AlreadyMaterialized(db, s, config) \/ FailedBefore(db, s, config))
    <3>1. pc' = "call" /\ cur' = {s}
      BY <1>3, <2>2, <2>6 DEF TakeSpan
    <3>2. ASSUME Alone(s), db.drs[s].conds PROVE db.drs[s].by # config
      <4> SUFFICES ASSUME db.drs[s].by = config PROVE FALSE
        OBVIOUS
      <4>1. AttemptMaterialized(db.attempts[s][config])
        BY <2>3, <3>2 DEF Lives
      <4>2. prev = db.attempts[s][config]
        BY <2>4, <3>2, <4>1 DEF AttemptMaterialized
      <4>3. ExistingDrs(db, s)
        BY <2>2, <3>2, ConstantsOK DEF ExistingDrs
      <4> QED BY <2>6, <4>1, <4>2, <4>3 DEF AlreadyMaterialized, prev
    <3>3. \A t \in Settled' : Alone(t) => Current(db', t, config)
      BY <2>1, <2>2, <3>1 DEF Settled, Verdicts, Current
    <3>4. \A t \in Spans : Alone(t) => Lives(t)'
      BY <2>1, <2>2 DEF Verdicts, Lives
    <3>5. Clocked(db') /\ CompletedIsCurrent'
      BY <1>b, <2>1, <2>2, <2>3 DEF Clocked, CompletedIsCurrent
    <3>6. \A t \in cur' : Alone(t) => Foreign(t)'
      BY <2>1, <2>2, <3>1, <3>2 DEF Foreign
    <3> QED BY <2>2, <3>1, <3>3, <3>4, <3>5, <3>6 DEF Verdicts
  <2> QED BY <2>5, <2>6
<1>4. ASSUME NEW s \in Spans, NEW b \in BOOLEAN, CallAccepted(s, b) PROVE Verdicts'
  <2>1. db' = Materialize(db, s, config, b) /\ pc = "call" /\ pc' = "record" /\ s \in cur /\ cur = {s}
    BY <1>4 DEF CallAccepted, Ledger
  <2>2. /\ db'.attempts = db.attempts /\ db'.clock = db.clock /\ db'.status = db.status
        /\ db'.drs[s] = [by |-> config, conds |-> b]
        /\ \A t \in Spans : t # s => db'.drs[t] = db.drs[t]
    BY <1>a, <2>1 DEF Materialize, Store
  <2>3. /\ UNCHANGED <<folder, config, todo, cur, done>>
        /\ result' = [reason |-> "materialized", conds |-> b]
    BY <1>4 DEF CallAccepted
  <2>4. Clocked(db') /\ CompletedIsCurrent'
    BY <1>b, <2>1, <2>2 DEF Verdicts, Clocked, CompletedIsCurrent
  <2>5. \A t \in Spans : t \notin cur /\ Alone(t) => Lives(t)'
    BY <2>1, <2>2 DEF Verdicts, Lives
  <2>6. \A t \in Settled' : Alone(t) => Current(db', t, config)
    <3>1. Settled' = Settled /\ Settled \subseteq Spans /\ s \notin Settled
      BY <2>1, <2>3, ConstantsOK DEF Settled, Units, Coverage, Sources, TypeOK, Store
    <3> QED BY <2>1, <2>2, <3>1 DEF Verdicts, Current
  <2> QED BY <2>1, <2>2, <2>3, <2>4, <2>5, <2>6 DEF Verdicts
<1>5. ASSUME NEW r \in {"rejected", "transient"}, CallFailed(r) PROVE Verdicts'
  <2>1. /\ UNCHANGED <<db, folder, config, todo, cur, done>> /\ pc = "call" /\ pc' = "record"
        /\ result'.reason = r /\ cur \subseteq Spans
    BY <1>5 DEF CallFailed, TypeOK
  <2>2. \A s \in cur : Alone(s) => Lives(s) /\ Foreign(s)
    BY <2>1 DEF Verdicts
  <2> QED BY <2>1, <2>2 DEF Verdicts, Settled, Lives, Foreign, CompletedIsCurrent, DoneUnits
<1>6. CASE CallRaises
  BY <1>6, <1>b DEF CallRaises, Verdicts, Lives, CompletedIsCurrent
<1>7. ASSUME NEW s \in Spans, Record(s) PROVE Verdicts'
  <2>1. /\ cur = {s} /\ cur' = {} /\ pc = "record" /\ pc' = "spans" /\ config \in Configs
        /\ UNCHANGED <<folder, config, todo, done>> /\ result \in Results
    BY <1>7 DEF Record, Ledger, TypeOK
  <2>2. /\ db'.drs = db.drs /\ db'.status = db.status /\ db'.clock = db.clock + 1
        /\ \A t \in Spans : t # s => db'.attempts[t] = db.attempts[t]
        /\ \A k \in Configs : db'.attempts[s][k].rowid \in {db.attempts[s][k].rowid, db.clock + 1}
        /\ db'.attempts[s][config] =
             [reason |-> result.reason, materialized |-> (result.reason = "materialized"),
              conds |-> result.conds, rowid |-> db.clock + 1]
    <3>1. CASE result.reason = "materialized"
      <4> DEFINE st == DeactivateOthers(db, s, config)
      <4>1. db' = RecordAttempt(st, s, config, result)
        BY <1>7, <3>1 DEF Record
      <4>2. /\ st \in Store /\ st.drs = db.drs /\ st.status = db.status /\ st.clock = db.clock
            /\ \A t \in Spans : t # s => st.attempts[t] = db.attempts[t]
        <5> DEFINE f == [k \in Configs |-> IF k = config THEN db.attempts[s][k]
                                           ELSE [db.attempts[s][k] EXCEPT !.materialized = FALSE]]
        <5>1. st = [db EXCEPT !.attempts = [db.attempts EXCEPT ![s] = f]]
          BY <1>a DEF DeactivateOthers, Store
        <5>2. f \in [Configs -> Attempt]
          <6>1. ASSUME NEW a \in Attempt PROVE [a EXCEPT !.materialized = FALSE] \in Attempt
            BY DEF Attempt
          <6>2. \A k \in Configs : db.attempts[s][k] \in Attempt
            BY <1>a DEF Store
          <6> QED BY <6>1, <6>2
        <5> HIDE DEF f, st
        <5> QED BY <1>a, <5>1, <5>2 DEF Store
      <4>3. \A k \in Configs : st.attempts[s][k].rowid = db.attempts[s][k].rowid
        BY <1>a DEF DeactivateOthers, Store, Attempt
      <4> HIDE DEF st
      <4>4. /\ db'.drs = st.drs /\ db'.status = st.status /\ db'.clock = st.clock + 1
            /\ \A t \in Spans : t # s => db'.attempts[t] = st.attempts[t]
            /\ \A k \in Configs : k # config => db'.attempts[s][k] = st.attempts[s][k]
            /\ db'.attempts[s][config] = NewRow(st, result)
        BY <2>1, <4>1, <4>2 DEF RecordAttempt, Store
      <4> QED BY <4>2, <4>3, <4>4 DEF NewRow
    <3>2. CASE result.reason # "materialized"
      BY <1>7, <1>a, <2>1, <3>2 DEF Record, RecordAttempt, NewRow, Store, Attempt
    <3> QED BY <3>1, <3>2
  <2>3. result.reason # "materialized" =>
          \A k \in Configs : k # config => db'.attempts[s][k] = db.attempts[s][k]
    BY <1>7, <1>a, <2>1 DEF Record, RecordAttempt, Store
  <2>4. Clocked(db')
    <3>1. \A t \in Spans, k \in Configs : db.attempts[t][k].rowid \in Nat /\ db.clock \in Nat
      BY <1>a DEF Store, Attempt
    <3> QED BY <2>2, <3>1 DEF Verdicts, Clocked
  <2>5. \A t \in Spans : Alone(t) => Lives(t)'
    <3> SUFFICES ASSUME NEW t \in Spans, Alone(t) PROVE Lives(t)'
      OBVIOUS
    <3>1. CASE t # s
      <4>1. Lives(t)
        BY <2>1, <3>1 DEF Verdicts
      <4>2. db'.drs[t] = db.drs[t] /\ db'.attempts[t] = db.attempts[t]
        BY <2>2, <3>1
      <4> QED BY <4>1, <4>2 DEF Lives
    <3>2. CASE t = s /\ result.reason = "materialized"
      <4>1. db.drs[s].by = config /\ db.drs[s].conds = result.conds
        BY <2>1, <3>2 DEF Verdicts
      <4>2. db'.attempts[s][config].reason = "materialized"
            /\ db'.attempts[s][config].materialized
            /\ db'.attempts[s][config].conds = result.conds
        <5>1. (result.reason = "materialized") = TRUE
          BY <3>2
        <5>2. db'.attempts[s][config] = [reason |-> result.reason, materialized |-> TRUE,
                                         conds |-> result.conds, rowid |-> db.clock + 1]
          BY <2>2, <5>1
        <5> QED BY <3>2, <5>2
      <4>3. db'.drs[s].by = config /\ db'.drs[s].conds = result.conds
        BY <2>2, <4>1
      <4> SUFFICES ASSUME db'.drs[s].conds
                   PROVE db'.drs[s].by \in Configs /\ AttemptMaterialized(db'.attempts[s][db'.drs[s].by])
        BY <3>2 DEF Lives
      <4>4. db'.attempts[s][config].conds
        BY <4>2, <4>3
      <4>5. AttemptMaterialized(db'.attempts[s][config])
        BY <4>2, <4>4 DEF AttemptMaterialized
      <4> QED BY <2>1, <4>3, <4>5
    <3>3. CASE t = s /\ result.reason # "materialized"
      <4>1. Lives(s) /\ Foreign(s)
        BY <2>1, <3>3 DEF Verdicts
      <4> QED BY <2>1, <2>2, <2>3, <3>3, <4>1 DEF Lives, Foreign
    <3> QED BY <3>1, <3>2, <3>3
  <2>6. \A t \in Settled' : Alone(t) => Current(db', t, config)
    <3> SUFFICES ASSUME NEW t \in Settled', Alone(t) PROVE Current(db', t, config)
      OBVIOUS
    <3>1. t \in Spans
      BY <2>1, ConstantsOK DEF Settled, Units, Coverage, Sources, TypeOK, Store
    <3>2. CASE t # s
      BY <2>1, <2>2, <3>1, <3>2 DEF Verdicts, Settled, Current
    <3>3. CASE t = s
      <4>1. result.reason \in {"rejected", "transient"} \/ db.drs[s].by = config
        BY <2>1, <3>3 DEF Verdicts, Results
      <4> QED BY <2>1, <2>2, <3>3, <4>1 DEF Current, SameModel
    <3> QED BY <3>2, <3>3
  <2>7. CompletedIsCurrent'
    BY <1>b, <2>1, <2>2 DEF CompletedIsCurrent
  <2> QED BY <2>1, <2>4, <2>5, <2>6, <2>7 DEF Verdicts
<1>8. CASE Finish
  <2>1. /\ db'.drs = db.drs /\ db'.attempts = db.attempts /\ db'.clock = db.clock
        /\ pc = "spans" /\ pc' = "idle" /\ todo = {} /\ cur = {}
        /\ done' = [folder |-> folder, config |-> config]
    BY <1>8, <1>a DEF Finish, Sources, NoOrphanSemantics, Store
  <2>2. \A s \in Units(config, folder) : Alone(s) => Current(db, s, config)
    BY <2>1 DEF Verdicts, Settled
  <2>3. CompletedIsCurrent'
    BY <2>1, <2>2 DEF CompletedIsCurrent, DoneUnits, Current
  <2>4. Clocked(db') /\ \A s \in Spans : Alone(s) => Lives(s)'
    BY <2>1 DEF Verdicts, Clocked, Lives
  <2> QED BY <2>1, <2>3, <2>4 DEF Verdicts
<1>9. CASE Reopen
  BY <1>9 DEF Reopen, TypeOK
<1>10. CASE UNCHANGED vars
  BY <1>10 DEF vars, Verdicts, Lives, Foreign, Settled, CompletedIsCurrent, DoneUnits
<1> QED BY <1>1, <1>2, <1>3, <1>4, <1>5, <1>6, <1>7, <1>8, <1>9, <1>10 DEF Next, IngestStep, Call

(* What the ledger says of a text and its live DRS agree, all through an      *)
(* ingestion (_ingest_model_drs_for_sentence).                                *)
THEOREM VerdictsHold == Spec => []Verdicts
<1>1. Init => Sources /\ Coverage /\ Ledger
  BY DEF Init, Sources, NoOrphanSemantics, Sourced, EmptyStore, NoDrs, NoAttempt, Coverage,
         CompletedIsWhole, Ledger, LedgerTellsTheTruth, Truthful
<1>2. Init => Verdicts
  BY DEF Init, Verdicts, Clocked, Lives, CompletedIsCurrent, EmptyStore, NoDrs, NoAttempt
<1>3. TypeOK /\ TypeOK' /\ Sources /\ Coverage /\ Ledger /\ [Next]_vars =>
        Sources' /\ Coverage' /\ Ledger'
  BY SourcesInductive, CoverageInductive, LedgerInductive DEF Sources
<1>4. TypeOK /\ Sources /\ Coverage /\ Ledger /\ Verdicts /\ [Next]_vars => Verdicts'
  BY VerdictsInductive DEF Known
<1> QED BY <1>1, <1>2, <1>3, <1>4, TypeCorrect, PTL DEF Spec

(* A live DRS with conditions whose text is alone has its row, marked        *)
(* materialized, until the store is reopened (materialize, deactivate and    *)
(* insert in _ingest_model_drs_for_sentence).                                *)
THEOREM LiveRecorded == Spec => []LiveIsRecorded
<1>1. TypeOK /\ Verdicts => LiveIsRecorded
  BY DEF Verdicts, Lives, LiveIsRecorded, AttemptMaterialized
<1> QED BY <1>1, TypeCorrect, VerdictsHold, PTL

(* A completed ingestion speaks for its own model (the look-up before the    *)
(* call in _ingest_model_drs_for_sentence, finish_run).                      *)
THEOREM CompletedCurrent == Spec => []CompletedIsCurrent
<1>1. Verdicts => CompletedIsCurrent
  BY DEF Verdicts
<1> QED BY <1>1, VerdictsHold, PTL
-----------------------------------------------------------------------------
(* How many steps an ingestion has left, at most: three for every sentence,  *)
(* and those around them.                                                    *)
Left ==
  LET n == Cardinality(todo)
  IN [idle |-> 0, spans |-> 3 * n + 1, record |-> 3 * n + 2, call |-> 3 * n + 3,
      documents |-> 3 * Cardinality(Spans) + 2][pc]
IngestShortens == [][pc # "idle" => Left' \in Nat /\ Left' < Left]_vars

LEMMA LeftAt ==
  ASSUME IsFiniteSet(Spans), TypeOK
  PROVE  /\ Cardinality(todo) \in Nat /\ Cardinality(Spans) \in Nat
         /\ Cardinality(todo) <= Cardinality(Spans) /\ IsFiniteSet(todo)
         /\ pc = "idle" => Left = 0
         /\ pc = "spans" => Left = 3 * Cardinality(todo) + 1
         /\ pc = "record" => Left = 3 * Cardinality(todo) + 2
         /\ pc = "call" => Left = 3 * Cardinality(todo) + 3
         /\ pc = "documents" => Left = 3 * Cardinality(Spans) + 2
BY FS_CardinalityType, FS_Subset DEF TypeOK, Left

(* ingest_folder comes to an end on a folder of finitely many sentences: each *)
(* of its steps, whatever the model answers, leaves fewer to take, and the    *)
(* loop never goes back to a sentence it took.                                *)
THEOREM Shortens == ASSUME IsFiniteSet(Spans) PROVE Spec => IngestShortens
<1>1. TypeOK /\ TypeOK' /\ [Next]_vars => [pc # "idle" => Left' \in Nat /\ Left' < Left]_vars
  <2> SUFFICES ASSUME TypeOK, TypeOK', Next, pc # "idle" PROVE Left' \in Nat /\ Left' < Left
    OBVIOUS
  <2> DEFINE n == Cardinality(todo) m == Cardinality(todo') all == Cardinality(Spans)
  <2>1. n \in Nat /\ all \in Nat /\ n <= all /\ IsFiniteSet(todo)
    BY LeftAt
  <2>2. /\ pc = "spans" => Left = 3 * n + 1
        /\ pc = "record" => Left = 3 * n + 2
        /\ pc = "call" => Left = 3 * n + 3
        /\ pc = "documents" => Left = 3 * all + 2
    BY LeftAt
  <2>3. /\ m \in Nat /\ m <= all
        /\ pc' = "idle" => Left' = 0
        /\ pc' = "spans" => Left' = 3 * m + 1
        /\ pc' = "record" => Left' = 3 * m + 2
        /\ pc' = "call" => Left' = 3 * m + 3
    <3>1. IsFiniteSet(todo') /\ m \in Nat /\ m <= all
      BY FS_CardinalityType, FS_Subset DEF TypeOK
    <3> QED BY <3>1 DEF Left
  <2>4. CASE StoreDocuments
    BY <2>1, <2>2, <2>3, <2>4 DEF StoreDocuments
  <2>5. ASSUME NEW s \in Spans, TakeSpan(s) PROVE Left' \in Nat /\ Left' < Left
    <3>1. m = n - 1
      BY <2>1, <2>5, FS_RemoveElement DEF TakeSpan
    <3>2. pc' \in {"spans", "call"} /\ pc = "spans"
      BY <2>5 DEF TakeSpan
    <3> QED BY <2>1, <2>2, <2>3, <3>1, <3>2
  <2>6. CASE Call
    <3>1. pc = "call" /\ (pc' = "idle" \/ (pc' = "record" /\ todo' = todo))
      BY <2>6 DEF Call, CallAccepted, CallFailed, CallRaises
    <3> QED BY <2>1, <2>2, <2>3, <3>1
  <2>7. ASSUME NEW s \in Spans, Record(s) PROVE Left' \in Nat /\ Left' < Left
    <3>1. pc = "record" /\ pc' = "spans" /\ todo' = todo
      BY <2>7 DEF Record
    <3> QED BY <2>1, <2>2, <2>3, <3>1
  <2>8. CASE pc' = "idle"
    <3>1. pc \in {"documents", "spans", "call", "record"}
      BY DEF TypeOK
    <3> QED BY <2>1, <2>2, <2>3, <2>8, <3>1
  <2>9. ASSUME Finish \/ Reopen PROVE pc' = "idle"
    BY <2>9 DEF Finish, Reopen
  <2> QED BY <2>4, <2>5, <2>6, <2>7, <2>8, <2>9 DEF Next, IngestStep, Begin
<1> QED BY <1>1, TypeCorrect, PTL DEF Spec, IngestShortens
-----------------------------------------------------------------------------
(* The frames of the same store and the ledger of their attempts, for any    *)
(* spans, cache contexts and bound: an instance of FrameLedger.  FrameBounds *)
(* is what that module assumes of its constants.                             *)
(*                                                                           *)
(* The frames of a store say what they should as long as they are inserted   *)
(* only where there are none: between the deletion of a span's frames and    *)
(* the insertion of the new ones (stage "ask" and "insert") nothing else may *)
(* give it frames.  What a completed ingestion explains is collected span by *)
(* span: those behind it, but for the one in hand.                           *)
CONSTANTS Keys, MaxSessions

VARIABLES medium, again, cache, task, key, unread, at, got, sent, sessions, crashes

Frames == INSTANCE FrameLedger WITH todo <- unread, cur <- at

FrameBounds ==
  FrameSpans \subseteq Nat /\ IsFiniteSet(FrameSpans) /\ NoKey \notin Keys /\ MaxSessions \in Nat

(* Rows of one store. *)
FramesRecorded(st) == \A s \in FrameSpans : \A k \in st.frames[s] :
                  st.attempts[s][k] = [reason |-> "full", live |-> TRUE]
Single(st) == \A s \in FrameSpans : \A j, k \in st.frames[s] : j = k
LiveIsFull(st) == \A s \in FrameSpans, k \in Keys :
                    st.attempts[s][k].live => st.attempts[s][k].reason = "full"
Sound(st) == st \in Frames!Store /\ FramesRecorded(st) /\ Single(st) /\ LiveIsFull(st)

Explained(s, k) ==
  frameDb.frames[s] = {} => ~frameDb.attempts[s][k].live /\ frameDb.attempts[s][k].reason # "none"

Awaited == stage \in {"ask", "insert"}

(* The session: what holds between its steps. *)
InHand ==
  /\ stage # "idle" => key \in Keys /\ complete = NoKey
  /\ Awaited => at \in FrameSpans /\ frameDb.frames[at] = {}
  /\ stage = "insert" => got \in Frames!Outcomes
Behind ==
  stage # "idle" /\ task = "ingest" =>
    \A s \in FrameSpans \ unread : (Awaited /\ s = at) \/ Explained(s, key)
Heard == ~twice /\ \A p \in sent : cache[p] # "none"

FramesInv ==
  /\ Frames!TypeOK /\ Sound(frameDb) /\ Sound(frameDisk)
  /\ InHand /\ Behind /\ Heard /\ CompletedIsExplained
-----------------------------------------------------------------------------
(* What each operation on rows keeps. *)

LEMMA DeleteSound ==
  ASSUME NEW st \in Frames!Store, Sound(st), NEW s \in FrameSpans, NEW k \in Keys
  PROVE  LET new == Frames!DeleteFrames(st, s, k)
         IN /\ Sound(new) /\ new.frames[s] = {} /\ new.attempts = st.attempts
            /\ \A t \in FrameSpans \ {s} : new.frames[t] = st.frames[t]
<1> DEFINE new == Frames!DeleteFrames(st, s, k)
<1>1. /\ new \in Frames!Store /\ new.attempts = st.attempts
      /\ new.frames = [st.frames EXCEPT ![s] = {}]
  BY DEF Frames!DeleteFrames, Frames!Store
<1>2. \A t \in FrameSpans : new.frames[t] = IF t = s THEN {} ELSE st.frames[t]
  BY <1>1 DEF Frames!Store
<1>3. QED
  BY <1>1, <1>2 DEF Sound, FramesRecorded, Single, LiveIsFull

LEMMA DeactivateSound ==
  ASSUME NEW st \in Frames!Store, Sound(st), NEW s \in FrameSpans, NEW k \in Keys,
         st.frames[s] = {}
  PROVE  LET new == Frames!DeactivateOthers(st, s, k)
         IN /\ Sound(new) /\ new.frames = st.frames
            /\ new.attempts[s][k] = st.attempts[s][k]
            /\ \A t \in FrameSpans \ {s} : new.attempts[t] = st.attempts[t]
<1> DEFINE new == Frames!DeactivateOthers(st, s, k)
           row == [j \in Keys |-> IF j = k THEN st.attempts[s][j]
                                  ELSE [st.attempts[s][j] EXCEPT !.live = FALSE]]
<1>a. \A t \in FrameSpans, j \in Keys : st.attempts[t][j] \in Frames!Attempt
  BY DEF Frames!Store
<1>1. \A j \in Keys : /\ [st.attempts[s][j] EXCEPT !.live = FALSE] \in Frames!Attempt
                      /\ [st.attempts[s][j] EXCEPT !.live = FALSE].live = FALSE
  BY <1>a DEF Frames!Attempt
<1>2. row \in [Keys -> Frames!Attempt]
  BY <1>a, <1>1
<1>3. new.attempts = [st.attempts EXCEPT ![s] = row] /\ new.frames = st.frames
  BY DEF Frames!DeactivateOthers, Frames!Store
<1>4. new \in Frames!Store
  BY <1>2 DEF Frames!DeactivateOthers, Frames!Store
<1>5. \A t \in FrameSpans : new.attempts[t] = IF t = s THEN row ELSE st.attempts[t]
  BY <1>3 DEF Frames!Store
<1>6. LiveIsFull(new)
  <2> SUFFICES ASSUME NEW t \in FrameSpans, NEW j \in Keys, new.attempts[t][j].live
               PROVE  new.attempts[t][j].reason = "full"
    BY DEF LiveIsFull
  <2>1. CASE t # s \/ j = k
    <3>1. new.attempts[t][j] = st.attempts[t][j]
      BY <1>5, <2>1
    <3>2. QED
      BY <3>1 DEF Sound, LiveIsFull
  <2>2. CASE t = s /\ j # k
    <3>1. new.attempts[t][j] = [st.attempts[s][j] EXCEPT !.live = FALSE]
      BY <1>5, <2>2
    <3>2. QED
      BY <3>1, <1>1
  <2>3. QED
    BY <2>1, <2>2
<1>7. FramesRecorded(new) /\ Single(new)
  BY <1>3, <1>5 DEF Sound, FramesRecorded, Single
<1>8. QED
  BY <1>3, <1>4, <1>5, <1>6, <1>7 DEF Sound

LEMMA InsertSound ==
  ASSUME NEW st \in Frames!Store, Sound(st), NEW s \in FrameSpans, NEW k \in Keys,
         NEW o \in Frames!Outcomes,
         st.frames[s] = {}
  PROVE  LET new == Frames!Record(Frames!InsertFrames(st, s, k, o), s, k, o)
         IN /\ Sound(new)
            /\ new.frames[s] = {} =>
                 ~new.attempts[s][k].live /\ new.attempts[s][k].reason # "none"
            /\ \A t \in FrameSpans \ {s} :
                 new.frames[t] = st.frames[t] /\ new.attempts[t] = st.attempts[t]
<1> DEFINE mid == Frames!InsertFrames(st, s, k, o)
           new == Frames!Record(mid, s, k, o)
           row == [reason |-> o, live |-> (o = "full")]
<1>1. row \in Frames!Attempt /\ row.live = (o = "full") /\ row.reason = o /\ o # "none"
  BY DEF Frames!Attempt, Frames!Outcomes, Frames!Answers, Frames!Accepted
<1>2. /\ mid \in Frames!Store /\ mid.attempts = st.attempts
      /\ \A t \in FrameSpans : mid.frames[t] = IF t = s /\ o = "full" THEN {k} ELSE st.frames[t]
  BY DEF Frames!InsertFrames, Frames!Store
<1>3. /\ new \in Frames!Store /\ new.frames = mid.frames
      /\ new.attempts = [st.attempts EXCEPT ![s] = [st.attempts[s] EXCEPT ![k] = row]]
  BY <1>1, <1>2 DEF Frames!Record, Frames!Store
<1>4. \A t \in FrameSpans, j \in Keys :
        new.attempts[t][j] = IF t = s /\ j = k THEN row ELSE st.attempts[t][j]
  BY <1>3 DEF Frames!Store
<1>5. \A t \in FrameSpans \ {s} : new.attempts[t] = st.attempts[t]
  BY <1>3 DEF Frames!Store
<1>6. LiveIsFull(new)
  <2> SUFFICES ASSUME NEW t \in FrameSpans, NEW j \in Keys, new.attempts[t][j].live
               PROVE  new.attempts[t][j].reason = "full"
    BY DEF LiveIsFull
  <2>1. CASE t = s /\ j = k
    <3>1. new.attempts[t][j] = row
      BY <1>4, <2>1
    <3>2. QED
      BY <3>1, <1>1
  <2>2. CASE ~(t = s /\ j = k)
    <3>1. new.attempts[t][j] = st.attempts[t][j]
      BY <1>4, <2>2
    <3>2. QED
      BY <3>1 DEF Sound, LiveIsFull
  <2>3. QED
    BY <2>1, <2>2
<1>7. FramesRecorded(new)
  <2> SUFFICES ASSUME NEW t \in FrameSpans, NEW j \in new.frames[t]
               PROVE  new.attempts[t][j] = [reason |-> "full", live |-> TRUE]
    BY DEF FramesRecorded
  <2>1. CASE t = s /\ o = "full"
    <3>1. j = k /\ row = [reason |-> "full", live |-> TRUE]
      BY <1>2, <1>3, <2>1
    <3>2. QED
      BY <3>1, <1>4, <2>1
  <2>2. CASE t = s /\ o # "full"
    BY <1>2, <1>3, <2>2
  <2>3. CASE t # s
    <3>1. j \in st.frames[t] /\ j \in Keys
      BY <1>2, <1>3, <2>3 DEF Frames!Store
    <3>2. new.attempts[t][j] = st.attempts[t][j]
      BY <1>4, <3>1, <2>3
    <3>3. QED
      BY <3>1, <3>2 DEF Sound, FramesRecorded
  <2>4. QED
    BY <2>1, <2>2, <2>3
<1>8. Single(new)
  BY <1>2, <1>3 DEF Sound, Single
<1>9. new.frames[s] = {} => ~new.attempts[s][k].live /\ new.attempts[s][k].reason # "none"
  <2>1. new.attempts[s][k] = row
    BY <1>4
  <2>2. o = "full" => new.frames[s] = {k}
    BY <1>2, <1>3
  <2>3. QED
    BY <2>1, <2>2, <1>1
<1>10. QED
  BY <1>2, <1>3, <1>5, <1>6, <1>7, <1>8, <1>9 DEF Sound
-----------------------------------------------------------------------------
(* The empty store. *)
LEMMA EmptySound == Sound(Frames!EmptyStore)
<1>1. Frames!NoAttempt \in Frames!Attempt /\ Frames!NoAttempt.live = FALSE
  BY DEF Frames!NoAttempt, Frames!Attempt
<1>2. Frames!EmptyStore \in Frames!Store
  BY <1>1 DEF Frames!EmptyStore, Frames!Store
<1>3. /\ \A s \in FrameSpans : Frames!EmptyStore.frames[s] = {}
      /\ \A s \in FrameSpans, k \in Keys : Frames!EmptyStore.attempts[s][k] = Frames!NoAttempt
  BY DEF Frames!EmptyStore
<1>4. QED
  BY <1>1, <1>2, <1>3 DEF Sound, FramesRecorded, Single, LiveIsFull
-----------------------------------------------------------------------------
(* The invariant is inductive. *)

LEMMA FramesInitInv ==
  ASSUME FrameBounds PROVE Frames!Init => FramesInv
<1> SUFFICES ASSUME Frames!Init PROVE FramesInv
  OBVIOUS
<1>1. Sound(frameDb) /\ Sound(frameDisk) /\ Frames!EmptyStore \in Frames!Store
  BY EmptySound DEF Frames!Init, Sound
<1>2. Frames!TypeOK
  <2>1. medium \in {"file", "memory"} /\ again \in BOOLEAN /\ twice \in BOOLEAN
    BY DEF Frames!Init
  <2>2. frameDb \in Frames!Store /\ frameDisk \in Frames!Store
    BY <1>1 DEF Frames!Init
  <2>3. cache \in [FrameSpans \X Keys -> {"none"} \cup Frames!Answers]
    BY DEF Frames!Init
  <2>4. sessions \in 0..MaxSessions /\ crashes \in 0..MaxSessions
    BY DEF FrameBounds, Frames!Init
  <2>5. /\ stage \in {"idle", "span", "ask", "insert", "end"} /\ task \in {"ingest", "question"}
        /\ key \in Keys \cup {NoKey} /\ unread \subseteq FrameSpans /\ at \in FrameSpans \cup {0}
        /\ got \in {"none"} \cup Frames!Outcomes /\ complete \in Keys \cup {NoKey}
        /\ sent \subseteq FrameSpans \X Keys
    BY DEF Frames!Init
  <2>6. QED
    BY <2>1, <2>2, <2>3, <2>4, <2>5 DEF Frames!TypeOK
<1>3. InHand /\ Behind /\ Heard /\ CompletedIsExplained
  BY DEF Frames!Init, InHand, Behind, Awaited, Heard, CompletedIsExplained
<1>4. QED
  BY <1>1, <1>2, <1>3 DEF FramesInv

(* Steps that leave the rows the connection sees, and what it waits for. *)
LEMMA StartInv ==
  ASSUME FrameBounds
  PROVE  FramesInv /\ (\E k \in Keys : Frames!Ingest(k) \/ Frames!Ask(k)) => FramesInv'
<1> SUFFICES ASSUME FramesInv, NEW k \in Keys, Frames!Ingest(k) \/ Frames!Ask(k) PROVE FramesInv'
  OBVIOUS
<1>1. PICK name \in {"ingest", "question"}, spans \in SUBSET FrameSpans :
        Frames!Start(name, k, spans) /\ (name = "ingest" => spans = FrameSpans)
  BY DEF Frames!Ingest, Frames!Ask
<1>2. Frames!TypeOK'
  BY <1>1 DEF FrameBounds, FramesInv, Frames!TypeOK, Frames!Start
<1>3. Sound(frameDb)' /\ Sound(frameDisk)'
  BY <1>1 DEF FramesInv, Frames!Start
<1>4. InHand' /\ Behind'
  BY <1>1 DEF Frames!Start, InHand, Behind, Awaited
<1>5. Heard' /\ CompletedIsExplained'
  BY <1>1 DEF FramesInv, Frames!Start, Heard, CompletedIsExplained
<1>6. QED
  BY <1>2, <1>3, <1>4, <1>5 DEF FramesInv

LEMMA ReuseInv == FramesInv /\ Frames!Reuse => FramesInv'
<1> SUFFICES ASSUME FramesInv, Frames!Reuse PROVE FramesInv'
  OBVIOUS
<1>1. PICK s \in unread : /\ Frames!Reusable(s) /\ at' = s /\ unread' = unread \ {s}
  BY DEF Frames!Reuse, Frames!Rest
<1>2. Frames!TypeOK'
  BY <1>1 DEF FramesInv, Frames!TypeOK, Frames!Reuse, Frames!ghosts
<1>3. Sound(frameDb)' /\ Sound(frameDisk)'
  BY DEF FramesInv, Frames!Reuse
<1>4. InHand' /\ Heard' /\ CompletedIsExplained'
  BY DEF FramesInv, Frames!Reuse, InHand, Awaited, Heard, CompletedIsExplained,
         Frames!ghosts
<1>5. Behind'
  <2>1. frameDb.frames[s] # {}
    BY <1>1 DEF Frames!Reusable
  <2>2. QED
    BY <1>1, <2>1 DEF FramesInv, Frames!Reuse, Behind, Awaited, Explained
<1>6. QED
  BY <1>2, <1>3, <1>4, <1>5 DEF FramesInv

LEMMA ReplaceInv == FramesInv /\ Frames!Replace => FramesInv'
<1> SUFFICES ASSUME FramesInv, Frames!Replace PROVE FramesInv'
  OBVIOUS
<1>1. PICK s \in unread : /\ ~Frames!Reusable(s) /\ Frames!Clear(s)
                          /\ at' = s /\ unread' = unread \ {s}
                        /\ stage' = IF Frames!Failed(s) THEN "end" ELSE "ask"
  BY DEF Frames!Replace, Frames!Rest
<1>2. /\ s \in FrameSpans /\ key \in Keys /\ complete = NoKey
      /\ stage = "span" /\ stage' \in {"end", "ask"}
  BY <1>1 DEF FramesInv, InHand, Frames!TypeOK, Frames!Replace
<1>3. /\ Sound(frameDb') /\ Sound(frameDisk') /\ frameDb'.frames[s] = {}
      /\ frameDb'.attempts[s][key] = frameDb.attempts[s][key]
      /\ \A t \in FrameSpans \ {s} : /\ frameDb'.frames[t] = frameDb.frames[t]
                                     /\ frameDb'.attempts[t] = frameDb.attempts[t]
  <2>1. CASE frameDb.frames[s] = {}
    BY <1>1, <2>1 DEF Frames!Clear, FramesInv
  <2>2. CASE frameDb.frames[s] # {}
    <3> DEFINE mid == Frames!DeleteFrames(frameDb, s, key)
    <3>1. frameDb \in Frames!Store /\ Sound(frameDb) /\ Sound(frameDisk)
      BY DEF FramesInv, Sound
    <3>2. /\ Sound(mid) /\ mid.frames[s] = {} /\ mid.attempts = frameDb.attempts
          /\ \A t \in FrameSpans \ {s} : mid.frames[t] = frameDb.frames[t]
      BY <3>1, <1>2, DeleteSound
    <3>3. frameDb' = Frames!DeactivateOthers(mid, s, key) /\ frameDisk' \in {mid, frameDisk}
      BY <1>1, <2>2 DEF Frames!Clear, Frames!Commit
    <3>4. mid \in Frames!Store
      BY <3>2 DEF Sound
    <3>5. /\ Sound(frameDb') /\ frameDb'.frames = mid.frames
          /\ frameDb'.attempts[s][key] = mid.attempts[s][key]
          /\ \A t \in FrameSpans \ {s} : frameDb'.attempts[t] = mid.attempts[t]
      BY <3>2, <3>3, <3>4, <1>2, DeactivateSound
    <3>6. QED
      BY <3>1, <3>2, <3>3, <3>5
  <2>3. QED
    BY <2>1, <2>2
<1>4. Frames!TypeOK'
  <2>1. frameDb' \in Frames!Store /\ frameDisk' \in Frames!Store
    BY <1>3 DEF Sound
  <2>2. QED
    BY <1>1, <1>2, <2>1 DEF FramesInv, Frames!TypeOK, Frames!Replace, Frames!ghosts
<1>5. InHand' /\ Heard' /\ CompletedIsExplained'
  BY <1>1, <1>2, <1>3
     DEF FramesInv, Frames!Replace, InHand, Awaited, Heard, CompletedIsExplained,
         Frames!ghosts
<1>6. Behind'
  <2> SUFFICES ASSUME task = "ingest", NEW t \in FrameSpans \ unread', ~(Awaited' /\ t = at')
               PROVE  Explained(t, key)'
    BY DEF Behind, Frames!Replace
  <2>1. CASE t = s
    <3>1. stage' = "end" /\ Frames!Failed(s)
      BY <1>1, <2>1 DEF Awaited
    <3>2. frameDb.attempts[s][key].reason = "ungrounded" /\ ~frameDb.attempts[s][key].live
      BY <3>1, <1>2 DEF Frames!Failed, FramesInv, Sound, LiveIsFull
    <3>3. QED
      BY <2>1, <3>2, <1>3 DEF Explained, Frames!Replace
  <2>2. CASE t # s
    <3>1. Explained(t, key)
      BY <1>1, <1>2, <2>2 DEF FramesInv, Behind, Awaited
    <3>2. frameDb'.frames[t] = frameDb.frames[t] /\ frameDb'.attempts[t] = frameDb.attempts[t]
      BY <1>3, <2>2
    <3>3. QED
      BY <3>1, <3>2 DEF Explained, Frames!Replace
  <2>3. QED
    BY <2>1, <2>2
<1>7. QED
  BY <1>3, <1>4, <1>5, <1>6 DEF FramesInv

LEMMA ExtractInv == FramesInv /\ (\E o \in Frames!Outcomes : Frames!Extract(o)) => FramesInv'
<1> SUFFICES ASSUME FramesInv, NEW o \in Frames!Outcomes, Frames!Extract(o) PROVE FramesInv'
  OBVIOUS
<1>1. at \in FrameSpans /\ key \in Keys /\ stage = "ask" /\ stage' = "insert" /\ got' = o
  BY DEF FramesInv, InHand, Awaited, Frames!Extract
<1>2. /\ cache' \in [FrameSpans \X Keys -> {"none"} \cup Frames!Answers]
      /\ sent' \subseteq FrameSpans \X Keys /\ twice' = FALSE
      /\ \A p \in sent' : cache'[p] # "none"
  <2>1. /\ cache \in [FrameSpans \X Keys -> {"none"} \cup Frames!Answers]
        /\ sent \subseteq FrameSpans \X Keys
        /\ twice = FALSE /\ \A p \in sent : cache[p] # "none"
    BY DEF FramesInv, Frames!TypeOK, Heard
  <2>2. <<at, key>> \in FrameSpans \X Keys
    BY <1>1
  <2>3. CASE cache[<<at, key>>] # "none"
    BY <2>1, <2>3 DEF Frames!Extract
  <2>4. CASE cache[<<at, key>>] = "none"
    <3>1. /\ cache' = IF o \in Frames!Answers THEN [cache EXCEPT ![<<at, key>>] = o] ELSE cache
          /\ sent' = IF o \in Frames!Answers THEN sent \cup {<<at, key>>} ELSE sent
          /\ twice' = (twice \/ <<at, key>> \in sent)
      BY <2>4 DEF Frames!Extract, Frames!Put
    <3>2. twice' = FALSE
      BY <2>1, <2>4, <3>1
    <3>3. o \in Frames!Answers => o # "none"
      BY DEF Frames!Answers, Frames!Accepted
    <3>4. QED
      BY <2>1, <2>2, <3>1, <3>2, <3>3
  <2>5. QED
    BY <2>3, <2>4
<1>3. Frames!TypeOK'
  BY <1>1, <1>2 DEF FramesInv, Frames!TypeOK, Frames!Extract, Frames!session
<1>4. Sound(frameDb)' /\ Sound(frameDisk)'
  BY DEF FramesInv, Frames!Extract
<1>5. InHand'
  BY <1>1 DEF FramesInv, InHand, Awaited, Frames!Extract, Frames!session
<1>6. Behind'
  BY <1>1 DEF FramesInv, Behind, Awaited, Explained, Frames!Extract, Frames!session
<1>7. Heard' /\ CompletedIsExplained'
  BY <1>1, <1>2 DEF Heard, CompletedIsExplained
<1>8. QED
  BY <1>3, <1>4, <1>5, <1>6, <1>7 DEF FramesInv

LEMMA InsertInv == FramesInv /\ Frames!Insert => FramesInv'
<1> SUFFICES ASSUME FramesInv, Frames!Insert PROVE FramesInv'
  OBVIOUS
<1>1. /\ at \in FrameSpans /\ key \in Keys /\ got \in Frames!Outcomes /\ frameDb.frames[at] = {}
      /\ frameDb \in Frames!Store /\ Sound(frameDb) /\ complete = NoKey
      /\ stage = "insert" /\ stage' = "end"
  BY DEF FramesInv, InHand, Awaited, Frames!Insert, Sound
<1>2. /\ Sound(frameDb')
      /\ task = "ingest" /\ frameDb'.frames[at] = {} =>
           ~frameDb'.attempts[at][key].live /\ frameDb'.attempts[at][key].reason # "none"
      /\ \A t \in FrameSpans \ {at} :
           frameDb'.frames[t] = frameDb.frames[t] /\ frameDb'.attempts[t] = frameDb.attempts[t]
  <2>1. CASE frameDb' = frameDb
    <3>1. CASE task = "ingest"
      <4>1. frameDb' = Frames!Record(Frames!InsertFrames(frameDb, at, key, got), at, key, got)
        BY <3>1 DEF Frames!Insert
      <4>2. QED
        BY <1>1, <4>1, InsertSound
    <3>2. CASE task # "ingest"
      BY <1>1, <2>1, <3>2
    <3>3. QED
      BY <3>1, <3>2
  <2>2. CASE frameDb' = Frames!Record(Frames!InsertFrames(frameDb, at, key, got), at, key, got)
    BY <1>1, <2>2, InsertSound
  <2>3. QED
    BY <2>1, <2>2 DEF Frames!Insert
<1>3. Frames!TypeOK'
  <2>1. frameDb' \in Frames!Store
    BY <1>2 DEF Sound
  <2>2. QED
    BY <1>1, <2>1 DEF FramesInv, Frames!TypeOK, Frames!Insert, Frames!session, Frames!ghosts
<1>4. Sound(frameDisk)'
  BY DEF FramesInv, Frames!Insert
<1>5. InHand' /\ Heard' /\ CompletedIsExplained'
  BY <1>1
     DEF FramesInv, InHand, Awaited, Heard, CompletedIsExplained, Frames!Insert,
         Frames!session, Frames!ghosts
<1>6. Behind'
  <2> SUFFICES ASSUME task = "ingest", NEW t \in FrameSpans \ unread PROVE Explained(t, key)'
    BY DEF Behind, Frames!Insert, Frames!session
  <2>1. CASE t = at
    BY <1>2, <2>1 DEF Explained, Frames!Insert, Frames!session
  <2>2. CASE t # at
    <3>1. Explained(t, key)
      BY <1>1, <2>2 DEF FramesInv, Behind
    <3>2. QED
      BY <1>2, <2>2, <3>1 DEF Explained, Frames!Insert, Frames!session
  <2>3. QED
    BY <2>1, <2>2
<1>7. QED
  BY <1>2, <1>3, <1>4, <1>5, <1>6 DEF FramesInv

LEMMA EndSpanInv == FramesInv /\ Frames!EndSpan => FramesInv'
<1> SUFFICES ASSUME FramesInv, Frames!EndSpan PROVE FramesInv'
  OBVIOUS
<1>1. frameDisk' \in {frameDisk, frameDb}
  BY DEF Frames!EndSpan, Frames!Commit
<1>2. Sound(frameDb)' /\ Sound(frameDisk)'
  BY <1>1 DEF FramesInv, Frames!EndSpan
<1>3. Frames!TypeOK'
  BY <1>1 DEF FramesInv, Frames!TypeOK, Frames!EndSpan, Frames!session, Frames!ghosts
<1>4. InHand' /\ Behind' /\ Heard' /\ CompletedIsExplained'
  BY DEF FramesInv, InHand, Behind, Awaited, Explained, Heard, CompletedIsExplained,
         Frames!EndSpan, Frames!session, Frames!ghosts
<1>5. QED
  BY <1>2, <1>3, <1>4 DEF FramesInv

LEMMA FinishInv == FramesInv /\ Frames!Finish => FramesInv'
<1> SUFFICES ASSUME FramesInv, Frames!Finish PROVE FramesInv'
  OBVIOUS
<1>1. /\ frameDisk' \in {frameDisk, frameDb} /\ key \in Keys
      /\ complete = NoKey /\ complete' \in {complete, key}
  BY DEF Frames!Finish, Frames!Commit, FramesInv, InHand
<1>2. Sound(frameDb)' /\ Sound(frameDisk)'
  BY <1>1 DEF FramesInv, Frames!Finish
<1>3. Frames!TypeOK'
  BY <1>1 DEF FramesInv, Frames!TypeOK, Frames!Finish, Frames!session, Frames!ghosts
<1>4. InHand' /\ Behind' /\ Heard'
  BY DEF FramesInv, InHand, Behind, Awaited, Heard, Frames!Finish, Frames!session, Frames!ghosts
<1>5. CompletedIsExplained'
  <2>0. frameDb' = frameDb
    BY DEF Frames!Finish
  <2> SUFFICES ASSUME complete' # NoKey, NEW s \in FrameSpans, frameDb.frames[s] = {}
               PROVE  /\ ~frameDb.attempts[s][complete'].live
                      /\ frameDb.attempts[s][complete'].reason # "none"
    BY <2>0 DEF CompletedIsExplained
  <2>1. task = "ingest" /\ complete' = key
    BY <1>1 DEF Frames!Finish
  <2>2. Explained(s, key)
    BY <2>1 DEF FramesInv, Behind, Awaited, Frames!Finish
  <2>3. QED
    BY <2>1, <2>2 DEF Explained
<1>6. QED
  BY <1>2, <1>3, <1>4, <1>5 DEF FramesInv

LEMMA CrashInv ==
  ASSUME FrameBounds PROVE FramesInv /\ Frames!Crash => FramesInv'
<1> SUFFICES ASSUME FramesInv, Frames!Crash PROVE FramesInv'
  OBVIOUS
<1>1. Sound(frameDb)' /\ Sound(frameDisk)'
  BY DEF FramesInv, Frames!Crash
<1>2. Frames!TypeOK'
  BY DEF FrameBounds, FramesInv, Frames!TypeOK, Frames!Crash, Frames!session
<1>3. InHand' /\ Behind' /\ Heard' /\ CompletedIsExplained'
  BY DEF FramesInv, InHand, Behind, Awaited, Heard, CompletedIsExplained, Frames!Crash,
         Frames!session
<1>4. QED
  BY <1>1, <1>2, <1>3 DEF FramesInv

LEMMA StutterInv == FramesInv /\ UNCHANGED Frames!vars => FramesInv'
BY DEF FramesInv, Frames!TypeOK, InHand, Behind, Awaited, Explained, Heard,
       CompletedIsExplained, Frames!vars, Frames!session, Frames!ghosts

(* The frames, their ledger and the session over them agree in every state.   *)
THEOREM FramesInvariance == ASSUME FrameBounds PROVE Frames!Spec => []FramesInv
<1>1. FramesInv /\ Frames!Next => FramesInv'
  BY StartInv, ReuseInv, ReplaceInv, ExtractInv, InsertInv, EndSpanInv, FinishInv, CrashInv
  DEF Frames!Next, Frames!SessionStep
<1>2. FramesInv /\ UNCHANGED Frames!vars => FramesInv'
  BY StutterInv
<1>3. QED
  BY FramesInitInv, <1>1, <1>2, PTL DEF Frames!Spec
-----------------------------------------------------------------------------
(* Every variable keeps its type, whatever spans, keys and bounds. *)
THEOREM FramesTyped == ASSUME FrameBounds PROVE Frames!Spec => []Frames!TypeOK
<1>1. FramesInv => Frames!TypeOK
  BY DEF FramesInv
<1>2. QED
  BY FramesInvariance, <1>1, PTL

(* The frames of two models never stand side by side for a span, neither for *)
(* the connection nor in the file: a span is given frames only after its     *)
(* frames were deleted (delete_frame_materialization_for_span).              *)
THEOREM FramesOfOneModel == ASSUME FrameBounds PROVE Frames!Spec => []OneModel
<1>1. FramesInv => OneModel
  BY DEF FramesInv, OneModel, Sound, Single
<1>2. QED
  BY FramesInvariance, <1>1, PTL

(* Live frames are recorded by the attempt of their key (model_attempts).    *)
THEOREM LiveFramesRecorded == ASSUME FrameBounds PROVE Frames!Spec => []FramesAreRecorded
<1>1. FramesInv => FramesAreRecorded
  BY DEF FramesInv, FramesAreRecorded, Sound, FramesRecorded
<1>2. QED
  BY FramesInvariance, <1>1, PTL

(* A completed ingestion has frames for every span, or a row that says why   *)
(* not and does not claim to be live, whatever crashes came before.          *)
THEOREM CompletedExplained ==
  ASSUME FrameBounds PROVE Frames!Spec => []CompletedIsExplained
<1>1. FramesInv => CompletedIsExplained
  BY DEF FramesInv
<1>2. QED
  BY FramesInvariance, <1>1, PTL

(* What the model answered for a span and key is never asked again           *)
(* (semantic_cache.put).                                                     *)
THEOREM AnsweredOnce == ASSUME FrameBounds PROVE Frames!Spec => []AnsweredIsFree
<1>1. FramesInv => AnsweredIsFree
  BY DEF FramesInv, Heard, AnsweredIsFree
<1>2. QED
  BY FramesInvariance, <1>1, PTL
-----------------------------------------------------------------------------
(* How many steps a session over frames has left, at most: four for every    *)
(* span, and its end.                                                        *)
FramesLeft ==
  LET n == Cardinality(unread)
  IN [idle |-> 0, span |-> 4 * n + 1, end |-> 4 * n + 2, insert |-> 4 * n + 3,
      ask |-> 4 * n + 4][stage]
FramesShorten ==
  [][stage # "idle" => FramesLeft' \in Nat /\ FramesLeft' < FramesLeft]_(Frames!vars)

(* A session over frames, of an ingestion or of a question, comes to an end:  *)
(* each of its steps, whatever the model answers and whether its process is   *)
(* killed, leaves fewer to take (_materialize_question_semantics).            *)
THEOREM FramesEnd == ASSUME FrameBounds PROVE Frames!Spec => FramesShorten
<1>1. /\ Frames!TypeOK /\ Frames!TypeOK' /\ [Frames!Next]_(Frames!vars)
      => [stage # "idle" => FramesLeft' \in Nat /\ FramesLeft' < FramesLeft]_(Frames!vars)
  <2> SUFFICES ASSUME Frames!TypeOK, Frames!TypeOK', Frames!Next, stage # "idle"
               PROVE  FramesLeft' \in Nat /\ FramesLeft' < FramesLeft
    OBVIOUS
  <2> DEFINE n == Cardinality(unread) m == Cardinality(unread')
  <2>1. /\ n \in Nat /\ IsFiniteSet(unread)
        /\ stage = "span" => FramesLeft = 4 * n + 1
        /\ stage = "end" => FramesLeft = 4 * n + 2
        /\ stage = "insert" => FramesLeft = 4 * n + 3
        /\ stage = "ask" => FramesLeft = 4 * n + 4
    <3>1. IsFiniteSet(unread) /\ n \in Nat
      BY FS_CardinalityType, FS_Subset DEF Frames!TypeOK, FrameBounds
    <3> QED BY <3>1 DEF FramesLeft
  <2>2. /\ m \in Nat
        /\ stage' = "idle" => FramesLeft' = 0
        /\ stage' = "span" => FramesLeft' = 4 * m + 1
        /\ stage' = "end" => FramesLeft' = 4 * m + 2
        /\ stage' = "insert" => FramesLeft' = 4 * m + 3
        /\ stage' = "ask" => FramesLeft' = 4 * m + 4
    <3>1. IsFiniteSet(unread') /\ m \in Nat
      BY FS_CardinalityType, FS_Subset DEF Frames!TypeOK, FrameBounds
    <3> QED BY <3>1 DEF FramesLeft
  <2>3. stage \in {"span", "ask", "insert", "end"}
    BY DEF Frames!TypeOK
  <2>4. CASE Frames!Reuse \/ Frames!Replace
    <3>1. stage = "span" /\ stage' \in {"ask", "end"}
      BY <2>4 DEF Frames!Reuse, Frames!Replace
    <3>2. \E s \in unread : unread' = unread \ {s}
      BY <2>4 DEF Frames!Reuse, Frames!Replace, Frames!Rest
    <3>3. m = n - 1
      BY <2>1, <3>2, FS_RemoveElement
    <3> QED BY <2>1, <2>2, <3>1, <3>3
  <2>5. ASSUME \/ (stage = "ask" /\ stage' = "insert")
               \/ (stage = "insert" /\ stage' = "end")
               \/ (stage = "end" /\ stage' = "span")
               \/ stage' = "idle",
               unread' = unread
        PROVE  FramesLeft' \in Nat /\ FramesLeft' < FramesLeft
    BY <2>1, <2>2, <2>3, <2>5
  <2>6. CASE \E o \in Frames!Outcomes : Frames!Extract(o)
    <3>1. PICK o \in Frames!Outcomes : Frames!Extract(o)
      BY <2>6
    <3>2. UNCHANGED Frames!session
      BY <3>1 DEF Frames!Extract
    <3>3. stage = "ask" /\ stage' = "insert"
      BY <3>1 DEF Frames!Extract
    <3>4. unread' = unread
      BY <3>2 DEF Frames!session
    <3> QED BY <2>5, <3>3, <3>4
  <2>7. CASE Frames!Insert
    BY <2>5, <2>7 DEF Frames!Insert, Frames!session
  <2>8. CASE Frames!EndSpan
    BY <2>5, <2>8 DEF Frames!EndSpan, Frames!session
  <2>9. CASE Frames!Finish \/ Frames!Crash
    BY <2>5, <2>9 DEF Frames!Finish, Frames!Crash, Frames!session
  <2> QED BY <2>4, <2>6, <2>7, <2>8, <2>9 DEF Frames!Next, Frames!SessionStep, Frames!Ingest, Frames!Ask,
                            Frames!Start
<1>2. Frames!Spec => []Frames!TypeOK
  BY FramesTyped
<1> QED BY <1>1, <1>2, PTL DEF Frames!Spec, FramesShorten
=============================================================================
