------------------------------ MODULE DrsIngest ------------------------------
(***************************************************************************)
(* Ingestion of a folder into a semantic store that may already hold an    *)
(* earlier ingestion of it (knowmoredirt/ingest.py over store.py), reduced *)
(* to what decides which discourse structure (DRS) stays live:             *)
(*                                                                         *)
(*   - a document is one content of one path: its id hashes both, so an    *)
(*     edited file is another document and the former one is pruned;       *)
(*   - a span is one packed text unit of a document; the units depend on   *)
(*     the configuration, which sets the packing sizes;                    *)
(*   - a configuration is everything that enters the cache context of the  *)
(*     chunk-DRS call: model fingerprint, prompt, schema, budgets;         *)
(*   - per span the store holds at most one model DRS and, per cache key,  *)
(*     one row of the ledger model_attempts.                               *)
(*                                                                         *)
(* SQLite commits only where the code commits: `db' is what the connection *)
(* sees, `disk' what the file holds.  A store file that outlives its       *)
(* connection is opened again from `disk', at most MaxReopens times; the   *)
(* engine's own store is in memory and never is.                           *)
(***************************************************************************)
EXTENDS Naturals

CONSTANTS
  Docs,           \* document ids
  PathOf,         \* the file a document is a content of
  Folders,        \* the sets of documents a scan may find
  Spans,          \* span ids, numbered in scan order
  DocOf, TextOf,  \* the document and the text of a span
  Configs,        \* configurations of the semantic client
  FingerprintOf,  \* the model fingerprint of a configuration
  UnitsOf,        \* the spans a configuration cuts a document into
  NoConfig,       \* "no DRS rows at this span"
  MaxIngests,     \* bound on the calls of ingest_folder
  MaxReopens      \* bound on the reopenings of the store file

ASSUME ConstantsOK ==
  /\ Spans \subseteq Nat
  /\ Folders \subseteq SUBSET Docs
  /\ DocOf \in [Spans -> Docs]
  /\ UnitsOf \in [Configs -> [Docs -> SUBSET Spans]]
  /\ \A c \in Configs, d \in Docs : \A s \in UnitsOf[c][d] : DocOf[s] = d
  /\ NoConfig \notin Configs
  /\ MaxIngests \in Nat
  /\ MaxReopens \in Nat

VARIABLES
  db,       \* the store as the open connection sees it
  disk,     \* the store as last committed
  pc,       \* where ingest_folder is
  folder,   \* the documents its scan found
  config,   \* the configuration it runs under
  todo,     \* spans it has not processed
  cur,      \* spans being processed: empty or one
  result,   \* what the model call for that span returned
  retries,  \* KMD_DRS_RETRY_FAILED_ATTEMPTS, as the call found it
  done,     \* history: folder and configuration of the last completed call
  ingests,  \* calls of ingest_folder so far
  reopens   \* reopenings of the store file so far

vars ==
  <<db, disk, pc, folder, config, todo, cur, result, retries, done, ingests, reopens>>
-----------------------------------------------------------------------------
(* Rows.                                                                   *)

(* One row of model_attempts; the reason "none" stands for no row.  An
   accepted result is always materialized when it is recorded, so `accepted'
   is the reason "materialized"; "rejected" is a deterministic failure,
   "transient" one that structured_failure_retryable names.                *)
Reasons == {"none", "materialized", "rejected", "transient"}
Attempt == [reason : Reasons, materialized : BOOLEAN, conds : BOOLEAN, rowid : Nat]
NoAttempt == [reason |-> "none", materialized |-> FALSE, conds |-> FALSE, rowid |-> 0]

(* The model DRS of a span: which configuration produced it, and whether it
   has any drs_conditions row (a DRS of an uneventful chunk has none).     *)
Drs == [by : Configs \cup {NoConfig}, conds : BOOLEAN]
NoDrs == [by |-> NoConfig, conds |-> FALSE]

Store ==
  [status : {"none", "running", "completed", "failed"},
   docs : SUBSET Docs,
   rows : SUBSET Spans,
   drs : [Spans -> Drs],
   attempts : [Spans -> [Configs -> Attempt]],
   clock : Nat]

EmptyStore ==
  [status |-> "none", docs |-> {}, rows |-> {},
   drs |-> [s \in Spans |-> NoDrs],
   attempts |-> [s \in Spans |-> [c \in Configs |-> NoAttempt]],
   clock |-> 0]

(* The run of the folder is resumed, or a new one inserted. *)
Resume_Skipped(st) == IF st.status = "none" THEN [st EXCEPT !.status = "running"] ELSE st
Resume(st) == [st EXCEPT !.status = "running"]

Prune_KeepsDrs(st, gone) ==
  LET dead == {s \in st.rows : DocOf[s] \in gone} IN
  [st EXCEPT !.docs = @ \ gone,
             !.rows = @ \ dead,
             !.attempts = [s \in Spans |->
                             IF s \in dead THEN [c \in Configs |-> NoAttempt] ELSE @[s]]]

(* prune_stale_documents: every row derived from the spans of the documents
   that the scan did not find.                                             *)
Prune(st, gone) ==
  LET dead == {s \in st.rows : DocOf[s] \in gone} IN
  [st EXCEPT !.docs = @ \ gone,
             !.rows = @ \ dead,
             !.drs = [s \in Spans |-> IF s \in dead THEN NoDrs ELSE @[s]],
             !.attempts = [s \in Spans |->
                             IF s \in dead THEN [c \in Configs |-> NoAttempt] ELSE @[s]]]

(* materialize_drs_payload: under one savepoint the span's model DRS is
   deleted and the new one inserted.                                       *)
Materialize(st, s, c, hasConds) ==
  [st EXCEPT !.drs[s] = [by |-> c, conds |-> hasConds]]

DeactivateOthers_Forgotten(st, s, c) == st

(* deactivate_other_model_attempt_materializations.                        *)
DeactivateOthers(st, s, c) ==
  [st EXCEPT !.attempts[s] =
     [k \in Configs |-> IF k = c THEN @[k] ELSE [@[k] EXCEPT !.materialized = FALSE]]]

NewRow(st, res) ==
  [reason |-> res.reason, materialized |-> (res.reason = "materialized"),
   conds |-> res.conds, rowid |-> st.clock + 1]

RecordAttempt_InsertOrIgnore(st, s, c, res) ==
  IF st.attempts[s][c].reason # "none" THEN st
  ELSE [st EXCEPT !.clock = @ + 1, !.attempts[s][c] = NewRow(st, res)]

(* INSERT OR REPLACE INTO model_attempts: the row gets the newest rowid.   *)
RecordAttempt(st, s, c, res) ==
  [st EXCEPT !.clock = @ + 1, !.attempts[s][c] = NewRow(st, res)]
-----------------------------------------------------------------------------
(* The look-up before a model call.                                        *)

Recorded(st) == {p \in Spans \X Configs : st.attempts[p[1]][p[2]].reason # "none"}

(* Rows with the cache key of (s, c): the key hashes path, text and
   configuration, but neither the span nor the run.                        *)
ExactKey(st, s, c) ==
  {p \in Recorded(st) : /\ PathOf[DocOf[p[1]]] = PathOf[DocOf[s]]
                        /\ TextOf[p[1]] = TextOf[s]
                        /\ p[2] = c}

(* When there is none: rows that agree on stable_contract_fields.          *)
ContractMatch(st, s, c) ==
  {p \in Recorded(st) : /\ TextOf[p[1]] = TextOf[s]
                        /\ FingerprintOf[p[2]] = FingerprintOf[c]}

Newest(st, S) ==
  LET p == CHOOSE p \in S : \A q \in S :
             st.attempts[q[1]][q[2]].rowid <= st.attempts[p[1]][p[2]].rowid
  IN  st.attempts[p[1]][p[2]]

PreviousAttempt(st, s, c) ==
  IF ExactKey(st, s, c) # {} THEN Newest(st, ExactKey(st, s, c))
  ELSE IF ContractMatch(st, s, c) # {} THEN Newest(st, ContractMatch(st, s, c))
  ELSE NoAttempt

AttemptMaterialized(a) == a.reason = "materialized" /\ a.materialized /\ a.conds
AttemptWasNonrequestFailure(a) == a.reason = "rejected"

ExistingDrs(st, s) == st.drs[s].by # NoConfig /\ st.drs[s].conds

AlreadyMaterialized_AnyDrs(st, s, c) == ExistingDrs(st, s)
AlreadyMaterialized(st, s, c) ==
  ExistingDrs(st, s) /\ AttemptMaterialized(PreviousAttempt(st, s, c))
FailedBefore(st, s, c) ==
  ~retries /\ AttemptWasNonrequestFailure(PreviousAttempt(st, s, c))
-----------------------------------------------------------------------------
(* ingest_folder.                                                          *)

Results == [reason : {"none", "materialized", "rejected", "transient"}, conds : BOOLEAN]
NoResult == [reason |-> "none", conds |-> FALSE]

Init ==
  /\ db = EmptyStore
  /\ disk = EmptyStore
  /\ pc = "idle"
  /\ folder = {}
  /\ config = NoConfig
  /\ todo = {}
  /\ cur = {}
  /\ result = NoResult
  /\ retries = FALSE
  /\ done = [folder |-> {}, config |-> NoConfig]
  /\ ingests = 0
  /\ reopens = 0

(* Scan the folder, start or resume its run and prune.  start_run commits;
   the UPDATE of a resumed run is committed only when something is pruned. *)
Begin(c, found) ==
  LET gone == db.docs \ found
      pruned == Prune(Resume(db), gone)
  IN  /\ pc = "idle"
      /\ ingests < MaxIngests
      /\ ingests' = ingests + 1
      /\ config' = c
      /\ folder' = found
      /\ retries' \in BOOLEAN
      /\ db' = pruned
      /\ disk' = IF db.status = "none" \/ gone # {} THEN pruned ELSE disk
      /\ pc' = "documents"
      /\ UNCHANGED <<todo, cur, result, done, reopens>>

(* The sentences of the scan. *)
Units(c, docs) == UNION {UnitsOf[c][d] : d \in docs}

(* The document rows, in the open transaction.                             *)
StoreDocuments ==
  /\ pc = "documents"
  /\ db' = [db EXCEPT !.docs = @ \cup folder]
  /\ todo' = Units(config, folder)
  /\ pc' = "spans"
  /\ UNCHANGED <<disk, folder, config, cur, result, retries, done, ingests, reopens>>

TakeSpan_Keeps(s) ==
  /\ pc = "spans"
  /\ s \in todo
  /\ \A t \in todo : s <= t
  /\ db' = [db EXCEPT !.rows = @ \cup {s}]
  /\ IF AlreadyMaterialized(db, s, config) \/ FailedBefore(db, s, config)
       THEN UNCHANGED <<pc, cur>>
       ELSE pc' = "call" /\ cur' = {s}
  /\ UNCHANGED <<disk, folder, config, todo, result, retries, done, ingests, reopens>>

(* Take the next sentence in scan order, insert its chunk and span rows and
   decide whether the model must be called.                                *)
TakeSpan(s) ==
  /\ pc = "spans"
  /\ s \in todo
  /\ \A t \in todo : s <= t
  /\ todo' = todo \ {s}
  /\ db' = [db EXCEPT !.rows = @ \cup {s}]
  /\ IF AlreadyMaterialized(db, s, config) \/ FailedBefore(db, s, config)
       THEN UNCHANGED <<pc, cur>>
       ELSE pc' = "call" /\ cur' = {s}
  /\ UNCHANGED <<disk, folder, config, result, retries, done, ingests, reopens>>

(* The model call returns an accepted DRS, which is materialized and
   committed together with every row inserted since the last commit.       *)
CallAccepted(s, hasConds) ==
  /\ pc = "call"
  /\ s \in cur
  /\ db' = Materialize(db, s, config, hasConds)
  /\ disk' = db'
  /\ result' = [reason |-> "materialized", conds |-> hasConds]
  /\ pc' = "record"
  /\ UNCHANGED <<folder, config, todo, cur, retries, done, ingests, reopens>>

CallFailed_DropsDrs(reason) ==
  /\ pc = "call"
  /\ db' = [db EXCEPT !.drs = [s \in Spans |-> IF s \in cur THEN NoDrs ELSE @[s]]]
  /\ result' = [reason |-> reason, conds |-> FALSE]
  /\ pc' = "record"
  /\ UNCHANGED <<disk, folder, config, todo, cur, retries, done, ingests, reopens>>

(* The model call returns accepted = False: nothing is materialized.       *)
CallFailed(reason) ==
  /\ pc = "call"
  /\ result' = [reason |-> reason, conds |-> FALSE]
  /\ pc' = "record"
  /\ UNCHANGED <<db, disk, folder, config, todo, cur, retries, done, ingests, reopens>>

(* The call raises, or the store refuses the accepted DRS: its savepoint is
   rolled back and LocalModelUnavailableError leaves ingest_folder with the
   transaction open.                                                       *)
CallRaises ==
  /\ pc = "call"
  /\ pc' = "idle"
  /\ todo' = {}
  /\ cur' = {}
  /\ UNCHANGED <<db, disk, folder, config, result, retries, done, ingests, reopens>>

(* Write the ledger row, still uncommitted.                                *)
Record(s) ==
  /\ pc = "record"
  /\ s \in cur
  /\ LET st == IF result.reason = "materialized" THEN DeactivateOthers(db, s, config) ELSE db
     IN  db' = RecordAttempt(st, s, config, result)
  /\ cur' = {}
  /\ result' = NoResult
  /\ pc' = "spans"
  /\ UNCHANGED <<disk, folder, config, todo, retries, done, ingests, reopens>>

(* semantic_integrity_errors finds nothing: every derived row has the rows
   it refers to.                                                           *)
Sourced(st) ==
  /\ \A s \in st.rows : DocOf[s] \in st.docs
  /\ \A s \in Spans :
       st.drs[s].by # NoConfig \/ (\E c \in Configs : st.attempts[s][c].reason # "none")
         => s \in st.rows

(* finish_run: the call is completed, or an integrity error rolls it back
   and fails the run.                                                      *)
Finish ==
  /\ pc = "spans"
  /\ todo = {}
  /\ IF Sourced(db)
       THEN /\ db' = [db EXCEPT !.status = "completed"]
            /\ done' = [folder |-> folder, config |-> config]
       ELSE /\ db' = [disk EXCEPT !.status = "failed"]
            /\ done' = done
  /\ disk' = db'
  /\ pc' = "idle"
  /\ UNCHANGED <<folder, config, todo, cur, result, retries, ingests, reopens>>

(* The connection is lost or closed with its transaction open, and the file
   is opened again.                                                        *)
Reopen ==
  /\ reopens < MaxReopens
  /\ reopens' = reopens + 1
  /\ pc # "idle" \/ db # disk
  /\ db' = disk
  /\ pc' = "idle"
  /\ todo' = {}
  /\ cur' = {}
  /\ result' = NoResult
  /\ UNCHANGED <<disk, folder, config, retries, done, ingests>>

Call ==
  \/ \E s \in Spans, b \in BOOLEAN : CallAccepted(s, b)
  \/ \E r \in {"rejected", "transient"} : CallFailed(r)
  \/ CallRaises

IngestStep ==
  \/ StoreDocuments
  \/ \E s \in Spans : TakeSpan(s)
  \/ Call
  \/ \E s \in Spans : Record(s)
  \/ Finish

Next ==
  \/ \E c \in Configs, found \in Folders : Begin(c, found)
  \/ IngestStep
  \/ Reopen

Spec == Init /\ [][Next]_vars

(* One thread runs ingest_folder to its end.  That a model call returns is
   an assumption on the endpoint.                                          *)
FairSpec == Spec /\ WF_vars(IngestStep)
-----------------------------------------------------------------------------
(* Properties.                                                             *)

TypeOK ==
  /\ db \in Store
  /\ disk \in Store
  /\ pc \in {"idle", "documents", "spans", "call", "record"}
  /\ folder \in SUBSET Docs
  /\ config \in Configs \/ (config = NoConfig /\ pc = "idle")
  /\ todo \in SUBSET Spans
  /\ cur \in SUBSET Spans
  /\ result \in Results
  /\ retries \in BOOLEAN
  /\ done \in [folder : SUBSET Docs, config : Configs \cup {NoConfig}]
  /\ ingests \in Nat
  /\ reopens \in Nat

(* No proposition without a source: a span that carries a live DRS or a
   ledger row has its source rows, and they belong to a document the store
   still has -- in the file as in the connection, whatever interrupted the
   ingestion (prune_stale_documents, materialize_drs_payload).             *)
NoOrphanSemantics == Sourced(db) /\ Sourced(disk)

(* The ledger tells the truth: an attempt that claims to be materialized is
   the one whose DRS is live at its span, except while that very span is
   between the commit of its DRS and its ledger row.  (A reopening may fall
   into that window, after which it does not hold.)                        *)
Truthful(st, s) ==
  \A c \in Configs : st.attempts[s][c].materialized => st.drs[s].by = c
LedgerTellsTheTruth ==
  reopens = 0 => \A s \in Spans : ~(pc = "record" /\ s \in cur) => Truthful(db, s)

(* No other span that the store can hold at the same time has this text: the
   look-up before a call takes the newest row of the text, whose span it is
   not asked, so identical texts share their verdicts.                     *)
Alone(s) ==
  \A t \in Spans \ {s}, found \in Folders :
    {DocOf[s], DocOf[t]} \subseteq found => TextOf[t] # TextOf[s]

(* The converse: a live DRS with conditions has its ledger row, marked
   materialized, so that the code that looks in the ledger reuses it.  (One
   without conditions is asked for again, and a failure then takes its row;
   a reopening loses the rows that were not committed.)                    *)
LiveIsRecorded ==
  reopens = 0 => \A s \in Spans :
    ~(pc = "record" /\ s \in cur) /\ db.drs[s].conds /\ Alone(s)
      => db.attempts[s][db.drs[s].by].materialized

(* The spans of the last completed ingestion. *)
DoneUnits == Units(done.config, done.folder)

(* A completed ingestion speaks for its own model: every unit of the folder
   carries a DRS of it, or a recorded failure of it.  (A ledger that a
   reopening left behind its DRS makes it keep another's.)                 *)
SameModel(k, c) == FingerprintOf[k] = FingerprintOf[c]
Current(st, s, c) ==
  \E k \in Configs :
    /\ SameModel(k, c)
    /\ st.drs[s].by = k \/ st.attempts[s][k].reason \in {"rejected", "transient"}
CompletedIsCurrent ==
  reopens = 0 /\ db.status = "completed" =>
    \A s \in DoneUnits : Alone(s) => Current(db, s, done.config)

(* A file whose run says "completed" holds one whole ingestion -- exactly the
   documents it scanned, and rows for all their units -- even after later
   ingestions of the same file were interrupted (start of ingest_folder,
   prune_stale_documents, finish_run).                                     *)
CompletedIsWhole ==
  disk.status = "completed" =>
    disk.docs = done.folder /\ DoneUnits \subseteq disk.rows

(* A failed or refused model call never costs a DRS that was live: only a
   replacement or the removal of its document ends it.                     *)
FailureKeepsDrs ==
  [][\A s \in Spans :
       db.drs[s].by # NoConfig /\ db'.drs[s].by = NoConfig
         => DocOf[s] \notin db'.docs \/ db' = disk]_vars

(* A started ingestion ends: every span is taken once, whatever the model
   answers, and the run is finished or abandoned with an error (the loop of
   ingest_folder).                                                         *)
IngestEnds == (pc # "idle") ~> (pc = "idle")
=============================================================================
