----------------------------- MODULE FolderIndex -----------------------------
(* The fast filesystem database (file_system_catalog): one SQLite file that *)
(* a scan fills with the entries of a folder and a content pipeline with    *)
(* the chunks of their text.                                                *)
(*                                                                          *)
(*   - `scan' (scan_to_database) writes the catalog alone; `init'           *)
(*     (initialize_text_folder) also runs the pipeline.  Both build a       *)
(*     partial file next to the destination, named after their process id,  *)
(*     and rename it over the destination.                                  *)
(*   - `enrich' (ContentSemanticPipeline.run, backfill_chunks) runs the     *)
(*     pipeline in place, one transaction per file, through a connection    *)
(*     that stays on the file it opened when the name is replaced.          *)
(*   - a question connects to the destination, which creates it when it is  *)
(*     missing.                                                             *)
(*                                                                          *)
(* Meanwhile the folder is edited.  The contents of a file are versions: an *)
(* edit never restores an earlier one.  0 is "no such file".                *)
(***************************************************************************)
EXTENDS Naturals

CONSTANTS
  Files,       \* the paths of the folder, numbered in catalog order
  Procs,       \* processes, each with its own process id
  MaxVersion,  \* bound on the edits of one file
  MaxDbs       \* bound on the database files ever created

ASSUME BoundsOK ==
  /\ Files \subseteq Nat
  /\ MaxVersion \in Nat \ {0}
  /\ MaxDbs \in Nat

VARIABLES
  folder,   \* the content of each path, 0 when there is none
  newest,   \* the last version each path was given
  dbs,      \* database files ever created, by inode
  created,  \* how many there are
  dest,     \* the inode the destination names, 0 when there is none
  partials, \* names of partial files left in the directory
  proc      \* the processes

vars == <<folder, newest, dbs, created, dest, partials, proc>>
-----------------------------------------------------------------------------
Versions == 0..MaxVersion

(* What a catalog row says of a file's content: nothing, a complete hash of
   one version, a complete hash of bytes that were being edited, or no
   complete hash (file too large, unreadable).                             *)
Torn == MaxVersion + 1
Unhashed == MaxVersion + 2
Rows == 0..(MaxVersion + 2)
Hashed(row) == row \notin {0, Unhashed}

(* A database file: catalog rows, the version the chunks of each file were
   made of, and -- history -- the folder when the scan ended and whether an
   initialization made it.                                                 *)
Database == [tables : BOOLEAN, rows : [Files -> Rows], text : [Files -> Versions],
             seen : [Files -> Versions], init : BOOLEAN]
NoFiles == [f \in Files |-> 0]
EmptyFile == [tables |-> FALSE, rows |-> NoFiles, text |-> NoFiles, seen |-> NoFiles,
              init |-> FALSE]
NewCatalog(kind) == [EmptyFile EXCEPT !.tables = TRUE, !.init = (kind = "init")]

(* A process: what it runs, where it is, the database it works on, the
   paths it has still to visit, and whether it was ever killed.            *)
Kinds == {"scan", "init", "enrich"}
Process == [kind : Kinds, pc : {"idle", "scan", "text"}, db : 0..MaxDbs,
            todo : SUBSET Files, crashed : BOOLEAN]
IdleProcess == [kind |-> "scan", pc |-> "idle", db |-> 0, todo |-> {}, crashed |-> FALSE]

PartialName(p, kind, pc) ==
  <<p, IF kind = "scan" THEN "scan" ELSE IF pc = "scan" THEN "nested" ELSE "init">>

Init ==
  /\ folder \in [Files -> {0, 1}]
  /\ newest = folder
  /\ dbs = [i \in 1..MaxDbs |-> EmptyFile]
  /\ created = 0
  /\ dest = 0
  /\ partials = {}
  /\ proc = [p \in Procs |-> IdleProcess]

Stop(p, crashed) ==
  proc' = [proc EXCEPT ![p] = [IdleProcess EXCEPT !.crashed = proc[p].crashed \/ crashed]]
-----------------------------------------------------------------------------
(* The folder.                                                              *)

Edit(f) ==
  /\ newest[f] < MaxVersion
  /\ newest' = [newest EXCEPT ![f] = @ + 1]
  /\ folder' = [folder EXCEPT ![f] = newest[f] + 1]
  /\ UNCHANGED <<dbs, created, dest, partials, proc>>

Delete(f) ==
  /\ folder[f] # 0
  /\ folder' = [folder EXCEPT ![f] = 0]
  /\ UNCHANGED <<newest, dbs, created, dest, partials, proc>>
-----------------------------------------------------------------------------
(* Scan and initialization.                                                 *)

MayStart(replace) == dest = 0 \/ replace

(* Refuse an existing destination, remove one's own left-over partials and
   create an empty catalog.                                                 *)
Begin(p, kind, replace) ==
  /\ proc[p].pc = "idle"
  /\ kind \in {"scan", "init"}
  /\ MayStart(replace)
  /\ created < MaxDbs
  /\ created' = created + 1
  /\ dbs' = [dbs EXCEPT ![created + 1] = NewCatalog(kind)]
  /\ partials' = (partials \ {PartialName(p, kind, "scan"), PartialName(p, kind, "text")})
                   \cup {PartialName(p, kind, "scan")}
  /\ proc' = [proc EXCEPT ![p] = [kind |-> kind, pc |-> "scan", db |-> created + 1,
                                  todo |-> Files, crashed |-> @.crashed]]
  /\ UNCHANGED <<folder, newest, dest>>

Next1(S, f) == f \in S /\ \A g \in S : f <= g

(* build_row for the next path.  The hash may be skipped, or fail; the file
   may be edited while it is read.                                          *)
ScanFile(p, f) ==
  /\ proc[p].pc = "scan"
  /\ Next1(proc[p].todo, f)
  /\ \/ /\ dbs' = [dbs EXCEPT ![proc[p].db].rows[f] = folder[f]]
        /\ UNCHANGED <<folder, newest>>
     \/ /\ folder[f] # 0
        /\ dbs' = [dbs EXCEPT ![proc[p].db].rows[f] = Unhashed]
        /\ UNCHANGED <<folder, newest>>
     \/ /\ folder[f] # 0
        /\ newest[f] < MaxVersion
        /\ newest' = [newest EXCEPT ![f] = @ + 1]
        /\ folder' = [folder EXCEPT ![f] = newest[f] + 1]
        /\ dbs' = [dbs EXCEPT ![proc[p].db].rows[f] = Torn]
  /\ proc' = [proc EXCEPT ![p].todo = @ \ {f}]
  /\ UNCHANGED <<created, dest, partials>>

(* The entries the pipeline works on. *)
Entries_ButLast(db) ==
  {f \in Files : Hashed(db.rows[f]) /\ \E g \in Files : g > f /\ Hashed(db.rows[g])}
Entries(db) == {f \in Files : Hashed(db.rows[f])}

(* The scan is committed and checked.  Inside an initialization its file
   becomes the partial database of the pipeline.                            *)
ScanDone(p) ==
  LET me == proc[p] IN
  /\ me.pc = "scan"
  /\ me.todo = {}
  /\ dbs' = [dbs EXCEPT ![me.db].seen = folder]
  /\ partials' = (partials \ {PartialName(p, me.kind, "scan")})
                   \cup {PartialName(p, me.kind, "text")}
  /\ proc' = [proc EXCEPT ![p].pc = "text",
                          ![p].todo = IF me.kind = "init" THEN Entries(dbs[me.db]) ELSE {}]
  /\ UNCHANGED <<folder, newest, created, dest>>

(* os.replace of the destination. *)
Publish(p) ==
  LET me == proc[p] IN
  /\ me.kind # "enrich" /\ me.pc = "text"
  /\ me.todo = {}
  /\ dest' = me.db
  /\ partials' = partials \ {PartialName(p, me.kind, "text")}
  /\ Stop(p, FALSE)
  /\ UNCHANGED <<folder, newest, dbs, created>>
-----------------------------------------------------------------------------
(* The content pipeline.                                                    *)

(* It runs in place on a database that has the content tables, on the
   entries it is asked for.                                                 *)
BeginEnrich(p, asked) ==
  /\ proc[p].pc = "idle"
  /\ dest # 0
  /\ dbs[dest].tables
  /\ asked \subseteq Entries(dbs[dest])
  /\ proc' = [proc EXCEPT ![p] = [@ EXCEPT !.kind = "enrich", !.pc = "text", !.db = dest,
                                          !.todo = asked]]
  /\ UNCHANGED <<folder, newest, dbs, created, dest, partials>>

(* _extract_text refuses a file that is no longer what the catalog hashed. *)
SameContent_Unchecked(db, f) == folder[f] # 0
SameContent(db, f) == folder[f] = db.rows[f]

(* One entry: its text is read, analysed and embedded, then its rows are
   replaced in one transaction.  The text committed is the text read, and
   the row it was compared with does not change, so the two are one step.   *)
ProcessEntry(p, f) ==
  LET me == proc[p] IN
  /\ me.pc = "text"
  /\ Next1(me.todo, f)
  /\ SameContent(dbs[me.db], f)
  /\ dbs' = [dbs EXCEPT ![me.db].text[f] = folder[f]]
  /\ proc' = [proc EXCEPT ![p].todo = @ \ {f}]
  /\ UNCHANGED <<folder, newest, created, dest, partials>>

EndEnrich(p) ==
  /\ proc[p].kind = "enrich" /\ proc[p].pc = "text"
  /\ proc[p].todo = {}
  /\ Stop(p, FALSE)
  /\ UNCHANGED <<folder, newest, dbs, created, dest, partials>>
-----------------------------------------------------------------------------
(* An exception -- a changed or missing file, a model or embedding request, a
   failed check -- removes the partial file; the end of the process does
   not.                                                                     *)
Cleanup_Forgotten(p) == partials
Cleanup(p) == partials \ {PartialName(p, proc[p].kind, proc[p].pc)}

Fail(p) ==
  /\ proc[p].pc # "idle"
  /\ IF proc[p].kind = "enrich" THEN UNCHANGED <<dbs, partials>>
     ELSE partials' = Cleanup(p) /\ dbs' = [dbs EXCEPT ![proc[p].db] = EmptyFile]
  /\ Stop(p, FALSE)
  /\ UNCHANGED <<folder, newest, created, dest>>

Crash(p) ==
  /\ proc[p].pc # "idle"
  /\ Stop(p, TRUE)
  /\ UNCHANGED <<folder, newest, dbs, created, dest, partials>>

(* A question (FolderQuestionAssistant._execute), or a backfill, of a missing
   database: sqlite3.connect creates an empty file, in which the content
   tables are then found missing.                                           *)
AskTooEarly ==
  /\ dest = 0
  /\ created < MaxDbs
  /\ created' = created + 1
  /\ dest' = created + 1
  /\ UNCHANGED <<folder, newest, dbs, partials, proc>>

Next ==
  \/ \E f \in Files : Edit(f) \/ Delete(f)
  \/ AskTooEarly
  \/ \E p \in Procs :
       \/ \E kind \in {"scan", "init"}, replace \in BOOLEAN : Begin(p, kind, replace)
       \/ \E f \in Files : ScanFile(p, f) \/ ProcessEntry(p, f)
       \/ ScanDone(p) \/ Publish(p)
       \/ \E asked \in SUBSET Files : BeginEnrich(p, asked)
       \/ EndEnrich(p)
       \/ Fail(p) \/ Crash(p)

Spec == Init /\ [][Next]_vars
-----------------------------------------------------------------------------
(* Properties.                                                              *)

TypeOK ==
  /\ folder \in [Files -> Versions]
  /\ newest \in [Files -> Versions]
  /\ dbs \in [1..MaxDbs -> Database]
  /\ created \in 0..MaxDbs
  /\ dest \in 0..MaxDbs
  /\ partials \subseteq Procs \X {"scan", "nested", "init"}
  /\ proc \in [Procs -> Process]

(* A published initialization is whole: every hashed entry is searchable
   (initialize_text_folder renames after the pipeline returned).            *)
InitIsComplete ==
  dest # 0 /\ dbs[dest].init =>
    \A f \in Files : Hashed(dbs[dest].rows[f]) => dbs[dest].text[f] # 0

(* ... and it is a snapshot: although the files were hashed one after the
   other and edited all along, its hashed entries are the contents that the
   folder had together when the scan ended, since the pipeline starts after
   the last hash and refuses what changed since.                            *)
InitIsSnapshot ==
  dest # 0 /\ dbs[dest].init =>
    \A f \in Files : Hashed(dbs[dest].rows[f]) => dbs[dest].rows[f] = dbs[dest].seen[f]

(* Without a crash no partial file stays behind (the except clauses of
   scan_to_database and initialize_text_folder).                            *)
NoLeftovers ==
  \A p \in Procs : proc[p].pc = "idle" /\ ~proc[p].crashed =>
    \A n \in {"scan", "nested", "init"} : <<p, n>> \notin partials

(* The published index, as PublishedIndex sees it: a file without tables is
   no index.                                                                *)
index ==
  IF dest = 0 \/ ~dbs[dest].tables THEN [id |-> 0, rows |-> NoFiles, text |-> NoFiles]
  ELSE [id |-> dest, rows |-> dbs[dest].rows, text |-> dbs[dest].text]
Abstract == INSTANCE PublishedIndex WITH Paths <- Files, Contents <- Rows, Ids <- 1..MaxDbs
RefinesPublishedIndex == Abstract!Spec
=============================================================================
