--------------------------- MODULE FolderIndexProofs ---------------------------
(* Proofs about FolderIndex, for any files, processes and bounds.            *)
(*                                                                           *)
(* What protects a published index is ownership: until it is renamed, the    *)
(* file that a scan or an initialization fills is known to nobody else, and  *)
(* afterwards its rows do not change (Owned).  What makes it a snapshot is   *)
(* that versions do not return: a row that the folder no longer agreed with  *)
(* when the scan ended stays on the list of an initialization (Pending),     *)
(* which therefore never ends.                                               *)
EXTENDS FolderIndex, TLAPS

Builds(p) == proc[p].pc # "idle" /\ proc[p].kind # "enrich"
Works(p) == proc[p].pc # "idle"

Known == \A f \in Files : folder[f] <= newest[f]

Owned ==
  /\ dest <= created
  /\ \A i \in 1..MaxDbs : i > created => dbs[i] = EmptyFile
  /\ \A p \in Procs : Works(p) => proc[p].db \in 1..created
  /\ \A p \in Procs : Builds(p) => proc[p].db # dest
  /\ \A p, q \in Procs : Builds(p) /\ Works(q) /\ p # q => proc[p].db # proc[q].db

(* What is true of every database file. *)
Described ==
  \A i \in 1..MaxDbs, f \in Files :
    /\ dbs[i].text[f] \in {0, dbs[i].rows[f]}
    /\ dbs[i].rows[f] \in {Torn, Unhashed} \/ dbs[i].rows[f] <= newest[f]

(* ... and of the one that a process works on. *)
InWork ==
  \A p \in Procs :
    LET me == proc[p]  db == dbs[me.db]
    IN /\ me.pc = "scan" => me.kind # "enrich" /\ \A f \in Files : db.text[f] = 0
       /\ Works(p) => db.tables
       /\ Builds(p) => db.init = (me.kind = "init")
       /\ me.pc = "text" => me.todo \subseteq Entries(db)

Pending ==
  \A p \in Procs, f \in Files :
    LET me == proc[p]  db == dbs[me.db]
    IN me.kind = "init" /\ me.pc = "text" /\ Hashed(db.rows[f]) =>
         /\ db.text[f] # 0 \/ f \in me.todo
         /\ db.rows[f] = db.seen[f] \/ (f \in me.todo /\ folder[f] # db.rows[f])

Partials ==
  \A p \in Procs, n \in {"scan", "nested", "init"} :
    <<p, n>> \in partials /\ ~proc[p].crashed =>
      Builds(p) /\ <<p, n>> = PartialName(p, proc[p].kind, proc[p].pc)

IInv ==
  TypeOK /\ Known /\ Owned /\ Described /\ InWork /\ Pending /\ Partials
    /\ InitIsComplete /\ InitIsSnapshot

USE BoundsOK
-----------------------------------------------------------------------------
(* What the updates of the actions do. *)

LEMMA FilesOK ==
  /\ EmptyFile \in Database
  /\ \A kind \in Kinds : NewCatalog(kind) \in Database
  /\ \A kind \in Kinds : /\ NewCatalog(kind).tables = TRUE
                         /\ NewCatalog(kind).init = (kind = "init")
                         /\ NewCatalog(kind).rows = NoFiles /\ NewCatalog(kind).text = NoFiles
<1>1. NoFiles \in [Files -> Rows] /\ NoFiles \in [Files -> Versions]
  BY DEF NoFiles, Rows, Versions
<1>2. EmptyFile \in Database
  BY <1>1 DEF EmptyFile, Database
<1>3. QED
  BY <1>1, <1>2 DEF NewCatalog, EmptyFile, Database

LEMMA NothingIn ==
  /\ \A f \in Files : NoFiles[f] = 0
  /\ EmptyFile.rows = NoFiles /\ EmptyFile.text = NoFiles /\ EmptyFile.seen = NoFiles
  /\ EmptyFile.tables = FALSE /\ EmptyFile.init = FALSE
BY DEF EmptyFile, NoFiles

LEMMA TodoUpdate ==
  ASSUME TypeOK, NEW p \in Procs, NEW f \in Files
  PROVE  LET new == [proc EXCEPT ![p].todo = @ \ {f}]
         IN /\ new \in [Procs -> Process]
            /\ \A q \in Procs \ {p} : new[q] = proc[q]
            /\ new[p].kind = proc[p].kind /\ new[p].pc = proc[p].pc /\ new[p].db = proc[p].db
            /\ new[p].crashed = proc[p].crashed /\ new[p].todo = proc[p].todo \ {f}
<1>1. proc[p] \in Process /\ proc \in [Procs -> Process]
  BY DEF TypeOK
<1>2. QED
  BY <1>1 DEF Process

LEMMA StopUpdate ==
  ASSUME TypeOK, NEW p \in Procs, NEW crashed \in BOOLEAN, Stop(p, crashed)
  PROVE  /\ proc' \in [Procs -> Process]
         /\ \A q \in Procs \ {p} : proc'[q] = proc[q]
         /\ proc'[p].pc = "idle" /\ proc'[p].kind = "scan"
         /\ proc'[p].crashed = (proc[p].crashed \/ crashed)
<1>1. proc[p] \in Process /\ proc \in [Procs -> Process]
  BY DEF TypeOK
<1>2. IdleProcess \in Process
  BY DEF IdleProcess, Process, Kinds
<1>3. proc[p].crashed \/ crashed \in BOOLEAN
  BY <1>1 DEF Process
<1>4. QED
  BY <1>1, <1>2, <1>3 DEF Stop, Process, IdleProcess
-----------------------------------------------------------------------------
(* The invariant is inductive. *)

LEMMA InitInv == Init => IInv
<1> SUFFICES ASSUME Init PROVE IInv
  OBVIOUS
<1>1. /\ \A p \in Procs : proc[p] = IdleProcess
      /\ \A i \in 1..MaxDbs : dbs[i] = EmptyFile
      /\ created = 0 /\ dest = 0 /\ partials = {} /\ newest = folder
      /\ \A f \in Files : folder[f] \in {0, 1}
  BY DEF Init
<1>2. TypeOK
  <2>1. IdleProcess \in Process
    BY DEF IdleProcess, Process, Kinds
  <2>2. proc \in [Procs -> Process] /\ dbs \in [1..MaxDbs -> Database]
    BY <2>1, FilesOK DEF Init
  <2>3. folder \in [Files -> Versions] /\ newest \in [Files -> Versions]
    BY <1>1 DEF Init, Versions
  <2>4. QED
    BY <1>1, <2>2, <2>3 DEF TypeOK
<1>3. Known /\ Owned /\ InWork /\ Pending /\ Partials /\ InitIsComplete /\ InitIsSnapshot
  BY <1>1 DEF Known, Owned, InWork, Pending, Partials, InitIsComplete, InitIsSnapshot, Works,
              Builds, IdleProcess
<1>4. Described
  <2>1. \A f \in Files : 0 <= newest[f]
    BY <1>2 DEF TypeOK, Versions
  <2>2. \A i \in 1..MaxDbs, f \in Files : dbs[i].rows[f] = 0 /\ dbs[i].text[f] = 0
    BY <1>1, NothingIn
  <2>3. SUFFICES ASSUME NEW i \in 1..MaxDbs, NEW f \in Files
                 PROVE  dbs[i].text[f] = 0 /\ dbs[i].rows[f] <= newest[f]
    BY DEF Described
  <2>4. QED
    BY <2>1, <2>2
<1>5. QED
  BY <1>2, <1>3, <1>4 DEF IInv

(* Versions do not return: a row that is not of the present content of its
   file is not of the next one.                                              *)
LEMMA NoReturn ==
  ASSUME IInv, NEW i \in 1..MaxDbs, NEW g \in Files, Hashed(dbs[i].rows[g]),
         folder'[g] \in {0, folder[g], newest[g] + 1}, folder'[g] \in Versions,
         folder[g] # dbs[i].rows[g]
  PROVE  folder'[g] # dbs[i].rows[g]
<1>1. dbs[i].rows[g] \in Nat /\ newest[g] \in Nat
  BY DEF IInv, TypeOK, Database, Rows, Versions
<1>2. dbs[i].rows[g] = Torn \/ dbs[i].rows[g] <= newest[g]
  BY DEF IInv, Described, Hashed
<1>3. QED
  BY <1>1, <1>2 DEF Versions, Torn, Hashed

LEMMA EditInv == ASSUME IInv, NEW f \in Files, Edit(f) PROVE IInv'
<1>1. /\ UNCHANGED <<dbs, created, dest, partials, proc>>
      /\ newest[f] < MaxVersion
      /\ newest' = [newest EXCEPT ![f] = @ + 1]
      /\ folder' = [folder EXCEPT ![f] = newest[f] + 1]
      /\ TypeOK
  BY DEF Edit, IInv
<1>2. newest[f] \in Nat /\ \A g \in Files : newest[g] \in Nat /\ folder[g] \in Nat
  BY <1>1 DEF TypeOK, Versions
<1>3. TypeOK'
  BY <1>1, <1>2 DEF TypeOK, Versions
<1>4. /\ \A g \in Files : newest'[g] = IF g = f THEN newest[g] + 1 ELSE newest[g]
      /\ \A g \in Files : folder'[g] = IF g = f THEN newest[g] + 1 ELSE folder[g]
  BY <1>1 DEF TypeOK
<1>5. Known'
  BY <1>2, <1>4 DEF IInv, Known
<1>6. Owned' /\ InWork' /\ Partials'
  BY <1>1 DEF IInv, Owned, InWork, Partials, Works, Builds, PartialName, Entries
<1>7. InitIsComplete' /\ InitIsSnapshot'
  BY <1>1 DEF IInv, InitIsComplete, InitIsSnapshot
<1>8. \A i \in 1..MaxDbs, g \in Files : dbs[i].rows[g] \in Nat
  BY <1>1 DEF TypeOK, Database, Rows
<1>9. Described'
  BY <1>1, <1>2, <1>4, <1>8 DEF IInv, Described
<1>10. Pending'
  <2> SUFFICES ASSUME NEW p \in Procs, NEW g \in Files, proc[p].kind = "init",
                      proc[p].pc = "text", Hashed(dbs[proc[p].db].rows[g])
               PROVE  /\ dbs[proc[p].db].text[g] # 0 \/ g \in proc[p].todo
                      /\ \/ dbs[proc[p].db].rows[g] = dbs[proc[p].db].seen[g]
                         \/ g \in proc[p].todo /\ folder'[g] # dbs[proc[p].db].rows[g]
    BY <1>1 DEF Pending
  <2>1. proc[p].db \in 1..MaxDbs
    BY <1>1 DEF IInv, Owned, Works, TypeOK
  <2>2. /\ dbs[proc[p].db].text[g] # 0 \/ g \in proc[p].todo
        /\ \/ dbs[proc[p].db].rows[g] = dbs[proc[p].db].seen[g]
           \/ g \in proc[p].todo /\ folder[g] # dbs[proc[p].db].rows[g]
    BY DEF IInv, Pending
  <2>3. folder'[g] \in {0, folder[g], newest[g] + 1} /\ folder'[g] \in Versions
    BY <1>3, <1>4 DEF TypeOK
  <2>4. QED
    BY <2>1, <2>2, <2>3, NoReturn
<1>11. QED
  BY <1>3, <1>5, <1>6, <1>7, <1>9, <1>10 DEF IInv

LEMMA DeleteInv == ASSUME IInv, NEW f \in Files, Delete(f) PROVE IInv'
<1>1. /\ UNCHANGED <<newest, dbs, created, dest, partials, proc>>
      /\ folder' = [folder EXCEPT ![f] = 0]
      /\ TypeOK
  BY DEF Delete, IInv
<1>2. TypeOK'
  BY <1>1 DEF TypeOK, Versions
<1>3. \A g \in Files : folder'[g] = IF g = f THEN 0 ELSE folder[g]
  BY <1>1 DEF TypeOK
<1>4. Known'
  BY <1>1, <1>3 DEF IInv, Known, TypeOK, Versions
<1>5. Owned' /\ InWork' /\ Partials'
  BY <1>1 DEF IInv, Owned, InWork, Partials, Works, Builds, PartialName, Entries
<1>6. InitIsComplete' /\ InitIsSnapshot' /\ Described'
  BY <1>1 DEF IInv, InitIsComplete, InitIsSnapshot, Described
<1>7. Pending'
  <2> SUFFICES ASSUME NEW p \in Procs, NEW g \in Files, proc[p].kind = "init",
                      proc[p].pc = "text", Hashed(dbs[proc[p].db].rows[g])
               PROVE  /\ dbs[proc[p].db].text[g] # 0 \/ g \in proc[p].todo
                      /\ \/ dbs[proc[p].db].rows[g] = dbs[proc[p].db].seen[g]
                         \/ g \in proc[p].todo /\ folder'[g] # dbs[proc[p].db].rows[g]
    BY <1>1 DEF Pending
  <2>1. /\ dbs[proc[p].db].text[g] # 0 \/ g \in proc[p].todo
        /\ \/ dbs[proc[p].db].rows[g] = dbs[proc[p].db].seen[g]
           \/ g \in proc[p].todo /\ folder[g] # dbs[proc[p].db].rows[g]
    BY DEF IInv, Pending
  <2>2. QED
    BY <1>3, <2>1 DEF Hashed
<1>8. QED
  BY <1>2, <1>4, <1>5, <1>6, <1>7 DEF IInv

(* A scan begins in a file of its own. *)
LEMMA BeginInv ==
  ASSUME IInv, NEW p \in Procs, NEW kind \in {"scan", "init"}, NEW replace \in BOOLEAN,
         Begin(p, kind, replace)
  PROVE  IInv'
<1> DEFINE i == created + 1
<1>1. /\ UNCHANGED <<folder, newest, dest>> /\ created < MaxDbs /\ created' = i
      /\ dbs' = [dbs EXCEPT ![i] = NewCatalog(kind)]
      /\ proc[p].pc = "idle"
      /\ TypeOK /\ created \in Nat /\ i \in 1..MaxDbs /\ dest <= created /\ dest \in Nat
  BY DEF Begin, IInv, TypeOK, Owned
<1>2. /\ proc' \in [Procs -> Process]
      /\ \A q \in Procs \ {p} : proc'[q] = proc[q]
      /\ proc'[p] = [kind |-> kind, pc |-> "scan", db |-> i, todo |-> Files,
                     crashed |-> proc[p].crashed]
  BY <1>1 DEF Begin, TypeOK, Process, Kinds
<1>3. /\ dbs' \in [1..MaxDbs -> Database]
      /\ \A j \in 1..MaxDbs \ {i} : dbs'[j] = dbs[j]
      /\ dbs'[i] = NewCatalog(kind)
  BY <1>1, FilesOK DEF TypeOK, Kinds
<1>4. NewCatalog(kind).tables = TRUE /\ NewCatalog(kind).init = (kind = "init")
  BY FilesOK DEF Kinds
<1>5. \A f \in Files : NewCatalog(kind).rows[f] = 0 /\ NewCatalog(kind).text[f] = 0
  <2>1. NewCatalog(kind).rows = NoFiles /\ NewCatalog(kind).text = NoFiles
    BY FilesOK DEF Kinds
  <2>2. QED
    BY <2>1, NothingIn
<1>6. \A q \in Procs : Works(q) => proc[q].db \in 1..MaxDbs /\ proc[q].db # i
  BY <1>1 DEF IInv, Owned
<1>7. TypeOK'
  <2>1. partials' \subseteq Procs \X {"scan", "nested", "init"}
    BY <1>1 DEF Begin, TypeOK, PartialName
  <2>2. QED
    BY <1>1, <1>2, <1>3, <2>1 DEF TypeOK
<1>8. Known' /\ InitIsComplete' /\ InitIsSnapshot'
  <2>1. dest' # 0 => dest' = dest /\ dbs'[dest] = dbs[dest]
    BY <1>1, <1>3
  <2>2. QED
    BY <1>1, <2>1 DEF IInv, Known, InitIsComplete, InitIsSnapshot
<1>9. Owned'
  <2>1. \A q \in Procs \ {p} : Works(q)' = Works(q) /\ Builds(q)' = Builds(q)
    BY <1>2 DEF Works, Builds
  <2>2. dest' <= created' /\ \A j \in 1..MaxDbs : j > created' => dbs'[j] = EmptyFile
    BY <1>1, <1>3 DEF IInv, Owned
  <2>3. \A q \in Procs : Works(q)' => proc'[q].db \in 1..created'
    BY <1>1, <1>2, <2>1 DEF IInv, Owned
  <2>4. \A q \in Procs : Builds(q)' => proc'[q].db # dest'
    BY <1>1, <1>2, <2>1 DEF IInv, Owned
  <2>5. \A q, r \in Procs : Builds(q)' /\ Works(r)' /\ q # r => proc'[q].db # proc'[r].db
    BY <1>2, <1>6, <2>1 DEF IInv, Owned, Builds, Works
  <2>6. QED
    BY <2>2, <2>3, <2>4, <2>5 DEF Owned
<1>10. Described'
  <2>1. \A f \in Files : 0 <= newest[f]
    BY <1>1 DEF TypeOK, Versions
  <2> SUFFICES ASSUME NEW j \in 1..MaxDbs, NEW f \in Files
               PROVE  /\ dbs'[j].text[f] \in {0, dbs'[j].rows[f]}
                      /\ dbs'[j].rows[f] \in {Torn, Unhashed} \/ dbs'[j].rows[f] <= newest[f]
    BY <1>1 DEF Described, Torn, Unhashed
  <2>2. CASE j = i
    BY <1>3, <1>5, <2>1, <2>2
  <2>3. CASE j # i
    BY <1>3, <2>3 DEF IInv, Described
  <2>4. QED
    BY <2>2, <2>3
<1>11. InWork'
  <2> SUFFICES ASSUME NEW q \in Procs
               PROVE  /\ proc'[q].pc = "scan" =>
                           /\ proc'[q].kind # "enrich"
                           /\ \A f \in Files : dbs'[proc'[q].db].text[f] = 0
                      /\ proc'[q].pc # "idle" => dbs'[proc'[q].db].tables
                      /\ proc'[q].pc # "idle" /\ proc'[q].kind # "enrich" =>
                           dbs'[proc'[q].db].init = (proc'[q].kind = "init")
                      /\ proc'[q].pc = "text" =>
                           proc'[q].todo \subseteq Entries(dbs'[proc'[q].db])
    BY DEF InWork, Works, Builds, Entries
  <2>1. CASE q = p
    BY <1>2, <1>3, <1>4, <1>5, <2>1
  <2>2. CASE q # p
    BY <1>2, <1>3, <1>6, <2>2 DEF IInv, InWork, Works, Builds
  <2>3. QED
    BY <2>1, <2>2
<1>12. Pending'
  BY <1>1, <1>2, <1>3, <1>6 DEF IInv, Pending, Works
<1>13. Partials'
  BY <1>1, <1>2 DEF IInv, Partials, Begin, PartialName, Builds
<1>14. QED
  BY <1>7, <1>8, <1>9, <1>10, <1>11, <1>12, <1>13 DEF IInv

(* The next row of a catalog that nobody else knows. *)
LEMMA ScanFileInv == ASSUME IInv, NEW p \in Procs, NEW f \in Files, ScanFile(p, f) PROVE IInv'
<1>0. PICK i \in 1..MaxDbs : i = proc[p].db
  BY DEF ScanFile, IInv, Works, Owned, TypeOK
<1>1. /\ UNCHANGED <<created, dest, partials>> /\ proc[p].pc = "scan"
      /\ proc[p].kind # "enrich" /\ Works(p) /\ Builds(p)
      /\ TypeOK /\ i = proc[p].db /\ i \in 1..MaxDbs /\ i \in 1..created /\ created \in Nat
  BY <1>0 DEF ScanFile, IInv, InWork, Works, Builds, Owned, TypeOK
<1>2. /\ folder[f] \in Nat /\ newest[f] \in Nat /\ folder[f] <= newest[f]
      /\ folder[f] \in Versions /\ newest[f] \in Versions
  BY <1>1 DEF IInv, TypeOK, Versions, Known
<1>3. PICK row \in Rows :
        /\ dbs' = [dbs EXCEPT ![i].rows[f] = row]
        /\ row \in {Torn, Unhashed} \/ row = folder[f]
        /\ \/ UNCHANGED <<folder, newest>>
           \/ /\ newest[f] < MaxVersion
              /\ newest' = [newest EXCEPT ![f] = newest[f] + 1]
              /\ folder' = [folder EXCEPT ![f] = newest[f] + 1]
              /\ row = Torn
  <2>1. folder[f] \in Rows /\ Torn \in Rows /\ Unhashed \in Rows
    BY <1>2 DEF Rows, Torn, Unhashed, Versions
  <2>2. CASE dbs' = [dbs EXCEPT ![i].rows[f] = folder[f]] /\ UNCHANGED <<folder, newest>>
    BY <2>1, <2>2
  <2>3. CASE dbs' = [dbs EXCEPT ![i].rows[f] = Unhashed] /\ UNCHANGED <<folder, newest>>
    BY <2>1, <2>3
  <2>4. CASE /\ newest[f] < MaxVersion
             /\ newest' = [newest EXCEPT ![f] = newest[f] + 1]
             /\ folder' = [folder EXCEPT ![f] = newest[f] + 1]
             /\ dbs' = [dbs EXCEPT ![i].rows[f] = Torn]
    BY <2>1, <2>4
  <2>5. QED
    BY <1>1, <2>2, <2>3, <2>4 DEF ScanFile
<1>4. /\ folder' \in [Files -> Versions] /\ newest' \in [Files -> Versions]
      /\ \A g \in Files : folder'[g] \in {folder[g], newest[g] + 1} /\ newest[g] <= newest'[g]
      /\ Known'
  <2>1. CASE UNCHANGED <<folder, newest>>
    BY <1>1, <2>1 DEF IInv, TypeOK, Versions, Known
  <2>2. CASE /\ newest[f] < MaxVersion
             /\ newest' = [newest EXCEPT ![f] = newest[f] + 1]
             /\ folder' = [folder EXCEPT ![f] = newest[f] + 1]
    BY <1>1, <1>2, <2>2 DEF IInv, TypeOK, Versions, Known
  <2>3. QED
    BY <1>3, <2>1, <2>2
<1>5. /\ proc' \in [Procs -> Process]
      /\ \A q \in Procs \ {p} : proc'[q] = proc[q]
      /\ proc'[p].kind = proc[p].kind /\ proc'[p].pc = "scan" /\ proc'[p].db = i
      /\ proc'[p].crashed = proc[p].crashed
  BY <1>1, TodoUpdate DEF ScanFile
<1>6. /\ dbs' \in [1..MaxDbs -> Database]
      /\ \A j \in 1..MaxDbs \ {i} : dbs'[j] = dbs[j]
      /\ dbs'[i].text = dbs[i].text /\ dbs'[i].init = dbs[i].init
      /\ dbs'[i].tables = dbs[i].tables
      /\ \A g \in Files : dbs'[i].rows[g] = IF g = f THEN row ELSE dbs[i].rows[g]
  <2>1. dbs[i] \in Database /\ dbs \in [1..MaxDbs -> Database]
    BY <1>1 DEF TypeOK
  <2>2. [dbs[i].rows EXCEPT ![f] = row] \in [Files -> Rows]
    BY <2>1 DEF Database
  <2>3. dbs'[i] = [dbs[i] EXCEPT !.rows = [dbs[i].rows EXCEPT ![f] = row]]
    BY <1>3, <2>1
  <2>4. dbs'[i] \in Database
    BY <2>1, <2>2, <2>3 DEF Database
  <2>5. dbs' \in [1..MaxDbs -> Database] /\ \A j \in 1..MaxDbs \ {i} : dbs'[j] = dbs[j]
    BY <1>3, <2>1, <2>4
  <2>6. QED
    BY <2>1, <2>3, <2>5 DEF Database
<1>7. \A q \in Procs \ {p} : Works(q) => proc[q].db \in 1..MaxDbs /\ proc[q].db # i
  BY <1>1 DEF IInv, Owned, TypeOK
<1>8. \A q \in Procs : Works(q)' = Works(q) /\ Builds(q)' = Builds(q) /\ proc'[q].db = proc[q].db
  BY <1>1, <1>5 DEF Works, Builds
<1>9. TypeOK'
  BY <1>1, <1>4, <1>5, <1>6 DEF TypeOK
<1>10. Owned'
  <2>1. \A j \in 1..MaxDbs : j > created' => dbs'[j] = EmptyFile
    <3>1. SUFFICES ASSUME NEW j \in 1..MaxDbs, j > created PROVE dbs'[j] = EmptyFile
      BY <1>1
    <3>2. j # i /\ dbs[j] = EmptyFile
      BY <1>1, <3>1 DEF IInv, Owned
    <3>3. QED
      BY <1>6, <3>2
  <2>2. QED
    BY <1>1, <1>8, <2>1 DEF IInv, Owned
<1>11. Described'
  <2> SUFFICES ASSUME NEW j \in 1..MaxDbs, NEW g \in Files
               PROVE  /\ dbs'[j].text[g] \in {0, dbs'[j].rows[g]}
                      /\ dbs'[j].rows[g] \in {Torn, Unhashed} \/ dbs'[j].rows[g] <= newest'[g]
    BY DEF Described, Torn, Unhashed
  <2>1. newest[g] \in Nat /\ newest'[g] \in Nat /\ dbs[j].rows[g] \in Nat
    BY <1>1, <1>4 DEF TypeOK, Versions, Database, Rows
  <2>2. CASE j = i /\ g = f
    <3>1. dbs[i].text[f] = 0
      BY <1>1 DEF IInv, InWork
    <3>2. row \in {Torn, Unhashed} \/ row <= newest'[f]
      BY <1>2, <1>3, <1>4, <2>1, <2>2
    <3>3. QED
      BY <1>6, <2>2, <3>1, <3>2
  <2>3. CASE ~(j = i /\ g = f)
    <3>1. dbs'[j].text[g] = dbs[j].text[g] /\ dbs'[j].rows[g] = dbs[j].rows[g]
      BY <1>6, <2>3
    <3>2. dbs[j].text[g] \in {0, dbs[j].rows[g]}
      BY DEF IInv, Described
    <3>3. dbs[j].rows[g] \in {Torn, Unhashed} \/ dbs[j].rows[g] <= newest'[g]
      BY <1>4, <2>1 DEF IInv, Described
    <3>4. QED
      BY <3>1, <3>2, <3>3
  <2>4. QED
    BY <2>2, <2>3
<1>12. InWork'
  <2> SUFFICES ASSUME NEW q \in Procs
               PROVE  /\ proc'[q].pc = "scan" =>
                           /\ proc'[q].kind # "enrich"
                           /\ \A g \in Files : dbs'[proc'[q].db].text[g] = 0
                      /\ proc'[q].pc # "idle" => dbs'[proc'[q].db].tables
                      /\ proc'[q].pc # "idle" /\ proc'[q].kind # "enrich" =>
                           dbs'[proc'[q].db].init = (proc'[q].kind = "init")
                      /\ proc'[q].pc = "text" =>
                           proc'[q].todo \subseteq Entries(dbs'[proc'[q].db])
    BY DEF InWork, Works, Builds, Entries
  <2>1. CASE q = p
    BY <1>1, <1>5, <1>6, <2>1 DEF IInv, InWork
  <2>2. CASE q # p
    BY <1>5, <1>6, <1>7, <2>2 DEF IInv, InWork, Works, Builds
  <2>3. QED
    BY <2>1, <2>2
<1>13. Pending'
  <2> SUFFICES ASSUME NEW q \in Procs, NEW g \in Files, proc'[q].kind = "init",
                      proc'[q].pc = "text", Hashed(dbs'[proc'[q].db].rows[g])
               PROVE  /\ dbs'[proc'[q].db].text[g] # 0 \/ g \in proc'[q].todo
                      /\ \/ dbs'[proc'[q].db].rows[g] = dbs'[proc'[q].db].seen[g]
                         \/ g \in proc'[q].todo /\ folder'[g] # dbs'[proc'[q].db].rows[g]
    BY DEF Pending, Hashed, Unhashed
  <2>1. q # p
    BY <1>5
  <2>2. /\ proc'[q] = proc[q] /\ proc[q].db \in 1..MaxDbs
        /\ dbs'[proc[q].db] = dbs[proc[q].db]
    BY <1>5, <1>6, <1>7, <2>1 DEF Works
  <2>3. /\ dbs[proc[q].db].text[g] # 0 \/ g \in proc[q].todo
        /\ \/ dbs[proc[q].db].rows[g] = dbs[proc[q].db].seen[g]
           \/ g \in proc[q].todo /\ folder[g] # dbs[proc[q].db].rows[g]
    BY <2>2 DEF IInv, Pending
  <2>4. folder'[g] \in {0, folder[g], newest[g] + 1} /\ folder'[g] \in Versions
    BY <1>4
  <2>5. QED
    BY <2>2, <2>3, <2>4, NoReturn
<1>14. Partials'
  BY <1>1, <1>5, <1>8 DEF IInv, Partials
<1>15. InitIsComplete' /\ InitIsSnapshot'
  <2>1. dest' # 0 => dest' = dest /\ dbs'[dest] = dbs[dest]
    BY <1>1, <1>6 DEF IInv, Owned, TypeOK
  <2>2. QED
    BY <1>1, <2>1 DEF IInv, InitIsComplete, InitIsSnapshot
<1>16. QED
  BY <1>4, <1>9, <1>10, <1>11, <1>12, <1>13, <1>14, <1>15 DEF IInv

(* The folder that an initialization is a snapshot of. *)
LEMMA ScanDoneInv == ASSUME IInv, NEW p \in Procs, ScanDone(p) PROVE IInv'
<1>0. PICK i \in 1..MaxDbs : i = proc[p].db
  BY DEF ScanDone, IInv, Works, Owned, TypeOK
<1>1. /\ UNCHANGED <<folder, newest, created, dest>>
      /\ proc[p].pc = "scan" /\ proc[p].todo = {} /\ proc[p].kind # "enrich"
      /\ Works(p) /\ Builds(p) /\ i \in 1..created /\ created \in Nat /\ i = proc[p].db
      /\ dbs' = [dbs EXCEPT ![i].seen = folder]
      /\ TypeOK
  BY <1>0 DEF ScanDone, IInv, InWork, Works, Builds, Owned, TypeOK
<1>2. proc[p] \in Process /\ proc \in [Procs -> Process]
  BY <1>1 DEF TypeOK
<1>3. /\ proc' \in [Procs -> Process]
      /\ \A q \in Procs \ {p} : proc'[q] = proc[q]
      /\ proc'[p] = [proc[p] EXCEPT !.pc = "text",
                        !.todo = IF proc[p].kind = "init" THEN Entries(dbs[i]) ELSE {}]
  <2>1. proc' = [proc EXCEPT ![p].pc = "text",
                   ![p].todo = IF proc[p].kind = "init" THEN Entries(dbs[i]) ELSE {}]
    BY <1>1 DEF ScanDone
  <2>2. Entries(dbs[i]) \subseteq Files
    BY DEF Entries
  <2>3. QED
    BY <1>2, <2>1, <2>2 DEF Process
<1>4. /\ proc'[p].kind = proc[p].kind /\ proc'[p].pc = "text" /\ proc'[p].db = i
      /\ proc'[p].crashed = proc[p].crashed
      /\ proc'[p].todo \subseteq Entries(dbs[i])
      /\ proc[p].kind = "init" => proc'[p].todo = Entries(dbs[i])
  BY <1>1, <1>2, <1>3 DEF Process
<1>5. /\ dbs' \in [1..MaxDbs -> Database]
      /\ \A j \in 1..MaxDbs \ {i} : dbs'[j] = dbs[j]
      /\ dbs'[i].rows = dbs[i].rows /\ dbs'[i].text = dbs[i].text
      /\ dbs'[i].init = dbs[i].init /\ dbs'[i].tables = dbs[i].tables
      /\ dbs'[i].seen = folder
  <2>1. dbs[i] \in Database /\ dbs \in [1..MaxDbs -> Database] /\ folder \in [Files -> Versions]
    BY <1>1 DEF TypeOK
  <2>2. dbs'[i] = [dbs[i] EXCEPT !.seen = folder]
    BY <1>1, <2>1
  <2>3. dbs'[i] \in Database
    BY <2>1, <2>2 DEF Database
  <2>4. dbs' \in [1..MaxDbs -> Database] /\ \A j \in 1..MaxDbs \ {i} : dbs'[j] = dbs[j]
    BY <1>1, <2>1, <2>3
  <2>5. QED
    BY <2>1, <2>2, <2>4 DEF Database
<1>6. \A q \in Procs \ {p} : Works(q) => proc[q].db \in 1..MaxDbs /\ proc[q].db # i
  BY <1>1 DEF IInv, Owned, TypeOK
<1>7. \A q \in Procs : Works(q)' = Works(q) /\ Builds(q)' = Builds(q) /\ proc'[q].db = proc[q].db
  BY <1>1, <1>3, <1>4 DEF Works, Builds
<1>8. TypeOK'
  <2>1. partials' \subseteq Procs \X {"scan", "nested", "init"}
    BY <1>1 DEF ScanDone, TypeOK, PartialName
  <2>2. QED
    BY <1>1, <1>3, <1>5, <2>1 DEF TypeOK
<1>9. Known' /\ Described'
  <2>1. \A j \in 1..MaxDbs : dbs'[j].rows = dbs[j].rows /\ dbs'[j].text = dbs[j].text
    BY <1>5
  <2>2. QED
    BY <1>1, <2>1 DEF IInv, Known, Described
<1>10. Owned'
  <2>1. \A j \in 1..MaxDbs : j > created' => dbs'[j] = EmptyFile
    <3>1. SUFFICES ASSUME NEW j \in 1..MaxDbs, j > created PROVE dbs'[j] = EmptyFile
      BY <1>1
    <3>2. j # i /\ dbs[j] = EmptyFile
      BY <1>1, <3>1 DEF IInv, Owned
    <3>3. QED
      BY <1>5, <3>2
  <2>2. QED
    BY <1>1, <1>7, <2>1 DEF IInv, Owned
<1>11. InWork'
  <2> SUFFICES ASSUME NEW q \in Procs
               PROVE  /\ proc'[q].pc = "scan" =>
                           /\ proc'[q].kind # "enrich"
                           /\ \A g \in Files : dbs'[proc'[q].db].text[g] = 0
                      /\ proc'[q].pc # "idle" => dbs'[proc'[q].db].tables
                      /\ proc'[q].pc # "idle" /\ proc'[q].kind # "enrich" =>
                           dbs'[proc'[q].db].init = (proc'[q].kind = "init")
                      /\ proc'[q].pc = "text" =>
                           proc'[q].todo \subseteq Entries(dbs'[proc'[q].db])
    BY DEF InWork, Works, Builds, Entries
  <2>1. CASE q = p
    BY <1>1, <1>4, <1>5, <2>1 DEF IInv, InWork, Entries
  <2>2. CASE q # p
    BY <1>3, <1>5, <1>6, <2>2 DEF IInv, InWork, Works, Builds
  <2>3. QED
    BY <2>1, <2>2
<1>12. Pending'
  <2> SUFFICES ASSUME NEW q \in Procs, NEW g \in Files, proc'[q].kind = "init",
                      proc'[q].pc = "text", Hashed(dbs'[proc'[q].db].rows[g])
               PROVE  /\ dbs'[proc'[q].db].text[g] # 0 \/ g \in proc'[q].todo
                      /\ \/ dbs'[proc'[q].db].rows[g] = dbs'[proc'[q].db].seen[g]
                         \/ g \in proc'[q].todo /\ folder'[g] # dbs'[proc'[q].db].rows[g]
    BY DEF Pending, Hashed, Unhashed
  <2>1. CASE q = p
    <3>1. g \in proc'[p].todo
      BY <1>4, <1>5, <2>1 DEF Entries
    <3>2. QED
      BY <1>1, <1>4, <1>5, <2>1, <3>1
  <2>2. CASE q # p
    BY <1>1, <1>3, <1>5, <1>6, <2>2 DEF IInv, Pending, Works
  <2>3. QED
    BY <2>1, <2>2
<1>13. Partials'
  <2> SUFFICES ASSUME NEW q \in Procs, NEW n \in {"scan", "nested", "init"},
                      <<q, n>> \in partials', ~proc'[q].crashed
               PROVE  Builds(q)' /\ <<q, n>> = PartialName(q, proc'[q].kind, proc'[q].pc)
    BY DEF Partials, PartialName
  <2>1. CASE q = p
    BY <1>1, <1>4, <1>7, <2>1 DEF IInv, Partials, ScanDone, PartialName
  <2>2. CASE q # p
    BY <1>1, <1>3, <1>7, <2>2 DEF IInv, Partials, ScanDone, PartialName
  <2>3. QED
    BY <2>1, <2>2
<1>14. InitIsComplete' /\ InitIsSnapshot'
  <2>1. dest' # 0 => dest' = dest /\ dbs'[dest] = dbs[dest]
    BY <1>1, <1>5 DEF IInv, Owned, TypeOK
  <2>2. QED
    BY <1>1, <2>1 DEF IInv, InitIsComplete, InitIsSnapshot
<1>15. QED
  BY <1>8, <1>9, <1>10, <1>11, <1>12, <1>13, <1>14 DEF IInv

(* Text is added to what is described by the row it was compared with. *)
LEMMA ProcessEntryInv ==
  ASSUME IInv, NEW p \in Procs, NEW f \in Files, ProcessEntry(p, f) PROVE IInv'
<1>0. PICK i \in 1..MaxDbs : i = proc[p].db
  BY DEF ProcessEntry, IInv, Works, Owned, TypeOK
<1>1. PICK v \in Versions : v = folder[f]
  BY DEF IInv, TypeOK
<1>2. /\ UNCHANGED <<folder, newest, created, dest, partials>>
      /\ proc[p].pc = "text" /\ Works(p) /\ i \in 1..created /\ created \in Nat
      /\ i = proc[p].db /\ v = folder[f] /\ v = dbs[i].rows[f]
      /\ dbs' = [dbs EXCEPT ![i].text[f] = v]
      /\ TypeOK
  BY <1>0, <1>1 DEF ProcessEntry, SameContent, IInv, Works, Owned, TypeOK
<1>3. v # 0
  <2>1. f \in Entries(dbs[i])
    BY <1>2 DEF ProcessEntry, Next1, IInv, InWork
  <2>2. QED
    BY <1>2, <2>1 DEF Entries, Hashed
<1>4. /\ proc' \in [Procs -> Process]
      /\ \A q \in Procs \ {p} : proc'[q] = proc[q]
      /\ proc'[p].kind = proc[p].kind /\ proc'[p].pc = "text" /\ proc'[p].db = i
      /\ proc'[p].crashed = proc[p].crashed /\ proc'[p].todo = proc[p].todo \ {f}
  BY <1>2, TodoUpdate DEF ProcessEntry
<1>5. /\ dbs' \in [1..MaxDbs -> Database]
      /\ \A j \in 1..MaxDbs \ {i} : dbs'[j] = dbs[j]
      /\ dbs'[i].rows = dbs[i].rows /\ dbs'[i].seen = dbs[i].seen
      /\ dbs'[i].init = dbs[i].init /\ dbs'[i].tables = dbs[i].tables
      /\ \A g \in Files : dbs'[i].text[g] = IF g = f THEN v ELSE dbs[i].text[g]
  <2>1. dbs[i] \in Database /\ dbs \in [1..MaxDbs -> Database]
    BY <1>2 DEF TypeOK
  <2>2. [dbs[i].text EXCEPT ![f] = v] \in [Files -> Versions]
    BY <2>1 DEF Database
  <2>3. dbs'[i] = [dbs[i] EXCEPT !.text = [dbs[i].text EXCEPT ![f] = v]]
    BY <1>2, <2>1
  <2>4. dbs'[i] \in Database
    BY <2>1, <2>2, <2>3 DEF Database
  <2>5. dbs' \in [1..MaxDbs -> Database] /\ \A j \in 1..MaxDbs \ {i} : dbs'[j] = dbs[j]
    BY <1>2, <2>1, <2>4
  <2>6. QED
    BY <2>1, <2>3, <2>5 DEF Database
<1>6. \A j \in 1..MaxDbs : dbs'[j].rows = dbs[j].rows /\ dbs'[j].seen = dbs[j].seen
                         /\ dbs'[j].init = dbs[j].init /\ dbs'[j].tables = dbs[j].tables
                         /\ \A g \in Files : dbs[j].text[g] # 0 => dbs'[j].text[g] # 0
  BY <1>3, <1>5
<1>7. \A q \in Procs : Works(q)' = Works(q) /\ Builds(q)' = Builds(q) /\ proc'[q].db = proc[q].db
  BY <1>2, <1>4 DEF Works, Builds
<1>8. \A q \in Procs : Works(q) => proc[q].db \in 1..MaxDbs
  BY <1>2 DEF IInv, Owned, TypeOK
<1>9. TypeOK' /\ Known'
  BY <1>2, <1>4, <1>5 DEF IInv, TypeOK, Known
<1>10. Described'
  <2> SUFFICES ASSUME NEW j \in 1..MaxDbs, NEW g \in Files
               PROVE  /\ dbs'[j].text[g] \in {0, dbs[j].rows[g]}
                      /\ dbs[j].rows[g] \in {Torn, Unhashed} \/ dbs[j].rows[g] <= newest[g]
    BY <1>2, <1>6 DEF Described, Torn, Unhashed
  <2>1. dbs'[j].text[g] = dbs[j].text[g] \/ dbs'[j].text[g] = dbs[j].rows[g]
    BY <1>2, <1>5
  <2>2. QED
    BY <2>1 DEF IInv, Described
<1>11. Owned'
  <2>1. \A j \in 1..MaxDbs : j > created' => dbs'[j] = EmptyFile
    <3>1. SUFFICES ASSUME NEW j \in 1..MaxDbs, j > created PROVE dbs'[j] = EmptyFile
      BY <1>2
    <3>2. j # i /\ dbs[j] = EmptyFile
      BY <1>2, <3>1 DEF IInv, Owned
    <3>3. QED
      BY <1>5, <3>2
  <2>2. QED
    BY <1>2, <1>7, <2>1 DEF IInv, Owned
<1>12. InWork'
  <2> SUFFICES ASSUME NEW q \in Procs
               PROVE  /\ proc'[q].pc = "scan" =>
                           /\ proc'[q].kind # "enrich"
                           /\ \A g \in Files : dbs'[proc'[q].db].text[g] = 0
                      /\ proc'[q].pc # "idle" => dbs'[proc'[q].db].tables
                      /\ proc'[q].pc # "idle" /\ proc'[q].kind # "enrich" =>
                           dbs'[proc'[q].db].init = (proc'[q].kind = "init")
                      /\ proc'[q].pc = "text" =>
                           proc'[q].todo \subseteq Entries(dbs'[proc'[q].db])
    BY DEF InWork, Works, Builds, Entries
  <2>1. CASE q = p
    <3>1. dbs'[i].tables /\ (proc[p].kind # "enrich" => dbs'[i].init = (proc[p].kind = "init"))
      BY <1>2, <1>5 DEF IInv, InWork, Builds, Works
    <3>2. proc[p].todo \subseteq Entries(dbs[i]) /\ Entries(dbs'[i]) = Entries(dbs[i])
      BY <1>2, <1>5 DEF IInv, InWork, Entries
    <3>3. QED
      BY <1>4, <2>1, <3>1, <3>2
  <2>2. CASE q # p
    <3>1. proc[q].pc = "scan" => proc[q].kind # "enrich" /\ proc[q].db # i
      BY <1>2, <2>2 DEF IInv, InWork, Owned, Builds, Works
    <3>2. proc[q].pc = "scan" => \A g \in Files : dbs'[proc[q].db].text[g] = 0
      BY <1>5, <1>8, <3>1 DEF IInv, InWork, Works
    <3>3. proc[q].pc = "text" => proc[q].todo \subseteq Entries(dbs'[proc[q].db])
      BY <1>6, <1>8 DEF IInv, InWork, Works, Entries
    <3>4. QED
      BY <1>4, <1>6, <1>8, <2>2, <3>1, <3>2, <3>3 DEF IInv, InWork, Works, Builds
  <2>3. QED
    BY <2>1, <2>2
<1>13. Pending'
  <2> SUFFICES ASSUME NEW q \in Procs, NEW g \in Files, proc'[q].kind = "init",
                      proc'[q].pc = "text", Hashed(dbs'[proc'[q].db].rows[g])
               PROVE  /\ dbs'[proc'[q].db].text[g] # 0 \/ g \in proc'[q].todo
                      /\ \/ dbs'[proc'[q].db].rows[g] = dbs'[proc'[q].db].seen[g]
                         \/ g \in proc'[q].todo /\ folder'[g] # dbs'[proc'[q].db].rows[g]
    BY DEF Pending, Hashed, Unhashed
  <2>1. /\ proc[q].kind = "init" /\ proc[q].pc = "text" /\ proc'[q].db = proc[q].db
        /\ proc[q].db \in 1..MaxDbs
    BY <1>2, <1>4, <1>8 DEF Works
  <2>2. /\ dbs[proc[q].db].text[g] # 0 \/ g \in proc[q].todo
        /\ \/ dbs[proc[q].db].rows[g] = dbs[proc[q].db].seen[g]
           \/ g \in proc[q].todo /\ folder[g] # dbs[proc[q].db].rows[g]
    BY <1>6, <2>1 DEF IInv, Pending
  <2>3. CASE q = p
    <3>1. /\ dbs[i].text[g] # 0 \/ g \in proc[p].todo
          /\ \/ dbs[i].rows[g] = dbs[i].seen[g]
             \/ g \in proc[p].todo /\ folder[g] # dbs[i].rows[g]
      BY <1>2, <2>2, <2>3
    <3>2. CASE g = f
      BY <1>2, <1>3, <1>4, <1>5, <2>3, <3>1, <3>2
    <3>3. CASE g # f
      BY <1>2, <1>4, <1>5, <2>3, <3>1, <3>3
    <3>4. QED
      BY <3>2, <3>3
  <2>4. CASE q # p
    <3>1. proc'[q] = proc[q] /\ folder' = folder
      BY <1>2, <1>4, <2>4
    <3>2. PICK j \in 1..MaxDbs : j = proc[q].db
      BY <2>1
    <3>3. /\ dbs'[j].rows = dbs[j].rows /\ dbs'[j].seen = dbs[j].seen
          /\ dbs[j].text[g] # 0 => dbs'[j].text[g] # 0
      BY <1>6
    <3>4. QED
      BY <2>2, <3>1, <3>2, <3>3
  <2>5. QED
    BY <2>3, <2>4
<1>14. Partials'
  BY <1>2, <1>4, <1>7 DEF IInv, Partials
<1>15. InitIsComplete' /\ InitIsSnapshot'
  <2>1. dest # 0 => dest \in 1..MaxDbs
    BY <1>2 DEF TypeOK
  <2>2. QED
    BY <1>2, <1>6, <2>1 DEF IInv, InitIsComplete, InitIsSnapshot
<1>16. QED
  BY <1>9, <1>10, <1>11, <1>12, <1>13, <1>14, <1>15 DEF IInv

(* Who stops leaves no file that anyone looks at. *)
LEMMA StopInv ==
  ASSUME IInv, NEW p \in Procs, NEW crashed \in BOOLEAN, Stop(p, crashed), Works(p),
         UNCHANGED <<folder, newest, created, dest>>,
         \/ UNCHANGED <<dbs, partials>> /\ (Builds(p) => crashed)
         \/ /\ Builds(p) /\ dbs' = [dbs EXCEPT ![proc[p].db] = EmptyFile]
            /\ partials' = Cleanup(p)
  PROVE  IInv'
<1>0. PICK i \in 1..MaxDbs : i = proc[p].db
  BY DEF IInv, Owned, TypeOK
<1>1. TypeOK /\ i = proc[p].db /\ i \in 1..created /\ created \in Nat
  BY <1>0 DEF IInv, Owned, TypeOK
<1>2. /\ proc' \in [Procs -> Process]
      /\ \A q \in Procs \ {p} : proc'[q] = proc[q]
      /\ proc'[p].pc = "idle" /\ proc'[p].kind = "scan"
      /\ proc'[p].crashed = (proc[p].crashed \/ crashed)
  BY <1>1, StopUpdate
<1>3. /\ dbs' \in [1..MaxDbs -> Database]
      /\ \A j \in 1..MaxDbs :
           dbs'[j] = dbs[j] \/ (Builds(p) /\ j = i /\ dbs'[j] = EmptyFile)
  BY <1>1, FilesOK DEF TypeOK
<1>4. partials' \subseteq partials
  BY DEF Cleanup
<1>5. \A q \in Procs \ {p} :
        Works(q) => proc[q].db \in 1..MaxDbs /\ dbs'[proc[q].db] = dbs[proc[q].db]
  BY <1>1, <1>3 DEF IInv, Owned, TypeOK
<1>6. TypeOK' /\ Known'
  <2>1. partials' \subseteq Procs \X {"scan", "nested", "init"}
    BY <1>1, <1>4 DEF TypeOK
  <2>2. QED
    BY <1>1, <1>2, <1>3, <2>1 DEF IInv, TypeOK, Known
<1>7. Described'
  <2> SUFFICES ASSUME NEW j \in 1..MaxDbs, NEW g \in Files
               PROVE  /\ dbs'[j].text[g] \in {0, dbs'[j].rows[g]}
                      /\ dbs'[j].rows[g] \in {Torn, Unhashed} \/ dbs'[j].rows[g] <= newest[g]
    BY DEF Described, Torn, Unhashed
  <2>1. CASE dbs'[j] = dbs[j]
    BY <2>1 DEF IInv, Described
  <2>2. CASE dbs'[j] = EmptyFile
    <3>1. 0 <= newest[g]
      BY <1>1 DEF TypeOK, Versions
    <3>2. dbs'[j].text[g] = 0 /\ dbs'[j].rows[g] = 0
      BY <2>2, NothingIn
    <3>3. QED
      BY <3>1, <3>2
  <2>3. QED
    BY <1>3, <2>1, <2>2
<1>8. Owned'
  <2>1. \A j \in 1..MaxDbs : j > created' => dbs'[j] = EmptyFile
    BY <1>1, <1>3 DEF IInv, Owned
  <2>2. QED
    BY <1>1, <1>2, <2>1 DEF IInv, Owned, Works, Builds
<1>9. InWork'
  <2> SUFFICES ASSUME NEW q \in Procs
               PROVE  /\ proc'[q].pc = "scan" =>
                           /\ proc'[q].kind # "enrich"
                           /\ \A g \in Files : dbs'[proc'[q].db].text[g] = 0
                      /\ proc'[q].pc # "idle" => dbs'[proc'[q].db].tables
                      /\ proc'[q].pc # "idle" /\ proc'[q].kind # "enrich" =>
                           dbs'[proc'[q].db].init = (proc'[q].kind = "init")
                      /\ proc'[q].pc = "text" =>
                           proc'[q].todo \subseteq Entries(dbs'[proc'[q].db])
    BY DEF InWork, Works, Builds, Entries
  <2>1. CASE q = p
    BY <1>2, <2>1
  <2>2. CASE q # p
    BY <1>2, <1>5, <2>2 DEF IInv, InWork, Works, Builds
  <2>3. QED
    BY <2>1, <2>2
<1>10. Pending'
  BY <1>2, <1>5 DEF IInv, Pending, Works
<1>11. Partials'
  <2> SUFFICES ASSUME NEW q \in Procs, NEW n \in {"scan", "nested", "init"},
                      <<q, n>> \in partials', ~proc'[q].crashed
               PROVE  Builds(q)' /\ <<q, n>> = PartialName(q, proc'[q].kind, proc'[q].pc)
    BY DEF Partials, PartialName
  <2>1. <<q, n>> \in partials
    BY <1>4
  <2>2. CASE q = p
    <3>1. ~proc[p].crashed /\ ~crashed
      BY <1>2, <2>2
    <3>2. Builds(p) /\ <<p, n>> = PartialName(p, proc[p].kind, proc[p].pc)
      BY <2>1, <2>2, <3>1 DEF IInv, Partials
    <3>3. <<p, n>> \notin partials'
      BY <3>1, <3>2 DEF Cleanup
    <3>4. QED
      BY <2>2, <3>3
  <2>3. CASE q # p
    BY <1>2, <2>1, <2>3 DEF IInv, Partials, Builds
  <2>4. QED
    BY <2>2, <2>3
<1>12. InitIsComplete' /\ InitIsSnapshot'
  <2>1. dest' # 0 => dest' = dest /\ dbs'[dest] = dbs[dest]
    BY <1>1, <1>3 DEF IInv, Owned, TypeOK
  <2>2. QED
    BY <1>1, <2>1 DEF IInv, InitIsComplete, InitIsSnapshot
<1>13. QED
  BY <1>6, <1>7, <1>8, <1>9, <1>10, <1>11, <1>12 DEF IInv

LEMMA FailInv == ASSUME IInv, NEW p \in Procs, EndEnrich(p) \/ Fail(p) \/ Crash(p) PROVE IInv'
<1>1. CASE EndEnrich(p)
  BY <1>1, StopInv DEF EndEnrich, Works, Builds
<1>2. CASE Fail(p)
  BY <1>2, StopInv DEF Fail, Works, Builds
<1>3. CASE Crash(p)
  BY <1>3, StopInv DEF Crash, Works
<1>4. QED
  BY <1>1, <1>2, <1>3

(* The file is published when nothing is left to do. *)
LEMMA PublishInv == ASSUME IInv, NEW p \in Procs, Publish(p) PROVE IInv'
<1>0. PICK i \in 1..MaxDbs : i = proc[p].db
  BY DEF Publish, IInv, Works, Owned, TypeOK
<1>1. /\ UNCHANGED <<folder, newest, dbs, created>> /\ dest' = i
      /\ proc[p].pc = "text" /\ proc[p].kind # "enrich" /\ proc[p].todo = {}
      /\ Works(p) /\ Builds(p) /\ i = proc[p].db /\ i \in 1..created /\ created \in Nat
      /\ partials' = partials \ {PartialName(p, proc[p].kind, proc[p].pc)}
      /\ TypeOK /\ Stop(p, FALSE)
  <2>1. /\ UNCHANGED <<folder, newest, dbs, created>> /\ dest' = i
        /\ proc[p].pc = "text" /\ proc[p].kind # "enrich" /\ proc[p].todo = {}
        /\ partials' = partials \ {PartialName(p, proc[p].kind, proc[p].pc)}
        /\ Stop(p, FALSE)
    BY <1>0 DEF Publish
  <2>2. TypeOK /\ Works(p) /\ Builds(p) /\ created \in Nat
    BY <2>1 DEF IInv, Works, Builds, TypeOK
  <2>3. i \in 1..created
    BY <1>0, <2>2 DEF IInv, Owned
  <2>4. QED
    BY <1>0, <2>1, <2>2, <2>3
<1>2. /\ proc' \in [Procs -> Process]
      /\ \A q \in Procs \ {p} : proc'[q] = proc[q]
      /\ proc'[p].pc = "idle" /\ proc'[p].kind = "scan"
      /\ proc'[p].crashed = proc[p].crashed
  <2>1. /\ proc' \in [Procs -> Process]
        /\ \A q \in Procs \ {p} : proc'[q] = proc[q]
        /\ proc'[p].pc = "idle" /\ proc'[p].kind = "scan"
        /\ proc'[p].crashed = (proc[p].crashed \/ FALSE)
    BY <1>1, StopUpdate
  <2>2. proc[p].crashed \in BOOLEAN
    BY <1>1 DEF TypeOK, Process
  <2>3. QED
    BY <2>1, <2>2
<1>3. TypeOK' /\ Known' /\ Described'
  BY <1>1, <1>2 DEF IInv, TypeOK, Known, Described
<1>4. Owned'
  BY <1>1, <1>2 DEF IInv, Owned, Works, Builds
<1>5. InWork'
  <2> SUFFICES ASSUME NEW q \in Procs
               PROVE  /\ proc'[q].pc = "scan" =>
                           /\ proc'[q].kind # "enrich"
                           /\ \A g \in Files : dbs'[proc'[q].db].text[g] = 0
                      /\ proc'[q].pc # "idle" => dbs'[proc'[q].db].tables
                      /\ proc'[q].pc # "idle" /\ proc'[q].kind # "enrich" =>
                           dbs'[proc'[q].db].init = (proc'[q].kind = "init")
                      /\ proc'[q].pc = "text" =>
                           proc'[q].todo \subseteq Entries(dbs'[proc'[q].db])
    BY DEF InWork, Works, Builds, Entries
  <2>1. CASE q = p
    BY <1>2, <2>1
  <2>2. CASE q # p
    BY <1>1, <1>2, <2>2 DEF IInv, InWork, Works, Builds
  <2>3. QED
    BY <2>1, <2>2
<1>6. Pending'
  BY <1>1, <1>2 DEF IInv, Pending
<1>7. Partials'
  <2> SUFFICES ASSUME NEW q \in Procs, NEW n \in {"scan", "nested", "init"},
                      <<q, n>> \in partials', ~proc'[q].crashed
               PROVE  Builds(q)' /\ <<q, n>> = PartialName(q, proc'[q].kind, proc'[q].pc)
    BY DEF Partials, PartialName
  <2>1. CASE q = p
    BY <1>1, <1>2, <2>1 DEF IInv, Partials
  <2>2. CASE q # p
    BY <1>1, <1>2, <2>2 DEF IInv, Partials, Builds
  <2>3. QED
    BY <2>1, <2>2
<1>8. InitIsComplete' /\ InitIsSnapshot'
  <2>1. dbs[i].init => proc[p].kind = "init"
    BY <1>1 DEF IInv, InWork
  <2>2. dbs[i].init => \A f \in Files : Hashed(dbs[i].rows[f]) =>
          dbs[i].text[f] # 0 /\ dbs[i].rows[f] = dbs[i].seen[f]
    BY <1>1, <2>1 DEF IInv, Pending
  <2>3. QED
    BY <1>1, <2>2 DEF InitIsComplete, InitIsSnapshot
<1>9. QED
  BY <1>3, <1>4, <1>5, <1>6, <1>7, <1>8 DEF IInv


(* A connection opens what is published; its file stays what it was. *)
LEMMA BeginEnrichInv ==
  ASSUME IInv, NEW p \in Procs, NEW asked \in SUBSET Files, BeginEnrich(p, asked) PROVE IInv'
<1>1. /\ UNCHANGED <<folder, newest, dbs, created, dest, partials>>
      /\ proc[p].pc = "idle" /\ dest # 0 /\ dbs[dest].tables /\ asked \subseteq Entries(dbs[dest])
      /\ proc' = [proc EXCEPT ![p] = [@ EXCEPT !.kind = "enrich", !.pc = "text", !.db = dest,
                                              !.todo = asked]]
      /\ TypeOK
  BY DEF BeginEnrich, IInv
<1>2. dest \in 1..created /\ created \in Nat /\ dest \in 0..MaxDbs
  BY <1>1 DEF IInv, Owned, TypeOK
<1>3. proc[p] \in Process /\ proc \in [Procs -> Process]
  BY <1>1 DEF TypeOK
<1>4. /\ proc' \in [Procs -> Process]
      /\ \A q \in Procs \ {p} : proc'[q] = proc[q]
      /\ proc'[p].kind = "enrich" /\ proc'[p].pc = "text" /\ proc'[p].db = dest
      /\ proc'[p].todo = asked /\ proc'[p].crashed = proc[p].crashed
  BY <1>1, <1>2, <1>3 DEF Process, Kinds
<1>5. TypeOK' /\ Known' /\ Described' /\ InitIsComplete' /\ InitIsSnapshot'
  BY <1>1, <1>4 DEF IInv, TypeOK, Known, Described, InitIsComplete, InitIsSnapshot
<1>6. Owned'
  BY <1>1, <1>2, <1>4 DEF IInv, Owned, Works, Builds
<1>7. InWork'
  <2> SUFFICES ASSUME NEW q \in Procs
               PROVE  /\ proc'[q].pc = "scan" =>
                           /\ proc'[q].kind # "enrich"
                           /\ \A g \in Files : dbs'[proc'[q].db].text[g] = 0
                      /\ proc'[q].pc # "idle" => dbs'[proc'[q].db].tables
                      /\ proc'[q].pc # "idle" /\ proc'[q].kind # "enrich" =>
                           dbs'[proc'[q].db].init = (proc'[q].kind = "init")
                      /\ proc'[q].pc = "text" =>
                           proc'[q].todo \subseteq Entries(dbs'[proc'[q].db])
    BY DEF InWork, Works, Builds, Entries
  <2>1. CASE q = p
    BY <1>1, <1>4, <2>1
  <2>2. CASE q # p
    BY <1>1, <1>4, <2>2 DEF IInv, InWork, Works, Builds
  <2>3. QED
    BY <2>1, <2>2
<1>8. Pending'
  BY <1>1, <1>4 DEF IInv, Pending
<1>9. Partials'
  BY <1>1, <1>4 DEF IInv, Partials, Builds
<1>10. QED
  BY <1>5, <1>6, <1>7, <1>8, <1>9 DEF IInv

LEMMA AskTooEarlyInv == ASSUME IInv, AskTooEarly PROVE IInv'
<1>1. /\ UNCHANGED <<folder, newest, dbs, partials, proc>> /\ dest = 0 /\ created < MaxDbs
      /\ created' = created + 1 /\ dest' = created + 1 /\ TypeOK /\ created \in Nat
  BY DEF AskTooEarly, IInv, TypeOK
<1>2. dbs[dest'] = EmptyFile
  BY <1>1 DEF IInv, Owned
<1>3. TypeOK' /\ Known' /\ Described' /\ InWork' /\ Pending' /\ Partials'
  BY <1>1 DEF IInv, TypeOK, Known, Described, InWork, Pending, Partials, Works, Builds
<1>4. Owned'
  BY <1>1 DEF IInv, Owned, Works, Builds, TypeOK
<1>5. InitIsComplete' /\ InitIsSnapshot'
  BY <1>1, <1>2, NothingIn DEF InitIsComplete, InitIsSnapshot
<1>6. QED
  BY <1>3, <1>4, <1>5 DEF IInv

LEMMA NextInv == IInv /\ [Next]_vars => IInv'
<1> SUFFICES ASSUME IInv, [Next]_vars PROVE IInv'
  OBVIOUS
<1>1. CASE UNCHANGED vars
  BY <1>1 DEF vars, IInv, TypeOK, Known, Owned, Described, InWork, Pending, Partials, Works,
              Builds, InitIsComplete, InitIsSnapshot
<1>2. CASE \E f \in Files : Edit(f) \/ Delete(f)
  BY <1>2, EditInv, DeleteInv
<1>3. CASE AskTooEarly
  BY <1>3, AskTooEarlyInv
<1>4. CASE \E p \in Procs, kind \in {"scan", "init"}, replace \in BOOLEAN :
             Begin(p, kind, replace)
  BY <1>4, BeginInv
<1>5. CASE \E p \in Procs, f \in Files : ScanFile(p, f) \/ ProcessEntry(p, f)
  BY <1>5, ScanFileInv, ProcessEntryInv
<1>6. CASE \E p \in Procs : ScanDone(p) \/ Publish(p)
  BY <1>6, ScanDoneInv, PublishInv
<1>7. CASE \E p \in Procs, asked \in SUBSET Files : BeginEnrich(p, asked)
  BY <1>7, BeginEnrichInv
<1>8. CASE \E p \in Procs : EndEnrich(p) \/ Fail(p) \/ Crash(p)
  BY <1>8, FailInv
<1>9. QED
  BY <1>1, <1>2, <1>3, <1>4, <1>5, <1>6, <1>7, <1>8 DEF Next

(* The invariant holds, for any number of processes, files and databases.     *)
THEOREM Invariance == Spec => []IInv
BY InitInv, NextInv, PTL DEF Spec
-----------------------------------------------------------------------------
(* Every variable keeps its type. *)
THEOREM TypeCorrect == Spec => []TypeOK
<1>1. IInv => TypeOK
  BY DEF IInv
<1>2. QED
  BY Invariance, <1>1, PTL

(* A published initialization is searchable for every entry it hashed        *)
(* (initialize_text_folder), however many processes build, publish and die.  *)
THEOREM PublishedIsComplete == Spec => []InitIsComplete
<1>1. IInv => InitIsComplete
  BY DEF IInv
<1>2. QED
  BY Invariance, <1>1, PTL

(* ... and its entries are the contents that the folder had together when    *)
(* the scan ended, whatever was edited before, during and after it           *)
(* (_extract_text compares the hash).                                        *)
THEOREM PublishedIsSnapshot == Spec => []InitIsSnapshot
<1>1. IInv => InitIsSnapshot
  BY DEF IInv
<1>2. QED
  BY Invariance, <1>1, PTL

(* Only a crash leaves a partial file (the except clauses of                 *)
(* scan_to_database and initialize_text_folder).                             *)
THEOREM CleansUp == Spec => []NoLeftovers
<1>1. IInv => NoLeftovers
  BY DEF IInv, Partials, NoLeftovers, Builds
<1>2. QED
  BY Invariance, <1>1, PTL
-----------------------------------------------------------------------------
(* The published index: every step replaces it as a whole, extends it, or    *)
(* leaves it alone.                                                          *)

Readable == dest # 0 /\ dbs[dest].tables
IndexOf ==
  /\ ~Readable => index = Abstract!NoIndex
  /\ Readable =>
       /\ index.id = dest /\ index.rows = dbs[dest].rows /\ index.text = dbs[dest].text
       /\ index \in Abstract!Index /\ Abstract!Grounded(index)

LEMMA IndexIsOf == IInv => IndexOf
<1>1. ~Readable => index = Abstract!NoIndex
  BY DEF Readable, index, Abstract!NoIndex, NoFiles
<1>2. SUFFICES ASSUME IInv, Readable
               PROVE  /\ index.id = dest /\ index.rows = dbs[dest].rows
                      /\ index.text = dbs[dest].text
                      /\ index \in Abstract!Index /\ Abstract!Grounded(index)
  BY <1>1 DEF IndexOf
<1>3. dest \in 1..MaxDbs /\ dbs[dest] \in Database
  BY <1>2 DEF IInv, TypeOK, Readable
<1>4. \A f \in Files : dbs[dest].text[f] \in {0, dbs[dest].rows[f]}
  BY <1>2, <1>3 DEF IInv, Described
<1>5. dbs[dest].rows \in [Files -> Rows] /\ dbs[dest].text \in [Files -> Rows]
  BY <1>3 DEF Database, Versions, Rows
<1>6. index = [id |-> dest, rows |-> dbs[dest].rows, text |-> dbs[dest].text]
  BY <1>2 DEF index, Readable
<1>7. QED
  BY <1>3, <1>4, <1>5, <1>6 DEF Abstract!Index, Abstract!Grounded

(* What is published is written to by the pipeline alone. *)
Kept ==
  /\ dest' = dest
  /\ dest # 0 => /\ dbs'[dest].tables = dbs[dest].tables /\ dbs'[dest].rows = dbs[dest].rows
                 /\ \A f \in Files : dbs[dest].text[f] # 0 => dbs'[dest].text[f] = dbs[dest].text[f]

LEMMA OthersKeep ==
  ASSUME IInv, NEW p \in Procs, NEW i \in 1..MaxDbs, i = proc[p].db, Builds(p), dest' = dest,
         \A j \in 1..MaxDbs \ {i} : dbs'[j] = dbs[j]
  PROVE  Kept
<1>1. dest # 0 => dest \in 1..MaxDbs /\ dest # i
  BY DEF IInv, Owned, TypeOK
<1>2. QED
  BY <1>1 DEF Kept

LEMMA NextKeeps == ASSUME IInv, Next PROVE Kept \/ AskTooEarly \/ \E p \in Procs : Publish(p)
<1>0. TypeOK
  BY DEF IInv
<1>1. CASE dest' = dest /\ UNCHANGED dbs
  BY <1>1 DEF Kept
<1>2. ASSUME NEW p \in Procs, NEW kind \in {"scan", "init"}, NEW replace \in BOOLEAN,
             Begin(p, kind, replace)
      PROVE  Kept
  <2>1. dest' = dest /\ dbs' = [dbs EXCEPT ![created + 1] = NewCatalog(kind)]
    BY <1>2 DEF Begin
  <2>2. dest # created + 1 /\ dest \in 0..MaxDbs /\ dbs \in [1..MaxDbs -> Database]
    BY <1>0 DEF IInv, Owned, TypeOK
  <2>3. QED
    BY <2>1, <2>2 DEF Kept
<1>3. ASSUME NEW p \in Procs, ScanDone(p) \/ Fail(p) \/ \E f \in Files : ScanFile(p, f)
      PROVE  Kept
  <2>1. dest' = dest
    BY <1>3 DEF ScanDone, Fail, ScanFile
  <2>2. CASE UNCHANGED dbs
    BY <2>1, <2>2 DEF Kept
  <2>3. CASE ~UNCHANGED dbs
    <3>1. Builds(p)
      BY <1>3, <2>3 DEF IInv, InWork, ScanDone, Fail, ScanFile, Builds
    <3>2. PICK i \in 1..MaxDbs : i = proc[p].db
      BY <1>0, <3>1 DEF IInv, Owned, Builds, Works, TypeOK
    <3>3. \A j \in 1..MaxDbs \ {i} : dbs'[j] = dbs[j]
      <4>1. dbs \in [1..MaxDbs -> Database]
        BY <1>0 DEF TypeOK
      <4>2. CASE ScanDone(p)
        BY <3>2, <4>1, <4>2 DEF ScanDone
      <4>3. CASE Fail(p)
        BY <3>2, <4>1, <4>3 DEF Fail
      <4>4. CASE \E f \in Files : ScanFile(p, f)
        BY <3>2, <4>1, <4>4 DEF ScanFile
      <4>5. QED
        BY <1>3, <4>2, <4>3, <4>4
    <3>4. QED
      BY <2>1, <3>1, <3>2, <3>3, OthersKeep
  <2>4. QED
    BY <2>2, <2>3
<1>4. ASSUME NEW p \in Procs, NEW f \in Files, ProcessEntry(p, f) PROVE Kept
  <2>1. dest' = dest
    BY <1>4 DEF ProcessEntry
  <2>2. PICK i \in 1..MaxDbs : i = proc[p].db
    BY <1>0, <1>4 DEF ProcessEntry, IInv, Works, Owned, TypeOK
  <2>3. /\ dbs' = [dbs EXCEPT ![i].text[f] = folder[f]] /\ folder[f] = dbs[i].rows[f]
    BY <1>4, <2>2 DEF ProcessEntry, SameContent
  <2>4. dbs[i] \in Database /\ dbs \in [1..MaxDbs -> Database]
    BY <1>0 DEF TypeOK
  <2>5. /\ \A j \in 1..MaxDbs \ {i} : dbs'[j] = dbs[j]
        /\ dbs'[i] = [dbs[i] EXCEPT !.text = [dbs[i].text EXCEPT ![f] = folder[f]]]
    BY <2>3, <2>4
  <2>6. /\ dbs'[i].tables = dbs[i].tables /\ dbs'[i].rows = dbs[i].rows
        /\ \A g \in Files : dbs'[i].text[g] = IF g = f THEN folder[f] ELSE dbs[i].text[g]
    BY <2>4, <2>5 DEF Database
  <2>7. dbs[i].text[f] # 0 => dbs[i].text[f] = folder[f]
    BY <2>3 DEF IInv, Described
  <2>8. dest # 0 => dest \in 1..MaxDbs
    BY <1>0 DEF TypeOK
  <2>9. QED
    BY <2>1, <2>5, <2>6, <2>7, <2>8 DEF Kept
<1>5. CASE \E f \in Files : Edit(f) \/ Delete(f)
  BY <1>1, <1>5 DEF Edit, Delete
<1>6. CASE \E p \in Procs, asked \in SUBSET Files : BeginEnrich(p, asked)
  BY <1>1, <1>6 DEF BeginEnrich
<1>7. CASE \E p \in Procs : EndEnrich(p) \/ Crash(p)
  BY <1>1, <1>7 DEF EndEnrich, Crash
<1>8. QED
  BY <1>2, <1>3, <1>4, <1>5, <1>6, <1>7 DEF Next

LEMMA IndexStep ==
  ASSUME IInv, IndexOf, IndexOf', [Next]_vars
  PROVE  [Abstract!Next]_index
<1>1. CASE UNCHANGED vars
  BY <1>1 DEF vars, index
<1>2. CASE Kept
  <2>1. Readable' = Readable
    BY <1>2 DEF Kept, Readable
  <2>2. CASE ~Readable
    BY <2>1, <2>2 DEF IndexOf
  <2>3. CASE Readable
    <3>1. /\ index'.id = index.id /\ index'.rows = index.rows
          /\ \A f \in Files : index.text[f] # 0 => index'.text[f] = index.text[f]
      BY <1>2, <2>1, <2>3 DEF IndexOf, Readable, Kept
    <3>2. (index \in Abstract!Index)' /\ Abstract!Grounded(index)'
      BY <2>1, <2>3 DEF IndexOf
    <3>3. QED
      BY <3>1, <3>2 DEF Abstract!Next, Abstract!Extend, Abstract!Grounded, Abstract!Index
  <2>4. QED
    BY <2>2, <2>3
<1>3. CASE AskTooEarly
  <2>1. dest = 0 /\ dest' = created + 1 /\ dbs' = dbs /\ created < MaxDbs /\ created \in Nat
    BY <1>3 DEF AskTooEarly, IInv, TypeOK
  <2>2. ~dbs'[dest'].tables
    BY <2>1, NothingIn DEF IInv, Owned
  <2>3. ~Readable /\ ~Readable'
    BY <2>1, <2>2 DEF Readable
  <2>4. QED
    BY <2>3 DEF IndexOf
<1>4. CASE \E p \in Procs : Publish(p)
  <2>1. PICK p \in Procs : Publish(p)
    BY <1>4
  <2>2. /\ dest' = proc[p].db /\ dbs' = dbs /\ Works(p) /\ Builds(p)
    BY <2>1 DEF Publish, Works, Builds
  <2>3. dest' # 0 /\ dest' # dest /\ dbs'[dest'].tables
    BY <2>2 DEF IInv, Owned, InWork, TypeOK
  <2>4. Readable' /\ index'.id = dest'
    BY <2>3 DEF Readable, IndexOf
  <2>5. index.id \in {0, dest}
    BY DEF IndexOf, Abstract!NoIndex
  <2>6. (index \in Abstract!Index)' /\ Abstract!Grounded(index)'
    BY <2>4 DEF IndexOf
  <2>7. QED
    BY <2>3, <2>4, <2>5, <2>6 DEF Abstract!Next, Abstract!Replace, Abstract!Grounded, Abstract!Index
<1>5. QED
  BY <1>1, <1>2, <1>3, <1>4, NextKeeps

(* FolderIndex implements PublishedIndex: nobody ever opens an unfinished    *)
(* index, and nothing found in one ceases to be found.                       *)
THEOREM Refinement == Spec => RefinesPublishedIndex
<1>1. Init => Abstract!Init
  BY DEF Init, Abstract!Init, index, Abstract!NoIndex, NoFiles
<1>2. Spec => []IndexOf
  BY Invariance, IndexIsOf, PTL
<1>3. QED
  BY <1>1, <1>2, Invariance, IndexStep, PTL DEF Spec, RefinesPublishedIndex, Abstract!Spec
=============================================================================
