------------------------------ MODULE CacheFile ------------------------------
(* One entry of the file caches: the planner's results and the semantic     *)
(* frames (atomic_io.py), the model calls (kmd_model_call_cache.py) and the *)
(* document contexts (document_context.py).                                 *)
(*                                                                          *)
(* Calls in several processes read the entry and, on a miss, compute it and *)
(* put it in place: a temporary file, written, synced, renamed, and the     *)
(* directory synced.  Each kind of cache leaves out some of these steps and *)
(* takes a damaged entry differently.  Writes fail, processes and the       *)
(* machine crash, and entries are damaged from outside.  A process has one  *)
(* call at a time (public.py's lock) and may have another thread that opens *)
(* files: descriptors are numbers that are used again once they are closed. *)
EXTENDS Naturals, FiniteSets

CONSTANTS
  Processes,
  Kinds,          \* the kinds of cache, of {"planner", "frame", "call", "context"}
  Shared,         \* the kinds in whose processes another thread opens files
  MaxFiles,       \* bound on the temporary files ever made
  MaxFailures,    \* bound on the system calls that fail
  MaxDamages,     \* bound on the damages done from outside
  MaxCrashes      \* bound on the crashes of a process or the machine

ASSUME CacheFileAssumption ==
  /\ Kinds \subseteq {"planner", "frame", "call", "context"}
  /\ Shared \subseteq Kinds
  /\ MaxFiles \in Nat /\ MaxFailures \in Nat
  /\ MaxDamages \in Nat /\ MaxCrashes \in Nat

Files == 1..MaxFiles
Foreign == MaxFiles + 1   \* a file of the other thread
Fds == 1..2

Torn == {"empty", "partial", "cut", "mixed"}
Damaged == {"badjson", "badutf8", "notdict"}
Data == {"entry"} \cup Torn \cup Damaged

Labels == {"idle", "compute", "quarantine", "raised", "write", "sync", "rename", "dirsync",
           "failed", "unsynced"}

VARIABLES
  kind,     \* which cache the entry belongs to
  name,     \* the file the entry's path names, 0 for none
  disk,     \* what the directory on the disk has for it
  stored,   \* a write with a synced directory has returned, and was not set aside
  data,     \* what each file holds
  synced,   \* whether the disk holds it
  made,     \* how many files were made
  temps,    \* the files that have a temporary name
  pc, temp, fd,   \* each process's call, its temporary file and descriptor
  fds,      \* the descriptor tables
  other,    \* the descriptor the other thread of each process uses, 0 for none
  failures, damages, crashes

entry == <<name, disk, stored>>
files == <<data, synced, made, temps>>
calls == <<pc, temp, fd>>
bounds == <<failures, damages, crashes>>
vars == <<kind, name, disk, stored, data, synced, made, temps, pc, temp, fd, fds, other,
          failures, damages, crashes>>

Init ==
  /\ kind \in Kinds
  /\ name = 0 /\ disk = 0 /\ stored = FALSE
  /\ data = [f \in Files |-> "empty"] /\ synced = [f \in Files |-> FALSE]
  /\ made = 0 /\ temps = {}
  /\ pc = [p \in Processes |-> "idle"]
  /\ temp = [p \in Processes |-> 0]
  /\ fd = [p \in Processes |-> 1]
  /\ fds = [p \in Processes |-> [n \in Fds |-> 0]]
  /\ other = [p \in Processes |-> 0]
  /\ failures = 0 /\ damages = 0 /\ crashes = 0

Goto(p, label) == pc' = [pc EXCEPT ![p] = label]
Free(p, n) == fds[p][n] = 0 /\ \A m \in Fds : m < n => fds[p][m] # 0
OpenAs(p, n, file) == fds' = [fds EXCEPT ![p][n] = file]
Close(p, n) == fds' = [fds EXCEPT ![p][n] = 0]
Target(p) == fds[p][fd[p]]
-----------------------------------------------------------------------------
(* Reading.                                                                  *)

Hit(p) ==
  /\ pc[p] = "idle"
  /\ name # 0 /\ data[name] = "entry"
  /\ UNCHANGED vars

SetsAside(d) ==
  \/ kind \in {"planner", "frame"} /\ d \in Torn \cup {"badjson"} /\ d # "cut"
  \/ kind = "planner" /\ d = "notdict"
Escapes(d) ==
  \/ kind # "call" /\ d \in {"badutf8", "cut"}
  \/ kind = "frame" /\ d = "notdict"

Miss(p) ==
  /\ pc[p] = "idle"
  /\ name # 0 => data[name] # "entry" /\ ~SetsAside(data[name]) /\ ~Escapes(data[name])
  /\ Goto(p, "compute")
  /\ UNCHANGED <<kind, entry, files, temp, fd, fds, other, bounds>>

FindCorrupt(p) ==
  /\ pc[p] = "idle"
  /\ name # 0 /\ SetsAside(data[name])
  /\ Goto(p, "quarantine")
  /\ UNCHANGED <<kind, entry, files, temp, fd, fds, other, bounds>>

(* UnicodeDecodeError, and AttributeError from payload.get, are not caught. *)
ReadRaises(p) ==
  /\ pc[p] = "idle"
  /\ name # 0 /\ Escapes(data[name])
  /\ Goto(p, "raised")
  /\ UNCHANGED <<kind, entry, files, temp, fd, fds, other, bounds>>

(* quarantine_corrupt_file renames whatever the path names by now. *)
SetAside(p) ==
  /\ pc[p] = "quarantine"
  /\ name' = 0 /\ disk' = 0 /\ stored' = FALSE
  /\ Goto(p, "compute")
  /\ UNCHANGED <<kind, files, temp, fd, fds, other, bounds>>

End(p) ==
  /\ pc[p] \in {"raised", "compute"}
  /\ Goto(p, "idle")
  /\ UNCHANGED <<kind, entry, files, temp, fd, fds, other, bounds>>
-----------------------------------------------------------------------------
(* Writing.                                                                  *)

MakeTemp(p) ==
  /\ pc[p] = "compute"
  /\ made < MaxFiles
  /\ made' = made + 1
  /\ temps' = temps \cup {made + 1}
  /\ temp' = [temp EXCEPT ![p] = made + 1]
  /\ \E n \in Fds : Free(p, n) /\ OpenAs(p, n, made + 1) /\ fd' = [fd EXCEPT ![p] = n]
  /\ Goto(p, "write")
  /\ UNCHANGED <<kind, entry, data, synced, other, bounds>>

(* What is written through a descriptor goes where it points by now. *)
Put(f, d) ==
  data' = IF f \in Files
          THEN [data EXCEPT ![f] = IF data[f] = "empty" THEN d ELSE "mixed"]
          ELSE data

Write(p) ==
  /\ pc[p] = "write" /\ Target(p) # 0
  /\ Put(Target(p), IF Target(p) = temp[p] THEN "entry" ELSE "mixed")
  /\ Goto(p, "sync")
  /\ UNCHANGED <<kind, entry, synced, made, temps, temp, fd, fds, other, bounds>>

Sync_Never(p) ==
  /\ pc[p] = "sync" /\ Target(p) # 0
  /\ Close(p, fd[p])
  /\ Goto(p, "rename")
  /\ UNCHANGED <<kind, entry, data, synced, made, temps, temp, fd, other, bounds>>
Syncs == kind # "context"
Sync(p) ==
  /\ pc[p] = "sync" /\ Target(p) # 0
  /\ synced' = IF Syncs /\ Target(p) \in Files THEN [synced EXCEPT ![Target(p)] = TRUE] ELSE synced
  /\ Close(p, fd[p])
  /\ Goto(p, "rename")
  /\ UNCHANGED <<kind, entry, data, made, temps, temp, fd, other, bounds>>

SyncsDirectory == kind \in {"planner", "frame"}
Rename(p) ==
  /\ pc[p] = "rename"
  /\ name' = temp[p]
  /\ temps' = temps \ {temp[p]}
  /\ Goto(p, IF SyncsDirectory THEN "dirsync" ELSE "idle")
  /\ UNCHANGED <<kind, disk, stored, data, synced, made, temp, fd, fds, other, bounds>>

SyncDirectory_Forgotten(p) ==
  /\ pc[p] = "dirsync"
  /\ stored' = (name # 0)
  /\ Goto(p, "idle")
  /\ UNCHANGED <<kind, name, disk, files, temp, fd, fds, other, bounds>>
SyncDirectory(p) ==
  /\ pc[p] = "dirsync"
  /\ disk' = name
  /\ stored' = (name # 0)
  /\ Goto(p, "idle")
  /\ UNCHANGED <<kind, name, files, temp, fd, fds, other, bounds>>
-----------------------------------------------------------------------------
(* Failures.  A directory that cannot be opened is not synced, and the write
   returns as if it were.  fchmod fails with the descriptor still open; a write, a flush
   or a sync fails in the with statement, which closes it, and so does one
   that meets a descriptor somebody else closed.                            *)

MayFail == failures < MaxFailures /\ failures' = failures + 1

ChmodFails(p) ==
  /\ pc[p] = "write" /\ kind \in {"planner", "frame"}
  /\ MayFail
  /\ Goto(p, "failed")
  /\ UNCHANGED <<kind, entry, files, temp, fd, fds, other, damages, crashes>>

WriteFails(p) ==
  /\ pc[p] \in {"write", "sync"}
  /\ IF Target(p) = 0 THEN UNCHANGED failures ELSE MayFail
  /\ IF pc[p] = "write" THEN Put(Target(p), "partial") ELSE UNCHANGED data
  /\ Close(p, fd[p])
  /\ Goto(p, "failed")
  /\ UNCHANGED <<kind, entry, synced, made, temps, temp, fd, other, damages, crashes>>

RenameFails(p) ==
  /\ pc[p] = "rename"
  /\ MayFail
  /\ Goto(p, "failed")
  /\ UNCHANGED <<kind, entry, files, temp, fd, fds, other, damages, crashes>>

(* _fsync_directory: os.open may fail unnoticed, os.fsync raises. *)
OpenDirectoryFails(p) ==
  /\ pc[p] = "dirsync"
  /\ MayFail
  /\ Goto(p, "idle")
  /\ UNCHANGED <<kind, entry, files, temp, fd, fds, other, damages, crashes>>

SyncDirectoryFails(p) ==
  /\ pc[p] = "dirsync"
  /\ MayFail
  /\ Goto(p, "unsynced")
  /\ UNCHANGED <<kind, entry, files, temp, fd, fds, other, damages, crashes>>

(* except BaseException of atomic_write_bytes closes the descriptor, which
   the with statement may have closed before; write_model_call only removes
   the temporary file; the document contexts leave it.                      *)
CleanUp_OnlyCloses(p) ==
  /\ pc[p] = "failed"
  /\ IF kind \in {"planner", "frame"} THEN Close(p, fd[p]) ELSE UNCHANGED fds
  /\ Goto(p, "idle")
  /\ UNCHANGED <<kind, entry, files, temp, fd, other, bounds>>
CleanUp_AlwaysCloses(p) ==
  /\ pc[p] = "failed"
  /\ Close(p, fd[p])
  /\ temps' = temps \ {temp[p]}
  /\ Goto(p, "idle")
  /\ UNCHANGED <<kind, entry, data, synced, made, temp, fd, other, bounds>>
CleanUp(p) ==
  /\ pc[p] = "failed"
  /\ IF kind \in {"planner", "frame"} THEN Close(p, fd[p]) ELSE UNCHANGED fds
  /\ temps' = IF kind = "context" THEN temps ELSE temps \ {temp[p]}
  /\ Goto(p, "idle")
  /\ UNCHANGED <<kind, entry, data, synced, made, temp, fd, other, bounds>>

(* The same, once the temporary file has been renamed. *)
CleanUpRenamed(p) ==
  /\ pc[p] = "unsynced"
  /\ Close(p, fd[p])
  /\ Goto(p, "idle")
  /\ UNCHANGED <<kind, entry, files, temp, fd, other, bounds>>
-----------------------------------------------------------------------------
(* The environment.                                                         *)

OtherOpens(p) ==
  /\ kind \in Shared /\ other[p] = 0
  /\ \E n \in Fds : Free(p, n) /\ OpenAs(p, n, Foreign) /\ other' = [other EXCEPT ![p] = n]
  /\ UNCHANGED <<kind, entry, files, calls, bounds>>

OtherWrites(p) ==
  /\ other[p] # 0
  /\ Put(fds[p][other[p]], "mixed")
  /\ UNCHANGED <<kind, entry, synced, made, temps, calls, fds, other, bounds>>

OtherCloses(p) ==
  /\ other[p] # 0
  /\ Close(p, other[p])
  /\ other' = [other EXCEPT ![p] = 0]
  /\ UNCHANGED <<kind, entry, files, calls, bounds>>

Damage(d) ==
  /\ damages < MaxDamages /\ name # 0
  /\ data' = [data EXCEPT ![name] = d]
  /\ damages' = damages + 1
  /\ UNCHANGED <<kind, entry, synced, made, temps, calls, fds, other, failures, crashes>>

ProcessCrash(p) ==
  /\ pc[p] # "idle" /\ crashes < MaxCrashes
  /\ crashes' = crashes + 1
  /\ Goto(p, "idle")
  /\ fds' = [fds EXCEPT ![p] = [n \in Fds |-> 0]]
  /\ other' = [other EXCEPT ![p] = 0]
  /\ UNCHANGED <<kind, entry, files, temp, fd, failures, damages>>

(* The directory on the disk may be older; a file that was not synced may
   have lost its end, in the middle of a character or not.                  *)
SystemCrash ==
  /\ crashes < MaxCrashes
  /\ crashes' = crashes + 1
  /\ name' \in {name, disk}
  /\ disk' = name'
  /\ \E loss \in {"partial", "cut"} :
       data' = [f \in Files |-> IF synced[f] \/ f > made THEN data[f] ELSE loss]
  /\ synced' = [f \in Files |-> f <= made]
  /\ pc' = [p \in Processes |-> "idle"]
  /\ fds' = [p \in Processes |-> [n \in Fds |-> 0]]
  /\ other' = [p \in Processes |-> 0]
  /\ UNCHANGED <<kind, stored, made, temps, temp, fd, failures, damages>>
-----------------------------------------------------------------------------
Step(p) ==
  \/ Hit(p) \/ Miss(p) \/ FindCorrupt(p) \/ ReadRaises(p) \/ SetAside(p) \/ End(p)
  \/ MakeTemp(p) \/ Write(p) \/ Sync(p) \/ Rename(p) \/ SyncDirectory(p)
  \/ ChmodFails(p) \/ WriteFails(p) \/ RenameFails(p) \/ CleanUp(p)
  \/ OpenDirectoryFails(p) \/ SyncDirectoryFails(p) \/ CleanUpRenamed(p)

Next ==
  \/ \E p \in Processes :
       Step(p) \/ OtherOpens(p) \/ OtherWrites(p) \/ OtherCloses(p) \/ ProcessCrash(p)
  \/ \E d \in Damaged : Damage(d)
  \/ SystemCrash

Spec == Init /\ [][Next]_vars
-----------------------------------------------------------------------------
(* Properties.                                                              *)

TypeOK ==
  /\ kind \in Kinds
  /\ name \in 0..made /\ disk \in 0..made /\ stored \in BOOLEAN
  /\ data \in [Files -> Data] /\ synced \in [Files -> BOOLEAN]
  /\ made \in 0..MaxFiles /\ temps \subseteq 1..made
  /\ pc \in [Processes -> Labels]
  /\ temp \in [Processes -> 0..made]
  /\ fd \in [Processes -> Fds]
  /\ fds \in [Processes -> [Fds -> 0..MaxFiles + 1]]
  /\ other \in [Processes -> 0..2]
  /\ failures \in 0..MaxFailures /\ damages \in 0..MaxDamages /\ crashes \in 0..MaxCrashes

(* The path never names a file that was not written to its end, after any
   failure or crash (the order of write, fsync and os.replace in
   atomic_write_bytes and write_model_call).  The document contexts are not
   synced and promise it only as long as nothing crashes.  Beside a thread
   that opens files, a failed planner or frame write may break it too, since
   it closes its descriptor's number twice (see OtherUndisturbed).          *)
NeverTorn == (kind # "context" \/ crashes = 0) /\ name # 0 => data[name] \notin Torn

(* What a write that has returned put in place is there after a crash, unless
   a reader set it aside (_fsync_directory) or the directory could not be
   opened, which the code takes for success.                                *)
StoredIsKept == stored => name # 0

(* Without a crash a temporary file goes with the call that made it, whatever
   fails (the cleanup of atomic_write_bytes and write_model_call).          *)
Writing == {p \in Processes : pc[p] \in {"write", "sync", "rename", "failed"}}
NoLeftovers ==
  crashes = 0 /\ (kind = "context" => failures = 0) => temps \subseteq {temp[p] : p \in Writing}

(* Outside the with statement no descriptor is left open. *)
NoLeakedDescriptor ==
  kind \notin Shared =>
    \A p \in Processes : pc[p] \notin {"write", "sync", "failed"} => \A n \in Fds : fds[p][n] = 0

(* Whatever step of a write fails, nothing of it is left behind. *)
NothingLeaks == NoLeftovers /\ NoLeakedDescriptor

(* No call closes, or writes through, a descriptor of another thread: only
   atomic_write_bytes closes a number a second time.                        *)
OtherUndisturbed == \A p \in Processes : other[p] # 0 => fds[p][other[p]] = Foreign

=============================================================================
