-------------------------- MODULE CacheConsolidation --------------------------
(* scripts/maintenance/consolidate_model_caches.py: the entries of the      *)
(* legacy cache directories are copied into the canonical cache; when two   *)
(* entries of a key differ, both are kept under _conflicts and neither      *)
(* stays active.  With --prune-sources the legacy directories are removed   *)
(* at the end, one by one.  The tool may be killed between two steps and run *)
(* again.                                                                   *)
(* Keys do not interact, so one key is modelled: the directories are those  *)
(* that may hold an entry for it, in the order the tool visits them.  What  *)
(* all this promises is stated in ConsolidationPromises.                    *)
EXTENDS ConsolidationPromises, Sequences

CONSTANTS
  Contents,        \* what an entry may say
  Half,            \* a copy that was cut short
  MaxRuns,         \* bound on the runs of the tool
  MaxKills,        \* bound on how often it is killed
  MaxRecomputed    \* bound on the calls answered anew between the runs

ASSUME CacheConsolidationAssumption ==
  /\ {Dirs, MaxRuns, MaxKills, MaxRecomputed} \subseteq Nat
  /\ NoEntry \notin Contents
  /\ Half \notin Contents \cup {NoEntry}

VARIABLES
  conflicted,   \* the key is in conflicted_keys
  keep,         \* what preserve_conflict has still to keep
  runs, recomputed

tree == <<source, active, preserved, ever>>
bounds == <<runs, kills, recomputed>>
vars == <<source, active, preserved, ever, conflicted, stage, dir, keep, runs, kills, recomputed>>

Found(x) == {x} \ {NoEntry, Half}

Init ==
  /\ source \in [1..Dirs -> Contents \cup {NoEntry}]
  /\ active \in Contents \cup {NoEntry}
  /\ ever = Found(active) \cup UNION {Found(source[d]) : d \in 1..Dirs}
  /\ preserved = [c \in Contents \cup {Half} |-> NoEntry]
  /\ conflicted = FALSE
  /\ stage = "idle" /\ dir = 1 /\ keep = << >>
  /\ runs = 0 /\ kills = 0 /\ recomputed = 0
-----------------------------------------------------------------------------
Start ==
  /\ stage = "idle" /\ runs < MaxRuns
  /\ runs' = runs + 1
  /\ conflicted' = FALSE
  /\ dir' = 1 /\ keep' = << >>
  /\ stage' = "visit"
  /\ UNCHANGED <<tree, kills, recomputed>>

Visiting == stage = "visit" /\ dir <= Dirs
HereIs(x) == source[dir] = x
NextDir == dir' = dir + 1 /\ stage' = "visit"

(* No entry here, or the canonical one. *)
Skip ==
  /\ Visiting
  /\ HereIs(NoEntry) \/ (~conflicted /\ HereIs(active))
  /\ NextDir
  /\ UNCHANGED <<tree, conflicted, keep, bounds>>

MayImport_AfterConflict == active = NoEntry
MayImport == active = NoEntry /\ ~conflicted

(* open(target, "xb") makes the file before the copy fills it. *)
Import ==
  /\ Visiting /\ ~HereIs(NoEntry)
  /\ MayImport
  /\ active' = Half
  /\ stage' = "import"
  /\ UNCHANGED <<source, preserved, ever, conflicted, dir, keep, bounds>>
Imported ==
  /\ stage = "import"
  /\ active' = source[dir]
  /\ NextDir
  /\ UNCHANGED <<source, preserved, ever, conflicted, keep, bounds>>

Conflict ==
  /\ Visiting /\ ~HereIs(NoEntry)
  /\ \/ conflicted /\ keep' = <<source[dir]>>
     \/ /\ ~conflicted /\ active # NoEntry /\ ~HereIs(active)
        /\ keep' = <<active, source[dir]>>
  /\ stage' = "keep"
  /\ UNCHANGED <<tree, conflicted, dir, bounds>>

(* preserve_conflict copies an entry unless the name it would have exists. *)
KeptBefore ==
  /\ stage = "keep" /\ keep # << >>
  /\ preserved[Head(keep)] # NoEntry
  /\ keep' = Tail(keep)
  /\ UNCHANGED <<tree, conflicted, stage, dir, bounds>>
Keep ==
  /\ stage = "keep" /\ keep # << >>
  /\ preserved[Head(keep)] = NoEntry
  /\ preserved' = [preserved EXCEPT ![Head(keep)] = Half]
  /\ stage' = "copy"
  /\ UNCHANGED <<source, active, ever, conflicted, dir, keep, bounds>>
Kept ==
  /\ stage = "copy"
  /\ preserved' = [preserved EXCEPT ![Head(keep)] = Head(keep)]
  /\ keep' = Tail(keep)
  /\ stage' = "keep"
  /\ UNCHANGED <<source, active, ever, conflicted, dir, bounds>>

(* The first conflict of a run unlinks the canonical entry. *)
Settle ==
  /\ stage = "keep" /\ keep = << >>
  /\ active' = IF conflicted THEN active ELSE NoEntry
  /\ conflicted' = TRUE
  /\ NextDir
  /\ UNCHANGED <<source, preserved, ever, keep, bounds>>

(* With --prune-sources a run ends with the removal of the legacy             *)
(* directories, one after another.                                           *)
BeginPruning_First ==
  /\ stage = "visit"
  /\ stage' = "prune" /\ dir' = 1
  /\ UNCHANGED <<tree, conflicted, keep, bounds>>
BeginPruning ==
  /\ Done
  /\ stage' = "prune" /\ dir' = 1
  /\ UNCHANGED <<tree, conflicted, keep, bounds>>
PruneSource ==
  /\ stage = "prune" /\ dir <= Dirs
  /\ source' = [source EXCEPT ![dir] = NoEntry]
  /\ dir' = dir + 1
  /\ UNCHANGED <<active, preserved, ever, conflicted, stage, keep, bounds>>
End ==
  /\ Done \/ (stage = "prune" /\ dir > Dirs)
  /\ stage' = "idle"
  /\ UNCHANGED <<tree, conflicted, dir, keep, bounds>>

Crash ==
  /\ stage # "idle" /\ kills < MaxKills
  /\ kills' = kills + 1
  /\ stage' = "idle"
  /\ UNCHANGED <<tree, conflicted, dir, keep, runs, recomputed>>

(* Between the runs a call that finds no entry is made again. *)
Recompute(c) ==
  /\ stage = "idle" /\ recomputed < MaxRecomputed
  /\ active = NoEntry
  /\ active' = c
  /\ ever' = ever \cup {c}
  /\ recomputed' = recomputed + 1
  /\ UNCHANGED <<source, preserved, conflicted, stage, dir, keep, runs, kills>>

Next ==
  \/ Start \/ Skip \/ Import \/ Imported \/ Conflict \/ KeptBefore \/ Keep \/ Kept \/ Settle
  \/ BeginPruning \/ PruneSource \/ End \/ Crash
  \/ \E c \in Contents : Recompute(c)

Spec == Init /\ [][Next]_vars
-----------------------------------------------------------------------------
TypeOK ==
  /\ source \in [1..Dirs -> Contents \cup {NoEntry}]
  /\ active \in Contents \cup {NoEntry, Half}
  /\ preserved \in [Contents \cup {Half} -> Contents \cup {NoEntry, Half}]
  /\ ever \subseteq Contents
  /\ conflicted \in BOOLEAN
  /\ stage \in {"idle", "visit", "import", "keep", "copy", "prune"}
  /\ dir \in 1..Dirs + 1
  /\ keep \in Seq(Contents \cup {Half}) /\ Len(keep) <= 2
  /\ runs \in 0..MaxRuns /\ kills \in 0..MaxKills /\ recomputed \in 0..MaxRecomputed
=============================================================================
