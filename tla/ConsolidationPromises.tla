------------------------ MODULE ConsolidationPromises ------------------------
(* What the consolidation of the caches promises of the entries, in terms of *)
(* the state that CacheConsolidation changes.  Apart from its steps, so that *)
(* it can also be stated beside CacheFile, of the same cache.                *)
EXTENDS Naturals

CONSTANTS
  Dirs,       \* how many legacy directories
  NoEntry

VARIABLES
  source,     \* the legacy entries
  active,     \* the canonical entry
  preserved,  \* the entries under _conflicts, named by what they were to hold
  stage, dir, \* where the run is, and in which directory
  kills,      \* how often a run was killed
  ever        \* history: every entry there was

Done == stage = "visit" /\ dir > Dirs

(* At the end of a run no entry is active that a legacy directory disagrees
   with, in whatever order they came and wherever earlier runs were killed:
   the third entry of a key that was removed is not imported (conflicted_keys),
   and a copy that was cut short is not taken for an entry.                 *)
Unambiguous == Done => active = NoEntry \/ \A d \in 1..Dirs : source[d] \in {NoEntry, active}

(* Whatever an entry ever said is still to be found: in its directory, in
   the cache or under _conflicts (preserve_conflict runs before the unlink,
   the pruning after both) -- as long as the tool is not killed in a copy,
   which it would take for the entry when it runs again.                    *)
Findable(c) == active = c \/ preserved[c] = c \/ \E d \in 1..Dirs : source[d] = c
NothingLost == kills = 0 => \A c \in ever : Findable(c)
==============================================================================
