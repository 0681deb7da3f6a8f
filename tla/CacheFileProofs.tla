--------------------------- MODULE CacheFileProofs ---------------------------
(* The entry of a cache is never torn, for any number of processes, files,  *)
(* failures, damages and crashes, as long as descriptors are used by the    *)
(* caches alone; and no write leaks a file or a descriptor or disturbs      *)
(* another thread, as long as none opens files beside a planner or frame    *)
(* write.                                                                   *)
EXTENDS CacheFile, ConsolidationPromises, Sequences, TLAPS

InFile(p) == pc[p] \in {"write", "sync", "rename", "failed"}

(* What each call works on is its own: a file that was made for it, under a
   temporary name, behind its descriptor.                                   *)
Own(p) ==
  /\ InFile(p) => temp[p] \in temps
  /\ pc[p] \in {"write", "sync"} => fds[p][fd[p]] = temp[p]
  /\ pc[p] = "write" => data[temp[p]] = "empty"
  /\ pc[p] \in {"sync", "rename"} => data[temp[p]] = "entry"
  /\ pc[p] = "rename" /\ kind # "context" => synced[temp[p]] = TRUE

Apart == \A p, q \in Processes : p # q /\ InFile(p) /\ InFile(q) => temp[p] # temp[q]

(* A file is published once it lost its temporary name; whole, and on the
   disk unless it is a document context.                                    *)
Good(f) == data[f] \notin Torn /\ (kind # "context" => synced[f] = TRUE)
Published ==
  /\ name \notin temps /\ disk \notin temps
  /\ kind # "context" \/ crashes = 0 => (name # 0 => Good(name)) /\ (disk # 0 => Good(disk))

Unused == \A f \in Files : f > made => data[f] = "empty"
Alone == \A p \in Processes : other[p] = 0
Durable == stored => name # 0 /\ disk # 0

IInv ==
  /\ TypeOK
  /\ \A p \in Processes : Own(p)
  /\ Apart /\ Published /\ Unused /\ Alone /\ Durable
-----------------------------------------------------------------------------
LEMMA InitType == Init => TypeOK
<1> SUFFICES ASSUME Init PROVE TypeOK
  OBVIOUS
<1>1. data \in [Files -> Data] /\ synced \in [Files -> BOOLEAN]
  BY DEF Init, Data, Torn
<1>2. pc \in [Processes -> Labels] /\ temp \in [Processes -> 0..made]
  BY DEF Init, Labels
<1>3. /\ fd \in [Processes -> Fds] /\ fds \in [Processes -> [Fds -> 0..MaxFiles + 1]]
      /\ other \in [Processes -> 0..2]
  BY CacheFileAssumption DEF Init, Fds
<1>4. name = 0 /\ disk = 0 /\ made = 0 /\ temps = {} /\ stored \in BOOLEAN
  BY DEF Init
<1>5. /\ made \in 0..MaxFiles /\ 0 \in 0..made
      /\ failures \in 0..MaxFailures /\ damages \in 0..MaxDamages /\ crashes \in 0..MaxCrashes
  BY <1>4, CacheFileAssumption DEF Init
<1>6. kind \in Kinds
  BY DEF Init
<1> QED BY <1>1, <1>2, <1>3, <1>4, <1>5, <1>6 DEF TypeOK

LEMMA InitIInv == ASSUME Shared = {} PROVE Init => IInv
<1> SUFFICES ASSUME Init PROVE IInv
  OBVIOUS
<1>1. TypeOK
  BY InitType
<1>2. \A p \in Processes : pc[p] = "idle"
  BY DEF Init
<1>3. (\A p \in Processes : Own(p)) /\ Apart
  BY <1>2 DEF Own, Apart, InFile
<1>4. Published /\ Unused /\ Alone /\ Durable
  BY DEF Init, Published, Unused, Alone, Durable
<1> QED BY <1>1, <1>3, <1>4 DEF IInv
-----------------------------------------------------------------------------
(* The type of each variable. *)
LEMMA TypeStep == TypeOK /\ [Next]_vars => TypeOK'
<1> SUFFICES ASSUME TypeOK, [Next]_vars PROVE TypeOK'
  OBVIOUS
<1> USE CacheFileAssumption DEF bounds, entry, files, calls
<1>a. ASSUME NEW p \in Processes, NEW label \in Labels, Goto(p, label)
      PROVE pc' \in [Processes -> Labels]
  BY <1>a DEF Goto, TypeOK
<1>b. ASSUME NEW p \in Processes, NEW n \in Fds, Close(p, n)
      PROVE fds' \in [Processes -> [Fds -> 0..MaxFiles + 1]]
  BY <1>b DEF Close, TypeOK
<1>c. ASSUME NEW p \in Processes, NEW n \in Fds, NEW f \in 0..MaxFiles + 1, OpenAs(p, n, f)
      PROVE fds' \in [Processes -> [Fds -> 0..MaxFiles + 1]]
  BY <1>c DEF OpenAs, TypeOK
<1>d. ASSUME NEW f, NEW d \in Data, Put(f, d) PROVE data' \in [Files -> Data]
  BY <1>d DEF Put, TypeOK, Data, Torn
<1>e. MayFail => failures' \in 0..MaxFailures
  BY DEF MayFail, TypeOK
<1>1. ASSUME NEW p \in Processes, Hit(p) PROVE TypeOK'
  BY <1>1 DEF Hit, TypeOK, vars
<1>2. ASSUME NEW p \in Processes,
             Miss(p) \/ FindCorrupt(p) \/ ReadRaises(p) \/ End(p) \/ SetAside(p)
      PROVE TypeOK'
  <2>1. pc' \in [Processes -> Labels]
    BY <1>2, <1>a DEF Miss, FindCorrupt, ReadRaises, End, SetAside, Labels
  <2>2. \/ name' = name /\ disk' = disk /\ stored' = stored
        \/ name' = 0 /\ disk' = 0 /\ stored' = FALSE
    <3>1. SetAside(p) => name' = 0 /\ disk' = 0 /\ stored' = FALSE
      BY DEF SetAside
    <3>2. ~SetAside(p) => name' = name /\ disk' = disk /\ stored' = stored
      BY <1>2 DEF Miss, FindCorrupt, ReadRaises, End
    <3> QED BY <3>1, <3>2
  <2>3. UNCHANGED <<kind, files, temp, fd, fds, other, bounds>>
    BY <1>2 DEF Miss, FindCorrupt, ReadRaises, End, SetAside
  <2>4. 0 \in 0..made
    BY DEF TypeOK
  <2> QED BY <2>1, <2>2, <2>3, <2>4 DEF TypeOK
<1>3. ASSUME NEW p \in Processes, MakeTemp(p) PROVE TypeOK'
  <2>1. pc' \in [Processes -> Labels]
    BY <1>3, <1>a DEF MakeTemp, Labels
  <2>2. made' = made + 1 /\ made' \in 0..MaxFiles
    BY <1>3 DEF MakeTemp, TypeOK
  <2>3. fds' \in [Processes -> [Fds -> 0..MaxFiles + 1]] /\ fd' \in [Processes -> Fds]
    BY <1>3, <1>c, <2>2 DEF MakeTemp, TypeOK
  <2>4. temps' \subseteq 1..made' /\ temp' \in [Processes -> 0..made']
    BY <1>3, <2>2 DEF MakeTemp, TypeOK
  <2> QED BY <1>3, <2>1, <2>2, <2>3, <2>4 DEF MakeTemp, TypeOK
<1>4. ASSUME NEW p \in Processes, Write(p) PROVE TypeOK'
  <2>1. data' \in [Files -> Data]
    BY <1>d, <1>4 DEF Write, Data, Torn
  <2>2. pc' \in [Processes -> Labels]
    BY <1>4, <1>a DEF Write, Labels
  <2> QED BY <1>4, <2>1, <2>2 DEF Write, TypeOK
<1>5. ASSUME NEW p \in Processes, Sync(p) PROVE TypeOK'
  <2>1. pc' \in [Processes -> Labels]
    BY <1>5, <1>a DEF Sync, Labels
  <2>2. fds' \in [Processes -> [Fds -> 0..MaxFiles + 1]]
    BY <1>5, <1>b DEF Sync, TypeOK
  <2>3. synced' \in [Files -> BOOLEAN]
    BY <1>5 DEF Sync, TypeOK
  <2> QED BY <1>5, <2>1, <2>2, <2>3 DEF Sync, TypeOK
<1>6. ASSUME NEW p \in Processes, Rename(p) \/ SyncDirectory(p) PROVE TypeOK'
  <2>1. pc' \in [Processes -> Labels]
    BY <1>6, <1>a DEF Rename, SyncDirectory, Labels
  <2> QED BY <1>6, <2>1 DEF Rename, SyncDirectory, TypeOK
<1>7. ASSUME NEW p \in Processes,
             \/ ChmodFails(p) \/ RenameFails(p)
             \/ OpenDirectoryFails(p) \/ SyncDirectoryFails(p)
      PROVE TypeOK'
  <2>1. pc' \in [Processes -> Labels]
    BY <1>7, <1>a DEF ChmodFails, RenameFails, OpenDirectoryFails, SyncDirectoryFails, Labels
  <2> QED BY <1>7, <2>1, <1>e
     DEF ChmodFails, RenameFails, OpenDirectoryFails, SyncDirectoryFails, TypeOK
<1>8. ASSUME NEW p \in Processes, WriteFails(p) PROVE TypeOK'
  <2>1. data' \in [Files -> Data]
    BY <1>d, <1>8 DEF WriteFails, TypeOK, Data, Torn
  <2>2. failures' \in 0..MaxFailures
    BY <1>8, <1>e DEF WriteFails, TypeOK
  <2>3. pc' \in [Processes -> Labels] /\ fds' \in [Processes -> [Fds -> 0..MaxFiles + 1]]
    BY <1>8, <1>a, <1>b DEF WriteFails, Labels, TypeOK
  <2> QED BY <1>8, <2>1, <2>2, <2>3 DEF WriteFails, TypeOK
<1>9. ASSUME NEW p \in Processes, CleanUp(p) \/ CleanUpRenamed(p) PROVE TypeOK'
  <2>1. pc' \in [Processes -> Labels]
    BY <1>9, <1>a DEF CleanUp, CleanUpRenamed, Labels
  <2>2. fds' \in [Processes -> [Fds -> 0..MaxFiles + 1]]
    BY <1>9, <1>b DEF CleanUp, CleanUpRenamed, TypeOK
  <2> QED BY <1>9, <2>1, <2>2 DEF CleanUp, CleanUpRenamed, TypeOK
<1>10. ASSUME NEW p \in Processes, OtherOpens(p) \/ OtherCloses(p) PROVE TypeOK'
  <2>1. fds' \in [Processes -> [Fds -> 0..MaxFiles + 1]]
    <3>1. CASE OtherOpens(p)
      <4>1. Foreign \in 0..MaxFiles + 1
        BY DEF Foreign
      <4> QED BY <3>1, <4>1, <1>c DEF OtherOpens
    <3>2. CASE OtherCloses(p)
      <4>1. other[p] \in Fds
        BY <3>2 DEF OtherCloses, TypeOK, Fds
      <4> QED BY <3>2, <4>1, <1>b DEF OtherCloses
    <3> QED BY <1>10, <3>1, <3>2
  <2>2. other' \in [Processes -> 0..2]
    BY <1>10 DEF OtherOpens, OtherCloses, TypeOK, Fds
  <2> QED BY <1>10, <2>1, <2>2 DEF OtherOpens, OtherCloses, TypeOK
<1>11. ASSUME NEW p \in Processes, OtherWrites(p) PROVE TypeOK'
  <2>1. data' \in [Files -> Data]
    BY <1>d, <1>11 DEF OtherWrites, Data, Torn
  <2> QED BY <1>11, <2>1 DEF OtherWrites, TypeOK
<1>12. ASSUME NEW p \in Processes, ProcessCrash(p) PROVE TypeOK'
  <2>1. pc' \in [Processes -> Labels]
    BY <1>12, <1>a DEF ProcessCrash, Labels
  <2>2. fds' \in [Processes -> [Fds -> 0..MaxFiles + 1]] /\ other' \in [Processes -> 0..2]
    BY <1>12 DEF ProcessCrash, TypeOK
  <2> QED BY <1>12, <2>1, <2>2 DEF ProcessCrash, TypeOK
<1>13. ASSUME NEW d \in Damaged, Damage(d) PROVE TypeOK'
  <2>1. data' \in [Files -> Data]
    BY <1>13 DEF Damage, TypeOK, Data
  <2> QED BY <1>13, <2>1 DEF Damage, TypeOK
<1>14. CASE SystemCrash
  <2>1. data' \in [Files -> Data] /\ synced' \in [Files -> BOOLEAN]
    BY <1>14 DEF SystemCrash, TypeOK, Data, Torn, Files
  <2>2. /\ pc' \in [Processes -> Labels] /\ fds' \in [Processes -> [Fds -> 0..MaxFiles + 1]]
        /\ other' \in [Processes -> 0..2]
    BY <1>14 DEF SystemCrash, Labels
  <2> QED BY <1>14, <2>1, <2>2 DEF SystemCrash, TypeOK
<1>15. CASE UNCHANGED vars
  BY <1>15 DEF vars, TypeOK
<1> QED
  BY <1>1, <1>2, <1>3, <1>4, <1>5, <1>6, <1>7, <1>8, <1>9, <1>10, <1>11, <1>12, <1>13, <1>14,
     <1>15
  DEF Next, Step
-----------------------------------------------------------------------------
(* What a step of p leaves alone: the other calls, and every file but the one
   p is working on.                                                         *)
Mine(p) ==
  /\ kind' = kind
  /\ \A q \in Processes \ {p} :
       pc'[q] = pc[q] /\ temp'[q] = temp[q] /\ fd'[q] = fd[q] /\ fds'[q] = fds[q]
  /\ \A f \in Files : ~(InFile(p) /\ f = temp[p]) => data'[f] = data[f] /\ synced'[f] = synced[f]
  /\ \A f \in temps : ~(InFile(p) /\ f = temp[p]) => f \in temps'

LEMMA OtherCalls ==
  ASSUME IInv, NEW p \in Processes, Mine(p),
         InFile(p)' => (InFile(p) /\ temp'[p] = temp[p]) \/ temp'[p] \notin temps
  PROVE  (\A q \in Processes \ {p} : Own(q)') /\ Apart'
<1>1. ASSUME NEW q \in Processes \ {p}, InFile(q)
      PROVE /\ temp[q] \in temps /\ temp[q] \in temps'
            /\ data'[temp[q]] = data[temp[q]] /\ synced'[temp[q]] = synced[temp[q]]
  <2>1. temp[q] \in temps
    BY <1>1 DEF IInv, Own
  <2>2. temp[q] \in Files
    BY <2>1, CacheFileAssumption DEF IInv, TypeOK, Files
  <2>3. ~(InFile(p) /\ temp[q] = temp[p])
    BY <1>1 DEF IInv, Apart
  <2> QED BY <2>1, <2>2, <2>3 DEF Mine
<1>2. ASSUME NEW q \in Processes \ {p} PROVE Own(q)'
  BY <1>1, <1>2 DEF Mine, IInv, Own, InFile
<1>3. ASSUME NEW q \in Processes \ {p}, NEW r \in Processes, q # r, InFile(q)', InFile(r)'
      PROVE temp'[q] # temp'[r]
  <2>1. InFile(q) /\ temp'[q] = temp[q]
    BY <1>3 DEF Mine, InFile
  <2>2. CASE r = p
    BY <1>1, <1>3, <2>1, <2>2 DEF IInv, Apart
  <2>3. CASE r # p
    BY <1>3, <2>1, <2>3 DEF Mine, InFile, IInv, Apart
  <2> QED BY <2>2, <2>3
<1> QED BY <1>2, <1>3 DEF Apart

(* A step that leaves the entry and every published file alone. *)
LEMMA SameEntry ==
  ASSUME IInv, UNCHANGED <<kind, entry, crashes>>,
         temps' \subseteq temps \cup {made + 1},
         \A f \in Files \ temps : data'[f] = data[f] /\ synced'[f] = synced[f]
  PROVE  Published' /\ Durable'
<1>1. name \notin temps' /\ disk \notin temps'
  BY DEF IInv, TypeOK, Published
<1>2. /\ name # 0 => name \in Files \ temps
      /\ disk # 0 => disk \in Files \ temps
  BY CacheFileAssumption DEF IInv, TypeOK, Published, Files
<1>3. name' = name /\ disk' = disk /\ stored' = stored
  BY DEF entry
<1> QED BY <1>1, <1>2, <1>3 DEF IInv, Published, Durable, Good
-----------------------------------------------------------------------------
(* One step of the system under the invariant. *)
LEMMA Step_IInv ==
  ASSUME Shared = {}
  PROVE  IInv /\ [Next]_vars => IInv'
<1> SUFFICES ASSUME IInv, [Next]_vars PROVE IInv'
  OBVIOUS
<1> USE CacheFileAssumption
<1>0. TypeOK /\ TypeOK'
  BY TypeStep DEF IInv
(* Reading. *)
<1>1. ASSUME NEW p \in Processes,
             Miss(p) \/ FindCorrupt(p) \/ ReadRaises(p) \/ End(p)
      PROVE IInv'
  <2>1. UNCHANGED <<kind, entry, files, temp, fd, fds, other, bounds>>
    BY <1>1 DEF Miss, FindCorrupt, ReadRaises, End
  <2>2. ~InFile(p)' /\ \A q \in Processes \ {p} : pc'[q] = pc[q]
    BY <1>0, <1>1 DEF Miss, FindCorrupt, ReadRaises, End, Goto, InFile, TypeOK
  <2>3. Mine(p)
    BY <2>1, <2>2 DEF Mine, files
  <2>4. Own(p)'
    BY <2>2 DEF Own, InFile
  <2>5. (\A q \in Processes : Own(q)') /\ Apart'
    BY <2>2, <2>3, <2>4, OtherCalls
  <2>6. Published' /\ Durable'
    BY <2>1, SameEntry DEF files, bounds
  <2>7. Unused' /\ Alone'
    BY <2>1 DEF IInv, Unused, Alone, files
  <2> QED BY <1>0, <2>5, <2>6, <2>7 DEF IInv
<1>2. ASSUME NEW p \in Processes, SetAside(p) PROVE IInv'
  <2>1. UNCHANGED <<kind, files, temp, fd, fds, other, bounds>>
    BY <1>2 DEF SetAside
  <2>2. ~InFile(p)' /\ \A q \in Processes \ {p} : pc'[q] = pc[q]
    BY <1>0, <1>2 DEF SetAside, Goto, InFile, TypeOK
  <2>3. Mine(p)
    BY <2>1, <2>2 DEF Mine, files
  <2>4. Own(p)'
    BY <2>2 DEF Own, InFile
  <2>5. (\A q \in Processes : Own(q)') /\ Apart'
    BY <2>2, <2>3, <2>4, OtherCalls
  <2>6. name' = 0 /\ disk' = 0 /\ stored' = FALSE /\ 0 \notin temps
    BY <1>0, <1>2 DEF SetAside, TypeOK
  <2>7. Published' /\ Durable'
    BY <2>1, <2>6 DEF Published, Durable, files
  <2>8. Unused' /\ Alone'
    BY <2>1 DEF IInv, Unused, Alone, files
  <2> QED BY <1>0, <2>5, <2>7, <2>8 DEF IInv
(* Writing. *)
<1>3. ASSUME NEW p \in Processes, MakeTemp(p) PROVE IInv'
  <2>1. made + 1 \in Files /\ made + 1 \notin temps
    BY <1>0, <1>3 DEF MakeTemp, TypeOK, Files
  <2>2. /\ temp'[p] = made + 1 /\ pc'[p] = "write" /\ temps' = temps \cup {made + 1}
        /\ UNCHANGED <<kind, entry, data, synced, other, bounds>> /\ made' = made + 1
    BY <1>0, <1>3 DEF MakeTemp, Goto, TypeOK
  <2>3. fds'[p][fd'[p]] = made + 1
    BY <1>0, <1>3 DEF MakeTemp, OpenAs, TypeOK
  <2>4. Mine(p)
    BY <1>0, <1>3, <2>2 DEF MakeTemp, Goto, OpenAs, Mine, TypeOK
  <2>5. data[made + 1] = "empty"
    BY <1>0, <2>1 DEF IInv, Unused, TypeOK
  <2>6. Own(p)'
    BY <2>2, <2>3, <2>5 DEF Own, InFile
  <2>7. (\A q \in Processes : Own(q)') /\ Apart'
    BY <2>1, <2>2, <2>4, <2>6, OtherCalls
  <2>8. Published' /\ Durable'
    BY <2>2, SameEntry DEF bounds
  <2>9. Unused'
    <3>1. Unused /\ data' = data /\ made' = made + 1 /\ made \in Nat /\ Files \subseteq Nat
      BY <1>0, <2>2 DEF IInv, TypeOK, Files
    <3>2. \A f \in Files : f > made + 1 => f > made
      BY <3>1
    <3> QED BY <3>1, <3>2 DEF Unused, Files
  <2>10. Alone'
    BY <2>2 DEF IInv, Alone
  <2> QED BY <1>0, <2>7, <2>8, <2>9, <2>10 DEF IInv
<1>4. ASSUME NEW p \in Processes, pc[p] \in {"write", "sync", "rename", "failed"}
      PROVE InFile(p) /\ temp[p] \in temps /\ temp[p] \in Files /\ temp[p] <= made
  BY <1>0, <1>4 DEF IInv, Own, InFile, TypeOK, Files
<1>5. ASSUME NEW p \in Processes, Write(p) PROVE IInv'
  <2>1. Target(p) = temp[p] /\ data[temp[p]] = "empty"
    BY <1>5 DEF IInv, Own, Write, Target
  <2>2. InFile(p) /\ temp[p] \in temps /\ temp[p] \in Files /\ temp[p] <= made
    BY <1>4, <1>5 DEF Write
  <2>3. data' = [data EXCEPT ![temp[p]] = "entry"]
    BY <1>5, <2>1, <2>2 DEF Write, Put
  <2>4. /\ pc'[p] = "sync" /\ data'[temp[p]] = "entry"
        /\ UNCHANGED <<kind, entry, synced, made, temps, temp, fd, fds, other, bounds>>
    BY <1>0, <1>5, <2>2, <2>3 DEF Write, Goto, TypeOK
  <2>5. Mine(p)
    BY <1>0, <1>5, <2>2, <2>3, <2>4 DEF Write, Goto, Mine, TypeOK
  <2>6. Own(p)'
    BY <2>1, <2>2, <2>4 DEF Own, InFile, Target
  <2>7. (\A q \in Processes : Own(q)') /\ Apart'
    BY <2>2, <2>4, <2>5, <2>6, OtherCalls
  <2>8. Published' /\ Durable'
    BY <1>0, <2>2, <2>3, <2>4, SameEntry DEF bounds, TypeOK
  <2>9. Unused' /\ Alone'
    BY <1>0, <2>2, <2>3, <2>4 DEF IInv, Unused, Alone, TypeOK
  <2> QED BY <1>0, <2>7, <2>8, <2>9 DEF IInv
<1>6. ASSUME NEW p \in Processes, Sync(p) PROVE IInv'
  <2>1. Target(p) = temp[p] /\ data[temp[p]] = "entry" /\ pc[p] = "sync"
    BY <1>6 DEF IInv, Own, Sync, Target
  <2>2. InFile(p) /\ temp[p] \in temps /\ temp[p] \in Files /\ temp[p] <= made
    BY <1>4, <1>6 DEF Sync
  <2>3. /\ synced' = IF Syncs THEN [synced EXCEPT ![temp[p]] = TRUE] ELSE synced
        /\ UNCHANGED <<kind, entry, data, made, temps, temp, fd, other, bounds>>
    BY <1>6, <2>1, <2>2 DEF Sync
  <2>4. pc'[p] = "rename" /\ (kind # "context" => synced'[temp[p]] = TRUE)
    BY <1>0, <1>6, <2>2, <2>3 DEF Sync, Goto, Syncs, TypeOK
  <2>5. Mine(p)
    <3>1. \A f \in Files : f # temp[p] => data'[f] = data[f] /\ synced'[f] = synced[f]
      BY <1>0, <2>3 DEF TypeOK
    <3>2. \A q \in Processes \ {p} : pc'[q] = pc[q] /\ fds'[q] = fds[q]
      BY <1>0, <1>6 DEF Sync, Goto, Close, TypeOK
    <3> QED BY <2>2, <2>3, <3>1, <3>2 DEF Mine
  <2>6. Own(p)'
    BY <2>1, <2>2, <2>3, <2>4 DEF Own, InFile
  <2>7. (\A q \in Processes : Own(q)') /\ Apart'
    BY <2>2, <2>3, <2>5, <2>6, OtherCalls
  <2>8. Published' /\ Durable'
    BY <1>0, <2>2, <2>3, SameEntry DEF bounds, TypeOK
  <2>9. Unused' /\ Alone'
    BY <2>3 DEF IInv, Unused, Alone
  <2> QED BY <1>0, <2>7, <2>8, <2>9 DEF IInv
<1>7. ASSUME NEW p \in Processes, Rename(p) PROVE IInv'
  <2>1. InFile(p) /\ temp[p] \in temps /\ temp[p] \in Files /\ temp[p] <= made
    BY <1>4, <1>7 DEF Rename
  <2>2. Good(temp[p])
    BY <1>7 DEF IInv, Own, Rename, Good, Torn
  <2>3. /\ name' = temp[p] /\ temps' = temps \ {temp[p]}
        /\ UNCHANGED <<kind, disk, stored, data, synced, made, temp, fd, fds, other, bounds>>
    BY <1>7 DEF Rename
  <2>4. ~InFile(p)'
    BY <1>0, <1>7 DEF Rename, Goto, InFile, TypeOK
  <2>5. Mine(p)
    BY <1>0, <1>7, <2>1, <2>3 DEF Rename, Goto, Mine, TypeOK
  <2>6. Own(p)'
    BY <2>4 DEF Own, InFile
  <2>7. (\A q \in Processes : Own(q)') /\ Apart'
    BY <2>4, <2>5, <2>6, OtherCalls
  <2>8. Published'
    BY <2>1, <2>2, <2>3 DEF IInv, Published, Good, bounds
  <2>9. Durable'
    BY <1>0, <2>1, <2>3 DEF IInv, Durable, TypeOK, Files
  <2>10. Unused' /\ Alone'
    BY <2>3 DEF IInv, Unused, Alone
  <2> QED BY <1>0, <2>7, <2>8, <2>9, <2>10 DEF IInv
<1>8. ASSUME NEW p \in Processes, SyncDirectory(p) PROVE IInv'
  <2>1. /\ disk' = name
        /\ UNCHANGED <<kind, name, files, temp, fd, fds, other, bounds>>
    BY <1>8 DEF SyncDirectory
  <2>2. ~InFile(p)' /\ \A q \in Processes \ {p} : pc'[q] = pc[q]
    BY <1>0, <1>8 DEF SyncDirectory, Goto, InFile, TypeOK
  <2>3. Mine(p)
    BY <2>1, <2>2 DEF Mine, files
  <2>4. Own(p)'
    BY <2>2 DEF Own, InFile
  <2>5. (\A q \in Processes : Own(q)') /\ Apart'
    BY <2>2, <2>3, <2>4, OtherCalls
  <2>6. Published'
    BY <2>1 DEF IInv, Published, Good, files, bounds
  <2>7. Durable'
    BY <1>8 DEF SyncDirectory, Durable
  <2>8. Unused' /\ Alone'
    BY <2>1 DEF IInv, Unused, Alone, files
  <2> QED BY <1>0, <2>5, <2>6, <2>7, <2>8 DEF IInv
(* Failures. *)
<1>17. ASSUME NEW p \in Processes, OpenDirectoryFails(p) \/ SyncDirectoryFails(p) PROVE IInv'
  <2>1. UNCHANGED <<kind, entry, files, temp, fd, fds, other, damages, crashes>>
    BY <1>17 DEF OpenDirectoryFails, SyncDirectoryFails
  <2>2. \A q \in Processes \ {p} : pc'[q] = pc[q]
    BY <1>0, <1>17 DEF OpenDirectoryFails, SyncDirectoryFails, Goto, TypeOK
  <2>3. ~InFile(p)'
    BY <1>0, <1>17 DEF OpenDirectoryFails, SyncDirectoryFails, Goto, InFile, TypeOK
  <2>4. Mine(p)
    BY <2>1, <2>2 DEF Mine, files
  <2>5. Own(p)'
    BY <2>3 DEF Own, InFile
  <2>6. (\A q \in Processes : Own(q)') /\ Apart'
    BY <2>3, <2>4, <2>5, OtherCalls
  <2>7. Published' /\ Durable'
    BY <2>1, SameEntry DEF files
  <2>8. Unused' /\ Alone'
    BY <2>1 DEF IInv, Unused, Alone, files
  <2> QED BY <1>0, <2>6, <2>7, <2>8 DEF IInv
<1>9. ASSUME NEW p \in Processes, ChmodFails(p) \/ RenameFails(p) PROVE IInv'
  <2>1. InFile(p) /\ temp[p] \in temps
    BY <1>4, <1>9 DEF ChmodFails, RenameFails
  <2>2. UNCHANGED <<kind, entry, files, temp, fd, fds, other, damages, crashes>>
    BY <1>9 DEF ChmodFails, RenameFails
  <2>3. pc'[p] = "failed" /\ \A q \in Processes \ {p} : pc'[q] = pc[q]
    BY <1>0, <1>9 DEF ChmodFails, RenameFails, Goto, TypeOK
  <2>4. Mine(p)
    BY <2>2, <2>3 DEF Mine, files
  <2>5. Own(p)'
    BY <2>1, <2>2, <2>3 DEF Own, InFile, files
  <2>6. (\A q \in Processes : Own(q)') /\ Apart'
    BY <2>1, <2>2, <2>4, <2>5, OtherCalls
  <2>7. Published' /\ Durable'
    BY <2>2, SameEntry DEF files
  <2>8. Unused' /\ Alone'
    BY <2>2 DEF IInv, Unused, Alone, files
  <2> QED BY <1>0, <2>6, <2>7, <2>8 DEF IInv
<1>10. ASSUME NEW p \in Processes, WriteFails(p) PROVE IInv'
  <2>1. Target(p) = temp[p]
    BY <1>10 DEF IInv, Own, WriteFails, Target
  <2>2. InFile(p) /\ temp[p] \in temps /\ temp[p] \in Files /\ temp[p] <= made
    BY <1>4, <1>10 DEF WriteFails
  <2>3. /\ \A f \in Files : f # temp[p] => data'[f] = data[f]
        /\ UNCHANGED <<kind, entry, synced, made, temps, temp, fd, other, damages, crashes>>
    BY <1>0, <1>10, <2>1, <2>2 DEF WriteFails, Put, TypeOK
  <2>4. pc'[p] = "failed"
    BY <1>0, <1>10 DEF WriteFails, Goto, TypeOK
  <2>5. Mine(p)
    BY <1>0, <1>10, <2>2, <2>3 DEF WriteFails, Goto, Close, Mine, TypeOK
  <2>6. Own(p)'
    BY <2>2, <2>3, <2>4 DEF Own, InFile
  <2>7. (\A q \in Processes : Own(q)') /\ Apart'
    BY <2>2, <2>3, <2>5, <2>6, OtherCalls
  <2>8. Published' /\ Durable'
    BY <2>2, <2>3, SameEntry
  <2>9. Unused' /\ Alone'
    BY <1>0, <2>2, <2>3 DEF IInv, Unused, Alone, TypeOK
  <2> QED BY <1>0, <2>7, <2>8, <2>9 DEF IInv
<1>11. ASSUME NEW p \in Processes, CleanUp(p) PROVE IInv'
  <2>1. InFile(p) /\ temp[p] \in temps
    BY <1>4, <1>11 DEF CleanUp
  <2>2. /\ temps \ {temp[p]} \subseteq temps' /\ temps' \subseteq temps
        /\ UNCHANGED <<kind, entry, data, synced, made, temp, fd, other, bounds>>
    BY <1>11 DEF CleanUp
  <2>3. ~InFile(p)'
    BY <1>0, <1>11 DEF CleanUp, Goto, InFile, TypeOK
  <2>4. \A q \in Processes \ {p} : pc'[q] = pc[q] /\ fds'[q] = fds[q]
    BY <1>0, <1>11 DEF CleanUp, Goto, Close, TypeOK
  <2>5. Mine(p)
    BY <2>1, <2>2, <2>4 DEF Mine
  <2>6. Own(p)'
    BY <2>3 DEF Own, InFile
  <2>7. (\A q \in Processes : Own(q)') /\ Apart'
    BY <2>3, <2>5, <2>6, OtherCalls
  <2>8. Published' /\ Durable'
    BY <2>2, SameEntry DEF bounds
  <2>9. Unused' /\ Alone'
    BY <2>2 DEF IInv, Unused, Alone
  <2> QED BY <1>0, <2>7, <2>8, <2>9 DEF IInv
<1>18. ASSUME NEW p \in Processes, CleanUpRenamed(p) PROVE IInv'
  <2>1. UNCHANGED <<kind, entry, files, temp, fd, other, bounds>>
    BY <1>18 DEF CleanUpRenamed
  <2>2. \A q \in Processes \ {p} : pc'[q] = pc[q] /\ fds'[q] = fds[q]
    BY <1>0, <1>18 DEF CleanUpRenamed, Goto, Close, TypeOK
  <2>3. ~InFile(p)'
    BY <1>0, <1>18 DEF CleanUpRenamed, Goto, InFile, TypeOK
  <2>4. Mine(p)
    BY <2>1, <2>2 DEF Mine, files
  <2>5. Own(p)'
    BY <2>3 DEF Own, InFile
  <2>6. (\A q \in Processes : Own(q)') /\ Apart'
    BY <2>3, <2>4, <2>5, OtherCalls
  <2>7. Published' /\ Durable'
    BY <2>1, SameEntry DEF files, bounds
  <2>8. Unused' /\ Alone'
    BY <2>1 DEF IInv, Unused, Alone, files
  <2> QED BY <1>0, <2>6, <2>7, <2>8 DEF IInv
(* The environment. *)
<1>12. ASSUME NEW p \in Processes, OtherOpens(p) \/ OtherWrites(p) \/ OtherCloses(p) PROVE FALSE
  BY <1>12 DEF OtherOpens, OtherWrites, OtherCloses, IInv, Alone
<1>13. ASSUME NEW d \in Damaged, Damage(d) PROVE IInv'
  <2>1. /\ name # 0 /\ name \in Files /\ name <= made
    BY <1>0, <1>13 DEF Damage, TypeOK, Files
  <2>2. /\ data' = [data EXCEPT ![name] = d] /\ d \notin Torn
        /\ UNCHANGED <<kind, entry, synced, made, temps, calls, fds, other, failures, crashes>>
    BY <1>13 DEF Damage, Damaged, Torn
  <2>3. ASSUME NEW q \in Processes PROVE Own(q)'
    <3>1. InFile(q) => data'[temp[q]] = data[temp[q]]
      BY <1>0, <2>1, <2>2 DEF IInv, Own, Published, TypeOK
    <3> QED BY <2>2, <3>1 DEF IInv, Own, InFile, calls
  <2>4. Apart' /\ Alone' /\ Durable'
    BY <2>2 DEF IInv, Apart, Alone, Durable, InFile, calls, entry
  <2>5. Published'
    BY <1>0, <2>1, <2>2 DEF IInv, Published, Good, TypeOK, entry, Files
  <2>6. Unused'
    BY <1>0, <2>1, <2>2 DEF IInv, Unused, TypeOK
  <2> QED BY <1>0, <2>3, <2>4, <2>5, <2>6 DEF IInv
<1>14. ASSUME NEW p \in Processes, ProcessCrash(p) PROVE IInv'
  <2>1. /\ UNCHANGED <<kind, entry, files, temp, fd, failures, damages>>
        /\ crashes' = crashes + 1 /\ crashes' # 0
    BY <1>0, <1>14 DEF ProcessCrash, TypeOK
  <2>2. ~InFile(p)' /\ \A q \in Processes \ {p} : pc'[q] = pc[q] /\ fds'[q] = fds[q]
    BY <1>0, <1>14 DEF ProcessCrash, Goto, InFile, TypeOK
  <2>3. Mine(p)
    BY <2>1, <2>2 DEF Mine, files
  <2>4. Own(p)'
    BY <2>2 DEF Own, InFile
  <2>5. (\A q \in Processes : Own(q)') /\ Apart'
    BY <2>2, <2>3, <2>4, OtherCalls
  <2>6. Published' /\ Durable' /\ Unused'
    BY <2>1 DEF IInv, Published, Good, Durable, Unused, files, entry
  <2>7. Alone'
    BY <1>0, <1>14 DEF ProcessCrash, IInv, Alone, TypeOK
  <2> QED BY <1>0, <2>5, <2>6, <2>7 DEF IInv
<1>15. CASE SystemCrash
  <2>1. \A q \in Processes : pc'[q] = "idle" /\ other'[q] = 0
    BY <1>15 DEF SystemCrash
  <2>2. (\A q \in Processes : Own(q)') /\ Apart' /\ Alone'
    BY <2>1 DEF Own, Apart, Alone, InFile
  <2>3. /\ name' \in {name, disk} /\ disk' = name' /\ crashes' # 0
        /\ UNCHANGED <<kind, stored, made, temps>>
    BY <1>0, <1>15 DEF SystemCrash, TypeOK
  <2>4. \A f \in Files : synced[f] => data'[f] = data[f]
    BY <1>15 DEF SystemCrash
  <2>5. \A f \in Files : f <= made => synced'[f] = TRUE
    BY <1>15 DEF SystemCrash
  <2>6. Published'
    <3>1. name' \notin temps' /\ disk' \notin temps'
      BY <2>3 DEF IInv, Published
    <3>2. ASSUME kind # "context", name' # 0 PROVE Good(name)'
      <4>1. name' \in Files /\ name' <= made
        BY <1>0, <2>3, <3>2 DEF TypeOK, Files
      <4>2. Good(name')
        BY <2>3, <3>2 DEF IInv, Published
      <4> QED BY <2>3, <2>4, <2>5, <3>2, <4>1, <4>2 DEF Good
    <3> QED BY <2>3, <3>1, <3>2 DEF Published
  <2>7. Durable'
    BY <2>3 DEF IInv, Durable
  <2>8. Unused'
    BY <1>0, <1>15, <2>3 DEF SystemCrash, IInv, Unused, TypeOK, Files
  <2> QED BY <1>0, <2>2, <2>6, <2>7, <2>8 DEF IInv
<1>16. ASSUME UNCHANGED vars \/ \E p \in Processes : Hit(p) PROVE IInv'
  <2>1. UNCHANGED vars
    BY <1>16 DEF Hit
  <2> QED BY <1>0, <2>1
     DEF vars, IInv, Own, Apart, Published, Good, Unused, Alone, Durable, InFile
<1> QED
  BY <1>1, <1>2, <1>3, <1>5, <1>6, <1>7, <1>8, <1>9, <1>10, <1>11, <1>12, <1>13, <1>14, <1>15,
     <1>16, <1>17, <1>18 DEF Next, Step
-----------------------------------------------------------------------------
LEMMA Invariant == ASSUME Shared = {} PROVE Spec => []IInv
  BY InitIInv, Step_IInv, PTL DEF Spec

(* Every variable has its type. *)
THEOREM TypeCorrect == Spec => []TypeOK
<1>1. Init => TypeOK
  BY InitType
<1> QED BY <1>1, TypeStep, PTL DEF Spec

(* The path of an entry never names a file that was not written to its end,
   whatever fails or crashes (the order of write, fsync and os.replace).    *)
THEOREM Whole == ASSUME Shared = {} PROVE Spec => []NeverTorn
<1>1. IInv => NeverTorn
  BY DEF IInv, Published, Good, NeverTorn
<1> QED BY <1>1, Invariant, PTL

(* What was stored stays until a reader sets it aside (_fsync_directory). *)
THEOREM Kept == ASSUME Shared = {} PROVE Spec => []StoredIsKept
<1>1. IInv => StoredIsKept
  BY DEF IInv, Durable, StoredIsKept
<1> QED BY <1>1, Invariant, PTL
-----------------------------------------------------------------------------
(* What a call leaves behind, and what it does to the other thread.         *)

(* The descriptors a call may still close.  atomic_write_bytes closes its
   descriptor again when it has failed.                                     *)
Held(p) ==
  IF pc[p] \in {"write", "sync"} \/ (pc[p] = "failed" /\ kind \in {"planner", "frame"})
  THEN {fd[p]} ELSE {}

(* The table of a process: what its call has open, what the other thread has
   open, and nothing else.                                                  *)
Table(p) ==
  /\ pc[p] \in {"write", "sync"} => fds[p][fd[p]] \in Files
  /\ other[p] # 0 => kind \in Shared /\ fds[p][other[p]] = Foreign
  /\ \A n \in Fds : n # other[p] /\ n \notin Held(p) => fds[p][n] = 0
  /\ pc[p] = "failed" /\ kind = "context" => failures # 0
  /\ pc[p] \in {"dirsync", "unsynced"} => kind \in {"planner", "frame"}

Tidy ==
  /\ TypeOK
  /\ \A p \in Processes : Table(p)
  /\ NoLeftovers

Tables == \A p \in Processes : Table(p)

LEMMA TableStep ==
  ASSUME Shared \subseteq {"call", "context"}
  PROVE  TypeOK /\ Tables /\ [Next]_vars => Tables'
<1> SUFFICES ASSUME TypeOK, Tables, [Next]_vars PROVE Tables'
  OBVIOUS
<1> USE CacheFileAssumption DEF bounds, entry, files, calls
<1>0. /\ \A p \in Processes : Table(p) /\ fd[p] \in Fds /\ fds[p] \in [Fds -> 0..MaxFiles + 1]
      /\ made \in Nat /\ failures \in Nat /\ kind \in {"planner", "frame", "call", "context"}
  BY DEF Tables, TypeOK
<1> DEFINE Same(p) == /\ pc'[p] = pc[p] /\ fd'[p] = fd[p] /\ fds'[p] = fds[p]
                      /\ other'[p] = other[p]
           OthersKeep(p) == \A q \in Processes \ {p} : Same(q)
           Onward == kind' = kind /\ (failures' = failures \/ failures' = failures + 1)
<1>1. ASSUME NEW p \in Processes, Table(p)', OthersKeep(p), Onward PROVE Tables'
  <2>1. ASSUME NEW q \in Processes \ {p} PROVE Table(q)'
    <3>1. Table(q) /\ Same(q) /\ (failures # 0 => failures' # 0)
      BY <1>0, <1>1, <2>1
    <3> QED BY <1>1, <3>1 DEF Table, Held
  <2> QED BY <1>1, <2>1 DEF Tables
<1>2. ASSUME NEW p \in Processes, NEW label, Goto(p, label)
      PROVE pc'[p] = label /\ \A q \in Processes \ {p} : pc'[q] = pc[q]
  BY <1>2 DEF Goto, TypeOK
<1>3. ASSUME NEW p \in Processes, NEW n \in Fds, NEW f, OpenAs(p, n, f)
      PROVE /\ \A m \in Fds : fds'[p][m] = IF m = n THEN f ELSE fds[p][m]
            /\ \A q \in Processes \ {p} : fds'[q] = fds[q]
  BY <1>3 DEF OpenAs, TypeOK
<1>4. ASSUME NEW p \in Processes, NEW n \in Fds, Close(p, n)
      PROVE /\ \A m \in Fds : fds'[p][m] = IF m = n THEN 0 ELSE fds[p][m]
            /\ \A q \in Processes \ {p} : fds'[q] = fds[q]
  BY <1>4 DEF Close, TypeOK
(* Steps that touch no descriptor. *)
<1>5. ASSUME NEW p \in Processes, NEW label \in Labels, Goto(p, label),
             UNCHANGED <<kind, fd, fds, other, failures>>,
             label \notin {"write", "sync", "failed"}, pc[p] \notin {"write", "sync", "failed"},
             label = "dirsync" => SyncsDirectory, label # "unsynced"
      PROVE Tables'
  BY <1>0, <1>1, <1>2, <1>5 DEF Table, Held, SyncsDirectory
<1>6. ASSUME NEW p \in Processes,
             \/ Miss(p) \/ FindCorrupt(p) \/ ReadRaises(p) \/ SetAside(p) \/ End(p) \/ Rename(p)
             \/ SyncDirectory(p)
      PROVE Tables'
  BY <1>5, <1>6 DEF Miss, FindCorrupt, ReadRaises, SetAside, End, Rename, SyncDirectory, Labels
<1>7. ASSUME NEW p \in Processes, MakeTemp(p) PROVE Tables'
  <2>1. PICK n \in Fds : Free(p, n) /\ OpenAs(p, n, made + 1) /\ fd' = [fd EXCEPT ![p] = n]
    BY <1>7 DEF MakeTemp
  <2>2. /\ fd'[p] = n /\ pc'[p] = "write" /\ OthersKeep(p) /\ Onward /\ other'[p] = other[p]
        /\ made + 1 \in Files /\ pc[p] = "compute"
    BY <1>0, <1>2, <1>3, <1>7, <2>1 DEF MakeTemp, TypeOK, Files
  <2>3. Table(p)'
    <3>1. n # other[p]
      BY <1>0, <2>1 DEF Free, Table, Foreign, Fds
    <3>2. \A m \in Fds : fds'[p][m] = IF m = n THEN made + 1 ELSE fds[p][m]
      BY <1>3, <2>1
    <3>3. \A m \in Fds : m # other[p] => fds[p][m] = 0
      BY <1>0, <2>2 DEF Table, Held
    <3>4. other'[p] # 0 => kind' \in Shared /\ fds'[p][other'[p]] = Foreign
      BY <1>0, <1>7, <2>2, <3>1, <3>2 DEF MakeTemp, Table, TypeOK, Fds
    <3> QED BY <2>2, <3>2, <3>3, <3>4 DEF Table, Held
  <2> QED BY <1>1, <2>2, <2>3
<1>8. ASSUME NEW p \in Processes, Write(p) PROVE Tables'
  <2>1. pc[p] = "write" /\ pc'[p] = "sync" /\ OthersKeep(p) /\ Onward
    BY <1>2, <1>8 DEF Write
  <2>2. Table(p)'
    BY <1>0, <1>8, <2>1 DEF Write, Table, Held
  <2> QED BY <1>1, <2>1, <2>2
(* Steps that close the descriptor of the call. *)
<1>9. ASSUME NEW p \in Processes, NEW label \in {"rename", "failed"}, Goto(p, label),
             Close(p, fd[p]), Onward, UNCHANGED <<fd, other>>, pc[p] \in {"write", "sync"},
             label = "failed" => failures' # 0
      PROVE Tables'
  <2>1. pc'[p] = label /\ OthersKeep(p)
    BY <1>0, <1>2, <1>4, <1>9
  <2>2. fd[p] # other[p]
    BY <1>0, <1>9 DEF Table, Files, Foreign, Fds
  <2>3. Table(p)'
    <3>1. \A m \in Fds : fds'[p][m] = IF m = fd[p] THEN 0 ELSE fds[p][m]
      BY <1>0, <1>4, <1>9
    <3>2. \A m \in Fds : m # other[p] => fds'[p][m] = 0
      BY <1>0, <1>9, <3>1 DEF Table, Held
    <3>3. other'[p] # 0 => kind' \in Shared /\ fds'[p][other'[p]] = Foreign
      BY <1>0, <1>9, <2>2, <3>1 DEF Table, TypeOK, Fds
    <3> QED BY <1>9, <2>1, <3>2, <3>3 DEF Table
  <2> QED BY <1>1, <1>9, <2>1, <2>3
<1>10. ASSUME NEW p \in Processes, Sync(p) PROVE Tables'
  <2>1. /\ Goto(p, "rename") /\ Close(p, fd[p]) /\ Onward /\ UNCHANGED <<fd, other>>
        /\ pc[p] \in {"write", "sync"}
    BY <1>10 DEF Sync
  <2> QED BY <1>9, <2>1
<1>11. ASSUME NEW p \in Processes, WriteFails(p) PROVE Tables'
  <2>1. Target(p) # 0
    BY <1>0, <1>11 DEF WriteFails, Target, Table, Files
  <2> QED BY <1>0, <1>9, <1>11, <2>1 DEF WriteFails, MayFail
<1>12. ASSUME NEW p \in Processes, ChmodFails(p) \/ RenameFails(p) PROVE Tables'
  <2>1. /\ pc'[p] = "failed" /\ OthersKeep(p) /\ Onward /\ failures' # 0
        /\ UNCHANGED <<fd, fds, other>>
    BY <1>0, <1>2, <1>12 DEF ChmodFails, RenameFails, MayFail
  <2>2. Table(p)'
    BY <1>0, <1>12, <2>1 DEF ChmodFails, RenameFails, Table, Held
  <2> QED BY <1>1, <2>1, <2>2
<1>19. ASSUME NEW p \in Processes, OpenDirectoryFails(p) \/ SyncDirectoryFails(p) PROVE Tables'
  <2>1. /\ pc[p] = "dirsync" /\ pc'[p] \in {"idle", "unsynced"} /\ OthersKeep(p) /\ Onward
        /\ UNCHANGED <<fd, fds, other>>
    BY <1>0, <1>2, <1>19 DEF OpenDirectoryFails, SyncDirectoryFails, MayFail
  <2>2. Table(p)'
    BY <1>0, <2>1 DEF Table, Held
  <2> QED BY <1>1, <2>1, <2>2
<1>20. ASSUME NEW p \in Processes, CleanUpRenamed(p) PROVE Tables'
  <2>1. /\ pc[p] = "unsynced" /\ pc'[p] = "idle" /\ OthersKeep(p) /\ Onward
        /\ UNCHANGED <<fd, other>>
    BY <1>0, <1>2, <1>4, <1>20 DEF CleanUpRenamed
  <2>2. other[p] = 0 /\ Close(p, fd[p])
    BY <1>0, <1>20 DEF CleanUpRenamed, Table
  <2>3. Table(p)'
    BY <1>0, <1>4, <2>1, <2>2 DEF Table, Held
  <2> QED BY <1>1, <2>1, <2>3
<1>13. ASSUME NEW p \in Processes, CleanUp(p) PROVE Tables'
  <2>1. pc[p] = "failed" /\ pc'[p] = "idle" /\ OthersKeep(p) /\ Onward /\ UNCHANGED <<fd, other>>
    BY <1>0, <1>2, <1>4, <1>13 DEF CleanUp
  <2>2. CASE kind \in {"planner", "frame"}
    <3>1. other[p] = 0 /\ Close(p, fd[p])
      BY <1>0, <1>13, <2>2 DEF CleanUp, Table
    <3>2. Table(p)'
      BY <1>0, <1>4, <2>1, <2>2, <3>1 DEF Table, Held
    <3> QED BY <1>1, <2>1, <3>2
  <2>3. CASE kind \notin {"planner", "frame"}
    <3>1. Table(p)'
      BY <1>0, <1>13, <2>1, <2>3 DEF CleanUp, Table, Held
    <3> QED BY <1>1, <2>1, <3>1
  <2> QED BY <2>2, <2>3
(* The other thread. *)
<1>14. ASSUME NEW p \in Processes, OtherOpens(p) PROVE Tables'
  <2>1. PICK n \in Fds : Free(p, n) /\ OpenAs(p, n, Foreign) /\ other' = [other EXCEPT ![p] = n]
    BY <1>14 DEF OtherOpens
  <2>2. OthersKeep(p) /\ Onward /\ other'[p] = n /\ pc'[p] = pc[p] /\ fd'[p] = fd[p]
    BY <1>3, <1>14, <2>1 DEF OtherOpens, TypeOK
  <2>3. Table(p)'
    <3>1. pc[p] \in {"write", "sync"} => fd[p] # n
      BY <1>0, <2>1 DEF Free, Table, Files
    <3>2. \A m \in Fds : fds'[p][m] = IF m = n THEN Foreign ELSE fds[p][m]
      BY <1>3, <2>1
    <3>3. other[p] = 0 /\ kind' \in Shared /\ failures' = failures /\ kind' = kind
      BY <1>14 DEF OtherOpens
    <3>4. \A m \in Fds : m # n /\ m \notin Held(p) => fds'[p][m] = 0
      BY <1>0, <3>2, <3>3 DEF Table, Fds
    <3>5. Held(p)' = Held(p)
      BY <2>2, <3>3 DEF Held
    <3> QED BY <1>0, <2>2, <3>1, <3>2, <3>3, <3>4, <3>5 DEF Table
  <2> QED BY <1>1, <2>2, <2>3
<1>15. ASSUME NEW p \in Processes, OtherCloses(p) PROVE Tables'
  <2>1. other[p] \in Fds
    BY <1>15 DEF OtherCloses, TypeOK, Fds
  <2>2. OthersKeep(p) /\ Onward /\ other'[p] = 0 /\ pc'[p] = pc[p] /\ fd'[p] = fd[p]
    BY <1>4, <1>15, <2>1 DEF OtherCloses, TypeOK
  <2>3. Table(p)'
    <3>1. pc[p] \in {"write", "sync"} => fd[p] # other[p]
      BY <1>0, <1>15 DEF OtherCloses, Table, Files, Foreign
    <3> QED BY <1>0, <1>4, <1>15, <2>1, <2>2, <3>1 DEF OtherCloses, Table, Held
  <2> QED BY <1>1, <2>2, <2>3
(* Crashes. *)
<1>16. ASSUME NEW p \in Processes, ProcessCrash(p) PROVE Tables'
  <2>1. /\ pc'[p] = "idle" /\ fds'[p] = [n \in Fds |-> 0] /\ other'[p] = 0
        /\ OthersKeep(p) /\ Onward
    BY <1>2, <1>16 DEF ProcessCrash, TypeOK
  <2>2. Table(p)'
    BY <2>1 DEF Table, Held
  <2> QED BY <1>1, <2>1, <2>2
<1>17. ASSUME SystemCrash PROVE Tables'
  <2>1. \A p \in Processes : pc'[p] = "idle" /\ fds'[p] = [n \in Fds |-> 0] /\ other'[p] = 0
    BY <1>17 DEF SystemCrash
  <2> QED BY <2>1 DEF Tables, Table, Held
<1>18. ASSUME \/ UNCHANGED vars \/ \E d \in Damaged : Damage(d)
              \/ \E p \in Processes : Hit(p) \/ OtherWrites(p)
       PROVE Tables'
  <2>1. UNCHANGED <<kind, pc, fd, fds, other, failures>>
    BY <1>18 DEF Hit, Damage, OtherWrites, vars
  <2> QED BY <2>1 DEF Tables, Table, Held
<1> QED
  BY <1>6, <1>7, <1>8, <1>10, <1>11, <1>12, <1>13, <1>14, <1>15, <1>16, <1>17, <1>18, <1>19,
     <1>20 DEF Next, Step

LEMMA LeftoverStep == TypeOK /\ Tables /\ NoLeftovers /\ [Next]_vars => NoLeftovers'
<1> SUFFICES ASSUME TypeOK, Tables, NoLeftovers, [Next]_vars,
                    crashes' = 0, kind' = "context" => failures' = 0
             PROVE  temps' \subseteq {temp'[p] : p \in Writing'}
  BY DEF NoLeftovers
<1> USE CacheFileAssumption DEF bounds, entry, files, calls
<1>0. crashes = 0 /\ (kind = "context" => failures = 0)
  <2>1. kind' = kind /\ crashes' >= crashes /\ failures' >= failures
    BY DEF TypeOK, Next, Step, Hit, Miss, FindCorrupt, ReadRaises, SetAside, End, MakeTemp, Write,
           Sync, Rename, SyncDirectory, ChmodFails, WriteFails, RenameFails, CleanUp, MayFail,
           OpenDirectoryFails, SyncDirectoryFails, CleanUpRenamed, OtherOpens, OtherWrites, OtherCloses, Damage, ProcessCrash, SystemCrash, vars
  <2> QED BY <2>1 DEF TypeOK
<1>1. \A f \in temps : \E p \in Writing : f = temp[p]
  BY <1>0 DEF NoLeftovers
<1>2. SUFFICES ASSUME NEW f \in temps' PROVE \E p \in Writing' : f = temp'[p]
  OBVIOUS
<1>3. ASSUME NEW p \in Processes, NEW label, Goto(p, label)
      PROVE \A q \in Processes : pc'[q] = IF q = p THEN label ELSE pc[q]
  BY <1>3 DEF Goto, TypeOK
(* A call that goes on keeps its file. *)
<1>4. ASSUME NEW p \in Processes, NEW label, Goto(p, label), UNCHANGED <<temps, temp>>,
             p \notin Writing \/ label \in {"write", "sync", "rename", "failed"}
      PROVE \E q \in Writing' : f = temp'[q]
  <2>1. PICK q \in Writing : f = temp[q]
    BY <1>1, <1>4
  <2> QED BY <1>3, <1>4, <2>1 DEF Writing
(* One that ends takes it along. *)
<1>5. ASSUME NEW p \in Processes, NEW label, Goto(p, label), temps' = temps \ {temp[p]},
             UNCHANGED temp
      PROVE \E q \in Writing' : f = temp'[q]
  <2>1. PICK q \in Writing : f = temp[q] /\ f # temp[p]
    BY <1>1, <1>5
  <2> QED BY <1>3, <1>5, <2>1 DEF Writing
<1>6. ASSUME NEW p \in Processes, Miss(p) \/ FindCorrupt(p) \/ ReadRaises(p) \/ SetAside(p)
                                    \/ End(p) \/ SyncDirectory(p)
                                    \/ OpenDirectoryFails(p) \/ SyncDirectoryFails(p)
                                    \/ CleanUpRenamed(p)
      PROVE \E q \in Writing' : f = temp'[q]
  <2>1. p \notin Writing /\ UNCHANGED <<temps, temp>> /\ \E label : Goto(p, label)
    BY <1>6 DEF Miss, FindCorrupt, ReadRaises, SetAside, End, SyncDirectory, OpenDirectoryFails,
       SyncDirectoryFails, CleanUpRenamed, Writing
  <2> QED BY <1>4, <2>1
<1>7. ASSUME NEW p \in Processes, \/ Write(p) \/ Sync(p) \/ ChmodFails(p) \/ WriteFails(p)
                                  \/ RenameFails(p)
      PROVE \E q \in Writing' : f = temp'[q]
  BY <1>4, <1>7 DEF Write, Sync, ChmodFails, WriteFails, RenameFails
<1>8. ASSUME NEW p \in Processes, MakeTemp(p) PROVE \E q \in Writing' : f = temp'[q]
  <2>1. /\ pc'[p] = "write" /\ temp'[p] = made + 1 /\ pc[p] = "compute"
        /\ \A q \in Processes \ {p} : pc'[q] = pc[q] /\ temp'[q] = temp[q]
    BY <1>3, <1>8 DEF MakeTemp, TypeOK
  <2>2. CASE f = made + 1
    BY <2>1, <2>2 DEF Writing
  <2>3. CASE f \in temps
    <3>1. PICK q \in Writing : f = temp[q]
      BY <1>1, <2>3
    <3> QED BY <2>1, <3>1 DEF Writing
  <2> QED BY <1>8, <2>2, <2>3 DEF MakeTemp
<1>9. ASSUME NEW p \in Processes, Rename(p) PROVE \E q \in Writing' : f = temp'[q]
  BY <1>5, <1>9 DEF Rename
<1>10. ASSUME NEW p \in Processes, CleanUp(p) PROVE \E q \in Writing' : f = temp'[q]
  <2>1. kind # "context"
    BY <1>0, <1>10 DEF CleanUp, Tables, Table
  <2> QED BY <1>5, <1>10, <2>1 DEF CleanUp
<1>11. ASSUME \/ UNCHANGED vars \/ \E d \in Damaged : Damage(d)
              \/ \E p \in Processes : Hit(p) \/ OtherOpens(p) \/ OtherWrites(p) \/ OtherCloses(p)
       PROVE \E q \in Writing' : f = temp'[q]
  <2>1. UNCHANGED <<temps, temp, pc>>
    BY <1>11 DEF Hit, Damage, OtherOpens, OtherWrites, OtherCloses, vars
  <2> QED BY <1>1, <2>1 DEF Writing
<1>12. ASSUME SystemCrash \/ \E p \in Processes : ProcessCrash(p) PROVE FALSE
  BY <1>0, <1>12 DEF SystemCrash, ProcessCrash
<1> QED
  BY <1>6, <1>7, <1>8, <1>9, <1>10, <1>11, <1>12 DEF Next, Step

LEMMA TidyInvariant == ASSUME Shared \subseteq {"call", "context"} PROVE Spec => []Tidy
<1>1. Init => Tidy
  BY InitType DEF Tidy, Init, Table, Held, NoLeftovers
<1>2. Tidy /\ [Next]_vars => Tidy'
  BY TypeStep, TableStep, LeftoverStep DEF Tidy, Tables
<1> QED BY <1>1, <1>2, PTL DEF Spec

(* Whatever step of a write fails, neither a temporary file nor a descriptor
   stays behind, as long as only the threads beside model calls and document
   contexts open files (the cleanups of atomic_write_bytes and
   write_model_call).                                                       *)
THEOREM CleansUp == ASSUME Shared \subseteq {"call", "context"} PROVE Spec => []NothingLeaks
<1>1. Tidy => NothingLeaks
  <2> SUFFICES ASSUME Tidy PROVE NoLeakedDescriptor
    BY DEF Tidy, NothingLeaks
  <2> SUFFICES ASSUME kind \notin Shared, NEW p \in Processes,
                      pc[p] \notin {"write", "sync", "failed"}, NEW n \in Fds
               PROVE fds[p][n] = 0
    BY DEF NoLeakedDescriptor
  <2>1. Table(p) /\ other[p] = 0 /\ Held(p) = {}
    BY DEF Tidy, Table, Held
  <2> QED BY <2>1 DEF Table, Fds
<1> QED BY <1>1, TidyInvariant, PTL

(* No write of a model call or a document context ever closes or writes a
   descriptor of another thread.                                            *)
THEOREM LeavesOthers ==
  ASSUME Shared \subseteq {"call", "context"} PROVE Spec => []OtherUndisturbed
<1>1. Tidy => OtherUndisturbed
  BY DEF Tidy, Table, OtherUndisturbed
<1> QED BY <1>1, TidyInvariant, PTL
-----------------------------------------------------------------------------
(* The consolidation tool, in any directories, for any contents and bounds: *)
(* an instance of CacheConsolidation.  ToolBounds is what that module       *)
(* assumes of its constants.                                                *)
(*                                                                          *)
(* Visited says of the directories behind a run that they agree with the    *)
(* active entry, if none of them has disagreed yet.  ToolHeld says the same *)
(* of what a run may remove, as long as no run was killed: an entry of      *)
(* those directories is active or preserved, and what is about to be is in  *)
(* `keep'.                                                                  *)
CONSTANTS Contents, Half, MaxRuns, MaxKills, MaxRecomputed

VARIABLES conflicted, keep, runs, recomputed

Tool == INSTANCE CacheConsolidation

ToolBounds ==
  /\ Dirs \in Nat /\ MaxRuns \in Nat /\ MaxKills \in Nat /\ MaxRecomputed \in Nat
  /\ NoEntry \notin Contents
  /\ Half \notin Contents \cup {NoEntry}

Busy == stage \in {"keep", "copy"}

Shape ==
  /\ stage = "copy" => keep # << >>
  /\ stage \in {"import", "keep", "copy"} => dir \in 1..Dirs /\ source[dir] # NoEntry
  /\ stage = "import" => ~conflicted /\ active = Half

Visited ==
  /\ stage # "idle" /\ conflicted => active = NoEntry
  /\ stage = "visit" /\ ~conflicted =>
       \A d \in 1..Dirs : d < dir => source[d] \in {NoEntry, active}
  /\ stage = "import" => \A d \in 1..Dirs : d < dir => source[d] = NoEntry

Preserved(c) == preserved[c] = c
KeptOrDue(c) == Preserved(c) \/ \E n \in 1..Len(keep) : keep[n] = c

ToolHeld ==
  /\ active = Half => stage = "import"
  /\ \A c \in Contents : preserved[c] \in {NoEntry, c} \/ (stage = "copy" /\ c = Head(keep))
  /\ stage = "copy" => Head(keep) \in Contents
  /\ Busy => /\ \A n \in 1..Len(keep) : keep[n] \in Contents
             /\ KeptOrDue(source[dir])
             /\ ~conflicted => active \in Contents /\ KeptOrDue(active)
  /\ stage # "idle" =>
       \A d \in 1..Dirs : (d < dir \/ stage = "prune") /\ source[d] # NoEntry =>
         source[d] = active \/ Preserved(source[d])

ToolInv == Tool!TypeOK /\ Shape /\ Visited /\ (kills = 0 => ToolHeld /\ NothingLost)

USE DEF ToolBounds
-----------------------------------------------------------------------------
LEMMA ToolInitInv == ASSUME ToolBounds PROVE Tool!Init => ToolInv
<1> SUFFICES ASSUME Tool!Init PROVE ToolInv
  OBVIOUS
<1>1. Tool!TypeOK
  <2>1. /\ source \in [1..Dirs -> Contents \cup {NoEntry}] /\ active \in Contents \cup {NoEntry}
        /\ keep = << >> /\ preserved \in [Contents \cup {Half} -> Contents \cup {NoEntry, Half}]
    BY DEF Tool!Init
  <2>2. \A d \in 1..Dirs : Tool!Found(source[d]) \subseteq Contents
    BY <2>1 DEF Tool!Found
  <2>3. ever \subseteq Contents
    BY <2>1, <2>2 DEF Tool!Init, Tool!Found
  <2>4. keep \in Seq(Contents \cup {Half}) /\ Len(keep) <= 2
    BY <2>1
  <2>5. dir \in 1..Dirs + 1 /\ runs \in 0..MaxRuns /\ kills \in 0..MaxKills
        /\ recomputed \in 0..MaxRecomputed
    BY DEF Tool!Init
  <2>6. conflicted \in BOOLEAN /\ stage \in {"idle", "visit", "import", "keep", "copy"}
    BY DEF Tool!Init
  <2>7. active \in Contents \cup {NoEntry, Half}
    BY <2>1
  <2>8. QED
    BY <2>1, <2>3, <2>4, <2>5, <2>6, <2>7 DEF Tool!TypeOK
<1>2. Shape /\ Visited
  BY DEF Tool!Init, Shape, Visited
<1>3. ToolHeld
  BY DEF Tool!Init, ToolHeld, Busy
<1>4. NothingLost
  BY DEF Tool!Init, NothingLost, Findable, Tool!Found
<1>5. QED
  BY <1>1, <1>2, <1>3, <1>4 DEF ToolInv

LEMMA ToolTypeStep == ASSUME ToolBounds, Tool!TypeOK, Shape, Tool!Next PROVE Tool!TypeOK'
<1>1. CASE Tool!Start \/ Tool!Skip \/ Tool!Import \/ Tool!End \/ Tool!Crash
  <2>1. CASE Tool!Start
    <3>1. keep' \in Seq(Contents \cup {Half}) /\ Len(keep') <= 2
      BY <2>1 DEF Tool!Start
    <3>2. dir' \in 1..Dirs + 1 /\ runs' \in 0..MaxRuns
      BY <2>1 DEF Tool!Start, Tool!TypeOK
    <3>3. QED
      BY <2>1, <3>1, <3>2 DEF Tool!TypeOK, Tool!Start, Tool!tree
  <2>2. CASE Tool!Skip
    BY <2>2 DEF Tool!TypeOK, Tool!Skip, Tool!tree, Tool!bounds, Tool!Visiting, Tool!NextDir
  <2>3. CASE Tool!Import
    BY <2>3 DEF Tool!TypeOK, Tool!Import, Tool!bounds
  <2>4. CASE Tool!End \/ Tool!Crash
    BY <2>4 DEF Tool!TypeOK, Tool!End, Tool!Crash, Tool!tree, Tool!bounds
  <2>5. QED
    BY <1>1, <2>1, <2>2, <2>3, <2>4
<1>2. CASE Tool!Imported
  BY <1>2 DEF Tool!TypeOK, Shape, Tool!Imported, Tool!bounds, Tool!NextDir
<1>3. CASE Tool!Conflict
  <2>1. active \in Contents \cup {Half} \/ conflicted
    BY <1>3 DEF Tool!TypeOK, Tool!Conflict
  <2>2. keep' \in Seq(Contents \cup {Half}) /\ Len(keep') <= 2
    <3>1. source[dir] \in Contents
      BY <1>3 DEF Tool!TypeOK, Tool!Conflict, Tool!HereIs, Tool!Visiting
    <3>2. \/ keep' = <<source[dir]>>
          \/ active \in Contents \cup {Half} /\ keep' = <<active, source[dir]>>
      BY <1>3, <2>1 DEF Tool!TypeOK, Tool!Conflict
    <3>3. CASE keep' = <<source[dir]>>
      BY <3>1, <3>3
    <3>4. CASE active \in Contents \cup {Half} /\ keep' = <<active, source[dir]>>
      BY <3>1, <3>4
    <3>5. QED
      BY <3>2, <3>3, <3>4
  <2>3. QED
    BY <1>3, <2>2 DEF Tool!TypeOK, Tool!Conflict, Tool!tree, Tool!bounds
<1>4. CASE Tool!KeptBefore
  <2>1. keep' \in Seq(Contents \cup {Half}) /\ Len(keep') <= 2
    BY <1>4 DEF Tool!TypeOK, Tool!KeptBefore
  <2>2. QED
    BY <1>4, <2>1 DEF Tool!TypeOK, Tool!KeptBefore, Tool!tree, Tool!bounds
<1>5. CASE Tool!Keep
  BY <1>5 DEF Tool!TypeOK, Tool!Keep, Tool!bounds
<1>6. CASE Tool!Kept
  <2>1. /\ keep' \in Seq(Contents \cup {Half}) /\ Len(keep') <= 2
        /\ Head(keep) \in Contents \cup {Half}
    BY <1>6 DEF Tool!TypeOK, Shape, Tool!Kept
  <2>2. preserved' \in [Contents \cup {Half} -> Contents \cup {NoEntry, Half}]
    BY <1>6, <2>1 DEF Tool!TypeOK, Tool!Kept
  <2>3. QED
    BY <1>6, <2>1, <2>2 DEF Tool!TypeOK, Tool!Kept, Tool!bounds
<1>7. CASE Tool!Settle
  BY <1>7 DEF Tool!TypeOK, Shape, Tool!Settle, Tool!NextDir, Tool!bounds
<1>8. CASE Tool!BeginPruning \/ Tool!PruneSource
  <2>1. dir' \in 1..Dirs + 1
    BY <1>8 DEF Tool!TypeOK, Tool!BeginPruning, Tool!PruneSource
  <2>2. QED
    BY <1>8, <2>1 DEF Tool!TypeOK, Tool!BeginPruning, Tool!PruneSource, Tool!tree, Tool!bounds
<1>9. CASE \E c \in Contents : Tool!Recompute(c)
  BY <1>9 DEF Tool!TypeOK, Tool!Recompute
<1>10. QED
  BY <1>1, <1>2, <1>3, <1>4, <1>5, <1>6, <1>7, <1>8, <1>9 DEF Tool!Next

LEMMA VisitStep ==
  ASSUME ToolBounds, Tool!TypeOK, Shape, Visited, Tool!Next PROVE Shape' /\ Visited'
<1>1. CASE Tool!Start \/ Tool!End \/ Tool!Crash \/ Tool!BeginPruning \/ Tool!PruneSource
  BY <1>1
     DEF Tool!TypeOK, Shape, Visited, Tool!Start, Tool!End, Tool!Crash, Tool!BeginPruning,
         Tool!PruneSource, Tool!Done, Tool!tree, Tool!bounds
<1>2. CASE Tool!Skip
  BY <1>2
     DEF Tool!TypeOK, Shape, Visited, Tool!Skip, Tool!Visiting, Tool!HereIs, Tool!NextDir,
         Tool!tree, Tool!bounds
<1>3. CASE Tool!Import
  BY <1>3
     DEF Tool!TypeOK, Shape, Visited, Tool!Import, Tool!MayImport, Tool!Visiting, Tool!HereIs,
         Tool!bounds
<1>4. CASE Tool!Imported
  BY <1>4 DEF Tool!TypeOK, Shape, Visited, Tool!Imported, Tool!NextDir, Tool!bounds
<1>5. CASE Tool!Conflict
  BY <1>5
     DEF Tool!TypeOK, Shape, Visited, Tool!Conflict, Tool!Visiting, Tool!HereIs, Tool!tree,
         Tool!bounds
<1>6. CASE Tool!KeptBefore \/ Tool!Keep \/ Tool!Kept
  BY <1>6
     DEF Tool!TypeOK, Shape, Visited, Tool!KeptBefore, Tool!Keep, Tool!Kept, Tool!tree,
         Tool!bounds
<1>7. CASE Tool!Settle
  BY <1>7 DEF Tool!TypeOK, Shape, Visited, Tool!Settle, Tool!NextDir, Tool!bounds
<1>8. CASE \E c \in Contents : Tool!Recompute(c)
  BY <1>8 DEF Tool!TypeOK, Shape, Visited, Tool!Recompute
<1>9. QED
  BY <1>1, <1>2, <1>3, <1>4, <1>5, <1>6, <1>7, <1>8 DEF Tool!Next

(* What is left to keep when the first of it was kept. *)
LEMMA TailKeeps ==
  ASSUME keep \in Seq(Contents \cup {Half}), keep # << >>, NEW c, NEW n \in 1..Len(keep),
         keep[n] = c, c # Head(keep)
  PROVE  \E k \in 1..Len(Tail(keep)) : Tail(keep)[k] = c
<1>1. n # 1
  OBVIOUS
<1>2. n - 1 \in 1..Len(Tail(keep)) /\ Tail(keep)[n - 1] = keep[n]
  BY <1>1
<1>3. QED
  BY <1>2

LEMMA KeepStep ==
  ASSUME ToolBounds, Tool!TypeOK, Shape, ToolHeld, NothingLost,
         Tool!KeptBefore \/ Tool!Keep \/ Tool!Kept
  PROVE  ToolHeld' /\ NothingLost'
<1> DEFINE h == Head(keep)
<1>1. /\ keep \in Seq(Contents \cup {Half}) /\ keep # << >> /\ h = keep[1]
      /\ 1 \in 1..Len(keep)
      /\ Busy /\ Busy' /\ UNCHANGED <<source, active, conflicted, dir, ever, kills>>
  BY DEF Tool!TypeOK, Shape, Tool!KeptBefore, Tool!Keep, Tool!Kept, Busy, Tool!tree, Tool!bounds
<1>2. h \in Contents /\ preserved \in [Contents \cup {Half} -> Contents \cup {NoEntry, Half}]
  BY <1>1 DEF ToolHeld, Tool!TypeOK
<1>3. \A c \in Contents \ {h} : preserved'[c] = preserved[c] /\ preserved[c] \in {NoEntry, c}
  BY <1>2 DEF ToolHeld, Tool!KeptBefore, Tool!Keep, Tool!Kept, Tool!tree
<1>4. \/ stage' = "copy" /\ stage = "keep" /\ keep' = keep /\ preserved[h] = NoEntry
      \/ stage' = "keep" /\ keep' = Tail(keep) /\ preserved'[h] = h
  BY <1>2 DEF ToolHeld, Tool!KeptBefore, Tool!Keep, Tool!Kept, Tool!tree, Tool!bounds
<1>5. \A c \in Contents : preserved'[c] \in {NoEntry, c} \/ (stage' = "copy" /\ c = Head(keep'))
  BY <1>3, <1>4
<1>6. \A c \in Contents : Preserved(c) => Preserved(c)'
  BY <1>2, <1>3, <1>4 DEF Preserved
<1>7. ASSUME NEW c \in Contents, KeptOrDue(c) PROVE KeptOrDue(c)'
  <2>1. CASE keep' = keep
    BY <1>6, <1>7, <2>1 DEF KeptOrDue
  <2>2. CASE keep' = Tail(keep) /\ preserved'[h] = h
    <3>1. CASE c = h \/ Preserved(c)
      BY <1>6, <2>2, <3>1 DEF KeptOrDue, Preserved
    <3>2. CASE c # h /\ ~Preserved(c)
      BY <1>1, <1>7, <2>2, <3>2, TailKeeps DEF KeptOrDue
    <3>3. QED
      BY <3>1, <3>2
  <2>3. QED
    BY <1>4, <2>1, <2>2
<1>8. \A n \in 1..Len(keep') : keep'[n] \in Contents
  <2>1. \A n \in 1..Len(keep) : keep[n] \in Contents
    BY <1>1 DEF ToolHeld
  <2>2. keep' = keep \/ keep' = Tail(keep)
    BY <1>4
  <2>3. CASE keep' = Tail(keep)
    <3>1. \A n \in 1..Len(Tail(keep)) : n + 1 \in 1..Len(keep) /\ Tail(keep)[n] = keep[n + 1]
      BY <1>1
    <3>2. QED
      BY <2>1, <2>3, <3>1
  <2>4. QED
    BY <2>1, <2>2, <2>3
<1>9. source[dir] \in Contents
  BY <1>1 DEF Tool!TypeOK, Shape, Busy
<1>10. /\ KeptOrDue(source[dir])'
       /\ ~conflicted => active \in Contents /\ KeptOrDue(active)'
  <2>1. KeptOrDue(source[dir]) /\ (~conflicted => active \in Contents /\ KeptOrDue(active))
    BY <1>1 DEF ToolHeld
  <2>2. PICK c \in Contents : c = source[dir]
    BY <1>9
  <2>3. KeptOrDue(source[dir])'
    BY <1>1, <1>7, <2>1, <2>2 DEF KeptOrDue, Preserved
  <2>4. ASSUME ~conflicted PROVE active \in Contents /\ KeptOrDue(active)'
    <3>1. PICK c2 \in Contents : c2 = active
      BY <2>1, <2>4
    <3>2. QED
      BY <1>1, <1>7, <2>1, <2>4, <3>1 DEF KeptOrDue, Preserved
  <2>5. QED
    BY <2>3, <2>4
<1>11. \A d \in 1..Dirs : d < dir /\ source[d] # NoEntry =>
         source[d] = active \/ preserved'[source[d]] = source[d]
  <2> SUFFICES ASSUME NEW d \in 1..Dirs, d < dir, source[d] # NoEntry, source[d] # active
               PROVE  preserved'[source[d]] = source[d]
    OBVIOUS
  <2>1. source[d] \in Contents /\ preserved[source[d]] = source[d]
    BY <1>1 DEF Tool!TypeOK, ToolHeld, Busy, Preserved
  <2>2. QED
    BY <1>6, <2>1 DEF Preserved
<1>12. ToolHeld'
  <2>1. active' # Half
    BY <1>1 DEF ToolHeld, Busy
  <2>2. stage' = "copy" => Head(keep') \in Contents
    BY <1>2, <1>4
  <2>3. QED
    BY <1>1, <1>5, <1>8, <1>10, <1>11, <2>1, <2>2 DEF ToolHeld, Preserved, Busy
<1>13. NothingLost'
  <2>1. \A c \in ever : c \in Contents
    BY DEF Tool!TypeOK
  <2>2. QED
    BY <1>1, <1>6, <2>1 DEF NothingLost, Findable, Preserved
<1>14. QED
  BY <1>12, <1>13

LEMMA ToolHeldStep ==
  ASSUME ToolBounds, ToolInv, Tool!Next, kills' = 0
  PROVE  ToolHeld' /\ NothingLost'
<1>1. kills = 0 /\ ~Tool!Crash
  BY DEF ToolInv, Tool!TypeOK, Tool!Next, Tool!Start, Tool!Skip, Tool!Import, Tool!Imported,
         Tool!Conflict, Tool!KeptBefore, Tool!Keep, Tool!Kept, Tool!Settle, Tool!BeginPruning,
         Tool!PruneSource, Tool!End, Tool!Crash, Tool!Recompute, Tool!bounds
<1>2. Tool!TypeOK /\ Shape /\ Visited /\ ToolHeld /\ NothingLost
  BY <1>1 DEF ToolInv
<1>3. ever \subseteq Contents /\ NoEntry \notin Contents /\ Half \notin Contents
  BY <1>2 DEF Tool!TypeOK
<1>4. CASE Tool!Start \/ Tool!End
  BY <1>1, <1>2, <1>4
     DEF Tool!TypeOK, ToolHeld, NothingLost, Findable, Tool!Start, Tool!End,
         Tool!Done, Tool!tree, Tool!bounds, Busy, Preserved
<1>5. CASE Tool!Skip
  <2>1. ToolHeld'
    BY <1>2, <1>5
       DEF Tool!TypeOK, ToolHeld, Tool!Skip, Tool!Visiting, Tool!HereIs, Tool!NextDir, Tool!tree,
           Tool!bounds, Busy, Preserved
  <2>2. QED
    BY <1>2, <1>5, <2>1 DEF NothingLost, Findable, Tool!Skip, Tool!tree, Tool!bounds
<1>6. CASE Tool!Import
  <2>1. ToolHeld'
    BY <1>2, <1>6
       DEF Tool!TypeOK, ToolHeld, Tool!Import, Tool!MayImport, Tool!Visiting, Tool!bounds, Busy,
           Preserved
  <2>2. QED
    BY <1>2, <1>3, <1>6, <2>1
       DEF NothingLost, Findable, Tool!Import, Tool!MayImport, Tool!bounds
<1>7. CASE Tool!Imported
  <2>1. source[dir] \in Contents /\ dir \in 1..Dirs
    BY <1>2, <1>7 DEF Tool!TypeOK, Shape, Tool!Imported
  <2>2. \A d \in 1..Dirs : d < dir => source[d] = NoEntry
    BY <1>2, <1>7 DEF Visited, Tool!Imported
  <2>3. ToolHeld'
    BY <1>2, <1>3, <1>7, <2>1, <2>2
       DEF Tool!TypeOK, ToolHeld, Tool!Imported, Tool!NextDir, Tool!bounds, Busy, Preserved
  <2>4. \A c \in ever : c # active
    BY <1>2, <1>3, <1>7 DEF Tool!Imported, Shape
  <2>5. QED
    BY <1>1, <1>2, <2>3, <2>4, <1>7
       DEF NothingLost, Findable, Tool!Imported, Tool!bounds
<1>8. CASE Tool!Conflict
  <2>1. source[dir] \in Contents /\ dir \in 1..Dirs
    BY <1>2, <1>8 DEF Tool!TypeOK, Tool!Conflict, Tool!Visiting, Tool!HereIs
  <2>2. ~conflicted => active \in Contents
    BY <1>2, <1>8 DEF Tool!TypeOK, ToolHeld, Tool!Conflict, Tool!Visiting
  <2>3. \/ keep' = <<source[dir]>> /\ conflicted
        \/ keep' = <<active, source[dir]>> /\ ~conflicted
    BY <1>8 DEF Tool!Conflict
  <2>4. \E n \in 1..Len(keep') : keep'[n] = source[dir]
    <3>1. CASE keep' = <<source[dir]>>
      BY <3>1
    <3>2. CASE keep' = <<active, source[dir]>>
      BY <3>2
    <3>3. QED
      BY <2>3, <3>1, <3>2
  <2>5. ~conflicted => \E n \in 1..Len(keep') : keep'[n] = active
    BY <2>3
  <2>6. \A n \in 1..Len(keep') : keep'[n] \in Contents
    BY <2>1, <2>2, <2>3
  <2>7. ToolHeld'
    BY <1>2, <1>8, <2>1, <2>2, <2>4, <2>5, <2>6
       DEF ToolHeld, Tool!Conflict, Tool!Visiting, Tool!tree, Tool!bounds, Busy, Preserved,
           KeptOrDue
  <2>8. QED
    BY <1>2, <1>8, <2>7 DEF NothingLost, Findable, Tool!Conflict, Tool!tree, Tool!bounds
<1>9. CASE Tool!KeptBefore \/ Tool!Keep \/ Tool!Kept
  BY <1>2, <1>9, KeepStep
<1>10. CASE Tool!Settle
  <2>1. /\ Preserved(source[dir]) /\ (~conflicted => Preserved(active))
        /\ conflicted => active = NoEntry
    BY <1>2, <1>10 DEF ToolHeld, Visited, Tool!Settle, Busy, KeptOrDue
  <2>2. active' = NoEntry
    BY <1>10, <2>1 DEF Tool!Settle
  <2>3. \A d \in 1..Dirs : d < dir + 1 /\ source[d] # NoEntry => Preserved(source[d])
    <3> SUFFICES ASSUME NEW d \in 1..Dirs, d < dir + 1, source[d] # NoEntry
                 PROVE  Preserved(source[d])
      OBVIOUS
    <3>1. CASE d = dir
      BY <2>1, <3>1
    <3>2. CASE d # dir
      <4>1. source[d] = active \/ Preserved(source[d])
        BY <1>2, <1>10, <3>2 DEF ToolHeld, Tool!Settle, Tool!TypeOK
      <4>2. QED
        BY <2>1, <4>1
    <3>3. QED
      BY <3>1, <3>2
  <2>4. ToolHeld'
    BY <1>2, <1>3, <1>10, <2>2, <2>3
       DEF ToolHeld, Tool!Settle, Tool!NextDir, Tool!bounds, Busy, Preserved
  <2>5. QED
    BY <1>1, <1>2, <1>3, <1>10, <2>1, <2>2, <2>4
       DEF NothingLost, Findable, Tool!Settle, Tool!NextDir, Tool!bounds, Preserved
<1>11. CASE Tool!BeginPruning \/ Tool!PruneSource
  <2>1. \A d \in 1..Dirs : source[d] # NoEntry => source[d] = active \/ Preserved(source[d])
    BY <1>2, <1>11
       DEF ToolHeld, Tool!BeginPruning, Tool!PruneSource, Tool!Done, Tool!TypeOK
  <2>2. /\ stage' = "prune"
        /\ UNCHANGED <<active, preserved, ever, conflicted, keep, kills>>
        /\ \A d \in 1..Dirs : source'[d] \in {NoEntry, source[d]}
    BY <1>2, <1>11
       DEF Tool!BeginPruning, Tool!PruneSource, Tool!bounds, Tool!tree, Tool!TypeOK
  <2>3. active # Half
    BY <1>2, <1>11 DEF ToolHeld, Tool!BeginPruning, Tool!PruneSource, Tool!Done
  <2>4. \A c \in Contents : preserved[c] \in {NoEntry, c}
    BY <1>2, <1>11 DEF ToolHeld, Tool!BeginPruning, Tool!PruneSource, Tool!Done
  <2>5. \A d \in 1..Dirs : source'[d] # NoEntry => source'[d] = active \/ Preserved(source'[d])
    BY <2>1, <2>2
  <2>6. ToolHeld'
    BY <2>2, <2>3, <2>4, <2>5 DEF ToolHeld, Busy, Preserved
  <2>7. \A c \in ever : active = c \/ preserved[c] = c
    BY <1>1, <1>2, <1>3, <2>1 DEF NothingLost, Findable, Preserved
  <2>8. QED
    BY <2>2, <2>6, <2>7 DEF NothingLost, Findable
<1>12. CASE \E c \in Contents : Tool!Recompute(c)
  <2>1. ToolHeld'
    BY <1>2, <1>3, <1>12 DEF ToolHeld, Tool!Recompute, Busy, Preserved
  <2>2. QED
    BY <1>1, <1>2, <1>3, <1>12, <2>1 DEF NothingLost, Findable, Tool!Recompute
<1>13. QED
  BY <1>1, <1>4, <1>5, <1>6, <1>7, <1>8, <1>9, <1>10, <1>11, <1>12 DEF Tool!Next

(* The tool's invariant holds, killed or not (consolidate_model_caches.py).   *)
THEOREM ToolInvariance == ASSUME ToolBounds PROVE Tool!Spec => []ToolInv
<1>1. ToolInv /\ Tool!Next => ToolInv'
  BY ToolTypeStep, VisitStep, ToolHeldStep DEF ToolInv
<1>2. ToolInv /\ UNCHANGED Tool!vars => ToolInv'
  BY DEF ToolInv, Tool!TypeOK, Shape, Visited, ToolHeld, NothingLost, Findable,
         KeptOrDue, Preserved, Busy, Tool!vars
<1>3. QED
  BY ToolInitInv, <1>1, <1>2, PTL DEF Tool!Spec
-----------------------------------------------------------------------------
(* Every variable of the consolidation tool keeps its type. *)
THEOREM ToolTypeCorrect == ASSUME ToolBounds PROVE Tool!Spec => []Tool!TypeOK
<1>1. ToolInv => Tool!TypeOK
  BY DEF ToolInv
<1>2. QED
  BY ToolInvariance, <1>1, PTL

(* No run ends with an active entry that a legacy directory disagrees with,  *)
(* wherever earlier runs were killed (conflicted_keys).                      *)
THEOREM EndsUnambiguous == ASSUME ToolBounds PROVE Tool!Spec => []Unambiguous
<1>1. ToolInv => Unambiguous
  BY DEF ToolInv, Visited, Unambiguous, Done, Tool!TypeOK
<1>2. QED
  BY ToolInvariance, <1>1, PTL

(* Unless a run is killed, everything that an entry ever said stays          *)
(* somewhere, though canonical entries are unlinked and directories pruned   *)
(* (preserve_conflict).                                                      *)
THEOREM LosesNothing == ASSUME ToolBounds PROVE Tool!Spec => []NothingLost
<1>1. ToolInv => NothingLost
  BY DEF ToolInv, NothingLost
<1>2. QED
  BY ToolInvariance, <1>1, PTL
=============================================================================
