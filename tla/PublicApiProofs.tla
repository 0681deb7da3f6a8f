--------------------------- MODULE PublicApiProofs ---------------------------
(* Proofs about PublicApi, for any threads, folders and calls: the calls    *)
(* are those of KnowledgeBase, whatever fails or is interrupted; and, until *)
(* a KeyboardInterrupt ends a call, the engine in use is never closed, the  *)
(* published engine is open between calls and no other store is.            *)
EXTENDS PublicApi, TLAPS

(* _ENGINE_LOCK is held by the one thread inside a with statement. *)
LockHeld == \A t \in Threads : lock = t <=> thread[t].pc \notin {"idle", "lock"}

IsOpen(e) == e # 0 /\ engines[e].store = "open"

(* Where the holder is decides which stores are open. *)
Place(t) ==
  LET me == thread[t] IN
  /\ me.pc \in {"build", "close", "abort"} =>
       /\ engine = 0 \/ IsOpen(engine)
       /\ me.replacement # 0 /\ me.replacement # engine
       /\ me.previous = engine
  /\ me.pc \in {"build", "close", "closed"} => IsOpen(me.replacement)
  /\ me.pc = "ask" => IsOpen(engine)
  /\ me.pc = "clear" => engine = 0

Indices == engine <= built /\ \A t \in Threads : thread[t].replacement <= built

(* Whoever is answered found an engine. *)
Asked == \A t \in Threads : thread[t].pc = "ask" => engine # 0

(* Only what an initialization was asked for is ever open. *)
FoldersKnown ==
  /\ \A t \in Threads : thread[t].op = "initialize" => thread[t].folder \in Folders
  /\ \A e \in 1..MaxCalls : engines[e].store = "open" => engines[e].folder \in Folders

Placed == (\A u \in Threads : Place(u)) /\ PublishedIsOpen

IInv ==
  /\ TypeOK
  /\ FoldersKnown
  /\ LockHeld
  /\ Asked
  /\ Indices
  /\ ~interrupted => Placed
-----------------------------------------------------------------------------
LEMMA InitIInv == Init => IInv
<1> SUFFICES ASSUME Init PROVE IInv
  OBVIOUS
<1> USE PublicApiAssumption
<1>1. TypeOK
  <2>1. thread \in [Threads -> Call] /\ engines \in [1..MaxCalls -> Engine]
    BY DEF Init, Engine, NoEngine, Call, NoCall
  <2>2. interrupted \in BOOLEAN /\ up \in BOOLEAN
    BY DEF Init
  <2>3. outcome \in [Threads -> {"none", "ok", "raised"} \cup Folders]
    BY DEF Init
  <2> QED BY <2>1, <2>2, <2>3 DEF Init, TypeOK
<1>2. LockHeld
  BY DEF Init, LockHeld, NoCall
<1>3. \A t \in Threads : Place(t)
  BY DEF Init, Place, NoCall
<1>4. Indices
  BY DEF Init, Indices, NoCall
<1>5. PublishedIsOpen
  BY DEF Init, PublishedIsOpen
<1>6. FoldersKnown
  BY DEF Init, FoldersKnown, NoCall, NoEngine
<1>7. Asked
  BY DEF Init, Asked, NoCall
<1> QED
  BY <1>1, <1>2, <1>3, <1>4, <1>5, <1>6, <1>7 DEF IInv, Placed

(* The types of what the actions read. *)
LEMMA Types ==
  ASSUME TypeOK, NEW t \in Threads
  PROVE  /\ thread[t] \in Call
         /\ thread[t].previous \in 0..MaxCalls
         /\ thread[t].replacement \in 0..MaxCalls
         /\ \A e \in 1..MaxCalls : engines[e] \in Engine
  BY DEF TypeOK, Call

LEMMA TypeStep == IInv /\ [Next]_vars => TypeOK'
<1> SUFFICES ASSUME IInv, [Next]_vars PROVE TypeOK'
  OBVIOUS
<1> TypeOK
  BY DEF IInv
<1> USE PublicApiAssumption
<1>1. ASSUME NEW t \in Threads, NEW folder \in Folders \cup {NoFolder}, NEW remote \in BOOLEAN,
             NEW op \in {"initialize", "question", "reset"}, Begin(t, op, folder, remote)
      PROVE TypeOK'
  <2>1. NoCall \in Call
    BY DEF NoCall, Call
  <2>2. [NoCall EXCEPT !.pc = "lock", !.op = op, !.folder = folder, !.remote = remote] \in Call
    BY <2>1 DEF Call
  <2>3. thread' \in [Threads -> Call]
    BY <1>1, <2>2 DEF Begin, TypeOK
  <2> QED BY <1>1, <2>3 DEF Begin, TypeOK
<1>2. ASSUME NEW t \in Threads, AcquireInitialize(t) PROVE TypeOK'
  <2>1. thread[t] \in Call /\ built + 1 \in 1..MaxCalls /\ built + 1 \in 0..MaxCalls
    BY <1>2 DEF AcquireInitialize, TypeOK
  <2>2. thread' \in [Threads -> Call]
    BY <1>2, <2>1 DEF AcquireInitialize, TypeOK, Call
  <2>3. engines' \in [1..MaxCalls -> Engine]
    BY <1>2, <2>1 DEF AcquireInitialize, TypeOK, Call, Engine
  <2> QED BY <1>2, <2>1, <2>2, <2>3 DEF AcquireInitialize, TypeOK
<1>4. ASSUME NEW t \in Threads, AcquireReset(t) PROVE TypeOK'
  <2>1. thread[t] \in Call /\ engine \in 0..MaxCalls
    BY DEF TypeOK
  <2>2. thread' \in [Threads -> Call]
    BY <1>4, <2>1 DEF AcquireReset, TypeOK, Call
  <2> QED BY <1>4, <2>2 DEF AcquireReset, TypeOK
<1>5. ASSUME NEW e \in 0..MaxCalls,
             NEW store \in {"none", "open", "closed", "dropped", "refused"}, SetStore(e, store)
      PROVE engines' \in [1..MaxCalls -> Engine]
  BY <1>5 DEF SetStore, TypeOK, Engine
<1>6. ASSUME NEW t \in Threads, NEW pc \in {"build", "close", "closed", "abort", "ask"}, Goto(t, pc)
      PROVE thread' \in [Threads -> Call]
  <2>1. [thread[t] EXCEPT !.pc = pc] \in Call
    BY DEF TypeOK, Call
  <2> QED BY <1>6, <2>1 DEF Goto, TypeOK
<1>7. ASSUME NEW t \in Threads, NEW r \in {"none", "ok", "raised"} \cup Folders, Return(t, r)
      PROVE /\ thread' \in [Threads -> Call]
            /\ lock' \in Threads \cup {NoThread}
            /\ outcome' \in [Threads -> {"none", "ok", "raised"} \cup Folders]
  BY <1>7 DEF Return, Release, TypeOK, Call, NoCall
<1>3. ASSUME NEW t \in Threads, AcquireQuestion(t) \/ RefuseQuestion(t) PROVE TypeOK'
  BY <1>3, <1>6, <1>7 DEF AcquireQuestion, RefuseQuestion, TypeOK
<1>8. ASSUME NEW t \in Threads,
             Built(t) \/ BuildFails(t) \/ ClosePrevious(t) \/ CloseFails(t) \/ Abort(t)
             \/ AbortFails(t)
      PROVE TypeOK'
  BY <1>8, <1>5, <1>6, <1>7, Types
     DEF Built, BuildFails, ClosePrevious, CloseFails, Abort, AbortFails, TypeOK
<1>9. ASSUME NEW t \in Threads, Publish(t) \/ AnswerFails(t) \/ Cleared(t) \/ ClearFails(t)
      PROVE TypeOK'
  BY <1>9, <1>5, <1>7, Types DEF Publish, AnswerFails, Cleared, ClearFails, TypeOK
<1>11. ASSUME NEW t \in Threads, Interrupt(t) PROVE TypeOK'
  <2>1. CASE InterruptTry(t)
    BY <1>11, <2>1, <1>6 DEF Interrupt, InterruptTry, TypeOK
  <2>2. CASE InterruptCall(t)
    <3>1. engines' \in [1..MaxCalls -> Engine]
      BY <2>2, <1>5, Types DEF InterruptCall, TypeOK
    <3> QED BY <1>11, <2>2, <3>1, <1>7 DEF Interrupt, InterruptCall, TypeOK
  <2> QED BY <1>11, <2>1, <2>2 DEF Interrupt
<1>12. CASE EndpointDown \/ EndpointUp
  <2>1. up' \in BOOLEAN
    BY <1>12 DEF EndpointDown, EndpointUp
  <2>2. outages' \in 0..MaxOutages
    BY <1>12 DEF EndpointDown, EndpointUp, TypeOK
  <2> QED BY <1>12, <2>1, <2>2 DEF EndpointDown, EndpointUp, TypeOK
<1>13. CASE UNCHANGED vars
  BY <1>13 DEF vars, TypeOK
<1>10. ASSUME NEW t \in Threads, Answered(t) PROVE TypeOK'
  <2>1. engine \in 1..MaxCalls
    BY <1>10 DEF Answered, TypeOK, IInv, Asked, At
  <2>2. engines[engine].store = "open" => engines[engine].folder \in Folders
    BY <2>1 DEF IInv, FoldersKnown
  <2> QED BY <1>10, <2>1, <2>2, <1>7 DEF Answered, TypeOK
<1> QED
  BY <1>1, <1>2, <1>3, <1>4, <1>8, <1>9, <1>10, <1>11, <1>12, <1>13 DEF Next, Step, Acquire
-----------------------------------------------------------------------------
LEMMA LockStep == TypeOK /\ LockHeld /\ [Next]_vars => LockHeld'
<1> SUFFICES ASSUME TypeOK, LockHeld, [Next]_vars PROVE LockHeld'
  OBVIOUS
<1> USE PublicApiAssumption
<1>1. ASSUME NEW t \in Threads, NEW folder, NEW remote, NEW op, Begin(t, op, folder, remote)
      PROVE LockHeld'
  BY <1>1 DEF Begin, TypeOK, LockHeld, NoCall, At
<1>2. ASSUME NEW t \in Threads, Acquire(t) PROVE LockHeld'
  <2>1. CASE AcquireInitialize(t)
    BY <2>1 DEF AcquireInitialize, TypeOK, LockHeld, LockFree, At, Call
  <2>2. CASE AcquireQuestion(t)
    BY <2>2 DEF AcquireQuestion, TypeOK, LockHeld, LockFree, At, Goto, Call
  <2>3. CASE AcquireReset(t)
    BY <2>3 DEF AcquireReset, TypeOK, LockHeld, LockFree, At, Call
  <2>4. CASE RefuseQuestion(t)
    BY <2>4 DEF RefuseQuestion, TypeOK, LockHeld, Return, Release, NoCall
  <2> QED BY <1>2, <2>1, <2>2, <2>3, <2>4 DEF Acquire
<1>3. ASSUME NEW t \in Threads, NEW pc \in {"close", "closed", "abort"}, Goto(t, pc),
             thread[t].pc \notin {"idle", "lock"}, UNCHANGED lock
      PROVE LockHeld'
  BY <1>3 DEF TypeOK, LockHeld, Goto, Call
<1>4. ASSUME NEW t \in Threads, NEW r, Return(t, r) PROVE LockHeld'
  BY <1>4 DEF TypeOK, LockHeld, Return, Release, NoCall
<1>5. ASSUME NEW t \in Threads, Built(t) \/ ClosePrevious(t) \/ CloseFails(t) PROVE LockHeld'
  BY <1>5, <1>3 DEF Built, ClosePrevious, CloseFails, At
<1>6. ASSUME NEW t \in Threads,
             BuildFails(t) \/ Abort(t) \/ AbortFails(t) \/ Publish(t) \/ Answered(t)
             \/ AnswerFails(t)
               \/ Cleared(t) \/ ClearFails(t)
      PROVE LockHeld'
  BY <1>6, <1>4 DEF BuildFails, Abort, AbortFails, Publish, Answered, AnswerFails, Cleared,
                    ClearFails
<1>7. ASSUME NEW t \in Threads, Interrupt(t) PROVE LockHeld'
  BY <1>7, <1>3, <1>4 DEF Interrupt, InterruptTry, InterruptCall, At
<1>8. CASE EndpointDown \/ EndpointUp \/ UNCHANGED vars
  BY <1>8 DEF EndpointDown, EndpointUp, vars, LockHeld
<1> QED
  BY <1>1, <1>2, <1>5, <1>6, <1>7, <1>8 DEF Next, Step
-----------------------------------------------------------------------------
LEMMA FolderStep == TypeOK /\ FoldersKnown /\ [Next]_vars => FoldersKnown'
<1> SUFFICES ASSUME TypeOK, FoldersKnown, [Next]_vars PROVE FoldersKnown'
  OBVIOUS
<1> USE PublicApiAssumption
<1>1. ASSUME NEW t \in Threads, NEW folder, NEW remote, NEW op, Begin(t, op, folder, remote),
             op = "initialize" => folder \in Folders
      PROVE FoldersKnown'
  BY <1>1 DEF Begin, TypeOK, FoldersKnown, NoCall
<1>2. ASSUME NEW t \in Threads, Acquire(t) PROVE FoldersKnown'
  <2>1. CASE AcquireInitialize(t)
    BY <2>1 DEF AcquireInitialize, TypeOK, FoldersKnown, At, Call
  <2>2. CASE AcquireQuestion(t)
    BY <2>2 DEF AcquireQuestion, TypeOK, FoldersKnown, Goto, Call
  <2>3. CASE AcquireReset(t)
    BY <2>3 DEF AcquireReset, TypeOK, FoldersKnown, Call
  <2>4. CASE RefuseQuestion(t)
    BY <2>4 DEF RefuseQuestion, TypeOK, FoldersKnown, Return, NoCall
  <2> QED BY <1>2, <2>1, <2>2, <2>3, <2>4 DEF Acquire
<1> DEFINE Calls == \A t \in Threads : thread[t].op = "initialize" => thread[t].folder \in Folders
           Stores == \A e \in 1..MaxCalls :
                       engines[e].store = "open" => engines[e].folder \in Folders
<1>3. ASSUME NEW e, NEW store, store # "open", SetStore(e, store) PROVE Stores'
  BY <1>3 DEF TypeOK, FoldersKnown, SetStore, Engine
<1>4. ASSUME UNCHANGED engines PROVE Stores'
  BY <1>4 DEF FoldersKnown
<1>5. ASSUME NEW t \in Threads, NEW pc, Goto(t, pc) PROVE Calls'
  BY <1>5 DEF TypeOK, FoldersKnown, Goto, Call
<1>6. ASSUME NEW t \in Threads, NEW r, Return(t, r) PROVE Calls'
  BY <1>6 DEF TypeOK, FoldersKnown, Return, NoCall
<1>7. FoldersKnown' <=> Calls' /\ Stores'
  BY DEF FoldersKnown
<1> HIDE DEF Calls, Stores
<1>8. ASSUME NEW t \in Threads, Built(t) \/ ClosePrevious(t) \/ CloseFails(t) PROVE FoldersKnown'
  BY <1>8, <1>3, <1>4, <1>5, <1>7 DEF Built, ClosePrevious, CloseFails
<1>9. ASSUME NEW t \in Threads,
             BuildFails(t) \/ Abort(t) \/ AbortFails(t) \/ Publish(t) \/ Answered(t)
             \/ AnswerFails(t)
               \/ Cleared(t) \/ ClearFails(t)
      PROVE FoldersKnown'
  BY <1>9, <1>3, <1>4, <1>6, <1>7
     DEF BuildFails, Abort, AbortFails, Publish, Answered, AnswerFails, Cleared, ClearFails
<1>10. ASSUME NEW t \in Threads, Interrupt(t) PROVE FoldersKnown'
  BY <1>10, <1>3, <1>4, <1>5, <1>6, <1>7 DEF Interrupt, InterruptTry, InterruptCall
<1>11. CASE EndpointDown \/ EndpointUp \/ UNCHANGED vars
  BY <1>11 DEF EndpointDown, EndpointUp, vars, FoldersKnown
<1> QED
  BY <1>1, <1>2, <1>8, <1>9, <1>10, <1>11 DEF Next, Step
-----------------------------------------------------------------------------
LEMMA IndexStep == TypeOK /\ Indices /\ [Next]_vars => Indices'
<1> SUFFICES ASSUME TypeOK, Indices, [Next]_vars PROVE Indices'
  OBVIOUS
<1> USE PublicApiAssumption
<1>1. ASSUME NEW t \in Threads, NEW folder, NEW remote, NEW op, Begin(t, op, folder, remote)
      PROVE Indices'
  BY <1>1 DEF Begin, TypeOK, Indices, NoCall
<1>2. ASSUME NEW t \in Threads, AcquireInitialize(t) PROVE Indices'
  BY <1>2 DEF AcquireInitialize, TypeOK, Indices, Call
<1>3. ASSUME NEW t \in Threads, AcquireReset(t) PROVE Indices'
  BY <1>3 DEF AcquireReset, TypeOK, Indices, Call
<1>4. ASSUME NEW t \in Threads, NEW pc, Goto(t, pc), UNCHANGED <<engine, built>> PROVE Indices'
  BY <1>4 DEF TypeOK, Indices, Goto, Call
<1>5. ASSUME NEW t \in Threads, NEW r, Return(t, r), UNCHANGED built,
             engine' = engine \/ engine' = thread[t].replacement
      PROVE Indices'
  BY <1>5 DEF TypeOK, Indices, Return, NoCall
<1>6. ASSUME NEW t \in Threads,
             AcquireQuestion(t) \/ Built(t) \/ ClosePrevious(t) \/ CloseFails(t)
      PROVE Indices'
  BY <1>6, <1>4 DEF AcquireQuestion, Built, ClosePrevious, CloseFails
<1>7. ASSUME NEW t \in Threads,
             RefuseQuestion(t) \/ BuildFails(t) \/ Abort(t) \/ AbortFails(t) \/ Publish(t)
             \/ Answered(t)
               \/ AnswerFails(t) \/ Cleared(t) \/ ClearFails(t)
      PROVE Indices'
  BY <1>7, <1>5 DEF RefuseQuestion, BuildFails, Abort, AbortFails, Publish, Answered, AnswerFails,
                    Cleared,
                    ClearFails
<1>8. ASSUME NEW t \in Threads, Interrupt(t) PROVE Indices'
  BY <1>8, <1>4, <1>5 DEF Interrupt, InterruptTry, InterruptCall
<1>9. CASE EndpointDown \/ EndpointUp \/ UNCHANGED vars
  BY <1>9 DEF EndpointDown, EndpointUp, vars, Indices
<1> QED
  BY <1>1, <1>2, <1>3, <1>6, <1>7, <1>8, <1>9 DEF Next, Step, Acquire
-----------------------------------------------------------------------------
(* A step of the holder, or of a thread that takes the free lock, leaves the
   other threads outside.                                                   *)
LEMMA Others ==
  ASSUME TypeOK, LockHeld, NEW t \in Threads, lock \in {t, NoThread},
         \A u \in Threads \ {t} : thread'[u] = thread[u]
  PROVE  \A u \in Threads \ {t} : Place(u)'
<1> TAKE u \in Threads \ {t}
<1>1. thread[u].pc \in {"idle", "lock"}
  BY PublicApiAssumption DEF LockHeld
<1> QED BY <1>1 DEF Place

LEMMA AskStep == TypeOK /\ LockHeld /\ Asked /\ [Next]_vars => Asked'
<1> SUFFICES ASSUME TypeOK, LockHeld, Asked, [Next]_vars PROVE Asked'
  OBVIOUS
<1> USE PublicApiAssumption
<1>1. ASSUME NEW t \in Threads, NEW folder, NEW remote, NEW op, Begin(t, op, folder, remote)
      PROVE Asked'
  BY <1>1 DEF Begin, TypeOK, Asked, NoCall
<1>2. ASSUME NEW t \in Threads, lock = NoThread \/ lock = t,
             \A u \in Threads \ {t} : thread'[u] = thread[u],
             thread'[t].pc = "ask" => engine' # 0
      PROVE Asked'
  BY <1>2 DEF LockHeld, Asked
<1>3. ASSUME NEW t \in Threads, NEW pc, Goto(t, pc) \/ (\E r : Return(t, r))
      PROVE /\ \A u \in Threads \ {t} : thread'[u] = thread[u]
            /\ thread'[t].pc = pc \/ thread'[t].pc = "idle"
  BY <1>3 DEF Goto, Return, TypeOK, NoCall, Call
<1>4. ASSUME NEW t \in Threads, AcquireInitialize(t) \/ AcquireReset(t) PROVE Asked'
  <2>1. /\ \A u \in Threads \ {t} : thread'[u] = thread[u]
        /\ thread'[t].pc \in {"build", "clear"}
    <3>1. thread[t] \in Call
      BY DEF TypeOK
    <3>2. CASE AcquireInitialize(t)
      BY <3>1, <3>2 DEF AcquireInitialize, TypeOK, Call
    <3>3. CASE AcquireReset(t)
      BY <3>1, <3>3 DEF AcquireReset, TypeOK, Call
    <3> QED BY <1>4, <3>2, <3>3
  <2> QED BY <1>2, <1>4, <2>1 DEF AcquireInitialize, AcquireReset, LockFree
<1>5. ASSUME NEW t \in Threads, AcquireQuestion(t) PROVE Asked'
  BY <1>2, <1>3, <1>5 DEF AcquireQuestion, LockFree
<1>6. ASSUME NEW t \in Threads, RefuseQuestion(t) PROVE Asked'
  <2>1. thread'[t].pc = "idle" /\ \A u \in Threads \ {t} : thread'[u] = thread[u]
    BY <1>6 DEF RefuseQuestion, Return, TypeOK, NoCall
  <2> QED BY <1>2, <1>6, <2>1 DEF RefuseQuestion, LockFree
<1>7. ASSUME NEW t \in Threads, thread[t].pc \notin {"idle", "lock"} PROVE lock = t
  BY <1>7 DEF LockHeld
<1>8. ASSUME NEW t \in Threads,
             \/ Built(t) \/ BuildFails(t) \/ ClosePrevious(t) \/ CloseFails(t) \/ Abort(t)
             \/ AbortFails(t)
             \/ Publish(t) \/ Answered(t) \/ AnswerFails(t) \/ Cleared(t) \/ ClearFails(t)
      PROVE Asked'
  <2>1. thread[t].pc \notin {"idle", "lock"}
    BY <1>8 DEF Built, BuildFails, ClosePrevious, CloseFails, Abort, AbortFails, Publish, Answered,
                AnswerFails, Cleared, ClearFails, At
  <2>2. \/ Goto(t, "close") \/ Goto(t, "closed") \/ Goto(t, "abort")
        \/ \E r : Return(t, r)
    BY <1>8 DEF Built, BuildFails, ClosePrevious, CloseFails, Abort, AbortFails, Publish, Answered,
                AnswerFails, Cleared, ClearFails
  <2> QED BY <1>2, <1>3, <1>7, <2>1, <2>2
<1>9. ASSUME NEW t \in Threads, Interrupt(t) PROVE Asked'
  <2>1. CASE InterruptTry(t)
    <3>1. thread[t].pc \notin {"idle", "lock"}
      BY <2>1 DEF InterruptTry, At
    <3> QED BY <1>2, <1>3, <1>7, <2>1, <3>1 DEF InterruptTry
  <2>2. CASE InterruptCall(t)
    <3>1. thread'[t].pc = "idle" /\ \A u \in Threads \ {t} : thread'[u] = thread[u]
      BY <2>2 DEF InterruptCall, Return, TypeOK, NoCall
    <3>2. engine' = engine
      BY <1>9 DEF Interrupt
    <3> QED BY <3>1, <3>2 DEF Asked
  <2> QED BY <1>9, <2>1, <2>2 DEF Interrupt
<1>10. CASE EndpointDown \/ EndpointUp \/ UNCHANGED vars
  BY <1>10 DEF EndpointDown, EndpointUp, vars, Asked
<1> QED
  BY <1>1, <1>4, <1>5, <1>6, <1>8, <1>9, <1>10 DEF Next, Step, Acquire
-----------------------------------------------------------------------------
LEMMA PlaceStep == IInv /\ [Next]_vars /\ ~interrupted' => Placed'
<1> SUFFICES ASSUME IInv, [Next]_vars, ~interrupted' PROVE Placed'
  OBVIOUS
<1> USE PublicApiAssumption
<1>a. ~interrupted
  BY DEF Next, Step, Acquire, Begin, AcquireInitialize, RefuseQuestion, AcquireQuestion,
         AcquireReset, Built, BuildFails, ClosePrevious, CloseFails, Abort, AbortFails, Publish,
         Answered,
         AnswerFails, Cleared, ClearFails, Interrupt, EndpointDown, EndpointUp, vars
<1>0. TypeOK /\ LockHeld /\ Indices /\ PublishedIsOpen /\ \A t \in Threads : Place(t)
  BY <1>a DEF IInv, Placed
(* Steps of threads outside the lock that stay outside. *)
<1>1. ASSUME NEW t \in Threads, NEW folder, NEW remote, NEW op, Begin(t, op, folder, remote)
      PROVE Placed'
  <2>1. Place(t)'
    BY <1>1, <1>0 DEF Begin, TypeOK, NoCall, Place
  <2>2. ASSUME NEW u \in Threads \ {t} PROVE Place(u)'
    BY <1>1, <1>0 DEF Begin, Place, IsOpen
  <2>3. PublishedIsOpen'
    BY <1>1, <1>0 DEF Begin, PublishedIsOpen, LockFree
  <2> QED BY <2>1, <2>2, <2>3 DEF Placed
<1>2. ASSUME NEW t \in Threads, RefuseQuestion(t) PROVE Placed'
  <2>1. lock = NoThread /\ \A u \in Threads \ {t} : thread'[u] = thread[u]
    BY <1>2, <1>0 DEF RefuseQuestion, Return, LockFree, TypeOK
  <2>2. Place(t)'
    BY <1>2, <1>0 DEF RefuseQuestion, Return, TypeOK, NoCall, Place
  <2>3. PublishedIsOpen'
    BY <1>2 DEF RefuseQuestion, PublishedIsOpen
  <2> QED BY <1>0, <2>1, <2>2, <2>3, Others DEF Placed
(* Steps that take the lock. *)
<1>3. ASSUME NEW t \in Threads, AcquireInitialize(t) PROVE Placed'
  <2>1. lock = NoThread /\ \A u \in Threads \ {t} : thread'[u] = thread[u]
    BY <1>3, <1>0 DEF AcquireInitialize, LockFree, TypeOK
  <2>2. built + 1 \in 1..MaxCalls /\ built + 1 # engine
    BY <1>3, <1>0 DEF AcquireInitialize, TypeOK, Indices
  <2>3. engine = 0 \/ IsOpen(engine)
    BY <2>1, <1>0, <1>a DEF PublishedIsOpen, LockFree, IsOpen
  <2>4. /\ engine = 0 \/ engines'[engine].store = "open"
        /\ engines'[built + 1].store = "open"
    <3>1. \A e \in 1..MaxCalls :
            engines'[e] = IF e = built + 1 THEN [folder |-> thread[t].folder, store |-> "open"]
                          ELSE engines[e]
      BY <1>3, <1>0, <2>2 DEF AcquireInitialize, TypeOK
    <3>2. engine = 0 \/ (engine \in 1..MaxCalls /\ engines[engine].store = "open")
      BY <1>0, <2>3 DEF IsOpen, TypeOK
    <3> QED BY <2>2, <3>1, <3>2
  <2>5. thread[t] \in Call
    BY <1>0 DEF TypeOK
  <2>6. /\ thread'[t].pc = "build" /\ thread'[t].previous = engine
        /\ thread'[t].replacement = built + 1 /\ engine' = engine
    BY <1>3, <1>0, <2>5 DEF AcquireInitialize, TypeOK, Call
  <2>7. Place(t)'
    BY <2>2, <2>4, <2>6 DEF Place, IsOpen
  <2>8. PublishedIsOpen'
    BY <1>3 DEF AcquireInitialize, PublishedIsOpen, LockFree
  <2> QED BY <1>0, <2>1, <2>7, <2>8, Others DEF Placed
<1>4. ASSUME NEW t \in Threads, AcquireQuestion(t) PROVE Placed'
  <2>1. lock = NoThread /\ \A u \in Threads \ {t} : thread'[u] = thread[u]
    BY <1>4, <1>0 DEF AcquireQuestion, Goto, LockFree, TypeOK
  <2>2. thread'[t].pc = "ask" /\ IsOpen(engine)'
    BY <1>4, <1>0, <1>a DEF AcquireQuestion, Goto, TypeOK, Call, PublishedIsOpen, IsOpen
  <2>3. Place(t)'
    BY <1>4, <2>2 DEF AcquireQuestion, Place
  <2>4. PublishedIsOpen'
    BY <1>4 DEF AcquireQuestion, PublishedIsOpen, LockFree
  <2> QED BY <1>0, <2>1, <2>3, <2>4, Others DEF Placed
<1>5. ASSUME NEW t \in Threads, AcquireReset(t) PROVE Placed'
  <2>1. lock = NoThread /\ \A u \in Threads \ {t} : thread'[u] = thread[u]
    BY <1>5, <1>0 DEF AcquireReset, LockFree, TypeOK
  <2>2. thread'[t].pc = "clear" /\ engine' = 0
    BY <1>5, <1>0 DEF AcquireReset, TypeOK, Call
  <2>3. Place(t)' /\ PublishedIsOpen'
    BY <2>2 DEF Place, PublishedIsOpen
  <2> QED BY <1>0, <2>1, <2>3, Others DEF Placed
(* Steps of the holder. *)
<1>6. ASSUME NEW t \in Threads, thread[t].pc \notin {"idle", "lock"} PROVE lock = t
  BY <1>6, <1>0 DEF LockHeld
<1>7. ASSUME NEW t \in Threads, NEW pc, Goto(t, pc), thread[t].pc \notin {"idle", "lock"},
             UNCHANGED lock, Place(t)'
      PROVE Placed'
  <2>1. \A u \in Threads \ {t} : thread'[u] = thread[u]
    BY <1>7, <1>0 DEF Goto, TypeOK
  <2>2. PublishedIsOpen'
    BY <1>6, <1>7 DEF PublishedIsOpen, LockFree
  <2> QED BY <1>0, <1>6, <1>7, <2>1, <2>2, Others DEF Placed
<1>8. ASSUME NEW t \in Threads, NEW r, Return(t, r), thread[t].pc \notin {"idle", "lock"},
             (engine = 0 \/ IsOpen(engine))'
      PROVE Placed'
  <2>1. \A u \in Threads \ {t} : thread'[u] = thread[u]
    BY <1>8, <1>0 DEF Return, TypeOK
  <2>2. Place(t)'
    BY <1>8, <1>0 DEF Return, TypeOK, NoCall, Place
  <2>3. PublishedIsOpen'
    BY <1>8 DEF PublishedIsOpen, IsOpen
  <2> QED BY <1>0, <1>6, <1>8, <2>1, <2>2, <2>3, Others DEF Placed
<1>9. ASSUME NEW t \in Threads, Built(t) PROVE Placed'
  <2>1. Place(t)'
    BY <1>9, <1>0 DEF Built, Goto, At, Place, IsOpen, TypeOK, Call
  <2> QED BY <1>9, <2>1, <1>7 DEF Built, At
<1>10. ASSUME NEW t \in Threads, BuildFails(t) PROVE Placed'
  <2>1. (engine = 0 \/ IsOpen(engine))'
    BY <1>10, <1>0 DEF BuildFails, At, Place, IsOpen, SetStore, TypeOK
  <2> QED BY <1>10, <2>1, <1>8 DEF BuildFails, At
<1>11. ASSUME NEW t \in Threads, ClosePrevious(t) PROVE Placed'
  <2>1. /\ thread[t].previous = engine /\ thread[t].replacement # engine
        /\ IsOpen(thread[t].replacement)
    BY <1>11, <1>0 DEF ClosePrevious, At, Place
  <2>2. /\ thread'[t].pc = "closed" /\ thread'[t].replacement = thread[t].replacement
    BY <1>11, <1>0 DEF ClosePrevious, Goto, TypeOK, Call
  <2>3. thread[t].replacement \in 1..MaxCalls /\ engines'[thread[t].replacement].store = "open"
    <3>1. thread[t].replacement \in 1..MaxCalls /\ engines[thread[t].replacement].store = "open"
      BY <1>0, <2>1 DEF IsOpen, TypeOK, Call
    <3>2. CASE thread[t].previous = 0
      BY <1>11, <3>1, <3>2 DEF ClosePrevious
    <3>3. CASE thread[t].previous # 0
      BY <1>11, <1>0, <2>1, <3>1, <3>3 DEF ClosePrevious, SetStore, TypeOK
    <3> QED BY <3>1, <3>2, <3>3
  <2>4. Place(t)'
    BY <2>2, <2>3 DEF Place, IsOpen
  <2> QED BY <1>11, <2>4, <1>7 DEF ClosePrevious, At
<1>12. ASSUME NEW t \in Threads, CloseFails(t) PROVE Placed'
  <2>1. Place(t)'
    BY <1>12, <1>0 DEF CloseFails, Goto, At, Place, IsOpen, TypeOK, Call
  <2> QED BY <1>12, <2>1, <1>7 DEF CloseFails, At
<1>13. ASSUME NEW t \in Threads, Abort(t) \/ AbortFails(t) PROVE Placed'
  <2>1. (engine = 0 \/ IsOpen(engine))'
    BY <1>13, <1>0 DEF Abort, AbortFails, At, Place, IsOpen, SetStore, TypeOK
  <2> QED BY <1>13, <2>1, <1>8 DEF Abort, AbortFails, At
<1>14. ASSUME NEW t \in Threads, Publish(t) PROVE Placed'
  <2>1. IsOpen(engine)'
    BY <1>14, <1>0 DEF Publish, At, Place, IsOpen
  <2> QED BY <1>14, <2>1, <1>8 DEF Publish, At
<1>15. ASSUME NEW t \in Threads, Answered(t) \/ AnswerFails(t) PROVE Placed'
  <2>1. IsOpen(engine)'
    BY <1>15, <1>0 DEF Answered, AnswerFails, At, Place, IsOpen
  <2> QED BY <1>15, <2>1, <1>8 DEF Answered, AnswerFails, At
<1>16. ASSUME NEW t \in Threads, Cleared(t) \/ ClearFails(t) PROVE Placed'
  <2>1. engine' = 0
    BY <1>16, <1>0 DEF Cleared, ClearFails, At, Place
  <2> QED BY <1>16, <2>1, <1>8 DEF Cleared, ClearFails, At
<1>17. ASSUME NEW t \in Threads, Interrupt(t) PROVE FALSE
  BY <1>17 DEF Interrupt
<1>18. CASE EndpointDown \/ EndpointUp \/ UNCHANGED vars
  BY <1>18, <1>0 DEF EndpointDown, EndpointUp, vars, Placed, Place, IsOpen, PublishedIsOpen, LockFree
<1> QED
  BY <1>1, <1>2, <1>3, <1>4, <1>5, <1>9, <1>10, <1>11, <1>12, <1>13, <1>14, <1>15, <1>16, <1>17,
     <1>18 DEF Next, Step, Acquire
-----------------------------------------------------------------------------
LEMMA Invariant == Spec => []IInv
<1>1. Init => IInv
  BY InitIInv
<1>2. IInv /\ [Next]_vars => IInv'
  BY TypeStep, LockStep, FolderStep, IndexStep, AskStep, PlaceStep DEF IInv
<1> QED
  BY <1>1, <1>2, PTL DEF Spec

(* Every variable has its type whatever the calls do. *)
THEOREM TypeCorrect == Spec => []TypeOK
<1>1. IInv => TypeOK
  BY DEF IInv
<1> QED
  BY <1>1, Invariant, PTL

(* Between calls the published engine is open (initialize publishes what it
   built, and closes what it replaced).                                     *)
THEOREM Published == Spec => []PublishedIsOpen
<1>1. IInv => PublishedIsOpen
  BY DEF IInv, Placed, PublishedIsOpen
<1> QED
  BY <1>1, Invariant, PTL

(* No thread closes the engine another one is asking (question holds the
   lock for the whole answer).                                              *)
THEOREM UsedOpen == Spec => []NeverUsedClosed
<1>1. IInv => NeverUsedClosed
  BY DEF IInv, Placed, NeverUsedClosed, Place, IsOpen, At
<1> QED
  BY <1>1, Invariant, PTL

(* Every with statement gives the lock back, whichever way it is left: its   *)
(* owner, if it has one, is a call inside, and nobody else is.               *)
THEOREM LockIsHeld == Spec => []LockHeld
<1>1. IInv => LockHeld
  BY DEF IInv
<1> QED
  BY <1>1, Invariant, PTL
-----------------------------------------------------------------------------
(* Stores are not leaked.                                                   *)

(* The stores a call has in hand: those of initialize are closed or
   published by its end, that of _reset is closed.                          *)
Owns(t, e) ==
  \/ thread[t].pc \in {"build", "close", "closed", "abort"} /\ e = thread[t].replacement
  \/ thread[t].pc = "clear" /\ e = thread[t].previous

Accounted ==
  /\ \A e \in 1..MaxCalls :
       engines[e].store = "open" => e = engine \/ \E t \in Threads : Owns(t, e)
  /\ \A t \in Threads :
       thread[t].pc = "closed" => ~IsOpen(engine)

Tidy == ~interrupted => Accounted

(* What a thread's own fields say of its call, interrupted or not. *)
CallKnown(t) ==
  LET me == thread[t] IN
  /\ me.pc = "idle" => me = NoCall
  /\ me.pc = "lock" => me.op # "none"
  /\ me.pc \in {"build", "close", "closed", "abort"} =>
       /\ me.op = "initialize"
       /\ me.replacement # 0
       /\ engines[me.replacement].folder = me.folder
  /\ me.pc = "ask" => me.op = "question"
  /\ me.pc = "clear" => me.op = "reset" /\ engine = 0
CallsKnown == \A t \in Threads : CallKnown(t)

(* What every step of a thread leaves alone: the fields of the others, and,
   while another thread holds the lock, the engines.                        *)
Leaves(t) ==
  /\ \A u \in Threads \ {t} : thread'[u] = thread[u]
  /\ lock \in {t, NoThread} \/ UNCHANGED <<engine, engines>>

LEMMA StepLeaves ==
  ASSUME TypeOK, LockHeld, NEW t \in Threads,
         \/ \E op, folder, remote : Begin(t, op, folder, remote)
         \/ Step(t) \/ BuildFails(t) \/ CloseFails(t) \/ AbortFails(t) \/ AnswerFails(t)
         \/ ClearFails(t)
         \/ Interrupt(t)
  PROVE  Leaves(t)
<1>1. thread[t].pc \notin {"idle", "lock"} => lock = t
  BY DEF LockHeld
<1>2. ASSUME NEW pc, Goto(t, pc) PROVE \A u \in Threads \ {t} : thread'[u] = thread[u]
  BY <1>2 DEF Goto, TypeOK
<1>3. ASSUME NEW r, Return(t, r) PROVE \A u \in Threads \ {t} : thread'[u] = thread[u]
  BY <1>3 DEF Return, TypeOK
<1>4. ASSUME NEW op, NEW folder, NEW remote, Begin(t, op, folder, remote) PROVE Leaves(t)
  BY <1>4 DEF Begin, Leaves, TypeOK
<1>5. CASE AcquireInitialize(t)
  BY <1>5 DEF AcquireInitialize, Leaves, LockFree, TypeOK
<1>6. CASE AcquireReset(t)
  BY <1>6 DEF AcquireReset, Leaves, LockFree, TypeOK
<1>7. CASE AcquireQuestion(t) \/ RefuseQuestion(t)
  BY <1>7, <1>2, <1>3 DEF AcquireQuestion, RefuseQuestion, Leaves, LockFree
<1>8. CASE Built(t) \/ ClosePrevious(t) \/ CloseFails(t)
  BY <1>8, <1>1, <1>2 DEF Built, ClosePrevious, CloseFails, Leaves, At
<1>9. CASE \/ BuildFails(t) \/ Abort(t) \/ AbortFails(t) \/ Publish(t) \/ Answered(t)
           \/ AnswerFails(t)
           \/ Cleared(t) \/ ClearFails(t)
  BY <1>9, <1>1, <1>3
     DEF BuildFails, Abort, AbortFails, Publish, Answered, AnswerFails, Cleared, ClearFails,
         Leaves, At
<1>10. CASE Interrupt(t)
  <2>1. CASE InterruptTry(t)
    BY <2>1, <1>1, <1>2 DEF InterruptTry, Leaves, At
  <2>2. CASE InterruptCall(t)
    <3>1. lock = t \/ UNCHANGED engines
      BY <2>2, <1>1 DEF InterruptCall, At
    <3> QED BY <1>10, <2>2, <3>1, <1>3 DEF Interrupt, InterruptCall, Leaves
  <2> QED BY <1>10, <2>1, <2>2 DEF Interrupt
<1> QED
  BY <1>4, <1>5, <1>6, <1>7, <1>8, <1>9, <1>10 DEF Step, Acquire

LEMMA KnownOthers ==
  ASSUME LockHeld, CallsKnown, NEW t \in Threads, Leaves(t)
  PROVE  \A u \in Threads \ {t} : CallKnown(u)'
<1> TAKE u \in Threads \ {t}
<1>1. CallKnown(u) /\ thread'[u] = thread[u]
  BY DEF CallsKnown, Leaves
<1>2. CASE lock \in {t, NoThread}
  <2>1. thread[u].pc \in {"idle", "lock"}
    BY <1>2, PublicApiAssumption DEF LockHeld
  <2> QED BY <1>1, <2>1 DEF CallKnown
<1>3. CASE UNCHANGED <<engine, engines>>
  BY <1>1, <1>3 DEF CallKnown
<1> QED BY <1>2, <1>3 DEF Leaves

LEMMA StoreKeepsFolder ==
  ASSUME engines \in [1..MaxCalls -> Engine], NEW n, NEW store, SetStore(n, store)
  PROVE  \A e \in 1..MaxCalls : engines'[e].folder = engines[e].folder
<1> TAKE e \in 1..MaxCalls
<1>1. engines'[e] = IF e = n THEN [engines[e] EXCEPT !.store = store] ELSE engines[e]
  BY DEF SetStore
<1>2. engines[e] \in Engine
  OBVIOUS
<1> QED BY <1>1, <1>2 DEF Engine

LEMMA KnownStep == TypeOK /\ LockHeld /\ Indices /\ CallsKnown /\ [Next]_vars => CallsKnown'
<1> SUFFICES ASSUME TypeOK, LockHeld, Indices, CallsKnown, [Next]_vars PROVE CallsKnown'
  OBVIOUS
<1> USE PublicApiAssumption
<1>1. ASSUME NEW t \in Threads, CallKnown(t)', Leaves(t) PROVE CallsKnown'
  BY <1>1, KnownOthers DEF CallsKnown
<1>2. ASSUME NEW t \in Threads PROVE CallKnown(t) /\ thread[t] \in Call
  BY DEF CallsKnown, TypeOK
<1>3. ASSUME NEW t \in Threads, NEW op, NEW folder, NEW remote, Begin(t, op, folder, remote),
             op # "none"
      PROVE CallKnown(t)'
  BY <1>3 DEF Begin, TypeOK, CallKnown, NoCall
<1>4. ASSUME NEW t \in Threads, NEW r, Return(t, r) PROVE CallKnown(t)'
  BY <1>4 DEF Return, TypeOK, CallKnown, NoCall
<1>5. ASSUME NEW t \in Threads, AcquireInitialize(t) PROVE CallKnown(t)'
  <2>1. built + 1 \in 1..MaxCalls
    BY <1>5 DEF AcquireInitialize, TypeOK
  <2>2. engines'[built + 1].folder = thread[t].folder
    BY <1>5, <2>1 DEF AcquireInitialize, TypeOK
  <2>3. /\ thread'[t].pc = "build" /\ thread'[t].op = "initialize"
        /\ thread'[t].folder = thread[t].folder /\ thread'[t].replacement = built + 1
    BY <1>5, <1>2 DEF AcquireInitialize, TypeOK, At, Call
  <2> QED BY <2>1, <2>2, <2>3 DEF CallKnown
<1>6. ASSUME NEW t \in Threads, AcquireReset(t) PROVE CallKnown(t)'
  BY <1>6, <1>2 DEF AcquireReset, TypeOK, At, Call, CallKnown
<1>7. ASSUME NEW t \in Threads, AcquireQuestion(t) PROVE CallKnown(t)'
  BY <1>7, <1>2 DEF AcquireQuestion, Goto, TypeOK, At, Call, CallKnown
(* An initialization that goes on keeps its replacement's folder. *)
<1>8. ASSUME NEW t \in Threads, NEW pc \in {"close", "closed", "abort"}, Goto(t, pc),
             thread[t].pc \in {"build", "close", "closed"},
             UNCHANGED engines \/ (\E store : SetStore(thread[t].previous, store))
      PROVE CallKnown(t)'
  <2>1. /\ thread'[t].pc = pc /\ thread'[t].op = thread[t].op
        /\ thread'[t].folder = thread[t].folder /\ thread'[t].replacement = thread[t].replacement
    BY <1>8, <1>2 DEF Goto, TypeOK, Call
  <2>2. \A e \in 1..MaxCalls : engines'[e].folder = engines[e].folder
    BY <1>8, StoreKeepsFolder DEF TypeOK
  <2>3. thread[t].replacement # 0 => thread[t].replacement \in 1..MaxCalls
    BY <1>2 DEF Call
  <2> QED BY <1>2, <1>8, <2>1, <2>2, <2>3 DEF CallKnown
<1>9. ASSUME NEW t \in Threads, Built(t) \/ ClosePrevious(t) \/ CloseFails(t) PROVE CallKnown(t)'
  BY <1>8, <1>9 DEF Built, ClosePrevious, CloseFails, At
<1>10. ASSUME NEW t \in Threads,
              \/ RefuseQuestion(t) \/ BuildFails(t) \/ Abort(t) \/ AbortFails(t) \/ Publish(t)
              \/ Answered(t)
              \/ AnswerFails(t) \/ Cleared(t) \/ ClearFails(t)
       PROVE CallKnown(t)'
  BY <1>4, <1>10 DEF RefuseQuestion, BuildFails, Abort, AbortFails, Publish, Answered,
                     AnswerFails, Cleared,
                     ClearFails
<1>11. ASSUME NEW t \in Threads, Interrupt(t) PROVE CallKnown(t)'
  BY <1>4, <1>8, <1>11 DEF Interrupt, InterruptTry, InterruptCall, At
<1>12. CASE EndpointDown \/ EndpointUp \/ UNCHANGED vars
  BY <1>12 DEF EndpointDown, EndpointUp, vars, CallsKnown, CallKnown
<1> QED
  BY <1>1, <1>3, <1>5, <1>6, <1>7, <1>9, <1>10, <1>11, <1>12, StepLeaves DEF Next, Step, Acquire

LEMMA TidyStep == IInv /\ Tidy /\ CallsKnown /\ [Next]_vars => Tidy'
<1> SUFFICES ASSUME IInv, Tidy, CallsKnown, [Next]_vars, ~interrupted' PROVE Accounted'
  BY DEF Tidy
<1> USE PublicApiAssumption
<1>a. ~interrupted
  BY DEF Next, Step, Acquire, Begin, AcquireInitialize, RefuseQuestion, AcquireQuestion,
         AcquireReset, Built, BuildFails, ClosePrevious, CloseFails, Abort, AbortFails, Publish,
         Answered,
         AnswerFails, Cleared, ClearFails, Interrupt, EndpointDown, EndpointUp, vars
<1>0. /\ TypeOK /\ LockHeld /\ Indices /\ Accounted /\ PublishedIsOpen
      /\ \A t \in Threads : Place(t) /\ thread[t] \in Call
  BY <1>a DEF IInv, Placed, Tidy, TypeOK
(* What is open before the step of a thread with the lock, or about to take it. *)
<1>1. ASSUME NEW t \in Threads, lock \in {t, NoThread}, NEW e \in 1..MaxCalls,
             engines[e].store = "open", e # engine
      PROVE Owns(t, e)
  <2>1. \A u \in Threads \ {t} : thread[u].pc \in {"idle", "lock"}
    BY <1>0, <1>1 DEF LockHeld
  <2> QED BY <1>0, <1>1, <2>1 DEF Accounted, Owns
<1>2. ASSUME NEW t \in Threads, lock \in {t, NoThread}, Leaves(t),
             \A e \in 1..MaxCalls : engines'[e].store = "open" => e = engine' \/ Owns(t, e)',
             thread'[t].pc = "closed" => ~IsOpen(engine)'
      PROVE Accounted'
  <2>1. \A u \in Threads \ {t} : thread'[u].pc # "closed"
    BY <1>0, <1>2 DEF LockHeld, Leaves
  <2> QED BY <1>2, <2>1 DEF Accounted
<1>3. ASSUME NEW t \in Threads, thread[t].pc \notin {"idle", "lock"} PROVE lock = t
  BY <1>0, <1>3 DEF LockHeld
<1>4. ASSUME NEW t \in Threads, NEW r, Return(t, r) PROVE thread'[t] = NoCall
  BY <1>0, <1>4 DEF Return, TypeOK
<1>5. ASSUME NEW t \in Threads, NEW pc, Goto(t, pc)
      PROVE /\ thread'[t].pc = pc
            /\ thread'[t].previous = thread[t].previous
            /\ thread'[t].replacement = thread[t].replacement
  <2>1. thread'[t] = [thread[t] EXCEPT !.pc = pc] /\ thread[t] \in Call
    BY <1>0, <1>5 DEF Goto, TypeOK
  <2> QED BY <2>1 DEF Call
<1>6. ASSUME NEW n \in 0..MaxCalls, NEW store, store # "open", n = 0 \/ SetStore(n, store),
             n = 0 => UNCHANGED engines
      PROVE \A e \in 1..MaxCalls :
              engines'[e].store = "open" <=> engines[e].store = "open" /\ e # n
  <2>1. CASE n = 0
    BY <1>6, <2>1
  <2>2. CASE n # 0
    BY <1>0, <1>6, <2>2 DEF SetStore, TypeOK, Engine
  <2> QED BY <2>1, <2>2
<1>7. ASSUME NEW t \in Threads, NEW op, NEW folder, NEW remote, Begin(t, op, folder, remote)
      PROVE Accounted'
  <2>1. /\ \A u \in Threads \ {t} : thread'[u] = thread[u]
        /\ thread[t].pc = "idle" /\ thread'[t].pc = "lock"
    BY <1>7, <1>0 DEF Begin, TypeOK, At, NoCall
  <2> QED BY <1>7, <1>0, <2>1 DEF Begin, Accounted, Owns, IsOpen
<1>8. ASSUME NEW t \in Threads, AcquireInitialize(t) PROVE Accounted'
  <2>1. lock = NoThread /\ Leaves(t)
    BY <1>8, <1>0, StepLeaves DEF AcquireInitialize, LockFree, Step, Acquire
  <2>2. thread'[t].pc = "build" /\ thread'[t].replacement = built + 1 /\ engine' = engine
    BY <1>8, <1>0 DEF AcquireInitialize, TypeOK, Call
  <2>3. \A e \in 1..MaxCalls : e # built + 1 => engines'[e] = engines[e]
    BY <1>8, <1>0 DEF AcquireInitialize, TypeOK
  <2>4. \A e \in 1..MaxCalls : ~Owns(t, e)
    BY <1>8 DEF AcquireInitialize, At, Owns
  <2> QED BY <1>1, <1>2, <2>1, <2>2, <2>3, <2>4 DEF Owns
<1>9. ASSUME NEW t \in Threads, AcquireQuestion(t) \/ RefuseQuestion(t) PROVE Accounted'
  <2>1. lock = NoThread /\ Leaves(t)
    BY <1>9, <1>0, StepLeaves DEF AcquireQuestion, RefuseQuestion, LockFree, Step, Acquire
  <2>2. thread'[t].pc # "closed" /\ UNCHANGED <<engine, engines>>
    BY <1>4, <1>5, <1>9, <1>0 DEF AcquireQuestion, RefuseQuestion, NoCall, Call
  <2>3. \A e \in 1..MaxCalls : ~Owns(t, e)
    BY <1>9 DEF AcquireQuestion, RefuseQuestion, At, Owns
  <2> QED BY <1>1, <1>2, <2>1, <2>2, <2>3
<1>10. ASSUME NEW t \in Threads, AcquireReset(t) PROVE Accounted'
  <2>1. lock = NoThread /\ Leaves(t)
    BY <1>10, <1>0, StepLeaves DEF AcquireReset, LockFree, Step, Acquire
  <2>2. thread'[t].pc = "clear" /\ thread'[t].previous = engine /\ UNCHANGED engines
    BY <1>10, <1>0 DEF AcquireReset, TypeOK, Call
  <2>3. \A e \in 1..MaxCalls : ~Owns(t, e)
    BY <1>10 DEF AcquireReset, At, Owns
  <2> QED BY <1>1, <1>2, <2>1, <2>2, <2>3 DEF Owns
<1>11. ASSUME NEW t \in Threads, Built(t) PROVE Accounted'
  <2>1. lock = t /\ Leaves(t)
    BY <1>11, <1>0, <1>3, StepLeaves DEF Built, Step, At
  <2>2. thread'[t].pc = "close" /\ thread'[t].replacement = thread[t].replacement
    BY <1>11, <1>0, <1>5 DEF Built, Call
  <2> QED BY <1>1, <1>2, <1>11, <2>1, <2>2 DEF Built, At, Owns
<1>12. ASSUME NEW t \in Threads, BuildFails(t) \/ Abort(t) \/ AbortFails(t) PROVE Accounted'
  <2>1. lock = t /\ Leaves(t)
    BY <1>12, <1>0, <1>3, StepLeaves DEF BuildFails, Abort, AbortFails, Step, At
  <2>2. thread'[t].pc = "idle" /\ engine' = engine
    BY <1>12, <1>4 DEF BuildFails, Abort, AbortFails, NoCall
  <2>3. \A e \in 1..MaxCalls :
          engines'[e].store = "open" => engines[e].store = "open" /\ e # thread[t].replacement
    BY <1>6, <1>12, <1>0 DEF BuildFails, Abort, AbortFails, At, Place, Call
  <2>4. \A e \in 1..MaxCalls : Owns(t, e) => e = thread[t].replacement
    BY <1>12 DEF BuildFails, Abort, AbortFails, At, Owns
  <2> QED BY <1>1, <1>2, <2>1, <2>2, <2>3, <2>4
<1>13. ASSUME NEW t \in Threads, ClosePrevious(t) PROVE Accounted'
  <2>1. lock = t /\ Leaves(t)
    BY <1>13, <1>0, <1>3, StepLeaves DEF ClosePrevious, Step, At
  <2>2. /\ thread'[t].pc = "closed" /\ thread'[t].replacement = thread[t].replacement
        /\ engine' = engine /\ thread[t].previous = engine
    BY <1>13, <1>0, <1>5 DEF ClosePrevious, At, Place, Call
  <2>3. \A e \in 1..MaxCalls :
          engines'[e].store = "open" <=> engines[e].store = "open" /\ e # thread[t].previous
    <3>1. thread[t].previous \in 0..MaxCalls
      BY <1>0 DEF Call
    <3> QED BY <1>6, <1>13, <3>1 DEF ClosePrevious
  <2>4. ~IsOpen(engine)'
    BY <1>0, <2>2, <2>3 DEF IsOpen, TypeOK
  <2>5. \A e \in 1..MaxCalls : Owns(t, e) => Owns(t, e)'
    BY <1>13, <2>2 DEF ClosePrevious, At, Owns
  <2> QED BY <1>1, <1>2, <2>1, <2>2, <2>3, <2>4, <2>5
<1>14. ASSUME NEW t \in Threads, CloseFails(t) PROVE Accounted'
  <2>1. lock = t /\ Leaves(t)
    BY <1>14, <1>0, <1>3, StepLeaves DEF CloseFails, At
  <2>2. thread'[t].pc = "abort" /\ thread'[t].replacement = thread[t].replacement
    BY <1>14, <1>0, <1>5 DEF CloseFails, Call
  <2> QED BY <1>1, <1>2, <1>14, <2>1, <2>2 DEF CloseFails, At, Owns
<1>15. ASSUME NEW t \in Threads, Publish(t) PROVE Accounted'
  <2>1. lock = t /\ Leaves(t)
    BY <1>15, <1>0, <1>3, StepLeaves DEF Publish, Step, At
  <2>2. /\ thread'[t].pc = "idle" /\ engine' = thread[t].replacement /\ UNCHANGED engines
        /\ ~IsOpen(engine)
    BY <1>15, <1>0, <1>4 DEF Publish, NoCall, Accounted, At
  <2>3. \A e \in 1..MaxCalls : engines[e].store = "open" => e # engine
    BY <2>2 DEF IsOpen
  <2> QED BY <1>1, <1>2, <1>15, <2>1, <2>2, <2>3 DEF Publish, At, Owns
<1>16. ASSUME NEW t \in Threads, Answered(t) \/ AnswerFails(t) PROVE Accounted'
  <2>1. lock = t /\ Leaves(t)
    BY <1>16, <1>0, <1>3, StepLeaves DEF Answered, AnswerFails, Step, At
  <2>2. thread'[t].pc = "idle" /\ UNCHANGED <<engine, engines>>
    BY <1>16, <1>4 DEF Answered, AnswerFails, NoCall
  <2> QED BY <1>1, <1>2, <1>16, <2>1, <2>2 DEF Answered, AnswerFails, At, Owns
<1>17. ASSUME NEW t \in Threads, Cleared(t) \/ ClearFails(t) PROVE Accounted'
  <2>1. lock = t /\ Leaves(t)
    BY <1>17, <1>0, <1>3, StepLeaves DEF Cleared, ClearFails, Step, At
  <2>2. thread'[t].pc = "idle" /\ engine' = engine
    BY <1>17, <1>4 DEF Cleared, ClearFails, NoCall
  <2>3. \A e \in 1..MaxCalls :
          engines'[e].store = "open" => engines[e].store = "open" /\ e # thread[t].previous
    <3>1. thread[t].previous \in 0..MaxCalls
      BY <1>0 DEF Call
    <3> QED BY <1>6, <1>17, <3>1 DEF Cleared, ClearFails
  <2> QED BY <1>1, <1>2, <1>17, <2>1, <2>2, <2>3 DEF Cleared, ClearFails, At, Owns
<1>18. ASSUME NEW t \in Threads, Interrupt(t) PROVE FALSE
  BY <1>18 DEF Interrupt
<1>19. CASE EndpointDown \/ EndpointUp \/ UNCHANGED vars
  BY <1>19, <1>0 DEF EndpointDown, EndpointUp, vars, Accounted, Owns, IsOpen
<1> QED
  BY <1>7, <1>8, <1>9, <1>10, <1>11, <1>12, <1>13, <1>14, <1>15, <1>16, <1>17, <1>18, <1>19
     DEF Next, Step, Acquire

LEMMA Known == Spec => [](IInv /\ Tidy /\ CallsKnown)
<1>1. Init => Tidy /\ CallsKnown
  BY DEF Init, Tidy, Accounted, CallsKnown, CallKnown, NoCall, NoEngine
<1>2. IInv /\ CallsKnown /\ [Next]_vars => CallsKnown'
  BY KnownStep DEF IInv
<1> QED
  BY <1>1, <1>2, TidyStep, Invariant, PTL DEF Spec

(* Between calls no store but the published one is open: neither initialize
   nor _reset forgets one, whichever way it ends.                           *)
THEOREM NothingForgotten == Spec => []NoLeakedStore
<1>1. IInv /\ Tidy => NoLeakedStore
  BY PublicApiAssumption DEF IInv, Tidy, Accounted, Owns, LockHeld, NoLeakedStore, LockFree
<1> QED
  BY <1>1, Known, PTL
-----------------------------------------------------------------------------
(* The calls are those of KnowledgeBase.                                    *)

kbOf == FolderOf(Seen)
callOf == [t \in Threads |-> [op |-> thread[t].op, folder |-> thread[t].folder]]

(* There is one reset at most past its acquisition. *)
LEMMA SeenNow ==
  ASSUME LockHeld
  PROVE  /\ \A t \in Threads : At(t, "clear") => Seen = thread[t].previous
         /\ (\A t \in Threads : ~At(t, "clear")) => Seen = engine
<1>1. \A t, u \in Threads : At(t, "clear") /\ At(u, "clear") => t = u
  BY DEF LockHeld, At
<1>2. ASSUME NEW t \in Threads, At(t, "clear") PROVE Seen = thread[t].previous
  <2>1. \E u \in Threads : At(u, "clear")
    BY <1>2
  <2>2. (CHOOSE u \in Threads : At(u, "clear")) = t
    BY <1>1, <1>2, <2>1
  <2> QED BY <2>1, <2>2 DEF Seen, Clearing
<1> QED BY <1>2 DEF Seen, Clearing

LEMMA SeenThen ==
  ASSUME LockHeld'
  PROVE  /\ \A t \in Threads : At(t, "clear")' => Seen' = thread'[t].previous
         /\ (\A t \in Threads : ~At(t, "clear")') => Seen' = engine'
<1>1. \A t, u \in Threads : At(t, "clear")' /\ At(u, "clear")' => t = u
  BY DEF LockHeld, At
<1>2. ASSUME NEW t \in Threads, At(t, "clear")' PROVE Seen' = thread'[t].previous
  <2>1. \E u \in Threads : At(u, "clear")'
    BY <1>2
  <2>2. (CHOOSE u \in Threads : At(u, "clear")') = t
    BY <1>1, <1>2, <2>1
  <2> QED BY <2>1, <2>2 DEF Seen, Clearing
<1> QED BY <1>2 DEF Seen, Clearing

LEMMA SeenInEngines ==
  ASSUME TypeOK, LockHeld
  PROVE  Seen \in 0..MaxCalls
<1>1. \A t \in Threads : thread[t].previous \in 0..MaxCalls
  BY DEF TypeOK, Call
<1> QED BY <1>1, SeenNow DEF TypeOK

(* kb stays as it is when nobody clears or publishes, and no new engine is
   made under the index that is seen.                                       *)
LEMMA SeenStays ==
  ASSUME TypeOK, LockHeld, LockHeld', engine' = engine,
         \A t \in Threads : At(t, "clear")' <=> At(t, "clear"),
         \A t \in Threads : At(t, "clear") => thread'[t].previous = thread[t].previous,
         \A e \in 1..MaxCalls : e = Seen => engines'[e].folder = engines[e].folder
  PROVE  kbOf' = kbOf
<1>1. Seen' = Seen
  BY SeenNow, SeenThen
<1> QED BY <1>1, SeenInEngines DEF kbOf, FolderOf

LEMMA CallReturns ==
  ASSUME TypeOK, NEW t \in Threads, NEW r, Return(t, r)
  PROVE  /\ callOf' = [callOf EXCEPT ![t] = Abstract!Idle]
         /\ outcome' = [outcome EXCEPT ![t] = r]
  BY DEF TypeOK, Return, NoCall, callOf, Abstract!Idle

LEMMA CallStays ==
  ASSUME TypeOK, NEW t \in Threads, NEW pc, Goto(t, pc)
  PROVE  /\ callOf' = callOf
         /\ \A u \in Threads : thread'[u].previous = thread[u].previous
         /\ \A u \in Threads : thread'[u].pc = IF u = t THEN pc ELSE thread[u].pc
<1>1. \A u \in Threads :
        thread'[u] = (IF u = t THEN [thread[u] EXCEPT !.pc = pc] ELSE thread[u]) /\ thread[u] \in Call
  BY DEF TypeOK, Goto
<1>2. \A u \in Threads :
        /\ thread'[u].op = thread[u].op /\ thread'[u].folder = thread[u].folder
        /\ thread'[u].previous = thread[u].previous
        /\ thread'[u].pc = IF u = t THEN pc ELSE thread[u].pc
  BY <1>1 DEF Call
<1> QED BY <1>2 DEF callOf

LEMMA KnowledgeBaseStep ==
  IInv /\ LockHeld' /\ CallsKnown /\ [Next]_vars => [Abstract!Next]_(Abstract!vars)
<1> SUFFICES ASSUME IInv, LockHeld', CallsKnown, [Next]_vars
             PROVE  Abstract!Next \/ UNCHANGED <<kbOf, callOf, outcome>>
  BY DEF Abstract!vars, kbOf, callOf
<1> USE PublicApiAssumption
<1>0. /\ TypeOK /\ LockHeld /\ Indices /\ FoldersKnown /\ Asked
      /\ \A t \in Threads : CallKnown(t) /\ thread[t] \in Call
  BY DEF IInv, CallsKnown, TypeOK
<1>1. ASSUME NEW t \in Threads, thread[t].pc \notin {"idle", "lock"}
      PROVE  lock = t /\ \A u \in Threads \ {t} : thread[u].pc \in {"idle", "lock"}
  BY <1>0, <1>1 DEF LockHeld
<1>2. ASSUME LockFree PROVE Seen = engine /\ \A u \in Threads : ~At(u, "clear")
  BY <1>0, <1>2, SeenNow DEF LockHeld, LockFree, At
<1>3. ASSUME NEW t \in Threads,
             \/ callOf[t].op = "initialize" /\ kbOf' = callOf[t].folder
                  /\ outcome' = [outcome EXCEPT ![t] = "ok"]
             \/ callOf[t].op \in {"initialize", "question", "reset"} /\ kbOf' = kbOf
                  /\ outcome' = [outcome EXCEPT ![t] = "raised"]
             \/ callOf[t].op = "question" /\ kbOf' = kbOf /\ kbOf # NoFolder
                  /\ outcome' = [outcome EXCEPT ![t] = kbOf]
             \/ callOf[t].op = "reset" /\ kbOf' = NoFolder
                  /\ outcome' \in {[outcome EXCEPT ![t] = r] : r \in {"ok", "raised"}},
             callOf' = [callOf EXCEPT ![t] = Abstract!Idle]
      PROVE  Abstract!Next
  <2>1. Abstract!Initialize(t) \/ Abstract!Question(t) \/ Abstract!Reset(t)
    BY <1>3 DEF Abstract!Initialize, Abstract!Question, Abstract!Reset, Abstract!Return, kbOf, callOf
  <2> QED BY <2>1 DEF Abstract!Next
<1>4. ASSUME NEW t \in Threads
      PROVE  callOf[t].op = thread[t].op /\ callOf[t].folder = thread[t].folder
  BY DEF callOf
(* Steps that keep what is seen, and steps that only a caller sees. *)
<1>5. ASSUME NEW t \in Threads, NEW pc, Goto(t, pc), thread[t].pc # "clear", pc # "clear",
             engine' = engine, UNCHANGED engines \/ (\E n, store : SetStore(n, store))
      PROVE  UNCHANGED <<kbOf, callOf>>
  <2>1. \A e \in 1..MaxCalls : engines'[e].folder = engines[e].folder
    BY <1>0, <1>5, StoreKeepsFolder DEF TypeOK
  <2>2. \A u \in Threads : thread'[u].pc = "clear" <=> thread[u].pc = "clear"
    BY <1>5, <1>0, CallStays
  <2> QED BY <1>0, <1>5, <2>1, <2>2, CallStays, SeenStays DEF At
<1>6. ASSUME NEW t \in Threads, NEW r, Return(t, r), thread[t].pc # "clear", engine' = engine,
             UNCHANGED engines \/ (\E n, store : SetStore(n, store))
      PROVE  kbOf' = kbOf
  <2>1. \A e \in 1..MaxCalls : engines'[e].folder = engines[e].folder
    BY <1>0, <1>6, StoreKeepsFolder DEF TypeOK
  <2>2. \A u \in Threads : thread'[u] = IF u = t THEN NoCall ELSE thread[u]
    BY <1>6, <1>0 DEF Return, TypeOK
  <2>3. \A u \in Threads : /\ At(u, "clear")' <=> At(u, "clear")
                           /\ At(u, "clear") => thread'[u].previous = thread[u].previous
    BY <1>6, <2>2 DEF At, NoCall
  <2> QED BY <1>0, <1>6, <2>1, <2>3, SeenStays
<1>7. ASSUME NEW t \in Threads, thread[t].pc # "idle"
      PROVE  thread[t].op \in {"initialize", "question", "reset"}
  <2>1. thread[t].op # "none"
    BY <1>0, <1>7 DEF CallKnown, Call
  <2> QED BY <1>0, <2>1 DEF Call
<1>8. ASSUME NEW t \in Threads, Return(t, "raised"), thread[t].pc \notin {"idle", "clear"},
             engine' = engine, UNCHANGED engines \/ (\E n, store : SetStore(n, store))
      PROVE  Abstract!Next
  <2>1. /\ callOf' = [callOf EXCEPT ![t] = Abstract!Idle]
        /\ outcome' = [outcome EXCEPT ![t] = "raised"]
    BY <1>0, <1>8, CallReturns
  <2>2. callOf[t].op \in {"initialize", "question", "reset"} /\ kbOf' = kbOf
    BY <1>4, <1>6, <1>7, <1>8
  <2> QED BY <1>3, <2>1, <2>2
<1>9. ASSUME NEW t \in Threads, NEW op \in {"initialize", "question", "reset"},
             NEW folder \in Folders \cup {NoFolder}, NEW remote, Begin(t, op, folder, remote)
      PROVE Abstract!Next
  <2>1. \A u \in Threads :
          thread'[u] = IF u = t THEN [NoCall EXCEPT !.pc = "lock", !.op = op, !.folder = folder,
                                                    !.remote = remote]
                       ELSE thread[u]
    BY <1>9, <1>0 DEF Begin, TypeOK
  <2>2. callOf[t] = Abstract!Idle
    BY <1>9, <1>0 DEF Begin, At, CallKnown, NoCall, callOf, Abstract!Idle
  <2>3. callOf' = [callOf EXCEPT ![t] = [op |-> op, folder |-> folder]]
    BY <2>1 DEF NoCall, callOf
  <2>4. \A u \in Threads : /\ At(u, "clear")' <=> At(u, "clear")
                           /\ At(u, "clear") => thread'[u].previous = thread[u].previous
    BY <1>9, <2>1 DEF Begin, At, NoCall
  <2>5. kbOf' = kbOf /\ outcome' = outcome
    BY <1>0, <1>9, <2>4, SeenStays DEF Begin
  <2>6. Abstract!Ask(t, op, folder)
    BY <2>2, <2>3, <2>5 DEF Abstract!Ask, kbOf, callOf
  <2> QED BY <2>6 DEF Abstract!Next
<1>10. ASSUME NEW t \in Threads, AcquireInitialize(t) PROVE UNCHANGED <<kbOf, callOf, outcome>>
  <2>1. /\ \A u \in Threads : thread'[u].op = thread[u].op /\ thread'[u].folder = thread[u].folder
        /\ \A u \in Threads \ {t} : thread'[u] = thread[u]
        /\ thread'[t].pc = "build"
    <3>1. \A u \in Threads :
            thread'[u] = IF u = t THEN [thread[t] EXCEPT !.pc = "build", !.previous = engine,
                                                         !.replacement = built + 1]
                         ELSE thread[u]
      BY <1>10, <1>0 DEF AcquireInitialize, TypeOK
    <3>2. thread[t] \in Call
      BY <1>0
    <3>3. /\ thread'[t].op = thread[t].op /\ thread'[t].folder = thread[t].folder
          /\ thread'[t].pc = "build"
      BY <3>1, <3>2 DEF Call
    <3> QED BY <3>1, <3>3
  <2>2. callOf' = callOf
    BY <2>1 DEF callOf
  <2>3. LockFree /\ engine' = engine /\ outcome' = outcome
    BY <1>10 DEF AcquireInitialize
  <2>4. \A u \in Threads : ~At(u, "clear") /\ ~At(u, "clear")'
    BY <1>2, <2>1, <2>3 DEF At
  <2>5. \A e \in 1..MaxCalls : e = Seen => engines'[e] = engines[e]
    <3>1. Seen # built + 1
      BY <1>0, <1>2, <2>3 DEF Indices, TypeOK
    <3> QED BY <1>10, <1>0, <3>1 DEF AcquireInitialize, TypeOK
  <2>6. kbOf' = kbOf
    BY <1>0, <2>3, <2>4, <2>5, SeenStays
  <2> QED BY <2>2, <2>3, <2>6
<1>11. ASSUME NEW t \in Threads, AcquireQuestion(t) PROVE UNCHANGED <<kbOf, callOf, outcome>>
  BY <1>5, <1>11 DEF AcquireQuestion, At
<1>12. ASSUME NEW t \in Threads, AcquireReset(t) PROVE UNCHANGED <<kbOf, callOf, outcome>>
  <2>1. \A u \in Threads :
            thread'[u] = IF u = t THEN [thread[t] EXCEPT !.pc = "clear", !.previous = engine]
                         ELSE thread[u]
    BY <1>12, <1>0 DEF AcquireReset, TypeOK
  <2>2. /\ thread'[t].pc = "clear" /\ thread'[t].previous = engine
        /\ thread'[t].op = thread[t].op /\ thread'[t].folder = thread[t].folder
    BY <1>0, <2>1 DEF Call
  <2>3. callOf' = callOf
    BY <2>1, <2>2 DEF callOf
  <2>4. Seen' = Seen
    BY <1>2, <1>12, <2>2, SeenThen DEF AcquireReset, At
  <2>5. kbOf' = kbOf
    BY <1>12, <2>4 DEF AcquireReset, kbOf, FolderOf
  <2> QED BY <1>12, <2>3, <2>5 DEF AcquireReset
<1>13. ASSUME NEW t \in Threads, Built(t) \/ ClosePrevious(t) \/ CloseFails(t)
       PROVE UNCHANGED <<kbOf, callOf, outcome>>
  BY <1>5, <1>13 DEF Built, ClosePrevious, CloseFails, At
<1>14. ASSUME NEW t \in Threads,
              RefuseQuestion(t) \/ BuildFails(t) \/ Abort(t) \/ AbortFails(t) \/ AnswerFails(t)
       PROVE Abstract!Next
  BY <1>8, <1>14 DEF RefuseQuestion, BuildFails, Abort, AbortFails, AnswerFails, At
<1>15. ASSUME NEW t \in Threads, Publish(t) PROVE Abstract!Next
  <2>1. /\ thread[t].pc = "closed" /\ engine' = thread[t].replacement /\ Return(t, "ok")
        /\ UNCHANGED engines
    BY <1>15 DEF Publish, At
  <2>2. thread[t].op = "initialize" /\ FolderOf(thread[t].replacement) = thread[t].folder
    BY <1>0, <2>1 DEF CallKnown, FolderOf
  <2>3. \A u \in Threads : ~At(u, "clear")'
    BY <1>0, <1>1, <2>1 DEF At, Return, TypeOK, NoCall
  <2>4. Seen' = thread[t].replacement
    BY <2>1, <2>3, SeenThen
  <2>5. kbOf' = thread[t].folder
    BY <2>1, <2>2, <2>4 DEF kbOf, FolderOf
  <2>6. /\ callOf' = [callOf EXCEPT ![t] = Abstract!Idle]
        /\ outcome' = [outcome EXCEPT ![t] = "ok"]
    BY <1>0, <2>1, CallReturns
  <2>7. callOf[t].op = "initialize" /\ kbOf' = callOf[t].folder
    BY <1>4, <2>2, <2>5
  <2> QED BY <1>3, <2>6, <2>7
<1>16. ASSUME NEW t \in Threads, Answered(t) PROVE Abstract!Next
  <2>1. /\ thread[t].pc = "ask" /\ thread[t].op = "question" /\ engine \in 1..MaxCalls
        /\ \A u \in Threads : ~At(u, "clear")
    BY <1>0, <1>1, <1>16 DEF Answered, At, CallKnown, Asked, TypeOK
  <2>2. kbOf = engines[engine].folder
    BY <1>0, <2>1, SeenNow DEF kbOf, FolderOf
  <2>3. CASE engines[engine].store = "open"
    <3>1. Return(t, kbOf) /\ kbOf # NoFolder
      BY <1>0, <1>16, <2>1, <2>2, <2>3 DEF Answered, FoldersKnown
    <3>2. kbOf' = kbOf
      BY <1>6, <1>16, <2>1, <3>1 DEF Answered
    <3>3. /\ callOf' = [callOf EXCEPT ![t] = Abstract!Idle]
          /\ outcome' = [outcome EXCEPT ![t] = kbOf]
      BY <1>0, <3>1, CallReturns
    <3>4. callOf[t].op = "question"
      BY <1>4, <2>1
    <3> QED BY <1>3, <3>1, <3>2, <3>3, <3>4
  <2>4. CASE engines[engine].store # "open"
    BY <1>8, <1>16, <2>1, <2>4 DEF Answered
  <2> QED BY <2>3, <2>4
(* A reset empties the knowledge base when it returns, however it ends. *)
<1>17. ASSUME NEW t \in Threads, NEW r \in {"ok", "raised"}, thread[t].pc = "clear", Return(t, r),
              engine' = engine
       PROVE Abstract!Next
  <2>1. thread[t].op = "reset" /\ engine = 0
    BY <1>0, <1>17 DEF CallKnown
  <2>2. \A u \in Threads : ~At(u, "clear")'
    BY <1>0, <1>1, <1>17 DEF At, Return, TypeOK, NoCall
  <2>3. kbOf' = NoFolder
    BY <1>0, <1>17, <2>1, <2>2, SeenThen DEF kbOf, FolderOf
  <2>4. /\ callOf' = [callOf EXCEPT ![t] = Abstract!Idle]
        /\ outcome' = [outcome EXCEPT ![t] = r]
    BY <1>0, <1>17, CallReturns
  <2>5. callOf[t].op = "reset"
    BY <1>4, <2>1
  <2> QED BY <1>3, <2>3, <2>4, <2>5
<1>18. ASSUME NEW t \in Threads, Cleared(t) \/ ClearFails(t) PROVE Abstract!Next
  BY <1>17, <1>18 DEF Cleared, ClearFails, At
<1>19. ASSUME NEW t \in Threads, Interrupt(t)
       PROVE Abstract!Next \/ UNCHANGED <<kbOf, callOf, outcome>>
  <2>1. CASE InterruptTry(t)
    BY <1>5, <1>19, <2>1 DEF Interrupt, InterruptTry, At
  <2>2. CASE InterruptCall(t)
    <3>1. engine' = engine /\ Return(t, "raised") /\ thread[t].pc # "idle"
      BY <1>19, <2>2 DEF Interrupt, InterruptCall
    <3>2. UNCHANGED engines \/ (\E n, store : SetStore(n, store))
      BY <2>2 DEF InterruptCall
    <3> QED BY <1>8, <1>17, <3>1, <3>2
  <2> QED BY <1>19, <2>1, <2>2 DEF Interrupt
<1>20. CASE EndpointDown \/ EndpointUp \/ UNCHANGED vars
  <2>1. UNCHANGED <<engine, engines, thread, outcome>>
    BY <1>20 DEF EndpointDown, EndpointUp, vars
  <2> QED BY <2>1 DEF kbOf, callOf, FolderOf, Seen, Clearing, At
<1> QED
  BY <1>9, <1>10, <1>11, <1>12, <1>13, <1>14, <1>15, <1>16, <1>18, <1>19, <1>20
     DEF Next, Step, Acquire

(* initialize, question and _reset are atomic to their callers, whatever
   fails or is interrupted: PublicApi implements KnowledgeBase.             *)
THEOREM Refinement == Spec => RefinesKnowledgeBase
<1>1. Init => Abstract!Init
  BY DEF Init, NoCall, Abstract!Init, Abstract!Idle, FolderOf, Seen, Clearing, At
<1>2. IInv' => LockHeld'
  BY DEF IInv
<1> QED
  BY <1>1, <1>2, Known, KnowledgeBaseStep, PTL DEF Spec, RefinesKnowledgeBase, Abstract!Spec
-----------------------------------------------------------------------------
(* How many steps a call has left. *)
Left(label) ==
  [idle |-> 0, abort |-> 1, ask |-> 1, clear |-> 1, closed |-> 2, close |-> 3, build |-> 4,
   lock |-> 5][label]
CallsShorten ==
  [][\A t \in Threads :
       ~At(t, "idle") /\ thread'[t] # thread[t]
         => Left(thread'[t].pc) < Left(thread[t].pc)]_vars

LEMMA Lefts ==
  /\ Left("idle") = 0 /\ Left("abort") = 1 /\ Left("ask") = 1 /\ Left("clear") = 1
  /\ Left("closed") = 2 /\ Left("close") = 3 /\ Left("build") = 4 /\ Left("lock") = 5
BY DEF Left

LEMMA ThreadShortens ==
  ASSUME TypeOK, NEW t \in Threads, thread[t].pc # "idle", thread'[t] # thread[t],
         \/ \E op, folder, remote : Begin(t, op, folder, remote)
         \/ Step(t) \/ BuildFails(t) \/ CloseFails(t) \/ AbortFails(t) \/ AnswerFails(t)
         \/ ClearFails(t)
         \/ Interrupt(t)
  PROVE  Left(thread'[t].pc) < Left(thread[t].pc)
<1>1. thread[t] \in Call /\ DOMAIN thread = Threads
  BY DEF TypeOK
<1>2. ASSUME NEW result, Return(t, result) PROVE thread'[t].pc = "idle"
  BY <1>1, <1>2 DEF Return, NoCall
<1>3. ASSUME NEW label, Goto(t, label) PROVE thread'[t].pc = label
  BY <1>1, <1>3 DEF Goto, Call
<1>4. CASE thread'[t].pc = "idle"
  BY <1>1, <1>4, Lefts DEF Call
<1>5. CASE AcquireInitialize(t)
  BY <1>1, <1>5, Lefts DEF AcquireInitialize, At, Call
<1>6. CASE AcquireReset(t)
  BY <1>1, <1>6, Lefts DEF AcquireReset, At, Call
<1>7. CASE AcquireQuestion(t)
  BY <1>3, <1>7, Lefts DEF AcquireQuestion, At
<1>8. CASE Built(t) \/ ClosePrevious(t) \/ CloseFails(t)
  BY <1>3, <1>8, Lefts DEF Built, ClosePrevious, CloseFails, At
<1>9. CASE \/ RefuseQuestion(t) \/ BuildFails(t) \/ Abort(t) \/ AbortFails(t) \/ Publish(t)
           \/ Answered(t)
           \/ AnswerFails(t) \/ Cleared(t) \/ ClearFails(t)
  BY <1>2, <1>4, <1>9 DEF RefuseQuestion, BuildFails, Abort, AbortFails, Publish, Answered,
                          AnswerFails,
                          Cleared, ClearFails
<1>10. CASE Interrupt(t)
  <2>1. CASE InterruptTry(t)
    BY <1>3, <2>1, Lefts DEF InterruptTry, At
  <2>2. CASE InterruptCall(t)
    BY <1>2, <1>4, <2>2 DEF InterruptCall
  <2> QED BY <1>10, <2>1, <2>2 DEF Interrupt
<1>11. CASE \E op, folder, remote : Begin(t, op, folder, remote)
  BY <1>11 DEF Begin, At
<1> QED
  BY <1>5, <1>6, <1>7, <1>8, <1>9, <1>10, <1>11 DEF Step, Acquire

(* initialize, question and _reset come to an end once they have the lock and *)
(* the endpoint: each step of a call, failed or interrupted, brings it closer *)
(* to its return, and no other thread's step changes it.                      *)
THEOREM Shortens == Spec => CallsShorten
<1>1. IInv /\ [Next]_vars =>
        [\A t \in Threads :
           ~At(t, "idle") /\ thread'[t] # thread[t]
             => Left(thread'[t].pc) < Left(thread[t].pc)]_vars
  <2> SUFFICES ASSUME IInv, Next, NEW t \in Threads, thread[t].pc # "idle",
                      thread'[t] # thread[t]
               PROVE  Left(thread'[t].pc) < Left(thread[t].pc)
    BY DEF At
  <2>1. TypeOK /\ LockHeld
    BY DEF IInv
  <2>2. CASE EndpointDown \/ EndpointUp
    BY <2>2 DEF EndpointDown, EndpointUp
  <2>3. ASSUME NEW u \in Threads,
               \/ \E op, folder, remote : Begin(u, op, folder, remote)
               \/ Step(u) \/ BuildFails(u) \/ CloseFails(u) \/ AbortFails(u) \/ AnswerFails(u)
               \/ ClearFails(u)
               \/ Interrupt(u)
        PROVE  Left(thread'[t].pc) < Left(thread[t].pc)
    <3>1. u = t
      BY <2>1, <2>3, StepLeaves DEF Leaves
    <3> QED BY <2>1, <2>3, <3>1, ThreadShortens
  <2> QED BY <2>2, <2>3 DEF Next
<1> QED
  BY <1>1, Invariant, PTL DEF Spec, CallsShorten
=============================================================================
