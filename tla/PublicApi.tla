------------------------------ MODULE PublicApi ------------------------------
(* The public API (public.py): initialize, question and _reset work on one  *)
(* global engine under one lock, in any number of threads.                  *)
(*                                                                          *)
(* An engine opens a store while it is built and closes it when it is       *)
(* replaced.  Building and answering need the model endpoint, and a request *)
(* that meets a transient transport failure is repeated until the endpoint  *)
(* answers (model.py), with the lock held.  A KeyboardInterrupt may end     *)
(* what the main thread does between any two steps: `except BaseException'  *)
(* in initialize is there for it.                                           *)
EXTENDS Naturals, FiniteSets

CONSTANTS
  Threads,
  Main,        \* the thread KeyboardInterrupt is raised in, if any
  NoThread,
  Folders,
  NoFolder,
  MaxCalls,    \* bound on the calls, and so on the engines
  MaxOutages   \* bound on how often the endpoint goes away

ASSUME PublicApiAssumption ==
  /\ NoThread \notin Threads
  /\ NoFolder \notin Folders
  /\ MaxCalls \in Nat
  /\ MaxOutages \in Nat

VARIABLES
  engine,    \* _ENGINE: an index of engines, 0 for None
  engines,   \* the engines ever made
  built,     \* how many there are
  lock,      \* who holds _ENGINE_LOCK
  thread,    \* the threads' calls
  outcome,   \* what the last call of each thread gave
  calls,     \* how many calls were made
  up,        \* the endpoint answers
  outages,   \* how often it went away
  interrupted  \* history: was a call ended by a KeyboardInterrupt?

vars == <<engine, engines, built, lock, thread, outcome, calls, up, outages, interrupted>>
-----------------------------------------------------------------------------
Engine == [folder : Folders \cup {NoFolder}, store : {"none", "open", "closed", "dropped", "refused"}]
NoEngine == [folder |-> NoFolder, store |-> "none"]

(* A store is dropped with an engine that could not be built, and refused
   when its close raised.  previous and replacement are the local variables
   of initialize and _reset; remote tells a question that needs the model
   from one that does not (an empty one, arithmetic).                       *)
Call == [pc : {"idle", "lock", "build", "close", "closed", "abort", "ask", "clear"},
         op : {"none", "initialize", "question", "reset"},
         folder : Folders \cup {NoFolder}, remote : BOOLEAN,
         previous : 0..MaxCalls, replacement : 0..MaxCalls]
NoCall == [pc |-> "idle", op |-> "none", folder |-> NoFolder, remote |-> FALSE,
           previous |-> 0, replacement |-> 0]

Init ==
  /\ engine = 0
  /\ engines = [e \in 1..MaxCalls |-> NoEngine]
  /\ built = 0
  /\ lock = NoThread
  /\ thread = [t \in Threads |-> NoCall]
  /\ outcome = [t \in Threads |-> "none"]
  /\ calls = 0
  /\ up = TRUE
  /\ outages = 0
  /\ interrupted = FALSE

At(t, pc) == thread[t].pc = pc
Goto(t, pc) == thread' = [thread EXCEPT ![t].pc = pc]

(* The end of a call, in or outside its with statement. *)
Release_Forgotten(t) == UNCHANGED lock
Release(t) == lock' = IF lock = t THEN NoThread ELSE lock
Return(t, result) ==
  /\ Release(t)
  /\ thread' = [thread EXCEPT ![t] = NoCall]
  /\ outcome' = [outcome EXCEPT ![t] = result]

SetStore(e, store) == engines' = [engines EXCEPT ![e].store = store]
-----------------------------------------------------------------------------
(* Calls and the lock.                                                      *)

Begin(t, op, folder, remote) ==
  /\ At(t, "idle")
  /\ calls < MaxCalls
  /\ calls' = calls + 1
  /\ thread' = [thread EXCEPT ![t] = [NoCall EXCEPT !.pc = "lock", !.op = op, !.folder = folder,
                                                    !.remote = remote]]
  /\ UNCHANGED <<engine, engines, built, lock, outcome, up, outages, interrupted>>

LockFree_Ignored == TRUE
LockFree == lock = NoThread

AcquireInitialize(t) ==
  /\ At(t, "lock") /\ thread[t].op = "initialize"
  /\ LockFree
  /\ built < MaxCalls
  /\ lock' = t
  /\ built' = built + 1
  /\ engines' = [engines EXCEPT ![built + 1] = [folder |-> thread[t].folder, store |-> "open"]]
  /\ thread' = [thread EXCEPT ![t] = [@ EXCEPT !.pc = "build", !.previous = engine,
                                               !.replacement = built + 1]]
  /\ UNCHANGED <<engine, outcome, calls, up, outages, interrupted>>

RefuseQuestion(t) ==
  /\ At(t, "lock") /\ thread[t].op = "question"
  /\ LockFree
  /\ engine = 0
  /\ Return(t, "raised")
  /\ UNCHANGED <<engine, engines, built, calls, up, outages, interrupted>>

AcquireQuestion(t) ==
  /\ At(t, "lock") /\ thread[t].op = "question"
  /\ LockFree
  /\ engine # 0
  /\ lock' = t
  /\ Goto(t, "ask")
  /\ UNCHANGED <<engine, engines, built, outcome, calls, up, outages, interrupted>>

(* _reset clears the global before it closes the engine. *)
AcquireReset(t) ==
  /\ At(t, "lock") /\ thread[t].op = "reset"
  /\ LockFree
  /\ lock' = t
  /\ engine' = 0
  /\ thread' = [thread EXCEPT ![t] = [@ EXCEPT !.pc = "clear", !.previous = engine]]
  /\ UNCHANGED <<engines, built, outcome, calls, up, outages, interrupted>>
-----------------------------------------------------------------------------
(* initialize.                                                              *)

(* The constructor returns once the endpoint answered all its requests. *)
Built(t) ==
  /\ At(t, "build")
  /\ up
  /\ Goto(t, "close")
  /\ UNCHANGED <<engine, engines, built, lock, outcome, calls, up, outages, interrupted>>

(* It raises: no folder, a request refused for good, a failed check.  The
   store it opened goes with the engine nobody refers to.                   *)
BuildFails_Clears(t) ==
  /\ At(t, "build")
  /\ SetStore(thread[t].replacement, "dropped")
  /\ engine' = 0
  /\ Return(t, "raised")
  /\ UNCHANGED <<built, calls, up, outages, interrupted>>
BuildFails(t) ==
  /\ At(t, "build")
  /\ SetStore(thread[t].replacement, "dropped")
  /\ Return(t, "raised")
  /\ UNCHANGED <<engine, built, calls, up, outages, interrupted>>

ClosePrevious(t) ==
  /\ At(t, "close")
  /\ IF thread[t].previous = 0 THEN UNCHANGED engines ELSE SetStore(thread[t].previous, "closed")
  /\ Goto(t, "closed")
  /\ UNCHANGED <<engine, built, lock, outcome, calls, up, outages, interrupted>>

(* previous.close() raises and the previous engine stays as it is. *)
CloseFails(t) ==
  /\ At(t, "close")
  /\ thread[t].previous # 0
  /\ Goto(t, "abort")
  /\ UNCHANGED <<engine, engines, built, lock, outcome, calls, up, outages, interrupted>>

(* except BaseException: the replacement is closed, the error raised again. *)
Abort_KeepsReplacement(t) ==
  /\ At(t, "abort")
  /\ Return(t, "raised")
  /\ UNCHANGED <<engine, engines, built, calls, up, outages, interrupted>>
Abort(t) ==
  /\ At(t, "abort")
  /\ SetStore(thread[t].replacement, "closed")
  /\ Return(t, "raised")
  /\ UNCHANGED <<engine, built, calls, up, outages, interrupted>>

(* replacement.close() may raise as well. *)
AbortFails(t) ==
  /\ At(t, "abort")
  /\ SetStore(thread[t].replacement, "refused")
  /\ Return(t, "raised")
  /\ UNCHANGED <<engine, built, calls, up, outages, interrupted>>

Publish(t) ==
  /\ At(t, "closed")
  /\ engine' = thread[t].replacement
  /\ Return(t, "ok")
  /\ UNCHANGED <<engines, built, calls, up, outages, interrupted>>
-----------------------------------------------------------------------------
(* question and _reset.                                                     *)

(* An answer; a closed store raises instead. *)
Answered(t) ==
  /\ At(t, "ask")
  /\ thread[t].remote => up
  /\ Return(t, IF engines[engine].store = "open" THEN engines[engine].folder ELSE "raised")
  /\ UNCHANGED <<engine, engines, built, calls, up, outages, interrupted>>

(* An error that is not transient: a refused request, a context too small. *)
AnswerFails(t) ==
  /\ At(t, "ask")
  /\ up
  /\ Return(t, "raised")
  /\ UNCHANGED <<engine, engines, built, calls, up, outages, interrupted>>

Cleared(t) ==
  /\ At(t, "clear")
  /\ IF thread[t].previous = 0 THEN UNCHANGED engines ELSE SetStore(thread[t].previous, "closed")
  /\ Return(t, "ok")
  /\ UNCHANGED <<engine, built, calls, up, outages, interrupted>>

ClearFails(t) ==
  /\ At(t, "clear")
  /\ thread[t].previous # 0
  /\ SetStore(thread[t].previous, "refused")
  /\ Return(t, "raised")
  /\ UNCHANGED <<engine, built, calls, up, outages, interrupted>>
-----------------------------------------------------------------------------
(* The environment.                                                         *)

(* KeyboardInterrupt, before or after the effect of the step it meets: inside
   the try statement of initialize it runs the handler; anywhere else it ends
   the call.                                                                *)
InterruptTry(t) ==
  /\ At(t, "close") \/ At(t, "closed")
  /\ Goto(t, "abort")
  /\ UNCHANGED <<engines, lock, outcome>>

InterruptCall(t) ==
  /\ thread[t].pc \in {"lock", "build", "abort", "ask", "clear"}
  /\ \/ At(t, "build") /\ SetStore(thread[t].replacement, "dropped")
     \/ At(t, "clear") /\ thread[t].previous # 0 /\ SetStore(thread[t].previous, "closed")
     \/ ~At(t, "build") /\ UNCHANGED engines
  /\ Return(t, "raised")

Interrupt(t) ==
  /\ t = Main
  /\ InterruptTry(t) \/ InterruptCall(t)
  /\ interrupted' = TRUE
  /\ UNCHANGED <<engine, built, calls, up, outages>>

EndpointDown ==
  /\ up
  /\ outages < MaxOutages
  /\ up' = FALSE
  /\ outages' = outages + 1
  /\ UNCHANGED <<engine, engines, built, lock, thread, outcome, calls, interrupted>>

EndpointUp ==
  /\ ~up
  /\ up' = TRUE
  /\ UNCHANGED <<engine, engines, built, lock, thread, outcome, calls, outages, interrupted>>
-----------------------------------------------------------------------------
Acquire(t) ==
  AcquireInitialize(t) \/ RefuseQuestion(t) \/ AcquireQuestion(t) \/ AcquireReset(t)

(* The steps a running thread takes by itself. *)
Step(t) ==
  Acquire(t) \/ Built(t) \/ ClosePrevious(t) \/ Abort(t) \/ Publish(t)
    \/ Answered(t) \/ Cleared(t)

Next ==
  \/ \E t \in Threads :
       \/ \E folder \in Folders : Begin(t, "initialize", folder, TRUE)
       \/ \E remote \in BOOLEAN : Begin(t, "question", NoFolder, remote)
       \/ Begin(t, "reset", NoFolder, FALSE)
       \/ Step(t)
       \/ BuildFails(t) \/ CloseFails(t) \/ AbortFails(t) \/ AnswerFails(t) \/ ClearFails(t)
       \/ Interrupt(t)
  \/ EndpointDown \/ EndpointUp

Spec == Init /\ [][Next]_vars

(* A thread that can go on does.  Calls are bounded, so that no thread is
   overtaken for ever at the lock and weak fairness is enough there.       *)
FairThreads == \A t \in Threads : WF_vars(Step(t))
FairSpec == Spec /\ FairThreads
EndpointReturns == Spec /\ FairThreads /\ WF_vars(EndpointUp)
-----------------------------------------------------------------------------
(* Properties.                                                              *)

TypeOK ==
  /\ engine \in 0..MaxCalls
  /\ engines \in [1..MaxCalls -> Engine]
  /\ built \in 0..MaxCalls
  /\ lock \in Threads \cup {NoThread}
  /\ thread \in [Threads -> Call]
  /\ outcome \in [Threads -> {"none", "ok", "raised"} \cup Folders]
  /\ calls \in 0..MaxCalls
  /\ up \in BOOLEAN
  /\ outages \in 0..MaxOutages
  /\ interrupted \in BOOLEAN

(* A question is answered by an engine whose store is open from its first
   row to its last: nobody closes the engine in use (the lock around answer
   in question and around close in initialize and _reset).  A KeyboardInterrupt
   after previous.close() took effect and before the assignment to _ENGINE
   leaves a closed engine behind, hence the condition of these three.       *)
NeverUsedClosed ==
  ~interrupted => \A t \in Threads : At(t, "ask") => engine # 0 /\ engines[engine].store = "open"

(* Between calls the published engine is open: a replacement is published
   only after it was built, and what was replaced is not (initialize).      *)
PublishedIsOpen == ~interrupted /\ LockFree /\ engine # 0 => engines[engine].store = "open"

(* Between calls no other store is open: no initialization leaks its
   replacement or its predecessor, and no reset what it cleared, unless its
   close was refused.                                                       *)
NoLeakedStore == ~interrupted /\ LockFree => \A e \in 1..MaxCalls : engines[e].store = "open" => e = engine

(* The calls are atomic, as KnowledgeBase states them, whatever fails: an
   unsuccessful initialization leaves the knowledge base as it was, a
   successful one and a reset change it once, and an answer comes from the
   knowledge base of one moment of the call.  _reset empties the global
   before it closes, under the lock; its callers see it at the end.         *)
Clearing == \E t \in Threads : At(t, "clear")
Seen ==
  IF Clearing THEN thread[CHOOSE t \in Threads : At(t, "clear")].previous ELSE engine
FolderOf(e) == IF e = 0 THEN NoFolder ELSE engines[e].folder
Abstract == INSTANCE KnowledgeBase WITH
  Callers <- Threads,
  kb <- FolderOf(Seen),
  call <- [t \in Threads |-> [op |-> thread[t].op, folder |-> thread[t].folder]]
RefinesKnowledgeBase == Abstract!Spec

(* Every call returns, as long as the endpoint comes back whenever it goes
   away: no call waits for ever for a lock that nobody gives back.          *)
CallsReturn == \A t \in Threads : ~At(t, "idle") ~> At(t, "idle")

=============================================================================
