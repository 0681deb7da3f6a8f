---------------------------- MODULE KnowledgeBase ----------------------------
(* What the two-function API promises to its callers: one knowledge base,   *)
(* replaced in one step by an initialization that succeeds and untouched by *)
(* one that fails; a question is answered from the knowledge base that is   *)
(* current at one moment of its call.                                       *)
CONSTANTS
  Callers,
  Folders,
  NoFolder    \* not initialized

VARIABLES
  kb,      \* the folder the knowledge base is made of
  call,    \* what each caller asked for
  outcome  \* what its last call gave

Returned == {"none", "ok", "raised"} \cup Folders
Idle == [op |-> "none", folder |-> NoFolder]

Init ==
  /\ kb = NoFolder
  /\ call = [t \in Callers |-> Idle]
  /\ outcome = [t \in Callers |-> "none"]

Ask(t, op, folder) ==
  /\ call[t] = Idle
  /\ op \in {"initialize", "question", "reset"}
  /\ call' = [call EXCEPT ![t] = [op |-> op, folder |-> folder]]
  /\ UNCHANGED <<kb, outcome>>

Return(t, result) ==
  /\ call' = [call EXCEPT ![t] = Idle]
  /\ outcome' = [outcome EXCEPT ![t] = result]

Initialize(t) ==
  /\ call[t].op = "initialize"
  /\ \/ kb' = call[t].folder /\ Return(t, "ok")
     \/ kb' = kb /\ Return(t, "raised")

Question(t) ==
  /\ call[t].op = "question"
  /\ kb' = kb
  /\ Return(t, "raised") \/ (kb # NoFolder /\ Return(t, kb))

(* A reset that raises may have taken effect. *)
Reset(t) ==
  /\ call[t].op = "reset"
  /\ \/ kb' = NoFolder /\ (Return(t, "ok") \/ Return(t, "raised"))
     \/ kb' = kb /\ Return(t, "raised")

Next ==
  \E t \in Callers :
    \/ \E op \in {"initialize", "question", "reset"}, folder \in Folders \cup {NoFolder} :
         Ask(t, op, folder)
    \/ Initialize(t) \/ Question(t) \/ Reset(t)

vars == <<kb, call, outcome>>
Spec == Init /\ [][Next]_vars
=============================================================================
