--------------------------- MODULE PublishedIndex ---------------------------
(* What the filesystem database promises to whoever opens it: its path      *)
(* names no index yet or a finished one; an index is replaced as a whole by *)
(* another one, and otherwise only becomes searchable for more of its       *)
(* files; and the text it searches is the one its catalog describes.        *)
EXTENDS Naturals

CONSTANTS
  Paths,     \* the files of the folder
  Contents,  \* what is recorded of a file, 0 for nothing
  Ids        \* identities of indexes, without 0

VARIABLE index

NoIndex == [id |-> 0, rows |-> [f \in Paths |-> 0], text |-> [f \in Paths |-> 0]]

Index == [id : Ids, rows : [Paths -> Contents], text : [Paths -> Contents]]

Grounded(i) == \A f \in Paths : i.text[f] \in {0, i.rows[f]}

Init == index = NoIndex

Replace == index'.id # index.id

(* More of the same catalog becomes searchable; nothing ceases to be. *)
Extend ==
  /\ index'.id = index.id
  /\ index'.rows = index.rows
  /\ \A f \in Paths : index.text[f] # 0 => index'.text[f] = index.text[f]

Next ==
  /\ index' \in Index
  /\ Grounded(index')
  /\ Replace \/ Extend

Spec == Init /\ [][Next]_index
=============================================================================
