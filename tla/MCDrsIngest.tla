---------------------------- MODULE MCDrsIngest ----------------------------
(* Small instances of DrsIngest: a file A with two contents and a file B,
   one span each.                                                          *)
EXTENDS DrsIngest

CONSTANTS a1, a2, b, fileA, fileB, c1, c2

MCDocs == {a1, a2, b}
MCPathOf == [d \in MCDocs |-> IF d = b THEN fileB ELSE fileA]
MCFolders == {{a1, b}, {a2, b}, {a2}}
MCSpans == 1..3
MCDocOf == <<a1, a2, b>>
MCConfigs == {c1, c2}
MCUnitsOf == [c \in MCConfigs |-> [d \in MCDocs |-> {s \in MCSpans : MCDocOf[s] = d}]]

(* The edit of A kept the text of its span; B says something else.         *)
DistinctTexts == <<"x", "x", "y">>

(* Two models. *)
MCFingerprintOf == [c \in MCConfigs |-> c]
=============================================================================
