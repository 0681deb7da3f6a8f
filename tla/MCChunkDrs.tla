------------------------------ MODULE MCChunkDrs ------------------------------
EXTENDS ChunkDrs

(* Each way by itself, called again and again; and the longest call there is,
   of a chunk with field-like spans, for which both ways are configured.    *)
CompactAlone(m) == m.compact /\ ~m.staged /\ ~m.fields
StagedAlone(m) == ~m.compact /\ m.staged /\ ~m.fields /\ ~m.alike
Longest(m) == m.compact /\ m.staged /\ m.fields /\ m.alike

MCModes == {m \in AllModes : CompactAlone(m) \/ StagedAlone(m) \/ Longest(m)}
MCCalls == [m \in MCModes |-> IF Longest(m) THEN 1 ELSE IF StagedAlone(m) THEN 2 ELSE 3]
=============================================================================
