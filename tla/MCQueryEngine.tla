---------------------------- MODULE MCQueryEngine ----------------------------
EXTENDS QueryEngine

(* What the handling of an answer tells apart.                              *)
MCTypes == {"person", "content", "boolean", "other"}
=============================================================================
