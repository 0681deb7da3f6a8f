------------------------------ MODULE MCQueryCalls ------------------------------
EXTENDS QueryCalls

(* Each call; the plan in each of its three configurations. *)
MCModes ==
  {m \in AllModes : IF m.call = "plan" THEN ~m.compact => ~m.force ELSE ~m.compact /\ ~m.force}
=============================================================================
