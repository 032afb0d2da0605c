------------------------------ MODULE MCMapWatch ------------------------------
(* An instance of MapWatch for TLC. *)
EXTENDS MapWatch

\* One region changes while the other waits and changes again; a full update has
\* one change and one failure to make good, or two of either.
MCMaxEvents == [i \in Intervals |-> IF i = 0 THEN 3 ELSE 2]
=============================================================================
