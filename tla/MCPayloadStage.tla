--------------------------- MODULE MCPayloadStage ---------------------------
(***************************************************************************)
(* PayloadStage with two processes that stage one or two entries; the      *)
(* processes are interchangeable.                                          *)
(***************************************************************************)
EXTENDS PayloadStage, TLC

CONSTANTS e1, e2

Selections == {{e1}, {e2}}

\* One process at a time, everything failing; or two at once that may die.
MCWorlds == {{"io", "crash", "power"}, {"overlap", "crash"}}

Symmetric == Permutations(Process) \cup Permutations(Entry)
=============================================================================
