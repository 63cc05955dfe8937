--------------------------- MODULE MCEvidenceStore ---------------------------
(***************************************************************************)
(* Two processes: one at a time with failing calls, deaths and power        *)
(* losses, or both at once with failing calls and deaths.                  *)
(***************************************************************************)
EXTENDS EvidenceStore, TLC

MCWorlds == {{"stop", "power"}, {"stop", "overlap"}}
PowerOnly == {{"power"}}

Symmetric == Permutations(Process)
=============================================================================
