--------------------------- MODULE MCCaptureStore ---------------------------
(***************************************************************************)
(* Two processes and an object of two contents and two metadata: one        *)
(* process at a time with failing calls, deaths and power losses, or both   *)
(* at once with failing calls and deaths.                                  *)
(***************************************************************************)
EXTENDS CaptureStore, TLC

MCWorlds == {{"stop", "power"}, {"stop", "overlap"}}

Symmetric == Permutations(Process) \cup Permutations(Content)
               \cup Permutations(Meta) \cup Permutations(Purpose)
=============================================================================
