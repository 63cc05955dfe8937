------------------------------ MODULE MCBackend ------------------------------
(***************************************************************************)
(* Backend on a directory d, a path f inside it and every plan over them   *)
(* that a planner may produce, in five worlds.                             *)
(***************************************************************************)
EXTENDS Backend

CONSTANTS d, f

ParentDF == [p \in {d, f} |-> IF p = f THEN d ELSE Root]
AboveDF  == [p \in {d, f} |-> IF p = f THEN {d} ELSE {}]

Old == [kind : Kind, value : {"old"}, moved : {FALSE}] \cup {Absent}
New == [kind : Kind, value : {"new"}, moved : {FALSE}] \cup {Absent}

PresentIn(object) == object # Absent
DirIn(object) == object # Absent /\ object.kind = "dir"

\* What is there when the plan has been executed.
Ends(plan_, p) ==
  CASE plan_.effect[p] = "incoming" -> plan_.incoming[p]
    [] plan_.effect[p] = "remove"   -> Absent
    [] plan_.effect[p] = "none"     -> plan_.before[p]

Sound(plan_) ==
  /\ PresentIn(plan_.before[f]) => DirIn(plan_.before[d])
  /\ PresentIn(Ends(plan_, f)) => DirIn(Ends(plan_, d)) \/ plan_.effect[f] = "none"
  /\ \A p \in {d, f} :
       /\ plan_.effect[p] = "incoming" <=> PresentIn(plan_.incoming[p])
       /\ plan_.effect[p] = "remove" => PresentIn(plan_.before[p])
       /\ p \in plan_.captured => PresentIn(plan_.before[p]) /\ plan_.effect[p] # "none"

AllPlans ==
  {plan_ \in [before : [{d, f} -> Old], incoming : [{d, f} -> New],
              effect : [{d, f} -> {"none", "incoming", "remove"}],
              captured : SUBSET {d, f}] : Sound(plan_)}

\* What an incoming object takes the place of is kept, and an incoming object
\* whose path the plan leaves as it is.
RejectsDF ==
  [plan_ \in AllPlans |-> [p \in {d, f} |->
     CASE p \in plan_.captured /\ plan_.effect[p] = "incoming"        -> "old"
       [] PresentIn(plan_.before[p]) /\ plan_.effect[p] = "none"
            /\ \E q \in {d, f} : plan_.effect[q] = "incoming"        -> "incoming"
       [] OTHER                                                       -> "none"]]

CrashOnly     == {{"crash"}}
AttemptWorlds == {{}, {"io", "loss"}, {"io", "fd", "loss"},
                  {"io", "fd", "loss", "crash"}, {"store", "crash", "power"}}
=============================================================================
