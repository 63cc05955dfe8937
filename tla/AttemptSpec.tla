---------------------------- MODULE AttemptSpec ----------------------------
(***************************************************************************)
(* What an application attempt on the target promises whoever reads the    *)
(* results it returned (execute_active, recover, discard_recovery): while  *)
(* it is open it works on the paths of its plan and no other; it ends      *)
(* once, with a verdict that is true of the whole tree at that moment; and *)
(* after that no failure, death or restart changes the tree again, but for *)
(* discards, which remove what was displaced and move mtimes.              *)
(***************************************************************************)
CONSTANTS Path, Absent

VARIABLES
  before,   \* the tree the plan was admitted on
  planned,  \* the tree the plan leads to
  scope,    \* the paths with an effect
  tree,     \* the object at each path
  extra,    \* the paths with a prepared or a displaced object
  verdict   \* "open", or how the attempt ended

plan == <<before, planned, scope>>
vars == <<plan, tree, extra, verdict>>

IsDirectory(object) == object # Absent /\ object.kind = "dir"

\* Nothing but the mtime of a directory tells them apart.
Same(object, other) ==
  \/ object = other
  \/ IsDirectory(object) /\ IsDirectory(other) /\ object.value = other.value

Contained ==
  \A p \in Path \ scope : Same(tree[p], before[p]) /\ p \notin extra

Init == tree = before /\ extra = {} /\ verdict = "open"

Work ==
  /\ verdict = "open"
  /\ Contained'
  /\ UNCHANGED <<plan, verdict>>

End(how) ==
  /\ verdict = "open"
  /\ verdict' = how
  /\ UNCHANGED <<plan, tree, extra>>

Apply == tree = planned /\ End("applied")

\* A directory that was to be removed was not empty (conditional_retained).
ApplyPartly ==
  /\ \A p \in Path :
       tree[p] # planned[p] =>
         planned[p] = Absent /\ IsDirectory(before[p]) /\ tree[p] = before[p]
  /\ End("partly")

Restore == tree = before /\ extra = {} /\ End("restored")

\* A recovery failed, or could not tell what it found.
GiveUp == End("uncertain")

Discard ==
  /\ verdict \in {"applied", "partly"}
  /\ \A p \in Path : Same(tree'[p], tree[p])
  /\ extra' \subseteq extra
  /\ UNCHANGED <<plan, verdict>>

Next == Work \/ Apply \/ ApplyPartly \/ Restore \/ GiveUp \/ Discard

Spec == Init /\ [][Next]_vars
=============================================================================
