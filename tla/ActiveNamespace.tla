-------------------------- MODULE ActiveNamespace ---------------------------
(***************************************************************************)
(* application_active_namespace (src/src/active_namespace.cpp) and the     *)
(* workspace names of src/src/active_workspace.cpp: one attempt publishes, *)
(* removes, recovers and discards objects of the target tree, one system   *)
(* call that changes the tree at a time.                                   *)
(*                                                                         *)
(* Beside its leaf a path has a prepared and a displaced name in the same  *)
(* directory.  An object is its kind, whose metadata and bytes it carries  *)
(* ("mixed" while a directory is updated in place) and, for a directory,   *)
(* whether its mtime moved because an entry was added, renamed or removed. *)
(* The entries of a directory belong to the one directory object its path  *)
(* has; they move with it when it is displaced.                            *)
(***************************************************************************)
EXTENDS Naturals, FiniteSets

CONSTANTS
  Path,    \* paths admitted for the attempt
  Root,    \* the target root
  Parent,  \* the directory each path is an entry of
  Above,   \* the directories below the root each path is reached through
  Absent,  \* no such name
  Plans,   \* the plans an instance may draw
  Worlds   \* the sets of FaultKind the environment may draw from, one of them

Kind   == {"file", "dir"}
Object == [kind : Kind, value : {"old", "new", "mixed"}, moved : BOOLEAN]
Slot   == {"leaf", "prepared", "displaced"}

\* What the attempt is bound to: admitted observations, incoming image,
\* planned effects and the paths captured for recovery.
Plan == [before   : [Path -> Object \cup {Absent}],
         incoming : [Path -> Object \cup {Absent}],
         effect   : [Path -> {"none", "incoming", "remove"}],
         captured : SUBSET Path]

FaultKind == {"io", "fd", "loss", "crash", "store", "power"}

ASSUME ActiveNamespaceAssumption ==
  /\ IsFiniteSet(Path)
  /\ Root \notin Path
  /\ Parent \in [Path -> Path \cup {Root}]
  /\ Above \in [Path -> SUBSET Path]
  /\ \A p \in Path :
       /\ p \notin Above[p]
       /\ Above[p] = IF Parent[p] = Root THEN {}
                     ELSE {Parent[p]} \cup Above[Parent[p]]
  /\ Absent \notin Object
  /\ Plans \subseteq Plan
  /\ \A plan \in Plans : \A p \in Path :
       /\ plan.effect[p] = "incoming" <=> plan.incoming[p] # Absent
       /\ plan.effect[p] = "remove" => plan.before[p] # Absent
       /\ p \in plan.captured => plan.before[p] # Absent
       /\ plan.before[p] # Absent => plan.before[p].value = "old" /\ ~plan.before[p].moved
       /\ plan.incoming[p] # Absent => ~plan.incoming[p].moved
  /\ Worlds \subseteq SUBSET FaultKind

\* What is there, and what is planned, is a tree: the namespace takes anything else
\* for a broken authority ("admitted ancestor is not a directory", "completed
\* incoming ancestor is not a package directory").
ASSUME PlansAreTrees ==
  \A plan \in Plans : \A p \in Path : \A a \in Above[p] :
    /\ plan.before[p] # Absent => plan.before[a] # Absent /\ plan.before[a].kind = "dir"
    /\ plan.effect[p] = "incoming" =>
         /\ plan.effect[a] # "remove"
         /\ plan.effect[a] = "incoming" => plan.incoming[a].kind = "dir"
         /\ plan.effect[a] = "none" => plan.before[a] # Absent /\ plan.before[a].kind = "dir"

Outcome == {"completed", "failed", "conditional_retained", "indeterminate"}
At == {"idle", "enter", "prepare", "displace", "activate", "update",
       "finish_update", "take", "clean", "unpublish", "restore", "withdraw",
       "copy", "vacate", "install", "drop", "refresh", "readmit", "returned"}

VARIABLES
  faults,    \* what the environment may do in this behaviour
  plan,      \* the authority the namespace is bound to
  fs,        \* the target tree: the objects under the names of every path
  effects,   \* effects_: effects attempted and completed by this process
  dirty,     \* dirty_filesystems_ and durability_authority_incomplete_
  call,      \* the operation in progress
  answer,    \* what the last operation returned
  unsynced   \* history: paths changed since the last syncfs

namespace == <<faults, plan, fs, effects, dirty, call, answer, unsynced>>

NoCall == [op |-> "none", path |-> Root, at |-> "idle"]

-----------------------------------------------------------------------------
(* The tree. *)

IsDir(object) == object # Absent /\ object.kind = "dir"

\* application_active_workspace::open walks directories without following.
Resolves(p) == \A a \in Above[p] : IsDir(fs[a].leaf)

HasEntries(p) ==
  \E q \in Path : Parent[q] = p /\ \E s \in Slot : fs[q][s] # Absent

\* The tree when the names of p become these: the mtime of their directory
\* moves.
Tree(p, workspace) ==
  [q \in Path |->
     IF q = p THEN workspace
     ELSE IF q = Parent[p] /\ IsDir(fs[q].leaf)
            THEN [fs[q] EXCEPT !.leaf.moved = TRUE]
            ELSE fs[q]]

\* active_path_workspace::inspect.
Clear(p)         == fs[p].prepared = Absent /\ fs[p].displaced = Absent
Contradictory(p) == \A s \in Slot : fs[p][s] # Absent

\* still_admitted: the leaf is observed exactly as it was admitted.
Admitted(p) == fs[p].leaf = plan.before[p]

MatchesIncoming(p, mtimeMayDrift) ==
  LET object == fs[p].leaf
  IN  /\ object # Absent
      /\ plan.incoming[p] # Absent
      /\ object.kind = plan.incoming[p].kind
      /\ object.value = plan.incoming[p].value
      /\ object.moved => mtimeMayDrift

-----------------------------------------------------------------------------
(* How an operation moves on and how it ends. *)

Running(p, point) == call.path = p /\ call.at = point

Goto(point) ==
  /\ call' = [call EXCEPT !.at = point]
  /\ UNCHANGED <<faults, plan, answer>>

Answer(outcome) ==
  /\ call' = [call EXCEPT !.at = "returned"]
  /\ answer' = outcome
  /\ UNCHANGED <<faults, plan>>

\* The operation returns without another change of the tree.
Refuse(outcome) ==
  /\ Answer(outcome)
  /\ UNCHANGED <<fs, effects, dirty, unsynced>>

\* A system call of the operation fails.
Fails(outcome) == "io" \in faults /\ Refuse(outcome)

\* Mutant: the effect is kept as it was planned.
AttemptPlanned(p) == effects' = [effects EXCEPT ![p] = plan.effect[p]]

\* retain_effect and complete_effect.
Attempt(p)  == effects' = [effects EXCEPT ![p] = "attempted"]
Complete(p) == effects' = [effects EXCEPT ![p] = "completed"]

\* Mutant: a directory descriptor that cannot be duplicated goes unnoticed.
RetainDirtyUnnoticed ==
  \/ dirty' = IF dirty = "incomplete" THEN dirty ELSE "dirty"
  \/ "fd" \in faults /\ UNCHANGED dirty

\* retain_dirty_filesystem: a directory descriptor that cannot be duplicated
\* leaves the authority incomplete.
RetainDirty ==
  \/ dirty' = IF dirty = "incomplete" THEN dirty ELSE "dirty"
  \/ "fd" \in faults /\ dirty = "clean" /\ dirty' = "incomplete"

\* publish_prepared hands over the descriptors to retain, and skips one it could
\* not duplicate: a symbolic link has no other than its directory's.
RetainPublished(p) ==
  \/ RetainDirty
  \/ "fd" \in faults /\ ~IsDir(fs[p].prepared) /\ UNCHANGED dirty

\* remove_prepared after a change to the other names: it ignores its failure.
WithoutPrepared(workspace) ==
  {[workspace EXCEPT !.prepared = Absent]}
    \cup IF "io" \in faults THEN {workspace} ELSE {}

Abandon(p, workspace, outcome) ==
  /\ \E w \in WithoutPrepared(workspace) : fs' = Tree(p, w)
  /\ Answer(outcome)
  /\ UNCHANGED <<effects, dirty>>

\* One rename or unlink under p's leaf or displaced name.
Change(p, workspace) ==
  /\ fs' = Tree(p, workspace)
  /\ unsynced' = unsynced \cup {p}

-----------------------------------------------------------------------------
(* update_existing_directory: owner, mode and times one after the other. *)

Wanted(p) == IF call.op = "publish" THEN plan.incoming[p] ELSE plan.before[p]

Updated(p) ==
  IF call.op = "publish" THEN Complete(p) /\ Goto("refresh")
                         ELSE UNCHANGED effects /\ Goto("readmit")

SetDirectory(p, value, moved) ==
  /\ fs' = [fs EXCEPT ![p].leaf.value = value, ![p].leaf.moved = moved]
  /\ unsynced' = unsynced \cup {p}

UpdateDirectory(p) ==
  /\ Running(p, "update")
  /\ \/ /\ fs[p].leaf = Wanted(p)
        /\ Updated(p)
        /\ UNCHANGED <<fs, dirty, unsynced>>
     \/ /\ fs[p].leaf # Wanted(p)
        /\ fs[p].leaf.value = Wanted(p).value
        /\ SetDirectory(p, Wanted(p).value, FALSE)
        /\ RetainDirty
        /\ Updated(p)
     \/ /\ fs[p].leaf.value # Wanted(p).value
        /\ SetDirectory(p, "mixed", fs[p].leaf.moved)
        /\ Goto("finish_update")
        /\ UNCHANGED <<effects, dirty>>
     \/ Fails("failed")

FinishUpdate(p) ==
  /\ Running(p, "finish_update")
  /\ \/ /\ SetDirectory(p, Wanted(p).value, FALSE)
        /\ RetainDirty
        /\ Updated(p)
     \/ Fails("indeterminate")

-----------------------------------------------------------------------------
(* refresh_ancestor_directories: a changed entry moved the mtimes above it. *)

Republished(a) == effects[a] = "completed" /\ plan.effect[a] = "incoming"

\* Mutant: every ancestor is refreshed to what was admitted.
RefreshToAdmitted(a) == plan.before[a]

RefreshTo(a) == IF Republished(a) THEN plan.incoming[a] ELSE plan.before[a]

\* A completed incoming directory gets all its metadata again; one that was
\* admitted only its mtime, and only where the rest is still as admitted.
Refreshable(a) ==
  /\ IsDir(fs[a].leaf)
  /\ ~Republished(a) => fs[a].leaf.value = plan.before[a].value

NeedsRefresh(p) ==
  {a \in Above[p] : RefreshTo(a) # Absent /\ fs[a].leaf # RefreshTo(a)}

RefreshAncestors(p, done) ==
  /\ fs' = [a \in Path |-> IF a \in done
                             THEN [fs[a] EXCEPT !.leaf = RefreshTo(a)]
                             ELSE fs[a]]
  /\ unsynced' = unsynced \cup done
  /\ IF done = {} THEN UNCHANGED dirty ELSE RetainDirty
  /\ UNCHANGED effects

Refreshed(p) ==
  \/ /\ \A a \in NeedsRefresh(p) : Refreshable(a)
     /\ RefreshAncestors(p, NeedsRefresh(p))
     /\ Answer("completed")
  \/ /\ "io" \in faults \/ \E a \in NeedsRefresh(p) : ~Refreshable(a)
     /\ \E done \in SUBSET {a \in NeedsRefresh(p) : Refreshable(a)} :
          RefreshAncestors(p, done)
     /\ Answer("indeterminate")

Refresh(p) == Running(p, "refresh") /\ Refreshed(p)

-----------------------------------------------------------------------------
(* publish_incoming. *)

PublishIncoming(p) ==
  /\ Running(p, "enter")
  /\ call.op = "publish"
  /\ Resolves(p)
  /\ \/ ~Clear(p) /\ Refuse("failed")
     \/ Clear(p) /\ ~Admitted(p) /\ Refuse("indeterminate")
     \/ /\ Clear(p)
        /\ Admitted(p)
        /\ Attempt(p)
        /\ Goto(IF IsDir(plan.incoming[p]) /\ IsDir(fs[p].leaf)
                  THEN "update" ELSE "prepare")
        /\ UNCHANGED <<fs, dirty, unsynced>>

\* Mutant: a captured object of the same kind is overwritten.
DisplacesOtherKind(p) ==
  fs[p].leaf # Absent /\ IsDir(fs[p].leaf) # IsDir(plan.incoming[p])

\* publish_prepared keeps the old object beside the new one where the kinds
\* differ or it is captured for recovery.
Displaces(p) ==
  LET final == fs[p].leaf
  IN  /\ final # Absent
      /\ \/ IsDir(final) # IsDir(plan.incoming[p])
         \/ p \in plan.captured /\ ~IsDir(final)

\* prepare_regular, prepare_directory, prepare_symlink, prepare_special.
Prepare(p) ==
  /\ Running(p, "prepare")
  /\ LET prepared == [fs[p] EXCEPT !.prepared = plan.incoming[p]]
     IN  \/ /\ fs' = Tree(p, prepared)
            /\ Goto(IF Displaces(p) THEN "displace" ELSE "activate")
            /\ UNCHANGED <<effects, dirty>>
         \/ "io" \in faults /\ Abandon(p, prepared, "failed")
         \/ Fails("failed") \* nothing was created
  /\ UNCHANGED unsynced

\* An old directory must be empty, its own recovery workspaces included.
Displace(p) ==
  /\ Running(p, "displace")
  /\ \/ /\ IsDir(fs[p].leaf) => ~HasEntries(p)
        /\ Change(p, [fs[p] EXCEPT !.displaced = fs[p].leaf, !.leaf = Absent])
        /\ Goto("activate")
        /\ UNCHANGED <<effects, dirty>>
     \/ /\ "io" \in faults \/ (IsDir(fs[p].leaf) /\ HasEntries(p))
        /\ Abandon(p, fs[p], "failed")
        /\ UNCHANGED unsynced

\* Mutant: the prepared object is linked to the leaf and its name stays.
PublishedLinked(p) == [fs[p] EXCEPT !.leaf = fs[p].prepared]

Published(p) == [fs[p] EXCEPT !.leaf = fs[p].prepared, !.prepared = Absent]

\* When the last rename fails the displaced object is put back, if it can be.
Activate(p) ==
  /\ Running(p, "activate")
  /\ \/ /\ Change(p, Published(p))
        /\ RetainPublished(p)
        /\ Complete(p)
        /\ Goto("refresh")
     \/ /\ "io" \in faults
        /\ \/ Abandon(p, fs[p], "indeterminate")
           \/ /\ fs[p].displaced # Absent
              /\ Abandon(p, [fs[p] EXCEPT !.leaf = fs[p].displaced,
                                          !.displaced = Absent], "indeterminate")
        /\ UNCHANGED unsynced

-----------------------------------------------------------------------------
(* remove. *)

\* completed_captured_removal_child: what a captured removal leaves behind.
CapturedRemoval(q) ==
  plan.effect[q] = "remove" /\ effects[q] = "completed" /\ q \in plan.captured

\* logical_directory_contents is nonempty.
LogicallyNonempty(p) ==
  \E q \in Path :
    /\ Parent[q] = p
    /\ \/ fs[q].leaf # Absent
       \/ fs[q].prepared # Absent
       \/ fs[q].displaced # Absent /\ ~CapturedRemoval(q)

Remove(p) ==
  /\ Running(p, "enter")
  /\ call.op = "remove"
  /\ Resolves(p)
  /\ \/ ~(Clear(p) /\ Admitted(p)) /\ Refuse("indeterminate")
     \/ /\ Clear(p)
        /\ Admitted(p)
        /\ Attempt(p)
        /\ Goto("take")
        /\ UNCHANGED <<fs, dirty, unsynced>>

\* Mutant: any unlink that fails is taken for one of a directory that is not empty.
TakeRetained(p) ==
  /\ Running(p, "take")
  /\ LET kept == IsDir(fs[p].leaf) /\ (IF p \in plan.captured
                                         THEN LogicallyNonempty(p) ELSE HasEntries(p))
     IN  \/ kept /\ Refuse("conditional_retained")
         \/ /\ ~kept
            /\ Change(p, IF p \in plan.captured
                           THEN [fs[p] EXCEPT !.displaced = fs[p].leaf, !.leaf = Absent]
                           ELSE [fs[p] EXCEPT !.leaf = Absent])
            /\ RetainDirty
            /\ Complete(p)
            /\ Goto("refresh")
         \/ Fails("conditional_retained")

\* renameat of a captured object, unlinkat of another.
Take(p) ==
  /\ Running(p, "take")
  /\ LET kept == IsDir(fs[p].leaf) /\ (IF p \in plan.captured
                                         THEN LogicallyNonempty(p) ELSE HasEntries(p))
     IN  \/ kept /\ Refuse("conditional_retained")
         \/ /\ ~kept
            /\ Change(p, IF p \in plan.captured
                           THEN [fs[p] EXCEPT !.displaced = fs[p].leaf, !.leaf = Absent]
                           ELSE [fs[p] EXCEPT !.leaf = Absent])
            /\ RetainDirty
            /\ Complete(p)
            /\ Goto("refresh")
         \/ Fails("failed")

-----------------------------------------------------------------------------
(* recover. *)

Recover(p) ==
  /\ Running(p, "enter")
  /\ call.op = "recover"
  /\ Resolves(p)
  /\ \/ Contradictory(p) /\ Refuse("indeterminate")
     \/ /\ ~Clear(p)
        /\ ~Contradictory(p)
        /\ Goto(IF fs[p].prepared # Absent THEN "clean"
                  ELSE IF fs[p].leaf # Absent THEN "unpublish" ELSE "restore")
        /\ UNCHANGED <<fs, effects, dirty, unsynced>>
     \/ /\ Clear(p)
        /\ Admitted(p)
        /\ Goto("readmit")
        /\ UNCHANGED <<fs, effects, dirty, unsynced>>
     \/ /\ Clear(p)
        /\ ~Admitted(p)
        /\ \/ effects[p] = "none"
           \/ plan.before[p] = Absent /\ ~MatchesIncoming(p, FALSE)
           \/ plan.before[p] # Absent /\ p \notin plan.captured
        /\ Refuse("indeterminate")
     \/ /\ Clear(p)
        /\ ~Admitted(p)
        /\ effects[p] # "none"
        /\ \/ /\ plan.before[p] = Absent
              /\ MatchesIncoming(p, FALSE)
              /\ Goto("withdraw")
           \/ /\ p \in plan.captured
              /\ Goto(IF IsDir(plan.before[p]) /\ IsDir(fs[p].leaf)
                        THEN "update" ELSE "copy")
        /\ UNCHANGED <<fs, effects, dirty, unsynced>>

\* remove_leaf of the prepared name.
Clean(p) ==
  /\ Running(p, "clean")
  /\ \/ /\ fs' = Tree(p, [fs[p] EXCEPT !.prepared = Absent])
        /\ Goto(IF fs[p].displaced # Absent THEN "restore" ELSE "readmit")
        /\ UNCHANGED <<effects, dirty, unsynced>>
     \/ Fails("indeterminate")

\* remove_leaf of what was published over a displaced object.
Unpublish(p) ==
  /\ Running(p, "unpublish")
  /\ \/ /\ IsDir(fs[p].leaf) => ~HasEntries(p)
        /\ Change(p, [fs[p] EXCEPT !.leaf = Absent])
        /\ Goto("restore")
        /\ UNCHANGED <<effects, dirty>>
     \/ IsDir(fs[p].leaf) /\ HasEntries(p) /\ Refuse("indeterminate")
     \/ Fails("indeterminate")

Restore(p) ==
  /\ Running(p, "restore")
  /\ \/ /\ Change(p, [fs[p] EXCEPT !.leaf = fs[p].displaced, !.displaced = Absent])
        /\ RetainDirty
        /\ Goto("readmit")
        /\ UNCHANGED effects
     \/ Fails("indeterminate")

\* remove_leaf of what was published over an absent path.
Withdraw(p) ==
  /\ Running(p, "withdraw")
  /\ \/ /\ IsDir(fs[p].leaf) => ~HasEntries(p)
        /\ Change(p, [fs[p] EXCEPT !.leaf = Absent])
        /\ RetainDirty
        /\ Goto("readmit")
        /\ UNCHANGED effects
     \/ IsDir(fs[p].leaf) /\ HasEntries(p) /\ Refuse("indeterminate")
     \/ Fails("indeterminate")

\* prepare_capture and publish_recovery: a copy out of the capture store.
Copy(p) ==
  /\ Running(p, "copy")
  /\ \/ /\ fs' = Tree(p, [fs[p] EXCEPT !.prepared = plan.before[p]])
        /\ Goto(IF IsDir(fs[p].leaf) THEN "vacate" ELSE "install")
        /\ UNCHANGED <<effects, dirty>>
     \/ "io" \in faults
        /\ Abandon(p, [fs[p] EXCEPT !.prepared = plan.before[p]], "indeterminate")
     \/ Fails("indeterminate")
  /\ UNCHANGED unsynced

Vacate(p) ==
  /\ Running(p, "vacate")
  /\ \/ /\ ~HasEntries(p)
        /\ Change(p, [fs[p] EXCEPT !.leaf = Absent])
        /\ Goto("install")
        /\ UNCHANGED <<effects, dirty>>
     \/ /\ "io" \in faults \/ HasEntries(p)
        /\ Abandon(p, fs[p], "indeterminate")
        /\ UNCHANGED unsynced

Install(p) ==
  /\ Running(p, "install")
  /\ \/ /\ Change(p, Published(p))
        /\ RetainPublished(p)
        /\ Goto("readmit")
        /\ UNCHANGED effects
     \/ /\ "io" \in faults
        /\ Abandon(p, fs[p], "indeterminate")
        /\ UNCHANGED unsynced

\* Mutant: a recovered path leaves the directories above it as they are.
ReadmitUnrefreshed(p) ==
  /\ Running(p, "readmit")
  /\ Refuse(IF Admitted(p) THEN "completed" ELSE "indeterminate")

\* Mutant: a path is said to be recovered without a look at it.
ReadmitUnseen(p) == Running(p, "readmit") /\ Refreshed(p)

\* completed_recovery: nothing is claimed that is not observed.
Readmit(p) ==
  /\ Running(p, "readmit")
  /\ \/ ~Admitted(p) /\ Refuse("indeterminate")
     \/ Admitted(p) /\ Refreshed(p)

-----------------------------------------------------------------------------
(* discard_recovery. *)

\* nested_cleanup_state looks at the highest captured directory removal above.
Covering(p) ==
  {a \in Above[p] : CapturedRemoval(a) /\ IsDir(plan.before[a])}
Highest(p) == {a \in Covering(p) : Above[a] \cap Covering(p) = {}}
Covered(p) ==
  \E a \in Highest(p) : Resolves(a) /\ Clear(a) /\ fs[a].leaf = Absent
Independent(p) ==
  \A a \in Highest(p) : Resolves(a) /\ Clear(a) /\ fs[a].leaf # Absent

\* validate_recovery_tree: a displaced directory holds nothing but what
\* captured removals left in it.
RecoveryTree(p) ==
  \A q \in Path :
    (p \in Above[q] /\ \E s \in Slot : fs[q][s] # Absent) =>
      /\ fs[q].leaf = Absent
      /\ fs[q].prepared = Absent
      /\ CapturedRemoval(q)

DiscardRecovery(p) ==
  /\ Running(p, "enter")
  /\ call.op = "discard"
  /\ Independent(p) /\ ~Covered(p) => Resolves(p)
  /\ LET droppable == /\ fs[p].prepared = Absent
                      /\ plan.before[p] # Absent
                      /\ fs[p].displaced.kind = plan.before[p].kind
                      /\ IsDir(plan.before[p]) => RecoveryTree(p)
     IN  \/ Covered(p) /\ Refuse("completed")
         \/ ~Covered(p) /\ ~Independent(p) /\ Refuse("indeterminate")
         \/ ~Covered(p) /\ Independent(p) /\ Clear(p) /\ Refuse("completed")
         \/ /\ ~Covered(p) /\ Independent(p) /\ ~Clear(p)
            /\ fs[p].displaced # Absent => ~droppable
            /\ Refuse("indeterminate")
         \/ /\ ~Covered(p) /\ Independent(p)
            /\ fs[p].displaced # Absent
            /\ droppable
            /\ Goto("drop")
            /\ UNCHANGED <<fs, effects, dirty, unsynced>>

\* remove_recovery_tree: what removals displaced below p.
DropBelow(p) ==
  /\ Running(p, "drop")
  /\ \E q \in Path :
       /\ p \in Above[q]
       /\ fs[q].displaced # Absent
       /\ ~HasEntries(q)
       /\ Change(q, [fs[q] EXCEPT !.displaced = Absent])
  /\ UNCHANGED <<faults, plan, effects, dirty, call, answer>>

\* Mutant: the directories above a dropped object are left as they are.
DropUnrefreshed(p) ==
  /\ Running(p, "drop")
  /\ IsDir(fs[p].displaced) => ~HasEntries(p)
  /\ Change(p, [fs[p] EXCEPT !.displaced = Absent])
  /\ RetainDirty
  /\ Answer("completed")
  /\ UNCHANGED effects

Drop(p) ==
  /\ Running(p, "drop")
  /\ \/ /\ IsDir(fs[p].displaced) => ~HasEntries(p)
        /\ Change(p, [fs[p] EXCEPT !.displaced = Absent])
        /\ RetainDirty
        /\ Goto("refresh")
        /\ UNCHANGED effects
     \/ Fails("indeterminate")
=============================================================================
