---------------------------- MODULE RecoveryProofs ----------------------------
(***************************************************************************)
(* Theorems about how an attempt ends, for every tree, every plan and      *)
(* every combination of faults: recoveries that succeed left the admitted  *)
(* tree, and each found its parent; discards that succeed leave the        *)
(* planned tree and no other name; and an attempt implements AttemptSpec.  *)
(***************************************************************************)
EXTENDS ActiveProofs

USE ActiveNamespaceAssumption, BackendAssumption

-----------------------------------------------------------------------------
(* The names of a path.                                                    *)

\* Only the mtime of a directory moves.
Fixed(object) == object # Absent /\ object.moved => IsDir(object)

\* What an object is displaced for: a capture, or another kind in its place.
Displaceable(p) ==
  /\ \/ p \in plan.captured
     \/ /\ plan.effect[p] = "incoming"
        /\ plan.before[p] # Absent
        /\ IsDir(plan.before[p]) # IsDir(plan.incoming[p])
  /\ ~BothDirs(plan.before[p], plan.incoming[p])

Kept(p) ==
  /\ p \notin Intended => Clear(p)
  /\ Fixed(fs[p].leaf) /\ Fixed(fs[p].prepared) /\ Fixed(fs[p].displaced)
  /\ fs[p].displaced # Absent => Displaceable(p)

\* What Placed leaves open of the names at each point.
Course(p, op, at) ==
  /\ at = "prepare" => ~BothDirs(plan.before[p], plan.incoming[p])
  /\ at = "displace" => Displaceable(p)
  /\ at = "activate" => ~IsDir(fs[p].leaf)
  /\ at \in {"unpublish", "restore"} => fs[p].prepared = Absent
  /\ at \in {"withdraw", "readmit"} => Clear(p)
  /\ at = "refresh" => op # "recover"

KeptInv ==
  /\ \A p \in Path : Kept(p)
  /\ call # NoCall => Course(call.path, call.op, call.at)

-----------------------------------------------------------------------------
(* What a step of an operation does to the tree.                           *)

\* Names of p that consist of what was there and what is planned.
Drawn(p, w) ==
  /\ w.leaf \in {fs[p].leaf, fs[p].prepared, fs[p].displaced, Absent}
  /\ w.prepared \in {fs[p].prepared, plan.before[p], plan.incoming[p], Absent}
  /\ \/ w.displaced \in {fs[p].displaced, Absent}
     \/ w.displaced = fs[p].leaf /\ Displaceable(p)

Redrawn(p) == \E w \in Names : fs' = Tree(p, w) /\ Drawn(p, w)

\* The directory at p with other metadata.
Reset(p) ==
  \E object \in Object :
    /\ IsDir(fs[p].leaf) /\ IsDir(object)
    /\ [fs[p] EXCEPT !.leaf = object] \in Names
    /\ fs' = [fs EXCEPT ![p] = [fs[p] EXCEPT !.leaf = object]]

Shape(p) ==
  \/ fs' = fs
  \/ Redrawn(p)
  \/ Reset(p)
  \/ Refreshed(p)
  \/ DropBelow(p)

LEMMA SetDirectoryResets ==
  ASSUME NEW p \in Path, fs \in [Path -> Names], fs[p].leaf \in Object, IsDir(fs[p].leaf),
         NEW value \in {"old", "new", "mixed"}, NEW moved \in BOOLEAN,
         SetDirectory(p, value, moved)
  PROVE  Reset(p)
<1>1. PICK object \in Object :
        object = [fs[p].leaf EXCEPT !.value = value, !.moved = moved]
  <2>1. [fs[p].leaf EXCEPT !.value = value, !.moved = moved] \in Object
    BY DEF Object
  <2> QED BY <2>1
<1>2. object.kind = fs[p].leaf.kind /\ object # Absent
  BY <1>1 DEF Object
<1>3. [fs[p] EXCEPT !.leaf = object] \in Names
  BY WithLeaf
<1>4. PICK once : once = [fs EXCEPT ![p].leaf.value = value]
  OBVIOUS
<1>5. fs' = [once EXCEPT ![p].leaf.moved = moved]
  BY <1>4 DEF SetDirectory
<1>6. PICK half : half = [fs[p].leaf EXCEPT !.value = value]
  OBVIOUS
<1>7. once = [fs EXCEPT ![p] = [fs[p] EXCEPT !.leaf = half]]
  BY ONLY <1>4, <1>6
<1>8. once[p].leaf = half
  <2>1. fs \in [Path -> Names] /\ p \in Path
    OBVIOUS
  <2> QED BY ONLY <1>7, <2>1 DEF Names
<1>9. object = [half EXCEPT !.moved = moved]
  BY <1>1, <1>6
<1>10. fs' = [once EXCEPT ![p] = [once[p] EXCEPT !.leaf = object]]
  BY ONLY <1>5, <1>8, <1>9
<1>11. [once[p] EXCEPT !.leaf = object] = [fs[p] EXCEPT !.leaf = object]
  <2>1. fs \in [Path -> Names] /\ p \in Path
    OBVIOUS
  <2> QED BY ONLY <1>7, <2>1 DEF Names
<1>12. fs' = [fs EXCEPT ![p] = [fs[p] EXCEPT !.leaf = object]]
  <2>1. fs \in [Path -> Names] /\ p \in Path
    OBVIOUS
  <2> QED BY ONLY <1>7, <1>10, <1>11, <2>1
<1> QED BY <1>2, <1>3, <1>12 DEF Reset, IsDir

LEMMA AbandonRedraws ==
  ASSUME NEW p \in Path, NEW workspace \in Names, Drawn(p, workspace), NEW outcome,
         Abandon(p, workspace, outcome)
  PROVE  Redrawn(p)
<1>1. PICK w : w \in WithoutPrepared(workspace) /\ fs' = Tree(p, w)
  BY DEF Abandon
<1>2. CASE w = workspace
  BY <1>1, <1>2 DEF Redrawn
<1>3. CASE w = [workspace EXCEPT !.prepared = Absent]
  <2>1. w \in Names
    BY <1>3 DEF Names
  <2>2. w.leaf = workspace.leaf /\ w.prepared = Absent /\ w.displaced = workspace.displaced
    BY <1>3 DEF Names
  <2> QED BY <1>1, <2>1, <2>2 DEF Redrawn, Drawn
<1> QED BY <1>1, <1>2, <1>3 DEF WithoutPrepared

\* One name changed at a time.
LEMMA DrawnNames ==
  ASSUME NEW p \in Path, fs[p] \in Names,
         NEW object \in Object \cup {Absent}, object \in {plan.before[p], plan.incoming[p], Absent}
  PROVE  /\ fs[p] \in Names /\ Drawn(p, fs[p])
         /\ [fs[p] EXCEPT !.prepared = object] \in Names
         /\ Drawn(p, [fs[p] EXCEPT !.prepared = object])
         /\ [fs[p] EXCEPT !.leaf = Absent] \in Names
         /\ Drawn(p, [fs[p] EXCEPT !.leaf = Absent])
         /\ [fs[p] EXCEPT !.displaced = Absent] \in Names
         /\ Drawn(p, [fs[p] EXCEPT !.displaced = Absent])
         /\ Published(p) \in Names /\ Drawn(p, Published(p))
         /\ [fs[p] EXCEPT !.leaf = fs[p].displaced, !.displaced = Absent] \in Names
         /\ Drawn(p, [fs[p] EXCEPT !.leaf = fs[p].displaced, !.displaced = Absent])
<1>1. fs[p] \in Names /\ Drawn(p, fs[p])
  BY DEF Drawn
<1>2. /\ [fs[p] EXCEPT !.prepared = object] \in Names
      /\ Drawn(p, [fs[p] EXCEPT !.prepared = object])
  BY DEF Names, Drawn
<1>3. /\ [fs[p] EXCEPT !.leaf = Absent] \in Names
      /\ Drawn(p, [fs[p] EXCEPT !.leaf = Absent])
  BY DEF Names, Drawn
<1>4. /\ [fs[p] EXCEPT !.displaced = Absent] \in Names
      /\ Drawn(p, [fs[p] EXCEPT !.displaced = Absent])
  BY DEF Names, Drawn
<1>5. Published(p) \in Names /\ Drawn(p, Published(p))
  BY DEF Names, Drawn, Published
<1>6. /\ [fs[p] EXCEPT !.leaf = fs[p].displaced, !.displaced = Absent] \in Names
      /\ Drawn(p, [fs[p] EXCEPT !.leaf = fs[p].displaced, !.displaced = Absent])
  BY DEF Names, Drawn
<1> QED BY <1>1, <1>2, <1>3, <1>4, <1>5, <1>6

LEMMA DrawnDisplaced ==
  ASSUME NEW p \in Path, fs[p] \in Names, Displaceable(p)
  PROVE  /\ [fs[p] EXCEPT !.displaced = fs[p].leaf, !.leaf = Absent] \in Names
         /\ Drawn(p, [fs[p] EXCEPT !.displaced = fs[p].leaf, !.leaf = Absent])
BY DEF Names, Drawn

\* Where an update of a directory changes anything, it is its metadata.
LEMMA UpdateResets ==
  ASSUME ActiveInv, NEW p \in Path, fs' # fs, UpdateDirectory(p) \/ FinishUpdate(p)
  PROVE  Reset(p)
<1>1. Wanted(p) \in Object /\ BothDirs(fs[p].leaf, Wanted(p))
  BY UpdateContext DEF UpdateDirectory, FinishUpdate
<1>2. fs[p].leaf \in Object /\ IsDir(fs[p].leaf)
  BY <1>1, UpdateContext DEF UpdateDirectory, FinishUpdate, BothDirs, IsDir, Names
<1>3. PICK value \in {"old", "new", "mixed"}, moved \in BOOLEAN :
        SetDirectory(p, value, moved)
  <2>1. PICK value \in {"old", "new", "mixed"} : value = Wanted(p).value
    BY <1>1 DEF Object
  <2>2. PICK moved \in BOOLEAN : moved = FALSE
    OBVIOUS
  <2>3. fs[p].leaf.moved \in BOOLEAN
    BY <1>2 DEF Object
  <2>4. CASE SetDirectory(p, Wanted(p).value, FALSE)
    BY <2>1, <2>2, <2>4 DEF SetDirectory
  <2>5. CASE SetDirectory(p, "mixed", fs[p].leaf.moved)
    BY <2>3, <2>5
  <2> QED BY <2>4, <2>5 DEF UpdateDirectory, FinishUpdate, Fails, Refuse
<1>4. fs \in [Path -> Names]
  BY UpdateContext DEF UpdateDirectory, FinishUpdate
<1> QED BY <1>2, <1>3, <1>4, SetDirectoryResets

\* Every step changes the names of its path to such, or one of the few other things.
LEMMA MechanismShape ==
  ASSUME ActiveInv, KeptInv, UNCHANGED owner, NEW p \in Path, Mechanism(p)
  PROVE  Shape(p)
<1>1. /\ TypeOK /\ fs[p] \in Names /\ fs \in [Path -> Names]
      /\ plan.before[p] \in Object \cup {Absent} /\ plan.incoming[p] \in Object \cup {Absent}
      /\ Absent \in Object \cup {Absent}
  BY PlanTyped DEF ActiveInv, TypeOK, Names
<1> DEFINE before == plan.before[p]
           incoming == plan.incoming[p]
<1>2. CASE fs' = fs
  BY <1>2 DEF Shape
<1>3. ASSUME fs' # fs, Prepare(p) \/ Copy(p) \/ Clean(p)
      PROVE  Redrawn(p)
  <2>1. PICK object \in {before, incoming, Absent} :
          \/ fs' = Tree(p, [fs[p] EXCEPT !.prepared = object])
          \/ \E outcome : Abandon(p, [fs[p] EXCEPT !.prepared = object], outcome)
    BY <1>3 DEF Prepare, Copy, Clean, Fails, Refuse
  <2>2. object \in Object \cup {Absent} /\ object \in {plan.before[p], plan.incoming[p], Absent}
    BY <1>1, <2>1
  <2>3. /\ [fs[p] EXCEPT !.prepared = object] \in Names
        /\ Drawn(p, [fs[p] EXCEPT !.prepared = object])
    BY <1>1, <2>2, DrawnNames
  <2> QED BY <2>1, <2>3, AbandonRedraws DEF Redrawn
<1>4. ASSUME fs' # fs, Displace(p)
      PROVE  Redrawn(p)
  <2>1. Displaceable(p)
    BY <1>4 DEF KeptInv, Course, Displace, Running, NoCall
  <2>2. CASE Abandon(p, fs[p], "failed")
    BY <1>1, <2>2, DrawnNames, AbandonRedraws
  <2> QED BY <1>1, <1>4, <2>1, <2>2, DrawnDisplaced DEF Displace, Change, Redrawn
<1>5. ASSUME fs' # fs, Activate(p)
      PROVE  Redrawn(p)
  <2>1. CASE Abandon(p, fs[p], "indeterminate")
    BY <1>1, <2>1, DrawnNames, AbandonRedraws
  <2>2. CASE Abandon(p, [fs[p] EXCEPT !.leaf = fs[p].displaced, !.displaced = Absent],
                     "indeterminate")
    BY <1>1, <2>2, DrawnNames, AbandonRedraws
  <2> QED BY <1>1, <1>5, <2>1, <2>2, DrawnNames DEF Activate, Change, Redrawn
<1>6. ASSUME fs' # fs, Take(p)
      PROVE  Redrawn(p)
  <2>1. /\ \/ /\ p \in plan.captured
              /\ fs' = Tree(p, [fs[p] EXCEPT !.displaced = fs[p].leaf, !.leaf = Absent])
           \/ fs' = Tree(p, [fs[p] EXCEPT !.leaf = Absent])
        /\ plan.effect[p] = "remove"
    <3>1. plan.effect[p] = "remove"
      BY <1>6, OwnContext DEF Take, Placed, At
    <3> QED BY <1>6, <3>1 DEF Take, Fails, Refuse, Change
  <2>2. p \in plan.captured => Displaceable(p)
    BY <1>1, <2>1, PlanTyped DEF Displaceable, BothDirs, IsDir
  <2> QED BY <1>1, <2>1, <2>2, DrawnNames, DrawnDisplaced DEF Redrawn
<1>7. ASSUME fs' # fs, UpdateDirectory(p) \/ FinishUpdate(p)
      PROVE  Reset(p)
  BY <1>7, UpdateResets
<1>8. ASSUME fs' # fs, Unpublish(p) \/ Withdraw(p)
      PROVE  Redrawn(p)
  <2>1. fs' = Tree(p, [fs[p] EXCEPT !.leaf = Absent])
    BY <1>8 DEF Unpublish, Withdraw, Change, Fails, Refuse
  <2> QED BY <1>1, <2>1, DrawnNames DEF Redrawn
<1>9. ASSUME fs' # fs, Restore(p)
      PROVE  Redrawn(p)
  <2>1. fs' = Tree(p, [fs[p] EXCEPT !.leaf = fs[p].displaced, !.displaced = Absent])
    BY <1>9 DEF Restore, Change, Fails, Refuse
  <2> QED BY <1>1, <2>1, DrawnNames DEF Redrawn
<1>10. ASSUME fs' # fs, Vacate(p) \/ Install(p)
       PROVE  Redrawn(p)
  <2>1. CASE Abandon(p, fs[p], "indeterminate")
    BY <1>1, <2>1, DrawnNames, AbandonRedraws
  <2> QED BY <1>1, <1>10, <2>1, DrawnNames DEF Vacate, Install, Change, Redrawn
<1>11. ASSUME fs' # fs, Drop(p)
       PROVE  Redrawn(p)
  <2>1. fs' = Tree(p, [fs[p] EXCEPT !.displaced = Absent])
    BY <1>11 DEF Drop, Change, Fails, Refuse
  <2> QED BY <1>1, <2>1, DrawnNames DEF Redrawn
<1>12. PublishIncoming(p) \/ Remove(p) \/ Recover(p) \/ DiscardRecovery(p) => fs' = fs
  BY DEF PublishIncoming, Remove, Recover, DiscardRecovery, Refuse
<1>13. Readmit(p) \/ Refresh(p) => fs' = fs \/ Refreshed(p)
  BY DEF Readmit, Refresh, Refuse
<1> QED BY <1>2, <1>3, <1>4, <1>5, <1>6, <1>7, <1>8, <1>9, <1>10, <1>11, <1>12, <1>13
        DEF Mechanism, Shape

\* Of the other names a step changes the mtimes of directories above its path, and
\* what refresh_ancestor_directories gives them.
Touches(p) ==
  \A q \in Path \ {p} :
    /\ fs'[q].prepared = fs[q].prepared
    /\ fs'[q].displaced = fs[q].displaced
    /\ \/ fs'[q].leaf = fs[q].leaf
       \/ /\ q \in Above[p]
          /\ IsDir(fs[q].leaf)
          /\ \/ fs'[q].leaf = [fs[q].leaf EXCEPT !.moved = TRUE]
             \/ Refreshable(q) /\ RefreshTo(q) # Absent /\ fs'[q].leaf = RefreshTo(q)

LEMMA TreeTouches ==
  ASSUME TypeOK, NEW p \in Path, NEW w \in Names, fs' = Tree(p, w)
  PROVE  /\ Touches(p) /\ fs' \in [Path -> Names] /\ fs'[p] = w
<1>1. fs \in [Path -> Names]
  BY DEF TypeOK, Names
<1>2. /\ fs' \in [Path -> Names] /\ fs'[p] = w
      /\ \A q \in Path \ {p} : KeepsNames(q)
  BY TreeKeeps
<1>3. ASSUME NEW q \in Path \ {p}, fs'[q] # fs[q]
      PROVE  /\ q \in Above[p] /\ IsDir(fs[q].leaf)
             /\ fs'[q].leaf = [fs[q].leaf EXCEPT !.moved = TRUE]
  <2>1. /\ q = Parent[p] /\ IsDir(fs[q].leaf)
        /\ fs'[q] = [fs[q] EXCEPT !.leaf.moved = TRUE]
    BY <1>3 DEF Tree
  <2>2. q \in Above[p]
    BY <2>1
  <2>3. fs[q] \in Names
    BY <1>1
  <2>4. fs'[q].leaf = [fs[q].leaf EXCEPT !.moved = TRUE]
    BY ONLY <2>1, <2>3 DEF Names
  <2> QED BY <2>1, <2>2, <2>4
<1> QED BY <1>2, <1>3 DEF Touches, KeepsNames

LEMMA RefreshedTouches ==
  ASSUME TypeOK, NEW p \in Path, Refreshed(p)
  PROVE  /\ Touches(p) /\ fs' \in [Path -> Names] /\ fs'[p] = fs[p]
         /\ plan' = plan /\ effects' = effects
         /\ answer' \in {"completed", "indeterminate"}
         /\ call' = [call EXCEPT !.at = "returned"]
         /\ answer' = "completed" =>
              \A a \in Above[p] : RefreshTo(a) # Absent => fs'[a].leaf = RefreshTo(a)
<1>1. fs \in [Path -> Names]
  BY DEF TypeOK, Names
<1>2. PICK done \in SUBSET NeedsRefresh(p) :
        /\ \A a \in done : Refreshable(a)
        /\ RefreshAncestors(p, done)
        /\ \/ Answer("completed") /\ done = NeedsRefresh(p)
           \/ Answer("indeterminate")
  BY DEF Refreshed
<1>3. fs' = [a \in Path |-> IF a \in done THEN [fs[a] EXCEPT !.leaf = RefreshTo(a)]
                                          ELSE fs[a]]
  BY <1>2 DEF RefreshAncestors
<1>4. done \subseteq Above[p] /\ Above[p] \subseteq Path \ {p}
  BY <1>2, PathsAbove DEF NeedsRefresh
<1>5. ASSUME NEW a \in done
      PROVE  /\ a \in Path /\ fs'[a] \in Names /\ fs'[a].leaf = RefreshTo(a)
             /\ RefreshTo(a) # Absent
             /\ fs'[a].prepared = fs[a].prepared /\ fs'[a].displaced = fs[a].displaced
  <2>1. a \in Path /\ RefreshTo(a) # Absent
    BY <1>2, <1>4 DEF NeedsRefresh
  <2>2. RefreshTo(a) \in Object \cup {Absent}
    BY <2>1, PlanTyped DEF RefreshTo
  <2>3. fs'[a] = [fs[a] EXCEPT !.leaf = RefreshTo(a)] /\ fs[a] \in Names
    BY <1>1, <1>3, <2>1
  <2> QED BY <2>1, <2>2, <2>3, WithLeaf
<1>6. \A q \in Path \ done : fs'[q] = fs[q]
  BY <1>3
<1>7. fs' \in [Path -> Names]
  <2>1. \A q \in Path : fs'[q] \in Names
    BY <1>1, <1>5, <1>6
  <2>2. fs' = [q \in Path |-> fs'[q]]
    BY <1>3
  <2> QED BY <2>1, <2>2
<1>8. Touches(p)
  BY <1>2, <1>4, <1>5, <1>6 DEF Touches, Refreshable
<1>9. ASSUME done = NeedsRefresh(p), NEW a \in Above[p], RefreshTo(a) # Absent
      PROVE  fs'[a].leaf = RefreshTo(a)
  <2>1. CASE a \in done
    BY <1>5, <2>1
  <2>2. CASE a \notin done
    BY <1>4, <1>6, <1>9, <2>2 DEF NeedsRefresh
  <2> QED BY <2>1, <2>2
<1>10. /\ plan' = plan /\ call' = [call EXCEPT !.at = "returned"]
       /\ answer' \in {"completed", "indeterminate"}
       /\ answer' = "completed" => done = NeedsRefresh(p)
  BY <1>2 DEF Answer
<1>11. effects' = effects
  BY <1>2 DEF RefreshAncestors
<1>12. fs'[p] = fs[p]
  BY <1>4, <1>6
<1> QED BY <1>7, <1>8, <1>9, <1>10, <1>11, <1>12

\* What becomes of the path itself.
Becomes(p) ==
  \/ fs'[p] = fs[p]
  \/ Drawn(p, fs'[p])
  \/ IsDir(fs[p].leaf) /\ IsDir(fs'[p].leaf)
       /\ fs'[p].prepared = fs[p].prepared /\ fs'[p].displaced = fs[p].displaced

LEMMA ShapeTouches ==
  ASSUME TypeOK, NEW p \in Path, Shape(p), ~DropBelow(p)
  PROVE  Touches(p) /\ fs' \in [Path -> Names] /\ Becomes(p)
<1>1. fs \in [Path -> Names]
  BY DEF TypeOK, Names
<1>2. CASE fs' = fs
  BY <1>1, <1>2 DEF Touches, Becomes
<1>3. CASE Redrawn(p)
  BY <1>3, TreeTouches DEF Redrawn, Becomes
<1>4. CASE Reset(p)
  <2>1. PICK object \in Object :
          /\ IsDir(fs[p].leaf) /\ IsDir(object)
          /\ [fs[p] EXCEPT !.leaf = object] \in Names
          /\ fs' = [fs EXCEPT ![p] = [fs[p] EXCEPT !.leaf = object]]
    BY <1>4 DEF Reset
  <2>2. /\ fs' \in [Path -> Names] /\ fs'[p] = [fs[p] EXCEPT !.leaf = object]
        /\ \A q \in Path \ {p} : fs'[q] = fs[q]
    BY <1>1, <2>1
  <2>3. /\ fs'[p].leaf = object /\ fs'[p].prepared = fs[p].prepared
        /\ fs'[p].displaced = fs[p].displaced
    BY <1>1, <2>2, WithLeaf
  <2> QED BY <2>1, <2>2, <2>3 DEF Touches, Becomes
<1>5. CASE Refreshed(p)
  BY <1>5, RefreshedTouches DEF Becomes
<1> QED BY <1>2, <1>3, <1>4, <1>5 DEF Shape

\* remove_recovery_tree takes a displaced object below p, another path.
LEMMA DropBelowTouches ==
  ASSUME TypeOK, NEW p \in Path, DropBelow(p)
  PROVE  /\ fs' \in [Path -> Names]
         /\ \E q \in Path :
              /\ p \in Above[q] /\ fs[q].displaced # Absent /\ ~HasEntries(q)
              /\ Touches(q) /\ fs' = Tree(q, [fs[q] EXCEPT !.displaced = Absent])
              /\ fs'[q].leaf = fs[q].leaf /\ fs'[q].prepared = fs[q].prepared
              /\ fs'[q].displaced = Absent
         /\ UNCHANGED <<faults, plan, effects, dirty, call, answer>>
<1>1. PICK q \in Path :
        /\ p \in Above[q] /\ fs[q].displaced # Absent /\ ~HasEntries(q)
        /\ Change(q, [fs[q] EXCEPT !.displaced = Absent])
  BY DEF DropBelow
<1>2. fs[q] \in Names
  BY DEF TypeOK, Names
<1>3. PICK w \in Names : w = [fs[q] EXCEPT !.displaced = Absent]
  <2>1. [fs[q] EXCEPT !.displaced = Absent] \in Names
    BY <1>2 DEF Names
  <2> QED BY ONLY <2>1
<1>4. w.leaf = fs[q].leaf /\ w.prepared = fs[q].prepared /\ w.displaced = Absent
  BY <1>2, <1>3 DEF Names
<1>5. fs' = Tree(q, w)
  BY <1>1, <1>3 DEF Change
<1>6. Touches(q) /\ fs' \in [Path -> Names] /\ fs'[q] = w
  BY <1>5, TreeTouches
<1>7. UNCHANGED <<faults, plan, effects, dirty, call, answer>>
  BY DEF DropBelow
<1>8. /\ p \in Above[q] /\ fs[q].displaced # Absent /\ ~HasEntries(q)
      /\ Touches(q) /\ fs' = Tree(q, [fs[q] EXCEPT !.displaced = Absent])
      /\ fs'[q].leaf = fs[q].leaf /\ fs'[q].prepared = fs[q].prepared
      /\ fs'[q].displaced = Absent
  BY <1>1, <1>3, <1>4, <1>5, <1>6
<1> QED BY <1>6, <1>7, <1>8

\* A path beside the one a step is about keeps to its names.
LEMMA TouchedIsKept ==
  ASSUME TypeOK, NEW p \in Path, Touches(p), UNCHANGED <<plan, turn>>,
         NEW q \in Path \ {p}, Kept(q)
  PROVE  Kept(q)'
<1>1. fs[q] \in Names
  BY DEF TypeOK, Names
<1>2. /\ fs'[q].prepared = fs[q].prepared /\ fs'[q].displaced = fs[q].displaced
  BY DEF Touches
<1>3. Fixed(fs'[q].leaf)
  <2>1. CASE fs'[q].leaf = fs[q].leaf
    BY <2>1 DEF Kept
  <2>2. CASE IsDir(fs[q].leaf) /\ fs'[q].leaf = [fs[q].leaf EXCEPT !.moved = TRUE]
    <3>1. fs[q].leaf \in Object
      BY <1>1, <2>2 DEF Names, IsDir
    <3> QED BY <2>2, <3>1, MovedIsAlike DEF Fixed, IsDir, Alike
  <2>3. CASE RefreshTo(q) # Absent /\ fs'[q].leaf = RefreshTo(q)
    BY <2>3, PlanUnmoved DEF RefreshTo, Fixed
  <2> QED BY <2>1, <2>2, <2>3 DEF Touches
<1>4. Displaceable(q)' <=> Displaceable(q)
  BY DEF Displaceable
<1>5. Intended' = Intended
  BY DEF Intended
<1> QED BY <1>2, <1>3, <1>4, <1>5 DEF Kept, Clear

LEMMA OwnIsKept ==
  ASSUME TypeOK, NEW p \in Path, Becomes(p), UNCHANGED <<plan, turn>>, p \in Intended, Kept(p)
  PROVE  Kept(p)'
<1>1. /\ Fixed(plan.before[p]) /\ Fixed(plan.incoming[p]) /\ Fixed(Absent)
      /\ Fixed(fs[p].leaf) /\ Fixed(fs[p].prepared) /\ Fixed(fs[p].displaced)
  BY PlanUnmoved DEF Fixed, Kept
<1>2. Fixed(fs'[p].leaf) /\ Fixed(fs'[p].prepared) /\ Fixed(fs'[p].displaced)
  <2>1. CASE Drawn(p, fs'[p])
    BY <1>1, <2>1 DEF Drawn
  <2>2. IsDir(fs'[p].leaf) => Fixed(fs'[p].leaf)
    BY DEF Fixed
  <2> QED BY <1>1, <2>1, <2>2 DEF Becomes
<1>3. Displaceable(p)' <=> Displaceable(p)
  BY DEF Displaceable
<1>4. fs'[p].displaced # Absent => Displaceable(p)
  BY DEF Becomes, Drawn, Kept
<1>5. Intended' = Intended
  BY DEF Intended
<1> QED BY <1>2, <1>3, <1>4, <1>5 DEF Kept

LEMMA MechanismRuns ==
  ASSUME NEW p \in Path, Mechanism(p)
  PROVE  call.at # "idle" /\ call # NoCall
<1>1. call.at # "idle"
  <2>1. CASE PublishIncoming(p) \/ Prepare(p)
    BY ONLY <2>1 DEF PublishIncoming, Prepare, Running
  <2>2. CASE Displace(p) \/ Activate(p)
    BY ONLY <2>2 DEF Displace, Activate, Running
  <2>3. CASE UpdateDirectory(p) \/ FinishUpdate(p)
    BY ONLY <2>3 DEF UpdateDirectory, FinishUpdate, Running
  <2>4. CASE Remove(p) \/ Take(p)
    BY ONLY <2>4 DEF Remove, Take, Running
  <2>5. CASE Recover(p) \/ Clean(p)
    BY ONLY <2>5 DEF Recover, Clean, Running
  <2>6. CASE Unpublish(p) \/ Restore(p)
    BY ONLY <2>6 DEF Unpublish, Restore, Running
  <2>7. CASE Withdraw(p) \/ Copy(p)
    BY ONLY <2>7 DEF Withdraw, Copy, Running
  <2>8. CASE Vacate(p) \/ Install(p)
    BY ONLY <2>8 DEF Vacate, Install, Running
  <2>9. CASE Readmit(p) \/ Refresh(p)
    BY ONLY <2>9 DEF Readmit, Refresh, Running
  <2>10. CASE DiscardRecovery(p) \/ DropBelow(p) \/ Drop(p)
    BY ONLY <2>10 DEF DiscardRecovery, DropBelow, Drop, Running
  <2> QED BY <2>1, <2>2, <2>3, <2>4, <2>5, <2>6, <2>7, <2>8, <2>9, <2>10 DEF Mechanism
<1>2. NoCall.at = "idle"
  BY ONLY DEF NoCall
<1> QED BY ONLY <1>1, <1>2

LEMMA MechanismKept ==
  ASSUME ActiveInv, KeptInv, UNCHANGED owner, NEW p \in Path, Mechanism(p)
  PROVE  /\ fs' \in [Path -> Names] /\ plan' = plan
         /\ \A q \in Path : Kept(q)'
<1>1. TypeOK /\ Shape(p) /\ Noted(p) /\ call # NoCall
  <2>1. TypeOK
    BY DEF ActiveInv
  <2> QED BY <2>1, MechanismShape, StepNotes, MechanismRuns
<1>2. call.path = p /\ p \in Intended
  BY <1>1 DEF Noted, ActiveInv, Issued
<1>3. plan' = plan /\ turn' = turn
  BY MechanismStepKeeps DEF StepKeeps, owner
<1>4. CASE ~DropBelow(p)
  <2>1. Touches(p) /\ fs' \in [Path -> Names] /\ Becomes(p)
    BY <1>1, <1>4, ShapeTouches
  <2> QED BY <1>1, <1>2, <1>3, <2>1, TouchedIsKept, OwnIsKept DEF KeptInv
<1>5. CASE DropBelow(p)
  <2>1. PICK q \in Path :
          /\ Touches(q) /\ fs'[q].leaf = fs[q].leaf
          /\ fs'[q].prepared = fs[q].prepared /\ fs'[q].displaced = Absent
    BY <1>1, <1>5, DropBelowTouches
  <2>2. fs' \in [Path -> Names]
    BY <1>1, <1>5, DropBelowTouches
  <2>3. Intended' = Intended
    BY <1>3 DEF Intended
  <2>4. Kept(q)'
    BY <1>3, <2>1, <2>3 DEF KeptInv, Kept, Clear, Fixed
  <2> QED BY <1>1, <1>3, <2>1, <2>2, <2>4, TouchedIsKept DEF KeptInv
<1> QED BY <1>4, <1>5

-----------------------------------------------------------------------------
(* The points of an operation.                                             *)

\* A point Course says nothing of.
LEMMA OpenCourse ==
  ASSUME NEW p, NEW op, NEW at,
         at \notin {"prepare", "displace", "activate", "unpublish", "restore", "withdraw",
                    "readmit", "refresh"}
  PROVE  Course(p, op, at)'
BY DEF Course

\* The steps that publish, remove or discard.
LEMMA ForwardCourse ==
  ASSUME ActiveInv, KeptInv, UNCHANGED owner, NEW p \in Path, call.path = p,
         \/ PublishIncoming(p) \/ Prepare(p) \/ Displace(p) \/ Activate(p)
         \/ Remove(p) \/ Take(p) \/ Refresh(p)
         \/ DiscardRecovery(p) \/ DropBelow(p) \/ Drop(p)
  PROVE  Course(call.path, call.op, call.at)'
<1>1. /\ TypeOK /\ fs[p] \in Names /\ fs \in [Path -> Names] /\ plan' = plan
      /\ plan.incoming[p] \in Object \cup {Absent}
      /\ Absent \in Object \cup {Absent}
  <2>1. plan' = plan
    BY MechanismStepKeeps DEF Mechanism, StepKeeps
  <2>2. TypeOK /\ fs \in [Path -> Names] /\ fs[p] \in Names
    BY DEF ActiveInv, TypeOK, Names
  <2> QED BY <2>1, <2>2, PlanTyped
<1>2. ASSUME call'.path = p, call'.at = "returned"
      PROVE  Course(call.path, call.op, call.at)'
  BY <1>2, OpenCourse
<1>3. CASE \E outcome : Answer(outcome)
  BY <1>2, <1>3 DEF Answer, TypeOK, ActiveInv
<1>4. CASE DropBelow(p)
  BY <1>4 DEF DropBelow, Running, Course
<1>5. CASE DiscardRecovery(p)
  <2>1. CASE Goto("drop")
    BY <1>1, <2>1 DEF Goto, TypeOK, Course
  <2> QED BY <1>3, <1>5, <2>1 DEF DiscardRecovery, Refuse
<1>6. CASE Drop(p)
  <2>1. CASE Goto("refresh")
    <3>1. call.op = "discard"
      BY <1>6, OwnContext DEF Drop, Placed, At
    <3> QED BY <1>1, <2>1, <3>1 DEF Goto, TypeOK, Course
  <2> QED BY <1>3, <1>6, <2>1 DEF Drop, Fails, Refuse
<1>7. CASE Take(p)
  <2>1. CASE Goto("refresh")
    <3>1. call.op = "remove"
      BY <1>7, OwnContext DEF Take, Placed, At
    <3> QED BY <1>1, <2>1, <3>1 DEF Goto, TypeOK, Course
  <2> QED BY <1>3, <1>7, <2>1 DEF Take, Fails, Refuse
<1>8. CASE Remove(p)
  <2>1. CASE Goto("take")
    BY <1>1, <2>1 DEF Goto, TypeOK, Course
  <2> QED BY <1>3, <1>8, <2>1 DEF Remove, Refuse
<1>9. CASE Refresh(p)
  BY <1>3, <1>9 DEF Refresh, Refreshed
<1>10. CASE PublishIncoming(p)
  <2>1. CASE Goto("update")
    BY <1>1, <2>1 DEF Goto, TypeOK, Course
  <2>2. CASE Goto("prepare") /\ Admitted(p)
             /\ ~(IsDir(plan.incoming[p]) /\ IsDir(fs[p].leaf))
    BY <1>1, <2>2 DEF Goto, TypeOK, Course, Admitted, BothDirs
  <2> QED BY <1>3, <1>10, <2>1, <2>2 DEF PublishIncoming, Refuse
<1>11. CASE Prepare(p)
  <2>1. /\ call.op = "publish" /\ plan.effect[p] = "incoming"
        /\ Admitted(p) /\ ~BothDirs(fs[p].leaf, plan.incoming[p])
    BY <1>11, OwnContext DEF Prepare, Placed, At
  <2>2. CASE Goto("displace") /\ Displaces(p)
    <3>1. Displaceable(p)
      BY <2>1, <2>2 DEF Displaces, Displaceable, Admitted, BothDirs
    <3>2. Displaceable(p)'
      BY <1>1, <3>1 DEF Displaceable
    <3> QED BY <1>1, <2>2, <3>2 DEF Goto, TypeOK, Course
  <2>3. CASE Goto("activate") /\ ~Displaces(p)
             /\ fs' = Tree(p, [fs[p] EXCEPT !.prepared = plan.incoming[p]])
    <3>1. ~IsDir(fs[p].leaf)
      BY <2>1, <2>3 DEF Displaces, BothDirs, IsDir
    <3>2. PICK w \in Names : w = [fs[p] EXCEPT !.prepared = plan.incoming[p]]
      <4>1. [fs[p] EXCEPT !.prepared = plan.incoming[p]] \in Names
        BY <1>1 DEF Names
      <4> QED BY ONLY <4>1
    <3>3. fs'[p] = w
      <4>1. fs' = Tree(p, w)
        BY <2>3, <3>2
      <4> QED BY <1>1, <4>1, TreeTouches
    <3>4. fs'[p].leaf = fs[p].leaf
      BY ONLY <1>1, <3>2, <3>3 DEF Names
    <3> QED BY <1>1, <2>3, <3>1, <3>4 DEF Goto, TypeOK, Course
  <2> QED BY <1>3, <1>11, <2>2, <2>3 DEF Prepare, Abandon, Fails, Refuse
<1>12. CASE Displace(p)
  <2>1. CASE Goto("activate")
             /\ fs' = Tree(p, [fs[p] EXCEPT !.displaced = fs[p].leaf, !.leaf = Absent])
    <3>1. PICK w \in Names : w = [fs[p] EXCEPT !.displaced = fs[p].leaf, !.leaf = Absent]
      <4>1. [fs[p] EXCEPT !.displaced = fs[p].leaf, !.leaf = Absent] \in Names
        BY <1>1 DEF Names
      <4> QED BY ONLY <4>1
    <3>2. fs'[p] = w
      BY <1>1, <2>1, <3>1, TreeTouches
    <3>3. fs'[p].leaf = Absent
      BY ONLY <1>1, <3>1, <3>2 DEF Names
    <3> QED BY <1>1, <2>1, <3>3 DEF Goto, TypeOK, Course, IsDir
  <2> QED BY <1>3, <1>12, <2>1 DEF Displace, Change, Abandon
<1>13. CASE Activate(p)
  <2>1. CASE Goto("refresh")
    <3>1. call.op = "publish"
      BY <1>13, OwnContext DEF Activate, Placed, At
    <3> QED BY <1>1, <2>1, <3>1 DEF Goto, TypeOK, Course
  <2> QED BY <1>3, <1>13, <2>1 DEF Activate, Abandon
<1> QED BY <1>4, <1>5, <1>6, <1>7, <1>8, <1>9, <1>10, <1>11, <1>12, <1>13

\* The steps that recover, and those that update a directory.
LEMMA BackwardCourse ==
  ASSUME ActiveInv, KeptInv, UNCHANGED owner, NEW p \in Path, call.path = p,
         \/ UpdateDirectory(p) \/ FinishUpdate(p)
         \/ Recover(p) \/ Clean(p) \/ Unpublish(p) \/ Restore(p) \/ Withdraw(p)
         \/ Copy(p) \/ Vacate(p) \/ Install(p) \/ Readmit(p)
  PROVE  Course(call.path, call.op, call.at)'
<1>1. /\ TypeOK /\ fs[p] \in Names /\ fs \in [Path -> Names] /\ call # NoCall
      /\ plan.before[p] \in Object \cup {Absent}
      /\ Absent \in Object \cup {Absent}
  <2>1. TypeOK /\ fs \in [Path -> Names] /\ fs[p] \in Names
    BY DEF ActiveInv, TypeOK, Names
  <2>2. call # NoCall
    BY DEF UpdateDirectory, FinishUpdate, Recover, Clean, Unpublish, Restore, Withdraw, Copy,
           Vacate, Install, Readmit, Running, NoCall
  <2> QED BY <2>1, <2>2, PlanTyped
<1> DEFINE Answers == \E outcome : Answer(outcome)
<1>2. CASE Answers
  <2>1. call'.path = p /\ call'.at = "returned"
    BY <1>1, <1>2 DEF Answer, TypeOK
  <2> QED BY <2>1, OpenCourse
<1>3. CASE Recover(p) /\ ~Answers
  <2>1. fs' = fs /\ call.op = "recover"
    BY <1>3 DEF Recover, Refuse
  <2>2. PICK point :
          /\ Goto(point)
          /\ \/ /\ point = IF fs[p].prepared # Absent THEN "clean"
                           ELSE IF fs[p].leaf # Absent THEN "unpublish" ELSE "restore"
             \/ point \in {"readmit", "withdraw"} /\ Clear(p)
             \/ point \in {"update", "copy"}
    BY <1>2, <1>3 DEF Recover, Refuse
  <2>3. call'.at = point /\ call'.path = p
    BY <1>1, <2>2 DEF Goto, TypeOK
  <2> QED BY <2>1, <2>2, <2>3 DEF Course, Clear
<1>4. CASE UpdateDirectory(p) \/ FinishUpdate(p)
  <2>1. Clear(p) /\ IsDir(fs[p].leaf)
    BY <1>4, UpdateContext DEF UpdateDirectory, FinishUpdate, BothDirs
  <2>2. CASE Updated(p) /\ Clear(p)'
    <3>1. CASE call.op = "publish" /\ Goto("refresh")
      BY <1>1, <3>1 DEF Goto, TypeOK, Course
    <3>2. CASE Goto("readmit")
      BY <1>1, <2>2, <3>2 DEF Goto, TypeOK, Course
    <3> QED BY <2>2, <3>1, <3>2 DEF Updated
  <2>3. CASE Goto("finish_update")
    BY <1>1, <2>3 DEF Goto, TypeOK, Course
  <2>4. fs' = fs \/ SetDirectory(p, Wanted(p).value, FALSE) => Clear(p)'
    BY <1>1, <2>1 DEF SetDirectory, Clear, Names
  <2> QED BY <1>2, <1>4, <2>2, <2>3, <2>4 DEF UpdateDirectory, FinishUpdate, Fails, Refuse
<1>5. CASE Clean(p) /\ ~Answers
  <2>1. PICK w \in Names : w = [fs[p] EXCEPT !.prepared = Absent]
    <3>1. [fs[p] EXCEPT !.prepared = Absent] \in Names
      BY <1>1 DEF Names
    <3> QED BY ONLY <3>1
  <2>2. /\ fs' = Tree(p, w)
        /\ \/ Goto("restore")
           \/ fs[p].displaced = Absent /\ Goto("readmit")
    BY <1>5, <2>1 DEF Clean, Fails, Refuse
  <2>3. fs'[p] = w
    BY <1>1, <2>2, TreeTouches
  <2>4. fs'[p].prepared = Absent /\ fs'[p].displaced = fs[p].displaced
    BY ONLY <1>1, <2>1, <2>3 DEF Names
  <2>5. /\ call'.path = p /\ call'.op = call.op /\ call'.at \in {"restore", "readmit"}
        /\ call'.at = "readmit" => Clear(p)'
        /\ call'.at = "restore" => fs'[p].prepared = Absent
    BY <1>1, <2>2, <2>4 DEF Goto, TypeOK, Clear
  <2> QED BY <2>5 DEF Course
<1>6. CASE (Unpublish(p) \/ Withdraw(p)) /\ ~Answers
  <2>1. PICK w \in Names : w = [fs[p] EXCEPT !.leaf = Absent]
    <3>1. [fs[p] EXCEPT !.leaf = Absent] \in Names
      BY <1>1 DEF Names
    <3> QED BY ONLY <3>1
  <2>2. /\ fs' = Tree(p, w)
        /\ \/ Goto("restore") /\ fs[p].prepared = Absent
           \/ Goto("readmit") /\ Clear(p)
    BY <1>1, <1>6, <2>1 DEF Unpublish, Withdraw, Fails, Refuse, Change, KeptInv, Course, Running
  <2>3. fs'[p] = w
    BY <1>1, <2>2, TreeTouches
  <2>4. fs'[p].prepared = fs[p].prepared /\ fs'[p].displaced = fs[p].displaced
    BY ONLY <1>1, <2>1, <2>3 DEF Names
  <2>5. /\ call'.path = p /\ call'.op = call.op /\ call'.at \in {"restore", "readmit"}
        /\ call'.at = "readmit" => Clear(p)'
        /\ call'.at = "restore" => fs'[p].prepared = Absent
    BY <1>1, <2>2, <2>4 DEF Goto, TypeOK, Clear
  <2> QED BY <2>5 DEF Course
<1>7. CASE Restore(p) /\ ~Answers
  <2>1. PICK w \in Names : w = [fs[p] EXCEPT !.leaf = fs[p].displaced, !.displaced = Absent]
    <3>1. [fs[p] EXCEPT !.leaf = fs[p].displaced, !.displaced = Absent] \in Names
      BY <1>1 DEF Names
    <3> QED BY ONLY <3>1
  <2>2. fs' = Tree(p, w) /\ Goto("readmit") /\ fs[p].prepared = Absent
    BY <1>1, <1>7, <2>1 DEF Restore, Fails, Refuse, Change, KeptInv, Course, Running
  <2>3. fs'[p] = w
    BY <1>1, <2>2, TreeTouches
  <2>4. fs'[p].prepared = fs[p].prepared /\ fs'[p].displaced = Absent
    BY ONLY <1>1, <2>1, <2>3 DEF Names
  <2>5. /\ call'.path = p /\ call'.op = call.op /\ call'.at \in {"restore", "readmit"}
        /\ call'.at = "readmit" => Clear(p)'
        /\ call'.at = "restore" => fs'[p].prepared = Absent
    BY <1>1, <2>2, <2>4 DEF Goto, TypeOK, Clear
  <2> QED BY <2>5 DEF Course
<1>8. CASE (Copy(p) \/ Vacate(p)) /\ ~Answers
  <2>1. PICK point \in {"vacate", "install"} : Goto(point)
    BY <1>8 DEF Copy, Vacate, Abandon, Fails, Refuse
  <2> QED BY <1>1, <2>1 DEF Goto, TypeOK, Course
<1>9. CASE Install(p) /\ ~Answers
  <2>1. fs[p].displaced = Absent
    BY <1>9, OwnContext DEF Install, Placed, At
  <2>2. PICK w \in Names : w = Published(p)
    <3>1. Published(p) \in Names
      BY <1>1 DEF Names, Published
    <3> QED BY ONLY <3>1
  <2>3. fs' = Tree(p, w) /\ Goto("readmit")
    BY <1>9, <2>2 DEF Install, Abandon, Change
  <2>4. fs'[p] = w
    BY <1>1, <2>3, TreeTouches
  <2>5. fs'[p].prepared = Absent /\ fs'[p].displaced = fs[p].displaced
    BY ONLY <1>1, <2>2, <2>4 DEF Names, Published
  <2>6. call'.path = p /\ call'.at = "readmit" /\ Clear(p)'
    BY <1>1, <2>1, <2>3, <2>5 DEF Goto, TypeOK, Clear
  <2> QED BY <2>6 DEF Course
<1>10. CASE Readmit(p)
  BY <1>2, <1>10 DEF Readmit, Refuse, Refreshed
<1> QED BY <1>2, <1>3, <1>4, <1>5, <1>6, <1>7, <1>8, <1>9, <1>10

-----------------------------------------------------------------------------
(* The steps beside an operation, as the attempt sees them.                *)

\* Cancel, or a result that a store failed to give.
GivesUp ==
  /\ call = NoCall /\ phase = "forward" /\ phase' = "recover"
  /\ UNCHANGED <<namespace, turn, terminal, undone, fact, up>>

Synchronizes ==
  /\ call = NoCall /\ fact = "none" /\ fact' # "none" /\ phase \in {"applied", "restored"}
  /\ UNCHANGED <<faults, plan, fs, effects, call, answer, phase, turn, terminal, undone, up>>

Reopens ==
  /\ up = "down"
  /\ UNCHANGED <<faults, plan, fs, call, answer, turn, terminal, undone, fact>>
  /\ \/ up' = "refused" /\ UNCHANGED <<effects, phase>>
     \/ /\ up' = "up"
        /\ \A p \in Completed : Established(p)
        /\ effects' = [p \in Path |-> IF p \in Completed THEN "completed" ELSE "none"]
        /\ phase' = IF phase = "forward" /\ \E p \in Intended : terminal[p] = "none"
                      THEN "recover" ELSE phase

Engine(p) ==
  \/ ExecuteActive(p) \/ RecordEffect(p) \/ RecoverPath(p) \/ RecordRecovery(p)
  \/ DiscardPath(p) \/ RecordDiscard(p)

\* What a step of the transaction is to the attempt.
LEMMA StepCases ==
  ASSUME ActiveInv, [BackendNext]_<<vars, backend>>
  PROVE  \/ UNCHANGED vars
         \/ \E p \in Path : Mechanism(p) /\ UNCHANGED owner
         \/ \E p \in Path : Engine(p)
         \/ \E p \in Path : Lose(p)
         \/ GivesUp
         \/ Conclude
         \/ Synchronizes
         \/ Crash \/ Throw
         \/ Reopens
<1>1. StagePayloads \/ PublishCompletedEvidence \/ LosePower => UNCHANGED vars
  BY DEF StagePayloads, PublishCompletedEvidence, LosePower, Keep, StoreFails
<1>2. \A p \in Path : CaptureOld(p) \/ ExecuteRejected(p) => UNCHANGED vars
  BY DEF CaptureOld, ExecuteRejected, Keep, StoreFails
<1>3. \A domain \in Domain : SynchronizeStore(domain) => UNCHANGED vars
  BY DEF SynchronizeStore
<1>4. RecordResult => UNCHANGED vars \/ GivesUp
  <2> SUFFICES ASSUME RecordResult PROVE UNCHANGED vars \/ GivesUp
    OBVIOUS
  <2>1. /\ UNCHANGED <<namespace, turn, terminal, undone, fact, up>> /\ reply # NoReply
        /\ phase' = IF reply.outcome = "failed" THEN "recover" ELSE phase
    BY DEF RecordResult
  <2>2. call = NoCall /\ (reply.outcome = "failed" => phase = "forward")
    BY <2>1 DEF ActiveInv, Exclusive
  <2> QED BY <2>1, <2>2 DEF GivesUp, vars, owner
<1>5. \A p \in Path : BackendExecuteActive(p) \/ BackendRecover(p) => Engine(p)
  BY DEF BackendExecuteActive, BackendRecover, Engine
<1>6. SynchronizeActive => Synchronizes
  BY DEF SynchronizeActive, Synchronize, Synchronizes, namespace
<1>7. BackendConclude => Conclude
  BY DEF BackendConclude
<1>8. Cancel => GivesUp
  BY DEF Cancel, GivesUp
<1>9. ActiveStep => \/ \E p \in Path : Mechanism(p) /\ UNCHANGED owner
                    \/ \E p \in Path : Engine(p)
                    \/ \E p \in Path : Lose(p)
                    \/ GivesUp
  BY <1>8 DEF ActiveStep, Engine
<1>10. LoadRestart => Reopens
  BY DEF LoadRestart, Restart, Reopens, namespace
<1>11. UNCHANGED <<vars, backend>> => UNCHANGED vars
  OBVIOUS
<1> QED BY <1>1, <1>2, <1>3, <1>4, <1>5, <1>6, <1>7, <1>9, <1>10, <1>11 DEF BackendNext

\* Between the operations nothing but the call moves.
LEMMA EngineMoves ==
  ASSUME ActiveInv,
         \/ UNCHANGED vars
         \/ \E p \in Path : Engine(p)
         \/ GivesUp \/ Conclude \/ Synchronizes \/ Crash \/ Throw \/ Reopens
  PROVE  /\ fs' = fs /\ plan' = plan /\ faults' = faults
         /\ Intended \subseteq Intended'
         /\ call' = call \/ call' = NoCall \/ call'.at = "enter"
<1>1. ASSUME NEW p \in Path, ExecuteActive(p)
      PROVE  /\ fs' = fs /\ plan' = plan /\ faults' = faults /\ Intended \subseteq Intended'
             /\ call'.at = "enter"
  <2>1. /\ fs' = fs /\ plan' = plan /\ faults' = faults /\ call'.at = "enter"
        /\ turn' = [turn EXCEPT ![p] = Cardinality(Intended) + 1] /\ p \notin Intended
    BY <1>1 DEF ExecuteActive, Issue
  <2>2. \A q \in Path \ {p} : turn'[q] = turn[q]
    BY <2>1 DEF ActiveInv, TypeOK
  <2> QED BY <2>1, <2>2 DEF Intended
<1>2. ASSUME NEW p \in Path, RecoverPath(p) \/ DiscardPath(p)
      PROVE  fs' = fs /\ plan' = plan /\ faults' = faults /\ turn' = turn /\ call'.at = "enter"
  BY <1>2 DEF RecoverPath, DiscardPath, Issue, owner
<1>3. ASSUME NEW p \in Path, RecordEffect(p) \/ RecordRecovery(p) \/ RecordDiscard(p)
      PROVE  fs' = fs /\ plan' = plan /\ faults' = faults /\ turn' = turn /\ call' = NoCall
  BY <1>3 DEF RecordEffect, RecordRecovery, RecordDiscard, Returned
<1>4. UNCHANGED vars \/ GivesUp \/ Conclude \/ Synchronizes \/ Reopens =>
        fs' = fs /\ plan' = plan /\ faults' = faults /\ turn' = turn /\ call' = call
  BY DEF GivesUp, Conclude, Synchronizes, Reopens, vars, namespace, owner
<1>5. Crash \/ Throw =>
        fs' = fs /\ plan' = plan /\ faults' = faults /\ turn' = turn /\ call' = NoCall
  BY DEF Crash, Throw, Forget
<1>6. turn' = turn => Intended \subseteq Intended'
  BY DEF Intended
<1> QED BY <1>1, <1>2, <1>3, <1>4, <1>5, <1>6 DEF Engine

-----------------------------------------------------------------------------
(* The names of every path, in every state.                                *)

LEMMA KeptStays ==
  ASSUME KeptInv, UNCHANGED <<fs, plan>>, Intended \subseteq Intended',
         call' = call \/ call' = NoCall \/ call'.at = "enter"
  PROVE  KeptInv'
<1>1. ASSUME NEW p \in Path PROVE Kept(p)'
  <2>1. Kept(p)
    BY DEF KeptInv
  <2> QED BY <2>1 DEF Kept, Clear, Displaceable
<1>2. CASE call' = call
  BY <1>1, <1>2 DEF KeptInv, Course, Displaceable, Clear
<1>3. CASE call' = NoCall \/ call'.at = "enter"
  BY <1>1, <1>3 DEF KeptInv, Course
<1> QED BY <1>2, <1>3

\* A displaced object that goes missing.
LEMMA LoseTouches ==
  ASSUME TypeOK, NEW p \in Path, Lose(p)
  PROVE  /\ Touches(p) /\ fs' \in [Path -> Names]
         /\ fs'[p].leaf = fs[p].leaf /\ fs'[p].prepared = fs[p].prepared
         /\ fs'[p].displaced = Absent /\ fs[p].displaced # Absent
         /\ ~HasEntries(p) /\ call = NoCall /\ phase = "recover" /\ up = "up"
         /\ UNCHANGED <<faults, plan, effects, dirty, call, answer, unsynced>>
         /\ UNCHANGED owner
<1>1. fs[p] \in Names
  BY DEF TypeOK, Names
<1>2. PICK w \in Names : w = [fs[p] EXCEPT !.displaced = Absent]
  <2>1. [fs[p] EXCEPT !.displaced = Absent] \in Names
    BY <1>1 DEF Names
  <2> QED BY ONLY <2>1
<1>3. w.leaf = fs[p].leaf /\ w.prepared = fs[p].prepared /\ w.displaced = Absent
  BY <1>1, <1>2 DEF Names
<1>4. fs' = Tree(p, w)
  BY <1>2 DEF Lose
<1>5. Touches(p) /\ fs' \in [Path -> Names] /\ fs'[p] = w
  BY <1>4, TreeTouches
<1>6. /\ fs[p].displaced # Absent /\ ~HasEntries(p) /\ call = NoCall /\ phase = "recover"
      /\ up = "up"
      /\ UNCHANGED <<faults, plan, effects, dirty, call, answer, unsynced>> /\ UNCHANGED owner
  BY DEF Lose
<1> QED BY <1>3, <1>5, <1>6

LEMMA KeptNext ==
  ASSUME ActiveInv, KeptInv, [BackendNext]_<<vars, backend>>
  PROVE  KeptInv'
<1>1. TypeOK
  BY DEF ActiveInv
<1>2. ASSUME NEW p \in Path, Mechanism(p), UNCHANGED owner
      PROVE  KeptInv'
  <2>1. \A q \in Path : Kept(q)'
    BY <1>2, MechanismKept
  <2>2. call.path = p
    BY <1>1, <1>2, StepNotes DEF Noted
  <2>3. Course(call.path, call.op, call.at)'
    BY <1>2, <2>2, ForwardCourse, BackwardCourse DEF Mechanism
  <2> QED BY <2>1, <2>3 DEF KeptInv
<1>3. ASSUME NEW p \in Path, Lose(p)
      PROVE  KeptInv'
  <2>1. /\ Touches(p) /\ plan' = plan /\ turn' = turn /\ call' = NoCall
        /\ fs'[p].leaf = fs[p].leaf /\ fs'[p].prepared = fs[p].prepared
        /\ fs'[p].displaced = Absent
    BY <1>1, <1>3, LoseTouches DEF owner
  <2>2. Intended' = Intended
    BY <2>1 DEF Intended
  <2>3. Kept(p)'
    BY <2>1, <2>2 DEF KeptInv, Kept, Clear, Fixed
  <2> QED BY <1>1, <2>1, <2>3, TouchedIsKept DEF KeptInv
<1>4. CASE \/ UNCHANGED vars
           \/ \E p \in Path : Engine(p)
           \/ GivesUp \/ Conclude \/ Synchronizes \/ Crash \/ Throw \/ Reopens
  BY <1>4, EngineMoves, KeptStays
<1> QED BY <1>2, <1>3, <1>4, StepCases

LEMMA InitKept == BackendInit => KeptInv
<1> SUFFICES ASSUME BackendInit PROVE KeptInv
  OBVIOUS
<1>1. TypeOK
  BY InitActive DEF ActiveInv
<1>2. /\ fs = [p \in Path |-> [leaf |-> plan.before[p], prepared |-> Absent,
                               displaced |-> Absent]]
      /\ call = NoCall
  BY DEF BackendInit, Init
<1>3. ASSUME NEW p \in Path PROVE Kept(p)
  <2>1. fs[p].leaf = plan.before[p] /\ fs[p].prepared = Absent /\ fs[p].displaced = Absent
    BY <1>2
  <2> QED BY <1>1, <2>1, PlanUnmoved DEF Kept, Clear, Fixed
<1> QED BY <1>2, <1>3 DEF KeptInv

LEMMA KeptInvHolds == Spec => []KeptInv
<1> QED BY InitKept, KeptNext, ActiveInvHolds, PTL DEF Spec

-----------------------------------------------------------------------------
(* Recovery.                                                               *)

\* What is to be recovered, and that every recovery so far succeeded.
ToUndo    == {p \in Intended : undone[p] = "none"}
WellSoFar == \A p \in Intended : undone[p] \in {"none", "completed"}

\* A path that nothing is to be recovered for is as it was admitted, but for the
\* mtime of a directory above one that is.
Back(p) ==
  /\ Alike(fs[p].leaf, plan.before[p])
  /\ Clear(p)
  /\ fs[p].leaf = plan.before[p] \/ \E q \in ToUndo : p \in Above[q]

UndoneInv ==
  /\ \A p \in Path : undone[p] # "none" => p \in Intended
  /\ phase \in {"recover", "restored"} /\ WellSoFar => \A p \in Path \ ToUndo : Back(p)
  /\ phase = "restored" => ToUndo = {}
  /\ call.op = "recover" /\ call.at = "returned" /\ answer = "completed" =>
       /\ AsAdmitted(call.path)
       /\ WellSoFar => \A a \in Above[call.path] \ ToUndo : fs[a].leaf = plan.before[a]

LEMMA ToUndoStays ==
  ASSUME UNCHANGED <<turn, undone>>
  PROVE  ToUndo' = ToUndo /\ (WellSoFar' <=> WellSoFar) /\ Intended' = Intended
BY DEF ToUndo, WellSoFar, Intended

\* What is done to a path leaves those above it that are not to be recovered.
LEMMA TouchedIsBack ==
  ASSUME ActiveInv, phase = "recover", NEW p \in ToUndo, Touches(p),
         UNCHANGED <<plan, turn, undone>>, NEW q \in Path \ ToUndo, Back(q)
  PROVE  Back(q)'
<1>1. p \in Path /\ p \in Intended /\ undone[p] = "none" /\ p # q
  BY DEF ToUndo, Intended
<1>2. TypeOK /\ fs[q] \in Names
  BY DEF ActiveInv, TypeOK, Names
<1>3. fs'[q].prepared = fs[q].prepared /\ fs'[q].displaced = fs[q].displaced
  BY <1>1 DEF Touches
<1>4. CASE fs'[q].leaf = fs[q].leaf
  BY <1>3, <1>4, ToUndoStays DEF Back, Clear
<1>5. CASE fs'[q].leaf # fs[q].leaf
  <2>1. /\ q \in Above[p] /\ IsDir(fs[q].leaf)
        /\ \/ fs'[q].leaf = [fs[q].leaf EXCEPT !.moved = TRUE]
           \/ Refreshable(q) /\ RefreshTo(q) # Absent /\ fs'[q].leaf = RefreshTo(q)
    BY <1>1, <1>5 DEF Touches
  <2>2. ~Republished(q)
    <3> SUFFICES ASSUME Republished(q) PROVE FALSE
      OBVIOUS
    <3>1. effects[q] # "none" /\ plan.effect[q] = "incoming"
      BY DEF Republished
    <3>2. q \in Intended /\ turn[q] < turn[p]
      BY <1>1, <2>1, <3>1 DEF ActiveInv, Ordered
    <3>3. Recovering(q)
      BY <3>2 DEF ToUndo, Recovering
    <3> QED BY <1>1, <3>2, <3>3 DEF ActiveInv, Ordered
  <2>3. Alike(fs'[q].leaf, plan.before[q])
    <3>1. CASE fs'[q].leaf = [fs[q].leaf EXCEPT !.moved = TRUE]
      <4>1. fs[q].leaf \in Object
        BY <1>2, <2>1 DEF IsDir, Names
      <4>2. Alike(fs'[q].leaf, fs[q].leaf)
        BY <3>1, <4>1, MovedIsAlike
      <4> QED BY <4>2, AlikeOnward DEF Back
    <3>2. CASE fs'[q].leaf = RefreshTo(q)
      BY <2>2, <3>2 DEF RefreshTo, Alike
    <3> QED BY <2>1, <3>1, <3>2
  <2> QED BY <1>3, <2>1, <2>3, ToUndoStays DEF Back, Clear
<1> QED BY <1>4, <1>5

\* When recovery begins, everything the attempt did not come to is as it was.
LEMMA RecoveryBegins ==
  ASSUME ActiveInv, TreeInv, KeptInv, phase = "forward",
         UNCHANGED <<plan, fs, turn, undone>>
  PROVE  \A p \in Path \ ToUndo' : Back(p)'
<1> SUFFICES ASSUME NEW p \in Path, p \notin ToUndo' PROVE Back(p)'
  OBVIOUS
<1>1. ToUndo' = ToUndo /\ ToUndo = Intended
  BY ToUndoStays DEF ActiveInv, Ordered, ToUndo, Intended
<1>2. Agrees /\ fact = "none"
  BY DEF TreeInv, Going
<1>3. p \notin Intended /\ p \notin Open /\ terminal[p] = "none"
  BY <1>1 DEF Open, ActiveInv, Ordered
<1>4. Want(p) = plan.before[p]
  BY <1>3 DEF Want
<1>5. Alike(fs[p].leaf, plan.before[p])
  BY <1>2, <1>3, <1>4 DEF Agrees, Near
<1>6. Clear(p)
  BY <1>3 DEF KeptInv, Kept
<1>7. CASE Untouched(p)
  BY <1>2, <1>4, <1>5, <1>6, <1>7 DEF Agrees, Exact, Back, Alike, Clear
<1>8. CASE ~Untouched(p)
  <2>1. PICK x \in Open : p \in Above[x]
    BY <1>3, <1>8 DEF Untouched
  <2> QED BY <1>1, <1>5, <1>6, <2>1 DEF Back, Alike, Clear, Open
<1> QED BY <1>7, <1>8

\* Only the last look at a path answers a recovery with "completed".
LEMMA CompletesRecovery ==
  ASSUME ActiveInv, KeptInv, NEW p \in Path, Mechanism(p), call.op = "recover",
         call'.at = "returned", answer' = "completed"
  PROVE  Admitted(p) /\ Refreshed(p) /\ Clear(p) /\ call.path = p
<1>1. TypeOK /\ call # NoCall
  BY MechanismRuns DEF ActiveInv
<1>2. call.path = p
  BY <1>1, StepNotes DEF Noted
<1>3. /\ ~(PublishIncoming(p) \/ Prepare(p) \/ Displace(p) \/ Activate(p) \/ Remove(p)
            \/ Take(p) \/ DiscardRecovery(p) \/ DropBelow(p) \/ Drop(p))
      /\ ~Refresh(p)
  <2>1. Placed(p, call.op, call.at) /\ Course(p, call.op, call.at)
    BY <1>1, <1>2 DEF ActiveInv, Issued, KeptInv
  <2> QED BY <2>1 DEF PublishIncoming, Prepare, Displace, Activate, Remove, Take,
                      DiscardRecovery, DropBelow, Drop, Refresh, Running, Placed, Course
<1>4. ASSUME NEW point \in At \ {"returned"}, Goto(point) PROVE FALSE
  BY <1>1, <1>4 DEF Goto, TypeOK
<1>5. ASSUME NEW outcome \in {"failed", "indeterminate"}, Answer(outcome) PROVE FALSE
  BY <1>5 DEF Answer
<1>6. ~(UpdateDirectory(p) \/ FinishUpdate(p))
  <2>1. ~Updated(p)
    BY <1>4 DEF Updated, At
  <2> QED BY <1>4, <1>5, <2>1 DEF UpdateDirectory, FinishUpdate, Fails, Refuse, At
<1>7. ~(Recover(p) \/ Clean(p) \/ Unpublish(p))
  BY <1>4, <1>5 DEF Recover, Clean, Unpublish, Fails, Refuse, At
<1>8. ~(Restore(p) \/ Withdraw(p))
  BY <1>4, <1>5 DEF Restore, Withdraw, Fails, Refuse, At
<1>9. ~(Copy(p) \/ Vacate(p) \/ Install(p))
  BY <1>4, <1>5 DEF Copy, Vacate, Install, Fails, Refuse, Abandon, At
<1>10. Readmit(p)
  BY <1>3, <1>6, <1>7, <1>8, <1>9 DEF Mechanism
<1>11. Admitted(p) /\ Refreshed(p)
  BY <1>5, <1>10 DEF Readmit, Refuse
<1>12. Clear(p)
  BY <1>1, <1>2, <1>10 DEF KeptInv, Course, Readmit, Running
<1> QED BY <1>2, <1>11, <1>12

LEMMA MechanismUndone ==
  ASSUME ActiveInv, KeptInv, UndoneInv, UNCHANGED owner, NEW p \in Path, Mechanism(p)
  PROVE  UndoneInv'
<1>1. TypeOK /\ call # NoCall /\ Shape(p) /\ Noted(p)
  <2>1. TypeOK
    BY DEF ActiveInv
  <2> QED BY <2>1, MechanismShape, StepNotes, MechanismRuns
<1>2. call.path = p /\ p \in Intended
  BY <1>1 DEF Noted, ActiveInv, Issued
<1>3. plan' = plan /\ call'.path = p /\ call'.op = call.op
  BY <1>2, MechanismStepKeeps DEF StepKeeps
<1>4. phase' = phase /\ turn' = turn /\ undone' = undone
  BY DEF owner
<1>5. ToUndo' = ToUndo /\ (WellSoFar' <=> WellSoFar) /\ Intended' = Intended
  BY <1>4, ToUndoStays
<1>6. ASSUME phase \in {"recover", "restored"}
      PROVE  call.op = "recover" /\ phase = "recover" /\ p \in ToUndo /\ Touches(p)
  <2>1. call.op = "recover" /\ phase = "recover" /\ undone[p] = "none"
    BY <1>1, <1>2, <1>6 DEF ActiveInv, Issued
  <2>2. ~DropBelow(p)
    BY <1>1, <1>2, <2>1 DEF DropBelow, Running, ActiveInv, Issued, Placed
  <2> QED BY <1>1, <1>2, <2>1, <2>2, ShapeTouches DEF ToUndo
<1>7. ASSUME phase \in {"recover", "restored"}, WellSoFar, NEW q \in Path \ ToUndo
      PROVE  Back(q)'
  <2>1. Back(q)
    BY <1>7 DEF UndoneInv
  <2> QED BY <1>3, <1>4, <1>6, <1>7, <2>1, TouchedIsBack
<1>8. ASSUME call.op = "recover", call'.at = "returned", answer' = "completed"
      PROVE  /\ AsAdmitted(p)'
             /\ WellSoFar => \A a \in Above[p] \ ToUndo : fs'[a].leaf = plan.before[a]
  <2>1. Admitted(p) /\ Refreshed(p) /\ Clear(p)
    BY <1>8, CompletesRecovery
  <2>2. /\ fs'[p] = fs[p]
        /\ \A a \in Above[p] : RefreshTo(a) # Absent => fs'[a].leaf = RefreshTo(a)
    BY <1>1, <1>8, <2>1, RefreshedTouches
  <2>3. AsAdmitted(p)'
    <3>1. fs[p] \in Names
      BY <1>1 DEF TypeOK, Names
    <3>2. /\ fs[p].leaf = plan.before[p] /\ fs[p].prepared = Absent
          /\ fs[p].displaced = Absent
      BY <2>1 DEF Admitted, Clear
    <3>3. fs[p] = [leaf |-> plan.before[p], prepared |-> Absent, displaced |-> Absent]
      BY ONLY <3>1, <3>2 DEF Names
    <3> QED BY <1>3, <2>2, <3>3 DEF AsAdmitted
  <2>4. ASSUME WellSoFar, NEW a \in Above[p] \ ToUndo
        PROVE  fs'[a].leaf = plan.before[a]
    <3>1. phase = "recover" /\ a \in Path
      BY <1>1, <1>8, PathsAbove DEF ActiveInv, Issued
    <3>2. ~Republished(a)
      <4> SUFFICES ASSUME Republished(a) PROVE FALSE
        OBVIOUS
      <4>1. ~Recovering(a)
        BY <1>1, <1>2, <3>1, AboveStands
      <4>2. a \in Intended
        BY <3>1 DEF Republished, ActiveInv, Ordered
      <4> QED BY <2>4, <4>1, <4>2 DEF ToUndo, Recovering
    <3>3. RefreshTo(a) = plan.before[a]
      BY <3>2 DEF RefreshTo
    <3>4. Back(a)'
      BY <1>7, <2>4, <3>1
    <3> QED BY <1>3, <2>2, <3>3, <3>4 DEF Back, Alike
  <2> QED BY <2>3, <2>4
<1> QED BY <1>2, <1>3, <1>4, <1>5, <1>7, <1>8 DEF UndoneInv

LEMMA LoseUndone ==
  ASSUME ActiveInv, UndoneInv, NEW p \in Path, Lose(p)
  PROVE  UndoneInv'
<1>1. TypeOK
  BY DEF ActiveInv
<1>2. /\ Touches(p) /\ fs[p].displaced # Absent /\ call' = NoCall /\ phase = "recover"
      /\ phase' = phase /\ plan' = plan /\ turn' = turn /\ undone' = undone
  BY <1>1, LoseTouches DEF owner
<1>3. ToUndo' = ToUndo /\ (WellSoFar' <=> WellSoFar) /\ Intended' = Intended
  BY <1>2, ToUndoStays
<1>4. ASSUME WellSoFar, NEW q \in Path \ ToUndo
      PROVE  Back(q)'
  <2>1. p \in ToUndo
    BY <1>2, <1>4 DEF UndoneInv, Back, Clear
  <2>2. Back(q)
    BY <1>2, <1>4 DEF UndoneInv
  <2> QED BY <1>2, <1>4, <2>1, <2>2, TouchedIsBack
<1> QED BY <1>2, <1>3, <1>4 DEF UndoneInv, NoCall

\* A step that leaves the tree, and what is to be recovered, as they are.
LEMMA UndoneStays ==
  ASSUME UndoneInv, UNCHANGED <<plan, fs, turn, undone>>,
         phase' \in {"recover", "restored"} => phase \in {"recover", "restored"},
         phase' = "restored" => phase = "restored" \/ ToUndo = {},
         call'.at = "returned" => call' = call /\ answer' = answer
  PROVE  UndoneInv'
<1>1. ToUndo' = ToUndo /\ (WellSoFar' <=> WellSoFar) /\ Intended' = Intended
  BY ToUndoStays
<1>2. \A q : Back(q)' <=> Back(q)
  BY <1>1 DEF Back, Clear, Alike
<1> QED BY <1>1, <1>2 DEF UndoneInv, AsAdmitted

LEMMA BeginsUndone ==
  ASSUME ActiveInv, TreeInv, KeptInv, UndoneInv, phase = "forward", phase' = "recover",
         UNCHANGED <<plan, fs, turn, undone>>, call' = NoCall
  PROVE  UndoneInv'
<1>1. ToUndo' = ToUndo /\ (WellSoFar' <=> WellSoFar) /\ Intended' = Intended
  BY ToUndoStays
<1> QED BY <1>1, RecoveryBegins DEF UndoneInv, NoCall

LEMMA RecordRecoveryUndone ==
  ASSUME ActiveInv, UndoneInv, NEW p \in Path, RecordRecovery(p)
  PROVE  UndoneInv'
<1>1. /\ call.path = p /\ call.op = "recover" /\ call.at = "returned" /\ call' = NoCall
      /\ undone' = [undone EXCEPT ![p] = answer]
      /\ UNCHANGED <<phase, plan, fs, turn>>
  BY DEF RecordRecovery, Returned
<1>2. phase = "recover" /\ p \in Intended /\ undone[p] = "none" /\ answer # "none"
  BY <1>1 DEF ActiveInv, Issued, NoCall
<1>3. undone'[p] = answer /\ \A q \in Path \ {p} : undone'[q] = undone[q]
  BY <1>1 DEF ActiveInv, TypeOK
<1>4. Intended' = Intended /\ Intended \subseteq Path
  BY <1>1 DEF Intended
<1>5. ToUndo' = ToUndo \ {p} /\ p \in ToUndo /\ ToUndo \subseteq Intended
  BY <1>2, <1>3, <1>4 DEF ToUndo
<1>6. WellSoFar' => WellSoFar /\ answer = "completed"
  BY <1>2, <1>3, <1>4 DEF WellSoFar
<1>7. ASSUME WellSoFar', NEW q \in Path \ ToUndo'
      PROVE  Back(q)'
  <2>1. CASE q = p
    <3>1. fs[p] = [leaf |-> plan.before[p], prepared |-> Absent, displaced |-> Absent]
      BY <1>1, <1>6, <1>7 DEF UndoneInv, AsAdmitted
    <3>2. /\ fs[p].leaf = plan.before[p] /\ fs[p].prepared = Absent
          /\ fs[p].displaced = Absent
      BY ONLY <3>1
    <3> QED BY <1>1, <2>1, <3>2 DEF Back, Alike, Clear
  <2>2. CASE q # p
    <3>1. q \in Path \ ToUndo
      BY <1>5, <1>7, <2>2
    <3>2. Back(q)
      BY <1>2, <1>6, <1>7, <3>1 DEF UndoneInv
    <3>3. fs[q].leaf = plan.before[q] \/ \E x \in ToUndo \ {p} : q \in Above[x]
      <4>1. q \in Above[p] => fs[q].leaf = plan.before[q]
        BY <1>1, <1>6, <1>7, <3>1 DEF UndoneInv
      <4> QED BY <3>2, <4>1 DEF Back
    <3> QED BY <1>1, <1>5, <3>2, <3>3 DEF Back, Alike, Clear
  <2> QED BY <2>1, <2>2
<1>8. \A q \in Path : undone'[q] # "none" => q \in Intended
  BY <1>2, <1>3 DEF UndoneInv
<1> QED BY <1>1, <1>2, <1>4, <1>7, <1>8 DEF UndoneInv, NoCall

LEMMA EngineUndone ==
  ASSUME ActiveInv, TreeInv, KeptInv, UndoneInv, NEW p \in Path, Engine(p)
  PROVE  UndoneInv'
<1>1. CASE ExecuteActive(p)
  <2>1. /\ phase = "forward" /\ phase' = phase /\ undone' = undone
        /\ call'.op \in {"publish", "remove"}
    BY <1>1 DEF ExecuteActive, Issue
  <2>2. \A q \in Path : undone[q] = "none"
    BY <2>1 DEF ActiveInv, Ordered
  <2> QED BY <2>1, <2>2 DEF UndoneInv
<1>2. CASE RecordEffect(p)
  <2>1. /\ call' = NoCall /\ UNCHANGED <<plan, fs, turn, undone>>
        /\ phase' \in {phase, "recover"}
        /\ call.op \in {"publish", "remove"} /\ call # NoCall
    BY <1>2 DEF RecordEffect, Returned, NoCall
  <2>2. phase = "forward"
    BY <2>1 DEF ActiveInv, Issued
  <2>3. CASE phase' = "recover"
    BY <2>1, <2>2, <2>3, BeginsUndone
  <2>4. CASE phase' = phase
    BY <2>1, <2>2, <2>4, UndoneStays DEF NoCall
  <2> QED BY <2>1, <2>3, <2>4
<1>3. CASE RecoverPath(p) \/ DiscardPath(p)
  BY <1>3, UndoneStays DEF RecoverPath, DiscardPath, Issue, owner
<1>4. CASE RecordRecovery(p)
  BY <1>4, RecordRecoveryUndone
<1>5. CASE RecordDiscard(p)
  <2>1. /\ call.path = p /\ call.op = "discard" /\ call # NoCall /\ call' = NoCall
        /\ undone' = [undone EXCEPT ![p] = answer] /\ UNCHANGED <<phase, turn>>
    BY <1>5 DEF RecordDiscard, Returned, NoCall
  <2>2. phase = "applied" /\ p \in Intended
    BY <2>1 DEF ActiveInv, Issued
  <2>3. \A q \in Path \ {p} : undone'[q] = undone[q]
    BY <2>1 DEF ActiveInv, TypeOK
  <2>4. Intended' = Intended
    BY <2>1 DEF Intended
  <2> QED BY <2>1, <2>2, <2>3, <2>4 DEF UndoneInv, NoCall
<1> QED BY <1>1, <1>2, <1>3, <1>4, <1>5 DEF Engine

LEMMA UndoneNext ==
  ASSUME ActiveInv, TreeInv, KeptInv, UndoneInv, [BackendNext]_<<vars, backend>>
  PROVE  UndoneInv'
<1>1. CASE UNCHANGED vars
  BY <1>1, UndoneStays DEF vars, namespace, owner
<1>2. ASSUME NEW p \in Path, Mechanism(p), UNCHANGED owner
      PROVE  UndoneInv'
  BY <1>2, MechanismUndone
<1>3. ASSUME NEW p \in Path, Engine(p)
      PROVE  UndoneInv'
  BY <1>3, EngineUndone
<1>4. ASSUME NEW p \in Path, Lose(p)
      PROVE  UndoneInv'
  BY <1>4, LoseUndone
<1>5. CASE GivesUp
  BY <1>5, BeginsUndone DEF GivesUp, namespace
<1>6. CASE Conclude
  <2>1. /\ UNCHANGED <<plan, fs, turn, undone, call, answer>>
        /\ \/ phase = "forward" /\ phase' = "applied"
           \/ /\ phase = "recover" /\ phase' = "restored"
              /\ \A p \in Intended : undone[p] # "none"
    BY <1>6 DEF Conclude, namespace
  <2> QED BY <2>1, UndoneStays DEF ToUndo
<1>7. CASE Synchronizes
  BY <1>7, UndoneStays DEF Synchronizes
<1>8. CASE Crash \/ Throw
  BY <1>8, UndoneStays DEF Crash, Throw, Forget, NoCall
<1>9. CASE Reopens
  <2>1. /\ UNCHANGED <<plan, fs, turn, undone, call, answer>>
        /\ phase' = phase \/ (phase = "forward" /\ phase' = "recover")
    BY <1>9 DEF Reopens
  <2>2. call = NoCall
    BY <1>9 DEF Reopens, ActiveInv, Issued
  <2>3. CASE phase' = phase
    BY <2>1, <2>3, UndoneStays
  <2> QED BY <2>1, <2>2, <2>3, BeginsUndone
<1> QED BY <1>1, <1>2, <1>3, <1>4, <1>5, <1>6, <1>7, <1>8, <1>9, StepCases

LEMMA InitUndone == BackendInit => UndoneInv
<1> SUFFICES ASSUME BackendInit PROVE UndoneInv
  OBVIOUS
<1> QED BY DEF BackendInit, Init, UndoneInv, NoCall

LEMMA UndoneInvHolds == Spec => []UndoneInv
<1> QED BY InitUndone, UndoneNext, ActiveInvHolds, TreeInvHolds, KeptInvHolds, PTL DEF Spec

\* When every recovery says "completed" the tree is exactly as it was admitted, with
\* the mtimes of its directories and no name left over, wherever the attempt failed
\* or stopped and however often.
THEOREM RecoveriesAreExact == Spec => []RecoveryIsExact
<1>1. ActiveInv /\ UndoneInv => RecoveryIsExact
  <2> SUFFICES ASSUME ActiveInv, UndoneInv, phase = "restored",
                      \A p \in Intended : undone[p] = "completed", NEW p \in Path
               PROVE  AsAdmitted(p)
    BY DEF RecoveryIsExact
  <2>1. WellSoFar /\ ToUndo = {}
    BY DEF WellSoFar, UndoneInv
  <2>2. fs[p] \in Names
    BY DEF ActiveInv, TypeOK, Names
  <2>3. fs[p].leaf = plan.before[p] /\ fs[p].prepared = Absent /\ fs[p].displaced = Absent
    BY <2>1 DEF UndoneInv, Back, Clear
  <2>4. fs[p] = [leaf |-> plan.before[p], prepared |-> Absent, displaced |-> Absent]
    BY ONLY <2>2, <2>3 DEF Names
  <2> QED BY <2>4 DEF AsAdmitted
<1> QED BY <1>1, ActiveInvHolds, UndoneInvHolds, PTL

-----------------------------------------------------------------------------
(* Results.                                                                *)

\* A result after which the attempt goes on.
Ends(p) ==
  \/ terminal[p] = "completed"
  \/ terminal[p] = "conditional_retained" /\ plan.effect[p] = "remove"

EndsInv ==
  /\ \A a, p \in Intended : turn[a] < turn[p] => Ends(a)
  /\ phase = "forward" => \A p \in Intended \ Open : Ends(p)
  /\ phase \in {"forward", "recover"} /\ up = "up" =>
       \A p \in Completed : effects[p] = "completed"
  /\ call.op = "publish" /\ call.at = "returned" => answer # "conditional_retained"
  /\ call.op = "recover" /\ call.at = "returned" =>
       /\ answer # "conditional_retained"
       /\ answer = "failed" => IsDir(fs[call.path].leaf)

LEMMA EndsStays ==
  ASSUME UNCHANGED <<plan, turn, terminal>>
  PROVE  /\ Intended' = Intended /\ Open' = Open /\ Completed' = Completed
         /\ \A p : Ends(p)' <=> Ends(p)
BY DEF Intended, Open, Completed, Ends

\* Which step gives which result.
LEMMA WhoAnswers ==
  ASSUME ActiveInv, NEW p \in Path, Mechanism(p), call'.at = "returned"
  PROVE  /\ answer' = "conditional_retained" => Take(p)
         /\ answer' = "failed" /\ call.op = "recover" => UpdateDirectory(p) /\ fs' = fs
<1>1. TypeOK /\ call # NoCall
  BY MechanismRuns DEF ActiveInv
<1>2. call.path = p /\ Placed(p, call.op, call.at)
  BY <1>1, StepNotes DEF Noted, ActiveInv, Issued
<1>3. ASSUME NEW point \in At \ {"returned"}, Goto(point) PROVE FALSE
  BY <1>1, <1>3 DEF Goto, TypeOK
<1>4. ASSUME NEW outcome \in Outcome, Answer(outcome) PROVE answer' = outcome
  BY <1>4 DEF Answer
<1>5. CASE PublishIncoming(p) \/ Prepare(p) \/ Displace(p) \/ Activate(p)
  <2>1. call.op # "recover"
    BY <1>2, <1>5 DEF PublishIncoming, Prepare, Displace, Activate, Running, Placed
  <2>2. answer' # "conditional_retained"
    BY <1>3, <1>4, <1>5 DEF PublishIncoming, Prepare, Displace, Activate, Fails, Refuse,
                            Abandon, At, Outcome
  <2> QED BY <2>1, <2>2
<1>6. CASE UpdateDirectory(p) \/ FinishUpdate(p)
  <2>1. ~Updated(p)
    BY <1>3 DEF Updated, At
  <2>2. \/ UpdateDirectory(p) /\ Fails("failed")
        \/ Fails("indeterminate")
    BY <1>3, <1>6, <2>1 DEF UpdateDirectory, FinishUpdate, At
  <2> QED BY <2>2 DEF Fails, Refuse, Answer
<1>7. CASE Remove(p) \/ Take(p)
  <2>1. call.op # "recover"
    BY <1>2, <1>7 DEF Remove, Take, Running, Placed
  <2>2. Remove(p) => answer' # "conditional_retained"
    BY <1>3, <1>4 DEF Remove, Refuse, At, Outcome
  <2> QED BY <1>7, <2>1, <2>2
<1>8. CASE Recover(p) \/ Clean(p) \/ Unpublish(p) \/ Restore(p) \/ Withdraw(p)
  <2>1. answer' = "indeterminate"
    BY <1>3, <1>4, <1>8 DEF Recover, Clean, Unpublish, Restore, Withdraw, Fails, Refuse, At,
                            Outcome
  <2> QED BY <2>1
<1>9. CASE Copy(p) \/ Vacate(p) \/ Install(p)
  <2>1. answer' = "indeterminate"
    BY <1>3, <1>4, <1>9 DEF Copy, Vacate, Install, Fails, Refuse, Abandon, At, Outcome
  <2> QED BY <2>1
<1>10. CASE Readmit(p) \/ Refresh(p)
  <2>1. answer' \in {"completed", "indeterminate"}
    BY <1>1, <1>4, <1>10, RefreshedTouches DEF Readmit, Refresh, Refuse, Outcome
  <2> QED BY <2>1
<1>11. CASE DiscardRecovery(p) \/ DropBelow(p) \/ Drop(p)
  <2>1. ~DropBelow(p)
    BY DEF DropBelow, Running
  <2>2. answer' \in {"completed", "indeterminate"}
    BY <1>3, <1>4, <1>11, <2>1 DEF DiscardRecovery, Drop, Fails, Refuse, At, Outcome
  <2> QED BY <2>2
<1> QED BY <1>5, <1>6, <1>7, <1>8, <1>9, <1>10, <1>11 DEF Mechanism

\* Recovery and discard note no effect.
LEMMA BackwardEffects ==
  ASSUME ActiveInv, NEW p \in Path, Mechanism(p), call.op \notin {"publish", "remove"}
  PROVE  effects' = effects
<1>1. TypeOK /\ call # NoCall
  BY MechanismRuns DEF ActiveInv
<1>2. Placed(p, call.op, call.at)
  BY <1>1, StepNotes DEF Noted, ActiveInv, Issued
<1>3. ~(PublishIncoming(p) \/ Prepare(p) \/ Displace(p) \/ Activate(p) \/ Remove(p) \/ Take(p))
  BY <1>2 DEF PublishIncoming, Prepare, Displace, Activate, Remove, Take, Running, Placed
<1>4. UpdateDirectory(p) \/ FinishUpdate(p) => effects' = effects
  BY DEF UpdateDirectory, FinishUpdate, Updated, Fails, Refuse
<1>5. Recover(p) \/ Clean(p) \/ Unpublish(p) \/ Restore(p) \/ Withdraw(p) => effects' = effects
  BY DEF Recover, Clean, Unpublish, Restore, Withdraw, Fails, Refuse
<1>6. Copy(p) \/ Vacate(p) \/ Install(p) => effects' = effects
  BY DEF Copy, Vacate, Install, Abandon, Fails, Refuse
<1>7. Readmit(p) \/ Refresh(p) => effects' = effects
  BY <1>1, RefreshedTouches DEF Readmit, Refresh, Refuse
<1>8. DiscardRecovery(p) \/ DropBelow(p) \/ Drop(p) => effects' = effects
  BY DEF DiscardRecovery, DropBelow, Drop, Fails, Refuse
<1> QED BY <1>3, <1>4, <1>5, <1>6, <1>7, <1>8 DEF Mechanism

LEMMA MechanismEnds ==
  ASSUME ActiveInv, TreeInv, EndsInv, UNCHANGED owner, NEW p \in Path, Mechanism(p)
  PROVE  EndsInv'
<1>1. TypeOK /\ call # NoCall /\ Noted(p)
  <2>1. TypeOK
    BY DEF ActiveInv
  <2> QED BY <2>1, StepNotes, MechanismRuns
<1>2. /\ call.path = p /\ Placed(p, call.op, call.at)
      /\ call.op \in {"publish", "remove", "recover", "discard"}
  BY <1>1 DEF Noted, ActiveInv, Issued
<1>3. plan' = plan /\ call'.path = p /\ call'.op = call.op
  BY <1>2, MechanismStepKeeps DEF StepKeeps
<1>4. phase' = phase /\ turn' = turn /\ undone' = undone /\ terminal' = terminal /\ up' = up
  BY DEF owner
<1>5. /\ Intended' = Intended /\ Open' = Open /\ Completed' = Completed
      /\ \A q : Ends(q)' <=> Ends(q)
  BY <1>3, <1>4, EndsStays
<1>6. \A q \in Completed : effects'[q] = effects[q]
  <2>1. CASE call.op \in {"publish", "remove"}
    <3>1. terminal[p] = "none"
      BY <1>2, <2>1, WorkContext DEF Pursuing
    <3>2. \A q \in Path \ {p} : effects'[q] = effects[q]
      BY <1>1 DEF Noted
    <3> QED BY <3>1, <3>2 DEF Completed
  <2>2. CASE call.op \notin {"publish", "remove"}
    BY <2>2, BackwardEffects
  <2> QED BY <2>1, <2>2
<1>7. ASSUME call'.at = "returned"
      PROVE  /\ call.op \in {"publish", "recover"} => answer' # "conditional_retained"
             /\ call.op = "recover" /\ answer' = "failed" => IsDir(fs'[p].leaf)
  <2>1. answer' = "conditional_retained" => call.op = "remove"
    BY <1>2, <1>7, WhoAnswers DEF Take, Running, Placed
  <2>2. ASSUME call.op = "recover", answer' = "failed"
        PROVE  IsDir(fs'[p].leaf)
    <3>1. UpdateDirectory(p) /\ fs' = fs
      BY <1>7, <2>2, WhoAnswers
    <3> QED BY <3>1, UpdateContext DEF UpdateDirectory, BothDirs
  <2> QED BY <2>1, <2>2
<1> QED BY <1>2, <1>3, <1>4, <1>5, <1>6, <1>7 DEF EndsInv

LEMMA EndsKeeps ==
  ASSUME EndsInv, UNCHANGED <<plan, turn, terminal>>,
         phase' = "forward" => phase = "forward",
         phase' = "recover" => phase \in {"forward", "recover"},
         up' = "up" => \A p \in Completed : \/ effects'[p] = effects[p] /\ up = "up"
                                            \/ effects'[p] = "completed",
         call'.at = "returned" => UNCHANGED <<call, answer, fs>>
  PROVE  EndsInv'
<1>1. /\ Intended' = Intended /\ Open' = Open /\ Completed' = Completed
      /\ \A p : Ends(p)' <=> Ends(p)
  BY EndsStays
<1> QED BY <1>1 DEF EndsInv

LEMMA ExecuteEnds ==
  ASSUME ActiveInv, TreeInv, EndsInv, NEW p \in Path, ExecuteActive(p)
  PROVE  EndsInv'
<1>1. /\ plan' = plan /\ effects' = effects /\ phase' = phase /\ terminal' = terminal
      /\ up' = up /\ phase = "forward" /\ call = NoCall /\ call'.at = "enter" /\ up = "up"
      /\ p \notin Intended /\ turn' = [turn EXCEPT ![p] = Cardinality(Intended) + 1]
  BY DEF ExecuteActive, Issue
<1>2. Agrees /\ Open = {}
  BY <1>1 DEF TreeInv, Going, Agrees, OneOpen, NoCall
<1>3. /\ turn \in [Path -> Nat] /\ \A q \in Path : turn[q] <= Cardinality(Intended)
      /\ IsFiniteSet(Intended) /\ Cardinality(Intended) \in Nat
  <2>1. Intended \subseteq Path
    BY DEF Intended
  <2> QED BY <2>1, FS_Subset, FS_CardinalityType DEF ActiveInv, Ordered, TypeOK
<1>4. /\ turn'[p] = Cardinality(Intended) + 1
      /\ \A q \in Path \ {p} : turn'[q] = turn[q]
  BY <1>1, <1>3
<1>5. Intended' = Intended \cup {p}
  BY <1>3, <1>4 DEF Intended
<1>6. /\ Completed' = Completed /\ \A q : Ends(q)' <=> Ends(q)
      /\ \A q \in Intended : Ends(q)
  BY <1>1, <1>2 DEF Completed, Ends, EndsInv
<1>7. terminal[p] = "none"
  BY <1>1 DEF ActiveInv, Ordered
<1>8. Open' = {p}
  BY <1>1, <1>2, <1>5, <1>7 DEF Open
<1>9. \A a \in Intended' : \A q \in Intended' : turn'[a] < turn'[q] => Ends(a)
  <2> SUFFICES ASSUME NEW q \in Intended', turn'[p] < turn'[q]
               PROVE  FALSE
    BY <1>5, <1>6
  <2>1. q \in Path /\ turn'[q] <= Cardinality(Intended) + 1
    BY <1>3, <1>4, <1>5 DEF Intended
  <2>2. turn'[q] \in Nat
    BY <1>3, <1>4, <2>1
  <2> QED BY <1>3, <1>4, <2>1, <2>2
<1> QED BY <1>1, <1>5, <1>6, <1>8, <1>9 DEF EndsInv

LEMMA RecordEffectEnds ==
  ASSUME ActiveInv, TreeInv, EndsInv, NEW p \in Path, RecordEffect(p)
  PROVE  EndsInv'
<1>1. /\ call.path = p /\ call.op \in {"publish", "remove"} /\ call.at = "returned"
      /\ call' = NoCall /\ terminal' = [terminal EXCEPT ![p] = answer]
      /\ phase' = IF answer \in {"failed", "indeterminate"} THEN "recover" ELSE phase
      /\ UNCHANGED <<plan, fs, effects, turn, up>>
  BY DEF RecordEffect, Returned
<1>2. /\ Pursuing(p) /\ p \in Intended /\ Open = {p} /\ Working(p) /\ phase = "forward"
      /\ \A q \in Intended \ {p} : turn[q] < turn[p]
      /\ plan.effect[p] = IF call.op = "publish" THEN "incoming" ELSE "remove"
  <2>1. Pursuing(p)
    BY <1>1 DEF Pursuing
  <2> QED BY <2>1, WorkContext
<1>3. /\ terminal'[p] = answer /\ \A q \in Path \ {p} : terminal'[q] = terminal[q]
      /\ turn \in [Path -> Nat] /\ answer \in Pending \ {"none"}
  <2>1. call # NoCall
    BY <1>1 DEF NoCall
  <2> QED BY <1>1, <2>1 DEF ActiveInv, TypeOK, Issued
<1>4. Intended' = Intended /\ Intended \subseteq Path
  BY <1>1 DEF Intended
<1>5. Open' = {}
  BY <1>2, <1>3, <1>4 DEF Open
<1>6. \A q \in Path \ {p} : Ends(q)' <=> Ends(q)
  BY <1>1, <1>3 DEF Ends
<1>7. ASSUME phase' = "forward" PROVE Ends(p)'
  <2>1. answer \in {"completed", "conditional_retained"}
    BY <1>1, <1>3, <1>7 DEF Pending, Outcome
  <2>2. answer = "conditional_retained" => call.op = "remove"
    BY <1>1 DEF EndsInv
  <2> QED BY <1>1, <1>2, <1>3, <2>1, <2>2 DEF Ends
<1>8. ASSUME NEW a \in Intended', NEW q \in Intended', turn'[a] < turn'[q]
      PROVE  Ends(a)'
  <2>1. turn[a] < turn[q] /\ a \in Path /\ q \in Path
    BY <1>1, <1>4, <1>8
  <2>2. a # p
    <3> SUFFICES ASSUME a = p PROVE FALSE
      OBVIOUS
    <3>1. turn[p] \in Nat /\ turn[q] \in Nat
      BY <1>3, <2>1
    <3>2. q = p \/ turn[q] < turn[p]
      BY <1>2, <1>4, <1>8
    <3> QED BY <2>1, <3>1, <3>2
  <2> QED BY <1>4, <1>6, <1>8, <2>1, <2>2 DEF EndsInv
<1>9. ASSUME up = "up", NEW q \in Completed'
      PROVE  effects[q] = "completed"
  <2>1. CASE q = p
    BY <1>1, <1>2, <1>3, <1>9, <2>1 DEF Completed, Working
  <2>2. CASE q # p
    BY <1>2, <1>3, <1>9, <2>2 DEF Completed, EndsInv
  <2> QED BY <2>1, <2>2
<1>10. \A q \in Intended' \ Open' : phase' = "forward" => Ends(q)'
  <2>1. \A q \in Intended \ {p} : Ends(q)
    BY <1>2 DEF EndsInv
  <2> QED BY <1>4, <1>6, <1>7, <2>1
<1> QED BY <1>1, <1>8, <1>9, <1>10 DEF EndsInv, NoCall

LEMMA EndsNext ==
  ASSUME ActiveInv, TreeInv, EndsInv, [BackendNext]_<<vars, backend>>
  PROVE  EndsInv'
<1>1. CASE UNCHANGED vars
  BY <1>1, EndsKeeps DEF vars, namespace, owner
<1>2. ASSUME NEW p \in Path, Mechanism(p), UNCHANGED owner
      PROVE  EndsInv'
  BY <1>2, MechanismEnds
<1>3. ASSUME NEW p \in Path, Engine(p)
      PROVE  EndsInv'
  <2>1. CASE RecoverPath(p) \/ DiscardPath(p)
    BY <2>1, EndsKeeps DEF RecoverPath, DiscardPath, Issue, owner
  <2>2. CASE RecordRecovery(p) \/ RecordDiscard(p)
    BY <2>2, EndsKeeps DEF RecordRecovery, RecordDiscard, Returned, NoCall
  <2> QED BY <1>3, <2>1, <2>2, ExecuteEnds, RecordEffectEnds DEF Engine
<1>4. ASSUME NEW p \in Path, Lose(p)
      PROVE  EndsInv'
  BY <1>4, EndsKeeps DEF Lose, owner, NoCall
<1>5. CASE GivesUp
  BY <1>5, EndsKeeps DEF GivesUp, namespace
<1>6. CASE Conclude
  BY <1>6, EndsKeeps DEF Conclude, namespace
<1>7. CASE Synchronizes
  BY <1>7, EndsKeeps DEF Synchronizes
<1>8. CASE Crash \/ Throw
  BY <1>8, EndsKeeps DEF Crash, Throw, Forget, NoCall
<1>9. CASE Reopens
  <2>1. up' = "up" => \A p \in Completed : effects'[p] = "completed"
    BY <1>9 DEF Reopens, Completed
  <2> QED BY <1>9, <2>1, EndsKeeps DEF Reopens
<1> QED BY <1>1, <1>2, <1>3, <1>4, <1>5, <1>6, <1>7, <1>8, <1>9, StepCases

LEMMA InitEnds == BackendInit => EndsInv
<1> SUFFICES ASSUME BackendInit PROVE EndsInv
  OBVIOUS
<1> QED BY DEF BackendInit, Init, EndsInv, Intended, Completed, NoCall

LEMMA EndsInvHolds == Spec => []EndsInv
<1> QED BY InitEnds, EndsNext, ActiveInvHolds, TreeInvHolds, PTL DEF Spec

-----------------------------------------------------------------------------
(* The directories above a path.                                           *)

\* A path that is to be recovered hangs on directories, on what is recovered before
\* it, and on what a recovery has been given up on.
Rooted ==
  \A p \in ToUndo : \A a \in Above[p] :
    \/ IsDir(fs[a].leaf)
    \/ a \in ToUndo /\ turn[p] < turn[a]
    \/ undone[a] = "indeterminate"

Standing == \A q \in Path : fs[q].leaf # Absent => Resolves(q)

RootInv ==
  /\ phase \in {"forward", "recover"} => Rooted
  /\ phase = "forward" => Standing

LEMMA TreePlans ==
  ASSUME TypeOK, NEW p \in Path, NEW a \in Above[p]
  PROVE  /\ a \in Path /\ a # p
         /\ plan.before[p] # Absent => IsDir(plan.before[a])
         /\ plan.effect[p] = "incoming" =>
              /\ plan.effect[a] # "remove"
              /\ plan.effect[a] = "incoming" => IsDir(plan.incoming[a])
              /\ plan.effect[a] = "none" => IsDir(plan.before[a])
<1>1. plan \in Plans /\ a \in Path /\ a # p
  BY PathsAbove DEF TypeOK
<1>2. /\ plan.before[p] # Absent => plan.before[a] # Absent /\ plan.before[a].kind = "dir"
      /\ plan.effect[p] = "incoming" =>
           /\ plan.effect[a] # "remove"
           /\ plan.effect[a] = "incoming" => plan.incoming[a].kind = "dir"
           /\ plan.effect[a] = "none" => plan.before[a] # Absent /\ plan.before[a].kind = "dir"
  BY <1>1, PlansAreTrees
<1> QED BY <1>1, <1>2, PlanTyped DEF IsDir

\* What is refreshed above a path that is worked on stays a directory.
LEMMA RefreshKeepsDirs ==
  ASSUME ActiveInv, EndsInv, phase \in {"forward", "recover"}, call # NoCall,
         NEW p \in Path, call.path = p, NEW a \in Above[p],
         IsDir(fs[a].leaf), RefreshTo(a) # Absent
  PROVE  IsDir(RefreshTo(a))
<1>1. TypeOK /\ a \in Path /\ p \in Intended /\ p \in Planned /\ up = "up"
  BY PathsAbove DEF ActiveInv, Issued, Ordered
<1>2. CASE Republished(a)
  <2>1. ~Recovering(a)
    BY <1>2, AboveStands
  <2>2. fs[a].leaf.kind = plan.incoming[a].kind
    BY <1>1, <1>2, <2>1 DEF ActiveInv, Sound, Republished
  <2> QED BY <1>2, <2>2 DEF RefreshTo, IsDir
<1>3. CASE ~Republished(a)
  <2>1. RefreshTo(a) = plan.before[a]
    BY <1>3 DEF RefreshTo
  <2>2. CASE plan.before[p] # Absent
    BY <1>1, <2>1, <2>2, TreePlans
  <2>3. CASE plan.effect[p] = "incoming"
    <3>1. plan.effect[a] # "incoming"
      <4> SUFFICES ASSUME plan.effect[a] = "incoming" PROVE FALSE
        OBVIOUS
      <4>1. a \in Intended /\ turn[a] < turn[p]
        BY <1>1 DEF ActiveInv, Ordered, Intended
      <4>2. terminal[a] = "completed"
        BY <1>1, <4>1 DEF EndsInv, Ends
      <4>3. effects[a] = "completed"
        BY <1>1, <4>2 DEF EndsInv, Completed
      <4> QED BY <1>3, <4>3 DEF Republished
    <3>2. plan.effect[a] = "none"
      BY <1>1, <2>3, <3>1, TreePlans, PlanTyped
    <3> QED BY <1>1, <2>1, <2>3, <3>2, TreePlans
  <2> QED BY <1>1, <2>2, <2>3, PlanTyped DEF Planned
<1> QED BY <1>2, <1>3

LEMMA StepsKeepDirs ==
  ASSUME ActiveInv, KeptInv, EndsInv, phase \in {"forward", "recover"}, UNCHANGED owner,
         NEW p \in Path, Mechanism(p), NEW q \in Path \ {p}
  PROVE  /\ fs'[q].leaf = Absent <=> fs[q].leaf = Absent
         /\ IsDir(fs[q].leaf) => IsDir(fs'[q].leaf)
<1>1. TypeOK /\ call # NoCall /\ Shape(p) /\ Noted(p)
  <2>1. TypeOK
    BY DEF ActiveInv
  <2> QED BY <2>1, MechanismShape, StepNotes, MechanismRuns
<1>2. call.path = p /\ ~DropBelow(p)
  BY <1>1 DEF Noted, DropBelow, Running, ActiveInv, Issued, Placed
<1>3. Touches(p)
  BY <1>1, <1>2, ShapeTouches
<1>4. CASE fs'[q].leaf = [fs[q].leaf EXCEPT !.moved = TRUE] /\ IsDir(fs[q].leaf)
  <2>1. fs[q].leaf \in Object
    BY <1>1, <1>4 DEF TypeOK, IsDir
  <2>2. Alike(fs'[q].leaf, fs[q].leaf)
    BY <1>4, <2>1, MovedIsAlike
  <2> QED BY <2>2, AlikeDirs
<1>5. CASE q \in Above[p] /\ IsDir(fs[q].leaf) /\ RefreshTo(q) # Absent /\ fs'[q].leaf = RefreshTo(q)
  BY <1>1, <1>2, <1>5, RefreshKeepsDirs DEF IsDir
<1>6. CASE fs'[q].leaf = fs[q].leaf
  BY <1>6
<1> QED BY <1>3, <1>4, <1>5, <1>6 DEF Touches

\* A directory is taken away or replaced once it has no entries.
LEMMA EmptiesFirst ==
  ASSUME ActiveInv, TreeInv, KeptInv, NEW p \in Path, Pursuing(p), Mechanism(p),
         IsDir(fs[p].leaf), ~IsDir(fs'[p].leaf)
  PROVE  \A c \in Path : Parent[c] = p => fs[c].leaf = Absent
<1>1. /\ TypeOK /\ fs[p] \in Names /\ fs \in [Path -> Names]
      /\ plan.incoming[p] \in Object \cup {Absent}
  BY PlanTyped DEF ActiveInv, TypeOK, Names
<1>2. \/ PublishIncoming(p) \/ Prepare(p) \/ Displace(p) \/ Activate(p)
      \/ UpdateDirectory(p) \/ FinishUpdate(p) \/ Remove(p) \/ Take(p) \/ Refresh(p)
  BY PursuitSteps
<1>3. fs' # fs
  OBVIOUS
<1>4. ASSUME NEW w \in Names, fs' = Tree(p, w), w.leaf = fs[p].leaf
      PROVE  FALSE
  BY <1>1, <1>4, TreeTouches
<1>5. ASSUME NEW workspace \in Names, workspace.leaf = fs[p].leaf, NEW outcome,
             Abandon(p, workspace, outcome)
      PROVE  FALSE
  <2>1. PICK w : w \in WithoutPrepared(workspace) /\ fs' = Tree(p, w)
    BY <1>5 DEF Abandon
  <2>2. w \in Names /\ w.leaf = fs[p].leaf
    BY <1>5, <2>1 DEF WithoutPrepared, Names
  <2> QED BY <1>4, <2>1, <2>2
<1>6. ~Prepare(p)
  <2> SUFFICES ASSUME Prepare(p) PROVE FALSE
    OBVIOUS
  <2>1. PICK w \in Names : w = [fs[p] EXCEPT !.prepared = plan.incoming[p]]
    <3>1. [fs[p] EXCEPT !.prepared = plan.incoming[p]] \in Names
      BY <1>1 DEF Names
    <3> QED BY ONLY <3>1
  <2>2. w.leaf = fs[p].leaf
    BY ONLY <1>1, <2>1 DEF Names
  <2>3. fs' = Tree(p, w) \/ Abandon(p, w, "failed")
    BY <1>3, <2>1 DEF Prepare, Fails, Refuse
  <2> QED BY <1>4, <1>5, <2>2, <2>3
<1>7. ~Activate(p)
  BY <1>1, MechanismRuns DEF Activate, Running, KeptInv, Course
<1>8. ~(UpdateDirectory(p) \/ FinishUpdate(p))
  <2> SUFFICES ASSUME UpdateDirectory(p) \/ FinishUpdate(p) PROVE FALSE
    OBVIOUS
  <2>1. PICK object \in Object :
          /\ IsDir(object) /\ [fs[p] EXCEPT !.leaf = object] \in Names
          /\ fs' = [fs EXCEPT ![p] = [fs[p] EXCEPT !.leaf = object]]
    <3>1. Reset(p)
      BY <1>3, UpdateResets
    <3> QED BY ONLY <3>1 DEF Reset
  <2>2. fs'[p] = [fs[p] EXCEPT !.leaf = object]
    BY <1>1, <2>1
  <2>3. fs'[p].leaf = object
    BY <1>1, <2>2, WithLeaf
  <2> QED BY <2>1, <2>3
<1>9. ~(PublishIncoming(p) \/ Remove(p))
  BY <1>3 DEF PublishIncoming, Remove, Refuse
<1>10. ~Refresh(p)
  BY <1>1, RefreshedTouches DEF Refresh
<1>11. CASE Displace(p)
  <2>1. ~Abandon(p, fs[p], "failed")
    BY <1>1, <1>5
  <2> QED BY <1>11, <2>1 DEF Displace, HasEntries, Slot
<1>12. CASE Take(p)
  BY <1>3, <1>12 DEF Take, HasEntries, LogicallyNonempty, Fails, Refuse, Slot
<1> QED BY <1>2, <1>6, <1>7, <1>8, <1>9, <1>10, <1>11, <1>12

LEMMA MechanismRoot ==
  ASSUME ActiveInv, TreeInv, KeptInv, EndsInv, FlushInv, RootInv, UNCHANGED owner,
         NEW p \in Path, Mechanism(p)
  PROVE  RootInv'
<1> SUFFICES ASSUME phase \in {"forward", "recover"}
             PROVE  Rooted' /\ (phase = "forward" => Standing')
  BY DEF RootInv, owner
<1>1. TypeOK /\ call # NoCall /\ Noted(p)
  <2>1. TypeOK
    BY DEF ActiveInv
  <2> QED BY <2>1, StepNotes, MechanismRuns
<1>2. call.path = p /\ p \in Intended /\ call.op \in {"publish", "remove", "recover"}
  BY <1>1 DEF Noted, ActiveInv, Issued
<1>3. turn' = turn /\ undone' = undone /\ ToUndo' = ToUndo
  BY ToUndoStays DEF owner
<1>4. p \in ToUndo /\ \A x \in ToUndo \ {p} : turn[x] < turn[p]
  <2>1. turn \in [Path -> Nat] /\ Intended \subseteq Path
    BY <1>1 DEF TypeOK, Intended
  <2>2. CASE call.op \in {"publish", "remove"}
    <3>1. phase = "forward" /\ \A x \in Intended \ {p} : turn[x] < turn[p]
      BY <1>2, <2>2, WorkContext DEF Pursuing
    <3> QED BY <1>2, <2>1, <3>1 DEF ActiveInv, Ordered, ToUndo
  <2>3. CASE call.op = "recover"
    <3>1. undone[p] = "none" /\ Latest(p) /\ TurnsDiffer
      BY <1>1, <1>2, <2>3 DEF ActiveInv, Issued, FlushInv
    <3>2. ASSUME NEW x \in ToUndo \ {p}
          PROVE  turn[x] < turn[p]
      <4>1. turn[x] # turn[p] /\ turn[x] <= turn[p]
        BY <1>2, <3>1 DEF Latest, TurnsDiffer, ToUndo
      <4>2. turn[x] \in Nat /\ turn[p] \in Nat
        BY <2>1 DEF ToUndo
      <4> QED BY ONLY <4>1, <4>2
    <3> QED BY <1>2, <3>1, <3>2 DEF ToUndo
  <2> QED BY <1>2, <2>2, <2>3
<1>5. Rooted'
  <2> SUFFICES ASSUME NEW x \in ToUndo, NEW a \in Above[x]
               PROVE  \/ IsDir(fs'[a].leaf)
                      \/ a \in ToUndo /\ turn[x] < turn[a]
                      \/ undone[a] = "indeterminate"
    BY <1>3 DEF Rooted
  <2>1. a \in Path /\ a # x
    BY PathsAbove DEF ToUndo, Intended
  <2>2. CASE a = p
    BY <1>4, <2>1, <2>2
  <2>3. CASE a # p
    BY <2>1, <2>3, StepsKeepDirs DEF RootInv, Rooted
  <2> QED BY <2>2, <2>3
<1>6. ASSUME phase = "forward" PROVE Standing'
  <2>1. Pursuing(p) /\ Standing
    BY <1>1, <1>2, <1>6 DEF ActiveInv, Issued, Pursuing, RootInv
  <2> SUFFICES ASSUME NEW q \in Path, fs'[q].leaf # Absent, NEW a \in Above[q]
               PROVE  IsDir(fs'[a].leaf)
    BY DEF Standing, Resolves
  <2>2. a \in Path /\ a # q
    BY PathsAbove
  <2>3. CASE q = p
    <3>1. Resolves(p)
      <4>1. CASE call.at = "enter"
        <5>1. PublishIncoming(p) \/ Remove(p)
          BY <2>1, <4>1, PursuitSteps DEF Prepare, Displace, Activate, UpdateDirectory,
             FinishUpdate, Take, Refresh, Running
        <5> QED BY <5>1 DEF PublishIncoming, Remove
      <4>2. CASE call.at # "enter"
        BY <2>1, <4>2, PursuitResolves
      <4> QED BY <4>1, <4>2
    <3> QED BY <2>2, <2>3, <3>1, StepsKeepDirs DEF Resolves
  <2>4. CASE q # p
    <3>1. fs[q].leaf # Absent
      BY <2>4, StepsKeepDirs
    <3>2. Resolves(q)
      BY <2>1, <3>1 DEF Standing
    <3>3. CASE a # p
      BY <2>2, <3>2, <3>3, StepsKeepDirs DEF Resolves
    <3>4. CASE a = p
      <4>1. IsDir(fs[p].leaf)
        BY <3>2, <3>4 DEF Resolves
      <4>2. PICK c \in Above[q] \cup {q} : Parent[c] = p
        BY <3>4, EntryTowards
      <4>3. c \in Path /\ fs[c].leaf # Absent
        BY <3>1, <3>2, <4>2, PathsAbove DEF Resolves, IsDir
      <4> QED BY <2>1, <3>4, <4>1, <4>2, <4>3, EmptiesFirst
    <3> QED BY <3>3, <3>4
  <2> QED BY <2>3, <2>4
<1> QED BY <1>5, <1>6

\* The directories above a path that is worked on next.
LEMMA ExecuteRoot ==
  ASSUME ActiveInv, TreeInv, EndsInv, RootInv, NEW p \in Path, ExecuteActive(p)
  PROVE  RootInv'
<1>1. /\ plan' = plan /\ fs' = fs /\ undone' = undone /\ phase' = phase
      /\ up = "up" /\ phase = "forward" /\ call = NoCall
      /\ p \in Planned /\ p \notin Intended
      /\ \A q \in Planned \ Intended : ~Precedes(q, p)
      /\ turn' = [turn EXCEPT ![p] = Cardinality(Intended) + 1]
  BY DEF ExecuteActive, Issue
<1>2. TypeOK /\ Agrees /\ Open = {}
  BY <1>1 DEF TreeInv, Going, Agrees, OneOpen, NoCall, ActiveInv
<1>3. turn'[p] = Cardinality(Intended) + 1 /\ \A q \in Path \ {p} : turn'[q] = turn[q]
  BY <1>1, <1>2 DEF TypeOK
<1>4. /\ \A q \in Path : undone[q] = "none" /\ turn[q] <= Cardinality(Intended)
      /\ Intended \subseteq Path
  BY <1>1 DEF ActiveInv, Ordered, Intended
<1>5. ToUndo' \subseteq ToUndo \cup {p} /\ ToUndo \subseteq ToUndo'
  BY <1>1, <1>3, <1>4 DEF ToUndo, Intended
<1>6. ASSUME NEW a \in Above[p] PROVE IsDir(fs[a].leaf)
  <2>1. a \in Path /\ a # p
    BY PathsAbove
  <2>2. \A q \in Path : Alike(fs[q].leaf, Want(q))
    BY <1>2 DEF Agrees, Near
  <2>3. CASE plan.effect[p] = "incoming"
    <3>1. plan.effect[a] # "remove"
      BY <1>2, <2>3, TreePlans
    <3>2. CASE plan.effect[a] = "none"
      <4>1. Want(a) = plan.before[a]
        BY <3>2 DEF Want, Final
      <4> QED BY <1>2, <2>1, <2>2, <2>3, <3>2, <4>1, TreePlans, AlikeDirs
    <3>3. CASE plan.effect[a] = "incoming"
      <4>1. a \in Intended
        BY <1>1, <2>1, <2>3, <3>3 DEF Precedes, Planned
      <4>2. terminal[a] = "completed"
        BY <1>1, <1>2, <3>3, <4>1 DEF EndsInv, Ends
      <4>3. Want(a) = plan.incoming[a]
        BY <3>3, <4>2 DEF Want, Final
      <4> QED BY <1>2, <2>1, <2>2, <2>3, <3>3, <4>3, TreePlans, AlikeDirs
    <3> QED BY <1>2, <2>1, <3>1, <3>2, <3>3, PlanTyped
  <2>4. CASE plan.effect[p] # "incoming"
    <3>1. plan.before[p] # Absent
      BY <1>1, <1>2, <2>4, PlanTyped DEF Planned
    <3>2. Want(p) = plan.before[p]
      BY <1>1 DEF Want, ActiveInv, Ordered
    <3>3. fs[p].leaf # Absent
      BY <2>2, <3>1, <3>2, AlikeDirs
    <3> QED BY <1>1, <3>3 DEF RootInv, Standing, Resolves
  <2> QED BY <2>3, <2>4
<1>7. Rooted'
  <2> SUFFICES ASSUME NEW x \in ToUndo', NEW a \in Above[x]
               PROVE  \/ IsDir(fs[a].leaf)
                      \/ a \in ToUndo' /\ turn'[x] < turn'[a]
                      \/ undone[a] = "indeterminate"
    BY <1>1 DEF Rooted
  <2>1. CASE x = p
    BY <1>6, <2>1
  <2>2. CASE x # p
    <3>1. x \in ToUndo /\ x \in Path /\ turn'[x] = turn[x]
      BY <1>3, <1>4, <1>5, <2>2 DEF ToUndo
    <3>2. \/ IsDir(fs[a].leaf)
          \/ a \in ToUndo /\ turn[x] < turn[a]
          \/ undone[a] = "indeterminate"
      BY <1>1, <3>1 DEF RootInv, Rooted
    <3>3. a \in ToUndo => a \in Path /\ a # p
      BY <1>1, <1>4 DEF ToUndo
    <3> QED BY <1>3, <1>5, <3>1, <3>2, <3>3
  <2> QED BY <2>1, <2>2
<1>8. Standing'
  BY <1>1 DEF RootInv, Standing, Resolves
<1> QED BY <1>1, <1>7, <1>8 DEF RootInv

LEMMA RootStays ==
  ASSUME RootInv, UNCHANGED <<turn, undone>>,
         \A q \in Path : IsDir(fs[q].leaf) => IsDir(fs'[q].leaf),
         phase' \in {"forward", "recover"} => phase \in {"forward", "recover"},
         phase' = "forward" => fs' = fs /\ phase = "forward"
  PROVE  RootInv'
<1>1. ToUndo' = ToUndo
  BY ToUndoStays
<1>2. \A x \in ToUndo : Above[x] \subseteq Path
  BY PathsAbove DEF ToUndo, Intended
<1>3. Rooted => Rooted'
  BY <1>1, <1>2 DEF Rooted
<1> QED BY <1>3 DEF RootInv, Standing, Resolves

LEMMA RecordRecoveryRoot ==
  ASSUME ActiveInv, EndsInv, UndoneInv, FlushInv, RootInv, NEW p \in Path, RecordRecovery(p)
  PROVE  RootInv'
<1>1. /\ call.path = p /\ call.op = "recover" /\ call.at = "returned" /\ call # NoCall
      /\ undone' = [undone EXCEPT ![p] = answer]
      /\ UNCHANGED <<phase, plan, fs, turn>>
  BY DEF RecordRecovery, Returned, NoCall
<1>2. /\ phase = "recover" /\ p \in Intended /\ undone[p] = "none" /\ answer # "none"
      /\ TypeOK /\ Latest(p)
  BY <1>1 DEF ActiveInv, Issued, FlushInv
<1>3. undone'[p] = answer /\ \A q \in Path \ {p} : undone'[q] = undone[q]
  BY <1>1, <1>2 DEF TypeOK
<1>4. ToUndo' = ToUndo \ {p} /\ p \in ToUndo /\ ToUndo \subseteq Intended /\ Intended \subseteq Path
  BY <1>1, <1>2, <1>3 DEF ToUndo, Intended
<1>5. answer \in {"completed", "failed", "indeterminate"}
  BY <1>1, <1>2 DEF EndsInv, TypeOK, Pending, Outcome
<1>6. ASSUME NEW x \in ToUndo \ {p}, p \in Above[x]
      PROVE  IsDir(fs[p].leaf) \/ answer = "indeterminate"
  <2>1. x \in Path /\ x \in Planned /\ turn[x] <= turn[p] /\ turn \in [Path -> Nat]
    BY <1>2, <1>4 DEF ToUndo, Latest, ActiveInv, Ordered, TypeOK
  <2>2. CASE answer = "completed"
    <3>1. fs[p] = [leaf |-> plan.before[p], prepared |-> Absent, displaced |-> Absent]
      BY <1>1, <2>2 DEF UndoneInv, AsAdmitted
    <3>2. fs[p].leaf = plan.before[p]
      BY ONLY <3>1
    <3>3. plan.before[x] # Absent
      <4> SUFFICES ASSUME plan.before[x] = Absent PROVE FALSE
        OBVIOUS
      <4>1. plan.effect[x] = "incoming"
        BY <1>2, <2>1, PlanTyped DEF Planned
      <4>2. plan.effect[p] = "incoming"
        BY <1>2, <1>6, <2>1, <4>1, TreePlans, PlanTyped DEF ActiveInv, Ordered, Planned
      <4>3. turn[p] < turn[x]
        BY <1>4, <1>6, <4>2 DEF ActiveInv, Ordered
      <4>4. turn[p] \in Nat /\ turn[x] \in Nat
        BY <2>1
      <4> QED BY <2>1, <4>3, <4>4
    <3> QED BY <1>2, <1>6, <2>1, <3>2, <3>3, TreePlans
  <2>3. CASE answer = "failed"
    BY <1>1, <2>3 DEF EndsInv
  <2> QED BY <1>5, <2>2, <2>3
<1>7. Rooted'
  <2> SUFFICES ASSUME NEW x \in ToUndo \ {p}, NEW a \in Above[x]
               PROVE  \/ IsDir(fs[a].leaf)
                      \/ a \in ToUndo \ {p} /\ turn[x] < turn[a]
                      \/ undone'[a] = "indeterminate"
    BY <1>1, <1>4 DEF Rooted
  <2>1. a \in Path
    BY <1>4, PathsAbove
  <2>2. CASE a = p
    BY <1>3, <1>6, <2>2
  <2>3. CASE a # p
    BY <1>2, <1>3, <2>1, <2>3 DEF RootInv, Rooted
  <2> QED BY <2>2, <2>3
<1> QED BY <1>1, <1>2, <1>7 DEF RootInv

LEMMA RootNext ==
  ASSUME ActiveInv, TreeInv, KeptInv, EndsInv, UndoneInv, FlushInv, RootInv,
         [BackendNext]_<<vars, backend>>
  PROVE  RootInv'
<1>1. CASE UNCHANGED vars
  BY <1>1, RootStays DEF vars, namespace, owner
<1>2. ASSUME NEW p \in Path, Mechanism(p), UNCHANGED owner
      PROVE  RootInv'
  BY <1>2, MechanismRoot
<1>3. ASSUME NEW p \in Path, Engine(p)
      PROVE  RootInv'
  <2>1. CASE RecoverPath(p) \/ DiscardPath(p)
    BY <2>1, RootStays DEF RecoverPath, DiscardPath, Issue, owner
  <2>2. CASE RecordEffect(p)
    <3>1. /\ UNCHANGED <<fs, turn, undone>> /\ phase' \in {phase, "recover"}
          /\ call.op \in {"publish", "remove"} /\ call # NoCall
      BY <2>2 DEF RecordEffect, Returned, NoCall
    <3>2. phase = "forward"
      BY <3>1 DEF ActiveInv, Issued
    <3> QED BY <3>1, <3>2, RootStays
  <2>3. CASE RecordDiscard(p)
    <3>1. call.op = "discard" /\ call # NoCall /\ phase' = phase
      BY <2>3 DEF RecordDiscard, Returned, NoCall
    <3>2. phase = "applied"
      BY <3>1 DEF ActiveInv, Issued
    <3> QED BY <3>1, <3>2 DEF RootInv
  <2> QED BY <1>3, <2>1, <2>2, <2>3, ExecuteRoot, RecordRecoveryRoot DEF Engine
<1>4. ASSUME NEW p \in Path, Lose(p)
      PROVE  RootInv'
  <2>1. PICK w \in Names : /\ w = [fs[p] EXCEPT !.displaced = Absent]
                           /\ w.leaf = fs[p].leaf
    <3>1. fs[p] \in Names
      BY DEF ActiveInv, TypeOK, Names
    <3>2. [fs[p] EXCEPT !.displaced = Absent] \in Names
      BY <3>1 DEF Names
    <3>3. [fs[p] EXCEPT !.displaced = Absent].leaf = fs[p].leaf
      BY <3>1 DEF Names
    <3> QED BY ONLY <3>2, <3>3
  <2>2. fs' = Tree(p, w) /\ phase = "recover" /\ phase' = phase /\ UNCHANGED <<turn, undone>>
    BY <1>4, <2>1 DEF Lose, owner
  <2>3. \A q \in Path : IsDir(fs[q].leaf) => IsDir(fs'[q].leaf)
    <3>1. TypeOK
      BY DEF ActiveInv
    <3>2. fs'[p] = w /\ \A q \in Path \ {p} : Alike(fs'[q].leaf, fs[q].leaf)
      BY <2>2, <3>1, TreeBeside DEF Beside
    <3> QED BY <2>1, <3>2, AlikeDirs
  <2> QED BY <2>2, <2>3, RootStays
<1>5. CASE GivesUp
  BY <1>5, RootStays DEF GivesUp, namespace
<1>6. CASE Conclude
  BY <1>6, RootStays DEF Conclude, namespace
<1>7. CASE Synchronizes
  BY <1>7, RootStays DEF Synchronizes
<1>8. CASE Crash \/ Throw
  BY <1>8, RootStays DEF Crash, Throw, Forget
<1>9. CASE Reopens
  BY <1>9, RootStays DEF Reopens
<1> QED BY <1>1, <1>2, <1>3, <1>4, <1>5, <1>6, <1>7, <1>8, <1>9, StepCases

LEMMA InitRoot == BackendInit => RootInv
<1> SUFFICES ASSUME BackendInit PROVE RootInv
  OBVIOUS
<1>1. TypeOK
  BY InitActive DEF ActiveInv
<1>2. /\ \A p \in Path : fs[p].leaf = plan.before[p]
      /\ turn = [p \in Path |-> 0]
  BY DEF BackendInit, Init
<1>3. ToUndo = {}
  BY <1>2 DEF ToUndo, Intended
<1>4. Standing
  <2> SUFFICES ASSUME NEW q \in Path, fs[q].leaf # Absent, NEW a \in Above[q]
               PROVE  IsDir(fs[a].leaf)
    BY DEF Standing, Resolves
  <2> QED BY <1>1, <1>2, TreePlans
<1> QED BY <1>3, <1>4 DEF RootInv, Rooted

LEMMA RootInvHolds == Spec => []RootInv
<1> QED BY InitRoot, RootNext, ActiveInvHolds, TreeInvHolds, KeptInvHolds, EndsInvHolds,
           UndoneInvHolds, FlushInvHolds, PTL DEF Spec

\* No recovery throws for want of a directory above its path, unless the recovery of
\* that directory has been given up on: the order of the effects, and of their
\* recoveries, sees to it for every tree and every plan of the code's kind.
THEOREM RecoveriesFindTheirParents == Spec => []RecoveryFindsItsParent
<1>1. ActiveInv /\ FlushInv /\ UndoneInv /\ RootInv => RecoveryFindsItsParent
  <2> SUFFICES ASSUME ActiveInv, FlushInv, UndoneInv, RootInv, call.op = "recover",
                      call.at = "enter", ~Resolves(call.path)
               PROVE  \E a \in Above[call.path] \cap Intended : undone[a] = "indeterminate"
    BY DEF RecoveryFindsItsParent
  <2>1. /\ call.path \in Intended /\ phase = "recover" /\ undone[call.path] = "none"
        /\ Latest(call.path)
    BY DEF ActiveInv, Issued, NoCall, FlushInv
  <2>2. call.path \in Path /\ call.path \in ToUndo /\ turn \in [Path -> Nat]
    BY <2>1 DEF Intended, ToUndo, ActiveInv, TypeOK
  <2>3. PICK a \in Above[call.path] : ~IsDir(fs[a].leaf)
    BY DEF Resolves
  <2>4. a \in Path
    BY <2>2, PathsAbove
  <2>5. ~(a \in ToUndo /\ turn[call.path] < turn[a])
    <3> SUFFICES ASSUME a \in ToUndo, turn[call.path] < turn[a] PROVE FALSE
      OBVIOUS
    <3>1. turn[a] <= turn[call.path]
      BY <2>1 DEF Latest, ToUndo
    <3>2. turn[a] \in Nat /\ turn[call.path] \in Nat
      BY <2>2, <2>4
    <3> QED BY <3>1, <3>2
  <2>6. undone[a] = "indeterminate"
    BY <2>1, <2>2, <2>3, <2>5 DEF RootInv, Rooted
  <2>7. a \in Intended
    BY <2>4, <2>6 DEF UndoneInv
  <2> QED BY <2>3, <2>6, <2>7
<1> QED BY <1>1, ActiveInvHolds, FlushInvHolds, UndoneInvHolds, RootInvHolds, PTL

-----------------------------------------------------------------------------
(* The directory a name is in.                                             *)

Named(p) == fs[p].leaf # Absent \/ fs[p].prepared # Absent \/ fs[p].displaced # Absent

\* A directory is at the path, under its own name or the displaced one.
Holds(p) == IsDir(fs[p].leaf) \/ IsDir(fs[p].displaced)

Housed == \A p \in Path : Named(p) => \A a \in Above[p] : Holds(a)

\* There is one directory that the entries of a path can be in.
Apart == \A p \in Path : IsDir(fs[p].displaced) => ~IsDir(fs[p].leaf)

HouseInv == Going => Housed /\ Apart

\* What publish and remove make of the names of their path.
Turns(p) ==
  \/ /\ fs'[p].leaf = fs[p].leaf
     /\ fs'[p].displaced = fs[p].displaced
  \/ /\ fs'[p].leaf = Absent
     /\ fs'[p].displaced = fs[p].leaf
     /\ fs[p].displaced = Absent
  \/ /\ fs'[p].leaf = fs[p].displaced
     /\ fs'[p].displaced = Absent
     /\ ~IsDir(fs[p].leaf)
  \/ /\ fs'[p].leaf = plan.incoming[p]
     /\ fs'[p].displaced = fs[p].displaced
     /\ ~IsDir(fs[p].leaf)
  \/ /\ IsDir(fs[p].leaf) /\ IsDir(fs'[p].leaf)
     /\ fs[p].displaced = Absent /\ fs'[p].displaced = Absent
  \/ /\ fs'[p].leaf = Absent
     /\ fs'[p].displaced = fs[p].displaced
     /\ IsDir(fs[p].leaf) => ~HasEntries(p)

LEMMA AbandonNames ==
  ASSUME TypeOK, NEW p \in Path, NEW workspace \in Names, NEW outcome,
         Abandon(p, workspace, outcome)
  PROVE  /\ fs'[p].leaf = workspace.leaf /\ fs'[p].displaced = workspace.displaced
         /\ call' = [call EXCEPT !.at = "returned"] /\ answer' = outcome
<1>1. PICK w : w \in WithoutPrepared(workspace) /\ fs' = Tree(p, w)
  BY DEF Abandon
<1>2. w \in Names /\ w.leaf = workspace.leaf /\ w.displaced = workspace.displaced
  BY <1>1 DEF WithoutPrepared, Names
<1>3. fs'[p] = w
  BY <1>1, <1>2, TreeTouches
<1> QED BY <1>2, <1>3 DEF Abandon, Answer

LEMMA PursuitTurns ==
  ASSUME ActiveInv, TreeInv, KeptInv, NEW p \in Path, Pursuing(p), Mechanism(p)
  PROVE  Turns(p)
<1>1. /\ TypeOK /\ fs[p] \in Names /\ fs \in [Path -> Names]
      /\ plan.incoming[p] \in Object \cup {Absent} /\ Absent \in Object \cup {Absent}
      /\ fs[p].leaf \in Object \cup {Absent} /\ fs[p].prepared \in Object \cup {Absent}
      /\ fs[p].displaced \in Object \cup {Absent}
  BY PlanTyped DEF ActiveInv, TypeOK, Names
<1>2. \/ PublishIncoming(p) \/ Prepare(p) \/ Displace(p) \/ Activate(p)
      \/ UpdateDirectory(p) \/ FinishUpdate(p) \/ Remove(p) \/ Take(p) \/ Refresh(p)
  BY PursuitSteps
<1>3. CASE fs'[p] = fs[p]
  BY <1>3 DEF Turns
<1>4. CASE Abandon(p, fs[p], "failed") \/ Abandon(p, fs[p], "indeterminate")
  BY <1>1, <1>4, AbandonNames DEF Turns
<1>5. CASE Prepare(p) /\ fs' # fs
  <2>1. PICK w \in Names : /\ w = [fs[p] EXCEPT !.prepared = plan.incoming[p]]
                           /\ w.leaf = fs[p].leaf /\ w.displaced = fs[p].displaced
    <3>1. /\ [fs[p] EXCEPT !.prepared = plan.incoming[p]] \in Names
          /\ [fs[p] EXCEPT !.prepared = plan.incoming[p]].leaf = fs[p].leaf
          /\ [fs[p] EXCEPT !.prepared = plan.incoming[p]].displaced = fs[p].displaced
      BY <1>1 DEF Names
    <3> QED BY ONLY <3>1
  <2>2. fs' = Tree(p, w) \/ Abandon(p, w, "failed")
    BY <1>5, <2>1 DEF Prepare, Fails, Refuse
  <2>3. fs'[p].leaf = w.leaf /\ fs'[p].displaced = w.displaced
    <3>1. CASE fs' = Tree(p, w)
      BY <1>1, <3>1, TreeTouches
    <3>2. CASE Abandon(p, w, "failed")
      BY <1>1, <3>2, AbandonNames
    <3> QED BY <2>2, <3>1, <3>2
  <2> QED BY <2>1, <2>3 DEF Turns
<1>6. CASE fs' = Tree(p, [fs[p] EXCEPT !.displaced = fs[p].leaf, !.leaf = Absent])
             /\ fs[p].displaced = Absent
  <2>1. PICK w \in Names :
          /\ w = [fs[p] EXCEPT !.displaced = fs[p].leaf, !.leaf = Absent]
          /\ w.leaf = Absent /\ w.displaced = fs[p].leaf
    <3>1. LET w == [fs[p] EXCEPT !.displaced = fs[p].leaf, !.leaf = Absent]
          IN  w \in Names /\ w.leaf = Absent /\ w.displaced = fs[p].leaf
      BY ONLY <1>1 DEF Names
    <3> QED BY ONLY <3>1
  <2>2. fs'[p] = w
    BY <1>1, <1>6, <2>1, TreeTouches
  <2> QED BY <1>6, <2>1, <2>2 DEF Turns
<1>7. CASE Displace(p)
  <2>1. fs[p].displaced = Absent
    BY <1>7, OwnContext DEF Displace, Placed, At
  <2> QED BY <1>4, <1>6, <1>7, <2>1 DEF Displace, Change
<1>8. CASE Activate(p)
  <2>1. ~IsDir(fs[p].leaf)
    BY <1>8, MechanismRuns DEF Activate, Running, KeptInv, Course
  <2>2. fs[p].prepared = plan.incoming[p]
    BY <1>8, OwnContext DEF Activate, Placed, At
  <2>3. CASE fs' = Tree(p, Published(p))
    <3>1. PICK w \in Names :
            /\ w = Published(p) /\ w.leaf = fs[p].prepared /\ w.displaced = fs[p].displaced
      <4>1. LET w == Published(p)
            IN  w \in Names /\ w.leaf = fs[p].prepared /\ w.displaced = fs[p].displaced
        BY ONLY <1>1 DEF Names, Published
      <4> QED BY ONLY <4>1
    <3>2. fs'[p] = w
      BY <1>1, <2>3, <3>1, TreeTouches
    <3> QED BY <2>1, <2>2, <3>1, <3>2 DEF Turns
  <2>4. CASE Abandon(p, [fs[p] EXCEPT !.leaf = fs[p].displaced, !.displaced = Absent],
                     "indeterminate")
    <3>1. PICK w \in Names :
            /\ w = [fs[p] EXCEPT !.leaf = fs[p].displaced, !.displaced = Absent]
            /\ w.leaf = fs[p].displaced /\ w.displaced = Absent
      <4>1. LET w == [fs[p] EXCEPT !.leaf = fs[p].displaced, !.displaced = Absent]
            IN  w \in Names /\ w.leaf = fs[p].displaced /\ w.displaced = Absent
        BY ONLY <1>1 DEF Names
      <4> QED BY ONLY <4>1
    <3>2. Abandon(p, w, "indeterminate")
      BY <2>4, <3>1
    <3>3. fs'[p].leaf = w.leaf /\ fs'[p].displaced = w.displaced
      BY <1>1, <3>2, AbandonNames
    <3> QED BY <2>1, <3>1, <3>3 DEF Turns
  <2> QED BY <1>4, <1>8, <2>3, <2>4 DEF Activate, Change
<1>9. CASE (UpdateDirectory(p) \/ FinishUpdate(p)) /\ fs' # fs
  <2>1. PICK object \in Object :
          /\ IsDir(fs[p].leaf) /\ IsDir(object)
          /\ [fs[p] EXCEPT !.leaf = object] \in Names
          /\ fs' = [fs EXCEPT ![p] = [fs[p] EXCEPT !.leaf = object]]
    <3>1. Reset(p)
      BY <1>9, UpdateResets
    <3> QED BY ONLY <3>1 DEF Reset
  <2>2. fs'[p] = [fs[p] EXCEPT !.leaf = object]
    BY <1>1, <2>1
  <2>3. fs'[p].leaf = object /\ fs'[p].displaced = fs[p].displaced
    BY <1>1, <2>2, WithLeaf
  <2>4. fs[p].displaced = Absent
    BY <1>9, UpdateContext DEF UpdateDirectory, FinishUpdate, Clear
  <2> QED BY <2>1, <2>3, <2>4 DEF Turns
<1>10. CASE Take(p) /\ fs' # fs
  <2>1. fs[p].displaced = Absent
    BY <1>10, OwnContext DEF Take, Placed, At, Clear
  <2>2. CASE p \in plan.captured
    BY <1>6, <1>10, <2>1, <2>2 DEF Take, Change, Fails, Refuse
  <2>3. CASE p \notin plan.captured
    <3>1. /\ fs' = Tree(p, [fs[p] EXCEPT !.leaf = Absent])
          /\ IsDir(fs[p].leaf) => ~HasEntries(p)
      BY <1>10, <2>3 DEF Take, Change, Fails, Refuse
    <3>2. PICK w \in Names : /\ w = [fs[p] EXCEPT !.leaf = Absent]
                             /\ w.leaf = Absent /\ w.displaced = fs[p].displaced
      <4>1. LET w == [fs[p] EXCEPT !.leaf = Absent]
            IN  w \in Names /\ w.leaf = Absent /\ w.displaced = fs[p].displaced
        BY ONLY <1>1 DEF Names
      <4> QED BY ONLY <4>1
    <3>3. fs'[p] = w
      BY <1>1, <3>1, <3>2, TreeTouches
    <3> QED BY <3>1, <3>2, <3>3 DEF Turns
  <2> QED BY <2>2, <2>3
<1>11. PublishIncoming(p) \/ Remove(p) => fs' = fs
  BY DEF PublishIncoming, Remove, Refuse
<1>12. Refresh(p) => fs'[p] = fs[p]
  BY <1>1, RefreshedTouches DEF Refresh
<1> QED BY <1>2, <1>3, <1>5, <1>7, <1>8, <1>9, <1>10, <1>11, <1>12

-----------------------------------------------------------------------------
(* Discard.                                                                *)

LEMMA DiscardSteps ==
  ASSUME ActiveInv, NEW p \in Path, Mechanism(p), call.op = "discard"
  PROVE  /\ phase = "applied" /\ call.path = p /\ call # NoCall
         /\ DiscardRecovery(p) \/ DropBelow(p) \/ Drop(p) \/ Refresh(p)
<1>1. TypeOK /\ call # NoCall
  BY MechanismRuns DEF ActiveInv
<1>2. call.path = p /\ Placed(p, call.op, call.at) /\ phase = "applied"
  BY <1>1, StepNotes DEF Noted, ActiveInv, Issued
<1>3. ~(PublishIncoming(p) \/ Prepare(p) \/ Displace(p) \/ Activate(p) \/ Remove(p) \/ Take(p)
        \/ UpdateDirectory(p) \/ FinishUpdate(p))
  BY <1>2 DEF PublishIncoming, Prepare, Displace, Activate, Remove, Take, UpdateDirectory,
              FinishUpdate, Running, Placed
<1>4. ~(Recover(p) \/ Clean(p) \/ Unpublish(p) \/ Restore(p) \/ Withdraw(p) \/ Copy(p)
        \/ Vacate(p) \/ Install(p) \/ Readmit(p))
  BY <1>2 DEF Recover, Clean, Unpublish, Restore, Withdraw, Copy, Vacate, Install, Readmit,
              Running, Placed
<1> QED BY <1>1, <1>2, <1>3, <1>4 DEF Mechanism

\* Discard takes displaced objects and nothing else, a directory once it is empty.
Discards(q) ==
  /\ Alike(fs'[q].leaf, fs[q].leaf)
  /\ fs'[q].prepared = fs[q].prepared
  /\ \/ fs'[q].displaced = fs[q].displaced
     \/ fs'[q].displaced = Absent /\ (IsDir(fs[q].displaced) => ~HasEntries(q))

LEMMA DropTouches ==
  ASSUME TypeOK, NEW p \in Path, Drop(p)
  PROVE  \/ fs' = fs /\ "io" \in faults /\ call'.at = "returned" /\ answer' = "indeterminate"
         \/ /\ IsDir(fs[p].displaced) => ~HasEntries(p)
            /\ fs' = Tree(p, [fs[p] EXCEPT !.displaced = Absent])
            /\ Touches(p) /\ call'.at = "refresh"
            /\ fs'[p].leaf = fs[p].leaf /\ fs'[p].prepared = fs[p].prepared
            /\ fs'[p].displaced = Absent
<1>1. fs[p] \in Names
  BY DEF TypeOK, Names
<1>2. CASE Fails("indeterminate")
  BY <1>2 DEF Fails, Refuse, Answer, TypeOK
<1>3. CASE /\ IsDir(fs[p].displaced) => ~HasEntries(p)
           /\ Change(p, [fs[p] EXCEPT !.displaced = Absent])
           /\ Goto("refresh")
  <2>1. PICK w \in Names : /\ w = [fs[p] EXCEPT !.displaced = Absent]
                           /\ w.leaf = fs[p].leaf /\ w.prepared = fs[p].prepared
                           /\ w.displaced = Absent
    <3>1. /\ [fs[p] EXCEPT !.displaced = Absent] \in Names
          /\ [fs[p] EXCEPT !.displaced = Absent].leaf = fs[p].leaf
          /\ [fs[p] EXCEPT !.displaced = Absent].prepared = fs[p].prepared
          /\ [fs[p] EXCEPT !.displaced = Absent].displaced = Absent
      BY <1>1 DEF Names
    <3> QED BY ONLY <3>1
  <2>2. fs' = Tree(p, w)
    BY <1>3, <2>1 DEF Change
  <2>3. Touches(p) /\ fs'[p] = w
    BY <2>2, TreeTouches
  <2>4. call'.at = "refresh"
    BY <1>3 DEF Goto, TypeOK
  <2> QED BY <1>3, <2>1, <2>2, <2>3, <2>4
<1> QED BY <1>2, <1>3 DEF Drop

LEMMA DiscardNames ==
  ASSUME ActiveInv, TreeInv, UNCHANGED owner, NEW p \in Path, Mechanism(p),
         call.op = "discard"
  PROVE  \A q \in Path : Discards(q)
<1>1. TypeOK /\ Agrees /\ Going
  BY DiscardSteps DEF ActiveInv, TreeInv, Going
<1>2. \A q \in Path : Alike(fs'[q].leaf, fs[q].leaf)
  BY <1>1, DiscardLeaves
<1>3. CASE fs' = fs
  BY <1>2, <1>3 DEF Discards
<1>4. CASE DropBelow(p)
  <2>1. PICK q \in Path : /\ Touches(q) /\ ~HasEntries(q)
                          /\ fs'[q].prepared = fs[q].prepared /\ fs'[q].displaced = Absent
    BY <1>1, <1>4, DropBelowTouches
  <2>2. Discards(q)
    BY <1>2, <2>1 DEF Discards
  <2>3. \A x \in Path \ {q} : Discards(x)
    BY <1>2, <2>1 DEF Discards, Touches
  <2> QED BY <2>2, <2>3
<1>5. CASE Drop(p) /\ fs' # fs
  <2>1. /\ IsDir(fs[p].displaced) => ~HasEntries(p)
        /\ Touches(p) /\ fs'[p].prepared = fs[p].prepared /\ fs'[p].displaced = Absent
    BY <1>1, <1>5, DropTouches
  <2>2. Discards(p)
    BY <1>2, <2>1 DEF Discards
  <2>3. \A x \in Path \ {p} : Discards(x)
    BY <1>2, <2>1 DEF Discards, Touches
  <2> QED BY <2>2, <2>3
<1>6. CASE Refresh(p)
  BY <1>1, <1>2, <1>6, RefreshedTouches DEF Refresh, Discards, Touches
<1>7. DiscardRecovery(p) => fs' = fs
  BY DEF DiscardRecovery, Refuse
<1> QED BY <1>3, <1>4, <1>5, <1>6, <1>7, DiscardSteps

-----------------------------------------------------------------------------
(* Every name is in a directory.                                           *)

\* A directory goes when it is empty, and a name comes where directories are.
LEMMA HousedKeeps ==
  ASSUME Housed,
         \A q \in Path : Named(q)' => Named(q) \/ Resolves(q)',
         \A a \in Path : Holds(a) => Holds(a)' \/ ~HasEntries(a)
  PROVE  Housed'
<1> SUFFICES ASSUME NEW q \in Path, Named(q)', NEW a \in Above[q]
             PROVE  Holds(a)'
  BY DEF Housed
<1>1. a \in Path
  BY PathsAbove
<1>2. CASE Resolves(q)'
  BY <1>2 DEF Resolves, Holds
<1>3. CASE Named(q)
  <2>1. PICK c \in Above[q] \cup {q} : Parent[c] = a
    BY EntryTowards
  <2>2. c \in Path /\ Named(c)
    BY <1>3, <2>1, PathsAbove DEF Housed, Holds, Named, IsDir
  <2>3. HasEntries(a)
    BY <2>1, <2>2 DEF HasEntries, Named, Slot
  <2> QED BY <1>1, <1>3, <2>3 DEF Housed
<1> QED BY <1>2, <1>3

LEMMA PursuitHouse ==
  ASSUME ActiveInv, TreeInv, KeptInv, EndsInv, HouseInv, UNCHANGED owner,
         NEW p \in Path, Pursuing(p), Mechanism(p)
  PROVE  Housed' /\ Apart'
<1>1. /\ TypeOK /\ call # NoCall /\ call.path = p /\ phase = "forward"
      /\ Shape(p) /\ Housed /\ Apart /\ p \in Intended
  <2>1. TypeOK /\ call # NoCall /\ phase = "forward" /\ p \in Intended
    BY WorkContext
  <2> QED BY <2>1, MechanismShape DEF Pursuing, HouseInv, Going
<1>2. ~DropBelow(p)
  BY <1>1, OwnContext DEF DropBelow, Placed, At, Pursuing
<1>3. Touches(p) /\ Turns(p)
  BY <1>1, <1>2, ShapeTouches, PursuitTurns
<1>4. \A q \in Path \ {p} : /\ fs'[q].leaf = Absent <=> fs[q].leaf = Absent
                            /\ IsDir(fs[q].leaf) => IsDir(fs'[q].leaf)
                            /\ fs'[q].prepared = fs[q].prepared
                            /\ fs'[q].displaced = fs[q].displaced
  <2>1. \A q \in Path \ {p} : /\ fs'[q].leaf = Absent <=> fs[q].leaf = Absent
                              /\ IsDir(fs[q].leaf) => IsDir(fs'[q].leaf)
    BY <1>1, StepsKeepDirs
  <2>2. \A q \in Path \ {p} : /\ fs'[q].prepared = fs[q].prepared
                              /\ fs'[q].displaced = fs[q].displaced
    BY ONLY <1>3 DEF Touches
  <2> QED BY ONLY <2>1, <2>2
<1>5. CASE fs' = fs
  BY <1>1, <1>5 DEF Housed, Apart, Named, Holds
<1>6. CASE fs' # fs
  <2>1. call.at # "enter"
    BY <1>6, PursuitSteps DEF PublishIncoming, Remove, Prepare, Displace, Activate,
       UpdateDirectory, FinishUpdate, Take, Refresh, Running, Refuse
  <2>2. Resolves(p)
    BY <2>1, PursuitResolves
  <2>3. Resolves(p)'
    BY <1>4, <2>2, PathsAbove DEF Resolves
  <2>4. \A q \in Path : Named(q)' => Named(q) \/ Resolves(q)'
    BY <1>4, <2>3 DEF Named
  <2>5. ASSUME NEW a \in Path, Holds(a) PROVE Holds(a)' \/ ~HasEntries(a)
    <3>1. CASE a # p
      BY <1>4, <2>5, <3>1 DEF Holds
    <3>2. CASE a = p
      BY <1>3, <2>5, <3>2 DEF Holds, Turns, IsDir
    <3> QED BY <3>1, <3>2
  <2>6. Housed'
    BY <1>1, <2>4, <2>5, HousedKeeps
  <2>7. ASSUME NEW q \in Path, IsDir(fs'[q].displaced) PROVE ~IsDir(fs'[q].leaf)
    <3>1. CASE q # p
      BY <1>1, <1>3, <1>4, <2>7, <3>1 DEF Apart, Touches
    <3>2. CASE q = p
      <4>1. IsDir(fs[p].displaced) => ~IsDir(plan.incoming[p])
        <5> SUFFICES ASSUME IsDir(fs[p].displaced) PROVE ~IsDir(plan.incoming[p])
          OBVIOUS
        <5>1. ~BothDirs(plan.before[p], plan.incoming[p])
          BY DEF KeptInv, Kept, Displaceable, IsDir
        <5>2. IsDir(plan.before[p])
          BY DEF ActiveInv, Sound, SameOld, IsDir
        <5> QED BY <5>1, <5>2 DEF BothDirs
      <4> QED BY <1>1, <1>3, <2>7, <3>2, <4>1 DEF Apart, Turns, IsDir
    <3> QED BY <3>1, <3>2
  <2> QED BY <2>6, <2>7 DEF Apart
<1> QED BY <1>5, <1>6

LEMMA DiscardHouse ==
  ASSUME ActiveInv, TreeInv, HouseInv, UNCHANGED owner, NEW p \in Path,
         call.op = "discard", Mechanism(p)
  PROVE  Housed' /\ Apart'
<1>1. Housed /\ Apart
  BY DiscardSteps DEF HouseInv, Going
<1>2. \A q \in Path : Discards(q)
  BY DiscardNames
<1>3. \A q \in Path : /\ fs'[q].leaf = Absent <=> fs[q].leaf = Absent
                      /\ IsDir(fs'[q].leaf) <=> IsDir(fs[q].leaf)
  BY <1>2, AlikeDirs DEF Discards
<1>4. \A q \in Path : Named(q)' => Named(q)
  BY <1>2, <1>3 DEF Named, Discards
<1>5. \A a \in Path : Holds(a) => Holds(a)' \/ ~HasEntries(a)
  BY <1>2, <1>3 DEF Holds, Discards
<1>6. Apart'
  BY <1>1, <1>2, <1>3 DEF Apart, Discards, IsDir
<1> QED BY <1>1, <1>4, <1>5, <1>6, HousedKeeps

\* A step beside an operation goes on with the attempt, or stops it.
LEMMA EngineGoes ==
  ASSUME ActiveInv,
         \/ UNCHANGED vars
         \/ \E p \in Path : Engine(p)
         \/ GivesUp \/ Conclude \/ Synchronizes \/ Crash \/ Throw \/ Reopens
  PROVE  /\ phase' = "forward" => phase = "forward"
         /\ phase' = "applied" /\ phase # "applied" => Conclude /\ phase = "forward"
<1>1. \A p \in Path : Engine(p) => phase' \in {phase, "recover"}
  BY DEF Engine, ExecuteActive, RecordEffect, RecoverPath, RecordRecovery, DiscardPath,
         RecordDiscard, owner
<1>2. UNCHANGED vars \/ GivesUp \/ Synchronizes \/ Crash \/ Throw \/ Reopens
        => phase' \in {phase, "recover"}
  BY DEF GivesUp, Synchronizes, Crash, Throw, Reopens, vars, owner
<1>3. Conclude => phase' = "restored" \/ (phase' = "applied" /\ phase = "forward")
  BY DEF Conclude
<1> QED BY <1>1, <1>2, <1>3

LEMMA MechanismHouse ==
  ASSUME ActiveInv, TreeInv, KeptInv, EndsInv, HouseInv, UNCHANGED owner,
         NEW p \in Path, Mechanism(p)
  PROVE  HouseInv'
<1> SUFFICES ASSUME Going PROVE Housed' /\ Apart'
  BY DEF HouseInv, Going, owner
<1>1. TypeOK /\ call # NoCall
  BY MechanismRuns DEF ActiveInv
<1>2. call.path = p /\ call.op \in {"publish", "remove", "discard"}
  BY <1>1, StepNotes DEF Noted, ActiveInv, Issued, Going
<1> QED BY <1>2, PursuitHouse, DiscardHouse DEF Pursuing

LEMMA HouseNext ==
  ASSUME ActiveInv, TreeInv, KeptInv, EndsInv, HouseInv, [BackendNext]_<<vars, backend>>
  PROVE  HouseInv'
<1>1. ASSUME NEW p \in Path, Mechanism(p), UNCHANGED owner
      PROVE  HouseInv'
  BY <1>1, MechanismHouse
<1>2. ASSUME NEW p \in Path, Lose(p)
      PROVE  HouseInv'
  BY <1>2 DEF Lose, owner, HouseInv, Going
<1>3. CASE \/ UNCHANGED vars
           \/ \E p \in Path : Engine(p)
           \/ GivesUp \/ Conclude \/ Synchronizes \/ Crash \/ Throw \/ Reopens
  <2>1. fs' = fs /\ (Going' => Going)
    BY <1>3, EngineMoves, EngineGoes DEF Going
  <2> QED BY <2>1 DEF HouseInv, Housed, Apart, Named, Holds
<1> QED BY <1>1, <1>2, <1>3, StepCases

LEMMA InitHouse == BackendInit => HouseInv
<1> SUFFICES ASSUME BackendInit PROVE HouseInv
  OBVIOUS
<1>1. TypeOK
  BY InitActive DEF ActiveInv
<1>2. \A p \in Path : /\ fs[p].leaf = plan.before[p] /\ fs[p].prepared = Absent
                      /\ fs[p].displaced = Absent
  BY DEF BackendInit, Init
<1>3. Housed
  <2> SUFFICES ASSUME NEW q \in Path, Named(q), NEW a \in Above[q]
               PROVE  IsDir(fs[a].leaf)
    BY DEF Housed, Holds
  <2> QED BY <1>1, <1>2, TreePlans DEF Named
<1>4. Apart
  BY <1>2 DEF Apart, IsDir
<1> QED BY <1>3, <1>4 DEF HouseInv

LEMMA HouseInvHolds == Spec => []HouseInv
<1> QED BY InitHouse, HouseNext, ActiveInvHolds, TreeInvHolds, KeptInvHolds, EndsInvHolds,
           PTL DEF Spec

-----------------------------------------------------------------------------
(* What is left to discard.                                                *)

\* A path that no effect is under way at has no prepared name, and an effect that
\* completes leaves none.
TidyInv ==
  Going =>
    /\ \A p \in Path \ Open : fs[p].prepared = Absent
    /\ call.op \in {"publish", "remove"} /\
       (\/ call.at = "refresh"
        \/ call.at = "returned" /\ answer \in {"completed", "conditional_retained"})
         => fs[call.path].prepared = Absent

\* What publish and remove leave of the prepared name when they end well.
LEMMA PursuitTidies ==
  ASSUME ActiveInv, TreeInv, TidyInv, NEW p \in Path, Pursuing(p), Mechanism(p),
         \/ call'.at = "refresh"
         \/ call'.at = "returned" /\ answer' \in {"completed", "conditional_retained"}
  PROVE  fs'[p].prepared = Absent
<1>1. TypeOK /\ fs[p] \in Names /\ fs \in [Path -> Names] /\ phase = "forward"
  BY WorkContext DEF TypeOK, Names
<1>2. \/ PublishIncoming(p) \/ Prepare(p) \/ Displace(p) \/ Activate(p)
      \/ UpdateDirectory(p) \/ FinishUpdate(p) \/ Remove(p) \/ Take(p) \/ Refresh(p)
  BY PursuitSteps
<1>3. ASSUME NEW point \in At \ {"refresh", "returned"} PROVE ~Goto(point)
  BY <1>1, <1>3 DEF Goto, TypeOK
<1>4. ~Refuse("failed") /\ ~Refuse("indeterminate")
  BY <1>1 DEF Refuse, Answer, TypeOK
<1>5. \A w : ~Abandon(p, w, "failed") /\ ~Abandon(p, w, "indeterminate")
  BY <1>1 DEF Abandon, Answer, TypeOK
<1>6. ~PublishIncoming(p)
  BY <1>3, <1>4 DEF PublishIncoming, At
<1>7. ~Prepare(p)
  BY <1>3, <1>4, <1>5 DEF Prepare, Fails, At
<1>8. ~Displace(p)
  BY <1>3, <1>5 DEF Displace, At
<1>9. ~Remove(p)
  BY <1>3, <1>4 DEF Remove, At
<1>10. CASE Activate(p)
  <2>1. fs' = Tree(p, Published(p))
    BY <1>5, <1>10 DEF Activate, Change
  <2>2. Published(p) \in Names /\ Published(p).prepared = Absent
    BY ONLY <1>1 DEF Names, Published
  <2> QED BY <1>1, <2>1, <2>2, TreeTouches
<1>11. CASE UpdateDirectory(p) \/ FinishUpdate(p)
  <2>1. fs[p].prepared = Absent
    BY <1>11, UpdateContext DEF UpdateDirectory, FinishUpdate, Clear
  <2>2. CASE fs' # fs
    <3>1. Reset(p)
      BY <1>11, <2>2, UpdateResets
    <3>2. PICK object \in Object : fs' = [fs EXCEPT ![p] = [fs[p] EXCEPT !.leaf = object]]
      BY ONLY <3>1 DEF Reset
    <3>3. fs'[p] = [fs[p] EXCEPT !.leaf = object]
      BY <1>1, <3>2
    <3> QED BY <1>1, <2>1, <3>3, WithLeaf
  <2> QED BY <2>1, <2>2
<1>12. CASE Take(p)
  <2>1. Clear(p)
    BY <1>12, OwnContext DEF Take, Placed, At
  <2>2. CASE fs' # fs
    <3>1. PICK w \in Names : fs' = Tree(p, w) /\ w.prepared = fs[p].prepared
      <4>1. LET w == [fs[p] EXCEPT !.displaced = fs[p].leaf, !.leaf = Absent]
            IN  w \in Names /\ w.prepared = fs[p].prepared
        BY ONLY <1>1 DEF Names
      <4>2. LET w == [fs[p] EXCEPT !.leaf = Absent]
            IN  w \in Names /\ w.prepared = fs[p].prepared
        BY ONLY <1>1 DEF Names
      <4>3. \/ fs' = Tree(p, [fs[p] EXCEPT !.displaced = fs[p].leaf, !.leaf = Absent])
            \/ fs' = Tree(p, [fs[p] EXCEPT !.leaf = Absent])
        BY <1>12, <2>2 DEF Take, Change, Fails, Refuse
      <4> QED BY ONLY <4>1, <4>2, <4>3
    <3>2. fs'[p] = w
      BY <1>1, <3>1, TreeTouches
    <3> QED BY <2>1, <3>1, <3>2 DEF Clear
  <2> QED BY <2>1, <2>2 DEF Clear
<1>13. CASE Refresh(p)
  <2>1. fs[p].prepared = Absent
    BY <1>1, <1>13 DEF TidyInv, Going, Refresh, Running, Pursuing
  <2> QED BY <1>1, <1>13, <2>1, RefreshedTouches DEF Refresh
<1> QED BY <1>2, <1>6, <1>7, <1>8, <1>9, <1>10, <1>11, <1>12, <1>13

LEMMA MechanismTidy ==
  ASSUME ActiveInv, TreeInv, KeptInv, TidyInv, UNCHANGED owner, NEW p \in Path, Mechanism(p)
  PROVE  TidyInv'
<1> SUFFICES ASSUME Going
             PROVE  /\ \A q \in Path \ Open : fs'[q].prepared = Absent
                    /\ call'.op \in {"publish", "remove"} /\
                       (\/ call'.at = "refresh"
                        \/ /\ call'.at = "returned"
                           /\ answer' \in {"completed", "conditional_retained"})
                         => fs'[call'.path].prepared = Absent
  BY DEF TidyInv, Going, owner, Open, Intended
<1>1. TypeOK /\ call # NoCall
  BY MechanismRuns DEF ActiveInv
<1>2. call.path = p /\ call.op \in {"publish", "remove", "discard"}
  BY <1>1, StepNotes DEF Noted, ActiveInv, Issued, Going
<1>3. call'.op = call.op /\ call'.path = call.path
  BY MechanismStepKeeps DEF StepKeeps
<1>4. CASE Pursuing(p)
  <2>1. Open = {p} /\ ~DropBelow(p)
    BY <1>1, <1>4, WorkContext, OwnContext DEF DropBelow, Placed, At, Pursuing
  <2>2. Touches(p)
    BY <1>1, <2>1, MechanismShape, ShapeTouches
  <2>3. \A q \in Path \ {p} : fs'[q].prepared = Absent
    BY <2>1, <2>2 DEF Touches, TidyInv
  <2>4. ASSUME \/ call'.at = "refresh"
               \/ call'.at = "returned" /\ answer' \in {"completed", "conditional_retained"}
        PROVE  fs'[p].prepared = Absent
    BY <1>4, <2>4, PursuitTidies
  <2> QED BY <1>2, <1>3, <2>1, <2>3, <2>4
<1>5. CASE call.op = "discard"
  BY <1>3, <1>5, DiscardNames DEF Discards, TidyInv
<1> QED BY <1>2, <1>4, <1>5 DEF Pursuing

LEMMA TidyStays ==
  ASSUME TidyInv, fs' = fs, Going' => Going, Open \subseteq Open',
         call'.at \in {"refresh", "returned"} => UNCHANGED <<call, answer>>
  PROVE  TidyInv'
<1> QED BY DEF TidyInv, Going

LEMMA RecordEffectTidy ==
  ASSUME ActiveInv, TreeInv, TidyInv, NEW p \in Path, RecordEffect(p)
  PROVE  TidyInv'
<1> SUFFICES ASSUME Going' PROVE \A q \in Path \ Open' : fs[q].prepared = Absent
  <2>1. fs' = fs /\ call' = NoCall
    BY DEF RecordEffect, Returned
  <2> QED BY <2>1 DEF TidyInv, NoCall
<1>1. /\ TypeOK /\ phase = "forward" /\ call.at = "returned" /\ call.path = p
      /\ call.op \in {"publish", "remove"} /\ turn' = turn
      /\ terminal' = [terminal EXCEPT ![p] = answer]
  BY DEF RecordEffect, Returned, ActiveInv, Issued, NoCall
<1>2. answer \in {"completed", "conditional_retained"}
  <2>1. answer \in Outcome
    BY <1>1 DEF ActiveInv, Issued, NoCall, TypeOK, Pending
  <2>2. answer \notin {"failed", "indeterminate"}
    BY DEF RecordEffect, Going
  <2> QED BY <2>1, <2>2 DEF Outcome
<1>3. fs[p].prepared = Absent /\ \A q \in Path \ Open : fs[q].prepared = Absent
  BY <1>1, <1>2 DEF TidyInv, Going
<1>4. \A q \in Path \ Open' : q = p \/ q \notin Open
  BY <1>1 DEF Open, Intended, TypeOK
<1> QED BY <1>3, <1>4

LEMMA TidyNext ==
  ASSUME ActiveInv, TreeInv, KeptInv, TidyInv, [BackendNext]_<<vars, backend>>
  PROVE  TidyInv'
<1>1. ASSUME NEW p \in Path, Mechanism(p), UNCHANGED owner
      PROVE  TidyInv'
  BY <1>1, MechanismTidy
<1>2. ASSUME NEW p \in Path, Lose(p)
      PROVE  TidyInv'
  BY <1>2 DEF Lose, owner, TidyInv, Going
<1>3. ASSUME NEW p \in Path, RecordEffect(p)
      PROVE  TidyInv'
  BY <1>3, RecordEffectTidy
<1>4. CASE \/ UNCHANGED vars
           \/ \E p \in Path : Engine(p) /\ ~RecordEffect(p)
           \/ GivesUp \/ Conclude \/ Synchronizes \/ Crash \/ Throw \/ Reopens
  <2>1. fs' = fs /\ (Going' => Going) /\ Intended \subseteq Intended'
    BY <1>4, EngineMoves, EngineGoes DEF Going
  <2>2. terminal' = terminal
    BY <1>4 DEF Engine, ExecuteActive, RecoverPath, RecordRecovery, DiscardPath,
       RecordDiscard, GivesUp, Conclude, Synchronizes, Crash, Throw, Reopens, vars, owner
  <2>3. call'.at \in {"refresh", "returned"} => UNCHANGED <<call, answer>>
    BY <1>4 DEF Engine, ExecuteActive, RecoverPath, RecordRecovery, DiscardPath,
       RecordDiscard, GivesUp, Conclude, Synchronizes, Crash, Throw, Reopens, vars, owner,
       namespace, Issue, Returned, Forget, NoCall
  <2>4. Open \subseteq Open'
    BY <2>1, <2>2 DEF Open
  <2> QED BY <2>1, <2>3, <2>4, TidyStays
<1> QED BY <1>1, <1>2, <1>3, <1>4, StepCases

LEMMA InitTidy == BackendInit => TidyInv
<1> QED BY DEF BackendInit, Init, TidyInv, NoCall

LEMMA TidyInvHolds == Spec => []TidyInv
<1> QED BY InitTidy, TidyNext, ActiveInvHolds, TreeInvHolds, KeptInvHolds, PTL DEF Spec

\* What a discard has found or done, and what the ones before it have.
DropInv ==
  phase = "applied" =>
    /\ \A p \in Path : /\ undone[p] # "none" => p \in Displacing
                       /\ undone[p] = "completed" => Clear(p)
    /\ call.op = "discard" =>
         /\ call.path \in Displacing /\ undone[call.path] = "none"
         /\ call.at = "refresh" => Clear(call.path)
         /\ call.at = "returned" /\ answer = "completed" => Clear(call.path)
         /\ call.at = "drop" =>
              /\ fs[call.path].displaced # Absent
              /\ IsDir(plan.before[call.path]) => RecoveryTree(call.path)

LEMMA DisplacingStays ==
  ASSUME UNCHANGED <<plan, turn>>
  PROVE  Displacing' = Displacing
<1> QED BY DEF Displacing, Intended

\* A discard leaves no more names than it found.
LEMMA DiscardedTree ==
  ASSUME NEW p \in Path, RecoveryTree(p), \A q \in Path : Discards(q),
         UNCHANGED <<plan, effects>>
  PROVE  RecoveryTree(p)'
<1> SUFFICES ASSUME NEW q \in Path, p \in Above[q], \E s \in Slot : fs'[q][s] # Absent
             PROVE  /\ fs'[q].leaf = Absent /\ fs'[q].prepared = Absent
                    /\ CapturedRemoval(q)'
  BY DEF RecoveryTree
<1>1. Discards(q) /\ (fs'[q].leaf = Absent <=> fs[q].leaf = Absent)
  BY DEF Discards, Alike
<1>2. \E s \in Slot : fs[q][s] # Absent
  BY <1>1 DEF Slot, Discards
<1>3. fs[q].leaf = Absent /\ fs[q].prepared = Absent /\ CapturedRemoval(q)
  BY <1>2 DEF RecoveryTree
<1> QED BY <1>1, <1>3 DEF Discards, CapturedRemoval

LEMMA ClearStays ==
  ASSUME NEW q \in Path, Discards(q), Clear(q)
  PROVE  Clear(q)'
<1> QED BY DEF Clear, Discards

\* A path below a captured directory that is gone has no names left.
LEMMA CoveredIsClear ==
  ASSUME TypeOK, Housed, NEW p \in Path, Covered(p)
  PROVE  Clear(p)
<1>1. PICK a \in Above[p] : Clear(a) /\ fs[a].leaf = Absent
  BY DEF Covered, Highest, Covering
<1>2. ~Holds(a)
  BY <1>1 DEF Holds, IsDir, Clear
<1> QED BY <1>2 DEF Housed, Named, Clear

\* How a discard begins.
LEMMA DiscardRecoveryDrops ==
  ASSUME ActiveInv, Housed, NEW p \in Path, DiscardRecovery(p)
  PROVE  /\ fs' = fs /\ effects' = effects /\ call.at = "enter"
         /\ \/ call'.at = "returned" /\ (answer' = "completed" => Clear(p))
            \/ /\ call'.at = "drop"
               /\ fs[p].displaced # Absent
               /\ IsDir(plan.before[p]) => RecoveryTree(p)
<1>1. TypeOK
  BY DEF ActiveInv
<1>2. CASE Covered(p) /\ Refuse("completed")
  BY <1>1, <1>2, CoveredIsClear DEF Refuse, Answer, TypeOK, DiscardRecovery, Running
<1>3. CASE Refuse("indeterminate")
  BY <1>1, <1>3 DEF Refuse, Answer, TypeOK, DiscardRecovery, Running
<1>4. CASE Clear(p) /\ Refuse("completed")
  BY <1>1, <1>4 DEF Refuse, Answer, TypeOK, DiscardRecovery, Running
<1>5. CASE /\ fs[p].displaced # Absent
           /\ IsDir(plan.before[p]) => RecoveryTree(p)
           /\ Goto("drop") /\ UNCHANGED <<fs, effects, dirty, unsynced>>
  <2>1. call'.at = "drop"
    BY <1>1, <1>5 DEF Goto, TypeOK
  <2> QED BY <1>5, <2>1 DEF DiscardRecovery, Running
<1> QED BY <1>2, <1>3, <1>4, <1>5 DEF DiscardRecovery

LEMMA DiscardDrops ==
  ASSUME ActiveInv, TreeInv, HouseInv, TidyInv, DropInv, UNCHANGED owner,
         NEW p \in Path, call.op = "discard", Mechanism(p)
  PROVE  DropInv'
<1>1. /\ TypeOK /\ phase = "applied" /\ call.path = p /\ call # NoCall
      /\ Housed /\ Agrees
  BY DiscardSteps DEF ActiveInv, HouseInv, TreeInv, Going
<1>2. /\ call'.op = call.op /\ call'.path = p /\ plan' = plan
      /\ phase' = phase /\ turn' = turn /\ undone' = undone /\ effects' = effects
  <2>1. effects' = effects
    BY <1>1, DiscardLeaves DEF Going
  <2> QED BY <1>1, <2>1, MechanismStepKeeps DEF StepKeeps, owner
<1>3. \A q \in Path : Discards(q)
  BY DiscardNames
<1>4. Displacing' = Displacing
  BY <1>2, DisplacingStays
<1>5. \A q \in Path : Clear(q) => Clear(q)'
  BY <1>3, ClearStays
<1>6. RecoveryTree(p) => RecoveryTree(p)'
  BY <1>2, <1>3, DiscardedTree
<1>7. /\ p \in Displacing /\ undone[p] = "none"
      /\ call.at = "refresh" => Clear(p)
      /\ call.at = "drop" => /\ fs[p].displaced # Absent
                             /\ IsDir(plan.before[p]) => RecoveryTree(p)
  <2>1. DropInv /\ call.op = "discard"
    OBVIOUS
  <2> QED BY ONLY <1>1, <2>1 DEF DropInv
<1>8. fs[p].prepared = Absent
  BY <1>1 DEF TidyInv, Going, Agrees, OneOpen
<1>9. /\ call'.at = "refresh" => Clear(p)'
      /\ call'.at = "returned" /\ answer' = "completed" => Clear(p)'
      /\ call'.at = "drop" => /\ fs'[p].displaced # Absent
                              /\ IsDir(plan.before[p]) => RecoveryTree(p)'
  <2>1. CASE DiscardRecovery(p)
    BY <1>1, <1>5, <1>6, <2>1, DiscardRecoveryDrops
  <2>2. CASE DropBelow(p)
    <3>1. call' = call /\ call.at = "drop"
      BY <2>2 DEF DropBelow, Running
    <3>2. fs'[p].displaced = fs[p].displaced
      <4>1. PICK q \in Path : p \in Above[q] /\ Touches(q)
        BY <1>1, <2>2, DropBelowTouches
      <4>2. p # q
        BY <4>1, PathsAbove
      <4> QED BY <4>1, <4>2 DEF Touches
    <3> QED BY <1>6, <1>7, <3>1, <3>2
  <2>3. CASE Drop(p)
    BY <1>1, <1>8, <2>3, DropTouches DEF Clear
  <2>4. CASE Refresh(p)
    <3>1. call.at = "refresh" /\ Refreshed(p)
      BY <2>4 DEF Refresh, Running
    <3>2. call'.at = "returned"
      BY <1>1, <3>1, RefreshedTouches DEF TypeOK
    <3> QED BY <1>5, <1>7, <3>1, <3>2
  <2> QED BY <2>1, <2>2, <2>3, <2>4, DiscardSteps
<1>10. \A q \in Path : /\ undone'[q] # "none" => q \in Displacing'
                       /\ undone'[q] = "completed" => Clear(q)'
  BY <1>1, <1>2, <1>4, <1>5 DEF DropInv
<1> QED BY <1>2, <1>4, <1>7, <1>9, <1>10 DEF DropInv

\* Without an effect or a discard under way nothing changes.
LEMMA DropStays ==
  ASSUME DropInv, phase' = "applied" => phase = "applied", UNCHANGED <<plan, fs, turn, undone>>,
         call'.op # "discard" \/ UNCHANGED <<call, answer, effects>>
  PROVE  DropInv'
<1> SUFFICES ASSUME phase' = "applied" PROVE DropInv'
  BY DEF DropInv
<1>1. Displacing' = Displacing
  BY DisplacingStays
<1>2. \A q \in Path : /\ undone'[q] # "none" => q \in Displacing'
                      /\ undone'[q] = "completed" => Clear(q)'
  BY <1>1 DEF DropInv, Clear
<1>3. CASE call'.op # "discard"
  BY <1>2, <1>3 DEF DropInv
<1>4. CASE UNCHANGED <<call, answer, effects>>
  BY <1>1, <1>2, <1>4 DEF DropInv, Clear, RecoveryTree, CapturedRemoval
<1> QED BY <1>3, <1>4

LEMMA EngineDrops ==
  ASSUME ActiveInv, DropInv, NEW p \in Path, Engine(p)
  PROVE  DropInv'
<1>1. TypeOK /\ (call # NoCall => Issued)
  BY DEF ActiveInv
<1>2. CASE ExecuteActive(p) \/ RecoverPath(p) \/ RecordEffect(p) \/ RecordRecovery(p)
  <2>1. phase' # "applied"
    BY <1>1, <1>2 DEF ExecuteActive, RecoverPath, RecordEffect, RecordRecovery, owner,
       Returned, Issued, NoCall
  <2> QED BY <2>1 DEF DropInv
<1>3. CASE DiscardPath(p)
  <2>1. /\ phase = "applied" /\ p \in Displacing /\ undone[p] = "none"
        /\ UNCHANGED <<plan, fs, turn, undone, phase>>
        /\ call'.path = p /\ call'.at = "enter"
    BY <1>3 DEF DiscardPath, Issue, owner
  <2>2. Displacing' = Displacing
    BY <2>1, DisplacingStays
  <2> QED BY <2>1, <2>2 DEF DropInv, Clear
<1>4. CASE RecordDiscard(p)
  <2>1. /\ phase = "applied" /\ call.path = p /\ call.op = "discard" /\ call.at = "returned"
        /\ UNCHANGED <<plan, fs, turn, phase>> /\ call' = NoCall
        /\ undone' = [undone EXCEPT ![p] = answer]
    BY <1>1, <1>4 DEF RecordDiscard, Returned, Issued, NoCall
  <2>2. Displacing' = Displacing
    BY <2>1, DisplacingStays
  <2>3. p \in Displacing /\ (answer = "completed" => Clear(p))
    BY <2>1 DEF DropInv
  <2>4. \A q \in Path : undone'[q] = IF q = p THEN answer ELSE undone[q]
    BY <1>1, <2>1 DEF TypeOK
  <2>5. \A q \in Path : /\ undone'[q] # "none" => q \in Displacing'
                        /\ undone'[q] = "completed" => Clear(q)'
    BY <2>1, <2>2, <2>3, <2>4 DEF DropInv, Clear
  <2> QED BY <2>1, <2>5 DEF DropInv, NoCall
<1> QED BY <1>2, <1>3, <1>4 DEF Engine

LEMMA DropNext ==
  ASSUME ActiveInv, TreeInv, HouseInv, TidyInv, DropInv, [BackendNext]_<<vars, backend>>
  PROVE  DropInv'
<1>1. ASSUME NEW p \in Path, Mechanism(p), UNCHANGED owner
      PROVE  DropInv'
  <2>1. phase = "applied" => call.op = "discard"
    BY <1>1, MechanismRuns DEF ActiveInv, Issued
  <2> QED BY <1>1, <2>1, DiscardDrops DEF DropInv, owner
<1>2. ASSUME NEW p \in Path, Lose(p)
      PROVE  DropInv'
  BY <1>2 DEF Lose, owner, DropInv
<1>3. ASSUME NEW p \in Path, Engine(p)
      PROVE  DropInv'
  BY <1>3, EngineDrops
<1>4. CASE Conclude
  <2>1. CASE phase = "forward"
    <3>1. \A q \in Path : undone'[q] = "none"
      BY <1>4, <2>1 DEF Conclude, ActiveInv, Ordered
    <3>2. call'.op # "discard"
      BY <1>4 DEF Conclude, namespace, NoCall
    <3> QED BY <3>1, <3>2 DEF DropInv
  <2> QED BY <1>4, <2>1 DEF Conclude, DropInv
<1>5. CASE UNCHANGED vars \/ GivesUp \/ Synchronizes \/ Crash \/ Throw \/ Reopens
  <2>1. /\ phase' = "applied" => phase = "applied"
        /\ UNCHANGED <<plan, fs, turn, undone>>
    BY <1>5 DEF vars, owner, namespace, GivesUp, Synchronizes, Crash, Throw, Reopens
  <2>2. call'.op # "discard" \/ UNCHANGED <<call, answer, effects>>
    BY <1>5 DEF vars, owner, namespace, GivesUp, Synchronizes, Crash, Throw, Reopens,
                Forget, NoCall, ActiveInv, Issued
  <2> QED BY <2>1, <2>2, DropStays
<1> QED BY <1>1, <1>2, <1>3, <1>4, <1>5, StepCases

LEMMA InitDrop == BackendInit => DropInv
<1> QED BY DEF BackendInit, Init, DropInv

LEMMA DropInvHolds == Spec => []DropInv
<1> QED BY InitDrop, DropNext, ActiveInvHolds, TreeInvHolds, HouseInvHolds, TidyInvHolds,
           PTL DEF Spec

\* Without faults an applied attempt keeps the planned mtimes: a discard moves those
\* above its path and gives them back before it says "completed".
PreciseInv ==
  /\ faults = {} /\ phase = "applied" /\ WellSoFar
  /\ call.at = "returned" => answer = "completed"
  => \A q \in Path : \/ fs[q].leaf = Want(q)
                     \/ /\ call.op = "discard" /\ call.at \in {"drop", "refresh"}
                        /\ q \in Above[call.path]

\* What removals displaced below a displaced directory moves no mtime: the directories
\* it is in have no leaf.
LEMMA DropBelowPrecise ==
  ASSUME ActiveInv, HouseInv, DropInv, NEW p \in Path, DropBelow(p),
         phase = "applied", call.op = "discard", call.path = p
  PROVE  \A x \in Path : fs'[x].leaf = fs[x].leaf
<1>1. TypeOK /\ Housed /\ Apart
  BY DEF ActiveInv, HouseInv, Going
<1>2. call.at = "drop" /\ fs[p].displaced # Absent
      /\ (IsDir(plan.before[p]) => RecoveryTree(p))
  BY DEF DropBelow, Running, DropInv
<1>3. PICK q \in Path : /\ p \in Above[q] /\ fs[q].displaced # Absent
                        /\ fs' = Tree(q, [fs[q] EXCEPT !.displaced = Absent])
                        /\ fs'[q].leaf = fs[q].leaf
  BY <1>1, DropBelowTouches
<1>4. IsDir(plan.before[p]) /\ RecoveryTree(p)
  <2>1. plan.before[q] # Absent
    BY <1>3 DEF ActiveInv, Sound
  <2> QED BY <1>1, <1>2, <1>3, <2>1, TreePlans
<1>5. IsDir(fs[p].displaced)
  BY <1>2, <1>4 DEF ActiveInv, Sound, SameOld, IsDir
<1>6. ASSUME NEW x \in Path, x = Parent[q], IsDir(fs[x].leaf) PROVE FALSE
  <2>1. p = x \/ p \in Above[x]
    BY <1>3, <1>6
  <2>2. CASE p = x
    BY <1>1, <1>5, <1>6, <2>2 DEF Apart
  <2>3. CASE p \in Above[x]
    <3>1. \E s \in Slot : fs[x][s] # Absent
      BY <1>6 DEF Slot, IsDir
    <3> QED BY <1>4, <1>6, <2>3, <3>1 DEF RecoveryTree, IsDir
  <2> QED BY <2>1, <2>2, <2>3
<1>7. ASSUME NEW x \in Path, x # q PROVE fs'[x] = fs[x]
  <2>1. ~(x = Parent[q] /\ IsDir(fs[x].leaf))
    BY <1>6
  <2> QED BY <1>3, <1>7, <2>1 DEF Tree
<1> QED BY <1>3, <1>7

LEMMA MechanismPrecise ==
  ASSUME ActiveInv, TreeInv, HouseInv, DropInv, PreciseInv, UNCHANGED owner,
         NEW p \in Path, Mechanism(p), phase = "applied"
  PROVE  PreciseInv'
<1>1. call.op = "discard" /\ call # NoCall
  BY MechanismRuns DEF ActiveInv, Issued
<1>2. /\ TypeOK /\ call.path = p /\ Agrees /\ Going /\ up = "up" /\ Open = {}
      /\ Housed
  BY <1>1, DiscardSteps DEF ActiveInv, TreeInv, Going, Issued, Agrees, OneOpen, HouseInv
<1>3. /\ plan' = plan /\ faults' = faults /\ call'.op = "discard" /\ call'.path = p
      /\ (WellSoFar' <=> WellSoFar)
      /\ \A q \in Path : Want(q)' = Want(q)
  <2>1. plan' = plan /\ faults' = faults /\ call'.op = "discard" /\ call'.path = p
    BY <1>1, <1>2, MechanismStepKeeps DEF StepKeeps
  <2> QED BY <2>1, ToUndoStays, WantStays DEF owner
<1> SUFFICES ASSUME faults = {}, WellSoFar, call'.at = "returned" => answer' = "completed",
                    NEW q \in Path
             PROVE  \/ fs'[q].leaf = Want(q)
                    \/ call'.at \in {"drop", "refresh"} /\ q \in Above[p]
  BY <1>3 DEF PreciseInv
<1>4. ASSUME call.at # "returned"
      PROVE  \/ fs[q].leaf = Want(q)
             \/ call.at \in {"drop", "refresh"} /\ q \in Above[p]
  BY <1>1, <1>2, <1>4 DEF PreciseInv
<1>5. CASE DiscardRecovery(p)
  <2>1. fs' = fs /\ call.at = "enter"
    BY <1>2, <1>5, DiscardRecoveryDrops
  <2> QED BY <1>4, <2>1
<1>6. CASE DropBelow(p)
  <2>1. call' = call /\ call.at = "drop"
    BY <1>6 DEF DropBelow, Running
  <2>2. fs'[q].leaf = fs[q].leaf
    BY <1>1, <1>2, <1>6, DropBelowPrecise
  <2> QED BY <1>4, <2>1, <2>2
<1>7. CASE Drop(p)
  <2>1. /\ Touches(p) /\ call'.at = "refresh" /\ call.at = "drop"
        /\ fs'[p].leaf = fs[p].leaf
    BY <1>2, <1>7, DropTouches DEF Drop, Running
  <2> QED BY <1>4, <2>1 DEF Touches
<1>8. CASE Refresh(p)
  <2>1. call.at = "refresh" /\ Refreshed(p)
    BY <1>8 DEF Refresh, Running
  <2>2. call'.at = "returned"
    BY <1>2, <2>1, RefreshedTouches DEF TypeOK
  <2>3. /\ \A x \in Above[p] : fs'[x].leaf = Want(x)
        /\ \/ fs'[q].leaf = fs[q].leaf
           \/ q \in Above[p]
    BY <1>2, <2>1, <2>2, RefreshedLeaves
  <2> QED BY <1>4, <2>1, <2>3
<1> QED BY <1>1, <1>5, <1>6, <1>7, <1>8, DiscardSteps

\* Nothing is under way, and nothing changes.
LEMMA PreciseStays ==
  ASSUME PreciseInv, UNCHANGED <<faults, plan, fs, turn, terminal, undone>>,
         phase' = "applied" => phase = "applied",
         faults = {} => \/ UNCHANGED <<call, answer>>
                        \/ call.at \notin {"drop", "refresh", "returned"}
  PROVE  PreciseInv'
<1>1. (WellSoFar' <=> WellSoFar) /\ \A q \in Path : Want(q)' = Want(q)
  BY ToUndoStays, WantStays
<1>2. CASE UNCHANGED <<call, answer>>
  BY <1>1, <1>2 DEF PreciseInv
<1>3. CASE call.at \notin {"drop", "refresh", "returned"}
  BY <1>1, <1>3 DEF PreciseInv
<1>4. CASE faults # {}
  BY <1>4 DEF PreciseInv
<1> QED BY <1>2, <1>3, <1>4

LEMMA ConcludePrecise ==
  ASSUME ActiveInv, TreeInv, PreciseInv, Conclude
  PROVE  PreciseInv'
<1>1. CASE phase = "applied" \/ phase' # "applied"
  BY <1>1 DEF Conclude, PreciseInv
<1>2. CASE phase # "applied" /\ phase' = "applied"
  <2>1. /\ phase = "forward" /\ up = "up" /\ call = NoCall
        /\ UNCHANGED <<plan, fs, turn, terminal>>
    BY <1>2 DEF Conclude, namespace
  <2>2. Agrees /\ fact = "none"
    BY <2>1 DEF TreeInv, Going
  <2>3. Open = {}
    BY <2>1, <2>2 DEF Agrees, OneOpen, NoCall
  <2>4. \A q \in Path : fs[q].leaf = Want(q)
    BY <2>2, <2>3 DEF Agrees, Exact, Untouched
  <2> QED BY <2>1, <2>4, WantStays DEF PreciseInv
<1> QED BY <1>1, <1>2

LEMMA RecordDiscardPrecise ==
  ASSUME ActiveInv, DropInv, PreciseInv, NEW p \in Path, RecordDiscard(p)
  PROVE  PreciseInv'
<1>1. /\ TypeOK /\ phase = "applied" /\ call.path = p /\ call.op = "discard"
      /\ call.at = "returned" /\ call # NoCall
      /\ UNCHANGED <<faults, plan, fs, turn, terminal>> /\ call' = NoCall
      /\ undone' = [undone EXCEPT ![p] = answer]
  BY DEF RecordDiscard, Returned, ActiveInv, Issued, NoCall
<1>2. undone[p] = "none" /\ answer # "none" /\ p \in Intended
  BY <1>1 DEF DropInv, ActiveInv, Issued
<1> SUFFICES ASSUME faults = {}, WellSoFar' PROVE \A q \in Path : fs'[q].leaf = Want(q)'
  BY <1>1 DEF PreciseInv
<1>3. \A q \in Path : undone'[q] = IF q = p THEN answer ELSE undone[q]
  BY <1>1 DEF TypeOK
<1>4. answer = "completed" /\ WellSoFar
  BY <1>1, <1>2, <1>3 DEF WellSoFar, Intended
<1>5. \A q \in Path : fs[q].leaf = Want(q)
  BY <1>1, <1>4 DEF PreciseInv
<1> QED BY <1>1, <1>5, WantStays

LEMMA PreciseNext ==
  ASSUME ActiveInv, TreeInv, HouseInv, DropInv, PreciseInv,
         [BackendNext]_<<vars, backend>>
  PROVE  PreciseInv'
<1>1. ASSUME NEW p \in Path, Mechanism(p), UNCHANGED owner
      PROVE  PreciseInv'
  BY <1>1, MechanismPrecise DEF PreciseInv, owner
<1>2. ASSUME NEW p \in Path, Lose(p)
      PROVE  PreciseInv'
  BY <1>2 DEF Lose, owner, PreciseInv
<1>3. ASSUME NEW p \in Path, Engine(p)
      PROVE  PreciseInv'
  <2>1. CASE ExecuteActive(p) \/ RecoverPath(p) \/ RecordEffect(p) \/ RecordRecovery(p)
    <3>1. phase' # "applied"
      BY <2>1 DEF ActiveInv, ExecuteActive, RecoverPath, RecordEffect, RecordRecovery, owner,
         Returned, Issued, NoCall
    <3> QED BY <3>1 DEF PreciseInv
  <2>2. CASE DiscardPath(p)
    <3>1. /\ UNCHANGED <<faults, plan, fs, turn, terminal, undone, phase>>
          /\ call.at = "idle"
      BY <2>2 DEF DiscardPath, Issue, owner, NoCall
    <3> QED BY <3>1, PreciseStays
  <2>3. CASE RecordDiscard(p)
    BY <2>3, RecordDiscardPrecise
  <2> QED BY <1>3, <2>1, <2>2, <2>3 DEF Engine
<1>4. CASE Conclude
  BY <1>4, ConcludePrecise
<1>5. CASE UNCHANGED vars \/ GivesUp \/ Synchronizes \/ Crash \/ Throw \/ Reopens
  <2>1. /\ phase' = "applied" => phase = "applied"
        /\ UNCHANGED <<faults, plan, fs, turn, terminal, undone>>
    BY <1>5 DEF vars, owner, namespace, GivesUp, Synchronizes, Crash, Throw, Reopens
  <2>2. faults = {} => \/ UNCHANGED <<call, answer>>
                       \/ call.at \notin {"drop", "refresh", "returned"}
    BY <1>5 DEF vars, owner, namespace, GivesUp, Synchronizes, Crash, Throw, Reopens
  <2> QED BY <2>1, <2>2, PreciseStays
<1> QED BY <1>1, <1>2, <1>3, <1>4, <1>5, StepCases

LEMMA InitPrecise == BackendInit => PreciseInv
<1> QED BY DEF BackendInit, Init, PreciseInv

LEMMA PreciseInvHolds == Spec => []PreciseInv
<1> QED BY InitPrecise, PreciseNext, ActiveInvHolds, TreeInvHolds, HouseInvHolds,
           DropInvHolds, PTL DEF Spec

\* An object like the planned one differs from it by the mtime of a directory.
LEMMA AlikeButMtime ==
  ASSUME NEW object \in Object \cup {Absent}, NEW other \in Object \cup {Absent},
         Alike(object, other), Fixed(object), other # Absent => ~other.moved
  PROVE  SameButMtime(object, other)
<1>1. CASE object = Absent
  BY <1>1 DEF Alike, SameButMtime
<1>2. CASE object # Absent /\ IsDir(object)
  BY <1>2, AlikeDirs DEF Alike, SameButMtime
<1>3. CASE object # Absent /\ ~IsDir(object)
  <2>1. object \in Object /\ other \in Object
    BY <1>3 DEF Alike
  <2>2. /\ object.kind = other.kind /\ object.value = other.value
        /\ object.moved = FALSE /\ other.moved = FALSE
    BY <1>3, <2>1 DEF Alike, Fixed, Object
  <2>3. object = other
    BY ONLY <2>1, <2>2 DEF Object
  <2> QED BY <2>3 DEF SameButMtime
<1> QED BY <1>1, <1>2, <1>3

\* After the displaced objects are discarded the planned tree is all there is, for
\* every tree and plan, and however often a discard failed, was cut short and
\* repeated: no name is left over, and only then may an mtime be off.
THEOREM DiscardsLeaveNothing == Spec => []DiscardLeavesNothing
<1>1. ActiveInv /\ TreeInv /\ KeptInv /\ TidyInv /\ DropInv /\ PreciseInv
        => DiscardLeavesNothing
  <2> SUFFICES ASSUME ActiveInv, TreeInv, KeptInv, TidyInv, DropInv, PreciseInv,
                      phase = "applied", \A p \in Intended : terminal[p] = "completed",
                      \A p \in Displacing : undone[p] = "completed",
                      NEW p \in Path
               PROVE  /\ Clear(p)
                      /\ AsPlanned(p) \/ (faults # {} /\ SameButMtime(fs[p].leaf, Final(p)))
    BY DEF DiscardLeavesNothing
  <2>1. TypeOK /\ Agrees /\ Open = {} /\ Want(p) = Final(p)
    BY WantIsFinal DEF ActiveInv, TreeInv, Going, Agrees, OneOpen
  <2>2. fs[p].displaced = Absent
    <3> SUFFICES ASSUME fs[p].displaced # Absent PROVE FALSE
      OBVIOUS
    <3>1. p \in Intended /\ Displaceable(p)
      BY DEF KeptInv, Kept, Clear
    <3>2. p \in Displacing
      BY <3>1 DEF Displaceable, Displacing
    <3> QED BY <3>2 DEF DropInv, Clear
  <2>3. Clear(p)
    BY <2>1, <2>2 DEF TidyInv, Going, Clear
  <2>4. CASE faults = {}
    <3>1. call.op # "discard"
      BY DEF DropInv
    <3>2. call.at # "returned"
      BY <3>1 DEF ActiveInv, Issued, NoCall
    <3>3. WellSoFar
      <4> SUFFICES ASSUME NEW q \in Intended PROVE undone[q] \in {"none", "completed"}
        BY DEF WellSoFar
      <4> QED BY DEF DropInv, Intended
    <3>4. fs[p].leaf = Want(p)
      BY <2>4, <3>1, <3>2, <3>3 DEF PreciseInv
    <3> QED BY <2>1, <2>3, <3>4 DEF AsPlanned
  <2>5. CASE faults # {}
    <3>1. Alike(fs[p].leaf, Final(p)) /\ Fixed(fs[p].leaf)
      BY <2>1 DEF Agrees, Near, KeptInv, Kept
    <3>2. /\ fs[p].leaf \in Object \cup {Absent} /\ Final(p) \in Object \cup {Absent}
          /\ Final(p) # Absent => ~Final(p).moved
      BY <2>1, PlanTyped, PlanUnmoved DEF TypeOK, Final
    <3>3. SameButMtime(fs[p].leaf, Final(p))
      BY <3>1, <3>2, AlikeButMtime
    <3> QED BY <2>3, <2>5, <3>3
  <2> QED BY <2>4, <2>5
<1> QED BY <1>1, ActiveInvHolds, TreeInvHolds, KeptInvHolds, TidyInvHolds, DropInvHolds,
           PreciseInvHolds, PTL

-----------------------------------------------------------------------------
(* What an attempt promises.                                               *)

\* A path without an effect keeps its object, in every phase, and only a directory is
\* retained against its removal.
PromiseInv ==
  /\ \A p \in Path \ Planned : Alike(fs[p].leaf, plan.before[p])
  /\ \A p \in Path : terminal[p] = "conditional_retained" => IsDir(plan.before[p])
  /\ call.at = "returned" /\ answer = "conditional_retained" =>
       IsDir(plan.before[call.path])

\* A step beside a path without an effect leaves it what was admitted.
LEMMA TouchedIsAlike ==
  ASSUME TypeOK, plan' = plan, NEW p \in Path, Touches(p), NEW q \in Path \ {p},
         q \notin Planned, Alike(fs[q].leaf, plan.before[q])
  PROVE  Alike(fs'[q].leaf, plan'.before[q])
<1>1. fs[q].leaf \in Object \cup {Absent}
  BY DEF TypeOK
<1>2. CASE fs'[q].leaf = fs[q].leaf
  BY <1>2
<1>3. CASE /\ IsDir(fs[q].leaf)
           /\ fs'[q].leaf = [fs[q].leaf EXCEPT !.moved = TRUE]
  <2>1. fs[q].leaf \in Object /\ Absent \notin Object
    BY <1>1, <1>3 DEF IsDir
  <2>2. /\ fs'[q].leaf \in Object
        /\ fs'[q].leaf.kind = fs[q].leaf.kind /\ fs'[q].leaf.value = fs[q].leaf.value
    BY ONLY <1>3, <2>1 DEF Object
  <2>3. fs[q].leaf.kind = "dir" /\ plan' = plan
    BY <1>3 DEF IsDir
  <2>4. fs[q].leaf # Absent /\ fs'[q].leaf # Absent
    BY <2>1, <2>2
  <2>5. CASE fs[q].leaf = plan.before[q]
    <3>1. /\ plan'.before[q] # Absent /\ plan'.before[q].kind = "dir"
          /\ plan'.before[q].value = fs[q].leaf.value
      BY <2>3, <2>4, <2>5
    <3> QED BY <2>2, <2>3, <2>4, <3>1 DEF Alike
  <2>6. CASE fs[q].leaf # plan.before[q]
    <3>1. /\ plan.before[q] # Absent /\ plan.before[q].kind = "dir"
          /\ plan.before[q].value = fs[q].leaf.value
      BY <2>3, <2>4, <2>6 DEF Alike
    <3> QED BY <2>2, <2>3, <2>4, <3>1 DEF Alike
  <2> QED BY <2>5, <2>6
<1>4. CASE RefreshTo(q) # Absent /\ fs'[q].leaf = RefreshTo(q)
  <2>1. ~Republished(q)
    BY DEF Republished, Planned
  <2>2. fs'[q].leaf = plan.before[q]
    BY <1>4, <2>1 DEF RefreshTo
  <2> QED BY <2>2 DEF Alike
<1> QED BY <1>2, <1>3, <1>4 DEF Touches

LEMMA RetainsDirectory ==
  ASSUME ActiveInv, NEW p \in Path, Take(p), Mechanism(p), call'.at = "returned",
         answer' = "conditional_retained"
  PROVE  IsDir(plan.before[p])
<1>1. TypeOK /\ call # NoCall /\ call.at = "take" /\ call.path = p
  BY MechanismRuns DEF ActiveInv, Take, Running
<1>2. Admitted(p)
  BY <1>1 DEF ActiveInv, Issued, Placed
<1>3. ~Goto("refresh")
  BY <1>1 DEF Goto, TypeOK
<1>4. answer' # "failed"
  OBVIOUS
<1>5. IsDir(fs[p].leaf)
  BY <1>3, <1>4 DEF Take, Fails, Refuse, Answer
<1> QED BY <1>2, <1>5 DEF Admitted

LEMMA MechanismPromises ==
  ASSUME ActiveInv, TreeInv, KeptInv, PromiseInv, UNCHANGED owner, NEW p \in Path, Mechanism(p)
  PROVE  PromiseInv'
<1>1. /\ TypeOK /\ Shape(p) /\ call # NoCall /\ call.path = p /\ call'.path = p
      /\ plan' = plan /\ terminal' = terminal
  <2>1. TypeOK /\ call # NoCall
    BY MechanismRuns DEF ActiveInv
  <2>2. plan' = plan /\ call'.path = call.path
    BY MechanismStepKeeps DEF StepKeeps
  <2> QED BY <2>1, <2>2, MechanismShape, StepNotes DEF Noted, owner
<1>2. p \in Planned
  BY <1>1 DEF ActiveInv, Issued, Ordered
<1>3. Planned' = Planned
  BY <1>1 DEF Planned
<1>4. ASSUME NEW q \in Path \ Planned
      PROVE  Alike(fs'[q].leaf, plan'.before[q])
  <2>1. Alike(fs[q].leaf, plan.before[q]) /\ q # p
    BY <1>2 DEF PromiseInv
  <2>2. CASE ~DropBelow(p)
    <3>1. Touches(p)
      BY <1>1, <2>2, ShapeTouches
    <3> QED BY <1>1, <2>1, <3>1, TouchedIsAlike
  <2>3. CASE DropBelow(p)
    <3>1. PICK x \in Path : Touches(x) /\ fs'[x].leaf = fs[x].leaf
      BY <1>1, <2>3, DropBelowTouches
    <3>2. CASE x = q
      BY <1>1, <2>1, <3>1, <3>2
    <3>3. CASE x # q
      BY <1>1, <2>1, <3>1, <3>3, TouchedIsAlike
    <3> QED BY <3>2, <3>3
  <2> QED BY <2>2, <2>3
<1>5. ASSUME call'.at = "returned", answer' = "conditional_retained"
      PROVE  IsDir(plan'.before[p])
  BY <1>1, <1>5, WhoAnswers, RetainsDirectory
<1> QED BY <1>1, <1>3, <1>4, <1>5 DEF PromiseInv

LEMMA PromiseNext ==
  ASSUME ActiveInv, TreeInv, KeptInv, PromiseInv, [BackendNext]_<<vars, backend>>
  PROVE  PromiseInv'
<1>1. ASSUME NEW p \in Path, Mechanism(p), UNCHANGED owner
      PROVE  PromiseInv'
  BY <1>1, MechanismPromises
<1>2. ASSUME NEW p \in Path, Lose(p)
      PROVE  PromiseInv'
  <2>1. /\ TypeOK /\ Touches(p) /\ fs'[p].leaf = fs[p].leaf
        /\ UNCHANGED <<plan, call, answer, terminal>>
    BY <1>2, LoseTouches DEF ActiveInv, owner
  <2>2. Planned' = Planned
    BY <2>1 DEF Planned
  <2>3. \A q \in Path \ Planned : Alike(fs'[q].leaf, plan'.before[q])
    BY <2>1, TouchedIsAlike DEF PromiseInv
  <2> QED BY <2>1, <2>2, <2>3 DEF PromiseInv
<1>3. CASE \/ UNCHANGED vars
           \/ \E p \in Path : Engine(p)
           \/ GivesUp \/ Conclude \/ Synchronizes \/ Crash \/ Throw \/ Reopens
  <2>1. fs' = fs /\ plan' = plan
    BY <1>3, EngineMoves
  <2>2. Planned' = Planned
    BY <2>1 DEF Planned
  <2>3. call'.at = "returned" => UNCHANGED <<call, answer>>
    BY <1>3 DEF Engine, ExecuteActive, RecordEffect, RecoverPath, RecordRecovery, DiscardPath,
       RecordDiscard, GivesUp, Conclude, Synchronizes, Crash, Throw, Reopens, vars, owner,
       namespace, Issue, Returned, Forget, NoCall
  <2>4. \/ terminal' = terminal
        \/ /\ call.at = "returned"
           /\ terminal' = [terminal EXCEPT ![call.path] = answer]
    BY <1>3 DEF Engine, ExecuteActive, RecordEffect, RecoverPath, RecordRecovery, DiscardPath,
       RecordDiscard, GivesUp, Conclude, Synchronizes, Crash, Throw, Reopens, vars, owner,
       Returned
  <2>5. \A p \in Path : terminal'[p] = "conditional_retained" => IsDir(plan.before[p])
    BY <2>4 DEF PromiseInv, ActiveInv, TypeOK
  <2> QED BY <2>1, <2>2, <2>3, <2>5 DEF PromiseInv
<1> QED BY <1>1, <1>2, <1>3, StepCases

LEMMA InitPromise == BackendInit => PromiseInv
<1> QED BY DEF BackendInit, Init, PromiseInv, NoCall, Alike

LEMMA PromiseInvHolds == Spec => []PromiseInv
<1> QED BY InitPromise, PromiseNext, ActiveInvHolds, TreeInvHolds, KeptInvHolds, PTL DEF Spec

-----------------------------------------------------------------------------
(* The attempt implements AttemptSpec.                                     *)

LEMMA AlikeIsSame ==
  ASSUME NEW object \in Object \cup {Absent}, NEW other \in Object \cup {Absent},
         Alike(object, other), Fixed(object), Fixed(other)
  PROVE  Promise!Same(object, other)
<1>1. CASE object = Absent
  BY <1>1 DEF Alike, Promise!Same
<1>2. CASE object # Absent /\ IsDir(object)
  BY <1>2, AlikeDirs DEF Alike, Promise!Same, Promise!IsDirectory, IsDir
<1>3. CASE object # Absent /\ ~IsDir(object)
  <2>1. object \in Object /\ other \in Object /\ ~IsDir(other) /\ other # Absent
    BY <1>3, AlikeDirs DEF Alike
  <2>2. /\ object.kind = other.kind /\ object.value = other.value
        /\ object.moved = FALSE /\ other.moved = FALSE
    BY <1>3, <2>1 DEF Alike, Fixed, Object
  <2>3. object = other
    BY ONLY <2>1, <2>2 DEF Object
  <2> QED BY <2>3 DEF Promise!Same
<1> QED BY <1>1, <1>2, <1>3

LEMMA LeavesTyped ==
  ASSUME TypeOK, NEW p \in Path
  PROVE  fs[p].leaf \in Object \cup {Absent}
BY DEF TypeOK

\* A path without an effect holds what was admitted, under one name.
LEMMA AlwaysContained ==
  ASSUME TypeOK, ActiveInv, KeptInv, PromiseInv
  PROVE  Promise!Contained
<1> SUFFICES ASSUME NEW p \in Path, p \notin Planned
             PROVE  Promise!Same(fs[p].leaf, plan.before[p]) /\ Clear(p)
  BY DEF Promise!Contained
<1>1. p \notin Intended
  BY DEF ActiveInv, Ordered
<1>2. Clear(p) /\ Fixed(fs[p].leaf)
  BY <1>1 DEF KeptInv, Kept
<1>3. Fixed(plan.before[p]) /\ plan.before[p] \in Object \cup {Absent}
  BY PlanTyped, PlanUnmoved DEF Fixed
<1>4. Alike(fs[p].leaf, plan.before[p])
  BY DEF PromiseInv
<1> QED BY <1>2, <1>3, <1>4, LeavesTyped, AlikeIsSame

LEMMA VerdictIs ==
  /\ phase \in {"forward", "recover"} => Verdict = "open"
  /\ phase = "applied" => Verdict \in {"applied", "partly"}
  /\ phase = "applied" /\ Verdict = "applied" => \A p \in Intended : terminal[p] = "completed"
BY DEF Verdict

\* What the mapping looks at stays.
LEMMA PromiseStutters ==
  ASSUME UNCHANGED <<fs, plan>>, Verdict' = Verdict
  PROVE  UNCHANGED Promise!vars
BY DEF Promise!vars, Promise!plan, Planned, Final, Clear

LEMMA OpenWorks ==
  ASSUME plan' = plan, phase \in {"forward", "recover"}, phase' \in {"forward", "recover"},
         Promise!Contained'
  PROVE  Promise!Next
<1>1. Verdict = "open" /\ Verdict' = "open"
  BY DEF Verdict
<1>2. UNCHANGED Promise!plan
  BY DEF Promise!plan, Planned, Final
<1> QED BY <1>1, <1>2 DEF Promise!Next, Promise!Work

LEMMA MechanismKeepsPromise ==
  ASSUME ActiveInv, TreeInv, KeptInv, UNCHANGED owner, NEW p \in Path, Mechanism(p),
         TypeOK', KeptInv', Promise!Contained'
  PROVE  Promise!Next
<1>1. /\ TypeOK /\ call # NoCall /\ phase' = phase /\ plan' = plan
  BY MechanismRuns, MechanismStepKeeps DEF ActiveInv, StepKeeps, owner
<1>2. CASE phase \in {"forward", "recover"}
  BY <1>1, <1>2, OpenWorks
<1>3. CASE phase = "applied"
  <2>1. call.op = "discard"
    BY <1>1, <1>3 DEF ActiveInv, Issued
  <2>2. \A q \in Path : Discards(q)
    BY <2>1, DiscardNames
  <2>3. \A q \in Path : Promise!Same(fs'[q].leaf, fs[q].leaf)
    <3> TAKE q \in Path
    <3>1. fs[q].leaf \in Object \cup {Absent} /\ fs'[q].leaf \in Object \cup {Absent}
      BY <1>1 DEF TypeOK
    <3>2. Fixed(fs[q].leaf) /\ Fixed(fs'[q].leaf)
      BY DEF KeptInv, Kept, Fixed
    <3> QED BY <2>2, <3>1, <3>2, AlikeIsSame DEF Discards
  <2>4. \A q \in Path : Clear(q) => Clear(q)'
    BY <2>2, ClearStays
  <2>5. UNCHANGED Promise!plan /\ Verdict' = Verdict
    BY <1>1 DEF Promise!plan, Planned, Final, Verdict, Intended, owner
  <2>6. Verdict \in {"applied", "partly"}
    BY <1>3, VerdictIs
  <2> QED BY <2>3, <2>4, <2>5, <2>6 DEF Promise!Next, Promise!Discard
<1>4. phase # "restored"
  BY <1>1 DEF ActiveInv, Issued
<1> QED BY <1>1, <1>2, <1>3, <1>4 DEF TypeOK

LEMMA ConcludeKeepsPromise ==
  ASSUME ActiveInv, TreeInv, UndoneInv, EndsInv, PromiseInv, Conclude
  PROVE  Promise!Next
<1>1. /\ TypeOK /\ call = NoCall /\ up = "up" /\ UNCHANGED <<fs, plan, turn, terminal, undone>>
      /\ \/ phase = "forward" /\ phase' = "applied"
         \/ /\ phase = "recover" /\ phase' = "restored"
            /\ \A p \in Intended : undone[p] # "none"
  BY DEF Conclude, namespace, ActiveInv
<1>2. Verdict = "open" /\ Intended' = Intended
  BY <1>1 DEF Verdict, Intended
<1>3. UNCHANGED Promise!plan /\ \A p \in Path : Clear(p)' <=> Clear(p)
  BY <1>1 DEF Promise!plan, Planned, Final, Clear
<1>4. ASSUME NEW how, Verdict' = how PROVE Promise!End(how)
  BY <1>1, <1>2, <1>3, <1>4 DEF Promise!End
<1>5. CASE phase = "forward" /\ phase' = "applied"
  <2>1. Agrees /\ fact = "none" /\ Open = {}
    BY <1>1, <1>5 DEF TreeInv, Going, Agrees, OneOpen, NoCall
  <2>2. \A p \in Path : fs[p].leaf = Want(p)
    BY <2>1 DEF Agrees, Exact, Untouched
  <2>3. ASSUME NEW p \in Path \ Intended PROVE Want(p) = Final(p)
    <3>1. plan.effect[p] = "none"
      BY <1>5, <2>3 DEF Conclude, Planned
    <3> QED BY <3>1 DEF Want, Final
  <2>4. CASE \A p \in Intended : terminal[p] = "completed"
    <3>1. \A p \in Path : fs[p].leaf = Final(p)
      BY <2>2, <2>3, <2>4 DEF Want
    <3>2. Verdict' = "applied"
      BY <1>1, <1>2, <1>5, <2>4 DEF Verdict
    <3> QED BY <1>4, <3>1, <3>2 DEF Promise!Next, Promise!Apply
  <2>5. CASE ~\A p \in Intended : terminal[p] = "completed"
    <3>1. Verdict' = "partly"
      BY <1>1, <1>2, <1>5, <2>5 DEF Verdict
    <3>2. ASSUME NEW p \in Path, fs[p].leaf # Final(p)
          PROVE  /\ Final(p) = Absent /\ Promise!IsDirectory(plan.before[p])
                 /\ fs[p].leaf = plan.before[p]
      <4>1. p \in Intended /\ terminal[p] # "completed"
        BY <2>2, <2>3, <3>2 DEF Want
      <4>2. terminal[p] = "conditional_retained" /\ plan.effect[p] = "remove"
        BY <1>5, <2>1, <4>1 DEF EndsInv, Ends
      <4>3. IsDir(plan.before[p])
        BY <4>2 DEF PromiseInv
      <4> QED BY <2>2, <4>1, <4>2, <4>3 DEF Want, Final, Promise!IsDirectory, IsDir
    <3> QED BY <1>4, <3>1, <3>2 DEF Promise!Next, Promise!ApplyPartly
  <2> QED BY <2>4, <2>5
<1>6. CASE phase = "recover" /\ phase' = "restored"
  <2>1. CASE \A p \in Intended : undone[p] = "completed"
    <3>1. WellSoFar /\ ToUndo = {}
      BY <2>1 DEF WellSoFar, ToUndo
    <3>2. \A p \in Path : Back(p) /\ fs[p].leaf = plan.before[p]
      BY <1>6, <3>1 DEF UndoneInv, Back
    <3>3. Verdict' = "restored"
      BY <1>1, <1>2, <1>6, <2>1 DEF Verdict
    <3>4. [p \in Path |-> fs[p].leaf] = plan.before
      <4>1. plan \in Plan
        BY <1>1 DEF TypeOK
      <4>2. plan.before \in [Path -> Object \cup {Absent}]
        BY ONLY <4>1 DEF Plan
      <4>3. \A p \in Path : fs[p].leaf = plan.before[p]
        BY <3>2
      <4> QED BY ONLY <4>2, <4>3
    <3>5. {p \in Path : ~Clear(p)} = {}
      BY <3>2 DEF Back
    <3> QED BY <1>4, <3>3, <3>4, <3>5 DEF Promise!Next, Promise!Restore
  <2>2. CASE ~\A p \in Intended : undone[p] = "completed"
    <3>1. Verdict' = "uncertain"
      BY <1>1, <1>2, <1>6, <2>2 DEF Verdict
    <3> QED BY <1>4, <3>1 DEF Promise!Next, Promise!GiveUp
  <2> QED BY <2>1, <2>2
<1> QED BY <1>1, <1>5, <1>6

\* Beside the operations, and its end, nothing happens to an attempt.
LEMMA EngineKeepsPromise ==
  ASSUME ActiveInv, Promise!Contained',
         \/ UNCHANGED vars
         \/ \E p \in Path : Engine(p)
         \/ GivesUp \/ Synchronizes \/ Crash \/ Throw \/ Reopens
  PROVE  Promise!Next \/ UNCHANGED Promise!vars
<1>1. fs' = fs /\ plan' = plan
  BY EngineMoves
<1>2. ASSUME UNCHANGED <<phase, turn>>, terminal' = terminal, undone' = undone
      PROVE  Verdict' = Verdict
  BY <1>2 DEF Verdict, Intended
<1>3. \/ UNCHANGED <<phase, turn, terminal, undone>>
      \/ phase \in {"forward", "recover"} /\ phase' \in {"forward", "recover"}
      \/ phase = "applied" /\ UNCHANGED <<phase, turn, terminal>>
  <2>1. ASSUME NEW p \in Path, Engine(p)
        PROVE  \/ UNCHANGED <<phase, turn, terminal, undone>>
               \/ phase \in {"forward", "recover"} /\ phase' \in {"forward", "recover"}
               \/ phase = "applied" /\ UNCHANGED <<phase, turn, terminal>>
    <3>1. CASE ExecuteActive(p)
      BY <3>1 DEF ExecuteActive
    <3>2. CASE RecordEffect(p)
      <4>1. phase = "forward"
        BY <3>2 DEF RecordEffect, ActiveInv, Issued, NoCall
      <4> QED BY <3>2, <4>1 DEF RecordEffect
    <3>3. CASE RecoverPath(p) \/ DiscardPath(p)
      BY <3>3 DEF RecoverPath, DiscardPath, owner
    <3>4. CASE RecordRecovery(p)
      <4>1. phase = "recover"
        BY <3>4 DEF RecordRecovery, ActiveInv, Issued, NoCall
      <4> QED BY <3>4, <4>1 DEF RecordRecovery
    <3>5. CASE RecordDiscard(p)
      <4>1. phase = "applied"
        BY <3>5 DEF RecordDiscard, ActiveInv, Issued, NoCall
      <4> QED BY <3>5, <4>1 DEF RecordDiscard, Returned
    <3> QED BY <2>1, <3>1, <3>2, <3>3, <3>4, <3>5 DEF Engine
  <2>2. UNCHANGED vars \/ Synchronizes \/ Crash \/ Throw =>
          UNCHANGED <<phase, turn, terminal, undone>>
    BY DEF vars, owner, Synchronizes, Crash, Throw
  <2>3. GivesUp \/ Reopens =>
          \/ UNCHANGED <<phase, turn, terminal, undone>>
          \/ phase \in {"forward", "recover"} /\ phase' \in {"forward", "recover"}
    BY DEF GivesUp, Reopens
  <2> QED BY <2>1, <2>2, <2>3
<1>4. CASE UNCHANGED <<phase, turn, terminal, undone>>
  BY <1>1, <1>2, <1>4, PromiseStutters
<1>5. CASE phase \in {"forward", "recover"} /\ phase' \in {"forward", "recover"}
  BY <1>1, <1>5, OpenWorks
<1>6. CASE phase = "applied" /\ UNCHANGED <<phase, turn, terminal>>
  <2>1. Verdict' = Verdict
    BY <1>6 DEF Verdict, Intended
  <2> QED BY <1>1, <2>1, PromiseStutters
<1> QED BY <1>3, <1>4, <1>5, <1>6

LEMMA PromiseStep ==
  ASSUME ActiveInv, TreeInv, KeptInv, UndoneInv, EndsInv, PromiseInv,
         ActiveInv', KeptInv', PromiseInv', [BackendNext]_<<vars, backend>>
  PROVE  [Promise!Next]_(Promise!vars)
<1>1. TypeOK /\ TypeOK'
  BY DEF ActiveInv
<1>2. Promise!Contained'
  BY <1>1, AlwaysContained, PTL
<1>3. ASSUME NEW p \in Path, Mechanism(p), UNCHANGED owner
      PROVE  Promise!Next
  BY <1>1, <1>2, <1>3, MechanismKeepsPromise
<1>4. ASSUME NEW p \in Path, Lose(p)
      PROVE  Promise!Next
  <2>1. plan' = plan /\ phase' = phase /\ phase = "recover"
    BY <1>1, <1>4, LoseTouches DEF owner
  <2> QED BY <1>2, <2>1, OpenWorks
<1>5. CASE Conclude
  BY <1>5, ConcludeKeepsPromise
<1>6. CASE \/ UNCHANGED vars
           \/ \E p \in Path : Engine(p)
           \/ GivesUp \/ Synchronizes \/ Crash \/ Throw \/ Reopens
  BY <1>2, <1>6, EngineKeepsPromise
<1> QED BY <1>3, <1>4, <1>5, <1>6, StepCases

LEMMA InitPromised == BackendInit => Promise!Init
<1> SUFFICES ASSUME BackendInit PROVE Promise!Init
  OBVIOUS
<1>1. TypeOK
  BY InitActive DEF ActiveInv
<1>2. /\ phase = "forward"
      /\ \A p \in Path : /\ fs[p].leaf = plan.before[p] /\ fs[p].prepared = Absent
                         /\ fs[p].displaced = Absent
  BY DEF BackendInit, Init
<1>3. plan.before \in [Path -> Object \cup {Absent}]
  BY <1>1 DEF TypeOK, Plan
<1>4. [p \in Path |-> fs[p].leaf] = plan.before
  BY <1>2, <1>3
<1>5. {p \in Path : ~Clear(p)} = {} /\ Verdict = "open"
  BY <1>2 DEF Clear, Verdict
<1> QED BY <1>4, <1>5 DEF Promise!Init

\* The attempt implements AttemptSpec for every tree, every plan and every combination
\* of faults: its verdict is true of the whole tree when it ends, and no failure, death
\* or restart afterwards touches the tree but to discard what was displaced.
THEOREM AttemptKeepsPromise == Spec => KeepsPromise
<1>1. BackendInit => Promise!Init
  BY InitPromised
<1>2. ActiveInv /\ TreeInv /\ KeptInv /\ UndoneInv /\ EndsInv /\ PromiseInv
        /\ ActiveInv' /\ KeptInv' /\ PromiseInv' /\ [BackendNext]_<<vars, backend>>
        => [Promise!Next]_(Promise!vars)
  BY PromiseStep
<1> QED BY <1>1, <1>2, ActiveInvHolds, TreeInvHolds, KeptInvHolds, UndoneInvHolds,
           EndsInvHolds, PromiseInvHolds, PTL DEF Spec, KeepsPromise, Promise!Spec
=============================================================================
